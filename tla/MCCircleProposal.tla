-------------------------- MODULE MCCircleProposal --------------------------
(* Instances of CircleProposal for TLC.                                    *)
EXTENDS CircleProposal, TLC

CONSTANTS m1, m2, m3, m4, s1, s2

(* Members are interchangeable, and so are sessions.                       *)
MCSymmetry == Permutations(Members) \cup Permutations(Sessions)

=============================================================================
