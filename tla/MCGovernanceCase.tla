-------------------------- MODULE MCGovernanceCase --------------------------
(* Instances of GovernanceCase for TLC.                                    *)
EXTENDS GovernanceCase, TLC

CONSTANTS author, r1, r2, r3, j1, j2, j3, s1, s2

(* Three reporters and two judges of level 7 (weight 2.5): together they   *)
(* reach the minimum decisive weight exactly, apart they tie.              *)
MCEvenLevels == [a \in Agents |-> IF a \in {j1, j2} THEN 7 ELSE 4]

(* Judges of levels 8, 6 and 4 (weights 3, 2 and 1): they can tie, miss    *)
(* the minimum decisive weight, reach it exactly and exceed it.            *)
MCGradedLevels ==
  [a \in Agents |-> CASE a = j1 -> 8 [] a = j2 -> 6 [] OTHER -> 4]

(* One report round of each version, or a second one of the first version. *)
MCOneRound        == [v \in Versions |-> 1]
MCSecondRoundOfV1 == [v \in Versions |-> IF v = 1 THEN 2 ELSE 1]

(* Reporters are interchangeable, and so are sessions.                     *)
MCSymmetry == Permutations({r1, r2, r3}) \cup Permutations(Sessions)

=============================================================================
