------------------------ MODULE ProposalCircleProofs ------------------------
(***************************************************************************)
(* The two circles of MCProposalCircle are circles of proposals with the   *)
(* constants that it gives them, so that what CircleProposalProofs says of *)
(* any circle holds of them.                                               *)
(***************************************************************************)
EXTENDS MCProposalCircle, TLAPS

(* In a whole circle, with any scopes and any kinds of circle, and one     *)
(* revision of each proposal.                                              *)
LEMMA WholeDecisions == Whole!Spec => []Whole!DecisionsFollowVotes
<1>1. Whole!ProposalAssumption
  BY ProposalAssumption DEF Whole!ProposalAssumption, IsFiniteSet, Whole!IsFiniteSet
<1>. QED
  BY <1>1, Whole!DecisionsSound

(* About the topic of a normal circle, with any number of revisions.       *)
LEMMA RevisedDecisions == Revised!Spec => []Revised!DecisionsFollowVotes
<1>1. Revised!ProposalAssumption
  BY ProposalAssumption DEF Revised!ProposalAssumption, IsFiniteSet, Revised!IsFiniteSet
<1>. QED
  BY <1>1, Revised!DecisionsSound

(* The participation in the revision that is decided decides, and not what *)
(* was said of the one before (RevisionsAreDecided), in both circles, for  *)
(* any members, quorum and number of revisions and sessions: a revision,   *)
(* a stance, a vote and the decision all write the proposal.               *)
THEOREM RevisionsDecided == CircleSpec => []RevisionsAreDecided
<1>1. CircleInit => \/ part = "whole" /\ Whole!Init
                    \/ part = "revised" /\ Revised!Init
  BY DEF CircleInit
<1>2. part = "whole" /\ [CircleNext]_<<part, vars>>
      => (part = "whole")' /\ [Whole!Next]_Whole!vars
  BY DEF CircleNext, vars, Whole!vars
<1>3. part = "revised" /\ [CircleNext]_<<part, vars>>
      => (part = "revised")' /\ [Revised!Next]_Revised!vars
  BY DEF CircleNext, vars, Revised!vars
<1>4. part = "whole" /\ Whole!DecisionsFollowVotes => RevisionsAreDecided
  BY DEF RevisionsAreDecided
<1>5. part = "revised" /\ Revised!DecisionsFollowVotes => RevisionsAreDecided
  BY DEF RevisionsAreDecided
<1>6. Whole!Init /\ [][Whole!Next]_Whole!vars => []Whole!DecisionsFollowVotes
  BY WholeDecisions DEF Whole!Spec
<1>7. Revised!Init /\ [][Revised!Next]_Revised!vars => []Revised!DecisionsFollowVotes
  BY RevisedDecisions DEF Revised!Spec
<1>. QED
  BY <1>1, <1>2, <1>3, <1>4, <1>5, <1>6, <1>7, PTL DEF CircleSpec

=============================================================================
