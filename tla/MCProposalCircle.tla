-------------------------- MODULE MCProposalCircle --------------------------
(***************************************************************************)
(* Instances of CircleProposal for TLC, with what is proved of it: a       *)
(* circle whose scopes are both proposed for, edited and banned; or one    *)
(* proposal that is revised while its discussion, longer by then, is about *)
(* to end.                                                                 *)
(***************************************************************************)
EXTENDS MCCircleProposal

VARIABLE part

Whole == INSTANCE CircleProposalProofs WITH MaxRevision <- 1

Revised == INSTANCE CircleProposalProofs
             WITH Scopes <- {"TOPIC"}, Kinds <- {"NORMAL"}, Phase <- 2, Lifetime <- 5,
                  MaxNow <- 3, MaxVersion <- 1

CircleInit ==
  \/ part = "whole" /\ Whole!Init
  \/ part = "revised" /\ Revised!Init

CircleNext ==
  /\ UNCHANGED part
  /\ \/ part = "whole" /\ Whole!Next
     \/ part = "revised" /\ Revised!Next

CircleSpec == CircleInit /\ [][CircleNext]_<<part, vars>>

(* The participation in the revision that is decided decides, and not what *)
(* was said of the one before.                                             *)
RevisionsAreDecided ==
  IF part = "whole" THEN Whole!DecisionsFollowVotes ELSE Revised!DecisionsFollowVotes

=============================================================================
