-------------------------- MODULE ProposalDeadline --------------------------
(***************************************************************************)
(* The deadline outbox of the circle proposals: what GovernanceDeadline is *)
(* for the cases, with two differences.  A governance case suspends the    *)
(* deadline of the proposal it is about and restarts it when it ends, and  *)
(* the claim of the compensation sweep takes the dispatch time away.       *)
(*                                                                         *)
(* The batches of the sweeps select, claim, mark and release each document *)
(* by a filter of its own, so the module follows one proposal.  A sweep's  *)
(* find is part of its claim, which repeats the filter.  Time is whether   *)
(* the next deadline has passed and whether a claim or lease is still      *)
(* running; failures are counted up to the one that matters.               *)
(***************************************************************************)
EXTENDS Naturals, FiniteSets

CONSTANTS
  DeadlineWorkers,    \* queue workers: one per API process, concurrency 1
  DeliveryTokens,     \* the UUIDs in use at one time, numbers
  DeadlineAttempts,   \* CIRCLE_PROPOSAL_DEADLINE_JOB_ATTEMPTS
  MaxDeadlineVersion, \* bound: schedules that people cause
  MaxThrows,          \* bound: failing calls
  MaxDeaths,          \* bound: processes that die
  DeathPoints,        \* where they may
  ThrowPoints         \* the calls that may fail

ASSUME ProposalDeadlineAssumption ==
  /\ DeliveryTokens \subseteq Nat \ {0} /\ IsFiniteSet(DeliveryTokens)
  /\ DeadlineAttempts \in Nat \ {0}
  /\ {MaxDeadlineVersion, MaxThrows, MaxDeaths} \subseteq Nat

VARIABLES
  proposal,     \* the CircleProposal document
  deliveries,   \* ADVANCE_PROPOSAL jobs waiting in BullMQ
  hand,         \* hand[w]: where worker w is
  throws, deaths

proposalVars == <<proposal, deliveries, hand, throws, deaths>>

NoToken == 0
AtRest  == [at |-> "idle", tok |-> NoToken]

(* The fields that every new schedule, hold and end of a proposal clears.  *)
Cleared(d) ==
  [d EXCEPT !.claim = NoToken, !.claimLive = FALSE,
            !.lease = NoToken, !.leaseLive = FALSE,
            !.cClaim = NoToken, !.cClaimLive = FALSE, !.delivery = NoToken]

(* scheduleNextTransition, revise and releaseGovernanceHold                *)
Scheduled(d, due) ==
  [Cleared(d) EXCEPT !.due = due, !.version = @ + 1, !.dispatch = TRUE, !.cAt = due]

(* closeProposal and the other ends, and holdForGovernance                 *)
Suspended(d) ==
  [Cleared(d) EXCEPT !.due = "none", !.version = @ + 1, !.published = d.version + 1,
                     !.dispatch = FALSE, !.cAt = "none"]

Closed(d) == [Suspended(d) EXCEPT !.phase = "closed", !.held = FALSE]

New ==
  [phase |-> "discussion", held |-> FALSE, due |-> "later",
   version |-> 1, published |-> 0, dispatch |-> TRUE,
   claim |-> NoToken, claimLive |-> FALSE, lease |-> NoToken, leaseLive |-> FALSE,
   cAt |-> "later", cClaim |-> NoToken, cClaimLive |-> FALSE,
   delivery |-> NoToken, failed |-> FALSE]

ProposalInit ==
  /\ proposal = New
  /\ deliveries = {}
  /\ hand = [w \in DeadlineWorkers |-> AtRest]
  /\ throws = 0
  /\ deaths = 0

Open == proposal.phase # "closed"

UsedTokens ==
  {proposal.claim, proposal.lease, proposal.cClaim, proposal.delivery}
  \cup {j.tok : j \in deliveries} \cup {hand[w].tok : w \in DeadlineWorkers}
  \cup {hand[w].job.tok : w \in {v \in DeadlineWorkers : "job" \in DOMAIN hand[v]}}

(* randomUUID(): one that is not in use, of which there must be some.      *)
FreshTokens == DeliveryTokens \ UsedTokens
FreshToken  == CHOOSE t \in FreshTokens : TRUE

-----------------------------------------------------------------------------
(* What members, administrators and governance cases do.                   *)

Domain(new) ==
  /\ proposal' = new
  /\ UNCHANGED <<deliveries, hand, throws, deaths>>

ReviseProposal ==
  /\ proposal.phase = "discussion" /\ ~proposal.held /\ proposal.due = "later"
  /\ proposal.version < MaxDeadlineVersion
  /\ Domain(Scheduled(proposal, "later"))

HoldForGovernance ==
  /\ Open /\ ~proposal.held /\ proposal.due = "later"
  /\ proposal.version < MaxDeadlineVersion
  /\ Domain([Suspended(proposal) EXCEPT !.held = TRUE])

(* The deadline has not moved: it may have passed meanwhile.  In a circle  *)
(* that has become official the proposal closes instead.                   *)
ReleaseGovernanceHold ==
  /\ Open /\ proposal.held
  /\ \/ \E due \in {"later", "past"} :
          Domain(Scheduled([proposal EXCEPT !.held = FALSE], due))
     \/ Domain(Closed(proposal))

(* Withdrawn, moderated, settled early by full support, or ended by the    *)
(* verdict of the case that holds it.                                      *)
EndProposal ==
  /\ Open /\ (proposal.held \/ proposal.due = "later")
  /\ Domain(Closed(proposal))

-----------------------------------------------------------------------------
(* publishPendingBatch                                                     *)

(* The schedulers' jobs have a priority, which BullMQ serves after the     *)
(* jobs without one.                                                       *)
Deliverable(j) == j.version # proposal.version \/ proposal.due = "past"

SweepTurn(w) == hand[w] = AtRest /\ ~\E j \in deliveries : Deliverable(j) /\ j.tries = 0

Moves(w, to) == hand' = [hand EXCEPT ![w] = to]

ClaimSchedule(w) ==
  /\ SweepTurn(w)
  /\ Open /\ ~proposal.held /\ proposal.due # "none" /\ proposal.dispatch
  /\ proposal.published < proposal.version /\ ~proposal.claimLive
  /\ FreshTokens # {}
  /\ proposal' = [proposal EXCEPT !.claim = FreshToken, !.claimLive = TRUE]
  /\ Moves(w, [at |-> "p_read", tok |-> FreshToken])
  /\ UNCHANGED <<deliveries, throws, deaths>>

ReadBack(w, from, to, token) ==
  /\ hand[w].at = from
  /\ Moves(w, IF token = hand[w].tok
              THEN [at |-> to, tok |-> hand[w].tok, version |-> proposal.version]
              ELSE AtRest)
  /\ UNCHANGED <<proposal, deliveries, throws, deaths>>

JobOf(h) == [version |-> h.version, tok |-> h.tok, tries |-> 0, stalled |-> FALSE]

AddProposalJob(w, from, to) ==
  /\ hand[w].at = from
  /\ deliveries' = deliveries \cup {JobOf(hand[w])}
  /\ Moves(w, [hand[w] EXCEPT !.at = to])
  /\ UNCHANGED <<proposal, throws, deaths>>

(* Mutant: what has been claimed counts as published, whatever became of   *)
(* the schedule.                                                           *)
BugMarksAnyVersion(d, tok, version) ==
  [d EXCEPT !.published = d.version, !.dispatch = FALSE, !.claim = NoToken,
            !.claimLive = FALSE, !.cAt = "none", !.delivery = tok, !.failed = FALSE]

Published(d, tok, version) ==
  IF d.version = version /\ d.claim = tok
  THEN [d EXCEPT !.published = version, !.dispatch = FALSE, !.claim = NoToken,
                 !.claimLive = FALSE, !.cAt = "none", !.delivery = tok,
                 !.failed = FALSE]
  ELSE d

MarkPublished(w) ==
  /\ hand[w].at = "p_mark"
  /\ proposal' = Published(proposal, hand[w].tok, hand[w].version)
  /\ Moves(w, AtRest)
  /\ UNCHANGED <<deliveries, throws, deaths>>

ReleaseScheduleClaim(w) ==
  /\ hand[w].at = "p_undo"
  /\ proposal' = IF proposal.claim = hand[w].tok
                 THEN [proposal EXCEPT !.claim = NoToken, !.claimLive = FALSE]
                 ELSE proposal
  /\ Moves(w, AtRest)
  /\ UNCHANGED <<deliveries, throws, deaths>>

-----------------------------------------------------------------------------
(* publishCompensationBatch                                                *)

ClaimCompensation(w) ==
  /\ SweepTurn(w)
  /\ Open /\ ~proposal.held /\ proposal.due = "past" /\ proposal.failed
  /\ ~proposal.leaseLive /\ proposal.cAt = "past" /\ ~proposal.cClaimLive
  /\ FreshTokens # {}
  /\ proposal' = [proposal EXCEPT !.cAt = "none", !.cClaim = FreshToken,
                                  !.cClaimLive = TRUE, !.delivery = FreshToken]
  /\ Moves(w, [at |-> "c_read", tok |-> FreshToken])
  /\ UNCHANGED <<deliveries, throws, deaths>>

(* The dispatch time is now the end of a lease for the delivery.           *)
MarkCompensated(w) ==
  /\ hand[w].at = "c_mark"
  /\ proposal' = IF proposal.cClaim = hand[w].tok
                 THEN [proposal EXCEPT !.cAt = "later", !.cClaim = NoToken]
                 ELSE proposal
  /\ Moves(w, AtRest)
  /\ UNCHANGED <<deliveries, throws, deaths>>

GivenBack(d, tok) ==
  IF d.cClaim = tok
  THEN [d EXCEPT !.cAt = "past", !.cClaim = NoToken, !.cClaimLive = FALSE,
                 !.delivery = NoToken]
  ELSE d

UndoCompensation(w) ==
  /\ hand[w].at = "c_undo"
  /\ proposal' = GivenBack(proposal, hand[w].tok)
  /\ Moves(w, AtRest)
  /\ UNCHANGED <<deliveries, throws, deaths>>

-----------------------------------------------------------------------------
(* process(ADVANCE_PROPOSAL) and processProposal                           *)

TakeDelivery(w) ==
  /\ hand[w] = AtRest
  /\ \E j \in deliveries :
       /\ Deliverable(j)
       /\ deliveries' = deliveries \ {j}
       /\ Moves(w, [at |-> "a_claim", tok |-> NoToken, job |-> j])
  /\ UNCHANGED <<proposal, throws, deaths>>

(* A delivery that does not match completes its job.                       *)
LeaseProposal(w) ==
  /\ hand[w].at = "a_claim"
  /\ LET j == hand[w].job IN
     \/ /\ Open /\ ~proposal.held /\ proposal.version = j.version
        /\ proposal.due = "past" /\ proposal.delivery = j.tok /\ ~proposal.leaseLive
        /\ FreshTokens # {}
        /\ proposal' = [proposal EXCEPT !.lease = FreshToken, !.leaseLive = TRUE]
        /\ Moves(w, [at |-> "a_tx", tok |-> FreshToken, job |-> j])
     \/ /\ ~(/\ Open /\ ~proposal.held /\ proposal.version = j.version
             /\ proposal.due = "past" /\ proposal.delivery = j.tok /\ ~proposal.leaseLive)
        /\ Moves(w, AtRest)
        /\ UNCHANGED proposal
  /\ UNCHANGED <<deliveries, throws, deaths>>

LeaseHolds(d, version, tok) ==
  /\ d.phase # "closed" /\ ~d.held
  /\ d.version = version /\ d.lease = tok /\ d.due = "past"

(* advanceClaimedDeadline: a discussion may lead to a vote, or to an end.  *)
AdvanceProposal(w) ==
  /\ hand[w].at = "a_tx"
  /\ IF LeaseHolds(proposal, hand[w].job.version, hand[w].tok)
     THEN \/ proposal' = Closed(proposal)
          \/ /\ proposal.phase = "discussion"
             /\ proposal' = [Scheduled(proposal, "later") EXCEPT !.phase = "voting",
                                                                 !.failed = FALSE]
     ELSE UNCHANGED proposal
  /\ Moves(w, AtRest)
  /\ UNCHANGED <<deliveries, throws, deaths>>

EndOfAttempt(w, j) ==
  IF j.tries + 1 < DeadlineAttempts
  THEN /\ deliveries' = deliveries \cup {[j EXCEPT !.tries = @ + 1]}
       /\ Moves(w, AtRest)
  ELSE /\ Moves(w, [at |-> "f_write", tok |-> NoToken, job |-> j])
       /\ UNCHANGED deliveries

ReleaseLease(w) ==
  /\ hand[w].at = "a_release"
  /\ LET j == hand[w].job IN
     /\ proposal' = IF proposal.version = j.version /\ proposal.lease = hand[w].tok
                    THEN [proposal EXCEPT !.lease = NoToken, !.leaseLive = FALSE]
                    ELSE proposal
     /\ EndOfAttempt(w, j)
  /\ UNCHANGED <<throws, deaths>>

(* releaseFailedDelivery; its two calls agree on everything but the count. *)
FailureRecorded(d, j) ==
  IF d.version = j.version /\ d.delivery = j.tok
  THEN [d EXCEPT !.cAt = "later", !.cClaim = NoToken, !.cClaimLive = FALSE,
                 !.delivery = NoToken, !.failed = TRUE]
  ELSE d

ReleaseFailedDelivery(w) ==
  /\ hand[w].at = "f_write"
  /\ proposal' = FailureRecorded(proposal, hand[w].job)
  /\ Moves(w, AtRest)
  /\ UNCHANGED <<deliveries, throws, deaths>>

-----------------------------------------------------------------------------
(* Faults and time.                                                        *)

(* A call throws; an addBulk that throws may have been accepted.           *)
CallThrows(w) ==
  /\ hand[w].at \in ThrowPoints /\ throws < MaxThrows
  /\ throws' = throws + 1
  /\ \/ /\ hand[w].at \in {"p_read", "c_read"}
        /\ Moves(w, AtRest) /\ UNCHANGED deliveries
     \/ /\ hand[w].at \in {"p_add", "p_mark", "c_add", "c_mark"}
        /\ Moves(w, [hand[w] EXCEPT !.at =
                       IF @ \in {"p_add", "p_mark"} THEN "p_undo" ELSE "c_undo"])
        /\ \/ UNCHANGED deliveries
           \/ /\ hand[w].at \in {"p_add", "c_add"}
              /\ deliveries' = deliveries \cup {JobOf(hand[w])}
     \/ /\ hand[w].at = "a_claim"
        /\ EndOfAttempt(w, hand[w].job)
     \/ /\ hand[w].at = "a_tx"
        /\ Moves(w, [hand[w] EXCEPT !.at = "a_release"]) /\ UNCHANGED deliveries
  /\ UNCHANGED <<proposal, deaths>>

(* The process dies; BullMQ gives a stalled job out once more.             *)
WorkerDies(w) ==
  /\ hand[w].at \in DeathPoints /\ deaths < MaxDeaths
  /\ deaths' = deaths + 1
  /\ deliveries' = IF "job" \in DOMAIN hand[w] /\ ~hand[w].job.stalled
                   THEN deliveries \cup {[hand[w].job EXCEPT !.stalled = TRUE]}
                   ELSE deliveries
  /\ Moves(w, AtRest)
  /\ UNCHANGED <<proposal, throws>>

ProposalComesDue ==
  /\ proposal.due = "later"
  /\ Domain([proposal EXCEPT !.due = "past"])

ScheduleClaimRunsOut ==
  /\ proposal.claimLive
  /\ Domain([proposal EXCEPT !.claimLive = FALSE])

LeaseRunsOut ==
  /\ proposal.leaseLive
  /\ Domain([proposal EXCEPT !.leaseLive = FALSE])

CompensationComesDue ==
  /\ proposal.cAt = "later" /\ proposal.failed
  /\ Domain([proposal EXCEPT !.cAt = "past", !.cClaimLive = FALSE])

CompensationClaimRunsOut ==
  /\ proposal.cClaimLive
  /\ Domain([proposal EXCEPT !.cClaimLive = FALSE])

-----------------------------------------------------------------------------
People == ReviseProposal \/ HoldForGovernance \/ ReleaseGovernanceHold \/ EndProposal

DeadlineSweepStep(w) ==
  \/ ClaimSchedule(w) \/ ReadBack(w, "p_read", "p_add", proposal.claim)
  \/ AddProposalJob(w, "p_add", "p_mark") \/ MarkPublished(w) \/ ReleaseScheduleClaim(w)
  \/ ClaimCompensation(w) \/ ReadBack(w, "c_read", "c_add", proposal.cClaim)
  \/ AddProposalJob(w, "c_add", "c_mark") \/ MarkCompensated(w) \/ UndoCompensation(w)

DeadlineJobStep(w) ==
  LeaseProposal(w) \/ AdvanceProposal(w) \/ ReleaseLease(w) \/ ReleaseFailedDelivery(w)

Clock ==
  \/ ProposalComesDue \/ ScheduleClaimRunsOut \/ LeaseRunsOut
  \/ CompensationComesDue \/ CompensationClaimRunsOut

ProposalNext ==
  \/ People \/ Clock
  \/ \E w \in DeadlineWorkers :
       DeadlineSweepStep(w) \/ TakeDelivery(w) \/ DeadlineJobStep(w) \/ CallThrows(w) \/ WorkerDies(w)

(* A case that holds a proposal ends (GovernanceDeadline), the schedulers  *)
(* repeat their sweeps, a worker goes on with what it has begun.             *)
ProposalFairness ==
  /\ WF_proposalVars(ReleaseGovernanceHold)
  /\ WF_proposalVars(ProposalComesDue) /\ WF_proposalVars(ScheduleClaimRunsOut)
  /\ WF_proposalVars(LeaseRunsOut) /\ WF_proposalVars(CompensationComesDue)
  /\ WF_proposalVars(CompensationClaimRunsOut)
  /\ \A w \in DeadlineWorkers :
       /\ WF_proposalVars(DeadlineSweepStep(w)) /\ WF_proposalVars(DeadlineJobStep(w))
       /\ SF_proposalVars(TakeDelivery(w))

ProposalSpec == ProposalInit /\ [][ProposalNext]_proposalVars /\ ProposalFairness

-----------------------------------------------------------------------------
(* What must hold.                                                         *)

ProposalTypeOK ==
  /\ proposal.phase \in {"discussion", "voting", "closed"}
  /\ {proposal.due, proposal.cAt} \subseteq {"none", "later", "past"}
  /\ proposal.published <= proposal.version
  /\ {proposal.claim, proposal.lease, proposal.cClaim, proposal.delivery}
       \subseteq DeliveryTokens \cup {NoToken}
  /\ proposal.claimLive => proposal.claim # NoToken
  /\ \A j \in deliveries : j.tok \in DeliveryTokens /\ j.tries < DeadlineAttempts

(* A hold suspends everything that was under way: no sweep or delivery     *)
(* that began before it puts a claim, a lease, a delivery or a dispatch    *)
(* time back into the proposal (every later write must miss).              *)
HoldSuspends ==
  proposal.held =>
    /\ {proposal.claim, proposal.lease, proposal.cClaim, proposal.delivery} = {NoToken}
    /\ ~proposal.dispatch /\ proposal.cAt = "none" /\ proposal.due = "none"

(* An open proposal whose deadline runs is waiting for a sweep, or has its *)
(* current delivery in the queue or in a worker's hands, or has a failure  *)
(* and a time at which it is delivered again.                              *)
DeadlineIsAwaited ==
  Open /\ ~proposal.held =>
    \/ proposal.published < proposal.version /\ proposal.dispatch
    \/ \E j \in deliveries \cup {hand[w].job : w \in
                 {v \in DeadlineWorkers : "job" \in DOMAIN hand[v]}} :
         j.version = proposal.version /\ j.tok = proposal.delivery
    \/ proposal.failed /\ proposal.cAt # "none"
    \/ \E w \in DeadlineWorkers :
         hand[w].tok = proposal.cClaim /\ hand[w].at \in {"c_read", "c_add", "c_undo"}

(* A proposal is watched exactly as long as its deadline runs: nothing is  *)
(* forgotten while it runs, nothing is left of it while it is suspended.   *)
ProposalIsWatched == HoldSuspends /\ DeadlineIsAwaited

=============================================================================
