--------------------------- MODULE CircleProposal ---------------------------
(***************************************************************************)
(* The proposals of one circle: how members change its topic and its rules *)
(* by supporting, objecting to and voting on proposals, while deadlines    *)
(* pass, governance holds proposals that were reported, and administrators *)
(* edit or ban the circle.                                                 *)
(*                                                                         *)
(* Every operation is one transaction (Transactions).  All of them write   *)
(* the proposal they are about, if only its participationVersion, which is *)
(* what makes them conflict with the decision of the proposal.             *)
(*                                                                         *)
(* Abstracted: an owner stands for its agents (stances and votes are       *)
(* unique per owner); whether a member is eligible at a moment (any of     *)
(* Members may be, or not, whenever it acts); texts, and with them the     *)
(* revision documents; version, which clients send and which is compared   *)
(* within one snapshot; the reports before the third; the judging of a     *)
(* case (GovernanceCase); comments; the outbox that calls the deadline     *)
(* (ProposalDeadline), whose writes make a transaction abort as any may.   *)
(***************************************************************************)
EXTENDS Integers, FiniteSets, FiniteSetsExt, Transactions

CONSTANTS
  Members,         \* owners of the member agents that take part
  Scopes,          \* what a proposal may change: "TOPIC", "RULES"
  Kinds,           \* kinds of circle to start with
  EligibleCounts,  \* how many owners may be eligible when one proposes
  MinQuorum,       \* the least quorum
  Phase,           \* CIRCLE_PROPOSAL_DISCUSSION_HOURS and ..._VOTING_HOURS
  Lifetime,        \* CIRCLE_PROPOSAL_MAX_LIFETIME_DAYS
  MaxNow,          \* bound: how far the clock goes
  MaxProposals,    \* bound: proposals per scope
  MaxRevision,     \* bound: revisions per proposal
  MaxVersion       \* bound: versions of a scope that administrators make

Proposals == Scopes \X (1..MaxProposals)
Revisions == 1..MaxRevision

ASSUME ProposalAssumption ==
  /\ Scopes \subseteq {"TOPIC", "RULES"} /\ Kinds \subseteq {"NORMAL", "OFFICIAL"}
  /\ IsFiniteSet(Members) /\ EligibleCounts \subseteq Nat /\ MinQuorum \in 1..20
  /\ Phase \in Nat \ {0} /\ Lifetime \in Nat /\ Phase <= Lifetime
  /\ MaxNow \in Nat /\ MaxProposals \in Nat \ {0}
  /\ MaxRevision \in Nat \ {0} /\ MaxVersion \in Nat \ {0}

VARIABLE now    \* the clock

vars == <<db, txn, now>>

-----------------------------------------------------------------------------
(* Documents *)

Circle          == <<"circle">>
Proposal(p)     == <<"proposal", p>>
Stance(p, r, m) == <<"stance", p, r, m>>   \* unique per revision and owner
Vote(p, m)      == <<"vote", p, m>>        \* unique per proposal and owner
Case(p, r)      == <<"case", p, r>>        \* about one revision of a proposal

Active  == {"DISCUSSION", "VOTING"}
Closed  == {"ACCEPTED", "REJECTED", "EXPIRED", "WITHDRAWN", "MODERATED",
            "SUPERSEDED", "POLICY_DISABLED"}
Stances == {"SUPPORT", "OBJECTION"}
VoteChoices == {"APPROVE", "REJECT"}

Null == -1      \* a null date
Free == 0       \* activeGovernanceCaseId is null; else the revision judged

Existing == {p \in Proposals : Has(db, Proposal(p))}

IsActive(p) == p \in Existing /\ db[Proposal(p)].status \in Active

(* The end of the phase that an active proposal is in.                     *)
PhaseDeadline(d) == IF d.status = "DISCUSSION" THEN d.discussion ELSE d.voting

(* What most writes ask of an active proposal: its phase is not over.      *)
InTime(p) == /\ IsActive(p)
             /\ now < PhaseDeadline(db[Proposal(p)])
             /\ now < db[Proposal(p)].expires

IsHeld(p) == db[Proposal(p)].held # Free

Standing(p, r, stance) ==
  {m \in Members : Has(db, Stance(p, r, m)) /\ db[Stance(p, r, m)] = stance}

Voters(p, choice) ==
  {m \in Members : Has(db, Vote(p, m)) /\ db[Vote(p, m)] = choice}

(* Mutant: a tenth of the eligible owners, however few there are.          *)
BugQuorumTenth(eligible) == Min({20, (eligible + 9) \div 10})

(* min(20, max(3, ceil(eligible * 0.1)))                                   *)
Quorum(eligible) == Min({20, Max({MinQuorum, (eligible + 9) \div 10})})

NewProposal(m, base, quorum, t) ==
  [status |-> "DISCUSSION", creator |-> m, base |-> base, rev |-> 1,
   quorum |-> quorum, discussion |-> t + Phase, voting |-> Null,
   expires |-> t + Lifetime, next |-> t + Phase, approve |-> 0, reject |-> 0,
   held |-> Free, resolved |-> Null]

NormalCircle ==
  Put(Circle, [kind |-> "NORMAL", status |-> "ACTIVE", count |-> 0,
               version |-> [sc \in Scopes |-> 1]])

(* A circle from before official circles lost their proposals: one is      *)
(* still active, and may be held by governance.                            *)
LegacyCircle(m, sc, held) ==
  LET p == <<sc, 1>>
  IN  Apply(Put(Circle, [kind |-> "OFFICIAL", status |-> "ACTIVE", count |-> 1,
                         version |-> [x \in Scopes |-> 1]]),
        Apply(Apply(Put(Proposal(p),
                      [NewProposal(m, 1, MinQuorum, 0) EXCEPT !.held = held,
                         !.next = IF held = Free THEN Phase ELSE Null]),
                    Put(Stance(p, 1, m), "SUPPORT")),
              IF held = Free THEN <<>> ELSE Put(Case(p, held), "OPEN")))

Init ==
  /\ db \in (IF "NORMAL" \in Kinds THEN {NormalCircle} ELSE {})
            \cup (IF "OFFICIAL" \in Kinds
                    THEN {LegacyCircle(m, sc, h) :
                            m \in Members, sc \in Scopes, h \in {Free, 1}}
                    ELSE {})
  /\ txn = [s \in Sessions |-> NoTxn]
  /\ now = 0

-----------------------------------------------------------------------------
Begin(s, writes) == OpenTxn(s, writes) /\ UNCHANGED now

(* uq_circle_proposals_active_scope                                        *)
OneActivePerScope(d) ==
  \A p, q \in Proposals :
    /\ p[1] = q[1] /\ Has(d, Proposal(p)) /\ Has(d, Proposal(q))
    /\ d[Proposal(p)].status \in Active /\ d[Proposal(q)].status \in Active
    => p = q

Commit(s) == CommitTxn(s) /\ OneActivePerScope(db') /\ UNCHANGED now

Abort(s) == AbortTxn(s) /\ UNCHANGED now

(* The circle and its proposals allow community work: getCoBuildCircle and *)
(* getActiveCircle.                                                        *)
CoBuild == db[Circle].kind = "NORMAL" /\ db[Circle].status = "ACTIVE"

Touch(p) == Put(Proposal(p), db[Proposal(p)])    \* participationVersion

(* closeProposal, and with a moderation reason the closes of               *)
(* administrators and governance: the circle has n proposals less.         *)
CloseAs(d, status, t) ==
  [d EXCEPT !.status = status, !.resolved = t, !.held = Free, !.next = Null]

Fewer(circle, n) == [circle EXCEPT !.count = Max({0, @ - n})]

Close(p, status, t) ==
  Apply(Put(Proposal(p), CloseAs(db[Proposal(p)], status, t)),
        Put(Circle, Fewer(db[Circle], 1)))

-----------------------------------------------------------------------------
(* What members do *)

Create(s, m, sc) ==
  /\ CoBuild
  /\ \A p \in Existing : p[1] = sc => ~IsActive(p)
  /\ \E n \in 1..MaxProposals, eligible \in EligibleCounts :
       LET p == <<sc, n>>
       IN  /\ p \notin Existing /\ \A k \in 1..(n - 1) : <<sc, k>> \in Existing
           /\ eligible >= 3
           /\ Begin(s, Apply(Apply(
                Put(Proposal(p), NewProposal(m, db[Circle].version[sc],
                                             Quorum(eligible), now)),
                Put(Stance(p, 1, m), "SUPPORT")),
                Put(Circle, [db[Circle] EXCEPT !.count = @ + 1])))

(* A new revision starts the discussion again, without the stances on the  *)
(* one before; there must be time for a whole discussion.                  *)
Revise(s, p) ==
  LET d == db[Proposal(p)]
  IN  /\ CoBuild /\ InTime(p) /\ d.status = "DISCUSSION" /\ ~IsHeld(p)
      /\ d.expires - now >= Phase
      /\ d.rev < MaxRevision
      /\ Begin(s, Apply(
           Put(Proposal(p), [d EXCEPT !.rev = @ + 1, !.discussion = now + Phase,
                               !.next = Min({now + Phase, d.expires})]),
           Put(Stance(p, d.rev + 1, d.creator), "SUPPORT")))

Discussing(p) == InTime(p) /\ db[Proposal(p)].status = "DISCUSSION"

(* Mutant: a stance is recorded without touching the proposal.             *)
BugStanceBeside(s, p, m, stance) ==
  /\ CoBuild /\ Discussing(p)
  /\ Begin(s, Put(Stance(p, db[Proposal(p)].rev, m), stance))

(* A proposal on hold still takes stances, and votes.                      *)
SetStance(s, p, m, stance) ==
  /\ CoBuild /\ Discussing(p)
  /\ Begin(s, Apply(Touch(p), Put(Stance(p, db[Proposal(p)].rev, m), stance)))

WithdrawStance(s, p, m) ==
  LET id == Stance(p, db[Proposal(p)].rev, m)
  IN  /\ CoBuild /\ Discussing(p)
      /\ Begin(s, IF Has(db, id) /\ db[id] \in Stances
                    THEN Apply(Touch(p), Put(id, "WITHDRAWN"))
                    ELSE Touch(p))

CastVote(s, p, m, choice) ==
  LET d == db[Proposal(p)]
  IN  /\ CoBuild /\ InTime(p) /\ d.status = "VOTING" /\ ~Has(db, Vote(p, m))
      /\ Begin(s, Apply(Put(Vote(p, m), choice),
           Put(Proposal(p), IF choice = "APPROVE"
                              THEN [d EXCEPT !.approve = @ + 1]
                              ELSE [d EXCEPT !.reject = @ + 1])))

(* Mutant: the author may withdraw a proposal that is on hold.             *)
BugWithdrawHeld(s, p) ==
  /\ CoBuild /\ Discussing(p)
  /\ Begin(s, Close(p, "WITHDRAWN", now))

WithdrawProposal(s, p) ==
  /\ CoBuild /\ Discussing(p) /\ ~IsHeld(p)
  /\ Begin(s, Close(p, "WITHDRAWN", now))

-----------------------------------------------------------------------------
(* Governance *)

(* openCaseFromReports about revision r, with holdForGovernance: nothing   *)
(* is scheduled while the proposal is on hold.  Any revision may be judged *)
(* and each only once.                                                     *)
OpenCase(s, p, r) ==
  /\ db[Circle].kind = "NORMAL"
  /\ InTime(p) /\ ~IsHeld(p)
  /\ r <= db[Proposal(p)].rev /\ ~Has(db, Case(p, r))
  /\ Begin(s, Apply(Put(Case(p, r), "OPEN"),
       Put(Proposal(p), [db[Proposal(p)] EXCEPT !.held = r, !.next = Null])))

HeldBy(p, r) == IsActive(p) /\ db[Proposal(p)].held = r

(* releaseGovernanceHold; the time that has passed is not given back.      *)
Release(p) ==
  LET d == db[Proposal(p)]
  IN  IF db[Circle].kind = "OFFICIAL" THEN Close(p, "POLICY_DISABLED", now)
      ELSE Put(Proposal(p), [d EXCEPT !.held = Free,
                               !.next = Min({PhaseDeadline(d), d.expires})])

(* resolveCase: its transaction throws unless the proposal is still active *)
(* and held by this very case.                                             *)
ResolveCase(s, p, r) ==
  /\ Has(db, Case(p, r)) /\ db[Case(p, r)] = "OPEN"
  /\ HeldBy(p, r)
  /\ \/ Begin(s, Apply(Put(Case(p, r), "RESOLVED_VIOLATION"),
                       Close(p, "MODERATED", now)))
     \/ Begin(s, Apply(Put(Case(p, r), "RESOLVED_NOT_VIOLATION"), Release(p)))

-----------------------------------------------------------------------------
(* Deadlines *)

(* Mutant: the quorum is compared with the approvals alone.                *)
BugQuorumOfApprovals(d) ==
  d.approve >= d.quorum /\ d.approve * 3 >= (d.approve + d.reject) * 2

Carried(d) ==
  /\ d.approve + d.reject >= d.quorum
  /\ d.approve * 3 >= (d.approve + d.reject) * 2

(* What advanceClaimedDeadline makes of proposal p at time t: its new      *)
(* status.                                                                 *)
Outcome(p, t) ==
  LET d == db[Proposal(p)]
  IN  IF db[Circle].kind = "OFFICIAL" THEN "POLICY_DISABLED"
      ELSE IF d.expires <= t THEN "EXPIRED"
      ELSE IF d.status = "VOTING"
        THEN IF Carried(d) THEN "ACCEPTED" ELSE "REJECTED"
      ELSE IF Cardinality(Standing(p, d.rev, "SUPPORT")) < d.quorum
        THEN "EXPIRED"
      ELSE IF Standing(p, d.rev, "OBJECTION") = {} THEN "ACCEPTED"
      ELSE IF t + Phase > d.expires THEN "EXPIRED"
      ELSE "VOTING"

(* Mutant: an accepted proposal does not give its scope a new version.     *)
BugVersionKept(p, t) == Close(p, "ACCEPTED", t)

(* acceptProposal *)
Accept(p, t) ==
  IF db[Circle].version[p[1]] # db[Proposal(p)].base
    THEN Close(p, "SUPERSEDED", t)
    ELSE Apply(Close(p, "ACCEPTED", t),
               Put(Circle, [Fewer(db[Circle], 1)
                              EXCEPT !.version[p[1]] = @ + 1]))

(* The transaction throws if the circle is not active or the phase not     *)
(* over.                                                                   *)
Advanceable(p, t) ==
  LET d == db[Proposal(p)]
  IN  \/ db[Circle].kind = "OFFICIAL"
      \/ /\ db[Circle].status = "ACTIVE"
         /\ d.expires <= t \/ PhaseDeadline(d) <= t

(* t is when the proposal was leased: some time before the transaction and *)
(* since the transition is due.                                            *)
AdvanceClaimedDeadline(s, p) ==
  LET d == db[Proposal(p)]
  IN  /\ IsActive(p) /\ ~IsHeld(p) /\ d.next # Null
      /\ \E t \in d.next..now :
           /\ Advanceable(p, t)
           /\ LET outcome == Outcome(p, t)
              IN  Begin(s, CASE outcome = "ACCEPTED" -> Accept(p, t)
                             [] outcome = "VOTING" ->
                                  Put(Proposal(p),
                                      [d EXCEPT !.status = "VOTING",
                                         !.voting = t + Phase,
                                         !.next = Min({t + Phase, d.expires})])
                             [] OTHER -> Close(p, outcome, t))

-----------------------------------------------------------------------------
(* Administrators *)

(* closeProposalForAdmin refuses once the phase is over.                   *)
Moderatable(p) == InTime(p) /\ ~IsHeld(p)

ModerateProposal(s, p) ==
  /\ Moderatable(p)
  /\ Begin(s, Close(p, "MODERATED", now))

(* moderateActiveScopeForAdmin for each scope of S, then the change of the *)
(* circle.                                                                 *)
ModerateScopes(S, circle) ==
  LET ended == {p \in Existing : p[1] \in S /\ IsActive(p)}
  IN  Apply([id \in {Proposal(p) : p \in ended} |->
               CloseAs(db[id], "MODERATED", now)],
            Put(Circle, Fewer(circle, Cardinality(ended))))

ScopesFree(S) ==
  \A p \in Existing : p[1] \in S /\ IsActive(p) => Moderatable(p)

UpdateCircle(s, S) ==
  /\ ScopesFree(S)
  /\ \A sc \in S : db[Circle].version[sc] < MaxVersion
  /\ Begin(s, ModerateScopes(S, [db[Circle] EXCEPT
       !.version = [sc \in Scopes |-> IF sc \in S THEN @[sc] + 1 ELSE @[sc]]]))

(* Mutant: a ban leaves the proposals of the circle alone.                 *)
BugBanOnly(s) ==
  /\ db[Circle].status = "ACTIVE"
  /\ Begin(s, Put(Circle, [db[Circle] EXCEPT !.status = "BANNED"]))

BanCircle(s) ==
  /\ db[Circle].status = "ACTIVE" /\ ScopesFree(Scopes)
  /\ Begin(s, ModerateScopes(Scopes, [db[Circle] EXCEPT !.status = "BANNED"]))

UnbanCircle(s) ==
  /\ db[Circle].status = "BANNED"
  /\ Begin(s, Put(Circle, [db[Circle] EXCEPT !.status = "ACTIVE"]))

-----------------------------------------------------------------------------
Tick ==
  /\ now < MaxNow
  /\ now' = now + 1
  /\ UNCHANGED <<db, txn>>

OnProposal(s, p) ==
  \/ Revise(s, p) \/ WithdrawProposal(s, p)
  \/ \E m \in Members : \/ WithdrawStance(s, p, m)
                        \/ \E stance \in Stances : SetStance(s, p, m, stance)
                        \/ \E choice \in VoteChoices : CastVote(s, p, m, choice)
  \/ \E r \in Revisions : OpenCase(s, p, r) \/ ResolveCase(s, p, r)
  \/ AdvanceClaimedDeadline(s, p) \/ ModerateProposal(s, p)

Operation(s) ==
  \/ \E m \in Members, sc \in Scopes : Create(s, m, sc)
  \/ \E p \in Existing : OnProposal(s, p)
  \/ \E S \in SUBSET Scopes \ {{}} : UpdateCircle(s, S)
  \/ BanCircle(s) \/ UnbanCircle(s)

Next ==
  \/ \E s \in Sessions : Operation(s) \/ Commit(s) \/ Abort(s)
  \/ Tick

Spec == Init /\ [][Next]_vars

-----------------------------------------------------------------------------
(* Properties *)

(* The documents have their fields' types, quorums lie between the least   *)
(* and the greatest quorum, and stances, votes and cases are about a       *)
(* proposal, and a revision of it, that exists.                            *)
TypeOK ==
  /\ now \in 0..MaxNow
  /\ db[Circle] \in [kind : Kinds, status : {"ACTIVE", "BANNED"}, count : Nat,
                     version : [Scopes -> Nat]]
  /\ \A p \in Existing :
       db[Proposal(p)] \in
         [status : Active \cup Closed, creator : Members, base : Nat,
          rev : Revisions, quorum : MinQuorum..20, discussion : Nat,
          voting : Nat \cup {Null}, expires : Nat, next : Nat \cup {Null},
          approve : Nat, reject : Nat, held : Revisions \cup {Free},
          resolved : Nat \cup {Null}]
  /\ \A p \in Proposals, m \in Members :
       /\ Has(db, Vote(p, m)) => p \in Existing /\ db[Vote(p, m)] \in VoteChoices
       /\ \A r \in Revisions : Has(db, Stance(p, r, m)) =>
            /\ p \in Existing /\ r <= db[Proposal(p)].rev
            /\ db[Stance(p, r, m)] \in Stances \cup {"WITHDRAWN"}

(* Whatever was decided is what the recorded stances and votes say, also   *)
(* when a stance, a vote or a new revision races with the decision: a      *)
(* proposal is put to the vote only with a quorum of support and an        *)
(* objection, accepted without a vote only with the quorum and no          *)
(* objection, and accepted or rejected after it as two thirds of a quorum  *)
(* have voted; it expires only for want of support or of time.             *)
Supported(p) ==
  Cardinality(Standing(p, db[Proposal(p)].rev, "SUPPORT")) >= db[Proposal(p)].quorum

Objected(p) == Standing(p, db[Proposal(p)].rev, "OBJECTION") # {}

VotedFor(p) ==
  LET yes == Cardinality(Voters(p, "APPROVE"))
      no  == Cardinality(Voters(p, "REJECT"))
  IN  yes + no >= db[Proposal(p)].quorum /\ 3 * yes >= 2 * (yes + no)

OutcomeFollowsParticipation ==
  \A p \in Existing :
    LET d == db[Proposal(p)]
    IN  /\ d.voting # Null => Supported(p) /\ Objected(p)
        /\ d.status = "ACCEPTED" =>
             IF d.voting = Null THEN Supported(p) /\ ~Objected(p) ELSE VotedFor(p)
        /\ d.status = "REJECTED" => d.voting # Null /\ ~VotedFor(p)
        /\ d.status = "EXPIRED" =>
             \/ d.resolved >= d.expires
             \/ d.voting = Null /\ ~Supported(p)
             \/ d.voting = Null /\ Objected(p) /\ d.resolved + Phase > d.expires

(* The counters a decision is taken on are the votes that were cast, one   *)
(* for each owner.                                                         *)
TallyIsVotes ==
  \A p \in Existing :
    /\ db[Proposal(p)].approve = Cardinality(Voters(p, "APPROVE"))
    /\ db[Proposal(p)].reject = Cardinality(Voters(p, "REJECT"))

(* A proposal is held by a case exactly as long as that case is open, so   *)
(* that a verdict always finds the proposal it is about active and on      *)
(* hold: otherwise the resolution would throw, for ever.                   *)
HoldMatchesCase ==
  \A p \in Existing, r \in Revisions :
    (Has(db, Case(p, r)) /\ db[Case(p, r)] = "OPEN") <=> HeldBy(p, r)

(* While governance holds a proposal nothing but its case decides about    *)
(* it: it is not withdrawn, revised, moderated, accepted or expired.       *)
HeldIsFrozen ==
  \A p \in Existing :
    LET d == db[Proposal(p)]  e == db'[Proposal(p)]
    IN  IsHeld(p) /\ <<e.status, e.rev, e.discussion, e.voting, e.held>>
                     # <<d.status, d.rev, d.discussion, d.voting, d.held>>
        => db[Case(p, d.held)] # db'[Case(p, d.held)]

(* The circle counts its active proposals, whatever opens and closes them  *)
(* at the same time.                                                       *)
CountIsActive ==
  db[Circle].count = Cardinality({p \in Existing : IsActive(p)})

(* A proposal whose transition is due can make it: the code treats a       *)
(* banned circle with an active proposal, and a schedule that does not fit *)
(* the phase, as errors, on which the job would fail again and again.      *)
DueCanAdvance ==
  \A p \in Existing : IsActive(p) /\ ~IsHeld(p) =>
    /\ db[Proposal(p)].next # Null
    /\ db[Proposal(p)].next <= now => Advanceable(p, now)

(* Every change of a scope starts from the version it was made for: an     *)
(* active proposal is about the version the circle has, and no two         *)
(* accepted proposals of a scope about the same one.                       *)
NoLostUpdate ==
  \A p \in Existing :
    LET d == db[Proposal(p)]
    IN  /\ IsActive(p) => d.base = db[Circle].version[p[1]]
        /\ d.status = "ACCEPTED" =>
             /\ d.base < db[Circle].version[p[1]]
             /\ \A q \in Existing : /\ q[1] = p[1] /\ q # p
                                    /\ db[Proposal(q)].status = "ACCEPTED"
                                    => db[Proposal(q)].base # d.base

(* Once a proposal is closed neither it nor the stances and votes that     *)
(* decided it ever change.                                                 *)
ClosedIsFinal ==
  \A p \in Existing : ~IsActive(p) =>
    /\ db'[Proposal(p)] = db[Proposal(p)]
    /\ \A m \in Members :
         /\ Has(db', Vote(p, m)) => Has(db, Vote(p, m))
         /\ \A r \in Revisions :
              Has(db', Stance(p, r, m)) =>
                Has(db, Stance(p, r, m)) /\ db'[Stance(p, r, m)] = db[Stance(p, r, m)]

(* A decision follows the votes that were cast, which it counts right.     *)
DecisionsFollowVotes == TallyIsVotes /\ OutcomeFollowsParticipation

(* What is on hold waits for its case, and what is closed stays closed.    *)
DecisionsStand == [][HeldIsFrozen /\ ClosedIsFinal]_vars

(* The circle counts its active proposals, and none of them undoes what    *)
(* another one, or an administrator, changed meanwhile.                    *)
CircleIsKept == CountIsActive /\ NoLostUpdate

(* The guide for agents says that a proposal with an objection goes to the *)
(* vote: one that has the support it needs, and is decided on time within  *)
(* its lifetime, does not expire without a vote.                           *)
ObjectedGoesToVote ==
  \A p \in Existing :
    LET d == db[Proposal(p)]
    IN  Supported(p) /\ Objected(p) /\ d.voting = Null
        /\ d.resolved = d.discussion /\ d.discussion < d.expires
        => d.status # "EXPIRED"

=============================================================================
