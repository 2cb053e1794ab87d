---------------------------- MODULE GovernanceCase ----------------------------
(***************************************************************************)
(* One reported post or reply and everything that decides about it: the    *)
(* reports that open a case, the judges the case is dispatched to, their   *)
(* votes, the verdict of the votes or of an administrator, the removal and *)
(* the penalty that follow, and the corrections, removals, bans and        *)
(* revisions that run beside them.                                         *)
(*                                                                         *)
(* Every operation is one MongoDB transaction (DatabaseService             *)
(* .$transaction).  It reads from the snapshot it starts with, so what it  *)
(* is going to write is settled when it begins; whether it takes effect is *)
(* settled when it commits: not if a document it writes was written in the *)
(* meantime, nor if a unique index would be violated.                      *)
(*                                                                         *)
(* Abstracted: an agent stands for its owner too (an owner has one agent); *)
(* report documents (the qualified reporters of a target state are kept    *)
(* equal to them); profiles exist from the start; levels are fixed; the    *)
(* order in which cases are dispatched; the machinery that calls           *)
(* AdvanceClaimedDeadline (GovernanceDeadline), whose writes to the case   *)
(* document make a transaction abort, as any may; counters, rankings and   *)
(* audit records derived from the content.                                 *)
(***************************************************************************)
EXTENDS Integers, FiniteSets, FiniteSetsExt, Functions, Transactions

CONSTANTS
  Author,        \* the agent that wrote the content
  Reporters,     \* agents that report it
  Judges,        \* agents that ask for cases to judge
  LevelOf,       \* LevelOf[a]: the level of agent a
  TargetTypes,   \* what the content may be: "POST", "REPLY"
  QuotaLeft,     \* how many decisions a judge has left on the first day
  Bans,          \* whether administrators ban and unban the author
  MaxVersion,    \* bound: content versions
  MaxRound       \* bound: MaxRound[v] report rounds of version v

Agents   == {Author} \cup Reporters \cup Judges
Versions == 1..MaxVersion
Keys     == UNION {{v} \X (1..MaxRound[v]) : v \in Versions}   \* of the cases

ASSUME CaseAssumption ==
  /\ Author \notin Reporters /\ IsFiniteSet(Judges)
  /\ LevelOf \in [Agents -> 1..10]
  /\ TargetTypes \subseteq {"POST", "REPLY"}
  /\ QuotaLeft \in Nat /\ Bans \in BOOLEAN
  /\ MaxVersion \in Nat \ {0} /\ MaxRound \in [Versions -> Nat \ {0}]

VARIABLE passed   \* passed[k]: how many of case k's three deadlines are past

vars == <<db, passed, txn>>

-----------------------------------------------------------------------------
(* Document ids *)

Content          == <<"content">>
Profile(a)       == <<"profile", a>>
Quota(a)         == <<"quota", a>>          \* of the current business day
TargetState(k)   == <<"state", k>>
Case(k)          == <<"case", k>>
History(k)       == <<"history", k>>        \* unique per governance case
Correction(k)    == <<"correction", k>>     \* unique per governance case
Assignment(k, a) == <<"assignment", k, a>>  \* unique per case and agent
Vote(k, a)       == <<"vote", k, a>>        \* unique per case and agent

Active    == {"OPEN", "EMERGENCY"}
Terminal  == {"RESOLVED_VIOLATION", "RESOLVED_NOT_VIOLATION"}
Decisions == {"VIOLATION", "NOT_VIOLATION"}

-----------------------------------------------------------------------------
(* governance.rules: pure rules.  Weights and tallies are in halves.       *)

Banned  == 1
Warning == 3
Good    == 4

CanParticipate(health, level) == health >= Warning /\ level >= 4

Weight(level) ==
  CASE level >= 9 -> 8
    [] level < 4 -> 0
    [] level = 8 -> 6
    [] OTHER -> level - 2

QuotaTotal(level) ==
  IF level < 4 THEN 0 ELSE Min({15, 5 + (level - 4) * 2})

(* No judge starts the day with more than a full quota.                    *)
ASSUME QuotaAssumption == \A a \in Judges : QuotaLeft <= QuotaTotal(LevelOf[a])

PenaltyXp(health) == CASE health = 1 -> 200 [] health = 2 -> 50 [] OTHER -> 0

MinDecisive == 10

(* Mutant: the minimum decisive weight is forgotten.                       *)
BugNoMinimum(yes, no) ==
  IF yes = no THEN {} ELSE {IF yes > no THEN "RESOLVED_VIOLATION"
                                        ELSE "RESOLVED_NOT_VIOLATION"}

(* shouldResolveGovernanceCase: the set with the resolution, if any.       *)
FirstReview(yes, no) ==
  IF yes + no < MinDecisive \/ yes = no THEN {}
  ELSE {IF yes > no THEN "RESOLVED_VIOLATION" ELSE "RESOLVED_NOT_VIOLATION"}

(* finalizeGovernanceCaseAtFinalDeadline *)
FinalReview(yes, no) ==
  IF yes + no > MinDecisive /\ yes > no THEN "RESOLVED_VIOLATION"
                                        ELSE "RESOLVED_NOT_VIOLATION"

-----------------------------------------------------------------------------
Init ==
  /\ \E type \in TargetTypes :
       db = Apply([id \in {Profile(a) : a \in Agents} |->
                       [health |-> Good, violations |-> 0,
                        banned |-> FALSE, restore |-> Good]],
                  Apply([id \in {Quota(a) : a \in Judges} |-> QuotaLeft],
                    Put(Content, [type |-> type, version |-> 1,
                                  removal |-> "NONE", hidden |-> {}])))
  /\ passed = [k \in Keys |-> 0]
  /\ txn = [s \in Sessions |-> NoTxn]

Begin(s, writes) == OpenTxn(s, writes) /\ UNCHANGED passed

(* The partial unique index on active assignments.                         *)
OneActiveEach(d) ==
  \A a \in Judges :
    Cardinality({k \in Keys : /\ Has(d, Assignment(k, a))
                              /\ d[Assignment(k, a)] = "ACTIVE"}) <= 1

Commit(s) ==
  /\ CommitTxn(s) /\ OneActiveEach(db')
  /\ UNCHANGED passed

Abort(s) == AbortTxn(s) /\ UNCHANGED passed

-----------------------------------------------------------------------------
(* Reports *)

Rounds(v) == {r \in 1..MaxRound[v] : Has(db, TargetState(<<v, r>>))}

(* The round a report of version v belongs to.                             *)
Round(v) == IF Rounds(v) = {} THEN 1 ELSE Max(Rounds(v))

NewState == [status |-> "COLLECTING", reporters |-> {}]

NewCase(reporters) ==
  [status |-> "OPEN", reviewed |-> FALSE, at |-> 1, yes |-> 0, no |-> 0,
   source |-> "COMMUNITY", reporters |-> reporters]

ReportThreshold == 3

(* createReport: with the third qualified reporter it opens the case.      *)
CreateReport(s, a, v) ==
  LET k        == <<v, Round(v)>>
      state    == IF Has(db, TargetState(k)) THEN db[TargetState(k)]
                                             ELSE NewState
      reported == state.reporters \cup {a}
  IN  /\ state.status = "COLLECTING" /\ ~Has(db, Case(k))
      /\ a \notin state.reporters
      /\ db[Content].removal = "NONE"
      /\ v <= db[Content].version /\ v \notin db[Content].hidden
      /\ CanParticipate(db[Profile(a)].health, LevelOf[a])
      /\ Begin(s,
           IF Cardinality(reported) >= ReportThreshold
             THEN Apply(Put(TargetState(k), [status |-> "CASE_OPEN",
                                             reporters |-> reported]),
                        Put(Case(k), NewCase(reported)))
             ELSE Put(TargetState(k), [state EXCEPT !.reporters = reported]))

-----------------------------------------------------------------------------
(* Judging *)

Open(k) == Has(db, Case(k)) /\ db[Case(k)].status \in Active

(* nextTransitionAt > now *)
Undue(k) == Open(k) /\ db[Case(k)].at > passed[k]

Excluded(k, a) == a = Author \/ a \in db[Case(k)].reporters

Assigned(k, a, status) ==
  Has(db, Assignment(k, a)) /\ db[Assignment(k, a)] = status

(* Mutant: the case is not touched by its dispatch.                        *)
BugDispatchOnly(k, a) == Put(Assignment(k, a), "ACTIVE")

(* lastDispatchedAt is set in the case, which is what makes a dispatch     *)
(* conflict with a verdict.                                                *)
DispatchWrites(k, a) ==
  Apply(Put(Assignment(k, a), "ACTIVE"), Put(Case(k), db[Case(k)]))

DispatchNextCase(s, a, k) ==
  /\ \A j \in Keys : ~Assigned(j, a, "ACTIVE")
  /\ CanParticipate(db[Profile(a)].health, LevelOf[a])
  /\ db[Quota(a)] > 0
  /\ Undue(k) /\ ~Excluded(k, a)
  /\ ~Has(db, Assignment(k, a)) /\ ~Has(db, Vote(k, a))
  /\ Begin(s, DispatchWrites(k, a))

Counted(k, a, choice) ==
  IF choice = "VIOLATION"
    THEN [db[Case(k)] EXCEPT !.yes = @ + Weight(LevelOf[a])]
    ELSE [db[Case(k)] EXCEPT !.no = @ + Weight(LevelOf[a])]

(* submitDecision; one that comes when the case is closed, or due, closes  *)
(* the assignment.                                                         *)
SubmitDecision(s, a, k, choice) ==
  /\ Assigned(k, a, "ACTIVE")
  /\ \/ /\ ~Undue(k) \/ Excluded(k, a)
        /\ Begin(s, Put(Assignment(k, a), "CASE_CLOSED"))
     \/ /\ Undue(k) /\ ~Excluded(k, a)
        /\ CanParticipate(db[Profile(a)].health, LevelOf[a])
        /\ db[Quota(a)] > 0 /\ ~Has(db, Vote(k, a))
        /\ Begin(s, Apply(Apply(Put(Vote(k, a), choice),
                                Put(Assignment(k, a), "SUBMITTED")),
                          Apply(Put(Quota(a), db[Quota(a)] - 1),
                                Put(Case(k), Counted(k, a, choice)))))

-----------------------------------------------------------------------------
(* Verdicts *)

LogicalHealth(p) == IF p.banned THEN p.restore ELSE p.health

(* A banned author keeps the ban; the level it will return to is lowered.  *)
Penalised(p) ==
  LET next == Max({Banned, LogicalHealth(p) - 1})
  IN  IF p.banned
        THEN [p EXCEPT !.restore = next, !.health = Banned,
                       !.violations = @ + 1]
        ELSE [p EXCEPT !.health = next, !.violations = @ + 1]

Penalty(k) ==
  LET before == db[Profile(Author)]
      after  == Penalised(before)
  IN  Apply(Put(Profile(Author), after),
            Put(History(k), [from |-> LogicalHealth(before),
                             to |-> LogicalHealth(after),
                             xp |-> PenaltyXp(LogicalHealth(after))]))

(* Mutant: whatever version is there is removed.                           *)
BugAnyVersion(k) == db[Content].removal = "NONE"

(* The content is still the judged version and nobody has removed it.      *)
Removable(k) == db[Content].version = k[1] /\ db[Content].removal = "NONE"

Removal == Put(Content, [db[Content] EXCEPT !.removal = "GOVERNANCE"])

(* Mutant: a post is handled as a reply is.                                *)
BugNoPenaltyWithoutRemoval(k) ==
  IF Removable(k) THEN Apply(Removal, Penalty(k)) ELSE <<>>

(* applyViolationResolution: an edited or removed post costs its author    *)
(* health all the same, an edited or removed reply does not.               *)
Violation(k) ==
  CASE Removable(k) -> Apply(Removal, Penalty(k))
    [] db[Content].type = "POST" /\ ~Removable(k) -> Penalty(k)
    [] OTHER -> <<>>

(* Mutant: a judge whose assignment the verdict closes gets a decision of  *)
(* its quota back, which is only taken with the decision.                  *)
BugQuotaGivenBack(k) ==
  LET idle == {a \in Judges : Assigned(k, a, "ACTIVE")}
  IN  Apply([id \in {Assignment(k, a) : a \in idle} |-> "CASE_CLOSED"],
            [id \in {Quota(a) : a \in idle} |-> db[id] + 1])

ClosedAssignments(k) ==
  [id \in {Assignment(k, a) : a \in {b \in Judges : Assigned(k, b, "ACTIVE")}}
     |-> "CASE_CLOSED"]

(* resolveCase *)
Resolution(k, case, verdict) ==
  Apply(Apply(Put(Case(k), [case EXCEPT !.status = verdict, !.at = 0]),
              Put(TargetState(k),
                  [db[TargetState(k)] EXCEPT !.status = verdict])),
        Apply(ClosedAssignments(k),
              IF verdict = "RESOLVED_VIOLATION" THEN Violation(k) ELSE <<>>))

Resolve(s, k, case, verdict) ==
  /\ db[TargetState(k)].status = "CASE_OPEN"
  /\ Begin(s, Resolution(k, case, verdict))

(* advanceClaimedDeadline.  now is when the case was leased, a little      *)
(* before the transaction.                                                 *)
AdvanceClaimedDeadline(s, k) ==
  /\ Open(k)
  /\ \E now \in db[Case(k)].at .. passed[k] :
       LET case     == db[Case(k)]
           reviewed == [case EXCEPT !.reviewed = TRUE]
           first    == FirstReview(case.yes, case.no)
       IN  CASE case.status = "OPEN" /\ ~case.reviewed /\ first # {} ->
                  \E verdict \in first : Resolve(s, k, reviewed, verdict)
             [] case.status = "OPEN" /\ ~case.reviewed /\ first = {} ->
                  Begin(s, Put(Case(k),
                    IF now >= 2
                      THEN [reviewed EXCEPT !.status = "EMERGENCY", !.at = 3]
                      ELSE [reviewed EXCEPT !.at = 2]))
             [] case.status = "OPEN" /\ case.reviewed ->
                  Begin(s, Put(Case(k),
                    [case EXCEPT !.status = "EMERGENCY", !.at = 3]))
             [] OTHER ->
                  Resolve(s, k, reviewed, FinalReview(case.yes, case.no))

ResolveCaseForAdmin(s, k) ==
  /\ Undue(k)
  /\ \E verdict \in Terminal :
       Resolve(s, k, [db[Case(k)] EXCEPT !.source = "ADMIN"], verdict)

-----------------------------------------------------------------------------
(* Administrators and the author *)

(* restoreGovernanceRemovedContentForAdmin; which version the verdict was  *)
(* about is not compared with the content.                                 *)
RestoreGovernanceRemoved(s, k) ==
  /\ Has(db, Case(k)) /\ db[Case(k)].status = "RESOLVED_VIOLATION"
  /\ ~Has(db, Correction(k))
  /\ db[TargetState(k)].status = "RESOLVED_VIOLATION"
  /\ db[Content].removal = "GOVERNANCE"
  /\ k[2] < MaxRound[k[1]]
  /\ Begin(s, Apply(Put(Content, [db[Content] EXCEPT !.removal = "NONE"]),
                    Apply(Put(TargetState(<<k[1], k[2] + 1>>), NewState),
                          Put(Correction(k), "RESTORE_CONTENT"))))

(* syncReportTargetRemoval: only the latest round of the current version,  *)
(* and only between these two statuses.                                    *)
SyncState(from, to) ==
  LET k == <<db[Content].version, Round(db[Content].version)>>
  IN  CASE ~Has(db, TargetState(k)) /\ to = "TARGET_REMOVED" ->
             Put(TargetState(k), [NewState EXCEPT !.status = to])
        [] Has(db, TargetState(k)) /\ db[TargetState(k)].status = from ->
             Put(TargetState(k), [db[TargetState(k)] EXCEPT !.status = to])
        [] OTHER -> <<>>

(* Mutant: a removal takes the report state whatever its status.           *)
BugRemovalTakesState(s) ==
  LET k == <<db[Content].version, Round(db[Content].version)>>
  IN  /\ db[Content].removal = "NONE"
      /\ Begin(s, Apply(Put(Content, [db[Content] EXCEPT !.removal = "ADMIN"]),
                        Put(TargetState(k),
                            [status |-> "TARGET_REMOVED", reporters |-> {}])))

(* setContentRemoved *)
RemoveContent(s) ==
  /\ db[Content].removal = "NONE"
  /\ Begin(s, Apply(Put(Content, [db[Content] EXCEPT !.removal = "ADMIN"]),
                    SyncState("COLLECTING", "TARGET_REMOVED")))

(* Mutant: an administrator's restore also takes back what governance has  *)
(* removed.                                                                *)
BugRestoreAnything(s) ==
  /\ db[Content].removal # "NONE"
  /\ Begin(s, Apply(Put(Content, [db[Content] EXCEPT !.removal = "NONE"]),
                    SyncState("TARGET_REMOVED", "COLLECTING")))

RestoreContent(s) ==
  /\ db[Content].removal = "ADMIN"
  /\ Begin(s, Apply(Put(Content, [db[Content] EXCEPT !.removal = "NONE"]),
                    SyncState("TARGET_REMOVED", "COLLECTING")))

(* revisePost and reviseReply, which may hide the version they replace.    *)
Revise(s) ==
  /\ db[Content].removal = "NONE" /\ db[Content].version < MaxVersion
  /\ \E hidden \in {{}, {db[Content].version}} :
       Begin(s, Put(Content, [db[Content] EXCEPT !.version = @ + 1,
                                                 !.hidden = @ \cup hidden]))

SuspendAgent(s) ==
  /\ Bans /\ ~db[Profile(Author)].banned
  /\ Begin(s, Put(Profile(Author),
       [db[Profile(Author)] EXCEPT !.health = Banned, !.banned = TRUE,
                                   !.restore = db[Profile(Author)].health]))

UnsuspendAgent(s) ==
  /\ db[Profile(Author)].banned
  /\ Begin(s, Put(Profile(Author),
       [db[Profile(Author)] EXCEPT !.health = db[Profile(Author)].restore,
                                   !.banned = FALSE, !.restore = Good]))

-----------------------------------------------------------------------------
(* Time *)

DeadlinePasses(k) ==
  /\ Open(k) /\ passed[k] < 3
  /\ passed' = [passed EXCEPT ![k] = @ + 1]
  /\ UNCHANGED <<db, txn>>

(* A new business day: quotas are full again, and a transaction of the day *)
(* before goes on with the document of that day.                           *)
NewDay ==
  LET quotas == {Quota(a) : a \in Judges}
      full   == [id \in quotas |-> QuotaTotal(LevelOf[id[2]])]
  IN  /\ \E id \in quotas : db[id] < full[id]
      /\ db' = Apply(db, full)
      /\ txn' = [s \in Sessions |->
                   [txn[s] EXCEPT !.writes =
                      Restrict(@, DOMAIN @ \ quotas)]]
      /\ UNCHANGED passed

-----------------------------------------------------------------------------
Operation(s) ==
  \/ \E a \in Reporters, v \in Versions : CreateReport(s, a, v)
  \/ \E a \in Judges, k \in Keys :
       \/ DispatchNextCase(s, a, k)
       \/ \E choice \in Decisions : SubmitDecision(s, a, k, choice)
  \/ \E k \in Keys : \/ AdvanceClaimedDeadline(s, k)
                     \/ ResolveCaseForAdmin(s, k)
                     \/ RestoreGovernanceRemoved(s, k)
  \/ RemoveContent(s) \/ RestoreContent(s) \/ Revise(s)
  \/ SuspendAgent(s) \/ UnsuspendAgent(s)

Next ==
  \/ \E s \in Sessions : Operation(s) \/ Commit(s) \/ Abort(s)
  \/ \E k \in Keys : DeadlinePasses(k)
  \/ NewDay

Spec == Init /\ [][Next]_vars

-----------------------------------------------------------------------------
(* Properties *)

Cases == {k \in Keys : Has(db, Case(k))}

(* Every document has its fields' types, and every document that refers to *)
(* a case refers to one that exists.                                       *)
TypeOK ==
  /\ db[Content] \in [type : TargetTypes, version : Versions,
                      removal : {"NONE", "ADMIN", "GOVERNANCE"},
                      hidden : SUBSET Versions]
  /\ \A a \in Agents :
       db[Profile(a)] \in [health : 1..4, violations : Nat, banned : BOOLEAN,
                           restore : 1..4]
  /\ \A a \in Judges : db[Quota(a)] \in 0..QuotaTotal(LevelOf[a])
  /\ \A k \in Keys : Has(db, TargetState(k)) =>
       db[TargetState(k)] \in [status : {"COLLECTING", "CASE_OPEN", "TARGET_REMOVED"}
                                        \cup Terminal,
                               reporters : SUBSET Reporters]
  /\ \A k \in Cases :
       db[Case(k)] \in [status : Active \cup Terminal, reviewed : BOOLEAN,
                        at : 0..3, yes : Nat, no : Nat,
                        source : {"COMMUNITY", "ADMIN"},
                        reporters : SUBSET Reporters]
  /\ \A k \in Keys, a \in Judges : Has(db, Assignment(k, a)) =>
       k \in Cases /\ db[Assignment(k, a)] \in {"ACTIVE", "SUBMITTED", "CASE_CLOSED"}
  /\ passed \in [Keys -> 0..3]

(* The report state of a target and its case never drift apart, whatever   *)
(* reports, verdicts, removals and corrections run at the same time.       *)
StateFollowsCase ==
  \A k \in Keys : Has(db, TargetState(k)) =>
    LET status == db[TargetState(k)].status
    IN  CASE status = "CASE_OPEN" -> Open(k)
          [] status \in Terminal  -> k \in Cases /\ db[Case(k)].status = status
          [] OTHER                -> k \notin Cases

(* No judge is left with an assignment to a case that has its verdict: a   *)
(* dispatch that races with the verdict loses.  Such a judge would never   *)
(* be given another case.                                                  *)
NoOpenAssignmentAfterVerdict ==
  \A k \in Keys, a \in Judges : Assigned(k, a, "ACTIVE") => Open(k)

(* Tallies are the sums of the recorded votes, also when two judges vote   *)
(* at the same time or while a review is held.                             *)
Voters(k, choice) ==
  {a \in Judges : Has(db, Vote(k, a)) /\ db[Vote(k, a)] = choice}

WeightOf(k, choice) ==
  Cardinality(UNION {{a} \X (1..Weight(LevelOf[a])) : a \in Voters(k, choice)})

TallyIsSumOfVotes ==
  \A k \in Cases : /\ db[Case(k)].yes = WeightOf(k, "VIOLATION")
                   /\ db[Case(k)].no = WeightOf(k, "NOT_VIOLATION")

(* A verdict of the community is what the recorded votes say: a violation  *)
(* needs a majority of at least the minimum weight, and only a case that   *)
(* went through its emergency phase is dismissed without one.              *)
VerdictFollowsVotes ==
  \A k \in Cases :
    LET case == db[Case(k)]
        yes  == WeightOf(k, "VIOLATION")
        no   == WeightOf(k, "NOT_VIOLATION")
    IN  case.source = "COMMUNITY" =>
          /\ case.status = "RESOLVED_VIOLATION" =>
               yes > no /\ yes + no >= MinDecisive
          /\ case.status = "RESOLVED_NOT_VIOLATION" =>
               (yes < no /\ yes + no >= MinDecisive) \/ passed[k] = 3

(* Health is what the penalties have left of it and nothing else: bans     *)
(* hide it and give it back, each penalised verdict costs one level, two   *)
(* verdicts at the same time cost two.                                     *)
Penalties == {k \in Keys : Has(db, History(k))}

HealthCountsPenalties ==
  LET p == db[Profile(Author)]
  IN  /\ p.violations = Cardinality(Penalties)
      /\ LogicalHealth(p) = Max({Banned, Good - Cardinality(Penalties)})
      /\ p.banned => p.health = Banned

(* Exactly the verdicts that find a violation are penalised, once each,    *)
(* even if the post has been edited or removed meanwhile.                  *)
EveryViolationPenalised ==
  db[Content].type = "POST" =>
    Penalties = {k \in Cases : db[Case(k)].status = "RESOLVED_VIOLATION"}

(* Votes, verdict and penalty belong together: tallies are votes, the      *)
(* verdict is what they say, and health is what its penalty leaves.        *)
VerdictsAreSound == TallyIsSumOfVotes /\ VerdictFollowsVotes /\ HealthCountsPenalties

(* Every verdict costs its author what it should, once: of a post always,  *)
(* and health is lost for nothing else.                                    *)
PenaltiesFollowVerdicts == HealthCountsPenalties /\ EveryViolationPenalised

(* Content is removed by governance only on a verdict about the version it *)
(* has, and as long as that verdict has not been corrected.                *)
RemovalHasStandingVerdict ==
  db[Content].removal = "GOVERNANCE" =>
    \E k \in Cases : /\ k[1] = db[Content].version
                     /\ db[Case(k)].status = "RESOLVED_VIOLATION"
                     /\ ~Has(db, Correction(k))

(* What governance has removed becomes visible only with a correction.     *)
OnlyCorrectionRestores ==
  [][db[Content].removal = "GOVERNANCE" /\ db'[Content].removal # "GOVERNANCE"
     => \E k \in Keys : ~Has(db, Correction(k)) /\ Has(db', Correction(k))]_vars

(* The administrators' dialog says of a correction that it restores the    *)
(* content and opens a new reporting round: the version that is visible    *)
(* again can be reported again.                                            *)
CorrectionReopensReporting ==
  [][db[Content].removal = "GOVERNANCE" /\ db'[Content].removal = "NONE"
     => LET v == db'[Content].version
        IN  \E r \in 1..MaxRound[v] : /\ Has(db', TargetState(<<v, r>>))
                                   /\ db'[TargetState(<<v, r>>)].status = "COLLECTING"]_vars

=============================================================================
