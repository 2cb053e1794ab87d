------------------------- MODULE GovernanceDeadline -------------------------
(***************************************************************************)
(* The deadline outbox of the governance cases: a case document carries    *)
(* its next transition and a deadline version; a sweep publishes one       *)
(* delayed BullMQ job per version; the job leases the case and advances it *)
(* in a transaction; a second sweep redelivers what has failed for good.   *)
(*                                                                         *)
(* Kept: every filter and every field the filters read, each await as a    *)
(* step of its own, crashes, redelivered jobs, failed database and queue   *)
(* calls, the batch limit.  Abstracted: the tally (a review resolves or    *)
(* not, GovernanceCase has the votes), wall-clock time (a case counts the  *)
(* deadlines that have passed; a lease is live until it expires), the      *)
(* UUIDs (fresh elements of Tokens; the batch token also stands for the    *)
(* delivery tokens of its batch, which are only compared within one case). *)
(***************************************************************************)
EXTENDS Integers, FiniteSets

CONSTANTS
  Cases,        \* governance cases opened by reports
  Workers,      \* queue workers: one per API process, concurrency 1
  Tokens,       \* the UUIDs in use at one time, a set of numbers
  BatchSize,    \* cases claimed by one sweep
  Attempts,     \* BullMQ attempts of an ADVANCE_CASE job
  MaxStalled,   \* how often BullMQ requeues a job whose worker went silent
  MaxCrashes,   \* bound: crashes in one behaviour
  MaxErrors,    \* bound: failing database and queue calls in one behaviour
  CrashPoints,  \* the program points at which a worker may die
  ErrorPoints   \* the program points whose call may fail

ASSUME BoundsAssumption ==
  /\ Tokens \subseteq Nat
  /\ BatchSize \in Nat \ {0} /\ Attempts \in Nat \ {0}
  /\ MaxStalled \in Nat /\ MaxCrashes \in Nat /\ MaxErrors \in Nat

None == -1                    \* a null token, lease or job field

VARIABLES
  doc,          \* doc[c]: the GovernanceCase document of c
  passed,       \* passed[c]: how many of c's three deadlines lie in the past
  jobs,         \* ADVANCE_CASE jobs waiting in BullMQ
  loc,          \* loc[w]: where worker w is, and its local variables
  crashes,      \* crashes so far
  errors,       \* failing calls so far
  delivered     \* history: <<c, v>> for which a job was ever enqueued

vars == <<doc, passed, jobs, loc, crashes, errors, delivered>>
faults == <<crashes, errors>>

Active   == {"OPEN", "EMERGENCY"}
Terminal == {"RESOLVED_VIOLATION", "RESOLVED_NOT_VIOLATION"}

SweepPoints == {"p_claim", "p_read", "p_add", "p_mark", "p_undo",
                "c_claim", "c_read", "c_add", "c_mark", "c_undo"}
JobPoints   == {"a_claim", "a_tx", "a_release", "f_read", "f_write"}

(* at is the index of nextTransitionAt among firstReviewAt,                *)
(* normalDeadlineAt and emergencyDeadlineAt, 0 when it is null.            *)
Doc == [status : Active \cup Terminal, reviewed : BOOLEAN,
        at : 0..3, version : Nat, published : Nat, dispatch : BOOLEAN,
        sTok : Tokens \cup {None}, sVer : Nat \cup {None}, sLive : BOOLEAN,
        sDel : Tokens \cup {None},
        eTok : Tokens \cup {None}, eVer : Nat \cup {None}, eLive : BOOLEAN,
        cAt : {"null", "later", "now"},
        cTok : Tokens \cup {None}, cLive : BOOLEAN, cDel : Tokens \cup {None},
        fails : Nat]

Job      == [c : Cases, ver : Nat, at : 0..3, tok : Tokens,
             att : Nat, stalls : Nat]
Delivery == [c : Cases, ver : Nat, at : 0..3]

Points   == {"idle"} \cup SweepPoints \cup JobPoints
Local    == [pc : Points, tok : Tokens \cup {None}, batch : SUBSET Delivery,
             job : SUBSET Job, owns : BOOLEAN, now : 0..3, fails : Nat]

(* job is the set with the job being processed; owns tells whether the     *)
(* worker still holds BullMQ's lock on it.                                 *)
Idle == [pc |-> "idle", tok |-> None, batch |-> {}, job |-> {},
         owns |-> FALSE, now |-> 0, fails |-> 0]

(* openCaseFromReports: the schedule a new case is inserted with.          *)
NewCase ==
  [status |-> "OPEN", reviewed |-> FALSE, at |-> 1, version |-> 1,
   published |-> 0, dispatch |-> TRUE,
   sTok |-> None, sVer |-> None, sLive |-> FALSE, sDel |-> None,
   eTok |-> None, eVer |-> None, eLive |-> FALSE,
   cAt |-> "later", cTok |-> None, cLive |-> FALSE, cDel |-> None,
   fails |-> 0]

Init ==
  /\ doc = [c \in Cases |-> NewCase]
  /\ passed = [c \in Cases |-> 0]
  /\ jobs = {}
  /\ loc = [w \in Workers |-> Idle]
  /\ crashes = 0 /\ errors = 0
  /\ delivered = {}

-----------------------------------------------------------------------------
(* Helpers *)

Due(c) == doc[c].at # 0 /\ doc[c].at <= passed[c]

(* randomUUID(): a token nothing refers to any more.  The least one is     *)
(* taken so that TLC does not explore renamings of the same state.         *)
Used == (UNION {{doc[c].sTok, doc[c].sDel, doc[c].eTok, doc[c].cTok,
                 doc[c].cDel} : c \in Cases})
        \cup {j.tok : j \in jobs}
        \cup {loc[w].tok : w \in Workers}
        \cup (UNION {{j.tok : j \in loc[w].job} : w \in Workers})

Fresh == {t \in Tokens \ Used : \A u \in Tokens \ Used : t <= u}

Goto(w, pc) == loc' = [loc EXCEPT ![w].pc = pc]
Return(w)   == loc' = [loc EXCEPT ![w] = Idle]

(* Case c is in w's batch with the deadline version it still has.          *)
InBatch(w, c) == \E b \in loc[w].batch : b.c = c /\ b.ver = doc[c].version

(* The candidates a sweep picks: at most BatchSize of those that match.    *)
Batches(S) ==
  {B \in SUBSET S : B # {} /\ Cardinality(B) <= BatchSize
                    /\ (B # S => Cardinality(B) = BatchSize)}

(* Mutant: the case is scheduled for the deadline after the next one.      *)
BugRescheduledTooFar(d, at) ==
  [d EXCEPT !.version = @ + 1, !.at = at + 1, !.dispatch = TRUE]

(* scheduleNextDeadline *)
Rescheduled(d, at) ==
  [d EXCEPT !.version = @ + 1, !.at = at, !.dispatch = TRUE,
            !.sTok = None, !.sVer = None, !.sLive = FALSE, !.sDel = None,
            !.eTok = None, !.eVer = None, !.eLive = FALSE,
            !.cAt = "later", !.cTok = None, !.cLive = FALSE, !.cDel = None,
            !.fails = 0]

(* completeDeadlineSchedule *)
Completed(d) ==
  [d EXCEPT !.version = @ + 1, !.published = d.version + 1, !.at = 0,
            !.dispatch = FALSE,
            !.sTok = None, !.sVer = None, !.sLive = FALSE, !.sDel = None,
            !.eTok = None, !.eVer = None, !.eLive = FALSE,
            !.cAt = "null", !.cTok = None, !.cLive = FALSE, !.cDel = None,
            !.fails = 0]

(* resolveCase, its document part *)
Resolved(d, verdict) == Completed([d EXCEPT !.status = verdict])

-----------------------------------------------------------------------------
(* The schedulers' jobs are prioritized ones, which BullMQ serves only when *)
(* no unprioritized job waits: a case job whose delay has elapsed and that *)
(* is not backing off after a failed attempt.                              *)
Waiting(j) == j.at <= passed[j.c] /\ j.att = 0

SweepsServed == ~\E j \in jobs : Waiting(j)

-----------------------------------------------------------------------------
(* publishPendingBatch: one step per await *)

Publishable(d) ==
  /\ d.status \in Active /\ d.dispatch
  /\ d.published < d.version
  /\ ~d.sLive

StartPublish(w) ==
  /\ loc[w].pc = "idle" /\ SweepsServed
  /\ \E S \in Batches({c \in Cases : Publishable(doc[c]) /\ doc[c].at # 0}),
        t \in Fresh :
       loc' = [loc EXCEPT ![w].pc = "p_claim", ![w].tok = t,
                 ![w].batch = {[c |-> c, ver |-> doc[c].version,
                                at |-> doc[c].at] : c \in S}]
  /\ UNCHANGED <<doc, passed, jobs, faults, delivered>>

PublishClaim(w) ==
  /\ loc[w].pc = "p_claim"
  /\ doc' = [c \in Cases |->
                IF InBatch(w, c) /\ Publishable(doc[c])
                  THEN [doc[c] EXCEPT !.sTok = loc[w].tok, !.sVer = doc[c].version,
                                      !.sLive = TRUE, !.sDel = loc[w].tok]
                  ELSE doc[c]]
  /\ Goto(w, "p_read")
  /\ UNCHANGED <<passed, jobs, faults, delivered>>

(* The batch is read back by its token: what another sweep has taken in    *)
(* the meantime, or what has been resolved, is not delivered.              *)
PublishRead(w) ==
  /\ loc[w].pc = "p_read"
  /\ LET mine == {c \in Cases : doc[c].sTok = loc[w].tok}
     IN  IF mine = {} THEN Return(w)
         ELSE loc' = [loc EXCEPT ![w].pc = "p_add",
                        ![w].batch = {[c |-> c, ver |-> doc[c].version,
                                       at |-> doc[c].at] : c \in mine}]
  /\ UNCHANGED <<doc, passed, jobs, faults, delivered>>

BatchJobs(w) ==
  {[c |-> b.c, ver |-> b.ver, at |-> b.at, tok |-> loc[w].tok,
    att |-> 0, stalls |-> 0] : b \in loc[w].batch}

(* addCaseJobs, for both sweeps.  BullMQ holds a job back until the        *)
(* nextTransitionAt it was added with.                                     *)
AddCaseJobs(w, from, to) ==
  /\ loc[w].pc = from
  /\ jobs' = jobs \cup BatchJobs(w)
  /\ delivered' = delivered \cup {<<b.c, b.ver>> : b \in loc[w].batch}
  /\ Goto(w, to)
  /\ UNCHANGED <<doc, passed, faults>>

(* Mutants of PublishMark: the mark is not conditional on the claim; and   *)
(* it marks whatever could be published, not the batch.                    *)
BugMarkIgnoresClaim(w) ==
  /\ loc[w].pc = "p_mark"
  /\ doc' = [c \in Cases |->
                IF \E b \in loc[w].batch : b.c = c
                  THEN [doc[c] EXCEPT !.published = doc[c].version,
                                      !.dispatch = FALSE,
                                      !.cDel = loc[w].tok]
                  ELSE doc[c]]
  /\ Return(w)
  /\ UNCHANGED <<passed, jobs, faults, delivered>>

BugMarkAllPending(w) ==
  /\ loc[w].pc = "p_mark"
  /\ doc' = [c \in Cases |->
                IF doc[c].status \in Active /\ doc[c].dispatch
                  THEN [doc[c] EXCEPT !.published = doc[c].version,
                          !.dispatch = FALSE, !.sTok = None, !.sVer = None,
                          !.sLive = FALSE, !.sDel = None, !.cAt = "null",
                          !.cDel = loc[w].tok, !.fails = 0]
                  ELSE doc[c]]
  /\ Return(w)
  /\ UNCHANGED <<passed, jobs, faults, delivered>>

PublishMark(w) ==
  /\ loc[w].pc = "p_mark"
  /\ doc' = [c \in Cases |->
                IF /\ InBatch(w, c) /\ doc[c].sVer = doc[c].version
                   /\ doc[c].sTok = loc[w].tok /\ doc[c].sDel = loc[w].tok
                  THEN [doc[c] EXCEPT !.published = doc[c].version,
                          !.dispatch = FALSE, !.sTok = None, !.sVer = None,
                          !.sLive = FALSE, !.sDel = None, !.cAt = "null",
                          !.cDel = loc[w].tok, !.fails = 0]
                  ELSE doc[c]]
  /\ Return(w)
  /\ UNCHANGED <<passed, jobs, faults, delivered>>

(* The catch block: releaseScheduleClaims, then the sweep fails.           *)
PublishUndo(w) ==
  /\ loc[w].pc = "p_undo"
  /\ doc' = [c \in Cases |->
                IF doc[c].sTok = loc[w].tok
                  THEN [doc[c] EXCEPT !.sTok = None, !.sVer = None,
                                      !.sLive = FALSE, !.sDel = None]
                  ELSE doc[c]]
  /\ Return(w)
  /\ UNCHANGED <<passed, jobs, faults, delivered>>

-----------------------------------------------------------------------------
(* publishCompensationBatch *)

Compensable(d, deadlines) ==
  /\ d.status \in Active /\ d.at # 0 /\ d.at <= deadlines
  /\ d.fails > 0 /\ d.cAt = "now"
  /\ ~d.eLive /\ ~d.cLive

StartCompensate(w) ==
  /\ loc[w].pc = "idle" /\ SweepsServed
  /\ \E S \in Batches({c \in Cases : Compensable(doc[c], passed[c])}),
        t \in Fresh :
       loc' = [loc EXCEPT ![w].pc = "c_claim", ![w].tok = t,
                 ![w].batch = {[c |-> c, ver |-> doc[c].version,
                                at |-> doc[c].at] : c \in S}]
  /\ UNCHANGED <<doc, passed, jobs, faults, delivered>>

CompensateClaim(w) ==
  /\ loc[w].pc = "c_claim"
  /\ doc' = [c \in Cases |->
                IF InBatch(w, c) /\ Compensable(doc[c], passed[c])
                  THEN [doc[c] EXCEPT !.cTok = loc[w].tok, !.cLive = TRUE,
                                      !.cDel = loc[w].tok]
                  ELSE doc[c]]
  /\ Goto(w, "c_read")
  /\ UNCHANGED <<passed, jobs, faults, delivered>>

CompensateRead(w) ==
  /\ loc[w].pc = "c_read"
  /\ LET mine == {c \in Cases : doc[c].cTok = loc[w].tok}
     IN  IF mine = {} THEN Return(w)
         ELSE loc' = [loc EXCEPT ![w].pc = "c_add",
                        ![w].batch = {[c |-> c, ver |-> doc[c].version,
                                       at |-> doc[c].at] : c \in mine}]
  /\ UNCHANGED <<doc, passed, jobs, faults, delivered>>

(* Both updateMany calls select by the claim token alone.                  *)
CompensateMark(w) ==
  /\ loc[w].pc = "c_mark"
  /\ doc' = [c \in Cases |->
                IF doc[c].cTok = loc[w].tok
                  THEN [doc[c] EXCEPT !.cAt = "later", !.cTok = None,
                                      !.cLive = FALSE]
                  ELSE doc[c]]
  /\ Return(w)
  /\ UNCHANGED <<passed, jobs, faults, delivered>>

CompensateUndo(w) ==
  /\ loc[w].pc = "c_undo"
  /\ doc' = [c \in Cases |->
                IF doc[c].cTok = loc[w].tok
                  THEN [doc[c] EXCEPT !.cAt = "now", !.cTok = None,
                                      !.cLive = FALSE, !.cDel = None]
                  ELSE doc[c]]
  /\ Return(w)
  /\ UNCHANGED <<passed, jobs, faults, delivered>>

-----------------------------------------------------------------------------
(* process(ADVANCE_CASE) and processCase *)

(* BullMQ hands over a job whose delay has elapsed.                        *)
TakeJob(w) ==
  /\ loc[w].pc = "idle"
  /\ \E j \in jobs :
       /\ j.at <= passed[j.c]
       /\ jobs' = jobs \ {j}
       /\ loc' = [loc EXCEPT ![w] = [Idle EXCEPT !.pc = "a_claim",
                                       !.job = {j}, !.owns = TRUE]]
  /\ UNCHANGED <<doc, passed, faults, delivered>>

Leasable(d, j, now) ==
  /\ d.status \in Active /\ d.version = j.ver
  /\ d.at # 0 /\ d.at <= now
  /\ d.cDel = j.tok /\ ~d.eLive

(* A miss completes the job: nobody delivers it again.                     *)
LeaseCase(w) ==
  /\ loc[w].pc = "a_claim"
  /\ \E j \in loc[w].job :
       \/ /\ Leasable(doc[j.c], j, passed[j.c])
          /\ \E t \in Fresh :
               /\ doc' = [doc EXCEPT ![j.c].eTok = t, ![j.c].eVer = j.ver,
                                     ![j.c].eLive = TRUE]
               /\ loc' = [loc EXCEPT ![w].pc = "a_tx", ![w].tok = t,
                                     ![w].now = passed[j.c]]
       \/ /\ ~Leasable(doc[j.c], j, passed[j.c])
          /\ Return(w) /\ UNCHANGED doc
  /\ UNCHANGED <<passed, jobs, faults, delivered>>

(* calculateGovernanceDeadlineTransition and what advanceClaimedDeadline   *)
(* makes of it; the votes decide whether a review resolves.                *)
Transition(d, now) ==
  LET escalated == Rescheduled([d EXCEPT !.status = "EMERGENCY",
                                         !.reviewed = TRUE], 3)
      resolved  == {Resolved([d EXCEPT !.reviewed = TRUE], v) : v \in Terminal}
  IN  CASE d.status = "OPEN" /\ ~d.reviewed ->
             resolved \cup
             (IF now >= 2 THEN {escalated}
              ELSE {Rescheduled([d EXCEPT !.reviewed = TRUE], 2)})
        [] d.status = "OPEN" /\ d.reviewed -> {escalated}
        [] OTHER -> resolved

(* Mutant: the transaction trusts the version and not the claim token.     *)
BugTokenUnchecked(d, j, tok, now) ==
  /\ d.status \in Active /\ d.version = j.ver
  /\ d.at # 0 /\ d.at <= now

LeaseHeld(d, j, tok, now) ==
  /\ d.status \in Active /\ d.version = j.ver
  /\ d.eVer = j.ver /\ d.eTok = tok
  /\ d.at # 0 /\ d.at <= now

(* If the lease is not held the service calls releaseClaim, which cannot   *)
(* match either: both compare version and claim token.                     *)
AdvanceClaimedDeadline(w) ==
  /\ loc[w].pc = "a_tx"
  /\ \E j \in loc[w].job :
       IF LeaseHeld(doc[j.c], j, loc[w].tok, loc[w].now)
         THEN \E d \in Transition(doc[j.c], loc[w].now) :
                doc' = [doc EXCEPT ![j.c] = d]
         ELSE UNCHANGED doc
  /\ Return(w)
  /\ UNCHANGED <<passed, jobs, faults, delivered>>

(* An attempt has failed: BullMQ retries the job while attempts are left;  *)
(* the last one first hands the delivery back (releaseFailedDelivery).     *)
EndAttempt(w, j) ==
  IF j.att + 1 >= Attempts
    THEN Goto(w, "f_read") /\ UNCHANGED jobs
    ELSE /\ Return(w)
         /\ jobs' = IF loc[w].owns THEN jobs \cup {[j EXCEPT !.att = @ + 1]}
                                   ELSE jobs

(* releaseClaim after the transaction has thrown *)
ReleaseClaim(w) ==
  /\ loc[w].pc = "a_release"
  /\ \E j \in loc[w].job :
       /\ doc' = IF /\ doc[j.c].version = j.ver /\ doc[j.c].eVer = j.ver
                    /\ doc[j.c].eTok = loc[w].tok
                   THEN [doc EXCEPT ![j.c].eTok = None, ![j.c].eVer = None,
                                    ![j.c].eLive = FALSE]
                   ELSE doc
       /\ EndAttempt(w, j)
  /\ UNCHANGED <<passed, faults, delivered>>

HoldsDelivery(d, j) == d.version = j.ver /\ d.cDel = j.tok

FailedRead(w) ==
  /\ loc[w].pc = "f_read"
  /\ \E j \in loc[w].job :
       IF HoldsDelivery(doc[j.c], j)
         THEN loc' = [loc EXCEPT ![w].pc = "f_write",
                                 ![w].fails = doc[j.c].fails]
         ELSE Return(w)
  /\ UNCHANGED <<doc, passed, jobs, faults, delivered>>

(* Mutant: the failure is scheduled for recovery but not counted.          *)
BugFailureNotCounted(w) ==
  /\ loc[w].pc = "f_write"
  /\ \E j \in loc[w].job :
       doc' = IF HoldsDelivery(doc[j.c], j) /\ doc[j.c].fails = loc[w].fails
                THEN [doc EXCEPT ![j.c].cAt = "later", ![j.c].cTok = None,
                                 ![j.c].cLive = FALSE, ![j.c].cDel = None]
                ELSE doc
  /\ Return(w)
  /\ UNCHANGED <<passed, jobs, faults, delivered>>

FailedWrite(w) ==
  /\ loc[w].pc = "f_write"
  /\ \E j \in loc[w].job :
       doc' = IF HoldsDelivery(doc[j.c], j) /\ doc[j.c].fails = loc[w].fails
                THEN [doc EXCEPT ![j.c].cAt = "later", ![j.c].cTok = None,
                                 ![j.c].cLive = FALSE, ![j.c].cDel = None,
                                 ![j.c].fails = @ + 1]
                ELSE doc
  /\ Return(w)
  /\ UNCHANGED <<passed, jobs, faults, delivered>>

-----------------------------------------------------------------------------
(* Faults *)

(* A call of a sweep throws.  An addBulk that throws may have been         *)
(* accepted; both sweeps then run their catch block, as does the mark of   *)
(* the publishing sweep.                                                   *)
SweepFails(w) ==
  /\ loc[w].pc \in SweepPoints \cap ErrorPoints
  /\ errors < MaxErrors /\ errors' = errors + 1
  /\ CASE loc[w].pc \in {"p_add", "p_mark"} -> Goto(w, "p_undo")
       [] loc[w].pc = "c_add" -> Goto(w, "c_undo")
       [] OTHER -> Return(w)
  /\ UNCHANGED <<doc, passed, jobs, crashes, delivered>>

AddFailsAfterAccept(w) ==
  /\ loc[w].pc \in {"p_add", "c_add"} \cap ErrorPoints
  /\ errors < MaxErrors /\ errors' = errors + 1
  /\ jobs' = jobs \cup BatchJobs(w)
  /\ delivered' = delivered \cup {<<b.c, b.ver>> : b \in loc[w].batch}
  /\ Goto(w, IF loc[w].pc = "p_add" THEN "p_undo" ELSE "c_undo")
  /\ UNCHANGED <<doc, passed, crashes>>

(* A call of a job throws: the lease attempt or the release end the        *)
(* attempt, the transaction goes to its catch block, and a throw of        *)
(* releaseFailedDelivery leaves a failed job behind.                       *)
JobFails(w) ==
  /\ loc[w].pc \in JobPoints \cap ErrorPoints
  /\ errors < MaxErrors /\ errors' = errors + 1
  /\ \E j \in loc[w].job :
       CASE loc[w].pc = "a_tx" -> Goto(w, "a_release") /\ UNCHANGED jobs
         [] loc[w].pc \in {"a_claim", "a_release"} -> EndAttempt(w, j)
         [] OTHER -> Return(w) /\ UNCHANGED jobs
  /\ UNCHANGED <<doc, passed, crashes, delivered>>

Stalled(j) == IF j.stalls < MaxStalled THEN {[j EXCEPT !.stalls = @ + 1]}
                                       ELSE {}

(* The process dies; BullMQ finds its job stalled.                         *)
Crash(w) ==
  /\ loc[w].pc \in CrashPoints
  /\ crashes < MaxCrashes /\ crashes' = crashes + 1
  /\ jobs' = jobs \cup UNION {Stalled(j) : j \in {k \in loc[w].job : loc[w].owns}}
  /\ Return(w)
  /\ UNCHANGED <<doc, passed, errors, delivered>>

(* The worker is only slow, and BullMQ gives its job to another.           *)
LockLost(w) ==
  /\ loc[w].pc \in JobPoints /\ loc[w].owns
  /\ crashes < MaxCrashes /\ crashes' = crashes + 1
  /\ jobs' = jobs \cup UNION {Stalled(j) : j \in loc[w].job}
  /\ loc' = [loc EXCEPT ![w].owns = FALSE]
  /\ UNCHANGED <<doc, passed, errors, delivered>>

-----------------------------------------------------------------------------
(* The administrator and the passage of time *)

(* Mutant: an administrator may resolve a case whose review is due.        *)
BugAdminOvertakes(c) ==
  /\ doc[c].status \in Active
  /\ \E v \in Terminal : doc' = [doc EXCEPT ![c] = Resolved(@, v)]
  /\ UNCHANGED <<passed, jobs, loc, faults, delivered>>

ResolveCaseForAdmin(c) ==
  /\ doc[c].status \in Active /\ ~Due(c)
  /\ \E v \in Terminal : doc' = [doc EXCEPT ![c] = Resolved(@, v)]
  /\ UNCHANGED <<passed, jobs, loc, faults, delivered>>

DeadlinePasses(c) ==
  /\ passed[c] < 3
  /\ passed' = [passed EXCEPT ![c] = @ + 1]
  /\ UNCHANGED <<doc, jobs, loc, faults, delivered>>

ScheduleClaimExpires(c) ==
  /\ doc[c].sLive
  /\ doc' = [doc EXCEPT ![c].sLive = FALSE]
  /\ UNCHANGED <<passed, jobs, loc, faults, delivered>>

LeaseExpires(c) ==
  /\ doc[c].eLive
  /\ doc' = [doc EXCEPT ![c].eLive = FALSE]
  /\ UNCHANGED <<passed, jobs, loc, faults, delivered>>

CompensationClaimExpires(c) ==
  /\ doc[c].cLive
  /\ doc' = [doc EXCEPT ![c].cLive = FALSE]
  /\ UNCHANGED <<passed, jobs, loc, faults, delivered>>

(* Only looked at after a failure, so it need not pass before one.         *)
CompensationDelayPasses(c) ==
  /\ doc[c].cAt = "later" /\ doc[c].fails > 0
  /\ doc' = [doc EXCEPT ![c].cAt = "now"]
  /\ UNCHANGED <<passed, jobs, loc, faults, delivered>>

-----------------------------------------------------------------------------
Sweep(w) ==
  \/ StartPublish(w) \/ PublishClaim(w) \/ PublishRead(w)
  \/ AddCaseJobs(w, "p_add", "p_mark") \/ PublishMark(w) \/ PublishUndo(w)
  \/ StartCompensate(w) \/ CompensateClaim(w) \/ CompensateRead(w)
  \/ AddCaseJobs(w, "c_add", "c_mark") \/ CompensateMark(w)
  \/ CompensateUndo(w)

Process(w) ==
  \/ LeaseCase(w) \/ AdvanceClaimedDeadline(w) \/ ReleaseClaim(w)
  \/ FailedRead(w) \/ FailedWrite(w)

Fault(w) ==
  \/ SweepFails(w) \/ AddFailsAfterAccept(w) \/ JobFails(w)
  \/ Crash(w) \/ LockLost(w)

Time(c) ==
  \/ DeadlinePasses(c) \/ ScheduleClaimExpires(c) \/ LeaseExpires(c)
  \/ CompensationClaimExpires(c) \/ CompensationDelayPasses(c)

Next ==
  \/ \E w \in Workers : Sweep(w) \/ TakeJob(w) \/ Process(w) \/ Fault(w)
  \/ \E c \in Cases : ResolveCaseForAdmin(c) \/ Time(c)

Spec == Init /\ [][Next]_vars

(* The schedulers repeat their sweeps, a running worker goes on, time      *)
(* passes, and a worker that keeps becoming idle takes the waiting jobs.   *)
Fairness ==
  /\ \A w \in Workers : WF_vars(Sweep(w)) /\ WF_vars(Process(w))
                         /\ SF_vars(TakeJob(w))
  /\ \A c \in Cases :
       /\ WF_vars(DeadlinePasses(c)) /\ WF_vars(ScheduleClaimExpires(c))
       /\ WF_vars(LeaseExpires(c)) /\ WF_vars(CompensationClaimExpires(c))
       /\ WF_vars(CompensationDelayPasses(c))

FairSpec == Spec /\ Fairness

-----------------------------------------------------------------------------
(* Properties *)

(* The documents, the queue and the workers' variables keep their types;   *)
(* in particular no schedule names a deadline beyond the third.            *)
TypeOK ==
  /\ doc \in [Cases -> Doc]
  /\ passed \in [Cases -> 0..3]
  /\ jobs \subseteq Job
  /\ loc \in [Workers -> Local]
  /\ crashes \in Nat /\ errors \in Nat
  /\ delivered \subseteq Cases \X Nat

(* Whatever is redelivered, retried, crashed or stale, the outbox moves a  *)
(* case only along its timeline: no phase is skipped, entered early or     *)
(* left twice, and an administrator never overtakes a due review.          *)
Timeline == INSTANCE CaseTimeline
              WITH status <- [c \in Cases |-> doc[c].status],
                   reviewed <- [c \in Cases |-> doc[c].reviewed]

TimelineSpec == Timeline!Spec

(* Sweeps, leases and failed deliveries that were under way when a case    *)
(* was resolved leave nothing behind in it: no dispatch time, claim, lease *)
(* or delivery token ever reappears (completeDeadlineSchedule clears them; *)
(* every later write must miss).                                           *)
TerminalIsQuiet ==
  \A c \in Cases : doc[c].status \in Terminal =>
    /\ doc[c].at = 0 /\ ~doc[c].dispatch /\ doc[c].cAt = "null"
    /\ {doc[c].sTok, doc[c].sDel, doc[c].eTok, doc[c].cTok, doc[c].cDel} = {None}
    /\ doc[c].published = doc[c].version

(* A deadline version is marked published only after a job for that very   *)
(* version has been given to BullMQ, however late the marking sweep is.    *)
PublishedMeansDelivered ==
  \A c \in Cases : doc[c].status \in Active =>
    \/ doc[c].published < doc[c].version
    \/ <<c, doc[c].version>> \in delivered

(* Two workers on the same case never both hold a lease the transaction    *)
(* would accept: a takeover after expiry fences the slow one off.          *)
OneLeaseHolder ==
  \A v, w \in Workers :
    \A j \in loc[v].job, k \in loc[w].job :
      /\ loc[v].pc = "a_tx" /\ LeaseHeld(doc[j.c], j, loc[v].tok, loc[v].now)
      /\ loc[w].pc = "a_tx" /\ LeaseHeld(doc[k.c], k, loc[w].tok, loc[w].now)
      /\ j.c = k.c
      => v = w

(* An active case is never forgotten: it is waiting for the publishing     *)
(* sweep, or its current delivery is in the queue or being processed, or   *)
(* the compensation sweep is going to deliver it again.                    *)
Awaited(c) ==
  \/ doc[c].published < doc[c].version /\ doc[c].dispatch
  \/ \E j \in jobs \cup UNION {loc[w].job : w \in Workers} :
       j.c = c /\ j.ver = doc[c].version /\ j.tok = doc[c].cDel
  \/ doc[c].fails > 0 /\ doc[c].cAt # "null"

NeverForgotten ==
  \A c \in Cases : doc[c].status \in Active => Awaited(c)

(* Every case is resolved in the end.                                      *)
EveryCaseIsResolved ==
  \A c \in Cases : <>(doc[c].status \in Terminal)

(* A lease that expires while its case is due is taken over or given back. *)
ExpiredLeaseIsReclaimed ==
  \A c \in Cases :
    (doc[c].eTok # None /\ ~doc[c].eLive) ~> (doc[c].eTok = None \/ doc[c].eLive)

=============================================================================
