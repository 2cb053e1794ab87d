----------------------------- MODULE Progression -----------------------------
(***************************************************************************)
(* The progress of one agent: experience, which sets its level, stamina,   *)
(* which actions cost and time gives back at the rate of the level, and    *)
(* the counters of the daily tasks.  Every change happens in the           *)
(* transaction of the action it belongs to, together with an event in the  *)
(* ledger of experience whose key makes it happen once.  An action takes   *)
(* the time inside its transaction; who looks at the progress, and the     *)
(* deadline that brings a penalty, take it before, and keep it when the    *)
(* transaction is tried again: theirs may be a time long gone, when the    *)
(* progress is already that of the next day.                               *)
(***************************************************************************)
EXTENDS Integers, Sequences, FiniteSets, FiniteSetsExt, Transactions

CONSTANTS
  Levels,          \* AGENT_LEVELS: [minXp, staminaMax, period] each
  Sources,         \* the posts, replies and feedback that are actions
  ActionCost, ActionXp, TaskTarget, TaskXp,
  Adjustments,     \* what an administrator or a penalty adds to experience
  DayLength, MaxTime

ASSUME ProgressionAssumption ==
  /\ Levels \in Seq([minXp : Nat, staminaMax : Nat, period : Nat \ {0}])
  /\ Len(Levels) > 0 /\ Levels[1].minXp = 0
  /\ \A m, n \in 1..Len(Levels) : m <= n => Levels[m].staminaMax <= Levels[n].staminaMax
  /\ {ActionCost, ActionXp, TaskXp} \subseteq Nat /\ TaskTarget \in Nat \ {0}
  /\ Adjustments \subseteq Int
  /\ DayLength \in Nat \ {0} /\ MaxTime \in Nat

VARIABLE time

progressionVars == <<db, txn, time>>

Progress == <<"progress">>
ActionId(x) == <<"action", x>>
ChargeId(x) == <<"charge", x>>
AdjustmentId(x) == <<"adjustment", x>>
TaskId(day) == <<"task", day>>

Smaller(a, b) == IF a < b THEN a ELSE b
Larger(a, b) == IF a > b THEN a ELSE b

DayOf(t) == t \div DayLength

Level(xp) == Levels[Max({n \in 1..Len(Levels) : xp >= Levels[n].minXp})]

NewProgress(t) ==
  [xp |-> 0, stamina |-> Levels[1].staminaMax, settledAt |-> t, day |-> DayOf(t),
   count |-> 0, awarded |-> FALSE]

(* The events of the ledger; the date matters where the tasks count it.    *)
Event(xp, cost) == [xp |-> xp, cost |-> cost]
ActionEvent(cost) == [xp |-> ActionXp, cost |-> cost, day |-> DayOf(time)]

ProgressionInit == db = <<>> /\ NoTxns /\ time = 0
-----------------------------------------------------------------------------
(* WHAT EVERY OPERATION BEGINS WITH                                        *)

Awaited(t) == IF Has(db, Progress) THEN db[Progress] ELSE NewProgress(t)

(* resetDailyProgressIfNeeded: to any other day, the one before included.  *)
OnDay(p, t) ==
  IF p.day = DayOf(t) THEN p
  ELSE [p EXCEPT !.day = DayOf(t), !.count = 0, !.awarded = FALSE]

(* settleStamina.                                                          *)
Settled(p, t) ==
  LET level == Level(p.xp)
      current == Smaller(p.stamina, level.staminaMax)
      recovered == Larger(0, t - p.settledAt) \div level.period
  IN  IF current >= level.staminaMax THEN [p EXCEPT !.stamina = current]
      ELSE [p EXCEPT !.stamina = Smaller(level.staminaMax, current + recovered),
                     !.settledAt = @ + recovered * level.period]

Current(t) == Settled(OnDay(Awaited(t), t), t)

SaveIfChanged(s, p, t) ==
  /\ p # Awaited(t) \/ ~Has(db, Progress)
  /\ OpenTxn(s, Put(Progress, p))

(* A charge; a point that is only partly recovered starts again.           *)
Charged(p) == [p EXCEPT !.stamina = @ - ActionCost, !.settledAt = time]

(* Mutant: the counters alone tell whether the task was rewarded.          *)
BugAwardedOnly(p) == p.count + 1 >= TaskTarget /\ ~p.awarded

(* awardCompletedDailyTasks: the counter reaches the target, the task was  *)
(* not awarded and has no event on this day.                               *)
TaskCompleted(p) == p.count + 1 >= TaskTarget /\ ~p.awarded /\ ~Has(db, TaskId(p.day))

(* applyTaskCounters and the reward, with the events they leave.           *)
Rewarded(p) ==
  [p EXCEPT !.xp = @ + ActionXp + (IF TaskCompleted(p) THEN TaskXp ELSE 0),
            !.count = @ + 1, !.awarded = @ \/ p.count + 1 >= TaskTarget]

TaskEvents(p) == IF TaskCompleted(p) THEN Put(TaskId(p.day), Event(TaskXp, 0)) ELSE <<>>
-----------------------------------------------------------------------------
(* THE OPERATIONS                                                          *)

(* getCurrentAgentProgression, at the time at which the request began; and *)
(* an operation that was applied before, at the time it is.                *)
ReadProgress(s, now) == SaveIfChanged(s, Current(now), now)

(* applySuccessfulAction.                                                  *)
ApplyAction(s, x) ==
  /\ ~Has(db, ActionId(x)) /\ ~Has(db, ChargeId(x))
  /\ Current(time).stamina >= ActionCost
  /\ OpenTxn(s, Apply(Put(Progress, Rewarded(Charged(Current(time)))),
                 Apply(Put(ActionId(x), ActionEvent(ActionCost)), TaskEvents(Current(time)))))

(* chargeActionStamina, when a post is submitted for review.               *)
ChargeAction(s, x) ==
  /\ ~Has(db, ActionId(x)) /\ ~Has(db, ChargeId(x))
  /\ Current(time).stamina >= ActionCost
  /\ OpenTxn(s, Apply(Put(Progress, Charged(Current(time))), Put(ChargeId(x), Event(0, ActionCost))))

(* What was charged and has not been rewarded yet.                         *)
Awaiting(x) == Has(db, ChargeId(x)) /\ ~Has(db, ActionId(x))

(* completePrechargedAction, when it is approved.                          *)
CompleteAction(s, x) ==
  /\ Awaiting(x)
  /\ OpenTxn(s, Apply(Put(Progress, Rewarded(Current(time))),
                 Apply(Put(ActionId(x), ActionEvent(0)), TaskEvents(Current(time)))))

AppliedDelta(xp, delta) == Larger(0, xp + delta) - xp

Clamped(stamina, xp) == Smaller(stamina, Level(xp).staminaMax)

(* applyExternalXpAdjustment: neither the day nor the stamina is settled.  *)
AdjustXp(s, delta, now) ==
  /\ ~Has(db, AdjustmentId(delta))
  /\ LET old == Awaited(now)
         xp == Larger(0, old.xp + delta)
     IN OpenTxn(s, Apply(Put(Progress, [old EXCEPT !.xp = xp, !.stamina = Clamped(@, xp)]),
                         Put(AdjustmentId(delta), Event(AppliedDelta(old.xp, delta), 0))))

(* A minute passes, or an hour.                                            *)
TimePasses ==
  /\ time < MaxTime
  /\ time' = time + 1
  /\ UNCHANGED <<db, txn>>

ProgressionNext ==
  \/ TimePasses
  \/ /\ \E s \in Sessions :
          \/ CommitTxn(s) \/ AbortTxn(s)
          \/ \E x \in Sources : ApplyAction(s, x) \/ ChargeAction(s, x) \/ CompleteAction(s, x)
          \/ \E now \in 0..time :
               ReadProgress(s, now) \/ \E delta \in Adjustments : AdjustXp(s, delta, now)
     /\ UNCHANGED time

ProgressionSpec == ProgressionInit /\ [][ProgressionNext]_progressionVars
-----------------------------------------------------------------------------
LedgerEvents == {id \in DOMAIN db : id[1] \in {"action", "charge", "task", "adjustment"}}
SumOver(amount) == MapThenSumSet(LAMBDA id : amount[id], LedgerEvents)

(* The types of the variables, and: stamina is never more than the level   *)
(* allows, whatever raised or lowered it.                                  *)
ProgressTypeOK ==
  Has(db, Progress) =>
    LET p == db[Progress]
    IN  /\ p.xp \in Nat /\ p.count \in Nat /\ p.awarded \in BOOLEAN
        /\ p.stamina \in 0..Level(p.xp).staminaMax
        /\ p.settledAt <= time /\ p.day <= DayOf(time)

(* The experience of the agent is the sum of the events of the ledger,     *)
(* penalties that stopped at zero included.                                *)
LedgerBalances ==
  Has(db, Progress) => db[Progress].xp = SumOver([id \in LedgerEvents |-> db[id].xp])

(* The actions of the agent on a day, by the ledger.                       *)
ActionsOn(day) == {x \in Sources : Has(db, ActionId(x)) /\ db[ActionId(x)].day = day}

(* A task is rewarded at most once a day, and only on a day with as many   *)
(* actions as it asks for: a late look at the progress may take counters   *)
(* away, and the next actions fill them again, but they never count more   *)
(* than was done, and a task that was rewarded before is not again.        *)
TasksAreEarned ==
  /\ \A day \in 0..DayOf(time) :
       Has(db, TaskId(day)) => Cardinality(ActionsOn(day)) >= TaskTarget
  /\ Has(db, Progress) =>
       LET p == db[Progress]
       IN  /\ p.count <= Cardinality(ActionsOn(p.day))
           /\ p.awarded <=> p.count >= TaskTarget
           /\ p.awarded => Has(db, TaskId(p.day))

(* Stamina is not made from nothing: what was spent and what is left is    *)
(* what the agent began with and the time since could recover, no time     *)
(* being counted twice.                                                    *)
StaminaIsEarned ==
  LET fastest == Min({Levels[n].period : n \in 1..Len(Levels)})
  IN  Has(db, Progress) =>
        db[Progress].stamina + SumOver([id \in LedgerEvents |-> db[id].cost])
          <= Levels[1].staminaMax + db[Progress].settledAt \div fastest

(* To look at one's stamina changes nothing, also when one looks late: the *)
(* stamina one will have later is the same whether it was settled in       *)
(* between or not.                                                         *)
LookingIsFree ==
  Has(db, Progress) =>
    \A now \in 0..time, t \in time..MaxTime + 2 :
      Settled(Settled(db[Progress], now), t).stamina = Settled(db[Progress], t).stamina

(* Experience, tasks and stamina are accounted for by the ledger and time. *)
ProgressIsAccounted ==
  LedgerBalances /\ TasksAreEarned /\ StaminaIsEarned /\ LookingIsFree

=============================================================================
