------------------------ MODULE GovernanceCaseProofs ------------------------
(***************************************************************************)
(* What holds of governance cases for every set of agents, every number of *)
(* sessions, versions and rounds.                                          *)
(*                                                                         *)
(* A transaction settles its writes when it begins and other transactions  *)
(* commit before it does.  So the inductive invariant has two parts: the   *)
(* documents are Consistent, and the writes of every open transaction are  *)
(* Pending: they agree with one another and with the documents they write  *)
(* or depend on.  What they depend on is written with every document that  *)
(* changes it, so a transaction that disturbs it conflicts with this one.  *)
(***************************************************************************)
EXTENDS GovernanceCase, SharedProofs, WellFoundedInduction

-----------------------------------------------------------------------------
(* The documents *)

States  == {"COLLECTING", "CASE_OPEN", "TARGET_REMOVED"} \cup Terminal

ContentDoc == [type : TargetTypes, version : Versions,
               removal : {"NONE", "ADMIN", "GOVERNANCE"},
               hidden : SUBSET Versions]
ProfileDoc == [health : 1..4, violations : Nat, banned : BOOLEAN,
               restore : 1..4]
StateDoc   == [status : States, reporters : SUBSET Reporters]
CaseDoc    == [status : Active \cup Terminal, reviewed : BOOLEAN,
               at : 0..3, yes : Nat, no : Nat,
               source : {"COMMUNITY", "ADMIN"},
               reporters : SUBSET Reporters]

(* Documents, or changes of documents, have their types.                   *)
Typed(d) ==
  /\ Has(d, Content) => d[Content] \in ContentDoc
  /\ \A a \in Agents : Has(d, Profile(a)) => d[Profile(a)] \in ProfileDoc
  /\ \A a \in Judges : Has(d, Quota(a)) => d[Quota(a)] \in 0..QuotaTotal(LevelOf[a])
  /\ \A k \in Keys : Has(d, TargetState(k)) => d[TargetState(k)] \in StateDoc
  /\ \A k \in Keys : Has(d, Case(k)) => d[Case(k)] \in CaseDoc
  /\ \A k \in Keys, a \in Judges : Has(d, Assignment(k, a)) =>
       d[Assignment(k, a)] \in {"ACTIVE", "SUBMITTED", "CASE_CLOSED"}

CaseHas(d, k, statuses) == Has(d, Case(k)) /\ d[Case(k)].status \in statuses

Earlier(k) == <<k[1], k[2] - 1>>    \* the round before

(* The documents that always exist, and those that others refer to.        *)
Complete(d) ==
  /\ Has(d, Content)
  /\ \A a \in Agents : Has(d, Profile(a))
  /\ \A a \in Judges : Has(d, Quota(a))
  /\ \A k \in Keys, a \in Judges : Has(d, Assignment(k, a)) => Has(d, Case(k))
  /\ \A k \in Keys : Has(d, Case(k)) => Has(d, TargetState(k))
  /\ \A k \in Keys : Has(d, Correction(k)) \/ Has(d, History(k)) =>
       CaseHas(d, k, {"RESOLVED_VIOLATION"})
  /\ \A k \in Keys : Has(d, TargetState(k)) /\ k[2] > 1 =>
       Has(d, Correction(Earlier(k)))

(* StateFollowsCase, of one report state.                                  *)
StateAgrees(d, k) ==
  Has(d, TargetState(k)) =>
    LET status == d[TargetState(k)].status
    IN  /\ status = "CASE_OPEN" => CaseHas(d, k, Active)
        /\ status \in Terminal => CaseHas(d, k, {status})
        /\ status \in {"COLLECTING", "TARGET_REMOVED"} => ~Has(d, Case(k))

(* NoOpenAssignmentAfterVerdict, of one assignment.                        *)
AssignmentAgrees(d, k, a) ==
  Has(d, Assignment(k, a)) /\ d[Assignment(k, a)] = "ACTIVE" => CaseHas(d, k, Active)

(* RemovalHasStandingVerdict                                               *)
RemovalAgrees(d) ==
  d[Content].removal = "GOVERNANCE" =>
    \E k \in Keys : /\ k[1] = d[Content].version
                    /\ CaseHas(d, k, {"RESOLVED_VIOLATION"})
                    /\ ~Has(d, Correction(k))

(* PenaltiesFollowVerdicts                                                 *)
PenaltiesOf(d) == {k \in Keys : Has(d, History(k))}

HealthAgrees(d) ==
  LET p == d[Profile(Author)]
      n == Cardinality(PenaltiesOf(d))
  IN  /\ p.violations = n
      /\ LogicalHealth(p) = Max({Banned, Good - n})
      /\ p.banned => p.health = Banned

PostsPenalised(d) ==
  d[Content].type = "POST" =>
    \A k \in Keys : CaseHas(d, k, {"RESOLVED_VIOLATION"}) => Has(d, History(k))

Consistent(d) ==
  /\ Typed(d) /\ Complete(d)
  /\ \A k \in Keys : StateAgrees(d, k)
  /\ \A k \in Keys, a \in Judges : AssignmentAgrees(d, k, a)
  /\ RemovalAgrees(d) /\ HealthAgrees(d) /\ PostsPenalised(d)

-----------------------------------------------------------------------------
(* The writes w of a transaction that is open while the documents are d *)

(* Resolved cases are never written again, corrections and penalties are   *)
(* inserted, and a round is opened by the correction of the one before.    *)
Referring(d, w) ==
  /\ \A k \in Keys, a \in Judges : Has(w, Assignment(k, a)) => Has(d, Case(k))
  /\ \A k \in Keys : Has(w, Case(k)) /\ Has(d, Case(k)) => CaseHas(d, k, Active)
  /\ \A k \in Keys : Has(w, Correction(k)) =>
       /\ ~Has(d, Correction(k)) /\ CaseHas(d, k, {"RESOLVED_VIOLATION"})
       /\ Has(w, Content) /\ w[Content].removal = "NONE"
  /\ \A k \in Keys : Has(w, History(k)) =>
       /\ ~Has(d, History(k)) /\ CaseHas(w, k, {"RESOLVED_VIOLATION"})
       /\ Has(w, Profile(Author))
  /\ \A k \in Keys : Has(w, TargetState(k)) /\ k[2] > 1 =>
       Has(d, Correction(Earlier(k))) \/ Has(w, Correction(Earlier(k)))

(* A report state is written together with its case, or has none.          *)
StateWritten(d, w, k) ==
  /\ Has(w, TargetState(k)) =>
       LET status == w[TargetState(k)].status
       IN  /\ status = "CASE_OPEN" => CaseHas(w, k, Active)
           /\ status \in Terminal => CaseHas(w, k, {status})
           /\ status \in {"COLLECTING", "TARGET_REMOVED"} =>
                ~Has(w, Case(k)) /\ ~Has(d, Case(k))
  /\ Has(w, Case(k)) /\ ~Has(w, TargetState(k)) =>
       CaseHas(d, k, Active) /\ CaseHas(w, k, Active)

(* A dispatch writes the open case; a verdict closes every assignment.     *)
AssignmentWritten(d, w, k, a) ==
  /\ Has(w, Assignment(k, a)) /\ w[Assignment(k, a)] = "ACTIVE" =>
       CaseHas(w, k, Active)
  /\ /\ CaseHas(w, k, Terminal)
     /\ Has(d, Assignment(k, a)) /\ d[Assignment(k, a)] = "ACTIVE"
     => Has(w, Assignment(k, a)) /\ w[Assignment(k, a)] # "ACTIVE"

(* Content is removed by governance with the verdict about its version,    *)
(* and what governance has removed is only written by a correction.        *)
ContentWritten(d, w) ==
  Has(w, Content) =>
    /\ w[Content].type = d[Content].type
    /\ w[Content].removal = "GOVERNANCE" =>
         \E k \in Keys : /\ k[1] = w[Content].version
                         /\ CaseHas(w, k, {"RESOLVED_VIOLATION"})
                         /\ ~Has(d, Correction(k))
    /\ d[Content].removal = "GOVERNANCE" => \E k \in Keys : Has(w, Correction(k))

(* The author's profile is written with one penalty, or with none and then *)
(* its logical health stays.                                               *)
PenaltyWritten(d, w, k) ==
  /\ Has(w, History(k))
  /\ \A j \in Keys : Has(w, History(j)) => j = k
  /\ w[Profile(Author)].violations = d[Profile(Author)].violations + 1
  /\ LogicalHealth(w[Profile(Author)]) =
       Max({Banned, LogicalHealth(d[Profile(Author)]) - 1})

NoPenaltyWritten(d, w) ==
  /\ \A j \in Keys : ~Has(w, History(j))
  /\ w[Profile(Author)].violations = d[Profile(Author)].violations
  /\ LogicalHealth(w[Profile(Author)]) = LogicalHealth(d[Profile(Author)])

ProfileWritten(d, w) ==
  Has(w, Profile(Author)) =>
    /\ w[Profile(Author)].banned => w[Profile(Author)].health = Banned
    /\ (\E k \in Keys : PenaltyWritten(d, w, k)) \/ NoPenaltyWritten(d, w)

PostPenaltyWritten(d, w) ==
  d[Content].type = "POST" =>
    \A k \in Keys : CaseHas(w, k, {"RESOLVED_VIOLATION"}) => Has(w, History(k))

Pending(d, w) ==
  /\ Typed(w) /\ Referring(d, w)
  /\ \A k \in Keys : StateWritten(d, w, k)
  /\ \A k \in Keys, a \in Judges : AssignmentWritten(d, w, k, a)
  /\ ContentWritten(d, w) /\ ProfileWritten(d, w) /\ PostPenaltyWritten(d, w)

(* The inductive invariant.                                                *)
CaseInvariant ==
  /\ TxnShape
  /\ Consistent(db)
  /\ \A s \in Sessions : txn[s].open => Pending(db, txn[s].writes)

-----------------------------------------------------------------------------
(* Numbers and finite sets *)

LEMMA MaxOfTwo ==
  ASSUME NEW a \in Int, NEW b \in Int
  PROVE  Max({a, b}) = IF a >= b THEN a ELSE b
BY DEF Max

(* A nonempty set of numbers up to n has a largest one: the intervals from  *)
(* its members up to n have a smallest.                                    *)
LEMMA LargestExists ==
  ASSUME NEW n \in Nat, NEW S \in SUBSET (1..n), S # {}
  PROVE  Max(S) \in S /\ \A x \in S : Max(S) >= x
<1> DEFINE Up(i) == i..n
           T == {Up(i) : i \in S}
           R == StrictSubsetOrdering(1..n)
<1>1. IsWellFoundedOn(R, FiniteSubsetsOf(1..n))
  BY FS_StrictSubsetOrderingWellFounded
<1>2. T \subseteq FiniteSubsetsOf(1..n) /\ T # {}
  <2>1. ASSUME NEW i \in S PROVE Up(i) \in SUBSET (1..n) /\ IsFiniteSet(Up(i))
    <3>1. Up(i) \in SUBSET (1..n)
      OBVIOUS
    <3>2. i \in Int /\ n \in Int
      OBVIOUS
    <3>. QED
      BY <3>1, <3>2, FS_Interval
  <2>. QED
    BY <2>1 DEF FiniteSubsetsOf
<1>3. PICK X \in T : \A Y \in T : ~ (<<Y, X>> \in R)
  <2> HIDE DEF T, R
  <2>. QED BY <1>1, <1>2, WFMin
<1>4. PICK i \in S : X = Up(i)
  OBVIOUS
<1>5. ASSUME NEW j \in S, j > i PROVE FALSE
  <2>1. Up(j) \in T /\ Up(j) \subseteq Up(i) /\ i \in Up(i) /\ i \notin Up(j)
    BY <1>5
  <2>2. Up(j) \in SUBSET (1..n) /\ Up(i) \in SUBSET (1..n)
    OBVIOUS
  <2>3. <<Up(j), Up(i)>> \in R
    BY <2>1, <2>2 DEF StrictSubsetOrdering
  <2>. QED
    BY <1>3, <1>4, <2>1, <2>3
<1>6. i \in S /\ \A j \in S : i >= j
  BY <1>5
<1>. QED
  BY <1>6, Zenon DEF Max

(* There are finitely many cases.                                          *)
LEMMA KeysFinite == IsFiniteSet(Keys)
<1> DEFINE Of(v) == {v} \X (1..MaxRound[v])
           Parts == {Of(v) : v \in Versions}
<1>1. ASSUME NEW v \in Versions PROVE IsFiniteSet(Of(v))
  <2>1. MaxRound[v] \in Int
    BY CaseAssumption
  <2>2. IsFiniteSet(1..MaxRound[v])
    BY <2>1, FS_Interval
  <2>. QED
    BY <2>2, FS_Singleton, FS_Product
<1>2. IsFiniteSet(Parts)
  <2>1. IsFiniteSet(Versions)
    BY FS_Interval, CaseAssumption DEF Versions
  <2>2. [v \in Versions |-> Of(v)] \in Surjection(Versions, Parts)
    BY DEF Surjection
  <2>. QED
    BY <2>1, <2>2, FS_Surjection
<1>. QED
  BY <1>1, <1>2, FS_UNION DEF Keys

-----------------------------------------------------------------------------
(* Commits *)

(* Documents of different kinds have different ids.                        *)
LEMMA TypedApplied ==
  ASSUME NEW d, NEW w, Typed(d), Typed(w)
  PROVE  Typed(Apply(d, w))
BY ApplyFacts DEF Typed

LEMMA CompleteApplied ==
  ASSUME NEW d, NEW w, Consistent(d), Pending(d, w)
  PROVE  Complete(Apply(d, w))
BY ApplyFacts DEF Consistent, Pending, Complete, Referring, CaseHas, StateWritten, Active

LEMMA StatesApplied ==
  ASSUME NEW d, NEW w, Consistent(d), Pending(d, w), NEW k \in Keys
  PROVE  StateAgrees(Apply(d, w), k)
BY ApplyFacts DEF Consistent, Pending, Referring, CaseHas, StateAgrees, StateWritten, Active, Terminal

LEMMA AssignmentsApplied ==
  ASSUME NEW d, NEW w, Consistent(d), Pending(d, w), NEW k \in Keys, NEW a \in Judges
  PROVE  AssignmentAgrees(Apply(d, w), k, a)
BY ApplyFacts DEF Consistent, Pending, Typed, CaseDoc, CaseHas, AssignmentAgrees, AssignmentWritten

LEMMA RemovalApplied ==
  ASSUME NEW d, NEW w, Consistent(d), Pending(d, w)
  PROVE  RemovalAgrees(Apply(d, w))
<1>. SUFFICES ASSUME Apply(d, w)[Content].removal = "GOVERNANCE"
              PROVE  \E k \in Keys : /\ k[1] = Apply(d, w)[Content].version
                                     /\ CaseHas(Apply(d, w), k, {"RESOLVED_VIOLATION"})
                                     /\ ~Has(Apply(d, w), Correction(k))
  BY DEF RemovalAgrees
<1>1. CASE Has(w, Content)
  BY <1>1, ApplyFacts DEF Pending, ContentWritten, Referring, CaseHas
<1>2. CASE ~Has(w, Content)
  BY <1>2, ApplyFacts DEF Consistent, Complete, Pending, RemovalAgrees, Referring, CaseHas, Active
<1>. QED
  BY <1>1, <1>2

(* A penalty takes one level, however many came before.                    *)
LEMMA OneLevelLess ==
  ASSUME NEW n \in Nat
  PROVE  Max({Banned, Max({Banned, Good - n}) - 1}) = Max({Banned, Good - (n + 1)})
BY MaxOfTwo DEF Banned, Good

LEMMA HealthApplied ==
  ASSUME NEW d, NEW w, Consistent(d), Pending(d, w)
  PROVE  HealthAgrees(Apply(d, w))
<1> DEFINE e == Apply(d, w)
           n == Cardinality(PenaltiesOf(d))
<1>1. Author \in Agents /\ Has(d, Profile(Author)) /\ HealthAgrees(d)
  BY DEF Agents, Consistent, Complete
<1>2. IsFiniteSet(PenaltiesOf(d)) /\ n \in Nat
  <2>1. PenaltiesOf(d) \subseteq Keys
    BY DEF PenaltiesOf
  <2>. QED
    BY <2>1, KeysFinite, FS_Subset, FS_CardinalityType
<1>3. CASE ~Has(w, Profile(Author))
  <2>1. PenaltiesOf(e) = PenaltiesOf(d) /\ e[Profile(Author)] = d[Profile(Author)]
    BY <1>1, <1>3, ApplyFacts DEF Pending, Referring, PenaltiesOf
  <2>. QED
    BY <1>1, <2>1 DEF HealthAgrees
<1>4. CASE Has(w, Profile(Author)) /\ NoPenaltyWritten(d, w)
  <2>1. PenaltiesOf(e) = PenaltiesOf(d) /\ e[Profile(Author)] = w[Profile(Author)]
    BY <1>4, ApplyFacts DEF NoPenaltyWritten, PenaltiesOf
  <2>. QED
    BY <1>1, <1>4, <2>1 DEF HealthAgrees, NoPenaltyWritten, Pending, ProfileWritten
<1>5. ASSUME NEW k \in Keys, Has(w, Profile(Author)), PenaltyWritten(d, w, k)
      PROVE  HealthAgrees(e)
  <2>1. /\ PenaltiesOf(e) = PenaltiesOf(d) \cup {k}
        /\ e[Profile(Author)] = w[Profile(Author)]
    BY <1>5, ApplyFacts DEF PenaltyWritten, PenaltiesOf
  <2>2. k \notin PenaltiesOf(d)
    BY <1>5 DEF PenaltyWritten, PenaltiesOf, Pending, Referring
  <2>3. Cardinality(PenaltiesOf(e)) = n + 1
    BY <1>2, <2>1, <2>2, FS_AddElement
  <2>4. LogicalHealth(w[Profile(Author)]) = Max({Banned, Good - (n + 1)})
    BY <1>1, <1>2, <1>5, OneLevelLess DEF HealthAgrees, PenaltyWritten
  <2>. QED
    BY <1>1, <1>5, <2>1, <2>3, <2>4 DEF HealthAgrees, PenaltyWritten, Pending, ProfileWritten
<1>. QED
  BY <1>3, <1>4, <1>5 DEF Pending, ProfileWritten

LEMMA PostsApplied ==
  ASSUME NEW d, NEW w, Consistent(d), Pending(d, w)
  PROVE  PostsPenalised(Apply(d, w))
<1>1. Apply(d, w)[Content].type = d[Content].type
  BY ApplyFacts DEF Consistent, Complete, Pending, ContentWritten
<1>. QED
  BY <1>1, ApplyFacts DEF Consistent, Pending, PostsPenalised, PostPenaltyWritten, CaseHas

LEMMA ConsistentApplied ==
  ASSUME NEW d, NEW w, Consistent(d), Pending(d, w)
  PROVE  Consistent(Apply(d, w))
<1>1. Typed(Apply(d, w)) /\ Complete(Apply(d, w))
  BY TypedApplied, CompleteApplied DEF Consistent, Pending
<1>. QED
  BY <1>1, StatesApplied, AssignmentsApplied, RemovalApplied, HealthApplied, PostsApplied
     DEF Consistent

(* The commit of c leaves a transaction pending with which it has written  *)
(* no document in common.                                                  *)
LEMMA ReferringKept ==
  ASSUME NEW d, NEW w, NEW c, Consistent(d), Pending(d, w), Pending(d, c), Apart(w, c)
  PROVE  Referring(Apply(d, c), w)
BY ApplyFacts DEF Consistent, Pending, Referring, CaseHas, StateWritten, Apart, Active

LEMMA StateKept ==
  ASSUME NEW d, NEW w, NEW c, Consistent(d), Pending(d, w), Pending(d, c), Apart(w, c),
         NEW k \in Keys
  PROVE  StateWritten(Apply(d, c), w, k)
BY ApplyFacts DEF Consistent, Pending, Referring, CaseHas, StateWritten, Apart, Active

LEMMA AssignmentKept ==
  ASSUME NEW d, NEW w, NEW c, Consistent(d), Pending(d, w), Pending(d, c), Apart(w, c),
         NEW k \in Keys, NEW a \in Judges
  PROVE  AssignmentWritten(Apply(d, c), w, k, a)
BY ApplyFacts DEF Consistent, Pending, AssignmentWritten, CaseHas, Apart

LEMMA ContentKept ==
  ASSUME NEW d, NEW w, NEW c, Consistent(d), Pending(d, w), Pending(d, c), Apart(w, c)
  PROVE  ContentWritten(Apply(d, c), w)
BY ApplyFacts DEF Consistent, Complete, Pending, ContentWritten, Referring, Apart

LEMMA ProfileKept ==
  ASSUME NEW d, NEW w, NEW c, Consistent(d), Pending(d, w), Pending(d, c), Apart(w, c)
  PROVE  ProfileWritten(Apply(d, c), w)
<1>1. CASE Has(w, Profile(Author))
  <2>1. Author \in Agents /\ Apply(d, c)[Profile(Author)] = d[Profile(Author)]
    BY <1>1, ApplyFacts DEF Agents, Consistent, Complete, Apart
  <2>. QED
    BY <1>1, <2>1 DEF Pending, ProfileWritten, PenaltyWritten, NoPenaltyWritten
<1>. QED
  BY <1>1 DEF ProfileWritten

LEMMA PostPenaltyKept ==
  ASSUME NEW d, NEW w, NEW c, Consistent(d), Pending(d, w), Pending(d, c), Apart(w, c)
  PROVE  PostPenaltyWritten(Apply(d, c), w)
<1>1. Apply(d, c)[Content].type = d[Content].type
  BY ApplyFacts DEF Consistent, Complete, Pending, ContentWritten
<1>. QED
  BY <1>1 DEF Pending, PostPenaltyWritten

LEMMA PendingKept ==
  ASSUME NEW d, NEW w, NEW c, Consistent(d), Pending(d, w), Pending(d, c), Apart(w, c)
  PROVE  Pending(Apply(d, c), w)
<1>1. Typed(w)
  BY DEF Pending
<1>. QED
  BY <1>1, ReferringKept, StateKept, AssignmentKept, ContentKept, ProfileKept,
     PostPenaltyKept DEF Pending

-----------------------------------------------------------------------------
(* Operations: what each is going to write is pending when it begins *)

(* The round a report belongs to, and why it exists.                       *)
LEMMA RoundType ==
  ASSUME NEW v \in Versions
  PROVE  /\ Round(v) \in 1..MaxRound[v]
         /\ Round(v) > 1 => Has(db, TargetState(<<v, Round(v)>>))
<1>1. MaxRound[v] \in Nat \ {0}
  BY CaseAssumption
<1>2. Rounds(v) \in SUBSET (1..MaxRound[v])
  BY DEF Rounds
<1>3. Rounds(v) # {} => Max(Rounds(v)) \in Rounds(v)
  BY <1>1, <1>2, LargestExists
<1>. QED
  BY <1>1, <1>2, <1>3 DEF Round, Rounds

(* Changes of reports and cases only leave the rest as it is.              *)
Ordinary(w) ==
  /\ ~Has(w, Content) /\ ~Has(w, Profile(Author))
  /\ \A k \in Keys : /\ ~Has(w, History(k)) /\ ~Has(w, Correction(k))
                     /\ ~CaseHas(w, k, {"RESOLVED_VIOLATION"})

LEMMA OrdinaryPending ==
  ASSUME NEW w, Ordinary(w)
  PROVE  ContentWritten(db, w) /\ ProfileWritten(db, w) /\ PostPenaltyWritten(db, w)
BY DEF Ordinary, ContentWritten, ProfileWritten, PostPenaltyWritten

LEMMA NewStateType == NewState \in StateDoc
BY DEF NewState, StateDoc, States

LEMMA ReportPending ==
  ASSUME Consistent(db), NEW s \in Sessions, NEW a \in Reporters, NEW v \in Versions,
         CreateReport(s, a, v)
  PROVE  \E w : Begin(s, w) /\ Pending(db, w)
<1> DEFINE k        == <<v, Round(v)>>
           state    == IF Has(db, TargetState(k)) THEN db[TargetState(k)] ELSE NewState
           reported == state.reporters \cup {a}
           full     == [status |-> "CASE_OPEN", reporters |-> reported]
           more     == [state EXCEPT !.reporters = reported]
<1>1. k \in Keys /\ k[1] = v /\ k[2] = Round(v)
  BY RoundType DEF Keys
<1>2. k[2] > 1 => Has(db, Correction(Earlier(k)))
  BY <1>1, RoundType DEF Consistent, Complete
<1>3. /\ state \in StateDoc /\ state.status = "COLLECTING" /\ ~Has(db, Case(k))
      /\ Begin(s, IF Cardinality(reported) >= ReportThreshold
                    THEN Apply(Put(TargetState(k), full), Put(Case(k), NewCase(reported)))
                    ELSE Put(TargetState(k), more))
  BY <1>1, NewStateType DEF CreateReport, Consistent, Typed
<1>4. /\ full \in StateDoc /\ full.status = "CASE_OPEN"
      /\ more \in StateDoc /\ more.status = "COLLECTING"
      /\ NewCase(reported) \in CaseDoc /\ NewCase(reported).status = "OPEN"
  <2>1. reported \in SUBSET Reporters
    BY <1>3 DEF StateDoc
  <2> HIDE DEF state, reported
  <2>. QED
    BY <1>3, <2>1 DEF StateDoc, States, NewCase, CaseDoc, Active
<1>5. ASSUME NEW w, w = Apply(Put(TargetState(k), full), Put(Case(k), NewCase(reported)))
      PROVE  Pending(db, w)
  <2> HIDE DEF k, full, reported
  <2>1. /\ \A id : Has(w, id) <=> id = TargetState(k) \/ id = Case(k)
        /\ w[TargetState(k)] = full /\ w[Case(k)] = NewCase(reported)
    BY <1>5, TwoDocuments DEF TargetState, Case
  <2>2. Typed(w)
    BY <1>4, <2>1 DEF Typed, Content, Profile, Quota, TargetState, Case, Assignment
  <2>3. Ordinary(w)
    BY <1>4, <2>1 DEF Ordinary, CaseHas, Content, Profile, TargetState, Case, History, Correction
  <2>4. Referring(db, w)
    BY <1>2, <1>3, <2>1, <2>3 DEF Ordinary, Referring, TargetState, Case, Assignment
  <2>5. \A j \in Keys : StateWritten(db, w, j)
    BY <1>4, <2>1 DEF StateWritten, CaseHas, Active, Terminal, TargetState, Case
  <2>6. \A j \in Keys, b \in Judges : AssignmentWritten(db, w, j, b)
    BY <1>4, <2>1 DEF AssignmentWritten, CaseHas, Terminal, TargetState, Case, Assignment
  <2>. QED
    BY <2>2, <2>3, <2>4, <2>5, <2>6, OrdinaryPending DEF Pending
<1>6. ASSUME NEW w, w = Put(TargetState(k), more)
      PROVE  Pending(db, w)
  <2> HIDE DEF k, more
  <2>1. /\ \A id : Has(w, id) <=> id = TargetState(k)
        /\ w[TargetState(k)] = more
    BY <1>6, OneDocument
  <2>2. Typed(w)
    BY <1>4, <2>1 DEF Typed, Content, Profile, Quota, TargetState, Case, Assignment
  <2>3. Ordinary(w)
    BY <2>1 DEF Ordinary, CaseHas, Content, Profile, TargetState, Case, History, Correction
  <2>4. Referring(db, w)
    BY <1>2, <2>1, <2>3 DEF Ordinary, Referring, TargetState, Case, Assignment
  <2>5. \A j \in Keys : StateWritten(db, w, j)
    BY <1>3, <1>4, <2>1 DEF StateWritten, CaseHas, Active, Terminal, TargetState, Case
  <2>6. \A j \in Keys, b \in Judges : AssignmentWritten(db, w, j, b)
    BY <2>1 DEF AssignmentWritten, CaseHas, TargetState, Case, Assignment
  <2>. QED
    BY <2>2, <2>3, <2>4, <2>5, <2>6, OrdinaryPending DEF Pending
<1>. QED
  BY <1>3, <1>5, <1>6

(* Weights are at most 8 halves.                                           *)
LEMMA WeightType ==
  ASSUME NEW level \in 1..10
  PROVE  Weight(level) \in 0..8
BY DEF Weight

LEMMA QuotaTotalType ==
  ASSUME NEW level \in 1..10
  PROVE  QuotaTotal(level) \in Nat
<1>1. Min({15, 5 + (level - 4) * 2}) \in {15, 5 + (level - 4) * 2}
  <2>1. \E x \in {15, 5 + (level - 4) * 2} : \A y \in {15, 5 + (level - 4) * 2} : x <= y
    OBVIOUS
  <2>. QED
    BY <2>1, Zenon DEF Min
<1>. QED
  BY <1>1 DEF QuotaTotal

LEMMA DispatchPending ==
  ASSUME Consistent(db), NEW s \in Sessions, NEW a \in Judges, NEW k \in Keys,
         DispatchNextCase(s, a, k)
  PROVE  \E w : Begin(s, w) /\ Pending(db, w)
<1>1. /\ CaseHas(db, k, Active) /\ db[Case(k)] \in CaseDoc
      /\ Begin(s, DispatchWrites(k, a))
  BY DEF DispatchNextCase, Undue, Open, CaseHas, Consistent, Typed
<1>2. SUFFICES ASSUME NEW w, w = DispatchWrites(k, a)
               PROVE  Pending(db, w)
  BY <1>1
<1>3. /\ \A id : Has(w, id) <=> id = Assignment(k, a) \/ id = Case(k)
      /\ w[Assignment(k, a)] = "ACTIVE" /\ w[Case(k)] = db[Case(k)]
  BY <1>2, TwoDocuments DEF DispatchWrites, Assignment, Case
<1>4. Typed(w)
  BY <1>1, <1>3 DEF Typed, Content, Profile, Quota, TargetState, Case, Assignment
<1>5. Ordinary(w)
  BY <1>1, <1>3 DEF Ordinary, CaseHas, Active, Content, Profile, Case, History, Correction, Assignment
<1>6. Referring(db, w)
  BY <1>1, <1>3, <1>5 DEF Ordinary, Referring, CaseHas, TargetState, Case, Assignment
<1>7. \A j \in Keys : StateWritten(db, w, j)
  BY <1>1, <1>3 DEF StateWritten, CaseHas, TargetState, Case, Assignment
<1>8. \A j \in Keys, b \in Judges : AssignmentWritten(db, w, j, b)
  BY <1>1, <1>3 DEF AssignmentWritten, CaseHas, Active, Terminal, Case, Assignment
<1>. QED
  BY <1>4, <1>5, <1>6, <1>7, <1>8, OrdinaryPending DEF Pending

LEMMA CountedType ==
  ASSUME Consistent(db), NEW k \in Keys, Has(db, Case(k)), NEW a \in Judges, NEW choice
  PROVE  Counted(k, a, choice) \in CaseDoc /\ Counted(k, a, choice).status = db[Case(k)].status
<1>1. db[Case(k)] \in CaseDoc /\ Weight(LevelOf[a]) \in Nat
  BY WeightType, CaseAssumption DEF Consistent, Typed, Agents
<1>2. db[Case(k)].yes + Weight(LevelOf[a]) \in Nat /\ db[Case(k)].no + Weight(LevelOf[a]) \in Nat
  BY <1>1 DEF CaseDoc
<1>. QED
  BY <1>1, <1>2, Zenon DEF Counted, CaseDoc

LEMMA SubmitPending ==
  ASSUME Consistent(db), NEW s \in Sessions, NEW a \in Judges, NEW k \in Keys, NEW choice,
         SubmitDecision(s, a, k, choice)
  PROVE  \E w : Begin(s, w) /\ Pending(db, w)
<1>1. Has(db, Assignment(k, a)) /\ Has(db, Case(k))
  BY DEF SubmitDecision, Assigned, Consistent, Complete
<1>2. ASSUME NEW w, w = Put(Assignment(k, a), "CASE_CLOSED")
      PROVE  Pending(db, w)
  <2>1. \A id : Has(w, id) <=> id = Assignment(k, a)
    BY <1>2, OneDocument
  <2>2. w[Assignment(k, a)] = "CASE_CLOSED"
    BY <1>2, OneDocument
  <2>3. Typed(w)
    BY <2>1, <2>2 DEF Typed, Content, Profile, Quota, TargetState, Case, Assignment
  <2>4. Ordinary(w)
    BY <2>1 DEF Ordinary, CaseHas, Content, Profile, Case, History, Correction, Assignment
  <2>5. Referring(db, w)
    BY <1>1, <2>1, <2>4 DEF Ordinary, Referring, TargetState, Case, Assignment
  <2>6. \A j \in Keys : StateWritten(db, w, j)
    BY <2>1 DEF StateWritten, TargetState, Case, Assignment
  <2>7. \A j \in Keys, b \in Judges : AssignmentWritten(db, w, j, b)
    BY <2>1, <2>2 DEF AssignmentWritten, CaseHas, Case, Assignment
  <2>. QED
    BY <2>3, <2>4, <2>5, <2>6, <2>7, OrdinaryPending DEF Pending
<1> DEFINE counted == Apply(Apply(Put(Vote(k, a), choice),
                                  Put(Assignment(k, a), "SUBMITTED")),
                            Apply(Put(Quota(a), db[Quota(a)] - 1),
                                  Put(Case(k), Counted(k, a, choice))))
<1>3. ASSUME NEW w, w = counted, CaseHas(db, k, Active), db[Quota(a)] > 0
      PROVE  Pending(db, w)
  <2>1. /\ \A id : Has(w, id) <=> id \in {Vote(k, a), Assignment(k, a), Quota(a), Case(k)}
        /\ w[Assignment(k, a)] = "SUBMITTED"
        /\ w[Quota(a)] = db[Quota(a)] - 1
        /\ w[Case(k)] = Counted(k, a, choice)
    BY <1>3, ApplyFacts, OneDocument DEF Vote, Assignment, Quota, Case
  <2>2. w[Case(k)] \in CaseDoc /\ w[Case(k)].status \in Active
    BY <1>3, <2>1, CountedType DEF CaseHas
  <2>3. w[Quota(a)] \in 0..QuotaTotal(LevelOf[a])
    <3>1. db[Quota(a)] \in 0..QuotaTotal(LevelOf[a])
      BY DEF Consistent, Typed, Complete
    <3>2. QuotaTotal(LevelOf[a]) \in Nat
      BY QuotaTotalType, CaseAssumption DEF Agents
    <3>. QED
      BY <1>3, <2>1, <3>1, <3>2
  <2>4. Typed(w)
    BY <2>1, <2>2, <2>3 DEF Typed, Content, Profile, Quota, TargetState, Case, Assignment, Vote
  <2>5. Ordinary(w)
    BY <2>1, <2>2 DEF Ordinary, CaseHas, Active, Content, Profile, Case, History, Correction,
                      Assignment, Vote, Quota
  <2>6. Referring(db, w)
    BY <1>1, <1>3, <2>1, <2>5 DEF Ordinary, Referring, TargetState, Case, Assignment, Vote, Quota
  <2>7. \A j \in Keys : StateWritten(db, w, j)
    BY <1>3, <2>1, <2>2 DEF StateWritten, CaseHas, TargetState, Case, Assignment, Vote, Quota
  <2>8. \A j \in Keys, b \in Judges : AssignmentWritten(db, w, j, b)
    BY <2>1, <2>2 DEF AssignmentWritten, CaseHas, Active, Terminal, Case, Assignment, Vote, Quota
  <2>. QED
    BY <2>4, <2>5, <2>6, <2>7, <2>8, OrdinaryPending DEF Pending
<1>. QED
  BY <1>2, <1>3 DEF SubmitDecision, Undue, Open, CaseHas

(* A health level after a penalty is one.                                  *)
LEMMA PenalisedType ==
  ASSUME NEW p \in ProfileDoc
  PROVE  /\ Penalised(p) \in ProfileDoc
         /\ Penalised(p).violations = p.violations + 1
         /\ LogicalHealth(Penalised(p)) = Max({Banned, LogicalHealth(p) - 1})
         /\ Penalised(p).banned /\ (p.banned => p.health = Banned) =>
              Penalised(p).health = Banned
<1> DEFINE next == Max({Banned, LogicalHealth(p) - 1})
<1>1. LogicalHealth(p) \in 1..4
  BY DEF LogicalHealth, ProfileDoc
<1>2. next \in 1..4
  BY <1>1, MaxOfTwo DEF Banned
<1>3. p.violations + 1 \in Nat /\ Banned \in 1..4
  BY DEF ProfileDoc, Banned
<1> DEFINE hidden == [p EXCEPT !.restore = next, !.health = Banned, !.violations = @ + 1]
           shown  == [p EXCEPT !.health = next, !.violations = @ + 1]
<1>4. hidden \in ProfileDoc /\ shown \in ProfileDoc
  <2> HIDE DEF next
  <2>. QED
    BY <1>2, <1>3, Zenon DEF ProfileDoc
<1>5. Penalised(p) = IF p.banned THEN hidden ELSE shown
  BY Zenon DEF Penalised
<1>6. /\ hidden.violations = p.violations + 1 /\ shown.violations = p.violations + 1
      /\ hidden.restore = next /\ hidden.banned = p.banned /\ hidden.health = Banned
      /\ shown.health = next /\ shown.banned = p.banned
  <2> HIDE DEF next
  <2>. QED
    BY DEF ProfileDoc
<1> HIDE DEF next, hidden, shown
<1>. QED
  BY <1>4, <1>5, <1>6 DEF LogicalHealth, next, ProfileDoc

(* What a violation adds to its verdict: it removes content that is still  *)
(* there, and penalises the author, always if it is a post.                *)
LEMMA ViolationWrites ==
  ASSUME Consistent(db), NEW k \in Keys
  PROVE  LET w == Violation(k)
         IN  /\ \A id : Has(w, id) => id \in {Content, Profile(Author), History(k)}
             /\ Has(w, Profile(Author)) <=> Has(w, History(k))
             /\ db[Content].type = "POST" => Has(w, History(k))
             /\ Has(w, Profile(Author)) =>
                  w[Profile(Author)] = Penalised(db[Profile(Author)])
             /\ Has(w, Content) =>
                  /\ Removable(k)
                  /\ w[Content] = [db[Content] EXCEPT !.removal = "GOVERNANCE"]
<1> DEFINE P == Penalty(k)
<1>1. /\ \A id : Has(P, id) <=> id \in {Profile(Author), History(k)}
      /\ P[Profile(Author)] = Penalised(db[Profile(Author)])
  BY TwoDocuments DEF Penalty, Profile, History
<1>2. /\ \A id : Has(Removal, id) <=> id = Content
      /\ Removal[Content] = [db[Content] EXCEPT !.removal = "GOVERNANCE"]
  BY OneDocument DEF Removal
<1> HIDE DEF P
<1>3. CASE Removable(k)
  <2>1. Violation(k) = Apply(Removal, P)
    BY <1>3 DEF Violation, P
  <2>. QED
    BY <1>1, <1>2, <1>3, <2>1, ApplyFacts DEF Content, Profile, History
<1>4. CASE ~Removable(k) /\ db[Content].type = "POST"
  <2>1. Violation(k) = P
    BY <1>4 DEF Violation, P
  <2>. QED
    BY <1>1, <2>1 DEF Content, Profile, History
<1>5. CASE ~Removable(k) /\ db[Content].type # "POST"
  <2>1. Violation(k) = <<>>
    BY <1>5 DEF Violation
  <2>. QED
    BY <1>5, <2>1, NoDocument
<1>. QED
  BY <1>3, <1>4, <1>5

LEMMA ClosedWrites ==
  ASSUME NEW k
  PROVE  LET w == ClosedAssignments(k)
         IN  /\ \A id : Has(w, id) <=>
                  \E a \in Judges : id = Assignment(k, a) /\ Assigned(k, a, "ACTIVE")
             /\ \A id : Has(w, id) => w[id] = "CASE_CLOSED"
BY DEF ClosedAssignments, Has

(* A verdict: the case, its report state and its assignments are closed    *)
(* together, and a violation brings removal and penalty.                   *)
LEMMA ResolutionPending ==
  ASSUME Consistent(db), NEW k \in Keys, CaseHas(db, k, Active), NEW case \in CaseDoc,
         NEW verdict \in Terminal, db[TargetState(k)].status = "CASE_OPEN"
  PROVE  Pending(db, Resolution(k, case, verdict))
<1> DEFINE closed   == ClosedAssignments(k)
           extra    == IF verdict = "RESOLVED_VIOLATION" THEN Violation(k) ELSE <<>>
           decided  == [case EXCEPT !.status = verdict, !.at = 0]
           state    == [db[TargetState(k)] EXCEPT !.status = verdict]
           w        == Resolution(k, case, verdict)
<1>1. /\ decided \in CaseDoc /\ decided.status = verdict
      /\ state \in StateDoc /\ state.status = verdict
  <2>1. db[TargetState(k)] \in StateDoc
    BY DEF Consistent, Typed, Complete, CaseHas
  <2>2. 0 \in 0..3
    OBVIOUS
  <2>3. decided \in CaseDoc
    BY <2>2, Zenon DEF CaseDoc
  <2>4. state \in StateDoc
    BY <2>1, Zenon DEF StateDoc, States
  <2>5. decided.status = verdict /\ state.status = verdict
    BY <2>1 DEF CaseDoc, StateDoc
  <2>. QED
    BY <2>3, <2>4, <2>5
<1>2. /\ \A id : Has(closed, id) <=>
           \E a \in Judges : id = Assignment(k, a) /\ Assigned(k, a, "ACTIVE")
      /\ \A id : Has(closed, id) => closed[id] = "CASE_CLOSED"
  BY ClosedWrites
<1>3. /\ \A id : Has(extra, id) =>
           id \in {Content, Profile(Author), History(k)} /\ verdict = "RESOLVED_VIOLATION"
      /\ Has(extra, Profile(Author)) <=> Has(extra, History(k))
      /\ db[Content].type = "POST" /\ verdict = "RESOLVED_VIOLATION" => Has(extra, History(k))
      /\ Has(extra, Profile(Author)) =>
           extra[Profile(Author)] = Penalised(db[Profile(Author)])
      /\ Has(extra, Content) =>
           /\ Removable(k)
           /\ extra[Content] = [db[Content] EXCEPT !.removal = "GOVERNANCE"]
  BY ViolationWrites, NoDocument
<1> HIDE DEF closed, extra, decided, state
<1>4. /\ \A id : Has(w, id) <=>
           id = Case(k) \/ id = TargetState(k) \/ Has(closed, id) \/ Has(extra, id)
      /\ w[Case(k)] = decided /\ w[TargetState(k)] = state
      /\ \A id : Has(closed, id) => w[id] = "CASE_CLOSED"
      /\ \A id : Has(extra, id) => w[id] = extra[id]
  <2>1. w = Apply(Apply(Put(Case(k), decided), Put(TargetState(k), state)),
                  Apply(closed, extra))
    BY DEF Resolution, closed, extra, decided, state
  <2>2. \A id : Has(closed, id) => ~Has(extra, id)
    BY <1>2, <1>3 DEF Content, Profile, History, Assignment
  <2>3. /\ ~Has(closed, Case(k)) /\ ~Has(closed, TargetState(k))
        /\ ~Has(extra, Case(k)) /\ ~Has(extra, TargetState(k))
        /\ Case(k) # TargetState(k)
    BY <1>2, <1>3 DEF Content, Profile, History, Assignment, Case, TargetState
  <2>. QED
    BY <1>2, <2>1, <2>2, <2>3, ApplyFacts, OneDocument
<1> HIDE DEF w
<1>5. \A id : Has(w, id) => \/ id = Case(k) \/ id = TargetState(k)
                            \/ \E a \in Judges : id = Assignment(k, a)
                            \/ id \in {Content, Profile(Author), History(k)}
  BY <1>2, <1>3, <1>4
<1>6. Has(w, Content) => /\ Removable(k) /\ verdict = "RESOLVED_VIOLATION"
                         /\ w[Content] \in ContentDoc
                         /\ w[Content].removal = "GOVERNANCE"
                         /\ w[Content].type = db[Content].type
                         /\ w[Content].version = db[Content].version
  <2>1. db[Content] \in ContentDoc
    BY DEF Consistent, Complete, Typed
  <2>2. Has(w, Content) => Has(extra, Content)
    BY <1>2, <1>4 DEF Content, Case, TargetState, Assignment
  <2>3. [db[Content] EXCEPT !.removal = "GOVERNANCE"] \in ContentDoc
    BY <2>1, Zenon DEF ContentDoc
  <2>. QED
    BY <1>3, <1>4, <2>1, <2>2, <2>3 DEF ContentDoc
<1>7. Has(w, Profile(Author)) => /\ Has(w, History(k)) /\ verdict = "RESOLVED_VIOLATION"
                                 /\ w[Profile(Author)] = Penalised(db[Profile(Author)])
  BY <1>2, <1>3, <1>4 DEF Profile, Case, TargetState, Assignment, History
<1>8. \A j \in Keys : Has(w, History(j)) =>
        j = k /\ Has(w, Profile(Author)) /\ verdict = "RESOLVED_VIOLATION"
  BY <1>2, <1>3, <1>4 DEF Profile, Case, TargetState, Assignment, History, Content
<1>9. Author \in Agents /\ db[Profile(Author)] \in ProfileDoc
  BY DEF Agents, Consistent, Complete, Typed
<1>10. Typed(w)
  <2>1. Has(w, Profile(Author)) => w[Profile(Author)] \in ProfileDoc
    BY <1>7, <1>9, PenalisedType
  <2>2. \A a \in Judges, j \in Keys : Has(w, Assignment(j, a)) =>
          w[Assignment(j, a)] = "CASE_CLOSED"
    BY <1>3, <1>4 DEF Case, TargetState, Assignment, Content, Profile, History
  <2>. QED
    BY <1>1, <1>4, <1>5, <1>6, <2>1, <2>2
       DEF Typed, Content, Profile, Quota, TargetState, Case, Assignment, History
<1>11. Referring(db, w)
  <2>1. \A j \in Keys, a \in Judges : Has(w, Assignment(j, a)) => j = k
    BY <1>5 DEF Case, TargetState, Assignment, Content, Profile, History
  <2>2. \A j \in Keys : (Has(w, Case(j)) => j = k) /\ (Has(w, TargetState(j)) => j = k)
    BY <1>5 DEF Case, TargetState, Assignment, Content, Profile, History
  <2>3. \A j \in Keys : ~Has(w, Correction(j))
    BY <1>5 DEF Case, TargetState, Assignment, Content, Profile, History, Correction
  <2>4. ~Has(db, History(k)) /\ (k[2] > 1 => Has(db, Correction(Earlier(k))))
    BY DEF Consistent, Complete, CaseHas, Active
  <2>5. Has(w, Case(k)) /\ w[Case(k)].status = verdict
    BY <1>1, <1>4
  <2>. QED
    BY <1>8, <2>1, <2>2, <2>3, <2>4, <2>5 DEF Referring, CaseHas
<1>12. \A j \in Keys : StateWritten(db, w, j)
  <2>1. \A j \in Keys : (Has(w, Case(j)) => j = k) /\ (Has(w, TargetState(j)) => j = k)
    BY <1>5 DEF Case, TargetState, Assignment, Content, Profile, History
  <2>. QED
    BY <1>1, <1>4, <2>1 DEF StateWritten, CaseHas, Terminal
<1>13. \A j \in Keys, a \in Judges : AssignmentWritten(db, w, j, a)
  <2>1. \A j \in Keys : Has(w, Case(j)) => j = k
    BY <1>5 DEF Case, TargetState, Assignment, Content, Profile, History
  <2>2. \A j \in Keys, a \in Judges : Has(w, Assignment(j, a)) => w[Assignment(j, a)] = "CASE_CLOSED"
    BY <1>3, <1>4 DEF Case, TargetState, Assignment, Content, Profile, History
  <2>3. \A a \in Judges : Has(db, Assignment(k, a)) /\ db[Assignment(k, a)] = "ACTIVE"
                            => Has(w, Assignment(k, a))
    BY <1>2, <1>4 DEF Assigned
  <2>. QED
    BY <2>1, <2>2, <2>3 DEF AssignmentWritten, CaseHas
<1>14. ContentWritten(db, w)
  <2>1. Has(w, Content) => db[Content].removal = "NONE" /\ k[1] = db[Content].version
    BY <1>6 DEF Removable
  <2>2. ~Has(db, Correction(k))
    BY DEF Consistent, Complete, CaseHas, Active
  <2>3. verdict = "RESOLVED_VIOLATION" => CaseHas(w, k, {"RESOLVED_VIOLATION"})
    BY <1>1, <1>4 DEF CaseHas
  <2>. QED
    BY <1>6, <2>1, <2>2, <2>3 DEF ContentWritten
<1>15. ProfileWritten(db, w)
  <2>1. db[Profile(Author)].banned => db[Profile(Author)].health = Banned
    BY DEF Consistent, HealthAgrees
  <2>2. Has(w, Profile(Author)) => PenaltyWritten(db, w, k)
    BY <1>7, <1>8, <1>9, PenalisedType DEF PenaltyWritten
  <2>. QED
    BY <1>7, <1>9, <2>1, <2>2, PenalisedType DEF ProfileWritten
<1>16. PostPenaltyWritten(db, w)
  <2>1. \A j \in Keys : Has(w, Case(j)) => j = k
    BY <1>5 DEF Case, TargetState, Assignment, Content, Profile, History
  <2>. QED
    BY <1>1, <1>3, <1>4, <2>1 DEF PostPenaltyWritten, CaseHas
<1>. QED
  BY <1>10, <1>11, <1>12, <1>13, <1>14, <1>15, <1>16 DEF Pending, w

LEMMA ResolvePending ==
  ASSUME Consistent(db), NEW s \in Sessions, NEW k \in Keys, Open(k),
         NEW case \in CaseDoc, NEW verdict \in Terminal, Resolve(s, k, case, verdict)
  PROVE  \E w : Begin(s, w) /\ Pending(db, w)
BY ResolutionPending DEF Resolve, Open, CaseHas

(* A deadline without a verdict writes the case, which stays open.         *)
LEMMA ReviewPending ==
  ASSUME Consistent(db), NEW k \in Keys, Open(k), NEW case \in CaseDoc,
         case.status \in Active
  PROVE  Pending(db, Put(Case(k), case))
<1>1. SUFFICES ASSUME NEW w, w = Put(Case(k), case)
               PROVE  Pending(db, w)
  OBVIOUS
<1>2. (\A id : Has(w, id) <=> id = Case(k)) /\ w[Case(k)] = case
  BY <1>1, OneDocument
<1>3. CaseHas(db, k, Active)
  BY DEF Open, CaseHas
<1>4. Typed(w)
  BY <1>2 DEF Typed, Content, Profile, Quota, TargetState, Case, Assignment
<1>5. Ordinary(w)
  BY <1>2 DEF Ordinary, CaseHas, Active, Content, Profile, Case, History, Correction
<1>6. Referring(db, w)
  BY <1>2, <1>3, <1>5 DEF Ordinary, Referring, TargetState, Case, Assignment
<1>7. \A j \in Keys : StateWritten(db, w, j)
  BY <1>2, <1>3 DEF StateWritten, CaseHas, TargetState, Case
<1>8. \A j \in Keys, b \in Judges : AssignmentWritten(db, w, j, b)
  BY <1>2 DEF AssignmentWritten, CaseHas, Active, Terminal, Case, Assignment
<1>. QED
  BY <1>4, <1>5, <1>6, <1>7, <1>8, OrdinaryPending DEF Pending

LEMMA AdvancePending ==
  ASSUME Consistent(db), NEW s \in Sessions, NEW k \in Keys, AdvanceClaimedDeadline(s, k)
  PROVE  \E w : Begin(s, w) /\ Pending(db, w)
<1> DEFINE case     == db[Case(k)]
           reviewed == [case EXCEPT !.reviewed = TRUE]
           first    == FirstReview(case.yes, case.no)
<1>1. Open(k) /\ case \in CaseDoc /\ case.status \in Active
  BY DEF AdvanceClaimedDeadline, Open, Consistent, Typed
<1>2. reviewed \in CaseDoc /\ reviewed.status = case.status
  BY <1>1, Zenon DEF CaseDoc
<1> DEFINE emergency == [reviewed EXCEPT !.status = "EMERGENCY", !.at = 3]
           later     == [reviewed EXCEPT !.at = 2]
           escalated == [case EXCEPT !.status = "EMERGENCY", !.at = 3]
<1>3. PICK now : 
         \/ \E verdict \in first : Resolve(s, k, reviewed, verdict)
         \/ Begin(s, Put(Case(k), IF now >= 2 THEN emergency ELSE later))
         \/ Begin(s, Put(Case(k), escalated))
         \/ Resolve(s, k, reviewed, FinalReview(case.yes, case.no))
  BY Zenon DEF AdvanceClaimedDeadline
<1>4. first \subseteq Terminal /\ FinalReview(case.yes, case.no) \in Terminal
  BY DEF FirstReview, FinalReview, Terminal
<1>5. /\ emergency \in CaseDoc /\ emergency.status \in Active
      /\ later \in CaseDoc /\ later.status \in Active
      /\ escalated \in CaseDoc /\ escalated.status \in Active
  <2>1. 2 \in 0..3 /\ 3 \in 0..3 /\ "EMERGENCY" \in Active
    BY DEF Active
  <2>2. emergency \in CaseDoc /\ later \in CaseDoc /\ escalated \in CaseDoc
    <3> HIDE DEF reviewed, case
    <3>. QED
      BY <1>1, <1>2, <2>1, Zenon DEF CaseDoc
  <2>3. emergency.status = "EMERGENCY" /\ later.status = reviewed.status
        /\ escalated.status = "EMERGENCY"
    <3> HIDE DEF reviewed, case
    <3>. QED
      BY <1>1, <1>2 DEF CaseDoc
  <2>. QED
    BY <1>1, <1>2, <2>1, <2>2, <2>3
<1> HIDE DEF case, reviewed, first, emergency, later, escalated
<1>. QED
  BY <1>1, <1>2, <1>3, <1>4, <1>5, ResolvePending, ReviewPending

LEMMA AdminVerdictPending ==
  ASSUME Consistent(db), NEW s \in Sessions, NEW k \in Keys, ResolveCaseForAdmin(s, k)
  PROVE  \E w : Begin(s, w) /\ Pending(db, w)
<1>1. Open(k) /\ db[Case(k)] \in CaseDoc
  BY DEF ResolveCaseForAdmin, Undue, Open, Consistent, Typed
<1>2. [db[Case(k)] EXCEPT !.source = "ADMIN"] \in CaseDoc
  BY <1>1, Zenon DEF CaseDoc
<1>. QED
  BY <1>1, <1>2, ResolvePending DEF ResolveCaseForAdmin

(* What the content's other writers change.                                *)
LEMMA ContentType ==
  ASSUME Consistent(db)
  PROVE  /\ db[Content] \in ContentDoc
         /\ \A removal \in {"NONE", "ADMIN"} :
              LET c == [db[Content] EXCEPT !.removal = removal]
              IN  c \in ContentDoc /\ c.removal = removal /\ c.type = db[Content].type
<1>1. db[Content] \in ContentDoc
  BY DEF Consistent, Complete, Typed
<1>2. ASSUME NEW removal \in {"NONE", "ADMIN"}
      PROVE  [db[Content] EXCEPT !.removal = removal] \in ContentDoc
  BY <1>1, Zenon DEF ContentDoc
<1>. QED
  BY <1>1, <1>2 DEF ContentDoc

LEMMA CorrectionPending ==
  ASSUME Consistent(db), NEW s \in Sessions, NEW k \in Keys, RestoreGovernanceRemoved(s, k)
  PROVE  \E w : Begin(s, w) /\ Pending(db, w)
<1> DEFINE content == [db[Content] EXCEPT !.removal = "NONE"]
           next    == <<k[1], k[2] + 1>>
<1>1. /\ CaseHas(db, k, {"RESOLVED_VIOLATION"}) /\ ~Has(db, Correction(k))
      /\ db[Content].removal = "GOVERNANCE" /\ k[2] < MaxRound[k[1]]
  BY DEF RestoreGovernanceRemoved, CaseHas
<1>2. content \in ContentDoc /\ content.removal = "NONE" /\ content.type = db[Content].type
  BY ContentType
<1>3. next \in Keys /\ Earlier(next) = k
  <2>1. k[1] \in Versions /\ k[2] \in 1..MaxRound[k[1]] /\ k = <<k[1], k[2]>>
    BY DEF Keys
  <2>2. MaxRound[k[1]] \in Nat
    BY <2>1, CaseAssumption
  <2>3. k[2] + 1 \in 1..MaxRound[k[1]] /\ (k[2] + 1) - 1 = k[2]
    BY <1>1, <2>1, <2>2
  <2>. QED
    BY <2>1, <2>3 DEF Keys, Earlier
<1>4. SUFFICES ASSUME NEW w, w = Apply(Put(Content, content),
                                       Apply(Put(TargetState(next), NewState),
                                             Put(Correction(k), "RESTORE_CONTENT")))
               PROVE  Pending(db, w)
  BY DEF RestoreGovernanceRemoved
<1> HIDE DEF content, next
<1>5. /\ \A id : Has(w, id) <=> id \in {Content, TargetState(next), Correction(k)}
      /\ w[Content] = content /\ w[TargetState(next)] = NewState
  BY <1>4, ApplyFacts, OneDocument DEF Content, TargetState, Correction
<1>6. ~Has(db, Case(next))
  \* a case of the next round would have a state, and it a correction of this round
  <2>1. next[2] > 1
    BY <1>3 DEF next, Keys
  <2>. QED
    BY <1>1, <1>3, <2>1 DEF Consistent, Complete
<1>7. NewState \in StateDoc /\ NewState.status = "COLLECTING"
  BY NewStateType DEF NewState
<1>8. Typed(w)
  BY <1>2, <1>5, <1>7 DEF Typed, Content, Profile, Quota, TargetState, Case, Assignment, Correction
<1>9. Referring(db, w)
  BY <1>1, <1>2, <1>3, <1>5 DEF Referring, Content, TargetState, Case, Assignment, Correction, History
<1>10. \A j \in Keys : StateWritten(db, w, j)
  BY <1>5, <1>6, <1>7 DEF StateWritten, Content, TargetState, Case, Correction, Terminal
<1>11. \A j \in Keys, a \in Judges : AssignmentWritten(db, w, j, a)
  BY <1>5 DEF AssignmentWritten, CaseHas, Content, TargetState, Case, Correction, Assignment
<1>12. ContentWritten(db, w) /\ ProfileWritten(db, w) /\ PostPenaltyWritten(db, w)
  <2>1. Has(w, Content) /\ Has(w, Correction(k)) /\ ~Has(w, Profile(Author))
    BY <1>5 DEF Content, TargetState, Correction, Profile
  <2>2. \A j \in Keys : ~Has(w, Case(j))
    BY <1>5 DEF Content, TargetState, Correction, Case
  <2>. QED
    BY <1>2, <1>5, <2>1, <2>2 DEF ContentWritten, ProfileWritten, PostPenaltyWritten, CaseHas
<1>. QED
  BY <1>8, <1>9, <1>10, <1>11, <1>12 DEF Pending

(* The report state an administrator's removal or restore takes along has  *)
(* no case.                                                                *)
LEMMA SyncWrites ==
  ASSUME Consistent(db), NEW from \in {"COLLECTING", "TARGET_REMOVED"},
         NEW to \in {"COLLECTING", "TARGET_REMOVED"}
  PROVE  \E k \in Keys :
           /\ \A id : Has(SyncState(from, to), id) => id = TargetState(k)
           /\ Has(SyncState(from, to), TargetState(k)) =>
                /\ SyncState(from, to)[TargetState(k)] \in StateDoc
                /\ SyncState(from, to)[TargetState(k)].status = to
                /\ ~Has(db, Case(k))
                /\ k[2] > 1 => Has(db, Correction(Earlier(k)))
<1> DEFINE v     == db[Content].version
           k     == <<v, Round(v)>>
           fresh == [NewState EXCEPT !.status = to]
           same  == [db[TargetState(k)] EXCEPT !.status = to]
<1>1. v \in Versions
  BY ContentType DEF ContentDoc
<1>2. k \in Keys /\ (k[2] > 1 => Has(db, TargetState(k)))
  BY <1>1, RoundType DEF Keys
<1>3. k[2] > 1 => Has(db, Correction(Earlier(k)))
  BY <1>2 DEF Consistent, Complete
<1>4. fresh \in StateDoc /\ fresh.status = to
  BY NewStateType DEF StateDoc, States
<1>5. Has(db, TargetState(k)) => same \in StateDoc /\ same.status = to
  BY <1>2 DEF Consistent, Typed, StateDoc, States
<1>6. CASE ~Has(db, TargetState(k)) /\ to = "TARGET_REMOVED"
  <2>1. SyncState(from, to) = Put(TargetState(k), fresh)
    BY <1>6 DEF SyncState
  <2>2. ~Has(db, Case(k))
    BY <1>2, <1>6 DEF Consistent, Complete
  <2> HIDE DEF k, fresh
  <2>. QED
    BY <1>2, <1>3, <1>4, <2>1, <2>2, OneDocument
<1>7. CASE Has(db, TargetState(k)) /\ db[TargetState(k)].status = from
  <2>1. SyncState(from, to) = Put(TargetState(k), same)
    BY <1>7 DEF SyncState
  <2>2. ~Has(db, Case(k))
    BY <1>2, <1>7 DEF Consistent, StateAgrees
  <2> HIDE DEF k, same
  <2>. QED
    BY <1>2, <1>3, <1>5, <1>7, <2>1, <2>2, OneDocument
<1>8. CASE /\ ~(~Has(db, TargetState(k)) /\ to = "TARGET_REMOVED")
           /\ ~(Has(db, TargetState(k)) /\ db[TargetState(k)].status = from)
  <2>1. SyncState(from, to) = <<>>
    BY <1>8 DEF SyncState
  <2>. QED
    BY <1>2, <2>1, NoDocument
<1>. QED
  BY <1>6, <1>7, <1>8

(* The content alone, or with a report state that has no case.             *)
LEMMA ContentPending ==
  ASSUME Consistent(db), NEW content \in ContentDoc, content.type = db[Content].type,
         content.removal # "GOVERNANCE", db[Content].removal # "GOVERNANCE",
         NEW sync, NEW k \in Keys,
         \A id : Has(sync, id) => id = TargetState(k),
         Has(sync, TargetState(k)) =>
           /\ sync[TargetState(k)] \in StateDoc
           /\ sync[TargetState(k)].status \in {"COLLECTING", "TARGET_REMOVED"}
           /\ ~Has(db, Case(k))
           /\ k[2] > 1 => Has(db, Correction(Earlier(k)))
  PROVE  Pending(db, Apply(Put(Content, content), sync))
<1>1. SUFFICES ASSUME NEW w, w = Apply(Put(Content, content), sync)
               PROVE  Pending(db, w)
  OBVIOUS
<1>2. /\ \A id : Has(w, id) => id = Content \/ id = TargetState(k)
      /\ Has(w, Content) /\ w[Content] = content
      /\ Has(w, TargetState(k)) =>
           Has(sync, TargetState(k)) /\ w[TargetState(k)] = sync[TargetState(k)]
  BY <1>1, ApplyFacts, OneDocument DEF Content, TargetState
<1>3. Typed(w)
  BY <1>2 DEF Typed, Content, Profile, Quota, TargetState, Case, Assignment
<1>4. Referring(db, w)
  BY <1>2 DEF Referring, Content, TargetState, Case, Assignment, Correction, History
<1>5. \A j \in Keys : StateWritten(db, w, j)
  BY <1>2 DEF StateWritten, Content, TargetState, Case, Terminal
<1>6. \A j \in Keys, a \in Judges : AssignmentWritten(db, w, j, a)
  BY <1>2 DEF AssignmentWritten, CaseHas, Content, TargetState, Case, Assignment
<1>7. ~Has(w, Profile(Author)) /\ \A j \in Keys : ~Has(w, Case(j))
  BY <1>2 DEF Content, TargetState, Profile, Case
<1>8. ContentWritten(db, w) /\ ProfileWritten(db, w) /\ PostPenaltyWritten(db, w)
  BY <1>2, <1>7 DEF ContentWritten, ProfileWritten, PostPenaltyWritten, CaseHas
<1>. QED
  BY <1>3, <1>4, <1>5, <1>6, <1>8 DEF Pending

LEMMA RemovePending ==
  ASSUME Consistent(db), NEW s \in Sessions, RemoveContent(s)
  PROVE  \E w : Begin(s, w) /\ Pending(db, w)
<1> DEFINE content == [db[Content] EXCEPT !.removal = "ADMIN"]
           sync    == SyncState("COLLECTING", "TARGET_REMOVED")
<1>1. db[Content].removal = "NONE" /\ Begin(s, Apply(Put(Content, content), sync))
  BY DEF RemoveContent
<1>2. content \in ContentDoc /\ content.removal = "ADMIN" /\ content.type = db[Content].type
  BY ContentType
<1> HIDE DEF content, sync
<1>3. Pending(db, Apply(Put(Content, content), sync))
  BY <1>1, <1>2, SyncWrites, ContentPending DEF sync
<1>. QED
  BY <1>1, <1>3

LEMMA RestorePending ==
  ASSUME Consistent(db), NEW s \in Sessions, RestoreContent(s)
  PROVE  \E w : Begin(s, w) /\ Pending(db, w)
<1> DEFINE content == [db[Content] EXCEPT !.removal = "NONE"]
           sync    == SyncState("TARGET_REMOVED", "COLLECTING")
<1>1. db[Content].removal = "ADMIN" /\ Begin(s, Apply(Put(Content, content), sync))
  BY DEF RestoreContent
<1>2. content \in ContentDoc /\ content.removal = "NONE" /\ content.type = db[Content].type
  BY ContentType
<1> HIDE DEF content, sync
<1>3. Pending(db, Apply(Put(Content, content), sync))
  BY <1>1, <1>2, SyncWrites, ContentPending DEF sync
<1>. QED
  BY <1>1, <1>3

LEMMA RevisePending ==
  ASSUME Consistent(db), NEW s \in Sessions, Revise(s)
  PROVE  \E w : Begin(s, w) /\ Pending(db, w)
<1>1. PICK hidden \in {{}, {db[Content].version}} :
        Begin(s, Put(Content, [db[Content] EXCEPT !.version = @ + 1,
                                                  !.hidden = @ \cup hidden]))
  BY DEF Revise
<1> DEFINE content == [db[Content] EXCEPT !.version = @ + 1, !.hidden = @ \cup hidden]
<1>2. db[Content] \in ContentDoc /\ db[Content].removal = "NONE"
      /\ db[Content].version < MaxVersion
  BY ContentType DEF Revise
<1>3. content \in ContentDoc /\ content.removal = "NONE" /\ content.type = db[Content].type
  <2>1. db[Content].version + 1 \in Versions
    BY <1>2, CaseAssumption DEF ContentDoc, Versions
  <2>2. db[Content].hidden \cup hidden \in SUBSET Versions
    BY <1>2 DEF ContentDoc
  <2>3. content \in ContentDoc
    BY <1>2, <2>1, <2>2, Zenon DEF ContentDoc
  <2>. QED
    BY <1>2, <2>3 DEF ContentDoc
<1>4. Put(Content, content) = Apply(Put(Content, content), <<>>)
  BY DEF Apply, Put
<1>5. \E k : k \in Keys
  <2>1. <<db[Content].version, Round(db[Content].version)>> \in Keys
    BY <1>2, RoundType DEF ContentDoc, Keys
  <2>. QED
    BY <2>1
<1> HIDE DEF content
<1>6. Pending(db, Put(Content, content))
  BY <1>2, <1>3, <1>4, <1>5, NoDocument, ContentPending
<1>. QED
  BY <1>1, <1>6 DEF content

(* A ban hides the author's health and an unban gives it back.             *)
LEMMA ProfilePending ==
  ASSUME Consistent(db), NEW profile \in ProfileDoc,
         profile.banned => profile.health = Banned,
         profile.violations = db[Profile(Author)].violations,
         LogicalHealth(profile) = LogicalHealth(db[Profile(Author)])
  PROVE  Pending(db, Put(Profile(Author), profile))
<1>1. SUFFICES ASSUME NEW w, w = Put(Profile(Author), profile)
               PROVE  Pending(db, w)
  OBVIOUS
<1>2. (\A id : Has(w, id) <=> id = Profile(Author)) /\ w[Profile(Author)] = profile
  BY <1>1, OneDocument
<1>3. Typed(w)
  BY <1>2 DEF Typed, Content, Profile, Quota, TargetState, Case, Assignment
<1>4. /\ ~Has(w, Content)
      /\ \A j \in Keys : /\ ~Has(w, Case(j)) /\ ~Has(w, TargetState(j))
                         /\ ~Has(w, History(j)) /\ ~Has(w, Correction(j))
                         /\ \A a \in Judges : ~Has(w, Assignment(j, a))
  BY <1>2 DEF Content, Profile, Case, TargetState, History, Correction, Assignment
<1>5. Referring(db, w) /\ \A j \in Keys : StateWritten(db, w, j)
  BY <1>4 DEF Referring, StateWritten
<1>6. \A j \in Keys, a \in Judges : AssignmentWritten(db, w, j, a)
  BY <1>4 DEF AssignmentWritten, CaseHas
<1>7. ContentWritten(db, w) /\ PostPenaltyWritten(db, w)
  BY <1>4 DEF ContentWritten, PostPenaltyWritten, CaseHas
<1>8. ProfileWritten(db, w)
  BY <1>2, <1>4 DEF ProfileWritten, NoPenaltyWritten
<1>. QED
  BY <1>3, <1>5, <1>6, <1>7, <1>8 DEF Pending

LEMMA SuspendPending ==
  ASSUME Consistent(db), NEW s \in Sessions, SuspendAgent(s)
  PROVE  \E w : Begin(s, w) /\ Pending(db, w)
<1> DEFINE p == db[Profile(Author)]
           q == [p EXCEPT !.health = Banned, !.banned = TRUE, !.restore = p.health]
<1>1. p \in ProfileDoc /\ ~p.banned /\ Begin(s, Put(Profile(Author), q))
  BY DEF SuspendAgent, Consistent, Complete, Typed, Agents
<1>2. q \in ProfileDoc /\ q.banned /\ q.health = Banned /\ q.violations = p.violations
      /\ q.restore = p.health
  <2>1. Banned \in 1..4 /\ p.health \in 1..4
    BY <1>1 DEF Banned, ProfileDoc
  <2>2. q \in ProfileDoc
    <3> HIDE DEF p
    <3>. QED
      BY <1>1, <2>1, Zenon DEF ProfileDoc
  <2>. QED
    BY <1>1, <2>2 DEF ProfileDoc
<1> HIDE DEF q
<1>3. Pending(db, Put(Profile(Author), q))
  BY <1>1, <1>2, ProfilePending DEF LogicalHealth
<1>. QED
  BY <1>1, <1>3

LEMMA UnsuspendPending ==
  ASSUME Consistent(db), NEW s \in Sessions, UnsuspendAgent(s)
  PROVE  \E w : Begin(s, w) /\ Pending(db, w)
<1> DEFINE p == db[Profile(Author)]
           q == [p EXCEPT !.health = p.restore, !.banned = FALSE, !.restore = Good]
<1>1. p \in ProfileDoc /\ p.banned /\ Begin(s, Put(Profile(Author), q))
  BY DEF UnsuspendAgent, Consistent, Complete, Typed, Agents
<1>2. q \in ProfileDoc /\ ~q.banned /\ q.violations = p.violations
      /\ q.health = p.restore
  <2>1. Good \in 1..4 /\ p.restore \in 1..4
    BY <1>1 DEF Good, ProfileDoc
  <2>2. q \in ProfileDoc
    <3> HIDE DEF p
    <3>. QED
      BY <1>1, <2>1, Zenon DEF ProfileDoc
  <2>. QED
    BY <1>1, <2>2 DEF ProfileDoc
<1> HIDE DEF q
<1>3. Pending(db, Put(Profile(Author), q))
  BY <1>1, <1>2, ProfilePending DEF LogicalHealth
<1>. QED
  BY <1>1, <1>3

LEMMA OperationPending ==
  ASSUME Consistent(db), NEW s \in Sessions, Operation(s)
  PROVE  \E w : Begin(s, w) /\ Pending(db, w)
BY ReportPending, DispatchPending, SubmitPending, AdvancePending, AdminVerdictPending,
   CorrectionPending, RemovePending, RestorePending, RevisePending, SuspendPending,
   UnsuspendPending DEF Operation

-----------------------------------------------------------------------------
(* The invariant *)

LEMMA BeginInvariant ==
  ASSUME CaseInvariant, NEW s \in Sessions, Operation(s)
  PROVE  CaseInvariant'
<1>1. PICK w : Begin(s, w) /\ Pending(db, w)
  BY OperationPending DEF CaseInvariant
<1>. QED
  BY <1>1, OpenEffect DEF CaseInvariant, Begin

LEMMA CommitInvariant ==
  ASSUME CaseInvariant, NEW s \in Sessions, Commit(s)
  PROVE  CaseInvariant'
<1>1. /\ txn[s].open /\ db' = Apply(db, txn[s].writes) /\ TxnShape'
      /\ \A u \in Sessions : txn'[u].open =>
           /\ txn[u].open /\ txn'[u].writes = txn[u].writes
           /\ Apart(txn[u].writes, txn[s].writes)
  BY CommitEffect DEF CaseInvariant, Commit
<1>2. Consistent(db')
  BY <1>1, ConsistentApplied DEF CaseInvariant
<1>3. \A u \in Sessions : txn'[u].open => Pending(db', txn'[u].writes)
  BY <1>1, PendingKept DEF CaseInvariant
<1>. QED
  BY <1>1, <1>2, <1>3 DEF CaseInvariant

LEMMA AbortInvariant ==
  ASSUME CaseInvariant, NEW s \in Sessions, Abort(s)
  PROVE  CaseInvariant'
BY AbortEffect DEF CaseInvariant, Abort

(* A new day writes the quotas, which no other document depends on; what   *)
(* is left of a transaction's writes shares nothing with it.               *)
LEMMA NewDayInvariant ==
  ASSUME CaseInvariant, NewDay
  PROVE  CaseInvariant'
<1> DEFINE quotas == {Quota(a) : a \in Judges}
           full   == [id \in quotas |-> QuotaTotal(LevelOf[id[2]])]
           Rest(w) == Restrict(w, DOMAIN w \ quotas)
<1>1. /\ db' = Apply(db, full)
      /\ txn' = [s \in Sessions |-> [txn[s] EXCEPT !.writes = Rest(@)]]
  BY DEF NewDay
<1>2. /\ \A id : Has(full, id) <=> id \in quotas
      /\ \A a \in Judges : full[Quota(a)] = QuotaTotal(LevelOf[a])
  BY DEF Has, Quota
<1>3. ASSUME NEW w
      PROVE  /\ \A id : Has(Rest(w), id) <=> Has(w, id) /\ id \notin quotas
             /\ \A id : Has(Rest(w), id) => Rest(w)[id] = w[id]
  BY DEF Has, Restrict
<1>4. /\ ~Has(full, Content) /\ \A a \in Agents : ~Has(full, Profile(a))
      /\ \A j \in Keys : /\ ~Has(full, Case(j)) /\ ~Has(full, TargetState(j))
                         /\ ~Has(full, History(j)) /\ ~Has(full, Correction(j))
                         /\ \A a \in Judges : ~Has(full, Assignment(j, a))
  BY <1>2 DEF Quota, Content, Profile, Case, TargetState, History, Correction, Assignment
<1>5. Pending(db, full)
  <2>1. Typed(full)
    <3>1. \A a \in Judges : QuotaTotal(LevelOf[a]) \in 0..QuotaTotal(LevelOf[a])
      BY QuotaTotalType, CaseAssumption DEF Agents
    <3>. QED
      BY <1>2, <1>4, <3>1 DEF Typed
  <2>2. Author \in Agents
    BY DEF Agents
  <2>. QED
    BY <1>4, <2>1, <2>2 DEF Pending, Referring, StateWritten, AssignmentWritten, CaseHas,
       ContentWritten, ProfileWritten, PostPenaltyWritten
<1>6. ASSUME NEW w, Pending(db, w)
      PROVE  Pending(db, Rest(w)) /\ Apart(Rest(w), full)
  <2>1. /\ Content \notin quotas /\ \A a \in Agents : Profile(a) \notin quotas
        /\ \A j : /\ Case(j) \notin quotas /\ TargetState(j) \notin quotas
                  /\ History(j) \notin quotas /\ Correction(j) \notin quotas
                  /\ \A a \in Judges : Assignment(j, a) \notin quotas
    BY DEF Quota, Content, Profile, Case, TargetState, History, Correction, Assignment
  <2>2. Typed(Rest(w))
    BY <1>3, <1>6 DEF Pending, Typed
  <2>3. ASSUME NEW id, id \notin quotas
        PROVE  /\ Has(Rest(w), id) <=> Has(w, id)
               /\ Has(Rest(w), id) => Rest(w)[id] = w[id]
    BY <1>3, <2>3
  <2> HIDE DEF quotas, Rest
  <2>4. Author \in Agents
    BY DEF Agents
  <2>5. Referring(db, Rest(w)) /\ \A j \in Keys : StateWritten(db, Rest(w), j)
    BY <1>6, <2>1, <2>3, <2>4 DEF Pending, Referring, StateWritten, CaseHas
  <2>6. \A j \in Keys, a \in Judges : AssignmentWritten(db, Rest(w), j, a)
    BY <1>6, <2>1, <2>3 DEF Pending, AssignmentWritten, CaseHas
  <2>7. ContentWritten(db, Rest(w)) /\ PostPenaltyWritten(db, Rest(w))
    BY <1>6, <2>1, <2>3 DEF Pending, ContentWritten, PostPenaltyWritten, CaseHas
  <2>8. ProfileWritten(db, Rest(w))
    BY <1>6, <2>1, <2>3, <2>4 DEF Pending, ProfileWritten, PenaltyWritten, NoPenaltyWritten
  <2>9. Apart(Rest(w), full)
    BY <1>2, <1>3 DEF Apart
  <2>. QED
    BY <2>2, <2>5, <2>6, <2>7, <2>8, <2>9 DEF Pending
<1>7. TxnShape' /\ \A s \in Sessions : /\ txn'[s].open = txn[s].open
                                      /\ txn'[s].writes = Rest(txn[s].writes)
  <2> HIDE DEF Rest
  <2>. QED
    BY <1>1 DEF CaseInvariant, TxnShape
<1> HIDE DEF full, Rest
<1>. QED
  BY <1>1, <1>5, <1>6, <1>7, ConsistentApplied, PendingKept DEF CaseInvariant

LEMMA InitInvariant ==
  ASSUME Init
  PROVE  CaseInvariant
<1>1. PICK type \in TargetTypes :
        db = Apply([id \in {Profile(a) : a \in Agents} |->
                        [health |-> Good, violations |-> 0,
                         banned |-> FALSE, restore |-> Good]],
                   Apply([id \in {Quota(a) : a \in Judges} |-> QuotaLeft],
                     Put(Content, [type |-> type, version |-> 1,
                                   removal |-> "NONE", hidden |-> {}])))
  BY DEF Init
<1> DEFINE fresh    == [health |-> Good, violations |-> 0, banned |-> FALSE, restore |-> Good]
           content  == [type |-> type, version |-> 1, removal |-> "NONE", hidden |-> {}]
           profiles == [id \in {Profile(a) : a \in Agents} |-> fresh]
           quotas   == [id \in {Quota(a) : a \in Judges} |-> QuotaLeft]
<1>2. /\ \A id : Has(profiles, id) <=> \E a \in Agents : id = Profile(a)
      /\ \A id : Has(profiles, id) => profiles[id] = fresh
      /\ \A id : Has(quotas, id) <=> \E a \in Judges : id = Quota(a)
      /\ \A id : Has(quotas, id) => quotas[id] = QuotaLeft
  BY DEF Has
<1>3. fresh \in ProfileDoc /\ content \in ContentDoc
  <2>1. 1 \in Versions
    BY CaseAssumption DEF Versions
  <2>. QED
    BY <2>1 DEF ProfileDoc, ContentDoc, Good
<1>4. /\ fresh.violations = 0 /\ ~fresh.banned /\ LogicalHealth(fresh) = Good
      /\ content.removal = "NONE"
  BY DEF LogicalHealth
<1>5. db = Apply(profiles, Apply(quotas, Put(Content, content)))
  BY <1>1
<1> HIDE DEF fresh, content, profiles, quotas
<1>6. /\ \A id : Has(db, id) <=> \/ id = Content
                                 \/ \E a \in Agents : id = Profile(a)
                                 \/ \E a \in Judges : id = Quota(a)
      /\ db[Content] = content
      /\ \A a \in Agents : db[Profile(a)] = fresh
      /\ \A a \in Judges : db[Quota(a)] = QuotaLeft
  <2>1. \A id : Has(db, id) <=> Has(profiles, id) \/ Has(quotas, id) \/ id = Content
    BY <1>5, ApplyFacts, OneDocument
  <2>2. db[Content] = content
    BY <1>2, <1>5, ApplyFacts, OneDocument DEF Content, Profile, Quota
  <2>3. \A a \in Agents : db[Profile(a)] = fresh
    BY <1>2, <1>5, ApplyFacts, OneDocument DEF Content, Profile, Quota
  <2>4. \A a \in Judges : db[Quota(a)] = QuotaLeft
    BY <1>2, <1>5, ApplyFacts, OneDocument DEF Content, Profile, Quota
  <2>. QED
    BY <1>2, <2>1, <2>2, <2>3, <2>4
<1>7. \A j \in Keys : /\ ~Has(db, Case(j)) /\ ~Has(db, TargetState(j))
                      /\ ~Has(db, History(j)) /\ ~Has(db, Correction(j))
                      /\ \A a \in Judges : ~Has(db, Assignment(j, a))
  BY <1>6 DEF Content, Profile, Quota, Case, TargetState, History, Correction, Assignment
<1>8. Typed(db)
  <2>1. \A a \in Judges : QuotaLeft \in 0..QuotaTotal(LevelOf[a])
    BY QuotaAssumption, QuotaTotalType, CaseAssumption DEF Agents
  <2>. QED
    BY <1>3, <1>6, <1>7, <2>1 DEF Typed
<1>9. HealthAgrees(db)
  <2>1. PenaltiesOf(db) = {} /\ Author \in Agents
    BY <1>7 DEF PenaltiesOf, Agents
  <2>2. Cardinality({}) = 0
    BY FS_EmptySet
  <2>3. Max({Banned, Good - 0}) = Good
    BY MaxOfTwo DEF Banned, Good
  <2>. QED
    BY <1>4, <1>6, <2>1, <2>2, <2>3 DEF HealthAgrees
<1>10. Consistent(db)
  BY <1>4, <1>6, <1>7, <1>8, <1>9 DEF Consistent, Complete, StateAgrees, AssignmentAgrees,
     RemovalAgrees, PostsPenalised, CaseHas
<1>. QED
  BY <1>10, NoneOpen DEF Init, CaseInvariant

LEMMA NextInvariant ==
  ASSUME CaseInvariant, [Next]_vars
  PROVE  CaseInvariant'
<1>1. CASE \E s \in Sessions : Operation(s) \/ Commit(s) \/ Abort(s)
  BY <1>1, BeginInvariant, CommitInvariant, AbortInvariant
<1>2. CASE \E k \in Keys : DeadlinePasses(k)
  BY <1>2 DEF DeadlinePasses, CaseInvariant, TxnShape
<1>3. CASE NewDay
  BY <1>3, NewDayInvariant
<1>4. CASE UNCHANGED vars
  BY <1>4 DEF vars, CaseInvariant, TxnShape
<1>. QED
  BY <1>1, <1>2, <1>3, <1>4 DEF Next

(* In every reachable state the documents are consistent, and what the     *)
(* open transactions are going to write keeps them so.                     *)
THEOREM CaseInvariantHolds == Spec => []CaseInvariant
<1>1. Init => CaseInvariant
  BY InitInvariant
<1>2. CaseInvariant /\ [Next]_vars => CaseInvariant'
  BY NextInvariant
<1>. QED
  BY <1>1, <1>2, PTL DEF Spec

-----------------------------------------------------------------------------
(* The properties of the runs *)

(* Every document has its fields' types, and every document that refers to *)
(* a case refers to one that exists.                                       *)
THEOREM TypeCorrect == Spec => []TypeOK
<1> DEFINE Passed == passed \in [Keys -> 0..3]
<1>1. Init => Passed
  BY DEF Init
<1>2. Passed /\ [Next]_vars => Passed'
  <2> SUFFICES ASSUME Passed, [Next]_vars PROVE Passed'
    OBVIOUS
  <2>1. ASSUME NEW k \in Keys, DeadlinePasses(k) PROVE Passed'
    BY <2>1 DEF DeadlinePasses
  <2>2. ASSUME NEW s \in Sessions, Operation(s) PROVE passed' = passed
    BY <2>2 DEF Operation, CreateReport, DispatchNextCase, SubmitDecision,
       ResolveCaseForAdmin, Resolve, RestoreGovernanceRemoved, RemoveContent,
       RestoreContent, Revise, SuspendAgent, UnsuspendAgent, Begin, AdvanceClaimedDeadline
  <2>. QED
    BY <2>1, <2>2 DEF Next, Commit, Abort, NewDay, vars
<1>3. CaseInvariant /\ Passed => TypeOK
  BY DEF CaseInvariant, Consistent, Complete, Typed, TypeOK, Cases, ContentDoc, ProfileDoc,
         StateDoc, CaseDoc, States
<1>. QED
  BY <1>1, <1>2, <1>3, CaseInvariantHolds, PTL DEF Spec

(* The report state of a target and its case never drift apart.            *)
THEOREM StatesFollowCases == Spec => []StateFollowsCase
<1>1. ASSUME CaseInvariant, NEW k \in Keys, Has(db, TargetState(k))
      PROVE  LET status == db[TargetState(k)].status
             IN  CASE status = "CASE_OPEN" -> Open(k)
                   [] status \in Terminal  -> k \in Cases /\ db[Case(k)].status = status
                   [] OTHER                -> k \notin Cases
  <2> DEFINE status == db[TargetState(k)].status
  <2>1. status \in States
    BY <1>1 DEF CaseInvariant, Consistent, Typed, StateDoc
  <2>2. /\ status = "CASE_OPEN" => Open(k)
        /\ status \in Terminal => k \in Cases /\ db[Case(k)].status = status
        /\ status \in {"COLLECTING", "TARGET_REMOVED"} => k \notin Cases
    BY <1>1 DEF CaseInvariant, Consistent, StateAgrees, CaseHas, Open, Cases
  <2>3. /\ status = "CASE_OPEN" \/ status \in Terminal
           \/ status \in {"COLLECTING", "TARGET_REMOVED"}
        /\ "CASE_OPEN" \notin Terminal
    BY <2>1 DEF States, Terminal
  <2> HIDE DEF status
  <2>4. (CASE status = "CASE_OPEN" -> Open(k)
           [] status \in Terminal  -> k \in Cases /\ db[Case(k)].status = status
           [] OTHER                -> k \notin Cases)
    BY <2>2, <2>3, Zenon
  <2>. QED
    BY <2>4 DEF status
<1>2. CaseInvariant => StateFollowsCase
  BY <1>1, Zenon DEF StateFollowsCase
<1>. QED
  BY <1>2, CaseInvariantHolds, PTL

(* No judge is left with an assignment to a case that has its verdict.     *)
THEOREM NoAssignmentLeft == Spec => []NoOpenAssignmentAfterVerdict
<1>1. CaseInvariant => NoOpenAssignmentAfterVerdict
  BY DEF CaseInvariant, Consistent, AssignmentAgrees, CaseHas, NoOpenAssignmentAfterVerdict,
         Assigned, Open
<1>. QED
  BY <1>1, CaseInvariantHolds, PTL

(* Content is removed by governance only on a verdict about the version it *)
(* has, and as long as that verdict has not been corrected.                *)
THEOREM RemovalsAreFounded == Spec => []RemovalHasStandingVerdict
<1>1. CaseInvariant => RemovalHasStandingVerdict
  BY DEF CaseInvariant, Consistent, RemovalAgrees, CaseHas, RemovalHasStandingVerdict, Cases
<1>. QED
  BY <1>1, CaseInvariantHolds, PTL

(* Every verdict of a violation by a post is penalised, once, and the      *)
(* author's health is what the penalties leave of it.                      *)
THEOREM PenaltiesAreFounded == Spec => []PenaltiesFollowVerdicts
<1>1. ASSUME CaseInvariant PROVE HealthCountsPenalties
  BY <1>1 DEF CaseInvariant, Consistent, HealthAgrees, PenaltiesOf, HealthCountsPenalties,
              Penalties
<1>2. ASSUME CaseInvariant PROVE EveryViolationPenalised
  BY <1>2 DEF CaseInvariant, Consistent, Complete, PostsPenalised, CaseHas,
              EveryViolationPenalised, Penalties, Cases
<1>3. CaseInvariant => PenaltiesFollowVerdicts
  BY <1>1, <1>2 DEF PenaltiesFollowVerdicts
<1>. QED
  BY <1>3, CaseInvariantHolds, PTL

(* What governance has removed becomes visible only with a correction: the *)
(* commit that makes it visible inserts the correction.                    *)
THEOREM CorrectionsRestore == Spec => OnlyCorrectionRestores
<1> DEFINE Corrected == \E k \in Keys : ~Has(db, Correction(k)) /\ Has(db', Correction(k))
           Restored  == db[Content].removal = "GOVERNANCE" /\ db'[Content].removal # "GOVERNANCE"
<1>1. ASSUME CaseInvariant, [Next]_vars, Restored
      PROVE  Corrected
  <2>1. ASSUME NEW s \in Sessions, Commit(s)
        PROVE  Corrected
    <3> DEFINE w == txn[s].writes
    <3>1. db' = Apply(db, w) /\ Pending(db, w) /\ Has(db, Content)
      BY <1>1, <2>1, CommitEffect DEF Commit, CaseInvariant, Consistent, Complete
    <3> HIDE DEF w
    <3>2. Has(w, Content)
      BY <1>1, <3>1, ApplyFacts
    <3>3. PICK k \in Keys : Has(w, Correction(k))
      BY <1>1, <3>1, <3>2 DEF Pending, ContentWritten
    <3>. QED
      BY <3>1, <3>3, ApplyFacts DEF Pending, Referring
  <2>2. ASSUME NEW s \in Sessions, Operation(s) \/ Abort(s)
        PROVE  db' = db
    <3>1. CASE Operation(s)
      <4>1. PICK w : Begin(s, w)
        BY <1>1, <3>1, OperationPending DEF CaseInvariant
      <4>. QED
        BY <4>1 DEF Begin, OpenTxn
    <3>. QED
      BY <2>2, <3>1 DEF Abort, AbortTxn
  <2>3. NewDay => db'[Content] = db[Content]
    <3> DEFINE full == [id \in {Quota(a) : a \in Judges} |-> QuotaTotal(LevelOf[id[2]])]
    <3>1. ~Has(full, Content)
      BY DEF Has, Quota, Content
    <3>2. NewDay => db' = Apply(db, full)
      BY DEF NewDay
    <3> HIDE DEF full
    <3>. QED
      BY <1>1, <3>1, <3>2, ApplyFacts DEF CaseInvariant, Consistent, Complete
  <2>. QED
    BY <1>1, <2>1, <2>2, <2>3 DEF Next, DeadlinePasses, vars
<1>2. CaseInvariant /\ [Next]_vars => [Restored => Corrected]_vars
  BY <1>1
<1>. QED
  BY <1>2, CaseInvariantHolds, PTL DEF Spec, OnlyCorrectionRestores

-----------------------------------------------------------------------------
(* Tallies and verdicts: for every set of judges and every interleaving of *)
(* their votes, the tally of a case is the weight of its recorded votes,   *)
(* and the verdict is what the tally says.  A vote writes the case it is   *)
(* about, so that no vote can come between a review and its verdict.       *)

-----------------------------------------------------------------------------
(* The weight of a set of judges *)

Share(a) == {a} \X (1..Weight(LevelOf[a]))

WeightOfAll(S) == Cardinality(UNION {Share(a) : a \in S})

(* The weight of a set of judges grows by that of the judge who joins it.  *)
LEMMA WeightOfNone ==
  WeightOfAll({}) = 0
<1>1. UNION {Share(b) : b \in {}} = {}
  OBVIOUS
<1>. QED
  BY <1>1, FS_EmptySet DEF WeightOfAll

LEMMA WeightGrows ==
  ASSUME NEW S \in SUBSET Judges, NEW a \in Judges, a \notin S
  PROVE  WeightOfAll(S \cup {a}) = WeightOfAll(S) + Weight(LevelOf[a])
<1> DEFINE T == UNION {Share(b) : b \in S}
           n == Weight(LevelOf[a])
<1>1. ASSUME NEW b \in Judges
      PROVE  IsFiniteSet(Share(b)) /\ Cardinality(Share(b)) = Weight(LevelOf[b])
  <2>1. Weight(LevelOf[b]) \in Nat
    BY WeightType, CaseAssumption DEF Agents
  <2>2. IsFiniteSet(1..Weight(LevelOf[b])) /\ Cardinality(1..Weight(LevelOf[b])) = Weight(LevelOf[b])
    BY <2>1, FS_Interval
  <2>3. IsFiniteSet({b}) /\ Cardinality({b}) = 1
    BY FS_Singleton
  <2>4. IsFiniteSet(Share(b)) /\ Cardinality(Share(b)) = Cardinality({b}) * Cardinality(1..Weight(LevelOf[b]))
    BY <2>2, <2>3, FS_Product DEF Share
  <2>. QED
    BY <2>1, <2>2, <2>3, <2>4
<1>2. IsFiniteSet(T)
  <2> DEFINE parts == {Share(b) : b \in S}
  <2>1. IsFiniteSet(S)
    BY FS_Subset, CaseAssumption
  <2>2. [b \in S |-> Share(b)] \in Surjection(S, parts)
    BY DEF Surjection
  <2>3. IsFiniteSet(parts)
    BY <2>1, <2>2, FS_Surjection
  <2>4. \A X \in parts : IsFiniteSet(X)
    BY <1>1
  <2> HIDE DEF parts
  <2>5. IsFiniteSet(UNION parts)
    BY <2>3, <2>4, FS_UNION
  <2>. QED
    BY <2>5 DEF parts
<1>3. UNION {Share(b) : b \in S \cup {a}} = T \cup Share(a)
  OBVIOUS
<1>4. T \cap Share(a) = {}
  BY DEF Share
<1>5. IsFiniteSet(Share(a)) /\ Cardinality(Share(a)) = n
  BY <1>1
<1> HIDE DEF T, n
<1>6. Cardinality(T \cup Share(a)) = Cardinality(T) + n - Cardinality(T \cap Share(a))
  BY <1>2, <1>5, FS_Union
<1>7. Cardinality(T) \in Nat /\ n \in Nat
  BY <1>2, <1>5, FS_CardinalityType
<1>8. Cardinality(T \cup Share(a)) = Cardinality(T) + n
  <2>1. Cardinality(T \cap Share(a)) = 0
    BY <1>4, FS_EmptySet
  <2>. QED
    BY <1>6, <1>7, <2>1
<1>. QED
  BY <1>3, <1>8 DEF T, n, WeightOfAll

-----------------------------------------------------------------------------
(* The invariant *)

VotersIn(d, k, choice) == {a \in Judges : Has(d, Vote(k, a)) /\ d[Vote(k, a)] = choice}

(* TallyIsSumOfVotes, of one case; there are no votes without a case.      *)
TallyAgrees(d, k) ==
  /\ \A a \in Judges : Has(d, Vote(k, a)) => Has(d, Case(k))
  /\ Has(d, Case(k)) =>
       /\ d[Case(k)].yes = WeightOfAll(VotersIn(d, k, "VIOLATION"))
       /\ d[Case(k)].no = WeightOfAll(VotersIn(d, k, "NOT_VIOLATION"))

(* VerdictFollowsVotes, of one case with p deadlines past; in an emergency *)
(* the last of them is waited for.                                         *)
VerdictAgrees(case, p) ==
  /\ case.status = "EMERGENCY" => case.at = 3
  /\ case.source = "COMMUNITY" =>
       /\ case.status = "RESOLVED_VIOLATION" =>
            case.yes > case.no /\ case.yes + case.no >= MinDecisive
       /\ case.status = "RESOLVED_NOT_VIOLATION" =>
            (case.yes < case.no /\ case.yes + case.no >= MinDecisive) \/ p = 3

(* A vote is inserted together with the tally it changes.                  *)
Tallied(d, w, k, a) ==
  LET weight == Weight(LevelOf[a])
  IN  /\ Has(w, Vote(k, a)) /\ ~Has(d, Vote(k, a))
      /\ \A b \in Judges : Has(w, Vote(k, b)) => b = a
      /\ \/ /\ w[Vote(k, a)] = "VIOLATION"
            /\ w[Case(k)].yes = d[Case(k)].yes + weight
            /\ w[Case(k)].no = d[Case(k)].no
         \/ /\ w[Vote(k, a)] = "NOT_VIOLATION"
            /\ w[Case(k)].yes = d[Case(k)].yes
            /\ w[Case(k)].no = d[Case(k)].no + weight

NotTallied(d, w, k) ==
  /\ \A b \in Judges : ~Has(w, Vote(k, b))
  /\ IF Has(d, Case(k))
       THEN w[Case(k)].yes = d[Case(k)].yes /\ w[Case(k)].no = d[Case(k)].no
       ELSE w[Case(k)].yes = 0 /\ w[Case(k)].no = 0

TallyWritten(d, w, k) ==
  /\ \A a \in Judges : Has(w, Vote(k, a)) => Has(w, Case(k))
  /\ Has(w, Case(k)) =>
       \/ NotTallied(d, w, k)
       \/ Has(d, Case(k)) /\ \E a \in Judges : Tallied(d, w, k, a)

VotesConsistent(d, p) ==
  \A k \in Keys : /\ TallyAgrees(d, k)
                  /\ Has(d, Case(k)) => VerdictAgrees(d[Case(k)], p[k])

VotesPending(d, w, p) ==
  \A k \in Keys : /\ TallyWritten(d, w, k)
                  /\ Has(w, Case(k)) => VerdictAgrees(w[Case(k)], p[k])

(* The inductive invariant, beside CaseInvariant.                          *)
VoteInvariant ==
  /\ VotesConsistent(db, passed)
  /\ \A s \in Sessions : txn[s].open => VotesPending(db, txn[s].writes, passed)

-----------------------------------------------------------------------------
(* Commits *)

LEMMA TallyApplied ==
  ASSUME NEW d, NEW w, NEW k \in Keys, TallyAgrees(d, k), TallyWritten(d, w, k)
  PROVE  TallyAgrees(Apply(d, w), k)
<1> DEFINE e == Apply(d, w)
<1>1. \A a \in Judges : Has(e, Vote(k, a)) => Has(e, Case(k))
  BY ApplyFacts DEF TallyAgrees, TallyWritten
<1>2. CASE ~Has(w, Case(k))
  <2>1. \A choice : VotersIn(e, k, choice) = VotersIn(d, k, choice)
    BY <1>2, ApplyFacts DEF VotersIn, TallyWritten
  <2>2. Has(e, Case(k)) => Has(d, Case(k)) /\ e[Case(k)] = d[Case(k)]
    BY <1>2, ApplyFacts
  <2>. QED
    BY <1>1, <2>1, <2>2 DEF TallyAgrees
<1>3. CASE Has(w, Case(k)) /\ NotTallied(d, w, k)
  <2>1. e[Case(k)] = w[Case(k)]
    BY <1>3, ApplyFacts
  <2>2. \A choice : VotersIn(e, k, choice) = VotersIn(d, k, choice)
    BY <1>3, ApplyFacts DEF VotersIn, NotTallied
  <2>3. CASE Has(d, Case(k))
    BY <1>1, <1>3, <2>1, <2>2, <2>3 DEF TallyAgrees, NotTallied
  <2>4. CASE ~Has(d, Case(k))
    <3>1. \A choice : VotersIn(d, k, choice) = {}
      BY <2>4 DEF TallyAgrees, VotersIn
    <3>. QED
      BY <1>1, <1>3, <2>1, <2>2, <2>4, <3>1, WeightOfNone DEF TallyAgrees, NotTallied
  <2>. QED
    BY <2>3, <2>4
<1>4. ASSUME NEW a \in Judges, Has(w, Case(k)), Has(d, Case(k)), Tallied(d, w, k, a)
      PROVE  TallyAgrees(e, k)
  <2>1. e[Case(k)] = w[Case(k)]
    BY <1>4, ApplyFacts
  <2>2. \A choice : VotersIn(e, k, choice) =
          IF w[Vote(k, a)] = choice THEN VotersIn(d, k, choice) \cup {a}
                                    ELSE VotersIn(d, k, choice)
    BY <1>4, ApplyFacts DEF VotersIn, Tallied
  <2>3. \A choice : VotersIn(d, k, choice) \in SUBSET Judges /\ a \notin VotersIn(d, k, choice)
    BY <1>4 DEF VotersIn, Tallied
  <2>4. \A choice : WeightOfAll(VotersIn(d, k, choice) \cup {a}) =
                      WeightOfAll(VotersIn(d, k, choice)) + Weight(LevelOf[a])
    BY <2>3, WeightGrows
  <2>. QED
    BY <1>1, <1>4, <2>1, <2>2, <2>4 DEF TallyAgrees, Tallied
<1>. QED
  BY <1>2, <1>3, <1>4 DEF TallyWritten

LEMMA VotesApplied ==
  ASSUME NEW d, NEW w, NEW p, VotesConsistent(d, p), VotesPending(d, w, p)
  PROVE  VotesConsistent(Apply(d, w), p)
BY TallyApplied, ApplyFacts DEF VotesConsistent, VotesPending

LEMMA VotesKept ==
  ASSUME NEW d, NEW w, NEW c, NEW p, VotesPending(d, w, p), VotesPending(d, c, p),
         Apart(w, c)
  PROVE  VotesPending(Apply(d, c), w, p)
<1>1. ASSUME NEW k \in Keys, Has(w, Case(k))
      PROVE  /\ ~Has(c, Case(k)) /\ \A a \in Judges : ~Has(c, Vote(k, a))
             /\ Has(Apply(d, c), Case(k)) <=> Has(d, Case(k))
             /\ Has(d, Case(k)) => Apply(d, c)[Case(k)] = d[Case(k)]
             /\ \A a \in Judges : Has(Apply(d, c), Vote(k, a)) <=> Has(d, Vote(k, a))
  BY <1>1, ApplyFacts DEF VotesPending, TallyWritten, Apart
<1>. QED
  BY <1>1 DEF VotesPending, TallyWritten, NotTallied, Tallied

-----------------------------------------------------------------------------
(* Operations *)

(* Only a decision writes a vote; the others keep the tally they read.     *)
LEMMA NoVotePending ==
  ASSUME NEW w,
         \A k \in Keys, a \in Judges : ~Has(w, Vote(k, a)),
         \A k \in Keys : Has(w, Case(k)) =>
           NotTallied(db, w, k) /\ VerdictAgrees(w[Case(k)], passed[k])
  PROVE  VotesPending(db, w, passed)
BY DEF VotesPending, TallyWritten

LEMMA ReportVotes ==
  ASSUME NEW s \in Sessions, NEW a \in Reporters, NEW v \in Versions, CreateReport(s, a, v)
  PROVE  \E w : Begin(s, w) /\ VotesPending(db, w, passed)
<1> DEFINE k        == <<v, Round(v)>>
           state    == IF Has(db, TargetState(k)) THEN db[TargetState(k)] ELSE NewState
           reported == state.reporters \cup {a}
           full     == [status |-> "CASE_OPEN", reporters |-> reported]
           more     == [state EXCEPT !.reporters = reported]
<1>1. /\ ~Has(db, Case(k))
      /\ Begin(s, IF Cardinality(reported) >= ReportThreshold
                    THEN Apply(Put(TargetState(k), full), Put(Case(k), NewCase(reported)))
                    ELSE Put(TargetState(k), more))
  BY DEF CreateReport
<1>2. ASSUME NEW w, w = Apply(Put(TargetState(k), full), Put(Case(k), NewCase(reported)))
      PROVE  VotesPending(db, w, passed)
  <2> HIDE DEF k, full, reported
  <2>1. /\ \A id : Has(w, id) <=> id = TargetState(k) \/ id = Case(k)
        /\ w[Case(k)] = NewCase(reported)
    BY <1>2, TwoDocuments DEF TargetState, Case
  <2>2. \A j \in Keys : Has(w, Case(j)) => j = k
    BY <2>1 DEF Case, TargetState
  <2>3. \A j \in Keys, b \in Judges : ~Has(w, Vote(j, b))
    BY <2>1 DEF Case, TargetState, Vote
  <2>. QED
    BY <1>1, <2>1, <2>2, <2>3, NoVotePending DEF NotTallied, VerdictAgrees, NewCase
<1>3. ASSUME NEW w, w = Put(TargetState(k), more)
      PROVE  VotesPending(db, w, passed)
  <2> HIDE DEF k, more
  <2>1. \A id : Has(w, id) <=> id = TargetState(k)
    BY <1>3, OneDocument
  <2>. QED
    BY <2>1, NoVotePending DEF Case, TargetState, Vote
<1>. QED
  BY <1>1, <1>2, <1>3

LEMMA DispatchVotes ==
  ASSUME VotesConsistent(db, passed), NEW s \in Sessions, NEW a \in Judges, NEW k \in Keys,
         DispatchNextCase(s, a, k)
  PROVE  \E w : Begin(s, w) /\ VotesPending(db, w, passed)
<1>1. Has(db, Case(k)) /\ Begin(s, DispatchWrites(k, a))
  BY DEF DispatchNextCase, Undue, Open
<1>2. ASSUME NEW w, w = DispatchWrites(k, a)
      PROVE  VotesPending(db, w, passed)
  <2>1. /\ \A id : Has(w, id) <=> id = Assignment(k, a) \/ id = Case(k)
        /\ w[Case(k)] = db[Case(k)]
    BY <1>2, TwoDocuments DEF DispatchWrites, Assignment, Case
  <2>2. \A j \in Keys : Has(w, Case(j)) => j = k
    BY <2>1 DEF Case, Assignment
  <2>3. \A j \in Keys, b \in Judges : ~Has(w, Vote(j, b))
    BY <2>1 DEF Case, Assignment, Vote
  <2>. QED
    BY <1>1, <2>1, <2>2, <2>3, NoVotePending DEF NotTallied, VotesConsistent
<1>. QED
  BY <1>1, <1>2

LEMMA SubmitVotes ==
  ASSUME Consistent(db), VotesConsistent(db, passed), NEW s \in Sessions, NEW a \in Judges,
         NEW k \in Keys, NEW choice \in Decisions, SubmitDecision(s, a, k, choice)
  PROVE  \E w : Begin(s, w) /\ VotesPending(db, w, passed)
<1>1. ASSUME NEW w, w = Put(Assignment(k, a), "CASE_CLOSED")
      PROVE  VotesPending(db, w, passed)
  <2>1. \A id : Has(w, id) <=> id = Assignment(k, a)
    BY <1>1, OneDocument
  <2>. QED
    BY <2>1, NoVotePending DEF Case, Assignment, Vote
<1> DEFINE counted == Apply(Apply(Put(Vote(k, a), choice),
                                  Put(Assignment(k, a), "SUBMITTED")),
                            Apply(Put(Quota(a), db[Quota(a)] - 1),
                                  Put(Case(k), Counted(k, a, choice))))
<1>2. ASSUME NEW w, w = counted, CaseHas(db, k, Active), ~Has(db, Vote(k, a))
      PROVE  VotesPending(db, w, passed)
  <2>1. /\ \A id : Has(w, id) <=> id \in {Vote(k, a), Assignment(k, a), Quota(a), Case(k)}
        /\ w[Vote(k, a)] = choice
        /\ w[Case(k)] = Counted(k, a, choice)
    BY <1>2, ApplyFacts, OneDocument DEF Vote, Assignment, Quota, Case
  <2>2. \A j \in Keys : Has(w, Case(j)) => j = k
    BY <2>1 DEF Case, Assignment, Vote, Quota
  <2>3. \A j \in Keys, b \in Judges : Has(w, Vote(j, b)) => j = k /\ b = a
    BY <2>1 DEF Case, Assignment, Vote, Quota
  <2>4. /\ choice = "VIOLATION" =>
             /\ Counted(k, a, choice).yes = db[Case(k)].yes + Weight(LevelOf[a])
             /\ Counted(k, a, choice).no = db[Case(k)].no
        /\ choice = "NOT_VIOLATION" =>
             /\ Counted(k, a, choice).yes = db[Case(k)].yes
             /\ Counted(k, a, choice).no = db[Case(k)].no + Weight(LevelOf[a])
        /\ Counted(k, a, choice).status = db[Case(k)].status
        /\ Counted(k, a, choice).at = db[Case(k)].at
    <3>1. db[Case(k)] \in CaseDoc
      BY <1>2 DEF Consistent, Typed, CaseHas
    <3>. QED
      BY <3>1 DEF Counted, CaseDoc
  <2>5. TallyWritten(db, w, k)
    BY <1>2, <2>1, <2>3, <2>4 DEF TallyWritten, Tallied, CaseHas, Decisions
  <2>6. VerdictAgrees(w[Case(k)], passed[k])
    BY <1>2, <2>1, <2>4 DEF VerdictAgrees, VotesConsistent, CaseHas, Active
  <2>. QED
    BY <2>2, <2>3, <2>5, <2>6 DEF VotesPending, TallyWritten
<1>. QED
  BY <1>1, <1>2 DEF SubmitDecision, Undue, Open, CaseHas

(* Whatever does not write a case or a vote.                               *)
LEMMA OtherVotes ==
  ASSUME NEW w, \A k \in Keys : ~Has(w, Case(k)),
         \A k \in Keys, a \in Judges : ~Has(w, Vote(k, a))
  PROVE  VotesPending(db, w, passed)
BY NoVotePending

(* A review without a verdict, and a verdict, keep the tally of the case.  *)
LEMMA ReviewVotes ==
  ASSUME NEW k \in Keys, Has(db, Case(k)), NEW case,
         case.yes = db[Case(k)].yes, case.no = db[Case(k)].no, VerdictAgrees(case, passed[k])
  PROVE  VotesPending(db, Put(Case(k), case), passed)
<1>1. SUFFICES ASSUME NEW w, w = Put(Case(k), case)
               PROVE  VotesPending(db, w, passed)
  OBVIOUS
<1>2. (\A id : Has(w, id) <=> id = Case(k)) /\ w[Case(k)] = case
  BY <1>1, OneDocument
<1>3. \A j \in Keys : Has(w, Case(j)) => j = k
  BY <1>2 DEF Case
<1>4. \A j \in Keys, a \in Judges : ~Has(w, Vote(j, a))
  BY <1>2 DEF Case, Vote
<1>. QED
  BY <1>2, <1>3, <1>4, NoVotePending DEF NotTallied

LEMMA ResolutionVotes ==
  ASSUME Consistent(db), NEW k \in Keys, Has(db, Case(k)), NEW case \in CaseDoc,
         case.yes = db[Case(k)].yes, case.no = db[Case(k)].no, NEW verdict \in Terminal,
         VerdictAgrees([case EXCEPT !.status = verdict, !.at = 0], passed[k])
  PROVE  VotesPending(db, Resolution(k, case, verdict), passed)
<1> DEFINE closed  == ClosedAssignments(k)
           extra   == IF verdict = "RESOLVED_VIOLATION" THEN Violation(k) ELSE <<>>
           decided == [case EXCEPT !.status = verdict, !.at = 0]
           state   == [db[TargetState(k)] EXCEPT !.status = verdict]
           w       == Resolution(k, case, verdict)
<1>1. decided.yes = db[Case(k)].yes /\ decided.no = db[Case(k)].no
  BY DEF CaseDoc
<1>2. \A id : Has(closed, id) => \E a \in Judges : id = Assignment(k, a)
  BY ClosedWrites
<1>3. \A id : Has(extra, id) => id \in {Content, Profile(Author), History(k)}
  BY ViolationWrites, NoDocument
<1>4. w = Apply(Apply(Put(Case(k), decided), Put(TargetState(k), state)),
                Apply(closed, extra))
  BY DEF Resolution
<1> HIDE DEF closed, extra, decided, state, w
<1>5. \A id : Has(w, id) => \/ id = Case(k) \/ id = TargetState(k)
                            \/ \E a \in Judges : id = Assignment(k, a)
                            \/ id \in {Content, Profile(Author), History(k)}
  BY <1>2, <1>3, <1>4, ApplyFacts, OneDocument
<1>6. w[Case(k)] = decided
  <2>1. ~Has(closed, Case(k)) /\ ~Has(extra, Case(k)) /\ Case(k) # TargetState(k)
    BY <1>2, <1>3 DEF Content, Profile, History, Assignment, Case, TargetState
  <2>. QED
    BY <1>4, <2>1, ApplyFacts, OneDocument
<1>7. \A j \in Keys : Has(w, Case(j)) => j = k
  BY <1>5 DEF Content, Profile, History, Assignment, Case, TargetState
<1>8. \A j \in Keys, a \in Judges : ~Has(w, Vote(j, a))
  BY <1>5 DEF Content, Profile, History, Assignment, Case, TargetState, Vote
<1>9. NotTallied(db, w, k)
  BY <1>1, <1>6, <1>8 DEF NotTallied
<1>10. \A j \in Keys : Has(w, Case(j)) => NotTallied(db, w, j) /\ VerdictAgrees(w[Case(j)], passed[j])
  BY <1>6, <1>7, <1>9 DEF decided
<1>. QED
  BY <1>8, <1>10, NoVotePending DEF w

(* The rules of the two reviews.                                           *)
LEMMA ReviewsAreSound ==
  ASSUME NEW case \in CaseDoc, NEW p
  PROVE  /\ \A verdict \in FirstReview(case.yes, case.no) :
              verdict \in Terminal
              /\ VerdictAgrees([case EXCEPT !.status = verdict, !.at = 0], p)
         /\ p = 3 => VerdictAgrees([case EXCEPT !.status = FinalReview(case.yes, case.no),
                                                !.at = 0], p)
<1>1. case.yes \in Nat /\ case.no \in Nat
  BY DEF CaseDoc
<1>2. ASSUME NEW verdict
      PROVE  LET c == [case EXCEPT !.status = verdict, !.at = 0]
             IN  c.status = verdict /\ c.yes = case.yes /\ c.no = case.no
  BY DEF CaseDoc
<1>3. ASSUME NEW verdict \in FirstReview(case.yes, case.no)
      PROVE  verdict \in Terminal
             /\ VerdictAgrees([case EXCEPT !.status = verdict, !.at = 0], p)
  BY <1>1, <1>2, <1>3 DEF FirstReview, VerdictAgrees, MinDecisive, Terminal
<1>4. ASSUME p = 3
      PROVE  VerdictAgrees([case EXCEPT !.status = FinalReview(case.yes, case.no), !.at = 0], p)
  BY <1>1, <1>2, <1>4 DEF FinalReview, VerdictAgrees, MinDecisive
<1>. QED
  BY <1>3, <1>4

LEMMA AdvanceVotes ==
  ASSUME Consistent(db), VotesConsistent(db, passed), passed \in [Keys -> 0..3],
         NEW s \in Sessions, NEW k \in Keys, AdvanceClaimedDeadline(s, k)
  PROVE  \E w : Begin(s, w) /\ VotesPending(db, w, passed)
<1> DEFINE case     == db[Case(k)]
           reviewed == [case EXCEPT !.reviewed = TRUE]
           first    == FirstReview(case.yes, case.no)
           final    == FinalReview(case.yes, case.no)
           emergency == [reviewed EXCEPT !.status = "EMERGENCY", !.at = 3]
           later     == [reviewed EXCEPT !.at = 2]
           escalated == [case EXCEPT !.status = "EMERGENCY", !.at = 3]
<1>1. /\ Has(db, Case(k)) /\ case \in CaseDoc /\ case.status \in Active
      /\ VerdictAgrees(case, passed[k])
  BY DEF AdvanceClaimedDeadline, Open, Consistent, Typed, VotesConsistent
<1>2. PICK now \in case.at .. passed[k] :
         \/ \E verdict \in first : Resolve(s, k, reviewed, verdict)
         \/ case.status = "OPEN" /\ Begin(s, Put(Case(k), IF now >= 2 THEN emergency ELSE later))
         \/ Begin(s, Put(Case(k), escalated))
         \/ case.status # "OPEN" /\ Resolve(s, k, reviewed, final)
  BY Zenon DEF AdvanceClaimedDeadline
<1>3. /\ reviewed \in CaseDoc /\ reviewed.status = case.status
      /\ reviewed.yes = case.yes /\ reviewed.no = case.no
  <2>1. reviewed \in CaseDoc
    BY <1>1, Zenon DEF CaseDoc
  <2>. QED
    BY <1>1, <2>1 DEF CaseDoc
<1>4. /\ emergency.status = "EMERGENCY" /\ emergency.at = 3
      /\ emergency.yes = case.yes /\ emergency.no = case.no
      /\ later.status = case.status /\ later.yes = case.yes /\ later.no = case.no
      /\ escalated.status = "EMERGENCY" /\ escalated.at = 3
      /\ escalated.yes = case.yes /\ escalated.no = case.no
  BY <1>1, <1>3 DEF CaseDoc
<1>5. case.status # "OPEN" => passed[k] = 3
  <2>1. case.status # "OPEN" => case.at = 3
    BY <1>1 DEF VerdictAgrees, Active
  <2>. QED
    BY <1>1, <1>2, <2>1 DEF CaseDoc
<1>6. final \in Terminal
  BY DEF FinalReview, Terminal
<1> HIDE DEF case, reviewed, first, final, emergency, later, escalated
<1>7. CASE \E verdict \in first : Resolve(s, k, reviewed, verdict)
  BY <1>1, <1>3, <1>7, ReviewsAreSound, ResolutionVotes DEF Resolve, case, first
<1>8. CASE case.status # "OPEN" /\ Resolve(s, k, reviewed, final)
  BY <1>1, <1>3, <1>5, <1>6, <1>8, ReviewsAreSound, ResolutionVotes DEF Resolve, case, final
<1>9. CASE case.status = "OPEN" /\ Begin(s, Put(Case(k), IF now >= 2 THEN emergency ELSE later))
  <2>1. VerdictAgrees(emergency, passed[k]) /\ VerdictAgrees(later, passed[k])
    BY <1>4, <1>9 DEF VerdictAgrees
  <2>. QED
    BY <1>1, <1>4, <1>9, <2>1, ReviewVotes DEF case
<1>10. CASE Begin(s, Put(Case(k), escalated))
  <2>1. VerdictAgrees(escalated, passed[k])
    BY <1>4 DEF VerdictAgrees
  <2>. QED
    BY <1>1, <1>4, <1>10, <2>1, ReviewVotes DEF case
<1>. QED
  BY <1>2, <1>7, <1>8, <1>9, <1>10

LEMMA AdminVerdictVotes ==
  ASSUME Consistent(db), NEW s \in Sessions, NEW k \in Keys, ResolveCaseForAdmin(s, k)
  PROVE  \E w : Begin(s, w) /\ VotesPending(db, w, passed)
<1> DEFINE case == [db[Case(k)] EXCEPT !.source = "ADMIN"]
<1>1. Has(db, Case(k)) /\ db[Case(k)] \in CaseDoc
  BY DEF ResolveCaseForAdmin, Undue, Open, Consistent, Typed
<1>2. case \in CaseDoc
  BY <1>1, Zenon DEF CaseDoc
<1>3. case.yes = db[Case(k)].yes /\ case.no = db[Case(k)].no /\ case.source = "ADMIN"
  BY <1>1 DEF CaseDoc
<1>4. PICK verdict \in Terminal : Resolve(s, k, case, verdict)
  BY DEF ResolveCaseForAdmin
<1> HIDE DEF case
<1>5. VerdictAgrees([case EXCEPT !.status = verdict, !.at = 0], passed[k])
  <2>1. LET c == [case EXCEPT !.status = verdict, !.at = 0]
        IN  c.source = "ADMIN" /\ c.status \in Terminal
    BY <1>2, <1>3 DEF CaseDoc
  <2>. QED
    BY <2>1 DEF VerdictAgrees, Terminal
<1>. QED
  BY <1>1, <1>2, <1>3, <1>4, <1>5, ResolutionVotes DEF Resolve

(* The other operations write no case and no vote.                         *)
LEMMA OperationVotes ==
  ASSUME Consistent(db), VotesConsistent(db, passed), passed \in [Keys -> 0..3],
         NEW s \in Sessions, Operation(s)
  PROVE  \E w : Begin(s, w) /\ VotesPending(db, w, passed)
<1>1. ASSUME NEW k \in Keys, RestoreGovernanceRemoved(s, k)
      PROVE  \E w : Begin(s, w) /\ VotesPending(db, w, passed)
  <2> DEFINE next == <<k[1], k[2] + 1>>
             w    == Apply(Put(Content, [db[Content] EXCEPT !.removal = "NONE"]),
                           Apply(Put(TargetState(next), NewState),
                                 Put(Correction(k), "RESTORE_CONTENT")))
  <2>1. \A id : Has(w, id) => id \in {Content, TargetState(next), Correction(k)}
    BY ApplyFacts, OneDocument
  <2>2. Begin(s, w)
    BY <1>1 DEF RestoreGovernanceRemoved
  <2> HIDE DEF w, next
  <2>3. VotesPending(db, w, passed)
    BY <2>1, OtherVotes DEF Content, TargetState, Correction, Case, Vote
  <2>. QED
    BY <2>2, <2>3
<1>2. ASSUME NEW content, NEW from \in {"COLLECTING", "TARGET_REMOVED"},
             NEW to \in {"COLLECTING", "TARGET_REMOVED"}
      PROVE  VotesPending(db, Apply(Put(Content, content), SyncState(from, to)), passed)
  <2>1. PICK k \in Keys : \A id : Has(SyncState(from, to), id) => id = TargetState(k)
    BY SyncWrites
  <2> DEFINE w == Apply(Put(Content, content), SyncState(from, to))
  <2>2. \A id : Has(w, id) => id = Content \/ id = TargetState(k)
    BY <2>1, ApplyFacts, OneDocument
  <2> HIDE DEF w
  <2>3. VotesPending(db, w, passed)
    BY <2>2, OtherVotes DEF Content, TargetState, Case, Vote
  <2>. QED
    BY <2>3 DEF w
<1>3. ASSUME NEW id \in {Content, Profile(Author)}, NEW document
      PROVE  VotesPending(db, Put(id, document), passed)
  <2>1. \A x : Has(Put(id, document), x) <=> x = id
    BY OneDocument
  <2>. QED
    BY <2>1, OtherVotes DEF Content, Profile, Case, Vote
<1>4. RemoveContent(s) \/ RestoreContent(s) =>
        \E w : Begin(s, w) /\ VotesPending(db, w, passed)
  BY <1>2 DEF RemoveContent, RestoreContent
<1>5. Revise(s) \/ SuspendAgent(s) \/ UnsuspendAgent(s) =>
        \E w : Begin(s, w) /\ VotesPending(db, w, passed)
  BY <1>3 DEF Revise, SuspendAgent, UnsuspendAgent
<1>. QED
  BY <1>1, <1>4, <1>5, ReportVotes, DispatchVotes, SubmitVotes, AdvanceVotes,
     AdminVerdictVotes DEF Operation

-----------------------------------------------------------------------------
(* The invariant *)

Passed == passed \in [Keys -> 0..3]

LEMMA PassedHolds == Spec => []Passed
<1>1. TypeOK => Passed
  BY DEF TypeOK, Passed
<1>. QED
  BY <1>1, TypeCorrect, PTL

LEMMA BeginVotes ==
  ASSUME CaseInvariant, VoteInvariant, Passed, NEW s \in Sessions, Operation(s)
  PROVE  VoteInvariant'
<1>1. PICK w : Begin(s, w) /\ VotesPending(db, w, passed)
  BY OperationVotes DEF CaseInvariant, VoteInvariant, Passed
<1>. QED
  BY <1>1, OpenEffect DEF CaseInvariant, VoteInvariant, Begin

LEMMA CommitVotes ==
  ASSUME CaseInvariant, VoteInvariant, NEW s \in Sessions, Commit(s)
  PROVE  VoteInvariant'
<1>1. /\ txn[s].open /\ db' = Apply(db, txn[s].writes) /\ passed' = passed
      /\ \A u \in Sessions : txn'[u].open =>
           /\ txn[u].open /\ txn'[u].writes = txn[u].writes
           /\ Apart(txn[u].writes, txn[s].writes)
  BY CommitEffect DEF CaseInvariant, Commit
<1>. QED
  BY <1>1, VotesApplied, VotesKept DEF VoteInvariant

(* Only the deadline that a dismissal waits for is asked about, and that   *)
(* one is past for good.                                                   *)
LEMMA DeadlineVotes ==
  ASSUME VoteInvariant, Passed, NEW k \in Keys, DeadlinePasses(k)
  PROVE  VoteInvariant'
<1>1. /\ UNCHANGED <<db, txn>>
      /\ \A j \in Keys : passed[j] = 3 => passed'[j] = 3
  BY DEF DeadlinePasses, Passed
<1>. QED
  BY <1>1 DEF VoteInvariant, VotesConsistent, VotesPending, VerdictAgrees

LEMMA NewDayVotes ==
  ASSUME CaseInvariant, VoteInvariant, NewDay
  PROVE  VoteInvariant'
<1> DEFINE quotas == {Quota(a) : a \in Judges}
           full   == [id \in quotas |-> QuotaTotal(LevelOf[id[2]])]
           Rest(w) == Restrict(w, DOMAIN w \ quotas)
<1>1. /\ db' = Apply(db, full) /\ passed' = passed
      /\ txn' = [s \in Sessions |-> [txn[s] EXCEPT !.writes = Rest(@)]]
  BY DEF NewDay
<1>2. \A j, a : /\ Case(j) \notin quotas /\ Vote(j, a) \notin quotas
                /\ ~Has(full, Case(j)) /\ ~Has(full, Vote(j, a))
  BY DEF Has, Quota, Case, Vote
<1>3. ASSUME NEW w, NEW id, id \notin quotas
      PROVE  /\ Has(Rest(w), id) <=> Has(w, id)
             /\ Has(Rest(w), id) => Rest(w)[id] = w[id]
  BY <1>3 DEF Has, Restrict
<1>4. \A s \in Sessions : /\ txn'[s].open = txn[s].open
                          /\ txn'[s].writes = Rest(txn[s].writes)
  <2> HIDE DEF Rest
  <2>. QED
    BY <1>1 DEF CaseInvariant, TxnShape
<1> HIDE DEF quotas, full, Rest
<1>5. \A j, a : /\ Has(db', Case(j)) <=> Has(db, Case(j))
                /\ Has(db', Vote(j, a)) <=> Has(db, Vote(j, a))
                /\ Has(db, Case(j)) => db'[Case(j)] = db[Case(j)]
                /\ Has(db, Vote(j, a)) => db'[Vote(j, a)] = db[Vote(j, a)]
  BY <1>1, <1>2, ApplyFacts
<1>6. VotesConsistent(db', passed)
  <2>1. \A k, choice : VotersIn(db', k, choice) = VotersIn(db, k, choice)
    BY <1>5 DEF VotersIn
  <2>. QED
    BY <1>5, <2>1 DEF VoteInvariant, VotesConsistent, TallyAgrees
<1>7. ASSUME NEW w, VotesPending(db, w, passed)
      PROVE  VotesPending(db', Rest(w), passed)
  <2>1. \A j, a : /\ Has(Rest(w), Case(j)) <=> Has(w, Case(j))
                  /\ Has(Rest(w), Vote(j, a)) <=> Has(w, Vote(j, a))
                  /\ Has(w, Case(j)) => Rest(w)[Case(j)] = w[Case(j)]
                  /\ Has(w, Vote(j, a)) => Rest(w)[Vote(j, a)] = w[Vote(j, a)]
    BY <1>2, <1>3
  <2>. QED
    BY <1>5, <1>7, <2>1 DEF VotesPending, TallyWritten, NotTallied, Tallied
<1>. QED
  BY <1>1, <1>4, <1>6, <1>7 DEF VoteInvariant

LEMMA InitVotes ==
  ASSUME Init
  PROVE  VoteInvariant
<1>1. \A k, a : ~Has(db, Case(k)) /\ ~Has(db, Vote(k, a))
  <2> DEFINE profiles == [id \in {Profile(a) : a \in Agents} |->
                            [health |-> Good, violations |-> 0,
                             banned |-> FALSE, restore |-> Good]]
             quotas   == [id \in {Quota(a) : a \in Judges} |-> QuotaLeft]
  <2>1. PICK content : db = Apply(profiles, Apply(quotas, Put(Content, content)))
    BY DEF Init
  <2>2. /\ \A id : Has(profiles, id) => \E a \in Agents : id = Profile(a)
        /\ \A id : Has(quotas, id) => \E a \in Judges : id = Quota(a)
    BY DEF Has
  <2> HIDE DEF profiles, quotas
  <2>3. \A id : Has(db, id) => \/ id = Content \/ \E a \in Agents : id = Profile(a)
                               \/ \E a \in Judges : id = Quota(a)
    BY <2>1, <2>2, ApplyFacts, OneDocument
  <2>. QED
    BY <2>3 DEF Content, Profile, Quota, Case, Vote
<1>. QED
  BY <1>1, NoneOpen DEF Init, VoteInvariant, VotesConsistent, TallyAgrees

(* In every reachable state tallies and verdicts follow the votes, and the *)
(* open transactions are going to keep them so.                            *)
THEOREM VoteInvariantHolds == Spec => []VoteInvariant
<1>1. Init => VoteInvariant
  BY InitVotes
<1>2. CaseInvariant /\ Passed /\ VoteInvariant /\ [Next]_vars => VoteInvariant'
  <2> SUFFICES ASSUME CaseInvariant, Passed, VoteInvariant, [Next]_vars
               PROVE  VoteInvariant'
    OBVIOUS
  <2>1. CASE \E s \in Sessions : Operation(s) \/ Commit(s)
    BY <2>1, BeginVotes, CommitVotes
  <2>2. ASSUME NEW s \in Sessions, Abort(s) PROVE VoteInvariant'
    BY <2>2, AbortEffect DEF Abort, CaseInvariant, VoteInvariant
  <2>3. CASE \E k \in Keys : DeadlinePasses(k)
    BY <2>3, DeadlineVotes
  <2>4. CASE NewDay
    BY <2>4, NewDayVotes
  <2>5. CASE UNCHANGED vars
    BY <2>5 DEF vars, VoteInvariant
  <2>. QED
    BY <2>1, <2>2, <2>3, <2>4, <2>5 DEF Next
<1>. QED
  BY <1>1, <1>2, CaseInvariantHolds, PassedHolds, PTL DEF Spec

(* Votes, verdict and penalty belong together: tallies are the weight of   *)
(* the votes, the verdict is what they say, and health is what its penalty *)
(* leaves.                                                                 *)
THEOREM VerdictsSound == Spec => []VerdictsAreSound
<1>1. \A k, choice : WeightOf(k, choice) = WeightOfAll(VotersIn(db, k, choice))
  BY DEF WeightOf, WeightOfAll, Share, Voters, VotersIn
<1>2. VoteInvariant => TallyIsSumOfVotes /\ VerdictFollowsVotes
  BY <1>1 DEF VoteInvariant, VotesConsistent, TallyAgrees, VerdictAgrees, TallyIsSumOfVotes,
              VerdictFollowsVotes, Cases
<1>3. PenaltiesFollowVerdicts => HealthCountsPenalties
  BY DEF PenaltiesFollowVerdicts
<1>. QED
  BY <1>2, <1>3, VoteInvariantHolds, PenaltiesAreFounded, PTL DEF VerdictsAreSound

=============================================================================
