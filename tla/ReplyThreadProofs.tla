------------------------- MODULE ReplyThreadProofs -------------------------
(***************************************************************************)
(* What holds of a post with its replies, their feedback and its counts,   *)
(* for any number of replies, agents, sessions and feedback documents: at  *)
(* every moment the counters are those of what they count, and work that   *)
(* is left to the projection is signalled.                                 *)
(*                                                                         *)
(* Each count is guarded by one document: the count of the post by the     *)
(* post, that of a root's children and of a reply's feedback by the reply, *)
(* those of the ranking by its state.  The writes of an open transaction   *)
(* either change nothing that the count depends on, which shows in the     *)
(* documents they write, or write the guarding document and leave the      *)
(* count right.  Of two transactions that both commit, therefore, only one *)
(* can be of the second kind, and they commute.                            *)
(***************************************************************************)
EXTENDS ReplyThread, SharedProofs

-----------------------------------------------------------------------------
(* DOCUMENTS                                                               *)

FeedbackRecord == [kind: {"positive", "negative"}, id: FeedbackIds]

ReplyRecord ==
  [author: Agents, root: {0} \cup Replies, deleted: BOOLEAN, children: Int,
   positive: Int, negative: Int]

ItemRecord ==
  [owner: Agents, active: BOOLEAN, source: BOOLEAN, counted: BOOLEAN, dirty: BOOLEAN]

StateRecord ==
  [participants: Int, positive: Int, replies: Int, eligible: BOOLEAN, signal: Nat,
   dirty: BOOLEAN, ready: BOOLEAN, live: BOOLEAN]

(* The root of a reply is there, and a root itself.                        *)
Hangs(d, r) ==
  \/ IsRoot(d[Reply(r)])
  \/ LET root == d[Reply(r)].root IN Has(d, Reply(root)) /\ IsRoot(d[Reply(root)])

RepliesTyped(d) == \A r \in RepliesIn(d) : d[Reply(r)] \in ReplyRecord /\ Hangs(d, r)

FeedbackTyped(d) ==
  \A r \in Replies, a \in Agents : Exists(d, Feedback(r, a)) =>
    Has(d, Reply(r)) /\ d[Feedback(r, a)] \in FeedbackRecord

ItemsTyped(d) == \A s \in Items(d) : d[Item(s)] \in ItemRecord

StateTyped(d) == Has(d, HotState) /\ d[HotState] \in StateRecord

ThreadTyped(d) ==
  Has(d, Post) /\ RepliesTyped(d) /\ FeedbackTyped(d) /\ ItemsTyped(d) /\ StateTyped(d)

(* Writes w, applied to documents d, keep the types.                       *)
RepliesStayTyped(d, w) ==
  \A r \in RepliesIn(w) :
    /\ w[Reply(r)] \in ReplyRecord
    /\ LET root == w[Reply(r)].root
       IN  IF Has(d, Reply(r)) THEN root = d[Reply(r)].root
           ELSE root = 0 \/ (/\ Has(w, Reply(root)) /\ Has(d, Reply(root))
                             /\ IsRoot(d[Reply(root)]))

FeedbackStaysTyped(d, w) ==
  \A r \in Replies, a \in Agents : Exists(w, Feedback(r, a)) =>
    /\ Has(w, Reply(r)) /\ Has(d, Reply(r))
    /\ w[Feedback(r, a)] \in FeedbackRecord

StaysTyped(d, w) ==
  /\ RepliesStayTyped(d, w) /\ FeedbackStaysTyped(d, w) /\ ItemsTyped(w)
  /\ Has(w, HotState) => w[HotState] \in StateRecord

-----------------------------------------------------------------------------
(* COUNTS, and what leaves them alone                                      *)

Shown(d) == {r \in RepliesIn(d) : BranchVisible(d, r)}

PostCounts(d) == d[Post].replies = Cardinality(Shown(d))

(* No reply is created, and one is removed or restored only together with  *)
(* a write to its root, which is removed and stays so.                     *)
KeepsShown(d, w) ==
  /\ ~Has(w, Post)
  /\ \A r \in RepliesIn(w) :
       /\ Has(d, Reply(r)) /\ w[Reply(r)].root = d[Reply(r)].root
       /\ \/ w[Reply(r)].deleted = d[Reply(r)].deleted
          \/ LET root == d[Reply(r)].root
             IN  root # 0 /\ Has(w, Reply(root)) /\ d[Reply(root)].deleted

Kept(d, r) == {c \in ChildrenIn(d, r) : ~d[Reply(c)].deleted}

RootCounts(d, r) ==
  Has(d, Reply(r)) => d[Reply(r)].children = Cardinality(Kept(d, r))

KeepsChildren(d, w, r) ==
  /\ Has(w, Reply(r)) =>
       Has(d, Reply(r)) /\ w[Reply(r)].children = d[Reply(r)].children
  /\ \A c \in RepliesIn(w) : w[Reply(c)].root = r =>
       /\ Has(d, Reply(c)) /\ d[Reply(c)].root = r
       /\ w[Reply(c)].deleted = d[Reply(c)].deleted

OfKind(d, r, kind) == {a \in FeedbackIn(d, r) : d[Feedback(r, a)].kind = kind}

ReplyCounts(d, r) ==
  Has(d, Reply(r)) => /\ d[Reply(r)].positive = Cardinality(OfKind(d, r, "positive"))
                      /\ d[Reply(r)].negative = Cardinality(OfKind(d, r, "negative"))

KeepsFeedback(d, w, r) ==
  /\ Has(w, Reply(r)) => /\ Has(d, Reply(r))
                         /\ w[Reply(r)].positive = d[Reply(r)].positive
                         /\ w[Reply(r)].negative = d[Reply(r)].negative
  /\ \A a \in Agents : ~Has(w, Feedback(r, a))

IsCounted(d, s) == Exists(d, Item(s)) /\ d[Item(s)].counted

CountedFor(d, owner, type) ==
  {s \in Sources : s[1] = type /\ IsCounted(d, s) /\ d[Item(s)].owner = owner}

Participants(d) ==
  {a \in Agents : CountedFor(d, a, "reply") \cup CountedFor(d, a, "feedback") # {}}
Supporters(d) == {a \in Agents : CountedFor(d, a, "feedback") # {}}
CountedReplies(d) == {s \in Sources : s[1] = "reply" /\ IsCounted(d, s)}

StateCounts(d) ==
  LET state == d[HotState]
  IN  /\ state.participants = Cardinality(Participants(d))
      /\ state.positive = Cardinality(Supporters(d))
      /\ state.replies = Cardinality(CountedReplies(d))
      /\ state.eligible = Eligible(state.participants, state.positive)

KeepsState(new, old) ==
  /\ new.participants = old.participants /\ new.positive = old.positive
  /\ new.replies = old.replies /\ new.eligible = old.eligible

KeepsCounted(d, w) ==
  \A s \in Sources : Has(w, Item(s)) =>
    /\ IsCounted(w, s) <=> IsCounted(d, s)
    /\ IsCounted(d, s) => w[Item(s)].owner = d[Item(s)].owner

KeepsHot(d, w) ==
  /\ KeepsCounted(d, w)
  /\ Has(w, HotState) => KeepsState(w[HotState], d[HotState])

(* The documents d are right, and stay so when w is written.               *)
ThreadRight(d) ==
  /\ ThreadTyped(d) /\ PostCounts(d) /\ StateCounts(d)
  /\ \A r \in Replies : RootCounts(d, r) /\ ReplyCounts(d, r)

StaysRight(d, w) ==
  /\ StaysTyped(d, w)
  /\ KeepsShown(d, w) \/ (Has(w, Post) /\ PostCounts(Apply(d, w)))
  /\ KeepsHot(d, w) \/ (Has(w, HotState) /\ StateCounts(Apply(d, w)))
  /\ \A r \in Replies :
       /\ KeepsChildren(d, w, r) \/ (Has(w, Reply(r)) /\ RootCounts(Apply(d, w), r))
       /\ KeepsFeedback(d, w, r) \/ (Has(w, Reply(r)) /\ ReplyCounts(Apply(d, w), r))

-----------------------------------------------------------------------------
(* WORK                                                                    *)

DirtyDocs(d) ==
  {Item(s) : s \in DirtyItems(d)} \cup {Branch(r) : r \in DirtyBranches(d)}
    \cup {Fanout(r) : r \in DirtyFanouts(d)}

(* The transaction of a user signals the work it adds.                     *)
SignalsWork(d, w) ==
  /\ Has(w, HotState) => w[HotState].dirty /\ w[HotState].signal > d[HotState].signal
  /\ DirtyWork(w) => Has(w, HotState)

(* A transaction of the projection does work that was signalled.           *)
DoesWork(d, w) ==
  /\ \E id \in DirtyDocs(d) : Has(w, id)
  /\ Has(w, HotState) => /\ w[HotState].dirty = d[HotState].dirty
                         /\ w[HotState].signal = d[HotState].signal

(* The jobs carry signals that have been given.                            *)
JobRecord == [tries: Nat \ {0}, signal: Nat]

QueueRecord ==
  LET Jobs == {NoJob} \cup JobRecord IN [waiting: Jobs, active: Jobs, next: Jobs]

SignalKnown(job) ==
  job = NoJob \/ (job \in JobRecord /\ job.signal <= db[HotState].signal)

JobsKnown ==
  /\ threadJobs \in QueueRecord
  /\ SignalKnown(threadJobs.waiting) /\ SignalKnown(threadJobs.active)
  /\ SignalKnown(threadJobs.next)

(* A job that has found nothing left to do may say so, unless a signal has *)
(* come since.                                                             *)
NothingLeft ==
  PassAt("clear") /\ db[HotState].signal = threadJobs.active.signal => ~DirtyWork(db)

PassOpen ==
  txn[Projector].open => /\ projecting.at \in {"branch", "fanout", "items"}
                         /\ PassAt("items") => projecting.done < WorkBatch

(* The transactions that are open.                                         *)
TxnsRight ==
  \A s \in Sessions : txn[s].open =>
    /\ StaysRight(db, txn[s].writes)
    /\ IF s = Projector THEN DoesWork(db, txn[s].writes)
       ELSE SignalsWork(db, txn[s].writes)

(* The invariant.                                                          *)
ThreadInvariant ==
  /\ ThreadTypeOK /\ TxnShape /\ JobsKnown /\ NothingLeft /\ PassOpen
  /\ ThreadRight(db) /\ DirtyWorkIsSignalled /\ TxnsRight

-----------------------------------------------------------------------------
(* CHANGES AND COUNTS                                                      *)

LEMMA ThreadFacts ==
  /\ IsFiniteSet(Replies) /\ IsFiniteSet(Agents) /\ IsFiniteSet(FeedbackIds)
  /\ Replies \subseteq Nat \ {0} /\ 1 \in Replies /\ 2 \in Replies
  /\ Author \in Agents /\ RootAuthor \in Agents /\ ChildAuthor \in Agents
  /\ Projector \in Sessions
  /\ MinParticipants \in Nat \ {0} /\ MinPositive \in Nat \ {0}
BY ReplyThreadAssumption

(* Ids tell documents apart.                                               *)
LEMMA ThreadIds ==
  /\ \A r, q : (Reply(r) = Reply(q) => r = q) /\ (Branch(r) = Branch(q) => r = q)
               /\ (Fanout(r) = Fanout(q) => r = q) /\ (Item(r) = Item(q) => r = q)
  /\ \A r, q, a, b : Feedback(r, a) = Feedback(q, b) => r = q /\ a = b
  /\ Post # HotState
  /\ \A r, q, a : /\ Post # Reply(r) /\ Post # Feedback(r, a) /\ Post # Item(r)
                  /\ Post # Branch(r) /\ Post # Fanout(r)
                  /\ HotState # Reply(r) /\ HotState # Feedback(r, a) /\ HotState # Item(r)
                  /\ HotState # Branch(r) /\ HotState # Fanout(r)
                  /\ Reply(r) # Feedback(q, a) /\ Reply(r) # Item(q)
                  /\ Reply(r) # Branch(q) /\ Reply(r) # Fanout(q)
                  /\ Feedback(r, a) # Item(q) /\ Feedback(r, a) # Branch(q)
                  /\ Feedback(r, a) # Fanout(q)
                  /\ Item(r) # Branch(q) /\ Item(r) # Fanout(q) /\ Branch(r) # Fanout(q)
BY DEF Post, HotState, Reply, Feedback, Item, Branch, Fanout

(* Changes that write no document in common commute.                       *)
LEMMA ChangesCommute ==
  ASSUME NEW d, NEW w, NEW c, Apart(w, c)
  PROVE  Apply(Apply(d, c), w) = Apply(Apply(d, w), c)
BY DEF Apart, Has, Apply

LEMMA SourcesAreFinite ==
  /\ IsFiniteSet(Sources)
  /\ \A s \in Sources : s[1] \in {"reply", "feedback"}
<1>1. Sources \subseteq ({"reply", "feedback"} \X (Replies \cup FeedbackIds))
  BY DEF Sources
<1>2. IsFiniteSet({"reply", "feedback"})
  <2>1. {"reply", "feedback"} = {"reply"} \cup {"feedback"}
    OBVIOUS
  <2>2. IsFiniteSet({"reply"}) /\ IsFiniteSet({"feedback"})
    BY FS_Singleton
  <2>. QED
    BY <2>1, <2>2, FS_Union
<1>3. IsFiniteSet(Replies \cup FeedbackIds)
  BY ThreadFacts, FS_Union
<1>4. IsFiniteSet({"reply", "feedback"} \X (Replies \cup FeedbackIds))
  BY <1>2, <1>3, FS_Product
<1>. QED
  BY <1>1, <1>4, FS_Subset DEF Sources

(* The sets that are counted are finite.                                   *)
LEMMA CountedSetsAreFinite ==
  ASSUME NEW d
  PROVE  /\ IsFiniteSet(Shown(d)) /\ IsFiniteSet(CountedReplies(d))
         /\ IsFiniteSet(Participants(d)) /\ IsFiniteSet(Supporters(d))
         /\ \A r : IsFiniteSet(Kept(d, r))
         /\ \A r, kind : IsFiniteSet(OfKind(d, r, kind))
         /\ \A a, type : IsFiniteSet(CountedFor(d, a, type))
<1>1. /\ Shown(d) \in SUBSET Replies
      /\ \A r : Kept(d, r) \in SUBSET Replies
      /\ CountedReplies(d) \in SUBSET Sources
      /\ \A a, type : CountedFor(d, a, type) \in SUBSET Sources
      /\ Participants(d) \in SUBSET Agents /\ Supporters(d) \in SUBSET Agents
      /\ \A r, kind : OfKind(d, r, kind) \in SUBSET Agents
  BY DEF Shown, RepliesIn, Kept, ChildrenIn, CountedReplies, CountedFor, Participants,
         Supporters, OfKind, FeedbackIn
<1>. QED
  BY <1>1, ThreadFacts, SourcesAreFinite, FS_Subset

(* A set that gains an element.                                            *)
LEMMA OneMore ==
  ASSUME NEW S, IsFiniteSet(S), NEW x, x \notin S
  PROVE  /\ Cardinality(S) \in Nat /\ IsFiniteSet(S \cup {x})
         /\ Cardinality(S \cup {x}) = Cardinality(S) + 1
BY FS_AddElement, FS_CardinalityType

(* Two sets that differ in x only.                                         *)
LEMMA DifferInOne ==
  ASSUME NEW S, IsFiniteSet(S), NEW T, NEW x, S \ {x} = T \ {x}
  PROVE  /\ IsFiniteSet(T) /\ Cardinality(S) \in Nat /\ Cardinality(T) \in Nat
         /\ Cardinality(T) = (Cardinality(S) + Takes01(x \in T)) - Takes01(x \in S)
<1>1. IsFiniteSet(S \ {x}) /\ Cardinality(S) \in Nat /\ Cardinality(S \ {x}) \in Nat
  BY FS_RemoveElement, FS_CardinalityType
<1>2. Cardinality(S) = Cardinality(S \ {x}) + Takes01(x \in S)
  BY <1>1, FS_RemoveElement DEF Takes01
<1>3. T = IF x \in T THEN (S \ {x}) \cup {x} ELSE S \ {x}
  OBVIOUS
<1>4. IsFiniteSet(T) /\ Cardinality(T) = Cardinality(S \ {x}) + Takes01(x \in T)
  <2>1. CASE x \in T
    <3>1. T = (S \ {x}) \cup {x}
      BY <2>1, <1>3
    <3>. QED
      BY <3>1, <2>1, <1>1, FS_AddElement DEF Takes01
  <2>2. CASE x \notin T
    <3>1. T = S \ {x}
      BY <2>2, <1>3
    <3>. QED
      BY <3>1, <2>2, <1>1 DEF Takes01
  <2>. QED
    BY <2>1, <2>2
<1>. QED
  BY <1>1, <1>2, <1>4 DEF Takes01

-----------------------------------------------------------------------------
(* WHAT A COMMIT LEAVES                                                    *)

(* The documents that w writes are as before when c, apart from w, is      *)
(* written.                                                                *)
LEMMA NotDisturbed ==
  ASSUME NEW d, NEW w, NEW c, Apart(w, c)
  PROVE  \A id : Has(w, id) =>
           /\ Has(Apply(d, c), id) <=> Has(d, id)
           /\ Has(d, id) => Apply(d, c)[id] = d[id]
BY ApplyFacts DEF Apart

(* What w keeps of d it also keeps of what c has made of d.                *)
LEMMA KeepingLasts ==
  ASSUME NEW d, NEW w, NEW c, Apart(w, c), ThreadTyped(d)
  PROVE  /\ StaysTyped(d, w) => StaysTyped(Apply(d, c), w)
         /\ KeepsShown(d, w) => KeepsShown(Apply(d, c), w)
         /\ KeepsHot(d, w) => KeepsHot(Apply(d, c), w)
         /\ \A r \in Replies : /\ KeepsChildren(d, w, r) => KeepsChildren(Apply(d, c), w, r)
                               /\ KeepsFeedback(d, w, r) => KeepsFeedback(Apply(d, c), w, r)
<1>. DEFINE e == Apply(d, c)
<1>1. \A id : Has(w, id) => /\ Has(e, id) <=> Has(d, id)
                            /\ Has(d, id) => e[id] = d[id]
  BY NotDisturbed
<1>2. Has(d, HotState)
  BY DEF ThreadTyped, StateTyped
<1>. HIDE DEF e
<1>3. ASSUME StaysTyped(d, w) PROVE StaysTyped(e, w)
  <2>1. RepliesStayTyped(e, w)
    BY <1>1, <1>3 DEF StaysTyped, RepliesStayTyped, RepliesIn, IsRoot
  <2>2. FeedbackStaysTyped(e, w)
    BY <1>1, <1>3 DEF StaysTyped, FeedbackStaysTyped
  <2>. QED
    BY <2>1, <2>2, <1>3 DEF StaysTyped
<1>4. ASSUME KeepsShown(d, w) PROVE KeepsShown(e, w)
  <2>1. ASSUME NEW r \in RepliesIn(w)
        PROVE  /\ Has(e, Reply(r)) /\ w[Reply(r)].root = e[Reply(r)].root
               /\ \/ w[Reply(r)].deleted = e[Reply(r)].deleted
                  \/ LET root == e[Reply(r)].root
                     IN  root # 0 /\ Has(w, Reply(root)) /\ e[Reply(root)].deleted
    <3>1. Has(w, Reply(r)) /\ Has(d, Reply(r)) /\ e[Reply(r)] = d[Reply(r)] /\ Has(e, Reply(r))
      BY <1>1, <1>4 DEF KeepsShown, RepliesIn
    <3>2. CASE w[Reply(r)].deleted = d[Reply(r)].deleted
      BY <3>1, <3>2, <1>4 DEF KeepsShown
    <3>3. CASE w[Reply(r)].deleted # d[Reply(r)].deleted
      <4>. DEFINE q == d[Reply(r)].root
      <4>1. q # 0 /\ Has(w, Reply(q)) /\ d[Reply(q)].deleted
        BY <3>3, <1>4 DEF KeepsShown
      <4>2. Hangs(d, r)
        BY <3>1 DEF ThreadTyped, RepliesTyped, RepliesIn
      <4>3. Has(d, Reply(q))
        BY <4>1, <4>2 DEF Hangs, IsRoot
      <4>4. e[Reply(q)] = d[Reply(q)]
        BY <4>1, <4>3, <1>1
      <4>. QED
        BY <4>1, <4>4, <3>1, <1>4 DEF KeepsShown
    <3>. QED
      BY <3>2, <3>3
  <2>. QED
    BY <2>1, <1>4 DEF KeepsShown
<1>5. ASSUME KeepsHot(d, w) PROVE KeepsHot(e, w)
  <2>1. ASSUME NEW s \in Sources, Has(w, Item(s))
        PROVE  /\ IsCounted(e, s) <=> IsCounted(d, s)
               /\ IsCounted(e, s) => e[Item(s)] = d[Item(s)]
    BY <2>1, <1>1 DEF IsCounted, Exists
  <2>2. KeepsCounted(e, w)
    BY <2>1, <1>5 DEF KeepsHot, KeepsCounted
  <2>3. Has(w, HotState) => e[HotState] = d[HotState]
    BY <1>1, <1>2
  <2>. QED
    BY <2>2, <2>3, <1>5 DEF KeepsHot
<1>6. ASSUME NEW r \in Replies, KeepsChildren(d, w, r) PROVE KeepsChildren(e, w, r)
  BY <1>1, <1>6 DEF KeepsChildren, RepliesIn
<1>7. ASSUME NEW r \in Replies, KeepsFeedback(d, w, r) PROVE KeepsFeedback(e, w, r)
  BY <1>1, <1>7 DEF KeepsFeedback
<1>. QED
  BY <1>3, <1>4, <1>5, <1>6, <1>7 DEF e

(* The documents keep their types.                                         *)
LEMMA TypesStay ==
  ASSUME NEW d, NEW w, ThreadTyped(d), StaysTyped(d, w)
  PROVE  /\ ThreadTyped(Apply(d, w))
         /\ \A r \in Replies : Has(d, Reply(r)) =>
              Apply(d, w)[Reply(r)].root = d[Reply(r)].root
<1>. DEFINE e == Apply(d, w)
<1>1. /\ \A id : Has(e, id) <=> Has(d, id) \/ Has(w, id)
      /\ \A id : Has(w, id) => e[id] = w[id]
      /\ \A id : Has(d, id) /\ ~Has(w, id) => e[id] = d[id]
  BY ApplyFacts
<1>. HIDE DEF e
<1>2. \A r \in Replies : Has(d, Reply(r)) => e[Reply(r)].root = d[Reply(r)].root
  BY <1>1 DEF StaysTyped, RepliesStayTyped, RepliesIn
<1>3. ASSUME NEW r \in RepliesIn(e) PROVE e[Reply(r)] \in ReplyRecord /\ Hangs(e, r)
  <2>. DEFINE q == e[Reply(r)].root
  <2>1. r \in Replies /\ (r \in RepliesIn(w) \/ r \in RepliesIn(d))
    BY <1>1 DEF RepliesIn
  <2>2. e[Reply(r)] \in ReplyRecord
    BY <2>1, <1>1 DEF StaysTyped, RepliesStayTyped, ThreadTyped, RepliesTyped, RepliesIn
  <2>3. q = 0 \/ (Has(d, Reply(q)) /\ IsRoot(d[Reply(q)]))
    <3>1. CASE Has(d, Reply(r))
      BY <3>1, <1>2, <2>1 DEF ThreadTyped, RepliesTyped, Hangs, RepliesIn, IsRoot
    <3>2. CASE ~Has(d, Reply(r))
      BY <3>2, <1>1, <2>1 DEF StaysTyped, RepliesStayTyped, RepliesIn
    <3>. QED
      BY <3>1, <3>2
  <2>4. q \in {0} \cup Replies
    BY <2>2 DEF ReplyRecord
  <2>5. q = 0 \/ (Has(e, Reply(q)) /\ IsRoot(e[Reply(q)]))
    BY <2>3, <2>4, <1>1, <1>2 DEF IsRoot
  <2>. QED
    BY <2>2, <2>5 DEF Hangs, IsRoot
<1>4. RepliesTyped(e)
  BY <1>3 DEF RepliesTyped
<1>5. FeedbackTyped(e)
  <2>. SUFFICES ASSUME NEW r \in Replies, NEW a \in Agents, Exists(e, Feedback(r, a))
                PROVE  Has(e, Reply(r)) /\ e[Feedback(r, a)] \in FeedbackRecord
    BY DEF FeedbackTyped
  <2>1. CASE Has(w, Feedback(r, a))
    BY <2>1, <1>1 DEF StaysTyped, FeedbackStaysTyped, Exists
  <2>2. CASE ~Has(w, Feedback(r, a))
    BY <2>2, <1>1 DEF ThreadTyped, FeedbackTyped, Exists
  <2>. QED
    BY <2>1, <2>2
<1>6. ItemsTyped(e)
  <2>. SUFFICES ASSUME NEW s \in Items(e) PROVE e[Item(s)] \in ItemRecord
    BY DEF ItemsTyped
  <2>1. \/ s \in Items(w) /\ e[Item(s)] = w[Item(s)]
        \/ s \in Items(d) /\ e[Item(s)] = d[Item(s)]
    <3>1. s \in Sources /\ Has(e, Item(s)) /\ e[Item(s)] # Gone
      BY DEF Items, Exists
    <3>2. CASE Has(w, Item(s))
      <4>1. e[Item(s)] = w[Item(s)]
        BY <3>2, <1>1
      <4>. QED
        BY <3>1, <3>2, <4>1 DEF Items, Exists
    <3>3. CASE ~Has(w, Item(s))
      <4>1. Has(d, Item(s)) /\ e[Item(s)] = d[Item(s)]
        BY <3>1, <3>3, <1>1
      <4>. QED
        BY <3>1, <4>1 DEF Items, Exists
    <3>. QED
      BY <3>2, <3>3
  <2>. QED
    BY <2>1 DEF StaysTyped, ThreadTyped, ItemsTyped
<1>7. StateTyped(e) /\ Has(e, Post)
  BY <1>1 DEF StaysTyped, ThreadTyped, StateTyped
<1>. QED
  BY <1>2, <1>4, <1>5, <1>6, <1>7 DEF ThreadTyped, e

(* A count stays right when nothing it depends on is written.              *)
LEMMA ShownStay ==
  ASSUME NEW d, NEW w, ThreadTyped(d), StaysTyped(d, w), KeepsShown(d, w)
  PROVE  Shown(Apply(d, w)) = Shown(d) /\ (PostCounts(d) => PostCounts(Apply(d, w)))
<1>. DEFINE e == Apply(d, w)
<1>1. /\ \A id : Has(e, id) <=> Has(d, id) \/ Has(w, id)
      /\ \A id : Has(w, id) => e[id] = w[id]
      /\ \A id : Has(d, id) /\ ~Has(w, id) => e[id] = d[id]
  BY ApplyFacts
<1>2. ThreadTyped(e) /\ \A r \in Replies : Has(d, Reply(r)) => e[Reply(r)].root = d[Reply(r)].root
  BY TypesStay
<1>. HIDE DEF e
<1>3. RepliesIn(e) = RepliesIn(d)
  BY <1>1 DEF RepliesIn, KeepsShown
<1>4. ASSUME NEW r \in RepliesIn(d)
      PROVE  /\ e[Reply(r)].root = d[Reply(r)].root
             /\ \/ e[Reply(r)].deleted = d[Reply(r)].deleted
                \/ LET root == d[Reply(r)].root
                   IN  root # 0 /\ d[Reply(root)].deleted
  BY <1>1, <1>2 DEF RepliesIn, KeepsShown
<1>5. ASSUME NEW r \in RepliesIn(d), IsRoot(d[Reply(r)])
      PROVE  e[Reply(r)].deleted = d[Reply(r)].deleted
  BY <1>4, <1>5 DEF IsRoot
<1>6. ASSUME NEW r \in RepliesIn(d)
      PROVE  BranchVisible(e, r) <=> BranchVisible(d, r)
  <2>. DEFINE q == d[Reply(r)].root
  <2>1. e[Reply(r)].root = q /\ q \in {0} \cup Replies /\ Hangs(d, r)
    BY <1>4 DEF ThreadTyped, RepliesTyped, ReplyRecord
  <2>2. CASE IsRoot(d[Reply(r)])
    BY <2>2, <2>1, <1>5 DEF BranchVisible, IsRoot
  <2>3. CASE ~IsRoot(d[Reply(r)])
    <3>1. q \in RepliesIn(d) /\ IsRoot(d[Reply(q)])
      BY <2>1, <2>3 DEF Hangs, IsRoot, RepliesIn
    <3>2. e[Reply(q)].deleted = d[Reply(q)].deleted
      BY <3>1, <1>5
    <3>3. e[Reply(r)].deleted = d[Reply(r)].deleted \/ d[Reply(q)].deleted
      BY <1>4
    <3>. QED
      BY <2>1, <2>3, <3>2, <3>3 DEF BranchVisible, IsRoot
  <2>. QED
    BY <2>2, <2>3
<1>7. Shown(e) = Shown(d)
  BY <1>3, <1>6 DEF Shown
<1>8. e[Post] = d[Post]
  BY <1>1 DEF KeepsShown, ThreadTyped
<1>. QED
  BY <1>7, <1>8 DEF PostCounts, e

LEMMA ChildrenStay ==
  ASSUME NEW d, NEW w, ThreadTyped(d), StaysTyped(d, w), NEW r \in Replies,
         KeepsChildren(d, w, r)
  PROVE  RootCounts(d, r) => RootCounts(Apply(d, w), r)
<1>. DEFINE e == Apply(d, w)
<1>1. /\ \A id : Has(e, id) <=> Has(d, id) \/ Has(w, id)
      /\ \A id : Has(w, id) => e[id] = w[id]
      /\ \A id : Has(d, id) /\ ~Has(w, id) => e[id] = d[id]
  BY ApplyFacts
<1>2. \A c \in Replies : Has(d, Reply(c)) => e[Reply(c)].root = d[Reply(c)].root
  BY TypesStay
<1>. HIDE DEF e
<1>3. ASSUME NEW c \in Replies
      PROVE  /\ Has(e, Reply(c)) /\ e[Reply(c)].root = r <=>
                  Has(d, Reply(c)) /\ d[Reply(c)].root = r
             /\ Has(d, Reply(c)) /\ d[Reply(c)].root = r =>
                  e[Reply(c)].deleted = d[Reply(c)].deleted
  BY <1>1, <1>2 DEF KeepsChildren, RepliesIn
<1>4. Kept(e, r) = Kept(d, r)
  BY <1>3 DEF Kept, ChildrenIn, RepliesIn
<1>5. Has(e, Reply(r)) => Has(d, Reply(r)) /\ e[Reply(r)].children = d[Reply(r)].children
  BY <1>1 DEF KeepsChildren
<1>. QED
  BY <1>4, <1>5 DEF RootCounts, e

LEMMA FeedbackStays ==
  ASSUME NEW d, NEW w, NEW r \in Replies, KeepsFeedback(d, w, r)
  PROVE  ReplyCounts(d, r) => ReplyCounts(Apply(d, w), r)
<1>. DEFINE e == Apply(d, w)
<1>1. /\ \A id : Has(e, id) <=> Has(d, id) \/ Has(w, id)
      /\ \A id : Has(w, id) => e[id] = w[id]
      /\ \A id : Has(d, id) /\ ~Has(w, id) => e[id] = d[id]
  BY ApplyFacts
<1>. HIDE DEF e
<1>2. \A a \in Agents : /\ Exists(e, Feedback(r, a)) <=> Exists(d, Feedback(r, a))
                        /\ Exists(d, Feedback(r, a)) => e[Feedback(r, a)] = d[Feedback(r, a)]
  BY <1>1 DEF KeepsFeedback, Exists
<1>3. \A kind : OfKind(e, r, kind) = OfKind(d, r, kind)
  BY <1>2 DEF OfKind, FeedbackIn
<1>4. Has(e, Reply(r)) => /\ Has(d, Reply(r))
                          /\ e[Reply(r)].positive = d[Reply(r)].positive
                          /\ e[Reply(r)].negative = d[Reply(r)].negative
  BY <1>1 DEF KeepsFeedback
<1>. QED
  BY <1>3, <1>4 DEF ReplyCounts, e

LEMMA CountedStays ==
  ASSUME NEW d, NEW w, KeepsCounted(d, w)
  PROVE  /\ \A a, type : CountedFor(Apply(d, w), a, type) = CountedFor(d, a, type)
         /\ Participants(Apply(d, w)) = Participants(d)
         /\ Supporters(Apply(d, w)) = Supporters(d)
         /\ CountedReplies(Apply(d, w)) = CountedReplies(d)
<1>. DEFINE e == Apply(d, w)
<1>1. /\ \A id : Has(e, id) <=> Has(d, id) \/ Has(w, id)
      /\ \A id : Has(w, id) => e[id] = w[id]
      /\ \A id : Has(d, id) /\ ~Has(w, id) => e[id] = d[id]
  BY ApplyFacts
<1>. HIDE DEF e
<1>2. ASSUME NEW s \in Sources
      PROVE  /\ IsCounted(e, s) <=> IsCounted(d, s)
             /\ IsCounted(d, s) => e[Item(s)].owner = d[Item(s)].owner
  <2>1. CASE Has(w, Item(s))
    BY <2>1, <1>1 DEF KeepsCounted, IsCounted, Exists
  <2>2. CASE ~Has(w, Item(s))
    BY <2>2, <1>1 DEF IsCounted, Exists
  <2>. QED
    BY <2>1, <2>2
<1>3. \A a, type : CountedFor(e, a, type) = CountedFor(d, a, type)
  BY <1>2 DEF CountedFor
<1>4. CountedReplies(e) = CountedReplies(d)
  BY <1>2 DEF CountedReplies
<1>. QED
  BY <1>3, <1>4 DEF Participants, Supporters, e

LEMMA HotStays ==
  ASSUME NEW d, NEW w, ThreadTyped(d), KeepsHot(d, w)
  PROVE  StateCounts(d) => StateCounts(Apply(d, w))
<1>. DEFINE e == Apply(d, w)
<1>1. /\ Participants(e) = Participants(d) /\ Supporters(e) = Supporters(d)
      /\ CountedReplies(e) = CountedReplies(d)
  BY CountedStays DEF KeepsHot
<1>2. KeepsState(e[HotState], d[HotState])
  <2>1. CASE Has(w, HotState)
    BY <2>1, ApplyFacts DEF KeepsHot
  <2>2. CASE ~Has(w, HotState)
    BY <2>2, ApplyFacts DEF ThreadTyped, StateTyped, KeepsState
  <2>. QED
    BY <2>1, <2>2
<1>. HIDE DEF e
<1>. QED
  BY <1>1, <1>2 DEF StateCounts, KeepsState, e

(* What is written keeps the documents right.                              *)
LEMMA CommitKeepsRight ==
  ASSUME NEW d, NEW c, ThreadRight(d), StaysRight(d, c)
  PROVE  ThreadRight(Apply(d, c))
<1>1. ThreadTyped(d) /\ StaysTyped(d, c)
  BY DEF ThreadRight, StaysRight
<1>2. ThreadTyped(Apply(d, c))
  BY <1>1, TypesStay
<1>3. PostCounts(Apply(d, c))
  BY <1>1, ShownStay DEF ThreadRight, StaysRight
<1>4. StateCounts(Apply(d, c))
  BY <1>1, HotStays DEF ThreadRight, StaysRight
<1>5. ASSUME NEW r \in Replies
      PROVE  RootCounts(Apply(d, c), r) /\ ReplyCounts(Apply(d, c), r)
  BY <1>1, ChildrenStay, FeedbackStays DEF ThreadRight, StaysRight
<1>. QED
  BY <1>2, <1>3, <1>4, <1>5 DEF ThreadRight

(* A transaction that writes nothing of it stays as right as it was.       *)
LEMMA CommitLeavesRight ==
  ASSUME NEW d, NEW w, NEW c, ThreadRight(d), StaysRight(d, c), StaysRight(d, w),
         Apart(w, c)
  PROVE  StaysRight(Apply(d, c), w)
<1>. DEFINE e == Apply(d, c)
            f == Apply(d, w)
<1>1. Apply(e, w) = Apply(f, c)
  BY ChangesCommute
<1>2. Apart(c, w)
  BY DEF Apart
<1>3. ThreadTyped(d) /\ StaysTyped(d, c) /\ StaysTyped(d, w)
  BY DEF ThreadRight, StaysRight
<1>4. ThreadTyped(f) /\ StaysTyped(f, c) /\ StaysTyped(e, w)
  BY <1>2, <1>3, TypesStay, KeepingLasts
<1>5. KeepsShown(e, w) \/ (Has(w, Post) /\ PostCounts(Apply(e, w)))
  <2>1. CASE KeepsShown(d, w)
    BY <2>1, <1>3, KeepingLasts
  <2>2. CASE ~KeepsShown(d, w)
    <3>1. Has(w, Post) /\ PostCounts(f)
      BY <2>2 DEF StaysRight
    <3>2. KeepsShown(d, c)
      BY <3>1 DEF StaysRight, Apart
    <3>3. KeepsShown(f, c)
      BY <3>2, <1>2, <1>3, KeepingLasts
    <3>. HIDE DEF e, f
    <3>. QED
      BY <3>1, <3>3, <1>1, <1>4, ShownStay
  <2>. QED
    BY <2>1, <2>2
<1>6. KeepsHot(e, w) \/ (Has(w, HotState) /\ StateCounts(Apply(e, w)))
  <2>1. CASE KeepsHot(d, w)
    BY <2>1, <1>3, KeepingLasts
  <2>2. CASE ~KeepsHot(d, w)
    <3>1. Has(w, HotState) /\ StateCounts(f)
      BY <2>2 DEF StaysRight
    <3>2. KeepsHot(d, c)
      BY <3>1 DEF StaysRight, Apart
    <3>3. KeepsHot(f, c)
      BY <3>2, <1>2, <1>3, KeepingLasts
    <3>. HIDE DEF e, f
    <3>. QED
      BY <3>1, <3>3, <1>1, <1>4, HotStays
  <2>. QED
    BY <2>1, <2>2
<1>7. ASSUME NEW r \in Replies
      PROVE  KeepsChildren(e, w, r) \/ (Has(w, Reply(r)) /\ RootCounts(Apply(e, w), r))
  <2>1. CASE KeepsChildren(d, w, r)
    BY <2>1, <1>3, KeepingLasts
  <2>2. CASE ~KeepsChildren(d, w, r)
    <3>1. Has(w, Reply(r)) /\ RootCounts(f, r)
      BY <2>2 DEF StaysRight
    <3>2. KeepsChildren(d, c, r)
      BY <3>1 DEF StaysRight, Apart
    <3>3. KeepsChildren(f, c, r)
      BY <3>2, <1>2, <1>3, KeepingLasts
    <3>. HIDE DEF e, f
    <3>. QED
      BY <3>1, <3>3, <1>1, <1>4, ChildrenStay
  <2>. QED
    BY <2>1, <2>2
<1>8. ASSUME NEW r \in Replies
      PROVE  KeepsFeedback(e, w, r) \/ (Has(w, Reply(r)) /\ ReplyCounts(Apply(e, w), r))
  <2>1. CASE KeepsFeedback(d, w, r)
    BY <2>1, <1>3, KeepingLasts
  <2>2. CASE ~KeepsFeedback(d, w, r)
    <3>1. Has(w, Reply(r)) /\ ReplyCounts(f, r)
      BY <2>2 DEF StaysRight
    <3>2. KeepsFeedback(d, c, r)
      BY <3>1 DEF StaysRight, Apart
    <3>3. KeepsFeedback(f, c, r)
      BY <3>2, <1>2, <1>3, KeepingLasts
    <3>. HIDE DEF e, f
    <3>. QED
      BY <3>1, <3>3, <1>1, FeedbackStays
  <2>. QED
    BY <2>1, <2>2
<1>. HIDE DEF e, f
<1>. QED
  BY <1>4, <1>5, <1>6, <1>7, <1>8 DEF StaysRight, e

-----------------------------------------------------------------------------
(* WORK THAT IS LEFT                                                       *)

LEMMA DirtyDocsAreWork ==
  ASSUME NEW d
  PROVE  /\ DirtyWork(d) <=> DirtyDocs(d) # {}
         /\ \A id \in DirtyDocs(d) : Has(d, id)
<1>1. DirtyWork(d) <=> DirtyDocs(d) # {}
  BY DEF DirtyWork, DirtyDocs
<1>2. ASSUME NEW id \in DirtyDocs(d) PROVE Has(d, id)
  <2>1. CASE \E s \in DirtyItems(d) : id = Item(s)
    BY <2>1 DEF DirtyItems, Items, Exists
  <2>2. CASE \E r \in DirtyBranches(d) : id = Branch(r)
    BY <2>2 DEF DirtyBranches
  <2>3. CASE \E r \in DirtyFanouts(d) : id = Fanout(r)
    BY <2>3 DEF DirtyFanouts
  <2>. QED
    BY <2>1, <2>2, <2>3 DEF DirtyDocs
<1>. QED
  BY <1>1, <1>2

(* Whether a document is dirty depends on it alone.                        *)
LEMMA DirtyAlone ==
  ASSUME NEW d, NEW e, NEW id, Has(d, id), Has(e, id), e[id] = d[id], id \in DirtyDocs(d)
  PROVE  id \in DirtyDocs(e)
<1>1. CASE \E s \in DirtyItems(d) : id = Item(s)
  <2>1. PICK s \in DirtyItems(d) : id = Item(s)
    BY <1>1
  <2>2. s \in DirtyItems(e)
    BY <2>1 DEF DirtyItems, Items, Exists
  <2>. QED
    BY <2>1, <2>2 DEF DirtyDocs
<1>2. CASE \E r \in DirtyBranches(d) : id = Branch(r)
  <2>1. PICK r \in DirtyBranches(d) : id = Branch(r)
    BY <1>2
  <2>2. r \in DirtyBranches(e)
    BY <2>1 DEF DirtyBranches
  <2>. QED
    BY <2>1, <2>2 DEF DirtyDocs
<1>3. CASE \E r \in DirtyFanouts(d) : id = Fanout(r)
  <2>1. PICK r \in DirtyFanouts(d) : id = Fanout(r)
    BY <1>3
  <2>2. r \in DirtyFanouts(e)
    BY <2>1 DEF DirtyFanouts
  <2>. QED
    BY <2>1, <2>2 DEF DirtyDocs
<1>. QED
  BY <1>1, <1>2, <1>3 DEF DirtyDocs

(* What is dirty after a change is dirty in it, or was so before.          *)
LEMMA DirtyAfter ==
  ASSUME NEW d, NEW w, DirtyWork(Apply(d, w))
  PROVE  DirtyWork(d) \/ DirtyWork(w)
<1>1. PICK id \in DirtyDocs(Apply(d, w)) : Has(Apply(d, w), id)
  BY DirtyDocsAreWork
<1>2. CASE Has(w, id)
  BY <1>1, <1>2, ApplyFacts, DirtyAlone, DirtyDocsAreWork
<1>3. CASE ~Has(w, id)
  BY <1>1, <1>3, ApplyFacts, DirtyAlone, DirtyDocsAreWork
<1>. QED
  BY <1>2, <1>3

(* The signals of a user's transaction, and the work of the projection's,  *)
(* stay what they are when others commit.                                  *)
LEMMA SignalsLast ==
  ASSUME NEW d, NEW w, NEW c, Apart(w, c), ThreadTyped(d)
  PROVE  /\ SignalsWork(d, w) => SignalsWork(Apply(d, c), w)
         /\ DoesWork(d, w) => DoesWork(Apply(d, c), w)
<1>1. Has(w, HotState) => Apply(d, c)[HotState] = d[HotState]
  BY NotDisturbed DEF ThreadTyped, StateTyped
<1>2. ASSUME DoesWork(d, w) PROVE DoesWork(Apply(d, c), w)
  <2>1. PICK id \in DirtyDocs(d) : Has(w, id)
    BY <1>2 DEF DoesWork
  <2>2. id \in DirtyDocs(Apply(d, c))
    BY <2>1, NotDisturbed, DirtyAlone, DirtyDocsAreWork
  <2>. QED
    BY <2>1, <2>2, <1>1, <1>2 DEF DoesWork
<1>. QED
  BY <1>1, <1>2 DEF SignalsWork

(* What a commit of a user, or of the projection, does to the signal.      *)
LEMMA UserSignal ==
  ASSUME NEW d, NEW w, ThreadTyped(d), SignalsWork(d, w), StaysTyped(d, w)
  PROVE  LET e == Apply(d, w)
         IN  /\ e[HotState].signal >= d[HotState].signal
             /\ DirtyWork(e) => \/ e[HotState].dirty /\ e[HotState].signal > d[HotState].signal
                                \/ DirtyWork(d) /\ e[HotState] = d[HotState]
<1>. DEFINE e == Apply(d, w)
<1>1. d[HotState].signal \in Nat
  BY DEF ThreadTyped, StateTyped, StateRecord
<1>2. CASE Has(w, HotState)
  <2>1. e[HotState] = w[HotState]
    BY <1>2, ApplyFacts
  <2>. QED
    BY <1>1, <1>2, <2>1 DEF SignalsWork, StaysTyped, StateRecord
<1>3. CASE ~Has(w, HotState)
  <2>1. e[HotState] = d[HotState]
    BY <1>3, ApplyFacts DEF ThreadTyped, StateTyped
  <2>2. DirtyWork(e) => DirtyWork(d)
    BY <1>3, DirtyAfter DEF SignalsWork
  <2>. QED
    BY <1>1, <2>1, <2>2
<1>. QED
  BY <1>2, <1>3

LEMMA ProjectorSignal ==
  ASSUME NEW d, NEW w, ThreadTyped(d), DoesWork(d, w)
  PROVE  /\ DirtyWork(d)
         /\ Apply(d, w)[HotState].signal = d[HotState].signal
         /\ Apply(d, w)[HotState].dirty = d[HotState].dirty
<1>1. DirtyWork(d)
  BY DirtyDocsAreWork DEF DoesWork
<1>2. CASE Has(w, HotState)
  BY <1>1, <1>2, ApplyFacts DEF DoesWork
<1>3. CASE ~Has(w, HotState)
  BY <1>1, <1>3, ApplyFacts DEF ThreadTyped, StateTyped
<1>. QED
  BY <1>2, <1>3

(* A change of the state only.                                             *)
LEMMA StateAlone ==
  ASSUME NEW d, NEW new, ThreadTyped(d), new \in StateRecord, KeepsState(new, d[HotState])
  PROVE  LET w == Put(HotState, new)
         IN  /\ StaysRight(d, w) /\ ~DirtyWork(w) /\ Apply(d, w)[HotState] = new
             /\ \A id : id # HotState => /\ Has(Apply(d, w), id) <=> Has(d, id)
                                         /\ Has(d, id) => Apply(d, w)[id] = d[id]
<1>. DEFINE w == Put(HotState, new)
<1>1. /\ \A id : Has(w, id) <=> id = HotState
      /\ w[HotState] = new
  BY OneDocument
<1>2. /\ \A r, a : ~Has(w, Reply(r)) /\ ~Has(w, Feedback(r, a)) /\ ~Has(w, Item(r))
      /\ ~Has(w, Post)
      /\ \A r : ~Has(w, Branch(r)) /\ ~Has(w, Fanout(r))
  BY <1>1, ThreadIds
<1>3. /\ Apply(d, w)[HotState] = new
      /\ \A id : id # HotState => /\ Has(Apply(d, w), id) <=> Has(d, id)
                                  /\ Has(d, id) => Apply(d, w)[id] = d[id]
  BY <1>1, ApplyFacts
<1>. HIDE DEF w
<1>4. RepliesIn(w) = {} /\ Items(w) = {}
  BY <1>2 DEF RepliesIn, Items, Exists
<1>5. StaysTyped(d, w)
  BY <1>1, <1>2, <1>4 DEF StaysTyped, RepliesStayTyped, FeedbackStaysTyped, ItemsTyped, Exists
<1>6. KeepsShown(d, w) /\ KeepsHot(d, w)
  BY <1>1, <1>2, <1>4 DEF KeepsShown, KeepsHot, KeepsCounted
<1>7. \A r \in Replies : KeepsChildren(d, w, r) /\ KeepsFeedback(d, w, r)
  BY <1>2, <1>4 DEF KeepsChildren, KeepsFeedback
<1>8. ~DirtyWork(w)
  BY <1>2, <1>4 DEF DirtyWork, DirtyItems, DirtyBranches, DirtyFanouts
<1>. QED
  BY <1>3, <1>5, <1>6, <1>7, <1>8 DEF StaysRight, w

-----------------------------------------------------------------------------
(* WHAT USERS WRITE                                                        *)

(* The documents on which the counts of the thread depend.                 *)
ThreadId(id) ==
  \/ id = Post
  \/ \E r \in Replies : id = Reply(r)
  \/ \E r \in Replies, a \in Agents : id = Feedback(r, a)

SameThread(w, v) ==
  \A id : ThreadId(id) => /\ Has(v, id) <=> Has(w, id)
                          /\ Has(w, id) => v[id] = w[id]

(* Writes w keep what is counted and signal what they change.              *)
KeepsAndSignals(w) ==
  /\ ItemsTyped(w) /\ KeepsHot(db, w)
  /\ Has(w, HotState) => /\ w[HotState] \in StateRecord /\ w[HotState].dirty
                         /\ w[HotState].signal > db[HotState].signal

LEMMA SameThreadTransitive ==
  ASSUME NEW w, NEW v, NEW u, SameThread(w, v), SameThread(v, u)
  PROVE  SameThread(w, u)
BY DEF SameThread

LEMMA ThreadIdsApart ==
  /\ ThreadId(Post) /\ ~ThreadId(HotState)
  /\ \A r \in Replies : ThreadId(Reply(r)) /\ \A a \in Agents : ThreadId(Feedback(r, a))
  /\ \A s : ~ThreadId(Item(s)) /\ ~ThreadId(Branch(s)) /\ ~ThreadId(Fanout(s))
BY ThreadIds DEF ThreadId

(* What else is written does not matter to the thread.                     *)
LEMMA OutsideThread ==
  ASSUME NEW w, NEW c, \A id : Has(c, id) => ~ThreadId(id)
  PROVE  SameThread(w, Apply(w, c))
BY ApplyFacts DEF SameThread

LEMMA SignalledSignals ==
  ASSUME ThreadTyped(db), NEW w, KeepsAndSignals(w)
  PROVE  /\ KeepsAndSignals(Signalled(w)) /\ Has(Signalled(w), HotState)
         /\ SameThread(w, Signalled(w))
<1>. DEFINE old == Seen(w)[HotState]
            new == [old EXCEPT !.signal = @ + 1, !.dirty = TRUE, !.ready = TRUE, !.live = FALSE]
            c == Put(HotState, new)
            v == Signalled(w)
<1>1. v = Apply(w, c)
  BY DEF Signalled
<1>2. /\ \A id : Has(c, id) <=> id = HotState
      /\ c[HotState] = new
  BY OneDocument
<1>3. /\ old \in StateRecord /\ db[HotState] \in StateRecord
      /\ KeepsState(old, db[HotState]) /\ old.signal >= db[HotState].signal
  <2>1. CASE Has(w, HotState)
    <3>1. old = w[HotState]
      BY <2>1, ApplyFacts DEF Seen
    <3>. QED
      BY <3>1, <2>1 DEF KeepsAndSignals, KeepsHot, ThreadTyped, StateTyped, StateRecord
  <2>2. CASE ~Has(w, HotState)
    <3>1. old = db[HotState]
      BY <2>2, ApplyFacts DEF Seen, ThreadTyped, StateTyped
    <3>. QED
      BY <3>1 DEF KeepsState, ThreadTyped, StateTyped, StateRecord
  <2>. QED
    BY <2>1, <2>2
<1>4. /\ new \in StateRecord /\ new.dirty
      /\ new.signal > db[HotState].signal /\ KeepsState(new, db[HotState])
  <2>1. old \in StateRecord
    BY <1>3
  <2>. HIDE DEF old
  <2>2. /\ new \in StateRecord /\ new.dirty = TRUE /\ new.signal = old.signal + 1
        /\ KeepsState(new, old)
    <3>1. old.signal \in Nat
      BY <2>1 DEF StateRecord
    <3>2. old.signal + 1 \in Nat
      BY <3>1
    <3>3. new.signal = old.signal + 1 /\ new.dirty = TRUE
      BY <2>1 DEF StateRecord
    <3>4. new \in StateRecord
      BY <2>1, <3>2 DEF StateRecord
    <3>5. KeepsState(new, old)
      BY <2>1 DEF StateRecord, KeepsState
    <3>. QED
      BY <3>3, <3>4, <3>5
  <2>3. old.signal \in Nat /\ db[HotState].signal \in Nat
    BY <1>3 DEF StateRecord
  <2>. HIDE DEF new
  <2>. QED
    BY <1>3, <2>2, <2>3 DEF KeepsState
<1>5. /\ Has(v, HotState) /\ v[HotState] = new
      /\ \A id : id # HotState => /\ Has(v, id) <=> Has(w, id)
                                  /\ Has(w, id) => v[id] = w[id]
  BY <1>1, <1>2, ApplyFacts
<1>. HIDE DEF new, v
<1>6. SameThread(w, v)
  BY <1>5, ThreadIdsApart DEF SameThread
<1>7. \A s : /\ Has(v, Item(s)) <=> Has(w, Item(s))
             /\ Has(w, Item(s)) => v[Item(s)] = w[Item(s)]
  BY <1>5, ThreadIds
<1>8. ItemsTyped(v) /\ KeepsCounted(db, v)
  BY <1>7 DEF KeepsAndSignals, KeepsHot, ItemsTyped, Items, KeepsCounted, IsCounted, Exists
<1>. QED
  BY <1>4, <1>5, <1>6, <1>8 DEF KeepsAndSignals, KeepsHot, v

(* An item that is written keeps what is counted.                          *)
LEMMA ItemIsKept ==
  ASSUME NEW w, KeepsAndSignals(w), NEW s \in Sources, NEW new,
         new # Gone => new \in ItemRecord,
         new # Gone /\ new.counted <=> IsCounted(db, s),
         IsCounted(db, s) => new.owner = db[Item(s)].owner
  PROVE  /\ KeepsAndSignals(Apply(w, Put(Item(s), new)))
         /\ SameThread(w, Apply(w, Put(Item(s), new)))
<1>. DEFINE c == Put(Item(s), new)
            v == Apply(w, c)
<1>1. /\ \A id : Has(c, id) <=> id = Item(s)
      /\ c[Item(s)] = new
  BY OneDocument
<1>2. /\ Has(v, Item(s)) /\ v[Item(s)] = new
      /\ \A id : id # Item(s) => /\ Has(v, id) <=> Has(w, id)
                                 /\ Has(w, id) => v[id] = w[id]
  BY <1>1, ApplyFacts
<1>3. SameThread(w, v)
  BY <1>1, ThreadIdsApart, OutsideThread
<1>. HIDE DEF v
<1>4. \A t : t # s => /\ Has(v, Item(t)) <=> Has(w, Item(t))
                      /\ Has(w, Item(t)) => v[Item(t)] = w[Item(t)]
  BY <1>2, ThreadIds
<1>5. ItemsTyped(v)
  <2>. SUFFICES ASSUME NEW t \in Items(v) PROVE v[Item(t)] \in ItemRecord
    BY DEF ItemsTyped
  <2>1. CASE t = s
    BY <2>1, <1>2 DEF Items, Exists
  <2>2. CASE t # s
    BY <2>2, <1>4 DEF Items, Exists, KeepsAndSignals, ItemsTyped
  <2>. QED
    BY <2>1, <2>2
<1>6. KeepsCounted(db, v)
  <2>. SUFFICES ASSUME NEW t \in Sources, Has(v, Item(t))
                PROVE  /\ IsCounted(v, t) <=> IsCounted(db, t)
                       /\ IsCounted(db, t) => v[Item(t)].owner = db[Item(t)].owner
    BY DEF KeepsCounted
  <2>1. CASE t = s
    BY <2>1, <1>2 DEF IsCounted, Exists
  <2>2. CASE t # s
    BY <2>2, <1>4 DEF KeepsAndSignals, KeepsHot, KeepsCounted, IsCounted, Exists
  <2>. QED
    BY <2>1, <2>2
<1>7. /\ Has(v, HotState) <=> Has(w, HotState)
      /\ Has(w, HotState) => v[HotState] = w[HotState]
  BY <1>2, ThreadIds
<1>. QED
  BY <1>3, <1>5, <1>6, <1>7 DEF KeepsAndSignals, KeepsHot, v

LEMMA WithItemSignals ==
  ASSUME ThreadTyped(db), NEW w, KeepsAndSignals(w), DirtyWork(w) => Has(w, HotState),
         NEW source \in Sources, ~Has(w, Item(source)), NEW owner \in Agents,
         NEW active \in BOOLEAN, NEW exists \in BOOLEAN
  PROVE  LET v == WithItem(w, source, owner, active, exists)
         IN  /\ KeepsAndSignals(v) /\ SameThread(w, v)
             /\ DirtyWork(v) => Has(v, HotState)
<1>. DEFINE id  == Item(source)
            old == Seen(w)[id]
            v == WithItem(w, source, owner, active, exists)
<1>0. SameThread(w, w)
  BY DEF SameThread
<1>1. /\ Exists(Seen(w), id) <=> Exists(db, id)
      /\ Exists(db, id) => old = db[id] /\ old \in ItemRecord
  BY ApplyFacts DEF Seen, Exists, ThreadTyped, ItemsTyped, Items
<1>2. CASE ~Exists(db, id)
  <2>1. CASE active
    <3>1. v = Signalled(Apply(w, Put(id, NewItem(owner))))
      BY <1>1, <1>2, <2>1 DEF WithItem
    <3>2. NewItem(owner) \in ItemRecord /\ ~NewItem(owner).counted
      BY DEF NewItem, ItemRecord
    <3>3. ~IsCounted(db, source)
      BY <1>2 DEF IsCounted
    <3>4. /\ KeepsAndSignals(Apply(w, Put(id, NewItem(owner))))
          /\ SameThread(w, Apply(w, Put(id, NewItem(owner))))
      BY <3>2, <3>3, ItemIsKept
    <3>. HIDE DEF id, v
    <3>. QED
      BY <3>1, <3>4, SignalledSignals, SameThreadTransitive DEF v
  <2>2. CASE ~active
    <3>1. v = w
      BY <1>1, <1>2, <2>2 DEF WithItem
    <3>. QED
      BY <3>1, <1>0
  <2>. QED
    BY <2>1, <2>2
<1>3. CASE Exists(db, id)
  <2>1. CASE /\ old.active = active /\ old.source = exists
             /\ ~(active /\ source[1] = "feedback")
    <3>1. v = w
      BY <1>1, <1>3, <2>1 DEF WithItem
    <3>. QED
      BY <3>1, <1>0
  <2>2. CASE /\ ~(/\ old.active = active /\ old.source = exists
                  /\ ~(active /\ source[1] = "feedback"))
             /\ ~old.dirty /\ ~old.counted /\ ~active /\ ~exists
    <3>1. v = Apply(w, Put(id, Gone))
      BY <1>1, <1>3, <2>2 DEF WithItem
    <3>2. ~IsCounted(db, source)
      BY <1>1, <1>3, <2>2 DEF IsCounted
    <3>3. KeepsAndSignals(v) /\ SameThread(w, v)
      BY <3>1, <3>2, ItemIsKept
    <3>4. ~DirtyWork(Put(id, Gone))
      <4>1. /\ \A x : Has(Put(id, Gone), x) <=> x = id
            /\ Put(id, Gone)[id] = Gone
        BY OneDocument
      <4>2. Items(Put(id, Gone)) = {}
        BY <4>1, ThreadIds DEF Items, Exists
      <4>. QED
        BY <4>1, <4>2, ThreadIds DEF DirtyWork, DirtyItems, DirtyBranches, DirtyFanouts
    <3>5. DirtyWork(v) => Has(v, HotState)
      BY <3>1, <3>4, DirtyAfter, ApplyFacts
    <3>. QED
      BY <3>3, <3>5
  <2>3. CASE /\ ~(/\ old.active = active /\ old.source = exists
                  /\ ~(active /\ source[1] = "feedback"))
             /\ ~(~old.dirty /\ ~old.counted /\ ~active /\ ~exists)
    <3>. DEFINE new == [old EXCEPT !.active = active, !.source = exists, !.dirty = TRUE]
    <3>1. v = Signalled(Apply(w, Put(id, new)))
      BY <1>1, <1>3, <2>3 DEF WithItem
    <3>2. old \in ItemRecord /\ old = db[id]
      BY <1>1, <1>3
    <3>3. new \in ItemRecord /\ new.counted = old.counted /\ new.owner = old.owner
      BY <3>2 DEF ItemRecord
    <3>4. new # Gone
      BY <3>3 DEF ItemRecord, Gone
    <3>5. new.counted <=> IsCounted(db, source)
      BY <3>2, <3>3, <1>3 DEF IsCounted
    <3>6. new.owner = db[Item(source)].owner
      BY <3>2, <3>3
    <3>. HIDE DEF new, v, old
    <3>7. KeepsAndSignals(Apply(w, Put(id, new))) /\ SameThread(w, Apply(w, Put(id, new)))
      BY <3>3, <3>4, <3>5, <3>6, ItemIsKept
    <3>. HIDE DEF id
    <3>. QED
      BY <3>1, <3>7, SignalledSignals, SameThreadTransitive DEF v
  <2>. QED
    BY <2>1, <2>2, <2>3
<1>. QED
  BY <1>2, <1>3

LEMMA FanoutsKeep ==
  ASSUME NEW w, KeepsAndSignals(w), NEW r
  PROVE  KeepsAndSignals(WithFanouts(w, r)) /\ SameThread(w, WithFanouts(w, r))
<1>1. PICK c : /\ WithFanouts(w, r) = Apply(w, c)
               /\ \A id : Has(c, id) => id = Fanout(r) \/ id = Branch(r)
  BY DEF WithFanouts, Has
<1>. DEFINE v == Apply(w, c)
<1>2. SameThread(w, v)
  BY <1>1, ThreadIdsApart, OutsideThread
<1>3. \A id : id # Fanout(r) /\ id # Branch(r) =>
        /\ Has(v, id) <=> Has(w, id)
        /\ Has(w, id) => v[id] = w[id]
  BY <1>1, ApplyFacts
<1>. HIDE DEF v
<1>4. /\ \A s : /\ Has(v, Item(s)) <=> Has(w, Item(s))
                /\ Has(w, Item(s)) => v[Item(s)] = w[Item(s)]
      /\ Has(v, HotState) <=> Has(w, HotState)
      /\ Has(w, HotState) => v[HotState] = w[HotState]
  BY <1>3, ThreadIds
<1>5. KeepsAndSignals(v)
  BY <1>4 DEF KeepsAndSignals, KeepsHot, ItemsTyped, Items, KeepsCounted, IsCounted, Exists
<1>. QED
  BY <1>1, <1>2, <1>5 DEF v

(* What writes b to the thread keep or leave right.                        *)
ThreadStaysRight(d, b) ==
  /\ RepliesStayTyped(d, b) /\ FeedbackStaysTyped(d, b)
  /\ KeepsShown(d, b) \/ (Has(b, Post) /\ PostCounts(Apply(d, b)))
  /\ \A r \in Replies :
       /\ KeepsChildren(d, b, r) \/ (Has(b, Reply(r)) /\ RootCounts(Apply(d, b), r))
       /\ KeepsFeedback(d, b, r) \/ (Has(b, Reply(r)) /\ ReplyCounts(Apply(d, b), r))

(* Documents of the same thread have the same counts.                      *)
LEMMA SameThreadSameCounts ==
  ASSUME NEW d, NEW e, SameThread(d, e), RepliesTyped(d)
  PROVE  /\ Has(d, Post) => (PostCounts(d) => PostCounts(e))
         /\ \A r \in Replies : /\ RootCounts(d, r) => RootCounts(e, r)
                               /\ ReplyCounts(d, r) => ReplyCounts(e, r)
<1>1. /\ Has(e, Post) <=> Has(d, Post)
      /\ Has(d, Post) => e[Post] = d[Post]
      /\ \A r \in Replies : /\ Has(e, Reply(r)) <=> Has(d, Reply(r))
                            /\ Has(d, Reply(r)) => e[Reply(r)] = d[Reply(r)]
      /\ \A r \in Replies, a \in Agents :
           /\ Exists(e, Feedback(r, a)) <=> Exists(d, Feedback(r, a))
           /\ Exists(d, Feedback(r, a)) => e[Feedback(r, a)] = d[Feedback(r, a)]
  BY ThreadIdsApart DEF SameThread, Exists
<1>2. RepliesIn(e) = RepliesIn(d)
  BY <1>1 DEF RepliesIn
<1>3. ASSUME NEW r \in RepliesIn(d)
      PROVE  BranchVisible(e, r) <=> BranchVisible(d, r)
  <2>1. e[Reply(r)] = d[Reply(r)] /\ Hangs(d, r) /\ d[Reply(r)] \in ReplyRecord
    BY <1>1 DEF RepliesTyped, RepliesIn
  <2>2. CASE IsRoot(d[Reply(r)])
    BY <2>1, <2>2 DEF BranchVisible
  <2>3. CASE ~IsRoot(d[Reply(r)])
    <3>. DEFINE q == d[Reply(r)].root
    <3>1. Has(d, Reply(q)) /\ q \in Replies
      BY <2>1, <2>3 DEF Hangs, ReplyRecord, IsRoot
    <3>. QED
      BY <3>1, <2>1, <1>1 DEF BranchVisible
  <2>. QED
    BY <2>2, <2>3
<1>4. Shown(e) = Shown(d)
  BY <1>2, <1>3 DEF Shown
<1>5. \A r : Kept(e, r) = Kept(d, r)
  BY <1>1, <1>2 DEF Kept, ChildrenIn, RepliesIn
<1>6. \A r \in Replies : \A kind : OfKind(e, r, kind) = OfKind(d, r, kind)
  BY <1>1 DEF OfKind, FeedbackIn
<1>. QED
  BY <1>1, <1>4, <1>5, <1>6 DEF PostCounts, RootCounts, ReplyCounts

(* So it is enough to look at what a user's transaction writes to the      *)
(* thread, if the rest of it keeps what is counted and signals it.         *)
LEMMA UserWritesRight ==
  ASSUME ThreadTyped(db), NEW b, ThreadStaysRight(db, b), ItemsTyped(b), ~Has(b, HotState),
         NEW w, SameThread(b, w), KeepsAndSignals(w), DirtyWork(w) => Has(w, HotState)
  PROVE  StaysRight(db, w) /\ SignalsWork(db, w)
<1>. DEFINE e == Apply(db, b)
            f == Apply(db, w)
<1>1. /\ Has(w, Post) <=> Has(b, Post)
      /\ \A r \in Replies : /\ Has(w, Reply(r)) <=> Has(b, Reply(r))
                            /\ Has(b, Reply(r)) => w[Reply(r)] = b[Reply(r)]
      /\ \A r \in Replies, a \in Agents :
           /\ Has(w, Feedback(r, a)) <=> Has(b, Feedback(r, a))
           /\ Has(b, Feedback(r, a)) => w[Feedback(r, a)] = b[Feedback(r, a)]
  BY ThreadIdsApart DEF SameThread
<1>2. StaysTyped(db, b)
  BY DEF StaysTyped, ThreadStaysRight
<1>3. ThreadTyped(e)
  BY <1>2, TypesStay
<1>4. SameThread(e, f)
  BY ApplyFacts DEF SameThread
<1>5. RepliesTyped(e) /\ Has(e, Post)
  BY <1>3 DEF ThreadTyped
<1>. HIDE DEF e, f
<1>6. /\ PostCounts(e) => PostCounts(f)
      /\ \A r \in Replies : /\ RootCounts(e, r) => RootCounts(f, r)
                            /\ ReplyCounts(e, r) => ReplyCounts(f, r)
  BY <1>4, <1>5, SameThreadSameCounts
<1>7. RepliesIn(w) = RepliesIn(b)
  BY <1>1 DEF RepliesIn
<1>8. RepliesStayTyped(db, w)
  <2>. SUFFICES ASSUME NEW r \in RepliesIn(w)
                PROVE  /\ w[Reply(r)] \in ReplyRecord
                       /\ LET root == w[Reply(r)].root
                          IN  IF Has(db, Reply(r)) THEN root = db[Reply(r)].root
                              ELSE root = 0 \/ (/\ Has(w, Reply(root)) /\ Has(db, Reply(root))
                                                /\ IsRoot(db[Reply(root)]))
    BY DEF RepliesStayTyped
  <2>1. r \in RepliesIn(b) /\ w[Reply(r)] = b[Reply(r)] /\ r \in Replies
    BY <1>1, <1>7 DEF RepliesIn
  <2>2. w[Reply(r)] \in ReplyRecord
    BY <2>1 DEF ThreadStaysRight, RepliesStayTyped
  <2>3. w[Reply(r)].root \in {0} \cup Replies
    BY <2>2 DEF ReplyRecord
  <2>. QED
    BY <2>1, <2>2, <2>3, <1>1 DEF ThreadStaysRight, RepliesStayTyped
<1>9. FeedbackStaysTyped(db, w)
  <2>. SUFFICES ASSUME NEW r \in Replies, NEW a \in Agents, Exists(w, Feedback(r, a))
                PROVE  /\ Has(w, Reply(r)) /\ Has(db, Reply(r))
                       /\ w[Feedback(r, a)] \in FeedbackRecord
    BY DEF FeedbackStaysTyped
  <2>1. Exists(b, Feedback(r, a)) /\ w[Feedback(r, a)] = b[Feedback(r, a)]
    BY <1>1 DEF Exists
  <2>. QED
    BY <2>1, <1>1 DEF ThreadStaysRight, FeedbackStaysTyped
<1>10. KeepsShown(db, b) => KeepsShown(db, w)
  <2>. SUFFICES ASSUME KeepsShown(db, b), NEW r \in RepliesIn(w)
                PROVE  /\ Has(db, Reply(r)) /\ w[Reply(r)].root = db[Reply(r)].root
                       /\ \/ w[Reply(r)].deleted = db[Reply(r)].deleted
                          \/ LET root == db[Reply(r)].root
                             IN  root # 0 /\ Has(w, Reply(root)) /\ db[Reply(root)].deleted
    BY <1>1 DEF KeepsShown
  <2>1. r \in RepliesIn(b) /\ w[Reply(r)] = b[Reply(r)] /\ r \in Replies
    BY <1>1, <1>7 DEF RepliesIn
  <2>2. Has(db, Reply(r))
    BY <2>1 DEF KeepsShown
  <2>3. db[Reply(r)].root \in {0} \cup Replies
    BY <2>1, <2>2 DEF ThreadTyped, RepliesTyped, RepliesIn, ReplyRecord
  <2>. QED
    BY <2>1, <2>2, <2>3, <1>1 DEF KeepsShown
<1>11. ASSUME NEW r \in Replies
       PROVE  /\ KeepsChildren(db, b, r) => KeepsChildren(db, w, r)
              /\ KeepsFeedback(db, b, r) => KeepsFeedback(db, w, r)
  <2>1. KeepsChildren(db, b, r) => KeepsChildren(db, w, r)
    BY <1>1, <1>7 DEF KeepsChildren, RepliesIn
  <2>2. KeepsFeedback(db, b, r) => KeepsFeedback(db, w, r)
    BY <1>1 DEF KeepsFeedback
  <2>. QED
    BY <2>1, <2>2
<1>12. StaysTyped(db, w) /\ KeepsHot(db, w) /\ SignalsWork(db, w)
  BY <1>8, <1>9 DEF StaysTyped, KeepsAndSignals, SignalsWork
<1>13. KeepsShown(db, w) \/ (Has(w, Post) /\ PostCounts(f))
  BY <1>1, <1>6, <1>10 DEF ThreadStaysRight, e
<1>14. ASSUME NEW r \in Replies
       PROVE  /\ KeepsChildren(db, w, r) \/ (Has(w, Reply(r)) /\ RootCounts(f, r))
              /\ KeepsFeedback(db, w, r) \/ (Has(w, Reply(r)) /\ ReplyCounts(f, r))
  BY <1>1, <1>6, <1>11 DEF ThreadStaysRight, e
<1>. QED
  BY <1>12, <1>13, <1>14 DEF StaysRight, f

(* Writes to the thread only.                                              *)
LEMMA ThreadAlone ==
  ASSUME NEW b, \A id : Has(b, id) => ThreadId(id)
  PROVE  /\ KeepsAndSignals(b) /\ ItemsTyped(b) /\ ~DirtyWork(b) /\ ~Has(b, HotState)
         /\ \A s : ~Has(b, Item(s))
<1>1. /\ ~Has(b, HotState)
      /\ \A s : ~Has(b, Item(s)) /\ ~Has(b, Branch(s)) /\ ~Has(b, Fanout(s))
  BY ThreadIdsApart
<1>2. Items(b) = {}
  BY <1>1 DEF Items, Exists
<1>. QED
  BY <1>1, <1>2 DEF KeepsAndSignals, KeepsHot, KeepsCounted, ItemsTyped, DirtyWork, DirtyItems,
                    DirtyBranches, DirtyFanouts

(* Feedback that is given, changed or taken back is counted as such.       *)
LEMMA FeedbackWritesRight ==
  ASSUME ThreadRight(db), NEW r \in RepliesIn(db), NEW a \in Agents, NEW counts, NEW new,
         counts \in ReplyRecord,
         LET old == db[Reply(r)]
             Given(kind) == Takes01(new # Gone /\ new.kind = kind)
             Taken01(kind) == Takes01(a \in OfKind(db, r, kind))
         IN  /\ counts.author = old.author /\ counts.root = old.root
             /\ counts.deleted = old.deleted /\ counts.children = old.children
             /\ counts.positive = (old.positive + Given("positive")) - Taken01("positive")
             /\ counts.negative = (old.negative + Given("negative")) - Taken01("negative"),
         new # Gone => new \in FeedbackRecord
  PROVE  LET b == Apply(Put(Reply(r), counts), Put(Feedback(r, a), new))
         IN  /\ ThreadStaysRight(db, b)
             /\ \A id : Has(b, id) => ThreadId(id)
             /\ Apply(db, b)[Reply(r)] = counts
<1>. DEFINE b == Apply(Put(Reply(r), counts), Put(Feedback(r, a), new))
            e == Apply(db, b)
            old == db[Reply(r)]
            Given(kind) == Takes01(new # Gone /\ new.kind = kind)
            Taken01(kind) == Takes01(a \in OfKind(db, r, kind))
<1>0. r \in Replies /\ Has(db, Reply(r)) /\ Reply(r) # Feedback(r, a)
  BY ThreadIds DEF RepliesIn
<1>1. /\ \A id : Has(b, id) <=> id = Reply(r) \/ id = Feedback(r, a)
      /\ b[Reply(r)] = counts /\ b[Feedback(r, a)] = new
  BY <1>0, TwoDocuments
<1>2. \A id : Has(b, id) => ThreadId(id)
  BY <1>0, <1>1 DEF ThreadId
<1>3. /\ e[Reply(r)] = counts /\ Has(e, Reply(r))
      /\ Has(e, Feedback(r, a)) /\ e[Feedback(r, a)] = new
      /\ \A x \in Agents : x # a =>
           /\ Has(e, Feedback(r, x)) <=> Has(db, Feedback(r, x))
           /\ Has(db, Feedback(r, x)) => e[Feedback(r, x)] = db[Feedback(r, x)]
  BY <1>0, <1>1, ApplyFacts, ThreadIds
<1>4. /\ counts.author = old.author /\ counts.root = old.root
      /\ counts.deleted = old.deleted /\ counts.children = old.children
      /\ counts.positive = (old.positive + Given("positive")) - Taken01("positive")
      /\ counts.negative = (old.negative + Given("negative")) - Taken01("negative")
  OBVIOUS
<1>. HIDE DEF b, e
<1>5. /\ RepliesIn(b) = {r} /\ ~Has(b, Post)
      /\ \A q \in Replies, x \in Agents : Has(b, Feedback(q, x)) <=> q = r /\ x = a
      /\ \A q \in Replies : Has(b, Reply(q)) <=> q = r
  BY <1>0, <1>1, ThreadIds DEF RepliesIn
<1>6. RepliesStayTyped(db, b)
  BY <1>0, <1>1, <1>4, <1>5 DEF RepliesStayTyped
<1>7. FeedbackStaysTyped(db, b)
  BY <1>0, <1>1, <1>5 DEF FeedbackStaysTyped, Exists
<1>8. KeepsShown(db, b)
  BY <1>0, <1>1, <1>4, <1>5 DEF KeepsShown
<1>9. \A q \in Replies : KeepsChildren(db, b, q)
  BY <1>0, <1>1, <1>4, <1>5 DEF KeepsChildren
<1>10. ASSUME NEW q \in Replies, q # r
       PROVE  KeepsFeedback(db, b, q)
  BY <1>5, <1>10 DEF KeepsFeedback
<1>11. ASSUME NEW kind
       PROVE  Cardinality(OfKind(e, r, kind)) =
                (Cardinality(OfKind(db, r, kind)) + Given(kind)) - Taken01(kind)
  <2>1. a \in OfKind(e, r, kind) <=> new # Gone /\ new.kind = kind
    BY <1>3 DEF OfKind, FeedbackIn, Exists
  <2>2. OfKind(db, r, kind) \ {a} = OfKind(e, r, kind) \ {a}
    BY <1>3 DEF OfKind, FeedbackIn, Exists
  <2>3. Given(kind) = Takes01(a \in OfKind(e, r, kind))
    BY <2>1 DEF Takes01
  <2>. QED
    <3>. DEFINE S == OfKind(db, r, kind)
                T == OfKind(e, r, kind)
    <3>1. IsFiniteSet(S)
      BY CountedSetsAreFinite
    <3>2. S \ {a} = T \ {a}
      BY <2>2
    <3>. HIDE DEF S, T, Given
    <3>3. Cardinality(T) = (Cardinality(S) + Takes01(a \in T)) - Takes01(a \in S)
      BY <3>1, <3>2, DifferInOne
    <3>. QED
      BY <3>3, <2>3 DEF S, T
<1>12. ReplyCounts(e, r)
  <2>1. /\ old.positive = Cardinality(OfKind(db, r, "positive"))
        /\ old.negative = Cardinality(OfKind(db, r, "negative"))
    BY <1>0 DEF ThreadRight, ReplyCounts
  <2>. HIDE DEF old, Given, Taken01
  <2>. QED
    BY <2>1, <1>3, <1>4, <1>11 DEF ReplyCounts
<1>. QED
  BY <1>2, <1>3, <1>5, <1>6, <1>7, <1>8, <1>9, <1>10, <1>12 DEF ThreadStaysRight, b, e

LEMMA WithFeedbackRight ==
  ASSUME ThreadRight(db), NEW r \in RepliesIn(db), NEW a \in Agents, NEW counts,
         NEW kind \in {"none", "positive", "negative"}, NEW id \in FeedbackIds,
         counts \in ReplyRecord,
         LET old == db[Reply(r)]
             Taken01(k) == Takes01(a \in OfKind(db, r, k))
         IN  /\ counts.author = old.author /\ counts.root = old.root
             /\ counts.deleted = old.deleted /\ counts.children = old.children
             /\ counts.positive = (old.positive + Takes01(kind = "positive")) - Taken01("positive")
             /\ counts.negative = (old.negative + Takes01(kind = "negative")) - Taken01("negative")
  PROVE  LET w == WithFeedback(r, a, kind, id, counts)
         IN  StaysRight(db, w) /\ SignalsWork(db, w)
<1>. DEFINE new == IF kind = "none" THEN Gone ELSE [kind |-> kind, id |-> id]
            b == Apply(Put(Reply(r), counts), Put(Feedback(r, a), new))
            active == BranchVisible(Seen(b), r) /\ a # Author /\ kind = "positive"
            w == WithFeedback(r, a, kind, id, counts)
<1>1. w = WithItem(b, <<"feedback", id>>, a, active, kind # "none")
  BY DEF WithFeedback
<1>2. /\ new # Gone => new \in FeedbackRecord
      /\ (new # Gone /\ new.kind = "positive") <=> kind = "positive"
      /\ (new # Gone /\ new.kind = "negative") <=> kind = "negative"
  BY DEF FeedbackRecord, Gone
<1>3. /\ Takes01(new # Gone /\ new.kind = "positive") = Takes01(kind = "positive")
      /\ Takes01(new # Gone /\ new.kind = "negative") = Takes01(kind = "negative")
  BY <1>2 DEF Takes01
<1>. HIDE DEF new
<1>4. ThreadStaysRight(db, b) /\ \A x : Has(b, x) => ThreadId(x)
  BY <1>2, <1>3, FeedbackWritesRight
<1>. HIDE DEF b
<1>5. /\ KeepsAndSignals(b) /\ ItemsTyped(b) /\ ~DirtyWork(b) /\ ~Has(b, HotState)
      /\ \A s : ~Has(b, Item(s))
  BY <1>4, ThreadAlone
<1>6. <<"feedback", id>> \in Sources
  BY DEF Sources
<1>7. active \in BOOLEAN /\ (kind # "none") \in BOOLEAN
  OBVIOUS
<1>8. ThreadTyped(db)
  BY DEF ThreadRight
<1>. HIDE DEF active
<1>9. /\ KeepsAndSignals(w) /\ SameThread(b, w)
      /\ DirtyWork(w) => Has(w, HotState)
  BY <1>1, <1>5, <1>6, <1>7, <1>8, WithItemSignals, ZenonT(40)
<1>. HIDE DEF w
<1>10. StaysRight(db, w) /\ SignalsWork(db, w)
  BY <1>4, <1>5, <1>8, <1>9, UserWritesRight
<1>. QED
  BY <1>10 DEF w

(* A set of numbers that is not empty has a least one.                     *)
LEMMA LeastExists ==
  ASSUME NEW S \in SUBSET Nat, S # {}
  PROVE  Min(S) \in S
BY LeastNumber DEF Min

LEMMA GiveFeedbackRight ==
  ASSUME ThreadRight(db), NEW s, NEW a \in Agents, NEW r \in Replies,
         NEW kind \in {"positive", "negative"}, GiveFeedback(s, a, r, kind)
  PROVE  \E w : UserActs(s, w) /\ StaysRight(db, w) /\ SignalsWork(db, w)
<1>. DEFINE reply == db[Reply(r)]
            old   == db[Feedback(r, a)]
<1>1. r \in RepliesIn(db) /\ Has(db, Reply(r))
  BY DEF GiveFeedback, RepliesIn
<1>2. reply \in ReplyRecord
  BY <1>1 DEF ThreadRight, ThreadTyped, RepliesTyped
<1>3. Exists(db, Feedback(r, a)) => old \in FeedbackRecord
  BY DEF ThreadRight, ThreadTyped, FeedbackTyped
<1>4. \A k : a \in OfKind(db, r, k) <=> Exists(db, Feedback(r, a)) /\ old.kind = k
  BY DEF OfKind, FeedbackIn
<1>5. ASSUME NEW rec \in ReplyRecord, NEW k, NEW n \in Int
      PROVE  /\ Plus(rec, k, n) \in ReplyRecord
             /\ LET new == Plus(rec, k, n)
                IN  /\ new.author = rec.author /\ new.root = rec.root
                    /\ new.deleted = rec.deleted /\ new.children = rec.children
                    /\ new.positive = rec.positive + (IF k = "positive" THEN n ELSE 0)
                    /\ new.negative = rec.negative + (IF k = "positive" THEN 0 ELSE n)
  BY DEF ReplyRecord, Plus
<1>. HIDE DEF reply, old
<1>6. CASE /\ ~Exists(db, Feedback(r, a))
           /\ FeedbackIds \ FeedbackIdsUsed # {}
           /\ UserActs(s, WithFeedback(r, a, kind, Min(FeedbackIds \ FeedbackIdsUsed),
                                       Plus(reply, kind, 1)))
  <2>1. Min(FeedbackIds \ FeedbackIdsUsed) \in FeedbackIds
    <3>1. FeedbackIds \ FeedbackIdsUsed \in SUBSET Nat
      BY ReplyThreadAssumption
    <3>. QED
      BY <3>1, <1>6, LeastExists
  <2>2. \A k : Takes01(a \in OfKind(db, r, k)) = 0
    BY <1>4, <1>6 DEF Takes01
  <2>3. LET new == Plus(reply, kind, 1)
        IN  /\ new \in ReplyRecord
            /\ new.author = reply.author /\ new.root = reply.root
            /\ new.deleted = reply.deleted /\ new.children = reply.children
            /\ new.positive = (reply.positive + Takes01(kind = "positive")) - 0
            /\ new.negative = (reply.negative + Takes01(kind = "negative")) - 0
    BY <1>2, <1>5 DEF Takes01, ReplyRecord
  <2>. QED
    BY <1>1, <1>6, <2>1, <2>2, <2>3, WithFeedbackRight DEF reply
<1>7. CASE /\ Exists(db, Feedback(r, a)) /\ old.kind = kind
           /\ UserActs(s, WithFeedback(r, a, "none", old.id, Plus(reply, kind, 0 - 1)))
  <2>1. old.id \in FeedbackIds
    BY <1>3, <1>7 DEF FeedbackRecord
  <2>2. \A k : Takes01(a \in OfKind(db, r, k)) = Takes01(kind = k)
    BY <1>4, <1>7 DEF Takes01
  <2>3. LET new == Plus(reply, kind, 0 - 1)
        IN  /\ new \in ReplyRecord
            /\ new.author = reply.author /\ new.root = reply.root
            /\ new.deleted = reply.deleted /\ new.children = reply.children
            /\ new.positive = (reply.positive + 0) - Takes01(kind = "positive")
            /\ new.negative = (reply.negative + 0) - Takes01(kind = "negative")
    BY <1>2, <1>5 DEF Takes01, ReplyRecord
  <2>4. Takes01("none" = "positive") = 0 /\ Takes01("none" = "negative") = 0
    BY DEF Takes01
  <2>. QED
    BY <1>1, <1>7, <2>1, <2>2, <2>3, <2>4, WithFeedbackRight DEF reply
<1>8. CASE /\ Exists(db, Feedback(r, a)) /\ old.kind # kind
           /\ UserActs(s, WithFeedback(r, a, kind, old.id,
                            Plus(Plus(reply, kind, 1), old.kind, 0 - 1)))
  <2>1. old.id \in FeedbackIds /\ old.kind \in {"positive", "negative"}
    BY <1>3, <1>8 DEF FeedbackRecord
  <2>2. \A k : Takes01(a \in OfKind(db, r, k)) = Takes01(old.kind = k)
    BY <1>4, <1>8 DEF Takes01
  <2>3. LET mid == Plus(reply, kind, 1)
        IN  /\ mid \in ReplyRecord
            /\ mid.author = reply.author /\ mid.root = reply.root
            /\ mid.deleted = reply.deleted /\ mid.children = reply.children
            /\ mid.positive = reply.positive + Takes01(kind = "positive")
            /\ mid.negative = reply.negative + Takes01(kind = "negative")
    BY <1>2, <1>5 DEF Takes01, ReplyRecord
  <2>. DEFINE mid == Plus(reply, kind, 1)
              new == Plus(mid, old.kind, 0 - 1)
  <2>4. /\ new \in ReplyRecord
        /\ new.author = mid.author /\ new.root = mid.root
        /\ new.deleted = mid.deleted /\ new.children = mid.children
        /\ new.positive = mid.positive - Takes01(old.kind = "positive")
        /\ new.negative = mid.negative - Takes01(old.kind = "negative")
    <3>1. mid \in ReplyRecord
      BY <2>3
    <3>. HIDE DEF mid
    <3>. QED
      BY <3>1, <2>1, <1>5 DEF Takes01, ReplyRecord
  <2>5. UserActs(s, WithFeedback(r, a, kind, old.id, new))
    BY <1>8
  <2>. HIDE DEF mid, new
  <2>. QED
    BY <1>1, <2>1, <2>2, <2>3, <2>4, <2>5, WithFeedbackRight DEF reply, mid
<1>. QED
  BY <1>6, <1>7, <1>8 DEF GiveFeedback, reply, old

(* Two counted sets that have nothing in common.                           *)
LEMMA DisjointCount ==
  ASSUME NEW S, IsFiniteSet(S), NEW T, IsFiniteSet(T), S \cap T = {}
  PROVE  /\ Cardinality(S) \in Nat /\ Cardinality(T) \in Nat
         /\ Cardinality(S \cup T) = Cardinality(S) + Cardinality(T)
<1>1. Cardinality(S) \in Nat /\ Cardinality(T) \in Nat
  BY FS_CardinalityType
<1>2. Cardinality(S \cup T) = Cardinality(S) + Cardinality(T) - Cardinality(S \cap T)
  BY FS_Union
<1>3. Cardinality(S \cap T) = 0
  BY FS_EmptySet
<1>. QED
  BY <1>1, <1>2, <1>3

(* A reply that is created is counted for the post and for its root.       *)
LEMMA CreationRight ==
  ASSUME ThreadRight(db), NEW r \in Replies, ~Has(db, Reply(r)), NEW a \in Agents,
         NEW root \in {0} \cup Replies,
         root # 0 => /\ Has(db, Reply(root)) /\ IsRoot(db[Reply(root)])
                     /\ ~db[Reply(root)].deleted,
         NEW b, \A id : Has(b, id) <=> id \in {Reply(r), Post} \/ (root # 0 /\ id = Reply(root)),
         b[Reply(r)] = NewReply(a, root),
         b[Post] = [replies |-> db[Post].replies + 1],
         root # 0 =>
           b[Reply(root)] = [db[Reply(root)] EXCEPT !.children = @ + 1]
  PROVE  /\ ThreadStaysRight(db, b)
         /\ \A id : Has(b, id) => ThreadId(id)
<1>. DEFINE e == Apply(db, b)
            parent == db[Reply(root)]
<1>0. ThreadTyped(db) /\ 0 \notin Replies /\ root # r
  BY ThreadFacts DEF ThreadRight
<1>1. /\ b[Reply(r)] \in ReplyRecord /\ b[Reply(r)].root = root /\ b[Reply(r)].deleted = FALSE
      /\ b[Reply(r)].children = 0 /\ b[Reply(r)].positive = 0 /\ b[Reply(r)].negative = 0
  BY DEF NewReply, ReplyRecord
<1>2. root # 0 => /\ parent \in ReplyRecord /\ b[Reply(root)] \in ReplyRecord
                  /\ b[Reply(root)].root = 0 /\ parent.root = 0
                  /\ b[Reply(root)].deleted = FALSE /\ parent.deleted = FALSE
                  /\ b[Reply(root)].children = parent.children + 1
                  /\ b[Reply(root)].positive = parent.positive
                  /\ b[Reply(root)].negative = parent.negative
  <2>. SUFFICES ASSUME root # 0
                PROVE  /\ parent \in ReplyRecord /\ b[Reply(root)] \in ReplyRecord
                       /\ b[Reply(root)].root = 0 /\ parent.root = 0
                       /\ b[Reply(root)].deleted = FALSE /\ parent.deleted = FALSE
                       /\ b[Reply(root)].children = parent.children + 1
                       /\ b[Reply(root)].positive = parent.positive
                       /\ b[Reply(root)].negative = parent.negative
    OBVIOUS
  <2>1. parent \in ReplyRecord /\ IsRoot(parent) /\ ~parent.deleted
    BY <1>0 DEF ThreadTyped, RepliesTyped, RepliesIn
  <2>2. b[Reply(root)] = [parent EXCEPT !.children = @ + 1]
    OBVIOUS
  <2>. HIDE DEF parent
  <2>. QED
    BY <2>1, <2>2 DEF ReplyRecord, IsRoot
<1>3. \A id : Has(b, id) => ThreadId(id)
  BY DEF ThreadId
<1>4. /\ Has(b, Post) /\ Has(b, Reply(r))
      /\ root # 0 => Has(b, Reply(root))
      /\ \A q \in Replies : Has(b, Reply(q)) <=> q = r \/ q = root
      /\ \A q \in Replies, x \in Agents : ~Has(b, Feedback(q, x))
      /\ RepliesIn(b) = {r} \cup ({root} \ {0})
  BY <1>0, ThreadIds DEF RepliesIn
<1>5. /\ \A id : Has(e, id) <=> Has(db, id) \/ Has(b, id)
      /\ \A id : Has(b, id) => e[id] = b[id]
      /\ \A id : Has(db, id) /\ ~Has(b, id) => e[id] = db[id]
  BY ApplyFacts
<1>. HIDE DEF e
<1>6. RepliesStayTyped(db, b) /\ FeedbackStaysTyped(db, b)
  <2>1. RepliesStayTyped(db, b)
    BY <1>0, <1>1, <1>2, <1>4 DEF RepliesStayTyped, IsRoot
  <2>2. FeedbackStaysTyped(db, b)
    BY <1>4 DEF FeedbackStaysTyped, Exists
  <2>. QED
    BY <2>1, <2>2
<1>7. ASSUME NEW q \in RepliesIn(db)
      PROVE  /\ q \in RepliesIn(e) /\ q # r
             /\ e[Reply(q)].root = db[Reply(q)].root
             /\ e[Reply(q)].deleted = db[Reply(q)].deleted
  BY <1>0, <1>2, <1>4, <1>5 DEF RepliesIn, IsRoot
<1>8. /\ RepliesIn(e) = RepliesIn(db) \cup {r} /\ r \notin RepliesIn(db)
      /\ e[Reply(r)] = b[Reply(r)]
  BY <1>4, <1>5 DEF RepliesIn
<1>9. ASSUME NEW q \in RepliesIn(db)
      PROVE  (BranchVisible(e, q) <=> BranchVisible(db, q)) /\ e[Reply(q)].root # r
  <2>. DEFINE p == db[Reply(q)].root
  <2>1. p = 0 \/ p \in RepliesIn(db)
    BY <1>0 DEF ThreadTyped, RepliesTyped, Hangs, IsRoot, ReplyRecord, RepliesIn
  <2>2. p # r
    BY <2>1, <1>0, <1>8
  <2>3. p # 0 => e[Reply(p)].deleted = db[Reply(p)].deleted
    BY <2>1, <1>7
  <2>. QED
    BY <2>2, <2>3, <1>7 DEF BranchVisible, IsRoot
<1>10. BranchVisible(e, r)
  <2>1. root # 0 => ~e[Reply(root)].deleted
    BY <1>2, <1>4, <1>5
  <2>. QED
    BY <2>1, <1>1, <1>8 DEF BranchVisible, IsRoot
<1>11. PostCounts(e)
  <2>1. Shown(e) = Shown(db) \cup {r} /\ r \notin Shown(db)
    BY <1>8, <1>9, <1>10 DEF Shown
  <2>2. Cardinality(Shown(e)) = Cardinality(Shown(db)) + 1
    BY <2>1, CountedSetsAreFinite, OneMore
  <2>3. e[Post].replies = db[Post].replies + 1
    BY <1>4, <1>5
  <2>. QED
    BY <2>2, <2>3 DEF PostCounts, ThreadRight
<1>12. ASSUME NEW q \in Replies
       PROVE  KeepsChildren(db, b, q) \/ (Has(b, Reply(q)) /\ RootCounts(e, q))
  <2>1. CASE q = r
    <3>1. Kept(e, q) = {}
      BY <2>1, <1>0, <1>1, <1>8, <1>9 DEF Kept, ChildrenIn
    <3>. QED
      BY <2>1, <3>1, <1>1, <1>4, <1>8, FS_EmptySet DEF RootCounts
  <2>2. CASE q = root
    <3>0. root # 0
      BY <2>2, <1>0
    <3>1. Kept(e, q) = Kept(db, q) \cup {r} /\ r \notin Kept(db, q)
      BY <2>2, <1>1, <1>7, <1>8 DEF Kept, ChildrenIn
    <3>2. Cardinality(Kept(e, q)) = Cardinality(Kept(db, q)) + 1
      BY <3>1, CountedSetsAreFinite, OneMore
    <3>3. e[Reply(q)].children = db[Reply(q)].children + 1
      BY <2>2, <3>0, <1>2, <1>4, <1>5
    <3>. QED
      BY <2>2, <3>0, <3>2, <3>3, <1>4 DEF RootCounts, ThreadRight
  <2>3. CASE q # r /\ q # root
    <3>1. ~Has(b, Reply(q))
      BY <2>3, <1>4
    <3>2. ASSUME NEW c \in RepliesIn(b), b[Reply(c)].root = q PROVE FALSE
      BY <2>3, <3>2, <1>0, <1>1, <1>2, <1>4
    <3>. QED
      BY <3>1, <3>2 DEF KeepsChildren
  <2>. QED
    BY <2>1, <2>2, <2>3
<1>13. ASSUME NEW q \in Replies
       PROVE  KeepsFeedback(db, b, q) \/ (Has(b, Reply(q)) /\ ReplyCounts(e, q))
  <2>1. CASE q = r
    <3>1. \A x \in Agents : ~Exists(e, Feedback(r, x))
      BY <1>0, <1>4, <1>5 DEF ThreadTyped, FeedbackTyped, Exists
    <3>2. \A kind : OfKind(e, r, kind) = {}
      BY <3>1 DEF OfKind, FeedbackIn
    <3>. QED
      BY <2>1, <3>2, <1>1, <1>4, <1>8, FS_EmptySet DEF ReplyCounts
  <2>2. CASE q # r
    BY <2>2, <1>0, <1>2, <1>4 DEF KeepsFeedback
  <2>. QED
    BY <2>1, <2>2
<1>. QED
  BY <1>3, <1>4, <1>6, <1>11, <1>12, <1>13 DEF ThreadStaysRight, e

LEMMA CreateReplyRight ==
  ASSUME ThreadRight(db), NEW s, NEW a \in Agents, NEW root \in {0, 1},
         CreateReply(s, a, root)
  PROVE  \E w : UserActs(s, w) /\ StaysRight(db, w) /\ SignalsWork(db, w)
<1>. DEFINE parent == IF root = 0 THEN <<>>
                      ELSE Put(Reply(root), [db[Reply(root)] EXCEPT !.children = @ + 1])
            Base(r) == PostCount(Apply(Put(Reply(r), NewReply(a, root)), parent),
                                 db[Post].replies + 1)
<1>1. PICK r \in Replies \ RepliesIn(db) :
        /\ root # 0 => /\ root \in RepliesIn(db) /\ IsRoot(db[Reply(root)])
                       /\ ~db[Reply(root)].deleted
        /\ UserActs(s, WithReplyItem(Base(r), r))
  BY DEF CreateReply
<1>. DEFINE b == Base(r)
            first == Apply(Put(Reply(r), NewReply(a, root)), parent)
            active == BranchVisible(Seen(b), r) /\ Seen(b)[Reply(r)].author # Author
            w == WithReplyItem(b, r)
<1>2. /\ r \in Replies /\ ~Has(db, Reply(r)) /\ root \in {0} \cup Replies
      /\ root # 0 => Has(db, Reply(root)) /\ root # r
  BY <1>1, ThreadFacts DEF RepliesIn
<1>3. /\ \A id : Has(parent, id) <=> root # 0 /\ id = Reply(root)
      /\ root # 0 => parent[Reply(root)] = [db[Reply(root)] EXCEPT !.children = @ + 1]
  BY OneDocument, NoDocument
<1>. HIDE DEF parent
<1>4. /\ \A id : Has(first, id) <=> id = Reply(r) \/ (root # 0 /\ id = Reply(root))
      /\ first[Reply(r)] = NewReply(a, root)
      /\ root # 0 => first[Reply(root)] = [db[Reply(root)] EXCEPT !.children = @ + 1]
  BY <1>2, <1>3, OneDocument, ApplyFacts, ThreadIds
<1>. HIDE DEF first
<1>5. b = Apply(first, Put(Post, [replies |-> db[Post].replies + 1]))
  BY DEF PostCount, first
<1>. HIDE DEF b
<1>6. /\ \A id : Has(b, id) <=> id \in {Reply(r), Post} \/ (root # 0 /\ id = Reply(root))
      /\ b[Reply(r)] = NewReply(a, root)
      /\ b[Post] = [replies |-> db[Post].replies + 1]
      /\ root # 0 => b[Reply(root)] = [db[Reply(root)] EXCEPT !.children = @ + 1]
  BY <1>4, <1>5, OneDocument, ApplyFacts, ThreadIds
<1>7. ThreadStaysRight(db, b) /\ \A id : Has(b, id) => ThreadId(id)
  BY <1>1, <1>2, <1>6, CreationRight
<1>8. /\ KeepsAndSignals(b) /\ ItemsTyped(b) /\ ~DirtyWork(b) /\ ~Has(b, HotState)
      /\ \A x : ~Has(b, Item(x))
  BY <1>7, ThreadAlone
<1>9. w = WithItem(b, <<"reply", r>>, a, active, TRUE)
  <2>1. Seen(b)[Reply(r)] = NewReply(a, root)
    BY <1>6, ApplyFacts DEF Seen
  <2>2. Seen(b)[Reply(r)].author = a
    BY <2>1 DEF NewReply
  <2>. QED
    BY <2>2 DEF WithReplyItem
<1>10. <<"reply", r>> \in Sources /\ active \in BOOLEAN /\ TRUE \in BOOLEAN
  BY <1>2 DEF Sources
<1>11. ThreadTyped(db)
  BY DEF ThreadRight
<1>. HIDE DEF active
<1>12. /\ KeepsAndSignals(w) /\ SameThread(b, w)
       /\ DirtyWork(w) => Has(w, HotState)
  BY <1>8, <1>9, <1>10, <1>11, WithItemSignals
<1>13. UserActs(s, w)
  BY <1>1 DEF b
<1>. HIDE DEF w
<1>14. StaysRight(db, w) /\ SignalsWork(db, w)
  BY <1>7, <1>8, <1>11, <1>12, UserWritesRight
<1>. QED
  BY <1>13, <1>14

(* The delta of a count when a reply is removed or restored.               *)
Delta(removed) == IF removed THEN 0 - 1 ELSE 1

(* A root that is removed or restored takes the children it keeps along.   *)
LEMMA RootRemovalRight ==
  ASSUME ThreadRight(db), NEW r \in RepliesIn(db), NEW removed \in BOOLEAN,
         db[Reply(r)].deleted # removed, IsRoot(db[Reply(r)]),
         NEW b, \A id : Has(b, id) <=> id \in {Reply(r), Post},
         b[Reply(r)] = [db[Reply(r)] EXCEPT !.deleted = removed],
         b[Post] = [replies |->
           db[Post].replies + Delta(removed) * (1 + db[Reply(r)].children)]
  PROVE  /\ ThreadStaysRight(db, b)
         /\ \A id : Has(b, id) => ThreadId(id)
<1>. DEFINE e == Apply(db, b)
            old == db[Reply(r)]
            X == {r} \cup Kept(db, r)
<1>0. ThreadTyped(db) /\ 0 \notin Replies /\ r \in Replies /\ Has(db, Reply(r))
  BY ThreadFacts DEF ThreadRight, RepliesIn
<1>1. /\ old \in ReplyRecord /\ b[Reply(r)] \in ReplyRecord
      /\ old.root = 0 /\ b[Reply(r)].root = 0 /\ b[Reply(r)].deleted = removed
      /\ old.deleted <=> ~removed
      /\ b[Reply(r)].children = old.children
      /\ b[Reply(r)].positive = old.positive /\ b[Reply(r)].negative = old.negative
  <2>1. old \in ReplyRecord /\ old.root = 0 /\ old.deleted # removed
    BY <1>0 DEF ThreadTyped, RepliesTyped, IsRoot
  <2>2. b[Reply(r)] = [old EXCEPT !.deleted = removed]
    OBVIOUS
  <2>. HIDE DEF old
  <2>. QED
    BY <2>1, <2>2 DEF ReplyRecord
<1>2. \A id : Has(b, id) => ThreadId(id)
  BY <1>0 DEF ThreadId
<1>3. /\ Has(b, Post) /\ Has(b, Reply(r)) /\ RepliesIn(b) = {r}
      /\ \A q \in Replies : Has(b, Reply(q)) <=> q = r
      /\ \A q \in Replies, x \in Agents : ~Has(b, Feedback(q, x))
  BY <1>0, ThreadIds DEF RepliesIn
<1>4. /\ \A id : Has(e, id) <=> Has(db, id) \/ Has(b, id)
      /\ \A id : Has(b, id) => e[id] = b[id]
      /\ \A id : Has(db, id) /\ ~Has(b, id) => e[id] = db[id]
  BY ApplyFacts
<1>. HIDE DEF e
<1>5. RepliesStayTyped(db, b) /\ FeedbackStaysTyped(db, b)
  BY <1>0, <1>1, <1>3 DEF RepliesStayTyped, FeedbackStaysTyped, Exists
<1>6. /\ RepliesIn(e) = RepliesIn(db) /\ e[Reply(r)].deleted = removed
      /\ \A q \in RepliesIn(db) : /\ e[Reply(q)].root = db[Reply(q)].root
                                  /\ q # r => e[Reply(q)].deleted = db[Reply(q)].deleted
  BY <1>0, <1>1, <1>3, <1>4, ZenonT(40) DEF RepliesIn
<1>7. r \notin Kept(db, r) /\ IsFiniteSet(Kept(db, r))
  <2>1. r # 0 /\ db[Reply(r)].root = 0
    BY <1>0, <1>1
  <2>2. r \notin Kept(db, r)
    BY <2>1 DEF Kept, ChildrenIn
  <2>. QED
    BY <2>2, CountedSetsAreFinite
<1>8. IsFiniteSet(X) /\ Cardinality(X) = 1 + old.children
  <2>1. Cardinality(Kept(db, r)) = old.children
    BY <1>0 DEF ThreadRight, RootCounts
  <2>2. X = Kept(db, r) \cup {r}
    OBVIOUS
  <2>3. IsFiniteSet(X) /\ Cardinality(X) = Cardinality(Kept(db, r)) + 1 /\ Cardinality(Kept(db, r)) \in Nat
    BY <2>2, <1>7, OneMore
  <2>. QED
    BY <2>1, <2>3
<1>9. ASSUME NEW q \in RepliesIn(db)
      PROVE  /\ q \notin X => (BranchVisible(e, q) <=> BranchVisible(db, q))
             /\ q \in X => (BranchVisible(e, q) <=> ~removed) /\ (BranchVisible(db, q) <=> removed)
  <2>. DEFINE p == db[Reply(q)].root
  <2>1. p = 0 \/ p \in RepliesIn(db)
    BY <1>0 DEF ThreadTyped, RepliesTyped, Hangs, IsRoot, ReplyRecord, RepliesIn
  <2>0. /\ db[Reply(r)].root = 0 /\ e[Reply(r)].root = 0 /\ r # 0
        /\ db[Reply(r)].deleted <=> ~removed
        /\ e[Reply(r)].deleted <=> removed
    BY <1>0, <1>1, <1>6
  <2>2. CASE q = r
    <3>1. q \in X
      BY <2>2
    <3>2. (BranchVisible(e, r) <=> ~removed) /\ (BranchVisible(db, r) <=> removed)
      BY <2>0 DEF BranchVisible, IsRoot
    <3>. QED
      BY <3>1, <3>2, <2>2
  <2>3. CASE q # r /\ p = r
    <3>1. q \in X <=> ~db[Reply(q)].deleted
      BY <2>3 DEF Kept, ChildrenIn
    <3>2. /\ e[Reply(q)].deleted = db[Reply(q)].deleted /\ e[Reply(q)].root = r
          /\ db[Reply(q)].root = r
      BY <2>3, <1>6
    <3>3. /\ BranchVisible(e, q) <=> ~db[Reply(q)].deleted /\ ~removed
          /\ BranchVisible(db, q) <=> ~db[Reply(q)].deleted /\ removed
      BY <2>0, <3>2 DEF BranchVisible, IsRoot
    <3>. QED
      BY <3>1, <3>3
  <2>4. CASE q # r /\ p # r
    <3>1. q \notin X
      BY <2>4 DEF Kept, ChildrenIn
    <3>. QED
      BY <2>1, <2>4, <3>1, <1>6 DEF BranchVisible, IsRoot
  <2>. QED
    BY <2>2, <2>3, <2>4
<1>10. X \subseteq RepliesIn(db)
  BY DEF Kept, ChildrenIn
<1>11. e[Post].replies = db[Post].replies + Delta(removed) * (1 + old.children)
  BY <1>3, <1>4
<1>12. PostCounts(e)
  <2>0. db[Post].replies = Cardinality(Shown(db)) /\ old.children \in Int
    BY <1>1 DEF ThreadRight, PostCounts, ReplyRecord
  <2>. HIDE DEF X, old
  <2>1. CASE removed
    <3>1. Shown(db) = Shown(e) \cup X /\ Shown(e) \cap X = {}
      BY <2>1, <1>6, <1>9, <1>10 DEF Shown
    <3>2. /\ Cardinality(Shown(db)) = Cardinality(Shown(e)) + Cardinality(X)
          /\ Cardinality(Shown(e)) \in Nat
      BY <3>1, <1>8, CountedSetsAreFinite, DisjointCount
    <3>. QED
      BY <2>0, <2>1, <3>2, <1>8, <1>11 DEF PostCounts, Delta
  <2>2. CASE ~removed
    <3>1. Shown(e) = Shown(db) \cup X /\ Shown(db) \cap X = {}
      BY <2>2, <1>6, <1>9, <1>10 DEF Shown
    <3>2. /\ Cardinality(Shown(e)) = Cardinality(Shown(db)) + Cardinality(X)
          /\ Cardinality(Shown(db)) \in Nat
      BY <3>1, <1>8, CountedSetsAreFinite, DisjointCount
    <3>. QED
      BY <2>0, <2>2, <3>2, <1>8, <1>11 DEF PostCounts, Delta
  <2>. QED
    BY <2>1, <2>2
<1>13. ASSUME NEW q \in Replies
       PROVE  KeepsChildren(db, b, q) /\ KeepsFeedback(db, b, q)
  <2>1. q # 0 /\ b[Reply(r)].root = 0
    BY <1>0, <1>1
  <2>2. KeepsChildren(db, b, q)
    BY <2>1, <1>0, <1>1, <1>3 DEF KeepsChildren
  <2>3. KeepsFeedback(db, b, q)
    BY <1>0, <1>1, <1>3 DEF KeepsFeedback
  <2>. QED
    BY <2>2, <2>3
<1>. QED
  BY <1>2, <1>3, <1>5, <1>12, <1>13 DEF ThreadStaysRight, e

(* A child that is removed or restored counts for its root, and for the    *)
(* post if the root is shown.                                              *)
LEMMA ChildRemovalRight ==
  ASSUME ThreadRight(db), NEW r \in RepliesIn(db), NEW removed \in BOOLEAN,
         db[Reply(r)].deleted # removed, NEW q \in Replies, db[Reply(r)].root = q,
         NEW shown \in BOOLEAN, shown <=> ~db[Reply(q)].deleted,
         NEW b, \A id : Has(b, id) <=> id \in {Reply(r), Reply(q)} \/ (shown /\ id = Post),
         b[Reply(r)] = [db[Reply(r)] EXCEPT !.deleted = removed],
         b[Reply(q)] = [db[Reply(q)] EXCEPT !.children = @ + Delta(removed)],
         shown => b[Post] = [replies |-> db[Post].replies + Delta(removed)]
  PROVE  /\ ThreadStaysRight(db, b)
         /\ \A id : Has(b, id) => ThreadId(id)
<1>. DEFINE e == Apply(db, b)
            old == db[Reply(r)]
            root == db[Reply(q)]
<1>0. /\ ThreadTyped(db) /\ 0 \notin Replies /\ r \in Replies /\ Has(db, Reply(r)) /\ q # 0
      /\ Has(db, Reply(q)) /\ root.root = 0 /\ q # r
      /\ old \in ReplyRecord /\ root \in ReplyRecord
  <2>1. ThreadTyped(db) /\ 0 \notin Replies /\ r \in Replies /\ Has(db, Reply(r)) /\ q # 0
    BY ThreadFacts DEF ThreadRight, RepliesIn
  <2>2. Has(db, Reply(q)) /\ root.root = 0 /\ old \in ReplyRecord
    BY <2>1 DEF ThreadTyped, RepliesTyped, Hangs, IsRoot
  <2>3. root \in ReplyRecord
    BY <2>1, <2>2 DEF ThreadTyped, RepliesTyped, RepliesIn
  <2>. QED
    BY <2>1, <2>2, <2>3
<1>1. /\ b[Reply(r)] \in ReplyRecord /\ b[Reply(r)].root = q /\ b[Reply(r)].deleted = removed
      /\ old.deleted <=> ~removed
      /\ b[Reply(r)].children = old.children
      /\ b[Reply(r)].positive = old.positive /\ b[Reply(r)].negative = old.negative
  <2>1. b[Reply(r)] = [old EXCEPT !.deleted = removed] /\ old.deleted # removed /\ old.root = q
    OBVIOUS
  <2>2. old \in ReplyRecord
    BY <1>0
  <2>. HIDE DEF old
  <2>. QED
    BY <2>1, <2>2 DEF ReplyRecord
<1>2. /\ b[Reply(q)] \in ReplyRecord /\ b[Reply(q)].root = 0
      /\ b[Reply(q)].deleted = root.deleted
      /\ b[Reply(q)].children = root.children + Delta(removed)
      /\ b[Reply(q)].positive = root.positive /\ b[Reply(q)].negative = root.negative
  <2>1. b[Reply(q)] = [root EXCEPT !.children = @ + Delta(removed)]
    OBVIOUS
  <2>2. root \in ReplyRecord /\ root.root = 0 /\ Delta(removed) \in Int
    BY <1>0 DEF Delta
  <2>. HIDE DEF root
  <2>. QED
    BY <2>1, <2>2 DEF ReplyRecord
<1>3. \A id : Has(b, id) => ThreadId(id)
  BY <1>0 DEF ThreadId
<1>4. /\ Has(b, Reply(r)) /\ Has(b, Reply(q)) /\ RepliesIn(b) = {r, q}
      /\ Has(b, Post) <=> shown
      /\ \A p \in Replies : Has(b, Reply(p)) <=> p = r \/ p = q
      /\ \A p \in Replies, x \in Agents : ~Has(b, Feedback(p, x))
  BY <1>0, ThreadIds DEF RepliesIn
<1>5. /\ \A id : Has(e, id) <=> Has(db, id) \/ Has(b, id)
      /\ \A id : Has(b, id) => e[id] = b[id]
      /\ \A id : Has(db, id) /\ ~Has(b, id) => e[id] = db[id]
  BY ApplyFacts
<1>. HIDE DEF e
<1>6. /\ RepliesIn(e) = RepliesIn(db) /\ (e[Reply(r)].deleted <=> removed)
      /\ \A p \in RepliesIn(db) : /\ e[Reply(p)].root = db[Reply(p)].root
                                  /\ p # r => e[Reply(p)].deleted = db[Reply(p)].deleted
  <2>1. RepliesIn(e) = RepliesIn(db)
    BY <1>0, <1>4, <1>5 DEF RepliesIn
  <2>2. e[Reply(r)] = b[Reply(r)] /\ e[Reply(q)] = b[Reply(q)]
    BY <1>4, <1>5
  <2>3. ASSUME NEW p \in RepliesIn(db)
        PROVE  /\ e[Reply(p)].root = db[Reply(p)].root
               /\ p # r => e[Reply(p)].deleted = db[Reply(p)].deleted
    <3>1. CASE p = r
      BY <3>1, <2>2, <1>1
    <3>2. CASE p = q
      BY <3>2, <2>2, <1>0, <1>2
    <3>3. CASE p # r /\ p # q
      BY <3>3, <1>4, <1>5 DEF RepliesIn
    <3>. QED
      BY <3>1, <3>2, <3>3
  <2>. QED
    BY <2>1, <2>2, <2>3, <1>1
<1>7. RepliesStayTyped(db, b) /\ FeedbackStaysTyped(db, b)
  BY <1>0, <1>1, <1>2, <1>4, ZenonT(40) DEF RepliesStayTyped, FeedbackStaysTyped, Exists
<1>8. KeepsShown(db, b) \/ (Has(b, Post) /\ PostCounts(e))
  <2>1. CASE ~shown
    <3>1. ASSUME NEW p \in RepliesIn(b)
          PROVE  /\ Has(db, Reply(p)) /\ b[Reply(p)].root = db[Reply(p)].root
                 /\ \/ b[Reply(p)].deleted = db[Reply(p)].deleted
                    \/ LET x == db[Reply(p)].root
                       IN  x # 0 /\ Has(b, Reply(x)) /\ db[Reply(x)].deleted
      <4>1. CASE p = r
        BY <4>1, <2>1, <1>0, <1>1, <1>4
      <4>2. CASE p = q
        BY <4>2, <1>0, <1>2
      <4>. QED
        BY <4>1, <4>2, <1>4
    <3>. QED
      BY <2>1, <3>1, <1>4 DEF KeepsShown
  <2>2. CASE shown
    <3>1. ASSUME NEW p \in RepliesIn(db), p # r
          PROVE  BranchVisible(e, p) <=> BranchVisible(db, p)
      <4>. DEFINE x == db[Reply(p)].root
      <4>1. x = 0 \/ (x \in RepliesIn(db) /\ x # r)
        BY <1>0 DEF ThreadTyped, RepliesTyped, Hangs, IsRoot, ReplyRecord, RepliesIn
      <4>. QED
        BY <4>1, <3>1, <1>6 DEF BranchVisible, IsRoot
    <3>2. /\ e[Reply(q)].deleted = db[Reply(q)].deleted /\ e[Reply(r)].root = q
          /\ ~db[Reply(q)].deleted
      BY <2>2, <1>0, <1>6 DEF RepliesIn
    <3>3. (BranchVisible(e, r) <=> ~removed) /\ (BranchVisible(db, r) <=> removed)
      BY <3>2, <1>1, <1>0, <1>6 DEF BranchVisible, IsRoot
    <3>4. Shown(db) \ {r} = Shown(e) \ {r}
      BY <3>1, <1>6 DEF Shown
    <3>. DEFINE S == Shown(db)
                T == Shown(e)
    <3>5. (r \in T <=> ~removed) /\ (r \in S <=> removed)
      BY <3>3, <1>6 DEF Shown
    <3>6. IsFiniteSet(S) /\ S \ {r} = T \ {r}
      BY <3>4, CountedSetsAreFinite
    <3>7. /\ e[Post].replies = db[Post].replies + Delta(removed)
          /\ db[Post].replies = Cardinality(S)
      BY <2>2, <1>4, <1>5 DEF ThreadRight, PostCounts
    <3>. HIDE DEF S, T
    <3>8. /\ Cardinality(S) \in Nat
          /\ Cardinality(T) = (Cardinality(S) + Takes01(r \in T)) - Takes01(r \in S)
      BY <3>6, DifferInOne
    <3>9. Cardinality(T) = Cardinality(S) + Delta(removed)
      BY <3>5, <3>8 DEF Takes01, Delta
    <3>. QED
      BY <2>2, <3>7, <3>9, <1>4 DEF PostCounts, T
  <2>. QED
    BY <2>1, <2>2
<1>9. RootCounts(e, q)
  <2>1. ASSUME NEW c, c # r PROVE c \in Kept(e, q) <=> c \in Kept(db, q)
    BY <2>1, <1>6 DEF Kept, ChildrenIn
  <2>2. (r \in Kept(e, q) <=> ~removed) /\ (r \in Kept(db, q) <=> removed)
    BY <1>1, <1>6 DEF Kept, ChildrenIn
  <2>3. /\ e[Reply(q)].children = db[Reply(q)].children + Delta(removed)
        /\ db[Reply(q)].children = Cardinality(Kept(db, q))
    BY <1>0, <1>2, <1>4, <1>5 DEF ThreadRight, RootCounts
  <2>. DEFINE S == Kept(db, q)
              T == Kept(e, q)
  <2>4. IsFiniteSet(S) /\ S \ {r} = T \ {r}
    BY <2>1, CountedSetsAreFinite
  <2>5. (r \in T <=> ~removed) /\ (r \in S <=> removed)
    BY <2>2
  <2>. HIDE DEF S, T
  <2>6. /\ Cardinality(S) \in Nat
        /\ Cardinality(T) = (Cardinality(S) + Takes01(r \in T)) - Takes01(r \in S)
    BY <2>4, DifferInOne
  <2>7. Cardinality(T) = Cardinality(S) + Delta(removed)
    BY <2>5, <2>6 DEF Takes01, Delta
  <2>. QED
    BY <2>3, <2>7 DEF RootCounts, S, T
<1>10. ASSUME NEW p \in Replies, p # q PROVE KeepsChildren(db, b, p)
  <2>1. p # 0
    BY <1>0
  <2>. QED
    BY <2>1, <1>10, <1>0, <1>1, <1>2, <1>4 DEF KeepsChildren
<1>11. ASSUME NEW p \in Replies PROVE KeepsFeedback(db, b, p)
  BY <1>0, <1>1, <1>2, <1>4 DEF KeepsFeedback
<1>. QED
  BY <1>3, <1>4, <1>7, <1>8, <1>9, <1>10, <1>11 DEF ThreadStaysRight, e

LEMMA CountVisibilityRight ==
  ASSUME ThreadRight(db), NEW r \in RepliesIn(db), NEW removed \in BOOLEAN,
         db[Reply(r)].deleted # removed
  PROVE  LET w == Put(Reply(r), [db[Reply(r)] EXCEPT !.deleted = removed])
             b == CountVisibility(w, r, Delta(removed))
         IN  /\ ThreadStaysRight(db, b) /\ \A id : Has(b, id) => ThreadId(id)
             /\ Has(b, Reply(r)) /\ b[Reply(r)] = [db[Reply(r)] EXCEPT !.deleted = removed]
<1>. DEFINE new == [db[Reply(r)] EXCEPT !.deleted = removed]
            w == Put(Reply(r), new)
            b == CountVisibility(w, r, Delta(removed))
            q == db[Reply(r)].root
            n == db[Post].replies
            root == Seen(w)[Reply(q)]
            child == [root EXCEPT !.children = @ + Delta(removed)]
            counted == Apply(w, Put(Reply(q), child))
<1>1. /\ \A id : Has(w, id) <=> id = Reply(r)
      /\ w[Reply(r)] = new
  BY OneDocument
<1>2. /\ r \in Replies /\ Has(db, Reply(r)) /\ q \in {0} \cup Replies
      /\ q # 0 => Has(db, Reply(q)) /\ q # r
  <2>1. r \in Replies /\ Has(db, Reply(r)) /\ 0 \notin Replies
    BY ThreadFacts DEF RepliesIn
  <2>2. db[Reply(r)] \in ReplyRecord /\ Hangs(db, r)
    BY DEF ThreadRight, ThreadTyped, RepliesTyped
  <2>. QED
    BY <2>1, <2>2 DEF Hangs, IsRoot, ReplyRecord
<1>3. q # 0 => root = db[Reply(q)]
  BY <1>1, <1>2, ApplyFacts, ThreadIds DEF Seen
<1>4. CASE q = 0
  <2>. DEFINE m == n + Delta(removed) * (1 + db[Reply(r)].children)
  <2>1. b = Apply(w, Put(Post, [replies |-> m]))
    BY <1>4 DEF CountVisibility, PostCount, IsRoot
  <2>. HIDE DEF w, b, new, m
  <2>2. /\ \A id : Has(b, id) <=> id \in {Reply(r), Post}
        /\ b[Reply(r)] = new /\ b[Post] = [replies |-> m]
    BY <2>1, <1>1, OneDocument, ApplyFacts, ThreadIds
  <2>3. ThreadStaysRight(db, b) /\ \A id : Has(b, id) => ThreadId(id)
    BY <2>2, <1>4, RootRemovalRight DEF IsRoot, new, m
  <2>. QED
    BY <2>2, <2>3 DEF b, w, new
<1>5. CASE q # 0 /\ root.deleted
  <2>1. b = counted
    BY <1>5 DEF CountVisibility, IsRoot
  <2>2. child = [db[Reply(q)] EXCEPT !.children = @ + Delta(removed)]
    BY <1>3, <1>5
  <2>. HIDE DEF w, b, new, child
  <2>3. /\ \A id : Has(b, id) <=> id \in {Reply(r), Reply(q)} \/ (FALSE /\ id = Post)
        /\ b[Reply(r)] = new /\ b[Reply(q)] = child
    BY <2>1, <1>1, <1>2, <1>5, OneDocument, ApplyFacts, ThreadIds
  <2>. DEFINE shown == FALSE
  <2>4. shown <=> ~db[Reply(q)].deleted
    BY <1>3, <1>5
  <2>5. q \in Replies /\ shown \in BOOLEAN
    BY <1>2, <1>5
  <2>6. shown => b[Post] = [replies |-> n + Delta(removed)]
    OBVIOUS
  <2>7. \A id : Has(b, id) <=> id \in {Reply(r), Reply(q)} \/ (shown /\ id = Post)
    BY <2>3
  <2>. HIDE DEF shown
  <2>8. ThreadStaysRight(db, b) /\ \A id : Has(b, id) => ThreadId(id)
    BY <1>1, <2>2, <2>3, <2>4, <2>5, <2>6, <2>7, ChildRemovalRight DEF new
  <2>. QED
    BY <2>3, <2>8 DEF b, w, new
<1>6. CASE q # 0 /\ ~root.deleted
  <2>1. b = Apply(counted, Put(Post, [replies |-> n + Delta(removed)]))
    BY <1>6 DEF CountVisibility, PostCount, IsRoot
  <2>2. child = [db[Reply(q)] EXCEPT !.children = @ + Delta(removed)]
    BY <1>3, <1>6
  <2>. HIDE DEF w, b, new, child
  <2>3. /\ \A id : Has(counted, id) <=> id \in {Reply(r), Reply(q)}
        /\ counted[Reply(r)] = new /\ counted[Reply(q)] = child
    BY <1>1, <1>2, <1>6, OneDocument, ApplyFacts, ThreadIds
  <2>. HIDE DEF counted
  <2>4. /\ \A id : Has(b, id) <=> id \in {Reply(r), Reply(q)} \/ (TRUE /\ id = Post)
        /\ b[Reply(r)] = new /\ b[Reply(q)] = child
        /\ b[Post] = [replies |-> n + Delta(removed)]
    BY <2>1, <2>3, OneDocument, ApplyFacts, ThreadIds
  <2>. DEFINE shown == TRUE
  <2>5. shown <=> ~db[Reply(q)].deleted
    BY <1>3, <1>6
  <2>6. q \in Replies /\ shown \in BOOLEAN
    BY <1>2, <1>6
  <2>7. shown => b[Post] = [replies |-> n + Delta(removed)]
    BY <2>4
  <2>8. \A id : Has(b, id) <=> id \in {Reply(r), Reply(q)} \/ (shown /\ id = Post)
    BY <2>4
  <2>. HIDE DEF shown
  <2>9. ThreadStaysRight(db, b) /\ \A id : Has(b, id) => ThreadId(id)
    BY <1>1, <2>2, <2>4, <2>5, <2>6, <2>7, <2>8, ChildRemovalRight DEF new
  <2>. QED
    BY <2>4, <2>9 DEF b, w, new
<1>. QED
  BY <1>4, <1>5, <1>6

LEMMA SetRemovedRight ==
  ASSUME ThreadRight(db), NEW s, NEW r \in Replies, NEW removed \in BOOLEAN,
         SetRemoved(s, r, removed)
  PROVE  \E w : UserActs(s, w) /\ StaysRight(db, w) /\ SignalsWork(db, w)
<1>. DEFINE new == [db[Reply(r)] EXCEPT !.deleted = removed]
            b == CountVisibility(Put(Reply(r), new), r, Delta(removed))
            author == Seen(b)[Reply(r)].author
            active == BranchVisible(Seen(b), r) /\ author # Author
            first == WithReplyItem(b, r)
            second == WithFanouts(first, r)
            w == Signalled(second)
<1>1. /\ r \in RepliesIn(db) /\ db[Reply(r)].deleted # removed
      /\ UserActs(s, w)
  BY DEF SetRemoved, HotVisibilityChanged, Delta
<1>2. /\ ThreadStaysRight(db, b) /\ \A id : Has(b, id) => ThreadId(id)
      /\ Has(b, Reply(r)) /\ b[Reply(r)] = new
  BY <1>1, CountVisibilityRight
<1>. HIDE DEF b
<1>3. /\ KeepsAndSignals(b) /\ ItemsTyped(b) /\ ~DirtyWork(b) /\ ~Has(b, HotState)
      /\ \A x : ~Has(b, Item(x))
  BY <1>2, ThreadAlone
<1>4. author \in Agents
  <2>1. Seen(b)[Reply(r)] = new
    BY <1>2, ApplyFacts DEF Seen
  <2>2. db[Reply(r)] \in ReplyRecord
    BY <1>1 DEF ThreadRight, ThreadTyped, RepliesTyped
  <2>. QED
    BY <2>1, <2>2 DEF ReplyRecord
<1>5. first = WithItem(b, <<"reply", r>>, author, active, TRUE)
  BY DEF WithReplyItem
<1>6. <<"reply", r>> \in Sources /\ active \in BOOLEAN /\ TRUE \in BOOLEAN
  BY DEF Sources
<1>7. ThreadTyped(db)
  BY DEF ThreadRight
<1>. HIDE DEF author, active
<1>8. KeepsAndSignals(first) /\ SameThread(b, first)
  BY <1>3, <1>4, <1>5, <1>6, <1>7, WithItemSignals
<1>. HIDE DEF first
<1>9. KeepsAndSignals(second) /\ SameThread(b, second)
  BY <1>8, FanoutsKeep, SameThreadTransitive
<1>. HIDE DEF second
<1>10. KeepsAndSignals(w) /\ SameThread(b, w) /\ Has(w, HotState)
  BY <1>7, <1>9, SignalledSignals, SameThreadTransitive
<1>. HIDE DEF w
<1>11. StaysRight(db, w) /\ SignalsWork(db, w)
  BY <1>2, <1>3, <1>7, <1>10, UserWritesRight
<1>. QED
  BY <1>1, <1>11

(* Whatever a user does.                                                   *)
LEMMA UserStepRight ==
  ASSUME ThreadRight(db), NEW s, UserStep(s)
  PROVE  \E w : UserActs(s, w) /\ StaysRight(db, w) /\ SignalsWork(db, w)
BY CreateReplyRight, SetRemovedRight, GiveFeedbackRight DEF UserStep

-----------------------------------------------------------------------------
(* WHAT THE PROJECTION WRITES                                              *)

LEMMA WorkIds ==
  \A s : /\ ~ThreadId(Item(s)) /\ ~ThreadId(Branch(s)) /\ ~ThreadId(Fanout(s))
         /\ Item(s) # HotState /\ Branch(s) # HotState /\ Fanout(s) # HotState
BY ThreadIdsApart DEF Item, Branch, Fanout, HotState

(* Expanding a fan-out keeps what is counted.                              *)
LEMMA ExpansionRight ==
  ASSUME ThreadTyped(db), NEW w,
         \A id : Has(w, id) => ~ThreadId(id) /\ id # HotState,
         \A s \in Sources : Has(w, Item(s)) =>
           /\ w[Item(s)] \in ItemRecord
           /\ w[Item(s)].counted <=> IsCounted(db, s)
           /\ IsCounted(db, s) => w[Item(s)].owner = db[Item(s)].owner,
         \E id \in DirtyDocs(db) : Has(w, id)
  PROVE  StaysRight(db, w) /\ DoesWork(db, w)
<1>1. /\ ~Has(w, Post) /\ ~Has(w, HotState) /\ RepliesIn(w) = {}
      /\ \A r \in Replies : ~Has(w, Reply(r)) /\ \A a \in Agents : ~Has(w, Feedback(r, a))
  BY ThreadIdsApart DEF RepliesIn
<1>2. StaysTyped(db, w)
  BY <1>1 DEF StaysTyped, RepliesStayTyped, FeedbackStaysTyped, ItemsTyped, Items, Exists
<1>3. KeepsShown(db, w)
  BY <1>1 DEF KeepsShown
<1>4. KeepsHot(db, w)
  <2>1. ASSUME NEW s \in Sources, Has(w, Item(s)) PROVE w[Item(s)] # Gone
    BY <2>1 DEF ItemRecord, Gone
  <2>2. KeepsCounted(db, w)
    BY <2>1 DEF KeepsCounted, IsCounted, Exists
  <2>. QED
    BY <2>2, <1>1 DEF KeepsHot
<1>5. \A r \in Replies : KeepsChildren(db, w, r) /\ KeepsFeedback(db, w, r)
  BY <1>1 DEF KeepsChildren, KeepsFeedback
<1>. QED
  BY <1>1, <1>2, <1>3, <1>4, <1>5 DEF StaysRight, DoesWork

LEMMA SyncedItemKeeps ==
  ASSUME ThreadTyped(db), NEW c \in RepliesIn(db), NEW id, Has(SyncedItem(db, c), id)
  PROVE  LET s   == <<"reply", c>>
             new == SyncedItem(db, c)[id]
         IN  /\ id = Item(s) /\ s \in Sources /\ new \in ItemRecord
             /\ new.counted <=> IsCounted(db, s)
             /\ IsCounted(db, s) => new.owner = db[Item(s)].owner
<1>. DEFINE s == <<"reply", c>>
            active == BranchVisible(db, c) /\ db[Reply(c)].author # Author
            old == db[Item(s)]
<1>1. s \in Sources /\ db[Reply(c)].author \in Agents
  BY DEF Sources, RepliesIn, ThreadTyped, RepliesTyped, ReplyRecord
<1>2. active \in BOOLEAN
  OBVIOUS
<1>3. CASE ~Exists(db, Item(s)) /\ active
  <2>1. SyncedItem(db, c) = Put(Item(s), NewItem(db[Reply(c)].author))
    BY <1>3 DEF SyncedItem
  <2>2. id = Item(s) /\ SyncedItem(db, c)[id] = NewItem(db[Reply(c)].author)
    BY <2>1, OneDocument
  <2>. QED
    BY <2>2, <1>1, <1>3 DEF NewItem, ItemRecord, IsCounted
<1>4. CASE ~Exists(db, Item(s)) /\ ~active
  <2>1. SyncedItem(db, c) = <<>>
    BY <1>4 DEF SyncedItem
  <2>. QED
    BY <2>1, NoDocument
<1>5. CASE Exists(db, Item(s)) /\ old.active = active
  <2>1. SyncedItem(db, c) = <<>>
    BY <1>5 DEF SyncedItem
  <2>. QED
    BY <2>1, NoDocument
<1>6. CASE Exists(db, Item(s)) /\ old.active # active
  <2>. DEFINE new == [old EXCEPT !.active = active, !.dirty = TRUE]
  <2>1. SyncedItem(db, c) = Put(Item(s), new)
    BY <1>6 DEF SyncedItem
  <2>2. id = Item(s) /\ SyncedItem(db, c)[id] = new
    BY <2>1, OneDocument
  <2>3. old \in ItemRecord /\ (IsCounted(db, s) <=> old.counted)
    BY <1>1, <1>6 DEF ThreadTyped, ItemsTyped, Items, IsCounted
  <2>. HIDE DEF active, old
  <2>4. new \in ItemRecord /\ new.counted = old.counted /\ new.owner = old.owner
    BY <2>3, <1>2 DEF ItemRecord
  <2>. HIDE DEF new
  <2>. QED
    BY <2>2, <2>3, <2>4, <1>1 DEF old
<1>. QED
  BY <1>3, <1>4, <1>5, <1>6

LEMMA ExpandBranchRight ==
  ASSUME ThreadRight(db), ExpandBranch
  PROVE  \/ \E w : /\ OpenTxn(Projector, w) /\ StaysRight(db, w) /\ DoesWork(db, w)
                   /\ UNCHANGED projecting
         \/ PassTo("fanout", 0) /\ UNCHANGED <<db, txn>>
<1>0. ThreadTyped(db)
  BY DEF ThreadRight
<1>1. CASE DirtyBranches(db) = {} /\ PassTo("fanout", 0) /\ UNCHANGED <<db, txn>>
  BY <1>1
<1>2. CASE \E r \in DirtyBranches(db) :
             LET page == Page(ChildrenIn(db, r), db[Branch(r)].cursor)
                 synced == Merged([c \in page |-> SyncedItem(db, c)])
                 liked == {c \in page : db[Reply(c)].positive > 0}
             IN  /\ r = Min(DirtyBranches(db))
                 /\ OpenTxn(Projector,
                      Apply(Apply(synced, [id \in {Fanout(c) : c \in liked} |-> NewFanout]),
                            Put(Branch(r), Advanced(db[Branch(r)], ChildrenIn(db, r)))))
                 /\ UNCHANGED projecting
  <2>1. PICK r \in DirtyBranches(db) :
             LET page == Page(ChildrenIn(db, r), db[Branch(r)].cursor)
                 synced == Merged([c \in page |-> SyncedItem(db, c)])
                 liked == {c \in page : db[Reply(c)].positive > 0}
             IN  /\ OpenTxn(Projector,
                      Apply(Apply(synced, [id \in {Fanout(c) : c \in liked} |-> NewFanout]),
                            Put(Branch(r), Advanced(db[Branch(r)], ChildrenIn(db, r)))))
                 /\ UNCHANGED projecting
    BY <1>2
  <2>. DEFINE page == Page(ChildrenIn(db, r), db[Branch(r)].cursor)
              writes == [c \in page |-> SyncedItem(db, c)]
              synced == Merged(writes)
              fanouts == [id \in {Fanout(c) : c \in {x \in page : db[Reply(x)].positive > 0}}
                            |-> NewFanout]
              branch == Put(Branch(r), Advanced(db[Branch(r)], ChildrenIn(db, r)))
              w == Apply(Apply(synced, fanouts), branch)
  <2>2. OpenTxn(Projector, w) /\ UNCHANGED projecting
    BY <2>1
  <2>3. \A id : Has(synced, id) =>
          \E c \in page : Has(SyncedItem(db, c), id) /\ synced[id] = SyncedItem(db, c)[id]
    BY DEF Merged, Has
  <2>4. page \subseteq RepliesIn(db)
    BY DEF Page, ChildrenIn
  <2>5. /\ \A id : Has(fanouts, id) => \E c : id = Fanout(c)
        /\ \A id : Has(branch, id) <=> id = Branch(r)
    BY OneDocument DEF Has
  <2>. HIDE DEF synced, fanouts, branch, page
  <2>6. /\ \A id : Has(w, id) <=> Has(synced, id) \/ Has(fanouts, id) \/ Has(branch, id)
        /\ \A s : Has(w, Item(s)) => Has(synced, Item(s)) /\ w[Item(s)] = synced[Item(s)]
    BY <2>5, ApplyFacts, ThreadIds
  <2>. HIDE DEF w
  <2>7. ASSUME NEW id, Has(synced, id)
        PROVE  \E c \in RepliesIn(db) :
                 LET s == <<"reply", c>>
                 IN  /\ id = Item(s) /\ s \in Sources /\ synced[id] \in ItemRecord
                     /\ synced[id].counted <=> IsCounted(db, s)
                     /\ IsCounted(db, s) => synced[id].owner = db[Item(s)].owner
    <3>1. PICK c \in page : Has(SyncedItem(db, c), id) /\ synced[id] = SyncedItem(db, c)[id]
      BY <2>3, <2>7
    <3>. QED
      BY <3>1, <2>4, <1>0, SyncedItemKeeps
  <2>8. ASSUME NEW id, Has(w, id)
        PROVE  ~ThreadId(id) /\ id # HotState
    <3>1. Has(synced, id) \/ Has(fanouts, id) \/ Has(branch, id)
      BY <2>6, <2>8
    <3>2. CASE Has(synced, id)
      <4>1. PICK c \in RepliesIn(db) : id = Item(<<"reply", c>>)
        BY <2>7, <3>2
      <4>. QED
        BY <4>1, WorkIds
    <3>3. CASE Has(fanouts, id)
      <4>1. PICK c : id = Fanout(c)
        BY <2>5, <3>3
      <4>. QED
        BY <4>1, WorkIds
    <3>4. CASE Has(branch, id)
      <4>1. id = Branch(r)
        BY <2>5, <3>4
      <4>. QED
        BY <4>1, WorkIds
    <3>. QED
      BY <3>1, <3>2, <3>3, <3>4
  <2>9. \A s \in Sources : Has(w, Item(s)) =>
          /\ w[Item(s)] \in ItemRecord
          /\ w[Item(s)].counted <=> IsCounted(db, s)
          /\ IsCounted(db, s) => w[Item(s)].owner = db[Item(s)].owner
    BY <2>6, <2>7, ThreadIds
  <2>10. Branch(r) \in DirtyDocs(db) /\ Has(w, Branch(r))
    BY <2>5, <2>6 DEF DirtyDocs
  <2>. QED
    BY <2>2, <2>8, <2>9, <2>10, <1>0, ExpansionRight
<1>. QED
  BY <1>1, <1>2 DEF ExpandBranch

LEMMA FanoutItemKeeps ==
  ASSUME ThreadTyped(db), NEW r, NEW n \in Positive(r)
  PROVE  LET s   == <<"feedback", n>>
             new == FanoutItem(r, n)
         IN  s \in Sources => /\ new \in ItemRecord
                              /\ new.counted <=> IsCounted(db, s)
                              /\ IsCounted(db, s) => new.owner = db[Item(s)].owner
<1>. DEFINE s == <<"feedback", n>>
            active == BranchVisible(db, r) /\ Giver(r, n) # Author
            old == db[Item(s)]
<1>1. Giver(r, n) \in Agents
  BY DEF Positive, Giver, FeedbackIn
<1>2. active \in BOOLEAN
  OBVIOUS
<1>3. CASE ~Exists(db, Item(s))
  <2>1. FanoutItem(r, n) = [NewItem(Giver(r, n)) EXCEPT !.active = active]
    BY <1>3 DEF FanoutItem
  <2>. HIDE DEF active
  <2>. QED
    BY <2>1, <1>1, <1>2, <1>3 DEF NewItem, ItemRecord, IsCounted
<1>4. CASE Exists(db, Item(s))
  <2>. DEFINE new == [old EXCEPT !.active = active, !.source = TRUE, !.dirty = TRUE]
  <2>. SUFFICES ASSUME s \in Sources
                PROVE  LET x == FanoutItem(r, n)
                       IN  /\ x \in ItemRecord
                           /\ x.counted <=> IsCounted(db, s)
                           /\ IsCounted(db, s) => x.owner = db[Item(s)].owner
    OBVIOUS
  <2>1. FanoutItem(r, n) = new
    BY <1>4 DEF FanoutItem
  <2>2. old \in ItemRecord /\ (IsCounted(db, s) <=> old.counted)
    BY <1>4 DEF ThreadTyped, ItemsTyped, Items, IsCounted
  <2>. HIDE DEF active, old
  <2>3. new \in ItemRecord /\ new.counted = old.counted /\ new.owner = old.owner
    BY <2>2, <1>2 DEF ItemRecord
  <2>. HIDE DEF new
  <2>. QED
    BY <2>1, <2>2, <2>3 DEF old
<1>. QED
  BY <1>3, <1>4

LEMMA ExpandFanoutRight ==
  ASSUME ThreadRight(db), ExpandFanout
  PROVE  \/ \E w : /\ OpenTxn(Projector, w) /\ StaysRight(db, w) /\ DoesWork(db, w)
                   /\ UNCHANGED projecting
         \/ PassTo("items", 0) /\ UNCHANGED <<db, txn>>
<1>0. ThreadTyped(db)
  BY DEF ThreadRight
<1>1. CASE PassTo("items", 0) /\ UNCHANGED <<db, txn>>
  BY <1>1
<1>2. CASE \E r \in DirtyFanouts(db) :
             LET page == Page(Positive(r), db[Fanout(r)].cursor)
             IN  /\ OpenTxn(Projector,
                      Apply([id \in {Item(<<"feedback", n>>) : n \in page} |->
                               FanoutItem(r, id[2][2])],
                            Put(Fanout(r), Advanced(db[Fanout(r)], Positive(r)))))
                 /\ UNCHANGED projecting
  <2>1. PICK r \in DirtyFanouts(db) :
             LET page == Page(Positive(r), db[Fanout(r)].cursor)
             IN  /\ OpenTxn(Projector,
                      Apply([id \in {Item(<<"feedback", n>>) : n \in page} |->
                               FanoutItem(r, id[2][2])],
                            Put(Fanout(r), Advanced(db[Fanout(r)], Positive(r)))))
                 /\ UNCHANGED projecting
    BY <1>2
  <2>. DEFINE page == Page(Positive(r), db[Fanout(r)].cursor)
              items == [id \in {Item(<<"feedback", n>>) : n \in page} |-> FanoutItem(r, id[2][2])]
              fanout == Put(Fanout(r), Advanced(db[Fanout(r)], Positive(r)))
              w == Apply(items, fanout)
  <2>2. OpenTxn(Projector, w) /\ UNCHANGED projecting
    BY <2>1
  <2>3. page \subseteq Positive(r)
    BY DEF Page
  <2>4. ASSUME NEW id, Has(items, id)
        PROVE  \E n \in page : id = Item(<<"feedback", n>>) /\ items[id] = FanoutItem(r, n)
    <3>1. PICK n \in page : id = Item(<<"feedback", n>>)
      BY <2>4 DEF Has
    <3>2. id[2][2] = n
      BY <3>1 DEF Item
    <3>. QED
      BY <3>1, <3>2
  <2>5. \A id : Has(fanout, id) <=> id = Fanout(r)
    BY OneDocument
  <2>. HIDE DEF items, fanout, page
  <2>6. /\ \A id : Has(w, id) <=> Has(items, id) \/ Has(fanout, id)
        /\ \A s : Has(w, Item(s)) => Has(items, Item(s)) /\ w[Item(s)] = items[Item(s)]
    BY <2>5, ApplyFacts, ThreadIds
  <2>. HIDE DEF w
  <2>7. ASSUME NEW id, Has(w, id)
        PROVE  ~ThreadId(id) /\ id # HotState
    <3>1. CASE Has(items, id)
      <4>1. PICK n \in page : id = Item(<<"feedback", n>>)
        BY <2>4, <3>1
      <4>. QED
        BY <4>1, WorkIds
    <3>2. CASE Has(fanout, id)
      <4>1. id = Fanout(r)
        BY <2>5, <3>2
      <4>. QED
        BY <4>1, WorkIds
    <3>. QED
      BY <2>6, <2>7, <3>1, <3>2
  <2>8. ASSUME NEW s \in Sources, Has(w, Item(s))
        PROVE  /\ w[Item(s)] \in ItemRecord
               /\ w[Item(s)].counted <=> IsCounted(db, s)
               /\ IsCounted(db, s) => w[Item(s)].owner = db[Item(s)].owner
    <3>1. PICK n \in page : Item(s) = Item(<<"feedback", n>>) /\ items[Item(s)] = FanoutItem(r, n)
      BY <2>4, <2>6, <2>8
    <3>2. s = <<"feedback", n>> /\ n \in Positive(r) /\ w[Item(s)] = FanoutItem(r, n)
      BY <3>1, <2>3, <2>6, <2>8, ThreadIds
    <3>. QED
      BY <3>2, <1>0, FanoutItemKeeps
  <2>9. Fanout(r) \in DirtyDocs(db) /\ Has(w, Fanout(r))
    BY <2>5, <2>6 DEF DirtyDocs
  <2>. QED
    BY <2>2, <2>7, <2>8, <2>9, <1>0, ExpansionRight
<1>. QED
  BY <1>1, <1>2 DEF ExpandFanout

(* A set is not empty if it has more than no elements.                     *)
LEMMA CountIsPositive ==
  ASSUME NEW S, IsFiniteSet(S)
  PROVE  Cardinality(S) \in Nat /\ (Cardinality(S) > 0 <=> S # {})
BY FS_CardinalityType, FS_EmptySet

(* When only items of one owner are counted anew, the numbers change by    *)
(* what Recounted adds and subtracts.                                      *)
LEMMA OwnerRecounted ==
  ASSUME NEW d, NEW e, NEW o \in Agents,
         \A s \in Sources :
           \/ /\ IsCounted(e, s) <=> IsCounted(d, s)
              /\ IsCounted(d, s) => e[Item(s)].owner = d[Item(s)].owner
           \/ /\ IsCounted(d, s) => d[Item(s)].owner = o
              /\ IsCounted(e, s) => e[Item(s)].owner = o
  PROVE  LET m == Cardinality(CountedFor(d, o, "reply"))
             f == Cardinality(CountedFor(d, o, "feedback"))
             n == Cardinality(CountedFor(e, o, "reply"))
             g == Cardinality(CountedFor(e, o, "feedback"))
         IN  /\ m \in Nat /\ f \in Nat /\ n \in Nat /\ g \in Nat
             /\ Cardinality(Participants(e)) =
                  (Cardinality(Participants(d)) + Takes01(n + g > 0)) - Takes01(m + f > 0)
             /\ Cardinality(Supporters(e)) =
                  (Cardinality(Supporters(d)) + Takes01(g > 0)) - Takes01(f > 0)
             /\ Cardinality(CountedReplies(e)) = (Cardinality(CountedReplies(d)) + n) - m
<1>. DEFINE m == Cardinality(CountedFor(d, o, "reply"))
            f == Cardinality(CountedFor(d, o, "feedback"))
            n == Cardinality(CountedFor(e, o, "reply"))
            g == Cardinality(CountedFor(e, o, "feedback"))
            Rest(x) == {s \in CountedReplies(x) : x[Item(s)].owner # o}
<1>1. /\ m \in Nat /\ (m > 0 <=> CountedFor(d, o, "reply") # {})
      /\ f \in Nat /\ (f > 0 <=> CountedFor(d, o, "feedback") # {})
      /\ n \in Nat /\ (n > 0 <=> CountedFor(e, o, "reply") # {})
      /\ g \in Nat /\ (g > 0 <=> CountedFor(e, o, "feedback") # {})
  BY CountedSetsAreFinite, CountIsPositive
<1>2. \A a : a # o => \A type : CountedFor(e, a, type) = CountedFor(d, a, type)
  BY DEF CountedFor
<1>3. /\ Participants(d) \ {o} = Participants(e) \ {o}
      /\ Supporters(d) \ {o} = Supporters(e) \ {o}
  BY <1>2 DEF Participants, Supporters
<1>4. /\ o \in Supporters(d) <=> f > 0
      /\ o \in Supporters(e) <=> g > 0
  BY <1>1 DEF Supporters
<1>. HIDE DEF m, f, n, g
<1>5. /\ o \in Participants(d) <=> m + f > 0
      /\ o \in Participants(e) <=> n + g > 0
  <2>1. /\ m + f > 0 <=> m > 0 \/ f > 0
        /\ n + g > 0 <=> n > 0 \/ g > 0
    BY <1>1
  <2>. QED
    BY <2>1, <1>1 DEF Participants
<1>6. Cardinality(Participants(e)) =
        (Cardinality(Participants(d)) + Takes01(n + g > 0)) - Takes01(m + f > 0)
  <2>1. Cardinality(Participants(e)) =
          (Cardinality(Participants(d)) + Takes01(o \in Participants(e)))
            - Takes01(o \in Participants(d))
    BY <1>3, CountedSetsAreFinite, DifferInOne
  <2>. QED
    BY <2>1, <1>5 DEF Takes01
<1>7. Cardinality(Supporters(e)) =
        (Cardinality(Supporters(d)) + Takes01(g > 0)) - Takes01(f > 0)
  <2>1. Cardinality(Supporters(e)) =
          (Cardinality(Supporters(d)) + Takes01(o \in Supporters(e)))
            - Takes01(o \in Supporters(d))
    BY <1>3, CountedSetsAreFinite, DifferInOne
  <2>. QED
    BY <2>1, <1>4 DEF Takes01
<1>8. Rest(e) = Rest(d)
  BY DEF CountedReplies
<1>9. ASSUME NEW x
      PROVE  Cardinality(CountedReplies(x)) =
               Cardinality(CountedFor(x, o, "reply")) + Cardinality(Rest(x))
             /\ Cardinality(Rest(x)) \in Nat
  <2>1. /\ CountedReplies(x) = CountedFor(x, o, "reply") \cup Rest(x)
        /\ CountedFor(x, o, "reply") \cap Rest(x) = {}
    BY DEF CountedReplies, CountedFor
  <2>2. IsFiniteSet(CountedFor(x, o, "reply")) /\ IsFiniteSet(Rest(x))
    BY CountedSetsAreFinite, FS_Subset
  <2>. HIDE DEF Rest
  <2>. QED
    BY <2>1, <2>2, DisjointCount
<1>. HIDE DEF Rest
<1>10. Cardinality(CountedReplies(e)) = (Cardinality(CountedReplies(d)) + n) - m
  <2>1. Cardinality(CountedReplies(e)) = n + Cardinality(Rest(d))
    BY <1>8, <1>9 DEF n
  <2>2. Cardinality(CountedReplies(d)) = m + Cardinality(Rest(d)) /\ Cardinality(Rest(d)) \in Nat
    BY <1>9 DEF m
  <2>. QED
    BY <2>1, <2>2, <1>1
<1>. QED
  BY <1>1, <1>6, <1>7, <1>10 DEF m, f, n, g

LEMMA CountedIs ==
  ASSUME NEW d, NEW o, NEW type
  PROVE  Counted(d, o, type) = Cardinality(CountedFor(d, o, type))
<1>1. {s \in Items(d) : s[1] = type /\ d[Item(s)].owner = o /\ d[Item(s)].counted}
        = CountedFor(d, o, type)
  BY DEF Items, CountedFor, IsCounted
<1>. QED
  BY <1>1 DEF Counted

(* Applying an item counts what it says and adds the difference.           *)
LEMMA ItemAppliedRight ==
  ASSUME ThreadRight(db), NEW source \in DirtyItems(db), NEW new,
         LET item == db[Item(source)]
         IN  new = Gone \/ new = [item EXCEPT !.counted = item.active, !.dirty = FALSE]
  PROVE  LET o == db[Item(source)].owner
             w == Put(Item(source), new)
             N(d, type) == Counted(d, o, type)
             v == Apply(w, Put(HotState, Recounted(db[HotState], N(db, "reply"),
                    N(db, "feedback"), N(Seen(w), "reply"), N(Seen(w), "feedback"))))
         IN  StaysRight(db, v) /\ DoesWork(db, v)
<1>. DEFINE item == db[Item(source)]
            o == item.owner
            w == Put(Item(source), new)
            e == Apply(db, w)
            m == Cardinality(CountedFor(db, o, "reply"))
            f == Cardinality(CountedFor(db, o, "feedback"))
            n == Cardinality(CountedFor(e, o, "reply"))
            g == Cardinality(CountedFor(e, o, "feedback"))
            state == Recounted(db[HotState], m, f, n, g)
            c == Put(HotState, state)
            v == Apply(w, c)
            h == Apply(db, v)
<1>1. ThreadTyped(db) /\ StateCounts(db) /\ StateTyped(db)
  BY DEF ThreadRight, ThreadTyped
<1>2. source \in Sources /\ Exists(db, Item(source)) /\ item \in ItemRecord
  BY <1>1 DEF DirtyItems, Items, ThreadTyped, ItemsTyped
<1>3. o \in Agents
  BY <1>2 DEF ItemRecord
<1>4. new = Gone \/ (new \in ItemRecord /\ new.owner = o)
  <2>. HIDE DEF item
  <2>1. [item EXCEPT !.counted = item.active, !.dirty = FALSE] \in ItemRecord
    BY <1>2 DEF ItemRecord
  <2>2. [item EXCEPT !.counted = item.active, !.dirty = FALSE].owner = item.owner
    BY <1>2 DEF ItemRecord
  <2>. QED
    BY <2>1, <2>2 DEF item
<1>5. /\ \A id : Has(w, id) <=> id = Item(source)
      /\ w[Item(source)] = new
      /\ \A id : Has(c, id) <=> id = HotState
      /\ c[HotState] = state
  BY OneDocument
<1>6. /\ Has(e, Item(source)) /\ e[Item(source)] = new
      /\ \A s : s # source => /\ Has(e, Item(s)) <=> Has(db, Item(s))
                              /\ Has(db, Item(s)) => e[Item(s)] = db[Item(s)]
  BY <1>5, ApplyFacts, ThreadIds
<1>. HIDE DEF c, w
<1>7. /\ \A id : Has(v, id) <=> id = Item(source) \/ id = HotState
      /\ v[Item(source)] = new /\ v[HotState] = state
  BY <1>5, ApplyFacts, ThreadIds
<1>. HIDE DEF v, e, item
<1>8. \A s \in Sources :
        \/ /\ IsCounted(e, s) <=> IsCounted(db, s)
           /\ IsCounted(db, s) => e[Item(s)].owner = db[Item(s)].owner
        \/ /\ IsCounted(db, s) => db[Item(s)].owner = o
           /\ IsCounted(e, s) => e[Item(s)].owner = o
  <2>. TAKE s \in Sources
  <2>1. CASE s = source
    BY <2>1, <1>4, <1>6 DEF IsCounted, Exists, item
  <2>2. CASE s # source
    BY <2>2, <1>6 DEF IsCounted, Exists
  <2>. QED
    BY <2>1, <2>2
<1>9. /\ m \in Nat /\ f \in Nat /\ n \in Nat /\ g \in Nat
      /\ Cardinality(Participants(e)) =
           (Cardinality(Participants(db)) + Takes01(n + g > 0)) - Takes01(m + f > 0)
      /\ Cardinality(Supporters(e)) =
           (Cardinality(Supporters(db)) + Takes01(g > 0)) - Takes01(f > 0)
      /\ Cardinality(CountedReplies(e)) = (Cardinality(CountedReplies(db)) + n) - m
  BY <1>3, <1>8, OwnerRecounted
<1>. HIDE DEF m, f, n, g
<1>10. db[HotState] \in StateRecord
  BY <1>1 DEF StateTyped
<1>. DEFINE old == db[HotState]
            p == (old.participants + Takes01(n + g > 0)) - Takes01(m + f > 0)
            q == (old.positive + Takes01(g > 0)) - Takes01(f > 0)
            t == (old.replies + n) - m
            b == Eligible(p, q)
<1>11. /\ state \in StateRecord
       /\ state.dirty = old.dirty /\ state.signal = old.signal
       /\ state.participants = p /\ state.positive = q /\ state.replies = t
       /\ state.eligible = Eligible(p, q)
  <2>1. state = [old EXCEPT !.participants = p, !.positive = q, !.replies = t, !.eligible = b]
    BY DEF Recounted
  <2>2. old.participants \in Int /\ old.positive \in Int /\ old.replies \in Int
    BY <1>10 DEF StateRecord
  <2>3. p \in Int /\ q \in Int /\ t \in Int
    BY <1>9, <2>2 DEF Takes01
  <2>4. b \in BOOLEAN /\ b = Eligible(p, q)
    BY DEF Eligible
  <2>5. old \in StateRecord
    BY <1>10
  <2>. HIDE DEF state, old, p, q, t, b
  <2>6. /\ state \in StateRecord
        /\ state.dirty = old.dirty /\ state.signal = old.signal
        /\ state.participants = p /\ state.positive = q /\ state.replies = t
        /\ state.eligible = b
    <3>1. state \in StateRecord
      BY <2>1, <2>3, <2>4, <2>5 DEF StateRecord
    <3>2. /\ state.dirty = old.dirty /\ state.signal = old.signal
          /\ state.participants = p /\ state.positive = q /\ state.replies = t
          /\ state.eligible = b
      BY <2>1, <2>5 DEF StateRecord
    <3>. QED
      BY <3>1, <3>2
  <2>. QED
    BY <2>4, <2>6
<1>. HIDE DEF state
<1>12. /\ Has(h, HotState) /\ h[HotState] = state
       /\ \A s : /\ Has(h, Item(s)) <=> Has(e, Item(s))
                 /\ Has(e, Item(s)) => h[Item(s)] = e[Item(s)]
  <2>1. Has(h, HotState) /\ h[HotState] = state
    BY <1>7, ApplyFacts
  <2>2. ASSUME NEW s
        PROVE  /\ Has(h, Item(s)) <=> Has(e, Item(s))
               /\ Has(e, Item(s)) => h[Item(s)] = e[Item(s)]
    <3>1. CASE s = source
      <4>1. Has(v, Item(s))
        BY <1>7, <3>1
      <4>. QED
        BY <4>1, <3>1, <1>6, <1>7, ApplyFacts
    <3>2. CASE s # source
      <4>1. ~Has(v, Item(s))
        BY <1>7, <3>2, ThreadIds
      <4>. QED
        BY <4>1, <3>2, <1>6, ApplyFacts
    <3>. QED
      BY <3>1, <3>2
  <2>. QED
    BY <2>1, <2>2
<1>. HIDE DEF h
<1>13. /\ Participants(h) = Participants(e) /\ Supporters(h) = Supporters(e)
       /\ CountedReplies(h) = CountedReplies(e)
  <2>1. \A s : /\ IsCounted(h, s) <=> IsCounted(e, s)
               /\ IsCounted(e, s) => h[Item(s)].owner = e[Item(s)].owner
    BY <1>12 DEF IsCounted, Exists
  <2>2. \A a, type : CountedFor(h, a, type) = CountedFor(e, a, type)
    BY <2>1 DEF CountedFor
  <2>. QED
    BY <2>1, <2>2 DEF Participants, Supporters, CountedReplies
<1>14. StateCounts(h)
  <2>1. /\ p = Cardinality(Participants(e)) /\ q = Cardinality(Supporters(e))
        /\ t = Cardinality(CountedReplies(e))
    BY <1>1, <1>9 DEF StateCounts
  <2>. HIDE DEF p, q, t
  <2>. QED
    BY <2>1, <1>11, <1>12, <1>13 DEF StateCounts
<1>15. /\ ~Has(v, Post) /\ \A r \in Replies : ~Has(v, Reply(r))
       /\ \A r \in Replies, a \in Agents : ~Has(v, Feedback(r, a))
       /\ RepliesIn(v) = {}
  BY <1>7, ThreadIds DEF RepliesIn
<1>16. StaysTyped(db, v)
  <2>1. ItemsTyped(v)
    BY <1>4, <1>7, ThreadIds DEF ItemsTyped, Items, Exists
  <2>. QED
    BY <2>1, <1>7, <1>11, <1>15
       DEF StaysTyped, RepliesStayTyped, FeedbackStaysTyped, Exists
<1>17. KeepsShown(db, v)
       /\ \A r \in Replies : KeepsChildren(db, v, r) /\ KeepsFeedback(db, v, r)
  BY <1>15 DEF KeepsShown, KeepsChildren, KeepsFeedback
<1>18. StaysRight(db, v)
  BY <1>7, <1>14, <1>16, <1>17 DEF StaysRight, h
<1>19. Item(source) \in DirtyDocs(db)
  BY DEF DirtyDocs
<1>20. DoesWork(db, v)
  BY <1>7, <1>11, <1>19 DEF DoesWork
<1>21. /\ Counted(db, o, "reply") = m /\ Counted(db, o, "feedback") = f
       /\ Counted(Seen(w), o, "reply") = n /\ Counted(Seen(w), o, "feedback") = g
  BY CountedIs, SMTT(30) DEF Seen, e, m, f, n, g
<1>. QED
  BY <1>18, <1>20, <1>21 DEF v, c, w, state, item

LEMMA ApplyItemRight ==
  ASSUME ThreadRight(db), ApplyItem
  PROVE  \/ /\ projecting.done < WorkBatch /\ UNCHANGED projecting
            /\ \E w : OpenTxn(Projector, w) /\ StaysRight(db, w) /\ DoesWork(db, w)
         \/ PassTo("check", 0) /\ UNCHANGED <<db, txn>>
<1>1. CASE PassTo("check", 0) /\ UNCHANGED <<db, txn>>
  BY <1>1
<1>2. CASE /\ projecting.done < WorkBatch
           /\ \E source \in DirtyItems(db) :
                LET item == db[Item(source)]
                    new  == IF source[1] = "feedback" /\ ~item.source THEN Gone
                            ELSE [item EXCEPT !.counted = item.active, !.dirty = FALSE]
                    w    == Put(Item(source), new)
                    N(d, type) == Counted(d, item.owner, type)
                IN  OpenTxn(Projector, Apply(w, Put(HotState,
                      Recounted(db[HotState], N(db, "reply"), N(db, "feedback"),
                        N(Seen(w), "reply"), N(Seen(w), "feedback")))))
           /\ UNCHANGED projecting
  <2>1. PICK source \in DirtyItems(db) :
                LET item == db[Item(source)]
                    new  == IF source[1] = "feedback" /\ ~item.source THEN Gone
                            ELSE [item EXCEPT !.counted = item.active, !.dirty = FALSE]
                    w    == Put(Item(source), new)
                    N(d, type) == Counted(d, item.owner, type)
                IN  OpenTxn(Projector, Apply(w, Put(HotState,
                      Recounted(db[HotState], N(db, "reply"), N(db, "feedback"),
                        N(Seen(w), "reply"), N(Seen(w), "feedback")))))
    BY <1>2
  <2>. DEFINE item == db[Item(source)]
              new  == IF source[1] = "feedback" /\ ~item.source THEN Gone
                      ELSE [item EXCEPT !.counted = item.active, !.dirty = FALSE]
              w    == Put(Item(source), new)
              v    == Apply(w, Put(HotState,
                        Recounted(db[HotState], Counted(db, item.owner, "reply"),
                          Counted(db, item.owner, "feedback"),
                          Counted(Seen(w), item.owner, "reply"),
                          Counted(Seen(w), item.owner, "feedback"))))
  <2>2. OpenTxn(Projector, v)
    BY <2>1
  <2>3. new = Gone \/ new = [item EXCEPT !.counted = item.active, !.dirty = FALSE]
    OBVIOUS
  <2>. HIDE DEF new
  <2>4. StaysRight(db, v) /\ DoesWork(db, v)
    BY <2>3, ItemAppliedRight
  <2>. QED
    BY <1>2, <2>2, <2>4
<1>. QED
  BY <1>1, <1>2 DEF ApplyItem

-----------------------------------------------------------------------------
(* AT FIRST                                                                *)

LEMMA CountsOfTwo ==
  ASSUME NEW C, C \subseteq {1, 2}
  PROVE  /\ IsFiniteSet(C) /\ Cardinality(C) \in Nat
         /\ Cardinality({<<"reply", r>> : r \in C}) = Cardinality(C)
         /\ Cardinality({1, 2}) = 2 /\ Cardinality({2}) = 1
<1>1. /\ IsFiniteSet({1}) /\ IsFiniteSet({2}) /\ Cardinality({1}) = 1 /\ Cardinality({2}) = 1
      /\ IsFiniteSet({<<"reply", 1>>}) /\ Cardinality({<<"reply", 1>>}) = 1
      /\ Cardinality({<<"reply", 2>>}) = 1
  BY FS_Singleton
<1>2. /\ Cardinality({1} \cup {2}) = 2 /\ IsFiniteSet({1} \cup {2})
      /\ Cardinality({<<"reply", 1>>} \cup {<<"reply", 2>>}) = 2
  <2>1. 2 \notin {1} /\ <<"reply", 2>> \notin {<<"reply", 1>>}
    OBVIOUS
  <2>2. Cardinality({1} \cup {2}) = Cardinality({1}) + 1 /\ IsFiniteSet({1} \cup {2})
    BY <1>1, <2>1, OneMore
  <2>3. Cardinality({<<"reply", 1>>} \cup {<<"reply", 2>>}) = Cardinality({<<"reply", 1>>}) + 1
    BY <1>1, <2>1, OneMore
  <2>. QED
    BY <1>1, <2>2, <2>3
<1>3. {1, 2} = {1} \cup {2}
  OBVIOUS
<1>4. CASE C = {}
  BY <1>2, <1>3, <1>4, <1>1, FS_EmptySet
<1>5. CASE C = {1}
  <2>1. {<<"reply", r>> : r \in C} = {<<"reply", 1>>}
    BY <1>5
  <2>. QED
    BY <2>1, <1>1, <1>2, <1>3, <1>5
<1>6. CASE C = {2}
  <2>1. {<<"reply", r>> : r \in C} = {<<"reply", 2>>}
    BY <1>6
  <2>. QED
    BY <2>1, <1>1, <1>2, <1>3, <1>6
<1>7. CASE C = {1, 2}
  <2>1. {<<"reply", r>> : r \in C} = {<<"reply", 1>>} \cup {<<"reply", 2>>}
    BY <1>7
  <2>. QED
    BY <2>1, <1>1, <1>2, <1>3, <1>7
<1>. QED
  BY <1>4, <1>5, <1>6, <1>7

(* The documents at first.                                                 *)
LEMMA FirstDocuments ==
  ASSUME ThreadInit
  PROVE  LET C == {r \in {1, 2} : FirstAuthor(r) # Author}
         IN  /\ \A id : Has(db, id) <=>
                  id \in {Post, Reply(1), Reply(2), HotState}
                    \/ \E r \in C : id = Item(<<"reply", r>>)
             /\ db[Post] = [replies |-> 2]
             /\ db[Reply(1)] = [NewReply(RootAuthor, 0) EXCEPT !.children = 1]
             /\ db[Reply(2)] = NewReply(ChildAuthor, 1)
             /\ db[HotState] =
                  [participants |-> Cardinality({FirstAuthor(r) : r \in C}),
                   positive |-> 0, replies |-> Cardinality(C), eligible |-> FALSE,
                   signal |-> 1, dirty |-> FALSE, ready |-> TRUE, live |-> FALSE]
             /\ \A r \in C : db[Item(<<"reply", r>>)] =
                  [NewItem(FirstAuthor(r)) EXCEPT !.counted = TRUE, !.dirty = FALSE]
<1>. DEFINE C == {r \in {1, 2} : FirstAuthor(r) # Author}
            D == {Post, Reply(1), Reply(2), HotState} \cup {Item(<<"reply", r>>) : r \in C}
            p == Cardinality({FirstAuthor(r) : r \in C})
            n == Cardinality(C)
            post == [replies |-> 2]
            root == [NewReply(RootAuthor, 0) EXCEPT !.children = 1]
            child == NewReply(ChildAuthor, 1)
            state == [participants |-> p, positive |-> 0, replies |-> n, eligible |-> FALSE,
                      signal |-> 1, dirty |-> FALSE, ready |-> TRUE, live |-> FALSE]
            item(r) == [NewItem(FirstAuthor(r)) EXCEPT !.counted = TRUE, !.dirty = FALSE]
            F(id) == CASE id = Post -> post
                       [] id = Reply(1) -> root
                       [] id = Reply(2) -> child
                       [] id = HotState -> state
                       [] OTHER -> item(id[2][2])
<1>1. db = [id \in D |-> F(id)]
  BY DEF ThreadInit
<1>2. /\ Post \in D /\ Reply(1) \in D /\ Reply(2) \in D /\ HotState \in D
      /\ \A r \in C : Item(<<"reply", r>>) \in D
  OBVIOUS
<1>3. \A id : Has(db, id) <=>
        id \in {Post, Reply(1), Reply(2), HotState} \/ \E r \in C : id = Item(<<"reply", r>>)
  <2>. HIDE DEF F
  <2>. QED
    BY <1>1 DEF Has
<1>. HIDE DEF p, n, C, D
<1>. HIDE DEF post, root, child, state, item
<1>4. F(Post) = post
  BY DEF Post, Reply, HotState
<1>5. F(Reply(1)) = root
  BY DEF Post, Reply, HotState
<1>6. F(Reply(2)) = child
  BY DEF Post, Reply, HotState
<1>7. F(HotState) = state
  BY DEF Post, Reply, HotState
<1>8. ASSUME NEW r \in C
      PROVE  F(Item(<<"reply", r>>)) = item(r)
  <2>1. Item(<<"reply", r>>)[2][2] = r
    BY DEF Item
  <2>2. /\ Item(<<"reply", r>>) # Post /\ Item(<<"reply", r>>) # HotState
        /\ Item(<<"reply", r>>) # Reply(1) /\ Item(<<"reply", r>>) # Reply(2)
    BY DEF Item, Post, Reply, HotState
  <2>. QED
    BY <2>1, <2>2
<1>. HIDE DEF F
<1>9. /\ db[Post] = F(Post) /\ db[Reply(1)] = F(Reply(1)) /\ db[Reply(2)] = F(Reply(2))
      /\ db[HotState] = F(HotState)
      /\ \A r \in C : db[Item(<<"reply", r>>)] = F(Item(<<"reply", r>>))
  BY <1>1, <1>2
<1>. QED
  BY <1>3, <1>4, <1>5, <1>6, <1>7, <1>8, <1>9 DEF p, n, C, post, root, child, state, item

LEMMA FirstThreadRight ==
  ASSUME ThreadInit
  PROVE  ThreadRight(db) /\ ~DirtyWork(db) /\ db[HotState].signal = 1
<1>. DEFINE C == {r \in {1, 2} : FirstAuthor(r) # Author}
            F(r) == [NewItem(FirstAuthor(r)) EXCEPT !.counted = TRUE, !.dirty = FALSE]
            p == Cardinality({FirstAuthor(r) : r \in C})
            n == Cardinality(C)
<1>1. /\ \A id : Has(db, id) <=>
           id \in {Post, Reply(1), Reply(2), HotState}
             \/ \E r \in C : id = Item(<<"reply", r>>)
      /\ db[Post] = [replies |-> 2]
      /\ db[Reply(1)] = [NewReply(RootAuthor, 0) EXCEPT !.children = 1]
      /\ db[Reply(2)] = NewReply(ChildAuthor, 1)
      /\ db[HotState] = [participants |-> p, positive |-> 0, replies |-> n,
                         eligible |-> FALSE, signal |-> 1, dirty |-> FALSE, ready |-> TRUE,
                         live |-> FALSE]
      /\ \A r \in C : db[Item(<<"reply", r>>)] = F(r)
  BY FirstDocuments
<1>2. C \subseteq {1, 2}
  OBVIOUS
<1>3. ASSUME NEW r \in C
      PROVE  /\ F(r) \in ItemRecord /\ F(r).counted /\ ~F(r).dirty
             /\ F(r).owner = FirstAuthor(r) /\ FirstAuthor(r) \in Agents /\ F(r) # Gone
  <2>1. FirstAuthor(r) \in Agents
    BY ThreadFacts DEF FirstAuthor
  <2>. QED
    BY <2>1 DEF NewItem, ItemRecord, Gone
<1>. HIDE DEF F, C
<1>4. /\ Has(db, Post) /\ Has(db, HotState)
      /\ \A r : Has(db, Reply(r)) <=> r \in {1, 2}
      /\ \A r, a : ~Has(db, Feedback(r, a))
      /\ \A r : ~Has(db, Branch(r)) /\ ~Has(db, Fanout(r))
  <2>1. Has(db, Post) /\ Has(db, HotState)
    BY <1>1
  <2>2. ASSUME NEW r PROVE Has(db, Reply(r)) <=> r \in {1, 2}
    BY <1>1 DEF Post, HotState, Reply, Item
  <2>3. ASSUME NEW r, NEW a PROVE ~Has(db, Feedback(r, a))
    BY <1>1 DEF Post, HotState, Reply, Item, Feedback
  <2>4. ASSUME NEW r PROVE ~Has(db, Branch(r)) /\ ~Has(db, Fanout(r))
    BY <1>1 DEF Post, HotState, Reply, Item, Branch, Fanout
  <2>. QED
    BY <2>1, <2>2, <2>3, <2>4
<1>5. \A s : Has(db, Item(s)) <=> \E r \in C : s = <<"reply", r>>
  BY <1>1 DEF Post, HotState, Reply, Item
<1>6. RepliesIn(db) = {1, 2}
  BY <1>4, ThreadFacts DEF RepliesIn
<1>7. /\ db[Reply(1)] \in ReplyRecord /\ db[Reply(2)] \in ReplyRecord
      /\ ~db[Reply(1)].deleted /\ ~db[Reply(2)].deleted
      /\ db[Reply(1)].root = 0 /\ db[Reply(2)].root = 1
      /\ db[Reply(1)].children = 1 /\ db[Reply(2)].children = 0
      /\ \A r \in {1, 2} : db[Reply(r)].positive = 0 /\ db[Reply(r)].negative = 0
  <2>1. /\ NewReply(RootAuthor, 0) \in ReplyRecord /\ NewReply(ChildAuthor, 1) \in ReplyRecord
    BY ThreadFacts DEF NewReply, ReplyRecord
  <2>2. [NewReply(RootAuthor, 0) EXCEPT !.children = 1] \in ReplyRecord
    BY <2>1 DEF ReplyRecord
  <2>. QED
    BY <1>1, <2>1, <2>2 DEF NewReply
<1>8. /\ db[HotState].participants = p /\ db[HotState].positive = 0
      /\ db[HotState].replies = n /\ db[HotState].eligible = FALSE
      /\ db[HotState].signal = 1
  BY <1>1
<1>9. p \in Nat /\ n \in Nat /\ db[HotState] \in StateRecord
  <2>1. n \in Nat /\ IsFiniteSet(C)
    BY <1>2, CountsOfTwo
  <2>2. {FirstAuthor(r) : r \in C} \in SUBSET Agents
    BY <1>3
  <2>3. IsFiniteSet({FirstAuthor(r) : r \in C})
    BY <2>2, ThreadFacts, FS_Subset
  <2>4. p \in Nat
    BY <2>3, FS_CardinalityType
  <2>. HIDE DEF p, n
  <2>. QED
    BY <2>1, <2>4, <1>1 DEF StateRecord
<1>. HIDE DEF p, n
<1>10. ThreadTyped(db)
  <2>1. RepliesTyped(db)
    BY <1>4, <1>6, <1>7 DEF RepliesTyped, Hangs, IsRoot
  <2>2. FeedbackTyped(db)
    BY <1>4 DEF FeedbackTyped, Exists
  <2>3. ItemsTyped(db)
    BY <1>1, <1>3, <1>5 DEF ItemsTyped, Items, Exists
  <2>. QED
    BY <2>1, <2>2, <2>3, <1>4, <1>9 DEF ThreadTyped, StateTyped
<1>11. PostCounts(db)
  <2>1. Shown(db) = {1, 2}
    BY <1>6, <1>7 DEF Shown, BranchVisible, IsRoot
  <2>2. db[Post].replies = 2
    BY <1>1
  <2>. QED
    BY <2>1, <2>2, <1>2, CountsOfTwo DEF PostCounts
<1>12. ASSUME NEW r \in Replies PROVE RootCounts(db, r)
  <2>1. CASE r = 1
    <3>1. Kept(db, r) = {2}
      BY <2>1, <1>6, <1>7 DEF Kept, ChildrenIn
    <3>. QED
      BY <3>1, <2>1, <1>7, <1>2, CountsOfTwo DEF RootCounts
  <2>2. CASE r = 2
    <3>1. Kept(db, r) = {}
      BY <2>2, <1>6, <1>7 DEF Kept, ChildrenIn
    <3>. QED
      BY <3>1, <2>2, <1>7, FS_EmptySet DEF RootCounts
  <2>. QED
    BY <2>1, <2>2, <1>4 DEF RootCounts
<1>13. ASSUME NEW r \in Replies PROVE ReplyCounts(db, r)
  <2>1. \A kind : OfKind(db, r, kind) = {}
    BY <1>4 DEF OfKind, FeedbackIn, Exists
  <2>. QED
    BY <2>1, <1>4, <1>7, FS_EmptySet DEF ReplyCounts
<1>14. StateCounts(db)
  <2>1. \A s : IsCounted(db, s) <=> \E r \in C : s = <<"reply", r>>
    BY <1>1, <1>3, <1>5 DEF IsCounted, Exists
  <2>2. \A r \in C : <<"reply", r>> \in Sources /\ db[Item(<<"reply", r>>)].owner = FirstAuthor(r)
    BY <1>1, <1>2, <1>3, ThreadFacts DEF Sources
  <2>3. CountedReplies(db) = {<<"reply", r>> : r \in C}
    BY <2>1, <2>2 DEF CountedReplies
  <2>4. \A a : CountedFor(db, a, "feedback") = {}
    BY <2>1 DEF CountedFor
  <2>5. Supporters(db) = {}
    BY <2>4 DEF Supporters
  <2>6. Participants(db) = {FirstAuthor(r) : r \in C}
    <3>1. ASSUME NEW a PROVE CountedFor(db, a, "reply") # {} <=> \E r \in C : a = FirstAuthor(r)
      <4>1. ASSUME NEW s \in CountedFor(db, a, "reply") PROVE \E r \in C : a = FirstAuthor(r)
        BY <2>1, <2>2 DEF CountedFor
      <4>2. ASSUME NEW r \in C, a = FirstAuthor(r)
            PROVE  <<"reply", r>> \in CountedFor(db, a, "reply")
        <5>1. IsCounted(db, <<"reply", r>>)
          BY <2>1
        <5>2. <<"reply", r>> \in Sources /\ db[Item(<<"reply", r>>)].owner = a
          BY <2>2, <4>2
        <5>. QED
          BY <5>1, <5>2 DEF CountedFor
      <4>. QED
        BY <4>1, <4>2
    <3>. QED
      BY <3>1, <2>4, <1>3 DEF Participants
  <2>7. Cardinality(CountedReplies(db)) = n
    BY <2>3, <1>2, CountsOfTwo DEF n
  <2>8. Eligible(p, 0) = FALSE
    BY <1>9, ThreadFacts DEF Eligible
  <2>10. db[HotState].eligible = Eligible(db[HotState].participants, db[HotState].positive)
    BY <2>8, <1>8
  <2>9. Cardinality(Participants(db)) = p /\ Cardinality(Supporters(db)) = 0
    BY <2>5, <2>6, FS_EmptySet DEF p
  <2>. QED
    BY <2>7, <2>9, <2>10, <1>8 DEF StateCounts
<1>15. ~DirtyWork(db)
  <2>1. DirtyItems(db) = {}
    BY <1>1, <1>3, <1>5 DEF DirtyItems, Items, Exists
  <2>. QED
    BY <2>1, <1>4 DEF DirtyWork, DirtyBranches, DirtyFanouts
<1>. QED
  BY <1>8, <1>10, <1>11, <1>12, <1>13, <1>14, <1>15 DEF ThreadRight

LEMMA ThreadStarts ==
  ASSUME ThreadInit
  PROVE  ThreadInvariant
<1>1. ThreadRight(db) /\ ~DirtyWork(db) /\ db[HotState].signal = 1
  BY FirstThreadRight
<1>2. TxnShape /\ \A s \in Sessions : ~txn[s].open
  BY NoneOpen DEF ThreadInit
<1>3. /\ threadJobs = EmptyQueue /\ dispatched = 0 /\ acts = 0 /\ threadFaults = 0
      /\ projecting = [at |-> "idle", done |-> 0]
  BY DEF ThreadInit
<1>4. ThreadTypeOK
  <2>1. \A source \in Items(db) : db[Item(source)].owner \in Agents
    BY <1>1 DEF ThreadRight, ThreadTyped, ItemsTyped, ItemRecord
  <2>2. 0 \in 0 .. WorkBatch /\ 0 \in 0 .. MaxActs /\ 0 \in 0 .. MaxThreadFaults
    BY ReplyThreadAssumption
  <2>3. ~IsActive(threadJobs) /\ PassAt("idle")
    BY <1>3 DEF IsActive, EmptyQueue, NoJob, PassAt
  <2>. QED
    BY <2>1, <2>2, <2>3, <1>1, <1>3 DEF ThreadTypeOK
<1>5. JobsKnown
  BY <1>3 DEF JobsKnown, SignalKnown, QueueRecord, EmptyQueue, NoJob
<1>. QED
  BY <1>1, <1>2, <1>3, <1>4, <1>5, ThreadFacts
     DEF ThreadInvariant, NothingLeft, PassOpen, DirtyWorkIsSignalled, TxnsRight

-----------------------------------------------------------------------------
(* STEPS                                                                   *)

(* A change that keeps the documents right keeps the transactions right    *)
(* that survive it.                                                        *)
LEMMA ChangeKeeps ==
  ASSUME ThreadRight(db), TxnsRight, NEW c, StaysRight(db, c), db' = Apply(db, c),
         \A u \in Sessions : txn'[u].open =>
           /\ txn[u].open /\ txn'[u].writes = txn[u].writes
           /\ Apart(txn[u].writes, c)
  PROVE  /\ ThreadRight(db') /\ TxnsRight'
         /\ \A source \in Items(db') : db'[Item(source)].owner \in Agents
<1>1. ThreadRight(db')
  BY CommitKeepsRight
<1>2. ASSUME NEW s \in Sessions, txn'[s].open
      PROVE  /\ StaysRight(db', txn'[s].writes)
             /\ IF s = Projector THEN DoesWork(db', txn'[s].writes)
                ELSE SignalsWork(db', txn'[s].writes)
  <2>. DEFINE w == txn[s].writes
  <2>1. txn[s].open /\ txn'[s].writes = w /\ Apart(w, c)
    BY <1>2
  <2>2. /\ StaysRight(db, w)
        /\ s = Projector => DoesWork(db, w)
        /\ s # Projector => SignalsWork(db, w)
    BY <2>1 DEF TxnsRight
  <2>. HIDE DEF w
  <2>3. StaysRight(Apply(db, c), w)
    BY <2>1, <2>2, CommitLeavesRight
  <2>4. /\ s = Projector => DoesWork(Apply(db, c), w)
        /\ s # Projector => SignalsWork(Apply(db, c), w)
    BY <2>1, <2>2, SignalsLast DEF ThreadRight
  <2>. QED
    BY <2>1, <2>3, <2>4
<1>3. TxnsRight'
  BY <1>2 DEF TxnsRight
<1>. QED
  BY <1>1, <1>3 DEF ThreadRight, ThreadTyped, ItemsTyped, ItemRecord

(* A write to the state outside a transaction.                             *)
LEMMA StateWritten ==
  ASSUME ThreadInvariant, NEW new, new \in StateRecord, KeepsState(new, db[HotState]),
         WriteState(new)
  PROVE  /\ ThreadRight(db') /\ TxnsRight' /\ TxnShape'
         /\ \A source \in Items(db') : db'[Item(source)].owner \in Agents
         /\ db'[HotState] = new
         /\ DirtyWork(db') => DirtyWork(db)
         /\ txn'[Projector].open => txn[Projector].open
<1>. DEFINE c == Put(HotState, new)
<1>1. ThreadRight(db) /\ TxnsRight /\ TxnShape /\ ThreadTyped(db)
  BY DEF ThreadInvariant, ThreadRight
<1>2. WriteAlone(c)
  BY DEF WriteState, WriteAlone, Put
<1>3. StaysRight(db, c) /\ ~DirtyWork(c) /\ Apply(db, c)[HotState] = new
  BY <1>1, StateAlone
<1>. HIDE DEF c
<1>4. /\ db' = Apply(db, c) /\ TxnShape'
      /\ \A u \in Sessions : txn'[u].open =>
           /\ txn[u].open /\ txn'[u].writes = txn[u].writes
           /\ Apart(txn[u].writes, c)
  BY <1>1, <1>2, AloneEffect
<1>5. /\ ThreadRight(db') /\ TxnsRight'
      /\ \A source \in Items(db') : db'[Item(source)].owner \in Agents
  BY <1>1, <1>3, <1>4, ChangeKeeps
<1>6. DirtyWork(db') => DirtyWork(db)
  BY <1>3, <1>4, DirtyAfter
<1>. QED
  BY <1>3, <1>4, <1>5, <1>6, ThreadFacts

(* A transaction that begins with writes of the right kind.                *)
LEMMA OpeningKeeps ==
  ASSUME ThreadInvariant, NEW s \in Sessions, NEW w, OpenTxn(s, w), StaysRight(db, w),
         IF s = Projector THEN DoesWork(db, w) ELSE SignalsWork(db, w)
  PROVE  /\ db' = db /\ ThreadRight(db') /\ TxnsRight' /\ TxnShape'
         /\ \A u \in Sessions : u # s => txn'[u] = txn[u]
<1>1. TxnShape /\ TxnsRight /\ ThreadRight(db)
  BY DEF ThreadInvariant
<1>2. /\ db' = db /\ txn' = [txn EXCEPT ![s] = [open |-> TRUE, writes |-> w]]
      /\ TxnShape'
  BY <1>1, OpenEffect DEF OpenTxn
<1>3. /\ txn'[s].writes = w
      /\ \A u \in Sessions : u # s => txn'[u] = txn[u]
  BY <1>1, <1>2 DEF TxnShape
<1>4. ASSUME NEW u \in Sessions, txn'[u].open
      PROVE  /\ StaysRight(db', txn'[u].writes)
             /\ IF u = Projector THEN DoesWork(db', txn'[u].writes)
                ELSE SignalsWork(db', txn'[u].writes)
  <2>1. CASE u = s
    BY <2>1, <1>2, <1>3
  <2>2. CASE u # s
    <3>1. txn'[u] = txn[u] /\ txn[u].open
      BY <2>2, <1>3, <1>4
    <3>. QED
      BY <3>1, <1>1, <1>2 DEF TxnsRight
  <2>. QED
    BY <2>1, <2>2
<1>. QED
  BY <1>1, <1>2, <1>3, <1>4 DEF TxnsRight

(* Users act, on documents that stay as they are until they commit.        *)
LEMMA UserActKeeps ==
  ASSUME ThreadInvariant, NEW s \in Users, UserStep(s)
  PROVE  ThreadInvariant'
<1>1. PICK w : UserActs(s, w) /\ StaysRight(db, w) /\ SignalsWork(db, w)
  BY UserStepRight DEF ThreadInvariant
<1>2. s \in Sessions /\ s # Projector /\ Projector \in Sessions
  BY ThreadFacts DEF Users
<1>3. /\ OpenTxn(s, w) /\ acts < MaxActs /\ acts' = acts + 1
      /\ UNCHANGED <<threadJobs, dispatched, projecting, threadFaults>>
  BY <1>1 DEF UserActs
<1>4. /\ db' = db /\ ThreadRight(db') /\ TxnsRight' /\ TxnShape'
      /\ txn'[Projector] = txn[Projector]
  BY <1>1, <1>2, <1>3, OpeningKeeps
<1>5. ThreadTypeOK'
  <2>1. acts' \in 0 .. MaxActs
    BY <1>3, ReplyThreadAssumption DEF ThreadInvariant, ThreadTypeOK
  <2>. QED
    BY <2>1, <1>3, <1>4 DEF ThreadInvariant, ThreadTypeOK, PassAt
<1>6. JobsKnown' /\ NothingLeft' /\ PassOpen' /\ DirtyWorkIsSignalled'
  BY <1>3, <1>4
     DEF ThreadInvariant, JobsKnown, SignalKnown, NothingLeft, PassOpen, PassAt,
         DirtyWorkIsSignalled
<1>. QED
  BY <1>4, <1>5, <1>6 DEF ThreadInvariant

(* A commit, of a user or of the projection.                               *)
LEMMA CommitKeeps ==
  ASSUME ThreadInvariant, NEW s \in Sessions, CommitTxn(s)
  PROVE  /\ txn[s].open /\ db' = Apply(db, txn[s].writes)
         /\ ThreadRight(db') /\ TxnsRight' /\ TxnShape'
         /\ \A source \in Items(db') : db'[Item(source)].owner \in Agents
         /\ \A u \in Sessions : txn'[u].open => txn[u].open
         /\ ThreadTyped(db) /\ StaysTyped(db, txn[s].writes)
         /\ IF s = Projector THEN DoesWork(db, txn[s].writes)
            ELSE SignalsWork(db, txn[s].writes)
<1>1. TxnShape /\ TxnsRight /\ ThreadRight(db)
  BY DEF ThreadInvariant
<1>2. /\ txn[s].open
      /\ db' = Apply(db, txn[s].writes)
      /\ TxnShape'
      /\ \A u \in Sessions : txn'[u].open =>
           /\ txn[u].open /\ txn'[u].writes = txn[u].writes
           /\ Apart(txn[u].writes, txn[s].writes)
  BY <1>1, CommitEffect
<1>3. /\ StaysRight(db, txn[s].writes)
      /\ IF s = Projector THEN DoesWork(db, txn[s].writes)
         ELSE SignalsWork(db, txn[s].writes)
  BY <1>1, <1>2 DEF TxnsRight
<1>4. /\ ThreadRight(db') /\ TxnsRight'
      /\ \A source \in Items(db') : db'[Item(source)].owner \in Agents
  BY <1>1, <1>2, <1>3, ChangeKeeps
<1>5. ThreadTyped(db) /\ StaysTyped(db, txn[s].writes)
  BY <1>1, <1>3 DEF ThreadRight, StaysRight
<1>. QED
  BY <1>2, <1>3, <1>4, <1>5

(* Signals that grow know the jobs they knew.                              *)
LEMMA JobsStayKnown ==
  ASSUME JobsKnown, UNCHANGED threadJobs, db[HotState].signal \in Nat,
         db'[HotState].signal \in Nat, db'[HotState].signal >= db[HotState].signal
  PROVE  JobsKnown'
<1>1. ASSUME NEW job, job = NoJob \/ (job \in JobRecord /\ job.signal <= db[HotState].signal)
      PROVE  job = NoJob \/ (job \in JobRecord /\ job.signal <= db'[HotState].signal)
  <2>1. job \in JobRecord => job.signal \in Nat
    BY DEF JobRecord
  <2>. QED
    BY <1>1, <2>1
<1>. QED
  BY <1>1 DEF JobsKnown, SignalKnown

LEMMA UserCommitKeeps ==
  ASSUME ThreadInvariant, NEW s \in Users, CommitAct(s)
  PROVE  ThreadInvariant'
<1>1. s \in Sessions /\ s # Projector /\ Projector \in Sessions
  BY ThreadFacts DEF Users
<1>2. CommitTxn(s) /\ UNCHANGED <<projecting, threadJobs, dispatched, acts, threadFaults>>
  BY <1>1 DEF CommitAct
<1>3. /\ db' = Apply(db, txn[s].writes)
      /\ ThreadRight(db') /\ TxnsRight' /\ TxnShape'
      /\ \A source \in Items(db') : db'[Item(source)].owner \in Agents
      /\ txn'[Projector].open => txn[Projector].open
      /\ ThreadTyped(db) /\ StaysTyped(db, txn[s].writes)
      /\ SignalsWork(db, txn[s].writes)
  BY <1>1, <1>2, CommitKeeps
<1>4. /\ db'[HotState].signal >= db[HotState].signal
      /\ DirtyWork(db') =>
           \/ db'[HotState].dirty /\ db'[HotState].signal > db[HotState].signal
           \/ DirtyWork(db) /\ db'[HotState] = db[HotState]
  BY <1>3, UserSignal
<1>5. db[HotState].signal \in Nat /\ db'[HotState].signal \in Nat
  BY <1>3 DEF ThreadRight, ThreadTyped, StateTyped, StateRecord
<1>6. ThreadTypeOK'
  <2>1. dispatched' \in 0 .. db'[HotState].signal
    BY <1>2, <1>4, <1>5 DEF ThreadInvariant, ThreadTypeOK
  <2>. QED
    BY <2>1, <1>2, <1>3, <1>5 DEF ThreadInvariant, ThreadTypeOK, PassAt
<1>7. JobsKnown'
  BY <1>2, <1>4, <1>5, JobsStayKnown DEF ThreadInvariant
<1>8. PassOpen'
  BY <1>2, <1>3 DEF ThreadInvariant, PassOpen, PassAt
<1>9. DirtyWorkIsSignalled'
  BY <1>4 DEF ThreadInvariant, DirtyWorkIsSignalled
<1>10. NothingLeft'
  <2>. SUFFICES ASSUME PassAt("clear"), db'[HotState].signal = threadJobs.active.signal,
                       DirtyWork(db')
                PROVE  FALSE
    BY <1>2 DEF NothingLeft, PassAt
  <2>1. threadJobs.active.signal <= db[HotState].signal
    <3>1. threadJobs.active # NoJob
      BY DEF ThreadInvariant, ThreadTypeOK, PassAt, IsActive
    <3>. QED
      BY <3>1 DEF ThreadInvariant, JobsKnown, SignalKnown
  <2>2. db'[HotState].signal = db[HotState].signal
    BY <2>1, <1>4, <1>5
  <2>3. DirtyWork(db)
    BY <2>2, <1>4, <1>5
  <2>. QED
    BY <2>2, <2>3 DEF ThreadInvariant, NothingLeft
<1>. QED
  BY <1>3, <1>6, <1>7, <1>8, <1>9, <1>10 DEF ThreadInvariant

LEMMA ProjectorCommitKeeps ==
  ASSUME ThreadInvariant, CommitAct(Projector)
  PROVE  ThreadInvariant'
<1>1. Projector \in Sessions /\ WorkBatch \in Nat \ {0}
  BY ThreadFacts, ReplyThreadAssumption
<1>2. /\ CommitTxn(Projector) /\ projecting' = AfterCommit
      /\ UNCHANGED <<threadJobs, dispatched, acts, threadFaults>>
  BY DEF CommitAct
<1>3. /\ txn[Projector].open /\ db' = Apply(db, txn[Projector].writes)
      /\ ThreadRight(db') /\ TxnsRight' /\ TxnShape'
      /\ \A source \in Items(db') : db'[Item(source)].owner \in Agents
      /\ ThreadTyped(db) /\ DoesWork(db, txn[Projector].writes)
  BY <1>1, <1>2, CommitKeeps
<1>4. /\ db'[HotState].signal = db[HotState].signal /\ db'[HotState].dirty
      /\ db[HotState].signal \in Nat
  <2>1. DirtyWork(db) => db[HotState].dirty
    BY DEF ThreadInvariant, DirtyWorkIsSignalled
  <2>. QED
    BY <2>1, <1>3, ProjectorSignal DEF ThreadTyped, StateTyped, StateRecord
<1>5. ~txn'[Projector].open
  BY <1>1, <1>2 DEF CommitTxn, NoTxn
<1>6. /\ projecting' \in [at: {"fanout", "items"}, done: 0 .. WorkBatch]
      /\ ~PassAt("idle")
  <2>1. /\ projecting.at \in {"branch", "fanout", "items"}
        /\ PassAt("items") => projecting.done < WorkBatch
    BY <1>3 DEF ThreadInvariant, PassOpen
  <2>2. projecting.done \in 0 .. WorkBatch
        /\ projecting = [at |-> projecting.at, done |-> projecting.done]
    BY DEF ThreadInvariant, ThreadTypeOK
  <2>3. CASE PassAt("branch")
    BY <2>3, <1>1, <1>2 DEF AfterCommit, PassAt
  <2>4. CASE PassAt("fanout")
    BY <2>4, <1>1, <1>2 DEF AfterCommit, PassAt
  <2>5. CASE PassAt("items")
    <3>1. projecting' = [at |-> "items", done |-> projecting.done + 1]
      BY <2>2, <2>5, <1>2 DEF AfterCommit, PassAt
    <3>. QED
      BY <3>1, <2>1, <2>2, <2>5, <1>1 DEF PassAt
  <2>. QED
    BY <2>1, <2>3, <2>4, <2>5 DEF PassAt
<1>7. ThreadTypeOK'
  <2>1. projecting'.at # "idle"
    BY <1>6
  <2>. QED
    BY <2>1, <1>2, <1>3, <1>4, <1>6 DEF ThreadInvariant, ThreadTypeOK, PassAt
<1>8. JobsKnown'
  BY <1>2, <1>4, JobsStayKnown DEF ThreadInvariant
<1>9. NothingLeft' /\ PassOpen' /\ DirtyWorkIsSignalled'
  BY <1>4, <1>5, <1>6 DEF NothingLeft, PassOpen, DirtyWorkIsSignalled, PassAt
<1>. QED
  BY <1>3, <1>7, <1>8, <1>9 DEF ThreadInvariant

LEMMA ProjectorOpens ==
  ASSUME ThreadInvariant, NEW w, OpenTxn(Projector, w), StaysRight(db, w), DoesWork(db, w),
         UNCHANGED <<projecting, threadJobs, dispatched, acts, threadFaults>>,
         projecting.at \in {"branch", "fanout", "items"},
         PassAt("items") => projecting.done < WorkBatch
  PROVE  ThreadInvariant'
<1>1. db' = db /\ ThreadRight(db') /\ TxnsRight' /\ TxnShape'
  BY ThreadFacts, OpeningKeeps
<1>2. ThreadTypeOK' /\ JobsKnown' /\ NothingLeft' /\ PassOpen' /\ DirtyWorkIsSignalled'
  BY <1>1
     DEF ThreadInvariant, ThreadTypeOK, JobsKnown, SignalKnown, NothingLeft, PassOpen, PassAt,
         DirtyWorkIsSignalled
<1>. QED
  BY <1>1, <1>2 DEF ThreadInvariant

LEMMA TxnsRightUnchanged ==
  ASSUME UNCHANGED <<db, txn>>
  PROVE  /\ TxnsRight => TxnsRight'
         /\ TxnShape => TxnShape'
         /\ ThreadRight(db) => ThreadRight(db')
BY DEF TxnsRight, TxnShape

LEMMA ProjectorPasses ==
  ASSUME ThreadInvariant, NEW x \in {"fanout", "items", "check"}, PassTo(x, 0), ~PassAt("idle"),
         ~txn[Projector].open, UNCHANGED <<db, txn, threadJobs, dispatched, acts, threadFaults>>
  PROVE  ThreadInvariant'
<1>1. TxnsRight' /\ TxnShape' /\ ThreadRight(db')
  BY TxnsRightUnchanged DEF ThreadInvariant
<1>2. 0 \in 0 .. WorkBatch
  BY ReplyThreadAssumption
<1>3. projecting' = [at |-> x, done |-> 0]
  BY DEF PassTo
<1>4. ThreadTypeOK'
  BY <1>2, <1>3 DEF ThreadInvariant, ThreadTypeOK, PassAt
<1>5. JobsKnown' /\ NothingLeft' /\ PassOpen' /\ DirtyWorkIsSignalled'
  BY <1>3
     DEF ThreadInvariant, JobsKnown, SignalKnown, NothingLeft, PassOpen, PassAt,
         DirtyWorkIsSignalled
<1>. QED
  BY <1>1, <1>4, <1>5 DEF ThreadInvariant

LEMMA ExpandBranchKeeps ==
  ASSUME ThreadInvariant, ExpandBranch
  PROVE  ThreadInvariant'
<1>1. /\ PassAt("branch") /\ ~txn[Projector].open
      /\ UNCHANGED <<threadJobs, dispatched, acts, threadFaults>>
  BY DEF ExpandBranch
<1>2. CASE \E w : /\ OpenTxn(Projector, w) /\ StaysRight(db, w) /\ DoesWork(db, w)
                  /\ UNCHANGED projecting
  BY <1>1, <1>2, ProjectorOpens DEF PassAt
<1>3. CASE PassTo("fanout", 0) /\ UNCHANGED <<db, txn>>
  BY <1>1, <1>3, ProjectorPasses DEF PassAt
<1>. QED
  BY <1>2, <1>3, ExpandBranchRight DEF ThreadInvariant

LEMMA ExpandFanoutKeeps ==
  ASSUME ThreadInvariant, ExpandFanout
  PROVE  ThreadInvariant'
<1>1. /\ PassAt("fanout") /\ ~txn[Projector].open
      /\ UNCHANGED <<threadJobs, dispatched, acts, threadFaults>>
  BY DEF ExpandFanout
<1>2. CASE \E w : /\ OpenTxn(Projector, w) /\ StaysRight(db, w) /\ DoesWork(db, w)
                  /\ UNCHANGED projecting
  BY <1>1, <1>2, ProjectorOpens DEF PassAt
<1>3. CASE PassTo("items", 0) /\ UNCHANGED <<db, txn>>
  BY <1>1, <1>3, ProjectorPasses DEF PassAt
<1>. QED
  BY <1>2, <1>3, ExpandFanoutRight DEF ThreadInvariant

LEMMA ApplyItemKeeps ==
  ASSUME ThreadInvariant, ApplyItem
  PROVE  ThreadInvariant'
<1>1. /\ PassAt("items") /\ ~txn[Projector].open
      /\ UNCHANGED <<threadJobs, dispatched, acts, threadFaults>>
  BY DEF ApplyItem
<1>2. CASE /\ projecting.done < WorkBatch /\ UNCHANGED projecting
           /\ \E w : OpenTxn(Projector, w) /\ StaysRight(db, w) /\ DoesWork(db, w)
  BY <1>1, <1>2, ProjectorOpens DEF PassAt
<1>3. CASE PassTo("check", 0) /\ UNCHANGED <<db, txn>>
  BY <1>1, <1>3, ProjectorPasses DEF PassAt
<1>. QED
  BY <1>2, <1>3, ApplyItemRight DEF ThreadInvariant

LEMMA LookForMoreKeeps ==
  ASSUME ThreadInvariant, LookForMore
  PROVE  ThreadInvariant'
<1>1. /\ PassAt("check") /\ UNCHANGED <<db, txn, threadJobs, dispatched, acts, threadFaults>>
      /\ projecting' = [at |-> IF DirtyWork(db) THEN "more" ELSE "clear", done |-> 0]
  BY DEF LookForMore, PassTo
<1>2. TxnsRight' /\ TxnShape' /\ ThreadRight(db')
  BY <1>1, TxnsRightUnchanged DEF ThreadInvariant
<1>3. ~txn[Projector].open
  BY <1>1 DEF ThreadInvariant, PassOpen, PassAt
<1>4. 0 \in 0 .. WorkBatch
  BY ReplyThreadAssumption
<1>5. ThreadTypeOK'
  BY <1>1, <1>4 DEF ThreadInvariant, ThreadTypeOK, PassAt
<1>6. NothingLeft' /\ PassOpen'
  BY <1>1, <1>3 DEF NothingLeft, PassOpen, PassAt
<1>7. JobsKnown' /\ DirtyWorkIsSignalled'
  BY <1>1 DEF ThreadInvariant, JobsKnown, SignalKnown, DirtyWorkIsSignalled
<1>. QED
  BY <1>2, <1>5, <1>6, <1>7 DEF ThreadInvariant

(* What the queue does to the jobs: they stay known, and the active one is *)
(* the one that waited, the same, or none.                                 *)
LEMMA QueueFacts ==
  ASSUME NEW q \in QueueRecord
  PROVE  /\ LET p == Taken(q)
            IN  /\ p \in QueueRecord
                /\ p.waiting = NoJob /\ p.active = q.waiting /\ p.next = q.next
         /\ LET p == Finished(q)
            IN  /\ p \in QueueRecord
                /\ p.waiting = q.next /\ p.active = NoJob /\ p.next = NoJob
         /\ IsActive(q) =>
              LET p == Retried(q)
              IN  /\ p \in QueueRecord
                  /\ p.waiting \in JobRecord /\ p.waiting.signal = q.active.signal
                  /\ p.active = NoJob /\ p.next = q.next
<1>1. LET p == Taken(q)
      IN  /\ p \in QueueRecord
          /\ p.waiting = NoJob /\ p.active = q.waiting /\ p.next = q.next
  BY DEF Taken, QueueRecord
<1>2. LET p == Finished(q)
      IN  /\ p \in QueueRecord
          /\ p.waiting = q.next /\ p.active = NoJob /\ p.next = NoJob
  BY DEF Finished, QueueRecord
<1>3. ASSUME IsActive(q)
      PROVE  LET p == Retried(q)
             IN  /\ p \in QueueRecord
                 /\ p.waiting \in JobRecord /\ p.waiting.signal = q.active.signal
                 /\ p.active = NoJob /\ p.next = q.next
  <2>. DEFINE job == [q.active EXCEPT !.tries = @ + 1]
              p == [q EXCEPT !.waiting = job, !.active = NoJob]
  <2>1. q.active \in JobRecord
    BY <1>3 DEF IsActive, QueueRecord
  <2>2. job \in JobRecord /\ job.signal = q.active.signal
    BY <2>1 DEF JobRecord
  <2>3. Retried(q) = p
    BY DEF Retried
  <2>. HIDE DEF job
  <2>4. p \in QueueRecord /\ p.waiting = job /\ p.active = NoJob /\ p.next = q.next
    BY <2>2 DEF QueueRecord
  <2>. HIDE DEF p
  <2>. QED
    BY <2>2, <2>3, <2>4
<1>. QED
  BY <1>1, <1>2, <1>3

(* A step of the job that leaves the documents alone.                      *)
LEMMA JobStepKeeps ==
  ASSUME ThreadInvariant, UNCHANGED <<db, dispatched, acts>>,
         ThreadRight(db'), TxnsRight', TxnShape', ~txn'[Projector].open,
         threadFaults' \in 0 .. MaxThreadFaults, JobsKnown',
         NEW x \in {"idle", "branch"}, PassTo(x, 0), IsActive(threadJobs') <=> x # "idle"
  PROVE  ThreadInvariant'
<1>1. projecting' = [at |-> x, done |-> 0]
  BY DEF PassTo
<1>2. 0 \in 0 .. WorkBatch
  BY ReplyThreadAssumption
<1>3. ThreadTypeOK'
  BY <1>1, <1>2 DEF ThreadInvariant, ThreadTypeOK, PassAt
<1>4. NothingLeft' /\ PassOpen' /\ DirtyWorkIsSignalled'
  BY <1>1 DEF ThreadInvariant, NothingLeft, PassOpen, PassAt, DirtyWorkIsSignalled
<1>. QED
  BY <1>3, <1>4 DEF ThreadInvariant

LEMMA TakePostKeeps ==
  ASSUME ThreadInvariant, TakePost
  PROVE  ThreadInvariant'
<1>1. /\ PassAt("idle") /\ Waits(threadJobs) /\ threadJobs' = Taken(threadJobs)
      /\ PassTo("branch", 0) /\ UNCHANGED <<db, txn, dispatched, acts, threadFaults>>
  BY DEF TakePost
<1>2. JobsKnown /\ ~txn[Projector].open
  BY <1>1 DEF ThreadInvariant, PassOpen, PassAt
<1>3. /\ threadJobs' \in QueueRecord
      /\ threadJobs'.waiting = NoJob /\ threadJobs'.active = threadJobs.waiting
      /\ threadJobs'.next = threadJobs.next
  BY <1>1, <1>2, QueueFacts DEF JobsKnown
<1>4. JobsKnown' /\ IsActive(threadJobs')
  BY <1>1, <1>2, <1>3 DEF JobsKnown, SignalKnown, IsActive, Waits
<1>5. TxnsRight' /\ TxnShape' /\ ThreadRight(db') /\ threadFaults' \in 0 .. MaxThreadFaults
  BY <1>1, TxnsRightUnchanged DEF ThreadInvariant, ThreadTypeOK
<1>. QED
  BY <1>1, <1>2, <1>4, <1>5, JobStepKeeps

LEMMA ProjectionFailsKeeps ==
  ASSUME ThreadInvariant, ProjectionFails
  PROVE  ThreadInvariant'
<1>1. /\ ~PassAt("idle") /\ threadFaults < MaxThreadFaults
      /\ threadJobs' = IF threadJobs.active.tries < ThreadAttempts
                       THEN Retried(threadJobs) ELSE Finished(threadJobs)
      /\ txn' = [txn EXCEPT ![Projector] = NoTxn] /\ PassTo("idle", 0)
      /\ threadFaults' = threadFaults + 1 /\ UNCHANGED <<db, dispatched, acts>>
  BY DEF ProjectionFails
<1>2. JobsKnown /\ IsActive(threadJobs) /\ TxnShape /\ TxnsRight /\ ThreadRight(db)
  BY <1>1 DEF ThreadInvariant, ThreadTypeOK
<1>3. JobsKnown' /\ ~IsActive(threadJobs')
  <2>1. CASE threadJobs' = Retried(threadJobs)
    <3>1. /\ threadJobs' \in QueueRecord /\ threadJobs'.waiting \in JobRecord
          /\ threadJobs'.waiting.signal = threadJobs.active.signal
          /\ threadJobs'.active = NoJob /\ threadJobs'.next = threadJobs.next
      BY <2>1, <1>2, QueueFacts DEF JobsKnown
    <3>2. threadJobs.active.signal <= db[HotState].signal
      BY <1>2 DEF JobsKnown, SignalKnown, IsActive
    <3>. QED
      BY <3>1, <3>2, <1>1, <1>2 DEF JobsKnown, SignalKnown, IsActive
  <2>2. CASE threadJobs' = Finished(threadJobs)
    <3>1. /\ threadJobs' \in QueueRecord
          /\ threadJobs'.waiting = threadJobs.next /\ threadJobs'.active = NoJob
          /\ threadJobs'.next = NoJob
      BY <2>2, <1>2, QueueFacts DEF JobsKnown
    <3>. QED
      BY <3>1, <1>1, <1>2 DEF JobsKnown, SignalKnown, IsActive
  <2>. QED
    BY <2>1, <2>2, <1>1
<1>4. Projector \in Sessions
  BY ThreadFacts
<1>5. /\ TxnShape' /\ ~txn'[Projector].open
      /\ \A u \in Sessions : txn'[u].open => txn'[u] = txn[u] /\ u # Projector
  BY <1>1, <1>2, <1>4 DEF TxnShape, NoTxn
<1>6. TxnsRight'
  BY <1>1, <1>2, <1>5 DEF TxnsRight
<1>7. threadFaults' \in 0 .. MaxThreadFaults
  BY <1>1, ReplyThreadAssumption DEF ThreadInvariant, ThreadTypeOK
<1>. QED
  BY <1>1, <1>2, <1>3, <1>5, <1>6, <1>7, JobStepKeeps

(* Writing the flags of the state, with the same signal, disturbs nothing; *)
(* the post may be said to be clean only when it is.                       *)
LEMMA FlagsWritten ==
  ASSUME ThreadInvariant, NEW new, new \in StateRecord, KeepsState(new, db[HotState]),
         new.signal = db[HotState].signal, DirtyWork(db) => new.dirty, WriteState(new)
  PROVE  /\ ThreadRight(db') /\ TxnsRight' /\ TxnShape' /\ DirtyWorkIsSignalled'
         /\ \A source \in Items(db') : db'[Item(source)].owner \in Agents
         /\ db'[HotState].signal = db[HotState].signal /\ db[HotState].signal \in Nat
         /\ DirtyWork(db') => DirtyWork(db)
         /\ txn'[Projector].open => txn[Projector].open
<1>1. /\ ThreadRight(db') /\ TxnsRight' /\ TxnShape'
      /\ \A source \in Items(db') : db'[Item(source)].owner \in Agents
      /\ db'[HotState] = new
      /\ DirtyWork(db') => DirtyWork(db)
      /\ txn'[Projector].open => txn[Projector].open
  BY StateWritten
<1>2. db[HotState].signal \in Nat
  BY DEF ThreadInvariant, ThreadTypeOK
<1>. QED
  BY <1>1, <1>2 DEF DirtyWorkIsSignalled

LEMMA StateIsTyped ==
  ASSUME ThreadInvariant
  PROVE  /\ db[HotState] \in StateRecord
         /\ DirtyWork(db) => db[HotState].dirty
BY DEF ThreadInvariant, ThreadRight, ThreadTyped, StateTyped, DirtyWorkIsSignalled

LEMMA EndPostKeeps ==
  ASSUME ThreadInvariant, NEW new, new \in StateRecord, KeepsState(new, db[HotState]),
         new.signal = db[HotState].signal, DirtyWork(db) => new.dirty,
         PassAt("more") \/ PassAt("clear"), EndPost(new)
  PROVE  ThreadInvariant'
<1>1. /\ WriteState(new) /\ threadJobs' = Finished(threadJobs)
      /\ projecting' = [at |-> "idle", done |-> 0] /\ UNCHANGED <<dispatched, acts, threadFaults>>
  BY DEF EndPost, PassTo
<1>2. /\ ThreadRight(db') /\ TxnsRight' /\ TxnShape' /\ DirtyWorkIsSignalled'
      /\ \A source \in Items(db') : db'[Item(source)].owner \in Agents
      /\ db'[HotState].signal = db[HotState].signal /\ db[HotState].signal \in Nat
      /\ txn'[Projector].open => txn[Projector].open
  BY <1>1, FlagsWritten
<1>3. ~txn[Projector].open /\ JobsKnown
  BY DEF ThreadInvariant, PassOpen, PassAt
<1>4. /\ threadJobs' \in QueueRecord
      /\ threadJobs'.waiting = threadJobs.next /\ threadJobs'.active = NoJob
      /\ threadJobs'.next = NoJob
  BY <1>1, <1>3, QueueFacts DEF JobsKnown
<1>5. JobsKnown' /\ ~IsActive(threadJobs')
  BY <1>2, <1>3, <1>4 DEF JobsKnown, SignalKnown, IsActive
<1>6. 0 \in 0 .. WorkBatch
  BY ReplyThreadAssumption
<1>7. ThreadTypeOK'
  BY <1>1, <1>2, <1>5, <1>6 DEF ThreadInvariant, ThreadTypeOK, PassAt
<1>8. NothingLeft' /\ PassOpen'
  BY <1>1, <1>2, <1>3 DEF NothingLeft, PassOpen, PassAt
<1>. QED
  BY <1>2, <1>5, <1>7, <1>8 DEF ThreadInvariant

LEMMA KeepDirtyKeeps ==
  ASSUME ThreadInvariant, KeepDirty
  PROVE  ThreadInvariant'
<1>. DEFINE state == db[HotState]
            new == [state EXCEPT !.dirty = TRUE, !.ready = TRUE, !.live = FALSE]
<1>1. PassAt("more") /\ EndPost(new)
  BY DEF KeepDirty
<1>2. state \in StateRecord
  BY StateIsTyped
<1>. HIDE DEF state
<1>3. /\ new \in StateRecord /\ KeepsState(new, state)
      /\ new.signal = state.signal /\ new.dirty = TRUE
  BY <1>2 DEF StateRecord, KeepsState
<1>. HIDE DEF new
<1>. QED
  BY <1>1, <1>3, EndPostKeeps DEF state

LEMMA ClearDirtyKeeps ==
  ASSUME ThreadInvariant, ClearDirty
  PROVE  ThreadInvariant'
<1>. DEFINE state == db[HotState]
            clean == [state EXCEPT !.dirty = FALSE, !.ready = TRUE, !.live = FALSE]
            new == CleanAfter(state, threadJobs.active)
<1>1. PassAt("clear") /\ EndPost(new)
  BY DEF ClearDirty
<1>2. state \in StateRecord /\ (DirtyWork(db) => state.dirty)
  BY StateIsTyped
<1>3. state.signal = threadJobs.active.signal => ~DirtyWork(db)
  BY <1>1 DEF ThreadInvariant, NothingLeft
<1>4. new = IF state.signal = threadJobs.active.signal THEN clean ELSE state
  BY DEF CleanAfter
<1>. HIDE DEF state, new
<1>5. clean \in StateRecord /\ KeepsState(clean, state) /\ clean.signal = state.signal
  BY <1>2 DEF StateRecord, KeepsState
<1>. HIDE DEF clean
<1>6. /\ new \in StateRecord /\ KeepsState(new, state) /\ new.signal = state.signal
      /\ DirtyWork(db) => new.dirty
  BY <1>2, <1>3, <1>4, <1>5 DEF KeepsState
<1>. QED
  BY <1>1, <1>6, EndPostKeeps DEF state

(* The same for a write of the sweep.                                      *)
LEMMA SweepKeeps ==
  ASSUME ThreadInvariant, NEW new, new \in StateRecord, KeepsState(new, db[HotState]),
         new.signal = db[HotState].signal, new.dirty = db[HotState].dirty, WriteState(new),
         UNCHANGED <<threadJobs, projecting, acts>>,
         dispatched' \in 0 .. db[HotState].signal, threadFaults' \in 0 .. MaxThreadFaults
  PROVE  ThreadInvariant'
<1>1. /\ ThreadRight(db') /\ TxnsRight' /\ TxnShape' /\ DirtyWorkIsSignalled'
      /\ \A source \in Items(db') : db'[Item(source)].owner \in Agents
      /\ db'[HotState].signal = db[HotState].signal /\ db[HotState].signal \in Nat
      /\ DirtyWork(db') => DirtyWork(db)
      /\ txn'[Projector].open => txn[Projector].open
  BY FlagsWritten, StateIsTyped
<1>2. JobsKnown'
  BY <1>1, JobsStayKnown DEF ThreadInvariant
<1>3. ThreadTypeOK'
  BY <1>1 DEF ThreadInvariant, ThreadTypeOK, PassAt
<1>4. NothingLeft' /\ PassOpen'
  BY <1>1 DEF ThreadInvariant, NothingLeft, PassOpen, PassAt
<1>. QED
  BY <1>1, <1>2, <1>3, <1>4 DEF ThreadInvariant

LEMMA SweepStepKeeps ==
  ASSUME ThreadInvariant, ClaimDirtyPost \/ RetryDue \/ PostClaimExpires
  PROVE  ThreadInvariant'
<1>. DEFINE state == db[HotState]
            claimed == [state EXCEPT !.live = TRUE]
            due == [state EXCEPT !.ready = TRUE]
            free == [state EXCEPT !.live = FALSE]
<1>1. state \in StateRecord
  BY StateIsTyped
<1>2. /\ state.signal \in Nat /\ dispatched \in 0 .. state.signal
      /\ threadFaults \in 0 .. MaxThreadFaults
  BY DEF ThreadInvariant, ThreadTypeOK
<1>3. state.signal \in 0 .. state.signal
  BY <1>2
<1>4. PICK new : /\ new \in {claimed, due, free} /\ WriteState(new)
                 /\ dispatched' \in {dispatched, state.signal}
                 /\ UNCHANGED <<threadJobs, projecting, acts, threadFaults>>
  BY DEF ClaimDirtyPost, RetryDue, PostClaimExpires
<1>. HIDE DEF state
<1>5. \A x \in {claimed, due, free} :
        /\ x \in StateRecord /\ KeepsState(x, state)
        /\ x.signal = state.signal /\ x.dirty = state.dirty
  BY <1>1 DEF StateRecord, KeepsState
<1>. HIDE DEF claimed, due, free
<1>6. dispatched' \in 0 .. state.signal /\ threadFaults' \in 0 .. MaxThreadFaults
  BY <1>2, <1>3, <1>4
<1>7. /\ new \in StateRecord /\ KeepsState(new, state)
      /\ new.signal = state.signal /\ new.dirty = state.dirty
  BY <1>4, <1>5
<1>. QED
  BY <1>4, <1>6, <1>7, SweepKeeps DEF state

LEMMA QueueThrowsKeeps ==
  ASSUME ThreadInvariant, QueueThrows
  PROVE  ThreadInvariant'
<1>. DEFINE state == db[HotState]
            new == [state EXCEPT !.live = FALSE, !.ready = FALSE]
<1>1. /\ threadFaults' = threadFaults + 1 /\ threadFaults < MaxThreadFaults
      /\ dispatched' = 0 /\ UNCHANGED <<threadJobs, projecting, acts>>
      /\ WriteState(new) \/ UNCHANGED <<db, txn>>
  BY DEF QueueThrows
<1>2. state \in StateRecord /\ state.signal \in Nat
  BY StateIsTyped DEF StateRecord
<1>3. threadFaults' \in 0 .. MaxThreadFaults /\ dispatched' \in 0 .. state.signal
  BY <1>1, <1>2, ReplyThreadAssumption DEF ThreadInvariant, ThreadTypeOK
<1>4. CASE WriteState(new)
  <2>. HIDE DEF state
  <2>1. /\ new \in StateRecord /\ KeepsState(new, state)
        /\ new.signal = state.signal /\ new.dirty = state.dirty
    BY <1>2 DEF StateRecord, KeepsState
  <2>. HIDE DEF new
  <2>. QED
    BY <2>1, <1>1, <1>3, <1>4, SweepKeeps DEF state
<1>5. CASE UNCHANGED <<db, txn>>
  <2>1. TxnsRight' /\ TxnShape' /\ ThreadRight(db')
    BY <1>5, TxnsRightUnchanged DEF ThreadInvariant
  <2>2. ThreadTypeOK'
    BY <1>1, <1>3, <1>5 DEF ThreadInvariant, ThreadTypeOK, PassAt
  <2>3. JobsKnown' /\ NothingLeft' /\ PassOpen' /\ DirtyWorkIsSignalled'
    BY <1>1, <1>5
       DEF ThreadInvariant, JobsKnown, SignalKnown, NothingLeft, PassOpen, PassAt,
           DirtyWorkIsSignalled
  <2>. QED
    BY <2>1, <2>2, <2>3 DEF ThreadInvariant
<1>. QED
  BY <1>1, <1>4, <1>5

LEMMA QueuePostKeeps ==
  ASSUME ThreadInvariant, QueuePost
  PROVE  ThreadInvariant'
<1>. DEFINE job == [tries |-> 1, signal |-> dispatched]
<1>1. /\ dispatched # 0 /\ threadJobs' = Added(threadJobs, job) /\ dispatched' = 0
      /\ UNCHANGED <<db, txn, projecting, acts, threadFaults>>
  BY DEF QueuePost
<1>2. /\ JobsKnown /\ db[HotState].signal \in Nat /\ dispatched \in 0 .. db[HotState].signal
      /\ threadJobs \in QueueRecord
  BY DEF ThreadInvariant, ThreadTypeOK, JobsKnown
<1>3. job \in JobRecord /\ job.signal <= db[HotState].signal
  BY <1>2 DEF JobRecord
<1>. HIDE DEF job
<1>4. /\ threadJobs' \in QueueRecord /\ threadJobs'.active = threadJobs.active
      /\ threadJobs'.waiting \in {threadJobs.waiting, job}
      /\ threadJobs'.next \in {threadJobs.next, job}
  BY <1>1, <1>2, <1>3 DEF Added, QueueRecord
<1>5. JobsKnown' /\ (IsActive(threadJobs') <=> IsActive(threadJobs))
  BY <1>1, <1>2, <1>3, <1>4 DEF JobsKnown, SignalKnown, IsActive
<1>6. TxnsRight' /\ TxnShape' /\ ThreadRight(db')
  BY <1>1, TxnsRightUnchanged DEF ThreadInvariant
<1>7. ThreadTypeOK'
  BY <1>1, <1>2, <1>5 DEF ThreadInvariant, ThreadTypeOK, PassAt
<1>8. NothingLeft' /\ PassOpen' /\ DirtyWorkIsSignalled'
  BY <1>1, <1>4 DEF ThreadInvariant, NothingLeft, PassOpen, PassAt, DirtyWorkIsSignalled
<1>. QED
  BY <1>5, <1>6, <1>7, <1>8 DEF ThreadInvariant

LEMMA ThreadStutters ==
  ASSUME ThreadInvariant, UNCHANGED threadVars
  PROVE  ThreadInvariant'
<1>1. UNCHANGED <<db, txn>> /\ UNCHANGED <<threadJobs, dispatched, projecting, acts, threadFaults>>
  BY DEF threadVars
<1>2. TxnsRight' /\ TxnShape' /\ ThreadRight(db')
  BY <1>1, TxnsRightUnchanged DEF ThreadInvariant
<1>3. ThreadTypeOK' /\ JobsKnown' /\ NothingLeft' /\ PassOpen' /\ DirtyWorkIsSignalled'
  BY <1>1
     DEF ThreadInvariant, ThreadTypeOK, JobsKnown, SignalKnown, NothingLeft, PassOpen, PassAt,
         DirtyWorkIsSignalled
<1>. QED
  BY <1>2, <1>3 DEF ThreadInvariant

LEMMA ThreadStepKeeps ==
  ASSUME ThreadInvariant, [ThreadNext]_threadVars
  PROVE  ThreadInvariant'
<1>1. CASE UNCHANGED threadVars
  BY <1>1, ThreadStutters
<1>2. CASE \E s \in Users : UserStep(s) \/ CommitAct(s)
  BY <1>2, UserActKeeps, UserCommitKeeps
<1>3. CASE ProjectorStep
  BY <1>3, TakePostKeeps, ExpandBranchKeeps, ExpandFanoutKeeps, ApplyItemKeeps,
     ProjectorCommitKeeps, LookForMoreKeeps, KeepDirtyKeeps, ClearDirtyKeeps
     DEF ProjectorStep
<1>4. CASE DispatchStep \/ QueueThrows
  BY <1>4, SweepStepKeeps, QueuePostKeeps, QueueThrowsKeeps DEF DispatchStep
<1>5. CASE ProjectionFails
  BY <1>5, ProjectionFailsKeeps
<1>. QED
  BY <1>1, <1>2, <1>3, <1>4, <1>5 DEF ThreadNext

(* The invariant says what the thread promises.                            *)
LEMMA ThreadIsRight ==
  ASSUME ThreadInvariant
  PROVE  ThreadIsConsistent
<1>1. /\ PostCounts(db) /\ StateCounts(db) /\ DirtyWorkIsSignalled
      /\ \A r \in Replies : RootCounts(db, r) /\ ReplyCounts(db, r)
  BY DEF ThreadInvariant, ThreadRight
<1>2. ReplyCountsAreRight
  BY <1>1 DEF ReplyCountsAreRight, PostCounts, Shown, RootCounts, Kept, RepliesIn
<1>3. FeedbackCountsAreRight
  BY <1>1 DEF FeedbackCountsAreRight, ReplyCounts, OfKind, RepliesIn
<1>4. HotCountsAreItems
  <2>1. \A a, t : Counted(db, a, t) > 0 <=> CountedFor(db, a, t) # {}
    <3>. TAKE a, t
    <3>. QED
      BY CountedIs, CountedSetsAreFinite, CountIsPositive
  <2>2. {a \in Agents : \E t \in {"reply", "feedback"} : Counted(db, a, t) > 0}
          = Participants(db)
    BY <2>1 DEF Participants
  <2>3. {a \in Agents : \E t \in {"feedback"} : Counted(db, a, t) > 0} = Supporters(db)
    BY <2>1 DEF Supporters
  <2>4. {source \in Items(db) : source[1] = "reply" /\ db[Item(source)].counted}
          = CountedReplies(db)
    BY DEF Items, CountedReplies, IsCounted
  <2>. QED
    BY <1>1, <2>2, <2>3, <2>4 DEF HotCountsAreItems, StateCounts
<1>. QED
  BY <1>1, <1>2, <1>3, <1>4 DEF ThreadIsConsistent

LEMMA ThreadInvariantHolds == ThreadInit /\ [][ThreadNext]_threadVars => []ThreadInvariant
<1>1. ThreadInit => ThreadInvariant
  BY ThreadStarts
<1>2. ThreadInvariant /\ [ThreadNext]_threadVars => ThreadInvariant'
  BY ThreadStepKeeps
<1>. QED
  BY <1>1, <1>2, PTL

(* Every step leaves the job, its queue and its claim in a state that the  *)
(* projection knows, and every work item belongs to one who takes part.    *)
THEOREM ThreadTypeCorrect == ThreadSpec => []ThreadTypeOK
<1>1. ThreadInvariant => ThreadTypeOK
  BY DEF ThreadInvariant
<1>. QED
  BY <1>1, ThreadInvariantHolds, PTL DEF ThreadSpec

(* However the transactions of any number of users and of the projection   *)
(* interleave, conflict or fail: the counters of the post, of its replies, *)
(* of their feedback and of the ranking are at every moment those of what  *)
(* they count, and work that is left is signalled.                         *)
THEOREM ThreadStaysConsistent == ThreadSpec => []ThreadIsConsistent
<1>1. ThreadInvariant => ThreadIsConsistent
  BY ThreadIsRight
<1>. QED
  BY <1>1, ThreadInvariantHolds, PTL DEF ThreadSpec

=============================================================================
