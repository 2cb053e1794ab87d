---------------------------- MODULE ReplyThread ----------------------------
(***************************************************************************)
(* One post with its replies and their feedback, and the projection of     *)
(* both into the counts that make the post hot.  A user's transaction      *)
(* changes a reply or a feedback, the counters of the forum and the work   *)
(* items of HotRankingWorkService; the job of HotRankingProjectionService  *)
(* later expands fan-outs into work items and applies the items one by     *)
(* one, each in a transaction.  An agent stands for its owner as well.     *)
(***************************************************************************)
EXTENDS Naturals, FiniteSets, FiniteSetsExt, DedupQueue, Transactions

CONSTANTS
  Replies,          \* numbers of replies, in the order of their ids
  Agents, Author,   \* those who take part; the author of the post
  RootAuthor, ChildAuthor, \* the authors of its first reply and of the answer
  FeedbackIds,      \* numbers for the ids of feedback documents
  FanoutBatch,      \* HOT_REPLY_BRANCH_FANOUT_BATCH_SIZE
  WorkBatch,        \* HOT_PROJECTION_WORK_BATCH_SIZE
  MinParticipants,  \* HOT_MIN_PARTICIPANT_COUNT
  MinPositive,      \* HOT_MIN_POSITIVE_OWNER_COUNT
  ThreadAttempts,   \* HOT_JOB_ATTEMPTS
  Projector,        \* the session of the projection job
  MaxActs,          \* bound: transactions of users
  MaxThreadFaults   \* bound: attempts of the job that fail

ASSUME ReplyThreadAssumption ==
  /\ Replies \cup FeedbackIds \subseteq Nat \ {0} /\ {1, 2} \subseteq Replies
  /\ IsFiniteSet(Replies) /\ IsFiniteSet(FeedbackIds) /\ IsFiniteSet(Agents)
  /\ {Author, RootAuthor, ChildAuthor} \subseteq Agents /\ Projector \in Sessions
  /\ {FanoutBatch, WorkBatch, MinParticipants, MinPositive, ThreadAttempts}
       \subseteq Nat \ {0}
  /\ {MaxActs, MaxThreadFaults} \subseteq Nat

VARIABLES
  threadJobs,     \* BullMQ: the projection jobs of the post
  dispatched,     \* the signal a sweep has claimed and not yet queued, or 0
  projecting,     \* where the job is, and how many items it has applied
  acts, threadFaults

threadVars ==
  <<db, txn, threadJobs, dispatched, projecting, acts, threadFaults>>

Users == Sessions \ {Projector}

-----------------------------------------------------------------------------
(* Documents.                                                              *)

Post           == <<"post">>
Reply(r)       == <<"reply", r>>
Feedback(r, a) == <<"feedback", r, a>>
Item(source)   == <<"item", source>>
Branch(r)      == <<"branch", r>>
Fanout(r)      == <<"fanout", r>>
HotState       == <<"state">>

Gone == [gone |-> TRUE]

Exists(d, id) == Has(d, id) /\ d[id] # Gone

NewReply(a, root) ==
  [author |-> a, root |-> root, deleted |-> FALSE, children |-> 0,
   positive |-> 0, negative |-> 0]

IsRoot(reply) == reply.root = 0

(* Reply r of documents d is shown, as far as it and its root decide.      *)
BranchVisible(d, r) ==
  /\ ~d[Reply(r)].deleted
  /\ IsRoot(d[Reply(r)]) \/ ~d[Reply(d[Reply(r)].root)].deleted

RepliesIn(d)     == {r \in Replies : Has(d, Reply(r))}
ChildrenIn(d, r) == {c \in RepliesIn(d) : d[Reply(c)].root = r}
FeedbackIn(d, r) == {a \in Agents : Exists(d, Feedback(r, a))}

(* A work item says what should be counted and what has been counted.      *)
NewItem(owner) ==
  [owner |-> owner, active |-> TRUE, source |-> TRUE, counted |-> FALSE,
   dirty |-> TRUE]

NewFanout == [cursor |-> 0, dirty |-> TRUE]

Sources ==
  {<<"reply", r>> : r \in Replies} \cup {<<"feedback", n>> : n \in FeedbackIds}

Items(d) == {source \in Sources : Exists(d, Item(source))}

DirtyItems(d)    == {source \in Items(d) : d[Item(source)].dirty}
DirtyBranches(d) == {r \in Replies : Has(d, Branch(r)) /\ d[Branch(r)].dirty}
DirtyFanouts(d)  == {r \in Replies : Has(d, Fanout(r)) /\ d[Fanout(r)].dirty}

DirtyWork(d) ==
  DirtyItems(d) # {} \/ DirtyBranches(d) # {} \/ DirtyFanouts(d) # {}

FirstAuthor(r) == IF r = 1 THEN RootAuthor ELSE ChildAuthor

(* A root and a child, counted and at rest.                                *)
ThreadInit ==
  /\ LET counted == {r \in {1, 2} : FirstAuthor(r) # Author} IN
     db = [id \in {Post, Reply(1), Reply(2), HotState}
             \cup {Item(<<"reply", r>>) : r \in counted} |->
       CASE id = Post -> [replies |-> 2]
         [] id = Reply(1) -> [NewReply(RootAuthor, 0) EXCEPT !.children = 1]
         [] id = Reply(2) -> NewReply(ChildAuthor, 1)
         [] id = HotState ->
              [participants |-> Cardinality({FirstAuthor(r) : r \in counted}),
               positive |-> 0, replies |-> Cardinality(counted), eligible |-> FALSE,
               signal |-> 1, dirty |-> FALSE, ready |-> TRUE, live |-> FALSE]
         [] OTHER -> [NewItem(FirstAuthor(id[2][2])) EXCEPT !.counted = TRUE,
                                                            !.dirty = FALSE]]
  /\ txn = [s \in Sessions |-> NoTxn]
  /\ threadJobs = EmptyQueue
  /\ dispatched = 0
  /\ projecting = [at |-> "idle", done |-> 0]
  /\ acts = 0
  /\ threadFaults = 0

-----------------------------------------------------------------------------
(* What the transactions of users write.  Each operator takes the writes   *)
(* w of the transaction so far and adds its own.                           *)

Seen(w) == Apply(db, w)

(* markStateProjectionDirty                                                *)
Signalled(w) ==
  Apply(w, Put(HotState, [Seen(w)[HotState] EXCEPT !.signal = @ + 1,
    !.dirty = TRUE, !.ready = TRUE, !.live = FALSE]))

(* upsertWorkItem, and the signal when it says that the item has changed.  *)
WithItem(w, source, owner, active, exists) ==
  LET id  == Item(source)
      old == Seen(w)[id]
  IN  CASE ~Exists(Seen(w), id) ->
             IF active THEN Signalled(Apply(w, Put(id, NewItem(owner)))) ELSE w
        [] OTHER ->
             IF /\ old.active = active /\ old.source = exists
                /\ ~(active /\ source[1] = "feedback")  \* a later activityAt
             THEN w
             ELSE IF ~old.dirty /\ ~old.counted /\ ~active /\ ~exists
             THEN Apply(w, Put(id, Gone))
             ELSE Signalled(Apply(w, Put(id, [old EXCEPT !.active = active,
                                                !.source = exists, !.dirty = TRUE])))

(* scheduleReplyFeedbackFanout, scheduleReplyBranchFanout                  *)
WithFanouts(w, r) ==
  LET both == IF IsRoot(db[Reply(r)]) THEN {Fanout(r), Branch(r)} ELSE {Fanout(r)}
  IN  Apply(w, [id \in both |-> NewFanout])

WithReplyItem(w, r) ==
  WithItem(w, <<"reply", r>>, Seen(w)[Reply(r)].author,
           BranchVisible(Seen(w), r) /\ Seen(w)[Reply(r)].author # Author, TRUE)

(* recordReplyVisibilityChanged of HotRankingWorkService: it signals       *)
(* whether or not the item has changed.                                    *)
HotVisibilityChanged(w, r) == Signalled(WithFanouts(WithReplyItem(w, r), r))

(* applyPostReplyCountDelta refuses a count below zero.                    *)
Countable(n) == n >= 0

PostCount(w, n) == Apply(w, Put(Post, [replies |-> n]))

(* recordReplyVisibilityChanged of ReplyCounterService.                    *)
CountVisibility(w, r, delta) ==
  LET reply == db[Reply(r)]
      root  == Seen(w)[Reply(reply.root)]
      n     == db[Post].replies
  IN  IF IsRoot(reply) THEN PostCount(w, n + delta * (1 + reply.children))
      ELSE LET counted == Apply(w, Put(Reply(reply.root),
                            [root EXCEPT !.children = @ + delta]))
           IN  IF root.deleted THEN counted ELSE PostCount(counted, n + delta)

UserActs(s, writes) ==
  /\ acts < MaxActs
  /\ OpenTxn(s, writes)
  /\ acts' = acts + 1
  /\ UNCHANGED <<threadJobs, dispatched, projecting, threadFaults>>

(* createReply: a root, or a child of a root that is shown.                *)
CreateReply(s, a, root) ==
  \E r \in Replies \ RepliesIn(db) :
    /\ \A q \in Replies \ RepliesIn(db) : r <= q
    /\ root # 0 => /\ root \in RepliesIn(db) /\ IsRoot(db[Reply(root)])
                   /\ ~db[Reply(root)].deleted
    /\ LET reply  == Put(Reply(r), NewReply(a, root))
           parent == IF root = 0 THEN <<>>
                     ELSE Put(Reply(root), [db[Reply(root)] EXCEPT !.children = @ + 1])
       IN  UserActs(s, WithReplyItem(
             PostCount(Apply(reply, parent), db[Post].replies + 1), r))

(* setContentRemovedInTransaction for a reply.                             *)
SetRemoved(s, r, removed) ==
  /\ r \in RepliesIn(db) /\ db[Reply(r)].deleted # removed
  /\ LET w       == Put(Reply(r), [db[Reply(r)] EXCEPT !.deleted = removed])
         counted == CountVisibility(w, r, IF removed THEN 0 - 1 ELSE 1)
     IN  /\ Countable(Seen(counted)[Post].replies)
         /\ UserActs(s, HotVisibilityChanged(counted, r))

FeedbackIdsUsed ==
  {db[Feedback(x[1], x[2])].id : x \in
     {y \in Replies \X Agents : Exists(db, Feedback(y[1], y[2]))}}
  \cup {source[2] : source \in {x \in Sources : x[1] = "feedback" /\
          (Exists(db, Item(x)) \/ \E s \in Sessions : Has(txn[s].writes, Item(x)))}}

WithFeedback(r, a, kind, id, counts) ==
  LET w == Apply(Put(Reply(r), counts),
                 Put(Feedback(r, a), IF kind = "none" THEN Gone
                                     ELSE [kind |-> kind, id |-> id]))
  IN  WithItem(w, <<"feedback", id>>, a,
        BranchVisible(Seen(w), r) /\ a # Author /\ kind = "positive",
        kind # "none")

Plus(reply, kind, n) ==
  IF kind = "positive" THEN [reply EXCEPT !.positive = @ + n]
  ELSE [reply EXCEPT !.negative = @ + n]

(* feedbackOnReply: given, taken back when it is given again, or changed.  *)
(* It looks at the reply and not at the reply's root.                      *)
GiveFeedback(s, a, r, kind) ==
  /\ r \in RepliesIn(db)
  /\ ~db[Reply(r)].deleted /\ db[Reply(r)].author # a
  /\ LET reply == db[Reply(r)]
         old   == db[Feedback(r, a)]
     IN  \/ /\ ~Exists(db, Feedback(r, a))
            /\ FeedbackIds \ FeedbackIdsUsed # {}
            /\ UserActs(s, WithFeedback(r, a, kind, Min(FeedbackIds \ FeedbackIdsUsed),
                                        Plus(reply, kind, 1)))
         \/ /\ Exists(db, Feedback(r, a)) /\ old.kind = kind
            /\ UserActs(s, WithFeedback(r, a, "none", old.id, Plus(reply, kind, 0 - 1)))
         \/ /\ Exists(db, Feedback(r, a)) /\ old.kind # kind
            /\ UserActs(s, WithFeedback(r, a, kind, old.id,
                             Plus(Plus(reply, kind, 1), old.kind, 0 - 1)))

-----------------------------------------------------------------------------
(* dispatchDirtyPosts                                                      *)

(* An update outside a transaction; a transaction that writes the same     *)
(* document can no longer commit.                                          *)
WriteState(new) ==
  /\ db' = Apply(db, Put(HotState, new))
  /\ txn' = [s \in Sessions |->
               IF HotState \in DOMAIN txn[s].writes THEN NoTxn ELSE txn[s]]

ClaimDirtyPost ==
  LET state == db[HotState] IN
  /\ dispatched = 0
  /\ state.dirty /\ state.ready /\ ~state.live
  /\ WriteState([state EXCEPT !.live = TRUE])
  /\ dispatched' = state.signal
  /\ UNCHANGED <<threadJobs, projecting, acts, threadFaults>>

QueuePost ==
  /\ dispatched # 0
  /\ threadJobs' = Added(threadJobs, [tries |-> 1, signal |-> dispatched])
  /\ dispatched' = 0
  /\ UNCHANGED <<db, txn, projecting, acts, threadFaults>>

(* The claim is handed back, unless there was a signal since; or the       *)
(* process dies before it has queued anything, and the claim expires.      *)
QueueThrows ==
  /\ dispatched # 0 /\ threadFaults < MaxThreadFaults
  /\ \/ LET state == db[HotState]
        IN  /\ state.dirty /\ state.signal = dispatched
            /\ WriteState([state EXCEPT !.live = FALSE, !.ready = FALSE])
     \/ UNCHANGED <<db, txn>>
  /\ dispatched' = 0
  /\ threadFaults' = threadFaults + 1
  /\ UNCHANGED <<threadJobs, projecting, acts>>

RetryDue ==
  /\ ~db[HotState].ready
  /\ WriteState([db[HotState] EXCEPT !.ready = TRUE])
  /\ UNCHANGED <<threadJobs, dispatched, projecting, acts, threadFaults>>

(* The claim outlives every attempt of the job it was made for.            *)
PostClaimExpires ==
  /\ db[HotState].live
  /\ dispatched = 0 /\ threadJobs = EmptyQueue
  /\ WriteState([db[HotState] EXCEPT !.live = FALSE])
  /\ UNCHANGED <<threadJobs, dispatched, projecting, acts, threadFaults>>

-----------------------------------------------------------------------------
(* projectPost                                                             *)

PassAt(step) == projecting.at = step

PassTo(step, n) == projecting' = [at |-> step, done |-> n]

TakePost ==
  /\ PassAt("idle") /\ Waits(threadJobs)
  /\ threadJobs' = Taken(threadJobs)
  /\ PassTo("branch", 0)
  /\ UNCHANGED <<db, txn, dispatched, acts, threadFaults>>

(* The first FanoutBatch elements of S above the cursor.                   *)
Page(S, cursor) ==
  {x \in S : x > cursor
     /\ Cardinality({y \in S : y > cursor /\ y <= x}) <= FanoutBatch}

Advanced(fanout, S) ==
  LET page == Page(S, fanout.cursor)
  IN  IF \E x \in S : x > fanout.cursor /\ x \notin page
      THEN [fanout EXCEPT !.cursor = Max(page)]
      ELSE [cursor |-> 0, dirty |-> FALSE]

(* syncBranchReplyContributions, for child c of a branch: no signal, and   *)
(* nothing is written when the item already says so.                       *)
SyncedItem(d, c) ==
  LET reply  == d[Reply(c)]
      active == BranchVisible(d, c) /\ reply.author # Author
      id     == Item(<<"reply", c>>)
  IN  IF ~Exists(d, id)
      THEN IF active THEN Put(id, NewItem(reply.author)) ELSE <<>>
      ELSE IF d[id].active = active THEN <<>>
      ELSE Put(id, [d[id] EXCEPT !.active = active, !.dirty = TRUE])

(* The writes to the children of a page, in one bulkWrite.                 *)
Merged(writes) ==
  [id \in UNION {DOMAIN writes[c] : c \in DOMAIN writes} |->
     writes[CHOOSE c \in DOMAIN writes : id \in DOMAIN writes[c]][id]]

(* processOneBranchFanoutBatch                                             *)
ExpandBranch ==
  /\ PassAt("branch") /\ ~txn[Projector].open
  /\ \/ \E r \in DirtyBranches(db) :
          LET page == Page(ChildrenIn(db, r), db[Branch(r)].cursor)
              synced == Merged([c \in page |-> SyncedItem(db, c)])
              liked == {c \in page : db[Reply(c)].positive > 0}
          IN  /\ r = Min(DirtyBranches(db))
              /\ OpenTxn(Projector,
                   Apply(Apply(synced, [id \in {Fanout(c) : c \in liked} |-> NewFanout]),
                         Put(Branch(r), Advanced(db[Branch(r)], ChildrenIn(db, r)))))
              /\ UNCHANGED projecting
     \/ DirtyBranches(db) = {} /\ PassTo("fanout", 0) /\ UNCHANGED <<db, txn>>
  /\ UNCHANGED <<threadJobs, dispatched, acts, threadFaults>>

(* processOneFanoutBatch: every positive feedback of a reply gets, or      *)
(* keeps, an item that is dirty again.                                     *)
Positive(r) ==
  {db[Feedback(r, a)].id : a \in {b \in FeedbackIn(db, r) :
     db[Feedback(r, b)].kind = "positive"}}

Giver(r, n) == CHOOSE a \in FeedbackIn(db, r) : db[Feedback(r, a)].id = n

FanoutItem(r, n) ==
  LET id     == Item(<<"feedback", n>>)
      active == BranchVisible(db, r) /\ Giver(r, n) # Author
  IN  IF Exists(db, id)
      THEN [db[id] EXCEPT !.active = active, !.source = TRUE, !.dirty = TRUE]
      ELSE [NewItem(Giver(r, n)) EXCEPT !.active = active]

ExpandFanout ==
  /\ PassAt("fanout") /\ ~txn[Projector].open
  /\ \/ \E r \in DirtyFanouts(db) :
          LET page == Page(Positive(r), db[Fanout(r)].cursor) IN
          /\ r = Min(DirtyFanouts(db))
          /\ OpenTxn(Projector,
               Apply([id \in {Item(<<"feedback", n>>) : n \in page} |-> FanoutItem(r, id[2][2])],
                     Put(Fanout(r), Advanced(db[Fanout(r)], Positive(r)))))
          /\ UNCHANGED projecting
     \/ DirtyFanouts(db) = {} /\ PassTo("items", 0) /\ UNCHANGED <<db, txn>>
  /\ UNCHANGED <<threadJobs, dispatched, acts, threadFaults>>

(* The replies and the feedback that are counted for an owner.             *)
Counted(d, owner, type) ==
  Cardinality({source \in Items(d) : /\ source[1] = type
                                     /\ d[Item(source)].owner = owner
                                     /\ d[Item(source)].counted})

Takes01(b) == IF b THEN 1 ELSE 0

Eligible(participants, positive) ==
  participants >= MinParticipants /\ positive >= MinPositive

(* The state after the counts of one owner went from m and f to n and g.   *)
Recounted(state, m, f, n, g) ==
  LET participants == (state.participants + Takes01(n + g > 0)) - Takes01(m + f > 0)
      positive     == (state.positive + Takes01(g > 0)) - Takes01(f > 0)
  IN  [state EXCEPT !.participants = participants, !.positive = positive,
         !.replies = (@ + n) - m, !.eligible = Eligible(participants, positive)]

(* processOneContribution.  The participant document holds what the items  *)
(* of the owner add up to, and is read as such.                            *)
ApplyItem ==
  /\ PassAt("items") /\ ~txn[Projector].open
  /\ \/ /\ projecting.done < WorkBatch
        /\ \E source \in DirtyItems(db) :
             LET item == db[Item(source)]
                 new  == IF source[1] = "feedback" /\ ~item.source THEN Gone
                         ELSE [item EXCEPT !.counted = item.active, !.dirty = FALSE]
                 w    == Put(Item(source), new)
                 N(d, type) == Counted(d, item.owner, type)
             IN  OpenTxn(Projector, Apply(w, Put(HotState,
                   Recounted(db[HotState], N(db, "reply"), N(db, "feedback"),
                     N(Seen(w), "reply"), N(Seen(w), "feedback")))))
        /\ UNCHANGED projecting
     \/ /\ projecting.done = WorkBatch \/ DirtyItems(db) = {}
        /\ PassTo("check", 0) /\ UNCHANGED <<db, txn>>
  /\ UNCHANGED <<threadJobs, dispatched, acts, threadFaults>>

AfterCommit ==
  CASE PassAt("branch") -> [at |-> "fanout", done |-> 0]
    [] PassAt("fanout") -> [at |-> "items", done |-> 0]
    [] OTHER        -> [projecting EXCEPT !.done = @ + 1]

CommitAct(s) ==
  /\ CommitTxn(s)
  /\ projecting' = IF s = Projector THEN AfterCommit ELSE projecting
  /\ UNCHANGED <<threadJobs, dispatched, acts, threadFaults>>

(* What is still dirty is read before the state is written.                *)
LookForMore ==
  /\ PassAt("check")
  /\ PassTo(IF DirtyWork(db) THEN "more" ELSE "clear", 0)
  /\ UNCHANGED <<db, txn, threadJobs, dispatched, acts, threadFaults>>

EndPost(new) ==
  /\ WriteState(new)
  /\ threadJobs' = Finished(threadJobs)
  /\ PassTo("idle", 0)
  /\ UNCHANGED <<dispatched, acts, threadFaults>>

KeepDirty ==
  /\ PassAt("more")
  /\ EndPost([db[HotState] EXCEPT !.dirty = TRUE, !.ready = TRUE, !.live = FALSE])

(* Mutant: the post is declared clean whatever has been signalled since.   *)
BugClearedAnyway(state, job) ==
  [state EXCEPT !.dirty = FALSE, !.ready = TRUE, !.live = FALSE]

CleanAfter(state, job) ==
  IF state.signal = job.signal
  THEN [state EXCEPT !.dirty = FALSE, !.ready = TRUE, !.live = FALSE]
  ELSE state

ClearDirty ==
  /\ PassAt("clear")
  /\ EndPost(CleanAfter(db[HotState], threadJobs.active))

(* An attempt throws, or the process dies and the job is given out again.  *)
ProjectionFails ==
  /\ ~PassAt("idle") /\ threadFaults < MaxThreadFaults
  /\ threadJobs' = IF threadJobs.active.tries < ThreadAttempts
                   THEN Retried(threadJobs) ELSE Finished(threadJobs)
  /\ txn' = [txn EXCEPT ![Projector] = NoTxn]
  /\ PassTo("idle", 0)
  /\ threadFaults' = threadFaults + 1
  /\ UNCHANGED <<db, dispatched, acts>>

-----------------------------------------------------------------------------
UserStep(s) ==
  \/ \E a \in Agents, root \in {0, 1} : CreateReply(s, a, root)
  \/ \E r \in Replies, removed \in BOOLEAN : SetRemoved(s, r, removed)
  \/ \E a \in Agents, r \in Replies, kind \in {"positive", "negative"} :
       GiveFeedback(s, a, r, kind)

ProjectorStep ==
  \/ TakePost \/ ExpandBranch \/ ExpandFanout \/ ApplyItem \/ CommitAct(Projector)
  \/ LookForMore \/ KeepDirty \/ ClearDirty

DispatchStep == ClaimDirtyPost \/ QueuePost \/ RetryDue \/ PostClaimExpires

ThreadNext ==
  \/ \E s \in Users : UserStep(s) \/ CommitAct(s)
  \/ ProjectorStep \/ DispatchStep \/ QueueThrows \/ ProjectionFails

(* The schedulers repeat the sweep, the queue has a worker, and every user  *)
(* transaction that has begun commits or aborts.                            *)
ThreadFairness ==
  /\ WF_threadVars(ProjectorStep) /\ WF_threadVars(DispatchStep)
  /\ \A s \in Users : WF_threadVars(CommitAct(s))

ThreadSpec == ThreadInit /\ [][ThreadNext]_threadVars /\ ThreadFairness

-----------------------------------------------------------------------------
(* What must hold.                                                         *)

ThreadTypeOK ==
  /\ projecting \in [at: {"idle", "branch", "fanout", "items", "check", "more", "clear"},
                     done: 0 .. WorkBatch]
  /\ IsActive(threadJobs) <=> ~PassAt("idle")
  /\ db[HotState].signal \in Nat /\ dispatched \in 0 .. db[HotState].signal
  /\ \A source \in Items(db) : db[Item(source)].owner \in Agents
  /\ acts \in 0 .. MaxActs /\ threadFaults \in 0 .. MaxThreadFaults

(* The post counts the replies that are shown, and a root the children     *)
(* that are not removed, whether the root is shown or not: children that   *)
(* are created, removed and restored at the same time as their root all    *)
(* change the same two numbers.                                            *)
ReplyCountsAreRight ==
  /\ db[Post].replies = Cardinality({r \in RepliesIn(db) : BranchVisible(db, r)})
  /\ \A r \in RepliesIn(db) :
       db[Reply(r)].children =
         Cardinality({c \in ChildrenIn(db, r) : ~db[Reply(c)].deleted})

(* The feedback counters of a reply are the feedback it has, however often *)
(* it was given, changed and taken back.                                   *)
FeedbackCountsAreRight ==
  \A r \in RepliesIn(db) :
    LET Of(kind) == {a \in FeedbackIn(db, r) : db[Feedback(r, a)].kind = kind}
    IN  /\ db[Reply(r)].positive = Cardinality(Of("positive"))
        /\ db[Reply(r)].negative = Cardinality(Of("negative"))

(* The numbers that make a post hot are those of its projected items, each *)
(* owner counted once, although they are kept by adding differences.       *)
HotCountsAreItems ==
  LET state == db[HotState]
      Owners(types) == {a \in Agents : \E t \in types : Counted(db, a, t) > 0}
  IN  /\ state.participants = Cardinality(Owners({"reply", "feedback"}))
      /\ state.positive = Cardinality(Owners({"feedback"}))
      /\ state.replies = Cardinality({source \in Items(db) :
                           source[1] = "reply" /\ db[Item(source)].counted})
      /\ state.eligible = Eligible(state.participants, state.positive)

(* No work is left behind: as long as an item or a fan-out is dirty, the   *)
(* post is dirty, so that another sweep finds it, even if the work arrived *)
(* between the last read of a job and its last write.                      *)
DirtyWorkIsSignalled == DirtyWork(db) => db[HotState].dirty

(* The thread is consistent at every moment: its counters are those of its *)
(* replies, feedback and items, and work that is left is signalled.        *)
ThreadIsConsistent ==
  /\ ReplyCountsAreRight
  /\ FeedbackCountsAreRight
  /\ HotCountsAreItems
  /\ DirtyWorkIsSignalled

(* The items of replies agree with what is shown once the post is clean.   *)
(* The code does not guarantee it: a fan-out over a branch and the removal *)
(* of one of its children only read what the other writes.                 *)
RepliesConverge ==
  ~db[HotState].dirty =>
    \A r \in RepliesIn(db) :
      (Exists(db, Item(<<"reply", r>>)) /\ db[Item(<<"reply", r>>)].counted)
        <=> (BranchVisible(db, r) /\ db[Reply(r)].author # Author)

=============================================================================
