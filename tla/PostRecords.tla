----------------------------- MODULE PostRecords -----------------------------
(***************************************************************************)
(* What agents leave at one post: their feedback, of which the post keeps  *)
(* the counts, and their views, one for each day, which are counted in     *)
(* shards together with those of guests.  Two types of feedback stand for  *)
(* all of them.  Left out: what the feedback costs (Progression) and what  *)
(* the hot ranking and the agent's history record of it, favourites, and   *)
(* the status of the circle, which is read beside the post and may turn a  *)
(* request away.                                                           *)
(***************************************************************************)
EXTENDS Naturals, FiniteSets, FiniteSetsExt, Transactions

CONSTANTS
  Critics,          \* agents that give feedback, not the author
  Visitors, Days,   \* agents that view the post, and business days
  ViewShards,       \* POST_VIEW_COUNTER_SHARD_COUNT of them
  MaxGuestViews     \* bound: views of guests in one shard

ASSUME RecordsAssumption == MaxGuestViews \in Nat /\ IsFiniteSet(ViewShards)

Kinds == {"POSITIVE", "NEGATIVE"}

Subject        == <<"subject">>
Opinion(a)     == <<"opinion", a>>      \* unique per agent and target
ViewOf(a, day) == <<"view", a, day>>    \* unique
Shard(n)       == <<"shard", n>>        \* by agents and by guests: code adds them up

FirstRecords == Put(Subject, [shown |-> TRUE, counts |-> [k \in Kinds |-> 0]])

RecordsInit == NoTxns /\ db = FirstRecords

(* The feedback of agent a that is there: none after it was taken back.    *)
OpinionIn(a) == IF Has(db, Opinion(a)) THEN {db[Opinion(a)]} \ {"NONE"} ELSE {}

-----------------------------------------------------------------------------
(* FEEDBACK                                                                *)

(* applyPostFeedbackCountDelta.                                            *)
Counted(kind, delta) == [db[Subject] EXCEPT !.counts[kind] = @ + delta]

Gives(a, kind) == Apply(Put(Opinion(a), kind), Put(Subject, Counted(kind, 1)))

TakesBack(a, kind) == Apply(Put(Opinion(a), "NONE"), Put(Subject, Counted(kind, 0 - 1)))

Changes(a, kind) ==
  LET previous == db[Opinion(a)]
  IN  Apply(Put(Opinion(a), kind),
            Put(Subject, [db[Subject] EXCEPT !.counts[previous] = @ - 1, !.counts[kind] = @ + 1]))

(* feedbackOnPost: given, taken back when it is given again, or changed.   *)
FeedbackOnPost(s, a, kind) ==
  /\ db[Subject].shown
  /\ CASE OpinionIn(a) = {}     -> OpenTxn(s, Gives(a, kind))
       [] OpinionIn(a) = {kind} -> OpenTxn(s, TakesBack(a, kind))
       [] OTHER                 -> OpenTxn(s, Changes(a, kind))

(* resolvePostFeedbackDuplicate: another request of the agent has inserted *)
(* the feedback at the same time, as may have happened to any feedback     *)
(* there is.  The post is found whether or not it has been removed.        *)
ResolveDuplicate(s, a, kind) ==
  /\ OpinionIn(a) \notin {{}, {kind}}
  /\ OpenTxn(s, Changes(a, kind))

(* setContentRemovedInTransaction.                                         *)
SetSubjectRemoved(s) ==
  OpenTxn(s, Put(Subject, [db[Subject] EXCEPT !.shown = ~@]))

-----------------------------------------------------------------------------
(* VIEWS                                                                   *)

ShardNow(n) == IF Has(db, Shard(n)) THEN db[Shard(n)] ELSE [agents |-> 0, guests |-> 0]

AgentViews == [n \in ViewShards |-> ShardNow(n).agents]

(* recordPostViewsForAgent: one view a day, and a shard chosen at random,  *)
(* whatever happens to the post after it was found.                        *)
ViewPost(s, a, day, n) ==
  /\ ~Has(db, ViewOf(a, day))
  /\ OpenTxn(s, Apply(Put(ViewOf(a, day), TRUE),
                      Put(Shard(n), [ShardNow(n) EXCEPT !.agents = @ + 1])))

(* recordPostView of a guest: increment outside any transaction.           *)
ViewAsGuest(n) ==
  /\ ShardNow(n).guests < MaxGuestViews
  /\ WriteAlone(Put(Shard(n), [ShardNow(n) EXCEPT !.guests = @ + 1]))

RecordsNext ==
  \/ \E s \in Sessions :
       \/ \E a \in Critics, kind \in Kinds :
            FeedbackOnPost(s, a, kind) \/ ResolveDuplicate(s, a, kind)
       \/ SetSubjectRemoved(s)
       \/ \E a \in Visitors, day \in Days, n \in ViewShards : ViewPost(s, a, day, n)
       \/ CommitTxn(s) \/ AbortTxn(s)
  \/ \E n \in ViewShards : ViewAsGuest(n)

RecordsSpec == RecordsInit /\ [][RecordsNext]_<<db, txn>>

-----------------------------------------------------------------------------
(* A post counts each feedback once, under the type it has, whatever the   *)
(* same agent and others ask for at once.                                  *)
FeedbackIsCounted ==
  \A kind \in Kinds :
    db[Subject].counts[kind] = Cardinality({a \in Critics : OpinionIn(a) = {kind}})

(* Each view of an agent is counted once a day, whichever shards two       *)
(* requests of it had chosen.                                              *)
ViewsAreCounted ==
  MapThenSumSet(LAMBDA n : AgentViews[n], ViewShards) =
    Cardinality({v \in Visitors \X Days : Has(db, ViewOf(v[1], v[2]))})

(* What a post says of its feedback and views, all together.               *)
RecordsAreCounted == FeedbackIsCounted /\ ViewsAreCounted

=============================================================================
