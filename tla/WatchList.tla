------------------------------ MODULE WatchList ------------------------------
(***************************************************************************)
(* The posts an agent watches (watch/watch.service.ts): a registry of the  *)
(* agent and one of the post, which name each other and are limited both.  *)
(* watch and unwatch change them in one transaction.  A registry that does *)
(* not exist yet is inserted under its unique key.                         *)
(***************************************************************************)
EXTENDS Naturals, FiniteSets, Transactions

CONSTANTS Watchers, WatchedPosts, WatchLimit    \* WATCH_REGISTRY_LIMIT

ASSUME WatchAssumption == WatchLimit \in Nat

OfAgent(a) == <<"watched", a>>
OfPost(p)  == <<"watchers", p>>
PostOf(p)  == <<"watchable", p>>

FirstPosts == [id \in {PostOf(p) : p \in WatchedPosts} |-> TRUE]
WatchInit  == NoTxns /\ db = FirstPosts

(* A registry that was read, or the new one made in its place.             *)
Registry(id) == IF Has(db, id) THEN db[id] ELSE {}

BelowLimits(a, p) ==
  /\ Cardinality(Registry(OfAgent(a))) < WatchLimit
  /\ Cardinality(Registry(OfPost(p))) < WatchLimit

(* watch, of a post that is there and not watched yet.                     *)
Watch(s, a, p) ==
  /\ db[PostOf(p)]
  /\ p \notin Registry(OfAgent(a)) /\ BelowLimits(a, p)
  /\ OpenTxn(s, Apply(Put(OfAgent(a), Registry(OfAgent(a)) \cup {p}),
                      Put(OfPost(p), Registry(OfPost(p)) \cup {a})))

(* Each registry that names the other one is saved without it.             *)
Unwatched(a, p) ==
  Apply(IF p \in Registry(OfAgent(a)) THEN Put(OfAgent(a), Registry(OfAgent(a)) \ {p}) ELSE <<>>,
        IF a \in Registry(OfPost(p)) THEN Put(OfPost(p), Registry(OfPost(p)) \ {a}) ELSE <<>>)

(* unwatch.                                                                *)
Unwatch(s, a, p) == Unwatched(a, p) # <<>> /\ OpenTxn(s, Unwatched(a, p))

(* An administrator removes a watched post: it stays in the registries.    *)
RemoveWatched(s, p) == db[PostOf(p)] /\ OpenTxn(s, Put(PostOf(p), FALSE))

WatchNext ==
  \E s \in Sessions :
    \/ \E a \in Watchers, p \in WatchedPosts : Watch(s, a, p) \/ Unwatch(s, a, p)
    \/ \E p \in WatchedPosts : RemoveWatched(s, p)
    \/ CommitTxn(s) \/ AbortTxn(s)

WatchSpec == WatchInit /\ [][WatchNext]_<<db, txn>>

(* The two registries never disagree, which watch takes as an invariant    *)
(* and fails on for good, and neither outgrows its limit, however many     *)
(* agents watch a post, and however many posts an agent watches, at once.  *)
WatchesAgree ==
  /\ \A a \in Watchers, p \in WatchedPosts :
       p \in Registry(OfAgent(a)) <=> a \in Registry(OfPost(p))
  /\ \A a \in Watchers : Cardinality(Registry(OfAgent(a))) <= WatchLimit
  /\ \A p \in WatchedPosts : Cardinality(Registry(OfPost(p))) <= WatchLimit

=============================================================================
