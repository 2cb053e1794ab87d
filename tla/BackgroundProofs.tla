-------------------------- MODULE BackgroundProofs --------------------------
(***************************************************************************)
(* What holds of the components that work in the background: the spreading *)
(* of a circle's visibility, the leases of MCP calls, the deadlines of     *)
(* proposals and the index of hot posts; for every number of posts,        *)
(* leases, documents, generations, workers and failures, unless a theorem  *)
(* says otherwise.  The thread of replies is in ReplyThreadProofs; all of  *)
(* them together are at the end.                                           *)
(***************************************************************************)
EXTENDS MCBackgroundWork, ReplyThreadProofs

-----------------------------------------------------------------------------
(* THE VISIBILITY OF POSTS                                                 *)

(* No mark is ahead of the circle, and one that has its version has its    *)
(* visibility; so have all of them when the state is clean.                *)
MarkBehind(m) ==
  /\ m = [visible |-> m.visible, version |-> m.version]
  /\ m.version \in 1..circle.version
  /\ m.version = circle.version => m.visible = circle.active

StateFields(s) ==
  s = [desired |-> s.desired, version |-> s.version, writes |-> s.writes,
       doneVersion |-> s.doneVersion, doneWrites |-> s.doneWrites, dirty |-> s.dirty,
       ready |-> s.ready, token |-> s.token, live |-> s.live]

VisibilityInvariant ==
  /\ StateFields(state)
  /\ circle = [active |-> circle.active, version |-> circle.version]
  /\ circle.active \in BOOLEAN /\ circle.version \in Nat \ {0}
  /\ state.version = circle.version /\ state.desired = circle.active
  /\ IsFiniteSet(KnownPosts) /\ KnownPosts \subseteq Posts
  /\ DOMAIN hot = KnownPosts /\ \A p \in KnownPosts : hot[p] = post[p]
  /\ \A p \in KnownPosts : MarkBehind(post[p])
  /\ ~state.dirty => /\ state.doneVersion = circle.version
                     /\ \A p \in KnownPosts : post[p].version = circle.version

(* The posts that a job brings up to date are a full batch, or all that    *)
(* were behind.                                                            *)
LEMMA BatchIsFullOrLast ==
  ASSUME VisibilityInvariant, NEW j
  PROVE  NextPosts(j) = Behind(j) \/ Cardinality(NextPosts(j)) = PostBatch
<1>. DEFINE S == Behind(j)
            below == [p \in S |-> {q \in S : \/ post[q].version < post[p].version
                                             \/ post[q].version = post[p].version /\ q < p}]
<1>1. IsFiniteSet(S)
  BY FS_Subset DEF VisibilityInvariant, Behind
<1>2. \A p \in S : post[p].version \in Nat /\ p \in Nat
  <2>. TAKE p \in S
  <2>1. p \in KnownPosts /\ p \in Posts /\ MarkBehind(post[p])
    BY DEF VisibilityInvariant, Behind
  <2>2. circle.version \in Nat
    BY DEF VisibilityInvariant
  <2>. QED
    BY <2>1, <2>2, PostVisibilityAssumption DEF MarkBehind
<1>3. \A p \in S : below[p] \subseteq S /\ p \notin below[p]
  BY <1>2
<1>4. \A p, q \in S : p # q => p \in below[q] \/ q \in below[p]
  BY <1>2
<1>5. \A p, q \in S : p \in below[q] => below[p] \subseteq below[q]
  BY <1>2
<1>6. PostBatch \in Nat
  BY PostVisibilityAssumption
<1>7. NextPosts(j) = {p \in S : Cardinality(below[p]) < PostBatch}
  BY DEF NextPosts
<1>. HIDE DEF S, below
<1>8. LET T == {p \in S : Cardinality(below[p]) < PostBatch}
      IN  T = S \/ Cardinality(T) = PostBatch
  BY <1>1, <1>3, <1>4, <1>5, <1>6, FirstElements
<1>. QED
  BY <1>7, <1>8 DEF S

(* What is kept as it is in every step but those of the projection.        *)
LEMMA ProjectionKeeps ==
  ASSUME VisibilityInvariant, ProjectBatch
  PROVE  /\ VisibilityInvariant'
         /\ \A p \in KnownPosts : post'[p] # post[p] =>
              /\ post'[p] = [visible |-> circle.active, version |-> circle.version]
              /\ post'[p].version > post[p].version
<1>. DEFINE j == queue.active
<1>1. circle' = circle
  BY DEF ProjectBatch
<1>2. CASE ~HoldsClaim(j)
  BY <1>1, <1>2 DEF ProjectBatch, VisibilityInvariant, MarkBehind, KnownPosts
<1>3. CASE HoldsClaim(j)
  <2>. DEFINE ps == NextPosts(j)
  <2>1. /\ post' = Brought(post, ps, j) /\ hot' = Brought(hot, ps, j) /\ state' = AfterBatch(ps, j)
    BY <1>3 DEF ProjectBatch
  <2>2. j.version = circle.version /\ state.desired = circle.active /\ state.version = circle.version
        /\ state.dirty
    BY <1>3 DEF HoldsClaim, VisibilityInvariant
  <2>3. ps \subseteq Behind(j)
    BY DEF NextPosts
  <2>4. \A p \in KnownPosts :
          /\ MarkBehind(post[p]) /\ post[p].version \in Nat
          /\ p \in Behind(j) <=> post[p].version # circle.version
    BY <2>2 DEF VisibilityInvariant, MarkBehind, Behind
  <2>5. /\ KnownPosts' = KnownPosts /\ DOMAIN hot' = KnownPosts
        /\ \A p \in KnownPosts :
             /\ post'[p] = IF p \in ps THEN [visible |-> circle.active, version |-> circle.version]
                           ELSE post[p]
             /\ hot'[p] = post'[p]
    <3>1. KnownPosts' = KnownPosts /\ DOMAIN hot' = KnownPosts
      BY <2>1 DEF Brought, KnownPosts, VisibilityInvariant
    <3>2. \A p \in KnownPosts : p \in ps => post[p].version < j.version
      BY <2>3 DEF Behind
    <3>3. \A p \in KnownPosts : post'[p] = IF p \in ps /\ post[p].version < j.version
            THEN [visible |-> state.desired, version |-> j.version] ELSE post[p]
      BY <2>1 DEF Brought, KnownPosts
    <3>4. \A p \in KnownPosts : hot'[p] = IF p \in ps /\ hot[p].version < j.version
            THEN [visible |-> state.desired, version |-> j.version] ELSE hot[p]
      BY <2>1 DEF Brought, VisibilityInvariant
    <3>5. \A p \in KnownPosts : hot[p] = post[p]
      BY DEF VisibilityInvariant
    <3>. QED
      BY <2>2, <3>1, <3>2, <3>3, <3>4, <3>5
  <2>6. circle.version \in 1..circle.version /\ circle.version \in Nat
    BY DEF VisibilityInvariant
  <2>7. \A p \in KnownPosts : MarkBehind(post'[p]) /\ MarkBehind(post[p])
    BY <2>4, <2>5, <2>6 DEF MarkBehind
  <2>8. /\ StateFields(state')
        /\ state'.version = circle.version /\ state'.desired = circle.active
        /\ ~state'.dirty => Cardinality(ps) # PostBatch /\ state'.doneVersion = circle.version
    <3>1. CASE Cardinality(ps) = PostBatch
      <4>1. state' = [Unclaimed(state) EXCEPT !.ready = TRUE]
        BY <2>1, <3>1 DEF AfterBatch
      <4>. QED
        BY <4>1, <2>2 DEF Unclaimed, StateFields, VisibilityInvariant
    <3>2. CASE Cardinality(ps) # PostBatch
      <4>1. state' = [Unclaimed(state) EXCEPT !.doneVersion = j.version,
                        !.doneWrites = j.writes, !.dirty = FALSE, !.ready = TRUE]
        BY <2>1, <3>2 DEF AfterBatch
      <4>. QED
        BY <4>1, <3>2, <2>2 DEF Unclaimed, StateFields, VisibilityInvariant
    <3>. QED
      BY <3>1, <3>2
  <2>9. ~state'.dirty => \A p \in KnownPosts : post'[p].version = circle.version
    <3>1. ~state'.dirty => ps = Behind(j)
      BY <2>8, BatchIsFullOrLast
    <3>. QED
      BY <3>1, <2>4, <2>5
  <2>10. VisibilityInvariant'
    BY <1>1, <2>5, <2>7, <2>8, <2>9 DEF VisibilityInvariant, MarkBehind
  <2>11. ASSUME NEW p \in KnownPosts, post'[p] # post[p]
         PROVE  /\ post'[p] = [visible |-> circle.active, version |-> circle.version]
                /\ post'[p].version > post[p].version
    <3>1. p \in ps /\ p \in Behind(j)
      BY <2>3, <2>5, <2>11
    <3>2. post[p].version \in 1..circle.version /\ post[p].version # circle.version
      BY <3>1, <2>4 DEF MarkBehind
    <3>. QED
      BY <3>1, <3>2, <2>5, <2>6
  <2>. QED
    BY <2>10, <2>11
<1>. QED
  BY <1>2, <1>3

LEMMA CreatePostKeeps ==
  ASSUME VisibilityInvariant, CreatePost
  PROVE  VisibilityInvariant' /\ \A p \in KnownPosts : post'[p] = post[p]
<1>1. PICK p \in Posts \ KnownPosts :
        /\ circle.active /\ state.version = circle.version /\ state.desired
        /\ post' = [q \in KnownPosts \cup {p} |-> IF q = p THEN NewMark(circle.version) ELSE post[q]]
        /\ hot' = [q \in KnownPosts \cup {p} |-> IF q = p THEN NewMark(circle.version) ELSE hot[q]]
        /\ state' = [Unclaimed(state) EXCEPT !.ready = TRUE, !.writes = @ + 1]
        /\ circle' = circle
  BY DEF CreatePost
<1>2. /\ KnownPosts' = KnownPosts \cup {p} /\ DOMAIN hot' = KnownPosts'
      /\ \A q \in KnownPosts' : post'[q] = IF q = p THEN NewMark(circle.version) ELSE post[q]
      /\ \A q \in KnownPosts' : hot'[q] = IF q = p THEN NewMark(circle.version) ELSE hot[q]
  BY <1>1 DEF KnownPosts
<1>3. /\ StateFields(state')
      /\ state'.version = state.version /\ state'.desired = state.desired
      /\ state'.dirty = state.dirty /\ state'.doneVersion = state.doneVersion
  <2>1. PICK n : state' = [Unclaimed(state) EXCEPT !.ready = TRUE, !.writes = n]
    BY <1>1
  <2>. QED
    BY <2>1 DEF Unclaimed, StateFields, VisibilityInvariant
<1>4. MarkBehind(NewMark(circle.version)) /\ NewMark(circle.version).version = circle.version
  BY <1>1 DEF NewMark, MarkBehind, VisibilityInvariant
<1>5. IsFiniteSet(KnownPosts') /\ KnownPosts' \subseteq Posts
  BY <1>1, <1>2, FS_AddElement DEF VisibilityInvariant
<1>. QED
  BY <1>1, <1>2, <1>3, <1>4, <1>5 DEF VisibilityInvariant, MarkBehind

(* A step that leaves the posts and what the state asks for.               *)
LEMMA StateFieldsKeep ==
  ASSUME VisibilityInvariant, UNCHANGED <<circle, post, hot>>, StateFields(state'),
         state'.version = state.version, state'.desired = state.desired,
         state'.dirty = state.dirty, state'.doneVersion = state.doneVersion
  PROVE  VisibilityInvariant'
BY DEF VisibilityInvariant, MarkBehind, KnownPosts

LEMMA ChangeStatusKeeps ==
  ASSUME VisibilityInvariant, ChangeStatus
  PROVE  VisibilityInvariant'
<1>1. /\ circle' = [active |-> ~circle.active, version |-> circle.version + 1]
      /\ state' = [Unclaimed(state) EXCEPT !.desired = ~circle.active,
                     !.version = circle.version + 1, !.dirty = TRUE, !.ready = TRUE]
      /\ UNCHANGED <<post, hot>>
  BY DEF ChangeStatus
<1>2. \A p \in KnownPosts : post[p].version \in 1..circle.version
                            /\ post[p] = [visible |-> post[p].visible, version |-> post[p].version]
  BY DEF VisibilityInvariant, MarkBehind
<1>3. circle.version \in Nat \ {0}
  BY DEF VisibilityInvariant
<1>4. /\ StateFields(state')
      /\ state'.desired = circle'.active /\ state'.version = circle'.version /\ state'.dirty
  BY <1>1 DEF Unclaimed, StateFields, VisibilityInvariant
<1>. QED
  BY <1>1, <1>2, <1>3, <1>4 DEF VisibilityInvariant, MarkBehind, KnownPosts

LEMMA ProjectedOnlyByBatches ==
  ASSUME VisibilityInvariant, [VisibilityNext]_visibilityVars
  PROVE  \/ ProjectBatch
         \/ VisibilityInvariant' /\ \A p \in KnownPosts : post'[p] = post[p]
<1>1. CASE ChangeStatus
  BY <1>1, ChangeStatusKeeps DEF ChangeStatus
<1>2. CASE CreatePost
  BY <1>2, CreatePostKeeps
<1>3. ASSUME NEW w \in Sweepers, ClaimCandidate(w) \/ UndoClaim(w)
      PROVE  /\ StateFields(state')
             /\ state'.version = state.version /\ state'.desired = state.desired
             /\ state'.dirty = state.dirty /\ state'.doneVersion = state.doneVersion
             /\ UNCHANGED <<circle, post, hot>>
  <2>1. CASE ClaimCandidate(w)
    <3>1. state' = state \/ \E n : state' = [state EXCEPT !.token = n, !.live = TRUE, !.ready = TRUE]
      BY <2>1 DEF ClaimCandidate
    <3>2. UNCHANGED <<circle, post, hot>>
      BY <2>1 DEF ClaimCandidate
    <3>. QED
      BY <3>1, <3>2 DEF StateFields, VisibilityInvariant
  <2>2. CASE UndoClaim(w)
    <3>1. state' = state \/ state' = [Unclaimed(state) EXCEPT !.ready = FALSE]
      BY <2>2 DEF UndoClaim
    <3>. QED
      BY <2>2, <3>1 DEF UndoClaim, Unclaimed, StateFields, VisibilityInvariant
  <2>. QED
    BY <1>3, <2>1, <2>2
<1>4. ASSUME ClaimExpires \/ ClaimOverrun \/ RetryTimeComes
      PROVE  /\ StateFields(state')
             /\ state'.version = state.version /\ state'.desired = state.desired
             /\ state'.dirty = state.dirty /\ state'.doneVersion = state.doneVersion
             /\ UNCHANGED <<circle, post, hot>>
  <2>1. \/ state' = [state EXCEPT !.live = FALSE]
        \/ state' = [state EXCEPT !.ready = TRUE]
    BY <1>4 DEF ClaimExpires, ClaimOverrun, RetryTimeComes
  <2>2. UNCHANGED <<circle, post, hot>>
    BY <1>4 DEF ClaimExpires, ClaimOverrun, RetryTimeComes
  <2>. QED
    BY <2>1, <2>2 DEF StateFields, VisibilityInvariant
<1>5. ASSUME NEW w \in Sweepers, FindCandidate(w) \/ AddJob(w) \/ AddThrows(w)
      PROVE  UNCHANGED <<circle, state, post, hot>> /\ StateFields(state')
  BY <1>5 DEF FindCandidate, AddJob, AddThrows, VisibilityInvariant
<1>6. ASSUME TakeProjection \/ EndProjection \/ ProjectionThrows \/ ProcessDies
      PROVE  UNCHANGED <<circle, state, post, hot>> /\ StateFields(state')
  BY <1>6 DEF TakeProjection, EndProjection, ProjectionThrows, ProcessDies,
             VisibilityInvariant
<1>7. CASE UNCHANGED visibilityVars
  <2>1. UNCHANGED <<circle, state, post, hot>> /\ StateFields(state')
    BY <1>7 DEF visibilityVars, VisibilityInvariant
  <2>. QED
    BY <2>1, StateFieldsKeep
<1>. QED
  BY <1>1, <1>2, <1>3, <1>4, <1>5, <1>6, <1>7, StateFieldsKeep
     DEF VisibilityNext, VisibilitySweepStep, VisibilityJobStep

LEMMA VisibilityInitially == VisibilityInit => VisibilityInvariant
<1>. SUFFICES ASSUME VisibilityInit PROVE VisibilityInvariant
  OBVIOUS
<1>1. /\ circle = [active |-> TRUE, version |-> 1]
      /\ state.desired = TRUE /\ state.version = 1 /\ state.doneVersion = 1
      /\ KnownPosts = OldPosts /\ hot = post
      /\ \A p \in OldPosts : post[p] = [visible |-> TRUE, version |-> 1]
  BY DEF VisibilityInit, KnownPosts, NewMark
<1>2. IsFiniteSet(OldPosts) /\ OldPosts \subseteq Posts
  BY PostVisibilityAssumption
<1>3. \A p \in KnownPosts : MarkBehind(post[p])
  <2>1. circle.version = 1 /\ circle.active = TRUE /\ 1 \in 1..1
    BY <1>1
  <2>. TAKE p \in KnownPosts
  <2>2. post[p] = [visible |-> TRUE, version |-> 1]
    BY <1>1
  <2>3. post[p].visible = TRUE /\ post[p].version = 1
    BY <2>2
  <2>. QED
    BY <2>1, <2>2, <2>3 DEF MarkBehind
<1>4. DOMAIN hot = KnownPosts /\ StateFields(state)
  BY <1>1 DEF KnownPosts, VisibilityInit, StateFields
<1>5. circle.active = TRUE /\ circle.version = 1 /\ \A p \in KnownPosts : post[p].version = 1
  BY <1>1
<1>. QED
  <2>1. circle = [active |-> circle.active, version |-> circle.version]
        /\ circle.active \in BOOLEAN /\ circle.version \in Nat \ {0}
    BY <1>1, <1>5
  <2>2. state.version = circle.version /\ state.desired = circle.active
        /\ state.doneVersion = circle.version
    BY <1>1, <1>5
  <2>3. IsFiniteSet(KnownPosts) /\ KnownPosts \subseteq Posts
        /\ \A p \in KnownPosts : hot[p] = post[p] /\ post[p].version = circle.version
    BY <1>1, <1>2, <1>5
  <2>. QED
    BY <2>1, <2>2, <2>3, <1>3, <1>4 DEF VisibilityInvariant

(* No mark is ahead of the circle, and the state knows the circle's        *)
(* version and visibility, whatever batches, claims and jobs are under way.*)
THEOREM VisibilityInvariantHolds == VisibilitySpec => []VisibilityInvariant
<1>1. VisibilityInvariant /\ [VisibilityNext]_visibilityVars => VisibilityInvariant'
  BY ProjectedOnlyByBatches, ProjectionKeeps
<1>. QED
  BY <1>1, VisibilityInitially, PTL DEF VisibilitySpec

(* Once the outbox has declared a circle clean, each of its posts, those   *)
(* created while it worked included, has the circle's visibility and       *)
(* version, and so does the post's hot state.                              *)
THEOREM CleanIsProjected == VisibilitySpec => []CleanMeansProjected
<1>1. VisibilityInvariant => CleanMeansProjected
  BY DEF VisibilityInvariant, MarkBehind, CleanMeansProjected
<1>. QED
  BY <1>1, VisibilityInvariantHolds, PTL

(* Only the circle's present status spreads, and the version of a post     *)
(* never goes back, whichever jobs were claimed earlier, delivered twice   *)
(* or overtaken.                                                           *)
THEOREM PresentStatusSpreads == VisibilitySpec => OnlyPresentStatusSpreads
<1>1. VisibilityInvariant /\ [VisibilityNext]_visibilityVars =>
        [\A p \in KnownPosts :
           post'[p] # post[p] =>
             /\ post'[p] = [visible |-> circle.active, version |-> circle.version]
             /\ post'[p].version > post[p].version]_visibilityVars
  BY ProjectedOnlyByBatches, ProjectionKeeps
<1>. QED
  BY <1>1, VisibilityInvariantHolds, PTL DEF VisibilitySpec, OnlyPresentStatusSpreads

(* The types, with what else they rest on: the queue has its three places. *)
VisibilityTypes ==
  VisibilityTypeOK /\ DOMAIN queue = {"waiting", "active", "next"}

LEMMA StateKeepsType ==
  ASSUME state \in State
  PROVE  /\ \A b \in BOOLEAN :
              /\ [Unclaimed(state) EXCEPT !.ready = b] \in State
              /\ [state EXCEPT !.live = b] \in State
              /\ [state EXCEPT !.ready = b] \in State
         /\ \A t \in Tokens : [state EXCEPT !.token = t, !.live = TRUE, !.ready = TRUE] \in State
         /\ [Unclaimed(state) EXCEPT !.ready = TRUE, !.writes = @ + 1] \in State
         /\ \A b \in BOOLEAN, v \in 1..MaxVersion :
              [Unclaimed(state) EXCEPT !.desired = b, !.version = v, !.dirty = TRUE,
                                       !.ready = TRUE] \in State
         /\ [Unclaimed(state) EXCEPT !.doneVersion = state.version,
               !.doneWrites = state.writes, !.dirty = FALSE, !.ready = TRUE] \in State
<1>. DEFINE u == Unclaimed(state)
<1>1. u \in State /\ u.writes = state.writes
  BY DEF Unclaimed, State
<1>. HIDE DEF u
<1>2. ASSUME NEW b \in BOOLEAN
      PROVE  /\ [u EXCEPT !.ready = b] \in State
             /\ [state EXCEPT !.live = b] \in State
             /\ [state EXCEPT !.ready = b] \in State
  BY <1>1 DEF State
<1>3. ASSUME NEW t \in Tokens
      PROVE  [state EXCEPT !.token = t, !.live = TRUE, !.ready = TRUE] \in State
  BY DEF State
<1>4. [u EXCEPT !.ready = TRUE, !.writes = @ + 1] \in State
  <2>1. u.writes + 1 \in Nat
    BY <1>1 DEF State
  <2>2. \A n \in Nat : [u EXCEPT !.ready = TRUE, !.writes = n] \in State
    BY <1>1 DEF State
  <2>3. [u EXCEPT !.ready = TRUE, !.writes = u.writes + 1] \in State
    BY <2>1, <2>2
  <2>. QED
    BY <2>3
<1>5. ASSUME NEW b \in BOOLEAN, NEW v \in 1..MaxVersion
      PROVE  [u EXCEPT !.desired = b, !.version = v, !.dirty = TRUE, !.ready = TRUE] \in State
  BY <1>1 DEF State
<1>6. state.version \in 1..MaxVersion /\ state.writes \in Nat
  BY DEF State
<1>7. [u EXCEPT !.doneVersion = state.version, !.doneWrites = state.writes,
                !.dirty = FALSE, !.ready = TRUE] \in State
  BY <1>1, <1>6 DEF State
<1>. QED
  BY <1>2, <1>3, <1>4, <1>5, <1>7 DEF u

LEMMA VisibilityTypesInitially ==
  VisibilityInit => VisibilityTypes
<1>. SUFFICES ASSUME VisibilityInit PROVE VisibilityTypes
  OBVIOUS
<1>1. 1 \in 1..MaxVersion /\ 0 \in 0..MaxFaults /\ OldPosts \subseteq Posts
  BY PostVisibilityAssumption
<1>2. circle \in [active: BOOLEAN, version: 1 .. MaxVersion] /\ state \in State
  BY <1>1 DEF VisibilityInit, State
<1>3. KnownPosts \subseteq Posts /\ DOMAIN hot = KnownPosts
  BY <1>1 DEF VisibilityInit, KnownPosts
<1>4. \A p \in KnownPosts : post[p] \in Mark /\ hot[p] \in Mark
  BY <1>1 DEF VisibilityInit, KnownPosts, NewMark, Mark
<1>5. ~IsActive(queue) /\ DOMAIN queue = {"waiting", "active", "next"} /\ batch = "idle"
  BY DEF VisibilityInit, IsActive, EmptyQueue
<1>. QED
  BY <1>1, <1>2, <1>3, <1>4, <1>5 DEF VisibilityTypes, VisibilityTypeOK, VisibilityInit

(* A step of the queue leaves its places, and takes an active job when the *)
(* worker does.                                                            *)
LEMMA QueueKeepsPlaces ==
  ASSUME DOMAIN queue = {"waiting", "active", "next"}, NEW j
  PROVE  /\ DOMAIN Added(queue, j) = DOMAIN queue /\ (IsActive(Added(queue, j)) <=> IsActive(queue))
         /\ DOMAIN Taken(queue) = DOMAIN queue /\ (Waits(queue) => IsActive(Taken(queue)))
         /\ DOMAIN Finished(queue) = DOMAIN queue /\ ~IsActive(Finished(queue))
         /\ DOMAIN Retried(queue) = DOMAIN queue /\ ~IsActive(Retried(queue))
         /\ DOMAIN Stalled(queue) = DOMAIN queue /\ ~IsActive(Stalled(queue))
BY DEF Added, Taken, Finished, Retried, Stalled, IsActive, Waits

LEMMA VisibilityTypesKept ==
  ASSUME VisibilityInvariant, VisibilityTypes, [VisibilityNext]_visibilityVars
  PROVE  VisibilityTypes'
<1>. USE DEF VisibilityTypes, VisibilityTypeOK
<1>0. /\ circle \in [active: BOOLEAN, version: 1 .. MaxVersion] /\ state \in State
      /\ state.version = circle.version /\ state.desired = circle.active
      /\ MaxVersion \in Nat /\ MaxFaults \in Nat /\ circle.active \in BOOLEAN
      /\ circle.version \in 1..MaxVersion
  BY PostVisibilityAssumption DEF VisibilityInvariant
<1>1. CASE ChangeStatus
  <2>0. circle.version < MaxVersion
    BY <1>1 DEF ChangeStatus
  <2>1. circle.version + 1 \in 1..MaxVersion /\ (~circle.active) \in BOOLEAN
    BY <1>0, <2>0
  <2>2. state' \in State
    BY <1>1, <2>1, StateKeepsType DEF ChangeStatus
  <2>3. circle' \in [active: BOOLEAN, version: 1 .. MaxVersion]
    BY <1>1, <2>1 DEF ChangeStatus
  <2>. QED
    BY <1>1, <2>2, <2>3 DEF ChangeStatus, KnownPosts
<1>2. CASE CreatePost
  <2>1. PICK p \in Posts \ KnownPosts :
          /\ post' = [q \in KnownPosts \cup {p} |-> IF q = p THEN NewMark(circle.version) ELSE post[q]]
          /\ hot' = [q \in KnownPosts \cup {p} |-> IF q = p THEN NewMark(circle.version) ELSE hot[q]]
          /\ state' = [Unclaimed(state) EXCEPT !.ready = TRUE, !.writes = @ + 1]
          /\ UNCHANGED <<circle, queue, batch, faults>>
    BY <1>2 DEF CreatePost
  <2>2. NewMark(circle.version) \in Mark
    BY <1>0 DEF NewMark, Mark
  <2>3. KnownPosts' = KnownPosts \cup {p} /\ DOMAIN hot' = KnownPosts'
    BY <2>1 DEF KnownPosts
  <2>4. state' \in State
    BY <2>1, StateKeepsType
  <2>. QED
    BY <2>1, <2>2, <2>3, <2>4
<1>3. CASE ProjectBatch
  <2>. DEFINE j == queue.active
  <2>1. CASE HoldsClaim(j)
    <3>1. j.version = state.version /\ j.writes = state.writes
      BY <2>1 DEF HoldsClaim
    <3>2. state' \in State
      <4>1. state' = AfterBatch(NextPosts(j), j)
        BY <1>3, <2>1 DEF ProjectBatch
      <4>. QED
        BY <4>1, <3>1, StateKeepsType DEF AfterBatch
    <3>3. [visible |-> state.desired, version |-> j.version] \in Mark
      BY <1>0, <3>1 DEF Mark
    <3>4. post' = Brought(post, NextPosts(j), j) /\ hot' = Brought(hot, NextPosts(j), j)
      BY <1>3, <2>1 DEF ProjectBatch
    <3>5. KnownPosts' = KnownPosts /\ DOMAIN hot' = KnownPosts
          /\ \A p \in KnownPosts : post'[p] \in Mark /\ hot'[p] \in Mark
      BY <3>3, <3>4 DEF Brought, KnownPosts
    <3>. QED
      BY <1>3, <3>2, <3>5 DEF ProjectBatch
  <2>2. CASE ~HoldsClaim(j)
    BY <1>3, <2>2 DEF ProjectBatch, KnownPosts
  <2>. QED
    BY <2>1, <2>2
<1>4. CASE TakeProjection \/ EndProjection
  BY <1>4, QueueKeepsPlaces DEF TakeProjection, EndProjection, KnownPosts
<1>5. CASE ProjectionThrows \/ ProcessDies
  <2>1. faults + 1 \in 0..MaxFaults
    BY <1>0, <1>5 DEF ProjectionThrows, ProcessDies
  <2>2. DOMAIN queue' = DOMAIN queue /\ ~IsActive(queue') /\ batch' = "idle"
    BY <1>5, QueueKeepsPlaces DEF ProjectionThrows, ProcessDies
  <2>3. ~IsActive(queue)'
    BY <2>2 DEF IsActive
  <2>. QED
    BY <1>5, <2>1, <2>2, <2>3 DEF ProjectionThrows, ProcessDies, KnownPosts
<1>6. ASSUME NEW w \in Sweepers, VisibilitySweepStep(w) \/ AddThrows(w)
      PROVE  VisibilityTypes'
  <2>1. CASE FindCandidate(w)
    BY <2>1 DEF FindCandidate, KnownPosts
  <2>2. CASE ClaimCandidate(w)
    <3>1. state' \in State
      <4>1. CASE state' = state
        BY <4>1
      <4>2. CASE UnusedTokens # {}
                 /\ state' = [state EXCEPT !.token = Fresh, !.live = TRUE, !.ready = TRUE]
        <5>1. Fresh \in Tokens
          BY <4>2 DEF Fresh, UnusedTokens
        <5>. QED
          BY <4>2, <5>1, StateKeepsType
      <4>. QED
        BY <2>2, <4>1, <4>2 DEF ClaimCandidate
    <3>. QED
      BY <2>2, <3>1 DEF ClaimCandidate, KnownPosts
  <2>3. CASE AddJob(w) \/ AddThrows(w)
    <3>1. faults' \in 0..MaxFaults
      BY <1>0, <2>3 DEF AddJob, AddThrows
    <3>2. DOMAIN queue' = DOMAIN queue /\ (IsActive(queue') <=> IsActive(queue))
      BY <2>3, QueueKeepsPlaces DEF AddJob, AddThrows
    <3>3. IsActive(queue)' <=> IsActive(queue)
      BY <3>2 DEF IsActive
    <3>. QED
      BY <2>3, <3>1, <3>2, <3>3 DEF AddJob, AddThrows, KnownPosts
  <2>4. CASE UndoClaim(w)
    <3>1. state' \in State
      BY <2>4, StateKeepsType DEF UndoClaim
    <3>. QED
      BY <2>4, <3>1 DEF UndoClaim, KnownPosts
  <2>. QED
    BY <1>6, <2>1, <2>2, <2>3, <2>4 DEF VisibilitySweepStep
<1>7. CASE ClaimExpires \/ ClaimOverrun \/ RetryTimeComes
  <2>1. state' \in State
    BY <1>7, StateKeepsType DEF ClaimExpires, ClaimOverrun, RetryTimeComes
  <2>2. faults' \in 0..MaxFaults
    BY <1>0, <1>7 DEF ClaimExpires, ClaimOverrun, RetryTimeComes
  <2>. QED
    BY <1>7, <2>1, <2>2 DEF ClaimExpires, ClaimOverrun, RetryTimeComes, KnownPosts
<1>8. CASE UNCHANGED visibilityVars
  BY <1>8 DEF visibilityVars, KnownPosts, IsActive
<1>. QED
  BY <1>1, <1>2, <1>3, <1>4, <1>5, <1>6, <1>7, <1>8 DEF VisibilityNext, VisibilityJobStep

(* The types of the circle, its posts, the state and the queue hold        *)
(* whatever the sweeps and jobs are at.                                    *)
LEMMA VisibilityTypesHold ==
  VisibilityInit /\ [][VisibilityNext]_visibilityVars => []VisibilityTypeOK
<1>1. VisibilityInit => VisibilityInvariant /\ VisibilityTypes
  BY VisibilityInitially, VisibilityTypesInitially
<1>2. VisibilityInvariant /\ VisibilityTypes /\ [VisibilityNext]_visibilityVars
      => VisibilityInvariant' /\ VisibilityTypes'
  BY ProjectedOnlyByBatches, ProjectionKeeps, VisibilityTypesKept
<1>3. VisibilityTypes => VisibilityTypeOK
  BY DEF VisibilityTypes
<1>. QED
  BY <1>1, <1>2, <1>3, PTL

-----------------------------------------------------------------------------
(* SUBSCRIPTIONS OF AN AGENT                                               *)

(* A stream that Redis has not forgotten owns the agent's only             *)
(* subscription, whose time has run for one heartbeat at most.             *)
StreamOwns ==
  /\ \A s, t \in DOMAIN subscription : s = t
  /\ \A t \in DOMAIN streams : streams[t] \in Stream
  /\ \A t \in DOMAIN streams : ~streams[t].lost =>
       /\ t \in DOMAIN subscription
       /\ \/ subscription[t] = LeaseTtl
          \/ subscription[t] = LeaseTtl - 1 /\ streams[t].due

LEMMA LeaseTtlOutlivesHeartbeat == LeaseTtl \in Nat /\ LeaseTtl > 1
  BY McpAssumption

LEMMA SubscribeKeepsOwner ==
  ASSUME StreamOwns, AdmitOther
  PROVE  StreamOwns'
<1>1. CASE UNCHANGED <<subscription, streams>>
  BY <1>1 DEF StreamOwns
<1>2. CASE DOMAIN subscription = {} /\ \E l :
             /\ subscription' = With(<<>>, l, LeaseTtl)
             /\ streams' = With(streams, l, [due |-> FALSE, lost |-> FALSE])
  <2>1. PICK l : /\ subscription' = With(<<>>, l, LeaseTtl)
                 /\ streams' = With(streams, l, [due |-> FALSE, lost |-> FALSE])
    BY <1>2
  <2>2. DOMAIN subscription' = {l} /\ subscription'[l] = LeaseTtl
    BY <2>1 DEF With
  <2>3. [due |-> FALSE, lost |-> FALSE] \in Stream
    BY DEF Stream
  <2>4. /\ DOMAIN streams' = DOMAIN streams \cup {l}
        /\ streams'[l] = [due |-> FALSE, lost |-> FALSE]
        /\ \A t \in DOMAIN streams \ {l} : streams'[t] = streams[t]
    BY <2>1 DEF With
  <2>5. \A t \in DOMAIN streams : streams[t].lost
    BY <1>2 DEF StreamOwns
  <2>6. \A t \in DOMAIN streams' : streams'[t] \in Stream
    BY <2>3, <2>4, Zenon DEF StreamOwns
  <2>7. ASSUME NEW t \in DOMAIN streams', ~streams'[t].lost PROVE t = l
    BY <2>4, <2>5, <2>7
  <2>. QED
    BY <2>2, <2>6, <2>7 DEF StreamOwns
<1>3. CASE /\ DOMAIN subscription = {} /\ UNCHANGED streams
           /\ \E l : subscription' = With(<<>>, l, LeaseTtl)
  <2>1. \A t \in DOMAIN streams : streams[t].lost
    BY <1>3 DEF StreamOwns
  <2>2. \A s, t \in DOMAIN subscription' : s = t
    BY <1>3 DEF With
  <2>. QED
    BY <2>1, <2>2, <1>3 DEF StreamOwns
<1>. QED
  BY <1>1, <1>2, <1>3 DEF AdmitOther

LEMMA StreamStepKeepsOwner ==
  ASSUME StreamOwns, NEW t \in DOMAIN streams, RenewStream(t) \/ CloseStream(t)
  PROVE  StreamOwns'
<1>1. CASE RenewStream(t) /\ ~redisDown /\ Owns(t)
  <2>1. /\ DOMAIN subscription' = DOMAIN subscription
        /\ \A o \in DOMAIN subscription : subscription'[o] = LeaseTtl
        /\ DOMAIN streams' = DOMAIN streams
        /\ streams'[t] = [due |-> FALSE, lost |-> FALSE]
        /\ \A s \in DOMAIN streams \ {t} : streams'[s] = streams[s]
    BY <1>1 DEF RenewStream
  <2>2. [due |-> FALSE, lost |-> FALSE] \in Stream
    BY DEF Stream
  <2>3. \A s \in DOMAIN streams' : streams'[s] \in Stream
    BY <2>1, <2>2, Zenon DEF StreamOwns
  <2>4. t \in DOMAIN subscription
    BY <1>1 DEF Owns
  <2>. QED
    BY <2>1, <2>3, <2>4 DEF StreamOwns
<1>2. ASSUME streams' = Without(streams, t),
             \/ UNCHANGED subscription
             \/ subscription' = <<>> /\ t \in DOMAIN subscription
      PROVE  StreamOwns'
  <2>1. /\ DOMAIN streams' = DOMAIN streams \ {t}
        /\ \A s \in DOMAIN streams' : streams'[s] = streams[s]
    BY <1>2 DEF Without, Restrict
  <2>2. CASE UNCHANGED subscription
    BY <2>1, <2>2 DEF StreamOwns
  <2>3. CASE subscription' = <<>> /\ t \in DOMAIN subscription
    <3>1. \A s \in DOMAIN streams' : streams'[s].lost
      BY <2>1, <2>3 DEF StreamOwns
    <3>2. DOMAIN subscription' = {}
      BY <2>3
    <3>. QED
      BY <2>1, <3>1, <3>2 DEF StreamOwns
  <2>. QED
    BY <1>2, <2>2, <2>3
<1>3. CASE RenewStream(t) /\ ~(~redisDown /\ Owns(t))
  BY <1>2, <1>3 DEF RenewStream
<1>4. CASE CloseStream(t)
  BY <1>2, <1>4 DEF CloseStream
<1>. QED
  BY <1>1, <1>3, <1>4

LEMMA TimeKeepsOwner ==
  ASSUME StreamOwns, Tick
  PROVE  StreamOwns'
<1>1. /\ DOMAIN subscription' = {p \in DOMAIN subscription : subscription[p] > 1}
      /\ \A p \in DOMAIN subscription' : subscription'[p] = subscription[p] - 1
  BY DEF Tick
<1>2. /\ DOMAIN streams' = DOMAIN streams
      /\ \A t \in DOMAIN streams : /\ ~streams[t].due
                                   /\ streams'[t] = [streams[t] EXCEPT !.due = TRUE]
  BY DEF Tick
<1>3. \A t \in DOMAIN streams : /\ streams'[t] \in Stream /\ streams'[t].due
                                /\ streams'[t].lost = streams[t].lost
  BY <1>2 DEF StreamOwns, Stream
<1>. QED
  BY <1>1, <1>2, <1>3, LeaseTtlOutlivesHeartbeat, SMTT(30) DEF StreamOwns

LEMMA ForgettingKeepsOwner ==
  ASSUME StreamOwns, RedisForgets \/ ApiRestarts
  PROVE  StreamOwns'
<1>1. CASE RedisForgets
  <2>1. /\ DOMAIN streams' = DOMAIN streams
        /\ \A t \in DOMAIN streams : streams'[t] = [streams[t] EXCEPT !.lost = TRUE]
        /\ DOMAIN subscription' = {}
    BY <1>1 DEF RedisForgets
  <2>2. \A t \in DOMAIN streams : streams'[t] \in Stream /\ streams'[t].lost
    BY <2>1, ZenonT(60) DEF StreamOwns, Stream
  <2>. QED
    BY <2>1, <2>2 DEF StreamOwns
<1>2. CASE ApiRestarts
  <2>1. DOMAIN streams' = {} /\ UNCHANGED subscription
    BY <1>2 DEF ApiRestarts, redisVars
  <2>. QED
    BY <2>1 DEF StreamOwns
<1>. QED
  BY <1>1, <1>2

LEMMA McpKeepsOwner ==
  ASSUME StreamOwns, [McpNext]_mcpVars
  PROVE  StreamOwns'
<1>1. ASSUME UNCHANGED <<subscription, streams>> PROVE StreamOwns'
  BY <1>1 DEF StreamOwns
<1>2. CASE PassCircuit \/ AskRedis \/ PingAnswered \/ AdmitTool \/ Refuse
  BY <1>1, <1>2 DEF PassCircuit, AskRedis, PingAnswered, AdmitTool, Refuse, redisVars
<1>3. ASSUME NEW l, PermitStep(l) PROVE StreamOwns'
  BY <1>1, <1>3 DEF PermitStep, Claim, AnswerEarly, Finish, Heartbeat, Release, SetPermit, redisVars
<1>4. ASSUME NEW l, Renew(l) \/ RenewFails(l) PROVE StreamOwns'
  BY <1>1, <1>4 DEF Renew, RenewFails, redisVars
<1>5. CASE RedisGoesDown \/ RedisComesBack
  BY <1>1, <1>5 DEF RedisGoesDown, RedisComesBack, redisVars
<1>6. CASE UNCHANGED mcpVars
  BY <1>1, <1>6 DEF mcpVars, redisVars
<1>. QED
  BY <1>2, <1>3, <1>4, <1>5, <1>6, SubscribeKeepsOwner, StreamStepKeepsOwner, TimeKeepsOwner,
     ForgettingKeepsOwner DEF McpNext

LEMMA OwnersAreOne ==
  ASSUME StreamOwns
  PROVE  OneStream
<1>. DEFINE kept == {t \in DOMAIN streams : ~streams[t].lost}
<1>1. \A s, t \in kept : s = t
  BY DEF StreamOwns
<1>2. CASE kept = {}
  BY <1>2, FS_EmptySet DEF OneStream
<1>3. CASE kept # {}
  <2>1. PICK t : t \in kept
    BY <1>3
  <2>2. kept = {t}
    BY <1>1, <2>1
  <2>3. Cardinality({t}) = 1
    BY FS_Singleton
  <2>. QED
    BY <2>2, <2>3 DEF OneStream
<1>. QED
  BY <1>2, <1>3

-----------------------------------------------------------------------------
(* LEASES OF AN AGENT                                                      *)

(* The lease of a permit was taken or renewed one heartbeat ago at most,   *)
(* and then its renewal is still to come.                                  *)
IsRenewed(l) ==
  /\ l \in DOMAIN leases
  /\ \/ leases[l] = LeaseTtl
     \/ /\ leases[l] = LeaseTtl - 1
        /\ permits[l].due \/ l \in renewals \/ permits[l].phase = "releasing"

IsFresh(l) == l \in DOMAIN leases /\ leases[l] >= LeaseTtl - 1

LeaseTypes ==
  /\ rateTokens \in 0..RateCapacity
  /\ \A l \in DOMAIN leases : l \in LeaseIds /\ leases[l] \in 0..LeaseTtl
  /\ \A l \in DOMAIN leaseTokens :
       /\ l \in LeaseIds
       /\ leaseTokens[l] = [released |-> leaseTokens[l].released, ttl |-> leaseTokens[l].ttl]
       /\ leaseTokens[l].ttl \in 1..LeaseTtl
  /\ DOMAIN permits \cup DOMAIN streams \cup renewals \subseteq LeaseIds
  /\ \A l \in DOMAIN permits : permits[l] \in Permit
  /\ \A t \in DOMAIN streams : streams[t] \in Stream
  /\ checks \in Nat /\ pings \in Nat

(* The token of a lease outlives it, and that of a released lease says so. *)
LeasesHaveTokens ==
  /\ \A l \in DOMAIN leases : leases[l] > 0 =>
       l \in DOMAIN leaseTokens /\ leaseTokens[l].ttl >= leases[l]
  /\ \A l \in DOMAIN leaseTokens : leaseTokens[l].released => l \notin DOMAIN leases

(* A permit that Redis has not forgotten has its lease until a renewal of  *)
(* it fails.  From then on the circuit is open; a request that was past it *)
(* before is answered before the lease can end, and no request asks        *)
(* whether Redis is back until all those permits are gone.                 *)
PermitsAreLeased ==
  /\ \A l \in DOMAIN permits : ~permits[l].lost =>
       /\ ~permits[l].unavailable => IsRenewed(l)
       /\ checks > 0 => IsFresh(l)
  /\ \A l \in DOMAIN permits : permits[l].unavailable => circuitOpen
  /\ pings > 0 => \A l \in DOMAIN permits :
       l \notin renewals /\ ~permits[l].due /\ ~permits[l].unavailable

(* The inductive invariant.                                                *)
McpInvariant ==
  LeaseTypes /\ LeasesHaveTokens /\ PermitsAreLeased /\ StreamOwns /\ RunningWithinLimit

LEMMA UnexpiredFacts ==
  /\ DOMAIN Unexpired = {l \in DOMAIN leases : leases[l] > 0}
  /\ \A l \in DOMAIN Unexpired : Unexpired[l] = leases[l]
  BY DEF Unexpired, Restrict

(* The permits that count against the limit.                               *)
Counting == {l \in DOMAIN permits : ~permits[l].lost}

LEMMA CountedAreFew ==
  ASSUME DOMAIN permits \subseteq LeaseIds
  PROVE  IsFiniteSet(Counting) /\ Cardinality(Counting) \in Nat
<1>1. Counting \subseteq LeaseIds
  BY DEF Counting
<1>. QED
  BY <1>1, McpAssumption, FS_Subset, FS_CardinalityType

(* Where no permit begins to count, the limit is kept.                     *)
LEMMA FewerAreWithinLimit ==
  ASSUME RunningWithinLimit, LeaseTypes, Counting' \subseteq Counting
  PROVE  RunningWithinLimit'
<1>1. IsFiniteSet(Counting) /\ Cardinality(Counting) \in Nat
  BY CountedAreFew DEF LeaseTypes
<1>2. Cardinality(Counting') <= Cardinality(Counting) /\ Cardinality(Counting') \in Nat
  BY <1>1, FS_Subset, FS_CardinalityType
<1>3. Cardinality(Counting) <= ToolLimit
  BY DEF RunningWithinLimit, Counting
<1>4. Cardinality(Counting') <= ToolLimit
  BY <1>1, <1>2, <1>3, McpAssumption
<1>. QED
  BY <1>4 DEF RunningWithinLimit, Counting

(* One more permit is within the limit when there was a slot for it.       *)
LEMMA SlotForOneMore ==
  ASSUME McpInvariant, checks > 0, HasSlot,
         NEW l, Counting' \subseteq Counting \cup {l}
  PROVE  RunningWithinLimit'
<1>1. Counting \subseteq DOMAIN Unexpired
  BY UnexpiredFacts, LeaseTtlOutlivesHeartbeat
     DEF McpInvariant, PermitsAreLeased, Counting, IsFresh, LeaseTypes
<1>2. DOMAIN Unexpired \subseteq LeaseIds
  BY UnexpiredFacts DEF McpInvariant, LeaseTypes
<1>3. IsFiniteSet(DOMAIN Unexpired) /\ Cardinality(DOMAIN Unexpired) \in Nat
  BY <1>2, McpAssumption, FS_Subset, FS_CardinalityType
<1>4. Cardinality(Counting) <= Cardinality(DOMAIN Unexpired)
  BY <1>1, <1>3, FS_Subset
<1>5. IsFiniteSet(Counting) /\ Cardinality(Counting) \in Nat
  BY CountedAreFew DEF McpInvariant, LeaseTypes
<1>6. /\ IsFiniteSet(Counting \cup {l})
      /\ Cardinality(Counting \cup {l}) \in Nat
      /\ Cardinality(Counting \cup {l}) <= Cardinality(Counting) + 1
  BY <1>5, FS_AddElement, FS_CardinalityType
<1>7. Cardinality(Counting') <= Cardinality(Counting \cup {l}) /\ Cardinality(Counting') \in Nat
  BY <1>6, FS_Subset, FS_CardinalityType
<1>8. Cardinality(Counting') <= ToolLimit
  BY <1>3, <1>4, <1>5, <1>6, <1>7, McpAssumption DEF HasSlot
<1>. QED
  BY <1>8 DEF RunningWithinLimit, Counting

LEMMA RequestsKeepLeases ==
  ASSUME McpInvariant,
         \/ PassCircuit \/ AskRedis \/ PingAnswered \/ AdmitOther
         \/ RedisGoesDown \/ RedisComesBack \/ UNCHANGED mcpVars
         \/ \E t \in DOMAIN streams : RenewStream(t) \/ CloseStream(t)
  PROVE  LeaseTypes' /\ LeasesHaveTokens' /\ PermitsAreLeased' /\ RunningWithinLimit'
<1>1. UNCHANGED <<leases, leaseTokens, permits, renewals>>
  BY DEF PassCircuit, AskRedis, PingAnswered, AdmitOther, RedisGoesDown, RedisComesBack,
         RenewStream, CloseStream, mcpVars, redisVars
<1>2. LeasesHaveTokens' /\ RunningWithinLimit'
  BY <1>1 DEF McpInvariant, LeasesHaveTokens, RunningWithinLimit
<1>3. checks' \in Nat /\ pings' \in Nat /\ rateTokens' \in 0..RateCapacity
  BY McpAssumption DEF McpInvariant, LeaseTypes, PassCircuit, AskRedis, PingAnswered, AdmitOther,
         HasRate, RedisGoesDown, RedisComesBack, RenewStream, CloseStream, mcpVars, redisVars
<1>4. DOMAIN streams' \subseteq LeaseIds /\ \A t \in DOMAIN streams' : streams'[t] \in Stream
  <2>1. CASE UNCHANGED streams
    BY <2>1 DEF McpInvariant, LeaseTypes
  <2>2. ASSUME NEW l \in LeaseIds, NEW v \in Stream, streams' = With(streams, l, v)
        PROVE  DOMAIN streams' \subseteq LeaseIds /\ \A t \in DOMAIN streams' : streams'[t] \in Stream
    <3>1. /\ DOMAIN streams' = DOMAIN streams \cup {l}
          /\ \A t \in DOMAIN streams' : streams'[t] = IF t = l THEN v ELSE streams[t]
      BY <2>2 DEF With
    <3>. QED
      BY <3>1 DEF McpInvariant, LeaseTypes
  <2>3. ASSUME NEW t \in DOMAIN streams, streams' = Without(streams, t)
        PROVE  DOMAIN streams' \subseteq LeaseIds /\ \A u \in DOMAIN streams' : streams'[u] \in Stream
    BY <2>3 DEF Without, Restrict, McpInvariant, LeaseTypes
  <2>4. [due |-> FALSE, lost |-> FALSE] \in Stream
    BY DEF Stream
  <2>5. ASSUME NEW t \in DOMAIN streams,
               streams' = [streams EXCEPT ![t] = [due |-> FALSE, lost |-> FALSE]]
        PROVE  DOMAIN streams' \subseteq LeaseIds /\ \A u \in DOMAIN streams' : streams'[u] \in Stream
    BY <2>4, <2>5 DEF McpInvariant, LeaseTypes
  <2>6. CASE AdmitOther
    <3>1. \/ UNCHANGED streams
          \/ \E l \in LeaseIds : streams' = With(streams, l, [due |-> FALSE, lost |-> FALSE])
      BY <2>6 DEF AdmitOther, FreshLeases
    <3>. QED
      BY <2>1, <2>2, <2>4, <3>1
  <2>7. ASSUME NEW t \in DOMAIN streams, RenewStream(t) \/ CloseStream(t)
        PROVE  DOMAIN streams' \subseteq LeaseIds /\ \A u \in DOMAIN streams' : streams'[u] \in Stream
    BY <2>3, <2>5, <2>7 DEF RenewStream, CloseStream
  <2>. QED
    BY <2>1, <2>6, <2>7 DEF PassCircuit, AskRedis, PingAnswered, RedisGoesDown, RedisComesBack, mcpVars
<1>5. LeaseTypes'
  BY <1>1, <1>3, <1>4 DEF McpInvariant, LeaseTypes
<1>6. PermitsAreLeased'
  <2>1. CASE PassCircuit
    <3>1. ~circuitOpen /\ UNCHANGED <<circuitOpen, pings>>
      BY <2>1 DEF PassCircuit
    <3>2. \A l \in DOMAIN permits : ~permits[l].unavailable
      BY <3>1 DEF McpInvariant, PermitsAreLeased
    <3>. QED
      BY <1>1, <3>1, <3>2, LeaseTtlOutlivesHeartbeat
         DEF McpInvariant, PermitsAreLeased, IsRenewed, IsFresh
  <2>2. CASE AskRedis
    BY <1>1, <2>2 DEF AskRedis, PermitsAreLeased
  <2>3. CASE PingAnswered
    <3>1. \A l \in DOMAIN permits : l \notin renewals /\ ~permits[l].due /\ ~permits[l].unavailable
      BY <2>3 DEF PingAnswered, McpInvariant, PermitsAreLeased
    <3>. QED
      BY <1>1, <3>1, LeaseTtlOutlivesHeartbeat
         DEF McpInvariant, PermitsAreLeased, IsRenewed, IsFresh
  <2>4. CASE \/ AdmitOther \/ RedisGoesDown \/ RedisComesBack \/ UNCHANGED mcpVars
             \/ \E t \in DOMAIN streams : RenewStream(t) \/ CloseStream(t)
    <3>1. UNCHANGED <<circuitOpen, pings>> /\ (checks' > 0 => checks > 0)
      BY <2>4 DEF AdmitOther, RedisGoesDown, RedisComesBack, RenewStream, CloseStream, mcpVars,
                  McpInvariant, LeaseTypes
    <3>. QED
      BY <1>1, <3>1 DEF McpInvariant, PermitsAreLeased, IsRenewed, IsFresh
  <2>. QED
    BY <2>1, <2>2, <2>3, <2>4
<1>. QED
  BY <1>2, <1>5, <1>6

LEMMA AdmitToolKeepsLeases ==
  ASSUME McpInvariant, AdmitTool
  PROVE  LeaseTypes' /\ LeasesHaveTokens' /\ PermitsAreLeased' /\ RunningWithinLimit'
<1>. DEFINE new == [phase |-> "unused", answered |-> FALSE, unavailable |-> FALSE,
                    due |-> FALSE, lost |-> FALSE]
            token == [released |-> FALSE, ttl |-> LeaseTtl]
<1>1. PICK l \in FreshLeases :
        /\ leases' = With(Unexpired, l, LeaseTtl)
        /\ leaseTokens' = With(leaseTokens, l, token)
        /\ permits' = With(permits, l, new) \/ UNCHANGED permits
  BY DEF AdmitTool
<1>2. /\ l \in LeaseIds /\ l \notin DOMAIN leases /\ l \notin DOMAIN leaseTokens
      /\ l \notin DOMAIN permits /\ l \notin renewals
  BY DEF FreshLeases
<1>3. /\ DOMAIN leases' = {m \in DOMAIN leases : leases[m] > 0} \cup {l}
      /\ leases'[l] = LeaseTtl
      /\ \A m \in DOMAIN leases' \ {l} : leases'[m] = leases[m]
  BY <1>1, UnexpiredFacts DEF With
<1>4. /\ DOMAIN leaseTokens' = DOMAIN leaseTokens \cup {l}
      /\ leaseTokens'[l] = token
      /\ \A m \in DOMAIN leaseTokens \ {l} : leaseTokens'[m] = leaseTokens[m]
  BY <1>1 DEF With
<1>5. /\ DOMAIN permits' \subseteq DOMAIN permits \cup {l}
      /\ l \in DOMAIN permits' => permits'[l] = new
      /\ \A m \in DOMAIN permits' \ {l} : m \in DOMAIN permits /\ permits'[m] = permits[m]
  BY <1>1, <1>2 DEF With
<1>6. new \in Permit /\ ~new.unavailable /\ ~new.due
  BY DEF Permit, Phases
<1>7. /\ checks > 0 /\ checks' \in Nat /\ HasSlot
      /\ rateTokens' \in 0..RateCapacity
      /\ UNCHANGED <<streams, renewals, circuitOpen, pings>>
  BY McpAssumption DEF AdmitTool, McpInvariant, LeaseTypes, HasRate
<1>8. LeaseTypes'
  <2>1. \A m \in DOMAIN permits' : permits'[m] \in Permit
    BY <1>5, <1>6, Zenon DEF McpInvariant, LeaseTypes
  <2>2. \A m \in DOMAIN leaseTokens' :
          /\ m \in LeaseIds
          /\ leaseTokens'[m] = [released |-> leaseTokens'[m].released, ttl |-> leaseTokens'[m].ttl]
          /\ leaseTokens'[m].ttl \in 1..LeaseTtl
    BY <1>2, <1>4, LeaseTtlOutlivesHeartbeat DEF McpInvariant, LeaseTypes
  <2>. QED
    BY <1>2, <1>3, <1>5, <1>7, <2>1, <2>2, LeaseTtlOutlivesHeartbeat DEF McpInvariant, LeaseTypes
<1>9. LeasesHaveTokens'
  BY <1>2, <1>3, <1>4, LeaseTtlOutlivesHeartbeat DEF McpInvariant, LeaseTypes, LeasesHaveTokens
<1>10. PermitsAreLeased'
  <2>1. ASSUME NEW m \in DOMAIN permits', ~permits'[m].lost
        PROVE  /\ ~permits'[m].unavailable => IsRenewed(m)'
               /\ checks' > 0 => IsFresh(m)'
    <3>1. CASE m = l
      BY <1>3, <3>1, LeaseTtlOutlivesHeartbeat DEF IsRenewed, IsFresh
    <3>2. CASE m # l
      <4>1. m \in DOMAIN permits /\ permits'[m] = permits[m] /\ IsFresh(m)
        BY <1>5, <1>7, <2>1, <3>2 DEF McpInvariant, PermitsAreLeased
      <4>2. m \in DOMAIN leases' /\ leases'[m] = leases[m]
        BY <1>3, <3>2, <4>1, LeaseTtlOutlivesHeartbeat DEF IsFresh, McpInvariant, LeaseTypes
      <4>. QED
        BY <1>7, <2>1, <4>1, <4>2 DEF McpInvariant, PermitsAreLeased, IsRenewed, IsFresh
    <3>. QED
      BY <3>1, <3>2
  <2>2. ASSUME NEW m \in DOMAIN permits'
        PROVE  /\ permits'[m].unavailable => circuitOpen'
               /\ pings' > 0 => m \notin renewals' /\ ~permits'[m].due /\ ~permits'[m].unavailable
    BY <1>2, <1>5, <1>6, <1>7, <2>2 DEF McpInvariant, PermitsAreLeased
  <2>. QED
    BY <2>1, <2>2 DEF PermitsAreLeased
<1>11. Counting' \subseteq Counting \cup {l}
  BY <1>5 DEF Counting
<1>. QED
  BY <1>7, <1>8, <1>9, <1>10, <1>11, SlotForOneMore

LEMMA RefuseKeepsLeases ==
  ASSUME McpInvariant, Refuse
  PROVE  LeaseTypes' /\ LeasesHaveTokens' /\ PermitsAreLeased' /\ RunningWithinLimit'
<1>1. /\ checks > 0 /\ checks' \in Nat
      /\ UNCHANGED <<rateTokens, leaseTokens, permits, streams, renewals, circuitOpen, pings>>
  BY DEF Refuse, McpInvariant, LeaseTypes
<1>2. /\ DOMAIN leases' \subseteq DOMAIN leases
      /\ \A m \in DOMAIN leases' : leases'[m] = leases[m]
      /\ \A m \in DOMAIN leases : leases[m] > 0 => m \in DOMAIN leases'
  BY UnexpiredFacts DEF Refuse
<1>3. LeaseTypes'
  BY <1>1, <1>2 DEF McpInvariant, LeaseTypes
<1>4. LeasesHaveTokens'
  BY <1>1, <1>2 DEF McpInvariant, LeasesHaveTokens
<1>5. PermitsAreLeased'
  BY <1>1, <1>2, LeaseTtlOutlivesHeartbeat
     DEF McpInvariant, PermitsAreLeased, IsRenewed, IsFresh, LeaseTypes
<1>6. RunningWithinLimit'
  BY <1>1 DEF McpInvariant, RunningWithinLimit
<1>. QED
  BY <1>3, <1>4, <1>5, <1>6

(* A step of a permit that leaves its lease alone.                         *)
PermitMoves(l) ==
  /\ l \in DOMAIN permits
  /\ DOMAIN permits' = DOMAIN permits /\ permits'[l] \in Permit
  /\ \A m \in DOMAIN permits \ {l} : permits'[m] = permits[m]
  /\ permits'[l].lost = permits[l].lost /\ permits'[l].unavailable = permits[l].unavailable
  /\ permits'[l].due => permits[l].due
  /\ permits[l].due => permits'[l].due \/ l \in renewals' \/ permits'[l].phase = "releasing"
  /\ permits[l].phase = "releasing" => permits'[l].phase = "releasing"
  /\ renewals \subseteq renewals' /\ renewals' \subseteq renewals \cup {l}
  /\ l \in renewals' \ renewals => permits[l].due
  /\ UNCHANGED <<redisVars, streams, circuitOpen, checks, pings>>

LEMMA PermitStepMoves ==
  ASSUME LeaseTypes, NEW l \in DOMAIN permits,
         Claim(l) \/ AnswerEarly(l) \/ Finish(l) \/ Heartbeat(l)
  PROVE  PermitMoves(l)
<1>1. permits[l] \in Permit
  BY DEF LeaseTypes
<1>2. CASE Claim(l)
  BY <1>1, <1>2 DEF Claim, SetPermit, PermitMoves, Permit, Phases
<1>3. CASE AnswerEarly(l)
  BY <1>1, <1>3 DEF AnswerEarly, SetPermit, PermitMoves, Permit, Phases
<1>4. CASE Finish(l)
  BY <1>1, <1>4 DEF Finish, SetPermit, PermitMoves, Permit, Phases
<1>5. CASE Heartbeat(l)
  BY <1>1, <1>5 DEF Heartbeat, PermitMoves, Permit, Phases
<1>. QED
  BY <1>2, <1>3, <1>4, <1>5

LEMMA PermitMovesKeepLeases ==
  ASSUME McpInvariant, NEW l, PermitMoves(l)
  PROVE  LeaseTypes' /\ LeasesHaveTokens' /\ PermitsAreLeased' /\ RunningWithinLimit'
<1>1. LeaseTypes'
  BY DEF PermitMoves, McpInvariant, LeaseTypes, redisVars
<1>2. LeasesHaveTokens'
  BY DEF PermitMoves, McpInvariant, LeasesHaveTokens, redisVars
<1>3. PermitsAreLeased'
  BY DEF PermitMoves, McpInvariant, PermitsAreLeased, redisVars, IsRenewed, IsFresh
<1>4. Counting' \subseteq Counting
  BY DEF PermitMoves, Counting
<1>. QED
  BY <1>1, <1>2, <1>3, <1>4, FewerAreWithinLimit DEF McpInvariant

(* What a failed renewal of lease l does to the permits and the circuit.   *)
LEMMA FailureOpensCircuit ==
  ASSUME LeaseTypes, PermitsAreLeased, NEW l, RenewalFailed(l)
  PROVE  /\ DOMAIN permits' = DOMAIN permits
         /\ \A m \in DOMAIN permits :
              /\ permits'[m] \in Permit
              /\ permits'[m].lost = permits[m].lost
              /\ permits'[m].due = permits[m].due /\ permits'[m].phase = permits[m].phase
              /\ m # l => permits'[m] = permits[m]
              /\ permits[m].unavailable => permits'[m].unavailable
              /\ permits'[m].unavailable => circuitOpen'
         /\ l \in DOMAIN permits =>
              permits'[l].unavailable \/ permits[l].phase = "releasing"
<1>1. CASE l \in DOMAIN permits /\ permits[l].phase # "releasing"
  <2>1. permits[l] \in Permit
    BY <1>1 DEF LeaseTypes
  <2>2. PICK a : permits' = [permits EXCEPT ![l] = [@ EXCEPT !.unavailable = TRUE, !.answered = a]]
                 /\ a = (permits[l].answered \/ permits[l].phase = "running")
    BY <1>1 DEF RenewalFailed
  <2>3. /\ DOMAIN permits' = DOMAIN permits
        /\ permits'[l] = [permits[l] EXCEPT !.unavailable = TRUE, !.answered = a]
        /\ \A m \in DOMAIN permits \ {l} : permits'[m] = permits[m]
    BY <1>1, <2>2
  <2>4. a \in BOOLEAN
    BY <2>2
  <2>5. /\ permits'[l] \in Permit /\ permits'[l].unavailable
        /\ permits'[l].lost = permits[l].lost
        /\ permits'[l].due = permits[l].due /\ permits'[l].phase = permits[l].phase
    BY <2>1, <2>3, <2>4 DEF Permit, Phases
  <2>6. circuitOpen'
    BY <1>1 DEF RenewalFailed, PermitsAreLeased
  <2>. QED
    BY <2>3, <2>5, <2>6 DEF LeaseTypes
<1>2. CASE ~(l \in DOMAIN permits /\ permits[l].phase # "releasing")
  BY <1>2 DEF RenewalFailed, LeaseTypes, PermitsAreLeased
<1>. QED
  BY <1>1, <1>2

LEMMA FailureKeepsLeases ==
  ASSUME McpInvariant, NEW l \in renewals, RenewalFailed(l),
         renewals' = renewals \ {l},
         UNCHANGED <<redisVars, streams, checks, pings>>
  PROVE  LeaseTypes' /\ LeasesHaveTokens' /\ PermitsAreLeased' /\ RunningWithinLimit'
<1>1. /\ DOMAIN permits' = DOMAIN permits
      /\ \A m \in DOMAIN permits :
           /\ permits'[m] \in Permit
           /\ permits'[m].lost = permits[m].lost
           /\ permits'[m].due = permits[m].due /\ permits'[m].phase = permits[m].phase
           /\ m # l => permits'[m] = permits[m]
           /\ permits[m].unavailable => permits'[m].unavailable
           /\ permits'[m].unavailable => circuitOpen'
      /\ l \in DOMAIN permits => permits'[l].unavailable \/ permits[l].phase = "releasing"
  BY FailureOpensCircuit DEF McpInvariant
<1>2. UNCHANGED <<rateTokens, leases, leaseTokens>>
  BY DEF redisVars
<1>3. LeaseTypes'
  BY <1>1, <1>2 DEF McpInvariant, LeaseTypes
<1>4. LeasesHaveTokens'
  BY <1>2 DEF McpInvariant, LeasesHaveTokens
<1>5. PermitsAreLeased'
  <2>1. ASSUME NEW m \in DOMAIN permits, ~permits[m].lost
        PROVE  /\ ~permits'[m].unavailable => IsRenewed(m)'
               /\ checks' > 0 => IsFresh(m)'
    BY <1>1, <1>2, <2>1 DEF McpInvariant, PermitsAreLeased, IsRenewed, IsFresh
  <2>2. pings' > 0 => \A m \in DOMAIN permits :
           m \notin renewals' /\ ~permits'[m].due /\ ~permits'[m].unavailable
    BY <1>1 DEF McpInvariant, PermitsAreLeased
  <2>. QED
    BY <1>1, <2>1, <2>2 DEF PermitsAreLeased
<1>6. Counting' \subseteq Counting
  BY <1>1 DEF Counting
<1>. QED
  BY <1>3, <1>4, <1>5, <1>6, FewerAreWithinLimit DEF McpInvariant

LEMMA RenewKeepsLeases ==
  ASSUME McpInvariant, NEW l \in renewals, Renew(l) \/ RenewFails(l)
  PROVE  LeaseTypes' /\ LeasesHaveTokens' /\ PermitsAreLeased' /\ RunningWithinLimit'
<1>1. CASE RenewFails(l) \/ (Renew(l) /\ IsReleased(l))
  <2>1. /\ RenewalFailed(l) /\ renewals' = renewals \ {l}
        /\ UNCHANGED <<redisVars, streams, checks, pings>>
    BY <1>1 DEF RenewFails, Renew, redisVars
  <2>. QED
    BY <2>1, FailureKeepsLeases
<1>2. CASE Renew(l) /\ ~IsReleased(l)
  <2>1. /\ leases' = With(leases, l, LeaseTtl)
        /\ leaseTokens' = With(leaseTokens, l, [released |-> FALSE, ttl |-> LeaseTtl])
        /\ renewals' = renewals \ {l}
        /\ UNCHANGED <<permits, circuitOpen, rateTokens, subscription, streams, checks, pings>>
        /\ l \in LeaseIds
    BY <1>2 DEF Renew, McpInvariant, LeaseTypes
  <2>2. /\ DOMAIN leases' = DOMAIN leases \cup {l} /\ leases'[l] = LeaseTtl
        /\ \A m \in DOMAIN leases \ {l} : leases'[m] = leases[m]
    BY <2>1 DEF With
  <2>3. /\ DOMAIN leaseTokens' = DOMAIN leaseTokens \cup {l}
        /\ leaseTokens'[l] = [released |-> FALSE, ttl |-> LeaseTtl]
        /\ \A m \in DOMAIN leaseTokens \ {l} : leaseTokens'[m] = leaseTokens[m]
    BY <2>1 DEF With
  <2>4. LeaseTypes'
    <3>1. ASSUME NEW m \in DOMAIN leaseTokens'
          PROVE
            /\ m \in LeaseIds
            /\ leaseTokens'[m] = [released |-> leaseTokens'[m].released, ttl |-> leaseTokens'[m].ttl]
            /\ leaseTokens'[m].ttl \in 1..LeaseTtl
      <4>1. CASE m = l
        BY <2>1, <2>3, <4>1, LeaseTtlOutlivesHeartbeat
      <4>2. CASE m # l
        BY <2>3, <4>2 DEF McpInvariant, LeaseTypes
      <4>. QED
        BY <4>1, <4>2
    <3>2. \A m \in DOMAIN leases' : m \in LeaseIds /\ leases'[m] \in 0..LeaseTtl
      BY <2>1, <2>2, LeaseTtlOutlivesHeartbeat DEF McpInvariant, LeaseTypes
    <3>. QED
      BY <2>1, <3>1, <3>2 DEF McpInvariant, LeaseTypes
  <2>5. LeasesHaveTokens'
    BY <2>2, <2>3, LeaseTtlOutlivesHeartbeat DEF McpInvariant, LeaseTypes, LeasesHaveTokens
  <2>6. PermitsAreLeased'
    BY <2>1, <2>2, LeaseTtlOutlivesHeartbeat
       DEF McpInvariant, PermitsAreLeased, IsRenewed, IsFresh
  <2>7. RunningWithinLimit'
    BY <2>1 DEF McpInvariant, RunningWithinLimit
  <2>. QED
    BY <2>4, <2>5, <2>6, <2>7
<1>. QED
  BY <1>1, <1>2

LEMMA ReleaseKeepsLeases ==
  ASSUME McpInvariant, NEW l \in DOMAIN permits, Release(l)
  PROVE  LeaseTypes' /\ LeasesHaveTokens' /\ PermitsAreLeased' /\ RunningWithinLimit'
<1>1. /\ DOMAIN permits' = DOMAIN permits \ {l}
      /\ \A m \in DOMAIN permits' : permits'[m] = permits[m]
  BY DEF Release, Without, Restrict
<1>2. UNCHANGED <<rateTokens, streams, renewals, circuitOpen, checks, pings>> /\ l \in LeaseIds
  BY DEF Release, McpInvariant, LeaseTypes
<1>3. \/ UNCHANGED <<leases, leaseTokens>>
      \/ /\ DOMAIN leases' = DOMAIN leases \ {l}
         /\ \A m \in DOMAIN leases' : leases'[m] = leases[m]
         /\ DOMAIN leaseTokens' = DOMAIN leaseTokens \cup {l}
         /\ leaseTokens'[l] = [released |-> TRUE, ttl |-> LeaseTtl]
         /\ \A m \in DOMAIN leaseTokens \ {l} : leaseTokens'[m] = leaseTokens[m]
  BY DEF Release, Without, Restrict, With
<1>4. LeaseTypes'
  BY <1>1, <1>2, <1>3, LeaseTtlOutlivesHeartbeat DEF McpInvariant, LeaseTypes
<1>5. LeasesHaveTokens'
  BY <1>3 DEF McpInvariant, LeasesHaveTokens
<1>6. PermitsAreLeased'
  BY <1>1, <1>2, <1>3 DEF McpInvariant, PermitsAreLeased, IsRenewed, IsFresh
<1>7. Counting' \subseteq Counting
  BY <1>1 DEF Counting
<1>. QED
  BY <1>4, <1>5, <1>6, <1>7, FewerAreWithinLimit DEF McpInvariant

LEMMA TimeKeepsLeases ==
  ASSUME McpInvariant, Tick
  PROVE  LeaseTypes' /\ LeasesHaveTokens' /\ PermitsAreLeased' /\ RunningWithinLimit'
<1>1. /\ renewals = {} /\ checks = 0 /\ pings = 0
      /\ UNCHANGED <<renewals, circuitOpen, checks, pings>>
  BY DEF Tick
<1>2. /\ DOMAIN permits' = DOMAIN permits
      /\ \A l \in DOMAIN permits : /\ permits[l].phase # "releasing" /\ ~permits[l].due
                                   /\ permits'[l] = [permits[l] EXCEPT !.due = TRUE]
  BY DEF Tick
<1>3. \A l \in DOMAIN permits :
        /\ permits'[l] \in Permit /\ permits'[l].due
        /\ permits'[l].lost = permits[l].lost
        /\ permits'[l].unavailable = permits[l].unavailable
  BY <1>2 DEF McpInvariant, LeaseTypes, Permit
<1>4. /\ DOMAIN streams' = DOMAIN streams
      /\ \A t \in DOMAIN streams : streams'[t] = [streams[t] EXCEPT !.due = TRUE]
  BY DEF Tick
<1>5. \A t \in DOMAIN streams : streams'[t] \in Stream
  BY <1>4 DEF McpInvariant, LeaseTypes, Stream
<1>6. rateTokens' \in 0..RateCapacity
  BY McpAssumption DEF Tick, McpInvariant, LeaseTypes
<1>7. /\ DOMAIN leases' = DOMAIN leases
      /\ \A l \in DOMAIN leases : leases'[l] = IF leases[l] > 0 THEN leases[l] - 1 ELSE 0
  BY DEF Tick, Older
<1>8. /\ DOMAIN leaseTokens' = {l \in DOMAIN leaseTokens : leaseTokens[l].ttl > 1}
      /\ \A l \in DOMAIN leaseTokens' :
           leaseTokens'[l] = [leaseTokens[l] EXCEPT !.ttl = @ - 1]
  BY DEF Tick
<1>9. \A l \in DOMAIN leaseTokens' :
        /\ l \in LeaseIds
        /\ leaseTokens'[l] = [released |-> leaseTokens'[l].released, ttl |-> leaseTokens'[l].ttl]
        /\ leaseTokens'[l].released = leaseTokens[l].released
        /\ leaseTokens'[l].ttl = leaseTokens[l].ttl - 1
        /\ leaseTokens'[l].ttl \in 1..LeaseTtl
  <2>1. ASSUME NEW l \in DOMAIN leaseTokens'
        PROVE  /\ leaseTokens'[l].released = leaseTokens[l].released
               /\ leaseTokens'[l].ttl = leaseTokens[l].ttl - 1
               /\ leaseTokens'[l] = [released |-> leaseTokens'[l].released,
                                     ttl |-> leaseTokens'[l].ttl]
    <3>1. PICK r, n : leaseTokens[l] = [released |-> r, ttl |-> n] /\ n = leaseTokens[l].ttl
                      /\ r = leaseTokens[l].released
      BY <1>8 DEF McpInvariant, LeaseTypes
    <3>2. PICK k : k = n - 1
      OBVIOUS
    <3>3. leaseTokens'[l] = [leaseTokens[l] EXCEPT !.ttl = k]
      BY <1>8, <3>1, <3>2
    <3>. QED
      BY <3>1, <3>2, <3>3
  <2>. QED
    BY <1>8, <2>1, LeaseTtlOutlivesHeartbeat DEF McpInvariant, LeaseTypes
<1>10. LeaseTypes'
  BY <1>1, <1>2, <1>3, <1>4, <1>5, <1>6, <1>7, <1>9, LeaseTtlOutlivesHeartbeat
     DEF McpInvariant, LeaseTypes
<1>11. LeasesHaveTokens'
  <2>1. ASSUME NEW l \in DOMAIN leases', leases'[l] > 0
        PROVE  l \in DOMAIN leaseTokens' /\ leaseTokens'[l].ttl >= leases'[l]
    <3>1. /\ leases[l] \in Nat /\ leases[l] > 1 /\ leases'[l] = leases[l] - 1
          /\ l \in DOMAIN leaseTokens /\ leaseTokens[l].ttl \in Nat
          /\ leaseTokens[l].ttl >= leases[l]
      BY <1>7, <2>1, LeaseTtlOutlivesHeartbeat DEF McpInvariant, LeaseTypes, LeasesHaveTokens
    <3>2. l \in DOMAIN leaseTokens'
      BY <1>8, <3>1
    <3>3. leaseTokens'[l].ttl = leaseTokens[l].ttl - 1
      BY <1>9, <3>2
    <3>. QED
      BY <3>1, <3>2, <3>3
  <2>2. ASSUME NEW l \in DOMAIN leaseTokens', leaseTokens'[l].released
        PROVE  l \notin DOMAIN leases'
    BY <1>7, <1>8, <1>9, <2>2 DEF McpInvariant, LeasesHaveTokens
  <2>. QED
    BY <2>1, <2>2 DEF LeasesHaveTokens
<1>12. PermitsAreLeased'
  <2>1. ASSUME NEW l \in DOMAIN permits, ~permits[l].lost, ~permits[l].unavailable
        PROVE  IsRenewed(l)'
    <3>1. l \in DOMAIN leases /\ leases[l] = LeaseTtl
      BY <1>1, <1>2, <2>1 DEF McpInvariant, PermitsAreLeased, IsRenewed
    <3>. QED
      BY <1>3, <1>7, <3>1, LeaseTtlOutlivesHeartbeat DEF IsRenewed
  <2>. QED
    BY <1>1, <1>2, <1>3, <2>1 DEF McpInvariant, PermitsAreLeased
<1>13. Counting' \subseteq Counting
  BY <1>2, <1>3 DEF Counting
<1>. QED
  BY <1>10, <1>11, <1>12, <1>13, FewerAreWithinLimit DEF McpInvariant

LEMMA FaultsKeepLeases ==
  ASSUME McpInvariant, RedisForgets \/ ApiRestarts
  PROVE  LeaseTypes' /\ LeasesHaveTokens' /\ PermitsAreLeased' /\ RunningWithinLimit'
<1>1. CASE RedisForgets
  <2>1. /\ DOMAIN permits' = DOMAIN permits
        /\ \A l \in DOMAIN permits : permits'[l] = [permits[l] EXCEPT !.lost = TRUE]
        /\ DOMAIN streams' = DOMAIN streams
        /\ \A t \in DOMAIN streams : streams'[t] = [streams[t] EXCEPT !.lost = TRUE]
        /\ DOMAIN leases' = {} /\ DOMAIN leaseTokens' = {}
        /\ rateTokens' = RateCapacity
        /\ UNCHANGED <<renewals, circuitOpen, checks, pings>>
    BY <1>1 DEF RedisForgets
  <2>2. \A l \in DOMAIN permits : /\ permits'[l] \in Permit /\ permits'[l].lost
                                  /\ permits'[l].due = permits[l].due
                                  /\ permits'[l].unavailable = permits[l].unavailable
    BY <2>1 DEF McpInvariant, LeaseTypes, Permit
  <2>3. \A t \in DOMAIN streams : streams'[t] \in Stream
    BY <2>1 DEF McpInvariant, LeaseTypes, Stream
  <2>4. LeaseTypes'
    BY <2>1, <2>2, <2>3, McpAssumption DEF McpInvariant, LeaseTypes
  <2>5. LeasesHaveTokens'
    BY <2>1 DEF LeasesHaveTokens
  <2>6. PermitsAreLeased'
    BY <2>1, <2>2 DEF McpInvariant, PermitsAreLeased
  <2>7. Counting' \subseteq Counting
    BY <2>1, <2>2 DEF Counting
  <2>. QED
    BY <2>4, <2>5, <2>6, <2>7, FewerAreWithinLimit DEF McpInvariant
<1>2. CASE ApiRestarts
  <2>1. /\ DOMAIN permits' = {} /\ DOMAIN streams' = {} /\ renewals' = {}
        /\ checks' = 0 /\ pings' = 0
        /\ UNCHANGED <<rateTokens, leases, leaseTokens>>
    BY <1>2 DEF ApiRestarts, redisVars
  <2>2. LeaseTypes' /\ LeasesHaveTokens' /\ PermitsAreLeased'
    BY <2>1 DEF McpInvariant, LeaseTypes, LeasesHaveTokens, PermitsAreLeased
  <2>3. Counting' \subseteq Counting
    BY <2>1 DEF Counting
  <2>. QED
    BY <2>2, <2>3, FewerAreWithinLimit DEF McpInvariant
<1>. QED
  BY <1>1, <1>2

LEMMA McpInitially ==
  ASSUME McpInit
  PROVE  McpInvariant
<1>1. /\ DOMAIN leases = {} /\ DOMAIN leaseTokens = {} /\ DOMAIN subscription = {}
      /\ DOMAIN permits = {} /\ DOMAIN streams = {} /\ renewals = {}
      /\ checks = 0 /\ pings = 0 /\ rateTokens = RateCapacity
  BY DEF McpInit
<1>2. LeaseTypes /\ LeasesHaveTokens /\ PermitsAreLeased /\ StreamOwns
  BY <1>1, McpAssumption DEF LeaseTypes, LeasesHaveTokens, PermitsAreLeased, StreamOwns
<1>3. {l \in DOMAIN permits : ~permits[l].lost} = {}
  BY <1>1
<1>4. Cardinality({}) = 0
  BY FS_EmptySet
<1>5. RunningWithinLimit
  BY <1>3, <1>4, McpAssumption DEF RunningWithinLimit
<1>. QED
  BY <1>2, <1>5 DEF McpInvariant

LEMMA McpStepKeeps ==
  ASSUME McpInvariant, [McpNext]_mcpVars
  PROVE  McpInvariant'
<1>1. StreamOwns'
  BY McpKeepsOwner DEF McpInvariant
<1>2. ASSUME NEW l \in DOMAIN permits, PermitStep(l)
      PROVE  LeaseTypes' /\ LeasesHaveTokens' /\ PermitsAreLeased' /\ RunningWithinLimit'
  BY <1>2, PermitStepMoves, PermitMovesKeepLeases, ReleaseKeepsLeases DEF PermitStep, McpInvariant
<1>3. LeaseTypes' /\ LeasesHaveTokens' /\ PermitsAreLeased' /\ RunningWithinLimit'
  BY <1>2, RequestsKeepLeases, AdmitToolKeepsLeases, RefuseKeepsLeases, RenewKeepsLeases,
     TimeKeepsLeases, FaultsKeepLeases DEF McpNext
<1>. QED
  BY <1>1, <1>3 DEF McpInvariant

(* Every admission, renewal, release, tick, outage, loss and restart keeps *)
(* the inductive invariant of the MCP server's leases.                     *)
THEOREM McpInvariantHolds == McpSpec => []McpInvariant
<1>1. McpInit => McpInvariant
  BY McpInitially
<1>2. McpInvariant /\ [McpNext]_mcpVars => McpInvariant'
  BY McpStepKeeps
<1>. QED
  BY <1>1, <1>2, PTL DEF McpSpec

(* The variables of the admission have their types, and the token of a     *)
(* lease outlives it.                                                      *)
THEOREM McpTypes == McpSpec => []McpTypeOK
<1>1. McpInvariant => McpTypeOK
  BY UnexpiredFacts DEF McpInvariant, LeaseTypes, LeasesHaveTokens, McpTypeOK
<1>. QED
  BY <1>1, McpInvariantHolds, PTL

(* However many requests, outages and restarts there are, one agent of one *)
(* process has no more than ToolLimit tool calls and one subscription that *)
(* Redis has not lost: the permit of a call counts until its operation     *)
(* ends, and a renewal that fails stops admissions before its lease can    *)
(* expire.  What Redis has lost may run beside that, and nothing is said   *)
(* of limits over all agents.                                              *)
THEOREM LimitsKept == McpSpec => []WithinLimits
<1>1. McpInvariant => WithinLimits
  BY OwnersAreOne DEF McpInvariant, WithinLimits
<1>. QED
  BY <1>1, McpInvariantHolds, PTL

(* No renewal that arrives after the release of a lease takes it again,    *)
(* and no admission draws its id while Redis remembers the release.        *)
THEOREM ReleasesLast == McpSpec => ReleasedStaysFree
<1>1. ASSUME McpInvariant, [McpNext]_mcpVars,
             NEW l \in DOMAIN leaseTokens, leaseTokens[l].released
      PROVE  l \notin DOMAIN leases'
  <2>1. l \notin DOMAIN leases
    BY <1>1 DEF McpInvariant, LeasesHaveTokens
  <2>2. CASE AdmitTool
    <3>1. PICK k \in FreshLeases : leases' = With(Unexpired, k, LeaseTtl)
      BY <2>2 DEF AdmitTool
    <3>. QED
      BY <2>1, <3>1, UnexpiredFacts DEF FreshLeases, With
  <2>3. ASSUME NEW k, Renew(k) PROVE l \notin DOMAIN leases'
    <3>1. \/ UNCHANGED leases
          \/ k # l /\ leases' = With(leases, k, LeaseTtl)
      BY <1>1, <2>3 DEF Renew, IsReleased
    <3>. QED
      BY <2>1, <3>1 DEF With
  <2>4. ASSUME \/ UNCHANGED leases \/ leases' = Unexpired \/ leases' = <<>>
               \/ \E k : leases' = Without(leases, k)
               \/ DOMAIN leases' = DOMAIN leases
        PROVE  l \notin DOMAIN leases'
    <3>1. CASE leases' = <<>>
      BY <3>1
    <3>2. CASE leases' = Unexpired
      BY <2>1, <3>2, UnexpiredFacts
    <3>3. ASSUME NEW k, leases' = Without(leases, k) PROVE l \notin DOMAIN leases'
      BY <2>1, <3>3 DEF Without, Restrict
    <3>. QED
      BY <2>1, <2>4, <3>1, <3>2, <3>3
  <2>5. ASSUME NEW k, PermitStep(k) \/ RenewFails(k) \/ RenewStream(k) \/ CloseStream(k)
        PROVE  l \notin DOMAIN leases'
    BY <2>4, <2>5 DEF PermitStep, Claim, AnswerEarly, Finish, Heartbeat, Release, SetPermit,
                      RenewFails, RenewStream, CloseStream, redisVars
  <2>6. CASE \/ PassCircuit \/ AskRedis \/ PingAnswered \/ AdmitOther \/ Refuse \/ Tick
             \/ RedisGoesDown \/ RedisComesBack \/ RedisForgets \/ ApiRestarts
             \/ UNCHANGED mcpVars
    BY <2>4, <2>6 DEF PassCircuit, AskRedis, PingAnswered, AdmitOther, Refuse, Tick,
                      RedisGoesDown, RedisComesBack, RedisForgets, ApiRestarts, mcpVars, redisVars
  <2>. QED
    BY <1>1, <2>2, <2>3, <2>5, <2>6 DEF McpNext
<1>2. McpInvariant /\ [McpNext]_mcpVars =>
        [\A l \in DOMAIN leaseTokens : leaseTokens[l].released => l \notin DOMAIN leases']_mcpVars
  BY <1>1
<1>. QED
  BY <1>2, McpInvariantHolds, PTL DEF McpSpec, ReleasedStaysFree

-----------------------------------------------------------------------------
(* DEADLINES OF PROPOSALS                                                  *)

FieldNames ==
  {"phase", "held", "due", "version", "published", "dispatch", "claim", "claimLive",
   "lease", "leaseLive", "cAt", "cClaim", "cClaimLive", "delivery", "failed"}

ProposalFields(d) ==
  /\ DOMAIN d = FieldNames
  /\ d.phase \in {"discussion", "voting", "closed"}
  /\ {d.due, d.cAt} \subseteq {"none", "later", "past"}
  /\ d.version \in Nat /\ d.published \in Nat /\ d.published <= d.version
  /\ {d.claim, d.lease, d.cClaim, d.delivery} \subseteq DeliveryTokens \cup {NoToken}
  /\ d.claimLive => d.claim # NoToken

(* HoldSuspends of the document d.                                         *)
SuspendedByHold(d) ==
  d.held => /\ {d.claim, d.lease, d.cClaim, d.delivery} = {NoToken}
            /\ ~d.dispatch /\ d.cAt = "none" /\ d.due = "none"

(* A job of a schedule of d or of an earlier one.                          *)
IsDelivery(d, j) ==
  /\ j = [version |-> j.version, tok |-> j.tok, tries |-> j.tries, stalled |-> j.stalled]
  /\ j.version \in Nat /\ j.version <= d.version
  /\ j.tok \in DeliveryTokens
  /\ j.tries \in Nat /\ j.tries < DeadlineAttempts
  /\ j.stalled => deaths >= 1

(* What a worker has in its hands at each place.                           *)
HandFields(d, h) ==
  \/ h = AtRest
  \/ /\ h.at \in {"p_read", "c_read"}
     /\ h = [at |-> h.at, tok |-> h.tok] /\ h.tok \in DeliveryTokens
  \/ /\ h.at \in {"p_add", "p_mark", "p_undo", "c_add", "c_mark", "c_undo"}
     /\ h = [at |-> h.at, tok |-> h.tok, version |-> h.version]
     /\ h.tok \in DeliveryTokens /\ h.version \in Nat /\ h.version <= d.version
  \/ /\ h.at \in {"a_claim", "a_tx", "a_release", "f_write"}
     /\ h = [at |-> h.at, tok |-> h.tok, job |-> h.job]
     /\ h.tok \in DeliveryTokens \cup {NoToken}
     /\ IsDelivery(d, h.job)

DeadlineTypes ==
  /\ ProposalFields(proposal) /\ SuspendedByHold(proposal)
  /\ \A j \in deliveries : IsDelivery(proposal, j)
  /\ DOMAIN hand = DeadlineWorkers
  /\ \A w \in DeadlineWorkers : HandFields(proposal, hand[w])
  /\ deaths \in Nat

LEMMA TokensAreNumbers == NoToken \notin DeliveryTokens
  BY ProposalDeadlineAssumption DEF NoToken

LEMMA FreshTokenIsToken ==
  ASSUME FreshTokens # {}
  PROVE  FreshToken \in DeliveryTokens
  BY DEF FreshToken, FreshTokens

(* Jobs and hands stay what they are while schedules and deaths go on.     *)
LEMMA LaterSchedule ==
  ASSUME DeadlineTypes, ProposalFields(proposal'), proposal.version <= proposal'.version,
         deaths' \in Nat, deaths <= deaths'
  PROVE  /\ \A j : IsDelivery(proposal, j) => IsDelivery(proposal, j)'
         /\ \A h : HandFields(proposal, h) => HandFields(proposal, h)'
<1>1. ASSUME NEW j, IsDelivery(proposal, j) PROVE IsDelivery(proposal, j)'
  BY <1>1 DEF IsDelivery, DeadlineTypes, ProposalFields
<1>2. ASSUME NEW h, HandFields(proposal, h) PROVE HandFields(proposal, h)'
  <2>1. proposal.version \in Nat /\ proposal'.version \in Nat
    BY DEF DeadlineTypes, ProposalFields
  <2>. QED
    BY <1>1, <1>2, <2>1 DEF HandFields
<1>. QED
  BY <1>1, <1>2

(* What a step has to show.                                                *)
LEMMA DeadlineStep ==
  ASSUME DeadlineTypes, ProposalFields(proposal'), SuspendedByHold(proposal'),
         proposal.version <= proposal'.version, deaths' \in Nat, deaths <= deaths',
         \A j \in deliveries' : j \in deliveries \/ IsDelivery(proposal, j)',
         \/ UNCHANGED hand
         \/ \E w \in DeadlineWorkers : \E h :
              hand' = [hand EXCEPT ![w] = h] /\ HandFields(proposal, h)'
  PROVE  DeadlineTypes'
<1>1. \A j \in deliveries' : IsDelivery(proposal, j)'
  BY LaterSchedule DEF DeadlineTypes
<1>2. DOMAIN hand' = DeadlineWorkers /\ \A w \in DeadlineWorkers : HandFields(proposal, hand[w])'
  <2>1. CASE UNCHANGED hand
    BY <2>1, LaterSchedule DEF DeadlineTypes
  <2>2. ASSUME NEW w \in DeadlineWorkers, NEW h, hand' = [hand EXCEPT ![w] = h],
               HandFields(proposal, h)'
        PROVE  DOMAIN hand' = DeadlineWorkers
               /\ \A v \in DeadlineWorkers : HandFields(proposal, hand[v])'
    <3>1. DOMAIN hand' = DeadlineWorkers /\ hand'[w] = h
          /\ \A v \in DeadlineWorkers \ {w} : hand'[v] = hand[v]
      BY <2>2 DEF DeadlineTypes
    <3>2. \A v \in DeadlineWorkers \ {w} : HandFields(proposal, hand[v])'
      BY <3>1, LaterSchedule DEF DeadlineTypes
    <3>. QED
      BY <2>2, <3>1, <3>2
  <2>. QED
    BY <2>1, <2>2
<1>. QED
  BY <1>1, <1>2 DEF DeadlineTypes

(* What the writes to the document do.                                     *)
LEMMA SchedulesAndEnds ==
  ASSUME NEW d, ProposalFields(d), NEW due \in {"later", "past"}
  PROVE  /\ ProposalFields(Scheduled(d, due)) /\ ProposalFields(Suspended(d))
         /\ ProposalFields(Closed(d))
         /\ Scheduled(d, due).version = d.version + 1
         /\ Scheduled(d, due).held = d.held /\ Scheduled(d, due).phase = d.phase
         /\ Scheduled(d, due).dispatch /\ Scheduled(d, due).published < Scheduled(d, due).version
         /\ ~Scheduled(d, due).leaseLive
         /\ Scheduled(d, due).cClaim = NoToken
         /\ Suspended(d).version = d.version + 1 /\ ~Suspended(d).leaseLive
         /\ Suspended(d).phase = d.phase
         /\ {Suspended(d).claim, Suspended(d).lease, Suspended(d).cClaim, Suspended(d).delivery}
              = {NoToken}
         /\ ~Suspended(d).dispatch /\ Suspended(d).cAt = "none" /\ Suspended(d).due = "none"
         /\ Closed(d).version = d.version + 1 /\ ~Closed(d).leaseLive
         /\ Closed(d).phase = "closed" /\ ~Closed(d).held /\ Closed(d).cClaim = NoToken
<1>1. d.version \in Nat /\ d.published \in Nat /\ d.published <= d.version
  BY DEF ProposalFields
<1>2. /\ DOMAIN Cleared(d) = FieldNames
      /\ Cleared(d).version = d.version /\ Cleared(d).published = d.published
      /\ Cleared(d).phase = d.phase /\ Cleared(d).held = d.held
      /\ {Cleared(d).claim, Cleared(d).lease, Cleared(d).cClaim, Cleared(d).delivery} = {NoToken}
      /\ ~Cleared(d).claimLive /\ ~Cleared(d).leaseLive
  BY DEF ProposalFields, FieldNames, Cleared
<1>3. /\ DOMAIN Scheduled(d, due) = FieldNames
      /\ Scheduled(d, due).version = d.version + 1
      /\ Scheduled(d, due).published = d.published
      /\ Scheduled(d, due).phase = d.phase /\ Scheduled(d, due).held = d.held
      /\ {Scheduled(d, due).claim, Scheduled(d, due).lease, Scheduled(d, due).cClaim,
          Scheduled(d, due).delivery} = {NoToken}
      /\ ~Scheduled(d, due).claimLive /\ ~Scheduled(d, due).leaseLive
      /\ Scheduled(d, due).dispatch
      /\ Scheduled(d, due).due = due /\ Scheduled(d, due).cAt = due
  BY <1>2 DEF FieldNames, Scheduled
<1>4. /\ DOMAIN Suspended(d) = FieldNames
      /\ Suspended(d).version = d.version + 1 /\ Suspended(d).published = d.version + 1
      /\ Suspended(d).phase = d.phase /\ Suspended(d).held = d.held
      /\ {Suspended(d).claim, Suspended(d).lease, Suspended(d).cClaim, Suspended(d).delivery}
           = {NoToken}
      /\ ~Suspended(d).claimLive /\ ~Suspended(d).leaseLive
      /\ ~Suspended(d).dispatch /\ Suspended(d).cAt = "none" /\ Suspended(d).due = "none"
  BY <1>2 DEF FieldNames, Suspended
<1>5. /\ DOMAIN Closed(d) = FieldNames
      /\ Closed(d).version = d.version + 1 /\ Closed(d).published = d.version + 1
      /\ Closed(d).phase = "closed" /\ ~Closed(d).held
      /\ {Closed(d).claim, Closed(d).lease, Closed(d).cClaim, Closed(d).delivery} = {NoToken}
      /\ ~Closed(d).claimLive /\ ~Closed(d).leaseLive
      /\ ~Closed(d).dispatch /\ Closed(d).cAt = "none" /\ Closed(d).due = "none"
  BY <1>4 DEF FieldNames, Closed
<1>6. d.phase \in {"discussion", "voting", "closed"}
  BY DEF ProposalFields
<1>7. ProposalFields(Scheduled(d, due)) /\ Scheduled(d, due).published < Scheduled(d, due).version
  <2>1. Scheduled(d, due).phase \in {"discussion", "voting", "closed"}
    BY <1>3, <1>6
  <2>2. /\ {Scheduled(d, due).claim, Scheduled(d, due).lease, Scheduled(d, due).cClaim, Scheduled(d, due).delivery}
             \subseteq DeliveryTokens \cup {NoToken}
        /\ {Scheduled(d, due).due, Scheduled(d, due).cAt} \subseteq {"none", "later", "past"}
    BY <1>3
  <2>3. /\ Scheduled(d, due).version \in Nat /\ Scheduled(d, due).published \in Nat
        /\ Scheduled(d, due).published <= Scheduled(d, due).version
        /\ Scheduled(d, due).published < Scheduled(d, due).version
    BY <1>1, <1>3
  <2>. QED
    BY <1>3, <2>1, <2>2, <2>3 DEF ProposalFields
<1>8. ProposalFields(Suspended(d))
  <2>1. Suspended(d).phase \in {"discussion", "voting", "closed"}
    BY <1>4, <1>6
  <2>2. /\ {Suspended(d).claim, Suspended(d).lease, Suspended(d).cClaim, Suspended(d).delivery}
             \subseteq DeliveryTokens \cup {NoToken}
        /\ {Suspended(d).due, Suspended(d).cAt} \subseteq {"none", "later", "past"}
    BY <1>4
  <2>3. /\ Suspended(d).version \in Nat /\ Suspended(d).published \in Nat
        /\ Suspended(d).published <= Suspended(d).version
    BY <1>1, <1>4
  <2>. QED
    BY <1>4, <2>1, <2>2, <2>3 DEF ProposalFields
<1>9. ProposalFields(Closed(d))
  BY <1>1, <1>5, <1>6 DEF ProposalFields
<1>. QED
  BY <1>3, <1>4, <1>5, <1>7, <1>8, <1>9

(* A new schedule, a hold, its release or an end: what was under way has   *)
(* lost its version, its lease and its claims.                             *)
Restarts ==
  /\ proposal'.version = proposal.version + 1
  /\ ~proposal'.leaseLive /\ proposal'.cClaim = NoToken
  /\ \/ proposal'.phase = "closed"
     \/ proposal'.held
     \/ proposal'.dispatch /\ proposal'.published < proposal'.version

(* The passing of time.                                                    *)
Elapses ==
  /\ \A f \in {"version", "published", "phase", "held", "dispatch", "claim", "lease",
               "cClaim", "delivery", "failed"} : proposal'[f] = proposal[f]
  /\ proposal'.leaseLive => proposal.leaseLive
  /\ proposal.due = "past" => proposal'.due = "past"
  /\ proposal.cAt # "none" => proposal'.cAt # "none"

LEMMA PeopleAndClock ==
  ASSUME DeadlineTypes, People \/ Clock
  PROVE  /\ ProposalFields(proposal') /\ SuspendedByHold(proposal')
         /\ Restarts \/ Elapses
         /\ UNCHANGED <<deliveries, hand, throws, deaths>>
<1>1. UNCHANGED <<deliveries, hand, throws, deaths>>
  BY DEF People, Clock, ReviseProposal, HoldForGovernance, ReleaseGovernanceHold, EndProposal,
         ProposalComesDue, ScheduleClaimRunsOut, LeaseRunsOut, CompensationComesDue,
         CompensationClaimRunsOut, Domain
<1>2. ProposalFields(proposal) /\ SuspendedByHold(proposal)
  BY DEF DeadlineTypes
<1>3. ASSUME ReviseProposal
      PROVE  ProposalFields(proposal') /\ SuspendedByHold(proposal') /\ Restarts
  <2>1. proposal' = Scheduled(proposal, "later") /\ ~proposal.held
    BY <1>3 DEF ReviseProposal, Domain
  <2>. QED
    BY <1>2, <2>1, SchedulesAndEnds DEF SuspendedByHold, Restarts
<1>4. ASSUME proposal' = Closed(proposal)
      PROVE  ProposalFields(proposal') /\ SuspendedByHold(proposal') /\ Restarts
  BY <1>2, <1>4, SchedulesAndEnds DEF SuspendedByHold, Restarts
<1>5. ASSUME HoldForGovernance
      PROVE  ProposalFields(proposal') /\ SuspendedByHold(proposal') /\ Restarts
  <2>. DEFINE d == Suspended(proposal)
  <2>1. proposal' = [d EXCEPT !.held = TRUE]
    BY <1>5 DEF HoldForGovernance, Domain
  <2>2. /\ ProposalFields(d) /\ d.version = proposal.version + 1
        /\ ~d.leaseLive /\ {d.claim, d.lease, d.cClaim, d.delivery} = {NoToken}
        /\ ~d.dispatch /\ d.cAt = "none" /\ d.due = "none"
    BY <1>2, SchedulesAndEnds
  <2>. HIDE DEF d
  <2>. QED
    BY <2>1, <2>2 DEF ProposalFields, FieldNames, SuspendedByHold, Restarts
<1>6. ASSUME NEW due \in {"later", "past"},
             proposal' = Scheduled([proposal EXCEPT !.held = FALSE], due)
      PROVE  ProposalFields(proposal') /\ SuspendedByHold(proposal') /\ Restarts
  <2>. DEFINE d == [proposal EXCEPT !.held = FALSE]
  <2>1. ProposalFields(d) /\ ~d.held /\ d.version = proposal.version
    BY <1>2 DEF ProposalFields, FieldNames
  <2>2. proposal' = Scheduled(d, due)
    BY <1>6
  <2>. HIDE DEF d
  <2>. QED
    BY <2>1, <2>2, SchedulesAndEnds DEF SuspendedByHold, Restarts
<1>7. ASSUME Clock
      PROVE  ProposalFields(proposal') /\ SuspendedByHold(proposal') /\ Elapses
  <2>1. CASE ProposalComesDue
    BY <1>2, <2>1 DEF ProposalComesDue, Domain, ProposalFields, FieldNames, SuspendedByHold, Elapses
  <2>2. CASE ScheduleClaimRunsOut
    BY <1>2, <2>2 DEF ScheduleClaimRunsOut, Domain, ProposalFields, FieldNames, SuspendedByHold, Elapses
  <2>3. CASE LeaseRunsOut
    BY <1>2, <2>3 DEF LeaseRunsOut, Domain, ProposalFields, FieldNames, SuspendedByHold, Elapses
  <2>4. CASE CompensationComesDue
    BY <1>2, <2>4 DEF CompensationComesDue, Domain, ProposalFields, FieldNames, SuspendedByHold, Elapses
  <2>5. CASE CompensationClaimRunsOut
    BY <1>2, <2>5 DEF CompensationClaimRunsOut, Domain, ProposalFields, FieldNames, SuspendedByHold, Elapses
  <2>. QED
    BY <1>7, <2>1, <2>2, <2>3, <2>4, <2>5 DEF Clock
<1>. QED
  BY <1>1, <1>3, <1>4, <1>5, <1>6, <1>7 DEF People, ReleaseGovernanceHold, EndProposal, Domain

LEMMA PeopleAndClockKeepTypes ==
  ASSUME DeadlineTypes, People \/ Clock
  PROVE  DeadlineTypes'
<1>1. proposal.version <= proposal'.version
  BY PeopleAndClock DEF Restarts, Elapses, ProposalFields, DeadlineTypes
<1>2. UNCHANGED <<deliveries, hand, deaths>> /\ deaths \in Nat
  BY PeopleAndClock DEF DeadlineTypes
<1>. QED
  BY <1>1, <1>2, PeopleAndClock, DeadlineStep

(* A write that belongs to the schedule the document has.                  *)
SameSchedule(d, e) ==
  /\ ProposalFields(e) /\ SuspendedByHold(e)
  /\ e.version = d.version /\ e.phase = d.phase /\ e.held = d.held /\ e.due = d.due

LEMMA SweepWrites ==
  ASSUME NEW d, ProposalFields(d), SuspendedByHold(d), NEW tok \in DeliveryTokens
  PROVE  /\ SameSchedule(d, d)
         /\ ~d.held => SameSchedule(d, [d EXCEPT !.claim = tok, !.claimLive = TRUE])
         /\ SameSchedule(d, [d EXCEPT !.claim = NoToken, !.claimLive = FALSE])
         /\ \A v : SameSchedule(d, Published(d, tok, v))
         /\ ~d.held => SameSchedule(d, [d EXCEPT !.cAt = "none", !.cClaim = tok,
                                                 !.cClaimLive = TRUE, !.delivery = tok])
         /\ d.cClaim = tok => SameSchedule(d, [d EXCEPT !.cAt = "later", !.cClaim = NoToken])
         /\ SameSchedule(d, GivenBack(d, tok))
<1>1. tok # NoToken
  BY TokensAreNumbers
<1>2. d.version \in Nat /\ d.published \in Nat /\ d.published <= d.version
  BY DEF ProposalFields
<1>3. SameSchedule(d, d)
  BY DEF SameSchedule
<1>4. ASSUME ~d.held PROVE SameSchedule(d, [d EXCEPT !.claim = tok, !.claimLive = TRUE])
  BY <1>1, <1>2, <1>4 DEF ProposalFields, FieldNames, SuspendedByHold, SameSchedule
<1>5. SameSchedule(d, [d EXCEPT !.claim = NoToken, !.claimLive = FALSE])
  BY <1>1, <1>2 DEF ProposalFields, FieldNames, SuspendedByHold, SameSchedule
<1>6. ASSUME NEW v PROVE SameSchedule(d, Published(d, tok, v))
  <2>1. CASE d.version = v /\ d.claim = tok
    <3>1. ~d.held
      BY <1>1, <2>1 DEF SuspendedByHold
    <3>. DEFINE e == [d EXCEPT !.published = v, !.dispatch = FALSE, !.claim = NoToken,
                               !.claimLive = FALSE, !.cAt = "none", !.delivery = tok,
                               !.failed = FALSE]
    <3>2. Published(d, tok, v) = e
      BY <2>1 DEF Published
    <3>3. /\ DOMAIN e = FieldNames /\ e.version = d.version /\ e.phase = d.phase
          /\ e.held = d.held /\ e.due = d.due /\ e.published = d.version
          /\ {e.claim, e.delivery} = {NoToken, tok} /\ e.lease = d.lease /\ e.cClaim = d.cClaim
          /\ ~e.claimLive /\ e.cAt = "none"
      BY <2>1 DEF ProposalFields, FieldNames
    <3>. HIDE DEF e
    <3>4. ProposalFields(e)
      BY <1>2, <3>3 DEF ProposalFields
    <3>. QED
      BY <3>1, <3>2, <3>3, <3>4 DEF SameSchedule, SuspendedByHold
  <2>2. CASE ~(d.version = v /\ d.claim = tok)
    BY <1>3, <2>2 DEF Published
  <2>. QED
    BY <2>1, <2>2
<1>7. ASSUME ~d.held
      PROVE  SameSchedule(d, [d EXCEPT !.cAt = "none", !.cClaim = tok,
                                       !.cClaimLive = TRUE, !.delivery = tok])
  BY <1>1, <1>2, <1>7 DEF ProposalFields, FieldNames, SuspendedByHold, SameSchedule
<1>8. ASSUME d.cClaim = tok
      PROVE  SameSchedule(d, [d EXCEPT !.cAt = "later", !.cClaim = NoToken])
  BY <1>1, <1>2, <1>8 DEF ProposalFields, FieldNames, SuspendedByHold, SameSchedule
<1>9. SameSchedule(d, GivenBack(d, tok))
  BY <1>1, <1>2, <1>3 DEF ProposalFields, FieldNames, SuspendedByHold, SameSchedule, GivenBack
<1>. QED
  BY <1>3, <1>4, <1>5, <1>6, <1>7, <1>8, <1>9

LEMMA JobWrites ==
  ASSUME NEW d, ProposalFields(d), SuspendedByHold(d), NEW tok \in DeliveryTokens
  PROVE  /\ ~d.held => SameSchedule(d, [d EXCEPT !.lease = tok, !.leaseLive = TRUE])
         /\ SameSchedule(d, [d EXCEPT !.lease = NoToken, !.leaseLive = FALSE])
         /\ \A j : j.tok \in DeliveryTokens => SameSchedule(d, FailureRecorded(d, j))
<1>1. d.version \in Nat /\ d.published \in Nat /\ d.published <= d.version
  BY DEF ProposalFields
<1>2. ASSUME ~d.held PROVE SameSchedule(d, [d EXCEPT !.lease = tok, !.leaseLive = TRUE])
  BY <1>1, <1>2 DEF ProposalFields, FieldNames, SuspendedByHold, SameSchedule
<1>3. SameSchedule(d, [d EXCEPT !.lease = NoToken, !.leaseLive = FALSE])
  BY <1>1 DEF ProposalFields, FieldNames, SuspendedByHold, SameSchedule
<1>4. ASSUME NEW j, j.tok \in DeliveryTokens PROVE SameSchedule(d, FailureRecorded(d, j))
  <2>1. CASE d.version = j.version /\ d.delivery = j.tok
    <3>1. ~d.held
      BY <1>4, <2>1, TokensAreNumbers DEF SuspendedByHold
    <3>. QED
      BY <1>1, <2>1, <3>1 DEF ProposalFields, FieldNames, SuspendedByHold, SameSchedule, FailureRecorded
  <2>2. CASE ~(d.version = j.version /\ d.delivery = j.tok)
    BY <2>2 DEF SameSchedule, FailureRecorded
  <2>. QED
    BY <2>1, <2>2
<1>. QED
  BY <1>2, <1>3, <1>4

(* The commit of a transition.                                             *)
LEMMA AdvanceWrites ==
  ASSUME NEW d, ProposalFields(d), SuspendedByHold(d), d.phase = "discussion", ~d.held
  PROVE  LET e == [Scheduled(d, "later") EXCEPT !.phase = "voting", !.failed = FALSE]
         IN  /\ ProposalFields(e) /\ SuspendedByHold(e)
             /\ e.version = d.version + 1 /\ ~e.leaseLive /\ e.cClaim = NoToken
             /\ e.dispatch /\ e.published < e.version
<1>. DEFINE s == Scheduled(d, "later")
<1>1. /\ ProposalFields(s) /\ s.version = d.version + 1 /\ ~s.held /\ s.dispatch
      /\ s.published < s.version /\ ~s.leaseLive /\ s.cClaim = NoToken
  BY SchedulesAndEnds
<1>. HIDE DEF s
<1>2. LET e == [s EXCEPT !.phase = "voting", !.failed = FALSE]
      IN  /\ ProposalFields(e) /\ SuspendedByHold(e)
          /\ e.version = d.version + 1 /\ ~e.leaseLive /\ e.cClaim = NoToken
          /\ e.dispatch /\ e.published < e.version
  BY <1>1 DEF ProposalFields, FieldNames, SuspendedByHold
<1>. QED
  BY <1>2 DEF s

(* What a sweep or a job does: it stays within the schedule of the         *)
(* document, or commits the next transition.                               *)
LEMMA HandedOn ==
  ASSUME DeadlineTypes, NEW w \in DeadlineWorkers, NEW h,
         SameSchedule(proposal, proposal'), deaths' \in Nat, deaths <= deaths',
         hand' = [hand EXCEPT ![w] = h], HandFields(proposal, h)',
         \A j \in deliveries' : j \in deliveries \/ IsDelivery(proposal, j)'
  PROVE  DeadlineTypes'
<1>1. proposal.version <= proposal'.version
  BY DEF SameSchedule, ProposalFields, DeadlineTypes
<1>. QED
  BY <1>1, DeadlineStep DEF SameSchedule

LEMMA SweepKeepsTypes ==
  ASSUME DeadlineTypes, NEW w \in DeadlineWorkers, DeadlineSweepStep(w)
  PROVE  DeadlineTypes' /\ SameSchedule(proposal, proposal')
<1>1. /\ ProposalFields(proposal) /\ SuspendedByHold(proposal) /\ HandFields(proposal, hand[w])
      /\ proposal.version \in Nat /\ deaths \in Nat /\ UNCHANGED deaths /\ deaths <= deaths'
  BY DEF DeadlineTypes, ProposalFields, DeadlineSweepStep, ClaimSchedule, ReadBack,
         AddProposalJob, MarkPublished, ReleaseScheduleClaim, ClaimCompensation,
         MarkCompensated, UndoCompensation
<1>2. SameSchedule(proposal, proposal)
  BY <1>1 DEF SameSchedule
<1>3. \A d : HandFields(d, AtRest)
  BY DEF HandFields
<1>4. hand[w].at \in {"p_read", "c_read", "p_add", "p_mark", "p_undo", "c_add", "c_mark", "c_undo"}
        => hand[w].tok \in DeliveryTokens
  BY <1>1 DEF HandFields, AtRest
<1>5. CASE ClaimSchedule(w) \/ ClaimCompensation(w)
  <2>1. /\ FreshToken \in DeliveryTokens /\ ~proposal.held
        /\ UNCHANGED deliveries
    BY <1>5, FreshTokenIsToken DEF ClaimSchedule, ClaimCompensation
  <2>2. SameSchedule(proposal, proposal')
    <3>1. PICK t : t = FreshToken /\ t \in DeliveryTokens
      BY <2>1
    <3>2. \/ proposal' = [proposal EXCEPT !.claim = t, !.claimLive = TRUE]
          \/ proposal' = [proposal EXCEPT !.cAt = "none", !.cClaim = t,
                                          !.cClaimLive = TRUE, !.delivery = t]
      BY <1>5, <3>1 DEF ClaimSchedule, ClaimCompensation
    <3>3. /\ SameSchedule(proposal, [proposal EXCEPT !.claim = t, !.claimLive = TRUE])
          /\ SameSchedule(proposal, [proposal EXCEPT !.cAt = "none", !.cClaim = t,
                                                     !.cClaimLive = TRUE, !.delivery = t])
      BY <1>1, <2>1, <3>1, SweepWrites
    <3>. QED
      BY <3>2, <3>3, Zenon
  <2>3. PICK p, t, h : /\ p \in {"p_read", "c_read"} /\ t \in DeliveryTokens
                       /\ h = [at |-> p, tok |-> t] /\ hand' = [hand EXCEPT ![w] = h]
    BY <1>5, <2>1 DEF ClaimSchedule, ClaimCompensation, Moves
  <2>4. HandFields(proposal, h)'
    BY <2>3 DEF HandFields
  <2>. QED
    BY <1>1, <2>1, <2>2, <2>3, <2>4, HandedOn
<1>6. ASSUME NEW from \in {"p_read", "c_read"}, NEW to \in {"p_add", "c_add"}, NEW t,
             ReadBack(w, from, to, t)
      PROVE  DeadlineTypes' /\ SameSchedule(proposal, proposal')
  <2>1. hand[w].tok \in DeliveryTokens /\ UNCHANGED <<proposal, deliveries>>
    BY <1>4, <1>6 DEF ReadBack
  <2>2. PICK h : /\ hand' = [hand EXCEPT ![w] = h]
                 /\ h = AtRest \/ h = [at |-> to, tok |-> hand[w].tok, version |-> proposal.version]
    BY <1>6 DEF ReadBack, Moves
  <2>3. HandFields(proposal, h)'
    BY <1>1, <2>1, <2>2 DEF HandFields
  <2>. QED
    BY <1>1, <1>2, <2>1, <2>2, <2>3, HandedOn
<1>7. ASSUME NEW from \in {"p_add", "c_add"}, NEW to \in {"p_mark", "c_mark"},
             AddProposalJob(w, from, to)
      PROVE  DeadlineTypes' /\ SameSchedule(proposal, proposal')
  <2>1. /\ hand[w] = [at |-> from, tok |-> hand[w].tok, version |-> hand[w].version]
        /\ hand[w].tok \in DeliveryTokens
        /\ hand[w].version \in Nat /\ hand[w].version <= proposal.version
        /\ UNCHANGED proposal
    BY <1>1, <1>7 DEF AddProposalJob, HandFields, AtRest
  <2>2. PICK h : /\ hand' = [hand EXCEPT ![w] = h]
                 /\ h = [hand[w] EXCEPT !.at = to]
    BY <1>7 DEF AddProposalJob, Moves
  <2>3. h = [at |-> to, tok |-> hand[w].tok, version |-> hand[w].version]
    BY <2>1, <2>2
  <2>4. HandFields(proposal, h)'
    BY <1>1, <2>1, <2>3 DEF HandFields
  <2>5. PICK k : k = JobOf(hand[w]) /\ deliveries' = deliveries \cup {k}
    BY <1>7 DEF AddProposalJob
  <2>6. IsDelivery(proposal, k)'
    BY <1>1, <2>1, <2>5, ProposalDeadlineAssumption DEF IsDelivery, JobOf
  <2>. QED
    BY <1>1, <1>2, <2>1, <2>2, <2>4, <2>5, <2>6, HandedOn
<1>8. ASSUME UNCHANGED deliveries, Moves(w, AtRest), SameSchedule(proposal, proposal')
      PROVE  DeadlineTypes' /\ SameSchedule(proposal, proposal')
  <2>1. PICK h : h = AtRest /\ hand' = [hand EXCEPT ![w] = h]
    BY <1>8 DEF Moves
  <2>2. HandFields(proposal, h)'
    BY <2>1 DEF HandFields
  <2>. QED
    BY <1>1, <1>8, <2>1, <2>2, HandedOn
<1>9. CASE MarkPublished(w)
  BY <1>1, <1>4, <1>8, <1>9, SweepWrites DEF MarkPublished
<1>10. CASE ReleaseScheduleClaim(w)
  BY <1>1, <1>2, <1>4, <1>8, <1>10, SweepWrites DEF ReleaseScheduleClaim
<1>11. CASE MarkCompensated(w)
  BY <1>1, <1>2, <1>4, <1>8, <1>11, SweepWrites DEF MarkCompensated
<1>12. CASE UndoCompensation(w)
  BY <1>1, <1>4, <1>8, <1>12, SweepWrites DEF UndoCompensation
<1>. QED
  BY <1>5, <1>6, <1>7, <1>9, <1>10, <1>11, <1>12 DEF DeadlineSweepStep

LEMMA DeliveryKeepsTypes ==
  ASSUME DeadlineTypes, NEW w \in DeadlineWorkers, TakeDelivery(w)
  PROVE  DeadlineTypes' /\ SameSchedule(proposal, proposal')
<1>1. /\ SameSchedule(proposal, proposal) /\ UNCHANGED <<proposal, deaths>>
      /\ deaths \in Nat /\ deaths <= deaths'
  BY DEF DeadlineTypes, SameSchedule, TakeDelivery
<1>2. PICK j, h : /\ j \in deliveries
                  /\ deliveries' = deliveries \ {j}
                  /\ hand' = [hand EXCEPT ![w] = h]
                  /\ h = [at |-> "a_claim", tok |-> NoToken, job |-> j]
  BY DEF TakeDelivery, Moves
<1>3. IsDelivery(proposal, j)'
  BY <1>1, <1>2 DEF DeadlineTypes, IsDelivery
<1>4. HandFields(proposal, h)'
  BY <1>2, <1>3 DEF HandFields
<1>. QED
  BY <1>1, <1>2, <1>4, HandedOn

(* The end of an attempt: the job waits again or its failure is recorded.  *)
LEMMA AttemptEnds ==
  ASSUME DeadlineTypes, NEW w \in DeadlineWorkers, NEW j, IsDelivery(proposal, j),
         EndOfAttempt(w, j), SameSchedule(proposal, proposal'), UNCHANGED deaths
  PROVE  DeadlineTypes'
<1>1. deaths \in Nat /\ deaths <= deaths' /\ proposal.version = proposal'.version
  BY DEF DeadlineTypes, SameSchedule
<1>2. CASE j.tries + 1 < DeadlineAttempts
  <2>1. PICK n, k : /\ n = j.tries + 1 /\ k = [j EXCEPT !.tries = n]
                    /\ deliveries' = deliveries \cup {k}
    BY <1>2 DEF EndOfAttempt
  <2>2. /\ k = [version |-> j.version, tok |-> j.tok, tries |-> n, stalled |-> j.stalled]
        /\ n \in Nat /\ n < DeadlineAttempts
    BY <1>2, <2>1 DEF IsDelivery
  <2>3. IsDelivery(proposal, k)'
    BY <1>1, <2>2 DEF IsDelivery
  <2>4. PICK h : h = AtRest /\ hand' = [hand EXCEPT ![w] = h]
    BY <1>2 DEF EndOfAttempt, Moves
  <2>5. HandFields(proposal, h)'
    BY <2>4 DEF HandFields
  <2>. QED
    BY <1>1, <2>1, <2>3, <2>4, <2>5, HandedOn
<1>3. CASE ~(j.tries + 1 < DeadlineAttempts)
  <2>1. PICK h : /\ h = [at |-> "f_write", tok |-> NoToken, job |-> j]
                 /\ hand' = [hand EXCEPT ![w] = h] /\ UNCHANGED deliveries
    BY <1>3 DEF EndOfAttempt, Moves
  <2>2. IsDelivery(proposal, j)'
    BY <1>1 DEF IsDelivery
  <2>3. HandFields(proposal, h)'
    BY <2>1, <2>2 DEF HandFields
  <2>. QED
    BY <1>1, <2>1, <2>3, HandedOn
<1>. QED
  BY <1>2, <1>3

(* The commit of a transition is a new schedule or an end.                 *)
Commits(w) ==
  /\ hand[w].at = "a_tx" /\ hand'[w] = AtRest
  /\ ProposalFields(proposal') /\ SuspendedByHold(proposal')
  /\ Restarts

LEMMA JobKeepsTypes ==
  ASSUME DeadlineTypes, NEW w \in DeadlineWorkers, DeadlineJobStep(w)
  PROVE  /\ DeadlineTypes'
         /\ SameSchedule(proposal, proposal') \/ Commits(w)
<1>1. /\ ProposalFields(proposal) /\ SuspendedByHold(proposal) /\ HandFields(proposal, hand[w])
      /\ deaths \in Nat /\ UNCHANGED deaths /\ deaths <= deaths' /\ proposal.version \in Nat
  BY DEF DeadlineTypes, ProposalFields, DeadlineJobStep, LeaseProposal, AdvanceProposal,
         ReleaseLease, ReleaseFailedDelivery
<1>2. SameSchedule(proposal, proposal)
  BY <1>1 DEF SameSchedule
<1>3. hand[w].at \in {"a_claim", "a_tx", "a_release", "f_write"} =>
        IsDelivery(proposal, hand[w].job)
  BY <1>1 DEF HandFields, AtRest
<1>4. CASE LeaseProposal(w)
  <2>1. UNCHANGED deliveries /\ IsDelivery(proposal, hand[w].job)
    BY <1>3, <1>4 DEF LeaseProposal
  <2>2. CASE UNCHANGED proposal /\ Moves(w, AtRest)
    <3>1. PICK h : h = AtRest /\ hand' = [hand EXCEPT ![w] = h]
      BY <2>2 DEF Moves
    <3>2. HandFields(proposal, h)'
      BY <3>1 DEF HandFields
    <3>. QED
      BY <1>1, <1>2, <2>1, <2>2, <3>1, <3>2, HandedOn
  <2>3. CASE /\ ~proposal.held /\ FreshTokens # {}
             /\ proposal' = [proposal EXCEPT !.lease = FreshToken, !.leaseLive = TRUE]
             /\ Moves(w, [at |-> "a_tx", tok |-> FreshToken, job |-> hand[w].job])
    <3>1. PICK t, j, h : /\ t \in DeliveryTokens /\ j = hand[w].job
                         /\ h = [at |-> "a_tx", tok |-> t, job |-> j]
                         /\ hand' = [hand EXCEPT ![w] = h]
                         /\ proposal' = [proposal EXCEPT !.lease = t, !.leaseLive = TRUE]
      BY <2>3, FreshTokenIsToken DEF Moves
    <3>2. SameSchedule(proposal, proposal')
      <4>1. ~proposal.held /\ t \in DeliveryTokens
        BY <2>3, <3>1
      <4>2. ProposalFields(proposal) /\ SuspendedByHold(proposal)
        BY <1>1
      <4>3. SameSchedule(proposal, [proposal EXCEPT !.lease = t, !.leaseLive = TRUE])
        BY <4>1, <4>2, JobWrites
      <4>4. proposal' = [proposal EXCEPT !.lease = t, !.leaseLive = TRUE]
        BY <3>1
      <4>. QED
        BY <4>3, <4>4
    <3>3. IsDelivery(proposal, j)'
      BY <1>1, <2>1, <3>1, <3>2 DEF IsDelivery, SameSchedule
    <3>4. HandFields(proposal, h)'
      BY <3>1, <3>3 DEF HandFields
    <3>. QED
      BY <1>1, <2>1, <3>1, <3>2, <3>4, HandedOn
  <2>. QED
    BY <1>4, <2>2, <2>3 DEF LeaseProposal
<1>5. CASE AdvanceProposal(w)
  <2>1. PICK h : h = AtRest /\ hand' = [hand EXCEPT ![w] = h]
    BY <1>5 DEF AdvanceProposal, Moves
  <2>2. HandFields(proposal, h)' /\ hand'[w] = AtRest /\ UNCHANGED deliveries
        /\ hand[w].at = "a_tx"
    BY <1>5, <2>1 DEF HandFields, DeadlineTypes, AdvanceProposal
  <2>3. CASE UNCHANGED proposal
    BY <1>1, <1>2, <2>1, <2>2, <2>3, HandedOn
  <2>4. ASSUME \/ proposal' = Closed(proposal)
               \/ /\ proposal.phase = "discussion" /\ ~proposal.held
                  /\ proposal' = [Scheduled(proposal, "later") EXCEPT !.phase = "voting",
                                                                      !.failed = FALSE]
        PROVE  DeadlineTypes' /\ Commits(w)
    <3>1. Commits(w)
      <4>1. CASE proposal' = Closed(proposal)
        BY <1>1, <2>2, <4>1, SchedulesAndEnds DEF Commits, Restarts, SuspendedByHold
      <4>2. CASE proposal' # Closed(proposal)
        BY <1>1, <2>2, <2>4, <4>2, AdvanceWrites DEF Commits, Restarts
      <4>. QED
        BY <4>1, <4>2
    <3>2. proposal.version <= proposal'.version
      BY <1>1, <3>1 DEF Commits, Restarts
    <3>. QED
      BY <1>1, <2>1, <2>2, <3>1, <3>2, DeadlineStep DEF Commits
  <2>. QED
    BY <1>5, <2>3, <2>4 DEF AdvanceProposal, LeaseHolds
<1>6. CASE ReleaseLease(w)
  <2>1. SameSchedule(proposal, proposal')
    <3>1. SameSchedule(proposal, [proposal EXCEPT !.lease = NoToken, !.leaseLive = FALSE])
      <4>1. CASE DeliveryTokens # {}
        BY <1>1, <4>1, JobWrites
      <4>2. CASE DeliveryTokens = {}
        BY <1>3, <1>6, <4>2 DEF ReleaseLease, IsDelivery
      <4>. QED
        BY <4>1, <4>2
    <3>. QED
      BY <1>2, <1>6, <3>1, Zenon DEF ReleaseLease
  <2>2. PICK j : j = hand[w].job /\ EndOfAttempt(w, j)
    BY <1>6 DEF ReleaseLease
  <2>. QED
    BY <1>1, <1>3, <1>6, <2>1, <2>2, AttemptEnds DEF ReleaseLease
<1>7. CASE ReleaseFailedDelivery(w)
  <2>1. PICK j : j = hand[w].job /\ IsDelivery(proposal, j) /\ j.tok \in DeliveryTokens
    BY <1>3, <1>7 DEF ReleaseFailedDelivery, IsDelivery
  <2>2. SameSchedule(proposal, FailureRecorded(proposal, j))
    BY <1>1, <2>1, JobWrites
  <2>3. SameSchedule(proposal, proposal') /\ UNCHANGED deliveries
    BY <1>7, <2>1, <2>2 DEF ReleaseFailedDelivery
  <2>4. PICK h : h = AtRest /\ hand' = [hand EXCEPT ![w] = h]
    BY <1>7 DEF ReleaseFailedDelivery, Moves
  <2>5. HandFields(proposal, h)'
    BY <2>4 DEF HandFields
  <2>. QED
    BY <1>1, <2>3, <2>4, <2>5, HandedOn
<1>. QED
  BY <1>4, <1>5, <1>6, <1>7 DEF DeadlineJobStep

LEMMA FaultsKeepTypes ==
  ASSUME DeadlineTypes, NEW w \in DeadlineWorkers, CallThrows(w) \/ WorkerDies(w)
  PROVE  DeadlineTypes' /\ UNCHANGED proposal
<1>1. /\ ProposalFields(proposal) /\ SuspendedByHold(proposal) /\ HandFields(proposal, hand[w])
      /\ deaths \in Nat /\ deaths' \in Nat /\ deaths <= deaths' /\ proposal.version \in Nat
      /\ UNCHANGED proposal
  BY DEF DeadlineTypes, ProposalFields, CallThrows, WorkerDies
<1>2. SameSchedule(proposal, proposal')
  BY <1>1 DEF SameSchedule
<1>3. ASSUME Moves(w, AtRest),
             \A j \in deliveries' : j \in deliveries \/ IsDelivery(proposal, j)'
      PROVE  DeadlineTypes'
  <2>1. PICK h : h = AtRest /\ hand' = [hand EXCEPT ![w] = h]
    BY <1>3 DEF Moves
  <2>2. HandFields(proposal, h)'
    BY <2>1 DEF HandFields
  <2>. QED
    BY <1>1, <1>2, <1>3, <2>1, <2>2, HandedOn
<1>4. CASE WorkerDies(w)
  <2>1. CASE UNCHANGED deliveries
    BY <1>3, <1>4, <2>1 DEF WorkerDies
  <2>2. CASE "job" \in DOMAIN hand[w] /\ deliveries' = deliveries \cup {[hand[w].job EXCEPT !.stalled = TRUE]}
    <3>1. PICK j : j = hand[w].job /\ IsDelivery(proposal, j)
      BY <1>1, <2>2 DEF HandFields, AtRest
    <3>2. PICK k : k = [j EXCEPT !.stalled = TRUE] /\ deliveries' = deliveries \cup {k}
      BY <2>2, <3>1
    <3>3. k = [version |-> j.version, tok |-> j.tok, tries |-> j.tries, stalled |-> TRUE]
      BY <3>1, <3>2 DEF IsDelivery
    <3>4. deaths' >= 1
      BY <1>1, <1>4 DEF WorkerDies
    <3>5. IsDelivery(proposal, k)'
      BY <1>1, <3>1, <3>3, <3>4 DEF IsDelivery
    <3>. QED
      BY <1>3, <1>4, <3>2, <3>5 DEF WorkerDies
  <2>. QED
    BY <1>4, <2>1, <2>2 DEF WorkerDies
<1>5. CASE CallThrows(w)
  <2>1. UNCHANGED deaths
    BY <1>5 DEF CallThrows
  <2>2. CASE Moves(w, AtRest) /\ UNCHANGED deliveries
    BY <1>1, <1>3, <2>2
  <2>3. CASE hand[w].at \in {"p_add", "p_mark", "c_add", "c_mark"}
    <3>1. PICK p, h : /\ p \in {"p_undo", "c_undo"} /\ h = [hand[w] EXCEPT !.at = p]
                      /\ hand' = [hand EXCEPT ![w] = h]
      <4>1. PICK p : p = IF hand[w].at \in {"p_add", "p_mark"} THEN "p_undo" ELSE "c_undo"
        OBVIOUS
      <4>2. Moves(w, [hand[w] EXCEPT !.at = p])
        BY <1>5, <2>3, <4>1 DEF CallThrows
      <4>. QED
        BY <4>1, <4>2 DEF Moves
    <3>2. /\ hand[w] = [at |-> hand[w].at, tok |-> hand[w].tok, version |-> hand[w].version]
          /\ hand[w].tok \in DeliveryTokens
          /\ hand[w].version \in Nat /\ hand[w].version <= proposal.version
      BY <1>1, <2>3 DEF HandFields, AtRest
    <3>3. h = [at |-> p, tok |-> hand[w].tok, version |-> hand[w].version]
      BY <3>1, <3>2
    <3>4. HandFields(proposal, h)'
      BY <1>1, <3>1, <3>2, <3>3 DEF HandFields
    <3>5. PICK k : /\ k = JobOf(hand[w])
                   /\ deliveries' = deliveries \/ deliveries' = deliveries \cup {k}
      BY <1>5, <2>3 DEF CallThrows
    <3>6. IsDelivery(proposal, k)'
      BY <1>1, <2>1, <3>2, <3>5, ProposalDeadlineAssumption DEF IsDelivery, JobOf
    <3>. QED
      BY <1>1, <1>2, <3>1, <3>4, <3>5, <3>6, HandedOn
  <2>4. CASE hand[w].at = "a_claim"
    <3>1. PICK j : j = hand[w].job /\ IsDelivery(proposal, j) /\ EndOfAttempt(w, j)
      BY <1>1, <1>5, <2>4 DEF CallThrows, HandFields, AtRest
    <3>. QED
      BY <1>1, <1>2, <2>1, <3>1, AttemptEnds
  <2>5. CASE hand[w].at = "a_tx"
    <3>1. PICK h : h = [hand[w] EXCEPT !.at = "a_release"] /\ hand' = [hand EXCEPT ![w] = h]
                   /\ UNCHANGED deliveries
      BY <1>5, <2>5 DEF CallThrows, Moves
    <3>2. /\ hand[w] = [at |-> hand[w].at, tok |-> hand[w].tok, job |-> hand[w].job]
          /\ hand[w].tok \in DeliveryTokens \cup {NoToken} /\ IsDelivery(proposal, hand[w].job)
      BY <1>1, <2>5 DEF HandFields, AtRest
    <3>3. h = [at |-> "a_release", tok |-> hand[w].tok, job |-> hand[w].job]
      BY <3>1, <3>2
    <3>4. PICK j : j = hand[w].job /\ IsDelivery(proposal, j)
      BY <3>2
    <3>5. IsDelivery(proposal, j)'
      BY <1>1, <2>1, <3>4 DEF IsDelivery
    <3>6. HandFields(proposal, h)'
      BY <3>2, <3>3, <3>4, <3>5 DEF HandFields
    <3>. QED
      BY <1>1, <1>2, <3>1, <3>6, HandedOn
  <2>. QED
    BY <1>5, <2>2, <2>3, <2>4, <2>5 DEF CallThrows
<1>. QED
  BY <1>1, <1>4, <1>5

LEMMA DeadlineStepKeepsTypes ==
  ASSUME DeadlineTypes, [ProposalNext]_proposalVars
  PROVE  DeadlineTypes'
<1>1. CASE UNCHANGED proposalVars
  BY <1>1 DEF proposalVars, DeadlineTypes, ProposalFields, SuspendedByHold, IsDelivery, HandFields
<1>. QED
  BY <1>1, PeopleAndClockKeepTypes, SweepKeepsTypes, DeliveryKeepsTypes, JobKeepsTypes,
     FaultsKeepTypes DEF ProposalNext

LEMMA DeadlineTypesInitially ==
  ASSUME ProposalInit
  PROVE  DeadlineTypes
<1>1. ProposalFields(New) /\ ~New.held
  BY DEF ProposalFields, FieldNames, New
<1>2. \A w \in DeadlineWorkers : HandFields(New, AtRest)
  BY DEF HandFields
<1>. QED
  BY <1>1, <1>2 DEF ProposalInit, DeadlineTypes, SuspendedByHold

LEMMA DeadlineTypesHold == ProposalSpec => []DeadlineTypes
<1>1. ProposalInit => DeadlineTypes
  BY DeadlineTypesInitially
<1>2. DeadlineTypes /\ [ProposalNext]_proposalVars => DeadlineTypes'
  BY DeadlineStepKeepsTypes
<1>. QED
  BY <1>1, <1>2, PTL DEF ProposalSpec

(* The fields of a proposal's document have their types, no schedule is    *)
(* published before it exists, and every job is one of its schedules'.     *)
THEOREM ProposalTypes == ProposalSpec => []ProposalTypeOK
<1>1. DeadlineTypes => ProposalTypeOK
  BY DEF DeadlineTypes, ProposalFields, IsDelivery, ProposalTypeOK
<1>. QED
  BY <1>1, DeadlineTypesHold, PTL

(* While a governance case holds a proposal, no sweep or delivery that     *)
(* began before puts a claim, a lease, a delivery or a dispatch time back: *)
(* for any number of API processes, wherever calls fail and processes die. *)
THEOREM HoldsSuspend == ProposalSpec => []HoldSuspends
<1>1. DeadlineTypes => HoldSuspends
  BY DEF DeadlineTypes, SuspendedByHold, HoldSuspends
<1>. QED
  BY <1>1, DeadlineTypesHold, PTL

-----------------------------------------------------------------------------
(* One API process, as it is deployed, that a call or the process itself   *)
(* fails where the proposal recovers: not between the claim of the         *)
(* compensation sweep and its job, nor while a delivery has the lease.     *)
OneProcess == \A v, w \in DeadlineWorkers : v = w

RecoverableFaults ==
  /\ DeathPoints \cap {"c_read", "c_add", "c_undo", "a_tx", "a_release"} = {}
  /\ "c_read" \notin ThrowPoints
  /\ MaxDeaths <= 1

JobPlaces == {"a_claim", "a_tx", "a_release", "f_write"}

Current(j) == j.version = proposal.version /\ j.tok = proposal.delivery

(* DeadlineIsAwaited, place by place.                                      *)
Watched ==
  proposal.phase # "closed" /\ ~proposal.held =>
    \/ proposal.published < proposal.version /\ proposal.dispatch
    \/ proposal.failed /\ proposal.cAt # "none"
    \/ \E j \in deliveries : Current(j)
    \/ \E w \in DeadlineWorkers : hand[w].at \in JobPlaces /\ Current(hand[w].job)
    \/ \E w \in DeadlineWorkers : /\ hand[w].at \in {"c_read", "c_add", "c_undo"}
                                  /\ hand[w].tok = proposal.cClaim

(* What the worker knows of the proposal at each place.                    *)
Knows(w) ==
  /\ hand[w].at = "p_mark" => JobOf(hand[w]) \in deliveries
  /\ hand[w].at \in {"c_read", "c_add", "c_mark", "c_undo"} /\ proposal.cClaim = hand[w].tok =>
       /\ proposal.delivery = hand[w].tok /\ proposal.failed
       /\ hand[w].at # "c_read" => hand[w].version = proposal.version
  /\ hand[w].at = "a_claim" /\ hand[w].job.version = proposal.version => proposal.due = "past"
  /\ hand[w].at = "a_tx" /\ hand[w].job.version = proposal.version =>
       /\ proposal.lease = hand[w].tok /\ proposal.due = "past"
       /\ proposal.phase # "closed" /\ ~proposal.held

(* A lease that runs is the worker's.                                      *)
LeaseIsHeld ==
  proposal.leaseLive =>
    \E w \in DeadlineWorkers : /\ hand[w].at \in {"a_tx", "a_release"}
                               /\ proposal.lease = hand[w].tok
                               /\ proposal.version = hand[w].job.version

WatchInvariant ==
  DeadlineTypes /\ Watched /\ (\A w \in DeadlineWorkers : Knows(w)) /\ LeaseIsHeld

LEMMA PeopleAndClockKeepWatch ==
  ASSUME WatchInvariant, People \/ Clock
  PROVE  Watched' /\ (\A w \in DeadlineWorkers : Knows(w)') /\ LeaseIsHeld'
<1>1. /\ ProposalFields(proposal) /\ proposal.version \in Nat /\ UNCHANGED <<deliveries, hand>>
      /\ Restarts \/ Elapses
  BY PeopleAndClock DEF WatchInvariant, DeadlineTypes, ProposalFields
<1>2. \A w \in DeadlineWorkers : HandFields(proposal, hand[w])
  BY DEF WatchInvariant, DeadlineTypes
<1>3. CASE Restarts
  <2>1. Watched' /\ LeaseIsHeld'
    BY <1>3 DEF Restarts, Watched, LeaseIsHeld
  <2>2. ASSUME NEW w \in DeadlineWorkers PROVE Knows(w)'
    <3>1. HandFields(proposal, hand[w]) /\ Knows(w)
      BY <1>2 DEF WatchInvariant
    <3>2. hand[w].at \in {"c_read", "c_add", "c_mark", "c_undo"} => hand[w].tok # proposal'.cClaim
      BY <1>3, <3>1, TokensAreNumbers DEF HandFields, AtRest, Restarts
    <3>3. hand[w].at \in {"a_claim", "a_tx"} => hand[w].job.version # proposal'.version
      BY <1>1, <1>3, <3>1 DEF HandFields, AtRest, IsDelivery, Restarts
    <3>. QED
      BY <1>1, <3>1, <3>2, <3>3 DEF Knows, JobOf
  <2>. QED
    BY <2>1, <2>2
<1>4. CASE Elapses
  <2>1. /\ UNCHANGED <<proposal.version, proposal.published, proposal.phase, proposal.held,
                       proposal.dispatch, proposal.claim, proposal.lease, proposal.cClaim,
                       proposal.delivery, proposal.failed>>
        /\ proposal'.leaseLive => proposal.leaseLive
        /\ proposal.due = "past" => proposal'.due = "past"
        /\ proposal.cAt # "none" => proposal'.cAt # "none"
    BY <1>4 DEF Elapses
  <2>2. Watched'
    BY <1>1, <2>1 DEF WatchInvariant, Watched, Current
  <2>3. LeaseIsHeld'
    BY <1>1, <2>1 DEF WatchInvariant, LeaseIsHeld
  <2>4. ASSUME NEW w \in DeadlineWorkers PROVE Knows(w)'
    BY <1>1, <2>1 DEF WatchInvariant, Knows, JobOf
  <2>. QED
    BY <2>2, <2>3, <2>4
<1>. QED
  BY <1>1, <1>3, <1>4

(* With one worker, what has to hold of it alone.                          *)
LEMMA OneWorkerWatches ==
  ASSUME OneProcess, NEW w \in DeadlineWorkers, DOMAIN hand = DeadlineWorkers,
         hand' = [hand EXCEPT ![w] = hand'[w]],
         \/ ~(proposal'.phase # "closed" /\ ~proposal'.held)
         \/ proposal'.published < proposal'.version /\ proposal'.dispatch
         \/ proposal'.failed /\ proposal'.cAt # "none"
         \/ \E j \in deliveries' : Current(j)'
         \/ hand'[w].at \in JobPlaces /\ Current(hand[w].job)'
         \/ hand'[w].at \in {"c_read", "c_add", "c_undo"} /\ hand'[w].tok = proposal'.cClaim,
         Knows(w)',
         proposal'.leaseLive => /\ hand'[w].at \in {"a_tx", "a_release"}
                                /\ proposal'.lease = hand'[w].tok
                                /\ proposal'.version = hand'[w].job.version
  PROVE  Watched' /\ (\A v \in DeadlineWorkers : Knows(v)') /\ LeaseIsHeld'
  BY DEF OneProcess, Watched, LeaseIsHeld

(* Watched and LeaseIsHeld of one worker.                                  *)
LEMMA OneWorkerWatched ==
  ASSUME OneProcess, NEW w \in DeadlineWorkers, WatchInvariant
  PROVE  /\ \/ ~(proposal.phase # "closed" /\ ~proposal.held)
            \/ proposal.published < proposal.version /\ proposal.dispatch
            \/ proposal.failed /\ proposal.cAt # "none"
            \/ \E j \in deliveries : Current(j)
            \/ hand[w].at \in JobPlaces /\ Current(hand[w].job)
            \/ hand[w].at \in {"c_read", "c_add", "c_undo"} /\ hand[w].tok = proposal.cClaim
         /\ proposal.leaseLive => /\ hand[w].at \in {"a_tx", "a_release"}
                                  /\ proposal.lease = hand[w].tok
                                  /\ proposal.version = hand[w].job.version
         /\ Knows(w) /\ HandFields(proposal, hand[w]) /\ ProposalFields(proposal)
         /\ DOMAIN hand = DeadlineWorkers
  BY DEF OneProcess, WatchInvariant, Watched, LeaseIsHeld, DeadlineTypes

LEMMA SweepKeepsWatch ==
  ASSUME OneProcess, WatchInvariant, NEW w \in DeadlineWorkers, DeadlineSweepStep(w)
  PROVE  Watched' /\ (\A v \in DeadlineWorkers : Knows(v)') /\ LeaseIsHeld'
<1>. DEFINE Goal == Watched' /\ (\A v \in DeadlineWorkers : Knows(v)') /\ LeaseIsHeld'
<1>1. /\ DOMAIN hand = DeadlineWorkers /\ ProposalFields(proposal)
      /\ HandFields(proposal, hand[w]) /\ Knows(w)
  BY OneWorkerWatched
<1>2. ~(hand[w].at \in {"a_tx", "a_release"}) => ~proposal.leaseLive
  BY OneWorkerWatched
<1>3. CASE ClaimSchedule(w)
  <2>1. PICK t : /\ proposal' = [proposal EXCEPT !.claim = t, !.claimLive = TRUE]
                 /\ hand' = [hand EXCEPT ![w] = [at |-> "p_read", tok |-> t]]
    BY <1>3 DEF ClaimSchedule, Moves
  <2>2. /\ hand'[w] = [at |-> "p_read", tok |-> t]
        /\ hand' = [hand EXCEPT ![w] = hand'[w]]
    BY <1>1, <2>1
  <2>3. /\ UNCHANGED <<proposal.phase, proposal.held, proposal.published, proposal.version,
                       proposal.dispatch, proposal.leaseLive>>
        /\ proposal.published < proposal.version /\ proposal.dispatch
    BY <1>1, <1>3, <2>1 DEF ClaimSchedule, ProposalFields, FieldNames
  <2>4. ~proposal.leaseLive
    BY <1>2, <1>3 DEF ClaimSchedule, SweepTurn, AtRest
  <2>5. Knows(w)'
    BY <2>2 DEF Knows
  <2>. QED
    BY <1>1, <2>2, <2>3, <2>4, <2>5, OneWorkerWatches
<1>4. CASE ClaimCompensation(w)
  <2>1. PICK t : /\ proposal' = [proposal EXCEPT !.cAt = "none", !.cClaim = t,
                                                 !.cClaimLive = TRUE, !.delivery = t]
                 /\ hand' = [hand EXCEPT ![w] = [at |-> "c_read", tok |-> t]]
    BY <1>4 DEF ClaimCompensation, Moves
  <2>2. /\ hand'[w] = [at |-> "c_read", tok |-> t]
        /\ hand' = [hand EXCEPT ![w] = hand'[w]]
    BY <1>1, <2>1
  <2>3. /\ proposal'.cClaim = t /\ proposal'.delivery = t /\ proposal'.failed
        /\ ~proposal'.leaseLive
    BY <1>1, <1>4, <2>1 DEF ClaimCompensation, ProposalFields, FieldNames
  <2>4. Knows(w)'
    BY <2>2, <2>3 DEF Knows
  <2>. QED
    BY <1>1, <2>2, <2>3, <2>4, OneWorkerWatches
<1>5. ASSUME NEW from, NEW to, NEW t, ReadBack(w, from, to, t),
             \/ from = "p_read" /\ to = "p_add"
             \/ from = "c_read" /\ to = "c_add" /\ t = proposal.cClaim
      PROVE  Goal
  <2>1. /\ hand[w].at = from /\ UNCHANGED <<proposal, deliveries>>
        /\ hand' = [hand EXCEPT ![w] = hand'[w]]
        /\ hand'[w] = IF t = hand[w].tok
                      THEN [at |-> to, tok |-> hand[w].tok, version |-> proposal.version]
                      ELSE AtRest
    BY <1>1, <1>5 DEF ReadBack, Moves
  <2>2. ~proposal.leaseLive
    BY <1>2, <1>5, <2>1
  <2>3. Knows(w)'
    BY <1>1, <1>5, <2>1 DEF Knows, AtRest
  <2>4. \/ ~(proposal.phase # "closed" /\ ~proposal.held)
        \/ proposal.published < proposal.version /\ proposal.dispatch
        \/ proposal.failed /\ proposal.cAt # "none"
        \/ \E j \in deliveries : Current(j)
        \/ hand[w].at \in JobPlaces /\ Current(hand[w].job)
        \/ hand[w].at \in {"c_read", "c_add", "c_undo"} /\ hand[w].tok = proposal.cClaim
    BY OneWorkerWatched
  <2>5. \/ ~(proposal'.phase # "closed" /\ ~proposal'.held)
        \/ proposal'.published < proposal'.version /\ proposal'.dispatch
        \/ proposal'.failed /\ proposal'.cAt # "none"
        \/ \E j \in deliveries' : Current(j)'
        \/ hand'[w].at \in {"c_read", "c_add", "c_undo"} /\ hand'[w].tok = proposal'.cClaim
    BY <1>5, <2>1, <2>4 DEF JobPlaces, Current
  <2>. QED
    BY <1>1, <2>1, <2>2, <2>3, <2>5, OneWorkerWatches
<1>6. ASSUME NEW from, NEW to, AddProposalJob(w, from, to),
             \/ from = "p_add" /\ to = "p_mark"
             \/ from = "c_add" /\ to = "c_mark"
      PROVE  Goal
  <2>1. /\ hand[w].at = from /\ UNCHANGED proposal
        /\ deliveries' = deliveries \cup {JobOf(hand[w])}
        /\ hand' = [hand EXCEPT ![w] = hand'[w]]
        /\ hand'[w] = [hand[w] EXCEPT !.at = to]
    BY <1>1, <1>6 DEF AddProposalJob, Moves
  <2>2. hand[w] = [at |-> from, tok |-> hand[w].tok, version |-> hand[w].version]
    BY <1>1, <1>6, <2>1 DEF HandFields, AtRest
  <2>3. /\ hand'[w].at = to /\ hand'[w].tok = hand[w].tok /\ hand'[w].version = hand[w].version
    BY <2>1, <2>2
  <2>4. ~proposal.leaseLive
    BY <1>2, <1>6, <2>1
  <2>5. Knows(w)'
    BY <1>1, <1>6, <2>1, <2>3 DEF Knows, JobOf
  <2>6. hand[w].at = "c_add" /\ hand[w].tok = proposal.cClaim => Current(JobOf(hand[w]))
    BY <1>1 DEF Knows, Current, JobOf
  <2>7. \/ ~(proposal'.phase # "closed" /\ ~proposal'.held)
        \/ proposal'.published < proposal'.version /\ proposal'.dispatch
        \/ proposal'.failed /\ proposal'.cAt # "none"
        \/ \E j \in deliveries' : Current(j)'
    <3>1. \/ ~(proposal.phase # "closed" /\ ~proposal.held)
          \/ proposal.published < proposal.version /\ proposal.dispatch
          \/ proposal.failed /\ proposal.cAt # "none"
          \/ \E j \in deliveries : Current(j)
          \/ hand[w].at = "c_add" /\ hand[w].tok = proposal.cClaim
      BY <1>6, <2>1, OneWorkerWatched DEF JobPlaces
    <3>2. \A j : Current(j) => Current(j)'
      BY <2>1 DEF Current
    <3>. QED
      BY <2>1, <2>6, <3>1, <3>2
  <2>. QED
    BY <1>1, <2>1, <2>4, <2>5, <2>7, OneWorkerWatches
<1>7. ASSUME Moves(w, AtRest), UNCHANGED deliveries, ~proposal'.leaseLive,
             \/ ~(proposal'.phase # "closed" /\ ~proposal'.held)
             \/ proposal'.published < proposal'.version /\ proposal'.dispatch
             \/ proposal'.failed /\ proposal'.cAt # "none"
             \/ \E j \in deliveries' : Current(j)'
      PROVE  Goal
  <2>1. hand'[w] = AtRest /\ hand' = [hand EXCEPT ![w] = hand'[w]]
    BY <1>1, <1>7 DEF Moves
  <2>2. Knows(w)'
    BY <2>1 DEF Knows, AtRest
  <2>. QED
    BY <1>1, <1>7, <2>1, <2>2, OneWorkerWatches
<1>8. hand[w].at \in {"p_mark", "p_undo", "c_mark", "c_undo"} =>
        /\ hand[w].tok \in DeliveryTokens /\ ~proposal.leaseLive
        /\ \/ ~(proposal.phase # "closed" /\ ~proposal.held)
           \/ proposal.published < proposal.version /\ proposal.dispatch
           \/ proposal.failed /\ proposal.cAt # "none"
           \/ \E j \in deliveries : Current(j)
           \/ hand[w].at = "c_undo" /\ hand[w].tok = proposal.cClaim
  BY <1>1, OneWorkerWatched DEF HandFields, AtRest, JobPlaces
<1>9. CASE MarkPublished(w)
  <2>1. /\ hand[w].at = "p_mark" /\ UNCHANGED deliveries /\ Moves(w, AtRest)
        /\ proposal' = Published(proposal, hand[w].tok, hand[w].version)
        /\ JobOf(hand[w]) \in deliveries
    BY <1>1, <1>9 DEF MarkPublished, Knows
  <2>2. CASE proposal.version = hand[w].version /\ proposal.claim = hand[w].tok
    <3>1. proposal'.version = hand[w].version /\ proposal'.delivery = hand[w].tok
          /\ proposal'.leaseLive = proposal.leaseLive
      BY <1>1, <2>1, <2>2 DEF Published, ProposalFields, FieldNames
    <3>2. \E j \in deliveries' : Current(j)'
      <4>1. PICK h : h = hand[w]
        OBVIOUS
      <4>2. JobOf(h).version = h.version /\ JobOf(h).tok = h.tok
        BY DEF JobOf
      <4>3. PICK k : k = JobOf(h)
        OBVIOUS
      <4>4. Current(k)' /\ k \in deliveries'
        BY <2>1, <3>1, <4>1, <4>2, <4>3 DEF Current
      <4>. QED
        BY <4>4
    <3>. QED
      BY <1>7, <1>8, <2>1, <3>1, <3>2
  <2>3. CASE ~(proposal.version = hand[w].version /\ proposal.claim = hand[w].tok)
    <3>1. UNCHANGED proposal
      BY <2>1, <2>3 DEF Published
    <3>. QED
      BY <1>7, <1>8, <2>1, <3>1 DEF Current
  <2>. QED
    BY <2>2, <2>3
<1>10. CASE ReleaseScheduleClaim(w)
  <2>1. /\ hand[w].at = "p_undo" /\ UNCHANGED deliveries /\ Moves(w, AtRest)
    BY <1>10 DEF ReleaseScheduleClaim
  <2>2. UNCHANGED <<proposal.phase, proposal.held, proposal.published, proposal.version,
                    proposal.dispatch, proposal.failed, proposal.cAt, proposal.delivery,
                    proposal.leaseLive>>
    BY <1>1, <1>10 DEF ReleaseScheduleClaim, ProposalFields, FieldNames
  <2>. QED
    BY <1>7, <1>8, <2>1, <2>2 DEF Current
<1>11. CASE MarkCompensated(w)
  <2>1. /\ hand[w].at = "c_mark" /\ UNCHANGED deliveries /\ Moves(w, AtRest)
    BY <1>11 DEF MarkCompensated
  <2>2. /\ UNCHANGED <<proposal.phase, proposal.held, proposal.published, proposal.version,
                       proposal.dispatch, proposal.failed, proposal.delivery,
                       proposal.leaseLive>>
        /\ proposal.cAt # "none" => proposal'.cAt # "none"
    BY <1>1, <1>11 DEF MarkCompensated, ProposalFields, FieldNames
  <2>. QED
    BY <1>7, <1>8, <2>1, <2>2 DEF Current
<1>12. CASE UndoCompensation(w)
  <2>1. /\ hand[w].at = "c_undo" /\ UNCHANGED deliveries /\ Moves(w, AtRest)
        /\ proposal' = GivenBack(proposal, hand[w].tok)
    BY <1>12 DEF UndoCompensation
  <2>2. CASE proposal.cClaim = hand[w].tok
    <3>1. proposal.failed
      BY <1>1, <2>1, <2>2 DEF Knows
    <3>2. proposal'.failed /\ proposal'.cAt # "none" /\ proposal'.leaseLive = proposal.leaseLive
      BY <1>1, <2>1, <2>2, <3>1 DEF GivenBack, ProposalFields, FieldNames
    <3>. QED
      BY <1>7, <1>8, <2>1, <3>2
  <2>3. CASE proposal.cClaim # hand[w].tok
    <3>1. UNCHANGED proposal
      BY <2>1, <2>3 DEF GivenBack
    <3>. QED
      BY <1>7, <1>8, <2>1, <2>3, <3>1 DEF Current
  <2>. QED
    BY <2>2, <2>3
<1>. QED
  BY <1>3, <1>4, <1>5, <1>6, <1>9, <1>10, <1>11, <1>12 DEF DeadlineSweepStep

LEMMA DeliveryKeepsWatch ==
  ASSUME OneProcess, WatchInvariant, NEW w \in DeadlineWorkers, TakeDelivery(w)
  PROVE  Watched' /\ (\A v \in DeadlineWorkers : Knows(v)') /\ LeaseIsHeld'
<1>1. /\ DOMAIN hand = DeadlineWorkers /\ hand[w] = AtRest /\ UNCHANGED proposal
  BY OneWorkerWatched DEF TakeDelivery
<1>2. PICK j : /\ j \in deliveries /\ deliveries' = deliveries \ {j} /\ Deliverable(j)
               /\ hand' = [hand EXCEPT ![w] = [at |-> "a_claim", tok |-> NoToken, job |-> j]]
  BY DEF TakeDelivery, Moves
<1>3. /\ hand'[w] = [at |-> "a_claim", tok |-> NoToken, job |-> j]
      /\ hand' = [hand EXCEPT ![w] = hand'[w]]
  BY <1>1, <1>2
<1>4. hand'[w].at = "a_claim" /\ hand'[w].job = j
  BY <1>3
<1>5. Knows(w)'
  BY <1>1, <1>2, <1>4 DEF Knows, Deliverable
<1>6. /\ ~proposal.leaseLive
      /\ \/ ~(proposal.phase # "closed" /\ ~proposal.held)
         \/ proposal.published < proposal.version /\ proposal.dispatch
         \/ proposal.failed /\ proposal.cAt # "none"
         \/ \E k \in deliveries : Current(k)
  BY <1>1, OneWorkerWatched DEF AtRest, JobPlaces
<1>7. \/ ~(proposal'.phase # "closed" /\ ~proposal'.held)
      \/ proposal'.published < proposal'.version /\ proposal'.dispatch
      \/ proposal'.failed /\ proposal'.cAt # "none"
      \/ \E k \in deliveries' : Current(k)'
      \/ hand'[w].at \in JobPlaces /\ Current(hand[w].job)'
  BY <1>1, <1>2, <1>4, <1>6 DEF Current, JobPlaces
<1>. QED
  BY <1>1, <1>3, <1>5, <1>6, <1>7, OneWorkerWatches

(* A job that ends or is put back; the one that counts is put back, or its *)
(* failure is recorded next.                                               *)
LEMMA AttemptEndKeepsWatch ==
  ASSUME OneProcess, WatchInvariant, NEW w \in DeadlineWorkers, NEW j,
         IsDelivery(proposal, j), EndOfAttempt(w, j), ~proposal'.leaseLive,
         hand[w].at \in JobPlaces, hand[w].job = j,
         UNCHANGED <<proposal.phase, proposal.held, proposal.published, proposal.version,
                     proposal.dispatch, proposal.failed, proposal.cAt, proposal.delivery>>
  PROVE  Watched' /\ (\A v \in DeadlineWorkers : Knows(v)') /\ LeaseIsHeld'
<1>1. DOMAIN hand = DeadlineWorkers
  BY OneWorkerWatched
<1>2. \/ ~(proposal.phase # "closed" /\ ~proposal.held)
      \/ proposal.published < proposal.version /\ proposal.dispatch
      \/ proposal.failed /\ proposal.cAt # "none"
      \/ \E k \in deliveries : Current(k)
      \/ Current(j)
  BY OneWorkerWatched DEF JobPlaces
<1>3. CASE j.tries + 1 < DeadlineAttempts
  <2>1. PICK n, k : /\ n = j.tries + 1 /\ k = [j EXCEPT !.tries = n]
                    /\ deliveries' = deliveries \cup {k} /\ Moves(w, AtRest)
    BY <1>3 DEF EndOfAttempt
  <2>2. k.version = j.version /\ k.tok = j.tok
    BY <2>1 DEF IsDelivery
  <2>3. hand'[w] = AtRest /\ hand' = [hand EXCEPT ![w] = hand'[w]]
    BY <1>1, <2>1 DEF Moves
  <2>4. Knows(w)'
    BY <2>3 DEF Knows, AtRest
  <2>5. \/ ~(proposal'.phase # "closed" /\ ~proposal'.held)
        \/ proposal'.published < proposal'.version /\ proposal'.dispatch
        \/ proposal'.failed /\ proposal'.cAt # "none"
        \/ \E i \in deliveries' : Current(i)'
    BY <1>2, <2>1, <2>2 DEF Current
  <2>. QED
    BY <1>1, <2>3, <2>4, <2>5, OneWorkerWatches
<1>4. CASE ~(j.tries + 1 < DeadlineAttempts)
  <2>1. hand' = [hand EXCEPT ![w] = [at |-> "f_write", tok |-> NoToken, job |-> j]]
        /\ UNCHANGED deliveries
    BY <1>4 DEF EndOfAttempt, Moves
  <2>2. /\ hand'[w] = [at |-> "f_write", tok |-> NoToken, job |-> j]
        /\ hand' = [hand EXCEPT ![w] = hand'[w]]
    BY <1>1, <2>1
  <2>3. hand'[w].at = "f_write" /\ hand'[w].job = j
    BY <2>2
  <2>4. Knows(w)'
    BY <2>3 DEF Knows
  <2>5. \/ ~(proposal'.phase # "closed" /\ ~proposal'.held)
        \/ proposal'.published < proposal'.version /\ proposal'.dispatch
        \/ proposal'.failed /\ proposal'.cAt # "none"
        \/ \E i \in deliveries' : Current(i)'
        \/ hand'[w].at \in JobPlaces /\ Current(hand[w].job)'
    BY <1>2, <2>1, <2>3 DEF Current, JobPlaces
  <2>. QED
    BY <1>1, <2>2, <2>4, <2>5, OneWorkerWatches
<1>. QED
  BY <1>3, <1>4

LEMMA JobKeepsWatch ==
  ASSUME OneProcess, WatchInvariant, NEW w \in DeadlineWorkers, DeadlineJobStep(w)
  PROVE  Watched' /\ (\A v \in DeadlineWorkers : Knows(v)') /\ LeaseIsHeld'
<1>. DEFINE Goal == Watched' /\ (\A v \in DeadlineWorkers : Knows(v)') /\ LeaseIsHeld'
<1>1. /\ DOMAIN hand = DeadlineWorkers /\ ProposalFields(proposal)
      /\ HandFields(proposal, hand[w]) /\ Knows(w) /\ DeadlineTypes
  BY OneWorkerWatched DEF WatchInvariant
<1>2. hand[w].at \in JobPlaces =>
        /\ IsDelivery(proposal, hand[w].job)
        /\ \/ ~(proposal.phase # "closed" /\ ~proposal.held)
           \/ proposal.published < proposal.version /\ proposal.dispatch
           \/ proposal.failed /\ proposal.cAt # "none"
           \/ \E j \in deliveries : Current(j)
           \/ Current(hand[w].job)
        /\ proposal.leaseLive => /\ hand[w].at \in {"a_tx", "a_release"}
                                 /\ proposal.lease = hand[w].tok
                                 /\ proposal.version = hand[w].job.version
  BY <1>1, OneWorkerWatched DEF HandFields, AtRest, JobPlaces
<1>3. ASSUME Moves(w, AtRest), ~proposal'.leaseLive,
             \/ ~(proposal'.phase # "closed" /\ ~proposal'.held)
             \/ proposal'.published < proposal'.version /\ proposal'.dispatch
             \/ proposal'.failed /\ proposal'.cAt # "none"
             \/ \E j \in deliveries' : Current(j)'
      PROVE  Goal
  <2>1. hand'[w] = AtRest /\ hand' = [hand EXCEPT ![w] = hand'[w]]
    BY <1>1, <1>3 DEF Moves
  <2>2. Knows(w)'
    BY <2>1 DEF Knows, AtRest
  <2>. QED
    BY <1>1, <1>3, <2>1, <2>2, OneWorkerWatches
<1>4. CASE LeaseProposal(w)
  <2>1. hand[w].at = "a_claim" /\ UNCHANGED deliveries /\ ~proposal.leaseLive
    BY <1>2, <1>4 DEF LeaseProposal, JobPlaces
  <2>. DEFINE Matches == /\ Open /\ ~proposal.held /\ proposal.version = hand[w].job.version
                         /\ proposal.due = "past" /\ proposal.delivery = hand[w].job.tok
                         /\ ~proposal.leaseLive
  <2>2. CASE Matches
    <3>1. PICK t, j : /\ j = hand[w].job
                      /\ proposal' = [proposal EXCEPT !.lease = t, !.leaseLive = TRUE]
                      /\ hand' = [hand EXCEPT ![w] = [at |-> "a_tx", tok |-> t, job |-> j]]
      BY <1>4, <2>2 DEF LeaseProposal, Moves
    <3>2. /\ hand'[w] = [at |-> "a_tx", tok |-> t, job |-> j]
          /\ hand' = [hand EXCEPT ![w] = hand'[w]]
      BY <1>1, <3>1
    <3>3. hand'[w].at = "a_tx" /\ hand'[w].tok = t /\ hand'[w].job = j
      BY <3>2
    <3>4. /\ proposal'.lease = t /\ proposal'.phase = proposal.phase
          /\ proposal'.held = proposal.held /\ proposal'.due = proposal.due
          /\ proposal'.version = proposal.version /\ proposal'.delivery = proposal.delivery
      BY <1>1, <3>1 DEF ProposalFields, FieldNames
    <3>5. Knows(w)'
      BY <2>2, <3>3, <3>4 DEF Knows, Open
    <3>6. hand'[w].at \in JobPlaces /\ Current(hand[w].job)'
      BY <2>2, <3>1, <3>3, <3>4 DEF Current, JobPlaces
    <3>7. proposal'.version = hand'[w].job.version
      BY <2>2, <3>1, <3>3, <3>4
    <3>. QED
      BY <1>1, <3>2, <3>3, <3>4, <3>5, <3>6, <3>7, OneWorkerWatches
  <2>3. CASE ~Matches
    <3>1. UNCHANGED proposal /\ Moves(w, AtRest)
      BY <1>4, <2>3 DEF LeaseProposal
    <3>2. ~(Open /\ ~proposal.held /\ Current(hand[w].job))
      BY <1>1, <2>1, <2>3 DEF Knows, Current
    <3>3. \/ ~(proposal.phase # "closed" /\ ~proposal.held)
          \/ proposal.published < proposal.version /\ proposal.dispatch
          \/ proposal.failed /\ proposal.cAt # "none"
          \/ \E j \in deliveries : Current(j)
      BY <1>2, <2>1, <3>2 DEF JobPlaces, Open
    <3>. QED
      BY <1>3, <2>1, <3>1, <3>3 DEF Current
  <2>. QED
    BY <2>2, <2>3
<1>5. CASE AdvanceProposal(w)
  <2>1. hand[w].at = "a_tx" /\ UNCHANGED deliveries /\ Moves(w, AtRest)
    BY <1>5 DEF AdvanceProposal
  <2>2. CASE Commits(w)
    BY <1>3, <2>1, <2>2 DEF Commits, Restarts, SuspendedByHold
  <2>3. CASE LeaseHolds(proposal, hand[w].job.version, hand[w].tok)
    <3>1. proposal.phase # "closed" /\ ~proposal.held /\ SuspendedByHold(proposal)
      BY <1>1, <2>3 DEF LeaseHolds, DeadlineTypes
    <3>2. Commits(w)
      <4>1. hand'[w] = AtRest
        BY <1>1, <2>1 DEF Moves
      <4>2. CASE proposal' = Closed(proposal)
        BY <1>1, <2>1, <4>1, <4>2, SchedulesAndEnds DEF Commits, Restarts, SuspendedByHold
      <4>3. CASE /\ proposal.phase = "discussion"
                 /\ proposal' = [Scheduled(proposal, "later") EXCEPT !.phase = "voting",
                                                                     !.failed = FALSE]
        BY <1>1, <2>1, <3>1, <4>1, <4>3, AdvanceWrites DEF Commits, Restarts
      <4>. QED
        BY <1>5, <2>3, <4>2, <4>3 DEF AdvanceProposal
    <3>. QED
      BY <2>2, <3>2
  <2>4. CASE ~LeaseHolds(proposal, hand[w].job.version, hand[w].tok)
    <3>1. UNCHANGED proposal
      BY <1>5, <2>4 DEF AdvanceProposal
    <3>2. hand[w].job.version # proposal.version
      BY <1>1, <2>1, <2>4 DEF Knows, LeaseHolds
    <3>3. ~proposal.leaseLive
      BY <1>2, <2>1, <3>2 DEF JobPlaces
    <3>4. \/ ~(proposal.phase # "closed" /\ ~proposal.held)
          \/ proposal.published < proposal.version /\ proposal.dispatch
          \/ proposal.failed /\ proposal.cAt # "none"
          \/ \E j \in deliveries : Current(j)
      BY <1>2, <2>1, <3>2 DEF JobPlaces, Current
    <3>. QED
      BY <1>3, <2>1, <3>1, <3>3, <3>4 DEF Current
  <2>. QED
    BY <2>3, <2>4
<1>6. CASE ReleaseLease(w)
  <2>1. hand[w].at = "a_release"
    BY <1>6 DEF ReleaseLease
  <2>2. PICK j : j = hand[w].job /\ EndOfAttempt(w, j) /\ IsDelivery(proposal, j)
    BY <1>2, <1>6, <2>1 DEF ReleaseLease, JobPlaces
  <2>3. /\ UNCHANGED <<proposal.phase, proposal.held, proposal.published, proposal.version,
                       proposal.dispatch, proposal.failed, proposal.cAt, proposal.delivery>>
        /\ ~proposal'.leaseLive
    <3>1. CASE proposal.version = hand[w].job.version /\ proposal.lease = hand[w].tok
      <4>1. proposal' = [proposal EXCEPT !.lease = NoToken, !.leaseLive = FALSE]
        BY <1>6, <3>1 DEF ReleaseLease
      <4>. QED
        BY <1>1, <4>1 DEF ProposalFields, FieldNames
    <3>2. CASE ~(proposal.version = hand[w].job.version /\ proposal.lease = hand[w].tok)
      BY <1>2, <1>6, <2>1, <3>2 DEF ReleaseLease, JobPlaces
    <3>. QED
      BY <3>1, <3>2
  <2>. QED
    BY <2>1, <2>2, <2>3, AttemptEndKeepsWatch DEF JobPlaces
<1>7. CASE ReleaseFailedDelivery(w)
  <2>1. /\ hand[w].at = "f_write" /\ UNCHANGED deliveries /\ Moves(w, AtRest)
        /\ proposal' = FailureRecorded(proposal, hand[w].job) /\ ~proposal.leaseLive
    BY <1>2, <1>7 DEF ReleaseFailedDelivery, JobPlaces
  <2>2. CASE Current(hand[w].job)
    <3>1. proposal'.failed /\ proposal'.cAt # "none" /\ ~proposal'.leaseLive
      BY <1>1, <2>1, <2>2 DEF Current, FailureRecorded, ProposalFields, FieldNames
    <3>. QED
      BY <1>3, <2>1, <3>1
  <2>3. CASE ~Current(hand[w].job)
    <3>1. UNCHANGED proposal
      BY <2>1, <2>3 DEF Current, FailureRecorded
    <3>2. \/ ~(proposal.phase # "closed" /\ ~proposal.held)
          \/ proposal.published < proposal.version /\ proposal.dispatch
          \/ proposal.failed /\ proposal.cAt # "none"
          \/ \E j \in deliveries : Current(j)
      BY <1>2, <2>1, <2>3 DEF JobPlaces
    <3>. QED
      BY <1>3, <2>1, <3>1, <3>2 DEF Current
  <2>. QED
    BY <2>2, <2>3
<1>. QED
  BY <1>4, <1>5, <1>6, <1>7 DEF DeadlineJobStep

LEMMA FaultsKeepWatch ==
  ASSUME OneProcess, RecoverableFaults, WatchInvariant, NEW w \in DeadlineWorkers,
         CallThrows(w) \/ WorkerDies(w)
  PROVE  Watched' /\ (\A v \in DeadlineWorkers : Knows(v)') /\ LeaseIsHeld'
<1>. DEFINE Goal == Watched' /\ (\A v \in DeadlineWorkers : Knows(v)') /\ LeaseIsHeld'
<1>1. /\ DOMAIN hand = DeadlineWorkers /\ HandFields(proposal, hand[w]) /\ Knows(w)
      /\ UNCHANGED proposal /\ deaths \in Nat
      /\ \A j \in deliveries : IsDelivery(proposal, j)
  BY OneWorkerWatched DEF WatchInvariant, DeadlineTypes, CallThrows, WorkerDies
<1>2. /\ \/ ~(proposal.phase # "closed" /\ ~proposal.held)
         \/ proposal.published < proposal.version /\ proposal.dispatch
         \/ proposal.failed /\ proposal.cAt # "none"
         \/ \E j \in deliveries : Current(j)
         \/ hand[w].at \in JobPlaces /\ Current(hand[w].job)
         \/ hand[w].at \in {"c_read", "c_add", "c_undo"} /\ hand[w].tok = proposal.cClaim
      /\ proposal.leaseLive => /\ hand[w].at \in {"a_tx", "a_release"}
                               /\ proposal.lease = hand[w].tok
                               /\ proposal.version = hand[w].job.version
  BY OneWorkerWatched
<1>3. ASSUME Moves(w, AtRest), ~proposal.leaseLive,
             \/ ~(proposal.phase # "closed" /\ ~proposal.held)
             \/ proposal.published < proposal.version /\ proposal.dispatch
             \/ proposal.failed /\ proposal.cAt # "none"
             \/ \E j \in deliveries' : Current(j)
      PROVE  Goal
  <2>1. hand'[w] = AtRest /\ hand' = [hand EXCEPT ![w] = hand'[w]]
    BY <1>1, <1>3 DEF Moves
  <2>2. Knows(w)'
    BY <2>1 DEF Knows, AtRest
  <2>. QED
    BY <1>1, <1>3, <2>1, <2>2, OneWorkerWatches DEF Current
<1>4. CASE WorkerDies(w)
  <2>1. /\ hand[w].at \notin {"c_read", "c_add", "c_undo", "a_tx", "a_release"}
        /\ deaths = 0 /\ Moves(w, AtRest) /\ ~proposal.leaseLive
    BY <1>1, <1>2, <1>4, ProposalDeadlineAssumption DEF WorkerDies, RecoverableFaults
  <2>2. CASE hand[w].at \in JobPlaces
    <3>1. PICK j : j = hand[w].job /\ IsDelivery(proposal, j)
      BY <1>1, <2>2 DEF HandFields, AtRest, JobPlaces
    <3>2. "job" \in DOMAIN hand[w] /\ ~j.stalled
      BY <1>1, <2>1, <2>2, <3>1 DEF HandFields, AtRest, JobPlaces, IsDelivery
    <3>3. PICK k : k = [j EXCEPT !.stalled = TRUE] /\ deliveries' = deliveries \cup {k}
      BY <1>4, <3>1, <3>2 DEF WorkerDies
    <3>4. k.version = j.version /\ k.tok = j.tok
      BY <3>1, <3>3 DEF IsDelivery
    <3>. QED
      BY <1>2, <1>3, <2>1, <3>1, <3>3, <3>4 DEF Current
  <2>3. CASE hand[w].at \notin JobPlaces
    <3>1. "job" \notin DOMAIN hand[w]
      BY <1>1, <2>3 DEF HandFields, AtRest, JobPlaces
    <3>2. UNCHANGED deliveries
      BY <1>4, <3>1 DEF WorkerDies
    <3>. QED
      BY <1>2, <1>3, <2>1, <2>3, <3>2
  <2>. QED
    BY <2>2, <2>3
<1>5. CASE CallThrows(w)
  <2>1. CASE hand[w].at = "p_read"
    BY <1>2, <1>3, <1>5, <2>1 DEF CallThrows, JobPlaces
  <2>2. CASE hand[w].at \in {"p_add", "p_mark", "c_add", "c_mark"}
    <3>1. hand[w] = [at |-> hand[w].at, tok |-> hand[w].tok, version |-> hand[w].version]
      BY <1>1, <2>2 DEF HandFields, AtRest
    <3>2. PICK p : /\ p = IF hand[w].at \in {"p_add", "p_mark"} THEN "p_undo" ELSE "c_undo"
                   /\ hand' = [hand EXCEPT ![w] = [hand[w] EXCEPT !.at = p]]
      <4>1. PICK p : p = IF hand[w].at \in {"p_add", "p_mark"} THEN "p_undo" ELSE "c_undo"
        OBVIOUS
      <4>2. Moves(w, [hand[w] EXCEPT !.at = p])
        BY <1>5, <2>2, <4>1 DEF CallThrows
      <4>. QED
        BY <4>1, <4>2 DEF Moves
    <3>3. /\ hand' = [hand EXCEPT ![w] = hand'[w]]
          /\ hand'[w] = [hand[w] EXCEPT !.at = p]
      BY <1>1, <3>2
    <3>4. hand'[w].at = p /\ hand'[w].tok = hand[w].tok /\ hand'[w].version = hand[w].version
      BY <3>1, <3>3
    <3>5. deliveries \subseteq deliveries'
      BY <1>5, <2>2 DEF CallThrows
    <3>6. Knows(w)'
      BY <1>1, <2>2, <3>2, <3>4 DEF Knows
    <3>7. \/ ~(proposal'.phase # "closed" /\ ~proposal'.held)
          \/ proposal'.published < proposal'.version /\ proposal'.dispatch
          \/ proposal'.failed /\ proposal'.cAt # "none"
          \/ \E j \in deliveries' : Current(j)'
          \/ hand'[w].at \in {"c_read", "c_add", "c_undo"} /\ hand'[w].tok = proposal'.cClaim
      BY <1>1, <1>2, <2>2, <3>2, <3>4, <3>5 DEF Current, JobPlaces
    <3>. QED
      BY <1>1, <1>2, <2>2, <3>3, <3>6, <3>7, OneWorkerWatches
  <2>3. CASE hand[w].at = "a_claim"
    <3>1. PICK j : j = hand[w].job /\ IsDelivery(proposal, j) /\ EndOfAttempt(w, j)
      BY <1>1, <1>5, <2>3 DEF CallThrows, HandFields, AtRest
    <3>. QED
      BY <1>1, <1>2, <2>3, <3>1, AttemptEndKeepsWatch DEF JobPlaces
  <2>4. CASE hand[w].at = "a_tx"
    <3>1. hand[w] = [at |-> hand[w].at, tok |-> hand[w].tok, job |-> hand[w].job]
      BY <1>1, <2>4 DEF HandFields, AtRest
    <3>2. hand' = [hand EXCEPT ![w] = [hand[w] EXCEPT !.at = "a_release"]] /\ UNCHANGED deliveries
      BY <1>5, <2>4 DEF CallThrows, Moves
    <3>3. /\ hand' = [hand EXCEPT ![w] = hand'[w]]
          /\ hand'[w] = [hand[w] EXCEPT !.at = "a_release"]
      BY <1>1, <3>2
    <3>4. hand'[w].at = "a_release" /\ hand'[w].tok = hand[w].tok /\ hand'[w].job = hand[w].job
      BY <3>1, <3>3
    <3>5. Knows(w)'
      BY <3>4 DEF Knows
    <3>6. \/ ~(proposal'.phase # "closed" /\ ~proposal'.held)
          \/ proposal'.published < proposal'.version /\ proposal'.dispatch
          \/ proposal'.failed /\ proposal'.cAt # "none"
          \/ \E j \in deliveries' : Current(j)'
          \/ hand'[w].at \in JobPlaces /\ Current(hand[w].job)'
      BY <1>1, <1>2, <2>4, <3>2, <3>4 DEF Current, JobPlaces
    <3>. QED
      BY <1>1, <1>2, <2>4, <3>3, <3>4, <3>5, <3>6, OneWorkerWatches
  <2>. QED
    BY <1>5, <2>1, <2>2, <2>3, <2>4 DEF CallThrows, RecoverableFaults
<1>. QED
  BY <1>4, <1>5

LEMMA DeadlineStepKeepsWatch ==
  ASSUME OneProcess, RecoverableFaults, WatchInvariant, [ProposalNext]_proposalVars
  PROVE  WatchInvariant'
<1>1. DeadlineTypes'
  BY DeadlineStepKeepsTypes DEF WatchInvariant
<1>2. CASE UNCHANGED proposalVars
  BY <1>1, <1>2 DEF proposalVars, WatchInvariant, Watched, Knows, LeaseIsHeld, Current, JobOf
<1>3. CASE ProposalNext
  <2>1. Watched' /\ (\A v \in DeadlineWorkers : Knows(v)') /\ LeaseIsHeld'
    BY <1>3, PeopleAndClockKeepWatch, SweepKeepsWatch, DeliveryKeepsWatch, JobKeepsWatch,
       FaultsKeepWatch DEF ProposalNext
  <2>. QED
    BY <1>1, <2>1 DEF WatchInvariant
<1>. QED
  BY <1>2, <1>3

LEMMA WatchedInitially ==
  ASSUME ProposalInit
  PROVE  WatchInvariant
<1>1. proposal.published < proposal.version /\ proposal.dispatch /\ ~proposal.leaseLive
  BY DEF ProposalInit, New
<1>2. \A w \in DeadlineWorkers : hand[w].at = "idle"
  BY DEF ProposalInit, AtRest
<1>. QED
  BY <1>1, <1>2, DeadlineTypesInitially DEF WatchInvariant, Watched, Knows, LeaseIsHeld

(* One process that fails only where the proposal recovers, which is as    *)
(* much as the code promises, never forgets a deadline: as long as it runs *)
(* the proposal waits for a sweep, its delivery exists, or a failure has a *)
(* time at which it is delivered again.                                    *)
THEOREM DeadlinesAreWatched ==
  ASSUME OneProcess, RecoverableFaults
  PROVE  ProposalSpec => []ProposalIsWatched
<1>1. ProposalInit => WatchInvariant
  BY WatchedInitially
<1>2. WatchInvariant /\ [ProposalNext]_proposalVars => WatchInvariant'
  BY DeadlineStepKeepsWatch
<1>3. WatchInvariant => ProposalIsWatched
  <2>. SUFFICES ASSUME WatchInvariant PROVE ProposalIsWatched
    OBVIOUS
  <2>2. \A w \in DeadlineWorkers : hand[w].at \in JobPlaces => "job" \in DOMAIN hand[w]
    BY DEF WatchInvariant, DeadlineTypes, HandFields, AtRest, JobPlaces
  <2>3. DeadlineIsAwaited
    BY <2>2 DEF WatchInvariant, Watched, Current, Open, DeadlineIsAwaited
  <2>. QED
    BY <2>3 DEF WatchInvariant, DeadlineTypes, SuspendedByHold, HoldSuspends, ProposalIsWatched
<1>. QED
  BY <1>1, <1>2, <1>3, PTL DEF ProposalSpec

-----------------------------------------------------------------------------
(* THE INDEX OF HOT POSTS                                                  *)

CandidateFields == {"shown", "counts", "expired", "renewed", "wavered", "pending", "eligible",
                    "version", "synced", "dirty", "live"}

Flags == {"shown", "counts", "expired", "renewed", "wavered", "pending", "eligible", "dirty",
          "live"}

(* A hot state, and what its fields have to do with each other.            *)
CandidateOK(c) ==
  /\ DOMAIN c = CandidateFields /\ \A x \in Flags : c[x] \in BOOLEAN
  /\ c.version \in Nat /\ c.synced \in Nat
  /\ c.synced <= c.version /\ (c.live => c.dirty)
  /\ c.eligible /\ ~c.pending => c.shown
  /\ c.eligible => c.version > 0
  /\ c.expired => c.eligible

(* What the copy s of the state of p, which was read earlier, says of it   *)
(* as long as its version has not changed.                                 *)
CopyAgrees(s, c) ==
  /\ DOMAIN s = CandidateFields /\ \A x \in Flags : s[x] \in BOOLEAN
  /\ s.version \in Nat /\ s.version <= c.version
  /\ s.eligible => s.version > 0
  /\ s.version = c.version =>
       /\ s.eligible <=> c.eligible
       /\ s.expired => c.expired
       /\ c.eligible /\ ~s.shown => ~c.shown \/ c.wavered

(* The same of an entry e of an index.                                     *)
EntryAgrees(e, c) ==
  /\ DOMAIN e = {"version", "hot"} /\ e.hot \in BOOLEAN
  /\ e.version \in Nat /\ e.version <= c.version
  /\ e.version = c.version =>
       /\ e.hot => c.eligible
       /\ c.eligible /\ ~e.hot => c.expired \/ ~c.shown \/ c.wavered

(* The generations that the candidate worker writes to.                    *)
Written(g) == g = redis.active \/ (g = redis.building /\ IsBuilding(g))

Rebuilding(g) == building.at \in {"claimed", "batch", "advance", "activate", "activated"}
                   /\ building.id[2] = g

(* The batch that has been read for g has a copy of p.                     *)
InBatch(g, p) == building.at = "batch" /\ building.id[2] = g /\ p \in DOMAIN building.batch

(* The rebuild of g is going to read p.                                    *)
Ahead(g, p) ==
  /\ g # redis.active /\ IsBuilding(g)
  /\ Rebuilding(g) =>
       CASE building.at = "claimed" -> p > generation[g].cursor
         [] building.at = "batch"   -> /\ p > generation[g].cursor
                                       /\ Cardinality(DOMAIN building.batch) >= RebuildBatch
                                       /\ p > Max(DOMAIN building.batch)
         [] building.at = "advance" -> p > building.last
         [] OTHER                   -> FALSE
  /\ ~Rebuilding(g) => p > generation[g].cursor

(* Generation g has the present version of p, is going to read it, or need *)
(* not have it.                                                            *)
Served(g, p) ==
  LET c == candidate[p]
  IN  IF p \in DOMAIN redis.index[g] THEN redis.index[g][p].version = c.version
      ELSE /\ InBatch(g, p) => building.batch[p].version = c.version
           /\ \/ g # redis.active /\ InBatch(g, p)
              \/ Ahead(g, p)
              \/ ~c.eligible \/ ~c.shown \/ c.wavered

(* The generations and what Redis knows of them.                           *)
GenerationsAreKept ==
  /\ DOMAIN generation = Generations
  /\ \A g \in Generations :
       /\ "status" \in DOMAIN generation[g]
       /\ generation[g].status \in {"none", "BUILDING", "ACTIVE", "SUPERSEDED", "deleted"}
       /\ generation[g].status = "BUILDING" =>
            DOMAIN generation[g] = {"status", "version", "cursor", "claimed"}
            /\ generation[g].cursor \in Nat
       /\ generation[g].status = "none" => redis.index[g] = <<>>
  /\ \A g, h \in Generations : IsBuilding(g) /\ IsBuilding(h) => g = h
  /\ DOMAIN redis = {"active", "building", "ready", "marked", "index"}
  /\ redis.active \in Generations \cup {0} /\ redis.building \in Generations \cup {0}
  /\ redis.ready \subseteq Generations /\ redis.marked \subseteq Generations
  /\ DOMAIN redis.index = Generations
  /\ redis.active # 0 => IsServing(redis.active) /\ redis.active \in redis.ready
  /\ redis.building # 0 => generation[redis.building].status # "none"
  /\ \A g \in redis.marked : generation[g].status # "none"
                             /\ (IsBuilding(g) => Written(g))

(* A generation that is built, but not announced yet, is empty.            *)
NewIsEmpty ==
  \A g \in Generations :
    (IsBuilding(g) /\ ~Written(g)) \/ generation[g].status = "none" =>
      /\ redis.index[g] = <<>>
      /\ IsBuilding(g) => generation[g].cursor = 0
      /\ ~Rebuilding(g)
      /\ syncing.at = "apply" => g \notin syncing.left

RebuildIsKept ==
  /\ building.at \in {"idle", "ensure", "announce", "claimed", "batch", "advance", "activate",
                      "activated"}
  /\ building.at = "idle" <=> building = NoIndexJob
  /\ building.at \in {"claimed", "batch", "advance", "activate", "activated"} =>
       IsBuilding(building.id[2]) /\ building.id[2] \in Generations
       /\ Written(building.id[2])
  /\ building.at = "batch" =>
       /\ DOMAIN building.batch \subseteq HotPosts /\ IsFiniteSet(DOMAIN building.batch)
       /\ \A p \in DOMAIN building.batch :
            /\ CopyAgrees(building.batch[p], candidate[p])
            /\ building.batch[p].version > 0
            /\ p > generation[building.id[2]].cursor
  /\ building.at = "advance" => building.last \in Nat
                                /\ building.last >= generation[building.id[2]].cursor
  /\ building.at = "activated" => building.id[2] = redis.active
                                  /\ building.previous \in Generations \cup {0}
                                  /\ (building.previous # 0 => IsServing(building.previous))

SyncIsKept ==
  /\ syncing.at \in {"idle", "read", "apply"}
  /\ syncing.at = "idle" <=> syncing = NoIndexJob
  /\ syncing.at # "idle" =>
       /\ syncing.post \in HotPosts /\ CopyAgrees(syncing.state, candidate[syncing.post])
       /\ syncing.state.version # candidate[syncing.post].version =>
            candidate[syncing.post].dirty
  /\ syncing.at = "apply" =>
       /\ DOMAIN syncing = {"at", "post", "state", "left"}
       /\ syncing.left \subseteq Generations
       /\ syncing.state.version = candidate[syncing.post].version =>
            \A g \in Generations \ syncing.left : Written(g) => Served(g, syncing.post)

PostsAreServed ==
  \A p \in HotPosts : ~candidate[p].dirty => \A g \in Generations : Written(g) => Served(g, p)

CandidatesAreKept == DOMAIN candidate = HotPosts /\ \A p \in HotPosts : CandidateOK(candidate[p])

EntriesAgree ==
  \A g \in Generations : \A p \in DOMAIN redis.index[g] :
    p \in HotPosts /\ EntryAgrees(redis.index[g][p], candidate[p])

IndexIsKept ==
  /\ CandidatesAreKept /\ GenerationsAreKept /\ EntriesAgree
  /\ NewIsEmpty /\ RebuildIsKept /\ SyncIsKept /\ PostsAreServed

(* What may become of a hot state c: n.                                    *)
SameVersion(c, n) ==
  /\ n.version = c.version
  /\ n.eligible <=> c.eligible
  /\ c.expired => n.expired
  /\ c.eligible /\ (~c.shown \/ c.wavered) => ~n.shown \/ n.wavered

HotMoves(c, n) ==
  /\ CandidateOK(n)
  /\ \/ SameVersion(c, n) /\ (c.dirty => n.dirty)
     \/ n.version > c.version /\ n.dirty

LEMMA CountsMove ==
  ASSUME NEW c, CandidateOK(c)
  PROVE  HotMoves(c, [c EXCEPT !.counts = ~@, !.pending = TRUE])
BY DEF CandidateOK, HotMoves, SameVersion, CandidateFields, Flags

LEMMA ActivityMove ==
  ASSUME NEW c, CandidateOK(c)
  PROVE  HotMoves(c, [c EXCEPT !.renewed = TRUE, !.pending = TRUE])
BY DEF CandidateOK, HotMoves, SameVersion, CandidateFields, Flags

LEMMA WindowMove ==
  ASSUME NEW c, CandidateOK(c), c.eligible
  PROVE  HotMoves(c, [c EXCEPT !.expired = TRUE, !.renewed = FALSE])
BY DEF CandidateOK, HotMoves, SameVersion, CandidateFields, Flags

LEMMA VisibilityMove ==
  ASSUME NEW c, CandidateOK(c)
  PROVE  HotMoves(c, [c EXCEPT !.shown = ~@, !.pending = TRUE,
                       !.wavered = @ \/ (~c.shown /\ c.eligible)])
BY DEF CandidateOK, HotMoves, SameVersion, CandidateFields, Flags

LEMMA ProjectedMove ==
  ASSUME NEW c, CandidateOK(c)
  PROVE  HotMoves(c, Projected(c))
BY DEF CandidateOK, HotMoves, SameVersion, CandidateFields, Flags, Projected

(* Copies and entries that were right stay right when the state moves.     *)
LEMMA CopyStays ==
  ASSUME NEW s, NEW c, NEW n, CandidateOK(c), CopyAgrees(s, c), HotMoves(c, n)
  PROVE  CopyAgrees(s, n)
<1>1. CASE n.version = c.version
  BY <1>1 DEF CandidateOK, CopyAgrees, HotMoves, SameVersion
<1>2. CASE n.version > c.version
  BY <1>2 DEF CandidateOK, CopyAgrees, HotMoves
<1>. QED
  BY <1>1, <1>2 DEF HotMoves, SameVersion

LEMMA EntryStays ==
  ASSUME NEW e, NEW c, NEW n, CandidateOK(c), EntryAgrees(e, c), HotMoves(c, n)
  PROVE  EntryAgrees(e, n)
<1>1. CASE n.version = c.version
  BY <1>1 DEF CandidateOK, EntryAgrees, HotMoves, SameVersion
<1>2. CASE n.version > c.version
  BY <1>2 DEF CandidateOK, EntryAgrees, HotMoves
<1>. QED
  BY <1>1, <1>2 DEF HotMoves, SameVersion

(* A copy of what is there.                                                *)
LEMMA CopyTaken ==
  ASSUME NEW c, CandidateOK(c)
  PROVE  CopyAgrees(c, c) /\ HotMoves(c, c)
BY DEF CandidateOK, CopyAgrees, HotMoves, SameVersion

(* What becomes of an index when a copy s of the state c of p is entered.  *)
LEMMA EnteredAgrees ==
  ASSUME NEW index, NEW p, NEW s, NEW c, CandidateOK(c), CopyAgrees(s, c),
         p \in DOMAIN index => EntryAgrees(index[p], c), NEW n, n = Entered(index, p, s)
  PROVE  /\ DOMAIN n \subseteq DOMAIN index \cup {p} /\ DOMAIN index \subseteq DOMAIN n
         /\ \A q \in DOMAIN index \ {p} : n[q] = index[q]
         /\ p \in DOMAIN n => EntryAgrees(n[p], c)
         /\ p \in DOMAIN n /\ s.version = c.version => n[p].version = c.version
         /\ p \in DOMAIN index /\ index[p].version = c.version => n[p].version = c.version
         /\ p \notin DOMAIN n => ~c.eligible \/ s.version # c.version
         /\ s.version > 0 => p \in DOMAIN n
<1>. DEFINE isHot == s.shown /\ s.eligible /\ ~s.expired
            stays == \/ p \in DOMAIN index /\ index[p].version > s.version
                     \/ p \notin DOMAIN index /\ ~isHot /\ s.version = 0
            new == [version |-> s.version, hot |-> isHot]
<1>1. CASE stays
  <2>1. n = index
    BY <1>1 DEF Entered
  <2>. QED
    BY <1>1, <2>1 DEF CandidateOK, CopyAgrees, EntryAgrees
<1>2. CASE ~stays
  <2>1. n = [q \in DOMAIN index \cup {p} |-> IF q = p THEN new ELSE index[q]]
    BY <1>2 DEF Entered
  <2>2. DOMAIN n = DOMAIN index \cup {p} /\ n[p] = new
        /\ \A q \in DOMAIN index \ {p} : n[q] = index[q]
    BY <2>1
  <2>3. DOMAIN new = {"version", "hot"} /\ new.version = s.version
        /\ new.hot \in BOOLEAN /\ (new.hot <=> isHot)
    OBVIOUS
  <2>. HIDE DEF new
  <2>4. EntryAgrees(new, c)
    BY <2>3 DEF CandidateOK, CopyAgrees, EntryAgrees
  <2>5. p \in DOMAIN index /\ index[p].version = c.version => s.version = c.version
    BY <1>2 DEF CandidateOK, CopyAgrees, EntryAgrees
  <2>. QED
    BY <2>2, <2>3, <2>4, <2>5
<1>. QED
  BY <1>1, <1>2

(* A step in which states move, as far as they do.                         *)
StatesMove ==
  DOMAIN candidate' = HotPosts /\ \A p \in HotPosts : HotMoves(candidate[p], candidate'[p])

LEMMA StatesStand ==
  ASSUME CandidatesAreKept, UNCHANGED candidate
  PROVE  StatesMove
BY CopyTaken DEF CandidatesAreKept, StatesMove

LEMMA OneMoves ==
  ASSUME CandidatesAreKept, NEW p \in HotPosts, NEW n, HotMoves(candidate[p], n),
         candidate' = [candidate EXCEPT ![p] = n]
  PROVE  StatesMove
<1>1. candidate'[p] = n /\ \A q \in HotPosts \ {p} : candidate'[q] = candidate[q]
  BY DEF CandidatesAreKept
<1>2. \A q \in HotPosts : HotMoves(candidate[q], candidate'[q])
  BY <1>1, CopyTaken DEF CandidatesAreKept
<1>. QED
  BY <1>2 DEF CandidatesAreKept, StatesMove

LEMMA CandidatesStay ==
  ASSUME StatesMove
  PROVE  CandidatesAreKept'
BY DEF StatesMove, CandidatesAreKept, HotMoves

LEMMA EntriesStay ==
  ASSUME CandidatesAreKept, EntriesAgree, StatesMove, redis'.index = redis.index
  PROVE  EntriesAgree'
<1>. SUFFICES ASSUME NEW g \in Generations, NEW p \in DOMAIN redis.index[g]
              PROVE  p \in HotPosts /\ EntryAgrees(redis.index[g][p], candidate'[p])
  BY DEF EntriesAgree
<1>1. p \in HotPosts /\ EntryAgrees(redis.index[g][p], candidate[p])
  BY DEF EntriesAgree
<1>2. CandidateOK(candidate[p]) /\ HotMoves(candidate[p], candidate'[p])
  BY <1>1 DEF CandidatesAreKept, StatesMove
<1>. QED
  BY <1>1, <1>2, EntryStays

(* The worker of the rebuild does not notice.                              *)
LEMMA RebuildStays ==
  ASSUME CandidatesAreKept, RebuildIsKept, StatesMove, UNCHANGED <<generation, building>>,
         redis'.active = redis.active,
         \A g \in Generations : Written(g) => Written(g)'
  PROVE  RebuildIsKept'
<1>1. ASSUME building.at = "batch", NEW p \in DOMAIN building.batch
      PROVE  CopyAgrees(building.batch[p], candidate'[p])
  <2>1. p \in HotPosts /\ CopyAgrees(building.batch[p], candidate[p])
    BY <1>1 DEF RebuildIsKept
  <2>. QED
    BY <2>1, CopyStays DEF CandidatesAreKept, StatesMove
<1>2. \A g : IsBuilding(g)' <=> IsBuilding(g)
  BY DEF IsBuilding
<1>3. \A g : IsServing(g)' <=> IsServing(g)
  BY DEF IsServing
<1>. QED
  BY <1>1, <1>2, <1>3 DEF RebuildIsKept

LEMMA ServedStays ==
  ASSUME NEW g \in Generations, NEW p \in HotPosts, Served(g, p),
         SameVersion(candidate[p], candidate'[p]), redis'.index[g] = redis.index[g],
         redis'.active = redis.active, UNCHANGED <<generation, building>>
  PROVE  Served(g, p)'
<1>1. InBatch(g, p)' <=> InBatch(g, p)
  BY DEF InBatch
<1>2. Ahead(g, p)' <=> Ahead(g, p)
  BY DEF Ahead, Rebuilding, IsBuilding
<1>3. CASE p \in DOMAIN redis.index[g]
  BY <1>3 DEF Served, SameVersion
<1>4. CASE p \notin DOMAIN redis.index[g]
  BY <1>1, <1>2, <1>4 DEF Served, SameVersion
<1>. QED
  BY <1>3, <1>4

(* Nothing of a generation that the worker of the candidates is told of    *)
(* now has been read.                                                      *)
LEMMA NewIsServed ==
  ASSUME HotIndexAssumption, GenerationsAreKept, NewIsEmpty, NEW g \in Generations,
         NEW p \in HotPosts, IsBuilding(g), ~Written(g)
  PROVE  Served(g, p)
<1>1. p \in Nat /\ p > 0 /\ redis.index[g] = <<>> /\ generation[g].cursor = 0
      /\ ~Rebuilding(g)
  BY DEF HotIndexAssumption, NewIsEmpty
<1>2. p \notin DOMAIN redis.index[g]
  BY <1>1
<1>3. ~InBatch(g, p)
  BY <1>1 DEF InBatch, Rebuilding
<1>4. Ahead(g, p)
  BY <1>1 DEF Ahead, Written
<1>. QED
  BY <1>2, <1>3, <1>4 DEF Served

(* What the worker of the candidates is told of is served, as long as no   *)
(* state moves on.                                                         *)
LEMMA PostsStayServed ==
  ASSUME HotIndexAssumption, IndexIsKept, StatesMove,
         UNCHANGED <<generation, building>>, redis'.index = redis.index,
         redis'.active = redis.active,
         \A g \in Generations : Written(g)' => Written(g) \/ IsBuilding(g)
  PROVE  PostsAreServed'
<1>. SUFFICES ASSUME NEW p \in HotPosts, ~candidate'[p].dirty, NEW g \in Generations, Written(g)'
              PROVE  Served(g, p)'
  BY DEF PostsAreServed
<1>1. HotMoves(candidate[p], candidate'[p])
  BY DEF StatesMove
<1>2. SameVersion(candidate[p], candidate'[p]) /\ ~candidate[p].dirty
  BY <1>1 DEF HotMoves
<1>3. Served(g, p)
  BY <1>2, NewIsServed DEF IndexIsKept, PostsAreServed
<1>. QED
  BY <1>2, <1>3, ServedStays

LEMMA SyncStays ==
  ASSUME HotIndexAssumption, IndexIsKept, StatesMove,
         UNCHANGED <<syncing, generation, building>>, redis'.index = redis.index,
         redis'.active = redis.active,
         \A g \in Generations : Written(g)' => Written(g) \/ IsBuilding(g)
  PROVE  SyncIsKept'
<1>1. ASSUME syncing.at # "idle"
      PROVE  /\ syncing.post \in HotPosts
             /\ CopyAgrees(syncing.state, candidate'[syncing.post])
             /\ syncing.state.version # candidate'[syncing.post].version =>
                  candidate'[syncing.post].dirty
  <2>1. syncing.post \in HotPosts /\ CopyAgrees(syncing.state, candidate[syncing.post])
        /\ (syncing.state.version # candidate[syncing.post].version =>
              candidate[syncing.post].dirty)
    BY <1>1 DEF IndexIsKept, SyncIsKept
  <2>2. CandidateOK(candidate[syncing.post])
        /\ HotMoves(candidate[syncing.post], candidate'[syncing.post])
    BY <2>1 DEF IndexIsKept, CandidatesAreKept, StatesMove
  <2>3. syncing.state.version # candidate'[syncing.post].version => candidate'[syncing.post].dirty
    BY <2>1, <2>2 DEF HotMoves, SameVersion
  <2>. QED
    BY <2>1, <2>2, <2>3, CopyStays
<1>2. ASSUME syncing.at = "apply",
             syncing.state.version = candidate'[syncing.post].version,
             NEW g \in Generations \ syncing.left, Written(g)'
      PROVE  Served(g, syncing.post)'
  <2>. DEFINE p == syncing.post
  <2>1. p \in HotPosts /\ CopyAgrees(syncing.state, candidate[p])
    BY <1>2 DEF IndexIsKept, SyncIsKept
  <2>2. CandidateOK(candidate[p]) /\ HotMoves(candidate[p], candidate'[p])
    BY <2>1 DEF IndexIsKept, CandidatesAreKept, StatesMove
  <2>3. SameVersion(candidate[p], candidate'[p])
    BY <1>2, <2>1, <2>2 DEF CopyAgrees, HotMoves, CandidateOK
  <2>4. Served(g, p)
    <3>1. CASE Written(g)
      BY <1>2, <2>3, <3>1 DEF IndexIsKept, SyncIsKept, SameVersion
    <3>2. CASE ~Written(g)
      BY <1>2, <2>1, <3>2, NewIsServed DEF IndexIsKept
    <3>. QED
      BY <3>1, <3>2
  <2>. PICK q \in HotPosts : q = p
    BY <2>1
  <2>5. Served(g, q)'
    BY <2>3, <2>4, ServedStays
  <2>. QED
    BY <2>5
<1>. QED
  BY <1>1, <1>2 DEF IndexIsKept, SyncIsKept

LEMMA NewStaysEmpty ==
  ASSUME NewIsEmpty, UNCHANGED <<generation, building>>, redis'.index = redis.index,
         \A g \in Generations : Written(g) => Written(g)',
         syncing'.at = "apply" => syncing.at = "apply" /\ syncing'.left \subseteq syncing.left
  PROVE  NewIsEmpty'
<1>1. \A g : (IsBuilding(g)' <=> IsBuilding(g)) /\ (Rebuilding(g)' <=> Rebuilding(g))
  BY DEF IsBuilding, Rebuilding
<1>. QED
  BY <1>1 DEF NewIsEmpty

(* Where the hot states move and nothing else does.                        *)
LEMMA StatesMoveAlone ==
  ASSUME HotIndexAssumption, IndexIsKept, StatesMove,
         UNCHANGED <<generation, redis, syncing, building>>
  PROVE  IndexIsKept'
<1>1. \A g : IsBuilding(g)' <=> IsBuilding(g)
  BY DEF IsBuilding
<1>2. \A g : Written(g)' <=> Written(g)
  BY <1>1 DEF Written
<1>3. GenerationsAreKept'
  <2>1. \A g : IsServing(g)' <=> IsServing(g)
    BY DEF IsServing
  <2>. QED
    BY <1>1, <1>2, <2>1 DEF IndexIsKept, GenerationsAreKept
<1>. QED
  BY <1>2, <1>3, CandidatesStay, EntriesStay, RebuildStays, PostsStayServed, SyncStays, NewStaysEmpty
     DEF IndexIsKept

(* The projection, and what happens to posts.                              *)
LEMMA StateStep ==
  ASSUME HotIndexAssumption, IndexIsKept, NEW p \in HotPosts,
         \/ CountsChange(p) \/ NewActivity(p) \/ WindowCloses(p) \/ VisibilityChanges(p)
         \/ Refresh(p) \/ CandidateClaimExpires(p)
  PROVE  IndexIsKept'
<1>1. CandidateOK(candidate[p]) /\ CandidatesAreKept
  BY DEF IndexIsKept, CandidatesAreKept
<1>2. UNCHANGED <<generation, redis, syncing, building>>
  BY DEF CountsChange, NewActivity, WindowCloses, VisibilityChanges, Refresh,
         CandidateClaimExpires, Happens
<1>. SUFFICES StatesMove
  BY <1>2, StatesMoveAlone
<1>3. CASE CountsChange(p)
  BY <1>1, <1>3, CountsMove, OneMoves DEF CountsChange, Happens
<1>4. CASE NewActivity(p)
  BY <1>1, <1>4, ActivityMove, OneMoves DEF NewActivity, Happens
<1>5. CASE WindowCloses(p)
  BY <1>1, <1>5, WindowMove, OneMoves DEF WindowCloses, Happens
<1>6. CASE VisibilityChanges(p)
  BY <1>1, <1>6, VisibilityMove, OneMoves DEF VisibilityChanges, Happens
<1>7. CASE Refresh(p)
  BY <1>1, <1>7, ProjectedMove, OneMoves DEF Refresh
<1>8. CASE CandidateClaimExpires(p)
  <2>1. candidate' = [candidate EXCEPT ![p] = [candidate[p] EXCEPT !.live = FALSE]]
    BY <1>8 DEF CandidateClaimExpires
  <2>2. HotMoves(candidate[p], [candidate[p] EXCEPT !.live = FALSE])
    BY <1>1 DEF CandidateOK, HotMoves, SameVersion, CandidateFields, Flags
  <2>. QED
    BY <1>1, <2>1, <2>2, OneMoves
<1>. QED
  BY <1>3, <1>4, <1>5, <1>6, <1>7, <1>8

(* What findWritableGenerationIds repairs.                                 *)
LEMMA RepairedFacts ==
  ASSUME HotIndexAssumption, GenerationsAreKept, NEW r, r = Repaired
  PROVE  /\ DOMAIN r = {"active", "building", "ready", "marked", "index"}
         /\ r.index = redis.index /\ r.active = redis.active /\ r.ready = redis.ready
         /\ r.building \in Generations \cup {0}
         /\ r.building # 0 => IsBuilding(r.building)
         /\ r.marked \subseteq Generations
         /\ \A g \in Generations : Written(g) => g \in {r.active, r.building}
         /\ \A g \in r.marked : generation[g].status # "none"
                                /\ (IsBuilding(g) => g \in {r.active, r.building})
<1>. DEFINE orphan == {g \in Generations : IsBuilding(g)}
<1>1. /\ DOMAIN redis = {"active", "building", "ready", "marked", "index"}
      /\ redis.active \in Generations \cup {0} /\ redis.building \in Generations \cup {0}
      /\ redis.marked \subseteq Generations
      /\ redis.active = 0 \/ IsServing(redis.active)
      /\ \A g \in redis.marked : generation[g].status # "none" /\ (IsBuilding(g) => Written(g))
      /\ \A g, h \in Generations : IsBuilding(g) /\ IsBuilding(h) => g = h
  BY DEF GenerationsAreKept
<1>2. CASE redis.building # 0 /\ IsBuilding(redis.building)
  <2>1. r = [redis EXCEPT !.marked = @ \cup {redis.building}]
    BY <1>1, <1>2 DEF Repaired
  <2>2. DOMAIN r = {"active", "building", "ready", "marked", "index"}
        /\ r.index = redis.index /\ r.active = redis.active /\ r.ready = redis.ready
        /\ r.building = redis.building /\ r.marked = redis.marked \cup {redis.building}
    BY <1>1, <2>1
  <2>3. generation[redis.building].status # "none"
    BY <1>2 DEF IsBuilding
  <2>. QED
    BY <1>1, <1>2, <2>2, <2>3 DEF Written
<1>3. CASE redis.building # 0 /\ ~IsBuilding(redis.building)
  <2>1. r = [redis EXCEPT !.building = 0, !.marked = @ \ {redis.building}]
    BY <1>1, <1>3 DEF Repaired
  <2>2. DOMAIN r = {"active", "building", "ready", "marked", "index"}
        /\ r.index = redis.index /\ r.active = redis.active /\ r.ready = redis.ready
        /\ r.building = 0 /\ r.marked = redis.marked \ {redis.building}
    BY <1>1, <2>1
  <2>. QED
    BY <1>1, <1>3, <2>2 DEF Written
<1>4. CASE redis.building = 0 /\ orphan # {}
  <2>1. orphan \in SUBSET Nat /\ IsFiniteSet(orphan) /\ 0 \notin Generations
    BY FS_Subset DEF HotIndexAssumption
  <2>2. Max(orphan) \in orphan
    <3>. HIDE DEF orphan
    <3>. QED
      BY <1>4, <2>1, Extremes
  <2>3. r = [redis EXCEPT !.building = Max(orphan), !.marked = @ \cup {Max(orphan)}]
    BY <1>1, <1>4 DEF Repaired
  <2>. PICK o : o = Max(orphan)
    OBVIOUS
  <2>4. DOMAIN r = {"active", "building", "ready", "marked", "index"}
        /\ r.index = redis.index /\ r.active = redis.active /\ r.ready = redis.ready
        /\ r.building = o /\ r.marked = redis.marked \cup {o}
    <3>. HIDE DEF orphan
    <3>. QED
      BY <1>1, <2>3
  <2>5. o \in Generations /\ IsBuilding(o) /\ generation[o].status # "none"
    BY <2>2 DEF IsBuilding
  <2>. HIDE DEF orphan
  <2>. QED
    BY <1>1, <1>4, <2>4, <2>5 DEF Written
<1>5. CASE redis.building = 0 /\ orphan = {}
  <2>1. r = redis
    BY <1>1, <1>5 DEF Repaired
  <2>. QED
    BY <1>1, <1>5, <2>1 DEF Written
<1>. QED
  BY <1>2, <1>3, <1>4, <1>5

(* What the worker of the candidates sees of the generations afterwards.   *)
LEMMA RepairStays ==
  ASSUME HotIndexAssumption, GenerationsAreKept, redis' = Repaired, UNCHANGED generation
  PROVE  /\ GenerationsAreKept'
         /\ redis'.index = redis.index /\ redis'.active = redis.active
         /\ \A g \in Generations : Written(g) => Written(g)'
         /\ \A g \in Generations : Written(g)' => Written(g) \/ IsBuilding(g)
         /\ WritableIds(Repaired) \subseteq Generations
         /\ \A g \in Generations : Written(g)' => g \in WritableIds(Repaired)
<1>. PICK r : r = Repaired
  OBVIOUS
<1>1. /\ DOMAIN r = {"active", "building", "ready", "marked", "index"}
      /\ r.index = redis.index /\ r.active = redis.active /\ r.ready = redis.ready
      /\ r.building \in Generations \cup {0}
      /\ r.building # 0 => IsBuilding(r.building)
      /\ r.marked \subseteq Generations
      /\ \A g \in Generations : Written(g) => g \in {r.active, r.building}
      /\ \A g \in r.marked : generation[g].status # "none"
                             /\ (IsBuilding(g) => g \in {r.active, r.building})
  BY RepairedFacts
<1>2. redis' = r
  OBVIOUS
<1>3. \A g : (IsBuilding(g)' <=> IsBuilding(g)) /\ (IsServing(g)' <=> IsServing(g))
  BY DEF IsBuilding, IsServing
<1>4. 0 \notin Generations
  BY DEF HotIndexAssumption
<1>5. \A g \in Generations : Written(g)' <=> g \in {r.active, r.building}
  BY <1>1, <1>2, <1>3, <1>4 DEF Written
<1>6. GenerationsAreKept'
  <2>1. r.building # 0 => generation[r.building].status # "none"
    BY <1>1 DEF IsBuilding
  <2>2. \A g \in r.marked : generation[g].status # "none" /\ (IsBuilding(g) => Written(g)')
    BY <1>1, <1>5
  <2>. QED
    BY <1>1, <1>2, <1>3, <2>1, <2>2 DEF GenerationsAreKept
<1>7. redis.active \in Generations \cup {0}
  BY DEF GenerationsAreKept
<1>8. WritableIds(r) = {r.active, r.building} \ {0}
  BY DEF WritableIds
<1>9. \A g \in Generations : Written(g)' => Written(g) \/ IsBuilding(g)
  BY <1>1, <1>4, <1>5 DEF Written
<1>. QED
  BY <1>1, <1>2, <1>4, <1>5, <1>6, <1>7, <1>8, <1>9

LEMMA DispatchCandidatesStep ==
  ASSUME HotIndexAssumption, IndexIsKept, DispatchCandidates
  PROVE  IndexIsKept'
<1>1. redis' = Repaired /\ UNCHANGED <<generation, syncing, building>>
  BY DEF DispatchCandidates
<1>2. PICK p \in HotPosts : candidate[p].dirty /\ candidate' = [candidate EXCEPT ![p].live = TRUE]
  BY DEF DispatchCandidates
<1>3. CandidateOK(candidate[p]) /\ CandidatesAreKept
  BY DEF IndexIsKept, CandidatesAreKept
<1>4. StatesMove
  <2>1. HotMoves(candidate[p], [candidate[p] EXCEPT !.live = TRUE])
    BY <1>2, <1>3 DEF CandidateOK, HotMoves, SameVersion, CandidateFields, Flags
  <2>. QED
    BY <1>2, <1>3, <2>1, OneMoves
<1>5. /\ GenerationsAreKept'
      /\ redis'.index = redis.index /\ redis'.active = redis.active
      /\ \A g \in Generations : Written(g) => Written(g)'
      /\ \A g \in Generations : Written(g)' => Written(g) \/ IsBuilding(g)
  BY <1>1, RepairStays DEF IndexIsKept
<1>. QED
  BY <1>1, <1>4, <1>5, CandidatesStay, EntriesStay, RebuildStays, PostsStayServed, SyncStays,
     NewStaysEmpty DEF IndexIsKept

(* Where only the worker of the candidates goes on.                        *)
LEMMA SyncAlone ==
  ASSUME HotIndexAssumption, IndexIsKept, StatesMove, UNCHANGED <<generation, redis, building>>,
         SyncIsKept', syncing'.at # "apply"
  PROVE  IndexIsKept'
<1>1. \A g : (IsBuilding(g)' <=> IsBuilding(g)) /\ (IsServing(g)' <=> IsServing(g))
  BY DEF IsBuilding, IsServing
<1>2. \A g : Written(g)' <=> Written(g)
  BY <1>1 DEF Written
<1>3. GenerationsAreKept'
  BY <1>1, <1>2 DEF IndexIsKept, GenerationsAreKept
<1>4. redis'.index = redis.index /\ redis'.active = redis.active
  OBVIOUS
<1>. QED
  BY <1>2, <1>3, <1>4, CandidatesStay, EntriesStay, RebuildStays, PostsStayServed, NewStaysEmpty
     DEF IndexIsKept

LEMMA NoSync ==
  ASSUME syncing' = NoIndexJob
  PROVE  SyncIsKept' /\ syncing'.at = "idle"
BY DEF NoIndexJob, SyncIsKept

LEMMA ReadStep ==
  ASSUME HotIndexAssumption, IndexIsKept, syncQueue \subseteq HotPosts, ReadCandidate
  PROVE  IndexIsKept'
<1>1. PICK p \in HotPosts : syncing' = [at |-> "read", post |-> p, state |-> candidate[p]]
  BY DEF ReadCandidate
<1>2. UNCHANGED <<candidate, generation, redis, building>>
  BY DEF ReadCandidate
<1>3. CandidateOK(candidate[p])
  BY DEF IndexIsKept, CandidatesAreKept
<1>4. CopyAgrees(candidate[p], candidate[p])
  BY <1>3, CopyTaken
<1>5. syncing'.at = "read" /\ syncing'.post = p /\ syncing'.state = candidate[p]
  BY <1>1
<1>6. SyncIsKept'
  BY <1>2, <1>4, <1>5 DEF SyncIsKept, NoIndexJob
<1>. QED
  BY <1>2, <1>5, <1>6, StatesStand, SyncAlone DEF IndexIsKept

LEMMA FindStep ==
  ASSUME HotIndexAssumption, IndexIsKept, FindWritable
  PROVE  IndexIsKept'
<1>1. redis' = Repaired /\ syncing.at = "read" /\ UNCHANGED <<generation, building>>
  BY DEF FindWritable
<1>2. /\ GenerationsAreKept'
      /\ redis'.index = redis.index /\ redis'.active = redis.active
      /\ \A g \in Generations : Written(g) => Written(g)'
      /\ \A g \in Generations : Written(g)' => Written(g) \/ IsBuilding(g)
      /\ WritableIds(Repaired) \subseteq Generations
      /\ \A g \in Generations : Written(g)' => g \in WritableIds(Repaired)
  BY <1>1, RepairStays DEF IndexIsKept
<1>3. syncing.post \in HotPosts /\ CopyAgrees(syncing.state, candidate[syncing.post])
      /\ (syncing.state.version # candidate[syncing.post].version =>
            candidate[syncing.post].dirty)
      /\ CandidatesAreKept /\ CandidateOK(candidate[syncing.post])
  BY <1>1 DEF IndexIsKept, SyncIsKept, CandidatesAreKept
<1>4. CASE syncing' = NoIndexJob
  <2>1. StatesMove
    <3>1. CASE UNCHANGED candidate
      BY <1>3, <3>1, StatesStand
    <3>2. CASE candidate' = [candidate EXCEPT ![syncing.post].live = FALSE]
      <4>1. HotMoves(candidate[syncing.post], [candidate[syncing.post] EXCEPT !.live = FALSE])
        BY <1>3 DEF CandidateOK, HotMoves, SameVersion, CandidateFields, Flags
      <4>. QED
        BY <1>3, <3>2, <4>1, OneMoves
    <3>3. syncing' # [at |-> "apply", post |-> syncing.post, state |-> syncing.state,
                       left |-> WritableIds(Repaired)]
      BY <1>4 DEF NoIndexJob
    <3>. QED
      BY <3>1, <3>2, <3>3 DEF FindWritable
  <2>2. SyncIsKept' /\ syncing'.at = "idle"
    BY <1>4, NoSync
  <2>. QED
    BY <1>1, <1>2, <2>1, <2>2, CandidatesStay, EntriesStay, RebuildStays, PostsStayServed,
       NewStaysEmpty DEF IndexIsKept
<1>5. CASE /\ syncing' = [at |-> "apply", post |-> syncing.post, state |-> syncing.state,
                          left |-> WritableIds(Repaired)]
           /\ UNCHANGED candidate
  <2>1. StatesMove
    BY <1>3, <1>5, StatesStand
  <2>2. syncing'.at = "apply" /\ syncing'.post = syncing.post /\ syncing'.state = syncing.state
        /\ syncing'.left = WritableIds(Repaired)
        /\ DOMAIN syncing' = {"at", "post", "state", "left"}
    BY <1>5
  <2>3. SyncIsKept'
    BY <1>2, <1>3, <1>5, <2>2 DEF SyncIsKept, NoIndexJob
  <2>4. NewIsEmpty'
    <3>. SUFFICES ASSUME NEW g \in Generations,
                         (IsBuilding(g)' /\ ~Written(g)') \/ generation[g].status = "none"
                  PROVE  /\ redis.index[g] = <<>>
                         /\ IsBuilding(g)' => generation[g].cursor = 0
                         /\ ~Rebuilding(g)'
                         /\ g \notin WritableIds(Repaired)
      BY <1>1, <1>2, <2>2 DEF NewIsEmpty
    <3>1. (IsBuilding(g)' <=> IsBuilding(g)) /\ (Rebuilding(g)' <=> Rebuilding(g))
      BY <1>1 DEF IsBuilding, Rebuilding
    <3>2. (IsBuilding(g) /\ ~Written(g)) \/ generation[g].status = "none"
      BY <1>2, <3>1
    <3>3. /\ redis.index[g] = <<>>
          /\ IsBuilding(g) => generation[g].cursor = 0
          /\ ~Rebuilding(g)
      BY <3>2 DEF IndexIsKept, NewIsEmpty
    <3>4. g \notin WritableIds(Repaired)
      <4>. PICK r : r = Repaired
        OBVIOUS
      <4>1. r.active = redis.active /\ (r.building # 0 => IsBuilding(r.building))
        BY RepairedFacts DEF IndexIsKept
      <4>2. redis.active # 0 => IsServing(redis.active)
        BY DEF IndexIsKept, GenerationsAreKept
      <4>3. redis'.building = r.building
        BY <1>1
      <4>. QED
        BY <3>1, <4>1, <4>2, <4>3, <1>2 DEF WritableIds, IsServing, IsBuilding, Written
    <3>. QED
      BY <3>1, <3>3, <3>4
  <2>. QED
    BY <1>1, <1>2, <2>1, <2>3, <2>4, CandidatesStay, EntriesStay, RebuildStays, PostsStayServed
       DEF IndexIsKept
<1>. QED
  BY <1>4, <1>5 DEF FindWritable

LEMMA SyncDiesStep ==
  ASSUME HotIndexAssumption, IndexIsKept, SyncDies
  PROVE  IndexIsKept'
<1>1. syncing' = NoIndexJob /\ UNCHANGED <<candidate, generation, redis, building>>
  BY DEF SyncDies
<1>. QED
  BY <1>1, NoSync, StatesStand, SyncAlone DEF IndexIsKept

(* The state is written to every generation: nothing of it is left.        *)
LEMMA EndStep ==
  ASSUME HotIndexAssumption, IndexIsKept, EndSync
  PROVE  IndexIsKept'
<1>. DEFINE p == syncing.post
            n == Synced(candidate[p], syncing.state.version)
<1>1. syncing.at = "apply" /\ syncing.left = {} /\ syncing' = NoIndexJob
      /\ UNCHANGED <<generation, redis, building>>
      /\ candidate' = [candidate EXCEPT ![p] = n]
  BY DEF EndSync
<1>2. p \in HotPosts /\ CandidatesAreKept /\ CandidateOK(candidate[p])
      /\ CopyAgrees(syncing.state, candidate[p])
  BY <1>1 DEF IndexIsKept, SyncIsKept, CandidatesAreKept
<1>3. CASE syncing.state.version # candidate[p].version
  <2>1. n = candidate[p]
    BY <1>3 DEF Synced
  <2>2. HotMoves(candidate[p], n)
    BY <1>2, <2>1, CopyTaken
  <2>. HIDE DEF n
  <2>3. StatesMove
    BY <1>1, <1>2, <2>2, OneMoves
  <2>. QED
    BY <1>1, <2>3, NoSync, SyncAlone
<1>4. CASE syncing.state.version = candidate[p].version
  <2>1. n = [candidate[p] EXCEPT !.synced = syncing.state.version, !.dirty = FALSE, !.live = FALSE]
    BY <1>4 DEF Synced
  <2>2. CandidateOK(n) /\ SameVersion(candidate[p], n)
    BY <1>2, <1>4, <2>1 DEF CandidateOK, SameVersion, CandidateFields, Flags
  <2>3. candidate'[p] = n /\ \A q \in HotPosts \ {p} : candidate'[q] = candidate[q]
    BY <1>1, <1>2 DEF CandidatesAreKept
  <2>. HIDE DEF n
  <2>4. CandidatesAreKept'
    BY <1>1, <1>2, <2>2, <2>3 DEF CandidatesAreKept
  <2>5. \A q \in HotPosts : SameVersion(candidate[q], candidate'[q])
    BY <2>2, <2>3 DEF SameVersion
  <2>6. \A s : \A q \in HotPosts : CopyAgrees(s, candidate[q]) => CopyAgrees(s, candidate'[q])
    BY <2>5 DEF CopyAgrees, SameVersion
  <2>7. \A s : \A q \in HotPosts : EntryAgrees(s, candidate[q]) => EntryAgrees(s, candidate'[q])
    BY <2>5 DEF EntryAgrees, SameVersion
  <2>8. \A g : (IsBuilding(g)' <=> IsBuilding(g)) /\ (IsServing(g)' <=> IsServing(g))
    BY <1>1 DEF IsBuilding, IsServing
  <2>9. \A g : Written(g)' <=> Written(g)
    BY <1>1, <2>8 DEF Written
  <2>10. GenerationsAreKept'
    BY <1>1, <2>8, <2>9 DEF IndexIsKept, GenerationsAreKept
  <2>11. EntriesAgree'
    BY <1>1, <2>7 DEF IndexIsKept, EntriesAgree
  <2>12. NewIsEmpty' /\ SyncIsKept'
    BY <1>1, <2>9, NoSync, NewStaysEmpty DEF IndexIsKept
  <2>13. RebuildIsKept'
    BY <1>1, <2>6, <2>8, <2>9 DEF IndexIsKept, RebuildIsKept
  <2>14. PostsAreServed'
    <3>. SUFFICES ASSUME NEW q \in HotPosts, ~candidate'[q].dirty, NEW g \in Generations, Written(g)'
                  PROVE  Served(g, q)'
      BY DEF PostsAreServed
    <3>1. CASE q = p
      BY <1>1, <1>4, <2>5, <2>9, <3>1, ServedStays DEF IndexIsKept, SyncIsKept
    <3>2. CASE q # p
      BY <1>1, <2>3, <2>5, <2>9, <3>2, ServedStays DEF IndexIsKept, PostsAreServed
    <3>. QED
      BY <3>1, <3>2
  <2>. QED
    BY <2>4, <2>10, <2>11, <2>12, <2>13, <2>14 DEF IndexIsKept
<1>. QED
  BY <1>3, <1>4

(* Where the states, the generations and the pointers stand and entries    *)
(* are written, entries agree, and what was served stays so.               *)
LEMMA ApplyStep ==
  ASSUME HotIndexAssumption, IndexIsKept, ApplyMember
  PROVE  IndexIsKept'
<1>1. syncing.at = "apply" /\ UNCHANGED <<candidate, generation, building>>
  BY DEF ApplyMember
<1>2. CASE syncing' = NoIndexJob /\ UNCHANGED redis
  BY <1>1, <1>2, NoSync, StatesStand, SyncAlone DEF IndexIsKept
<1>. SUFFICES ASSUME NEW g \in syncing.left, Writable(redis, g),
                     redis' = [redis EXCEPT !.index[g] = Entered(@, syncing.post, syncing.state)],
                     syncing' = [syncing EXCEPT !.left = @ \ {g}]
              PROVE  IndexIsKept'
  BY <1>2 DEF ApplyMember
<1>. PICK p : p = syncing.post
  OBVIOUS
<1>. DEFINE c == candidate[p]
            s == syncing.state
            n == Entered(redis.index[g], p, s)
<1>3. /\ p \in HotPosts /\ CopyAgrees(s, c) /\ (s.version # c.version => c.dirty)
      /\ syncing.left \subseteq Generations
      /\ s.version = c.version =>
            \A h \in Generations \ syncing.left : Written(h) => Served(h, p)
  BY <1>1 DEF IndexIsKept, SyncIsKept
<1>4. g \in Generations /\ CandidateOK(c) /\ CandidatesAreKept
  BY <1>3 DEF IndexIsKept, CandidatesAreKept
<1>5. /\ DOMAIN redis = {"active", "building", "ready", "marked", "index"}
      /\ DOMAIN redis.index = Generations
  BY DEF IndexIsKept, GenerationsAreKept
<1>6. /\ DOMAIN redis' = {"active", "building", "ready", "marked", "index"}
      /\ redis'.active = redis.active /\ redis'.building = redis.building
      /\ redis'.ready = redis.ready /\ redis'.marked = redis.marked
      /\ DOMAIN redis'.index = Generations /\ redis'.index[g] = n
      /\ \A h \in Generations \ {g} : redis'.index[h] = redis.index[h]
  BY <1>4, <1>5
<1>7. /\ DOMAIN n \subseteq DOMAIN redis.index[g] \cup {p} /\ DOMAIN redis.index[g] \subseteq DOMAIN n
      /\ \A q \in DOMAIN redis.index[g] \ {p} : n[q] = redis.index[g][q]
      /\ p \in DOMAIN n => EntryAgrees(n[p], c)
      /\ p \in DOMAIN n /\ s.version = c.version => n[p].version = c.version
      /\ p \in DOMAIN redis.index[g] /\ redis.index[g][p].version = c.version => n[p].version = c.version
      /\ p \notin DOMAIN n => ~c.eligible \/ s.version # c.version
      /\ s.version > 0 => p \in DOMAIN n
  <2>1. p \in DOMAIN redis.index[g] => EntryAgrees(redis.index[g][p], c)
    BY <1>4 DEF IndexIsKept, EntriesAgree
  <2>. HIDE DEF c, s
  <2>. QED
    BY <1>3, <1>4, <2>1, EnteredAgrees
<1>8. syncing'.at = "apply" /\ syncing'.post = p /\ syncing'.state = s
      /\ syncing'.left = syncing.left \ {g} /\ DOMAIN syncing' = {"at", "post", "state", "left"}
  <2>1. DOMAIN syncing = {"at", "post", "state", "left"}
    BY <1>1 DEF IndexIsKept, SyncIsKept
  <2>. QED
    BY <1>1, <2>1
<1>9. \A h : (IsBuilding(h)' <=> IsBuilding(h)) /\ (IsServing(h)' <=> IsServing(h))
             /\ (Rebuilding(h)' <=> Rebuilding(h))
  BY <1>1 DEF IsBuilding, IsServing, Rebuilding
<1>10. \A h : Written(h)' <=> Written(h)
  BY <1>6, <1>9 DEF Written
<1>11. \A h \in Generations :
         /\ DOMAIN redis.index[h] \subseteq DOMAIN redis'.index[h]
         /\ DOMAIN redis'.index[h] \subseteq DOMAIN redis.index[h] \cup {p}
         /\ \A q \in DOMAIN redis.index[h] : (h = g /\ q = p) \/ redis'.index[h][q] = redis.index[h][q]
         /\ h # g => DOMAIN redis'.index[h] = DOMAIN redis.index[h]
  <2>. HIDE DEF n
  <2>. QED
    BY <1>6, <1>7
<1>12. CandidatesAreKept'
  BY <1>1, <1>4 DEF CandidatesAreKept
<1>13. IsBuilding(g) => Written(g)
  BY <1>1, <1>4 DEF IndexIsKept, NewIsEmpty
<1>14. generation[g].status # "none"
  BY <1>1, <1>4 DEF IndexIsKept, NewIsEmpty
<1>15. GenerationsAreKept'
  BY <1>1, <1>4, <1>6, <1>9, <1>10, <1>14 DEF IndexIsKept, GenerationsAreKept
<1>16. EntriesAgree'
  <2>. SUFFICES ASSUME NEW h \in Generations, NEW q \in DOMAIN redis'.index[h]
                PROVE  q \in HotPosts /\ EntryAgrees(redis'.index[h][q], candidate[q])
    BY <1>1 DEF EntriesAgree
  <2>1. CASE h = g /\ q = p
    <3>. HIDE DEF n
    <3>. QED
      BY <1>3, <1>6, <1>7, <2>1
  <2>2. CASE ~(h = g /\ q = p)
    <3>1. q \in DOMAIN redis.index[h]
      BY <1>7, <1>11, <1>6, <2>2
    <3>2. redis'.index[h][q] = redis.index[h][q]
      BY <1>11, <2>2, <3>1
    <3>. QED
      BY <3>1, <3>2 DEF IndexIsKept, EntriesAgree
  <2>. QED
    BY <2>1, <2>2
<1>17. NewIsEmpty'
  BY <1>1, <1>4, <1>6, <1>8, <1>9, <1>10, <1>13, <1>14 DEF IndexIsKept, NewIsEmpty
<1>18. RebuildIsKept'
  BY <1>1, <1>6, <1>9, <1>10 DEF IndexIsKept, RebuildIsKept
<1>19. ASSUME NEW h \in Generations, NEW q \in HotPosts, Served(h, q),
              h = g /\ q = p => s.version = c.version \/ ~c.dirty
       PROVE  Served(h, q)'
  <2>1. CASE q \in DOMAIN redis.index[h]
    <3>1. redis.index[h][q].version = candidate[q].version
      BY <1>19, <2>1 DEF Served
    <3>2. q \in DOMAIN redis'.index[h] /\ redis'.index[h][q].version = candidate[q].version
      <4>1. CASE h = g /\ q = p
        <5>. HIDE DEF n
        <5>. QED
          BY <1>6, <1>7, <2>1, <3>1, <4>1
      <4>2. CASE ~(h = g /\ q = p)
        BY <1>11, <2>1, <3>1, <4>2
      <4>. QED
        BY <4>1, <4>2
    <3>. QED
      BY <1>1, <3>2 DEF Served
  <2>2. CASE q \notin DOMAIN redis'.index[h]
    <3>1. q \notin DOMAIN redis.index[h]
      BY <1>11, <2>2
    <3>2. (InBatch(h, q)' <=> InBatch(h, q)) /\ (Ahead(h, q)' <=> Ahead(h, q))
      BY <1>1, <1>6, <1>9 DEF InBatch, Ahead
    <3>. QED
      BY <1>1, <1>6, <1>19, <2>2, <3>1, <3>2 DEF Served
  <2>3. CASE q \notin DOMAIN redis.index[h] /\ q \in DOMAIN redis'.index[h]
    <3>1. h = g /\ q = p
      BY <1>11, <2>3
    <3>2. s.version = c.version
      BY <1>3, <1>19, <3>1
    <3>3. redis'.index[h][q].version = candidate[q].version
      <4>. HIDE DEF n
      <4>. QED
        BY <1>6, <1>7, <2>3, <3>1, <3>2
    <3>. QED
      BY <1>1, <2>3, <3>3 DEF Served
  <2>. QED
    BY <2>1, <2>2, <2>3
<1>20. s.version = c.version => Served(g, p)'
  <2>. HAVE s.version = c.version
  <2>1. CASE p \in DOMAIN n
    BY <1>1, <1>6, <1>7, <2>1 DEF Served
  <2>2. CASE p \notin DOMAIN n
    <3>1. ~c.eligible /\ ~(s.version > 0)
      BY <1>7, <2>2
    <3>2. InBatch(g, p) => building.batch[p].version > 0 /\ building.batch[p].version <= c.version
          /\ building.batch[p].version \in Nat
      BY DEF InBatch, IndexIsKept, RebuildIsKept, CopyAgrees
    <3>3. ~InBatch(g, p)
      <4>1. c.version \in Nat /\ ~(c.version > 0)
        BY <1>4, <3>1 DEF CandidateOK
      <4>. QED
        BY <3>2, <4>1
    <3>4. ~InBatch(g, p)'
      BY <1>1, <3>3 DEF InBatch
    <3>. QED
      BY <1>1, <1>6, <2>2, <3>1, <3>4 DEF Served
  <2>. QED
    BY <2>1, <2>2
<1>21. PostsAreServed'
  <2>. SUFFICES ASSUME NEW q \in HotPosts, ~candidate[q].dirty, NEW h \in Generations, Written(h)
                PROVE  Served(h, q)'
    BY <1>1, <1>10 DEF PostsAreServed
  <2>1. Served(h, q)
    BY DEF IndexIsKept, PostsAreServed
  <2>. QED
    BY <1>19, <2>1
<1>22. SyncIsKept'
  <2>1. ASSUME s.version = c.version, NEW h \in Generations, h \notin syncing.left \ {g}, Written(h)
        PROVE  Served(h, p)'
    <3>1. CASE h = g
      BY <1>20, <2>1, <3>1
    <3>2. CASE h # g
      BY <1>3, <1>19, <2>1, <3>2
    <3>. QED
      BY <3>1, <3>2
  <2>2. syncing'.at = "apply" /\ syncing'.at # "idle" /\ syncing' # NoIndexJob
    BY <1>8 DEF NoIndexJob
  <2>. HIDE DEF n
  <2>. QED
    BY <1>1, <1>3, <1>8, <1>10, <2>1, <2>2 DEF SyncIsKept
<1>. QED
  BY <1>12, <1>15, <1>16, <1>17, <1>18, <1>21, <1>22 DEF IndexIsKept

(* A step of the worker of the rebuild keeps what only concerns the states *)
(* and the worker of the candidates, if what was served stays so.          *)
LEMMA MaintenanceStays ==
  ASSUME HotIndexAssumption, IndexIsKept, UNCHANGED <<candidate, syncing>>,
         \A g \in Generations : Written(g)' => Written(g) \/ IsBuilding(g),
         \A g \in Generations : \A p \in HotPosts : Written(g)' /\ Served(g, p) => Served(g, p)'
  PROVE  CandidatesAreKept' /\ SyncIsKept' /\ PostsAreServed'
<1>1. CandidatesAreKept'
  BY DEF IndexIsKept, CandidatesAreKept
<1>2. \A g \in Generations : \A p \in HotPosts : Written(g)' /\ ~Written(g) => Served(g, p)'
  BY NewIsServed DEF IndexIsKept
<1>3. SyncIsKept'
  <2>1. ASSUME syncing.at = "apply",
               syncing.state.version = candidate[syncing.post].version,
               NEW g \in Generations \ syncing.left, Written(g)'
        PROVE  Served(g, syncing.post)'
    <3>. PICK p \in HotPosts : p = syncing.post
      BY <2>1 DEF IndexIsKept, SyncIsKept
    <3>1. Served(g, p)'
      <4>1. CASE Written(g)
        <5>1. Served(g, p)
          BY <2>1, <4>1 DEF IndexIsKept, SyncIsKept
        <5>. QED
          BY <2>1, <5>1
      <4>2. CASE ~Written(g)
        BY <1>2, <2>1, <4>2
      <4>. QED
        BY <4>1, <4>2
    <3>. QED
      BY <3>1
  <2>. QED
    BY <2>1 DEF IndexIsKept, SyncIsKept
<1>4. PostsAreServed'
  <2>. SUFFICES ASSUME NEW p \in HotPosts, ~candidate[p].dirty, NEW g \in Generations, Written(g)'
                PROVE  Served(g, p)'
    BY DEF PostsAreServed
  <2>. QED
    BY <1>2 DEF IndexIsKept, PostsAreServed
<1>. QED
  BY <1>1, <1>3, <1>4

LEMMA EntriesStand ==
  ASSUME EntriesAgree, UNCHANGED candidate, redis'.index = redis.index
  PROVE  EntriesAgree'
BY DEF EntriesAgree

(* What a process that was rebuilding leaves when it is done or dies.      *)
LEMMA WorkerIsGone ==
  ASSUME HotIndexAssumption, IndexIsKept, building' = NoIndexJob,
         UNCHANGED <<candidate, generation>>, redis'.active = redis.active,
         NEW g \in Generations, NEW p \in HotPosts, redis'.index[g] = redis.index[g], Served(g, p)
  PROVE  Served(g, p)'
<1>1. building'.at = "idle" /\ ~Rebuilding(g)' /\ ~InBatch(g, p)'
  BY DEF NoIndexJob, Rebuilding, InBatch
<1>2. IsBuilding(g)' <=> IsBuilding(g)
  BY DEF IsBuilding
<1>3. CASE p \in DOMAIN redis.index[g]
  BY <1>3 DEF Served
<1>4. CASE p \notin DOMAIN redis.index[g]
  <2>1. ASSUME g # redis.active, InBatch(g, p) PROVE Ahead(g, p)'
    <3>1. IsBuilding(g) /\ p > generation[g].cursor
      BY <2>1 DEF IndexIsKept, RebuildIsKept, InBatch
    <3>. QED
      BY <1>1, <1>2, <2>1, <3>1 DEF Ahead
  <2>2. ASSUME Ahead(g, p) PROVE Ahead(g, p)'
    <3>1. g # redis.active /\ IsBuilding(g)
      BY <2>2 DEF Ahead
    <3>2. p > generation[g].cursor
      <4>1. CASE ~Rebuilding(g)
        BY <2>2, <4>1 DEF Ahead
      <4>2. CASE Rebuilding(g) /\ building.at \in {"claimed", "batch"}
        BY <2>2, <4>2 DEF Ahead
      <4>3. CASE Rebuilding(g) /\ building.at = "advance"
        <5>1. p > building.last
          BY <2>2, <4>3 DEF Ahead
        <5>2. building.last \in Nat /\ building.last >= generation[g].cursor
          BY <4>3 DEF IndexIsKept, RebuildIsKept, Rebuilding
        <5>3. generation[g].cursor \in Nat /\ p \in Nat
          BY <3>1 DEF IndexIsKept, GenerationsAreKept, IsBuilding, HotIndexAssumption
        <5>. QED
          BY <5>1, <5>2, <5>3
      <4>4. CASE Rebuilding(g) /\ building.at \notin {"claimed", "batch", "advance"}
        BY <2>2, <4>4 DEF Ahead, Rebuilding
      <4>. QED
        BY <4>1, <4>2, <4>3, <4>4
    <3>. QED
      BY <1>1, <1>2, <3>1, <3>2 DEF Ahead
  <2>. QED
    BY <1>1, <1>4, <2>1, <2>2 DEF Served
<1>. QED
  BY <1>3, <1>4

(* Where the generations and Redis stand.                                  *)
LEMMA GenerationsStand ==
  ASSUME UNCHANGED <<generation, redis>>
  PROVE  /\ GenerationsAreKept => GenerationsAreKept'
         /\ \A g : Written(g)' <=> Written(g)
BY DEF GenerationsAreKept, Written, IsBuilding, IsServing

LEMMA NoRebuild ==
  ASSUME building' = NoIndexJob
  PROVE  RebuildIsKept' /\ \A g : ~Rebuilding(g)'
BY DEF NoIndexJob, RebuildIsKept, Rebuilding

LEMMA MaintenanceDiesStep ==
  ASSUME HotIndexAssumption, IndexIsKept, MaintenanceDies
  PROVE  IndexIsKept'
<1>1. building' = NoIndexJob /\ UNCHANGED <<candidate, syncing, generation, redis>>
  BY DEF MaintenanceDies, MaintenanceKeeps
<1>2. GenerationsAreKept' /\ (\A g : Written(g)' <=> Written(g))
  BY <1>1, GenerationsStand DEF IndexIsKept
<1>3. RebuildIsKept' /\ EntriesAgree'
  BY <1>1, NoRebuild, EntriesStand DEF IndexIsKept
<1>4. NewIsEmpty'
  BY <1>1, <1>2, NoRebuild DEF IndexIsKept, NewIsEmpty, IsBuilding
<1>5. CandidatesAreKept' /\ SyncIsKept' /\ PostsAreServed'
  BY <1>1, <1>2, WorkerIsGone, MaintenanceStays
<1>. QED
  BY <1>2, <1>3, <1>4, <1>5 DEF IndexIsKept

(* Where a generation is only claimed or given back, or nothing changes.   *)
LEMMA JobsAlone ==
  ASSUME HotIndexAssumption, IndexIsKept,
         UNCHANGED <<candidate, generation, redis, syncing, building>>
  PROVE  IndexIsKept'
BY StatesStand, StatesMoveAlone DEF IndexIsKept

(* The claim of a generation is taken or runs out.                         *)
LEMMA ClaimsMove ==
  ASSUME HotIndexAssumption, GenerationsAreKept, NEW g \in Generations, NEW b,
         generation' = [generation EXCEPT ![g].claimed = b], UNCHANGED redis
  PROVE  /\ GenerationsAreKept'
         /\ \A h \in Generations : /\ IsBuilding(h)' <=> IsBuilding(h)
                                   /\ IsServing(h)' <=> IsServing(h)
                                   /\ Written(h)' <=> Written(h)
                                   /\ generation'[h].status = generation[h].status
                                   /\ IsBuilding(h) => generation'[h].cursor = generation[h].cursor
<1>1. DOMAIN generation = Generations /\ (\A h \in Generations : "status" \in DOMAIN generation[h])
      /\ \A h \in Generations : generation[h].status = "BUILDING" =>
           DOMAIN generation[h] = {"status", "version", "cursor", "claimed"}
  BY DEF GenerationsAreKept
<1>2. DOMAIN generation' = Generations /\ \A h \in Generations \ {g} : generation'[h] = generation[h]
  BY <1>1
<1>3. generation'[g] = [generation[g] EXCEPT !.claimed = b]
  BY <1>1
<1>4. DOMAIN generation'[g] = DOMAIN generation[g] /\ generation'[g].status = generation[g].status
      /\ (generation[g].status = "BUILDING" => generation'[g].cursor = generation[g].cursor)
  BY <1>1, <1>3
<1>5. \A h \in Generations : DOMAIN generation'[h] = DOMAIN generation[h]
                             /\ generation'[h].status = generation[h].status
                             /\ (generation[h].status = "BUILDING" =>
                                   generation'[h].cursor = generation[h].cursor)
  BY <1>2, <1>4
<1>6. \A h \in Generations : (IsBuilding(h)' <=> IsBuilding(h)) /\ (IsServing(h)' <=> IsServing(h))
  BY <1>5 DEF IsBuilding, IsServing
<1>7. \A h \in Generations : Written(h)' <=> Written(h)
  BY <1>6 DEF Written
<1>8. GenerationsAreKept'
  BY <1>2, <1>5, <1>6, <1>7 DEF GenerationsAreKept
<1>. QED
  BY <1>5, <1>6, <1>7, <1>8 DEF IsBuilding

LEMMA ClaimExpiresStep ==
  ASSUME HotIndexAssumption, IndexIsKept, GenerationClaimExpires
  PROVE  IndexIsKept'
<1>1. building = NoIndexJob /\ UNCHANGED <<candidate, syncing, redis, building>>
  BY DEF GenerationClaimExpires, MaintenanceKeeps
<1>2. PICK g \in Generations : generation' = [generation EXCEPT ![g].claimed = FALSE]
  BY DEF GenerationClaimExpires
<1>3. /\ GenerationsAreKept'
      /\ \A h \in Generations : /\ IsBuilding(h)' <=> IsBuilding(h)
                                /\ Written(h)' <=> Written(h)
                                /\ generation'[h].status = generation[h].status
                                /\ IsBuilding(h) => generation'[h].cursor = generation[h].cursor
  BY <1>1, <1>2, ClaimsMove DEF IndexIsKept
<1>4. \A h : ~Rebuilding(h) /\ \A p : ~InBatch(h, p)
  BY <1>1 DEF NoIndexJob, Rebuilding, InBatch
<1>5. RebuildIsKept' /\ EntriesAgree' /\ \A h : ~Rebuilding(h)' /\ \A p : ~InBatch(h, p)'
  BY <1>1, <1>4, NoRebuild, EntriesStand DEF IndexIsKept, NoIndexJob, InBatch
<1>6. NewIsEmpty'
  BY <1>1, <1>3, <1>5 DEF IndexIsKept, NewIsEmpty
<1>7. \A h \in Generations : \A p \in HotPosts : Served(h, p) => Served(h, p)'
  <2>. SUFFICES ASSUME NEW h \in Generations, NEW p \in HotPosts, Served(h, p)
                PROVE  Served(h, p)'
    OBVIOUS
  <2>1. Ahead(h, p) => Ahead(h, p)'
    BY <1>1, <1>3, <1>4, <1>5 DEF Ahead
  <2>. QED
    BY <1>1, <1>4, <1>5, <2>1 DEF Served
<1>8. CandidatesAreKept' /\ SyncIsKept' /\ PostsAreServed'
  BY <1>1, <1>3, <1>7, MaintenanceStays
<1>. QED
  BY <1>3, <1>5, <1>6, <1>8 DEF IndexIsKept

LEMMA TakeStep ==
  ASSUME HotIndexAssumption, IndexIsKept, TakeRebuild
  PROVE  IndexIsKept'
<1>1. building = NoIndexJob /\ UNCHANGED <<candidate, syncing, redis>>
  BY DEF TakeRebuild, MaintenanceKeeps
<1>2. CASE UNCHANGED <<generation, building>>
  BY <1>1, <1>2, JobsAlone
<1>. SUFFICES ASSUME NEW id, IsBuilding(id[2]), id[2] \in redis.marked,
                     generation' = [generation EXCEPT ![id[2]].claimed = TRUE],
                     building' = [at |-> "claimed", id |-> id]
              PROVE  IndexIsKept'
  BY <1>2 DEF TakeRebuild
<1>. DEFINE g == id[2]
<1>3. g \in Generations /\ Written(g)
  BY DEF IndexIsKept, GenerationsAreKept
<1>4. /\ GenerationsAreKept'
      /\ \A h \in Generations : /\ IsBuilding(h)' <=> IsBuilding(h)
                                /\ Written(h)' <=> Written(h)
                                /\ generation'[h].status = generation[h].status
                                /\ IsBuilding(h) => generation'[h].cursor = generation[h].cursor
  BY <1>1, <1>3, ClaimsMove DEF IndexIsKept
<1>5. \A h : ~Rebuilding(h) /\ \A p : ~InBatch(h, p)
  BY <1>1 DEF NoIndexJob, Rebuilding, InBatch
<1>6. building'.at = "claimed" /\ building'.id = id /\ building' # NoIndexJob
  BY DEF NoIndexJob
<1>7. \A h : (Rebuilding(h)' <=> h = g) /\ \A p : ~InBatch(h, p)'
  BY <1>6 DEF Rebuilding, InBatch
<1>8. RebuildIsKept'
  BY <1>3, <1>4, <1>6 DEF RebuildIsKept
<1>9. NewIsEmpty'
  <2>1. generation[g].status # "none"
    BY DEF IsBuilding
  <2>. HIDE DEF g
  <2>. QED
    BY <1>1, <1>3, <1>4, <1>7, <2>1 DEF IndexIsKept, NewIsEmpty
<1>10. \A h \in Generations : \A p \in HotPosts : Served(h, p) => Served(h, p)'
  <2>. SUFFICES ASSUME NEW h \in Generations, NEW p \in HotPosts, Served(h, p)
                PROVE  Served(h, p)'
    OBVIOUS
  <2>1. Ahead(h, p) => Ahead(h, p)'
    BY <1>1, <1>4, <1>5, <1>6 DEF Ahead
  <2>. QED
    BY <1>1, <1>5, <1>7, <2>1 DEF Served
<1>11. CandidatesAreKept' /\ SyncIsKept' /\ PostsAreServed'
  BY <1>1, <1>4, <1>10, MaintenanceStays
<1>12. EntriesAgree'
  BY <1>1, EntriesStand DEF IndexIsKept
<1>. QED
  BY <1>4, <1>8, <1>9, <1>11, <1>12 DEF IndexIsKept

LEMMA BuildingStep ==
  ASSUME HotIndexAssumption, IndexIsKept, EnsureBuilding
  PROVE  IndexIsKept'
<1>1. building.at = "ensure" /\ UNCHANGED <<candidate, syncing, redis>>
  BY DEF EnsureBuilding, MaintenanceKeeps
<1>2. building'.at \in {"announce", "idle"} /\ (building'.at = "idle" <=> building' = NoIndexJob)
  BY DEF EnsureBuilding, NoIndexJob
<1>3. \A h : ~Rebuilding(h) /\ ~Rebuilding(h)' /\ \A p : ~InBatch(h, p) /\ ~InBatch(h, p)'
  BY <1>1, <1>2 DEF Rebuilding, InBatch
<1>4. RebuildIsKept' /\ EntriesAgree'
  BY <1>1, <1>2, EntriesStand DEF IndexIsKept, RebuildIsKept
<1>5. CASE UNCHANGED generation
  <2>1. GenerationsAreKept' /\ (\A g : Written(g)' <=> Written(g))
    BY <1>1, <1>5, GenerationsStand DEF IndexIsKept
  <2>2. NewIsEmpty'
    BY <1>1, <1>3, <1>5, <2>1 DEF IndexIsKept, NewIsEmpty, IsBuilding
  <2>3. \A h \in Generations : \A p \in HotPosts : Served(h, p) => Served(h, p)'
    <3>. SUFFICES ASSUME NEW h \in Generations, NEW p \in HotPosts, Served(h, p)
                  PROVE  Served(h, p)'
      OBVIOUS
    <3>1. Ahead(h, p) => Ahead(h, p)'
      BY <1>1, <1>3, <1>5 DEF Ahead, IsBuilding
    <3>. QED
      BY <1>1, <1>3, <3>1 DEF Served
  <2>4. CandidatesAreKept' /\ SyncIsKept' /\ PostsAreServed'
    BY <1>1, <2>1, <2>3, MaintenanceStays
  <2>. QED
    BY <1>4, <2>1, <2>2, <2>4 DEF IndexIsKept
<1>6. CASE ~UNCHANGED generation
  <2>. DEFINE unused == {g \in Generations : generation[g] = NoGeneration}
              new == [status |-> "BUILDING", version |-> 1, cursor |-> 0, claimed |-> FALSE]
  <2>1. unused # {} /\ generation' = [generation EXCEPT ![Min(unused)] = new]
        /\ \A g \in Generations : ~IsBuilding(g)
    BY <1>6 DEF EnsureBuilding
  <2>2. unused \in SUBSET Nat /\ IsFiniteSet(unused) /\ 0 \notin Generations
    BY FS_Subset DEF HotIndexAssumption
  <2>3. Min(unused) \in unused
    <3>. HIDE DEF unused
    <3>. QED
      BY <2>1, <2>2, Extremes
  <2>. PICK g \in Generations : g = Min(unused)
    BY <2>3
  <2>4. generation[g].status = "none"
    BY <2>3 DEF NoGeneration
  <2>5. DOMAIN generation = Generations
    BY DEF IndexIsKept, GenerationsAreKept
  <2>6. generation'[g] = new /\ DOMAIN generation' = Generations
        /\ \A h \in Generations \ {g} : generation'[h] = generation[h]
    <3>. HIDE DEF unused, new
    <3>. QED
      BY <2>1, <2>5
  <2>7. DOMAIN new = {"status", "version", "cursor", "claimed"} /\ new.status = "BUILDING"
        /\ new.cursor = 0
    OBVIOUS
  <2>. HIDE DEF unused, new
  <2>8. g # redis.active /\ g # redis.building /\ g \notin redis.marked
    BY <2>4 DEF IndexIsKept, GenerationsAreKept, IsServing
  <2>9. redis.index[g] = <<>> /\ (syncing.at = "apply" => g \notin syncing.left)
    BY <2>4 DEF IndexIsKept, NewIsEmpty
  <2>10. \A h \in Generations : (IsBuilding(h)' <=> h = g)
                                /\ (h # g => (IsServing(h)' <=> IsServing(h)))
    BY <2>1, <2>2, <2>6, <2>7 DEF IsBuilding, IsServing
  <2>11. \A h \in Generations : (Written(h)' <=> Written(h)) /\ ~Written(g)
    BY <1>1, <2>1, <2>8, <2>10 DEF Written
  <2>12. GenerationsAreKept'
    BY <1>1, <2>2, <2>6, <2>7, <2>8, <2>10, <2>11 DEF IndexIsKept, GenerationsAreKept
  <2>13. NewIsEmpty'
    BY <1>1, <1>3, <2>6, <2>7, <2>9, <2>10, <2>11 DEF IndexIsKept, NewIsEmpty
  <2>14. \A h \in Generations : \A p \in HotPosts : Written(h)' /\ Served(h, p) => Served(h, p)'
    <3>. SUFFICES ASSUME NEW h \in Generations, NEW p \in HotPosts, Served(h, p)
                  PROVE  Served(h, p)'
      OBVIOUS
    <3>1. ~Ahead(h, p)
      BY <2>1 DEF Ahead
    <3>. QED
      BY <1>1, <1>3, <3>1 DEF Served
  <2>15. CandidatesAreKept' /\ SyncIsKept' /\ PostsAreServed'
    BY <1>1, <2>11, <2>14, MaintenanceStays
  <2>. QED
    BY <1>4, <2>12, <2>13, <2>15 DEF IndexIsKept
<1>. QED
  BY <1>5, <1>6

LEMMA FiniteParts ==
  ASSUME HotIndexAssumption
  PROVE  IsFiniteSet(HotPosts) /\ IsFiniteSet(Generations)
BY FS_Subset DEF HotIndexAssumption

LEMMA AnnounceStep ==
  ASSUME HotIndexAssumption, IndexIsKept, Announce
  PROVE  IndexIsKept'
<1>1. building.at = "announce" /\ building' = NoIndexJob
      /\ UNCHANGED <<candidate, syncing, generation>>
  BY DEF Announce, MaintenanceKeeps
<1>2. PICK g \in Generations : IsBuilding(g)
                               /\ redis' = [redis EXCEPT !.building = g, !.marked = @ \cup {g}]
  BY DEF Announce
<1>3. /\ DOMAIN redis = {"active", "building", "ready", "marked", "index"}
      /\ redis.active \in Generations \cup {0} /\ 0 \notin Generations
      /\ \A h \in Generations : IsBuilding(h) => h = g
  BY <1>2 DEF IndexIsKept, GenerationsAreKept, HotIndexAssumption
<1>4. /\ DOMAIN redis' = {"active", "building", "ready", "marked", "index"}
      /\ redis'.active = redis.active /\ redis'.building = g /\ redis'.ready = redis.ready
      /\ redis'.marked = redis.marked \cup {g} /\ redis'.index = redis.index
  BY <1>2, <1>3
<1>5. \A h : (IsBuilding(h)' <=> IsBuilding(h)) /\ (IsServing(h)' <=> IsServing(h))
  BY <1>1 DEF IsBuilding, IsServing
<1>6. \A h \in Generations : /\ Written(h) => Written(h)'
                             /\ Written(h)' => Written(h) \/ IsBuilding(h)
  BY <1>2, <1>3, <1>4, <1>5 DEF Written
<1>7. GenerationsAreKept'
  <2>1. generation[g].status # "none" /\ Written(g)'
    BY <1>2, <1>4, <1>5 DEF IsBuilding, Written
  <2>. QED
    BY <1>1, <1>4, <1>5, <1>6, <2>1 DEF IndexIsKept, GenerationsAreKept
<1>8. RebuildIsKept' /\ EntriesAgree' /\ \A h : ~Rebuilding(h)'
  BY <1>1, <1>4, NoRebuild, EntriesStand DEF IndexIsKept
<1>9. NewIsEmpty'
  BY <1>1, <1>4, <1>5, <1>6, <1>8 DEF IndexIsKept, NewIsEmpty
<1>10. CandidatesAreKept' /\ SyncIsKept' /\ PostsAreServed'
  <2>1. \A h \in Generations : \A p \in HotPosts : Served(h, p) => Served(h, p)'
    BY <1>1, <1>4, WorkerIsGone
  <2>. QED
    BY <1>1, <1>6, <2>1, MaintenanceStays
<1>. QED
  BY <1>7, <1>8, <1>9, <1>10 DEF IndexIsKept

(* What a batch leaves for later comes after it.                           *)
LEMMA BatchFacts ==
  ASSUME HotIndexAssumption, NEW cursor
  PROVE  /\ BatchAfter(cursor) \subseteq Rest(cursor) /\ Rest(cursor) \subseteq HotPosts
         /\ IsFiniteSet(BatchAfter(cursor))
         /\ Cardinality(BatchAfter(cursor)) < RebuildBatch => BatchAfter(cursor) = Rest(cursor)
         /\ \A p \in Rest(cursor) \ BatchAfter(cursor) : \A b \in BatchAfter(cursor) : p > b
<1>. DEFINE S == Rest(cursor)
            B == BatchAfter(cursor)
            below == [p \in S |-> {q \in S : q < p}]
<1>1. S \subseteq HotPosts /\ S \subseteq Nat /\ RebuildBatch \in Nat
  BY DEF Rest, HotIndexAssumption
<1>2. IsFiniteSet(S)
  BY <1>1, FiniteParts, FS_Subset
<1>3. B = {p \in S : Cardinality(below[p]) < RebuildBatch}
  BY DEF BatchAfter
<1>4. B \subseteq S /\ IsFiniteSet(B)
  BY <1>2, <1>3, FS_Subset
<1>. HIDE DEF S, B
<1>5. \A p \in S : below[p] \subseteq S /\ p \notin below[p]
  BY <1>1
<1>6. \A p, q \in S : p # q => p \in below[q] \/ q \in below[p]
  BY <1>1
<1>7. \A p, q \in S : p <= q => below[p] \subseteq below[q]
  <2>. TAKE p, q \in S
  <2>. HAVE p <= q
  <2>1. p \in Nat /\ q \in Nat /\ \A y \in below[p] : y \in S /\ y \in Nat /\ y < p
    BY <1>1
  <2>2. \A y \in below[p] : y < q
    BY <2>1
  <2>. QED
    BY <2>1, <2>2
<1>8. \A p, q \in S : p \in below[q] => below[p] \subseteq below[q]
  <2>. TAKE p, q \in S
  <2>. HAVE p \in below[q]
  <2>1. p <= q
    BY <1>1
  <2>. QED
    BY <1>7, <2>1
<1>. HIDE DEF below
<1>9. Cardinality(B) < RebuildBatch => B = S
  <2>1. LET T == {p \in S : Cardinality(below[p]) < RebuildBatch}
        IN  T = S \/ Cardinality(T) = RebuildBatch
    BY <1>1, <1>2, <1>5, <1>6, <1>8, FirstElements
  <2>2. B = S \/ Cardinality(B) = RebuildBatch
    BY <1>3, <2>1
  <2>. QED
    BY <1>1, <2>2
<1>10. ASSUME NEW p \in S \ B, NEW b \in B PROVE p > b
  <2>1. b \in S /\ p \in Nat /\ b \in Nat
    BY <1>1, <1>4
  <2>2. Cardinality(below[b]) < RebuildBatch /\ ~(Cardinality(below[p]) < RebuildBatch)
    BY <1>3, <1>10
  <2>3. IsFiniteSet(below[b]) /\ IsFiniteSet(below[p])
    BY <1>2, <1>5, <2>1, FS_Subset
  <2>4. ASSUME p <= b PROVE FALSE
    <3>1. below[p] \subseteq below[b]
      BY <1>7, <1>10, <2>1, <2>4
    <3>2. Cardinality(below[p]) <= Cardinality(below[b])
      BY <2>3, <3>1, FS_Subset
    <3>3. Cardinality(below[p]) \in Nat /\ Cardinality(below[b]) \in Nat
      BY <2>3, FS_CardinalityType
    <3>. QED
      BY <1>1, <2>2, <3>2, <3>3
  <2>. QED
    BY <2>1, <2>4
<1>. QED
  BY <1>1, <1>4, <1>9, <1>10 DEF S, B

LEMMA ReadBatchStep ==
  ASSUME HotIndexAssumption, IndexIsKept, ReadBatch
  PROVE  IndexIsKept'
<1>. DEFINE g == building.id[2]
            cursor == generation[g].cursor
            B == BatchAfter(cursor)
<1>1. building.at = "claimed" /\ UNCHANGED <<candidate, syncing, generation, redis>>
      /\ building' = [at |-> "batch", id |-> building.id, batch |-> [p \in B |-> candidate[p]]]
  BY DEF ReadBatch, MaintenanceKeeps
<1>2. building'.at = "batch" /\ building'.id = building.id /\ building' # NoIndexJob
      /\ building'.batch = [p \in B |-> candidate[p]]
  BY <1>1 DEF NoIndexJob
<1>3. IsBuilding(g) /\ g \in Generations /\ Written(g) /\ cursor \in Nat
  BY <1>1 DEF IndexIsKept, RebuildIsKept, GenerationsAreKept, IsBuilding
<1>4. /\ B \subseteq Rest(cursor) /\ Rest(cursor) \subseteq HotPosts /\ IsFiniteSet(B)
      /\ Cardinality(B) < RebuildBatch => B = Rest(cursor)
      /\ \A p \in Rest(cursor) \ B : \A b \in B : p > b
  BY BatchFacts
<1>5. GenerationsAreKept' /\ (\A h : Written(h)' <=> Written(h)) /\ EntriesAgree'
  BY <1>1, GenerationsStand, EntriesStand DEF IndexIsKept
<1>. HIDE DEF B
<1>6. DOMAIN building'.batch = B /\ \A p \in B : building'.batch[p] = candidate[p]
  BY <1>2
<1>7. \A h : (Rebuilding(h)' <=> Rebuilding(h)) /\ (Rebuilding(h) <=> h = g)
             /\ (IsBuilding(h)' <=> IsBuilding(h))
             /\ \A p : ~InBatch(h, p) /\ (InBatch(h, p)' <=> h = g /\ p \in B)
  BY <1>1, <1>2, <1>6 DEF Rebuilding, InBatch, IsBuilding
<1>8. RebuildIsKept'
  <2>1. \A p \in B : /\ CopyAgrees(candidate[p], candidate[p]) /\ candidate[p].version > 0
                     /\ p > cursor
    BY <1>4, CopyTaken DEF IndexIsKept, CandidatesAreKept, CandidateOK, Rest
  <2>. QED
    BY <1>1, <1>2, <1>3, <1>4, <1>5, <1>6, <1>7, <2>1 DEF RebuildIsKept
<1>9. NewIsEmpty'
  BY <1>1, <1>5, <1>7 DEF IndexIsKept, NewIsEmpty
<1>10. \A h \in Generations : \A p \in HotPosts : Served(h, p) => Served(h, p)'
  <2>. SUFFICES ASSUME NEW h \in Generations, NEW p \in HotPosts, Served(h, p)
                PROVE  Served(h, p)'
    OBVIOUS
  <2>1. CASE p \in DOMAIN redis.index[h]
    BY <1>1, <2>1 DEF Served
  <2>2. CASE p \notin DOMAIN redis.index[h] /\ h # g
    <3>1. Ahead(h, p) => Ahead(h, p)'
      BY <1>1, <1>7, <2>2 DEF Ahead
    <3>. QED
      BY <1>1, <1>7, <2>2, <3>1 DEF Served
  <2>3. CASE p \notin DOMAIN redis.index[h] /\ h = g
    <3>1. InBatch(h, p)' => building'.batch[p].version = candidate[p].version
      BY <1>6, <1>7
    <3>2. Ahead(h, p) \/ ~candidate[p].eligible \/ ~candidate[p].shown \/ candidate[p].wavered
      BY <1>7, <2>3 DEF Served
    <3>3. CASE Ahead(h, p)
      <4>1. h # redis.active /\ p > cursor
        BY <1>1, <1>7, <2>3, <3>3 DEF Ahead
      <4>2. CASE p \in B
        BY <1>1, <1>7, <2>3, <3>1, <4>1, <4>2 DEF Served
      <4>3. CASE p \notin Rest(cursor)
        <5>1. ~candidate[p].eligible \/ ~candidate[p].shown
          BY <4>1, <4>3 DEF Rest
        <5>. QED
          BY <1>1, <2>3, <3>1, <5>1 DEF Served
      <4>4. CASE p \in Rest(cursor) \ B
        <5>1. ~(Cardinality(B) < RebuildBatch)
          BY <1>4, <4>4
        <5>2. Cardinality(B) \in Nat /\ RebuildBatch \in Nat \ {0}
          BY <1>4, FS_CardinalityType DEF HotIndexAssumption
        <5>3. B # {} /\ B \in SUBSET Nat
          BY <1>4, <5>1, <5>2, FS_EmptySet DEF HotIndexAssumption
        <5>4. p > Max(B)
          BY <1>4, <4>4, <5>3, Extremes
        <5>5. Ahead(h, p)'
          BY <1>1, <1>2, <1>3, <1>6, <1>7, <2>3, <4>1, <5>1, <5>2, <5>4 DEF Ahead
        <5>. QED
          BY <1>1, <2>3, <3>1, <5>5 DEF Served
      <4>. QED
        BY <4>2, <4>3, <4>4
    <3>4. CASE ~candidate[p].eligible \/ ~candidate[p].shown \/ candidate[p].wavered
      BY <1>1, <2>3, <3>1, <3>4 DEF Served
    <3>. QED
      BY <3>2, <3>3, <3>4
  <2>. QED
    BY <2>1, <2>2, <2>3
<1>11. CandidatesAreKept' /\ SyncIsKept' /\ PostsAreServed'
  BY <1>1, <1>5, <1>10, MaintenanceStays
<1>. QED
  BY <1>5, <1>8, <1>9, <1>11 DEF IndexIsKept

LEMMA BatchIsEntered ==
  ASSUME HotIndexAssumption, IndexIsKept, ApplyBatch, NEW g, g = building.id[2],
         NEW B, B = DOMAIN building.batch
  PROVE  /\ DOMAIN redis' = {"active", "building", "ready", "marked", "index"}
         /\ redis'.active = redis.active /\ redis'.building = redis.building
         /\ redis'.ready = redis.ready /\ redis'.marked = redis.marked
         /\ DOMAIN redis'.index = Generations
         /\ \A h \in Generations \ {g} : redis'.index[h] = redis.index[h]
         /\ DOMAIN redis'.index[g] = DOMAIN redis.index[g] \cup B
         /\ \A p \in DOMAIN redis.index[g] \ B : redis'.index[g][p] = redis.index[g][p]
         /\ \A p \in B : /\ EntryAgrees(redis'.index[g][p], candidate[p])
                         /\ building.batch[p].version = candidate[p].version
                            \/ (p \in DOMAIN redis.index[g]
                                  /\ redis.index[g][p].version = candidate[p].version)
                            => redis'.index[g][p].version = candidate[p].version
<1>. DEFINE index == redis.index[g]
            n == [p \in DOMAIN index \cup B |->
                    IF p \in B THEN Entered(index, p, building.batch[p])[p] ELSE index[p]]
<1>1. building.at = "batch" /\ g \in Generations
      /\ redis' = [redis EXCEPT !.index[g] = n]
  BY DEF ApplyBatch, IndexIsKept, RebuildIsKept
<1>2. DOMAIN redis = {"active", "building", "ready", "marked", "index"}
      /\ DOMAIN redis.index = Generations
  BY DEF IndexIsKept, GenerationsAreKept
<1>3. DOMAIN n = DOMAIN index \cup B /\ (\A p \in DOMAIN index \ B : n[p] = index[p])
      /\ \A p \in B : n[p] = Entered(index, p, building.batch[p])[p]
  OBVIOUS
<1>. HIDE DEF n
<1>4. redis'.index = [redis.index EXCEPT ![g] = n]
  BY <1>1, <1>2
<1>5. redis'.index[g] = n /\ DOMAIN redis'.index = Generations
      /\ \A h \in Generations \ {g} : redis'.index[h] = redis.index[h]
  BY <1>1, <1>2, <1>4
<1>6. ASSUME NEW p \in B
      PROVE  /\ EntryAgrees(n[p], candidate[p])
             /\ building.batch[p].version = candidate[p].version
                \/ (p \in DOMAIN index /\ index[p].version = candidate[p].version)
                => n[p].version = candidate[p].version
  <2>. DEFINE c == candidate[p]
              s == building.batch[p]
  <2>1. p \in HotPosts /\ CopyAgrees(s, c) /\ s.version > 0
    BY <1>1, <1>6 DEF IndexIsKept, RebuildIsKept
  <2>2. CandidateOK(c) /\ (p \in DOMAIN index => EntryAgrees(index[p], c))
    BY <1>1, <2>1 DEF IndexIsKept, CandidatesAreKept, EntriesAgree
  <2>. DEFINE e == Entered(index, p, s)
  <2>. HIDE DEF index, c, s
  <2>3. /\ p \in DOMAIN e /\ EntryAgrees(e[p], c)
        /\ s.version = c.version => e[p].version = c.version
        /\ p \in DOMAIN index /\ index[p].version = c.version => e[p].version = c.version
    <3>. HIDE DEF e
    <3>1. e = Entered(index, p, s)
      BY DEF e
    <3>2. s.version > 0 => p \in DOMAIN e
      BY <2>1, <2>2, <3>1, EnteredAgrees
    <3>. QED
      BY <2>1, <2>2, <3>1, <3>2, EnteredAgrees
  <2>4. n[p] = e[p]
    BY <1>3, <1>6 DEF index, s
  <2>. QED
    BY <2>3, <2>4 DEF index, c, s
<1>. QED
  BY <1>1, <1>2, <1>3, <1>5, <1>6

LEMMA ApplyBatchStep ==
  ASSUME HotIndexAssumption, IndexIsKept, ApplyBatch
  PROVE  IndexIsKept'
<1>. DEFINE g == building.id[2]
            B == DOMAIN building.batch
            full == ~(Cardinality(B) < RebuildBatch)
<1>1. building.at = "batch" /\ UNCHANGED <<candidate, syncing, generation>>
      /\ building' = IF full THEN [at |-> "advance", id |-> building.id, last |-> Max(B)]
                     ELSE [at |-> "activate", id |-> building.id]
  BY DEF ApplyBatch, MaintenanceKeeps
<1>2. /\ building' # NoIndexJob /\ building'.id = building.id
      /\ full => building'.at = "advance" /\ building'.last = Max(B)
      /\ ~full => building'.at = "activate"
  BY <1>1 DEF NoIndexJob
<1>3. IsBuilding(g) /\ g \in Generations /\ Written(g) /\ generation[g].cursor \in Nat
  BY <1>1 DEF IndexIsKept, RebuildIsKept, GenerationsAreKept, IsBuilding
<1>4. /\ B \subseteq HotPosts /\ IsFiniteSet(B) /\ B \in SUBSET Nat
      /\ \A p \in B : p > generation[g].cursor
  BY <1>1 DEF IndexIsKept, RebuildIsKept, HotIndexAssumption
<1>5. full => Max(B) \in B
  <2>1. full => B # {}
    BY FS_EmptySet DEF HotIndexAssumption
  <2>. HIDE DEF B
  <2>. QED
    BY <1>4, <2>1, Extremes
<1>6. /\ DOMAIN redis' = {"active", "building", "ready", "marked", "index"}
      /\ redis'.active = redis.active /\ redis'.building = redis.building
      /\ redis'.ready = redis.ready /\ redis'.marked = redis.marked
      /\ DOMAIN redis'.index = Generations
      /\ \A h \in Generations \ {g} : redis'.index[h] = redis.index[h]
      /\ DOMAIN redis'.index[g] = DOMAIN redis.index[g] \cup B
      /\ \A p \in DOMAIN redis.index[g] \ B : redis'.index[g][p] = redis.index[g][p]
      /\ \A p \in B : /\ EntryAgrees(redis'.index[g][p], candidate[p])
                      /\ building.batch[p].version = candidate[p].version
                         \/ (p \in DOMAIN redis.index[g]
                               /\ redis.index[g][p].version = candidate[p].version)
                         => redis'.index[g][p].version = candidate[p].version
  BY BatchIsEntered
<1>7. \A h : (IsBuilding(h)' <=> IsBuilding(h)) /\ (IsServing(h)' <=> IsServing(h))
             /\ (Written(h)' <=> Written(h))
  BY <1>1, <1>6 DEF IsBuilding, IsServing, Written
<1>8. \A h : (Rebuilding(h)' <=> h = g) /\ (Rebuilding(h) <=> h = g)
             /\ \A p : ~InBatch(h, p)' /\ (InBatch(h, p) <=> h = g /\ p \in B)
  BY <1>1, <1>2 DEF Rebuilding, InBatch
<1>9. GenerationsAreKept'
  <2>1. generation[g].status # "none"
    BY <1>3 DEF IsBuilding
  <2>. HIDE DEF g, B
  <2>. QED
    BY <1>1, <1>6, <1>7, <2>1 DEF IndexIsKept, GenerationsAreKept
<1>10. EntriesAgree'
  <2>. HIDE DEF g, B
  <2>. SUFFICES ASSUME NEW h \in Generations, NEW p \in DOMAIN redis'.index[h]
                PROVE  p \in HotPosts /\ EntryAgrees(redis'.index[h][p], candidate'[p])
    BY DEF EntriesAgree
  <2>1. CASE h = g /\ p \in B
    BY <1>1, <1>4, <1>6, <2>1
  <2>2. CASE h # g \/ p \notin B
    BY <1>1, <1>6, <2>2 DEF IndexIsKept, EntriesAgree
  <2>. QED
    BY <2>1, <2>2
<1>11. RebuildIsKept'
  <2>1. full => Max(B) \in Nat /\ Max(B) >= generation[g].cursor
    BY <1>3, <1>4, <1>5
  <2>. QED
    BY <1>1, <1>2, <1>3, <1>7, <2>1 DEF RebuildIsKept
<1>12. NewIsEmpty'
  <2>1. generation[g].status # "none"
    BY <1>3 DEF IsBuilding
  <2>. HIDE DEF g, B
  <2>. QED
    BY <1>1, <1>3, <1>6, <1>7, <1>8, <2>1 DEF IndexIsKept, NewIsEmpty
<1>13. \A h \in Generations : \A p \in HotPosts : Served(h, p) => Served(h, p)'
  <2>. SUFFICES ASSUME NEW h \in Generations, NEW p \in HotPosts, Served(h, p)
                PROVE  Served(h, p)'
    OBVIOUS
  <2>1. Ahead(h, p) => Ahead(h, p)'
    <3>1. CASE h # g
      BY <1>1, <1>6, <1>7, <1>8, <3>1 DEF Ahead
    <3>2. CASE h = g
      <4>1. ASSUME Ahead(h, p)
            PROVE  h # redis.active /\ Cardinality(B) >= RebuildBatch /\ p > Max(B)
        BY <1>1, <1>8, <3>2, <4>1 DEF Ahead
      <4>2. Cardinality(B) \in Nat /\ RebuildBatch \in Nat
        BY <1>4, FS_CardinalityType DEF HotIndexAssumption
      <4>. QED
        BY <1>2, <1>3, <1>6, <1>7, <1>8, <3>2, <4>1, <4>2 DEF Ahead
    <3>. QED
      BY <3>1, <3>2
  <2>. HIDE DEF B
  <2>2. CASE h # g
    BY <1>1, <1>6, <1>8, <2>1, <2>2 DEF Served
  <2>3. CASE h = g /\ p \in B
    BY <1>1, <1>6, <1>8, <2>3 DEF Served
  <2>4. CASE h = g /\ p \notin B /\ p \in DOMAIN redis.index[g]
    BY <1>1, <1>6, <1>8, <2>4 DEF Served
  <2>5. CASE h = g /\ p \notin B /\ p \notin DOMAIN redis.index[g]
    BY <1>1, <1>6, <1>8, <2>1, <2>5 DEF Served
  <2>. QED
    BY <2>2, <2>3, <2>4, <2>5
<1>14. CandidatesAreKept' /\ SyncIsKept' /\ PostsAreServed'
  BY <1>1, <1>7, <1>13, MaintenanceStays
<1>. QED
  BY <1>9, <1>10, <1>11, <1>12, <1>14 DEF IndexIsKept

LEMMA AdvanceStep ==
  ASSUME HotIndexAssumption, IndexIsKept, Advance
  PROVE  IndexIsKept'
<1>. DEFINE g == building.id[2]
            last == building.last
<1>1. building.at = "advance" /\ building' = NoIndexJob
      /\ UNCHANGED <<candidate, syncing, redis>>
  BY DEF Advance, MaintenanceKeeps
<1>2. IsBuilding(g) /\ g \in Generations /\ Written(g) /\ last \in Nat
  BY <1>1 DEF IndexIsKept, RebuildIsKept
<1>3. DOMAIN generation = Generations
      /\ DOMAIN generation[g] = {"status", "version", "cursor", "claimed"}
  BY <1>2 DEF IndexIsKept, GenerationsAreKept, IsBuilding
<1>4. PICK v : generation' = [generation EXCEPT ![g].cursor = last, ![g].claimed = FALSE,
                                                ![g].version = v]
  BY DEF Advance
<1>5. DOMAIN generation' = Generations
      /\ \A h \in Generations \ {g} : generation'[h] = generation[h]
  BY <1>3, <1>4
<1>6. generation'[g] = [generation[g] EXCEPT !.cursor = last, !.claimed = FALSE, !.version = v]
  BY <1>2, <1>3, <1>4
<1>7. DOMAIN generation'[g] = DOMAIN generation[g] /\ generation'[g].status = generation[g].status
      /\ generation'[g].cursor = last
  BY <1>3, <1>6
<1>8. \A h \in Generations : /\ IsBuilding(h)' <=> IsBuilding(h)
                             /\ IsServing(h)' <=> IsServing(h)
                             /\ Written(h)' <=> Written(h)
  <2>1. \A h \in Generations : generation'[h].status = generation[h].status
    BY <1>5, <1>7
  <2>. QED
    BY <1>1, <2>1 DEF IsBuilding, IsServing, Written
<1>. HIDE DEF g, last
<1>9. GenerationsAreKept'
  BY <1>1, <1>2, <1>3, <1>5, <1>7, <1>8 DEF IndexIsKept, GenerationsAreKept
<1>10. RebuildIsKept' /\ EntriesAgree' /\ (\A h : ~Rebuilding(h)' /\ \A p : ~InBatch(h, p)')
  BY <1>1, NoRebuild, EntriesStand DEF IndexIsKept, NoIndexJob, InBatch
<1>11. NewIsEmpty'
  <2>1. generation[g].status # "none"
    BY <1>2 DEF IsBuilding
  <2>. QED
    BY <1>1, <1>2, <1>5, <1>7, <1>8, <1>10, <2>1 DEF IndexIsKept, NewIsEmpty
<1>12. \A h : Rebuilding(h) <=> h = g
  BY <1>1 DEF Rebuilding, g
<1>13. \A h \in Generations : \A p \in HotPosts : Served(h, p) => Served(h, p)'
  <2>. SUFFICES ASSUME NEW h \in Generations, NEW p \in HotPosts, Served(h, p)
                PROVE  Served(h, p)'
    OBVIOUS
  <2>1. ~InBatch(h, p)
    BY <1>1 DEF InBatch
  <2>2. Ahead(h, p) => Ahead(h, p)'
    <3>1. CASE h # g
      BY <1>1, <1>5, <1>8, <1>10, <1>12, <3>1 DEF Ahead
    <3>2. CASE h = g
      <4>1. Ahead(h, p) => h # redis.active /\ p > last
        BY <1>1, <1>12, <3>2 DEF Ahead, last
      <4>. QED
        BY <1>1, <1>2, <1>7, <1>8, <1>10, <3>2, <4>1 DEF Ahead
    <3>. QED
      BY <3>1, <3>2
  <2>. QED
    BY <1>1, <1>10, <2>1, <2>2 DEF Served
<1>14. CandidatesAreKept' /\ SyncIsKept' /\ PostsAreServed'
  BY <1>1, <1>8, <1>13, MaintenanceStays
<1>. QED
  BY <1>9, <1>10, <1>11, <1>14 DEF IndexIsKept

(* The index that is finished has all that it is served: what was still to *)
(* be read has been.                                                       *)
LEMMA ActivateStep ==
  ASSUME HotIndexAssumption, IndexIsKept, Activate
  PROVE  IndexIsKept'
<1>. DEFINE g == building.id[2]
<1>1. /\ building.at = "activate" /\ redis.building = g
      /\ UNCHANGED <<candidate, syncing, generation>>
      /\ redis' = [redis EXCEPT !.ready = @ \cup {g}, !.active = g, !.building = 0,
                                !.marked = @ \ {g}]
      /\ building' = [at |-> "activated", id |-> building.id, previous |-> redis.active]
  BY DEF Activate, MaintenanceKeeps
<1>2. building' # NoIndexJob /\ building'.at = "activated" /\ building'.id = building.id
      /\ building'.previous = redis.active
  BY <1>1 DEF NoIndexJob
<1>3. /\ DOMAIN redis' = {"active", "building", "ready", "marked", "index"}
      /\ redis'.active = g /\ redis'.building = 0 /\ redis'.ready = redis.ready \cup {g}
      /\ redis'.marked = redis.marked \ {g} /\ redis'.index = redis.index
  BY <1>1 DEF IndexIsKept, GenerationsAreKept
<1>4. IsBuilding(g) /\ g \in Generations /\ Written(g) /\ 0 \notin Generations
  BY <1>1 DEF IndexIsKept, RebuildIsKept, HotIndexAssumption
<1>5. \A h : (IsBuilding(h)' <=> IsBuilding(h)) /\ (IsServing(h)' <=> IsServing(h))
  BY <1>1 DEF IsBuilding, IsServing
<1>6. IsServing(g) /\ (redis.active # 0 => IsServing(redis.active))
      /\ redis.active \in Generations \cup {0}
      /\ \A h \in Generations : IsBuilding(h) => h = g
  BY <1>4 DEF IndexIsKept, GenerationsAreKept, IsBuilding, IsServing
<1>. HIDE DEF g
<1>7. \A h \in Generations : Written(h)' <=> h = g
  BY <1>3, <1>4 DEF Written
<1>8. GenerationsAreKept'
  BY <1>1, <1>3, <1>4, <1>5, <1>6, <1>7 DEF IndexIsKept, GenerationsAreKept
<1>9. RebuildIsKept'
  BY <1>2, <1>3, <1>4, <1>5, <1>6, <1>7 DEF RebuildIsKept, g
<1>10. EntriesAgree'
  BY <1>1, <1>3, EntriesStand DEF IndexIsKept
<1>11. NewIsEmpty'
  <2>1. \A h : Rebuilding(h)' <=> Rebuilding(h)
    BY <1>1, <1>2 DEF Rebuilding
  <2>. QED
    BY <1>1, <1>3, <1>5, <1>6, <1>7, <2>1 DEF IndexIsKept, NewIsEmpty
<1>12. \A h \in Generations : \A p \in HotPosts : Written(h)' /\ Served(h, p) => Served(h, p)'
  <2>. SUFFICES ASSUME NEW h \in Generations, h = g, NEW p \in HotPosts, Served(h, p)
                PROVE  Served(h, p)'
    BY <1>7
  <2>1. Rebuilding(h) /\ ~InBatch(h, p) /\ ~InBatch(h, p)'
    BY <1>1, <1>2 DEF Rebuilding, InBatch, g
  <2>2. ~Ahead(h, p)
    BY <1>1, <2>1 DEF Ahead
  <2>. QED
    BY <1>1, <1>3, <2>1, <2>2 DEF Served
<1>13. CandidatesAreKept' /\ SyncIsKept' /\ PostsAreServed'
  BY <1>1, <1>4, <1>7, <1>12, MaintenanceStays
<1>. QED
  BY <1>8, <1>9, <1>10, <1>11, <1>13 DEF IndexIsKept

(* The last steps only concern generations that nobody writes to, and the  *)
(* active one, which nobody is going to read for any more.                 *)
LEMMA FinalizeStep ==
  ASSUME HotIndexAssumption, IndexIsKept, Finalize
  PROVE  IndexIsKept'
<1>. PICK g : g = building.id[2]
  OBVIOUS
<1>. DEFINE old == {building.previous} \ {0, g}
            ended == [generation[g] EXCEPT !.status = "ACTIVE", !.claimed = FALSE,
                                           !.version = @ + 1]
            retired == [h \in Generations |-> [generation[h] EXCEPT !.status = "SUPERSEDED",
                                                                    !.claimed = FALSE]]
<1>1. /\ building.at = "activated" /\ building' = NoIndexJob
      /\ UNCHANGED <<candidate, syncing>> /\ redis' = Retired(redis, old)
      /\ generation' = [h \in Generations |-> IF h = g THEN ended
                                              ELSE IF h \in old THEN retired[h]
                                              ELSE generation[h]]
  BY DEF Finalize, MaintenanceKeeps
<1>2. /\ IsBuilding(g) /\ g \in Generations /\ g = redis.active /\ 0 \notin Generations
      /\ old \subseteq Generations /\ \A h \in old : IsServing(h) /\ h # g
      /\ g \in redis.ready /\ g # 0
  BY <1>1 DEF IndexIsKept, RebuildIsKept, GenerationsAreKept, HotIndexAssumption, IsBuilding
<1>3. /\ DOMAIN generation = Generations
      /\ \A h \in Generations : "status" \in DOMAIN generation[h]
      /\ \A h \in Generations : IsBuilding(h) => h = g
  BY <1>2 DEF IndexIsKept, GenerationsAreKept
<1>4. "status" \in DOMAIN ended /\ ended.status = "ACTIVE"
      /\ \A h \in Generations : "status" \in DOMAIN retired[h] /\ retired[h].status = "SUPERSEDED"
  BY <1>2, <1>3
<1>. HIDE DEF ended, retired
<1>5. /\ DOMAIN generation' = Generations /\ generation'[g].status = "ACTIVE"
      /\ \A h \in Generations : "status" \in DOMAIN generation'[h]
      /\ \A h \in old : generation'[h].status = "SUPERSEDED"
      /\ \A h \in Generations \ ({g} \cup old) : generation'[h] = generation[h]
  BY <1>1, <1>2, <1>3, <1>4
<1>6. DOMAIN redis = {"active", "building", "ready", "marked", "index"}
  BY DEF IndexIsKept, GenerationsAreKept
<1>7. /\ DOMAIN redis' = {"active", "building", "ready", "marked", "index"}
      /\ redis'.active = redis.active /\ redis'.building \in {redis.building, 0}
      /\ redis'.ready = redis.ready \ old /\ redis'.marked = redis.marked \ old
      /\ redis'.index = redis.index
  <2>. HIDE DEF old
  <2>. QED
    BY <1>1, <1>6 DEF Retired
<1>8. IsServing(g)' /\ \A h \in Generations : ~IsBuilding(h)' /\ (Written(h)' <=> h = g)
  <2>1. \A h \in Generations : ~IsBuilding(h)'
    BY <1>2, <1>3, <1>5 DEF IsBuilding
  <2>. QED
    BY <1>2, <1>5, <1>7, <2>1 DEF IsServing, Written
<1>9. \A h \in Generations : generation'[h].status = "none" => generation[h].status = "none"
  BY <1>2, <1>5
<1>10. \A h \in Generations : generation'[h].status
                              \in {"none", "ACTIVE", "SUPERSEDED", "deleted"}
  <2>1. \A h \in Generations \ ({g} \cup old) : ~IsBuilding(h) /\ h # 0
    BY <1>2, <1>3
  <2>. QED
    BY <1>2, <1>5, <2>1 DEF IndexIsKept, GenerationsAreKept, IsBuilding
<1>11. \A h \in Generations : generation[h].status # "none" => generation'[h].status # "none"
  BY <1>5
<1>12. GenerationsAreKept'
  <2>1. IsServing(redis.active)' /\ redis'.active \in redis'.ready
    BY <1>2, <1>5, <1>7 DEF IsServing
  <2>2. redis'.building # 0 => generation'[redis'.building].status # "none"
    BY <1>7, <1>11 DEF IndexIsKept, GenerationsAreKept
  <2>. QED
    BY <1>5, <1>7, <1>8, <1>9, <1>10, <1>11, <2>1, <2>2 DEF IndexIsKept, GenerationsAreKept
<1>13. RebuildIsKept' /\ EntriesAgree' /\ (\A h : ~Rebuilding(h)' /\ \A p : ~InBatch(h, p)')
  BY <1>1, <1>7, NoRebuild, EntriesStand DEF IndexIsKept, NoIndexJob, InBatch
<1>14. NewIsEmpty'
  BY <1>1, <1>7, <1>8, <1>9, <1>13 DEF IndexIsKept, NewIsEmpty
<1>15. \A h \in Generations : \A p \in HotPosts : Written(h)' /\ Served(h, p) => Served(h, p)'
  <2>. SUFFICES ASSUME NEW h \in Generations, h = g, NEW p \in HotPosts, Served(h, p)
                PROVE  Served(h, p)'
    BY <1>8
  <2>1. ~InBatch(h, p) /\ ~Ahead(h, p)
    BY <1>1, <1>2 DEF InBatch, Ahead
  <2>. QED
    BY <1>1, <1>2, <1>7, <1>13, <2>1 DEF Served
<1>16. CandidatesAreKept' /\ SyncIsKept' /\ PostsAreServed'
  <2>1. \A h \in Generations : Written(h)' => Written(h)
    BY <1>2, <1>8 DEF Written
  <2>. QED
    BY <1>1, <1>15, <2>1, MaintenanceStays
<1>. QED
  BY <1>12, <1>13, <1>14, <1>16 DEF IndexIsKept

LEMMA CleanupStep ==
  ASSUME HotIndexAssumption, IndexIsKept, Cleanup
  PROVE  IndexIsKept'
<1>1. building = NoIndexJob /\ UNCHANGED <<candidate, syncing, building>>
  BY DEF Cleanup, MaintenanceKeeps
<1>2. CASE UNCHANGED <<redis, generation>>
  BY <1>1, <1>2, JobsAlone
<1>. SUFFICES ASSUME NEW g, generation[g].status = "SUPERSEDED",
                     redis' = [redis EXCEPT !.index[g] = <<>>],
                     generation' = [generation EXCEPT ![g] = [status |-> "deleted"]]
              PROVE  IndexIsKept'
  BY <1>2 DEF Cleanup
<1>3. /\ DOMAIN redis = {"active", "building", "ready", "marked", "index"}
      /\ DOMAIN redis.index = Generations /\ DOMAIN generation = Generations
  BY DEF IndexIsKept, GenerationsAreKept
<1>4. /\ DOMAIN redis' = {"active", "building", "ready", "marked", "index"}
      /\ redis'.active = redis.active /\ redis'.building = redis.building
      /\ redis'.ready = redis.ready /\ redis'.marked = redis.marked
      /\ redis'.index = [redis.index EXCEPT ![g] = <<>>]
  BY <1>3
<1>5. /\ DOMAIN redis'.index = Generations /\ DOMAIN generation' = Generations
      /\ \A h \in Generations \ {g} : /\ redis'.index[h] = redis.index[h]
                                      /\ generation'[h] = generation[h]
      /\ g \in Generations => redis'.index[g] = <<>> /\ generation'[g] = [status |-> "deleted"]
  BY <1>3, <1>4
<1>6. \A h \in Generations : /\ IsBuilding(h)' <=> IsBuilding(h)
                             /\ IsServing(h)' <=> IsServing(h)
                             /\ Written(h)' <=> Written(h)
                             /\ "status" \in DOMAIN generation'[h]
                             /\ generation'[h].status = generation[h].status
                                \/ (h = g /\ generation'[h].status = "deleted")
  <2>1. \A h \in Generations :
          /\ "status" \in DOMAIN generation'[h]
          /\ generation'[h].status = generation[h].status
             \/ (h = g /\ generation'[h].status = "deleted")
    BY <1>5 DEF IndexIsKept, GenerationsAreKept
  <2>2. \A h \in Generations : /\ IsBuilding(h)' <=> IsBuilding(h)
                               /\ IsServing(h)' <=> IsServing(h)
    BY <1>5, <2>1 DEF IsBuilding, IsServing
  <2>. QED
    BY <1>4, <2>1, <2>2 DEF Written
<1>7. g \in Generations => ~Written(g) /\ ~IsBuilding(g)
  BY DEF IndexIsKept, GenerationsAreKept, Written, IsBuilding, IsServing
<1>8. GenerationsAreKept'
  BY <1>4, <1>5, <1>6, <1>7 DEF IndexIsKept, GenerationsAreKept
<1>9. EntriesAgree'
  <2>. SUFFICES ASSUME NEW h \in Generations, NEW p \in DOMAIN redis'.index[h]
                PROVE  p \in HotPosts /\ EntryAgrees(redis'.index[h][p], candidate'[p])
    BY DEF EntriesAgree
  <2>1. h # g
    BY <1>5
  <2>. QED
    BY <1>1, <1>5, <2>1 DEF IndexIsKept, EntriesAgree
<1>10. RebuildIsKept' /\ \A h : ~Rebuilding(h)' /\ \A p : ~InBatch(h, p)' /\ ~InBatch(h, p)
  BY <1>1, NoRebuild DEF NoIndexJob, InBatch
<1>11. NewIsEmpty'
  BY <1>1, <1>4, <1>5, <1>6, <1>7, <1>10 DEF IndexIsKept, NewIsEmpty
<1>12. \A h \in Generations : \A p \in HotPosts : Written(h)' /\ Served(h, p) => Served(h, p)'
  <2>. SUFFICES ASSUME NEW h \in Generations, Written(h)', NEW p \in HotPosts, Served(h, p)
                PROVE  Served(h, p)'
    OBVIOUS
  <2>1. h # g
    BY <1>6, <1>7
  <2>2. redis'.index[h] = redis.index[h] /\ generation'[h] = generation[h]
    BY <1>5, <2>1
  <2>3. Ahead(h, p) => Ahead(h, p)'
    BY <1>1, <1>4, <1>6, <2>2 DEF Ahead, Rebuilding
  <2>. QED
    BY <1>1, <1>4, <1>10, <2>2, <2>3 DEF Served
<1>13. CandidatesAreKept' /\ SyncIsKept' /\ PostsAreServed'
  BY <1>1, <1>6, <1>12, MaintenanceStays
<1>. QED
  BY <1>8, <1>9, <1>10, <1>11, <1>13 DEF IndexIsKept

LEMMA RedisLostStep ==
  ASSUME HotIndexAssumption, IndexIsKept, RedisLost
  PROVE  IndexIsKept'
<1>1. /\ building' = NoIndexJob /\ syncing' = NoIndexJob /\ redis' = EmptyRedis
      /\ UNCHANGED <<candidate, generation>> /\ \A g \in Generations : ~IsBuilding(g)
  BY DEF RedisLost
<1>2. /\ DOMAIN redis' = {"active", "building", "ready", "marked", "index"}
      /\ redis'.active = 0 /\ redis'.building = 0 /\ redis'.ready = {} /\ redis'.marked = {}
      /\ redis'.index = [g \in Generations |-> <<>>] /\ 0 \notin Generations
  BY <1>1 DEF EmptyRedis, HotIndexAssumption
<1>3. DOMAIN redis'.index = Generations /\ \A g \in Generations : redis'.index[g] = <<>>
  BY <1>2
<1>4. syncing'.at = "idle"
  BY <1>1 DEF NoIndexJob
<1>5. \A g \in Generations : ~IsBuilding(g)' /\ ~Written(g)' /\ ~Rebuilding(g)'
  BY <1>1, <1>2, NoRebuild DEF IsBuilding, Written
<1>6. GenerationsAreKept'
  BY <1>1, <1>2, <1>3, <1>5 DEF IndexIsKept, GenerationsAreKept
<1>7. EntriesAgree'
  BY <1>3 DEF EntriesAgree
<1>8. NewIsEmpty'
  BY <1>3, <1>4, <1>5 DEF NewIsEmpty
<1>9. RebuildIsKept' /\ CandidatesAreKept'
  BY <1>1, NoRebuild DEF IndexIsKept, CandidatesAreKept
<1>10. SyncIsKept' /\ PostsAreServed'
  BY <1>1, <1>4, <1>5 DEF SyncIsKept, PostsAreServed
<1>. QED
  BY <1>6, <1>7, <1>8, <1>9, <1>10 DEF IndexIsKept

(* What ensureCandidateGeneration leaves as it is: the pointer that readers *)
(* follow, with its marker, and the generation that is being built.        *)
LEMMA EnsureReadyMoves ==
  ASSUME HotIndexAssumption, IndexIsKept, EnsureReady
  PROVE  /\ DOMAIN redis' = {"active", "building", "ready", "marked", "index"}
         /\ redis'.active = redis.active /\ redis'.index = redis.index
         /\ redis'.building \in {redis.building, 0}
         /\ redis'.ready \subseteq redis.ready /\ redis'.marked \subseteq redis.marked
         /\ redis.active # 0 => redis.active \in redis'.ready
         /\ \A g \in Generations : redis.building = g /\ IsBuilding(g) => redis'.building = g
         /\ DOMAIN generation' = Generations
         /\ \A g \in Generations : "status" \in DOMAIN generation'[g]
         /\ \A g \in Generations : IsBuilding(g) /\ g # redis.active =>
                                     generation'[g] = generation[g]
         /\ \A g \in Generations : g = redis.active => generation'[g].status = "ACTIVE"
         /\ \A g \in Generations : ~IsBuilding(g) /\ g # redis.active =>
              \/ generation'[g] = generation[g]
              \/ generation[g].status # "none" /\ generation'[g].status = "SUPERSEDED"
<1>. PICK superseded : superseded = {g \in Generations : generation[g].status = "SUPERSEDED"}
  OBVIOUS
<1>. DEFINE after == Retired(redis, superseded)
            serves == IsServing(redis.active)
<1>. PICK obsolete : obsolete = IF serves THEN Obsolete(redis.active) ELSE {}
  OBVIOUS
<1>. DEFINE cleared == IF serves THEN after
                       ELSE [after EXCEPT !.active = 0, !.ready = @ \ {after.active}]
            retired(g) == [generation[g] EXCEPT !.status = "SUPERSEDED", !.claimed = FALSE]
            active(g) == [generation[g] EXCEPT !.status = "ACTIVE", !.claimed = FALSE]
<1>1. /\ DOMAIN redis = {"active", "building", "ready", "marked", "index"}
      /\ redis.active \in Generations \cup {0} /\ 0 \notin Generations
      /\ redis.active # 0 => serves /\ redis.active \in redis.ready
      /\ redis.ready \subseteq Generations
      /\ DOMAIN generation = Generations
      /\ \A g \in Generations : "status" \in DOMAIN generation[g]
  BY DEF IndexIsKept, GenerationsAreKept, HotIndexAssumption
<1>2. /\ DOMAIN after = {"active", "building", "ready", "marked", "index"}
      /\ after.active = redis.active /\ after.index = redis.index
      /\ after.ready = redis.ready \ superseded /\ after.marked = redis.marked \ superseded
      /\ after.building = IF redis.building \in superseded THEN 0 ELSE redis.building
  BY <1>1 DEF Retired
<1>3. /\ redis' = Retired(cleared, obsolete)
      /\ generation' = [g \in Generations |->
              IF g \in obsolete THEN retired(g)
              ELSE IF serves /\ g = redis.active /\ IsBuilding(g) THEN active(g)
              ELSE generation[g]]
  <2>. HIDE DEF retired, active
  <2>1. /\ redis' = Retired(cleared, IF IsServing(after.active) THEN Obsolete(after.active) ELSE {})
        /\ generation' = [g \in Generations |->
              IF g \in IF IsServing(after.active) THEN Obsolete(after.active) ELSE {}
              THEN retired(g)
              ELSE IF IsServing(after.active) /\ g = after.active /\ IsBuilding(g) THEN active(g)
              ELSE generation[g]]
    BY <1>2 DEF EnsureReady, retired, active
  <2>. HIDE DEF after, cleared
  <2>. QED
    BY <1>2, <2>1
<1>. HIDE DEF after
<1>4. /\ DOMAIN cleared = {"active", "building", "ready", "marked", "index"}
      /\ cleared.active = redis.active /\ cleared.index = redis.index
      /\ cleared.ready = redis.ready \ superseded /\ cleared.marked = redis.marked \ superseded
      /\ cleared.building = after.building
  <2>1. CASE serves
    BY <1>2, <2>1
  <2>2. CASE ~serves
    <3>1. redis.active = 0 /\ 0 \notin redis.ready
      BY <1>1, <2>2
    <3>. DEFINE c == [after EXCEPT !.active = 0, !.ready = @ \ {after.active}]
    <3>2. DOMAIN c = DOMAIN after /\ c.active = 0 /\ c.index = after.index
          /\ c.ready = after.ready \ {after.active} /\ c.marked = after.marked
          /\ c.building = after.building
      BY <1>2
    <3>. QED
      BY <1>2, <2>2, <3>1, <3>2
  <2>. QED
    BY <2>1, <2>2
<1>. HIDE DEF cleared
<1>5. /\ DOMAIN redis' = {"active", "building", "ready", "marked", "index"}
      /\ redis'.active = redis.active /\ redis'.index = redis.index
      /\ redis'.ready = redis.ready \ (superseded \cup obsolete)
      /\ redis'.marked = redis.marked \ (superseded \cup obsolete)
      /\ redis'.building = IF redis.building \in superseded \cup obsolete THEN 0
                           ELSE redis.building
  <2>1. /\ DOMAIN redis' = DOMAIN cleared /\ redis'.active = cleared.active
        /\ redis'.index = cleared.index /\ redis'.ready = cleared.ready \ obsolete
        /\ redis'.marked = cleared.marked \ obsolete
        /\ redis'.building = IF cleared.building \in obsolete THEN 0 ELSE cleared.building
    BY <1>3, <1>4 DEF Retired
  <2>2. redis'.building = IF redis.building \in superseded \cup obsolete THEN 0
                          ELSE redis.building
    BY <1>2, <1>4, <2>1
  <2>. QED
    BY <1>4, <2>1, <2>2
<1>6. /\ obsolete \subseteq Generations \ {redis.active}
      /\ \A g \in obsolete : generation[g].status = "ACTIVE"
      /\ \A g \in superseded : g \in Generations /\ generation[g].status = "SUPERSEDED"
  BY DEF Obsolete
<1>7. redis.active \notin superseded \cup obsolete
  BY <1>1, <1>6 DEF IsServing
<1>8. \A g \in Generations : IsBuilding(g) => g \notin superseded \cup obsolete
  BY <1>6 DEF IsBuilding
<1>9. \A g \in Generations : /\ "status" \in DOMAIN retired(g) /\ retired(g).status = "SUPERSEDED"
                             /\ "status" \in DOMAIN active(g) /\ active(g).status = "ACTIVE"
  BY <1>1
<1>. HIDE DEF retired, active
<1>10. /\ DOMAIN generation' = Generations
       /\ \A g \in obsolete : generation'[g] = retired(g)
       /\ \A g \in Generations : g = redis.active /\ IsBuilding(g) => generation'[g] = active(g)
       /\ \A g \in Generations \ obsolete :
            g # redis.active \/ ~IsBuilding(g) => generation'[g] = generation[g]
  BY <1>1, <1>3, <1>6, <1>7
<1>11. \A g \in Generations : g = redis.active => generation'[g].status = "ACTIVE"
  BY <1>1, <1>7, <1>9, <1>10 DEF IsServing, IsBuilding
<1>12. \A g \in Generations : ~IsBuilding(g) /\ g # redis.active =>
              \/ generation'[g] = generation[g]
              \/ generation[g].status # "none" /\ generation'[g].status = "SUPERSEDED"
  BY <1>6, <1>9, <1>10
<1>13. \A g \in Generations : "status" \in DOMAIN generation'[g]
  BY <1>1, <1>6, <1>9, <1>10
<1>14. \A g \in Generations : IsBuilding(g) /\ g # redis.active => generation'[g] = generation[g]
  BY <1>8, <1>10
<1>. QED
  BY <1>1, <1>5, <1>7, <1>8, <1>10, <1>11, <1>12, <1>13, <1>14

LEMMA EnsureReadyStep ==
  ASSUME HotIndexAssumption, IndexIsKept, EnsureReady
  PROVE  IndexIsKept'
<1>1. /\ building = NoIndexJob /\ UNCHANGED <<candidate, syncing>>
      /\ building'.at = "ensure" /\ building' # NoIndexJob
  BY DEF EnsureReady, MaintenanceKeeps, NoIndexJob
<1>2. /\ DOMAIN redis' = {"active", "building", "ready", "marked", "index"}
      /\ redis'.active = redis.active /\ redis'.index = redis.index
      /\ redis'.building \in {redis.building, 0}
      /\ redis'.ready \subseteq redis.ready /\ redis'.marked \subseteq redis.marked
      /\ redis.active # 0 => redis.active \in redis'.ready
      /\ \A g \in Generations : redis.building = g /\ IsBuilding(g) => redis'.building = g
      /\ DOMAIN generation' = Generations
      /\ \A g \in Generations : "status" \in DOMAIN generation'[g]
      /\ \A g \in Generations : IsBuilding(g) /\ g # redis.active =>
                                  generation'[g] = generation[g]
      /\ \A g \in Generations : g = redis.active => generation'[g].status = "ACTIVE"
      /\ \A g \in Generations : ~IsBuilding(g) /\ g # redis.active =>
           \/ generation'[g] = generation[g]
           \/ generation[g].status # "none" /\ generation'[g].status = "SUPERSEDED"
  BY EnsureReadyMoves
<1>3. 0 \notin Generations /\ redis.active \in Generations \cup {0}
      /\ (redis.active # 0 => IsServing(redis.active))
      /\ redis.building \in Generations \cup {0}
  BY DEF IndexIsKept, GenerationsAreKept, HotIndexAssumption
<1>4. \A g \in Generations : IsBuilding(g)' <=> IsBuilding(g) /\ g # redis.active
  BY <1>2 DEF IsBuilding
<1>5. \A g \in Generations : Written(g)' <=> Written(g)
  BY <1>2, <1>3, <1>4 DEF Written
<1>6. \A g \in Generations :
        /\ generation'[g].status = "none" <=> generation[g].status = "none"
        /\ generation'[g].status \in {"none", "BUILDING", "ACTIVE", "SUPERSEDED", "deleted"}
  <2>. SUFFICES ASSUME NEW g \in Generations
                PROVE  /\ generation'[g].status = "none" <=> generation[g].status = "none"
                       /\ generation'[g].status
                          \in {"none", "BUILDING", "ACTIVE", "SUPERSEDED", "deleted"}
    OBVIOUS
  <2>1. generation[g].status \in {"none", "BUILDING", "ACTIVE", "SUPERSEDED", "deleted"}
    BY DEF IndexIsKept, GenerationsAreKept
  <2>2. g = redis.active => generation[g].status # "none"
    BY <1>3 DEF IsServing
  <2>. QED
    BY <1>2, <2>1, <2>2
<1>7. GenerationsAreKept'
  <2>1. redis.active # 0 => IsServing(redis.active)'
    BY <1>2, <1>3 DEF IsServing
  <2>2. redis'.building # 0 => generation'[redis'.building].status # "none"
    BY <1>2, <1>3, <1>6 DEF IndexIsKept, GenerationsAreKept
  <2>3. \A g \in Generations : generation'[g].status = "BUILDING" =>
          /\ DOMAIN generation'[g] = {"status", "version", "cursor", "claimed"}
          /\ generation'[g].cursor \in Nat
    <3>1. \A g \in Generations : generation'[g].status = "BUILDING" =>
                                   generation'[g] = generation[g]
      BY <1>2
    <3>. QED
      BY <3>1 DEF IndexIsKept, GenerationsAreKept
  <2>4. \A g \in redis'.marked : generation'[g].status # "none"
                                 /\ (IsBuilding(g)' => Written(g)')
    BY <1>2, <1>4, <1>5, <1>6 DEF IndexIsKept, GenerationsAreKept
  <2>. QED
    BY <1>2, <1>3, <1>4, <1>6, <2>1, <2>2, <2>3, <2>4 DEF IndexIsKept, GenerationsAreKept
<1>8. \A h : ~Rebuilding(h) /\ ~Rebuilding(h)' /\ \A p : ~InBatch(h, p) /\ ~InBatch(h, p)'
  BY <1>1 DEF NoIndexJob, Rebuilding, InBatch
<1>9. RebuildIsKept' /\ EntriesAgree'
  BY <1>1, <1>2, EntriesStand DEF IndexIsKept, RebuildIsKept
<1>10. NewIsEmpty'
  BY <1>1, <1>2, <1>4, <1>5, <1>6, <1>8 DEF IndexIsKept, NewIsEmpty
<1>11. \A h \in Generations : \A p \in HotPosts : Served(h, p) => Served(h, p)'
  <2>. SUFFICES ASSUME NEW h \in Generations, NEW p \in HotPosts, Served(h, p)
                PROVE  Served(h, p)'
    OBVIOUS
  <2>1. Ahead(h, p) => Ahead(h, p)'
    BY <1>2, <1>4, <1>8 DEF Ahead
  <2>. QED
    BY <1>1, <1>2, <1>8, <2>1 DEF Served
<1>12. CandidatesAreKept' /\ SyncIsKept' /\ PostsAreServed'
  BY <1>1, <1>5, <1>11, MaintenanceStays
<1>. QED
  BY <1>7, <1>9, <1>10, <1>12 DEF IndexIsKept

LEMMA IndexInitially ==
  ASSUME HotIndexAssumption, IndexInit
  PROVE  IndexIsKept /\ syncQueue \subseteq HotPosts
<1>1. /\ building = NoIndexJob /\ syncing = NoIndexJob /\ syncQueue = {}
      /\ DOMAIN redis = {"active", "building", "ready", "marked", "index"}
      /\ redis.active = 0 /\ redis.building = 0 /\ redis.ready = {} /\ redis.marked = {}
      /\ DOMAIN redis.index = Generations /\ 0 \notin Generations
      /\ \A g \in Generations : redis.index[g] = <<>>
      /\ DOMAIN generation = Generations
      /\ \A g \in Generations : generation[g] = NoGeneration
  BY DEF IndexInit, EmptyRedis, HotIndexAssumption
<1>2. building.at = "idle" /\ syncing.at = "idle"
      /\ \A g \in Generations : "status" \in DOMAIN generation[g] /\ generation[g].status = "none"
  BY <1>1 DEF NoIndexJob, NoGeneration
<1>3. \A g \in Generations : ~IsBuilding(g) /\ ~Written(g) /\ ~Rebuilding(g)
  BY <1>1, <1>2 DEF IsBuilding, Written, Rebuilding
<1>4. CandidatesAreKept
  <2>1. DOMAIN candidate = HotPosts
    BY DEF IndexInit
  <2>2. ASSUME NEW p \in HotPosts PROVE CandidateOK(candidate[p])
    <3>. DEFINE isHot == p \in AlreadyHot
                c == [shown |-> TRUE, counts |-> isHot, expired |-> FALSE, renewed |-> FALSE,
                      wavered |-> FALSE, pending |-> FALSE, eligible |-> isHot,
                      version |-> IF isHot THEN 1 ELSE 0, synced |-> 0, dirty |-> isHot,
                      live |-> FALSE]
    <3>1. candidate[p] = c
      BY <2>2 DEF IndexInit
    <3>2. /\ DOMAIN c = CandidateFields /\ c.version = (IF isHot THEN 1 ELSE 0) /\ c.synced = 0
          /\ c.shown = TRUE /\ c.counts = isHot /\ c.expired = FALSE /\ c.renewed = FALSE
          /\ c.wavered = FALSE /\ c.pending = FALSE /\ c.eligible = isHot /\ c.dirty = isHot
          /\ c.live = FALSE /\ isHot \in BOOLEAN
      BY DEF CandidateFields
    <3>. HIDE DEF c, isHot
    <3>3. \A x \in Flags : c[x] \in BOOLEAN
      BY <3>2 DEF Flags
    <3>4. CandidateOK(c)
      BY <3>2, <3>3 DEF CandidateOK
    <3>. QED
      BY <3>1, <3>4
  <2>. QED
    BY <2>1, <2>2 DEF CandidatesAreKept
<1>5. GenerationsAreKept
  BY <1>1, <1>2, <1>3 DEF GenerationsAreKept
<1>6. EntriesAgree /\ NewIsEmpty /\ SyncIsKept /\ PostsAreServed
  BY <1>1, <1>2, <1>3 DEF EntriesAgree, NewIsEmpty, SyncIsKept, PostsAreServed
<1>7. RebuildIsKept
  BY <1>1, <1>2 DEF RebuildIsKept
<1>. QED
  BY <1>1, <1>4, <1>5, <1>6, <1>7 DEF IndexIsKept

LEMMA IndexStep ==
  ASSUME HotIndexAssumption, IndexIsKept, syncQueue \subseteq HotPosts, [IndexNext]_indexVars
  PROVE  IndexIsKept'
<1>1. ASSUME NEW p \in HotPosts,
             \/ CountsChange(p) \/ NewActivity(p) \/ WindowCloses(p) \/ VisibilityChanges(p)
             \/ Refresh(p) \/ CandidateClaimExpires(p)
      PROVE  IndexIsKept'
  BY <1>1, StateStep
<1>2. CASE SyncStep
  BY <1>2, DispatchCandidatesStep, ReadStep, FindStep, ApplyStep, EndStep DEF SyncStep
<1>3. CASE EnsureStep
  BY <1>3, EnsureReadyStep, BuildingStep, AnnounceStep DEF EnsureStep
<1>4. CASE RebuildStep
  BY <1>4, TakeStep, ReadBatchStep, ApplyBatchStep, AdvanceStep, ActivateStep, FinalizeStep
     DEF RebuildStep
<1>5. CASE ClaimThrows \/ MarkerMissing \/ UNCHANGED indexVars
  <2>1. UNCHANGED <<candidate, generation, redis, syncing, building>>
    BY <1>5 DEF ClaimThrows, MarkerMissing, indexVars, MaintenanceKeeps
  <2>. QED
    BY <2>1, JobsAlone
<1>6. CASE \/ Cleanup \/ GenerationClaimExpires \/ MaintenanceDies \/ SyncDies \/ RedisLost
  BY <1>6, CleanupStep, ClaimExpiresStep, MaintenanceDiesStep, SyncDiesStep, RedisLostStep
<1>. QED
  BY <1>1, <1>2, <1>3, <1>4, <1>5, <1>6 DEF IndexNext

(* Only posts wait in the queue of the candidates.                         *)
LEMMA QueueStep ==
  ASSUME syncQueue \subseteq HotPosts, [IndexNext]_indexVars
  PROVE  syncQueue' \subseteq HotPosts
<1>1. CASE SyncStep
  BY <1>1 DEF SyncStep, DispatchCandidates, ReadCandidate, FindWritable, ApplyMember, EndSync
<1>2. CASE EnsureStep \/ RebuildStep
  BY <1>2 DEF EnsureStep, EnsureReady, EnsureBuilding, Announce, RebuildStep, TakeRebuild,
              ReadBatch, ApplyBatch, Advance, Activate, Finalize, MaintenanceKeeps
<1>3. CASE \/ Cleanup \/ GenerationClaimExpires \/ ClaimThrows \/ MarkerMissing
           \/ MaintenanceDies \/ SyncDies \/ RedisLost
  BY <1>3 DEF Cleanup, GenerationClaimExpires, ClaimThrows, MarkerMissing, MaintenanceDies,
              SyncDies, RedisLost, MaintenanceKeeps
<1>4. CASE \E p \in HotPosts : \/ CountsChange(p) \/ NewActivity(p) \/ WindowCloses(p)
                               \/ VisibilityChanges(p) \/ Refresh(p) \/ CandidateClaimExpires(p)
  BY <1>4 DEF CountsChange, NewActivity, WindowCloses, VisibilityChanges, Refresh,
              CandidateClaimExpires, Happens
<1>5. CASE UNCHANGED indexVars
  BY <1>5 DEF indexVars
<1>. QED
  BY <1>1, <1>2, <1>3, <1>4, <1>5 DEF IndexNext

(* What the invariant says of the active generation.                       *)
LEMMA KeptIndexServes ==
  ASSUME HotIndexAssumption, IndexIsKept
  PROVE  IndexServesReaders
<1>1. ReadersNeverThrow
  BY DEF IndexIsKept, GenerationsAreKept, ReadersNeverThrow, Inconsistent
<1>2. ASSUME NEW p \in HotPosts, redis.active # 0,
             ~candidate[p].dirty, ~candidate[p].pending, ~candidate[p].expired,
             ~candidate[p].wavered
      PROVE  Member(redis, redis.active, p) <=> candidate[p].eligible
  <2>. DEFINE g == redis.active
              c == candidate[p]
  <2>1. g \in Generations /\ Written(g)
    BY <1>2 DEF IndexIsKept, GenerationsAreKept, Written
  <2>2. Served(g, p) /\ CandidateOK(c)
    BY <1>2, <2>1 DEF IndexIsKept, PostsAreServed, CandidatesAreKept
  <2>3. c.eligible => c.shown
    BY <1>2, <2>2 DEF CandidateOK
  <2>4. CASE p \in DOMAIN redis.index[g]
    <3>1. EntryAgrees(redis.index[g][p], c) /\ redis.index[g][p].version = c.version
      BY <2>1, <2>2, <2>4 DEF IndexIsKept, EntriesAgree, Served
    <3>2. redis.index[g][p].hot <=> c.eligible
      BY <1>2, <2>2, <2>3, <3>1 DEF EntryAgrees, CandidateOK, Flags
    <3>. QED
      BY <2>4, <3>2 DEF Member
  <2>5. CASE p \notin DOMAIN redis.index[g]
    <3>1. ~c.eligible
      BY <1>2, <2>2, <2>3, <2>5 DEF Served, Ahead
    <3>. QED
      BY <2>5, <3>1 DEF Member
  <2>. QED
    BY <2>4, <2>5
<1>. QED
  BY <1>1, <1>2 DEF IndexServesReaders, IndexIsComplete

(* Readers of the hot posts always find what they need, whatever the       *)
(* workers are at, whoever dies, and how often Redis loses its data while  *)
(* nothing is being built (IndexServesReaders of HotIndex): the pointer to *)
(* the active generation has its marker, and a post of which nothing is    *)
(* left to do is in that generation if and only if it is hot.  The reason: *)
(* of each generation that the candidate worker is told of, a post without *)
(* open work has its entry at its present version, or is in a batch at     *)
(* that version, or is ahead of the rebuild, or need not be there.         *)
THEOREM ReadersAreServed ==
  ASSUME HotIndexAssumption
  PROVE  IndexSpec => []IndexServesReaders
<1>1. IndexInit => IndexIsKept /\ syncQueue \subseteq HotPosts
  BY IndexInitially
<1>2. IndexIsKept /\ syncQueue \subseteq HotPosts /\ [IndexNext]_indexVars
      => IndexIsKept' /\ (syncQueue \subseteq HotPosts)'
  BY IndexStep, QueueStep
<1>3. IndexIsKept => IndexServesReaders
  BY KeptIndexServes
<1>. QED
  BY <1>1, <1>2, <1>3, PTL DEF IndexSpec

(* A job has had fewer attempts than it is given, or has failed for good;  *)
(* the worker is at one that has not.                                      *)
AttemptsAreCounted ==
  /\ \A id \in DOMAIN jobs :
       /\ DOMAIN jobs[id] = {"tries", "failed"} /\ jobs[id].failed \in BOOLEAN
       /\ jobs[id].tries \in 0..IndexAttempts
       /\ ~jobs[id].failed => jobs[id].tries < IndexAttempts
  /\ building.at \notin {"idle", "ensure", "announce"} => building.id \in Waiting

LEMMA EnqueuedAttempts ==
  ASSUME HotIndexAssumption, NEW js, NEW ids,
         \A id \in DOMAIN js :
           /\ DOMAIN js[id] = {"tries", "failed"} /\ js[id].failed \in BOOLEAN
           /\ js[id].tries \in 0..IndexAttempts
           /\ ~js[id].failed => js[id].tries < IndexAttempts
  PROVE  \A id \in DOMAIN Enqueued(js, ids) :
           LET j == Enqueued(js, ids)[id]
           IN  /\ DOMAIN j = {"tries", "failed"} /\ j.failed \in BOOLEAN
               /\ j.tries \in 0..IndexAttempts
               /\ ~j.failed => j.tries < IndexAttempts
<1>1. 0 \in 0..IndexAttempts /\ 0 < IndexAttempts
  BY DEF HotIndexAssumption
<1>. TAKE id \in DOMAIN Enqueued(js, ids)
<1>2. id \in DOMAIN js => Enqueued(js, ids)[id] = js[id]
  BY DEF Enqueued
<1>3. id \notin DOMAIN js => Enqueued(js, ids)[id] = [tries |-> 0, failed |-> FALSE]
  BY DEF Enqueued
<1>4. CASE id \in DOMAIN js
  BY <1>2, <1>4
<1>5. CASE id \notin DOMAIN js
  <2>. DEFINE j == Enqueued(js, ids)[id]
  <2>1. DOMAIN j = {"tries", "failed"} /\ j.tries = 0 /\ j.failed = FALSE
    BY <1>3, <1>5
  <2>. HIDE DEF j
  <2>2. j.tries \in 0..IndexAttempts /\ j.tries < IndexAttempts /\ j.failed \in BOOLEAN
    BY <2>1, <1>1
  <2>. QED
    BY <2>1, <2>2 DEF j
<1>. QED
  BY <1>4, <1>5

LEMMA FailedAttempts ==
  ASSUME HotIndexAssumption, AttemptsAreCounted, NEW i \in Waiting
  PROVE  \A id \in DOMAIN Failed(jobs, i) :
           LET j == Failed(jobs, i)[id]
           IN  /\ DOMAIN j = {"tries", "failed"} /\ j.failed \in BOOLEAN
               /\ j.tries \in 0..IndexAttempts
               /\ ~j.failed => j.tries < IndexAttempts
<1>. TAKE id \in DOMAIN Failed(jobs, i)
<1>1. IndexAttempts \in Nat /\ jobs[i].tries \in Nat /\ jobs[i].tries < IndexAttempts
      /\ i \in DOMAIN jobs
  BY DEF HotIndexAssumption, AttemptsAreCounted, Waiting
<1>2. DOMAIN Failed(jobs, i) = DOMAIN jobs
  BY DEF Failed
<1>3. id # i => Failed(jobs, i)[id] = jobs[id]
  BY <1>2 DEF Failed
<1>4. id = i => Failed(jobs, i)[id] = [tries |-> jobs[i].tries + 1,
                                       failed |-> jobs[i].tries + 1 = IndexAttempts]
  BY <1>1 DEF Failed
<1>5. jobs[i].tries + 1 \in 0..IndexAttempts
      /\ (jobs[i].tries + 1 # IndexAttempts => jobs[i].tries + 1 < IndexAttempts)
  BY <1>1
<1>6. CASE id = i
  <2>. DEFINE j == Failed(jobs, i)[id]
  <2>1. DOMAIN j = {"tries", "failed"} /\ j.tries = jobs[i].tries + 1
        /\ j.failed = (jobs[i].tries + 1 = IndexAttempts)
    BY <1>4, <1>6
  <2>. HIDE DEF j
  <2>2. j.failed \in BOOLEAN
    BY <2>1
  <2>3. j.tries \in 0..IndexAttempts /\ (~j.failed => j.tries < IndexAttempts)
    BY <2>1, <1>5
  <2>. QED
    BY <2>1, <2>2, <2>3 DEF j
<1>7. CASE id # i
  BY <1>2, <1>3, <1>7 DEF AttemptsAreCounted
<1>. QED
  BY <1>6, <1>7

LEMMA AttemptsInitially ==
  ASSUME IndexInit
  PROVE  AttemptsAreCounted
<1>1. jobs = <<>> /\ building = NoIndexJob
  BY DEF IndexInit
<1>2. building.at = "idle" /\ DOMAIN jobs = {}
  BY <1>1 DEF NoIndexJob
<1>. QED
  BY <1>2 DEF AttemptsAreCounted

LEMMA AttemptsStep ==
  ASSUME HotIndexAssumption, RebuildIsKept, AttemptsAreCounted, [IndexNext]_indexVars
  PROVE  AttemptsAreCounted'
<1>. DEFINE Counts(js) ==
       \A id \in DOMAIN js :
         /\ DOMAIN js[id] = {"tries", "failed"} /\ js[id].failed \in BOOLEAN
         /\ js[id].tries \in 0..IndexAttempts
         /\ ~js[id].failed => js[id].tries < IndexAttempts
            atJob == building.at \notin {"idle", "ensure", "announce"}
<1>1. Counts(jobs) /\ (atJob => building.id \in Waiting)
  BY DEF AttemptsAreCounted
<1>2. AttemptsAreCounted' <=> Counts(jobs') /\ (atJob' => building'.id \in Waiting')
  BY DEF AttemptsAreCounted
<1>3. \A ids : Counts(Enqueued(jobs, ids))
  BY <1>1, EnqueuedAttempts
<1>4. \A id \in Waiting : Counts(Failed(jobs, id))
  BY FailedAttempts
<1>5. \A id : Counts(Dropped(jobs, id))
  BY <1>1 DEF Dropped
<1>6. \A id, ids : Counts(Enqueued(Dropped(jobs, id), ids))
  BY <1>5, EnqueuedAttempts
<1>7. ~atJob' /\ Counts(jobs') => AttemptsAreCounted'
  BY <1>2
<1>8. building = NoIndexJob => ~atJob
  BY DEF NoIndexJob
<1>9. building' = NoIndexJob => ~atJob'
  BY DEF NoIndexJob
<1>10. UNCHANGED <<jobs, building>> => AttemptsAreCounted'
  BY <1>1, <1>2 DEF Waiting
<1>11. jobs' = jobs /\ building'.id = building.id /\ atJob => AttemptsAreCounted'
  BY <1>1, <1>2 DEF Waiting
<1>. HIDE DEF Counts, atJob
<1>12. CASE EnsureStep
  <2>1. Counts(jobs')
    BY <1>12, <1>1, <1>3 DEF EnsureStep, EnsureReady, EnsureBuilding, Announce
  <2>2. building'.at \in {"ensure", "announce", "idle"}
    <3>1. ASSUME EnsureReady PROVE building'.at = "ensure"
      <4>1. \E b : building' = [at |-> "ensure", healthy |-> b]
        BY <3>1 DEF EnsureReady
      <4>. QED
        BY <4>1
    <3>2. EnsureBuilding => building'.at \in {"announce", "idle"}
      BY DEF EnsureBuilding, NoIndexJob
    <3>3. Announce => building'.at = "idle"
      BY DEF Announce, NoIndexJob
    <3>. QED
      BY <1>12, <3>1, <3>2, <3>3 DEF EnsureStep
  <2>. QED
    BY <2>1, <2>2, <1>7 DEF atJob
<1>13. CASE TakeRebuild
  <2>1. PICK id \in Waiting :
          \/ building' = [at |-> "claimed", id |-> id] /\ jobs' = jobs
          \/ building' = building /\ jobs' = Dropped(jobs, id)
    BY <1>13 DEF TakeRebuild
  <2>2. CASE building' = [at |-> "claimed", id |-> id] /\ jobs' = jobs
    BY <1>1, <1>2, <2>1, <2>2 DEF Waiting
  <2>3. CASE building' = building /\ jobs' = Dropped(jobs, id)
    BY <2>3, <1>5, <1>7, <1>9, <1>13 DEF TakeRebuild
  <2>. QED
    BY <2>1, <2>2, <2>3
<1>14. CASE ReadBatch \/ ApplyBatch \/ Activate
  <2>1. jobs' = jobs /\ building'.id = building.id /\ atJob
    BY <1>14 DEF ReadBatch, ApplyBatch, Activate, atJob
  <2>. QED
    BY <2>1, <1>11
<1>15. CASE Advance \/ Finalize
  <2>1. \E id, ids : jobs' = Enqueued(Dropped(jobs, id), ids)
    BY <1>15 DEF Advance, Finalize
  <2>2. building' = NoIndexJob
    BY <1>15 DEF Advance, Finalize
  <2>3. Counts(jobs')
    BY <2>1, <1>6
  <2>. QED
    BY <2>2, <2>3, <1>7, <1>9
<1>16. CASE Cleanup \/ ClaimThrows \/ MarkerMissing
  <2>1. building' = NoIndexJob
    BY <1>16 DEF Cleanup, ClaimThrows, MarkerMissing
  <2>2. \E id \in Waiting : jobs' = Dropped(jobs, id) \/ jobs' = Failed(jobs, id)
    BY <1>16 DEF Cleanup, ClaimThrows, MarkerMissing
  <2>. QED
    BY <2>1, <2>2, <1>4, <1>5, <1>7, <1>9
<1>17. CASE MaintenanceDies
  <2>1. building' = NoIndexJob /\ building # NoIndexJob
        /\ jobs' = IF building.at \in {"ensure", "announce"} THEN jobs
                   ELSE Failed(jobs, building.id)
    BY <1>17 DEF MaintenanceDies
  <2>2. building.at # "idle"
    BY <2>1 DEF RebuildIsKept
  <2>3. building.at \notin {"ensure", "announce"} => building.id \in Waiting
    BY <2>2, <1>1 DEF atJob
  <2>4. Counts(jobs')
    BY <2>1, <2>3, <1>1, <1>4
  <2>. QED
    BY <2>1, <2>4, <1>7, <1>9
<1>18. CASE RedisLost
  <2>1. jobs' = <<>> /\ building' = NoIndexJob
    BY <1>18 DEF RedisLost
  <2>2. Counts(jobs')
    BY <2>1 DEF Counts
  <2>. QED
    BY <2>1, <2>2, <1>7, <1>9
<1>19. CASE SyncStep \/ GenerationClaimExpires \/ SyncDies \/ UNCHANGED indexVars
  BY <1>19, <1>10 DEF SyncStep, DispatchCandidates, ReadCandidate, FindWritable, ApplyMember,
     EndSync, GenerationClaimExpires, SyncDies, indexVars
<1>20. ASSUME NEW p \in HotPosts,
             \/ CountsChange(p) \/ NewActivity(p) \/ WindowCloses(p) \/ VisibilityChanges(p)
             \/ Refresh(p) \/ CandidateClaimExpires(p)
      PROVE  AttemptsAreCounted'
  BY <1>20, <1>10 DEF CountsChange, NewActivity, WindowCloses, VisibilityChanges, Refresh,
     CandidateClaimExpires, Happens
<1>. QED
  BY <1>12, <1>13, <1>14, <1>15, <1>16, <1>17, <1>18, <1>19, <1>20 DEF IndexNext, RebuildStep

(* The documents of the index, its pointers, its queues and the attempts   *)
(* of its jobs keep their types.                                           *)
LEMMA IndexTypesHold ==
  ASSUME HotIndexAssumption
  PROVE  IndexInit /\ [][IndexNext]_indexVars => []IndexTypeOK
<1>. DEFINE I == IndexIsKept /\ syncQueue \subseteq HotPosts /\ AttemptsAreCounted
<1>1. IndexInit => I
  BY IndexInitially, AttemptsInitially
<1>2. I /\ [IndexNext]_indexVars => I'
  BY IndexStep, QueueStep, AttemptsStep DEF IndexIsKept
<1>3. I => IndexTypeOK
  BY DEF IndexIsKept, CandidatesAreKept, CandidateOK, GenerationsAreKept, AttemptsAreCounted,
         IndexTypeOK
<1>. HIDE DEF I
<1>. QED
  BY <1>1, <1>2, <1>3, PTL

-----------------------------------------------------------------------------
(* THE COMPONENTS SIDE BY SIDE                                             *)

(* A step of the system is a step of each component, or leaves it alone.   *)
LEMMA EachComponentSteps ==
  ASSUME [Next]_vars
  PROVE  /\ [VisibilityNext]_visibilityVars /\ [ThreadNext]_threadVars
         /\ [IndexNext]_indexVars /\ [ProposalNext]_proposalVars /\ [McpNext]_mcpVars
<1>1. CASE UNCHANGED vars
  BY <1>1 DEF vars
<1>2. CASE Vis(VisibilityNext)
  BY <1>2 DEF Vis
<1>3. CASE Thr(ThreadNext)
  BY <1>3 DEF Thr
<1>4. CASE Ind(IndexNext)
  BY <1>4 DEF Ind
<1>5. CASE Pro(ProposalNext)
  BY <1>5 DEF Pro
<1>6. CASE Mcp(McpNext)
  BY <1>6 DEF Mcp
<1>. QED
  BY <1>1, <1>2, <1>3, <1>4, <1>5, <1>6 DEF Next

(* So the system behaves as each of them does.                             *)
LEMMA EachComponentRuns ==
  Spec => /\ VisibilityInit /\ [][VisibilityNext]_visibilityVars
          /\ ThreadInit /\ [][ThreadNext]_threadVars
          /\ IndexInit /\ [][IndexNext]_indexVars
          /\ ProposalInit /\ [][ProposalNext]_proposalVars
          /\ McpInit /\ [][McpNext]_mcpVars
<1>1. Init => VisibilityInit /\ ThreadInit /\ IndexInit /\ ProposalInit /\ McpInit
  BY DEF Init
<1>2. [Next]_vars => /\ [VisibilityNext]_visibilityVars /\ [ThreadNext]_threadVars
                     /\ [IndexNext]_indexVars /\ [ProposalNext]_proposalVars
                     /\ [McpNext]_mcpVars
  BY EachComponentSteps
<1>. QED
  BY <1>1, <1>2, PTL DEF Spec

(* Whichever component runs, and whatever fails in it, the documents, keys *)
(* and queues of all of them keep their types.                             *)
THEOREM BackgroundTypes == Spec => []BackgroundTypeOK
<1>1. ProposalInit /\ [][ProposalNext]_proposalVars => []ProposalTypeOK
  <2>1. ProposalInit => DeadlineTypes
    BY DeadlineTypesInitially
  <2>2. DeadlineTypes /\ [ProposalNext]_proposalVars => DeadlineTypes'
    BY DeadlineStepKeepsTypes
  <2>3. DeadlineTypes => ProposalTypeOK
    BY DEF DeadlineTypes, ProposalFields, IsDelivery, ProposalTypeOK
  <2>. QED
    BY <2>1, <2>2, <2>3, PTL
<1>2. McpInit /\ [][McpNext]_mcpVars => []McpTypeOK
  <2>1. McpInit => McpInvariant
    BY McpInitially
  <2>2. McpInvariant /\ [McpNext]_mcpVars => McpInvariant'
    BY McpStepKeeps
  <2>3. McpInvariant => McpTypeOK
    BY UnexpiredFacts DEF McpInvariant, LeaseTypes, LeasesHaveTokens, McpTypeOK
  <2>. QED
    BY <2>1, <2>2, <2>3, PTL
<1>3. ThreadInvariant => ThreadTypeOK
  BY DEF ThreadInvariant
<1>4. ThreadInit /\ [][ThreadNext]_threadVars => []ThreadInvariant
  BY ThreadInvariantHolds
<1>5. VisibilityInit /\ [][VisibilityNext]_visibilityVars => []VisibilityTypeOK
  BY VisibilityTypesHold
<1>6. IndexInit /\ [][IndexNext]_indexVars => []IndexTypeOK
  BY HotIndexAssumption, IndexTypesHold
<1>7. /\ VisibilityTypeOK /\ ThreadTypeOK /\ IndexTypeOK /\ ProposalTypeOK /\ McpTypeOK
      => BackgroundTypeOK
  BY DEF BackgroundTypeOK
<1>. QED
  BY EachComponentRuns, <1>1, <1>2, <1>3, <1>4, <1>5, <1>6, <1>7, PTL

=============================================================================
