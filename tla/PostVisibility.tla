--------------------------- MODULE PostVisibility ---------------------------
(***************************************************************************)
(* The outbox that brings the posts of a circle, and their hot states, to  *)
(* the visibility of the circle: PostVisibilityService records what is     *)
(* due, PostVisibilityPublisher claims it and gives a job to BullMQ,       *)
(* PostVisibilityProjectionService does one batch of posts per job.        *)
(*                                                                         *)
(* Every transaction here writes the state document of the circle, so that *)
(* any two of them conflict: a transaction is one step.                    *)
(***************************************************************************)
EXTENDS Naturals, FiniteSets, DedupQueue

CONSTANTS
  Posts,        \* numbers, in the order of the posts' ids
  OldPosts,     \* the posts the circle has at first
  Sweepers,     \* workers that run a sweep at one time
  PostBatch,    \* POST_VISIBILITY_POST_BATCH_SIZE
  JobAttempts,  \* POST_VISIBILITY_JOB_ATTEMPTS
  Tokens,       \* the UUIDs in use at one time, positive numbers; 0 is null
  MaxVersion,   \* bound: visibility versions of the circle
  MaxFaults     \* bound: calls that throw or take too long, processes that die

ASSUME PostVisibilityAssumption ==
  /\ Posts \cup Tokens \subseteq Nat \ {0} /\ OldPosts \subseteq Posts /\ IsFiniteSet(OldPosts)
  /\ {PostBatch, JobAttempts, MaxVersion} \subseteq Nat \ {0}
  /\ MaxFaults \in Nat

VARIABLES
  circle,       \* status and visibilityVersion of the circle document
  state,        \* its CirclePostVisibilityState
  post,         \* post[p]: circleVisible and circleVisibilityVersion
  hot,          \* hot[p]: the same of the post's PostHotState, and its signal
  queue,        \* BullMQ: the projection jobs of the circle
  sweep,        \* sweep[w]: where a sweep is, and the candidate it has read
  batch,        \* where the active projection job is
  faults

visibilityVars == <<circle, state, post, hot, queue, sweep, batch, faults>>

KnownPosts == DOMAIN post

(* claimedUntil is kept as live (it lies in the future), dispatchAt as     *)
(* ready (it is null or past).                                             *)
State ==
  [desired: BOOLEAN, version: 1 .. MaxVersion, writes: Nat,
   doneVersion: 1 .. MaxVersion, doneWrites: Nat, dirty: BOOLEAN,
   ready: BOOLEAN, token: Tokens \cup {0}, live: BOOLEAN]

Mark == [visible: BOOLEAN, version: 1 .. MaxVersion]

NewMark(v) == [visible |-> TRUE, version |-> v]

NoSweep == [pc |-> "idle"]

VisibilityInit ==
  /\ circle = [active |-> TRUE, version |-> 1]
  /\ state = [desired |-> TRUE, version |-> 1, writes |-> 0, doneVersion |-> 1,
              doneWrites |-> 0, dirty |-> FALSE, ready |-> TRUE, token |-> 0,
              live |-> FALSE]
  /\ post = [p \in OldPosts |-> NewMark(1)]
  /\ hot = post
  /\ queue = EmptyQueue
  /\ sweep = [w \in Sweepers |-> NoSweep]
  /\ batch = "idle"
  /\ faults = 0

Unclaimed(s) == [s EXCEPT !.token = 0, !.live = FALSE]

-----------------------------------------------------------------------------
(* What is recorded.                                                       *)

(* setCircleStatusForAdmin with recordCircleStatusChanged.                 *)
ChangeStatus ==
  /\ circle.version < MaxVersion
  /\ state.version = circle.version
  /\ circle' = [active |-> ~circle.active, version |-> circle.version + 1]
  /\ state' = [Unclaimed(state) EXCEPT !.desired = ~circle.active,
                 !.version = circle.version + 1, !.dirty = TRUE, !.ready = TRUE]
  /\ UNCHANGED <<post, hot, queue, sweep, batch, faults>>

(* createPost with recordPostCreated.                                      *)
CreatePost ==
  \E p \in Posts \ KnownPosts :
    /\ circle.active
    /\ state.version = circle.version /\ state.desired
    /\ \A q \in Posts \ KnownPosts : p <= q
    /\ post' = [q \in KnownPosts \cup {p} |->
                  IF q = p THEN NewMark(circle.version) ELSE post[q]]
    /\ hot' = [q \in KnownPosts \cup {p} |->
                 IF q = p THEN NewMark(circle.version) ELSE hot[q]]
    /\ state' = [Unclaimed(state) EXCEPT !.ready = TRUE, !.writes = @ + 1]
    /\ UNCHANGED <<circle, queue, sweep, batch, faults>>

-----------------------------------------------------------------------------
(* The sweep: dispatchPendingBatch, for the one circle there is.           *)

Dispatchable == state.dirty /\ state.ready /\ ~state.live

FindCandidate(w) ==
  /\ sweep[w].pc = "idle" /\ Dispatchable
  /\ sweep' = [sweep EXCEPT ![w] =
       [pc |-> "claim", version |-> state.version, writes |-> state.writes]]
  /\ UNCHANGED <<circle, state, post, hot, queue, batch, faults>>

StillCandidate(w) ==
  /\ state.dirty /\ ~state.live
  /\ state.version = sweep[w].version /\ state.writes = sweep[w].writes

TokensInUse ==
  {state.token}
    \cup {queue[place].token : place \in {f \in DOMAIN queue : queue[f] # NoJob}}
    \cup {sweep[w].token : w \in {v \in Sweepers : sweep[v].pc \in {"add", "undo"}}}

(* randomUUID: a token that nothing else has.                              *)
UnusedTokens == Tokens \ TokensInUse
Fresh        == CHOOSE t \in UnusedTokens : TRUE

ClaimCandidate(w) ==
  /\ sweep[w].pc = "claim"
  /\ \/ /\ StillCandidate(w) /\ UnusedTokens # {}
        /\ state' = [state EXCEPT !.token = Fresh, !.live = TRUE, !.ready = TRUE]
        /\ sweep' = [sweep EXCEPT ![w] =
             [pc |-> "add", version |-> sweep[w].version,
              writes |-> sweep[w].writes, token |-> Fresh]]
     \/ /\ ~StillCandidate(w)
        /\ sweep' = [sweep EXCEPT ![w] = NoSweep]
        /\ UNCHANGED state
  /\ UNCHANGED <<circle, post, hot, queue, batch, faults>>

AddJob(w) ==
  /\ sweep[w].pc = "add"
  /\ queue' = Added(queue, [tries |-> 1, version |-> sweep[w].version,
                            writes |-> sweep[w].writes, token |-> sweep[w].token])
  /\ sweep' = [sweep EXCEPT ![w] = NoSweep]
  /\ UNCHANGED <<circle, state, post, hot, batch, faults>>

(* Queue.add throws; the job may have been accepted all the same.          *)
AddThrows(w) ==
  /\ sweep[w].pc = "add" /\ faults < MaxFaults
  /\ \/ queue' = Added(queue, [tries |-> 1, version |-> sweep[w].version,
                               writes |-> sweep[w].writes, token |-> sweep[w].token])
     \/ UNCHANGED queue
  /\ sweep' = [sweep EXCEPT ![w].pc = "undo"]
  /\ faults' = faults + 1
  /\ UNCHANGED <<circle, state, post, hot, batch>>

UndoClaim(w) ==
  /\ sweep[w].pc = "undo"
  /\ state' = IF /\ state.version = sweep[w].version
                 /\ state.writes = sweep[w].writes
                 /\ state.token = sweep[w].token
              THEN [Unclaimed(state) EXCEPT !.ready = FALSE]
              ELSE state
  /\ sweep' = [sweep EXCEPT ![w] = NoSweep]
  /\ UNCHANGED <<circle, post, hot, queue, batch, faults>>

-----------------------------------------------------------------------------
(* The job: projectCircleBatch.                                            *)

TakeProjection ==
  /\ batch = "idle" /\ Waits(queue)
  /\ queue' = Taken(queue)
  /\ batch' = "project"
  /\ UNCHANGED <<circle, state, post, hot, sweep, faults>>

(* Mutant: any claim will do.                                              *)
BugAnyClaim(j) == state.dirty /\ state.live

HoldsClaim(j) ==
  /\ state.dirty /\ state.live /\ state.token = j.token
  /\ state.version = j.version /\ state.writes = j.writes

Behind(j) == {p \in KnownPosts : post[p].version < j.version}

(* The first PostBatch of the posts behind, by version and id.             *)
NextPosts(j) ==
  {p \in Behind(j) :
     Cardinality({q \in Behind(j) :
       \/ post[q].version < post[p].version
       \/ post[q].version = post[p].version /\ q < p}) < PostBatch}

Brought(marks, ps, j) ==
  [p \in DOMAIN marks |->
     IF p \in ps /\ marks[p].version < j.version
     THEN [visible |-> state.desired, version |-> j.version] ELSE marks[p]]

(* Mutant: a batch that is just full is taken for the last.                *)
BugLastBatch(ps, j) ==
  IF Cardinality(ps) > PostBatch
  THEN [Unclaimed(state) EXCEPT !.ready = TRUE]
  ELSE [Unclaimed(state) EXCEPT !.doneVersion = j.version,
          !.doneWrites = j.writes, !.dirty = FALSE, !.ready = TRUE]

(* A full batch leaves the rest to another sweep, any other is the last.   *)
AfterBatch(ps, j) ==
  IF Cardinality(ps) = PostBatch
  THEN [Unclaimed(state) EXCEPT !.ready = TRUE]
  ELSE [Unclaimed(state) EXCEPT !.doneVersion = j.version,
          !.doneWrites = j.writes, !.dirty = FALSE, !.ready = TRUE]

ProjectBatch ==
  /\ batch = "project"
  /\ LET j == queue.active IN
     \/ /\ HoldsClaim(j)
        /\ post' = Brought(post, NextPosts(j), j)
        /\ hot' = Brought(hot, NextPosts(j), j)
        /\ state' = AfterBatch(NextPosts(j), j)
     \/ /\ ~HoldsClaim(j)
        /\ UNCHANGED <<post, hot, state>>
  /\ batch' = "end"
  /\ UNCHANGED <<circle, queue, sweep, faults>>

EndProjection ==
  /\ batch = "end"
  /\ queue' = Finished(queue)
  /\ batch' = "idle"
  /\ UNCHANGED <<circle, state, post, hot, sweep, faults>>

(* The transaction throws: the job waits for its next attempt, if any.     *)
ProjectionThrows ==
  /\ batch = "project" /\ faults < MaxFaults
  /\ queue' = IF queue.active.tries < JobAttempts THEN Retried(queue) ELSE Finished(queue)
  /\ batch' = "idle"
  /\ faults' = faults + 1
  /\ UNCHANGED <<circle, state, post, hot, sweep>>

-----------------------------------------------------------------------------
(* Surroundings.                                                           *)

ProcessDies ==
  /\ faults < MaxFaults
  /\ \/ batch # "idle"
     \/ \E w \in Sweepers : sweep[w].pc # "idle"
  /\ sweep' = [w \in Sweepers |-> NoSweep]
  /\ batch' = "idle"
  /\ queue' = IF IsActive(queue) THEN Stalled(queue) ELSE queue
  /\ faults' = faults + 1
  /\ UNCHANGED <<circle, state, post, hot>>

(* The job of the present claim is on its way.                             *)
Carried ==
  \/ \E place \in DOMAIN queue : queue[place] # NoJob /\ queue[place].token = state.token
  \/ \E w \in Sweepers : sweep[w].pc \in {"add", "undo"} /\ sweep[w].token = state.token

ClaimExpires ==
  /\ state.live /\ ~Carried
  /\ state' = [state EXCEPT !.live = FALSE]
  /\ UNCHANGED <<circle, post, hot, queue, sweep, batch, faults>>

(* The job takes longer than its claim: that does not go on forever.       *)
ClaimOverrun ==
  /\ state.live /\ Carried /\ faults < MaxFaults
  /\ state' = [state EXCEPT !.live = FALSE]
  /\ faults' = faults + 1
  /\ UNCHANGED <<circle, post, hot, queue, sweep, batch>>

RetryTimeComes ==
  /\ ~state.ready
  /\ state' = [state EXCEPT !.ready = TRUE]
  /\ UNCHANGED <<circle, post, hot, queue, sweep, batch, faults>>

VisibilitySweepStep(w) ==
  FindCandidate(w) \/ ClaimCandidate(w) \/ AddJob(w) \/ UndoClaim(w)

VisibilityJobStep == TakeProjection \/ ProjectBatch \/ EndProjection

VisibilityNext ==
  \/ ChangeStatus \/ CreatePost
  \/ \E w \in Sweepers : VisibilitySweepStep(w) \/ AddThrows(w)
  \/ VisibilityJobStep \/ ProjectionThrows \/ ProcessDies
  \/ ClaimExpires \/ ClaimOverrun \/ RetryTimeComes

(* The scheduler repeats the sweep every second, the queue has a worker    *)
(* for each job, and time passes.                                         *)
VisibilityFairness ==
  /\ \A w \in Sweepers : WF_visibilityVars(VisibilitySweepStep(w))
  /\ WF_visibilityVars(VisibilityJobStep)
  /\ WF_visibilityVars(ClaimExpires) /\ WF_visibilityVars(RetryTimeComes)

VisibilitySpec == VisibilityInit /\ [][VisibilityNext]_visibilityVars /\ VisibilityFairness

-----------------------------------------------------------------------------
(* What must hold.                                                         *)

VisibilityTypeOK ==
  /\ circle \in [active: BOOLEAN, version: 1 .. MaxVersion]
  /\ state \in State
  /\ KnownPosts \subseteq Posts /\ DOMAIN hot = KnownPosts
  /\ \A p \in KnownPosts : post[p] \in Mark /\ hot[p] \in Mark
  /\ batch \in {"idle", "project", "end"}
  /\ IsActive(queue) <=> batch # "idle"
  /\ faults \in 0 .. MaxFaults

(* Once the outbox has declared a circle clean, each of its posts, those   *)
(* created while it worked included, has the circle's visibility and       *)
(* version, and so does the post's hot state: projectCircleBatch finds the *)
(* posts behind without counting them, in batches, and posts are created   *)
(* with the version their transaction has read.                            *)
CleanMeansProjected ==
  ~state.dirty =>
    /\ state.doneVersion = circle.version
    /\ \A p \in KnownPosts :
         /\ post[p] = [visible |-> circle.active, version |-> circle.version]
         /\ hot[p] = post[p]

(* Whatever batch is under way, only the circle's present status spreads,  *)
(* and the version of a post never goes back: jobs that were claimed for   *)
(* an earlier version, delivered twice or overtaken change nothing.        *)
OnlyPresentStatusSpreads ==
  [][\A p \in KnownPosts :
       post'[p] # post[p] =>
         /\ post'[p] = [visible |-> circle.active, version |-> circle.version]
         /\ post'[p].version > post[p].version]_visibilityVars

=============================================================================
