------------------------------ MODULE HotIndex ------------------------------
(***************************************************************************)
(* The index of hot posts that HotCandidateIndexService keeps in Redis.    *)
(* Each generation of the index is built in batches from the hot states in *)
(* MongoDB and becomes the active one at the end.  Meanwhile the candidate *)
(* worker writes every post that starts or ceases to be hot to the active  *)
(* generation and to the one being built.  Each of the two queues has one  *)
(* worker, so that two jobs of one queue never overlap.                    *)
(***************************************************************************)
EXTENDS Naturals, FiniteSets, FiniteSetsExt

CONSTANTS
  HotPosts,          \* numbers, in the order of the hot states' ids
  AlreadyHot,        \* the posts that are hot when the index is first built
  Generations,       \* numbers, in the order in which they are created
  RebuildBatch,      \* HOT_CANDIDATE_REBUILD_BATCH_SIZE
  IndexAttempts,     \* HOT_JOB_ATTEMPTS
  Changing,          \* bound: the posts to which something happens
  MaxHotChanges,     \* bound: how often it does
  MaxIndexFaults     \* bound: calls that throw, processes that die, and times
                     \* Redis loses its data

ASSUME HotIndexAssumption ==
  /\ HotPosts \cup Generations \subseteq Nat \ {0} /\ IsFiniteSet(HotPosts \cup Generations)
  /\ AlreadyHot \cup Changing \subseteq HotPosts
  /\ {RebuildBatch, IndexAttempts} \subseteq Nat \ {0}
  /\ {MaxHotChanges, MaxIndexFaults} \subseteq Nat

VARIABLES
  candidate,    \* candidate[p]: the PostHotState of p
  generation,   \* generation[g]: the HotCandidateGeneration document
  redis,        \* the keys of the index
  syncQueue,    \* posts with a waiting job in the candidate queue
  jobs,         \* jobs[id]: the maintenance jobs BullMQ knows, by their jobId
  syncing,      \* where the candidate worker is
  building,     \* where the maintenance worker is
  hotChanges, indexFaults

indexVars == <<candidate, generation, redis, syncQueue, jobs, syncing, building,
               hotChanges, indexFaults>>

NoGeneration == [status |-> "none"]

Created(g) == {h \in Generations : generation[h].status = g}

EmptyRedis ==
  [active |-> 0, building |-> 0, ready |-> {}, marked |-> {},
   index |-> [g \in Generations |-> <<>>]]

NoIndexJob == [at |-> "idle"]

IndexInit ==
  /\ candidate = [p \in HotPosts |->
       LET hot == p \in AlreadyHot IN
       [shown |-> TRUE, counts |-> hot, expired |-> FALSE, renewed |-> FALSE,
        wavered |-> FALSE, pending |-> FALSE, eligible |-> hot,
        version |-> IF hot THEN 1 ELSE 0, synced |-> 0, dirty |-> hot,
        live |-> FALSE]]
  /\ generation = [g \in Generations |-> NoGeneration]
  /\ redis = EmptyRedis
  /\ syncQueue = {}
  /\ jobs = <<>>
  /\ syncing = NoIndexJob
  /\ building = NoIndexJob
  /\ hotChanges = 0
  /\ indexFaults = 0

-----------------------------------------------------------------------------
(* The hot states, as the projection leaves them.                          *)

Happens(p, new) ==
  /\ p \in Changing /\ hotChanges < MaxHotChanges
  /\ candidate' = [candidate EXCEPT ![p] = new]
  /\ hotChanges' = hotChanges + 1
  /\ UNCHANGED <<generation, redis, syncQueue, jobs, syncing, building,
                 indexFaults>>

(* Participants come or go; there is new activity; the window closes.      *)
CountsChange(p) ==
  Happens(p, [candidate[p] EXCEPT !.counts = ~@, !.pending = TRUE])

NewActivity(p) ==
  /\ candidate[p].expired
  /\ Happens(p, [candidate[p] EXCEPT !.renewed = TRUE, !.pending = TRUE])

WindowCloses(p) ==
  /\ candidate[p].eligible /\ ~candidate[p].expired
  /\ Happens(p, [candidate[p] EXCEPT !.expired = TRUE, !.renewed = FALSE])

(* The post or its circle is hidden or restored: at once, without a        *)
(* candidate version.  A hot post that comes back before the projection    *)
(* has seen it hidden has wavered: its next projection finds no change.    *)
VisibilityChanges(p) ==
  LET c == candidate[p] IN
  Happens(p, [c EXCEPT !.shown = ~@, !.pending = TRUE,
                       !.wavered = @ \/ (~c.shown /\ c.eligible)])

(* updateStateProjection                                                   *)
Projected(c) ==
  LET hot     == c.shown /\ c.counts /\ (c.expired => c.renewed)
      changed == c.eligible # hot \/ (hot /\ c.expired)
  IN  [c EXCEPT !.eligible = hot, !.expired = FALSE, !.renewed = FALSE,
         !.pending = FALSE, !.version = IF changed THEN @ + 1 ELSE @,
         !.dirty = @ \/ changed \/ c.synced < c.version,
         !.live = @ /\ ~changed, !.wavered = @ /\ ~changed]

(* By the job of the post, or by expireDueStates.                          *)
Refresh(p) ==
  /\ candidate[p].pending \/ candidate[p].expired
  /\ candidate' = [candidate EXCEPT ![p] = Projected(candidate[p])]
  /\ UNCHANGED <<generation, redis, syncQueue, jobs, syncing, building,
                 hotChanges, indexFaults>>

-----------------------------------------------------------------------------
(* Redis.                                                                  *)

Writable(r, g) == g \in r.ready \/ g \in r.marked

Member(r, g, p) ==
  p \in DOMAIN r.index[g] /\ r.index[g][p].hot

(* Mutant: what comes last wins.                                           *)
BugLastWins(index, p, c) ==
  [q \in DOMAIN index \cup {p} |->
     IF q = p THEN [version |-> c.version, hot |-> c.shown /\ c.eligible /\ ~c.expired]
     ELSE index[q]]

(* APPLY_CANDIDATE_MEMBER_SCRIPT, for the state c of post p as it was      *)
(* read: an older version than the one in the index changes nothing.       *)
Entered(index, p, c) ==
  LET hot == c.shown /\ c.eligible /\ ~c.expired IN
  IF \/ p \in DOMAIN index /\ index[p].version > c.version
     \/ p \notin DOMAIN index /\ ~hot /\ c.version = 0
  THEN index
  ELSE [q \in DOMAIN index \cup {p} |->
          IF q = p THEN [version |-> c.version, hot |-> hot] ELSE index[q]]

(* findWritableGenerationIds, with the repairs it makes on the way.        *)
IsBuilding(g) == g # 0 /\ generation[g].status = "BUILDING"
IsServing(g)  == g # 0 /\ generation[g].status \in {"ACTIVE", "BUILDING"}

Repaired ==
  LET r      == redis
      served == IF r.active = 0 \/ IsServing(r.active) THEN r
                ELSE [r EXCEPT !.active = 0, !.ready = @ \ {r.active}]
      orphan == {g \in Generations : IsBuilding(g)}
  IN  IF r.building # 0 /\ IsBuilding(r.building)
      THEN [served EXCEPT !.marked = @ \cup {r.building}]
      ELSE IF r.building # 0
      THEN [served EXCEPT !.building = 0, !.marked = @ \ {r.building}]
      ELSE IF orphan # {}
      THEN [served EXCEPT !.building = Max(orphan), !.marked = @ \cup {Max(orphan)}]
      ELSE served

WritableIds(r) == {r.active, r.building} \ {0}

(* The active pointer without its marker makes every reader throw.         *)
Inconsistent == redis.active # 0 /\ redis.active \notin redis.ready

-----------------------------------------------------------------------------
(* The candidate worker: dispatchDirtyCandidates and syncCandidate.        *)

DispatchCandidates ==
  /\ syncing = NoIndexJob /\ ~Inconsistent
  /\ redis' = Repaired
  /\ WritableIds(Repaired) # {}
  /\ \E p \in HotPosts :
       /\ candidate[p].dirty /\ ~candidate[p].live
       /\ candidate' = [candidate EXCEPT ![p].live = TRUE]
       /\ syncQueue' = syncQueue \cup {p}
  /\ UNCHANGED <<generation, jobs, syncing, building, hotChanges, indexFaults>>

ReadCandidate ==
  /\ syncing = NoIndexJob
  /\ \E p \in syncQueue :
       /\ syncing' = [at |-> "read", post |-> p, state |-> candidate[p]]
       /\ syncQueue' = syncQueue \ {p}
  /\ UNCHANGED <<candidate, generation, redis, jobs, building, hotChanges,
                 indexFaults>>

FindWritable ==
  /\ syncing.at = "read" /\ ~Inconsistent
  /\ redis' = Repaired
  /\ \/ /\ WritableIds(Repaired) # {}
        /\ syncing' = [at |-> "apply", post |-> syncing.post, state |-> syncing.state,
                        left |-> WritableIds(Repaired)]
        /\ UNCHANGED candidate
     \/ /\ WritableIds(Repaired) = {}
        /\ syncing' = NoIndexJob
        /\ candidate' = IF candidate[syncing.post].dirty
                        THEN [candidate EXCEPT ![syncing.post].live = FALSE]
                        ELSE candidate
  /\ UNCHANGED <<generation, syncQueue, jobs, building, hotChanges, indexFaults>>

ApplyMember ==
  /\ syncing.at = "apply" /\ syncing.left # {}
  /\ \E g \in syncing.left :
       \/ /\ Writable(redis, g)
          /\ redis' = [redis EXCEPT !.index[g] = Entered(@, syncing.post, syncing.state)]
          /\ syncing' = [syncing EXCEPT !.left = @ \ {g}]
       \/ /\ ~Writable(redis, g)      \* -1: the attempt throws
          /\ syncing' = NoIndexJob
          /\ UNCHANGED redis
  /\ UNCHANGED <<candidate, generation, syncQueue, jobs, building, hotChanges,
                 indexFaults>>

(* Mutant: the claim is kept.                                              *)
BugClaimKept(c, version) ==
  IF c.version = version THEN [c EXCEPT !.synced = version, !.dirty = FALSE] ELSE c

Synced(c, version) ==
  IF c.version = version
  THEN [c EXCEPT !.synced = version, !.dirty = FALSE, !.live = FALSE] ELSE c

EndSync ==
  /\ syncing.at = "apply" /\ syncing.left = {}
  /\ candidate' = [candidate EXCEPT ![syncing.post] =
                     Synced(@, syncing.state.version)]
  /\ syncing' = NoIndexJob
  /\ UNCHANGED <<generation, redis, syncQueue, jobs, building, hotChanges,
                 indexFaults>>

(* After a failed attempt or a dropped job the claim runs out.             *)
CandidateClaimExpires(p) ==
  /\ candidate[p].live /\ p \notin syncQueue
  /\ ~(syncing # NoIndexJob /\ syncing.post = p)
  /\ candidate' = [candidate EXCEPT ![p].live = FALSE]
  /\ UNCHANGED <<generation, redis, syncQueue, jobs, syncing, building,
                 hotChanges, indexFaults>>

-----------------------------------------------------------------------------
(* The maintenance queue.  A job that has failed for good is kept, and one *)
(* more job with its jobId is not accepted.                                *)

RebuildJob(g, v) == <<"rebuild", g, v>>
CleanupJob(g, v) == <<"cleanup", g, v>>

Enqueued(js, ids) ==
  [id \in DOMAIN js \cup ids |->
     IF id \in DOMAIN js THEN js[id] ELSE [tries |-> 0, failed |-> FALSE]]

Dropped(js, id) == [i \in DOMAIN js \ {id} |-> js[i]]

Waiting == {id \in DOMAIN jobs : ~jobs[id].failed}

(* retireGeneration for the generations gs, now SUPERSEDED                 *)
Retired(r, gs) ==
  [r EXCEPT !.ready = @ \ gs, !.marked = @ \ gs,
            !.building = IF @ \in gs THEN 0 ELSE @]

CleanupOf(gs) == {CleanupJob(g, generation[g].version) : g \in gs}

MaintenanceKeeps == UNCHANGED <<candidate, syncQueue, syncing, hotChanges>>

(* reconcileActiveGeneration: what an earlier generation left behind.      *)
Obsolete(active) ==
  {g \in Generations \ {active} : generation[g].status = "ACTIVE"}

(* ensureCandidateGeneration, until it has looked at the ready generation: *)
(* leftovers are retired, one that was activated by a job that died before *)
(* it could say so becomes ACTIVE, and older ones are retired as well.     *)
EnsureReady ==
  /\ building = NoIndexJob /\ ~Inconsistent
  /\ LET superseded == {g \in Generations : generation[g].status = "SUPERSEDED"}
         after      == Retired(redis, superseded)
         serves     == IsServing(after.active)
         obsolete   == IF serves THEN Obsolete(after.active) ELSE {}
         cleared    == IF serves THEN after
                       ELSE [after EXCEPT !.active = 0, !.ready = @ \ {after.active}]
     IN  /\ redis' = Retired(cleared, obsolete)
         /\ generation' = [g \in Generations |->
              IF g \in obsolete THEN [generation[g] EXCEPT !.status = "SUPERSEDED",
                                                           !.claimed = FALSE]
              ELSE IF serves /\ g = after.active /\ IsBuilding(g)
              THEN [generation[g] EXCEPT !.status = "ACTIVE", !.claimed = FALSE]
              ELSE generation[g]]
         /\ jobs' = Enqueued(jobs, CleanupOf(superseded \cup obsolete))
         /\ building' = [at |-> "ensure", healthy |-> serves]
  /\ MaintenanceKeeps /\ UNCHANGED indexFaults

(* A generation is created unless one is being built or one serves.        *)
EnsureBuilding ==
  /\ building.at = "ensure"
  /\ \/ /\ \E g \in Generations : IsBuilding(g)
        /\ building' = [at |-> "announce"]
        /\ UNCHANGED generation
     \/ /\ ~\E g \in Generations : IsBuilding(g)
        /\ building.healthy
        /\ building' = NoIndexJob
        /\ UNCHANGED generation
     \/ /\ ~\E g \in Generations : IsBuilding(g)
        /\ ~building.healthy
        /\ LET unused == {g \in Generations : generation[g] = NoGeneration} IN
           /\ unused # {}
           /\ generation' = [generation EXCEPT ![Min(unused)] =
                [status |-> "BUILDING", version |-> 1, cursor |-> 0, claimed |-> FALSE]]
        /\ building' = [at |-> "announce"]
  /\ MaintenanceKeeps /\ UNCHANGED <<redis, jobs, indexFaults>>

Announce ==
  /\ building.at = "announce"
  /\ \E g \in Generations :
       /\ IsBuilding(g)
       /\ redis' = [redis EXCEPT !.building = g, !.marked = @ \cup {g}]
       /\ jobs' = Enqueued(jobs, {RebuildJob(g, generation[g].version)})
  /\ building' = NoIndexJob
  /\ MaintenanceKeeps /\ UNCHANGED <<generation, indexFaults>>

(* rebuildCandidateBatch                                                   *)
TakeRebuild ==
  /\ building = NoIndexJob
  /\ \E id \in Waiting :
       LET g == id[2] IN
       /\ id[1] = "rebuild"
       /\ \/ /\ IsBuilding(g) /\ generation[g].version = id[3] /\ ~generation[g].claimed
             /\ g \in redis.marked
             /\ generation' = [generation EXCEPT ![g].claimed = TRUE]
             /\ building' = [at |-> "claimed", id |-> id]
             /\ UNCHANGED jobs
          \/ /\ ~(IsBuilding(g) /\ generation[g].version = id[3] /\ ~generation[g].claimed)
             /\ jobs' = Dropped(jobs, id)
             /\ UNCHANGED <<generation, building>>
  /\ MaintenanceKeeps /\ UNCHANGED <<redis, indexFaults>>

(* The first RebuildBatch hot states after the cursor, as they are now.    *)
Rest(cursor) ==
  {p \in HotPosts : p > cursor /\ candidate[p].shown /\ candidate[p].eligible}

BatchAfter(cursor) ==
  {p \in Rest(cursor) : Cardinality({q \in Rest(cursor) : q < p}) < RebuildBatch}

ReadBatch ==
  /\ building.at = "claimed"
  /\ LET g     == building.id[2]
         batch == BatchAfter(generation[g].cursor)
     IN  building' = [at |-> "batch", id |-> building.id,
                      batch |-> [p \in batch |-> candidate[p]]]
  /\ MaintenanceKeeps /\ UNCHANGED <<generation, redis, jobs, indexFaults>>

ApplyBatch ==
  /\ building.at = "batch"
  /\ LET g     == building.id[2]
         batch == building.batch
     IN  /\ Writable(redis, g) \/ DOMAIN batch = {}
         /\ redis' = [redis EXCEPT !.index[g] =
              [p \in DOMAIN redis.index[g] \cup DOMAIN batch |->
                 IF p \in DOMAIN batch
                 THEN Entered(redis.index[g], p, batch[p])[p] ELSE redis.index[g][p]]]
         /\ building' =
              IF Cardinality(DOMAIN batch) < RebuildBatch
              THEN [at |-> "activate", id |-> building.id]
              ELSE [at |-> "advance", id |-> building.id, last |-> Max(DOMAIN batch)]
  /\ MaintenanceKeeps /\ UNCHANGED <<generation, jobs, indexFaults>>

Advance ==
  /\ building.at = "advance"
  /\ LET g == building.id[2]
         v == building.id[3]
     IN  /\ generation' = [generation EXCEPT ![g].cursor = building.last,
                             ![g].claimed = FALSE, ![g].version = v + 1]
         /\ jobs' = Enqueued(Dropped(jobs, building.id), {RebuildJob(g, v + 1)})
  /\ building' = NoIndexJob
  /\ MaintenanceKeeps /\ UNCHANGED <<redis, indexFaults>>

(* finalizeGeneration: the pointers first, then MongoDB.                   *)
Activate ==
  /\ building.at = "activate"
  /\ LET g == building.id[2] IN
     /\ redis.building = g
     /\ redis' = [redis EXCEPT !.ready = @ \cup {g}, !.active = g, !.building = 0,
                               !.marked = @ \ {g}]
     /\ building' = [at |-> "activated", id |-> building.id, previous |-> redis.active]
  /\ MaintenanceKeeps /\ UNCHANGED <<generation, jobs, indexFaults>>

Finalize ==
  /\ building.at = "activated"
  /\ LET g   == building.id[2]
         old == {building.previous} \ {0, g}
     IN  /\ generation' = [h \in Generations |->
              IF h = g THEN [generation[g] EXCEPT !.status = "ACTIVE",
                               !.claimed = FALSE, !.version = @ + 1]
              ELSE IF h \in old THEN [generation[h] EXCEPT !.status = "SUPERSEDED",
                                                           !.claimed = FALSE]
              ELSE generation[h]]
         /\ redis' = Retired(redis, old)
         /\ jobs' = Enqueued(Dropped(jobs, building.id), CleanupOf(old))
  /\ building' = NoIndexJob
  /\ MaintenanceKeeps /\ UNCHANGED indexFaults

(* cleanupGeneration: all the keys of one generation.                      *)
Cleanup ==
  /\ building = NoIndexJob
  /\ \E id \in Waiting :
       /\ id[1] = "cleanup"
       /\ LET g == id[2]
              holds == /\ generation[g].status = "SUPERSEDED"
                       /\ generation[g].version = id[3] /\ ~generation[g].claimed
          IN  IF holds
              THEN /\ redis' = [redis EXCEPT !.index[g] = <<>>]
                   /\ generation' = [generation EXCEPT ![g] = [status |-> "deleted"]]
              ELSE UNCHANGED <<redis, generation>>
       /\ jobs' = Dropped(jobs, id)
  /\ MaintenanceKeeps /\ UNCHANGED <<building, indexFaults>>

GenerationClaimExpires ==
  /\ building = NoIndexJob
  /\ \E g \in Generations :
       /\ generation[g].status \in {"BUILDING", "SUPERSEDED"} /\ generation[g].claimed
       /\ generation' = [generation EXCEPT ![g].claimed = FALSE]
  /\ MaintenanceKeeps /\ UNCHANGED <<redis, jobs, building, indexFaults>>

-----------------------------------------------------------------------------
(* Faults.                                                                 *)

(* An attempt of job id fails; the last one leaves it among the failed.    *)
Failed(js, id) ==
  [js EXCEPT ![id] = [tries |-> @.tries + 1, failed |-> @.tries + 1 = IndexAttempts]]

(* The claim of a rebuild or a cleanup throws.                             *)
ClaimThrows ==
  /\ building = NoIndexJob /\ indexFaults < MaxIndexFaults
  /\ \E id \in Waiting : jobs' = Failed(jobs, id)
  /\ indexFaults' = indexFaults + 1
  /\ MaintenanceKeeps /\ UNCHANGED <<generation, redis, building>>

(* The marker is missing: the claim is given back and the attempt fails.   *)
MarkerMissing ==
  /\ building = NoIndexJob
  /\ \E id \in Waiting :
       /\ id[1] = "rebuild" /\ IsBuilding(id[2])
       /\ generation[id[2]].version = id[3] /\ ~generation[id[2]].claimed
       /\ id[2] \notin redis.marked
       /\ jobs' = Failed(jobs, id)
  /\ MaintenanceKeeps /\ UNCHANGED <<generation, redis, building, indexFaults>>

(* A later call throws, or the process dies; the claim stays.              *)
MaintenanceDies ==
  /\ building # NoIndexJob /\ indexFaults < MaxIndexFaults
  /\ jobs' = IF building.at \in {"ensure", "announce"} THEN jobs
             ELSE Failed(jobs, building.id)
  /\ building' = NoIndexJob
  /\ indexFaults' = indexFaults + 1
  /\ MaintenanceKeeps /\ UNCHANGED <<generation, redis>>

SyncDies ==
  /\ syncing # NoIndexJob /\ indexFaults < MaxIndexFaults
  /\ syncing' = NoIndexJob
  /\ indexFaults' = indexFaults + 1
  /\ UNCHANGED <<candidate, generation, redis, syncQueue, jobs, building,
                 hotChanges>>

(* Redis comes back empty, the queues with it, while no generation is      *)
(* being built.                                                            *)
RedisLost ==
  /\ indexFaults < MaxIndexFaults
  /\ \A g \in Generations : ~IsBuilding(g)
  /\ building = NoIndexJob /\ syncing = NoIndexJob
  /\ redis' = EmptyRedis
  /\ syncQueue' = {}
  /\ jobs' = <<>>
  /\ indexFaults' = indexFaults + 1
  /\ UNCHANGED <<candidate, generation, syncing, building, hotChanges>>

-----------------------------------------------------------------------------
SyncStep ==
  \/ DispatchCandidates \/ ReadCandidate \/ FindWritable \/ ApplyMember \/ EndSync

EnsureStep == EnsureReady \/ EnsureBuilding \/ Announce

RebuildStep ==
  TakeRebuild \/ ReadBatch \/ ApplyBatch \/ Advance \/ Activate \/ Finalize

IndexNext ==
  \/ \E p \in HotPosts : \/ CountsChange(p) \/ NewActivity(p) \/ WindowCloses(p)
                         \/ VisibilityChanges(p) \/ Refresh(p)
                         \/ CandidateClaimExpires(p)
  \/ SyncStep \/ EnsureStep \/ RebuildStep \/ Cleanup \/ GenerationClaimExpires
  \/ ClaimThrows \/ MarkerMissing \/ MaintenanceDies \/ SyncDies \/ RedisLost

(* The schedulers repeat the sweeps, and a queue gives out what waits in   *)
(* the order of its arrival, so that the repeated ensure job starves none. *)
IndexFairness ==
  /\ WF_indexVars(SyncStep) /\ WF_indexVars(EnsureStep)
  /\ SF_indexVars(RebuildStep) /\ SF_indexVars(Cleanup)
  /\ SF_indexVars(GenerationClaimExpires)
  /\ \A p \in HotPosts :
       WF_indexVars(Refresh(p)) /\ WF_indexVars(CandidateClaimExpires(p))

IndexSpec == IndexInit /\ [][IndexNext]_indexVars /\ IndexFairness

-----------------------------------------------------------------------------
(* What must hold.                                                         *)

IndexTypeOK ==
  /\ \A p \in HotPosts : /\ candidate[p].synced <= candidate[p].version
                         /\ candidate[p].live => candidate[p].dirty
  /\ \A g \in Generations :
       generation[g].status \in {"none", "BUILDING", "ACTIVE", "SUPERSEDED", "deleted"}
  /\ {redis.active, redis.building} \subseteq Generations \cup {0}
  /\ redis.ready \cup redis.marked \subseteq Generations
  /\ syncQueue \subseteq HotPosts
  /\ \A id \in DOMAIN jobs : jobs[id].tries \in 0 .. IndexAttempts

(* A reader that finds the active generation finds its marker as well: the *)
(* retirement of an old generation, a job that died half-way and the       *)
(* repairs of both workers never leave a pointer that makes readers throw. *)
ReadersNeverThrow == ~Inconsistent

(* A post is in the generation that readers see as soon as nothing of it   *)
(* is left to do, whether a batch or the candidate worker has written it:  *)
(* no post slips through between the batch that reads it and the worker    *)
(* that asks which generations are writable, and no late batch undoes a    *)
(* later write.  The exception is a post that has wavered.                 *)
IndexIsComplete ==
  \A p \in HotPosts :
    /\ redis.active # 0
    /\ ~candidate[p].dirty /\ ~candidate[p].pending /\ ~candidate[p].expired
    /\ ~candidate[p].wavered
    => (Member(redis, redis.active, p) <=> candidate[p].eligible)

(* What a reader of the hot feed relies on.                                *)
IndexServesReaders == ReadersNeverThrow /\ IndexIsComplete

(* With fewer failures than attempts the index is there in the end, every  *)
(* post has been written, and old generations have been removed.           *)
IndexIsThere ==
  /\ redis.active # 0
  /\ \A p \in HotPosts : ~candidate[p].dirty
  /\ \A g \in Generations \ {redis.active} :
       generation[g].status \in {"none", "deleted"}

=============================================================================
