---------------------------- MODULE DedupQueue ----------------------------
(***************************************************************************)
(* A BullMQ queue as seen by the jobs of one deduplication id that are     *)
(* added with keepLastIfActive: at most one of them waits and one is       *)
(* active.  While one waits, another is dropped; while one is active, the  *)
(* last one added is kept and waits as soon as the active one is finished. *)
(* A job whose attempt throws, or whose worker went silent, waits again    *)
(* and keeps its data.                                                     *)
(***************************************************************************)
LOCAL INSTANCE Naturals

NoJob == [tries |-> 0]

EmptyQueue == [waiting |-> NoJob, active |-> NoJob, next |-> NoJob]

Waits(q)    == q.waiting # NoJob
IsActive(q) == q.active # NoJob

(* Queue.add: the job j, whose first try is to come.                       *)
Added(q, j) ==
  IF IsActive(q) THEN [q EXCEPT !.next = j]
  ELSE IF Waits(q) THEN q
  ELSE [q EXCEPT !.waiting = j]

Taken(q) == [q EXCEPT !.waiting = NoJob, !.active = q.waiting]

(* The active job has completed, or failed its last attempt.               *)
Finished(q) == [waiting |-> q.next, active |-> NoJob, next |-> NoJob]

(* The attempt of the active job failed and it has another one.            *)
Retried(q) ==
  [q EXCEPT !.waiting = [q.active EXCEPT !.tries = @ + 1], !.active = NoJob]

(* The worker of the active job died; stalled jobs are given out again.    *)
Stalled(q) == [q EXCEPT !.waiting = q.active, !.active = NoJob]

=============================================================================
