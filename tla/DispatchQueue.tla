---------------------------- MODULE DispatchQueue ----------------------------
(***************************************************************************)
(* scheduler/state.py: the job queue (a thread-safe queue.Queue) and the   *)
(* per-job count of failed dispatches.                                     *)
(***************************************************************************)
EXTENDS Naturals, Sequences, FiniteSets

VARIABLES
  job_queue,         \* waiting jobs, oldest first
  dispatch_attempts  \* job id -> failed dispatches so far

queueVars == <<job_queue, dispatch_attempts>>

-----------------------------------------------------------------------------
QueueInit ==
  /\ job_queue = << >>
  /\ dispatch_attempts = [key \in {} |-> 0]

enqueue_job(j) ==
  /\ job_queue' = Append(job_queue, j)
  /\ UNCHANGED dispatch_attempts

(* Mutant: the head of the queue is read and left there. *)
dequeue_job_peek ==
  /\ job_queue # << >>
  /\ UNCHANGED queueVars

(* get(timeout=1); an empty queue gives None and changes nothing. *)
dequeue_job ==
  /\ job_queue # << >>
  /\ job_queue' = Tail(job_queue)
  /\ UNCHANGED dispatch_attempts

Attempts(j) == IF j \in DOMAIN dispatch_attempts THEN dispatch_attempts[j] ELSE 0

record_dispatch_failure(j) ==
  dispatch_attempts' = [k \in DOMAIN dispatch_attempts \cup {j} |->
                          IF k = j THEN Attempts(j) + 1 ELSE dispatch_attempts[k]]

forget_dispatch_attempts(j) ==
  dispatch_attempts' = [k \in DOMAIN dispatch_attempts \ {j} |-> dispatch_attempts[k]]

(* The jobs waiting, as a set. *)
Queued == {job_queue[i] : i \in 1 .. Len(job_queue)}
=============================================================================
