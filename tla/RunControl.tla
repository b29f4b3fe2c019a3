----------------------------- MODULE RunControl -----------------------------
(***************************************************************************)
(* Experiment runs on top of Scheduler: start_run and finish_run of        *)
(* scheduler/main.py, the runs table of scheduler/db.py, and the tagging   *)
(* of submitted jobs with the open run.                                    *)
(*                                                                         *)
(* run_lock serialises start_run and finish_run with each other, and with  *)
(* nothing else: submissions and the dispatcher interleave with each of    *)
(* their steps.  At most one handler is past the lock, so one variable,    *)
(* handler, is the program counter of the handler that has it.             *)
(***************************************************************************)
EXTENDS Scheduler, SequencesExt

CONSTANT MaxIndex  \* bound on the policy's counter

ASSUME RunControlAssumption == MaxIndex \in Nat \ {0}

VARIABLES
  active_run_id,  \* the open run, or NoRun
  runs,           \* run id -> "open" or "finished"
  handler,        \* next step of the handler that holds run_lock
  run_read,       \* job -> active_run_id as its submit handler read it
  policy_index,   \* nodes the current policy object has chosen so far
  submitted_before,  \* history: jobs submitted before the last start_run began
  interrupted        \* history: runs that were open when the scheduler died

runVars == <<active_run_id, runs, handler, policy_index, submitted_before, interrupted>>
rcVars == <<vars, runVars, run_read>>

HandlerStep == {"free", "no_queue", "drained", "new_policy", "row_finished"}

-----------------------------------------------------------------------------
RCInit ==
  /\ Init
  /\ active_run_id = NoRun
  /\ runs = NoRows
  /\ handler = "free"
  /\ run_read = NoRows
  /\ policy_index = 0
  /\ submitted_before = {}
  /\ interrupted = {}

-----------------------------------------------------------------------------
(* Mutant: start_run does not look whether a run is open. *)
StartRunUnchecked ==
  /\ handler = "free"
  /\ job_queue = << >>
  /\ handler' = "no_queue"
  /\ submitted_before' = submitted
  /\ UNCHANGED <<vars, run_read, active_run_id, runs, policy_index, interrupted>>

(* start_run takes the lock, sees no open run and an empty queue; with     *)
(* either check failing it answers 409 and changes nothing.                *)
StartRun ==
  /\ handler = "free"
  /\ active_run_id = NoRun
  /\ job_queue = << >>
  /\ handler' = "no_queue"
  /\ submitted_before' = submitted
  /\ UNCHANGED <<vars, run_read, active_run_id, runs, policy_index, interrupted>>

(* It then adds up running_jobs: drained, or 409. *)
StartRunCount ==
  /\ handler = "no_queue"
  /\ handler' = IF \A n \in DOMAIN running_jobs : running_jobs[n] = 0
                THEN "drained" ELSE "free"
  /\ UNCHANGED <<vars, run_read, active_run_id, runs, policy_index, submitted_before,
                 interrupted>>

(* A new policy object, even for the same policy. *)
StartRunPolicy ==
  /\ handler = "drained"
  /\ policy_index' = 0
  /\ handler' = "new_policy"
  /\ UNCHANGED <<vars, run_read, active_run_id, runs, submitted_before, interrupted>>

(* Mutant: the run is made active without its row. *)
StartRunOpenWithoutRow(run) ==
  /\ handler = "new_policy"
  /\ run \notin DOMAIN runs
  /\ active_run_id' = run
  /\ handler' = "free"
  /\ UNCHANGED <<vars, run_read, runs, policy_index, submitted_before,
                 interrupted>>

(* The row is inserted under a fresh uuid, then the run becomes active.    *)
(* Nobody can refer to the row before, so this is one step.                *)
StartRunOpen(run) ==
  /\ handler = "new_policy"
  /\ run \notin DOMAIN runs
  /\ runs' = Store(runs, run, "open")
  /\ active_run_id' = run
  /\ handler' = "free"
  /\ UNCHANGED <<vars, run_read, policy_index, submitted_before,
                 interrupted>>

(* The INSERT fails; the policy object has been replaced all the same. *)
StartRunOpenFails ==
  /\ "start_run_failed" \in Faults
  /\ handler = "new_policy"
  /\ handler' = "free"
  /\ UNCHANGED <<vars, run_read, active_run_id, runs, policy_index, submitted_before,
                 interrupted>>

(* Mutant: finish_run does not look whether a run is open. *)
FinishRunUnchecked ==
  /\ handler = "free"
  /\ runs' = Store(runs, active_run_id, "finished")
  /\ handler' = "row_finished"
  /\ UNCHANGED <<vars, run_read, active_run_id, policy_index, submitted_before,
                 interrupted>>

(* finish_run takes the lock, sees a run open and stamps its row; without  *)
(* one it answers 409.                                                     *)
FinishRun ==
  /\ handler = "free"
  /\ active_run_id # NoRun
  /\ runs' = [runs EXCEPT ![active_run_id] = "finished"]
  /\ handler' = "row_finished"
  /\ UNCHANGED <<vars, run_read, active_run_id, policy_index, submitted_before,
                 interrupted>>

FinishRunClose ==
  /\ handler = "row_finished"
  /\ active_run_id' = NoRun
  /\ handler' = "free"
  /\ UNCHANGED <<vars, run_read, runs, policy_index, submitted_before,
                 interrupted>>

-----------------------------------------------------------------------------
(* submit_job reads active_run_id, without run_lock, after it has enqueued *)
(* the job and before it inserts the row.                                  *)
SubmitReadRun(j) ==
  /\ j \in submitting \ DOMAIN run_read
  /\ run_read' = Store(run_read, j, active_run_id)
  /\ UNCHANGED <<vars, runVars>>

SubmitInsertTagged(j) ==
  /\ j \in DOMAIN run_read
  /\ SubmitInsert(j, run_read[j])
  /\ UNCHANGED <<runVars, run_read>>

(* RoundRobinPolicy.select_node counts every choice it makes.  The counter *)
(* is capped at MaxIndex; only whether it is zero matters here.            *)
SelectAndCount(n) ==
  /\ DispatcherSelect(n)
  /\ policy_index' = IF policy_index < MaxIndex THEN policy_index + 1 ELSE MaxIndex
  /\ UNCHANGED <<run_read, active_run_id, runs, handler, submitted_before, interrupted>>

-----------------------------------------------------------------------------
(* Mutant: the rows still in flight are put back on the queue. *)
SchedulerRestartResumes ==
  /\ "scheduler_crash" \in Faults
  /\ registrations' = {} /\ last_heartbeat' = {} /\ lapsed' = {}
  /\ running_jobs' = EmptyDict /\ allocated_memory' = EmptyDict
  /\ reservations' = EmptyDict
  /\ job_queue' = SetToSeq({j \in DOMAIN jobs : jobs[j].status \notin Terminal})
  /\ dispatch_attempts' = EmptyDict
  /\ held' = NoJob /\ selected' = NoNode
  /\ dispatch' = EmptyDict
  /\ submitting' = {} /\ run_read' = NoRows
  /\ callback_sent' \in SUBSET callback_sent /\ callback_released' = {}
  /\ active_run_id' = NoRun /\ handler' = "free" /\ policy_index' = 0
  /\ interrupted' = interrupted \cup {run \in DOMAIN runs : runs[run] = "open"}
  /\ UNCHANGED <<storeVars, submitted, abandoned, processVars, executionVars, runs,
                 submitted_before>>

(* The scheduler process dies and is started again over its database, from *)
(* which startup_event reads nothing back.  All that was in memory is gone *)
(* with every thread and handler; agents and containers go on, and reports *)
(* sent meanwhile may not arrive.                                          *)
SchedulerRestart ==
  /\ "scheduler_crash" \in Faults
  /\ registrations' = {} /\ last_heartbeat' = {} /\ lapsed' = {}
  /\ running_jobs' = EmptyDict /\ allocated_memory' = EmptyDict
  /\ reservations' = EmptyDict
  /\ job_queue' = << >> /\ dispatch_attempts' = EmptyDict
  /\ held' = NoJob /\ selected' = NoNode
  /\ dispatch' = EmptyDict
  /\ submitting' = {} /\ run_read' = NoRows
  /\ callback_sent' \in SUBSET callback_sent /\ callback_released' = {}
  /\ active_run_id' = NoRun /\ handler' = "free" /\ policy_index' = 0
  /\ interrupted' = interrupted \cup {run \in DOMAIN runs : runs[run] = "open"}
  /\ UNCHANGED <<storeVars, submitted, abandoned, processVars, executionVars, runs,
                 submitted_before>>

-----------------------------------------------------------------------------
RCNext ==
  \/ StartRun \/ StartRunCount \/ StartRunPolicy \/ StartRunOpenFails
  \/ \E run \in Run : StartRunOpen(run)
  \/ FinishRun \/ FinishRunClose
  \/ \E j \in Job : SubmitReadRun(j) \/ SubmitInsertTagged(j)
  \/ \E n \in Node : SelectAndCount(n)
  \/ OtherStep /\ UNCHANGED <<runVars, run_read>>
  \/ SchedulerRestart

RCSpec == RCInit /\ [][RCNext]_rcVars

-----------------------------------------------------------------------------
RCTypeOK ==
  /\ active_run_id \in Run \cup {NoRun}
  /\ DOMAIN runs \subseteq Run
  /\ \A run \in DOMAIN runs : runs[run] \in {"open", "finished"}
  /\ handler \in HandlerStep
  /\ DOMAIN run_read \subseteq submitted
  /\ \A j \in DOMAIN run_read : run_read[j] \in Run \cup {NoRun}
  /\ policy_index \in 0 .. MaxIndex
  /\ submitted_before \subseteq submitted
  /\ interrupted \subseteq DOMAIN runs

(* At most one run is open, and it is the active one: two start_run, or a  *)
(* start_run and a finish_run, never leave a run open that nobody can      *)
(* finish (start_run, main.py:482-487; finish_run, main.py:554-560).  Only *)
(* the death of the scheduler does, and such a run stays open for good.    *)
OneOpenRun ==
  \A run \in DOMAIN runs :
    runs[run] = "open" <=>
      run \in interrupted \/ (run = active_run_id /\ handler # "row_finished")

(* A job is never tagged with a run that has no row, so that the export of *)
(* every run can be found (submit_job, main.py:608-615; start_run,         *)
(* main.py:521-530), although the tag is read without the lock.            *)
TagsHaveRun ==
  \A j \in DOMAIN jobs : jobs[j].run_id # NoRun => jobs[j].run_id \in DOMAIN runs

Settled(j) ==
  /\ j \notin Queued /\ j # held /\ j \notin DOMAIN dispatch
  /\ \A e \in Outstanding : e.job # j

(* An open run overlaps with no job submitted before it was started: start *)
(* requires a drained cluster (start_run, main.py:475-477).                *)
RunStartsDrained ==
  active_run_id # NoRun => \A j \in submitted_before : Settled(j)
=============================================================================
