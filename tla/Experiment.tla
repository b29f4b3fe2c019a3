----------------------------- MODULE Experiment -----------------------------
(***************************************************************************)
(* experiments/run_experiment.py: one run of the harness over Scheduler,   *)
(* with the timestamps its report is computed from.  The harness waits for *)
(* nodes, opens the run, submits a trace job by job, polls until the run   *)
(* has drained or its patience ends, closes the run and exports it.        *)
(*                                                                         *)
(* The times of a job come from three hosts: submitted_at is the client's,  *)
(* dispatched_at the scheduler's, completed_at the agent's.  The model      *)
(* keeps the moments of a reference clock at which they were read;         *)
(* get_run_jobs shows what the hosts read.  The clock of a host is ahead   *)
(* of the reference clock by a constant of its own, or behind it: nothing  *)
(* keeps hosts together, but none is set, or runs faster, during a run.    *)
(* A time is read as soon as the step that reads it begins.                *)
(***************************************************************************)
EXTENDS Scheduler, Metrics, SequencesExt

CONSTANTS
  Trace,         \* the jobs in the order of the trace
  WorkloadType,  \* WorkloadType[j]: requirements.workload_type
  ExpectNodes,   \* --expect-nodes
  ThisRun,       \* the id of the run
  ClientAhead,     \* how far the harness's clock is ahead of the reference
  SchedulerAhead,  \* the same of the scheduler's clock
  AgentAhead,      \* AgentAhead[n]: the same of the clock of node n
  MaxClock       \* bound on the reference clock

(* Failing transactions are left to the other modules. *)
ASSUME ExperimentAssumption ==
  /\ Trace \in Seq(Job) /\ IsInjective(Trace)
  /\ ThisRun \in Run /\ None \notin Node /\ None \notin BOOLEAN
  /\ "db_error" \notin Faults
  /\ ClientAhead \in Int /\ SchedulerAhead \in Int /\ AgentAhead \in [Node -> Int]
  /\ MaxClock \in Nat

VARIABLES
  clock,             \* the reference clock
  harness,           \* what the harness does next
  drained,           \* wait_for_drain saw every job terminal
  cluster_snapshot,  \* node -> cores, as stored with the run
  summary,           \* what was exported, or None
  submitted_at,      \* job -> moment; a column of its row
  thread_started,    \* job -> dispatched_at of its live dispatch thread
  dispatched_at,     \* job -> moment; a column of its row
  started,           \* outstanding execution -> moment its container was started
  ended,             \* execution being reported -> moment its container ended
  result_times,      \* job -> [runtime_seconds, completed_at] of its result
  unrecorded         \* history: jobs dispatched before their row existed

harnessVars == <<harness, drained, cluster_snapshot, summary>>
timeVars == <<submitted_at, thread_started, dispatched_at, started, ended,
              result_times, unrecorded>>
eVars == <<vars, clock, harnessVars, timeVars>>

HarnessStep == {"nodes", "start", "submit", "drain", "finish", "export", "done", "failed"}

-----------------------------------------------------------------------------
EInit ==
  /\ Init
  /\ clock = 0
  /\ harness = "nodes"
  /\ drained = FALSE
  /\ cluster_snapshot = EmptyDict
  /\ summary = None
  /\ submitted_at = EmptyDict
  /\ thread_started = EmptyDict
  /\ dispatched_at = EmptyDict
  /\ started = EmptyDict
  /\ ended = EmptyDict
  /\ result_times = EmptyDict
  /\ unrecorded = {}

Tick ==
  /\ clock < MaxClock
  /\ clock' = clock + 1
  /\ UNCHANGED <<vars, harnessVars, timeVars>>

-----------------------------------------------------------------------------
(* The rows of the run joined with their results, NULL where there is none. *)
(* Every time is as the host read it that took it; runtime_seconds is the   *)
(* difference of two times of one host.                                     *)
get_run_jobs(run) ==
  [j \in {k \in DOMAIN jobs : jobs[k].run_id = run} |->
     LET result(field) == IF j \in DOMAIN result_times THEN result_times[j][field] ELSE None
     IN  [status             |-> jobs[j].status,
          dispatched_to_node |-> IF jobs[j].dispatched_to_node = NoNode THEN None
                                 ELSE jobs[j].dispatched_to_node,
          workload_type      |-> WorkloadType[j],
          submitted_at       |-> submitted_at[j] + ClientAhead,
          dispatched_at      |-> IF j \in DOMAIN dispatched_at
                                 THEN dispatched_at[j] + SchedulerAhead ELSE None,
          runtime_seconds    |-> result("runtime_seconds"),
          completed_at       |-> IF j \in DOMAIN result_times
                                 THEN result_times[j].completed_at
                                        + AgentAhead[job_results[j].node_id]
                                 ELSE None,
          success            |-> IF j \in DOMAIN job_results THEN job_results[j].success
                                 ELSE None]]

(* Mutant: a job counts as done once it was dispatched. *)
TerminalOrDispatched(run) ==
  Cardinality({j \in DOMAIN jobs : jobs[j].run_id = run /\ jobs[j].status # "queued"})

(* progress["terminal"] *)
get_run_progress(run) ==
  Cardinality({j \in DOMAIN jobs : jobs[j].run_id = run /\ jobs[j].status \in Terminal})

-----------------------------------------------------------------------------
HarnessGoes(from, to) ==
  /\ harness = from
  /\ harness' = to
  /\ UNCHANGED <<vars, clock, timeVars>>

wait_for_nodes ==
  /\ HarnessGoes("nodes", "start")
  /\ Cardinality(registrations) >= ExpectNodes
  /\ UNCHANGED <<drained, cluster_snapshot, summary>>

(* The nodes do not register within 60 seconds: the harness exits. *)
wait_for_nodes_times_out ==
  /\ HarnessGoes("nodes", "failed")
  /\ UNCHANGED <<drained, cluster_snapshot, summary>>

(* POST /runs/start, which takes the snapshot of the cluster. *)
start_run ==
  /\ HarnessGoes("start", "submit")
  /\ cluster_snapshot' = [n \in registrations |-> Cpus[n]]
  /\ UNCHANGED <<drained, summary>>

(* The last job was answered. *)
submit_jobs_returns ==
  /\ HarnessGoes("submit", "drain")
  /\ submitted = ToSet(Trace) /\ submitting = {}
  /\ UNCHANGED <<drained, cluster_snapshot, summary>>

(* A POST /jobs is not answered in time, though it may still be handled:   *)
(* the rest of the trace is not submitted.  The `finally` of run_once still *)
(* closes the run, but nothing is exported.                                *)
submit_jobs_raises ==
  /\ "submit_failed" \in Faults
  /\ submitted # ToSet(Trace) \/ submitting # {}
  /\ HarnessGoes("submit", "failed")
  /\ UNCHANGED <<drained, cluster_snapshot, summary>>

(* Another request of run_once raises: the run is refused, the poll fails, *)
(* or the run cannot be closed or exported.  The `finally` closes the run  *)
(* here, too.                                                              *)
run_once_raises ==
  /\ \E step \in {"start", "drain", "finish", "export"} : HarnessGoes(step, "failed")
  /\ UNCHANGED <<drained, cluster_snapshot, summary>>

wait_for_drain ==
  /\ HarnessGoes("drain", "finish")
  /\ get_run_progress(ThisRun) >= Len(Trace)
  /\ drained' = TRUE
  /\ UNCHANGED <<cluster_snapshot, summary>>

(* The deadline passes; the run is closed and exported all the same. *)
wait_for_drain_times_out ==
  /\ HarnessGoes("drain", "finish")
  /\ UNCHANGED <<drained, cluster_snapshot, summary>>

(* POST /runs/finish *)
finish_run ==
  /\ HarnessGoes("finish", "export")
  /\ UNCHANGED <<drained, cluster_snapshot, summary>>

export_run ==
  /\ HarnessGoes("export", "done")
  /\ summary' = summarise(cluster_snapshot, get_run_jobs(ThisRun))
  /\ UNCHANGED <<drained, cluster_snapshot>>

-----------------------------------------------------------------------------
(* Moments at which a step takes timestamps: new keys get the present one,  *)
(* old ones keep theirs.  What the host reads then is left to get_run_jobs. *)
Stamped(times, keys) ==
  [k \in keys |-> IF k \in DOMAIN times THEN times[k] ELSE clock]

(* The jobs whose dispatch thread records its dispatch in this step. *)
Recorded == {j \in Job : AtStep(j, "accepted") /\ j \notin DOMAIN dispatch'}

(* Mutant: a dispatch is stored under a key that has no row, too. *)
DispatchUpsert == Recorded

(* The rows an UPDATE of dispatch_job finds. *)
DispatchUpdate == Recorded \cap DOMAIN jobs

(* Mutant: the time is read when the dispatch is recorded, after the POST. *)
DispatchTimeAfterPost(j) == clock

(* The time is read when the thread starts, before the POST. *)
DispatchTime(j) == thread_started[j]

(* submit_jobs waits for each answer before it sends the next job. *)
SubmitsInOrder ==
  submitted' # submitted =>
    /\ harness = "submit" /\ submitting = {}
    /\ submitted' \ submitted = {Trace[Cardinality(submitted) + 1]}

Timestamps ==
  /\ submitted_at' = Stamped(submitted_at, submitted')
  /\ thread_started' = Stamped(thread_started, DOMAIN dispatch')
  /\ started' = Stamped(started, Outstanding')
  /\ ended' = Stamped(ended, Reporting')
  /\ dispatched_at' =
       [j \in DOMAIN dispatched_at \cup DispatchUpdate |->
          IF j \in DispatchUpdate THEN DispatchTime(j) ELSE dispatched_at[j]]
  /\ result_times' =
       [j \in DOMAIN job_results' |->
          IF \E r \in callback_released \ callback_released' : r.execution.job = j
          THEN LET r == CHOOSE x \in callback_released \ callback_released' : TRUE
               IN  [runtime_seconds |-> ended[r.execution] - started[r.execution],
                    completed_at |-> ended[r.execution]]
          ELSE result_times[j]]
  /\ unrecorded' = unrecorded \cup (Recorded \ DOMAIN jobs)

(* What a submission finds as active_run_id: no run any more if the harness *)
(* gave up while the handler was at work, and closed the run.               *)
OpenRun == IF harness = "failed" THEN {ThisRun, NoRun} ELSE {ThisRun}

SchedulerStep ==
  /\ \/ OtherStep
     \/ \E n \in Node : DispatcherSelect(n)
     \/ \E j \in Job, run \in OpenRun : SubmitInsert(j, run)
  /\ SubmitsInOrder
  /\ Timestamps
  /\ UNCHANGED <<clock, harnessVars>>

ENext ==
  \/ SchedulerStep \/ Tick
  \/ wait_for_nodes \/ wait_for_nodes_times_out \/ start_run
  \/ submit_jobs_returns \/ submit_jobs_raises \/ run_once_raises
  \/ wait_for_drain \/ wait_for_drain_times_out
  \/ finish_run \/ export_run

ESpec == EInit /\ [][ENext]_eVars

-----------------------------------------------------------------------------
Rows == job_rows(get_run_jobs(ThisRun))
Nodes == LET rows == Rows IN node_rows(rows, cluster_snapshot, Makespan(rows))

(* Types of the harness and of the timestamps. *)
ETypeOK ==
  /\ clock \in 0 .. MaxClock
  /\ harness \in HarnessStep
  /\ drained \in BOOLEAN
  /\ DOMAIN cluster_snapshot \subseteq Node
  /\ DOMAIN submitted_at = submitted
  /\ DOMAIN thread_started = DOMAIN dispatch
  /\ DOMAIN dispatched_at \subseteq DOMAIN jobs
  /\ DOMAIN result_times = DOMAIN job_results
  /\ DOMAIN ended = Reporting /\ DOMAIN started = Outstanding

(* The timeline of a job (metrics.py:9-16) is in order but for what the    *)
(* clocks of its hosts differ, whichever of the dispatch thread and the    *)
(* callback writes first and however often the job was posted: the queue   *)
(* wait is not negative by more than the client is ahead of the scheduler, *)
(* the overhead not by more than the scheduler is ahead of the agent, and  *)
(* no job runs for longer than it is in the system by more than the client *)
(* is ahead of the agent.                                                  *)
TimelineWithinSkew ==
  LET rows == Rows
  IN  \A j \in DOMAIN rows :
        LET row == rows[j]
            agent_ahead == AgentAhead[job_results[j].node_id]
        IN  /\ row.queue_wait_s # None => row.queue_wait_s >= SchedulerAhead - ClientAhead
            /\ row.overhead_s # None => row.overhead_s >= agent_ahead - SchedulerAhead
            /\ row.runtime_s # None =>
                 row.runtime_s <= row.turnaround_s + (ClientAhead - agent_ahead)

(* No node of the snapshot reports more busy time than its cores had from  *)
(* the first submission to the last completion (metrics.py:150-152), both  *)
(* read on its own clock, unless it was removed while jobs ran on it and   *)
(* took new ones since: the ledger does not oversubscribe it, and one that *)
(* did would show.                                                         *)
UtilisationWithinSkew ==
  LET rows == Rows
      nodes == Nodes
  IN  \A n \in DOMAIN cluster_snapshot \ lapsed :
        nodes[n].busy_time_s > 0 =>
          nodes[n].busy_time_s
            <= (Makespan(rows) + (ClientAhead - AgentAhead[n])) * nodes[n].cpus

(* Above one would mean oversubscription (metrics.py:150-152).  That needs *)
(* a client whose clock is not ahead of any node's (ClientNotAhead): one   *)
(* that is ahead shortens the makespan, but not the busy times.            *)
UtilisationAtMostOne ==
  LET nodes == Nodes
  IN  \A n \in DOMAIN cluster_snapshot \ lapsed :
        LET utilisation == nodes[n].utilisation
        IN  utilisation # None /\ utilisation[2] > 0 => utilisation[1] <= utilisation[2]

ClientNotAhead == \A n \in Node : ClientAhead <= AgentAhead[n]

(* The node and the time of a dispatch are recorded whether or not the job *)
(* finished first (dispatch_job, db.py:299-300): a finished job without a  *)
(* live thread is attributed to the node that ran it.  Only a job that was *)
(* dispatched before its row was inserted has lost both.                   *)
MeasurementKept ==
  \A j \in (DOMAIN jobs \cap DOMAIN job_results) \ (DOMAIN dispatch \cup unrecorded) :
    /\ jobs[j].dispatched_to_node = job_results[j].node_id
    /\ j \in DOMAIN dispatched_at

(* After a drain the next run is not refused (start_run, main.py:482-494), *)
(* so several policies can run back to back (run_experiment.py:280-285):   *)
(* nothing is queued, reserved or running any more.                        *)
DrainedMeansStartable ==
  drained =>
    /\ job_queue = << >> /\ Outstanding = {}
    /\ \A n \in DOMAIN running_jobs : running_jobs[n] = 0

(* 95 percent of the measurements, less half a one, or more do not exceed  *)
(* the 95th percentile, and no more than that do not exceed a lower value  *)
(* (percentile, metrics.py:26-33).                                         *)
IsP95(values, v) ==
  LET count == 95 * Cardinality(Known(values))
  IN  /\ v \in Measured(values)
      /\ 100 * AtMost(values, v) + 50 >= count
      /\ \A lower \in Measured(values) : lower < v => 100 * AtMost(values, lower) + 50 <= count

(* The parts of the report agree with each other, whatever state the rows  *)
(* are in when it is made (summarise, metrics.py:224-272): every row is in *)
(* one group by workload, and every row with a node in the line of that    *)
(* node, with its runtime; the percentiles are those of the columns.       *)
ReportSound ==
  harness = "export" =>
  LET rows == Rows
      nodes == Nodes
      placed == {j \in DOMAIN rows : rows[j].node_id # None}
      groups == by_workload(rows)
  IN  /\ Total([w \in DOMAIN groups |-> groups[w].jobs]) = Cardinality(DOMAIN rows)
      /\ Total([n \in DOMAIN nodes |-> nodes[n].jobs]) = Cardinality(placed)
      /\ Total([n \in DOMAIN nodes |-> nodes[n].busy_time_s]) = Total(Column(rows, placed, "runtime_s"))
      /\ \A field \in {"queue_wait_s", "runtime_s", "turnaround_s", "overhead_s"} :
           LET values == Column(rows, DOMAIN rows, field)
           IN  Known(values) # {} => IsP95(values, distribution(values).p95)

(* The counts of an export leave out nobody but the jobs that were given   *)
(* up: after a drain each job that was executed is counted once, by its    *)
(* result (metrics.py:238-240).  A job that was given up has a final       *)
(* status and no result, and is missing from the counts, although the      *)
(* incomplete count is meant to make the shortfall explicit                *)
(* (run_experiment.py:134-135).                                            *)
UncountedWereGivenUp ==
  drained /\ summary # None =>
    summary.total - (summary.completed + summary.failed + summary.incomplete)
      = Cardinality(DOMAIN get_run_jobs(ThisRun) \cap abandoned)

(* What was exported after a drain does not change any more, except for    *)
(* what rests on the record of a dispatch that is still being written:     *)
(* counts, makespan, throughput, runtimes and turnarounds are final.       *)
ExportIsFinal ==
  drained /\ summary # None =>
    LET now == summarise(cluster_snapshot, get_run_jobs(ThisRun))
    IN  \A field \in {"total", "completed", "failed", "incomplete", "makespan_s",
                      "throughput", "runtime_s", "turnaround_s"} :
          summary[field] = now[field]
=============================================================================
