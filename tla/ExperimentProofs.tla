-------------------------- MODULE ExperimentProofs --------------------------
(* What an experiment measures, for every trace, set of nodes and jobs:    *)
(* the harness uses the scheduler as it is, the times it reads are in      *)
(* order, the node of a finished job is kept, and a drain is one.          *)
EXTENDS Experiment, LifecycleProofs, MetricsProofs

(* A step of the scheduler, or one it does not take part in. *)
LEMMA WhoSteps ==
  ASSUME [ENext]_eVars
  PROVE  \/ SchedulerStep
         \/ /\ UNCHANGED <<vars, timeVars>>
            /\ clock' = clock \/ (clock < MaxClock /\ clock' = clock + 1)
<1>1. CASE Tick
  BY <1>1 DEF Tick
<1>2. CASE \/ wait_for_nodes \/ wait_for_nodes_times_out \/ start_run
           \/ submit_jobs_returns \/ submit_jobs_raises \/ run_once_raises
           \/ wait_for_drain \/ wait_for_drain_times_out
           \/ finish_run \/ export_run
  BY <1>2 DEF HarnessGoes, wait_for_nodes, wait_for_nodes_times_out, start_run,
     submit_jobs_returns, submit_jobs_raises, run_once_raises, wait_for_drain,
     wait_for_drain_times_out, finish_run, export_run
<1>3. CASE UNCHANGED eVars
  BY <1>3 DEF eVars
<1> QED
  BY <1>1, <1>2, <1>3 DEF ENext

LEMMA SchedulerSteps ==
  ASSUME SchedulerStep
  PROVE  Next
BY ExperimentAssumption DEF SchedulerStep, OpenRun, Next

(* The harness uses the scheduler as it is: a run is one of its behaviours, *)
(* and every theorem about Spec holds of it.                                *)
THEOREM HarnessUsesScheduler == ESpec => Spec
<1>1. EInit => Init
  BY DEF EInit
<1>2. [ENext]_eVars => [Next]_vars
  BY WhoSteps, SchedulerSteps
<1> QED
  BY <1>1, <1>2, PTL DEF ESpec, Spec

-----------------------------------------------------------------------------
(* The report whose handler ends in this step, if one does. *)
Handled == callback_released \ callback_released'

(* The thread of a job and the node in its row stay as they are. *)
Undisturbed(j) ==
  /\ j \in DOMAIN dispatch' <=> j \in DOMAIN dispatch
  /\ j \in DOMAIN dispatch => dispatch'[j] = dispatch[j]
  /\ j \in DOMAIN jobs => jobs'[j].dispatched_to_node = jobs[j].dispatched_to_node

(* What a step of the scheduler does to all that is measured: rows stay    *)
(* and are added by those who submit, a job that was accepted is disturbed *)
(* by the record of its dispatch only, an execution starts with its thread *)
(* at "accepted", and a result is that of the report being handled, which  *)
(* alone changes the status of a finished job.                             *)
Effects ==
  /\ submitted \subseteq submitted'
  /\ DOMAIN jobs \subseteq DOMAIN jobs' /\ DOMAIN jobs' \subseteq DOMAIN jobs \cup submitting
  /\ \A j \in Spent : RecordDispatch(j) \/ Undisturbed(j)
  /\ \A e \in Outstanding' \ Outstanding :
       AtStep(e.job, "accepted")' /\ dispatch'[e.job].node = e.node
  /\ \A j \in Spent \cap DOMAIN jobs :
       Handled = {} /\ jobs[j].status \in Terminal => jobs'[j].status = jobs[j].status
  /\ \/ Handled = {} /\ job_results' = job_results
     \/ \E r \in callback_released : Handled = {r} /\ CallbackRecord(r)

LEMMA EffectsFrame ==
  ASSUME submitted \subseteq submitted', Outstanding' \subseteq Outstanding,
         callback_released \subseteq callback_released',
         UNCHANGED <<dispatch, jobs, job_results>>
  PROVE  Effects
BY DEF Effects, Handled, Undisturbed

LEMMA ThreadEffects ==
  ASSUME AcceptedIsSeen, SchedulerInv, ExecutionInv, NEW j \in Job, DispatchThread(j)
  PROVE  Effects
<1> USE DEF queueVars, storeVars, clientVars, dispatcherVars, agentVars, executionVars, reportVars
<1>1. UNCHANGED <<submitted, job_results, callback_sent, callback_released>>
  BY DEF DispatchThread, PostAccepted, PostFails, PostResponseLost, RecordDispatch,
     RecordDispatchFails, ReleaseFailed, Requeue, Abandon, AbandonFails, db_dispatch_job,
     db_mark_job_failed
<1>2. Handled = {}
  BY <1>1 DEF Handled
<1>3. DOMAIN jobs' = DOMAIN jobs
  BY DEF DispatchThread, PostAccepted, PostFails, PostResponseLost, RecordDispatch,
     RecordDispatchFails, ReleaseFailed, Requeue, Abandon, AbandonFails, db_dispatch_job,
     db_mark_job_failed, SetStatus
<1>4. \A k \in DOMAIN jobs : k # j => jobs'[k] = jobs[k]
  BY DEF DispatchThread, PostAccepted, PostFails, PostResponseLost, RecordDispatch,
     RecordDispatchFails, ReleaseFailed, Requeue, Abandon, AbandonFails, db_dispatch_job,
     db_mark_job_failed, SetStatus
<1>5. \A k : k # j => /\ k \in DOMAIN dispatch' <=> k \in DOMAIN dispatch
                      /\ k \in DOMAIN dispatch => dispatch'[k] = dispatch[k]
  BY DEF DispatchThread, PostAccepted, PostFails, PostResponseLost, RecordDispatch,
     RecordDispatchFails, ReleaseFailed, Requeue, Abandon, AbandonFails, GoTo, EndThread, Pop,
     Restrict
<1>6. RecordDispatch(j) \/ j \notin Spent
  BY NotSpent DEF DispatchThread, PostAccepted, PostFails, PostResponseLost,
     RecordDispatchFails, ReleaseFailed, Requeue, Abandon, AbandonFails, AcceptedIsSeen
<1>7. \A k \in Spent : RecordDispatch(k) \/ Undisturbed(k)
  BY <1>4, <1>5, <1>6 DEF Undisturbed
<1>8. \A e \in Outstanding' \ Outstanding :
        AtStep(e.job, "accepted")' /\ dispatch'[e.job].node = e.node
  <2>1. CASE PostAccepted(j)
    <3>1. Outstanding' \subseteq Outstanding \cup {Posted(j)}
      BY <1>1, <2>1 DEF PostAccepted, Outstanding, Containers, Reporting
    <3>2. /\ Posted(j).job = j /\ Posted(j).node = dispatch[j].node
          /\ j \in DOMAIN dispatch
          /\ dispatch' = [dispatch EXCEPT ![j].step = "accepted"]
      BY <2>1 DEF PostAccepted, Posted, AtStep, GoTo
    <3>3. dispatch[j] \in [node : Node, step : DispatchStep]
      BY <3>2 DEF SchedulerInv, PipelineInv, PipelineTypes
    <3>4. AtStep(j, "accepted")' /\ dispatch'[j].node = dispatch[j].node
      BY <3>2, <3>3 DEF AtStep
    <3> QED
      BY <3>1, <3>2, <3>4
  <2>2. CASE ~PostAccepted(j)
    BY <1>1, <2>2 DEF DispatchThread, PostFails, PostResponseLost, RecordDispatch,
       RecordDispatchFails, ReleaseFailed, Requeue, Abandon, AbandonFails, AcceptedIsSeen,
       Outstanding, Containers, Reporting
  <2> QED
    BY <2>1, <2>2
<1>9. \A k \in Spent \cap DOMAIN jobs :
        jobs[k].status \in Terminal => jobs'[k].status = jobs[k].status
  <2>1. CASE RecordDispatch(j)
    BY <2>1 DEF RecordDispatch, db_dispatch_job, SchedulerInv, StoreTypeOK, JobRow
  <2>2. CASE j \notin Spent
    BY <1>4, <2>2
  <2> QED
    BY <1>6, <2>1, <2>2
<1> QED
  BY <1>1, <1>2, <1>3, <1>7, <1>8, <1>9 DEF Effects

LEMMA CallbackEffects ==
  ASSUME NEW r, Callback(r)
  PROVE  Effects
<1> USE DEF queueVars, storeVars, clientVars, dispatcherVars, threadVars, processVars,
            executionVars, Outstanding, Containers, Reporting
<1>1. CASE CallbackRelease(r) \/ LoseCallback(r)
  BY <1>1, EffectsFrame DEF CallbackRelease, LoseCallback
<1>2. CASE CallbackRecord(r)
  <2>1. /\ r \in callback_released /\ callback_released' = callback_released \ {r}
        /\ DOMAIN jobs' = DOMAIN jobs
        /\ \A j \in DOMAIN jobs : jobs'[j].dispatched_to_node = jobs[j].dispatched_to_node
        /\ UNCHANGED <<submitted, dispatch, executing, orphaned, callback_sent>>
    BY <1>2 DEF CallbackRecord, db_record_job_result, SetStatus
  <2>2. Handled = {r}
    BY <2>1 DEF Handled
  <2>3. \A j : Undisturbed(j)
    BY <2>1 DEF Undisturbed
  <2> QED
    BY <1>2, <2>1, <2>2, <2>3 DEF Effects
<1>3. CASE CallbackRecordFails(r)
  BY <1>3, ExperimentAssumption DEF CallbackRecordFails
<1> QED
  BY <1>1, <1>2, <1>3 DEF Callback

LEMMA EffectsNext ==
  ASSUME AcceptedIsSeen, SchedulerInv, ExecutionInv, [Next]_vars
  PROVE  Effects
<1> USE DEF csVars, queueVars, storeVars, clientVars, dispatcherVars, threadVars, agentVars,
            executionVars, reportVars, Outstanding, Containers, Reporting
<1>1. ASSUME NEW j, SubmitEnqueue(j) \/ SubmitInsertFails(j) PROVE Effects
  BY <1>1, EffectsFrame DEF SubmitEnqueue, SubmitInsertFails
<1>2. ASSUME NEW j, NEW run, SubmitInsert(j, run) PROVE Effects
  <2>1. /\ j \in submitting
        /\ DOMAIN jobs' = DOMAIN jobs \cup {j}
        /\ \A k \in DOMAIN jobs : jobs'[k] = jobs[k]
        /\ UNCHANGED <<submitted, job_results, dispatch, executing, orphaned, callback_sent,
                       callback_released>>
    BY <1>2 DEF SubmitInsert, db_submit_job
  <2> QED
    BY <2>1 DEF Effects, Handled, Undisturbed
<1>3. CASE DispatcherDequeue \/ DispatcherReserveRefused
  BY <1>3, EffectsFrame DEF DispatcherDequeue, DispatcherReserveRefused
<1>4. CASE DispatcherReserve
  <2>1. /\ \A k : k # held => /\ k \in DOMAIN dispatch' <=> k \in DOMAIN dispatch
                              /\ k \in DOMAIN dispatch => dispatch'[k] = dispatch[k]
        /\ UNCHANGED <<submitted, jobs, job_results, executing, orphaned, callback_sent,
                       callback_released>>
    BY <1>4 DEF DispatcherReserve, Store
  <2>2. held \notin Spent
    BY DEF ExecutionInv, SpentIsAway
  <2> QED
    BY <2>1, <2>2 DEF Effects, Handled, Undisturbed
<1>5. ASSUME NEW n, DispatcherSelect(n) PROVE Effects
  BY <1>5, EffectsFrame DEF DispatcherSelect
<1>6. ASSUME NEW j \in Job, DispatchThread(j) PROVE Effects
  BY <1>6, ThreadEffects
<1>7. ASSUME NEW n, AgentStep(n) PROVE Effects
  BY <1>7, EffectsFrame DEF AgentStep, AgentRegister, AgentRegisterFails, AgentServe,
     AgentHeartbeat, AgentCrash
<1>8. ASSUME NEW e, ExecutionStep(e) PROVE Effects
  <2>1. UNCHANGED <<submitted, dispatch, jobs, job_results, callback_released>>
    BY <1>8 DEF ExecutionStep, FinishExecution, WaitFails, OrphanEnds
  <2>2. Outstanding' \subseteq Outstanding
    BY <1>8 DEF ExecutionStep, FinishExecution, WaitFails, OrphanEnds
  <2> QED
    BY <2>1, <2>2, EffectsFrame
<1>9. ASSUME NEW r, Callback(r) PROVE Effects
  BY <1>9, CallbackEffects
<1>10. ASSUME NEW expired, ExpireNodes(expired) PROVE Effects
  BY <1>10, EffectsFrame DEF ExpireNodes
<1>11. CASE UNCHANGED vars
  BY <1>11, EffectsFrame DEF vars
<1>12. CASE OtherStep
  BY <1>1, <1>3, <1>4, <1>6, <1>7, <1>8, <1>9, <1>10, <1>12 DEF OtherStep
<1> QED
  BY <1>2, <1>5, <1>11, <1>12 DEF Next

-----------------------------------------------------------------------------
(* The times and the harness keep their types.  A dispatch is recorded in  *)
(* rows only, and these stay.                                              *)
LEMMA ETypeNext ==
  ASSUME SchedulerInv, CSTypeOK, ETypeOK, [ENext]_eVars
  PROVE  ETypeOK'
<1>1. DOMAIN jobs \subseteq DOMAIN jobs'
  BY WhoSteps, SchedulerSteps, StoreUse, StoreStep DEF SchedulerInv, StickyStep, vars, storeVars
<1>2. /\ clock' \in 0 .. MaxClock /\ harness' \in HarnessStep /\ drained' \in BOOLEAN
      /\ DOMAIN cluster_snapshot' \subseteq Node
  <2>1. clock' \in 0 .. MaxClock
    BY WhoSteps, ExperimentAssumption DEF ETypeOK, SchedulerStep
  <2>2. harness' \in HarnessStep /\ drained' \in BOOLEAN
    BY DEF ENext, SchedulerStep, Tick, HarnessGoes, wait_for_nodes, wait_for_nodes_times_out,
       start_run, submit_jobs_returns, submit_jobs_raises, run_once_raises, wait_for_drain,
       wait_for_drain_times_out, finish_run, export_run, ETypeOK, HarnessStep, harnessVars, eVars
  <2>3. cluster_snapshot' = cluster_snapshot \/ DOMAIN cluster_snapshot' = registrations
    BY DEF ENext, SchedulerStep, Tick, wait_for_nodes, wait_for_nodes_times_out, start_run,
       submit_jobs_returns, submit_jobs_raises, run_once_raises, wait_for_drain,
     wait_for_drain_times_out,
       finish_run, export_run, harnessVars, eVars
  <2> QED
    BY <2>1, <2>2, <2>3 DEF ETypeOK, CSTypeOK
<1>3. CASE SchedulerStep
  <2>1. /\ DOMAIN submitted_at' = submitted' /\ DOMAIN thread_started' = DOMAIN dispatch'
        /\ DOMAIN started' = Outstanding' /\ DOMAIN ended' = Reporting'
        /\ DOMAIN result_times' = DOMAIN job_results'
        /\ DOMAIN dispatched_at' = DOMAIN dispatched_at \cup DispatchUpdate
    BY <1>3 DEF SchedulerStep, Timestamps, Stamped
  <2>2. DispatchUpdate \subseteq DOMAIN jobs
    BY DEF DispatchUpdate
  <2> QED
    BY <1>1, <1>2, <2>1, <2>2 DEF ETypeOK
<1>4. CASE UNCHANGED <<vars, timeVars>>
  <2>1. /\ UNCHANGED <<submitted_at, thread_started, dispatched_at, started, ended, result_times>>
        /\ UNCHANGED <<submitted, dispatch, jobs, job_results, executing, orphaned,
                       callback_sent, callback_released>>
    BY <1>4 DEF vars, timeVars, storeVars, clientVars, threadVars, agentVars, executionVars,
       reportVars
  <2> QED
    BY <1>2, <2>1 DEF ETypeOK, Outstanding, Containers, Reporting
<1> QED
  BY <1>3, <1>4, WhoSteps

(* The scheduler's invariants, along a run. *)
LEMMA SchedulerWithin ==
  ESpec => [](SchedulerInv /\ CSTypeOK)
BY HarnessUsesScheduler, SchedulerAlways, SchedulerUsesLedger, CSTypeCorrect, PTL DEF LedgerSpec

(* The types of the harness and of the timestamps: a time is stored for    *)
(* each job that reached its step, and for no other.                       *)
THEOREM ExperimentTypesCorrect == ESpec => []ETypeOK
<1>1. ASSUME EInit PROVE ETypeOK
  <2>1. Outstanding = {} /\ Reporting = {}
    BY <1>1 DEF EInit, Init, Outstanding, Containers, Reporting
  <2>2. submitted = {} /\ DOMAIN dispatch = {} /\ DOMAIN jobs = {} /\ DOMAIN job_results = {}
    BY <1>1 DEF EInit, Init, StoreInit, NoRows, EmptyDict
  <2>3. /\ DOMAIN submitted_at = {} /\ DOMAIN thread_started = {} /\ DOMAIN dispatched_at = {}
        /\ DOMAIN result_times = {} /\ DOMAIN started = {} /\ DOMAIN ended = {}
        /\ DOMAIN cluster_snapshot = {}
    BY <1>1 DEF EInit, EmptyDict
  <2>4. clock \in 0 .. MaxClock /\ harness \in HarnessStep /\ drained \in BOOLEAN
    <3>1. clock = 0 /\ harness = "nodes" /\ drained = FALSE
      BY <1>1 DEF EInit
    <3>2. clock \in 0 .. MaxClock
      BY <3>1, ExperimentAssumption
    <3>3. harness \in HarnessStep /\ drained \in BOOLEAN
      BY <3>1, Zenon DEF HarnessStep
    <3> QED
      BY <3>2, <3>3
  <2> QED
    BY <2>1, <2>2, <2>3, <2>4 DEF ETypeOK
<1>2. SchedulerInv /\ CSTypeOK /\ ETypeOK /\ [ENext]_eVars => ETypeOK'
  BY ETypeNext
<1> QED
  BY <1>1, <1>2, SchedulerWithin, PTL DEF ESpec

-----------------------------------------------------------------------------
(* TimelineWithinSkew speaks of rows.  What each step adds to is an order of  *)
(* five times that are kept in different places and written by different   *)
(* threads: a job is submitted before its thread starts, the thread that   *)
(* is still to record the dispatch started before the container did, and   *)
(* so was a dispatch already recorded.                                     *)
Moment == 0 .. clock

StartedAt(j, time) ==
  /\ time \in Moment
  /\ submitted_at[j] <= time
  /\ AtStep(j, "accepted") => thread_started[j] <= time
  /\ j \in DOMAIN dispatched_at => dispatched_at[j] <= time

TimeInv ==
  /\ DOMAIN jobs \subseteq submitted
  /\ \A j \in submitted : submitted_at[j] \in Moment
  /\ \A j \in DOMAIN dispatch :
       thread_started[j] \in Moment /\ submitted_at[j] <= thread_started[j]
  /\ \A j \in DOMAIN dispatched_at :
       dispatched_at[j] \in Moment /\ submitted_at[j] <= dispatched_at[j]
  /\ \A e \in Outstanding : StartedAt(e.job, started[e])
  /\ \A e \in Reporting : ended[e] \in Moment /\ started[e] <= ended[e]
  /\ \A j \in DOMAIN job_results :
       /\ result_times[j].completed_at \in Moment
       /\ result_times[j].runtime_seconds \in Nat
       /\ StartedAt(j, result_times[j].completed_at - result_times[j].runtime_seconds)

ExperimentInv == SchedulerInv /\ ExecutionInv /\ ETypeOK /\ TimeInv

(* A time that is stamped is kept while its key is there. *)
LEMMA StampedIs ==
  ASSUME NEW times, NEW keys, NEW k \in keys
  PROVE  /\ k \in DOMAIN times => Stamped(times, keys)[k] = times[k]
         /\ k \notin DOMAIN times => Stamped(times, keys)[k] = clock
BY DEF Stamped

(* The time at which a job started stays in order with the other times     *)
(* when the job had been accepted before the step ...                      *)
LEMMA StartStays ==
  ASSUME ExperimentInv, SchedulerStep, Effects, NEW j \in Spent, NEW time, StartedAt(j, time)
  PROVE  StartedAt(j, time)'
<1>1. j \in submitted /\ j \in submitted' /\ j \in DOMAIN submitted_at
  BY DEF ExperimentInv, ExecutionInv, SpentIsAway, ETypeOK, Effects
<1>2. submitted_at'[j] = submitted_at[j]
  BY <1>1, StampedIs DEF SchedulerStep, Timestamps
<1>3. clock' = clock
  BY DEF SchedulerStep
<1>4. ASSUME AtStep(j, "accepted")'
      PROVE  AtStep(j, "accepted") /\ thread_started'[j] = thread_started[j]
  <2>1. Undisturbed(j)
    BY <1>4 DEF Effects, RecordDispatch, EndThread, Pop, Restrict, AtStep
  <2>2. j \in DOMAIN dispatch /\ j \in DOMAIN dispatch' /\ j \in DOMAIN thread_started
    BY <1>4, <2>1 DEF Undisturbed, AtStep, ExperimentInv, ETypeOK
  <2>3. thread_started'[j] = thread_started[j]
    BY <2>2, StampedIs DEF SchedulerStep, Timestamps
  <2> QED
    BY <1>4, <2>1, <2>2, <2>3 DEF Undisturbed, AtStep
<1>5. ASSUME j \in DOMAIN dispatched_at'
      PROVE  dispatched_at'[j] <= time
  <2>1. CASE j \in DispatchUpdate
    BY <1>5, <2>1 DEF SchedulerStep, Timestamps, DispatchTime, DispatchUpdate, Recorded, StartedAt
  <2>2. CASE j \notin DispatchUpdate
    BY <1>5, <2>2 DEF SchedulerStep, Timestamps, StartedAt
  <2> QED
    BY <2>1, <2>2
<1> QED
  BY <1>2, <1>3, <1>4, <1>5 DEF StartedAt, Moment

LEMMA TimeStep ==
  ASSUME ExperimentInv, SchedulerStep, Effects, ETypeOK'
  PROVE  TimeInv'
<1> USE DEF Moment
<1>1. clock' = clock /\ clock \in Moment
  BY DEF SchedulerStep, ExperimentInv, ETypeOK
<1>2. DOMAIN jobs' \subseteq submitted'
  BY DEF Effects, ExperimentInv, TimeInv, SchedulerInv, ThreadTypes
<1>3. \A j \in submitted' :
        submitted_at'[j] = IF j \in submitted THEN submitted_at[j] ELSE clock
  BY DEF SchedulerStep, Timestamps, Stamped, ExperimentInv, ETypeOK
<1>4. \A j \in submitted' : submitted_at'[j] \in Moment'
  BY <1>1, <1>3 DEF ExperimentInv, TimeInv
<1>5. ASSUME NEW j \in DOMAIN dispatch'
      PROVE  thread_started'[j] \in Moment' /\ submitted_at'[j] <= thread_started'[j]
  <2>1. CASE j \in DOMAIN dispatch
    <3>1. j \in submitted /\ j \in submitted'
      BY <2>1 DEF ExperimentInv, SchedulerInv, PipelineInv, OnlySubmitted, Effects
    <3>2. thread_started'[j] = thread_started[j]
      BY <2>1, StampedIs DEF SchedulerStep, Timestamps, ExperimentInv, ETypeOK
    <3> QED
      BY <1>1, <1>3, <2>1, <3>1, <3>2 DEF ExperimentInv, TimeInv
  <2>2. CASE j \notin DOMAIN dispatch
    <3>1. thread_started'[j] = clock
      BY <2>2, StampedIs DEF SchedulerStep, Timestamps, ExperimentInv, ETypeOK
    <3>2. j \in submitted'
      BY SchedulerSteps, PipelineNext DEF ExperimentInv, SchedulerInv, PipelineInv, OnlySubmitted
    <3> QED
      BY <1>1, <1>4, <3>1, <3>2
  <2> QED
    BY <2>1, <2>2
<1>6. ASSUME NEW j \in DOMAIN dispatched_at'
      PROVE  dispatched_at'[j] \in Moment' /\ submitted_at'[j] <= dispatched_at'[j]
  <2>1. CASE j \in DispatchUpdate
    <3>1. dispatched_at'[j] = thread_started[j] /\ j \in DOMAIN dispatch
      BY <2>1 DEF SchedulerStep, Timestamps, DispatchTime, DispatchUpdate, Recorded, AtStep
    <3>2. j \in submitted /\ j \in submitted'
      BY <3>1 DEF ExperimentInv, SchedulerInv, PipelineInv, OnlySubmitted, Effects
    <3> QED
      BY <1>1, <1>3, <3>1, <3>2 DEF ExperimentInv, TimeInv
  <2>2. CASE j \notin DispatchUpdate
    <3>1. dispatched_at'[j] = dispatched_at[j] /\ j \in DOMAIN dispatched_at
      BY <2>2 DEF SchedulerStep, Timestamps
    <3>2. j \in submitted /\ j \in submitted'
      BY <3>1 DEF ExperimentInv, ETypeOK, TimeInv, Effects
    <3> QED
      BY <1>1, <1>3, <3>1, <3>2 DEF ExperimentInv, TimeInv
  <2> QED
    BY <2>1, <2>2
<1>7. ASSUME NEW e \in Outstanding'
      PROVE  /\ StartedAt(e.job, started[e])' /\ e \in DOMAIN started'
             /\ e \in Outstanding => started'[e] = started[e]
  <2>1. CASE e \in Outstanding
    <3>1. started'[e] = started[e]
      BY <2>1, StampedIs DEF SchedulerStep, Timestamps, ExperimentInv, ETypeOK
    <3>2. e.job \in Spent /\ StartedAt(e.job, started[e])
      BY <2>1 DEF Spent, ExperimentInv, TimeInv
    <3>3. \A time : StartedAt(e.job, time) => StartedAt(e.job, time)'
      BY <3>2, StartStays
    <3> QED
      BY <3>1, <3>2, <3>3 DEF ETypeOK, StartedAt
  <2>2. CASE e \notin Outstanding
    <3>1. started'[e] = clock /\ e \in DOMAIN started'
      BY <2>2, StampedIs DEF SchedulerStep, Timestamps, ExperimentInv, ETypeOK
    <3>2. e.job \in DOMAIN dispatch'
      BY <2>2 DEF Effects, AtStep
    <3>3. e.job \in submitted'
      BY <3>2, SchedulerSteps, PipelineNext DEF ExperimentInv, SchedulerInv, PipelineInv,
         OnlySubmitted
    <3> QED
      BY <1>1, <1>4, <1>5, <1>6, <2>2, <3>1, <3>2, <3>3 DEF StartedAt
  <2> QED
    BY <2>1, <2>2
<1>8. ASSUME NEW e \in Reporting'
      PROVE  ended'[e] \in Moment' /\ started'[e] <= ended'[e]
  <2>1. CASE e \in Reporting
    <3>1. ended'[e] = ended[e]
      BY <2>1, StampedIs DEF SchedulerStep, Timestamps, ExperimentInv, ETypeOK
    <3>2. e \in Outstanding /\ e \in Outstanding'
      BY <2>1 DEF Outstanding
    <3> QED
      BY <1>1, <1>7, <2>1, <3>1, <3>2 DEF ExperimentInv, TimeInv
  <2>2. CASE e \notin Reporting
    <3>1. ended'[e] = clock
      BY <2>2, StampedIs DEF SchedulerStep, Timestamps, ExperimentInv, ETypeOK
    <3>2. e \in Outstanding'
      BY DEF Outstanding
    <3> QED
      BY <1>1, <1>7, <3>1, <3>2 DEF StartedAt
  <2> QED
    BY <2>1, <2>2
<1>9. ASSUME NEW j \in DOMAIN job_results'
      PROVE  /\ result_times'[j].completed_at \in Moment'
             /\ result_times'[j].runtime_seconds \in Nat
             /\ StartedAt(j, result_times[j].completed_at - result_times[j].runtime_seconds)'
  <2> DEFINE result(r) == [runtime_seconds |-> ended[r.execution] - started[r.execution],
                           completed_at |-> ended[r.execution]]
  <2>1. result_times'[j] =
          IF \E r \in Handled : r.execution.job = j THEN result(CHOOSE x \in Handled : TRUE)
          ELSE result_times[j]
    BY DEF SchedulerStep, Timestamps, Handled
  <2>2. CASE \E r \in Handled : r.execution.job = j
    <3>1. PICK r \in callback_released : Handled = {r} /\ r.execution.job = j
      BY <2>2 DEF Effects
    <3>2. result_times'[j] = result(r)
      BY <2>1, <2>2, <3>1
    <3>3. r.execution \in Reporting /\ r.execution \in Outstanding
      BY <3>1 DEF Reporting, Outstanding
    <3>4. /\ ended[r.execution] \in Moment /\ started[r.execution] <= ended[r.execution]
          /\ StartedAt(j, started[r.execution]) /\ started[r.execution] \in Moment
      BY <3>1, <3>3 DEF ExperimentInv, TimeInv, StartedAt
    <3>5. j \in Spent
      BY <3>1, <3>3 DEF Spent
    <3>6. \A time : StartedAt(j, time) => StartedAt(j, time)'
      BY <3>5, StartStays
    <3>7. /\ result_times'[j].completed_at = ended[r.execution]
          /\ result_times'[j].runtime_seconds = ended[r.execution] - started[r.execution]
      BY <3>2
    <3>8. result_times'[j].completed_at - result_times'[j].runtime_seconds = started[r.execution]
      BY <3>4, <3>7, ExperimentAssumption DEF ExperimentInv, ETypeOK
    <3> HIDE DEF result
    <3>9. \A time : time = started[r.execution] => StartedAt(j, time)'
      BY <3>4, <3>6
    <3> QED
      BY <1>1, <3>4, <3>7, <3>8, <3>9 DEF StartedAt, ExperimentInv, ETypeOK
  <2>3. CASE ~ \E r \in Handled : r.execution.job = j
    <3>1. j \in DOMAIN job_results
      <4>1. ASSUME NEW r \in callback_released, Handled = {r}, CallbackRecord(r)
            PROVE  j \in DOMAIN job_results
        <5>1. r \in Handled /\ r.execution.job # j
          BY <2>3, <4>1
        <5> QED
          BY <4>1, <5>1 DEF CallbackRecord, db_record_job_result
      <4> QED
        BY <4>1 DEF Effects
    <3>2. result_times'[j] = result_times[j] /\ j \in Spent
      BY <2>1, <2>3, <3>1 DEF Spent
    <3> DEFINE start == result_times[j].completed_at - result_times[j].runtime_seconds
    <3>3. \A time : StartedAt(j, time) => StartedAt(j, time)'
      BY <3>2, StartStays
    <3>4. /\ result_times[j].completed_at \in Moment
          /\ result_times[j].runtime_seconds \in Nat /\ StartedAt(j, start)
      BY <3>1 DEF ExperimentInv, TimeInv
    <3>5. \A time : time = start => StartedAt(j, time)'
      BY <3>3, <3>4
    <3> QED
      BY <1>1, <3>2, <3>4, <3>5 DEF StartedAt
  <2> QED
    BY <2>2, <2>3
<1> QED
  BY <1>2, <1>4, <1>5, <1>6, <1>7, <1>8, <1>9 DEF TimeInv

LEMMA TimeNext ==
  ASSUME AcceptedIsSeen, ExperimentInv, ETypeOK', [ENext]_eVars
  PROVE  TimeInv'
<1>1. CASE SchedulerStep
  BY <1>1, TimeStep, EffectsNext, SchedulerSteps DEF ExperimentInv
<1>2. CASE UNCHANGED <<vars, timeVars>> /\ clock' \in {clock, clock + 1}
  <2>1. Moment \subseteq Moment'
    BY <1>2, ExperimentAssumption DEF Moment, ExperimentInv, ETypeOK
  <2>2. /\ UNCHANGED <<submitted_at, thread_started, dispatched_at, started, ended, result_times>>
        /\ UNCHANGED <<submitted, dispatch, jobs, job_results, executing, orphaned,
                       callback_sent, callback_released>>
    BY <1>2 DEF vars, timeVars, storeVars, clientVars, threadVars, agentVars, executionVars,
       reportVars
  <2>3. Outstanding' = Outstanding /\ Reporting' = Reporting
    BY <2>2 DEF Outstanding, Containers, Reporting
  <2>4. \A j, time : StartedAt(j, time) => StartedAt(j, time)'
    BY <2>1, <2>2 DEF StartedAt, AtStep
  <2>5. /\ \A e \in Outstanding : StartedAt(e.job, started[e])'
        /\ \A j \in DOMAIN job_results :
             StartedAt(j, result_times[j].completed_at - result_times[j].runtime_seconds)'
    <3>1. \A j, time, same : StartedAt(j, time) /\ same = time => StartedAt(j, same)'
      BY <2>4
    <3> HIDE DEF StartedAt
    <3> QED
      BY <2>2, <3>1 DEF ExperimentInv, TimeInv
  <2> QED
    BY <2>1, <2>2, <2>3, <2>5 DEF ExperimentInv, TimeInv
<1> QED
  BY <1>1, <1>2, WhoSteps

LEMMA TimeAlways ==
  ASSUME AcceptedIsSeen
  PROVE  ESpec => []ExperimentInv
<1>1. ASSUME EInit PROVE TimeInv
  <2>1. Outstanding = {} /\ Reporting = {}
    BY <1>1 DEF EInit, Init, Outstanding, Containers, Reporting
  <2>2. submitted = {} /\ DOMAIN dispatch = {} /\ DOMAIN jobs = {} /\ DOMAIN job_results = {}
    BY <1>1 DEF EInit, Init, StoreInit, NoRows, EmptyDict
  <2>3. DOMAIN dispatched_at = {}
    BY <1>1 DEF EInit, EmptyDict
  <2> QED
    BY <2>1, <2>2, <2>3 DEF TimeInv
<1>2. EInit => TimeInv
  BY <1>1
<1>3. SchedulerInv /\ ExecutionInv /\ ETypeOK /\ ETypeOK' /\ TimeInv /\ [ENext]_eVars => TimeInv'
  BY TimeNext DEF ExperimentInv
<1>4. ESpec => []ExecutionInv
  BY HarnessUsesScheduler, ExecutionAlways, PTL
<1>5. SchedulerInv /\ ExecutionInv /\ ETypeOK /\ TimeInv => ExperimentInv
  BY DEF ExperimentInv
<1> QED
  BY <1>2, <1>3, <1>4, <1>5, SchedulerWithin, ExperimentTypesCorrect, PTL DEF ESpec

(* The times of a row are those above as the hosts read them, NULL where   *)
(* there is none.                                                          *)
LEMMA RowTimes ==
  ASSUME NEW j \in DOMAIN Rows
  PROVE  LET row == Rows[j]
             submitted_then == submitted_at[j] + ClientAhead
             dispatched == IF j \in DOMAIN dispatched_at
                           THEN dispatched_at[j] + SchedulerAhead ELSE None
             completed == IF j \in DOMAIN result_times
                          THEN result_times[j].completed_at + AgentAhead[job_results[j].node_id]
                          ELSE None
         IN  /\ j \in DOMAIN jobs
             /\ row.queue_wait_s = seconds_between(submitted_then, dispatched)
             /\ row.turnaround_s = seconds_between(submitted_then, completed)
             /\ row.runtime_s = IF j \in DOMAIN result_times
                                THEN result_times[j].runtime_seconds ELSE None
             /\ row.overhead_s =
                  IF None \in {row.turnaround_s, row.queue_wait_s, row.runtime_s} THEN None
                  ELSE row.turnaround_s - row.queue_wait_s - row.runtime_s
<1> DEFINE result(field) == IF j \in DOMAIN result_times THEN result_times[j][field] ELSE None
           job == get_run_jobs(ThisRun)[j]
<1>1. j \in {k \in DOMAIN jobs : jobs[k].run_id = ThisRun}
  BY DEF Rows, job_rows, get_run_jobs
<1>2. /\ job.submitted_at = submitted_at[j] + ClientAhead
      /\ job.dispatched_at = IF j \in DOMAIN dispatched_at
                             THEN dispatched_at[j] + SchedulerAhead ELSE None
      /\ job.runtime_seconds = result("runtime_seconds")
      /\ job.completed_at =
           IF j \in DOMAIN result_times
           THEN result_times[j].completed_at + AgentAhead[job_results[j].node_id] ELSE None
  BY <1>1 DEF get_run_jobs
<1>3. Rows[j] = job_rows(get_run_jobs(ThisRun))[j] /\ j \in DOMAIN get_run_jobs(ThisRun)
  BY <1>1 DEF Rows, get_run_jobs
<1> HIDE DEF job
<1>4. /\ Rows[j].queue_wait_s = seconds_between(job.submitted_at, job.dispatched_at)
      /\ Rows[j].turnaround_s = seconds_between(job.submitted_at, job.completed_at)
      /\ Rows[j].runtime_s = job.runtime_seconds
      /\ Rows[j].overhead_s =
           IF None \in {Rows[j].turnaround_s, Rows[j].queue_wait_s, job.runtime_seconds} THEN None
           ELSE Rows[j].turnaround_s - Rows[j].queue_wait_s - job.runtime_seconds
  BY <1>3 DEF job_rows, job
<1> QED
  BY <1>1, <1>2, <1>4

(* The clocks of the hosts that took the times of a job with a result. *)
LEMMA ClocksAreInts ==
  ASSUME ExperimentInv
  PROVE  /\ ClientAhead \in Int /\ SchedulerAhead \in Int
         /\ \A j \in DOMAIN job_results : AgentAhead[job_results[j].node_id] \in Int
<1>1. \A n \in Node : AgentAhead[n] \in Int
  BY ExperimentAssumption
<1>2. \A j \in DOMAIN job_results : job_results[j].node_id \in Node
  BY DEF ExperimentInv, SchedulerInv, StoreTypeOK, ResultRow
<1> QED
  BY <1>1, <1>2, ExperimentAssumption

(* The timeline of every row is in order but for what clocks differ. *)
THEOREM TimelineInOrder ==
  ASSUME AcceptedIsSeen
  PROVE  ESpec => []TimelineWithinSkew
<1>1. ASSUME ExperimentInv PROVE TimelineWithinSkew
  <2>1. SUFFICES ASSUME NEW j \in DOMAIN Rows
                 PROVE  LET row == Rows[j]
                            agent_ahead == AgentAhead[job_results[j].node_id]
                        IN  /\ row.queue_wait_s # None =>
                                 row.queue_wait_s >= SchedulerAhead - ClientAhead
                            /\ row.overhead_s # None =>
                                 row.overhead_s >= agent_ahead - SchedulerAhead
                            /\ row.runtime_s # None =>
                                 row.runtime_s <= row.turnaround_s + (ClientAhead - agent_ahead)
    BY DEF TimelineWithinSkew
  <2> DEFINE row == Rows[j]
             start == result_times[j].completed_at - result_times[j].runtime_seconds
             ahead == AgentAhead[job_results[j].node_id]
  <2>2. /\ j \in submitted /\ submitted_at[j] \in Nat
        /\ ClientAhead \in Int /\ SchedulerAhead \in Int
        /\ submitted_at[j] + ClientAhead # None
    BY <1>1, RowTimes, ClocksAreInts, NoneAssumption DEF ExperimentInv, ETypeOK, TimeInv, Moment
  <2>3. ASSUME row.queue_wait_s # None
        PROVE  /\ j \in DOMAIN dispatched_at /\ dispatched_at[j] \in Nat
               /\ submitted_at[j] <= dispatched_at[j]
               /\ row.queue_wait_s
                    = (dispatched_at[j] + SchedulerAhead) - (submitted_at[j] + ClientAhead)
    <3>1. j \in DOMAIN dispatched_at
      BY <2>3, RowTimes DEF seconds_between
    <3>2. dispatched_at[j] \in Nat /\ submitted_at[j] <= dispatched_at[j]
      BY <1>1, <3>1 DEF ExperimentInv, ETypeOK, TimeInv, Moment
    <3>3. dispatched_at[j] + SchedulerAhead # None
      BY <2>2, <3>2, NoneAssumption
    <3>4. row.queue_wait_s
            = (dispatched_at[j] + SchedulerAhead) - (submitted_at[j] + ClientAhead)
      BY <2>2, <3>1, <3>3, RowTimes DEF seconds_between
    <3> QED
      BY <3>1, <3>2, <3>4
  <2>4. ASSUME row.runtime_s # None
        PROVE  /\ row.runtime_s \in Nat /\ start \in Nat /\ ahead \in Int
               /\ submitted_at[j] <= start
               /\ row.turnaround_s
                    = (start + row.runtime_s + ahead) - (submitted_at[j] + ClientAhead)
               /\ j \in DOMAIN dispatched_at => dispatched_at[j] <= start
    <3>1. j \in DOMAIN result_times /\ j \in DOMAIN job_results
      BY <1>1, <2>4, RowTimes DEF ExperimentInv, ETypeOK
    <3>2. /\ result_times[j].completed_at \in Nat /\ result_times[j].runtime_seconds \in Nat
          /\ StartedAt(j, start)
      BY <1>1, <3>1 DEF ExperimentInv, ETypeOK, TimeInv, Moment
    <3>3. ahead \in Int /\ result_times[j].completed_at + ahead # None
      BY <1>1, <3>1, <3>2, ClocksAreInts, NoneAssumption
    <3>4. row.turnaround_s
            = (result_times[j].completed_at + ahead) - (submitted_at[j] + ClientAhead)
      BY <2>2, <3>1, <3>3, RowTimes DEF seconds_between
    <3>5. row.runtime_s = result_times[j].runtime_seconds
      BY <3>1, RowTimes
    <3>6. /\ start \in 0 .. clock /\ submitted_at[j] <= start
          /\ j \in DOMAIN dispatched_at => dispatched_at[j] <= start
      BY <3>2 DEF StartedAt, Moment
    <3> HIDE DEF ahead
    <3> QED
      BY <1>1, <2>2, <3>2, <3>3, <3>4, <3>5, <3>6 DEF ExperimentInv, ETypeOK
  <2> HIDE DEF start, ahead
  <2>5. row.runtime_s # None => row.runtime_s <= row.turnaround_s + (ClientAhead - ahead)
    BY <2>2, <2>4
  <2>6. ASSUME row.overhead_s # None PROVE row.overhead_s >= ahead - SchedulerAhead
    <3>1. /\ row.queue_wait_s # None /\ row.runtime_s # None
          /\ row.overhead_s = row.turnaround_s - row.queue_wait_s - row.runtime_s
      BY <2>6, RowTimes
    <3>2. row.overhead_s = (start + ahead) - (dispatched_at[j] + SchedulerAhead)
      BY <2>2, <2>3, <2>4, <3>1
    <3> QED
      BY <2>2, <2>3, <2>4, <3>1, <3>2
  <2>7. row.queue_wait_s # None => row.queue_wait_s >= SchedulerAhead - ClientAhead
    BY <2>2, <2>3
  <2> QED
    BY <2>5, <2>6, <2>7 DEF ahead
<1> QED
  BY <1>1, TimeAlways, PTL

-----------------------------------------------------------------------------
(* What else a row says: where the job went and when it came and went. *)
LEMMA RowPlaces ==
  ASSUME NEW j \in DOMAIN Rows
  PROVE  LET row == Rows[j]
         IN  /\ j \in DOMAIN jobs
             /\ row.node_id = IF jobs[j].dispatched_to_node = NoNode THEN None
                              ELSE jobs[j].dispatched_to_node
             /\ row.submitted_at = submitted_at[j] + ClientAhead
             /\ row.completed_at =
                  IF j \in DOMAIN result_times
                  THEN result_times[j].completed_at + AgentAhead[job_results[j].node_id] ELSE None
<1> DEFINE job == get_run_jobs(ThisRun)[j]
<1>1. j \in {k \in DOMAIN jobs : jobs[k].run_id = ThisRun}
  BY DEF Rows, job_rows, get_run_jobs
<1>2. /\ job.submitted_at = submitted_at[j] + ClientAhead
      /\ job.dispatched_to_node = IF jobs[j].dispatched_to_node = NoNode THEN None
                                  ELSE jobs[j].dispatched_to_node
      /\ job.completed_at =
           IF j \in DOMAIN result_times
           THEN result_times[j].completed_at + AgentAhead[job_results[j].node_id] ELSE None
  BY <1>1 DEF get_run_jobs
<1>3. Rows[j] = job_rows(get_run_jobs(ThisRun))[j] /\ j \in DOMAIN get_run_jobs(ThisRun)
  BY <1>1 DEF Rows, get_run_jobs
<1> HIDE DEF job
<1>4. /\ Rows[j].node_id = job.dispatched_to_node
      /\ Rows[j].submitted_at = job.submitted_at
      /\ Rows[j].completed_at = job.completed_at
  BY <1>3 DEF job_rows, job
<1> QED
  BY <1>1, <1>2, <1>4

(* The measured columns are samples, that of the runtimes one of counts. *)
Columns == {"queue_wait_s", "runtime_s", "turnaround_s", "overhead_s"}

LEMMA RowsAreSamples ==
  ASSUME ExperimentInv
  PROVE  /\ IsFiniteSet(DOMAIN Rows)
         /\ \A j \in DOMAIN Rows : Rows[j].runtime_s \in Nat \cup {None}
         /\ \A field \in Columns : Sample(Column(Rows, DOMAIN Rows, field))
<1>1. IsFiniteSet(DOMAIN Rows)
  <2>1. DOMAIN Rows \in SUBSET Job
    BY RowPlaces DEF ExperimentInv, SchedulerInv, StoreTypeOK
  <2> QED
    BY <2>1, RequestAssumption, FS_Subset
<1>2. ASSUME NEW j \in DOMAIN Rows
      PROVE  /\ Rows[j].runtime_s \in Nat \cup {None}
             /\ Rows[j].queue_wait_s \in Int \cup {None}
             /\ Rows[j].turnaround_s \in Int \cup {None}
             /\ Rows[j].overhead_s \in Int \cup {None}
  <2>1. submitted_at[j] \in Int /\ Moment \subseteq Int
    BY RowTimes DEF ExperimentInv, ETypeOK, TimeInv, Moment
  <2>2. j \in DOMAIN dispatched_at => dispatched_at[j] + SchedulerAhead \in Int
    <3>1. j \in DOMAIN dispatched_at => dispatched_at[j] \in Int
      BY <2>1 DEF ExperimentInv, TimeInv
    <3> QED
      BY <3>1, ClocksAreInts
  <2>3. j \in DOMAIN result_times =>
          /\ result_times[j].completed_at + AgentAhead[job_results[j].node_id] \in Int
          /\ result_times[j].runtime_seconds \in Nat
    <3>1. j \in DOMAIN result_times =>
            /\ j \in DOMAIN job_results /\ result_times[j].completed_at \in Int
            /\ result_times[j].runtime_seconds \in Nat
      BY <2>1 DEF ExperimentInv, ETypeOK, TimeInv
    <3> QED
      BY <3>1, ClocksAreInts
  <2>8. submitted_at[j] + ClientAhead \in Int
    BY <2>1, ClocksAreInts
  <2>4. Rows[j].queue_wait_s \in Int \cup {None} /\ Rows[j].turnaround_s \in Int \cup {None}
    BY <2>2, <2>3, <2>8, RowTimes DEF seconds_between
  <2>5. Rows[j].runtime_s \in Nat \cup {None}
    BY <2>3, RowTimes
  <2>6. Rows[j].overhead_s \in Int \cup {None}
    BY <2>4, <2>5, RowTimes
  <2> QED
    BY <2>4, <2>5, <2>6
<1>3. ASSUME NEW field \in Columns PROVE Sample(Column(Rows, DOMAIN Rows, field))
  <2>1. \A j \in DOMAIN Rows : Rows[j][field] \in Int \cup {None}
    BY <1>2 DEF Columns
  <2> QED
    BY <1>1, <2>1 DEF Sample, Column
<1> QED
  BY <1>1, <1>2, <1>3

(* The report of a run agrees with itself, in whatever state its rows are. *)
THEOREM ReportIsSound ==
  ASSUME AcceptedIsSeen
  PROVE  ESpec => []ReportSound
<1>1. ASSUME ExperimentInv PROVE ReportSound
  <2> DEFINE makespan == Makespan(Rows)
  <2>1. /\ IsFiniteSet(DOMAIN Rows)
        /\ \A j \in DOMAIN Rows : Rows[j].runtime_s \in Nat \cup {None}
        /\ \A field \in Columns : Sample(Column(Rows, DOMAIN Rows, field))
    BY <1>1, RowsAreSamples
  <2>2. None \notin DOMAIN cluster_snapshot
    BY <1>1, ExperimentAssumption DEF ExperimentInv, ETypeOK
  <2>3. Total([w \in DOMAIN by_workload(Rows) |-> by_workload(Rows)[w].jobs])
          = Cardinality(DOMAIN Rows)
    BY <2>1, GroupsAddUp
  <2>4. Nodes = node_rows(Rows, cluster_snapshot, makespan)
    BY DEF Nodes
  <2> HIDE DEF makespan
  <2>5. /\ Total([n \in DOMAIN Nodes |-> Nodes[n].jobs]) = Cardinality(Placed(Rows))
        /\ Total([n \in DOMAIN Nodes |-> Nodes[n].busy_time_s])
              = Total(Column(Rows, Placed(Rows), "runtime_s"))
    BY <2>1, <2>2, <2>4, NodesAddUp
  <2>6. ASSUME NEW field \in Columns, Known(Column(Rows, DOMAIN Rows, field)) # {}
        PROVE  IsP95(Column(Rows, DOMAIN Rows, field),
                     distribution(Column(Rows, DOMAIN Rows, field)).p95)
    <3> DEFINE values == Column(Rows, DOMAIN Rows, field)
    <3>1. Sample(values) /\ Known(values) # {} /\ Cardinality(Known(values)) # 0
      BY <2>1, <2>6, MeasuredFacts
    <3> HIDE DEF values
    <3>2. distribution(values).p95 = percentile(values, 95)
      BY <3>1 DEF distribution
    <3>3. IsP95(values, percentile(values, 95))
      BY <3>1, PercentileIsNear DEF IsP95
    <3> QED
      BY <3>2, <3>3 DEF values
  <2> QED
    BY <2>3, <2>5, <2>6 DEF ReportSound, Placed, Columns
<1> QED
  BY <1>1, TimeAlways, PTL

-----------------------------------------------------------------------------
(* MeasurementKept speaks of recorded results.  The node is handed over    *)
(* from the live thread to the row, and the result from the container to   *)
(* the table, in either order: whatever is known of an execution is, at    *)
(* each moment, known of the node it ran on.                               *)
RanOn(j, n) ==
  /\ AtStep(j, "accepted") => dispatch[j].node = n
  /\ j \notin DOMAIN dispatch \cup unrecorded =>
       /\ j \in DOMAIN jobs /\ jobs[j].dispatched_to_node = n
       /\ j \in DOMAIN dispatched_at

KeptInv ==
  /\ \A e \in Outstanding : RanOn(e.job, e.node)
  /\ \A j \in DOMAIN job_results : RanOn(j, job_results[j].node_id)

(* The thread hands the node and the time over to the row, or the job is   *)
(* remembered as unrecorded.                                               *)
LEMMA RanOnStays ==
  ASSUME ExperimentInv, SchedulerStep, Effects, NEW j \in Spent, NEW n, RanOn(j, n)
  PROVE  RanOn(j, n)'
<1>1. /\ unrecorded' = unrecorded \cup (Recorded \ DOMAIN jobs)
      /\ DOMAIN dispatched_at' = DOMAIN dispatched_at \cup DispatchUpdate
      /\ DOMAIN jobs \subseteq DOMAIN jobs'
  BY DEF SchedulerStep, Timestamps, Effects
<1>2. CASE RecordDispatch(j)
  <2>1. /\ AtStep(j, "accepted") /\ j \notin DOMAIN dispatch' /\ j \in Job
        /\ db_dispatch_job(j, dispatch[j].node)
    BY <1>2 DEF RecordDispatch, EndThread, Pop, Restrict, AtStep, ExperimentInv, SchedulerInv,
       PipelineInv, PipelineTypes
  <2>2. j \in Recorded
    BY <2>1 DEF Recorded
  <2>3. CASE j \notin DOMAIN jobs
    BY <1>1, <2>1, <2>2, <2>3 DEF RanOn, AtStep
  <2>4. CASE j \in DOMAIN jobs
    <3>1. jobs[j] \in JobRow
      BY <2>4 DEF ExperimentInv, SchedulerInv, StoreTypeOK
    <3>2. jobs'[j].dispatched_to_node = dispatch[j].node /\ j \in DOMAIN jobs'
      BY <2>1, <2>4, <3>1 DEF db_dispatch_job, JobRow
    <3> QED
      BY <1>1, <2>1, <2>2, <2>4, <3>2 DEF RanOn, AtStep, DispatchUpdate
  <2> QED
    BY <2>3, <2>4
<1>3. CASE Undisturbed(j)
  <2>1. AtStep(j, "accepted")' <=> AtStep(j, "accepted")
    BY <1>3 DEF Undisturbed, AtStep
  <2>2. AtStep(j, "accepted")' => dispatch'[j].node = dispatch[j].node
    BY <1>3 DEF Undisturbed, AtStep
  <2> QED
    BY <1>1, <1>3, <2>1, <2>2 DEF Undisturbed, RanOn
<1> QED
  BY <1>2, <1>3 DEF Effects

LEMMA KeptNext ==
  ASSUME AcceptedIsSeen, ExperimentInv, KeptInv, [ENext]_eVars
  PROVE  KeptInv'
<1>1. CASE SchedulerStep
  <2>1. Effects
    BY <1>1, EffectsNext, SchedulerSteps DEF ExperimentInv
  <2>2. \A j \in Spent : \A n : RanOn(j, n) => RanOn(j, n)'
    BY <1>1, <2>1, RanOnStays
  <2>3. ASSUME NEW e \in Outstanding' PROVE RanOn(e.job, e.node)'
    <3>1. CASE e \in Outstanding
      BY <2>2, <3>1 DEF KeptInv, Spent
    <3>2. CASE e \notin Outstanding
      BY <2>1, <3>2 DEF Effects, RanOn, AtStep
    <3> QED
      BY <3>1, <3>2
  <2>4. ASSUME NEW j \in DOMAIN job_results'
        PROVE  \E n : n = job_results'[j].node_id /\ RanOn(j, n)'
    <3>1. CASE j \in DOMAIN job_results /\ job_results'[j] = job_results[j]
      BY <2>2, <3>1 DEF KeptInv, Spent
    <3>2. ASSUME NEW r \in callback_released, CallbackRecord(r), r.execution.job = j
          PROVE  \E n : n = job_results'[j].node_id /\ RanOn(j, n)'
      <4>1. job_results'[j].node_id = r.execution.node
        BY <3>2 DEF CallbackRecord, db_record_job_result
      <4>2. r.execution \in Outstanding
        BY <3>2 DEF Outstanding, Reporting
      <4> QED
        BY <2>2, <3>2, <4>1, <4>2 DEF KeptInv, Spent
    <3>3. ASSUME NEW r \in callback_released, CallbackRecord(r), r.execution.job # j
          PROVE  j \in DOMAIN job_results /\ job_results'[j] = job_results[j]
      BY <3>3 DEF CallbackRecord, db_record_job_result
    <3> QED
      BY <2>1, <3>1, <3>2, <3>3 DEF Effects
  <2>5. \A j \in DOMAIN job_results' : RanOn(j, job_results[j].node_id)'
    BY <2>4
  <2> QED
    BY <2>3, <2>5 DEF KeptInv
<1>2. CASE UNCHANGED <<vars, timeVars>>
  <2>1. UNCHANGED <<dispatch, jobs, job_results, executing, orphaned, callback_sent,
                    callback_released, unrecorded, dispatched_at>>
    BY <1>2 DEF vars, timeVars, storeVars, threadVars, agentVars, executionVars, reportVars
  <2> QED
    BY <2>1 DEF KeptInv, RanOn, AtStep, Outstanding, Containers, Reporting
<1> QED
  BY <1>1, <1>2, WhoSteps

(* A finished job is attributed to the node that ran it, and has the time  *)
(* of its dispatch, unless it was dispatched before its row was inserted.  *)
THEOREM MeasurementsKept ==
  ASSUME AcceptedIsSeen
  PROVE  ESpec => []MeasurementKept
<1>1. EInit => KeptInv
  BY DEF EInit, Init, StoreInit, NoRows, KeptInv, Outstanding, Containers, Reporting
<1>2. KeptInv => MeasurementKept
  BY DEF KeptInv, RanOn, MeasurementKept
<1>3. ExperimentInv /\ KeptInv /\ [ENext]_eVars => KeptInv'
  BY KeptNext
<1> QED
  BY <1>1, <1>2, <1>3, TimeAlways, PTL DEF ESpec

-----------------------------------------------------------------------------
(* A drain is read off the rows.  What makes it one is that a row says     *)
(* finished only of a job with a result or given up, and that such a job   *)
(* holds nothing: its report released the slot before it was recorded, and *)
(* nobody reserves a slot for it again.                                    *)
Settled == DOMAIN job_results \cup abandoned

SettledInv ==
  /\ \A j \in DOMAIN jobs : jobs[j].status \in Terminal => j \in Settled
  /\ \A j \in Settled \cup {r.execution.job : r \in callback_released} : j \notin DOMAIN reservations

LEMMA SettledFrame ==
  ASSUME SettledInv, DOMAIN reservations' \subseteq DOMAIN reservations,
         Settled \subseteq Settled',
         Settled' \subseteq Settled \cup {r.execution.job : r \in callback_released},
         callback_released' \subseteq callback_released,
         \A j \in DOMAIN jobs' : jobs'[j].status \in Terminal =>
           (j \in DOMAIN jobs /\ jobs[j].status \in Terminal) \/ j \in Settled'
  PROVE  SettledInv'
BY DEF SettledInv

LEMMA SettledThread ==
  ASSUME SchedulerInv, SettledInv, NEW j \in Job, DispatchThread(j)
  PROVE  SettledInv'
<1> USE DEF csVars, ledgerVars, queueVars, storeVars, clientVars, dispatcherVars, agentVars,
            reportVars, Settled
<1>1. CASE RecordDispatch(j)
  <2>1. /\ UNCHANGED <<reservations, job_results, abandoned, callback_released>>
        /\ db_dispatch_job(j, dispatch[j].node) /\ dispatch[j].node \in Node
    BY <1>1 DEF RecordDispatch, db_dispatch_job, AtStep, SchedulerInv, PipelineInv, PipelineTypes
  <2>2. \A k \in DOMAIN jobs' : jobs'[k].status \in Terminal =>
          k \in DOMAIN jobs /\ jobs[k].status \in Terminal
    BY <2>1 DEF db_dispatch_job, SchedulerInv, StoreTypeOK, JobRow, Terminal
  <2> QED
    BY <2>1, <2>2, SettledFrame
<1>2. CASE Abandon(j)
  <2>1. /\ AtStep(j, "released") /\ db_mark_job_failed(j)
        /\ UNCHANGED <<reservations, callback_released>> /\ abandoned' = abandoned \cup {j}
    BY <1>2 DEF Abandon
  <2>2. j \notin DOMAIN reservations
    BY <2>1 DEF SchedulerInv, PipelineInv, WaitingHoldsNothing
  <2>3. Settled' = Settled \cup {j}
    BY <2>1 DEF db_mark_job_failed
  <2>4. DOMAIN jobs' = DOMAIN jobs /\ \A k \in DOMAIN jobs : k # j => jobs'[k] = jobs[k]
    BY <2>1 DEF db_mark_job_failed, SetStatus
  <2> QED
    BY <2>1, <2>2, <2>3, <2>4 DEF SettledInv
<1>3. CASE ReleaseFailed(j)
  BY <1>3, ReleaseShrinks, SettledFrame DEF ReleaseFailed
<1>4. CASE ~(RecordDispatch(j) \/ Abandon(j) \/ ReleaseFailed(j))
  <2>1. UNCHANGED <<reservations, jobs, job_results, abandoned, callback_released>>
    BY <1>4 DEF DispatchThread, PostAccepted, PostFails, PostResponseLost, RecordDispatchFails,
       Requeue, AbandonFails
  <2> QED
    BY <2>1, SettledFrame
<1> QED
  BY <1>1, <1>2, <1>3, <1>4

LEMMA SettledCallback ==
  ASSUME SettledInv, NEW r, Callback(r)
  PROVE  SettledInv'
<1> USE DEF csVars, ledgerVars, storeVars, threadVars, Settled
<1>1. CASE CallbackRelease(r)
  <2>1. /\ UNCHANGED <<jobs, job_results, abandoned>>
        /\ callback_released' = callback_released \cup {r}
        /\ DOMAIN reservations' = DOMAIN reservations \ {r.execution.job}
    BY <1>1, ReleaseShrinks DEF CallbackRelease
  <2> QED
    BY <2>1 DEF SettledInv
<1>2. CASE CallbackRecord(r)
  <2>1. /\ r \in callback_released /\ callback_released' = callback_released \ {r}
        /\ UNCHANGED <<reservations, abandoned>>
        /\ DOMAIN job_results' = DOMAIN job_results \cup {r.execution.job}
        /\ DOMAIN jobs' = DOMAIN jobs
        /\ \A k \in DOMAIN jobs : k # r.execution.job => jobs'[k] = jobs[k]
    BY <1>2 DEF CallbackRecord, db_record_job_result, SetStatus
  <2> QED
    BY <2>1, SettledFrame
<1>3. CASE CallbackRecordFails(r) \/ LoseCallback(r)
  BY <1>3, SettledFrame DEF CallbackRecordFails, LoseCallback, reportVars
<1> QED
  BY <1>1, <1>2, <1>3 DEF Callback

LEMMA SettledNext ==
  ASSUME SchedulerInv, ExecutionInv, SettledInv, [Next]_vars
  PROVE  SettledInv'
<1> USE DEF csVars, ledgerVars, queueVars, storeVars, clientVars, dispatcherVars, threadVars,
            agentVars, reportVars, Settled
<1>1. ASSUME UNCHANGED <<reservations, jobs, job_results, abandoned, callback_released>>
      PROVE  SettledInv'
  BY <1>1, SettledFrame
<1>2. ASSUME NEW j, SubmitEnqueue(j) \/ SubmitInsertFails(j) PROVE SettledInv'
  BY <1>1, <1>2 DEF SubmitEnqueue, SubmitInsertFails
<1>3. ASSUME NEW j, NEW run, SubmitInsert(j, run) PROVE SettledInv'
  <2>1. /\ UNCHANGED <<reservations, job_results, abandoned, callback_released>>
        /\ DOMAIN jobs' = DOMAIN jobs \cup {j} /\ j \notin DOMAIN jobs
        /\ \A k \in DOMAIN jobs : jobs'[k] = jobs[k]
        /\ jobs'[j].status = "queued"
    BY <1>3 DEF SubmitInsert, db_submit_job
  <2> QED
    BY <2>1, SettledFrame DEF Terminal
<1>4. CASE DispatcherDequeue \/ DispatcherReserveRefused
  BY <1>1, <1>4 DEF DispatcherDequeue, DispatcherReserveRefused
<1>5. CASE DispatcherReserve
  <2>1. /\ UNCHANGED <<jobs, job_results, abandoned, callback_released>>
        /\ DOMAIN reservations' = DOMAIN reservations \cup {held}
    BY <1>5 DEF DispatcherReserve, reserve_slot, Store
  <2>2. held \notin Spent /\ Settled \cup {r.execution.job : r \in callback_released} \subseteq Spent
    BY DEF ExecutionInv, SpentIsAway, Spent, Outstanding, Reporting
  <2> QED
    BY <2>1, <2>2 DEF SettledInv
<1>6. ASSUME NEW n, DispatcherSelect(n) PROVE SettledInv'
  BY <1>1, <1>6 DEF DispatcherSelect
<1>7. ASSUME NEW j \in Job, DispatchThread(j) PROVE SettledInv'
  BY <1>7, SettledThread
<1>8. ASSUME NEW n, AgentStep(n) PROVE SettledInv'
  BY <1>1, <1>8 DEF AgentStep, AgentRegister, AgentRegisterFails, AgentServe, AgentHeartbeat,
     AgentCrash, register_node, register_heartbeat
<1>9. ASSUME NEW e, ExecutionStep(e) PROVE SettledInv'
  BY <1>1, <1>9 DEF ExecutionStep, FinishExecution, WaitFails, OrphanEnds
<1>10. ASSUME NEW r, Callback(r) PROVE SettledInv'
  BY <1>10, SettledCallback
<1>11. ASSUME NEW expired, ExpireNodes(expired) PROVE SettledInv'
  BY <1>1, <1>11 DEF ExpireNodes, remove_expired_nodes
<1>12. CASE UNCHANGED vars
  BY <1>1, <1>12 DEF vars
<1>13. CASE OtherStep
  BY <1>2, <1>4, <1>5, <1>7, <1>8, <1>9, <1>10, <1>11, <1>13 DEF OtherStep
<1> QED
  BY <1>3, <1>6, <1>12, <1>13 DEF Next

LEMMA SettledAlways ==
  ASSUME AcceptedIsSeen
  PROVE  Spec => []SettledInv
<1>1. Init => SettledInv
  BY DEF Init, StoreInit, NoRows, SettledInv, Settled
<1>2. SchedulerInv /\ ExecutionInv /\ SettledInv /\ [Next]_vars => SettledInv'
  BY SettledNext
<1> QED
  BY <1>1, <1>2, SchedulerAlways, ExecutionAlways, PTL DEF Spec

-----------------------------------------------------------------------------
(* Once the trace is submitted nothing else is, and once the harness saw   *)
(* the run drained every job is finished and stays so.                     *)
Finished == {j \in DOMAIN jobs : jobs[j].run_id = ThisRun /\ jobs[j].status \in Terminal}

DrainInv ==
  /\ harness \in {"drain", "finish", "export", "done"} => submitted = ToSet(Trace)
  /\ drained => harness \in {"finish", "export", "done", "failed"} /\ submitted \subseteq Finished

(* The jobs of a trace are counted by its length. *)
LEMMA TraceCounts ==
  /\ IsFiniteSet(ToSet(Trace))
  /\ Cardinality(ToSet(Trace)) = Len(Trace)
<1> DEFINE places == 1 .. Len(Trace)
<1>1. Len(Trace) \in Nat /\ Trace \in [places -> ToSet(Trace)] /\ DOMAIN Trace = places
  BY ExperimentAssumption DEF ToSet
<1>2. Trace \in Injection(places, ToSet(Trace))
  BY <1>1, ExperimentAssumption DEF Injection, IsInjective
<1>3. Trace \in Surjection(places, ToSet(Trace))
  BY <1>1 DEF Surjection, ToSet
<1>4. IsFiniteSet(places) /\ Cardinality(places) = Len(Trace)
  BY <1>1, FS_Interval
<1> HIDE DEF places
<1> QED
  BY <1>2, <1>3, <1>4, FS_Surjection

(* As many finished rows as the trace has jobs are those of all of them. *)
LEMMA DrainIsOne ==
  ASSUME DOMAIN jobs \subseteq submitted, submitted = ToSet(Trace),
         get_run_progress(ThisRun) >= Len(Trace)
  PROVE  submitted \subseteq Finished
<1>1. Finished \in SUBSET ToSet(Trace)
  BY DEF Finished
<1>2. Cardinality(Finished) >= Len(Trace)
  BY DEF get_run_progress, Finished
<1>3. /\ IsFiniteSet(Finished) /\ Cardinality(Finished) <= Len(Trace)
      /\ Cardinality(Finished) = Len(Trace) => Finished = ToSet(Trace)
  BY <1>1, TraceCounts, FS_Subset
<1>4. Len(Trace) \in Nat /\ Cardinality(Finished) \in Nat
  BY <1>3, ExperimentAssumption, FS_CardinalityType
<1> QED
  BY <1>2, <1>3, <1>4

LEMMA FinishedStays ==
  ASSUME SchedulerInv, [Next]_vars
  PROVE  Finished \subseteq Finished'
BY StoreUse, StoreStep DEF SchedulerInv, StickyStep, Finished

LEMMA DrainNext ==
  ASSUME ExperimentInv, DrainInv, [ENext]_eVars
  PROVE  DrainInv'
<1>1. CASE SchedulerStep
  <2>1. UNCHANGED <<harness, drained>> /\ (harness # "submit" => submitted' = submitted)
    BY <1>1 DEF SchedulerStep, harnessVars, SubmitsInOrder
  <2>2. Finished \subseteq Finished'
    BY <1>1, SchedulerSteps, FinishedStays DEF ExperimentInv
  <2> QED
    BY <2>1, <2>2 DEF DrainInv
<1>2. CASE UNCHANGED <<vars, timeVars>>
  <2>1. submitted' = submitted /\ Finished' = Finished
    BY <1>2 DEF vars, clientVars, storeVars, Finished
  <2>2. CASE UNCHANGED <<harness, drained>>
    BY <2>1, <2>2 DEF DrainInv
  <2>3. CASE \/ wait_for_nodes \/ wait_for_nodes_times_out \/ start_run
             \/ submit_jobs_raises \/ run_once_raises
    BY <2>1, <2>3 DEF wait_for_nodes, wait_for_nodes_times_out, start_run, submit_jobs_raises,
       run_once_raises, HarnessGoes, DrainInv
  <2>4. CASE submit_jobs_returns
    BY <2>1, <2>4 DEF submit_jobs_returns, HarnessGoes, DrainInv
  <2>5. CASE wait_for_drain
    <3>1. harness = "drain" /\ harness' = "finish" /\ get_run_progress(ThisRun) >= Len(Trace)
      BY <2>5 DEF wait_for_drain, HarnessGoes
    <3>2. submitted \subseteq Finished
      BY <3>1, DrainIsOne DEF DrainInv, ExperimentInv, TimeInv
    <3> QED
      BY <2>1, <3>1, <3>2 DEF DrainInv
  <2>6. CASE wait_for_drain_times_out \/ finish_run \/ export_run
    BY <2>1, <2>6 DEF wait_for_drain_times_out, finish_run, export_run, HarnessGoes, DrainInv
  <2> QED
    BY <1>1, <2>2, <2>3, <2>4, <2>5, <2>6 DEF ENext, Tick, harnessVars, eVars, SchedulerStep
<1> QED
  BY <1>1, <1>2, WhoSteps

(* All that is known of a run while it is measured and after it. *)
RunInvariant == ExperimentInv /\ SettledInv /\ DrainInv /\ Stages /\ ReservationInv

LEMMA RunAlways ==
  ASSUME AcceptedIsSeen, WaitSucceeds
  PROVE  ESpec => []RunInvariant
<1>1. EInit => DrainInv
  BY DEF EInit, DrainInv
<1>2. ExperimentInv /\ DrainInv /\ [ENext]_eVars => DrainInv'
  BY DrainNext
<1>3. ESpec => [](SettledInv /\ ReservationInv /\ LifeInv)
  BY HarnessUsesScheduler, SettledAlways, ReservationAlways, LifeAlways, PTL
<1>4. LifeInv => Stages
  BY DEF LifeInv
<1>5. ExperimentInv /\ SettledInv /\ DrainInv /\ Stages /\ ReservationInv => RunInvariant
  BY DEF RunInvariant
<1> QED
  BY <1>1, <1>2, <1>3, <1>4, <1>5, TimeAlways, PTL DEF ESpec

(* After a drain nothing waits, runs, is reported or holds anything. *)
LEMMA NothingLeft ==
  ASSUME RunInvariant, drained
  PROVE  job_queue = << >> /\ Outstanding = {} /\ DOMAIN reservations = {}
<1>1. submitted \subseteq Settled /\ Settled \subseteq Spent
  BY DEF RunInvariant, DrainInv, SettledInv, Finished, Settled, Spent
<1>2. Queued = {}
  BY <1>1 DEF RunInvariant, ExperimentInv, SchedulerInv, PipelineInv, OnlySubmitted, ExecutionInv,
     SpentIsAway
<1>3. job_queue = << >>
  <2>1. job_queue \in Seq(Job) /\ Len(job_queue) \in Nat
    BY DEF RunInvariant, ExperimentInv, SchedulerInv, PipelineInv, PipelineTypes
  <2>2. 1 \notin 1 .. Len(job_queue)
    BY <1>2 DEF Queued
  <2> QED
    BY <2>1, <2>2, EmptySeq
<1>4. DOMAIN reservations = {}
  BY <1>1 DEF RunInvariant, ExperimentInv, SchedulerInv, PipelineInv, OnlySubmitted, SettledInv
<1>5. ASSUME NEW e \in Outstanding PROVE FALSE
  <2>1. e.job \in submitted
    BY <1>5 DEF RunInvariant, ExperimentInv, ExecutionInv, SpentIsAway, Spent
  <2>2. e.job \notin abandoned
    BY <1>5 DEF RunInvariant, ExperimentInv, ExecutionInv, AbandonedNeverRan
  <2>3. e \notin Containers
    BY <1>4 DEF RunInvariant, ReservationInv, Holding
  <2>4. e \in Reporting
    BY <1>5, <2>3 DEF Outstanding
  <2> QED
    BY <1>1, <2>1, <2>2, <2>4 DEF RunInvariant, Stages, Settled
<1> QED
  BY <1>3, <1>4, <1>5

(* After a drain the next run is not refused. *)
THEOREM DrainedRunsFollow ==
  ASSUME AcceptedIsSeen, WaitSucceeds
  PROVE  ESpec => []DrainedMeansStartable
<1>1. ASSUME RunInvariant, CSTypeOK, NoPhantomNode, LedgerBacked
      PROVE  DrainedMeansStartable
  <2>1. SUFFICES ASSUME drained
                 PROVE  \A n \in DOMAIN running_jobs : running_jobs[n] = 0
    BY <1>1, NothingLeft DEF DrainedMeansStartable
  <2>2. SUFFICES ASSUME NEW n \in DOMAIN running_jobs PROVE running_jobs[n] = 0
    OBVIOUS
  <2>3. Holders(n) = {}
    BY <1>1, <2>1, NothingLeft DEF Holders
  <2>4. running_jobs[n] \in Nat /\ running_jobs[n] <= ReservedCpus(n)
    BY <1>1 DEF CSTypeOK, NoPhantomNode, LedgerBacked, Count
  <2> QED
    BY <2>3, <2>4, NothingHeld
<1>2. RunInvariant /\ CSTypeOK /\ NoPhantomNode /\ LedgerBacked => DrainedMeansStartable
  BY <1>1
<1> QED
  BY <1>2, RunAlways, HarnessUsesScheduler, SchedulerWithin, SchedulerNoPhantomNode,
     SchedulerNoSlotLeaks, PTL

-----------------------------------------------------------------------------
(* The parts of a summary that do not rest on the record of a dispatch. *)
Parts(made, rows) ==
  /\ made.total = Cardinality(DOMAIN rows)
  /\ made.completed = Cardinality(Successful(rows))
  /\ made.failed = Cardinality(Failed(rows))
  /\ made.incomplete =
       Cardinality({j \in DOMAIN rows : rows[j].status \notin {"completed", "failed"}})
  /\ made.makespan_s = Makespan(rows)
  /\ made.throughput = IF Makespan(rows) = None THEN None
                       ELSE Quotient(Cardinality(Successful(rows)), Makespan(rows))
  /\ made.runtime_s = distribution(Column(rows, DOMAIN rows, "runtime_s"))
  /\ made.turnaround_s = distribution(Column(rows, DOMAIN rows, "turnaround_s"))

LEMMA SummaryParts ==
  ASSUME NEW cluster, NEW rowset
  PROVE  Parts(summarise(cluster, rowset), job_rows(rowset))
BY DEF summarise, Parts

FinalFields == {"total", "completed", "failed", "incomplete", "makespan_s", "throughput",
                "runtime_s", "turnaround_s"}

(* They are the same for rows that differ in where and when jobs were      *)
(* dispatched only.                                                        *)
LEMMA SameParts ==
  ASSUME NEW cluster, NEW before, NEW after, DOMAIN before = DOMAIN after,
         \A j \in DOMAIN before :
           /\ before[j].status = after[j].status
           /\ before[j].success = after[j].success
           /\ before[j].submitted_at = after[j].submitted_at
           /\ before[j].completed_at = after[j].completed_at
           /\ before[j].runtime_seconds = after[j].runtime_seconds
  PROVE  \A field \in FinalFields :
           summarise(cluster, before)[field] = summarise(cluster, after)[field]
<1> DEFINE b == job_rows(before)
           a == job_rows(after)
<1>1. /\ DOMAIN b = DOMAIN a
      /\ \A j \in DOMAIN b :
           /\ b[j].status = a[j].status /\ b[j].success = a[j].success
           /\ b[j].submitted_at = a[j].submitted_at /\ b[j].completed_at = a[j].completed_at
           /\ b[j].runtime_s = a[j].runtime_s /\ b[j].turnaround_s = a[j].turnaround_s
  BY DEF job_rows
<1> HIDE DEF b, a
<1>2. Successful(b) = Successful(a) /\ Failed(b) = Failed(a)
  BY <1>1 DEF Successful, Failed
<1>3. {j \in DOMAIN b : b[j].status \notin {"completed", "failed"}}
        = {j \in DOMAIN a : a[j].status \notin {"completed", "failed"}}
  BY <1>1
<1>4. Makespan(b) = Makespan(a)
  <2>1. /\ {b[j].submitted_at : j \in DOMAIN b} = {a[j].submitted_at : j \in DOMAIN a}
        /\ {b[j].completed_at : j \in DOMAIN b} = {a[j].completed_at : j \in DOMAIN a}
    BY <1>1
  <2> QED
    BY <2>1 DEF Makespan
<1>5. /\ Column(b, DOMAIN b, "runtime_s") = Column(a, DOMAIN a, "runtime_s")
      /\ Column(b, DOMAIN b, "turnaround_s") = Column(a, DOMAIN a, "turnaround_s")
  BY <1>1 DEF Column
<1> DEFINE first == summarise(cluster, before)
           second == summarise(cluster, after)
<1>6. Parts(first, b) /\ Parts(second, a)
  BY SummaryParts DEF b, a
<1> HIDE DEF first, second
<1>7. /\ first.total = second.total /\ first.completed = second.completed
      /\ first.failed = second.failed /\ first.incomplete = second.incomplete
      /\ first.makespan_s = second.makespan_s /\ first.throughput = second.throughput
      /\ first.runtime_s = second.runtime_s /\ first.turnaround_s = second.turnaround_s
  BY <1>1, <1>2, <1>3, <1>4, <1>5, <1>6 DEF Parts
<1>8. \A field \in FinalFields : first[field] = second[field]
  BY <1>7 DEF FinalFields
<1> QED
  BY <1>8 DEF first, second

(* What a row of the run says of its job, the dispatch left out. *)
LEMMA RowsStay ==
  ASSUME AcceptedIsSeen, RunInvariant, drained, [ENext]_eVars
  PROVE  LET before == get_run_jobs(ThisRun)
             after == get_run_jobs(ThisRun)'
         IN  /\ DOMAIN before = DOMAIN after
             /\ \A j \in DOMAIN before :
                  /\ before[j].status = after[j].status
                  /\ before[j].success = after[j].success
                  /\ before[j].submitted_at = after[j].submitted_at
                  /\ before[j].completed_at = after[j].completed_at
                  /\ before[j].runtime_seconds = after[j].runtime_seconds
<1>1. /\ DOMAIN jobs' = DOMAIN jobs
      /\ \A j \in DOMAIN jobs : /\ jobs'[j].status = jobs[j].status
                                /\ jobs'[j].run_id = jobs[j].run_id
                                /\ submitted_at'[j] = submitted_at[j]
      /\ job_results' = job_results
      /\ DOMAIN result_times' = DOMAIN result_times
      /\ \A j \in DOMAIN result_times : result_times'[j] = result_times[j]
  <2>1. CASE SchedulerStep
    <3>1. Effects /\ [StoreNext]_storeVars /\ StickyStep /\ DOMAIN jobs' \subseteq submitted'
      BY <2>1, SchedulerSteps, EffectsNext, StoreUse, StoreStep
         DEF RunInvariant, ExperimentInv, SchedulerInv, TimeInv, ThreadTypes, Effects
    <3>2. submitted' = submitted
      BY <2>1 DEF SchedulerStep, SubmitsInOrder, RunInvariant, DrainInv
    <3>3. submitted \subseteq Finished /\ Finished \subseteq DOMAIN jobs
      BY DEF RunInvariant, DrainInv, Finished
    <3>4. DOMAIN jobs = submitted /\ DOMAIN jobs' = DOMAIN jobs
      BY <3>1, <3>2, <3>3 DEF Effects, RunInvariant, ExperimentInv, TimeInv
    <3>5. callback_released = {}
      <4>1. \A r \in callback_released : r.execution \in Outstanding
        BY DEF Outstanding, Reporting
      <4> QED
        BY <4>1, NothingLeft
    <3>6. Handled = {} /\ job_results' = job_results
      BY <3>1, <3>5 DEF Handled, Effects
    <3>7. DOMAIN jobs \subseteq Spent
      BY <3>3, <3>4 DEF RunInvariant, SettledInv, Settled, Finished, Spent
    <3>8. \A j \in DOMAIN jobs : jobs'[j].status = jobs[j].status /\ jobs'[j].run_id = jobs[j].run_id
      BY <3>1, <3>3, <3>4, <3>6, <3>7 DEF Effects, StickyStep, Finished
    <3>9. \A j \in DOMAIN jobs : submitted_at'[j] = submitted_at[j]
      BY <2>1, <3>2, <3>4 DEF SchedulerStep, Timestamps, Stamped, RunInvariant, ExperimentInv, ETypeOK
    <3>10. /\ DOMAIN result_times' = DOMAIN result_times
           /\ \A j \in DOMAIN result_times : result_times'[j] = result_times[j]
      BY <2>1, <3>6 DEF SchedulerStep, Timestamps, Handled, RunInvariant, ExperimentInv, ETypeOK
    <3> QED
      BY <3>4, <3>6, <3>8, <3>9, <3>10
  <2>2. CASE UNCHANGED <<vars, timeVars>>
    BY <2>2 DEF vars, timeVars, storeVars
  <2> QED
    BY <2>1, <2>2, WhoSteps
<1>2. {k \in DOMAIN jobs' : jobs'[k].run_id = ThisRun} = {k \in DOMAIN jobs : jobs[k].run_id = ThisRun}
  BY <1>1
<1> QED
  BY <1>1, <1>2 DEF get_run_jobs

(* There is a summary only after the export, which comes after the drain. *)
ExportInv ==
  /\ harness # "done" => summary = None
  /\ ExportIsFinal

LEMMA ExportNext ==
  ASSUME AcceptedIsSeen, RunInvariant, ExportInv, [ENext]_eVars
  PROVE  ExportInv'
<1> DEFINE now == summarise(cluster_snapshot, get_run_jobs(ThisRun))
<1>1. CASE export_run
  <2>1. /\ summary' = now /\ harness' = "done" /\ UNCHANGED <<cluster_snapshot, vars, timeVars>>
    BY <1>1 DEF export_run, HarnessGoes
  <2>2. UNCHANGED <<jobs, job_results, result_times, submitted_at, dispatched_at>>
    BY <2>1 DEF vars, timeVars, storeVars
  <2>3. now' = now
    BY <2>1, <2>2 DEF get_run_jobs
  <2>4. ASSUME NEW field \in FinalFields PROVE summary'[field] = now'[field]
    BY <2>1, <2>3
  <2>5. ExportIsFinal'
    BY <2>4 DEF ExportIsFinal, FinalFields
  <2> QED
    BY <2>1, <2>5 DEF ExportInv
<1>2. CASE ~export_run
  <2>1. /\ summary' = summary /\ (harness = "done" => harness' = "done")
    BY <1>2 DEF ENext, SchedulerStep, Tick, HarnessGoes, wait_for_nodes, wait_for_nodes_times_out,
       start_run, submit_jobs_returns, submit_jobs_raises, run_once_raises, wait_for_drain,
       wait_for_drain_times_out, finish_run, harnessVars, eVars
  <2>2. ASSUME drained', summary' # None PROVE drained /\ UNCHANGED cluster_snapshot
    BY <1>2, <2>1, <2>2 DEF ExportInv, ENext, SchedulerStep, Tick, HarnessGoes, wait_for_nodes,
       wait_for_nodes_times_out, start_run, submit_jobs_returns, submit_jobs_raises, run_once_raises,
       wait_for_drain, wait_for_drain_times_out, finish_run, harnessVars, eVars
  <2>3. ASSUME drained', summary' # None
        PROVE  \A field \in FinalFields : summary'[field] = now'[field]
    <3>1. /\ drained /\ summary # None /\ cluster_snapshot' = cluster_snapshot
          /\ summary' = summary
      BY <2>1, <2>2, <2>3
    <3>2. \A field \in FinalFields : summary[field] = now[field]
      BY <3>1 DEF ExportInv, ExportIsFinal, FinalFields
    <3>3. \A field \in FinalFields : now[field] = now'[field]
      BY <3>1, RowsStay, SameParts
    <3> QED
      BY <3>1, <3>2, <3>3
  <2>4. ExportIsFinal'
    BY <2>3 DEF ExportIsFinal, FinalFields
  <2> QED
    BY <2>1, <2>4 DEF ExportInv
<1> QED
  BY <1>1, <1>2

(* What was exported after a drain is final. *)
THEOREM ExportsAreFinal ==
  ASSUME AcceptedIsSeen, WaitSucceeds
  PROVE  ESpec => []ExportIsFinal
<1>1. EInit => ExportInv
  BY DEF EInit, ExportInv, ExportIsFinal
<1>2. RunInvariant /\ ExportInv /\ [ENext]_eVars => ExportInv'
  BY ExportNext
<1>3. ExportInv => ExportIsFinal
  BY DEF ExportInv
<1> QED
  BY <1>1, <1>2, <1>3, RunAlways, PTL DEF ESpec

(* The rows of a drained run are those with a result, counted by it, and   *)
(* those of jobs that were given up.                                       *)
LEMMA CountsAddUp ==
  ASSUME RunInvariant, drained
  PROVE  LET now == summarise(cluster_snapshot, get_run_jobs(ThisRun))
         IN  now.total - (now.completed + now.failed + now.incomplete)
               = Cardinality(DOMAIN get_run_jobs(ThisRun) \cap abandoned)
<1> DEFINE now == summarise(cluster_snapshot, get_run_jobs(ThisRun))
           unfinished == {j \in DOMAIN Rows : Rows[j].status \notin {"completed", "failed"}}
           uncounted == DOMAIN Rows \cap abandoned
           counted == Successful(Rows) \cup Failed(Rows)
<1>1. /\ DOMAIN Rows = {k \in DOMAIN jobs : jobs[k].run_id = ThisRun}
      /\ DOMAIN get_run_jobs(ThisRun) = DOMAIN Rows
      /\ \A j \in DOMAIN Rows :
           /\ Rows[j].status = jobs[j].status
           /\ Rows[j].success = IF j \in DOMAIN job_results THEN job_results[j].success ELSE None
  BY DEF Rows, job_rows, get_run_jobs
<1>2. ASSUME NEW j \in DOMAIN Rows
      PROVE  /\ Rows[j].status \in {"completed", "failed"}
             /\ j \in DOMAIN job_results => Rows[j].success \in BOOLEAN /\ j \notin abandoned
             /\ j \notin DOMAIN job_results => Rows[j].success = None /\ j \in abandoned
  <2>1. j \in Finished
    BY <1>1 DEF RunInvariant, ExperimentInv, TimeInv, DrainInv
  <2>2. jobs[j].status \in Terminal /\ j \in Settled
    BY <2>1 DEF Finished, RunInvariant, SettledInv
  <2>3. j \in DOMAIN job_results => job_results[j].success \in BOOLEAN
    BY DEF RunInvariant, ExperimentInv, SchedulerInv, StoreTypeOK, ResultRow
  <2>4. j \in abandoned => j \notin DOMAIN job_results
    BY DEF RunInvariant, ExperimentInv, ExecutionInv, AbandonedNeverRan
  <2> QED
    BY <1>1, <2>2, <2>3, <2>4 DEF Terminal, Settled
<1>3. unfinished = {} /\ Cardinality(unfinished) = 0
  BY <1>2, FS_EmptySet
<1>4. /\ DOMAIN Rows = counted \cup uncounted /\ counted \cap uncounted = {}
      /\ Successful(Rows) \cap Failed(Rows) = {}
  BY <1>2, ExperimentAssumption DEF Successful, Failed
<1>5. /\ IsFiniteSet(Successful(Rows)) /\ IsFiniteSet(Failed(Rows))
      /\ IsFiniteSet(counted) /\ IsFiniteSet(uncounted)
  <2>1. IsFiniteSet(DOMAIN Rows)
    BY RowsAreSamples DEF RunInvariant
  <2>2. /\ Successful(Rows) \in SUBSET DOMAIN Rows /\ Failed(Rows) \in SUBSET DOMAIN Rows
        /\ counted \in SUBSET DOMAIN Rows /\ uncounted \in SUBSET DOMAIN Rows
    BY DEF Successful, Failed
  <2> QED
    BY <2>1, <2>2, FS_Subset
<1> HIDE DEF now, unfinished, uncounted
<1>6. Cardinality(counted) = Cardinality(Successful(Rows)) + Cardinality(Failed(Rows))
  <2>1. Cardinality(Successful(Rows) \cap Failed(Rows)) = 0
    BY <1>4, FS_EmptySet
  <2>2. Cardinality(counted) = Cardinality(Successful(Rows)) + Cardinality(Failed(Rows))
                                 - Cardinality(Successful(Rows) \cap Failed(Rows))
    BY <1>5, FS_Union
  <2> QED
    BY <1>5, <2>1, <2>2, FS_CardinalityType
<1> HIDE DEF counted
<1>7. Cardinality(DOMAIN Rows) = Cardinality(counted) + Cardinality(uncounted)
  <2>1. Cardinality(counted \cap uncounted) = 0
    BY <1>4, FS_EmptySet
  <2>2. Cardinality(counted \cup uncounted) = Cardinality(counted) + Cardinality(uncounted)
                                                - Cardinality(counted \cap uncounted)
    BY <1>5, FS_Union
  <2> QED
    BY <1>4, <1>5, <2>1, <2>2, FS_CardinalityType
<1>8. /\ now.total = Cardinality(DOMAIN Rows) /\ now.completed = Cardinality(Successful(Rows))
      /\ now.failed = Cardinality(Failed(Rows)) /\ now.incomplete = Cardinality(unfinished)
  <2>1. Parts(now, Rows)
    BY SummaryParts DEF now, Rows
  <2> QED
    BY <2>1 DEF Parts, unfinished
<1>9. /\ Cardinality(Successful(Rows)) \in Nat /\ Cardinality(Failed(Rows)) \in Nat
      /\ Cardinality(uncounted) \in Nat
  BY <1>5, FS_CardinalityType
<1>10. now.total - (now.completed + now.failed + now.incomplete) = Cardinality(uncounted)
  BY <1>3, <1>6, <1>7, <1>8, <1>9
<1> QED
  BY <1>1, <1>10 DEF now, uncounted

(* Nobody but the jobs that were given up is missing from the counts of    *)
(* what was exported after a drain.                                        *)
THEOREM OnlyGivenUpAreUncounted ==
  ASSUME AcceptedIsSeen, WaitSucceeds
  PROVE  ESpec => []UncountedWereGivenUp
<1>1. RunInvariant /\ ExportIsFinal => UncountedWereGivenUp
  BY CountsAddUp DEF ExportIsFinal, UncountedWereGivenUp
<1> QED
  BY <1>1, ExportsAreFinal, RunAlways, PTL

-----------------------------------------------------------------------------
(* UtilisationWithinSkew adds up runtimes by the node in the rows.  First,  *)
(* that is the node which ran the job: a job on its way to an agent has    *)
(* none yet, and the one that is recorded is that of the live thread.      *)
Vacant == \A j \in DOMAIN jobs \cap Underway : jobs[j].dispatched_to_node = NoNode

RowRan(j, n) == j \in DOMAIN jobs => jobs[j].dispatched_to_node \in {NoNode, n}

AttributedInv ==
  /\ Vacant
  /\ \A e \in Outstanding : RowRan(e.job, e.node)
  /\ \A j \in DOMAIN job_results : RowRan(j, job_results[j].node_id)

(* A row is inserted without a node. *)
NewRowsVacant == \A j \in DOMAIN jobs' \ DOMAIN jobs : jobs'[j].dispatched_to_node = NoNode

LEMMA NewRows ==
  ASSUME [StoreNext]_storeVars
  PROVE  NewRowsVacant
<1>1. CASE DOMAIN jobs' \subseteq DOMAIN jobs
  BY <1>1 DEF NewRowsVacant
<1>2. ASSUME NEW j \in Job, NEW run, db_submit_job(j, run) PROVE NewRowsVacant
  BY <1>2 DEF db_submit_job, NewRowsVacant
<1>3. ASSUME NEW j \in Job, NEW n, db_dispatch_job(j, n) PROVE DOMAIN jobs' \subseteq DOMAIN jobs
  BY <1>3 DEF db_dispatch_job
<1>4. ASSUME NEW j \in Job, NEW status, SetStatus(j, status)
      PROVE  DOMAIN jobs' \subseteq DOMAIN jobs
  BY <1>4 DEF SetStatus
<1> QED
  BY <1>1, <1>2, <1>3, <1>4 DEF StoreNext, db_record_job_result, db_mark_job_failed, storeVars

LEMMA VacantFrame ==
  ASSUME Vacant, NewRowsVacant, NoJob \notin DOMAIN jobs', Underway' \subseteq Underway \cup {NoJob},
         \A j \in DOMAIN jobs \cap DOMAIN jobs' :
           jobs'[j].dispatched_to_node = jobs[j].dispatched_to_node
  PROVE  Vacant'
BY DEF Vacant, NewRowsVacant

LEMMA VacantThread ==
  ASSUME SchedulerInv, Vacant, NewRowsVacant, NoJob \notin DOMAIN jobs',
         NEW j \in Job, DispatchThread(j)
  PROVE  Vacant'
<1> USE DEF csVars, queueVars, storeVars, clientVars, dispatcherVars, agentVars
<1>1. CASE RecordDispatch(j)
  <2>1. /\ UNCHANGED <<job_queue, held>> /\ DOMAIN dispatch' = DOMAIN dispatch \ {j}
        /\ j \in DOMAIN dispatch
        /\ DOMAIN jobs' = DOMAIN jobs /\ \A k \in DOMAIN jobs : k # j => jobs'[k] = jobs[k]
    BY <1>1 DEF RecordDispatch, db_dispatch_job, EndThread, Pop, Restrict, AtStep
  <2>2. j \notin Queued /\ j # held
    BY <2>1 DEF SchedulerInv, PipelineInv, NoDoublePlacement
  <2>3. Underway' = Underway \ {j}
    BY <2>1, <2>2 DEF Underway, Queued
  <2> QED
    BY <2>1, <2>3 DEF Vacant
<1>2. CASE Requeue(j)
  <2>1. /\ UNCHANGED <<jobs, held>> /\ DOMAIN dispatch' = DOMAIN dispatch \ {j}
        /\ j \in DOMAIN dispatch /\ job_queue' = Append(job_queue, j)
    BY <1>2 DEF Requeue, EndThread, Pop, Restrict, AtStep
  <2>2. Queued' = Queued \cup {j}
    BY <2>1, QueueAppend DEF SchedulerInv, PipelineInv, PipelineTypes
  <2> QED
    BY <2>1, <2>2, VacantFrame DEF Underway
<1>3. CASE Abandon(j)
  <2>1. /\ UNCHANGED <<job_queue, held>> /\ DOMAIN dispatch' \subseteq DOMAIN dispatch
        /\ \A k \in DOMAIN jobs : jobs'[k].dispatched_to_node = jobs[k].dispatched_to_node
    BY <1>3 DEF Abandon, EndThread, Pop, Restrict, db_mark_job_failed, SetStatus
  <2> QED
    BY <2>1, VacantFrame DEF Underway, Queued
<1>4. CASE ~(RecordDispatch(j) \/ Requeue(j) \/ Abandon(j))
  <2>1. UNCHANGED <<jobs, job_queue, held>> /\ DOMAIN dispatch' \subseteq DOMAIN dispatch
    BY <1>4 DEF DispatchThread, PostAccepted, PostFails, PostResponseLost, RecordDispatchFails,
       ReleaseFailed, AbandonFails, GoTo, EndThread, Pop, Restrict
  <2> QED
    BY <2>1, VacantFrame DEF Underway, Queued
<1> QED
  BY <1>1, <1>2, <1>3, <1>4

LEMMA VacantNext ==
  ASSUME SchedulerInv, DOMAIN jobs \subseteq submitted, Vacant, [Next]_vars
  PROVE  Vacant'
<1> USE DEF csVars, queueVars, storeVars, clientVars, dispatcherVars, threadVars, agentVars
<1>1. NewRowsVacant /\ NoJob \notin DOMAIN jobs'
  BY NewRows, StoreUse, SchedulerNext, SchedulerAssumption DEF SchedulerInv, StoreTypeOK
<1>2. ASSUME UNCHANGED <<jobs, job_queue, held, dispatch>> PROVE Vacant'
  BY <1>2 DEF Vacant, Underway, Queued
<1>3. ASSUME NEW j \in Job, SubmitEnqueue(j) PROVE Vacant'
  <2>1. Queued' = Queued \cup {j} /\ j \notin DOMAIN jobs /\ UNCHANGED <<jobs, held, dispatch>>
    BY <1>3, QueueAppend DEF SubmitEnqueue, enqueue_job, SchedulerInv, PipelineInv, PipelineTypes
  <2> QED
    BY <2>1 DEF Vacant, Underway
<1>4. ASSUME NEW j, SubmitInsertFails(j) PROVE Vacant'
  BY <1>2, <1>4 DEF SubmitInsertFails
<1>5. ASSUME NEW j, NEW run, SubmitInsert(j, run) PROVE Vacant'
  <2>1. UNCHANGED <<job_queue, held, dispatch>> /\ \A k \in DOMAIN jobs : jobs'[k] = jobs[k]
    BY <1>5 DEF SubmitInsert, db_submit_job
  <2> QED
    BY <1>1, <2>1, VacantFrame DEF Underway, Queued
<1>6. CASE DispatcherDequeue
  <2>1. Queued' = Queued \ {held'} /\ held' \in Queued /\ UNCHANGED <<jobs, dispatch>>
    BY <1>6, QueueTail DEF DispatcherDequeue, dequeue_job, SchedulerInv, PipelineInv,
       PipelineTypes, NoDoublePlacement
  <2> QED
    BY <1>1, <2>1, VacantFrame DEF Underway
<1>7. CASE DispatcherReserve
  <2>1. /\ DOMAIN dispatch' = DOMAIN dispatch \cup {held} /\ held' = NoJob
        /\ UNCHANGED <<jobs, job_queue>>
    BY <1>7 DEF DispatcherReserve, Store
  <2> QED
    BY <1>1, <2>1, VacantFrame DEF Underway, Queued
<1>8. CASE DispatcherReserveRefused
  BY <1>2, <1>8 DEF DispatcherReserveRefused
<1>9. ASSUME NEW n, DispatcherSelect(n) PROVE Vacant'
  BY <1>2, <1>9 DEF DispatcherSelect
<1>10. ASSUME NEW j \in Job, DispatchThread(j) PROVE Vacant'
  BY <1>1, <1>10, VacantThread
<1>11. ASSUME NEW n, AgentStep(n) PROVE Vacant'
  BY <1>2, <1>11 DEF AgentStep, AgentRegister, AgentRegisterFails, AgentServe, AgentHeartbeat,
     AgentCrash
<1>12. ASSUME NEW e, ExecutionStep(e) PROVE Vacant'
  BY <1>2, <1>12 DEF ExecutionStep, FinishExecution, WaitFails, OrphanEnds
<1>13. ASSUME NEW r, Callback(r) PROVE Vacant'
  <2>1. UNCHANGED <<job_queue, held, dispatch>>
    BY <1>13 DEF Callback, CallbackRelease, CallbackRecord, CallbackRecordFails, LoseCallback
  <2>2. ASSUME CallbackRecord(r)
        PROVE  \A j \in DOMAIN jobs : jobs'[j].dispatched_to_node = jobs[j].dispatched_to_node
    BY <2>2 DEF CallbackRecord, db_record_job_result, SetStatus
  <2>3. ASSUME ~CallbackRecord(r) PROVE UNCHANGED jobs
    BY <1>13, <2>3 DEF Callback, CallbackRelease, CallbackRecordFails, LoseCallback
  <2> QED
    BY <1>1, <2>1, <2>2, <2>3, VacantFrame DEF Underway, Queued
<1>14. ASSUME NEW expired, ExpireNodes(expired) PROVE Vacant'
  BY <1>2, <1>14 DEF ExpireNodes
<1>15. CASE UNCHANGED vars
  BY <1>2, <1>15 DEF vars
<1>16. CASE OtherStep
  BY <1>3, <1>4, <1>6, <1>7, <1>8, <1>10, <1>11, <1>12, <1>13, <1>14, <1>16 DEF OtherStep
<1> QED
  BY <1>5, <1>9, <1>15, <1>16 DEF Next

(* The row of a job that was accepted names the node that ran it or none.  *)
LEMMA AttributedNext ==
  ASSUME AcceptedIsSeen, ExperimentInv, KeptInv, AttributedInv, [ENext]_eVars
  PROVE  AttributedInv'
<1>1. CASE SchedulerStep
  <2>1. Effects /\ [Next]_vars
    BY <1>1, EffectsNext, SchedulerSteps DEF ExperimentInv
  <2>2. Vacant'
    BY <2>1, VacantNext DEF ExperimentInv, TimeInv, AttributedInv
  <2>3. NewRowsVacant
    BY <2>1, NewRows, StoreUse DEF ExperimentInv, SchedulerInv
  <2>4. ASSUME NEW j \in Spent, NEW n, RanOn(j, n), RowRan(j, n)
        PROVE  RowRan(j, n)'
    <3>1. SUFFICES ASSUME j \in DOMAIN jobs' PROVE jobs'[j].dispatched_to_node \in {NoNode, n}
      BY DEF RowRan
    <3>2. CASE j \notin DOMAIN jobs
      BY <2>3, <3>1, <3>2 DEF NewRowsVacant
    <3>3. CASE j \in DOMAIN jobs /\ Undisturbed(j)
      BY <2>4, <3>3 DEF Undisturbed, RowRan
    <3>4. CASE j \in DOMAIN jobs /\ RecordDispatch(j)
      <4>1. AtStep(j, "accepted") /\ db_dispatch_job(j, dispatch[j].node) /\ jobs[j] \in JobRow
        BY <3>4 DEF RecordDispatch, ExperimentInv, SchedulerInv, StoreTypeOK
      <4>2. jobs'[j].dispatched_to_node = dispatch[j].node
        BY <3>4, <4>1 DEF db_dispatch_job, JobRow
      <4> QED
        BY <2>4, <4>1, <4>2 DEF RanOn
    <3> QED
      BY <2>1, <3>2, <3>3, <3>4 DEF Effects
  <2>5. ASSUME NEW e \in Outstanding' PROVE RowRan(e.job, e.node)'
    <3>1. CASE e \in Outstanding
      BY <2>4, <3>1 DEF KeptInv, AttributedInv, Spent
    <3>2. CASE e \notin Outstanding
      <4>1. e.job \in DOMAIN dispatch'
        BY <2>1, <3>2 DEF Effects, AtStep
      <4>2. e.job \in Underway'
        BY <4>1 DEF Underway
      <4> QED
        BY <2>2, <4>2 DEF Vacant, RowRan
    <3> QED
      BY <3>1, <3>2
  <2>6. ASSUME NEW j \in DOMAIN job_results'
        PROVE  \E n : n = job_results'[j].node_id /\ RowRan(j, n)'
    <3>1. CASE j \in DOMAIN job_results /\ job_results'[j] = job_results[j]
      BY <2>4, <3>1 DEF KeptInv, AttributedInv, Spent
    <3>2. ASSUME NEW r \in callback_released, CallbackRecord(r), r.execution.job = j
          PROVE  \E n : n = job_results'[j].node_id /\ RowRan(j, n)'
      <4>1. job_results'[j].node_id = r.execution.node
        BY <3>2 DEF CallbackRecord, db_record_job_result
      <4>2. r.execution \in Outstanding
        BY <3>2 DEF Outstanding, Reporting
      <4> QED
        BY <2>4, <3>2, <4>1, <4>2 DEF KeptInv, AttributedInv, Spent
    <3>3. ASSUME NEW r \in callback_released, CallbackRecord(r), r.execution.job # j
          PROVE  j \in DOMAIN job_results /\ job_results'[j] = job_results[j]
      BY <3>3 DEF CallbackRecord, db_record_job_result
    <3> QED
      BY <2>1, <3>1, <3>2, <3>3 DEF Effects
  <2>7. \A j \in DOMAIN job_results' : RowRan(j, job_results[j].node_id)'
    BY <2>6
  <2> QED
    BY <2>2, <2>5, <2>7 DEF AttributedInv
<1>2. CASE UNCHANGED <<vars, timeVars>>
  <2>1. UNCHANGED <<job_queue, held, dispatch, jobs, job_results, executing, orphaned,
                    callback_sent, callback_released>>
    BY <1>2 DEF vars, queueVars, storeVars, dispatcherVars, threadVars, agentVars, executionVars,
       reportVars
  <2> QED
    BY <2>1 DEF AttributedInv, Vacant, Underway, Queued, RowRan, Outstanding, Containers, Reporting
<1> QED
  BY <1>1, <1>2, WhoSteps

-----------------------------------------------------------------------------
(* A container and the report of its end are never there at once.  A step  *)
(* ends containers and reports, starts one of a job that had none, or      *)
(* turns one container into its report.                                    *)
Apart == Containers \cap Reporting = {}

Moves ==
  \/ Containers' \subseteq Containers /\ Reporting' \subseteq Reporting
  \/ Reporting' = Reporting /\ \A e \in Containers' \ Containers : e.job \notin Spent
  \/ \E e \in Containers : Containers' = Containers \ {e} /\ Reporting' = Reporting \cup {e}

LEMMA MovesNext ==
  ASSUME AcceptedIsSeen, WaitSucceeds, PipelineInv, ExecutionInv, ReportedOnce, [Next]_vars
  PROVE  Moves
<1> USE DEF agentVars, executionVars, reportVars
<1>1. ASSUME UNCHANGED <<executing, orphaned, callback_sent, callback_released>> PROVE Moves
  BY <1>1 DEF Moves, Containers, Reporting
<1>2. ASSUME NEW j, SubmitEnqueue(j) \/ SubmitInsertFails(j) PROVE Moves
  BY <1>1, <1>2 DEF SubmitEnqueue, SubmitInsertFails
<1>3. ASSUME NEW j, NEW run, SubmitInsert(j, run) PROVE Moves
  BY <1>1, <1>3 DEF SubmitInsert
<1>4. CASE DispatcherDequeue \/ DispatcherReserve \/ DispatcherReserveRefused
  BY <1>1, <1>4 DEF DispatcherDequeue, DispatcherReserve, DispatcherReserveRefused
<1>5. ASSUME NEW n, DispatcherSelect(n) PROVE Moves
  BY <1>1, <1>5 DEF DispatcherSelect
<1>6. ASSUME NEW j \in Job, DispatchThread(j) PROVE Moves
  <2>1. CASE PostAccepted(j)
    <3>1. j \notin Spent
      BY <2>1, NotSpent DEF PostAccepted
    <3>2. /\ Containers' \subseteq Containers \cup {Posted(j)} /\ Reporting' = Reporting
          /\ Posted(j).job = j
      BY <2>1 DEF PostAccepted, Posted, Containers, Reporting
    <3> QED
      BY <3>1, <3>2 DEF Moves
  <2>2. CASE ~PostAccepted(j)
    BY <1>1, <1>6, <2>2 DEF DispatchThread, PostFails, PostResponseLost, RecordDispatch,
       RecordDispatchFails, ReleaseFailed, Requeue, Abandon, AbandonFails, AcceptedIsSeen
  <2> QED
    BY <2>1, <2>2
<1>7. ASSUME NEW n, AgentStep(n) PROVE Moves
  <2>1. Containers' = Containers /\ Reporting' = Reporting
    BY <1>7 DEF AgentStep, AgentRegister, AgentRegisterFails, AgentServe, AgentHeartbeat,
       AgentCrash, Containers, Reporting
  <2> QED
    BY <2>1 DEF Moves
<1>8. ASSUME NEW e, ExecutionStep(e) PROVE Moves
  <2>1. CASE FinishExecution(e)
    <3>1. e \in executing /\ e \notin orphaned /\ UNCHANGED <<orphaned, callback_released>>
          /\ executing' = executing \ {e}
      BY <2>1 DEF FinishExecution, ReportedOnce
    <3>2. PICK success : callback_sent' = callback_sent \cup {[execution |-> e, success |-> success]}
      BY <2>1 DEF FinishExecution
    <3>3. Containers' = Containers \ {e} /\ e \in Containers
      BY <3>1 DEF Containers
    <3>4. PICK r : r = [execution |-> e, success |-> success]
      OBVIOUS
    <3>5. Reporting' = Reporting \cup {e}
      <4>1. r.execution = e /\ callback_sent' = callback_sent \cup {r}
        BY <3>2, <3>4
      <4> QED
        BY <3>1, <4>1 DEF Reporting
    <3> QED
      BY <3>3, <3>5 DEF Moves
  <2>2. CASE OrphanEnds(e)
    BY <2>2 DEF OrphanEnds, Moves, Containers, Reporting
  <2> QED
    BY <1>8, <2>1, <2>2 DEF ExecutionStep, WaitFails, WaitSucceeds
<1>9. ASSUME NEW r, Callback(r) PROVE Moves
  <2>1. Containers' = Containers
    BY <1>9 DEF Callback, CallbackRelease, CallbackRecord, CallbackRecordFails, LoseCallback,
       Containers
  <2>2. callback_sent' \cup callback_released' \subseteq callback_sent \cup callback_released
    BY <1>9 DEF Callback, CallbackRelease, CallbackRecord, CallbackRecordFails, LoseCallback
  <2> QED
    BY <2>1, <2>2 DEF Moves, Reporting
<1>10. ASSUME NEW expired, ExpireNodes(expired) PROVE Moves
  BY <1>1, <1>10 DEF ExpireNodes
<1>11. CASE UNCHANGED vars
  BY <1>1, <1>11 DEF vars
<1>12. CASE OtherStep
  BY <1>2, <1>4, <1>6, <1>7, <1>8, <1>9, <1>10, <1>12 DEF OtherStep
<1> QED
  BY <1>3, <1>5, <1>11, <1>12 DEF Next

(* So they stay apart, and a report goes away with its execution only. *)
LEMMA ApartStep ==
  ASSUME Apart, Moves
  PROVE  Apart' /\ Reporting \cap Outstanding' \subseteq Reporting'
BY DEF Apart, Moves, Spent, Outstanding

-----------------------------------------------------------------------------
(* The jobs that kept node n busy at time t: those that were started there *)
(* by then and had not ended, as far as the containers, the reports on     *)
(* their way and the results tell.                                         *)
Ran(e, n, t) == e.node = n /\ started[e] <= t /\ (e \in Reporting => t < ended[e])

Took(j, n, t) ==
  LET result == result_times[j]
  IN  /\ job_results[j].node_id = n
      /\ result.completed_at - result.runtime_seconds <= t /\ t < result.completed_at

Using(n, t) ==
  {e.job : e \in {x \in Outstanding : Ran(x, n, t)}} \cup {j \in DOMAIN job_results : Took(j, n, t)}

(* A time that has passed was used by no more jobs than the node has cores. *)
UseInv ==
  \A n \in Node \ lapsed : \A t \in 0 .. clock - 1 : Cardinality(Using(n, t)) <= Cpus[n]

(* What is known of the use of a time that has passed only gets less: what *)
(* starts, starts now; a report keeps the start of its execution, and ends *)
(* now; a result keeps both.                                               *)
LEMMA UseShrinks ==
  ASSUME ExperimentInv, Apart, SchedulerStep, Effects, Moves,
         NEW n, NEW t \in 0 .. clock - 1
  PROVE  Using(n, t)' \subseteq Using(n, t)
<1>1. clock \in Nat
  BY ExperimentAssumption DEF ExperimentInv, ETypeOK
<1>2. /\ \A e \in Outstanding' :
           started'[e] = IF e \in Outstanding THEN started[e] ELSE clock
      /\ \A e \in Reporting' : e \in Reporting => ended'[e] = ended[e]
  BY StampedIs DEF SchedulerStep, Timestamps, ExperimentInv, ETypeOK
<1>3. Reporting \cap Outstanding' \subseteq Reporting'
  BY ApartStep
<1>4. ASSUME NEW e \in Outstanding', Ran(e, n, t)' PROVE e.job \in Using(n, t)
  <2>1. e.node = n /\ started'[e] <= t /\ (e \in Reporting' => t < ended'[e])
    BY <1>4 DEF Ran
  <2>2. e \in Outstanding /\ started[e] <= t
    BY <1>1, <1>2, <2>1
  <2>3. e \in Reporting => t < ended[e]
    BY <1>2, <1>3, <1>4, <2>1
  <2>4. Ran(e, n, t)
    BY <2>1, <2>2, <2>3 DEF Ran
  <2> QED
    BY <2>2, <2>4 DEF Using
<1>5. ASSUME NEW j \in DOMAIN job_results', Took(j, n, t)' PROVE j \in Using(n, t)
  <2> DEFINE result(r) == [runtime_seconds |-> ended[r.execution] - started[r.execution],
                           completed_at |-> ended[r.execution]]
  <2>1. result_times'[j] =
          IF \E r \in Handled : r.execution.job = j THEN result(CHOOSE x \in Handled : TRUE)
          ELSE result_times[j]
    BY DEF SchedulerStep, Timestamps, Handled
  <2>2. ASSUME NEW r \in callback_released, Handled = {r}, CallbackRecord(r),
               r.execution.job = j
        PROVE  j \in Using(n, t)
    <3>1. result_times'[j] = result(r)
      BY <2>1, <2>2
    <3>2. /\ result_times'[j].completed_at = ended[r.execution]
          /\ result_times'[j].runtime_seconds = ended[r.execution] - started[r.execution]
      BY <3>1
    <3>3. job_results'[j].node_id = r.execution.node
      BY <2>2 DEF CallbackRecord, db_record_job_result
    <3>4. r.execution \in Reporting /\ r.execution \in Outstanding
      BY DEF Reporting, Outstanding
    <3>5. ended[r.execution] \in Int /\ started[r.execution] \in Int
      BY <1>1, <3>4 DEF ExperimentInv, TimeInv, StartedAt, Moment
    <3>6. Ran(r.execution, n, t)
      BY <1>5, <3>2, <3>3, <3>5 DEF Took, Ran
    <3> QED
      BY <2>2, <3>4, <3>6 DEF Using
  <2>3. ASSUME j \in DOMAIN job_results, job_results'[j] = job_results[j],
               ~ \E r \in Handled : r.execution.job = j
        PROVE  j \in Using(n, t)
    <3>1. result_times'[j] = result_times[j]
      BY <2>1, <2>3
    <3>2. Took(j, n, t)
      BY <1>5, <2>3, <3>1 DEF Took
    <3> QED
      BY <2>3, <3>2 DEF Using
  <2>4. ASSUME NEW r \in callback_released, Handled = {r}, CallbackRecord(r),
               r.execution.job # j
        PROVE  j \in DOMAIN job_results /\ job_results'[j] = job_results[j]
    BY <2>4 DEF CallbackRecord, db_record_job_result
  <2>5. CASE Handled = {} /\ job_results' = job_results
    BY <2>3, <2>5
  <2>6. ASSUME NEW r \in callback_released, Handled = {r}, CallbackRecord(r)
        PROVE  j \in Using(n, t)
    BY <2>2, <2>3, <2>4, <2>6
  <2> QED
    BY <2>5, <2>6 DEF Effects
<1> QED
  BY <1>4, <1>5 DEF Using

(* What uses a node now is a container that holds cores there. *)
LEMMA UsersHold ==
  ASSUME ExperimentInv, ReservationInv, NEW n
  PROVE  Using(n, clock) \subseteq Holders(n)
<1>1. clock \in Nat
  BY ExperimentAssumption DEF ExperimentInv, ETypeOK
<1>2. ASSUME NEW j \in DOMAIN job_results PROVE ~Took(j, n, clock)
  <2>1. result_times[j].completed_at \in 0 .. clock
    BY DEF ExperimentInv, TimeInv, Moment
  <2> QED
    BY <1>1, <2>1 DEF Took
<1>3. ASSUME NEW e \in Outstanding, Ran(e, n, clock) PROVE e.job \in Holders(n)
  <2>1. e \in Reporting => ended[e] \in 0 .. clock
    BY DEF ExperimentInv, TimeInv, Moment
  <2>2. e \in Containers /\ e.node = n
    BY <1>1, <1>3, <2>1 DEF Ran, Outstanding
  <2> QED
    BY <2>2 DEF ReservationInv, Holding, Holders
<1> QED
  BY <1>2, <1>3 DEF Using

(* Each job that holds a node was promised a core of it at least. *)
LEMMA HoldersFit ==
  ASSUME CSInv, NEW n \in Node \ lapsed
  PROVE  IsFiniteSet(Holders(n)) /\ Cardinality(Holders(n)) <= Cpus[n]
<1>1. /\ IsFiniteSet(Holders(n)) /\ Holders(n) \subseteq Job
      /\ ReservedCpus(n) \in Nat /\ Cpus[n] \in Nat
  BY ReservedIsNat, CapacityAssumption DEF CSInv
<1>2. Cardinality(Holders(n)) \in Nat
  BY <1>1, FS_CardinalityType
<1>3. CASE n \in registrations
  <2> DEFINE units == Units(Holders(n), CpuRequest)
             first == [j \in Holders(n) |-> <<j, 1>>]
  <2>1. ASSUME NEW j \in Holders(n) PROVE <<j, 1>> \in units
    <3>1. 1 \in 1 .. CpuRequest[j]
      BY <1>1, RequestAssumption
    <3> QED
      BY <3>1 DEF Units
  <2>2. first \in Injection(Holders(n), units)
    BY <2>1, Fun_IsInj
  <2>3. IsFiniteSet(units)
    BY <1>1, UnitsFinite, RequestAssumption
  <2> HIDE DEF units, first
  <2>4. Cardinality(Holders(n)) <= Cardinality(units)
    BY <2>2, <2>3, FS_Injection
  <2>5. Cardinality(units) = Count(running_jobs, n)
    BY <1>3 DEF CSInv, LedgerExact, ReservedCpus, units
  <2>6. Count(running_jobs, n) <= Cpus[n] /\ Count(running_jobs, n) \in Nat
    BY <1>3 DEF CSInv, NoPhantomNode, WithinCapacity, Count, CSTypeOK
  <2> QED
    BY <1>1, <1>2, <2>4, <2>5, <2>6
<1>4. CASE n \notin registrations
  <2>1. Holders(n) = {}
    BY <1>4 DEF CSInv, HoldersKnown, Holders
  <2> QED
    BY <1>1, <2>1, FS_EmptySet
<1> QED
  BY <1>3, <1>4

LEMMA UsingFinite ==
  ASSUME ExperimentInv, NEW n, NEW t
  PROVE  IsFiniteSet(Using(n, t))
<1>1. \A e \in Outstanding : e.job \in Job
  BY DEF Outstanding, Containers, Reporting, ExperimentInv, SchedulerInv, AgentTypes, Execution, Report
<1>2. DOMAIN job_results \subseteq Job
  BY DEF ExperimentInv, SchedulerInv, StoreTypeOK
<1>3. Using(n, t) \in SUBSET Job
  BY <1>1, <1>2 DEF Using
<1> QED
  BY <1>3, RequestAssumption, FS_Subset

(* The snapshot has the cores the nodes registered with. *)
SnapshotInv == \A n \in DOMAIN cluster_snapshot : cluster_snapshot[n] = Cpus[n]

LEMMA SnapshotNext ==
  ASSUME SnapshotInv, [ENext]_eVars
  PROVE  SnapshotInv'
<1>1. CASE start_run
  BY <1>1 DEF start_run, SnapshotInv
<1>2. CASE ~start_run
  BY <1>2 DEF ENext, SchedulerStep, Tick, wait_for_nodes, wait_for_nodes_times_out,
     submit_jobs_returns, submit_jobs_raises, run_once_raises, wait_for_drain,
     wait_for_drain_times_out,
     finish_run, export_run, harnessVars, eVars, SnapshotInv
<1> QED
  BY <1>1, <1>2

LEMMA UseNext ==
  ASSUME AcceptedIsSeen, WaitSucceeds, RunInvariant, CSInv, Apart, UseInv, [ENext]_eVars
  PROVE  UseInv' /\ Apart'
<1>1. clock \in Nat /\ \A m \in Node : Cpus[m] \in Nat
  BY ExperimentAssumption, CapacityAssumption DEF RunInvariant, ExperimentInv, ETypeOK
<1>2. CASE SchedulerStep
  <2>1. /\ Effects /\ Moves /\ [CSNext]_csVars /\ clock' = clock
    BY <1>2, EffectsNext, SchedulerSteps, MovesNext, LedgerStep
       DEF RunInvariant, ExperimentInv, SchedulerInv, ReservationInv, SchedulerStep
  <2>2. lapsed \subseteq lapsed'
    BY <2>1 DEF CSNext, register_node, register_heartbeat, remove_expired_nodes, reserve_slot,
       release_slot, csVars
  <2>3. ASSUME NEW n \in Node \ lapsed', NEW t \in 0 .. clock' - 1
        PROVE  Cardinality(Using(n, t)') <= Cpus[n]
    <3>1. Using(n, t)' \in SUBSET Using(n, t)
      BY <1>2, <2>1, UseShrinks DEF RunInvariant
    <3>2. IsFiniteSet(Using(n, t))
      BY UsingFinite DEF RunInvariant
    <3>3. /\ Cardinality(Using(n, t)') \in Nat /\ Cardinality(Using(n, t)) \in Nat
          /\ Cardinality(Using(n, t)') <= Cardinality(Using(n, t))
      BY <3>1, <3>2, FS_Subset, FS_CardinalityType
    <3>4. Cardinality(Using(n, t)) <= Cpus[n]
      BY <2>1, <2>2 DEF UseInv
    <3> QED
      BY <1>1, <3>3, <3>4
  <2> QED
    BY <2>1, <2>3, ApartStep DEF UseInv
<1>3. CASE UNCHANGED <<vars, timeVars>> /\ (clock' = clock \/ clock' = clock + 1)
  <2>1. UNCHANGED <<lapsed, job_results, executing, orphaned, callback_sent, callback_released,
                    started, ended, result_times>>
    BY <1>3 DEF vars, timeVars, csVars, storeVars, agentVars, executionVars, reportVars
  <2>2. Outstanding' = Outstanding /\ Reporting' = Reporting /\ Apart'
    BY <2>1 DEF Outstanding, Containers, Reporting, Apart
  <2>3. \A n, t : Using(n, t)' = Using(n, t)
    BY <2>1, <2>2 DEF Using, Ran, Took
  <2>4. ASSUME NEW n \in Node \ lapsed, NEW t \in 0 .. clock' - 1
        PROVE  Cardinality(Using(n, t)) <= Cpus[n]
    <3>1. CASE t \in 0 .. clock - 1
      BY <3>1 DEF UseInv
    <3>2. CASE t = clock
      <4>1. /\ IsFiniteSet(Holders(n)) /\ Cardinality(Holders(n)) <= Cpus[n]
            /\ Using(n, t) \in SUBSET Holders(n)
        BY <3>2, UsersHold, HoldersFit DEF RunInvariant
      <4>2. /\ Cardinality(Using(n, t)) \in Nat /\ Cardinality(Holders(n)) \in Nat
            /\ Cardinality(Using(n, t)) <= Cardinality(Holders(n))
        BY <4>1, FS_Subset, FS_CardinalityType
      <4> QED
        BY <1>1, <4>1, <4>2
    <3> QED
      BY <1>1, <1>3, <3>1, <3>2
  <2> QED
    BY <2>1, <2>2, <2>3, <2>4 DEF UseInv
<1> QED
  BY <1>2, <1>3, WhoSteps

(* What is known of the work the nodes have done. *)
BusyInv == KeptInv /\ AttributedInv /\ Apart /\ UseInv /\ SnapshotInv

LEMMA BusyAlways ==
  ASSUME AcceptedIsSeen, WaitSucceeds
  PROVE  ESpec => []BusyInv
<1>1. ASSUME EInit PROVE BusyInv
  <2>1. /\ Containers = {} /\ Reporting = {} /\ DOMAIN jobs = {} /\ DOMAIN job_results = {}
        /\ clock = 0 /\ DOMAIN cluster_snapshot = {}
    BY <1>1 DEF EInit, Init, StoreInit, NoRows, EmptyDict, Containers, Reporting
  <2> QED
    BY <2>1 DEF BusyInv, KeptInv, AttributedInv, Vacant, Apart, UseInv, SnapshotInv, Outstanding
<1>2. EInit => BusyInv
  BY <1>1
<1>3. RunInvariant /\ CSInv /\ BusyInv /\ [ENext]_eVars => BusyInv'
  BY KeptNext, AttributedNext, UseNext, SnapshotNext DEF BusyInv, RunInvariant
<1>4. ESpec => []CSInv
  BY HarnessUsesScheduler, SchedulerUsesLedger, CSSpecInv, PTL DEF LedgerSpec
<1> QED
  BY <1>2, <1>3, <1>4, RunAlways, PTL DEF ESpec

(* The first submission and the last completion are numbers, if there are  *)
(* any.                                                                    *)
LEMMA RowEnds ==
  ASSUME ExperimentInv
  PROVE  LET S == {Rows[j].submitted_at : j \in DOMAIN Rows} \ {None}
             C == {Rows[j].completed_at : j \in DOMAIN Rows} \ {None}
         IN  /\ IsFiniteSet(S) /\ IsFiniteSet(C) /\ S \subseteq Int /\ C \subseteq Int
             /\ Makespan(Rows) \in Int \cup {None}
<1> DEFINE S == {Rows[j].submitted_at : j \in DOMAIN Rows} \ {None}
           C == {Rows[j].completed_at : j \in DOMAIN Rows} \ {None}
<1>1. IsFiniteSet(S) /\ IsFiniteSet(C)
  <2> DEFINE in == [j \in DOMAIN Rows |-> Rows[j].submitted_at]
             out == [j \in DOMAIN Rows |-> Rows[j].completed_at]
  <2>1. IsFiniteSet({in[j] : j \in DOMAIN in}) /\ IsFiniteSet({out[j] : j \in DOMAIN out})
    BY RowsAreSamples, ValuesFinite
  <2>2. S \in SUBSET {in[j] : j \in DOMAIN in} /\ C \in SUBSET {out[j] : j \in DOMAIN out}
    OBVIOUS
  <2> QED
    BY <2>1, <2>2, FS_Subset
<1>2. S \subseteq Int /\ C \subseteq Int
  <2>1. ASSUME NEW j \in DOMAIN Rows
        PROVE  Rows[j].submitted_at \in Int /\ Rows[j].completed_at \in Int \cup {None}
    <3>1. submitted_at[j] \in Int
      BY RowPlaces DEF ExperimentInv, TimeInv, Moment, ETypeOK
    <3>2. j \in DOMAIN result_times =>
            j \in DOMAIN job_results /\ result_times[j].completed_at \in Int
      BY DEF ExperimentInv, TimeInv, Moment, ETypeOK
    <3> QED
      BY <3>1, <3>2, ClocksAreInts, RowPlaces
  <2> QED
    BY <2>1
<1>3. Makespan(Rows) = IF S = {} \/ C = {} THEN None ELSE Max(C) - Min(S)
  BY DEF Makespan
<1> HIDE DEF S, C
<1>4. S # {} /\ C # {} => Max(C) \in Int /\ Min(S) \in Int
  BY <1>1, <1>2, MinIs, MaxIs
<1>5. Makespan(Rows) \in Int \cup {None}
  BY <1>3, <1>4
<1> QED
  BY <1>1, <1>2, <1>5 DEF S, C

(* The makespan, with what the clocks of the client and of a node differ,  *)
(* spans every moment at which a job of the run was running on that node.  *)
LEMMA MakespanSpans ==
  ASSUME ExperimentInv, NEW n \in Node,
         \E j \in DOMAIN Rows \cap DOMAIN job_results : job_results[j].node_id = n
  PROVE  /\ Makespan(Rows) \in Int
         /\ \E first, last \in Nat :
              /\ first <= last /\ last <= clock
              /\ last - first <= Makespan(Rows) + (ClientAhead - AgentAhead[n])
              /\ \A j \in DOMAIN Rows \cap DOMAIN job_results :
                   job_results[j].node_id = n =>
                     /\ first <= result_times[j].completed_at - result_times[j].runtime_seconds
                     /\ result_times[j].completed_at <= last
<1> DEFINE S == {Rows[j].submitted_at : j \in DOMAIN Rows} \ {None}
           C == {Rows[j].completed_at : j \in DOMAIN Rows} \ {None}
           start(j) == result_times[j].completed_at - result_times[j].runtime_seconds
           ran(j) == j \in DOMAIN Rows \cap DOMAIN job_results /\ job_results[j].node_id = n
           ahead(j) == AgentAhead[job_results[j].node_id]
<1>1. /\ IsFiniteSet(DOMAIN Rows) /\ clock \in Nat /\ DOMAIN result_times = DOMAIN job_results
      /\ ClientAhead \in Int /\ AgentAhead[n] \in Int
  BY RowsAreSamples, ExperimentAssumption DEF ExperimentInv, ETypeOK
<1>2. ASSUME NEW j \in DOMAIN Rows
      PROVE  /\ Rows[j].submitted_at = submitted_at[j] + ClientAhead /\ submitted_at[j] \in 0 .. clock
             /\ Rows[j].completed_at = IF j \in DOMAIN job_results
                                       THEN result_times[j].completed_at + ahead(j) ELSE None
  <2>1. j \in submitted
    BY RowPlaces DEF ExperimentInv, TimeInv
  <2> QED
    BY <1>1, <2>1, RowPlaces DEF ExperimentInv, TimeInv, Moment
<1>3. ASSUME NEW j \in DOMAIN Rows \cap DOMAIN job_results
      PROVE  /\ result_times[j].completed_at \in 0 .. clock /\ result_times[j].runtime_seconds \in Nat
             /\ submitted_at[j] <= start(j) /\ ahead(j) \in Int
  BY ClocksAreInts DEF ExperimentInv, TimeInv, Moment, StartedAt
<1>4. ASSUME NEW j \in DOMAIN Rows
      PROVE  /\ Rows[j].submitted_at \in Int /\ Rows[j].submitted_at \in S
             /\ j \in DOMAIN job_results =>
                  Rows[j].completed_at \in Int /\ Rows[j].completed_at \in C
  <2>1. Rows[j].submitted_at \in Int
    BY <1>1, <1>2
  <2>2. j \in DOMAIN job_results => Rows[j].completed_at \in Int
    BY <1>1, <1>2, <1>3
  <2> QED
    BY <2>1, <2>2, NoneAssumption
<1>5. IsFiniteSet(S) /\ IsFiniteSet(C) /\ S \subseteq Int /\ C \subseteq Int
  BY RowEnds
<1>6. PICK some \in DOMAIN Rows \cap DOMAIN job_results : ran(some)
  OBVIOUS
<1>7. S # {} /\ C # {}
  BY <1>4, <1>6
<1>8. Makespan(Rows) = Max(C) - Min(S)
  BY <1>7 DEF Makespan
<1>9. /\ Min(S) \in S /\ \A k \in S : Min(S) <= k
      /\ Max(C) \in C /\ \A k \in C : k <= Max(C)
  <2> HIDE DEF S, C
  <2> QED
    BY <1>5, <1>7, MinIs, MaxIs
<1>10. Min(S) \in Int /\ Max(C) \in Int
  BY <1>5, <1>9
<1> DEFINE first == Min(S) - ClientAhead
           high == Max(C) - AgentAhead[n]
           last == IF high <= clock THEN high ELSE clock
<1>11. first \in Nat
  <2>1. PICK j \in DOMAIN Rows : Min(S) = Rows[j].submitted_at
    BY <1>9
  <2>2. first = submitted_at[j]
    BY <1>1, <1>2, <2>1
  <2> QED
    BY <1>2, <2>2
<1>12. ASSUME NEW j \in DOMAIN Rows \cap DOMAIN job_results, job_results[j].node_id = n
       PROVE  first <= start(j) /\ start(j) <= result_times[j].completed_at
              /\ result_times[j].completed_at <= high /\ result_times[j].completed_at <= clock
              /\ start(j) \in Int /\ result_times[j].completed_at \in Int
  <2>1. Min(S) <= submitted_at[j] + ClientAhead
    BY <1>2, <1>4, <1>9
  <2>2. result_times[j].completed_at + AgentAhead[n] <= Max(C)
    BY <1>2, <1>4, <1>9, <1>12
  <2>3. /\ submitted_at[j] \in Int /\ result_times[j].completed_at \in 0 .. clock
        /\ result_times[j].runtime_seconds \in Nat /\ submitted_at[j] <= start(j)
    BY <1>2, <1>3
  <2> HIDE DEF S, C
  <2> QED
    BY <1>1, <1>10, <2>1, <2>2, <2>3
<1> HIDE DEF S, C, start
<1>13. /\ high \in Int /\ last \in Int /\ last <= high /\ last <= clock
       /\ last - first <= Makespan(Rows) + (ClientAhead - AgentAhead[n])
  BY <1>1, <1>8, <1>10
<1> HIDE DEF first, high
<1>14. ASSUME NEW j \in DOMAIN Rows \cap DOMAIN job_results, job_results[j].node_id = n
       PROVE  first <= start(j) /\ start(j) <= last /\ result_times[j].completed_at <= last
  BY <1>1, <1>11, <1>12, <1>13, <1>14
<1>15. first <= last /\ last \in Nat
  <2>1. first <= start(some) /\ start(some) <= last /\ start(some) \in Int
    BY <1>6, <1>12, <1>14
  <2> HIDE DEF last
  <2> QED
    BY <1>11, <1>13, <2>1
<1>16. Makespan(Rows) \in Int
  BY <1>8, <1>10
<1> HIDE DEF last
<1> QED
  BY <1>11, <1>13, <1>14, <1>15, <1>16 DEF start

(* Each second of a runtime that a report adds up for a node is one at     *)
(* which the job was using that node, so that the seconds of one moment    *)
(* are no more than its cores, and those of all moments no more than what  *)
(* the makespan spans, times the cores.                                    *)
LEMMA BusyTimeFits ==
  ASSUME ExperimentInv, AttributedInv, UseInv, NEW n \in Node \ lapsed
  PROVE  LET busy == Total(Column(Rows, JobsOn(Rows, n), "runtime_s"))
         IN  /\ busy \in Nat
             /\ busy > 0 =>
                  /\ Makespan(Rows) \in Int
                  /\ busy <= (Makespan(Rows) + (ClientAhead - AgentAhead[n])) * Cpus[n]
<1> DEFINE mine == JobsOn(Rows, n)
           runtimes == Column(Rows, mine, "runtime_s")
           seconds == Above(runtimes)
           start(j) == result_times[j].completed_at - result_times[j].runtime_seconds
           when(u) == start(u[1]) + u[2] - 1
<1>1. /\ IsFiniteSet(DOMAIN Rows) /\ \A j \in DOMAIN Rows : Rows[j].runtime_s \in Nat \cup {None}
      /\ mine \in SUBSET DOMAIN Rows /\ n # None /\ Cpus[n] \in Nat /\ clock \in Nat
  BY RowsAreSamples, ExperimentAssumption, CapacityAssumption
     DEF JobsOn, ExperimentInv, ETypeOK
<1>2. Counts(runtimes)
  BY <1>1, FS_Subset DEF Counts, Column
<1>3. IsFiniteSet(seconds) /\ Total(runtimes) = Cardinality(seconds) /\ Total(runtimes) \in Nat
  BY <1>2, CountsTotal
<1>4. ASSUME NEW j \in Known(runtimes)
      PROVE  /\ j \in DOMAIN Rows \cap DOMAIN job_results
             /\ runtimes[j] = result_times[j].runtime_seconds
             /\ result_times[j].runtime_seconds \in Nat /\ result_times[j].completed_at \in Nat
             /\ job_results[j].node_id = n
  <2>1. j \in mine /\ j \in DOMAIN Rows /\ Rows[j].node_id = n
        /\ Rows[j].runtime_s # None /\ runtimes[j] = Rows[j].runtime_s
    BY DEF Known, Column, JobsOn
  <2>2. j \in DOMAIN job_results /\ runtimes[j] = result_times[j].runtime_seconds
    BY <2>1, RowTimes DEF ExperimentInv, ETypeOK
  <2>3. j \in DOMAIN jobs /\ jobs[j].dispatched_to_node = n /\ n # NoNode
    BY <1>1, <2>1, RowPlaces
  <2>4. job_results[j].node_id = n
    BY <2>2, <2>3 DEF AttributedInv, RowRan
  <2>5. result_times[j].runtime_seconds \in Nat /\ result_times[j].completed_at \in Nat
    BY <1>1, <2>2 DEF ExperimentInv, TimeInv, Moment
  <2> QED
    BY <2>1, <2>2, <2>4, <2>5
<1>5. SUFFICES ASSUME seconds # {}
                PROVE  /\ Makespan(Rows) \in Int
                       /\ Total(runtimes) <= (Makespan(Rows) + (ClientAhead - AgentAhead[n])) * Cpus[n]
  <2>1. seconds = {} => Total(runtimes) = 0
    BY <1>3, FS_EmptySet
  <2> QED
    BY <1>3, <2>1
<1>6. \E j \in DOMAIN Rows \cap DOMAIN job_results : job_results[j].node_id = n
  <2>1. Known(runtimes) # {}
    BY <1>5 DEF Above
  <2> QED
    BY <1>4, <2>1
<1>7. PICK first, last \in Nat :
        /\ first <= last /\ last <= clock
        /\ last - first <= Makespan(Rows) + (ClientAhead - AgentAhead[n])
        /\ \A j \in DOMAIN Rows \cap DOMAIN job_results :
             job_results[j].node_id = n =>
               first <= start(j) /\ result_times[j].completed_at <= last
  BY <1>6, MakespanSpans
<1>8. ASSUME NEW u \in seconds
      PROVE  /\ u = <<u[1], u[2]>> /\ u[1] \in Known(runtimes) /\ u[2] \in 1 .. runtimes[u[1]]
             /\ when(u) \in first .. last - 1
             /\ u[1] \in Using(n, when(u))
  <2>1. PICK j \in Known(runtimes) : u \in {j} \X (1 .. runtimes[j])
    BY DEF Above
  <2>2. u[1] = j /\ u[2] \in 1 .. runtimes[j] /\ u = <<u[1], u[2]>>
    BY <2>1
  <2>3. first <= start(j) /\ result_times[j].completed_at <= last
    BY <1>7, <1>4
  <2>4. when(u) = start(j) + u[2] - 1
    BY <2>2
  <2>5. /\ start(j) <= when(u) /\ when(u) < result_times[j].completed_at
        /\ when(u) \in first .. last - 1
    BY <1>7, <1>4, <2>2, <2>3, <2>4
  <2>6. Took(j, n, when(u)) /\ j \in DOMAIN job_results
    BY <1>4, <2>5 DEF Took
  <2> QED
    BY <2>2, <2>5, <2>6 DEF Using
<1> DEFINE K == first .. last - 1
           parts == [t \in K |-> {u \in seconds : when(u) = t}]
           places == [t \in K |-> {t} \X (1 .. Cpus[n])]
<1>9. IsFiniteSet(K) /\ Cardinality(K) = last - first
  <2>1. first \in Int /\ last - 1 \in Int
    OBVIOUS
  <2>2. IsFiniteSet(K) /\ Cardinality(K) = IF first > last - 1 THEN 0 ELSE (last - 1) - first + 1
    BY <2>1, FS_Interval
  <2> HIDE DEF K
  <2> QED
    BY <1>7, <2>2
<1>10. IsFiniteSet(1 .. Cpus[n]) /\ Cardinality(1 .. Cpus[n]) = Cpus[n]
  <2>1. ASSUME NEW c \in Nat PROVE IsFiniteSet(1 .. c) /\ Cardinality(1 .. c) = c
    <3>1. c \in Int /\ 1 \in Int
      OBVIOUS
    <3>2. IsFiniteSet(1 .. c) /\ Cardinality(1 .. c) = IF 1 > c THEN 0 ELSE c - 1 + 1
      BY <3>1, FS_Interval
    <3> QED
      BY <3>2
  <2> QED
    BY <1>1, <2>1
<1>11. ASSUME NEW t \in K
      PROVE  /\ IsFiniteSet(parts[t]) /\ IsFiniteSet(places[t])
             /\ Cardinality(parts[t]) <= Cardinality(places[t])
  <2> DEFINE job == [u \in parts[t] |-> u[1]]
  <2>1. \A u \in parts[t] : u \in seconds /\ when(u) = t
    OBVIOUS
  <2>2. ASSUME NEW u \in parts[t] PROVE job[u] \in Using(n, t)
    BY <1>8, <2>1
  <2>3. ASSUME NEW u \in parts[t], NEW v \in parts[t], job[u] = job[v] PROVE u = v
    <3>1. u[1] = v[1] /\ when(u) = when(v) /\ u \in seconds /\ v \in seconds
      BY <2>1, <2>3
    <3>2. start(u[1]) \in Int /\ u[2] \in Int /\ v[2] \in Int
      BY <1>4, <1>8, <3>1
    <3>3. u[2] = v[2]
      BY <3>1, <3>2
    <3> QED
      BY <1>8, <3>1, <3>3
  <2>4. job \in Injection(parts[t], Using(n, t))
    BY <2>2, <2>3, Fun_IsInj
  <2>5. IsFiniteSet(Using(n, t))
    BY UsingFinite
  <2>6. Cardinality(Using(n, t)) <= Cpus[n]
    <3>1. t \in 0 .. clock - 1
      BY <1>7, <1>1
    <3> QED
      BY <3>1 DEF UseInv
  <2>7. IsFiniteSet(places[t]) /\ Cardinality(places[t]) = Cpus[n]
    <3>1. IsFiniteSet({t}) /\ Cardinality({t}) = 1
      BY FS_Singleton
    <3> QED
      BY <1>1, <1>10, <3>1, FS_Product
  <2> HIDE DEF parts, job
  <2>8. IsFiniteSet(parts[t]) /\ Cardinality(parts[t]) <= Cardinality(Using(n, t))
    BY <2>4, <2>5, FS_Injection
  <2>9. Cardinality(parts[t]) \in Nat /\ Cardinality(Using(n, t)) \in Nat
    BY <2>5, <2>8, FS_CardinalityType
  <2> QED
    BY <1>1, <2>6, <2>7, <2>8, <2>9
<1>12. \A t, s \in K : t # s => places[t] \cap places[s] = {}
  OBVIOUS
<1>13. UNION {parts[t] : t \in K} = seconds
  BY <1>8
<1>14. UNION {places[t] : t \in K} = K \X (1 .. Cpus[n])
  OBVIOUS
<1>15. Cardinality(UNION {parts[t] : t \in K}) <= Cardinality(UNION {places[t] : t \in K})
  <2>1. \A t \in K : /\ IsFiniteSet(parts[t]) /\ IsFiniteSet(places[t])
                     /\ Cardinality(parts[t]) <= Cardinality(places[t])
    BY <1>11
  <2> HIDE DEF K, parts, places
  <2> QED
    BY <1>9, <1>12, <2>1, PartsBound
<1>16. Cardinality(K \X (1 .. Cpus[n])) = (last - first) * Cpus[n]
  <2> HIDE DEF K
  <2>1. Cardinality(K \X (1 .. Cpus[n])) = Cardinality(K) * Cardinality(1 .. Cpus[n])
    BY <1>9, <1>10, FS_Product
  <2> QED
    BY <1>9, <1>10, <2>1
<1>17. Cardinality(seconds) <= (last - first) * Cpus[n]
  BY <1>13, <1>14, <1>15, <1>16
<1>18. Makespan(Rows) \in Int
  BY <1>6, MakespanSpans
<1>19. (last - first) * Cpus[n] <= (Makespan(Rows) + (ClientAhead - AgentAhead[n])) * Cpus[n]
  <2>1. ASSUME NEW c \in Nat, NEW a \in Int, NEW b \in Int, a <= b PROVE a * c <= b * c
    BY <2>1, SMT
  <2>2. /\ last - first \in Int
        /\ Makespan(Rows) + (ClientAhead - AgentAhead[n]) \in Int
    BY <1>18, ExperimentAssumption
  <2> QED
    BY <1>7, <1>1, <2>1, <2>2
<1> QED
  <2>1. /\ last - first \in Int /\ Cpus[n] \in Int
        /\ Makespan(Rows) + (ClientAhead - AgentAhead[n]) \in Int
    BY <1>1, <1>18, ExperimentAssumption
  <2> HIDE DEF seconds, runtimes
  <2> QED
    BY <1>3, <1>17, <1>18, <1>19, <2>1

(* What the report says of a node of the snapshot. *)
LEMMA NodeLine ==
  ASSUME ExperimentInv, BusyInv, NEW n \in DOMAIN cluster_snapshot \ lapsed
  PROVE  LET line == Nodes[n]
             makespan == Makespan(Rows)
         IN  /\ line.busy_time_s \in Nat /\ line.cpus \in Nat
             /\ makespan \in Int \cup {None}
             /\ line.busy_time_s > 0 =>
                  /\ makespan \in Int
                  /\ line.busy_time_s <= (makespan + (ClientAhead - AgentAhead[n])) * line.cpus
             /\ line.utilisation = IF makespan = None THEN None
                                   ELSE Quotient(line.busy_time_s, makespan * line.cpus)
<1> DEFINE makespan == Makespan(Rows)
           busy == Total(Column(Rows, JobsOn(Rows, n), "runtime_s"))
           cpus == IF cluster_snapshot[n] # 0 THEN cluster_snapshot[n] ELSE 1
<1>1. /\ Nodes[n].busy_time_s = busy /\ Nodes[n].cpus = cpus
      /\ Nodes[n].utilisation = IF makespan = None THEN None ELSE Quotient(busy, makespan * cpus)
  BY DEF Nodes, node_rows
<1>2. n \in Node \ lapsed /\ cluster_snapshot[n] = Cpus[n] /\ Cpus[n] \in Nat
  BY CapacityAssumption DEF BusyInv, SnapshotInv, ExperimentInv, ETypeOK
<1>3. /\ busy \in Nat
      /\ busy > 0 => /\ makespan \in Int
                     /\ busy <= (makespan + (ClientAhead - AgentAhead[n])) * Cpus[n]
  BY <1>2, BusyTimeFits DEF BusyInv
<1>4. cpus \in Nat
  BY <1>2
<1> DEFINE within == makespan + (ClientAhead - AgentAhead[n])
<1>5. busy > 0 => makespan \in Int /\ busy <= within * cpus
  <2>1. SUFFICES ASSUME busy > 0 PROVE makespan \in Int /\ busy <= within * cpus
    OBVIOUS
  <2>2. within \in Int
    BY <1>2, <1>3, <2>1, ExperimentAssumption
  <2>3. Cpus[n] # 0
    <3> HIDE DEF busy, within
    <3> QED
      BY <1>3, <2>1, <2>2 DEF within
  <2>4. cpus = Cpus[n]
    BY <1>2, <2>3
  <2> HIDE DEF busy, cpus
  <2> QED
    BY <1>3, <2>1, <2>4
<1> HIDE DEF busy, cpus, makespan
<1> QED
  BY <1>1, <1>3, <1>4, <1>5, RowEnds DEF makespan

(* No node reports more busy time than its cores had in the makespan, but  *)
(* for what its clock and the client's differ, unless it was removed while *)
(* a job held something on it.                                             *)
THEOREM UtilisationBounded ==
  ASSUME AcceptedIsSeen, WaitSucceeds
  PROVE  ESpec => []UtilisationWithinSkew
<1>1. ASSUME ExperimentInv, BusyInv PROVE UtilisationWithinSkew
  BY <1>1, NodeLine DEF UtilisationWithinSkew
<1>2. RunInvariant => ExperimentInv
  BY DEF RunInvariant
<1> QED
  BY <1>1, <1>2, RunAlways, BusyAlways, PTL

(* Where no node's clock is behind the client's, no utilisation is above   *)
(* one: the report then shows what the ledger allows.                      *)
THEOREM UtilisationOnOneClock ==
  ASSUME AcceptedIsSeen, WaitSucceeds, ClientNotAhead
  PROVE  ESpec => []UtilisationAtMostOne
<1>1. ASSUME ExperimentInv, BusyInv PROVE UtilisationAtMostOne
  <2>1. SUFFICES ASSUME NEW n \in DOMAIN cluster_snapshot \ lapsed,
                        Nodes[n].utilisation # None, Nodes[n].utilisation[2] > 0
                 PROVE  Nodes[n].utilisation[1] <= Nodes[n].utilisation[2]
    BY DEF UtilisationAtMostOne
  <2> DEFINE makespan == Makespan(Rows)
             busy == Nodes[n].busy_time_s
             cpus == Nodes[n].cpus
  <2>2. n \in Node
    BY <1>1, <2>1 DEF ExperimentInv, ETypeOK
  <2>3. /\ busy \in Nat /\ cpus \in Nat
        /\ busy > 0 => /\ makespan \in Int
                       /\ busy <= (makespan + (ClientAhead - AgentAhead[n])) * cpus
        /\ makespan \in Int \cup {None}
        /\ Nodes[n].utilisation = IF makespan = None THEN None ELSE Quotient(busy, makespan * cpus)
    BY <1>1, <2>1, NodeLine
  <2> HIDE DEF makespan, busy, cpus
  <2>4. /\ Nodes[n].utilisation = <<busy, makespan * cpus>> /\ makespan * cpus > 0
        /\ makespan * cpus \in Int
    BY <2>1, <2>3 DEF Quotient
  <2>5. CASE busy = 0
    BY <2>4, <2>5
  <2>6. CASE busy > 0
    <3>1. ClientAhead \in Int /\ AgentAhead[n] \in Int /\ ClientAhead <= AgentAhead[n]
      BY <2>2, ExperimentAssumption DEF ClientNotAhead
    <3>2. ASSUME NEW m \in Int, NEW d \in Int, NEW c \in Nat, d <= 0
          PROVE  (m + d) * c <= m * c
      BY <3>2, SMT
    <3>3. (makespan + (ClientAhead - AgentAhead[n])) * cpus <= makespan * cpus
      BY <2>3, <2>6, <3>1, <3>2
    <3>4. /\ makespan * cpus \in Int
          /\ (makespan + (ClientAhead - AgentAhead[n])) * cpus \in Int
      BY <2>3, <2>6, <3>1
    <3>5. busy <= makespan * cpus
      BY <2>3, <2>6, <3>3, <3>4
    <3> QED
      BY <2>4, <3>5
  <2> QED
    BY <2>3, <2>5, <2>6
<1>2. RunInvariant => ExperimentInv
  BY DEF RunInvariant
<1> QED
  BY <1>1, <1>2, RunAlways, BusyAlways, PTL
=============================================================================
