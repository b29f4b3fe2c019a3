--------------------------- MODULE RunControlProofs ---------------------------
(* Experiment runs, and restarts of the scheduler over its database, for   *)
(* every set of nodes, jobs and runs: at most one run is open, no job is   *)
(* tagged with a run without a row, and what the scheduler promises of its *)
(* placements and its ledger holds across restarts too.                    *)
EXTENDS LifecycleProofs, RunControl

-----------------------------------------------------------------------------
(* A handler that has read that no run is open still finds none; the open  *)
(* run has a row and was not interrupted; every tag read has a row.        *)
RunInv ==
  /\ handler \in {"no_queue", "drained", "new_policy"} => active_run_id = NoRun
  /\ handler = "row_finished" => active_run_id # NoRun
  /\ active_run_id # NoRun => active_run_id \in DOMAIN runs
  /\ active_run_id \notin interrupted
  /\ \A j \in DOMAIN run_read : run_read[j] # NoRun => run_read[j] \in DOMAIN runs

(* Each step is one of the scheduler's, or a restart. *)
LEMMA RCStep ==
  ASSUME RCTypeOK, SchedulerInv, [RCNext]_rcVars
  PROVE  [Next]_vars \/ SchedulerRestart
<1>1. CASE StartRun \/ StartRunCount \/ StartRunPolicy \/ StartRunOpenFails
  BY <1>1 DEF StartRun, StartRunCount, StartRunPolicy, StartRunOpenFails
<1>2. CASE (\E run \in Run : StartRunOpen(run)) \/ FinishRun \/ FinishRunClose
  BY <1>2 DEF StartRunOpen, FinishRun, FinishRunClose
<1>3. ASSUME NEW j \in Job, SubmitReadRun(j) \/ SubmitInsertTagged(j)
      PROVE  [Next]_vars
  BY <1>3 DEF SubmitReadRun, SubmitInsertTagged, RCTypeOK, Next
<1>4. ASSUME NEW n \in Node, SelectAndCount(n) PROVE [Next]_vars
  BY <1>4 DEF SelectAndCount, Next
<1>5. CASE OtherStep
  BY <1>5 DEF Next
<1>6. CASE UNCHANGED rcVars
  BY <1>6 DEF rcVars
<1> QED
  BY <1>1, <1>2, <1>3, <1>4, <1>5, <1>6 DEF RCNext

(* A restart leaves the scheduler in a state it can go on from. *)
LEMMA RestartTypes ==
  ASSUME SchedulerInv, SchedulerRestart
  PROVE  SchedulerInv'
<1>1. /\ job_queue' = << >> /\ dispatch_attempts' = EmptyDict
      /\ held' = NoJob /\ selected' = NoNode
      /\ dispatch' = EmptyDict /\ reservations' = EmptyDict
      /\ submitting' = {} /\ callback_sent' \subseteq callback_sent
      /\ callback_released' = {}
      /\ UNCHANGED <<storeVars, submitted, abandoned, agent, beating, executing, orphaned>>
  BY DEF SchedulerRestart, processVars, executionVars
<1>2. Queued' = {} /\ DOMAIN dispatch' = {} /\ DOMAIN reservations' = {}
      /\ DOMAIN dispatch_attempts' = {}
  BY <1>1 DEF Queued, EmptyDict
<1>3. PipelineTypes'
  BY <1>1, <1>2 DEF SchedulerInv, PipelineInv, PipelineTypes
<1>4. (OnlySubmitted /\ NoDoublePlacement /\ WaitingHoldsNothing)'
  BY <1>1, <1>2 DEF OnlySubmitted, NoDoublePlacement, WaitingHoldsNothing
<1>5. StoreTypeOK'
  BY <1>1 DEF SchedulerInv, StoreTypeOK, storeVars
<1>6. ThreadTypes'
  BY <1>1, <1>2 DEF SchedulerInv, ThreadTypes
<1>7. AgentTypes'
  BY <1>1 DEF SchedulerInv, AgentTypes
<1> QED
  BY <1>3, <1>4, <1>5, <1>6, <1>7 DEF SchedulerInv, PipelineInv

-----------------------------------------------------------------------------
(* What run control relies on: other steps never take a submission back,   *)
(* and leave the run of every row alone.                                   *)
LEMMA OtherStepTags ==
  ASSUME SchedulerInv, OtherStep
  PROVE  /\ submitted \subseteq submitted'
         /\ DOMAIN jobs' = DOMAIN jobs
         /\ \A j \in DOMAIN jobs : jobs'[j].run_id = jobs[j].run_id
<1> USE DEF clientVars, storeVars
<1>1. \A j \in DOMAIN jobs : jobs[j] \in JobRow
  BY DEF SchedulerInv, StoreTypeOK
<1>2. ASSUME NEW j, NEW status, SetStatus(j, status)
      PROVE  /\ DOMAIN jobs' = DOMAIN jobs
             /\ \A k \in DOMAIN jobs : jobs'[k].run_id = jobs[k].run_id
  BY <1>1, <1>2 DEF SetStatus, JobRow
<1>3. ASSUME NEW j, NEW n, db_dispatch_job(j, n)
      PROVE  /\ DOMAIN jobs' = DOMAIN jobs
             /\ \A k \in DOMAIN jobs : jobs'[k].run_id = jobs[k].run_id
  BY <1>1, <1>3 DEF db_dispatch_job, JobRow
<1>4. CASE \E j \in Job : SubmitEnqueue(j) \/ SubmitInsertFails(j)
  BY <1>4 DEF SubmitEnqueue, SubmitInsertFails
<1>5. CASE DispatcherDequeue \/ DispatcherReserve \/ DispatcherReserveRefused
  BY <1>5 DEF DispatcherDequeue, DispatcherReserve, DispatcherReserveRefused
<1>6. ASSUME NEW j \in Job, DispatchThread(j)
      PROVE  /\ submitted \subseteq submitted'
             /\ DOMAIN jobs' = DOMAIN jobs
             /\ \A k \in DOMAIN jobs : jobs'[k].run_id = jobs[k].run_id
  <2>1. CASE RecordDispatch(j)
    BY <1>3, <2>1 DEF RecordDispatch
  <2>2. CASE Abandon(j)
    BY <1>2, <2>2 DEF Abandon, db_mark_job_failed
  <2>3. CASE PostAccepted(j) \/ PostFails(j) \/ PostResponseLost(j)
    BY <2>3 DEF PostAccepted, PostFails, PostResponseLost
  <2>4. CASE RecordDispatchFails(j) \/ ReleaseFailed(j) \/ Requeue(j) \/ AbandonFails(j)
    BY <2>4 DEF RecordDispatchFails, ReleaseFailed, Requeue, AbandonFails
  <2> QED
    BY <1>6, <2>1, <2>2, <2>3, <2>4 DEF DispatchThread
<1>7. CASE \E n \in Node : AgentStep(n)
  BY <1>7 DEF AgentStep, AgentRegister, AgentRegisterFails, AgentServe, AgentHeartbeat,
              AgentCrash
<1>8. CASE \E e \in Containers : ExecutionStep(e)
  BY <1>8 DEF ExecutionStep, FinishExecution, WaitFails, OrphanEnds
<1>9. ASSUME NEW r, Callback(r)
      PROVE  /\ submitted \subseteq submitted'
             /\ DOMAIN jobs' = DOMAIN jobs
             /\ \A k \in DOMAIN jobs : jobs'[k].run_id = jobs[k].run_id
  <2>1. CASE CallbackRecord(r)
    BY <1>2, <2>1 DEF CallbackRecord, db_record_job_result
  <2>2. CASE CallbackRelease(r) \/ CallbackRecordFails(r) \/ LoseCallback(r)
    BY <2>2 DEF CallbackRelease, CallbackRecordFails, LoseCallback
  <2> QED
    BY <1>9, <2>1, <2>2 DEF Callback
<1>10. CASE \E expired \in SUBSET last_heartbeat : ExpireNodes(expired)
  BY <1>10 DEF ExpireNodes
<1> QED
  BY <1>4, <1>5, <1>6, <1>7, <1>8, <1>9, <1>10 DEF OtherStep

(* The invariants of the runs alone. *)
RunsInv == RCTypeOK /\ OneOpenRun /\ TagsHaveRun /\ RunInv

(* Steps that touch neither the runs nor the tags that were read. *)
LEMMA RunsFrame ==
  ASSUME RunsInv, UNCHANGED <<active_run_id, runs, handler, run_read, interrupted>>,
         submitted \subseteq submitted', policy_index' \in 0 .. MaxIndex,
         submitted_before' \subseteq submitted',
         \A j \in DOMAIN jobs' : j \in DOMAIN jobs /\ jobs'[j].run_id = jobs[j].run_id
  PROVE  RunsInv'
BY DEF RunsInv, RCTypeOK, OneOpenRun, TagsHaveRun, RunInv

LEMMA StartRunInv ==
  ASSUME SchedulerInv, RunsInv,
         StartRun \/ StartRunCount \/ StartRunPolicy \/ StartRunOpenFails
  PROVE  RunsInv'
<1> USE DEF RunsInv, RCTypeOK, OneOpenRun, TagsHaveRun, RunInv, HandlerStep, vars, storeVars,
            clientVars
<1>1. CASE StartRun
  BY <1>1 DEF StartRun
<1>2. CASE StartRunCount
  BY <1>2 DEF StartRunCount
<1>3. CASE StartRunPolicy
  BY <1>3, RunControlAssumption DEF StartRunPolicy
<1>4. CASE StartRunOpenFails
  BY <1>4 DEF StartRunOpenFails
<1> QED
  BY <1>1, <1>2, <1>3, <1>4

LEMMA StartRunOpenInv ==
  ASSUME SchedulerInv, RunsInv, NEW run \in Run, StartRunOpen(run)
  PROVE  RunsInv'
<1>1. /\ handler = "new_policy" /\ handler' = "free"
      /\ run \notin DOMAIN runs
      /\ active_run_id = NoRun /\ active_run_id' = run
      /\ UNCHANGED <<jobs, submitted, run_read, policy_index, submitted_before, interrupted>>
  BY DEF StartRunOpen, RunsInv, RunInv, vars, storeVars, clientVars
<1>2. /\ DOMAIN runs' = DOMAIN runs \cup {run}
      /\ runs'[run] = "open"
      /\ \A other \in DOMAIN runs : runs'[other] = runs[other]
  BY <1>1 DEF StartRunOpen, Store
<1>3. run # NoRun /\ run \notin interrupted
  BY <1>1, NullAssumption DEF RunsInv, RCTypeOK
<1>4. RCTypeOK'
  BY <1>1, <1>2 DEF RunsInv, RCTypeOK, HandlerStep
<1>5. OneOpenRun'
  BY <1>1, <1>2, <1>3, NullAssumption DEF RunsInv, OneOpenRun, RCTypeOK
<1>6. (TagsHaveRun /\ RunInv)'
  BY <1>1, <1>2, <1>3 DEF RunsInv, TagsHaveRun, RunInv
<1> QED
  BY <1>4, <1>5, <1>6 DEF RunsInv

LEMMA FinishRunInv ==
  ASSUME SchedulerInv, RunsInv, FinishRun \/ FinishRunClose
  PROVE  RunsInv'
<1> USE DEF vars, storeVars, clientVars
<1>1. CASE FinishRun
  <2>1. /\ handler = "free" /\ handler' = "row_finished"
        /\ active_run_id # NoRun /\ active_run_id \in DOMAIN runs
        /\ active_run_id \notin interrupted
        /\ UNCHANGED <<jobs, submitted, active_run_id, run_read, policy_index,
                       submitted_before, interrupted>>
    BY <1>1 DEF FinishRun, RunsInv, RunInv
  <2>2. /\ DOMAIN runs' = DOMAIN runs
        /\ runs'[active_run_id] = "finished"
        /\ \A other \in DOMAIN runs \ {active_run_id} : runs'[other] = runs[other]
    BY <1>1, <2>1 DEF FinishRun
  <2>3. RCTypeOK'
    BY <2>1, <2>2 DEF RunsInv, RCTypeOK, HandlerStep
  <2>4. OneOpenRun'
    BY <2>1, <2>2 DEF RunsInv, OneOpenRun
  <2>5. (TagsHaveRun /\ RunInv)'
    BY <2>1, <2>2 DEF RunsInv, TagsHaveRun, RunInv
  <2> QED
    BY <2>3, <2>4, <2>5 DEF RunsInv
<1>2. CASE FinishRunClose
  <2>1. /\ handler = "row_finished" /\ handler' = "free" /\ active_run_id' = NoRun
        /\ UNCHANGED <<jobs, submitted, runs, run_read, policy_index, submitted_before,
                       interrupted>>
    BY <1>2 DEF FinishRunClose
  <2>2. NoRun \notin DOMAIN runs /\ NoRun \notin interrupted
    BY NullAssumption DEF RunsInv, RCTypeOK
  <2>3. RCTypeOK'
    BY <2>1 DEF RunsInv, RCTypeOK, HandlerStep
  <2>4. OneOpenRun'
    BY <2>1, <2>2 DEF RunsInv, OneOpenRun
  <2>5. (TagsHaveRun /\ RunInv)'
    BY <2>1, <2>2 DEF RunsInv, TagsHaveRun, RunInv
  <2> QED
    BY <2>3, <2>4, <2>5 DEF RunsInv
<1> QED
  BY <1>1, <1>2

(* The tag of a row was read while its run was open, and rows of runs are  *)
(* never removed.                                                          *)
LEMMA SubmitRunInv ==
  ASSUME SchedulerInv, RunsInv, NEW j \in Job, SubmitReadRun(j) \/ SubmitInsertTagged(j)
  PROVE  RunsInv'
<1> USE DEF vars, runVars, storeVars, clientVars
<1>1. CASE SubmitReadRun(j)
  <2>1. /\ DOMAIN run_read' = DOMAIN run_read \cup {j}
        /\ \A k \in DOMAIN run_read' :
             run_read'[k] = IF k = j THEN active_run_id ELSE run_read[k]
        /\ j \in submitted
        /\ UNCHANGED <<jobs, submitted, runVars>>
    BY <1>1 DEF SubmitReadRun, Store, SchedulerInv, ThreadTypes
  <2>2. RCTypeOK'
    BY <2>1 DEF RunsInv, RCTypeOK
  <2>3. (OneOpenRun /\ TagsHaveRun /\ RunInv)'
    BY <2>1 DEF RunsInv, OneOpenRun, TagsHaveRun, RunInv
  <2> QED
    BY <2>2, <2>3 DEF RunsInv
<1>2. CASE SubmitInsertTagged(j)
  <2>1. /\ j \in DOMAIN run_read
        /\ DOMAIN jobs' = DOMAIN jobs \cup {j}
        /\ \A k \in DOMAIN jobs' :
             jobs'[k].run_id = IF k = j THEN run_read[j] ELSE jobs[k].run_id
        /\ UNCHANGED <<submitted, runVars, run_read>>
    BY <1>2 DEF SubmitInsertTagged, SubmitInsert, db_submit_job
  <2>2. TagsHaveRun'
    BY <2>1 DEF RunsInv, TagsHaveRun, RunInv
  <2>3. (RCTypeOK /\ OneOpenRun /\ RunInv)'
    BY <2>1 DEF RunsInv, RCTypeOK, OneOpenRun, RunInv
  <2> QED
    BY <2>2, <2>3 DEF RunsInv
<1> QED
  BY <1>1, <1>2

(* The scheduler forgets the open run; its row stays open. *)
LEMMA RestartRunInv ==
  ASSUME RunsInv, SchedulerRestart
  PROVE  RunsInv'
<1>1. /\ active_run_id' = NoRun /\ handler' = "free" /\ policy_index' = 0
      /\ DOMAIN run_read' = {}
      /\ interrupted' = interrupted \cup {run \in DOMAIN runs : runs[run] = "open"}
      /\ UNCHANGED <<jobs, submitted, runs, submitted_before>>
  BY DEF SchedulerRestart, storeVars, NoRows
<1>2. NoRun \notin DOMAIN runs
  BY NullAssumption DEF RunsInv, RCTypeOK
<1>3. RCTypeOK'
  BY <1>1, RunControlAssumption DEF RunsInv, RCTypeOK, HandlerStep
<1>4. OneOpenRun'
  BY <1>1, <1>2 DEF RunsInv, OneOpenRun
<1>5. (TagsHaveRun /\ RunInv)'
  BY <1>1, <1>2 DEF RunsInv, TagsHaveRun, RunInv, RCTypeOK
<1> QED
  BY <1>3, <1>4, <1>5 DEF RunsInv

LEMMA RunsNext ==
  ASSUME SchedulerInv, RunsInv, [RCNext]_rcVars
  PROVE  RunsInv'
<1>1. ASSUME NEW n \in Node, SelectAndCount(n) PROVE RunsInv'
  <2>1. UNCHANGED <<active_run_id, runs, handler, run_read, interrupted, submitted,
                    submitted_before, jobs>>
    BY <1>1 DEF SelectAndCount, DispatcherSelect, storeVars, clientVars
  <2>2. policy_index' \in 0 .. MaxIndex
    BY <1>1, RunControlAssumption DEF SelectAndCount, RunsInv, RCTypeOK
  <2> QED
    BY <2>1, <2>2, RunsFrame DEF RunsInv, RCTypeOK
<1>2. CASE OtherStep /\ UNCHANGED <<runVars, run_read>>
  BY <1>2, OtherStepTags, RunsFrame DEF runVars, RunsInv, RCTypeOK
<1>3. CASE UNCHANGED rcVars
  BY <1>3, RunsFrame DEF rcVars, runVars, vars, clientVars, storeVars, RunsInv, RCTypeOK
<1> QED
  BY <1>1, <1>2, <1>3, StartRunInv, StartRunOpenInv, FinishRunInv, SubmitRunInv, RestartRunInv
  DEF RCNext

LEMMA RunsAlways == RCSpec => [](SchedulerInv /\ RunsInv)
<1>1. RCInit => SchedulerInv
  BY SchedulerInit DEF RCInit
<1>2. RCInit => RunsInv
  BY RunControlAssumption, NullAssumption
  DEF RCInit, Init, StoreInit, NoRows, RunsInv, RCTypeOK, HandlerStep, OneOpenRun,
      TagsHaveRun, RunInv
<1>3. SchedulerInv /\ RunsInv /\ [RCNext]_rcVars => SchedulerInv' /\ RunsInv'
  BY RCStep, SchedulerNext, RestartTypes, RunsNext DEF RunsInv
<1> QED
  BY <1>1, <1>2, <1>3, PTL DEF RCSpec

(* The variables of run control keep their types. *)
THEOREM RunTypesCorrect == RCSpec => []RCTypeOK
BY RunsAlways, PTL DEF RunsInv

(* At most one run is open, and it is the active one: no interleaving of   *)
(* start_run and finish_run leaves a run open that nobody can finish; only *)
(* the death of the scheduler does.                                        *)
THEOREM OneRunAtATime == RCSpec => []OneOpenRun
BY RunsAlways, PTL DEF RunsInv

(* A job is never tagged with a run that has no row, although submit_job   *)
(* reads the tag without the lock.                                         *)
THEOREM EveryTagHasItsRun == RCSpec => []TagsHaveRun
BY RunsAlways, PTL DEF RunsInv

-----------------------------------------------------------------------------
(* Without restarts, runs only decide how jobs are tagged: all that was    *)
(* shown of the scheduler holds with experiment runs on top of it.         *)
THEOREM RunsChangeNothingElse ==
  ASSUME "scheduler_crash" \notin Faults
  PROVE  RCSpec => Spec
<1>1. RCInit => Init
  BY DEF RCInit
<1>2. SchedulerInv /\ RunsInv /\ [RCNext]_rcVars => [Next]_vars
  BY RCStep DEF SchedulerRestart, RunsInv
<1> QED
  BY <1>1, <1>2, RunsAlways, PTL DEF RCSpec, Spec

(* What runs on a node survives the scheduler: reports that have not been  *)
(* handled may be gone, and nothing is on its way to a node any more.      *)
LEMMA RestartExecution ==
  ASSUME SchedulerInv, ExecutionInv, SchedulerRestart
  PROVE  ExecutionInv'
<1>1. /\ job_queue' = << >> /\ held' = NoJob /\ dispatch' = EmptyDict
      /\ callback_sent' \subseteq callback_sent /\ callback_released' = {}
      /\ UNCHANGED <<job_results, submitted, abandoned, executing, orphaned>>
  BY DEF SchedulerRestart, storeVars, executionVars
<1>2. Queued' = {} /\ DOMAIN dispatch' = {}
  BY <1>1 DEF Queued, EmptyDict
<1>3. Outstanding' \subseteq Outstanding
  BY <1>1 DEF Outstanding, Containers, Reporting
<1>4. NoJob \notin Spent
  BY SpentSubmitted DEF SchedulerInv
<1> QED
  BY <1>1, <1>2, <1>3, <1>4, ExecutionFrame

LEMMA RCExecutionAlways ==
  ASSUME AcceptedIsSeen
  PROVE  RCSpec => []ExecutionInv
<1>1. RCInit => ExecutionInv
  BY ExecutionInit DEF RCInit
<1>2. SchedulerInv /\ RunsInv /\ ExecutionInv /\ [RCNext]_rcVars => ExecutionInv'
  BY RCStep, ExecutionNext, RestartExecution DEF RunsInv, SchedulerInv
<1> QED
  BY <1>1, <1>2, RunsAlways, PTL DEF RCSpec

(* A restarted scheduler does not place a job whose execution went on      *)
(* without it: restarts lose jobs, they never run one a second time.       *)
THEOREM ExecutedOnceAcrossRestarts ==
  ASSUME AcceptedIsSeen
  PROVE  RCSpec => []OneExecution
<1>1. ExecutionInv => OneExecution
  BY DEF ExecutionInv, SpentIsAway, OneEach, OneExecution, Spent
<1> QED
  BY <1>1, RCExecutionAlways, PTL

(* A job that was given up never ran, whenever the scheduler died.         *)
THEOREM GivenUpNeverRanAcrossRestarts ==
  ASSUME AcceptedIsSeen
  PROVE  RCSpec => []AbandonedNeverRan
BY RCExecutionAlways, PTL DEF ExecutionInv

-----------------------------------------------------------------------------
(* The ledger starts again from nothing, and so do the pending jobs. *)
LEMMA RCLedgerAlways == RCSpec => []CSInv
<1>1. RCInit => CSInv
  BY CSInitInv DEF RCInit, Init
<1>2. SchedulerRestart => CSInit'
  BY DEF SchedulerRestart, CSInit
<1>3. CSInit' => CSInv'
  BY CSInitInv, PTL
<1>4. SchedulerInv /\ RunsInv /\ CSInv /\ [RCNext]_rcVars => CSInv'
  BY <1>2, <1>3, RCStep, LedgerStep, CSNextInv DEF RunsInv, SchedulerInv
<1> QED
  BY <1>1, <1>4, RunsAlways, PTL DEF RCSpec

(* A restarted scheduler respects the capacity of the nodes that register  *)
(* again, in its own counts: what the executions of its former life use    *)
(* there it does not know.                                                 *)
THEOREM CapacityAcrossRestarts == RCSpec => []WithinCapacity
BY RCLedgerAlways, PTL DEF CSInv

(* Nor does it count what no job of its own will give back. *)
THEOREM NoSlotLeaksAcrossRestarts == RCSpec => []LedgerBacked
BY RCLedgerAlways, PTL DEF CSInv

(* A finished job is never resurrected, neither by a late write nor by a   *)
(* new scheduler over the old rows.                                        *)
THEOREM FinishedAcrossRestarts == RCSpec => TerminalSticky
<1>1. RCInit => StoreInit
  BY DEF RCInit, Init
<1>2. SchedulerRestart => UNCHANGED storeVars
  BY DEF SchedulerRestart
<1>3. SchedulerInv /\ RunsInv /\ [RCNext]_rcVars => [StoreNext]_storeVars
  BY <1>2, RCStep, StoreUse DEF RunsInv, SchedulerInv
<1>4. RCSpec => StoreSpec
  BY <1>1, <1>3, RunsAlways, PTL DEF RCSpec, StoreSpec
<1> QED
  BY <1>4, FinishedStaysFinished
=============================================================================
