----------------------------- MODULE Scheduler -----------------------------
(***************************************************************************)
(* scheduler/main.py with the agents it talks to (agent/main.py,           *)
(* agent/executor.py): jobs are submitted, placed by the one dispatcher    *)
(* thread, posted to an agent by a dispatch thread each, run there, and    *)
(* reported back by a callback.                                            *)
(*                                                                         *)
(* Each lock-protected call, each transaction and each message is a step   *)
(* of its own, so the threads interleave between any two of them.          *)
(***************************************************************************)
EXTENDS ClusterState, DispatchQueue, JobStore

CONSTANTS
  NoJob,                  \* the dispatcher holds no job
  MAX_DISPATCH_ATTEMPTS,  \* shared/config.py
  Outcomes,               \* whether a container can succeed, fail, or either
  Faults                  \* what may go wrong in this instance

FaultKinds == {
  "agent_crash",        \* an agent process dies; its containers run on
  "missed_heartbeats",  \* a live node is silent for longer than the timeout
  "post_failed",        \* a POST /execute is not delivered to a live agent
  "response_lost",      \* a POST /execute is delivered but its reply is not
  "callback_lost",      \* the only POST /job_callback of a job is not delivered
  "docker_error",       \* waiting for a container raises while it runs on
  "scheduler_crash",    \* the scheduler dies and is restarted (RunControl)
  "submit_failed",      \* a POST /jobs is not answered in time (Experiment)
  "start_run_failed",   \* the row of a run cannot be inserted (RunControl)
  "db_error" }          \* a transaction fails: "database is locked"

ASSUME SchedulerAssumption ==
  /\ NoJob \notin Job
  /\ MAX_DISPATCH_ATTEMPTS \in Nat \ {0}
  /\ Outcomes \subseteq BOOLEAN
  /\ Faults \subseteq FaultKinds

VARIABLES
  submitted,          \* jobs whose POST /jobs has been handled so far
  submitting,         \* jobs enqueued by a handler that has yet to insert the row
  held,               \* the job the dispatcher took off the queue, or NoJob
  selected,           \* the node the policy chose for it, or NoNode
  dispatch,           \* job -> [node, step] of its live dispatch thread
  agent,              \* node -> state of the agent process
  beating,            \* nodes whose agent has sent a heartbeat since it started
  executing,          \* executions whose agent waits for their container
  orphaned,           \* executions whose container runs on with nobody waiting
  callback_sent,      \* reports on their way to /job_callback
  callback_released,  \* reports whose handler has released the slot
  abandoned           \* the jobs logged as job.abandoned

dispatcherVars == <<held, selected>>
threadVars == <<dispatch, abandoned>>
processVars == <<agent, beating>>
reportVars == <<callback_sent, callback_released>>
executionVars == <<executing, orphaned>>
agentVars == <<processVars, executionVars, reportVars>>
clientVars == <<submitted, submitting>>
vars == <<csVars, queueVars, storeVars, clientVars, dispatcherVars, threadVars, agentVars>>

(* The try-th execution of a job.  A job is posted once per attempt. *)
Execution == [job : Job, node : Node, try : 1 .. MAX_DISPATCH_ATTEMPTS]

(* JobResult: an execution and how it ended. *)
Report == [execution : Execution, success : BOOLEAN]

(* What a live dispatch thread does next.                                  *)
(*   post: send POST /execute     accepted: record the dispatch            *)
(*   failing: release the slot    released: count the failure and decide   *)
DispatchStep == {"post", "accepted", "failing", "released"}

-----------------------------------------------------------------------------
Init ==
  /\ CSInit
  /\ QueueInit
  /\ StoreInit
  /\ submitted = {}
  /\ submitting = {}
  /\ held = NoJob
  /\ selected = NoNode
  /\ dispatch = EmptyDict
  /\ abandoned = {}
  /\ agent = [n \in Node |-> "down"]
  /\ beating = {}
  /\ executing = {}
  /\ orphaned = {}
  /\ callback_sent = {}
  /\ callback_released = {}

-----------------------------------------------------------------------------
(* POST /jobs.  The job can be dispatched as soon as it is enqueued, before *)
(* its row exists.  Job ids are unique.                                     *)
SubmitEnqueue(j) ==
  /\ j \notin submitted
  /\ enqueue_job(j)
  /\ submitted' = submitted \cup {j}
  /\ submitting' = submitting \cup {j}
  /\ UNCHANGED <<csVars, storeVars, dispatcherVars, threadVars, agentVars>>

(* The row is inserted with the run the handler found open, if any. *)
SubmitInsert(j, run) ==
  /\ j \in submitting
  /\ db_submit_job(j, run)
  /\ submitting' = submitting \ {j}
  /\ UNCHANGED <<csVars, queueVars, submitted, dispatcherVars, threadVars,
                 agentVars>>

(* The INSERT fails: the client is told so, the job stays in the queue. *)
SubmitInsertFails(j) ==
  /\ "db_error" \in Faults
  /\ j \in submitting
  /\ submitting' = submitting \ {j}
  /\ UNCHANGED <<csVars, queueVars, storeVars, submitted, dispatcherVars,
                 threadVars, agentVars>>

-----------------------------------------------------------------------------
(* dispatcher_loop takes one job off the queue and keeps it until it is    *)
(* placed.                                                                 *)
DispatcherDequeue ==
  /\ held = NoJob
  /\ dequeue_job
  /\ held' = Head(job_queue)
  /\ UNCHANGED <<csVars, storeVars, clientVars, selected, threadVars,
                 agentVars>>

(* select_node_for asks the policy, which may choose any available node.   *)
(* Without one the dispatcher sleeps and asks again.                       *)
DispatcherSelect(n) ==
  /\ held # NoJob
  /\ selected = NoNode
  /\ n \in get_available_nodes(held)
  /\ selected' = n
  /\ UNCHANGED <<csVars, queueVars, storeVars, clientVars, held, threadVars,
                 agentVars>>

(* reserve_slot succeeds and the dispatch thread is started. *)
DispatcherReserve ==
  /\ selected # NoNode
  /\ reserve_slot(selected, held)
  /\ dispatch' = Store(dispatch, held, [node |-> selected, step |-> "post"])
  /\ held' = NoJob
  /\ selected' = NoNode
  /\ UNCHANGED <<queueVars, storeVars, clientVars, abandoned, agentVars>>

(* Mutant: a refused job is put back on the queue and kept as well. *)
DispatcherReserveRefusedRequeues ==
  /\ selected # NoNode
  /\ ~node_has_capacity(selected, held)
  /\ enqueue_job(held)
  /\ selected' = NoNode
  /\ UNCHANGED <<csVars, storeVars, clientVars, held, threadVars, agentVars>>

(* The node expired or filled up since it was selected: ask again. *)
DispatcherReserveRefused ==
  /\ selected # NoNode
  /\ ~node_has_capacity(selected, held)
  /\ selected' = NoNode
  /\ UNCHANGED <<csVars, queueVars, storeVars, clientVars, held, threadVars,
                 agentVars>>

-----------------------------------------------------------------------------
AtStep(j, step) == j \in DOMAIN dispatch /\ dispatch[j].step = step

GoTo(j, step) == dispatch' = [dispatch EXCEPT ![j].step = step]

EndThread(j) == dispatch' = Pop(dispatch, {j})

(* The execution the agent starts when it accepts the POST of this thread. *)
Posted(j) == [job |-> j, node |-> dispatch[j].node, try |-> Attempts(j) + 1]

(* POST /execute is answered with 200: the agent has started a thread. *)
PostAccepted(j) ==
  /\ AtStep(j, "post")
  /\ agent[dispatch[j].node] = "serving"
  /\ executing' = executing \cup {Posted(j)}
  /\ GoTo(j, "accepted")
  /\ UNCHANGED <<csVars, queueVars, storeVars, clientVars, dispatcherVars,
                 abandoned, processVars, orphaned, reportVars>>

(* The agent is not there, or the POST does not reach it. *)
PostFails(j) ==
  /\ AtStep(j, "post")
  /\ agent[dispatch[j].node] # "serving" \/ "post_failed" \in Faults
  /\ GoTo(j, "failing")
  /\ UNCHANGED <<csVars, queueVars, storeVars, clientVars, dispatcherVars,
                 abandoned, agentVars>>

(* The agent starts the job, but the dispatch thread sees an exception. *)
PostResponseLost(j) ==
  /\ "response_lost" \in Faults
  /\ AtStep(j, "post")
  /\ agent[dispatch[j].node] = "serving"
  /\ executing' = executing \cup {Posted(j)}
  /\ GoTo(j, "failing")
  /\ UNCHANGED <<csVars, queueVars, storeVars, clientVars, dispatcherVars,
                 abandoned, processVars, orphaned, reportVars>>

(* Mutant: the slot is given back once the dispatch is recorded. *)
RecordDispatchAndRelease(j) ==
  /\ AtStep(j, "accepted")
  /\ db_dispatch_job(j, dispatch[j].node)
  /\ release_slot(j)
  /\ forget_dispatch_attempts(j)
  /\ EndThread(j)
  /\ UNCHANGED <<job_queue, clientVars, dispatcherVars, abandoned, agentVars>>

(* Nobody else looks at the attempts of a job whose thread is alive, so    *)
(* forgetting them is part of the step that stores the dispatch.           *)
RecordDispatch(j) ==
  /\ AtStep(j, "accepted")
  /\ db_dispatch_job(j, dispatch[j].node)
  /\ forget_dispatch_attempts(j)
  /\ EndThread(j)
  /\ UNCHANGED <<csVars, job_queue, clientVars, dispatcherVars, abandoned,
                 agentVars>>

(* The UPDATE is inside the same try as the POST. *)
RecordDispatchFails(j) ==
  /\ "db_error" \in Faults
  /\ AtStep(j, "accepted")
  /\ GoTo(j, "failing")
  /\ UNCHANGED <<csVars, queueVars, storeVars, clientVars, dispatcherVars,
                 abandoned, agentVars>>

(* Mutant: a failed dispatch keeps its slot. *)
ReleaseFailedKeepsSlot(j) ==
  /\ AtStep(j, "failing")
  /\ GoTo(j, "released")
  /\ UNCHANGED <<csVars, queueVars, storeVars, clientVars, dispatcherVars, abandoned,
                 agentVars>>

ReleaseFailed(j) ==
  /\ AtStep(j, "failing")
  /\ release_slot(j)
  /\ GoTo(j, "released")
  /\ UNCHANGED <<queueVars, storeVars, clientVars, dispatcherVars, abandoned,
                 agentVars>>

(* Mutant: the attempts are never counted. *)
RequeueUncounted(j) ==
  /\ AtStep(j, "released")
  /\ enqueue_job(j)
  /\ EndThread(j)
  /\ UNCHANGED <<csVars, storeVars, clientVars, dispatcherVars, abandoned,
                 agentVars>>

(* Mutant: one attempt too many, `>` for `>=` in dispatch_job. *)
RequeueOnceMore(j) ==
  /\ AtStep(j, "released")
  /\ Attempts(j) + 1 <= MAX_DISPATCH_ATTEMPTS
  /\ record_dispatch_failure(j)
  /\ job_queue' = Append(job_queue, j)
  /\ EndThread(j)
  /\ UNCHANGED <<csVars, storeVars, clientVars, dispatcherVars, abandoned,
                 agentVars>>

(* Mutant: the failure is counted and the job is not put back. *)
RequeueForgotten(j) ==
  /\ AtStep(j, "released")
  /\ Attempts(j) + 1 < MAX_DISPATCH_ATTEMPTS
  /\ record_dispatch_failure(j)
  /\ EndThread(j)
  /\ UNCHANGED <<csVars, job_queue, storeVars, clientVars, dispatcherVars, abandoned,
                 agentVars>>

(* Only this thread uses the job's attempt count, so counting the failure  *)
(* and acting on the new total is one step.                                *)
Requeue(j) ==
  /\ AtStep(j, "released")
  /\ Attempts(j) + 1 < MAX_DISPATCH_ATTEMPTS
  /\ record_dispatch_failure(j)
  /\ job_queue' = Append(job_queue, j)
  /\ EndThread(j)
  /\ UNCHANGED <<csVars, storeVars, clientVars, dispatcherVars, abandoned,
                 agentVars>>

(* Mutant: the `return` after giving up is missing. *)
AbandonAndRequeue(j) ==
  /\ AtStep(j, "released")
  /\ Attempts(j) + 1 >= MAX_DISPATCH_ATTEMPTS
  /\ forget_dispatch_attempts(j)
  /\ job_queue' = Append(job_queue, j)
  /\ db_mark_job_failed(j)
  /\ EndThread(j)
  /\ abandoned' = abandoned \cup {j}
  /\ UNCHANGED <<csVars, clientVars, dispatcherVars, agentVars>>

Abandon(j) ==
  /\ AtStep(j, "released")
  /\ Attempts(j) + 1 >= MAX_DISPATCH_ATTEMPTS
  /\ forget_dispatch_attempts(j)
  /\ db_mark_job_failed(j)
  /\ EndThread(j)
  /\ abandoned' = abandoned \cup {j}
  /\ UNCHANGED <<csVars, job_queue, clientVars, dispatcherVars, agentVars>>

(* The UPDATE raises in the handler of the first exception: the thread     *)
(* ends with the job neither requeued nor marked.                          *)
AbandonFails(j) ==
  /\ "db_error" \in Faults
  /\ AtStep(j, "released")
  /\ Attempts(j) + 1 >= MAX_DISPATCH_ATTEMPTS
  /\ forget_dispatch_attempts(j)
  /\ EndThread(j)
  /\ UNCHANGED <<csVars, job_queue, storeVars, clientVars, dispatcherVars,
                 abandoned, agentVars>>

-----------------------------------------------------------------------------
(* An agent starts: it registers once, then starts the heartbeat thread    *)
(* and the API server.                                                     *)
AgentRegister(n) ==
  /\ agent[n] = "down"
  /\ register_node(n)
  /\ agent' = [agent EXCEPT ![n] = "registered"]
  /\ UNCHANGED <<queueVars, storeVars, clientVars, dispatcherVars, threadVars,
                 beating, executionVars, reportVars>>

(* The handler of /register fails after it has stored the registration:    *)
(* the agent raises and exits, the scheduler keeps the node.               *)
AgentRegisterFails(n) ==
  /\ "db_error" \in Faults
  /\ agent[n] = "down"
  /\ register_node(n)
  /\ UNCHANGED <<queueVars, storeVars, clientVars, dispatcherVars, threadVars,
                 agentVars>>

AgentServe(n) ==
  /\ agent[n] = "registered"
  /\ agent' = [agent EXCEPT ![n] = "serving"]
  /\ UNCHANGED <<csVars, queueVars, storeVars, clientVars, dispatcherVars,
                 threadVars, beating, executionVars, reportVars>>

AgentHeartbeat(n) ==
  /\ agent[n] # "down"
  /\ register_heartbeat(n)
  /\ beating' = beating \cup {n}
  /\ UNCHANGED <<queueVars, storeVars, clientVars, dispatcherVars, threadVars,
                 agent, executionVars, reportVars>>

(* The execution threads are daemons of the agent process, the containers  *)
(* they started detached run on.  Reports that have left it are delivered. *)
AgentCrash(n) ==
  /\ "agent_crash" \in Faults
  /\ agent[n] # "down"
  /\ agent' = [agent EXCEPT ![n] = "down"]
  /\ beating' = beating \ {n}
  /\ executing' = {e \in executing : e.node # n}
  /\ orphaned' = orphaned \cup {e \in executing : e.node = n}
  /\ UNCHANGED <<csVars, queueVars, storeVars, clientVars, dispatcherVars,
                 threadVars, reportVars>>

(* run_and_callback: the container ends, well or not, and is reported. *)
FinishExecution(e) ==
  /\ e \in executing
  /\ executing' = executing \ {e}
  /\ \E success \in Outcomes :
       callback_sent' = callback_sent \cup {[execution |-> e, success |-> success]}
  /\ UNCHANGED <<csVars, queueVars, storeVars, clientVars, dispatcherVars,
                 threadVars, processVars, orphaned, callback_released>>

(* container.wait raises: the job is reported failed, its container is not *)
(* stopped.                                                                *)
WaitFails(e) ==
  /\ "docker_error" \in Faults
  /\ e \in executing
  /\ executing' = executing \ {e}
  /\ orphaned' = orphaned \cup {e}
  /\ callback_sent' = callback_sent \cup {[execution |-> e, success |-> FALSE]}
  /\ UNCHANGED <<csVars, queueVars, storeVars, clientVars, dispatcherVars,
                 threadVars, processVars, callback_released>>

(* A container nobody waits for ends, unnoticed. *)
OrphanEnds(e) ==
  /\ e \in orphaned
  /\ orphaned' = orphaned \ {e}
  /\ UNCHANGED <<csVars, queueVars, storeVars, clientVars, dispatcherVars,
                 threadVars, processVars, executing, reportVars>>

(* The report is sent once; the agent logs the failure and moves on. *)
LoseCallback(r) ==
  /\ "callback_lost" \in Faults
  /\ r \in callback_sent
  /\ callback_sent' = callback_sent \ {r}
  /\ UNCHANGED <<csVars, queueVars, storeVars, clientVars, dispatcherVars,
                 threadVars, processVars, executionVars, callback_released>>

-----------------------------------------------------------------------------
(* Mutant: job_callback records the result and keeps the slot. *)
CallbackReleaseForgotten(r) ==
  /\ r \in callback_sent
  /\ callback_sent' = callback_sent \ {r}
  /\ callback_released' = callback_released \cup {r}
  /\ UNCHANGED <<csVars, queueVars, storeVars, clientVars, dispatcherVars,
                 threadVars, processVars, executionVars>>

(* POST /job_callback: the slot first, then the result. *)
CallbackRelease(r) ==
  /\ r \in callback_sent
  /\ release_slot(r.execution.job)
  /\ callback_sent' = callback_sent \ {r}
  /\ callback_released' = callback_released \cup {r}
  /\ UNCHANGED <<queueVars, storeVars, clientVars, dispatcherVars, threadVars,
                 processVars, executionVars>>

CallbackRecord(r) ==
  /\ r \in callback_released
  /\ db_record_job_result(r.execution.job, r.execution.node, r.success)
  /\ callback_released' = callback_released \ {r}
  /\ UNCHANGED <<csVars, queueVars, clientVars, dispatcherVars, threadVars,
                 processVars, executionVars, callback_sent>>

CallbackRecordFails(r) ==
  /\ "db_error" \in Faults
  /\ r \in callback_released
  /\ callback_released' = callback_released \ {r}
  /\ UNCHANGED <<csVars, queueVars, storeVars, clientVars, dispatcherVars,
                 threadVars, processVars, executionVars, callback_sent>>

-----------------------------------------------------------------------------
(* expiration_loop.  All nodes found silent go in one step.  Silent is a   *)
(* node whose agent has stopped, or has restarted and registered but not   *)
(* sent a heartbeat yet: registering does not refresh last_heartbeat.      *)
ExpireNodes(expired) ==
  /\ expired \cap beating = {} \/ "missed_heartbeats" \in Faults
  /\ remove_expired_nodes(expired)
  /\ UNCHANGED <<queueVars, storeVars, clientVars, dispatcherVars, threadVars,
                 agentVars>>

-----------------------------------------------------------------------------
Containers == executing \cup orphaned

DispatchThread(j) ==
  \/ PostAccepted(j) \/ PostFails(j) \/ PostResponseLost(j)
  \/ RecordDispatch(j) \/ RecordDispatchFails(j)
  \/ ReleaseFailed(j) \/ Requeue(j) \/ Abandon(j) \/ AbandonFails(j)

Callback(r) ==
  \/ CallbackRelease(r) \/ CallbackRecord(r) \/ CallbackRecordFails(r) \/ LoseCallback(r)

ExecutionStep(e) == FinishExecution(e) \/ WaitFails(e) \/ OrphanEnds(e)

AgentStep(n) ==
  \/ AgentRegister(n) \/ AgentRegisterFails(n) \/ AgentServe(n)
  \/ AgentHeartbeat(n) \/ AgentCrash(n)

(* All but the two steps RunControl takes part in: the policy's choice and *)
(* the insertion of a job's row.                                           *)
OtherStep ==
  \/ \E j \in Job : SubmitEnqueue(j) \/ SubmitInsertFails(j)
  \/ DispatcherDequeue \/ DispatcherReserve \/ DispatcherReserveRefused
  \/ \E j \in Job : DispatchThread(j)
  \/ \E n \in Node : AgentStep(n)
  \/ \E e \in Containers : ExecutionStep(e)
  \/ \E r \in callback_sent \cup callback_released : Callback(r)
  \/ \E expired \in SUBSET last_heartbeat : ExpireNodes(expired)

Next ==
  \/ OtherStep
  \/ \E n \in Node : DispatcherSelect(n)
  \/ \E j \in Job, run \in Run \cup {NoRun} : SubmitInsert(j, run)

Spec == Init /\ [][Next]_vars

-----------------------------------------------------------------------------
(* Every loop and every thread goes on as long as it can: the dispatcher   *)
(* polls, started threads are scheduled, containers end, reports are       *)
(* handled, agents finish starting.  Nothing is assumed of crashes, losses *)
(* or heartbeats.  Fairness of each kind of step as a whole is enough.     *)
Fairness ==
  /\ WF_vars(\E j \in Job, run \in Run \cup {NoRun} : SubmitInsert(j, run))
  /\ WF_vars(DispatcherDequeue)
  /\ WF_vars(\E n \in Node : DispatcherSelect(n))
  /\ WF_vars(DispatcherReserve \/ DispatcherReserveRefused)
  /\ WF_vars(\E j \in Job : DispatchThread(j))
  /\ WF_vars(\E n \in Node : AgentRegister(n) \/ AgentServe(n))
  /\ WF_vars(\E e \in executing : FinishExecution(e))
  /\ WF_vars(\E r \in callback_sent \cup callback_released : Callback(r))

FairSpec == Spec /\ Fairness

-----------------------------------------------------------------------------
Reporting == {r.execution : r \in callback_sent \cup callback_released}

(* Executions that are running or whose result is not recorded yet. *)
Outstanding == Containers \cup Reporting

ExecutingCpus(n) ==
  Cardinality(UNION {{e} \X (1 .. CpuRequest[e.job]) : e \in {x \in Containers : x.node = n}})

TypeOK ==
  /\ CSTypeOK
  /\ StoreTypeOK
  /\ job_queue \in Seq(Job)
  /\ DOMAIN dispatch_attempts \subseteq Job
  /\ \A j \in DOMAIN dispatch_attempts : dispatch_attempts[j] \in 1 .. MAX_DISPATCH_ATTEMPTS - 1
  /\ submitting \subseteq submitted /\ submitted \subseteq Job
  /\ held \in Job \cup {NoJob}
  /\ selected \in Node \cup {NoNode}
  /\ DOMAIN dispatch \subseteq Job
  /\ \A j \in DOMAIN dispatch : dispatch[j] \in [node : Node, step : DispatchStep]
  /\ abandoned \subseteq Job
  /\ agent \in [Node -> {"down", "registered", "serving"}]
  /\ beating \subseteq Node
  /\ executing \subseteq Execution /\ orphaned \subseteq Execution
  /\ callback_sent \subseteq Report
  /\ callback_released \subseteq Report

(* A job is never waiting twice, nor waiting while the dispatcher or a     *)
(* dispatch thread has it (dispatcher_loop main.py:261-288, dispatch_job   *)
(* main.py:166-184): retries never multiply a job.                         *)
NoDoublePlacement ==
  /\ \A i, k \in 1 .. Len(job_queue) : job_queue[i] = job_queue[k] => i = k
  /\ held \notin Queued \cup DOMAIN dispatch
  /\ Queued \cap DOMAIN dispatch = {}

(* A job waiting to be placed holds nothing, so reserve_slot (state.py:200) *)
(* never overwrites a reservation and loses what it stood for, even when a  *)
(* late report of an earlier attempt releases the slot of a newer one.      *)
WaitingHoldsNothing ==
  \A j \in DOMAIN reservations :
    j \notin Queued /\ j # held /\ ~AtStep(j, "released")

(* The dispatcher, the dispatch threads, the callbacks, the agents and the *)
(* expiration loop together use the ledger the way ClusterState assumes.   *)
LedgerSpec == CSSpec

(* A job is executed at most once at a time, and is not placed again while *)
(* an execution of it is running or unreported, as long as every POST that *)
(* an agent accepts is seen accepted (main.py:134-150).                    *)
OneExecution ==
  /\ \A d, e \in Outstanding : d.job = e.job => d = e
  /\ \A e \in Outstanding :
       e.job \notin Queued /\ e.job # held /\ (AtStep(e.job, "accepted") \/ e.job \notin DOMAIN dispatch)

(* A running job holds its reservation on the node it runs on until its    *)
(* report is handled (reserve_slot main.py:243, release_slot main.py:640), *)
(* also when the agent that started its container is gone.                 *)
ReservedWhileRunning ==
  \A e \in Containers : e.job \in DOMAIN reservations /\ reservations[e.job] = e.node

(* A job is given up only if it never ran (mark_job_failed, db.py:353-354): *)
(* no execution of it is outstanding and no result of it was recorded.      *)
AbandonedNeverRan ==
  \A j \in abandoned :
    j \notin DOMAIN job_results /\ \A e \in Outstanding : e.job # j

Covers(n) == ExecutingCpus(n) <= Count(running_jobs, n)

(* The counted usage of a node covers what is running there, so that no    *)
(* node is given more than it has (reserve_slot, state.py:170-174), on     *)
(* every node that was never removed while a job held something on it.     *)
UsageCoversExecutions ==
  \A n \in registrations \ lapsed : Covers(n)

(* A completion callback never frees resources twice and drifts the        *)
(* accounting below reality, even when it arrives after the node of its    *)
(* job expired (release_slot, state.py:208-210): a node whose usage        *)
(* covered what runs there before a callback releases a slot is still      *)
(* covered after it.                                                       *)
CallbackNeverDrifts ==
  [][ ~(callback_released' \subseteq callback_released)
        => \A n \in registrations : Covers(n) => Covers(n)' ]_vars

(* How far a job is, as JobLifecycle sees it. *)
PhaseOf(j) ==
  CASE j \in DOMAIN job_results                 -> "recorded"
    [] j \in abandoned                          -> "given_up"
    [] \E e \in Reporting : e.job = j            -> "reported"
    [] \E e \in executing : e.job = j            -> "running"
    [] j \in Queued \/ j = held                 -> "waiting"
    [] \E step \in DispatchStep \ {"accepted"} : AtStep(j, step) -> "placed"
    [] j \notin submitted                       -> "new"
    [] OTHER                                    -> "lost"

(* The refinement mapping. *)
phaseBar == [j \in Job |-> PhaseOf(j)]

refusalsBar ==
  [j \in Job |-> IF PhaseOf(j) \in {"waiting", "placed"} THEN Attempts(j) ELSE 0]

Life == INSTANCE JobLifecycle WITH phase <- phaseBar, refusals <- refusalsBar

(* A job goes through its life in order, whatever the threads, agents and  *)
(* losses do (dispatch_job, main.py:116-184; executor.py:69-146): it is    *)
(* accepted once at most, given up only after its last refusal in a row,   *)
(* recorded only after it was reported, and never brought back.  POSTs     *)
(* that are accepted must be seen accepted and transactions succeed.       *)
LifecycleSpec == Life!LifeSpec

(* No accepted job is forgotten: it is waiting, being placed, running,     *)
(* being reported, finished with a result, or given up and logged as such. *)
JobAccounted ==
  \A j \in submitted :
    \/ j \in Queued \/ j = held \/ j \in DOMAIN dispatch
    \/ \E e \in executing \cup Reporting : e.job = j
    \/ j \in DOMAIN job_results \cup abandoned

(* Whoever will give a reserved slot back still exists: a dispatch thread  *)
(* before its release, a running execution, or a report on its way.        *)
NoOrphanReservation ==
  \A j \in DOMAIN reservations :
    \/ j \in DOMAIN dispatch
    \/ \E e \in executing : e.job = j
    \/ \E r \in callback_sent : r.execution.job = j

(* The row of a job with a result is completed or failed.  A row that says *)
(* otherwise is in flight for good and stalls the drain check              *)
(* (dispatch_job, db.py:292-297).                                          *)
ResultReachesRow ==
  \A j \in DOMAIN jobs \cap DOMAIN job_results : jobs[j].status \in Terminal

(* The node could take the job if it had nothing else to do. *)
CouldTake(n, j) ==
  /\ j \in NeedsGpu => n \in HasGpu
  /\ CpuRequest[j] <= Cpus[n] /\ MemRequest[j] <= MemoryMb[n]

(* The dispatcher waits with a job that no node of the cluster can take. *)
Blocked == held # NoJob /\ \A n \in registrations : ~CouldTake(n, held)

(* Every accepted job is settled in the end: it has a result or has been   *)
(* given up after MAX_DISPATCH_ATTEMPTS (config.py:16-18).  Only one thing *)
(* can stop the others: the job at the head of the line that the nodes     *)
(* left in the cluster cannot take (dispatcher_loop, main.py:261-268).     *)
EveryJobSettles ==
  <>[]~Blocked =>
    \A j \in Job : j \in submitted ~> j \in DOMAIN job_results \cup abandoned

(* Every slot taken for a job is given back in the end. *)
EverySlotReturned ==
  \A j \in Job : j \in DOMAIN reservations ~> j \notin DOMAIN reservations
=============================================================================
