--------------------------- MODULE LifecycleProofs ---------------------------
(* What runs on the nodes and where a job and its slot go, for every set   *)
(* of nodes and jobs: a job is executed once, holds its reservation while  *)
(* it runs, and is given up only when it never ran, so that the counted    *)
(* usage of a node covers what runs there; no job is forgotten, no slot    *)
(* loses its owner, and each job goes through its life in the order of     *)
(* JobLifecycle.  Each theorem names the faults it needs to be absent.     *)
EXTENDS SchedulerProofs, FunctionTheorems

(* What the code leaves to chance and the following rests on. *)
AcceptedIsSeen == Faults \cap {"response_lost", "db_error"} = {}

(* Jobs that were accepted by an agent, or given up. *)
Spent == {e.job : e \in Outstanding} \cup DOMAIN job_results \cup abandoned

(* They are never on their way to a node again. *)
SpentIsAway ==
  \A j \in Spent :
    /\ j \in submitted /\ j \notin Queued /\ j # held
    /\ AtStep(j, "accepted") \/ j \notin DOMAIN dispatch

OneEach == \A d, e \in Outstanding : d.job = e.job => d = e

ExecutionInv == SpentIsAway /\ OneEach /\ AbandonedNeverRan

-----------------------------------------------------------------------------
(* A step that moves no job to an agent, gives none up, and at most takes  *)
(* jobs out of the hands of those that hold them.                          *)
LEMMA ExecutionFrame ==
  ASSUME ExecutionInv, Outstanding' \subseteq Outstanding,
         DOMAIN job_results' \subseteq DOMAIN job_results \cup {e.job : e \in Outstanding},
         abandoned' = abandoned, submitted \subseteq submitted',
         \A j \in Spent : /\ j \notin Queued' /\ j # held'
                          /\ AtStep(j, "accepted")' \/ j \notin DOMAIN dispatch'
  PROVE  ExecutionInv'
<1>1. Spent' \subseteq Spent
  BY DEF Spent
<1>2. SpentIsAway'
  BY <1>1 DEF ExecutionInv, SpentIsAway
<1>3. OneEach'
  BY DEF ExecutionInv, OneEach
<1>4. AbandonedNeverRan'
  BY DEF ExecutionInv, AbandonedNeverRan
<1> QED
  BY <1>2, <1>3, <1>4 DEF ExecutionInv

(* A job at the head of a dispatch thread has not been accepted. *)
LEMMA NotSpent ==
  ASSUME ExecutionInv, NEW j, NEW step, AtStep(j, step), step # "accepted"
  PROVE  j \notin Spent
BY DEF ExecutionInv, SpentIsAway, AtStep

LEMMA SpentSubmitted ==
  ASSUME ExecutionInv, PipelineInv
  PROVE  Spent \subseteq submitted /\ Spent \subseteq Job /\ NoJob \notin Spent
BY SchedulerAssumption DEF ExecutionInv, SpentIsAway, PipelineInv, PipelineTypes

-----------------------------------------------------------------------------
LEMMA AcceptExecution ==
  ASSUME ExecutionInv, PipelineInv, NEW j \in Job, PostAccepted(j)
  PROVE  ExecutionInv'
<1>1. /\ AtStep(j, "post")
      /\ executing' = executing \cup {Posted(j)}
      /\ dispatch' = [dispatch EXCEPT ![j].step = "accepted"]
      /\ UNCHANGED <<job_queue, held, submitted, job_results, abandoned, orphaned,
                     callback_sent, callback_released>>
  BY DEF PostAccepted, GoTo, queueVars, storeVars, clientVars, dispatcherVars, reportVars
<1>2. j \notin Spent
  BY <1>1, NotSpent
<1>3. Outstanding' = Outstanding \cup {Posted(j)}
  BY <1>1 DEF Outstanding, Containers, Reporting
<1>4. Posted(j).job = j
  BY DEF Posted
<1>5. Spent' = Spent \cup {j}
  BY <1>1, <1>3, <1>4 DEF Spent
<1>6. /\ j \in submitted /\ j \notin Queued /\ j # held /\ j \in DOMAIN dispatch
  BY <1>1 DEF AtStep, PipelineInv, NoDoublePlacement, OnlySubmitted
<1>7. AtStep(j, "accepted")' /\ \A k : k # j /\ AtStep(k, "accepted") => AtStep(k, "accepted")'
  BY <1>1, <1>6 DEF AtStep, PipelineInv, PipelineTypes
<1>8. Queued' = Queued /\ DOMAIN dispatch' = DOMAIN dispatch
  BY <1>1 DEF Queued
<1>9. SpentIsAway'
  BY <1>1, <1>2, <1>5, <1>6, <1>7, <1>8 DEF ExecutionInv, SpentIsAway
<1>10. \A e \in Outstanding : e.job # j
  BY <1>2 DEF Spent
<1>11. OneEach'
  BY <1>3, <1>4, <1>10 DEF ExecutionInv, OneEach
<1>12. AbandonedNeverRan'
  BY <1>1, <1>2, <1>3, <1>4 DEF ExecutionInv, AbandonedNeverRan, Spent
<1> QED
  BY <1>9, <1>11, <1>12 DEF ExecutionInv

LEMMA AbandonExecution ==
  ASSUME ExecutionInv, PipelineInv, NEW j \in Job, Abandon(j)
  PROVE  ExecutionInv'
<1>1. /\ AtStep(j, "released")
      /\ dispatch' = Pop(dispatch, {j})
      /\ abandoned' = abandoned \cup {j}
      /\ UNCHANGED <<job_queue, held, submitted, job_results, executing, orphaned,
                     callback_sent, callback_released>>
  BY DEF Abandon, EndThread, db_mark_job_failed, clientVars, dispatcherVars, agentVars,
         executionVars, reportVars
<1>2. j \notin Spent
  BY <1>1, NotSpent
<1>3. Outstanding' = Outstanding
  BY <1>1 DEF Outstanding, Containers, Reporting
<1>4. Spent' = Spent \cup {j}
  BY <1>1, <1>3 DEF Spent
<1>5. /\ j \in submitted /\ j \notin Queued /\ j # held
  BY <1>1 DEF AtStep, PipelineInv, NoDoublePlacement, OnlySubmitted
<1>6. /\ DOMAIN dispatch' = DOMAIN dispatch \ {j}
      /\ \A k \in DOMAIN dispatch' : dispatch'[k] = dispatch[k]
  BY <1>1 DEF Pop, Restrict
<1>7. Queued' = Queued
  BY <1>1 DEF Queued
<1>8. SpentIsAway'
  BY <1>1, <1>2, <1>4, <1>5, <1>6, <1>7 DEF ExecutionInv, SpentIsAway, AtStep
<1>9. OneEach'
  BY <1>3 DEF ExecutionInv, OneEach
<1>10. AbandonedNeverRan'
  BY <1>1, <1>2, <1>3 DEF ExecutionInv, AbandonedNeverRan, Spent
<1> QED
  BY <1>8, <1>9, <1>10 DEF ExecutionInv

LEMMA ThreadExecution ==
  ASSUME AcceptedIsSeen, ExecutionInv, PipelineInv, NEW j \in Job, DispatchThread(j)
  PROVE  ExecutionInv'
<1> USE DEF csVars, ledgerVars, queueVars, storeVars, clientVars, dispatcherVars, agentVars,
            executionVars, reportVars
<1>1. ASSUME NEW step \in DispatchStep, NEW to, AtStep(j, step), step # "accepted", GoTo(j, to),
             UNCHANGED <<job_queue, held, submitted, job_results, abandoned, executing,
                         orphaned, callback_sent, callback_released>>
      PROVE  ExecutionInv'
  <2>1. j \notin Spent
    BY <1>1, NotSpent
  <2>2. /\ DOMAIN dispatch' = DOMAIN dispatch
        /\ \A k \in DOMAIN dispatch : k # j => dispatch'[k] = dispatch[k]
    BY <1>1 DEF GoTo
  <2>3. \A k \in Spent : /\ k \notin Queued' /\ k # held'
                         /\ AtStep(k, "accepted")' \/ k \notin DOMAIN dispatch'
    BY <1>1, <2>1, <2>2 DEF ExecutionInv, SpentIsAway, AtStep, Queued
  <2> QED
    BY <1>1, <2>3, ExecutionFrame DEF Outstanding, Containers, Reporting
<1>2. ASSUME EndThread(j),
             UNCHANGED <<job_queue, held, submitted, job_results, abandoned, executing,
                         orphaned, callback_sent, callback_released>>
      PROVE  ExecutionInv'
  <2>1. /\ DOMAIN dispatch' = DOMAIN dispatch \ {j}
        /\ \A k \in DOMAIN dispatch' : dispatch'[k] = dispatch[k]
    BY <1>2 DEF EndThread, Pop, Restrict
  <2>2. \A k \in Spent : /\ k \notin Queued' /\ k # held'
                         /\ AtStep(k, "accepted")' \/ k \notin DOMAIN dispatch'
    BY <1>2, <2>1 DEF ExecutionInv, SpentIsAway, AtStep, Queued
  <2> QED
    BY <1>2, <2>2, ExecutionFrame DEF Outstanding, Containers, Reporting
<1>3. CASE PostAccepted(j)
  BY <1>3, AcceptExecution
<1>4. CASE PostFails(j)
  BY <1>1, <1>4 DEF PostFails, DispatchStep
<1>5. CASE ReleaseFailed(j)
  BY <1>1, <1>5 DEF ReleaseFailed, DispatchStep
<1>6. CASE RecordDispatch(j)
  BY <1>2, <1>6 DEF RecordDispatch, db_dispatch_job
<1>7. CASE Abandon(j)
  BY <1>7, AbandonExecution
<1>8. CASE Requeue(j)
  <2>1. j \notin Spent
    BY <1>8, NotSpent DEF Requeue
  <2>2. Queued' = Queued \cup {j}
    BY <1>8, QueueAppend DEF Requeue, PipelineInv, PipelineTypes
  <2>3. /\ DOMAIN dispatch' = DOMAIN dispatch \ {j}
        /\ \A k \in DOMAIN dispatch' : dispatch'[k] = dispatch[k]
    BY <1>8 DEF Requeue, EndThread, Pop, Restrict
  <2>4. \A k \in Spent : /\ k \notin Queued' /\ k # held'
                         /\ AtStep(k, "accepted")' \/ k \notin DOMAIN dispatch'
    BY <1>8, <2>1, <2>2, <2>3 DEF Requeue, ExecutionInv, SpentIsAway, AtStep
  <2> QED
    BY <1>8, <2>4, ExecutionFrame DEF Requeue, Outstanding, Containers, Reporting
<1>9. CASE PostResponseLost(j) \/ RecordDispatchFails(j) \/ AbandonFails(j)
  BY <1>9 DEF PostResponseLost, RecordDispatchFails, AbandonFails, AcceptedIsSeen
<1> QED
  BY <1>3, <1>4, <1>5, <1>6, <1>7, <1>8, <1>9 DEF DispatchThread

(* Callbacks and containers: what is outstanding is only ever handed on. *)
LEMMA CallbackExecution ==
  ASSUME ExecutionInv, NEW r, Callback(r)
  PROVE  ExecutionInv'
<1> USE DEF queueVars, storeVars, clientVars, dispatcherVars, threadVars, processVars,
            executionVars, Outstanding, Containers, Reporting
<1>1. UNCHANGED <<job_queue, held, submitted, dispatch, abandoned, executing, orphaned>>
  BY DEF Callback, CallbackRelease, CallbackRecord, CallbackRecordFails, LoseCallback
<1>2. \A k \in Spent : /\ k \notin Queued' /\ k # held'
                       /\ AtStep(k, "accepted")' \/ k \notin DOMAIN dispatch'
  BY <1>1 DEF ExecutionInv, SpentIsAway, AtStep, Queued
<1>3. Outstanding' \subseteq Outstanding
  BY <1>1 DEF Callback, CallbackRelease, CallbackRecord, CallbackRecordFails, LoseCallback
<1>4. DOMAIN job_results' \subseteq DOMAIN job_results \cup {e.job : e \in Outstanding}
  BY DEF Callback, CallbackRelease, CallbackRecord, CallbackRecordFails, LoseCallback,
         db_record_job_result
<1> QED
  BY <1>1, <1>2, <1>3, <1>4, ExecutionFrame

LEMMA ContainerExecution ==
  ASSUME ExecutionInv, NEW e, ExecutionStep(e)
  PROVE  ExecutionInv'
<1> USE DEF queueVars, storeVars, clientVars, dispatcherVars, threadVars, processVars,
            reportVars, Outstanding, Containers, Reporting
<1>1. UNCHANGED <<job_queue, held, submitted, dispatch, abandoned, job_results>>
  BY DEF ExecutionStep, FinishExecution, WaitFails, OrphanEnds
<1>2. \A k \in Spent : /\ k \notin Queued' /\ k # held'
                       /\ AtStep(k, "accepted")' \/ k \notin DOMAIN dispatch'
  BY <1>1 DEF ExecutionInv, SpentIsAway, AtStep, Queued
<1>3. Outstanding' \subseteq Outstanding
  BY DEF ExecutionStep, FinishExecution, WaitFails, OrphanEnds
<1> QED
  BY <1>1, <1>2, <1>3, ExecutionFrame

LEMMA ExecutionNext ==
  ASSUME AcceptedIsSeen, ExecutionInv, PipelineInv, [Next]_vars
  PROVE  ExecutionInv'
<1> USE DEF csVars, ledgerVars, queueVars, storeVars, clientVars, dispatcherVars, threadVars,
            agentVars, executionVars, reportVars
<1>1. ASSUME Outstanding' = Outstanding,
             UNCHANGED <<job_queue, held, submitted, dispatch, abandoned, job_results>>
      PROVE  ExecutionInv'
  BY <1>1, ExecutionFrame DEF ExecutionInv, SpentIsAway, AtStep, Queued
<1>2. ASSUME NEW j \in Job, SubmitEnqueue(j) PROVE ExecutionInv'
  <2>1. j \notin Spent
    BY <1>2 DEF SubmitEnqueue, ExecutionInv, SpentIsAway
  <2>2. Queued' = Queued \cup {j}
    BY <1>2, QueueAppend DEF SubmitEnqueue, enqueue_job, PipelineInv, PipelineTypes
  <2>3. \A k \in Spent : /\ k \notin Queued' /\ k # held'
                         /\ AtStep(k, "accepted")' \/ k \notin DOMAIN dispatch'
    BY <1>2, <2>1, <2>2 DEF SubmitEnqueue, ExecutionInv, SpentIsAway, AtStep
  <2> QED
    BY <1>2, <2>3, ExecutionFrame DEF SubmitEnqueue, Outstanding, Containers, Reporting
<1>3. CASE DispatcherDequeue
  <2>1. held' \in Queued /\ Queued' \subseteq Queued
    BY <1>3, QueueTail DEF DispatcherDequeue, dequeue_job, PipelineInv, PipelineTypes,
       NoDoublePlacement
  <2>2. \A k \in Spent : /\ k \notin Queued' /\ k # held'
                         /\ AtStep(k, "accepted")' \/ k \notin DOMAIN dispatch'
    BY <1>3, <2>1 DEF DispatcherDequeue, ExecutionInv, SpentIsAway, AtStep
  <2> QED
    BY <1>3, <2>2, ExecutionFrame DEF DispatcherDequeue, Outstanding, Containers, Reporting
<1>4. CASE DispatcherReserve
  <2>1. /\ held \notin Spent /\ NoJob \notin Spent
    BY SpentSubmitted DEF ExecutionInv, SpentIsAway
  <2>2. /\ DOMAIN dispatch' = DOMAIN dispatch \cup {held}
        /\ \A k \in DOMAIN dispatch : k # held => dispatch'[k] = dispatch[k]
    BY <1>4 DEF DispatcherReserve, Store
  <2>3. \A k \in Spent : /\ k \notin Queued' /\ k # held'
                         /\ AtStep(k, "accepted")' \/ k \notin DOMAIN dispatch'
    BY <1>4, <2>1, <2>2 DEF DispatcherReserve, ExecutionInv, SpentIsAway, AtStep, Queued
  <2> QED
    BY <1>4, <2>3, ExecutionFrame DEF DispatcherReserve, Outstanding, Containers, Reporting
<1>5. CASE DispatcherReserveRefused
  BY <1>1, <1>5 DEF DispatcherReserveRefused, Outstanding, Containers, Reporting
<1>6. ASSUME NEW n, DispatcherSelect(n) PROVE ExecutionInv'
  BY <1>1, <1>6 DEF DispatcherSelect, Outstanding, Containers, Reporting
<1>7. ASSUME NEW j, NEW run, SubmitInsert(j, run) \/ SubmitInsertFails(j) PROVE ExecutionInv'
  BY <1>1, <1>7 DEF SubmitInsert, SubmitInsertFails, db_submit_job, Outstanding, Containers,
     Reporting
<1>8. ASSUME NEW j \in Job, DispatchThread(j) PROVE ExecutionInv'
  BY <1>8, ThreadExecution
<1>9. ASSUME NEW n, AgentStep(n) PROVE ExecutionInv'
  <2>1. UNCHANGED <<job_queue, held, submitted, dispatch, abandoned, job_results,
                    callback_sent, callback_released>>
    BY <1>9 DEF AgentStep, AgentRegister, AgentRegisterFails, AgentServe, AgentHeartbeat,
       AgentCrash
  <2>2. Containers' = Containers
    BY <1>9 DEF AgentStep, AgentRegister, AgentRegisterFails, AgentServe, AgentHeartbeat,
       AgentCrash, Containers
  <2> QED
    BY <1>1, <2>1, <2>2 DEF Outstanding, Reporting
<1>10. ASSUME NEW e, ExecutionStep(e) PROVE ExecutionInv'
  BY <1>10, ContainerExecution
<1>11. ASSUME NEW r, Callback(r) PROVE ExecutionInv'
  BY <1>11, CallbackExecution
<1>12. ASSUME NEW expired, ExpireNodes(expired) PROVE ExecutionInv'
  BY <1>1, <1>12 DEF ExpireNodes, Outstanding, Containers, Reporting
<1>13. CASE UNCHANGED vars
  BY <1>1, <1>13 DEF vars, Outstanding, Containers, Reporting
<1>14. CASE OtherStep
  BY <1>2, <1>3, <1>4, <1>5, <1>7, <1>8, <1>9, <1>10, <1>11, <1>12, <1>14 DEF OtherStep
<1> QED
  BY <1>6, <1>7, <1>13, <1>14 DEF Next

LEMMA ExecutionInit == Init => ExecutionInv
BY DEF Init, QueueInit, StoreInit, NoRows, ExecutionInv, SpentIsAway, OneEach, AbandonedNeverRan, Spent,
       Outstanding, Containers, Reporting

LEMMA ExecutionAlways ==
  ASSUME AcceptedIsSeen
  PROVE  Spec => []ExecutionInv
<1>1. PipelineInv /\ ExecutionInv /\ [Next]_vars => ExecutionInv'
  BY ExecutionNext
<1> QED
  BY <1>1, ExecutionInit, PipelineAlways, PTL DEF Spec

(* A job is executed once at a time, and not placed again meanwhile. *)
THEOREM ExecutedOnce ==
  ASSUME AcceptedIsSeen
  PROVE  Spec => []OneExecution
<1>1. ExecutionInv => OneExecution
  BY DEF ExecutionInv, SpentIsAway, OneEach, OneExecution, Spent
<1> QED
  BY <1>1, ExecutionAlways, PTL

(* A job that was given up never ran. *)
THEOREM GivenUpNeverRan ==
  ASSUME AcceptedIsSeen
  PROVE  Spec => []AbandonedNeverRan
BY ExecutionAlways, PTL DEF ExecutionInv

-----------------------------------------------------------------------------
(* When waiting for a container never fails, a container that runs has not *)
(* been reported, so that its report is the only thing that can release    *)
(* its slot.                                                               *)
WaitSucceeds == "docker_error" \notin Faults

Sent == {r.execution : r \in callback_sent}

ReportedOnce ==
  /\ executing \cap orphaned = {} /\ Containers \cap Sent = {}
  /\ \A r, q \in callback_sent : r.execution = q.execution => r = q

Holding ==
  /\ \A e \in Containers \cup Sent :
       e.job \in DOMAIN reservations /\ reservations[e.job] = e.node
  /\ \A j \in DOMAIN dispatch : dispatch[j].step = "post" =>
       j \in DOMAIN reservations /\ reservations[j] = dispatch[j].node

ReservationInv == ReportedOnce /\ Holding

(* Steps that neither start, end nor report an execution, and take away no *)
(* reservation that is needed.                                             *)
LEMMA ReservationFrame ==
  ASSUME ReservationInv, UNCHANGED <<executing, orphaned, callback_sent>>,
         \A e \in Containers \cup Sent :
           e.job \in DOMAIN reservations' /\ reservations'[e.job] = reservations[e.job],
         \A j \in DOMAIN dispatch' : dispatch'[j].step = "post" =>
           j \in DOMAIN reservations' /\ reservations'[j] = dispatch'[j].node
  PROVE  ReservationInv'
BY DEF ReservationInv, ReportedOnce, Holding, Containers, Sent

(* Releasing the slot of a job that neither runs nor is being posted. *)
LEMMA ReleaseKeeps ==
  ASSUME NEW j, release_slot(j)
  PROVE  \A k \in DOMAIN reservations \ {j} :
           k \in DOMAIN reservations' /\ reservations'[k] = reservations[k]
BY DEF release_slot, Pop, Restrict, csVars, ledgerVars

LEMMA ThreadReservation ==
  ASSUME AcceptedIsSeen, PipelineInv, ExecutionInv, ReservationInv,
         NEW j \in Job, DispatchThread(j)
  PROVE  ReservationInv'
<1> USE DEF csVars, ledgerVars, queueVars, storeVars, clientVars, dispatcherVars, agentVars,
            executionVars, reportVars
<1>1. ASSUME NEW step, GoTo(j, step), step # "post", j \in DOMAIN dispatch,
             UNCHANGED <<reservations, executing, orphaned, callback_sent>>
      PROVE  ReservationInv'
  <2>1. /\ DOMAIN dispatch' = DOMAIN dispatch
        /\ \A k \in DOMAIN dispatch : k # j => dispatch'[k] = dispatch[k]
        /\ dispatch'[j].step = step
    BY <1>1 DEF GoTo, PipelineInv, PipelineTypes
  <2> QED
    BY <1>1, <2>1, ReservationFrame DEF ReservationInv, Holding
<1>2. ASSUME EndThread(j), UNCHANGED <<reservations, executing, orphaned, callback_sent>>
      PROVE  ReservationInv'
  <2>1. /\ DOMAIN dispatch' = DOMAIN dispatch \ {j}
        /\ \A k \in DOMAIN dispatch' : dispatch'[k] = dispatch[k]
    BY <1>2 DEF EndThread, Pop, Restrict
  <2> QED
    BY <1>2, <2>1, ReservationFrame DEF ReservationInv, Holding
<1>3. CASE PostAccepted(j)
  <2>1. /\ AtStep(j, "post")
        /\ executing' = executing \cup {Posted(j)}
        /\ dispatch' = [dispatch EXCEPT ![j].step = "accepted"]
        /\ UNCHANGED <<reservations, orphaned, callback_sent>>
    BY <1>3 DEF PostAccepted, GoTo
  <2>2. \A e \in Containers \cup Sent : e.job # j
    BY <2>1, NotSpent DEF Spent, Outstanding, Reporting, Sent
  <2>3. Posted(j).job = j /\ Posted(j).node = dispatch[j].node
    BY DEF Posted
  <2>4. ReportedOnce'
    BY <2>1, <2>2, <2>3 DEF ReservationInv, ReportedOnce, Containers, Sent
  <2>5. j \in DOMAIN reservations /\ reservations[j] = dispatch[j].node
    BY <2>1 DEF ReservationInv, Holding, AtStep
  <2>6. \A k \in DOMAIN dispatch' : dispatch'[k].step = "post" => dispatch'[k] = dispatch[k]
    BY <2>1 DEF AtStep, PipelineInv, PipelineTypes
  <2>7. Holding'
    BY <2>1, <2>3, <2>5, <2>6 DEF ReservationInv, Holding, Containers, Sent
  <2> QED
    BY <2>4, <2>7 DEF ReservationInv
<1>4. CASE PostFails(j)
  BY <1>1, <1>4 DEF PostFails, AtStep
<1>5. CASE RecordDispatch(j)
  BY <1>2, <1>5 DEF RecordDispatch
<1>6. CASE ReleaseFailed(j)
  <2>1. /\ AtStep(j, "failing") /\ release_slot(j)
        /\ dispatch' = [dispatch EXCEPT ![j].step = "released"]
        /\ UNCHANGED <<executing, orphaned, callback_sent>>
    BY <1>6 DEF ReleaseFailed, GoTo
  <2>2. \A e \in Containers \cup Sent : e.job # j
    BY <2>1, NotSpent DEF Spent, Outstanding, Reporting, Sent
  <2>3. \A k \in DOMAIN dispatch' : dispatch'[k].step = "post" =>
          k \in DOMAIN dispatch \ {j} /\ dispatch'[k] = dispatch[k]
    BY <2>1 DEF AtStep, PipelineInv, PipelineTypes
  <2>4. \A e \in Containers \cup Sent :
          e.job \in DOMAIN reservations' /\ reservations'[e.job] = reservations[e.job]
    BY <2>1, <2>2, ReleaseKeeps DEF ReservationInv, Holding
  <2>5. \A k \in DOMAIN dispatch' : dispatch'[k].step = "post" =>
          k \in DOMAIN reservations' /\ reservations'[k] = dispatch'[k].node
    BY <2>1, <2>3, ReleaseKeeps DEF ReservationInv, Holding
  <2> QED
    BY <2>1, <2>4, <2>5, ReservationFrame
<1>7. CASE Requeue(j) \/ Abandon(j)
  BY <1>2, <1>7 DEF Requeue, Abandon
<1>8. CASE PostResponseLost(j) \/ RecordDispatchFails(j) \/ AbandonFails(j)
  BY <1>8 DEF PostResponseLost, RecordDispatchFails, AbandonFails, AcceptedIsSeen
<1> QED
  BY <1>3, <1>4, <1>5, <1>6, <1>7, <1>8 DEF DispatchThread

LEMMA CallbackReservation ==
  ASSUME ExecutionInv, ReservationInv, NEW r, Callback(r)
  PROVE  ReservationInv'
<1> USE DEF csVars, ledgerVars, queueVars, clientVars, dispatcherVars, threadVars, executionVars
<1>1. CASE CallbackRelease(r)
  <2>1. /\ r \in callback_sent /\ release_slot(r.execution.job)
        /\ callback_sent' = callback_sent \ {r}
        /\ UNCHANGED <<dispatch, executing, orphaned>>
    BY <1>1 DEF CallbackRelease
  <2>2. \A e \in Containers' \cup Sent' : e \in Containers \cup Sent /\ e # r.execution
    BY <2>1 DEF Containers, Sent, ReservationInv, ReportedOnce
  <2>3. \A e \in Containers' \cup Sent' : e.job # r.execution.job
    BY <2>1, <2>2 DEF ExecutionInv, OneEach, Outstanding, Reporting, Sent
  <2>4. ~AtStep(r.execution.job, "post")
    BY <2>1 DEF ExecutionInv, SpentIsAway, Spent, Outstanding, Reporting, AtStep
  <2>5. ReportedOnce'
    BY <2>1 DEF ReservationInv, ReportedOnce, Containers, Sent
  <2>6. Holding'
    BY <2>1, <2>2, <2>3, <2>4, ReleaseKeeps DEF ReservationInv, Holding, AtStep
  <2> QED
    BY <2>5, <2>6 DEF ReservationInv
<1>2. CASE LoseCallback(r)
  BY <1>2 DEF LoseCallback, ReservationInv, ReportedOnce, Holding, Containers, Sent
<1>3. CASE CallbackRecord(r) \/ CallbackRecordFails(r)
  BY <1>3 DEF CallbackRecord, CallbackRecordFails, ReservationInv, ReportedOnce, Holding,
     Containers, Sent
<1> QED
  BY <1>1, <1>2, <1>3 DEF Callback

LEMMA ContainerReservation ==
  ASSUME WaitSucceeds, ReservationInv, NEW e, ExecutionStep(e)
  PROVE  ReservationInv'
<1> USE DEF csVars, ledgerVars, queueVars, clientVars, dispatcherVars, threadVars, processVars,
            reportVars
<1>1. CASE FinishExecution(e)
  <2>1. PICK success \in Outcomes :
          callback_sent' = callback_sent \cup {[execution |-> e, success |-> success]}
    BY <1>1 DEF FinishExecution
  <2>2. /\ e \in executing /\ executing' = executing \ {e}
        /\ UNCHANGED <<orphaned, reservations, dispatch>>
    BY <1>1 DEF FinishExecution
  <2>3. Sent' = Sent \cup {e} /\ e \notin Sent
    <3>1. [execution |-> e, success |-> success].execution = e
      OBVIOUS
    <3>2. Sent' = {r.execution : r \in callback_sent \cup {[execution |-> e, success |-> success]}}
      BY <2>1 DEF Sent
    <3>3. Sent' = Sent \cup {e}
      BY <3>1, <3>2 DEF Sent
    <3> QED
      BY <3>3, <2>2 DEF ReservationInv, ReportedOnce, Containers
  <2>4. ReportedOnce'
    BY <2>1, <2>2, <2>3 DEF ReservationInv, ReportedOnce, Containers, Sent
  <2>5. Holding'
    BY <2>2, <2>3 DEF ReservationInv, Holding, Containers
  <2> QED
    BY <2>4, <2>5 DEF ReservationInv
<1>2. CASE OrphanEnds(e)
  BY <1>2 DEF OrphanEnds, ReservationInv, ReportedOnce, Holding, Containers, Sent
<1>3. CASE WaitFails(e)
  BY <1>3 DEF WaitFails, WaitSucceeds
<1> QED
  BY <1>1, <1>2, <1>3 DEF ExecutionStep

LEMMA ReservationNext ==
  ASSUME AcceptedIsSeen, WaitSucceeds, PipelineInv, ExecutionInv, ReservationInv, [Next]_vars
  PROVE  ReservationInv'
<1> USE DEF csVars, ledgerVars, queueVars, storeVars, clientVars, dispatcherVars, threadVars,
            agentVars, executionVars, reportVars
<1>1. ASSUME UNCHANGED <<reservations, dispatch, executing, orphaned, callback_sent>>
      PROVE  ReservationInv'
  BY <1>1 DEF ReservationInv, ReportedOnce, Holding, Containers, Sent
<1>2. ASSUME NEW j \in Job, SubmitEnqueue(j) PROVE ReservationInv'
  BY <1>1, <1>2 DEF SubmitEnqueue
<1>3. CASE DispatcherDequeue \/ DispatcherReserveRefused
  BY <1>1, <1>3 DEF DispatcherDequeue, DispatcherReserveRefused
<1>4. CASE DispatcherReserve
  <2>1. /\ reserve_slot(selected, held)
        /\ dispatch' = Store(dispatch, held, [node |-> selected, step |-> "post"])
        /\ UNCHANGED <<executing, orphaned, callback_sent>>
    BY <1>4 DEF DispatcherReserve
  <2>2. held \notin DOMAIN reservations
    BY <1>4, ReservePipeline
  <2>3. /\ DOMAIN reservations' = DOMAIN reservations \cup {held}
        /\ reservations'[held] = selected
        /\ \A k \in DOMAIN reservations : reservations'[k] = reservations[k]
    BY <2>1, <2>2 DEF reserve_slot, Store
  <2>4. /\ DOMAIN dispatch' = DOMAIN dispatch \cup {held}
        /\ dispatch'[held].node = selected
        /\ \A k \in DOMAIN dispatch : k # held => dispatch'[k] = dispatch[k]
    BY <2>1 DEF Store
  <2>5. \A e \in Containers \cup Sent :
          e.job \in DOMAIN reservations' /\ reservations'[e.job] = reservations[e.job]
    BY <2>3 DEF ReservationInv, Holding
  <2>6. \A k \in DOMAIN dispatch' : dispatch'[k].step = "post" =>
          k \in DOMAIN reservations' /\ reservations'[k] = dispatch'[k].node
    BY <2>3, <2>4 DEF ReservationInv, Holding
  <2> QED
    BY <2>1, <2>5, <2>6, ReservationFrame
<1>5. ASSUME NEW n, DispatcherSelect(n) PROVE ReservationInv'
  BY <1>1, <1>5 DEF DispatcherSelect
<1>6. ASSUME NEW j, NEW run, SubmitInsert(j, run) \/ SubmitInsertFails(j) PROVE ReservationInv'
  BY <1>1, <1>6 DEF SubmitInsert, SubmitInsertFails
<1>7. ASSUME NEW j \in Job, DispatchThread(j) PROVE ReservationInv'
  BY <1>7, ThreadReservation
<1>8. ASSUME NEW n, AgentStep(n) PROVE ReservationInv'
  <2>1. CASE AgentCrash(n)
    BY <2>1 DEF AgentCrash, ReservationInv, ReportedOnce, Holding, Containers, Sent
  <2>2. CASE AgentRegister(n) \/ AgentRegisterFails(n) \/ AgentServe(n) \/ AgentHeartbeat(n)
    BY <1>1, <2>2 DEF AgentRegister, AgentRegisterFails, AgentServe, AgentHeartbeat,
       register_node, register_heartbeat
  <2> QED
    BY <1>8, <2>1, <2>2 DEF AgentStep
<1>9. ASSUME NEW e, ExecutionStep(e) PROVE ReservationInv'
  BY <1>9, ContainerReservation
<1>10. ASSUME NEW r, Callback(r) PROVE ReservationInv'
  BY <1>10, CallbackReservation
<1>11. ASSUME NEW expired, ExpireNodes(expired) PROVE ReservationInv'
  BY <1>1, <1>11 DEF ExpireNodes, remove_expired_nodes
<1>12. CASE UNCHANGED vars
  BY <1>1, <1>12 DEF vars
<1>13. CASE OtherStep
  BY <1>2, <1>3, <1>4, <1>6, <1>7, <1>8, <1>9, <1>10, <1>11, <1>13 DEF OtherStep
<1> QED
  BY <1>5, <1>6, <1>12, <1>13 DEF Next

LEMMA ReservationAlways ==
  ASSUME AcceptedIsSeen, WaitSucceeds
  PROVE  Spec => []ReservationInv
<1>1. Init => ReservationInv
  BY DEF Init, CSInit, EmptyDict, ReservationInv, ReportedOnce, Holding, Containers, Sent
<1>2. PipelineInv /\ ExecutionInv /\ ReservationInv /\ [Next]_vars => ReservationInv'
  BY ReservationNext
<1> QED
  BY <1>1, <1>2, PipelineAlways, ExecutionAlways, PTL DEF Spec

(* A running job holds its reservation on the node it runs on. *)
THEOREM ReservedWhileItRuns ==
  ASSUME AcceptedIsSeen, WaitSucceeds
  PROVE  Spec => []ReservedWhileRunning
<1>1. ReservationInv => ReservedWhileRunning
  BY DEF ReservationInv, Holding, ReservedWhileRunning
<1> QED
  BY <1>1, ReservationAlways, PTL

-----------------------------------------------------------------------------
(* One running container per job, each backed by a reservation: what runs  *)
(* on a node needs no more cores than the jobs that hold the node asked.   *)
LEMMA RunningIsReserved ==
  ASSUME CSTypeOK, OneExecution, ReservedWhileRunning, NEW n
  PROVE  ExecutingCpus(n) <= ReservedCpus(n)
<1> DEFINE here == {e \in Containers : e.node = n}
           cores == UNION {{e} \X (1 .. CpuRequest[e.job]) : e \in here}
           units == Units(Holders(n), CpuRequest)
           core == [x \in cores |-> <<x[1].job, x[2]>>]
<1>1. \A e \in here : e.job \in Holders(n)
  BY DEF ReservedWhileRunning, Holders
<1>2. \A d, e \in here : d.job = e.job => d = e
  BY DEF OneExecution, Outstanding
<1>3. ASSUME NEW x \in cores
      PROVE  \E e \in here : x[1] = e /\ x[2] \in 1 .. CpuRequest[e.job] /\ x = <<x[1], x[2]>>
  OBVIOUS
<1>4. ASSUME NEW x \in cores PROVE core[x] \in units
  BY <1>1, <1>3, <1>4 DEF Units
<1>5. ASSUME NEW x \in cores, NEW y \in cores, core[x] = core[y] PROVE x = y
  <2>1. x[1].job = y[1].job /\ x[2] = y[2]
    BY <1>5
  <2> QED
    BY <1>2, <1>3, <2>1
<1>6. core \in Injection(cores, units)
  BY <1>4, <1>5, Fun_IsInj
<1>7. IsFiniteSet(units)
  BY ReservedIsNat, UnitsFinite, RequestAssumption
<1> HIDE DEF cores, units, core
<1>8. Cardinality(cores) <= Cardinality(units)
  BY <1>6, <1>7, FS_Injection
<1> QED
  BY <1>8 DEF cores, units, ExecutingCpus, ReservedCpus

(* The counted usage of a node covers what runs there, on every node that  *)
(* was never removed while a job held something on it.                     *)
THEOREM CountsCoverExecutions ==
  ASSUME AcceptedIsSeen, WaitSucceeds
  PROVE  Spec => []UsageCoversExecutions
<1>1. ASSUME CSTypeOK, LedgerExact, OneExecution, ReservedWhileRunning
      PROVE  UsageCoversExecutions
  <2>1. SUFFICES ASSUME NEW n \in registrations \ lapsed PROVE Covers(n)
    BY DEF UsageCoversExecutions
  <2>2. Count(running_jobs, n) = ReservedCpus(n)
    BY <1>1 DEF LedgerExact
  <2> QED
    BY <1>1, <2>2, RunningIsReserved DEF Covers
<1>2. CSTypeOK /\ LedgerExact /\ OneExecution /\ ReservedWhileRunning => UsageCoversExecutions
  BY <1>1
<1> QED
  BY <1>2, SchedulerUsesLedger, CSTypeCorrect, CountsExact, ExecutedOnce, ReservedWhileItRuns, PTL
     DEF LedgerSpec

-----------------------------------------------------------------------------
(* Where a job and its slot go. *)
Running == {e.job : e \in executing}
Reported == {e.job : e \in Reporting}

(* Jobs somebody is still to place, and jobs that got past that. *)
Underway == Queued \cup {held} \cup DOMAIN dispatch
Begun == Running \cup Reported \cup DOMAIN job_results \cup abandoned

-----------------------------------------------------------------------------
(* Nothing that has begun is lost: agents live on, reports arrive and are  *)
(* recorded, and giving up is recorded.                                    *)
NothingLost == Faults \cap {"agent_crash", "callback_lost", "db_error"} = {}

(* JobAccounted is not inductive: that a dispatch thread may end once the  *)
(* agent has accepted the job rests on the job having begun.               *)
AccountInv ==
  /\ submitted \subseteq Underway \cup Begun
  /\ \A j \in DOMAIN dispatch : AtStep(j, "accepted") => j \in Begun

(* A job only leaves the hands of those who place it when it has begun. *)
LEMMA AccountFrame ==
  ASSUME AccountInv, Begun \subseteq Begun',
         submitted' \subseteq submitted \cup Underway',
         submitted \cap Underway \subseteq Underway' \cup Begun',
         \A j \in DOMAIN dispatch' : AtStep(j, "accepted")' =>
           j \in Begun' \/ (j \in DOMAIN dispatch /\ AtStep(j, "accepted"))
  PROVE  AccountInv'
BY DEF AccountInv

(* What has begun goes on, is reported and gets its result. *)
LEMMA BegunGoesOn ==
  ASSUME NothingLost, [Next]_vars
  PROVE  Begun \subseteq Begun'
<1> USE DEF csVars, ledgerVars, queueVars, storeVars, clientVars, dispatcherVars, threadVars,
            agentVars, processVars, executionVars, reportVars, Begun, Running, Reported, Reporting
<1>1. CASE UNCHANGED <<executing, reportVars, job_results, abandoned>>
  BY <1>1
<1>2. ASSUME NEW j, NEW run, SubmitEnqueue(j) \/ SubmitInsertFails(j) \/ SubmitInsert(j, run)
      PROVE  Begun \subseteq Begun'
  BY <1>1, <1>2 DEF SubmitEnqueue, SubmitInsertFails, SubmitInsert, db_submit_job
<1>3. CASE DispatcherDequeue \/ DispatcherReserve \/ DispatcherReserveRefused
  BY <1>1, <1>3 DEF DispatcherDequeue, DispatcherReserve, DispatcherReserveRefused
<1>4. ASSUME NEW n, DispatcherSelect(n) PROVE Begun \subseteq Begun'
  BY <1>1, <1>4 DEF DispatcherSelect
<1>5. ASSUME NEW j, DispatchThread(j) PROVE Begun \subseteq Begun'
  BY <1>5 DEF DispatchThread, PostAccepted, PostFails, PostResponseLost, RecordDispatch,
     RecordDispatchFails, ReleaseFailed, Requeue, Abandon, AbandonFails, db_dispatch_job,
     db_mark_job_failed
<1>6. ASSUME NEW n, AgentStep(n) PROVE Begun \subseteq Begun'
  BY <1>1, <1>6 DEF AgentStep, AgentRegister, AgentRegisterFails, AgentServe, AgentHeartbeat,
     AgentCrash, NothingLost
<1>7. ASSUME NEW e, ExecutionStep(e) PROVE Begun \subseteq Begun'
  <2>1. ASSUME NEW success, e \in executing, executing' = executing \ {e},
               callback_sent' = callback_sent \cup {[execution |-> e, success |-> success]},
               UNCHANGED <<callback_released, job_results, abandoned>>
        PROVE  Begun \subseteq Begun'
    <3>1. [execution |-> e, success |-> success].execution = e
      OBVIOUS
    <3>2. e \in Reporting' /\ Reporting \subseteq Reporting'
      BY <2>1, <3>1
    <3> QED
      BY <2>1, <3>2
  <2>2. CASE FinishExecution(e)
    BY <2>1, <2>2 DEF FinishExecution
  <2>3. CASE WaitFails(e)
    BY <2>1, <2>3 DEF WaitFails
  <2>4. CASE OrphanEnds(e)
    BY <1>1, <2>4 DEF OrphanEnds
  <2> QED
    BY <1>7, <2>2, <2>3, <2>4 DEF ExecutionStep
<1>8. ASSUME NEW r, Callback(r) PROVE Begun \subseteq Begun'
  <2>1. CASE CallbackRelease(r)
    BY <2>1 DEF CallbackRelease
  <2>2. CASE CallbackRecord(r)
    BY <2>2 DEF CallbackRecord, db_record_job_result
  <2> QED
    BY <1>8, <2>1, <2>2 DEF Callback, LoseCallback, CallbackRecordFails, NothingLost
<1>9. ASSUME NEW expired, ExpireNodes(expired) PROVE Begun \subseteq Begun'
  BY <1>1, <1>9 DEF ExpireNodes
<1>10. CASE UNCHANGED vars
  BY <1>1, <1>10 DEF vars
<1>11. CASE OtherStep
  BY <1>2, <1>3, <1>5, <1>6, <1>7, <1>8, <1>9, <1>11 DEF OtherStep
<1> QED
  BY <1>2, <1>4, <1>10, <1>11 DEF Next

LEMMA AccountThread ==
  ASSUME NothingLost, PipelineInv, AccountInv, NEW j \in Job, DispatchThread(j),
         Begun \subseteq Begun'
  PROVE  AccountInv'
<1> USE DEF csVars, ledgerVars, queueVars, storeVars, clientVars, dispatcherVars, agentVars
<1>1. ASSUME NEW step, GoTo(j, step), step = "accepted" => j \in Begun',
             UNCHANGED <<job_queue, held, submitted>>
      PROVE  AccountInv'
  <2>1. /\ DOMAIN dispatch' = DOMAIN dispatch
        /\ \A k \in DOMAIN dispatch : k # j => dispatch'[k] = dispatch[k]
        /\ j \in DOMAIN dispatch => dispatch'[j].step = step
    BY <1>1 DEF GoTo, PipelineInv, PipelineTypes
  <2>2. Underway' = Underway
    BY <1>1, <2>1 DEF Underway, Queued
  <2>3. \A k \in DOMAIN dispatch' : AtStep(k, "accepted")' =>
          k \in Begun' \/ (k \in DOMAIN dispatch /\ AtStep(k, "accepted"))
    BY <1>1, <2>1 DEF AtStep
  <2> QED
    BY <1>1, <2>2, <2>3, AccountFrame
<1>2. ASSUME EndThread(j), UNCHANGED <<held, submitted>>, Queued \subseteq Queued',
             j \in Begun' \cup Queued'
      PROVE  AccountInv'
  <2>1. /\ DOMAIN dispatch' = DOMAIN dispatch \ {j}
        /\ \A k \in DOMAIN dispatch' : dispatch'[k] = dispatch[k]
    BY <1>2 DEF EndThread, Pop, Restrict
  <2>2. Underway \subseteq Underway' \cup Begun'
    BY <1>2, <2>1 DEF Underway
  <2>3. \A k \in DOMAIN dispatch' : AtStep(k, "accepted")' =>
          k \in Begun' \/ (k \in DOMAIN dispatch /\ AtStep(k, "accepted"))
    BY <2>1 DEF AtStep
  <2> QED
    BY <1>2, <2>2, <2>3, AccountFrame
<1>3. CASE PostAccepted(j)
  <2>1. Posted(j) \in executing' /\ Posted(j).job = j
    BY <1>3 DEF PostAccepted, Posted
  <2>2. j \in Begun'
    BY <2>1 DEF Begun, Running
  <2> QED
    BY <1>1, <1>3, <2>2 DEF PostAccepted
<1>4. CASE PostFails(j) \/ PostResponseLost(j) \/ ReleaseFailed(j)
  BY <1>1, <1>4 DEF PostFails, PostResponseLost, ReleaseFailed
<1>5. CASE RecordDispatch(j)
  <2>1. j \in Begun'
    BY <1>5 DEF RecordDispatch, AccountInv, AtStep
  <2> QED
    BY <1>2, <1>5, <2>1 DEF RecordDispatch, Queued
<1>6. CASE Abandon(j)
  <2>1. j \in Begun'
    BY <1>6 DEF Abandon, Begun
  <2> QED
    BY <1>2, <1>6, <2>1 DEF Abandon, Queued
<1>7. CASE Requeue(j)
  <2>1. Queued' = Queued \cup {j}
    BY <1>7, QueueAppend DEF Requeue, PipelineInv, PipelineTypes
  <2> QED
    BY <1>2, <1>7, <2>1 DEF Requeue
<1>8. CASE RecordDispatchFails(j) \/ AbandonFails(j)
  BY <1>8 DEF RecordDispatchFails, AbandonFails, NothingLost
<1> QED
  BY <1>3, <1>4, <1>5, <1>6, <1>7, <1>8 DEF DispatchThread

LEMMA AccountNext ==
  ASSUME NothingLost, PipelineInv, AccountInv, [Next]_vars
  PROVE  AccountInv'
<1> USE DEF csVars, ledgerVars, queueVars, storeVars, clientVars, dispatcherVars, threadVars,
            agentVars, processVars, executionVars, reportVars
<1>1. Begun \subseteq Begun'
  BY BegunGoesOn
<1>2. ASSUME UNCHANGED <<job_queue, held, submitted, dispatch>> PROVE AccountInv'
  BY <1>1, <1>2, AccountFrame DEF Underway, Queued, AtStep
<1>3. ASSUME NEW j \in Job, SubmitEnqueue(j) PROVE AccountInv'
  <2>1. Queued' = Queued \cup {j}
    BY <1>3, QueueAppend DEF SubmitEnqueue, enqueue_job, PipelineInv, PipelineTypes
  <2> QED
    BY <1>1, <1>3, <2>1, AccountFrame DEF SubmitEnqueue, Underway, AtStep
<1>4. CASE DispatcherDequeue
  <2>1. Queued' = Queued \ {held'}
    BY <1>4, QueueTail DEF DispatcherDequeue, dequeue_job, PipelineInv, PipelineTypes,
       NoDoublePlacement
  <2>2. held \notin submitted
    BY <1>4, SchedulerAssumption DEF DispatcherDequeue, PipelineInv, PipelineTypes
  <2> QED
    BY <1>1, <1>4, <2>1, <2>2, AccountFrame DEF DispatcherDequeue, Underway, AtStep
<1>5. CASE DispatcherReserve
  <2>1. /\ DOMAIN dispatch' = DOMAIN dispatch \cup {held}
        /\ dispatch'[held].step = "post"
        /\ \A k \in DOMAIN dispatch : k # held => dispatch'[k] = dispatch[k]
    BY <1>5 DEF DispatcherReserve, Store
  <2>2. \A k \in DOMAIN dispatch' : AtStep(k, "accepted")' =>
          k \in DOMAIN dispatch /\ AtStep(k, "accepted")
    BY <2>1 DEF AtStep
  <2>3. Underway \subseteq Underway'
    BY <1>5, <2>1 DEF DispatcherReserve, Underway, Queued
  <2> QED
    BY <1>1, <1>5, <2>2, <2>3, AccountFrame DEF DispatcherReserve
<1>6. CASE DispatcherReserveRefused
  BY <1>2, <1>6 DEF DispatcherReserveRefused
<1>7. ASSUME NEW n, DispatcherSelect(n) PROVE AccountInv'
  BY <1>2, <1>7 DEF DispatcherSelect
<1>8. ASSUME NEW j, NEW run, SubmitInsert(j, run) \/ SubmitInsertFails(j) PROVE AccountInv'
  BY <1>2, <1>8 DEF SubmitInsert, SubmitInsertFails
<1>9. ASSUME NEW j \in Job, DispatchThread(j) PROVE AccountInv'
  BY <1>1, <1>9, AccountThread
<1>10. ASSUME NEW n, AgentStep(n) PROVE AccountInv'
  BY <1>2, <1>10 DEF AgentStep, AgentRegister, AgentRegisterFails, AgentServe, AgentHeartbeat,
     AgentCrash
<1>11. ASSUME NEW e, ExecutionStep(e) PROVE AccountInv'
  BY <1>2, <1>11 DEF ExecutionStep, FinishExecution, WaitFails, OrphanEnds
<1>12. ASSUME NEW r, Callback(r) PROVE AccountInv'
  BY <1>2, <1>12 DEF Callback, CallbackRelease, CallbackRecord, CallbackRecordFails,
     LoseCallback
<1>13. ASSUME NEW expired, ExpireNodes(expired) PROVE AccountInv'
  BY <1>2, <1>13 DEF ExpireNodes
<1>14. CASE UNCHANGED vars
  BY <1>2, <1>14 DEF vars
<1>15. CASE OtherStep
  BY <1>3, <1>4, <1>5, <1>6, <1>8, <1>9, <1>10, <1>11, <1>12, <1>13, <1>15 DEF OtherStep
<1> QED
  BY <1>7, <1>8, <1>14, <1>15 DEF Next

(* No accepted job is forgotten. *)
THEOREM NoJobForgotten ==
  ASSUME NothingLost
  PROVE  Spec => []JobAccounted
<1>1. Init => AccountInv
  BY DEF Init, EmptyDict, AccountInv
<1>2. PipelineInv /\ AccountInv /\ [Next]_vars => AccountInv'
  BY AccountNext
<1>3. AccountInv => JobAccounted
  BY DEF AccountInv, Underway, Begun, Running, Reported, JobAccounted
<1> QED
  BY <1>1, <1>2, <1>3, PipelineAlways, PTL DEF Spec

-----------------------------------------------------------------------------
(* Agents live on and reports arrive. *)
ReportsArrive == Faults \cap {"agent_crash", "callback_lost"} = {}

(* Whoever reports a job gives its slot back. *)
Owned(j) ==
  \/ \E e \in executing : e.job = j
  \/ \E r \in callback_sent : r.execution.job = j

(* A dispatch thread gives the slot of its job back until the agent has    *)
(* accepted the job; from then on the slot is the execution's.             *)
SlotInv ==
  \A j \in DOMAIN reservations : Owned(j) \/ (j \in DOMAIN dispatch /\ ~AtStep(j, "accepted"))

LEMMA SlotFrame ==
  ASSUME SlotInv, DOMAIN reservations' \subseteq DOMAIN reservations,
         \A j \in DOMAIN reservations' : Owned(j) => Owned(j)',
         \A j \in DOMAIN reservations' : j \in DOMAIN dispatch /\ ~AtStep(j, "accepted") =>
           Owned(j)' \/ (j \in DOMAIN dispatch' /\ ~AtStep(j, "accepted")')
  PROVE  SlotInv'
BY DEF SlotInv

LEMMA SlotThread ==
  ASSUME PipelineInv, SlotInv, NEW j \in Job, DispatchThread(j)
  PROVE  SlotInv'
<1> USE DEF csVars, ledgerVars, queueVars, storeVars, clientVars, dispatcherVars, agentVars,
            executionVars, reportVars
<1>1. ASSUME NEW step, GoTo(j, step), step = "accepted" => Owned(j)',
             executing \subseteq executing', UNCHANGED callback_sent,
             DOMAIN reservations' \subseteq DOMAIN reservations
      PROVE  SlotInv'
  <2>1. /\ DOMAIN dispatch' = DOMAIN dispatch
        /\ \A k \in DOMAIN dispatch : k # j => dispatch'[k] = dispatch[k]
        /\ j \in DOMAIN dispatch => dispatch'[j].step = step
    BY <1>1 DEF GoTo, PipelineInv, PipelineTypes
  <2>2. \A k : Owned(k) => Owned(k)'
    BY <1>1 DEF Owned
  <2>3. \A k \in DOMAIN reservations' : k \in DOMAIN dispatch /\ ~AtStep(k, "accepted") =>
          Owned(k)' \/ (k \in DOMAIN dispatch' /\ ~AtStep(k, "accepted")')
    BY <1>1, <2>1 DEF AtStep
  <2> QED
    BY <1>1, <2>2, <2>3, SlotFrame
<1>2. ASSUME EndThread(j), UNCHANGED <<executing, callback_sent, reservations>>,
             AtStep(j, "accepted") \/ j \notin DOMAIN reservations
      PROVE  SlotInv'
  <2>1. /\ DOMAIN dispatch' = DOMAIN dispatch \ {j}
        /\ \A k \in DOMAIN dispatch' : dispatch'[k] = dispatch[k]
    BY <1>2 DEF EndThread, Pop, Restrict
  <2>2. \A k : Owned(k) => Owned(k)'
    BY <1>2 DEF Owned
  <2>3. \A k \in DOMAIN reservations' : k \in DOMAIN dispatch /\ ~AtStep(k, "accepted") =>
          k \in DOMAIN dispatch' /\ ~AtStep(k, "accepted")'
    BY <1>2, <2>1 DEF AtStep
  <2> QED
    BY <1>2, <2>2, <2>3, SlotFrame
<1>3. CASE PostAccepted(j)
  <2>1. Posted(j) \in executing' /\ Posted(j).job = j
    BY <1>3 DEF PostAccepted, Posted
  <2>2. Owned(j)'
    BY <2>1 DEF Owned
  <2> QED
    BY <1>1, <1>3, <2>2 DEF PostAccepted
<1>4. CASE PostFails(j) \/ PostResponseLost(j) \/ RecordDispatchFails(j)
  BY <1>1, <1>4 DEF PostFails, PostResponseLost, RecordDispatchFails
<1>5. CASE ReleaseFailed(j)
  BY <1>1, <1>5, ReleaseShrinks DEF ReleaseFailed
<1>6. CASE RecordDispatch(j)
  BY <1>2, <1>6 DEF RecordDispatch
<1>7. CASE Requeue(j) \/ Abandon(j) \/ AbandonFails(j)
  <2>1. j \notin DOMAIN reservations
    BY <1>7 DEF Requeue, Abandon, AbandonFails, PipelineInv, WaitingHoldsNothing
  <2> QED
    BY <1>2, <1>7, <2>1 DEF Requeue, Abandon, AbandonFails
<1> QED
  BY <1>3, <1>4, <1>5, <1>6, <1>7 DEF DispatchThread

(* An execution hands its slot to its report, and the report returns it. *)
LEMMA SlotExecution ==
  ASSUME SlotInv, NEW e, ExecutionStep(e)
  PROVE  SlotInv'
<1> USE DEF csVars, ledgerVars, threadVars, executionVars, reportVars
<1>1. UNCHANGED <<dispatch, reservations>>
  BY DEF ExecutionStep, FinishExecution, WaitFails, OrphanEnds
<1>2. ASSUME NEW success, executing' = executing \ {e},
             callback_sent' = callback_sent \cup {[execution |-> e, success |-> success]},
             NEW j, Owned(j)
      PROVE  Owned(j)'
  <2>1. [execution |-> e, success |-> success].execution = e
    OBVIOUS
  <2> QED
    BY <1>2, <2>1 DEF Owned
<1>3. \A j : Owned(j) => Owned(j)'
  <2>1. CASE FinishExecution(e) \/ WaitFails(e)
    BY <1>2, <2>1 DEF FinishExecution, WaitFails
  <2>2. CASE OrphanEnds(e)
    BY <2>2 DEF OrphanEnds, Owned
  <2> QED
    BY <2>1, <2>2 DEF ExecutionStep
<1> QED
  BY <1>1, <1>3, SlotFrame DEF AtStep

LEMMA SlotCallback ==
  ASSUME ReportsArrive, SlotInv, NEW r, Callback(r)
  PROVE  SlotInv'
<1> USE DEF csVars, ledgerVars, threadVars, executionVars, reportVars
<1>1. UNCHANGED <<dispatch, executing>>
  BY DEF Callback, CallbackRelease, CallbackRecord, CallbackRecordFails, LoseCallback
<1>2. CASE CallbackRelease(r)
  <2>1. DOMAIN reservations' = DOMAIN reservations \ {r.execution.job}
    BY <1>2, ReleaseShrinks DEF CallbackRelease
  <2>2. \A j \in DOMAIN reservations' : Owned(j) => Owned(j)'
    BY <1>1, <1>2, <2>1 DEF CallbackRelease, Owned
  <2> QED
    BY <1>1, <2>1, <2>2, SlotFrame DEF AtStep
<1>3. CASE CallbackRecord(r) \/ CallbackRecordFails(r)
  BY <1>1, <1>3, SlotFrame DEF CallbackRecord, CallbackRecordFails, Owned, AtStep
<1>4. ~LoseCallback(r)
  BY DEF LoseCallback, ReportsArrive
<1> QED
  BY <1>2, <1>3, <1>4 DEF Callback

LEMMA SlotNext ==
  ASSUME ReportsArrive, PipelineInv, SlotInv, [Next]_vars
  PROVE  SlotInv'
<1> USE DEF csVars, ledgerVars, queueVars, storeVars, clientVars, dispatcherVars, threadVars,
            agentVars, processVars, executionVars, reportVars
<1>1. ASSUME UNCHANGED <<reservations, dispatch, executing, callback_sent>> PROVE SlotInv'
  BY <1>1, SlotFrame DEF Owned, AtStep
<1>2. ASSUME NEW j, NEW run, SubmitEnqueue(j) \/ SubmitInsertFails(j) \/ SubmitInsert(j, run)
      PROVE  SlotInv'
  BY <1>1, <1>2 DEF SubmitEnqueue, SubmitInsertFails, SubmitInsert
<1>3. CASE DispatcherDequeue \/ DispatcherReserveRefused
  BY <1>1, <1>3 DEF DispatcherDequeue, DispatcherReserveRefused
<1>4. CASE DispatcherReserve
  <2>1. DOMAIN reservations' = DOMAIN reservations \cup {held}
    BY <1>4 DEF DispatcherReserve, reserve_slot, Store
  <2>2. /\ DOMAIN dispatch' = DOMAIN dispatch \cup {held}
        /\ dispatch'[held].step = "post"
        /\ \A k \in DOMAIN dispatch : k # held => dispatch'[k] = dispatch[k]
    BY <1>4 DEF DispatcherReserve, Store
  <2>3. \A j : Owned(j) => Owned(j)'
    BY <1>4 DEF DispatcherReserve, Owned
  <2> QED
    BY <2>1, <2>2, <2>3 DEF SlotInv, AtStep
<1>5. ASSUME NEW n, DispatcherSelect(n) PROVE SlotInv'
  BY <1>1, <1>5 DEF DispatcherSelect
<1>6. ASSUME NEW j \in Job, DispatchThread(j) PROVE SlotInv'
  BY <1>6, SlotThread
<1>7. ASSUME NEW n, AgentStep(n) PROVE SlotInv'
  BY <1>1, <1>7 DEF AgentStep, AgentRegister, AgentRegisterFails, AgentServe, AgentHeartbeat,
     AgentCrash, register_node, register_heartbeat, ReportsArrive
<1>8. ASSUME NEW e, ExecutionStep(e) PROVE SlotInv'
  BY <1>8, SlotExecution
<1>9. ASSUME NEW r, Callback(r) PROVE SlotInv'
  BY <1>9, SlotCallback
<1>10. ASSUME NEW expired, ExpireNodes(expired) PROVE SlotInv'
  BY <1>1, <1>10 DEF ExpireNodes, remove_expired_nodes
<1>11. CASE UNCHANGED vars
  BY <1>1, <1>11 DEF vars
<1>12. CASE OtherStep
  BY <1>2, <1>3, <1>4, <1>6, <1>7, <1>8, <1>9, <1>10, <1>12 DEF OtherStep
<1> QED
  BY <1>2, <1>5, <1>11, <1>12 DEF Next

(* Whoever will give a reserved slot back still exists. *)
THEOREM NoSlotOrphaned ==
  ASSUME ReportsArrive
  PROVE  Spec => []NoOrphanReservation
<1>1. Init => SlotInv
  BY DEF Init, CSInit, EmptyDict, SlotInv
<1>2. PipelineInv /\ SlotInv /\ [Next]_vars => SlotInv'
  BY SlotNext
<1>3. SlotInv => NoOrphanReservation
  BY DEF SlotInv, Owned, NoOrphanReservation
<1> QED
  BY <1>1, <1>2, <1>3, PipelineAlways, PTL DEF Spec

-----------------------------------------------------------------------------
(* An execution is running or reported, is reported once, and is over when *)
(* its job has a result; only submitted jobs have failed dispatches.       *)
Stages ==
  /\ executing \cap Reporting = {}
  /\ callback_sent \cap callback_released = {}
  /\ \A r, q \in callback_sent \cup callback_released : r.execution = q.execution => r = q
  /\ \A e \in executing \cup Reporting : e.job \notin DOMAIN job_results
  /\ DOMAIN dispatch_attempts \subseteq submitted

LifeInv == SchedulerInv /\ ExecutionInv /\ Stages

LEMMA StagesThread ==
  ASSUME AcceptedIsSeen, PipelineInv, ExecutionInv, Stages, NEW j \in Job, DispatchThread(j)
  PROVE  Stages'
<1> USE DEF queueVars, storeVars, clientVars, dispatcherVars, agentVars, executionVars, reportVars
<1>1. UNCHANGED <<submitted, job_results, callback_sent, callback_released>>
  BY DEF DispatchThread, PostAccepted, PostFails, PostResponseLost, RecordDispatch,
     RecordDispatchFails, ReleaseFailed, Requeue, Abandon, AbandonFails, db_dispatch_job,
     db_mark_job_failed
<1>2. j \in submitted
  BY DEF DispatchThread, PostAccepted, PostFails, PostResponseLost, RecordDispatch,
     RecordDispatchFails, ReleaseFailed, Requeue, Abandon, AbandonFails, AtStep, PipelineInv,
     OnlySubmitted
<1>3. DOMAIN dispatch_attempts' \subseteq DOMAIN dispatch_attempts \cup {j}
  BY DEF DispatchThread, PostAccepted, PostFails, PostResponseLost, RecordDispatch,
     RecordDispatchFails, ReleaseFailed, Requeue, Abandon, AbandonFails,
     forget_dispatch_attempts, record_dispatch_failure
<1>4. CASE PostAccepted(j)
  <2>1. /\ executing' = executing \cup {Posted(j)} /\ Posted(j).job = j
    BY <1>4 DEF PostAccepted, Posted
  <2>2. j \notin Spent
    BY <1>4, NotSpent DEF PostAccepted
  <2>3. \A e \in Reporting : e.job # j
    BY <2>2 DEF Spent, Outstanding
  <2>4. j \notin DOMAIN job_results
    BY <2>2 DEF Spent
  <2> QED
    BY <1>1, <1>2, <1>3, <2>1, <2>3, <2>4 DEF Stages, Reporting
<1>5. CASE ~PostAccepted(j)
  <2>1. executing' = executing
    BY <1>5 DEF DispatchThread, PostFails, PostResponseLost, RecordDispatch,
       RecordDispatchFails, ReleaseFailed, Requeue, Abandon, AbandonFails, AcceptedIsSeen
  <2> QED
    BY <1>1, <1>2, <1>3, <2>1 DEF Stages, Reporting
<1> QED
  BY <1>4, <1>5

LEMMA StagesExecution ==
  ASSUME Stages, NEW e, ExecutionStep(e)
  PROVE  Stages'
<1> USE DEF queueVars, storeVars, clientVars, dispatcherVars, executionVars, reportVars
<1>1. UNCHANGED <<submitted, dispatch_attempts, job_results, callback_released>>
  BY DEF ExecutionStep, FinishExecution, WaitFails, OrphanEnds
<1>2. ASSUME NEW success, e \in executing, executing' = executing \ {e},
             callback_sent' = callback_sent \cup {[execution |-> e, success |-> success]}
      PROVE  Stages'
  <2> DEFINE report == [execution |-> e, success |-> success]
  <2>1. report.execution = e
    OBVIOUS
  <2>2. \A r \in callback_sent \cup callback_released : r.execution # e
    BY <1>2 DEF Stages, Reporting
  <2> HIDE DEF report
  <2>3. Reporting' = Reporting \cup {e}
    BY <1>1, <1>2, <2>1 DEF Reporting, report
  <2>4. callback_sent' \cap callback_released' = {}
    BY <1>1, <1>2, <2>1, <2>2 DEF Stages, report
  <2>5. \A r, q \in callback_sent' \cup callback_released' : r.execution = q.execution => r = q
    BY <1>1, <1>2, <2>1, <2>2 DEF Stages, report
  <2> QED
    BY <1>1, <1>2, <2>3, <2>4, <2>5 DEF Stages
<1>3. CASE FinishExecution(e) \/ WaitFails(e)
  BY <1>2, <1>3 DEF FinishExecution, WaitFails
<1>4. CASE OrphanEnds(e)
  BY <1>1, <1>4 DEF OrphanEnds, Stages, Reporting
<1> QED
  BY <1>3, <1>4 DEF ExecutionStep

(* The report that is recorded is the only one of its job. *)
LEMMA RecordedLast ==
  ASSUME ExecutionInv, Stages, NEW r, CallbackRecord(r)
  PROVE  /\ \A e \in executing \cup Reporting' : e.job # r.execution.job
         /\ Reporting' \subseteq Reporting
<1>1. /\ r \in callback_released /\ callback_released' = callback_released \ {r}
      /\ UNCHANGED callback_sent
  BY DEF CallbackRecord
<1>2. r.execution \in Reporting /\ r.execution \notin executing
  BY <1>1 DEF Reporting, Stages
<1>3. \A e \in executing \cup Reporting : e.job = r.execution.job => e = r.execution
  BY <1>2 DEF ExecutionInv, OneEach, Outstanding, Containers
<1>4. r.execution \notin Reporting' /\ Reporting' \subseteq Reporting
  BY <1>1 DEF Reporting, Stages
<1> QED
  BY <1>2, <1>3, <1>4

LEMMA StagesCallback ==
  ASSUME ExecutionInv, Stages, NEW r, Callback(r)
  PROVE  Stages'
<1> USE DEF queueVars, storeVars, clientVars, dispatcherVars, executionVars, reportVars
<1>1. UNCHANGED <<submitted, dispatch_attempts, executing>>
  BY DEF Callback, CallbackRelease, CallbackRecord, CallbackRecordFails, LoseCallback
<1>2. CASE CallbackRelease(r)
  BY <1>1, <1>2 DEF CallbackRelease, Stages, Reporting
<1>3. CASE CallbackRecord(r)
  <2>1. /\ DOMAIN job_results' = DOMAIN job_results \cup {r.execution.job}
        /\ callback_released' = callback_released \ {r}
        /\ callback_sent' = callback_sent
    BY <1>3 DEF CallbackRecord, db_record_job_result
  <2>2. /\ \A e \in executing \cup Reporting' : e.job # r.execution.job
        /\ Reporting' \subseteq Reporting
    BY <1>3, RecordedLast
  <2>3. executing' \cap Reporting' = {}
    BY <1>1, <2>2 DEF Stages
  <2>4. \A e \in executing' \cup Reporting' : e.job \notin DOMAIN job_results'
    BY <1>1, <2>1, <2>2 DEF Stages
  <2> QED
    BY <1>1, <2>1, <2>3, <2>4 DEF Stages
<1>4. CASE CallbackRecordFails(r) \/ LoseCallback(r)
  BY <1>1, <1>4 DEF CallbackRecordFails, LoseCallback, Stages, Reporting
<1> QED
  BY <1>2, <1>3, <1>4 DEF Callback

LEMMA StagesNext ==
  ASSUME AcceptedIsSeen, PipelineInv, ExecutionInv, Stages, [Next]_vars
  PROVE  Stages'
<1> USE DEF csVars, ledgerVars, queueVars, storeVars, clientVars, dispatcherVars, threadVars,
            agentVars, executionVars, reportVars
<1>1. ASSUME submitted \subseteq submitted',
             UNCHANGED <<dispatch_attempts, job_results, executing, callback_sent,
                         callback_released>>
      PROVE  Stages'
  BY <1>1 DEF Stages, Reporting
<1>2. ASSUME NEW j, NEW run, SubmitEnqueue(j) \/ SubmitInsertFails(j) \/ SubmitInsert(j, run)
      PROVE  Stages'
  BY <1>1, <1>2 DEF SubmitEnqueue, enqueue_job, SubmitInsertFails, SubmitInsert, db_submit_job
<1>3. CASE DispatcherDequeue \/ DispatcherReserve \/ DispatcherReserveRefused
  BY <1>1, <1>3 DEF DispatcherDequeue, dequeue_job, DispatcherReserve, DispatcherReserveRefused
<1>4. ASSUME NEW n, DispatcherSelect(n) PROVE Stages'
  BY <1>1, <1>4 DEF DispatcherSelect
<1>5. ASSUME NEW j \in Job, DispatchThread(j) PROVE Stages'
  BY <1>5, StagesThread
<1>6. ASSUME NEW n, AgentStep(n) PROVE Stages'
  <2>1. CASE AgentCrash(n)
    BY <2>1 DEF AgentCrash, Stages, Reporting
  <2>2. CASE AgentRegister(n) \/ AgentRegisterFails(n) \/ AgentServe(n) \/ AgentHeartbeat(n)
    BY <1>1, <2>2 DEF AgentRegister, AgentRegisterFails, AgentServe, AgentHeartbeat
  <2> QED
    BY <1>6, <2>1, <2>2 DEF AgentStep
<1>7. ASSUME NEW e, ExecutionStep(e) PROVE Stages'
  BY <1>7, StagesExecution
<1>8. ASSUME NEW r, Callback(r) PROVE Stages'
  BY <1>8, StagesCallback
<1>9. ASSUME NEW expired, ExpireNodes(expired) PROVE Stages'
  BY <1>1, <1>9 DEF ExpireNodes
<1>10. CASE UNCHANGED vars
  BY <1>1, <1>10 DEF vars
<1>11. CASE OtherStep
  BY <1>2, <1>3, <1>5, <1>6, <1>7, <1>8, <1>9, <1>11 DEF OtherStep
<1> QED
  BY <1>2, <1>4, <1>10, <1>11 DEF Next

LEMMA LifeAlways ==
  ASSUME AcceptedIsSeen
  PROVE  Spec => []LifeInv
<1>1. Init => Stages
  BY DEF Init, QueueInit, Stages, Reporting
<1>2. SchedulerInv /\ ExecutionInv /\ Stages /\ [Next]_vars => Stages'
  BY StagesNext DEF SchedulerInv
<1>3. Spec => []Stages
  BY <1>1, <1>2, SchedulerAlways, ExecutionAlways, PTL DEF Spec
<1> QED
  BY <1>3, SchedulerAlways, ExecutionAlways, PTL DEF LifeInv

-----------------------------------------------------------------------------
Waiting == Queued \cup {held}
Placing == {j \in DOMAIN dispatch : dispatch[j].step # "accepted"}

(* The arms of PhaseOf exclude each other, so that each alone tells the    *)
(* phase of a job.                                                         *)
LEMMA StagesExclusive ==
  ASSUME LifeInv, NEW j \in Job
  PROVE  /\ j \in Begun => j \in submitted \ (Waiting \cup Placing)
         /\ j \in Waiting => j \in submitted \ Placing
         /\ j \in Placing => j \in submitted
         /\ j \in Reported => j \notin Running
         /\ j \in Running \cup Reported => j \notin DOMAIN job_results \cup abandoned
         /\ j \in abandoned => j \notin DOMAIN job_results
<1>1. Begun \subseteq Spent
  BY DEF Begun, Spent, Running, Reported, Outstanding, Containers
<1>2. j \in Begun => j \in submitted \ (Waiting \cup Placing)
  BY <1>1 DEF LifeInv, ExecutionInv, SpentIsAway, AtStep, Waiting, Placing
<1>3. /\ j \in Waiting => j \in submitted \ Placing
      /\ j \in Placing => j \in submitted
  BY SchedulerAssumption DEF LifeInv, SchedulerInv, PipelineInv, OnlySubmitted,
     NoDoublePlacement, Waiting, Placing
<1>4. j \in Reported => j \notin Running
  <2> SUFFICES ASSUME NEW d \in Reporting, NEW e \in executing, d.job = e.job PROVE FALSE
    BY DEF Reported, Running
  <2>1. d = e
    BY DEF LifeInv, ExecutionInv, OneEach, Outstanding, Containers
  <2> QED
    BY <2>1 DEF LifeInv, Stages
<1>5. j \in Running \cup Reported => j \notin DOMAIN job_results \cup abandoned
  BY DEF LifeInv, Stages, ExecutionInv, AbandonedNeverRan, Running, Reported, Outstanding,
     Containers
<1>6. j \in abandoned => j \notin DOMAIN job_results
  BY DEF LifeInv, ExecutionInv, AbandonedNeverRan
<1> QED
  BY <1>2, <1>3, <1>4, <1>5, <1>6

PhasesAre ==
  \A j \in Job :
    /\ j \in DOMAIN job_results => PhaseOf(j) = "recorded"
    /\ j \in abandoned => PhaseOf(j) = "given_up"
    /\ j \in Reported => PhaseOf(j) = "reported"
    /\ j \in Running => PhaseOf(j) = "running"
    /\ j \in Waiting => PhaseOf(j) = "waiting"
    /\ j \in Placing => PhaseOf(j) = "placed"
    /\ j \notin submitted => PhaseOf(j) = "new"
    /\ j \in submitted \ (Begun \cup Waiting \cup Placing) => PhaseOf(j) = "lost"

LEMMA PhaseMeans == LifeInv => PhasesAre
<1> SUFFICES ASSUME LifeInv, NEW j \in Job
             PROVE  /\ j \in DOMAIN job_results => PhaseOf(j) = "recorded"
                    /\ j \in abandoned => PhaseOf(j) = "given_up"
                    /\ j \in Reported => PhaseOf(j) = "reported"
                    /\ j \in Running => PhaseOf(j) = "running"
                    /\ j \in Waiting => PhaseOf(j) = "waiting"
                    /\ j \in Placing => PhaseOf(j) = "placed"
                    /\ j \notin submitted => PhaseOf(j) = "new"
                    /\ j \in submitted \ (Begun \cup Waiting \cup Placing) => PhaseOf(j) = "lost"
  BY DEF PhasesAre
<1>1. /\ (\E e \in Reporting : e.job = j) <=> j \in Reported
      /\ (\E e \in executing : e.job = j) <=> j \in Running
      /\ (j \in Queued \/ j = held) <=> j \in Waiting
  BY DEF Reported, Running, Waiting
<1>2. (\E step \in DispatchStep \ {"accepted"} : AtStep(j, step)) <=> j \in Placing
  BY DEF LifeInv, SchedulerInv, PipelineInv, PipelineTypes, AtStep, Placing
<1>3. PhaseOf(j) =
        CASE j \in DOMAIN job_results -> "recorded"
          [] j \in abandoned          -> "given_up"
          [] j \in Reported           -> "reported"
          [] j \in Running            -> "running"
          [] j \in Waiting            -> "waiting"
          [] j \in Placing            -> "placed"
          [] j \notin submitted       -> "new"
          [] OTHER                    -> "lost"
  BY <1>1, <1>2 DEF PhaseOf
<1> QED
  BY <1>3, StagesExclusive DEF Begun

(* The step leaves job k where it is. *)
Unmoved(k) ==
  /\ k \in DOMAIN job_results' <=> k \in DOMAIN job_results
  /\ k \in abandoned' <=> k \in abandoned
  /\ k \in Reported' <=> k \in Reported
  /\ k \in Running' <=> k \in Running
  /\ k \in Waiting' <=> k \in Waiting
  /\ k \in Placing' <=> k \in Placing
  /\ k \in submitted' <=> k \in submitted

LEMMA UnmovedKeepsPhase ==
  ASSUME PhasesAre, PhasesAre', NEW k \in Job, Unmoved(k)
  PROVE  PhaseOf(k)' = PhaseOf(k)
<1>1. k \in Begun' <=> k \in Begun
  BY DEF Unmoved, Begun
<1> QED
  BY <1>1 DEF Unmoved, PhasesAre, Begun

(* A step that moves job j alone, from one phase to another. *)
LEMMA OneMoves ==
  ASSUME PhasesAre, PhasesAre', NEW j \in Job,
         \A k \in Job \ {j} : Unmoved(k) /\ Attempts(k)' = Attempts(k)
  PROVE  /\ phaseBar' = [phaseBar EXCEPT ![j] = PhaseOf(j)']
         /\ refusalsBar' = [refusalsBar EXCEPT ![j] =
                              IF PhaseOf(j)' \in {"waiting", "placed"} THEN Attempts(j)' ELSE 0]
<1>1. \A k \in Job \ {j} : PhaseOf(k)' = PhaseOf(k)
  BY UnmovedKeepsPhase
<1>2. phaseBar' = [k \in Job |-> PhaseOf(k)']
  BY DEF phaseBar
<1>3. refusalsBar' = [k \in Job |-> IF PhaseOf(k)' \in {"waiting", "placed"} THEN Attempts(k)' ELSE 0]
  BY DEF refusalsBar
<1>4. phaseBar' = [phaseBar EXCEPT ![j] = PhaseOf(j)']
  BY <1>1, <1>2 DEF phaseBar
<1>5. refusalsBar' = [refusalsBar EXCEPT ![j] =
                        IF PhaseOf(j)' \in {"waiting", "placed"} THEN Attempts(j)' ELSE 0]
  <2> DEFINE count(k) == IF PhaseOf(k) \in {"waiting", "placed"} THEN Attempts(k) ELSE 0
             next(k) == IF PhaseOf(k)' \in {"waiting", "placed"} THEN Attempts(k)' ELSE 0
  <2>1. \A k \in Job \ {j} : next(k) = count(k)
    BY <1>1
  <2>2. refusalsBar' = [k \in Job |-> next(k)]
    BY <1>3
  <2>3. refusalsBar = [k \in Job |-> count(k)]
    BY DEF refusalsBar
  <2> HIDE DEF count, next
  <2>4. refusalsBar' = [refusalsBar EXCEPT ![j] = next(j)]
    BY <2>1, <2>2, <2>3
  <2> QED
    BY <2>4 DEF next
<1> QED
  BY <1>4, <1>5

(* A step that moves none. *)
LEMMA NoneMoves ==
  ASSUME PhasesAre, PhasesAre', \A k \in Job : Unmoved(k),
         \A k \in Job : PhaseOf(k) \in {"waiting", "placed"} => Attempts(k)' = Attempts(k)
  PROVE  UNCHANGED <<phaseBar, refusalsBar>>
BY UnmovedKeepsPhase DEF phaseBar, refusalsBar

(* The count of a job is only kept while it waits or is being placed. *)
LEMMA CountIs ==
  ASSUME PhasesAre, NEW j \in Job
  PROVE  /\ phaseBar[j] = PhaseOf(j)
         /\ PhaseOf(j) \in {"waiting", "placed"} => refusalsBar[j] = Attempts(j)
         /\ PhaseOf(j) \notin {"waiting", "placed"} => refusalsBar[j] = 0
         /\ \A count : refusalsBar[j] = count => refusalsBar = [refusalsBar EXCEPT ![j] = count]
BY DEF phaseBar, refusalsBar

LEMMA LifeSubmit ==
  ASSUME LifeInv, PhasesAre, PhasesAre', NEW j \in Job, SubmitEnqueue(j)
  PROVE  Life!Submitted(j)
<1> USE DEF clientVars, storeVars, threadVars, dispatcherVars, agentVars, executionVars, reportVars
<1>1. Queued' = Queued \cup {j}
  BY QueueAppend DEF SubmitEnqueue, enqueue_job, LifeInv, SchedulerInv, PipelineInv,
     PipelineTypes
<1>2. /\ j \notin submitted /\ submitted' = submitted \cup {j}
      /\ Waiting' = Waiting \cup {j}
      /\ UNCHANGED <<Reported, Running, Placing, job_results, abandoned, dispatch_attempts>>
  BY <1>1 DEF SubmitEnqueue, enqueue_job, Waiting, Placing, Reported, Running, Reporting
<1>3. \A k \in Job \ {j} : Unmoved(k) /\ Attempts(k)' = Attempts(k)
  BY <1>2 DEF Unmoved, Attempts
<1>4. PhaseOf(j) = "new" /\ PhaseOf(j)' = "waiting"
  BY <1>2 DEF PhasesAre
<1>5. Attempts(j)' = 0
  BY <1>2 DEF Attempts, LifeInv, Stages
<1> QED
  BY <1>3, <1>4, <1>5, OneMoves, CountIs DEF Life!Submitted, Life!Becomes

LEMMA LifeDequeue ==
  ASSUME LifeInv, PhasesAre, PhasesAre', DispatcherDequeue
  PROVE  UNCHANGED <<phaseBar, refusalsBar>>
<1> USE DEF clientVars, storeVars, threadVars, agentVars, executionVars, reportVars
<1>1. Queued' = Queued \ {held'} /\ held' \in Queued /\ held = NoJob
  BY QueueTail DEF DispatcherDequeue, dequeue_job, LifeInv, SchedulerInv, PipelineInv,
     PipelineTypes, NoDoublePlacement
<1>2. \A k \in Job : k \in Waiting' <=> k \in Waiting
  BY <1>1, SchedulerAssumption DEF Waiting
<1>3. UNCHANGED <<Reported, Running, Placing, job_results, abandoned, dispatch_attempts, submitted>>
  BY DEF DispatcherDequeue, dequeue_job, Placing, Reported, Running, Reporting
<1>4. \A k \in Job : Unmoved(k) /\ Attempts(k)' = Attempts(k)
  BY <1>2, <1>3 DEF Unmoved, Attempts
<1> QED
  BY <1>4, NoneMoves

LEMMA LifeReserve ==
  ASSUME LifeInv, PhasesAre, PhasesAre', DispatcherReserve, NEW j \in Job, j = held
  PROVE  Life!Placed(j)
<1> USE DEF clientVars, storeVars, queueVars, threadVars, agentVars, executionVars, reportVars
<1>1. j \notin Queued /\ j \notin DOMAIN dispatch
  BY DEF LifeInv, SchedulerInv, PipelineInv, NoDoublePlacement
<1>2. \A k \in Job : k \in Waiting' <=> k \in Waiting \ {j}
  BY <1>1, SchedulerAssumption DEF DispatcherReserve, Waiting, Queued
<1>3. /\ DOMAIN dispatch' = DOMAIN dispatch \cup {j}
      /\ dispatch'[j].step = "post"
      /\ \A k \in DOMAIN dispatch : dispatch'[k] = dispatch[k]
  BY <1>1 DEF DispatcherReserve, Store
<1>4. Placing' = Placing \cup {j}
  BY <1>3 DEF Placing
<1>5. UNCHANGED <<Reported, Running, job_results, abandoned, dispatch_attempts, submitted>>
  BY DEF DispatcherReserve, Reported, Running, Reporting
<1>6. \A k \in Job \ {j} : Unmoved(k) /\ Attempts(k)' = Attempts(k)
  BY <1>2, <1>4, <1>5 DEF Unmoved, Attempts
<1>7. PhaseOf(j) = "waiting" /\ PhaseOf(j)' = "placed"
  BY <1>4 DEF PhasesAre, Waiting
<1>8. Attempts(j)' = Attempts(j)
  BY <1>5 DEF Attempts
<1> QED
  BY <1>6, <1>7, <1>8, OneMoves, CountIs DEF Life!Placed, Life!Becomes

LEMMA LifeAccept ==
  ASSUME LifeInv, PhasesAre, PhasesAre', NEW j \in Job, PostAccepted(j)
  PROVE  Life!Accepted(j)
<1> USE DEF queueVars, clientVars, storeVars, dispatcherVars, reportVars
<1>1. /\ j \in DOMAIN dispatch /\ dispatch[j].step = "post"
      /\ executing' = executing \cup {Posted(j)}
      /\ dispatch' = [dispatch EXCEPT ![j].step = "accepted"]
      /\ UNCHANGED <<job_queue, held, dispatch_attempts, submitted, job_results, abandoned,
                     callback_sent, callback_released>>
  BY DEF PostAccepted, AtStep, GoTo
<1>2. Running' = Running \cup {j}
  <2>1. Posted(j).job = j
    BY DEF Posted
  <2> QED
    BY <1>1, <2>1 DEF Running
<1>3. Placing' = Placing \ {j} /\ j \in Placing
  BY <1>1 DEF Placing, LifeInv, SchedulerInv, PipelineInv, PipelineTypes
<1>4. UNCHANGED <<Waiting, Reported>>
  BY <1>1 DEF Waiting, Queued, Reported, Reporting
<1>5. \A k \in Job \ {j} : Unmoved(k) /\ Attempts(k)' = Attempts(k)
  BY <1>1, <1>2, <1>3, <1>4 DEF Unmoved, Attempts
<1>6. PhaseOf(j) = "placed" /\ PhaseOf(j)' = "running"
  BY <1>2, <1>3 DEF PhasesAre
<1> QED
  BY <1>5, <1>6, OneMoves, CountIs DEF Life!Accepted, Life!Becomes

LEMMA LifeRequeue ==
  ASSUME LifeInv, PhasesAre, PhasesAre', NEW j \in Job, Requeue(j)
  PROVE  Life!Refused(j)
<1> USE DEF clientVars, storeVars, dispatcherVars, agentVars, executionVars, reportVars
<1>1. /\ j \in DOMAIN dispatch /\ dispatch[j].step = "released"
      /\ Attempts(j) + 1 < MAX_DISPATCH_ATTEMPTS
      /\ record_dispatch_failure(j)
      /\ dispatch' = Pop(dispatch, {j})
      /\ UNCHANGED <<held, submitted, job_results, abandoned, executing, callback_sent,
                     callback_released>>
  BY DEF Requeue, AtStep, EndThread
<1>2. Queued' = Queued \cup {j}
  BY QueueAppend DEF Requeue, LifeInv, SchedulerInv, PipelineInv, PipelineTypes
<1>3. Waiting' = Waiting \cup {j}
  BY <1>1, <1>2 DEF Waiting
<1>4. Placing' = Placing \ {j} /\ j \in Placing
  BY <1>1 DEF Placing, Pop, Restrict
<1>5. UNCHANGED <<Running, Reported>>
  BY <1>1 DEF Running, Reported, Reporting
<1>6. /\ Attempts(j)' = Attempts(j) + 1
      /\ \A k \in Job \ {j} : Attempts(k)' = Attempts(k)
  BY <1>1 DEF record_dispatch_failure, Attempts
<1>7. \A k \in Job \ {j} : Unmoved(k) /\ Attempts(k)' = Attempts(k)
  BY <1>1, <1>3, <1>4, <1>5, <1>6 DEF Unmoved
<1>8. PhaseOf(j) = "placed" /\ PhaseOf(j)' = "waiting"
  BY <1>3, <1>4 DEF PhasesAre
<1> QED
  BY <1>1, <1>6, <1>7, <1>8, OneMoves, CountIs DEF Life!Refused, Life!Becomes

LEMMA LifeAbandon ==
  ASSUME LifeInv, PhasesAre, PhasesAre', NEW j \in Job, Abandon(j)
  PROVE  Life!GivenUp(j)
<1> USE DEF clientVars, dispatcherVars, agentVars, executionVars, reportVars
<1>1. /\ j \in DOMAIN dispatch /\ dispatch[j].step = "released"
      /\ Attempts(j) + 1 >= MAX_DISPATCH_ATTEMPTS
      /\ forget_dispatch_attempts(j)
      /\ dispatch' = Pop(dispatch, {j})
      /\ abandoned' = abandoned \cup {j}
      /\ UNCHANGED <<job_queue, held, submitted, job_results, executing, callback_sent,
                     callback_released>>
  BY DEF Abandon, AtStep, EndThread, db_mark_job_failed
<1>2. Placing' = Placing \ {j} /\ j \in Placing
  BY <1>1 DEF Placing, Pop, Restrict
<1>3. UNCHANGED <<Waiting, Running, Reported>>
  BY <1>1 DEF Waiting, Queued, Running, Reported, Reporting
<1>4. \A k \in Job \ {j} : Attempts(k)' = Attempts(k)
  BY <1>1 DEF forget_dispatch_attempts, Attempts
<1>5. \A k \in Job \ {j} : Unmoved(k) /\ Attempts(k)' = Attempts(k)
  BY <1>1, <1>2, <1>3, <1>4 DEF Unmoved
<1>6. PhaseOf(j) = "placed" /\ PhaseOf(j)' = "given_up"
  BY <1>1, <1>2 DEF PhasesAre
<1>7. Attempts(j) + 1 = MAX_DISPATCH_ATTEMPTS
  BY <1>1, AttemptsRange, SchedulerAssumption DEF LifeInv, SchedulerInv
<1> QED
  BY <1>5, <1>6, <1>7, OneMoves, CountIs DEF Life!GivenUp, Life!Becomes

(* The other steps of a dispatch thread happen within a phase. *)
LEMMA LifeThread ==
  ASSUME AcceptedIsSeen, LifeInv, PhasesAre, PhasesAre', NEW j \in Job, DispatchThread(j)
  PROVE  [Life!LifeNext]_<<phaseBar, refusalsBar>>
<1> USE DEF queueVars, clientVars, storeVars, dispatcherVars, agentVars, executionVars, reportVars
<1>1. CASE PostAccepted(j) \/ Requeue(j) \/ Abandon(j)
  BY <1>1, LifeAccept, LifeRequeue, LifeAbandon DEF Life!LifeNext
<1>2. CASE PostFails(j) \/ ReleaseFailed(j)
  <2>1. PICK step : GoTo(j, step) /\ step # "accepted"
    BY <1>2 DEF PostFails, ReleaseFailed
  <2>2. j \in Placing
    BY <1>2 DEF PostFails, ReleaseFailed, AtStep, Placing
  <2>3. Placing' = Placing
    BY <2>1, <2>2 DEF GoTo, Placing, LifeInv, SchedulerInv, PipelineInv, PipelineTypes
  <2>4. UNCHANGED <<Waiting, Running, Reported, dispatch_attempts, submitted, job_results,
                    abandoned>>
    BY <1>2 DEF PostFails, ReleaseFailed, Waiting, Queued, Running, Reported, Reporting
  <2>5. \A k \in Job : Unmoved(k) /\ Attempts(k)' = Attempts(k)
    BY <2>3, <2>4 DEF Unmoved, Attempts
  <2> QED
    BY <2>5, NoneMoves
<1>3. CASE RecordDispatch(j)
  <2>1. /\ j \in DOMAIN dispatch /\ dispatch[j].step = "accepted"
        /\ dispatch' = Pop(dispatch, {j})
    BY <1>3 DEF RecordDispatch, AtStep, EndThread
  <2>2. Placing' = Placing /\ j \notin Placing
    BY <2>1 DEF Placing, Pop, Restrict
  <2>3. UNCHANGED <<Waiting, Running, Reported, submitted, job_results, abandoned>>
    BY <1>3 DEF RecordDispatch, db_dispatch_job, Waiting, Queued, Running, Reported, Reporting
  <2>4. j \in submitted \ Waiting
    BY <2>1 DEF LifeInv, SchedulerInv, PipelineInv, OnlySubmitted, NoDoublePlacement, Waiting
  <2>5. PhaseOf(j) \notin {"waiting", "placed"}
    BY <2>2, <2>4 DEF PhasesAre, Begun
  <2>6. \A k \in Job \ {j} : Attempts(k)' = Attempts(k)
    BY <1>3 DEF RecordDispatch, forget_dispatch_attempts, Attempts
  <2>7. \A k \in Job : Unmoved(k)
    BY <2>2, <2>3 DEF Unmoved
  <2>8. \A k \in Job : PhaseOf(k) \in {"waiting", "placed"} => Attempts(k)' = Attempts(k)
    BY <2>5, <2>6
  <2> QED
    BY <2>7, <2>8, NoneMoves
<1>4. CASE PostResponseLost(j) \/ RecordDispatchFails(j) \/ AbandonFails(j)
  BY <1>4 DEF PostResponseLost, RecordDispatchFails, AbandonFails, AcceptedIsSeen
<1> QED
  BY <1>1, <1>2, <1>3, <1>4 DEF DispatchThread

LEMMA LifeEnds ==
  ASSUME LifeInv, PhasesAre, PhasesAre', NEW e, FinishExecution(e) \/ WaitFails(e)
  PROVE  \E j \in Job : Life!Ended(j)
<1> USE DEF queueVars, clientVars, storeVars, threadVars, dispatcherVars
<1> DEFINE j == e.job
<1>1. PICK success :
        /\ e \in executing /\ executing' = executing \ {e}
        /\ callback_sent' = callback_sent \cup {[execution |-> e, success |-> success]}
        /\ UNCHANGED <<job_queue, held, dispatch, dispatch_attempts, submitted, job_results,
                       abandoned, callback_released>>
  BY DEF FinishExecution, WaitFails
<1>2. j \in Job
  BY <1>1 DEF LifeInv, SchedulerInv, AgentTypes, Execution
<1>3. \A d \in executing : d.job = j => d = e
  BY <1>1 DEF LifeInv, ExecutionInv, OneEach, Outstanding, Containers
<1>4. Running' = Running \ {j} /\ j \in Running
  BY <1>1, <1>3 DEF Running
<1>5. Reporting' = Reporting \cup {e}
  <2>1. [execution |-> e, success |-> success].execution = e
    OBVIOUS
  <2> QED
    BY <1>1, <2>1 DEF Reporting
<1>6. Reported' = Reported \cup {j}
  BY <1>5 DEF Reported
<1>7. UNCHANGED <<Waiting, Placing>>
  BY <1>1 DEF Waiting, Queued, Placing
<1> HIDE DEF j
<1>8. \A k \in Job \ {j} : Unmoved(k) /\ Attempts(k)' = Attempts(k)
  BY <1>1, <1>4, <1>6, <1>7 DEF Unmoved, Attempts
<1>9. PhaseOf(j) = "running" /\ PhaseOf(j)' = "reported"
  BY <1>2, <1>4, <1>6 DEF PhasesAre
<1>10. Life!Ended(j)
  BY <1>2, <1>8, <1>9, OneMoves, CountIs DEF Life!Ended, Life!Becomes
<1> QED
  BY <1>2, <1>10

LEMMA LifeRecords ==
  ASSUME LifeInv, PhasesAre, PhasesAre', NEW r, CallbackRecord(r)
  PROVE  \E j \in Job : Life!Recorded(j)
<1> USE DEF queueVars, clientVars, threadVars, dispatcherVars, executionVars
<1> DEFINE j == r.execution.job
<1>1. /\ r \in callback_released /\ callback_released' = callback_released \ {r}
      /\ DOMAIN job_results' = DOMAIN job_results \cup {j}
      /\ UNCHANGED <<job_queue, held, dispatch, dispatch_attempts, submitted, abandoned,
                     executing, callback_sent>>
  BY DEF CallbackRecord, db_record_job_result
<1>2. r.execution \in Reporting /\ j \in Reported /\ j \in Job
  BY <1>1 DEF Reporting, Reported, LifeInv, SchedulerInv, AgentTypes, Report, Execution
<1>3. j \notin Reported' /\ Reported' \subseteq Reported
  BY RecordedLast DEF LifeInv, Reported
<1>4. Reporting \ {r.execution} \subseteq Reporting'
  BY <1>1 DEF Reporting
<1>5. Reported' = Reported \ {j}
  BY <1>3, <1>4 DEF Reported
<1>6. UNCHANGED <<Waiting, Placing, Running>>
  BY <1>1 DEF Waiting, Queued, Placing, Running
<1> HIDE DEF j
<1>7. \A k \in Job \ {j} : Unmoved(k) /\ Attempts(k)' = Attempts(k)
  BY <1>1, <1>5, <1>6 DEF Unmoved, Attempts
<1>8. PhaseOf(j) = "reported" /\ PhaseOf(j)' = "recorded"
  BY <1>1, <1>2 DEF PhasesAre
<1>9. Life!Recorded(j)
  BY <1>2, <1>7, <1>8, OneMoves, CountIs DEF Life!Recorded, Life!Becomes
<1> QED
  BY <1>2, <1>9

LEMMA LifeLosesReport ==
  ASSUME LifeInv, PhasesAre, PhasesAre', NEW r, LoseCallback(r)
  PROVE  \E j \in Job : Life!ReportLost(j)
<1> USE DEF queueVars, clientVars, storeVars, threadVars, dispatcherVars, executionVars
<1> DEFINE j == r.execution.job
<1>1. /\ r \in callback_sent /\ callback_sent' = callback_sent \ {r}
      /\ UNCHANGED <<job_queue, held, dispatch, dispatch_attempts, submitted, abandoned,
                     job_results, executing, callback_released>>
  BY DEF LoseCallback
<1>2. r.execution \in Reporting /\ j \in Reported /\ j \in Job
  BY <1>1 DEF Reporting, Reported, LifeInv, SchedulerInv, AgentTypes, Report, Execution
<1>3. \A e \in Reporting : e.job = j => e = r.execution
  BY <1>2 DEF LifeInv, ExecutionInv, OneEach, Outstanding
<1>4. Reporting' = Reporting \ {r.execution}
  BY <1>1 DEF Reporting, LifeInv, Stages
<1>5. Reported' = Reported \ {j}
  BY <1>3, <1>4 DEF Reported
<1>6. UNCHANGED <<Waiting, Placing, Running>>
  BY <1>1 DEF Waiting, Queued, Placing, Running
<1>7. /\ j \in submitted \ (Waiting \cup Placing)
      /\ j \notin Running \cup DOMAIN job_results \cup abandoned
  BY <1>2, StagesExclusive DEF Begun
<1> HIDE DEF j
<1>8. \A k \in Job \ {j} : Unmoved(k) /\ Attempts(k)' = Attempts(k)
  BY <1>1, <1>5, <1>6 DEF Unmoved, Attempts
<1>9. j \in submitted' \ (Begun' \cup Waiting' \cup Placing')
  BY <1>1, <1>5, <1>6, <1>7 DEF Begun
<1>10. PhaseOf(j) = "reported" /\ PhaseOf(j)' = "lost"
  BY <1>2, <1>9 DEF PhasesAre
<1>11. Life!ReportLost(j)
  BY <1>2, <1>8, <1>10, OneMoves, CountIs DEF Life!ReportLost, Life!Becomes
<1> QED
  BY <1>2, <1>11

(* An agent that dies takes along what runs on its node, and only that. *)
LEMMA LifeCrash ==
  ASSUME LifeInv, PhasesAre, PhasesAre', NEW n, AgentCrash(n)
  PROVE  \E accepted \in SUBSET Job : Life!AgentLost(accepted)
<1> USE DEF queueVars, clientVars, storeVars, threadVars, dispatcherVars, reportVars
<1> DEFINE accepted == {e.job : e \in {x \in executing : x.node = n}}
<1>1. /\ executing' = {e \in executing : e.node # n}
      /\ UNCHANGED <<job_queue, held, dispatch, dispatch_attempts, submitted, abandoned,
                     job_results, callback_sent, callback_released>>
  BY DEF AgentCrash
<1>2. accepted \subseteq Job /\ accepted \subseteq Running
  BY DEF Running, LifeInv, SchedulerInv, AgentTypes, Execution
<1>3. \A d, e \in executing : d.job = e.job => d = e
  BY DEF LifeInv, ExecutionInv, OneEach, Outstanding, Containers
<1>4. Running' = Running \ accepted
  BY <1>1, <1>3 DEF Running
<1>5. UNCHANGED <<Waiting, Placing, Reported>>
  BY <1>1 DEF Waiting, Queued, Placing, Reported, Reporting
<1> HIDE DEF accepted
<1>6. \A k \in Job \ accepted : PhaseOf(k)' = PhaseOf(k)
  BY <1>1, <1>4, <1>5, UnmovedKeepsPhase DEF Unmoved
<1>7. ASSUME NEW k \in accepted PROVE PhaseOf(k) = "running" /\ PhaseOf(k)' = "lost"
  <2>1. k \in Job /\ k \in Running
    BY <1>2
  <2>2. /\ k \in submitted \ (Waiting \cup Placing)
        /\ k \notin Reported \cup DOMAIN job_results \cup abandoned
    BY <2>1, StagesExclusive DEF Begun
  <2>3. k \in submitted' \ (Begun' \cup Waiting' \cup Placing')
    BY <1>1, <1>4, <1>5, <2>2 DEF Begun
  <2> QED
    BY <2>1, <2>3 DEF PhasesAre
<1>8. \A k \in Job : Attempts(k)' = Attempts(k)
  BY <1>1 DEF Attempts
<1>9. \A k \in Job :
        (IF PhaseOf(k)' \in {"waiting", "placed"} THEN Attempts(k)' ELSE 0)
          = (IF PhaseOf(k) \in {"waiting", "placed"} THEN Attempts(k) ELSE 0)
  BY <1>6, <1>7, <1>8
<1>10. refusalsBar' = refusalsBar
  BY <1>9 DEF refusalsBar
<1>11. phaseBar' = [k \in Job |-> IF k \in accepted THEN "lost" ELSE phaseBar[k]]
  BY <1>6, <1>7 DEF phaseBar
<1>12. \A k \in accepted : phaseBar[k] = "running"
  BY <1>2, <1>7 DEF phaseBar
<1>13. Life!AgentLost(accepted)
  BY <1>10, <1>11, <1>12 DEF Life!AgentLost
<1> QED
  BY <1>2, <1>13

-----------------------------------------------------------------------------
LEMMA LifeStep ==
  ASSUME AcceptedIsSeen, LifeInv, PhasesAre, PhasesAre', [Next]_vars
  PROVE  [Life!LifeNext]_<<phaseBar, refusalsBar>>
<1> USE DEF csVars, queueVars, storeVars, clientVars, dispatcherVars, threadVars, agentVars,
            executionVars, reportVars
<1>1. ASSUME UNCHANGED <<job_queue, held, dispatch, dispatch_attempts, submitted, abandoned,
                         executing, Reporting>>,
             DOMAIN job_results' = DOMAIN job_results
      PROVE  [Life!LifeNext]_<<phaseBar, refusalsBar>>
  <2>1. \A k \in Job : Unmoved(k) /\ Attempts(k)' = Attempts(k)
    BY <1>1 DEF Unmoved, Attempts, Reported, Running, Waiting, Queued, Placing
  <2> QED
    BY <2>1, NoneMoves
<1>2. ASSUME NEW j \in Job, SubmitEnqueue(j) PROVE [Life!LifeNext]_<<phaseBar, refusalsBar>>
  BY <1>2, LifeSubmit DEF Life!LifeNext
<1>3. ASSUME NEW j, NEW run, SubmitInsertFails(j) \/ SubmitInsert(j, run)
      PROVE  [Life!LifeNext]_<<phaseBar, refusalsBar>>
  BY <1>1, <1>3 DEF SubmitInsertFails, SubmitInsert, db_submit_job, Reporting
<1>4. CASE DispatcherDequeue
  BY <1>4, LifeDequeue
<1>5. CASE DispatcherReserve
  <2>1. held \in Job
    BY <1>5 DEF DispatcherReserve, LifeInv, SchedulerInv, PipelineInv,
       PipelineTypes
  <2> QED
    BY <1>5, <2>1, LifeReserve DEF Life!LifeNext
<1>6. CASE DispatcherReserveRefused
  BY <1>1, <1>6 DEF DispatcherReserveRefused, Reporting
<1>7. ASSUME NEW n, DispatcherSelect(n) PROVE [Life!LifeNext]_<<phaseBar, refusalsBar>>
  BY <1>1, <1>7 DEF DispatcherSelect, Reporting
<1>8. ASSUME NEW j \in Job, DispatchThread(j)
      PROVE  [Life!LifeNext]_<<phaseBar, refusalsBar>>
  BY <1>8, LifeThread
<1>9. ASSUME NEW n, AgentStep(n) PROVE [Life!LifeNext]_<<phaseBar, refusalsBar>>
  <2>1. CASE AgentCrash(n)
    BY <2>1, LifeCrash DEF Life!LifeNext
  <2>2. CASE AgentRegister(n) \/ AgentRegisterFails(n) \/ AgentServe(n) \/ AgentHeartbeat(n)
    BY <1>1, <2>2 DEF AgentRegister, AgentRegisterFails, AgentServe, AgentHeartbeat, Reporting
  <2> QED
    BY <1>9, <2>1, <2>2 DEF AgentStep
<1>10. ASSUME NEW e, ExecutionStep(e) PROVE [Life!LifeNext]_<<phaseBar, refusalsBar>>
  <2>1. CASE FinishExecution(e) \/ WaitFails(e)
    BY <2>1, LifeEnds DEF Life!LifeNext
  <2>2. CASE OrphanEnds(e)
    BY <1>1, <2>2 DEF OrphanEnds, Reporting
  <2> QED
    BY <1>10, <2>1, <2>2 DEF ExecutionStep
<1>11. ASSUME NEW r, Callback(r) PROVE [Life!LifeNext]_<<phaseBar, refusalsBar>>
  <2>1. CASE CallbackRelease(r)
    BY <1>1, <2>1 DEF CallbackRelease, Reporting
  <2>2. CASE CallbackRecord(r)
    BY <2>2, LifeRecords DEF Life!LifeNext
  <2>3. CASE LoseCallback(r)
    BY <2>3, LifeLosesReport DEF Life!LifeNext
  <2>4. ~CallbackRecordFails(r)
    BY DEF CallbackRecordFails, AcceptedIsSeen
  <2> QED
    BY <1>11, <2>1, <2>2, <2>3, <2>4 DEF Callback
<1>12. ASSUME NEW expired, ExpireNodes(expired)
       PROVE  [Life!LifeNext]_<<phaseBar, refusalsBar>>
  BY <1>1, <1>12 DEF ExpireNodes, Reporting
<1>13. CASE UNCHANGED vars
  BY <1>1, <1>13 DEF vars, Reporting
<1>14. CASE OtherStep
  BY <1>2, <1>3, <1>4, <1>5, <1>6, <1>8, <1>9, <1>10, <1>11, <1>12, <1>14 DEF OtherStep
<1> QED
  BY <1>3, <1>7, <1>13, <1>14 DEF Next

LEMMA LifeStart == Init /\ PhasesAre => Life!LifeInit
<1> SUFFICES ASSUME Init, PhasesAre PROVE Life!LifeInit
  OBVIOUS
<1>1. submitted = {} /\ DOMAIN dispatch_attempts = {}
  BY DEF Init, QueueInit
<1>2. \A j \in Job : PhaseOf(j) = "new"
  BY <1>1 DEF PhasesAre
<1> QED
  BY <1>2 DEF phaseBar, refusalsBar, Life!LifeInit

(* The scheduler implements JobLifecycle: whatever the threads, agents and *)
(* losses do, a job is accepted once at most, given up only after its last *)
(* refusal in a row, recorded only after it was reported, never brought    *)
(* back.                                                                   *)
THEOREM JobsLiveInOrder ==
  ASSUME AcceptedIsSeen
  PROVE  Spec => LifecycleSpec
<1>1. Spec => []PhasesAre
  BY LifeAlways, PhaseMeans, PTL
<1>2. LifeInv /\ PhasesAre /\ PhasesAre' /\ [Next]_vars
        => [Life!LifeNext]_<<phaseBar, refusalsBar>>
  BY LifeStep
<1> QED
  BY <1>1, <1>2, LifeStart, LifeAlways, PTL
  DEF Spec, LifecycleSpec, Life!LifeSpec, Life!lifeVars
=============================================================================
