--------------------------- MODULE SchedulerProofs ---------------------------
(* The composed system, for every set of nodes, jobs, runs and faults: no  *)
(* job is placed twice, a waiting job holds nothing, and therefore every   *)
(* step of every thread uses the ledger as ClusterState assumes, so that   *)
(* the theorems of ClusterStateProofs hold of the scheduler; its types,    *)
(* among them the bound on the dispatch attempts of a job; and that it     *)
(* uses the tables as JobStore assumes, so that a finished job stays so.   *)
EXTENDS Scheduler, ClusterStateProofs, SequenceTheorems

(* Where a job is on its way to an agent, and who may hold a reservation.  *)
PipelineTypes ==
  /\ job_queue \in Seq(Job)
  /\ held \in Job \cup {NoJob}
  /\ selected \in Node \cup {NoNode}
  /\ selected # NoNode => held # NoJob
  /\ submitted \subseteq Job
  /\ DOMAIN dispatch \subseteq Job
  /\ \A j \in DOMAIN dispatch : dispatch[j] \in [node : Node, step : DispatchStep]
  /\ DOMAIN reservations \subseteq Job

(* A job that was never submitted is nowhere. *)
OnlySubmitted ==
  /\ Queued \subseteq submitted
  /\ held # NoJob => held \in submitted
  /\ DOMAIN dispatch \subseteq submitted
  /\ DOMAIN reservations \subseteq submitted

PipelineInv ==
  /\ PipelineTypes
  /\ OnlySubmitted
  /\ NoDoublePlacement
  /\ WaitingHoldsNothing

pipelineVars == <<job_queue, held, selected, submitted, dispatch, reservations>>

-----------------------------------------------------------------------------
(* Appending a job that is not in the queue keeps its entries distinct. *)
LEMMA QueueAppend ==
  ASSUME job_queue \in Seq(Job), NEW j \in Job, job_queue' = Append(job_queue, j)
  PROVE  /\ job_queue' \in Seq(Job)
         /\ Queued' = Queued \cup {j}
         /\ (/\ j \notin Queued
             /\ \A i, k \in 1 .. Len(job_queue) : job_queue[i] = job_queue[k] => i = k)
            => \A i, k \in 1 .. Len(job_queue') : job_queue'[i] = job_queue'[k] => i = k
<1>1. /\ job_queue' \in Seq(Job)
      /\ Len(job_queue') = Len(job_queue) + 1
      /\ Len(job_queue) \in Nat
      /\ \A i \in 1 .. Len(job_queue) : job_queue'[i] = job_queue[i]
      /\ job_queue'[Len(job_queue) + 1] = j
  OBVIOUS
<1>2. 1 .. Len(job_queue') = (1 .. Len(job_queue)) \cup {Len(job_queue) + 1}
  BY <1>1
<1>3. Queued' = Queued \cup {j}
  BY <1>1, <1>2 DEF Queued
<1>4. ASSUME j \notin Queued,
             \A i, k \in 1 .. Len(job_queue) : job_queue[i] = job_queue[k] => i = k,
             NEW i \in 1 .. Len(job_queue'), NEW k \in 1 .. Len(job_queue'),
             job_queue'[i] = job_queue'[k]
      PROVE  i = k
  <2>1. \A x \in 1 .. Len(job_queue) : job_queue[x] # j
    BY <1>4 DEF Queued
  <2> QED
    BY <1>1, <1>2, <1>4, <2>1
<1> QED
  BY <1>1, <1>3, <1>4

(* Taking the head off a queue of distinct jobs removes just that job. *)
LEMMA QueueTail ==
  ASSUME job_queue \in Seq(Job), job_queue # << >>, job_queue' = Tail(job_queue),
         \A i, k \in 1 .. Len(job_queue) : job_queue[i] = job_queue[k] => i = k
  PROVE  /\ job_queue' \in Seq(Job)
         /\ Head(job_queue) \in Queued
         /\ Queued' = Queued \ {Head(job_queue)}
         /\ \A i, k \in 1 .. Len(job_queue') : job_queue'[i] = job_queue'[k] => i = k
<1>1. /\ job_queue' \in Seq(Job)
      /\ Len(job_queue) \in Nat \ {0}
      /\ Len(job_queue') = Len(job_queue) - 1
      /\ \A i \in 1 .. Len(job_queue') : job_queue'[i] = job_queue[i + 1]
      /\ Head(job_queue) = job_queue[1]
  OBVIOUS
<1>2. \A i \in 1 .. Len(job_queue') : i + 1 \in 1 .. Len(job_queue) /\ i + 1 # 1
  BY <1>1
<1>3. Head(job_queue) \in Queued
  BY <1>1 DEF Queued
<1>4. Queued' \subseteq Queued \ {Head(job_queue)}
  <2> SUFFICES ASSUME NEW i \in 1 .. Len(job_queue')
               PROVE  job_queue'[i] \in Queued /\ job_queue'[i] # Head(job_queue)
    BY DEF Queued
  <2>1. 1 \in 1 .. Len(job_queue)
    BY <1>1
  <2> QED
    BY <1>1, <1>2, <2>1 DEF Queued
<1>5. Queued \ {Head(job_queue)} \subseteq Queued'
  <2> SUFFICES ASSUME NEW i \in 1 .. Len(job_queue), job_queue[i] # Head(job_queue)
               PROVE  job_queue[i] \in Queued'
    BY DEF Queued
  <2>1. i - 1 \in 1 .. Len(job_queue')
    BY <1>1
  <2>2. job_queue'[i - 1] = job_queue[i]
    BY <1>1, <2>1
  <2> QED
    BY <2>1, <2>2 DEF Queued
<1>6. ASSUME NEW i \in 1 .. Len(job_queue'), NEW k \in 1 .. Len(job_queue'),
             job_queue'[i] = job_queue'[k]
      PROVE  i = k
  <2>1. job_queue[i + 1] = job_queue[k + 1]
    BY <1>1, <1>6
  <2>2. i + 1 = k + 1
    BY <1>2, <2>1
  <2> QED
    BY <1>1, <2>2
<1> QED
  BY <1>1, <1>3, <1>4, <1>5, <1>6

-----------------------------------------------------------------------------
(* Steps that leave every pipeline variable alone keep the invariant. *)
LEMMA PipelineUnchanged ==
  ASSUME PipelineInv, UNCHANGED pipelineVars
  PROVE  PipelineInv'
BY DEF PipelineInv, pipelineVars, PipelineTypes, OnlySubmitted, NoDoublePlacement,
       WaitingHoldsNothing, Queued, AtStep

(* Steps that only shrink the set of reservations do too. *)
LEMMA PipelineShrinks ==
  ASSUME PipelineInv, UNCHANGED <<job_queue, held, selected, submitted, dispatch>>,
         DOMAIN reservations' \subseteq DOMAIN reservations
  PROVE  PipelineInv'
BY DEF PipelineInv, PipelineTypes, OnlySubmitted, NoDoublePlacement,
       WaitingHoldsNothing, Queued, AtStep

(* release_slot takes away at most the reservation of its job. *)
LEMMA ReleaseShrinks ==
  ASSUME NEW j, release_slot(j)
  PROVE  DOMAIN reservations' = DOMAIN reservations \ {j}
BY DEF release_slot, Pop, Restrict, csVars, ledgerVars

LEMMA SubmitPipeline ==
  ASSUME PipelineInv, NEW j \in Job, SubmitEnqueue(j)
  PROVE  PipelineInv'
<1>1. /\ j \notin submitted
      /\ job_queue' = Append(job_queue, j)
      /\ submitted' = submitted \cup {j}
      /\ UNCHANGED <<held, selected, dispatch, reservations>>
  BY DEF SubmitEnqueue, enqueue_job, csVars, ledgerVars, dispatcherVars, threadVars
<1>2. job_queue \in Seq(Job)
  BY DEF PipelineInv, PipelineTypes
<1>3. j \notin Queued
  BY <1>1 DEF PipelineInv, OnlySubmitted
<1>4. /\ job_queue' \in Seq(Job)
      /\ Queued' = Queued \cup {j}
      /\ \A i, k \in 1 .. Len(job_queue') : job_queue'[i] = job_queue'[k] => i = k
  BY <1>1, <1>2, <1>3, QueueAppend DEF PipelineInv, NoDoublePlacement
<1>5. PipelineTypes'
  BY <1>1, <1>4 DEF PipelineInv, PipelineTypes
<1>6. OnlySubmitted'
  BY <1>1, <1>4 DEF PipelineInv, OnlySubmitted
<1>7. j # held /\ j \notin DOMAIN dispatch /\ j \notin DOMAIN reservations
  BY <1>1, SchedulerAssumption DEF PipelineInv, OnlySubmitted
<1>8. NoDoublePlacement'
  BY <1>1, <1>4, <1>7 DEF PipelineInv, NoDoublePlacement
<1>9. WaitingHoldsNothing'
  BY <1>1, <1>4, <1>7 DEF PipelineInv, WaitingHoldsNothing, AtStep
<1> QED
  BY <1>5, <1>6, <1>8, <1>9 DEF PipelineInv

LEMMA DequeuePipeline ==
  ASSUME PipelineInv, DispatcherDequeue
  PROVE  PipelineInv'
<1>1. /\ held = NoJob
      /\ job_queue # << >>
      /\ job_queue' = Tail(job_queue)
      /\ held' = Head(job_queue)
      /\ UNCHANGED <<selected, submitted, dispatch, reservations>>
  BY DEF DispatcherDequeue, dequeue_job, csVars, ledgerVars, clientVars, threadVars
<1>2. job_queue \in Seq(Job) /\ selected = NoNode
  BY <1>1 DEF PipelineInv, PipelineTypes
<1>3. /\ job_queue' \in Seq(Job)
      /\ held' \in Queued
      /\ Queued' \subseteq Queued \ {held'}
      /\ \A i, k \in 1 .. Len(job_queue') : job_queue'[i] = job_queue'[k] => i = k
  BY <1>1, <1>2, QueueTail DEF PipelineInv, NoDoublePlacement
<1>4. held' \in Job
  BY <1>1, <1>2
<1>5. PipelineTypes'
  BY <1>1, <1>2, <1>3, <1>4 DEF PipelineInv, PipelineTypes
<1>6. OnlySubmitted'
  BY <1>1, <1>3 DEF PipelineInv, OnlySubmitted
<1>7. NoDoublePlacement'
  BY <1>1, <1>3 DEF PipelineInv, NoDoublePlacement
<1>8. WaitingHoldsNothing'
  BY <1>1, <1>3 DEF PipelineInv, WaitingHoldsNothing, AtStep
<1> QED
  BY <1>5, <1>6, <1>7, <1>8 DEF PipelineInv

LEMMA SelectPipeline ==
  ASSUME PipelineInv, NEW n \in Node, DispatcherSelect(n)
  PROVE  PipelineInv'
<1>1. /\ held # NoJob
      /\ selected' = n
      /\ UNCHANGED <<job_queue, held, submitted, dispatch, reservations>>
  BY DEF DispatcherSelect, csVars, ledgerVars, queueVars, clientVars, threadVars
<1> QED
  BY <1>1 DEF PipelineInv, PipelineTypes, OnlySubmitted, NoDoublePlacement,
              WaitingHoldsNothing, Queued, AtStep

LEMMA RefusedPipeline ==
  ASSUME PipelineInv, DispatcherReserveRefused
  PROVE  PipelineInv'
<1>1. /\ selected' = NoNode
      /\ UNCHANGED <<job_queue, held, submitted, dispatch, reservations>>
  BY DEF DispatcherReserveRefused, csVars, ledgerVars, queueVars, clientVars, threadVars
<1> QED
  BY <1>1 DEF PipelineInv, PipelineTypes, OnlySubmitted, NoDoublePlacement,
              WaitingHoldsNothing, Queued, AtStep

LEMMA ReservePipeline ==
  ASSUME PipelineInv, DispatcherReserve
  PROVE  /\ held \in Job \ DOMAIN reservations
         /\ selected \in Node
         /\ PipelineInv'
<1>1. /\ selected # NoNode
      /\ reserve_slot(selected, held)
      /\ dispatch' = Store(dispatch, held, [node |-> selected, step |-> "post"])
      /\ held' = NoJob
      /\ selected' = NoNode
      /\ UNCHANGED <<job_queue, submitted>>
  BY DEF DispatcherReserve, queueVars, clientVars
<1>2. held \in Job /\ selected \in Node
  BY <1>1 DEF PipelineInv, PipelineTypes
<1>3. held \notin DOMAIN reservations /\ held \notin DOMAIN dispatch /\ held \notin Queued
  BY DEF PipelineInv, WaitingHoldsNothing, NoDoublePlacement
<1>4. DOMAIN reservations' = DOMAIN reservations \cup {held}
  BY <1>1 DEF reserve_slot, Store
<1>5. /\ DOMAIN dispatch' = DOMAIN dispatch \cup {held}
      /\ dispatch'[held] = [node |-> selected, step |-> "post"]
      /\ \A j \in DOMAIN dispatch : dispatch'[j] = dispatch[j]
  BY <1>1, <1>3 DEF Store
<1>6. held \in submitted
  BY <1>2, SchedulerAssumption DEF PipelineInv, OnlySubmitted
<1>7. [node |-> selected, step |-> "post"] \in [node : Node, step : DispatchStep]
  BY <1>2 DEF DispatchStep
<1>8. PipelineTypes'
  BY <1>1, <1>2, <1>4, <1>5, <1>7 DEF PipelineInv, PipelineTypes
<1>9. Queued' = Queued
  BY <1>1 DEF Queued
<1>10. OnlySubmitted'
  BY <1>1, <1>4, <1>5, <1>6, <1>9 DEF PipelineInv, OnlySubmitted
<1>11. NoDoublePlacement'
  <2>1. NoJob \notin Queued \cup DOMAIN dispatch \cup {held}
    BY <1>2, SchedulerAssumption DEF PipelineInv, PipelineTypes, OnlySubmitted
  <2> QED
    BY <1>1, <1>3, <1>5, <1>9, <2>1 DEF PipelineInv, NoDoublePlacement
<1>12. WaitingHoldsNothing'
  <2> SUFFICES ASSUME NEW j \in DOMAIN reservations'
               PROVE  j \notin Queued /\ j # NoJob /\ ~AtStep(j, "released")'
    BY <1>1, <1>9 DEF WaitingHoldsNothing
  <2>1. j \in Job
    BY <1>2, <1>4 DEF PipelineInv, PipelineTypes
  <2>2. CASE j = held
    BY <1>3, <1>5, <2>1, <2>2, SchedulerAssumption DEF AtStep
  <2>3. CASE j # held
    <3>1. j \in DOMAIN reservations /\ (j \in DOMAIN dispatch' <=> j \in DOMAIN dispatch)
      BY <1>4, <1>5, <2>3
    <3> QED
      BY <1>5, <2>1, <3>1, SchedulerAssumption DEF PipelineInv, WaitingHoldsNothing, AtStep
  <2> QED
    BY <2>2, <2>3
<1> QED
  BY <1>2, <1>3, <1>8, <1>10, <1>11, <1>12 DEF PipelineInv

-----------------------------------------------------------------------------
(* A dispatch thread that moves on, but not to "released", changes nothing *)
(* of the above.                                                           *)
LEMMA GoToPipeline ==
  ASSUME PipelineInv, NEW j \in DOMAIN dispatch, NEW step \in DispatchStep,
         GoTo(j, step), step # "released",
         UNCHANGED <<job_queue, held, selected, submitted, reservations>>
  PROVE  PipelineInv'
<1>1. /\ DOMAIN dispatch' = DOMAIN dispatch
      /\ dispatch'[j] \in [node : Node, step : DispatchStep]
      /\ dispatch'[j].step = step
      /\ \A k \in DOMAIN dispatch : k # j => dispatch'[k] = dispatch[k]
  BY DEF GoTo, PipelineInv, PipelineTypes
<1>2. PipelineTypes'
  BY <1>1 DEF PipelineInv, PipelineTypes
<1>3. OnlySubmitted'
  BY <1>1 DEF PipelineInv, OnlySubmitted, Queued
<1>4. NoDoublePlacement'
  BY <1>1 DEF PipelineInv, NoDoublePlacement, Queued
<1>5. WaitingHoldsNothing'
  BY <1>1 DEF PipelineInv, WaitingHoldsNothing, AtStep, Queued
<1> QED
  BY <1>2, <1>3, <1>4, <1>5 DEF PipelineInv

(* A dispatch thread that ends without putting its job back. *)
LEMMA EndPipeline ==
  ASSUME PipelineInv, NEW j, EndThread(j),
         UNCHANGED <<job_queue, held, selected, submitted, reservations>>
  PROVE  PipelineInv'
<1>1. /\ DOMAIN dispatch' = DOMAIN dispatch \ {j}
      /\ \A k \in DOMAIN dispatch' : dispatch'[k] = dispatch[k]
  BY DEF EndThread, Pop, Restrict
<1> QED
  BY <1>1 DEF PipelineInv, PipelineTypes, OnlySubmitted, NoDoublePlacement,
              WaitingHoldsNothing, AtStep, Queued

LEMMA ReleaseFailedPipeline ==
  ASSUME PipelineInv, NEW j \in Job, ReleaseFailed(j)
  PROVE  PipelineInv'
<1>1. /\ j \in DOMAIN dispatch
      /\ release_slot(j)
      /\ dispatch' = [dispatch EXCEPT ![j].step = "released"]
      /\ UNCHANGED <<job_queue, held, selected, submitted>>
  BY DEF ReleaseFailed, AtStep, GoTo, queueVars, clientVars, dispatcherVars
<1>2. DOMAIN reservations' = DOMAIN reservations \ {j}
  BY <1>1, ReleaseShrinks
<1>3. /\ DOMAIN dispatch' = DOMAIN dispatch
      /\ dispatch'[j] \in [node : Node, step : DispatchStep]
      /\ \A k \in DOMAIN dispatch : k # j => dispatch'[k] = dispatch[k]
  BY <1>1 DEF PipelineInv, PipelineTypes, DispatchStep
<1>4. PipelineTypes'
  BY <1>1, <1>2, <1>3 DEF PipelineInv, PipelineTypes
<1>5. OnlySubmitted'
  BY <1>1, <1>2, <1>3 DEF PipelineInv, OnlySubmitted, Queued
<1>6. NoDoublePlacement'
  BY <1>1, <1>3 DEF PipelineInv, NoDoublePlacement, Queued
<1>7. WaitingHoldsNothing'
  BY <1>1, <1>2, <1>3 DEF PipelineInv, WaitingHoldsNothing, AtStep, Queued
<1> QED
  BY <1>4, <1>5, <1>6, <1>7 DEF PipelineInv

LEMMA RequeuePipeline ==
  ASSUME PipelineInv, NEW j \in Job, Requeue(j)
  PROVE  PipelineInv'
<1>1. /\ AtStep(j, "released")
      /\ job_queue' = Append(job_queue, j)
      /\ EndThread(j)
      /\ UNCHANGED <<held, selected, submitted, reservations>>
  BY DEF Requeue, csVars, ledgerVars, clientVars, dispatcherVars
<1>2. /\ j \in DOMAIN dispatch
      /\ j \notin Queued
      /\ j # held
      /\ j \notin DOMAIN reservations
      /\ j \in submitted
      /\ job_queue \in Seq(Job)
  BY <1>1 DEF PipelineInv, PipelineTypes, NoDoublePlacement, WaitingHoldsNothing,
              OnlySubmitted, AtStep
<1>3. /\ DOMAIN dispatch' = DOMAIN dispatch \ {j}
      /\ \A k \in DOMAIN dispatch' : dispatch'[k] = dispatch[k]
  BY <1>1 DEF EndThread, Pop, Restrict
<1>4. /\ job_queue' \in Seq(Job)
      /\ Queued' = Queued \cup {j}
      /\ \A i, k \in 1 .. Len(job_queue') : job_queue'[i] = job_queue'[k] => i = k
  BY <1>1, <1>2, QueueAppend DEF PipelineInv, NoDoublePlacement
<1>5. PipelineTypes'
  BY <1>1, <1>3, <1>4 DEF PipelineInv, PipelineTypes
<1>6. OnlySubmitted'
  BY <1>1, <1>2, <1>3, <1>4 DEF PipelineInv, OnlySubmitted
<1>7. NoDoublePlacement'
  BY <1>1, <1>2, <1>3, <1>4 DEF PipelineInv, NoDoublePlacement
<1>8. WaitingHoldsNothing'
  BY <1>1, <1>2, <1>3, <1>4 DEF PipelineInv, WaitingHoldsNothing, AtStep
<1> QED
  BY <1>5, <1>6, <1>7, <1>8 DEF PipelineInv

LEMMA DispatchThreadPipeline ==
  ASSUME PipelineInv, NEW j \in Job, DispatchThread(j)
  PROVE  PipelineInv'
<1> USE DEF csVars, ledgerVars, queueVars, clientVars, dispatcherVars, AtStep, DispatchStep
<1>1. CASE PostAccepted(j)
  BY <1>1, GoToPipeline DEF PostAccepted
<1>2. CASE PostFails(j)
  BY <1>2, GoToPipeline DEF PostFails
<1>3. CASE PostResponseLost(j)
  BY <1>3, GoToPipeline DEF PostResponseLost
<1>4. CASE RecordDispatchFails(j)
  BY <1>4, GoToPipeline DEF RecordDispatchFails
<1>5. CASE RecordDispatch(j)
  BY <1>5, EndPipeline DEF RecordDispatch
<1>6. CASE Abandon(j)
  BY <1>6, EndPipeline DEF Abandon
<1>7. CASE AbandonFails(j)
  BY <1>7, EndPipeline DEF AbandonFails
<1>8. CASE ReleaseFailed(j)
  BY <1>8, ReleaseFailedPipeline
<1>9. CASE Requeue(j)
  BY <1>9, RequeuePipeline
<1> QED
  BY <1>1, <1>2, <1>3, <1>4, <1>5, <1>6, <1>7, <1>8, <1>9 DEF DispatchThread

(* What agents, callbacks and the expiration loop do: at most a reservation *)
(* less.                                                                    *)
LEMMA CallbackPipeline ==
  ASSUME PipelineInv, NEW r, Callback(r)
  PROVE  PipelineInv'
<1> USE DEF csVars, ledgerVars, queueVars, clientVars, dispatcherVars, threadVars, pipelineVars
<1>1. CASE CallbackRelease(r)
  BY <1>1, PipelineShrinks, ReleaseShrinks DEF CallbackRelease
<1>2. CASE CallbackRecord(r)
  BY <1>2, PipelineUnchanged DEF CallbackRecord
<1>3. CASE CallbackRecordFails(r)
  BY <1>3, PipelineUnchanged DEF CallbackRecordFails
<1>4. CASE LoseCallback(r)
  BY <1>4, PipelineUnchanged DEF LoseCallback
<1> QED
  BY <1>1, <1>2, <1>3, <1>4 DEF Callback

LEMMA AgentPipeline ==
  ASSUME PipelineInv, NEW n, AgentStep(n)
  PROVE  PipelineInv'
<1> USE DEF csVars, ledgerVars, queueVars, clientVars, dispatcherVars, threadVars, pipelineVars
<1>1. CASE AgentRegister(n) \/ AgentRegisterFails(n)
  BY <1>1, PipelineUnchanged DEF AgentRegister, AgentRegisterFails, register_node
<1>2. CASE AgentServe(n)
  BY <1>2, PipelineUnchanged DEF AgentServe
<1>3. CASE AgentHeartbeat(n)
  BY <1>3, PipelineUnchanged DEF AgentHeartbeat, register_heartbeat
<1>4. CASE AgentCrash(n)
  BY <1>4, PipelineUnchanged DEF AgentCrash
<1> QED
  BY <1>1, <1>2, <1>3, <1>4 DEF AgentStep

-----------------------------------------------------------------------------
LEMMA PipelineInit == Init => PipelineInv
<1> SUFFICES ASSUME Init PROVE PipelineInv
  OBVIOUS
<1>1. /\ job_queue = << >>
      /\ held = NoJob
      /\ selected = NoNode
      /\ submitted = {}
      /\ DOMAIN dispatch = {}
      /\ DOMAIN reservations = {}
  BY DEF Init, QueueInit, CSInit, EmptyDict
<1>2. job_queue \in Seq(Job) /\ Queued = {}
  BY <1>1 DEF Queued
<1> QED
  BY <1>1, <1>2 DEF PipelineInv, PipelineTypes, OnlySubmitted, NoDoublePlacement,
                    WaitingHoldsNothing

(* Every thread of the scheduler and every agent keeps the invariant. *)
LEMMA PipelineNext == PipelineInv /\ [Next]_vars => PipelineInv'
<1> SUFFICES ASSUME PipelineInv, [Next]_vars PROVE PipelineInv'
  OBVIOUS
<1> USE DEF csVars, ledgerVars, queueVars, clientVars, dispatcherVars, threadVars, pipelineVars
<1>1. ASSUME NEW j \in Job, SubmitEnqueue(j) PROVE PipelineInv'
  BY <1>1, SubmitPipeline
<1>2. ASSUME NEW j \in Job, SubmitInsertFails(j) PROVE PipelineInv'
  BY <1>2, PipelineUnchanged DEF SubmitInsertFails
<1>3. ASSUME NEW j, NEW run, SubmitInsert(j, run) PROVE PipelineInv'
  BY <1>3, PipelineUnchanged DEF SubmitInsert
<1>4. CASE DispatcherDequeue
  BY <1>4, DequeuePipeline
<1>5. CASE DispatcherReserve
  BY <1>5, ReservePipeline
<1>6. CASE DispatcherReserveRefused
  BY <1>6, RefusedPipeline
<1>7. ASSUME NEW n \in Node, DispatcherSelect(n) PROVE PipelineInv'
  BY <1>7, SelectPipeline
<1>8. ASSUME NEW j \in Job, DispatchThread(j) PROVE PipelineInv'
  BY <1>8, DispatchThreadPipeline
<1>9. ASSUME NEW n \in Node, AgentStep(n) PROVE PipelineInv'
  BY <1>9, AgentPipeline
<1>10. ASSUME NEW e, ExecutionStep(e) PROVE PipelineInv'
  BY <1>10, PipelineUnchanged DEF ExecutionStep, FinishExecution, WaitFails, OrphanEnds
<1>11. ASSUME NEW r, Callback(r) PROVE PipelineInv'
  BY <1>11, CallbackPipeline
<1>12. ASSUME NEW expired, ExpireNodes(expired) PROVE PipelineInv'
  BY <1>12, PipelineUnchanged DEF ExpireNodes, remove_expired_nodes
<1>13. CASE UNCHANGED vars
  BY <1>13, PipelineUnchanged DEF vars
<1>14. CASE OtherStep
  BY <1>1, <1>2, <1>4, <1>5, <1>6, <1>8, <1>9, <1>10, <1>11, <1>12, <1>14 DEF OtherStep
<1> QED
  BY <1>3, <1>7, <1>13, <1>14 DEF Next

LEMMA PipelineAlways == Spec => []PipelineInv
BY PipelineInit, PipelineNext, PTL DEF Spec

(* Retries, late reports and lost replies never multiply a job: it is in   *)
(* at most one place on its way to a node.                                 *)
THEOREM NeverPlacedTwice == Spec => []NoDoublePlacement
BY PipelineAlways, PTL DEF PipelineInv

(* No reservation is ever overwritten by a later one of the same job. *)
THEOREM WaitingJobsHoldNothing == Spec => []WaitingHoldsNothing
BY PipelineAlways, PTL DEF PipelineInv

-----------------------------------------------------------------------------
(* Each step of the scheduler is, on the ledger, a step of ClusterState. *)
LEMMA LedgerStep == PipelineInv /\ [Next]_vars => [CSNext]_csVars
<1> SUFFICES ASSUME PipelineInv, [Next]_vars PROVE [CSNext]_csVars
  OBVIOUS
<1>1. ASSUME NEW j, release_slot(j) PROVE [CSNext]_csVars
  <2>1. CASE j \in DOMAIN reservations
    BY <1>1, <2>1 DEF CSNext, PipelineInv, PipelineTypes
  <2>2. CASE j \notin DOMAIN reservations
    BY <1>1, <2>2 DEF release_slot
  <2> QED
    BY <2>1, <2>2
<1>2. ASSUME NEW j \in Job, SubmitEnqueue(j) \/ SubmitInsertFails(j) PROVE [CSNext]_csVars
  BY <1>2 DEF SubmitEnqueue, SubmitInsertFails
<1>3. ASSUME NEW j, NEW run, SubmitInsert(j, run) PROVE [CSNext]_csVars
  BY <1>3 DEF SubmitInsert
<1>4. CASE DispatcherDequeue
  BY <1>4 DEF DispatcherDequeue
<1>5. CASE DispatcherReserve
  BY <1>5, ReservePipeline DEF DispatcherReserve, CSNext
<1>6. CASE DispatcherReserveRefused
  BY <1>6 DEF DispatcherReserveRefused
<1>7. ASSUME NEW n \in Node, DispatcherSelect(n) PROVE [CSNext]_csVars
  BY <1>7 DEF DispatcherSelect
<1>8. ASSUME NEW j \in Job, DispatchThread(j) PROVE [CSNext]_csVars
  <2>1. CASE ReleaseFailed(j)
    BY <1>1, <2>1 DEF ReleaseFailed
  <2>2. CASE PostAccepted(j) \/ PostFails(j) \/ PostResponseLost(j)
    BY <2>2 DEF PostAccepted, PostFails, PostResponseLost
  <2>3. CASE RecordDispatch(j) \/ RecordDispatchFails(j)
    BY <2>3 DEF RecordDispatch, RecordDispatchFails
  <2>4. CASE Requeue(j) \/ Abandon(j) \/ AbandonFails(j)
    BY <2>4 DEF Requeue, Abandon, AbandonFails
  <2> QED
    BY <1>8, <2>1, <2>2, <2>3, <2>4 DEF DispatchThread
<1>9. ASSUME NEW n \in Node, AgentStep(n) PROVE [CSNext]_csVars
  <2>1. CASE AgentRegister(n) \/ AgentRegisterFails(n)
    BY <2>1 DEF AgentRegister, AgentRegisterFails, CSNext
  <2>2. CASE AgentHeartbeat(n)
    BY <2>2 DEF AgentHeartbeat, CSNext
  <2>3. CASE AgentServe(n) \/ AgentCrash(n)
    BY <2>3 DEF AgentServe, AgentCrash
  <2> QED
    BY <1>9, <2>1, <2>2, <2>3 DEF AgentStep
<1>10. ASSUME NEW e, ExecutionStep(e) PROVE [CSNext]_csVars
  BY <1>10 DEF ExecutionStep, FinishExecution, WaitFails, OrphanEnds
<1>11. ASSUME NEW r, Callback(r) PROVE [CSNext]_csVars
  <2>1. CASE CallbackRelease(r)
    BY <1>1, <2>1 DEF CallbackRelease
  <2>2. CASE CallbackRecord(r) \/ CallbackRecordFails(r) \/ LoseCallback(r)
    BY <2>2 DEF CallbackRecord, CallbackRecordFails, LoseCallback
  <2> QED
    BY <1>11, <2>1, <2>2 DEF Callback
<1>12. ASSUME NEW expired \in SUBSET last_heartbeat, ExpireNodes(expired)
       PROVE  [CSNext]_csVars
  BY <1>12 DEF ExpireNodes, CSNext
<1>13. CASE UNCHANGED vars
  BY <1>13 DEF vars
<1>14. CASE OtherStep
  BY <1>2, <1>4, <1>5, <1>6, <1>8, <1>9, <1>10, <1>11, <1>12, <1>14 DEF OtherStep
<1> QED
  BY <1>3, <1>7, <1>13, <1>14 DEF Next

(* The scheduler implements ClusterState: whatever the threads, the agents *)
(* and the faults do, the ledger is only ever used as CSSpec allows.       *)
THEOREM SchedulerUsesLedger == Spec => LedgerSpec
<1>1. Init => CSInit
  BY DEF Init
<1> QED
  BY <1>1, PipelineAlways, LedgerStep, PTL DEF Spec, LedgerSpec, CSSpec

(* Hence the whole scheduler keeps every node within its capacity ... *)
THEOREM SchedulerWithinCapacity == Spec => []WithinCapacity
BY SchedulerUsesLedger, CapacityRespected, PTL DEF LedgerSpec

(* ... never brings a removed node back ... *)
THEOREM SchedulerNoPhantomNode == Spec => []NoPhantomNode
BY SchedulerUsesLedger, NoPhantom, PTL DEF LedgerSpec

(* ... and counts nothing as used that no job will give back. *)
THEOREM SchedulerNoSlotLeaks == Spec => []LedgerBacked
BY SchedulerUsesLedger, NoSlotLeaks, PTL DEF LedgerSpec

-----------------------------------------------------------------------------
(* The part of TypeOK about the threads and the clients ... *)
ThreadTypes ==
  /\ DOMAIN dispatch_attempts \subseteq Job
  /\ \A j \in DOMAIN dispatch_attempts : dispatch_attempts[j] \in 1 .. MAX_DISPATCH_ATTEMPTS - 1
  /\ submitting \subseteq submitted
  /\ abandoned \subseteq Job

(* ... and the part about the agents and their reports. *)
AgentTypes ==
  /\ agent \in [Node -> {"down", "registered", "serving"}]
  /\ beating \subseteq Node
  /\ executing \subseteq Execution /\ orphaned \subseteq Execution
  /\ callback_sent \subseteq Report
  /\ callback_released \subseteq Report

SchedulerInv == PipelineInv /\ StoreTypeOK /\ ThreadTypes /\ AgentTypes

-----------------------------------------------------------------------------
(* The count of a job is in range, and so is that of its next execution. *)
LEMMA AttemptsRange ==
  ASSUME ThreadTypes, NEW j
  PROVE  /\ Attempts(j) \in Nat
         /\ Attempts(j) + 1 \in 1 .. MAX_DISPATCH_ATTEMPTS
BY SchedulerAssumption DEF ThreadTypes, Attempts

LEMMA PostedExecution ==
  ASSUME PipelineInv, ThreadTypes, NEW j \in DOMAIN dispatch
  PROVE  Posted(j) \in Execution
<1>1. j \in Job /\ dispatch[j].node \in Node
  BY DEF PipelineInv, PipelineTypes
<1> QED
  BY <1>1, AttemptsRange DEF Posted, Execution

LEMMA CountFailure ==
  ASSUME ThreadTypes, NEW j \in Job, record_dispatch_failure(j),
         Attempts(j) + 1 < MAX_DISPATCH_ATTEMPTS,
         UNCHANGED <<submitting, submitted, abandoned>>
  PROVE  ThreadTypes'
<1>1. Attempts(j) + 1 \in 1 .. MAX_DISPATCH_ATTEMPTS - 1
  BY AttemptsRange, SchedulerAssumption
<1>2. /\ DOMAIN dispatch_attempts' = DOMAIN dispatch_attempts \cup {j}
      /\ \A k \in DOMAIN dispatch_attempts' :
           dispatch_attempts'[k] = IF k = j THEN Attempts(j) + 1 ELSE dispatch_attempts[k]
  BY DEF record_dispatch_failure
<1> QED
  BY <1>1, <1>2 DEF ThreadTypes

LEMMA ForgetCount ==
  ASSUME ThreadTypes, NEW j, forget_dispatch_attempts(j),
         submitting' = submitting, submitted' = submitted, abandoned' \subseteq Job
  PROVE  ThreadTypes'
<1>1. /\ DOMAIN dispatch_attempts' = DOMAIN dispatch_attempts \ {j}
      /\ \A k \in DOMAIN dispatch_attempts' : dispatch_attempts'[k] = dispatch_attempts[k]
  BY DEF forget_dispatch_attempts
<1> QED
  BY <1>1 DEF ThreadTypes

-----------------------------------------------------------------------------
LEMMA ThreadTypesNext ==
  ASSUME PipelineInv, ThreadTypes, [Next]_vars
  PROVE  ThreadTypes'
<1> USE DEF queueVars, clientVars, threadVars
<1>1. CASE UNCHANGED <<dispatch_attempts, submitting, submitted, abandoned>>
  BY <1>1 DEF ThreadTypes
<1>2. ASSUME NEW j \in Job, SubmitEnqueue(j) \/ SubmitInsertFails(j) PROVE ThreadTypes'
  BY <1>2 DEF SubmitEnqueue, SubmitInsertFails, enqueue_job, ThreadTypes
<1>3. ASSUME NEW j, NEW run, SubmitInsert(j, run) PROVE ThreadTypes'
  BY <1>3 DEF SubmitInsert, ThreadTypes
<1>4. CASE DispatcherDequeue \/ DispatcherReserve \/ DispatcherReserveRefused
  BY <1>1, <1>4 DEF DispatcherDequeue, dequeue_job, DispatcherReserve, DispatcherReserveRefused
<1>5. ASSUME NEW n, DispatcherSelect(n) PROVE ThreadTypes'
  BY <1>1, <1>5 DEF DispatcherSelect
<1>6. ASSUME NEW j \in Job, DispatchThread(j) PROVE ThreadTypes'
  <2>1. CASE PostAccepted(j) \/ PostFails(j) \/ PostResponseLost(j) \/ RecordDispatchFails(j)
    BY <1>1, <2>1 DEF PostAccepted, PostFails, PostResponseLost, RecordDispatchFails
  <2>2. CASE ReleaseFailed(j)
    BY <1>1, <2>2 DEF ReleaseFailed
  <2>3. CASE RecordDispatch(j) \/ AbandonFails(j)
    BY <2>3, ForgetCount DEF RecordDispatch, AbandonFails, ThreadTypes
  <2>4. CASE Abandon(j)
    <3>1. abandoned' \subseteq Job
      BY <2>4 DEF Abandon, ThreadTypes
    <3> QED
      BY <2>4, <3>1, ForgetCount DEF Abandon
  <2>5. CASE Requeue(j)
    BY <2>5, CountFailure DEF Requeue
  <2> QED
    BY <1>6, <2>1, <2>2, <2>3, <2>4, <2>5 DEF DispatchThread
<1>7. ASSUME NEW n, AgentStep(n) PROVE ThreadTypes'
  BY <1>1, <1>7 DEF AgentStep, AgentRegister, AgentRegisterFails, AgentServe, AgentHeartbeat,
              AgentCrash
<1>8. ASSUME NEW e, ExecutionStep(e) PROVE ThreadTypes'
  BY <1>1, <1>8 DEF ExecutionStep, FinishExecution, WaitFails, OrphanEnds
<1>9. ASSUME NEW r, Callback(r) PROVE ThreadTypes'
  BY <1>1, <1>9 DEF Callback, CallbackRelease, CallbackRecord, CallbackRecordFails, LoseCallback
<1>10. ASSUME NEW expired, ExpireNodes(expired) PROVE ThreadTypes'
  BY <1>1, <1>10 DEF ExpireNodes
<1>11. CASE UNCHANGED vars
  BY <1>1, <1>11 DEF vars
<1>12. CASE OtherStep
  BY <1>2, <1>4, <1>6, <1>7, <1>8, <1>9, <1>10, <1>12 DEF OtherStep
<1> QED
  BY <1>3, <1>5, <1>11, <1>12 DEF Next

LEMMA AgentTypesNext ==
  ASSUME PipelineInv, ThreadTypes, AgentTypes, [Next]_vars
  PROVE  AgentTypes'
<1> USE DEF agentVars, processVars, executionVars, reportVars
<1>1. CASE UNCHANGED agentVars
  BY <1>1 DEF AgentTypes
<1>2. ASSUME NEW j \in Job, SubmitEnqueue(j) \/ SubmitInsertFails(j) PROVE AgentTypes'
  BY <1>1, <1>2 DEF SubmitEnqueue, SubmitInsertFails
<1>3. ASSUME NEW j, NEW run, SubmitInsert(j, run) PROVE AgentTypes'
  BY <1>1, <1>3 DEF SubmitInsert
<1>4. CASE DispatcherDequeue \/ DispatcherReserve \/ DispatcherReserveRefused
  BY <1>1, <1>4 DEF DispatcherDequeue, DispatcherReserve, DispatcherReserveRefused
<1>5. ASSUME NEW n, DispatcherSelect(n) PROVE AgentTypes'
  BY <1>1, <1>5 DEF DispatcherSelect
<1>6. ASSUME NEW j \in Job, DispatchThread(j) PROVE AgentTypes'
  <2>1. CASE PostAccepted(j) \/ PostResponseLost(j)
    <3>1. Posted(j) \in Execution
      BY <2>1, PostedExecution DEF PostAccepted, PostResponseLost, AtStep
    <3> QED
      BY <2>1, <3>1 DEF PostAccepted, PostResponseLost, AgentTypes
  <2>2. CASE PostFails(j) \/ RecordDispatch(j) \/ RecordDispatchFails(j)
    BY <1>1, <2>2 DEF PostFails, RecordDispatch, RecordDispatchFails
  <2>3. CASE ReleaseFailed(j) \/ Requeue(j) \/ Abandon(j) \/ AbandonFails(j)
    BY <1>1, <2>3 DEF ReleaseFailed, Requeue, Abandon, AbandonFails
  <2> QED
    BY <1>6, <2>1, <2>2, <2>3 DEF DispatchThread
<1>7. ASSUME NEW n \in Node, AgentStep(n) PROVE AgentTypes'
  BY <1>7 DEF AgentStep, AgentRegister, AgentRegisterFails, AgentServe, AgentHeartbeat,
              AgentCrash, AgentTypes
<1>8. ASSUME NEW e, ExecutionStep(e) PROVE AgentTypes'
  <2>1. \A ex \in executing, success \in Outcomes \cup {FALSE} :
          [execution |-> ex, success |-> success] \in Report
    BY SchedulerAssumption DEF AgentTypes, Report
  <2>2. CASE FinishExecution(e)
    BY <2>1, <2>2 DEF FinishExecution, AgentTypes
  <2>3. CASE WaitFails(e)
    BY <2>1, <2>3 DEF WaitFails, AgentTypes
  <2>4. CASE OrphanEnds(e)
    BY <2>4 DEF OrphanEnds, AgentTypes
  <2> QED
    BY <1>8, <2>2, <2>3, <2>4 DEF ExecutionStep
<1>9. ASSUME NEW r, Callback(r) PROVE AgentTypes'
  BY <1>9 DEF Callback, CallbackRelease, CallbackRecord, CallbackRecordFails,
              LoseCallback, AgentTypes
<1>10. ASSUME NEW expired, ExpireNodes(expired) PROVE AgentTypes'
  BY <1>1, <1>10 DEF ExpireNodes
<1>11. CASE UNCHANGED vars
  BY <1>1, <1>11 DEF vars
<1>12. CASE OtherStep
  BY <1>2, <1>4, <1>6, <1>7, <1>8, <1>9, <1>10, <1>12 DEF OtherStep
<1> QED
  BY <1>3, <1>5, <1>11, <1>12 DEF Next

-----------------------------------------------------------------------------
(* The tables of JobStore, for every order of calls: their types, and that *)
(* a finished job stays finished.                                          *)
LEMMA SetStatusRows ==
  ASSUME StoreTypeOK, NEW j, NEW status \in Status, SetStatus(j, status)
  PROVE  /\ DOMAIN jobs' = DOMAIN jobs
         /\ \A k \in DOMAIN jobs :
              /\ jobs'[k] \in JobRow
              /\ jobs'[k].run_id = jobs[k].run_id
              /\ jobs'[k].status = IF k = j THEN status ELSE jobs[k].status
BY DEF SetStatus, StoreTypeOK, JobRow

LEMMA DispatchRows ==
  ASSUME StoreTypeOK, NEW j, NEW n \in Node, db_dispatch_job(j, n)
  PROVE  /\ DOMAIN jobs' = DOMAIN jobs
         /\ \A k \in DOMAIN jobs :
              /\ jobs'[k] \in JobRow
              /\ jobs'[k].run_id = jobs[k].run_id
              /\ jobs[k].status \in Terminal => jobs'[k].status = jobs[k].status
BY DEF db_dispatch_job, StoreTypeOK, JobRow, Status

LEMMA SubmitRows ==
  ASSUME StoreTypeOK, NEW j \in Job, NEW run \in Run \cup {NoRun}, db_submit_job(j, run)
  PROVE  /\ DOMAIN jobs' = DOMAIN jobs \cup {j}
         /\ jobs'[j] \in JobRow
         /\ \A k \in DOMAIN jobs : jobs'[k] = jobs[k]
BY DEF db_submit_job, StoreTypeOK, JobRow, Status

(* The step part of TerminalSticky. *)
StickyStep ==
  /\ \A j \in DOMAIN jobs :
       /\ j \in DOMAIN jobs'
       /\ jobs'[j].run_id = jobs[j].run_id
       /\ jobs[j].status \in Terminal => jobs'[j].status \in Terminal
  /\ DOMAIN job_results \subseteq DOMAIN job_results'

LEMMA ResultStep ==
  ASSUME StoreTypeOK, NEW j \in Job, NEW n \in Node, NEW success \in BOOLEAN,
         db_record_job_result(j, n, success)
  PROVE  StoreTypeOK' /\ StickyStep
<1> DEFINE status == IF success THEN "completed" ELSE "failed"
<1>1. status \in Terminal /\ status \in Status
  BY DEF Terminal, Status
<1>2. SetStatus(j, status)
  BY DEF db_record_job_result
<1>3. /\ DOMAIN job_results' = DOMAIN job_results \cup {j}
      /\ \A k \in DOMAIN job_results' :
           job_results'[k] = IF k = j THEN [node_id |-> n, success |-> success]
                             ELSE job_results[k]
  BY DEF db_record_job_result
<1>4. [node_id |-> n, success |-> success] \in ResultRow
  BY DEF ResultRow
<1> HIDE DEF status
<1> QED
  BY <1>1, <1>2, <1>3, <1>4, SetStatusRows DEF StoreTypeOK, StickyStep

LEMMA StoreStep ==
  ASSUME StoreTypeOK, [StoreNext]_storeVars
  PROVE  StoreTypeOK' /\ StickyStep
<1>1. ASSUME NEW j \in Job, NEW run \in Run \cup {NoRun}, db_submit_job(j, run)
      PROVE  StoreTypeOK' /\ StickyStep
  <2>1. job_results' = job_results
    BY <1>1 DEF db_submit_job
  <2> QED
    BY <1>1, <2>1, SubmitRows DEF StoreTypeOK, StickyStep
<1>2. ASSUME NEW j \in Job, NEW n \in Node, db_dispatch_job(j, n)
      PROVE  StoreTypeOK' /\ StickyStep
  <2>1. job_results' = job_results
    BY <1>2 DEF db_dispatch_job
  <2> QED
    BY <1>2, <2>1, DispatchRows DEF StoreTypeOK, StickyStep
<1>3. ASSUME NEW j \in Job, NEW n \in Node, NEW success \in BOOLEAN,
             db_record_job_result(j, n, success)
      PROVE  StoreTypeOK' /\ StickyStep
  BY <1>3, ResultStep
<1>4. ASSUME NEW j \in Job, db_mark_job_failed(j)
      PROVE  StoreTypeOK' /\ StickyStep
  <2>1. SetStatus(j, "failed") /\ job_results' = job_results
    BY <1>4 DEF db_mark_job_failed
  <2>2. "failed" \in Status /\ "failed" \in Terminal
    BY DEF Status, Terminal
  <2> QED
    BY <2>1, <2>2, SetStatusRows DEF StoreTypeOK, StickyStep
<1>5. CASE UNCHANGED storeVars
  BY <1>5 DEF storeVars, StoreTypeOK, StickyStep
<1> QED
  BY <1>1, <1>2, <1>3, <1>4, <1>5 DEF StoreNext

(* The tables hold only rows of their types. *)
THEOREM StoreTypeCorrect == StoreSpec => []StoreTypeOK
<1>1. StoreInit => StoreTypeOK
  BY DEF StoreInit, NoRows, StoreTypeOK
<1>2. StoreTypeOK /\ [StoreNext]_storeVars => StoreTypeOK'
  BY StoreStep
<1> QED
  BY <1>1, <1>2, PTL DEF StoreSpec

(* Whatever is written when, a finished job stays finished, keeps its run  *)
(* and keeps its result.                                                   *)
THEOREM FinishedStaysFinished == StoreSpec => TerminalSticky
<1>1. StoreTypeOK /\ [StoreNext]_storeVars => [StickyStep]_storeVars
  BY StoreStep
<1>2. StoreSpec => [][StickyStep]_storeVars
  BY <1>1, StoreTypeCorrect, PTL DEF StoreSpec
<1> QED
  BY <1>2, Zenon DEF TerminalSticky, StickyStep

-----------------------------------------------------------------------------
(* Each step of the scheduler is, on the tables, a step of JobStore. *)
LEMMA StoreUse ==
  ASSUME PipelineInv, AgentTypes, [Next]_vars
  PROVE  [StoreNext]_storeVars
<1>1. ASSUME NEW j \in Job, SubmitEnqueue(j) \/ SubmitInsertFails(j)
      PROVE  [StoreNext]_storeVars
  BY <1>1 DEF SubmitEnqueue, SubmitInsertFails
<1>2. ASSUME NEW j \in Job, NEW run \in Run \cup {NoRun}, SubmitInsert(j, run)
      PROVE  [StoreNext]_storeVars
  BY <1>2 DEF SubmitInsert, StoreNext
<1>3. CASE DispatcherDequeue \/ DispatcherReserve \/ DispatcherReserveRefused
  BY <1>3 DEF DispatcherDequeue, DispatcherReserve, DispatcherReserveRefused
<1>4. ASSUME NEW n, DispatcherSelect(n) PROVE [StoreNext]_storeVars
  BY <1>4 DEF DispatcherSelect
<1>5. ASSUME NEW j \in Job, DispatchThread(j) PROVE [StoreNext]_storeVars
  <2>1. CASE RecordDispatch(j)
    <3>1. dispatch[j].node \in Node
      BY <2>1 DEF RecordDispatch, AtStep, PipelineInv, PipelineTypes
    <3> QED
      BY <2>1, <3>1 DEF RecordDispatch, StoreNext
  <2>2. CASE Abandon(j)
    BY <2>2 DEF Abandon, StoreNext
  <2>3. CASE PostAccepted(j) \/ PostFails(j) \/ PostResponseLost(j)
    BY <2>3 DEF PostAccepted, PostFails, PostResponseLost
  <2>4. CASE RecordDispatchFails(j) \/ ReleaseFailed(j) \/ Requeue(j) \/ AbandonFails(j)
    BY <2>4 DEF RecordDispatchFails, ReleaseFailed, Requeue, AbandonFails
  <2> QED
    BY <1>5, <2>1, <2>2, <2>3, <2>4 DEF DispatchThread
<1>6. ASSUME NEW n, AgentStep(n) PROVE [StoreNext]_storeVars
  BY <1>6 DEF AgentStep, AgentRegister, AgentRegisterFails, AgentServe, AgentHeartbeat,
              AgentCrash
<1>7. ASSUME NEW e, ExecutionStep(e) PROVE [StoreNext]_storeVars
  BY <1>7 DEF ExecutionStep, FinishExecution, WaitFails, OrphanEnds
<1>8. ASSUME NEW r, Callback(r) PROVE [StoreNext]_storeVars
  <2>1. CASE CallbackRecord(r)
    <3>1. r.execution.job \in Job /\ r.execution.node \in Node /\ r.success \in BOOLEAN
      BY <2>1 DEF CallbackRecord, AgentTypes, Report, Execution
    <3> QED
      BY <2>1, <3>1 DEF CallbackRecord, StoreNext
  <2>2. CASE CallbackRelease(r) \/ CallbackRecordFails(r) \/ LoseCallback(r)
    BY <2>2 DEF CallbackRelease, CallbackRecordFails, LoseCallback
  <2> QED
    BY <1>8, <2>1, <2>2 DEF Callback
<1>9. ASSUME NEW expired, ExpireNodes(expired) PROVE [StoreNext]_storeVars
  BY <1>9 DEF ExpireNodes
<1>10. CASE UNCHANGED vars
  BY <1>10 DEF vars
<1>11. CASE OtherStep
  BY <1>1, <1>3, <1>5, <1>6, <1>7, <1>8, <1>9, <1>11 DEF OtherStep
<1> QED
  BY <1>2, <1>4, <1>10, <1>11 DEF Next

-----------------------------------------------------------------------------
LEMMA SchedulerInit == Init => SchedulerInv
<1> SUFFICES ASSUME Init PROVE SchedulerInv
  OBVIOUS
<1>1. PipelineInv
  BY PipelineInit
<1>2. StoreTypeOK
  BY DEF Init, StoreInit, NoRows, StoreTypeOK
<1>3. ThreadTypes /\ AgentTypes
  BY DEF Init, QueueInit, ThreadTypes, AgentTypes
<1> QED
  BY <1>1, <1>2, <1>3 DEF SchedulerInv

LEMMA SchedulerNext == SchedulerInv /\ [Next]_vars => SchedulerInv'
BY PipelineNext, StoreUse, StoreStep, ThreadTypesNext, AgentTypesNext DEF SchedulerInv

LEMMA SchedulerAlways == Spec => []SchedulerInv
BY SchedulerInit, SchedulerNext, PTL DEF Spec

(* Every variable of the composed system keeps its type; in particular no  *)
(* job is ever dispatched more than MAX_DISPATCH_ATTEMPTS times.           *)
THEOREM TypeCorrect == Spec => []TypeOK
<1>1. SchedulerInv /\ CSTypeOK => TypeOK
  BY DEF SchedulerInv, PipelineInv, PipelineTypes, ThreadTypes, AgentTypes, TypeOK
<1>2. Spec => []CSTypeOK
  BY SchedulerUsesLedger, CSTypeCorrect, PTL DEF LedgerSpec
<1> QED
  BY <1>1, <1>2, SchedulerAlways, PTL

(* The scheduler implements JobStore, so a late write of a dispatch thread *)
(* or of a callback never resurrects a finished job.                       *)
THEOREM FinishedJobsStayFinished == Spec => TerminalSticky
<1>1. Init => StoreInit
  BY DEF Init
<1>2. SchedulerInv /\ [Next]_vars => [StoreNext]_storeVars
  BY StoreUse DEF SchedulerInv
<1>3. Spec => StoreSpec
  BY <1>1, <1>2, SchedulerAlways, PTL DEF Spec, StoreSpec
<1> QED
  BY <1>3, FinishedStaysFinished
=============================================================================
