# Verification of the heterogeneous scheduler

TLA+ modules, TLC configurations and TLAPS proofs for the scheduler in `src/`:
a FastAPI scheduler that places container jobs on nodes, the agents that run
them, and the experiment runs recorded in SQLite.

## The system

| Component | State | Operations | Modules |
|---|---|---|---|
| Cluster state (`scheduler/state.py`) | `registrations`, `last_heartbeat`, the ledger `running_jobs`, `allocated_memory`, `reservations`, all under one RLock | `register_node`, `register_heartbeat`, `remove_expired_nodes`, `reserve_slot`, `release_slot`, the availability queries | `ClusterState` |
| Job queue and attempts (`state.py`) | a thread-safe FIFO, failed dispatches per job | `enqueue_job`, `dequeue_job`, `record_dispatch_failure`, `forget_dispatch_attempts` | `DispatchQueue` |
| Job store (`scheduler/db.py`) | tables `jobs`, `job_results`, `runs` | one transaction per function | `JobStore`, `RunControl` |
| Scheduler (`scheduler/main.py`) | the job and node the dispatcher holds, one thread per dispatch | `/jobs`, `dispatcher_loop`, `select_node_for`, `dispatch_job`, `/job_callback`, `expiration_loop`, `/register`, `/heartbeat` | `Scheduler` |
| Agents (`agent/main.py`, `agent/executor.py`) | process state, containers somebody waits for, containers nobody waits for, reports on their way | register once, heartbeat, `/execute`, run, report once | `Scheduler` |
| Membership (`agent/main.py`, `main.py`, `state.py`, `db.py`) | ages of heartbeats and sleeps, tables `nodes` and `node_profiles` | `/register` with its transactions, `/heartbeat`, the sweep of `expiration_loop` | `Membership` |
| Run control (`main.py`, `db.py`) | `active_run_id`, the policy object, the run rows | `/runs/start`, `/runs/finish`, tagging of jobs | `RunControl` |
| Policies (`scheduler/policies/`) | the round-robin index | `select_node` | `Policies`; a free choice in `Scheduler` |
| Harness (`experiments/run_experiment.py`) | the run in progress | wait for nodes, open, submit, poll, close, export | `Experiment` |
| Metrics (`experiments/metrics.py`) | none: a function of the rows of a run | `summarise` and its parts | `Metrics` |
| Benchmarks, workloads, monitoring endpoints, logging | nothing the scheduler decides on | | not modelled |

The scheduler process has request handlers in a thread pool, one dispatcher
thread, one expiration thread and one short-lived thread per dispatch. They share
the cluster state (lock per method), the queue and the database (transaction per
function), and nothing holds a lock over two of these. Agents talk to it over
HTTP: a job goes out with `POST /execute` and comes back with
`POST /job_callback`, each sent once by its sender; a failed `/execute` is
retried by putting the job back on the queue.

What is hard: the row of a job is written after the job is queued; a node can
expire or fill between its selection and its reservation; a node can leave and
come back while jobs hold reservations on it; a lost reply makes a running job
look failed, so that two attempts of one job overlap; a report can arrive before
the dispatch it answers is recorded; a container outlives the agent that started
it, and the scheduler that knew of it; the times of a job are read on three hosts
whose clocks nothing keeps together; a run can be opened or closed between any
two steps of a submission, and is left open when the scheduler dies. `PROJECT.json` lists each hazard at its line with the
properties aimed at it.

## Modules

- `Entities` declares `Node` and `Job`.
- `ClusterState`: one action per method. Dicts are functions whose domain is the
  set of keys (`Store`, `Pop`, `GiveBack`). Capabilities and requirements are
  constants. `CSNext` is the most general caller that never reserves twice for
  one job: it is both a closed model of the component and the abstract
  specification that `Scheduler` is shown to implement (`LedgerSpec`). `lapsed`
  is a history variable: the nodes that were removed while a job held something
  on them.
- `DispatchQueue`, `JobStore`: operators over the queue and the tables, used by
  `Scheduler`. An UPDATE of a missing row changes nothing; an INSERT of an
  existing key is refused. `StoreSpec` is the most general caller of the tables.
- `Scheduler` extends the three and adds the threads, the agents and the
  messages. A handler or loop is cut exactly where it crosses a lock, a
  transaction or a message: `SubmitEnqueue`/`SubmitInsert`; `DispatcherDequeue`/
  `DispatcherSelect`/`DispatcherReserve`; the steps `post`, `accepted`,
  `failing`, `released` of a dispatch thread; `CallbackRelease`/`CallbackRecord`.
  Counting a failed dispatch and acting on the count is one step because only the
  thread of a job touches its count. What may go wrong in an instance is the
  constant `Faults`: crashes of agents and of the scheduler, missed heartbeats,
  undelivered POSTs, lost replies, lost reports, failing transactions, and waits
  for a container that raise. `executing` are the containers an agent waits for,
  `orphaned` those that run on after their agent died or its wait failed: started
  detached, they end unnoticed.
- `JobLifecycle`: what the scheduler promises of one job, without saying how: it
  waits, is placed, is accepted or waits again, is accepted once at most, is given
  up only after the last of its refusals in a row, and is recorded only after it
  was reported. `Scheduler` maps its state to it (`PhaseOf`, the attempts while a
  job waits) and is shown to implement it (`LifecycleSpec`).
- `RunControl` extends `Scheduler`: the steps of the handler that has `run_lock`,
  the read of `active_run_id` by a submission, the number of choices the current
  policy object has made, and the restart of the scheduler. `SchedulerRestart`
  drops everything that is in memory with every thread and handler, keeps the
  tables, the agents and the containers, and may lose reports on their way;
  `interrupted`, a history variable, are the runs that were open then.
- `Membership` extends `ClusterState` with time: the `/register` handler cut at its
  two transactions, the heartbeat thread, its load measurement and its sleep, the
  sweep that reads `now` before it takes the lock, and the node tables. Time is
  counted in seconds since the last event of each kind; jobs reserve and release
  slots in any order meanwhile.
- `Policies` adds to `ClusterState` what a policy sees: the order of the keys
  of the dict (`older`, a relation: a list of nodes is a set of them in that order), the loads of the last heartbeats, and its own counter.
  `Select` is `get_available_nodes` and `select_node`, `Reserve` and `Refused` the
  two outcomes of `reserve_slot`; the jobs of a trace are placed one at a time, as
  `dispatcher_loop` does. `steady_since` and `placements` are history variables.
- `Metrics` has one operator per function of `metrics.py`, over rows that are
  records; a quotient is a pair, NULL is `None`. A sum is the number of its units
  (`Total`), and the value at a rank the least one with that many at or below it
  (`Ranked`): definitions without recursion, which proofs can use. `MetricsReference`
  states, as assumptions TLC evaluates, that these are the sum and the sorted list of
  the code, what percentiles, distributions and Jain's index are by their textbook
  definitions, and where the code's percentile departs from the nearest rank it says it
  is (`metrics.py:27`).
- `Experiment` extends `Scheduler` and `Metrics`: a clock, the steps of the
  harness, and the timestamps. Every step of `Scheduler` is a step of it
  (`SchedulerStep`), with the times it reads or stores (`Timestamps`); rows and
  results are joined by `get_run_jobs` and summarised when the run is exported.
  A request of the harness that raises ends it without an export
  (`submit_jobs_raises`, `run_once_raises`), after which a submission still at work
  finds the run open or closed (`OpenRun`).
  `submitted_at` is read by the client, `dispatched_at` by the scheduler,
  `completed_at` and the two ends of a runtime by the agent. The variables hold
  moments of a reference clock; `get_run_jobs` adds to each what the clock of its
  host is ahead of it (`ClientAhead`, `SchedulerAhead`, `AgentAhead`, any integers).
  That these are constants is an assumption: no clock is set, or runs faster than
  another, during a run. Nothing is assumed of their values.
- `MC*` modules only name model values and small capacities.
- `*Proofs` modules hold the theorems.

Definitions commented `Mutant:` are wrong variants of the definition that follows
them; no specification uses them. Each property is paired in `PROJECT.json` with
a mutant it detects.

## Runs

| Run | What it asks | Instance |
|---|---|---|
| `cluster_state` | does the ledger stay within capacity, forget removed nodes, leak nothing and count exactly; is a silent node removed in bounded time, a live one kept, and no agent serving without its rows | 1 node of 3 cores, 3 jobs with 1 or 2 cores, with and without memory, one needing a GPU, in any order of calls; the intervals of the code (5 s sleeps, 1 s measurement, 15 s timeout), threads late by up to 1 s, at most one heartbeat in a row lost |
| `pipeline` | are jobs multiplied, run without a reservation, given up while running, resurrected, or out of the order of `JobLifecycle`, under crashes, expirations, lost POSTs and lost reports | 1 node, 2 jobs, 2 attempts |
| `delivery` | does each slot keep an owner and come back when accepted POSTs look failed and transactions fail | 2 nodes, 1 job, 2 attempts, so that two attempts run on different nodes at once |
| `progress` | is no job forgotten, and does every job get a result or is given up | 1 node that may be lost, 3 jobs of which 2 do not fit together and 1 needs a GPU nobody has, 2 attempts, failing POSTs |
| `run_control` | is one run open at most, does each tag name a run, is a job run once, across restarts of the scheduler | 1 job, 2 runs, 2 attempts, crashes of agents and scheduler, failing waits and failing inserts of a run |
| `policies` | is round robin even, does least loaded spread a burst | 2 nodes (2 and 3 cores), 3 jobs of which the first fills the smaller node, 2 loads, at most 5 choices |
| `experiment` | are the measured times in order and busy times within capacity but for what clocks differ, do the parts of a report agree, is it final once the run drained and counts all but the jobs given up, can the next run start | 1 node with one core, 2 jobs, 2 attempts, undelivered POSTs, unanswered submissions, a harness that fails at any request, a reference clock of 3 values, the client's clock 2 and the node's 1 ahead of the scheduler's |

The bounds are enough for the cases that matter: two jobs compete for one node
and fit together or not; one job has two executions on two nodes; a node leaves
and returns under a job (any number of times, nothing bounds it); the attempts
reach their maximum. `MaxIndex` caps the policy's counter in `RunControl` (where only zero or not
matters) and its choices in `Policies` (two more than the jobs, so that two
choices are refused). `MaxClock` lets two jobs run at once or one after the other
with time passing in between; the differences of the clocks in `experiment` are as
large as the times that are measured, so that waits and overheads do come out
negative. In `Membership` the ages are bounded by the code's own
intervals plus `Delay`; a node that stays silent is swept before its silence
exceeds 23 seconds, which is what `SilenceBounded` says. One node is enough there
because nodes share nothing but the sweep, and the theorems about the ledger cover
every number of nodes.
Deadlock is checked in `cluster_state` and `policies`; elsewhere the system rests when every job
is settled and the configurations say `CHECK_DEADLOCK FALSE`.

Runs that are expected to find a counterexample, each against a sentence of the
repository:

| Run | Sentence | What happens |
|---|---|---|
| `submit_race` | `db.py:292-297`: a finished job is not left in flight | the job runs and reports before its row is inserted as `queued` |
| `drift` | `state.py:208-210`: a late callback cannot drift the accounting below reality | the node expired with a job reserved on it, registered again with fresh counters, and runs that job beside a new one; the callback of the first job takes the new job's cores off the count |
| `abandoned_ran` | `db.py:353-354`: a job is given up before it ever ran | the agent accepted it and the reply was lost |
| `run_overlap` | `main.py:475-477`: a run requires a drained cluster | the job between `dequeue_job` and `reserve_slot` is in neither count |
| `round_robin` | `round_robin.py:11-14`: the Nth job of a trace lands on the same node however long the scheduler sat idle | the index is reduced modulo the nodes with room, so the third job goes elsewhere while the first still runs |

Some properties hold under a smaller set of faults than the model knows, because
the code does not provide more: `OneExecution`, `AbandonedNeverRan` and
`LifecycleSpec` need that a POST an agent accepts is seen accepted and recorded;
`ReservedWhileRunning` and `UsageCoversExecutions` also that waiting for a
container does not raise, since the report of a failed wait releases the slot;
`EverySlotReturned` and `NoOrphanReservation` that reports arrive and agents do not
crash; `JobAccounted` and `EveryJobSettles` that neither of these nor a failing
transaction happens. `EveryJobSettles` excepts a dispatcher that stays `Blocked`: it
holds one job at a time, and a job no node of the cluster can take holds up all
behind it. `LiveNodeKept` excepts a node that has not been heard from since its
agent started, because registering does not refresh `last_heartbeat`. The
properties of `Experiment` are checked with POSTs that do not reach their agent and
submissions that are not answered; what its times say is claimed up to the
differences between the clocks of the hosts they were read on, and
`UtilisationAtMostOne`, which is proved and not run, only if the client's is not
ahead of any node's (`ClientNotAhead`). Were it ahead, the makespan, which runs from
the client's clock to the nodes', would come out shorter than it was, and a
utilisation above one (`metrics.py:150-152`) would not mean oversubscription. The
configurations state which faults each run allows.

With accepted POSTs that look failed, or dispatches that cannot be recorded, the
code gives back the slot of a job that is running, and others may be placed beside
it. An export right after a drain may miss the record of the last dispatch. A
submission that is at work while a run starts or ends is tagged with the run it
happens to see. No property excludes these; their
notes in `PROJECT.json` say what is claimed nevertheless.

## Fairness

`Fairness` in `Scheduler` is weak fairness of each kind of step as a whole: the
dispatcher polls in an endless loop, started threads are scheduled, handlers run
to their end, containers end, an agent that is down is started again by its
operator. A POST is assumed to end, with an answer or an exception (the code sets
no timeout). Nothing is assumed of crashes, losses, expirations or heartbeats.

## Proofs

Checked by TLAPS for every set of nodes, jobs and runs, all capacities and
requests, and all faults. Assumptions on constants: capacities and requests are
naturals, a request is for at least one core (`schemas.py`), the set of jobs is
finite, the null values are no elements of their sets, at least one attempt.

- `ClusterStateProofs`: `CSInv` is inductive for `CSSpec`. It joins the types, the
  four safety properties and `HoldersKnown` (a job holds something only on a
  known or a lapsed node), without which exactness is not inductive: a node that
  registers for the first time must have no holders. Sums over reservations are
  cardinalities of sets of units, so that one more or one fewer holder is a
  theorem about finite sets (`UnitsAdd`).
- `SchedulerProofs`: the types of the whole system, with the bound on the attempts
  of a job, and that the scheduler implements `JobStore`, whose tables keep their
  types and never take a finished job back (`TerminalSticky`). `PipelineInv` is inductive
  for `Spec`: a job is in at most one of queue, dispatcher and dispatch threads, a
  job waiting there holds nothing, and a job never submitted is nowhere. From it
  every step of the scheduler is a step of `ClusterState` or leaves the ledger alone
  (`LedgerStep`), hence `Spec => LedgerSpec`, and the theorems of the component
  hold of the scheduler: capacity, no phantom nodes, no leaked slots.
- `LifecycleProofs`: what runs on the nodes and what becomes of each job, from
  assumptions on `Faults` that the theorems name. Under `AcceptedIsSeen` (no lost
  replies, no failing transactions) `ExecutionInv` is inductive: a job that was once
  accepted or given up is `Spent` and is never on its way to a node again, which
  `OneExecution` alone does not say of a job whose execution is over. Under
  `WaitSucceeds` as well, `ReservationInv` is: containers and unhandled reports are
  disjoint, and each of them, and each POST about to be sent, has its reservation.
  Mapping a core of a running container to a unit of its job's reservation is an
  injection, so the exactness of the ledger gives `UsageCoversExecutions`.
  `AccountInv` says where a job can be for each state of its row, and gives
  `JobAccounted` under `NothingLost` (no crash, no lost reply or report, no failing
  transaction); `SlotInv` says who will return each reservation, and gives
  `NoOrphanReservation` under `ReportsArrive`. Under `AcceptedIsSeen` the scheduler
  implements `JobLifecycle`: `Stages` ties the stage of a dispatch thread to the
  history of its job, `PhasesAre` reads the phase of a job off the places it is in,
  and one lemma per change of phase shows that the step is the action of
  `JobLifecycle` of the same name, or a stutter.
- `RunControlProofs`: one run is open at most and each tag names a run (`RunInv`:
  only the handler that has `run_lock` can have a run in creation, and the run in
  memory is the open row). Every step is a step of the scheduler or a restart
  (`RunsChangeNothingElse`), and a restart, which keeps the tables, the agents and
  the containers, preserves `ExecutionInv`: a job is executed once and a job given
  up never ran across any number of restarts. A restart forgets the ledger, so
  `ReservedWhileRunning`, `UsageCoversExecutions` and `JobAccounted` do not survive
  it and are claimed of one life of the scheduler only.
- `MembershipProofs`: membership uses the ledger as `CSSpec` allows, so the
  component's theorems hold under real agents and clocks. `StoredSoFar` (which rows
  a `/register` has written at each of its steps) gives `ServingMeansStored`.
  `SweptSilence` bounds the silence of a member by the time since the sweep, and
  since the `now` it compares with, were last taken: a silent node stays at most
  `Timeout + SweepSleep + 3 * Delay` (the sweep may be late, its `now` may be old
  when it takes the lock, and a node found just within the timeout waits for the
  next sweep). `HeardLately` bounds the silence of a live agent by the heartbeats
  lost in a row; with `RoomForLosses`, `(MaxLost + 1) * Period <= Timeout`, a live
  node is never swept. The code's values allow one loss: 2 * 7 <= 15.
- `PoliciesProofs`: in a strict total order of a finite set every position is taken
  once (`PositionsFill`, by counting predecessors), so that `nodes[index % len]` and
  the first of several minima exist; occupancies compared as products are ordered
  transitively. `RoundRobinInv` says that steady placements are choices in a row: a
  choice among the nodes known now keeps its room until it is reserved, because
  only the dispatcher takes room, so nothing between two of them was refused. With
  N nodes, shifting the turns of one node onto those of another is an injection
  that leaves out one turn at most (`TurnsAreEven`), hence `RoundRobinEven`.
  `BurstInv` extends `BurstSpreads` to the choice not yet reserved and to nodes
  that left with nothing on them.

- `MetricsProofs`: the statistics, for samples and reports of any size. Induction over
  a finite set is taken from the well-foundedness of strict inclusion
  (`FiniteInduction`, over a set of good subsets instead of a predicate). With it,
  parts that fit their places fit together (`PartsBound`) and sums of parts are sums
  of the whole (`PartsAddUp`): each row is in one group (`GroupsAddUp`) and each
  placed row with its runtime in one line of a node (`NodesAddUp`). `Rounded` is off
  by half at most, hence so is a percentile by half a measurement
  (`PercentileIsNear`). Jain's index is between 1/n and 1 (`FairnessInRange`): the
  Cauchy-Schwarz inequality, with `2 T z <= n z z + Q` for every `z` carried through
  the induction.

- `ExperimentProofs`: every run of the harness is a behaviour of `Spec`
  (`HarnessUsesScheduler`), so that the invariants above hold along it; `Effects`
  sums up what a step of the scheduler can do to the tables, the threads and the
  containers, once for all the proofs. Under `AcceptedIsSeen`, `TimeInv` orders the
  submission of a job, the start of its thread, its dispatch and the start and end
  of its container, across the thread and the callback that race to write them:
  hence `TimelineWithinSkew`, where each duration between two hosts is off by the
  constant their clocks differ. `KeptInv` hands the node of a job from its thread to its
  row, and gives `MeasurementKept`. Under `WaitSucceeds` as well, `SettledInv` says
  that a row is final only for a job with a result or given up, and that such a job
  holds no reservation; `DrainInv` says that when the harness saw the run drained,
  all jobs of the trace had final rows and still have: nothing is left
  (`NothingLeft`), which gives `DrainedMeansStartable` and, because the threads that may still write
  change only the record of the dispatch, `ExportIsFinal`. The rows are then those with
  a result and those of jobs given up, and the latter are in none of the counts
  (`CountsAddUp`): hence `UncountedWereGivenUp`. `ReportSound` follows from
  `MetricsProofs`, since the columns of a report are samples (`RowsAreSamples`).
  `UtilisationWithinSkew` is about a sum over the whole run, so its invariant speaks of
  every moment that has passed: `Using(n, t)` are the jobs that kept node `n` busy
  at time `t`, as far as containers, reports and results tell, and `UseInv` says they
  are no more than its cores. A step of the scheduler can only take from such a set
  (`UseShrinks`: what starts, starts now), and when the clock moves on, the jobs using
  a node are among the holders of its cores (`UsersHold`, `HoldersFit`), which the
  ledger keeps within capacity. `AttributedInv` says that the node in a row is the
  one that ran the job. The makespan, corrected by what the clocks of client and node
  differ, spans all that ran on the node (`MakespanSpans`), so that each second a
  report adds up for it can be given a place of its own in that span times its cores
  (`BusyTimeFits`). Where no node's clock is behind the client's the correction only
  takes away, which gives `UtilisationAtMostOne` (`UtilisationOnOneClock`, under
  `ClientNotAhead`). Nodes removed under a
  job are excepted, as in `LedgerExact`: there the accounting may drift. The run
  checks these properties with two kinds of faults; the theorems hold for every set
  of faults that meets the assumptions, and all constant differences between the
  clocks. More assumptions on constants: NULL is
  neither a number, a node nor a Boolean, and the offsets of the clocks are integers.

Model-checked only: the liveness properties `EverySlotReturned` and `EveryJobSettles`,
which are out of reach of the prover, and the samples of `MetricsReference`, which
compare the statistics with sorted lists and folds.

## Plan

In this order; each item names what it adds.

1. Done: the modules, the runs, and the proofs above.
2. The report as a reader takes it after a timeout: a row that came after its result
   is counted twice; and a node that joined after the start is counted with one core.
3. Clocks that are set or drift during a run.

## Not modelled

Contents of jobs (image, command), logging, the read-only endpoints, benchmarks,
workloads, the expansion of trace files: none of them changes state the scheduler
decides on. Job ids are taken to be unique, as the harness makes them
(`run_experiment.py:167`); a second submission of the same id is listed as a hazard.
A POST that is never answered is a hazard without a property: the code sets no
timeout, so nothing of the kind could be claimed. The restart of the scheduler is in
`RunControl` only; the runs of `Scheduler` and `Experiment` are about one life of it.
