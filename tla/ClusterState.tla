---------------------------- MODULE ClusterState ----------------------------
(***************************************************************************)
(* scheduler/state.py: the in-memory view the scheduler keeps of its       *)
(* nodes, and the ledger of what it has promised to run on each of them.   *)
(*                                                                         *)
(* Every method that writes this state holds the RLock of the object, so   *)
(* one method is one action.  A Python dict is a function whose DOMAIN is  *)
(* the set of its keys.  Capabilities and requirements do not change       *)
(* between two registrations of a node or two attempts of a job, so they   *)
(* are constants.                                                          *)
(***************************************************************************)
EXTENDS Entities, Naturals, FiniteSets, Functions

CONSTANTS
  Cpus,        \* Cpus[n]: logical cores the node registered with
  MemoryMb,    \* MemoryMb[n]: memory the node registered with
  HasGpu,      \* the nodes whose capabilities.gpu is true
  CpuRequest,  \* CpuRequest[j]: requirements.cpu_request (schemas.py: ge=1)
  MemRequest,  \* MemRequest[j]: requirements.memory_mb, 0 for None
  NeedsGpu     \* the jobs whose requirements.requires_gpu is true

ASSUME CapacityAssumption ==
  /\ Cpus \in [Node -> Nat]
  /\ MemoryMb \in [Node -> Nat]
  /\ HasGpu \subseteq Node

ASSUME RequestAssumption ==
  /\ IsFiniteSet(Job)
  /\ CpuRequest \in [Job -> Nat \ {0}]
  /\ MemRequest \in [Job -> Nat]
  /\ NeedsGpu \subseteq Job

VARIABLES
  registrations,     \* node ids with a NodeRegistration
  last_heartbeat,    \* node ids with an entry in last_heartbeat (and heartbeats)
  running_jobs,      \* cores counted as used, per node
  allocated_memory,  \* memory counted as used, per node
  reservations,      \* job id -> the node on which it holds what it requested
  lapsed             \* history: nodes removed while a job held something there

ledgerVars == <<running_jobs, allocated_memory, reservations>>
csVars == <<registrations, last_heartbeat, ledgerVars, lapsed>>

-----------------------------------------------------------------------------
(* dict.get(key, 0) *)
Count(dict, key) == IF key \in DOMAIN dict THEN dict[key] ELSE 0

(* dict[key] = value *)
Store(dict, key, value) ==
  [k \in DOMAIN dict \cup {key} |-> IF k = key THEN value ELSE dict[k]]

(* dict.pop(key, None) for every key of a set *)
Pop(dict, keys) == Restrict(dict, DOMAIN dict \ keys)

(* Mutant: the count is not clamped at zero. *)
GiveBackUnclamped(dict, key, amount) ==
  [k \in DOMAIN dict |-> IF k = key THEN dict[k] - amount ELSE dict[k]]

(* max(0, dict.get(key, 0) - amount) stored under the key, if it is there *)
GiveBack(dict, key, amount) ==
  [k \in DOMAIN dict |->
     IF k # key THEN dict[k]
     ELSE IF dict[k] > amount THEN dict[k] - amount ELSE 0]

-----------------------------------------------------------------------------
EmptyDict == [key \in {} |-> 0]

CSInit ==
  /\ registrations = {}
  /\ last_heartbeat = {}
  /\ running_jobs = EmptyDict
  /\ allocated_memory = EmptyDict
  /\ reservations = EmptyDict
  /\ lapsed = {}

(* Mutant: the `not in` test of register_node is missing. *)
register_node_resets_count(n) ==
  /\ registrations' = registrations \cup {n}
  /\ running_jobs' = Store(running_jobs, n, 0)
  /\ UNCHANGED <<last_heartbeat, allocated_memory, reservations, lapsed>>

(* The node keeps the count it had if it is still known. *)
register_node(n) ==
  /\ registrations' = registrations \cup {n}
  /\ running_jobs' = IF n \in DOMAIN running_jobs THEN running_jobs
                    ELSE Store(running_jobs, n, 0)
  /\ UNCHANGED <<last_heartbeat, allocated_memory, reservations, lapsed>>

register_heartbeat(n) ==
  /\ last_heartbeat' = last_heartbeat \cup {n}
  /\ UNCHANGED <<registrations, ledgerVars, lapsed>>

(* The nodes `expired` have been silent for too long.  Only a node with a  *)
(* heartbeat can be found silent, and its jobs keep their reservations.    *)
remove_expired_nodes(expired) ==
  /\ expired # {}
  /\ expired \subseteq last_heartbeat
  /\ registrations' = registrations \ expired
  /\ last_heartbeat' = last_heartbeat \ expired
  /\ running_jobs' = Pop(running_jobs, expired)
  /\ allocated_memory' = Pop(allocated_memory, expired)
  /\ lapsed' = lapsed \cup (expired \cap {reservations[j] : j \in DOMAIN reservations})
  /\ UNCHANGED reservations

-----------------------------------------------------------------------------
(* Mutant: a fit is judged against the capacity alone, ignoring what the   *)
(* node already runs.                                                      *)
FitsEmptyNode(n, j) ==
  /\ j \in NeedsGpu => n \in HasGpu
  /\ CpuRequest[j] <= Cpus[n]
  /\ MemRequest[j] <= MemoryMb[n]

(* _fits *)
Fits(n, j) ==
  /\ j \in NeedsGpu => n \in HasGpu
  /\ Count(running_jobs, n) + CpuRequest[j] <= Cpus[n]
  /\ MemRequest[j] # 0 => Count(allocated_memory, n) + MemRequest[j] <= MemoryMb[n]

node_has_capacity(n, j) == n \in registrations /\ Fits(n, j)

get_available_nodes(j) == {n \in registrations : node_has_capacity(n, j)}

(* Mutant: reserve_slot re-checks that the job fits, not that the node is  *)
(* still registered.                                                       *)
reserve_slot_without_node_check(n, j) ==
  /\ Fits(n, j)
  /\ running_jobs' = Store(running_jobs, n, Count(running_jobs, n) + CpuRequest[j])
  /\ allocated_memory' =
       Store(allocated_memory, n, Count(allocated_memory, n) + MemRequest[j])
  /\ reservations' = Store(reservations, j, n)
  /\ UNCHANGED <<registrations, last_heartbeat, lapsed>>

(* reserve_slot returning True; when node_has_capacity is false it returns *)
(* False and changes nothing.                                              *)
reserve_slot(n, j) ==
  /\ node_has_capacity(n, j)
  /\ running_jobs' = Store(running_jobs, n, Count(running_jobs, n) + CpuRequest[j])
  /\ allocated_memory' =
       Store(allocated_memory, n, Count(allocated_memory, n) + MemRequest[j])
  /\ reservations' = Store(reservations, j, n)
  /\ UNCHANGED <<registrations, last_heartbeat, lapsed>>

(* Mutant: release_slot gives the cores back and forgets the memory. *)
release_slot_keeps_memory(j) ==
  IF j \in DOMAIN reservations
  THEN /\ running_jobs' = GiveBack(running_jobs, reservations[j], CpuRequest[j])
       /\ reservations' = Pop(reservations, {j})
       /\ UNCHANGED <<registrations, last_heartbeat, allocated_memory, lapsed>>
  ELSE UNCHANGED csVars

(* release_slot, keyed by job: nothing happens without a reservation. *)
release_slot(j) ==
  IF j \in DOMAIN reservations
  THEN /\ running_jobs' = GiveBack(running_jobs, reservations[j], CpuRequest[j])
       /\ allocated_memory' = GiveBack(allocated_memory, reservations[j], MemRequest[j])
       /\ reservations' = Pop(reservations, {j})
       /\ UNCHANGED <<registrations, last_heartbeat, lapsed>>
  ELSE UNCHANGED csVars

-----------------------------------------------------------------------------
(* The most general caller that never reserves twice for one job: a second *)
(* reservation would overwrite the first.  Scheduler shows that the        *)
(* dispatcher is such a caller.                                            *)
CSNext ==
  \/ \E n \in Node : register_node(n)
  \/ \E n \in Node : register_heartbeat(n)
  \/ \E expired \in SUBSET last_heartbeat : remove_expired_nodes(expired)
  \/ \E n \in Node, j \in Job \ DOMAIN reservations : reserve_slot(n, j)
  \/ \E j \in Job : release_slot(j)

CSSpec == CSInit /\ [][CSNext]_csVars

-----------------------------------------------------------------------------
(* What the jobs holding a reservation on a node requested in all.  One    *)
(* element per unit requested, so that the sum is a cardinality.           *)
Holders(n) == {j \in DOMAIN reservations : reservations[j] = n}

Units(jobs, request) == UNION {{j} \X (1 .. request[j]) : j \in jobs}

ReservedCpus(n) == Cardinality(Units(Holders(n), CpuRequest))
ReservedMemory(n) == Cardinality(Units(Holders(n), MemRequest))

(* Types: the counters are naturals and are kept for known nodes only. *)
CSTypeOK ==
  /\ registrations \subseteq Node
  /\ last_heartbeat \subseteq Node
  /\ DOMAIN running_jobs \subseteq Node
  /\ \A n \in DOMAIN running_jobs : running_jobs[n] \in Nat
  /\ DOMAIN allocated_memory \subseteq Node
  /\ \A n \in DOMAIN allocated_memory : allocated_memory[n] \in Nat
  /\ DOMAIN reservations \subseteq Job
  /\ \A j \in DOMAIN reservations : reservations[j] \in Node
  /\ lapsed \subseteq Node

(* A removed node is never resurrected as a phantom entry of a counter     *)
(* (reserve_slot, state.py:172-174): a job dispatched or finished after    *)
(* its node expired leaves no trace of the node.                           *)
NoPhantomNode ==
  /\ DOMAIN running_jobs = registrations
  /\ DOMAIN allocated_memory \subseteq registrations

(* Re-checking under the lock keeps usage within the node's real capacity  *)
(* (reserve_slot, state.py:170-174), whatever happened to the node between *)
(* selection and reservation and however often it left and came back.      *)
WithinCapacity ==
  /\ \A n \in DOMAIN running_jobs : running_jobs[n] <= Cpus[n]
  /\ \A n \in DOMAIN allocated_memory : allocated_memory[n] <= MemoryMb[n]

(* No slot leaks in the ledger: everything counted as used on a node is    *)
(* held by jobs whose release_slot will give it back, including after the  *)
(* node expired and registered again under the jobs that were on it.       *)
LedgerBacked ==
  \A n \in registrations :
    /\ Count(running_jobs, n) <= ReservedCpus(n)
    /\ Count(allocated_memory, n) <= ReservedMemory(n)

(* The counters are exact, neither leaking nor drifting, for every node    *)
(* that was never removed while a job held something on it (release_slot,  *)
(* state.py:208-210).  After such a removal they may drift: see Scheduler. *)
LedgerExact ==
  \A n \in registrations \ lapsed :
    /\ Count(running_jobs, n) = ReservedCpus(n)
    /\ Count(allocated_memory, n) = ReservedMemory(n)
=============================================================================
