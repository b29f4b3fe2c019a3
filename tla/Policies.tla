------------------------------ MODULE Policies ------------------------------
(***************************************************************************)
(* scheduler/policies/: how RoundRobinPolicy and LeastLoadedPolicy choose  *)
(* among the nodes the dispatcher offers them, over the ledger of          *)
(* ClusterState.  The dispatcher places the jobs of one trace, in order;   *)
(* nodes join, send heartbeats and expire, and jobs finish, at any time.   *)
(*                                                                         *)
(* A Python dict iterates in the order its keys were inserted, which is    *)
(* the order in which a policy sees the nodes.  A list of nodes is the set *)
(* of its elements here, ordered by `older`.                               *)
(***************************************************************************)
EXTENDS ClusterState, Sequences

CONSTANTS
  Trace,     \* the jobs in the order the dispatcher takes them off the queue
  Loads,     \* the values of current_load an agent may report
  NoNode,
  MaxIndex   \* bound on the choices of a policy, refused ones included

ASSUME PoliciesAssumption ==
  /\ Trace \in Seq(Job) /\ IsInjective(Trace)
  /\ Loads \subseteq Nat /\ 0 \in Loads
  /\ NoNode \notin Node
  /\ MaxIndex \in Nat

VARIABLES
  older,            \* <<m, n>> if m precedes n among the keys of registrations
  current_load,     \* per node: the load of its last heartbeat
  policy_name,      \* the policy in use
  index,            \* choices made so far (RoundRobinPolicy.index)
  available_nodes,  \* select_node_for: the nodes the policy was offered
  selected_node,    \* select_node_for: what it chose, or NoNode
  placements,       \* history: the placed jobs, and where they could have gone
  steady_since      \* history: the last placement chosen before the known nodes changed

policyVars == <<policy_name, index, available_nodes, selected_node, placements>>
pVars == <<csVars, older, current_load, policyVars, steady_since>>

(* The placement that is being decided may rest on the nodes known before. *)
KnownNodesChange ==
  steady_since' = Len(placements) + (IF selected_node = NoNode THEN 0 ELSE 1)

POLICIES == {"round_robin", "least_loaded"}

-----------------------------------------------------------------------------
PInit ==
  /\ CSInit
  /\ older = {}
  /\ current_load = [n \in Node |-> 0]
  /\ policy_name \in POLICIES
  /\ index = 0
  /\ available_nodes = {}
  /\ selected_node = NoNode
  /\ placements = << >>
  /\ steady_since = 0

(* Mutant: a node that registers again is listed twice, after itself. *)
RegisterAgain(n) ==
  /\ register_node(n)
  /\ older' = older \cup (registrations \X {n})
  /\ KnownNodesChange
  /\ UNCHANGED <<current_load, policyVars>>

(* A dict keeps the place of a key that is assigned again. *)
Register(n) ==
  /\ register_node(n)
  /\ IF n \in registrations THEN UNCHANGED <<older, steady_since>>
     ELSE older' = older \cup (registrations \X {n}) /\ KnownNodesChange
  /\ UNCHANGED <<current_load, policyVars>>

(* A heartbeat is accepted from any node, known or not. *)
Heartbeat(n, load) ==
  /\ register_heartbeat(n)
  /\ current_load' = [current_load EXCEPT ![n] = load]
  /\ UNCHANGED <<older, policyVars, steady_since>>

(* Without a heartbeat a node is reported with load zero. *)
Expire(expired) ==
  /\ remove_expired_nodes(expired)
  /\ older' = {pair \in older : pair[1] \notin expired /\ pair[2] \notin expired}
  /\ current_load' = [n \in Node |-> IF n \in expired THEN 0 ELSE current_load[n]]
  /\ KnownNodesChange
  /\ UNCHANGED policyVars

Finish(j) ==
  /\ j \in DOMAIN reservations
  /\ release_slot(j)
  /\ UNCHANGED <<older, current_load, policyVars, steady_since>>

-----------------------------------------------------------------------------
(* The nodes of a list that stand before a node. *)
Before(n, nodes) == {m \in nodes : <<m, n>> \in older}

Slots(n) == IF Cpus[n] > 1 THEN Cpus[n] ELSE 1

(* Mutant: the measured load decides before the occupancy. *)
NoBusierByLoad(a, b) ==
  \/ current_load[a] < current_load[b]
  \/ /\ current_load[a] = current_load[b]
     /\ Count(running_jobs, a) * Slots(b) <= Count(running_jobs, b) * Slots(a)

(* (slot_occupancy, current_load) of a does not exceed that of b.          *)
(* Occupancy is running_jobs / max(1, cpus), compared here as a product.   *)
NoBusier(a, b) ==
  LET occupancy_a == Count(running_jobs, a) * Slots(b)
      occupancy_b == Count(running_jobs, b) * Slots(a)
  IN  \/ occupancy_a < occupancy_b
      \/ occupancy_a = occupancy_b /\ current_load[a] <= current_load[b]

(* (slot_occupancy, current_load) of a is the smaller, or a comes first. *)
Preferred(a, b) == NoBusier(a, b) /\ (NoBusier(b, a) => <<a, b>> \in older)

(* Mutant: the first node of the list, whatever the counter. *)
RoundRobinHead(nodes) == CHOOSE n \in nodes : Before(n, nodes) = {}

(* nodes[index % len(nodes)] *)
RoundRobin(nodes) ==
  CHOOSE n \in nodes : Cardinality(Before(n, nodes)) = index % Cardinality(nodes)

(* min() returns the first of several minima. *)
LeastLoaded(nodes) ==
  CHOOSE a \in nodes : \A b \in nodes \ {a} : Preferred(a, b)

-----------------------------------------------------------------------------
(* The job select_node_for is called with. *)
Waiting == Len(placements) < Len(Trace)
NextJob == Trace[Len(placements) + 1]

(* The policy is offered the nodes with room and chooses.  With no such    *)
(* node it answers None, its counter stays, and the dispatcher asks again. *)
Select ==
  /\ Waiting /\ selected_node = NoNode
  /\ index < MaxIndex
  /\ available_nodes' = get_available_nodes(NextJob)
  /\ available_nodes' # {}
  /\ selected_node' = IF policy_name = "round_robin"
                      THEN RoundRobin(available_nodes')
                      ELSE LeastLoaded(available_nodes')
  /\ index' = index + 1
  /\ UNCHANGED <<csVars, older, current_load, policy_name, placements,
                 steady_since>>

(* reserve_slot succeeds: the job is placed. *)
Reserve ==
  /\ selected_node # NoNode
  /\ reserve_slot(selected_node, NextJob)
  /\ placements' = Append(placements, [job |-> NextJob, node |-> selected_node,
                                       offered |-> available_nodes])
  /\ available_nodes' = {}
  /\ selected_node' = NoNode
  /\ UNCHANGED <<older, current_load, policy_name, index, steady_since>>

(* The node is gone or full: ask the policy again, whose counter has moved. *)
Refused ==
  /\ selected_node # NoNode
  /\ ~node_has_capacity(selected_node, NextJob)
  /\ available_nodes' = {}
  /\ selected_node' = NoNode
  /\ UNCHANGED <<csVars, older, current_load, policy_name, index, placements,
                 steady_since>>

PNext ==
  \/ \E n \in Node : Register(n)
  \/ \E n \in Node, load \in Loads : Heartbeat(n, load)
  \/ \E expired \in SUBSET last_heartbeat : Expire(expired)
  \/ \E j \in Job : Finish(j)
  \/ Select \/ Reserve \/ Refused

PSpec == PInit /\ [][PNext]_pVars

-----------------------------------------------------------------------------
PlacedOn(n) == {i \in DOMAIN placements : placements[i].node = n}

(* The placements chosen among the nodes known now. *)
Steady == {i \in DOMAIN placements : i > steady_since}

(* Types; the order a policy sees is that of the known nodes, each once,   *)
(* and a choice is one of the nodes that were offered (select_node_for,    *)
(* main.py:202-205).                                                       *)
PTypeOK ==
  /\ CSTypeOK
  /\ older \subseteq registrations \X registrations
  /\ \A m, n \in registrations : <<m, n>> \in older <=> m # n /\ <<n, m>> \notin older
  /\ \A l, m, n \in registrations :
       <<l, m>> \in older /\ <<m, n>> \in older => <<l, n>> \in older
  /\ current_load \in [Node -> Loads]
  /\ policy_name \in POLICIES
  /\ index \in 0 .. MaxIndex
  /\ selected_node \in available_nodes \cup {NoNode}
  /\ selected_node = NoNode <=> available_nodes = {}
  /\ \A i \in DOMAIN placements :
       placements[i].node \in placements[i].offered
  /\ steady_since \in 0 .. Len(Trace)

(* Round robin cycles "one job each" (round_robin.py:9): while the known   *)
(* nodes stay the same and all have room for each job, no node is more     *)
(* than one job ahead of another, whatever happened to earlier choices.    *)
RoundRobinEven ==
  /\ policy_name = "round_robin"
  /\ \A i \in Steady : placements[i].offered = registrations
  => \A a, b \in registrations :
       Cardinality(Steady \cap PlacedOn(a)) <= Cardinality(Steady \cap PlacedOn(b)) + 1

(* A burst spreads by capacity (least_loaded.py:14-23), whatever loads the *)
(* heartbeats report: while the jobs placed so far all hold their cores,   *)
(* a node that got a job was, before it, no busier per core than any other *)
(* node it was preferred to is now.                                        *)
BurstSpreads ==
  /\ policy_name = "least_loaded"
  /\ lapsed = {}
  /\ \A i \in DOMAIN placements : placements[i].job \in DOMAIN reservations
  => \A a, b \in registrations : \A i \in PlacedOn(a) :
       /\ \A k \in PlacedOn(a) : k <= i
       /\ b \in placements[i].offered
       => (Count(running_jobs, a) - CpuRequest[placements[i].job]) * Slots(b)
            <= Count(running_jobs, b) * Slots(a)

(* The Nth job of a trace always lands on the same node regardless of how  *)
(* long the scheduler sat idle (round_robin.py:11-14): on the node it gets *)
(* when every earlier job has ended, while the cluster stays as it is.     *)
NthJobSameNode ==
  policy_name = "round_robin" /\ steady_since = 0 =>
    \A i \in DOMAIN placements :
      Cardinality(Before(placements[i].node, registrations))
        = (i - 1) % Cardinality(registrations)
=============================================================================
