----------------------------- MODULE Membership -----------------------------
(***************************************************************************)
(* Who belongs to the cluster, in real time: agents that register once and *)
(* send heartbeats (agent/main.py), the sweep that removes silent nodes    *)
(* (expiration_loop of scheduler/main.py over remove_expired_nodes of      *)
(* scheduler/state.py), and the node tables of scheduler/db.py.  Jobs      *)
(* reserve and release slots meanwhile, in any order ClusterState allows.  *)
(*                                                                         *)
(* Time is counted in seconds, and only as the time that has passed since  *)
(* something happened.  Delay bounds how much later than it could a thread *)
(* takes its next step, the time a message travels included.               *)
(***************************************************************************)
EXTENDS ClusterState

CONSTANTS
  BeatSleep,    \* HEARTBEAT_INTERVAL
  BeatMeasure,  \* get_current_load measures the load for this long
  SweepSleep,   \* expiration_loop sleeps for this long
  Timeout,      \* timeout_seconds
  Delay,        \* bound on lateness
  MaxLost       \* bound on the heartbeats in a row that are not delivered

ASSUME TimeAssumption ==
  {BeatSleep, BeatMeasure, SweepSleep, Timeout, Delay, MaxLost} \subseteq Nat

VARIABLES
  agent,          \* what the agent of a node, or its request, does next
  beat_age,       \* time since the agent went to sleep between two heartbeats
  lost,           \* heartbeats the agent has sent in vain since the last one
  beating,        \* history: nodes heard from since their agent started
  beat_row,       \* nodes whose heartbeat handler has yet to update the row
  silence,        \* time since last_heartbeat[n]; 0 without an entry
  sweep_age,      \* time since the expiration loop went to sleep
  now_age,        \* time since the sweep read `now`; NotSweeping when asleep
  nodes,          \* rows of nodes: node -> whether last_heartbeat is set
  node_profiles   \* nodes with a row in node_profiles

agentVars == <<agent, beat_age, lost, beating>>
tableVars == <<beat_row, nodes, node_profiles>>
sweepVars == <<sweep_age, now_age>>
mVars == <<csVars, agentVars, tableVars, silence, sweepVars>>

(* new_row and new_profile: the /register request of the agent is at the   *)
(* scheduler, which has stored the registration in memory.                 *)
AgentState == {"down", "new_row", "new_profile", "up"}

NotSweeping == Delay + 1

-----------------------------------------------------------------------------
MInit ==
  /\ CSInit
  /\ agent = [n \in Node |-> "down"]
  /\ beat_age = [n \in Node |-> 0]
  /\ lost = [n \in Node |-> 0]
  /\ beating = {}
  /\ beat_row = {}
  /\ silence = [n \in Node |-> 0]
  /\ sweep_age = 0
  /\ now_age = NotSweeping
  /\ nodes = [n \in {} |-> FALSE]
  /\ node_profiles = {}

-----------------------------------------------------------------------------
(* The agent process starts and posts /register: memory first ... *)
RegisterMemory(n) ==
  /\ agent[n] = "down"
  /\ register_node(n)
  /\ agent' = [agent EXCEPT ![n] = "new_row"]
  /\ UNCHANGED <<beat_age, lost, beating, tableVars, silence, sweepVars>>

(* ... then INSERT OR REPLACE of the row, which empties its heartbeat ... *)
RegisterRow(n) ==
  /\ agent[n] = "new_row"
  /\ nodes' = Store(nodes, n, FALSE)
  /\ agent' = [agent EXCEPT ![n] = "new_profile"]
  /\ UNCHANGED <<csVars, beat_age, lost, beating, beat_row, node_profiles, silence,
                 sweepVars>>

(* ... and of the profile.  The agent is answered and starts its threads;  *)
(* the heartbeat thread begins with a measurement.                         *)
RegisterProfile(n) ==
  /\ agent[n] = "new_profile"
  /\ node_profiles' = node_profiles \cup {n}
  /\ agent' = [agent EXCEPT ![n] = "up"]
  /\ beat_age' = [beat_age EXCEPT ![n] = BeatSleep]
  /\ UNCHANGED <<csVars, lost, beating, beat_row, nodes, silence, sweepVars>>

(* Mutant: the agent logs a failed registration and goes on, as it does    *)
(* for a failed heartbeat.                                                 *)
RegisterFailsUnnoticed(n) ==
  /\ agent[n] \in {"new_row", "new_profile"}
  /\ agent' = [agent EXCEPT ![n] = "up"]
  /\ beat_age' = [beat_age EXCEPT ![n] = BeatSleep]
  /\ UNCHANGED <<csVars, lost, beating, tableVars, silence, sweepVars>>

(* A transaction of the handler fails: the agent raises and exits. *)
RegisterFails(n) ==
  /\ agent[n] \in {"new_row", "new_profile"}
  /\ agent' = [agent EXCEPT ![n] = "down"]
  /\ UNCHANGED <<csVars, beat_age, lost, beating, tableVars, silence, sweepVars>>

(* Mutant: the heartbeat thread is not a daemon and outlives the server. *)
AgentDiesBeating(n) ==
  /\ agent[n] = "up"
  /\ agent' = [agent EXCEPT ![n] = "down"]
  /\ UNCHANGED <<csVars, beat_age, lost, beating, tableVars, silence, sweepVars>>

(* The process ends with its heartbeat thread, which is a daemon. *)
AgentDies(n) ==
  /\ agent[n] = "up"
  /\ agent' = [agent EXCEPT ![n] = "down"]
  /\ beat_age' = [beat_age EXCEPT ![n] = 0]
  /\ lost' = [lost EXCEPT ![n] = 0]
  /\ beating' = beating \ {n}
  /\ UNCHANGED <<csVars, tableVars, silence, sweepVars>>

-----------------------------------------------------------------------------
(* The heartbeat is due once the load has been measured. *)
Due(n) == agent[n] = "up" /\ beat_age[n] >= BeatSleep + BeatMeasure

(* Mutant: the time of the first heartbeat is kept. *)
HeardOnce(n) == IF n \in last_heartbeat THEN silence[n] ELSE 0

(* last_heartbeat[n] = time.time() *)
Heard(n) == 0

(* POST /heartbeat, whether or not the node is known. *)
Heartbeat(n) ==
  /\ Due(n)
  /\ register_heartbeat(n)
  /\ silence' = [silence EXCEPT ![n] = Heard(n)]
  /\ beat_row' = beat_row \cup {n}
  /\ beat_age' = [beat_age EXCEPT ![n] = 0]
  /\ lost' = [lost EXCEPT ![n] = 0]
  /\ beating' = beating \cup {n}
  /\ UNCHANGED <<agent, nodes, node_profiles, sweepVars>>

(* It is not delivered: the agent logs that and sleeps as usual. *)
HeartbeatLost(n) ==
  /\ Due(n)
  /\ lost[n] < MaxLost
  /\ lost' = [lost EXCEPT ![n] = lost[n] + 1]
  /\ beat_age' = [beat_age EXCEPT ![n] = 0]
  /\ UNCHANGED <<csVars, agent, beating, tableVars, silence, sweepVars>>

(* UPDATE nodes: nothing happens without a row, or when it fails. *)
HeartbeatRow(n) ==
  /\ n \in beat_row
  /\ beat_row' = beat_row \ {n}
  /\ nodes' \in {nodes, [k \in DOMAIN nodes |-> k = n \/ nodes[k]]}
  /\ UNCHANGED <<csVars, agentVars, node_profiles, silence, sweepVars>>

-----------------------------------------------------------------------------
SweepReadNow ==
  /\ now_age = NotSweeping
  /\ sweep_age >= SweepSleep
  /\ now_age' = 0
  /\ UNCHANGED <<csVars, agentVars, tableVars, silence, sweep_age>>

(* Mutant: a node that holds jobs is spared. *)
ExpiredIdle ==
  {n \in last_heartbeat : silence[n] > now_age + Timeout /\ Holders(n) = {}}

(* Under the lock, but with `now` as it was read before: a heartbeat that  *)
(* came in between is not older than `now`.                                *)
Expired == {n \in last_heartbeat : silence[n] > now_age + Timeout}

SweepRemove ==
  /\ now_age # NotSweeping
  /\ IF Expired = {} THEN UNCHANGED csVars ELSE remove_expired_nodes(Expired)
  /\ silence' = [n \in Node |-> IF n \in Expired THEN 0 ELSE silence[n]]
  /\ sweep_age' = 0
  /\ now_age' = NotSweeping
  /\ UNCHANGED <<agentVars, tableVars>>

-----------------------------------------------------------------------------
Jobs(n, j) ==
  /\ \/ j \notin DOMAIN reservations /\ reserve_slot(n, j)
     \/ j \in DOMAIN reservations /\ release_slot(j)
  /\ UNCHANGED <<agentVars, tableVars, silence, sweepVars>>

(* A second passes, unless a thread is as late as it can be.  An agent     *)
(* that is down may stay so; a handler goes on within Delay of anything.   *)
Tick ==
  /\ \A n \in Node : agent[n] = "up" => beat_age[n] < BeatSleep + BeatMeasure + Delay
  /\ IF now_age = NotSweeping THEN sweep_age < SweepSleep + Delay ELSE now_age < Delay
  /\ beat_age' = [n \in Node |-> IF agent[n] = "up" THEN beat_age[n] + 1 ELSE 0]
  /\ silence' = [n \in Node |-> IF n \in last_heartbeat THEN silence[n] + 1 ELSE 0]
  /\ sweep_age' = IF now_age = NotSweeping THEN sweep_age + 1 ELSE sweep_age
  /\ now_age' = IF now_age = NotSweeping THEN NotSweeping ELSE now_age + 1
  /\ UNCHANGED <<csVars, agent, lost, beating, tableVars>>

MNext ==
  \/ \E n \in Node :
       \/ RegisterMemory(n) \/ RegisterRow(n) \/ RegisterProfile(n) \/ RegisterFails(n)
       \/ AgentDies(n)
       \/ Heartbeat(n) \/ HeartbeatLost(n) \/ HeartbeatRow(n)
       \/ \E j \in Job : Jobs(n, j)
  \/ SweepReadNow \/ SweepRemove
  \/ Tick

MSpec == MInit /\ [][MNext]_mVars

-----------------------------------------------------------------------------
(* How long a node can have been silent and not be removed: it is found    *)
(* by the sweep after the one that just missed it, and a sweep is late in  *)
(* removing what it found, in waking up, and in removing again.            *)
MaxSilence == Timeout + SweepSleep + 3 * Delay

(* Types; a node is only heard from while its agent is up. *)
MTypeOK ==
  /\ agent \in [Node -> AgentState]
  /\ beat_age \in [Node -> 0 .. BeatSleep + BeatMeasure + Delay]
  /\ lost \in [Node -> 0 .. MaxLost]
  /\ beating \subseteq {n \in Node : agent[n] = "up"}
  /\ beat_row \subseteq Node /\ node_profiles \subseteq Node
  /\ DOMAIN nodes \subseteq Node /\ Range(nodes) \subseteq BOOLEAN
  /\ silence \in [Node -> Nat]
  /\ sweep_age \in 0 .. SweepSleep + Delay
  /\ now_age \in 0 .. NotSweeping

(* No node outlives its silence (expiration_loop, main.py:291-308;         *)
(* state.py:90-113): whatever jobs it holds and whenever its last          *)
(* heartbeat came, it is gone one sweep after the timeout at the latest.   *)
SilenceBounded ==
  \A n \in last_heartbeat : silence[n] <= MaxSilence

(* A live node is not removed (state.py:98-102; agent/main.py:125-158):    *)
(* only a node whose agent is down, or has restarted and not been heard    *)
(* from yet, leaves the cluster, as long as no more than MaxLost           *)
(* heartbeats in a row are lost.  It would never come back.                *)
LiveNodeKept ==
  [][ \A n \in registrations \ registrations' : n \notin beating ]_mVars

(* An agent only serves when both its row and its profile were stored      *)
(* (node_registration, agent/main.py:99-119 raises otherwise), although    *)
(* the scheduler knows the node before (main.py:320-337).                  *)
ServingMeansStored ==
  \A n \in Node : agent[n] = "up" => n \in DOMAIN nodes \cap node_profiles
=============================================================================
