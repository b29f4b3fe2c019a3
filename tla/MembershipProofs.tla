--------------------------- MODULE MembershipProofs ---------------------------
(* Who belongs to the cluster, for every set of nodes and every choice of  *)
(* the intervals: nobody serves unregistered, no node outlives its silence *)
(* by more than a sweep, and a live node stays as long as the timeout      *)
(* leaves room for the heartbeats that may be lost.                        *)
EXTENDS Membership, ClusterStateProofs

(* The longest a live agent sleeps and measures between two heartbeats. *)
Period == BeatSleep + BeatMeasure + Delay

LEMMA PeriodIsNat ==
  /\ Period \in Nat /\ MaxLost \in Nat /\ Delay \in Nat /\ Timeout \in Nat
  /\ BeatSleep \in Nat /\ BeatMeasure \in Nat /\ SweepSleep \in Nat
BY TimeAssumption DEF Period

-----------------------------------------------------------------------------
(* Each step is, on the ledger, a step of ClusterState. *)
LEMMA MembershipLedgerStep == [MNext]_mVars => [CSNext]_csVars
<1> SUFFICES ASSUME [MNext]_mVars PROVE [CSNext]_csVars
  OBVIOUS
<1>1. ASSUME NEW n \in Node,
             \/ RegisterRow(n) \/ RegisterProfile(n) \/ RegisterFails(n) \/ AgentDies(n)
             \/ HeartbeatLost(n) \/ HeartbeatRow(n)
      PROVE  [CSNext]_csVars
  BY <1>1 DEF RegisterRow, RegisterProfile, RegisterFails, AgentDies, HeartbeatLost,
              HeartbeatRow
<1>2. ASSUME NEW n \in Node, RegisterMemory(n) \/ Heartbeat(n) PROVE [CSNext]_csVars
  BY <1>2 DEF RegisterMemory, Heartbeat, CSNext
<1>3. ASSUME NEW n \in Node, NEW j \in Job, Jobs(n, j) PROVE [CSNext]_csVars
  BY <1>3 DEF Jobs, CSNext
<1>4. CASE SweepRemove
  <2>1. Expired \in SUBSET last_heartbeat
    BY DEF Expired
  <2> QED
    BY <1>4, <2>1 DEF SweepRemove, CSNext
<1>5. CASE SweepReadNow \/ Tick \/ UNCHANGED mVars
  BY <1>5 DEF SweepReadNow, Tick, mVars
<1> QED
  BY <1>1, <1>2, <1>3, <1>4, <1>5 DEF MNext

(* Real agents, sweeps and clocks use the ledger as ClusterState assumes. *)
LEMMA MembershipUsesLedger == MSpec => CSSpec
<1>1. MInit => CSInit
  BY DEF MInit
<1> QED
  BY <1>1, MembershipLedgerStep, PTL DEF MSpec, CSSpec

-----------------------------------------------------------------------------
(* How each step moves the entries of last_heartbeat. *)
LEMMA EntriesMove ==
  ASSUME [MNext]_mVars
  PROVE  \/ UNCHANGED last_heartbeat
         \/ \E n \in Node : Heartbeat(n) /\ last_heartbeat' = last_heartbeat \cup {n}
         \/ SweepRemove /\ last_heartbeat' = last_heartbeat \ Expired
<1> USE DEF csVars
<1>1. CASE SweepRemove
  BY <1>1 DEF SweepRemove, remove_expired_nodes
<1>2. ASSUME NEW n \in Node, Heartbeat(n) \/ RegisterMemory(n)
      PROVE  \/ UNCHANGED last_heartbeat
             \/ Heartbeat(n) /\ last_heartbeat' = last_heartbeat \cup {n}
  BY <1>2 DEF Heartbeat, register_heartbeat, RegisterMemory, register_node
<1>3. ASSUME NEW n \in Node, NEW j \in Job, Jobs(n, j) PROVE UNCHANGED last_heartbeat
  BY <1>3 DEF Jobs, reserve_slot, release_slot
<1>4. CASE SweepReadNow \/ Tick \/ UNCHANGED mVars
  BY <1>4 DEF SweepReadNow, Tick, mVars
<1>5. ASSUME NEW n \in Node,
             \/ RegisterRow(n) \/ RegisterProfile(n) \/ RegisterFails(n) \/ AgentDies(n)
             \/ HeartbeatLost(n) \/ HeartbeatRow(n)
      PROVE  UNCHANGED last_heartbeat
  BY <1>5 DEF RegisterRow, RegisterProfile, RegisterFails, AgentDies, HeartbeatLost,
              HeartbeatRow
<1> QED
  BY <1>1, <1>2, <1>3, <1>4, <1>5 DEF MNext

(* The types of the agents, ... *)
AgentTypes ==
  /\ agent \in [Node -> AgentState]
  /\ beat_age \in [Node -> 0 .. Period]
  /\ lost \in [Node -> 0 .. MaxLost]
  /\ beating \subseteq {n \in Node : agent[n] = "up"}

(* ... of the tables, ... *)
TableTypes ==
  /\ beat_row \subseteq Node /\ node_profiles \subseteq Node
  /\ DOMAIN nodes \subseteq Node
  /\ \A n \in DOMAIN nodes : nodes[n] \in BOOLEAN

(* ... and of the clocks. *)
ClockTypes ==
  /\ silence \in [Node -> Nat]
  /\ sweep_age \in 0 .. SweepSleep + Delay
  /\ now_age \in 0 .. NotSweeping

LEMMA AgentTypesStep ==
  ASSUME AgentTypes, [MNext]_mVars
  PROVE  AgentTypes'
<1> USE PeriodIsNat DEF AgentTypes, agentVars
<1>1. ASSUME NEW n \in Node, RegisterMemory(n) PROVE AgentTypes'
  BY <1>1 DEF RegisterMemory, AgentState
<1>2. ASSUME NEW n \in Node, RegisterRow(n) PROVE AgentTypes'
  BY <1>2 DEF RegisterRow, AgentState
<1>3. ASSUME NEW n \in Node, RegisterProfile(n) PROVE AgentTypes'
  <2>1. BeatSleep \in 0 .. Period
    BY DEF Period
  <2> QED
    BY <1>3, <2>1 DEF RegisterProfile, AgentState
<1>4. ASSUME NEW n \in Node, RegisterFails(n) PROVE AgentTypes'
  BY <1>4 DEF RegisterFails, AgentState
<1>5. ASSUME NEW n \in Node, AgentDies(n) PROVE AgentTypes'
  BY <1>5 DEF AgentDies, AgentState
<1>6. ASSUME NEW n \in Node, Heartbeat(n) PROVE AgentTypes'
  BY <1>6 DEF Heartbeat, Due
<1>7. ASSUME NEW n \in Node, HeartbeatLost(n) PROVE AgentTypes'
  BY <1>7 DEF HeartbeatLost
<1>8. CASE Tick
  <2>1. \A n \in Node : agent[n] = "up" => beat_age[n] + 1 \in 0 .. Period
    BY <1>8 DEF Tick, Period
  <2> QED
    BY <1>8, <2>1 DEF Tick
<1>9. CASE UNCHANGED agentVars
  BY <1>9
<1>10. ASSUME NEW n \in Node, HeartbeatRow(n) \/ \E j \in Job : Jobs(n, j) PROVE AgentTypes'
  BY <1>9, <1>10 DEF HeartbeatRow, Jobs
<1>11. CASE SweepReadNow \/ SweepRemove \/ UNCHANGED mVars
  BY <1>9, <1>11 DEF SweepReadNow, SweepRemove, mVars
<1> QED
  BY <1>1, <1>2, <1>3, <1>4, <1>5, <1>6, <1>7, <1>8, <1>10, <1>11 DEF MNext

LEMMA TableTypesStep ==
  ASSUME TableTypes, [MNext]_mVars
  PROVE  TableTypes'
<1> USE DEF TableTypes, tableVars
<1>1. ASSUME NEW n \in Node, RegisterRow(n) \/ RegisterProfile(n) PROVE TableTypes'
  BY <1>1 DEF RegisterRow, RegisterProfile, Store
<1>2. ASSUME NEW n \in Node, Heartbeat(n) PROVE TableTypes'
  BY <1>2 DEF Heartbeat
<1>3. ASSUME NEW n \in Node, HeartbeatRow(n) PROVE TableTypes'
  BY <1>3 DEF HeartbeatRow
<1>4. CASE UNCHANGED tableVars
  BY <1>4
<1>5. ASSUME NEW n \in Node,
             RegisterMemory(n) \/ RegisterFails(n) \/ AgentDies(n) \/ HeartbeatLost(n)
      PROVE  TableTypes'
  BY <1>4, <1>5 DEF RegisterMemory, RegisterFails, AgentDies, HeartbeatLost
<1>6. ASSUME NEW n \in Node, NEW j \in Job, Jobs(n, j) PROVE TableTypes'
  BY <1>4, <1>6 DEF Jobs
<1>7. CASE SweepReadNow \/ SweepRemove \/ Tick \/ UNCHANGED mVars
  BY <1>4, <1>7 DEF SweepReadNow, SweepRemove, Tick, mVars
<1> QED
  BY <1>1, <1>2, <1>3, <1>5, <1>6, <1>7 DEF MNext

LEMMA ClockTypesStep ==
  ASSUME ClockTypes, [MNext]_mVars
  PROVE  ClockTypes'
<1> USE PeriodIsNat DEF ClockTypes, sweepVars, NotSweeping
<1>1. ASSUME NEW n \in Node, Heartbeat(n) PROVE ClockTypes'
  BY <1>1 DEF Heartbeat, Heard
<1>2. CASE SweepReadNow
  BY <1>2 DEF SweepReadNow
<1>3. CASE SweepRemove
  BY <1>3 DEF SweepRemove
<1>4. CASE Tick
  BY <1>4 DEF Tick
<1>5. CASE UNCHANGED <<silence, sweepVars>>
  BY <1>5
<1>6. ASSUME NEW n \in Node,
             \/ RegisterMemory(n) \/ RegisterRow(n) \/ RegisterProfile(n) \/ RegisterFails(n)
             \/ AgentDies(n) \/ HeartbeatLost(n) \/ HeartbeatRow(n)
             \/ \E j \in Job : Jobs(n, j)
      PROVE  ClockTypes'
  BY <1>5, <1>6 DEF RegisterMemory, RegisterRow, RegisterProfile, RegisterFails, AgentDies,
     HeartbeatLost, HeartbeatRow, Jobs
<1>7. CASE UNCHANGED mVars
  BY <1>5, <1>7 DEF mVars
<1> QED
  BY <1>1, <1>2, <1>3, <1>4, <1>6, <1>7 DEF MNext

MembershipTypes == AgentTypes /\ TableTypes /\ ClockTypes

LEMMA TypesAlways == MSpec => []MembershipTypes
<1>1. MInit => AgentTypes
  BY PeriodIsNat DEF MInit, AgentTypes, AgentState
<1>2. MInit => TableTypes
  BY DEF MInit, TableTypes
<1>3. MInit => ClockTypes
  BY PeriodIsNat DEF MInit, ClockTypes, NotSweeping
<1>4. MembershipTypes /\ [MNext]_mVars => MembershipTypes'
  BY AgentTypesStep, TableTypesStep, ClockTypesStep DEF MembershipTypes
<1>5. MInit => MembershipTypes
  BY <1>1, <1>2, <1>3 DEF MembershipTypes
<1> QED
  BY <1>4, <1>5, PTL DEF MSpec

(* Every variable keeps its type, and only agents that are up are heard. *)
THEOREM MembershipTypeCorrect == MSpec => []MTypeOK
<1>1. MembershipTypes => MTypeOK
  BY DEF MembershipTypes, AgentTypes, TableTypes, ClockTypes, MTypeOK, Period, Range
<1> QED
  BY <1>1, TypesAlways, PTL

-----------------------------------------------------------------------------
(* What a registration has stored by the time the agent is at each step of *)
(* it; rows are never deleted.                                             *)
StoredSoFar ==
  \A n \in Node :
    /\ agent[n] = "new_profile" => n \in DOMAIN nodes
    /\ agent[n] = "up" => n \in DOMAIN nodes /\ n \in node_profiles

LEMMA StoredStep ==
  ASSUME AgentTypes, StoredSoFar, [MNext]_mVars
  PROVE  StoredSoFar'
<1> USE DEF agentVars, tableVars, AgentTypes
<1>1. ASSUME DOMAIN nodes \subseteq DOMAIN nodes', node_profiles \subseteq node_profiles',
             \A n \in Node : agent'[n] \in {"new_profile", "up"} => agent'[n] = agent[n]
      PROVE  StoredSoFar'
  BY <1>1 DEF StoredSoFar
<1>2. ASSUME NEW n \in Node, RegisterMemory(n) \/ RegisterFails(n) \/ AgentDies(n)
      PROVE  StoredSoFar'
  BY <1>1, <1>2 DEF RegisterMemory, RegisterFails, AgentDies
<1>3. ASSUME NEW n \in Node, RegisterRow(n) PROVE StoredSoFar'
  BY <1>3 DEF RegisterRow, Store, StoredSoFar
<1>4. ASSUME NEW n \in Node, RegisterProfile(n) PROVE StoredSoFar'
  BY <1>4 DEF RegisterProfile, StoredSoFar
<1>5. ASSUME NEW n \in Node, Heartbeat(n) \/ HeartbeatLost(n) \/ HeartbeatRow(n)
      PROVE  StoredSoFar'
  BY <1>1, <1>5 DEF Heartbeat, HeartbeatLost, HeartbeatRow
<1>6. ASSUME NEW n \in Node, NEW j \in Job, Jobs(n, j) PROVE StoredSoFar'
  BY <1>1, <1>6 DEF Jobs
<1>7. CASE SweepReadNow \/ SweepRemove \/ Tick \/ UNCHANGED mVars
  BY <1>1, <1>7 DEF SweepReadNow, SweepRemove, Tick, mVars
<1> QED
  BY <1>2, <1>3, <1>4, <1>5, <1>6, <1>7 DEF MNext

(* An agent that serves is in both tables. *)
THEOREM ServingIsStored == MSpec => []ServingMeansStored
<1>1. MInit => StoredSoFar
  BY DEF MInit, StoredSoFar
<1>2. MembershipTypes /\ StoredSoFar /\ [MNext]_mVars => StoredSoFar'
  BY StoredStep DEF MembershipTypes
<1>3. StoredSoFar => ServingMeansStored
  BY DEF StoredSoFar, ServingMeansStored
<1> QED
  BY <1>1, <1>2, <1>3, TypesAlways, PTL DEF MSpec

-----------------------------------------------------------------------------
(* A node the last sweep spared was silent for no longer than the timeout  *)
(* and the lateness of that sweep; since then it has aged with the loop.   *)
SweptSilence ==
  \A n \in last_heartbeat :
    silence[n] <= Timeout + Delay + sweep_age + (IF now_age = NotSweeping THEN 0 ELSE now_age)

LEMMA SweptStep ==
  ASSUME ClockTypes, last_heartbeat \subseteq Node, SweptSilence, [MNext]_mVars
  PROVE  SweptSilence'
<1> USE PeriodIsNat DEF sweepVars, NotSweeping, ClockTypes
<1>1. CASE SweepReadNow
  BY <1>1 DEF SweepReadNow, SweptSilence, csVars
<1>2. CASE SweepRemove
  <2>1. last_heartbeat' = last_heartbeat \ Expired
    BY <1>2 DEF SweepRemove, remove_expired_nodes, csVars
  <2>2. \A n \in last_heartbeat' : silence'[n] = silence[n] /\ silence[n] <= now_age + Timeout
    BY <1>2, <2>1 DEF SweepRemove, Expired
  <2>3. now_age <= Delay /\ sweep_age' = 0 /\ now_age' = NotSweeping
    BY <1>2 DEF SweepRemove
  <2> QED
    BY <2>1, <2>2, <2>3 DEF SweptSilence
<1>3. CASE Tick
  <2>1. last_heartbeat' = last_heartbeat
    BY <1>3 DEF Tick, csVars
  <2>2. \A n \in last_heartbeat : silence'[n] = silence[n] + 1
    BY <1>3 DEF Tick
  <2>3. CASE now_age = NotSweeping
    BY <1>3, <2>1, <2>2, <2>3 DEF Tick, SweptSilence
  <2>4. CASE now_age # NotSweeping
    BY <1>3, <2>1, <2>2, <2>4 DEF Tick, SweptSilence
  <2> QED
    BY <2>3, <2>4
<1>4. ASSUME NEW n \in Node, Heartbeat(n) PROVE SweptSilence'
  <2>1. last_heartbeat' = last_heartbeat \cup {n}
    BY <1>4 DEF Heartbeat, register_heartbeat
  <2>2. UNCHANGED sweepVars /\ silence' = [silence EXCEPT ![n] = 0]
    BY <1>4 DEF Heartbeat, Heard
  <2> QED
    BY <2>1, <2>2 DEF SweptSilence
<1>5. CASE UNCHANGED <<last_heartbeat, silence, sweepVars>>
  BY <1>5 DEF SweptSilence
<1>6. ASSUME NEW n \in Node,
             \/ RegisterMemory(n) \/ RegisterRow(n) \/ RegisterProfile(n) \/ RegisterFails(n)
             \/ AgentDies(n) \/ HeartbeatLost(n) \/ HeartbeatRow(n)
             \/ \E j \in Job : Jobs(n, j)
      PROVE  UNCHANGED <<silence, sweepVars>>
  BY <1>6 DEF RegisterMemory, RegisterRow, RegisterProfile, RegisterFails, AgentDies,
     HeartbeatLost, HeartbeatRow, Jobs
<1>7. CASE UNCHANGED mVars
  BY <1>5, <1>7 DEF mVars, csVars
<1>8. CASE UNCHANGED last_heartbeat
  BY <1>1, <1>2, <1>3, <1>4, <1>5, <1>6, <1>7, <1>8 DEF MNext
<1> QED
  BY <1>2, <1>4, <1>8, EntriesMove

(* A silent node is removed by the sweep after the one that just missed    *)
(* it, whatever it holds and whenever its last heartbeat came.             *)
THEOREM SilentNodesGo == MSpec => []SilenceBounded
<1>1. MInit => SweptSilence
  BY DEF MInit, CSInit, SweptSilence
<1>2. CSTypeOK /\ MembershipTypes /\ SweptSilence /\ [MNext]_mVars => SweptSilence'
  BY SweptStep DEF MembershipTypes, CSTypeOK
<1>3. CSTypeOK /\ MembershipTypes /\ SweptSilence => SilenceBounded
  <2> SUFFICES ASSUME CSTypeOK, MembershipTypes, SweptSilence, NEW n \in last_heartbeat
               PROVE  silence[n] <= Timeout + SweepSleep + 3 * Delay
    BY DEF SilenceBounded, MaxSilence
  <2>1. silence[n] \in Nat
    BY DEF CSTypeOK, MembershipTypes, ClockTypes
  <2>2. (IF now_age = NotSweeping THEN 0 ELSE now_age) \in 0 .. Delay
    BY PeriodIsNat DEF MembershipTypes, ClockTypes, NotSweeping
  <2> QED
    BY <2>1, <2>2, PeriodIsNat DEF SweptSilence, MembershipTypes, ClockTypes
<1>4. MSpec => []CSTypeOK
  BY MembershipUsesLedger, CSTypeCorrect, PTL
<1> QED
  BY <1>1, <1>2, <1>3, <1>4, TypesAlways, PTL DEF MSpec

-----------------------------------------------------------------------------
(* The timeout leaves room for the heartbeats that may be lost in a row    *)
(* and the one that follows them.                                          *)
RoomForLosses == (MaxLost + 1) * Period <= Timeout

(* Since the scheduler heard of a node, its agent has sent `lost`          *)
(* heartbeats in vain and is some way into the next period.                *)
HeardLately ==
  \A n \in beating : n \in last_heartbeat /\ silence[n] <= beat_age[n] + lost[n] * Period

LEMMA PeriodsAdd ==
  ASSUME NEW count \in Nat, NEW most \in Nat, count <= most, NEW period \in Nat
  PROVE  /\ count * period \in Nat
         /\ (count + 1) * period = count * period + period
         /\ count * period <= most * period
<1>1. /\ count * period \in Nat
      /\ (count + 1) * period = count * period + period
  OBVIOUS
<1>2. PICK rest \in Nat : most = count + rest
  <2>1. most - count \in Nat /\ most = count + (most - count)
    OBVIOUS
  <2> QED
    BY <2>1
<1>3. most * period = count * period + rest * period /\ rest * period \in Nat
  BY <1>2
<1> QED
  BY <1>1, <1>3

(* A node that is heard from is not found silent. *)
LEMMA HeardNotExpired ==
  ASSUME RoomForLosses, MembershipTypes, HeardLately, SweepRemove
  PROVE  beating \cap Expired = {}
<1> SUFFICES ASSUME NEW n \in beating PROVE silence[n] <= Timeout
  BY PeriodIsNat DEF Expired, MembershipTypes, AgentTypes, ClockTypes, NotSweeping
<1>1. /\ silence[n] \in Nat /\ beat_age[n] \in 0 .. Period /\ lost[n] \in 0 .. MaxLost
  BY DEF MembershipTypes, AgentTypes, ClockTypes
<1>2. /\ lost[n] * Period \in Nat /\ MaxLost * Period \in Nat
      /\ lost[n] * Period <= MaxLost * Period
      /\ (MaxLost + 1) * Period = MaxLost * Period + Period
  BY <1>1, PeriodIsNat, PeriodsAdd
<1>3. silence[n] <= beat_age[n] + lost[n] * Period
  BY DEF HeardLately
<1> QED
  BY <1>1, <1>2, <1>3, PeriodIsNat DEF RoomForLosses

LEMMA HeardStep ==
  ASSUME RoomForLosses, MembershipTypes, HeardLately, [MNext]_mVars
  PROVE  HeardLately'
<1>0. /\ silence \in [Node -> Nat] /\ beat_age \in [Node -> Nat] /\ lost \in [Node -> Nat]
      /\ agent \in [Node -> AgentState]
      /\ beating \subseteq {n \in Node : agent[n] = "up"}
      /\ \A n \in Node : lost[n] * Period \in Nat
  BY PeriodIsNat, PeriodsAdd DEF MembershipTypes, AgentTypes, ClockTypes
<1>1. CASE SweepRemove
  <2>1. last_heartbeat' = last_heartbeat \ Expired
    BY <1>1 DEF SweepRemove, remove_expired_nodes, csVars
  <2>2. \A n \in beating : silence'[n] = silence[n]
    BY <1>0, <1>1, HeardNotExpired DEF SweepRemove
  <2>3. UNCHANGED <<beating, beat_age, lost>>
    BY <1>1 DEF SweepRemove, agentVars
  <2> QED
    BY <1>1, <2>1, <2>2, <2>3, HeardNotExpired DEF HeardLately
<1>2. CASE Tick
  <2>1. /\ last_heartbeat' = last_heartbeat /\ beating' = beating /\ lost' = lost
        /\ \A n \in beating : /\ beat_age'[n] = beat_age[n] + 1
                              /\ n \in last_heartbeat => silence'[n] = silence[n] + 1
    BY <1>0, <1>2 DEF Tick, csVars
  <2>2. ASSUME NEW n \in beating
        PROVE  n \in last_heartbeat /\ silence'[n] <= beat_age'[n] + lost'[n] * Period
    <3>1. n \in Node /\ lost[n] * Period \in Nat
      BY <1>0
    <3> QED
      BY <1>0, <2>1, <3>1 DEF HeardLately
  <2> QED
    BY <2>1, <2>2 DEF HeardLately
<1>3. ASSUME NEW n \in Node, Heartbeat(n) PROVE HeardLately'
  <2>1. /\ last_heartbeat' = last_heartbeat \cup {n} /\ beating' = beating \cup {n}
        /\ silence' = [silence EXCEPT ![n] = 0]
        /\ beat_age' = [beat_age EXCEPT ![n] = 0] /\ lost' = [lost EXCEPT ![n] = 0]
    BY <1>3 DEF Heartbeat, register_heartbeat, Heard
  <2>2. 0 <= 0 + 0 * Period
    BY PeriodIsNat
  <2>3. silence'[n] <= beat_age'[n] + lost'[n] * Period
    BY <1>0, <2>1, <2>2
  <2>4. \A m \in beating \ {n} : /\ m \in last_heartbeat'
                                 /\ silence'[m] <= beat_age'[m] + lost'[m] * Period
    BY <1>0, <2>1 DEF HeardLately
  <2> QED
    BY <2>1, <2>3, <2>4 DEF HeardLately
<1>4. ASSUME NEW n \in Node, HeartbeatLost(n) PROVE HeardLately'
  <2>1. /\ last_heartbeat' = last_heartbeat /\ beating' = beating /\ silence' = silence
        /\ beat_age' = [beat_age EXCEPT ![n] = 0]
        /\ lost' = [lost EXCEPT ![n] = lost[n] + 1]
    BY <1>4 DEF HeartbeatLost, csVars
  <2>2. ASSUME n \in beating PROVE silence'[n] <= beat_age'[n] + lost'[n] * Period
    <3>1. silence[n] <= beat_age[n] + lost[n] * Period /\ beat_age[n] <= Period
      BY <2>2, PeriodIsNat DEF HeardLately, MembershipTypes, AgentTypes
    <3>2. (lost[n] + 1) * Period = lost[n] * Period + Period
      BY <1>0, PeriodIsNat, PeriodsAdd
    <3>3. silence[n] <= 0 + (lost[n] + 1) * Period
      BY <1>0, <3>1, <3>2, PeriodIsNat
    <3> QED
      BY <1>0, <2>1, <3>3
  <2>3. \A m \in beating \ {n} : silence'[m] <= beat_age'[m] + lost'[m] * Period
    BY <1>0, <2>1 DEF HeardLately
  <2> QED
    BY <2>1, <2>2, <2>3 DEF HeardLately
<1>5. ASSUME beating' \subseteq beating, UNCHANGED <<last_heartbeat, silence>>,
             \A m \in beating' : beat_age'[m] = beat_age[m] /\ lost'[m] = lost[m]
      PROVE  HeardLately'
  BY <1>5 DEF HeardLately
<1>6. ASSUME NEW n \in Node, AgentDies(n) PROVE HeardLately'
  BY <1>0, <1>5, <1>6 DEF AgentDies, csVars
<1>7. ASSUME NEW n \in Node, RegisterProfile(n) PROVE HeardLately'
  BY <1>0, <1>5, <1>7 DEF RegisterProfile, csVars
<1>8. ASSUME NEW n \in Node,
             \/ RegisterMemory(n) \/ RegisterRow(n) \/ RegisterFails(n) \/ HeartbeatRow(n)
             \/ \E j \in Job : Jobs(n, j)
      PROVE  UNCHANGED <<beating, beat_age, lost, silence>>
  BY <1>8 DEF RegisterMemory, RegisterRow, RegisterFails, HeartbeatRow, Jobs, agentVars
<1>9. CASE SweepReadNow \/ UNCHANGED mVars
  BY <1>5, <1>9 DEF SweepReadNow, mVars, agentVars, csVars
<1>10. CASE UNCHANGED last_heartbeat
  BY <1>1, <1>2, <1>3, <1>4, <1>5, <1>6, <1>7, <1>8, <1>9, <1>10 DEF MNext
<1> QED
  BY <1>1, <1>3, <1>10, EntriesMove

(* Only the sweep removes registrations, and none of a node heard lately. *)
LEMMA RemovedIsSilent ==
  ASSUME RoomForLosses, MembershipTypes, HeardLately, [MNext]_mVars
  PROVE  \A n \in registrations \ registrations' : n \notin beating
<1>1. CASE SweepRemove
  BY <1>1, HeardNotExpired DEF SweepRemove, remove_expired_nodes, csVars
<1>2. ASSUME NEW n \in Node, RegisterMemory(n) \/ Heartbeat(n)
      PROVE  registrations \subseteq registrations'
  BY <1>2 DEF RegisterMemory, register_node, Heartbeat, register_heartbeat
<1>3. ASSUME NEW n \in Node, NEW j \in Job, Jobs(n, j) PROVE UNCHANGED registrations
  BY <1>3 DEF Jobs, reserve_slot, release_slot, csVars
<1>4. ASSUME NEW n \in Node,
             \/ RegisterRow(n) \/ RegisterProfile(n) \/ RegisterFails(n) \/ AgentDies(n)
             \/ HeartbeatLost(n) \/ HeartbeatRow(n)
      PROVE  UNCHANGED registrations
  BY <1>4 DEF RegisterRow, RegisterProfile, RegisterFails, AgentDies, HeartbeatLost,
              HeartbeatRow, csVars
<1>5. CASE SweepReadNow \/ Tick \/ UNCHANGED mVars
  BY <1>5 DEF SweepReadNow, Tick, mVars, csVars
<1> QED
  BY <1>1, <1>2, <1>3, <1>4, <1>5 DEF MNext

(* A live node is never removed, for any intervals and any bound on the    *)
(* heartbeats lost in a row that the timeout leaves room for.              *)
THEOREM LiveNodesStay ==
  ASSUME RoomForLosses
  PROVE  MSpec => LiveNodeKept
<1>1. MInit => HeardLately
  BY DEF MInit, HeardLately
<1>2. MembershipTypes /\ HeardLately /\ [MNext]_mVars => HeardLately'
  BY HeardStep
<1>3. MembershipTypes /\ HeardLately /\ [MNext]_mVars
        => [\A n \in registrations \ registrations' : n \notin beating]_mVars
  BY RemovedIsSilent
<1> QED
  BY <1>1, <1>2, <1>3, TypesAlways, PTL DEF MSpec, LiveNodeKept

-----------------------------------------------------------------------------
(* With real agents, sweeps and clocks, too, the counted usage of a node   *)
(* stays within what it registered with ...                                *)
THEOREM MembersWithinCapacity == MSpec => []WithinCapacity
BY MembershipUsesLedger, CapacityRespected, PTL

(* ... and is exact on nodes that were never removed under a job.          *)
THEOREM MembersCountedExactly == MSpec => []LedgerExact
BY MembershipUsesLedger, CountsExact, PTL
=============================================================================
