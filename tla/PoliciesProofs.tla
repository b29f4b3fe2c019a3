---------------------------- MODULE PoliciesProofs ----------------------------
(* The choices of the policies for every set of nodes, every trace and any *)
(* loads: a choice is one of the nodes that were offered, round robin is   *)
(* even while the cluster is steady, and a burst spreads by capacity.      *)
EXTENDS Policies, ClusterStateProofs

(* The order of the dict is a strict total order of its keys. *)
OrderInv ==
  /\ IsFiniteSet(registrations)
  /\ older \subseteq registrations \X registrations
  /\ \A m, n \in registrations : <<m, n>> \in older <=> m # n /\ <<n, m>> \notin older
  /\ \A l, m, n \in registrations :
       <<l, m>> \in older /\ <<m, n>> \in older => <<l, n>> \in older

Pending == selected_node # NoNode

(* The placed jobs are the beginning of the trace, the others hold nothing. *)
PlacedInv ==
  /\ placements \in Seq([job : Job, node : Node, offered : SUBSET Node])
  /\ Len(placements) <= Len(Trace)
  /\ \A i \in 1 .. Len(placements) :
       /\ placements[i].job = Trace[i]
       /\ placements[i].node \in placements[i].offered
  /\ \A j \in DOMAIN reservations : \E i \in 1 .. Len(placements) : Trace[i] = j
  /\ steady_since \in 0 .. Len(Trace)

(* The choice that is not yet reserved, and the small state of a policy. *)
ChoiceInv ==
  /\ Pending => Len(placements) < Len(Trace)
  /\ Pending => selected_node \in available_nodes
  /\ ~Pending => available_nodes = {}
  /\ available_nodes \subseteq Node
  /\ current_load \in [Node -> Loads]
  /\ policy_name \in POLICIES
  /\ index \in 0 .. MaxIndex

-----------------------------------------------------------------------------
(* The value of the counter at the choice that placed the i-th job, when   *)
(* no choice was refused since.                                            *)
ChoiceOf(i) == index - (IF Pending THEN 1 ELSE 0) - (Len(placements) - i) - 1

(* Node n has c % Cardinality(offered) older ones among those offered. *)
InTurn(c, n, offered) ==
  /\ offered \subseteq registrations
  /\ n \in offered
  /\ Cardinality(Before(n, offered)) = c % Cardinality(offered)

(* Steady placements are choices in a row: the node of a choice made among *)
(* the nodes known now keeps its room until it is reserved.                *)
RoundRobinInv ==
  policy_name = "round_robin" =>
    /\ \A i \in steady_since + 1 .. Len(placements) :
         ChoiceOf(i) \in Nat /\ InTurn(ChoiceOf(i), placements[i].node,
                                       placements[i].offered)
    /\ Pending /\ steady_since <= Len(placements) =>
         /\ index - 1 \in Nat
         /\ InTurn(index - 1, selected_node, available_nodes)
         /\ node_has_capacity(selected_node, NextJob)

-----------------------------------------------------------------------------
(* Every placed job still holds its cores, on a node that never lapsed. *)
BurstHolds ==
  /\ policy_name = "least_loaded"
  /\ lapsed = {}
  /\ \A i \in 1 .. Len(placements) : Trace[i] \in DOMAIN reservations

(* BurstSpreads of every pair of nodes, registered or not, and of the      *)
(* choice that is not yet reserved.                                        *)
BurstInv ==
  BurstHolds =>
    /\ \A a, b \in Node : \A i \in 1 .. Len(placements) :
         /\ placements[i].node = a /\ b \in placements[i].offered
         /\ \A k \in i + 1 .. Len(placements) : placements[k].node # a
         => (Count(running_jobs, a) - CpuRequest[Trace[i]]) * Slots(b)
              <= Count(running_jobs, b) * Slots(a)
    /\ Pending =>
         \A b \in available_nodes :
           Count(running_jobs, selected_node) * Slots(b)
             <= Count(running_jobs, b) * Slots(selected_node)

-----------------------------------------------------------------------------
(* In a strict total order of a finite set every position is taken, by one *)
(* element only.                                                           *)
PositionsIn(S, rel) ==
  LET position(n) == Cardinality({m \in S : <<m, n>> \in rel})
  IN  /\ Cardinality(S) \in Nat
      /\ \A n \in S : position(n) \in 0 .. Cardinality(S) - 1
      /\ \A k \in 0 .. Cardinality(S) - 1 : \E n \in S : position(n) = k
      /\ \A l, n \in S : position(l) = position(n) => l = n

LEMMA PositionsFill ==
  ASSUME NEW S, IsFiniteSet(S), NEW rel,
         \A m, n \in S : <<m, n>> \in rel <=> m # n /\ <<n, m>> \notin rel,
         \A l, m, n \in S : <<l, m>> \in rel /\ <<m, n>> \in rel => <<l, n>> \in rel
  PROVE  PositionsIn(S, rel)
<1> DEFINE pred(n) == {m \in S : <<m, n>> \in rel}
           pos == [n \in S |-> Cardinality(pred(n))]
           T == 0 .. Cardinality(S) - 1
<1>1. Cardinality(S) \in Nat
  BY FS_CardinalityType
<1>2. \A n \in S : IsFiniteSet(pred(n)) /\ Cardinality(pred(n)) \in Nat
  <2> SUFFICES ASSUME NEW n \in S PROVE IsFiniteSet(pred(n)) /\ Cardinality(pred(n)) \in Nat
    OBVIOUS
  <2>1. pred(n) \in SUBSET S
    OBVIOUS
  <2>2. IsFiniteSet(pred(n))
    BY <2>1, FS_Subset
  <2> QED
    BY <2>2, FS_CardinalityType
<1>3. ASSUME NEW n \in S PROVE Cardinality(pred(n)) \in T
  <2>1. pred(n) \in SUBSET S /\ n \notin pred(n)
    OBVIOUS
  <2>2. Cardinality(pred(n)) <= Cardinality(S) /\ Cardinality(pred(n)) # Cardinality(S)
    BY <2>1, FS_Subset
  <2> QED
    BY <1>1, <1>2, <2>2
<1>4. ASSUME NEW m \in S, NEW n \in S, <<m, n>> \in rel
      PROVE  Cardinality(pred(m)) < Cardinality(pred(n))
  <2>1. pred(m) \in SUBSET pred(n) /\ m \in pred(n) /\ m \notin pred(m)
    BY <1>4
  <2>2. /\ Cardinality(pred(m)) <= Cardinality(pred(n))
        /\ Cardinality(pred(m)) # Cardinality(pred(n))
    BY <1>2, <2>1, FS_Subset
  <2> QED
    BY <1>2, <2>2
<1>5. ASSUME NEW m \in S, NEW n \in S, Cardinality(pred(m)) = Cardinality(pred(n))
      PROVE  m = n
  <2>1. ~(Cardinality(pred(m)) < Cardinality(pred(n)))
    BY <1>2, <1>5
  <2>2. ~(Cardinality(pred(n)) < Cardinality(pred(m)))
    BY <1>2, <1>5
  <2>3. <<m, n>> \notin rel /\ <<n, m>> \notin rel
    BY <1>4, <2>1, <2>2
  <2> QED
    BY <2>3
<1>6. pos \in Injection(S, T)
  <2> HIDE DEF pred, T
  <2>1. pos \in [S -> T]
    BY <1>3
  <2>2. \A m, n \in S : pos[m] = pos[n] => m = n
    BY <1>5
  <2> QED
    BY <2>1, <2>2 DEF Injection, IsInjective
<1>7. IsFiniteSet(T) /\ Cardinality(T) = Cardinality(S)
  BY <1>1, FS_Interval
<1>8. pos \in Surjection(S, T)
  BY <1>6, <1>7, FS_Injection
<1>9. \A k \in T : \E n \in S : Cardinality(pred(n)) = k
  BY <1>8 DEF Surjection
<1> QED
  BY <1>1, <1>3, <1>5, <1>9 DEF PositionsIn

(* The same of some of the keys of the dict, in the order of the dict. *)
LEMMA BeforeFills ==
  ASSUME OrderInv, NEW nodes \in SUBSET registrations
  PROVE  /\ IsFiniteSet(nodes)
         /\ Cardinality(nodes) \in Nat
         /\ \A n \in nodes : Cardinality(Before(n, nodes)) \in 0 .. Cardinality(nodes) - 1
         /\ \A k \in 0 .. Cardinality(nodes) - 1 :
              \E n \in nodes : Cardinality(Before(n, nodes)) = k
         /\ \A l, n \in nodes :
              Cardinality(Before(l, nodes)) = Cardinality(Before(n, nodes)) => l = n
<1>1. IsFiniteSet(nodes)
  BY FS_Subset DEF OrderInv
<1>2. /\ \A m, n \in nodes : <<m, n>> \in older <=> m # n /\ <<n, m>> \notin older
      /\ \A l, m, n \in nodes :
           <<l, m>> \in older /\ <<m, n>> \in older => <<l, n>> \in older
  BY DEF OrderInv
<1>3. PositionsIn(nodes, older)
  BY <1>1, <1>2, PositionsFill
<1> QED
  BY <1>1, <1>3 DEF PositionsIn, Before

(* A remainder is a position. *)
LEMMA Remainder ==
  ASSUME NEW x \in Nat, NEW N \in Nat \ {0}
  PROVE  /\ x % N \in 0 .. N - 1
         /\ x \div N \in Nat
         /\ x = N * (x \div N) + (x % N)
OBVIOUS

(* The policies find a node in every list but the empty one. *)
LEMMA RoundRobinChoice ==
  ASSUME OrderInv, NEW nodes \in SUBSET registrations, nodes # {}, index \in Nat
  PROVE  InTurn(index, RoundRobin(nodes), nodes)
<1>1. Cardinality(nodes) \in Nat \ {0}
  BY BeforeFills, FS_EmptySet
<1>2. index % Cardinality(nodes) \in 0 .. Cardinality(nodes) - 1
  BY <1>1, Remainder
<1>3. \E n \in nodes : Cardinality(Before(n, nodes)) = index % Cardinality(nodes)
  BY <1>2, BeforeFills
<1> QED
  BY <1>3 DEF RoundRobin, InTurn

-----------------------------------------------------------------------------
(* Fractions can be compared as products. *)
LEMMA FractionsOrdered ==
  ASSUME NEW a \in Nat, NEW b \in Nat, NEW c \in Nat,
         NEW x \in Nat \ {0}, NEW y \in Nat \ {0}, NEW z \in Nat \ {0}
  PROVE  /\ a * y <= b * x /\ b * z <= c * y => a * z <= c * x
         /\ a * y < b * x /\ b * z <= c * y => a * z < c * x
         /\ a * y <= b * x /\ b * z < c * y => a * z < c * x
<1>1. ASSUME a * y <= b * x, b * z <= c * y PROVE a * z <= c * x
  BY <1>1
<1>2. ASSUME a * y < b * x, b * z <= c * y PROVE a * z < c * x
  BY <1>2
<1>3. ASSUME a * y <= b * x, b * z < c * y PROVE a * z < c * x
  BY <1>3
<1> QED
  BY <1>1, <1>2, <1>3

LEMMA SlotsIsPositive ==
  ASSUME NEW n \in Node
  PROVE  Slots(n) \in Nat \ {0}
BY CapacityAssumption DEF Slots

LEMMA UsedIsNat ==
  ASSUME CSTypeOK, NEW n
  PROVE  Count(running_jobs, n) \in Nat
BY DEF CSTypeOK, Count

(* (slot_occupancy, current_load) orders the nodes lexicographically. *)
LEMMA NoBusierOrder ==
  ASSUME CSTypeOK, ChoiceInv, NEW a \in Node, NEW b \in Node
  PROVE  /\ NoBusier(a, b) \/ NoBusier(b, a)
         /\ \A c \in Node : NoBusier(a, b) /\ NoBusier(b, c) => NoBusier(a, c)
<1> DEFINE used(n) == Count(running_jobs, n)
<1>1. /\ \A n \in Node : used(n) \in Nat /\ Slots(n) \in Nat \ {0}
      /\ \A n \in Node : current_load[n] \in Nat
  BY UsedIsNat, SlotsIsPositive, PoliciesAssumption DEF ChoiceInv
<1>2. \A m, n \in Node :
        NoBusier(m, n) <=> \/ used(m) * Slots(n) < used(n) * Slots(m)
                           \/ /\ used(m) * Slots(n) = used(n) * Slots(m)
                              /\ current_load[m] <= current_load[n]
  BY DEF NoBusier
<1> HIDE DEF used
<1>3. NoBusier(a, b) \/ NoBusier(b, a)
  <2>1. used(a) * Slots(b) \in Nat /\ used(b) * Slots(a) \in Nat
    BY <1>1
  <2> QED
    BY <1>1, <1>2, <2>1
<1>4. ASSUME NEW c \in Node, NoBusier(a, b), NoBusier(b, c) PROVE NoBusier(a, c)
  <2> DEFINE ab == used(a) * Slots(b)  ba == used(b) * Slots(a)
             bc == used(b) * Slots(c)  cb == used(c) * Slots(b)
             ac == used(a) * Slots(c)  ca == used(c) * Slots(a)
  <2>1. /\ ab <= ba /\ bc <= cb => ac <= ca
        /\ ab < ba /\ bc <= cb => ac < ca
        /\ ab <= ba /\ bc < cb => ac < ca
    BY <1>1, FractionsOrdered
  <2>2. ab \in Nat /\ ba \in Nat /\ bc \in Nat /\ cb \in Nat /\ ac \in Nat /\ ca \in Nat
    BY <1>1
  <2>3. /\ ab < ba \/ (ab = ba /\ current_load[a] <= current_load[b])
        /\ bc < cb \/ (bc = cb /\ current_load[b] <= current_load[c])
    BY <1>2, <1>4
  <2>4. ac < ca \/ (ac = ca /\ current_load[a] <= current_load[c])
    <3> HIDE DEF ab, ba, bc, cb, ac, ca
    <3> QED
      BY <1>1, <2>1, <2>2, <2>3
  <2> QED
    BY <1>2, <2>4
<1> QED
  BY <1>3, <1>4

(* min() is well defined: ties are broken by the order of the dict. *)
LEMMA LeastLoadedChoice ==
  ASSUME CSTypeOK, ChoiceInv, OrderInv, NEW nodes \in SUBSET registrations, nodes # {}
  PROVE  /\ LeastLoaded(nodes) \in nodes
         /\ \A b \in nodes : NoBusier(LeastLoaded(nodes), b)
<1> DEFINE rel == {pair \in nodes \X nodes :
                     pair[1] # pair[2] /\ Preferred(pair[1], pair[2])}
<1>1. nodes \subseteq Node
  BY DEF CSTypeOK
<1>2. \A m, n \in nodes : <<m, n>> \in rel <=> m # n /\ Preferred(m, n)
  OBVIOUS
<1> HIDE DEF rel
<1>3. \A m, n \in nodes : <<m, n>> \in older <=> m # n /\ <<n, m>> \notin older
  BY DEF OrderInv
<1>4. \A m, n \in nodes : <<m, n>> \in rel <=> m # n /\ <<n, m>> \notin rel
  BY <1>1, <1>2, <1>3, NoBusierOrder DEF Preferred
<1>5. ASSUME NEW l \in nodes, NEW m \in nodes, NEW n \in nodes,
             <<l, m>> \in rel, <<m, n>> \in rel
      PROVE  <<l, n>> \in rel
  <2>1. /\ NoBusier(l, m) /\ (NoBusier(m, l) => <<l, m>> \in older)
        /\ NoBusier(m, n) /\ (NoBusier(n, m) => <<m, n>> \in older)
    BY <1>2, <1>5 DEF Preferred
  <2>2. NoBusier(l, n)
    BY <1>1, <2>1, NoBusierOrder
  <2>3. NoBusier(n, l) => NoBusier(n, m) /\ NoBusier(m, l)
    BY <1>1, <2>1, NoBusierOrder
  <2>4. NoBusier(n, l) => <<l, n>> \in older
    BY <2>1, <2>3 DEF OrderInv
  <2>5. l # n
    BY <1>4, <1>5
  <2> QED
    BY <1>2, <2>2, <2>4, <2>5 DEF Preferred
<1>6. IsFiniteSet(nodes) /\ Cardinality(nodes) \in Nat \ {0}
  BY BeforeFills, FS_EmptySet
<1>7. PICK a \in nodes : Cardinality({m \in nodes : <<m, a>> \in rel}) = 0
  <2>1. 0 \in 0 .. Cardinality(nodes) - 1
    BY <1>6
  <2>2. PositionsIn(nodes, rel)
    BY <1>4, <1>5, <1>6, PositionsFill
  <2> QED
    BY <2>1, <2>2 DEF PositionsIn
<1>8. {m \in nodes : <<m, a>> \in rel} = {}
  <2>1. IsFiniteSet({m \in nodes : <<m, a>> \in rel})
    BY <1>6, FS_Subset
  <2> QED
    BY <1>7, <2>1, FS_EmptySet
<1>9. \A b \in nodes \ {a} : Preferred(a, b)
  BY <1>2, <1>4, <1>8
<1>10. /\ LeastLoaded(nodes) \in nodes
       /\ \A b \in nodes \ {LeastLoaded(nodes)} : Preferred(LeastLoaded(nodes), b)
  BY <1>9 DEF LeastLoaded
<1>11. \A n \in nodes : NoBusier(n, n)
  BY <1>1, NoBusierOrder
<1> QED
  BY <1>10, <1>11 DEF Preferred

-----------------------------------------------------------------------------
LEMMA TraceFacts ==
  /\ Len(Trace) \in Nat
  /\ \A i \in 1 .. Len(Trace) : Trace[i] \in Job
  /\ \A i, k \in 1 .. Len(Trace) : Trace[i] = Trace[k] => i = k
BY PoliciesAssumption DEF IsInjective

(* The job that is placed next is in the trace and holds nothing yet. *)
LEMMA NextJobIsFresh ==
  ASSUME PlacedInv, Waiting
  PROVE  /\ Len(placements) \in Nat /\ Len(placements) + 1 \in 1 .. Len(Trace)
         /\ NextJob \in Job \ DOMAIN reservations
<1>1. Len(placements) \in Nat /\ Len(placements) + 1 \in 1 .. Len(Trace)
  BY TraceFacts DEF PlacedInv, Waiting
<1>2. \A i \in 1 .. Len(placements) : Trace[i] # NextJob
  BY <1>1, TraceFacts DEF NextJob
<1> QED
  BY <1>1, <1>2, TraceFacts DEF PlacedInv, NextJob

(* A placement adds one row to the history. *)
LEMMA ReserveAppends ==
  ASSUME PlacedInv, ChoiceInv, Reserve
  PROVE  /\ placements' \in Seq([job : Job, node : Node, offered : SUBSET Node])
         /\ Len(placements') = Len(placements) + 1
         /\ Len(placements) \in Nat
         /\ \A i \in 1 .. Len(placements) : placements'[i] = placements[i]
         /\ placements'[Len(placements) + 1].job = NextJob
         /\ placements'[Len(placements) + 1].node = selected_node
         /\ placements'[Len(placements) + 1].offered = available_nodes
<1> DEFINE row == [job |-> NextJob, node |-> selected_node, offered |-> available_nodes]
<1>1. NextJob \in Job
  BY NextJobIsFresh DEF Waiting, ChoiceInv, Pending, Reserve
<1>2. row \in [job : Job, node : Node, offered : SUBSET Node]
  BY <1>1 DEF ChoiceInv, Pending, Reserve
<1>3. placements' = Append(placements, row)
  BY DEF Reserve
<1>4. placements \in Seq([job : Job, node : Node, offered : SUBSET Node])
  BY DEF PlacedInv
<1>5. /\ row.job = NextJob /\ row.node = selected_node /\ row.offered = available_nodes
  OBVIOUS
<1> HIDE DEF row
<1>6. placements'[Len(placements) + 1] = row
  BY <1>2, <1>3, <1>4
<1> QED
  BY <1>2, <1>3, <1>4, <1>5, <1>6

(* The policies place jobs as the ledger assumes of its callers. *)
LEMMA PoliciesLedgerStep ==
  ASSUME PlacedInv, ChoiceInv, [PNext]_pVars
  PROVE  [CSNext]_csVars
<1>1. ASSUME NEW n \in Node, Register(n) PROVE [CSNext]_csVars
  BY <1>1 DEF Register, CSNext
<1>2. ASSUME NEW n \in Node, NEW load \in Loads, Heartbeat(n, load) PROVE [CSNext]_csVars
  BY <1>2 DEF Heartbeat, CSNext
<1>3. ASSUME NEW expired \in SUBSET last_heartbeat, Expire(expired) PROVE [CSNext]_csVars
  BY <1>3 DEF Expire, CSNext
<1>4. ASSUME NEW j \in Job, Finish(j) PROVE [CSNext]_csVars
  BY <1>4 DEF Finish, CSNext
<1>5. CASE Reserve
  <2>1. NextJob \in Job \ DOMAIN reservations
    BY <1>5, NextJobIsFresh DEF Waiting, ChoiceInv, Pending, Reserve
  <2>2. selected_node \in Node
    BY <1>5 DEF ChoiceInv, Pending, Reserve
  <2> QED
    BY <1>5, <2>1, <2>2 DEF Reserve, CSNext
<1>6. CASE Select \/ Refused \/ UNCHANGED pVars
  BY <1>6 DEF Select, Refused, pVars
<1> QED
  BY <1>1, <1>2, <1>3, <1>4, <1>5, <1>6 DEF PNext

-----------------------------------------------------------------------------
(* What a change of the cluster leaves alone. *)
LEMMA OrderStep ==
  ASSUME CSInv, OrderInv, [PNext]_pVars
  PROVE  OrderInv'
<1> USE DEF OrderInv
<1>1. ASSUME NEW n \in Node, Register(n) PROVE OrderInv'
  <2>1. registrations' = registrations \cup {n}
    BY <1>1 DEF Register, register_node
  <2>2. IsFiniteSet(registrations')
    BY <2>1, FS_AddElement
  <2>3. CASE n \in registrations
    <3>1. registrations' = registrations /\ older' = older
      BY <1>1, <2>1, <2>3 DEF Register
    <3> QED
      BY <3>1
  <2>4. CASE n \notin registrations
    <3>1. older' = older \cup (registrations \X {n})
      BY <1>1, <2>4 DEF Register
    <3>2. \A l, m : <<l, m>> \in older' <=>
            <<l, m>> \in older \/ (l \in registrations /\ m = n)
      BY <3>1
    <3>3. \A l, m : <<l, m>> \in older => l \in registrations /\ m \in registrations
      OBVIOUS
    <3>4. older' \subseteq registrations' \X registrations'
      BY <2>1, <3>1
    <3>5. \A l, m \in registrations' : <<l, m>> \in older' <=> l # m /\ <<m, l>> \notin older'
      <4> SUFFICES ASSUME NEW l \in registrations', NEW m \in registrations'
                   PROVE  <<l, m>> \in older' <=> l # m /\ <<m, l>> \notin older'
        OBVIOUS
      <4>1. CASE l \in registrations /\ m \in registrations
        BY <2>4, <3>2, <4>1
      <4>2. CASE l = n \/ m = n
        BY <2>1, <2>4, <3>2, <3>3, <4>2
      <4> QED
        BY <2>1, <4>1, <4>2
    <3>6. \A k, l, m \in registrations' :
            <<k, l>> \in older' /\ <<l, m>> \in older' => <<k, m>> \in older'
      BY <2>1, <2>4, <3>2, <3>3
    <3> QED
      BY <2>2, <3>4, <3>5, <3>6
  <2> QED
    BY <2>3, <2>4
<1>2. ASSUME NEW expired \in SUBSET last_heartbeat, Expire(expired) PROVE OrderInv'
  <2>1. registrations' = registrations \ expired
    BY <1>2 DEF Expire, remove_expired_nodes
  <2>2. \A l, m : <<l, m>> \in older' <=>
          <<l, m>> \in older /\ l \notin expired /\ m \notin expired
    BY <1>2 DEF Expire
  <2>3. IsFiniteSet(registrations')
    BY <2>1, FS_Subset
  <2>4. older' \subseteq registrations' \X registrations'
    BY <1>2, <2>1 DEF Expire
  <2> QED
    BY <2>1, <2>2, <2>3, <2>4
<1>3. CASE UNCHANGED <<registrations, older>>
  BY <1>3
<1>4. ASSUME NEW n \in Node, NEW load \in Loads, Heartbeat(n, load) PROVE OrderInv'
  BY <1>3, <1>4 DEF Heartbeat, register_heartbeat
<1>5. ASSUME NEW j \in Job, Finish(j) PROVE OrderInv'
  BY <1>3, <1>5 DEF Finish, release_slot
<1>6. CASE Reserve
  BY <1>3, <1>6 DEF Reserve, reserve_slot
<1>7. CASE Select \/ Refused \/ UNCHANGED pVars
  BY <1>3, <1>7 DEF Select, Refused, pVars, csVars
<1> QED
  BY <1>1, <1>2, <1>4, <1>5, <1>6, <1>7 DEF PNext

(* The choice of either policy is one of the nodes that have room. *)
LEMMA SelectChoice ==
  ASSUME CSInv, OrderInv, ChoiceInv, Select
  PROVE  /\ available_nodes' \in SUBSET registrations
         /\ available_nodes' \subseteq Node
         /\ selected_node' \in available_nodes'
         /\ selected_node' # NoNode
         /\ \A n \in available_nodes' : node_has_capacity(n, NextJob)
         /\ policy_name = "round_robin" => InTurn(index, selected_node', available_nodes')
         /\ policy_name = "least_loaded" =>
              \A b \in available_nodes' : NoBusier(selected_node', b)
<1>1. /\ available_nodes' \in SUBSET registrations
      /\ \A n \in available_nodes' : node_has_capacity(n, NextJob)
  BY DEF Select, get_available_nodes
<1>2. available_nodes' \subseteq Node /\ CSTypeOK
  BY <1>1 DEF CSInv, CSTypeOK
<1>3. available_nodes' # {} /\ index \in Nat
  BY DEF Select, ChoiceInv
<1>4. CASE policy_name = "round_robin"
  <2>1. InTurn(index, RoundRobin(available_nodes'), available_nodes')
    BY <1>1, <1>3, RoundRobinChoice
  <2>2. selected_node' = RoundRobin(available_nodes')
    BY <1>4 DEF Select
  <2> QED
    BY <1>1, <1>2, <1>4, <2>1, <2>2, PoliciesAssumption DEF InTurn
<1>5. CASE policy_name = "least_loaded"
  <2>1. /\ LeastLoaded(available_nodes') \in available_nodes'
        /\ \A b \in available_nodes' : NoBusier(LeastLoaded(available_nodes'), b)
    BY <1>1, <1>2, <1>3, LeastLoadedChoice
  <2>2. selected_node' = LeastLoaded(available_nodes')
    BY <1>5 DEF Select
  <2> QED
    BY <1>1, <1>2, <1>5, <2>1, <2>2, PoliciesAssumption
<1> QED
  BY <1>4, <1>5 DEF ChoiceInv, POLICIES

(* steady_since stays within the trace. *)
LEMMA KnownNodesChangeBound ==
  ASSUME PlacedInv, ChoiceInv, KnownNodesChange
  PROVE  /\ steady_since' \in 0 .. Len(Trace)
         /\ steady_since' = Len(placements) + (IF Pending THEN 1 ELSE 0)
         /\ Len(placements) \in Nat
<1>1. Len(placements) \in Nat /\ Len(Trace) \in Nat
  BY TraceFacts DEF PlacedInv
<1> QED
  BY <1>1 DEF PlacedInv, ChoiceInv, Pending, KnownNodesChange

LEMMA PlacedStep ==
  ASSUME PlacedInv, ChoiceInv, [PNext]_pVars
  PROVE  PlacedInv'
<1>1. CASE /\ placements' = placements
           /\ DOMAIN reservations' \subseteq DOMAIN reservations
           /\ steady_since' \in 0 .. Len(Trace)
  BY <1>1 DEF PlacedInv
<1>2. ASSUME NEW n \in Node, Register(n) PROVE PlacedInv'
  <2>1. steady_since' \in 0 .. Len(Trace)
    BY <1>2, KnownNodesChangeBound DEF Register, PlacedInv
  <2> QED
    BY <1>1, <1>2, <2>1 DEF Register, register_node, policyVars
<1>3. ASSUME NEW expired \in SUBSET last_heartbeat, Expire(expired) PROVE PlacedInv'
  BY <1>1, <1>3, KnownNodesChangeBound DEF Expire, remove_expired_nodes, policyVars
<1>4. ASSUME NEW n \in Node, NEW load \in Loads, Heartbeat(n, load) PROVE PlacedInv'
  BY <1>1, <1>4 DEF Heartbeat, register_heartbeat, policyVars, ledgerVars, PlacedInv
<1>5. ASSUME NEW j \in Job, Finish(j) PROVE PlacedInv'
  <2>1. DOMAIN reservations' \subseteq DOMAIN reservations
    BY <1>5 DEF Finish, release_slot, Pop, Restrict
  <2> QED
    BY <1>1, <1>5, <2>1 DEF Finish, policyVars, PlacedInv
<1>6. CASE Reserve
  <2>1. /\ placements' \in Seq([job : Job, node : Node, offered : SUBSET Node])
        /\ Len(placements') = Len(placements) + 1
        /\ Len(placements) \in Nat
        /\ \A i \in 1 .. Len(placements) : placements'[i] = placements[i]
        /\ placements'[Len(placements) + 1].job = NextJob
        /\ placements'[Len(placements) + 1].node = selected_node
        /\ placements'[Len(placements) + 1].offered = available_nodes
    BY <1>6, ReserveAppends
  <2>2. /\ Len(placements) + 1 \in 1 .. Len(Trace)
        /\ selected_node \in available_nodes
    BY <1>6, TraceFacts, <2>1 DEF ChoiceInv, Pending, Reserve
  <2>3. \A i \in 1 .. Len(placements') :
          /\ placements'[i].job = Trace[i]
          /\ placements'[i].node \in placements'[i].offered
    BY <2>1, <2>2 DEF PlacedInv, NextJob
  <2>4. DOMAIN reservations' = DOMAIN reservations \cup {NextJob}
    BY <1>6 DEF Reserve, reserve_slot, Store
  <2>5. \A j \in DOMAIN reservations' : \E i \in 1 .. Len(placements') : Trace[i] = j
    BY <2>1, <2>4 DEF PlacedInv, NextJob
  <2>6. steady_since' = steady_since
    BY <1>6 DEF Reserve
  <2> QED
    BY <2>1, <2>2, <2>3, <2>5, <2>6, TraceFacts DEF PlacedInv
<1>7. CASE Select \/ Refused \/ UNCHANGED pVars
  BY <1>1, <1>7 DEF Select, Refused, pVars, csVars, ledgerVars, policyVars, PlacedInv
<1> QED
  BY <1>2, <1>3, <1>4, <1>5, <1>6, <1>7 DEF PNext

LEMMA ChoiceStep ==
  ASSUME CSInv, OrderInv, PlacedInv, ChoiceInv, [PNext]_pVars
  PROVE  ChoiceInv'
<1> USE DEF ChoiceInv, Pending
<1>1. CASE UNCHANGED policyVars /\ current_load' \in [Node -> Loads]
  BY <1>1 DEF policyVars
<1>2. ASSUME NEW n \in Node, Register(n) PROVE ChoiceInv'
  BY <1>1, <1>2 DEF Register
<1>3. ASSUME NEW expired \in SUBSET last_heartbeat, Expire(expired) PROVE ChoiceInv'
  BY <1>1, <1>3, PoliciesAssumption DEF Expire
<1>4. ASSUME NEW n \in Node, NEW load \in Loads, Heartbeat(n, load) PROVE ChoiceInv'
  BY <1>1, <1>4 DEF Heartbeat
<1>5. ASSUME NEW j \in Job, Finish(j) PROVE ChoiceInv'
  BY <1>1, <1>5 DEF Finish
<1>6. CASE Reserve \/ Refused
  BY <1>6 DEF Reserve, Refused
<1>7. CASE Select
  <2>1. /\ available_nodes' \subseteq Node
        /\ selected_node' \in available_nodes'
    BY <1>7, SelectChoice
  <2>2. index' \in 0 .. MaxIndex
    BY <1>7, PoliciesAssumption DEF Select
  <2>3. Len(placements') < Len(Trace) /\ UNCHANGED <<current_load, policy_name>>
    BY <1>7 DEF Select, Waiting
  <2>4. selected_node' # NoNode
    BY <1>7, SelectChoice
  <2> QED
    BY <2>1, <2>2, <2>3, <2>4
<1>8. CASE UNCHANGED pVars
  BY <1>1, <1>8 DEF pVars
<1> QED
  BY <1>2, <1>3, <1>4, <1>5, <1>6, <1>7, <1>8 DEF PNext

-----------------------------------------------------------------------------
(* A node that has room keeps it while its counters do not grow. *)
LEMMA RoomKept ==
  ASSUME CSInv, NEW n, NEW j \in Job, node_has_capacity(n, j), n \in registrations',
         Count(running_jobs, n)' <= Count(running_jobs, n),
         Count(allocated_memory, n)' <= Count(allocated_memory, n),
         Count(running_jobs, n)' \in Nat, Count(allocated_memory, n)' \in Nat
  PROVE  node_has_capacity(n, j)'
<1>1. Count(running_jobs, n) \in Nat /\ Count(allocated_memory, n) \in Nat
  BY DEF CSInv, CSTypeOK, Count
<1>2. CpuRequest[j] \in Nat /\ MemRequest[j] \in Nat /\ n \in Node
  BY RequestAssumption DEF node_has_capacity, CSInv, CSTypeOK
<1>3. Cpus[n] \in Nat /\ MemoryMb[n] \in Nat
  BY <1>2, CapacityAssumption
<1> QED
  BY <1>1, <1>2, <1>3 DEF node_has_capacity, Fits

(* The end of a job takes nothing from the room of a node. *)
LEMMA ReleaseLowers ==
  ASSUME CSInv, NEW j \in Job, release_slot(j), NEW n
  PROVE  /\ Count(running_jobs, n)' <= Count(running_jobs, n)
         /\ Count(allocated_memory, n)' <= Count(allocated_memory, n)
         /\ Count(running_jobs, n)' \in Nat /\ Count(allocated_memory, n)' \in Nat
<1> USE DEF CSInv, CSTypeOK
<1>1. CpuRequest[j] \in Nat /\ MemRequest[j] \in Nat
  BY RequestAssumption
<1>2. CASE j \in DOMAIN reservations
  <2>1. /\ running_jobs' = GiveBack(running_jobs, reservations[j], CpuRequest[j])
        /\ allocated_memory' = GiveBack(allocated_memory, reservations[j], MemRequest[j])
    BY <1>2 DEF release_slot
  <2> QED
    BY <1>1, <2>1 DEF GiveBack, Count
<1>3. CASE j \notin DOMAIN reservations
  BY <1>3 DEF release_slot, csVars, ledgerVars, Count
<1> QED
  BY <1>2, <1>3

(* The places of the choices do not move while the cluster stays the same. *)
LEMMA SteadyKept ==
  ASSUME PlacedInv, RoundRobinInv,
         UNCHANGED <<registrations, older, policyVars, steady_since>>,
         node_has_capacity(selected_node, NextJob) => node_has_capacity(selected_node, NextJob)'
  PROVE  RoundRobinInv'
BY DEF RoundRobinInv, InTurn, Before, ChoiceOf, Pending, policyVars, NextJob, node_has_capacity, Fits

(* Nothing is steady right after the known nodes changed. *)
LEMMA NothingSteady ==
  ASSUME PlacedInv, ChoiceInv, KnownNodesChange, UNCHANGED policyVars
  PROVE  RoundRobinInv'
<1>1. /\ steady_since' = Len(placements) + (IF Pending THEN 1 ELSE 0)
      /\ Len(placements) \in Nat
      /\ placements' = placements /\ selected_node' = selected_node
  BY KnownNodesChangeBound DEF policyVars
<1> QED
  BY <1>1 DEF RoundRobinInv, Pending

LEMMA RoundRobinStep ==
  ASSUME CSInv, OrderInv, PlacedInv, ChoiceInv, RoundRobinInv, [PNext]_pVars
  PROVE  RoundRobinInv'
<1>0. Pending => NextJob \in Job
  BY NextJobIsFresh DEF ChoiceInv, Waiting
<1>1. ASSUME NEW n \in Node, Register(n) PROVE RoundRobinInv'
  <2>1. CASE n \notin registrations
    BY <1>1, <2>1, NothingSteady DEF Register
  <2>2. CASE n \in registrations
    <3>1. n \in DOMAIN running_jobs
      BY <2>2 DEF CSInv, NoPhantomNode
    <3>2. UNCHANGED <<registrations, ledgerVars>>
      BY <1>1, <2>2, <3>1 DEF Register, register_node, ledgerVars
    <3>3. node_has_capacity(selected_node, NextJob)
            => node_has_capacity(selected_node, NextJob)'
      BY <1>1, <3>2 DEF Register, node_has_capacity, Fits, ledgerVars, policyVars, NextJob
    <3> QED
      BY <1>1, <2>2, <3>2, <3>3, SteadyKept DEF Register
  <2> QED
    BY <2>1, <2>2
<1>2. ASSUME NEW expired \in SUBSET last_heartbeat, Expire(expired) PROVE RoundRobinInv'
  BY <1>2, NothingSteady DEF Expire
<1>3. ASSUME NEW n \in Node, NEW load \in Loads, Heartbeat(n, load) PROVE RoundRobinInv'
  <2>1. UNCHANGED <<registrations, ledgerVars>>
    BY <1>3 DEF Heartbeat, register_heartbeat
  <2>2. node_has_capacity(selected_node, NextJob)
          => node_has_capacity(selected_node, NextJob)'
    BY <1>3, <2>1 DEF Heartbeat, node_has_capacity, Fits, ledgerVars, policyVars, NextJob
  <2> QED
    BY <1>3, <2>1, <2>2, SteadyKept DEF Heartbeat
<1>4. ASSUME NEW j \in Job, Finish(j) PROVE RoundRobinInv'
  <2>1. registrations' = registrations
    BY <1>4 DEF Finish, release_slot
  <2>2. UNCHANGED <<older, policyVars, steady_since>>
    BY <1>4 DEF Finish
  <2>3. CASE Pending
    <3>1. release_slot(j)
      BY <1>4 DEF Finish
    <3>2. node_has_capacity(selected_node, NextJob)
            => node_has_capacity(selected_node, NextJob)'
      <4> SUFFICES ASSUME node_has_capacity(selected_node, NextJob)
                   PROVE  node_has_capacity(selected_node, NextJob)'
        OBVIOUS
      <4>1. selected_node' = selected_node /\ NextJob' = NextJob
        BY <2>2 DEF policyVars, NextJob
      <4>2. selected_node \in registrations'
        BY <2>1 DEF node_has_capacity
      <4>3. ASSUME NEW m, NEW l \in Job, m \in registrations, node_has_capacity(m, l)
            PROVE  node_has_capacity(m, l)'
        BY <2>1, <3>1, <4>3, ReleaseLowers, RoomKept
      <4> QED
        BY <1>0, <2>1, <2>3, <4>1, <4>2, <4>3 DEF node_has_capacity, Fits
    <3> QED
      BY <2>1, <2>2, <3>2, SteadyKept
  <2>4. CASE ~Pending
    BY <2>1, <2>2, <2>4 DEF RoundRobinInv, InTurn, Before, ChoiceOf, Pending, policyVars
  <2> QED
    BY <2>3, <2>4
<1>5. CASE Select
  <2>1. /\ UNCHANGED <<csVars, older, placements, policy_name, steady_since>>
        /\ index' = index + 1 /\ index \in Nat
        /\ ~Pending
    BY <1>5 DEF Select, ChoiceInv, Pending
  <2>2. Pending' /\ (policy_name = "round_robin" =>
                       InTurn(index, selected_node', available_nodes'))
    BY <1>5, SelectChoice DEF Pending
  <2>3. node_has_capacity(selected_node, NextJob)'
    <3>1. \A n \in available_nodes' : node_has_capacity(n, NextJob)
      BY <1>5, SelectChoice
    <3>2. selected_node' \in available_nodes'
      BY <1>5, SelectChoice
    <3> QED
      BY <2>1, <3>1, <3>2 DEF node_has_capacity, Fits, NextJob, csVars, ledgerVars
  <2>4. \A i \in 1 .. Len(placements) : ChoiceOf(i)' = ChoiceOf(i)
    BY <2>1, <2>2, TraceFacts DEF ChoiceOf, PlacedInv
  <2>5. \A c, n, nodes : InTurn(c, n, nodes)' <=> InTurn(c, n, nodes)
    BY <2>1 DEF InTurn, Before, csVars
  <2> QED
    BY <2>1, <2>2, <2>3, <2>4, <2>5, TraceFacts DEF RoundRobinInv, PlacedInv
<1>6. CASE Reserve
  <2>1. /\ UNCHANGED <<registrations, older, policy_name, index, steady_since>>
        /\ Pending /\ ~Pending'
    BY <1>6 DEF Reserve, reserve_slot, Pending
  <2>2. /\ Len(placements') = Len(placements) + 1
        /\ Len(placements) \in Nat
        /\ \A i \in 1 .. Len(placements) : placements'[i] = placements[i]
        /\ placements'[Len(placements) + 1].node = selected_node
        /\ placements'[Len(placements) + 1].offered = available_nodes
    BY <1>6, ReserveAppends
  <2>3. \A c, n, nodes : InTurn(c, n, nodes)' <=> InTurn(c, n, nodes)
    BY <2>1 DEF InTurn, Before
  <2>4. /\ steady_since \in Nat /\ index \in Nat
    BY TraceFacts DEF PlacedInv, ChoiceInv
  <2>5. SUFFICES ASSUME policy_name = "round_robin",
                        NEW i \in steady_since + 1 .. Len(placements) + 1
                 PROVE  /\ ChoiceOf(i)' \in Nat
                        /\ InTurn(ChoiceOf(i)', placements'[i].node, placements'[i].offered)
    BY <2>1, <2>2, <2>3 DEF RoundRobinInv
  <2>6. CASE i \in 1 .. Len(placements)
    <3>1. ChoiceOf(i)' = ChoiceOf(i)
      BY <2>1, <2>2, <2>4, <2>6 DEF ChoiceOf
    <3> QED
      BY <2>2, <2>4, <2>5, <2>6, <3>1 DEF RoundRobinInv
  <2>7. CASE i = Len(placements) + 1
    <3>1. ChoiceOf(i)' = index - 1
      BY <2>1, <2>2, <2>4, <2>7 DEF ChoiceOf
    <3>2. steady_since <= Len(placements)
      BY <2>2, <2>4, <2>5, <2>7
    <3> QED
      BY <2>1, <2>2, <2>5, <2>7, <3>1, <3>2 DEF RoundRobinInv
  <2> QED
    BY <2>2, <2>4, <2>6, <2>7
<1>7. CASE Refused
  <2>1. /\ UNCHANGED <<placements, steady_since, policy_name>>
        /\ Pending /\ ~Pending' /\ ~node_has_capacity(selected_node, NextJob)
    BY <1>7 DEF Refused, Pending
  <2>2. Len(placements) \in Nat /\ steady_since \in Nat
    BY TraceFacts DEF PlacedInv
  <2>3. policy_name = "round_robin" => Len(placements) < steady_since
    BY <2>1, <2>2 DEF RoundRobinInv
  <2> QED
    BY <2>1, <2>2, <2>3 DEF RoundRobinInv
<1>8. CASE UNCHANGED pVars
  BY <1>8, SteadyKept DEF pVars, csVars, ledgerVars, node_has_capacity, Fits, NextJob, policyVars
<1> QED
  BY <1>1, <1>2, <1>3, <1>4, <1>5, <1>6, <1>7, <1>8 DEF PNext

-----------------------------------------------------------------------------
(* A burst only ends: a job that ended does not hold its cores again, and  *)
(* a node that lapsed is remembered.                                       *)
LEMMA BurstHeldBefore ==
  ASSUME PlacedInv, ChoiceInv, [PNext]_pVars, BurstHolds'
  PROVE  BurstHolds /\ ~\E j \in Job : Finish(j)
<1>0. Len(placements) \in Nat
  BY DEF PlacedInv
<1>1. /\ policy_name' = "least_loaded" /\ lapsed' = {}
      /\ \A i \in 1 .. Len(placements') : Trace[i] \in DOMAIN reservations'
  BY DEF BurstHolds
<1>2. ASSUME NEW n \in Node, Register(n)
      PROVE  UNCHANGED <<policy_name, lapsed, placements, reservations>>
  BY <1>2 DEF Register, register_node, policyVars
<1>3. ASSUME NEW n \in Node, NEW load \in Loads, Heartbeat(n, load)
      PROVE  UNCHANGED <<policy_name, lapsed, placements, reservations>>
  BY <1>3 DEF Heartbeat, register_heartbeat, policyVars, ledgerVars
<1>4. ASSUME NEW expired \in SUBSET last_heartbeat, Expire(expired)
      PROVE  lapsed \subseteq lapsed' /\ UNCHANGED <<policy_name, placements, reservations>>
  BY <1>4 DEF Expire, remove_expired_nodes, policyVars
<1>5. ASSUME NEW j \in Job, Finish(j) PROVE FALSE
  <2>1. j \in DOMAIN reservations /\ j \notin DOMAIN reservations' /\ placements' = placements
    BY <1>5 DEF Finish, release_slot, Pop, Restrict, policyVars
  <2> QED
    BY <1>1, <2>1 DEF PlacedInv
<1>6. CASE Reserve
  <2>1. /\ UNCHANGED <<policy_name, lapsed>>
        /\ DOMAIN reservations' = DOMAIN reservations \cup {NextJob}
        /\ Len(placements') = Len(placements) + 1
    BY <1>6, ReserveAppends DEF Reserve, reserve_slot, Store
  <2>2. \A i \in 1 .. Len(placements) : Trace[i] # NextJob
    BY <1>0, <1>6, TraceFacts DEF NextJob, ChoiceInv, Pending, Reserve
  <2> QED
    BY <1>0, <1>1, <1>5, <2>1, <2>2 DEF BurstHolds
<1>7. CASE Select \/ Refused \/ UNCHANGED pVars
  BY <1>1, <1>5, <1>7 DEF BurstHolds, Select, Refused, pVars, policyVars, csVars, ledgerVars
<1> QED
  BY <1>1, <1>2, <1>3, <1>4, <1>5, <1>6, <1>7 DEF BurstHolds, PNext

(* During a burst only placements change what a node is counted to use: a  *)
(* node that is removed or comes back then had nothing.                    *)
LEMMA UsedKept ==
  ASSUME CSInv, PlacedInv, ChoiceInv, [PNext]_pVars, BurstHolds', ~Reserve, NEW n \in Node
  PROVE  Count(running_jobs, n)' = Count(running_jobs, n)
<1>1. ASSUME NEW m \in Node, Register(m)
      PROVE  Count(running_jobs, n)' = Count(running_jobs, n)
  BY <1>1 DEF Register, register_node, Store, Count
<1>2. ASSUME NEW expired \in SUBSET last_heartbeat, Expire(expired)
      PROVE  Count(running_jobs, n)' = Count(running_jobs, n)
  <2>1. /\ running_jobs' = Pop(running_jobs, expired)
        /\ lapsed' = lapsed \cup (expired \cap {reservations[j] : j \in DOMAIN reservations})
    BY <1>2 DEF Expire, remove_expired_nodes
  <2>2. CASE n \notin expired
    BY <2>1, <2>2 DEF Pop, Restrict, Count
  <2>3. CASE n \in expired
    <3>1. Holders(n) = {} /\ n \notin lapsed
      BY <2>1, <2>3 DEF BurstHolds, Holders
    <3>2. ReservedCpus(n) = 0
      BY <3>1, NothingHeld
    <3>3. Count(running_jobs, n) = 0
      BY <3>1, <3>2 DEF CSInv, LedgerExact, NoPhantomNode, Count
    <3>4. Count(running_jobs, n)' = 0
      BY <2>1, <2>3 DEF Pop, Restrict, Count
    <3> QED
      BY <3>3, <3>4
  <2> QED
    BY <2>2, <2>3
<1>3. ASSUME NEW m \in Node, NEW load \in Loads, Heartbeat(m, load)
      PROVE  Count(running_jobs, n)' = Count(running_jobs, n)
  BY <1>3 DEF Heartbeat, register_heartbeat, ledgerVars, Count
<1>4. CASE Select \/ Refused \/ UNCHANGED pVars
  BY <1>4 DEF Select, Refused, pVars, csVars, ledgerVars, Count
<1> QED
  BY <1>1, <1>2, <1>3, <1>4, BurstHeldBefore DEF PNext

(* What a placement adds to the counts. *)
LEMMA ReserveCounted ==
  ASSUME CSInv, ChoiceInv, Reserve, NEW n \in Node
  PROVE  Count(running_jobs, n)'
           = Count(running_jobs, n) + (IF n = selected_node THEN CpuRequest[NextJob] ELSE 0)
<1>1. running_jobs' = Store(running_jobs, selected_node,
                            Count(running_jobs, selected_node) + CpuRequest[NextJob])
  BY DEF Reserve, reserve_slot
<1>2. Count(running_jobs, n) \in Nat
  BY UsedIsNat DEF CSInv
<1> QED
  BY <1>1, <1>2 DEF Store, Count

LEMMA BurstStep ==
  ASSUME CSInv, OrderInv, PlacedInv, ChoiceInv, BurstInv, [PNext]_pVars
  PROVE  BurstInv'
<1> SUFFICES ASSUME BurstHolds' PROVE BurstInv'
  BY DEF BurstInv
<1> DEFINE used(n) == Count(running_jobs, n)
<1>1. BurstHolds /\ ~\E j \in Job : Finish(j)
  BY BurstHeldBefore
<1>2. \A n \in Node : used(n) \in Nat /\ Slots(n) \in Nat \ {0}
  BY UsedIsNat, SlotsIsPositive DEF CSInv
<1>3. ~Reserve => \A n \in Node : used(n)' = used(n)
  BY UsedKept
<1>4. CASE ~Reserve /\ UNCHANGED <<placements, selected_node, available_nodes>>
  BY <1>1, <1>3, <1>4 DEF BurstInv, Pending, ChoiceInv, Slots
<1>5. CASE Select
  <2>1. /\ UNCHANGED placements
        /\ \A b \in available_nodes' : NoBusier(selected_node', b)
        /\ selected_node' \in available_nodes' /\ available_nodes' \subseteq Node
    BY <1>1, <1>5, SelectChoice DEF Select, BurstHolds
  <2>2. \A b \in available_nodes' :
          used(selected_node') * Slots(b) <= used(b) * Slots(selected_node')
    BY <1>2, <2>1 DEF NoBusier
  <2>3. \A n \in Node : used(n)' = used(n)
    BY <1>5 DEF Select, csVars, ledgerVars, Count
  <2> QED
    BY <1>1, <2>1, <2>2, <2>3 DEF BurstInv, Slots
<1>6. CASE Refused
  BY <1>1, <1>3, <1>6 DEF BurstInv, Pending, Refused, Slots, csVars, ledgerVars, Count
<1>7. CASE Reserve
  <2>1. /\ Len(placements') = Len(placements) + 1
        /\ Len(placements) \in Nat
        /\ \A i \in 1 .. Len(placements) : placements'[i] = placements[i]
        /\ placements'[Len(placements) + 1].node = selected_node
        /\ placements'[Len(placements) + 1].offered = available_nodes
    BY <1>7, ReserveAppends
  <2>2. Pending /\ ~Pending' /\ Waiting /\ NextJob = Trace[Len(placements) + 1]
    BY <1>7 DEF Reserve, Pending, ChoiceInv, Waiting, NextJob
  <2>3. \A n \in Node :
          used(n)' = used(n) + (IF n = selected_node THEN CpuRequest[NextJob] ELSE 0)
    BY <1>7, ReserveCounted
  <2>4. CpuRequest[NextJob] \in Nat
    BY <2>2, NextJobIsFresh, RequestAssumption
  <2>5. \A n \in Node : used(n)' \in Nat /\ used(n) <= used(n)'
    BY <1>2, <2>3, <2>4
  <2>6. SUFFICES ASSUME NEW a \in Node, NEW b \in Node, NEW i \in 1 .. Len(placements) + 1,
                        placements'[i].node = a, b \in placements'[i].offered,
                        \A k \in i + 1 .. Len(placements) + 1 : placements'[k].node # a
                 PROVE  (used(a)' - CpuRequest[Trace[i]]) * Slots(b) <= used(b)' * Slots(a)
    BY <2>1, <2>2 DEF BurstInv, Slots
  <2>7. used(b) * Slots(a) <= used(b)' * Slots(a) /\ used(b) * Slots(a) \in Nat
    BY <1>2, <2>5
  <2> HIDE DEF used
  <2>8. used(b)' * Slots(a) \in Nat
    BY <1>2, <2>5
  <2>9. CASE i \in 1 .. Len(placements)
    <3>1. a # selected_node
      BY <2>1, <2>6, <2>9
    <3>2. used(a)' = used(a)
      BY <1>2, <2>3, <3>1
    <3>3. (used(a) - CpuRequest[Trace[i]]) * Slots(b) <= used(b) * Slots(a)
      BY <1>1, <2>1, <2>6, <2>9 DEF BurstInv, used
    <3>4. CpuRequest[Trace[i]] \in Nat
      BY <2>9, TraceFacts, RequestAssumption DEF PlacedInv
    <3>5. (used(a) - CpuRequest[Trace[i]]) * Slots(b) \in Int
      BY <1>2, <3>4
    <3> QED
      BY <2>7, <2>8, <3>2, <3>3, <3>5
  <2>10. CASE i = Len(placements) + 1
    <3>1. a = selected_node /\ b \in available_nodes /\ Trace[i] = NextJob
      BY <2>1, <2>2, <2>6, <2>10
    <3>2. used(a)' - CpuRequest[Trace[i]] = used(a)
      BY <1>2, <2>3, <2>4, <3>1
    <3>3. used(a) * Slots(b) <= used(b) * Slots(a)
      BY <1>1, <2>2, <3>1 DEF BurstInv, used
    <3>4. used(a) * Slots(b) \in Nat
      BY <1>2
    <3> QED
      BY <2>7, <2>8, <3>2, <3>3, <3>4
  <2> QED
    BY <2>1, <2>9, <2>10
<1>8. CASE UNCHANGED pVars
  BY <1>1, <1>8 DEF pVars, BurstInv, BurstHolds, Pending, csVars, ledgerVars, policyVars, Slots, Count
<1> QED
  BY <1>1, <1>4, <1>5, <1>6, <1>7, <1>8
  DEF PNext, Register, Heartbeat, Expire, policyVars

-----------------------------------------------------------------------------
(* Two numbers with one remainder are a multiple apart, and subtracting    *)
(* moves the remainder.                                                    *)
LEMMA DivisionIsUnique ==
  ASSUME NEW N \in Nat \ {0}, NEW k \in Int, NEW l \in Int,
         NEW r \in 0 .. N - 1, NEW s \in 0 .. N - 1, N * k + r = N * l + s
  PROVE  k = l /\ r = s
OBVIOUS

LEMMA SameRemainder ==
  ASSUME NEW x \in Nat, NEW y \in Nat, NEW N \in Nat \ {0}, x < y, x % N = y % N
  PROVE  y - x >= N
<1>1. PICK k \in Nat, r \in 0 .. N - 1 : x = N * k + r /\ x % N = r
  BY Remainder
<1>2. PICK l \in Nat : y = N * l + r
  BY <1>1, Remainder
<1>3. l >= k + 1
  BY <1>1, <1>2
<1>4. N * l >= N * (k + 1)
  BY <1>3
<1> QED
  BY <1>1, <1>2, <1>4

LEMMA RemainderMoves ==
  ASSUME NEW x \in Nat, NEW d \in Nat, NEW N \in Nat \ {0}, d <= x,
         NEW q \in 0 .. N - 1, x % N = q + d \/ x % N = q + d - N
  PROVE  (x - d) % N = q
<1>1. PICK k \in Nat, r \in 0 .. N - 1 : x = N * k + r /\ x % N = r
  BY Remainder
<1>2. x - d \in Nat
  OBVIOUS
<1>3. PICK l \in Nat, s \in 0 .. N - 1 : x - d = N * l + s /\ (x - d) % N = s
  BY <1>2, Remainder
<1>4. CASE r = q + d
  <2>1. N * k + q = N * l + s
    BY <1>1, <1>3, <1>4
  <2>2. q = s
    <3>1. k \in Int /\ l \in Int
      OBVIOUS
    <3> QED
      BY <2>1, <3>1, DivisionIsUnique, Zenon
  <2> QED
    BY <1>3, <2>2
<1>5. CASE r = q + d - N
  <2>1. N * (k - 1) + q = N * l + s
    BY <1>1, <1>3, <1>5
  <2>2. q = s
    <3>1. k - 1 \in Int
      OBVIOUS
    <3> QED
      BY <2>1, <3>1, DivisionIsUnique
  <2> QED
    BY <1>3, <2>2
<1> QED
  BY <1>1, <1>4, <1>5

-----------------------------------------------------------------------------
(* Choices in a row, each of the node whose turn it is among N nodes: no   *)
(* node has two more of them than another.                                 *)
Turns(turn, first, last, N, p) == {i \in first .. last : turn[i] % N = p}

LEMMA TurnsAreEven ==
  ASSUME NEW N \in Nat \ {0}, NEW p \in 0 .. N - 1, NEW q \in 0 .. N - 1,
         NEW first \in Nat, NEW last \in Nat, NEW turn,
         \A i \in first .. last : turn[i] \in Nat,
         \A i, k \in first .. last : turn[k] - turn[i] = k - i
  PROVE  Cardinality(Turns(turn, first, last, N, p))
           <= Cardinality(Turns(turn, first, last, N, q)) + 1
<1> DEFINE A == Turns(turn, first, last, N, p)
           B == Turns(turn, first, last, N, q)
           d == IF p >= q THEN p - q ELSE p - q + N
           E == {i \in A : i < first + d}
           shift == [i \in A \ E |-> i - d]
<1> USE DEF Turns
<1>1. /\ d \in 0 .. N - 1
      /\ p = q + d \/ p = q + d - N
  OBVIOUS
<1>2. IsFiniteSet(A) /\ IsFiniteSet(B) /\ IsFiniteSet(E)
  <2>1. IsFiniteSet(first .. last)
    BY FS_Interval
  <2>2. A \in SUBSET (first .. last) /\ B \in SUBSET (first .. last) /\ E \in SUBSET (first .. last)
    OBVIOUS
  <2> QED
    BY <2>1, <2>2, FS_Subset
<1>3. Cardinality(E) <= 1
  <2>1. ASSUME NEW i \in E, NEW k \in E, i < k PROVE FALSE
    <3>1. /\ i \in first .. last /\ k \in first .. last
          /\ turn[i] % N = turn[k] % N
          /\ k < first + d
      OBVIOUS
    <3>2. turn[i] \in Nat /\ turn[k] \in Nat /\ turn[k] - turn[i] = k - i
      BY <3>1
    <3>3. turn[i] < turn[k]
      BY <2>1, <3>1, <3>2
    <3>4. turn[k] - turn[i] >= N
      BY <3>1, <3>2, <3>3, SameRemainder
    <3> QED
      BY <1>1, <3>1, <3>2, <3>4
  <2>2. \A i, k \in E : i = k
    BY <2>1
  <2>3. CASE E = {}
    BY <2>3, FS_EmptySet
  <2>4. ASSUME NEW i \in E PROVE Cardinality(E) = 1
    <3>1. E = {i}
      BY <2>2
    <3> QED
      BY <3>1, FS_Singleton
  <2> QED
    BY <2>3, <2>4
<1>4. ASSUME NEW i \in A \ E PROVE i - d \in B
  <2>1. i \in first .. last /\ i - d \in first .. last /\ turn[i] % N = p
    BY <1>1
  <2>2. turn[i] \in Nat /\ turn[i - d] \in Nat /\ turn[i - d] = turn[i] - d
    <3>1. turn[i] \in Nat /\ turn[i - d] \in Nat /\ turn[i] - turn[i - d] = i - (i - d)
      BY <2>1
    <3> QED
      BY <1>1, <2>1, <3>1
  <2>3. turn[i - d] % N = q
    <3> DEFINE x == turn[i]
    <3>1. x \in Nat /\ d \in Nat /\ d <= x /\ (x % N = q + d \/ x % N = q + d - N)
      BY <1>1, <2>1, <2>2
    <3> HIDE DEF x, d
    <3>2. (x - d) % N = q
      BY <3>1, RemainderMoves
    <3> QED
      BY <2>2, <3>2 DEF x
  <2> QED
    BY <2>1, <2>3
<1>5. shift \in Injection(A \ E, B)
  <2>1. shift \in [A \ E -> B]
    BY <1>4
  <2>2. \A i, k \in A \ E : shift[i] = shift[k] => i = k
    BY <1>1
  <2> QED
    BY <2>1, <2>2 DEF Injection, IsInjective
<1>6. Cardinality(A \ E) <= Cardinality(B)
  BY <1>2, <1>5, FS_Injection
<1>7. Cardinality(A \ E) = Cardinality(A) - Cardinality(E)
  <2>1. A \cap E = E
    OBVIOUS
  <2> HIDE DEF A, E
  <2>2. Cardinality(A \ E) = Cardinality(A) - Cardinality(A \cap E)
    BY <1>2, FS_Difference
  <2> QED
    BY <2>1, <2>2
<1>8. Cardinality(A) \in Nat /\ Cardinality(B) \in Nat /\ Cardinality(E) \in Nat
  BY <1>2, FS_CardinalityType
<1> QED
  BY <1>3, <1>6, <1>7, <1>8

-----------------------------------------------------------------------------
PInv == CSInv /\ OrderInv /\ PlacedInv /\ ChoiceInv /\ RoundRobinInv /\ BurstInv

LEMMA PInitInv == PInit => PInv
<1> SUFFICES ASSUME PInit PROVE PInv
  OBVIOUS
<1>1. CSInv
  BY CSInitInv DEF PInit
<1>2. registrations = {} /\ lapsed = {} /\ DOMAIN reservations = {}
  BY DEF PInit, CSInit, EmptyDict
<1>3. OrderInv
  BY <1>2, FS_EmptySet DEF PInit, OrderInv
<1>4. placements = << >> /\ Len(placements) = 0 /\ steady_since = 0 /\ ~Pending
  BY DEF PInit, Pending
<1>5. PlacedInv
  BY <1>2, <1>4, TraceFacts DEF PlacedInv
<1>6. ChoiceInv
  BY <1>4, PoliciesAssumption DEF PInit, ChoiceInv
<1>7. RoundRobinInv /\ BurstInv
  BY <1>4 DEF RoundRobinInv, BurstInv
<1> QED
  BY <1>1, <1>3, <1>5, <1>6, <1>7 DEF PInv

LEMMA PNextInv == PInv /\ [PNext]_pVars => PInv'
<1> SUFFICES ASSUME PInv, [PNext]_pVars PROVE PInv'
  OBVIOUS
<1> USE DEF PInv
<1>1. CSInv'
  BY PoliciesLedgerStep, CSNextInv
<1>2. OrderInv' /\ PlacedInv' /\ ChoiceInv'
  BY OrderStep, PlacedStep, ChoiceStep
<1>3. RoundRobinInv' /\ BurstInv'
  BY RoundRobinStep, BurstStep
<1> QED
  BY <1>1, <1>2, <1>3

(* The invariants of the ledger, of the order of the nodes, of what was    *)
(* placed and of the choice in hand hold in every state of the policies.   *)
THEOREM PSpecInv == PSpec => []PInv
BY PInitInv, PNextInv, PTL DEF PSpec

(* The dispatcher reserves once per job of the trace, so that whatever the *)
(* policies choose, the ledger is used as ClusterState assumes, and its    *)
(* theorems hold.                                                          *)
THEOREM PoliciesUseLedger == PSpec => CSSpec
<1>1. PInit => CSInit
  BY DEF PInit
<1>2. PInv /\ [PNext]_pVars => [CSNext]_csVars
  BY PoliciesLedgerStep DEF PInv
<1> QED
  BY <1>1, <1>2, PSpecInv, PTL DEF PSpec, CSSpec

(* The order a policy sees is a strict order of the known nodes, and every *)
(* choice is one of the nodes it was offered.                              *)
THEOREM PoliciesTypeCorrect == PSpec => []PTypeOK
<1>1. PInv => PTypeOK
  <2> SUFFICES ASSUME PInv PROVE PTypeOK
    OBVIOUS
  <2>1. CSTypeOK
    BY DEF PInv, CSInv
  <2>2. \A i \in DOMAIN placements : placements[i].node \in placements[i].offered
    BY DEF PInv, PlacedInv
  <2>3. /\ selected_node \in available_nodes \cup {NoNode}
        /\ selected_node = NoNode <=> available_nodes = {}
    BY DEF PInv, ChoiceInv, Pending
  <2> QED
    BY <2>1, <2>2, <2>3 DEF PInv, PTypeOK, OrderInv, ChoiceInv, PlacedInv
<1> QED
  BY <1>1, PSpecInv, PTL

(* While the known nodes stay the same and all have room, round robin      *)
(* gives no node two jobs more than another.                               *)
THEOREM RoundRobinIsEven == PSpec => []RoundRobinEven
<1>1. PInv => RoundRobinEven
  <2> SUFFICES ASSUME PInv, policy_name = "round_robin",
                      \A i \in Steady : placements[i].offered = registrations,
                      NEW a \in registrations, NEW b \in registrations
               PROVE  Cardinality(Steady \cap PlacedOn(a))
                        <= Cardinality(Steady \cap PlacedOn(b)) + 1
    BY DEF RoundRobinEven
  <2> DEFINE N == Cardinality(registrations)
             first == steady_since + 1
             last == Len(placements)
             position(n) == Cardinality(Before(n, registrations))
             turn == [i \in first .. last |-> ChoiceOf(i)]
  <2>1. steady_since \in Nat /\ Len(placements) \in Nat /\ index \in Nat
    BY TraceFacts DEF PInv, PlacedInv, ChoiceInv
  <2>2. Steady = first .. last
    BY <2>1 DEF PInv, PlacedInv, Steady
  <2>3. N \in Nat \ {0} /\ position(a) \in 0 .. N - 1 /\ position(b) \in 0 .. N - 1
    BY BeforeFills, FS_EmptySet DEF PInv
  <2>4. \A i \in first .. last :
          ChoiceOf(i) \in Nat /\ InTurn(ChoiceOf(i), placements[i].node, registrations)
    BY <2>2 DEF PInv, RoundRobinInv
  <2>5. \A i \in first .. last : turn[i] \in Nat
    BY <2>4
  <2>6. \A i, k \in first .. last : turn[k] - turn[i] = k - i
    BY <2>1 DEF ChoiceOf
  <2>7. ASSUME NEW n \in registrations
        PROVE  Steady \cap PlacedOn(n) = Turns(turn, first, last, N, position(n))
    <3>1. ASSUME NEW i \in first .. last
          PROVE  placements[i].node = n <=> turn[i] % N = position(n)
      <4>1. /\ placements[i].node \in registrations
            /\ position(placements[i].node) = turn[i] % N
        BY <2>4 DEF InTurn
      <4>2. \A l, m \in registrations : position(l) = position(m) => l = m
        BY BeforeFills DEF PInv
      <4> QED
        BY <4>1, <4>2
    <3>2. first .. last \subseteq DOMAIN placements
      BY <2>1 DEF PInv, PlacedInv
    <3> QED
      BY <2>2, <3>1, <3>2 DEF PlacedOn, Turns
  <2>8. first \in Nat /\ last \in Nat
    BY <2>1
  <2> HIDE DEF N, first, last, position, turn
  <2>9. Cardinality(Turns(turn, first, last, N, position(a)))
          <= Cardinality(Turns(turn, first, last, N, position(b))) + 1
    BY <2>3, <2>5, <2>6, <2>8, TurnsAreEven
  <2> QED
    BY <2>7, <2>9
<1> QED
  BY <1>1, PSpecInv, PTL

(* As long as the placed jobs hold their cores, least loaded never gave a  *)
(* job to a node busier per core than another one it was offered.          *)
THEOREM BurstsSpread == PSpec => []BurstSpreads
<1>1. PInv => BurstSpreads
  <2> SUFFICES ASSUME PInv, policy_name = "least_loaded", lapsed = {},
                      \A i \in DOMAIN placements : placements[i].job \in DOMAIN reservations,
                      NEW a \in registrations, NEW b \in registrations, NEW i \in PlacedOn(a),
                      \A k \in PlacedOn(a) : k <= i, b \in placements[i].offered
               PROVE  (Count(running_jobs, a) - CpuRequest[placements[i].job]) * Slots(b)
                        <= Count(running_jobs, b) * Slots(a)
    BY DEF BurstSpreads
  <2>1. /\ DOMAIN placements = 1 .. Len(placements) /\ Len(placements) \in Nat
        /\ \A k \in 1 .. Len(placements) : placements[k].job = Trace[k]
        /\ registrations \subseteq Node
    BY DEF PInv, PlacedInv, CSInv, CSTypeOK
  <2>2. BurstHolds
    BY <2>1 DEF BurstHolds
  <2>3. i \in 1 .. Len(placements) /\ placements[i].node = a
    BY <2>1 DEF PlacedOn
  <2>4. \A k \in i + 1 .. Len(placements) : placements[k].node # a
    BY <2>1, <2>3 DEF PlacedOn
  <2>5. placements[i].job = Trace[i] /\ a \in Node /\ b \in Node
    BY <2>1, <2>3
  <2> QED
    BY <2>2, <2>3, <2>4, <2>5 DEF PInv, BurstInv
<1> QED
  BY <1>1, PSpecInv, PTL
=============================================================================
