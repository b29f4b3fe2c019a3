------------------------- MODULE ClusterStateProofs -------------------------
(* The ledger of ClusterState for every set of nodes and jobs, every       *)
(* capacity and every request: its types, that no removed node comes back, *)
(* that usage stays within capacity, that no slot leaks and that the       *)
(* counters are exact on nodes never removed under a job.                  *)
EXTENDS ClusterState, FiniteSetTheorems, TLAPS

-----------------------------------------------------------------------------
(* What a finite set of jobs requests in all is finite. *)
LEMMA UnitsFinite ==
  ASSUME NEW jobs, IsFiniteSet(jobs), NEW request,
         \A j \in jobs : request[j] \in Nat
  PROVE  IsFiniteSet(Units(jobs, request))
<1> DEFINE unitsOf == [j \in jobs |-> {j} \X (1 .. request[j])]
           perJob == {{j} \X (1 .. request[j]) : j \in jobs}
<1>1. unitsOf \in Surjection(jobs, perJob)
  BY DEF Surjection
<1>2. IsFiniteSet(perJob)
  BY <1>1, FS_Surjection
<1>3. ASSUME NEW U \in perJob PROVE IsFiniteSet(U)
  <2>1. PICK j \in jobs : U = {j} \X (1 .. request[j])
    OBVIOUS
  <2>2. IsFiniteSet({j})
    BY FS_Singleton
  <2>3. IsFiniteSet(1 .. request[j])
    BY request[j] \in Nat, FS_Interval
  <2> QED
    BY <2>1, <2>2, <2>3, FS_Product
<1> QED
  BY <1>2, <1>3, FS_UNION DEF Units

(* One more job adds exactly what it requests. *)
LEMMA UnitsAdd ==
  ASSUME NEW jobs, IsFiniteSet(jobs), NEW job, job \notin jobs, NEW request,
         \A j \in jobs \cup {job} : request[j] \in Nat
  PROVE  /\ Cardinality(Units(jobs, request)) \in Nat
         /\ Cardinality(Units(jobs \cup {job}, request))
              = Cardinality(Units(jobs, request)) + request[job]
<1> DEFINE old == Units(jobs, request)
           new == {job} \X (1 .. request[job])
<1>1. IsFiniteSet(old)
  BY UnitsFinite
<1>2. IsFiniteSet(new) /\ Cardinality(new) = request[job]
  <2>1. IsFiniteSet({job}) /\ Cardinality({job}) = 1
    BY FS_Singleton
  <2>2. IsFiniteSet(1 .. request[job]) /\ Cardinality(1 .. request[job]) = request[job]
    BY FS_Interval
  <2>3. /\ IsFiniteSet(new)
        /\ Cardinality(new) = Cardinality({job}) * Cardinality(1 .. request[job])
    BY <2>1, <2>2, FS_Product, Zenon
  <2> QED
    BY <2>1, <2>2, <2>3, request[job] \in Nat
<1>3. Units(jobs \cup {job}, request) = old \cup new
  BY DEF Units
<1>4. old \cap new = {}
  BY DEF Units
<1>5. Cardinality(old \cup new) = Cardinality(old) + request[job]
  <2> HIDE DEF old, new
  <2>1. Cardinality(old \cup new)
          = Cardinality(old) + Cardinality(new) - Cardinality(old \cap new)
    BY <1>1, <1>2, FS_Union, Zenon
  <2>2. Cardinality(old \cap new) = 0
    BY <1>4, FS_EmptySet
  <2>3. Cardinality(old) \in Nat
    BY <1>1, FS_CardinalityType
  <2> QED
    BY <1>2, <2>1, <2>2, <2>3, request[job] \in Nat
<1> QED
  BY <1>1, <1>3, <1>5, FS_CardinalityType

(* Nothing is requested by no job. *)
LEMMA UnitsEmpty ==
  ASSUME NEW request
  PROVE  Cardinality(Units({}, request)) = 0
BY FS_EmptySet DEF Units

-----------------------------------------------------------------------------
(* What the holders of a node requested is a natural number. *)
LEMMA ReservedIsNat ==
  ASSUME CSTypeOK, NEW n
  PROVE  /\ IsFiniteSet(Holders(n))
         /\ Holders(n) \subseteq Job
         /\ ReservedCpus(n) \in Nat
         /\ ReservedMemory(n) \in Nat
<1>1. Holders(n) \subseteq Job
  BY DEF CSTypeOK, Holders
<1>2. IsFiniteSet(Holders(n))
  BY <1>1, RequestAssumption, FS_Subset
<1>3. IsFiniteSet(Units(Holders(n), CpuRequest)) /\ IsFiniteSet(Units(Holders(n), MemRequest))
  BY <1>1, <1>2, RequestAssumption, UnitsFinite
<1> QED
  BY <1>1, <1>2, <1>3, FS_CardinalityType DEF ReservedCpus, ReservedMemory

(* When exactly one more job holds something on a node, and nobody else    *)
(* does, the reserved amounts grow by what it requested.                   *)
LEMMA OneMoreHolder ==
  ASSUME NEW jobs \in SUBSET Job, IsFiniteSet(jobs), NEW j \in Job \ jobs
  PROVE  /\ Cardinality(Units(jobs \cup {j}, CpuRequest))
              = Cardinality(Units(jobs, CpuRequest)) + CpuRequest[j]
         /\ Cardinality(Units(jobs \cup {j}, MemRequest))
              = Cardinality(Units(jobs, MemRequest)) + MemRequest[j]
BY UnitsAdd, RequestAssumption

LEMMA ReserveCounts ==
  ASSUME CSTypeOK, NEW m \in Node, NEW j \in Job \ DOMAIN reservations,
         reserve_slot(m, j), NEW n
  PROVE  /\ ReservedCpus(n)' = ReservedCpus(n) + (IF n = m THEN CpuRequest[j] ELSE 0)
         /\ ReservedMemory(n)' = ReservedMemory(n) + (IF n = m THEN MemRequest[j] ELSE 0)
<1>1. /\ DOMAIN reservations' = DOMAIN reservations \cup {j}
      /\ \A k \in DOMAIN reservations' :
           reservations'[k] = IF k = j THEN m ELSE reservations[k]
  <2>1. reservations' = Store(reservations, j, m)
    BY DEF reserve_slot
  <2> QED
    BY <2>1 DEF Store
<1>2. Holders(n)' = IF n = m THEN Holders(n) \cup {j} ELSE Holders(n)
  BY <1>1 DEF Holders
<1>3. j \notin Holders(n)
  BY DEF Holders
<1> QED
  BY <1>2, <1>3, ReservedIsNat, OneMoreHolder DEF ReservedCpus, ReservedMemory

LEMMA ReleaseCounts ==
  ASSUME CSTypeOK, NEW j \in DOMAIN reservations, release_slot(j), NEW n
  PROVE  /\ ReservedCpus(n) =
              ReservedCpus(n)' + (IF n = reservations[j] THEN CpuRequest[j] ELSE 0)
         /\ ReservedMemory(n) =
              ReservedMemory(n)' + (IF n = reservations[j] THEN MemRequest[j] ELSE 0)
         /\ ReservedCpus(n)' \in Nat
         /\ ReservedMemory(n)' \in Nat
<1>1. /\ DOMAIN reservations' = DOMAIN reservations \ {j}
      /\ \A k \in DOMAIN reservations' : reservations'[k] = reservations[k]
  <2>1. reservations' = Pop(reservations, {j})
    BY DEF release_slot
  <2> QED
    BY <2>1 DEF Pop, Restrict
<1>2. Holders(n)' = Holders(n) \ {j}
  BY <1>1 DEF Holders
<1>3. j \in Holders(n) <=> n = reservations[j]
  BY DEF Holders
<1>4. IsFiniteSet(Holders(n)') /\ Holders(n)' \subseteq Job /\ j \in Job \ Holders(n)'
  BY <1>2, ReservedIsNat, FS_Subset DEF CSTypeOK
<1>5. /\ IsFiniteSet(Units(Holders(n)', CpuRequest))
      /\ IsFiniteSet(Units(Holders(n)', MemRequest))
  BY <1>4, RequestAssumption, UnitsFinite
<1>6. ReservedCpus(n)' \in Nat /\ ReservedMemory(n)' \in Nat
  BY <1>5, FS_CardinalityType DEF ReservedCpus, ReservedMemory
<1>7. CASE n = reservations[j]
  <2>1. Holders(n) = Holders(n)' \cup {j}
    BY <1>2, <1>3, <1>7
  <2> QED
    BY <1>4, <1>6, <1>7, <2>1, OneMoreHolder DEF ReservedCpus, ReservedMemory
<1>8. CASE n # reservations[j]
  BY <1>2, <1>3, <1>6, <1>8 DEF ReservedCpus, ReservedMemory
<1> QED
  BY <1>7, <1>8

-----------------------------------------------------------------------------
(* A job can hold something only on a node that is known, or on one that   *)
(* was removed while a job held something there.                           *)
HoldersKnown ==
  \A j \in DOMAIN reservations : reservations[j] \in registrations \cup lapsed

CSInv ==
  /\ CSTypeOK
  /\ NoPhantomNode
  /\ HoldersKnown
  /\ WithinCapacity
  /\ LedgerBacked
  /\ LedgerExact

LEMMA CSInitInv == CSInit => CSInv
<1> SUFFICES ASSUME CSInit PROVE CSInv
  OBVIOUS
<1>1. DOMAIN EmptyDict = {}
  BY DEF EmptyDict
<1> QED
  BY <1>1 DEF CSInit, CSInv, CSTypeOK, NoPhantomNode, HoldersKnown, WithinCapacity,
              LedgerBacked, LedgerExact

(* A node nobody holds anything on has nothing reserved. *)
LEMMA NothingHeld ==
  ASSUME NEW n, Holders(n) = {}
  PROVE  ReservedCpus(n) = 0 /\ ReservedMemory(n) = 0
BY UnitsEmpty DEF ReservedCpus, ReservedMemory

(* An action that leaves the reservations alone leaves the amounts alone. *)
LEMMA ReservedUnchanged ==
  ASSUME reservations' = reservations, NEW n
  PROVE  ReservedCpus(n)' = ReservedCpus(n) /\ ReservedMemory(n)' = ReservedMemory(n)
BY DEF ReservedCpus, ReservedMemory, Holders

LEMMA RegisterInv ==
  ASSUME CSInv, NEW n \in Node, register_node(n)
  PROVE  CSInv'
<1> USE DEF CSInv
<1>1. /\ registrations' = registrations \cup {n}
      /\ last_heartbeat' = last_heartbeat
      /\ allocated_memory' = allocated_memory
      /\ reservations' = reservations
      /\ lapsed' = lapsed
  BY DEF register_node
<1>2. /\ DOMAIN running_jobs' = DOMAIN running_jobs \cup {n}
      /\ \A m \in DOMAIN running_jobs' :
           running_jobs'[m] = IF m \in DOMAIN running_jobs THEN running_jobs[m] ELSE 0
  <2>1. running_jobs' = IF n \in DOMAIN running_jobs THEN running_jobs
                        ELSE Store(running_jobs, n, 0)
    BY DEF register_node
  <2> QED
    BY <2>1 DEF Store
<1>3. CSTypeOK'
  BY <1>1, <1>2 DEF CSTypeOK
<1>4. NoPhantomNode'
  BY <1>1, <1>2 DEF NoPhantomNode
<1>5. HoldersKnown'
  BY <1>1 DEF HoldersKnown
<1>6. WithinCapacity'
  BY <1>1, <1>2, CapacityAssumption DEF WithinCapacity, CSTypeOK
<1>7. ASSUME NEW m
      PROVE  /\ Count(running_jobs, m)' = Count(running_jobs, m)
             /\ Count(allocated_memory, m)' = Count(allocated_memory, m)
             /\ ReservedCpus(m)' = ReservedCpus(m)
             /\ ReservedMemory(m)' = ReservedMemory(m)
  BY <1>1, <1>2, ReservedUnchanged DEF Count
<1>8. ASSUME n \notin registrations
      PROVE  Count(running_jobs, n) = 0 /\ Count(allocated_memory, n) = 0
  BY <1>8 DEF NoPhantomNode, Count
<1>9. LedgerBacked'
  BY <1>1, <1>7, <1>8, ReservedIsNat DEF LedgerBacked
<1>10. ASSUME n \notin registrations, n \notin lapsed
       PROVE  ReservedCpus(n) = 0 /\ ReservedMemory(n) = 0
  BY <1>10, NothingHeld DEF HoldersKnown, Holders
<1>11. LedgerExact'
  BY <1>1, <1>7, <1>8, <1>10 DEF LedgerExact
<1> QED
  BY <1>3, <1>4, <1>5, <1>6, <1>9, <1>11

LEMMA ExpireInv ==
  ASSUME CSInv, NEW expired, remove_expired_nodes(expired)
  PROVE  CSInv'
<1> USE DEF CSInv
<1>1. /\ registrations' = registrations \ expired
      /\ last_heartbeat' = last_heartbeat \ expired
      /\ reservations' = reservations
      /\ lapsed' = lapsed \cup (expired \cap {reservations[j] : j \in DOMAIN reservations})
      /\ expired \subseteq last_heartbeat
  BY DEF remove_expired_nodes
<1>2. /\ DOMAIN running_jobs' = DOMAIN running_jobs \ expired
      /\ \A m \in DOMAIN running_jobs' : running_jobs'[m] = running_jobs[m]
  <2>1. running_jobs' = Pop(running_jobs, expired)
    BY DEF remove_expired_nodes
  <2> QED
    BY <2>1 DEF Pop, Restrict
<1>3. /\ DOMAIN allocated_memory' = DOMAIN allocated_memory \ expired
      /\ \A m \in DOMAIN allocated_memory' : allocated_memory'[m] = allocated_memory[m]
  <2>1. allocated_memory' = Pop(allocated_memory, expired)
    BY DEF remove_expired_nodes
  <2> QED
    BY <2>1 DEF Pop, Restrict
<1>4. CSTypeOK'
  BY <1>1, <1>2, <1>3 DEF CSTypeOK
<1>5. NoPhantomNode'
  BY <1>1, <1>2, <1>3 DEF NoPhantomNode
<1>6. HoldersKnown'
  BY <1>1 DEF HoldersKnown
<1>7. WithinCapacity'
  BY <1>2, <1>3 DEF WithinCapacity
<1>8. ASSUME NEW m \in registrations'
      PROVE  /\ m \in registrations
             /\ Count(running_jobs, m)' = Count(running_jobs, m)
             /\ Count(allocated_memory, m)' = Count(allocated_memory, m)
             /\ ReservedCpus(m)' = ReservedCpus(m)
             /\ ReservedMemory(m)' = ReservedMemory(m)
  <2>1. m \in registrations /\ m \notin expired
    BY <1>1, <1>8
  <2> QED
    BY <1>1, <1>2, <1>3, <2>1, ReservedUnchanged DEF Count
<1>9. LedgerBacked'
  BY <1>8 DEF LedgerBacked
<1>10. LedgerExact'
  BY <1>1, <1>8 DEF LedgerExact
<1> QED
  BY <1>4, <1>5, <1>6, <1>7, <1>9, <1>10

LEMMA ReserveInv ==
  ASSUME CSInv, NEW n \in Node, NEW j \in Job \ DOMAIN reservations, reserve_slot(n, j)
  PROVE  CSInv'
<1> USE DEF CSInv
<1>1. /\ registrations' = registrations
      /\ last_heartbeat' = last_heartbeat
      /\ lapsed' = lapsed
      /\ n \in registrations
      /\ Fits(n, j)
  BY DEF reserve_slot, node_has_capacity
<1>2. /\ DOMAIN running_jobs' = DOMAIN running_jobs \cup {n}
      /\ \A m \in DOMAIN running_jobs' :
           running_jobs'[m] = IF m = n THEN Count(running_jobs, n) + CpuRequest[j]
                              ELSE running_jobs[m]
  BY DEF reserve_slot, Store
<1>3. /\ DOMAIN allocated_memory' = DOMAIN allocated_memory \cup {n}
      /\ \A m \in DOMAIN allocated_memory' :
           allocated_memory'[m] = IF m = n THEN Count(allocated_memory, n) + MemRequest[j]
                                  ELSE allocated_memory[m]
  BY DEF reserve_slot, Store
<1>4. /\ DOMAIN reservations' = DOMAIN reservations \cup {j}
      /\ \A k \in DOMAIN reservations' :
           reservations'[k] = IF k = j THEN n ELSE reservations[k]
  BY DEF reserve_slot, Store
<1>5. /\ Count(running_jobs, n) \in Nat
      /\ Count(allocated_memory, n) \in Nat
      /\ CpuRequest[j] \in Nat
      /\ MemRequest[j] \in Nat
  BY RequestAssumption DEF Count, CSTypeOK
<1>6. CSTypeOK'
  BY <1>1, <1>2, <1>3, <1>4, <1>5 DEF CSTypeOK
<1>7. NoPhantomNode'
  BY <1>1, <1>2, <1>3 DEF NoPhantomNode
<1>8. HoldersKnown'
  BY <1>1, <1>4 DEF HoldersKnown
<1>9. WithinCapacity'
  <2>1. Count(running_jobs, n) + CpuRequest[j] <= Cpus[n]
    BY <1>1 DEF Fits
  <2>2. Count(allocated_memory, n) + MemRequest[j] <= MemoryMb[n]
    <3>1. Count(allocated_memory, n) <= MemoryMb[n]
      BY CapacityAssumption DEF WithinCapacity, Count
    <3> QED
      BY <1>1, <1>5, <3>1, CapacityAssumption DEF Fits
  <2> QED
    BY <1>2, <1>3, <2>1, <2>2 DEF WithinCapacity
<1>10. ASSUME NEW m
       PROVE  /\ Count(running_jobs, m)'
                   = Count(running_jobs, m) + (IF m = n THEN CpuRequest[j] ELSE 0)
              /\ Count(allocated_memory, m)'
                   = Count(allocated_memory, m) + (IF m = n THEN MemRequest[j] ELSE 0)
              /\ Count(running_jobs, m) \in Nat
              /\ Count(allocated_memory, m) \in Nat
  BY <1>2, <1>3, <1>5 DEF Count, CSTypeOK
<1>11. ASSUME NEW m
       PROVE  /\ ReservedCpus(m)' = ReservedCpus(m) + (IF m = n THEN CpuRequest[j] ELSE 0)
              /\ ReservedMemory(m)' = ReservedMemory(m) + (IF m = n THEN MemRequest[j] ELSE 0)
              /\ ReservedCpus(m) \in Nat
              /\ ReservedMemory(m) \in Nat
  BY ReserveCounts, ReservedIsNat
<1>12. LedgerBacked'
  BY <1>1, <1>5, <1>10, <1>11 DEF LedgerBacked
<1>13. LedgerExact'
  BY <1>1, <1>5, <1>10, <1>11 DEF LedgerExact
<1> QED
  BY <1>6, <1>7, <1>8, <1>9, <1>12, <1>13

LEMMA ReleaseInv ==
  ASSUME CSInv, NEW j \in DOMAIN reservations, release_slot(j)
  PROVE  CSInv'
<1> USE DEF CSInv
<1> DEFINE n == reservations[j]
<1>1. /\ registrations' = registrations
      /\ last_heartbeat' = last_heartbeat
      /\ lapsed' = lapsed
      /\ j \in Job
  BY DEF release_slot, CSTypeOK
<1>2. /\ DOMAIN running_jobs' = DOMAIN running_jobs
      /\ \A m \in DOMAIN running_jobs :
           running_jobs'[m] = IF m # n THEN running_jobs[m]
                              ELSE IF running_jobs[m] > CpuRequest[j]
                                   THEN running_jobs[m] - CpuRequest[j] ELSE 0
  BY DEF release_slot, GiveBack
<1>3. /\ DOMAIN allocated_memory' = DOMAIN allocated_memory
      /\ \A m \in DOMAIN allocated_memory :
           allocated_memory'[m] = IF m # n THEN allocated_memory[m]
                                  ELSE IF allocated_memory[m] > MemRequest[j]
                                       THEN allocated_memory[m] - MemRequest[j] ELSE 0
  BY DEF release_slot, GiveBack
<1>4. /\ DOMAIN reservations' = DOMAIN reservations \ {j}
      /\ \A k \in DOMAIN reservations' : reservations'[k] = reservations[k]
  BY DEF release_slot, Pop, Restrict
<1>5. CpuRequest[j] \in Nat /\ MemRequest[j] \in Nat
  BY <1>1, RequestAssumption
<1>6. CSTypeOK'
  BY <1>1, <1>2, <1>3, <1>4, <1>5 DEF CSTypeOK
<1>7. NoPhantomNode'
  BY <1>1, <1>2, <1>3 DEF NoPhantomNode
<1>8. HoldersKnown'
  BY <1>1, <1>4 DEF HoldersKnown
<1>9. WithinCapacity'
  BY <1>2, <1>3, <1>5, CapacityAssumption DEF WithinCapacity, CSTypeOK
<1>10. ASSUME NEW m
       PROVE  /\ Count(running_jobs, m) \in Nat
              /\ Count(allocated_memory, m) \in Nat
              /\ Count(running_jobs, m)' =
                   IF m # n THEN Count(running_jobs, m)
                   ELSE IF Count(running_jobs, m) > CpuRequest[j]
                        THEN Count(running_jobs, m) - CpuRequest[j] ELSE 0
              /\ Count(allocated_memory, m)' =
                   IF m # n THEN Count(allocated_memory, m)
                   ELSE IF Count(allocated_memory, m) > MemRequest[j]
                        THEN Count(allocated_memory, m) - MemRequest[j] ELSE 0
  BY <1>2, <1>3, <1>5 DEF Count, CSTypeOK
<1>11. ASSUME NEW m
       PROVE  /\ ReservedCpus(m) = ReservedCpus(m)' + (IF m = n THEN CpuRequest[j] ELSE 0)
              /\ ReservedMemory(m) = ReservedMemory(m)' + (IF m = n THEN MemRequest[j] ELSE 0)
              /\ ReservedCpus(m)' \in Nat
              /\ ReservedMemory(m)' \in Nat
  BY ReleaseCounts
<1>12. LedgerBacked'
  BY <1>1, <1>5, <1>10, <1>11 DEF LedgerBacked
<1>13. LedgerExact'
  BY <1>1, <1>5, <1>10, <1>11 DEF LedgerExact
<1> QED
  BY <1>6, <1>7, <1>8, <1>9, <1>12, <1>13

(* A step that changes neither the ledger nor the membership. *)
LEMMA LedgerUntouched ==
  ASSUME CSInv, last_heartbeat' \subseteq Node,
         UNCHANGED <<registrations, ledgerVars, lapsed>>
  PROVE  CSInv'
<1>1. ASSUME NEW m
      PROVE  /\ Count(running_jobs, m)' = Count(running_jobs, m)
             /\ Count(allocated_memory, m)' = Count(allocated_memory, m)
             /\ ReservedCpus(m)' = ReservedCpus(m)
             /\ ReservedMemory(m)' = ReservedMemory(m)
  BY ReservedUnchanged DEF Count, ledgerVars
<1>2. (LedgerBacked /\ LedgerExact)'
  BY <1>1 DEF CSInv, LedgerBacked, LedgerExact
<1> QED
  BY <1>2 DEF CSInv, CSTypeOK, NoPhantomNode, HoldersKnown, WithinCapacity, ledgerVars

LEMMA CSNextInv == CSInv /\ [CSNext]_csVars => CSInv'
<1> SUFFICES ASSUME CSInv, [CSNext]_csVars PROVE CSInv'
  OBVIOUS
<1>1. CASE \E n \in Node : register_node(n)
  BY <1>1, RegisterInv
<1>2. CASE \E n \in Node : register_heartbeat(n)
  BY <1>2, LedgerUntouched DEF register_heartbeat, CSInv, CSTypeOK
<1>3. CASE \E expired \in SUBSET last_heartbeat : remove_expired_nodes(expired)
  BY <1>3, ExpireInv
<1>4. CASE \E n \in Node, j \in Job \ DOMAIN reservations : reserve_slot(n, j)
  BY <1>4, ReserveInv
<1>5. CASE UNCHANGED csVars
  BY <1>5, LedgerUntouched DEF csVars, CSInv, CSTypeOK
<1>6. CASE \E j \in Job : release_slot(j)
  <2>1. PICK j \in Job : release_slot(j)
    BY <1>6
  <2>2. CASE j \in DOMAIN reservations
    BY <2>1, <2>2, ReleaseInv
  <2>3. CASE j \notin DOMAIN reservations
    BY <1>5, <2>1, <2>3 DEF release_slot
  <2> QED
    BY <2>2, <2>3
<1> QED
  BY <1>1, <1>2, <1>3, <1>4, <1>5, <1>6 DEF CSNext

-----------------------------------------------------------------------------
(* The inductive invariant: everything above holds at all times, whatever  *)
(* the order of registrations, expirations, reservations and releases.     *)
THEOREM CSSpecInv == CSSpec => []CSInv
BY CSInitInv, CSNextInv, PTL DEF CSSpec

(* The counters stay natural numbers: release_slot never drives one below  *)
(* zero, even when a node came back with fresh counts under an old job.    *)
THEOREM CSTypeCorrect == CSSpec => []CSTypeOK
BY CSSpecInv, PTL DEF CSInv

(* A job reserved or released after its node was removed never brings the  *)
(* node back into a counter.                                               *)
THEOREM NoPhantom == CSSpec => []NoPhantomNode
BY CSSpecInv, PTL DEF CSInv

(* The counted usage of a node never exceeds what it registered with. *)
THEOREM CapacityRespected == CSSpec => []WithinCapacity
BY CSSpecInv, PTL DEF CSInv

(* Whatever is counted as used is held by some job and can be given back. *)
THEOREM NoSlotLeaks == CSSpec => []LedgerBacked
BY CSSpecInv, PTL DEF CSInv

(* On a node that was never removed while a job held something there, the  *)
(* counters equal what the reservations sum up to.                         *)
THEOREM CountsExact == CSSpec => []LedgerExact
BY CSSpecInv, PTL DEF CSInv
=============================================================================
