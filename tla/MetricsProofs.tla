---------------------------- MODULE MetricsProofs ----------------------------
(* The statistics of Metrics for every sample: sums add up over the parts  *)
(* of a sample, a percentile is a measured value at its rank, and fairness *)
(* is between its extremes.                                                *)
EXTENDS Metrics, FiniteSetTheorems, FunctionTheorems, WellFoundedInduction, TLAPS

-----------------------------------------------------------------------------
(* Induction over a finite set, for a property given as the set of the     *)
(* subsets that have it: a smallest one without it cannot exist.           *)
LEMMA FiniteInduction ==
  ASSUME NEW W, IsFiniteSet(W), NEW Good, {} \in Good,
         \A T \in SUBSET W, x \in W : T \in Good => T \cup {x} \in Good
  PROVE  W \in Good
<1>1. SUFFICES ASSUME W \notin Good PROVE FALSE
  OBVIOUS
<1> DEFINE bad == {T \in SUBSET W : T \notin Good}
<1>2. IsWellFoundedOn(StrictSubsetOrdering(W), SUBSET W)
  BY FS_StrictSubsetOrderingWellFounded, FS_FiniteSubsetsOfFinite
<1>3. bad # {} /\ bad \subseteq SUBSET W
  BY <1>1
<1>4. PICK T \in bad : \A U \in bad : <<U, T>> \notin StrictSubsetOrdering(W)
  <2> HIDE DEF bad
  <2> QED
    BY <1>2, <1>3, WFMin
<1>5. PICK x \in T : TRUE
  BY <1>4
<1>6. T \ {x} \in SUBSET W /\ T = (T \ {x}) \cup {x} /\ x \in W
  BY <1>4, <1>5
<1>7. T \ {x} \in bad
  BY <1>4, <1>6
<1>8. <<T \ {x}, T>> \in StrictSubsetOrdering(W)
  BY <1>4, <1>5, <1>6 DEF StrictSubsetOrdering
<1> QED
  BY <1>4, <1>7, <1>8

(* A finite set of integers has a least and a greatest element. *)
LEMMA ExtremesExist ==
  ASSUME NEW S, IsFiniteSet(S), S \subseteq Int, S # {}
  PROVE  /\ \E m \in S : \A k \in S : m <= k
         /\ \E m \in S : \A k \in S : k <= m
<1> DEFINE both(T) == /\ \E m \in T : \A k \in T : m <= k
                      /\ \E m \in T : \A k \in T : k <= m
           good == {T \in SUBSET S : T # {} => both(T)}
<1>1. {} \in good
  OBVIOUS
<1>2. ASSUME NEW T \in SUBSET S, NEW x \in S, T \in good
      PROVE  T \cup {x} \in good
  <2>1. CASE T = {}
    <3>1. both({x})
      OBVIOUS
    <3> QED
      BY <2>1, <3>1
  <2>2. CASE T # {}
    <3>1. PICK low \in T : \A k \in T : low <= k
      BY <1>2, <2>2
    <3>2. PICK high \in T : \A k \in T : k <= high
      BY <1>2, <2>2
    <3>3. low \in Int /\ high \in Int /\ x \in Int
      OBVIOUS
    <3>4. \E m \in T \cup {x} : \A k \in T \cup {x} : m <= k
      <4>1. CASE low <= x
        BY <3>1, <4>1
      <4>2. CASE ~(low <= x)
        BY <3>1, <3>3, <4>2
      <4> QED
        BY <4>1, <4>2
    <3>5. \E m \in T \cup {x} : \A k \in T \cup {x} : k <= m
      <4>1. CASE x <= high
        BY <3>2, <4>1
      <4>2. CASE ~(x <= high)
        BY <3>2, <3>3, <4>2
      <4> QED
        BY <4>1, <4>2
    <3> QED
      BY <3>4, <3>5
  <2> QED
    BY <2>1, <2>2
<1>3. S \in good
  <2> HIDE DEF good
  <2> QED
    BY <1>1, <1>2, FiniteInduction
<1> QED
  BY <1>3

LEMMA MinIs ==
  ASSUME NEW S, IsFiniteSet(S), S \subseteq Int, S # {}
  PROVE  Min(S) \in S /\ \A k \in S : Min(S) <= k
BY ExtremesExist DEF Min

LEMMA MaxIs ==
  ASSUME NEW S, IsFiniteSet(S), S \subseteq Int, S # {}
  PROVE  Max(S) \in S /\ \A k \in S : k <= Max(S)
BY ExtremesExist DEF Max

-----------------------------------------------------------------------------
(* A union of finitely many finite sets is finite. *)
LEMMA UnionFinite ==
  ASSUME NEW K, IsFiniteSet(K), NEW parts, \A k \in K : IsFiniteSet(parts[k])
  PROVE  IsFiniteSet(UNION {parts[k] : k \in K})
<1> DEFINE joined(T) == UNION {parts[k] : k \in T}
           good == {T \in SUBSET K : IsFiniteSet(joined(T))}
<1>1. {} \in good
  <2>1. joined({}) = {}
    OBVIOUS
  <2> QED
    BY <2>1, FS_EmptySet
<1>2. ASSUME NEW T \in SUBSET K, NEW x \in K, T \in good
      PROVE  T \cup {x} \in good
  <2>1. joined(T \cup {x}) = joined(T) \cup parts[x]
    OBVIOUS
  <2>2. IsFiniteSet(joined(T)) /\ IsFiniteSet(parts[x])
    BY <1>2
  <2> HIDE DEF joined
  <2>3. IsFiniteSet(joined(T) \cup parts[x])
    BY <2>2, FS_Union
  <2> QED
    BY <2>1, <2>3
<1>3. K \in good
  <2> HIDE DEF good
  <2> QED
    BY <1>1, <1>2, FiniteInduction
<1> QED
  BY <1>3

(* Sets that are each no larger than their place in a family of disjoint   *)
(* ones are not larger together.                                           *)
LEMMA PartsBound ==
  ASSUME NEW K, IsFiniteSet(K), NEW parts, NEW places,
         \A k \in K : /\ IsFiniteSet(parts[k]) /\ IsFiniteSet(places[k])
                      /\ Cardinality(parts[k]) <= Cardinality(places[k]),
         \A k, l \in K : k # l => places[k] \cap places[l] = {}
  PROVE  Cardinality(UNION {parts[k] : k \in K}) <= Cardinality(UNION {places[k] : k \in K})
<1> DEFINE left(T) == UNION {parts[k] : k \in T}
           right(T) == UNION {places[k] : k \in T}
           good == {T \in SUBSET K : Cardinality(left(T)) <= Cardinality(right(T))}
<1>1. {} \in good
  <2>1. left({}) = {} /\ right({}) = {}
    OBVIOUS
  <2> QED
    BY <2>1, FS_EmptySet
<1>2. ASSUME NEW T \in SUBSET K, NEW x \in K, T \in good
      PROVE  T \cup {x} \in good
  <2>1. CASE x \in T
    <3>1. T \cup {x} = T
      BY <2>1
    <3> QED
      BY <1>2, <3>1
  <2>2. CASE x \notin T
    <3>1. /\ left(T \cup {x}) = left(T) \cup parts[x]
          /\ right(T \cup {x}) = right(T) \cup places[x]
      OBVIOUS
    <3>2. right(T) \cap places[x] = {}
      BY <2>2
    <3>3. IsFiniteSet(T)
      BY FS_Subset
    <3>4. IsFiniteSet(left(T)) /\ IsFiniteSet(right(T))
      BY <3>3, UnionFinite
    <3>5. Cardinality(left(T)) <= Cardinality(right(T))
      BY <1>2
    <3> HIDE DEF left, right
    <3>6. /\ IsFiniteSet(parts[x]) /\ IsFiniteSet(places[x])
          /\ Cardinality(parts[x]) <= Cardinality(places[x])
      OBVIOUS
    <3>7. Cardinality(left(T) \cup parts[x])
            = Cardinality(left(T)) + Cardinality(parts[x]) - Cardinality(left(T) \cap parts[x])
      BY <3>4, <3>6, FS_Union
    <3>8. Cardinality(right(T) \cup places[x]) = Cardinality(right(T)) + Cardinality(places[x])
      <4>1. Cardinality(right(T) \cap places[x]) = 0
        BY <3>2, FS_EmptySet
      <4>2. Cardinality(right(T) \cup places[x])
              = Cardinality(right(T)) + Cardinality(places[x]) - Cardinality(right(T) \cap places[x])
        BY <3>4, <3>6, FS_Union
      <4> QED
        BY <3>4, <3>6, <4>1, <4>2, FS_CardinalityType
    <3>9. IsFiniteSet(left(T) \cap parts[x])
      BY <3>4, FS_Intersection
    <3>10. /\ Cardinality(left(T)) \in Nat /\ Cardinality(right(T)) \in Nat
           /\ Cardinality(parts[x]) \in Nat /\ Cardinality(places[x]) \in Nat
           /\ Cardinality(left(T) \cap parts[x]) \in Nat
      BY <3>4, <3>6, <3>9, FS_CardinalityType
    <3>11. Cardinality(left(T) \cup parts[x]) <= Cardinality(right(T) \cup places[x])
      BY <3>5, <3>6, <3>7, <3>8, <3>10
    <3>12. Cardinality(left(T \cup {x})) <= Cardinality(right(T \cup {x}))
      BY <3>1, <3>11
    <3> QED
      BY <3>12
  <2> QED
    BY <2>1, <2>2
<1>3. K \in good
  <2> HIDE DEF good
  <2> QED
    BY <1>1, <1>2, FiniteInduction
<1> QED
  BY <1>3

-----------------------------------------------------------------------------
(* What the statistics are computed from: finitely many values, of which   *)
(* some may be NULL.                                                       *)
Sample(values) ==
  /\ IsFiniteSet(DOMAIN values)
  /\ \A k \in DOMAIN values : values[k] \in Int \cup {None}

Counts(values) ==
  /\ IsFiniteSet(DOMAIN values)
  /\ \A k \in DOMAIN values : values[k] \in Nat \cup {None}

(* The sum of counts is the number of their units. *)
LEMMA CountsTotal ==
  ASSUME NEW values, Counts(values)
  PROVE  /\ IsFiniteSet(Above(values))
         /\ Total(values) = Cardinality(Above(values))
         /\ Total(values) \in Nat
<1> DEFINE units == [k \in Known(values) |-> {k} \X (1 .. values[k])]
<1>1. \A k \in Known(values) : values[k] \in Nat /\ k \in DOMAIN values
  BY DEF Known, Counts
<1>2. IsFiniteSet(Known(values))
  BY FS_Subset DEF Counts, Known
<1>3. ASSUME NEW k \in Known(values) PROVE IsFiniteSet(units[k])
  <2>1. values[k] \in Int
    BY <1>1
  <2>2. IsFiniteSet(1 .. values[k])
    BY <2>1, FS_Interval
  <2>3. IsFiniteSet({k})
    BY FS_Singleton
  <2> QED
    BY <2>2, <2>3, FS_Product
<1>4. IsFiniteSet(UNION {units[k] : k \in Known(values)})
  <2> HIDE DEF units
  <2> QED
    BY <1>2, <1>3, UnionFinite
<1>5. IsFiniteSet(Above(values))
  BY <1>4 DEF Above
<1>6. Below(values) = {}
  BY <1>1 DEF Below
<1> QED
  BY <1>5, <1>6, FS_EmptySet, FS_CardinalityType DEF Total

(* The sizes of disjoint parts sum up to the size of the whole. *)
LEMMA PartsAddUp ==
  ASSUME NEW K, IsFiniteSet(K), NEW parts,
         \A k \in K : IsFiniteSet(parts[k]),
         \A k, l \in K : k # l => parts[k] \cap parts[l] = {}
  PROVE  Total([k \in K |-> Cardinality(parts[k])]) = Cardinality(UNION {parts[k] : k \in K})
<1> DEFINE sizes == [k \in K |-> Cardinality(parts[k])]
           units == [k \in K |-> {k} \X (1 .. Cardinality(parts[k]))]
<1>1. \A k \in K : Cardinality(parts[k]) \in Nat
  BY FS_CardinalityType
<1>2. Counts(sizes)
  BY <1>1 DEF Counts
<1>3. Known(sizes) = K
  BY <1>1, NoneAssumption DEF Known
<1>4. Above(sizes) = UNION {units[k] : k \in K}
  BY <1>3 DEF Above
<1>5. ASSUME NEW k \in K
      PROVE  IsFiniteSet(units[k]) /\ Cardinality(units[k]) = Cardinality(parts[k])
  <2>1. /\ IsFiniteSet(1 .. Cardinality(parts[k]))
        /\ Cardinality(1 .. Cardinality(parts[k])) = Cardinality(parts[k])
    BY <1>1, FS_Interval
  <2>2. IsFiniteSet({k}) /\ Cardinality({k}) = 1
    BY FS_Singleton
  <2>3. /\ IsFiniteSet(units[k])
        /\ Cardinality(units[k]) = Cardinality({k}) * Cardinality(1 .. Cardinality(parts[k]))
    BY <2>1, <2>2, FS_Product
  <2> QED
    BY <1>1, <2>1, <2>2, <2>3
<1>6. \A k, l \in K : k # l => units[k] \cap units[l] = {}
  OBVIOUS
<1> DEFINE whole == UNION {parts[k] : k \in K}
           unit == UNION {units[k] : k \in K}
<1>7. IsFiniteSet(whole)
  BY UnionFinite
<1> HIDE DEF units
<1>8. \A k \in K : Cardinality(units[k]) <= Cardinality(parts[k])
                   /\ Cardinality(parts[k]) <= Cardinality(units[k])
  BY <1>1, <1>5
<1>9. Cardinality(unit) <= Cardinality(whole)
  BY <1>5, <1>8, PartsBound
<1>10. Cardinality(whole) <= Cardinality(unit)
  BY <1>5, <1>6, <1>8, PartsBound
<1>11. Total(sizes) = Cardinality(unit) /\ Total(sizes) \in Nat
  <2> HIDE DEF sizes
  <2> QED
    BY <1>2, <1>4, CountsTotal
<1>12. Cardinality(whole) \in Nat
  BY <1>7, FS_CardinalityType
<1> QED
  BY <1>9, <1>10, <1>11, <1>12

-----------------------------------------------------------------------------
(* The measured values of a sample, and how many of them there are up to   *)
(* a value.                                                                *)
LEMMA MeasuredFacts ==
  ASSUME NEW values, Sample(values)
  PROVE  /\ IsFiniteSet(Known(values)) /\ Cardinality(Known(values)) \in Nat
         /\ \A k \in Known(values) : values[k] \in Int
         /\ Measured(values) \subseteq Int /\ IsFiniteSet(Measured(values))
         /\ Known(values) # {} => Cardinality(Known(values)) > 0 /\ Measured(values) # {}
<1>1. IsFiniteSet(Known(values))
  BY FS_Subset DEF Sample, Known
<1>2. Cardinality(Known(values)) \in Nat
  BY <1>1, FS_CardinalityType
<1>3. \A k \in Known(values) : values[k] \in Int
  BY DEF Sample, Known
<1>4. Measured(values) \subseteq Int
  BY <1>3 DEF Measured
<1>5. IsFiniteSet(Measured(values))
  <2> DEFINE read == [k \in Known(values) |-> values[k]]
  <2>1. read \in Surjection(Known(values), Measured(values))
    BY DEF Surjection, Measured
  <2> QED
    BY <1>1, <2>1, FS_Surjection
<1>6. Known(values) # {} => Cardinality(Known(values)) > 0 /\ Measured(values) # {}
  <2>1. Known(values) # {} => Cardinality(Known(values)) # 0
    BY <1>1, FS_EmptySet
  <2> QED
    BY <1>2, <2>1 DEF Measured
<1> QED
  BY <1>1, <1>2, <1>3, <1>4, <1>5, <1>6

LEMMA AtMostCounts ==
  ASSUME NEW values, Sample(values), NEW v \in Int
  PROVE  /\ AtMost(values, v) \in Nat
         /\ AtMost(values, v) <= Cardinality(Known(values))
         /\ v \in Measured(values) => AtMost(values, v) >= 1
         /\ (\A k \in Known(values) : values[k] <= v) => AtMost(values, v) = Cardinality(Known(values))
<1> DEFINE upTo == {k \in Known(values) : values[k] <= v}
<1>1. IsFiniteSet(Known(values)) /\ upTo \in SUBSET Known(values)
  BY MeasuredFacts
<1>2. IsFiniteSet(upTo) /\ Cardinality(upTo) <= Cardinality(Known(values))
  BY <1>1, FS_Subset
<1>3. Cardinality(upTo) \in Nat
  BY <1>2, FS_CardinalityType
<1>4. v \in Measured(values) => Cardinality(upTo) >= 1
  <2>1. v \in Measured(values) => upTo # {}
    BY DEF Measured
  <2>2. upTo # {} => Cardinality(upTo) # 0
    BY <1>2, FS_EmptySet
  <2> QED
    BY <1>3, <2>1, <2>2
<1>5. (\A k \in Known(values) : values[k] <= v) => upTo = Known(values)
  OBVIOUS
<1> QED
  BY <1>2, <1>3, <1>4, <1>5 DEF AtMost

(* A value at a rank: as many values as the rank says do not exceed it,    *)
(* and fewer do not exceed a lower one.                                    *)
AtRank(values, rank, v) ==
  /\ v \in Measured(values)
  /\ AtMost(values, v) >= rank
  /\ \A lower \in Measured(values) : lower < v => AtMost(values, lower) < rank

LEMMA RankedIs ==
  ASSUME NEW values, Sample(values), NEW rank \in 1 .. Cardinality(Known(values))
  PROVE  AtRank(values, rank, Ranked(values, rank))
<1> DEFINE enough == {v \in Measured(values) : AtMost(values, v) >= rank}
<1>1. Known(values) # {}
  BY FS_EmptySet
<1>2. /\ Measured(values) \subseteq Int /\ IsFiniteSet(Measured(values)) /\ Measured(values) # {}
      /\ Cardinality(Known(values)) \in Nat
  BY <1>1, MeasuredFacts
<1>3. IsFiniteSet(enough)
  BY <1>2, FS_Subset
<1>4. enough # {}
  <2> DEFINE top == Max(Measured(values))
  <2>1. top \in Measured(values) /\ \A v \in Measured(values) : v <= top
    BY <1>2, MaxIs
  <2>2. \A k \in Known(values) : values[k] <= top
    BY <2>1 DEF Measured
  <2>3. AtMost(values, top) = Cardinality(Known(values))
    BY <1>2, <2>1, <2>2, AtMostCounts
  <2>4. AtMost(values, top) >= rank
    BY <1>2, <2>3
  <2> QED
    BY <2>1, <2>4
<1>5. enough \subseteq Int
  BY <1>2
<1>6. Min(enough) \in enough /\ \A v \in enough : Min(enough) <= v
  <2> HIDE DEF enough
  <2> QED
    BY <1>3, <1>4, <1>5, MinIs
<1>7. ASSUME NEW lower \in Measured(values), lower < Min(enough)
      PROVE  AtMost(values, lower) < rank
  <2>1. lower \in Int /\ Min(enough) \in Int
    BY <1>2, <1>6
  <2>2. lower \notin enough
    <3> HIDE DEF enough
    <3> QED
      BY <1>6, <1>7, <2>1
  <2> QED
    BY <2>1, <2>2, AtMostCounts
<1> QED
  BY <1>6, <1>7 DEF AtRank, Ranked

(* round() is within a half of the quotient. *)
LEMMA RoundedIsNear ==
  ASSUME NEW a \in Nat, NEW b \in Nat \ {0}
  PROVE  /\ Rounded(a, b) \in Nat
         /\ 2 * (b * Rounded(a, b)) <= 2 * a + b
         /\ 2 * a <= 2 * (b * Rounded(a, b)) + b
<1> DEFINE q == a \div b
           r == a % b
<1>1. q \in Nat /\ r \in 0 .. b - 1 /\ a = b * q + r
  OBVIOUS
<1> HIDE DEF q, r
<1>2. b * (q + 1) = b * q + b /\ b * q \in Nat
  BY <1>1
<1>3. CASE Rounded(a, b) = q + 1 /\ 2 * r >= b
  BY <1>1, <1>2, <1>3
<1>4. CASE Rounded(a, b) = q /\ 2 * r <= b
  BY <1>1, <1>2, <1>4
<1>5. \/ Rounded(a, b) = q + 1 /\ 2 * r >= b
      \/ Rounded(a, b) = q /\ 2 * r <= b
  BY <1>1 DEF Rounded, q, r
<1> QED
  BY <1>3, <1>4, <1>5

(* The rank of a percentile is one of the n there are, and is what the     *)
(* percentage asks for, to half a value.                                   *)
LEMMA RankIsNear ==
  ASSUME NEW n \in Nat \ {0}, NEW pct \in 0 .. 100
  PROVE  /\ Rank(pct, n) \in 1 .. n
         /\ 100 * Rank(pct, n) + 50 >= pct * n
         /\ Rank(pct, n) > 1 => 100 * Rank(pct, n) <= pct * n + 50
<1> DEFINE near == Rounded(pct * n, 100)
           atLeastOne == Max({1, near})
           rank == Min({atLeastOne, n})
<1>1. pct * n \in Nat /\ pct * n <= 100 * n
  OBVIOUS
<1>2. /\ near \in Nat
      /\ 2 * (100 * near) <= 2 * (pct * n) + 100 /\ 2 * (pct * n) <= 2 * (100 * near) + 100
  BY <1>1, RoundedIsNear
<1> HIDE DEF near
<1>3. ASSUME NEW x \in Int, NEW y \in Int PROVE IsFiniteSet({x, y})
  <2>1. IsFiniteSet({x})
    BY FS_Singleton
  <2>2. IsFiniteSet({x} \cup {y})
    BY <2>1, FS_AddElement
  <2>3. {x, y} = {x} \cup {y}
    OBVIOUS
  <2> QED
    BY <2>2, <2>3
<1>4. atLeastOne \in {1, near} /\ atLeastOne >= 1 /\ atLeastOne >= near
  BY <1>2, <1>3, MaxIs
<1> HIDE DEF atLeastOne
<1>5. atLeastOne \in Int
  BY <1>2, <1>4
<1>6. rank \in {atLeastOne, n} /\ rank <= atLeastOne /\ rank <= n
  BY <1>3, <1>5, MinIs
<1> HIDE DEF rank
<1>7. rank = Rank(pct, n)
  BY DEF Rank, rank, atLeastOne, near
<1>8. rank \in 1 .. n
  BY <1>4, <1>5, <1>6
<1>9. 100 * rank + 50 >= pct * n
  BY <1>1, <1>2, <1>4, <1>5, <1>6
<1>10. rank > 1 => 100 * rank <= pct * n + 50
  BY <1>1, <1>2, <1>4, <1>5, <1>6
<1> QED
  BY <1>7, <1>8, <1>9, <1>10

(* A percentile of any sample is one of its values, and off by half a      *)
(* measurement at most: that share of the sample, less half a measurement, *)
(* does not exceed it, and no more than that exceeds no lower value.       *)
THEOREM PercentileIsNear ==
  ASSUME NEW values, Sample(values), Known(values) # {}, NEW pct \in 0 .. 100
  PROVE  LET v == percentile(values, pct)
             share == pct * Cardinality(Known(values))
         IN  /\ v \in Measured(values)
             /\ 100 * AtMost(values, v) + 50 >= share
             /\ \A lower \in Measured(values) :
                  lower < v => 100 * AtMost(values, lower) + 50 <= share
<1> DEFINE n == Cardinality(Known(values))
           rank == Rank(pct, n)
           v == percentile(values, pct)
           share == pct * n
<1>1. n \in Nat \ {0} /\ Measured(values) \subseteq Int
  BY MeasuredFacts
<1>2. /\ rank \in 1 .. n
      /\ 100 * rank + 50 >= share
      /\ rank > 1 => 100 * rank <= share + 50
  BY <1>1, RankIsNear
<1>3. v = Ranked(values, rank)
  BY DEF percentile
<1>4. share \in Nat
  BY <1>1
<1> HIDE DEF rank, v, share
<1>5. AtRank(values, rank, v)
  BY <1>2, <1>3, RankedIs
<1>6. v \in Measured(values) /\ v \in Int
  BY <1>1, <1>5 DEF AtRank
<1>7. AtMost(values, v) \in Nat /\ AtMost(values, v) >= rank
  BY <1>5, <1>6, AtMostCounts DEF AtRank
<1>8. 100 * AtMost(values, v) + 50 >= share
  BY <1>1, <1>2, <1>4, <1>7
<1>9. ASSUME NEW lower \in Measured(values), lower < v
      PROVE  100 * AtMost(values, lower) + 50 <= share
  <2>1. AtMost(values, lower) < rank
    BY <1>5, <1>9 DEF AtRank
  <2>2. AtMost(values, lower) \in Nat /\ AtMost(values, lower) >= 1
    BY <1>1, AtMostCounts
  <2> QED
    BY <1>1, <1>2, <1>4, <2>1, <2>2
<1> QED
  BY <1>6, <1>8, <1>9 DEF v, share

(* The median as well as the percentile lie between the extremes, which    *)
(* are measured values.                                                    *)
THEOREM DistributionInOrder ==
  ASSUME NEW values, Sample(values), Known(values) # {}
  PROVE  LET d == distribution(values)
         IN  /\ {d.min, d.max, d.p95} \subseteq Measured(values)
             /\ \A v \in Measured(values) : d.min <= v /\ v <= d.max
             /\ d.median[2] = 2
             /\ 2 * d.min <= d.median[1] /\ d.median[1] <= 2 * d.max
             /\ d.min <= d.p95 /\ d.p95 <= d.max
<1> DEFINE n == Cardinality(Known(values))
           d == distribution(values)
           lower == Ranked(values, (n + 1) \div 2)
           upper == Ranked(values, n \div 2 + 1)
<1>1. /\ n \in Nat \ {0} /\ Measured(values) \subseteq Int
      /\ IsFiniteSet(Measured(values)) /\ Measured(values) # {}
  BY MeasuredFacts
<1>2. /\ d.min = Min(Measured(values)) /\ d.max = Max(Measured(values))
      /\ d.p95 = percentile(values, 95) /\ d.median = <<lower + upper, 2>>
  BY <1>1 DEF distribution
<1>3. lower \in Measured(values) /\ upper \in Measured(values)
  <2>1. (n + 1) \div 2 \in 1 .. n /\ n \div 2 + 1 \in 1 .. n
    BY <1>1
  <2> QED
    BY <2>1, RankedIs DEF AtRank
<1>4. d.p95 \in Measured(values)
  BY <1>2, PercentileIsNear
<1>5. /\ d.min \in Measured(values) /\ d.max \in Measured(values)
      /\ \A v \in Measured(values) : d.min <= v /\ v <= d.max
  BY <1>1, <1>2, MinIs, MaxIs
<1> HIDE DEF d, lower, upper
<1>6. d.median[1] = lower + upper /\ d.median[2] = 2
  BY <1>2
<1>7. /\ d.min <= lower /\ d.min <= upper /\ lower <= d.max /\ upper <= d.max
      /\ d.min <= d.p95 /\ d.p95 <= d.max
  BY <1>3, <1>4, <1>5
<1>8. 2 * d.min <= d.median[1] /\ d.median[1] <= 2 * d.max
  BY <1>1, <1>3, <1>5, <1>6, <1>7
<1> QED
  BY <1>4, <1>5, <1>6, <1>7, <1>8 DEF d

-----------------------------------------------------------------------------
(* A sum of counts grows by the value of the key that is added. *)
LEMMA TotalAdds ==
  ASSUME NEW K, NEW counts \in [K -> Nat], NEW T \in SUBSET K, IsFiniteSet(T),
         NEW x \in K \ T
  PROVE  Total([k \in T \cup {x} |-> counts[k]]) = Total([k \in T |-> counts[k]]) + counts[x]
<1> DEFINE few == [k \in T |-> counts[k]]
           more == [k \in T \cup {x} |-> counts[k]]
           unit == {x} \X (1 .. counts[x])
<1>1. IsFiniteSet(T \cup {x})
  BY FS_AddElement
<1>2. Counts(few) /\ Counts(more)
  BY <1>1 DEF Counts
<1>3. Known(few) = T /\ Known(more) = T \cup {x}
  BY NoneAssumption DEF Known
<1>4. Above(more) = Above(few) \cup unit
  BY <1>3 DEF Above
<1>5. Above(few) \cap unit = {}
  BY <1>3 DEF Above
<1>6. IsFiniteSet(unit) /\ Cardinality(unit) = counts[x]
  <2>1. IsFiniteSet(1 .. counts[x]) /\ Cardinality(1 .. counts[x]) = counts[x]
    BY FS_Interval
  <2>2. IsFiniteSet({x}) /\ Cardinality({x}) = 1
    BY FS_Singleton
  <2>3. IsFiniteSet(unit) /\ Cardinality(unit) = Cardinality({x}) * Cardinality(1 .. counts[x])
    BY <2>1, <2>2, FS_Product
  <2> QED
    BY <2>1, <2>2, <2>3
<1> HIDE DEF few, more, unit
<1>7. /\ IsFiniteSet(Above(few))
      /\ Total(few) = Cardinality(Above(few)) /\ Total(more) = Cardinality(Above(more))
      /\ Total(few) \in Nat
  BY <1>2, CountsTotal
<1>8. Cardinality(Above(few) \cup unit)
        = Cardinality(Above(few)) + Cardinality(unit) - Cardinality(Above(few) \cap unit)
  BY <1>6, <1>7, FS_Union
<1>9. Cardinality(Above(few) \cap unit) = 0
  BY <1>5, FS_EmptySet
<1>10. Total(more) = Total(few) + counts[x]
  BY <1>4, <1>6, <1>7, <1>8, <1>9
<1> QED
  BY <1>10 DEF few, more

(* The algebra of one more value y among n with sum T and sum of squares Q. *)
LEMMA SquaresGrow ==
  ASSUME NEW n \in Nat, NEW T \in Nat, NEW Q \in Nat, NEW y \in Nat,
         T * T <= n * Q, Q <= T * T, 2 * (T * y) <= n * (y * y) + Q
  PROVE  /\ (T + y) * (T + y) <= (n + 1) * (Q + y * y)
         /\ Q + y * y <= (T + y) * (T + y)
<1>1. (T + y) * (T + y) = T * T + 2 * (T * y) + y * y
  OBVIOUS
<1>2. (n + 1) * (Q + y * y) = n * Q + n * (y * y) + Q + y * y
  OBVIOUS
<1>3. T * y \in Nat /\ y * y \in Nat /\ n * (y * y) \in Nat /\ T * T \in Nat /\ n * Q \in Nat
  OBVIOUS
<1> QED
  BY <1>1, <1>2, <1>3

LEMMA MixedGrows ==
  ASSUME NEW n \in Nat, NEW T \in Nat, NEW Q \in Nat, NEW y \in Nat, NEW z \in Nat,
         2 * (T * z) <= n * (z * z) + Q
  PROVE  2 * ((T + y) * z) <= (n + 1) * (z * z) + (Q + y * y)
<1>1. (T + y) * z = T * z + y * z
  OBVIOUS
<1>2. (n + 1) * (z * z) = n * (z * z) + z * z
  OBVIOUS
<1>3. 2 * (y * z) <= z * z + y * y
  <2>1. (y - z) * (y - z) >= 0
    OBVIOUS
  <2>2. (y - z) * (y - z) = y * y - 2 * (y * z) + z * z
    OBVIOUS
  <2> QED
    BY <2>1, <2>2
<1>4. T * z \in Nat /\ y * z \in Nat /\ n * (z * z) \in Nat /\ z * z \in Nat /\ y * y \in Nat
  OBVIOUS
<1> QED
  BY <1>1, <1>2, <1>3, <1>4

(* The square of a sum of n counts is at most n times the sum of their     *)
(* squares, and at least that sum.                                         *)
LEMMA SquareOfSum ==
  ASSUME NEW K, IsFiniteSet(K), NEW counts \in [K -> Nat]
  PROVE  LET T == Total(counts)
             Q == Total([k \in K |-> counts[k] * counts[k]])
         IN  T \in Nat /\ Q \in Nat /\ T * T <= Cardinality(K) * Q /\ Q <= T * T
<1> DEFINE squares == [k \in K |-> counts[k] * counts[k]]
           sum(S) == Total([k \in S |-> counts[k]])
           sumsq(S) == Total([k \in S |-> squares[k]])
           fair(S) == /\ sum(S) \in Nat /\ sumsq(S) \in Nat
                      /\ sum(S) * sum(S) <= Cardinality(S) * sumsq(S)
                      /\ sumsq(S) <= sum(S) * sum(S)
                      /\ \A z \in Nat : 2 * (sum(S) * z) <= Cardinality(S) * (z * z) + sumsq(S)
           good == {S \in SUBSET K : fair(S)}
<1>1. counts \in [K -> Nat] /\ squares \in [K -> Nat]
  OBVIOUS
<1>s. ASSUME NEW k \in K PROVE counts[k] \in Nat /\ squares[k] = counts[k] * counts[k]
  <2>1. counts[k] \in Nat
    OBVIOUS
  <2>2. squares[k] = counts[k] * counts[k]
    <3> HIDE DEF sum, sumsq
    <3> QED
      BY ZenonT(20)
  <2> QED
    BY <2>1, <2>2
<1> HIDE DEF squares
<1>2. {} \in good
  <2>1. Known([k \in {} |-> counts[k]]) = {} /\ Known([k \in {} |-> squares[k]]) = {}
    BY DEF Known
  <2>2. sum({}) = 0 /\ sumsq({}) = 0
    <3>1. ASSUME NEW values, Known(values) = {} PROVE Total(values) = 0
      <4>1. Above(values) = {} /\ Below(values) = {}
        BY <3>1 DEF Above, Below
      <4> QED
        BY <4>1, FS_EmptySet DEF Total
    <3> QED
      BY <2>1, <3>1
  <2>3. Cardinality({}) = 0
    BY FS_EmptySet
  <2> HIDE DEF sum, sumsq
  <2>4. fair({})
    BY <2>2, <2>3
  <2> QED
    BY <2>4
<1>3. ASSUME NEW S \in SUBSET K, NEW x \in K, S \in good
      PROVE  S \cup {x} \in good
  <2>1. CASE x \in S
    <3>1. S \cup {x} = S
      BY <2>1
    <3> QED
      BY <1>3, <3>1
  <2>2. CASE x \notin S
    <3> DEFINE n == Cardinality(S)
               T == sum(S)
               Q == sumsq(S)
               y == counts[x]
    <3>1. IsFiniteSet(S) /\ x \in K \ S
      BY <2>2, FS_Subset
    <3>2. fair(S) /\ IsFiniteSet(S) /\ n \in Nat
      BY <1>3, <3>1, FS_CardinalityType
    <3>3. Cardinality(S \cup {x}) = n + 1
      BY <2>2, <3>2, FS_AddElement
    <3>4. y \in Nat /\ squares[x] = y * y
      BY <1>s
    <3>5. sum(S \cup {x}) = T + y
      <4>1. sum(S \cup {x}) = sum(S) + counts[x]
        BY <1>1, <3>1, TotalAdds
      <4> QED
        BY <4>1
    <3>6. sumsq(S \cup {x}) = Q + y * y
      <4>1. sumsq(S \cup {x}) = sumsq(S) + squares[x]
        BY <1>1, <3>1, TotalAdds
      <4> QED
        BY <3>4, <4>1
    <3>7. /\ T \in Nat /\ Q \in Nat /\ T * T <= n * Q /\ Q <= T * T
          /\ \A z \in Nat : 2 * (T * z) <= n * (z * z) + Q
      BY <3>2
    <3> HIDE DEF n, T, Q, y, sum, sumsq
    <3>8. /\ (T + y) * (T + y) <= (n + 1) * (Q + y * y)
          /\ Q + y * y <= (T + y) * (T + y)
      BY <3>2, <3>4, <3>7, SquaresGrow
    <3>9. \A z \in Nat : 2 * ((T + y) * z) <= (n + 1) * (z * z) + (Q + y * y)
      BY <3>2, <3>4, <3>7, MixedGrows
    <3>10. T + y \in Nat /\ Q + y * y \in Nat
      BY <3>4, <3>7
    <3>11. fair(S \cup {x})
      BY <3>3, <3>5, <3>6, <3>8, <3>9, <3>10
    <3> QED
      BY <3>11
  <2> QED
    BY <2>1, <2>2
<1>4. K \in good
  <2> HIDE DEF good
  <2> QED
    BY <1>2, <1>3, FiniteInduction
<1>5. sum(K) = Total(counts) /\ sumsq(K) = Total([k \in K |-> counts[k] * counts[k]])
  BY DEF squares
<1> HIDE DEF sum, sumsq
<1> QED
  BY <1>4, <1>5

(* Jain's index of n counts is between 1/n and 1 (jains_fairness): there is *)
(* none only if there is nothing to share out.                             *)
THEOREM FairnessInRange ==
  ASSUME NEW K, IsFiniteSet(K), NEW counts \in [K -> Nat]
  PROVE  LET index == jains_fairness(counts)
             n == Cardinality(K)
         IN  IF Total(counts) = 0 THEN index = None
             ELSE index[2] > 0 /\ index[1] <= index[2] /\ index[2] <= n * index[1]
<1> DEFINE n == Cardinality(K)
           T == Total(counts)
           Q == Total([k \in K |-> counts[k] * counts[k]])
           index == jains_fairness(counts)
<1>1. T \in Nat /\ Q \in Nat /\ T * T <= n * Q /\ Q <= T * T /\ n \in Nat
  BY SquareOfSum, FS_CardinalityType
<1>2. index = Quotient(T * T, n * Q)
  BY DEF jains_fairness
<1> HIDE DEF n, T, Q, index
<1>3. T # 0 <=> n * Q # 0
  <2>1. ASSUME T # 0 PROVE n * Q # 0
    <3>1. T * T >= 1
      BY <1>1, <2>1
    <3> QED
      BY <1>1, <3>1
  <2>2. ASSUME T = 0 PROVE n * Q = 0
    <3>1. Q = 0
      BY <1>1, <2>2
    <3> QED
      BY <1>1, <3>1
  <2> QED
    BY <2>1, <2>2
<1>4. T # 0 => index = <<T * T, n * Q>>
  BY <1>2, <1>3 DEF Quotient
<1>5. T = 0 => index = None
  BY <1>2, <1>3 DEF Quotient
<1>6. n * Q \in Nat /\ n * Q <= n * (T * T)
  BY <1>1
<1>7. T # 0 => index[2] > 0 /\ index[1] <= index[2] /\ index[2] <= n * index[1]
  <2>1. SUFFICES ASSUME T # 0 PROVE n * Q > 0 /\ T * T <= n * Q /\ n * Q <= n * (T * T)
    BY <1>4
  <2> QED
    BY <1>1, <1>3, <1>6, <2>1
<1> QED
  BY <1>5, <1>7 DEF n, T, index

-----------------------------------------------------------------------------
(* What each of finitely many keys has is a finite set of things. *)
LEMMA ValuesFinite ==
  ASSUME NEW f, IsFiniteSet(DOMAIN f)
  PROVE  IsFiniteSet({f[k] : k \in DOMAIN f})
<1> DEFINE read == [k \in DOMAIN f |-> f[k]]
<1>1. read \in Surjection(DOMAIN f, {f[k] : k \in DOMAIN f})
  BY DEF Surjection
<1> QED
  BY <1>1, FS_Surjection

(* Empty parts do not count in a union ... *)
LEMMA EmptyParts ==
  ASSUME NEW K, NEW L \in SUBSET K, NEW parts, \A k \in K \ L : parts[k] = {}
  PROVE  UNION {parts[k] : k \in K} = UNION {parts[k] : k \in L}
<1>1. ASSUME NEW x \in UNION {parts[k] : k \in K} PROVE x \in UNION {parts[k] : k \in L}
  <2>1. PICK k \in K : x \in parts[k]
    OBVIOUS
  <2>2. k \in L
    BY <2>1
  <2> QED
    BY <2>1, <2>2
<1>2. ASSUME NEW x \in UNION {parts[k] : k \in L} PROVE x \in UNION {parts[k] : k \in K}
  OBVIOUS
<1> QED
  BY <1>1, <1>2

(* ... and keys that have nothing do not in a sum. *)
LEMMA NothingAdded ==
  ASSUME NEW K, NEW L \in SUBSET K, NEW f, \A k \in K : f[k] \in Nat,
         \A k \in K \ L : f[k] = 0
  PROVE  Total([k \in K |-> f[k]]) = Total([k \in L |-> f[k]])
<1> DEFINE all == [k \in K |-> f[k]]
           some == [k \in L |-> f[k]]
<1>1. Known(all) = K /\ Known(some) = L
  BY NoneAssumption DEF Known
<1>2. Above(all) = Above(some)
  <2> DEFINE unit == [k \in K |-> {k} \X (1 .. f[k])]
  <2>1. Above(all) = UNION {unit[k] : k \in K} /\ Above(some) = UNION {unit[k] : k \in L}
    BY <1>1 DEF Above
  <2>2. \A k \in K \ L : unit[k] = {}
    <3>1. ASSUME NEW k \in K \ L PROVE 1 .. f[k] = {}
      <4>1. f[k] = 0
        OBVIOUS
      <4> QED
        BY <4>1
    <3> QED
      BY <3>1
  <2> HIDE DEF unit, all, some
  <2>3. UNION {unit[k] : k \in K} = UNION {unit[k] : k \in L}
    BY <2>2, EmptyParts
  <2> QED
    BY <2>1, <2>3
<1>3. Below(all) = {} /\ Below(some) = {}
  <2>1. ASSUME NEW k \in K PROVE f[k] .. -1 = {}
    <3>1. f[k] \in Nat
      OBVIOUS
    <3> QED
      BY <3>1
  <2>2. Below(all) = UNION {{k} \X (f[k] .. -1) : k \in K}
        /\ Below(some) = UNION {{k} \X (f[k] .. -1) : k \in L}
    BY <1>1 DEF Below
  <2> QED
    BY <2>1, <2>2
<1> QED
  BY <1>2, <1>3 DEF Total

(* Every row is in one group by workload. *)
THEOREM GroupsAddUp ==
  ASSUME NEW rows, IsFiniteSet(DOMAIN rows)
  PROVE  LET groups == by_workload(rows)
         IN  Total([w \in DOMAIN groups |-> groups[w].jobs]) = Cardinality(DOMAIN rows)
<1> DEFINE groups == by_workload(rows)
           type == [j \in DOMAIN rows |-> rows[j].workload_type]
           K == {type[j] : j \in DOMAIN type}
           parts == [w \in K |-> JobsOfType(rows, w)]
<1>1. DOMAIN groups = K /\ \A w \in K : groups[w].jobs = Cardinality(parts[w])
  BY DEF by_workload
<1>2. IsFiniteSet(K)
  <2>1. DOMAIN type = DOMAIN rows
    OBVIOUS
  <2> HIDE DEF type
  <2> QED
    BY <2>1, ValuesFinite
<1>3. \A w \in K : IsFiniteSet(parts[w])
  <2>1. \A w \in K : parts[w] \in SUBSET DOMAIN rows
    BY DEF JobsOfType
  <2> HIDE DEF parts, K
  <2> QED
    BY <2>1, FS_Subset
<1>4. \A v, w \in K : v # w => parts[v] \cap parts[w] = {}
  BY DEF JobsOfType
<1>5. UNION {parts[w] : w \in K} = DOMAIN rows
  <2>1. \A w \in K : parts[w] \subseteq DOMAIN rows
    BY DEF JobsOfType
  <2>2. \A j \in DOMAIN rows : type[j] \in K /\ j \in parts[type[j]]
    BY DEF JobsOfType
  <2> HIDE DEF parts, K, type
  <2> QED
    BY <2>1, <2>2
<1>6. [w \in DOMAIN groups |-> groups[w].jobs] = [w \in K |-> Cardinality(parts[w])]
  <2> HIDE DEF groups, parts, K
  <2> QED
    BY <1>1
<1>7. Total([w \in K |-> Cardinality(parts[w])]) = Cardinality(UNION {parts[w] : w \in K})
  <2> HIDE DEF parts, K
  <2> QED
    BY <1>2, <1>3, <1>4, PartsAddUp
<1> QED
  BY <1>5, <1>6, <1>7

Placed(rows) == {j \in DOMAIN rows : rows[j].node_id # None}

(* Every row with a node is in the line of that node, with its runtime, be *)
(* the node in the snapshot or not.                                        *)
THEOREM NodesAddUp ==
  ASSUME NEW rows, IsFiniteSet(DOMAIN rows),
         \A j \in DOMAIN rows : rows[j].runtime_s \in Nat \cup {None},
         NEW cluster, None \notin DOMAIN cluster, NEW makespan
  PROVE  LET nodes == node_rows(rows, cluster, makespan)
         IN  /\ Total([n \in DOMAIN nodes |-> nodes[n].jobs]) = Cardinality(Placed(rows))
             /\ Total([n \in DOMAIN nodes |-> nodes[n].busy_time_s])
                   = Total(Column(rows, Placed(rows), "runtime_s"))
<1> DEFINE nodes == node_rows(rows, cluster, makespan)
           place == [j \in Placed(rows) |-> rows[j].node_id]
           used == {place[j] : j \in DOMAIN place}
           K == DOMAIN nodes
           mine == [n \in K |-> JobsOn(rows, n)]
           times(keys) == Column(rows, keys, "runtime_s")
           busy == [n \in K |-> Above(times(mine[n]))]
<1>1. /\ used \subseteq K /\ None \notin K
      /\ \A n \in K : /\ nodes[n].jobs = Cardinality(mine[n])
                      /\ nodes[n].busy_time_s = Total(times(mine[n]))
  BY DEF node_rows, Placed
<1>2. \A n \in K : mine[n] \in SUBSET Placed(rows)
  BY <1>1 DEF JobsOn, Placed
<1>3. \A m, n \in K : m # n => mine[m] \cap mine[n] = {}
  BY DEF JobsOn
<1>4. UNION {mine[n] : n \in used} = Placed(rows)
  <2>1. \A j \in Placed(rows) : place[j] \in used /\ j \in mine[place[j]]
    BY <1>1 DEF JobsOn, Placed
  <2>2. \A n \in used : mine[n] \subseteq Placed(rows)
    BY <1>1, <1>2
  <2> HIDE DEF mine, used, place
  <2> QED
    BY <2>1, <2>2
<1>5. \A n \in K \ used : mine[n] = {}
  BY <1>1 DEF JobsOn, Placed
<1>6. Placed(rows) \in SUBSET DOMAIN rows /\ IsFiniteSet(Placed(rows))
  BY FS_Subset DEF Placed
<1>7. IsFiniteSet(used)
  <2>1. DOMAIN place = Placed(rows)
    OBVIOUS
  <2> HIDE DEF place
  <2> QED
    BY <1>6, <2>1, ValuesFinite
<1>8. \A keys \in SUBSET DOMAIN rows : Counts(times(keys))
  BY FS_Subset DEF Column, Counts
<1>9. \A keys \in SUBSET DOMAIN rows :
        Above(times(keys)) = {unit \in Above(times(DOMAIN rows)) : unit[1] \in keys}
  <2>1. SUFFICES ASSUME NEW keys \in SUBSET DOMAIN rows
                 PROVE  \A unit : unit \in Above(times(keys)) <=>
                                   unit \in Above(times(DOMAIN rows)) /\ unit[1] \in keys
    OBVIOUS
  <2>2. \A of \in SUBSET DOMAIN rows : \A unit :
          unit \in Above(times(of)) <=>
            \E j \in of : rows[j].runtime_s # None /\ unit \in {j} \X (1 .. rows[j].runtime_s)
    BY DEF Above, Known, Column
  <2> HIDE DEF times
  <2> QED
    BY <2>1, <2>2
<1> HIDE DEF nodes, used, K, mine, times
<1> HIDE DEF place
<1>10. used \in SUBSET K
  BY <1>1
<1>11. \A n \in K : mine[n] \in SUBSET DOMAIN rows /\ IsFiniteSet(mine[n])
  BY <1>2, <1>6, FS_Subset
<1>12. \A n \in K : IsFiniteSet(busy[n]) /\ Total(times(mine[n])) = Cardinality(busy[n])
  BY <1>8, <1>11, CountsTotal
<1>13. Total([n \in K |-> nodes[n].jobs]) = Cardinality(Placed(rows))
  <2> DEFINE sizes == [n \in K |-> Cardinality(mine[n])]
  <2>1. [n \in K |-> nodes[n].jobs] = [n \in K |-> sizes[n]]
    BY <1>1
  <2>2. \A n \in K : sizes[n] \in Nat
    BY <1>11, FS_CardinalityType
  <2>3. \A n \in K \ used : sizes[n] = 0
    BY <1>5, FS_EmptySet
  <2>4. [n \in used |-> sizes[n]] = [n \in used |-> Cardinality(mine[n])]
    BY <1>1
  <2> HIDE DEF sizes
  <2>5. Total([n \in K |-> sizes[n]]) = Total([n \in used |-> sizes[n]])
    BY <1>10, <2>2, <2>3, NothingAdded
  <2>6. /\ \A n \in used : IsFiniteSet(mine[n])
        /\ \A m, n \in used : m # n => mine[m] \cap mine[n] = {}
    BY <1>10, <1>3, <1>11
  <2>7. Total([n \in used |-> Cardinality(mine[n])]) = Cardinality(UNION {mine[n] : n \in used})
    BY <1>7, <2>6, PartsAddUp
  <2> QED
    BY <1>4, <2>1, <2>4, <2>5, <2>7
<1>14. Total([n \in K |-> nodes[n].busy_time_s]) = Total(times(Placed(rows)))
  <2> DEFINE sizes == [n \in K |-> Cardinality(busy[n])]
  <2>1. [n \in K |-> nodes[n].busy_time_s] = [n \in K |-> sizes[n]]
    BY <1>1, <1>12
  <2>2. \A n \in K : sizes[n] \in Nat
    BY <1>12, FS_CardinalityType
  <2>3. \A n \in K \ used : busy[n] = {}
    BY <1>5, <1>9, <1>11
  <2>4. \A n \in K \ used : sizes[n] = 0
    BY <2>3, FS_EmptySet
  <2>5. [n \in used |-> sizes[n]] = [n \in used |-> Cardinality(busy[n])]
    BY <1>1
  <2>6. /\ \A n \in used : IsFiniteSet(busy[n])
        /\ \A m, n \in used : m # n => busy[m] \cap busy[n] = {}
    BY <1>10, <1>3, <1>9, <1>11, <1>12
  <2>7. UNION {busy[n] : n \in used} = Above(times(Placed(rows)))
    <3> DEFINE every == Above(times(DOMAIN rows))
    <3>1. \A n \in used : busy[n] = {unit \in every : unit[1] \in mine[n]}
      BY <1>10, <1>9, <1>11
    <3>2. Above(times(Placed(rows))) = {unit \in every : unit[1] \in UNION {mine[n] : n \in used}}
      BY <1>4, <1>6, <1>9
    <3> HIDE DEF every, busy
    <3> QED
      BY <3>1, <3>2
  <2> HIDE DEF sizes, busy
  <2>8. Total([n \in K |-> sizes[n]]) = Total([n \in used |-> sizes[n]])
    BY <1>10, <2>2, <2>4, NothingAdded
  <2>9. Total([n \in used |-> Cardinality(busy[n])]) = Cardinality(UNION {busy[n] : n \in used})
    BY <1>7, <2>6, PartsAddUp
  <2>10. Total(times(Placed(rows))) = Cardinality(Above(times(Placed(rows))))
    BY <1>6, <1>8, CountsTotal
  <2> QED
    BY <2>1, <2>5, <2>7, <2>8, <2>9, <2>10
<1> QED
  BY <1>13, <1>14 DEF nodes, K, times
=============================================================================
