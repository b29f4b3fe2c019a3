-------------------------- MODULE MetricsReference --------------------------
(***************************************************************************)
(* The statistics of Metrics against their definitions in the literature,  *)
(* for every small sample.                                                 *)
(***************************************************************************)
EXTENDS Metrics, SequencesExt

(* Every sample of at most n values up to max, each of which may be missing. *)
Samples(n, max) == UNION {[1 .. k -> (0 .. max) \cup {None}] : k \in 0 .. n}

(* The sum is the sum, also of negative values, and the value at a rank is *)
(* the one at that place of the sorted list (percentile, metrics.py:31).   *)
Ordered(values) ==
  LET keys == SetToSortSeq(Known(values), LAMBDA a, b : values[a] <= values[b])
  IN  [i \in DOMAIN keys |-> values[keys[i]]]

ASSUME TotalIsSum ==
  \A values \in [1 .. 3 -> (-2 .. 2) \cup {None}] :
    Total(values) = MapThenSumSet(LAMBDA k : values[k], Known(values))

ASSUME RankedIsSorted ==
  \A values \in Samples(4, 3) :
    LET ordered == Ordered(values)
    IN  /\ Len(ordered) = Cardinality(Known(values))
        /\ \A rank \in DOMAIN ordered : Ranked(values, rank) = ordered[rank]

(* Nearest rank: the least value that pct percent of the values, or more,  *)
(* do not exceed.                                                          *)
NearestRank(values, pct) ==
  Min({v \in Measured(values) :
         100 * AtMost(values, v) >= pct * Cardinality(Known(values))})

(* percentile is the nearest rank, as it says (metrics.py:27) ... *)
ASSUME PercentileIsNearestRank ==
  \A values \in Samples(4, 3) : \A pct \in {0, 50, 95, 100} :
    percentile(values, pct) =
      IF Known(values) = {} THEN None
      ELSE IF pct = 50 /\ Cardinality(Known(values)) = 1 THEN NearestRank(values, 100)
      ELSE NearestRank(values, pct)

(* ... for the 95th one up to ten values, because round() rounds to the    *)
(* nearest integer: the 95th of eleven is one rank too low.                *)
ASSUME NearestRankUpToTen ==
  /\ \A n \in 1 .. 10 : 100 * Rank(95, n) >= 95 * n /\ 100 * (Rank(95, n) - 1) < 95 * n
  /\ 100 * Rank(95, 11) < 95 * 11

(* The median has as many values below as above it; mean and median are    *)
(* between the extremes (distribution, metrics.py:36-52).                  *)
ASSUME DistributionIsOrdered ==
  \A values \in Samples(4, 3) :
    LET d == distribution(values)
        below == {k \in Known(values) : 2 * values[k] < d.median[1]}
        above == {k \in Known(values) : 2 * values[k] > d.median[1]}
    IN  IF d.n = 0 THEN d.mean = None /\ d.median = None
        ELSE /\ 2 * Cardinality(below) <= d.n /\ 2 * Cardinality(above) <= d.n
             /\ d.n * d.min <= d.mean[1] /\ d.mean[1] <= d.n * d.max
             /\ 2 * d.min <= d.median[1] /\ d.median[1] <= 2 * d.max

(* Jain's index is 1 exactly when all values are the same and 1/n exactly  *)
(* when one value has everything (jains_fairness, metrics.py:57).          *)
ASSUME JainIsBetween ==
  \A n \in 1 .. 4 : \A values \in [1 .. n -> 0 .. 3] :
    LET index == jains_fairness(values)
        nonzero == {k \in 1 .. n : values[k] # 0}
    IN  IF nonzero = {} THEN index = None
        ELSE /\ index[2] <= n * index[1] /\ index[1] <= index[2]
             /\ index[1] = index[2] <=> \A i, k \in 1 .. n : values[i] = values[k]
             /\ n * index[1] = index[2] <=> Cardinality(nonzero) = 1
=============================================================================
