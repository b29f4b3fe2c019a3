------------------------------ MODULE Metrics ------------------------------
(***************************************************************************)
(* experiments/metrics.py: what is computed from the rows of a finished    *)
(* run.  A list of rows is a function from job ids, a dict a function from *)
(* its keys.  A quotient is the pair of its terms, NULL is None.  Standard *)
(* deviations and the columns that are only copied are left out.           *)
(***************************************************************************)
EXTENDS Integers, FiniteSetsExt

CONSTANT None  \* NULL: a time, a node or a quotient that is not there

ASSUME NoneAssumption == None \notin Int

-----------------------------------------------------------------------------
Known(values) == {k \in DOMAIN values : values[k] # None}
Measured(values) == {values[k] : k \in Known(values)}
AtMost(values, v) == Cardinality({k \in Known(values) : values[k] <= v})

(* sum(values).  One unit for each whole that a known value is above zero, *)
(* and one for each that it is below.                                      *)
Above(values) == UNION {{k} \X (1 .. values[k]) : k \in Known(values)}
Below(values) == UNION {{k} \X (values[k] .. -1) : k \in Known(values)}
Total(values) == Cardinality(Above(values)) - Cardinality(Below(values))

Quotient(a, b) == IF b = 0 THEN None ELSE <<a, b>>

(* round(a / b): to the nearest integer, halves to the even one *)
Rounded(a, b) ==
  LET floor == a \div b
      up == 2 * (a % b) > b \/ (2 * (a % b) = b /\ floor % 2 = 1)
  IN  IF up THEN floor + 1 ELSE floor

(* sorted(values)[rank - 1]: equal values have a rank each. *)
Ranked(values, rank) == Min({v \in Measured(values) : AtMost(values, v) >= rank})

(* Which of n ordered values the percentile is. *)
Rank(pct, n) == Min({Max({1, Rounded(pct * n, 100)}), n})

percentile(values, pct) ==
  IF Known(values) = {} THEN None
  ELSE Ranked(values, Rank(pct, Cardinality(Known(values))))

distribution(values) ==
  LET n == Cardinality(Known(values))
  IN  IF n = 0
      THEN [n |-> 0, mean |-> None, median |-> None, min |-> None, p95 |-> None, max |-> None]
      ELSE [n      |-> n,
            mean   |-> <<Total(values), n>>,
            median |-> <<Ranked(values, (n + 1) \div 2) + Ranked(values, n \div 2 + 1), 2>>,
            min    |-> Min(Measured(values)),
            p95    |-> percentile(values, 95),
            max    |-> Max(Measured(values))]

jains_fairness(values) ==
  LET squares == [k \in DOMAIN values |-> values[k] * values[k]]
  IN  Quotient(Total(values) * Total(values),
               Cardinality(DOMAIN values) * Total(squares))

-----------------------------------------------------------------------------
seconds_between(start, end) == IF None \in {start, end} THEN None ELSE end - start

job_rows(jobs) ==
  [j \in DOMAIN jobs |->
     LET job == jobs[j]
         queue_wait == seconds_between(job.submitted_at, job.dispatched_at)
         turnaround == seconds_between(job.submitted_at, job.completed_at)
     IN  [status        |-> job.status,
          node_id       |-> job.dispatched_to_node,
          workload_type |-> job.workload_type,
          submitted_at  |-> job.submitted_at,
          completed_at  |-> job.completed_at,
          queue_wait_s  |-> queue_wait,
          runtime_s     |-> job.runtime_seconds,
          turnaround_s  |-> turnaround,
          overhead_s    |-> IF None \in {turnaround, queue_wait, job.runtime_seconds}
                            THEN None
                            ELSE turnaround - queue_wait - job.runtime_seconds,
          success       |-> job.success]]

(* A column of some of the rows. *)
Column(rows, keys, field) == [j \in keys |-> rows[j][field]]

(* Mutant: a job without a result counts as successful. *)
SuccessfulUnlessFailed(rows) == {j \in DOMAIN rows : rows[j].success # FALSE}

Successful(rows) == {j \in DOMAIN rows : rows[j].success = TRUE}
Failed(rows) == {j \in DOMAIN rows : rows[j].success = FALSE}
JobsOn(rows, n) == {j \in DOMAIN rows : rows[j].node_id = n}

(* Mutant: only jobs that were dispatched are grouped. *)
JobsOfTypePlaced(rows, w) ==
  {j \in DOMAIN rows : rows[j].workload_type = w /\ rows[j].node_id # None}

JobsOfType(rows, w) == {j \in DOMAIN rows : rows[j].workload_type = w}

(* cluster: the cores of each node of the snapshot taken at the start.  A  *)
(* node that got a job and is not in it counts with one core.              *)
node_rows(rows, cluster, makespan) ==
  LET known == DOMAIN cluster
      used == {rows[j].node_id : j \in DOMAIN rows} \ {None}
      cpus(n) == IF n \in known /\ cluster[n] # 0 THEN cluster[n] ELSE 1
  IN  [n \in known \cup used |->
         LET mine == JobsOn(rows, n)
             runtimes == Column(rows, mine, "runtime_s")
             busy == Total(runtimes)
         IN  [cpus           |-> cpus(n),
              jobs           |-> Cardinality(mine),
              successful     |-> Cardinality(mine \cap Successful(rows)),
              failed         |-> Cardinality(mine \cap Failed(rows)),
              busy_time_s    |-> busy,
              mean_runtime_s |-> Quotient(busy, Cardinality(Known(runtimes))),
              utilisation    |-> IF makespan = None THEN None
                                 ELSE Quotient(busy, makespan * cpus(n))]]

by_workload(rows) ==
  [w \in {rows[j].workload_type : j \in DOMAIN rows} |->
     LET group == JobsOfType(rows, w)
     IN  [jobs         |-> Cardinality(group),
          completed    |-> Cardinality(group \cap Successful(rows)),
          failed       |-> Cardinality(group \cap Failed(rows)),
          runtime_s    |-> distribution(Column(rows, group, "runtime_s")),
          queue_wait_s |-> distribution(Column(rows, group, "queue_wait_s")),
          turnaround_s |-> distribution(Column(rows, group, "turnaround_s")),
          placement    |-> [n \in {rows[j].node_id : j \in group} \ {None} |->
                              Cardinality(group \cap JobsOn(rows, n))]]]

(* (node, workload type) -> runtimes, of the rows that have both *)
runtime_by_node_and_workload(rows) ==
  LET measured == {j \in DOMAIN rows : None \notin {rows[j].node_id, rows[j].runtime_s}}
  IN  [pair \in {<<rows[j].node_id, rows[j].workload_type>> : j \in measured} |->
         LET group == measured \cap JobsOn(rows, pair[1]) \cap JobsOfType(rows, pair[2])
         IN  [jobs |-> Cardinality(group),
              mean_runtime_s |-> Quotient(Total(Column(rows, group, "runtime_s")),
                                          Cardinality(group))]]

-----------------------------------------------------------------------------
(* First submission to last completion. *)
Makespan(rows) ==
  LET submitted == {rows[j].submitted_at : j \in DOMAIN rows} \ {None}
      completed == {rows[j].completed_at : j \in DOMAIN rows} \ {None}
  IN  IF submitted = {} \/ completed = {} THEN None ELSE Max(completed) - Min(submitted)

\* What every number of cores divides
Product(values) == FoldFunction(LAMBDA a, b : a * b, 1, values)

summarise(cluster, jobs) ==
  LET rows == job_rows(jobs)
      makespan == Makespan(rows)
      nodes == node_rows(rows, cluster, makespan)
      \* Jain's index of jobs per core, with every value times the same factor
      scale == Product([n \in DOMAIN nodes |-> nodes[n].cpus])
      all(field) == distribution(Column(rows, DOMAIN rows, field))
  IN  [total        |-> Cardinality(DOMAIN rows),
       completed    |-> Cardinality(Successful(rows)),
       failed       |-> Cardinality(Failed(rows)),
       incomplete   |-> Cardinality({j \in DOMAIN rows :
                                       rows[j].status \notin {"completed", "failed"}}),
       makespan_s   |-> makespan,
       throughput   |-> IF makespan = None THEN None
                        ELSE Quotient(Cardinality(Successful(rows)), makespan),
       queue_wait_s |-> all("queue_wait_s"),
       runtime_s    |-> all("runtime_s"),
       turnaround_s |-> all("turnaround_s"),
       overhead_s   |-> all("overhead_s"),
       fairness_jobs |-> jains_fairness([n \in DOMAIN nodes |-> nodes[n].jobs]),
       fairness_jobs_per_cpu |->
         jains_fairness([n \in DOMAIN nodes |->
                           nodes[n].jobs * (scale \div nodes[n].cpus)]),
       nodes_detail |-> nodes,
       by_workload  |-> by_workload(rows),
       runtime_by_node_and_workload |-> runtime_by_node_and_workload(rows)]
=============================================================================
