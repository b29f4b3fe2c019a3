---------------------------- MODULE MCScheduler ----------------------------
(* Up to two nodes and three jobs.  The two-core job has the smaller node  *)
(* to itself or waits; it and the first job fit on the larger node at      *)
(* once.  The third job needs a GPU, which only some instances have.       *)
EXTENDS Scheduler

CONSTANTS n1, n2, j1, j2, j3

MCCpus == [n \in Node |-> IF n = n1 THEN 2 ELSE 3]
MCMemoryMb == [n \in Node |-> 2]
MCCpuRequest == [j \in Job |-> IF j = j2 THEN 2 ELSE 1]
MCMemRequest == [j \in Job |-> IF j = j2 THEN 1 ELSE 0]
MCNeedsGpu == {j3} \cap Job
=============================================================================
