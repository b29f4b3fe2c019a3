---------------------------- MODULE MCExperiment ----------------------------
(* Two one-core jobs and one node of one core, so that the jobs run        *)
(* one after the other.                                                    *)
EXTENDS Experiment, MetricsReference

CONSTANTS n1, j1, j2, r1

MCTrace == <<j1, j2>>
MCAgentAhead == [n \in Node |-> 1]
MCCpus == [n \in Node |-> 1]
MCMemoryMb == [n \in Node |-> 1]
MCCpuRequest == [j \in Job |-> 1]
MCMemRequest == [j \in Job |-> 0]
MCWorkloadType == [j \in Job |-> IF j = j1 THEN "cpu" ELSE "io"]
=============================================================================
