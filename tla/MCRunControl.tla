---------------------------- MODULE MCRunControl ----------------------------
(* Two jobs and two runs on one node that has room for both jobs. *)
EXTENDS RunControl

CONSTANTS n1, j1, j2, r1, r2

MCCpus == [n \in Node |-> 2]
MCMemoryMb == [n \in Node |-> 1]
MCCpuRequest == [j \in Job |-> 1]
MCMemRequest == [j \in Job |-> 0]
=============================================================================
