----------------------------- MODULE MCPolicies -----------------------------
(* Two nodes of two and three cores, each of which has room for each job   *)
(* when idle.  The first job fills the smaller node.                       *)
EXTENDS Policies

CONSTANTS n1, n2, j1, j2, j3

MCTrace == <<j1, j2, j3>>
MCCpus == [n \in Node |-> IF n = n1 THEN 2 ELSE 3]
MCMemoryMb == [n \in Node |-> 1]
MCCpuRequest == [j \in Job |-> IF j = j1 THEN 2 ELSE 1]
MCMemRequest == [j \in Job |-> 0]
=============================================================================
