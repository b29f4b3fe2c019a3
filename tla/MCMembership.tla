---------------------------- MODULE MCMembership ----------------------------
(* A three-core node and three jobs: a one-core job, a two-core job that   *)
(* names its memory, and a job that names memory and needs a GPU.  Any two *)
(* jobs fit together by cores, but not the two that name memory.           *)
EXTENDS Membership, TLC

CONSTANTS n1, j1, j2, j3

MCCpus == n1 :> 3
MCMemoryMb == n1 :> 3
MCCpuRequest == j1 :> 1 @@ j2 :> 2 @@ j3 :> 1
MCMemRequest == j1 :> 0 @@ j2 :> 2 @@ j3 :> 2
=============================================================================
