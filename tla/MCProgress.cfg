\* Three jobs of which one fits on no node, two do not fit at once and the node may be lost.
SPECIFICATION FairSpec
CONSTANTS
  n1 = n1
  n2 = n2
  j1 = j1
  j2 = j2
  j3 = j3
  Node = {n1}
  Job = {j1, j2, j3}
  Cpus <- MCCpus
  MemoryMb <- MCMemoryMb
  HasGpu = {}
  CpuRequest <- MCCpuRequest
  MemRequest <- MCMemRequest
  NeedsGpu <- MCNeedsGpu
  NoNode = NoNode
  NoJob = NoJob
  Run = {}
  NoRun = NoRun
  MAX_DISPATCH_ATTEMPTS = 2
  Outcomes = {TRUE}
  Faults = {"missed_heartbeats", "post_failed"}
INVARIANTS
  JobAccounted
PROPERTIES
  EveryJobSettles
\* Once every job is settled nothing is left to do.
CHECK_DEADLOCK FALSE
