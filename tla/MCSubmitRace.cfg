\* A job that is quicker than the handler that submitted it.
SPECIFICATION Spec
CONSTANTS
  n1 = n1
  n2 = n2
  j1 = j1
  j2 = j2
  j3 = j3
  Node = {n1}
  Job = {j1}
  Cpus <- MCCpus
  MemoryMb <- MCMemoryMb
  HasGpu = {}
  CpuRequest <- MCCpuRequest
  MemRequest <- MCMemRequest
  NeedsGpu <- MCNeedsGpu
  NoNode = NoNode
  NoJob = NoJob
  Run = {}
  NoRun = NoRun
  MAX_DISPATCH_ATTEMPTS = 1
  Outcomes = {TRUE, FALSE}
  Faults = {}
INVARIANTS
  ResultReachesRow
\* Once every job is settled nothing is left to do.
CHECK_DEADLOCK FALSE
