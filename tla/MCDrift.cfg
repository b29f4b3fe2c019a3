\* A node that restarts after it expired under a job.
SPECIFICATION Spec
CONSTANTS
  n1 = n1
  n2 = n2
  j1 = j1
  j2 = j2
  j3 = j3
  Node = {n2}
  Job = {j1, j2}
  Cpus <- MCCpus
  MemoryMb <- MCMemoryMb
  HasGpu = {}
  CpuRequest <- MCCpuRequest
  MemRequest <- MCMemRequest
  NeedsGpu <- MCNeedsGpu
  NoNode = NoNode
  NoJob = NoJob
  Run = {}
  NoRun = NoRun
  MAX_DISPATCH_ATTEMPTS = 2
  Outcomes = {TRUE, FALSE}
  Faults = {"agent_crash"}
PROPERTIES
  CallbackNeverDrifts
\* Once every job is settled nothing is left to do.
CHECK_DEADLOCK FALSE
