\* A job between the queue and the ledger is not seen by start_run.
SPECIFICATION RCSpec
CONSTANTS
  n1 = n1
  j1 = j1
  j2 = j2
  r1 = r1
  r2 = r2
  Node = {n1}
  Job = {j1}
  Cpus <- MCCpus
  MemoryMb <- MCMemoryMb
  HasGpu = {}
  CpuRequest <- MCCpuRequest
  MemRequest <- MCMemRequest
  NeedsGpu = {}
  NoNode = NoNode
  NoJob = NoJob
  Run = {r1}
  NoRun = NoRun
  MAX_DISPATCH_ATTEMPTS = 1
  Outcomes = {TRUE}
  Faults = {}
  MaxIndex = 1
INVARIANTS
  RunStartsDrained
\* Once every job is settled and every run finished nothing is left to do.
CHECK_DEADLOCK FALSE
