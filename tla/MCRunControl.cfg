\* Runs opened and finished while jobs are submitted and placed.
SPECIFICATION RCSpec
CONSTANTS
  n1 = n1
  j1 = j1
  j2 = j2
  r1 = r1
  r2 = r2
  Node = {n1}
  Job = {j1}
  Cpus <- MCCpus
  MemoryMb <- MCMemoryMb
  HasGpu = {}
  CpuRequest <- MCCpuRequest
  MemRequest <- MCMemRequest
  NeedsGpu = {}
  NoNode = NoNode
  NoJob = NoJob
  Run = {r1, r2}
  NoRun = NoRun
  MAX_DISPATCH_ATTEMPTS = 2
  Outcomes = {TRUE}
  Faults = {"start_run_failed", "docker_error", "agent_crash", "scheduler_crash"}
  MaxIndex = 1
INVARIANTS
  RCTypeOK
  OneOpenRun
  TagsHaveRun
  OneExecution
\* Once every job is settled and every run finished nothing is left to do.
CHECK_DEADLOCK FALSE
