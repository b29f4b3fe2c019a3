\* Crashes and restarts, expirations, undelivered POSTs and lost reports.
SPECIFICATION Spec
CONSTANTS
  n1 = n1
  n2 = n2
  j1 = j1
  j2 = j2
  j3 = j3
  Node = {n2}
  Job = {j1, j2}
  Cpus <- MCCpus
  MemoryMb <- MCMemoryMb
  HasGpu = {}
  CpuRequest <- MCCpuRequest
  MemRequest <- MCMemRequest
  NeedsGpu <- MCNeedsGpu
  NoNode = NoNode
  NoJob = NoJob
  Run = {}
  NoRun = NoRun
  MAX_DISPATCH_ATTEMPTS = 2
  Outcomes = {TRUE}
  Faults = {"agent_crash", "missed_heartbeats", "post_failed", "callback_lost"}
INVARIANTS
  TypeOK
  NoDoublePlacement
  OneExecution
  ReservedWhileRunning
  AbandonedNeverRan
  UsageCoversExecutions
PROPERTIES
  LedgerSpec
  LifecycleSpec
  TerminalSticky
\* Once every job is settled nothing is left to do.
CHECK_DEADLOCK FALSE
