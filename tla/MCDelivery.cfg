\* Accepted POSTs that look failed, failing transactions, expirations.
SPECIFICATION FairSpec
CONSTANTS
  n1 = n1
  n2 = n2
  j1 = j1
  j2 = j2
  j3 = j3
  Node = {n1, n2}
  Job = {j2}
  Cpus <- MCCpus
  MemoryMb <- MCMemoryMb
  HasGpu = {}
  CpuRequest <- MCCpuRequest
  MemRequest <- MCMemRequest
  NeedsGpu <- MCNeedsGpu
  NoNode = NoNode
  NoJob = NoJob
  Run = {}
  NoRun = NoRun
  MAX_DISPATCH_ATTEMPTS = 2
  Outcomes = {TRUE}
  Faults = {"missed_heartbeats", "post_failed", "response_lost", "db_error"}
INVARIANTS
  WaitingHoldsNothing
  NoOrphanReservation
PROPERTIES
  EverySlotReturned
\* Once every job is settled nothing is left to do.
CHECK_DEADLOCK FALSE
