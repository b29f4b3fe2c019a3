\* A run of two jobs with undelivered POSTs and unanswered submissions.
SPECIFICATION ESpec
CONSTANTS
  n1 = n1
  j1 = j1
  j2 = j2
  Node = {n1}
  Job = {j1, j2}
  Cpus <- MCCpus
  MemoryMb <- MCMemoryMb
  HasGpu = {}
  CpuRequest <- MCCpuRequest
  MemRequest <- MCMemRequest
  NeedsGpu = {}
  NoNode = NoNode
  NoJob = NoJob
  Run = {r1}
  ThisRun = r1
  r1 = r1
  NoRun = NoRun
  None = None
  MAX_DISPATCH_ATTEMPTS = 2
  Outcomes = {TRUE}
  Faults = {"post_failed", "submit_failed"}
  Trace <- MCTrace
  WorkloadType <- MCWorkloadType
  ExpectNodes = 1
  ClientAhead = 2
  SchedulerAhead = 0
  AgentAhead <- MCAgentAhead
  MaxClock = 2
INVARIANTS
  ETypeOK
  TimelineWithinSkew
  UtilisationWithinSkew
  MeasurementKept
  DrainedMeansStartable
  ExportIsFinal
  UncountedWereGivenUp
  ReportSound
\* Once the run is exported and every job settled nothing is left to do.
CHECK_DEADLOCK FALSE
