\* One agent with the intervals of the code; at most one heartbeat in a row is lost.
SPECIFICATION MSpec
CONSTANTS
  n1 = n1
  j1 = j1
  j2 = j2
  j3 = j3
  Node = {n1}
  Job = {j1, j2, j3}
  Cpus <- MCCpus
  MemoryMb <- MCMemoryMb
  HasGpu = {n1}
  CpuRequest <- MCCpuRequest
  MemRequest <- MCMemRequest
  NeedsGpu = {j3}
  BeatSleep = 5
  BeatMeasure = 1
  SweepSleep = 5
  Timeout = 15
  Delay = 1
  MaxLost = 1
INVARIANTS
  CSTypeOK
  NoPhantomNode
  WithinCapacity
  LedgerBacked
  LedgerExact
  MTypeOK
  SilenceBounded
  ServingMeansStored
PROPERTIES
  LiveNodeKept
