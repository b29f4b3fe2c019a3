\* Three jobs under either policy, while nodes join, leave and report loads.
SPECIFICATION PSpec
CONSTANTS
  n1 = n1
  n2 = n2
  j1 = j1
  j2 = j2
  j3 = j3
  NoNode = NoNode
  Node = {n1, n2}
  Job = {j1, j2, j3}
  Trace <- MCTrace
  Loads = {0, 1}
  MaxIndex = 5
  Cpus <- MCCpus
  MemoryMb <- MCMemoryMb
  HasGpu = {}
  CpuRequest <- MCCpuRequest
  MemRequest <- MCMemRequest
  NeedsGpu = {}
INVARIANTS
  PTypeOK
  RoundRobinEven
  BurstSpreads
