CONSTANTS
  p1 = p1
  c1 = c1
  c2 = c2
  c3 = c3
  NoOne = NoOne
  CPUs = {c1, c2}
  Threads <- TwoThreads
  Procs = {p1}
  Owner <- OwnerTwo
  Main <- MainOne
  MaxTime = 1
  Others = {c1, c2, c3}
  BSP = BSP
  Nobody = Nobody
  Idle = Idle
  NoProc = NoProc
  NoCPU = NoCPU
SPECIFICATION MCSpec
SYMMETRY CPUSymmetry
INVARIANTS
  TypesOK
  ThreadsExact
  NoLostWakeup
  LifeCycleExact
  
  LocksExact
  LoadsExact
  StartExact
PROPERTIES
  ExitedNeverRuns
