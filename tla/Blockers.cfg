CONSTANTS
  Threads = {t1, t2, t3, t4}
  NoThread = NoThread
  SharedThreads = {t1, t2, t3}
  CPUs = {c1, c2}
  Handlers = {1, 2}
  MaxPending = 2
  None = None
  Idle = Idle
  NoProc = NoProc
  NoCPU = NoCPU
SPECIFICATION MCSpec
INVARIANTS
  TypesOK
  OwnerIsInside
  WaitersExact
  NoStrandedWaiter
  WakeupsExact
PROPERTIES
  ImplementsMutex
  EverybodyIsServed
