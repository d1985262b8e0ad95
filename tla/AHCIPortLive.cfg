CONSTANTS
  Threads = {t1, t2, t3}
  SlotCount = 1
  MaxOps = 2
  MaxIRQ = 2
  None = None
SPECIFICATION FairSpec
PROPERTIES
  RequestReturns
