CONSTANTS
  Threads = {t1, t2}
  SlotCount = 2
  MaxOps = 1
  MaxIRQ = 2
  None = None
SPECIFICATION Spec
INVARIANTS
  CommandHasBeenCompleted
