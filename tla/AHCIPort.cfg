CONSTANTS
  Threads = {t1, t2, t3}
  SlotCount = 2
  MaxOps = 1
  MaxIRQ = 1
  None = None
SYMMETRY ThreadSymmetry
SPECIFICATION Spec
INVARIANTS
  TypeOK
  SlotsExact
