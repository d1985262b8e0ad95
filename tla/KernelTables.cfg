CONSTANTS
  Processes = {1, 2}
  Windowed = {1}
  Allocating = {2}
  PageCount = 7
  Indices = {0, 1}
  Buffers = {1}
  MiddleOf <- MCMiddleOf
  LeafOf <- MCLeafOf
  CPUs = {1, 2}
SPECIFICATION MCSpec
INVARIANT
  KernelTablesStay
CHECK_DEADLOCK FALSE
