CONSTANTS
  CPUs = {c1, c2, c3}
  Pages = {v1, v2}
  Operations = {"free", "free_all", "fault"}
  MaxRequests = 2
  NoCPU = NoCPU
  NoPage = NoPage
SPECIFICATION FairSpec
INVARIANTS
  NoStaleTranslation
  CountdownExact
  QueueNeverFull
PROPERTIES
  UnmapReturns
\* free_all_virtual_regions against a page fault: see IPICommunicatorFault.cfg.
CHECK_DEADLOCK FALSE
