CONSTANTS
  CPUs = {c1, c2}
  Pages = {v1, v2}
  Operations = {"free", "free_all", "allocate", "fault"}
  MaxRequests = 32
  NoCPU = NoCPU
  NoPage = NoPage
SPECIFICATION FairSpec
PROPERTIES
  SpinningServesIPIs
