CONSTANTS
  BlockCount = 6
  blocks_per_io = 2
  capacity = 2
  Values = {0, 1}
  Zero = 0
  WriteBlocks = {0, 1, 3}
  Streams = {x1, x2, x3}
  Bytes = {0, 1}
  PipeCapacity = 2
  Files = {x1, x2}
  m_cluster_count = 6
  bytes_per_cluster = 2
  MaxSize = 3
  MaxRefs = 2
  Hints = {5}
  FreeCounts = {3}
  entries_per_cluster = 4
  MaxClusters = 3
  Threads = {x1, x2}
  MaxLeaked = 1
SYMMETRY Symmetry
SPECIFICATION MCSpec
INVARIANTS
  TypesOK
  
  
  WrittenStays
  DirectoryExact
  
PROPERTIES
  ImplementsDisk
  ImplementsByteStream
\* Every stream of a pipe may be closed, and the FAT32 models stop at a defect.
CHECK_DEADLOCK FALSE
