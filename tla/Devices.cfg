CONSTANTS
  KeySets <- MCKeySets
  Reports <- MCReports
  SubTypes = {0, 3, 4}
  MaxQueue = 2
  MaxWire = 0
  Width = 2
  Height = 2
SPECIFICATION MCSpec
INVARIANTS
  TypesOK
  UsbExact
  
  
