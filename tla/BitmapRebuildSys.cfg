CONSTANTS
  LastBlock = 6
  RootBlock = 4
  PageBits = 2
  BmBlocks = {6}
  SysBlocks = {5}
  Faults = {}
SPECIFICATION Spec
INVARIANTS
  InUseNotFree
