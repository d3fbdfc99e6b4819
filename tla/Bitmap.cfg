CONSTANTS
  LastBlock = 6
  RootBlock = 4
  PageBits = 2
  BmBlocks = {5}
  SysBlocks = {}
  Faults = {"crash", "io", "early_unmount"}
SPECIFICATION FairSpec
INVARIANTS
  TypeOK
  UnmarkedPagesOnDisk
  ValidFlagMeansComplete
  InUseNotFree
  NoBlockLost
PROPERTIES
  UpdateReturns
