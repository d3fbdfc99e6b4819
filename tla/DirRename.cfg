CONSTANTS
  Root = 1
  Sectors = {2, 3, 4}
  Names <- MCNames
  Upper <- MCUpper
  Bucket <- MCBucket
  MaxOpen = 1
  FailAt = {0}
  Programs <- FewCalls
  Habits <- ButNewName
SPECIFICATION CurSpec
PROPERTIES
  RenameKeepsEntries
