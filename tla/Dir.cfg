CONSTANTS
  Root = 1
  Sectors = {2, 3, 4}
  Names <- MCNames
  Upper <- MCUpper
  Bucket <- MCBucket
  MaxOpen = 1
  FailAt = {0, 1}
  Programs <- ManyCalls
  Habits <- AllHabits
SPECIFICATION CurSpec
INVARIANTS
  TypeOK
  EntriesFound
  ListingsComplete
  UsedExactly
  CurrentIsDirectory
PROPERTIES
  IsNamespace
