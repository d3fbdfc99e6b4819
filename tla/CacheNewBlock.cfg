CONSTANTS
  Root = 1
  RootCache = 10
  Blocks = {10, 11, 12}
  Area = 4
  Entries = {2, 3, 4}
  Lengths = {1, 2, 3}
  Values = {0, 1}
  MaxOpen = 1
  Habits <- ButNoNewBlock
SPECIFICATION Spec
INVARIANTS
  CacheListsEntries
