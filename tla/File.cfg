CONSTANTS
  BlockSize = 2
  Bytes = {0, 1}
  Volumes <- AllVolumes
  Habits <- AllHabits
SPECIFICATION Spec
INVARIANTS
  TypeOK
  OwnsItsBlocks
  FlushesOwnBlocks
  ChangesAreMarked
  OfsLinks
PROPERTIES
  IsByteSequence
  CountsAsCursor
  RemovesListedBlocks
