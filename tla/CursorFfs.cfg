CONSTANTS
  BlockSize = 3
  MaxDatablk = 2
  OFS = FALSE
  TruncateTo <- InsideBlocks
  MaxSize = 19
SPECIFICATION Spec
INVARIANTS
  TypeOK
  PositionConsistent
  ExtBlockConsistent
  BlocksMatchSize
