CONSTANTS
  BlockSize = 2
  Bytes = {0, 1}
  Volumes <- ListVolume
  Habits <- ButFlushToRead
SPECIFICATION Spec
PROPERTIES
  ReadKeepsContent
