SPECIFICATION Spec
CONSTANTS
  Keys <- FiveKeys
  LevelRatio = 2
  BufferSize = 2
  PageSize = 2
  LazyCutOff = 1
  Partitions = 3
  MinBatch = 1
  MaxArrivals = 4
INVARIANTS BlocksInOrder GetFindsAllButLastPages FlushStaysInList FirstLevelIsNewest
PROPERTY ReadableKeysStay
CHECK_DEADLOCK FALSE
