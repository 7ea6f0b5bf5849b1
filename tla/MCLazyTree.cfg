SPECIFICATION Spec
CONSTANTS
  Keys <- FourKeys
  BufferSize = 1
  LevelRatio = 2
  PageSize = 1
  LazyCutOff = 1
  Partitions = 2
  Writes <- FourWrites
  MaxWrites = 10
INVARIANTS RecencyOrder GetIsLastWrite TiersWithinCutOff
CHECK_DEADLOCK FALSE
