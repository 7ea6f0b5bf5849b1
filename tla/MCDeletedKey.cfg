CONSTANTS
  Keys = {0, 1}
  BufferSize = 2
  LevelRatio = 3
  PageSize = 2
  MaxWrites = 6
SPECIFICATION Spec
INVARIANT DeletedKeyStaysDeleted
CHECK_DEADLOCK FALSE
