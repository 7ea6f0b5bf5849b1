\* Two threads; every entry of the buffer is a task of its own, levels have up
\* to two runs.
CONSTANTS
  Keys = {0, 1}
  BufferSize = 2
  LevelRatio = 3
  PageSize = 1
  MaxWrites = 5
  Workers = {w1, w2}
  SearchSize = 1
  Writes <- ThreeWrites
  Ranges <- TwoRanges
SPECIFICATION Spec
INVARIANT SearchesAreSequential
PROPERTIES CompactionDrainsQueue EveryOperationReturns PoolIsJoined
\* The destructor ends the process.
CHECK_DEADLOCK FALSE
