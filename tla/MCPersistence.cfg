\* Every way to end and to start again twice; a level is full with two runs.
CONSTANTS
  Keys = {0, 1}
  BufferSize = 2
  LevelRatio = 3
  PageSize = 2
  MaxWrites = 7
  MaxStarts = 2
SPECIFICATION Spec
INVARIANTS RecencyOrder FilesAreRuns
PROPERTY RestartKeepsAnswers
CHECK_DEADLOCK FALSE
