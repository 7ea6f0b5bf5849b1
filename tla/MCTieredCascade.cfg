\* Two keys, one of them the key load_full_file makes up; a level is full with
\* one run, so that compactions cascade over three levels.
CONSTANTS
  Keys = {0, 1}
  BufferSize = 2
  LevelRatio = 2
  PageSize = 2
  MaxWrites = 13
SPECIFICATION Spec
INVARIANTS TypeOK RecencyOrder RunsCountFlushes GetIsNewestLive
PROPERTIES NoCopyFromNowhere NewestCopySurvives
\* The commands end: main's loop stops at q or at the end of its input.
CHECK_DEADLOCK FALSE
