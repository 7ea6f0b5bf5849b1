\* Every buffer of up to five writes of three keys, three threads.
CONSTANTS
  SortKeys = {0, 1, 2}
  MaxEntries = 5
  Threads = 3
SPECIFICATION SortSpec
INVARIANT MergedIsStableSort
CHECK_DEADLOCK FALSE
