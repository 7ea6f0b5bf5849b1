SPECIFICATION Spec
CHECK_DEADLOCK FALSE
CONSTANTS
  Command <- MCCommand
  Answer <- MCAnswer
  KeepAliveMax = 3
INVARIANTS HandledWhole ResultIsTrue
PROPERTY SidesEnd
