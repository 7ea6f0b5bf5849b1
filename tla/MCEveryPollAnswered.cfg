CONSTANTS
  Clients = {c1, c2}
  Kinds = {"p", "g"}
  MaxTasks = 2
  Impatient = {}
SPECIFICATION Spec
PROPERTY EveryPollAnswered
CHECK_DEADLOCK FALSE
