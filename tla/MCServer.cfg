\* Two clients, any commands, the shutdown included.
CONSTANTS
  Clients = {c1, c2}
  Kinds = {"p", "g", "cq", "q"}
  MaxTasks = 3
  Impatient = {c1}
SPECIFICATION Spec
INVARIANTS TypeOK GetSeesEarlierPuts SaveHasEarlierPuts AnswersAreOwn
PROPERTIES AnsweredUnlessOverwritten IsCommandQueue
CHECK_DEADLOCK FALSE
