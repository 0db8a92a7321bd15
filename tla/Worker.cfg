SPECIFICATION Spec
CONSTANTS
  Callers = {owner, other}
  Owner = owner
  Structs = {1, 2}
  Clones = {1, 2}
  Awake = Awake
  Signals = TRUE
  QueueSize = 1
INVARIANTS
  WorkerTypeOK
  AliveTells
  StackOutlives
  JoinerHasWaker
  StarterHasWaker
CHECK_DEADLOCK FALSE
