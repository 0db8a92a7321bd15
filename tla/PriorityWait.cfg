SPECIFICATION Spec
CONSTANTS
  Threads = {t1, t2, t3}
  Locks = {lock}
  Nobody = Nobody
  MaxDepth = 1
  MaxUses = 1
PROPERTIES
  WaiterServed
CHECK_DEADLOCK FALSE
