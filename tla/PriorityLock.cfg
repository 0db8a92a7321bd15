SPECIFICATION Spec
CONSTANTS
  Threads = {t1, t2, t3}
  Locks = {lock}
  Nobody = Nobody
  MaxDepth = 2
  MaxUses = 3
INVARIANTS
  PriorityTypeOK
  OwnerCounts
  WaitersKnown
PROPERTIES
  PriorityLockIsReentrant
  ServedUnlessForgotten
CHECK_DEADLOCK FALSE
