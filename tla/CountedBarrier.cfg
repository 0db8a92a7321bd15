SPECIFICATION Spec
CONSTANTS
  Threads = {t1, t2}
  Waiters = {w1, w2}
  Free = Free
  Awake = Awake
  MaxDepth = 1
  BareWaits = FALSE
  Signals = TRUE
  Targets = {0, 1}
  MaxOps = 2
SYMMETRY ActorSymmetry
INVARIANTS
  BarrierTypeOK
  NothingLostUnderLock
  WaiterHasWaker
CHECK_DEADLOCK FALSE
