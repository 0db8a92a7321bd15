SPECIFICATION LockSpec
CONSTANTS
  Threads = {t1, t2, t3}
  Free = Free
  Awake = Awake
  MaxDepth = 2
  BareWaits = FALSE
  Signals = TRUE
SYMMETRY ThreadSymmetry
INVARIANTS
  SleeperHasWaker
  LockTypeOK
  ExclusiveUnlessRaced
  CountIsDepth
PROPERTIES
  LockIsReentrant
