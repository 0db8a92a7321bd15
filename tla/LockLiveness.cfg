SPECIFICATION LockSpec
CONSTANTS
  Threads = {t1, t2}
  Free = Free
  Awake = Awake
  MaxDepth = 1
  BareWaits = FALSE
  Signals = FALSE
PROPERTIES
  FreeLockIsTaken
CHECK_DEADLOCK FALSE
