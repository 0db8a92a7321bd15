SPECIFICATION Spec
CONSTANTS
  Producer = producer
  Consumer = consumer
  Threads = {producer, consumer}
  Size = 3
  Msgs = {m1, m2}
  NoMsg = NoMsg
  Awake = Awake
  Signals = {consumer}
INVARIANTS
  RingTypeOK
  SlotExclusive
  NoLostWakeup
  WaitIsGood
  UntimedWaitSucceeds
PROPERTIES
  QueueSpec
  WaitEnds
