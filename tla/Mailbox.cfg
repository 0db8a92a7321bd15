SPECIFICATION Spec
CONSTANTS
  Producers = {p1, p2}
  Consumers = {c1}
  Threads = {p1, p2, c1}
  Size = 3
  Msgs = {p1, p2}
  NoMsg = NoMsg
  Nobody = Nobody
  Awake = Awake
  Signals = {}
  Patient = {}
  MaxPushes = 3
SYMMETRY ActorSymmetry
INVARIANTS
  MailTypeOK
  OneWorker
PROPERTIES
  MailArrives
  MailIsQueue
CHECK_DEADLOCK FALSE
