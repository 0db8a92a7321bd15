SPECIFICATION Spec
CONSTANTS
  Size = 5
  Bytes = {b1, b2}
  High = {b2}
  NoByte = NoByte
  MaxLine = 2
INVARIANTS
  UartTypeOK
  LowerHalfAnnounced
  NoStandoff
PROPERTIES
  UartQueue
  SenderResumes
