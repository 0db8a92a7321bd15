SPECIFICATION Spec
CONSTANTS
  Size = 4
  Bytes = {b1, b2}
  High = {b2}
  NoByte = NoByte
  MaxLine = 2
INVARIANTS
  FullIsAnnounced
