SPECIFICATION Spec
CONSTANTS
  MainLength = 3
  CalleeLength = 2
  CellBits = 13
  TokenBufferSize = 4
  InputBufferSize = 2
  Vocabulary <- MCVocabulary
  Spelled <- MCSpelled
  ListCells = 48
  BufferCells = 8
  StackCells = 64
  RamBase = 2000
  CStackCells = 60
  Jobs <- MCJobs
  Ram <- MCRam
  Routine <- MCRoutine
  LastWord <- MCLastWord
  InitBrk <- MCInitBrk
  CStackTop <- MCCStackTop
INVARIANTS
  RunTypeOK
  Contracts
  SessionsMean
PROPERTIES
  RunsAsMachine
  Finishes
CHECK_DEADLOCK FALSE
