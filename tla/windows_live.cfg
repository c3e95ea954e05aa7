SPECIFICATION FairSpec
CONSTANTS
  ReaderTasks = {r1}
  WriterTasks = {w1}
  NoTask = NoTask
  EarlyWritable = {}
  MaxBuf = 1
  MaxWire = 1
  RegisterMayFail = TRUE
INVARIANTS
  WinTypeOK
  ConnectExOnce
  ContextUpdated
  ParkedHasWaker
  NoMissedEvent
PROPERTIES
  WriteCompletes
  ReadCompletes
  ConnectExRefinement
