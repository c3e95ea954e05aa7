SPECIFICATION FairSpec
CONSTANTS
  ReaderTasks = {r1}
  WriterTasks = {w1}
  NoTask = NoTask
  EarlyWritable = {"deferred", "fastsyn"}
  MaxBuf = 1
  MaxWire = 2
  RegisterMayFail = FALSE
INVARIANTS
  ConnectedMeansResolved
  NoMissedEvent
  FailureReported
PROPERTIES
  WriteCompletes
  ReadCompletes
  Refinement
