SPECIFICATION Spec
CONSTANTS
  ReaderTasks = {r1}
  WriterTasks = {w1}
  NoTask = NoTask
  EarlyWritable = {"fastsyn"}
  MaxBuf = 2
  MaxWire = 2
  RegisterMayFail = TRUE
INVARIANTS
  TypeOK
  ExactlyOnce
  ParkedHasWaker
  NoMissedEvent
  FailureReported
  EstablishedMeansOpen
PROPERTIES
  NoEarlyFailure
  Refinement
