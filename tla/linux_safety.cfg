SPECIFICATION Spec
CONSTANTS
  ReaderTasks = {r1, r2}
  WriterTasks = {w1}
  NoTask = NoTask
  EarlyWritable = {"deferred"}
  MaxBuf = 2
  MaxWire = 2
  RegisterMayFail = TRUE
SYMMETRY ReaderSymmetry
INVARIANTS
  LinuxTypeOK
  ExactlyOnce
  ConnectedMeansResolved
  ParkedHasWaker
  NoMissedEvent
  FailureReported
  SupportSound
  NoUnreachable
