SPECIFICATION Spec
CONSTANTS
  ReaderTasks = {r1}
  WriterTasks = {w1}
  NoTask = NoTask
  EarlyWritable = {}
  MaxBuf = 1
  MaxWire = 1
  RegisterMayFail = FALSE
INVARIANTS
  FailureReported
