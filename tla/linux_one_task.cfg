SPECIFICATION FairSpec
CONSTANTS
  ReaderTasks = {t1}
  WriterTasks = {t1}
  NoTask = NoTask
  EarlyWritable = {"deferred"}
  MaxBuf = 1
  MaxWire = 1
  RegisterMayFail = FALSE
PROPERTIES
  ReadCompletes
