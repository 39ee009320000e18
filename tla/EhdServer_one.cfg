SPECIFICATION Spec
CONSTANTS
  MaxFd = 2
  Listeners <- OneListener
  Backlog = 2
  InBound = 3
  SndBuf = 2
  ConnNum = 2
  BufSize = 3
  HeadLen = 3
  MemSizes = {1, 3}
  FileSizes = {0, 3}
  Shortage = TRUE
INVARIANTS
  TypeOK
  WatchesWhatItWaitsFor
  UseAfterCloseOnlyAtEof
  DataFitsHandler
  NothingLeaksOnClose
  NoLostWakeup
  FaultsExplained
PROPERTIES
  CutsExplained
  ImplementsService
CHECK_DEADLOCK FALSE
