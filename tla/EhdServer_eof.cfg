SPECIFICATION FairSpec
CONSTANTS
  MaxFd = 2
  Listeners <- OneListener
  Backlog = 1
  InBound = 2
  SndBuf = 1
  ConnNum = 2
  BufSize = 3
  HeadLen = 2
  MemSizes = {2}
  FileSizes = {0, 2}
  Shortage = FALSE
PROPERTIES
  ReadEventServed
CHECK_DEADLOCK FALSE
