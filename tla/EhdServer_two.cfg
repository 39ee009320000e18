SPECIFICATION Spec
CONSTANTS
  MaxFd = 2
  Listeners <- OneListener
  Backlog = 1
  InBound = 1
  SndBuf = 1
  ConnNum = 3
  BufSize = 2
  HeadLen = 1
  MemSizes = {1}
  FileSizes = {2}
  Shortage = FALSE
INVARIANTS
  BatchIsCurrent
CHECK_DEADLOCK FALSE
