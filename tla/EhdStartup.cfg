SPECIFICATION Spec
CONSTANTS
  NListen = 2
  Tries = 5
  ConnNum = 16
  FirstFd = 3
  MaxFd = 16
INVARIANTS
  TypeOK
  LoopIsReady
  SocketsBounded
PROPERTIES
  Starts
