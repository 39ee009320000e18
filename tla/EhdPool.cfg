SPECIFICATION Spec
CONSTANTS
  BlockSize = 7
  Hdr = 2
  MaxFromPool = 8
  LargeNode = 1
  ArraySize = 1
  ListSize = 1
  ListNode = 1
  BufSize = 1
  ElSize = 2
  ArrayN = 1
  ListN = 2
  Sizes = {3}
  MaxChunks = 3
  MaxAlloc = 8
INVARIANTS
  TypeOK
  OwnMemory
  ReadBack
  FreedOnce
