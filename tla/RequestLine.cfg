SPECIFICATION Spec
CONSTANTS
  Alphabet <- MCAlphabet
  Prefixes <- MCPrefixes
  BufSize = 13
  UintSize = 1000000000
  MaxRead = 2
INVARIANTS
  TypeOK
  MarksDelimit
  SimplePathIsNormal
  LineReadable
  StopsWhereItMust
