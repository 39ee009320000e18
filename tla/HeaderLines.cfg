SPECIFICATION Spec
CONSTANTS
  BufSize = 9
  MaxRead = 2
INVARIANTS
  TypeOK
  HeadersAreLines
  HeadersReadable
  StopsWhereItMust
