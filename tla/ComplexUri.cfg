SPECIFICATION Spec
CONSTANTS
  MaxLen = 8
INVARIANTS
  TypeOK
  StaysInCopy
  Rooted
  NormalForm
  ExtensionOfName
  ResolvesPath
