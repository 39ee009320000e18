SPECIFICATION Spec
CONSTANTS
  Uris <- ShortUris
  Extensions <- Table
  MaxSize = 2
  PageLen = 2
  HeadLen = 2
INVARIANTS
  TypeOK
  Framed
  TypeReadsInUri
  Answers
