\* One pass over texts of up to three blocks and a bit, blocks of 3.
SPECIFICATION ScanSpec
CONSTANTS
  kBufferSize = 4
  Chars = {"c", "nl"}
  NewLine = "nl"
  MaxLen = 10
  Texts <- MCTexts
  Memories <- MCMemories
  kEOF = kEOF
  Junk = Junk
INVARIANTS
  ScanInv
  PeekIsNextChar
  LocationExact
PROPERTY ImplementsCursor
CHECK_DEADLOCK FALSE
