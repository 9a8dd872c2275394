\* Where one pass finds the end of the text.
SPECIFICATION ScanSpec
CONSTANTS
  kBufferSize = 4
  Chars = {"c", "nl"}
  NewLine = "nl"
  MaxLen = 10
  Texts <- MCTexts
  Memories <- MCMemories
  kEOF = kEOF
  Junk = Junk
INVARIANT EndOnlyAtFileEnd
CHECK_DEADLOCK FALSE
