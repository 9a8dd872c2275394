\* Reset before the second block was read.
SPECIFICATION RescanSpec
CONSTANTS
  kBufferSize = 4
  Chars = {"c", "nl"}
  NewLine = "nl"
  MaxLen = 10
  Texts <- MCTexts
  Memories <- MCMemories
  kEOF = kEOF
  Junk = Junk
INVARIANT NoForeignChar
CHECK_DEADLOCK FALSE
