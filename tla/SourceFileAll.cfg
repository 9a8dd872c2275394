\* Every operation in any order.
SPECIFICATION Spec
CONSTANTS
  kBufferSize = 4
  Chars = {"c", "nl"}
  NewLine = "nl"
  MaxLen = 7
  Texts <- MCTexts
  Memories <- MCMemories
  kEOF = kEOF
  Junk = Junk
INVARIANTS
  TypeOK
  SmallFileFaithful
  RollbackInReach
CHECK_DEADLOCK FALSE
