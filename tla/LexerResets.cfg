\* Several passes over files that fit in one buffer, moves between calls.
SPECIFICATION HandleSpec
CONSTANTS
  kBufferSize = 16
  Chars <- MCChars
  NewLine <- MCNewLine
  Texts <- MCTexts
  Memories <- MCMemories
  OutOfRange <- MCOutOfRange
  kEOF = kEOF
  Junk = Junk
  l1 = l1
  l2 = l2
  Handles <- MCHandles
SYMMETRY Alike
INVARIANTS
  ResetReplays
  SmallFilesTold
  OneOwner
CHECK_DEADLOCK FALSE
