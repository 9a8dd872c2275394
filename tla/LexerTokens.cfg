\* Numbers, words, punctuators and comments over blocks of four characters.
SPECIFICATION LexSpec
CONSTANTS
  kBufferSize = 5
  Chars <- MCChars
  NewLine <- MCNewLine
  Texts <- TokenTexts
  Memories <- MCMemories
  OutOfRange <- MCOutOfRange
  kEOF = kEOF
  Junk = Junk
INVARIANTS
  LexTypeOK
  LexInv
  TokensTellText
  LongestMatch
  TokenLocated
PROPERTIES
  PassEnds
  ImplementsTokenSource
CHECK_DEADLOCK FALSE
