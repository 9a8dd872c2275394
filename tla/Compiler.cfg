\* Both programs on texts that fit in one buffer.
SPECIFICATION CompilerSpec
CONSTANTS
  kBufferSize = 40
  Chars <- MCChars
  NewLine <- MCNewLine
  Texts <- MCTexts
  Memories <- MCMemories
  OutOfRange <- MCOutOfRange
  Vocabulary <- MCVocabulary
  Listing <- MCListing
  MaxTokens <- MCMaxTokens
  kEOF = kEOF
  Junk = Junk
INVARIANTS
  CompilerTypeOK
  ListingWritten
  NothingOfRejected
  WholeItemsWritten
  WrittenSays
  ProgramsWritten
  EmptyExplained
PROPERTY ProgramEnds
CHECK_DEADLOCK FALSE
