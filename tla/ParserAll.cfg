\* Every kind of token in any order in files of up to five tokens, fewer kinds
\* in files of up to seven.
SPECIFICATION Spec
CONSTANTS
  Tokens <- AllTokens
  MaxTokens <- ByKinds
INVARIANTS
  TypeOK
  ParserInv
  NoNullDumped
  DepthBounded
  RejectedIffLogged
  NothingLost
  ProgramsParsed
PROPERTY ParseReturns
CHECK_DEADLOCK FALSE
