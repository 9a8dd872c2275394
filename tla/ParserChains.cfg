\* Chains of operators: what is accepted, and what of it is kept.
SPECIFICATION Spec
CONSTANTS
  Tokens <- ChainTokens
  MaxTokens <- SevenTokens
INVARIANT AcceptedIsWhole
CHECK_DEADLOCK FALSE
