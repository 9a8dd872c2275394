\* Expressions in parentheses.
SPECIFICATION Spec
CONSTANTS
  Tokens <- AllTokens
  MaxTokens <- FourTokens
INVARIANT ParenthesesMatch
CHECK_DEADLOCK FALSE
