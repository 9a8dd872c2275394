\* Every expression is a number.
SPECIFICATION Spec
CONSTANTS
  fib = fib
  arg = arg
  Names <- MCNames
  Exprs = {"number"}
  Operators = {"kAdd", "kDiv"}
  MaxArgs = 2
  MaxFunctions = 3
INVARIANT BodiesGenerated
CHECK_DEADLOCK FALSE
