\* Every order of visits that creates up to three functions.
SPECIFICATION Spec
CONSTANTS
  fib = fib
  arg = arg
  Names <- MCNames
  Exprs = {"number", "variable"}
  Operators = {"kAdd", "kDiv"}
  MaxArgs = 2
  MaxFunctions = 3
SYMMETRY Alike
INVARIANTS
  TypeOK
  NamesOfOneFunction
  ReturnedLives
PROPERTY ImplementsSymbolTable
CHECK_DEADLOCK FALSE
