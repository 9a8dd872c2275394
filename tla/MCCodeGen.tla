------------------------------ MODULE MCCodeGen ------------------------------
(* An instance of CodeGen for TLC: two names, either for functions and for *)
(* arguments.                                                              *)
EXTENDS CodeGen, TLC

CONSTANTS fib, arg

MCNames == {fib, arg}
Alike   == Permutations(MCNames)
=============================================================================
