----------------------------- MODULE SymbolTable -----------------------------
(***************************************************************************)
(* What code generation promises whoever looks a function up by its name   *)
(* (src/src/ir/ast_visiter.cc: module_->getFunction): a name means one     *)
(* function with one list of arguments from when it becomes known, until   *)
(* a definition of that very function fails.                               *)
(***************************************************************************)
CONSTANT Names

VARIABLES
  table,    \* what each known name means: its function and its arguments
  defined   \* the function whose definition was visited last

(* Every name known before and after the step keeps its meaning. *)
Kept == \A n \in DOMAIN table \cap DOMAIN table' : table'[n] = table[n]

Init == DOMAIN table = {}

(* A prototype, or a definition that does not fail, makes a name known. *)
Declare(n) ==
  /\ n \notin DOMAIN table
  /\ DOMAIN table' = DOMAIN table \cup {n}
  /\ Kept
  /\ defined' \in {defined, table'[n].function}

(* A definition of a known name fails, or not. *)
Define(n) ==
  /\ n \in DOMAIN table
  /\ DOMAIN table' \in {DOMAIN table, DOMAIN table \ {n}}
  /\ Kept
  /\ defined' = table[n].function

(* A definition that fails of a function of no known name *)
DefineOther ==
  /\ UNCHANGED table
  /\ \A n \in DOMAIN table : defined' # table[n].function

Next == DefineOther \/ \E n \in Names : Declare(n) \/ Define(n)

Spec == Init /\ [][Next]_<<table, defined>>
=============================================================================
