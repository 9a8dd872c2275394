----------------------------- MODULE LexerHandles -----------------------------
(***************************************************************************)
(* Lexer and Parser as owners: the constructors, moves and the destructor  *)
(* of src/src/lexer/lexer.cc and parser.h around the one Impl of Lexer.    *)
(*                                                                         *)
(* A handle is a Lexer object, one on its own or the lexer_ of a Parser;   *)
(* what moves is the pointer, never the Impl.                              *)
(***************************************************************************)
EXTENDS Lexer

CONSTANT Handles   \* the Lexer objects there may be

VARIABLES
  pimpl,   \* pimpl_ of each handle: "impl" or "null"
  alive,   \* the Impl was not destroyed
  fault    \* "null" after a call through a null pimpl_, "overflow" after a
           \* recursion without an end, "none" before

handleVars == <<pimpl, alive, fault>>

(* Lexer(), and a Lexer on a path *)
HandleInit ==
  /\ LexInit
  /\ \E h \in Handles : pimpl = [g \in Handles |-> IF g = h THEN "impl" ELSE "null"]
  /\ alive = TRUE
  /\ fault = "none"

(* ~Lexer, here: of an object that another one of the same name follows    *)
Destroy(h) ==
  /\ pimpl' = [pimpl EXCEPT ![h] = "null"]
  /\ alive' = (alive /\ pimpl[h] # "impl")

(* Seeded fault: the pointer is read, and not released. *)
MoveConstructByGet(h, g) ==
  /\ pimpl[h] = "null"
  /\ pimpl' = [pimpl EXCEPT ![h] = pimpl[g]]
  /\ UNCHANGED alive

(* Lexer(Lexer&&), and with it Parser(Parser&&), of a new object h *)
MoveConstruct(h, g) ==
  /\ pimpl[h] = "null"
  /\ pimpl' = [pimpl EXCEPT ![g] = "null", ![h] = pimpl[g]]
  /\ UNCHANGED alive

(* operator=(Lexer&&): tmp takes the pointer of g, and takes with it to    *)
(* its end the one that h had; h and g may be the same object.             *)
MoveAssign(h, g) ==
  LET taken == [pimpl EXCEPT ![g] = "null"] IN
  /\ pimpl' = [taken EXCEPT ![h] = pimpl[g]]
  /\ alive' = (alive /\ taken[h] # "impl")

Swap(h, g) ==
  /\ pimpl' = [pimpl EXCEPT ![h] = pimpl[g], ![g] = pimpl[h]]
  /\ UNCHANGED alive

(* operator=(Parser&&) swaps by std::swap, which assigns by operator=. *)
MoveAssignParser ==
  /\ at = "idle" /\ fault = "none"
  /\ fault' = "overflow"
  /\ UNCHANGED <<allVars, pimpl, alive>>

MoveHandle ==
  /\ at = "idle" /\ fault = "none"
  /\ \/ \E h \in Handles : Destroy(h)
     \/ \E h, g \in Handles : MoveConstruct(h, g) \/ MoveAssign(h, g) \/ Swap(h, g)
  /\ UNCHANGED <<allVars, fault>>

(* A call through a handle: NextToken to its end, Reset or ResetFile       *)
Use(h) ==
  /\ fault = "none"
  /\ \/ /\ pimpl[h] = "impl"
        /\ LexNextAll
        /\ UNCHANGED fault
     \/ /\ pimpl[h] = "null"
        /\ at = "idle"
        /\ fault' = "null"
        /\ UNCHANGED allVars
  /\ UNCHANGED <<pimpl, alive>>

HandleNext ==
  \/ MoveHandle
  \/ MoveAssignParser
  \/ \E h \in Handles : Use(h)

HandleSpec == HandleInit /\ [][HandleNext]_<<allVars, handleVars>>

-----------------------------------------------------------------------------
(***************************************************************************)
(* Safety                                                                  *)
(***************************************************************************)
Holders == {h \in Handles : pimpl[h] = "impl"}

(* Whatever moves there are between two calls, one object owns the Impl as *)
(* long as it lives, and none points to it when it does not: it is deleted *)
(* once, and the pass goes on from where it is.                            *)
OneOwner == Cardinality(Holders) = IF alive THEN 1 ELSE 0
=============================================================================
