----------------------------- MODULE TokenSource -----------------------------
(***************************************************************************)
(* What the lexer promises the parser in one pass over a file              *)
(* (src/include/kaleidoscope/lexer.h: NextToken): tokens, then the end of  *)
(* the file at every further call, unless a call throws.                   *)
(***************************************************************************)
EXTENDS Sequences

CONSTANTS
  Tokens,  \* the tokens there may be
  End      \* the one for the end of the file

VARIABLES
  read,    \* the tokens that were returned
  broken   \* TRUE once a call has thrown

vars == <<read, broken>>

Ended == read # <<>> /\ read[Len(read)] = End

Init == read = <<>> /\ broken = FALSE

Deliver(t) ==
  /\ ~broken
  /\ Ended => t = End
  /\ read' = Append(read, t)
  /\ UNCHANGED broken

Break ==
  /\ ~broken
  /\ broken' = TRUE
  /\ UNCHANGED read

Next == Break \/ \E t \in Tokens \cup {End} : Deliver(t)

Spec == Init /\ [][Next]_vars
=============================================================================
