------------------------------- MODULE Cursor -------------------------------
(***************************************************************************)
(* What SourceFile (src/src/lexer/file.h) promises the lexer: a cursor     *)
(* over the text of one open file, with a mark at the first character of   *)
(* the current lexeme to which the cursor can be rolled back.  There are   *)
(* no buffers, blocks, stamps or stream here.                              *)
(*                                                                         *)
(* The promise is weaker than "the whole text is delivered": rolling back  *)
(* over characters that were already looked at may, once, cut the text     *)
(* short at one of them.  Everything before the cut is delivered exactly.  *)
(***************************************************************************)
EXTENDS Integers, Sequences

CONSTANTS
  Texts,      \* the texts a file may hold, sequences of characters
  MaxLexeme,  \* a lexeme is shorter than this
  kEOF        \* what is shown where there is no character to show

VARIABLES
  text,   \* the text of the open file
  pos,    \* offset of the cursor
  mark,   \* offset of the first character of the current lexeme
  limit,  \* offset at which the text is taken to end
  usable, \* FALSE once the cursor has refused a lexeme as too long
  shown   \* the offset of the character under the cursor, or kEOF

vars == <<text, pos, mark, limit, usable, shown>>

(* The character under a cursor at p when the text ends at l. *)
CharAt(p, l) == IF p < l THEN p ELSE kEOF

Init ==
  /\ text \in Texts
  /\ pos = 0
  /\ mark = 0
  /\ limit = Len(text)
  /\ usable = TRUE
  /\ shown = CharAt(0, Len(text))

(* Deliver the character under the cursor and step over it. *)
Advance ==
  /\ usable
  /\ pos < limit
  /\ pos - mark + 1 < MaxLexeme
  /\ pos' = pos + 1
  /\ shown' = CharAt(pos + 1, limit)
  /\ UNCHANGED <<text, mark, limit, usable>>

(* The lexeme would reach MaxLexeme characters: give up. *)
Refuse ==
  /\ usable
  /\ pos < limit
  /\ pos - mark + 1 >= MaxLexeme
  /\ pos' = pos + 1
  /\ usable' = FALSE
  /\ shown' = kEOF
  /\ UNCHANGED <<text, mark, limit>>

(* The next lexeme starts under the cursor. *)
Mark ==
  /\ usable
  /\ mark' = pos
  /\ UNCHANGED <<text, pos, limit, usable, shown>>

(* Return to the start of the lexeme, possibly losing the text from some   *)
(* character that has been looked at since.                                *)
Rollback ==
  /\ usable
  /\ pos' = mark
  /\ \/ limit' = limit
     \/ limit = Len(text) /\ limit' \in (mark + 1)..pos
  /\ shown' = CharAt(mark, limit')
  /\ UNCHANGED <<text, mark, usable>>

Next == Advance \/ Refuse \/ Mark \/ Rollback

Spec == Init /\ [][Next]_vars
=============================================================================
