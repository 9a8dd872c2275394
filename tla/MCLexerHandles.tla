---------------------------- MODULE MCLexerHandles ----------------------------
(* An instance of LexerHandles for TLC: two handles, texts of up to two    *)
(* words, punctuators and unknown characters.                              *)
EXTENDS LexerHandles, TLC

SX == INSTANCE SequencesExt

CONSTANTS l1, l2

MCHandles == {l1, l2}
Alike     == Permutations(MCHandles)

Pieces ==
  {<<"a">>, <<"1", "\n">>, <<"control">>, <<"e", "x", "t", "e", "r", "n", " ">>}

MCTexts   == {SX!FlattenSeq(s) : s \in SX!BoundedSeq(Pieces, 2)}
MCNewLine == "\n"
MCChars   == IdElems \cup Blanks \cup PunctChars \cup {"control"}

MCMemories == {[i \in 0..1 |-> [j \in 0..(kBufferSize - 1) |-> Junk]]}

(* A conversion may overflow from the fifth character on. *)
MCOutOfRange == [s \in EndStates |-> 5]
=============================================================================
