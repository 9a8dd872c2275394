------------------------------ MODULE MCLexer ------------------------------
(* Instances of Lexer for TLC: texts put together from pieces. *)
EXTENDS Lexer

SX == INSTANCE SequencesExt

TextsOf(pieces, most, ends) ==
  {SX!FlattenSeq(s) \o e : s \in SX!BoundedSeq(pieces, most), e \in ends}

MCNewLine == "\n"

MCChars == IdElems \cup Blanks \cup PunctChars \cup {"control"}

MCMemories == {[i \in 0..1 |-> [j \in 0..(kBufferSize - 1) |-> Junk]]}

(* Numbers of every form, whole and broken, at the end of the text or not *)
NumberPieces ==
  {<<"0">>, <<"1">>, <<"9">>, <<"0", "x">>, <<"0", "b">>, <<"f">>, <<".">>,
   <<"1", ".", "5">>, <<"e">>, <<"e", "-">>}

(* Words, punctuators, comments and blanks, of one to three characters,    *)
(* and an unknown one                                                      *)
WordPieces ==
  {<<"a">>, <<"d", "e", "f">>, <<"<">>, <<"<", "=">>, <<"#", " ">>,
   <<"\n">>, <<"control">>}

TokenTexts ==
  TextsOf(NumberPieces, 3, {<<>>, <<" ">>}) \cup TextsOf(WordPieces, 4, {<<>>})

(* A conversion may overflow from the fifth character on. *)
MCOutOfRange == [s \in EndStates |-> 5]
=============================================================================
