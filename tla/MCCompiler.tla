------------------------------ MODULE MCCompiler ------------------------------
(* An instance of Compiler for TLC: texts of words with a blank behind     *)
(* each, all texts of a few words and some programs of more.               *)
EXTENDS CompilerGrammar

Said(tag, l) == <<[tag |-> tag, lexeme |-> l]>>

(* Words, and the tokens they are *)
Word(chars, says) == [chars |-> Append(chars, " "), says |-> says]

a      == Word(<<"a">>, Said("kIdentifier", "a"))
one    == Word(<<"1">>, Said("kNumber", "1"))
open   == Word(<<"(">>, Said("kPunctuator", "("))
close  == Word(<<")">>, Said("kPunctuator", ")"))
comma  == Word(<<",">>, Said("kPunctuator", ","))
semi   == Word(<<";">>, Said("kPunctuator", ";"))
plus   == Word(<<"+">>, Said("kPunctuator", "+"))
def    == Word(Def, Said("kKwDef", "def"))
extern == Word(Extern, Said("kKwExtern", "extern"))
remark == Word(<<"#", "a", "\n">>, <<>>)
strange == Word(<<"control">>, <<>>)

FewWords == {a, one, open, close, semi, plus, def, extern, strange}
Words    == FewWords \cup {comma, remark}

Programs ==
  {<<def, a, open, a, a, close, a, plus, a>>,
   <<def, a, open, close, one, a, open, a, comma, one, close>>,
   <<a, open, a, open, one, close, close, semi, extern, a, open, close>>,
   <<a, plus, remark, one, semi, def, a, strange>>,
   <<remark, semi, remark>>,
   <<a, plus, a, plus, a, plus, a>>}

Sources == SX!BoundedSeq(FewWords, 3) \cup Programs

Text(s) == SX!FlattenSeq([i \in DOMAIN s |-> s[i].chars])
Says(s) == SX!FlattenSeq([i \in DOMAIN s |-> s[i].says])

MCTexts      == {Text(s) : s \in Sources}
MCListing    == [t \in MCTexts |-> Says(CHOOSE s \in Sources : Text(s) = t)]
MCVocabulary == UNION {{w.says[i] : i \in DOMAIN w.says} : w \in Words}

(* More than any of the texts has *)
MCMaxTokens(kinds) == 20

MCNewLine == "\n"
MCChars   == IdElems \cup Blanks \cup PunctChars \cup {"control"}

(* Memory of which every cell is Junk *)
MCMemories == {[i \in 0..1 |-> [j \in 0..(kBufferSize - 1) |-> Junk]]}

(* No conversion overflows. *)
MCOutOfRange == [s \in EndStates |-> 40]
=============================================================================
