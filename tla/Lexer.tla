-------------------------------- MODULE Lexer --------------------------------
(***************************************************************************)
(* The lexer: Lexer::Impl of src/src/lexer/lexer.cc over a SourceFile.     *)
(*                                                                         *)
(* NextToken is one call made of many steps: each step makes at most one   *)
(* operation of the file, and "at" says where in NextToken it is.  An      *)
(* exception, of the file or of the lexer, leaves it at "failed": no       *)
(* caller in the repository catches one.                                   *)
(***************************************************************************)
EXTENDS SourceFile

CONSTANTS
  OutOfRange   \* for each end state whose lexeme is converted, the length of
               \* the shortest one std::stoll or std::stod may throw at

VARIABLES
  at,          \* the control point of NextToken, "idle" between two calls
  state,       \* state of GetNumber
  lexeme,      \* lexeme_buffer_ up to buffer_idx
  peek_char,   \* peek_
  pattern,     \* the pattern StartWith looks for, an index of Patterns
  matched,     \* how many of its characters matched, or remain to be eaten
  location,    \* location_
  word_table,  \* word_table_: a token for every reserved word, and one more
  tokens,      \* what the calls returned since the last Reset
  previous     \* the tokens of the pass before that Reset, of the same file

fileVars  == vars
tokenVars == <<location, word_table, tokens>>
lexVars   == <<at, state, lexeme, peek_char, pattern, matched, tokenVars>>
allVars   == <<fileVars, lexVars, previous>>

-----------------------------------------------------------------------------
(* CharUtils, and std::ispunct of the C locale *)

OctalDigits == {"0", "1", "2", "3", "4", "5", "6", "7"}
Digits      == OctalDigits \cup {"8", "9"}
HexDigits   == Digits \cup {"a", "b", "c", "d", "e", "f"}
Letters ==
  {"a", "b", "c", "d", "e", "f", "g", "h", "i", "j", "k", "l", "m",
   "n", "o", "p", "q", "r", "s", "t", "u", "v", "w", "x", "y", "z",
   "A", "B", "C", "D", "E", "F", "G", "H", "I", "J", "K", "L", "M",
   "N", "O", "P", "Q", "R", "S", "T", "U", "V", "W", "X", "Y", "Z"}
IdElems     == Digits \cup Letters \cup {"_"}
Blanks      == {" ", "\t", NewLine, "\r", "\f"}
Signs       == {"+", "-"}
ExpChars    == {"e", "E"}
PunctChars ==
  {"!", "\"", "#", "$", "%", "&", "'", "(", ")", "*", "+", ",", "-", ".", "/",
   ":", ";", "<", "=", ">", "?", "@", "[", "\\", "]", "^", "_", "backquote",
   "{", "|", "}", "~"}

(* What StartWith is called with: the comment mark, then multi_punct. *)
Comment    == << <<"#">> >>
ThreeChars == << <<"<", "<", "=">>, <<">", ">", "=">> >>
TwoChars ==
  << <<"=", "=">>, <<"!", "=">>, <<"<", "=">>, <<">", "=">>, <<"-", ">">>,
     <<"+", "=">>, <<"-", "=">>, <<"*", "=">>, <<"/", "=">>, <<"+", "+">>,
     <<"-", "-">>, <<"%", "=">>, <<"&", "=">>, <<"|", "=">>, <<"^", "=">>,
     <<"&", "&">>, <<"|", "|">>, <<"<", "<">>, <<">", ">">> >>

(* Seeded fault: shorter punctuators are looked for before longer ones. *)
PatternsShortFirst == Comment \o TwoChars \o ThreeChars

Patterns == Comment \o ThreeChars \o TwoChars

ASSUME PatternAssumption ==
  /\ Patterns \in Seq(Seq(Chars))
  /\ \A p \in DOMAIN Patterns : Patterns[p] # <<>>
  /\ Len(Patterns) >= 2
ASSUME EndAssumption == kEOF \notin Chars

(* A line end, the end of the file and what is not of it are in no class   *)
(* of letters, digits and punctuators.                                     *)
ASSUME ClassAssumption == {NewLine, kEOF, Junk} \cap (IdElems \cup PunctChars) = {}

Def    == <<"d", "e", "f">>
Extern == <<"e", "x", "t", "e", "r", "n">>

(* Seeded fault: 'extern' is not registered. *)
KeyWordsDefOnly ==
  [w \in {Def} |-> [tag |-> "kKwDef", location |-> Begin]]

(* RegisterKeyWords on an empty table *)
KeyWords ==
  [w \in {Def, Extern} |->
     [tag |-> IF w = Def THEN "kKwDef" ELSE "kKwExtern", location |-> Begin]]

(* The character under forward.  A Junk cell is a character of no class:   *)
(* what a pass over such cells yields is outside this model.               *)
Shown == IF Peek \in 0..(Len(text) - 1) THEN text[Peek + 1] ELSE Peek

-----------------------------------------------------------------------------
(* The file's operations, within NextToken *)

(* Seeded fault: the call goes on after a failed CHECK. *)
GotoAnyway(p) == at' = p

(* An operation whose CHECK fails ends the call. *)
Goto(p) == at' = IF status' = "ok" THEN p ELSE "failed"

(* ScanChar, which at kEOF returns without a change *)
Scanned ==
  \/ ScanChar
  \/ /\ Peek = kEOF
     /\ UNCHANGED fileVars

Fail ==
  /\ at' = "failed"
  /\ UNCHANGED tokenVars

(* NextToken sets the token's location and returns it.  "to" is where the   *)
(* next one may start.                                                     *)
Deliver(tag, word) ==
  /\ at' = "idle"
  /\ tokens' = Append(tokens, [tag |-> tag, lexeme |-> word, location |-> location,
                               to |-> start_location'.pos])
  /\ UNCHANGED <<location, state, lexeme, peek_char, pattern, matched>>

(* Where InsertId finds or puts the token of a word.  The right operand of  *)
(* its assignment, evaluated first, moves the lexeme out of the Id: a word *)
(* that is not in the table yet is put there under the empty lexeme, and   *)
(* only the reserved words are ever found again.                           *)
Key(word) == IF word \in DOMAIN word_table THEN word ELSE <<>>

(* Seeded fault: a reserved word keeps the location it has. *)
InsertWordOnce(word) ==
  IF word \in DOMAIN word_table THEN UNCHANGED word_table
  ELSE word_table' = [w \in DOMAIN word_table \cup {<<>>} |->
                        IF w = <<>> THEN [tag |-> "kIdentifier", location |-> location]
                        ELSE word_table[w]]

(* InsertId, and the location NextToken writes into the token it returns:  *)
(* for a reserved word, the one token that all its occurrences share.      *)
InsertWord(word) ==
  word_table' =
    [w \in DOMAIN word_table \cup {Key(word)} |->
       IF w # Key(word) THEN word_table[w]
       ELSE [tag |-> IF word \in DOMAIN word_table THEN word_table[word].tag
                     ELSE "kIdentifier",
             location |-> location]]

LookFor(p) == at' = "match" /\ pattern' = p /\ matched' = 0

(***************************************************************************)
(* NextToken                                                               *)
(***************************************************************************)

(* A call.  The bound: at most two more than the text has characters, so   *)
(* that a caller may be told of the end of the file twice.                 *)
Call ==
  /\ at = "idle"
  /\ Len(tokens) <= Len(text) + 1
  /\ at' = "blank"
  /\ UNCHANGED <<fileVars, state, lexeme, peek_char, pattern, matched, tokenVars>>

(* SkipBlank: over one blank, or on to StartWith("#"). *)
SkipBlank ==
  /\ at = "blank"
  /\ peek_char' = Shown
  /\ \/ /\ Shown \in Blanks
        /\ ScanChar
        /\ Goto("blank_next")
        /\ UNCHANGED <<pattern, matched>>
     \/ /\ Shown \notin Blanks
        /\ LookFor(1)
        /\ UNCHANGED fileVars
  /\ UNCHANGED <<state, lexeme, tokenVars>>

SkipBlankNext ==
  /\ at = "blank_next"
  /\ NextLexeme
  /\ at' = "blank"
  /\ UNCHANGED <<state, lexeme, peek_char, pattern, matched, tokenVars>>

(* StartWith: one character of the pattern. *)
Match ==
  /\ at = "match"
  /\ matched < Len(Patterns[pattern])
  /\ Scanned
  /\ \/ /\ Shown = Patterns[pattern][matched + 1]
        /\ matched' = matched + 1
        /\ Goto("match")
     \/ /\ Shown # Patterns[pattern][matched + 1]
        /\ Goto("mismatch")
        /\ UNCHANGED matched
  /\ UNCHANGED <<state, lexeme, peek_char, pattern, tokenVars>>

(* StartWith returns TRUE.  SkipSingleLineComment first asserts the same   *)
(* StartWith, which finds the file, and leaves it, as this one does.       *)
Matched ==
  /\ at = "match"
  /\ matched = Len(Patterns[pattern])
  /\ ResetForward
  /\ at' = IF pattern = 1 THEN "comment" ELSE "eat"
  /\ UNCHANGED <<state, lexeme, peek_char, pattern, matched, tokenVars>>

(* StartWith returns FALSE: no comment, so a token starts here; or try the *)
(* next punctuator, of more than one character or of one.                  *)
Mismatched ==
  /\ at = "mismatch"
  /\ ResetForward
  /\ \/ /\ pattern = 1
        /\ at' = "number"
        /\ state' = "kStart"
        /\ lexeme' = <<>>
        /\ location' = start_location
        /\ UNCHANGED <<pattern, matched>>
     \/ /\ pattern > 1
        /\ IF pattern < Len(Patterns) THEN LookFor(pattern + 1)
           ELSE at' = "single" /\ UNCHANGED <<pattern, matched>>
        /\ UNCHANGED <<state, lexeme, location>>
  /\ UNCHANGED <<peek_char, word_table, tokens>>

(* SkipSingleLineComment: one character of it, its line end included. *)
SkipComment ==
  /\ at = "comment"
  /\ peek_char' = Shown
  /\ Scanned
  /\ Goto("comment_next")
  /\ UNCHANGED <<state, lexeme, pattern, matched, tokenVars>>

(* Seeded faults: a comment ends at any blank, or at a line end only. *)
SkipCommentNextBlank ==
  /\ at = "comment_next"
  /\ NextLexeme
  /\ at' = IF peek_char \in Blanks \cup {kEOF} THEN "blank" ELSE "comment"
  /\ UNCHANGED <<state, lexeme, peek_char, pattern, matched, tokenVars>>

SkipCommentNextLineOnly ==
  /\ at = "comment_next"
  /\ NextLexeme
  /\ at' = IF peek_char = NewLine THEN "blank" ELSE "comment"
  /\ UNCHANGED <<state, lexeme, peek_char, pattern, matched, tokenVars>>

(* ... the character was the last one if it ends the line or the file. *)
SkipCommentNext ==
  /\ at = "comment_next"
  /\ NextLexeme
  /\ at' = IF peek_char \in {NewLine, kEOF} THEN "blank" ELSE "comment"
  /\ UNCHANGED <<state, lexeme, peek_char, pattern, matched, tokenVars>>

-----------------------------------------------------------------------------
(* GetNumber.  Each state tries its moves in order, by the character under *)
(* forward; an eaten character goes into lexeme_buffer_.                   *)

Eat(chars, s)  == [on |-> chars, to |-> s, eats |-> TRUE]
Go(chars, s)   == [on |-> chars, to |-> s, eats |-> FALSE]
Otherwise(s)   == Go(Chars \cup {Junk}, s)

Moves ==
  [kStart              |-> <<Go(Signs, "fail"), Otherwise("kAfterSign")>>,
   kAfterSign          |-> <<Eat({"0"}, "kNotDecimalIntStart"),
                             Eat(Digits, "kDecimalDigit"),
                             Eat({"."}, "kAfterDotDigit"), Otherwise("fail")>>,
   kDecimalDigit       |-> <<Eat(Digits, "kDecimalDigit"),
                             Eat({"."}, "kAfterDotDigitOpt"),
                             Eat(ExpChars, "kAfterExpChar"),
                             Otherwise("kDecimalEnd")>>,
   kNotDecimalIntStart |-> <<Eat({"x"}, "kFirstHexDigit"),
                             Eat({"b"}, "kFirstBinaryDigit"),
                             Go(OctalDigits, "kOctalDigit"),
                             Eat({"."}, "kAfterDotDigitOpt"),
                             Otherwise("kIntZero")>>,
   kFirstHexDigit      |-> <<Eat(HexDigits, "kHexDigit"), Otherwise("error")>>,
   kHexDigit           |-> <<Eat(HexDigits, "kHexDigit"), Otherwise("kHexEnd")>>,
   kOctalDigit         |-> <<Eat(OctalDigits, "kOctalDigit"),
                             Otherwise("kOctalEnd")>>,
   kFirstBinaryDigit   |-> <<Eat({"0", "1"}, "kBinaryDitit"), Otherwise("error")>>,
   kBinaryDitit        |-> <<Eat({"0", "1"}, "kBinaryDitit"),
                             Otherwise("kBinaryEnd")>>,
   kAfterDotDigit      |-> <<Eat(Digits, "kFractionDigit"), Otherwise("fail")>>,
   kAfterDotDigitOpt   |-> <<Eat(Digits, "kFractionDigit"),
                             Eat(ExpChars, "kAfterExpChar"),
                             Otherwise("kFloatEnd")>>,
   kFractionDigit      |-> <<Eat(Digits, "kFractionDigit"),
                             Eat(ExpChars, "kAfterExpChar"),
                             Otherwise("kFloatEnd")>>,
   kAfterExpChar       |-> <<Eat(Signs, "kAfterExpSign"), Otherwise("kAfterExpSign")>>,
   kAfterExpSign       |-> <<Eat(Digits, "kExpDigit"), Otherwise("error")>>,
   kExpDigit           |-> <<Eat(Digits, "kExpDigit"), Otherwise("kFloatEnd")>>]

EndStates == {"kDecimalEnd", "kHexEnd", "kOctalEnd", "kBinaryEnd", "kIntZero",
              "kFloatEnd"}

(* Seeded fault: the default move is preferred to the others. *)
MoveOnDefaultFirst(s, c) ==
  LET fits == {i \in DOMAIN Moves[s] : c \in Moves[s][i].on}
  IN  Moves[s][CHOOSE i \in fits : \A k \in fits : k <= i]

(* The first move of state s on character c *)
MoveOn(s, c) ==
  LET fits == {i \in DOMAIN Moves[s] : c \in Moves[s][i].on}
  IN  Moves[s][CHOOSE i \in fits : \A k \in fits : i <= k]

(* The check of buffer_idx in lexer.cc:333 never fails: the CHECK in        *)
(* ScanChar refuses a lexeme of kBufferSize characters before.             *)
NumberMove ==
  /\ at = "number"
  /\ state \in DOMAIN Moves
  /\ Shown # kEOF
  /\ peek_char' = Shown
  /\ LET move == MoveOn(state, Shown) IN
     /\ state' = move.to
     /\ \/ /\ move.eats
           /\ lexeme' = Append(lexeme, Shown)
           /\ ScanChar
           /\ Goto("number")
        \/ /\ ~move.eats
           /\ at' = IF move.to = "error" THEN "failed" ELSE "number"
           /\ UNCHANGED <<fileVars, lexeme>>
  /\ UNCHANGED <<pattern, matched, tokenVars>>

(* Seeded fault: a number that does not go on gives up its characters but  *)
(* not its place in the file.                                              *)
NumberFailsInPlace ==
  /\ at = "number"
  /\ Shown = kEOF \/ state = "fail"
  /\ at' = "word"
  /\ lexeme' = <<>>
  /\ UNCHANGED <<fileVars, state, peek_char, pattern, matched, tokenVars>>

(* No number: at kEOF in any state, or where no move goes on. *)
NumberFails ==
  /\ at = "number"
  /\ Shown = kEOF \/ state = "fail"
  /\ ResetForward
  /\ at' = "word"
  /\ lexeme' = <<>>
  /\ UNCHANGED <<state, peek_char, pattern, matched, tokenVars>>

(* A number, unless its conversion throws std::out_of_range. *)
NumberEnds ==
  /\ at = "number"
  /\ state \in EndStates
  /\ Shown # kEOF
  /\ NextLexeme
  /\ UNCHANGED word_table
  /\ \/ Deliver("kNumber", lexeme)
     \/ /\ state # "kIntZero"
        /\ Len(lexeme) >= OutOfRange[state]
        /\ at' = "failed"
        /\ UNCHANGED <<state, lexeme, peek_char, pattern, matched, location, tokens>>

-----------------------------------------------------------------------------
(* GetIdAndWord *)

WordScan ==
  /\ at = "word"
  /\ Shown \in IdElems
  /\ peek_char' = Shown
  /\ lexeme' = Append(lexeme, Shown)
  /\ ScanChar
  /\ Goto("word")
  /\ UNCHANGED <<state, pattern, matched, tokenVars>>

WordEnds ==
  /\ at = "word"
  /\ Shown \notin IdElems
  /\ lexeme # <<>>
  /\ NextLexeme
  /\ InsertWord(lexeme)
  /\ Deliver(word_table'[Key(lexeme)].tag, lexeme)

NoWord ==
  /\ at = "word"
  /\ Shown \notin IdElems
  /\ lexeme = <<>>
  /\ LookFor(2)
  /\ UNCHANGED <<fileVars, state, lexeme, peek_char, tokenVars>>

(* GetPunctuator, of the characters StartWith found *)
EatPunct ==
  /\ at = "eat"
  /\ Scanned
  /\ Goto("eat_next")
  /\ UNCHANGED <<state, lexeme, peek_char, pattern, matched, tokenVars>>

EatPunctNext ==
  /\ at = "eat_next"
  /\ NextLexeme
  /\ UNCHANGED word_table
  /\ \/ /\ matched = 1
        /\ Deliver("kPunctuator", Patterns[pattern])
     \/ /\ matched > 1
        /\ at' = "eat"
        /\ matched' = matched - 1
        /\ UNCHANGED <<state, lexeme, peek_char, pattern, location, tokens>>

(* ... and of one character *)
Single ==
  /\ at = "single"
  /\ Shown \in PunctChars
  /\ peek_char' = Shown       \* spunct
  /\ ScanChar
  /\ Goto("single_next")
  /\ UNCHANGED <<state, lexeme, pattern, matched, tokenVars>>

SingleNext ==
  /\ at = "single_next"
  /\ NextLexeme
  /\ UNCHANGED word_table
  /\ Deliver("kPunctuator", <<peek_char>>)

(* Seeded fault: after the message about an unknown token the call returns *)
NothingElseReturns ==
  /\ at = "single"
  /\ Shown \notin PunctChars
  /\ UNCHANGED <<fileVars, word_table>>
  /\ Deliver(IF Peek = kEOF THEN "kEOF" ELSE "kInvalid", <<>>)

(* The end of the file, or an unknown token *)
NothingElse ==
  /\ at = "single"
  /\ Shown \notin PunctChars
  /\ UNCHANGED fileVars
  /\ \/ Peek = kEOF /\ Deliver("kEOF", <<>>) /\ UNCHANGED word_table
     \/ Peek # kEOF /\ Fail /\ UNCHANGED <<state, lexeme, peek_char, pattern, matched>>

NextTokenStep ==
  \/ SkipBlank \/ SkipBlankNext \/ Match \/ Matched \/ Mismatched
  \/ SkipComment \/ SkipCommentNext
  \/ NumberMove \/ NumberFails \/ NumberEnds
  \/ WordScan \/ WordEnds \/ NoWord
  \/ EatPunct \/ EatPunctNext \/ Single \/ SingleNext \/ NothingElse

-----------------------------------------------------------------------------
(* Seeded fault: the file is not reset with the lexer. *)
ClearOnly ==
  /\ location' = Begin
  /\ word_table' = KeyWords
  /\ tokens' = <<>>
  /\ lexeme' = <<>>
  /\ peek_char' = Shown
  /\ at' = "idle"
  /\ UNCHANGED <<fileVars, state, pattern, matched>>

(* Impl::Reset *)
Clear ==
  /\ Reset
  /\ location' = Begin
  /\ word_table' = KeyWords
  /\ tokens' = <<>>
  /\ lexeme' = <<>>
  /\ peek_char' = Shown'
  /\ at' = "idle"
  /\ UNCHANGED <<state, pattern, matched>>

AtEnd == tokens # <<>> /\ tokens[Len(tokens)].tag = "kEOF"

(* Lexer::Reset, between two calls.  operator<< makes it after the last    *)
(* token, Parser::Parse before the first.                                  *)
LexReset ==
  /\ at = "idle"
  /\ previous' = IF AtEnd THEN tokens ELSE previous
  /\ Clear

(* Lexer::ResetFile: another file is opened, then the lexer is Reset. *)
LexResetFile ==
  /\ at = "idle"
  /\ CloseAndOpenOther
  /\ Goto("reopened")
  /\ previous' = <<>>
  /\ UNCHANGED <<state, lexeme, peek_char, pattern, matched, tokenVars>>

Reopened ==
  /\ at = "reopened"
  /\ Clear
  /\ UNCHANGED previous

LexInit ==
  /\ Init
  /\ at = "idle" /\ state = "kStart" /\ lexeme = <<>> /\ peek_char = Shown
  /\ pattern = 1 /\ matched = 0
  /\ location = Begin /\ word_table = KeyWords /\ tokens = <<>>
  /\ previous = <<>>

(* One pass over the file.  The caller is operator<<, which asks for       *)
(* tokens until it has the end of the file.                                *)
LexNext == (Call \/ NextTokenStep) /\ UNCHANGED previous

LexSpec ==
  /\ LexInit
  /\ [][LexNext]_allVars
  /\ WF_allVars(LexNext)

(* Passes over several files *)
LexNextAll == LexNext \/ LexReset \/ LexResetFile \/ Reopened

-----------------------------------------------------------------------------
(***************************************************************************)
(* Safety                                                                  *)
(***************************************************************************)
Tags == {"kEOF", "kIdentifier", "kKwDef", "kKwExtern", "kNumber", "kPunctuator"}

Token == [tag : Tags, lexeme : Seq(Chars), location : Location, to : Nat]

(* Types, with two facts about failures: a failed CHECK of the file always *)
(* ends the call, and, since nothing else stops GetNumber and GetIdAndWord,*)
(* it comes before lexeme_buffer_ is full.                                 *)
LexTypeOK ==
  /\ at \in {"idle", "failed", "reopened", "blank", "blank_next", "match",
             "mismatch", "comment", "comment_next", "number", "word", "eat",
             "eat_next", "single", "single_next"}
  /\ state \in DOMAIN Moves \cup EndStates \cup {"fail", "error"}
  /\ pattern \in DOMAIN Patterns
  /\ matched \in 0..3
  /\ Len(lexeme) <= kBufferSize       \* lexeme_buffer_ has one cell more
  /\ tokens \in Seq(Token)
  /\ status # "ok" => at = "failed"

(***************************************************************************)
(* The inductive invariant of LexSpec, beside that of the file.            *)
(***************************************************************************)
(* The lexeme l is the text at offset p. *)
TextAt(p, l) ==
  \A j \in 1..Len(l) : p + j <= Len(text) /\ l[j] = text[p + j]

TokensTyped ==
  /\ location \in Location
  /\ lexeme \in Seq(Chars)
  /\ pattern \in 1..Len(Patterns)
  /\ matched \in Nat
  /\ tokens \in Seq(Token)
  /\ \A w \in DOMAIN word_table : word_table[w].tag \in Tags

(* What has been scanned of the current lexeme, by control point *)
Scanning ==
  /\ at # "failed" => status = "ok"
  /\ at \in {"idle", "blank", "single"} => extent = 0
  /\ at \in {"number", "word"} => extent = Len(lexeme) /\ TextAt(mark, lexeme)
  /\ at = "match" =>
       /\ matched <= Len(Patterns[pattern])
       /\ extent = matched
       /\ \A j \in 1..matched : mark + j <= Len(text)
                                /\ Patterns[pattern][j] = text[mark + j]
  /\ at \in {"eat", "eat_next"} => TextAt(location.pos, Patterns[pattern])
  /\ at = "single_next" => peek_char \in Chars /\ TextAt(mark, <<peek_char>>)

(* Where a token is being scanned, it starts at location. *)
Located ==
  \/ at \in {"number", "word", "single", "single_next"}
  \/ at \in {"match", "mismatch"} /\ pattern > 1
  => location = start_location

(* The lexeme of each token is the text at the token's location, through   *)
(* every lookahead, roll-back and buffer change.                           *)
LexemesAreText ==
  \A i \in DOMAIN tokens : TextAt(tokens[i].location.pos, tokens[i].lexeme)

(* What NextToken has scanned at any place in it is the text behind the    *)
(* start of the lexeme, and so are the tokens returned.                    *)
LexInv == TokensTyped /\ Scanning /\ Located /\ LexemesAreText

(***************************************************************************)
(* The tokens tell the text.                                               *)
(***************************************************************************)
Char(p) == text[p + 1]

InComment(a, p) ==
  \E h \in a..p : Char(h) = "#" /\ \A k \in h..(p - 1) : Char(k) # NewLine

(* The text from offset a up to b holds blanks and comments only. *)
NoToken(a, b) == \A p \in a..(b - 1) : Char(p) \in Blanks \/ InComment(a, p)

(* The text at offset b is not inside a comment that started behind a. *)
CommentsEnd(a, b) == b > a /\ InComment(a, b - 1) => Char(b - 1) = NewLine

(* Between the tokens there is nothing but blanks and whole comments.  The *)
(* next token starts behind the lexeme, or at "limit", where the file has  *)
(* no more to show (a lookahead may have seen more of it).  There, and not *)
(* before, the end of the file is reported.                                *)
TokensTell(limit) ==
  /\ \A i \in DOMAIN tokens :
       LET t     == tokens[i]
           after == IF i = 1 THEN 0 ELSE tokens[i - 1].to
           from  == t.location.pos
           end   == from + Len(t.lexeme)
       IN  /\ after <= from
           /\ NoToken(after, from)
           /\ t.to = IF end < limit THEN end ELSE limit
           /\ t.tag # "kEOF" => t.to > from /\ CommentsEnd(after, from)
  /\ at = "idle" /\ AtEnd => pos = limit

TokensTellText == TokensTell(Limit)

(* What GetNumber accepts, said without its states *)
AllIn(l, chars) == \A i \in DOMAIN l : l[i] \in chars
Decimal(l)      == l # <<>> /\ l[1] # "0" /\ AllIn(l, Digits)
IntPart(l)      == l = <<"0">> \/ Decimal(l)
Unsigned(l)     == IF l # <<>> /\ l[1] \in Signs THEN Tail(l) ELSE l
Exponent(l) ==
  /\ l # <<>> /\ l[1] \in ExpChars
  /\ Unsigned(Tail(l)) # <<>>
  /\ AllIn(Unsigned(Tail(l)), Digits)
Fraction(l) ==
  \E d \in DOMAIN l :
    /\ l[d] = "."
    /\ AllIn(SubSeq(l, d + 1, Len(l)), Digits)
    /\ IntPart(SubSeq(l, 1, d - 1)) \/ (d = 1 /\ Len(l) > 1)
IsNumber(l) ==
  \/ IntPart(l)
  \/ Len(l) > 1 /\ l[1] = "0" /\ AllIn(l, OctalDigits)
  \/ Len(l) > 2 /\ l[1] = "0" /\ l[2] = "x" /\ AllIn(SubSeq(l, 3, Len(l)), HexDigits)
  \/ Len(l) > 2 /\ l[1] = "0" /\ l[2] = "b" /\ AllIn(SubSeq(l, 3, Len(l)), {"0", "1"})
  \/ Fraction(l)
  \/ \E e \in 2..Len(l) :
       /\ Exponent(SubSeq(l, e, Len(l)))
       /\ Decimal(SubSeq(l, 1, e - 1)) \/ Fraction(SubSeq(l, 1, e - 1))

(* Each token, when it is returned, is the longest of its kind that starts *)
(* where it starts, unless the file shows no more than it.  A digit starts *)
(* a number, unless the rest of what the file shows could still become one.*)
(* What the file shows ends at "limit".                                    *)
Longest(limit) ==
  at = "idle" /\ tokens # <<>> =>
    LET t       == tokens[Len(tokens)]
        from    == t.location.pos
        upTo(b) == SubSeq(text, from + 1, b)
    IN  CASE t.tag = "kEOF" -> TRUE
          [] t.tag = "kNumber" ->
               /\ IsNumber(t.lexeme)
               /\ \A b \in (t.to + 1)..limit : ~IsNumber(upTo(b))
          [] t.tag = "kPunctuator" ->
               \A p \in 2..Len(Patterns) :
                 LET b == from + Len(Patterns[p])
                 IN  t.to < b /\ b <= limit => upTo(b) # Patterns[p]
          [] OTHER ->
               /\ AllIn(t.lexeme, IdElems)
               /\ t.to < limit => Char(t.to) \notin IdElems
               /\ t.lexeme[1] \in Digits => AllIn(upTo(limit), Chars \ Blanks)

LongestMatch == Longest(Limit)

(* The token a call returned carries the location of its own first         *)
(* character, although the token object of a reserved word is shared by    *)
(* all its occurrences, and the table keeps one entry for all other words. *)
TokenLocated ==
  at = "idle" /\ tokens # <<>> =>
    LET t == tokens[Len(tokens)]
    IN  LocationOf(t.location.pos) =
          IF t.tag \in {"kIdentifier", "kKwDef", "kKwExtern"}
          THEN word_table[Key(t.lexeme)].location ELSE t.location

(* A file of less than a block is told truly, by longest matches and to its*)
(* very end in every pass, whatever Resets, failed reads and other files   *)
(* came before it.                                                         *)
SmallFilesTold ==
  Len(text) < Last /\ at # "reopened" =>
    LexemesAreText /\ TokenLocated /\ TokensTell(Len(text)) /\ Longest(Len(text))

(* What the parser sees: one pass is a TokenSource.  In particular the end *)
(* of the file, once reported, is reported at every further call.          *)
Source ==
  INSTANCE TokenSource WITH
    Tokens <- Tags \ {"kEOF"},
    End    <- "kEOF",
    read   <- [i \in DOMAIN tokens |-> tokens[i].tag],
    broken <- at = "failed"

(* Every step of NextToken returns a token as the source may, throws, or   *)
(* is unseen.                                                              *)
ImplementsTokenSource == Source!Spec

(* Every call returns or throws, and asking for tokens ends: at the end of *)
(* the file or with an exception.                                          *)
PassEnds == <>(at = "failed" \/ (at = "idle" /\ AtEnd))

(* After a Reset a file of less than a block yields the same tokens again. *)
ResetReplays ==
  Len(text) < Last =>
    \A i \in DOMAIN tokens : i \in DOMAIN previous => tokens[i] = previous[i]
=============================================================================
