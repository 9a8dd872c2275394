--------------------------- MODULE LexerResetProofs ---------------------------
(***************************************************************************)
(* Files of less than a block, in pass after pass.  A Reset of such a file *)
(* fails to rewind its stream and forgets that its end was read, so that   *)
(* the invariants of one pass do not hold of the second.  But nothing is   *)
(* ever read again: the lexer behaves as if the stream, the stamps and     *)
(* is_end were as the constructor left them.                               *)
(***************************************************************************)
EXTENDS LexerTextProofs, WellFoundedInduction

Small == Len(text) < Last

(* The same lexer, with the stream, the stamps and is_end of a small file  *)
(* that was opened and read once                                           *)
Once ==
  INSTANCE LexerTextProofs WITH
    stream         <- [text |-> text, pos |-> Len(text), eof |-> TRUE, fail |-> TRUE],
    is_end         <- TRUE,
    buff_timestamp <- [i \in 0..1 |-> IF i = 0 THEN 1 ELSE 0]

(* What Once assumes of the constants, this module assumes. *)
LEMMA OnceAssumptions ==
  /\ Once!Patterns = Patterns /\ Once!IdElems = IdElems
  /\ Once!PunctChars = PunctChars
  BY DEF Once!Patterns, Patterns, Once!Comment, Comment, Once!ThreeChars, ThreeChars,
         Once!TwoChars, TwoChars, Once!IdElems, IdElems, Once!Digits, Digits,
         Once!OctalDigits, OctalDigits, Once!Letters, Letters, Once!PunctChars, PunctChars

(* Where both lexers are, and what they see, is the same.                  *)
LEMMA OnceSees ==
  /\ Once!text = text /\ Once!pos = pos /\ Once!mark = mark /\ Once!Last = Last
  /\ Once!Peek = Peek /\ Once!Shown = Shown /\ Once!Begin = Begin
  BY DEF Once!text, Once!pos, pos, Once!mark, mark, Once!Last, Last, Once!Peek, Peek,
         Once!Shown, Shown, Once!Begin, Begin

(* ScanChar never leaves buffer 0.                                         *)
LEMMA OnceScanChar ==
  ASSUME TypeOK, SmallFileInBuffer, Small, ScanChar
  PROVE  Once!ScanChar /\ UNCHANGED <<text, forward_buffer_idx, start_buffer_idx>>
  <1>1. /\ status = "ok" /\ Peek # kEOF
        /\ forward = pos /\ forward_buffer_idx = 0 /\ pos <= Len(text) /\ Holds(0, 0)
    BY DEF ScanChar, SmallFileInBuffer, Small
  <1>2. pos \in Nat /\ Len(text) \in Nat /\ Last \in Nat /\ kBufferSize = Last + 1
    BY TextLength, LastPositive DEF TypeOK, Stream, Location, text, pos
  <1>3. forward + 1 <= Len(text) /\ Len(text) < Last
    BY <1>1, <1>2 DEF Holds, Peek, Small
  <1>4. ASSUME StepForward
        PROVE  /\ forward' = forward + 1
               /\ UNCHANGED <<forward_buffer_idx, blocks, status>>
    BY <1>1, <1>2, <1>3, <1>4 DEF StepForward
  <1>5. UNCHANGED blocks
    BY <1>4 DEF ScanChar
  <1>6. text' = text /\ UNCHANGED input_buffer
    BY <1>5 DEF blocks, text
  <1>7. UNCHANGED Once!blocks
    BY <1>6 DEF Once!blocks
  <1>8. StepForward => Once!StepForward
    BY <1>1, <1>2, <1>3, <1>4, <1>7, OnceSees DEF Once!StepForward
  <1>9. Once!AdvanceLocation(forward_location, Peek)
          = AdvanceLocation(forward_location, Peek)
    BY OnceSees DEF Once!AdvanceLocation, AdvanceLocation, Once!IsNewLine, IsNewLine
  <1>10. UNCHANGED <<forward_buffer_idx, start_buffer_idx>>
    BY <1>4 DEF ScanChar
  <1> QED
    BY <1>6, <1>7, <1>8, <1>9, <1>10, OnceSees DEF ScanChar, Once!ScanChar

(* The other operations of a pass are the same. *)
LEMMA OnceOperations ==
  /\ NextLexeme => Once!NextLexeme
  /\ ResetForward => Once!ResetForward
  /\ UNCHANGED vars => UNCHANGED Once!vars
  <1>1. UNCHANGED blocks => UNCHANGED Once!blocks
    BY DEF blocks, Once!blocks, text
  <1>2. NextLexeme => Once!NextLexeme
    BY <1>1 DEF NextLexeme, Once!NextLexeme
  <1>3. ResetForward => Once!ResetForward
    BY <1>1 DEF ResetForward, Once!ResetForward
  <1>4. UNCHANGED vars => UNCHANGED Once!vars
    BY <1>1 DEF vars, Once!vars, cursor, Once!cursor
  <1> QED
    BY <1>2, <1>3, <1>4

(* A step of NextToken is one of the other lexer's.                        *)
LEMMA OnceStep ==
  ASSUME TypeOK, SmallFileInBuffer, Small, LexNext
  PROVE  Once!LexNext /\ text' = text
  <1> USE OnceSees, OnceScanChar, OnceOperations, OnceAssumptions
  <1> USE DEF Once!tokenVars, tokenVars, Once!fileVars, fileVars, Once!Goto, Goto,
              Once!Scanned, Scanned, Once!LookFor, LookFor, Once!Deliver, Deliver,
              Once!Fail, Fail
  <1>1. /\ Call => Once!Call
        /\ SkipBlankNext => Once!SkipBlankNext
        /\ Matched => Once!Matched
        /\ Mismatched => Once!Mismatched
        /\ Match => Once!Match
        /\ SkipComment => Once!SkipComment
        /\ SkipCommentNext => Once!SkipCommentNext
    BY DEF Call, Once!Call, SkipBlankNext, Once!SkipBlankNext, Matched, Once!Matched,
           Mismatched, Once!Mismatched, Match, Once!Match, SkipComment, Once!SkipComment,
           SkipCommentNext, Once!SkipCommentNext
  <1>2. SkipBlank => Once!SkipBlank
    BY DEF SkipBlank, Once!SkipBlank, Blanks, Once!Blanks
  <1>3. /\ NumberFails => Once!NumberFails
        /\ NumberEnds => Once!NumberEnds
    BY DEF NumberFails, Once!NumberFails, NumberEnds, Once!NumberEnds,
           EndStates, Once!EndStates
  <1>4. /\ WordScan => Once!WordScan
        /\ WordEnds => Once!WordEnds
        /\ NoWord => Once!NoWord
    BY DEF WordScan, Once!WordScan, WordEnds, Once!WordEnds, NoWord, Once!NoWord,
           InsertWord, Once!InsertWord, Key, Once!Key
  <1>5. /\ EatPunct => Once!EatPunct
        /\ EatPunctNext => Once!EatPunctNext
        /\ Single => Once!Single
        /\ SingleNext => Once!SingleNext
        /\ NothingElse => Once!NothingElse
    BY DEF EatPunct, Once!EatPunct, EatPunctNext, Once!EatPunctNext, Single, Once!Single,
           SingleNext, Once!SingleNext, NothingElse, Once!NothingElse
  <1>6. NumberMove => Once!NumberMove
    <2>1. Once!Moves = Moves
      BY DEF Once!Moves, Moves, Once!Eat, Eat, Once!Go, Go, Once!Otherwise, Otherwise,
             Once!Digits, Digits, Once!OctalDigits, OctalDigits, Once!HexDigits,
             HexDigits, Once!Signs, Signs, Once!ExpChars, ExpChars
    <2>2. \A s, c : Once!MoveOn(s, c) = MoveOn(s, c)
      BY <2>1 DEF Once!MoveOn, MoveOn
    <2> QED
      BY <2>1, <2>2 DEF NumberMove, Once!NumberMove
  <1>7. text' = text
    <2>1. ScanChar \/ NextLexeme \/ ResetForward \/ UNCHANGED vars
      BY LexNextScans DEF Scan
    <2> QED
      BY <2>1 DEF NextLexeme, ResetForward, vars, blocks, text
  <1> QED
    BY <1>1, <1>2, <1>3, <1>4, <1>5, <1>6, <1>7
       DEF LexNext, Once!LexNext, NextTokenStep, Once!NextTokenStep

-----------------------------------------------------------------------------
(***************************************************************************)
(* What is proved of one pass holds of every pass over a small file.       *)
(***************************************************************************)
PassInv ==
  /\ forward_buffer_idx = 0 /\ start_buffer_idx = 0
  /\ Once!TypeOK /\ Once!RollbackInReach /\ Once!ScanInv /\ Once!LocationInv
  /\ Once!LexInv /\ Once!EndInv /\ Once!LocatedInv /\ Once!TellInv
  /\ Once!LongestInv

SmallInv == Small /\ at # "reopened" => PassInv

(* A step of NextToken keeps it, as in one pass. *)
LEMMA PassStep ==
  ASSUME TypeOK, SmallFileInBuffer, Small, PassInv, [LexNext]_allVars
  PROVE  PassInv'
  <1> USE DEF PassInv
  <1>1. [Once!LexNext]_(Once!allVars)
    <2>1. UNCHANGED allVars => UNCHANGED Once!allVars
      BY OnceOperations DEF allVars, Once!allVars, fileVars, Once!fileVars, lexVars,
                            Once!lexVars, tokenVars, Once!tokenVars
    <2> QED
      BY <2>1, OnceStep
  <1> USE BufferAssumption, TextAssumption, CellAssumption, MemoryAssumption,
          PatternAssumption, EndAssumption, ClassAssumption, OnceAssumptions
  <1>2. [Once!Scan]_(Once!vars)
    BY <1>1, Once!LexNextScans
  <1>3. Once!TypeOK' /\ Once!RollbackInReach'
    BY <1>2, Once!ReachInvariant DEF Once!Next
  <1>4. Once!ScanInv'
    BY <1>2, Once!ScanStep
  <1>5. Once!LocationInv'
    BY <1>2, <1>3, <1>4, Once!LocationStep
  <1>6. Once!LexInv'
    BY <1>1, <1>3, <1>4, Once!LexInvStep
  <1>7. Once!EndInv'
    BY <1>1, Once!EndInvStep
  <1>8. Once!LocatedInv'
    BY <1>1, <1>3, <1>4, Once!LocatedStep DEF Once!LocationInv, Once!LocationExact
  <1>9. Once!TellInv'
    BY <1>1, <1>3, <1>4, Once!TellStep
  <1>10. Once!LongestInv'
    BY <1>1, <1>3, <1>4, Once!LongestStep
  <1>11. UNCHANGED <<forward_buffer_idx, start_buffer_idx>>
    <2>1. [Scan]_vars
      BY LexNextScans
    <2> QED
      BY <2>1, OnceScanChar DEF Scan, NextLexeme, ResetForward, vars, cursor
  <1> QED
    BY <1>3, <1>4, <1>5, <1>6, <1>7, <1>8, <1>9, <1>10, <1>11

(* The constructor and every Reset make a lexer of which it holds. *)
LEMMA PassStarts ==
  ASSUME TypeOK, RollbackInReach, SmallFileInBuffer, TokensTyped, Small, Fresh
  PROVE  PassInv
  <1> USE BufferAssumption, TextAssumption, CellAssumption, MemoryAssumption,
          PatternAssumption, EndAssumption, ClassAssumption, OnceAssumptions
  <1>1. /\ forward_buffer_idx = 0 /\ start_buffer_idx = 0
        /\ forward = 0 /\ begin = 0 /\ extent = 0 /\ pos = 0 /\ mark = 0
        /\ Holds(0, 0) /\ status = "ok" /\ Len(text) < Last
    BY DEF Fresh, Small, SmallFileInBuffer, pos, mark, Begin
  <1>2. text \in Texts /\ Len(text) \in Nat /\ Last \in Nat /\ Last >= 1
    BY TextLength, LastPositive DEF TypeOK, Stream, text
  <1>3. Once!TypeOK
    <2>1. Once!Stream = Stream /\ Once!Buffer = Buffer /\ Once!Location = Location
      BY OnceSees DEF Once!Stream, Stream, Once!Buffer, Buffer, Once!Location, Location,
                      Once!Cells, Cells
    <2>2. [text |-> text, pos |-> Len(text), eof |-> TRUE, fail |-> TRUE] \in Stream
      BY <1>2 DEF Stream
    <2>3. [i \in 0..1 |-> IF i = 0 THEN 1 ELSE 0] \in [0..1 -> 0..2]
      OBVIOUS
    <2> QED
      BY <1>2, <2>1, <2>2, <2>3, OnceSees DEF TypeOK, Once!TypeOK
  <1>4. Once!RollbackInReach
    BY OnceSees DEF RollbackInReach, Once!RollbackInReach
  <1>5. Once!ScanInv
    <2>1. Once!StartBase = 0 /\ ~Once!Ahead
      BY <1>1, OnceSees DEF Once!StartBase, Once!Ahead, Once!IsNextStamp, Once!NextStamp
    <2>2. Once!Holds(0, 0)
      BY <1>1, OnceSees DEF Holds, Once!Holds
    <2>3. Once!PositionsAgree
      BY <1>1, <1>2, <2>1, OnceSees DEF Once!PositionsAgree
    <2>4. Once!BlocksAgree
      BY <1>1, <1>2, <2>1, <2>2, OnceSees DEF Once!BlocksAgree
    <2>5. Once!NotOnSentinel
      BY <1>1 DEF Once!NotOnSentinel
    <2> QED
      BY <1>1, <2>3, <2>4, <2>5, BufferAssumption DEF Once!ScanInv
  <1>6. Once!Fresh
    <2>1. Once!KeyWords = KeyWords
      BY OnceSees DEF Once!KeyWords, KeyWords, Once!Def, Def, Once!Extern, Extern
    <2> QED
      BY <2>1, OnceSees DEF Fresh, Once!Fresh
  <1>7. Once!TokensTyped
    <2>1. Once!Token = Token /\ Once!Tags = Tags /\ Once!Location = Location
      BY DEF Once!Token, Token, Once!Tags, Tags, Once!Location, Location
    <2> QED
      BY <2>1 DEF TokensTyped, Once!TokensTyped
  <1>8. Once!LocationInv
    BY <1>3, <1>6, Once!LocationAtBegin DEF Once!Fresh
  <1>9. Once!LocationExact
    BY <1>8 DEF Once!LocationInv, Once!LocationExact
  <1> QED
    BY <1>1, <1>3, <1>4, <1>5, <1>6, <1>7, <1>8, <1>9, Once!FreshLex, Once!FreshEnd,
       Once!FreshLocated, Once!FreshTell, Once!FreshLongest
       DEF PassInv

(* A file that cannot be opened leaves the tokens of the one before. *)
LEMMA PassFails ==
  ASSUME PassInv, status' = "threw", at' = "failed", UNCHANGED <<cursor, text>>,
         UNCHANGED <<input_buffer, state, lexeme, peek_char, pattern, matched, tokenVars>>
  PROVE  PassInv'
  <1> USE DEF PassInv
  <1>1. Once!TypeOK' /\ Once!RollbackInReach' /\ Once!ScanInv' /\ Once!LocationInv'
    BY DEF Once!TypeOK, Once!RollbackInReach, Once!ScanInv, Once!LocationInv, cursor,
           Once!text
  <1>2. Once!LexInv' /\ Once!EndInv'
    BY DEF Once!LexInv, Once!TokensTyped, Once!Scanning, Once!Located,
           Once!LexemesAreText, Once!TextAt, Once!text, Once!EndInv, Once!WordTags,
           Once!AtEndOfFile, tokenVars
  <1>3. Once!LocatedInv'
    BY DEF Once!LocatedInv, Once!ExactLocation, Once!ExactTokens, Once!text, tokenVars,
           Once!LocationIn, Once!Breaks, Once!LineStart, Once!StartBehind
  <1>4. Once!TellInv'
    <2>1. Once!Limit' = Once!Limit
      BY DEF Once!Limit, Once!ReadAhead, Once!text, Once!pos, Once!Last, cursor
    <2>2. Once!mark' = Once!mark /\ UNCHANGED tokens
      BY DEF Once!mark, cursor, tokenVars
    <2>3. \A t, after : Once!TokenTold(t, after)' <=> Once!TokenTold(t, after)
      BY <2>1 DEF Once!TokenTold, Once!Cut, Once!text
    <2>4. Once!AllTold'
      BY <2>2, <2>3 DEF Once!TellInv, Once!AllTold
    <2> QED
      BY <2>4 DEF Once!TellInv, Once!NothingBetween, Once!SeenAtMark, Once!Eating
  <1>5. Once!LongestInv'
    <2> USE BufferAssumption, TextAssumption, CellAssumption, MemoryAssumption,
            PatternAssumption, EndAssumption, ClassAssumption, OnceAssumptions
    <2> QED
      BY Once!NothingSought
  <1>6. forward_buffer_idx' = 0 /\ start_buffer_idx' = 0
    BY DEF cursor
  <1> QED
    BY <1>1, <1>2, <1>3, <1>4, <1>5, <1>6

(* A pass stays in its file. *)
LEMMA ScanText == ASSUME TypeOK, SmallFileInBuffer, [Scan]_vars PROVE text' = text
  <1>1. CASE ScanChar
    <2>1. CASE UNCHANGED blocks
      BY <2>1 DEF blocks, text
    <2>2. CASE LoadBuffer(1 - forward_buffer_idx, start_buffer_idx, input_buffer, stream)
      BY <2>2, LoadTypes DEF TypeOK, text
    <2> QED
      BY <1>1, <2>1, <2>2 DEF ScanChar, StepForward
  <1> QED
    BY <1>1 DEF Scan, NextLexeme, ResetForward, vars, blocks, text

(* Whatever is done to the lexer keeps SmallInv.                           *)
LEMMA SmallStep ==
  ASSUME TypeOK, SmallFileInBuffer, SmallInv, [LexNextAll]_allVars,
         (Small /\ Fresh => PassInv)'
  PROVE  SmallInv'
  <1> USE DEF SmallInv
  <1>1. CASE [LexNext]_allVars
    <2>1. text' = text
      BY <1>1, LexNextScans, ScanText
    <2>2. at = "reopened" => UNCHANGED allVars
      BY <1>1 DEF LexNext, NextTokenStep, Call, SkipBlank, SkipBlankNext, Match, Matched,
                  Mismatched, SkipComment, SkipCommentNext, NumberMove, NumberFails,
                  NumberEnds, WordScan, WordEnds, NoWord, EatPunct, EatPunctNext, Single,
                  SingleNext, NothingElse
    <2>3. at = "reopened" => at' = "reopened"
      BY <2>2 DEF allVars, lexVars
    <2> QED
      BY <1>1, <2>1, <2>3, PassStep DEF Small
  <1>2. CASE LexReset \/ Reopened
    <2>1. Fresh'
      BY <1>2 DEF LexReset, Reopened, Clear, Reset, Rewind, Fresh
    <2> QED
      BY <2>1
  <1>3. CASE LexResetFile
    <2>1. CASE status' = "ok"
      BY <1>3, <2>1 DEF LexResetFile, Goto
    <2>2. CASE status' # "ok"
      <3>1. /\ status' = "threw" /\ at' = "failed" /\ at = "idle"
            /\ UNCHANGED <<cursor, text, input_buffer, state, lexeme, peek_char, pattern,
                           matched, tokenVars>>
        BY <1>3, <2>2
           DEF LexResetFile, Goto, CloseAndOpenOther, Rewind, text, TypeOK, Stream
      <3> QED
        BY <3>1, PassFails DEF Small
    <2> QED
      BY <2>1, <2>2
  <1> QED
    BY <1>1, <1>2, <1>3 DEF LexNextAll

(* Lines and columns are the same. *)
LEMMA OnceLocation ==
  ASSUME NEW t, NEW p PROVE Once!LocationIn(t, p) = LocationIn(t, p)
  <1>1. \A b : Once!Cardinality(b) = Cardinality(b)
    BY DEF Once!Cardinality, Cardinality
  <1>2. Once!Breaks(t, p) = Breaks(t, p)
    BY DEF Once!Breaks, Breaks
  <1>3. ASSUME NEW b PROVE Once!StartBehind(b) = StartBehind(b)
    BY DEF Once!StartBehind, StartBehind
  <1>4. Once!LineStart(t, p) = LineStart(t, p)
    <2>1. Once!StartBehind(Breaks(t, p)) = StartBehind(Breaks(t, p))
      BY <1>3
    <2> QED
      BY <1>2, <2>1 DEF Once!LineStart, LineStart
  <1> QED
    BY <1>1, <1>2, <1>4 DEF Once!LocationIn, LocationIn

(* So is what a number is. *)
LEMMA OnceNumber == ASSUME NEW l PROVE Once!IsNumber(l) = IsNumber(l)
  <1>1. \A t, c : Once!AllIn(t, c) = AllIn(t, c)
    BY DEF Once!AllIn, AllIn
  <1>2. \A t : Once!Decimal(t) = Decimal(t) /\ Once!IntPart(t) = IntPart(t)
    BY <1>1 DEF Once!Decimal, Decimal, Once!IntPart, IntPart, Once!Digits, Digits,
                Once!OctalDigits, OctalDigits
  <1>3. \A t : Once!Exponent(t) = Exponent(t)
    BY <1>1 DEF Once!Exponent, Exponent, Once!Unsigned, Unsigned, Once!Signs, Signs,
                Once!ExpChars, ExpChars, Once!Digits, Digits, Once!OctalDigits, OctalDigits
  <1>4. \A t : Once!Fraction(t) = Fraction(t)
    BY <1>1, <1>2 DEF Once!Fraction, Fraction, Once!Digits, Digits, Once!OctalDigits,
                      OctalDigits
  <1> QED
    BY <1>1, <1>2, <1>3, <1>4
       DEF Once!IsNumber, IsNumber, Once!OctalDigits, OctalDigits, Once!HexDigits,
           HexDigits, Once!Digits, Digits

(* The property, from the invariant                                        *)
LEMMA SmallTells ==
  ASSUME TypeOK, SmallInv PROVE SmallFilesTold
  <1> SUFFICES ASSUME Small, at # "reopened", PassInv
               PROVE  LexemesAreText /\ TokenLocated /\ TokensTell(Len(text))
                      /\ Longest(Len(text))
    BY DEF SmallInv, SmallFilesTold, Small
  <1> USE BufferAssumption, TextAssumption, CellAssumption, MemoryAssumption,
          PatternAssumption, EndAssumption, ClassAssumption, OnceAssumptions
  <1>1. LexemesAreText
    BY OnceSees DEF PassInv, Once!LexInv, Once!LexemesAreText, LexemesAreText,
                    Once!TextAt, TextAt
  <1>2. TokenLocated
    <2>1. Once!TokenLocated
      BY Once!TokenLocatedIs DEF PassInv, Once!LocatedInv
    <2>2. \A p : Once!LocationOf(p) = LocationOf(p)
      BY OnceLocation, LocationIs, Once!LocationIs, OnceSees
    <2> QED
      BY <2>1, <2>2 DEF Once!TokenLocated, TokenLocated, Once!Key, Key
  <1>3. Once!Limit = Len(text)
    BY OnceSees DEF PassInv, Once!Limit, Once!ReadAhead, Once!IsNextStamp, Once!NextStamp
  <1>4. TokensTell(Len(text))
    <2>1. Once!TokensTell(Once!Limit)
      BY Once!TellImplies DEF PassInv, Once!TokensTellText
    <2>3. \A a, b : /\ Once!NoToken(a, b) = NoToken(a, b)
                    /\ Once!CommentsEnd(a, b) = CommentsEnd(a, b)
      BY OnceSees DEF Once!NoToken, NoToken, Once!CommentsEnd, CommentsEnd,
                      Once!InComment, InComment, Once!Char, Char, Once!Blanks, Blanks
    <2> QED
      BY <1>3, <2>1, <2>3, OnceSees DEF Once!TokensTell, TokensTell, Once!AtEnd, AtEnd
  <1>5. Longest(Len(text))
    <2>1. Once!Longest(Once!Limit)
      BY DEF PassInv, Once!LongestInv, Once!LongestMatch
    <2>2. \A p : Once!Char(p) = Char(p)
      BY OnceSees DEF Once!Char, Char
    <2>3. \A l, c : Once!AllIn(l, c) = AllIn(l, c)
      BY DEF Once!AllIn, AllIn
    <2>4. Once!Blanks = Blanks /\ Once!Digits = Digits
      BY DEF Once!Blanks, Blanks, Once!Digits, Digits, Once!OctalDigits, OctalDigits
    <2> QED
      BY <1>3, <2>1, <2>2, <2>3, <2>4, OnceNumber, OnceSees, OnceAssumptions
         DEF Once!Longest, Longest
  <1> QED
    BY <1>1, <1>2, <1>4, <1>5

-----------------------------------------------------------------------------
(***************************************************************************)
(* What is in a small file: tokens, blanks and comments.                   *)
(***************************************************************************)
(* The end of the file is a token without characters, and no word is one.  *)
EndIsEmpty ==
  /\ WordTags
  /\ \A i \in DOMAIN tokens : tokens[i].tag = "kEOF" => tokens[i].lexeme = <<>>

(* A step of NextToken returns a token, with which it ends, or none.       *)
LEMMA ReturnEnds ==
  ASSUME NextTokenStep, WordTags
  PROVE  /\ at # "idle"
         /\ \/ at' # "idle" /\ tokens' = tokens
            \/ \E t : /\ at' = "idle" /\ tokens' = Append(tokens, t)
                      /\ t.tag = "kEOF" => t.lexeme = <<>>
  <1>1. at # "idle"
    BY DEF NextTokenStep, SkipBlank, SkipBlankNext, Match, Matched, Mismatched,
           SkipComment, SkipCommentNext, NumberMove, NumberFails, NumberEnds,
           WordScan, WordEnds, NoWord, EatPunct, EatPunctNext, Single, SingleNext,
           NothingElse
  <1>2. ASSUME NEW tag, NEW word, Deliver(tag, word), tag = "kEOF" => word = <<>>
        PROVE  \E t : /\ at' = "idle" /\ tokens' = Append(tokens, t)
                      /\ t.tag = "kEOF" => t.lexeme = <<>>
    BY <1>2 DEF Deliver
  <1>3. CASE SkipBlank \/ SkipBlankNext \/ Match \/ Matched \/ Mismatched
    BY <1>3 DEF SkipBlank, SkipBlankNext, Match, Matched, Mismatched, LookFor, Goto,
                tokenVars
  <1>4. CASE SkipComment \/ SkipCommentNext \/ NumberMove \/ NumberFails
    BY <1>4 DEF SkipComment, SkipCommentNext, NumberMove, NumberFails, Goto, tokenVars
  <1>5. CASE NumberEnds
    BY <1>2, <1>5 DEF NumberEnds
  <1>6. CASE WordScan \/ NoWord \/ EatPunct \/ Single
    BY <1>6 DEF WordScan, NoWord, EatPunct, Single, LookFor, Goto, tokenVars
  <1>7. CASE WordEnds
    <2>1. word_table'[Key(lexeme)].tag # "kEOF"
      BY <1>7 DEF WordEnds, InsertWord, WordTags, Key
    <2> QED
      BY <1>2, <1>7, <2>1 DEF WordEnds
  <1>8. CASE EatPunctNext \/ SingleNext
    BY <1>2, <1>8 DEF EatPunctNext, SingleNext
  <1>9. CASE NothingElse
    BY <1>2, <1>9 DEF NothingElse, Fail, tokenVars
  <1> QED
    BY <1>1, <1>3, <1>4, <1>5, <1>6, <1>7, <1>8, <1>9 DEF NextTokenStep

(* Whatever is done to the lexer keeps that.                              *)
LEMMA EndEmptyStep ==
  ASSUME EndIsEmpty, tokens \in Seq(Token), [LexNextAll]_allVars
  PROVE  EndIsEmpty'
  <1> USE DEF EndIsEmpty
  <1>1. CASE [LexNext]_allVars
    <2>1. WordTags'
      BY <1>1, WordTagsStep
    <2>2. CASE tokens' = tokens
      BY <2>1, <2>2
    <2>3. ASSUME NEW t, tokens' = Append(tokens, t), t.tag = "kEOF" => t.lexeme = <<>>
          PROVE  EndIsEmpty'
      BY <2>1, <2>3
    <2>4. CASE Call \/ UNCHANGED allVars
      BY <2>2, <2>4 DEF Call, allVars, lexVars, tokenVars
    <2>5. CASE NextTokenStep /\ UNCHANGED previous
      <3>1. NextTokenStep /\ WordTags
        BY <2>5
      <3>2. \/ at' # "idle" /\ tokens' = tokens
            \/ \E t : /\ at' = "idle" /\ tokens' = Append(tokens, t)
                      /\ t.tag = "kEOF" => t.lexeme = <<>>
        BY <3>1, ReturnEnds, Zenon
      <3>3. CASE tokens' # tokens
        <4>1. PICK t : tokens' = Append(tokens, t) /\ (t.tag = "kEOF" => t.lexeme = <<>>)
          BY <3>2, <3>3, Zenon
        <4> QED
          BY <2>3, <4>1
      <3> QED
        BY <2>2, <3>3
    <2> QED
      BY <1>1, <2>4, <2>5 DEF LexNext
  <1>2. CASE LexReset \/ Reopened
    BY <1>2 DEF LexReset, Reopened, Clear, WordTags, KeyWords
  <1>3. CASE LexResetFile
    BY <1>3 DEF LexResetFile, tokenVars, WordTags
  <1> QED
    BY <1>1, <1>2, <1>3 DEF LexNextAll

(* There is a first one of any indices. *)
LEMMA LeastIndex ==
  ASSUME NEW T \in SUBSET Nat, T # {}
  PROVE  \E i \in T : \A j \in T : i <= j
  <1> DEFINE R == OpToRel(<, Nat)
  <1>1. IsWellFoundedOn(R, Nat)
    BY NatLessThanWellFounded
  <1>2. \A x, y \in Nat : x < y => <<x, y>> \in R
    BY DEF OpToRel
  <1> HIDE DEF R
  <1>3. PICK x \in T : \A y \in T : <<y, x>> \notin R
    BY <1>1, WFMin
  <1>4. \A y \in T : x <= y
    <2>1. x \in Nat /\ \A y \in T : y \in Nat
      OBVIOUS
    <2>2. \A y \in T : ~(y < x)
      BY <1>2, <1>3, <2>1
    <2> QED
      BY <2>1, <2>2
  <1> QED
    BY <1>4

(* Of a small file, when its end is reported, every character is one of a  *)
(* token, a blank, or one of a comment.                                    *)
LEMMA SmallCovered ==
  ASSUME TypeOK, TokensTyped, SmallInv, Small, at = "idle", AtEnd,
         NEW p \in 0..(Len(text) - 1)
  PROVE  \/ Char(p) \in Blanks \/ InComment(0, p)
         \/ \E i \in DOMAIN tokens : p \in tokens[i].location.pos..(tokens[i].to - 1)
  <1> DEFINE Behind(i) == IF i = 1 THEN 0 ELSE tokens[i - 1].to
  <1>1. /\ Len(tokens) \in Nat /\ DOMAIN tokens = 1..Len(tokens) /\ tokens # <<>>
        /\ \A i \in 1..Len(tokens) :
             /\ tokens[i].to \in Nat /\ tokens[i].location.pos \in Nat
             /\ Behind(i) \in Nat
    <2>1. /\ Len(tokens) \in Nat /\ DOMAIN tokens = 1..Len(tokens) /\ tokens # <<>>
          /\ \A i \in 1..Len(tokens) : tokens[i] \in Token
      BY DEF TokensTyped, AtEnd
    <2>2. \A i \in 1..Len(tokens) :
            tokens[i].to \in Nat /\ tokens[i].location.pos \in Nat
      BY <2>1 DEF Token, Location
    <2>3. \A i \in 1..Len(tokens) : i = 1 \/ i - 1 \in 1..Len(tokens)
      BY <2>1
    <2> QED
      BY <2>1, <2>2, <2>3
  <1>2. Len(text) \in Nat
    BY TextLength DEF TypeOK, Stream, text
  <1>3. TokensTell(Len(text))
    BY SmallTells DEF SmallFilesTold, Small
  <1>4. pos = Len(text)
    BY <1>3 DEF TokensTell
  <1>5. ASSUME NEW a \in Nat, a <= p, Char(p) \in Blanks \/ InComment(a, p)
        PROVE  Char(p) \in Blanks \/ InComment(0, p)
    BY <1>5 DEF InComment
  <1>6. CASE \E i \in 1..Len(tokens) : p < tokens[i].to
    <2> DEFINE T == {i \in 1..Len(tokens) : p < tokens[i].to}
    <2>1. PICK i \in T : \A j \in T : i <= j
      <3>1. T \in SUBSET Nat
        BY <1>1
      <3>2. T # {}
        BY <1>6
      <3> HIDE DEF T
      <3> QED
        BY <3>1, <3>2, LeastIndex
    <2>2. i \in 1..Len(tokens) /\ p < tokens[i].to
      OBVIOUS
    <2>3. Behind(i) <= p
      <3>1. CASE i = 1
        BY <3>1
      <3>2. CASE i # 1
        <4>1. i - 1 \in 1..Len(tokens) /\ ~(i <= i - 1)
          BY <1>1, <2>2, <3>2
        <4>2. i - 1 \notin T
          BY <2>1, <4>1
        <4>3. tokens[i - 1].to \in Nat /\ ~(p < tokens[i - 1].to)
          BY <1>1, <4>1, <4>2
        <4> QED
          BY <1>2, <3>2, <4>3
      <3> QED
        BY <3>1, <3>2
    <2>4. NoToken(Behind(i), tokens[i].location.pos)
      BY <1>1, <1>3, <2>2 DEF TokensTell
    <2>5. CASE p < tokens[i].location.pos
      <3>1. p \in Behind(i)..(tokens[i].location.pos - 1)
        <4>1. p \in Nat /\ Behind(i) \in Nat /\ tokens[i].location.pos \in Nat
          BY <1>1, <1>2, <2>2
        <4> HIDE DEF Behind
        <4> QED
          BY <2>3, <2>5, <4>1
      <3>2. Char(p) \in Blanks \/ InComment(Behind(i), p)
        BY <2>4, <3>1 DEF NoToken
      <3> HIDE DEF Behind
      <3> QED
        BY <1>1, <1>5, <2>2, <2>3, <3>2
    <2>6. CASE ~(p < tokens[i].location.pos)
      <3>1. /\ p \in Nat /\ tokens[i].to \in Nat /\ tokens[i].location.pos \in Nat
            /\ i \in DOMAIN tokens
        BY <1>1, <1>2, <2>2
      <3>2. p \in tokens[i].location.pos..(tokens[i].to - 1)
        BY <2>2, <2>6, <3>1
      <3> QED
        BY <3>1, <3>2, Zenon
    <2> QED
      BY <2>5, <2>6
  <1>7. CASE \A i \in 1..Len(tokens) : ~(p < tokens[i].to)
    <2>1. LastTo \in Nat /\ LastTo <= p
      BY <1>1, <1>7 DEF LastTo
    <2>2. PassInv /\ Once!TellInv /\ Once!NothingBetween
      BY DEF SmallInv, PassInv, Once!TellInv
    <2>3. Once!Gap = mark /\ Once!LastTo = LastTo
      BY OnceSees DEF Once!Gap, Once!InToken, Once!LastTo, LastTo
    <2>4. Once!NoTokenOf(text, LastTo, mark)
      BY <2>2, <2>3, OnceSees DEF Once!NothingBetween
    <2>5. mark = Len(text)
      <3>1. extent = 0
        BY <2>2 DEF PassInv, Once!LexInv, Once!Scanning
      <3>2. Once!PositionsAgree
        BY <2>2 DEF PassInv, Once!ScanInv, Once!LexInv, Once!Scanning
      <3>3. pos = mark + extent
        BY <3>2, OnceSees DEF Once!PositionsAgree
      <3> QED
        BY <1>4, <3>1, <3>3, NumberTypes
    <2>6. Char(p) \in Blanks \/ InComment(LastTo, p)
      <3>1. p \in LastTo..(mark - 1)
        BY <1>2, <2>1, <2>5
      <3>2. text[p + 1] \in Once!Blanks \/ Once!InCommentOf(text, LastTo, p)
        BY <2>4, <3>1 DEF Once!NoTokenOf
      <3> QED
        BY <3>2 DEF Once!InCommentOf, Char, InComment, Blanks, Once!Blanks
    <2> QED
      BY <1>5, <2>1, <2>6
  <1> QED
    BY <1>6, <1>7

-----------------------------------------------------------------------------
(* Any calls, Resets and other files, in any order                         *)
PassesSpec == LexInit /\ [][LexNextAll]_allVars

(* The lexer keeps its types in every pass.                                *)
THEOREM PassesKeepTypes == PassesSpec => []LexTypesInv
  BY LexTypesInit, LexTypesStep, PTL DEF PassesSpec

(* The text of a small file stays in its buffer.                           *)
LEMMA PassesInBuffer == PassesSpec => []SmallFileInBuffer
  <1>1. LexInit => SmallFileInBuffer
    BY SmallFileInit DEF LexInit
  <1>2. LexTypesInv /\ SmallFileInBuffer /\ [LexNextAll]_allVars => SmallFileInBuffer'
    BY LexNextAllFile, SmallFileStep DEF LexTypesInv
  <1> QED
    BY <1>1, <1>2, PassesKeepTypes, PTL DEF PassesSpec

(* SmallInv holds in every pass. *)
LEMMA PassesSmall == PassesSpec => []SmallInv
  <1>1. LexTypesInv /\ SmallFileInBuffer => (Small /\ Fresh => PassInv)
    BY PassStarts DEF LexTypesInv
  <1>2. LexInit => Fresh
    BY FreshInit
  <1>3. Fresh /\ (Small /\ Fresh => PassInv) => SmallInv
    BY DEF SmallInv
  <1>4. LexTypesInv /\ SmallFileInBuffer /\ SmallInv /\ [LexNextAll]_allVars
        /\ (Small /\ Fresh => PassInv)' => SmallInv'
    BY SmallStep DEF LexTypesInv
  <1> QED
    BY <1>1, <1>2, <1>3, <1>4, PassesKeepTypes, PassesInBuffer, PTL DEF PassesSpec

(* So does what is known of the token at the end.                          *)
LEMMA PassesEndEmpty == PassesSpec => []EndIsEmpty
  <1>1. LexInit => EndIsEmpty
    BY DEF LexInit, EndIsEmpty, WordTags, KeyWords
  <1>2. LexTypesInv /\ EndIsEmpty /\ [LexNextAll]_allVars => EndIsEmpty'
    BY EndEmptyStep DEF LexTypesInv, TokensTyped
  <1> QED
    BY <1>1, <1>2, PassesKeepTypes, PTL DEF PassesSpec

(* However often the lexer is Reset and whatever files it was given before,*)
(* of a file of less than a block it tells every token, where it is, that  *)
(* nothing is between two of them, and the end where it is, for every text *)
(* and buffer size: the failed seekg and the forgotten is_end of Reset are *)
(* never noticed.                                                          *)
THEOREM SmallFilesAlwaysTold == PassesSpec => []SmallFilesTold
  <1>1. LexTypesInv /\ SmallInv => SmallFilesTold
    BY SmallTells DEF LexTypesInv
  <1> QED
    BY <1>1, PassesKeepTypes, PassesSmall, PTL

-----------------------------------------------------------------------------
(***************************************************************************)
(* A pass over a small file is a function of its text.                     *)
(***************************************************************************)
(* What NextToken has in hand, by control point *)
Doing ==
  CASE at = "number" -> <<state, lexeme>>
    [] at = "word" -> <<lexeme>>
    [] at \in {"match", "eat", "eat_next"} -> <<pattern, matched>>
    [] at = "mismatch" -> <<pattern>>
    [] at \in {"comment_next", "single_next"} -> <<peek_char>>
    [] OTHER -> <<>>

(* All that the rest of the pass depends on: no stream, buffer or stamp *)
Moment(p, doing, loc, table, toks, start, fwd) ==
  [at |-> p, doing |-> doing, location |-> loc, table |-> table, tokens |-> toks,
   start |-> start, forward |-> fwd]

Now == Moment(at, Doing, location, word_table, tokens, start_location, forward_location)

(* The pass of which this is the beginning *)
Outset == Moment("idle", <<>>, Begin, KeyWords, <<>>, Begin, Begin)

(* The character of text t under forward, and the location behind it *)
Under(t, m) == IF m.forward.pos < Len(t) THEN t[m.forward.pos + 1] ELSE kEOF

Passed(t, m) ==
  IF Under(t, m) = kEOF THEN m.forward
  ELSE IF Under(t, m) = NewLine
  THEN [line |-> m.forward.line + 1, col |-> 0, pos |-> m.forward.pos + 1]
  ELSE [line |-> m.forward.line, col |-> m.forward.col + 1, pos |-> m.forward.pos + 1]

(* The file's operations *)
Stays(m, p, d) ==
  Moment(p, d, m.location, m.table, m.tokens, m.start, m.forward)
Scans(t, m, p, d) ==
  Moment(p, d, m.location, m.table, m.tokens, m.start, Passed(t, m))
Rolls(m, p, d) ==
  Moment(p, d, m.location, m.table, m.tokens, m.start, m.start)
Starts(m, p, d) ==
  Moment(p, d, m.location, m.table, m.tokens, m.forward, m.forward)

(* A token is returned, and where the next one may start is s.             *)
Gives(m, tag, word, table, s) ==
  Moment("idle", <<>>, m.location, table,
         Append(m.tokens, [tag |-> tag, lexeme |-> word, location |-> m.location,
                           to |-> s.pos]),
         s, m.forward)

(* Each control point of NextToken, of which one step is made from m *)
OfBlank(t, m) ==
  IF Under(t, m) \in Blanks THEN Scans(t, m, "blank_next", <<>>)
  ELSE Stays(m, "match", <<1, 0>>)

OfMatch(t, m) ==
  IF m.doing[2] = Len(Patterns[m.doing[1]])
  THEN IF m.doing[1] = 1 THEN Rolls(m, "comment", <<>>) ELSE Rolls(m, "eat", m.doing)
  ELSE IF Under(t, m) = Patterns[m.doing[1]][m.doing[2] + 1]
  THEN Scans(t, m, "match", <<m.doing[1], m.doing[2] + 1>>)
  ELSE Scans(t, m, "mismatch", <<m.doing[1]>>)

OfMismatch(m) ==
  IF m.doing[1] = 1
  THEN Moment("number", <<"kStart", <<>> >>, m.start, m.table, m.tokens, m.start, m.start)
  ELSE IF m.doing[1] < Len(Patterns) THEN Rolls(m, "match", <<m.doing[1] + 1, 0>>)
  ELSE Rolls(m, "single", <<>>)

OfComment(m) ==
  IF m.doing[1] \in {NewLine, kEOF} THEN Starts(m, "blank", <<>>)
  ELSE Starts(m, "comment", <<>>)

OfNumber(t, m) ==
  IF Under(t, m) = kEOF \/ m.doing[1] = "fail" THEN Rolls(m, "word", << <<>> >>)
  ELSE IF m.doing[1] \in EndStates
  THEN Gives(m, "kNumber", m.doing[2], m.table, m.forward)
  ELSE LET move == MoveOn(m.doing[1], Under(t, m)) IN
       IF move.eats
       THEN Scans(t, m, "number", <<move.to, Append(m.doing[2], Under(t, m))>>)
       ELSE Stays(m, "number", <<move.to, m.doing[2]>>)

(* The table behind InsertId *)
WithWord(table, word, loc) ==
  LET key == IF word \in DOMAIN table THEN word ELSE <<>>
  IN  [w \in DOMAIN table \cup {key} |->
         IF w # key THEN table[w]
         ELSE [tag |-> IF word \in DOMAIN table THEN table[word].tag ELSE "kIdentifier",
               location |-> loc]]

OfWord(t, m) ==
  IF Under(t, m) \in IdElems
  THEN Scans(t, m, "word", <<Append(m.doing[1], Under(t, m))>>)
  ELSE IF m.doing[1] = <<>> THEN Stays(m, "match", <<2, 0>>)
  ELSE LET word  == m.doing[1]
           table == WithWord(m.table, word, m.location)
           key   == IF word \in DOMAIN m.table THEN word ELSE <<>>
       IN  Gives(m, table[key].tag, word, table, m.forward)

OfEat(m) ==
  IF m.doing[2] = 1
  THEN Gives(m, "kPunctuator", Patterns[m.doing[1]], m.table, m.forward)
  ELSE Starts(m, "eat", <<m.doing[1], m.doing[2] - 1>>)

OfSingle(t, m) ==
  IF Under(t, m) \in PunctChars THEN Scans(t, m, "single_next", <<Under(t, m)>>)
  ELSE Gives(m, "kEOF", <<>>, m.table, m.start)

Step(t, m) ==
  CASE m.at = "idle"         -> Stays(m, "blank", <<>>)
    [] m.at = "blank"        -> OfBlank(t, m)
    [] m.at = "blank_next"   -> Starts(m, "blank", <<>>)
    [] m.at = "match"        -> OfMatch(t, m)
    [] m.at = "mismatch"     -> OfMismatch(m)
    [] m.at = "comment"      -> Scans(t, m, "comment_next", <<Under(t, m)>>)
    [] m.at = "comment_next" -> OfComment(m)
    [] m.at = "number"       -> OfNumber(t, m)
    [] m.at = "word"         -> OfWord(t, m)
    [] m.at = "eat"          -> Scans(t, m, "eat_next", m.doing)
    [] m.at = "eat_next"     -> OfEat(m)
    [] m.at = "single"       -> OfSingle(t, m)
    [] m.at = "single_next"  -> Gives(m, "kPunctuator", m.doing, m.table, m.forward)
    [] OTHER -> m

(* The fields of Now *)
LEMMA NowIs ==
  /\ Now.at = at /\ Now.doing = Doing /\ Now.location = location
  /\ Now.table = word_table /\ Now.tokens = tokens
  /\ Now.start = start_location /\ Now.forward = forward_location
  BY DEF Now, Moment

(* What a small file shows is its text. *)
LEMMA SmallShown ==
  ASSUME TypeOK, SmallFileInBuffer, Small, status = "ok"
  PROVE  /\ Shown = Under(text, Now)
         /\ Shown = kEOF <=> Peek = kEOF
         /\ Peek # kEOF => AdvanceLocation(forward_location, Peek) = Passed(text, Now)
         /\ Peek = kEOF => Passed(text, Now) = forward_location
  <1>1. /\ forward = pos /\ forward_buffer_idx = 0 /\ pos <= Len(text) /\ Holds(0, 0)
    BY DEF SmallFileInBuffer, Small
  <1>2. pos \in Nat /\ Len(text) \in Nat /\ Last \in Nat /\ text \in Seq(Chars)
    BY TextLength, LastPositive, TextAssumption DEF TypeOK, Stream, Location, text, pos
  <1>3. Peek = IF pos = Len(text) THEN kEOF ELSE pos
    <2>1. pos \in 0..Last /\ pos # Last /\ 0 + pos = pos
      BY <1>1, <1>2 DEF Small
    <2> QED
      BY <1>1, <2>1 DEF Holds, Peek
  <1>4. pos < Len(text) => text[pos + 1] \in Chars /\ text[pos + 1] # kEOF
    BY <1>2, EndAssumption
  <1>5. Shown = IF pos < Len(text) THEN text[pos + 1] ELSE kEOF
    BY <1>1, <1>2, <1>3, CellAssumption DEF Shown
  <1>6. Under(text, Now) = IF pos < Len(text) THEN text[pos + 1] ELSE kEOF
    BY NowIs DEF Under, pos
  <1>7. Peek # kEOF => IsNewLine(Peek) = (Under(text, Now) = NewLine)
    BY <1>1, <1>2, <1>3, <1>6 DEF IsNewLine
  <1>8. Peek # kEOF <=> Under(text, Now) # kEOF
    BY <1>1, <1>2, <1>3, <1>4, <1>6, CellAssumption
  <1>9. Peek # kEOF => AdvanceLocation(forward_location, Peek) = Passed(text, Now)
    BY <1>7, <1>8, NowIs DEF AdvanceLocation, Passed
  <1>10. Peek = kEOF => Passed(text, Now) = forward_location
    BY <1>8, NowIs DEF Passed
  <1> QED
    BY <1>5, <1>6, <1>8, <1>9, <1>10

(* What the file's operations do to the two locations                      *)
LEMMA Locations ==
  ASSUME TypeOK, SmallFileInBuffer, Small, status = "ok"
  PROVE  /\ Scanned => /\ forward_location' = Passed(text, Now)
                       /\ start_location' = start_location
         /\ ScanChar => /\ forward_location' = Passed(text, Now)
                        /\ start_location' = start_location
         /\ NextLexeme => /\ forward_location' = forward_location
                          /\ start_location' = forward_location
         /\ ResetForward => /\ forward_location' = start_location
                            /\ start_location' = start_location
         /\ UNCHANGED fileVars => /\ forward_location' = forward_location
                                  /\ start_location' = start_location
  <1>1. ScanChar => /\ forward_location' = Passed(text, Now)
                    /\ start_location' = start_location
    BY SmallShown DEF ScanChar
  <1>2. UNCHANGED fileVars => /\ forward_location' = forward_location
                              /\ start_location' = start_location
    BY DEF fileVars, vars, cursor
  <1>3. Scanned => /\ forward_location' = Passed(text, Now)
                   /\ start_location' = start_location
    BY <1>1, <1>2, SmallShown DEF Scanned
  <1> QED
    BY <1>1, <1>2, <1>3 DEF NextLexeme, ResetForward

(* Steps that return no token, by what they do to the file *)
LEMMA QuietSteps ==
  ASSUME NEW p, NEW d, at' = p, Doing' = d, UNCHANGED tokenVars,
         TypeOK, SmallFileInBuffer, Small, status = "ok"
  PROVE  /\ UNCHANGED fileVars => Now' = Stays(Now, p, d)
         /\ Scanned \/ ScanChar => Now' = Scans(text, Now, p, d)
         /\ NextLexeme => Now' = Starts(Now, p, d)
         /\ ResetForward => Now' = Rolls(Now, p, d)
  <1>1. /\ location' = location /\ word_table' = word_table /\ tokens' = tokens
    BY DEF tokenVars
  <1>2. Now' = Moment(p, d, location, word_table, tokens, start_location',
                      forward_location')
    BY <1>1 DEF Now, Moment
  <1> HIDE DEF Moment
  <1> QED
    BY <1>2, Locations, NowIs DEF Stays, Scans, Starts, Rolls

(* Steps that return one *)
LEMMA GivingSteps ==
  ASSUME NEW tag, NEW word, Deliver(tag, word),
         TypeOK, SmallFileInBuffer, Small, status = "ok"
  PROVE  /\ UNCHANGED fileVars =>
              Now' = Gives(Now, tag, word, word_table', start_location)
         /\ NextLexeme =>
              Now' = Gives(Now, tag, word, word_table', forward_location)
  <1> DEFINE token == [tag |-> tag, lexeme |-> word, location |-> location,
                       to |-> start_location'.pos]
  <1>1. /\ at' = "idle" /\ location' = location /\ Doing' = <<>>
        /\ tokens' = Append(tokens, token)
    BY DEF Deliver, Doing
  <1>2. Now' = Moment("idle", <<>>, location, word_table', Append(tokens, token),
                      start_location', forward_location')
    BY <1>1 DEF Now, Moment
  <1> QED
    BY <1>2, Locations, NowIs DEF Gives

(* Over blanks and comments *)
LEMMA BlankIsStep ==
  ASSUME LexTypesInv, SmallFileInBuffer, Small, at' # "failed",
         Call \/ SkipBlank \/ SkipBlankNext \/ SkipComment \/ SkipCommentNext
  PROVE  Now' = Step(text, Now)
  <1>1. at # "failed" /\ status = "ok" /\ TypeOK
    BY DEF LexTypesInv, CallTyped, Call, SkipBlank, SkipBlankNext, SkipComment,
           SkipCommentNext
  <1> USE <1>1, NowIs, SmallShown, QuietSteps
  <1>2. CASE Call
    <2>1. at = "idle" /\ at' = "blank" /\ Doing' = <<>> /\ UNCHANGED fileVars
          /\ UNCHANGED tokenVars
      BY <1>2 DEF Call, Doing
    <2> QED
      BY <2>1 DEF Step
  <1>3. CASE SkipBlank
    <2>1. at = "blank" /\ UNCHANGED tokenVars
      BY <1>3 DEF SkipBlank
    <2>2. CASE Shown \in Blanks
      <3>1. ScanChar /\ at' = "blank_next"
        BY <1>3, <2>2 DEF SkipBlank, Goto
      <3>2. Doing' = <<>>
        BY <3>1 DEF Doing
      <3> QED
        BY <2>1, <2>2, <3>1, <3>2 DEF Step, OfBlank
    <2>3. CASE Shown \notin Blanks
      <3>1. UNCHANGED fileVars /\ at' = "match" /\ pattern' = 1 /\ matched' = 0
        BY <1>3, <2>3 DEF SkipBlank, LookFor
      <3>2. Doing' = <<1, 0>>
        BY <3>1 DEF Doing
      <3> QED
        BY <2>1, <2>3, <3>1, <3>2 DEF Step, OfBlank
    <2> QED
      BY <2>2, <2>3
  <1>4. CASE SkipBlankNext
    <2>1. at = "blank_next" /\ at' = "blank" /\ Doing' = <<>> /\ NextLexeme
          /\ UNCHANGED tokenVars
      BY <1>4 DEF SkipBlankNext, Doing
    <2> QED
      BY <2>1 DEF Step
  <1>5. CASE SkipComment
    <2>1. at = "comment" /\ at' = "comment_next" /\ Scanned /\ peek_char' = Shown
          /\ UNCHANGED tokenVars
      BY <1>5 DEF SkipComment, Goto
    <2>2. Doing' = <<Shown>>
      BY <2>1 DEF Doing
    <2> QED
      BY <2>1, <2>2 DEF Step
  <1>6. CASE SkipCommentNext
    <2>1. at = "comment_next" /\ NextLexeme /\ UNCHANGED tokenVars
          /\ at' = IF peek_char \in {NewLine, kEOF} THEN "blank" ELSE "comment"
      BY <1>6 DEF SkipCommentNext
    <2>2. Doing' = <<>> /\ Doing[1] = peek_char
      BY <2>1 DEF Doing
    <2> QED
      BY <2>1, <2>2 DEF Step, OfComment
  <1> QED
    BY <1>2, <1>3, <1>4, <1>5, <1>6

(* StartWith *)
LEMMA MatchIsStep ==
  ASSUME LexTypesInv, SmallFileInBuffer, Small, at' # "failed",
         Match \/ Matched \/ Mismatched
  PROVE  Now' = Step(text, Now)
  <1>1. at # "failed" /\ status = "ok" /\ TypeOK
    BY DEF LexTypesInv, CallTyped, Match, Matched, Mismatched
  <1> USE <1>1, NowIs, SmallShown, QuietSteps
  <1>2. CASE Match
    <2>1. /\ at = "match" /\ Scanned /\ UNCHANGED tokenVars /\ pattern' = pattern
          /\ matched < Len(Patterns[pattern])
      BY <1>2 DEF Match
    <2>2. matched # Len(Patterns[pattern])
      <3>1. matched \in Nat /\ Len(Patterns[pattern]) \in Nat
        BY PatternFacts DEF LexTypesInv, TokensTyped
      <3> QED
        BY <2>1, <3>1
    <2>3. Doing[1] = pattern /\ Doing[2] = matched
      BY <2>1 DEF Doing
    <2>4. CASE Shown = Patterns[pattern][matched + 1]
      <3>1. at' = "match" /\ matched' = matched + 1
        BY <1>2, <2>4 DEF Match, Goto
      <3>2. Doing' = <<pattern, matched + 1>>
        BY <2>1, <3>1 DEF Doing
      <3> QED
        BY <2>1, <2>2, <2>3, <2>4, <3>1, <3>2 DEF Step, OfMatch
    <2>5. CASE Shown # Patterns[pattern][matched + 1]
      <3>1. at' = "mismatch"
        BY <1>2, <2>5 DEF Match, Goto
      <3>2. Doing' = <<pattern>>
        BY <2>1, <3>1 DEF Doing
      <3> QED
        BY <2>1, <2>2, <2>3, <2>5, <3>1, <3>2 DEF Step, OfMatch
    <2> QED
      BY <2>4, <2>5
  <1>3. CASE Matched
    <2>1. /\ at = "match" /\ ResetForward /\ UNCHANGED <<tokenVars, pattern, matched>>
          /\ matched = Len(Patterns[pattern])
          /\ at' = IF pattern = 1 THEN "comment" ELSE "eat"
      BY <1>3 DEF Matched
    <2>2. Doing = <<pattern, matched>>
      BY <2>1 DEF Doing
    <2>3. Doing' = IF pattern = 1 THEN <<>> ELSE Doing
      BY <2>1, <2>2 DEF Doing
    <2> QED
      BY <2>1, <2>2, <2>3 DEF Step, OfMatch
  <1>4. CASE Mismatched
    <2>1. at = "mismatch" /\ ResetForward /\ Doing[1] = pattern
      BY <1>4 DEF Mismatched, Doing
    <2>2. CASE pattern = 1
      <3>1. /\ at' = "number" /\ state' = "kStart" /\ lexeme' = <<>>
            /\ location' = start_location /\ word_table' = word_table
            /\ tokens' = tokens
        BY <1>4, <2>2 DEF Mismatched
      <3>2. Doing' = <<"kStart", <<>> >>
        BY <3>1 DEF Doing
      <3>3. Now' = Moment("number", <<"kStart", <<>> >>, start_location, word_table,
                          tokens, start_location, start_location)
        BY <2>1, <3>1, <3>2, Locations DEF Now, Moment
      <3> QED
        BY <2>1, <2>2, <3>3 DEF Step, OfMismatch
    <2>3. CASE pattern # 1
      <3>1. /\ UNCHANGED tokenVars
            /\ IF pattern < Len(Patterns) THEN LookFor(pattern + 1) ELSE at' = "single"
        BY <1>4, <2>3 DEF Mismatched, tokenVars
      <3>2. CASE pattern < Len(Patterns)
        <4>1. at' = "match" /\ Doing' = <<pattern + 1, 0>>
          BY <3>1, <3>2 DEF LookFor, Doing
        <4> QED
          BY <2>1, <2>3, <3>1, <3>2, <4>1 DEF Step, OfMismatch
      <3>3. CASE ~(pattern < Len(Patterns))
        <4>1. at' = "single" /\ Doing' = <<>>
          BY <3>1, <3>3 DEF Doing
        <4> QED
          BY <2>1, <2>3, <3>1, <3>3, <4>1 DEF Step, OfMismatch
      <3> QED
        BY <3>2, <3>3
    <2> QED
      BY <2>2, <2>3
  <1> QED
    BY <1>2, <1>3, <1>4

(* GetNumber *)
LEMMA NumberIsStep ==
  ASSUME LexTypesInv, SmallFileInBuffer, Small, at' # "failed",
         NumberMove \/ NumberFails \/ NumberEnds
  PROVE  Now' = Step(text, Now)
  <1>1. /\ at = "number" /\ status = "ok" /\ TypeOK
        /\ Doing[1] = state /\ Doing[2] = lexeme
    BY DEF LexTypesInv, CallTyped, NumberMove, NumberFails, NumberEnds, Doing
  <1>2. Step(text, Now) = OfNumber(text, Now)
    BY <1>1, NowIs DEF Step
  <1> USE <1>1, NowIs, SmallShown, QuietSteps
  <1>3. CASE NumberMove
    <2> DEFINE move == MoveOn(state, Shown)
    <2>1. state \in DOMAIN Moves /\ Shown # kEOF /\ UNCHANGED tokenVars /\ state' = move.to
      BY <1>3 DEF NumberMove
    <2>2. state # "fail" /\ state \notin EndStates
      BY <2>1, StateNames DEF EndStates
    <2>3. CASE move.eats
      <3>1. at' = "number" /\ lexeme' = Append(lexeme, Shown) /\ ScanChar
        BY <1>3, <2>3 DEF NumberMove, Goto
      <3>2. Doing' = <<move.to, Append(lexeme, Shown)>>
        BY <2>1, <3>1 DEF Doing
      <3> QED
        BY <1>2, <2>1, <2>2, <2>3, <3>1, <3>2 DEF OfNumber
    <2>4. CASE ~move.eats
      <3>1. at' = "number" /\ lexeme' = lexeme /\ UNCHANGED fileVars
        BY <1>3, <2>4 DEF NumberMove
      <3>2. Doing' = <<move.to, lexeme>>
        BY <2>1, <3>1 DEF Doing
      <3> QED
        BY <1>2, <2>1, <2>2, <2>4, <3>1, <3>2 DEF OfNumber
    <2> QED
      BY <2>3, <2>4
  <1>4. CASE NumberFails
    <2>1. /\ Shown = kEOF \/ state = "fail"
          /\ at' = "word" /\ lexeme' = <<>> /\ ResetForward /\ UNCHANGED tokenVars
      BY <1>4 DEF NumberFails
    <2>2. Doing' = << <<>> >>
      BY <2>1 DEF Doing
    <2> QED
      BY <1>2, <2>1, <2>2 DEF OfNumber
  <1>5. CASE NumberEnds
    <2>1. /\ state \in EndStates /\ Shown # kEOF /\ NextLexeme
          /\ word_table' = word_table /\ Deliver("kNumber", lexeme)
      BY <1>5 DEF NumberEnds
    <2>2. state # "fail"
      BY <2>1 DEF EndStates
    <2>3. Now' = Gives(Now, "kNumber", lexeme, word_table, forward_location)
      BY <2>1, GivingSteps
    <2> QED
      BY <1>2, <2>1, <2>2, <2>3 DEF OfNumber
  <1> QED
    BY <1>3, <1>4, <1>5

(* GetIdAndWord *)
LEMMA WordIsStep ==
  ASSUME LexTypesInv, SmallFileInBuffer, Small, at' # "failed",
         WordScan \/ WordEnds \/ NoWord
  PROVE  Now' = Step(text, Now)
  <1>1. at = "word" /\ status = "ok" /\ TypeOK /\ Doing[1] = lexeme
    BY DEF LexTypesInv, CallTyped, WordScan, WordEnds, NoWord, Doing
  <1>2. Step(text, Now) = OfWord(text, Now)
    BY <1>1, NowIs DEF Step
  <1> USE <1>1, NowIs, SmallShown, QuietSteps
  <1>3. CASE WordScan
    <2>1. /\ Shown \in IdElems /\ at' = "word" /\ lexeme' = Append(lexeme, Shown)
          /\ ScanChar /\ UNCHANGED tokenVars
      BY <1>3 DEF WordScan, Goto
    <2>2. Doing' = << Append(lexeme, Shown) >>
      BY <2>1 DEF Doing
    <2> QED
      BY <1>2, <2>1, <2>2 DEF OfWord
  <1>4. CASE WordEnds
    <2>1. /\ Shown \notin IdElems /\ lexeme # <<>> /\ NextLexeme
          /\ InsertWord(lexeme) /\ Deliver(word_table'[Key(lexeme)].tag, lexeme)
      BY <1>4 DEF WordEnds
    <2>2. word_table' = WithWord(word_table, lexeme, location)
      BY <2>1 DEF InsertWord, WithWord, Key
    <2>3. Now' = Gives(Now, word_table'[Key(lexeme)].tag, lexeme, word_table',
                       forward_location)
      BY <2>1, GivingSteps
    <2>4. OfWord(text, Now) = Gives(Now, word_table'[Key(lexeme)].tag, lexeme,
                                    word_table', forward_location)
      BY <2>1, <2>2 DEF OfWord, Key
    <2> QED
      BY <1>2, <2>3, <2>4
  <1>5. CASE NoWord
    <2>1. /\ Shown \notin IdElems /\ lexeme = <<>> /\ UNCHANGED fileVars
          /\ UNCHANGED tokenVars /\ at' = "match" /\ pattern' = 2 /\ matched' = 0
      BY <1>5 DEF NoWord, LookFor
    <2>2. Doing' = <<2, 0>>
      BY <2>1 DEF Doing
    <2> QED
      BY <1>2, <2>1, <2>2 DEF OfWord
  <1> QED
    BY <1>3, <1>4, <1>5

(* GetPunctuator, and what follows it *)
LEMMA PunctIsStep ==
  ASSUME LexTypesInv, SmallFileInBuffer, Small, at' # "failed",
         EatPunct \/ EatPunctNext \/ Single \/ SingleNext \/ NothingElse
  PROVE  Now' = Step(text, Now)
  <1>1. at # "failed" /\ status = "ok" /\ TypeOK
    BY DEF LexTypesInv, CallTyped, EatPunct, EatPunctNext, Single, SingleNext, NothingElse
  <1> USE <1>1, NowIs, SmallShown, QuietSteps
  <1>2. CASE EatPunct
    <2>1. at = "eat" /\ at' = "eat_next" /\ Scanned /\ UNCHANGED <<tokenVars, pattern, matched>>
      BY <1>2 DEF EatPunct, Goto
    <2>2. Doing' = Doing
      BY <2>1 DEF Doing
    <2> QED
      BY <2>1, <2>2 DEF Step
  <1>3. CASE EatPunctNext
    <2>1. /\ at = "eat_next" /\ NextLexeme /\ word_table' = word_table
          /\ Doing[1] = pattern /\ Doing[2] = matched
      BY <1>3 DEF EatPunctNext, Doing
    <2>2. CASE matched = 1
      <3>1. Deliver("kPunctuator", Patterns[pattern])
        BY <1>3, <2>2 DEF EatPunctNext
      <3>2. Now' = Gives(Now, "kPunctuator", Patterns[pattern], word_table,
                         forward_location)
        BY <2>1, <3>1, GivingSteps
      <3> QED
        BY <2>1, <2>2, <3>2 DEF Step, OfEat
    <2>3. CASE matched # 1
      <3>1. /\ at' = "eat" /\ matched' = matched - 1 /\ pattern' = pattern
            /\ UNCHANGED tokenVars
        BY <1>3, <2>3 DEF EatPunctNext, tokenVars
      <3>2. Doing' = <<pattern, matched - 1>>
        BY <3>1 DEF Doing
      <3> QED
        BY <2>1, <2>3, <3>1, <3>2 DEF Step, OfEat
    <2> QED
      BY <2>2, <2>3
  <1>4. CASE Single
    <2>1. /\ at = "single" /\ Shown \in PunctChars /\ peek_char' = Shown /\ ScanChar
          /\ at' = "single_next" /\ UNCHANGED tokenVars
      BY <1>4 DEF Single, Goto
    <2>2. Doing' = <<Shown>>
      BY <2>1 DEF Doing
    <2> QED
      BY <2>1, <2>2 DEF Step, OfSingle
  <1>5. CASE SingleNext
    <2>1. /\ at = "single_next" /\ NextLexeme /\ word_table' = word_table
          /\ Deliver("kPunctuator", <<peek_char>>)
      BY <1>5 DEF SingleNext
    <2>2. Doing = <<peek_char>>
      BY <2>1 DEF Doing
    <2>3. Now' = Gives(Now, "kPunctuator", <<peek_char>>, word_table, forward_location)
      BY <2>1, GivingSteps
    <2> QED
      BY <2>1, <2>2, <2>3 DEF Step
  <1>6. CASE NothingElse
    <2>1. /\ at = "single" /\ Shown \notin PunctChars /\ UNCHANGED fileVars
          /\ Deliver("kEOF", <<>>) /\ word_table' = word_table
      BY <1>6 DEF NothingElse, Fail
    <2>2. Now' = Gives(Now, "kEOF", <<>>, word_table, start_location)
      BY <2>1, GivingSteps
    <2> QED
      BY <2>1, <2>2 DEF Step, OfSingle
  <1> QED
    BY <1>2, <1>3, <1>4, <1>5, <1>6

(* A step that does not fail is the one there is. *)
LEMMA LexNextIsStep ==
  ASSUME LexTypesInv, SmallFileInBuffer, Small, LexNext, at' # "failed"
  PROVE  Now' = Step(text, Now)
  BY BlankIsStep, MatchIsStep, NumberIsStep, WordIsStep, PunctIsStep
     DEF LexNext, NextTokenStep

-----------------------------------------------------------------------------
(***************************************************************************)
(* Two passes over one text                                                *)
(***************************************************************************)
(* The first n steps of the pass over t *)
Run(t, n, r) ==
  /\ r[0] = Outset
  /\ \A k \in 0..n : r[k].tokens \in Seq(Token)
  /\ \A k \in 0..(n - 1) : r[k + 1] = Step(t, r[k])

(* The tokens after some of its steps *)
Yields(t, toks) == \E n \in Nat : \E r : Run(t, n, r) /\ r[n].tokens = toks

(* Runs over one text are the same as far as both go.                      *)
LEMMA RunsAgree ==
  ASSUME NEW t, NEW n \in Nat, NEW r, NEW s, Run(t, n, r), Run(t, n, s),
         NEW k \in 0..n
  PROVE  r[k] = s[k]
  <1> DEFINE T == {j \in 0..n : r[j] # s[j]}
  <1>1. SUFFICES ASSUME T # {} PROVE FALSE
    OBVIOUS
  <1>2. T \in SUBSET Nat
    OBVIOUS
  <1>3. PICK j \in T : \A i \in T : j <= i
    <2> HIDE DEF T
    <2> QED
      BY <1>1, <1>2, LeastIndex
  <1>4. j \in 0..n /\ r[j] # s[j]
    OBVIOUS
  <1>5. j # 0
    BY <1>4 DEF Run
  <1>6. j - 1 \in 0..(n - 1) /\ j - 1 \in 0..n /\ (j - 1) + 1 = j /\ ~(j <= j - 1)
    BY <1>4, <1>5
  <1>7. r[j - 1] = s[j - 1]
    BY <1>3, <1>6
  <1>8. r[j] = Step(t, r[j - 1]) /\ s[j] = Step(t, s[j - 1])
    BY <1>6 DEF Run
  <1> QED
    BY <1>4, <1>7, <1>8

(* A shorter run is the beginning of a longer one.                         *)
LEMMA RunShorter ==
  ASSUME NEW t, NEW n \in Nat, NEW m \in 0..n, NEW r, Run(t, n, r)
  PROVE  Run(t, m, r)
  <1>1. 0..m \subseteq 0..n /\ 0..(m - 1) \subseteq 0..(n - 1)
    OBVIOUS
  <1> QED
    BY <1>1 DEF Run

(* A step only adds to the tokens.                                         *)
LEMMA StepAdds ==
  ASSUME NEW t, NEW m
  PROVE  \/ Step(t, m).tokens = m.tokens
         \/ \E token : Step(t, m).tokens = Append(m.tokens, token)
  <1> DEFINE Adds(q) == \/ q.tokens = m.tokens
                        \/ \E token : q.tokens = Append(m.tokens, token)
  <1>1. \A p, d, l, s, f : Adds(Moment(p, d, l, m.table, m.tokens, s, f))
    BY DEF Moment
  <1>2. ASSUME NEW tag, NEW word, NEW table, NEW s
        PROVE  Adds(Gives(m, tag, word, table, s))
    <2>1. Gives(m, tag, word, table, s).tokens
            = Append(m.tokens, [tag |-> tag, lexeme |-> word, location |-> m.location,
                                to |-> s.pos])
      BY DEF Gives, Moment
    <2> QED
      BY <2>1
  <1>3. \A tag, word, table, s : Adds(Gives(m, tag, word, table, s))
    BY <1>2
  <1>4. Adds(m)
    OBVIOUS
  <1> HIDE DEF Adds
  <1>5. \A p, d : /\ Adds(Stays(m, p, d)) /\ Adds(Scans(t, m, p, d))
                  /\ Adds(Rolls(m, p, d)) /\ Adds(Starts(m, p, d))
    BY <1>1 DEF Stays, Scans, Rolls, Starts
  <1>6. Adds(OfBlank(t, m)) /\ Adds(OfMatch(t, m)) /\ Adds(OfMismatch(m))
        /\ Adds(OfComment(m)) /\ Adds(OfEat(m)) /\ Adds(OfSingle(t, m))
    BY <1>1, <1>3, <1>5 DEF OfBlank, OfMatch, OfMismatch, OfComment, OfEat, OfSingle
  <1>7. Adds(OfNumber(t, m)) /\ Adds(OfWord(t, m))
    BY <1>3, <1>5 DEF OfNumber, OfWord
  <1>8. Adds(Step(t, m))
    BY <1>3, <1>4, <1>5, <1>6, <1>7 DEF Step
  <1> QED
    BY <1>8 DEF Adds

(* What a run has returned stays.                                          *)
LEMMA RunGrows ==
  ASSUME NEW t, NEW n \in Nat, NEW r, Run(t, n, r), NEW m \in 0..n,
         NEW i \in DOMAIN r[m].tokens
  PROVE  i \in DOMAIN r[n].tokens /\ r[n].tokens[i] = r[m].tokens[i]
  <1> DEFINE Stay(j) == i \in DOMAIN r[j].tokens /\ r[j].tokens[i] = r[m].tokens[i]
             T       == {j \in m..n : ~Stay(j)}
  <1>1. SUFFICES ASSUME T # {} PROVE FALSE
    OBVIOUS
  <1>2. T \in SUBSET Nat
    OBVIOUS
  <1>3. PICK j \in T : \A k \in T : j <= k
    <2> HIDE DEF T
    <2> QED
      BY <1>1, <1>2, LeastIndex
  <1>4. j \in m..n /\ ~Stay(j)
    OBVIOUS
  <1>5. j # m
    BY <1>4
  <1>6. /\ j - 1 \in m..n /\ j - 1 \in 0..(n - 1) /\ (j - 1) + 1 = j
        /\ ~(j <= j - 1) /\ j - 1 \in 0..n
    BY <1>4, <1>5
  <1>7. Stay(j - 1)
    BY <1>3, <1>6
  <1>8. r[j] = Step(t, r[j - 1]) /\ r[j - 1].tokens \in Seq(Token)
    BY <1>6 DEF Run
  <1>9. \/ r[j].tokens = r[j - 1].tokens
        \/ \E token : r[j].tokens = Append(r[j - 1].tokens, token)
    <2> DEFINE m1 == r[j - 1]
    <2> HIDE DEF m1
    <2>1. \/ Step(t, m1).tokens = m1.tokens
          \/ \E token : Step(t, m1).tokens = Append(m1.tokens, token)
      BY StepAdds, Zenon
    <2> QED
      BY <1>8, <2>1 DEF m1
  <1>10. ASSUME NEW u \in Seq(Token), i \in DOMAIN u, NEW token
         PROVE  i \in DOMAIN Append(u, token) /\ Append(u, token)[i] = u[i]
    BY <1>10
  <1>11. Stay(j)
    BY <1>7, <1>8, <1>9, <1>10
  <1> QED
    BY <1>4, <1>11

(* Two beginnings of one pass returned the same tokens, as far as both go. *)
LEMMA YieldsAgree ==
  ASSUME NEW t, NEW p, NEW q, Yields(t, p), Yields(t, q),
         NEW i \in DOMAIN p, i \in DOMAIN q
  PROVE  p[i] = q[i]
  <1>1. ASSUME NEW a, NEW b, NEW n \in Nat, NEW m \in Nat, NEW r, NEW s,
               Run(t, n, r), Run(t, m, s), r[n].tokens = a, s[m].tokens = b, m <= n,
               i \in DOMAIN b
        PROVE  a[i] = b[i]
    <2>1. m \in 0..n /\ m \in 0..m
      BY <1>1
    <2>2. Run(t, m, r)
      BY <1>1, <2>1, RunShorter
    <2>3. r[m] = s[m]
      BY <1>1, <2>1, <2>2, RunsAgree
    <2> QED
      BY <1>1, <2>1, <2>3, RunGrows
  <1>2. PICK n \in Nat : \E r : Run(t, n, r) /\ r[n].tokens = p
    BY DEF Yields
  <1>3. PICK m \in Nat : \E r : Run(t, m, r) /\ r[m].tokens = q
    BY DEF Yields
  <1>4. n <= m \/ m <= n
    OBVIOUS
  <1> QED
    BY <1>1, <1>2, <1>3, <1>4

(* A run goes on by one step.                                              *)
LEMMA RunGoesOn ==
  ASSUME NEW t, NEW n \in Nat, NEW r, Run(t, n, r), Step(t, r[n]).tokens \in Seq(Token)
  PROVE  \E s : Run(t, n + 1, s) /\ s[n + 1] = Step(t, r[n])
  <1> DEFINE s == [k \in 0..(n + 1) |-> IF k = n + 1 THEN Step(t, r[n]) ELSE r[k]]
  <1>1. \A k \in 0..n : s[k] = r[k]
    OBVIOUS
  <1>2. s[n + 1] = Step(t, r[n])
    OBVIOUS
  <1> HIDE DEF s
  <1>3. s[0] = Outset
    BY <1>1 DEF Run
  <1>4. ASSUME NEW k \in 0..(n + 1) PROVE s[k].tokens \in Seq(Token)
    <2>1. k \in 0..n \/ k = n + 1
      OBVIOUS
    <2> QED
      BY <1>1, <1>2, <2>1 DEF Run
  <1>5. ASSUME NEW k \in 0..n PROVE s[k + 1] = Step(t, s[k])
    <2>1. CASE k = n
      BY <1>1, <1>2, <2>1
    <2>2. CASE k # n
      <3>1. k + 1 \in 0..n /\ k \in 0..(n - 1)
        BY <2>2
      <3> QED
        BY <1>1, <3>1 DEF Run
    <2> QED
      BY <2>1, <2>2
  <1>6. (n + 1) - 1 = n
    OBVIOUS
  <1> QED
    BY <1>2, <1>3, <1>4, <1>5, <1>6 DEF Run

-----------------------------------------------------------------------------
(* The lexer of a small file is some steps into the pass over its text, or *)
(* was when the call failed; so was the lexer whose tokens are in previous.*)
Underway(t) ==
  \E n \in Nat : \E r : /\ Run(t, n, r)
                        /\ r[n].tokens = tokens
                        /\ at # "failed" => r[n] = Now

ReplayInv ==
  /\ at = "reopened" => previous = <<>>
  /\ Small /\ previous # <<>> => Yields(text, previous)
  /\ Small /\ at # "reopened" => Underway(text)

(* A lexer that was just made or Reset is at the outset.                   *)
LEMMA FreshUnderway ==
  ASSUME Fresh PROVE Underway(text)
  <1> DEFINE r == [k \in {0} |-> Outset]
  <1>1. Now = Outset
    BY DEF Fresh, Now, Outset, Doing, Moment
  <1>2. Outset.tokens = <<>> /\ tokens = <<>>
    BY DEF Outset, Moment, Fresh
  <1>3. Run(text, 0, r)
    <2>1. <<>> \in Seq(Token) /\ 0..0 = {0} /\ 0..(0 - 1) = {}
      OBVIOUS
    <2> QED
      BY <1>2, <2>1 DEF Run
  <1> QED
    BY <1>1, <1>2, <1>3 DEF Underway

(* Reset stays in its file. *)
LEMMA ResetText == ASSUME TypeOK, Reset PROVE text' = text
  <1> DEFINE s == SeekToStart(stream)
  <1>1. s \in Stream /\ s.text = text /\ s.pos <= Len(s.text)
    BY SeekTypes DEF TypeOK, text
  <1>2. LoadBuffer(0, 0, input_buffer, s)
    BY DEF Reset, Rewind
  <1>3. /\ 0 \in 0..1 /\ input_buffer \in [0..1 -> Buffer]
        /\ buff_timestamp \in [0..1 -> 0..2] /\ is_end \in BOOLEAN
    BY DEF TypeOK
  <1> HIDE DEF s
  <1> QED
    BY <1>1, <1>2, <1>3, LoadTypes DEF text

(* Whatever is done to the lexer keeps ReplayInv.                          *)
LEMMA ReplayStep ==
  ASSUME LexTypesInv, LexTypesInv', SmallFileInBuffer, EndIsEmpty, ReplayInv,
         [LexNextAll]_allVars, (Fresh => Underway(text))'
  PROVE  ReplayInv'
  <1>1. CASE UNCHANGED allVars
    <2>1. UNCHANGED <<at, previous, tokens, text, Now>>
      BY <1>1 DEF allVars, fileVars, vars, blocks, cursor, lexVars, tokenVars, text, Now,
                  Doing
    <2> QED
      BY <2>1 DEF ReplayInv, Underway, Small
  <1>2. CASE LexNext
    <2>1. text' = text /\ previous' = previous
      BY <1>2, LexNextScans, ScanText DEF LexTypesInv, LexNext
    <2>2. /\ at # "failed" /\ at # "reopened" /\ at' # "reopened"
      BY <1>2 DEF LexNext, NextTokenStep, Call, SkipBlank, SkipBlankNext, Match, Matched,
                  Mismatched, SkipComment, SkipCommentNext, NumberMove, NumberFails,
                  NumberEnds, WordScan, WordEnds, NoWord, EatPunct, EatPunctNext, Single,
                  SingleNext, NothingElse, LookFor, Goto, Deliver, Fail
    <2>3. SUFFICES ASSUME Small PROVE Underway(text)'
      BY <2>1, <2>2, <2>3 DEF ReplayInv, Small
    <2>4. PICK n \in Nat : \E r : Run(text, n, r) /\ r[n].tokens = tokens /\ r[n] = Now
      BY <2>2, <2>3 DEF ReplayInv, Underway
    <2>5. PICK r : Run(text, n, r) /\ r[n].tokens = tokens /\ r[n] = Now
      BY <2>4
    <2>6. CASE at' = "failed"
      <3>1. tokens' = tokens
        BY <1>2, <2>6, StepReturns DEF EndIsEmpty, Deliver
      <3> QED
        BY <2>1, <2>5, <2>6, <3>1 DEF Underway
    <2>7. CASE at' # "failed"
      <3>1. Now' = Step(text, r[n])
        BY <1>2, <2>3, <2>5, <2>7, LexNextIsStep
      <3>2. Now'.tokens = tokens' /\ tokens' \in Seq(Token)
        BY DEF Now, Moment, LexTypesInv, TokensTyped
      <3>3. PICK s : Run(text, n + 1, s) /\ s[n + 1] = Now'
        BY <2>5, <3>1, <3>2, RunGoesOn
      <3>4. n + 1 \in Nat
        OBVIOUS
      <3> QED
        BY <2>1, <3>2, <3>3, <3>4 DEF Underway
    <2> QED
      BY <2>6, <2>7
  <1>3. CASE LexReset \/ Reopened
    <2>1. Fresh' /\ at' = "idle"
      BY <1>3 DEF LexReset, Reopened, Clear, Reset, Rewind, Fresh
    <2>2. Underway(text)' /\ text' = text
      BY <1>3, <2>1, ResetText DEF LexReset, Reopened, Clear, LexTypesInv
    <2>3. Small /\ previous' # <<>> => Yields(text, previous')
      <3>1. CASE LexReset
        <4>1. at = "idle" /\ previous' \in {tokens, previous}
          BY <3>1 DEF LexReset
        <4>2. Small => Yields(text, tokens)
          BY <4>1 DEF ReplayInv, Underway, Yields
        <4> QED
          BY <4>1, <4>2 DEF ReplayInv
      <3>2. CASE Reopened
        BY <3>2 DEF Reopened, ReplayInv
      <3> QED
        BY <1>3, <3>1, <3>2
    <2> QED
      BY <2>1, <2>2, <2>3 DEF ReplayInv, Small
  <1>4. CASE LexResetFile
    <2>1. previous' = <<>> /\ at = "idle" /\ tokens' = tokens
      BY <1>4 DEF LexResetFile, tokenVars
    <2>2. CASE status' = "ok"
      BY <1>4, <2>1, <2>2 DEF LexResetFile, Goto, ReplayInv
    <2>3. CASE status' # "ok"
      <3>1. at' = "failed" /\ text' = text
        BY <1>4, <2>3
           DEF LexResetFile, Goto, CloseAndOpenOther, Rewind, text, TypeOK, Stream,
               LexTypesInv
      <3>2. Small => Underway(text)'
        BY <2>1, <3>1 DEF ReplayInv, Underway
      <3> QED
        BY <2>1, <3>1, <3>2 DEF ReplayInv, Small
    <2> QED
      BY <2>2, <2>3
  <1> QED
    BY <1>1, <1>2, <1>3, <1>4 DEF LexNextAll

(* The property, from the invariant                                        *)
LEMMA ReplayImplies == ReplayInv => ResetReplays
  <1> SUFFICES ASSUME ReplayInv, Small, NEW i \in DOMAIN tokens, i \in DOMAIN previous
               PROVE  tokens[i] = previous[i]
    BY DEF ResetReplays, Small
  <1>1. previous # <<>>
    OBVIOUS
  <1>2. Yields(text, previous) /\ Yields(text, tokens)
    BY <1>1 DEF ReplayInv, Underway, Yields
  <1> QED
    BY <1>2, YieldsAgree

(* A file of less than a block yields the same tokens in every pass, however*)
(* many Resets and other calls there were: a pass depends on nothing but    *)
(* the text, although Reset leaves the stream where its end was read, the   *)
(* memory of the buffers as it was, and is_end unset.                       *)
THEOREM SmallFilesReplay == PassesSpec => []ResetReplays
  <1>1. LexInit => ReplayInv
    <2>1. LexInit => Fresh /\ previous = <<>> /\ at = "idle"
      BY FreshInit DEF LexInit
    <2> QED
      BY <2>1, FreshUnderway DEF ReplayInv
  <1>2. LexTypesInv /\ LexTypesInv' /\ SmallFileInBuffer /\ EndIsEmpty /\ ReplayInv
        /\ [LexNextAll]_allVars /\ (Fresh => Underway(text))' => ReplayInv'
    BY ReplayStep
  <1>3. Fresh => Underway(text)
    BY FreshUnderway
  <1>4. ReplayInv => ResetReplays
    BY ReplayImplies
  <1> QED
    BY <1>1, <1>2, <1>3, <1>4, PassesKeepTypes, PassesInBuffer, PassesEndEmpty, PTL
       DEF PassesSpec
=============================================================================
