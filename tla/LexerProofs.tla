----------------------------- MODULE LexerProofs -----------------------------
(***************************************************************************)
(* The lexer keeps to one pass over its file, and every token it returns   *)
(* is a piece of the text; its end, once returned, is returned for ever,   *)
(* so that the parser sees a TokenSource; and every variable keeps its     *)
(* type.  All for every text, buffer size and set of conversions that      *)
(* overflow.                                                               *)
(***************************************************************************)
EXTENDS Lexer, SourceFileProofs, SequenceTheorems

(* Every step of NextToken makes at most one operation of the file. *)
LEMMA LexNextScans == [LexNext]_allVars => [Scan]_vars
  <1> SUFFICES ASSUME [LexNext]_allVars PROVE Scan \/ UNCHANGED vars
    OBVIOUS
  <1> USE DEF Scan, fileVars
  <1>1. CASE Call \/ SkipBlank \/ SkipBlankNext \/ Match \/ Matched \/ Mismatched
    BY <1>1 DEF Call, SkipBlank, SkipBlankNext, Match, Matched, Mismatched, Scanned
  <1>2. CASE SkipComment \/ SkipCommentNext \/ NumberMove \/ NumberFails \/ NumberEnds
    BY <1>2 DEF SkipComment, SkipCommentNext, NumberMove, NumberFails, NumberEnds,
                Scanned
  <1>3. CASE WordScan \/ WordEnds \/ NoWord
    BY <1>3 DEF WordScan, WordEnds, NoWord
  <1>4. CASE EatPunct \/ EatPunctNext \/ Single \/ SingleNext \/ NothingElse
    BY <1>4 DEF EatPunct, EatPunctNext, Single, SingleNext, NothingElse, Scanned
  <1>5. CASE UNCHANGED allVars
    BY <1>5 DEF allVars
  <1>6. QED
    BY <1>1, <1>2, <1>3, <1>4, <1>5 DEF LexNext, NextTokenStep

(* A run of the lexer is one pass over the file. *)
THEOREM LexerScans == LexSpec => ScanSpec
  <1>1. LexInit => Init
    BY DEF LexInit
  <1>2. QED
    BY <1>1, LexNextScans, PTL DEF LexSpec, ScanSpec

(* So the lexer never looks at a wrong character: SourceFile's promise     *)
(* holds under the look-aheads and roll-backs NextToken really makes.      *)
THEOREM LexerSeesText == LexSpec => []PeekIsNextChar
  BY LexerScans, PeekAlwaysExact, PTL

-----------------------------------------------------------------------------
(* What the lexer sees, and what the file's operations do to it *)

(* In one pass the character shown is that of the text behind extent, or the end. *)
LEMMA ShownFacts ==
  ASSUME TypeOK, ScanInv, status = "ok"
  PROVE  /\ Shown = kEOF <=> Peek = kEOF
         /\ Peek # kEOF => /\ pos < Len(text) /\ pos = mark + extent
                           /\ Shown = text[pos + 1] /\ Shown \in Chars
  <1>1. /\ pos \in Nat /\ Len(text) \in Nat /\ kEOF \notin Nat
        /\ text \in Seq(Chars) /\ pos = mark + extent /\ pos <= Len(text)
    <2>1. stream.text \in Texts
      BY DEF TypeOK, Stream
    <2>2. text \in Seq(Chars)
      BY <2>1, TextAssumption DEF text
    <2>3. QED
      BY <2>2, NumberTypes, FileTypes, CellAssumption DEF ScanInv, PositionsAgree
  <1>2. Peek = kEOF \/ (Peek = pos /\ pos # Len(text))
    BY PeekFacts
  <1>3. CASE Peek = kEOF
    BY <1>1, <1>3 DEF Shown
  <1>4. CASE Peek = pos /\ pos # Len(text)
    <2>1. pos \in 0..(Len(text) - 1) /\ pos + 1 \in 1..Len(text)
      BY <1>1, <1>4
    <2>2. Shown = text[pos + 1] /\ text[pos + 1] \in Chars
      BY <1>1, <1>4, <2>1 DEF Shown
    <2>3. QED
      BY <1>1, <1>4, <2>2, EndAssumption
  <1>5. QED
    BY <1>2, <1>3, <1>4

(* ScanChar makes the lexeme one character of the text longer. *)
LEMMA ScanEffect ==
  ASSUME TypeOK, ScanInv, TypeOK', ScanInv', ScanChar
  PROVE  /\ extent' = extent + 1 /\ extent \in Nat /\ mark \in Nat
         /\ mark + extent < Len(text) /\ Len(text) \in Nat
         /\ Shown = text[mark + extent + 1] /\ Shown \in Chars
         /\ UNCHANGED <<text, mark, start_location>>
         /\ status' \in {"ok", "threw"}
  <1>1. status = "ok" /\ Peek # kEOF /\ extent' = extent + 1
        /\ start_location' = start_location
    BY DEF ScanChar
  <1>2. UNCHANGED <<text, mark>> /\ status' \in {"ok", "threw"}
    BY ScanCharMoves
  <1>3. QED
    BY <1>1, <1>2, ShownFacts, NumberTypes, FileTypes

(* NextLexeme starts an empty lexeme. *)
LEMMA NextEffect ==
  ASSUME NextLexeme
  PROVE  /\ status = "ok" /\ status' = "ok" /\ extent' = 0 /\ text' = text
  BY DEF NextLexeme, blocks, text

(* ResetForward empties the lexeme and keeps its start. *)
LEMMA RollEffect ==
  ASSUME ResetForward
  PROVE  /\ status = "ok" /\ status' = "ok" /\ extent' = 0
         /\ UNCHANGED <<text, mark, start_location>>
  BY DEF ResetForward, blocks, text, mark

(* A step without a file operation shows the same file. *)
LEMMA RestEffect ==
  ASSUME UNCHANGED fileVars
  PROVE  UNCHANGED <<text, mark, extent, start_location, status, Shown, Peek>>
  BY DEF fileVars, vars, cursor, blocks, text, mark, Shown, Peek

-----------------------------------------------------------------------------
(* The inductive invariant of NextToken *)

(* Patterns are sequences of characters. *)
LEMMA PatternFacts ==
  ASSUME NEW p \in 1..Len(Patterns)
  PROVE  /\ Patterns[p] \in Seq(Chars) /\ Len(Patterns[p]) \in Nat
         /\ \A j \in 1..Len(Patterns[p]) : Patterns[p][j] \in Chars
  BY PatternAssumption

(* A step that returns no token keeps LexemesAreText. *)
LEMMA KeepTokens ==
  ASSUME LexemesAreText, text' = text, tokens' = tokens
  PROVE  LexemesAreText'
  BY DEF LexemesAreText, TextAt

(* Returning a word that is the text at location keeps LexemesAreText. *)
LEMMA DeliverKeeps ==
  ASSUME NEW tag \in Tags, NEW word \in Seq(Chars), Deliver(tag, word),
         TextAt(location.pos, word), location \in Location, tokens \in Seq(Token),
         LexemesAreText, text' = text, TypeOK'
  PROVE  LexemesAreText' /\ tokens' \in Seq(Token)
  <1> DEFINE token == [tag |-> tag, lexeme |-> word, location |-> location,
                       to |-> start_location'.pos]
  <1>1. start_location'.pos \in Nat
    BY DEF TypeOK, Location
  <1>2. token \in Token
    BY <1>1 DEF Token
  <1>3. tokens' = Append(tokens, token)
    BY DEF Deliver
  <1>4. tokens' \in Seq(Token)
    BY <1>2, <1>3
  <1> HIDE DEF token
  <1>5. /\ DOMAIN tokens' = 1..(Len(tokens) + 1) /\ Len(tokens) \in Nat
        /\ tokens'[Len(tokens) + 1] = token
        /\ \A i \in DOMAIN tokens : tokens'[i] = tokens[i]
        /\ DOMAIN tokens = 1..Len(tokens)
    BY <1>2, <1>3
  <1>6. token.location = location /\ token.lexeme = word
    BY DEF token
  <1>7. ASSUME NEW i \in DOMAIN tokens'
        PROVE  TextAt(tokens'[i].location.pos, tokens'[i].lexeme)
    <2>1. CASE i \in DOMAIN tokens
      BY <1>5, <2>1 DEF LexemesAreText
    <2>2. CASE i = Len(tokens) + 1
      BY <1>5, <1>6, <2>2
    <2>3. QED
      BY <1>5, <2>1, <2>2
  <1>8. LexemesAreText'
    BY <1>7 DEF LexemesAreText, TextAt
  <1>9. QED
    BY <1>4, <1>8

(* The lexer before its first call, and before the first one after a Reset *)
Fresh ==
  /\ status = "ok" /\ extent = 0
  /\ forward_location = Begin /\ start_location = Begin
  /\ at = "idle" /\ location = Begin /\ word_table = KeyWords /\ tokens = <<>>

(* The constructed lexer is one.                                           *)
LEMMA FreshInit == LexInit => Fresh /\ TokensTyped
  <1> SUFFICES ASSUME LexInit PROVE Fresh /\ TokensTyped
    OBVIOUS
  <1>1. Fresh
    BY DEF LexInit, Init, Fresh
  <1>2. TokensTyped
    BY PatternAssumption DEF LexInit, TokensTyped, Begin, Location, KeyWords, Tags
  <1> QED
    BY <1>1, <1>2

(* It satisfies LexInv. *)
LEMMA FreshLex == ASSUME TokensTyped, Fresh PROVE LexInv
  BY DEF LexInv, Scanning, Located, LexemesAreText, Fresh

(* Blanks, comments, and the calls themselves *)
LEMMA BlankStep ==
  ASSUME TypeOK, ScanInv, LexInv, TypeOK', ScanInv',
         Call \/ SkipBlank \/ SkipBlankNext \/ SkipComment \/ SkipCommentNext
  PROVE  LexInv'
  <1> USE DEF LexInv
  <1>1. text' = text /\ tokens' = tokens
    BY ScanEffect, NextEffect, RestEffect
       DEF Call, SkipBlank, SkipBlankNext, SkipComment, SkipCommentNext, Scanned,
           tokenVars
  <1>2. TokensTyped'
    BY PatternAssumption
       DEF TokensTyped, Call, SkipBlank, SkipBlankNext, SkipComment,
           SkipCommentNext, LookFor, tokenVars
  <1>3. Scanning' /\ Located'
    <2>1. CASE Call
      BY <2>1, RestEffect DEF Call, Scanning, Located
    <2>2. CASE SkipBlank /\ Shown \in Blanks
      BY <2>2, ScanEffect DEF SkipBlank, Goto, Scanning, Located, LookFor
    <2>3. CASE SkipBlank /\ Shown \notin Blanks
      BY <2>3, RestEffect, PatternAssumption, PatternFacts
         DEF SkipBlank, Scanning, Located, LookFor
    <2>4. CASE SkipBlankNext \/ SkipCommentNext
      BY <2>4, NextEffect DEF SkipBlankNext, SkipCommentNext, Scanning, Located
    <2>5. CASE SkipComment
      BY <2>5, ScanEffect, RestEffect DEF SkipComment, Scanned, Goto, Scanning, Located
    <2>6. QED
      BY <2>1, <2>2, <2>3, <2>4, <2>5 DEF SkipBlank
  <1>4. QED
    BY <1>1, <1>2, <1>3, KeepTokens

(* StartWith *)
LEMMA PatternStep ==
  ASSUME TypeOK, ScanInv, LexInv, TypeOK', ScanInv', Match \/ Matched \/ Mismatched
  PROVE  LexInv'
  <1> USE DEF LexInv
  <1>1. text' = text /\ tokens' = tokens
    BY ScanEffect, RollEffect, RestEffect
       DEF Match, Matched, Mismatched, Scanned, tokenVars
  <1>2. TokensTyped'
    <2>1. CASE Match
      BY <2>1 DEF TokensTyped, Match, tokenVars
    <2>2. CASE Matched
      BY <2>2 DEF TokensTyped, Matched, tokenVars
    <2>3. CASE Mismatched
      <3>1. location' \in Location /\ lexeme' \in Seq(Chars)
            /\ UNCHANGED <<tokens, word_table>>
        <4>1. start_location \in Location
          BY DEF TypeOK
        <4>2. <<>> \in Seq(Chars)
          OBVIOUS
        <4>3. location' \in {location, start_location} /\ lexeme' \in {lexeme, <<>>}
              /\ UNCHANGED <<tokens, word_table>>
          BY <2>3 DEF Mismatched
        <4>4. QED
          BY <4>1, <4>2, <4>3 DEF TokensTyped
      <3>2. pattern' \in 1..Len(Patterns) /\ matched' \in Nat
        BY <2>3, PatternAssumption DEF TokensTyped, Mismatched, LookFor
      <3>3. QED
        BY <3>1, <3>2 DEF TokensTyped
    <2>4. QED
      BY <2>1, <2>2, <2>3
  <1>3. CASE Match
    <2>1. /\ matched \in Nat /\ pattern \in 1..Len(Patterns) /\ status = "ok"
          /\ matched < Len(Patterns[pattern]) /\ Len(Patterns[pattern]) \in Nat
          /\ Patterns[pattern][matched + 1] \in Chars
          /\ UNCHANGED <<pattern, location>> /\ extent = matched
          /\ \A j \in 1..matched : mark + j <= Len(text)
                                   /\ Patterns[pattern][j] = text[mark + j]
      BY <1>3, PatternFacts DEF Match, TokensTyped, Scanning, tokenVars
    <2>2. CASE ScanChar /\ Shown = Patterns[pattern][matched + 1]
      <3>1. matched' = matched + 1 /\ at' \in {"match", "failed"}
            /\ (at' = "match" => status' = "ok")
        BY <1>3, <2>2 DEF Match, Goto
      <3>2. /\ extent' = matched' /\ matched' <= Len(Patterns[pattern])
            /\ \A j \in 1..matched' : mark + j <= Len(text)
                                      /\ Patterns[pattern][j] = text[mark + j]
        BY <2>1, <2>2, <3>1, ScanEffect
      <3>3. QED
        BY <1>1, <1>2, <1>3, <2>1, <2>2, <3>1, <3>2, KeepTokens, ScanEffect
           DEF Scanning, Located, Match
    <2>3. CASE ScanChar /\ Shown # Patterns[pattern][matched + 1]
      BY <1>1, <1>2, <1>3, <2>1, <2>3, KeepTokens, ScanEffect
         DEF Scanning, Located, Match, Goto
    <2>4. CASE Peek = kEOF /\ UNCHANGED fileVars
      <3>1. Shown # Patterns[pattern][matched + 1]
        BY <2>1, <2>4, ShownFacts, EndAssumption
      <3>2. QED
        BY <1>1, <1>2, <1>3, <2>1, <2>4, <3>1, KeepTokens, RestEffect
           DEF Scanning, Located, Match, Goto
    <2>5. QED
      BY <1>3, <2>2, <2>3, <2>4 DEF Match, Scanned
  <1>4. CASE Matched
    <2>1. at' = "eat" => TextAt(location.pos, Patterns[pattern])'
      BY <1>1, <1>4, RollEffect
         DEF Matched, Scanning, Located, TextAt, mark, TokensTyped, tokenVars
    <2>2. QED
      BY <1>1, <1>2, <1>4, <2>1, KeepTokens, RollEffect
         DEF Matched, Scanning, Located
  <1>5. CASE Mismatched
    <2>1. status' = "ok" /\ extent' = 0 /\ UNCHANGED <<mark, start_location>>
      BY <1>5, RollEffect DEF Mismatched
    <2>2. /\ at' \in {"number", "match", "single"}
          /\ at' = "number" => lexeme' = <<>> /\ location' = start_location
          /\ at' = "match" => matched' = 0
          /\ at' # "number" => pattern > 1 /\ location' = location
      BY <1>5 DEF Mismatched, LookFor
    <2>3. Scanning'
      BY <1>2, <2>1, <2>2, PatternFacts DEF Scanning, TextAt, TokensTyped
    <2>4. Located'
      BY <1>5, <2>1, <2>2 DEF Located, Mismatched
    <2>5. QED
      BY <1>1, <1>2, <2>3, <2>4, KeepTokens
  <1>6. QED
    BY <1>3, <1>4, <1>5

(* One more character goes into lexeme_buffer_ *)
LEMMA LexemeGrows ==
  ASSUME TypeOK, ScanInv, TypeOK', ScanInv', ScanChar, lexeme \in Seq(Chars),
         extent = Len(lexeme), TextAt(mark, lexeme), lexeme' = Append(lexeme, Shown)
  PROVE  lexeme' \in Seq(Chars) /\ extent' = Len(lexeme') /\ TextAt(mark, lexeme)'
  <1> DEFINE n == Len(lexeme) + 1
  <1>1. /\ Shown \in Chars /\ Shown = text[mark + n] /\ mark + n <= Len(text)
        /\ extent' = n /\ UNCHANGED <<text, mark>> /\ mark \in Nat
    BY ScanEffect
  <1>2. /\ lexeme' \in Seq(Chars) /\ Len(lexeme') = n /\ lexeme'[n] = Shown
        /\ \A j \in 1..Len(lexeme) : lexeme'[j] = lexeme[j]
    BY <1>1
  <1>3. \A j \in 1..n : mark + j <= Len(text) /\ lexeme'[j] = text[mark + j]
    <2>1. \A j \in 1..n : j \in 1..Len(lexeme) \/ j = n
      OBVIOUS
    <2>2. QED
      BY <1>1, <1>2, <2>1 DEF TextAt
  <1>4. QED
    BY <1>1, <1>2, <1>3 DEF TextAt

(* GetNumber *)
LEMMA NumberStep ==
  ASSUME TypeOK, ScanInv, LexInv, TypeOK', ScanInv',
         NumberMove \/ NumberFails \/ NumberEnds
  PROVE  LexInv'
  <1> USE DEF LexInv
  <1>0. /\ at = "number" /\ location = start_location /\ lexeme \in Seq(Chars)
        /\ extent = Len(lexeme) /\ TextAt(mark, lexeme) /\ status = "ok"
    BY DEF NumberMove, NumberFails, NumberEnds, Scanning, Located, TokensTyped
  <1>1. CASE NumberMove
    <2>1. /\ UNCHANGED <<pattern, matched, location, word_table, tokens>>
          /\ at' \in {"number", "failed"}
          /\ \/ ScanChar /\ lexeme' = Append(lexeme, Shown)
                /\ (at' = "number" => status' = "ok")
             \/ UNCHANGED fileVars /\ lexeme' = lexeme
      BY <1>1 DEF NumberMove, Goto, tokenVars
    <2>2. CASE ScanChar /\ lexeme' = Append(lexeme, Shown)
                        /\ (at' = "number" => status' = "ok")
      <3>1. /\ lexeme' \in Seq(Chars) /\ extent' = Len(lexeme')
            /\ TextAt(mark, lexeme)' /\ UNCHANGED <<text, start_location>>
        BY <1>0, <2>2, LexemeGrows, ScanEffect
      <3>2. TokensTyped'
        BY <2>1, <3>1 DEF TokensTyped
      <3>3. Scanning' /\ Located'
        BY <1>0, <2>1, <2>2, <3>1 DEF Scanning, Located
      <3>4. QED
        BY <2>1, <3>1, <3>2, <3>3, KeepTokens
    <2>3. CASE UNCHANGED fileVars /\ lexeme' = lexeme
      <3>1. UNCHANGED <<text, mark, extent, start_location, status>>
        BY <2>3, RestEffect
      <3>2. TokensTyped'
        BY <2>1, <2>3 DEF TokensTyped
      <3>3. TextAt(mark, lexeme)'
        BY <1>0, <2>3, <3>1 DEF TextAt
      <3>4. Scanning' /\ Located'
        BY <1>0, <2>1, <2>3, <3>1, <3>3 DEF Scanning, Located
      <3>5. QED
        BY <2>1, <3>1, <3>2, <3>4, KeepTokens
    <2>4. QED
      BY <2>1, <2>2, <2>3
  <1>2. CASE NumberFails
    <2>1. /\ status' = "ok" /\ extent' = 0
          /\ UNCHANGED <<text, mark, start_location>>
      BY <1>2, RollEffect DEF NumberFails
    <2>2. /\ at' = "word" /\ lexeme' = <<>>
          /\ UNCHANGED <<pattern, matched, location, word_table, tokens>>
      BY <1>2 DEF NumberFails, tokenVars
    <2>3. TokensTyped' /\ Scanning' /\ Located'
      BY <1>0, <2>1, <2>2 DEF TokensTyped, Scanning, Located, TextAt
    <2>4. QED
      BY <2>1, <2>2, <2>3, KeepTokens
  <1>3. CASE NumberEnds
    <2>1. status' = "ok" /\ extent' = 0 /\ text' = text /\ word_table' = word_table
      BY <1>3, NextEffect DEF NumberEnds
    <2>2. CASE Deliver("kNumber", lexeme)
      <3>1. "kNumber" \in Tags /\ location \in Location /\ tokens \in Seq(Token)
        BY DEF Tags, TokensTyped
      <3>2. TextAt(location.pos, lexeme)
        BY <1>0 DEF mark
      <3>3. LexemesAreText' /\ tokens' \in Seq(Token)
        BY <1>0, <2>1, <2>2, <3>1, <3>2, DeliverKeeps
      <3>4. TokensTyped'
        BY <2>1, <2>2, <3>3 DEF TokensTyped, Deliver
      <3>5. Scanning' /\ Located'
        BY <2>1, <2>2 DEF Scanning, Located, Deliver
      <3>6. QED
        BY <3>3, <3>4, <3>5
    <2>3. CASE at' = "failed" /\ UNCHANGED <<state, lexeme, peek_char, pattern,
                                             matched, location, tokens>>
      BY <2>1, <2>3, KeepTokens DEF TokensTyped, Scanning, Located
    <2>4. QED
      BY <1>3, <2>2, <2>3 DEF NumberEnds
  <1>4. QED
    BY <1>1, <1>2, <1>3

(* GetIdAndWord *)
LEMMA WordStep ==
  ASSUME TypeOK, ScanInv, LexInv, TypeOK', ScanInv', WordScan \/ WordEnds \/ NoWord
  PROVE  LexInv'
  <1> USE DEF LexInv
  <1>0. /\ at = "word" /\ location = start_location /\ lexeme \in Seq(Chars)
        /\ extent = Len(lexeme) /\ TextAt(mark, lexeme) /\ status = "ok"
    BY DEF WordScan, WordEnds, NoWord, Scanning, Located, TokensTyped
  <1>1. CASE WordScan
    <2>1. /\ UNCHANGED <<pattern, matched, location, word_table, tokens>>
          /\ at' \in {"word", "failed"} /\ (at' = "word" => status' = "ok")
          /\ ScanChar /\ lexeme' = Append(lexeme, Shown)
      BY <1>1 DEF WordScan, Goto, tokenVars
    <2>2. /\ lexeme' \in Seq(Chars) /\ extent' = Len(lexeme')
          /\ TextAt(mark, lexeme)' /\ UNCHANGED <<text, start_location>>
      BY <1>0, <2>1, LexemeGrows, ScanEffect
    <2>3. TokensTyped'
      BY <2>1, <2>2 DEF TokensTyped
    <2>4. Scanning' /\ Located'
      BY <1>0, <2>1, <2>2 DEF Scanning, Located
    <2>5. QED
      BY <2>1, <2>2, <2>3, <2>4, KeepTokens
  <1>2. CASE WordEnds
    <2>1. status' = "ok" /\ extent' = 0 /\ text' = text
      BY <1>2, NextEffect DEF WordEnds
    <2>2. InsertWord(lexeme) /\ Deliver(word_table'[Key(lexeme)].tag, lexeme)
      BY <1>2 DEF WordEnds
    <2>3. /\ \A w \in DOMAIN word_table' : word_table'[w].tag \in Tags
          /\ word_table'[Key(lexeme)].tag \in Tags
      BY <2>2 DEF InsertWord, TokensTyped, Tags, Key
    <2>4. TextAt(location.pos, lexeme)
      BY <1>0 DEF mark
    <2>5. location \in Location /\ tokens \in Seq(Token)
      BY DEF TokensTyped
    <2>6. LexemesAreText' /\ tokens' \in Seq(Token)
      BY <1>0, <2>1, <2>2, <2>3, <2>4, <2>5, DeliverKeeps
    <2>7. TokensTyped'
      BY <2>2, <2>3, <2>6 DEF TokensTyped, Deliver
    <2>8. Scanning' /\ Located'
      BY <2>1, <2>2 DEF Scanning, Located, Deliver
    <2>9. QED
      BY <2>6, <2>7, <2>8
  <1>3. CASE NoWord
    <2>1. /\ UNCHANGED <<text, mark, extent, start_location, status>>
          /\ at' = "match" /\ pattern' = 2 /\ matched' = 0 /\ extent = 0
          /\ UNCHANGED <<lexeme, location, word_table, tokens>>
      BY <1>0, <1>3, RestEffect DEF NoWord, LookFor, tokenVars
    <2>2. TokensTyped' /\ Scanning' /\ Located'
      BY <1>0, <2>1, PatternAssumption, PatternFacts DEF TokensTyped, Scanning, Located
    <2>3. QED
      BY <2>1, <2>2, KeepTokens
  <1>4. QED
    BY <1>1, <1>2, <1>3

(* GetPunctuator, and what is left *)
LEMMA PunctuatorStep ==
  ASSUME TypeOK, ScanInv, LexInv, TypeOK', ScanInv',
         EatPunct \/ EatPunctNext \/ Single \/ SingleNext \/ NothingElse
  PROVE  LexInv'
  <1> USE DEF LexInv
  <1>0. /\ location \in Location /\ tokens \in Seq(Token)
        /\ pattern \in 1..Len(Patterns) /\ Patterns[pattern] \in Seq(Chars)
    BY PatternFacts DEF TokensTyped
  <1>1. CASE EatPunct
    <2>1. text' = text /\ at' \in {"eat_next", "failed"}
          /\ (at' = "eat_next" => status' = "ok")
          /\ UNCHANGED <<lexeme, peek_char, pattern, matched, location, word_table, tokens>>
      BY <1>1, ScanEffect, RestEffect DEF EatPunct, Scanned, Goto, tokenVars
    <2>2. TokensTyped' /\ Scanning' /\ Located'
      BY <1>1, <2>1 DEF EatPunct, TokensTyped, Scanning, Located, TextAt
    <2>3. QED
      BY <2>1, <2>2, KeepTokens
  <1>2. CASE EatPunctNext
    <2>1. /\ status' = "ok" /\ extent' = 0 /\ text' = text /\ word_table' = word_table
          /\ TextAt(location.pos, Patterns[pattern])
      BY <1>2, NextEffect DEF EatPunctNext, Scanning
    <2>2. CASE Deliver("kPunctuator", Patterns[pattern])
      <3>1. LexemesAreText' /\ tokens' \in Seq(Token)
        BY <1>0, <2>1, <2>2, DeliverKeeps DEF Tags
      <3>2. TokensTyped'
        BY <2>1, <2>2, <3>1 DEF TokensTyped, Deliver
      <3>3. Scanning' /\ Located'
        BY <2>1, <2>2 DEF Scanning, Located, Deliver
      <3>4. QED
        BY <3>1, <3>2, <3>3
    <2>3. CASE /\ matched > 1 /\ at' = "eat" /\ matched' = matched - 1
               /\ UNCHANGED <<state, lexeme, peek_char, pattern, location, tokens>>
      <3>1. TokensTyped'
        BY <2>1, <2>3 DEF TokensTyped
      <3>2. Scanning' /\ Located'
        BY <2>1, <2>3 DEF Scanning, Located, TextAt
      <3>3. QED
        BY <2>1, <2>3, <3>1, <3>2, KeepTokens
    <2>4. QED
      BY <1>2, <2>2, <2>3 DEF EatPunctNext
  <1>3. CASE Single
    <2>1. /\ at = "single" /\ extent = 0 /\ location = start_location
          /\ peek_char' = Shown /\ ScanChar /\ at' \in {"single_next", "failed"}
          /\ (at' = "single_next" => status' = "ok")
          /\ UNCHANGED <<lexeme, pattern, matched, location, word_table, tokens>>
      BY <1>3 DEF Single, Scanning, Located, Goto, tokenVars
    <2>2. /\ UNCHANGED <<text, mark, start_location>> /\ Shown \in Chars
          /\ mark + 1 <= Len(text) /\ Shown = text[mark + 1]
      BY <2>1, ScanEffect
    <2>3. TokensTyped'
      BY <2>1 DEF TokensTyped
    <2>4. TextAt(mark, <<peek_char>>)'
      BY <2>1, <2>2 DEF TextAt
    <2>5. Scanning' /\ Located'
      BY <2>1, <2>2, <2>4 DEF Scanning, Located
    <2>6. QED
      BY <2>1, <2>2, <2>3, <2>5, KeepTokens
  <1>4. CASE SingleNext
    <2>1. /\ status' = "ok" /\ extent' = 0 /\ text' = text /\ word_table' = word_table
          /\ peek_char \in Chars /\ TextAt(location.pos, <<peek_char>>)
          /\ Deliver("kPunctuator", <<peek_char>>)
      BY <1>4, NextEffect DEF SingleNext, Scanning, Located, mark
    <2>2. <<peek_char>> \in Seq(Chars) /\ "kPunctuator" \in Tags
      BY <2>1 DEF Tags
    <2>3. LexemesAreText' /\ tokens' \in Seq(Token)
      BY <1>0, <2>1, <2>2, DeliverKeeps
    <2>4. TokensTyped'
      BY <2>1, <2>3 DEF TokensTyped, Deliver
    <2>5. Scanning' /\ Located'
      BY <2>1 DEF Scanning, Located, Deliver
    <2>6. QED
      BY <2>3, <2>4, <2>5
  <1>5. CASE NothingElse
    <2>1. /\ UNCHANGED <<text, extent, status>> /\ extent = 0 /\ status = "ok"
          /\ word_table' = word_table
      BY <1>5, RestEffect DEF NothingElse, Scanning, Fail, tokenVars
    <2>2. CASE Deliver("kEOF", <<>>)
      <3>1. <<>> \in Seq(Chars) /\ "kEOF" \in Tags /\ TextAt(location.pos, <<>>)
        BY DEF Tags, TextAt
      <3>2. LexemesAreText' /\ tokens' \in Seq(Token)
        BY <1>0, <2>1, <2>2, <3>1, DeliverKeeps
      <3>3. TokensTyped'
        BY <2>1, <2>2, <3>2 DEF TokensTyped, Deliver
      <3>4. Scanning' /\ Located'
        BY <2>1, <2>2 DEF Scanning, Located, Deliver
      <3>5. QED
        BY <3>2, <3>3, <3>4
    <2>3. CASE Fail /\ UNCHANGED <<state, lexeme, peek_char, pattern, matched>>
      BY <2>1, <2>3, KeepTokens DEF Fail, tokenVars, TokensTyped, Scanning, Located
    <2>4. QED
      BY <1>5, <2>2, <2>3 DEF NothingElse
  <1>6. QED
    BY <1>1, <1>2, <1>3, <1>4, <1>5

(* Every step of NextToken keeps LexInv. *)
LEMMA LexInvStep ==
  TypeOK /\ ScanInv /\ LexInv /\ TypeOK' /\ ScanInv' /\ [LexNext]_allVars => LexInv'
  <1> SUFFICES ASSUME TypeOK, ScanInv, LexInv, TypeOK', ScanInv', [LexNext]_allVars
               PROVE  LexInv'
    OBVIOUS
  <1>1. CASE UNCHANGED allVars
    <2>1. /\ UNCHANGED <<text, mark, extent, start_location, status>>
          /\ UNCHANGED <<at, lexeme, peek_char, pattern, matched, location,
                         word_table, tokens>>
      BY <1>1, RestEffect DEF allVars, lexVars, tokenVars
    <2>2. TokensTyped' /\ Located' /\ LexemesAreText'
      BY <2>1 DEF LexInv, TokensTyped, Located, LexemesAreText, TextAt
    <2>3. Scanning'
      BY <2>1 DEF LexInv, Scanning, TextAt
    <2>4. QED
      BY <2>2, <2>3 DEF LexInv
  <1>2. QED
    BY <1>1, BlankStep, PatternStep, NumberStep, WordStep, PunctuatorStep
       DEF LexNext, NextTokenStep

(* The whole invariant, by induction over the steps of NextToken *)
THEOREM LexInvariant == LexSpec => []LexInv
  <1>1. ScanSpec => []TypeOK
    <2>1. Init => TypeOK /\ RollbackInReach
      BY InitTypes
    <2>2. TypeOK /\ RollbackInReach /\ [Scan]_vars => TypeOK' /\ RollbackInReach'
      BY ReachInvariant DEF Next
    <2>3. QED
      BY <2>1, <2>2, PTL DEF ScanSpec
  <1>2. QED
    BY <1>1, LexerScans, ScanInvariant, FreshInit, FreshLex, LexInvStep, PTL DEF LexSpec

(* The lexeme of every token is the text at the token's location, however  *)
(* often NextToken looked ahead, gave up and rolled back before, and       *)
(* wherever the block boundaries are.                                      *)
THEOREM LexemesTrue == LexSpec => []LexemesAreText
  BY LexInvariant, PTL DEF LexInv

-----------------------------------------------------------------------------
(***************************************************************************)
(* One pass of the lexer is a TokenSource: what the parser is written      *)
(* over.  The hard part is the end of the file, which once reported has to *)
(* be reported at every further call, although NextToken looks for blanks, *)
(* comments, numbers, words and punctuators there each time.               *)
(***************************************************************************)

(* No word has the tag of the end of the file.                             *)
WordTags ==
  \A w \in DOMAIN word_table :
    word_table[w].tag \in {"kIdentifier", "kKwDef", "kKwExtern"}

(* Behind the end of the file NextToken finds nothing, wherever it is.     *)
AtEndOfFile ==
  AtEnd /\ at # "failed" =>
    /\ Peek = kEOF /\ extent = 0
    /\ at \in {"idle", "blank", "match", "mismatch", "number", "word", "single"}

EndInv == WordTags /\ AtEndOfFile

(* A step returns a token or leaves the tokens alone, and only NothingElse *)
(* returns the end of the file.                                            *)
LEMMA StepReturns ==
  ASSUME LexNext, WordTags
  PROVE  /\ at # "failed"
         /\ \/ tokens' = tokens
            \/ \E tag \in Tags : \E word :
                 /\ Deliver(tag, word)
                 /\ tag = "kEOF" => NothingElse /\ Peek = kEOF
  <1>1. CASE Call \/ SkipBlank \/ SkipBlankNext \/ Match \/ Matched \/ Mismatched
    BY <1>1 DEF Call, SkipBlank, SkipBlankNext, Match, Matched, Mismatched, tokenVars
  <1>2. CASE SkipComment \/ SkipCommentNext \/ NumberMove \/ NumberFails
    BY <1>2 DEF SkipComment, SkipCommentNext, NumberMove, NumberFails, tokenVars
  <1>3. CASE NumberEnds
    BY <1>3 DEF NumberEnds, Tags
  <1>4. CASE WordScan \/ NoWord \/ EatPunct \/ Single
    BY <1>4 DEF WordScan, NoWord, EatPunct, Single, tokenVars
  <1>5. CASE WordEnds
    <2>1. word_table'[Key(lexeme)].tag \in {"kIdentifier", "kKwDef", "kKwExtern"}
      BY <1>5 DEF WordEnds, InsertWord, WordTags, Key
    <2> QED
      BY <1>5, <2>1 DEF WordEnds, Tags
  <1>6. CASE EatPunctNext \/ SingleNext
    BY <1>6 DEF EatPunctNext, SingleNext, Tags
  <1>7. CASE NothingElse
    BY <1>7 DEF NothingElse, Fail, tokenVars, Tags
  <1> QED
    BY <1>1, <1>2, <1>3, <1>4, <1>5, <1>6, <1>7 DEF LexNext, NextTokenStep

(* Nothing but InsertId changes the table, and it puts no such tag there.  *)
LEMMA WordTagsStep ==
  ASSUME [LexNext]_allVars, WordTags
  PROVE  WordTags'
  <1>1. CASE WordEnds
    BY <1>1 DEF WordEnds, InsertWord, WordTags, Key
  <1>2. CASE LexNext /\ ~WordEnds
    <2>1. word_table' = word_table
      BY <1>2 DEF LexNext, NextTokenStep, Call, SkipBlank, SkipBlankNext, Match, Matched,
         Mismatched, SkipComment, SkipCommentNext, NumberMove, NumberFails, NumberEnds,
         WordScan, NoWord, EatPunct, EatPunctNext, Single, SingleNext, NothingElse, Fail,
         tokenVars
    <2> QED
      BY <2>1 DEF WordTags
  <1>3. CASE UNCHANGED allVars
    BY <1>3 DEF WordTags, allVars, lexVars, tokenVars
  <1> QED
    BY <1>1, <1>2, <1>3

(* Where nothing was scanned, rolling back moves nothing.                  *)
LEMMA RollInPlace ==
  ASSUME TypeOK, ScanInv, extent = 0, ResetForward
  PROVE  Peek' = Peek /\ extent' = 0
  <1>1. status = "ok"
    BY DEF ResetForward
  <1>2. forward_buffer_idx = start_buffer_idx /\ forward = begin
    <2>1. CASE forward_buffer_idx # start_buffer_idx
      BY <1>1, <2>1, LastPositive DEF TypeOK, ScanInv, PositionsAgree, NotOnSentinel
    <2>2. CASE forward_buffer_idx = start_buffer_idx
      BY <1>1, <2>2, LastPositive DEF TypeOK, ScanInv, PositionsAgree
    <2> QED
      BY <2>1, <2>2
  <1> QED
    BY <1>2 DEF ResetForward, blocks, Peek

(* The step behind the end of the file: it stays there.                    *)
LEMMA EndStays ==
  ASSUME TypeOK, ScanInv, LexInv, EndInv, AtEnd, LexNext, tokens' = tokens
  PROVE  AtEndOfFile'
  <1> SUFFICES ASSUME at' # "failed" PROVE AtEndOfFile'
    BY DEF AtEndOfFile
  <1>1. /\ Peek = kEOF /\ extent = 0 /\ status = "ok" /\ Shown = kEOF
        /\ at \in {"idle", "blank", "match", "mismatch", "number", "word", "single"}
    BY StepReturns, ShownFacts DEF EndInv, AtEndOfFile, LexInv, Scanning
  <1>2. ~ScanChar
    BY <1>1 DEF ScanChar
  <1>3. ASSUME UNCHANGED fileVars PROVE Peek' = kEOF /\ extent' = 0
    BY <1>1, <1>3, RestEffect
  <1>4. CASE Call \/ SkipBlank \/ NoWord \/ WordScan \/ Single
    BY <1>1, <1>2, <1>3, <1>4
       DEF AtEndOfFile, Call, SkipBlank, NoWord, WordScan, Single, LookFor
  <1>5. CASE Match
    <2>1. /\ pattern \in 1..Len(Patterns) /\ matched = 0 /\ matched < Len(Patterns[pattern])
      BY <1>1, <1>5 DEF Match, LexInv, Scanning, TokensTyped
    <2>2. Patterns[pattern][matched + 1] \in Chars
      BY <2>1, PatternFacts
    <2>3. Shown # Patterns[pattern][matched + 1]
      BY <1>1, <2>2, EndAssumption
    <2> QED
      BY <1>1, <1>2, <1>3, <1>5, <2>3 DEF AtEndOfFile, Match, Scanned, Goto
  <1>6. CASE Matched
    <2>1. /\ pattern \in 1..Len(Patterns) /\ matched = 0 /\ matched = Len(Patterns[pattern])
      BY <1>1, <1>6 DEF Matched, LexInv, Scanning, TokensTyped
    <2>2. Patterns[pattern] \in Seq(Chars) /\ Patterns[pattern] # <<>>
      BY <2>1, PatternAssumption
    <2> QED
      BY <2>1, <2>2
  <1>7. CASE Mismatched \/ NumberFails
    <2>1. Peek' = kEOF /\ extent' = 0
      BY <1>1, <1>7, RollInPlace DEF Mismatched, NumberFails
    <2> QED
      BY <1>7, <2>1 DEF AtEndOfFile, Mismatched, NumberFails, LookFor
  <1>8. CASE NumberMove \/ NumberEnds
    BY <1>1, <1>8 DEF NumberMove, NumberEnds
  <1>9. CASE WordEnds
    <2>1. lexeme = <<>>
      BY <1>1, <1>9 DEF WordEnds, LexInv, Scanning, TokensTyped
    <2> QED
      BY <1>9, <2>1 DEF WordEnds
  <1>10. CASE SkipBlankNext \/ SkipComment \/ SkipCommentNext \/ EatPunct \/ EatPunctNext
              \/ SingleNext
    BY <1>1, <1>10 DEF SkipBlankNext, SkipComment, SkipCommentNext, EatPunct, EatPunctNext,
                      SingleNext
  <1>11. CASE NothingElse
    BY <1>1, <1>3, <1>11 DEF NothingElse, Deliver, Fail, AtEndOfFile
  <1> QED
    BY <1>4, <1>5, <1>6, <1>7, <1>8, <1>9, <1>10, <1>11 DEF LexNext, NextTokenStep

(* A token was returned: only if it is the end of the file does the file   *)
(* have nothing more.                                                      *)
LEMMA EndReported ==
  ASSUME LexInv, NEW tag \in Tags, NEW word, Deliver(tag, word), tokens \in Seq(Token),
         tag = "kEOF" => NothingElse /\ Peek = kEOF
  PROVE  AtEndOfFile'
  <1>1. /\ tokens' # <<>> /\ tokens'[Len(tokens')].tag = tag /\ at' = "idle"
    BY DEF Deliver
  <1>2. CASE tag # "kEOF"
    BY <1>1, <1>2 DEF AtEndOfFile, AtEnd
  <1>3. CASE tag = "kEOF"
    <2>1. UNCHANGED fileVars /\ at = "single" /\ Peek = kEOF
      BY <1>3 DEF NothingElse
    <2>2. Peek' = kEOF /\ extent' = 0
      BY <2>1, RestEffect DEF LexInv, Scanning
    <2> QED
      BY <1>1, <2>2 DEF AtEndOfFile
  <1> QED
    BY <1>2, <1>3

(* Every step of NextToken keeps EndInv.                                   *)
LEMMA EndInvStep ==
  TypeOK /\ ScanInv /\ LexInv /\ EndInv /\ [LexNext]_allVars => EndInv'
  <1> SUFFICES ASSUME TypeOK, ScanInv, LexInv, EndInv, [LexNext]_allVars
               PROVE  AtEndOfFile'
    BY WordTagsStep DEF EndInv
  <1>1. CASE UNCHANGED allVars
    BY <1>1, RestEffect DEF EndInv, AtEndOfFile, AtEnd, allVars, lexVars, tokenVars
  <1>2. CASE LexNext /\ tokens' = tokens
    <2>1. CASE AtEnd
      BY <1>2, <2>1, EndStays
    <2>2. CASE ~AtEnd
      BY <1>2, <2>2 DEF AtEndOfFile, AtEnd
    <2> QED
      BY <2>1, <2>2
  <1>3. CASE LexNext /\ tokens' # tokens
    BY <1>3, StepReturns, EndReported DEF EndInv, LexInv, TokensTyped
  <1> QED
    BY <1>1, <1>2, <1>3

(* Before the first call the end has not been told. *)
LEMMA FreshEnd == Fresh => EndInv
  BY DEF Fresh, EndInv, WordTags, AtEndOfFile, AtEnd, KeyWords

(* Once the end of the file was returned, NextToken finds nothing else,    *)
(* at whatever place in it.                                                *)
THEOREM EndIsFinal == LexSpec => []EndInv
  <1>1. LexInit => EndInv
    BY FreshInit, FreshEnd
  <1>2. ScanSpec => []TypeOK
    <2>1. Init => TypeOK /\ RollbackInReach
      BY InitTypes
    <2>2. TypeOK /\ RollbackInReach /\ [Scan]_vars => TypeOK' /\ RollbackInReach'
      BY ReachInvariant DEF Next
    <2> QED
      BY <2>1, <2>2, PTL DEF ScanSpec
  <1> QED
    BY <1>1, <1>2, LexerScans, ScanInvariant, LexInvariant, EndInvStep, PTL DEF LexSpec

(* The tags returned, as the parser reads them                             *)
TagsRead == [i \in DOMAIN tokens |-> tokens[i].tag]

(* A function on 1..n is a sequence of length n.                           *)
LEMMA FunctionIsSeq ==
  ASSUME NEW S, NEW n \in Nat, NEW f \in [1..n -> S]
  PROVE  f \in Seq(S) /\ Len(f) = n
  <1>1. f \in Seq(S)
    BY SeqDef
  <1>2. Len(f) \in Nat /\ DOMAIN f = 1..Len(f)
    BY <1>1, LenProperties
  <1>3. 1..n = 1..Len(f)
    BY <1>2
  <1>4. Len(f) = n
    BY <1>2, <1>3
  <1> QED
    BY <1>1, <1>4

(* Adding an element to a sequence extends it as a function.               *)
LEMMA AppendIs ==
  ASSUME NEW S, NEW s \in Seq(S), NEW e \in S, NEW f,
         f = [i \in 1..(Len(s) + 1) |-> IF i = Len(s) + 1 THEN e ELSE s[i]]
  PROVE  f = Append(s, e)
  <1>1. Len(s) \in Nat /\ \A i \in 1..Len(s) : s[i] \in S
    BY LenProperties, ElementOfSeq
  <1>2. f \in [1..(Len(s) + 1) -> S]
    BY <1>1
  <1>3. f \in Seq(S) /\ Len(f) = Len(s) + 1
    BY <1>1, <1>2, FunctionIsSeq
  <1>4. /\ Append(s, e) \in Seq(S)
        /\ Len(Append(s, e)) = Len(s) + 1
        /\ \A i \in 1..(Len(s) + 1) : Append(s, e)[i] = f[i]
    BY <1>1
  <1> QED
    BY <1>1, <1>3, <1>4, SeqEqual

(* Returning a token is a step of the source.                              *)
LEMMA DeliverRefines ==
  ASSUME LexInv, EndInv, at # "failed", NEW tag \in Tags, NEW word, Deliver(tag, word),
         tag = "kEOF" => NothingElse /\ Peek = kEOF,
         AtEnd => tag = "kEOF"
  PROVE  Source!Next
  <1>1. tokens \in Seq(Token) /\ DOMAIN tokens = 1..Len(tokens) /\ Len(tokens) \in Nat
    BY DEF LexInv, TokensTyped
  <1>2. PICK t : t.tag = tag /\ tokens' = Append(tokens, t)
    BY DEF Deliver
  <1>3. TagsRead' = Append(TagsRead, tag)
    <2>1. TagsRead \in Seq(Tags) /\ Len(TagsRead) = Len(tokens)
      <3>1. \A i \in 1..Len(tokens) : tokens[i].tag \in Tags
        <4>1. \A i \in 1..Len(tokens) : tokens[i] \in Token
          BY <1>1, ElementOfSeq
        <4>2. \A x \in Token : x.tag \in Tags
          BY DEF Token
        <4> QED
          BY <4>1, <4>2
      <3>2. TagsRead \in [1..Len(tokens) -> Tags]
        BY <1>1, <3>1 DEF TagsRead
      <3> QED
        BY <1>1, <3>2, FunctionIsSeq
    <2>2. /\ DOMAIN tokens' = 1..(Len(tokens) + 1)
          /\ tokens'[Len(tokens) + 1] = t
          /\ \A i \in 1..Len(tokens) : tokens'[i] = tokens[i]
      BY <1>1, <1>2
    <2>3. TagsRead' = [i \in 1..(Len(tokens) + 1) |->
                         IF i = Len(tokens) + 1 THEN tag ELSE TagsRead[i]]
      BY <1>1, <1>2, <2>2 DEF TagsRead
    <2>4. \A f : f = [i \in 1..(Len(TagsRead) + 1) |->
                         IF i = Len(TagsRead) + 1 THEN tag ELSE TagsRead[i]]
            => f = Append(TagsRead, tag)
      BY <2>1, AppendIs
    <2> QED
      BY <2>1, <2>3, <2>4
  <1>4. Source!Ended => AtEnd
    BY <1>1 DEF Source!Ended, AtEnd
  <1>5. at' = "idle"
    BY DEF Deliver
  <1>6. Source!Deliver(tag)
    BY <1>3, <1>4, <1>5 DEF Source!Deliver, TagsRead
  <1> QED
    BY <1>6 DEF Source!Next, Tags

(* Every step of NextToken is one of the source, or unseen.                *)
LEMMA SourceStep ==
  TypeOK /\ ScanInv /\ LexInv /\ EndInv /\ [LexNext]_allVars
    => Source!Next \/ UNCHANGED <<TagsRead, at = "failed">>
  <1> SUFFICES ASSUME TypeOK, ScanInv, LexInv, EndInv, [LexNext]_allVars
               PROVE  Source!Next \/ UNCHANGED <<TagsRead, at = "failed">>
    OBVIOUS
  <1>1. CASE UNCHANGED allVars
    BY <1>1 DEF allVars, lexVars, tokenVars, TagsRead
  <1>2. CASE LexNext /\ tokens' = tokens
    <2>1. at # "failed" /\ TagsRead' = TagsRead
      BY <1>2, StepReturns DEF EndInv, TagsRead
    <2>2. CASE at' = "failed"
      BY <2>1, <2>2 DEF Source!Next, Source!Break, TagsRead
    <2> QED
      BY <2>1, <2>2
  <1>3. CASE LexNext /\ tokens' # tokens
    <2>0. PICK tag \in Tags :
            \E word : Deliver(tag, word) /\ (tag = "kEOF" => NothingElse /\ Peek = kEOF)
      BY <1>3, StepReturns DEF EndInv
    <2>1. PICK word : Deliver(tag, word) /\ (tag = "kEOF" => NothingElse /\ Peek = kEOF)
      BY <2>0
    <2>2. AtEnd => tag = "kEOF"
      <3> SUFFICES ASSUME AtEnd PROVE tag = "kEOF"
        OBVIOUS
      <3>1. /\ Peek = kEOF /\ extent = 0 /\ status = "ok" /\ Shown = kEOF
            /\ at \in {"idle", "blank", "match", "mismatch", "number", "word", "single"}
        BY <1>3, StepReturns, ShownFacts DEF EndInv, AtEndOfFile, LexInv, Scanning
      <3>2. ~NumberEnds
        BY <3>1 DEF NumberEnds
      <3>3. ~WordEnds
        <4>1. at = "word" => lexeme = <<>>
          BY <3>1 DEF LexInv, Scanning, TokensTyped
        <4> QED
          BY <4>1 DEF WordEnds
      <3>4. ~EatPunctNext /\ ~SingleNext
        BY <3>1 DEF EatPunctNext, SingleNext
      <3>5. NothingElse
        BY <1>3, <3>2, <3>3, <3>4
           DEF LexNext, NextTokenStep, Call, SkipBlank, SkipBlankNext, Match, Matched,
           Mismatched, SkipComment, SkipCommentNext, NumberMove, NumberFails, WordScan,
           NoWord, EatPunct, Single, tokenVars
      <3>6. Deliver("kEOF", <<>>)
        BY <1>3, <3>1, <3>5 DEF NothingElse, Fail, tokenVars
      <3> QED
        BY <2>1, <3>6 DEF Deliver
    <2> QED
      BY <1>3, <2>1, <2>2, StepReturns, DeliverRefines DEF EndInv
  <1> QED
    BY <1>1, <1>2, <1>3

(* One pass of the lexer is a TokenSource: tokens, then the end of the     *)
(* file at every further call, unless a call throws.                       *)
THEOREM LexerIsTokenSource == LexSpec => ImplementsTokenSource
  <1>1. LexInit => Source!Init
    BY DEF LexInit, Source!Init
  <1>2. TypeOK /\ ScanInv /\ LexInv /\ EndInv /\ [LexNext]_allVars
          => [Source!Next]_(Source!vars)
    BY SourceStep DEF Source!vars, TagsRead
  <1>3. ScanSpec => []TypeOK
    <2>1. Init => TypeOK /\ RollbackInReach
      BY InitTypes
    <2>2. TypeOK /\ RollbackInReach /\ [Scan]_vars => TypeOK' /\ RollbackInReach'
      BY ReachInvariant DEF Next
    <2> QED
      BY <2>1, <2>2, PTL DEF ScanSpec
  <1> QED
    BY <1>1, <1>2, <1>3, LexerScans, ScanInvariant, LexInvariant, EndIsFinal, PTL
       DEF LexSpec, ImplementsTokenSource, Source!Spec

-----------------------------------------------------------------------------
(* Patterns and moves *)

(* A pattern is one to three characters long, and the first one is the     *)
(* comment mark.                                                           *)
LEMMA PatternLengths ==
  /\ \A p \in 1..Len(Patterns) : Len(Patterns[p]) \in 1..3
  /\ Patterns[1] = <<"#">>
  <1> DEFINE A == {"#", "<", ">", "=", "!", "-", "+", "*", "/", "%", "&", "|", "^"}
             S == {s \in Seq(A) : Len(s) \in 1..3}
  <1>0. /\ "#" \in A /\ "<" \in A /\ ">" \in A /\ "=" \in A /\ "!" \in A /\ "-" \in A
        /\ "+" \in A /\ "*" \in A /\ "/" \in A /\ "%" \in A /\ "&" \in A /\ "|" \in A
        /\ "^" \in A
    OBVIOUS
  <1> HIDE DEF A
  <1>s. /\ \A x \in A : <<x>> \in S
        /\ \A x, y \in A : <<x, y>> \in S
        /\ \A x, y, z \in A : <<x, y, z>> \in S
    OBVIOUS
  <1> HIDE DEF S
  <1>1. Comment \in Seq(S) /\ Len(Comment) = 1 /\ Comment[1] = <<"#">>
    BY <1>0, <1>s DEF Comment
  <1>2. ThreeChars \in Seq(S)
    BY <1>0, <1>s DEF ThreeChars
  <1>3. TwoChars \in Seq(S)
    BY <1>0, <1>s DEF TwoChars
  <1>4. /\ Comment \o ThreeChars \in Seq(S) /\ Len(Comment \o ThreeChars) >= 1
        /\ (Comment \o ThreeChars)[1] = Comment[1]
    BY <1>1, <1>2, ConcatProperties
  <1>5. Patterns \in Seq(S) /\ Patterns[1] = (Comment \o ThreeChars)[1]
    BY <1>3, <1>4, ConcatProperties DEF Patterns
  <1>6. \A p \in 1..Len(Patterns) : Patterns[p] \in S
    BY <1>5, ElementOfSeq
  <1> QED
    BY <1>1, <1>4, <1>5, <1>6 DEF S

(* A set of at most five places has a first one.                           *)
LEMMA FirstOf ==
  ASSUME NEW fits, fits \subseteq 1..5, fits # {}
  PROVE  \E i \in fits : \A k \in fits : i <= k
  <1>1. CASE 1 \in fits
    BY <1>1
  <1>2. CASE 1 \notin fits /\ 2 \in fits
    BY <1>2
  <1>3. CASE 1 \notin fits /\ 2 \notin fits /\ 3 \in fits
    BY <1>3
  <1>4. CASE 1 \notin fits /\ 2 \notin fits /\ 3 \notin fits /\ 4 \in fits
    BY <1>4
  <1>5. CASE 1 \notin fits /\ 2 \notin fits /\ 3 \notin fits /\ 4 \notin fits
    <2>1. \A k \in fits : k = 5
      <3>1. \A k \in fits : k \in 1..5 /\ k # 1 /\ k # 2 /\ k # 3 /\ k # 4
        BY <1>5
      <3> QED
        BY <3>1
    <2>2. PICK i \in fits : TRUE
      OBVIOUS
    <2>3. i = 5
      BY <2>1
    <2>4. \A k \in fits : i <= k
      BY <2>1, <2>3
    <2> QED
      BY <2>4
  <1> QED
    BY <1>1, <1>2, <1>3, <1>4, <1>5

(* The move made is the first of the state's that fits. *)
LEMMA MoveFirst ==
  ASSUME NEW s, NEW c, NEW n \in 1..5, DOMAIN Moves[s] = 1..n, c \in Moves[s][n].on
  PROVE  \E i \in 1..n : /\ MoveOn(s, c) = Moves[s][i] /\ c \in Moves[s][i].on
                         /\ \A k \in 1..n : c \in Moves[s][k].on => i <= k
  <1> DEFINE fits == {i \in DOMAIN Moves[s] : c \in Moves[s][i].on}
  <1>1. fits \subseteq 1..5 /\ fits # {}
    OBVIOUS
  <1>2. \E i \in fits : \A k \in fits : i <= k
    BY <1>1, FirstOf
  <1>3. MoveOn(s, c) = Moves[s][CHOOSE i \in fits : \A k \in fits : i <= k]
    BY DEF MoveOn
  <1> DEFINE j == CHOOSE i \in fits : \A k \in fits : i <= k
  <1>4. j \in fits /\ \A k \in fits : j <= k
    BY <1>2
  <1> HIDE DEF j
  <1>5. \A k \in 1..n : c \in Moves[s][k].on => j <= k
    BY <1>4
  <1>6. MoveOn(s, c) = Moves[s][j]
    BY <1>3 DEF j
  <1> QED
    BY <1>4, <1>5, <1>6

-----------------------------------------------------------------------------
(***************************************************************************)
(* Types, in several passes over several files.  After a Reset of a file   *)
(* longer than a buffer the characters shown may be any (see SourceFile),  *)
(* so nothing here rests on the text.                                      *)
(***************************************************************************)

(* What a buffer cell shows *)

(* A cell is a place in the text, the end, or a character of another file. *)
CellsInText ==
  \A i \in 0..1 : \A j \in 0..Last :
    input_buffer[i][j] \in 0..(Len(text) - 1) \cup {kEOF, Junk}

(* A filled buffer holds places of the text it was filled from.            *)
LEMMA FilledInText ==
  ASSUME NEW s \in Stream, s.pos <= Len(s.text), NEW b \in Buffer,
         \A j \in 0..Last : b[j] \in 0..(Len(s.text) - 1) \cup {kEOF, Junk}
  PROVE  \A j \in 0..Last :
           Filled(b, s)[j] \in 0..(Len(s.text) - 1) \cup {kEOF, Junk}
  <1>1. /\ Count(s) \in Nat /\ s.pos + Count(s) <= Len(s.text) /\ s.pos \in Nat
        /\ Len(s.text) \in Nat
    BY ReadFacts, TextLength DEF Stream
  <1> SUFFICES ASSUME NEW j \in 0..Last
               PROVE  Filled(b, s)[j] \in 0..(Len(s.text) - 1) \cup {kEOF, Junk}
    OBVIOUS
  <1>2. CASE j < Count(s)
    <2>1. Filled(b, s)[j] = s.pos + j
      BY <1>2, FilledFacts
    <2>2. s.pos + j \in 0..(Len(s.text) - 1)
      BY <1>1, <1>2, LastPositive
    <2> QED
      BY <2>1, <2>2
  <1>3. CASE ~(j < Count(s))
    <2>1. Filled(b, s)[j] \in {kEOF, b[j]}
      BY <1>3, FilledFacts
    <2> QED
      BY <2>1
  <1> QED
    BY <1>2, <1>3

(* A load keeps the cells in the text, if they are in that of the stream.  *)
LEMMA LoadInText ==
  ASSUME NEW f \in 0..1, NEW o \in 0..1, NEW bufs \in [0..1 -> Buffer],
         NEW s \in Stream, s.pos <= Len(s.text),
         \A i \in 0..1 : \A j \in 0..Last :
           bufs[i][j] \in 0..(Len(s.text) - 1) \cup {kEOF, Junk},
         TypeOK, LoadBuffer(f, o, bufs, s)
  PROVE  CellsInText'
  <1>1. stream'.text = s.text
    BY LoadTypes DEF TypeOK
  <1>2. \/ input_buffer' = bufs
        \/ input_buffer' = [bufs EXCEPT ![f] = Filled(bufs[f], s)]
    BY DEF LoadBuffer
  <1>3. bufs[f] \in Buffer
    OBVIOUS
  <1>4. \A j \in 0..Last : Filled(bufs[f], s)[j] \in 0..(Len(s.text) - 1) \cup {kEOF, Junk}
    BY <1>3, FilledInText
  <1>5. \A i \in 0..1 : input_buffer'[i] = bufs[i] \/ input_buffer'[i] = Filled(bufs[f], s)
    BY <1>2
  <1>6. \A i \in 0..1 : \A j \in 0..Last :
          input_buffer'[i][j] \in 0..(Len(s.text) - 1) \cup {kEOF, Junk}
    <2> SUFFICES ASSUME NEW i \in 0..1, NEW j \in 0..Last
                 PROVE  input_buffer'[i][j] \in 0..(Len(s.text) - 1) \cup {kEOF, Junk}
      OBVIOUS
    <2> QED
      BY <1>4, <1>5
  <1> QED
    BY <1>1, <1>6 DEF CellsInText, text

(* To seek is to stay on the same text. *)
LEMMA SeekTypes ==
  ASSUME NEW s \in Stream, s.pos <= Len(s.text)
  PROVE  /\ SeekToStart(s) \in Stream
         /\ SeekToStart(s).text = s.text
         /\ SeekToStart(s).pos <= Len(s.text)
  <1>1. Len(s.text) \in Nat
    BY TextLength DEF Stream
  <1>2. CASE s.fail
    BY <1>2 DEF SeekToStart, Stream
  <1>3. CASE ~s.fail
    <2>1. SeekToStart(s) = [s EXCEPT !.eof = FALSE, !.pos = 0]
      BY <1>3 DEF SeekToStart
    <2>2. SeekToStart(s).pos = 0 /\ SeekToStart(s).text = s.text
      BY <2>1 DEF Stream
    <2>3. SeekToStart(s) \in Stream
      <3>1. s.text \in Texts /\ s.fail \in BOOLEAN
        BY DEF Stream
      <3>2. SeekToStart(s) = [text |-> s.text, pos |-> 0, eof |-> FALSE, fail |-> s.fail]
        BY <2>1 DEF Stream
      <3>3. 0 \in Nat /\ FALSE \in BOOLEAN
        OBVIOUS
      <3> QED
        BY <3>1, <3>2, <3>3 DEF Stream
    <2> QED
      BY <1>1, <2>2, <2>3
  <1> QED
    BY <1>2, <1>3

(* A file just opened is at its start. *)
LEMMA OpenedTypes ==
  ASSUME NEW t \in Texts
  PROVE  Opened(t) \in Stream /\ Opened(t).text = t /\ Opened(t).pos <= Len(t)
  BY TextLength DEF Opened, Stream

(* Every operation of the file keeps its cells in the text.                *)
LEMMA CellsStep == TypeOK /\ CellsInText /\ [Next]_vars => CellsInText'
  <1> SUFFICES ASSUME TypeOK, CellsInText, [Next]_vars PROVE CellsInText'
    OBVIOUS
  <1>0. /\ input_buffer \in [0..1 -> Buffer] /\ stream \in Stream
        /\ stream.pos <= Len(stream.text) /\ start_buffer_idx \in 0..1
        /\ 1 - forward_buffer_idx \in 0..1
    BY DEF TypeOK, text
  <1>1. ASSUME UNCHANGED input_buffer, text' = text PROVE CellsInText'
    BY <1>1 DEF CellsInText
  <1>2. CASE UNCHANGED blocks
    BY <1>1, <1>2 DEF blocks, text
  <1>3. CASE ScanChar
    <2>1. CASE LoadBuffer(1 - forward_buffer_idx, start_buffer_idx, input_buffer, stream)
      BY <1>0, <2>1, LoadInText DEF CellsInText, text
    <2> QED
      BY <1>2, <1>3, <2>1 DEF ScanChar, StepForward
  <1>4. CASE Reset
    <2>1. /\ SeekToStart(stream) \in Stream /\ SeekToStart(stream).text = text
          /\ SeekToStart(stream).pos <= Len(text)
      BY <1>0, SeekTypes DEF text
    <2>2. LoadBuffer(0, 0, input_buffer, SeekToStart(stream))
      BY <1>4 DEF Reset, Rewind
    <2> QED
      BY <1>0, <2>1, <2>2, LoadInText DEF CellsInText
  <1>5. CASE CloseAndOpenOther
    <2>1. ASSUME NEW t \in Texts, Rewind(Stale(input_buffer), Opened(t))
          PROVE  CellsInText'
      <3> DEFINE s == SeekToStart(Opened(t))
      <3>1. s \in Stream /\ s.text = t /\ s.pos <= Len(s.text)
        BY OpenedTypes, SeekTypes
      <3>2. LoadBuffer(0, 0, Stale(input_buffer), s)
        BY <2>1 DEF Rewind
      <3>3. \A i \in 0..1 : \A j \in 0..Last : Stale(input_buffer)[i][j] \in {kEOF, Junk}
        BY DEF Stale
      <3>4. Stale(input_buffer) \in [0..1 -> Buffer]
        BY <1>0, StaleTypes
      <3> HIDE DEF s
      <3>5. \A i \in 0..1 : \A j \in 0..Last :
              Stale(input_buffer)[i][j] \in 0..(Len(s.text) - 1) \cup {kEOF, Junk}
        BY <3>3
      <3> QED
        BY <3>1, <3>2, <3>4, <3>5, LoadInText
    <2>2. CASE /\ stream' = [stream EXCEPT !.fail = TRUE]
               /\ UNCHANGED <<cursor, input_buffer, buff_timestamp, is_end>>
      BY <1>0, <1>1, <2>2 DEF text, Stream
    <2> QED
      BY <1>5, <2>1, <2>2 DEF CloseAndOpenOther
  <1> QED
    BY <1>2, <1>3, <1>4, <1>5
       DEF Next, Scan, NextLexeme, ResetForward, Move, vars, blocks

(* The constructor fills the first buffer.                                 *)
LEMMA CellsInit == Init => CellsInText
  <1> SUFFICES ASSUME NEW t \in Texts, NEW m \in Memories,
                      stream = Read(Opened(t)),
                      input_buffer = [m EXCEPT ![0] = Filled(m[0], Opened(t))]
               PROVE  CellsInText
    BY DEF Init
  <1> DEFINE s == Opened(t)
  <1>1. s \in Stream /\ s.text = t /\ s.pos <= Len(s.text)
    BY OpenedTypes
  <1>2. m \in [0..1 -> [0..Last -> {kEOF, Junk}]]
    BY MemoryAssumption DEF Last
  <1>3. m[0] \in Buffer /\ \A i \in 0..1 : \A j \in 0..Last : m[i][j] \in {kEOF, Junk}
    <2>1. \A i \in 0..1 : m[i] \in [0..Last -> {kEOF, Junk}]
      BY <1>2
    <2>2. \A i \in 0..1 : \A j \in 0..Last : m[i][j] \in {kEOF, Junk}
      BY <2>1
    <2>3. m[0] \in [0..Last -> {kEOF, Junk}]
      BY <2>1
    <2>4. {kEOF, Junk} \subseteq Cells
      BY CellFacts
    <2> QED
      BY <2>2, <2>3, <2>4 DEF Buffer
  <1>4. text = s.text
    BY <1>1, ReadFacts DEF text
  <1> HIDE DEF s
  <1>5. \A j \in 0..Last : Filled(m[0], s)[j] \in 0..(Len(s.text) - 1) \cup {kEOF, Junk}
    BY <1>1, <1>3, FilledInText
  <1>6. input_buffer[0] = Filled(m[0], s) /\ input_buffer[1] = m[1]
    BY <1>2 DEF s
  <1>7. \A i \in 0..1 : i = 0 \/ i = 1
    OBVIOUS
  <1> QED
    BY <1>3, <1>4, <1>5, <1>6, <1>7 DEF CellsInText

(* So what is shown is a character, the end, or of another file.           *)
LEMMA ShownTyped ==
  ASSUME TypeOK, CellsInText, status = "ok"
  PROVE  Shown \in Chars \cup {kEOF, Junk}
  <1>1. Peek \in 0..(Len(text) - 1) \cup {kEOF, Junk}
    BY DEF TypeOK, CellsInText, Peek
  <1>2. text \in Seq(Chars) /\ Len(text) \in Nat
    BY TextAssumption DEF TypeOK, Stream, text
  <1>3. CASE Peek \in 0..(Len(text) - 1)
    <2>1. Peek + 1 \in 1..Len(text)
      BY <1>2, <1>3
    <2> QED
      BY <1>2, <1>3, <2>1 DEF Shown
  <1>4. CASE Peek \notin 0..(Len(text) - 1)
    BY <1>1, <1>4 DEF Shown
  <1> QED
    BY <1>3, <1>4

-----------------------------------------------------------------------------
(* The inductive invariant: types, with what they rest on *)

(* The control points of NextToken, and between Lexer::ResetFile's two parts *)
Places == {"idle", "failed", "reopened", "blank", "blank_next", "match",
           "mismatch", "comment", "comment_next", "number", "word", "eat",
           "eat_next", "single", "single_next"}

(* The states of GetNumber *)
States == DOMAIN Moves \cup EndStates \cup {"fail", "error"}

(* The call goes on only while no CHECK has failed; what was put into      *)
(* lexeme_buffer_ is as long as what was scanned of the lexeme.            *)
CallTyped ==
  /\ at \in Places
  /\ at # "failed" => status = "ok"
  /\ state \in States
  /\ Len(lexeme) <= kBufferSize
  /\ at \in {"number", "word"} => extent = Len(lexeme)
  /\ matched <= 3
  /\ at = "match" => matched <= Len(Patterns[pattern])
  /\ at = "single_next" => peek_char \in Chars

LexTypesInv ==
  TypeOK /\ RollbackInReach /\ CellsInText /\ TokensTyped /\ CallTyped

(* The states there are. *)
LEMMA StateNames ==
  /\ DOMAIN Moves =
       {"kStart", "kAfterSign", "kDecimalDigit", "kNotDecimalIntStart",
        "kFirstHexDigit", "kHexDigit", "kOctalDigit", "kFirstBinaryDigit",
        "kBinaryDitit", "kAfterDotDigit", "kAfterDotDigitOpt", "kFractionDigit",
        "kAfterExpChar", "kAfterExpSign", "kExpDigit"}
  /\ DOMAIN Moves \subseteq States
  /\ {"kDecimalEnd", "kHexEnd", "kOctalEnd", "kBinaryEnd", "kIntZero", "kFloatEnd",
      "fail", "error"} \subseteq States
  <1>1. DOMAIN Moves =
          {"kStart", "kAfterSign", "kDecimalDigit", "kNotDecimalIntStart",
           "kFirstHexDigit", "kHexDigit", "kOctalDigit", "kFirstBinaryDigit",
           "kBinaryDitit", "kAfterDotDigit", "kAfterDotDigitOpt", "kFractionDigit",
           "kAfterExpChar", "kAfterExpSign", "kExpDigit"}
    BY DEF Moves
  <1> QED
    BY <1>1 DEF States, EndStates

(* What the moves eat are digits, letters and punctuators. *)
LEMMA ClassesEaten ==
  \A chars \in {Signs, Digits, OctalDigits, HexDigits, ExpChars, {"0"}, {"."},
                {"x"}, {"b"}, {"0", "1"}} :
    chars \subseteq IdElems \cup PunctChars
  <1>1. /\ "." \in PunctChars /\ "+" \in PunctChars /\ "-" \in PunctChars
    BY Zenon DEF PunctChars
  <1>2. HexDigits \subseteq IdElems /\ ExpChars \subseteq IdElems
        /\ "x" \in IdElems /\ "b" \in IdElems
    BY DEF HexDigits, IdElems, Letters, ExpChars
  <1>3. OctalDigits \subseteq HexDigits /\ Digits \subseteq HexDigits
        /\ "0" \in HexDigits /\ "1" \in HexDigits
    BY DEF HexDigits, Digits, OctalDigits
  <1>4. Signs \subseteq PunctChars
    BY <1>1 DEF Signs
  <1> QED
    BY <1>1, <1>2, <1>3, <1>4

(* A move goes to a state, and eats only what is in a text. *)
MoveTyped(m) ==
  /\ m.to \in States
  /\ m.eats \in BOOLEAN
  /\ m.eats => m.on \subseteq IdElems \cup PunctChars

(* The moves of a state: the last one fits any character. *)
MovesTyped(q) ==
  \E n \in 1..5 :
    /\ DOMAIN q = 1..n
    /\ q[n].on = Chars \cup {Junk}
    /\ \A i \in 1..n : MoveTyped(q[i])

(* Every state of GetNumber has such moves. *)
LEMMA AllMovesTyped == \A s \in DOMAIN Moves : MovesTyped(Moves[s])
  <1> DEFINE eaten == {Signs, Digits, OctalDigits, HexDigits, ExpChars, {"0"}, {"."},
                       {"x"}, {"b"}, {"0", "1"}}
  <1>1. \A s \in States : MoveTyped(Otherwise(s)) /\ Otherwise(s).on = Chars \cup {Junk}
    BY DEF MoveTyped, Otherwise, Go
  <1>2. \A chars, s : s \in States => MoveTyped(Go(chars, s))
    BY DEF MoveTyped, Go
  <1>3. \A chars \in eaten : \A s \in States : MoveTyped(Eat(chars, s))
    BY ClassesEaten DEF MoveTyped, Eat
  <1>4. \A a, b : MoveTyped(a) /\ MoveTyped(b) /\ b.on = Chars \cup {Junk}
                  => MovesTyped(<<a, b>>)
    BY DEF MovesTyped
  <1>5. \A a, b, c : MoveTyped(a) /\ MoveTyped(b) /\ MoveTyped(c)
                     /\ c.on = Chars \cup {Junk}
                     => MovesTyped(<<a, b, c>>)
    BY DEF MovesTyped
  <1>6. \A a, b, c, d : MoveTyped(a) /\ MoveTyped(b) /\ MoveTyped(c) /\ MoveTyped(d)
                        /\ d.on = Chars \cup {Junk}
                        => MovesTyped(<<a, b, c, d>>)
    BY DEF MovesTyped
  <1>7. \A a, b, c, d, e : MoveTyped(a) /\ MoveTyped(b) /\ MoveTyped(c)
                           /\ MoveTyped(d) /\ MoveTyped(e)
                           /\ e.on = Chars \cup {Junk}
                           => MovesTyped(<<a, b, c, d, e>>)
    BY DEF MovesTyped
  <1>8. /\ Signs \in eaten /\ Digits \in eaten /\ OctalDigits \in eaten
        /\ HexDigits \in eaten /\ ExpChars \in eaten /\ {"0"} \in eaten
        /\ {"."} \in eaten /\ {"x"} \in eaten /\ {"b"} \in eaten /\ {"0", "1"} \in eaten
    OBVIOUS
  <1>9. /\ "kStart" \in States /\ "kAfterSign" \in States /\ "kDecimalDigit" \in States
        /\ "kNotDecimalIntStart" \in States /\ "kFirstHexDigit" \in States
        /\ "kHexDigit" \in States /\ "kOctalDigit" \in States
        /\ "kFirstBinaryDigit" \in States /\ "kBinaryDitit" \in States
        /\ "kAfterDotDigit" \in States /\ "kAfterDotDigitOpt" \in States
        /\ "kFractionDigit" \in States /\ "kAfterExpChar" \in States
        /\ "kAfterExpSign" \in States /\ "kExpDigit" \in States
        /\ "kDecimalEnd" \in States /\ "kHexEnd" \in States /\ "kOctalEnd" \in States
        /\ "kBinaryEnd" \in States /\ "kIntZero" \in States /\ "kFloatEnd" \in States
        /\ "fail" \in States /\ "error" \in States
    BY StateNames
  <1> HIDE DEF eaten
  <1>10. /\ MovesTyped(Moves["kStart"]) /\ MovesTyped(Moves["kFirstHexDigit"])
         /\ MovesTyped(Moves["kHexDigit"]) /\ MovesTyped(Moves["kOctalDigit"])
         /\ MovesTyped(Moves["kFirstBinaryDigit"]) /\ MovesTyped(Moves["kBinaryDitit"])
    <2>1. /\ Moves["kStart"] = <<Go(Signs, "fail"), Otherwise("kAfterSign")>>
          /\ Moves["kFirstHexDigit"] = <<Eat(HexDigits, "kHexDigit"), Otherwise("error")>>
          /\ Moves["kHexDigit"] = <<Eat(HexDigits, "kHexDigit"), Otherwise("kHexEnd")>>
          /\ Moves["kOctalDigit"] = <<Eat(OctalDigits, "kOctalDigit"),
                                      Otherwise("kOctalEnd")>>
          /\ Moves["kFirstBinaryDigit"] = <<Eat({"0", "1"}, "kBinaryDitit"),
                                            Otherwise("error")>>
          /\ Moves["kBinaryDitit"] = <<Eat({"0", "1"}, "kBinaryDitit"),
                                       Otherwise("kBinaryEnd")>>
      BY DEF Moves
    <2> QED
      BY <1>1, <1>2, <1>3, <1>4, <1>8, <1>9, <2>1
  <1>11. /\ MovesTyped(Moves["kAfterDotDigit"]) /\ MovesTyped(Moves["kAfterExpChar"])
         /\ MovesTyped(Moves["kAfterExpSign"]) /\ MovesTyped(Moves["kExpDigit"])
    <2>1. /\ Moves["kAfterDotDigit"] = <<Eat(Digits, "kFractionDigit"), Otherwise("fail")>>
          /\ Moves["kAfterExpChar"] = <<Eat(Signs, "kAfterExpSign"),
                                        Otherwise("kAfterExpSign")>>
          /\ Moves["kAfterExpSign"] = <<Eat(Digits, "kExpDigit"), Otherwise("error")>>
          /\ Moves["kExpDigit"] = <<Eat(Digits, "kExpDigit"), Otherwise("kFloatEnd")>>
      BY DEF Moves
    <2> QED
      BY <1>1, <1>3, <1>4, <1>8, <1>9, <2>1
  <1>12. MovesTyped(Moves["kAfterDotDigitOpt"]) /\ MovesTyped(Moves["kFractionDigit"])
    <2>1. /\ Moves["kAfterDotDigitOpt"] = <<Eat(Digits, "kFractionDigit"),
                                            Eat(ExpChars, "kAfterExpChar"),
                                            Otherwise("kFloatEnd")>>
          /\ Moves["kFractionDigit"] = <<Eat(Digits, "kFractionDigit"),
                                         Eat(ExpChars, "kAfterExpChar"),
                                         Otherwise("kFloatEnd")>>
      BY DEF Moves
    <2> QED
      BY <1>1, <1>3, <1>5, <1>8, <1>9, <2>1
  <1>13. MovesTyped(Moves["kAfterSign"]) /\ MovesTyped(Moves["kDecimalDigit"])
    <2>1. /\ Moves["kAfterSign"] = <<Eat({"0"}, "kNotDecimalIntStart"),
                                     Eat(Digits, "kDecimalDigit"),
                                     Eat({"."}, "kAfterDotDigit"), Otherwise("fail")>>
          /\ Moves["kDecimalDigit"] = <<Eat(Digits, "kDecimalDigit"),
                                        Eat({"."}, "kAfterDotDigitOpt"),
                                        Eat(ExpChars, "kAfterExpChar"),
                                        Otherwise("kDecimalEnd")>>
      BY DEF Moves
    <2> QED
      BY <1>1, <1>3, <1>6, <1>8, <1>9, <2>1
  <1>14. MovesTyped(Moves["kNotDecimalIntStart"])
    <2>1. Moves["kNotDecimalIntStart"] =
            <<Eat({"x"}, "kFirstHexDigit"), Eat({"b"}, "kFirstBinaryDigit"),
              Go(OctalDigits, "kOctalDigit"), Eat({"."}, "kAfterDotDigitOpt"),
              Otherwise("kIntZero")>>
      BY DEF Moves
    <2> QED
      BY <1>1, <1>2, <1>3, <1>7, <1>8, <1>9, <2>1
  <1> QED
    BY <1>10, <1>11, <1>12, <1>13, <1>14, StateNames

(* So is the move that is taken. *)
LEMMA TakenTyped ==
  ASSUME NEW s \in DOMAIN Moves, NEW c \in Chars \cup {Junk}
  PROVE  /\ MoveTyped(MoveOn(s, c))
         /\ MoveOn(s, c).eats => c \in IdElems \cup PunctChars
  <1>1. PICK n \in 1..5 : /\ DOMAIN Moves[s] = 1..n
                          /\ Moves[s][n].on = Chars \cup {Junk}
                          /\ \A i \in 1..n : MoveTyped(Moves[s][i])
    BY AllMovesTyped DEF MovesTyped
  <1>2. PICK i \in 1..n : MoveOn(s, c) = Moves[s][i] /\ c \in Moves[s][i].on
    BY <1>1, MoveFirst
  <1> QED
    BY <1>1, <1>2 DEF MoveTyped

(* A character of a class is one of a text. *)
LEMMA ClassChars ==
  ASSUME TypeOK, CellsInText, status = "ok", Shown \in IdElems \cup PunctChars
  PROVE  Shown \in Chars
  BY ShownTyped, ClassAssumption


-----------------------------------------------------------------------------
(* Each operation of the lexer keeps the types *)

(* A step of the lexer makes one operation of the file, or none.           *)
LEMMA LexNextAllFile == [LexNextAll]_allVars => [Next]_vars
  <1> SUFFICES ASSUME [LexNextAll]_allVars PROVE [Next]_vars
    OBVIOUS
  <1>1. CASE [LexNext]_allVars
    BY <1>1, LexNextScans DEF Next
  <1>2. CASE LexReset
    BY <1>2 DEF LexReset, Clear, Next
  <1>3. CASE LexResetFile
    BY <1>3 DEF LexResetFile, Next
  <1>4. CASE Reopened
    BY <1>4 DEF Reopened, Clear, Next
  <1> QED
    BY <1>1, <1>2, <1>3, <1>4 DEF LexNextAll

(* ScanChar makes the lexeme one character longer.                         *)
LEMMA ScanLonger ==
  ASSUME TypeOK, TypeOK', ScanChar
  PROVE  /\ extent' = extent + 1 /\ extent \in Nat /\ extent' <= kBufferSize
         /\ status = "ok"
  BY BufferAssumption DEF ScanChar, TypeOK

(* A step that returns no token and changes no lexeme, location or table.  *)
LEMMA SameTyped ==
  ASSUME TokensTyped, pattern' \in 1..Len(Patterns), matched' \in Nat,
         UNCHANGED <<lexeme, location, word_table, tokens>>
  PROVE  TokensTyped'
  BY DEF TokensTyped

(* A step to a place without obligations of its own.                       *)
LEMMA PlaceTyped ==
  ASSUME CallTyped, UNCHANGED <<state, lexeme>>, matched' <= 3,
         at' \in Places \ {"number", "word", "match", "single_next"},
         at' # "failed" => status' = "ok"
  PROVE  CallTyped'
  BY DEF CallTyped

(* A step to the start of a pattern.                                       *)
LEMMA LookForTyped ==
  ASSUME CallTyped, UNCHANGED <<state, lexeme>>, NEW p \in 1..Len(Patterns),
         LookFor(p), status' = "ok"
  PROVE  CallTyped'
  <1>1. at' = "match" /\ matched' = 0 /\ pattern' = p /\ Len(Patterns[p]) \in Nat
    BY PatternFacts DEF LookFor
  <1> QED
    BY <1>1 DEF CallTyped, Places

(* A token returned is one of the tokens there are.                        *)
LEMMA DeliverTyped ==
  ASSUME NEW tag \in Tags, NEW word \in Seq(Chars), Deliver(tag, word),
         TypeOK', TokensTyped, CallTyped, status' = "ok",
         \A w \in DOMAIN word_table' : word_table'[w].tag \in Tags
  PROVE  TokensTyped' /\ CallTyped'
  <1> DEFINE token == [tag |-> tag, lexeme |-> word, location |-> location,
                       to |-> start_location'.pos]
  <1>1. start_location'.pos \in Nat
    BY DEF TypeOK, Location
  <1>2. token \in Token
    BY <1>1 DEF Token, TokensTyped
  <1>3. tokens' \in Seq(Token)
    BY <1>2 DEF Deliver, TokensTyped
  <1>4. TokensTyped'
    BY <1>3 DEF Deliver, TokensTyped
  <1>5. CallTyped'
    BY DEF Deliver, CallTyped, Places
  <1> QED
    BY <1>4, <1>5

(* Over blanks and comments *)
LEMMA BlankTyped ==
  ASSUME LexTypesInv, TypeOK',
         Call \/ SkipBlank \/ SkipBlankNext \/ SkipComment \/ SkipCommentNext
  PROVE  TokensTyped' /\ CallTyped'
  <1> USE DEF LexTypesInv
  <1>1. 1 \in 1..Len(Patterns) /\ Len(Patterns[1]) >= 0
    BY PatternAssumption, PatternFacts
  <1>2. UNCHANGED <<state, lexeme, location, word_table, tokens>>
    BY DEF Call, SkipBlank, SkipBlankNext, SkipComment, SkipCommentNext, tokenVars
  <1>3. pattern' \in 1..Len(Patterns) /\ matched' \in Nat /\ matched' <= 3
    BY <1>1 DEF Call, SkipBlank, SkipBlankNext, SkipComment, SkipCommentNext, LookFor,
                TokensTyped, CallTyped
  <1>4. TokensTyped'
    BY <1>2, <1>3, SameTyped
  <1>5. CASE Call
    <2>1. at' = "blank" /\ status' = status /\ at = "idle"
      BY <1>5, RestEffect DEF Call
    <2> QED
      BY <1>2, <1>3, <1>4, <2>1, PlaceTyped DEF CallTyped, Places
  <1>6. CASE SkipBlank
    <2>1. \/ at' \in {"blank_next", "failed"} /\ (at' # "failed" => status' = "ok")
          \/ LookFor(1) /\ status' = status
      BY <1>6, RestEffect DEF SkipBlank, Goto
    <2>2. status = "ok"
      BY <1>6 DEF SkipBlank, CallTyped
    <2> QED
      BY <1>1, <1>2, <1>3, <1>4, <2>1, <2>2, PlaceTyped, LookForTyped DEF Places
  <1>7. CASE SkipBlankNext \/ SkipCommentNext
    <2>1. at' \in {"blank", "comment"} /\ status' = "ok"
      BY <1>7, NextEffect DEF SkipBlankNext, SkipCommentNext
    <2> QED
      BY <1>2, <1>3, <1>4, <2>1, PlaceTyped DEF Places
  <1>8. CASE SkipComment
    <2>1. at' \in {"comment_next", "failed"} /\ (at' # "failed" => status' = "ok")
      BY <1>8 DEF SkipComment, Goto
    <2> QED
      BY <1>2, <1>3, <1>4, <2>1, PlaceTyped DEF Places
  <1> QED
    BY <1>4, <1>5, <1>6, <1>7, <1>8

(* StartWith *)
LEMMA PatternTyped ==
  ASSUME LexTypesInv, TypeOK', Match \/ Matched \/ Mismatched
  PROVE  TokensTyped' /\ CallTyped'
  <1> USE DEF LexTypesInv
  <1>1. /\ pattern \in 1..Len(Patterns) /\ Len(Patterns) \in Nat
        /\ \A p \in 1..Len(Patterns) : Len(Patterns[p]) \in 1..3
        /\ status = "ok" /\ matched \in Nat
    BY PatternLengths, PatternAssumption
       DEF TokensTyped, CallTyped, Match, Matched, Mismatched
  <1>2. CASE Match
    <2>1. UNCHANGED <<state, lexeme, pattern, location, word_table, tokens>>
      BY <1>2 DEF Match, tokenVars
    <2>2. matched' \in Nat /\ matched' <= Len(Patterns[pattern]) /\ matched' <= 3
      BY <1>1, <1>2 DEF Match
    <2>3. \/ at' = "match" /\ status' = "ok"
          \/ at' = "mismatch" /\ status' = "ok"
          \/ at' = "failed"
      BY <1>2 DEF Match, Goto
    <2> QED
      BY <1>1, <2>1, <2>2, <2>3, SameTyped DEF CallTyped, Places
  <1>3. CASE Matched
    BY <1>1, <1>3, RollEffect, SameTyped DEF Matched, CallTyped, Places, tokenVars
  <1>4. CASE Mismatched
    <2>1. status' = "ok" /\ extent' = 0 /\ start_location \in Location
      BY <1>4, RollEffect DEF Mismatched, TypeOK
    <2>2. CASE /\ pattern = 1 /\ at' = "number" /\ state' = "kStart" /\ lexeme' = <<>>
               /\ location' = start_location /\ UNCHANGED <<pattern, matched>>
      <3>1. UNCHANGED <<word_table, tokens>>
        BY <1>4 DEF Mismatched
      <3>2. "kStart" \in States
        BY StateNames
      <3>3. Len(lexeme') = 0 /\ lexeme' \in Seq(Chars)
        BY <2>2
      <3>4. TokensTyped'
        BY <2>1, <2>2, <3>1, <3>3 DEF TokensTyped
      <3>5. CallTyped'
        BY <2>1, <2>2, <3>2, <3>3, BufferAssumption DEF CallTyped, Places
      <3> QED
        BY <3>4, <3>5
    <2>3. CASE /\ pattern > 1
               /\ IF pattern < Len(Patterns) THEN LookFor(pattern + 1)
                  ELSE at' = "single" /\ UNCHANGED <<pattern, matched>>
               /\ UNCHANGED <<state, lexeme, location>>
      <3>1. UNCHANGED <<word_table, tokens>>
        BY <1>4 DEF Mismatched
      <3>2. /\ pattern' \in 1..Len(Patterns) /\ matched' \in Nat /\ matched' <= 3
            /\ \/ at' = "match" /\ matched' = 0
               \/ at' = "single"
        BY <1>1, <2>3 DEF LookFor, CallTyped
      <3>3. Len(Patterns[pattern']) >= 0
        BY <1>1, <3>2
      <3> QED
        BY <2>1, <2>3, <3>1, <3>2, <3>3, SameTyped DEF CallTyped, Places
    <2> QED
      BY <1>4, <2>2, <2>3 DEF Mismatched
  <1> QED
    BY <1>2, <1>3, <1>4

(* An eaten character goes into lexeme_buffer_, and there is room for it.  *)
LEMMA LexemeFits ==
  ASSUME TypeOK, TypeOK', ScanChar, lexeme \in Seq(Chars), Shown \in Chars,
         extent = Len(lexeme), lexeme' = Append(lexeme, Shown)
  PROVE  /\ lexeme' \in Seq(Chars) /\ extent' = Len(lexeme')
         /\ Len(lexeme') <= kBufferSize
  <1>1. lexeme' \in Seq(Chars) /\ Len(lexeme') = Len(lexeme) + 1
    OBVIOUS
  <1> QED
    BY <1>1, ScanLonger


(* GetNumber *)
LEMMA NumberTyped ==
  ASSUME LexTypesInv, TypeOK', NumberMove \/ NumberFails \/ NumberEnds
  PROVE  TokensTyped' /\ CallTyped'
  <1> USE DEF LexTypesInv
  <1>1. /\ at = "number" /\ status = "ok" /\ lexeme \in Seq(Chars)
        /\ extent = Len(lexeme) /\ Len(lexeme) <= kBufferSize
        /\ pattern \in 1..Len(Patterns) /\ matched \in Nat /\ matched <= 3
        /\ location \in Location /\ tokens \in Seq(Token)
        /\ \A w \in DOMAIN word_table : word_table[w].tag \in Tags
    BY DEF NumberMove, NumberFails, NumberEnds, CallTyped, TokensTyped
  <1>2. CASE NumberMove
    <2> DEFINE taken == MoveOn(state, Shown)
    <2>1. state \in DOMAIN Moves /\ Shown \in Chars \cup {Junk}
      BY <1>1, <1>2, ShownTyped DEF NumberMove
    <2>2. /\ taken.to \in States
          /\ taken.eats => Shown \in Chars
      BY <1>1, <2>1, TakenTyped, ClassChars DEF MoveTyped
    <2>3. /\ state' = taken.to
          /\ UNCHANGED <<pattern, matched, location, word_table, tokens>>
          /\ \/ /\ taken.eats /\ ScanChar /\ lexeme' = Append(lexeme, Shown)
                /\ at' \in {"number", "failed"} /\ (at' # "failed" => status' = "ok")
             \/ /\ UNCHANGED fileVars /\ lexeme' = lexeme
                /\ at' \in {"number", "failed"}
      BY <1>2 DEF NumberMove, Goto, tokenVars
    <2> HIDE DEF taken
    <2>4. CASE /\ taken.eats /\ ScanChar /\ lexeme' = Append(lexeme, Shown)
               /\ at' \in {"number", "failed"} /\ (at' # "failed" => status' = "ok")
      <3>1. /\ lexeme' \in Seq(Chars) /\ extent' = Len(lexeme')
            /\ Len(lexeme') <= kBufferSize
        BY <1>1, <2>2, <2>4, LexemeFits
      <3>2. TokensTyped'
        BY <1>1, <2>3, <3>1 DEF TokensTyped
      <3>3. CallTyped'
        BY <1>1, <2>2, <2>3, <2>4, <3>1 DEF CallTyped, Places
      <3> QED
        BY <3>2, <3>3
    <2>5. CASE UNCHANGED fileVars /\ lexeme' = lexeme /\ at' \in {"number", "failed"}
      <3>1. extent' = extent /\ status' = status
        BY <2>5, RestEffect
      <3>2. TokensTyped'
        BY <1>1, <2>3, <2>5 DEF TokensTyped
      <3>3. CallTyped'
        BY <1>1, <2>2, <2>3, <2>5, <3>1 DEF CallTyped, Places
      <3> QED
        BY <3>2, <3>3
    <2> QED
      BY <2>3, <2>4, <2>5
  <1>3. CASE NumberFails
    <2>1. /\ status' = "ok" /\ extent' = 0 /\ at' = "word" /\ lexeme' = <<>>
          /\ UNCHANGED <<state, pattern, matched, location, word_table, tokens>>
      BY <1>3, RollEffect DEF NumberFails, tokenVars
    <2>2. lexeme' \in Seq(Chars) /\ Len(lexeme') = 0 /\ 0 <= kBufferSize
      BY <2>1, BufferAssumption
    <2>3. TokensTyped'
      BY <1>1, <2>1, <2>2 DEF TokensTyped
    <2>4. CallTyped'
      BY <1>1, <2>1, <2>2 DEF CallTyped, Places
    <2> QED
      BY <2>3, <2>4
  <1>4. CASE NumberEnds
    <2>1. status' = "ok" /\ word_table' = word_table
      BY <1>4, NextEffect DEF NumberEnds
    <2>2. CASE Deliver("kNumber", lexeme)
      BY <1>1, <2>1, <2>2, DeliverTyped DEF Tags
    <2>3. CASE at' = "failed" /\ UNCHANGED <<state, lexeme, peek_char, pattern,
                                             matched, location, tokens>>
      <3>1. TokensTyped'
        BY <1>1, <2>1, <2>3 DEF TokensTyped
      <3>2. CallTyped'
        BY <1>1, <2>1, <2>3, PlaceTyped DEF Places
      <3> QED
        BY <3>1, <3>2
    <2> QED
      BY <1>4, <2>2, <2>3 DEF NumberEnds
  <1> QED
    BY <1>2, <1>3, <1>4

(* GetIdAndWord *)
LEMMA WordTyped ==
  ASSUME LexTypesInv, TypeOK', WordScan \/ WordEnds \/ NoWord
  PROVE  TokensTyped' /\ CallTyped'
  <1> USE DEF LexTypesInv
  <1>1. /\ at = "word" /\ status = "ok" /\ lexeme \in Seq(Chars)
        /\ extent = Len(lexeme) /\ Len(lexeme) <= kBufferSize
        /\ pattern \in 1..Len(Patterns) /\ matched \in Nat /\ matched <= 3
        /\ location \in Location /\ tokens \in Seq(Token)
        /\ \A w \in DOMAIN word_table : word_table[w].tag \in Tags
    BY DEF WordScan, WordEnds, NoWord, CallTyped, TokensTyped
  <1>2. CASE WordScan
    <2>1. /\ ScanChar /\ lexeme' = Append(lexeme, Shown) /\ Shown \in IdElems
          /\ at' \in {"word", "failed"} /\ (at' # "failed" => status' = "ok")
          /\ UNCHANGED <<state, pattern, matched, location, word_table, tokens>>
      BY <1>2 DEF WordScan, Goto, tokenVars
    <2>2. Shown \in Chars
      BY <1>1, <2>1, ClassChars
    <2>3. /\ lexeme' \in Seq(Chars) /\ extent' = Len(lexeme')
          /\ Len(lexeme') <= kBufferSize
      BY <1>1, <2>1, <2>2, LexemeFits
    <2>4. TokensTyped'
      BY <1>1, <2>1, <2>3 DEF TokensTyped
    <2>5. CallTyped'
      BY <1>1, <2>1, <2>3 DEF CallTyped, Places
    <2> QED
      BY <2>4, <2>5
  <1>3. CASE WordEnds
    <2>1. status' = "ok"
      BY <1>3, NextEffect DEF WordEnds
    <2>2. InsertWord(lexeme) /\ Deliver(word_table'[Key(lexeme)].tag, lexeme)
      BY <1>3 DEF WordEnds
    <2>3. /\ \A w \in DOMAIN word_table' : word_table'[w].tag \in Tags
          /\ word_table'[Key(lexeme)].tag \in Tags
      BY <1>1, <2>2 DEF InsertWord, Tags, Key
    <2> QED
      BY <1>1, <2>1, <2>2, <2>3, DeliverTyped
  <1>4. CASE NoWord
    <2>1. /\ UNCHANGED <<extent, status>> /\ LookFor(2)
          /\ UNCHANGED <<state, lexeme, location, word_table, tokens>>
      BY <1>4, RestEffect DEF NoWord, tokenVars
    <2>2. 2 \in 1..Len(Patterns)
      BY PatternAssumption
    <2>3. TokensTyped'
      BY <1>1, <2>1, <2>2, SameTyped DEF LookFor
    <2>4. CallTyped'
      BY <1>1, <2>1, <2>2, LookForTyped
    <2> QED
      BY <2>3, <2>4
  <1> QED
    BY <1>2, <1>3, <1>4

(* GetPunctuator, and what is left *)
LEMMA PunctuatorTyped ==
  ASSUME LexTypesInv, TypeOK',
         EatPunct \/ EatPunctNext \/ Single \/ SingleNext \/ NothingElse
  PROVE  TokensTyped' /\ CallTyped'
  <1> USE DEF LexTypesInv
  <1>1. /\ status = "ok" /\ pattern \in 1..Len(Patterns)
        /\ Patterns[pattern] \in Seq(Chars) /\ matched \in Nat /\ matched <= 3
        /\ location \in Location /\ tokens \in Seq(Token)
        /\ \A w \in DOMAIN word_table : word_table[w].tag \in Tags
    BY PatternFacts
       DEF EatPunct, EatPunctNext, Single, SingleNext, NothingElse, CallTyped, TokensTyped
  <1>2. CASE EatPunct
    <2>1. /\ at' \in {"eat_next", "failed"} /\ (at' # "failed" => status' = "ok")
          /\ UNCHANGED <<state, lexeme, pattern, matched, location, word_table, tokens>>
      BY <1>2 DEF EatPunct, Goto, tokenVars
    <2>2. TokensTyped'
      BY <1>1, <2>1, SameTyped
    <2>3. CallTyped'
      BY <1>1, <2>1, PlaceTyped DEF Places
    <2> QED
      BY <2>2, <2>3
  <1>3. CASE EatPunctNext
    <2>1. status' = "ok" /\ word_table' = word_table
      BY <1>3, NextEffect DEF EatPunctNext
    <2>2. CASE Deliver("kPunctuator", Patterns[pattern])
      BY <1>1, <2>1, <2>2, DeliverTyped DEF Tags
    <2>3. CASE /\ matched > 1 /\ at' = "eat" /\ matched' = matched - 1
               /\ UNCHANGED <<state, lexeme, peek_char, pattern, location, tokens>>
      <3>1. matched' \in Nat /\ matched' <= 3
        BY <1>1, <2>3
      <3>2. TokensTyped'
        BY <1>1, <2>1, <2>3, <3>1, SameTyped
      <3>3. CallTyped'
        BY <2>1, <2>3, <3>1, PlaceTyped DEF Places
      <3> QED
        BY <3>2, <3>3
    <2> QED
      BY <1>3, <2>2, <2>3 DEF EatPunctNext
  <1>4. CASE Single
    <2>1. /\ peek_char' = Shown /\ Shown \in PunctChars
          /\ at' \in {"single_next", "failed"} /\ (at' # "failed" => status' = "ok")
          /\ UNCHANGED <<state, lexeme, pattern, matched, location, word_table, tokens>>
      BY <1>4 DEF Single, Goto, tokenVars
    <2>2. peek_char' \in Chars
      BY <1>1, <2>1, ClassChars
    <2>3. TokensTyped'
      BY <1>1, <2>1, SameTyped
    <2>4. CallTyped'
      BY <1>1, <2>1, <2>2 DEF CallTyped, Places
    <2> QED
      BY <2>3, <2>4
  <1>5. CASE SingleNext
    <2>1. /\ status' = "ok" /\ word_table' = word_table /\ peek_char \in Chars
          /\ Deliver("kPunctuator", <<peek_char>>)
      BY <1>5, NextEffect DEF SingleNext, CallTyped
    <2>2. <<peek_char>> \in Seq(Chars) /\ "kPunctuator" \in Tags
      BY <2>1 DEF Tags
    <2> QED
      BY <1>1, <2>1, <2>2, DeliverTyped
  <1>6. CASE NothingElse
    <2>1. status' = "ok"
      BY <1>1, <1>6, RestEffect DEF NothingElse
    <2>2. CASE Deliver("kEOF", <<>>) /\ UNCHANGED word_table
      <3>1. <<>> \in Seq(Chars) /\ "kEOF" \in Tags
        BY DEF Tags
      <3> QED
        BY <1>1, <2>1, <2>2, <3>1, DeliverTyped
    <2>3. CASE Fail /\ UNCHANGED <<state, lexeme, peek_char, pattern, matched>>
      <3>1. at' = "failed" /\ UNCHANGED <<location, word_table, tokens>>
        BY <2>3 DEF Fail, tokenVars
      <3>2. TokensTyped'
        BY <1>1, <2>3, <3>1, SameTyped
      <3>3. CallTyped'
        BY <1>1, <2>3, <3>1, PlaceTyped DEF Places
      <3> QED
        BY <3>2, <3>3
    <2> QED
      BY <1>6, <2>2, <2>3 DEF NothingElse
  <1> QED
    BY <1>2, <1>3, <1>4, <1>5, <1>6

(* Reset and ResetFile: the lexer starts anew, or the file is gone.        *)
LEMMA ResetTyped ==
  ASSUME LexTypesInv, TypeOK', LexReset \/ LexResetFile \/ Reopened
  PROVE  TokensTyped' /\ CallTyped'
  <1> USE DEF LexTypesInv
  <1>1. CASE Clear
    <2>1. /\ status' = "ok" /\ location' = Begin /\ word_table' = KeyWords
          /\ tokens' = <<>> /\ lexeme' = <<>> /\ at' = "idle"
          /\ UNCHANGED <<state, pattern, matched>>
      BY <1>1 DEF Clear, Reset, Rewind
    <2>2. Begin \in Location
      BY DEF Begin, Location
    <2>3. \A w \in DOMAIN KeyWords : KeyWords[w].tag \in Tags
      BY DEF KeyWords, Tags
    <2>4. <<>> \in Seq(Chars) /\ <<>> \in Seq(Token) /\ Len(<<>>) = 0 /\ 0 <= kBufferSize
      BY BufferAssumption
    <2>5. TokensTyped'
      BY <2>1, <2>2, <2>3, <2>4 DEF TokensTyped
    <2>6. CallTyped'
      BY <2>1, <2>4 DEF CallTyped, Places
    <2> QED
      BY <2>5, <2>6
  <1>2. CASE LexResetFile
    <2>1. /\ at' \in {"reopened", "failed"} /\ (at' # "failed" => status' = "ok")
          /\ UNCHANGED <<state, lexeme, pattern, matched, location, word_table, tokens>>
      BY <1>2 DEF LexResetFile, Goto, tokenVars
    <2>2. TokensTyped'
      BY <2>1, SameTyped DEF TokensTyped
    <2>3. CallTyped'
      BY <2>1, PlaceTyped DEF Places, CallTyped
    <2> QED
      BY <2>2, <2>3
  <1> QED
    BY <1>1, <1>2 DEF LexReset, Reopened

(* Every step keeps the invariant. *)
LEMMA LexTypesStep == LexTypesInv /\ [LexNextAll]_allVars => LexTypesInv'
  <1> SUFFICES ASSUME LexTypesInv, [LexNextAll]_allVars PROVE LexTypesInv'
    OBVIOUS
  <1>1. [Next]_vars
    BY LexNextAllFile
  <1>2. TypeOK' /\ RollbackInReach' /\ CellsInText'
    BY <1>1, ReachInvariant, CellsStep DEF LexTypesInv
  <1>3. CASE UNCHANGED allVars
    <2>1. UNCHANGED <<status, extent, at, state, lexeme, peek_char, pattern, matched,
                      location, word_table, tokens>>
      BY <1>3 DEF allVars, fileVars, vars, cursor, lexVars, tokenVars
    <2> QED
      BY <1>2, <2>1 DEF LexTypesInv, TokensTyped, CallTyped
  <1>4. CASE LexNextAll
    <2>1. CASE Call \/ SkipBlank \/ SkipBlankNext \/ SkipComment \/ SkipCommentNext
      BY <1>2, <2>1, BlankTyped DEF LexTypesInv
    <2>2. CASE Match \/ Matched \/ Mismatched
      BY <1>2, <2>2, PatternTyped DEF LexTypesInv
    <2>3. CASE NumberMove \/ NumberFails \/ NumberEnds
      BY <1>2, <2>3, NumberTyped DEF LexTypesInv
    <2>4. CASE WordScan \/ WordEnds \/ NoWord
      BY <1>2, <2>4, WordTyped DEF LexTypesInv
    <2>5. CASE EatPunct \/ EatPunctNext \/ Single \/ SingleNext \/ NothingElse
      BY <1>2, <2>5, PunctuatorTyped DEF LexTypesInv
    <2>6. CASE LexReset \/ LexResetFile \/ Reopened
      BY <1>2, <2>6, ResetTyped DEF LexTypesInv
    <2> QED
      BY <1>4, <2>1, <2>2, <2>3, <2>4, <2>5, <2>6 DEF LexNextAll, LexNext, NextTokenStep
  <1> QED
    BY <1>3, <1>4

(* The constructed lexer satisfies it. *)
LEMMA LexTypesInit == LexInit => LexTypesInv
  <1> SUFFICES ASSUME LexInit PROVE LexTypesInv
    OBVIOUS
  <1>1. TypeOK /\ RollbackInReach /\ CellsInText /\ status = "ok"
    BY InitTypes, CellsInit DEF LexInit, Init
  <1>2. TokensTyped
    BY FreshInit
  <1>3. "kStart" \in States /\ Len(<<>>) = 0 /\ 0 <= kBufferSize
    BY StateNames, BufferAssumption
  <1>4. CallTyped
    BY <1>1, <1>3 DEF LexInit, CallTyped, Places
  <1> QED
    BY <1>1, <1>2, <1>4 DEF LexTypesInv

(* It is what LexTypeOK says, and more. *)
LEMMA TypesImply == LexTypesInv => LexTypeOK
  BY PatternAssumption
     DEF LexTypesInv, TokensTyped, CallTyped, Places, States, LexTypeOK

(* The same of one pass. *)
THEOREM PassKeepsTypes == LexSpec => []LexTypeOK
  <1>1. [LexNext]_allVars => [LexNextAll]_allVars
    BY DEF LexNextAll
  <1>2. LexTypesInv /\ [LexNext]_allVars => LexTypesInv'
    BY <1>1, LexTypesStep
  <1> QED
    BY <1>2, LexTypesInit, TypesImply, PTL DEF LexSpec
=============================================================================
