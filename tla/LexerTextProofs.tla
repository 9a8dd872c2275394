---------------------------- MODULE LexerTextProofs ----------------------------
(***************************************************************************)
(* Where the tokens of one pass are, what is between them, and that each   *)
(* is the longest there is.                                                *)
(***************************************************************************)
EXTENDS LexerProofs

(* The file keeps its types in a pass of the lexer.                        *)
LEMMA PassTyped == LexSpec => []TypeOK
  <1>1. Init => TypeOK /\ RollbackInReach
    BY InitTypes
  <1>2. TypeOK /\ RollbackInReach /\ [Scan]_vars => TypeOK' /\ RollbackInReach'
    BY ReachInvariant DEF Next
  <1>3. ScanSpec => []TypeOK
    BY <1>1, <1>2, PTL DEF ScanSpec
  <1> QED
    BY <1>3, LexerScans, PTL

(* A step of NextToken makes one of the file's operations, or none.        *)
LEMMA StepOfPass ==
  ASSUME TypeOK, ScanInv, TypeOK', ScanInv', LexNext
  PROVE  /\ ScanChar \/ NextLexeme \/ ResetForward \/ UNCHANGED fileVars
         /\ text' = text
  <1>1. [Scan]_vars
    BY LexNextScans
  <1>2. ScanChar \/ NextLexeme \/ ResetForward \/ UNCHANGED fileVars
    BY <1>1 DEF Scan, fileVars
  <1> QED
    BY <1>2, ScanEffect, NextEffect, RollEffect, RestEffect

-----------------------------------------------------------------------------
(***************************************************************************)
(* Lines and columns of the tokens.                                        *)
(***************************************************************************)
WordKinds == {"kIdentifier", "kKwDef", "kKwExtern"}

(* The line and column of offset p of a text t                             *)
LocationIn(t, p) ==
  [line |-> Cardinality(Breaks(t, p)), col |-> p - LineStart(t, p), pos |-> p]

(* location_ is the exact location of its own offset, at all times.        *)
ExactLocation == location = LocationIn(text, location.pos)

(* A token t tells the exact location, and so does its entry in the table. *)
ExactToken(t) ==
  LocationIn(text, t.location.pos) =
    IF t.tag \in WordKinds THEN word_table[Key(t.lexeme)].location ELSE t.location

ExactTokens == at = "idle" /\ tokens # <<>> => ExactToken(tokens[Len(tokens)])

LocatedInv == ExactLocation /\ ExactTokens

(* The text alone says where an offset is.                                 *)
LEMMA LocationIs == ASSUME NEW p PROVE LocationOf(p) = LocationIn(text, p)
  BY DEF LocationOf, LocationIn, Breaks, LineStart, StartBehind

(* The property, in these words                                            *)
LEMMA TokenLocatedIs == ExactTokens => TokenLocated
  BY LocationIs DEF TokenLocated, ExactTokens, ExactToken, WordKinds

(* A token carries location_, and so does the entry of the table it may    *)
(* be a copy of.                                                           *)
LEMMA DeliverLocated ==
  ASSUME NEW tag, NEW word, Deliver(tag, word), text' = text,
         tokens \in Seq(Token), ExactLocation,
         tag \in WordKinds => word_table'[Key(word)'].location = location
  PROVE  LocatedInv'
  <1>1. location' = location
    BY DEF Deliver
  <1> DEFINE token == [tag |-> tag, lexeme |-> word, location |-> location,
                       to |-> start_location'.pos]
  <1>2. tokens' = Append(tokens, token)
    BY DEF Deliver
  <1> HIDE DEF token
  <1>3. tokens'[Len(tokens')] = token
    BY <1>2
  <1>4. token.tag = tag /\ token.lexeme = word /\ token.location = location
    BY DEF token
  <1>5. ExactLocation'
    BY <1>1 DEF ExactLocation
  <1>6. ExactTokens'
    BY <1>3, <1>4 DEF ExactTokens, ExactToken, ExactLocation, Key
  <1> QED
    BY <1>5, <1>6 DEF LocatedInv

(* InsertId leaves the location in the entry where the word is looked up   *)
(* afterwards: of a word, which is not empty.                              *)
LEMMA InsertLocated ==
  ASSUME NEW word, word # <<>>, InsertWord(word)
  PROVE  word_table'[Key(word)'].location = location
  <1>1. Key(word)' = Key(word) /\ Key(word) \in DOMAIN word_table'
    BY DEF Key, InsertWord
  <1> QED
    BY <1>1 DEF InsertWord

(* Every step of NextToken keeps LocatedInv.                               *)
LEMMA LocatedStep ==
  ASSUME TypeOK, ScanInv, TypeOK', ScanInv', LexInv, LocationExact, LocatedInv,
         [LexNext]_allVars
  PROVE  LocatedInv'
  <1>1. text' = text
    <2>1. CASE LexNext
      BY <2>1, StepOfPass, RestEffect
    <2>2. CASE UNCHANGED allVars
      BY <2>2, RestEffect DEF allVars
    <2> QED
      BY <2>1, <2>2
  <1>2. /\ ExactLocation /\ tokens \in Seq(Token)
        /\ (status = "ok" => start_location = LocationIn(text, start_location.pos))
    BY LocationIs DEF LocatedInv, LexInv, TokensTyped, LocationExact, mark
  <1>4. ASSUME location' \in {location, start_location},
               location' # location => status = "ok",
               at' # "idle" \/ UNCHANGED <<at, tokens, word_table>>
        PROVE  LocatedInv'
    <2>1. ExactLocation'
      BY <1>1, <1>2, <1>4 DEF ExactLocation
    <2>2. ExactTokens'
      BY <1>1, <1>4 DEF LocatedInv, ExactTokens, ExactToken, Key
    <2> QED
      BY <2>1, <2>2 DEF LocatedInv
  <1>5. CASE Call \/ SkipBlank \/ SkipBlankNext \/ Match \/ Matched \/ SkipComment
             \/ SkipCommentNext \/ NumberMove \/ NumberFails \/ WordScan \/ NoWord
             \/ EatPunct \/ Single
    BY <1>4, <1>5 DEF Call, SkipBlank, SkipBlankNext, Match, Matched, SkipComment,
       SkipCommentNext, NumberMove, NumberFails, WordScan, NoWord, EatPunct, Single,
       Goto, LookFor, tokenVars
  <1>6. CASE Mismatched
    <2>1. status = "ok" /\ at' # "idle" /\ location' \in {location, start_location}
      BY <1>6, RollEffect DEF Mismatched, LookFor
    <2> QED
      BY <1>4, <2>1
  <1>7. CASE WordEnds
    <2>1. /\ lexeme # <<>> /\ InsertWord(lexeme)
          /\ Deliver(word_table'[Key(lexeme)].tag, lexeme) /\ lexeme' = lexeme
      BY <1>7 DEF WordEnds, Deliver
    <2>2. word_table'[Key(lexeme)'].location = location
      BY <2>1, InsertLocated
    <2> QED
      BY <1>1, <1>2, <2>1, <2>2, DeliverLocated
  <1>8. CASE NumberEnds
    <2>1. CASE Deliver("kNumber", lexeme)
      BY <1>1, <1>2, <2>1, DeliverLocated DEF WordKinds
    <2>2. CASE at' = "failed" /\ UNCHANGED location
      BY <1>4, <2>2
    <2> QED
      BY <1>8, <2>1, <2>2 DEF NumberEnds
  <1>9. CASE EatPunctNext
    <2>1. CASE Deliver("kPunctuator", Patterns[pattern])
      BY <1>1, <1>2, <2>1, DeliverLocated DEF WordKinds
    <2>2. CASE at' = "eat" /\ UNCHANGED location
      BY <1>4, <2>2
    <2> QED
      BY <1>9, <2>1, <2>2 DEF EatPunctNext
  <1>10. CASE SingleNext
    <2>1. Deliver("kPunctuator", <<peek_char>>)
      BY <1>10 DEF SingleNext
    <2> QED
      BY <1>1, <1>2, <2>1, DeliverLocated DEF WordKinds
  <1>11. CASE NothingElse
    <2>1. CASE Deliver("kEOF", <<>>)
      BY <1>1, <1>2, <2>1, DeliverLocated DEF WordKinds
    <2>2. CASE at' = "failed" /\ UNCHANGED location
      BY <1>4, <2>2
    <2> QED
      BY <1>11, <2>1, <2>2 DEF NothingElse, Fail, tokenVars
  <1>12. CASE UNCHANGED allVars
    BY <1>4, <1>12 DEF allVars, lexVars, tokenVars
  <1> QED
    BY <1>5, <1>6, <1>7, <1>8, <1>9, <1>10, <1>11, <1>12 DEF LexNext, NextTokenStep

(* Before the first call location_ is at the start of the file. *)
LEMMA FreshLocated == ASSUME Fresh, LocationExact PROVE LocatedInv
  <1>1. LocationOf(0) = Begin
    BY DEF Fresh, LocationExact, pos, Begin
  <1> QED
    BY <1>1, LocationIs DEF Fresh, LocatedInv, ExactLocation, ExactTokens, Begin

(* Every token returned tells the exact line and column of its first       *)
(* character, and for a word the entry of the table tells the same: no     *)
(* word is given the place of an earlier one that shares its entry.        *)
THEOREM TokensLocated == LexSpec => []TokenLocated
  <1>1. LexInit /\ LocationExact => LocatedInv
    BY FreshInit, FreshLocated
  <1>2. LexSpec => []LocationExact
    BY LexerScans, LocationAlwaysExact, PTL
  <1>3. LocatedInv => TokenLocated
    BY TokenLocatedIs DEF LocatedInv
  <1> QED
    BY <1>1, <1>2, <1>3, PassTyped, LexerScans, ScanInvariant, LexInvariant,
       LocatedStep, PTL DEF LexSpec
-----------------------------------------------------------------------------
(***************************************************************************)
(* Between the tokens: the inductive invariant.                            *)
(***************************************************************************)
(* InComment, NoToken and CommentsEnd, said of any text t                  *)
InCommentOf(t, a, p) ==
  \E h \in a..p : t[h + 1] = "#" /\ \A k \in h..(p - 1) : t[k + 1] # NewLine
NoTokenOf(t, a, b) == \A p \in a..(b - 1) : t[p + 1] \in Blanks \/ InCommentOf(t, a, p)
CommentsEndOf(t, a, b) == b > a /\ InCommentOf(t, a, b - 1) => t[(b - 1) + 1] = NewLine

(* Where the last token ended, and the offset up to which NextToken found  *)
(* nothing behind it: the start of the token it is scanning, or of the     *)
(* lexeme.                                                                 *)
LastTo == IF tokens = <<>> THEN 0 ELSE tokens[Len(tokens)].to

InToken ==
  \/ at \in {"number", "word", "single", "single_next", "eat", "eat_next"}
  \/ at \in {"match", "mismatch"} /\ pattern > 1

Gap == IF InToken THEN location.pos ELSE mark

(* Where the text is cut off at offset p                                   *)
Cut(p) == IF p < Limit THEN p ELSE Limit

NothingBetween ==
  at # "failed" =>
    /\ LastTo <= Gap
    /\ NoTokenOf(text, LastTo, Gap)
    /\ IF at \in {"comment", "comment_next"}
       THEN InCommentOf(text, LastTo, mark)
       ELSE Gap = Limit \/ CommentsEndOf(text, LastTo, Gap)

SeenAtMark ==
  /\ at \in {"comment", "eat"} => extent = 0
  /\ at = "blank_next" => extent = 1 /\ text[mark + 1] \in Blanks
  /\ at = "comment_next" =>
       \/ peek_char = kEOF /\ extent = 0 /\ mark = Limit
       \/ peek_char = text[mark + 1] /\ peek_char # kEOF /\ extent = 1
  /\ at = "single_next" => extent = 1
  /\ at = "number" /\ lexeme = <<>> => state \in {"kStart", "kAfterSign", "fail"}

(* The rest of a punctuator, matched characters, is still to be eaten.     *)
Eaten == Len(Patterns[pattern]) - matched

Eating ==
  /\ at \in {"eat", "eat_next"} =>
       /\ matched \in 1..Len(Patterns[pattern])
       /\ location.pos < Limit
  /\ at = "eat" => mark = Cut(location.pos + Eaten)
  /\ at = "eat_next" => pos = Cut(location.pos + Eaten + 1)

TokenTold(t, after) ==
  LET from == t.location.pos
  IN  /\ after <= from
      /\ NoTokenOf(text, after, from)
      /\ t.to = Cut(from + Len(t.lexeme))
      /\ t.tag # "kEOF" => t.to > from /\ CommentsEndOf(text, after, from)

AllTold ==
  \A i \in DOMAIN tokens :
    /\ TokenTold(tokens[i], IF i = 1 THEN 0 ELSE tokens[i - 1].to)
    /\ tokens[i].to <= mark

TellInv == NothingBetween /\ SeenAtMark /\ Eating /\ AllTold

-----------------------------------------------------------------------------
(* What is a comment, and where it ends                                    *)

(* The property speaks of the text of the file.                            *)
LEMMA SaidOfText ==
  ASSUME NEW a, NEW b
  PROVE  /\ InComment(a, b) <=> InCommentOf(text, a, b)
         /\ NoToken(a, b) <=> NoTokenOf(text, a, b)
         /\ CommentsEnd(a, b) <=> CommentsEndOf(text, a, b)
  BY DEF InComment, NoToken, CommentsEnd, Char, InCommentOf, NoTokenOf, CommentsEndOf

(* The comment mark is no blank.                                           *)
LEMMA MarkNoBlank == "#" \notin Blanks
  <1>1. NewLine # "#"
    BY ClassAssumption DEF PunctChars
  <1> QED
    BY <1>1 DEF Blanks

(* Nothing is between an offset and itself.                                *)
LEMMA NothingThere ==
  ASSUME NEW t, NEW a \in Nat
  PROVE  NoTokenOf(t, a, a) /\ CommentsEndOf(t, a, a)
  BY DEF NoTokenOf, CommentsEndOf

(* One more blank, behind no comment or behind a whole one                 *)
LEMMA BlankPassed ==
  ASSUME NEW t, NEW a \in Nat, NEW p \in Nat, a <= p,
         NoTokenOf(t, a, p), CommentsEndOf(t, a, p), t[p + 1] \in Blanks
  PROVE  NoTokenOf(t, a, p + 1) /\ CommentsEndOf(t, a, p + 1)
  <1>1. NoTokenOf(t, a, p + 1)
    BY DEF NoTokenOf
  <1>2. ASSUME NEW h \in a..p, t[h + 1] = "#", \A k \in h..(p - 1) : t[k + 1] # NewLine
        PROVE  FALSE
    <2>1. h # p
      BY <1>2, MarkNoBlank
    <2>2. h \in a..(p - 1) /\ p - 1 \in h..(p - 1) /\ p > a
      BY <2>1
    <2>3. InCommentOf(t, a, p - 1)
      <3>1. \A k \in h..((p - 1) - 1) : k \in h..(p - 1)
        OBVIOUS
      <3> QED
        BY <1>2, <2>2, <3>1 DEF InCommentOf
    <2>4. t[(p - 1) + 1] = NewLine
      BY <2>2, <2>3 DEF CommentsEndOf
    <2> QED
      BY <1>2, <2>2, <2>4
  <1>3. ~InCommentOf(t, a, (p + 1) - 1)
    <2>1. (p + 1) - 1 = p
      OBVIOUS
    <2>2. ~InCommentOf(t, a, p)
      BY <1>2 DEF InCommentOf
    <2> QED
      BY <2>1, <2>2
  <1>4. CommentsEndOf(t, a, p + 1)
    BY <1>3 DEF CommentsEndOf
  <1> QED
    BY <1>1, <1>4

(* A comment starts at its mark.                                           *)
LEMMA CommentStarts ==
  ASSUME NEW t, NEW a \in Nat, NEW p \in Nat, a <= p, t[p + 1] = "#"
  PROVE  InCommentOf(t, a, p)
  <1>1. p \in a..p /\ \A k \in p..(p - 1) : FALSE
    OBVIOUS
  <1> QED
    BY <1>1 DEF InCommentOf

(* One more character of a comment: the comment goes on or, at a line end, *)
(* is whole.                                                               *)
LEMMA CommentPassed ==
  ASSUME NEW t, NEW a \in Nat, NEW p \in Nat, a <= p,
         NoTokenOf(t, a, p), InCommentOf(t, a, p)
  PROVE  /\ NoTokenOf(t, a, p + 1)
         /\ t[p + 1] # NewLine => InCommentOf(t, a, p + 1)
         /\ t[p + 1] = NewLine => CommentsEndOf(t, a, p + 1)
  <1>1. NoTokenOf(t, a, p + 1)
    <2>1. \A q \in a..((p + 1) - 1) : q \in a..(p - 1) \/ q = p
      OBVIOUS
    <2> QED
      BY <2>1 DEF NoTokenOf
  <1>2. ASSUME t[p + 1] # NewLine PROVE InCommentOf(t, a, p + 1)
    <2>1. PICK h \in a..p : t[h + 1] = "#" /\ \A k \in h..(p - 1) : t[k + 1] # NewLine
      BY DEF InCommentOf
    <2>2. h \in a..(p + 1) /\ \A k \in h..((p + 1) - 1) : k \in h..(p - 1) \/ k = p
      OBVIOUS
    <2> QED
      BY <1>2, <2>1, <2>2 DEF InCommentOf
  <1>3. t[p + 1] = NewLine => CommentsEndOf(t, a, p + 1)
    <2>1. (p + 1) - 1 = p
      OBVIOUS
    <2> QED
      BY <2>1 DEF CommentsEndOf
  <1> QED
    BY <1>1, <1>2, <1>3

-----------------------------------------------------------------------------
(* What the file's operations do to its two positions and its limit        *)

(* The positions, in order, as long as the file is usable                  *)
InOrder ==
  /\ mark \in Nat /\ pos \in Nat /\ extent \in Nat /\ Limit \in Nat
  /\ pos = mark + extent /\ pos <= Limit

(* The file shows a character of the text up to the limit, kEOF there.     *)
LEMMA CursorFacts ==
  ASSUME TypeOK, ScanInv, status = "ok"
  PROVE  /\ InOrder
         /\ Peek = kEOF <=> pos = Limit
         /\ Shown = kEOF <=> Peek = kEOF
         /\ Peek # kEOF => Shown = text[pos + 1]
  <1>1. /\ PositionsAgree /\ BlocksAgree /\ extent < kBufferSize
        /\ forward \in 0..Last /\ pos <= Len(text)
    BY PeekFacts DEF ScanInv
  <1>2. /\ mark \in Nat /\ pos \in Nat /\ extent \in Nat /\ Len(text) \in Nat
        /\ forward \in Nat /\ Last \in Nat /\ pos - forward \in Nat
    BY <1>1, NumberTypes, FileTypes, Positions
  <1>3. Limit \in Nat /\ pos <= Limit
    BY <1>1, <1>2 DEF Limit
  <1>4. Peek = IF pos < Limit THEN pos ELSE kEOF
    BY PeekExact DEF PeekIsNextChar
  <1>5. Peek = kEOF <=> pos = Limit
    BY <1>2, <1>3, <1>4, CellAssumption
  <1> QED
    BY <1>1, <1>2, <1>3, <1>5, ShownFacts DEF InOrder, PositionsAgree

(* A character scanned was within the limit.                               *)
LEMMA ScanInOrder ==
  ASSUME TypeOK, ScanInv, TypeOK', ScanInv', ScanChar
  PROVE  /\ InOrder /\ pos < Limit /\ Shown = text[pos + 1] /\ Shown # kEOF
         /\ pos' = pos + 1 /\ extent' = extent + 1
         /\ UNCHANGED <<mark, Limit, text, start_location>>
  <1>1. status = "ok" /\ Peek # kEOF /\ extent' = extent + 1
    BY DEF ScanChar
  <1> QED
    BY <1>1, CursorFacts, ScanCharMoves, ScanEffect

(* A new lexeme starts where the last one ends.                            *)
LEMMA NextInOrder ==
  ASSUME TypeOK, ScanInv, NextLexeme
  PROVE  /\ InOrder /\ mark' = pos /\ pos' = pos /\ extent' = 0
         /\ UNCHANGED <<Limit, text>>
  <1>1. InOrder
    BY CursorFacts DEF NextLexeme
  <1> QED
    BY <1>1 DEF NextLexeme, blocks, text, pos, mark, Limit, ReadAhead

(* A roll-back leaves the limit alone, or brings it down to an offset      *)
(* behind the mark.                                                        *)
LEMMA RollInOrder ==
  ASSUME TypeOK, ScanInv, ResetForward
  PROVE  /\ InOrder /\ pos' = mark /\ extent' = 0 /\ Limit' \in Nat
         /\ UNCHANGED <<mark, text, start_location>>
         /\ Limit' = Limit \/ (mark < Limit' /\ Limit' <= Limit)
  <1>1. status = "ok"
    BY DEF ResetForward
  <1>2. InOrder
    BY <1>1, CursorFacts
  <1>3. /\ pos' = mark /\ UNCHANGED <<text, mark>>
        /\ Limit' = Limit \/ Limit' \in (mark + 1)..pos
    BY ResetForwardMoves
  <1> QED
    BY <1>2, <1>3, RollEffect DEF InOrder

(* Without an operation nothing moves.                                     *)
LEMMA RestInOrder ==
  ASSUME UNCHANGED fileVars
  PROVE  UNCHANGED <<mark, pos, extent, Limit, text, start_location, Peek, Shown>>
  BY DEF fileVars, vars, cursor, blocks, text, pos, mark, Limit, ReadAhead, Peek, Shown

-----------------------------------------------------------------------------
(* What keeps the invariant *)

(* The numbers in a token                                                  *)
LEMMA TokenParts ==
  ASSUME NEW t \in Token
  PROVE  /\ t.to \in Nat /\ t.location \in Location /\ t.location.pos \in Nat
         /\ t.lexeme \in Seq(Chars) /\ Len(t.lexeme) \in Nat
  <1>1. t.to \in Nat /\ t.location \in Location /\ t.lexeme \in Seq(Chars)
    BY DEF Token
  <1>2. t.location.pos \in Nat
    BY <1>1 DEF Location
  <1>3. Len(t.lexeme) \in Nat
    BY <1>1
  <1> QED
    BY <1>1, <1>2, <1>3

(* The tokens returned so far stay as true as they are: none of them ends  *)
(* behind the mark, where a roll-back may bring the limit down to.         *)
LEMMA KeepTold ==
  ASSUME AllTold, tokens \in Seq(Token), tokens' = tokens, text' = text, InOrder,
         mark' \in Nat, mark <= mark', Limit' \in Nat,
         Limit' = Limit \/ (mark < Limit' /\ Limit' <= Limit)
  PROVE  AllTold'
  <1> SUFFICES ASSUME NEW i \in DOMAIN tokens
               PROVE  /\ TokenTold(tokens[i], IF i = 1 THEN 0 ELSE tokens[i - 1].to)'
                      /\ tokens[i].to <= mark'
    BY DEF AllTold
  <1>1. /\ TokenTold(tokens[i], IF i = 1 THEN 0 ELSE tokens[i - 1].to)
        /\ tokens[i].to <= mark
    BY DEF AllTold
  <1>2. tokens[i] \in Token
    BY ElementOfSeq
  <1>3. /\ tokens[i].to \in Nat /\ tokens[i].location.pos \in Nat
        /\ Len(tokens[i].lexeme) \in Nat
    BY <1>2, TokenParts
  <1>4. tokens[i].to <= mark'
    BY <1>1, <1>3 DEF InOrder
  <1> DEFINE end == tokens[i].location.pos + Len(tokens[i].lexeme)
  <1>5. tokens[i].to = IF end < Limit THEN end ELSE Limit
    BY <1>1 DEF TokenTold, Cut
  <1>6. end \in Nat
    BY <1>3
  <1> HIDE DEF end
  <1>7. tokens[i].to = IF end < Limit' THEN end ELSE Limit'
    BY <1>1, <1>3, <1>5, <1>6 DEF InOrder
  <1>8. TokenTold(tokens[i], IF i = 1 THEN 0 ELSE tokens[i - 1].to)'
    BY <1>1, <1>7 DEF TokenTold, Cut, end
  <1> QED
    BY <1>4, <1>8

(* A step that returns nothing, inside or outside of comments, and finds   *)
(* no more than was found keeps what is known of the gap.                  *)
LEMMA KeepGap ==
  ASSUME NothingBetween, at # "failed", tokens' = tokens, text' = text,
         Gap \in Nat, Limit \in Nat, Gap' = Gap, Limit' \in Nat,
         Limit' = Limit \/ (Gap < Limit' /\ Limit' <= Limit),
         at \notin {"comment", "comment_next"}, at' \notin {"comment", "comment_next"}
  PROVE  NothingBetween'
  <1>1. /\ LastTo <= Gap /\ NoTokenOf(text, LastTo, Gap)
        /\ Gap = Limit \/ CommentsEndOf(text, LastTo, Gap)
    BY DEF NothingBetween
  <1>2. LastTo' = LastTo
    BY DEF LastTo
  <1>3. Gap' = Limit' \/ CommentsEndOf(text', LastTo', Gap')
    BY <1>1, <1>2
  <1> QED
    BY <1>1, <1>2, <1>3 DEF NothingBetween

(* The token returned is a true one, and the next may start at its end.    *)
LEMMA DeliverTold ==
  ASSUME NEW tag \in Tags, NEW word \in Seq(Chars), Deliver(tag, word), AllTold,
         tokens \in Seq(Token), location \in Location, text' = text, InOrder,
         Limit' = Limit, mark' \in Nat, mark <= mark',
         LastTo <= location.pos, NoTokenOf(text, LastTo, location.pos),
         mark' = Cut(location.pos + Len(word)),
         tag # "kEOF" => /\ mark' > location.pos
                         /\ CommentsEndOf(text, LastTo, location.pos)
  PROVE  TellInv'
  <1> DEFINE n     == Len(tokens)
             token == [tag |-> tag, lexeme |-> word, location |-> location,
                       to |-> start_location'.pos]
  <1>1. tokens' = Append(tokens, token) /\ at' = "idle"
    BY DEF Deliver
  <1>2. /\ token.tag = tag /\ token.lexeme = word /\ token.location = location
        /\ token.to = mark'
    BY DEF mark
  <1> HIDE DEF token
  <1>3. /\ n \in Nat /\ DOMAIN tokens = 1..n /\ DOMAIN tokens' = 1..(n + 1)
        /\ Len(tokens') = n + 1 /\ tokens' # <<>> /\ tokens'[n + 1] = token
        /\ \A i \in 1..n : tokens'[i] = tokens[i]
    BY <1>1
  <1>4. LastTo' = mark'
    BY <1>2, <1>3 DEF LastTo
  <1>5. LastTo = IF n + 1 = 1 THEN 0 ELSE tokens'[(n + 1) - 1].to
    <2>1. n = 0 <=> tokens = <<>>
      OBVIOUS
    <2>2. n # 0 => (n + 1) - 1 \in 1..n /\ (n + 1) - 1 = n
      BY <1>3
    <2> QED
      BY <1>3, <2>1, <2>2 DEF LastTo
  <1> DEFINE told(t, after) ==
               /\ after <= t.location.pos
               /\ NoTokenOf(text, after, t.location.pos)
               /\ t.to = IF t.location.pos + Len(t.lexeme) < Limit
                         THEN t.location.pos + Len(t.lexeme) ELSE Limit
               /\ t.tag # "kEOF" => /\ t.to > t.location.pos
                                    /\ CommentsEndOf(text, after, t.location.pos)
  <1>6. told(token, LastTo)
    BY <1>2 DEF Cut
  <1>7. ASSUME NEW i \in 1..n
        PROVE  /\ told(tokens[i], IF i = 1 THEN 0 ELSE tokens[i - 1].to)
               /\ tokens[i].to <= mark /\ tokens[i].to \in Nat
    <2>1. tokens[i] \in Token
      BY <1>3, ElementOfSeq
    <2> QED
      BY <1>3, <2>1 DEF AllTold, TokenTold, Cut, Token
  <1>8. AllTold' <=> \A i \in DOMAIN tokens' :
                       /\ told(tokens'[i], IF i = 1 THEN 0 ELSE tokens'[i - 1].to)
                       /\ tokens'[i].to <= mark'
    BY DEF AllTold, TokenTold, Cut
  <1> HIDE DEF told
  <1>9. ASSUME NEW i \in 1..(n + 1)
        PROVE  /\ told(tokens'[i], IF i = 1 THEN 0 ELSE tokens'[i - 1].to)
               /\ tokens'[i].to <= mark'
    <2>1. CASE i = n + 1
      BY <1>2, <1>3, <1>5, <1>6, <2>1
    <2>2. CASE i \in 1..n
      <3>1. i # 1 => i - 1 \in 1..n
        BY <1>3, <2>2
      <3>2. tokens'[i] = tokens[i] /\ (i # 1 => tokens'[i - 1] = tokens[i - 1])
        BY <1>3, <2>2, <3>1
      <3>3. tokens[i].to <= mark'
        BY <1>7, <2>2 DEF InOrder
      <3> QED
        BY <1>7, <2>2, <3>2, <3>3
    <2> QED
      BY <1>3, <2>1, <2>2
  <1>10. AllTold'
    BY <1>3, <1>8, <1>9
  <1>11. Gap' = mark'
    BY <1>1 DEF Gap, InToken
  <1>12. NothingBetween'
    <2>1. NoTokenOf(text', LastTo', Gap') /\ CommentsEndOf(text', LastTo', Gap')
      BY <1>4, <1>11, NothingThere
    <2> QED
      BY <1>1, <1>4, <1>11, <2>1 DEF NothingBetween
  <1>13. SeenAtMark' /\ Eating'
    BY <1>1 DEF SeenAtMark, Eating
  <1> QED
    BY <1>10, <1>12, <1>13 DEF TellInv

(* The positions at any place in NextToken                                 *)
LEMMA InPlace ==
  ASSUME TypeOK, ScanInv, LexInv, at # "failed"
  PROVE  /\ InOrder /\ status = "ok" /\ location \in Location /\ location.pos \in Nat
         /\ tokens \in Seq(Token) /\ Gap \in Nat
         /\ (InToken /\ at \notin {"eat", "eat_next"} => location.pos = mark)
         /\ (at \notin {"eat", "eat_next"} => Gap = mark)
  <1>1. status = "ok" /\ tokens \in Seq(Token) /\ location \in Location
    BY DEF LexInv, Scanning, TokensTyped
  <1>2. InOrder
    BY <1>1, CursorFacts
  <1>3. location.pos \in Nat
    BY <1>1 DEF Location
  <1>4. InToken /\ at \notin {"eat", "eat_next"} => location.pos = mark
    BY DEF InToken, LexInv, Located, mark
  <1> QED
    BY <1>1, <1>2, <1>3, <1>4 DEF Gap, InOrder

(* The end of the last token is an offset.                                 *)
LEMMA LastToIs == ASSUME tokens \in Seq(Token) PROVE LastTo \in Nat
  <1>1. tokens # <<>> => tokens[Len(tokens)] \in Token
    OBVIOUS
  <1> QED
    BY <1>1 DEF LastTo, Token

(* Blanks, and the calls themselves                                        *)
LEMMA BlankTold ==
  ASSUME TypeOK, ScanInv, TypeOK', ScanInv', LexInv, TellInv,
         Call \/ SkipBlank \/ SkipBlankNext
  PROVE  TellInv'
  <1> USE DEF TellInv
  <1>1. /\ at \in {"idle", "blank", "blank_next"} /\ tokens' = tokens
        /\ Gap = mark /\ InOrder /\ tokens \in Seq(Token) /\ ~InToken
    BY InPlace DEF Call, SkipBlank, SkipBlankNext, tokenVars, InToken
  <1>2. CASE Call \/ SkipBlank
    <2>1. /\ at' \in {"blank", "blank_next", "match", "failed"} /\ extent = 0
          /\ (at' = "match" => pattern' = 1)
          /\ (at' = "blank_next" => ScanChar /\ Shown \in Blanks)
          /\ (at' \in {"blank", "match"} => UNCHANGED fileVars)
          /\ (ScanChar \/ UNCHANGED fileVars)
      BY <1>2 DEF Call, SkipBlank, LookFor, Goto, LexInv, Scanning
    <2>2. UNCHANGED <<mark, Limit, text>>
      BY <2>1, ScanInOrder, RestInOrder
    <2>3. Gap' = mark'
      BY <2>1 DEF Gap, InToken
    <2>4. NothingBetween' /\ AllTold'
      <3>1. Gap' = Gap /\ Gap \in Nat /\ Limit \in Nat /\ mark \in Nat
        BY <1>1, <2>2, <2>3 DEF InOrder
      <3>2. NothingBetween'
        BY <1>1, <2>1, <2>2, <3>1, KeepGap
      <3>3. AllTold'
        BY <1>1, <2>2, <3>1, KeepTold
      <3> QED
        BY <3>2, <3>3
    <2>5. at' = "blank_next" => extent' = 1 /\ text'[mark' + 1] \in Blanks
      <3>1. SUFFICES ASSUME at' = "blank_next"
                     PROVE  extent' = 1 /\ text'[mark' + 1] \in Blanks
        OBVIOUS
      <3>2. Shown = text[pos + 1] /\ Shown \in Blanks /\ extent' = extent + 1
        BY <2>1, <3>1, ScanInOrder
      <3>3. pos = mark
        BY <1>1, <2>1 DEF InOrder
      <3> QED
        BY <2>1, <2>2, <3>2, <3>3
    <2>6. SeenAtMark' /\ Eating'
      BY <2>1, <2>5 DEF SeenAtMark, Eating
    <2> QED
      BY <2>4, <2>6
  <1>3. CASE SkipBlankNext
    <2>1. /\ at = "blank_next" /\ at' = "blank" /\ extent = 1
          /\ text[mark + 1] \in Blanks
      BY <1>3 DEF SkipBlankNext, SeenAtMark
    <2>2. mark' = mark + 1 /\ mark + 1 <= Limit /\ UNCHANGED <<Limit, text>>
      BY <1>1, <1>3, <2>1, NextInOrder DEF SkipBlankNext, InOrder
    <2>3. /\ LastTo <= mark /\ NoTokenOf(text, LastTo, mark)
          /\ CommentsEndOf(text, LastTo, mark)
      <3>1. mark # Limit
        BY <1>1, <2>2 DEF InOrder
      <3> QED
        BY <1>1, <2>1, <3>1 DEF NothingBetween
    <2>4. LastTo \in Nat /\ LastTo' = LastTo
      BY <1>1, LastToIs DEF LastTo
    <2>5. /\ NoTokenOf(text, LastTo, mark + 1) /\ CommentsEndOf(text, LastTo, mark + 1)
      BY <1>1, <2>1, <2>3, <2>4, BlankPassed DEF InOrder
    <2>6. Gap' = mark'
      BY <2>1 DEF Gap, InToken
    <2>7. NothingBetween'
      <3>1. LastTo' <= Gap'
        BY <1>1, <2>2, <2>3, <2>4, <2>6 DEF InOrder
      <3>2. NoTokenOf(text', LastTo', Gap') /\ CommentsEndOf(text', LastTo', Gap')
        BY <2>2, <2>4, <2>5, <2>6
      <3> QED
        BY <2>1, <3>1, <3>2 DEF NothingBetween
    <2>8. AllTold'
      BY <1>1, <2>2, KeepTold DEF InOrder
    <2>9. SeenAtMark' /\ Eating'
      BY <2>1 DEF SeenAtMark, Eating
    <2> QED
      BY <2>7, <2>8, <2>9
  <1> QED
    BY <1>2, <1>3

(* Comments                                                                *)
LEMMA CommentTold ==
  ASSUME TypeOK, ScanInv, TypeOK', ScanInv', LexInv, TellInv,
         SkipComment \/ SkipCommentNext
  PROVE  TellInv'
  <1> USE DEF TellInv
  <1>1. /\ at \in {"comment", "comment_next"} /\ tokens' = tokens /\ LastTo' = LastTo
        /\ Gap = mark /\ InOrder /\ tokens \in Seq(Token) /\ LastTo \in Nat
        /\ status = "ok"
    BY InPlace, LastToIs DEF SkipComment, SkipCommentNext, tokenVars, LastTo
  <1>2. /\ LastTo <= mark /\ NoTokenOf(text, LastTo, mark) /\ mark \in Nat
        /\ InCommentOf(text, LastTo, mark)
    BY <1>1 DEF NothingBetween, InOrder
  <1>3. Gap' = IF at' \in {"comment", "comment_next", "blank"} THEN mark' ELSE Gap'
    BY DEF Gap, InToken
  <1>4. CASE SkipComment
    <2>1. /\ at = "comment" /\ extent = 0 /\ peek_char' = Shown
          /\ at' \in {"comment_next", "failed"}
          /\ ScanChar \/ (Peek = kEOF /\ UNCHANGED fileVars)
      BY <1>4 DEF SkipComment, SeenAtMark, Scanned, Goto
    <2>2. UNCHANGED <<mark, Limit, text>>
      BY <2>1, ScanInOrder, RestInOrder
    <2>3. NothingBetween'
      BY <1>1, <1>2, <1>3, <2>1, <2>2 DEF NothingBetween
    <2>4. AllTold'
      BY <1>1, <2>2, KeepTold DEF InOrder
    <2>5. pos = mark
      BY <1>1, <2>1 DEF InOrder
    <2>6. CASE ScanChar
      <3>1. peek_char' = text'[mark' + 1] /\ peek_char' # kEOF /\ extent' = 1
        BY <2>1, <2>2, <2>5, <2>6, ScanInOrder
      <3> QED
        BY <2>1, <2>3, <2>4, <3>1 DEF SeenAtMark, Eating
    <2>7. CASE Peek = kEOF /\ UNCHANGED fileVars
      <3>1. peek_char' = kEOF /\ extent' = 0 /\ mark' = Limit'
        BY <1>1, <2>1, <2>2, <2>5, <2>7, CursorFacts, RestInOrder
      <3> QED
        BY <2>1, <2>3, <2>4, <3>1 DEF SeenAtMark, Eating
    <2> QED
      BY <2>1, <2>6, <2>7
  <1>5. CASE SkipCommentNext
    <2>1. /\ at = "comment_next" /\ NextLexeme
          /\ at' = IF peek_char \in {NewLine, kEOF} THEN "blank" ELSE "comment"
          /\ \/ peek_char = kEOF /\ extent = 0 /\ mark = Limit
             \/ peek_char = text[mark + 1] /\ peek_char # kEOF /\ extent = 1
      BY <1>5 DEF SkipCommentNext, SeenAtMark
    <2>2. mark' = mark + extent /\ extent' = 0 /\ UNCHANGED <<Limit, text>>
      BY <1>1, <2>1, NextInOrder DEF InOrder
    <2>3. AllTold'
      BY <1>1, <2>2, KeepTold DEF InOrder
    <2>4. SeenAtMark' /\ Eating'
      BY <2>1, <2>2 DEF SeenAtMark, Eating
    <2>5. CASE peek_char = kEOF
      <3>1. mark' = mark /\ mark' = Limit' /\ at' = "blank"
        BY <1>1, <2>1, <2>2, <2>5 DEF InOrder
      <3>2. NothingBetween'
        BY <1>1, <1>2, <1>3, <2>2, <3>1 DEF NothingBetween
      <3> QED
        BY <2>3, <2>4, <3>2
    <2>6. CASE peek_char # kEOF
      <3>1. /\ mark' = mark + 1 /\ peek_char = text[mark + 1]
            /\ LastTo <= mark + 1
        BY <1>1, <1>2, <2>1, <2>2, <2>6
      <3>2. /\ NoTokenOf(text, LastTo, mark + 1)
            /\ peek_char # NewLine => InCommentOf(text, LastTo, mark + 1)
            /\ peek_char = NewLine => CommentsEndOf(text, LastTo, mark + 1)
        BY <1>1, <1>2, <3>1, CommentPassed
      <3>3. NothingBetween'
        <4>1. Gap' = mark' /\ at' = IF peek_char = NewLine THEN "blank" ELSE "comment"
          BY <1>3, <2>1, <2>6
        <4> QED
          BY <1>1, <2>2, <3>1, <3>2, <4>1 DEF NothingBetween
      <3> QED
        BY <2>3, <2>4, <3>3
    <2> QED
      BY <2>5, <2>6
  <1> QED
    BY <1>4, <1>5

(* StartWith                                                               *)
LEMMA PatternTold ==
  ASSUME TypeOK, ScanInv, TypeOK', ScanInv', LexInv, TellInv,
         Match \/ Matched \/ Mismatched
  PROVE  TellInv'
  <1> USE DEF TellInv
  <1>1. /\ at \in {"match", "mismatch"} /\ tokens' = tokens /\ tokens \in Seq(Token)
        /\ Gap = mark /\ Gap \in Nat /\ InOrder /\ pattern \in 1..Len(Patterns)
        /\ (pattern > 1 => location.pos = mark)
    BY InPlace DEF Match, Matched, Mismatched, tokenVars, InToken, LexInv, TokensTyped
  <1>2. CASE Match
    <2>1. /\ at' \in {"match", "mismatch", "failed"} /\ UNCHANGED <<pattern, location>>
          /\ ScanChar \/ UNCHANGED fileVars
      BY <1>2 DEF Match, Goto, Scanned, tokenVars
    <2>2. UNCHANGED <<mark, Limit, text>>
      BY <2>1, ScanInOrder, RestInOrder
    <2>3. AllTold' /\ SeenAtMark' /\ Eating'
      BY <1>1, <2>1, <2>2, KeepTold DEF InOrder, SeenAtMark, Eating
    <2>4. CASE at' = "failed"
      BY <2>3, <2>4 DEF NothingBetween
    <2>5. CASE at' # "failed"
      <3>1. Gap' = Gap
        BY <1>1, <2>1, <2>2, <2>5 DEF Gap, InToken
      <3> QED
        BY <1>1, <2>1, <2>2, <2>3, <3>1, KeepGap DEF InOrder
    <2> QED
      BY <2>4, <2>5
  <1>3. CASE Matched \/ Mismatched
    <2>1. /\ extent' = 0 /\ Limit' \in Nat /\ pos' = mark
          /\ UNCHANGED <<mark, text, start_location>>
          /\ Limit' = Limit \/ (mark < Limit' /\ Limit' <= Limit)
      BY <1>3, RollInOrder DEF Matched, Mismatched
    <2>2. AllTold'
      BY <1>1, <2>1, KeepTold DEF InOrder
    <2>3. ASSUME Gap' = mark, at' \notin {"comment", "comment_next"} PROVE NothingBetween'
      BY <1>1, <2>1, <2>3, KeepGap DEF InOrder
    <2>4. CASE Mismatched
      <3>1. CASE pattern = 1
        <4>1. /\ at' = "number" /\ state' = "kStart" /\ location' = start_location
          BY <2>4, <3>1 DEF Mismatched
        <4>2. Gap' = mark
          BY <2>1, <4>1 DEF Gap, InToken, mark
        <4> QED
          BY <2>2, <2>3, <4>1, <4>2 DEF SeenAtMark, Eating
      <3>2. CASE pattern > 1
        <4>1. /\ location' = location
              /\ \/ at' = "match" /\ pattern' = pattern + 1
                 \/ at' = "single"
          BY <2>4, <3>2 DEF Mismatched, LookFor
        <4>2. Gap' = mark
          BY <1>1, <3>2, <4>1 DEF Gap, InToken
        <4> QED
          BY <2>2, <2>3, <4>1, <4>2 DEF SeenAtMark, Eating
      <3> QED
        BY <1>1, <3>1, <3>2
    <2>5. CASE Matched
      <3>1. /\ at' = IF pattern = 1 THEN "comment" ELSE "eat"
            /\ UNCHANGED <<pattern, matched, location>> /\ at = "match"
            /\ matched = Len(Patterns[pattern]) /\ extent = matched
            /\ \A j \in 1..matched : Patterns[pattern][j] = text[mark + j]
        BY <2>5 DEF Matched, tokenVars, LexInv, Scanning
      <3>2. matched \in Nat /\ matched >= 1
        <4>1. Patterns[pattern] \in Seq(Chars) /\ Patterns[pattern] # <<>>
          BY <1>1, PatternAssumption
        <4> QED
          BY <3>1, <4>1
      <3>3. CASE pattern = 1
        <4>1. text[mark + 1] = "#"
          BY <3>1, <3>2, <3>3, PatternLengths
        <4>2. LastTo \in Nat /\ LastTo' = LastTo /\ LastTo <= mark
              /\ NoTokenOf(text, LastTo, mark) /\ mark \in Nat
          BY <1>1, <3>1, LastToIs DEF LastTo, NothingBetween
        <4>3. InCommentOf(text, LastTo, mark)
          BY <4>1, <4>2, CommentStarts
        <4>4. at' = "comment" /\ Gap' = mark'
          BY <3>1, <3>3 DEF Gap, InToken
        <4>5. NothingBetween'
          BY <2>1, <4>2, <4>3, <4>4 DEF NothingBetween
        <4> QED
          BY <2>1, <2>2, <4>4, <4>5 DEF SeenAtMark, Eating
      <3>4. CASE pattern > 1
        <4>1. at' = "eat" /\ location.pos = mark /\ Gap' = mark
          BY <1>1, <3>1, <3>4 DEF Gap, InToken
        <4>2. NothingBetween'
          BY <2>3, <4>1
        <4>3. mark < Limit'
          BY <1>1, <2>1, <3>1, <3>2 DEF InOrder
        <4>4. Eating'
          <5>1. Eaten' = 0
            BY <3>1, <3>2 DEF Eaten
          <5>2. matched' \in 1..Len(Patterns[pattern'])
            BY <3>1, <3>2
          <5> QED
            BY <2>1, <1>1, <3>1, <4>1, <4>3, <5>1, <5>2 DEF Eating, Cut
        <4> QED
          BY <2>1, <2>2, <4>1, <4>2, <4>4 DEF SeenAtMark
      <3> QED
        BY <1>1, <3>3, <3>4
    <2> QED
      BY <1>3, <2>4, <2>5
  <1> QED
    BY <1>2, <1>3

(* GetNumber does not get past its first two states without a character.   *)
LEMMA FirstMoves ==
  ASSUME NEW c \in Chars
  PROVE  /\ MoveOn("kStart", c).to \in {"kAfterSign", "fail"}
         /\ MoveOn("kAfterSign", c).eats \/ MoveOn("kAfterSign", c).to = "fail"
  <1>1. Moves["kStart"] = <<Go(Signs, "fail"), Otherwise("kAfterSign")>>
    BY DEF Moves
  <1>2. Moves["kAfterSign"] = <<Eat({"0"}, "kNotDecimalIntStart"),
                                Eat(Digits, "kDecimalDigit"),
                                Eat({"."}, "kAfterDotDigit"), Otherwise("fail")>>
    BY DEF Moves
  <1>3. \A st : c \in Otherwise(st).on /\ Otherwise(st).to = st
    BY DEF Otherwise, Go
  <1>4. \A chars, st : Eat(chars, st).eats = TRUE
    BY DEF Eat
  <1>5. Go(Signs, "fail").to = "fail"
    BY DEF Go
  <1>6. PICK i \in 1..2 : MoveOn("kStart", c) = Moves["kStart"][i]
    <2>1. DOMAIN Moves["kStart"] = 1..2 /\ Moves["kStart"][2] = Otherwise("kAfterSign")
      BY <1>1
    <2> QED
      BY <1>3, <2>1, MoveFirst
  <1>7. PICK j \in 1..4 : MoveOn("kAfterSign", c) = Moves["kAfterSign"][j]
    <2>1. DOMAIN Moves["kAfterSign"] = 1..4 /\ Moves["kAfterSign"][4] = Otherwise("fail")
      BY <1>2
    <2> QED
      BY <1>3, <2>1, MoveFirst
  <1>8. MoveOn("kStart", c).to \in {"kAfterSign", "fail"}
    BY <1>1, <1>3, <1>5, <1>6
  <1>9. MoveOn("kAfterSign", c).eats \/ MoveOn("kAfterSign", c).to = "fail"
    <2>1. j \in {1, 2, 3} \/ j = 4
      OBVIOUS
    <2>2. Moves["kAfterSign"][4] = Otherwise("fail")
      BY <1>2
    <2>3. j \in {1, 2, 3} => \E chars, st : Moves["kAfterSign"][j] = Eat(chars, st)
      BY <1>2
    <2> QED
      BY <1>3, <1>4, <1>7, <2>1, <2>2, <2>3
  <1> QED
    BY <1>8, <1>9

(* GetNumber                                                               *)
LEMMA NumberTold ==
  ASSUME TypeOK, ScanInv, TypeOK', ScanInv', LexInv, TellInv,
         NumberMove \/ NumberFails \/ NumberEnds
  PROVE  TellInv'
  <1> USE DEF TellInv
  <1>1. /\ at = "number" /\ tokens \in Seq(Token) /\ InOrder /\ status = "ok"
        /\ Gap = mark /\ Gap \in Nat
    BY InPlace DEF NumberMove, NumberFails, NumberEnds
  <1>b. Gap = location.pos /\ location \in Location
    BY <1>1, InPlace DEF InToken
  <1>a. /\ extent = Len(lexeme) /\ lexeme \in Seq(Chars)
        /\ (lexeme = <<>> => state \in {"kStart", "kAfterSign", "fail"})
    BY <1>1 DEF LexInv, Scanning, TokensTyped, SeenAtMark
  <1>2. CASE NumberMove
    <2>1. /\ UNCHANGED <<location, tokens>> /\ at' \in {"number", "failed"}
          /\ (ScanChar \/ UNCHANGED fileVars)
      BY <1>2 DEF NumberMove, Goto, tokenVars
    <2>a. \/ lexeme' = Append(lexeme, Shown)
          \/ /\ ~MoveOn(state, Shown).eats /\ state' = MoveOn(state, Shown).to
             /\ lexeme' = lexeme
      BY <1>2 DEF NumberMove
    <2>2. UNCHANGED <<mark, Limit, text>>
      BY <2>1, ScanInOrder, RestInOrder
    <2>3. AllTold'
      BY <1>1, <2>1, <2>2, KeepTold DEF InOrder
    <2>4. CASE at' = "failed"
      BY <2>3, <2>4 DEF NothingBetween, SeenAtMark, Eating
    <2>5. CASE at' = "number"
      <3>1. NothingBetween'
        <4>1. Gap' = Gap
          BY <1>1, <1>b, <2>1, <2>5 DEF Gap, InToken
        <4> QED
          BY <1>1, <2>1, <2>2, <2>5, <4>1, KeepGap DEF InOrder
      <3>2. ASSUME lexeme' = <<>> PROVE state' \in {"kStart", "kAfterSign", "fail"}
        <4>1. /\ ~MoveOn(state, Shown).eats /\ state' = MoveOn(state, Shown).to
              /\ lexeme = <<>>
          BY <1>a, <2>a, <3>2
        <4>2. Shown \in Chars
          BY <1>1, <1>2, ShownFacts DEF NumberMove
        <4>3. state \in {"kStart", "kAfterSign"}
          BY <1>a, <1>2, <4>1 DEF NumberMove, Moves
        <4> QED
          BY <4>1, <4>2, <4>3, FirstMoves
      <3>3. SeenAtMark' /\ Eating'
        BY <2>5, <3>2 DEF SeenAtMark, Eating
      <3> QED
        BY <2>3, <3>1, <3>3
    <2> QED
      BY <2>1, <2>4, <2>5
  <1>3. CASE NumberFails
    <2>1. /\ Limit' \in Nat /\ UNCHANGED <<mark, text>>
          /\ Limit' = Limit \/ (mark < Limit' /\ Limit' <= Limit)
      BY <1>3, RollInOrder DEF NumberFails
    <2>2. /\ at' = "word" /\ UNCHANGED <<location, tokens>>
      BY <1>3 DEF NumberFails, tokenVars
    <2>3. AllTold'
      BY <1>1, <2>1, <2>2, KeepTold DEF InOrder
    <2>4. NothingBetween'
      <3>1. Gap' = Gap
        BY <1>1, <1>b, <2>2 DEF Gap, InToken
      <3> QED
        BY <1>1, <2>1, <2>2, <3>1, KeepGap DEF InOrder
    <2> QED
      BY <2>2, <2>3, <2>4 DEF SeenAtMark, Eating
  <1>4. CASE NumberEnds
    <2>1. mark' = pos /\ UNCHANGED <<Limit, text>>
      BY <1>4, NextInOrder DEF NumberEnds
    <2>2. CASE Deliver("kNumber", lexeme)
      <3>1. lexeme # <<>>
        BY <1>a, <1>4 DEF NumberEnds, EndStates
      <3>2. pos = mark + Len(lexeme) /\ Len(lexeme) \in Nat /\ Len(lexeme) > 0
        BY <1>1, <1>a, <3>1 DEF InOrder
      <3>c. mark' = Cut(pos) /\ mark' > mark /\ mark' \in Nat /\ mark <= mark' /\ Gap # Limit
        BY <1>1, <2>1, <3>2 DEF Cut, InOrder
      <3>3. mark' = Cut(location.pos + Len(lexeme)) /\ mark' > location.pos
            /\ mark' \in Nat /\ mark <= mark' /\ Gap # Limit
        BY <1>1, <1>b, <3>2, <3>c
      <3>4. /\ LastTo <= location.pos /\ NoTokenOf(text, LastTo, location.pos)
            /\ CommentsEndOf(text, LastTo, location.pos)
        BY <1>1, <1>b, <3>3 DEF NothingBetween
      <3>5. "kNumber" \in Tags
        BY DEF Tags
      <3> QED
        BY <1>1, <1>a, <1>b, <2>1, <2>2, <3>3, <3>4, <3>5, DeliverTold
    <2>3. CASE at' = "failed" /\ UNCHANGED tokens
      <3>1. AllTold'
        BY <1>1, <2>1, <2>3, KeepTold DEF InOrder
      <3> QED
        BY <2>3, <3>1 DEF NothingBetween, SeenAtMark, Eating
    <2> QED
      BY <1>4, <2>2, <2>3 DEF NumberEnds
  <1> QED
    BY <1>2, <1>3, <1>4

(* GetIdAndWord                                                            *)
LEMMA WordTold ==
  ASSUME TypeOK, ScanInv, TypeOK', ScanInv', LexInv, TellInv,
         WordScan \/ WordEnds \/ NoWord
  PROVE  TellInv'
  <1> USE DEF TellInv
  <1>1. /\ at = "word" /\ tokens \in Seq(Token) /\ InOrder /\ status = "ok"
        /\ Gap = mark /\ Gap \in Nat
    BY InPlace DEF WordScan, WordEnds, NoWord
  <1>b. Gap = location.pos /\ location \in Location
    BY <1>1, InPlace DEF InToken
  <1>a. extent = Len(lexeme) /\ lexeme \in Seq(Chars)
    BY <1>1 DEF LexInv, Scanning, TokensTyped
  <1>2. CASE WordScan \/ NoWord
    <2>1. /\ UNCHANGED <<location, tokens>> /\ (ScanChar \/ UNCHANGED fileVars)
          /\ at' \in {"word", "failed"} \/ (at' = "match" /\ pattern' = 2)
      BY <1>2 DEF WordScan, NoWord, Goto, LookFor, tokenVars
    <2>2. UNCHANGED <<mark, Limit, text>>
      BY <2>1, ScanInOrder, RestInOrder
    <2>3. AllTold'
      BY <1>1, <2>1, <2>2, KeepTold DEF InOrder
    <2>4. NothingBetween'
      <3>1. CASE at' = "failed"
        BY <3>1 DEF NothingBetween
      <3>2. CASE at' # "failed"
        <4>1. Gap' = Gap
          BY <1>1, <1>b, <2>1, <3>2 DEF Gap, InToken
        <4> QED
          BY <1>1, <2>1, <2>2, <4>1, KeepGap DEF InOrder
      <3> QED
        BY <3>1, <3>2
    <2> QED
      BY <2>1, <2>3, <2>4 DEF SeenAtMark, Eating
  <1>3. CASE WordEnds
    <2>1. /\ mark' = pos /\ UNCHANGED <<Limit, text>> /\ lexeme # <<>>
          /\ InsertWord(lexeme) /\ Deliver(word_table'[Key(lexeme)].tag, lexeme)
      BY <1>3, NextInOrder DEF WordEnds
    <2>2. word_table'[Key(lexeme)].tag \in Tags
      BY <2>1 DEF InsertWord, LexInv, TokensTyped, Tags, Key
    <2>3. pos = mark + Len(lexeme) /\ Len(lexeme) \in Nat /\ Len(lexeme) > 0
      BY <1>1, <1>a, <2>1 DEF InOrder
    <2>c. mark' = Cut(pos) /\ mark' > mark /\ mark' \in Nat /\ mark <= mark' /\ Gap # Limit
      BY <1>1, <2>1, <2>3 DEF Cut, InOrder
    <2>4. mark' = Cut(location.pos + Len(lexeme)) /\ mark' > location.pos
          /\ mark' \in Nat /\ mark <= mark' /\ Gap # Limit
      BY <1>1, <1>b, <2>3, <2>c
    <2>5. /\ LastTo <= location.pos /\ NoTokenOf(text, LastTo, location.pos)
          /\ CommentsEndOf(text, LastTo, location.pos)
      BY <1>1, <1>b, <2>4 DEF NothingBetween
    <2> QED
      BY <1>1, <1>a, <1>b, <2>1, <2>2, <2>4, <2>5, DeliverTold
  <1> QED
    BY <1>2, <1>3

(* GetPunctuator, of the characters StartWith found. Some of them may be   *)
(* cut off by now: the token still says where the file goes on.            *)
LEMMA EatTold ==
  ASSUME TypeOK, ScanInv, TypeOK', ScanInv', LexInv, TellInv, EatPunct \/ EatPunctNext
  PROVE  TellInv'
  <1> USE DEF TellInv
  <1> DEFINE n    == Len(Patterns[pattern])
             from == location.pos
  <1>1. /\ at \in {"eat", "eat_next"} /\ tokens \in Seq(Token) /\ InOrder
        /\ status = "ok"
    BY InPlace DEF EatPunct, EatPunctNext
  <1>2. /\ Gap = from /\ from \in Nat /\ location \in Location
    BY <1>1, InPlace DEF Gap, InToken
  <1>3. /\ pattern \in 1..Len(Patterns) /\ n \in Nat /\ Patterns[pattern] \in Seq(Chars)
        /\ matched \in 1..n /\ from < Limit /\ Eaten = n - matched
    BY <1>1, PatternFacts DEF LexInv, TokensTyped, Eating, Eaten
  <1>4. /\ LastTo <= from /\ NoTokenOf(text, LastTo, from)
        /\ CommentsEndOf(text, LastTo, from)
    <2>1. Gap # Limit
      BY <1>1, <1>2, <1>3 DEF InOrder
    <2> QED
      BY <1>1, <1>2, <2>1 DEF NothingBetween
  <1> HIDE DEF n, from
  <1>5. CASE EatPunct
    <2>1. /\ at = "eat" /\ extent = 0 /\ at' \in {"eat_next", "failed"}
          /\ mark = Cut(from + Eaten)
          /\ UNCHANGED <<tokens, pattern, matched, location>>
          /\ ScanChar \/ (Peek = kEOF /\ UNCHANGED fileVars)
      BY <1>5 DEF EatPunct, SeenAtMark, Eating, Scanned, Goto, tokenVars, from
    <2>2. UNCHANGED <<mark, Limit, text>>
      BY <2>1, ScanInOrder, RestInOrder
    <2>3. AllTold'
      BY <1>1, <2>1, <2>2, KeepTold DEF InOrder
    <2>4. CASE at' = "failed"
      BY <2>3, <2>4 DEF NothingBetween, SeenAtMark, Eating
    <2>5. CASE at' = "eat_next"
      <3>1. Gap' = Gap
        BY <1>1, <1>2, <2>1, <2>5 DEF Gap, InToken, from
      <3>2. NothingBetween'
        BY <1>1, <1>2, <2>1, <2>2, <2>5, <3>1, KeepGap DEF InOrder
      <3>3. pos = mark
        BY <1>1, <2>1 DEF InOrder
      <3>4. \/ pos < Limit /\ pos' = pos + 1
            \/ pos = Limit /\ pos' = pos
        BY <1>1, <2>1, ScanInOrder, RestInOrder, CursorFacts
      <3>5. pos' = IF from + Eaten + 1 < Limit THEN from + Eaten + 1 ELSE Limit
        BY <1>1, <1>2, <1>3, <2>1, <3>3, <3>4 DEF Cut, InOrder
      <3>6. Eating'
        BY <1>3, <2>1, <2>2, <2>5, <3>5 DEF Eating, Eaten, Cut, n, from
      <3> QED
        BY <2>3, <2>5, <3>2, <3>6 DEF SeenAtMark
    <2> QED
      BY <2>1, <2>4, <2>5
  <1>6. CASE EatPunctNext
    <2>1. /\ at = "eat_next" /\ pos = Cut(from + Eaten + 1)
          /\ mark' = pos /\ extent' = 0 /\ UNCHANGED <<Limit, text>>
      BY <1>6, NextInOrder DEF EatPunctNext, Eating, from
    <2>2. CASE matched = 1 /\ Deliver("kPunctuator", Patterns[pattern])
      <3>1. from + Eaten + 1 = from + n
        BY <1>2, <1>3, <2>2
      <3>2. /\ mark' = Cut(from + n) /\ mark' > from /\ mark' \in Nat /\ mark <= mark'
        BY <1>1, <1>2, <1>3, <2>1, <3>1 DEF Cut, InOrder
      <3>3. "kPunctuator" \in Tags
        BY DEF Tags
      <3> QED
        BY <1>1, <1>2, <1>3, <1>4, <2>1, <2>2, <3>2, <3>3, DeliverTold DEF n, from
    <2>3. CASE /\ matched > 1 /\ at' = "eat" /\ matched' = matched - 1
               /\ UNCHANGED <<pattern, location, tokens>>
      <3>1. AllTold'
        BY <1>1, <2>1, <2>3, KeepTold DEF InOrder
      <3>2. Gap' = Gap
        BY <1>1, <1>2, <2>3 DEF Gap, InToken, from
      <3>3. NothingBetween'
        BY <1>1, <1>2, <2>1, <2>3, <3>2, KeepGap DEF InOrder
      <3>4. matched' \in 1..n /\ n - matched' = Eaten + 1
        BY <1>3, <2>3
      <3>5. Eating'
        <4>1. Eaten' = Eaten + 1 /\ from + Eaten' = from + Eaten + 1
          BY <1>2, <1>3, <2>3, <3>4 DEF Eaten, n
        <4>2. mark' = Cut(from + Eaten')
          BY <2>1, <4>1
        <4> QED
          BY <1>3, <2>1, <2>3, <3>4, <4>2 DEF Eating, Cut, n, from
      <3> QED
        BY <2>1, <2>3, <3>1, <3>3, <3>5 DEF SeenAtMark
    <2> QED
      BY <1>6, <2>2, <2>3 DEF EatPunctNext
  <1> QED
    BY <1>5, <1>6

(* ... of one character, and what is left                                  *)
LEMMA SingleTold ==
  ASSUME TypeOK, ScanInv, TypeOK', ScanInv', LexInv, TellInv,
         Single \/ SingleNext \/ NothingElse
  PROVE  TellInv'
  <1> USE DEF TellInv
  <1> DEFINE from == location.pos
  <1>1. /\ at \in {"single", "single_next"} /\ tokens \in Seq(Token) /\ InOrder
        /\ status = "ok" /\ Gap = mark /\ Gap \in Nat
    BY InPlace DEF Single, SingleNext, NothingElse
  <1>2. /\ from = mark /\ location \in Location
    BY <1>1, InPlace DEF Gap, InToken
  <1>3. /\ LastTo <= mark /\ NoTokenOf(text, LastTo, mark)
        /\ mark = Limit \/ CommentsEndOf(text, LastTo, mark)
    BY <1>1 DEF NothingBetween
  <1> HIDE DEF from
  <1>4. CASE Single
    <2>1. /\ at = "single" /\ at' \in {"single_next", "failed"} /\ extent = 0 /\ ScanChar
          /\ UNCHANGED <<tokens, location>>
      BY <1>4 DEF Single, Goto, LexInv, Scanning, tokenVars
    <2>2. /\ UNCHANGED <<mark, Limit, text>> /\ extent' = 1
      BY <2>1, ScanInOrder
    <2>3. AllTold'
      BY <1>1, <2>1, <2>2, KeepTold DEF InOrder
    <2>4. CASE at' = "failed"
      BY <2>3, <2>4 DEF NothingBetween, SeenAtMark, Eating
    <2>5. CASE at' = "single_next"
      <3>1. Gap' = Gap
        BY <1>1, <1>2, <2>1, <2>5 DEF Gap, InToken, from
      <3>2. NothingBetween'
        BY <1>1, <2>1, <2>2, <2>5, <3>1, KeepGap DEF InOrder
      <3> QED
        BY <2>2, <2>3, <2>5, <3>2 DEF SeenAtMark, Eating
    <2> QED
      BY <2>1, <2>4, <2>5
  <1>5. CASE SingleNext
    <2>1. /\ extent = 1 /\ mark' = pos /\ UNCHANGED <<Limit, text>>
          /\ peek_char \in Chars /\ Deliver("kPunctuator", <<peek_char>>)
      BY <1>5, NextInOrder DEF SingleNext, SeenAtMark, LexInv, Scanning
    <2>2. /\ mark' = Cut(mark + 1) /\ mark' > mark /\ mark' \in Nat /\ mark <= mark'
          /\ mark # Limit
      BY <1>1, <2>1 DEF Cut, InOrder
    <2>3. <<peek_char>> \in Seq(Chars) /\ Len(<<peek_char>>) = 1 /\ "kPunctuator" \in Tags
      BY <2>1 DEF Tags
    <2>4. mark' = Cut(from + Len(<<peek_char>>)) /\ mark' > from
      BY <1>2, <2>2, <2>3
    <2> QED
      BY <1>1, <1>2, <1>3, <2>1, <2>2, <2>3, <2>4, DeliverTold DEF from
  <1>6. CASE NothingElse
    <2>1. /\ at = "single" /\ extent = 0 /\ UNCHANGED fileVars
      BY <1>1, <1>6 DEF NothingElse, LexInv, Scanning
    <2>2. UNCHANGED <<mark, Limit, text>>
      BY <2>1, RestInOrder
    <2>3. CASE Peek = kEOF /\ Deliver("kEOF", <<>>)
      <3>1. mark = Limit /\ mark' \in Nat /\ mark <= mark'
        BY <1>1, <2>1, <2>2, <2>3, CursorFacts DEF InOrder
      <3>2. <<>> \in Seq(Chars) /\ Len(<<>>) = 0 /\ "kEOF" \in Tags
        BY DEF Tags
      <3>3. mark' = Cut(mark + 0)
        BY <1>1, <2>2, <3>1 DEF Cut, InOrder
      <3>4. mark' = Cut(from + Len(<<>>))
        BY <1>2, <3>2, <3>3
      <3> QED
        BY <1>1, <1>2, <1>3, <2>2, <2>3, <3>1, <3>2, <3>4, DeliverTold DEF from
    <2>4. CASE Fail
      <3>1. AllTold'
        BY <1>1, <2>2, <2>4, KeepTold DEF InOrder, Fail, tokenVars
      <3> QED
        BY <2>4, <3>1 DEF NothingBetween, SeenAtMark, Eating, Fail
    <2> QED
      BY <1>6, <2>3, <2>4 DEF NothingElse
  <1> QED
    BY <1>4, <1>5, <1>6

(* Every step of NextToken keeps TellInv.                                  *)
LEMMA TellStep ==
  ASSUME TypeOK, ScanInv, TypeOK', ScanInv', LexInv, TellInv, [LexNext]_allVars
  PROVE  TellInv'
  <1>1. CASE UNCHANGED allVars
    <2>1. /\ UNCHANGED <<mark, pos, extent, Limit, text>>
          /\ UNCHANGED <<at, state, lexeme, peek_char, pattern, matched, location, tokens>>
      BY <1>1, RestInOrder DEF allVars, lexVars, tokenVars
    <2>2. LastTo' = LastTo /\ Gap' = Gap /\ Eaten' = Eaten
      BY <2>1 DEF LastTo, Gap, InToken, Eaten
    <2>3. NothingBetween'
      BY <2>1, <2>2 DEF TellInv, NothingBetween
    <2>4. SeenAtMark'
      BY <2>1 DEF TellInv, SeenAtMark
    <2>5. Eating'
      BY <2>1, <2>2 DEF TellInv, Eating, Cut
    <2>6. AllTold'
      BY <2>1 DEF TellInv, AllTold, TokenTold, Cut
    <2> QED
      BY <2>3, <2>4, <2>5, <2>6 DEF TellInv
  <1> QED
    BY <1>1, BlankTold, CommentTold, PatternTold, NumberTold, WordTold, EatTold, SingleTold
       DEF LexNext, NextTokenStep

(* The invariant says what the tokens tell.                                *)
LEMMA TellImplies ==
  ASSUME TypeOK, ScanInv, LexInv, EndInv, TellInv
  PROVE  TokensTellText
  <1>1. ASSUME NEW i \in DOMAIN tokens
        PROVE  LET t     == tokens[i]
                   after == IF i = 1 THEN 0 ELSE tokens[i - 1].to
                   from  == t.location.pos
                   end   == from + Len(t.lexeme)
               IN  /\ after <= from
                   /\ NoToken(after, from)
                   /\ t.to = IF end < Limit THEN end ELSE Limit
                   /\ t.tag # "kEOF" => t.to > from /\ CommentsEnd(after, from)
    BY SaidOfText DEF TellInv, AllTold, TokenTold, Cut
  <1>2. ASSUME at = "idle", AtEnd PROVE pos = Limit
    <2>1. Peek = kEOF /\ status = "ok"
      BY <1>2 DEF EndInv, AtEndOfFile, LexInv, Scanning
    <2> QED
      BY <2>1, CursorFacts
  <1> QED
    BY <1>1, <1>2 DEF TokensTellText, TokensTell

(* Before the first call the lexer has told nothing and passed nothing.    *)
LEMMA FreshTell == ASSUME Fresh PROVE TellInv
  <1>1. /\ tokens = <<>> /\ at = "idle" /\ mark = 0
    BY DEF Fresh, mark, Begin
  <1>2. LastTo = 0 /\ Gap = 0
    BY <1>1 DEF LastTo, Gap, InToken
  <1>3. NothingBetween
    BY <1>1, <1>2, NothingThere DEF NothingBetween
  <1>4. SeenAtMark /\ Eating /\ AllTold
    BY <1>1 DEF SeenAtMark, Eating, AllTold
  <1> QED
    BY <1>3, <1>4 DEF TellInv

(* For every text, buffer size and set of conversions that overflow: no    *)
(* character of the text is lost between two tokens but blanks and whole   *)
(* comments, each token is followed at its end or where the file has no    *)
(* more to show, and the end is reported there and not before.             *)
THEOREM TokensAlwaysTell == LexSpec => []TokensTellText
  <1>1. LexInit => TellInv
    BY FreshInit, FreshTell
  <1> QED
    BY <1>1, PassTyped, LexerScans, ScanInvariant, LexInvariant, EndIsFinal, TellStep,
       TellImplies, PTL DEF LexSpec
-----------------------------------------------------------------------------
(***************************************************************************)
(* The longest match: what GetNumber accepts, character by character.      *)
(***************************************************************************)
(* A part of a sequence *)
LEMMA PartOf ==
  ASSUME NEW S, NEW l \in Seq(S), NEW a \in 1..Len(l) + 1, NEW b \in 0..Len(l), a <= b + 1
  PROVE  /\ SubSeq(l, a, b) \in Seq(S) /\ Len(SubSeq(l, a, b)) = b - a + 1
         /\ DOMAIN SubSeq(l, a, b) = 1..(b - a + 1)
         /\ \A i \in 1..(b - a + 1) : SubSeq(l, a, b)[i] = l[a + i - 1]
  OBVIOUS

(* A sequence of one character *)
LEMMA OneElement ==
  ASSUME NEW S, NEW l \in Seq(S), NEW c \in S, Len(l) = 1, l[1] = c
  PROVE  l = <<c>>
  <1>1. <<c>> \in Seq(S) /\ Len(<<c>>) = 1 /\ <<c>>[1] = c
    OBVIOUS
  <1>2. \A i \in 1..Len(l) : l[i] = <<c>>[i]
    BY <1>1
  <1> QED
    BY <1>1, <1>2, SeqEqual

(* The first n characters of l are a decimal number without, or with, a    *)
(* point.                                                                  *)
WholeUpto(l, n) == n >= 1 /\ l[1] # "0" /\ \A i \in 1..n : l[i] \in Digits

PointAt(l, n, d) ==
  /\ l[d] = "." /\ n > 1
  /\ \A i \in 1..n : i # d => l[i] \in Digits
  /\ d >= 3 => l[1] # "0"

PointUpto(l, n) == \E d \in 1..n : PointAt(l, n, d)

(* An exponent starts at place e of l and goes on to its end. *)
ExpFrom(l, e) ==
  /\ l[e] \in ExpChars /\ e < Len(l)
  /\ \A i \in (e + 2)..Len(l) : l[i] \in Digits
  /\ l[e + 1] \in Digits \/ (l[e + 1] \in Signs /\ e + 1 < Len(l))

(* Decimal, said of places *)
LEMMA WholeIs ==
  ASSUME NEW l \in Seq(Chars), NEW n \in 0..Len(l)
  PROVE  Decimal(SubSeq(l, 1, n)) <=> WholeUpto(l, n)
  <1> DEFINE s == SubSeq(l, 1, n)
  <1>1. s \in Seq(Chars) /\ Len(s) = n /\ DOMAIN s = 1..n /\ \A i \in 1..n : s[i] = l[i]
    OBVIOUS
  <1> HIDE DEF s
  <1>2. s # <<>> <=> n >= 1
    BY <1>1
  <1>3. Decimal(s) <=> n >= 1 /\ s[1] # "0" /\ \A i \in 1..n : s[i] \in Digits
    BY <1>1, <1>2 DEF Decimal, AllIn
  <1>4. Decimal(s) <=> WholeUpto(l, n)
    <2>1. n >= 1 => s[1] = l[1]
      BY <1>1
    <2> QED
      BY <1>1, <1>3, <2>1 DEF WholeUpto
  <1> QED
    BY <1>4 DEF s

(* Fraction, said of places *)
LEMMA PointIs ==
  ASSUME NEW l \in Seq(Chars), NEW n \in 0..Len(l)
  PROVE  Fraction(SubSeq(l, 1, n)) <=> PointUpto(l, n)
  <1> DEFINE s == SubSeq(l, 1, n)
  <1>1. s \in Seq(Chars) /\ Len(s) = n /\ DOMAIN s = 1..n /\ \A i \in 1..n : s[i] = l[i]
    OBVIOUS
  <1> HIDE DEF s
  <1>2. ASSUME NEW d \in 1..n
        PROVE  AllIn(SubSeq(s, d + 1, Len(s)), Digits) <=> \A i \in (d + 1)..n : l[i] \in Digits
    <2>1. /\ DOMAIN SubSeq(s, d + 1, n) = 1..(n - d)
          /\ \A j \in 1..(n - d) : SubSeq(s, d + 1, n)[j] = s[d + j]
      BY <1>1
    <2>2. ASSUME AllIn(SubSeq(s, d + 1, Len(s)), Digits), NEW i \in (d + 1)..n
          PROVE  l[i] \in Digits
      <3>1. i - d \in 1..(n - d) /\ d + (i - d) = i /\ i \in 1..n
        OBVIOUS
      <3> QED
        BY <1>1, <2>1, <2>2, <3>1 DEF AllIn
    <2>3. ASSUME \A i \in (d + 1)..n : l[i] \in Digits, NEW j \in 1..(n - d)
          PROVE  SubSeq(s, d + 1, n)[j] \in Digits
      <3>1. d + j \in (d + 1)..n /\ d + j \in 1..n
        OBVIOUS
      <3> QED
        BY <1>1, <2>1, <2>3, <3>1
    <2> QED
      BY <1>1, <2>1, <2>2, <2>3 DEF AllIn
  <1>3. ASSUME NEW d \in 1..n
        PROVE  Decimal(SubSeq(s, 1, d - 1)) <=> WholeUpto(l, d - 1)
    <2>1. Decimal(SubSeq(s, 1, d - 1)) <=> WholeUpto(s, d - 1)
      BY <1>1, WholeIs
    <2> QED
      BY <1>1, <2>1 DEF WholeUpto
  <1>4. ASSUME NEW d \in 1..n
        PROVE  SubSeq(s, 1, d - 1) = <<"0">> <=> d = 2 /\ l[1] = "0"
    <2>1. Len(SubSeq(s, 1, d - 1)) = d - 1 /\ (d = 2 => SubSeq(s, 1, d - 1)[1] = l[1])
      BY <1>1
    <2>2. ASSUME d = 2 PROVE SubSeq(s, 1, d - 1) = <<l[1]>>
      <3> DEFINE x == SubSeq(s, 1, d - 1)
                 c == l[1]
      <3>1. x \in Seq(Chars) /\ c \in Chars /\ Len(x) = 1 /\ x[1] = c
        BY <1>1, <2>1, <2>2
      <3> HIDE DEF x, c
      <3>2. x = <<c>>
        BY <3>1, OneElement
      <3> QED
        BY <3>2 DEF x, c
    <2>3. d # 2 => SubSeq(s, 1, d - 1) # <<"0">>
      BY <2>1
    <2>4. <<l[1]>> = <<"0">> <=> l[1] = "0"
      OBVIOUS
    <2> QED
      BY <2>2, <2>3, <2>4
  <1>5. ASSUME NEW d \in 1..n
        PROVE  (/\ s[d] = "."
                /\ AllIn(SubSeq(s, d + 1, Len(s)), Digits)
                /\ IntPart(SubSeq(s, 1, d - 1)) \/ (d = 1 /\ Len(s) > 1)) <=> PointAt(l, n, d)
    <2>0. "0" \in Digits
      BY DEF Digits, OctalDigits
    <2>1. (IntPart(SubSeq(s, 1, d - 1)) \/ (d = 1 /\ Len(s) > 1))
            <=> \/ d = 2 /\ l[1] = "0"
                \/ WholeUpto(l, d - 1)
                \/ d = 1 /\ n > 1
      BY <1>1, <1>3, <1>4 DEF IntPart
    <2>2. ASSUME s[d] = ".", \A i \in (d + 1)..n : l[i] \in Digits,
                 \/ d = 2 /\ l[1] = "0"
                 \/ WholeUpto(l, d - 1)
                 \/ d = 1 /\ n > 1
          PROVE  PointAt(l, n, d)
      <3>1. \A i \in 1..(d - 1) : l[i] \in Digits
        BY <2>0, <2>2 DEF WholeUpto
      <3>2. d >= 3 => l[1] # "0"
        BY <2>2 DEF WholeUpto
      <3>3. n > 1
        BY <2>2 DEF WholeUpto
      <3>4. \A i \in 1..n : i # d => i \in 1..(d - 1) \/ i \in (d + 1)..n
        OBVIOUS
      <3> QED
        BY <1>1, <2>2, <3>1, <3>2, <3>3, <3>4 DEF PointAt
    <2>3. ASSUME PointAt(l, n, d)
          PROVE  /\ s[d] = "." /\ \A i \in (d + 1)..n : l[i] \in Digits
                 /\ \/ d = 2 /\ l[1] = "0"
                    \/ WholeUpto(l, d - 1)
                    \/ d = 1 /\ n > 1
      BY <1>1, <2>3 DEF PointAt, WholeUpto
    <2> QED
      BY <1>2, <2>1, <2>2, <2>3
  <1> QED
    BY <1>1, <1>5 DEF Fraction, PointUpto, s

(* Exponent, said of places *)
LEMMA ExponentIs ==
  ASSUME NEW l \in Seq(Chars), NEW e \in 2..Len(l)
  PROVE  Exponent(SubSeq(l, e, Len(l))) <=> ExpFrom(l, e)
  <1> DEFINE s == SubSeq(l, e, Len(l))
             n == Len(l)
  <1>1. /\ s \in Seq(Chars) /\ Len(s) = n - e + 1 /\ s # <<>>
        /\ \A i \in 1..(n - e + 1) : s[i] = l[e + i - 1]
    <2>1. e \in 1..Len(l) + 1 /\ Len(l) \in 0..Len(l) /\ e <= Len(l) + 1
      OBVIOUS
    <2>2. /\ s \in Seq(Chars) /\ Len(s) = Len(l) - e + 1
          /\ \A i \in 1..(Len(l) - e + 1) : s[i] = l[e + i - 1]
      BY <2>1, PartOf
    <2>3. Len(s) >= 1
      BY <2>2
    <2> HIDE DEF s
    <2> QED
      BY <2>2, <2>3
  <1>2. n \in Nat
    OBVIOUS
  <1> HIDE DEF s, n
  <1>3. s[1] = l[e]
    BY <1>1, <1>2
  <1>4. /\ Tail(s) \in Seq(Chars) /\ Len(Tail(s)) = n - e
        /\ \A i \in 1..(n - e) : Tail(s)[i] = l[e + i]
    BY <1>1, <1>2, HeadTailProperties
  <1>5. ASSUME n > e PROVE Tail(s) # <<>> /\ Tail(s)[1] = l[e + 1]
    <2>1. Len(Tail(s)) >= 1 /\ 1 \in 1..(n - e)
      BY <1>2, <1>4, <1>5
    <2> QED
      BY <1>4, <2>1
  <1>6. ASSUME n > e
        PROVE  /\ Tail(Tail(s)) \in Seq(Chars) /\ Len(Tail(Tail(s))) = n - e - 1
               /\ \A i \in 1..(n - e - 1) : Tail(Tail(s))[i] = l[e + i + 1]
    <2>1. \A i \in 1..(n - e - 1) : i + 1 \in 1..(n - e) /\ e + (i + 1) = e + i + 1
      BY <1>2
    <2>2. /\ Tail(Tail(s)) \in Seq(Chars) /\ Len(Tail(Tail(s))) = Len(Tail(s)) - 1
          /\ \A i \in 1..Len(Tail(Tail(s))) : Tail(Tail(s))[i] = Tail(s)[i + 1]
      BY <1>4, <1>5, <1>6, HeadTailProperties
    <2>3. Len(Tail(Tail(s))) = n - e - 1
      BY <1>4, <2>2
    <2> QED
      BY <1>4, <2>1, <2>2, <2>3
  <1>7. "+" \notin Digits /\ "-" \notin Digits
    BY DEF Digits, OctalDigits
  <1>8. CASE n = e
    <2> DEFINE u == Tail(s)
    <2>0. u \in Seq(Chars) /\ Len(u) = 0
      BY <1>2, <1>4, <1>8
    <2> HIDE DEF u
    <2>1. u = <<>>
      BY <2>0, EmptySeq
    <2>2. Unsigned(Tail(s)) = <<>>
      BY <2>1 DEF Unsigned, u
    <2>3. ~Exponent(s)
      BY <2>2 DEF Exponent
    <2>4. ~ExpFrom(l, e)
      BY <1>2, <1>8 DEF ExpFrom, n
    <2> QED
      BY <2>3, <2>4 DEF s
  <1>9. CASE n > e /\ l[e + 1] \in Signs
    <2> DEFINE u == Tail(Tail(s))
    <2>1. Unsigned(Tail(s)) = u
      BY <1>5, <1>9 DEF Unsigned
    <2>2. /\ u \in Seq(Chars) /\ Len(u) = n - e - 1
          /\ \A i \in 1..(n - e - 1) : u[i] = l[e + i + 1]
      BY <1>6, <1>9
    <2> HIDE DEF u
    <2>3. u # <<>> <=> n > e + 1
      BY <1>2, <2>2
    <2>4. DOMAIN u = 1..(n - e - 1)
      BY <2>2
    <2>5. (\A i \in DOMAIN u : u[i] \in Digits) <=> \A i \in (e + 2)..n : l[i] \in Digits
      <3>1. ASSUME \A i \in DOMAIN u : u[i] \in Digits, NEW i \in (e + 2)..n
            PROVE  l[i] \in Digits
        <4>1. i - e - 1 \in 1..(n - e - 1) /\ e + (i - e - 1) + 1 = i
          BY <1>2
        <4> QED
          BY <2>2, <2>4, <3>1, <4>1
      <3>2. ASSUME \A i \in (e + 2)..n : l[i] \in Digits, NEW i \in 1..(n - e - 1)
            PROVE  u[i] \in Digits
        <4>1. e + i + 1 \in (e + 2)..n
          BY <1>2
        <4> QED
          BY <2>2, <3>2, <4>1
      <3> QED
        BY <2>4, <3>1, <3>2
    <2>6. Exponent(s) <=> l[e] \in ExpChars /\ u # <<>> /\ \A i \in DOMAIN u : u[i] \in Digits
      BY <1>1, <1>3, <2>1 DEF Exponent, AllIn
    <2>7. l[e + 1] \notin Digits
      BY <1>7, <1>9 DEF Signs
    <2> QED
      BY <1>9, <2>3, <2>5, <2>6, <2>7 DEF ExpFrom, s, n
  <1>10. CASE n > e /\ l[e + 1] \notin Signs
    <2> DEFINE u == Tail(s)
    <2>1. Unsigned(u) = u
      BY <1>5, <1>10 DEF Unsigned
    <2>2. u # <<>> /\ DOMAIN u = 1..(n - e) /\ \A i \in 1..(n - e) : u[i] = l[e + i]
      BY <1>4, <1>5, <1>10
    <2> HIDE DEF u
    <2>5. (\A i \in DOMAIN u : u[i] \in Digits) <=> \A i \in (e + 1)..n : l[i] \in Digits
      <3>1. ASSUME \A i \in DOMAIN u : u[i] \in Digits, NEW i \in (e + 1)..n
            PROVE  l[i] \in Digits
        <4>1. i - e \in 1..(n - e) /\ e + (i - e) = i
          BY <1>2
        <4> QED
          BY <2>2, <3>1, <4>1
      <3>2. ASSUME \A i \in (e + 1)..n : l[i] \in Digits, NEW i \in 1..(n - e)
            PROVE  u[i] \in Digits
        <4>1. e + i \in (e + 1)..n
          BY <1>2
        <4> QED
          BY <2>2, <3>2, <4>1
      <3> QED
        BY <2>2, <3>1, <3>2
    <2>6. Exponent(s) <=> l[e] \in ExpChars /\ \A i \in DOMAIN u : u[i] \in Digits
      BY <1>1, <1>3, <2>1, <2>2 DEF Exponent, AllIn, u
    <2>7. (\A i \in (e + 1)..n : l[i] \in Digits)
            <=> l[e + 1] \in Digits /\ \A i \in (e + 2)..n : l[i] \in Digits
      BY <1>2, <1>10
    <2> QED
      BY <1>10, <2>5, <2>6, <2>7 DEF ExpFrom, s, n
  <1> QED
    BY <1>2, <1>8, <1>9, <1>10 DEF n

(* What IsNumber says, character by character *)
Mantissa(l, n) == WholeUpto(l, n) \/ PointUpto(l, n)

(* "0", a mark, and at least one digit behind it *)
Marked(l, x, digits) ==
  Len(l) > 2 /\ l[1] = "0" /\ l[2] = x /\ \A i \in 3..Len(l) : l[i] \in digits

Octal(l) == l[1] = "0" /\ \A i \in 1..Len(l) : l[i] \in OctalDigits

NumberAs(l) ==
  \/ l = <<"0">> \/ WholeUpto(l, Len(l))
  \/ Len(l) > 1 /\ Octal(l)
  \/ Marked(l, "x", HexDigits) \/ Marked(l, "b", {"0", "1"})
  \/ PointUpto(l, Len(l))
  \/ \E e \in 2..Len(l) : ExpFrom(l, e) /\ Mantissa(l, e - 1)

(* IsNumber says just that. *)
LEMMA NumberIs == ASSUME NEW l \in Seq(Chars) PROVE IsNumber(l) <=> NumberAs(l)
  <1>1. SubSeq(l, 1, Len(l)) = l /\ Len(l) \in 0..Len(l)
    OBVIOUS
  <1>2. (IntPart(l) <=> l = <<"0">> \/ WholeUpto(l, Len(l)))
        /\ (Fraction(l) <=> PointUpto(l, Len(l)))
    BY <1>1, WholeIs, PointIs DEF IntPart
  <1>3. AllIn(l, OctalDigits) <=> \A i \in 1..Len(l) : l[i] \in OctalDigits
    BY DEF AllIn
  <1>4. ASSUME NEW digits, Len(l) > 2
        PROVE  AllIn(SubSeq(l, 3, Len(l)), digits) <=> \A i \in 3..Len(l) : l[i] \in digits
    <2>1. /\ DOMAIN SubSeq(l, 3, Len(l)) = 1..(Len(l) - 2)
          /\ \A j \in 1..(Len(l) - 2) : SubSeq(l, 3, Len(l))[j] = l[j + 2]
      BY <1>4
    <2>2. ASSUME \A j \in 1..(Len(l) - 2) : l[j + 2] \in digits, NEW i \in 3..Len(l)
          PROVE  l[i] \in digits
      <3>1. i - 2 \in 1..(Len(l) - 2) /\ (i - 2) + 2 = i
        OBVIOUS
      <3> QED
        BY <2>2, <3>1
    <2>3. ASSUME \A i \in 3..Len(l) : l[i] \in digits, NEW j \in 1..(Len(l) - 2)
          PROVE  l[j + 2] \in digits
      BY <2>3
    <2> QED
      BY <2>1, <2>2, <2>3 DEF AllIn
  <1>5. ASSUME NEW e \in 2..Len(l)
        PROVE  (/\ Exponent(SubSeq(l, e, Len(l)))
                /\ Decimal(SubSeq(l, 1, e - 1)) \/ Fraction(SubSeq(l, 1, e - 1)))
                 <=> ExpFrom(l, e) /\ Mantissa(l, e - 1)
    <2>1. e - 1 \in 0..Len(l)
      OBVIOUS
    <2> QED
      BY <2>1, ExponentIs, WholeIs, PointIs DEF Mantissa
  <1> QED
    BY <1>2, <1>3, <1>4, <1>5 DEF IsNumber, NumberAs, Octal, Marked

-----------------------------------------------------------------------------
(* What GetNumber has eaten, by its state, with c the character it looks at *)
EatenBy(s, w, c) ==
  /\ s \in {"kStart", "kAfterSign"} => w = <<>>
  /\ s = "kDecimalDigit" => WholeUpto(w, Len(w))
  /\ s = "kNotDecimalIntStart" => w = <<"0">>
  /\ s = "kFirstHexDigit" => w = <<"0", "x">>
  /\ s = "kHexDigit" => Marked(w, "x", HexDigits)
  /\ s = "kOctalDigit" => Octal(w) /\ Len(w) >= 1 /\ (Len(w) = 1 => c \in OctalDigits)
  /\ s = "kFirstBinaryDigit" => w = <<"0", "b">>
  /\ s = "kBinaryDitit" => Marked(w, "b", {"0", "1"})
  /\ s = "kAfterDotDigit" => w = <<".">>
  /\ s \in {"kAfterDotDigitOpt", "kFractionDigit"} => PointUpto(w, Len(w))
  /\ s = "kAfterExpChar" =>
       Len(w) >= 2 /\ w[Len(w)] \in ExpChars /\ Mantissa(w, Len(w) - 1)
  /\ s = "kAfterExpSign" =>
       \E e \in 2..Len(w) :
         /\ w[e] \in ExpChars /\ Mantissa(w, e - 1)
         /\ Len(w) = e \/ (Len(w) = e + 1 /\ w[e + 1] \in Signs)
  /\ s = "kExpDigit" => \E e \in 2..Len(w) : ExpFrom(w, e) /\ Mantissa(w, e - 1)

(* ... and why it went to its last state *)
EndedBy(s, w, c) ==
  /\ s = "kIntZero" => w = <<"0">> /\ c \notin OctalDigits \cup {"x", "b", "."}
  /\ s = "kDecimalEnd" => WholeUpto(w, Len(w)) /\ c \notin Digits \cup ExpChars \cup {"."}
  /\ s = "kOctalEnd" => Octal(w) /\ Len(w) > 1 /\ c \notin OctalDigits
  /\ s = "kHexEnd" => Marked(w, "x", HexDigits) /\ c \notin HexDigits
  /\ s = "kBinaryEnd" => Marked(w, "b", {"0", "1"}) /\ c \notin {"0", "1"}
  /\ s = "kFloatEnd" =>
       \/ PointUpto(w, Len(w)) /\ c \notin Digits \cup ExpChars
       \/ /\ \E e \in 2..Len(w) : ExpFrom(w, e) /\ Mantissa(w, e - 1)
          /\ c \notin Digits
  /\ s = "fail" => w = <<".">> \/ (w = <<>> /\ c \notin Digits)

(* What ends in a last state is a number. *)
LEMMA EndIsNumber ==
  ASSUME NEW w \in Seq(Chars), NEW c, NEW s \in EndStates, EndedBy(s, w, c)
  PROVE  IsNumber(w)
  <1>1. NumberAs(w)
    BY DEF EndStates, EndedBy, NumberAs
  <1> QED
    BY <1>1, NumberIs

-----------------------------------------------------------------------------
(* ... and no longer piece of the text is one. *)

(* The classes of characters a number is made of *)
LEMMA CharFacts ==
  /\ "0" \in OctalDigits /\ OctalDigits \subseteq Digits
  /\ "." \notin Digits /\ "x" \notin Digits /\ "b" \notin Digits
  /\ "." \notin ExpChars /\ "x" \notin ExpChars /\ "b" \notin ExpChars
  /\ \A c \in ExpChars : c \notin Digits /\ c # "." /\ c # "x" /\ c # "b"
  /\ \A c \in Signs : c \notin Digits /\ c # "." /\ c \notin ExpChars
  BY DEF OctalDigits, Digits, ExpChars, Signs

(* A longer number that starts with 0 and has no point is octal, or marked *)
(* as hexadecimal or binary.                                               *)
LEMMA ZeroNotLonger ==
  ASSUME NEW l \in Seq(Chars), Len(l) > 1, l[1] = "0",
         l[2] # ".", NumberAs(l)
  PROVE  Octal(l) \/ Marked(l, "x", HexDigits) \/ Marked(l, "b", {"0", "1"})
  <1>1. \A n \in 1..Len(l) : ~WholeUpto(l, n) 
    BY DEF WholeUpto
  <1>2. ASSUME NEW n \in 1..Len(l), NEW d \in 1..n, PointAt(l, n, d) PROVE FALSE
    <2>1. d # 1 /\ d # 2 /\ ~(d >= 3)
      BY <1>2 DEF PointAt
    <2> QED
      BY <2>1
  <1>3. l # <<"0">>
    OBVIOUS
  <1>4. \A n \in 1..Len(l) : ~Mantissa(l, n)
    BY <1>1, <1>2 DEF Mantissa, PointUpto
  <1>5. Len(l) \in 1..Len(l) /\ \A e \in 2..Len(l) : e - 1 \in 1..Len(l)
    OBVIOUS
  <1> QED
    BY <1>3, <1>4, <1>5 DEF NumberAs, Mantissa

(* Numbers that start with 0: octal, hexadecimal, binary, and 0 itself *)
LEMMA ZeroEnds ==
  ASSUME NEW w \in Seq(Chars), NEW l \in Seq(Chars), Len(w) < Len(l),
         \A i \in 1..Len(w) : l[i] = w[i],
         NEW s \in {"kIntZero", "kOctalEnd", "kHexEnd", "kBinaryEnd"},
         EndedBy(s, w, l[Len(w) + 1])
  PROVE  ~NumberAs(l)
  <1> DEFINE n == Len(w)
             c == l[n + 1]
  <1>1. n \in Nat /\ Len(l) \in Nat /\ n < Len(l) /\ n + 1 \in 1..Len(l)
    OBVIOUS
  <1>2. EndedBy(s, w, c) /\ \A i \in 1..n : l[i] = w[i]
    OBVIOUS
  <1> HIDE DEF n
  <1>3. CASE s = "kIntZero"
    <2>1. n = 1 /\ w[1] = "0" /\ c \notin OctalDigits \cup {"x", "b", "."}
      BY <1>2, <1>3 DEF EndedBy, n
    <2>2. l[1] = "0" /\ l[2] = c /\ Len(l) > 1 /\ 2 \in 1..Len(l)
      BY <1>1, <1>2, <2>1
    <2> QED
      BY <2>1, <2>2, ZeroNotLonger DEF Octal, Marked
  <1>4. CASE s = "kOctalEnd"
    <2>1. n > 1 /\ w[1] = "0" /\ w[2] \in OctalDigits /\ c \notin OctalDigits
      BY <1>1, <1>2, <1>4 DEF EndedBy, Octal, n
    <2>2. l[1] = "0" /\ l[2] \in OctalDigits /\ Len(l) > 1
      BY <1>1, <1>2, <2>1
    <2>3. l[2] # "." /\ l[2] # "x" /\ l[2] # "b"
      BY <2>2, CharFacts
    <2> QED
      BY <1>1, <2>1, <2>2, <2>3, ZeroNotLonger DEF Octal, Marked
  <1>5. CASE s = "kHexEnd"
    <2>1. n > 2 /\ w[1] = "0" /\ w[2] = "x" /\ c \notin HexDigits
      BY <1>1, <1>2, <1>5 DEF EndedBy, Marked, n
    <2>2. l[1] = "0" /\ l[2] = "x" /\ Len(l) > 1 /\ 2 \in 1..Len(l) /\ n + 1 \in 3..Len(l)
      BY <1>1, <1>2, <2>1
    <2>3. "x" # "." /\ "x" # "b" /\ "x" \notin OctalDigits
      BY CharFacts
    <2> QED
      BY <2>1, <2>2, <2>3, ZeroNotLonger DEF Octal, Marked
  <1>6. CASE s = "kBinaryEnd"
    <2>1. n > 2 /\ w[1] = "0" /\ w[2] = "b" /\ c \notin {"0", "1"}
      BY <1>1, <1>2, <1>6 DEF EndedBy, Marked, n
    <2>2. l[1] = "0" /\ l[2] = "b" /\ Len(l) > 1 /\ 2 \in 1..Len(l) /\ n + 1 \in 3..Len(l)
      BY <1>1, <1>2, <2>1
    <2>3. "b" # "." /\ "b" # "x" /\ "b" \notin OctalDigits
      BY CharFacts
    <2> QED
      BY <2>1, <2>2, <2>3, ZeroNotLonger DEF Octal, Marked
  <1> QED
    BY <1>3, <1>4, <1>5, <1>6

(* Decimal numbers *)
LEMMA DecimalEnds ==
  ASSUME NEW w \in Seq(Chars), NEW l \in Seq(Chars), Len(w) < Len(l),
         \A i \in 1..Len(w) : l[i] = w[i],
         WholeUpto(w, Len(w)), l[Len(w) + 1] \notin Digits \cup ExpChars \cup {"."}
  PROVE  ~NumberAs(l)
  <1> DEFINE n == Len(w)
             c == l[n + 1]
  <1>1. n \in Nat /\ Len(l) \in Nat /\ n < Len(l) /\ n + 1 \in 1..Len(l)
    OBVIOUS
  <1>2. /\ n >= 1 /\ l[1] # "0" /\ \A i \in 1..n : l[i] \in Digits
        /\ c \notin Digits /\ c \notin ExpChars /\ c # "."
    BY DEF WholeUpto
  <1> HIDE DEF n, c
  <1>3. l[n + 1] = c
    BY DEF c
  <1>4. ASSUME NEW m \in 1..Len(l), NEW d \in 1..m, PointAt(l, m, d) PROVE FALSE
    <2>1. CASE m <= n
      BY <1>1, <1>2, <1>4, <2>1, CharFacts DEF PointAt
    <2>2. CASE m > n
      BY <1>1, <1>2, <1>3, <1>4, <2>2 DEF PointAt
    <2> QED
      BY <1>1, <2>1, <2>2
  <1>5. ASSUME NEW m \in 1..Len(l), m > n, WholeUpto(l, m) PROVE FALSE
    BY <1>1, <1>2, <1>3, <1>5 DEF WholeUpto
  <1>6. ASSUME NEW e \in 2..Len(l), l[e] \in ExpChars, Mantissa(l, e - 1) PROVE FALSE
    <2>1. e - 1 \in 1..Len(l)
      OBVIOUS
    <2>2. e > n
      BY <1>1, <1>2, <1>6, CharFacts
    <2>3. e # n + 1
      BY <1>2, <1>3, <1>6
    <2>4. e - 1 > n
      BY <1>1, <2>2, <2>3
    <2> QED
      BY <1>4, <1>5, <1>6, <2>1, <2>4 DEF Mantissa, PointUpto
  <1>7. Len(l) \in 1..Len(l) /\ Len(l) > n
    BY <1>1
  <1>8. ~WholeUpto(l, Len(l)) /\ ~PointUpto(l, Len(l))
    BY <1>4, <1>5, <1>7 DEF PointUpto
  <1>9. ~Octal(l) /\ l # <<"0">> /\ ~Marked(l, "x", HexDigits)
        /\ ~Marked(l, "b", {"0", "1"})
    BY <1>2 DEF Octal, Marked
  <1>10. ASSUME NEW e \in 2..Len(l) PROVE ~(ExpFrom(l, e) /\ Mantissa(l, e - 1))
    BY <1>6 DEF ExpFrom
  <1> QED
    BY <1>8, <1>9, <1>10 DEF NumberAs

(* Numbers with a point and no exponent *)
LEMMA PointEnds ==
  ASSUME NEW w \in Seq(Chars), NEW l \in Seq(Chars), Len(w) < Len(l),
         \A i \in 1..Len(w) : l[i] = w[i],
         PointUpto(w, Len(w)), l[Len(w) + 1] \notin Digits \cup ExpChars
  PROVE  ~NumberAs(l)
  <1> DEFINE n == Len(w)
             c == l[n + 1]
  <1>0. PICK p \in 1..n : PointAt(w, n, p)
    BY DEF PointUpto
  <1>1. n \in Nat /\ Len(l) \in Nat /\ n < Len(l) /\ n + 1 \in 1..Len(l)
    OBVIOUS
  <1>2. /\ n > 1 /\ p \in 1..n /\ l[p] = "."
        /\ \A i \in 1..n : i # p => l[i] \in Digits
        /\ c \notin Digits /\ c \notin ExpChars
    BY <1>0 DEF PointAt
  <1> HIDE DEF n, c
  <1>3. l[n + 1] = c
    BY DEF c
  <1>4. ASSUME NEW m \in 1..Len(l), m > n, NEW d \in 1..m, PointAt(l, m, d) PROVE FALSE
    <2>1. CASE d = p
      BY <1>1, <1>2, <1>3, <1>4, <2>1 DEF PointAt
    <2>2. CASE d # p
      BY <1>1, <1>2, <1>4, <2>2, CharFacts DEF PointAt
    <2> QED
      BY <2>1, <2>2
  <1>5. ASSUME NEW m \in 1..Len(l), m > n, WholeUpto(l, m) PROVE FALSE
    BY <1>1, <1>2, <1>5, CharFacts DEF WholeUpto
  <1>6. ASSUME NEW e \in 2..Len(l), l[e] \in ExpChars, Mantissa(l, e - 1) PROVE FALSE
    <2>1. e - 1 \in 1..Len(l)
      OBVIOUS
    <2>2. e > n
      BY <1>1, <1>2, <1>6, CharFacts
    <2>3. e # n + 1
      BY <1>2, <1>3, <1>6
    <2>4. e - 1 > n
      BY <1>1, <2>2, <2>3
    <2> QED
      BY <1>4, <1>5, <1>6, <2>1, <2>4 DEF Mantissa, PointUpto
  <1>7. Len(l) \in 1..Len(l) /\ Len(l) > n /\ Len(l) > 1 /\ p \in 1..Len(l)
    BY <1>1, <1>2
  <1>8. ~Octal(l)
    BY <1>2, <1>7, CharFacts DEF Octal
  <1>9. l[2] # "x" /\ l[2] # "b"
    BY <1>1, <1>2, CharFacts
  <1>10. l # <<"0">>
    <2>1. Len(l) # 1
      BY ONLY <1>1, <1>2
    <2>2. Len(<<"0">>) = 1
      OBVIOUS
    <2> QED
      BY ONLY <2>1, <2>2
  <1> QED
    BY <1>4, <1>5, <1>6, <1>7, <1>8, <1>9, <1>10 DEF NumberAs, PointUpto, Marked, ExpFrom

(* Numbers with an exponent *)
LEMMA ExpEnds ==
  ASSUME NEW w \in Seq(Chars), NEW l \in Seq(Chars), Len(w) < Len(l),
         \A i \in 1..Len(w) : l[i] = w[i],
         NEW x \in 2..Len(w), ExpFrom(w, x), Mantissa(w, x - 1),
         l[Len(w) + 1] \notin Digits
  PROVE  ~NumberAs(l)
  <1> DEFINE n == Len(w)
             c == l[n + 1]
  <1>1. n \in Nat /\ Len(l) \in Nat /\ n < Len(l) /\ n + 1 \in 1..Len(l)
        /\ x \in Nat /\ x >= 2
    OBVIOUS
  <1>2. x < n /\ l[x] \in ExpChars /\ c \notin Digits
    BY DEF ExpFrom
  <1>a. \A i \in 1..(x - 1) : l[i] \in Digits \/ l[i] = "."
    <2>1. \A i \in 1..(x - 1) : w[i] \in Digits \/ w[i] = "."
      BY <1>1 DEF Mantissa, WholeUpto, PointUpto, PointAt
    <2> QED
      BY <1>1, <2>1
  <1> HIDE DEF n, c
  <1>3. l[n + 1] = c
    BY DEF c
  <1>4. ASSUME NEW m \in 1..Len(l), m >= x, NEW d \in 1..m, PointAt(l, m, d) PROVE FALSE
    BY <1>1, <1>2, <1>4, CharFacts DEF PointAt
  <1>5. ASSUME NEW m \in 1..Len(l), m >= x, WholeUpto(l, m) PROVE FALSE
    BY <1>1, <1>2, <1>5, CharFacts DEF WholeUpto
  <1>6. ASSUME NEW e \in 2..Len(l), ExpFrom(l, e), Mantissa(l, e - 1) PROVE FALSE
    <2>1. e - 1 \in 1..Len(l) /\ l[e] \in ExpChars
      BY <1>6 DEF ExpFrom
    <2>2. e >= x
      BY <1>1, <1>a, <2>1, CharFacts
    <2>3. e # x
      BY <1>1, <1>2, <1>3, <1>6 DEF ExpFrom
    <2>4. e - 1 >= x
      BY <1>1, <2>2, <2>3
    <2> QED
      BY <1>4, <1>5, <1>6, <2>1, <2>4 DEF Mantissa, PointUpto
  <1>7. Len(l) \in 1..Len(l) /\ Len(l) >= x /\ Len(l) > 1 /\ x \in 1..Len(l)
    BY <1>1, <1>2
  <1>8. ~Octal(l)
    BY <1>2, <1>7, CharFacts DEF Octal
  <1>9. l[2] # "x" /\ l[2] # "b"
    BY <1>1, <1>2, <1>a, CharFacts
  <1>10. l # <<"0">>
    <2>1. Len(l) # 1
      BY ONLY <1>1, <1>2
    <2>2. Len(<<"0">>) = 1
      OBVIOUS
    <2> QED
      BY ONLY <2>1, <2>2
  <1> QED
    BY <1>4, <1>5, <1>6, <1>7, <1>8, <1>9, <1>10 DEF NumberAs, PointUpto, Marked

(* Whatever GetNumber stops at, it has taken all it could. *)
LEMMA NoLonger ==
  ASSUME NEW w \in Seq(Chars), NEW l \in Seq(Chars), Len(w) < Len(l),
         \A i \in 1..Len(w) : l[i] = w[i],
         NEW s \in EndStates, EndedBy(s, w, l[Len(w) + 1])
  PROVE  ~IsNumber(l)
  <1>1. CASE s = "kDecimalEnd"
    <2>1. WholeUpto(w, Len(w)) /\ l[Len(w) + 1] \notin Digits \cup ExpChars \cup {"."}
      BY <1>1 DEF EndedBy
    <2> QED
      BY <2>1, DecimalEnds, NumberIs
  <1>2. CASE s = "kFloatEnd"
    <2>1. CASE PointUpto(w, Len(w)) /\ l[Len(w) + 1] \notin Digits \cup ExpChars
      BY <2>1, PointEnds, NumberIs
    <2>2. CASE /\ \E e \in 2..Len(w) : ExpFrom(w, e) /\ Mantissa(w, e - 1)
               /\ l[Len(w) + 1] \notin Digits
      BY <2>2, ExpEnds, NumberIs
    <2> QED
      BY <1>2, <2>1, <2>2 DEF EndedBy
  <1>3. CASE s \in {"kIntZero", "kOctalEnd", "kHexEnd", "kBinaryEnd"}
    BY <1>3, ZeroEnds, NumberIs
  <1> QED
    BY <1>1, <1>2, <1>3 DEF EndStates

-----------------------------------------------------------------------------
(* The moves of GetNumber *)

(* The move of a state of two moves, of which the last fits, ... *)
LEMMA TwoMoves ==
  ASSUME NEW s, NEW c, NEW a, NEW b, Moves[s] = <<a, b>>, c \in b.on
  PROVE  MoveOn(s, c) = IF c \in a.on THEN a ELSE b
  <1>1. DOMAIN Moves[s] = 1..2 /\ Moves[s][1] = a /\ Moves[s][2] = b
    OBVIOUS
  <1>2. PICK i \in 1..2 : /\ MoveOn(s, c) = Moves[s][i] /\ c \in Moves[s][i].on
                          /\ \A k \in 1..2 : c \in Moves[s][k].on => i <= k
    BY <1>1, MoveFirst
  <1> QED
    BY <1>1, <1>2

(* ... of three, *)
LEMMA ThreeMoves ==
  ASSUME NEW s, NEW c, NEW a, NEW b, NEW d, Moves[s] = <<a, b, d>>, c \in d.on
  PROVE  MoveOn(s, c) = IF c \in a.on THEN a ELSE IF c \in b.on THEN b ELSE d
  <1>1. DOMAIN Moves[s] = 1..3 /\ Moves[s][1] = a /\ Moves[s][2] = b /\ Moves[s][3] = d
    OBVIOUS
  <1>2. PICK i \in 1..3 : /\ MoveOn(s, c) = Moves[s][i] /\ c \in Moves[s][i].on
                          /\ \A k \in 1..3 : c \in Moves[s][k].on => i <= k
    BY <1>1, MoveFirst
  <1> QED
    BY <1>1, <1>2

(* ... of four, *)
LEMMA FourMoves ==
  ASSUME NEW s, NEW c, NEW a, NEW b, NEW d, NEW e, Moves[s] = <<a, b, d, e>>, c \in e.on
  PROVE  MoveOn(s, c) = IF c \in a.on THEN a ELSE IF c \in b.on THEN b
                        ELSE IF c \in d.on THEN d ELSE e
  <1>1. /\ DOMAIN Moves[s] = 1..4 /\ Moves[s][1] = a /\ Moves[s][2] = b
        /\ Moves[s][3] = d /\ Moves[s][4] = e
    OBVIOUS
  <1>2. PICK i \in 1..4 : /\ MoveOn(s, c) = Moves[s][i] /\ c \in Moves[s][i].on
                          /\ \A k \in 1..4 : c \in Moves[s][k].on => i <= k
    BY <1>1, MoveFirst
  <1> QED
    BY <1>1, <1>2

(* ... and of five *)
LEMMA FiveMoves ==
  ASSUME NEW s, NEW c, NEW a, NEW b, NEW d, NEW e, NEW f,
         Moves[s] = <<a, b, d, e, f>>, c \in f.on
  PROVE  MoveOn(s, c) = IF c \in a.on THEN a ELSE IF c \in b.on THEN b
                        ELSE IF c \in d.on THEN d ELSE IF c \in e.on THEN e ELSE f
  <1>1. /\ DOMAIN Moves[s] = 1..5 /\ Moves[s][1] = a /\ Moves[s][2] = b
        /\ Moves[s][3] = d /\ Moves[s][4] = e /\ Moves[s][5] = f
    OBVIOUS
  <1>2. PICK i \in 1..5 : /\ MoveOn(s, c) = Moves[s][i] /\ c \in Moves[s][i].on
                          /\ \A k \in 1..5 : c \in Moves[s][k].on => i <= k
    BY <1>1, MoveFirst
  <1> QED
    BY <1>1, <1>2

(* One character more *)
LEMMA Grown ==
  ASSUME NEW w \in Seq(Chars), NEW v \in Seq(Chars), NEW c,
         Len(v) = Len(w) + 1, v[Len(w) + 1] = c, \A i \in 1..Len(w) : v[i] = w[i]
  PROVE  /\ WholeUpto(w, Len(w)) /\ c \in Digits => WholeUpto(v, Len(v))
         /\ (WholeUpto(w, Len(w)) \/ w = <<"0">>) /\ c = "." => PointUpto(v, Len(v))
         /\ (PointUpto(w, Len(w)) \/ w = <<".">>) /\ c \in Digits => PointUpto(v, Len(v))
         /\ \A n \in 0..Len(w) : Mantissa(w, n) => Mantissa(v, n)
         /\ Octal(w) /\ Len(w) >= 1 /\ c \in OctalDigits => Octal(v)
         /\ \A x, digits : (Marked(w, x, digits) \/ w = <<"0", x>>) /\ c \in digits
                             => Marked(v, x, digits)
  <1> DEFINE n == Len(w)
  <1>1. n \in Nat /\ Len(v) = n + 1 /\ v[n + 1] = c /\ \A i \in 1..n : v[i] = w[i]
    OBVIOUS
  <1> HIDE DEF n
  <1>2. WholeUpto(w, n) /\ c \in Digits => WholeUpto(v, n + 1)
    BY <1>1 DEF WholeUpto
  <1>3. ASSUME WholeUpto(w, n) \/ w = <<"0">>, c = "." PROVE PointAt(v, n + 1, n + 1)
    <2>1. "0" \in Digits
      BY CharFacts
    <2>2. n >= 1 /\ (\A i \in 1..n : w[i] \in Digits) /\ (n >= 2 => w[1] # "0")
      BY <1>1, <1>3, <2>1 DEF WholeUpto, n
    <2> QED
      BY <1>1, <1>3, <2>2 DEF PointAt
  <1>4. ASSUME PointUpto(w, n) \/ w = <<".">>, c \in Digits
        PROVE  \E d \in 1..(n + 1) : PointAt(v, n + 1, d)
    <2>1. CASE w = <<".">>
      <3>1. n = 1 /\ w[1] = "."
        BY <2>1 DEF n
      <3> QED
        BY <1>1, <1>4, <3>1 DEF PointAt
    <2>2. CASE PointUpto(w, n)
      <3>1. PICK d \in 1..n : PointAt(w, n, d)
        BY <2>2 DEF PointUpto
      <3>2. PointAt(v, n + 1, d)
        BY <1>1, <1>4, <3>1 DEF PointAt
      <3> QED
        BY <1>1, <3>2
    <2> QED
      BY <1>4, <2>1, <2>2
  <1>5. ASSUME NEW k \in 0..n, Mantissa(w, k) PROVE Mantissa(v, k)
    <2>1. WholeUpto(w, k) => WholeUpto(v, k)
      BY <1>1 DEF WholeUpto
    <2>2. ASSUME NEW d \in 1..k, PointAt(w, k, d) PROVE PointAt(v, k, d)
      BY <1>1, <2>2 DEF PointAt
    <2> QED
      BY <1>5, <2>1, <2>2 DEF Mantissa, PointUpto
  <1>6. Octal(w) /\ n >= 1 /\ c \in OctalDigits => Octal(v)
    BY <1>1 DEF Octal, n
  <1>7. ASSUME NEW x, NEW digits, Marked(w, x, digits) \/ w = <<"0", x>>, c \in digits
        PROVE  Marked(v, x, digits)
    <2>1. CASE w = <<"0", x>>
      <3>1. n = 2 /\ w[1] = "0" /\ w[2] = x
        BY <2>1 DEF n
      <3> QED
        BY <1>1, <1>7, <3>1 DEF Marked
    <2>2. CASE Marked(w, x, digits)
      <3>1. n > 2 /\ w[1] = "0" /\ w[2] = x /\ \A i \in 3..n : w[i] \in digits
        BY <2>2 DEF Marked, n
      <3> QED
        BY <1>1, <1>7, <3>1 DEF Marked
    <2> QED
      BY <1>7, <2>1, <2>2
  <1> QED
    BY <1>1, <1>2, <1>3, <1>4, <1>5, <1>6, <1>7 DEF PointUpto, n


(* What GetNumber knows in state s, with w eaten and c to be looked at *)
HasEaten(s, w, c) == EatenBy(s, w, c) /\ EndedBy(s, w, c)

(* Moves that eat, and those that do not *)
LEMMA MoveParts ==
  /\ \A chars, s : /\ Eat(chars, s).on = chars /\ Eat(chars, s).to = s
                   /\ Eat(chars, s).eats = TRUE
  /\ \A chars, s : /\ Go(chars, s).on = chars /\ Go(chars, s).to = s
                   /\ Go(chars, s).eats = FALSE
  /\ \A s : /\ Otherwise(s).on = Chars \cup {Junk} /\ Otherwise(s).to = s
            /\ Otherwise(s).eats = FALSE
  BY DEF Eat, Go, Otherwise

(* What GetNumber has eaten after a move on c, of which v is the lexeme    *)
(* with c *)
Kept(m, w, v, c) ==
  /\ m.eats => \A x : HasEaten(m.to, v, x)
  /\ ~m.eats /\ m.to # "error" => HasEaten(m.to, w, c)

(* The word v is the word w with c behind it. *)
Longer(v, w, c) ==
  /\ v \in Seq(Chars) /\ Len(v) = Len(w) + 1 /\ v[Len(w) + 1] = c
  /\ \A i \in 1..Len(w) : v[i] = w[i]

(* The moves at the start of a number *)
LEMMA StartKeeps ==
  ASSUME NEW w \in Seq(Chars), NEW c \in Chars, NEW v, Longer(v, w, c),
         NEW s \in {"kStart", "kAfterSign"}, HasEaten(s, w, c)
  PROVE  Kept(MoveOn(s, c), w, v, c)
  <1>1. w = <<>> /\ Len(w) = 0
    BY DEF HasEaten, EatenBy
  <1>2. v \in Seq(Chars) /\ Len(v) = 1 /\ v[1] = c
    BY <1>1 DEF Longer
  <1>3. v = <<c>>
    BY <1>2, OneElement
  <1>4. CASE s = "kStart"
    <2>1. Moves[s] = <<Go(Signs, "fail"), Otherwise("kAfterSign")>>
      BY <1>4 DEF Moves
    <2>2. MoveOn(s, c) = IF c \in Signs THEN Go(Signs, "fail") ELSE Otherwise("kAfterSign")
      BY <2>1, TwoMoves, MoveParts
    <2>3. c \in Signs => c \notin Digits
      BY CharFacts
    <2> QED
      BY <1>1, <2>2, <2>3, MoveParts DEF Kept, HasEaten, EatenBy, EndedBy
  <1>5. CASE s = "kAfterSign"
    <2>1. Moves[s] = <<Eat({"0"}, "kNotDecimalIntStart"), Eat(Digits, "kDecimalDigit"),
                       Eat({"."}, "kAfterDotDigit"), Otherwise("fail")>>
      BY <1>5 DEF Moves
    <2>2. MoveOn(s, c) = IF c = "0" THEN Eat({"0"}, "kNotDecimalIntStart")
                         ELSE IF c \in Digits THEN Eat(Digits, "kDecimalDigit")
                         ELSE IF c = "." THEN Eat({"."}, "kAfterDotDigit")
                         ELSE Otherwise("fail")
      BY <2>1, FourMoves, MoveParts
    <2>3. c # "0" /\ c \in Digits => WholeUpto(v, Len(v))
      BY <1>2 DEF WholeUpto
    <2> QED
      BY <1>1, <1>3, <2>2, <2>3, MoveParts DEF Kept, HasEaten, EatenBy, EndedBy
  <1> QED
    BY <1>4, <1>5

(* ... behind its first zero *)
LEMMA ZeroKeeps ==
  ASSUME NEW w \in Seq(Chars), NEW c \in Chars, NEW v, Longer(v, w, c),
         NEW s \in {"kNotDecimalIntStart", "kFirstHexDigit", "kHexDigit",
                    "kOctalDigit", "kFirstBinaryDigit", "kBinaryDitit"},
         HasEaten(s, w, c)
  PROVE  Kept(MoveOn(s, c), w, v, c)
  <1>1. /\ (WholeUpto(w, Len(w)) \/ w = <<"0">>) /\ c = "." => PointUpto(v, Len(v))
        /\ Octal(w) /\ Len(w) >= 1 /\ c \in OctalDigits => Octal(v)
        /\ \A x, digits : (Marked(w, x, digits) \/ w = <<"0", x>>) /\ c \in digits
                            => Marked(v, x, digits)
    BY Grown DEF Longer
  <1>2. v \in Seq(Chars) /\ Len(v) = Len(w) + 1 /\ Len(w) \in Nat
    BY DEF Longer
  <1>3. CASE s = "kNotDecimalIntStart"
    <2>1. Moves[s] = <<Eat({"x"}, "kFirstHexDigit"), Eat({"b"}, "kFirstBinaryDigit"),
                       Go(OctalDigits, "kOctalDigit"), Eat({"."}, "kAfterDotDigitOpt"),
                       Otherwise("kIntZero")>>
      BY <1>3 DEF Moves
    <2>2. MoveOn(s, c) = IF c = "x" THEN Eat({"x"}, "kFirstHexDigit")
                         ELSE IF c = "b" THEN Eat({"b"}, "kFirstBinaryDigit")
                         ELSE IF c \in OctalDigits THEN Go(OctalDigits, "kOctalDigit")
                         ELSE IF c = "." THEN Eat({"."}, "kAfterDotDigitOpt")
                         ELSE Otherwise("kIntZero")
      BY <2>1, FiveMoves, MoveParts
    <2>3. w = <<"0">> /\ Len(w) = 1 /\ w[1] = "0"
      BY <1>3 DEF HasEaten, EatenBy
    <2>4. c \in {"x", "b"} => v = <<"0", c>>
      <3>1. Len(v) = 2 /\ v[1] = "0" /\ v[2] = c
        BY <2>3 DEF Longer
      <3>2. <<"0", c>> \in Seq({"0", c}) /\ Len(<<"0", c>>) = 2
            /\ <<"0", c>>[1] = "0" /\ <<"0", c>>[2] = c
        OBVIOUS
      <3> DEFINE u == <<"0", c>>
      <3> HIDE DEF u
      <3>3. u \in Seq({"0", c}) /\ Len(u) = 2 /\ u[1] = "0" /\ u[2] = c
        BY <3>2 DEF u
      <3>4. \A i \in 1..Len(v) : v[i] = u[i]
        BY <3>1, <3>3
      <3>5. v = u
        BY <1>2, <3>1, <3>3, <3>4, SeqEqual
      <3> QED
        BY <3>5 DEF u
    <2>5. Octal(w)
      BY <2>3, CharFacts DEF Octal
    <2> QED
      BY <1>1, <2>2, <2>3, <2>4, <2>5, MoveParts DEF Kept, HasEaten, EatenBy, EndedBy
  <1>4. CASE s = "kFirstHexDigit"
    <2>1. Moves[s] = <<Eat(HexDigits, "kHexDigit"), Otherwise("error")>>
      BY <1>4 DEF Moves
    <2>2. MoveOn(s, c) = IF c \in HexDigits THEN Eat(HexDigits, "kHexDigit")
                         ELSE Otherwise("error")
      BY <2>1, TwoMoves, MoveParts
    <2> QED
      BY <1>1, <1>4, <2>2, MoveParts DEF Kept, HasEaten, EatenBy, EndedBy
  <1>5. CASE s = "kHexDigit"
    <2>1. Moves[s] = <<Eat(HexDigits, "kHexDigit"), Otherwise("kHexEnd")>>
      BY <1>5 DEF Moves
    <2>2. MoveOn(s, c) = IF c \in HexDigits THEN Eat(HexDigits, "kHexDigit")
                         ELSE Otherwise("kHexEnd")
      BY <2>1, TwoMoves, MoveParts
    <2> QED
      BY <1>1, <1>5, <2>2, MoveParts DEF Kept, HasEaten, EatenBy, EndedBy
  <1>6. CASE s = "kOctalDigit"
    <2>1. Moves[s] = <<Eat(OctalDigits, "kOctalDigit"), Otherwise("kOctalEnd")>>
      BY <1>6 DEF Moves
    <2>2. MoveOn(s, c) = IF c \in OctalDigits THEN Eat(OctalDigits, "kOctalDigit")
                         ELSE Otherwise("kOctalEnd")
      BY <2>1, TwoMoves, MoveParts
    <2>3. Octal(w) /\ Len(w) >= 1 /\ (Len(w) = 1 => c \in OctalDigits)
      BY <1>6 DEF HasEaten, EatenBy
    <2>4. Len(v) >= 1 /\ Len(v) # 1
      BY <1>2, <2>3
    <2>5. ASSUME c \notin OctalDigits PROVE Len(w) > 1
      <3>1. Len(w) # 1
        BY <2>3, <2>5
      <3> QED
        BY ONLY <1>2, <2>3, <3>1
    <2> QED
      BY <1>1, <2>2, <2>3, <2>4, <2>5, MoveParts DEF Kept, HasEaten, EatenBy, EndedBy
  <1>7. CASE s = "kFirstBinaryDigit"
    <2>1. Moves[s] = <<Eat({"0", "1"}, "kBinaryDitit"), Otherwise("error")>>
      BY <1>7 DEF Moves
    <2>2. MoveOn(s, c) = IF c \in {"0", "1"} THEN Eat({"0", "1"}, "kBinaryDitit")
                         ELSE Otherwise("error")
      BY <2>1, TwoMoves, MoveParts
    <2> QED
      BY <1>1, <1>7, <2>2, MoveParts DEF Kept, HasEaten, EatenBy, EndedBy
  <1>8. CASE s = "kBinaryDitit"
    <2>1. Moves[s] = <<Eat({"0", "1"}, "kBinaryDitit"), Otherwise("kBinaryEnd")>>
      BY <1>8 DEF Moves
    <2>2. MoveOn(s, c) = IF c \in {"0", "1"} THEN Eat({"0", "1"}, "kBinaryDitit")
                         ELSE Otherwise("kBinaryEnd")
      BY <2>1, TwoMoves, MoveParts
    <2> QED
      BY <1>1, <1>8, <2>2, MoveParts DEF Kept, HasEaten, EatenBy, EndedBy
  <1> QED
    BY <1>3, <1>4, <1>5, <1>6, <1>7, <1>8

(* ... in its digits, and behind its point *)
LEMMA DigitsKeep ==
  ASSUME NEW w \in Seq(Chars), NEW c \in Chars, NEW v, Longer(v, w, c),
         NEW s \in {"kDecimalDigit", "kAfterDotDigit", "kAfterDotDigitOpt",
                    "kFractionDigit"},
         HasEaten(s, w, c)
  PROVE  Kept(MoveOn(s, c), w, v, c)
  <1>1. /\ WholeUpto(w, Len(w)) /\ c \in Digits => WholeUpto(v, Len(v))
        /\ WholeUpto(w, Len(w)) /\ c = "." => PointUpto(v, Len(v))
        /\ (PointUpto(w, Len(w)) \/ w = <<".">>) /\ c \in Digits => PointUpto(v, Len(v))
        /\ \A n \in 0..Len(w) : Mantissa(w, n) => Mantissa(v, n)
    BY Grown DEF Longer
  <1>2. v \in Seq(Chars) /\ Len(v) = Len(w) + 1 /\ Len(w) \in Nat
        /\ v[Len(v)] = c /\ Len(v) - 1 = Len(w) /\ Len(w) \in 0..Len(w)
    BY DEF Longer
  <1>3. ASSUME Mantissa(w, Len(w)), c \in ExpChars
        PROVE  Len(v) >= 2 /\ v[Len(v)] \in ExpChars /\ Mantissa(v, Len(v) - 1)
    <2>1. Len(w) >= 1
      BY <1>2, <1>3 DEF Mantissa, WholeUpto, PointUpto
    <2> QED
      BY <1>1, <1>2, <1>3, <2>1
  <1>4. CASE s = "kDecimalDigit"
    <2>1. Moves[s] = <<Eat(Digits, "kDecimalDigit"), Eat({"."}, "kAfterDotDigitOpt"),
                       Eat(ExpChars, "kAfterExpChar"), Otherwise("kDecimalEnd")>>
      BY <1>4 DEF Moves
    <2>2. MoveOn(s, c) = IF c \in Digits THEN Eat(Digits, "kDecimalDigit")
                         ELSE IF c = "." THEN Eat({"."}, "kAfterDotDigitOpt")
                         ELSE IF c \in ExpChars THEN Eat(ExpChars, "kAfterExpChar")
                         ELSE Otherwise("kDecimalEnd")
      BY <2>1, FourMoves, MoveParts
    <2>3. WholeUpto(w, Len(w)) /\ Mantissa(w, Len(w))
      BY <1>4 DEF HasEaten, EatenBy, Mantissa
    <2> QED
      BY <1>1, <1>3, <2>2, <2>3, MoveParts DEF Kept, HasEaten, EatenBy, EndedBy
  <1>5. CASE s = "kAfterDotDigit"
    <2>1. Moves[s] = <<Eat(Digits, "kFractionDigit"), Otherwise("fail")>>
      BY <1>5 DEF Moves
    <2>2. MoveOn(s, c) = IF c \in Digits THEN Eat(Digits, "kFractionDigit")
                         ELSE Otherwise("fail")
      BY <2>1, TwoMoves, MoveParts
    <2> QED
      BY <1>1, <1>5, <2>2, MoveParts DEF Kept, HasEaten, EatenBy, EndedBy
  <1>6. CASE s \in {"kAfterDotDigitOpt", "kFractionDigit"}
    <2>1. Moves[s] = <<Eat(Digits, "kFractionDigit"), Eat(ExpChars, "kAfterExpChar"),
                       Otherwise("kFloatEnd")>>
      BY <1>6 DEF Moves
    <2>2. MoveOn(s, c) = IF c \in Digits THEN Eat(Digits, "kFractionDigit")
                         ELSE IF c \in ExpChars THEN Eat(ExpChars, "kAfterExpChar")
                         ELSE Otherwise("kFloatEnd")
      BY <2>1, ThreeMoves, MoveParts
    <2>3. PointUpto(w, Len(w)) /\ Mantissa(w, Len(w))
      BY <1>6 DEF HasEaten, EatenBy, Mantissa
    <2> QED
      BY <1>1, <1>3, <2>2, <2>3, MoveParts DEF Kept, HasEaten, EatenBy, EndedBy
  <1> QED
    BY <1>4, <1>5, <1>6

(* ... and in its exponent *)
LEMMA ExpKeeps ==
  ASSUME NEW w \in Seq(Chars), NEW c \in Chars, NEW v, Longer(v, w, c),
         NEW s \in {"kAfterExpChar", "kAfterExpSign", "kExpDigit"},
         HasEaten(s, w, c)
  PROVE  Kept(MoveOn(s, c), w, v, c)
  <1>1. \A n \in 0..Len(w) : Mantissa(w, n) => Mantissa(v, n)
    BY Grown DEF Longer
  <1>2. /\ v \in Seq(Chars) /\ Len(v) = Len(w) + 1 /\ Len(w) \in Nat
        /\ v[Len(w) + 1] = c /\ \A i \in 1..Len(w) : v[i] = w[i]
    BY DEF Longer
  <1>3. \A e \in 2..Len(w) : Mantissa(w, e - 1) => Mantissa(v, e - 1)
    <2>1. \A e \in 2..Len(w) : e - 1 \in 0..Len(w)
      OBVIOUS
    <2> QED
      BY <1>1, <2>1
  <1>4. CASE s = "kAfterExpChar"
    <2>1. Moves[s] = <<Eat(Signs, "kAfterExpSign"), Otherwise("kAfterExpSign")>>
      BY <1>4 DEF Moves
    <2>2. MoveOn(s, c) = IF c \in Signs THEN Eat(Signs, "kAfterExpSign")
                         ELSE Otherwise("kAfterExpSign")
      BY <2>1, TwoMoves, MoveParts
    <2>3. Len(w) \in 2..Len(w) /\ w[Len(w)] \in ExpChars /\ Mantissa(w, Len(w) - 1)
      BY <1>2, <1>4 DEF HasEaten, EatenBy
    <2>4. /\ Len(w) \in 2..Len(v) /\ v[Len(w)] \in ExpChars /\ Mantissa(v, Len(w) - 1)
          /\ Len(v) = Len(w) + 1 /\ v[Len(w) + 1] = c
      BY <1>2, <1>3, <2>3
    <2>5. EatenBy("kAfterExpSign", w, c)
      BY <2>3 DEF EatenBy
    <2>6. c \in Signs => \A x : EatenBy("kAfterExpSign", v, x)
      BY <2>4 DEF EatenBy
    <2> QED
      BY <2>2, <2>5, <2>6, MoveParts DEF Kept, HasEaten, EndedBy
  <1>5. CASE s = "kAfterExpSign"
    <2>1. Moves[s] = <<Eat(Digits, "kExpDigit"), Otherwise("error")>>
      BY <1>5 DEF Moves
    <2>2. MoveOn(s, c) = IF c \in Digits THEN Eat(Digits, "kExpDigit")
                         ELSE Otherwise("error")
      BY <2>1, TwoMoves, MoveParts
    <2>3. PICK e \in 2..Len(w) :
            /\ w[e] \in ExpChars /\ Mantissa(w, e - 1)
            /\ Len(w) = e \/ (Len(w) = e + 1 /\ w[e + 1] \in Signs)
      BY <1>5 DEF HasEaten, EatenBy
    <2>4. e \in 2..Len(v) /\ Mantissa(v, e - 1)
      BY <1>2, <1>3, <2>3
    <2>5. c \in Digits => ExpFrom(v, e)
      BY <1>2, <2>3 DEF ExpFrom
    <2>6. c \in Digits => \A x : EatenBy("kExpDigit", v, x)
      BY <2>4, <2>5 DEF EatenBy
    <2> QED
      BY <2>2, <2>6, MoveParts DEF Kept, HasEaten, EndedBy
  <1>6. CASE s = "kExpDigit"
    <2>1. Moves[s] = <<Eat(Digits, "kExpDigit"), Otherwise("kFloatEnd")>>
      BY <1>6 DEF Moves
    <2>2. MoveOn(s, c) = IF c \in Digits THEN Eat(Digits, "kExpDigit")
                         ELSE Otherwise("kFloatEnd")
      BY <2>1, TwoMoves, MoveParts
    <2>3. PICK e \in 2..Len(w) : ExpFrom(w, e) /\ Mantissa(w, e - 1)
      BY <1>6 DEF HasEaten, EatenBy
    <2>4. e \in 2..Len(v) /\ Mantissa(v, e - 1)
      BY <1>2, <1>3, <2>3
    <2>5. ASSUME c \in Digits PROVE ExpFrom(v, e)
      <3> DEFINE n == Len(w)
      <3>1. /\ n \in Nat /\ e \in 2..n /\ e < n /\ w[e] \in ExpChars
            /\ \A i \in (e + 2)..n : w[i] \in Digits
            /\ w[e + 1] \in Digits \/ (w[e + 1] \in Signs /\ e + 1 < n)
        BY <1>2, <2>3 DEF ExpFrom
      <3>2. /\ Len(v) = n + 1 /\ v[n + 1] = c /\ \A i \in 1..n : v[i] = w[i]
        BY <1>2
      <3> HIDE DEF n
      <3>3. v[e] = w[e] /\ v[e + 1] = w[e + 1] /\ e < Len(v)
        BY <3>1, <3>2
      <3>4. \A i \in (e + 2)..Len(v) : v[i] \in Digits
        <4>1. \A i \in (e + 2)..(n + 1) : i = n + 1 \/ (i \in (e + 2)..n /\ i \in 1..n)
          BY <3>1
        <4> QED
          BY <2>5, <3>1, <3>2, <4>1
      <3> QED
        BY <3>1, <3>2, <3>3, <3>4 DEF ExpFrom
    <2>6. c \in Digits => \A x : EatenBy("kExpDigit", v, x)
      BY <2>4, <2>5 DEF EatenBy
    <2>7. c \notin Digits => EatenBy("kFloatEnd", w, c) /\ EndedBy("kFloatEnd", w, c)
      BY <2>3 DEF EatenBy, EndedBy
    <2> QED
      BY <2>2, <2>6, <2>7, MoveParts DEF Kept, HasEaten, EndedBy
  <1> QED
    BY <1>4, <1>5, <1>6

(* Every move of GetNumber is true to what was eaten. *)
LEMMA MoveKeeps ==
  ASSUME NEW w \in Seq(Chars), NEW c \in Chars, NEW s \in DOMAIN Moves,
         HasEaten(s, w, c)
  PROVE  Kept(MoveOn(s, c), w, Append(w, c), c)
  <1> DEFINE v == Append(w, c)
  <1>1. Longer(v, w, c)
    BY DEF Longer
  <1> HIDE DEF v
  <1>2. s \in {"kStart", "kAfterSign", "kNotDecimalIntStart", "kFirstHexDigit",
               "kHexDigit", "kOctalDigit", "kFirstBinaryDigit", "kBinaryDitit",
               "kDecimalDigit", "kAfterDotDigit", "kAfterDotDigitOpt",
               "kFractionDigit", "kAfterExpChar", "kAfterExpSign", "kExpDigit"}
    BY StateNames
  <1>3. Kept(MoveOn(s, c), w, v, c)
    BY <1>1, <1>2, StartKeeps, ZeroKeeps, DigitsKeep, ExpKeeps
  <1> QED
    BY <1>3 DEF v

-----------------------------------------------------------------------------
(***************************************************************************)
(* The longest match: the inductive invariant.                             *)
(***************************************************************************)
(* The text at location_ is not pattern p, as far as the file shows it.    *)
NotFound(p) ==
  LET b == location.pos + Len(Patterns[p])
  IN  b <= Limit => SubSeq(text, location.pos + 1, b) # Patterns[p]

(* What GetNumber has eaten                                                *)
NumberSought ==
  at = "number" =>
    HasEaten(state, lexeme, Shown) /\ \A j \in 1..Len(lexeme) : lexeme[j] \notin Blanks

(* What GetIdAndWord has eaten.  A digit starts a word only if GetNumber    *)
(* has seen no blank up to the end.                                        *)
WordSought ==
  at = "word" =>
    /\ AllIn(lexeme, IdElems)
    /\ mark < Limit /\ Char(mark) \in Digits =>
         \A p \in mark..(Limit - 1) : Char(p) \notin Blanks

(* What GetPunctuator has ruled out *)
PatternsSought ==
  /\ at \in {"match", "mismatch", "eat", "eat_next"} =>
       \A p \in 2..(pattern - 1) : NotFound(p)
  /\ at = "mismatch" /\ pattern > 1 => NotFound(pattern)
  /\ at \in {"eat", "eat_next"} => pattern > 1
  /\ at \in {"single", "single_next"} => \A p \in 2..Len(Patterns) : NotFound(p)

LongestInv == NumberSought /\ WordSought /\ PatternsSought /\ LongestMatch

-----------------------------------------------------------------------------
(* Of the punctuators, a shorter one is not looked for before a longer one. *)
LEMMA PatternOrder ==
  \A p \in 2..Len(Patterns) : \A q \in p..Len(Patterns) :
    Len(Patterns[q]) <= Len(Patterns[p])
  <1> DEFINE A == {"#", "<", ">", "=", "!", "-", "+", "*", "/", "%", "&", "|", "^"}
             S(n) == {s \in Seq(A) : Len(s) = n}
             T == Seq(A)
  <1>0. /\ "#" \in A /\ "<" \in A /\ ">" \in A /\ "=" \in A /\ "!" \in A /\ "-" \in A
        /\ "+" \in A /\ "*" \in A /\ "/" \in A /\ "%" \in A /\ "&" \in A /\ "|" \in A
        /\ "^" \in A
    OBVIOUS
  <1> HIDE DEF A
  <1>s. /\ \A x \in A : <<x>> \in S(1)
        /\ \A x, y \in A : <<x, y>> \in S(2)
        /\ \A x, y, z \in A : <<x, y, z>> \in S(3)
        /\ S(1) \subseteq T /\ S(2) \subseteq T /\ S(3) \subseteq T
        /\ \A s \in S(2) : Len(s) = 2
        /\ \A s \in S(3) : Len(s) = 3
    OBVIOUS
  <1> HIDE DEF S, T
  <1>t. (\A s \in S(2) : Len(s) = 2) /\ (\A s \in S(3) : Len(s) = 3)
    BY <1>s
  <1>1. Comment \in Seq(T) /\ Len(Comment) = 1
    BY <1>0, <1>s DEF Comment
  <1>2. ThreeChars \in Seq(S(3)) /\ Len(ThreeChars) = 2
    BY <1>0, <1>s DEF ThreeChars
  <1>3. TwoChars \in Seq(S(2))
    BY <1>0, <1>s DEF TwoChars
  <1> DEFINE first == Comment \o ThreeChars
  <1>4. /\ first \in Seq(T) /\ Len(first) = 3
        /\ \A i \in 1..3 : first[i] = IF i <= 1 THEN Comment[i] ELSE ThreeChars[i - 1]
    <2>1. ThreeChars \in Seq(T)
      BY <1>2, <1>s
    <2>2. /\ first \in Seq(T) /\ Len(first) = Len(Comment) + Len(ThreeChars)
          /\ \A i \in 1..Len(Comment) + Len(ThreeChars) :
               first[i] = IF i <= Len(Comment) THEN Comment[i]
                          ELSE ThreeChars[i - Len(Comment)]
      BY <1>1, <2>1, ConcatProperties
    <2> HIDE DEF first
    <2> QED
      BY <1>1, <1>2, <2>2
  <1>5. Patterns = first \o TwoChars
    BY DEF Patterns
  <1> HIDE DEF first
  <1>6. /\ Len(Patterns) = 3 + Len(TwoChars)
        /\ \A i \in 1..(3 + Len(TwoChars)) :
             Patterns[i] = IF i <= 3 THEN first[i] ELSE TwoChars[i - 3]
    <2>1. TwoChars \in Seq(T)
      BY <1>3, <1>s
    <2>2. /\ Len(Patterns) = Len(first) + Len(TwoChars)
          /\ \A i \in 1..Len(first) + Len(TwoChars) :
               Patterns[i] = IF i <= Len(first) THEN first[i] ELSE TwoChars[i - Len(first)]
      BY <1>4, <1>5, <2>1, ConcatProperties
    <2> QED
      BY <1>4, <2>2
  <1>7. Len(TwoChars) \in Nat
    BY <1>3
  <1>8. ASSUME NEW i \in 2..3 PROVE Len(Patterns[i]) = 3
    <2>1. Patterns[i] = ThreeChars[i - 1]
      BY <1>4, <1>6, <1>7
    <2>2. ThreeChars[i - 1] \in S(3)
      <3>1. i - 1 \in 1..Len(ThreeChars)
        BY <1>2
      <3> QED
        BY <1>2, <3>1, ElementOfSeq
    <2>3. Len(ThreeChars[i - 1]) = 3
      BY <1>t, <2>2
    <2> QED
      BY <2>1, <2>3
  <1>9. ASSUME NEW i \in 4..Len(Patterns) PROVE Len(Patterns[i]) = 2
    <2>1. i - 3 \in 1..Len(TwoChars) /\ i \in 1..(3 + Len(TwoChars)) /\ ~(i <= 3)
      BY <1>6, <1>7
    <2>2. Patterns[i] = TwoChars[i - 3]
      BY <1>6, <2>1
    <2>3. TwoChars[i - 3] \in S(2)
      BY <1>3, <2>1, ElementOfSeq
    <2>4. Len(TwoChars[i - 3]) = 2
      BY <1>t, <2>3
    <2> QED
      BY <2>2, <2>4
  <1>10. Len(Patterns) \in Nat
    BY <1>6, <1>7
  <1>a. \A m, n : n = 3 /\ m \in {2, 3} => m <= n
    OBVIOUS
  <1>b. \A m, n : n = 2 /\ m = 2 => m <= n
    OBVIOUS
  <1>11. ASSUME NEW p \in 2..Len(Patterns), NEW q \in p..Len(Patterns)
         PROVE  Len(Patterns[q]) <= Len(Patterns[p])
    <2>1. /\ p \in 2..3 \/ p \in 4..Len(Patterns)
          /\ q \in 2..3 \/ q \in 4..Len(Patterns)
          /\ p \in 4..Len(Patterns) => q \in 4..Len(Patterns)
      BY <1>10
    <2>2. CASE p \in 2..3
      <3>1. Len(Patterns[p]) = 3
        BY <1>8, <2>2
      <3>2. Len(Patterns[q]) \in {2, 3}
        BY <1>8, <1>9, <2>1, Zenon
      <3> QED
        BY <1>a, <3>1, <3>2, Zenon
    <2>3. CASE p \in 4..Len(Patterns)
      <3>1. Len(Patterns[p]) = 2 /\ Len(Patterns[q]) = 2
        BY <1>9, <2>1, <2>3, Zenon
      <3> QED
        BY <1>b, <3>1, Zenon
    <2> QED
      BY <2>1, <2>2, <2>3
  <1> QED
    BY <1>11

(* A letter, digit or punctuator is no blank. *)
LEMMA ClassesNoBlank == (IdElems \cup PunctChars) \cap Blanks = {}
  <1>1. NewLine \notin IdElems \cup PunctChars
    BY ClassAssumption
  <1>2. " " \notin PunctChars /\ "\t" \notin PunctChars
        /\ "\r" \notin PunctChars /\ "\f" \notin PunctChars
    BY Zenon DEF PunctChars
  <1>3. " " \notin IdElems /\ "\t" \notin IdElems /\ "\r" \notin IdElems /\ "\f" \notin IdElems
    BY DEF IdElems, Letters, Digits, OctalDigits
  <1> QED
    BY <1>1, <1>2, <1>3 DEF Blanks

(* What a move eats is no blank. *)
LEMMA EatsNoBlank ==
  ASSUME NEW s \in DOMAIN Moves, NEW c \in Chars, MoveOn(s, c).eats
  PROVE  c \notin Blanks
  BY TakenTyped, ClassesNoBlank DEF MoveTyped

(* What is not found stays not found as the limit comes down. *)
LEMMA StaysUnfound ==
  ASSUME NEW p, NotFound(p), Len(Patterns[p]) \in Nat, location' = location,
         location.pos \in Nat, text' = text, Limit \in Nat, Limit' \in Nat, Limit' <= Limit
  PROVE  NotFound(p)'
  BY DEF NotFound

(* The text of the file *)
LEMMA TextFacts ==
  ASSUME TypeOK
  PROVE  text \in Seq(Chars) /\ Len(text) \in Nat
  <1>1. stream.text \in Texts
    BY DEF TypeOK, Stream
  <1> QED
    BY <1>1, TextAssumption DEF text

(* The file shows no more than its text. *)
LEMMA LimitInText ==
  ASSUME TypeOK, ScanInv, status = "ok"
  PROVE  Limit <= Len(text)
  <1>1. PositionsAgree /\ BlocksAgree /\ NotOnSentinel /\ Len(text) \in Nat
    BY TextFacts DEF ScanInv
  <1>2. CASE forward_buffer_idx = start_buffer_idx /\ is_end /\ Ahead
    BY <1>1, <1>2, LimitHere DEF BlocksAgree
  <1>3. CASE forward_buffer_idx = start_buffer_idx /\ ~(is_end /\ Ahead)
    BY <1>1, <1>3, LimitHere
  <1>4. CASE forward_buffer_idx # start_buffer_idx
    BY <1>1, <1>4, LimitAhead
  <1> QED
    BY <1>2, <1>3, <1>4

-----------------------------------------------------------------------------
(* What LongestMatch says of a token, in a text t of which the file shows  *)
(* what is before offset limit                                             *)
LongestOf(tag, word, from, to, t, limit) ==
  CASE tag = "kEOF" -> TRUE
    [] tag = "kNumber" ->
         /\ IsNumber(word)
         /\ \A b \in (to + 1)..limit : ~IsNumber(SubSeq(t, from + 1, b))
    [] tag = "kPunctuator" ->
         \A p \in 2..Len(Patterns) :
           LET b == from + Len(Patterns[p])
           IN  to < b /\ b <= limit => SubSeq(t, from + 1, b) # Patterns[p]
    [] OTHER ->
         /\ AllIn(word, IdElems)
         /\ to < limit => t[to + 1] \notin IdElems
         /\ word[1] \in Digits => AllIn(SubSeq(t, from + 1, limit), Chars \ Blanks)

(* Returning a token for which it holds *)
LEMMA DeliverLongest ==
  ASSUME NEW tag, NEW word, Deliver(tag, word), tokens \in Seq(Token),
         text' = text, Limit' = Limit,
         LongestOf(tag, word, location.pos, mark', text, Limit)
  PROVE  LongestInv'
  <1> DEFINE token == [tag |-> tag, lexeme |-> word, location |-> location,
                       to |-> start_location'.pos]
  <1>1. tokens' = Append(tokens, token) /\ at' = "idle"
    BY DEF Deliver
  <1>2. /\ token.tag = tag /\ token.lexeme = word /\ token.location = location
        /\ token.to = mark'
    BY DEF mark
  <1> HIDE DEF token
  <1>3. tokens'[Len(tokens')] = token
    BY <1>1
  <1>4. LongestOf(token.tag, token.lexeme, token.location.pos, token.to, text', Limit')
    BY <1>2
  <1>5. LongestMatch'
    BY <1>3, <1>4 DEF LongestMatch, Longest, LongestOf, Char
  <1> QED
    BY <1>1, <1>5 DEF LongestInv, NumberSought, WordSought, PatternsSought

(* Where NextToken is at none of these places, nothing is known. *)
LEMMA NothingSought ==
  ASSUME at' \notin {"number", "word", "match", "mismatch", "eat", "eat_next",
                     "single", "single_next", "idle"}
  PROVE  LongestInv'
  BY DEF LongestInv, NumberSought, WordSought, PatternsSought, LongestMatch, Longest

(* A number that is returned is the longest there is. *)
LEMMA LongestNumber ==
  ASSUME NEW w \in Seq(Chars), NEW from \in Nat, NEW t \in Seq(Chars),
         NEW limit \in Nat, limit <= Len(t), from + Len(w) < limit,
         \A j \in 1..Len(w) : w[j] = t[from + j],
         NEW s \in EndStates, EndedBy(s, w, t[from + Len(w) + 1])
  PROVE  LongestOf("kNumber", w, from, from + Len(w), t, limit)
  <1>1. IsNumber(w)
    BY EndIsNumber
  <1>2. ASSUME NEW b \in (from + Len(w) + 1)..limit
        PROVE  ~IsNumber(SubSeq(t, from + 1, b))
    <2> DEFINE l == SubSeq(t, from + 1, b)
    <2>1. Len(w) \in Nat /\ Len(t) \in Nat
      OBVIOUS
    <2>2. from + 1 \in 1..Len(t) + 1 /\ b \in 0..Len(t) /\ from + 1 <= b + 1
      BY <2>1
    <2>3. /\ l \in Seq(Chars) /\ Len(l) = b - (from + 1) + 1
          /\ \A i \in 1..(b - (from + 1) + 1) : l[i] = t[from + 1 + i - 1]
      BY <2>2, PartOf
    <2> HIDE DEF l
    <2>4. /\ Len(w) < Len(l) /\ Len(w) + 1 \in 1..(b - (from + 1) + 1)
          /\ \A i \in 1..Len(w) : i \in 1..(b - (from + 1) + 1) /\ from + 1 + i - 1 = from + i
          /\ from + 1 + (Len(w) + 1) - 1 = from + Len(w) + 1
      BY <2>1, <2>3
    <2>5. \A i \in 1..Len(w) : l[i] = w[i]
      BY <2>3, <2>4
    <2>6. l[Len(w) + 1] = t[from + Len(w) + 1]
      BY <2>3, <2>4
    <2>7. EndedBy(s, w, l[Len(w) + 1])
      BY <2>6
    <2>8. ~IsNumber(l)
      BY <2>3, <2>4, <2>5, <2>7, NoLonger
    <2> QED
      BY <2>8 DEF l
  <1> QED
    BY <1>1, <1>2 DEF LongestOf

(* GetNumber *)
LEMMA NumberLongest ==
  ASSUME TypeOK, ScanInv, TypeOK', ScanInv', LexInv, LongestInv,
         NumberMove \/ NumberFails \/ NumberEnds
  PROVE  LongestInv'
  <1>1. /\ at = "number" /\ InOrder /\ status = "ok" /\ location.pos = mark
        /\ tokens \in Seq(Token) /\ location.pos \in Nat
    BY InPlace DEF NumberMove, NumberFails, NumberEnds, InToken
  <1>2. /\ extent = Len(lexeme) /\ lexeme \in Seq(Chars) /\ Len(lexeme) \in Nat
        /\ \A j \in 1..Len(lexeme) : mark + j <= Len(text) /\ lexeme[j] = text[mark + j]
    BY <1>1 DEF LexInv, Scanning, TokensTyped, TextAt
  <1>3. /\ HasEaten(state, lexeme, Shown)
        /\ \A j \in 1..Len(lexeme) : lexeme[j] \notin Blanks
    BY <1>1 DEF LongestInv, NumberSought
  <1>4. CASE NumberMove
    <2> DEFINE c == Shown
               m == MoveOn(state, c)
    <2>1. state \in DOMAIN Moves /\ c \in Chars
      BY <1>1, <1>4, ShownFacts DEF NumberMove
    <2>2. Kept(m, lexeme, Append(lexeme, c), c)
      BY <1>2, <1>3, <2>1, MoveKeeps
    <2>3. m.eats => c \notin Blanks
      BY <2>1, EatsNoBlank
    <2>4. /\ state' = m.to /\ at' \in {"number", "failed"}
          /\ \/ m.eats /\ lexeme' = Append(lexeme, c)
             \/ /\ ~m.eats /\ lexeme' = lexeme /\ UNCHANGED fileVars
                /\ (m.to = "error" => at' = "failed")
      BY <1>4 DEF NumberMove, Goto
    <2>5. CASE at' = "failed"
      BY <2>5, NothingSought
    <2>6. CASE at' = "number" /\ m.eats /\ lexeme' = Append(lexeme, c)
      <3>1. HasEaten(state', lexeme', Shown')
        BY <2>2, <2>4, <2>6 DEF Kept
      <3>2. \A j \in 1..Len(lexeme') : lexeme'[j] \notin Blanks
        BY <1>2, <1>3, <2>1, <2>3, <2>6
      <3> QED
        BY <2>6, <3>1, <3>2
           DEF LongestInv, NumberSought, WordSought, PatternsSought,
               LongestMatch, Longest
    <2>7. CASE at' = "number" /\ ~m.eats /\ lexeme' = lexeme /\ UNCHANGED fileVars
      <3>1. Shown' = c
        BY <2>7, RestInOrder
      <3>2. m.to # "error"
        BY <2>4, <2>7
      <3>3. HasEaten(state', lexeme', Shown')
        BY <2>2, <2>4, <2>7, <3>1, <3>2 DEF Kept
      <3> QED
        BY <1>3, <2>7, <3>3
           DEF LongestInv, NumberSought, WordSought, PatternsSought,
               LongestMatch, Longest
    <2> QED
      BY <2>4, <2>5, <2>6, <2>7
  <1>5. CASE NumberFails
    <2>1. /\ at' = "word" /\ lexeme' = <<>> /\ UNCHANGED <<mark, text>> /\ Limit' \in Nat
          /\ Limit' <= Limit
      BY <1>1, <1>5, RollInOrder DEF NumberFails, InOrder
    <2>2. ASSUME mark < Limit, text[mark + 1] \in Digits, NEW p \in mark..(Limit - 1)
          PROVE  text[p + 1] \notin Blanks
      <3>1. CASE Shown = kEOF
        <4>1. pos = Limit /\ pos = mark + Len(lexeme)
          BY <1>1, <1>2, <3>1, CursorFacts DEF InOrder
        <4>2. p - mark + 1 \in 1..Len(lexeme) /\ mark + (p - mark + 1) = p + 1
          BY <1>1, <1>2, <4>1 DEF InOrder
        <4> QED
          BY <1>2, <1>3, <4>2
      <3>2. CASE Shown # kEOF /\ state = "fail"
        <4>1. Shown = text[pos + 1] /\ pos = mark + Len(lexeme)
          BY <1>1, <1>2, <3>2, CursorFacts DEF InOrder
        <4>2. lexeme = <<".">> \/ (lexeme = <<>> /\ Shown \notin Digits)
          BY <1>3, <3>2 DEF HasEaten, EndedBy
        <4>3. CASE lexeme = <<".">>
          <5>1. Len(lexeme) = 1 /\ lexeme[1] = "."
            BY <4>3
          <5>2. text[mark + 1] = "."
            BY <1>2, <5>1
          <5> QED
            BY <2>2, <5>2, CharFacts
        <4>4. CASE lexeme = <<>> /\ Shown \notin Digits
          <5>1. pos = mark
            BY <1>1, <4>1, <4>4 DEF InOrder
          <5> QED
            BY <2>2, <4>1, <4>4, <5>1
        <4> QED
          BY <4>2, <4>3, <4>4
      <3> QED
        BY <1>5, <3>1, <3>2 DEF NumberFails
    <2>3. mark \in Nat /\ Limit \in Nat
      BY <1>1 DEF InOrder
    <2>4. ASSUME mark < Limit', text[mark + 1] \in Digits, NEW p \in mark..(Limit' - 1)
          PROVE  text[p + 1] \notin Blanks
      <3> DEFINE m    == mark
                 high == Limit
                 low  == Limit'
      <3>a. m \in Nat /\ high \in Nat /\ low \in Nat /\ low <= high /\ m < low
            /\ p \in m..(low - 1)
        BY <2>1, <2>3, <2>4
      <3> HIDE DEF m, high, low
      <3>b. m < high /\ p \in m..(high - 1)
        BY <3>a
      <3>1. mark < Limit /\ p \in mark..(Limit - 1)
        BY <3>b DEF m, high
      <3> QED
        BY <2>2, <2>4, <3>1
    <2>5. AllIn(lexeme, IdElems)'
      BY <2>1 DEF AllIn
    <2>6. WordSought'
      BY <2>1, <2>4, <2>5 DEF WordSought, Char
    <2> QED
      BY <2>1, <2>6 DEF LongestInv, NumberSought, PatternsSought,
                        LongestMatch, Longest
  <1>6. CASE NumberEnds
    <2>1. /\ mark' = pos /\ UNCHANGED <<Limit, text>> /\ state \in EndStates
          /\ Shown # kEOF
      BY <1>6, NextInOrder DEF NumberEnds
    <2>2. CASE Deliver("kNumber", lexeme)
      <3>1. /\ pos < Limit /\ pos = mark + Len(lexeme) /\ Shown = text[pos + 1]
            /\ Limit \in Nat
        BY <1>1, <1>2, <2>1, CursorFacts DEF InOrder
      <3>2. text \in Seq(Chars) /\ Limit <= Len(text)
        BY <1>1, TextFacts, LimitInText
      <3>3. EndedBy(state, lexeme, text[mark + Len(lexeme) + 1])
        BY <1>3, <3>1 DEF HasEaten
      <3>4. LongestOf("kNumber", lexeme, mark, mark + Len(lexeme), text, Limit)
        BY <1>1, <1>2, <2>1, <3>1, <3>2, <3>3, LongestNumber DEF InOrder
      <3> QED
        BY <1>1, <2>1, <2>2, <3>1, <3>4, DeliverLongest
    <2>3. CASE at' = "failed"
      BY <2>3, NothingSought
    <2> QED
      BY <1>6, <2>2, <2>3 DEF NumberEnds
  <1> QED
    BY <1>4, <1>5, <1>6

(* GetIdAndWord *)
LEMMA WordLongest ==
  ASSUME TypeOK, ScanInv, TypeOK', ScanInv', LexInv, WordTags, LongestInv,
         WordScan \/ WordEnds \/ NoWord
  PROVE  LongestInv'
  <1>1. /\ at = "word" /\ InOrder /\ status = "ok" /\ location.pos = mark
        /\ tokens \in Seq(Token) /\ location.pos \in Nat
    BY InPlace DEF WordScan, WordEnds, NoWord, InToken
  <1>2. /\ extent = Len(lexeme) /\ lexeme \in Seq(Chars) /\ Len(lexeme) \in Nat
        /\ \A j \in 1..Len(lexeme) : mark + j <= Len(text) /\ lexeme[j] = text[mark + j]
    BY <1>1 DEF LexInv, Scanning, TokensTyped, TextAt
  <1>3. /\ AllIn(lexeme, IdElems)
        /\ mark < Limit /\ text[mark + 1] \in Digits =>
             \A p \in mark..(Limit - 1) : text[p + 1] \notin Blanks
    BY <1>1 DEF LongestInv, WordSought, Char
  <1>4. CASE WordScan
    <2>1. /\ at' \in {"word", "failed"} /\ lexeme' = Append(lexeme, Shown)
          /\ Shown \in IdElems /\ UNCHANGED <<mark, Limit, text>>
      BY <1>4, ScanInOrder DEF WordScan, Goto
    <2>2. CASE at' = "failed"
      BY <2>2, NothingSought
    <2>3. CASE at' = "word"
      <3>1. AllIn(lexeme, IdElems)'
        BY <1>2, <1>3, <2>1 DEF AllIn
      <3>2. WordSought'
        BY <1>3, <2>1, <3>1 DEF WordSought, Char
      <3> QED
        BY <2>3, <3>2 DEF LongestInv, NumberSought, PatternsSought,
                          LongestMatch, Longest
    <2> QED
      BY <2>1, <2>2, <2>3
  <1>5. CASE NoWord
    <2>1. at' = "match" /\ pattern' = 2
      BY <1>5 DEF NoWord, LookFor
    <2>2. 2..(pattern' - 1) = {}
      BY <2>1
    <2> QED
      BY <2>1, <2>2 DEF LongestInv, NumberSought, WordSought, PatternsSought,
                        LongestMatch, Longest
  <1>6. CASE WordEnds
    <2>1. /\ mark' = pos /\ UNCHANGED <<Limit, text>> /\ lexeme # <<>>
          /\ Shown \notin IdElems
          /\ InsertWord(lexeme) /\ Deliver(word_table'[Key(lexeme)].tag, lexeme)
      BY <1>6, NextInOrder DEF WordEnds
    <2> DEFINE tag == word_table'[Key(lexeme)].tag
    <2>2. tag \in {"kIdentifier", "kKwDef", "kKwExtern"}
      BY <2>1 DEF InsertWord, WordTags, Key
    <2>3. Deliver(tag, lexeme)
      BY <2>1
    <2> HIDE DEF tag
    <2>4. /\ Limit \in Nat /\ mark \in Nat /\ pos = mark + Len(lexeme) /\ pos <= Limit
          /\ text \in Seq(Chars) /\ Limit <= Len(text) /\ Len(text) \in Nat
          /\ Len(lexeme) >= 1
      BY <1>1, <1>2, <2>1, TextFacts, LimitInText DEF InOrder
    <2>5. pos < Limit => text[pos + 1] \notin IdElems
      BY <1>1, <2>1, <2>4, CursorFacts
    <2>6. ASSUME lexeme[1] \in Digits
          PROVE  AllIn(SubSeq(text, mark + 1, Limit), Chars \ Blanks)
      <3> DEFINE l == SubSeq(text, mark + 1, Limit)
      <3>1. mark < Limit /\ text[mark + 1] \in Digits
        BY <1>2, <2>4, <2>6
      <3>2. mark + 1 \in 1..Len(text) + 1 /\ Limit \in 0..Len(text) /\ mark + 1 <= Limit + 1
        BY <2>4, <3>1
      <3>3. /\ l \in Seq(Chars) /\ DOMAIN l = 1..(Limit - (mark + 1) + 1)
            /\ Len(l) = Limit - (mark + 1) + 1
            /\ \A i \in 1..(Limit - (mark + 1) + 1) : l[i] = text[mark + 1 + i - 1]
        BY <2>4, <3>2, PartOf
      <3> HIDE DEF l
      <3>4. ASSUME NEW i \in DOMAIN l PROVE l[i] \in Chars \ Blanks
        <4>1. /\ i \in 1..(Limit - (mark + 1) + 1) /\ mark + i - 1 \in mark..(Limit - 1)
              /\ mark + 1 + i - 1 = (mark + i - 1) + 1
          BY <2>4, <3>3
        <4>2. l[i] \notin Blanks
          BY <1>3, <3>1, <3>3, <4>1
        <4>3. l[i] \in Chars
          BY <3>3, ElementOfSeq
        <4> QED
          BY <4>2, <4>3
      <3>5. AllIn(l, Chars \ Blanks)
        BY <3>4 DEF AllIn
      <3> QED
        BY <3>5 DEF l
    <2>7. LongestOf(tag, lexeme, mark, pos, text, Limit)
      BY <1>3, <2>2, <2>5, <2>6 DEF LongestOf
    <2> QED
      BY <1>1, <2>1, <2>3, <2>7, DeliverLongest
  <1> QED
    BY <1>4, <1>5, <1>6

(* StartWith *)
LEMMA PatternLongest ==
  ASSUME TypeOK, ScanInv, TypeOK', ScanInv', LexInv, LongestInv,
         Match \/ Matched \/ Mismatched
  PROVE  LongestInv'
  <1>1. /\ at \in {"match", "mismatch"} /\ InOrder /\ status = "ok"
        /\ pattern \in 1..Len(Patterns) /\ Len(Patterns) \in Nat
        /\ location.pos \in Nat /\ (pattern > 1 => location.pos = mark)
    BY InPlace, PatternAssumption
       DEF Match, Matched, Mismatched, InToken, LexInv, TokensTyped
  <1>2. /\ \A p \in 2..(pattern - 1) : NotFound(p)
        /\ at = "mismatch" /\ pattern > 1 => NotFound(pattern)
    BY <1>1 DEF LongestInv, PatternsSought
  <1>3. \A p \in 1..Len(Patterns) : Len(Patterns[p]) \in Nat
    BY PatternFacts
  <1>4. CASE Match
    <2>1. /\ at = "match" /\ at' \in {"match", "mismatch", "failed"}
          /\ UNCHANGED <<pattern, location, tokens>>
          /\ (at' = "mismatch" => Shown # Patterns[pattern][matched + 1])
          /\ matched < Len(Patterns[pattern]) /\ (ScanChar \/ UNCHANGED fileVars)
      BY <1>4 DEF Match, Goto, Scanned, tokenVars
    <2>2. UNCHANGED <<mark, Limit, text>>
      BY <2>1, ScanInOrder, RestInOrder
    <2>3. \A p \in 2..(pattern' - 1) : NotFound(p)'
      BY <1>2, <2>1, <2>2 DEF NotFound
    <2>4. ASSUME at' = "mismatch", pattern > 1 PROVE NotFound(pattern)
      <3> DEFINE s == Patterns[pattern]
                 b == mark + Len(s)
      <3>1. extent = matched /\ matched \in Nat /\ matched < Len(s) /\ Len(s) \in Nat
        BY <1>1, <1>3, <2>1 DEF LexInv, Scanning, TokensTyped
      <3>2. ASSUME b <= Limit, SubSeq(text, mark + 1, b) = s PROVE FALSE
        <4> DEFINE l == SubSeq(text, mark + 1, b)
        <4>1. pos = mark + matched /\ pos < Limit /\ mark \in Nat /\ Limit \in Nat
          BY <1>1, <3>1, <3>2 DEF InOrder
        <4>2. Shown = text[pos + 1]
          BY <1>1, <4>1, CursorFacts
        <4>3. text \in Seq(Chars) /\ Limit <= Len(text) /\ Len(text) \in Nat
          BY <1>1, TextFacts, LimitInText
        <4>4. mark + 1 \in 1..Len(text) + 1 /\ b \in 0..Len(text) /\ mark + 1 <= b + 1
          BY <3>1, <3>2, <4>1, <4>3
        <4>5. \A i \in 1..(b - (mark + 1) + 1) : l[i] = text[mark + 1 + i - 1]
          BY <4>3, <4>4, PartOf
        <4>6. /\ matched + 1 \in 1..(b - (mark + 1) + 1)
              /\ mark + 1 + (matched + 1) - 1 = pos + 1
          BY <3>1, <4>1
        <4> HIDE DEF l
        <4>7. l[matched + 1] = Shown
          BY <4>2, <4>5, <4>6
        <4>8. l = s
          BY <3>2 DEF l
        <4> QED
          BY <2>1, <2>4, <4>7, <4>8
      <3> QED
        BY <1>1, <2>4, <3>2 DEF NotFound
    <2>5. at' = "mismatch" /\ pattern' > 1 => NotFound(pattern)'
      BY <2>1, <2>2, <2>4 DEF NotFound
    <2> QED
      BY <2>1, <2>3, <2>5
         DEF LongestInv, NumberSought, WordSought, PatternsSought,
             LongestMatch, Longest
  <1>5. CASE Matched \/ Mismatched
    <2>1. UNCHANGED <<mark, text>> /\ Limit' \in Nat /\ Limit' <= Limit /\ Limit \in Nat
      BY <1>1, <1>5, RollInOrder DEF Matched, Mismatched, InOrder
    <2>2. ASSUME NEW p \in 1..Len(Patterns), NotFound(p), location' = location
          PROVE  NotFound(p)'
      BY <1>1, <1>3, <2>1, <2>2, StaysUnfound
    <2>3. CASE Matched
      <3>1. /\ at' = IF pattern = 1 THEN "comment" ELSE "eat"
            /\ UNCHANGED <<pattern, location>>
        BY <2>3 DEF Matched, tokenVars
      <3>2. \A p \in 2..(pattern - 1) : NotFound(p)'
        BY <1>1, <1>2, <2>2, <3>1
      <3> QED
        BY <1>1, <3>1, <3>2
           DEF LongestInv, NumberSought, WordSought, PatternsSought,
               LongestMatch, Longest
    <2>4. CASE Mismatched /\ pattern = 1
      <3>1. at' = "number" /\ state' = "kStart" /\ lexeme' = <<>>
        BY <2>4 DEF Mismatched
      <3>2. HasEaten(state', lexeme', Shown') /\ Len(lexeme') = 0
        BY <3>1 DEF HasEaten, EatenBy, EndedBy
      <3> QED
        BY <3>1, <3>2
           DEF LongestInv, NumberSought, WordSought, PatternsSought,
               LongestMatch, Longest
    <2>5. CASE Mismatched /\ pattern > 1
      <3>1. /\ location' = location /\ at = "mismatch"
            /\ \/ pattern < Len(Patterns) /\ at' = "match" /\ pattern' = pattern + 1
               \/ pattern >= Len(Patterns) /\ at' = "single"
        BY <1>1, <2>5 DEF Mismatched, LookFor
      <3>2. ASSUME NEW p \in 2..pattern PROVE NotFound(p)'
        <4>1. NotFound(p) /\ p \in 1..Len(Patterns)
          BY <1>1, <1>2, <2>5, <3>1
        <4> QED
          BY <2>2, <3>1, <4>1
      <3>3. at' = "match" => 2..(pattern' - 1) \subseteq 2..pattern
        BY <1>1, <3>1
      <3>4. at' = "single" => 2..Len(Patterns) \subseteq 2..pattern
        BY <1>1, <3>1
      <3> QED
        BY <3>1, <3>2, <3>3, <3>4
           DEF LongestInv, NumberSought, WordSought, PatternsSought,
               LongestMatch, Longest
    <2> QED
      BY <1>1, <1>5, <2>3, <2>4, <2>5
  <1> QED
    BY <1>4, <1>5

(* GetPunctuator *)
LEMMA PunctLongest ==
  ASSUME TypeOK, ScanInv, TypeOK', ScanInv', LexInv, TellInv, LongestInv,
         EatPunct \/ EatPunctNext \/ Single \/ SingleNext \/ NothingElse
  PROVE  LongestInv'
  <1>1. /\ at \in {"eat", "eat_next", "single", "single_next"} /\ InOrder
        /\ status = "ok" /\ pattern \in 1..Len(Patterns) /\ Len(Patterns) \in Nat
        /\ location.pos \in Nat /\ tokens \in Seq(Token)
    BY InPlace, PatternAssumption
       DEF EatPunct, EatPunctNext, Single, SingleNext, NothingElse, LexInv, TokensTyped
  <1>2. \A p \in 1..Len(Patterns) : Len(Patterns[p]) \in Nat
    BY PatternFacts
  <1>3. CASE EatPunct \/ (EatPunctNext /\ at' = "eat")
    <2>1. /\ at \in {"eat", "eat_next"} /\ at' \in {"eat", "eat_next", "failed"}
          /\ UNCHANGED <<pattern, location>>
          /\ ScanChar \/ UNCHANGED fileVars \/ NextLexeme
      BY <1>3 DEF EatPunct, EatPunctNext, Deliver, Scanned, Goto, tokenVars
    <2>2. UNCHANGED <<Limit, text>>
      BY <2>1, ScanInOrder, RestInOrder, NextInOrder
    <2>3. (\A p \in 2..(pattern' - 1) : NotFound(p)') /\ pattern' > 1
      BY <2>1, <2>2 DEF LongestInv, PatternsSought, NotFound
    <2> QED
      BY <2>1, <2>3
         DEF LongestInv, NumberSought, WordSought, PatternsSought,
             LongestMatch, Longest
  <1>4. CASE EatPunctNext /\ at' # "eat"
    <2> DEFINE n    == Len(Patterns[pattern])
               from == location.pos
    <2>1. /\ at = "eat_next" /\ matched = 1 /\ Deliver("kPunctuator", Patterns[pattern])
          /\ mark' = pos /\ UNCHANGED <<Limit, text>> /\ n \in Nat
      BY <1>1, <1>2, <1>4, NextInOrder DEF EatPunctNext
    <2>2. pos = Cut(from + n)
      <3>1. Eaten + 1 = n /\ Eaten \in Int
        BY <2>1 DEF Eaten
      <3>2. pos = Cut(from + Eaten + 1)
        BY <2>1 DEF TellInv, Eating
      <3> DEFINE e == Eaten
      <3>a. from \in Nat /\ e + 1 = n /\ e \in Int /\ n \in Nat
        BY <1>1, <2>1, <3>1
      <3> HIDE DEF e, from, n
      <3>b. from + e + 1 = from + n
        BY <3>a
      <3>3. from + Eaten + 1 = from + n
        BY <3>b DEF e
      <3> QED
        BY <3>2, <3>3
    <2>3. pattern > 1 /\ \A p \in 2..(pattern - 1) : NotFound(p)
      BY <2>1 DEF LongestInv, PatternsSought
    <2> HIDE DEF from
    <2>4. from \in Nat /\ Limit \in Nat
      BY <1>1 DEF InOrder, from
    <2>5. ASSUME NEW p \in 2..Len(Patterns), pos < from + Len(Patterns[p]),
                 from + Len(Patterns[p]) <= Limit
          PROVE  SubSeq(text, from + 1, from + Len(Patterns[p])) # Patterns[p]
      <3>1. Len(Patterns[p]) \in Nat
        BY <1>1, <1>2
      <3>2. pos = from + n /\ n < Len(Patterns[p])
        BY <2>1, <2>2, <2>4, <2>5, <3>1 DEF Cut
      <3>3. p < pattern
        <4>1. p >= pattern => pattern \in 2..Len(Patterns) /\ p \in pattern..Len(Patterns)
          BY <1>1, <2>3
        <4>2. p >= pattern => Len(Patterns[p]) <= n
          BY <4>1, PatternOrder
        <4> QED
          BY <1>1, <2>1, <3>1, <3>2, <4>2
      <3>4. p \in 2..(pattern - 1)
        BY <1>1, <3>3
      <3> QED
        BY <2>3, <2>5, <3>4 DEF NotFound, from
    <2>6. LongestOf("kPunctuator", Patterns[pattern], from, pos, text, Limit)
      BY <2>5 DEF LongestOf
    <2> QED
      BY <1>1, <2>1, <2>6, DeliverLongest DEF from
  <1>5. CASE Single
    <2>1. /\ at = "single" /\ at' \in {"single_next", "failed"} /\ location' = location
          /\ UNCHANGED <<Limit, text>>
      BY <1>5, ScanInOrder DEF Single, Goto, tokenVars
    <2>2. \A p \in 2..Len(Patterns) : NotFound(p)'
      BY <2>1 DEF LongestInv, PatternsSought, NotFound
    <2> QED
      BY <2>1, <2>2
         DEF LongestInv, NumberSought, WordSought, PatternsSought,
             LongestMatch, Longest
  <1>6. CASE SingleNext
    <2>1. /\ at = "single_next" /\ Deliver("kPunctuator", <<peek_char>>)
          /\ UNCHANGED <<Limit, text>>
      BY <1>6, NextInOrder DEF SingleNext
    <2>2. \A p \in 2..Len(Patterns) : NotFound(p)
      BY <2>1 DEF LongestInv, PatternsSought
    <2>3. LongestOf("kPunctuator", <<peek_char>>, location.pos, mark', text, Limit)
      BY <2>2 DEF LongestOf, NotFound
    <2> QED
      BY <1>1, <2>1, <2>3, DeliverLongest
  <1>7. CASE NothingElse
    <2>1. UNCHANGED <<Limit, text>> /\ (Deliver("kEOF", <<>>) \/ at' = "failed")
      BY <1>7, RestInOrder DEF NothingElse, Fail
    <2>2. LongestOf("kEOF", <<>>, location.pos, mark', text, Limit)
      BY DEF LongestOf
    <2> QED
      BY <1>1, <2>1, <2>2, DeliverLongest, NothingSought
  <1> QED
    BY <1>3, <1>4, <1>5, <1>6, <1>7

(* Every step of NextToken keeps LongestInv. *)
LEMMA LongestStep ==
  ASSUME TypeOK, ScanInv, TypeOK', ScanInv', LexInv, EndInv, TellInv, LongestInv,
         [LexNext]_allVars
  PROVE  LongestInv'
  <1>1. CASE UNCHANGED allVars
    <2>1. /\ UNCHANGED <<mark, Limit, text, Shown>>
          /\ UNCHANGED <<at, state, lexeme, pattern, location, tokens>>
      BY <1>1, RestInOrder DEF allVars, lexVars, tokenVars
    <2>2. NumberSought' /\ WordSought'
      BY <2>1 DEF LongestInv, NumberSought, WordSought, Char
    <2>3. PatternsSought'
      BY <2>1 DEF LongestInv, PatternsSought, NotFound
    <2>4. LongestMatch'
      BY <2>1 DEF LongestInv, LongestMatch, Longest, Char
    <2> QED
      BY <2>2, <2>3, <2>4 DEF LongestInv
  <1>2. CASE Call \/ SkipBlank \/ SkipBlankNext \/ SkipComment \/ SkipCommentNext
    <2>1. /\ at' \in {"blank", "blank_next", "comment", "comment_next", "match", "failed"}
          /\ (at' = "match" => pattern' = 1)
      BY <1>2 DEF Call, SkipBlank, SkipBlankNext, SkipComment, SkipCommentNext, LookFor,
                  Goto
    <2>2. at' = "match" => 2..(pattern' - 1) = {}
      BY <2>1
    <2> QED
      BY <2>1, <2>2 DEF LongestInv, NumberSought, WordSought, PatternsSought,
                        LongestMatch, Longest
  <1> QED
    BY <1>1, <1>2, PatternLongest, NumberLongest, WordLongest, PunctLongest
       DEF LexNext, NextTokenStep, EndInv

(* Before the first call nothing is known. *)
LEMMA FreshLongest == ASSUME Fresh PROVE LongestInv
  BY DEF Fresh, LongestInv, NumberSought, WordSought, PatternsSought,
         LongestMatch, Longest

(* For every text, buffer size and set of conversions that overflow: a     *)
(* number is one by its grammar, and no longer piece of what the file      *)
(* shows is; no longer punctuator is there than the one returned; and a    *)
(* word goes on to its last letter or digit.                               *)
THEOREM LongestAlways == LexSpec => []LongestMatch
  <1>1. LexInit => TellInv /\ LongestInv
    BY FreshInit, FreshTell, FreshLongest
  <1>2. LongestInv => LongestMatch
    BY DEF LongestInv
  <1>3. LexSpec => []TellInv
    BY <1>1, PassTyped, LexerScans, ScanInvariant, LexInvariant, TellStep, PTL DEF LexSpec
  <1> QED
    BY <1>1, <1>2, <1>3, PassTyped, LexerScans, ScanInvariant, LexInvariant, EndIsFinal,
       LongestStep, PTL DEF LexSpec
=============================================================================
