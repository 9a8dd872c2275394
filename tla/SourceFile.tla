----------------------------- MODULE SourceFile -----------------------------
(***************************************************************************)
(* The lexer's view of a source file: src/src/lexer/file.h and file.cc.    *)
(*                                                                         *)
(* The text is read in blocks of kBufferSize - 1 characters into a pair of *)
(* buffers, each closed by a sentinel kEOF.  forward is the character being *)
(* looked at, begin the first character of the current lexeme; the two may *)
(* be in different buffers.  Each buffer carries a stamp modulo 3: a buffer *)
(* whose stamp follows that of the start buffer already holds the next     *)
(* block and is not read again.                                            *)
(*                                                                         *)
(* A buffer cell holds the OFFSET in the open file of the character it was *)
(* filled with, kEOF for '\0', or Junk for anything else (memory never     *)
(* written, a character of a file that was closed).  A cell is thus not    *)
(* only some character but the right or the wrong one.  A '\0' inside a    *)
(* text is outside the model.                                              *)
(***************************************************************************)
EXTENDS Integers, Sequences, FiniteSets

CONSTANTS
  kBufferSize,  \* 4096 in the code
  Chars,        \* the characters a text is made of
  NewLine,      \* '\n'
  Texts,        \* the texts of the files that may be opened
  Memories,     \* what the two buffers may hold before the constructor
  kEOF,         \* '\0'
  Junk          \* any character that is not one of the open file

ASSUME BufferAssumption == kBufferSize \in Nat /\ kBufferSize >= 2
ASSUME TextAssumption   == Texts \subseteq Seq(Chars)
ASSUME CellAssumption   == kEOF \notin Nat /\ Junk \notin Nat /\ kEOF # Junk
ASSUME MemoryAssumption ==
  Memories \subseteq [0..1 -> [0..(kBufferSize - 1) -> {kEOF, Junk}]]

VARIABLES
  stream,              \* std::ifstream: the text it is open on, its position,
                       \* eofbit and failbit
  input_buffer,        \* the buffer pair
  forward, begin, extent,
  forward_buffer_idx, start_buffer_idx,
  forward_location, start_location,
  buff_timestamp,
  is_end,
  status               \* "ok"; "threw" after a failed CHECK, which ends the
                       \* program; "undefined" after a read past a buffer

cursor == <<forward, begin, extent, forward_buffer_idx, start_buffer_idx,
            forward_location, start_location>>
blocks == <<stream, input_buffer, buff_timestamp, is_end>>
vars   == <<cursor, blocks, status>>

Cells == Nat \cup {kEOF, Junk}
Last  == kBufferSize - 1     \* index of the sentinel, characters in a block
text  == stream.text

-----------------------------------------------------------------------------
(* std::ifstream, as LoadBuffer, Reset and CloseAndOpenOther use it *)

Opened(t) == [text |-> t, pos |-> 0, eof |-> FALSE, fail |-> FALSE]

Good(s) == ~s.eof /\ ~s.fail

(* gcount() after read(_, kBufferSize - 1) *)
Count(s) ==
  IF ~Good(s) THEN 0
  ELSE IF Len(s.text) - s.pos < Last THEN Len(s.text) - s.pos ELSE Last

(* read(_, kBufferSize - 1): a short read sets eofbit and failbit, a stream *)
(* that is not good() reads nothing.                                        *)
Read(s) ==
  IF ~Good(s) THEN [s EXCEPT !.fail = TRUE]
  ELSE IF Count(s) < Last
       THEN [text |-> s.text, pos |-> s.pos + Count(s), eof |-> TRUE, fail |-> TRUE]
       ELSE [s EXCEPT !.pos = @ + Last]

(* seekg(0) clears eofbit, but moves nothing while failbit is set. *)
SeekToStart(s) ==
  IF s.fail THEN [s EXCEPT !.eof = FALSE] ELSE [s EXCEPT !.eof = FALSE, !.pos = 0]

-----------------------------------------------------------------------------
(* Seeded faults: stamps that do not wrap, stamps that alternate. *)
NextStampUnwrapped(stamp) == stamp + 1
NextStampModTwo(stamp) == (stamp + 1) % 2

NextStamp(stamp) == (stamp + 1) % 3
IsNextStamp(next, origin) == NextStamp(origin) = next

Peek    == input_buffer[forward_buffer_idx][forward]
HasNext == ~is_end

Begin == [line |-> 0, col |-> 0, pos |-> 0]

IsNewLine(cell) == cell \in 0..(Len(text) - 1) /\ text[cell + 1] = NewLine

(* AdvanceLine over '\n', AdvanceCol over any other character *)
AdvanceLocation(loc, cell) ==
  IF IsNewLine(cell)
  THEN [line |-> loc.line + 1, col |-> 0, pos |-> loc.pos + 1]
  ELSE [line |-> loc.line, col |-> loc.col + 1, pos |-> loc.pos + 1]

(* Seeded fault: no kEOF behind a short last block. *)
FilledWithoutEnd(b, s) ==
  [i \in 0..Last |->
     IF i < Count(s) THEN s.pos + i ELSE IF i = Last THEN kEOF ELSE b[i]]

(* A buffer that held b after a read from s: the characters read, the      *)
(* sentinel, and kEOF behind the last character of the file.               *)
Filled(b, s) ==
  [i \in 0..Last |->
     IF i < Count(s) THEN s.pos + i
     ELSE IF i = Last \/ (Read(s).eof /\ i = Count(s)) THEN kEOF
     ELSE b[i]]

(* Seeded fault: a block that was read is read again. *)
LoadBufferAlways(f, o, bufs, s) ==
  /\ stream' = Read(s)
  /\ input_buffer' = [bufs EXCEPT ![f] = Filled(bufs[f], s)]
  /\ is_end' = Read(s).eof
  /\ buff_timestamp' =
       [buff_timestamp EXCEPT ![f] = NextStamp(buff_timestamp[o])]

(* Read the next block of stream s into buffer f of bufs, unless the stamps *)
(* say that it already holds the block behind that of buffer o.            *)
LoadBuffer(f, o, bufs, s) ==
  IF IsNextStamp(buff_timestamp[f], buff_timestamp[o])
  THEN /\ stream' = s
       /\ input_buffer' = bufs
       /\ UNCHANGED <<buff_timestamp, is_end>>
  ELSE /\ stream' = Read(s)
       /\ input_buffer' = [bufs EXCEPT ![f] = Filled(bufs[f], s)]
       /\ is_end' = Read(s).eof
       /\ buff_timestamp' =
            [buff_timestamp EXCEPT ![f] = NextStamp(buff_timestamp[o])]

(* The constructor, on a file that could be opened. *)
Init ==
  \E t \in Texts, m \in Memories :
    LET s == Opened(t) IN
    /\ stream = Read(s)
    /\ input_buffer = [m EXCEPT ![0] = Filled(m[0], s)]
    /\ is_end = Read(s).eof
    /\ buff_timestamp = [i \in 0..1 |-> IF i = 0 THEN 1 ELSE 0]
    /\ forward = 0 /\ begin = 0 /\ extent = 0
    /\ forward_buffer_idx = 0 /\ start_buffer_idx = 0
    /\ forward_location = Begin /\ start_location = Begin
    /\ status = "ok"

-----------------------------------------------------------------------------
(* The character behind forward has been reached: stay on it, cross into   *)
(* the other buffer at the sentinel, or find that there is no cell there.  *)
StepForward ==
  LET next == forward + 1
      other == 1 - forward_buffer_idx
  IN  \/ /\ next > Last
         /\ forward' = next
         /\ status' = "undefined"
         /\ UNCHANGED <<forward_buffer_idx, blocks>>
      \/ /\ next = Last
         /\ input_buffer[forward_buffer_idx][next] = kEOF
         /\ HasNext
         /\ forward' = 0
         /\ forward_buffer_idx' = other
         /\ LoadBuffer(other, start_buffer_idx, input_buffer, stream)
         /\ UNCHANGED status
      \/ /\ next <= Last
         /\ ~(/\ next = Last
              /\ input_buffer[forward_buffer_idx][next] = kEOF
              /\ HasNext)
         /\ forward' = next
         /\ UNCHANGED <<forward_buffer_idx, blocks, status>>

(* Seeded fault: the length of a lexeme is checked one character late. *)
ScanCharLateCheck ==
  /\ status = "ok"
  /\ Peek # kEOF
  /\ forward_location' = AdvanceLocation(forward_location, Peek)
  /\ extent' = extent + 1
  /\ \/ /\ extent + 1 <= kBufferSize
        /\ StepForward
     \/ /\ extent + 1 > kBufferSize
        /\ forward' = forward + 1
        /\ status' = "threw"
        /\ UNCHANGED <<forward_buffer_idx, blocks>>
  /\ UNCHANGED <<begin, start_buffer_idx, start_location>>

(* ScanChar returns Peek; NextValidPos then steps over it.  At kEOF it     *)
(* returns without a change.                                               *)
ScanChar ==
  /\ status = "ok"
  /\ Peek # kEOF
  /\ forward_location' = AdvanceLocation(forward_location, Peek)
  /\ extent' = extent + 1
  /\ \/ /\ extent + 1 < kBufferSize
        /\ StepForward
     \/ /\ extent + 1 >= kBufferSize    \* CHECK_LT: "Lexeme too long!"
        /\ forward' = forward + 1
        /\ status' = "threw"
        /\ UNCHANGED <<forward_buffer_idx, blocks>>
  /\ UNCHANGED <<begin, start_buffer_idx, start_location>>

(* Seeded fault: a new lexeme does not start in the buffer of forward. *)
NextLexemeSameBuffer ==
  /\ status = "ok"
  /\ begin' = forward
  /\ extent' = 0
  /\ start_location' = forward_location
  /\ UNCHANGED <<forward, forward_buffer_idx, start_buffer_idx,
                 forward_location, blocks, status>>

(* The current lexeme is done, the next one starts at forward. *)
NextLexeme ==
  /\ status = "ok"
  /\ begin' = forward
  /\ extent' = 0
  /\ start_buffer_idx' = forward_buffer_idx
  /\ start_location' = forward_location
  /\ UNCHANGED <<forward, forward_buffer_idx, forward_location, blocks, status>>

(* Seeded fault: the location is not rolled back. *)
ResetForwardKeepLocation ==
  /\ status = "ok"
  /\ forward' = begin
  /\ extent' = 0
  /\ forward_buffer_idx' = start_buffer_idx
  /\ UNCHANGED <<begin, start_buffer_idx, forward_location, start_location,
                 blocks, status>>

(* Go back to the first character of the current lexeme. *)
ResetForward ==
  /\ status = "ok"
  /\ forward' = begin
  /\ extent' = 0
  /\ forward_buffer_idx' = start_buffer_idx
  /\ forward_location' = start_location
  /\ UNCHANGED <<begin, start_buffer_idx, start_location, blocks, status>>

(* Reset of a file whose stream is s and whose buffers hold bufs.  Buffer 0 *)
(* is its own start buffer, so its load is never skipped and is_end is     *)
(* assigned there.                                                         *)
Rewind(bufs, s) ==
  /\ forward' = 0 /\ begin' = 0 /\ extent' = 0
  /\ forward_buffer_idx' = 0 /\ start_buffer_idx' = 0
  /\ forward_location' = Begin /\ start_location' = Begin
  /\ LoadBuffer(0, 0, bufs, SeekToStart(s))
  /\ UNCHANGED status

Reset ==
  /\ status = "ok"
  /\ Rewind(input_buffer, stream)

(* What the buffers hold once their file is closed: of no other file. *)
Stale(bufs) ==
  [i \in 0..1 |-> [j \in 0..Last |-> IF bufs[i][j] = kEOF THEN kEOF ELSE Junk]]

CloseAndOpenOther ==
  /\ status = "ok"
  /\ \/ \E t \in Texts : Rewind(Stale(input_buffer), Opened(t))
     \/ /\ status' = "threw"            \* CHECK: "Cannot open file"
        /\ stream' = [stream EXCEPT !.fail = TRUE]
        /\ UNCHANGED <<cursor, input_buffer, buff_timestamp, is_end>>

(* The move constructor, operator= and swap.  The model is of the object   *)
(* that goes on: every field is handed over to it, the stamps by copy_n,   *)
(* the buffers by swap.  What the other one is left with is nobody's file. *)
Move ==
  /\ status = "ok"
  /\ UNCHANGED vars

-----------------------------------------------------------------------------
(* One pass over a file, as the lexer makes it *)
Scan == ScanChar \/ NextLexeme \/ ResetForward

ScanSpec == Init /\ [][Scan]_vars

(* Passes over one file, each but the first after a Reset *)
RescanSpec == Init /\ [][Scan \/ Reset]_vars

(* Every operation, in any order *)
Next == Scan \/ Reset \/ CloseAndOpenOther \/ Move

Spec == Init /\ [][Next]_vars

-----------------------------------------------------------------------------
Location == [line : Nat, col : Nat, pos : Nat]
Buffer   == [0..Last -> Cells]
Stream   == [text : Texts, pos : Nat, eof : BOOLEAN, fail : BOOLEAN]

(* Types.  forward is inside a buffer whenever it may be read through.     *)
TypeOK ==
  /\ stream \in Stream
  /\ stream.pos <= Len(text)
  /\ input_buffer \in [0..1 -> Buffer]
  /\ forward \in 0..kBufferSize
  /\ begin \in 0..Last
  /\ extent \in 0..kBufferSize
  /\ forward_buffer_idx \in 0..1
  /\ start_buffer_idx \in 0..1
  /\ forward_location \in Location
  /\ start_location \in Location
  /\ buff_timestamp \in [0..1 -> 0..2]
  /\ is_end \in BOOLEAN
  /\ status \in {"ok", "threw", "undefined"}
  /\ status = "ok" => forward \in 0..Last

(***************************************************************************)
(* The inductive invariant of ScanSpec.                                    *)
(***************************************************************************)
pos       == forward_location.pos
mark      == start_location.pos
StartBase == mark - begin             \* offset of the start buffer's block
Ahead     == IsNextStamp(buff_timestamp[1 - start_buffer_idx],
                         buff_timestamp[start_buffer_idx])

(* Buffer i holds the block of the file at offset base, with its kEOF. *)
Holds(i, base) ==
  \A j \in 0..Last :
    base + j <= Len(text) =>
      input_buffer[i][j] =
        IF j = Last \/ base + j = Len(text) THEN kEOF ELSE base + j

(* The two positions: pos is extent characters behind mark, and forward    *)
(* is in the start buffer or in the block behind it.                       *)
PositionsAgree ==
  /\ pos = mark + extent
  /\ pos <= Len(text)
  /\ StartBase >= 0
  /\ IF forward_buffer_idx = start_buffer_idx
     THEN forward = begin + extent
     ELSE forward + Last = begin + extent

(* The block of the lexeme start is in its buffer.  The other buffer holds *)
(* the block behind it exactly when its stamp says so, and the stream is   *)
(* at the end of the last block that was read.                             *)
BlocksAgree ==
  /\ Holds(start_buffer_idx, StartBase)
  /\ (stream.eof <=> is_end) /\ (stream.fail <=> is_end)
  /\ IF Ahead
     THEN /\ StartBase + Last <= Len(text)
          /\ Holds(1 - start_buffer_idx, StartBase + Last)
          /\ is_end <=> Len(text) < StartBase + 2 * Last
          /\ ~is_end => stream.pos = StartBase + 2 * Last
     ELSE /\ is_end <=> Len(text) < StartBase + Last
          /\ ~is_end => stream.pos = StartBase + Last

(* While the file goes on, no position rests on a sentinel. *)
NotOnSentinel ==
  /\ begin = Last => is_end
  /\ forward = Last => is_end
  /\ forward_buffer_idx # start_buffer_idx => Ahead /\ begin < Last

(* As long as no CHECK has failed, positions, blocks, stamps and stream    *)
(* agree: NextValidPos and LoadBuffer keep them so through every roll-back.*)
ScanInv ==
  status # "threw" =>
    /\ status = "ok"
    /\ extent < kBufferSize
    /\ PositionsAgree
    /\ BlocksAgree
    /\ NotOnSentinel

(***************************************************************************)
(* Safety of one pass.                                                     *)
(***************************************************************************)
(* The block behind the one of forward has been read already. *)
ReadAhead ==
  IsNextStamp(buff_timestamp[1 - forward_buffer_idx],
              buff_timestamp[forward_buffer_idx])

(* Where the text ends for the lexer: at the sentinel of the block of      *)
(* forward when the last block was read and forward went back behind it    *)
(* (HasNext() is then FALSE in NextValidPos), at the end of the file       *)
(* otherwise.                                                              *)
Limit ==
  IF is_end /\ ReadAhead THEN pos - forward + Last ELSE Len(text)

(* ScanChar never returns a wrong character: up to Limit it is the one at  *)
(* forward_location, whatever was looked at and rolled back before and     *)
(* however the two buffers were recycled; from Limit on it is kEOF.        *)
PeekIsNextChar ==
  status = "ok" => Peek = IF pos < Limit THEN pos ELSE kEOF

(* Line and column of the character at offset p of the text *)
LocationOf(p) ==
  LET breaks == {i \in DOMAIN text : i <= p /\ text[i] = NewLine}
      line0  == IF breaks = {} THEN 0
                ELSE CHOOSE i \in breaks : \A k \in breaks : k <= i
  IN  [line |-> Cardinality(breaks), col |-> p - line0, pos |-> p]

(* A location is a function of its offset: rolling forward_location back   *)
(* and advancing it again over line ends and block ends arrives at the     *)
(* same line and column.                                                   *)
LocationExact ==
  status = "ok" =>
    /\ forward_location = LocationOf(pos)
    /\ start_location = LocationOf(mark)

(* One pass implements the cursor.  shown is the cell under forward. *)
AbstractCursor ==
  INSTANCE Cursor WITH
    MaxLexeme <- kBufferSize,
    limit  <- Limit,
    usable <- status = "ok",
    shown  <- IF status = "ok" THEN Peek ELSE kEOF

(* Every ScanChar, NextLexeme and ResetForward is a step of the cursor.   *)
ImplementsCursor == AbstractCursor!Spec

(***************************************************************************)
(* Safety under every operation.                                           *)
(***************************************************************************)
(* A file that fits in one buffer is delivered exactly and to its end,     *)
(* whatever file was open before and however often it is Reset: its        *)
(* seekg fails after the first pass, but the buffer still holds the text.  *)
SmallFileFaithful ==
  status = "ok" /\ Len(text) < Last =>
    Peek = IF pos < Len(text) THEN pos ELSE kEOF

(* Why: such a text never leaves buffer 0, and no read can replace it.     *)
SmallFileInBuffer ==
  status = "ok" /\ Len(text) < Last =>
    /\ stream.fail
    /\ forward_buffer_idx = 0 /\ start_buffer_idx = 0
    /\ forward = pos /\ begin = mark
    /\ pos <= Len(text) /\ mark <= Len(text)
    /\ Holds(0, 0)

(* Rollback is exact under every operation: the start of the lexeme is at  *)
(* most one buffer behind forward, and extent characters.                  *)
RollbackInReach ==
  status = "ok" =>
    /\ pos = mark + extent
    /\ extent < kBufferSize
    /\ IF forward_buffer_idx = start_buffer_idx
       THEN forward = begin + extent
       ELSE forward + Last = begin + extent /\ begin < Last

(***************************************************************************)
(* What the repository says of the reader, and the code does not do.       *)
(***************************************************************************)
(* file.h:51 "move forward_ to the next valid buffer position": forward    *)
(* finds no character only where the file has none.                        *)
EndOnlyAtFileEnd ==
  status = "ok" /\ Peek = kEOF => pos >= Len(text)

(* file.h:107 "Get char pointed by forward_": a character of this file.    *)
NoForeignChar == status = "ok" => Peek # Junk
=============================================================================
