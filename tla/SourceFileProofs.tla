-------------------------- MODULE SourceFileProofs --------------------------
(***************************************************************************)
(* Proofs about SourceFile, for every buffer size, text and content of the *)
(* memory the buffers start with.                                          *)
(***************************************************************************)
EXTENDS SourceFile, FiniteSetTheorems, TLAPS

(* Last is a positive number of characters. *)
LEMMA LastPositive == Last \in Nat /\ Last >= 1 /\ kBufferSize = Last + 1
  BY BufferAssumption DEF Last

(* The marks are cells and no offsets. *)
LEMMA CellFacts == /\ kEOF \in Cells /\ Junk \in Cells
                   /\ kEOF \notin Nat /\ Junk \notin Nat /\ kEOF # Junk
                   /\ Nat \subseteq Cells
  BY CellAssumption DEF Cells

(* Texts have a length. *)
LEMMA TextLength == ASSUME NEW t \in Texts PROVE Len(t) \in Nat
  BY TextAssumption

(* What a read delivers: at most a block, less than one exactly when it    *)
(* runs into the end of the file.                                          *)
LEMMA ReadFacts ==
  ASSUME NEW s \in Stream, s.pos <= Len(s.text)
  PROVE  /\ Count(s) \in 0..Last
         /\ Read(s) \in Stream
         /\ Read(s).text = s.text
         /\ Read(s).pos <= Len(s.text)
         /\ s.pos + Count(s) <= Len(s.text)
         /\ Good(s) => /\ Read(s).eof <=> Len(s.text) < s.pos + Last
                       /\ Read(s).fail <=> Read(s).eof
                       /\ Read(s).pos = s.pos + Count(s)
                       /\ Count(s) = IF Len(s.text) < s.pos + Last
                                     THEN Len(s.text) - s.pos ELSE Last
         /\ ~Good(s) => /\ Count(s) = 0
                        /\ Read(s) = [s EXCEPT !.fail = TRUE]
  <1>1. Len(s.text) \in Nat /\ s.pos \in Nat
    BY TextLength DEF Stream
  <1>2. CASE Good(s)
    <2>1. CASE Len(s.text) < s.pos + Last
      <3>1. Count(s) = Len(s.text) - s.pos /\ Count(s) < Last
        BY <1>1, <1>2, <2>1, LastPositive DEF Count
      <3>2. Read(s) = [text |-> s.text, pos |-> s.pos + Count(s),
                       eof |-> TRUE, fail |-> TRUE]
        BY <1>2, <3>1 DEF Read
      <3>3. QED
        BY <1>1, <1>2, <2>1, <3>1, <3>2, LastPositive DEF Stream
    <2>2. CASE ~(Len(s.text) < s.pos + Last)
      <3>1. Count(s) = Last
        BY <1>1, <1>2, <2>2, LastPositive DEF Count
      <3>2. Read(s) = [s EXCEPT !.pos = @ + Last]
        BY <1>2, <3>1, LastPositive DEF Read
      <3>3. ~s.eof /\ ~s.fail
        BY <1>2 DEF Good
      <3>4. QED
        BY <1>1, <1>2, <2>2, <3>1, <3>2, <3>3, LastPositive DEF Stream
    <2>3. QED
      BY <2>1, <2>2
  <1>3. CASE ~Good(s)
    <2>1. Count(s) = 0
      BY <1>3 DEF Count
    <2>2. Read(s) = [s EXCEPT !.fail = TRUE]
      BY <1>3 DEF Read
    <2>3. [s EXCEPT !.fail = TRUE] \in Stream
      BY DEF Stream
    <2>4. QED
      BY <1>1, <1>3, <2>1, <2>2, <2>3, LastPositive DEF Stream
  <1>4. QED
    BY <1>2, <1>3

(* A filled buffer is a buffer, closed by a sentinel. *)
LEMMA FilledFacts ==
  ASSUME NEW s \in Stream, s.pos <= Len(s.text), NEW b \in Buffer
  PROVE  /\ Filled(b, s) \in Buffer
         /\ Filled(b, s)[Last] = kEOF
         /\ \A j \in 0..Last :
              Filled(b, s)[j] =
                IF j < Count(s) THEN s.pos + j
                ELSE IF j = Last \/ (Read(s).eof /\ j = Count(s)) THEN kEOF
                ELSE b[j]
  <1>1. Count(s) \in 0..Last /\ s.pos \in Nat
    BY ReadFacts DEF Stream
  <1>2. \A j \in 0..Last : b[j] \in Cells
    BY DEF Buffer
  <1>3. \A j \in 0..Last : s.pos + j \in Cells
    BY <1>1, CellFacts, LastPositive
  <1>4. Filled(b, s) \in Buffer
    BY <1>2, <1>3, CellFacts DEF Filled, Buffer
  <1>5. QED
    BY <1>1, <1>4, LastPositive DEF Filled

-----------------------------------------------------------------------------
(***************************************************************************)
(* Every operation, in any order.                                          *)
(***************************************************************************)

(* A load leaves a stream, buffers and stamps of the right kind, and the   *)
(* stream on its file.                                                     *)
LEMMA LoadTypes ==
  ASSUME NEW f \in 0..1, NEW o \in 0..1,
         NEW bufs \in [0..1 -> Buffer],
         NEW s \in Stream, s.pos <= Len(s.text),
         buff_timestamp \in [0..1 -> 0..2], is_end \in BOOLEAN,
         LoadBuffer(f, o, bufs, s)
  PROVE  /\ stream' \in Stream
         /\ stream'.pos <= Len(stream'.text)
         /\ stream'.text = s.text
         /\ input_buffer' \in [0..1 -> Buffer]
         /\ buff_timestamp' \in [0..1 -> 0..2]
         /\ is_end' \in BOOLEAN
  <1>1. CASE IsNextStamp(buff_timestamp[f], buff_timestamp[o])
    BY <1>1 DEF LoadBuffer
  <1>2. CASE ~IsNextStamp(buff_timestamp[f], buff_timestamp[o])
    <2>1. /\ stream' = Read(s)
          /\ input_buffer' = [bufs EXCEPT ![f] = Filled(bufs[f], s)]
          /\ is_end' = Read(s).eof
          /\ buff_timestamp' =
               [buff_timestamp EXCEPT ![f] = NextStamp(buff_timestamp[o])]
      BY <1>2 DEF LoadBuffer
    <2>2. Read(s) \in Stream /\ Read(s).text = s.text
          /\ Read(s).pos <= Len(s.text)
      BY ReadFacts
    <2>3. Filled(bufs[f], s) \in Buffer
      BY FilledFacts
    <2>4. NextStamp(buff_timestamp[o]) \in 0..2
      BY DEF NextStamp
    <2>5. is_end' \in BOOLEAN
      BY <2>1, <2>2 DEF Stream
    <2>6. QED
      BY <2>1, <2>2, <2>3, <2>4, <2>5
  <1>3. QED
    BY <1>1, <1>2

(* Rewinding leaves a cursor at offset 0. *)
LEMMA RewindTypes ==
  ASSUME NEW bufs \in [0..1 -> Buffer],
         NEW s \in Stream, s.pos <= Len(s.text),
         TypeOK, status = "ok",
         Rewind(bufs, s)
  PROVE  TypeOK' /\ RollbackInReach' /\ stream'.text = s.text
  <1>1. SeekToStart(s) \in Stream /\ SeekToStart(s).pos <= Len(s.text)
        /\ SeekToStart(s).text = s.text
    BY TextLength DEF SeekToStart, Stream
  <1>2. /\ stream' \in Stream
        /\ stream'.pos <= Len(stream'.text)
        /\ stream'.text = s.text
        /\ input_buffer' \in [0..1 -> Buffer]
        /\ buff_timestamp' \in [0..1 -> 0..2]
        /\ is_end' \in BOOLEAN
    BY <1>1, LoadTypes DEF Rewind, TypeOK
  <1>3. Begin \in Location /\ Begin.pos = 0
    BY DEF Begin, Location
  <1>4. QED
    BY <1>2, <1>3, LastPositive
       DEF Rewind, TypeOK, RollbackInReach, text, pos, mark

(* A location advances by one character. *)
LEMMA AdvanceTypes ==
  ASSUME NEW loc \in Location, NEW cell
  PROVE  /\ AdvanceLocation(loc, cell) \in Location
         /\ AdvanceLocation(loc, cell).pos = loc.pos + 1
  BY DEF AdvanceLocation, Location

(* Buffers of a closed file are still buffers. *)
LEMMA StaleTypes ==
  ASSUME NEW bufs \in [0..1 -> Buffer]
  PROVE  Stale(bufs) \in [0..1 -> Buffer]
  BY CellFacts DEF Stale, Buffer

(* The constructor establishes TypeOK and RollbackInReach. *)
LEMMA InitTypes == Init => TypeOK /\ RollbackInReach
  <1> SUFFICES ASSUME NEW t \in Texts, NEW m \in Memories,
                      stream = Read(Opened(t)),
                      input_buffer = [m EXCEPT ![0] = Filled(m[0], Opened(t))],
                      is_end = Read(Opened(t)).eof,
                      buff_timestamp = [i \in 0..1 |-> IF i = 0 THEN 1 ELSE 0],
                      forward = 0 /\ begin = 0 /\ extent = 0,
                      forward_buffer_idx = 0 /\ start_buffer_idx = 0,
                      forward_location = Begin /\ start_location = Begin,
                      status = "ok"
               PROVE  TypeOK /\ RollbackInReach
    BY DEF Init
  <1>1. Opened(t) \in Stream /\ Opened(t).pos <= Len(Opened(t).text)
    BY TextLength DEF Opened, Stream
  <1>2. m \in [0..1 -> Buffer]
    BY MemoryAssumption, CellFacts DEF Buffer, Last
  <1>3. stream \in Stream /\ stream.pos <= Len(text) /\ is_end \in BOOLEAN
    BY <1>1, ReadFacts DEF Stream, text
  <1>4. input_buffer \in [0..1 -> Buffer]
    BY <1>1, <1>2, FilledFacts
  <1>5. Begin \in Location /\ Begin.pos = 0
    BY DEF Begin, Location
  <1>6. QED
    BY <1>3, <1>4, <1>5, LastPositive DEF TypeOK, RollbackInReach, pos, mark

(* forward moves on by one character of the lexeme. *)
LEMMA StepTypes ==
  ASSUME TypeOK, RollbackInReach, status = "ok",
         extent + 1 < kBufferSize, extent' = extent + 1,
         forward_location' \in Location, pos' = pos + 1,
         UNCHANGED <<begin, start_buffer_idx, start_location>>,
         StepForward
  PROVE  TypeOK' /\ RollbackInReach'
  <1>1. CASE forward + 1 > Last /\ status' = "undefined" /\ forward' = forward + 1
             /\ UNCHANGED <<forward_buffer_idx, blocks>>
    BY <1>1, LastPositive DEF TypeOK, RollbackInReach, blocks, text
  <1>2. CASE forward + 1 = Last /\ forward' = 0
             /\ forward_buffer_idx' = 1 - forward_buffer_idx
             /\ LoadBuffer(1 - forward_buffer_idx, start_buffer_idx,
                           input_buffer, stream)
             /\ UNCHANGED status
    <2>1. 1 - forward_buffer_idx \in 0..1
      BY DEF TypeOK
    <2>2. /\ stream' \in Stream
          /\ stream'.pos <= Len(stream'.text)
          /\ input_buffer' \in [0..1 -> Buffer]
          /\ buff_timestamp' \in [0..1 -> 0..2]
          /\ is_end' \in BOOLEAN
      BY <1>2, <2>1, LoadTypes DEF TypeOK, text
    <2>3. TypeOK'
      BY <1>2, <2>1, <2>2, LastPositive DEF TypeOK, text
    <2>4. forward_buffer_idx = start_buffer_idx
      <3>1. SUFFICES ASSUME forward_buffer_idx # start_buffer_idx PROVE FALSE
        OBVIOUS
      <3>2. forward + Last = begin + extent /\ begin < Last
        BY <3>1 DEF RollbackInReach
      <3>3. QED
        BY <1>2, <3>2, LastPositive DEF TypeOK
    <2>5. RollbackInReach'
      BY <1>2, <2>1, <2>4, LastPositive DEF TypeOK, RollbackInReach, pos, mark, Location
    <2>6. QED
      BY <2>3, <2>5
  <1>3. CASE forward + 1 <= Last /\ forward' = forward + 1
             /\ UNCHANGED <<forward_buffer_idx, blocks, status>>
    BY <1>3, LastPositive
       DEF TypeOK, RollbackInReach, blocks, text, pos, mark, Location
  <1>4. QED
    BY <1>1, <1>2, <1>3 DEF StepForward

(* Every operation keeps TypeOK and RollbackInReach. *)
LEMMA ReachInvariant == TypeOK /\ RollbackInReach /\ [Next]_vars
                          => TypeOK' /\ RollbackInReach'
  <1> SUFFICES ASSUME TypeOK, RollbackInReach, [Next]_vars
               PROVE  TypeOK' /\ RollbackInReach'
    OBVIOUS
  <1>1. CASE ScanChar
    <2>1. status = "ok" /\ forward_location \in Location
      BY <1>1 DEF ScanChar, TypeOK
    <2>2. forward_location' \in Location /\ pos' = pos + 1
      BY <1>1, <2>1, AdvanceTypes DEF ScanChar, pos
    <2>3. CASE extent + 1 < kBufferSize /\ StepForward
      BY <1>1, <2>1, <2>2, <2>3, StepTypes DEF ScanChar
    <2>4. CASE forward' = forward + 1 /\ status' = "threw"
               /\ UNCHANGED <<forward_buffer_idx, blocks>>
      BY <1>1, <2>1, <2>2, <2>4, LastPositive
         DEF ScanChar, TypeOK, RollbackInReach, blocks, text
    <2>5. QED
      BY <1>1, <2>3, <2>4 DEF ScanChar
  <1>2. CASE NextLexeme
    BY <1>2, LastPositive
       DEF NextLexeme, TypeOK, RollbackInReach, blocks, text, pos, mark, Location
  <1>3. CASE ResetForward
    BY <1>3, LastPositive
       DEF ResetForward, TypeOK, RollbackInReach, blocks, text, pos, mark, Location
  <1>4. CASE Reset
    BY <1>4, RewindTypes DEF Reset, TypeOK, text
  <1>5. CASE CloseAndOpenOther
    <2>1. ASSUME NEW t \in Texts, Rewind(Stale(input_buffer), Opened(t))
          PROVE  TypeOK' /\ RollbackInReach'
      <3>1. Opened(t) \in Stream /\ Opened(t).pos <= Len(Opened(t).text)
        BY TextLength DEF Opened, Stream
      <3>2. Stale(input_buffer) \in [0..1 -> Buffer]
        BY StaleTypes DEF TypeOK
      <3>3. QED
        BY <1>5, <2>1, <3>1, <3>2, RewindTypes DEF CloseAndOpenOther
    <2>2. CASE /\ status' = "threw"
               /\ stream' = [stream EXCEPT !.fail = TRUE]
               /\ UNCHANGED <<cursor, input_buffer, buff_timestamp, is_end>>
      <3>1. stream' \in Stream /\ stream'.pos = stream.pos /\ stream'.text = stream.text
        BY <2>2 DEF TypeOK, Stream
      <3>2. QED
        BY <2>2, <3>1 DEF TypeOK, RollbackInReach, cursor, text
    <2>3. QED
      BY <1>5, <2>1, <2>2 DEF CloseAndOpenOther
  <1>6. CASE UNCHANGED vars
    BY <1>6 DEF vars, cursor, blocks, TypeOK, RollbackInReach, text, pos, mark
  <1>7. QED
    BY <1>1, <1>2, <1>3, <1>4, <1>5, <1>6 DEF Next, Scan, Move

(* Whatever the operations and their order, every variable keeps its type  *)
(* and forward never leaves the buffers while the program runs on.         *)
THEOREM TypeCorrect == Spec => []TypeOK
  <1>1. Init => TypeOK /\ RollbackInReach
    BY InitTypes
  <1>2. QED
    BY <1>1, ReachInvariant, PTL DEF Spec

(* Whatever the operations and their order, the start of the lexeme stays  *)
(* at most one buffer behind forward, so ResetForward can return to it.    *)
THEOREM RollbackAlwaysInReach == Spec => []RollbackInReach
  <1>1. Init => TypeOK /\ RollbackInReach
    BY InitTypes
  <1>2. QED
    BY <1>1, ReachInvariant, PTL DEF Spec

-----------------------------------------------------------------------------
(***************************************************************************)
(* A file that fits in one buffer.                                         *)
(***************************************************************************)

(* A stamp does not follow itself, nor the stamp before it. *)
LEMMA StampFacts ==
  ASSUME NEW x \in 0..2
  PROVE  ~IsNextStamp(x, x) /\ ~IsNextStamp(x, NextStamp(x))
  BY DEF IsNextStamp, NextStamp

(* Rewinding always reads into buffer 0. *)
LEMMA RewindLoads ==
  ASSUME TypeOK, NEW bufs, NEW s, Rewind(bufs, s)
  PROVE  /\ stream' = Read(SeekToStart(s))
         /\ input_buffer' = [bufs EXCEPT ![0] = Filled(bufs[0], SeekToStart(s))]
  <1>1. ~IsNextStamp(buff_timestamp[0], buff_timestamp[0])
    BY StampFacts DEF TypeOK
  <1>2. QED
    BY <1>1 DEF Rewind, LoadBuffer

(* A small file that is rewound is in buffer 0, if it was there or is read *)
(* there now.                                                              *)
LEMMA SmallFileRewound ==
  ASSUME TypeOK, status = "ok",
         NEW bufs \in [0..1 -> Buffer],
         NEW s \in Stream, s.pos <= Len(s.text), Len(s.text) < Last,
         Rewind(bufs, s),
         \/ s.fail /\ \A j \in 0..Last :
              j <= Len(s.text) =>
                bufs[0][j] = IF j = Last \/ j = Len(s.text) THEN kEOF ELSE j
         \/ ~s.eof /\ ~s.fail /\ s.pos = 0
  PROVE  SmallFileInBuffer'
  <1> DEFINE s0 == SeekToStart(s)
             L  == Len(s.text)
  <1>1. L \in Nat
    BY TextLength DEF Stream
  <1>2. s0 \in Stream /\ s0.pos <= L /\ s0.text = s.text /\ ~s0.eof
        /\ (s0.fail <=> s.fail) /\ (~s.fail => s0.pos = 0)
    BY <1>1 DEF SeekToStart, Stream
  <1>3. /\ stream' = Read(s0)
        /\ input_buffer'[0] = Filled(bufs[0], s0)
        /\ stream'.text = s.text
    BY <1>2, RewindLoads, ReadFacts
  <1>4. stream'.fail /\ \A j \in 0..Last :
          j <= L => input_buffer'[0][j] =
                      IF j = Last \/ j = L THEN kEOF ELSE j
    <2> DEFINE F == Filled(bufs[0], s0)
    <2>0. \A j \in 0..Last :
            F[j] = IF j < Count(s0) THEN s0.pos + j
                   ELSE IF j = Last \/ (Read(s0).eof /\ j = Count(s0)) THEN kEOF
                   ELSE bufs[0][j]
      BY <1>2, FilledFacts
    <2>1. CASE s.fail
      <3>1. ~Good(s0)
        BY <1>2, <2>1 DEF Good
      <3>2. Count(s0) = 0 /\ Read(s0) = [s0 EXCEPT !.fail = TRUE]
        BY <1>2, <3>1, ReadFacts
      <3>3. Read(s0).fail /\ ~Read(s0).eof
        BY <1>2, <3>2 DEF Stream
      <3>4. \A j \in 0..Last : F[j] = IF j = Last THEN kEOF ELSE bufs[0][j]
        BY <2>0, <3>2, <3>3
      <3>5. QED
        BY <1>1, <1>3, <2>1, <3>3, <3>4, LastPositive
    <2>2. CASE ~s.fail
      <3>1. Good(s0) /\ s0.pos = 0
        BY <1>2, <2>2 DEF Good
      <3>2. Read(s0).eof /\ Read(s0).fail /\ Count(s0) = L
        BY <1>1, <1>2, <3>1, ReadFacts, LastPositive
      <3>3. QED
        BY <1>1, <1>3, <2>0, <3>1, <3>2, LastPositive
    <2>3. QED
      BY <2>1, <2>2
  <1>5. Holds(0, 0)'
    BY <1>1, <1>3, <1>4, LastPositive DEF Holds, text
  <1>6. QED
    BY <1>1, <1>3, <1>4, <1>5
       DEF SmallFileInBuffer, Rewind, text, pos, mark, Begin

(* The constructor reads a small file whole. *)
LEMMA SmallFileInit == Init => SmallFileInBuffer
  <1> SUFFICES ASSUME NEW t \in Texts, NEW m \in Memories,
                      stream = Read(Opened(t)),
                      input_buffer = [m EXCEPT ![0] = Filled(m[0], Opened(t))],
                      forward = 0 /\ begin = 0,
                      forward_buffer_idx = 0 /\ start_buffer_idx = 0,
                      forward_location = Begin /\ start_location = Begin,
                      Len(text) < Last
               PROVE  SmallFileInBuffer
    BY DEF Init, SmallFileInBuffer
  <1>1. /\ Opened(t) \in Stream /\ Opened(t).pos = 0 /\ Opened(t).text = t
        /\ Len(t) \in Nat /\ Good(Opened(t))
    BY TextLength DEF Opened, Stream, Good
  <1>2. m \in [0..1 -> Buffer]
    BY MemoryAssumption, CellFacts DEF Buffer, Last
  <1>3. text = t /\ stream.fail /\ Read(Opened(t)).eof
        /\ Count(Opened(t)) = Len(t)
    BY <1>1, ReadFacts, LastPositive DEF text
  <1>4. \A j \in 0..Last :
          j <= Len(t) => input_buffer[0][j] =
                           IF j = Last \/ j = Len(t) THEN kEOF ELSE j
    BY <1>1, <1>2, <1>3, FilledFacts, LastPositive
  <1>5. Holds(0, 0)
    BY <1>1, <1>3, <1>4, LastPositive DEF Holds
  <1>6. QED
    BY <1>1, <1>3, <1>5 DEF SmallFileInBuffer, pos, mark, Begin

(* Every operation keeps a small file in buffer 0. *)
LEMMA SmallFileStep == TypeOK /\ SmallFileInBuffer /\ [Next]_vars
                         => SmallFileInBuffer'
  <1> SUFFICES ASSUME TypeOK, SmallFileInBuffer, [Next]_vars
               PROVE  SmallFileInBuffer'
    OBVIOUS
  <1>1. CASE ScanChar
    <2> SUFFICES ASSUME status' = "ok", Len(text') < Last
                 PROVE  SmallFileInBuffer'
      BY DEF SmallFileInBuffer
    <2>1. StepForward /\ status = "ok"
      BY <1>1 DEF ScanChar
    <2>2. text' = text
      <3>1. CASE UNCHANGED blocks
        BY <3>1 DEF blocks, text
      <3>2. CASE LoadBuffer(1 - forward_buffer_idx, start_buffer_idx,
                            input_buffer, stream)
        BY <3>2, LoadTypes DEF TypeOK, text
      <3>3. QED
        BY <2>1, <3>1, <3>2 DEF StepForward
    <2>3. /\ stream.fail /\ forward_buffer_idx = 0 /\ start_buffer_idx = 0
          /\ forward = pos /\ begin = mark /\ mark <= Len(text)
          /\ pos <= Len(text) /\ Holds(0, 0) /\ Len(text) < Last
      BY <2>1, <2>2 DEF SmallFileInBuffer
    <2>4. Len(text) \in Nat /\ pos \in Nat
      BY TextLength DEF TypeOK, Stream, Location, text, pos
    <2>5. Peek = IF forward = Len(text) THEN kEOF ELSE forward
      BY <2>3, <2>4, LastPositive DEF Holds, Peek
    <2>6. forward + 1 <= Len(text)
      BY <1>1, <2>3, <2>4, <2>5 DEF ScanChar
    <2>7. forward' = forward + 1 /\ UNCHANGED <<forward_buffer_idx, blocks, status>>
      BY <2>1, <2>3, <2>4, <2>6, LastPositive DEF StepForward
    <2>8. pos' = pos + 1
      BY <1>1, AdvanceTypes DEF ScanChar, TypeOK, pos
    <2>9. Holds(0, 0)'
      BY <2>2, <2>3, <2>7 DEF Holds, blocks, text
    <2>10. QED
      BY <1>1, <2>2, <2>3, <2>4, <2>6, <2>7, <2>8, <2>9
         DEF ScanChar, SmallFileInBuffer, blocks, mark
  <1>2. CASE NextLexeme
    BY <1>2 DEF NextLexeme, SmallFileInBuffer, Holds, blocks, text, pos, mark
  <1>3. CASE ResetForward
    BY <1>3 DEF ResetForward, SmallFileInBuffer, Holds, blocks, text, pos, mark
  <1>4. CASE Reset
    <2>1. Rewind(input_buffer, stream) /\ status = "ok"
      BY <1>4 DEF Reset
    <2>2. text' = text
      BY <2>1, RewindTypes DEF TypeOK, text
    <2>3. CASE Len(text) < Last
      BY <2>1, <2>3, SmallFileRewound DEF SmallFileInBuffer, Holds, TypeOK, text
    <2>4. QED
      BY <2>2, <2>3 DEF SmallFileInBuffer
  <1>5. CASE CloseAndOpenOther
    <2>1. ASSUME NEW t \in Texts, Rewind(Stale(input_buffer), Opened(t))
          PROVE  SmallFileInBuffer'
      <3>1. /\ Opened(t) \in Stream /\ Opened(t).pos <= Len(Opened(t).text)
            /\ ~Opened(t).eof /\ ~Opened(t).fail /\ Opened(t).pos = 0
        BY TextLength DEF Opened, Stream
      <3>2. Stale(input_buffer) \in [0..1 -> Buffer] /\ status = "ok"
        BY <1>5, StaleTypes DEF TypeOK, CloseAndOpenOther
      <3>3. text' = Opened(t).text
        BY <2>1, <3>1, <3>2, RewindTypes DEF text
      <3>4. CASE Len(Opened(t).text) < Last
        BY <2>1, <3>1, <3>2, <3>4, SmallFileRewound
      <3>5. QED
        BY <3>3, <3>4 DEF SmallFileInBuffer
    <2>2. CASE status' = "threw"
      BY <2>2 DEF SmallFileInBuffer
    <2>3. QED
      BY <1>5, <2>1, <2>2 DEF CloseAndOpenOther
  <1>6. CASE UNCHANGED vars
    BY <1>6 DEF vars, cursor, blocks, SmallFileInBuffer, Holds, text, pos, mark
  <1>7. QED
    BY <1>1, <1>2, <1>3, <1>4, <1>5, <1>6 DEF Next, Scan, Move

(* A file of less than kBufferSize - 1 characters is delivered exactly and *)
(* to its end, whatever was open before it and however often it is Reset.  *)
THEOREM SmallFilesFaithful == Spec => []SmallFileFaithful
  <1>1. TypeOK /\ SmallFileInBuffer => SmallFileFaithful
    <2> SUFFICES ASSUME TypeOK, SmallFileInBuffer, status = "ok", Len(text) < Last
                 PROVE  Peek = IF pos < Len(text) THEN pos ELSE kEOF
      BY DEF SmallFileFaithful
    <2>1. Len(text) \in Nat /\ pos \in Nat
      BY TextLength DEF TypeOK, Stream, Location, text, pos
    <2>2. QED
      BY <2>1, LastPositive DEF SmallFileInBuffer, Holds, Peek
  <1>2. QED
    BY <1>1, SmallFileInit, SmallFileStep, TypeCorrect, PTL DEF Spec

-----------------------------------------------------------------------------
(***************************************************************************)
(* One pass over a file: the inductive invariant of ScanSpec, the          *)
(* exactness of what is delivered, and the refinement of Cursor.           *)
(***************************************************************************)

(* A block that is read from a good stream is the block at its position.   *)
LEMMA FilledHolds ==
  ASSUME NEW s \in Stream, s.pos <= Len(s.text), Good(s), NEW b \in Buffer
  PROVE  \A j \in 0..Last :
           s.pos + j <= Len(s.text) =>
             Filled(b, s)[j] =
               IF j = Last \/ s.pos + j = Len(s.text) THEN kEOF ELSE s.pos + j
  <1>1. Len(s.text) \in Nat /\ s.pos \in Nat
    BY TextLength DEF Stream
  <1>2. /\ Read(s).eof <=> Len(s.text) < s.pos + Last
        /\ Count(s) = IF Len(s.text) < s.pos + Last
                      THEN Len(s.text) - s.pos ELSE Last
    BY ReadFacts
  <1> SUFFICES ASSUME NEW j \in 0..Last, s.pos + j <= Len(s.text)
               PROVE  Filled(b, s)[j] =
                        IF j = Last \/ s.pos + j = Len(s.text)
                        THEN kEOF ELSE s.pos + j
    OBVIOUS
  <1>3. Filled(b, s)[j] =
          IF j < Count(s) THEN s.pos + j
          ELSE IF j = Last \/ (Read(s).eof /\ j = Count(s)) THEN kEOF
          ELSE b[j]
    BY FilledFacts
  <1>4. CASE Len(s.text) < s.pos + Last
    BY <1>1, <1>2, <1>3, <1>4, LastPositive
  <1>5. CASE ~(Len(s.text) < s.pos + Last)
    BY <1>1, <1>2, <1>3, <1>5, LastPositive
  <1>6. QED
    BY <1>4, <1>5

(* The numbers of one pass are numbers. *)
LEMMA NumberTypes ==
  ASSUME TypeOK
  PROVE  /\ pos \in Nat /\ mark \in Nat
         /\ forward \in Nat /\ begin \in Nat /\ begin <= Last /\ extent \in Nat
         /\ StartBase \in Int /\ StartBase = mark - begin
         /\ Last \in Nat /\ Last >= 1
  <1>1. pos \in Nat /\ mark \in Nat
    BY DEF TypeOK, Location, pos, mark
  <1>2. forward \in Nat /\ begin \in Nat /\ begin <= Last /\ extent \in Nat
    BY LastPositive DEF TypeOK
  <1>3. QED
    BY <1>1, <1>2, LastPositive DEF StartBase

(* The stream and the buffers of one pass have their types. *)
LEMMA FileTypes ==
  ASSUME TypeOK
  PROVE  /\ Len(text) \in Nat
         /\ stream \in Stream /\ stream.text = text /\ stream.pos <= Len(text)
  BY TextLength DEF TypeOK, Stream, text

(* There are two buffers. *)
LEMMA IndexTypes ==
  ASSUME TypeOK
  PROVE  forward_buffer_idx \in 0..1 /\ start_buffer_idx \in 0..1
  BY DEF TypeOK

(* forward is in the block of the start buffer or in the one behind it. *)
LEMMA Positions ==
  ASSUME TypeOK, PositionsAgree
  PROVE  /\ StartBase \in Nat /\ pos - forward \in Nat
         /\ forward_buffer_idx = start_buffer_idx =>
              pos - forward = StartBase /\ forward = begin + extent
         /\ forward_buffer_idx # start_buffer_idx =>
              pos - forward = StartBase + Last /\ forward + Last = begin + extent
  <1>1. pos = mark + extent /\ StartBase \in Nat
    BY NumberTypes DEF PositionsAgree
  <1>2. CASE forward_buffer_idx = start_buffer_idx
    <2>1. forward = begin + extent
      BY <1>2 DEF PositionsAgree
    <2>2. QED
      BY <1>1, <1>2, <2>1, NumberTypes
  <1>3. CASE forward_buffer_idx # start_buffer_idx
    <2>1. forward + Last = begin + extent
      BY <1>3 DEF PositionsAgree
    <2>2. pos - forward = StartBase + Last
      BY <1>1, <2>1, NumberTypes
    <2>3. QED
      BY <1>1, <1>3, <2>1, <2>2, NumberTypes
  <1>4. QED
    BY <1>2, <1>3

(* The block of forward is in its buffer, so the cell under forward is the *)
(* character at pos or a sentinel.                                         *)
LEMMA PeekFacts ==
  ASSUME TypeOK, ScanInv, status = "ok"
  PROVE  /\ Holds(forward_buffer_idx, pos - forward)
         /\ forward \in 0..Last /\ pos <= Len(text)
         /\ Peek = IF forward = Last \/ pos = Len(text) THEN kEOF ELSE pos
  <1>1. PositionsAgree /\ BlocksAgree /\ NotOnSentinel
    BY DEF ScanInv
  <1>2. Holds(forward_buffer_idx, pos - forward)
    <2>1. CASE forward_buffer_idx = start_buffer_idx
      BY <1>1, <2>1, Positions DEF BlocksAgree
    <2>2. CASE forward_buffer_idx # start_buffer_idx
      <3>1. Ahead /\ forward_buffer_idx = 1 - start_buffer_idx
        BY <1>1, <2>2, IndexTypes DEF NotOnSentinel
      <3>2. QED
        BY <1>1, <2>2, <3>1, Positions DEF BlocksAgree
    <2>3. QED
      BY <2>1, <2>2
  <1>3. forward \in 0..Last /\ pos <= Len(text)
    BY <1>1 DEF TypeOK, PositionsAgree
  <1>4. (pos - forward) + forward = pos
    BY NumberTypes
  <1>5. QED
    BY <1>2, <1>3, <1>4 DEF Holds, Peek

(* The constructor establishes ScanInv. *)
LEMMA ScanInit == Init => ScanInv
  <1> SUFFICES ASSUME NEW t \in Texts, NEW m \in Memories,
                      stream = Read(Opened(t)),
                      input_buffer = [m EXCEPT ![0] = Filled(m[0], Opened(t))],
                      is_end = Read(Opened(t)).eof,
                      buff_timestamp = [i \in 0..1 |-> IF i = 0 THEN 1 ELSE 0],
                      forward = 0 /\ begin = 0 /\ extent = 0,
                      forward_buffer_idx = 0 /\ start_buffer_idx = 0,
                      forward_location = Begin /\ start_location = Begin,
                      status = "ok"
               PROVE  ScanInv
    BY DEF Init
  <1>1. /\ Opened(t) \in Stream /\ Opened(t).pos = 0 /\ Opened(t).text = t
        /\ Len(t) \in Nat /\ Good(Opened(t))
    BY TextLength DEF Opened, Stream, Good
  <1>2. m[0] \in Buffer /\ input_buffer[0] = Filled(m[0], Opened(t))
    BY MemoryAssumption, CellFacts DEF Buffer, Last
  <1>3. /\ text = t
        /\ stream.eof <=> Len(t) < Last
        /\ stream.fail <=> stream.eof
        /\ ~stream.eof => stream.pos = Last
    BY <1>1, ReadFacts, LastPositive DEF text
  <1>4. pos = 0 /\ mark = 0 /\ StartBase = 0
    BY DEF pos, mark, StartBase, Begin
  <1>5. ~Ahead
    BY DEF Ahead, IsNextStamp, NextStamp
  <1>6. Holds(0, 0)
    BY <1>1, <1>2, <1>3, FilledHolds DEF Holds
  <1>7. PositionsAgree
    BY <1>1, <1>3, <1>4 DEF PositionsAgree
  <1>8. BlocksAgree
    BY <1>3, <1>4, <1>5, <1>6, LastPositive DEF BlocksAgree
  <1>9. QED
    BY <1>7, <1>8, LastPositive DEF ScanInv, NotOnSentinel

(* forward crosses into the other buffer: the next block is there already, *)
(* or is read now.                                                         *)
LEMMA CrossHolds ==
  ASSUME TypeOK, ScanInv, status = "ok", ~is_end,
         forward_buffer_idx = start_buffer_idx, pos < Len(text),
         forward + 1 = Last, extent' = extent + 1, pos' = pos + 1,
         forward' = 0, forward_buffer_idx' = 1 - forward_buffer_idx,
         LoadBuffer(1 - forward_buffer_idx, start_buffer_idx, input_buffer, stream),
         extent + 1 < kBufferSize,
         UNCHANGED <<begin, start_buffer_idx, start_location, status>>
  PROVE  ScanInv'
  <1> DEFINE f == 1 - start_buffer_idx
  <1>1. PositionsAgree /\ BlocksAgree
    BY DEF ScanInv
  <1>2. f \in 0..1 /\ f # start_buffer_idx /\ forward_buffer_idx' = f
    BY NumberTypes, FileTypes, IndexTypes
  <1>3. mark' = mark /\ StartBase' = StartBase /\ begin + extent + 1 = Last
    BY <1>1, NumberTypes, FileTypes, IndexTypes DEF PositionsAgree, mark, StartBase
  <1>4. StartBase \in Nat /\ pos + 1 = StartBase + Last /\ StartBase + Last <= Len(text)
    <2>1. StartBase \in Nat /\ pos - forward = StartBase
      BY <1>1, Positions
    <2>2. pos + 1 = StartBase + Last
      BY <2>1, NumberTypes
    <2>3. QED
      BY <2>1, <2>2, NumberTypes, FileTypes
  <1>4a. /\ pos' = mark' + extent' /\ pos' <= Len(text) /\ StartBase' >= 0
         /\ forward' + Last = begin' + extent' /\ begin < Last
    <2>1. pos = mark + extent
      BY <1>1 DEF PositionsAgree
    <2>2. pos + 1 <= Len(text)
      BY NumberTypes, FileTypes
    <2>3. begin + extent + 1 = Last
      BY <1>3
    <2>4. begin < Last /\ begin + (extent + 1) = Last
      <3>1. begin \in Nat /\ extent \in Nat /\ Last \in Nat
        BY NumberTypes
      <3>2. QED
        BY <2>3, <3>1
    <2>5. pos + 1 = mark + (extent + 1)
      BY <2>1, NumberTypes
    <2>6. QED
      BY <1>3, <1>4, <2>2, <2>4, <2>5, NumberTypes
  <1>5. CASE Ahead
    <2>1. UNCHANGED <<stream, input_buffer, buff_timestamp, is_end>>
      BY <1>5, NumberTypes, FileTypes, IndexTypes DEF LoadBuffer, Ahead
    <2>2. Ahead' /\ text' = text
      BY <1>5, <2>1 DEF Ahead, text
    <2>3. BlocksAgree'
      BY <1>1, <1>3, <1>5, <2>1, <2>2 DEF BlocksAgree, Holds
    <2>4. PositionsAgree'
      BY <1>2, <1>4a, <2>2 DEF PositionsAgree
    <2>5. NotOnSentinel'
      BY <1>4a, <2>2, LastPositive DEF NotOnSentinel
    <2>6. QED
      BY <2>3, <2>4, <2>5 DEF ScanInv
  <1>6. CASE ~Ahead
    <2>1. /\ stream' = Read(stream)
          /\ input_buffer' = [input_buffer EXCEPT ![f] = Filled(input_buffer[f], stream)]
          /\ is_end' = Read(stream).eof
          /\ buff_timestamp' = [buff_timestamp EXCEPT
                                  ![f] = NextStamp(buff_timestamp[start_buffer_idx])]
      BY <1>6, NumberTypes, FileTypes, IndexTypes DEF LoadBuffer, Ahead
    <2>2. Good(stream) /\ stream.pos = StartBase + Last
      BY <1>1, <1>6 DEF BlocksAgree, Good
    <2>3. /\ stream'.text = text /\ text' = text
          /\ is_end' <=> Len(text) < StartBase + 2 * Last
          /\ stream'.eof <=> is_end'
          /\ stream'.fail <=> is_end'
          /\ ~is_end' => stream'.pos = StartBase + 2 * Last
      <3>1. /\ Read(stream).text = text
            /\ Read(stream).eof <=> Len(text) < (StartBase + Last) + Last
            /\ Read(stream).fail <=> Read(stream).eof
            /\ ~Read(stream).eof => Read(stream).pos = (StartBase + Last) + Last
        BY <2>2, NumberTypes, FileTypes, IndexTypes, ReadFacts
      <3>2. QED
        BY <1>4, <2>1, <3>1, LastPositive DEF text
    <2>4. Ahead'
      <3>1. buff_timestamp'[f] = NextStamp(buff_timestamp[start_buffer_idx])
            /\ buff_timestamp'[start_buffer_idx] = buff_timestamp[start_buffer_idx]
        BY <1>2, <2>1, NumberTypes, FileTypes, IndexTypes DEF TypeOK
      <3>2. QED
        BY <3>1 DEF Ahead, IsNextStamp
    <2>5. Holds(start_buffer_idx, StartBase)'
      <3>1. input_buffer'[start_buffer_idx] = input_buffer[start_buffer_idx]
        BY <1>2, <2>1, NumberTypes, FileTypes, IndexTypes DEF TypeOK
      <3>2. QED
        BY <1>1, <1>3, <2>3, <3>1 DEF BlocksAgree, Holds
    <2>6. Holds(1 - start_buffer_idx, StartBase + Last)'
      <3>1. input_buffer'[f] = Filled(input_buffer[f], stream)
        BY <1>2, <2>1 DEF TypeOK
      <3>2. input_buffer[f] \in Buffer
        BY <1>2 DEF TypeOK
      <3>3. \A j \in 0..Last :
              stream.pos + j <= Len(text) =>
                Filled(input_buffer[f], stream)[j] =
                  IF j = Last \/ stream.pos + j = Len(text) THEN kEOF ELSE stream.pos + j
        BY <2>2, <3>2, NumberTypes, FileTypes, IndexTypes, FilledHolds
      <3>4. QED
        BY <1>3, <2>2, <2>3, <3>1, <3>3 DEF Holds
    <2>7. BlocksAgree'
      BY <1>3, <1>4, <2>3, <2>4, <2>5, <2>6 DEF BlocksAgree
    <2>8. PositionsAgree'
      BY <1>2, <1>4a, <2>3 DEF PositionsAgree
    <2>9. NotOnSentinel'
      BY <1>4a, <2>4, LastPositive DEF NotOnSentinel
    <2>10. QED
      BY <2>7, <2>8, <2>9 DEF ScanInv
  <1>7. QED
    BY <1>5, <1>6

(* One character of the lexeme is scanned. *)
LEMMA StepKeepsScanInv ==
  ASSUME TypeOK, ScanInv, status = "ok", Peek # kEOF,
         extent + 1 < kBufferSize, extent' = extent + 1, pos' = pos + 1,
         UNCHANGED <<begin, start_buffer_idx, start_location>>,
         StepForward
  PROVE  ScanInv'
  <1>1. PositionsAgree /\ BlocksAgree /\ NotOnSentinel /\ extent < kBufferSize
    BY DEF ScanInv
  <1>2. forward < Last /\ pos < Len(text) /\ Peek = pos
    BY PeekFacts, NumberTypes, FileTypes, IndexTypes, LastPositive
  <1>3. CASE /\ forward + 1 = Last /\ HasNext /\ forward' = 0
             /\ forward_buffer_idx' = 1 - forward_buffer_idx
             /\ LoadBuffer(1 - forward_buffer_idx, start_buffer_idx,
                           input_buffer, stream)
             /\ UNCHANGED status
    <2>1. forward_buffer_idx = start_buffer_idx
      <3>1. SUFFICES ASSUME forward_buffer_idx # start_buffer_idx PROVE FALSE
        OBVIOUS
      <3>2. forward + Last = begin + extent /\ begin < Last
        BY <1>1, <3>1 DEF PositionsAgree, NotOnSentinel
      <3>3. extent + 1 < Last + 1 /\ forward + 1 = Last
        BY <1>3, LastPositive
      <3>4. QED
        BY <3>2, <3>3, NumberTypes
    <2>2. QED
      BY <1>2, <1>3, <2>1, CrossHolds DEF HasNext
  <1>4. CASE /\ forward + 1 <= Last
             /\ ~(/\ forward + 1 = Last
                  /\ input_buffer[forward_buffer_idx][forward + 1] = kEOF
                  /\ HasNext)
             /\ forward' = forward + 1
             /\ UNCHANGED <<forward_buffer_idx, blocks, status>>
    <2>1. forward' = Last => is_end
      <3>1. SUFFICES ASSUME forward + 1 = Last PROVE is_end
        BY <1>4
      <3>2. input_buffer[forward_buffer_idx][Last] = kEOF
        <4>1. (pos - forward) + Last <= Len(text) /\ Last \in 0..Last
          BY <1>2, <3>1, NumberTypes, FileTypes
        <4>2. QED
          BY <4>1, PeekFacts DEF Holds
      <3>3. QED
        BY <1>4, <3>1, <3>2 DEF HasNext
    <2>2. /\ UNCHANGED <<stream, input_buffer, buff_timestamp, is_end, text, mark>>
          /\ StartBase' = StartBase /\ (Ahead' <=> Ahead)
      BY <1>4 DEF blocks, text, mark, StartBase, Ahead
    <2>3. PositionsAgree'
      <3>1. pos' = mark' + extent' /\ pos' <= Len(text')
        BY <1>1, <1>2, <2>2, NumberTypes, FileTypes, IndexTypes DEF PositionsAgree
      <3>2. IF forward_buffer_idx = start_buffer_idx
            THEN forward + 1 = begin + (extent + 1)
            ELSE (forward + 1) + Last = begin + (extent + 1)
        <4>1. CASE forward_buffer_idx = start_buffer_idx
          BY <1>1, <4>1, Positions, NumberTypes
        <4>2. CASE forward_buffer_idx # start_buffer_idx
          <5>1. forward + Last = begin + extent
            BY <1>1, <4>2, Positions
          <5>2. QED
            BY <4>2, <5>1, NumberTypes
        <4>3. QED
          BY <4>1, <4>2
      <3>3. QED
        BY <1>1, <1>4, <2>2, <3>1, <3>2 DEF PositionsAgree
    <2>4. BlocksAgree'
      BY <1>1, <2>2 DEF BlocksAgree, Holds
    <2>5. NotOnSentinel'
      BY <1>1, <1>4, <2>1, <2>2 DEF NotOnSentinel
    <2>6. QED
      BY <1>1, <1>4, <2>3, <2>4, <2>5 DEF ScanInv
  <1>5. QED
    BY <1>2, <1>3, <1>4, NumberTypes, FileTypes, IndexTypes, LastPositive DEF StepForward

(* ScanInv is inductive. *)
LEMMA ScanStep == TypeOK /\ ScanInv /\ [Scan]_vars => ScanInv'
  <1> SUFFICES ASSUME TypeOK, ScanInv, [Scan]_vars
               PROVE  ScanInv'
    OBVIOUS
  <1>1. CASE ScanChar
    <2>1. status = "ok" /\ Peek # kEOF /\ pos' = pos + 1
      BY <1>1, AdvanceTypes DEF ScanChar, TypeOK, pos
    <2>2. CASE extent + 1 < kBufferSize /\ StepForward
      BY <1>1, <2>1, <2>2, StepKeepsScanInv DEF ScanChar
    <2>3. CASE status' = "threw"
      BY <2>3 DEF ScanInv
    <2>4. QED
      BY <1>1, <2>2, <2>3 DEF ScanChar
  <1>2. CASE NextLexeme
    <2>1. PositionsAgree /\ BlocksAgree /\ NotOnSentinel /\ status = "ok"
      BY <1>2 DEF ScanInv, NextLexeme
    <2>2. /\ UNCHANGED <<stream, input_buffer, buff_timestamp, is_end, text, pos, status>>
          /\ mark' = pos /\ begin' = forward /\ extent' = 0 /\ forward' = forward
          /\ start_buffer_idx' = forward_buffer_idx
          /\ forward_buffer_idx' = forward_buffer_idx
          /\ StartBase' = pos - forward
      BY <1>2 DEF NextLexeme, blocks, text, pos, mark, StartBase
    <2>3. PositionsAgree' /\ NotOnSentinel'
      BY <2>1, <2>2, PeekFacts, NumberTypes, FileTypes, IndexTypes DEF PositionsAgree, NotOnSentinel
    <2>4. BlocksAgree'
      <3>1. CASE forward_buffer_idx = start_buffer_idx
        <4>1. pos - forward = StartBase
          BY <2>1, <3>1, NumberTypes, FileTypes, IndexTypes DEF PositionsAgree, StartBase
        <4>2. QED
          BY <2>1, <2>2, <3>1, <4>1 DEF BlocksAgree, Holds, Ahead
      <3>2. CASE forward_buffer_idx # start_buffer_idx
        <4>2. pos - forward = StartBase + Last
          BY <2>1, <3>2, Positions
        <4>3. Ahead /\ forward_buffer_idx = 1 - start_buffer_idx
              /\ start_buffer_idx = 1 - forward_buffer_idx
          BY <2>1, <3>2, NumberTypes, FileTypes, IndexTypes DEF NotOnSentinel
        <4>4. ~Ahead'
          <5>1. buff_timestamp[start_buffer_idx] \in 0..2
            BY NumberTypes, FileTypes, IndexTypes DEF TypeOK
          <5>2. buff_timestamp[forward_buffer_idx]
                  = NextStamp(buff_timestamp[start_buffer_idx])
            BY <4>3 DEF Ahead, IsNextStamp
          <5>3. QED
            BY <2>2, <4>3, <5>1, <5>2, StampFacts DEF Ahead
        <4>5. StartBase' + Last = StartBase + 2 * Last
          <5>1. (pos - forward) + Last = StartBase + 2 * Last
            BY <4>2, NumberTypes
          <5>2. QED
            BY <2>2, <5>1
        <4>6. Holds(start_buffer_idx, StartBase)'
          BY <2>1, <2>2, PeekFacts DEF Holds
        <4>7. QED
          BY <2>1, <2>2, <4>3, <4>4, <4>5, <4>6 DEF BlocksAgree
      <3>3. QED
        BY <3>1, <3>2
    <2>5. QED
      BY <2>1, <2>2, <2>3, <2>4, LastPositive DEF ScanInv
  <1>3. CASE ResetForward
    <2>1. PositionsAgree /\ BlocksAgree /\ NotOnSentinel /\ status = "ok"
      BY <1>3 DEF ScanInv, ResetForward
    <2>2. /\ UNCHANGED <<stream, input_buffer, buff_timestamp, is_end, text, mark,
                         status, begin, start_buffer_idx>>
          /\ pos' = mark /\ forward' = begin /\ extent' = 0
          /\ forward_buffer_idx' = start_buffer_idx
          /\ StartBase' = StartBase /\ (Ahead' <=> Ahead)
      BY <1>3 DEF ResetForward, blocks, text, pos, mark, StartBase, Ahead
    <2>3. PositionsAgree' /\ NotOnSentinel'
      BY <2>1, <2>2, NumberTypes, FileTypes, IndexTypes DEF PositionsAgree, NotOnSentinel
    <2>4. BlocksAgree'
      BY <2>1, <2>2 DEF BlocksAgree, Holds
    <2>5. QED
      BY <2>1, <2>2, <2>3, <2>4, LastPositive DEF ScanInv
  <1>4. CASE UNCHANGED vars
    BY <1>4 DEF vars, cursor, blocks, ScanInv, PositionsAgree, BlocksAgree,
                NotOnSentinel, Holds, StartBase, Ahead, text, pos, mark
  <1>5. QED
    BY <1>1, <1>2, <1>3, <1>4 DEF Scan

(* Through one pass, whatever is looked at and rolled back, every buffer   *)
(* that may be read holds the block of the file that belongs there.        *)
THEOREM ScanInvariant == ScanSpec => []ScanInv
  <1>1. Init => TypeOK /\ RollbackInReach
    BY InitTypes
  <1>2. [Scan]_vars => [Next]_vars
    BY DEF Next
  <1>3. TypeOK /\ RollbackInReach /\ [Scan]_vars => TypeOK' /\ RollbackInReach'
    BY <1>2, ReachInvariant
  <1>4. QED
    BY <1>1, <1>3, ScanInit, ScanStep, PTL DEF ScanSpec

-----------------------------------------------------------------------------
(* A block that forward has crossed into is the last one that was read.    *)
LEMMA LimitAhead ==
  ASSUME TypeOK, ScanInv, status = "ok", forward_buffer_idx # start_buffer_idx
  PROVE  ~ReadAhead /\ Limit = Len(text)
  <1>1. Ahead /\ forward_buffer_idx = 1 - start_buffer_idx
        /\ start_buffer_idx = 1 - forward_buffer_idx
    BY IndexTypes DEF ScanInv, NotOnSentinel
  <1>2. buff_timestamp[forward_buffer_idx] = NextStamp(buff_timestamp[start_buffer_idx])
        /\ buff_timestamp[start_buffer_idx] \in 0..2
    BY <1>1, IndexTypes DEF TypeOK, Ahead, IsNextStamp
  <1>3. ~ReadAhead
    BY <1>1, <1>2, StampFacts DEF ReadAhead
  <1>4. QED
    BY <1>3 DEF Limit

(* In the start buffer, the next block was read ahead or it was not. *)
LEMMA LimitHere ==
  ASSUME TypeOK, ScanInv, status = "ok", forward_buffer_idx = start_buffer_idx
  PROVE  Limit = IF is_end /\ Ahead THEN StartBase + Last ELSE Len(text)
  <1>1. ReadAhead <=> Ahead
    BY DEF ReadAhead, Ahead
  <1>2. pos - forward = StartBase
    BY Positions DEF ScanInv
  <1>3. QED
    BY <1>1, <1>2 DEF Limit

(* Where ScanInv holds, the character shown is the right one. *)
LEMMA PeekExact == TypeOK /\ ScanInv => PeekIsNextChar
  <1> SUFFICES ASSUME TypeOK, ScanInv, status = "ok"
               PROVE  Peek = IF pos < Limit THEN pos ELSE kEOF
    BY DEF PeekIsNextChar
  <1>1. PositionsAgree /\ BlocksAgree /\ NotOnSentinel
    BY DEF ScanInv
  <1>2. CASE forward_buffer_idx = start_buffer_idx /\ is_end /\ Ahead
    <2>1. Limit = StartBase + Last /\ StartBase + Last <= Len(text)
      BY <1>1, <1>2, LimitHere DEF BlocksAgree
    <2>2. pos - forward = StartBase
      BY <1>1, <1>2, Positions
    <2>3. pos < StartBase + Last <=> forward < Last
      BY <2>2, NumberTypes
    <2>4. forward < Last => pos # Len(text)
      BY <2>1, <2>3, NumberTypes, FileTypes
    <2>5. forward < Last <=> forward # Last
      BY PeekFacts, NumberTypes
    <2>6. QED
      BY <2>1, <2>3, <2>4, <2>5, PeekFacts
  <1>3. CASE forward_buffer_idx = start_buffer_idx /\ ~(is_end /\ Ahead)
    <2>1. Limit = Len(text)
      BY <1>3, LimitHere
    <2>2. forward = Last => Len(text) < pos
      <3>1. SUFFICES ASSUME forward = Last PROVE Len(text) < pos
        OBVIOUS
      <3>2. is_end /\ ~Ahead
        BY <1>1, <1>3, <3>1 DEF NotOnSentinel
      <3>3. Len(text) < StartBase + Last
        BY <1>1, <3>2 DEF BlocksAgree
      <3>4. pos = StartBase + Last
        BY <1>1, <1>3, <3>1, Positions, NumberTypes
      <3>5. QED
        BY <3>3, <3>4
    <2>3. pos < Len(text) <=> ~(forward = Last \/ pos = Len(text))
      BY <2>2, PeekFacts, NumberTypes, FileTypes
    <2>4. QED
      BY <2>1, <2>3, PeekFacts
  <1>4. CASE forward_buffer_idx # start_buffer_idx
    <2>1. Limit = Len(text)
      BY <1>4, LimitAhead
    <2>2. forward = Last => Len(text) < pos
      <3>1. SUFFICES ASSUME forward = Last PROVE Len(text) < pos
        OBVIOUS
      <3>2. is_end /\ Ahead
        BY <1>1, <1>4, <3>1 DEF NotOnSentinel
      <3>3. Len(text) < StartBase + 2 * Last
        BY <1>1, <3>2 DEF BlocksAgree
      <3>4. pos - forward = StartBase + Last
        BY <1>1, <1>4, Positions
      <3>5. pos = StartBase + 2 * Last
        <4>1. pos = (StartBase + Last) + Last
          BY <3>1, <3>4, NumberTypes
        <4>2. (StartBase + Last) + Last = StartBase + 2 * Last
          BY NumberTypes
        <4>3. QED
          BY <4>1, <4>2
      <3>6. QED
        BY <3>3, <3>5
    <2>3. pos < Len(text) <=> ~(forward = Last \/ pos = Len(text))
      BY <2>2, PeekFacts, NumberTypes, FileTypes
    <2>4. QED
      BY <2>1, <2>3, PeekFacts
  <1>5. QED
    BY <1>2, <1>3, <1>4

(* ScanChar never returns a wrong character: what Peek shows is the        *)
(* character at forward_location up to Limit and kEOF from there on, for   *)
(* every buffer size, text and sequence of scans, rollbacks and lexemes.   *)
THEOREM PeekAlwaysExact == ScanSpec => []PeekIsNextChar
  <1>1. Init => TypeOK /\ RollbackInReach
    BY InitTypes
  <1>2. TypeOK /\ RollbackInReach /\ [Scan]_vars => TypeOK' /\ RollbackInReach'
    BY ReachInvariant DEF Next
  <1>3. ScanSpec => []TypeOK
    BY <1>1, <1>2, PTL DEF ScanSpec
  <1>4. QED
    BY <1>3, ScanInvariant, PeekExact, PTL

-----------------------------------------------------------------------------
(***************************************************************************)
(* The refinement: one pass implements Cursor.                             *)
(***************************************************************************)

(* A character scanned moves the cursor and leaves its limit alone. *)
LEMMA ScanCharMoves ==
  ASSUME TypeOK, ScanInv, TypeOK', ScanInv', ScanChar
  PROVE  /\ pos < Limit /\ pos' = pos + 1 /\ extent = pos - mark
         /\ UNCHANGED <<text, mark, Limit>>
         /\ \/ extent + 1 < kBufferSize /\ status' = "ok"
            \/ extent + 1 >= kBufferSize /\ status' = "threw"
  <1>1. status = "ok" /\ Peek # kEOF /\ extent' = extent + 1 /\ mark' = mark
    BY DEF ScanChar, mark
  <1>2. pos' = pos + 1
    BY AdvanceTypes DEF ScanChar, TypeOK, pos
  <1>3. PositionsAgree /\ BlocksAgree /\ NotOnSentinel
    BY <1>1 DEF ScanInv
  <1>4. pos < Limit /\ extent = pos - mark
    <2>1. pos < Limit
      BY <1>1, PeekExact DEF PeekIsNextChar
    <2>2. pos = mark + extent
      BY <1>3 DEF PositionsAgree
    <2>3. QED
      BY <2>1, <2>2, NumberTypes
  <1>5. forward < Last
    BY <1>1, PeekFacts, NumberTypes
  <1>6. ASSUME forward' = forward + 1, UNCHANGED <<forward_buffer_idx, blocks>>
        PROVE  UNCHANGED <<text, Limit>>
    <2>1. pos' - forward' = pos - forward
      BY <1>2, <1>6, NumberTypes
    <2>2. UNCHANGED <<text, is_end>> /\ (ReadAhead' <=> ReadAhead)
      BY <1>6 DEF blocks, text, ReadAhead
    <2>3. QED
      BY <2>1, <2>2 DEF Limit
  <1>7. CASE extent + 1 < kBufferSize /\ StepForward
    <2>1. status' = "ok"
      BY <1>1, <1>5, <1>7, NumberTypes DEF StepForward
    <2>2. CASE /\ HasNext /\ forward + 1 = Last
               /\ forward_buffer_idx' = 1 - forward_buffer_idx
               /\ LoadBuffer(1 - forward_buffer_idx, start_buffer_idx,
                             input_buffer, stream)
      <3>1. text' = text
        BY <2>2, IndexTypes, FileTypes, LoadTypes DEF TypeOK, text
      <3>2. forward_buffer_idx = start_buffer_idx
        <4>1. SUFFICES ASSUME forward_buffer_idx # start_buffer_idx PROVE FALSE
          OBVIOUS
        <4>2. forward + Last = begin + extent /\ begin < Last
          BY <1>3, <4>1 DEF PositionsAgree, NotOnSentinel
        <4>3. extent + 1 < Last + 1 /\ forward + 1 = Last
          BY <1>7, <2>2, LastPositive
        <4>4. QED
          BY <4>2, <4>3, NumberTypes
      <3>3. Limit = Len(text)
        BY <1>1, <2>2, <3>2, LimitHere DEF HasNext
      <3>4. forward_buffer_idx' # start_buffer_idx' /\ status' = "ok"
        BY <2>1, <2>2, <3>2, IndexTypes DEF ScanChar
      <3>5. Limit' = Len(text')
        <4>1. Ahead' /\ forward_buffer_idx' = 1 - start_buffer_idx'
              /\ start_buffer_idx' = 1 - forward_buffer_idx'
          <5>1. NotOnSentinel'
            BY <3>4 DEF ScanInv
          <5>2. start_buffer_idx' = start_buffer_idx
            BY DEF ScanChar
          <5>3. Ahead'
            BY <3>4, <5>1, Zenon DEF NotOnSentinel
          <5>4. /\ forward_buffer_idx' = 1 - start_buffer_idx'
                /\ start_buffer_idx' = 1 - forward_buffer_idx'
            BY <2>2, <3>2, <5>2, IndexTypes
          <5>5. QED
            BY <5>3, <5>4
        <4>2. buff_timestamp'[forward_buffer_idx']
                = NextStamp(buff_timestamp'[start_buffer_idx'])
              /\ buff_timestamp'[start_buffer_idx'] \in 0..2
          BY <4>1 DEF TypeOK, Ahead, IsNextStamp
        <4>3. ~ReadAhead'
          BY <4>1, <4>2, StampFacts DEF ReadAhead
        <4>4. QED
          BY <4>3 DEF Limit
      <3>6. QED
        BY <1>1, <1>2, <1>4, <1>7, <2>1, <3>1, <3>3, <3>5
    <2>3. CASE forward' = forward + 1 /\ UNCHANGED <<forward_buffer_idx, blocks>>
      BY <1>1, <1>2, <1>4, <1>6, <1>7, <2>1, <2>3
    <2>4. QED
      BY <1>5, <1>7, <2>2, <2>3, NumberTypes DEF StepForward
  <1>8. CASE /\ extent + 1 >= kBufferSize /\ forward' = forward + 1
             /\ status' = "threw" /\ UNCHANGED <<forward_buffer_idx, blocks>>
    BY <1>1, <1>2, <1>4, <1>6, <1>8
  <1>9. QED
    BY <1>7, <1>8 DEF ScanChar

(* Going back to the start of the lexeme may bring the limit down to the   *)
(* end of the start buffer, which is behind the mark and not behind pos.   *)
LEMMA ResetForwardMoves ==
  ASSUME TypeOK, ScanInv, ResetForward
  PROVE  /\ pos' = mark /\ UNCHANGED <<text, mark, status>> /\ status = "ok"
         /\ \/ Limit' = Limit
            \/ Limit = Len(text) /\ Limit' \in (mark + 1)..pos
  <1>1. /\ status = "ok" /\ pos' = mark /\ UNCHANGED <<text, mark, status, is_end>>
        /\ forward' = begin /\ (ReadAhead' <=> Ahead)
    BY DEF ResetForward, blocks, text, pos, mark, ReadAhead, Ahead
  <1>2. PositionsAgree /\ NotOnSentinel
    BY <1>1 DEF ScanInv
  <1>3. Limit' = IF is_end /\ Ahead THEN StartBase + Last ELSE Len(text)
    BY <1>1 DEF Limit, StartBase
  <1>4. CASE forward_buffer_idx = start_buffer_idx
    BY <1>1, <1>3, <1>4, LimitHere
  <1>5. CASE forward_buffer_idx # start_buffer_idx
    <2>1. Limit = Len(text) /\ begin < Last
      BY <1>1, <1>2, <1>5, LimitAhead DEF NotOnSentinel
    <2>2. pos - forward = StartBase + Last
      BY <1>2, <1>5, Positions
    <2>3. StartBase + Last \in (mark + 1)..pos
      BY <2>1, <2>2, NumberTypes
    <2>4. QED
      BY <1>1, <1>3, <2>1, <2>3
  <1>6. QED
    BY <1>4, <1>5

(* A constructed SourceFile is a cursor at the start of the text. *)
LEMMA RefinesInit == Init => AbstractCursor!Init
  <1> SUFFICES ASSUME Init PROVE AbstractCursor!Init
    OBVIOUS
  <1>1. TypeOK /\ ScanInv
    BY InitTypes, ScanInit
  <1>2. pos = 0 /\ mark = 0 /\ status = "ok"
    BY DEF Init, pos, mark, Begin
  <1>3. Limit = Len(text)
    BY DEF Init, Limit, ReadAhead, IsNextStamp, NextStamp
  <1>4. text \in Texts
    BY <1>1 DEF TypeOK, Stream, text
  <1>5. Peek = IF 0 < Len(text) THEN 0 ELSE kEOF
    BY <1>1, <1>2, <1>3, PeekExact DEF PeekIsNextChar
  <1>6. QED
    BY <1>2, <1>3, <1>4, <1>5 DEF AbstractCursor!Init, AbstractCursor!CharAt

(* Every step of one pass is a step of the cursor or a stutter. *)
LEMMA RefinesStep ==
  ASSUME TypeOK, ScanInv, TypeOK', ScanInv', [Scan]_vars
  PROVE  [AbstractCursor!Next]_AbstractCursor!vars
  <1>0. PeekIsNextChar /\ PeekIsNextChar'
    <2>1. PeekIsNextChar
      BY PeekExact
    <2>2. (TypeOK /\ ScanInv => PeekIsNextChar)'
      BY PeekExact, PTL
    <2>3. QED
      BY <2>1, <2>2
  <1>1. CASE ScanChar
    <2>1. status = "ok"
      BY <1>1 DEF ScanChar
    <2>2. CASE extent + 1 < kBufferSize /\ status' = "ok"
      <3>1. Peek' = IF pos + 1 < Limit THEN pos + 1 ELSE kEOF
        BY <1>0, <1>1, <2>2, ScanCharMoves DEF PeekIsNextChar
      <3>2. AbstractCursor!Advance
        BY <1>1, <2>1, <2>2, <3>1, ScanCharMoves
           DEF AbstractCursor!Advance, AbstractCursor!CharAt
      <3>3. QED
        BY <3>2 DEF AbstractCursor!Next
    <2>3. CASE extent + 1 >= kBufferSize /\ status' = "threw"
      <3>1. AbstractCursor!Refuse
        BY <1>1, <2>1, <2>3, ScanCharMoves DEF AbstractCursor!Refuse
      <3>2. QED
        BY <3>1 DEF AbstractCursor!Next
    <2>4. QED
      BY <1>1, <2>2, <2>3, ScanCharMoves
  <1>2. CASE NextLexeme
    <2>1. /\ status = "ok" /\ mark' = pos
          /\ UNCHANGED <<text, pos, Limit, status, Peek>>
      BY <1>2 DEF NextLexeme, blocks, text, pos, mark, Limit, ReadAhead, Peek
    <2>2. AbstractCursor!Mark
      BY <2>1 DEF AbstractCursor!Mark
    <2>3. QED
      BY <2>2 DEF AbstractCursor!Next
  <1>3. CASE ResetForward
    <2>1. status = "ok" /\ status' = "ok"
      BY <1>3, ResetForwardMoves
    <2>2. Peek' = IF mark < Limit' THEN mark ELSE kEOF
      BY <1>0, <1>3, <2>1, ResetForwardMoves DEF PeekIsNextChar
    <2>3. AbstractCursor!Rollback
      BY <1>3, <2>1, <2>2, ResetForwardMoves
         DEF AbstractCursor!Rollback, AbstractCursor!CharAt
    <2>4. QED
      BY <2>3 DEF AbstractCursor!Next
  <1>4. CASE UNCHANGED vars
    BY <1>4 DEF vars, cursor, blocks, AbstractCursor!vars, text, pos, mark,
                Limit, ReadAhead, Peek
  <1>5. QED
    BY <1>1, <1>2, <1>3, <1>4 DEF Scan

(* One pass over a file implements the cursor over a flat text, for every  *)
(* buffer size and text.                                                   *)
THEOREM ScanImplementsCursor == ScanSpec => ImplementsCursor
  <1>1. Init => TypeOK /\ RollbackInReach
    BY InitTypes
  <1>2. TypeOK /\ RollbackInReach /\ [Scan]_vars => TypeOK' /\ RollbackInReach'
    BY ReachInvariant DEF Next
  <1>3. ScanSpec => []TypeOK
    BY <1>1, <1>2, PTL DEF ScanSpec
  <1>4. QED
    BY <1>3, ScanInvariant, RefinesInit, RefinesStep, PTL
       DEF ScanSpec, ImplementsCursor, AbstractCursor!Spec

-----------------------------------------------------------------------------
(***************************************************************************)
(* Lines and columns.                                                      *)
(***************************************************************************)

(* The line ends before the character at offset p, of a text t *)
Breaks(t, p) == {i \in DOMAIN t : i <= p /\ t[i] = NewLine}

(* There are none of them, or one of them is the last one. *)
HasLast(breaks) == breaks = {} \/ \E i \in breaks : \A k \in breaks : k <= i
LastBreak(t, p) == HasLast(Breaks(t, p))

(* Where the line of the character at offset p starts *)
StartBehind(breaks) ==
  IF breaks = {} THEN 0 ELSE CHOOSE i \in breaks : \A k \in breaks : k <= i
LineStart(t, p) == StartBehind(Breaks(t, p))

(* The line of an offset starts at an offset. *)
LEMMA LineStartFacts ==
  ASSUME NEW t \in Seq(Chars), NEW p \in Nat, LastBreak(t, p)
  PROVE  /\ LineStart(t, p) \in Nat
         /\ Breaks(t, p) # {} =>
              /\ LineStart(t, p) \in Breaks(t, p)
              /\ \A k \in Breaks(t, p) : k <= LineStart(t, p)
  <1>1. DOMAIN t = 1..Len(t) /\ Len(t) \in Nat
    OBVIOUS
  <1>2. CASE Breaks(t, p) = {}
    BY <1>2 DEF LineStart, StartBehind
  <1>3. CASE Breaks(t, p) # {}
    <2>1. PICK i \in Breaks(t, p) : \A k \in Breaks(t, p) : k <= i
      BY <1>3 DEF LastBreak, HasLast
    <2>2. /\ LineStart(t, p) \in Breaks(t, p)
          /\ \A k \in Breaks(t, p) : k <= LineStart(t, p)
      BY <1>3, <2>1 DEF LineStart, StartBehind
    <2>3. Breaks(t, p) \subseteq Nat
      BY <1>1 DEF Breaks
    <2> QED
      BY <1>3, <2>2, <2>3
  <1> QED
    BY <1>2, <1>3

(* Only finitely many line ends are before an offset. *)
LEMMA FiniteBreaks ==
  ASSUME NEW t \in Seq(Chars), NEW p \in Nat
  PROVE  IsFiniteSet(Breaks(t, p))
  <1>1. Breaks(t, p) \subseteq 1..Len(t) /\ Len(t) \in Nat
    BY DEF Breaks
  <1>2. IsFiniteSet(1..Len(t))
    BY <1>1, FS_Interval
  <1> QED
    BY <1>1, <1>2, FS_Subset

(* Behind a line end one more line end is passed, and it is the last one.  *)
LEMMA BreakPassed ==
  ASSUME NEW t \in Seq(Chars), NEW p \in Nat, p < Len(t), t[p + 1] = NewLine
  PROVE  /\ Cardinality(Breaks(t, p + 1)) = Cardinality(Breaks(t, p)) + 1
         /\ LineStart(t, p + 1) = p + 1
         /\ LastBreak(t, p + 1)
  <1>1. DOMAIN t = 1..Len(t) /\ Len(t) \in Nat
    OBVIOUS
  <1>2. Breaks(t, p + 1) = Breaks(t, p) \cup {p + 1}
    BY <1>1 DEF Breaks
  <1>3. p + 1 \notin Breaks(t, p) /\ \A k \in Breaks(t, p + 1) : k \in Nat /\ k <= p + 1
    BY <1>1 DEF Breaks
  <1>4. Cardinality(Breaks(t, p + 1)) = Cardinality(Breaks(t, p)) + 1
    BY <1>2, <1>3, FiniteBreaks, FS_AddElement
  <1>5. LastBreak(t, p + 1)
    BY <1>2, <1>3 DEF LastBreak, HasLast
  <1>6. LineStart(t, p + 1) = p + 1
    <2>1. /\ LineStart(t, p + 1) \in Breaks(t, p + 1)
          /\ p + 1 <= LineStart(t, p + 1)
      <3>1. p + 1 \in Nat /\ p + 1 \in Breaks(t, p + 1)
        BY <1>2
      <3> QED
        BY <1>5, <3>1, LineStartFacts
    <2> QED
      BY <1>3, <2>1
  <1> QED
    BY <1>4, <1>5, <1>6

(* Behind any other character it is the same line. *)
LEMMA NoBreakPassed ==
  ASSUME NEW t \in Seq(Chars), NEW p \in Nat, p < Len(t), t[p + 1] # NewLine
  PROVE  Breaks(t, p + 1) = Breaks(t, p)
  <1>1. DOMAIN t = 1..Len(t) /\ Len(t) \in Nat
    OBVIOUS
  <1> QED
    BY <1>1 DEF Breaks

(* AdvanceLocation over the character at an offset gives the line and the  *)
(* column of the next offset.                                              *)
LEMMA LocationAdvances ==
  ASSUME NEW p \in Nat, p < Len(text), text \in Seq(Chars), LastBreak(text, p)
  PROVE  /\ AdvanceLocation(LocationOf(p), p) = LocationOf(p + 1)
         /\ LastBreak(text, p + 1)
  <1>1. LocationOf(p) = [line |-> Cardinality(Breaks(text, p)),
                         col |-> p - LineStart(text, p), pos |-> p]
    BY DEF LocationOf, Breaks, LineStart, StartBehind
  <1>2. LocationOf(p + 1) = [line |-> Cardinality(Breaks(text, p + 1)),
                             col |-> (p + 1) - LineStart(text, p + 1), pos |-> p + 1]
    BY DEF LocationOf, Breaks, LineStart, StartBehind
  <1>3. p \in 0..(Len(text) - 1) /\ LineStart(text, p) \in Nat
    BY LineStartFacts
  <1>4. CASE text[p + 1] = NewLine
    <2>1. IsNewLine(p)
      BY <1>3, <1>4 DEF IsNewLine
    <2>2. (p + 1) - LineStart(text, p + 1) = 0
      BY <1>4, BreakPassed
    <2> QED
      BY <1>1, <1>2, <1>4, <2>1, <2>2, BreakPassed DEF AdvanceLocation
  <1>5. CASE text[p + 1] # NewLine
    <2>1. ~IsNewLine(p)
      BY <1>5 DEF IsNewLine
    <2>2. Breaks(text, p + 1) = Breaks(text, p)
      BY <1>5, NoBreakPassed
    <2>3. LineStart(text, p + 1) = LineStart(text, p) /\ LastBreak(text, p + 1)
      BY <2>2 DEF LineStart, LastBreak
    <2>4. (p + 1) - LineStart(text, p) = (p - LineStart(text, p)) + 1
      BY <1>3
    <2> QED
      BY <1>1, <1>2, <2>1, <2>2, <2>3, <2>4 DEF AdvanceLocation
  <1> QED
    BY <1>4, <1>5

(* The locations of the two positions, and the line each of them is in *)
LocationInv ==
  status = "ok" =>
    /\ LocationExact
    /\ LastBreak(text, pos) /\ LastBreak(text, mark)

(* At line 0, column 0, where the constructor and every Reset start        *)
LEMMA LocationAtBegin ==
  ASSUME TypeOK, forward_location = Begin, start_location = Begin
  PROVE  LocationInv
  <1>2. pos = 0 /\ mark = 0
    BY DEF pos, mark, Begin
  <1>3. text \in Seq(Chars)
    BY TextAssumption DEF TypeOK, Stream, text
  <1>4. Breaks(text, 0) = {}
    BY <1>3 DEF Breaks
  <1>5. Cardinality(Breaks(text, 0)) = 0 /\ LineStart(text, 0) = 0
    BY <1>4, FS_EmptySet DEF LineStart, StartBehind
  <1>6. LocationOf(0) = [line |-> Cardinality(Breaks(text, 0)),
                         col |-> 0 - LineStart(text, 0), pos |-> 0]
    BY DEF LocationOf, Breaks, LineStart, StartBehind
  <1>7. LocationOf(0) = Begin
    BY <1>5, <1>6 DEF Begin
  <1> QED
    BY <1>2, <1>4, <1>7 DEF LocationInv, LocationExact, LastBreak, HasLast

(* Every operation of one pass keeps line and column right. *)
LEMMA LocationStep ==
  ASSUME TypeOK, ScanInv, TypeOK', ScanInv', LocationInv, [Scan]_vars
  PROVE  LocationInv'
  <1>1. text \in Seq(Chars)
    BY TextAssumption DEF TypeOK, Stream, text
  <1>2. CASE ScanChar
    <2>1. /\ status = "ok" /\ forward_location' = AdvanceLocation(forward_location, Peek)
          /\ start_location' = start_location /\ Peek # kEOF
      BY <1>2 DEF ScanChar
    <2>2. /\ pos < Len(text) /\ Peek = pos /\ pos \in Nat
      BY <2>1, PeekFacts, NumberTypes, FileTypes
    <2>3. text' = text /\ mark' = mark /\ pos' = pos + 1
      BY <1>2, ScanCharMoves
    <2>4. /\ forward_location = LocationOf(pos) /\ start_location = LocationOf(mark)
          /\ LastBreak(text, pos) /\ LastBreak(text, mark)
      BY <2>1 DEF LocationInv, LocationExact
    <2>5. forward_location' = LocationOf(pos + 1) /\ LastBreak(text, pos + 1)
      BY <1>1, <2>1, <2>2, <2>4, LocationAdvances
    <2>6. \A p : LocationOf(p)' = LocationOf(p)
      BY <2>3 DEF LocationOf
    <2> QED
      BY <2>1, <2>3, <2>4, <2>5, <2>6 DEF LocationInv, LocationExact
  <1>3. CASE NextLexeme \/ ResetForward \/ UNCHANGED vars
    <2>1. /\ text' = text /\ (status' = "ok" => status = "ok")
          /\ forward_location' \in {forward_location, start_location}
          /\ start_location' \in {forward_location, start_location}
      BY <1>3 DEF NextLexeme, ResetForward, vars, cursor, blocks, text
    <2>2. pos' \in {pos, mark} /\ mark' \in {pos, mark}
      BY <2>1 DEF pos, mark
    <2>3. ASSUME status' = "ok" PROVE LocationExact' /\ LastBreak(text, pos)
                                      /\ LastBreak(text, mark)
      <3>1. /\ forward_location = LocationOf(pos) /\ start_location = LocationOf(mark)
            /\ LastBreak(text, pos) /\ LastBreak(text, mark)
        BY <2>1, <2>3 DEF LocationInv, LocationExact
      <3>2. forward_location = LocationOf(forward_location.pos)
            /\ start_location = LocationOf(start_location.pos)
        BY <3>1 DEF pos, mark
      <3>3. forward_location' = LocationOf(forward_location'.pos)
            /\ start_location' = LocationOf(start_location'.pos)
        BY <2>1, <3>2
      <3>4. \A p : LocationOf(p)' = LocationOf(p)
        BY <2>1 DEF LocationOf
      <3> QED
        BY <3>1, <3>3, <3>4 DEF LocationExact, pos, mark
    <2> QED
      BY <2>1, <2>2, <2>3 DEF LocationInv
  <1> QED
    BY <1>2, <1>3 DEF Scan

(* Line and column are those of the offset, however often the reader goes  *)
(* back over line ends and block ends: for every text and buffer size.     *)
THEOREM LocationAlwaysExact == ScanSpec => []LocationExact
  <1>1. Init => TypeOK /\ RollbackInReach
    BY InitTypes
  <1>2. TypeOK /\ RollbackInReach /\ [Scan]_vars => TypeOK' /\ RollbackInReach'
    BY ReachInvariant DEF Next
  <1>3. ScanSpec => []TypeOK
    BY <1>1, <1>2, PTL DEF ScanSpec
  <1>4. LocationInv => LocationExact
    BY DEF LocationInv, LocationExact
  <1>5. Init => LocationInv
    BY InitTypes, LocationAtBegin DEF Init
  <1> QED
    BY <1>3, <1>4, <1>5, ScanInvariant, LocationStep, PTL DEF ScanSpec
=============================================================================
