---------------------------- MODULE MCSourceFile ----------------------------
(* Instances of SourceFile for TLC: blocks of three characters. *)
EXTENDS SourceFile

CONSTANT MaxLen  \* the longest text

(* Every text of up to MaxLen characters with line ends at every r-th      *)
(* character or nowhere.                                                   *)
MCTexts ==
  {[i \in 1..n |-> IF r > 0 /\ i % r = 0 THEN NewLine ELSE "c"] :
     n \in 0..MaxLen, r \in 0..3}

(* Memory that was never written: all zero, or characters. *)
MCMemories ==
  {[i \in 0..1 |-> [j \in 0..(kBufferSize - 1) |-> IF z[i] THEN kEOF ELSE Junk]] :
     z \in [0..1 -> BOOLEAN]}
=============================================================================
