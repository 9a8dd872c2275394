-------------------------- MODULE LexerHandlesProofs --------------------------
(***************************************************************************)
(* Several passes over several files, and the owners of the lexer: types   *)
(* and ownership, whatever is reset, opened and moved between the calls.   *)
(***************************************************************************)
EXTENDS LexerHandles, LexerResetProofs

(* HandleNext makes a step of the lexer, or leaves it alone.               *)
LEMMA HandleNextLexes == [HandleNext]_<<allVars, handleVars>> => [LexNextAll]_allVars
  BY DEF HandleNext, MoveHandle, MoveAssignParser, Use

(* What the handles do to the lexer are passes over files.                 *)
LEMMA HandlesMakePasses == HandleSpec => PassesSpec
  <1>1. HandleInit => LexInit
    BY DEF HandleInit
  <1> QED
    BY <1>1, HandleNextLexes, PTL DEF HandleSpec, PassesSpec

(* Whatever is moved, reset and opened between the calls, and whatever a   *)
(* call runs into: what the lexer keeps has its types, lexeme_buffer_ is   *)
(* not run over, and a call in which a CHECK failed is at its end.         *)
THEOREM HandlesKeepTypes == HandleSpec => []LexTypeOK
  BY HandlesMakePasses, PassesKeepTypes, TypesImply, PTL

(* Moves between the calls do no harm to the tokens either.                *)
THEOREM HandlesTellSmallFiles == HandleSpec => []SmallFilesTold
  BY HandlesMakePasses, SmallFilesAlwaysTold, PTL

(* Nor do they keep a Reset from yielding the same tokens again.           *)
THEOREM HandlesReplaySmallFiles == HandleSpec => []ResetReplays
  BY HandlesMakePasses, SmallFilesReplay, PTL

-----------------------------------------------------------------------------
(***************************************************************************)
(* The owners                                                              *)
(***************************************************************************)

(* h points to the Impl, and no other handle does. *)
Owns(h) == \A g \in Handles : pimpl[g] = "impl" <=> g = h

(* The Impl has one owner, until it is destroyed with it.                  *)
OwnerInv ==
  /\ pimpl \in [Handles -> {"impl", "null"}]
  /\ alive \in BOOLEAN
  /\ alive => \E h \in Handles : Owns(h)
  /\ ~alive => \A g \in Handles : pimpl[g] = "null"

(* Only a constructor makes an Impl, and it makes one. *)
LEMMA OwnerInit == HandleInit => OwnerInv
  <1> SUFFICES ASSUME NEW h \in Handles, alive = TRUE,
                      pimpl = [g \in Handles |-> IF g = h THEN "impl" ELSE "null"]
               PROVE  OwnerInv
    BY DEF HandleInit
  <1> QED
    BY DEF OwnerInv, Owns

(* Moves change the owner or destroy what is owned. *)
LEMMA OwnerMoves == ASSUME OwnerInv, MoveHandle PROVE OwnerInv'
  <1>1. ASSUME NEW h \in Handles, Destroy(h) PROVE OwnerInv'
    <2>1. pimpl' \in [Handles -> {"impl", "null"}] /\ alive' \in BOOLEAN
      BY <1>1 DEF Destroy, OwnerInv
    <2>2. \A g \in Handles : pimpl'[g] = IF g = h THEN "null" ELSE pimpl[g]
      BY <1>1 DEF Destroy, OwnerInv
    <2>3. CASE alive /\ pimpl[h] = "impl"
      BY <1>1, <2>1, <2>2, <2>3 DEF Destroy, OwnerInv, Owns
    <2>4. CASE ~(alive /\ pimpl[h] = "impl")
      <3>1. alive' = alive
        BY <1>1, <2>4 DEF Destroy, OwnerInv
      <3>2. alive => \E o \in Handles : Owns(o)'
        BY <2>2, <2>4 DEF OwnerInv, Owns
      <3> QED
        BY <2>1, <2>2, <3>1, <3>2 DEF OwnerInv
    <2> QED
      BY <2>3, <2>4
  <1>2. ASSUME NEW h \in Handles, NEW g \in Handles, MoveConstruct(h, g)
        PROVE  OwnerInv'
    <2>1. /\ pimpl' \in [Handles -> {"impl", "null"}] /\ alive' = alive
          /\ pimpl[h] = "null"
      BY <1>2 DEF MoveConstruct, OwnerInv
    <2>2. \A k \in Handles : pimpl'[k] = IF k = h THEN pimpl[g]
                                         ELSE IF k = g THEN "null" ELSE pimpl[k]
      BY <1>2 DEF MoveConstruct, OwnerInv
    <2>3. ASSUME NEW o \in Handles, Owns(o) PROVE Owns(IF o = g THEN h ELSE o)'
      BY <2>1, <2>2, <2>3 DEF Owns
    <2>4. alive => \E o \in Handles : Owns(o)'
      BY <2>3 DEF OwnerInv
    <2> QED
      BY <2>1, <2>2, <2>4 DEF OwnerInv
  <1>3. ASSUME NEW h \in Handles, NEW g \in Handles, MoveAssign(h, g)
        PROVE  OwnerInv'
    <2>1. /\ pimpl' \in [Handles -> {"impl", "null"}] /\ alive' \in BOOLEAN
          /\ alive' = (alive /\ ~(h # g /\ pimpl[h] = "impl"))
      BY <1>3 DEF MoveAssign, OwnerInv
    <2>2. \A k \in Handles : pimpl'[k] = IF k = h THEN pimpl[g]
                                         ELSE IF k = g THEN "null" ELSE pimpl[k]
      BY <1>3 DEF MoveAssign, OwnerInv
    <2>3. ASSUME alive', NEW o \in Handles, Owns(o)
          PROVE  Owns(IF o = g THEN h ELSE o)'
      BY <2>1, <2>2, <2>3 DEF Owns
    <2>4. alive' => \E o \in Handles : Owns(o)'
      BY <2>1, <2>3 DEF OwnerInv
    <2>5. ~alive' => \A k \in Handles : pimpl'[k] = "null"
      BY <2>1, <2>2 DEF OwnerInv, Owns
    <2> QED
      BY <2>1, <2>4, <2>5 DEF OwnerInv
  <1>4. ASSUME NEW h \in Handles, NEW g \in Handles, Swap(h, g)
        PROVE  OwnerInv'
    <2>1. pimpl' \in [Handles -> {"impl", "null"}] /\ alive' = alive
      BY <1>4 DEF Swap, OwnerInv
    <2>2. \A k \in Handles : pimpl'[k] = IF k = g THEN pimpl[h]
                                         ELSE IF k = h THEN pimpl[g] ELSE pimpl[k]
      BY <1>4 DEF Swap, OwnerInv
    <2>3. ASSUME NEW o \in Handles, Owns(o)
          PROVE  Owns(IF o = h THEN g ELSE IF o = g THEN h ELSE o)'
      BY <2>2, <2>3 DEF Owns
    <2>4. alive => \E o \in Handles : Owns(o)'
      BY <2>3 DEF OwnerInv
    <2> QED
      BY <2>1, <2>2, <2>4 DEF OwnerInv
  <1> QED
    BY <1>1, <1>2, <1>3, <1>4 DEF MoveHandle

(* No other step touches a pointer. *)
LEMMA OwnerStep == OwnerInv /\ [HandleNext]_<<allVars, handleVars>> => OwnerInv'
  <1> SUFFICES ASSUME OwnerInv, [HandleNext]_<<allVars, handleVars>> PROVE OwnerInv'
    OBVIOUS
  <1>1. MoveHandle \/ UNCHANGED <<pimpl, alive>>
    BY DEF HandleNext, MoveAssignParser, Use, handleVars
  <1> QED
    BY <1>1, OwnerMoves DEF OwnerInv, Owns

(* As many owners as there are Impls: the pointer is deleted once, and it  *)
(* is never deleted while another object points to the same Impl.          *)
THEOREM OneOwnerAlways == HandleSpec => []OneOwner
  <1>1. OwnerInv => OneOwner
    <2> SUFFICES ASSUME OwnerInv PROVE OneOwner
      OBVIOUS
    <2>1. CASE alive
      <3>1. PICK h \in Handles : Owns(h)
        BY <2>1 DEF OwnerInv
      <3>2. Holders = {h}
        BY <3>1 DEF Holders, Owns
      <3>3. Cardinality({h}) = 1
        BY FS_Singleton
      <3> QED
        BY <2>1, <3>2, <3>3 DEF OneOwner
    <2>2. CASE ~alive
      <3>1. Holders = {}
        BY <2>2 DEF OwnerInv, Holders
      <3> QED
        BY <2>2, <3>1, FS_EmptySet DEF OneOwner
    <2> QED
      BY <2>1, <2>2
  <1> QED
    BY <1>1, OwnerInit, OwnerStep, PTL DEF HandleSpec
=============================================================================
