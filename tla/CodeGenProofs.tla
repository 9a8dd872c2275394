---------------------------- MODULE CodeGenProofs ----------------------------
(***************************************************************************)
(* Proofs about code generation.  All are for any number of names,         *)
(* arguments and functions.                                                *)
(***************************************************************************)
EXTENDS CodeGen, TLAPS

(* A name has one function in the module, and one that was changed tells   *)
(* which: LLVM keeps it so, and the table of names rests on it.            *)
NamesUnique ==
  /\ \A f, g \in DOMAIN functions :
       functions[f].name = functions[g].name /\ functions[f].name # <<>> => f = g
  /\ \A f \in DOMAIN functions :
       functions[f].name \in ProtoNames \/ functions[f].name \in Names \X {f}

(* The inductive invariant.                                                *)
Inv == TypeOK /\ NamesUnique /\ NamesOfOneFunction /\ ReturnedLives

(* The names of a function's arguments are names, changed or not.          *)
LEMMA ArgNamesTyped ==
  ASSUME NEW args \in Lists(Names)
  PROVE  ArgNames(args) \in Seq(ItsNames)
<1>1. PICK k \in 0..MaxArgs : args \in [1..k -> Names]
  BY DEF Lists
<1>2. k \in Nat
  BY <1>1, BoundAssumption
<1>3. \A i \in 1..k : ArgNames(args)[i] \in ItsNames
  BY <1>1, <1>2 DEF ArgNames, ItsNames, ProtoNames
<1>4. ArgNames(args) \in [1..k -> ItsNames]
  BY <1>1, <1>3 DEF ArgNames
<1> QED
  BY <1>2, <1>4

(* A prototype has a name and argument names of its own.                   *)
LEMMA PrototypeTyped ==
  ASSUME NEW proto \in Prototypes
  PROVE  proto.name \in ProtoNames /\ proto.args \in Lists(Names)
<1>1. CASE proto = [name |-> <<>>, args |-> <<>>]
  <2>1. <<>> \in [1..0 -> Names]
    OBVIOUS
  <2>2. 0 \in 0..MaxArgs
    BY BoundAssumption
  <2>3. <<>> \in Lists(Names)
    BY <2>1, <2>2 DEF Lists
  <2> QED
    BY <1>1, <2>3 DEF ProtoNames
<1>2. CASE proto \in [name : {<<n>> : n \in Names}, args : Lists(Names)]
  BY <1>2 DEF ProtoNames
<1> QED
  BY <1>1, <1>2 DEF Prototypes

(* Function::Create adds one function, a declaration of the right type, and *)
(* leaves the others alone.                                                *)
LEMMA CreatedFacts ==
  ASSUME TypeOK, NEW proto \in Prototypes
  PROVE  /\ DOMAIN Created(proto) = DOMAIN functions \cup {made + 1}
         /\ made + 1 \notin DOMAIN functions
         /\ \A f \in DOMAIN functions : Created(proto)[f] = functions[f]
         /\ Created(proto)[made + 1] \in Function
         /\ Created(proto)[made + 1].body = "none"
         /\ Created(proto)[made + 1].name =
              IF Find(proto.name) = {} THEN proto.name ELSE <<proto.name[1], made + 1>>
<1> DEFINE new == [name |-> IF Find(proto.name) = {} THEN proto.name
                            ELSE <<proto.name[1], made + 1>>,
                   args |-> ArgNames(proto.args), body |-> "none"]
<1>1. made \in Nat /\ made + 1 \notin DOMAIN functions
  BY DEF TypeOK
<1>2. /\ DOMAIN Created(proto) = DOMAIN functions \cup {made + 1}
      /\ \A f \in DOMAIN functions : Created(proto)[f] = functions[f]
  BY <1>1 DEF Created
<1>3. Created(proto)[made + 1] = new
  BY <1>1 DEF Created
<1>4. new.name \in ItsNames
  <2>1. CASE Find(proto.name) = {}
    BY <2>1, PrototypeTyped DEF ItsNames
  <2>2. CASE Find(proto.name) # {}
    <3>1. proto.name # <<>>
      BY <2>2 DEF Find
    <3>2. PICK n \in Names : proto.name = <<n>>
      BY <3>1, PrototypeTyped DEF ProtoNames
    <3> QED
      BY <1>1, <2>2, <3>2 DEF ItsNames
  <2> QED
    BY <2>1, <2>2
<1>5. new \in Function
  BY <1>4, PrototypeTyped, ArgNamesTyped DEF Function
<1> HIDE DEF new
<1> QED
  BY <1>1, <1>2, <1>3, <1>5 DEF new

(* The module with a new function is one whose names are unique.           *)
LEMMA CreatedUnique ==
  ASSUME TypeOK, NamesUnique, NEW proto \in Prototypes,
         NEW f \in DOMAIN Created(proto), NEW g \in DOMAIN Created(proto)
  PROVE  /\ Created(proto)[f].name = Created(proto)[g].name
            /\ Created(proto)[f].name # <<>> => f = g
         /\ Created(proto)[f].name \in ProtoNames \cup (Names \X {f})
<1> DEFINE new == Created(proto)[made + 1].name
<1>1. new = IF Find(proto.name) = {} THEN proto.name ELSE <<proto.name[1], made + 1>>
  BY CreatedFacts
<1>2. made \in Nat /\ DOMAIN functions \subseteq 1..made
  BY DEF TypeOK
<1>5. /\ DOMAIN Created(proto) = DOMAIN functions \cup {made + 1}
      /\ \A h \in DOMAIN functions : Created(proto)[h].name = functions[h].name
  BY CreatedFacts
<1>6. \A h \in DOMAIN functions : functions[h].name \in ProtoNames \cup (Names \X {h})
  BY DEF NamesUnique
<1>7. \A h, k \in DOMAIN functions :
        functions[h].name = functions[k].name /\ functions[h].name # <<>> => h = k
  BY DEF NamesUnique
<1>3. CASE Find(proto.name) = {}
  <2>1. new \in ProtoNames
    BY <1>1, <1>3, PrototypeTyped
  <2>2. \A h \in DOMAIN functions : functions[h].name = new => new = <<>>
    BY <1>1, <1>3 DEF Find
  <2>3. Created(proto)[made + 1].name = new
    OBVIOUS
  <2> HIDE DEF new
  <2> QED
    BY <1>5, <1>6, <1>7, <2>1, <2>2, <2>3
<1>4. CASE Find(proto.name) # {}
  <2>1. PICK n \in Names : proto.name = <<n>>
    BY <1>4, PrototypeTyped DEF Find, ProtoNames
  <2>2. new = <<n, made + 1>>
    BY <1>1, <1>4, <2>1
  <2>3. \A h \in DOMAIN functions : functions[h].name # new
    <3>1. SUFFICES ASSUME NEW h \in DOMAIN functions PROVE functions[h].name # new
      OBVIOUS
    <3>2. h # made + 1
      BY <1>2
    <3>3. CASE functions[h].name \in ProtoNames
      <4>1. \A x \in ProtoNames : x # <<n, made + 1>>
        <5>1. <<>> # <<n, made + 1>>
          OBVIOUS
        <5>2. \A m : <<m>> # <<n, made + 1>>
          <6>1. \A m : Len(<<m>>) = 1
            OBVIOUS
          <6>2. Len(<<n, made + 1>>) = 2
            OBVIOUS
          <6> QED
            BY <6>1, <6>2
        <5> QED
          BY <5>1, <5>2 DEF ProtoNames
      <4> QED
        BY <2>2, <3>3, <4>1
    <3>4. CASE functions[h].name \in Names \X {h}
      <4>1. PICK m \in Names : functions[h].name = <<m, h>>
        BY <3>4
      <4>2. <<m, h>> # <<n, made + 1>>
        BY <3>2
      <4> QED
        BY <2>2, <4>1, <4>2
    <3> QED
      BY <1>6, <3>3, <3>4
  <2>4. new \in Names \X {made + 1}
    BY <2>2
  <2>5. Created(proto)[made + 1].name = new
    OBVIOUS
  <2> HIDE DEF new
  <2> QED
    BY <1>5, <1>6, <1>7, <2>3, <2>4, <2>5
<1> QED
  BY <1>3, <1>4

(* Initially the module is empty.                                          *)
LEMMA InitInv == Init => Inv
BY DEF Init, Inv, TypeOK, NamesUnique, NamesOfOneFunction, ReturnedLives,
       Null, Value, Values, ItsNames, ProtoNames

(* What the visits return is typed.                                        *)
LEMMA ValuesTyped ==
  ASSUME NEW x \in ItsNames, NEW id \in Nat
  PROVE  /\ {Null, Constant, Instruction, FunctionAt(id), Argument(id, x)} \subseteq Values
         /\ Null.kind # "function" /\ Constant.kind # "function"
         /\ Instruction.kind # "function" /\ Argument(id, x).kind # "function"
         /\ FunctionAt(id).fn = id
BY DEF Null, Constant, Instruction, FunctionAt, Argument, Value, Values, ItsNames, ProtoNames

(* The visit of a number changes nothing.                                  *)
LEMMA NumberInv == ASSUME Inv, VisitNumber PROVE Inv'
<1>1. <<>> \in ItsNames
  BY DEF ItsNames, ProtoNames
<1> QED
  BY <1>1, ValuesTyped DEF Inv, VisitNumber, Return, TypeOK, NamesUnique,
     NamesOfOneFunction, ReturnedLives, symbols, Find

(* A variable that is not known gets a null pointer.                       *)
LEMMA VariableInv == ASSUME Inv, NEW x \in Names, VisitVariable(x) PROVE Inv'
<1>1. <<x>> \in ItsNames
  BY DEF ItsNames, ProtoNames
<1>2. UNCHANGED <<functions, made, insert_point, called, status>>
  BY DEF VisitVariable, symbols
<1>3. /\ DOMAIN named_values' = DOMAIN named_values \cup {<<x>>}
      /\ \A y \in DOMAIN named_values' :
           named_values'[y] = IF y \in DOMAIN named_values THEN named_values[y] ELSE Null
      /\ returned' = named_values'[<<x>>]
  BY DEF VisitVariable, Return
<1>4. \A y \in DOMAIN named_values' : named_values'[y] \in {Null, Argument(insert_point, y)}
  BY <1>3 DEF Inv, NamesOfOneFunction
<1>5. DOMAIN named_values' \subseteq ItsNames
  BY <1>1, <1>3 DEF Inv, TypeOK
<1>6. insert_point \in Nat
  BY DEF Inv, TypeOK
<1>7. \A y \in DOMAIN named_values' :
        named_values'[y] \in Values /\ named_values'[y].kind # "function"
  BY <1>4, <1>5, <1>6, ValuesTyped
<1>8. returned' \in Values /\ returned'.kind # "function"
  BY <1>3, <1>7
<1>9. TypeOK'
  BY <1>2, <1>5, <1>7, <1>8 DEF Inv, TypeOK
<1> QED
  BY <1>2, <1>4, <1>8, <1>9 DEF Inv, NamesUnique,
     NamesOfOneFunction, ReturnedLives

(* An operator, too, may follow builder_ to where nothing is.              *)
LEMMA BinaryInv ==
  ASSUME Inv, NEW op, NEW lhs, NEW rhs, VisitBinary(op, lhs, rhs) PROVE Inv'
<1>1. <<>> \in ItsNames
  BY DEF ItsNames, ProtoNames
<1>2. UNCHANGED <<functions, made, named_values, insert_point, called>>
  BY DEF VisitBinary, symbols
<1>3. returned' \in {Null, Constant, Instruction} /\ status' \in {status, "ok", "undefined"}
  BY DEF VisitBinary, BinaryValue, Inserting, Return
<1> QED
  BY <1>1, <1>2, <1>3, ValuesTyped DEF Inv, TypeOK, NamesUnique,
     NamesOfOneFunction, ReturnedLives

(* A call may follow builder_ to where nothing is.                         *)
LEMMA CallInv ==
  ASSUME Inv, NEW x, NEW args, VisitCall(x, args) PROVE Inv'
<1>1. <<>> \in ItsNames
  BY DEF ItsNames, ProtoNames
<1>2. UNCHANGED <<functions, made, named_values, insert_point>>
  BY DEF VisitCall, symbols
<1>3. CASE \E f \in Find(<<x>>) : CreateCall(f)
  <2>1. /\ called' \subseteq called \cup DOMAIN functions
        /\ status' \in {"ok", "undefined"}
        /\ returned' = Instruction
    BY <1>3 DEF CreateCall, Inserting, Return, Find
  <2> QED
    BY <1>1, <1>2, <2>1, ValuesTyped DEF Inv, TypeOK, NamesUnique,
       NamesOfOneFunction, ReturnedLives
<1>4. CASE returned' = Null /\ UNCHANGED <<called, status>>
  BY <1>1, <1>2, <1>4, ValuesTyped DEF Inv, TypeOK, NamesUnique,
     NamesOfOneFunction, ReturnedLives
<1> QED
  BY <1>3, <1>4 DEF VisitCall, Return

(* A prototype adds a declaration.                                         *)
LEMMA ProtoTypeInv ==
  ASSUME Inv, NEW proto \in Prototypes, VisitProtoType(proto) PROVE Inv'
<1>1. <<>> \in ItsNames
  BY DEF ItsNames, ProtoNames
<1>2. /\ functions' = Created(proto)
      /\ made' = made + 1
      /\ returned' = FunctionAt(made + 1)
      /\ UNCHANGED <<named_values, insert_point, called, status>>
  BY DEF VisitProtoType, Return
<1>3. TypeOK /\ NamesUnique
  BY DEF Inv
<1>4. made \in Nat
  BY <1>3 DEF TypeOK
<1>5. \A f \in DOMAIN functions' : functions'[f] \in Function
  BY <1>2, <1>3, CreatedFacts DEF TypeOK
<1>12. DOMAIN functions' = DOMAIN functions \cup {made + 1}
  BY <1>2, <1>3, CreatedFacts
<1>13. /\ made + 1 \in Nat
       /\ returned' \in Values
       /\ returned'.fn = made + 1
  BY <1>1, <1>2, <1>4, ValuesTyped
<1>6. TypeOK'
  BY <1>2, <1>3, <1>4, <1>5, <1>12, <1>13 DEF TypeOK
<1>7. NamesUnique'
  BY <1>2, <1>3, CreatedUnique DEF NamesUnique
<1>10. NamesOfOneFunction'
  BY <1>2 DEF Inv, NamesOfOneFunction
<1>11. ReturnedLives'
  BY <1>12, <1>13 DEF ReturnedLives
<1> QED
  BY <1>6, <1>7, <1>10, <1>11 DEF Inv

(* The function stays with its body, or is removed; in either case         *)
(* builder_ and named_values are left at it.                               *)
LEMMA DefineInv ==
  ASSUME NEW fs, NEW id \in DOMAIN fs, NEW body, Define(fs, id, body),
         called \subseteq 1..made, status \in {"ok", "undefined"},
         made' \in Nat, made' >= made, made \in Nat, DOMAIN fs \subseteq 1..made',
         \A f \in DOMAIN fs : fs[f] \in Function,
         \A f, g \in DOMAIN fs : fs[f].name = fs[g].name /\ fs[f].name # <<>> => f = g,
         \A f \in DOMAIN fs : fs[f].name \in ProtoNames \cup (Names \X {f})
  PROVE  Inv'
<1>1. <<>> \in ItsNames
  BY DEF ItsNames, ProtoNames
<1>2. /\ insert_point' = id
      /\ named_values' = [x \in {fs[id].args[i] : i \in DOMAIN fs[id].args} |-> Argument(id, x)]
      /\ called' = called
  BY DEF Define
<1>3. /\ DOMAIN functions' \subseteq DOMAIN fs
      /\ \A f \in DOMAIN functions' :
           functions'[f] \in Function /\ functions'[f].name = fs[f].name
      /\ status' \in {"ok", "undefined"}
      /\ returned' = Null \/ (returned' = FunctionAt(id) /\ id \in DOMAIN functions')
  <2>1. CASE VisitExpr(body) # Null
    <3>1. functions' = [fs EXCEPT ![id].body = "done"] /\ returned' = FunctionAt(id)
          /\ status' = status
      BY <2>1 DEF Define, Return
    <3>2. DOMAIN functions' = DOMAIN fs
      BY <3>1
    <3>3. functions'[id] = [fs[id] EXCEPT !.body = "done"]
          /\ \A f \in DOMAIN fs \ {id} : functions'[f] = fs[f]
      BY <3>1
    <3>4. functions'[id] \in Function /\ functions'[id].name = fs[id].name
      BY <3>3 DEF Function
    <3> QED
      BY <3>1, <3>2, <3>3, <3>4
  <2>2. CASE VisitExpr(body) = Null
    <3>1. returned' = Null /\ Erase(fs, id)
      BY <2>2 DEF Define, Return
    <3>2. functions' = [f \in DOMAIN fs \ {id} |-> fs[f]]
      BY <3>1 DEF Erase
    <3>3. DOMAIN functions' = DOMAIN fs \ {id}
          /\ \A f \in DOMAIN fs \ {id} : functions'[f] = fs[f]
      BY <3>2
    <3>4. status' \in {"ok", "undefined"}
      BY <3>1 DEF Erase
    <3> QED
      BY <3>1, <3>3, <3>4
  <2> QED
    BY <2>1, <2>2
<1>4. \A i \in DOMAIN fs[id].args : fs[id].args[i] \in ItsNames
  BY DEF Function
<1>5. /\ DOMAIN named_values' \subseteq ItsNames
      /\ \A x \in DOMAIN named_values' : named_values'[x] = Argument(id, x)
  BY <1>2, <1>4
<1>6. id \in Nat
  OBVIOUS
<1>7. {Null, FunctionAt(id)} \subseteq Values /\ \A x \in ItsNames : Argument(id, x) \in Values
  BY <1>1, <1>6, ValuesTyped
<1>8. TypeOK'
  BY <1>2, <1>3, <1>5, <1>7 DEF TypeOK
<1>9. NamesUnique'
  BY <1>3 DEF NamesUnique
<1>10. NamesOfOneFunction'
  BY <1>2, <1>5 DEF NamesOfOneFunction
<1>11. ReturnedLives'
  BY <1>1, <1>3, <1>6, ValuesTyped DEF ReturnedLives
<1> QED
  BY <1>8, <1>9, <1>10, <1>11 DEF Inv

(* A definition of an unknown name.                                        *)
LEMMA FunctionInv ==
  ASSUME Inv, NEW proto \in Prototypes, NEW body, VisitFunction(proto, body) PROVE Inv'
<1>1. TypeOK /\ NamesUnique
  BY DEF Inv
<1>2. Define(Created(proto), made + 1, body) /\ made' = made + 1
  BY DEF VisitFunction
<1>3. \A f \in DOMAIN Created(proto) : Created(proto)[f] \in Function
  BY <1>1, CreatedFacts DEF TypeOK
<1>8. DOMAIN Created(proto) = DOMAIN functions \cup {made + 1}
  BY <1>1, CreatedFacts
<1>4. made \in Nat /\ DOMAIN Created(proto) \subseteq 1..(made + 1)
  BY <1>1, <1>8 DEF TypeOK
<1>5. made + 1 \in DOMAIN Created(proto)
  BY <1>1, CreatedFacts
<1>6. called \subseteq 1..made /\ status \in {"ok", "undefined"}
  BY <1>1 DEF TypeOK
<1>7. made' \in Nat /\ made' >= made /\ DOMAIN Created(proto) \subseteq 1..made'
  BY <1>2, <1>4
<1> QED
  BY <1>1, <1>2, <1>3, <1>4, <1>5, <1>6, <1>7, CreatedUnique, DefineInv

(* A definition of a declared name, or of one that is defined already.     *)
LEMMA DeclaredInv ==
  ASSUME Inv, NEW proto \in Prototypes, NEW body, VisitDeclared(proto, body) PROVE Inv'
<1>1. TypeOK /\ NamesUnique
  BY DEF Inv
<1>2. made' = made /\ made \in Nat
  BY <1>1 DEF VisitDeclared, TypeOK
<1>3. CASE \E f \in Find(proto.name) : Define(functions, f, body)
  <2>1. PICK f \in Find(proto.name) : Define(functions, f, body)
    BY <1>3
  <2>2. f \in DOMAIN functions
    BY DEF Find
  <2>3. made' >= made
    BY <1>2
  <2> QED
    BY <1>1, <1>2, <2>1, <2>2, <2>3, DefineInv DEF TypeOK, NamesUnique
<1>4. CASE Return(Null) /\ UNCHANGED <<functions, named_values, insert_point, called, status>>
  <2>1. <<>> \in ItsNames
    BY DEF ItsNames, ProtoNames
  <2> QED
    BY <1>1, <1>2, <1>4, <2>1, ValuesTyped DEF Inv, Return, TypeOK, NamesUnique,
       NamesOfOneFunction, ReturnedLives
<1> QED
  BY <1>3, <1>4 DEF VisitDeclared

(* Every visit keeps the invariant.                                        *)
LEMMA NextInv == Inv /\ [Next]_vars => Inv'
<1> SUFFICES ASSUME Inv, [Next]_vars PROVE Inv'
  OBVIOUS
<1>1. CASE VisitExpression
  BY <1>1, NumberInv, VariableInv, BinaryInv, CallInv DEF VisitExpression
<1>2. CASE \E proto \in Prototypes : VisitProtoType(proto)
  BY <1>2, ProtoTypeInv
<1>3. CASE \E proto \in Prototypes, body \in Exprs :
             VisitFunction(proto, body) \/ VisitDeclared(proto, body)
  BY <1>3, FunctionInv, DeclaredInv
<1>4. CASE UNCHANGED vars
  BY <1>4 DEF vars, symbols, Inv, TypeOK, NamesUnique,
     NamesOfOneFunction, ReturnedLives
<1> QED
  BY <1>1, <1>2, <1>3, <1>4 DEF Next

(* The invariant of code generation: the three properties below rest on     *)
(* each other only through the types and the unique names.                 *)
THEOREM CodeGenInvariant == Spec => []Inv
BY InitInv, NextInv, PTL DEF Spec

(* The types of module, map, builder and values, under every order of      *)
(* visits.                                                                 *)
THEOREM CodeGenTypes == Spec => []TypeOK
<1>1. Inv => TypeOK
  BY DEF Inv
<1> QED
  BY <1>1, CodeGenInvariant, PTL

(* The names in reach are the arguments of one function.                   *)
THEOREM OneScope == Spec => []NamesOfOneFunction
<1>1. Inv => NamesOfOneFunction
  BY DEF Inv
<1> QED
  BY <1>1, CodeGenInvariant, PTL

(* A function that a visit returned is in the module until the next visit. *)
THEOREM ReturnsLiving == Spec => []ReturnedLives
<1>1. Inv => ReturnedLives
  BY DEF Inv
<1> QED
  BY <1>1, CodeGenInvariant, PTL

-----------------------------------------------------------------------------
(* The table that the module is *)
T == [n \in Known |-> Meaning(n)]

(* What a known name means is a function of that name.                     *)
LEMMA MeaningFound ==
  ASSUME NEW n \in Known
  PROVE  /\ T[n] = Meaning(n)
         /\ Meaning(n).function \in Find(<<n>>)
         /\ Meaning(n).args = functions[Meaning(n).function].args
BY DEF T, Known, Meaning

(* A name whose function stays in the module as it is means the same.      *)
LEMMA MeaningKept ==
  ASSUME NEW n \in Known, Find(<<n>>)' = Find(<<n>>),
         \A f \in Find(<<n>>) : functions'[f].args = functions[f].args
  PROVE  n \in Known' /\ Meaning(n)' = Meaning(n)
<1> DEFINE F == Find(<<n>>)
           f == CHOOSE g \in F : TRUE
<1>1. F # {} /\ n \in Names
  BY DEF Known
<1>2. f \in F
  BY <1>1
<1>3. f' = f
  OBVIOUS
<1>4. n \in Known'
  BY <1>1 DEF Known
<1>5. Meaning(n) = [function |-> f, args |-> functions[f].args]
  BY DEF Meaning
<1>6. Meaning(n)' = [function |-> f', args |-> functions'[f'].args]
  BY DEF Meaning
<1> HIDE DEF f
<1> QED
  BY <1>2, <1>3, <1>4, <1>5, <1>6

(* If that is so of every name but one, the others stay as they are.       *)
LEMMA OthersKept ==
  ASSUME NEW m,
         \A n \in Names \ {m} : Find(<<n>>)' = Find(<<n>>),
         \A n \in Names \ {m} : \A f \in Find(<<n>>) : functions'[f].args = functions[f].args,
         m \notin Known \/ m \notin Known'
  PROVE  /\ Table!Kept
         /\ DOMAIN T = Known /\ DOMAIN T' = Known'
         /\ Known \ {m} = Known' \ {m}
         /\ \A n \in Known' : T'[n] = Meaning(n)'
<1>1. \A n \in Names \ {m} : n \in Known <=> n \in Known'
  BY DEF Known
<1>2. \A n \in Known \ {m} : Meaning(n)' = Meaning(n)
  <2>1. SUFFICES ASSUME NEW n \in Known \ {m} PROVE Meaning(n)' = Meaning(n)
    OBVIOUS
  <2>2. n \in Names \ {m}
    BY DEF Known
  <2> QED
    BY <2>2, MeaningKept
<1>3. Known \subseteq Names /\ Known' \subseteq Names
  BY DEF Known
<1>4. DOMAIN T = Known /\ \A n \in Known : T[n] = Meaning(n)
  BY DEF T
<1>5. DOMAIN T' = Known' /\ \A n \in Known' : T'[n] = Meaning(n)'
  BY DEF T
<1>6. \A n \in DOMAIN T \cap DOMAIN T' : T'[n] = T[n]
  <2>1. \A n \in DOMAIN T \cap DOMAIN T' : n # m
    BY <1>4, <1>5
  <2> QED
    BY <1>2, <1>4, <1>5, <2>1
<1> QED
  BY <1>1, <1>3, <1>4, <1>5, <1>6 DEF Table!Kept, T

(* If it is so of every name, the table does not change.                   *)
LEMMA TableKept ==
  ASSUME \A n \in Names : Find(<<n>>)' = Find(<<n>>),
         \A n \in Names : \A f \in Find(<<n>>) : functions'[f].args = functions[f].args
  PROVE  T' = T
<1>1. Known' = Known
  BY DEF Known
<1>2. \A n \in Known : Meaning(n)' = Meaning(n)
  <2>1. SUFFICES ASSUME NEW n \in Known PROVE Meaning(n)' = Meaning(n)
    OBVIOUS
  <2>2. n \in Names
    BY DEF Known
  <2> QED
    BY <2>2, MeaningKept
<1> QED
  BY <1>1, <1>2 DEF T

(* A new function of an unknown name declares it; of a known one, or of    *)
(* none, it changes nothing.                                               *)
LEMMA CreatedTable ==
  ASSUME Inv, NEW proto \in Prototypes,
         DOMAIN functions' = DOMAIN Created(proto),
         \A f \in DOMAIN Created(proto) :
           /\ functions'[f].name = Created(proto)[f].name
           /\ functions'[f].args = Created(proto)[f].args,
         insert_point' \in {insert_point, made + 1}
  PROVE  T' = T \/ \E n \in Names : Table!Declare(n)
<1> DEFINE new == Created(proto)[made + 1].name
<1>1. new = IF Find(proto.name) = {} THEN proto.name ELSE <<proto.name[1], made + 1>>
  BY CreatedFacts DEF Inv
<1>2. /\ DOMAIN functions' = DOMAIN functions \cup {made + 1}
      /\ made + 1 \notin DOMAIN functions
      /\ \A f \in DOMAIN functions :
           functions'[f].name = functions[f].name /\ functions'[f].args = functions[f].args
      /\ functions'[made + 1].name = new
  BY CreatedFacts DEF Inv
<1> HIDE DEF new
<1>3. \A n \in Names : <<n>> # new => Find(<<n>>)' = Find(<<n>>)
  BY <1>2 DEF Find
<1>4. \A n \in Names : \A f \in Find(<<n>>) : functions'[f].args = functions[f].args
  BY <1>2 DEF Find
<1>5. CASE \A n \in Names : <<n>> # new
  BY <1>3, <1>4, <1>5, TableKept
<1>6. CASE \E m \in Names : <<m>> = new
  <2>1. PICK m \in Names : <<m>> = new
    BY <1>6
  <2>2. \A n \in Names \ {m} : <<n>> # new
    BY <2>1
  <2>3. Find(<<m>>) = {}
    BY <1>1, <2>1
  <2>4. Find(<<m>>)' = {made + 1}
    BY <1>2, <2>1, <2>3 DEF Find
  <2>5. m \notin Known /\ m \in Known'
    BY <2>3, <2>4 DEF Known
  <2>6. /\ Table!Kept
        /\ DOMAIN T = Known /\ DOMAIN T' = Known'
        /\ Known \ {m} = Known' \ {m}
        /\ T'[m] = Meaning(m)'
    BY <1>3, <1>4, <2>2, <2>5, OthersKept
  <2>7. Meaning(m)'.function = made + 1
    BY <2>4 DEF Meaning
  <2> QED
    BY <2>5, <2>6, <2>7 DEF Table!Declare, T
<1> QED
  BY <1>5, <1>6

(* A definition of an unknown name makes its function, and removes it if   *)
(* it fails.                                                               *)
LEMMA FunctionTable ==
  ASSUME Inv, NEW proto \in Prototypes, NEW body, VisitFunction(proto, body)
  PROVE  Table!DefineOther \/ \E n \in Names : Table!Declare(n)
<1>1. insert_point' = made + 1
  BY DEF VisitFunction, Define
<1>2. /\ DOMAIN Created(proto) = DOMAIN functions \cup {made + 1}
      /\ made + 1 \notin DOMAIN functions
      /\ \A f \in DOMAIN functions : Created(proto)[f] = functions[f]
  BY CreatedFacts DEF Inv
<1>3. \A n \in DOMAIN T : made + 1 # T[n].function
  <2>1. SUFFICES ASSUME NEW n \in Known PROVE made + 1 # T[n].function
    BY DEF T
  <2> QED
    BY <1>2, MeaningFound DEF Find
<1>4. CASE VisitExpr(body) # Null
  <2>1. functions' = [Created(proto) EXCEPT ![made + 1].body = "done"]
    BY <1>4 DEF VisitFunction, Define
  <2>2. /\ DOMAIN functions' = DOMAIN Created(proto)
        /\ functions'[made + 1] = [Created(proto)[made + 1] EXCEPT !.body = "done"]
        /\ \A f \in DOMAIN functions : functions'[f] = Created(proto)[f]
    BY <1>2, <2>1
  <2>3. Created(proto)[made + 1] \in Function
    BY CreatedFacts DEF Inv
  <2>4. \A f \in DOMAIN Created(proto) :
          /\ functions'[f].name = Created(proto)[f].name
          /\ functions'[f].args = Created(proto)[f].args
    BY <1>2, <2>2, <2>3 DEF Function
  <2> QED
    BY <1>1, <1>3, <2>2, <2>4, CreatedTable DEF Table!DefineOther, T
<1>5. CASE VisitExpr(body) = Null
  <2>1. functions' = [f \in DOMAIN Created(proto) \ {made + 1} |-> Created(proto)[f]]
    BY <1>5 DEF VisitFunction, Define, Erase
  <2>2. DOMAIN functions' = DOMAIN functions /\ \A f \in DOMAIN functions : functions'[f] = functions[f]
    BY <1>2, <2>1
  <2>3. \A n \in Names : Find(<<n>>)' = Find(<<n>>)
    BY <2>2 DEF Find
  <2>4. \A n \in Names : \A f \in Find(<<n>>) : functions'[f].args = functions[f].args
    BY <2>2 DEF Find
  <2>5. T' = T
    BY <2>3, <2>4, TableKept
  <2> QED
    BY <1>1, <1>3, <2>5 DEF Table!DefineOther, T
<1> QED
  BY <1>4, <1>5

(* A definition of a declared name makes it unknown if it fails, and that  *)
(* name only.                                                              *)
LEMMA DeclaredTable ==
  ASSUME Inv, NEW proto \in Prototypes, NEW body, VisitDeclared(proto, body)
  PROVE  (T' = T /\ UNCHANGED insert_point) \/ \E n \in Names : Table!Define(n)
<1>1. CASE UNCHANGED <<functions, insert_point>>
  <2>1. \A n \in Names : Find(<<n>>)' = Find(<<n>>)
    BY <1>1 DEF Find
  <2> QED
    BY <1>1, <2>1, TableKept
<1>2. CASE \E id \in Find(proto.name) : Define(functions, id, body)
  <2>1. PICK id \in Find(proto.name) : Define(functions, id, body)
    BY <1>2
  <2>2. id \in DOMAIN functions /\ functions[id].name = proto.name /\ proto.name # <<>>
    BY DEF Find
  <2>3. PICK m \in Names : proto.name = <<m>>
    BY <2>2, PrototypeTyped DEF ProtoNames
  <2>4. \A f \in DOMAIN functions : functions[f].name = <<m>> => f = id
    BY <2>2, <2>3 DEF Inv, NamesUnique
  <2>5. m \in Known /\ insert_point' = id
    BY <2>1, <2>2, <2>3 DEF Known, Find, Define
  <2>6. T[m].function = id /\ DOMAIN T = Known
    BY <2>4, <2>5, MeaningFound DEF Find, T
  <2>7. CASE VisitExpr(body) # Null
    <3>1. functions' = [functions EXCEPT ![id].body = "done"]
      BY <2>1, <2>7 DEF Define
    <3>2. /\ DOMAIN functions' = DOMAIN functions
          /\ functions'[id] = [functions[id] EXCEPT !.body = "done"]
          /\ \A f \in DOMAIN functions \ {id} : functions'[f] = functions[f]
      BY <2>2, <3>1
    <3>3. functions[id] \in Function
      BY <2>2 DEF Inv, TypeOK
    <3>4. \A f \in DOMAIN functions :
            functions'[f].name = functions[f].name /\ functions'[f].args = functions[f].args
      BY <3>2, <3>3 DEF Function
    <3>5. \A n \in Names : Find(<<n>>)' = Find(<<n>>)
      BY <3>2, <3>4 DEF Find
    <3>6. \A n \in Names : \A f \in Find(<<n>>) : functions'[f].args = functions[f].args
      BY <3>4 DEF Find
    <3>7. T' = T
      BY <3>5, <3>6, TableKept
    <3> QED
      BY <2>5, <2>6, <3>7 DEF Table!Define, Table!Kept, T
  <2>8. CASE VisitExpr(body) = Null
    <3>1. functions' = [f \in DOMAIN functions \ {id} |-> functions[f]]
      BY <2>1, <2>8 DEF Define, Erase
    <3>2. /\ DOMAIN functions' = DOMAIN functions \ {id}
          /\ \A f \in DOMAIN functions' : functions'[f] = functions[f]
      BY <3>1
    <3>3. m \notin Known'
      BY <2>3, <2>4, <3>2 DEF Known, Find
    <3>4. \A n \in Names \ {m} : <<n>> # <<m>>
      OBVIOUS
    <3>5. \A n \in Names \ {m} : id \notin Find(<<n>>)
      BY <2>2, <2>3, <3>4 DEF Find
    <3>6. \A n \in Names \ {m} : Find(<<n>>)' = Find(<<n>>)
      BY <3>2, <3>5 DEF Find
    <3>7. \A n \in Names \ {m} : \A f \in Find(<<n>>) : functions'[f].args = functions[f].args
      BY <3>2, <3>5 DEF Find
    <3>8. Table!Kept /\ DOMAIN T' = Known' /\ Known \ {m} = Known' \ {m}
      BY <3>3, <3>6, <3>7, OthersKept
    <3> QED
      BY <2>5, <2>6, <3>3, <3>8 DEF Table!Define, T
  <2> QED
    BY <2>7, <2>8
<1> QED
  BY <1>1, <1>2 DEF VisitDeclared

(* Code generation is a table of names: a name once declared keeps its     *)
(* function and its arguments under every order of visits, until a         *)
(* definition of that very function fails, whatever the overload that      *)
(* visits its body returns.                                                *)
THEOREM TableImplemented == Spec => ImplementsSymbolTable
<1>1. Init => Table!Init
  BY DEF Init, Table!Init, Known, Find
<1>2. Inv /\ [Next]_vars => [Table!Next]_<<T, insert_point>>
  <2> SUFFICES ASSUME Inv, [Next]_vars
               PROVE  Table!Next \/ (T' = T /\ insert_point' = insert_point)
    OBVIOUS
  <2>1. ASSUME UNCHANGED <<functions, insert_point>>
        PROVE  T' = T /\ insert_point' = insert_point
    <3>1. \A n \in Names : Find(<<n>>)' = Find(<<n>>)
      BY <2>1 DEF Find
    <3> QED
      BY <2>1, <3>1, TableKept
  <2>2. CASE VisitExpression
    BY <2>1, <2>2 DEF VisitExpression, VisitNumber, VisitVariable, VisitBinary, VisitCall, symbols
  <2>3. CASE \E proto \in Prototypes : VisitProtoType(proto)
    BY <2>3, CreatedTable DEF VisitProtoType, Table!Next
  <2>4. CASE \E proto \in Prototypes, body \in Exprs :
               VisitFunction(proto, body) \/ VisitDeclared(proto, body)
    BY <2>4, FunctionTable, DeclaredTable DEF Table!Next
  <2>5. CASE UNCHANGED vars
    BY <2>1, <2>5 DEF vars, symbols
  <2> QED
    BY <2>2, <2>3, <2>4, <2>5 DEF Next
<1> QED
  BY <1>1, <1>2, CodeGenInvariant, PTL DEF Spec, ImplementsSymbolTable, Table!Spec, T
=============================================================================
