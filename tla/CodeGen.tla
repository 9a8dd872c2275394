------------------------------- MODULE CodeGen -------------------------------
(***************************************************************************)
(* Code generation: AstLLVMCodeGen of src/src/ir/ast_visiter.h and         *)
(* ast_visiter.cc.  No driver calls it yet; its interface is the overloads *)
(* of visit, and here they are called in any order.  The class has no      *)
(* constructor that sets module_: the model starts from an empty module.   *)
(*                                                                         *)
(* An overload is chosen by the STATIC type of the pointer: the operands   *)
(* of an expression, the arguments of a call and the body of a function    *)
(* are all ExprAST pointers, and visit(ExprAST) returns nullptr.           *)
(*                                                                         *)
(* A pointer to a function is its id; an id is never used again, so that a *)
(* pointer to a function that was erased can be told from one that lives.  *)
(* A name is <<>> for the anonymous prototype of a top-level expression,   *)
(* <<n>> for an identifier, and <<n, i>> for one that LLVM changed because *)
(* it was taken.  LLVM writes a changed name "n" with a number behind it,  *)
(* which an identifier of the file could equal; here it never does.        *)
(***************************************************************************)
EXTENDS Integers, Sequences

CONSTANTS
  Names,         \* identifiers
  Exprs,         \* expressions that others are made of
  Operators,     \* SupportBinaryOpTag
  MaxArgs,       \* bound: arguments of a prototype or a call
  MaxFunctions   \* bound: functions that are ever created

ASSUME BoundAssumption == MaxArgs \in Nat /\ MaxFunctions \in Nat

VARIABLES
  functions,     \* module_: by id, the name, the arguments' names, and whether
                 \* there is a body: "none" or "done"
  made,          \* how many functions were created, erased ones included
  named_values,  \* the map from names to values
  insert_point,  \* the function whose entry block builder_ inserts into, or 0
  called,        \* functions that a call outside of any block refers to
  returned,      \* what the last visit returned
  status         \* "ok", or "undefined" after a use of what was erased

symbols == <<functions, made>>
vars    == <<symbols, named_values, insert_point, called, returned, status>>

-----------------------------------------------------------------------------
(* Values, as pointers *)

Value(k, f, x) == [kind |-> k, fn |-> f, name |-> x]

Null           == Value("null", 0, <<>>)
Constant       == Value("constant", 0, <<>>)
Instruction    == Value("instruction", 0, <<>>)
FunctionAt(f)  == Value("function", f, <<>>)
Argument(f, x) == Value("argument", f, x)

(* What a visitor is called with *)
Lists(S)   == UNION {[1..k -> S] : k \in 0..MaxArgs}
ProtoNames == {<<>>} \cup {<<n>> : n \in Names}
Prototypes == {[name |-> <<>>, args |-> <<>>]}
              \cup [name : {<<n>> : n \in Names}, args : Lists(Names)]

-----------------------------------------------------------------------------
(* The module, as the visits use it *)

(* getFunction: nothing is found by the empty name. *)
Find(name) == {f \in DOMAIN functions : name # <<>> /\ functions[f].name = name}

(* setName on the arguments one after the other: a name that an argument   *)
(* before has already is changed.                                          *)
ArgNames(args) ==
  [i \in DOMAIN args |->
     IF \E k \in 1..(i - 1) : args[k] = args[i] THEN <<args[i], i>> ELSE <<args[i]>>]

(* The module with a new function, which LLVM gives a changed name if the  *)
(* name is taken: Function::Create, then setName on the arguments.         *)
Created(proto) ==
  [f \in DOMAIN functions \cup {made + 1} |->
     IF f \in DOMAIN functions THEN functions[f]
     ELSE [name |-> IF Find(proto.name) = {} THEN proto.name ELSE <<proto.name[1], f>>,
           args |-> ArgNames(proto.args), body |-> "none"]]

(* eraseFromParent.  A call that refers to the function is left behind.    *)
Erase(fs, id) ==
  /\ functions' = [f \in DOMAIN fs \ {id} |-> fs[f]]
  /\ status' = IF id \in called THEN "undefined" ELSE status

-----------------------------------------------------------------------------
(* The visits of expressions, by the class of the pointer *)

Return(v) == returned' = v

(* visit(ExprAST): "This procedure should not be called directly."         *)
VisitExpr(e) == Null

VisitNumber ==
  /\ status = "ok"
  /\ Return(Constant)
  /\ UNCHANGED <<symbols, named_values, insert_point, called, status>>

(* operator[] puts a null pointer into the map for a name it does not hold.*)
VisitVariable(x) ==
  /\ status = "ok"
  /\ named_values' = [y \in DOMAIN named_values \cup {<<x>>} |->
                        IF y \in DOMAIN named_values THEN named_values[y] ELSE Null]
  /\ Return(named_values'[<<x>>])
  /\ UNCHANGED <<symbols, insert_point, called, status>>

(* What becomes of the status when builder_ inserts an instruction: into   *)
(* its block, if it has one and it still is.                               *)
Inserting == IF insert_point \in DOMAIN functions \cup {0} THEN "ok" ELSE "undefined"

(* builder_ folds constants and inserts nothing for them.                  *)
BinaryValue(op, left, right) ==
  IF Null \in {left, right} \/ op \in {"kDiv", "kInvalid"} THEN Null
  ELSE IF {left, right} = {Constant} THEN Constant ELSE Instruction

VisitBinary(op, lhs, rhs) ==
  LET value == BinaryValue(op, VisitExpr(lhs), VisitExpr(rhs)) IN
  /\ status = "ok"
  /\ Return(value)
  /\ status' = IF value = Instruction THEN Inserting ELSE status
  /\ UNCHANGED <<symbols, named_values, insert_point, called>>

(* Seeded fault: the block is called, and not the function.               *)
CreateCallOfBlock(f) ==
  /\ Return(Instruction)
  /\ called' = IF insert_point = 0 THEN called \cup {insert_point} ELSE called
  /\ status' = Inserting

(* CreateCall.  A call outside of any block still refers to the function.  *)
CreateCall(f) ==
  /\ Return(Instruction)
  /\ called' = IF insert_point = 0 THEN called \cup {f} ELSE called
  /\ status' = Inserting

VisitCall(x, args) ==
  /\ status = "ok"
  /\ \/ /\ \E f \in Find(<<x>>) : Len(functions[f].args) = Len(args) /\ CreateCall(f)
        /\ \A i \in DOMAIN args : VisitExpr(args[i]) # Null
     \/ /\ \A f \in Find(<<x>>) : Len(functions[f].args) # Len(args)
           \/ \E i \in DOMAIN args : VisitExpr(args[i]) = Null
        /\ Return(Null)
        /\ UNCHANGED <<called, status>>
  /\ UNCHANGED <<symbols, named_values, insert_point>>

-----------------------------------------------------------------------------
(* Prototypes and functions *)

(* Seeded fault: a function that has the name gets the new arguments.      *)
VisitProtoTypeReused(proto) ==
  /\ status = "ok"
  /\ made < MaxFunctions
  /\ made' = made + 1
  /\ functions' = [f \in DOMAIN Created(proto) |->
                     IF f \in Find(proto.name)
                     THEN [functions[f] EXCEPT !.args = ArgNames(proto.args)]
                     ELSE Created(proto)[f]]
  /\ Return(FunctionAt(made + 1))
  /\ UNCHANGED <<named_values, insert_point, called, status>>

VisitProtoType(proto) ==
  /\ status = "ok"
  /\ made < MaxFunctions
  /\ made' = made + 1
  /\ functions' = Created(proto)
  /\ Return(FunctionAt(made + 1))
  /\ UNCHANGED <<named_values, insert_point, called, status>>

(* Seeded faults: the map is not cleared; the function is returned after   *)
(* it was removed.                                                         *)
DefineUncleared(fs, id, body) ==
  LET new == {fs[id].args[i] : i \in DOMAIN fs[id].args} IN
  /\ insert_point' = id
  /\ named_values' = [x \in DOMAIN named_values \cup new |->
                        IF x \in new THEN Argument(id, x) ELSE named_values[x]]
  /\ Return(Null)
  /\ Erase(fs, id)
  /\ UNCHANGED called

DefineReturned(fs, id, body) ==
  /\ insert_point' = id
  /\ named_values' = [x \in {fs[id].args[i] : i \in DOMAIN fs[id].args} |-> Argument(id, x)]
  /\ Return(FunctionAt(id))
  /\ Erase(fs, id)
  /\ UNCHANGED called

(* The body of function id of fs, under its own arguments' names, not those *)
(* of the definition: a function that got none is removed.                 *)
Define(fs, id, body) ==
  /\ insert_point' = id
  /\ named_values' = [x \in {fs[id].args[i] : i \in DOMAIN fs[id].args} |-> Argument(id, x)]
  /\ IF VisitExpr(body) # Null
     THEN /\ functions' = [fs EXCEPT ![id].body = "done"]
          /\ Return(FunctionAt(id))
          /\ UNCHANGED status
     ELSE Return(Null) /\ Erase(fs, id)
  /\ UNCHANGED called

(* visit(FunctionAST) of a name that is not in the module *)
VisitFunction(proto, body) ==
  /\ status = "ok"
  /\ Find(proto.name) = {}
  /\ made < MaxFunctions
  /\ made' = made + 1
  /\ Define(Created(proto), made + 1, body)

(* ... and of one that is: a declaration, or "Function cannot be redefined."*)
VisitDeclared(proto, body) ==
  /\ status = "ok"
  /\ \E f \in Find(proto.name) :
       IF functions[f].body = "none" THEN Define(functions, f, body)
       ELSE Return(Null) /\ UNCHANGED <<functions, named_values, insert_point, called, status>>
  /\ UNCHANGED made

Init ==
  /\ functions = <<>> /\ made = 0
  /\ named_values = <<>>
  /\ insert_point = 0 /\ called = {} /\ returned = Null /\ status = "ok"

VisitExpression ==
  \/ VisitNumber
  \/ \E x \in Names : VisitVariable(x)
  \/ \E op \in Operators, lhs, rhs \in Exprs : VisitBinary(op, lhs, rhs)
  \/ \E x \in Names, args \in Lists(Exprs) : VisitCall(x, args)

Next ==
  \/ VisitExpression
  \/ \E proto \in Prototypes : VisitProtoType(proto)
  \/ \E proto \in Prototypes, body \in Exprs :
       VisitFunction(proto, body) \/ VisitDeclared(proto, body)

Spec == Init /\ [][Next]_vars

-----------------------------------------------------------------------------
ItsNames == ProtoNames \cup (Names \X Nat)
Function == [name : ItsNames, args : Seq(ItsNames), body : {"none", "done"}]
Values   == [kind : {"null", "constant", "instruction", "function", "argument"},
             fn : Nat, name : ItsNames]

TypeOK ==
  /\ made \in Nat
  /\ DOMAIN functions \subseteq 1..made
  /\ \A f \in DOMAIN functions : functions[f] \in Function
  /\ DOMAIN named_values \subseteq ItsNames
  /\ \A x \in DOMAIN named_values : named_values[x] \in Values
  /\ insert_point \in 0..made
  /\ called \subseteq 1..made
  /\ returned \in Values
  /\ status \in {"ok", "undefined"}

(***************************************************************************)
(* Safety                                                                  *)
(***************************************************************************)
(* The names in reach are those of one function: named_values holds        *)
(* arguments of the function builder_ is in, never of one visited before,  *)
(* each under its own name.                                                *)
NamesOfOneFunction ==
  \A x \in DOMAIN named_values :
    named_values[x] \in {Null, Argument(insert_point, x)}

(* A caller that gets a function gets one that is in the module.           *)
ReturnedLives == returned.kind = "function" => returned.fn \in DOMAIN functions

(* What a name stands for, for whoever looks it up: a table in which a     *)
(* later prototype of a known name changes nothing, and only a definition  *)
(* of that name, the one builder_ is at then, makes it unknown.            *)
Known      == {n \in Names : Find(<<n>>) # {}}
Meaning(n) == LET f == CHOOSE f \in Find(<<n>>) : TRUE
              IN  [function |-> f, args |-> functions[f].args]

Table == INSTANCE SymbolTable WITH
           table <- [n \in Known |-> Meaning(n)], defined <- insert_point

ImplementsSymbolTable == Table!Spec

(***************************************************************************)
(* What the repository says of code generation, and the code does not do.  *)
(***************************************************************************)
(* ast_visiter.cc:137 "error reading body, remove function": where every   *)
(* expression is a number there is no such error, so that the function of  *)
(* the last definition, in whose block builder_ is, was finished off.      *)
BodiesGenerated ==
  Exprs = {"number"} /\ insert_point # 0 =>
    insert_point \in DOMAIN functions /\ functions[insert_point].body = "done"
=============================================================================
