------------------------------- MODULE Parser -------------------------------
(***************************************************************************)
(* The parser: src/src/parser/parser.cc and Parse of parser.h, over any    *)
(* TokenSource.                                                            *)
(*                                                                         *)
(* The functions call each other recursively: "stack" holds the callers    *)
(* that wait for a value, "at" is the function that runs, and each step    *)
(* takes at most one token.  An AST is what its Dump writes, as a sequence *)
(* of symbols; <<>> stands for the null pointer.                           *)
(*                                                                         *)
(* BinOpRHS reads, at line 195, a unique_ptr that is not constructed yet.  *)
(* Its storage may hold a null pointer or garbage: with the first the      *)
(* program goes on, with the second it is "undefined" what it does.        *)
(***************************************************************************)
EXTENDS Integers, Sequences

CONSTANTS
  Tokens,        \* the tokens a file may hold: [tag, lexeme]
  MaxTokens(_)   \* bound: how many of them a file holds at most, by which they are

VARIABLES
  read,            \* the tokens so far; the last one is current_token_
  broken,          \* the lexer threw
  at,              \* the function that runs, or the place in it
  stack,           \* its callers
  value,           \* the AST being built or returned
  ast_list,
  has_error,
  result,          \* what Parse returned
  logged,          \* TRUE once PARSE_ERROR_LOG has written a message
  undefined_read   \* TRUE once the unique_ptr of line 195 was read

sourceVars == <<read, broken>>
outcome    == <<ast_list, has_error, result>>
parserVars == <<at, stack, value, outcome, logged, undefined_read>>
vars       == <<sourceVars, parserVars>>

End    == [tag |-> "kEOF", lexeme |-> ""]
Source == INSTANCE TokenSource
SX     == INSTANCE SequencesExt

-----------------------------------------------------------------------------
(* The ASTs, by what they write *)

Null     == <<>>
NullMark == "null pointer"    \* in place of an operand that is not there

Shown(ast) == IF ast = Null THEN <<NullMark>> ELSE ast

(* What else is in an AST than names, numbers and operators *)
Marks == {"", "(", ")", ",", "{", "}"}

(* No lexeme holds a blank, only the end of the file has none, and no name *)
(* and no number is a punctuator.                                          *)
ASSUME TokenAssumption ==
  \A t \in Tokens :
    /\ t.tag # "kEOF" /\ t.lexeme \notin {"", NullMark}
    /\ t.tag \in {"kIdentifier", "kNumber"} => t.lexeme \notin Marks

(* An operator, through SupportBinaryOpTag and back to what is written     *)
BinaryOpName(op) == IF op \in {"+", "-", "*", "/", "<"} THEN op ELSE ""

BinaryExpr(op, lhs, rhs) ==
  <<"(">> \o Shown(lhs) \o <<")", BinaryOpName(op), "(">> \o Shown(rhs) \o <<")">>

Function(proto, body) == proto \o <<"{">> \o body \o <<"}">>

Anonymous == <<"", "(", ")">>    \* the prototype of a top-level expression

(* One more item in a list that was opened with "(" *)
Item(list, ast) ==
  IF list[Len(list)] = "(" THEN list \o ast ELSE list \o <<",">> \o ast

BinopPrecedence(op) ==
  CASE op = "<" -> 10
    [] op \in {"+", "-"} -> 20
    [] op \in {"*", "/"} -> 40
    [] OTHER -> -1

-----------------------------------------------------------------------------
(* Calls *)

Frame(f) == [fn |-> f, prec |-> 0, lhs |-> Null, op |-> "", rhs |-> Null]

Top        == stack[Len(stack)]
Pop        == SubSeq(stack, 1, Len(stack) - 1)
Replace(f) == [stack EXCEPT ![Len(stack)] = f]

(* Call p, while f waits for its value. *)
Call(p, f) == at' = p /\ stack' = Append(stack, f)

Return(ast) == at' = "return" /\ value' = ast

(* Seeded fault: no message. *)
ErrorUnlogged ==
  /\ Return(Null)
  /\ UNCHANGED <<logged, sourceVars>>

(* PARSE_ERROR_LOG, and return nullptr *)
Error ==
  /\ Return(Null)
  /\ logged' = TRUE
  /\ UNCHANGED sourceVars

Current  == read[Len(read)]
IsId     == Current.tag = "kIdentifier"
IsPunct  == Current.tag = "kPunctuator"
Is(p)    == IsPunct /\ Current.lexeme = p

(* The file may go on with t, or end. *)
GoesOn(t) == t = End \/ Len(read) < MaxTokens({read[i] : i \in DOMAIN read} \cup {t})

(* Take the next token and go on at p, unless the lexer throws. *)
NextToken(p) ==
  /\ UNCHANGED logged
  /\ \/ /\ \E t \in Tokens \cup {End} : GoesOn(t) /\ Source!Deliver(t)
        /\ at' = p
     \/ /\ Source!Break
        /\ at' = "threw"

(* Nothing but the call and its value changes. *)
Within == UNCHANGED <<outcome, undefined_read>>

-----------------------------------------------------------------------------
(***************************************************************************)
(* Parse                                                                   *)
(***************************************************************************)
Start ==
  /\ at = "start"
  /\ NextToken("loop")
  /\ UNCHANGED <<stack, value>> /\ Within

(* The end: the items, or none of them after any error. *)
ParseEnd ==
  /\ at = "loop"
  /\ Current = End
  /\ at' = "done"
  /\ result' = IF has_error THEN <<>> ELSE ast_list
  /\ UNCHANGED <<sourceVars, stack, value, ast_list, has_error, logged, undefined_read>>

(* HandleDefinition and FunctionAST: eat 'def' *)
ParseDefinition ==
  /\ at = "loop"
  /\ Current.tag = "kKwDef"
  /\ NextToken("prototype")
  /\ stack' = <<Frame("Definition")>>
  /\ UNCHANGED value /\ Within

(* HandleExtern calls PrototypeAST with 'extern' still to be eaten. *)
ParseExtern ==
  /\ at = "loop"
  /\ Current.tag = "kKwExtern"
  /\ Call("prototype", Frame("Extern"))
  /\ UNCHANGED <<sourceVars, value, logged>> /\ Within

(* A top-level semicolon is ignored. *)
ParseSemicolon ==
  /\ at = "loop"
  /\ Is(";")
  /\ NextToken("loop")
  /\ UNCHANGED <<stack, value>> /\ Within

(* HandleGlobalExpr, GlobalExprAST and its ExprAST *)
ParseGlobalExpr ==
  /\ at = "loop"
  /\ Current.tag \in {"kIdentifier", "kNumber", "kPunctuator"}
  /\ ~Is(";")
  /\ at' = "primary"
  /\ stack' = <<Frame("Global"), Frame("Expr")>>
  /\ UNCHANGED <<sourceVars, value, logged>> /\ Within

(* Seeded fault: the handlers do not skip a token. *)
RecoverInPlace ==
  /\ at = "recover"
  /\ at' = "loop"
  /\ has_error' = TRUE
  /\ UNCHANGED <<sourceVars, logged, stack, value, ast_list, result, undefined_read>>

(* Seeded fault: the handlers do not set has_error. *)
RecoverQuietly ==
  /\ at = "recover"
  /\ NextToken("loop")
  /\ UNCHANGED <<stack, value, outcome, undefined_read>>

(* A handler has no AST: skip a token for error recovery. *)
Recover ==
  /\ at = "recover"
  /\ NextToken("loop")
  /\ has_error' = (has_error \/ at' = "loop")
  /\ UNCHANGED <<stack, value, ast_list, result, undefined_read>>

(* A handler has an AST. *)
Push(ast) ==
  /\ at' = "loop"
  /\ stack' = <<>>
  /\ ast_list' = Append(ast_list, ast)
  /\ UNCHANGED <<sourceVars, value, has_error, result, logged, undefined_read>>

-----------------------------------------------------------------------------
(* PrototypeAST: name '(' names ')'; value is the prototype so far. *)

PrototypeName ==
  /\ at = "prototype"
  /\ \/ IsId /\ value' = <<Current.lexeme>> /\ NextToken("prototype_open")
     \/ ~IsId /\ Error
  /\ UNCHANGED stack /\ Within

PrototypeOpen ==
  /\ at = "prototype_open"
  /\ \/ Is("(") /\ value' = Append(value, "(") /\ NextToken("prototype_args")
     \/ ~Is("(") /\ Error
  /\ UNCHANGED stack /\ Within

(* Seeded fault: of several arguments the last one is kept. *)
PrototypeArgsLast ==
  /\ at = "prototype_args"
  /\ \/ /\ IsId
        /\ value' = SubSeq(value, 1, 2) \o <<Current.lexeme>>
        /\ NextToken("prototype_args")
     \/ Is(")") /\ value' = Append(value, ")") /\ NextToken("return")
     \/ ~IsId /\ ~Is(")") /\ Error
  /\ UNCHANGED stack /\ Within

PrototypeArgs ==
  /\ at = "prototype_args"
  /\ \/ /\ IsId
        /\ value' = Item(value, <<Current.lexeme>>)
        /\ NextToken("prototype_args")
     \/ Is(")") /\ value' = Append(value, ")") /\ NextToken("return")
     \/ ~IsId /\ ~Is(")") /\ Error
  /\ UNCHANGED stack /\ Within

-----------------------------------------------------------------------------
(* PrimaryExprAST, with NumberExprAST, IdentifierExprAST and                *)
(* ParenthesesExprAST up to the first expression inside                     *)

PrimaryNumber ==
  /\ at = "primary"
  /\ Current.tag = "kNumber"
  /\ value' = <<Current.lexeme>>
  /\ NextToken("return")
  /\ UNCHANGED stack /\ Within

PrimaryIdentifier ==
  /\ at = "primary"
  /\ IsId
  /\ value' = <<Current.lexeme>>
  /\ NextToken("identifier")
  /\ UNCHANGED stack /\ Within

(* Seeded fault: '(' is not eaten. *)
PrimaryParenthesesInPlace ==
  /\ at = "primary"
  /\ Is("(")
  /\ at' = "primary"
  /\ stack' = stack \o <<Frame("Parentheses"), Frame("Expr")>>
  /\ UNCHANGED <<sourceVars, logged, value>> /\ Within

PrimaryParentheses ==
  /\ at = "primary"
  /\ Is("(")
  /\ NextToken("primary")
  /\ stack' = stack \o <<Frame("Parentheses"), Frame("Expr")>>
  /\ UNCHANGED value /\ Within

PrimaryError ==
  /\ at = "primary"
  /\ Current.tag \notin {"kNumber", "kIdentifier"}
  /\ ~Is("(")
  /\ Error
  /\ UNCHANGED stack /\ Within

(* Behind the identifier: a variable, or a call. *)
Variable ==
  /\ at = "identifier"
  /\ ~Is("(")
  /\ Return(value)
  /\ UNCHANGED <<sourceVars, stack, logged>> /\ Within

CallOpen ==
  /\ at = "identifier"
  /\ Is("(")
  /\ value' = Append(value, "(")
  /\ NextToken("call")
  /\ UNCHANGED stack /\ Within

CallFirst ==
  /\ at = "call"
  /\ \/ /\ Is(")")
        /\ value' = Append(value, ")")
        /\ NextToken("return")
        /\ UNCHANGED stack
     \/ /\ ~Is(")")
        /\ at' = "primary"
        /\ stack' = stack \o <<[Frame("Call") EXCEPT !.lhs = value], Frame("Expr")>>
        /\ UNCHANGED <<sourceVars, logged, value>>
  /\ Within

(* BinOpRHS at the head of its loop; its frame holds expr_prec and lhs. *)
BinOpRHS ==
  /\ at = "rhs"
  /\ \/ /\ IsPunct
        /\ BinopPrecedence(Current.lexeme) >= Top.prec
        /\ stack' = Replace([Top EXCEPT !.fn = "Operand", !.op = Current.lexeme])
        /\ NextToken("primary")
        /\ UNCHANGED value
     \/ /\ ~IsPunct \/ BinopPrecedence(Current.lexeme) < Top.prec
        /\ Return(Top.lhs)
        /\ stack' = Pop
        /\ UNCHANGED <<sourceVars, logged>>
  /\ Within

-----------------------------------------------------------------------------
(* Returns: the caller on top of the stack takes the value. *)

Handlers == {"Definition", "Extern", "Body", "Global"}

Returned(f) == at = "return" /\ Top.fn = f /\ value # Null

(* No AST: a handler recovers, every other function but BinOpRHS behind    *)
(* line 195 returns nullptr as well.                                       *)
ReturnNull ==
  /\ at = "return"
  /\ value = Null
  /\ \/ /\ Top.fn \in Handlers
        /\ at' = "recover"
        /\ stack' = <<>>
     \/ /\ Top.fn \in {"Expr", "Parentheses", "Call", "Operand"}
        /\ at' = "return"
        /\ stack' = Pop
  /\ UNCHANGED <<sourceVars, value, logged>> /\ Within

(* ParenthesesExprAST: any punctuator but ')' is eaten as the closing one. *)
ReturnParentheses ==
  /\ Returned("Parentheses")
  /\ stack' = Pop
  /\ \/ IsPunct /\ ~Is(")") /\ NextToken("return") /\ UNCHANGED value
     \/ (~IsPunct \/ Is(")")) /\ Error
  /\ Within

(* IdentifierExprAST: one more argument of a call *)
ReturnArgument ==
  /\ Returned("Call")
  /\ \/ /\ Is(")")
        /\ value' = Append(Item(Top.lhs, value), ")")
        /\ NextToken("return")
        /\ stack' = Pop
     \/ /\ Is(",")
        /\ NextToken("primary")
        /\ stack' = Append(Replace([Top EXCEPT !.lhs = Item(@, value)]), Frame("Expr"))
        /\ UNCHANGED value
     \/ /\ ~Is(")") /\ ~Is(",")
        /\ Error
        /\ stack' = Pop
  /\ Within

(* ExprAST: the first operand, behind it BinOpRHS(0, lhs) *)
ReturnFirstOperand ==
  /\ Returned("Expr")
  /\ at' = "rhs"
  /\ stack' = Replace([Frame("BinOpRHS") EXCEPT !.lhs = value])
  /\ UNCHANGED <<sourceVars, value, logged>> /\ Within

(* BinOpRHS merges lhs and rhs and goes on. *)
Merge(lhs, rhs) ==
  /\ at' = "rhs"
  /\ stack' = Replace([Frame("BinOpRHS") EXCEPT
                         !.prec = Top.prec, !.lhs = BinaryExpr(Top.op, lhs, rhs)])

NextPrec == IF IsPunct THEN BinopPrecedence(Current.lexeme) ELSE -1

(* Seeded fault: the operands are merged in the wrong order. *)
ReturnOperandSwapped ==
  /\ Returned("Operand")
  /\ \/ /\ NextPrec <= Top.prec
        /\ Merge(value, Top.lhs)
        /\ UNCHANGED undefined_read
     \/ /\ NextPrec > Top.prec
        /\ undefined_read' = TRUE
        /\ at' \in {"rhs", "undefined"}
        /\ stack' = Append(Replace([Top EXCEPT !.fn = "SubExpr", !.rhs = value]),
                           [Frame("BinOpRHS") EXCEPT !.prec = Top.prec + 1])
  /\ UNCHANGED <<sourceVars, outcome, value, logged>>

(* Seeded fault: a step down in precedence instead of one up. *)
ReturnOperandLowered ==
  /\ Returned("Operand")
  /\ \/ /\ NextPrec <= Top.prec
        /\ Merge(Top.lhs, value)
        /\ UNCHANGED undefined_read
     \/ /\ NextPrec > Top.prec
        /\ undefined_read' = TRUE
        /\ at' \in {"rhs", "undefined"}
        /\ stack' = Append(Replace([Top EXCEPT !.fn = "SubExpr", !.rhs = value]),
                           [Frame("BinOpRHS") EXCEPT !.prec = Top.prec - 1])
  /\ UNCHANGED <<sourceVars, outcome, value, logged>>

(* The second operand.  With an operator of higher precedence than         *)
(* expr_prec behind it, BinOpRHS(expr_prec + 1, ...) is called with the    *)
(* pointer that is not constructed.                                        *)
ReturnOperand ==
  /\ Returned("Operand")
  /\ \/ /\ NextPrec <= Top.prec
        /\ Merge(Top.lhs, value)
        /\ UNCHANGED undefined_read
     \/ /\ NextPrec > Top.prec
        /\ undefined_read' = TRUE
        /\ at' \in {"rhs", "undefined"}
        /\ stack' = Append(Replace([Top EXCEPT !.fn = "SubExpr", !.rhs = value]),
                           [Frame("BinOpRHS") EXCEPT !.prec = Top.prec + 1])
  /\ UNCHANGED <<sourceVars, outcome, value, logged>>

(* Seeded fault: what that call returned becomes the second operand. *)
ReturnSubExprMerged ==
  /\ at = "return"
  /\ Top.fn = "SubExpr"
  /\ Merge(Top.lhs, IF value = Null THEN Top.rhs ELSE value)
  /\ UNCHANGED <<sourceVars, value, logged>> /\ Within

(* It is given up when that call returned an AST, and merged without it    *)
(* when it returned none.                                                  *)
ReturnSubExpr ==
  /\ at = "return"
  /\ Top.fn = "SubExpr"
  /\ \/ value # Null /\ Return(Null) /\ stack' = Pop
     \/ value = Null /\ Merge(Top.lhs, Top.rhs) /\ UNCHANGED value
  /\ UNCHANGED <<sourceVars, logged>> /\ Within

(* FunctionAST: the prototype, then the body *)
ReturnPrototype ==
  /\ Returned("Definition")
  /\ at' = "primary"
  /\ stack' = <<[Frame("Body") EXCEPT !.lhs = value], Frame("Expr")>>
  /\ UNCHANGED <<sourceVars, value, logged>> /\ Within

(* An item is complete.  HandleExtern never gets this far: PrototypeAST     *)
(* finds 'extern' where it expects a name.                                 *)
ReturnItem ==
  /\ at = "return"
  /\ value # Null
  /\ Top.fn \in {"Body", "Extern", "Global"}
  /\ Push(CASE Top.fn = "Body" -> Function(Top.lhs, value)
            [] Top.fn = "Global" -> Function(Anonymous, value)
            [] OTHER -> value)

-----------------------------------------------------------------------------
Init ==
  /\ Source!Init
  /\ at = "start" /\ stack = <<>> /\ value = Null
  /\ ast_list = <<>> /\ has_error = FALSE /\ result = <<>>
  /\ logged = FALSE /\ undefined_read = FALSE

Next ==
  \/ Start \/ ParseEnd \/ ParseDefinition \/ ParseExtern \/ ParseSemicolon
  \/ ParseGlobalExpr \/ Recover
  \/ PrototypeName \/ PrototypeOpen \/ PrototypeArgs
  \/ PrimaryNumber \/ PrimaryIdentifier \/ PrimaryParentheses \/ PrimaryError
  \/ Variable \/ CallOpen \/ CallFirst \/ BinOpRHS
  \/ ReturnNull \/ ReturnParentheses \/ ReturnArgument \/ ReturnFirstOperand
  \/ ReturnOperand \/ ReturnSubExpr
  \/ ReturnPrototype \/ ReturnItem

Spec == Init /\ [][Next]_vars /\ WF_vars(Next)

-----------------------------------------------------------------------------
Symbols == {t.lexeme : t \in Tokens} \cup {"", "(", ")", ",", "{", "}", NullMark}
AST     == Seq(Symbols)

Frames ==
  [fn : Handlers \cup {"Expr", "Parentheses", "Call", "BinOpRHS", "Operand", "SubExpr"},
   prec : Nat, lhs : AST, op : Symbols \ {NullMark}, rhs : AST]

(* Types.  A precedence on the stack is never negative: the loop of        *)
(* BinOpRHS would then take any punctuator for an operator.                *)
TypeOK ==
  /\ read \in Seq(Tokens \cup {End}) /\ broken \in BOOLEAN
  /\ at \in {"start", "loop", "recover", "prototype", "prototype_open",
             "prototype_args", "primary", "identifier", "call", "rhs", "return",
             "done", "threw", "undefined"}
  /\ stack \in Seq(Frames)
  /\ value \in AST
  /\ ast_list \in Seq(AST) /\ result \in Seq(AST)
  /\ has_error \in BOOLEAN /\ logged \in BOOLEAN /\ undefined_read \in BOOLEAN

(***************************************************************************)
(* The inductive invariant                                                 *)
(***************************************************************************)
Whole(ast) == ast # Null /\ \A j \in DOMAIN ast : ast[j] # NullMark

(* Who runs, and who called it *)
Shape ==
  /\ at \notin {"start", "threw"} => read # <<>>
  /\ at \in {"start", "loop", "recover", "done"} => stack = <<>>
  /\ at \in {"prototype", "prototype_open", "prototype_args"} =>
       Len(stack) = 1 /\ Top.fn \in {"Definition", "Extern"}
  /\ at \in {"primary", "identifier", "call"} =>
       stack # <<>> /\ Top.fn \in {"Expr", "Operand"}
  /\ at = "rhs" => stack # <<>> /\ Top.fn = "BinOpRHS"
  /\ at = "return" => stack # <<>> /\ Top.fn # "BinOpRHS"

(* A handler calls first, and nobody calls one.  BinOpRHS calls nobody at   *)
(* the head of its loop.  An AST with a null operand is seen by the calls   *)
(* of BinOpRHS only that were made at line 195.                             *)
StackInv(s) ==
  \A i \in DOMAIN s :
    /\ s[i].fn \in Handlers <=> i = 1
    /\ s[i].fn = "BinOpRHS" => i = Len(s)
    /\ s[i].fn \in {"Call", "Body"} => Whole(s[i].lhs)
    /\ s[i].fn = "SubExpr" => Whole(s[i].rhs)
    /\ s[i].fn \in {"BinOpRHS", "Operand", "SubExpr"} =>
         Whole(s[i].lhs) \/ s[i - 1].fn = "SubExpr"

(* Two callers for each token, with some to spare where calls are made     *)
(* before the next token is taken                                          *)
Depth ==
  /\ at # "threw" => Len(stack) <= 2 * Len(read)
  /\ at \in {"prototype_open", "prototype_args"} => Len(read) >= 2
  /\ at \in {"identifier", "call"} \/ (at = "return" /\ value # Null) =>
       Len(stack) + 2 <= 2 * Len(read)
  /\ at = "rhs" \/ (at = "return" /\ Top.fn = "SubExpr") =>
       Len(stack) + 1 <= 2 * Len(read)

(* What the calls at line 195 return is thrown away. *)
Operands ==
  /\ \A i \in DOMAIN ast_list : Whole(ast_list[i])
  /\ at \in {"prototype_open", "prototype_args", "identifier", "call"} => Whole(value)
  /\ at = "return" /\ value # Null => Whole(value) \/ Top.fn = "SubExpr"

(* The functions of the parser call each other as the grammar has them,    *)
(* never deeper than the tokens allow, and a null operand is only where    *)
(* BinOpRHS throws it away again.                                          *)
ParserInv == Shape /\ StackInv(stack) /\ Depth /\ Operands

(***************************************************************************)
(* Safety                                                                  *)
(***************************************************************************)
(* No AST that will be dumped has a null operand, although BinOpRHS works  *)
(* on one: Dump follows every operand.                                     *)
NoNullDumped ==
  \A i \in DOMAIN ast_list : \A j \in DOMAIN ast_list[i] : ast_list[i][j] # NullMark

(* The recursion is as deep as the tokens read make it, and no deeper.     *)
DepthBounded == at # "threw" => Len(stack) <= 2 * Len(read)

(* Unless the pointer of line 195 was read, an error is reported exactly   *)
(* when the file is rejected.                                              *)
RejectedIffLogged ==
  at \in {"loop", "done"} /\ ~undefined_read => (has_error <=> logged)

(* The names, numbers and operators of an AST, and of a list of them *)
Meaning(ast) ==
  SX!FlattenSeq([j \in DOMAIN ast |-> IF ast[j] \in Marks THEN <<>> ELSE <<ast[j]>>])

Meanings(list) == SX!FlattenSeq([i \in DOMAIN list |-> Meaning(list[i])])

(* ... and of tokens.  Other punctuators are not operators to the parser.  *)
Speaks(t) ==
  \/ t.tag \in {"kIdentifier", "kNumber"}
  \/ t.tag = "kPunctuator" /\ BinopPrecedence(t.lexeme) >= 0

Said(toks) ==
  SX!FlattenSeq([i \in DOMAIN toks |-> IF Speaks(toks[i]) THEN <<toks[i].lexeme>> ELSE <<>>])

(* Nothing is lost, doubled or moved: as long as there was no error (and   *)
(* the pointer of line 195 was not read), the items spell, in order, the   *)
(* names, numbers and operators of the tokens before the current one.      *)
NothingLost ==
  at \in {"loop", "done"} /\ ~logged /\ ~undefined_read =>
    Meanings(ast_list) = Said(SX!Front(read))

(* Every file is parsed to its end: each round of Parse takes a token.     *)
ParseReturns == <>(at \in {"done", "threw", "undefined"})

(***************************************************************************)
(* What the repository says of the parser, and the code does not do.       *)
(***************************************************************************)
Accepted == at = "done" /\ ~has_error

(* parser.h:116 "parenexpr ::= '(' expr ')'" *)
ParenthesesMatch ==
  Accepted => LET Count(p) == Len(SelectSeq(read, LAMBDA t : t.lexeme = p))
              IN  Count("(") = Count(")")

(* parser.h:155 "binoprhs ::= ('+' primary)*": what is accepted is kept.   *)
AcceptedIsWhole ==
  Accepted => Meanings(ast_list) = Said(read)
=============================================================================
