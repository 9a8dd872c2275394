---------------------------- MODULE ParserProofs ----------------------------
(***************************************************************************)
(* The parser keeps its call stack and its ASTs in order, for every set of *)
(* tokens and files of every length.                                       *)
(***************************************************************************)
EXTENDS Parser, SequenceTheorems, WellFoundedInduction, TLAPS

-----------------------------------------------------------------------------
(* ASTs *)

(* The symbols that Dump writes, and what the tokens hold, are symbols. *)
LEMMA SymbolFacts ==
  /\ {"", "(", ")", ",", "{", "}", NullMark} \subseteq Symbols
  /\ NullMark \notin {"", "(", ")", ",", "{", "}"}
  /\ Null \in AST
  BY DEF Symbols, NullMark, Null, AST

(* One symbol is an AST. *)
LEMMA SymbolAst ==
  ASSUME NEW x \in Symbols
  PROVE  /\ <<x>> \in AST /\ <<x>> # Null
         /\ x # NullMark => Whole(<<x>>)
  BY DEF AST, Null, Whole

(* Three symbols are an AST. *)
LEMMA TripleAst ==
  ASSUME NEW x \in Symbols, NEW y \in Symbols, NEW z \in Symbols
  PROVE  /\ <<x, y, z>> \in AST
         /\ NullMark \notin {x, y, z} => Whole(<<x, y, z>>)
  <1>1. <<x, y, z>> \in AST
    BY DEF AST
  <1>2. <<x, y, z>> # Null
    BY DEF Null
  <1>3. DOMAIN <<x, y, z>> = 1..3
        /\ <<x, y, z>>[1] = x /\ <<x, y, z>>[2] = y /\ <<x, y, z>>[3] = z
    OBVIOUS
  <1>4. NullMark \notin {x, y, z} => \A j \in 1..3 : <<x, y, z>>[j] # NullMark
    BY <1>3
  <1>5. QED
    BY <1>1, <1>2, <1>3, <1>4 DEF Whole

(* ASTs put together are an AST, whole if both are. *)
LEMMA ConcatAst ==
  ASSUME NEW a \in AST, NEW b \in AST
  PROVE  /\ a \o b \in AST
         /\ a # Null \/ b # Null => a \o b # Null
         /\ Whole(a) /\ Whole(b) => Whole(a \o b)
  <1>1. /\ a \o b \in Seq(Symbols) /\ Len(a \o b) = Len(a) + Len(b)
        /\ \A i \in 1..(Len(a) + Len(b)) :
             (a \o b)[i] = IF i <= Len(a) THEN a[i] ELSE b[i - Len(a)]
        /\ Len(a) \in Nat /\ Len(b) \in Nat
        /\ DOMAIN a = 1..Len(a) /\ DOMAIN b = 1..Len(b)
        /\ DOMAIN (a \o b) = 1..Len(a \o b)
    BY ConcatProperties, LenProperties DEF AST
  <1>2. a # Null \/ b # Null => a \o b # Null
    BY ConcatEqualIffEmpty DEF AST, Null
  <1>3. ASSUME Whole(a), Whole(b) PROVE Whole(a \o b)
    <2>1. \A i \in DOMAIN (a \o b) : (a \o b)[i] # NullMark
      BY <1>1, <1>3 DEF Whole
    <2>2. QED
      BY <1>2, <1>3, <2>1 DEF Whole
  <1>4. QED
    BY <1>1, <1>2, <1>3 DEF AST

(* One more symbol keeps an AST whole. *)
LEMMA AppendAst ==
  ASSUME NEW a \in AST, NEW x \in Symbols
  PROVE  /\ Append(a, x) \in AST
         /\ Append(a, x) # Null
         /\ Whole(a) /\ x # NullMark => Whole(Append(a, x))
  <1>1. Append(a, x) = a \o <<x>>
    BY DEF AST
  <1>2. QED
    BY <1>1, SymbolAst, ConcatAst

(* One more item in a list keeps an AST whole. *)
LEMMA ItemAst ==
  ASSUME NEW a \in AST, NEW b \in AST
  PROVE  /\ Item(a, b) \in AST
         /\ Whole(a) /\ Whole(b) => Whole(Item(a, b))
  <1>1. <<",">> \in AST /\ Whole(<<",">>)
    BY SymbolFacts, SymbolAst
  <1>2. /\ a \o <<",">> \in AST
        /\ Whole(a) => Whole(a \o <<",">>)
    BY <1>1, ConcatAst
  <1>3. /\ (a \o <<",">>) \o b \in AST /\ a \o b \in AST
        /\ Whole(a) /\ Whole(b) => Whole((a \o <<",">>) \o b) /\ Whole(a \o b)
    BY <1>2, ConcatAst
  <1>4. QED
    BY <1>3 DEF Item

(* An operand as it is written is an AST. *)
LEMMA ShownAst ==
  ASSUME NEW a \in AST
  PROVE  /\ Shown(a) \in AST
         /\ Whole(a) => Whole(Shown(a))
  BY SymbolFacts, SymbolAst DEF Shown, Whole

(* A binary expression is an AST, whole if both operands are. *)
LEMMA BinaryAst ==
  ASSUME NEW op \in Symbols, NEW a \in AST, NEW b \in AST
  PROVE  /\ BinaryExpr(op, a, b) \in AST
         /\ Whole(a) /\ Whole(b) /\ op # NullMark => Whole(BinaryExpr(op, a, b))
  <1> DEFINE l == <<"(">> \o Shown(a)
             m == <<")", BinaryOpName(op), "(">>
  <1>0. BinaryOpName(op) \in Symbols /\ (op # NullMark => BinaryOpName(op) # NullMark)
    BY DEF BinaryOpName, Symbols, NullMark
  <1>1. <<"(">> \in AST /\ Whole(<<"(">>) /\ <<")">> \in AST /\ Whole(<<")">>)
    BY SymbolFacts, SymbolAst
  <1>2. m \in AST /\ (op # NullMark => Whole(m))
    BY <1>0, SymbolFacts, TripleAst
  <1>3. l \in AST /\ (Whole(a) => Whole(l))
    BY <1>1, ShownAst, ConcatAst
  <1>4. l \o m \in AST /\ (Whole(a) /\ op # NullMark => Whole(l \o m))
    BY <1>2, <1>3, ConcatAst
  <1>5. /\ (l \o m) \o Shown(b) \in AST
        /\ Whole(a) /\ Whole(b) /\ op # NullMark => Whole((l \o m) \o Shown(b))
    BY <1>4, ShownAst, ConcatAst
  <1>6. /\ ((l \o m) \o Shown(b)) \o <<")">> \in AST
        /\ Whole(a) /\ Whole(b) /\ op # NullMark =>
             Whole(((l \o m) \o Shown(b)) \o <<")">>)
    BY <1>1, <1>5, ConcatAst
  <1>7. QED
    BY <1>6 DEF BinaryExpr

(* A function is an AST, whole if its prototype and body are. *)
LEMMA FunctionAst ==
  ASSUME NEW p \in AST, NEW b \in AST
  PROVE  /\ Function(p, b) \in AST
         /\ Whole(p) /\ Whole(b) => Whole(Function(p, b))
  <1>1. <<"{">> \in AST /\ Whole(<<"{">>) /\ <<"}">> \in AST /\ Whole(<<"}">>)
    BY SymbolFacts, SymbolAst
  <1>2. p \o <<"{">> \in AST /\ (Whole(p) => Whole(p \o <<"{">>))
    BY <1>1, ConcatAst
  <1>3. /\ (p \o <<"{">>) \o b \in AST
        /\ Whole(p) /\ Whole(b) => Whole((p \o <<"{">>) \o b)
    BY <1>2, ConcatAst
  <1>4. QED
    BY <1>1, <1>3, ConcatAst DEF Function

-----------------------------------------------------------------------------
(* The stack *)

FrameInv(f, below) ==
  /\ f.fn \in {"Call", "Body"} => Whole(f.lhs)
  /\ f.fn = "SubExpr" => Whole(f.rhs)
  /\ f.fn \in {"BinOpRHS", "Operand", "SubExpr"} => Whole(f.lhs) \/ below = "SubExpr"

(* A return keeps the stack well formed. *)
LEMMA PopKeeps ==
  ASSUME NEW s \in Seq(Frames), s # <<>>, StackInv(s)
  PROVE  LET q == SubSeq(s, 1, Len(s) - 1)
         IN  /\ q \in Seq(Frames) /\ Len(q) = Len(s) - 1 /\ StackInv(q)
             /\ Len(s) > 1 => q # <<>> /\ q[Len(q)] = s[Len(s) - 1]
                              /\ q[Len(q)].fn # "BinOpRHS"
  <1> DEFINE q == SubSeq(s, 1, Len(s) - 1)
  <1>1. /\ Len(s) \in Nat /\ Len(s) > 0 /\ DOMAIN s = 1..Len(s)
        /\ \A i \in 1..(Len(s) - 1) : s[i] \in Frames
    BY EmptySeq, LenProperties, ElementOfSeq
  <1>2. /\ q \in Seq(Frames) /\ Len(q) = Len(s) - 1 /\ DOMAIN q = 1..Len(q)
        /\ \A i \in 1..(Len(s) - 1) : q[i] = s[i]
    BY <1>1
  <1>3. \A i \in 1..(Len(s) - 1) : s[i].fn # "BinOpRHS"
    BY <1>1 DEF StackInv
  <1>4. StackInv(q)
    <2> SUFFICES ASSUME NEW i \in 1..(Len(s) - 1)
        PROVE  /\ q[i].fn \in Handlers <=> i = 1
               /\ q[i].fn = "BinOpRHS" => i = Len(q)
               /\ q[i].fn \in {"Call", "Body"} => Whole(q[i].lhs)
               /\ q[i].fn = "SubExpr" => Whole(q[i].rhs)
               /\ q[i].fn \in {"BinOpRHS", "Operand", "SubExpr"} =>
                    Whole(q[i].lhs) \/ q[i - 1].fn = "SubExpr"
      BY <1>2 DEF StackInv
    <2>1. q[i] = s[i] /\ i \in DOMAIN s /\ s[i].fn # "BinOpRHS"
      BY <1>1, <1>2, <1>3
    <2>2. i # 1 => q[i - 1] = s[i - 1]
      BY <1>1, <1>2
    <2>3. i = 1 => q[i].fn \in Handlers
      BY <2>1 DEF StackInv
    <2>4. QED
      BY <2>1, <2>2, <2>3 DEF StackInv, Handlers
  <1>5. QED
    <2> HIDE DEF q
    <2>1. ASSUME Len(s) > 1
          PROVE  q # <<>> /\ q[Len(q)] = s[Len(s) - 1] /\ q[Len(q)].fn # "BinOpRHS"
      <3>1. Len(s) - 1 \in 1..(Len(s) - 1) /\ Len(q) = Len(s) - 1 /\ Len(q) # 0
        BY <1>1, <1>2, <2>1
      <3>2. q # <<>> /\ q[Len(q)] = s[Len(s) - 1]
        BY <1>2, <3>1
      <3>3. QED
        BY <1>3, <3>1, <3>2
    <2>2. QED
      BY <1>2, <1>4, <2>1 DEF q

(* A call keeps the stack well formed. *)
LEMMA PushKeeps ==
  ASSUME NEW s \in Seq(Frames), StackInv(s), NEW f \in Frames,
         s = <<>> <=> f.fn \in Handlers,
         s # <<>> => s[Len(s)].fn # "BinOpRHS",
         FrameInv(f, s[Len(s)].fn)
  PROVE  LET q == Append(s, f)
         IN  /\ q \in Seq(Frames) /\ Len(q) = Len(s) + 1 /\ StackInv(q)
             /\ q[Len(q)] = f /\ q # <<>>
  <1> DEFINE q == Append(s, f)
  <1>1. /\ Len(s) \in Nat /\ DOMAIN s = 1..Len(s)
        /\ s = <<>> <=> Len(s) = 0
    BY EmptySeq, LenProperties
  <1>2. /\ q \in Seq(Frames) /\ Len(q) = Len(s) + 1 /\ DOMAIN q = 1..Len(q)
        /\ \A i \in 1..Len(s) : q[i] = s[i]
        /\ q[Len(s) + 1] = f
    BY <1>1
  <1>3. ASSUME NEW i \in 1..Len(q)
        PROVE  /\ q[i].fn \in Handlers <=> i = 1
               /\ q[i].fn = "BinOpRHS" => i = Len(q)
               /\ q[i].fn \in {"Call", "Body"} => Whole(q[i].lhs)
               /\ q[i].fn = "SubExpr" => Whole(q[i].rhs)
               /\ q[i].fn \in {"BinOpRHS", "Operand", "SubExpr"} =>
                    Whole(q[i].lhs) \/ q[i - 1].fn = "SubExpr"
    <2>1. CASE i = Len(s) + 1
      <3>1. q[i] = f /\ (i = 1 <=> s = <<>>)
        BY <1>1, <1>2, <2>1
      <3>2. i # 1 => q[i - 1] = s[Len(s)]
        <4>1. i # 1 => Len(s) \in 1..Len(s) /\ i - 1 = Len(s)
          BY <1>1, <2>1
        <4>2. QED
          BY <1>2, <4>1
      <3>3. i = 1 => f.fn \notin {"BinOpRHS", "Operand", "SubExpr"}
        BY <3>1 DEF Handlers
      <3>4. QED
        BY <1>2, <2>1, <3>1, <3>2, <3>3 DEF FrameInv
    <2>2. CASE i # Len(s) + 1
      <3>1. i \in 1..Len(s) /\ i \in DOMAIN s /\ q[i] = s[i]
        BY <1>1, <1>2, <2>2
      <3>2. s[i].fn # "BinOpRHS"
        BY <1>1, <3>1 DEF StackInv
      <3>3. i # 1 => q[i - 1] = s[i - 1]
        BY <1>1, <1>2, <3>1
      <3>4. i = 1 => s[i].fn \in Handlers
        BY <3>1 DEF StackInv
      <3>5. QED
        BY <3>1, <3>2, <3>3, <3>4 DEF StackInv, Handlers
    <2>3. QED
      BY <2>1, <2>2
  <1>4. StackInv(q)
    BY <1>2, <1>3 DEF StackInv
  <1>5. QED
    BY <1>1, <1>2, <1>4

(* A change of the running call's frame keeps the stack well formed. *)
LEMMA ReplaceKeeps ==
  ASSUME NEW s \in Seq(Frames), s # <<>>, StackInv(s), NEW f \in Frames,
         s[Len(s)].fn \in Handlers <=> f.fn \in Handlers,
         FrameInv(f, s[Len(s) - 1].fn)
  PROVE  LET q == [s EXCEPT ![Len(s)] = f]
         IN  /\ q \in Seq(Frames) /\ Len(q) = Len(s) /\ StackInv(q)
             /\ q[Len(q)] = f /\ q # <<>>
  <1> DEFINE q == [s EXCEPT ![Len(s)] = f]
  <1>1. Len(s) \in Nat /\ Len(s) > 0 /\ DOMAIN s = 1..Len(s)
    BY EmptySeq, LenProperties
  <1>2. /\ q \in Seq(Frames) /\ Len(q) = Len(s) /\ DOMAIN q = 1..Len(q)
        /\ \A i \in 1..Len(s) : q[i] = IF i = Len(s) THEN f ELSE s[i]
    BY <1>1, ExceptSeq
  <1>3. ASSUME NEW i \in 1..Len(q)
        PROVE  /\ q[i].fn \in Handlers <=> i = 1
               /\ q[i].fn = "BinOpRHS" => i = Len(q)
               /\ q[i].fn \in {"Call", "Body"} => Whole(q[i].lhs)
               /\ q[i].fn = "SubExpr" => Whole(q[i].rhs)
               /\ q[i].fn \in {"BinOpRHS", "Operand", "SubExpr"} =>
                    Whole(q[i].lhs) \/ q[i - 1].fn = "SubExpr"
    <2>0. i \in DOMAIN s /\ (i # 1 => q[i - 1] = s[i - 1])
      BY <1>1, <1>2
    <2>1. CASE i = Len(s)
      <3>1. q[i] = f /\ (q[i].fn \in Handlers <=> i = 1)
        BY <1>1, <1>2, <2>0, <2>1 DEF StackInv
      <3>2. QED
        BY <1>2, <2>0, <2>1, <3>1 DEF FrameInv, Handlers
    <2>2. CASE i # Len(s)
      <3>1. q[i] = s[i] /\ s[i].fn # "BinOpRHS"
        BY <1>1, <1>2, <2>0, <2>2 DEF StackInv
      <3>2. QED
        BY <2>0, <3>1 DEF StackInv, Handlers
    <2>3. QED
      BY <2>1, <2>2
  <1>4. StackInv(q)
    BY <1>2, <1>3 DEF StackInv
  <1>5. QED
    BY <1>1, <1>2, <1>4

-----------------------------------------------------------------------------
(* Tokens, frames and the top of the stack *)

(* NextToken takes one token, or the lexer throws. *)
LEMMA NextTokenEffect ==
  ASSUME TypeOK, NEW p, NextToken(p)
  PROVE  /\ logged' = logged
         /\ read' \in Seq(Tokens \cup {End}) /\ broken' \in BOOLEAN
         /\ \/ at' = p /\ Len(read') = Len(read) + 1 /\ read' # <<>>
            \/ at' = "threw" /\ read' = read
  <1>1. read \in Seq(Tokens \cup {End}) /\ broken \in BOOLEAN
    BY DEF TypeOK
  <1>2. CASE Source!Break /\ at' = "threw"
    BY <1>1, <1>2 DEF NextToken, Source!Break
  <1>3. ASSUME NEW t \in Tokens \cup {End}, Source!Deliver(t), at' = p
        PROVE  /\ read' \in Seq(Tokens \cup {End}) /\ broken' \in BOOLEAN
               /\ Len(read') = Len(read) + 1 /\ read' # <<>>
    BY <1>1, <1>3 DEF Source!Deliver
  <1>4. QED
    BY <1>2, <1>3 DEF NextToken

(* The current token's lexeme is a symbol and no null operand. *)
LEMMA CurrentFacts ==
  ASSUME TypeOK, read # <<>>
  PROVE  /\ Len(read) \in Nat /\ Len(read) >= 1
         /\ Current.lexeme \in Symbols /\ Current.lexeme # NullMark
  <1>1. read \in Seq(Tokens \cup {End})
    BY DEF TypeOK
  <1>2. Len(read) \in Nat /\ Len(read) >= 1
    BY <1>1, EmptySeq
  <1>3. Current \in Tokens \cup {End}
    BY <1>1, <1>2, ElementOfSeq DEF Current
  <1>4. CASE Current \in Tokens
    <2>1. Current.lexeme \in {t.lexeme : t \in Tokens} /\ Current.lexeme # NullMark
      BY <1>4, TokenAssumption
    <2>2. QED
      BY <1>2, <2>1 DEF Symbols
  <1>5. CASE Current = End
    <2>1. Current.lexeme = ""
      BY <1>5 DEF End
    <2>2. QED
      BY <1>2, <2>1, SymbolFacts
  <1>6. QED
    BY <1>3, <1>4, <1>5

FrameNames ==
  Handlers \cup {"Expr", "Parentheses", "Call", "BinOpRHS", "Operand", "SubExpr"}

(* A new frame is a frame. *)
LEMMA FrameTypes ==
  ASSUME NEW f \in FrameNames
  PROVE  Frame(f) \in Frames /\ Frame(f).fn = f
  BY SymbolFacts DEF FrameNames, Frame, Frames

(* The running call's frame is what the invariant says of it. *)
LEMMA TopFacts ==
  ASSUME TypeOK, StackInv(stack), stack # <<>>
  PROVE  /\ Len(stack) \in Nat /\ Len(stack) >= 1
         /\ Top \in Frames /\ Top = stack[Len(stack)]
         /\ Top.prec \in Nat /\ Top.lhs \in AST /\ Top.rhs \in AST
         /\ Top.op \in Symbols \ {NullMark} /\ Top.fn \in FrameNames
         /\ FrameInv(Top, stack[Len(stack) - 1].fn)
         /\ Top.fn \in Handlers <=> Len(stack) = 1
  <1>1. stack \in Seq(Frames)
    BY DEF TypeOK
  <1>2. Len(stack) \in Nat /\ Len(stack) >= 1 /\ DOMAIN stack = 1..Len(stack)
    BY <1>1, EmptySeq, LenProperties
  <1>3. Top \in Frames /\ Len(stack) \in DOMAIN stack
    BY <1>1, <1>2, ElementOfSeq DEF Top
  <1>4. FrameInv(Top, stack[Len(stack) - 1].fn) /\ (Top.fn \in Handlers <=> Len(stack) = 1)
    BY <1>3 DEF StackInv, FrameInv, Top
  <1>5. QED
    BY <1>2, <1>3, <1>4 DEF Frames, FrameNames, Top

(* The callers of a function that returns, and of one that is called *)

(* PopKeeps, for the stack of the parser. *)
LEMMA PopStack ==
  ASSUME TypeOK, StackInv(stack), stack # <<>>, stack' = Pop, Top.fn \notin Handlers
  PROVE  /\ stack' \in Seq(Frames) /\ Len(stack') = Len(stack) - 1
         /\ StackInv(stack') /\ stack' # <<>>
         /\ stack'[Len(stack')] = stack[Len(stack) - 1]
         /\ stack'[Len(stack')].fn # "BinOpRHS"
  <1>1. stack \in Seq(Frames) /\ Len(stack) > 1
    <2>1. Len(stack) \in Nat /\ Len(stack) >= 1 /\ Len(stack) # 1
      BY TopFacts
    <2>2. stack \in Seq(Frames)
      BY DEF TypeOK
    <2>3. QED
      BY <2>1, <2>2
  <1>2. QED
    BY <1>1, PopKeeps DEF Pop

(* ReplaceKeeps, for the stack of the parser. *)
LEMMA ReplaceStack ==
  ASSUME TypeOK, StackInv(stack), stack # <<>>, NEW f \in Frames, stack' = Replace(f),
         Top.fn \in Handlers <=> f.fn \in Handlers,
         FrameInv(f, stack[Len(stack) - 1].fn)
  PROVE  /\ stack' \in Seq(Frames) /\ Len(stack') = Len(stack)
         /\ StackInv(stack') /\ stack' # <<>>
         /\ stack'[Len(stack')] = f
  BY ReplaceKeeps DEF TypeOK, Replace, Top

(* A call of ExprAST by another function keeps the stack well formed. *)
LEMMA CallOfExpr ==
  ASSUME NEW s \in Seq(Frames), s # <<>>, StackInv(s), s[Len(s)].fn # "BinOpRHS",
         NEW f \in Frames, f.fn \in {"Parentheses", "Call"},
         f.fn = "Call" => Whole(f.lhs)
  PROVE  LET q == s \o <<f, Frame("Expr")>>
         IN  /\ q \in Seq(Frames) /\ Len(q) = Len(s) + 2 /\ StackInv(q)
             /\ q # <<>> /\ q[Len(q)].fn = "Expr"
  <1> DEFINE r == Append(s, f)
  <1>1. Frame("Expr") \in Frames /\ Frame("Expr").fn = "Expr"
    BY FrameTypes DEF FrameNames
  <1>2. /\ r \in Seq(Frames) /\ Len(r) = Len(s) + 1 /\ StackInv(r)
        /\ r[Len(r)] = f /\ r # <<>>
    BY PushKeeps DEF FrameInv, Handlers
  <1>3. FrameInv(Frame("Expr"), r[Len(r)].fn) /\ r[Len(r)].fn # "BinOpRHS"
    BY <1>1, <1>2 DEF FrameInv
  <1> HIDE DEF r
  <1>4. /\ Append(r, Frame("Expr")) \in Seq(Frames)
        /\ Len(Append(r, Frame("Expr"))) = Len(s) + 2
        /\ StackInv(Append(r, Frame("Expr"))) /\ Append(r, Frame("Expr")) # <<>>
        /\ Append(r, Frame("Expr"))[Len(Append(r, Frame("Expr")))].fn = "Expr"
    <2>1. Frame("Expr").fn \notin Handlers
      BY <1>1 DEF Handlers
    <2>2. /\ Append(r, Frame("Expr")) \in Seq(Frames)
          /\ Len(Append(r, Frame("Expr"))) = Len(r) + 1
          /\ StackInv(Append(r, Frame("Expr"))) /\ Append(r, Frame("Expr")) # <<>>
          /\ Append(r, Frame("Expr"))[Len(Append(r, Frame("Expr")))] = Frame("Expr")
      BY <1>1, <1>2, <1>3, <2>1, PushKeeps
    <2>3. Len(s) \in Nat
      OBVIOUS
    <2>4. QED
      BY <1>1, <1>2, <2>2, <2>3
  <1>5. s \o <<f, Frame("Expr")>> = Append(r, Frame("Expr"))
    BY <1>1 DEF r
  <1>6. QED
    BY <1>4, <1>5

-----------------------------------------------------------------------------
(* A step of the parser, seen from the place it goes to *)

IInv == TypeOK /\ ParserInv

Places ==
  {"start", "loop", "recover", "prototype", "prototype_open", "prototype_args",
   "primary", "identifier", "call", "rhs", "return", "done", "threw", "undefined"}

(* The invariant at place p with stack s, value v and n tokens read *)
Arrived(p, s, v, n) ==
  /\ p \in Places /\ s \in Seq(Frames) /\ StackInv(s) /\ v \in AST
  /\ p \notin {"start", "threw"} => n >= 1
  /\ p \in {"start", "loop", "recover", "done"} => s = <<>>
  /\ p \in {"prototype", "prototype_open", "prototype_args"} =>
       Len(s) = 1 /\ s[Len(s)].fn \in {"Definition", "Extern"}
  /\ p \in {"primary", "identifier", "call"} =>
       s # <<>> /\ s[Len(s)].fn \in {"Expr", "Operand"}
  /\ p = "rhs" => s # <<>> /\ s[Len(s)].fn = "BinOpRHS"
  /\ p = "return" => s # <<>> /\ s[Len(s)].fn # "BinOpRHS"
  /\ p # "threw" => Len(s) <= 2 * n
  /\ p \in {"prototype_open", "prototype_args"} => n >= 2
  /\ p \in {"identifier", "call"} \/ (p = "return" /\ v # Null) => Len(s) + 2 <= 2 * n
  /\ p = "rhs" \/ (p = "return" /\ s[Len(s)].fn = "SubExpr") => Len(s) + 1 <= 2 * n
  /\ p \in {"prototype_open", "prototype_args", "identifier", "call"} => Whole(v)
  /\ p = "return" /\ v # Null => Whole(v) \/ s[Len(s)].fn = "SubExpr"

(* The invariant holds at the place the parser is at. *)
LEMMA ArrivedNow ==
  ASSUME IInv
  PROVE  Arrived(at, stack, value, Len(read)) /\ Len(read) \in Nat
  <1>1. read \in Seq(Tokens \cup {End}) /\ (read # <<>> => Len(read) \in Nat /\ Len(read) >= 1)
    BY CurrentFacts DEF IInv, TypeOK
  <1>2. Len(read) \in Nat
    BY <1>1
  <1>3. QED
    BY <1>1, <1>2 DEF IInv, TypeOK, ParserInv, Shape, Depth, Operands, Arrived, Places, Top

(* A step that arrives well at its next place keeps the invariant. *)
LEMMA ArrivedNext ==
  ASSUME Arrived(at', stack', value', Len(read')),
         read' \in Seq(Tokens \cup {End}), broken' \in BOOLEAN,
         at' \notin {"start", "threw"} => read' # <<>>,
         ast_list' \in Seq(AST), result' \in Seq(AST),
         \A i \in DOMAIN ast_list' : Whole(ast_list'[i]),
         has_error' \in BOOLEAN, logged' \in BOOLEAN, undefined_read' \in BOOLEAN
  PROVE  IInv'
  <1>1. TypeOK'
    BY DEF TypeOK, Arrived, Places
  <1>2. Shape' /\ Depth'
    BY DEF Arrived, Shape, Depth, Top
  <1>3. StackInv(stack)' /\ Operands'
    BY DEF Arrived, Operands, Top
  <1>4. QED
    BY <1>1, <1>2, <1>3 DEF IInv, ParserInv

(* A step that takes a token *)
LEMMA TokenStep ==
  ASSUME IInv, NEW p, NextToken(p), UNCHANGED outcome, undefined_read' \in BOOLEAN,
         Arrived(p, stack', value', Len(read) + 1)
  PROVE  IInv'
  <1>1. /\ logged' = logged
        /\ read' \in Seq(Tokens \cup {End}) /\ broken' \in BOOLEAN
        /\ \/ at' = p /\ Len(read') = Len(read) + 1 /\ read' # <<>>
           \/ at' = "threw" /\ read' = read
    BY NextTokenEffect DEF IInv
  <1>2. Arrived("threw", stack', value', Len(read'))
    BY DEF Arrived, Places
  <1>3. /\ ast_list' \in Seq(AST) /\ result' \in Seq(AST)
        /\ \A i \in DOMAIN ast_list' : Whole(ast_list'[i])
        /\ has_error' \in BOOLEAN /\ logged' \in BOOLEAN
    BY <1>1 DEF IInv, TypeOK, ParserInv, Operands, outcome
  <1>4. QED
    BY <1>1, <1>2, <1>3, ArrivedNext

(* A step that takes none *)
LEMMA InnerStep ==
  ASSUME IInv, UNCHANGED sourceVars, UNCHANGED outcome,
         logged' \in BOOLEAN, undefined_read' \in BOOLEAN, at \notin {"start", "threw"},
         Arrived(at', stack', value', Len(read))
  PROVE  IInv'
  <1>1. /\ read' \in Seq(Tokens \cup {End}) /\ broken' \in BOOLEAN
        /\ read' = read /\ read # <<>>
    BY DEF IInv, TypeOK, ParserInv, Shape, sourceVars
  <1>2. /\ ast_list' \in Seq(AST) /\ result' \in Seq(AST)
        /\ \A i \in DOMAIN ast_list' : Whole(ast_list'[i])
        /\ has_error' \in BOOLEAN
    BY DEF IInv, TypeOK, ParserInv, Operands, outcome
  <1>3. QED
    BY <1>1, <1>2, ArrivedNext

(* The constructed parser satisfies the invariant. *)
LEMMA InvInit == Init => IInv
  <1> SUFFICES ASSUME Init PROVE IInv
    OBVIOUS
  <1> USE DEF Init
  <1>1. read = <<>> /\ broken = FALSE
    BY DEF Source!Init
  <1>2. TypeOK
    <2>1. value \in AST
      BY SymbolFacts
    <2>2. stack \in Seq(Frames) /\ ast_list \in Seq(AST) /\ result \in Seq(AST)
          /\ read \in Seq(Tokens \cup {End})
      BY <1>1
    <2>3. QED
      BY <1>1, <2>1, <2>2 DEF TypeOK
  <1>3. Shape /\ Depth /\ Operands
    BY <1>1 DEF Shape, Depth, Operands
  <1>4. StackInv(stack)
    BY DEF StackInv
  <1>5. QED
    BY <1>2, <1>3, <1>4 DEF IInv, ParserInv

-----------------------------------------------------------------------------
(* The steps of Parse and of the handlers *)

(* The steps of Parse itself keep the invariant. *)
LEMMA LoopStep ==
  ASSUME IInv, Start \/ ParseEnd \/ ParseDefinition \/ ParseExtern \/ ParseSemicolon
               \/ ParseGlobalExpr \/ Recover
  PROVE  IInv'
  <1>1. /\ stack \in Seq(Frames) /\ value \in AST /\ Len(read) \in Nat
        /\ undefined_read \in BOOLEAN /\ logged \in BOOLEAN
    BY ArrivedNow DEF IInv, TypeOK
  <1>2. <<>> \in Seq(Frames) /\ StackInv(<<>>) /\ Len(<<>>) = 0
    BY DEF StackInv
  <1>3. ASSUME NEW f \in {"Definition", "Extern"}
        PROVE  LET q == <<Frame(f)>>
               IN  /\ q \in Seq(Frames) /\ Len(q) = 1 /\ StackInv(q)
                   /\ q[Len(q)].fn = f /\ q # <<>>
    <2>1. Frame(f) \in Frames /\ Frame(f).fn = f
      BY <1>3, FrameTypes DEF FrameNames, Handlers
    <2>2. DOMAIN <<Frame(f)>> = {1} /\ <<Frame(f)>>[1] = Frame(f) /\ Len(<<Frame(f)>>) = 1
      BY <2>1
    <2>3. StackInv(<<Frame(f)>>)
      BY <1>3, <2>1, <2>2 DEF StackInv, Handlers
    <2>4. <<Frame(f)>> \in Seq(Frames) /\ <<Frame(f)>> # <<>>
      BY <2>1
    <2>5. <<Frame(f)>>[Len(<<Frame(f)>>)].fn = f
      BY <2>1, <2>2
    <2> HIDE DEF Frame
    <2>6. QED
      BY <2>2, <2>3, <2>4, <2>5
  <1>4. at \in {"start", "loop", "recover"} => stack = <<>>
    BY DEF IInv, ParserInv, Shape
  <1>5. at \in {"loop", "recover"} => Len(read) >= 1
    BY CurrentFacts DEF IInv, ParserInv, Shape
  <1>6. CASE Start \/ ParseSemicolon
    <2>0. stack' = <<>> /\ value' = value
      BY <1>4, <1>6 DEF Start, ParseSemicolon
    <2>1. Arrived("loop", stack', value', Len(read) + 1)
      BY <1>1, <1>2, <2>0 DEF Arrived, Places
    <2>2. QED
      BY <1>1, <1>6, <2>1, TokenStep DEF Start, ParseSemicolon, Within
  <1>7. CASE ParseEnd
    <2>1. Arrived("done", stack', value', Len(read))
      BY <1>1, <1>2, <1>4, <1>5, <1>7 DEF ParseEnd, Arrived, Places
    <2>2. /\ at' = "done" /\ read' = read /\ broken' = broken /\ ast_list' = ast_list
          /\ has_error' = has_error /\ logged' = logged /\ undefined_read' = undefined_read
          /\ result' \in {<<>>, ast_list}
      BY <1>7 DEF ParseEnd, sourceVars
    <2>3. /\ read \in Seq(Tokens \cup {End}) /\ broken \in BOOLEAN /\ read # <<>>
          /\ ast_list \in Seq(AST) /\ <<>> \in Seq(AST) /\ has_error \in BOOLEAN
          /\ \A i \in DOMAIN ast_list : Whole(ast_list[i])
      BY <1>7 DEF ParseEnd, IInv, TypeOK, ParserInv, Shape, Operands
    <2>4. QED
      BY <1>1, <2>1, <2>2, <2>3, ArrivedNext
  <1>8. CASE ParseDefinition
    <2>1. NextToken("prototype") /\ stack' = <<Frame("Definition")>> /\ value' = value
          /\ Len(read) >= 1
      BY <1>5, <1>8 DEF ParseDefinition
    <2>2. Arrived("prototype", stack', value', Len(read) + 1)
      BY <1>1, <1>3, <2>1 DEF Arrived, Places, Handlers
    <2>3. QED
      BY <1>1, <1>8, <2>1, <2>2, TokenStep DEF ParseDefinition, Within
  <1>9. CASE ParseExtern
    <2>1. /\ at' = "prototype" /\ value' = value /\ Len(read) >= 1
          /\ stack' = <<Frame("Extern")>>
      BY <1>4, <1>5, <1>9 DEF ParseExtern, Call
    <2>2. Arrived(at', stack', value', Len(read))
      BY <1>1, <1>3, <2>1 DEF Arrived, Places, Handlers
    <2>3. QED
      BY <1>1, <1>9, <2>2, InnerStep DEF ParseExtern, Within
  <1>10. CASE ParseGlobalExpr
    <2>1. /\ at' = "primary" /\ value' = value /\ Len(read) >= 1
          /\ stack' = <<Frame("Global"), Frame("Expr")>>
      BY <1>5, <1>10 DEF ParseGlobalExpr
    <2>2. /\ stack' \in Seq(Frames) /\ Len(stack') = 2 /\ StackInv(stack')
          /\ stack' # <<>> /\ stack'[Len(stack')].fn = "Expr"
      <3>1. /\ Frame("Global") \in Frames /\ Frame("Global").fn = "Global"
            /\ Frame("Expr") \in Frames /\ Frame("Expr").fn = "Expr"
        BY FrameTypes DEF FrameNames, Handlers
      <3>2. /\ stack' \in Seq(Frames) /\ Len(stack') = 2 /\ DOMAIN stack' = 1..2
            /\ stack'[1].fn = "Global" /\ stack'[2].fn = "Expr"
        BY <2>1, <3>1
      <3>3. StackInv(stack')
        BY <3>2 DEF StackInv, Handlers
      <3>4. QED
        BY <3>2, <3>3
    <2>3. Arrived(at', stack', value', Len(read))
      BY <1>1, <2>1, <2>2 DEF Arrived, Places
    <2>4. QED
      BY <1>1, <1>10, <2>3, InnerStep DEF ParseGlobalExpr, Within
  <1>11. CASE Recover
    <2>1. /\ NextToken("loop") /\ stack' = <<>> /\ value' = value
          /\ has_error' \in BOOLEAN /\ ast_list' = ast_list /\ result' = result
          /\ undefined_read' = undefined_read
      BY <1>4, <1>11 DEF Recover, IInv, TypeOK
    <2>2. /\ read' \in Seq(Tokens \cup {End}) /\ broken' \in BOOLEAN
          /\ logged' = logged
          /\ \/ at' = "loop" /\ Len(read') = Len(read) + 1 /\ read' # <<>>
             \/ at' = "threw" /\ read' = read
      BY <2>1, NextTokenEffect DEF IInv
    <2>3. Arrived(at', stack', value', Len(read'))
      BY <1>1, <1>2, <2>1, <2>2 DEF Arrived, Places
    <2>4. /\ ast_list \in Seq(AST) /\ result \in Seq(AST)
          /\ \A i \in DOMAIN ast_list : Whole(ast_list[i])
      BY DEF IInv, TypeOK, ParserInv, Operands
    <2>5. QED
      BY <1>1, <2>1, <2>2, <2>3, <2>4, ArrivedNext
  <1>12. QED
    BY <1>6, <1>7, <1>8, <1>9, <1>10, <1>11

(* PrototypeAST *)
LEMMA PrototypeStep ==
  ASSUME IInv, PrototypeName \/ PrototypeOpen \/ PrototypeArgs
  PROVE  IInv'
  <1>1. /\ stack \in Seq(Frames) /\ StackInv(stack) /\ value \in AST
        /\ Len(read) \in Nat /\ Len(read) >= 1 /\ logged \in BOOLEAN
        /\ undefined_read \in BOOLEAN
        /\ Current.lexeme \in Symbols /\ Current.lexeme # NullMark
        /\ at \in {"prototype", "prototype_open", "prototype_args"}
    BY CurrentFacts DEF IInv, TypeOK, ParserInv, Shape, PrototypeName, PrototypeOpen,
                        PrototypeArgs
  <1>2. stack' = stack /\ UNCHANGED outcome /\ undefined_read' = undefined_read
    BY DEF PrototypeName, PrototypeOpen, PrototypeArgs, Within
  <1>3. /\ Len(stack) = 1 /\ stack[Len(stack)].fn \in {"Definition", "Extern"}
        /\ at \in {"prototype_open", "prototype_args"} => Len(read) >= 2 /\ Whole(value)
        /\ stack[Len(stack)].fn \notin {"BinOpRHS", "SubExpr"} /\ stack # <<>>
    <2>1. /\ Len(stack) = 1 /\ stack[Len(stack)].fn \in {"Definition", "Extern"}
          /\ at \in {"prototype_open", "prototype_args"} => Len(read) >= 2 /\ Whole(value)
      BY <1>1 DEF IInv, ParserInv, Shape, Depth, Operands, Top
    <2>2. stack # <<>>
      <3>1. Len(stack) = 1 /\ Len(<<>>) = 0
        BY <2>1
      <3>2. QED
        BY ONLY <3>1
    <2>3. QED
      BY <2>1, <2>2
  <1>4. CASE Error
    <2>0. at' = "return" /\ value' = Null /\ value' \in AST
      BY <1>4, SymbolFacts DEF Error, Return
    <2>1. Arrived(at', stack', value', Len(read)) /\ UNCHANGED sourceVars /\ logged' = TRUE
      BY <1>1, <1>2, <1>3, <1>4, <2>0 DEF Error, Arrived, Places
    <2>2. QED
      BY <1>1, <1>2, <2>1, InnerStep
  <1>5. ASSUME NEW p \in {"prototype_open", "prototype_args"}, NextToken(p),
               value' \in AST, Whole(value')
        PROVE  IInv'
    <2>1. Arrived(p, stack', value', Len(read) + 1)
      BY <1>1, <1>2, <1>3, <1>5 DEF Arrived, Places
    <2>2. QED
      BY <1>1, <1>2, <1>5, <2>1, TokenStep
  <1>6. ASSUME NextToken("return"), value' \in AST, Whole(value'), Len(read) >= 2
        PROVE  IInv'
    <2>1. Arrived("return", stack', value', Len(read) + 1)
      BY <1>1, <1>2, <1>3, <1>6 DEF Arrived, Places
    <2>2. QED
      BY <1>1, <1>2, <1>6, <2>1, TokenStep
  <1>7. <<Current.lexeme>> \in AST /\ Whole(<<Current.lexeme>>)
    BY <1>1, SymbolAst
  <1>8. CASE PrototypeName
    BY <1>4, <1>5, <1>7, <1>8 DEF PrototypeName
  <1>9. CASE PrototypeOpen
    <2>1. Append(value, "(") \in AST /\ Whole(Append(value, "("))
      BY <1>1, <1>3, <1>9, AppendAst, SymbolFacts DEF PrototypeOpen
    <2>2. QED
      BY <1>4, <1>5, <1>9, <2>1 DEF PrototypeOpen
  <1>10. CASE PrototypeArgs
    <2>1. Len(read) >= 2 /\ Whole(value)
      BY <1>3, <1>10 DEF PrototypeArgs
    <2>2. /\ Append(value, ")") \in AST /\ Whole(Append(value, ")"))
          /\ Item(value, <<Current.lexeme>>) \in AST
          /\ Whole(Item(value, <<Current.lexeme>>))
      BY <1>1, <1>7, <2>1, AppendAst, ItemAst, SymbolFacts
    <2>3. QED
      BY <1>4, <1>5, <1>6, <1>10, <2>1, <2>2 DEF PrototypeArgs
  <1>11. QED
    BY <1>8, <1>9, <1>10

-----------------------------------------------------------------------------
(* PrimaryExprAST and the functions it calls *)

(* PrimaryExprAST keeps the invariant. *)
LEMMA PrimaryStep ==
  ASSUME IInv, PrimaryNumber \/ PrimaryIdentifier \/ PrimaryParentheses \/ PrimaryError
  PROVE  IInv'
  <1>1. at = "primary" /\ UNCHANGED outcome /\ undefined_read' = undefined_read
    BY DEF PrimaryNumber, PrimaryIdentifier, PrimaryParentheses, PrimaryError, Within
  <1>2. /\ stack \in Seq(Frames) /\ StackInv(stack) /\ value \in AST
        /\ Len(read) \in Nat /\ Len(read) >= 1 /\ logged \in BOOLEAN
        /\ undefined_read \in BOOLEAN
        /\ Current.lexeme \in Symbols /\ Current.lexeme # NullMark
        /\ stack # <<>> /\ stack[Len(stack)].fn \in {"Expr", "Operand"}
        /\ Len(stack) <= 2 * Len(read)
    BY <1>1, CurrentFacts DEF IInv, TypeOK, ParserInv, Shape, Depth, Top
  <1>3. Len(stack) \in Nat
    BY <1>2
  <1>4. <<Current.lexeme>> \in AST /\ Whole(<<Current.lexeme>>)
    BY <1>2, SymbolAst
  <1>5. CASE PrimaryNumber
    <2>1. NextToken("return") /\ stack' = stack /\ value' = <<Current.lexeme>>
      BY <1>5 DEF PrimaryNumber
    <2>2. Arrived("return", stack', value', Len(read) + 1)
      BY <1>2, <1>3, <1>4, <2>1 DEF Arrived, Places
    <2>3. QED
      BY <1>1, <1>2, <2>1, <2>2, TokenStep
  <1>6. CASE PrimaryIdentifier
    <2>1. NextToken("identifier") /\ stack' = stack /\ value' = <<Current.lexeme>>
      BY <1>6 DEF PrimaryIdentifier
    <2>2. Arrived("identifier", stack', value', Len(read) + 1)
      BY <1>2, <1>3, <1>4, <2>1 DEF Arrived, Places
    <2>3. QED
      BY <1>1, <1>2, <2>1, <2>2, TokenStep
  <1>7. CASE PrimaryParentheses
    <2>1. /\ NextToken("primary") /\ value' = value
          /\ stack' = stack \o <<Frame("Parentheses"), Frame("Expr")>>
      BY <1>7 DEF PrimaryParentheses
    <2>2. Frame("Parentheses") \in Frames /\ Frame("Parentheses").fn = "Parentheses"
      BY FrameTypes DEF FrameNames
    <2>3. /\ stack' \in Seq(Frames) /\ Len(stack') = Len(stack) + 2 /\ StackInv(stack')
          /\ stack' # <<>> /\ stack'[Len(stack')].fn = "Expr"
      BY <1>2, <2>1, <2>2, CallOfExpr
    <2>4. Arrived("primary", stack', value', Len(read) + 1)
      BY <1>2, <1>3, <2>1, <2>3 DEF Arrived, Places
    <2>5. QED
      BY <1>1, <1>2, <2>1, <2>4, TokenStep
  <1>8. CASE PrimaryError
    <2>1. /\ at' = "return" /\ value' = Null /\ value' \in AST /\ stack' = stack
          /\ logged' = TRUE /\ UNCHANGED sourceVars
      BY <1>8, SymbolFacts DEF PrimaryError, Error, Return
    <2>2. Arrived(at', stack', value', Len(read))
      BY <1>2, <1>3, <2>1 DEF Arrived, Places
    <2>3. QED
      BY <1>1, <1>2, <2>1, <2>2, InnerStep
  <1>9. QED
    BY <1>5, <1>6, <1>7, <1>8

(* IdentifierExprAST, up to its first argument, keeps the invariant. *)
LEMMA IdentifierStep ==
  ASSUME IInv, Variable \/ CallOpen \/ CallFirst
  PROVE  IInv'
  <1>1. /\ at \in {"identifier", "call"} /\ UNCHANGED outcome
        /\ undefined_read' = undefined_read
    BY DEF Variable, CallOpen, CallFirst, Within
  <1>2. /\ stack \in Seq(Frames) /\ StackInv(stack) /\ value \in AST /\ Whole(value)
        /\ Len(read) \in Nat /\ Len(read) >= 1 /\ logged \in BOOLEAN
        /\ undefined_read \in BOOLEAN
        /\ stack # <<>> /\ stack[Len(stack)].fn \in {"Expr", "Operand"}
        /\ Len(stack) + 2 <= 2 * Len(read)
    BY <1>1, CurrentFacts DEF IInv, TypeOK, ParserInv, Shape, Depth, Operands, Top
  <1>3. Len(stack) \in Nat
    BY <1>2
  <1>4. CASE Variable
    <2>1. /\ at' = "return" /\ value' = value /\ stack' = stack
          /\ logged' = logged /\ UNCHANGED sourceVars
      BY <1>4 DEF Variable, Return
    <2>2. Arrived(at', stack', value', Len(read))
      BY <1>2, <1>3, <2>1 DEF Arrived, Places
    <2>3. QED
      BY <1>1, <1>2, <2>1, <2>2, InnerStep
  <1>5. ASSUME NEW x \in {"(", ")"}, NEW p \in {"call", "return"}, NextToken(p),
               value' = Append(value, x), stack' = stack
        PROVE  IInv'
    <2>1. value' \in AST /\ Whole(value')
      BY <1>2, <1>5, AppendAst, SymbolFacts
    <2>2. Arrived(p, stack', value', Len(read) + 1)
      BY <1>2, <1>3, <1>5, <2>1 DEF Arrived, Places
    <2>3. QED
      BY <1>1, <1>2, <1>5, <2>2, TokenStep
  <1>6. CASE CallOpen
    BY <1>5, <1>6 DEF CallOpen
  <1>7. CASE CallFirst
    <2>1. CASE NextToken("return") /\ value' = Append(value, ")") /\ stack' = stack
      BY <1>5, <2>1
    <2>2. CASE /\ at' = "primary" /\ value' = value /\ logged' = logged
               /\ UNCHANGED sourceVars
               /\ stack' = stack \o <<[Frame("Call") EXCEPT !.lhs = value], Frame("Expr")>>
      <3> DEFINE f == [Frame("Call") EXCEPT !.lhs = value]
      <3>1. Frame("Call") \in Frames /\ Frame("Call").fn = "Call"
        BY FrameTypes DEF FrameNames
      <3>2. f \in Frames /\ f.fn = "Call" /\ f.lhs = value
        BY <1>2, <3>1 DEF Frames
      <3>3. /\ stack' \in Seq(Frames) /\ Len(stack') = Len(stack) + 2
            /\ StackInv(stack')
            /\ stack' # <<>> /\ stack'[Len(stack')].fn = "Expr"
        <4> HIDE DEF f
        <4>1. stack[Len(stack)].fn # "BinOpRHS"
          BY <1>2
        <4>2. stack' = stack \o <<f, Frame("Expr")>>
          BY <2>2 DEF f
        <4>3. QED
          BY <1>2, <3>2, <4>1, <4>2, CallOfExpr
      <3>4. Arrived(at', stack', value', Len(read))
        BY <1>2, <1>3, <2>2, <3>3 DEF Arrived, Places
      <3>5. QED
        BY <1>1, <1>2, <2>2, <3>4, InnerStep
    <2>3. QED
      BY <1>7, <2>1, <2>2 DEF CallFirst
  <1>8. QED
    BY <1>4, <1>6, <1>7

-----------------------------------------------------------------------------
(* BinOpRHS *)

(* The head of BinOpRHS's loop keeps the invariant. *)
LEMMA BinOpStep ==
  ASSUME IInv, BinOpRHS
  PROVE  IInv'
  <1>1. at = "rhs" /\ UNCHANGED outcome /\ undefined_read' = undefined_read /\ value' \in AST
    <2>1. value' = value \/ value' = Top.lhs
      BY DEF BinOpRHS, Return
    <2>2. QED
      BY <2>1, TopFacts DEF BinOpRHS, Within, IInv, TypeOK, ParserInv, Shape
  <1>2. /\ stack # <<>> /\ Top.fn = "BinOpRHS" /\ StackInv(stack)
        /\ stack \in Seq(Frames) /\ value \in AST
        /\ Len(read) \in Nat /\ Len(read) >= 1 /\ logged \in BOOLEAN
        /\ undefined_read \in BOOLEAN /\ Current.lexeme \in Symbols \ {NullMark}
        /\ Len(stack) + 1 <= 2 * Len(read)
    BY <1>1, CurrentFacts DEF IInv, TypeOK, ParserInv, Shape, Depth
  <1>3. /\ Len(stack) \in Nat /\ Len(stack) >= 1
        /\ Top \in Frames /\ Top.lhs \in AST
        /\ Whole(Top.lhs) \/ stack[Len(stack) - 1].fn = "SubExpr"
        /\ Top.fn \notin Handlers
    BY <1>2, TopFacts DEF IInv, FrameInv, Handlers
  <1>4. CASE /\ NextToken("primary") /\ value' = value
             /\ stack' = Replace([Top EXCEPT !.fn = "Operand", !.op = Current.lexeme])
    <2> DEFINE f == [Top EXCEPT !.fn = "Operand", !.op = Current.lexeme]
    <2>1. f \in Frames /\ f.fn = "Operand" /\ f.lhs = Top.lhs
      BY <1>2, <1>3 DEF Frames
    <2> HIDE DEF f
    <2>2. FrameInv(f, stack[Len(stack) - 1].fn) /\ f.fn \notin Handlers
      BY <1>3, <2>1 DEF FrameInv, Handlers
    <2>3. stack' = Replace(f)
      BY <1>4 DEF f
    <2>4. /\ stack' \in Seq(Frames) /\ Len(stack') = Len(stack) /\ StackInv(stack')
          /\ stack' # <<>> /\ stack'[Len(stack')].fn = "Operand"
      BY <1>2, <1>3, <2>1, <2>2, <2>3, ReplaceStack DEF IInv
    <2>5. Arrived("primary", stack', value', Len(read) + 1)
      BY <1>1, <1>2, <1>3, <2>4 DEF Arrived, Places
    <2>6. QED
      BY <1>1, <1>2, <1>4, <2>5, TokenStep
  <1>5. CASE /\ Return(Top.lhs) /\ stack' = Pop /\ logged' = logged
             /\ UNCHANGED sourceVars
    <2>1. at' = "return" /\ value' = Top.lhs
      BY <1>5 DEF Return
    <2>2. /\ stack' \in Seq(Frames) /\ Len(stack') = Len(stack) - 1 /\ StackInv(stack')
          /\ stack' # <<>> /\ stack'[Len(stack')] = stack[Len(stack) - 1]
          /\ stack'[Len(stack')].fn # "BinOpRHS"
      BY <1>2, <1>3, <1>5, PopStack DEF IInv
    <2>3. Arrived(at', stack', value', Len(read))
      BY <1>1, <1>2, <1>3, <2>1, <2>2 DEF Arrived, Places
    <2>4. QED
      BY <1>1, <1>2, <1>5, <2>3, InnerStep
  <1>6. QED
    BY <1>4, <1>5 DEF BinOpRHS

-----------------------------------------------------------------------------
(* Returns *)

(* What is known when a function returns *)
LEMMA ReturnFacts ==
  ASSUME IInv, at = "return"
  PROVE  /\ stack # <<>> /\ StackInv(stack) /\ stack \in Seq(Frames) /\ value \in AST
         /\ Len(read) \in Nat /\ Len(read) >= 1
         /\ logged \in BOOLEAN /\ undefined_read \in BOOLEAN
         /\ Len(stack) \in Nat /\ Len(stack) >= 1 /\ Len(stack) <= 2 * Len(read)
         /\ value # Null => Len(stack) + 2 <= 2 * Len(read)
         /\ Top.fn = "SubExpr" => Len(stack) + 1 <= 2 * Len(read)
         /\ value # Null => Whole(value) \/ Top.fn = "SubExpr"
         /\ Top \in Frames /\ Top.fn \in FrameNames /\ Top.fn # "BinOpRHS"
         /\ Top.prec \in Nat /\ Top.lhs \in AST /\ Top.rhs \in AST
         /\ Top.op \in Symbols \ {NullMark}
         /\ FrameInv(Top, stack[Len(stack) - 1].fn)
         /\ Top.fn \in Handlers <=> Len(stack) = 1
  <1>1. /\ stack # <<>> /\ Top.fn # "BinOpRHS" /\ StackInv(stack)
        /\ stack \in Seq(Frames) /\ value \in AST /\ read # <<>>
        /\ logged \in BOOLEAN /\ undefined_read \in BOOLEAN
    BY DEF IInv, TypeOK, ParserInv, Shape
  <1>2. /\ Len(stack) <= 2 * Len(read)
        /\ value # Null => Len(stack) + 2 <= 2 * Len(read)
        /\ Top.fn = "SubExpr" => Len(stack) + 1 <= 2 * Len(read)
        /\ value # Null => Whole(value) \/ Top.fn = "SubExpr"
    BY DEF IInv, ParserInv, Depth, Operands
  <1>3. QED
    BY <1>1, <1>2, TopFacts, CurrentFacts DEF IInv

(* A function returns to its caller: nothing, or an AST without holes. *)
LEMMA ReturnStep ==
  ASSUME IInv, at = "return", Top.fn \notin Handlers, stack' = Pop,
         UNCHANGED outcome, undefined_read' = undefined_read,
         value' \in AST, value' # Null => value # Null /\ Whole(value'),
         \/ NextToken("return")
         \/ at' = "return" /\ UNCHANGED sourceVars /\ logged' \in BOOLEAN
  PROVE  IInv'
  <1>1. /\ stack' \in Seq(Frames) /\ Len(stack') = Len(stack) - 1 /\ StackInv(stack')
        /\ stack' # <<>> /\ stack'[Len(stack')].fn # "BinOpRHS"
    BY ReturnFacts, PopStack DEF IInv
  <1>2. /\ Len(read) \in Nat /\ Len(read) >= 1 /\ Len(stack) \in Nat
        /\ Len(stack) <= 2 * Len(read) /\ undefined_read' \in BOOLEAN
        /\ value # Null => Len(stack) + 2 <= 2 * Len(read)
    BY ReturnFacts
  <1>3. /\ Arrived("return", stack', value', Len(read))
        /\ Arrived("return", stack', value', Len(read) + 1)
    BY <1>1, <1>2 DEF Arrived, Places
  <1>4. CASE NextToken("return")
    BY <1>2, <1>3, <1>4, TokenStep
  <1>5. CASE at' = "return" /\ UNCHANGED sourceVars /\ logged' \in BOOLEAN
    BY <1>2, <1>3, <1>5, InnerStep
  <1>6. QED
    BY <1>4, <1>5

(* The return of a null pointer keeps the invariant. *)
LEMMA NullStep ==
  ASSUME IInv, ReturnNull
  PROVE  IInv'
  <1>1. /\ at = "return" /\ value = Null /\ value' = value /\ logged' = logged
        /\ UNCHANGED outcome /\ undefined_read' = undefined_read /\ UNCHANGED sourceVars
    BY DEF ReturnNull, Within
  <1>2. CASE at' = "recover" /\ stack' = <<>>
    <2>1. <<>> \in Seq(Frames) /\ StackInv(<<>>) /\ Len(<<>>) = 0
      BY DEF StackInv
    <2>2. Arrived(at', stack', value', Len(read))
      BY <1>1, <1>2, <2>1, ReturnFacts DEF Arrived, Places
    <2>3. QED
      BY <1>1, <2>2, ReturnFacts, InnerStep
  <1>3. CASE /\ Top.fn \in {"Expr", "Parentheses", "Call", "Operand"}
             /\ at' = "return" /\ stack' = Pop
    <2>1. Top.fn \notin Handlers
      BY <1>3 DEF Handlers
    <2>2. QED
      BY <1>1, <1>3, <2>1, ReturnFacts, ReturnStep
  <1>4. QED
    BY <1>2, <1>3 DEF ReturnNull

(* The end of ParenthesesExprAST keeps the invariant. *)
LEMMA ParenthesesStep ==
  ASSUME IInv, ReturnParentheses
  PROVE  IInv'
  <1>1. /\ at = "return" /\ Top.fn = "Parentheses" /\ value # Null /\ stack' = Pop
        /\ UNCHANGED outcome /\ undefined_read' = undefined_read
    BY DEF ReturnParentheses, Returned, Within
  <1>2. Top.fn \notin Handlers /\ value \in AST /\ Whole(value)
    BY <1>1, ReturnFacts DEF Handlers
  <1>3. CASE NextToken("return") /\ value' = value
    BY <1>1, <1>2, <1>3, ReturnStep
  <1>4. CASE Error
    <2>1. at' = "return" /\ value' = Null /\ logged' = TRUE /\ UNCHANGED sourceVars
      BY <1>4 DEF Error, Return
    <2>2. QED
      BY <1>1, <1>2, <2>1, SymbolFacts, ReturnStep
  <1>5. QED
    BY <1>3, <1>4 DEF ReturnParentheses

(* An argument of a call keeps the invariant. *)
LEMMA ArgumentStep ==
  ASSUME IInv, ReturnArgument
  PROVE  IInv'
  <1>1. /\ at = "return" /\ Top.fn = "Call" /\ value # Null
        /\ UNCHANGED outcome /\ undefined_read' = undefined_read
    BY DEF ReturnArgument, Returned, Within
  <1>2. /\ Top.fn \notin Handlers /\ value \in AST /\ Whole(value)
        /\ Top.lhs \in AST /\ Whole(Top.lhs) /\ Top \in Frames
    BY <1>1, ReturnFacts DEF Handlers, FrameInv
  <1>3. Item(Top.lhs, value) \in AST /\ Whole(Item(Top.lhs, value))
    BY <1>2, ItemAst
  <1>4. CASE /\ value' = Append(Item(Top.lhs, value), ")") /\ NextToken("return")
             /\ stack' = Pop
    <2>1. value' \in AST /\ Whole(value')
      BY <1>3, <1>4, AppendAst, SymbolFacts
    <2>2. QED
      BY <1>1, <1>2, <1>4, <2>1, ReturnStep
  <1>5. CASE /\ NextToken("primary") /\ value' = value
             /\ stack' = Append(Replace([Top EXCEPT !.lhs = Item(@, value)]), Frame("Expr"))
    <2> DEFINE f == [Top EXCEPT !.lhs = Item(@, value)]
               s == Replace(f)
    <2>1. f \in Frames /\ f.fn = "Call" /\ f.lhs = Item(Top.lhs, value)
      BY <1>1, <1>2, <1>3 DEF Frames
    <2>2. stack' = Append(s, Frame("Expr"))
      BY <1>5
    <2> HIDE DEF f
    <2>3. /\ stack \in Seq(Frames) /\ stack # <<>> /\ StackInv(stack)
          /\ FrameInv(f, stack[Len(stack) - 1].fn) /\ f.fn \notin Handlers
      BY <1>1, <1>3, <2>1, ReturnFacts DEF FrameInv, Handlers
    <2>4. /\ s \in Seq(Frames) /\ Len(s) = Len(stack) /\ StackInv(s)
          /\ s[Len(s)] = f /\ s # <<>>
      BY <1>2, <2>1, <2>3, ReplaceKeeps DEF Replace, Top
    <2>5. /\ Frame("Expr") \in Frames /\ Frame("Expr").fn = "Expr"
      BY FrameTypes DEF FrameNames
    <2>6. Frame("Expr").fn \notin Handlers /\ FrameInv(Frame("Expr"), s[Len(s)].fn)
      BY <2>5 DEF FrameInv, Handlers
    <2> HIDE DEF s
    <2>7. /\ stack' \in Seq(Frames) /\ Len(stack') = Len(s) + 1 /\ StackInv(stack')
          /\ stack'[Len(stack')] = Frame("Expr") /\ stack' # <<>>
      BY <2>1, <2>2, <2>4, <2>5, <2>6, PushKeeps
    <2>8. /\ Len(read) \in Nat /\ Len(stack) \in Nat /\ Len(stack) <= 2 * Len(read)
          /\ value' \in AST
      BY <1>1, <1>5, ReturnFacts
    <2>9. Len(stack') = Len(stack) + 1 /\ stack'[Len(stack')].fn = "Expr"
      BY <2>4, <2>5, <2>7
    <2>10. Arrived("primary", stack', value', Len(read) + 1)
      BY <2>7, <2>8, <2>9 DEF Arrived, Places
    <2>11. QED
      BY <1>1, <1>5, <2>10, ReturnFacts, TokenStep
  <1>6. CASE Error /\ stack' = Pop
    <2>1. at' = "return" /\ value' = Null /\ logged' = TRUE /\ UNCHANGED sourceVars
      BY <1>6 DEF Error, Return
    <2>2. QED
      BY <1>1, <1>2, <1>6, <2>1, SymbolFacts, ReturnStep
  <1>7. QED
    BY <1>4, <1>5, <1>6 DEF ReturnArgument

(* The function on top of the stack goes to the head of BinOpRHS's loop. *)
LEMMA LoopOfBinOp ==
  ASSUME IInv, at = "return", value # Null \/ Top.fn = "SubExpr", NEW f \in Frames,
         f.fn = "BinOpRHS", stack' = Replace(f), Top.fn \notin Handlers,
         Whole(f.lhs) \/ stack[Len(stack) - 1].fn = "SubExpr",
         at' = "rhs", value' = value, UNCHANGED sourceVars, UNCHANGED outcome,
         logged' = logged, undefined_read' = undefined_read
  PROVE  IInv'
  <1>1. FrameInv(f, stack[Len(stack) - 1].fn) /\ f.fn \notin Handlers
    BY DEF FrameInv, Handlers
  <1>2. /\ stack' \in Seq(Frames) /\ Len(stack') = Len(stack) /\ StackInv(stack')
        /\ stack' # <<>> /\ stack'[Len(stack')] = f
    BY <1>1, ReturnFacts, ReplaceStack DEF IInv
  <1>3. Arrived(at', stack', value', Len(read))
    BY <1>2, ReturnFacts DEF Arrived, Places
  <1>4. QED
    BY <1>3, ReturnFacts, InnerStep

(* The first operand of an expression keeps the invariant. *)
LEMMA FirstOperandStep ==
  ASSUME IInv, ReturnFirstOperand
  PROVE  IInv'
  <1> DEFINE f == [Frame("BinOpRHS") EXCEPT !.lhs = value]
  <1>1. /\ at = "return" /\ Top.fn = "Expr" /\ value # Null /\ at' = "rhs"
        /\ value' = value /\ logged' = logged /\ UNCHANGED sourceVars
        /\ UNCHANGED outcome /\ undefined_read' = undefined_read /\ stack' = Replace(f)
    BY DEF ReturnFirstOperand, Returned, Within
  <1>2. Frame("BinOpRHS") \in Frames /\ Frame("BinOpRHS").fn = "BinOpRHS"
    BY FrameTypes DEF FrameNames
  <1>3. value \in AST /\ Whole(value) /\ Top.fn \notin Handlers
    BY <1>1, ReturnFacts DEF Handlers
  <1>4. f \in Frames /\ f.fn = "BinOpRHS" /\ f.lhs = value
    BY <1>2, <1>3 DEF Frames
  <1> HIDE DEF f
  <1>5. QED
    BY <1>1, <1>3, <1>4, LoopOfBinOp

(* A merge of two operands keeps the invariant. *)
LEMMA MergeStep ==
  ASSUME IInv, at = "return", value # Null \/ Top.fn = "SubExpr",
         Top.fn \in {"Operand", "SubExpr"}, NEW rhs \in AST, Whole(rhs),
         Merge(Top.lhs, rhs), value' = value, UNCHANGED sourceVars, UNCHANGED outcome,
         logged' = logged, undefined_read' = undefined_read
  PROVE  IInv'
  <1> DEFINE f == [Frame("BinOpRHS") EXCEPT
                     !.prec = Top.prec, !.lhs = BinaryExpr(Top.op, Top.lhs, rhs)]
  <1>1. at' = "rhs" /\ stack' = Replace(f)
    BY DEF Merge
  <1>2. Frame("BinOpRHS") \in Frames /\ Frame("BinOpRHS").fn = "BinOpRHS"
    BY FrameTypes DEF FrameNames
  <1>3. /\ Top.lhs \in AST /\ Top.op \in Symbols \ {NullMark} /\ Top.prec \in Nat
        /\ Whole(Top.lhs) \/ stack[Len(stack) - 1].fn = "SubExpr"
        /\ Top.fn \notin Handlers
    BY ReturnFacts DEF Handlers, FrameInv
  <1>4. /\ BinaryExpr(Top.op, Top.lhs, rhs) \in AST
        /\ Whole(Top.lhs) => Whole(BinaryExpr(Top.op, Top.lhs, rhs))
    BY <1>3, BinaryAst
  <1>5. f \in Frames /\ f.fn = "BinOpRHS" /\ f.lhs = BinaryExpr(Top.op, Top.lhs, rhs)
    BY <1>2, <1>3, <1>4 DEF Frames
  <1> HIDE DEF f
  <1>6. QED
    BY <1>1, <1>3, <1>4, <1>5, LoopOfBinOp

(* The second operand, line 195 included, keeps the invariant. *)
LEMMA OperandStep ==
  ASSUME IInv, ReturnOperand
  PROVE  IInv'
  <1>1. /\ at = "return" /\ Top.fn = "Operand" /\ value # Null /\ value' = value
        /\ logged' = logged /\ UNCHANGED sourceVars /\ UNCHANGED outcome
    BY DEF ReturnOperand, Returned
  <1>2. value \in AST /\ Whole(value) /\ Top.fn \notin Handlers
    BY <1>1, ReturnFacts DEF Handlers
  <1>3. CASE Merge(Top.lhs, value) /\ undefined_read' = undefined_read
    BY <1>1, <1>2, <1>3, MergeStep
  <1>4. CASE /\ undefined_read' = TRUE /\ at' \in {"rhs", "undefined"}
             /\ stack' = Append(Replace([Top EXCEPT !.fn = "SubExpr", !.rhs = value]),
                                [Frame("BinOpRHS") EXCEPT !.prec = Top.prec + 1])
    <2> DEFINE f == [Top EXCEPT !.fn = "SubExpr", !.rhs = value]
               g == [Frame("BinOpRHS") EXCEPT !.prec = Top.prec + 1]
               s == Replace(f)
    <2>1. /\ f \in Frames /\ f.fn = "SubExpr" /\ f.lhs = Top.lhs /\ f.rhs = value
      BY <1>2, ReturnFacts, <1>1 DEF Frames, FrameNames
    <2>2. g \in Frames /\ g.fn = "BinOpRHS"
      <3>1. Frame("BinOpRHS") \in Frames /\ Frame("BinOpRHS").fn = "BinOpRHS"
        BY FrameTypes DEF FrameNames
      <3>2. Top.prec + 1 \in Nat
        BY <1>1, ReturnFacts
      <3>3. QED
        BY <3>1, <3>2 DEF Frames
    <2>3. stack' = Append(s, g)
      BY <1>4
    <2> HIDE DEF f, g
    <2>4. /\ stack \in Seq(Frames) /\ stack # <<>> /\ StackInv(stack)
          /\ FrameInv(f, stack[Len(stack) - 1].fn) /\ f.fn \notin Handlers
      BY <1>1, <1>2, <2>1, ReturnFacts DEF FrameInv, Handlers
    <2>5. /\ s \in Seq(Frames) /\ Len(s) = Len(stack) /\ StackInv(s)
          /\ s[Len(s)] = f /\ s # <<>>
      BY <1>2, <2>1, <2>4, ReplaceKeeps DEF Replace, Top
    <2>6. g.fn \notin Handlers /\ FrameInv(g, s[Len(s)].fn)
      BY <2>1, <2>2, <2>5 DEF FrameInv, Handlers
    <2> HIDE DEF s
    <2>7. /\ stack' \in Seq(Frames) /\ Len(stack') = Len(s) + 1 /\ StackInv(stack')
          /\ stack'[Len(stack')] = g /\ stack' # <<>>
      BY <2>1, <2>2, <2>3, <2>5, <2>6, PushKeeps
    <2>8. /\ Len(read) \in Nat /\ Len(read) >= 1 /\ Len(stack) \in Nat
          /\ Len(stack) + 2 <= 2 * Len(read) /\ value' \in AST
          /\ at' \in {"rhs", "undefined"}
      BY <1>1, <1>4, ReturnFacts
    <2>9. Len(stack') = Len(stack) + 1 /\ stack'[Len(stack')].fn = "BinOpRHS"
      BY <2>2, <2>5, <2>7
    <2>10. Arrived(at', stack', value', Len(read))
      BY <2>7, <2>8, <2>9 DEF Arrived, Places
    <2>11. QED
      BY <1>1, <1>4, <2>10, ReturnFacts, InnerStep
  <1>5. QED
    BY <1>3, <1>4 DEF ReturnOperand

(* The return from the call at line 195 keeps the invariant. *)
LEMMA SubExprStep ==
  ASSUME IInv, ReturnSubExpr
  PROVE  IInv'
  <1>1. /\ at = "return" /\ Top.fn = "SubExpr" /\ logged' = logged
        /\ UNCHANGED sourceVars /\ UNCHANGED outcome /\ undefined_read' = undefined_read
    BY DEF ReturnSubExpr, Within
  <1>2. Top.rhs \in AST /\ Whole(Top.rhs) /\ Top.fn \notin Handlers
    BY <1>1, ReturnFacts DEF FrameInv, Handlers
  <1>3. CASE Return(Null) /\ stack' = Pop
    <2>1. at' = "return" /\ value' = Null
      BY <1>3 DEF Return
    <2>2. QED
      BY <1>1, <1>2, <1>3, <2>1, SymbolFacts, ReturnFacts, ReturnStep
  <1>4. CASE Merge(Top.lhs, Top.rhs) /\ value' = value
    BY <1>1, <1>2, <1>4, MergeStep
  <1>5. QED
    BY <1>3, <1>4 DEF ReturnSubExpr

(* The return to a handler keeps the invariant. *)
LEMMA HandlerStep ==
  ASSUME IInv, ReturnPrototype \/ ReturnItem
  PROVE  IInv'
  <1>1. at = "return" /\ value # Null /\ UNCHANGED sourceVars /\ logged' = logged
        /\ undefined_read' = undefined_read /\ value' = value
    BY DEF ReturnPrototype, ReturnItem, Returned, Push, Within
  <1>2. CASE ReturnPrototype
    <2> DEFINE f == [Frame("Body") EXCEPT !.lhs = value]
    <2>1. /\ at' = "primary" /\ Top.fn = "Definition" /\ UNCHANGED outcome
          /\ stack' = <<f, Frame("Expr")>>
      BY <1>2 DEF ReturnPrototype, Returned, Within
    <2>2. value \in AST /\ Whole(value)
      BY <1>1, <2>1, ReturnFacts
    <2>3. /\ Frame("Body") \in Frames /\ Frame("Body").fn = "Body"
          /\ Frame("Expr") \in Frames /\ Frame("Expr").fn = "Expr"
      BY FrameTypes DEF FrameNames, Handlers
    <2>4. f \in Frames /\ f.fn = "Body" /\ f.lhs = value
      BY <2>2, <2>3 DEF Frames
    <2> HIDE DEF f
    <2>5. /\ stack' \in Seq(Frames) /\ Len(stack') = 2 /\ DOMAIN stack' = 1..2
          /\ stack'[1] = f /\ stack'[2] = Frame("Expr") /\ stack' # <<>>
      BY <2>1, <2>3, <2>4
    <2>6. StackInv(stack')
      BY <2>2, <2>3, <2>4, <2>5 DEF StackInv, Handlers
    <2>7. Arrived(at', stack', value', Len(read))
      BY <1>1, <2>1, <2>3, <2>5, <2>6, ReturnFacts DEF Arrived, Places
    <2>8. QED
      BY <1>1, <2>1, <2>7, ReturnFacts, InnerStep
  <1>3. ASSUME NEW ast, Push(ast), ast \in AST, Whole(ast) PROVE IInv'
    <2>1. /\ at' = "loop" /\ stack' = <<>> /\ ast_list' = Append(ast_list, ast)
          /\ has_error' = has_error /\ result' = result
      BY <1>3 DEF Push
    <2>2. /\ ast_list \in Seq(AST) /\ result \in Seq(AST) /\ has_error \in BOOLEAN
          /\ read \in Seq(Tokens \cup {End}) /\ broken \in BOOLEAN /\ read # <<>>
          /\ \A i \in DOMAIN ast_list : Whole(ast_list[i])
      BY <1>1 DEF IInv, TypeOK, ParserInv, Shape, Operands
    <2>3. /\ ast_list' \in Seq(AST)
          /\ \A i \in DOMAIN ast_list' : Whole(ast_list'[i])
      BY <1>3, <2>1, <2>2
    <2>4. <<>> \in Seq(Frames) /\ StackInv(<<>>) /\ Len(<<>>) = 0
      BY DEF StackInv
    <2>5. Arrived(at', stack', value', Len(read))
      BY <1>1, <2>1, <2>4, ReturnFacts DEF Arrived, Places
    <2>6. read' = read /\ broken' = broken
      BY <1>1 DEF sourceVars
    <2>7. QED
      BY <1>1, <2>1, <2>2, <2>3, <2>5, <2>6, ReturnFacts, ArrivedNext
  <1>4. CASE ReturnItem
    <2>1. value \in AST /\ Whole(value) /\ Top.lhs \in AST
          /\ (Top.fn = "Body" => Whole(Top.lhs))
      BY <1>1, <1>4, ReturnFacts DEF ReturnItem, FrameInv
    <2>2. Anonymous \in AST /\ Whole(Anonymous)
      BY SymbolFacts, TripleAst DEF Anonymous
    <2>3. /\ Function(Anonymous, value) \in AST /\ Whole(Function(Anonymous, value))
          /\ Function(Top.lhs, value) \in AST
          /\ Top.fn = "Body" => Whole(Function(Top.lhs, value))
      BY <2>1, <2>2, FunctionAst
    <2>4. QED
      BY <1>3, <1>4, <2>1, <2>3 DEF ReturnItem
  <1>5. QED
    BY <1>2, <1>4

-----------------------------------------------------------------------------
(* Every step *)

(* Every step of the parser keeps the invariant. *)
LEMMA InvStep == IInv /\ [Next]_vars => IInv'
  <1> SUFFICES ASSUME IInv, [Next]_vars PROVE IInv'
    OBVIOUS
  <1>1. CASE Start \/ ParseEnd \/ ParseDefinition \/ ParseExtern \/ ParseSemicolon
             \/ ParseGlobalExpr \/ Recover
    BY <1>1, LoopStep
  <1>2. CASE PrototypeName \/ PrototypeOpen \/ PrototypeArgs
    BY <1>2, PrototypeStep
  <1>3. CASE PrimaryNumber \/ PrimaryIdentifier \/ PrimaryParentheses \/ PrimaryError
    BY <1>3, PrimaryStep
  <1>4. CASE Variable \/ CallOpen \/ CallFirst \/ BinOpRHS
    BY <1>4, IdentifierStep, BinOpStep
  <1>5. CASE ReturnNull \/ ReturnParentheses \/ ReturnArgument \/ ReturnFirstOperand
    BY <1>5, NullStep, ParenthesesStep, ArgumentStep, FirstOperandStep
  <1>6. CASE ReturnOperand \/ ReturnSubExpr \/ ReturnPrototype \/ ReturnItem
    BY <1>6, OperandStep, SubExprStep, HandlerStep
  <1>7. CASE UNCHANGED vars
    BY <1>7 DEF vars, sourceVars, parserVars, outcome, IInv, TypeOK, ParserInv, Shape,
                Depth, Operands, Top
  <1>8. QED
    BY <1>1, <1>2, <1>3, <1>4, <1>5, <1>6, <1>7 DEF Next

(* The call stack and the ASTs keep to the inductive invariant.            *)
THEOREM ParserKeepsInv == Spec => []IInv
  BY InvInit, InvStep, PTL DEF Spec

(* Every variable has its type: the precedences that BinOpRHS is called    *)
(* with are natural numbers, the ASTs are made of the tokens' lexemes.     *)
THEOREM ParserTypes == Spec => []TypeOK
  BY ParserKeepsInv, PTL DEF IInv

(* Every function of parser.cc returns to a caller that waits for it.      *)
THEOREM ParserInvariant == Spec => []ParserInv
  BY ParserKeepsInv, PTL DEF IInv

(* No AST that Parse returns is dumped through a null pointer, whatever    *)
(* the tokens and however deep the expressions.                            *)
THEOREM NeverNullDumped == Spec => []NoNullDumped
  <1>1. IInv => NoNullDumped
    BY DEF IInv, ParserInv, Operands, Whole, NoNullDumped
  <1>2. QED
    BY <1>1, ParserKeepsInv, PTL

(* The recursion is at most two calls deep for each token that was read.   *)
THEOREM RecursionBounded == Spec => []DepthBounded
  <1>1. IInv => DepthBounded
    BY DEF IInv, ParserInv, Depth, DepthBounded
  <1>2. QED
    BY <1>1, ParserKeepsInv, PTL

-----------------------------------------------------------------------------
(***************************************************************************)
(* Errors and their messages.                                              *)
(***************************************************************************)

(* No AST is on its way to a handler, which will set has_error. *)
Pending == at = "recover" \/ (at = "return" /\ value = Null)

NoSubExpr(s) == \A i \in DOMAIN s : s[i].fn # "SubExpr"

(* Until the pointer of line 195 is read, nobody returns nullptr without a *)
(* message, and what was logged is in has_error or on its way there.       *)
ErrorsLogged ==
  ~undefined_read =>
    /\ NoSubExpr(stack)
    /\ has_error \/ Pending => logged
    /\ logged /\ at # "threw" => has_error \/ Pending

(* A call is made or its frame changed without that of line 195. *)
LEMMA StackWithout ==
  ASSUME NEW s \in Seq(Frames), NoSubExpr(s)
  PROVE  /\ NoSubExpr(SubSeq(s, 1, Len(s) - 1))
         /\ \A f \in Frames : f.fn # "SubExpr" =>
              /\ NoSubExpr(Append(s, f)) /\ NoSubExpr(<<f>>)
              /\ NoSubExpr([s EXCEPT ![Len(s)] = f])
         /\ \A f, g \in Frames : f.fn # "SubExpr" /\ g.fn # "SubExpr" =>
              NoSubExpr(s \o <<f, g>>) /\ NoSubExpr(<<f, g>>)
  <1>1. Len(s) \in Nat /\ DOMAIN s = 1..Len(s)
    BY LenProperties
  <1>2. NoSubExpr(SubSeq(s, 1, Len(s) - 1))
    BY <1>1 DEF NoSubExpr
  <1>3. ASSUME NEW f \in Frames, f.fn # "SubExpr"
        PROVE  /\ NoSubExpr(Append(s, f)) /\ NoSubExpr(<<f>>)
               /\ NoSubExpr([s EXCEPT ![Len(s)] = f])
    <2>1. NoSubExpr(Append(s, f))
      BY <1>1, <1>3 DEF NoSubExpr
    <2>2. NoSubExpr(<<f>>)
      BY <1>3 DEF NoSubExpr
    <2>3. NoSubExpr([s EXCEPT ![Len(s)] = f])
      BY <1>1, <1>3 DEF NoSubExpr
    <2> QED
      BY <2>1, <2>2, <2>3
  <1>4. ASSUME NEW f \in Frames, NEW g \in Frames, f.fn # "SubExpr", g.fn # "SubExpr"
        PROVE  NoSubExpr(s \o <<f, g>>) /\ NoSubExpr(<<f, g>>)
    <2>1. NoSubExpr(<<f, g>>)
      BY <1>4 DEF NoSubExpr
    <2>2. /\ <<f, g>> \in Seq(Frames) /\ Len(<<f, g>>) = 2
          /\ <<f, g>>[1] = f /\ <<f, g>>[2] = g
      BY <1>4
    <2>3. /\ DOMAIN (s \o <<f, g>>) = 1..(Len(s) + 2)
          /\ \A i \in 1..(Len(s) + 2) :
               (s \o <<f, g>>)[i] = IF i <= Len(s) THEN s[i] ELSE <<f, g>>[i - Len(s)]
      BY <1>1, <2>2, ConcatProperties, LenProperties
    <2>4. ASSUME NEW i \in 1..(Len(s) + 2) PROVE (s \o <<f, g>>)[i].fn # "SubExpr"
      <3>1. i <= Len(s) \/ i - Len(s) = 1 \/ i - Len(s) = 2
        BY <1>1
      <3> QED
        BY <1>1, <1>4, <2>2, <2>3, <3>1 DEF NoSubExpr
    <2> QED
      BY <2>1, <2>3, <2>4 DEF NoSubExpr
  <1> QED
    BY <1>2, <1>3, <1>4

(* A step that reports nothing, by a function with no error behind it. *)
LEMMA QuietStep ==
  ASSUME ErrorsLogged, ~Pending, at # "threw", UNCHANGED <<has_error, logged, undefined_read>>,
         NoSubExpr(stack) => NoSubExpr(stack'), at' = "threw" \/ ~Pending'
  PROVE  ErrorsLogged'
  BY DEF ErrorsLogged, Pending

(* A step that reports an error, and returns nullptr. *)
LEMMA ErrorStep ==
  ASSUME ErrorsLogged, Error, UNCHANGED <<has_error, undefined_read>>,
         NoSubExpr(stack) => NoSubExpr(stack')
  PROVE  ErrorsLogged'
  BY DEF ErrorsLogged, Pending, Error, Return

(* A function that returns nullptr because what it called did. *)
LEMMA NullPassedOn ==
  ASSUME ErrorsLogged, ReturnNull, stack \in Seq(Frames)
  PROVE  ErrorsLogged'
  <1>1. /\ at = "return" /\ value = Null /\ value' = Null /\ logged' = logged
        /\ has_error' = has_error /\ undefined_read' = undefined_read
        /\ at' \in {"recover", "return"} /\ stack' \in {<<>>, Pop}
    BY DEF ReturnNull, Within, outcome
  <1>2. NoSubExpr(stack) => NoSubExpr(stack')
    <2>1. NoSubExpr(<<>>)
      BY DEF NoSubExpr
    <2> QED
      BY <1>1, <2>1, StackWithout DEF Pop
  <1> QED
    BY <1>1, <1>2 DEF ErrorsLogged, Pending

(* Parse and its handlers *)
LEMMA LoopErrors ==
  ASSUME IInv, ErrorsLogged,
         \/ Start \/ ParseEnd \/ ParseDefinition \/ ParseExtern \/ ParseSemicolon
         \/ ParseGlobalExpr \/ Recover
  PROVE  ErrorsLogged'
  <1>1. TypeOK /\ stack \in Seq(Frames)
    BY DEF IInv, TypeOK
  <1>2. \A f \in {"Definition", "Extern", "Global", "Expr"} :
          Frame(f) \in Frames /\ Frame(f).fn # "SubExpr"
    BY FrameTypes DEF FrameNames, Handlers
  <1>3. CASE Recover
    <2>1. /\ at = "recover" /\ stack' = stack /\ undefined_read' = undefined_read
          /\ has_error' = (has_error \/ at' = "loop")
          /\ logged' = logged /\ at' \in {"loop", "threw"}
      BY <1>1, <1>3, NextTokenEffect DEF Recover
    <2> QED
      BY <2>1 DEF ErrorsLogged, Pending
  <1>4. CASE Start \/ ParseSemicolon
    <2>1. /\ at \in {"start", "loop"} /\ at' \in {"loop", "threw"} /\ logged' = logged
      BY <1>1, <1>4, NextTokenEffect DEF Start, ParseSemicolon
    <2>2. UNCHANGED <<has_error, logged, undefined_read>> /\ stack' = stack
      BY <1>4, <2>1 DEF Start, ParseSemicolon, Within, outcome
    <2> QED
      BY <2>1, <2>2, QuietStep DEF Pending
  <1>5. CASE ParseEnd
    <2>1. /\ at = "loop" /\ at' = "done" /\ stack' = stack
          /\ UNCHANGED <<has_error, logged, undefined_read>>
      BY <1>5 DEF ParseEnd
    <2> QED
      BY <2>1, QuietStep DEF Pending
  <1>6. CASE ParseDefinition
    <2>1. /\ at = "loop" /\ at' \in {"prototype", "threw"}
          /\ UNCHANGED <<has_error, logged, undefined_read>>
      BY <1>1, <1>6, NextTokenEffect DEF ParseDefinition, Within, outcome
    <2>2. NoSubExpr(stack) => NoSubExpr(stack')
      BY <1>1, <1>2, <1>6, StackWithout DEF ParseDefinition
    <2> QED
      BY <2>1, <2>2, QuietStep DEF Pending
  <1>7. CASE ParseExtern
    <2>1. /\ at = "loop" /\ at' = "prototype" /\ stack' = Append(stack, Frame("Extern"))
          /\ UNCHANGED <<has_error, logged, undefined_read>>
      BY <1>7 DEF ParseExtern, Call, Within, outcome
    <2>2. NoSubExpr(stack) => NoSubExpr(stack')
      BY <1>1, <1>2, <2>1, StackWithout
    <2> QED
      BY <2>1, <2>2, QuietStep DEF Pending
  <1>8. CASE ParseGlobalExpr
    <2>1. /\ at = "loop" /\ at' = "primary" /\ stack' = <<Frame("Global"), Frame("Expr")>>
          /\ UNCHANGED <<has_error, logged, undefined_read>>
      BY <1>8 DEF ParseGlobalExpr, Within, outcome
    <2>2. NoSubExpr(stack) => NoSubExpr(stack')
      BY <1>1, <1>2, <2>1, StackWithout
    <2> QED
      BY <2>1, <2>2, QuietStep DEF Pending
  <1> QED
    BY <1>3, <1>4, <1>5, <1>6, <1>7, <1>8

(* PrototypeAST *)
LEMMA PrototypeErrors ==
  ASSUME IInv, ErrorsLogged, PrototypeName \/ PrototypeOpen \/ PrototypeArgs
  PROVE  ErrorsLogged'
  <1>1. /\ at \in {"prototype", "prototype_open", "prototype_args"} /\ stack' = stack
        /\ UNCHANGED <<has_error, undefined_read>> /\ TypeOK /\ value \in AST
    BY DEF PrototypeName, PrototypeOpen, PrototypeArgs, Within, outcome, IInv, TypeOK
  <1>2. CASE Error
    BY <1>1, <1>2, ErrorStep
  <1>3. ASSUME NEW p \in {"prototype_open", "prototype_args"}, NextToken(p)
        PROVE  ErrorsLogged'
    <2>1. logged' = logged /\ at' \in {p, "threw"}
      BY <1>1, <1>3, NextTokenEffect
    <2> QED
      BY <1>1, <1>3, <2>1, QuietStep DEF Pending
  <1>4. ASSUME NextToken("return"), value' = Append(value, ")") PROVE ErrorsLogged'
    <2>1. logged' = logged /\ at' \in {"return", "threw"}
      BY <1>1, <1>4, NextTokenEffect
    <2>2. value' # Null
      BY <1>1, <1>4, AppendAst, SymbolFacts
    <2> QED
      BY <1>1, <2>1, <2>2, QuietStep DEF Pending
  <1> QED
    BY <1>2, <1>3, <1>4 DEF PrototypeName, PrototypeOpen, PrototypeArgs

(* PrimaryExprAST *)
LEMMA PrimaryErrors ==
  ASSUME IInv, ErrorsLogged,
         PrimaryNumber \/ PrimaryIdentifier \/ PrimaryParentheses \/ PrimaryError
  PROVE  ErrorsLogged'
  <1>1. /\ at = "primary" /\ UNCHANGED <<has_error, undefined_read>> /\ TypeOK
        /\ stack \in Seq(Frames)
    BY DEF PrimaryNumber, PrimaryIdentifier, PrimaryParentheses, PrimaryError, Within,
           outcome, IInv, TypeOK
  <1>2. CASE PrimaryError
    BY <1>1, <1>2, ErrorStep DEF PrimaryError
  <1>3. ASSUME NEW p \in {"return", "identifier"}, NextToken(p), stack' = stack,
               value' = <<Current.lexeme>>
        PROVE  ErrorsLogged'
    <2>1. logged' = logged /\ at' \in {p, "threw"} /\ value' # Null
      BY <1>1, <1>3, NextTokenEffect DEF Null
    <2> QED
      BY <1>1, <1>3, <2>1, QuietStep DEF Pending
  <1>4. CASE PrimaryParentheses
    <2>1. logged' = logged /\ at' \in {"primary", "threw"}
      BY <1>1, <1>4, NextTokenEffect DEF PrimaryParentheses
    <2>2. \A f \in {"Parentheses", "Expr"} : Frame(f) \in Frames /\ Frame(f).fn # "SubExpr"
      BY FrameTypes DEF FrameNames
    <2>3. stack' = stack \o <<Frame("Parentheses"), Frame("Expr")>>
      BY <1>4 DEF PrimaryParentheses
    <2>4. NoSubExpr(stack) => NoSubExpr(stack')
      BY <1>1, <2>2, <2>3, StackWithout
    <2> QED
      BY <1>1, <2>1, <2>4, QuietStep DEF Pending
  <1> QED
    BY <1>2, <1>3, <1>4 DEF PrimaryNumber, PrimaryIdentifier

(* IdentifierExprAST, up to its first argument *)
LEMMA IdentifierErrors ==
  ASSUME IInv, ErrorsLogged, Variable \/ CallOpen \/ CallFirst
  PROVE  ErrorsLogged'
  <1>1. /\ at \in {"identifier", "call"} /\ UNCHANGED <<has_error, undefined_read>>
        /\ TypeOK /\ stack \in Seq(Frames) /\ value \in AST /\ value # Null
    BY DEF Variable, CallOpen, CallFirst, Within, outcome, IInv, TypeOK, ParserInv,
           Operands, Whole
  <1>2. ASSUME NEW p, NextToken(p), stack' = stack, NEW x \in {"(", ")"},
               value' = Append(value, x), p # "recover"
        PROVE  ErrorsLogged'
    <2>1. logged' = logged /\ at' \in {p, "threw"}
      BY <1>1, <1>2, NextTokenEffect
    <2>2. value' # Null
      BY <1>1, <1>2, AppendAst, SymbolFacts
    <2> QED
      BY <1>1, <1>2, <2>1, <2>2, QuietStep DEF Pending
  <1>3. CASE Variable
    <2>1. at' = "return" /\ value' = value /\ logged' = logged /\ stack' = stack
      BY <1>3 DEF Variable, Return
    <2> QED
      BY <1>1, <2>1, QuietStep DEF Pending
  <1>4. CASE /\ at' = "primary" /\ logged' = logged
             /\ stack' = stack \o <<[Frame("Call") EXCEPT !.lhs = value], Frame("Expr")>>
    <2> DEFINE f == [Frame("Call") EXCEPT !.lhs = value]
    <2>1. /\ Frame("Call") \in Frames /\ Frame("Call").fn = "Call"
          /\ Frame("Expr") \in Frames /\ Frame("Expr").fn = "Expr"
      BY FrameTypes DEF FrameNames
    <2>2. f \in Frames /\ f.fn = "Call"
      BY <1>1, <2>1 DEF Frames
    <2> HIDE DEF f
    <2>3. stack' = stack \o <<f, Frame("Expr")>>
      BY <1>4 DEF f
    <2>4. NoSubExpr(stack) => NoSubExpr(stack')
      BY <1>1, <2>1, <2>2, <2>3, StackWithout
    <2> QED
      BY <1>1, <1>4, <2>4, QuietStep DEF Pending
  <1>5. CASE CallFirst
    <2>1. CASE NextToken("return") /\ value' = Append(value, ")") /\ stack' = stack
      BY <1>2, <2>1
    <2>2. CASE /\ at' = "primary" /\ logged' = logged
               /\ stack' = stack \o <<[Frame("Call") EXCEPT !.lhs = value], Frame("Expr")>>
      BY <1>4, <2>2
    <2> QED
      BY <1>5, <2>1, <2>2 DEF CallFirst
  <1> QED
    BY <1>2, <1>3, <1>5 DEF CallOpen

(* BinOpRHS at the head of its loop *)
LEMMA BinOpErrors ==
  ASSUME IInv, ErrorsLogged, BinOpRHS
  PROVE  ErrorsLogged'
  <1>1. /\ at = "rhs" /\ UNCHANGED <<has_error, undefined_read>> /\ TypeOK
        /\ stack \in Seq(Frames) /\ stack # <<>> /\ StackInv(stack) /\ Top.fn = "BinOpRHS"
        /\ read # <<>>
    BY DEF BinOpRHS, Within, outcome, IInv, TypeOK, ParserInv, Shape
  <1>2. /\ Len(stack) \in Nat /\ Len(stack) > 1 /\ Top \in Frames /\ Top = stack[Len(stack)]
        /\ Whole(Top.lhs) \/ stack[Len(stack) - 1].fn = "SubExpr"
        /\ Current.lexeme \in Symbols /\ Current.lexeme # NullMark
    <2>1. /\ Len(stack) \in Nat /\ Len(stack) >= 1 /\ Len(stack) # 1
          /\ Top \in Frames /\ Top = stack[Len(stack)]
          /\ Whole(Top.lhs) \/ stack[Len(stack) - 1].fn = "SubExpr"
      BY <1>1, TopFacts DEF FrameInv, Handlers
    <2>2. Current.lexeme \in Symbols /\ Current.lexeme # NullMark
      BY <1>1, CurrentFacts
    <2>3. Len(stack) > 1
      <3>1. Len(stack) \in Nat /\ Len(stack) >= 1 /\ Len(stack) # 1
        BY <2>1
      <3> QED
        BY ONLY <3>1
    <2> QED
      BY <2>1, <2>2, <2>3
  <1>3. NoSubExpr(stack) => Whole(Top.lhs)
    <2>1. Len(stack) - 1 \in DOMAIN stack
      BY <1>1, <1>2, LenProperties
    <2> QED
      BY <1>2, <2>1 DEF NoSubExpr
  <1>4. CASE /\ NextToken("primary")
             /\ stack' = Replace([Top EXCEPT !.fn = "Operand", !.op = Current.lexeme])
    <2> DEFINE f == [Top EXCEPT !.fn = "Operand", !.op = Current.lexeme]
    <2>1. logged' = logged /\ at' \in {"primary", "threw"}
      BY <1>1, <1>4, NextTokenEffect
    <2>2. f \in Frames /\ f.fn = "Operand"
      BY <1>2 DEF Frames
    <2> HIDE DEF f
    <2>3. stack' = Replace(f)
      BY <1>4 DEF f
    <2>4. NoSubExpr(stack) => NoSubExpr(stack')
      BY <1>1, <2>2, <2>3, StackWithout DEF Replace
    <2> QED
      BY <1>1, <2>1, <2>4, QuietStep DEF Pending
  <1>5. CASE Return(Top.lhs) /\ stack' = Pop /\ logged' = logged
    <2>1. NoSubExpr(stack) => NoSubExpr(stack') /\ value' # Null
      <3>1. NoSubExpr(stack) => NoSubExpr(stack')
        BY <1>1, <1>5, StackWithout DEF Pop
      <3>2. NoSubExpr(stack) => value' # Null
        BY <1>3, <1>5 DEF Return, Whole
      <3> QED
        BY <3>1, <3>2
    <2>2. at' = "return"
      BY <1>5 DEF Return
    <2> QED
      BY <1>1, <1>5, <2>1, <2>2 DEF ErrorsLogged, Pending
  <1> QED
    BY <1>4, <1>5 DEF BinOpRHS

(* A caller takes the value of the function that returns, and goes on. *)
LEMMA CallerFacts ==
  ASSUME IInv, at = "return", value # Null,
         Top.fn \in {"Parentheses", "Call", "Expr"}
  PROVE  /\ TypeOK /\ stack \in Seq(Frames) /\ stack # <<>>
         /\ value \in AST /\ Whole(value) /\ Top \in Frames /\ Top.lhs \in AST
         /\ NoSubExpr(stack) => NoSubExpr(Pop)
         /\ \A f \in Frames : f.fn # "SubExpr" =>
              /\ Replace(f) \in Seq(Frames)
              /\ NoSubExpr(stack) => NoSubExpr(Replace(f))
  <1>1. /\ TypeOK /\ stack \in Seq(Frames) /\ stack # <<>>
        /\ value \in AST /\ Whole(value) /\ Top \in Frames /\ Top.lhs \in AST
        /\ Len(stack) \in Nat /\ Len(stack) >= 1
    BY ReturnFacts DEF IInv
  <1>2. ASSUME NEW f \in Frames, f.fn # "SubExpr"
        PROVE  Replace(f) \in Seq(Frames) /\ (NoSubExpr(stack) => NoSubExpr(Replace(f)))
    <2>1. Replace(f) \in Seq(Frames)
      BY <1>1, ExceptSeq DEF Replace
    <2> QED
      BY <1>1, <1>2, <2>1, StackWithout DEF Replace
  <1>3. NoSubExpr(stack) => NoSubExpr(Pop)
    BY <1>1, StackWithout DEF Pop
  <1> QED
    BY <1>1, <1>2, <1>3

(* ParenthesesExprAST and ExprAST behind their first expression *)
LEMMA CallerErrors ==
  ASSUME IInv, ErrorsLogged, ReturnParentheses \/ ReturnFirstOperand
  PROVE  ErrorsLogged'
  <1>1. CASE ReturnParentheses
    <2>1. /\ at = "return" /\ value # Null /\ UNCHANGED <<has_error, undefined_read>>
          /\ Top.fn = "Parentheses" /\ stack' = Pop
      BY <1>1 DEF ReturnParentheses, Returned, Within, outcome
    <2>2. TypeOK /\ (NoSubExpr(stack) => NoSubExpr(stack'))
      BY <2>1, CallerFacts
    <2>3. CASE Error
      BY <2>1, <2>2, <2>3, ErrorStep
    <2>4. CASE NextToken("return") /\ value' = value
      <3>1. logged' = logged /\ at' \in {"return", "threw"}
        BY <2>2, <2>4, NextTokenEffect
      <3> QED
        BY <2>1, <2>2, <2>4, <3>1, QuietStep DEF Pending
    <2> QED
      BY <1>1, <2>3, <2>4 DEF ReturnParentheses
  <1>2. CASE ReturnFirstOperand
    <2> DEFINE f == [Frame("BinOpRHS") EXCEPT !.lhs = value]
    <2>1. /\ at = "return" /\ value # Null /\ UNCHANGED <<has_error, undefined_read>>
          /\ Top.fn = "Expr" /\ at' = "rhs" /\ logged' = logged /\ stack' = Replace(f)
      BY <1>2 DEF ReturnFirstOperand, Returned, Within, outcome
    <2>2. Frame("BinOpRHS") \in Frames /\ Frame("BinOpRHS").fn = "BinOpRHS"
      BY FrameTypes DEF FrameNames
    <2>3. f \in Frames /\ f.fn = "BinOpRHS"
      BY <2>1, <2>2, CallerFacts DEF Frames
    <2> HIDE DEF f
    <2>4. NoSubExpr(stack) => NoSubExpr(stack')
      BY <2>1, <2>3, CallerFacts
    <2> QED
      BY <2>1, <2>4, QuietStep DEF Pending
  <1> QED
    BY <1>1, <1>2

(* IdentifierExprAST behind an argument *)
LEMMA ArgumentErrors ==
  ASSUME IInv, ErrorsLogged, ReturnArgument
  PROVE  ErrorsLogged'
  <1>1. /\ at = "return" /\ value # Null /\ UNCHANGED <<has_error, undefined_read>>
        /\ Top.fn = "Call"
    <2>1. /\ at = "return" /\ Top.fn = "Call" /\ value # Null
          /\ UNCHANGED outcome /\ undefined_read' = undefined_read
      BY DEF ReturnArgument, Returned, Within
    <2> QED
      BY <2>1 DEF outcome
  <1>2. /\ TypeOK /\ (NoSubExpr(stack) => NoSubExpr(Pop)) /\ Top \in Frames
        /\ Item(Top.lhs, value) \in AST
    BY <1>1, CallerFacts, ItemAst
  <1>3. CASE Error /\ stack' = Pop
    BY <1>1, <1>2, <1>3, ErrorStep
  <1>4. CASE /\ value' = Append(Item(Top.lhs, value), ")") /\ NextToken("return")
             /\ stack' = Pop
    <2>1. logged' = logged /\ at' \in {"return", "threw"}
      BY <1>2, <1>4, NextTokenEffect
    <2>2. value' # Null
      BY <1>2, <1>4, AppendAst, SymbolFacts
    <2> QED
      BY <1>1, <1>2, <1>4, <2>1, <2>2, QuietStep DEF Pending
  <1>5. CASE /\ NextToken("primary") /\ value' = value
             /\ stack' = Append(Replace([Top EXCEPT !.lhs = Item(@, value)]), Frame("Expr"))
    <2> DEFINE f == [Top EXCEPT !.lhs = Item(@, value)]
    <2>1. f \in Frames /\ f.fn = "Call"
      BY <1>1, <1>2 DEF Frames
    <2>2. Frame("Expr") \in Frames /\ Frame("Expr").fn = "Expr"
      BY FrameTypes DEF FrameNames
    <2>3. stack' = Append(Replace(f), Frame("Expr"))
      BY <1>5
    <2> HIDE DEF f
    <2>4. Replace(f) \in Seq(Frames) /\ (NoSubExpr(stack) => NoSubExpr(Replace(f)))
      BY <1>1, <2>1, CallerFacts
    <2>5. NoSubExpr(stack) => NoSubExpr(stack')
      BY <2>2, <2>3, <2>4, StackWithout
    <2>6. logged' = logged /\ at' \in {"primary", "threw"}
      BY <1>2, <1>5, NextTokenEffect
    <2> QED
      BY <1>1, <2>5, <2>6, QuietStep DEF Pending
  <1> QED
    BY <1>3, <1>4, <1>5 DEF ReturnArgument

(* BinOpRHS behind its second operand, and behind line 195 *)
LEMMA OperandErrors ==
  ASSUME IInv, ErrorsLogged, ReturnOperand \/ ReturnSubExpr
  PROVE  ErrorsLogged'
  <1>1. /\ at = "return" /\ logged' = logged /\ has_error' = has_error
    BY DEF ReturnOperand, ReturnSubExpr, Returned, Within, outcome
  <1>2. /\ stack \in Seq(Frames) /\ stack # <<>> /\ value \in AST /\ Top \in Frames
        /\ Top.prec \in Nat /\ Top.lhs \in AST /\ Top.op \in Symbols
        /\ Len(stack) \in DOMAIN stack /\ Top = stack[Len(stack)]
    BY <1>1, ReturnFacts, LenProperties DEF Top
  <1>3. CASE ReturnSubExpr
    <2>1. ~NoSubExpr(stack) /\ undefined_read' = undefined_read
      BY <1>2, <1>3 DEF ReturnSubExpr, NoSubExpr, Within
    <2> QED
      BY <2>1 DEF ErrorsLogged
  <1>4. CASE ReturnOperand
    <2>1. CASE undefined_read' = TRUE
      BY <2>1 DEF ErrorsLogged
    <2>2. CASE Merge(Top.lhs, value) /\ undefined_read' = undefined_read
      <3> DEFINE f == [Frame("BinOpRHS") EXCEPT
                         !.prec = Top.prec, !.lhs = BinaryExpr(Top.op, Top.lhs, value)]
      <3>1. Frame("BinOpRHS") \in Frames /\ Frame("BinOpRHS").fn = "BinOpRHS"
        BY FrameTypes DEF FrameNames
      <3>2. f \in Frames /\ f.fn = "BinOpRHS"
        BY <1>2, <3>1, BinaryAst DEF Frames
      <3>3. at' = "rhs" /\ stack' = Replace(f) /\ value # Null
        BY <1>4, <2>2 DEF Merge, ReturnOperand, Returned
      <3> HIDE DEF f
      <3>4. NoSubExpr(stack) => NoSubExpr(stack')
        BY <1>2, <3>2, <3>3, StackWithout DEF Replace
      <3> QED
        BY <1>1, <2>2, <3>3, <3>4, QuietStep DEF Pending
    <2> QED
      BY <1>4, <2>1, <2>2 DEF ReturnOperand
  <1> QED
    BY <1>3, <1>4

(* A handler takes what was parsed. *)
LEMMA HandlerErrors ==
  ASSUME IInv, ErrorsLogged, ReturnPrototype \/ ReturnItem
  PROVE  ErrorsLogged'
  <1>1. /\ at = "return" /\ value # Null /\ at' \in {"primary", "loop"}
        /\ UNCHANGED <<has_error, logged, undefined_read>>
    BY DEF ReturnPrototype, ReturnItem, Returned, Push, Within, outcome
  <1>2. NoSubExpr(stack')
    <2>1. CASE ReturnItem
      BY <2>1 DEF ReturnItem, Push, NoSubExpr
    <2>2. CASE ReturnPrototype
      <3> DEFINE f == [Frame("Body") EXCEPT !.lhs = value]
      <3>1. /\ Frame("Body").fn = "Body" /\ Frame("Expr").fn = "Expr"
            /\ Frame("Body") \in Frames
        BY FrameTypes DEF FrameNames, Handlers
      <3>2. f.fn = "Body"
        BY <3>1 DEF Frames
      <3>3. stack' = <<f, Frame("Expr")>>
        BY <2>2 DEF ReturnPrototype
      <3> HIDE DEF f
      <3> QED
        BY <3>1, <3>2, <3>3 DEF NoSubExpr
    <2> QED
      BY <2>1, <2>2
  <1> QED
    BY <1>1, <1>2, QuietStep DEF Pending

(* Every step keeps errors and messages together. *)
LEMMA ErrorsStep ==
  ASSUME IInv, ErrorsLogged, [Next]_vars
  PROVE  ErrorsLogged'
  <1>1. CASE UNCHANGED vars
    BY <1>1 DEF vars, sourceVars, parserVars, outcome, ErrorsLogged, Pending
  <1>2. CASE ReturnNull
    BY <1>2, NullPassedOn DEF IInv, TypeOK
  <1> QED
    BY <1>1, <1>2, LoopErrors, PrototypeErrors, PrimaryErrors, IdentifierErrors, BinOpErrors,
       CallerErrors, ArgumentErrors, OperandErrors, HandlerErrors DEF Next

(* A file is rejected exactly when a message was written, as long as the   *)
(* pointer of line 195 was not read: for any tokens, in files of any       *)
(* length, whichever functions an error passes through.                    *)
THEOREM RejectedAsLogged == Spec => []RejectedIffLogged
  <1>1. Init => ErrorsLogged
    BY DEF Init, ErrorsLogged, NoSubExpr, Pending
  <1>2. ErrorsLogged => RejectedIffLogged
    BY DEF ErrorsLogged, Pending, RejectedIffLogged
  <1> QED
    BY <1>1, <1>2, InvInit, InvStep, ErrorsStep, PTL DEF Spec

(* A set of numbers that holds 0 and every successor of its elements holds *)
(* all of them.                                                            *)
LEMMA AllNumbers ==
  ASSUME NEW S, 0 \in S, \A n \in Nat : n \in S => n + 1 \in S
  PROVE  Nat \subseteq S
  <1> DEFINE R == OpToRel(<, Nat)
             T == Nat \ S
  <1> SUFFICES ASSUME T # {} PROVE FALSE
    OBVIOUS
  <1>1. IsWellFoundedOn(R, Nat)
    BY NatLessThanWellFounded
  <1>2. \A x, y \in Nat : x < y => <<x, y>> \in R
    BY DEF OpToRel
  <1> HIDE DEF R
  <1>3. T \subseteq Nat /\ \E x \in T : TRUE
    OBVIOUS
  <1>4. PICK x \in T : \A y \in T : <<y, x>> \notin R
    BY <1>1, <1>3, WFMin
  <1>5. x \in Nat /\ x # 0 /\ x - 1 \in Nat /\ x - 1 < x /\ (x - 1) + 1 = x
    BY <1>4
  <1>6. x - 1 \notin T
    BY <1>2, <1>4, <1>5
  <1> QED
    BY <1>4, <1>5, <1>6

-----------------------------------------------------------------------------
(* FlattenSeq, from its recursive definition *)

(* g is the recursive function of FlattenSeq for the first n of ss. *)
Flattens(g, ss, n) ==
  g = [i \in 1..n |-> IF i = 1 THEN ss[i] ELSE g[i - 1] \o ss[i]]

(* There is such a function. *)
LEMMA FlattenExists ==
  ASSUME NEW ss, NEW n \in Nat
  PROVE  \E g : Flattens(g, ss, n)
  <1> DEFINE S == {k \in Nat : \E g : Flattens(g, ss, k)}
  <1>1. 0 \in S
    <2>1. Flattens([i \in 1..0 |-> ss[i]], ss, 0)
      BY DEF Flattens
    <2> QED
      BY <2>1
  <1>2. ASSUME NEW k \in Nat, k \in S
        PROVE  k + 1 \in S
    <2>1. PICK g : Flattens(g, ss, k)
      BY <1>2
    <2> DEFINE v == IF k = 0 THEN ss[1] ELSE g[k] \o ss[k + 1]
               h == [i \in 1..(k + 1) |-> IF i = k + 1 THEN v ELSE g[i]]
    <2>2. \A i \in 1..k : g[i] = IF i = 1 THEN ss[i] ELSE g[i - 1] \o ss[i]
      BY <2>1 DEF Flattens
    <2>3. \A i \in 1..k : h[i] = g[i]
      OBVIOUS
    <2>4. h[k + 1] = v
      OBVIOUS
    <2>5. ASSUME NEW i \in 1..(k + 1)
          PROVE  h[i] = IF i = 1 THEN ss[i] ELSE h[i - 1] \o ss[i]
      <3>1. CASE i = k + 1
        <4>1. CASE k = 0
          BY <2>4, <3>1, <4>1
        <4>2. CASE k # 0
          <5>1. k \in 1..k /\ i - 1 = k /\ i # 1
            BY <3>1, <4>2
          <5>2. h[k] = g[k]
            BY <2>3, <5>1
          <5>3. v = g[k] \o ss[k + 1]
            BY <4>2
          <5> HIDE DEF h, v
          <5>4. h[i] = g[k] \o ss[k + 1]
            BY <2>4, <3>1, <5>3
          <5>5. h[i - 1] \o ss[i] = g[k] \o ss[k + 1]
            BY <3>1, <5>1, <5>2
          <5> QED
            BY <5>1, <5>4, <5>5
        <4> QED
          BY <4>1, <4>2
      <3>2. CASE i # k + 1
        <4>1. i \in 1..k /\ (i # 1 => i - 1 \in 1..k)
          BY <3>2
        <4> HIDE DEF h
        <4> QED
          BY <2>2, <2>3, <4>1
      <3> QED
        BY <3>1, <3>2
    <2>6. h = [i \in 1..(k + 1) |-> IF i = 1 THEN ss[i] ELSE h[i - 1] \o ss[i]]
      <3> DEFINE hh == [i \in 1..(k + 1) |-> IF i = 1 THEN ss[i] ELSE h[i - 1] \o ss[i]]
      <3>1. DOMAIN h = 1..(k + 1) /\ DOMAIN hh = 1..(k + 1)
        OBVIOUS
      <3>2. \A i \in 1..(k + 1) : h[i] = hh[i]
        BY <2>5
      <3>3. h = [i \in DOMAIN h |-> h[i]] /\ hh = [i \in DOMAIN hh |-> hh[i]]
        OBVIOUS
      <3> HIDE DEF h, hh
      <3>4. h = hh
        BY <3>1, <3>2, <3>3
      <3> QED
        BY <3>4 DEF hh
    <2>7. Flattens(h, ss, k + 1)
      BY <2>6, Zenon DEF Flattens
    <2> HIDE DEF h
    <2> QED
      BY <2>7
  <1> HIDE DEF S
  <1>3. n \in S
    BY <1>1, <1>2, AllNumbers
  <1> QED
    BY <1>3 DEF S

(* What FlattenSeq returns is the last value of such a function. *)
LEMMA FlattenIs ==
  ASSUME NEW T, NEW ss \in Seq(Seq(T))
  PROVE  \E g : /\ \A i \in 1..Len(ss) : g[i] = IF i = 1 THEN ss[i] ELSE g[i - 1] \o ss[i]
                /\ SX!FlattenSeq(ss) = IF Len(ss) = 0 THEN <<>> ELSE g[Len(ss)]
  <1> DEFINE P(g) == g = [i \in 1..Len(ss) |-> IF i = 1 THEN ss[i] ELSE g[i - 1] \o ss[i]]
             f == CHOOSE g : P(g)
  <1>1. SX!FlattenSeq(ss) = IF Len(ss) = 0 THEN ss ELSE f[Len(ss)]
    BY Zenon DEF SX!FlattenSeq
  <1>2. \E g : P(g)
    <2>1. Len(ss) \in Nat
      OBVIOUS
    <2>2. \E g : Flattens(g, ss, Len(ss))
      BY <2>1, FlattenExists, Zenon
    <2> QED
      BY <2>2, Zenon DEF Flattens
  <1>3. P(f)
    BY <1>2, Zenon
  <1> HIDE DEF f
  <1>4. \A i \in 1..Len(ss) : f[i] = IF i = 1 THEN ss[i] ELSE f[i - 1] \o ss[i]
    BY <1>3
  <1>5. Len(ss) = 0 => ss = <<>>
    OBVIOUS
  <1> QED
    BY <1>1, <1>4, <1>5

(* One more sequence is put behind the others. *)
LEMMA FlattenAppend ==
  ASSUME NEW T, NEW ss \in Seq(Seq(T)), NEW t \in Seq(T)
  PROVE  /\ SX!FlattenSeq(ss) \in Seq(T)
         /\ SX!FlattenSeq(Append(ss, t)) = SX!FlattenSeq(ss) \o t
  <1> DEFINE n == Len(ss)
             q == Append(ss, t)
  <1>1. n \in Nat /\ q \in Seq(Seq(T)) /\ Len(q) = n + 1
        /\ (\A i \in 1..n : q[i] = ss[i] /\ ss[i] \in Seq(T)) /\ q[n + 1] = t
    OBVIOUS
  <1>2. PICK g : /\ \A i \in 1..n : g[i] = IF i = 1 THEN ss[i] ELSE g[i - 1] \o ss[i]
                 /\ SX!FlattenSeq(ss) = IF n = 0 THEN <<>> ELSE g[n]
    BY FlattenIs
  <1>3. PICK h : /\ \A i \in 1..(n + 1) : h[i] = IF i = 1 THEN q[i] ELSE h[i - 1] \o q[i]
                 /\ SX!FlattenSeq(q) = h[n + 1]
    <2>1. PICK h : /\ \A i \in 1..Len(q) : h[i] = IF i = 1 THEN q[i] ELSE h[i - 1] \o q[i]
                   /\ SX!FlattenSeq(q) = IF Len(q) = 0 THEN <<>> ELSE h[Len(q)]
      BY <1>1, FlattenIs
    <2> HIDE DEF n, q
    <2> QED
      BY <1>1, <2>1
  <1> HIDE DEF n, q
  <1>4. \A i \in 1..n : h[i] = g[i] /\ g[i] \in Seq(T)
    <2> DEFINE S == {k \in Nat : k \in 1..n => h[k] = g[k] /\ g[k] \in Seq(T)}
    <2>1. 0 \in S
      BY <1>1
    <2>2. ASSUME NEW k \in Nat, k \in S PROVE k + 1 \in S
      <3> SUFFICES ASSUME k + 1 \in 1..n
          PROVE  h[k + 1] = g[k + 1] /\ g[k + 1] \in Seq(T)
        OBVIOUS
      <3>1. k + 1 \in 1..(n + 1) /\ q[k + 1] = ss[k + 1] /\ ss[k + 1] \in Seq(T)
        BY <1>1
      <3>2. CASE k = 0
        BY <1>2, <1>3, <3>1, <3>2
      <3>3. CASE k # 0
        <4>1. k \in 1..n /\ (k + 1) - 1 = k /\ k + 1 # 1
          BY <1>1, <3>3
        <4>2. h[k] = g[k] /\ g[k] \in Seq(T)
          BY <2>2, <4>1
        <4>3. g[k + 1] = g[k] \o ss[k + 1]
          BY <1>2, <4>1
        <4>4. h[k + 1] = h[k] \o q[k + 1]
          BY <1>3, <3>1, <4>1
        <4> QED
          BY <3>1, <4>2, <4>3, <4>4
      <3> QED
        BY <3>2, <3>3
    <2> HIDE DEF S
    <2>3. Nat \subseteq S
      BY <2>1, <2>2, AllNumbers
    <2> QED
      BY <1>1, <2>3 DEF S
  <1>5. n + 1 \in 1..(n + 1) /\ (n + 1) - 1 = n
    BY <1>1
  <1>6. CASE n = 0
    BY <1>1, <1>2, <1>3, <1>5, <1>6 DEF q
  <1>7. CASE n # 0
    <2>1. n \in 1..n /\ n + 1 # 1
      BY <1>1, <1>7
    <2>2. h[n + 1] = h[n] \o t /\ h[n] = g[n] /\ g[n] \in Seq(T)
      BY <1>1, <1>3, <1>4, <1>5, <2>1
    <2>3. SX!FlattenSeq(ss) = g[n]
      BY <1>2, <1>7
    <2> QED
      BY <1>3, <2>2, <2>3 DEF q
  <1> QED
    BY <1>6, <1>7

(* The last element of the second of two sequences is that of both. *)
LEMMA ConcatLast ==
  ASSUME NEW T, NEW a \in Seq(T), NEW b \in Seq(T), NEW x \in T
  PROVE  a \o Append(b, x) = Append(a \o b, x) /\ a \o b \in Seq(T)
  <1>1. Append(b, x) = b \o <<x>> /\ <<x>> \in Seq(T) /\ a \o b \in Seq(T)
    OBVIOUS
  <1>2. Append(a \o b, x) = (a \o b) \o <<x>>
    BY <1>1
  <1>3. (a \o b) \o <<x>> = a \o (b \o <<x>>)
    BY <1>1, ConcatAssociative, SMTT(60)
  <1> QED
    BY <1>1, <1>2, <1>3, Zenon

(* Nothing put together is nothing. *)
LEMMA FlattenNothing == SX!FlattenSeq(<<>>) = <<>>
  BY DEF SX!FlattenSeq

(* What holds of two lists put together holds with one more element. *)
LEMMA FlattenLonger ==
  ASSUME NEW T, NEW a \in Seq(Seq(T)), NEW b \in Seq(Seq(T)), NEW x \in Seq(T),
         SX!FlattenSeq(a \o b) = SX!FlattenSeq(a) \o SX!FlattenSeq(b)
  PROVE  SX!FlattenSeq(a \o Append(b, x)) = SX!FlattenSeq(a) \o SX!FlattenSeq(Append(b, x))
  <1> DEFINE U == Seq(T)
             fa == SX!FlattenSeq(a)
             fb == SX!FlattenSeq(b)
  <1>1. a \o Append(b, x) = Append(a \o b, x) /\ a \o b \in Seq(U)
    <2>1. a \in Seq(U) /\ b \in Seq(U) /\ x \in U
      OBVIOUS
    <2> HIDE DEF U
    <2> QED
      BY <2>1, ConcatLast
  <1>2. fa \in Seq(T) /\ fb \in Seq(T) /\ SX!FlattenSeq(Append(b, x)) = fb \o x
    BY FlattenAppend
  <1> HIDE DEF U
  <1>3. SX!FlattenSeq(Append(a \o b, x)) = (fa \o fb) \o x
    BY <1>1, FlattenAppend DEF U
  <1> HIDE DEF fa, fb
  <1>4. ASSUME NEW u \in Seq(T), NEW v \in Seq(T)
        PROVE  (u \o v) \o x = u \o (v \o x)
    BY ConcatAssociative, SMTT(60)
  <1> QED
    BY <1>1, <1>2, <1>3, <1>4, Zenon DEF fa

(* Two lists put together are their elements put together. *)
LEMMA FlattenConcat ==
  ASSUME NEW T, NEW ss \in Seq(Seq(T)), NEW tt \in Seq(Seq(T))
  PROVE  SX!FlattenSeq(ss \o tt) = SX!FlattenSeq(ss) \o SX!FlattenSeq(tt)
  <1> DEFINE part(k) == SubSeq(tt, 1, k)
             S == {k \in Nat : k <= Len(tt) =>
                     SX!FlattenSeq(ss \o part(k)) = SX!FlattenSeq(ss) \o SX!FlattenSeq(part(k))}
  <1>0. SX!FlattenSeq(ss) \in Seq(T)
    <2>1. <<>> \in Seq(T)
      OBVIOUS
    <2> QED
      BY <2>1, FlattenAppend
  <1>1. 0 \in S
    <2>1. part(0) = <<>> /\ ss \o <<>> = ss
      OBVIOUS
    <2>2. SX!FlattenSeq(ss) \o <<>> = SX!FlattenSeq(ss)
      BY <1>0
    <2> QED
      BY <2>1, <2>2, FlattenNothing
  <1>2. ASSUME NEW k \in Nat, k \in S PROVE k + 1 \in S
    <2> SUFFICES ASSUME k + 1 <= Len(tt)
        PROVE  SX!FlattenSeq(ss \o part(k + 1)) = SX!FlattenSeq(ss) \o SX!FlattenSeq(part(k + 1))
      OBVIOUS
    <2>1. tt[k + 1] \in Seq(T) /\ part(k) \in Seq(Seq(T)) /\ k <= Len(tt)
      OBVIOUS
    <2>2. part(k + 1) = Append(part(k), tt[k + 1])
      OBVIOUS
    <2>3. SX!FlattenSeq(ss \o part(k)) = SX!FlattenSeq(ss) \o SX!FlattenSeq(part(k))
      BY <1>2, <2>1
    <2> HIDE DEF part
    <2> QED
      BY <2>1, <2>2, <2>3, FlattenLonger
  <1> HIDE DEF S
  <1>3. Len(tt) \in S
    <2>1. Nat \subseteq S
      BY <1>1, <1>2, AllNumbers
    <2> QED
      BY <2>1
  <1>4. part(Len(tt)) = tt
    OBVIOUS
  <1> HIDE DEF part
  <1> QED
    BY <1>3, <1>4 DEF S

-----------------------------------------------------------------------------
(* What ASTs and tokens say *)

(* The sequence that Meaning puts together, and each of its elements *)
Bare(x)    == IF x \in Marks THEN <<>> ELSE <<x>>
Bares(ast) == [j \in DOMAIN ast |-> Bare(ast[j])]

(* Bares is a list of ASTs, and goes through the symbols one by one. *)
LEMMA BaresFacts ==
  /\ \A x \in Symbols : Bare(x) \in AST
  /\ \A a \in AST : Bares(a) \in Seq(Seq(Symbols)) /\ Meaning(a) = SX!FlattenSeq(Bares(a))
  /\ \A a, b \in AST : Bares(a \o b) = Bares(a) \o Bares(b)
  /\ \A x \in Symbols : Bares(<<x>>) = Append(<<>>, Bare(x))
  <1>1. \A x \in Symbols : Bare(x) \in AST
    BY DEF Bare, AST
  <1>2. ASSUME NEW a \in AST
        PROVE  /\ Bares(a) \in Seq(Seq(Symbols)) /\ Meaning(a) = SX!FlattenSeq(Bares(a))
               /\ Len(Bares(a)) = Len(a) /\ \A i \in 1..Len(a) : Bares(a)[i] = Bare(a[i])
    <2>1. DOMAIN a = 1..Len(a) /\ \A j \in 1..Len(a) : a[j] \in Symbols
      BY LenProperties, ElementOfSeq DEF AST
    <2>2. \A j \in 1..Len(a) : Bare(a[j]) \in Seq(Symbols)
      BY <1>1, <2>1 DEF AST
    <2>3. Len(a) \in Nat
      BY DEF AST
    <2>4. Bares(a) \in Seq(Seq(Symbols)) /\ Len(Bares(a)) = Len(a)
          /\ \A i \in 1..Len(a) : Bares(a)[i] = Bare(a[i])
      BY <2>1, <2>2, <2>3 DEF Bares
    <2>5. Meaning(a) = SX!FlattenSeq(Bares(a))
      BY Zenon DEF Meaning, Bares, Bare
    <2> QED
      BY <2>4, <2>5
  <1>3. ASSUME NEW a \in AST, NEW b \in AST
        PROVE  Bares(a \o b) = Bares(a) \o Bares(b)
    <2> DEFINE x == Bares(a \o b)
               y == Bares(a) \o Bares(b)
    <2>1. a \o b \in AST /\ Len(a) \in Nat /\ Len(b) \in Nat /\ Len(a \o b) = Len(a) + Len(b)
          /\ \A i \in 1..(Len(a) + Len(b)) :
               (a \o b)[i] = IF i <= Len(a) THEN a[i] ELSE b[i - Len(a)]
      BY ConcatProperties DEF AST
    <2>2. x \in Seq(Seq(Symbols)) /\ Len(x) = Len(a) + Len(b)
          /\ \A i \in 1..(Len(a) + Len(b)) : x[i] = Bare((a \o b)[i])
      BY <1>2, <2>1
    <2>3. y \in Seq(Seq(Symbols)) /\ Len(y) = Len(a) + Len(b)
          /\ \A i \in 1..(Len(a) + Len(b)) :
               y[i] = IF i <= Len(a) THEN Bares(a)[i] ELSE Bares(b)[i - Len(a)]
      <3> DEFINE u == Bares(a)
                 w == Bares(b)
      <3>1. /\ u \in Seq(Seq(Symbols)) /\ Len(u) = Len(a)
            /\ w \in Seq(Seq(Symbols)) /\ Len(w) = Len(b)
        BY <1>2
      <3> DEFINE U == Seq(Symbols)
      <3>0. u \in Seq(U) /\ w \in Seq(U)
        BY <3>1
      <3> HIDE DEF u, w, U
      <3>2. /\ u \o w \in Seq(U) /\ Len(u \o w) = Len(u) + Len(w)
            /\ \A i \in 1..(Len(u) + Len(w)) :
                 (u \o w)[i] = IF i <= Len(u) THEN u[i] ELSE w[i - Len(u)]
        BY <3>0, ConcatProperties
      <3> QED
        BY <3>1, <3>2 DEF u, w, U
    <2> HIDE DEF x, y
    <2>4. ASSUME NEW i \in 1..(Len(a) + Len(b)) PROVE x[i] = y[i]
      <3>1. CASE i <= Len(a)
        <4>1. i \in 1..Len(a)
          BY <3>1
        <4> QED
          BY <1>2, <2>1, <2>2, <2>3, <3>1, <4>1
      <3>2. CASE ~(i <= Len(a))
        <4>1. i - Len(a) \in 1..Len(b)
          BY <2>1, <3>2
        <4> QED
          BY <1>2, <2>1, <2>2, <2>3, <3>2, <4>1
      <3> QED
        BY <3>1, <3>2
    <2>5. x = y
      BY <2>1, <2>2, <2>3, <2>4, SeqEqual
    <2> QED
      BY <2>5 DEF x, y
  <1>4. ASSUME NEW x \in Symbols PROVE Bares(<<x>>) = Append(<<>>, Bare(x))
    BY DEF Bares
  <1> QED
    BY <1>1, <1>2, <1>3, <1>4

(* What an AST says is said by its parts, in order. *)
LEMMA MeaningConcat ==
  ASSUME NEW a \in AST, NEW b \in AST
  PROVE  Meaning(a) \in AST /\ Meaning(a \o b) = Meaning(a) \o Meaning(b)
  <1>1. /\ Bares(a) \in Seq(Seq(Symbols)) /\ Bares(b) \in Seq(Seq(Symbols))
        /\ Meaning(a) = SX!FlattenSeq(Bares(a)) /\ Meaning(b) = SX!FlattenSeq(Bares(b))
        /\ Bares(a \o b) = Bares(a) \o Bares(b)
    BY BaresFacts
  <1>2. Meaning(a \o b) = SX!FlattenSeq(Bares(a \o b))
    BY BaresFacts, ConcatAst
  <1>3. SX!FlattenSeq(Bares(a)) \in Seq(Symbols)
    <2>1. <<>> \in Seq(Symbols)
      OBVIOUS
    <2> QED
      BY <1>1, <2>1, FlattenAppend
  <1>4. SX!FlattenSeq(Bares(a) \o Bares(b))
          = SX!FlattenSeq(Bares(a)) \o SX!FlattenSeq(Bares(b))
    BY <1>1, FlattenConcat
  <1> QED
    BY <1>1, <1>2, <1>3, <1>4 DEF AST

(* A mark says nothing, any other symbol itself. *)
LEMMA MeaningSymbol ==
  ASSUME NEW x \in Symbols
  PROVE  Meaning(<<x>>) = Bare(x) /\ Meaning(Null) = <<>>
  <1>1. <<x>> \in AST
    BY SymbolAst
  <1>2. Meaning(<<x>>) = SX!FlattenSeq(Append(<<>>, Bare(x))) /\ Bare(x) \in Seq(Symbols)
    BY <1>1, BaresFacts DEF AST
  <1>3. SX!FlattenSeq(Append(<<>>, Bare(x))) = <<>> \o Bare(x)
    <2>1. <<>> \in Seq(Seq(Symbols))
      OBVIOUS
    <2> QED
      BY <1>2, <2>1, FlattenAppend, FlattenNothing
  <1>4. Meaning(Null) = <<>>
    <2>1. Bares(<<>>) = <<>>
      BY DEF Bares
    <2> QED
      BY <2>1, SymbolFacts, BaresFacts, FlattenNothing DEF Null
  <1> QED
    BY <1>2, <1>3, <1>4

(* Sequences put together, in any grouping *)
LEMMA Regroup ==
  ASSUME NEW a \in AST, NEW b \in AST, NEW c \in AST
  PROVE  (a \o b) \o c = a \o (b \o c) /\ a \o <<>> = a /\ <<>> \o a = a
  BY ConcatAssociative DEF AST

(* Two ways to put a symbol behind others *)
LEMMA AppendIs ==
  ASSUME NEW a \in AST, NEW x \in Symbols
  PROVE  Append(a, x) = a \o <<x>>
  BY DEF AST

(* Three symbols, one behind the other *)
LEMMA TripleIs ==
  ASSUME NEW x, NEW y, NEW z
  PROVE  Append(Append(<<x>>, y), z) = <<x, y, z>>
  <1> DEFINE S == {x, y, z}
             a == Append(Append(<<x>>, y), z)
             b == <<x, y, z>>
  <1>1. <<x>> \in Seq(S) /\ Len(<<x>>) = 1 /\ <<x>>[1] = x
    OBVIOUS
  <1>2. /\ Append(<<x>>, y) \in Seq(S) /\ Len(Append(<<x>>, y)) = 2
        /\ Append(<<x>>, y)[1] = x /\ Append(<<x>>, y)[2] = y
    BY <1>1
  <1>3. a \in Seq(S) /\ Len(a) = 3 /\ a[1] = x /\ a[2] = y /\ a[3] = z
    BY <1>2
  <1>4. b \in Seq(S) /\ Len(b) = 3 /\ b[1] = x /\ b[2] = y /\ b[3] = z
    OBVIOUS
  <1> HIDE DEF a, b, S
  <1>5. \A i \in 1..3 : a[i] = b[i]
    BY <1>3, <1>4
  <1>6. a = b
    BY <1>3, <1>4, <1>5, SeqEqual
  <1> QED
    BY <1>6 DEF a, b

(* One more mark says nothing more. *)
LEMMA MeaningAppend ==
  ASSUME NEW a \in AST, NEW x \in Symbols
  PROVE  /\ Meaning(Append(a, x)) = Meaning(a) \o Bare(x)
         /\ x \in Marks => Meaning(Append(a, x)) = Meaning(a)
  <1>1. Append(a, x) = a \o <<x>>
    BY DEF AST
  <1>2. <<x>> \in AST /\ Meaning(<<x>>) = Bare(x)
    BY SymbolAst, MeaningSymbol
  <1>3. Meaning(a) \in AST /\ Meaning(a \o <<x>>) = Meaning(a) \o Meaning(<<x>>)
    BY <1>2, MeaningConcat
  <1>4. Meaning(a) \o <<>> = Meaning(a)
    BY <1>3, Regroup
  <1> QED
    BY <1>1, <1>2, <1>3, <1>4 DEF Bare

(* An argument says what it says, behind the list it is added to. *)
LEMMA MeaningItem ==
  ASSUME NEW a \in AST, NEW b \in AST
  PROVE  Meaning(Item(a, b)) = Meaning(a) \o Meaning(b)
  <1>1. "," \in Symbols /\ "," \in Marks
    BY SymbolFacts DEF Marks
  <1>2. Append(a, ",") = a \o <<",">> /\ a \o <<",">> \in AST
    BY <1>1, AppendAst, AppendIs
  <1>3. Meaning(a \o <<",">>) = Meaning(a)
    BY <1>1, <1>2, MeaningAppend
  <1>4. Meaning((a \o <<",">>) \o b) = Meaning(a) \o Meaning(b)
    BY <1>2, <1>3, MeaningConcat
  <1>5. Meaning(a \o b) = Meaning(a) \o Meaning(b)
    BY MeaningConcat
  <1> QED
    BY <1>4, <1>5, Zenon DEF Item

Operators == {"+", "-", "*", "/", "<"}

(* A binary expression says its first operand, its operator, its second. *)
LEMMA MeaningBinary ==
  ASSUME NEW a \in AST, NEW b \in AST, a # Null, b # Null, NEW op \in Operators,
         op \in Symbols
  PROVE  Meaning(BinaryExpr(op, a, b)) = (Meaning(a) \o <<op>>) \o Meaning(b)
  <1>1. Shown(a) = a /\ Shown(b) = b /\ BinaryOpName(op) = op /\ op \notin Marks
        /\ "(" \in Marks /\ ")" \in Marks /\ "(" \in Symbols /\ ")" \in Symbols
    BY SymbolFacts DEF Shown, BinaryOpName, Operators, Marks
  <1> DEFINE l1 == <<"(">> \o a
             l2 == Append(l1, ")")
             l3 == Append(l2, op)
             l4 == Append(l3, "(")
             l5 == l4 \o b
             l6 == Append(l5, ")")
  <1>2. <<"(">> \in AST /\ Meaning(<<"(">>) = <<>> /\ Meaning(a) \in AST
        /\ Meaning(b) \in AST /\ <<op>> \in AST
    BY <1>1, SymbolAst, MeaningSymbol, MeaningConcat DEF Bare
  <1>3. l1 \in AST /\ Meaning(l1) = Meaning(a)
    <2>1. l1 \in AST /\ Meaning(l1) = Meaning(<<"(">>) \o Meaning(a)
      BY <1>2, ConcatAst, MeaningConcat
    <2> QED
      BY <1>2, <2>1, Regroup
  <1>4. BinaryExpr(op, a, b) = l6
    <2>1. BinaryExpr(op, a, b)
            = ((l1 \o <<")", op, "(">>) \o b) \o <<")">>
      BY <1>1, Zenon DEF BinaryExpr
    <2> HIDE DEF l1
    <2>2. l1 \in Seq(Symbols) /\ b \in Seq(Symbols)
      BY <1>3 DEF AST
    <2>3. l1 \o <<")", op, "(">> = l4 /\ l4 \in Seq(Symbols)
      BY <1>1, <2>2
    <2> HIDE DEF l4
    <2>4. l4 \o b \in Seq(Symbols) /\ (l4 \o b) \o <<")">> = l6
      BY <1>1, <2>2, <2>3
    <2> HIDE DEF l6
    <2> QED
      BY <2>1, <2>3, <2>4, Zenon
  <1> HIDE DEF l1
  <1>5. l2 \in AST /\ Meaning(l2) = Meaning(a)
    BY <1>1, <1>3, AppendAst, MeaningAppend
  <1> HIDE DEF l2
  <1>6. l3 \in AST /\ Meaning(l3) = Meaning(a) \o <<op>>
    BY <1>1, <1>5, AppendAst, MeaningAppend DEF Bare
  <1> HIDE DEF l3
  <1>7. l4 \in AST /\ Meaning(l4) = Meaning(a) \o <<op>>
    BY <1>1, <1>6, AppendAst, MeaningAppend
  <1> HIDE DEF l4
  <1>8. l5 \in AST /\ Meaning(l5) = (Meaning(a) \o <<op>>) \o Meaning(b)
    BY <1>7, ConcatAst, MeaningConcat
  <1> HIDE DEF l5
  <1>9. Meaning(l6) = Meaning(l5)
    BY <1>1, <1>8, MeaningAppend
  <1> QED
    BY <1>4, <1>8, <1>9

(* A function says what its prototype and its body say. *)
LEMMA MeaningFunction ==
  ASSUME NEW p \in AST, NEW b \in AST
  PROVE  /\ Meaning(Function(p, b)) = Meaning(p) \o Meaning(b)
         /\ Anonymous \in AST /\ Meaning(Anonymous) = <<>>
  <1>1. {"", "(", ")", "{", "}"} \subseteq Symbols /\ {"", "(", ")", "{", "}"} \subseteq Marks
    BY SymbolFacts DEF Marks
  <1>2. Meaning(Function(p, b)) = Meaning(p) \o Meaning(b)
    <2> DEFINE l1 == Append(p, "{")
               l2 == l1 \o b
               l3 == Append(l2, "}")
    <2>1. l1 = p \o <<"{">>
      BY <1>1, AppendIs
    <2>2. l1 \in AST /\ Meaning(l1) = Meaning(p)
      BY <1>1, AppendAst, MeaningAppend
    <2> HIDE DEF l1
    <2>3. l2 \in AST /\ Meaning(l2) = Meaning(p) \o Meaning(b)
      BY <2>2, ConcatAst, MeaningConcat
    <2> HIDE DEF l2
    <2> HIDE DEF l2
    <2>4. Meaning(l3) = Meaning(l2) /\ l3 = l2 \o <<"}">>
      BY <1>1, <2>3, MeaningAppend, AppendIs
    <2>5. Function(p, b) = l3
      BY <2>1, <2>4, Zenon DEF Function, l2
    <2> QED
      BY <2>3, <2>4, <2>5
  <1>3. Anonymous \in AST /\ Meaning(Anonymous) = <<>>
    <2> DEFINE l1 == Append(<<"">>, "(")
    <2>1. <<"">> \in AST /\ Meaning(<<"">>) = <<>>
      BY <1>1, SymbolAst, MeaningSymbol DEF Bare
    <2>2. l1 \in AST /\ Meaning(l1) = <<>>
      BY <1>1, <2>1, AppendAst, MeaningAppend
    <2>3. Anonymous = Append(l1, ")")
      BY TripleIs DEF Anonymous
    <2> HIDE DEF l1
    <2> QED
      BY <1>1, <2>2, <2>3, AppendAst, MeaningAppend
  <1> QED
    BY <1>2, <1>3

(* What the elements of a sequence say, with one more of them *)
LEMMA SaysAppend ==
  ASSUME NEW X, NEW f \in [X -> AST], NEW s \in Seq(X), NEW x \in X
  PROVE  LET says(r) == SX!FlattenSeq([i \in DOMAIN r |-> f[r[i]]])
         IN  says(s) \in AST /\ says(Append(s, x)) = says(s) \o f[x]
  <1> DEFINE l(r) == [i \in DOMAIN r |-> f[r[i]]]
  <1>1. /\ Len(s) \in Nat /\ DOMAIN s = 1..Len(s) /\ \A i \in 1..Len(s) : s[i] \in X
        /\ Append(s, x) \in Seq(X) /\ Len(Append(s, x)) = Len(s) + 1
        /\ DOMAIN Append(s, x) = 1..(Len(s) + 1)
        /\ Append(s, x)[Len(s) + 1] = x
        /\ \A i \in 1..Len(s) : Append(s, x)[i] = s[i]
    BY LenProperties, ElementOfSeq
  <1>2. \A y \in X : f[y] \in AST
    OBVIOUS
  <1>3. /\ l(s) \in Seq(AST) /\ Len(l(s)) = Len(s)
        /\ \A i \in 1..Len(s) : l(s)[i] = f[s[i]]
    BY <1>1, <1>2
  <1>4. /\ l(Append(s, x)) \in Seq(AST) /\ Len(l(Append(s, x))) = Len(s) + 1
        /\ \A i \in 1..(Len(s) + 1) : l(Append(s, x))[i] = f[Append(s, x)[i]]
    <2>1. \A i \in 1..(Len(s) + 1) : Append(s, x)[i] \in X
      BY <1>1
    <2> QED
      BY <1>1, <1>2, <2>1
  <1> DEFINE a == l(s)
             b == l(Append(s, x))
             c == Append(a, f[x])
  <1>5. /\ c \in Seq(AST) /\ Len(c) = Len(s) + 1 /\ c[Len(s) + 1] = f[x]
        /\ \A i \in 1..Len(s) : c[i] = a[i]
    <2>1. a \in Seq(AST) /\ Len(a) = Len(s) /\ f[x] \in AST
      BY <1>2, <1>3
    <2> HIDE DEF a
    <2> QED
      BY <2>1
  <1>6. /\ a \in Seq(AST) /\ b \in Seq(AST) /\ Len(b) = Len(s) + 1
        /\ \A i \in 1..Len(s) : a[i] = f[s[i]]
        /\ \A i \in 1..(Len(s) + 1) : b[i] = f[Append(s, x)[i]]
    BY <1>3, <1>4
  <1> HIDE DEF a, b, c, l
  <1>7. \A i \in 1..(Len(s) + 1) : b[i] = c[i]
    <2> TAKE i \in 1..(Len(s) + 1)
    <2>1. i = Len(s) + 1 \/ i \in 1..Len(s)
      BY <1>1
    <2> QED
      BY <1>1, <1>5, <1>6, <2>1
  <1>8. b = c
    BY <1>1, <1>5, <1>6, <1>7, SeqEqual
  <1>9. SX!FlattenSeq(a) \in Seq(Symbols) /\ SX!FlattenSeq(c) = SX!FlattenSeq(a) \o f[x]
    <2>1. a \in Seq(Seq(Symbols)) /\ f[x] \in Seq(Symbols)
      BY <1>2, <1>6 DEF AST
    <2> QED
      BY <2>1, FlattenAppend DEF c
  <1>10. SX!FlattenSeq(l(s)) \in AST
         /\ SX!FlattenSeq(l(Append(s, x))) = SX!FlattenSeq(l(s)) \o f[x]
    BY <1>8, <1>9 DEF a, b, AST
  <1> QED
    BY <1>10 DEF l

(* What a token adds to what was said *)
Piece(t) == IF Speaks(t) THEN <<t.lexeme>> ELSE <<>>

(* One more token says its own part. *)
LEMMA SaidAppend ==
  ASSUME NEW r \in Seq(Tokens \cup {End}), NEW t \in Tokens \cup {End}
  PROVE  /\ Said(r) \in AST /\ Said(Append(r, t)) = Said(r) \o Piece(t)
         /\ Piece(t) \in AST /\ Said(<<>>) = <<>>
  <1> DEFINE X == Tokens \cup {End}
             f == [y \in X |-> Piece(y)]
  <1>1. \A y \in X : y.lexeme \in Symbols /\ Piece(y) \in AST
    <2>1. \A y \in Tokens : y.lexeme \in Symbols
      BY DEF Symbols
    <2>2. End.lexeme \in Symbols
      BY SymbolFacts DEF End
    <2>3. \A y \in X : y.lexeme \in Symbols
      BY <2>1, <2>2
    <2> QED
      BY <2>3, SymbolAst, SymbolFacts DEF Piece, Null
  <1>2. f \in [X -> AST] /\ \A y \in X : f[y] = Piece(y)
    BY <1>1
  <1>3. ASSUME NEW q \in Seq(X)
        PROVE  Said(q) = SX!FlattenSeq([i \in DOMAIN q |-> f[q[i]]])
    <2>1. \A i \in DOMAIN q : q[i] \in X
      BY LenProperties, ElementOfSeq
    <2>2. [i \in DOMAIN q |-> f[q[i]]] = [i \in DOMAIN q |-> Piece(q[i])]
      BY <1>2, <2>1
    <2> QED
      BY <2>2, Zenon DEF Said, Piece
  <1> HIDE DEF f, X
  <1>4. r \in Seq(X) /\ t \in X /\ Append(r, t) \in Seq(X)
    BY DEF X
  <1>5. /\ SX!FlattenSeq([i \in DOMAIN r |-> f[r[i]]]) \in AST
        /\ SX!FlattenSeq([i \in DOMAIN Append(r, t) |-> f[Append(r, t)[i]]])
             = SX!FlattenSeq([i \in DOMAIN r |-> f[r[i]]]) \o f[t]
    BY <1>2, <1>4, SaysAppend
  <1>6. Said(<<>>) = <<>>
    <2>1. [i \in DOMAIN <<>> |-> IF Speaks(<<>>[i]) THEN << <<>>[i].lexeme >> ELSE <<>>] = <<>>
      OBVIOUS
    <2> QED
      BY <2>1, FlattenNothing DEF Said
  <1> QED
    BY <1>1, <1>2, <1>3, <1>4, <1>5, <1>6, Zenon

(* One more item says what it says. *)
LEMMA MeaningsAppend ==
  ASSUME NEW l \in Seq(AST), NEW a \in AST
  PROVE  /\ Meanings(l) \in AST /\ Meanings(Append(l, a)) = Meanings(l) \o Meaning(a)
         /\ Meanings(<<>>) = <<>>
  <1> DEFINE f == [y \in AST |-> Meaning(y)]
  <1>1. f \in [AST -> AST] /\ \A y \in AST : f[y] = Meaning(y)
    BY MeaningConcat
  <1>2. ASSUME NEW q \in Seq(AST)
        PROVE  Meanings(q) = SX!FlattenSeq([i \in DOMAIN q |-> f[q[i]]])
    <2>1. \A i \in DOMAIN q : q[i] \in AST
      BY LenProperties, ElementOfSeq
    <2>2. [i \in DOMAIN q |-> f[q[i]]] = [i \in DOMAIN q |-> Meaning(q[i])]
      BY <1>1, <2>1
    <2> QED
      BY <2>2, Zenon DEF Meanings
  <1> HIDE DEF f
  <1>3. Append(l, a) \in Seq(AST)
    OBVIOUS
  <1>4. /\ SX!FlattenSeq([i \in DOMAIN l |-> f[l[i]]]) \in AST
        /\ SX!FlattenSeq([i \in DOMAIN Append(l, a) |-> f[Append(l, a)[i]]])
             = SX!FlattenSeq([i \in DOMAIN l |-> f[l[i]]]) \o f[a]
    BY <1>1, SaysAppend
  <1>5. Meanings(<<>>) = <<>>
    <2>1. [i \in DOMAIN <<>> |-> Meaning(<<>>[i])] = <<>>
      OBVIOUS
    <2> QED
      BY <2>1, FlattenNothing DEF Meanings
  <1> QED
    BY <1>1, <1>2, <1>3, <1>4, <1>5, Zenon

-----------------------------------------------------------------------------
(* What the calls on the stack have of the item that is being parsed *)

Part(f) ==
  IF f.fn \in {"Call", "Body", "BinOpRHS"} THEN Meaning(f.lhs)
  ELSE IF f.fn = "Operand" THEN Meaning(f.lhs) \o <<f.op>> ELSE <<>>

StackSays(s) == SX!FlattenSeq([i \in DOMAIN s |-> Part(s[i])])

(* One more call says what it has. *)
LEMMA StackSaysAppend ==
  ASSUME NEW s \in Seq(Frames), NEW g \in Frames
  PROVE  /\ StackSays(s) \in AST /\ StackSays(Append(s, g)) = StackSays(s) \o Part(g)
         /\ Part(g) \in AST /\ StackSays(<<>>) = <<>>
  <1> DEFINE f == [y \in Frames |-> Part(y)]
  <1>1. \A y \in Frames : Part(y) \in AST
    <2> TAKE y \in Frames
    <2>1. y.lhs \in AST /\ y.op \in Symbols
      BY DEF Frames
    <2>2. Meaning(y.lhs) \in AST /\ <<y.op>> \in AST /\ <<>> \in AST
      BY <2>1, MeaningConcat, SymbolAst, SymbolFacts DEF Null
    <2>3. Meaning(y.lhs) \o <<y.op>> \in AST
      BY <2>2, ConcatAst
    <2> QED
      BY <2>2, <2>3 DEF Part
  <1>2. f \in [Frames -> AST] /\ \A y \in Frames : f[y] = Part(y)
    BY <1>1
  <1>3. ASSUME NEW q \in Seq(Frames)
        PROVE  StackSays(q) = SX!FlattenSeq([i \in DOMAIN q |-> f[q[i]]])
    <2>1. \A i \in DOMAIN q : q[i] \in Frames
      BY LenProperties, ElementOfSeq
    <2>2. [i \in DOMAIN q |-> f[q[i]]] = [i \in DOMAIN q |-> Part(q[i])]
      BY <1>2, <2>1
    <2> QED
      BY <2>2, Zenon DEF StackSays
  <1> HIDE DEF f
  <1>4. Append(s, g) \in Seq(Frames)
    OBVIOUS
  <1>5. /\ SX!FlattenSeq([i \in DOMAIN s |-> f[s[i]]]) \in AST
        /\ SX!FlattenSeq([i \in DOMAIN Append(s, g) |-> f[Append(s, g)[i]]])
             = SX!FlattenSeq([i \in DOMAIN s |-> f[s[i]]]) \o f[g]
    BY <1>2, SaysAppend
  <1>6. StackSays(<<>>) = <<>>
    <2>1. [i \in DOMAIN <<>> |-> Part(<<>>[i])] = <<>>
      OBVIOUS
    <2> QED
      BY <2>1, FlattenNothing DEF StackSays
  <1> QED
    BY <1>1, <1>2, <1>3, <1>4, <1>5, <1>6, Zenon

-----------------------------------------------------------------------------
(***************************************************************************)
(* Nothing is lost between the tokens and the items.                       *)
(***************************************************************************)

(* What is said by the items and by the calls on the stack *)
Behind(l, s) == Meanings(l) \o StackSays(s)

(* Without the call of line 195 every precedence is 0, and BinOpRHS waits  *)
(* behind an operator.  A parenthesis or a call is an operand.             *)
FramesKept(s) ==
  \A i \in DOMAIN s :
    /\ s[i].prec = 0
    /\ s[i].fn = "Operand" => s[i].op \in Operators
    /\ s[i].fn \in {"Parentheses", "Call"} => i > 1 /\ s[i - 1].fn \in {"Expr", "Operand"}

(* ... as the last frame sees it, below which there is q. *)
FrameKept(f, q) ==
  /\ f.prec = 0
  /\ f.fn = "Operand" => f.op \in Operators
  /\ f.fn \in {"Parentheses", "Call"} => q # <<>> /\ q[Len(q)].fn \in {"Expr", "Operand"}

(* ... and by the AST that a function builds or returns *)
Carried(p, v) ==
  IF p \in {"prototype_open", "prototype_args", "identifier", "call", "return"}
  THEN Meaning(v) ELSE <<>>

KeptAt(p, l, s, v, said) == FramesKept(s) /\ Behind(l, s) \o Carried(p, v) = said

Saying == at \notin {"threw", "undefined"} /\ ~logged /\ ~undefined_read

(* The items, the calls and the AST on its way say, in order, what the     *)
(* tokens before the current one said.                                     *)
Kept ==
  Saying =>
    /\ KeptAt(at, ast_list, stack, value, Said(SX!Front(read)))
    /\ at = "start" => read = <<>>
    /\ at = "return" /\ Top.fn = "Parentheses" /\ IsPunct =>
         BinopPrecedence(Current.lexeme) < 0

(* One more call *)
LEMMA FramesKeptAppend ==
  ASSUME NEW q \in Seq(Frames), NEW f \in Frames
  PROVE  FramesKept(Append(q, f)) <=> FramesKept(q) /\ FrameKept(f, q)
  <1> DEFINE s == Append(q, f)
  <1>1. /\ Len(q) \in Nat /\ DOMAIN q = 1..Len(q) /\ DOMAIN s = 1..(Len(q) + 1)
        /\ s[Len(q) + 1] = f /\ \A i \in 1..Len(q) : s[i] = q[i]
        /\ q # <<>> <=> Len(q) > 0
    BY LenProperties, EmptySeq
  <1> HIDE DEF s
  <1>2. ASSUME FramesKept(s) PROVE FramesKept(q) /\ FrameKept(f, q)
    <2>1. FramesKept(q)
      <3> SUFFICES ASSUME NEW i \in 1..Len(q)
          PROVE  /\ q[i].prec = 0
                 /\ q[i].fn = "Operand" => q[i].op \in Operators
                 /\ q[i].fn \in {"Parentheses", "Call"} =>
                      i > 1 /\ q[i - 1].fn \in {"Expr", "Operand"}
        BY <1>1 DEF FramesKept
      <3>1. i \in DOMAIN s /\ s[i] = q[i] /\ (i > 1 => s[i - 1] = q[i - 1])
        BY <1>1
      <3> QED
        BY <1>2, <3>1 DEF FramesKept
    <2>2. FrameKept(f, q)
      <3>1. Len(q) + 1 \in DOMAIN s /\ (Len(q) + 1) - 1 = Len(q)
        BY <1>1
      <3>2. Len(q) > 0 => s[Len(q)] = q[Len(q)]
        BY <1>1
      <3>3. f.fn \in {"Parentheses", "Call"} =>
              Len(q) + 1 > 1 /\ s[Len(q)].fn \in {"Expr", "Operand"}
        BY <1>1, <1>2, <3>1 DEF FramesKept
      <3>4. f.prec = 0 /\ (f.fn = "Operand" => f.op \in Operators)
        BY <1>1, <1>2, <3>1 DEF FramesKept
      <3> QED
        BY <1>1, <3>2, <3>3, <3>4 DEF FrameKept
    <2> QED
      BY <2>1, <2>2
  <1>3. ASSUME FramesKept(q), FrameKept(f, q) PROVE FramesKept(s)
    <2> SUFFICES ASSUME NEW i \in 1..(Len(q) + 1)
        PROVE  /\ s[i].prec = 0
               /\ s[i].fn = "Operand" => s[i].op \in Operators
               /\ s[i].fn \in {"Parentheses", "Call"} =>
                    i > 1 /\ s[i - 1].fn \in {"Expr", "Operand"}
      BY <1>1 DEF FramesKept
    <2>1. CASE i \in 1..Len(q)
      <3>1. i \in DOMAIN q /\ s[i] = q[i] /\ (i > 1 => s[i - 1] = q[i - 1])
        BY <1>1, <2>1
      <3> QED
        BY <1>3, <3>1 DEF FramesKept
    <2>2. CASE i = Len(q) + 1
      <3>1. s[i] = f /\ i - 1 = Len(q) /\ (Len(q) > 0 => i > 1 /\ s[i - 1] = q[Len(q)])
        BY <1>1, <2>2
      <3> QED
        BY <1>1, <1>3, <3>1 DEF FrameKept
    <2> QED
      BY <1>1, <2>1, <2>2
  <1> QED
    BY <1>2, <1>3 DEF s

(* One more call says its part, behind all the others. *)
LEMMA BehindAppend ==
  ASSUME NEW l \in Seq(AST), NEW s \in Seq(Frames), NEW f \in Frames
  PROVE  /\ Behind(l, s) \in AST /\ Part(f) \in AST
         /\ Behind(l, Append(s, f)) = Behind(l, s) \o Part(f)
         /\ Behind(l, <<>>) = Meanings(l) /\ Meanings(l) \in AST
  <1>1. /\ Meanings(l) \in AST /\ StackSays(s) \in AST /\ Part(f) \in AST
        /\ StackSays(Append(s, f)) = StackSays(s) \o Part(f) /\ StackSays(<<>>) = <<>>
    BY MeaningsAppend, StackSaysAppend, SymbolFacts DEF Null
  <1>2. Meanings(l) \o (StackSays(s) \o Part(f)) = (Meanings(l) \o StackSays(s)) \o Part(f)
    BY <1>1, Regroup
  <1>3. Meanings(l) \o <<>> = Meanings(l)
    BY <1>1, Regroup
  <1> QED
    BY <1>1, <1>2, <1>3, ConcatAst DEF Behind

(* A sequence, with its last element split off *)
LEMMA SplitLast ==
  ASSUME NEW T, NEW s \in Seq(T), s # <<>>
  PROVE  LET q == SubSeq(s, 1, Len(s) - 1)
         IN  /\ q \in Seq(T) /\ s[Len(s)] \in T /\ s = Append(q, s[Len(s)])
             /\ \A f \in T :
                  /\ [s EXCEPT ![Len(s)] = f] = Append(q, f)
                  /\ [s EXCEPT ![Len(s)] = f] \in Seq(T)
  <1>0. Len(s) \in Nat /\ Len(s) >= 1
    BY EmptySeq, LenProperties
  <1>1. Len(s) \in Nat /\ Len(s) >= 1 /\ DOMAIN s = 1..Len(s)
    BY EmptySeq, LenProperties
  <1> DEFINE q == SubSeq(s, 1, Len(s) - 1)
  <1>2. /\ q \in Seq(T) /\ Len(q) = Len(s) - 1 /\ s[Len(s)] \in T
        /\ \A i \in 1..(Len(s) - 1) : q[i] = s[i]
    BY <1>1
  <1> HIDE DEF q
  <1>3. ASSUME NEW f \in T
        PROVE  /\ Append(q, f) \in Seq(T) /\ Len(Append(q, f)) = Len(s)
               /\ Append(q, f)[Len(s)] = f
               /\ \A i \in 1..(Len(s) - 1) : Append(q, f)[i] = s[i]
    <2>1. /\ Append(q, f) \in Seq(T) /\ Len(Append(q, f)) = Len(q) + 1
          /\ Append(q, f)[Len(q) + 1] = f
          /\ \A i \in 1..Len(q) : Append(q, f)[i] = q[i]
      BY <1>2, AppendProperties
    <2>2. Len(q) + 1 = Len(s)
      BY <1>1, <1>2
    <2> QED
      BY <1>2, <2>1, <2>2
  <1>4. s = Append(q, s[Len(s)])
    <2>1. ASSUME NEW i \in 1..Len(s) PROVE s[i] = Append(q, s[Len(s)])[i]
      <3>1. i = Len(s) \/ i \in 1..(Len(s) - 1)
        BY <1>0
      <3> QED
        BY <1>2, <1>3, <3>1
    <2> QED
      BY <1>2, <1>3, <2>1, SeqEqual
  <1>5. ASSUME NEW f \in T
        PROVE  /\ [s EXCEPT ![Len(s)] = f] = Append(q, f)
               /\ [s EXCEPT ![Len(s)] = f] \in Seq(T)
    <2> DEFINE r == [s EXCEPT ![Len(s)] = f]
    <2>1. /\ r \in Seq(T) /\ Len(r) = Len(s) /\ r[Len(s)] = f
          /\ \A i \in 1..(Len(s) - 1) : r[i] = s[i]
      <3>1. Len(s) \in 1..Len(s)
        BY <1>0
      <3>2. /\ r \in Seq(T) /\ Len(r) = Len(s)
            /\ \A j \in 1..Len(s) : r[j] = IF j = Len(s) THEN f ELSE s[j]
        BY <3>1, ExceptSeq
      <3> HIDE DEF r
      <3> QED
        BY <1>0, <3>1, <3>2
    <2> HIDE DEF r
    <2>2. ASSUME NEW i \in 1..Len(s) PROVE r[i] = Append(q, f)[i]
      <3>1. i = Len(s) \/ i \in 1..(Len(s) - 1)
        BY <1>0
      <3> QED
        BY <1>3, <2>1, <3>1
    <2>3. r = Append(q, f)
      BY <1>3, <2>1, <2>2, SeqEqual
    <2> QED
      BY <2>1, <2>3 DEF r
  <1> QED
    BY <1>2, <1>4, <1>5 DEF q

(* Two calls, one behind the other *)
LEMMA TwoFrames ==
  ASSUME NEW s \in Seq(Frames), NEW f \in Frames, NEW g \in Frames
  PROVE  s \o <<f, g>> = Append(Append(s, f), g) /\ Append(s, f) \in Seq(Frames)
         /\ <<f, g>> = Append(Append(<<>>, f), g)
         /\ s \o <<f, g>> \in Seq(Frames)
  OBVIOUS

(* What the current token says *)
LEMMA CurrentSays ==
  ASSUME TypeOK, read # <<>>
  PROVE  /\ Current \in Tokens \cup {End} /\ Piece(Current) \in AST
         /\ Current.tag \in {"kIdentifier", "kNumber"} =>
              /\ <<Current.lexeme>> \in AST /\ Meaning(<<Current.lexeme>>) = Piece(Current)
              /\ Piece(Current) = <<Current.lexeme>>
         /\ Current.tag \notin {"kIdentifier", "kNumber", "kPunctuator"} => Piece(Current) = <<>>
         /\ IsPunct /\ BinopPrecedence(Current.lexeme) >= 0 =>
              Current.lexeme \in Operators /\ Piece(Current) = <<Current.lexeme>>
         /\ IsPunct /\ BinopPrecedence(Current.lexeme) < 0 => Piece(Current) = <<>>
         /\ \A p \in {"(", ")", ",", ";"} : Is(p) => Piece(Current) = <<>>
  <1>0. -1 < 0
    OBVIOUS
  <1>1. read \in Seq(Tokens \cup {End}) /\ Current.lexeme \in Symbols
    BY CurrentFacts DEF TypeOK
  <1>2. Current \in Tokens \cup {End}
    BY <1>1, EmptySeq, ElementOfSeq DEF Current
  <1>3. Piece(Current) \in AST
    BY <1>1, <1>2, SaidAppend
  <1>4. ASSUME Current.tag \in {"kIdentifier", "kNumber"}
        PROVE  /\ <<Current.lexeme>> \in AST /\ Meaning(<<Current.lexeme>>) = Piece(Current)
               /\ Piece(Current) = <<Current.lexeme>>
    <2>1. Current # End
      <3>1. End.tag = "kEOF"
        BY DEF End
      <3> QED
        BY <1>4, <3>1
    <2>2. Current.lexeme \notin Marks
      BY <1>2, <1>4, <2>1, TokenAssumption
    <2>3. Piece(Current) = <<Current.lexeme>>
      BY <1>4 DEF Piece, Speaks
    <2> QED
      BY <1>1, <2>2, <2>3, SymbolAst, MeaningSymbol DEF Bare
  <1>5. /\ Current.tag \notin {"kIdentifier", "kNumber", "kPunctuator"} => Piece(Current) = <<>>
        /\ IsPunct /\ BinopPrecedence(Current.lexeme) < 0 => Piece(Current) = <<>>
    <2>1. BinopPrecedence(Current.lexeme) \in Int
      BY DEF BinopPrecedence
    <2> QED
      BY <2>1 DEF Piece, Speaks, IsPunct
  <1>6. IsPunct /\ BinopPrecedence(Current.lexeme) >= 0 =>
          Current.lexeme \in Operators /\ Piece(Current) = <<Current.lexeme>>
    BY DEF Piece, Speaks, IsPunct, BinopPrecedence, Operators
  <1>7. \A p \in {"(", ")", ",", ";"} : Is(p) => Piece(Current) = <<>>
    <2>1. \A p \in {"(", ")", ",", ";"} : BinopPrecedence(p) < 0
      <3> TAKE p \in {"(", ")", ",", ";"}
      <3>1. p # "<" /\ p \notin {"+", "-"} /\ p \notin {"*", "/"}
        OBVIOUS
      <3>2. BinopPrecedence(p) = -1
        BY <3>1, Zenon DEF BinopPrecedence
      <3> QED
        BY <1>0, <3>2, Zenon
    <2> QED
      BY <1>5, <2>1 DEF Is
  <1> QED
    BY <1>2, <1>3, <1>4, <1>5, <1>6, <1>7

(* A token becomes one of those before the current one. *)
LEMMA TokenSays ==
  ASSUME TypeOK, read # <<>>, NEW p, NextToken(p), at' # "threw"
  PROVE  /\ at' = p
         /\ Said(SX!Front(read')) = Said(SX!Front(read)) \o Piece(Current)
         /\ Said(SX!Front(read)) \in AST
  <1>1. read \in Seq(Tokens \cup {End}) /\ Len(read) \in Nat /\ Len(read) >= 1
    BY EmptySeq DEF TypeOK
  <1>2. PICK t \in Tokens \cup {End} : Source!Deliver(t) /\ at' = p
    BY DEF NextToken
  <1>3. read' = Append(read, t)
    BY <1>2 DEF Source!Deliver
  <1>4. SX!Front(read') = read
    BY <1>1, <1>3 DEF SX!Front
  <1>5. SX!Front(read) \in Seq(Tokens \cup {End}) /\ Current \in Tokens \cup {End}
        /\ read = Append(SX!Front(read), Current)
    <2> DEFINE T == Tokens \cup {End}
    <2>1. read \in Seq(T) /\ read # <<>>
      BY <1>1
    <2> HIDE DEF T
    <2>2. LET q == SubSeq(read, 1, Len(read) - 1)
          IN  q \in Seq(T) /\ read[Len(read)] \in T /\ read = Append(q, read[Len(read)])
      BY <2>1, SplitLast
    <2> QED
      BY <2>2 DEF T, SX!Front, Current
  <1>6. /\ Said(SX!Front(read)) \in AST
        /\ Said(Append(SX!Front(read), Current)) = Said(SX!Front(read)) \o Piece(Current)
    BY <1>5, SaidAppend
  <1> QED
    BY <1>2, <1>4, <1>5, <1>6

(* A step that takes a token *)
LEMMA KeptToken ==
  ASSUME IInv, Kept, at \notin {"start", "threw", "undefined"}, NEW p, NextToken(p),
         p \notin {"start", "undefined"}, undefined_read' = undefined_read,
         Saying /\ p = "return" => stack'[Len(stack')].fn # "Parentheses",
         Saying => KeptAt(p, ast_list', stack', value', Said(SX!Front(read)) \o Piece(Current))
  PROVE  Kept'
  <1>1. logged' = logged /\ TypeOK /\ read # <<>>
    BY NextTokenEffect DEF IInv, ParserInv, Shape
  <1>2. CASE at' = "threw"
    BY <1>2 DEF Kept, Saying
  <1>3. CASE at' # "threw"
    <2>1. at' = p /\ Said(SX!Front(read')) = Said(SX!Front(read)) \o Piece(Current)
      BY <1>1, <1>3, TokenSays
    <2>2. Saying' => Saying
      BY <1>1 DEF Saying
    <2>3. Saying' /\ (at = "return" /\ Top.fn = "Parentheses" /\ IsPunct)' => FALSE
      BY <2>1, <2>2 DEF Top
    <2>4. Saying' => KeptAt(at', ast_list', stack', value', Said(SX!Front(read')))
      BY <2>1, <2>2
    <2> QED
      BY <2>1, <2>3, <2>4, Zenon DEF Kept
  <1> QED
    BY <1>2, <1>3

(* A step that takes none and reports nothing *)
LEMMA KeptInner ==
  ASSUME IInv, Kept, at \notin {"start", "threw", "undefined"}, UNCHANGED sourceVars,
         at' # "start", logged' = logged, undefined_read' = undefined_read,
         Saying => KeptAt(at', ast_list', stack', value', Said(SX!Front(read))),
         Saying /\ at' = "return" /\ stack'[Len(stack')].fn = "Parentheses" /\ IsPunct =>
           BinopPrecedence(Current.lexeme) < 0
  PROVE  Kept'
  <1>1. read' = read /\ (Saying' => Saying)
    BY DEF Saying, sourceVars
  <1>2. Current' = Current /\ (IsPunct' <=> IsPunct)
    BY <1>1 DEF Current, IsPunct
  <1>3. Top' = stack'[Len(stack')]
    BY DEF Top
  <1> QED
    BY <1>1, <1>2, <1>3 DEF Kept

(* A step that reports an error, or comes behind one *)
LEMMA KeptLogged ==
  ASSUME logged' \/ undefined_read' \/ at' \in {"threw", "undefined"}
  PROVE  Kept'
  BY DEF Kept, Saying

(* What a place carries *)
LEMMA CarriedFacts ==
  ASSUME NEW v \in AST
  PROVE  /\ Meaning(v) \in AST /\ <<>> \in AST
         /\ \A p : Carried(p, v) \in AST
         /\ \A p \in {"prototype_open", "prototype_args", "identifier", "call", "return"} :
              Carried(p, v) = Meaning(v)
         /\ \A p \in {"start", "loop", "done", "prototype", "primary", "rhs"} :
              Carried(p, v) = <<>>
  <1>1. Meaning(v) \in AST /\ <<>> \in AST
    BY MeaningConcat, SymbolFacts DEF Null
  <1> QED
    BY <1>1 DEF Carried

(* The last call *)
LEMMA KeptFrame ==
  ASSUME NEW p, NEW l \in Seq(AST), NEW s \in Seq(Frames), NEW f \in Frames, NEW v, NEW r
  PROVE  KeptAt(p, l, Append(s, f), v, r) <=>
           /\ FramesKept(s) /\ FrameKept(f, s)
           /\ (Behind(l, s) \o Part(f)) \o Carried(p, v) = r
  <1>1. /\ FramesKept(Append(s, f)) <=> FramesKept(s) /\ FrameKept(f, s)
        /\ Behind(l, Append(s, f)) = Behind(l, s) \o Part(f)
    BY FramesKeptAppend, BehindAppend
  <1> QED
    BY <1>1 DEF KeptAt

(* ... and the one before it *)
LEMMA KeptFrames ==
  ASSUME NEW p, NEW l \in Seq(AST), NEW s \in Seq(Frames), NEW f \in Frames,
         NEW g \in Frames, NEW v, NEW r
  PROVE  KeptAt(p, l, Append(Append(s, f), g), v, r) <=>
           /\ FramesKept(s) /\ FrameKept(f, s) /\ FrameKept(g, Append(s, f))
           /\ ((Behind(l, s) \o Part(f)) \o Part(g)) \o Carried(p, v) = r
  <1>1. KeptAt(p, l, Append(Append(s, f), g), v, r) <=>
          /\ FramesKept(Append(s, f)) /\ FrameKept(g, Append(s, f))
          /\ (Behind(l, Append(s, f)) \o Part(g)) \o Carried(p, v) = r
    <2>1. Append(s, f) \in Seq(Frames)
      OBVIOUS
    <2> QED
      BY <2>1, KeptFrame
  <1>2. /\ FramesKept(Append(s, f)) <=> FramesKept(s) /\ FrameKept(f, s)
        /\ Behind(l, Append(s, f)) = Behind(l, s) \o Part(f)
    BY FramesKeptAppend, BehindAppend
  <1> QED
    BY <1>1, <1>2

(* No call, and calls that have nothing yet *)
LEMMA KeptNothing ==
  /\ FramesKept(<<>>)
  /\ \A q : \A f \in {"Definition", "Extern", "Global", "Expr"} :
       /\ Frame(f) \in Frames /\ FrameKept(Frame(f), q) /\ Part(Frame(f)) = <<>>
  /\ Frame("Parentheses") \in Frames /\ Part(Frame("Parentheses")) = <<>>
  /\ \A q : q # <<>> /\ q[Len(q)].fn \in {"Expr", "Operand"} =>
       FrameKept(Frame("Parentheses"), q)
  <1>1. FramesKept(<<>>)
    BY DEF FramesKept
  <1>2. \A f \in {"Definition", "Extern", "Global", "Expr", "Parentheses"} :
          Frame(f) \in Frames /\ Frame(f).fn = f /\ Frame(f).prec = 0
    BY FrameTypes DEF FrameNames, Handlers, Frame
  <1> QED
    BY <1>1, <1>2 DEF FrameKept, Part

(* The first calls *)
LEMMA KeptFirst ==
  ASSUME NEW p, NEW l \in Seq(AST), NEW f \in Frames, NEW v \in AST, NEW r
  PROVE  /\ FrameKept(f, <<>>) /\ (Meanings(l) \o Part(f)) \o Carried(p, v) = r =>
              KeptAt(p, l, <<f>>, v, r)
         /\ \A g \in Frames :
              /\ FrameKept(f, <<>>) /\ FrameKept(g, <<f>>)
              /\ ((Meanings(l) \o Part(f)) \o Part(g)) \o Carried(p, v) = r
              => KeptAt(p, l, <<f, g>>, v, r)
  <1> DEFINE none == <<>>
  <1>1. none \in Seq(Frames) /\ Append(none, f) = <<f>>
    OBVIOUS
  <1>2. FramesKept(none)
    BY KeptNothing
  <1>3. Behind(l, none) = Meanings(l)
    BY <1>1, BehindAppend
  <1>4. \A g \in Frames : Append(Append(none, f), g) = <<f, g>>
    BY <1>1, TwoFrames
  <1> HIDE DEF none
  <1>5. KeptAt(p, l, Append(none, f), v, r) <=>
          /\ FramesKept(none) /\ FrameKept(f, none)
          /\ (Behind(l, none) \o Part(f)) \o Carried(p, v) = r
    BY <1>1, KeptFrame
  <1>6. ASSUME NEW g \in Frames
        PROVE  KeptAt(p, l, Append(Append(none, f), g), v, r) <=>
                 /\ FramesKept(none) /\ FrameKept(f, none) /\ FrameKept(g, Append(none, f))
                 /\ ((Behind(l, none) \o Part(f)) \o Part(g)) \o Carried(p, v) = r
    BY <1>1, KeptFrames
  <1> QED
    BY <1>1, <1>2, <1>3, <1>4, <1>5, <1>6, Zenon DEF none

(* The calls stay, and more is carried. *)
LEMMA KeptSame ==
  ASSUME NEW p, NEW q, NEW l \in Seq(AST), NEW s \in Seq(Frames), NEW v \in AST, NEW w \in AST,
         NEW x \in AST, NEW r, KeptAt(p, l, s, v, r), Carried(q, w) = Carried(p, v) \o x
  PROVE  KeptAt(q, l, s, w, r \o x)
  <1>1. Behind(l, s) \in AST /\ Carried(p, v) \in AST
    BY CarriedFacts, BehindAppend, KeptNothing
  <1>2. (Behind(l, s) \o Carried(p, v)) \o x = Behind(l, s) \o (Carried(p, v) \o x)
    BY <1>1, Regroup
  <1> QED
    BY <1>2 DEF KeptAt

(* What the parser keeps, at the place it is at *)
LEMMA KeptNow ==
  ASSUME IInv, Kept
  PROVE  /\ TypeOK /\ ast_list \in Seq(AST) /\ stack \in Seq(Frames) /\ value \in AST
         /\ Saying => /\ KeptAt(at, ast_list, stack, value, Said(SX!Front(read)))
                      /\ Said(SX!Front(read)) \in AST
  <1>1. /\ TypeOK /\ ast_list \in Seq(AST) /\ stack \in Seq(Frames) /\ value \in AST
    BY DEF IInv, TypeOK
  <1>2. Saying => KeptAt(at, ast_list, stack, value, Said(SX!Front(read)))
    BY DEF Kept
  <1>3. Behind(ast_list, stack) \o Carried(at, value) \in AST
    BY <1>1, CarriedFacts, BehindAppend, KeptNothing, ConcatAst
  <1> QED
    BY <1>1, <1>2, <1>3 DEF KeptAt

(* ... and with the running call split off *)
LEMMA KeptTop ==
  ASSUME IInv, Kept, Saying, stack # <<>>
  PROVE  /\ Pop \in Seq(Frames) /\ Top \in Frames /\ stack = Append(Pop, Top)
         /\ FramesKept(Pop) /\ FrameKept(Top, Pop)
         /\ Behind(ast_list, Pop) \in AST /\ Part(Top) \in AST
         /\ (Behind(ast_list, Pop) \o Part(Top)) \o Carried(at, value) = Said(SX!Front(read))
         /\ \A f \in Frames : Replace(f) = Append(Pop, f) /\ Replace(f) \in Seq(Frames)
  <1>1. /\ Pop \in Seq(Frames) /\ Top \in Frames /\ stack = Append(Pop, Top)
        /\ \A f \in Frames : Replace(f) = Append(Pop, f) /\ Replace(f) \in Seq(Frames)
    BY KeptNow, SplitLast DEF Pop, Top, Replace
  <1>2. Behind(ast_list, Pop) \in AST /\ Part(Top) \in AST
    BY <1>1, KeptNow, BehindAppend
  <1>3. KeptAt(at, ast_list, Append(Pop, Top), value, Said(SX!Front(read)))
    BY <1>1, KeptNow
  <1>4. /\ FramesKept(Pop) /\ FrameKept(Top, Pop)
        /\ (Behind(ast_list, Pop) \o Part(Top)) \o Carried(at, value) = Said(SX!Front(read))
    BY <1>1, <1>3, KeptNow, KeptFrame
  <1> QED
    BY <1>1, <1>2, <1>4

-----------------------------------------------------------------------------
(* Parse and its handlers *)
LEMMA LoopKept ==
  ASSUME IInv, Kept,
         \/ Start \/ ParseEnd \/ ParseDefinition \/ ParseExtern \/ ParseSemicolon
         \/ ParseGlobalExpr
  PROVE  Kept'
  <1>1. /\ TypeOK /\ ast_list \in Seq(AST) /\ stack \in Seq(Frames) /\ value \in AST
        /\ at \in {"start", "loop"} => stack = <<>>
        /\ at = "loop" => read # <<>>
        /\ at = "loop" /\ Saying =>
             /\ Meanings(ast_list) = Said(SX!Front(read)) /\ Meanings(ast_list) \in AST
             /\ KeptAt("loop", ast_list, <<>>, value, Said(SX!Front(read)))
    <2>1. at \in {"start", "loop"} => stack = <<>>
      BY DEF IInv, ParserInv, Shape
    <2>2. Behind(ast_list, <<>>) = Meanings(ast_list) /\ Meanings(ast_list) \in AST
          /\ Meanings(ast_list) \o <<>> = Meanings(ast_list)
      BY KeptNow, BehindAppend, Regroup, KeptNothing
    <2>3. Carried("loop", value) = <<>>
      BY KeptNow, CarriedFacts
    <2> QED
      BY <2>1, <2>2, <2>3, KeptNow DEF KeptAt, IInv, ParserInv, Shape
  <1>3. CASE Start
    <2>1. /\ at = "start" /\ NextToken("loop") /\ stack' = stack /\ value' = value
          /\ ast_list' = ast_list /\ undefined_read' = undefined_read
      BY <1>3 DEF Start, Within, outcome
    <2>2. CASE at' = "threw"
      BY <2>2, KeptLogged
    <2>3. CASE at' # "threw"
      <3>1. PICK t \in Tokens \cup {End} : Source!Deliver(t) /\ at' = "loop"
        BY <2>1, <2>3 DEF NextToken
      <3>2. read' = Append(read, t) /\ logged' = logged
        BY <2>1, <3>1 DEF Source!Deliver, NextToken
      <3>3. ASSUME Saying'
            PROVE  KeptAt("loop", ast_list, <<>>, value, Said(SX!Front(read')))
        <4>1. Saying
          BY <2>1, <3>2, <3>3 DEF Saying
        <4>2. read = <<>> /\ KeptAt("start", ast_list, <<>>, value, Said(SX!Front(<<>>)))
          BY <1>1, <2>1, <4>1 DEF Kept
        <4>3. SX!Front(<<>>) = <<>>
          BY DEF SX!Front
        <4>4. SX!Front(read') = <<>>
          <5>1. read' = <<t>>
            BY <3>2, <4>2
          <5> QED
            BY <5>1 DEF SX!Front
        <4>5. Carried("start", value) = Carried("loop", value)
          BY <1>1, CarriedFacts
        <4> QED
          BY <4>2, <4>3, <4>4, <4>5 DEF KeptAt
      <3>4. at' = "loop" /\ stack' = <<>>
        BY <1>1, <2>1, <3>1
      <3> QED
        BY <2>1, <3>3, <3>4 DEF Kept
    <2> QED
      BY <2>2, <2>3
  <1>4. CASE ParseSemicolon
    <2>1. /\ at = "loop" /\ NextToken("loop") /\ stack' = <<>> /\ value' = value
          /\ ast_list' = ast_list /\ undefined_read' = undefined_read /\ Piece(Current) = <<>>
      <3>1. at = "loop" /\ Is(";")
        BY <1>4 DEF ParseSemicolon
      <3>2. Piece(Current) = <<>>
        BY <1>1, <3>1, CurrentSays, Zenon
      <3> QED
        BY <1>1, <1>4, <3>1, <3>2, Zenon DEF ParseSemicolon, Within, outcome
    <2>2. ASSUME Saying
          PROVE  KeptAt("loop", ast_list', stack', value', Said(SX!Front(read)) \o Piece(Current))
      <3>1. Said(SX!Front(read)) \o <<>> = Said(SX!Front(read))
        BY <1>1, <2>1, <2>2, Regroup
      <3> QED
        BY <1>1, <2>1, <2>2, <3>1
    <2> QED
      BY <2>1, <2>2, KeptToken
  <1>5. CASE ParseEnd
    <2>1. /\ at = "loop" /\ at' = "done" /\ stack' = <<>> /\ UNCHANGED sourceVars
          /\ UNCHANGED <<value, ast_list, logged, undefined_read>>
      BY <1>1, <1>5 DEF ParseEnd
    <2>2. ASSUME Saying
          PROVE  KeptAt("done", ast_list', stack', value', Said(SX!Front(read)))
      <3>1. Carried("done", value) = Carried("loop", value)
        BY <1>1, CarriedFacts
      <3> QED
        BY <1>1, <2>1, <2>2, <3>1 DEF KeptAt
    <2> QED
      BY <2>1, <2>2, KeptInner
  <1>6. CASE ParseDefinition
    <2>1. /\ at = "loop" /\ Current.tag = "kKwDef" /\ NextToken("prototype")
          /\ stack' = <<Frame("Definition")>> /\ value' = value
          /\ ast_list' = ast_list /\ undefined_read' = undefined_read
      BY <1>6 DEF ParseDefinition, Within, outcome
    <2>2. Piece(Current) = <<>>
      BY <1>1, <2>1, CurrentSays
    <2>3. ASSUME Saying
          PROVE  KeptAt("prototype", ast_list', stack', value',
                        Said(SX!Front(read)) \o Piece(Current))
      <3> DEFINE m == Meanings(ast_list)
      <3>1. (m \o <<>>) \o <<>> = m \o <<>> /\ m = Said(SX!Front(read))
        BY <1>1, <2>1, <2>3, Regroup
      <3>2. Carried("prototype", value) = <<>>
        BY <1>1, CarriedFacts
      <3> HIDE DEF m
      <3>3. KeptAt("prototype", ast_list, <<Frame("Definition")>>, value, m \o <<>>)
        BY <1>1, <3>1, <3>2, KeptFirst, KeptNothing DEF m
      <3> QED
        BY <2>1, <2>2, <3>1, <3>3
    <2> QED
      BY <2>1, <2>3, KeptToken
  <1>7. CASE ParseExtern
    <2>1. /\ at = "loop" /\ at' = "prototype" /\ stack' = Append(stack, Frame("Extern"))
          /\ value' = value /\ UNCHANGED sourceVars
          /\ ast_list' = ast_list /\ undefined_read' = undefined_read /\ logged' = logged
      BY <1>7 DEF ParseExtern, Call, Within, outcome
    <2>2. ASSUME Saying
          PROVE  KeptAt("prototype", ast_list', stack', value', Said(SX!Front(read)))
      <3> DEFINE m == Meanings(ast_list)
      <3>1. (m \o <<>>) \o <<>> = m /\ m = Said(SX!Front(read))
        BY <1>1, <2>1, <2>2, Regroup
      <3>2. Carried("prototype", value) = <<>>
        BY <1>1, CarriedFacts
      <3>3. stack' = <<Frame("Extern")>>
        BY <1>1, <2>1
      <3> HIDE DEF m
      <3>4. KeptAt("prototype", ast_list, <<Frame("Extern")>>, value, m)
        BY <1>1, <3>1, <3>2, KeptFirst, KeptNothing DEF m
      <3> QED
        BY <2>1, <3>1, <3>3, <3>4
    <2> QED
      BY <2>1, <2>2, KeptInner
  <1>8. CASE ParseGlobalExpr
    <2>1. /\ at = "loop" /\ at' = "primary" /\ stack' = <<Frame("Global"), Frame("Expr")>>
          /\ value' = value /\ UNCHANGED sourceVars
          /\ ast_list' = ast_list /\ undefined_read' = undefined_read /\ logged' = logged
      BY <1>8 DEF ParseGlobalExpr, Within, outcome
    <2>2. ASSUME Saying
          PROVE  KeptAt("primary", ast_list', stack', value', Said(SX!Front(read)))
      <3> DEFINE m == Meanings(ast_list)
                 f == Frame("Global")
                 g == Frame("Expr")
      <3>1. ((m \o <<>>) \o <<>>) \o <<>> = m /\ m = Said(SX!Front(read))
        BY <1>1, <2>1, <2>2, Regroup
      <3>2. /\ f \in Frames /\ g \in Frames /\ Part(f) = <<>> /\ Part(g) = <<>>
            /\ FrameKept(f, <<>>) /\ FrameKept(g, <<f>>)
        BY KeptNothing
      <3>3. Carried("primary", value) = <<>>
        BY <1>1, CarriedFacts
      <3>4. stack' = <<f, g>>
        BY <2>1
      <3> HIDE DEF m, f, g
      <3>5. KeptAt("primary", ast_list, <<f, g>>, value, m)
        BY <1>1, <3>1, <3>2, <3>3, KeptFirst DEF m
      <3> QED
        BY <2>1, <3>1, <3>4, <3>5
    <2> QED
      BY <2>1, <2>2, KeptInner
  <1> QED
    BY <1>3, <1>4, <1>5, <1>6, <1>7, <1>8

(* A part that goes from the AST to the calls *)
LEMMA RegroupAll ==
  ASSUME NEW a \in AST, NEW b \in AST, NEW c \in AST
  PROVE  /\ (a \o (b \o c)) \o <<>> = (a \o b) \o c
         /\ a \o (b \o c) = (a \o b) \o c
  <1>1. a \o b \in AST /\ b \o c \in AST /\ a \o (b \o c) \in AST
    BY ConcatAst
  <1>2. (a \o b) \o c = a \o (b \o c)
    BY Regroup
  <1>3. (a \o (b \o c)) \o <<>> = a \o (b \o c)
    BY <1>1, Regroup
  <1> QED
    BY <1>2, <1>3

(* PrototypeAST *)
LEMMA PrototypeKept ==
  ASSUME IInv, Kept, PrototypeName \/ PrototypeOpen \/ PrototypeArgs
  PROVE  Kept'
  <1>1. /\ at \in {"prototype", "prototype_open", "prototype_args"} /\ stack' = stack
        /\ ast_list' = ast_list /\ undefined_read' = undefined_read
        /\ TypeOK /\ read # <<>> /\ ast_list \in Seq(AST) /\ stack \in Seq(Frames)
        /\ value \in AST /\ Top.fn \in {"Definition", "Extern"}
        /\ stack'[Len(stack')].fn # "Parentheses"
    <2>1. at \in {"prototype", "prototype_open", "prototype_args"}
      BY DEF PrototypeName, PrototypeOpen, PrototypeArgs
    <2>2. /\ stack' = stack /\ ast_list' = ast_list /\ undefined_read' = undefined_read
      BY DEF PrototypeName, PrototypeOpen, PrototypeArgs, Within, outcome
    <2>3. read # <<>> /\ Top.fn \in {"Definition", "Extern"}
      BY <2>1 DEF IInv, ParserInv, Shape
    <2> QED
      BY <2>1, <2>2, <2>3, KeptNow DEF Top
  <1>2. CASE Error
    BY <1>2, KeptLogged DEF Error
  <1>3. ASSUME NEW p \in {"prototype_open", "prototype_args", "return"}, NextToken(p),
               value' \in AST, Carried(p, value') = Carried(at, value) \o Piece(Current)
        PROVE  Kept'
    <2>1. ASSUME Saying
          PROVE  KeptAt(p, ast_list', stack', value', Said(SX!Front(read)) \o Piece(Current))
      <3>1. KeptAt(at, ast_list, stack, value, Said(SX!Front(read)))
        BY <2>1, KeptNow
      <3> QED
        BY <1>1, <1>3, <3>1, KeptSame, CurrentSays
    <2> QED
      BY <1>1, <1>3, <2>1, KeptToken
  <1>4. "(" \in Symbols /\ ")" \in Symbols /\ "(" \in Marks /\ ")" \in Marks
    BY SymbolFacts DEF Marks
  <1>5. CASE PrototypeName /\ ~Error
    <2>1. /\ at = "prototype" /\ IsId /\ value' = <<Current.lexeme>>
          /\ NextToken("prototype_open")
      BY <1>5 DEF PrototypeName
    <2>2. value' \in AST /\ Meaning(value') = Piece(Current) /\ Piece(Current) \in AST
      BY <1>1, <2>1, CurrentSays DEF IsId
    <2>3. Carried("prototype_open", value') = Meaning(value') /\ Carried(at, value) = <<>>
      BY <1>1, <2>1, <2>2, CarriedFacts
    <2>4. <<>> \o Piece(Current) = Piece(Current)
      BY <2>2, Regroup
    <2> QED
      BY <1>3, <2>1, <2>2, <2>3, <2>4
  <1>6. ASSUME NEW x \in {"(", ")"}, NEW p \in {"prototype_args", "return"},
               Is(x), value' = Append(value, x), NextToken(p), at # "prototype"
        PROVE  Kept'
    <2>1. value' \in AST /\ Meaning(value') = Meaning(value)
      BY <1>1, <1>4, <1>6, AppendAst, MeaningAppend
    <2>2. Piece(Current) = <<>>
      BY <1>1, <1>6, CurrentSays, Zenon
    <2>3. Carried(p, value') = Meaning(value') /\ Carried(at, value) = Meaning(value)
      BY <1>1, <1>6, <2>1, CarriedFacts
    <2>4. Meaning(value) \o <<>> = Meaning(value)
      BY <1>1, CarriedFacts, Regroup
    <2> QED
      BY <1>3, <1>6, <2>1, <2>2, <2>3, <2>4
  <1>7. CASE PrototypeOpen /\ ~Error
    BY <1>6, <1>7 DEF PrototypeOpen
  <1>8. CASE PrototypeArgs /\ ~Error
    <2>1. CASE IsId
      <3>1. /\ at = "prototype_args" /\ value' = Item(value, <<Current.lexeme>>)
            /\ NextToken("prototype_args")
        BY <1>8, <2>1 DEF PrototypeArgs, IsId, Is, IsPunct
      <3>2. /\ <<Current.lexeme>> \in AST /\ Meaning(<<Current.lexeme>>) = Piece(Current)
        BY <1>1, <2>1, CurrentSays DEF IsId
      <3>3. /\ value' \in AST /\ Meaning(value') = Meaning(value) \o Piece(Current)
        BY <1>1, <3>1, <3>2, ItemAst, MeaningItem
      <3>4. Carried("prototype_args", value') = Meaning(value')
            /\ Carried(at, value) = Meaning(value)
        BY <1>1, <3>1, <3>3, CarriedFacts
      <3> QED
        BY <1>3, <3>1, <3>3, <3>4
    <2>2. CASE ~IsId
      BY <1>6, <1>8, <2>2 DEF PrototypeArgs
    <2> QED
      BY <2>1, <2>2
  <1> QED
    BY <1>2, <1>5, <1>7, <1>8

(* PrimaryExprAST *)
LEMMA PrimaryKept ==
  ASSUME IInv, Kept, PrimaryNumber \/ PrimaryIdentifier \/ PrimaryParentheses \/ PrimaryError
  PROVE  Kept'
  <1>1. /\ at = "primary" /\ ast_list' = ast_list /\ undefined_read' = undefined_read
        /\ TypeOK /\ read # <<>> /\ ast_list \in Seq(AST) /\ stack \in Seq(Frames)
        /\ value \in AST /\ Top.fn \in {"Expr", "Operand"} /\ stack # <<>>
    <2>1. at = "primary"
      BY DEF PrimaryNumber, PrimaryIdentifier, PrimaryParentheses, PrimaryError
    <2>2. ast_list' = ast_list /\ undefined_read' = undefined_read
      BY DEF PrimaryNumber, PrimaryIdentifier, PrimaryParentheses, PrimaryError, Within, outcome
    <2>3. read # <<>> /\ Top.fn \in {"Expr", "Operand"} /\ stack # <<>>
      BY <2>1 DEF IInv, ParserInv, Shape
    <2> QED
      BY <2>1, <2>2, <2>3, KeptNow
  <1>2. CASE PrimaryError
    BY <1>2, KeptLogged DEF PrimaryError, Error
  <1>3. CASE PrimaryNumber \/ PrimaryIdentifier
    <2>1. PICK p \in {"return", "identifier"} :
            /\ NextToken(p) /\ value' = <<Current.lexeme>> /\ stack' = stack
            /\ Current.tag \in {"kIdentifier", "kNumber"}
      BY <1>3 DEF PrimaryNumber, PrimaryIdentifier, IsId
    <2>2. value' \in AST /\ Meaning(value') = Piece(Current) /\ Piece(Current) \in AST
      BY <1>1, <2>1, CurrentSays
    <2>3. Carried(p, value') = <<>> \o Piece(Current) /\ Carried(at, value) = <<>>
      BY <1>1, <2>2, CarriedFacts, Regroup
    <2>4. ASSUME Saying
          PROVE  KeptAt(p, ast_list', stack', value', Said(SX!Front(read)) \o Piece(Current))
      <3>1. KeptAt(at, ast_list, stack, value, Said(SX!Front(read)))
        BY <2>4, KeptNow
      <3> QED
        BY <1>1, <2>1, <2>2, <2>3, <3>1, KeptSame
    <2>5. stack'[Len(stack')].fn # "Parentheses"
      BY <1>1, <2>1 DEF Top
    <2> QED
      BY <1>1, <2>1, <2>4, <2>5, KeptToken
  <1>4. CASE PrimaryParentheses
    <2> DEFINE f == Frame("Parentheses")
               g == Frame("Expr")
               q == Append(Append(stack, f), g)
    <2>1. /\ Is("(") /\ NextToken("primary") /\ value' = value /\ stack' = stack \o <<f, g>>
      BY <1>4 DEF PrimaryParentheses
    <2>2. /\ f \in Frames /\ g \in Frames /\ Part(f) = <<>> /\ Part(g) = <<>>
          /\ FrameKept(f, stack) /\ FrameKept(g, Append(stack, f))
      BY <1>1, KeptNothing DEF Top
    <2>3. Piece(Current) = <<>>
      BY <1>1, <2>1, CurrentSays, Zenon
    <2> HIDE DEF f, g
    <2>4. stack' = q
      BY <1>1, <2>1, <2>2, TwoFrames
    <2>5. ASSUME Saying
          PROVE  KeptAt("primary", ast_list', stack', value',
                        Said(SX!Front(read)) \o Piece(Current))
      <3> DEFINE b == Behind(ast_list, stack)
      <3>1. /\ FramesKept(stack) /\ b \o Carried("primary", value) = Said(SX!Front(read))
            /\ Said(SX!Front(read)) \in AST
        BY <1>1, <2>5, KeptNow DEF KeptAt
      <3>2. b \in AST /\ Carried("primary", value) = <<>>
        BY <1>1, <2>2, BehindAppend, CarriedFacts
      <3> HIDE DEF b
      <3>3. ((b \o <<>>) \o <<>>) \o <<>> = Said(SX!Front(read)) \o <<>>
        BY <3>1, <3>2, Regroup
      <3>4. KeptAt("primary", ast_list, q, value, Said(SX!Front(read)) \o <<>>)
        <4> DEFINE x == Said(SX!Front(read)) \o <<>>
        <4>0. ((b \o <<>>) \o <<>>) \o <<>> = x
          BY <3>3
        <4> HIDE DEF x
        <4>1. KeptAt("primary", ast_list, q, value, x) <=>
                /\ FramesKept(stack) /\ FrameKept(f, stack) /\ FrameKept(g, Append(stack, f))
                /\ ((Behind(ast_list, stack) \o Part(f)) \o Part(g)) \o Carried("primary", value)
                     = x
          BY <1>1, <2>2, KeptFrames
        <4>2. KeptAt("primary", ast_list, q, value, x)
          BY <2>2, <3>1, <3>2, <4>0, <4>1 DEF b
        <4> QED
          BY <4>2 DEF x
      <3> QED
        BY <1>1, <2>1, <2>3, <2>4, <3>4
    <2> QED
      BY <1>1, <2>1, <2>5, KeptToken
  <1> QED
    BY <1>2, <1>3, <1>4

(* IdentifierExprAST behind the name *)
LEMMA IdentifierKept ==
  ASSUME IInv, Kept, Variable \/ CallOpen \/ CallFirst
  PROVE  Kept'
  <1>1. /\ at \in {"identifier", "call"} /\ ast_list' = ast_list
        /\ undefined_read' = undefined_read /\ logged' = logged
        /\ TypeOK /\ read # <<>> /\ ast_list \in Seq(AST) /\ stack \in Seq(Frames)
        /\ value \in AST /\ Top.fn \in {"Expr", "Operand"} /\ stack # <<>>
    <2>1. at \in {"identifier", "call"}
      BY DEF Variable, CallOpen, CallFirst
    <2>2. ast_list' = ast_list /\ undefined_read' = undefined_read
      BY DEF Variable, CallOpen, CallFirst, Within, outcome
    <2>3. read # <<>> /\ Top.fn \in {"Expr", "Operand"} /\ stack # <<>>
      BY <2>1 DEF IInv, ParserInv, Shape
    <2>4. logged' = logged
      BY DEF Variable, CallOpen, CallFirst, NextToken
    <2> QED
      BY <2>1, <2>2, <2>3, <2>4, KeptNow
  <1>2. Carried(at, value) = Meaning(value) /\ Meaning(value) \in AST
    BY <1>1, CarriedFacts
  <1>3. CASE Variable
    <2>1. /\ at' = "return" /\ value' = value /\ UNCHANGED sourceVars /\ stack' = stack
      BY <1>3 DEF Variable, Return
    <2>2. stack'[Len(stack')].fn # "Parentheses"
      BY <1>1, <2>1 DEF Top
    <2>3. ASSUME Saying
          PROVE  KeptAt(at', ast_list', stack', value', Said(SX!Front(read)))
      <3>1. Carried("return", value) = Meaning(value)
        BY <1>1, CarriedFacts
      <3> QED
        BY <1>1, <1>2, <2>1, <2>3, <3>1, KeptNow DEF KeptAt
    <2> QED
      BY <1>1, <2>1, <2>2, <2>3, KeptInner
  <1>4. CASE CallOpen \/ (CallFirst /\ Is(")"))
    <2>1. PICK x \in {"(", ")"}, p \in {"call", "return"} :
            /\ Is(x) /\ value' = Append(value, x) /\ NextToken(p) /\ stack' = stack
      BY <1>4 DEF CallOpen, CallFirst
    <2>2. "(" \in Symbols /\ ")" \in Symbols /\ "(" \in Marks /\ ")" \in Marks
      BY SymbolFacts DEF Marks
    <2>3. value' \in AST /\ Meaning(value') = Meaning(value)
      BY <1>1, <2>1, <2>2, AppendAst, MeaningAppend
    <2>4. Piece(Current) = <<>>
      BY <1>1, <2>1, CurrentSays, Zenon
    <2>5. Carried(p, value') = Carried(at, value) \o <<>>
      BY <1>2, <2>3, CarriedFacts, Regroup
    <2>6. ASSUME Saying
          PROVE  KeptAt(p, ast_list', stack', value', Said(SX!Front(read)) \o Piece(Current))
      <3>1. KeptAt(at, ast_list, stack, value, Said(SX!Front(read)))
        BY <2>6, KeptNow
      <3>2. <<>> \in AST
        BY <1>1, CarriedFacts
      <3> QED
        BY <1>1, <2>1, <2>3, <2>4, <2>5, <3>1, <3>2, KeptSame
    <2>7. stack'[Len(stack')].fn # "Parentheses"
      BY <1>1, <2>1 DEF Top
    <2> QED
      BY <1>1, <2>1, <2>6, <2>7, KeptToken
  <1>5. CASE CallFirst /\ ~Is(")")
    <2> DEFINE f == [Frame("Call") EXCEPT !.lhs = value]
               g == Frame("Expr")
               q == Append(Append(stack, f), g)
    <2>1. /\ at' = "primary" /\ value' = value /\ UNCHANGED sourceVars
          /\ stack' = stack \o <<f, g>>
      BY <1>5 DEF CallFirst
    <2>2. /\ f \in Frames /\ g \in Frames /\ Part(f) = Meaning(value) /\ Part(g) = <<>>
          /\ FrameKept(f, stack) /\ FrameKept(g, Append(stack, f))
      <3>1. Frame("Call") \in Frames
        BY FrameTypes DEF FrameNames
      <3>2. f \in Frames /\ f.fn = "Call" /\ f.lhs = value /\ f.prec = 0
        BY <1>1, <3>1 DEF Frame, Frames
      <3> HIDE DEF f
      <3> QED
        BY <1>1, <3>2, KeptNothing DEF FrameKept, Part, Top
    <2> HIDE DEF f, g
    <2>3. stack' = q
      BY <1>1, <2>1, <2>2, TwoFrames
    <2>4. ASSUME Saying
          PROVE  KeptAt(at', ast_list', stack', value', Said(SX!Front(read)))
      <3> DEFINE b == Behind(ast_list, stack)
      <3>1. /\ FramesKept(stack) /\ b \o Meaning(value) = Said(SX!Front(read))
            /\ Said(SX!Front(read)) \in AST
        BY <1>1, <1>2, <2>4, KeptNow DEF KeptAt
      <3>2. b \in AST /\ Carried("primary", value) = <<>>
        BY <1>1, <2>2, BehindAppend, CarriedFacts
      <3> HIDE DEF b
      <3>3. ((b \o Meaning(value)) \o <<>>) \o <<>> = Said(SX!Front(read))
        BY <3>1, <3>2, Regroup
      <3>4. KeptAt("primary", ast_list, q, value, Said(SX!Front(read)))
        <4>1. KeptAt("primary", ast_list, q, value, Said(SX!Front(read))) <=>
                /\ FramesKept(stack) /\ FrameKept(f, stack) /\ FrameKept(g, Append(stack, f))
                /\ ((Behind(ast_list, stack) \o Part(f)) \o Part(g)) \o Carried("primary", value)
                     = Said(SX!Front(read))
          BY <1>1, <2>2, KeptFrames
        <4> QED
          BY <2>2, <3>1, <3>2, <3>3, <4>1 DEF b
      <3> QED
        BY <1>1, <2>1, <2>3, <3>4
    <2> QED
      BY <1>1, <2>1, <2>4, KeptInner
  <1> QED
    BY <1>3, <1>4, <1>5

(* BinOpRHS at the head of its loop *)
LEMMA BinOpKept ==
  ASSUME IInv, Kept, BinOpRHS
  PROVE  Kept'
  <1>1. /\ at = "rhs" /\ ast_list' = ast_list
        /\ undefined_read' = undefined_read /\ logged' = logged
        /\ TypeOK /\ read # <<>> /\ ast_list \in Seq(AST) /\ stack \in Seq(Frames)
        /\ value \in AST /\ Top.fn = "BinOpRHS" /\ stack # <<>>
    <2>1. at = "rhs" /\ ast_list' = ast_list /\ undefined_read' = undefined_read
      BY DEF BinOpRHS, Within, outcome
    <2>2. read # <<>> /\ Top.fn = "BinOpRHS" /\ stack # <<>>
      BY <2>1 DEF IInv, ParserInv, Shape
    <2>3. logged' = logged
      BY DEF BinOpRHS, NextToken
    <2> QED
      BY <2>1, <2>2, <2>3, KeptNow
  <1>2. Top.lhs \in AST /\ Top \in Frames /\ Top.prec \in Nat
    BY <1>1, TopFacts DEF IInv, ParserInv
  <1> DEFINE b == Behind(ast_list, Pop)
             m == Meaning(Top.lhs)
             r == Said(SX!Front(read))
  <1>3. Saying => /\ Pop \in Seq(Frames) /\ stack = Append(Pop, Top)
                  /\ FramesKept(Pop) /\ b \in AST /\ m \in AST
                  /\ (b \o m) \o <<>> = r /\ b \o m = r /\ r \in AST /\ Top.prec = 0
                  /\ \A f \in Frames : Replace(f) = Append(Pop, f)
    <2> SUFFICES ASSUME Saying
        PROVE  /\ Pop \in Seq(Frames) /\ stack = Append(Pop, Top)
               /\ FramesKept(Pop) /\ b \in AST /\ m \in AST
               /\ (b \o m) \o <<>> = r /\ b \o m = r /\ r \in AST /\ Top.prec = 0
               /\ \A f \in Frames : Replace(f) = Append(Pop, f)
      OBVIOUS
    <2>1. Part(Top) = m /\ m \in AST /\ Carried(at, value) = <<>>
      BY <1>1, <1>2, CarriedFacts DEF Part
    <2>2. /\ Pop \in Seq(Frames) /\ stack = Append(Pop, Top)
          /\ FramesKept(Pop) /\ b \in AST /\ (b \o Part(Top)) \o Carried(at, value) = r
          /\ FrameKept(Top, Pop) /\ \A f \in Frames : Replace(f) = Append(Pop, f)
      BY <1>1, KeptTop
    <2>3. r \in AST
      BY KeptNow
    <2>4. b \o m \in AST
      BY <2>1, <2>2, ConcatAst
    <2>5. (b \o m) \o <<>> = b \o m
      BY <2>4, Regroup
    <2> QED
      BY <2>1, <2>2, <2>3, <2>5 DEF FrameKept
  <1>4. CASE IsPunct /\ BinopPrecedence(Current.lexeme) >= Top.prec /\ NextToken("primary")
             /\ stack' = Replace([Top EXCEPT !.fn = "Operand", !.op = Current.lexeme])
             /\ value' = value
    <2> DEFINE f == [Top EXCEPT !.fn = "Operand", !.op = Current.lexeme]
               o == <<Current.lexeme>>
    <2>1. ASSUME Saying
          PROVE  KeptAt("primary", ast_list', stack', value', r \o Piece(Current))
      <3>1. Current.lexeme \in Operators /\ Piece(Current) = o /\ o \in AST
        BY <1>1, <1>3, <1>4, <2>1, CurrentSays
      <3>2. Current.lexeme \in Symbols \ {NullMark}
        BY <1>1, CurrentFacts
      <3>3. /\ f \in Frames /\ f.fn = "Operand" /\ f.op = Current.lexeme /\ f.prec = Top.prec
            /\ f.lhs = Top.lhs
        BY <1>2, <3>2 DEF Frames
      <3>4. stack' = Append(Pop, f)
        BY <1>3, <1>4, <2>1, <3>3
      <3> HIDE DEF f
      <3>5. FrameKept(f, Pop) /\ Part(f) = m \o o
        BY <1>3, <2>1, <3>1, <3>3 DEF FrameKept, Part
      <3>6. Carried("primary", value) = <<>>
        BY <1>1, CarriedFacts
      <3>7. (b \o (m \o o)) \o <<>> = r \o o
        <4>0. b \o m = r
          BY <1>3, <2>1
        <4>1. b \in AST /\ m \in AST /\ o \in AST
          BY <1>3, <2>1, <3>1
        <4> HIDE DEF b, m, r, o
        <4>2. (b \o (m \o o)) \o <<>> = (b \o m) \o o
          BY <4>1, RegroupAll
        <4> QED
          BY <4>0, <4>2
      <3> HIDE DEF m, r, o
      <3>8. KeptAt("primary", ast_list, Append(Pop, f), value, r \o o)
        <4> DEFINE x == r \o o
        <4>1. (b \o (m \o o)) \o <<>> = x
          BY <3>7
        <4> HIDE DEF x
        <4>2. KeptAt("primary", ast_list, Append(Pop, f), value, x) <=>
                /\ FramesKept(Pop) /\ FrameKept(f, Pop)
                /\ (Behind(ast_list, Pop) \o Part(f)) \o Carried("primary", value) = x
          BY <1>1, <1>3, <2>1, <3>3, KeptFrame
        <4>3. KeptAt("primary", ast_list, Append(Pop, f), value, x)
          BY <1>3, <2>1, <3>5, <3>6, <4>1, <4>2
        <4> QED
          BY <4>3 DEF x
      <3> QED
        BY <1>1, <1>4, <3>1, <3>4, <3>8
    <2> QED
      BY <1>1, <1>4, <2>1, KeptToken
  <1>5. CASE /\ ~IsPunct \/ BinopPrecedence(Current.lexeme) < Top.prec
             /\ Return(Top.lhs) /\ stack' = Pop /\ UNCHANGED <<sourceVars, logged>>
    <2>1. at' = "return" /\ value' = Top.lhs /\ stack' = Pop /\ UNCHANGED sourceVars
      BY <1>5 DEF Return
    <2>2. ASSUME Saying
          PROVE  KeptAt("return", ast_list', stack', value', r)
      <3>1. Carried("return", Top.lhs) = m
        BY <1>2, CarriedFacts
      <3> QED
        BY <1>1, <1>3, <2>1, <2>2, <3>1 DEF KeptAt
    <2>3. Saying /\ IsPunct => BinopPrecedence(Current.lexeme) < 0
      BY <1>3, <1>5
    <2> QED
      BY <1>1, <2>1, <2>2, <2>3, KeptInner
  <1> QED
    BY <1>4, <1>5 DEF BinOpRHS

(* What is kept when a function returns an AST to the one that called it *)
LEMMA ReturnKept ==
  ASSUME IInv, ErrorsLogged, Kept, at = "return", Saying
  PROVE  /\ TypeOK /\ read # <<>> /\ ast_list \in Seq(AST) /\ value \in AST
         /\ Meaning(value) \in AST /\ Meaning(Top.lhs) \in AST /\ value # Null
         /\ Top.fn # "SubExpr" /\ Top.lhs \in AST /\ Top \in Frames
         /\ Top.fn = "Operand" => Top.lhs # Null
         /\ Pop \in Seq(Frames) /\ FramesKept(Pop) /\ FrameKept(Top, Pop) /\ Top.prec = 0
         /\ Behind(ast_list, Pop) \in AST
         /\ (Behind(ast_list, Pop) \o Part(Top)) \o Meaning(value) = Said(SX!Front(read))
         /\ Said(SX!Front(read)) \in AST
         /\ \A f \in Frames : Replace(f) = Append(Pop, f)
         /\ Top.fn \in Handlers => Pop = <<>>
  <1>1. /\ TypeOK /\ read # <<>> /\ ast_list \in Seq(AST) /\ value \in AST /\ stack # <<>>
        /\ Said(SX!Front(read)) \in AST /\ stack \in Seq(Frames)
    BY KeptNow DEF IInv, ParserInv, Shape
  <1>2. NoSubExpr(stack) /\ value # Null
    BY DEF ErrorsLogged, Pending, Saying
  <1>3. /\ Len(stack) \in Nat /\ Len(stack) >= 1 /\ Top.lhs \in AST /\ Top \in Frames
        /\ FrameInv(Top, stack[Len(stack) - 1].fn)
        /\ Top.fn \in Handlers <=> Len(stack) = 1
    BY ReturnFacts
  <1>4. Top.fn # "SubExpr" /\ (Len(stack) > 1 => stack[Len(stack) - 1].fn # "SubExpr")
    <2>1. DOMAIN stack = 1..Len(stack) /\ Len(stack) \in 1..Len(stack)
          /\ (Len(stack) > 1 => Len(stack) - 1 \in 1..Len(stack))
      BY <1>1, <1>3, LenProperties
    <2> QED
      BY <1>2, <2>1 DEF NoSubExpr, Top
  <1>5. Top.fn = "Operand" => Top.lhs # Null
    <2>1. Top.fn = "Operand" => Len(stack) > 1
      <3>1. "Operand" \notin Handlers
        BY DEF Handlers
      <3>2. Top.fn = "Operand" => Len(stack) # 1
        BY <1>3, <3>1, Zenon
      <3>3. Len(stack) # 1 => Len(stack) > 1
        BY <1>3
      <3> QED
        BY <3>2, <3>3, Zenon
    <2> QED
      BY <1>3, <1>4, <2>1 DEF FrameInv, Whole
  <1>6. Carried(at, value) = Meaning(value) /\ Meaning(value) \in AST /\ Meaning(Top.lhs) \in AST
    BY <1>1, <1>3, CarriedFacts
  <1>7. Top.fn \in Handlers => Pop = <<>>
    <2>1. Len(stack) = 1 => Pop = <<>>
      BY <1>1 DEF Pop
    <2> QED
      BY <1>3, <2>1
  <1> QED
    BY <1>1, <1>2, <1>3, <1>4, <1>5, <1>6, <1>7, KeptTop DEF FrameKept

(* ParenthesesExprAST *)
LEMMA ParenthesesKept ==
  ASSUME IInv, ErrorsLogged, Kept, ReturnParentheses
  PROVE  Kept'
  <1>1. /\ at = "return" /\ Top.fn = "Parentheses" /\ stack' = Pop
        /\ ast_list' = ast_list /\ undefined_read' = undefined_read
    BY DEF ReturnParentheses, Returned, Within, outcome
  <1>2. CASE Error
    BY <1>2, KeptLogged DEF Error
  <1>3. CASE ~Error
    <2>1. IsPunct /\ NextToken("return") /\ value' = value
      BY <1>3 DEF ReturnParentheses
    <2>2. ASSUME Saying
          PROVE  /\ KeptAt("return", ast_list', stack', value',
                           Said(SX!Front(read)) \o Piece(Current))
                 /\ stack'[Len(stack')].fn # "Parentheses"
      <3> DEFINE b == Behind(ast_list, Pop)
                 r == Said(SX!Front(read))
      <3>1. Piece(Current) = <<>>
        BY <1>1, <2>1, <2>2, ReturnKept, CurrentSays DEF Kept
      <3>2. Part(Top) = <<>>
        BY <1>1 DEF Part
      <3>3. /\ b \in AST /\ Meaning(value) \in AST /\ (b \o Part(Top)) \o Meaning(value) = r
            /\ r \in AST /\ FramesKept(Pop) /\ FrameKept(Top, Pop)
        BY <1>1, <2>2, ReturnKept
      <3>4. Carried("return", value) = Meaning(value)
        BY <1>1, <2>2, ReturnKept, CarriedFacts
      <3>5. stack'[Len(stack')].fn # "Parentheses"
        BY <1>1, <3>3 DEF FrameKept
      <3>6. b \o <<>> = b /\ r \o <<>> = r
        BY <3>3, Regroup
      <3> QED
        BY <1>1, <2>1, <3>1, <3>2, <3>3, <3>4, <3>5, <3>6 DEF KeptAt
    <2>3. read # <<>>
      BY <1>1 DEF IInv, ParserInv, Shape
    <2> QED
      BY <1>1, <2>1, <2>2, KeptToken
  <1> QED
    BY <1>2, <1>3

(* IdentifierExprAST: one more argument *)
LEMMA ArgumentKept ==
  ASSUME IInv, ErrorsLogged, Kept, ReturnArgument
  PROVE  Kept'
  <1>1. /\ at = "return" /\ Top.fn = "Call"
        /\ ast_list' = ast_list /\ undefined_read' = undefined_read
    BY DEF ReturnArgument, Returned, Within, outcome
  <1> DEFINE b == Behind(ast_list, Pop)
             m == Meaning(Top.lhs)
             w == Meaning(value)
             r == Said(SX!Front(read))
             i == Item(Top.lhs, value)
  <1>2. Saying => /\ (b \o m) \o w = r /\ b \in AST /\ m \in AST /\ w \in AST /\ r \in AST
                  /\ i \in AST /\ Meaning(i) = m \o w
                  /\ b \o (m \o w) = r /\ r \o <<>> = r
                  /\ (\A p \in {",", ")"} : Is(p) => Piece(Current) = <<>>)
    <2> SUFFICES ASSUME Saying
        PROVE  /\ (b \o m) \o w = r /\ b \in AST /\ m \in AST /\ w \in AST /\ r \in AST
               /\ i \in AST /\ Meaning(i) = m \o w
               /\ b \o (m \o w) = r /\ r \o <<>> = r
               /\ (\A p \in {",", ")"} : Is(p) => Piece(Current) = <<>>)
      OBVIOUS
    <2>1. Part(Top) = m
      BY <1>1 DEF Part
    <2>2. /\ (b \o Part(Top)) \o w = r /\ b \in AST /\ m \in AST /\ w \in AST /\ r \in AST
          /\ TypeOK /\ read # <<>> /\ Top.lhs \in AST /\ value \in AST
      BY <1>1, ReturnKept
    <2>3. i \in AST /\ Meaning(i) = m \o w
      BY <2>2, ItemAst, MeaningItem
    <2>4. \A p \in {",", ")"} : Is(p) => Piece(Current) = <<>>
      BY <2>2, CurrentSays, Zenon
    <2>5. b \o (m \o w) = (b \o m) \o w /\ r \o <<>> = r
      <3>1. b \in AST /\ m \in AST /\ w \in AST /\ r \in AST
        BY <2>2
      <3> HIDE DEF b, m, w, r
      <3>2. b \o (m \o w) = (b \o m) \o w
        BY <3>1, RegroupAll
      <3>3. r \o <<>> = r
        BY <3>1, Regroup
      <3> QED
        BY <3>2, <3>3
    <2> QED
      BY <2>1, <2>2, <2>3, <2>4, <2>5
  <1>3. CASE Error
    BY <1>3, KeptLogged DEF Error
  <1>4. CASE /\ Is(")") /\ value' = Append(Item(Top.lhs, value), ")")
             /\ NextToken("return") /\ stack' = Pop
    <2>1. ASSUME Saying
          PROVE  /\ KeptAt("return", ast_list', stack', value', r \o Piece(Current))
                 /\ stack'[Len(stack')].fn # "Parentheses"
      <3>1. Piece(Current) = <<>>
        BY <1>2, <1>4, <2>1, Zenon
      <3>2. ")" \in Symbols /\ ")" \in Marks
        BY SymbolFacts DEF Marks
      <3>3. Append(i, ")") \in AST /\ Meaning(Append(i, ")")) = m \o w
        BY <1>2, <2>1, <3>2, AppendAst, MeaningAppend
      <3>4. Carried("return", Append(i, ")")) = m \o w
        BY <3>3, CarriedFacts
      <3>5. FramesKept(Pop) /\ stack'[Len(stack')].fn # "Parentheses"
        BY <1>1, <1>4, <2>1, ReturnKept DEF FrameKept
      <3> QED
        BY <1>1, <1>2, <1>4, <2>1, <3>1, <3>4, <3>5 DEF KeptAt
    <2> QED
      BY <1>1, <1>4, <2>1, KeptToken
  <1>5. CASE /\ Is(",") /\ NextToken("primary") /\ value' = value
             /\ stack' = Append(Replace([Top EXCEPT !.lhs = Item(@, value)]), Frame("Expr"))
    <2> DEFINE f == [Top EXCEPT !.lhs = Item(@, value)]
               g == Frame("Expr")
    <2>1. ASSUME Saying
          PROVE  KeptAt("primary", ast_list', stack', value', r \o Piece(Current))
      <3>1. Piece(Current) = <<>>
        BY <1>2, <1>5, <2>1, Zenon
      <3>2. f = [Top EXCEPT !.lhs = i]
        OBVIOUS
      <3>3. f \in Frames /\ f.fn = "Call" /\ f.lhs = i /\ f.prec = 0
        BY <1>1, <1>2, <2>1, <3>2, ReturnKept DEF Frames
      <3>4. stack' = Append(Append(Pop, f), g)
        BY <1>1, <1>5, <2>1, <3>3, ReturnKept
      <3> HIDE DEF f, g
      <3>5. /\ FrameKept(f, Pop) /\ Part(f) = m \o w
        BY <1>1, <1>2, <2>1, <3>3, ReturnKept DEF FrameKept, Part
      <3>6. g \in Frames /\ FrameKept(g, Append(Pop, f)) /\ Part(g) = <<>>
        BY KeptNothing DEF g
      <3>7. Carried("primary", value) = <<>>
        BY <1>1, <2>1, ReturnKept, CarriedFacts
      <3>8. KeptAt("primary", ast_list, Append(Append(Pop, f), g), value, r) <=>
              /\ FramesKept(Pop) /\ FrameKept(f, Pop) /\ FrameKept(g, Append(Pop, f))
              /\ ((b \o Part(f)) \o Part(g)) \o Carried("primary", value) = r
        <4>1. Pop \in Seq(Frames) /\ ast_list \in Seq(AST) /\ f \in Frames /\ g \in Frames
          BY <1>1, <2>1, <3>3, <3>6, ReturnKept
        <4> HIDE DEF r
        <4> QED
          BY <4>1, KeptFrames
      <3>9. ((b \o (m \o w)) \o <<>>) \o <<>> = r
        BY <1>2, <2>1
      <3>10. KeptAt("primary", ast_list, Append(Append(Pop, f), g), value, r)
        BY <1>1, <2>1, <3>5, <3>6, <3>7, <3>8, <3>9, ReturnKept
      <3> QED
        BY <1>1, <1>2, <1>5, <2>1, <3>1, <3>4, <3>10
    <2> QED
      BY <1>1, <1>5, <2>1, KeptToken
  <1> QED
    BY <1>3, <1>4, <1>5 DEF ReturnArgument

(* ExprAST and BinOpRHS: an operand *)
LEMMA OperandKept ==
  ASSUME IInv, ErrorsLogged, Kept, ReturnFirstOperand \/ ReturnOperand
  PROVE  Kept'
  <1>1. /\ at = "return" /\ Top.fn \in {"Expr", "Operand"}
        /\ ast_list' = ast_list /\ UNCHANGED sourceVars /\ logged' = logged /\ value' = value
    BY DEF ReturnFirstOperand, ReturnOperand, Returned, Within, outcome
  <1>2. CASE undefined_read'
    BY <1>2, KeptLogged
  <1> DEFINE h == [Frame("BinOpRHS") EXCEPT !.lhs = value]
             k == [Frame("BinOpRHS") EXCEPT !.prec = Top.prec,
                                            !.lhs = BinaryExpr(Top.op, Top.lhs, value)]
             b == Behind(ast_list, Pop)
             m == Meaning(Top.lhs)
             w == Meaning(value)
             o == <<Top.op>>
             r == Said(SX!Front(read))
  <1>3. CASE ~undefined_read'
    <2>1. undefined_read' = undefined_read /\ at' = "rhs"
      BY <1>3 DEF ReturnFirstOperand, ReturnOperand, Within, Merge
    <2>2. Frame("BinOpRHS") \in Frames /\ Frame("BinOpRHS").fn = "BinOpRHS"
          /\ Frame("BinOpRHS").prec = 0
      BY FrameTypes DEF FrameNames, Frame
    <2>3. ASSUME Saying
          PROVE  KeptAt("rhs", ast_list', stack', value', r)
      <3>1. /\ (b \o Part(Top)) \o w = r /\ b \in AST /\ m \in AST /\ w \in AST /\ r \in AST
            /\ TypeOK /\ ast_list \in Seq(AST) /\ Top.lhs \in AST /\ value \in AST
            /\ Pop \in Seq(Frames) /\ FramesKept(Pop) /\ Top.prec = 0
            /\ FrameKept(Top, Pop) /\ (\A f \in Frames : Replace(f) = Append(Pop, f))
            /\ Top \in Frames /\ value # Null /\ (Top.fn = "Operand" => Top.lhs # Null)
        BY <1>1, <2>3, ReturnKept
      <3>2. ASSUME NEW f \in Frames, stack' = Replace(f), f.fn = "BinOpRHS", f.prec = 0,
                   b \o Meaning(f.lhs) = r, Meaning(f.lhs) \in AST
            PROVE  KeptAt("rhs", ast_list', stack', value', r)
        <4>1. FrameKept(f, Pop) /\ Part(f) = Meaning(f.lhs) /\ stack' = Append(Pop, f)
          BY <3>1, <3>2 DEF FrameKept, Part
        <4>2. Carried("rhs", value) = <<>>
          BY <3>1, CarriedFacts
        <4>3. (b \o Part(f)) \o Carried("rhs", value) = r
          <5>1. r \o <<>> = r
            BY <3>1, Regroup
          <5> QED
            BY <3>2, <4>1, <4>2, <5>1
        <4>4. KeptAt("rhs", ast_list, Append(Pop, f), value, r) <=>
                /\ FramesKept(Pop) /\ FrameKept(f, Pop)
                /\ (Behind(ast_list, Pop) \o Part(f)) \o Carried("rhs", value) = r
          <5>1. Pop \in Seq(Frames) /\ ast_list \in Seq(AST) /\ f \in Frames
            BY <3>1, <3>2
          <5> HIDE DEF r
          <5> QED
            BY <5>1, KeptFrame
        <4> HIDE DEF r
        <4> QED
          BY <1>1, <3>1, <4>1, <4>3, <4>4
      <3>3. CASE ReturnFirstOperand
        <4>1. stack' = Replace(h) /\ Top.fn = "Expr"
          BY <3>3 DEF ReturnFirstOperand, Returned
        <4>2. h \in Frames /\ h.fn = "BinOpRHS" /\ h.prec = 0 /\ h.lhs = value
          BY <2>2, <3>1 DEF Frames
        <4>3. Part(Top) = <<>>
          BY <4>1 DEF Part
        <4>4. b \o w = r
          <5>1. b \o <<>> = b
            BY <3>1, Regroup
          <5> QED
            BY <3>1, <4>3, <5>1
        <4> HIDE DEF h
        <4> QED
          BY <3>1, <3>2, <4>1, <4>2, <4>4
      <3>4. CASE ReturnOperand
        <4>1. stack' = Replace(k) /\ Top.fn = "Operand"
          BY <1>3, <3>4 DEF ReturnOperand, Returned, Merge
        <4>2. Top.op \in Operators /\ Top.op \in Symbols /\ Top.lhs # Null /\ value # Null
          BY <3>1, <4>1 DEF FrameKept, Frames
        <4>3. /\ BinaryExpr(Top.op, Top.lhs, value) \in AST
              /\ Meaning(BinaryExpr(Top.op, Top.lhs, value)) = (m \o o) \o w
          BY <3>1, <4>2, BinaryAst, MeaningBinary
        <4>4. /\ k \in Frames /\ k.fn = "BinOpRHS" /\ k.prec = 0
              /\ k.lhs = BinaryExpr(Top.op, Top.lhs, value)
          BY <2>2, <3>1, <4>3 DEF Frames
        <4>5. Part(Top) = m \o o /\ o \in AST
          BY <4>1, <4>2, SymbolAst DEF Part
        <4>6. (b \o (m \o o)) \o w = r
          BY <3>1, <4>5
        <4> HIDE DEF k
        <4>7. b \o ((m \o o) \o w) = (b \o (m \o o)) \o w /\ (m \o o) \o w \in AST
          <5>1. m \o o \in AST
            BY <3>1, <4>5, ConcatAst
          <5> DEFINE mo == m \o o
          <5> HIDE DEF mo, b, w, m, o
          <5>2. mo \in AST /\ b \in AST /\ w \in AST
            BY <3>1, <5>1 DEF mo
          <5>3. b \o (mo \o w) = (b \o mo) \o w /\ mo \o w \in AST
            BY <5>2, RegroupAll, ConcatAst
          <5> QED
            BY <5>3 DEF mo
        <4> QED
          BY <3>2, <4>1, <4>3, <4>4, <4>6, <4>7
      <3> QED
        BY <3>3, <3>4
    <2> QED
      BY <1>1, <2>1, <2>3, KeptInner
  <1> QED
    BY <1>2, <1>3

(* FunctionAST and the handlers *)
LEMMA HandlerKept ==
  ASSUME IInv, ErrorsLogged, Kept, ReturnPrototype \/ ReturnItem
  PROVE  Kept'
  <1>1. /\ at = "return" /\ Top.fn \in Handlers /\ UNCHANGED sourceVars /\ logged' = logged
        /\ undefined_read' = undefined_read
    BY DEF ReturnPrototype, ReturnItem, Push, Returned, Within, Handlers
  <1> DEFINE m == Meaning(Top.lhs)
             w == Meaning(value)
             r == Said(SX!Front(read))
             all == Meanings(ast_list)
  <1>2. Saying => /\ (all \o Part(Top)) \o w = r /\ all \in AST /\ m \in AST /\ w \in AST
                  /\ ast_list \in Seq(AST) /\ value \in AST /\ r \in AST /\ Top.lhs \in AST
    <2>1. Saying => Behind(ast_list, Pop) = all /\ all \in AST
      <3>1. Saying => Pop = <<>> /\ ast_list \in Seq(AST)
        BY <1>1, ReturnKept
      <3>2. <<>> \in Seq(Frames) /\ Frame("Expr") \in Frames
        BY KeptNothing
      <3> QED
        BY <3>1, <3>2, BehindAppend
    <2> QED
      BY <1>1, <2>1, ReturnKept
  <1>3. CASE ReturnPrototype
    <2> DEFINE f == [Frame("Body") EXCEPT !.lhs = value]
               g == Frame("Expr")
    <2>1. /\ at' = "primary" /\ stack' = <<f, g>> /\ value' = value /\ ast_list' = ast_list
          /\ Top.fn = "Definition"
      BY <1>3 DEF ReturnPrototype, Returned, Within, outcome
    <2>2. ASSUME Saying
          PROVE  KeptAt("primary", ast_list', stack', value', r)
      <3>1. Frame("Body") \in Frames
        BY FrameTypes DEF FrameNames, Handlers
      <3>2. f \in Frames /\ f.fn = "Body" /\ f.prec = 0 /\ f.lhs = value
        BY <1>2, <2>2, <3>1 DEF Frame, Frames
      <3> HIDE DEF f, g
      <3>3. FrameKept(f, <<>>) /\ Part(f) = w
        BY <3>2 DEF FrameKept, Part
      <3>4. g \in Frames /\ FrameKept(g, <<f>>) /\ Part(g) = <<>>
        BY KeptNothing DEF g
      <3>5. Part(Top) = <<>> /\ Carried("primary", value) = <<>>
        BY <1>2, <2>1, <2>2, CarriedFacts DEF Part
      <3>6. ((all \o w) \o <<>>) \o <<>> = r
        <4>1. all \o <<>> = all /\ r \o <<>> = r
          BY <1>2, <2>2, Regroup
        <4> QED
          BY <1>2, <2>2, <3>5, <4>1
      <3> HIDE DEF r
      <3>7. KeptAt("primary", ast_list, <<f, g>>, value, r)
        BY <1>2, <2>2, <3>2, <3>3, <3>4, <3>5, <3>6, KeptFirst
      <3> QED
        BY <2>1, <3>7
    <2> QED
      BY <1>1, <2>1, <2>2, KeptInner
  <1>4. CASE ReturnItem
    <2> DEFINE x == CASE Top.fn = "Body" -> Function(Top.lhs, value)
                      [] Top.fn = "Global" -> Function(Anonymous, value)
                      [] OTHER -> value
    <2>1. /\ at' = "loop" /\ stack' = <<>> /\ value' = value
          /\ ast_list' = Append(ast_list, x) /\ Top.fn \in {"Body", "Extern", "Global"}
      BY <1>4 DEF ReturnItem, Push
    <2>2. ASSUME Saying
          PROVE  KeptAt("loop", ast_list', stack', value', r)
      <3>1. x \in AST /\ all \o Meaning(x) = r
        <4>1. CASE Top.fn = "Body"
          <5>1. x = Function(Top.lhs, value) /\ Part(Top) = m
            BY <4>1 DEF Part
          <5> HIDE DEF x
          <5>2. x \in AST /\ Meaning(x) = m \o w
            BY <1>2, <2>2, <5>1, FunctionAst, MeaningFunction
          <5>3. all \o (m \o w) = (all \o m) \o w
            BY <1>2, <2>2, RegroupAll
          <5> QED
            BY <1>2, <2>2, <5>1, <5>2, <5>3
        <4>2. CASE Top.fn = "Global"
          <5>1. x = Function(Anonymous, value) /\ Part(Top) = <<>>
            BY <4>2 DEF Part
          <5> HIDE DEF x
          <5>2. Anonymous \in AST /\ Meaning(Anonymous) = <<>>
            BY <1>2, <2>2, MeaningFunction
          <5>3. x \in AST /\ Meaning(x) = <<>> \o w
            BY <1>2, <2>2, <5>1, <5>2, FunctionAst, MeaningFunction
          <5>4. <<>> \o w = w /\ all \o <<>> = all
            BY <1>2, <2>2, Regroup
          <5> QED
            BY <1>2, <2>2, <5>1, <5>3, <5>4
        <4>3. CASE Top.fn = "Extern"
          <5>1. x = value /\ Part(Top) = <<>>
            BY <4>3 DEF Part
          <5>2. all \o <<>> = all
            BY <1>2, <2>2, Regroup
          <5> QED
            BY <1>2, <2>2, <5>1, <5>2
        <4> QED
          BY <2>1, <4>1, <4>2, <4>3
      <3> HIDE DEF x
      <3>2. Meanings(ast_list') = r /\ ast_list' \in Seq(AST)
        <4>1. ast_list \in Seq(AST) /\ x \in AST /\ ast_list' = Append(ast_list, x)
              /\ all \o Meaning(x) = r
          BY <1>2, <2>1, <2>2, <3>1
        <4>2. Meanings(Append(ast_list, x)) = all \o Meaning(x)
          BY <4>1, MeaningsAppend
        <4>3. Append(ast_list, x) \in Seq(AST)
          BY <4>1
        <4> QED
          BY <4>1, <4>2, <4>3
      <3>3. Behind(ast_list', <<>>) = r /\ r \o <<>> = r /\ FramesKept(<<>>)
        <4>1. <<>> \in Seq(Frames) /\ Frame("Expr") \in Frames /\ FramesKept(<<>>)
          BY KeptNothing
        <4> QED
          BY <1>2, <2>2, <3>2, <4>1, BehindAppend, Regroup
      <3>4. Carried("loop", value) = <<>>
        BY <1>2, <2>2, CarriedFacts
      <3> QED
        BY <2>1, <3>3, <3>4 DEF KeptAt
    <2> QED
      BY <1>1, <2>1, <2>2, KeptInner
  <1> QED
    BY <1>3, <1>4

-----------------------------------------------------------------------------
(* Before the first token nothing is said. *)
LEMMA KeptInit == Init => Kept
  <1> SUFFICES ASSUME Init PROVE Kept
    OBVIOUS
  <1>1. read = <<>> /\ at = "start" /\ stack = <<>> /\ value = Null /\ ast_list = <<>>
    BY DEF Init, Source!Init
  <1>2. value \in AST /\ ast_list \in Seq(AST) /\ <<>> \in Seq(Frames)
        /\ Frame("Expr") \in Frames /\ FramesKept(<<>>)
    <2>1. value \in AST /\ Frame("Expr") \in Frames /\ FramesKept(<<>>)
      BY <1>1, SymbolFacts, KeptNothing
    <2> QED
      BY <1>1, <2>1
  <1>3. Behind(ast_list, <<>>) = <<>> /\ Carried("start", value) = <<>>
    BY <1>1, <1>2, BehindAppend, MeaningsAppend, CarriedFacts
  <1>4. Said(SX!Front(read)) = <<>>
    <2>1. SX!Front(<<>>) = <<>>
      BY DEF SX!Front
    <2>2. <<>> \in Seq(Tokens \cup {End}) /\ End \in Tokens \cup {End}
      OBVIOUS
    <2> QED
      BY <1>1, <2>1, <2>2, SaidAppend
  <1>5. <<>> \o <<>> = <<>>
    OBVIOUS
  <1> QED
    BY <1>1, <1>2, <1>3, <1>4, <1>5 DEF Kept, KeptAt

(* Every step keeps what was said. *)
LEMMA KeptStep == IInv /\ ErrorsLogged /\ Kept /\ [Next]_vars => Kept'
  <1> SUFFICES ASSUME IInv, ErrorsLogged, Kept, [Next]_vars PROVE Kept'
    OBVIOUS
  <1>1. CASE Start \/ ParseEnd \/ ParseDefinition \/ ParseExtern \/ ParseSemicolon
             \/ ParseGlobalExpr
    BY <1>1, LoopKept
  <1>2. CASE PrototypeName \/ PrototypeOpen \/ PrototypeArgs
    BY <1>2, PrototypeKept
  <1>3. CASE PrimaryNumber \/ PrimaryIdentifier \/ PrimaryParentheses \/ PrimaryError
    BY <1>3, PrimaryKept
  <1>4. CASE Variable \/ CallOpen \/ CallFirst \/ BinOpRHS
    BY <1>4, IdentifierKept, BinOpKept
  <1>5. CASE ReturnParentheses \/ ReturnArgument \/ ReturnFirstOperand \/ ReturnOperand
             \/ ReturnPrototype \/ ReturnItem
    BY <1>5, ParenthesesKept, ArgumentKept, OperandKept, HandlerKept
  <1>6. CASE Recover \/ ReturnNull
    <2>1. logged' = logged /\ undefined_read' = undefined_read /\ Pending
      BY <1>6 DEF Recover, ReturnNull, NextToken, Within, Pending
    <2> QED
      BY <2>1, KeptLogged DEF ErrorsLogged
  <1>7. CASE ReturnSubExpr
    <2>1. undefined_read' = undefined_read /\ Top.fn = "SubExpr" /\ at = "return"
      BY <1>7 DEF ReturnSubExpr, Within
    <2>2. stack # <<>> /\ stack \in Seq(Frames)
      BY <2>1 DEF IInv, TypeOK, ParserInv, Shape
    <2>3. Len(stack) \in DOMAIN stack
      BY <2>2, EmptySeq, LenProperties
    <2> QED
      BY <2>1, <2>3, KeptLogged DEF ErrorsLogged, NoSubExpr, Top
  <1>8. CASE UNCHANGED vars
    BY <1>8 DEF vars, sourceVars, parserVars, outcome, Kept, Saying, Top, IsPunct, Current
  <1> QED
    BY <1>1, <1>2, <1>3, <1>4, <1>5, <1>6, <1>7, <1>8 DEF Next

(* Between two items nothing is kept anywhere but in the list. *)
LEMMA KeptImplies == IInv /\ Kept => NothingLost
  <1> SUFFICES ASSUME IInv, Kept, at \in {"loop", "done"}, ~logged, ~undefined_read
      PROVE  Meanings(ast_list) = Said(SX!Front(read))
    BY DEF NothingLost
  <1>1. Saying /\ stack = <<>>
    BY DEF Saying, IInv, ParserInv, Shape
  <1>2. ast_list \in Seq(AST) /\ value \in AST
        /\ KeptAt(at, ast_list, <<>>, value, Said(SX!Front(read)))
    BY <1>1, KeptNow
  <1>3. Carried(at, value) = <<>>
    BY <1>2, CarriedFacts
  <1>4. Behind(ast_list, <<>>) = Meanings(ast_list) /\ Meanings(ast_list) \in AST
    <2>1. <<>> \in Seq(Frames) /\ Frame("Expr") \in Frames
      BY KeptNothing
    <2> QED
      BY <1>2, <2>1, BehindAppend
  <1>5. Meanings(ast_list) \o <<>> = Meanings(ast_list)
    BY <1>4, Regroup
  <1> QED
    BY <1>2, <1>3, <1>4, <1>5 DEF KeptAt

(* As long as there was no error, the items that Parse has collected spell, *)
(* in order, the names, numbers and operators of the tokens it has eaten:   *)
(* whatever the tokens, however many and however deep the expressions, the  *)
(* parser of parser.cc loses none, doubles none and moves none.             *)
THEOREM ParserLosesNothing == Spec => []NothingLost
  <1>1. Init => ErrorsLogged
    BY DEF Init, ErrorsLogged, NoSubExpr, Pending
  <1> QED
    BY <1>1, InvInit, InvStep, ErrorsStep, KeptInit, KeptStep, KeptImplies, PTL DEF Spec
=============================================================================
