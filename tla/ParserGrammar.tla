---------------------------- MODULE ParserGrammar ----------------------------
(***************************************************************************)
(* A reference reader for a part of the language: the grammar in the       *)
(* comments of src/include/kaleidoscope/parser.h, with commas between the  *)
(* arguments of a call, without parenthesised expressions, and with at     *)
(* most one operator in an expression.  A phrase is what the tokens i..j-1 *)
(* of a file stand for: a set of what its AST writes, empty when they are  *)
(* no such phrase.                                                         *)
(***************************************************************************)
EXTENDS Parser

Lexeme(i) == read[i].lexeme
Tag(i)    == read[i].tag
Between(i, j, open) ==    \* tokens i and j-1 are parentheses around a list
  i < j /\ Lexeme(i) = open /\ Lexeme(j - 1) = ")"

RECURSIVE Arguments(_, _)

(* primaryexpr, without parenexpr *)
Primary(i, j) ==
  {<<Lexeme(k)>> : k \in {k \in {i} : j = i + 1 /\ Tag(k) \in {"kIdentifier", "kNumber"}}}
  \cup {<<Lexeme(i), "(">> \o args \o <<")">> :
          args \in IF i + 2 < j /\ Tag(i) = "kIdentifier" /\ Between(i + 1, j, "(")
                   THEN Arguments(i + 2, j - 1) ELSE {}}

(* expr, with one operator at most *)
Expr(i, j) ==
  Primary(i, j)
  \cup UNION {{BinaryExpr(Lexeme(k), l, r) : l \in Primary(i, k), r \in Primary(k + 1, j)} :
                k \in {k \in i..(j - 1) : Tag(k) = "kPunctuator"
                                          /\ BinopPrecedence(Lexeme(k)) > 0}}

Arguments(i, j) ==
  IF i = j THEN {<<>>}
  ELSE Expr(i, j)
       \cup UNION {{a \o <<",">> \o b : a \in Expr(i, k), b \in Arguments(k + 1, j)} :
                     k \in {k \in i..(j - 2) : Lexeme(k) = ","}}

RECURSIVE Names(_, _)
Names(i, j) ==
  IF i >= j THEN <<>>
  ELSE <<Lexeme(i)>> \o (IF i + 1 < j THEN <<",">> ELSE <<>>) \o Names(i + 1, j)

(* prototype *)
Prototype(i, j) ==
  {<<Lexeme(k), "(">> \o Names(k + 2, j - 1) \o <<")">> :
     k \in {k \in {i} : /\ i + 2 < j /\ Tag(i) = "kIdentifier" /\ Between(i + 1, j, "(")
                        /\ \A m \in (i + 2)..(j - 2) : Tag(m) = "kIdentifier"}}

(* external, function, or a top-level expression *)
Phrase(i, j) ==
  {Function(Anonymous, e) : e \in Expr(i, j)}
  \cup (IF i < j /\ Tag(i) = "kKwExtern" THEN Prototype(i + 1, j) ELSE {})
  \cup UNION {{Function(p, e) : p \in Prototype(i + 1, k), e \in Expr(k, j)} :
                k \in IF i < j /\ Tag(i) = "kKwDef" THEN (i + 1)..j ELSE {}}

(* What the tokens from i on, up to the end of the file, stand for *)
RECURSIVE Program(_)
Program(i) ==
  IF Tag(i) = "kEOF" THEN {<<>>}
  ELSE IF Lexeme(i) = ";" THEN Program(i + 1)
  ELSE UNION {{<<f>> \o rest : f \in Phrase(i, j), rest \in Program(j)} :
                j \in (i + 1)..Len(read)}

(* A '(' that is not behind a name *)
Groups == \E i \in DOMAIN read : Lexeme(i) = "(" /\ (i = 1 \/ Tag(i - 1) # "kIdentifier")

Externs == \E i \in DOMAIN read : Tag(i) = "kKwExtern"

(* On the part of the language that the reference reads, Parse returns     *)
(* exactly the ASTs of the file, and it returns none for any other file,   *)
(* but for files with parenthesised expressions or chains of operators.    *)
(* A program with externs may also be rejected, but nothing else made of it.*)
ProgramsParsed ==
  at = "done" /\ ~undefined_read /\ ~Groups =>
    \/ Program(1) = {result}
    \/ result = <<>> /\ (Program(1) = {} \/ Externs)
=============================================================================
