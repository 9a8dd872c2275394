------------------------------ MODULE MCParser ------------------------------
(* Instances of Parser for TLC: small sets of tokens. *)
EXTENDS ParserGrammar

Punct(p)  == [tag |-> "kPunctuator", lexeme |-> p]
Id(x)     == [tag |-> "kIdentifier", lexeme |-> x]
Number(x) == [tag |-> "kNumber", lexeme |-> x]
Def       == [tag |-> "kKwDef", lexeme |-> "def"]
Extern    == [tag |-> "kKwExtern", lexeme |-> "extern"]

(* One of every kind, with operators of two precedences *)
AllTokens ==
  {Id("a"), Number("1"), Punct("("), Punct(")"), Punct(","), Punct(";"),
   Punct("+"), Punct("*"), Def, Extern}

(* What definitions are made of, and what calls are *)
DefinitionTokens == {Id("a"), Punct("("), Punct(")"), Def}
CallTokens       == {Id("a"), Punct("("), Punct(")"), Punct(","), Punct("+")}

(* What chains of operators are made of *)
ChainTokens == {Id("a"), Punct("<"), Punct("+")}

(* How long a file of such tokens may be *)
ByKinds(kinds) ==
  IF kinds \subseteq DefinitionTokens THEN 7 ELSE IF kinds \subseteq CallTokens THEN 6 ELSE 5
FourTokens(kinds)  == 4
SevenTokens(kinds) == 7
=============================================================================
