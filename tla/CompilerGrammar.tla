---------------------------- MODULE CompilerGrammar ----------------------------
(***************************************************************************)
(* parser_exec against the reference reader of ParserGrammar.              *)
(***************************************************************************)
EXTENDS Compiler

(* The program that the words of the text are, by the grammar             *)
Reference ==
  INSTANCE ParserGrammar WITH
    at <- parser_at, Tokens <- Vocabulary, read <- Append(Listing[text], P!End)

(* From the words of the text to the destination, through the source file, *)
(* the lexer, the Reset of Parse, the parser and the dump: parser_exec     *)
(* writes the ASTs of a program in their order, all of them unless a write *)
(* failed, and nothing for any other text, with the exceptions of          *)
(* ProgramsParsed.                                                         *)
ProgramsWritten ==
  program = "parser_exec" /\ step = "exited" /\ ~undefined_read /\ ~Reference!Groups =>
    LET items == Reference!Program(1) IN
    \/ items # {} /\ \A list \in items :
                       SX!IsPrefix(written, list) /\ (good => written = list)
    \/ written = <<>> /\ (items = {} \/ Reference!Externs)
=============================================================================
