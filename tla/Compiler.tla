------------------------------- MODULE Compiler -------------------------------
(***************************************************************************)
(* The programs lexer_exec and parser_exec: main, and what it calls down   *)
(* to the source file.                                                     *)
(*                                                                         *)
(* The lexer is the one of Lexer.  The parser is an instance whose reads   *)
(* are the tokens the lexer returns: the lexer runs when, and only when,   *)
(* the function that is parsing asks for a token.                          *)
(*                                                                         *)
(* Nothing in the repository catches an exception: it ends the program     *)
(* with std::terminate, which neither runs destructors nor flushes.  A     *)
(* stream that cannot be opened or written is not noticed.                 *)
(***************************************************************************)
EXTENDS Lexer

CONSTANTS
  Vocabulary,  \* the tokens of the texts, as the parser sees them
  Listing,     \* for each text the tokens that its words are, for the
               \* properties: nothing in the programs depends on it
  MaxTokens(_) \* bound: how many tokens a file has at most, by which they are

VARIABLES
  program,     \* "lexer_exec" or "parser_exec"
  step,        \* where main is: "lex" inside of NextToken, "parse" in Parse
  opened,      \* the destination was opened, and with that truncated
  good,        \* good() of the output stream
  written,     \* what the destination holds since it was opened
  parser_at, read, broken, stack, value, ast_list, has_error, result,
  logged, undefined_read    \* the parser's

ASSUME ListingAssumption == Listing \in [Texts -> Seq(Vocabulary)]

P == INSTANCE Parser WITH at <- parser_at, Tokens <- Vocabulary

(* What Parser assumes of its tokens *)
ASSUME VocabularyAssumption ==
  \A t \in Vocabulary :
    /\ t.tag # "kEOF" /\ t.lexeme \notin {"", P!NullMark}
    /\ t.tag \in {"kIdentifier", "kNumber"} => t.lexeme \notin P!Marks

output       == <<opened, good, written>>
parserState  == <<parser_at, read, broken, stack, value, ast_list, has_error,
                  result, logged, undefined_read>>
compilerVars == <<allVars, program, step, output, parserState>>

SX == INSTANCE SequencesExt

(* A token, as the parser and the destination see it *)
AsToken(t) ==
  [tag |-> t.tag, lexeme |-> SX!FoldLeft(LAMBDA s, c : s \o c, "", t.lexeme)]

Returned == AsToken(tokens[Len(tokens)])

LexerRests  == UNCHANGED allVars
ParserRests == UNCHANGED parserState

GoTo(s) == step' = s /\ UNCHANGED program

-----------------------------------------------------------------------------
(* main, up to the work *)

(* The number of arguments, and the constructor, which opens the source.   *)
Construct ==
  /\ step = "start"
  /\ GoTo("directory") \/ GoTo("aborted")
  /\ LexerRests /\ ParserRests /\ UNCHANGED output

(* The directory of the destination is there, or is created, or is not:    *)
(* it cannot be, or the destination is a bare file name, whose directory   *)
(* is the empty path.                                                      *)
OutDirectory ==
  /\ step = "directory"
  /\ GoTo("open") \/ GoTo("aborted")
  /\ LexerRests /\ ParserRests /\ UNCHANGED output

(* std::ofstream out_sm(dst_path), whose failure nobody looks at *)
OpenOutput ==
  /\ step = "open"
  /\ GoTo(IF program = "lexer_exec" THEN "list" ELSE "reset")
  /\ good' \in BOOLEAN
  /\ opened' = good'
  /\ LexerRests /\ ParserRests /\ UNCHANGED written

(* One item into the output stream, or none from the first failure on *)
Write(x) ==
  /\ \/ good /\ written' = Append(written, x) /\ UNCHANGED good
     \/ good' = FALSE /\ UNCHANGED written
  /\ UNCHANGED opened

-----------------------------------------------------------------------------
(* lexer_exec: operator<<.  std::endl flushes each token. *)

AskToken ==
  /\ step = "list"
  /\ GoTo("lex")
  /\ Call /\ UNCHANGED previous
  /\ ParserRests /\ UNCHANGED output

(* NextToken, for either program *)
Lex ==
  /\ step = "lex"
  /\ NextTokenStep /\ UNCHANGED <<previous, step, program>>
  /\ ParserRests /\ UNCHANGED output

(* Seeded fault: the end of the file is not listed. *)
ListTokenButEnd ==
  /\ step = "lex" /\ program = "lexer_exec"
  /\ at = "idle"
  /\ IF AtEnd THEN UNCHANGED output ELSE Write(Returned)
  /\ GoTo(IF AtEnd THEN "listed" ELSE "list")
  /\ LexerRests /\ ParserRests

ListToken ==
  /\ step = "lex" /\ program = "lexer_exec"
  /\ at = "idle"
  /\ Write(Returned)
  /\ GoTo(IF AtEnd THEN "listed" ELSE "list")
  /\ LexerRests /\ ParserRests

(* The Reset at the end of operator<<, and return *)
ListEnd ==
  /\ step = "listed"
  /\ LexReset
  /\ GoTo("exited")
  /\ ParserRests /\ UNCHANGED output

(* An exception of NextToken that no parser sees *)
ListBreaks ==
  /\ step = "lex" /\ program = "lexer_exec"
  /\ at = "failed"
  /\ GoTo("aborted")
  /\ LexerRests /\ ParserRests /\ UNCHANGED output

-----------------------------------------------------------------------------
(* parser_exec: Parse, which starts with a Reset, then the dump *)

ResetFirst ==
  /\ step = "reset"
  /\ LexReset
  /\ GoTo("parse")
  /\ ParserRests /\ UNCHANGED output

(* A step of the parser that takes no token *)
ParseAlone == UNCHANGED <<read, broken>> /\ P!Next

Parsing ==
  /\ step = "parse"
  /\ ParseAlone
  /\ GoTo("parse")
  /\ LexerRests /\ UNCHANGED output

NeedsToken ==
  /\ parser_at \notin {"done", "threw", "undefined"}
  /\ ~ENABLED ParseAlone

(* The parser calls NextToken. *)
AskForToken ==
  /\ step = "parse"
  /\ NeedsToken
  /\ GoTo("lex")
  /\ Call /\ UNCHANGED previous
  /\ ParserRests /\ UNCHANGED output

(* It returns a token, or throws. *)
TakeToken ==
  /\ step = "lex" /\ program = "parser_exec"
  /\ at \in {"idle", "failed"}
  /\ read' = IF at = "idle" THEN Append(read, Returned) ELSE read
  /\ broken' = (at = "failed")
  /\ P!Next
  /\ GoTo("parse")
  /\ LexerRests /\ UNCHANGED output

(* Parse has returned, thrown, or run into line 195 of parser.cc. *)
ParseEnds ==
  /\ step = "parse"
  /\ \/ parser_at = "done" /\ GoTo("dump")
     \/ parser_at = "threw" /\ GoTo("aborted")
     \/ parser_at = "undefined" /\ GoTo("undefined")
  /\ LexerRests /\ ParserRests /\ UNCHANGED output

(* Seeded fault: the items are dumped as the parser has them. *)
DumpEarly ==
  /\ step \in {"parse", "dump"}
  /\ good /\ Len(written) < Len(ast_list)
  /\ Write(ast_list[Len(written) + 1])
  /\ GoTo(step)
  /\ LexerRests /\ ParserRests

(* Seeded fault: the last item comes first. *)
DumpBackwards ==
  /\ step = "dump"
  /\ good /\ Len(written) < Len(result)
  /\ Write(result[Len(result) - Len(written)])
  /\ GoTo("dump")
  /\ LexerRests /\ ParserRests

(* One item of the list; from a failed write on the loop does nothing. *)
Dump ==
  /\ step = "dump"
  /\ good /\ Len(written) < Len(result)
  /\ Write(result[Len(written) + 1])
  /\ GoTo("dump")
  /\ LexerRests /\ ParserRests

DumpEnds ==
  /\ step = "dump"
  /\ good => Len(written) = Len(result)
  /\ GoTo("exited")
  /\ LexerRests /\ ParserRests /\ UNCHANGED output

-----------------------------------------------------------------------------
CompilerInit ==
  /\ LexInit /\ P!Init
  /\ program \in {"lexer_exec", "parser_exec"} /\ step = "start"
  /\ opened = FALSE /\ good = FALSE /\ written = <<>>

CompilerNext ==
  \/ Construct \/ OutDirectory \/ OpenOutput
  \/ Lex
  \/ AskToken \/ ListToken \/ ListEnd \/ ListBreaks
  \/ ResetFirst \/ Parsing \/ AskForToken \/ TakeToken \/ ParseEnds
  \/ Dump \/ DumpEnds

CompilerSpec ==
  CompilerInit /\ [][CompilerNext]_compilerVars /\ WF_compilerVars(CompilerNext)

-----------------------------------------------------------------------------
(* The lexer returns what the parser is written for. *)
ListingTyped == program = "lexer_exec" => written \in Seq(Vocabulary \cup {P!End})

(* Types, ListingTyped among them                                          *)
CompilerTypeOK ==
  /\ program \in {"lexer_exec", "parser_exec"}
  /\ step \in {"start", "directory", "open", "list", "lex", "listed", "reset",
               "parse", "dump", "exited", "aborted", "undefined"}
  /\ opened \in BOOLEAN /\ good \in BOOLEAN
  /\ program = "parser_exec" => written \in Seq(P!AST)
  /\ ListingTyped
  /\ P!TypeOK

(***************************************************************************)
(* Safety                                                                  *)
(***************************************************************************)
(* What lexer_exec leaves behind, wherever it stops between two calls of   *)
(* NextToken: the first of the text's tokens and nothing else; all of them *)
(* and the end of the file if it exits, and all up to the unknown one if   *)
(* it is aborted, unless a write failed.                                   *)
ListingWritten ==
  program = "lexer_exec" /\ step # "lex" =>
    LET whole == Append(Listing[text], P!End) IN
    /\ SX!IsPrefix(written, whole)
    /\ good /\ step = "exited" => written = whole
    /\ good /\ step = "aborted" => Len(written) = Len(tokens)

(* Of a file that is rejected, or whose parse throws, no item ever reaches *)
(* the destination: it is as it was before, or empty.                      *)
NothingOfRejected ==
  program = "parser_exec" /\ written # <<>> => parser_at = "done" /\ ~has_error

(* No item that reaches the destination lacks an operand, although the     *)
(* parser works on such items: Dump follows every operand.                 *)
WholeItemsWritten ==
  program = "parser_exec" => \A i \in DOMAIN written : P!Whole(written[i])

(* From the lexer to the destination nothing is lost, doubled or moved: if *)
(* no message was logged and no write failed, what parser_exec has written *)
(* spells, in order, the names, numbers and operators of the tokens.       *)
WrittenSays ==
  program = "parser_exec" /\ step = "exited" /\ good /\ ~logged /\ ~undefined_read =>
    P!Meanings(written) = P!Said([i \in 1..(Len(tokens) - 1) |-> AsToken(tokens[i])])

(* The file holds nothing but blanks, comments, and tokens that the parser *)
(* takes for ";".                                                          *)
OnlySemicolons ==
  \A p \in 0..(Len(text) - 1) :
    \/ Char(p) \in Blanks \/ InComment(0, p)
    \/ \E i \in DOMAIN tokens :
         /\ p \in tokens[i].location.pos..(tokens[i].to - 1)
         /\ AsToken(tokens[i]).lexeme = ";"

(* parser_exec exits with 0 whether it accepts the file or not.  If there  *)
(* is nothing in the destination then a message says why, or the file has  *)
(* no item (a file of less than a block: of others Reset may skip some).   *)
EmptyExplained ==
  program = "parser_exec" /\ step = "exited" /\ good /\ Len(text) < Last
  /\ ~undefined_read /\ written = <<>> => logged \/ OnlySemicolons

(* Either program ends, on every text.                                     *)
ProgramEnds == <>(step \in {"exited", "aborted", "undefined"})
=============================================================================
