---------------------------- MODULE CompilerProofs ----------------------------
(***************************************************************************)
(* Proofs about the two programs, for every text, vocabulary and size of   *)
(* the buffers.                                                            *)
(***************************************************************************)
EXTENDS Compiler, LexerResetProofs

(* Parse returns once, and only at its end. *)
LEMMA ParseReturnsOnce ==
  ASSUME P!Next
  PROVE  parser_at # "done" /\ (parser_at' = "done" => P!ParseEnd)
  <1> USE DEF P!NextToken, P!Within, P!Return, P!Error, P!Returned
  <1>1. CASE P!Start \/ P!ParseDefinition \/ P!ParseExtern \/ P!ParseSemicolon
             \/ P!ParseGlobalExpr \/ P!Recover
    BY <1>1 DEF P!Start, P!ParseDefinition, P!ParseExtern, P!ParseSemicolon,
                P!ParseGlobalExpr, P!Recover, P!Call
  <1>2. CASE P!ParseEnd
    BY <1>2 DEF P!ParseEnd
  <1>3. CASE P!PrototypeName \/ P!PrototypeOpen \/ P!PrototypeArgs
    BY <1>3 DEF P!PrototypeName, P!PrototypeOpen, P!PrototypeArgs
  <1>4. CASE P!PrimaryNumber \/ P!PrimaryIdentifier \/ P!PrimaryParentheses
             \/ P!PrimaryError
    BY <1>4 DEF P!PrimaryNumber, P!PrimaryIdentifier, P!PrimaryParentheses,
                P!PrimaryError
  <1>5. CASE P!Variable \/ P!CallOpen \/ P!CallFirst \/ P!BinOpRHS
    BY <1>5 DEF P!Variable, P!CallOpen, P!CallFirst, P!BinOpRHS
  <1>6. CASE P!ReturnNull \/ P!ReturnParentheses \/ P!ReturnArgument
             \/ P!ReturnFirstOperand
    BY <1>6 DEF P!ReturnNull, P!ReturnParentheses, P!ReturnArgument,
                P!ReturnFirstOperand
  <1>7. CASE P!ReturnOperand \/ P!ReturnSubExpr \/ P!ReturnPrototype \/ P!ReturnItem
    BY <1>7 DEF P!ReturnOperand, P!ReturnSubExpr, P!ReturnPrototype, P!ReturnItem,
                P!Merge, P!Push
  <1> QED
    BY <1>1, <1>2, <1>3, <1>4, <1>5, <1>6, <1>7 DEF P!Next

(* What Parse returns of a file with errors is empty. *)
ResultOfErrors == parser_at = "done" /\ has_error => result = <<>>

(* A step of the parser keeps that. *)
LEMMA ResultStep == ASSUME P!Next, ResultOfErrors PROVE ResultOfErrors'
  <1>1. CASE P!ParseEnd
    BY <1>1 DEF P!ParseEnd, ResultOfErrors
  <1> QED
    BY <1>1, ParseReturnsOnce DEF ResultOfErrors

(* parser_exec writes behind Parse, and only what Parse returned.          *)
RejectedInv ==
  /\ ResultOfErrors
  /\ program = "parser_exec" /\ written # <<>> =>
       step \in {"dump", "exited"} /\ ~has_error
  /\ program = "parser_exec" /\ step \in {"dump", "exited"} => parser_at = "done"
  /\ step \in {"list", "listed"} => program = "lexer_exec"

(* Both programs start with nothing written. *)
LEMMA RejectedInit == CompilerInit => RejectedInv
  BY DEF CompilerInit, RejectedInv, ResultOfErrors, P!Init

(* Every step of main keeps RejectedInv. *)
LEMMA RejectedStep == RejectedInv /\ [CompilerNext]_compilerVars => RejectedInv'
  <1> SUFFICES ASSUME RejectedInv, [CompilerNext]_compilerVars PROVE RejectedInv'
    OBVIOUS
  <1> USE DEF RejectedInv
  <1>0. ASSUME ParserRests PROVE UNCHANGED <<parser_at, has_error, result>>
    BY <1>0 DEF ParserRests, parserState
  <1>1. CASE UNCHANGED compilerVars
    BY <1>1 DEF compilerVars, output, parserState, ResultOfErrors
  <1>2. CASE Construct \/ OutDirectory \/ OpenOutput
    BY <1>0, <1>2 DEF Construct, OutDirectory, OpenOutput, GoTo, output, ResultOfErrors
  <1>3. CASE Lex \/ AskToken \/ ListEnd \/ ListBreaks \/ ResetFirst \/ AskForToken
    BY <1>0, <1>3 DEF Lex, AskToken, ListEnd, ListBreaks, ResetFirst, AskForToken, GoTo,
                      output, ResultOfErrors
  <1>4. CASE ListToken
    BY <1>0, <1>4 DEF ListToken, GoTo, ResultOfErrors
  <1>5. CASE Parsing \/ TakeToken
    <2>1. P!Next /\ step' = "parse" /\ UNCHANGED <<program, written>>
      BY <1>5 DEF Parsing, TakeToken, ParseAlone, GoTo, output
    <2>2. step \in {"parse", "lex"}
      BY <1>5 DEF Parsing, TakeToken
    <2> QED
      BY <2>1, <2>2, ResultStep
  <1>6. CASE ParseEnds
    BY <1>0, <1>6 DEF ParseEnds, GoTo, output, ResultOfErrors
  <1>7. CASE Dump
    <2>1. /\ step = "dump" /\ step' = "dump" /\ program' = program
          /\ Len(written) < Len(result)
          /\ UNCHANGED <<parser_at, has_error, result>>
      BY <1>0, <1>7 DEF Dump, GoTo
    <2>2. program = "parser_exec" => ~has_error
      <3> SUFFICES ASSUME program = "parser_exec", has_error PROVE FALSE
        OBVIOUS
      <3>1. written = <<>> /\ result = <<>>
        BY <2>1 DEF ResultOfErrors
      <3> QED
        BY <2>1, <3>1
    <2> QED
      BY <2>1, <2>2 DEF ResultOfErrors
  <1>8. CASE DumpEnds
    BY <1>0, <1>8 DEF DumpEnds, GoTo, output, ResultOfErrors
  <1> QED
    BY <1>1, <1>2, <1>3, <1>4, <1>5, <1>6, <1>7, <1>8 DEF CompilerNext

(* Of a file that is rejected no item is written, although main dumps      *)
(* without asking whether there was an error.                              *)
THEOREM RejectedLeavesNothing == CompilerSpec => []NothingOfRejected
  <1>1. RejectedInv => NothingOfRejected
    BY DEF RejectedInv, NothingOfRejected
  <1> QED
    BY <1>1, RejectedInit, RejectedStep, PTL DEF CompilerSpec

-----------------------------------------------------------------------------
(***************************************************************************)
(* The parser in the program: what is proved of Parser holds of it.        *)
(***************************************************************************)
PP == INSTANCE ParserProofs WITH at <- parser_at, Tokens <- Vocabulary

(* Its steps are those that ParserProofs is about. *)
LEMMA SameStep == ASSUME P!Next PROVE PP!Next
  <1> USE DEF P!NextToken, PP!NextToken, P!GoesOn, PP!GoesOn, P!Within, PP!Within, P!Return, PP!Return,
              P!Error, PP!Error, P!Returned, PP!Returned, P!outcome, PP!outcome,
              P!sourceVars, PP!sourceVars, P!Null, PP!Null, P!Frame, PP!Frame,
              P!Top, PP!Top, P!Pop, PP!Pop, P!Replace, PP!Replace, P!Call, PP!Call,
              P!Current, PP!Current, P!IsId, PP!IsId, P!IsPunct, PP!IsPunct, P!Is, PP!Is,
              P!End, PP!End, P!Source!Deliver, PP!Source!Deliver,
              P!Source!Break, PP!Source!Break, P!Source!Ended, PP!Source!Ended
  <1>1. /\ P!Start => PP!Start
        /\ P!ParseEnd => PP!ParseEnd
        /\ P!ParseDefinition => PP!ParseDefinition
        /\ P!ParseExtern => PP!ParseExtern
        /\ P!ParseSemicolon => PP!ParseSemicolon
        /\ P!ParseGlobalExpr => PP!ParseGlobalExpr
        /\ P!Recover => PP!Recover
    BY DEF P!Start, PP!Start, P!ParseEnd, PP!ParseEnd,
           P!ParseDefinition, PP!ParseDefinition, P!ParseExtern, PP!ParseExtern,
           P!ParseSemicolon, PP!ParseSemicolon, P!ParseGlobalExpr, PP!ParseGlobalExpr,
           P!Recover, PP!Recover
  <1>2. /\ P!PrototypeName => PP!PrototypeName
        /\ P!PrototypeOpen => PP!PrototypeOpen
        /\ P!PrototypeArgs => PP!PrototypeArgs
    BY DEF P!PrototypeName, PP!PrototypeName, P!PrototypeOpen, PP!PrototypeOpen,
           P!PrototypeArgs, PP!PrototypeArgs, P!Item, PP!Item
  <1>3. /\ P!PrimaryNumber => PP!PrimaryNumber
        /\ P!PrimaryIdentifier => PP!PrimaryIdentifier
        /\ P!PrimaryParentheses => PP!PrimaryParentheses
        /\ P!PrimaryError => PP!PrimaryError
        /\ P!Variable => PP!Variable
        /\ P!CallOpen => PP!CallOpen
        /\ P!CallFirst => PP!CallFirst
    BY DEF P!PrimaryNumber, PP!PrimaryNumber, P!PrimaryIdentifier, PP!PrimaryIdentifier,
           P!PrimaryParentheses, PP!PrimaryParentheses, P!PrimaryError, PP!PrimaryError,
           P!Variable, PP!Variable, P!CallOpen, PP!CallOpen, P!CallFirst, PP!CallFirst
  <1>4. P!BinOpRHS => PP!BinOpRHS
    BY DEF P!BinOpRHS, PP!BinOpRHS, P!BinopPrecedence, PP!BinopPrecedence
  <1>5. /\ P!ReturnNull => PP!ReturnNull
        /\ P!ReturnParentheses => PP!ReturnParentheses
        /\ P!ReturnArgument => PP!ReturnArgument
        /\ P!ReturnFirstOperand => PP!ReturnFirstOperand
        /\ P!ReturnPrototype => PP!ReturnPrototype
    BY DEF P!ReturnNull, PP!ReturnNull, P!ReturnParentheses, PP!ReturnParentheses,
           P!ReturnArgument, PP!ReturnArgument, P!ReturnFirstOperand, PP!ReturnFirstOperand,
           P!ReturnPrototype, PP!ReturnPrototype, P!Handlers, PP!Handlers, P!Item, PP!Item
  <1>6. /\ P!ReturnOperand => PP!ReturnOperand
        /\ P!ReturnSubExpr => PP!ReturnSubExpr
    BY DEF P!ReturnOperand, PP!ReturnOperand, P!ReturnSubExpr, PP!ReturnSubExpr,
           P!Merge, PP!Merge, P!NextPrec, PP!NextPrec,
           P!BinopPrecedence, PP!BinopPrecedence, P!BinaryExpr, PP!BinaryExpr,
           P!BinaryOpName, PP!BinaryOpName, P!Shown, PP!Shown, P!NullMark, PP!NullMark
  <1>7. P!ReturnItem => PP!ReturnItem
    BY DEF P!ReturnItem, PP!ReturnItem, P!Push, PP!Push, P!Function, PP!Function,
           P!Anonymous, PP!Anonymous
  <1> QED
    BY <1>1, <1>2, <1>3, <1>4, <1>5, <1>6, <1>7 DEF P!Next, PP!Next

(* What the parser does in either program                                  *)
LEMMA ParserMoves ==
  [CompilerNext]_compilerVars =>
    (P!Next /\ UNCHANGED <<written, program>>) \/ UNCHANGED parserState
  <1> SUFFICES ASSUME [CompilerNext]_compilerVars, ~UNCHANGED parserState
               PROVE  P!Next /\ UNCHANGED <<written, program>>
    OBVIOUS
  <1>1. CompilerNext
    BY DEF compilerVars
  <1>2. Parsing \/ TakeToken
    BY <1>1 DEF CompilerNext, Construct, OutDirectory, OpenOutput, Lex, AskToken,
                ListToken, ListEnd, ListBreaks, ResetFirst, AskForToken, ParseEnds,
                Dump, DumpEnds, ParserRests
  <1> QED
    BY <1>2 DEF Parsing, TakeToken, ParseAlone, GoTo, output

(* A step of main is a step of the parser, or the parser does nothing.     *)
LEMMA StepInProgram ==
  [CompilerNext]_compilerVars => [P!Next]_(P!vars) /\ [PP!Next]_(PP!vars)
  <1> SUFFICES ASSUME [CompilerNext]_compilerVars
               PROVE  [P!Next]_(P!vars) /\ [PP!Next]_(PP!vars)
    OBVIOUS
  <1>1. CASE P!Next
    BY <1>1, SameStep
  <1>2. CASE UNCHANGED parserState
    BY <1>2 DEF parserState, P!vars, PP!vars, P!sourceVars, PP!sourceVars,
                P!parserVars, PP!parserVars, P!outcome, PP!outcome
  <1> QED
    BY <1>1, <1>2, ParserMoves

(* So does the initial state. *)
LEMMA SameInit == P!Init => PP!Init
  BY DEF P!Init, PP!Init, P!Source!Init, PP!Source!Init, P!Null, PP!Null

(* The parser of parser_exec, which the lexer feeds one token at a time,   *)
(* does what the parser does that takes them as they come.                 *)
LEMMA ParserInProgram == CompilerSpec => P!Init /\ [][P!Next]_(P!vars)
  <1>1. CompilerInit => P!Init
    BY DEF CompilerInit
  <1> QED
    BY <1>1, StepInProgram, PTL DEF CompilerSpec

(* Main keeps the parser's inductive invariant. *)
LEMMA ParserInvStep ==
  PP!IInv /\ [CompilerNext]_compilerVars => PP!IInv'
  <1> SUFFICES ASSUME PP!IInv, [CompilerNext]_compilerVars PROVE PP!IInv'
    OBVIOUS
  <1>1. [PP!Next]_(PP!vars)
    BY StepInProgram
  <1> QED
    BY <1>1, PP!InvStep, VocabularyAssumption DEF P!NullMark, PP!NullMark, P!Marks, PP!Marks

(* It holds when main starts. *)
LEMMA ParserInvInit == CompilerInit => PP!IInv
  <1> SUFFICES ASSUME CompilerInit PROVE PP!IInv
    OBVIOUS
  <1>1. PP!Init
    BY SameInit DEF CompilerInit
  <1> QED
    BY <1>1, PP!InvInit, VocabularyAssumption DEF P!NullMark, PP!NullMark, P!Marks, PP!Marks

(* Its call stack and its ASTs keep to that invariant in the program.      *)
THEOREM ParserInvInProgram == CompilerSpec => []PP!IInv
  BY ParserInvInit, ParserInvStep, PTL DEF CompilerSpec

-----------------------------------------------------------------------------
(* parser_exec writes ASTs. *)
WrittenTyped == program = "parser_exec" => written \in Seq(PP!AST)

(* Only Dump writes for parser_exec. *)
LEMMA WrittenStep ==
  PP!IInv /\ WrittenTyped /\ [CompilerNext]_compilerVars => WrittenTyped'
  <1> SUFFICES ASSUME PP!IInv, WrittenTyped, [CompilerNext]_compilerVars
               PROVE  WrittenTyped'
    OBVIOUS
  <1> USE DEF WrittenTyped
  <1>1. CASE UNCHANGED <<written, program>>
    BY <1>1
  <1>2. CASE ListToken
    BY <1>2 DEF ListToken, GoTo
  <1>3. CASE Dump
    <2>1. /\ program' = program /\ Len(written) < Len(result)
          /\ Write(result[Len(written) + 1])
      BY <1>3 DEF Dump, GoTo
    <2>2. result \in Seq(PP!AST)
      BY DEF PP!IInv, PP!TypeOK
    <2>3. CASE program = "parser_exec"
      <3>1. Len(written) + 1 \in DOMAIN result
        BY <2>1, <2>2, <2>3
      <3>2. result[Len(written) + 1] \in PP!AST
        BY <2>2, <3>1
      <3> QED
        BY <2>1, <2>3, <3>2 DEF Write
    <2> QED
      BY <2>1, <2>3
  <1>4. UNCHANGED <<written, program>> \/ ListToken \/ Dump
    BY ParserMoves
       DEF CompilerNext, Construct, OutDirectory, OpenOutput, Lex, AskToken, ListEnd,
           ListBreaks, ResetFirst, Parsing, AskForToken, TakeToken, ParseEnds, DumpEnds,
           GoTo, output, compilerVars
  <1> QED
    BY <1>1, <1>2, <1>3, <1>4

(* What Parse returned is whole, and so is what main has written of it.    *)
WholeResult == parser_at = "done" => \A i \in DOMAIN result : P!Whole(result[i])

WholeInv == WholeResult /\ WholeItemsWritten

(* A step of the parser keeps the first half. *)
LEMMA ResultWholeStep ==
  ASSUME PP!IInv, P!Next, WholeResult
  PROVE  WholeResult'
  <1>1. CASE P!ParseEnd
    <2>1. result' = <<>> \/ result' = ast_list
      BY <1>1 DEF P!ParseEnd
    <2>2. \A i \in DOMAIN ast_list : P!Whole(ast_list[i])
      BY DEF PP!IInv, PP!ParserInv, PP!Operands, PP!Whole, P!Whole, PP!Null, P!Null,
             PP!NullMark, P!NullMark
    <2>3. \A i \in DOMAIN result' : P!Whole(result'[i])
      BY <2>1, <2>2
    <2> QED
      BY <2>3 DEF P!Whole, WholeResult
  <1> QED
    BY <1>1, ParseReturnsOnce DEF WholeResult

(* Every step of main keeps it.  Only Dump writes for parser_exec, and it  *)
(* writes behind Parse.                                                    *)
LEMMA WholeStep ==
  PP!IInv /\ RejectedInv /\ WrittenTyped /\ WholeInv /\ [CompilerNext]_compilerVars
    => WholeInv'
  <1> SUFFICES ASSUME PP!IInv, RejectedInv, WrittenTyped, WholeInv,
                      [CompilerNext]_compilerVars
               PROVE  WholeInv'
    OBVIOUS
  <1> USE DEF WholeInv, WholeItemsWritten
  <1>1. CASE P!Next /\ UNCHANGED <<written, program>>
    <2>1. WholeResult'
      BY <1>1, ResultWholeStep
    <2> QED
      BY <1>1, <2>1 DEF P!Whole
  <1>2. CASE UNCHANGED parserState /\ UNCHANGED <<written, program>>
    BY <1>2 DEF parserState, P!Whole, WholeResult
  <1>3. CASE ListToken
    BY <1>3 DEF ListToken, GoTo, ParserRests, parserState, P!Whole, WholeResult
  <1>4. CASE Dump
    <2>1. /\ step = "dump" /\ program' = program /\ UNCHANGED <<parser_at, result>>
          /\ Len(written) < Len(result) /\ Write(result[Len(written) + 1])
      BY <1>4 DEF Dump, GoTo, ParserRests, parserState
    <2>2. CASE program = "parser_exec"
      <3>1. parser_at = "done"
        BY <2>1, <2>2 DEF RejectedInv
      <3>2. Len(written) + 1 \in DOMAIN result
        BY <2>1, <2>2 DEF WrittenTyped, PP!IInv, PP!TypeOK
      <3>3. P!Whole(result[Len(written) + 1])
        BY <3>1, <3>2 DEF WholeResult
      <3>4. \A i \in DOMAIN written' : P!Whole(written'[i])
        BY <2>1, <2>2, <3>3 DEF Write, WrittenTyped
      <3> QED
        BY <2>1, <3>4 DEF P!Whole, WholeResult
    <2> QED
      BY <2>1, <2>2 DEF P!Whole, WholeResult
  <1>5. (UNCHANGED parserState /\ UNCHANGED <<written, program>>) \/ ListToken \/ Dump
          \/ (P!Next /\ UNCHANGED <<written, program>>)
    BY ParserMoves
       DEF CompilerNext, Construct, OutDirectory, OpenOutput, Lex, AskToken, ListEnd,
           ListBreaks, ResetFirst, Parsing, AskForToken, TakeToken, ParseEnds, DumpEnds,
           ParserRests, GoTo, output, compilerVars
  <1> QED
    BY <1>1, <1>2, <1>3, <1>4, <1>5

(* Of every program and every vocabulary, parser_exec never follows a null *)
(* operand: what it dumps are whole ASTs.                                  *)
THEOREM WholeAlwaysWritten == CompilerSpec => []WholeItemsWritten
  <1> DEFINE Inv == PP!IInv /\ RejectedInv /\ WrittenTyped /\ WholeInv
  <1>1. CompilerInit => Inv
    <2>1. CompilerInit => WrittenTyped /\ WholeInv
      BY DEF CompilerInit, WrittenTyped, WholeInv, WholeResult, WholeItemsWritten, P!Init
    <2> QED
      BY <2>1, ParserInvInit, RejectedInit
  <1>2. Inv /\ [CompilerNext]_compilerVars => Inv'
    BY ParserInvStep, RejectedStep, WrittenStep, WholeStep
  <1>3. Inv => WholeItemsWritten
    BY DEF WholeInv
  <1> HIDE DEF Inv
  <1> QED
    BY <1>1, <1>2, <1>3, PTL DEF CompilerSpec

-----------------------------------------------------------------------------
(***************************************************************************)
(* The lexer in the programs                                               *)
(***************************************************************************)
(* What main does to the lexer: calls, their steps, and Reset.             *)
LEMMA LexerMoves == [CompilerNext]_compilerVars => [LexNext \/ LexReset]_allVars
  <1> SUFFICES ASSUME [CompilerNext]_compilerVars PROVE [LexNext \/ LexReset]_allVars
    OBVIOUS
  <1>1. CASE AskToken \/ AskForToken \/ Lex
    BY <1>1 DEF AskToken, AskForToken, Lex, LexNext
  <1>2. CASE ListEnd \/ ResetFirst
    BY <1>2 DEF ListEnd, ResetFirst
  <1>3. CASE Construct \/ OutDirectory \/ OpenOutput \/ ListToken \/ ListBreaks
             \/ Parsing \/ TakeToken \/ ParseEnds \/ Dump \/ DumpEnds
    BY <1>3 DEF Construct, OutDirectory, OpenOutput, ListToken, ListBreaks, Parsing,
                TakeToken, ParseEnds, Dump, DumpEnds, LexerRests
  <1>4. CASE UNCHANGED compilerVars
    BY <1>4 DEF compilerVars
  <1> QED
    BY <1>1, <1>2, <1>3, <1>4 DEF CompilerNext

(* To the lexer, either program is a number of passes.                     *)
THEOREM ProgramsMakePasses == CompilerSpec => PassesSpec
  <1>1. CompilerInit => LexInit
    BY DEF CompilerInit
  <1>2. [CompilerNext]_compilerVars => [LexNextAll]_allVars
    BY LexerMoves DEF LexNextAll
  <1> QED
    BY <1>1, <1>2, PTL DEF CompilerSpec, PassesSpec

(* In both programs every variable of the lexer has its type: no call goes *)
(* beyond a buffer, and every token that is returned is one.               *)
THEOREM ProgramsKeepTypes == CompilerSpec => []LexTypeOK
  BY ProgramsMakePasses, PassesKeepTypes, TypesImply, PTL

(* The tokens that lexer_exec lists and that the parser of parser_exec is  *)
(* given, behind the Reset of Parse, are those of the text, if the file is *)
(* smaller than a block.                                                   *)
THEOREM ProgramsTellSmallFiles == CompilerSpec => []SmallFilesTold
  BY ProgramsMakePasses, SmallFilesAlwaysTold, PTL

-----------------------------------------------------------------------------
(***************************************************************************)
(* Nothing is lost between the file and the list of items.                 *)
(***************************************************************************)
(* What the parser skips at the top level *)
Skipped(t) == t.lexeme = ";"

(* No item is lost: Parse comes back to its loop with a token that is not  *)
(* ";" only behind an item or an error.                                    *)
EmptyInv ==
  /\ parser_at = "start" => read = <<>>
  /\ parser_at \in {"loop", "done"} /\ ~has_error /\ ast_list = <<>> =>
       \A i \in 1..(Len(read) - 1) : Skipped(read[i])
  /\ parser_at = "done" =>
       read # <<>> /\ read[Len(read)] = P!End /\ (~has_error => result = ast_list)
  /\ broken => parser_at = "threw"

(* What a step of the parser does to the tokens it has, and which steps    *)
(* lead to the loop of Parse                                               *)
LEMMA ParserTakes ==
  ASSUME P!Next
  PROVE  /\ parser_at \notin {"done", "threw"}
         /\ parser_at' # "start"
         /\ parser_at' = "loop" =>
              P!Start \/ P!ParseSemicolon \/ P!Recover \/ P!ReturnItem
         /\ broken' => broken \/ parser_at' = "threw"
  <1>0. ASSUME NEW p, P!NextToken(p)
        PROVE  parser_at' \in {p, "threw"} /\ (broken' => broken \/ parser_at' = "threw")
    BY <1>0 DEF P!NextToken, P!Source!Deliver, P!Source!Break
  <1>a. UNCHANGED P!sourceVars => broken' = broken
    BY DEF P!sourceVars
  <1>b. P!Error => parser_at' = "return" /\ broken' = broken
    BY <1>a DEF P!Error, P!Return
  <1> USE <1>0, <1>a, <1>b
  <1>1. CASE P!Start \/ P!ParseDefinition \/ P!ParseExtern \/ P!Recover
    BY <1>1 DEF P!Start, P!ParseDefinition, P!ParseExtern, P!Recover, P!Call
  <1>c. CASE P!ParseSemicolon \/ P!ParseGlobalExpr
    <2>1. P!ParseSemicolon => parser_at = "loop" /\ P!NextToken("loop")
      BY Zenon DEF P!ParseSemicolon
    <2>2. P!ParseGlobalExpr =>
            parser_at = "loop" /\ parser_at' = "primary" /\ broken' = broken
      BY Zenon DEF P!ParseGlobalExpr, P!sourceVars
    <2> QED
      BY <1>c, <2>1, <2>2
  <1>2. CASE P!ParseEnd
    BY <1>2 DEF P!ParseEnd
  <1>3. CASE P!PrototypeName \/ P!PrototypeOpen \/ P!PrototypeArgs
    BY <1>3 DEF P!PrototypeName, P!PrototypeOpen, P!PrototypeArgs
  <1>4. CASE P!PrimaryNumber \/ P!PrimaryIdentifier \/ P!PrimaryParentheses
             \/ P!PrimaryError
    BY <1>4 DEF P!PrimaryNumber, P!PrimaryIdentifier, P!PrimaryParentheses,
                P!PrimaryError
  <1>5. CASE P!Variable \/ P!CallOpen \/ P!CallFirst \/ P!BinOpRHS
    BY <1>5 DEF P!Variable, P!CallOpen, P!CallFirst, P!BinOpRHS, P!Return
  <1>6. CASE P!ReturnNull \/ P!ReturnParentheses \/ P!ReturnFirstOperand
    BY <1>6 DEF P!ReturnNull, P!ReturnParentheses, P!ReturnFirstOperand, P!Returned
  <1>d. CASE P!ReturnArgument
    <2>1. parser_at = "return"
      BY <1>d, Zenon DEF P!ReturnArgument, P!Returned
    <2>2. P!NextToken("return") \/ P!NextToken("primary") \/ P!Error
      BY <1>d, Zenon DEF P!ReturnArgument
    <2> QED
      BY <2>1, <2>2
  <1>7. CASE P!ReturnOperand \/ P!ReturnSubExpr \/ P!ReturnPrototype \/ P!ReturnItem
    BY <1>7 DEF P!ReturnOperand, P!ReturnSubExpr, P!ReturnPrototype, P!ReturnItem,
                P!Merge, P!Push, P!Return, P!Returned
  <1> QED
    BY <1>1, <1>2, <1>3, <1>4, <1>5, <1>6, <1>7, <1>c, <1>d DEF P!Next

(* A step of the parser keeps EmptyInv.                                   *)
LEMMA EmptyStep ==
  ASSUME PP!IInv, P!Next, EmptyInv
  PROVE  EmptyInv'
  <1> USE DEF EmptyInv
  <1>1. /\ parser_at \notin {"done", "threw"} /\ parser_at' # "start"
        /\ broken' => parser_at' = "threw"
    BY ParserTakes
  <1>2. read \in Seq(Vocabulary \cup {PP!End}) /\ ast_list \in Seq(PP!AST)
        /\ (parser_at \notin {"start", "threw"} => read # <<>>)
    BY DEF PP!IInv, PP!TypeOK, PP!ParserInv, PP!Shape
  <1>3. CASE parser_at' \notin {"loop", "done"}
    BY <1>1, <1>3
  <1>4. CASE P!ParseEnd
    BY <1>1, <1>2, <1>4 DEF P!ParseEnd, P!Current, P!sourceVars
  <1>5. ASSUME parser_at' = "loop", \/ ast_list' # <<>> \/ has_error'
                                    \/ \A i \in 1..(Len(read') - 1) : Skipped(read'[i])
        PROVE  EmptyInv'
    BY <1>1, <1>5
  <1>6. CASE P!Start /\ parser_at' = "loop"
    <2>1. PICK t : read' = Append(<<>>, t)
      BY <1>6 DEF P!Start, P!NextToken, P!Source!Deliver
    <2>2. 1..(Len(read') - 1) = {}
      BY <2>1
    <2> QED
      BY <1>5, <1>6, <2>2
  <1>7. CASE P!ParseSemicolon /\ parser_at' = "loop"
    <2>1. PICK t : read' = Append(read, t)
      BY <1>7 DEF P!ParseSemicolon, P!NextToken, P!Source!Deliver
    <2>2. /\ parser_at = "loop" /\ Skipped(read[Len(read)])
          /\ UNCHANGED <<has_error, ast_list>>
      BY <1>7, Zenon
         DEF P!ParseSemicolon, P!Is, P!IsPunct, P!Current, P!Within, P!outcome, Skipped
    <2>3. CASE ast_list = <<>> /\ ~has_error
      <3>0. Len(read) \in Nat
        BY <1>2
      <3>1. ASSUME NEW i \in 1..Len(read) PROVE Skipped(read[i])
        <4>1. i = Len(read) \/ i \in 1..(Len(read) - 1)
          BY <3>0
        <4> QED
          BY <2>2, <2>3, <4>1
      <3>2. Len(read') - 1 = Len(read) /\ \A i \in 1..Len(read) : read'[i] = read[i]
        BY <1>2, <2>1
      <3> QED
        BY <1>5, <1>7, <3>1, <3>2
    <2> QED
      BY <1>5, <1>7, <2>2, <2>3
  <1>8. CASE P!Recover /\ parser_at' = "loop"
    BY <1>5, <1>8 DEF P!Recover
  <1>9. CASE P!ReturnItem /\ parser_at' = "loop"
    <2>1. PICK x : ast_list' = Append(ast_list, x)
      BY <1>9 DEF P!ReturnItem, P!Push
    <2>2. ast_list' # <<>>
      <3>1. Len(ast_list) \in Nat /\ Len(ast_list') = Len(ast_list) + 1
        BY <1>2, <2>1
      <3> QED
        BY <3>1
    <2> QED
      BY <1>5, <1>9, <2>2
  <1> QED
    BY <1>3, <1>4, <1>6, <1>7, <1>8, <1>9, ParserTakes, ParseReturnsOnce

(* Every step of main keeps it. *)
LEMMA EmptyInvStep ==
  PP!IInv /\ EmptyInv /\ [CompilerNext]_compilerVars => EmptyInv'
  <1> SUFFICES ASSUME PP!IInv, EmptyInv, [CompilerNext]_compilerVars PROVE EmptyInv'
    OBVIOUS
  <1>1. CASE P!Next
    BY <1>1, EmptyStep
  <1>2. CASE UNCHANGED parserState
    BY <1>2 DEF parserState, EmptyInv, Skipped
  <1> QED
    BY <1>1, <1>2, ParserMoves

(* The parser has the tokens that the lexer returned.                      *)
SameTokens == \A i \in 1..Len(read) : read[i] = AsToken(tokens[i])

LinkInv ==
  program = "parser_exec" =>
    /\ step \in {"start", "directory", "open", "reset"} => read = <<>> /\ ~broken
    /\ step \in {"parse", "dump", "exited"} =>
         SameTokens /\ Len(tokens) = Len(read) /\ (~broken => at = "idle")
    /\ step = "lex" =>
         /\ SameTokens /\ ~broken
         /\ Len(tokens) = IF at = "idle" THEN Len(read) + 1 ELSE Len(read)

(* Every step of main keeps LinkInv: the parser asks for one token at a    *)
(* time, and takes it before the lexer is asked again.                     *)
LEMMA LinkStep ==
  ASSUME PP!IInv, TokensTyped, WordTags, RejectedInv, EmptyInv, LinkInv,
         [CompilerNext]_compilerVars
  PROVE  LinkInv'
  <1> SUFFICES ASSUME program' = "parser_exec" PROVE LinkInv'
    BY DEF LinkInv
  <1>1. program = "parser_exec"
    BY DEF CompilerNext, Construct, OutDirectory, OpenOutput, Lex, AskToken, ListToken,
           ListEnd, ListBreaks, ResetFirst, Parsing, AskForToken, TakeToken, ParseEnds,
           Dump, DumpEnds, GoTo, compilerVars
  <1>2. /\ step \in {"start", "directory", "open", "reset"} => read = <<>> /\ ~broken
        /\ step \in {"parse", "dump", "exited"} =>
             SameTokens /\ Len(tokens) = Len(read) /\ (~broken => at = "idle")
        /\ step = "lex" =>
             /\ SameTokens /\ ~broken
             /\ Len(tokens) = IF at = "idle" THEN Len(read) + 1 ELSE Len(read)
    BY <1>1 DEF LinkInv
  <1>3. Len(read) \in Nat /\ Len(tokens) \in Nat /\ tokens \in Seq(Token)
        /\ read \in Seq(Vocabulary \cup {PP!End})
    BY DEF PP!IInv, PP!TypeOK, TokensTyped
  <1>4. step \notin {"list", "listed"}
    BY <1>1 DEF RejectedInv
  <1>5. ASSUME ParserRests PROVE read' = read /\ broken' = broken
    BY <1>5 DEF ParserRests, parserState
  <1>6. ASSUME LexerRests PROVE at' = at /\ tokens' = tokens
    BY <1>6 DEF LexerRests, allVars, lexVars, tokenVars
  <1>7. ASSUME read' = read, tokens' = tokens PROVE SameTokens' <=> SameTokens
    BY <1>7 DEF SameTokens
  <1>8. CASE UNCHANGED compilerVars
    <2>1. /\ read' = read /\ broken' = broken /\ at' = at /\ tokens' = tokens
          /\ step' = step
      BY <1>8 DEF compilerVars, parserState, allVars, lexVars, tokenVars
    <2> QED
      BY <1>2, <1>7, <2>1 DEF LinkInv
  <1>9. CASE Construct \/ OutDirectory \/ OpenOutput \/ ParseEnds \/ Dump \/ DumpEnds
    <2>1. /\ read' = read /\ broken' = broken /\ at' = at /\ tokens' = tokens
      BY <1>5, <1>6, <1>9 DEF Construct, OutDirectory, OpenOutput, ParseEnds, Dump, DumpEnds
    <2>2. \/ /\ step \in {"start", "directory", "open"}
             /\ step' \in {"directory", "open", "reset", "aborted"}
          \/ /\ step \in {"parse", "dump"}
             /\ step' \in {"dump", "exited", "aborted", "undefined"}
      BY <1>1, <1>9
         DEF Construct, OutDirectory, OpenOutput, ParseEnds, Dump, DumpEnds, GoTo
    <2> QED
      BY <1>2, <1>7, <2>1, <2>2 DEF LinkInv
  <1>10. CASE ResetFirst
    <2>1. /\ step = "reset" /\ step' = "parse" /\ read' = read /\ broken' = broken
          /\ tokens' = <<>> /\ at' = "idle"
      BY <1>5, <1>10 DEF ResetFirst, GoTo, LexReset, Clear
    <2>2. read' = <<>>
      BY <1>2, <2>1
    <2> QED
      BY <2>1, <2>2 DEF LinkInv, SameTokens
  <1>11. CASE Parsing
    <2>1. /\ step = "parse" /\ step' = "parse" /\ read' = read /\ broken' = broken
          /\ at' = at /\ tokens' = tokens
      BY <1>6, <1>11 DEF Parsing, ParseAlone, GoTo
    <2> QED
      BY <1>2, <1>7, <2>1 DEF LinkInv
  <1>12. CASE AskForToken
    <2>1. /\ step = "parse" /\ step' = "lex" /\ read' = read /\ broken' = broken
          /\ at' = "blank" /\ tokens' = tokens
      BY <1>5, <1>12 DEF AskForToken, GoTo, Call, tokenVars
    <2>2. parser_at # "threw"
      BY <1>12, Zenon DEF AskForToken, NeedsToken
    <2>3. ~broken
      BY <2>2 DEF EmptyInv
    <2> QED
      BY <1>2, <1>7, <2>1, <2>3 DEF LinkInv
  <1>13. CASE Lex
    <2>1. /\ step = "lex" /\ step' = "lex" /\ read' = read /\ broken' = broken
          /\ NextTokenStep
      BY <1>5, <1>13 DEF Lex
    <2>2. /\ at # "idle"
          /\ \/ at' # "idle" /\ tokens' = tokens
             \/ \E t : at' = "idle" /\ tokens' = Append(tokens, t)
      BY <2>1, ReturnEnds, Zenon
    <2>3. CASE at' # "idle" /\ tokens' = tokens
      BY <1>2, <1>7, <2>1, <2>2, <2>3 DEF LinkInv
    <2>4. CASE \E t : at' = "idle" /\ tokens' = Append(tokens, t)
      <3>1. PICK t : at' = "idle" /\ tokens' = Append(tokens, t)
        BY <2>4
      <3>2. SameTokens /\ Len(tokens) = Len(read)
        BY <1>2, <2>1, <2>2
      <3>3. Len(tokens') = Len(tokens) + 1 /\ \A i \in 1..Len(read) : tokens'[i] = tokens[i]
        BY <1>3, <3>1, <3>2
      <3>4. SameTokens'
        BY <2>1, <3>2, <3>3 DEF SameTokens
      <3> QED
        BY <1>2, <2>1, <3>1, <3>2, <3>3, <3>4 DEF LinkInv
    <2> QED
      BY <2>2, <2>3, <2>4
  <1>14. CASE TakeToken
    <2>1. /\ step = "lex" /\ step' = "parse" /\ at \in {"idle", "failed"}
          /\ at' = at /\ tokens' = tokens
          /\ read' = IF at = "idle" THEN Append(read, Returned) ELSE read
          /\ broken' = (at = "failed")
      BY <1>6, <1>14 DEF TakeToken, GoTo
    <2>2. CASE at = "failed"
      BY <1>2, <1>7, <2>1, <2>2 DEF LinkInv
    <2>3. CASE at = "idle"
      <3>1. SameTokens /\ Len(tokens) = Len(read) + 1
        BY <1>2, <2>1, <2>3
      <3> DEFINE x == Returned
      <3>2. x = AsToken(tokens[Len(read) + 1])
        BY <3>1 DEF Returned
      <3> HIDE DEF x
      <3>3. read' = Append(read, x)
        BY <2>1, <2>3 DEF x
      <3>4. /\ Len(read') = Len(read) + 1 /\ read'[Len(read) + 1] = x
            /\ \A i \in 1..Len(read) : read'[i] = read[i]
        BY <1>3, <3>3
      <3>5. ASSUME NEW i \in 1..Len(read') PROVE read'[i] = AsToken(tokens[i])
        <4>1. i \in 1..Len(read) \/ i = Len(read) + 1
          BY <1>3, <3>4
        <4> QED
          BY <3>1, <3>2, <3>4, <4>1 DEF SameTokens
      <3>6. SameTokens'
        BY <2>1, <3>5 DEF SameTokens
      <3> QED
        BY <2>1, <2>3, <3>1, <3>4, <3>6 DEF LinkInv
    <2> QED
      BY <2>1, <2>2, <2>3
  <1>15. CASE AskToken \/ ListToken \/ ListEnd \/ ListBreaks
    BY <1>1, <1>4, <1>15 DEF AskToken, ListToken, ListEnd, ListBreaks
  <1> QED
    BY <1>8, <1>9, <1>10, <1>11, <1>12, <1>13, <1>14, <1>15 DEF CompilerNext

(* What parser_exec has written when it exits and its stream is good       *)
ExitInv ==
  program = "parser_exec" /\ step = "exited" /\ good => Len(written) = Len(result)

(* Every step of main keeps ExitInv. *)
LEMMA ExitStep ==
  RejectedInv /\ ExitInv /\ [CompilerNext]_compilerVars => ExitInv'
  <1> SUFFICES ASSUME RejectedInv, ExitInv, [CompilerNext]_compilerVars PROVE ExitInv'
    OBVIOUS
  <1>1. CASE UNCHANGED compilerVars
    BY <1>1 DEF compilerVars, output, parserState, ExitInv
  <1>2. CASE DumpEnds
    BY <1>2 DEF DumpEnds, GoTo, ParserRests, parserState, output, ExitInv
  <1>3. CASE ListToken \/ ListEnd
    BY <1>3 DEF ListToken, ListEnd, GoTo, RejectedInv, ExitInv
  <1>4. CASE CompilerNext /\ ~DumpEnds /\ ~ListToken /\ ~ListEnd
    <2>1. step' # "exited"
      BY <1>4
         DEF CompilerNext, Construct, OutDirectory, OpenOutput, Lex, AskToken, ListBreaks,
             ResetFirst, Parsing, AskForToken, TakeToken, ParseEnds, Dump, GoTo
    <2> QED
      BY <2>1 DEF ExitInv
  <1> QED
    BY <1>1, <1>2, <1>3, <1>4

(* The parser sees the kind of a token.                                    *)
LEMMA KindSeen == ASSUME NEW t PROVE AsToken(t).tag = t.tag
  <1> DEFINE word == SX!FoldLeft(LAMBDA s, c : s \o c, "", t.lexeme)
  <1>1. AsToken(t) = [tag |-> t.tag, lexeme |-> word]
    BY DEF AsToken
  <1> HIDE DEF word
  <1> QED
    BY <1>1

(* The property, from all of it                                            *)
LEMMA EmptyImplies ==
  ASSUME TypeOK, TokensTyped, SmallInv, EndIsEmpty, PP!IInv, PP!ErrorsLogged,
         RejectedInv, EmptyInv, LinkInv, ExitInv
  PROVE  EmptyExplained
  <1> SUFFICES ASSUME program = "parser_exec", step = "exited", good, Small,
                      ~undefined_read, written = <<>>, ~logged
               PROVE  OnlySemicolons
    BY DEF EmptyExplained, Small
  <1>1. parser_at = "done"
    BY DEF RejectedInv
  <1>2. ~has_error
    BY DEF PP!ErrorsLogged
  <1>3. ast_list = <<>>
    <2>1. Len(result) = 0
      BY DEF ExitInv
    <2>2. result \in Seq(PP!AST)
      BY DEF PP!IInv, PP!TypeOK
    <2>3. result = ast_list
      BY <1>1, <1>2 DEF EmptyInv
    <2> QED
      BY <2>1, <2>2, <2>3
  <1>4. /\ read # <<>> /\ read[Len(read)] = P!End /\ ~broken
        /\ \A i \in 1..(Len(read) - 1) : Skipped(read[i])
    BY <1>1, <1>2, <1>3 DEF EmptyInv
  <1>5. SameTokens /\ Len(tokens) = Len(read) /\ at = "idle"
    BY <1>4 DEF LinkInv
  <1>6. /\ Len(read) \in Nat /\ Len(read) \in 1..Len(read)
        /\ tokens # <<>> /\ DOMAIN tokens = 1..Len(read)
    <2>1. read \in Seq(Vocabulary \cup {PP!End}) /\ tokens \in Seq(Token)
      BY DEF PP!IInv, PP!TypeOK, TokensTyped
    <2> QED
      BY <1>4, <1>5, <2>1
  <1> DEFINE n == Len(read)
  <1>7. tokens[n].tag = "kEOF" /\ tokens[n].lexeme = <<>>
    <2>1. AsToken(tokens[n]).tag = "kEOF"
      <3>1. AsToken(tokens[n]) = P!End
        BY <1>4, <1>5, <1>6 DEF SameTokens
      <3>2. P!End.tag = "kEOF"
        BY DEF P!End
      <3> QED
        BY <3>1, <3>2
    <2>2. tokens[n].tag = "kEOF"
      BY <2>1, KindSeen
    <2> QED
      BY <1>6, <2>2 DEF EndIsEmpty
  <1>8. AtEnd
    BY <1>5, <1>6, <1>7 DEF AtEnd
  <1>9. ASSUME NEW p \in 0..(Len(text) - 1)
        PROVE  p \notin tokens[n].location.pos..(tokens[n].to - 1)
    <2>1. TokensTell(Len(text))
      BY <1>5, SmallTells DEF SmallFilesTold, Small
    <2>2. Len(text) \in Nat
      BY TextLength DEF TypeOK, Stream, text
    <2>3. tokens[n].location.pos \in Nat /\ tokens[n].to \in Nat
      <3>1. tokens[n] \in Token
        BY <1>6 DEF TokensTyped
      <3> QED
        BY <3>1 DEF Token, Location
    <2>4. tokens[n].to <= tokens[n].location.pos
      BY <1>6, <1>7, <2>1, <2>2, <2>3 DEF TokensTell
    <2> QED
      BY <2>2, <2>3, <2>4
  <1>10. ASSUME NEW i \in 1..(n - 1) PROVE AsToken(tokens[i]).lexeme = ";"
    <2>1. i \in 1..n
      BY <1>6
    <2>2. read[i] = AsToken(tokens[i]) /\ Skipped(read[i])
      BY <1>4, <1>5, <2>1 DEF SameTokens
    <2> QED
      BY <2>2, Zenon DEF Skipped
  <1>11. ASSUME NEW p \in 0..(Len(text) - 1)
         PROVE  \/ Char(p) \in Blanks \/ InComment(0, p)
                \/ \E i \in 1..(n - 1) :
                      p \in tokens[i].location.pos..(tokens[i].to - 1)
    <2>1. \/ Char(p) \in Blanks \/ InComment(0, p)
          \/ \E i \in 1..n : p \in tokens[i].location.pos..(tokens[i].to - 1)
      BY <1>5, <1>6, <1>8, SmallCovered
    <2>2. \A i \in 1..n : i = n \/ i \in 1..(n - 1)
      BY <1>6
    <2> QED
      BY <1>9, <2>1, <2>2
  <1>12. \A i \in 1..(n - 1) : i \in DOMAIN tokens
    BY <1>6
  <1> HIDE DEF n
  <1> QED
    BY <1>10, <1>11, <1>12, Zenon DEF OnlySemicolons

(* If parser_exec exits, accepting its file or not, with nothing in a      *)
(* destination that took what it was given, then a message said why, or    *)
(* the file has nothing in it but semicolons and comments, unless the      *)
(* pointer of line 195 was read: no character of a file of less than a     *)
(* block is lost on its way through the lexer and the parser.              *)
THEOREM EmptyAlwaysExplained == CompilerSpec => []EmptyExplained
  <1> DEFINE Inv == PP!ErrorsLogged /\ RejectedInv /\ EmptyInv /\ LinkInv /\ ExitInv
  <1>1. CompilerInit => Inv
    BY RejectedInit
       DEF CompilerInit, P!Init, P!Source!Init, PP!ErrorsLogged, PP!NoSubExpr, PP!Pending,
           EmptyInv, LinkInv, ExitInv
  <1>2. PP!IInv /\ LexTypesInv /\ EndIsEmpty /\ Inv /\ [CompilerNext]_compilerVars => Inv'
    <2>1. PP!IInv /\ PP!ErrorsLogged /\ [CompilerNext]_compilerVars => PP!ErrorsLogged'
      BY StepInProgram, PP!ErrorsStep, VocabularyAssumption DEF P!NullMark, PP!NullMark, P!Marks, PP!Marks
    <2> QED
      BY <2>1, RejectedStep, EmptyInvStep, LinkStep, ExitStep DEF LexTypesInv, EndIsEmpty
  <1>3. LexTypesInv /\ SmallInv /\ EndIsEmpty /\ PP!IInv /\ Inv => EmptyExplained
    BY EmptyImplies DEF LexTypesInv
  <1> HIDE DEF Inv
  <1> QED
    BY <1>1, <1>2, <1>3, ProgramsMakePasses, PassesKeepTypes, PassesSmall, PassesEndEmpty,
       ParserInvInProgram, PTL DEF CompilerSpec

-----------------------------------------------------------------------------
(***************************************************************************)
(* Nothing is lost between the lexer and the destination.                  *)
(***************************************************************************)
(* What parser_exec has written is the first of what Parse returned. *)
WrittenFirst ==
  program = "parser_exec" =>
    /\ Len(written) <= Len(result)
    /\ \A i \in 1..Len(written) : written[i] = result[i]

(* Every step of main keeps it: items are written behind Parse, whose      *)
(* result does not change any more.                                        *)
LEMMA WrittenFirstStep ==
  PP!IInv /\ RejectedInv /\ WrittenTyped /\ WrittenFirst /\ [CompilerNext]_compilerVars
    => WrittenFirst'
  <1> SUFFICES ASSUME PP!IInv, RejectedInv, WrittenTyped, WrittenFirst,
                      [CompilerNext]_compilerVars, program' = "parser_exec"
               PROVE  WrittenFirst'
    BY DEF WrittenFirst
  <1>1. /\ program = "parser_exec"
        /\ \/ P!Next /\ UNCHANGED written
           \/ UNCHANGED <<written, result>>
           \/ Dump
    BY ParserMoves
       DEF CompilerNext, Construct, OutDirectory, OpenOutput, Lex, AskToken, ListToken,
           ListEnd, ListBreaks, ResetFirst, Parsing, AskForToken, TakeToken, ParseEnds,
           Dump, DumpEnds, GoTo, output, compilerVars, ParserRests, parserState, RejectedInv
  <1>2. CASE P!Next /\ UNCHANGED written
    <2>1. parser_at # "done"
      BY <1>2, ParseReturnsOnce
    <2>2. written = <<>>
      BY <1>1, <2>1 DEF RejectedInv
    <2>3. result' \in Seq(PP!AST)
      BY ParserInvStep DEF PP!IInv, PP!TypeOK
    <2> QED
      BY <1>2, <2>2, <2>3 DEF WrittenFirst
  <1>3. CASE UNCHANGED <<written, result>>
    BY <1>1, <1>3 DEF WrittenFirst
  <1>4. CASE Dump
    <2>1. /\ result' = result /\ Len(written) < Len(result)
          /\ written' = Append(written, result[Len(written) + 1]) \/ written' = written
      BY <1>4 DEF Dump, Write, ParserRests, parserState
    <2>2. written \in Seq(PP!AST) /\ result \in Seq(PP!AST)
      BY <1>1 DEF WrittenTyped, PP!IInv, PP!TypeOK
    <2>3. CASE written' = written
      BY <1>1, <2>1, <2>3 DEF WrittenFirst
    <2>4. CASE written' = Append(written, result[Len(written) + 1])
      <3>1. /\ Len(written') = Len(written) + 1
            /\ written'[Len(written) + 1] = result[Len(written) + 1]
            /\ \A i \in 1..Len(written) : written'[i] = written[i]
        BY <2>2, <2>4
      <3>2. Len(written) \in Nat /\ Len(result) \in Nat
        BY <2>2
      <3>3. ASSUME NEW i \in 1..Len(written') PROVE written'[i] = result[i]
        <4>1. i \in 1..Len(written) \/ i = Len(written) + 1
          BY <3>1, <3>2
        <4> QED
          BY <1>1, <3>1, <4>1 DEF WrittenFirst
      <3> QED
        BY <2>1, <3>1, <3>2, <3>3 DEF WrittenFirst
    <2> QED
      BY <2>1, <2>3, <2>4
  <1> QED
    BY <1>1, <1>2, <1>3, <1>4

(* What items and tokens spell is the same in both instances of Parser. *)
LEMMA SameMeanings ==
  ASSUME NEW l, NEW s
  PROVE  P!Meanings(l) = PP!Meanings(l) /\ P!Said(s) = PP!Said(s)
  <1>1. P!Meanings(l) = PP!Meanings(l)
    BY Zenon DEF P!Meanings, PP!Meanings, P!Meaning, PP!Meaning, P!Marks, PP!Marks,
                 P!SX!FlattenSeq, PP!SX!FlattenSeq
  <1>2. P!Said(s) = PP!Said(s)
    BY Zenon DEF P!Said, PP!Said, P!Speaks, PP!Speaks, P!BinopPrecedence,
                 PP!BinopPrecedence, P!SX!FlattenSeq, PP!SX!FlattenSeq
  <1> QED
    BY <1>1, <1>2

(* The property, from what is known of the list, the tokens and the dump *)
LEMMA SaysImplies ==
  ASSUME TokensTyped, PP!IInv, PP!ErrorsLogged, PP!NothingLost, RejectedInv, EmptyInv,
         LinkInv, ExitInv, WrittenTyped, WrittenFirst
  PROVE  WrittenSays
  <1> SUFFICES ASSUME program = "parser_exec", step = "exited", good, ~logged,
                      ~undefined_read
      PROVE  P!Meanings(written) =
               P!Said([i \in 1..(Len(tokens) - 1) |-> AsToken(tokens[i])])
    BY DEF WrittenSays
  <1>1. parser_at = "done" /\ ~has_error
    BY DEF RejectedInv, PP!ErrorsLogged
  <1>2. written = ast_list
    <2>1. result = ast_list /\ Len(written) = Len(result)
      BY <1>1 DEF EmptyInv, ExitInv
    <2>2. written \in Seq(PP!AST) /\ result \in Seq(PP!AST)
      BY DEF WrittenTyped, PP!IInv, PP!TypeOK
    <2> QED
      BY <2>1, <2>2 DEF WrittenFirst
  <1>3. PP!SX!Front(read) = [i \in 1..(Len(tokens) - 1) |-> AsToken(tokens[i])]
    <2>1. SameTokens /\ Len(tokens) = Len(read)
      BY DEF LinkInv
    <2>2. read \in Seq(Vocabulary \cup {PP!End}) /\ read # <<>>
      BY <1>1 DEF PP!IInv, PP!TypeOK, EmptyInv
    <2>3. Len(read) \in Nat /\ Len(read) > 0
      BY <2>2
    <2>4. PP!SX!Front(read) = [i \in 1..(Len(read) - 1) |-> read[i]]
      BY <2>2, <2>3 DEF PP!SX!Front
    <2>5. \A i \in 1..(Len(read) - 1) : read[i] = AsToken(tokens[i])
      BY <2>1, <2>3 DEF SameTokens
    <2> DEFINE g(i) == AsToken(tokens[i])
    <2>6. \A i \in 1..(Len(read) - 1) : read[i] = g(i)
      BY <2>5
    <2> HIDE DEF g
    <2>7. [i \in 1..(Len(read) - 1) |-> read[i]] = [i \in 1..(Len(read) - 1) |-> g(i)]
      BY <2>6
    <2>8. [i \in 1..(Len(read) - 1) |-> read[i]] = [i \in 1..(Len(tokens) - 1) |-> g(i)]
      BY <2>1, <2>7
    <2> QED
      BY <2>4, <2>8 DEF g
  <1>4. PP!Meanings(ast_list) = PP!Said(PP!SX!Front(read))
    BY <1>1 DEF PP!NothingLost
  <1> DEFINE toks == [i \in 1..(Len(tokens) - 1) |-> AsToken(tokens[i])]
  <1>5. P!Said(toks) = PP!Said(toks) /\ P!Meanings(written) = PP!Meanings(written)
    BY SameMeanings
  <1>6. PP!SX!Front(read) = toks
    BY <1>3
  <1> HIDE DEF toks
  <1>7. P!Meanings(written) = P!Said(toks)
    BY <1>2, <1>4, <1>5, <1>6
  <1> QED
    BY <1>7 DEF toks

(* The names, numbers and operators of the tokens that the lexer returned  *)
(* are, in order, those of the items in the destination, whatever the      *)
(* text: none is lost, doubled or moved on the way through the parser's    *)
(* list, Parse and the dump, unless there was a message, a write failed or *)
(* the pointer of line 195 was read.                                       *)
THEOREM WrittenAlwaysSays == CompilerSpec => []WrittenSays
  <1> DEFINE Inv == /\ PP!ErrorsLogged /\ PP!Kept /\ RejectedInv /\ EmptyInv /\ LinkInv
                    /\ ExitInv /\ WrittenTyped /\ WrittenFirst
  <1>1. CompilerInit => Inv
    <2> SUFFICES ASSUME CompilerInit PROVE Inv
      OBVIOUS
    <2>1. PP!Kept
      <3>1. PP!Init
        BY SameInit DEF CompilerInit
      <3> QED
        BY <3>1, PP!KeptInit, VocabularyAssumption
           DEF P!NullMark, PP!NullMark, P!Marks, PP!Marks
    <2> QED
      BY <2>1, RejectedInit
         DEF CompilerInit, P!Init, P!Source!Init, PP!ErrorsLogged, PP!NoSubExpr, PP!Pending,
             EmptyInv, LinkInv, ExitInv, WrittenTyped, WrittenFirst
  <1>2. PP!IInv /\ LexTypesInv /\ EndIsEmpty /\ Inv /\ [CompilerNext]_compilerVars => Inv'
    <2> SUFFICES ASSUME PP!IInv, LexTypesInv, EndIsEmpty, Inv, [CompilerNext]_compilerVars
        PROVE  Inv'
      OBVIOUS
    <2>1. PP!ErrorsLogged' /\ PP!Kept'
      BY StepInProgram, PP!ErrorsStep, PP!KeptStep, VocabularyAssumption
         DEF P!NullMark, PP!NullMark, P!Marks, PP!Marks
    <2> QED
      BY <2>1, RejectedStep, EmptyInvStep, LinkStep, ExitStep, WrittenStep,
         WrittenFirstStep DEF LexTypesInv, EndIsEmpty
  <1>3. LexTypesInv /\ PP!IInv /\ Inv => WrittenSays
    <2> SUFFICES ASSUME LexTypesInv, PP!IInv, Inv PROVE WrittenSays
      OBVIOUS
    <2>1. PP!NothingLost
      BY PP!KeptImplies, VocabularyAssumption
         DEF P!NullMark, PP!NullMark, P!Marks, PP!Marks
    <2> QED
      BY <2>1, SaysImplies DEF LexTypesInv
  <1> HIDE DEF Inv
  <1> QED
    BY <1>1, <1>2, <1>3, ProgramsMakePasses, PassesKeepTypes, PassesEndEmpty,
       ParserInvInProgram, PTL DEF CompilerSpec

-----------------------------------------------------------------------------
(***************************************************************************)
(* Nothing is lost between the lexer and the listing.                      *)
(***************************************************************************)
(* What lexer_exec has written is the first of what NextToken returned.    *)
ListsFirst(toks) ==
  Len(written) <= Len(toks) /\ \A i \in 1..Len(written) : written[i] = AsToken(toks[i])

(* What lexer_exec leaves behind, wherever it stops: the first of the      *)
(* tokens it was given and nothing else, and all of them, the end of the   *)
(* file included, unless it was aborted or a write failed.                 *)
ListingFollows ==
  program = "lexer_exec" =>
    LET listed == IF step = "exited" THEN previous ELSE tokens IN
    /\ ListsFirst(listed)
    /\ good /\ step \in {"exited", "aborted"} => Len(written) = Len(listed)
    /\ step = "exited" => listed # <<>> /\ listed[Len(listed)].tag = "kEOF"

(* Between two calls all that was returned is written; the list ends with  *)
(* the end of the file.                                                    *)
ListInv ==
  /\ written \in Seq({AsToken(t) : t \in Token}) \/ program # "lexer_exec"
  /\ program = "lexer_exec" =>
       /\ step \in {"start", "directory", "open", "list", "lex", "listed", "exited",
                    "aborted"}
       /\ step \in {"start", "directory", "open"} =>
            written = <<>> /\ tokens = <<>> /\ ~good
       /\ step \in {"start", "directory", "open", "list"} => at = "idle"
       /\ step = "listed" => AtEnd
       /\ step = "exited" => /\ ListsFirst(previous) /\ previous # <<>>
                             /\ previous[Len(previous)].tag = "kEOF"
                             /\ good => Len(written) = Len(previous)
       /\ step # "exited" => ListsFirst(tokens)
       /\ good /\ step \in {"list", "listed", "aborted"} => Len(written) = Len(tokens)
       /\ step = "lex" => LET due == IF at = "idle" THEN 1 ELSE 0 IN
                          /\ Len(written) + due <= Len(tokens)
                          /\ good => Len(written) + due = Len(tokens)

(* One token more is returned, or none.                                    *)
LEMMA ListsMore ==
  ASSUME ListsFirst(tokens), tokens \in Seq(Token), written' = written,
         tokens' = tokens \/ \E t : tokens' = Append(tokens, t),
         Len(written) \in Nat
  PROVE  ListsFirst(tokens)'
  <1>1. CASE tokens' = tokens
    BY <1>1 DEF ListsFirst
  <1>2. CASE \E t : tokens' = Append(tokens, t)
    <2>1. PICK t : tokens' = Append(tokens, t)
      BY <1>2
    <2>2. Len(tokens') = Len(tokens) + 1 /\ \A i \in 1..Len(tokens) : tokens'[i] = tokens[i]
      BY <2>1
    <2>3. Len(tokens) \in Nat /\ 1..Len(written) \subseteq 1..Len(tokens)
      BY DEF ListsFirst
    <2> QED
      BY <2>2, <2>3 DEF ListsFirst
  <1> QED
    BY <1>1, <1>2

(* Every step of main keeps ListInv. *)
LEMMA ListStep ==
  ASSUME TokensTyped, WordTags, RejectedInv, ListInv, [CompilerNext]_compilerVars
  PROVE  ListInv'
  <1> SUFFICES ASSUME program' = "lexer_exec" PROVE ListInv'
    BY DEF ListInv
  <1>1. program = "lexer_exec"
    BY DEF CompilerNext, Construct, OutDirectory, OpenOutput, Lex, AskToken, ListToken,
           ListEnd, ListBreaks, ResetFirst, Parsing, AskForToken, TakeToken, ParseEnds,
           Dump, DumpEnds, GoTo, compilerVars
  <1> DEFINE Listed == {AsToken(t) : t \in Token}
  <1>2. /\ written \in Seq(Listed) /\ Len(written) \in Nat
        /\ tokens \in Seq(Token) /\ Len(tokens) \in Nat
    BY <1>1 DEF ListInv, TokensTyped
  <1>3. step \notin {"reset", "parse", "dump", "undefined"}
    BY <1>1 DEF ListInv
  <1>4. ASSUME LexerRests PROVE /\ at' = at /\ tokens' = tokens /\ previous' = previous
    BY <1>4 DEF LexerRests, allVars, lexVars, tokenVars
  <1>5. ASSUME written' = written, tokens' = tokens
        PROVE  ListsFirst(tokens)' <=> ListsFirst(tokens)
    BY <1>5 DEF ListsFirst
  <1>6. ASSUME written' = written, previous' = previous
        PROVE  ListsFirst(previous)' <=> ListsFirst(previous)
    BY <1>6 DEF ListsFirst
  <1>7. CASE UNCHANGED compilerVars
    <2>1. /\ at' = at /\ tokens' = tokens /\ previous' = previous /\ step' = step
          /\ written' = written /\ good' = good /\ program' = program
      BY <1>7 DEF compilerVars, allVars, lexVars, tokenVars, output
    <2> QED
      BY <1>5, <1>6, <2>1 DEF ListInv, AtEnd
  <1>8. CASE Construct \/ OutDirectory \/ OpenOutput
    <2>1. /\ at' = at /\ tokens' = tokens /\ written' = written
          /\ written = <<>> /\ tokens = <<>>
          /\ \/ step' \in {"directory", "open", "aborted"} /\ good' = good /\ ~good
             \/ step' = "list"
      BY <1>1, <1>4, <1>8 DEF Construct, OutDirectory, OpenOutput, GoTo, output, ListInv
    <2>2. at' = "idle"
      BY <1>1, <1>8, <2>1 DEF Construct, OutDirectory, OpenOutput, ListInv
    <2>3. ListsFirst(tokens)'
      BY <2>1 DEF ListsFirst
    <2> QED
      BY <1>2, <2>1, <2>2, <2>3 DEF ListInv
  <1>9. CASE AskToken
    <2>1. /\ step = "list" /\ step' = "lex" /\ at' = "blank" /\ tokens' = tokens
          /\ written' = written /\ good' = good
      BY <1>9 DEF AskToken, GoTo, Call, output, tokenVars
    <2>2. ListsFirst(tokens) /\ Len(written) <= Len(tokens)
      BY <1>1, <2>1 DEF ListInv, ListsFirst
    <2> QED
      BY <1>1, <1>2, <1>5, <2>1, <2>2 DEF ListInv
  <1>10. CASE Lex
    <2>1. /\ step = "lex" /\ step' = "lex" /\ written' = written /\ good' = good
          /\ NextTokenStep
      BY <1>10 DEF Lex, output
    <2>2. /\ at # "idle"
          /\ \/ at' # "idle" /\ tokens' = tokens
             \/ \E t : at' = "idle" /\ tokens' = Append(tokens, t)
      BY <2>1, ReturnEnds
    <2>3. ListsFirst(tokens)'
      BY <1>1, <1>2, <2>1, <2>2, ListsMore DEF ListInv
    <2>4. Len(written) <= Len(tokens) /\ (good => Len(written) = Len(tokens))
      BY <1>1, <1>2, <2>1, <2>2 DEF ListInv
    <2>5. CASE at' # "idle" /\ tokens' = tokens
      BY <1>1, <1>2, <2>1, <2>3, <2>4, <2>5 DEF ListInv
    <2>6. CASE \E t : at' = "idle" /\ tokens' = Append(tokens, t)
      <3>1. at' = "idle" /\ Len(tokens') = Len(tokens) + 1
        BY <1>2, <2>6
      <3> QED
        BY <1>1, <1>2, <2>1, <2>3, <2>4, <3>1 DEF ListInv
    <2> QED
      BY <2>2, <2>5, <2>6
  <1>11. CASE ListToken
    <2>1. /\ step = "lex" /\ at = "idle" /\ at' = at /\ tokens' = tokens
          /\ step' = IF AtEnd THEN "listed" ELSE "list"
          /\ \/ good /\ written' = Append(written, Returned) /\ good' = good
             \/ good' = FALSE /\ written' = written
      BY <1>4, <1>11 DEF ListToken, GoTo, Write
    <2>2. /\ Len(written) + 1 <= Len(tokens) /\ (good => Len(written) + 1 = Len(tokens))
          /\ ListsFirst(tokens)
      BY <1>1, <2>1 DEF ListInv
    <2>3. AtEnd' = AtEnd
      BY <2>1 DEF AtEnd
    <2>4. CASE good /\ written' = Append(written, Returned) /\ good' = good
      <3>1. tokens[Len(tokens)] \in Token /\ Returned = AsToken(tokens[Len(written) + 1])
        BY <1>2, <2>2, <2>4 DEF Returned
      <3>2. Returned \in Listed
        BY <1>2, <2>2, <2>4, <3>1
      <3> HIDE DEF Listed
      <3>3. /\ written' \in Seq(Listed) /\ Len(written') = Len(written) + 1
            /\ written'[Len(written) + 1] = Returned
            /\ \A i \in 1..Len(written) : written'[i] = written[i]
        BY <1>2, <2>4, <3>2
      <3>4. ASSUME NEW i \in 1..Len(written') PROVE written'[i] = AsToken(tokens[i])
        <4>1. i \in 1..Len(written) \/ i = Len(written) + 1
          BY <1>2, <3>3
        <4> QED
          BY <2>2, <3>1, <3>3, <4>1 DEF ListsFirst
      <3>5. ListsFirst(tokens)'
        BY <2>1, <2>2, <3>3, <3>4 DEF ListsFirst
      <3> QED
        BY <1>1, <2>1, <2>2, <2>3, <2>4, <3>3, <3>5 DEF ListInv, Listed
    <2>5. CASE good' = FALSE /\ written' = written
      BY <1>1, <1>2, <1>5, <2>1, <2>2, <2>3, <2>5 DEF ListInv
    <2> QED
      BY <2>1, <2>4, <2>5
  <1>12. CASE ListEnd
    <2>1. /\ step = "listed" /\ step' = "exited" /\ written' = written /\ good' = good
          /\ AtEnd /\ previous' = tokens
      BY <1>1, <1>12 DEF ListEnd, LexReset, GoTo, output, ListInv
    <2>2. /\ ListsFirst(tokens) /\ (good => Len(written) = Len(tokens))
          /\ tokens # <<>> /\ tokens[Len(tokens)].tag = "kEOF"
      BY <1>1, <2>1 DEF ListInv, AtEnd
    <2>3. ListsFirst(previous)'
      BY <2>1, <2>2 DEF ListsFirst
    <2> QED
      BY <1>2, <2>1, <2>2, <2>3 DEF ListInv
  <1>13. CASE ListBreaks
    <2>1. /\ step = "lex" /\ step' = "aborted" /\ at = "failed" /\ tokens' = tokens
          /\ written' = written /\ good' = good
      BY <1>4, <1>13 DEF ListBreaks, GoTo, output
    <2>2. ListsFirst(tokens) /\ (good => Len(written) = Len(tokens))
      BY <1>1, <1>2, <2>1 DEF ListInv
    <2> QED
      BY <1>2, <1>5, <2>1, <2>2 DEF ListInv
  <1>14. CASE ResetFirst \/ Parsing \/ AskForToken \/ TakeToken \/ ParseEnds \/ Dump
              \/ DumpEnds
    BY <1>1, <1>3, <1>14 DEF ResetFirst, Parsing, AskForToken, TakeToken, ParseEnds, Dump,
                             DumpEnds
  <1> QED
    BY <1>7, <1>8, <1>9, <1>10, <1>11, <1>12, <1>13, <1>14 DEF CompilerNext

(* The listing is what the lexer returned, token by token and in order,    *)
(* whatever the text: it stops short of the end of the file only where the *)
(* program is aborted or a write fails.                                    *)
THEOREM ListingAlwaysFollows == CompilerSpec => []ListingFollows
  <1>1. CompilerInit => ListInv
    BY DEF CompilerInit, LexInit, ListInv, ListsFirst
  <1>2. LexTypesInv /\ EndIsEmpty /\ RejectedInv /\ ListInv /\ [CompilerNext]_compilerVars
        => ListInv'
    BY ListStep DEF LexTypesInv, EndIsEmpty
  <1>3. ListInv => ListingFollows
    BY DEF ListInv, ListingFollows
  <1> QED
    BY <1>1, <1>2, <1>3, RejectedInit, RejectedStep, ProgramsMakePasses, PassesKeepTypes,
       PassesEndEmpty, PTL DEF CompilerSpec

-----------------------------------------------------------------------------
(***************************************************************************)
(* Types                                                                   *)
(***************************************************************************)
MainTyped ==
  /\ program \in {"lexer_exec", "parser_exec"}
  /\ step \in {"start", "directory", "open", "list", "lex", "listed", "reset",
               "parse", "dump", "exited", "aborted", "undefined"}
  /\ opened \in BOOLEAN /\ good \in BOOLEAN

(* Every step of main keeps the types of its own variables. *)
LEMMA MainTypedStep == MainTyped /\ [CompilerNext]_compilerVars => MainTyped'
  <1> SUFFICES ASSUME MainTyped, [CompilerNext]_compilerVars PROVE MainTyped'
    OBVIOUS
  <1> USE DEF MainTyped
  <1>1. CASE Construct \/ OutDirectory \/ OpenOutput
    BY <1>1 DEF Construct, OutDirectory, OpenOutput, GoTo, output
  <1>2. CASE Lex \/ AskToken \/ ListEnd \/ ListBreaks \/ ResetFirst
    BY <1>2 DEF Lex, AskToken, ListEnd, ListBreaks, ResetFirst, GoTo, output
  <1>3. CASE ListToken \/ Dump
    BY <1>3 DEF ListToken, Dump, Write, GoTo
  <1>4. CASE Parsing \/ AskForToken \/ TakeToken \/ ParseEnds \/ DumpEnds
    BY <1>4 DEF Parsing, AskForToken, TakeToken, ParseEnds, DumpEnds, GoTo, output
  <1>5. CASE UNCHANGED compilerVars
    BY <1>5 DEF compilerVars, output
  <1> QED
    BY <1>1, <1>2, <1>3, <1>4, <1>5 DEF CompilerNext

(* Every variable of either program has its type, for every vocabulary and *)
(* text, but for the one thing that depends on what the reader of a text   *)
(* takes its words for: that what lexer_exec writes is in the vocabulary.  *)
THEOREM ProgramsTyped == CompilerSpec => [](ListingTyped => CompilerTypeOK)
  <1>1. CompilerInit => MainTyped /\ WrittenTyped
    <2> SUFFICES ASSUME CompilerInit PROVE MainTyped /\ WrittenTyped
      OBVIOUS
    <2>1. MainTyped
      BY DEF CompilerInit, MainTyped
    <2>2. WrittenTyped
      BY DEF CompilerInit, WrittenTyped
    <2> QED
      BY <2>1, <2>2
  <1>2. PP!TypeOK => P!TypeOK
    BY DEF PP!TypeOK, P!TypeOK, PP!End, P!End, PP!AST, P!AST, PP!Symbols, P!Symbols,
           PP!NullMark, P!NullMark, PP!Frames, P!Frames, PP!Handlers, P!Handlers
  <1>3. MainTyped /\ WrittenTyped /\ PP!IInv => (ListingTyped => CompilerTypeOK)
    <2>1. PP!AST = P!AST
      BY DEF PP!AST, P!AST, PP!Symbols, P!Symbols, PP!NullMark, P!NullMark
    <2> QED
      BY <1>2, <2>1 DEF MainTyped, WrittenTyped, CompilerTypeOK, PP!IInv
  <1> QED
    BY <1>1, <1>3, MainTypedStep, WrittenStep, ParserInvInProgram, PTL DEF CompilerSpec
=============================================================================
