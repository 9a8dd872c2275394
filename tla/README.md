# TLA+ models and proofs of the Kaleidoscope compiler

This directory is a verification project for the compiler in `src/`: TLA+
modules translated from its C++ code, TLC configurations that model-check them
on small instances, and theorems about them that TLAPS checks for every value
of the constants. `PROJECT.json` lists runs, mutants, theorems, hazards and,
under `map`, the source lines each definition stands for.

Paths below are relative to the repository; `file.cc` is
`src/lexer/file.cc`, `parser.h` is `include/kaleidoscope/parser.h`, and so on.

## 1. The system

The program is sequential: one thread, no callbacks, nothing persistent but
the output file. Nothing in it catches an exception. A driver constructs a `Parser` (or a `Lexer`) on a path and
asks it for everything in the file. Calls go one way:

    parser_exec / lexer_exec
        -> Parser           current_token_, recursion over the grammar
            -> Lexer        NextToken(), word table, number automaton
                -> SourceFile   two buffers over a std::ifstream
        -> ast Dump         the parsed items, written to the output
    AstLLVMCodeGen          not connected to a driver yet

| component | state | operations | interacts by |
|---|---|---|---|
| `SourceFile` (`file.h`, `file.cc`, `source_location.h`) | stream, buffer pair, `forward_`, `begin_`, `extent_`, two buffer indices, two locations, two stamps, `is_end_` | constructor, `Peek`, `ScanChar`, `StartWith`, `Eat`, `NextLexeme`, `ResetForward`, `Reset`, `CloseAndOpenOther`, `HasNext` | called by the lexer; reads the stream; a failed `CHECK` throws |
| `Lexer::Impl` (`lexer.cc`, `token.h`) | the file, `lexeme_buffer_`, `peek_`, `location_`, `word_table_` | `NextToken` (`SkipBlank`, `SkipSingleLineComment`, `GetNumber`, `GetIdAndWord`, `GetPunctuator`), `Reset`, `ResetFile`, `IsFinish` | called by the parser or `operator<<`; returns tokens, some of them shared with its table; throws |
| `Parser` (`parser.h`, `parser.cc`) | the lexer, `current_token_`, `current`, `ast_list`, `has_error`, the call stack | `Parse` and the functions it reaches | pulls tokens; returns a list of ASTs or, after an error, an empty one; logs |
| `Lexer`, `Parser` as objects (`lexer.cc:613`, `parser.h:34`) | `pimpl_`, `lexer_` | constructors, moves, `swap`, destructor | own the `Impl` |
| AST (`ast.h`) | immutable trees of `unique_ptr` | `Dump` | built by the parser, written by the driver |
| `AstLLVMCodeGen` (`ast_visiter.cc`) | LLVM module and builder, `named_values` | the `visit` overloads | nobody calls it |
| drivers (`lexer_exec.cc`, `parser_exec.cc`) | where `main` is, the output stream and the destination | `main` | run the lexer, or the parser, and write what they return |
| `logging.h` | none | `CHECK`, `LOG_*` | throws on failed checks and errors |

There is no test in the repository, and the comments of the headers are the
only statement of intent; the grammar in `parser.h` is the specification of
the parser.

### What is hard here, and what correctness means

Nothing is concurrent and no message is lost, so the hard behaviour is in long
sequences of legal calls over shared mutable state.

* **SourceFile.** Lookahead and roll-back across a block boundary with two
  recycled buffers; which of them is current is known only by stamps modulo 3.
  *Correct*: the character shown is the one at the offset the location says,
  after any number of roll-backs; roll-back is always possible; a location is a
  function of its offset; `Reset` and `CloseAndOpenOther` forget the pass before.
* **Lexer.** Tokens are found by trying, eating and giving back. *Correct*: a
  lexeme is the text where its location says it is; nothing is skipped but
  blanks and comments; each token is the longest of its kind; a pass ends; the
  token returned carries its own location although reserved words share one
  token object; a `Reset` yields the same tokens.
* **Parser.** Recursive descent with a lookahead of one, error recovery by
  skipping one token, and a read of an unconstructed pointer. *Correct*: every
  file is parsed to its end; a file is rejected exactly when an error was
  reported; what is accepted is what the grammar says, in order and whole; no
  AST that will be dumped holds a null operand; the recursion is bounded.
* **Code generation.** A module, a builder and a map of names that outlive each
  visit, pointers into functions that are erased, and overloads chosen by the
  static type. *Correct*: a name means one function with one list of arguments
  until a definition of it fails; the names in reach are those of one function; no
  function that was erased is returned; what has no error is generated, which the
  code does not do (section 6).
* **Drivers.** The destination is opened, and truncated, before the source is
  read, streams fail silently, exceptions end the program anywhere. *Correct*:
  of a rejected or broken file nothing is written; of an accepted one exactly
  its items, of a listed one its tokens in order; an empty result is explained;
  the program ends.

The `hazards` of `PROJECT.json` list these at their lines.

## 2. Modules

| module | what it is |
|---|---|
| `Cursor` | abstract: what `SourceFile` promises in one pass, a cursor over a text with a mark to roll back to |
| `SourceFile` | `file.h`, `file.cc`: stream, buffers, stamps, locations |
| `TokenSource` | abstract: what the lexer promises the parser, tokens and then the end of the file for ever, unless a call throws |
| `Lexer` | EXTENDS `SourceFile`: `Lexer::Impl` step by step over it |
| `LexerHandles` | EXTENDS `Lexer`: `Lexer` and `Parser` objects as owners of the `Impl`, moved between two calls |
| `Parser` | `parser.cc` and `Parse`, over any `TokenSource` (an INSTANCE) |
| `ParserGrammar` | a reference reader of a part of the language, by the grammar in `parser.h`; recursive, used by runs only |
| `Compiler` | EXTENDS `Lexer`, with an INSTANCE of `Parser`: `lexer_exec` and `parser_exec`, the composition of everything from the characters of the source to the destination |
| `CompilerGrammar` | EXTENDS `Compiler`, with an INSTANCE of `ParserGrammar`: the property that needs the reference reader, apart because of its recursion |
| `SymbolTable` | abstract: what code generation promises whoever looks a function up by name |
| `CodeGen` | `ast_visiter.h`, `ast_visiter.cc`: the visits, in any order |
| `SourceFileProofs`, `LexerProofs`, `LexerTextProofs`, `LexerResetProofs`, `LexerHandlesProofs`, `ParserProofs`, `CompilerProofs`, `CodeGenProofs` | theorems and proofs |
| `MCSourceFile`, `MCLexer`, `MCLexerHandles`, `MCParser`, `MCCompiler`, `MCCodeGen` | constants for TLC |

Each model module ends with its properties, and each has, just before the
definition it changes, *seeded faults*: the mutated forms that show that a
property can fail.

### SourceFile

The variables are the fields. A buffer cell holds the *offset* in the open file
of the character it was filled with, `kEOF`, or `Junk` for memory never written
or filled from a file since closed. With offsets in the cells "the right
character" can be told from an equal one that is somewhere else.
`std::ifstream` is modelled by how the code uses it: a short `read` sets
eofbit and failbit, `read` on a stream that is not good reads nothing, and
`seekg` clears eofbit but moves nothing while failbit is set (C++11 and later).
One action per operation: `ScanChar` (with `NextValidPos` and `LoadBuffer`),
`NextLexeme`, `ResetForward`, `Reset`, `CloseAndOpenOther` (which may fail to
open), `Move`. A move takes every field along, so that it is a step in which the
reader is another object and nothing else changes. `StartWith` and `Eat` are loops over these and are stepped by `Lexer`.
`status` is `"threw"` after a failed `CHECK`, `"undefined"` after a read past a
buffer, which is shown never to happen in one pass.

`ScanSpec` is one pass, `RescanSpec` adds `Reset`, `Spec` has everything.

### Lexer

`NextToken` is a sequence of steps, each with at most one file operation;
`at` is the place in it. `state` and the table `Moves` are the automaton of
`GetNumber`: each state has its moves in the order the code tries them. `kEOF`
under `forward` makes `GetNumber` fail in any state, before the switch, as in
the code. `word_table` shows a fact that is easy to miss at `lexer.cc:270`: the
right operand of `word_table_[ptr->lexeme] = ...` is sequenced first and moves
the lexeme away, so that every identifier is stored under the empty key. It is
harmless only because nothing looks the identifiers up again, and
`TokenLocated` is what has to survive it. The characters are the ones the lexer
tells apart and a text is a sequence of them. Values of numbers are not
modelled, but that their conversion may throw `std::out_of_range` from some
length on is (`OutOfRange`), and so is every other exception: `at = "failed"`.
`tokens` and `previous` are history: what was returned since the last `Reset`,
and in the pass before.

### LexerHandles

A handle is a `Lexer` object, on its own or as the `lexer_` of a `Parser`; `pimpl`
says which of them owns the one `Impl`. Between two calls anything of
`lexer.cc:613-655` may happen to the handles, a move onto itself included, and
a call goes through any of them: through a null one it is a fault. The move
assignment of `Parser` (`parser.h:45-50`) swaps by `std::swap`, which assigns by
that same operator: it never returns (`fault = "overflow"`).

### Parser

The C++ call stack is the variable `stack`: the callers that wait for a value.
`at` is the function that runs, `value` what is being built or returned, and
each step takes at most one token. A step stands for the code between two
`NextToken` calls or between a call and its return. An AST is the sequence of
symbols its `Dump` writes, `<<>>` is `nullptr`, and a null operand inside an AST
is written as `NullMark`.

`parser.cc:195` is `ExprASTPtr rhs = BinOpRHS(expr_prec + 1, std::move(rhs));`:
the inner `rhs` is initialised from itself, a read of a `unique_ptr` that is
not constructed. The step is a nondeterministic choice: the storage holds a
null pointer and the program goes on with a null `lhs`, or garbage, and then
the model stops at `"undefined"`. Both outcomes occur in builds of the code:
with zeroed stack storage the program behaves as the first one, without it
`a+b+c` crashes. `undefined_read` remembers that it happened.

### Compiler

`step` is where `main` is. The lexer is the one of `Lexer`, the parser an instance
whose `read` is what that lexer returned: a step of the parser that takes a token
is possible exactly when the lexer has just returned one, and the lexer runs only
when the parser cannot go on without one (`AskForToken`). Directories and streams
may fail where the program does not look (`OpenOutput`, `Write`) and where it does
(`Construct`, `OutDirectory`: `create_directories` throws, for a bare file name as
well, whose directory is the empty path). `std::terminate` neither runs
destructors nor flushes, so that what counts as written is what was there, and
`parser_exec` writes nothing before `Parse` has returned. `Listing` gives, for each
text, the tokens its words are by construction of the text; only properties use it.

### CodeGen

Pointers to functions are ids that are never used again, so that a pointer to an
erased function can be told from a live one. Of LLVM there is what the visits
rely on: `getFunction` finds by name and nothing by the empty one, a name that is
taken is changed, also among the arguments of one function, `eraseFromParent`
removes the function and leaves references to it behind, the builder inserts into
whatever block it was set to. `visit` is overloaded and its argument in
`visit(bin_ptr->GetLHS())` and the like has the static type `ExprAST*`: the overload
that runs is the one at line 81, which returns `nullptr`. Nothing calls the visits,
and the class has no constructor that sets `module_`; they are modelled in any
order on an empty module, which is what their comments assume. What an
instruction is inserted into is `insert_point` (`Inserting`): once that function is
gone, the insertion is `"undefined"`. LLVM writes a changed name with a number behind
it, which another identifier could equal; in the model it never does.

## 3. Runs

All runs use `CHECK_DEADLOCK FALSE`: a pass over a file ends, and so do an
exception and `Parse`.

| run | states | shows |
|---|---|---|
| `SourceFileScan` | 1,756 | one pass: `ScanInv` (inductive), `PeekIsNextChar`, `LocationExact`, refinement of `Cursor` |
| `SourceFileAll` | 53 thousand | every operation in any order: types, small files are delivered exactly, roll-back is always in reach |
| `SourceFileEarlyEnd`, `SourceFileResetStamps` | | violations, see section 6 |
| `LexerTokens` | 1.2 million | numbers of every form, whole and broken, words, punctuators and comments, over blocks of four characters: the inductive `LexInv`, `TokensTellText`, `LongestMatch` (against `IsNumber`, the syntax said without states), `TokenLocated`, `PassEnds`, refinement of `TokenSource` |
| `LexerResets` | 1.6 million | `Reset`, `ResetFile` and moves between tokens: `ResetReplays`, `SmallFilesTold`, `OneOwner` |
| `ParserAll` | 1.3 million | one token of every kind the parser tells apart, in any order: the invariant, `NoNullDumped`, `DepthBounded`, `RejectedIffLogged`, `NothingLost`, `ParseReturns`; `ProgramsParsed`: `Parse` returns exactly what `ParserGrammar` reads, and rejects all else |
| `ParserParens`, `ParserChains` | | violations, see section 6 |
| `Compiler` | 644 thousand | both programs end to end: `ListingWritten`, `NothingOfRejected`, `WholeItemsWritten`, `WrittenSays`, `ProgramsWritten`, `EmptyExplained`, `ProgramEnds` |
| `CodeGen` | 63 thousand, up to symmetry | visits in any order: `NamesOfOneFunction`, `ReturnedLives`, refinement of `SymbolTable` |
| `CodeGenBodies` | | a violation, see section 6 |

### Bounds, and why they are enough

* `kBufferSize` is 4 in the `SourceFile` runs, 5 in `LexerTokens`, 16 in
  `LexerResets` and 40 in `Compiler` (4096 in the code). Nothing depends on it but
  where blocks end and when a lexeme is too long, and the small values make both
  happen all the time. The proofs hold for every `kBufferSize >= 2`. `LexerResets`
  and `Compiler` keep to texts of one buffer: for longer ones `Reset`, which
  `Parse` makes first, does not do what it should (section 6), `ProgramsWritten` is
  false, and `ResetReplays` speaks of shorter ones only.
* `MaxLen = 10` is three blocks and one character: stamps wrap (there are three)
  and both buffers are recycled. `SourceFileAll` has texts of up to 7, two blocks
  and one character, and any number of files and `Reset`s. Texts have line ends
  at every first, second or third character or none; what else is in them does
  not matter to the reader.
* A text of `LexerTokens` is made of up to three number pieces, with a blank or
  the end of the file behind them, or of up to four other pieces, chosen so that
  each piece can be a prefix, a continuation or a false start of a token with
  the others. Most texts are longer than one block. In `LexerResets` there are two
  pieces and two handles.
* A conversion may throw from five characters on (`MCOutOfRange`), so that each
  number form occurs both with and without it; in `Compiler` none does, and a
  lexer that throws is the one that meets an unknown character. `Call` is bounded
  by two calls more than the text has characters, so that a text of one character
  tokens is told of its end, and told again.
* `Compiler` has every text of up to three words of nine kinds, one of them of no
  token, and six longer programs: definitions with two arguments, calls in
  calls, a comment, an error in the middle, a chain of four operands, and a file
  of nothing but a semicolon between comments.
* `CodeGen` creates up to three functions with up to two arguments out of two
  names, which are names of functions and of arguments: enough for an erased
  function with live ones before and behind it, a taken name, and two equal
  arguments. The names are interchangeable (symmetry). The proofs are for all.
* `MaxTokens` depends on the kinds of token in a file (`ByKinds` in `MCParser`). Files of up
  to five tokens have any of ten kinds in any order; those of names, parentheses, commas
  and operators have up to six, as `a ( a , a )` does, and those of names, parentheses and
  `def` up to seven: `def a ( a a ) a` is the shortest definition with two arguments.
* In `CodeGenBodies` every expression is a number, so that no body has an error.

### Fairness

`LexSpec`, the parser's `Spec` and `CompilerSpec` have weak fairness of the whole next-state
relation. The code is sequential: as long as a statement can be executed, it is.
Nothing is assumed about which of several steps happens, and the only choices
there are come from outside (the text, an exception of a conversion, garbage in
memory, a stream or a directory that fails). `SourceFile`, `LexerHandles` and
`CodeGen` have no fairness; they are passive objects.

## 4. Refinements

* One pass of `SourceFile` implements `Cursor`, with `limit` mapped to `Limit`, the
  offset where the text ends *for the lexer*. `Cursor` lets a roll-back cut the
  text short once, because the code does (`SourceFileEarlyEnd`); everything
  before the cut is exact. Checked by `SourceFileScan` and proved.
* One pass of `Lexer` is a pass of `SourceFile`: `LexSpec => ScanSpec`, proved.
* One pass of `Lexer` implements `TokenSource`: checked by `LexerTokens` and proved.
* `Parser` is written over `TokenSource`: its actions take a token by
  `Source!Deliver`, and an exception is `Source!Break`. What is shown of the
  parser thus holds over every lexer that implements `TokenSource`, and with the
  theorem before over this one.
* The lexer in `Compiler` makes passes (`PassesSpec`: `ProgramsMakePasses`). Proved. That
  the parser there makes only steps of `Parser`, and that handles leave the lexer
  alone, is so by construction of the modules; it is stated as lemmas
  (`ParserInProgram`, `HandlesMakePasses`), which carry the theorems over.
* `Compiler` composes the two, and `ProgramsWritten` relates the characters of the
  source to the destination, with the `Reset` of `Parse` in between.
* `CodeGen` implements `SymbolTable`: a name, once known, keeps its function and
  its arguments until a definition of that very function fails (`defined` is mapped to
  `insert_point`, the function builder_ was set to last). A second prototype of the name
  changes nothing, and a failed definition makes no other name unknown. Checked and
  proved; it holds with and without the bodies of finding 5.

## 5. Proofs

All are of the form `Spec => []Inv`, or a refinement, for every value of the
constants under the named assumptions of the modules (`kBufferSize >= 2`,
`kEOF` and `Junk` are no offsets, texts are sequences of `Chars`, there are at least
two patterns and none is empty, line ends, `kEOF` and `Junk` are no characters of
words or punctuators (`ClassAssumption`), tokens are not the end of the file, and
no name or number is one of the marks that a dump puts between the parts of an item
(`TokenAssumption`; `VocabularyAssumption` where the parser reads its tokens from the
lexer), `MaxArgs` and `MaxFunctions` are numbers). No assumption says which punctuators
there are.

* `SourceFileProofs`, under *every* operation: `TypeCorrect`,
  `RollbackAlwaysInReach`, `SmallFilesFaithful`. The last needs
  `SmallFileInBuffer`: a file shorter than a block makes the first read fail, and
  from then on no `Reset` can move the stream or replace buffer 0; it is because
  `Reset` does not rewind such a file that it is delivered again.
* `ScanInvariant` (that `ScanInv` is inductive), `PeekAlwaysExact` and
  `ScanImplementsCursor`, in the same module and for one pass. That the character shown
  is right is not inductive: it needs that the block of the lexeme start is in
  its buffer, that the other buffer holds the *next* block exactly when its
  stamp says so, and that the stream is at the end of the last block read
  (`BlocksAgree`); and that no position rests on a sentinel while the file goes
  on (`NotOnSentinel`), or a crossing would be missed.
* `LocationAlwaysExact`, in the same module and for one pass. Line and column are
  those of the offset, which is a count over the text (the line ends before it, and
  the last of them). `LocationInv` adds to the property that for both locations there
  *is* a last line end (`LastBreak`), without which the column is not defined; the
  lemmas under it say what one more character does to the count (`BreakPassed`,
  `NoBreakPassed`).
* `LexerProofs`, for one pass: `LexerScans` (each lexer step is one file step or a
  stutter), from which `LexerSeesText` follows with the theorem above;
  `LexInvariant` and `LexemesTrue`. The inductive part is `Scanning`: at each control
  point, how many characters of the current lexeme have been scanned and that they
  are the text behind `mark`; `Located` ties `location_` to the start of the lexeme,
  so that the lexeme put into a token is the text at the token's location.
  `EndIsFinal` and `LexerIsTokenSource`: that the end of the file is reported for
  ever is the hard part, because `NextToken` does not remember it, but tries blanks,
  comments, numbers, words and punctuators over a sentinel again. `EndInv` says for
  each control point why it finds none, together with `RestEffect`: a step at `kEOF`
  leaves the position alone. `WordTags` is there because the word table, too, could
  return any tag. `PassKeepsTypes` does not need to know that the file is shown truly
  (`LexTypesInv`): that `lexeme_buffer_` is never written past its end follows from the
  roll-back being in reach, since a lexeme is as long as the way back to its start.
* `LexerTextProofs`, for one pass, three theorems that say together what a token is:
  * `TokensLocated`: by `LocatedInv`, `location_` is always that of its offset, and so is
    what the token just returned carries, or, if it is a word, the entry of the word
    table whose token object it may be a copy of.
  * `TokensAlwaysTell`: nothing but blanks and comments between two tokens, and the
    end where it is. `TellInv` has, for the text between the last token and `mark`,
    what the control point knows of it (`NothingBetween`), and for what was tried
    and given back what was seen there (`SeenAtMark`). `Limit` may move once, to
    where a roll-back cut the file short (section 6); the tokens stay told because they
    end at or before `mark` (`AllTold`), and it moves to no place before that.
  * `LongestAlways`: the tokens are longest matches. `LongestInv` keeps what
    `NextToken` has ruled out on its way: the punctuators tried before the current
    one are not there (`PatternsSought`), a word that starts with a digit has no blank
    up to the end (`WordSought`), and for numbers `HasEaten(state, lexeme, next)`, the
    meaning of each of the twenty-one states: which form the lexeme has so far and
    what the next character may still be. `MoveKeeps` checks it along every row of
    `Moves`, `EndIsNumber` and `NoLonger` relate the end states to the syntax
    (`IsNumber`, which `NumberIs` first turns from subsequences into places), and
    `PatternOrder` shows that the list tries no punctuator before a longer one.
* `LexerResetProofs`, for every order of calls, `Reset`s and `ResetFile`s
  (`PassesSpec`): `PassesKeepTypes` for all files and `SmallFilesAlwaysTold` for those of
  less than a block. The invariants of one pass do not survive a `Reset`: the failed
  read leaves failbit set, `seekg` then moves nothing, and `is_end_` is forgotten, so
  that `ScanInv` is false of the second pass of a small file, although all its tokens
  are right. What does hold is that the pass cannot be told from one of a lexer whose
  stream, stamps and `is_end` are as after the first read. `Once` is that lexer, an
  INSTANCE of the whole theory with these three variables substituted: `OnceStep` shows
  that each step of the one is a step of the other, and with that every lemma about
  one pass is used again, as `Once!ScanStep`, `Once!TellStep`, `Once!LongestStep` and so on.
* In the same module, `SmallFilesReplay` (`ResetReplays`: a small file yields the same
  tokens in every pass). It compares two passes, the first of which is there only as
  the list `previous` of its tokens. `Now` is all that the rest of a pass depends on: the
  place in `NextToken`, what it has in hand there (`Doing`: a variable left over from
  another place is no part of it), the two locations of the file, `location_`, the word
  table and the tokens; no stream, buffer or stamp. `LexNextIsStep` shows that each step
  that does not fail is `Step(text, Now)`, a function. The inductive `ReplayInv` says that
  there is a run of `Step` from `Outset` with the tokens of this pass (`Underway`), and one
  with those of the pass before (`Yields`); a `Reset` leads back to `Outset`
  (`FreshUnderway`). Two runs over one text agree as far as both go (`RunsAgree`) and
  only add to the tokens (`RunGrows`): an induction over the steps, made with the least
  step at which they would not (`LeastIndex`).
* `LexerHandlesProofs`: `HandlesKeepTypes`, `HandlesTellSmallFiles` and
  `HandlesReplaySmallFiles` are the theorems on passes again (a move takes the `Impl`
  along, lemma `HandlesMakePasses`); `OneOwnerAlways` from `OwnerInv`, a unique owner of a living `Impl`, null pointers
  everywhere when it is destroyed.
* `ParserProofs`: `ParserTypes`, `ParserInvariant`, `NeverNullDumped`,
  `RecursionBounded`, all from the inductive `TypeOK /\ ParserInv`. `NoNullDumped`
  alone is not inductive: it needs that ASTs with a null operand are found only
  in calls above a `SubExpr` frame (`StackInv`), and that what such a call
  returns is dropped (`Operands`). The bound on the recursion, two frames for
  each token, needs the slack that some control points have (`Depth`): each
  `'('` pushes two frames after one token, and the error paths pop before they
  take any. `RejectedAsLogged` needs `ErrorsLogged`: as long as line 195 was not read, no
  frame of it is on the stack, a null that is on its way to a handler was reported, and
  what was reported is in `has_error` or on its way there.
* In the same module, `ParserLosesNothing` (`NothingLost`): what the items spell is what
  the tokens spell, in order, where only names, numbers and operators count. `Kept` says
  it of every state and every call stack: as long as nothing was reported, the finished
  items, the calls on the stack from the bottom up (`StackSays`) and the AST that is
  being built or returned (`Carried`) spell together what the tokens before the current
  one said. The spelling is a selection from a sequence, which distributes over
  concatenation, so that each step is an equation between sequences: an operand or an
  argument moves from the AST in hand into the call below it without a change of order.
  `Kept` needs that no precedence on the stack is above 0, which is so until line 195 is
  reached, and that a parenthesis or a call stands where an operand may (`FramesKept`).
  The property cannot say more, that brackets are told as well: `parser.cc:87` eats
  whatever is in the place of a closing parenthesis, also a punctuator that is neither
  a bracket nor an operator.
* `CompilerProofs`, for both programs on every text. `ParserInvInProgram` takes the parser's invariant over (`PP` is an INSTANCE of
  `ParserProofs`, `SameStep` shows that its parser is that of `Compiler`).
  `RejectedLeavesNothing` from `RejectedInv` (what is written was returned by `Parse`,
  which returns nothing after an error), `WholeAlwaysWritten` from `WholeInv` and the
  parser's invariant. `ProgramsMakePasses`: to the lexer, either program is an instance of
  `PassesSpec`, so that `ProgramsKeepTypes` and `ProgramsTellSmallFiles` follow.
  `EmptyAlwaysExplained` runs through all of it: an empty destination has a message or
  a file of only semicolons, blanks and comments behind it. It needs that the parser has
  the very tokens the lexer returned, one more being on its way while main is in
  `NextToken` (`LinkInv`), that with neither an item nor an error `Parse` has passed
  nothing but `;` (`EmptyInv`), that what it returned was written to the last item
  (`ExitInv`), the parser's `ErrorsLogged`, and of the lexer that each character of a
  small file is a blank, or one of a comment or of a token (`SmallCovered`).
  `WrittenAlwaysSays` carries `ParserLosesNothing` from the tokens of the lexer to the
  destination, with `LinkInv` and `ExitInv` again and that the items written are the first
  of what `Parse` returned (`WrittenFirst`). `ListingAlwaysFollows` is the like of it for
  `lexer_exec`: what is written is the first of what `NextToken` returned, and all of it
  between two calls (`ListInv`). `ProgramsTyped` is `CompilerTypeOK` but for `ListingTyped`.
* `CodeGenProofs`: `CodeGenTypes`, `OneScope`, `ReturnsLiving` and `TableImplemented`, from
  the inductive `Inv`. What has to be added to the properties is `NamesUnique`: a name
  has one function, and a name LLVM changed tells which function it was changed for.
  The refinement then needs that a visit leaves every other name its function and
  arguments (`OthersKept`, `MeaningKept`). No step of these proofs uses which overload of
  `visit` runs for an expression or what it returns: they are about the code with
  `visit(ExprAST*)` as it is and about one in which bodies are generated.

### Only model-checked

* `ProgramsParsed` and `ProgramsWritten`: what they compare the state with is computed by
  recursion over the tokens (the reference reader of `ParserGrammar`), and a proof would
  be an induction over data, which the provers do not do. `NothingLost` and
  `WrittenSays`, which are proved, say of accepted files that no name, number or
  operator is lost or moved; how they are bracketed is left to the runs.
* `ListingWritten`, and `ListingTyped` of `CompilerTypeOK`: that the tokens of a text are
  its words in `Vocabulary` is true of the texts the run is given, by their construction
  (`Listing`), not of every text. What `lexer_exec` does with the tokens is
  `ListingFollows`, which is proved; that they are those of the text is `SmallFilesTold`.
* `PassEnds`, `ParseReturns` and `ProgramEnds`: liveness under fairness, which TLAPS does not
  prove, nor anything with ENABLED.

## 6. Where the code and what is said of it disagree

Shown by a run (`findings` of `PROJECT.json`):

1. `SourceFileEarlyEnd`: after a lookahead into the last block and a roll-back the
   end of the block before is taken for the end of the file (`file.cc:94`).
2. `SourceFileResetStamps`: `Reset` keeps the stamps (`file.cc:128`), and the second
   block is then skipped. `Parse` begins with a `Reset`, so this happens to every
   file longer than one block.
3. `ParserParens`: the closing parenthesis is tested the wrong way round
   (`parser.cc:87`): `(a;` is accepted and `(a)` is not.
4. `ParserChains`: with a null pointer at `parser.cc:195`, a chain of four operands
   is accepted with operands missing.
5. `CodeGenBodies`: the body of a definition goes through `visit(ExprAST*)`, which returns
   `nullptr` (`ast_visiter.cc:128`, `81`), so that also a body without an error has its
   function erased, a declaration of the name with it.

Met while modelling, modelled as the code has it, and not the subject of a run:

* A number that ends the file is returned as an identifier: `GetNumber` fails at
  `kEOF` in any state (`lexer.cc:329`). `LongestMatch` says when a digit may start an
  identifier.
* `HandleExtern` does not eat `extern`, so that every extern declaration is an error
  (`parser.cc:290`), where `parser.h:182` has `external ::= 'extern' prototype`. The reference
  reader knows externs; `ProgramsParsed` and `ProgramsWritten` allow a program with them to
  be rejected, and nothing else to be made of it, so that they hold of the code as it
  is and of one that reads them.
* A chain of three operands is rejected without a message (`parser.cc:196`), although the
  callers rely on one (`parser.cc:79`).
* After the end of a long file `Reset` does not rewind it: failbit is still set
  (`file.cc:129`).
* `IsFinish` is true as soon as the last block was loaded, for a short file
  before its first token (`lexer.cc:248`).
* `parser.h:126` writes the arguments of a call without commas; the code requires
  them, and the prototypes' (`parser.cc:226`) must not have them, although `Dump`
  writes both with commas. `ParserGrammar` follows the code in this.
* The move assignment of `Parser` (`parser.h:45`) recurses without an end, and its
  `swap(tmp, other)` would not touch `*this`.
* `create_directories` throws for the empty path, so that both programs abort when
  the destination is a bare file name (`parser_exec.cc:24`, `lexer_exec.cc:23`).
* Of a file longer than a block `lexer_exec` and `parser_exec` see different tokens:
  only the second resets the lexer first.
* A definition whose body fails leaves the builder in a block that is gone, where a call
  visited next writes (`ast_visiter.cc:120`), and pointers to the arguments of the erased
  function in `named_values`, which the visit of a variable returns
  (`ast_visiter.cc:138`). Neither depends on why the body failed.
* `08` is the number `0` followed by the number `8`.
* `ast.h` defines `ProtoTypeAST::GetName` twice (lines 180 and 197) and does not
  compile as it stands; the model is of the code with one of them.

## 7. Not modelled

* `'\0'` inside a text, characters beyond ASCII, the wording of messages and the
  layout of `Dump` and of the token listing.
* `ReadEscapeChar`, `GetStringLiteral` (commented out), `ExternDeclPrototypeAST`,
  `IsFinish` and the `accept` methods: nothing calls them.
* A destination that is the source: opening it truncates the file between the
  constructor, which has read a block, and the `Reset` that reads it again. A file
  that changes while it is open is outside of the model of `std::ifstream`.
* Part of an item in the destination after a failed write: an item is written
  whole or not at all.
* The values of numbers: a number is its lexeme, in tokens and in ASTs.
* What a pass yields over `Junk` cells (after `SourceFileResetStamps`): the lexer runs
  stay inside one pass, or inside one buffer.
* `Parse` called twice on one parser: everything but `current_token_`, which it
  overwrites, is local to it, so that it is a pass like the first over whatever the
  `Reset` leaves; of that `LexerResets` speaks.
* Build files and tools, which hold no program logic.

## 8. What is left

The components are modelled, and of the safety properties that runs check all are
proved but those of *Only model-checked*. A chain of three operands always comes to
line 195 of `parser.cc`, so that without undefined behaviour no accepted expression has
two operators side by side. When that line is corrected, precedence begins to matter:
`prec = 0` in `FramesKept` has to go, and how operators bind is the next property to
state and prove.
