# Verification of IStudio

TLA+ models of the IStudio compiler and its language server, the TLC runs that
check them on small instances, and proofs of what holds on all instances.
`PROJECT.json` lists the components, the runs, the hazards each property is
aimed at, and for every definition the source lines it models. Paths below are
relative to the repository.

    tlc -config MCLspServer.cfg MCLspServer      # one run
    tlapm LspTransportProofs.tla                 # one module of proofs

## The system

| Part | State it keeps | Operations | Talks to |
|---|---|---|---|
| Server (`src/lsp/server.cpp`) | `shutdown_received_`, `exit_requested_`, `exit_code_` | `run`, `parse_message`, `handle_request`, `handle_notification` | reads payloads from the reader, writes replies |
| MessageReader (`src/lsp/message_io.cpp`) | locals of one `read_message`, the stream | header lines, body, line end after it | the editor, through a stream it fills in pieces |
| Lexer (`src/front/lexer.cpp`) | position, trivia waiting for a token | one round of `lex`, one `read_*` per kind of token | gives the parser its tokens |
| Parser, AstContext (`src/front/parser.cpp`, `ast.cpp`) | place in the tokens; a vector of nodes | one `parse_*` per rule of `docs/grammar.ebnf`; `create_node` | fills the tree the analyzer walks |
| SemanticAnalyzer (`src/sem/analyzer.cpp`) | types of nodes, stack of active functions | one `analyze_*` per node kind | symbol table and registry, reads the tree, reports diagnostics |
| SymbolTable, FunctionRegistry (`src/sem/context.cpp`) | scopes; one signature per function name | push, pop, insert, lookup, declare | the analyzer writes, lowering reads |
| Lowering (`src/ir/lowering.cpp`) | none | `lower_module` | makes the registry's signatures functions of the IR |
| ConstantFoldingPass, PassManager (`src/opt`) | a table of known constants per function | `run` | rewrites the IR in place |
| C++ backend (`src/backends/cpp`) | the includes met so far, the files made | `emit`: includes, header, source | reads the IR |
| CLI, plugins, version, dumps, printers | none to speak of | | |

Everything runs in one thread. What makes the system hard is elsewhere:

* **Two processes and a byte stream.** The editor writes when it likes, in pieces,
  waits for replies, and dies when it likes; the server must neither lose the
  place in the stream nor wait for what will not come.
* **Text taken for structure.** The server finds keys by searching the payload.
* **A recursion over a vector that moves.** The parser's precedences are an integer
  handed down its own recursion, and each call that comes back may have moved
  every node its caller holds a reference to.
* **A single pass that infers.** The analyzer gives a variable, a parameter or a
  return its type as it walks; what it decided earlier may be overtaken, and
  `Unknown` means both "not yet" and "conflict".
* **Copies.** A parameter's type is in its signature and in its node; a function
  is in the registry by name and in the scopes by name and place; lowering reads
  the signatures.
* **Rewriting in place.** The optimizer's table must say what a name is worth at
  the instruction it has come to, in that function, and the backend must
  recognize what the optimizer has left.

## Modules

    LspMessage ── LspHandlers ─┬─ LspServer ───── MCLspServer
                               │     ▲
                               │     │ refines
                               └─ LspTransport ── MCLspTransport
    Lexer ── MCLexer
    Ast ── Parser ── Grammar ── MCParser
    SemTypes ── SemContext ── Analyzer ─┬─ Lowering ── MCAnalyzer
                                   Ir ──┤
                                        ├─ ConstantFolding ─┬─ Pipeline ── MCPipeline
                                        └─ CppBackend ──────┘ (an instance)

The proofs stand beside the modules they are about; a model never uses a proof.

| Proofs | About | With |
|---|---|---|
| `LspHandlersProofs` | `LspHandlers` | |
| `LspServerProofs` | `LspServer` | `LspHandlersProofs` |
| `LspTransportProofs` | `LspTransport`, and the server behind it | `LspHandlersProofs`; `LspServerProofs` as an instance |
| `SequenceLemmas` | `FlattenSeq`, ranges | |
| `LexerProofs` | `Lexer` | `SequenceLemmas` |
| `ParserProofs` | `Ast`, `Parser` | `SequenceLemmas` |
| `AnalyzerProofs` | `SemTypes`, `SemContext`, `Analyzer`, `Lowering` | |
| `PipelineProofs` | `ConstantFolding`, `Ir`, `CppBackend`, `Pipeline` | |

**LspMessage** is pure: a payload is the sequence of the places a search in its text
can stop at. These are the members with one of the three keys the server looks
for, with their depth and what `extract_property` makes of their value; the strings
that are no member's name but are spelled like one (`Text`), on which
`payload.find` stops as well; and where such a string matters, the members whose
colon comes next (`Other`). A key's value is what stands behind the first colon
after the first place with that key (`Colons`, `ColonAt`). Beside the code's reading stands
JSON-RPC's own (`IsRequest`, `IsNotification`, `MethodOf`, `IdOf`), which the
properties use, so that no property is stated in terms of the parser it checks.

**LspHandlers** has the server's members and one action per way a payload is
handled. `out` is the list of replies, each with the number of the message that
caused it.

**LspServer** is the abstract specification: payloads in an inbox, taken one by
one. It says what an editor may rely on.

**LspTransport** is the same handlers behind `read_message`. The stream is a
sequence of units (a header's text, a line end, one member of a payload), lengths
count units, and each blocking read is an action enabled when it could return.
`Server == INSTANCE LspServer` maps it back: the log is the payloads whose bodies
are completely written, `next` is the number delivered. A `Content-Length` of
`Huge` stands for the values `std::stoul` accepts and `std::string` cannot hold. A
stream that ends inside a header block ends the session, unless the last length
read there is such a value: the code goes on to `out.resize` and throws
(`HeadersCutShort`).
`faulty` counts the ill-formed frames the editor has begun: while it is 0 every step
is one of `LspServer` or none of its business; afterwards `FaultsAreContained` says
what is left of that promise.

**Lexer** has one action per kind of token, one for a comment and one for the end,
each a whole round of `lex`'s loop with the white space it begins with. Where a
token ends is a pure function of the text, written the way the code finds it;
`LongestMatch` compares it with what words, numbers, strings and symbols are by
`docs/grammar.ebnf`, written without reference to how they are found. The lexer departs
from the grammar in two places, which the property names: it takes a dot right
behind a whole number with the number (`IsDotted`), and a string that nothing closes to
the end of the text. The property says that it does so wherever it meets them and that
there is no third: a lexer that kept to the grammar would violate it.

**Ast** is the vector of nodes with its capacity: `create_node` on a full one moves
it, and a reference is an id together with the capacity of the block it points
into. **Parser** has the C++ call stack as a sequence of frames with the locals that
live across a call; an action takes at most one token, from one call or return
to the next. The tokens are not fixed beforehand: each is chosen when the parser
first looks at it, so that the behaviours are the parses of all streams over an
alphabet. An exception is one action, `Throw`, wherever something unexpected
stands. **Grammar** is the reference: the productions of `docs/grammar.ebnf` as the set of
trees derivable from a sequence of tokens. The parser knows neither `fn`
declarations nor type annotations nor `.` and `[...]` suffixes, so these productions are
left out of it.

**SemTypes** and **SemContext** are types with `unify_types`, scopes and signatures
as values. **Analyzer** is the walk over a tree, and the tree is not fixed
beforehand: each step meets the next node of some tree, so that the behaviours
are the walks over all trees within the bounds. `operands` holds the types the C++
call stack holds in locals, `frames` the blocks and functions entered, `binding`
the `let` whose initializer is analyzed. The types of nodes that nothing reads
again are left out, and a function's name node and function node are one. The
trees are those `analyze_node` accepts, a superset of the grammar's: a body's
statements may stand in a block of their own or directly in the function. `seen`
and `yielded` are history: the known types ever written to a declaration, and
the known types a function returned or its calls were given. **Lowering** is
`lower_module` as a function of the analyzer's state, looked at wherever a walk may
end.

**Ir** is the constructors of the IR. **ConstantFolding** walks a module
instruction by instruction, as often as the manager holds the pass. Integers
go up to `Greatest` and down to `-Greatest - 1`; the pass's arithmetic wraps around, and a division that
overflows may trap instead (both are outcomes of undefined behaviour that builds
produce). What an instruction means is taken from the statement
`translate_instructions` emits for it. Its integers have a C++ type: `auto x = n;` is an
`int` if the digits fit one (`GreatestInt`), else a `long` (`Greatest`), an operation on
`int`s is an `int`'s and any other a `long`'s; overflow of that type and division by zero
have no value at all. Folding takes a constant's type from its digits, so it makes
an `int` of an operation on `long`s whose result is small (and a `long` of the least
`int`, whose digits without the sign fit none): after
`a = 3000000000`, `b = 2999999999`, `c = a - b` the `c` is a `long` before folding and an
`int` after it, and `c + 2147483647` is defined before and overflows after. Nothing in
the repository says which type a constant should have, or that folding keeps
meaning at all, so this is no violation of a claim and has no run. `MeaningKept`
says what does hold: no name has another number after folding, and each
keeps its very value unless a line of its function was given another type so
(`Retyped`). Without that condition TLC finds such a value at once. **CppBackend** is `CppEmitter`: a file is the sequence of includes,
structs, declarations and definitions written into it, of which the model keeps
what a C++ compiler looks up: names declared and used, and by each line of a
body. **Pipeline** composes the two: the backend holds a reference to the module, so its
`module` is mapped to what the passes have made of it by then. No code in `src` drives
them both; the order is that of `docs/spec/spec-draft.md`, section 13.

## Runs

| Run | Instance | Shows |
|---|---|---|
| `server` | 11 payloads (every method, notification and request forms, string, raw and `null` ids, a nested id after the outer one, strings spelled like keys behind those keys, an invalid version, a method that is no string), 3 messages | replies match, the exit status, everything owed is answered, `run` returns |
| `server_nested` | also `$/cancelRequest`, the method `id` and a parameter `"id"` | **violation**: a notification is answered |
| `transport` | 10 frames: 4 well-formed (plain, extra header with bare line feeds and a line end after the body, `Content-Length` twice) and 6 ill-formed, 3 messages, cut anywhere | the framed server implements `LspServer`; an ill-formed frame spoils one payload at most; the same liveness |
| `transport_interactive` | one editor that waits for `initialize` | **violation**: it waits for ever |
| `transport_huge` | a huge length | **violation**: the process dies |
| `lexer` | 3 alphabets of 5 and 6 characters, texts of up to 5, every configuration | longest match but for the two departures from the grammar, nothing lost, lexing ends |
| `parser` | 6 alphabets of up to 11 tokens, streams of up to 5, 6 or 7, as a module or as an expression, in a new context, in one that grows with the first node and in one with room | trees are the grammar's, spell their tokens, hold each node once and nest; the parser ends |
| `parser_unary` | signs and identifiers | **violation**: `-x - x` is `-(x - x)` |
| `parser_let` | statements in a new context | **violation**: the name of a `let` is read from freed memory |
| `analyzer` | 2 names, 3 declarations, depth 2, 2 operands, 1 parameter, integer literals and functions as values | what is accepted has the types it says, and lowering keeps them; scopes and signatures stay consistent |
| `analyzer_conflict` | a function with three returns | **violation**: a conflict is forgotten |
| `pipeline` | 26 000 modules: functions of three instructions, or of one and then two, `long` of 3 bits and `int` of 2; structs and signatures with every type in every place; the pass run twice; header, source or both | folding changes no number and loses no value where types stay, one pass is enough, every name and type in the files is declared above its use |

Why the bounds suffice. *Sessions*: the server's memory of the past is two flags, so
a first message that sets one, one in between and a last one reach every
combination. *Frames*: the reader forgets everything between frames but its place
in the stream, so a bad frame, the one it runs into and the next one show what
it can spoil. *Texts*: the lexer looks two characters ahead at most and the longest
symbol has three; five hold an escape inside a string with something before and
after it. *Tokens*: six hold two operators with their operands and one more, a call
with two arguments, a call of a call; seven hold a `let` in a block. There is an
operator of each kind in one alphabet and of each level of precedence in
another, with as many tokens as two operators of different levels need.
*Programs*: a call may come before, within and after the body it
calls, with a parameter, and two functions may share a name, within three
declarations; three types (two functions and one plain) tell apart all that
`unify_types` tells apart. *Modules*: two constants and an operation on them, a
redefinition, and a name shared by two functions; 3 and 2 bits give every kind of
overflow, of each type, and numbers that fit both types and one only. All bounds are constants of the modules: `MaxMessages`, `MaxChars`,
`longest` in `Calls`, `MaxNodes`, `MaxDepth`, `MaxOperands`, `MaxParams`, `Greatest`,
`GreatestInt`, `Passes`, and `TypeDepth`, how deep the arguments of types nest (2 in `pipeline`). None
of them bounds a theorem: each is any natural number there.

`analyzer` has `CONSTRAINT AcceptedOrOneName`: a walk goes on after its first mismatch or
duplicate only where all declarations contend for one name, and a block directly in
a block is left empty. The `Accepted...`
properties say nothing of later states; the other two are about how
declarations of one name meet. `VIEW View` leaves out the history once nothing reads it. Names
are symmetric. No run checks deadlock: a server that has returned, a
parser that has, a walk at its bounds and a pipeline that is done do stop.

`ParsesTheGrammar` leaves out what the parser is known to read otherwise, prefix
operators and keywords as operands; `TreeSpellsTokens`, `EveryNodeHeldOnce`,
`SpansNest` and `EventuallyDone` are checked with these in the streams too.
`BodiesAreDeclared` assumes that the instructions given were well-formed, and
`TypesAreDeclared` that structs stand after those they use: both speak of what the
backend and the passes add to that.

**Fairness.** The server is one thread that does nothing but read and handle, so a
read that can return does (`WF` of `Serve` and `EndOfInput`, of `Read`). The editor
owes nothing in `LspServer`. In `LspTransport` it closes the stream some day
(`ClosingSpec`) where answers to everything are asked for, because the reader
withholds the last payload until then; `FinishingSpec`, where it only finishes the
frame it has begun, is what an interactive editor does, and there the answer never
comes. The lexer and the parser are one call that runs until it ends (`WF` of `Next`), so
that `EventuallyLexed` and `EventuallyDone` say that no loop in them goes round without
taking something. The analyzer, the optimizer and the backend have only safety
properties: their loops run over data given beforehand.

## What the violations mean

1. `in.peek()` after the body (`message_io.cpp:81`) blocks until one more byte
   arrives. A test that writes the whole session first cannot see it.
2. The first `"id"` anywhere in the text counts (`server.cpp:84`): an id nested in the
   parameters, and a string that is no key at all, so that
   `{"method": "id", "jsonrpc": "2.0"}` is answered with the id `"2.0"`. The run has
   notifications of both kinds and ends at the first it meets.
3. `Content-Length: -1` throws out of `main` (`message_io.cpp:74`), at the blank line or
   where the stream ends behind it.
4. After two conflicting returns a third makes the return type known again
   (`analyzer.cpp:436`).
5. `parse_let_statement` holds a reference across `create_node` (`parser.cpp:93`). The test
   of it passes as long as the freed block has not been used again.
6. A sign's operand is parsed at the precedence of the binary operator of the same
   name (`parser.cpp:156`).

Divergences from the documents that the models contain and no run is spent on:
an undecodable id makes a request a notification (`server.cpp:61`); `!`
has precedence -1, so `!x;` is rejected (`parser.cpp:156`); compound assignments have no
precedence, so `x += x;` is rejected (`parser.cpp:347`); `true`, `false` and `nil` are
identifiers (`lexer.cpp:22`) and any other keyword is accepted as an operand
(`parser.cpp:185`); a number may end in its dot (`lexer.cpp:110`) and a string may never be
closed (`lexer.cpp:137`), where `docs/grammar.ebnf:49` and `:50` want a digit and a quote (the
run `lexer` shows both, by way of `LongestMatch`); block comments are not
recognized (`lexer.cpp:58`); a type that is still `Unknown` is lowered to `void` and a
function's to a generic type `fn` that no C++ declares (`lowering.cpp:25`).

## Proofs

What is proved holds for every value of the constants, that is for all payloads and
frames, texts, alphabets, streams of tokens, programs and modules, of any number
and size. The assumptions are those the modules state on their constants, which
TLC evaluates in every run: that bounds are natural numbers, that the inputs are of the
kinds the code takes, that markers (`NoName`, `Block`, `Undefined`) are none of what
they mark, that the lexer's classes of characters are disjoint, and that the
texts the code itself writes are strings. What a theorem assumes beyond that is
said below.

| Component | Theorem | States |
|---|---|---|
| Server | `TypeCorrect` | types |
| | `RepliesCorrect`, `ExitCodeCorrect` | `RepliesMatch`, `ExitCodeContract` |
| Framing | `TransportTypeCorrect` | types |
| | `DeliveredInOrder` | `DeliveredIsPrefix` |
| | `FramingIsInvisible` | `ImplementsServer`, the refinement |
| | `FramedRepliesCorrect`, `FramedExitCodeCorrect` | the server's contracts behind the framing |
| Lexer | `LexerTypeCorrect`, `LexerPreservesSource` | types, `SourceIsPreserved` |
| | `LexerTakesLongest` | `LongestMatch` |
| Parser | `ParserTypeCorrect`, `ParserHoldsEveryNode` | types, `EveryNodeHeldOnce` |
| | `ParserNestsSpans` | `SpansNest` |
| Analyzer | `AnalyzerTypeCorrect` | types |
| | `ParametersStayScoped`, `SignaturesStayInStep` | `ParametersAreScoped`, `SignaturesInStep` |
| | `AcceptedVariablesHaveOneType`, `AcceptedReturnsHaveOneType`, `AcceptedFunctionTypesResolve` | the three `Accepted...` properties |
| Lowering | `AcceptedSignaturesAreLowered` | `AcceptedTypesAreLowered` |
| Optimizer | `FoldingTypeCorrect` | types |
| | `FirstPassFoldsAll` | `OncePassedIsFolded`, an action property |
| | `FoldingKeepsMeaning` | `MeaningKept` |
| Pipeline | `PipelineRunsPasses` | the passes, with the backend beside them, are the passes |
| C++ backend | `PipelineDeclaresTypes` | `TypesAreDeclared` |
| | `PipelineIncludesWhatIsUsed` | `HeaderIncludesAreUsed` |
| | `PipelineDeclaresNames` | `BodiesAreDeclared` |

The inductive invariants are theorems, too: `SessionInvariant`, `ParserInvariant`,
`WalkIsStructured`, `AcceptedProgramsAgree`, `FoldingIsSettled`. `PROJECT.json` says what each
establishes.

**Server.** The inductive invariant is `SessionInv`. Beside the types and the two
contracts it says that `shutdown_received` holds exactly when a shutdown request
was taken (else the status of a later exit is not determined) and that a
running server was not asked to exit (else it might take more). `ExtractPlain` and
`ParsePlain` show that the textual search agrees with JSON-RPC on plain payloads and
`HandledAsOwed` says what each handler does in those terms. The contracts assume
`PlainPayloads`: in each payload a key stands in the outermost object once, before any
nested occurrence and any string spelled like it, with a value that can be
decoded. Violation 2, in both its forms, and the undecodable id are what happens
without it.

**Framing.** `StreamInv` says that, while all frames are well-formed, there are frames
`fs`, places `start` where each begins in the whole stream and a number `r` of units
taken such that what lies ahead of the reader is what those frames hold from `r` on
(`OnStream`), the log has the payload of each frame whose body is written
(`Written`), and the reader is where its phase says: `h` header lines into a frame with
the length the last of them gave, at a body with the right length, at a trailer with
the right payload, or stranded behind a stream cut there (`Reading`). It is an
existential, so each step names the layout of the next state: the same one,
or with a frame or a unit more. The reader's code never sees `fs`; that what it counts
is where they lie is the whole proof. `FramingIsInvisible` follows step by step: reading
headers and bodies are stutters, the end of a trailer is `Serve`. The server's
contracts are carried over it by instantiating `LspServerProofs` (`Session`), with the
restriction to `PlainFrames` and to `faulty = 0` that the abstract server has no word
for.

**Lexer.** `Accounted` says that the pieces (trivia and tokens in the order they are
handed out) lie in the text one behind the other and that every character before
the lexer's position is in one of them or was passed, as white space or in a comment
that is not captured. The two places where the code loops to an end, in a string
and in a symbol, are recursive functions; that they end in the text is shown from a
last place where they would not. `FlattenSeq`, which the property uses, is recursive
in the library, and `SequenceLemmas` says what it does with one sequence more.
`LongestMatch` compares each token with every longer piece of text that begins where
it does. A word or a number ends before the first character that cannot go on
with it, and with that character no longer piece is one; a number that ends in
its dot is one character longer than the longest the grammar has. A symbol grows while what
it has with one character more is a compound; that this finds the longest needs
the table of compounds to be closed under taking the last character off, which it
is (`CompoundsBegin`). For strings the code remembers whether the last character was
an escape, where the definition asks whether a quote has an odd number of
backslashes before it; `EscapedSteps` shows character by character that the two agree,
hence that the first quote that closes the string for the one does for the other. The
assumption on the alphabet is that a character of the table, a quote or a backslash
is neither letter nor digit nor space.

**Parser.** `ParserInv` is about the C++ call stack: a frame is `Settled` when the nodes
its rule needs at the place it is at are there, made in this parse, and those it
has still to get are not; all but the innermost frame are `Waiting` where the code
takes a result. Without the second a node might be returned to a `let` that is still
at its name. `Balanced` counts: the lengths of the children of all nodes, of what the
calls have still to put into the tree and of what is being returned add up to
the number of nodes, and their ranges to the set of nodes. Nearly every action
makes no node and keeps those the innermost call holds with it or returns them
(`HandedOn`, `GivesBack`), or makes one node of all it holds (`PutTogether`); that each of
these keeps the count is shown once. Pushing a statement into a block's
children (`CollectStatement`) is shown by itself. The
property is void once a parse has failed or has read freed memory (violation 5), and
so is the theorem.

`SpansNest` speaks of nodes in the tree and says nothing of those that calls hold, so it
is not inductive. `Nesting` adds these: each call in progress has a stretch of the
tokens to itself, behind those of its callers; the nodes it has still to put
into the tree stand in its stretch, in the order it took them; what has just been
returned stands behind them all; a node whose span is written has its children in
a row within it; and the children of a module or a block that is still open,
whose span is not written yet, stand in the stretch of the call that collects them.
A node made of all a call holds then spans its children because its first token is
where the stretch begins, or where its left operand does. `Balanced` is
needed, too: a child in two places could not be in order in both.

**Analyzer.** `StructInv` holds of every walk. `Nested`: scopes, frames and active functions
are those of the same blocks, which is what makes `pop_scope` and
`function_stack_.pop_back()` drop the right ones. `Met`: whatever is declared has a
node met before, so that a new declaration is distinct from all. `Owned`: no node
is a parameter of two functions or twice of one, nor the variable being bound; a call
that writes to parameters then changes one signature only. `Recorded`: the history
has known types only. `Agreement` is what holds as long as the program is accepted:
a declaration's type is the one known type it was given (`SeenAgree`), a signature's
return type is all that was ever returned and yielded (`YieldedAgree`), what an active
function has inferred is what its signature shows (`ActiveAgree`: a return
overwrites the one by what it unified with the other), and no type still in use
refers to a function without an entry (`AllResolve`). `SeenAgree` alone is not inductive:
an assignment of a function's result writes what the signature says at the time.
The `Accepted...` theorems assume `Watching`, that the two codes that reject a
program are among those the model keeps; the constant exists so that a run can
leave the others out.

**Lowering** is a function of the analyzer's state, so its theorem is `Agreement` and a case
for each type.

**Optimizer.** `TableInStep`: the table holds, for each name, the value of the last
constant with that name among the instructions passed in this function, or none. `PassedIsSettled`:
what the first pass has gone through, and everything from the second on, would be
folded no further. Hence `FirstPassFoldsAll`. `FoldedIsFaithful`: each instruction is as
it was given, or a constant with its old name whose number is what was computed
there, if anything was. `FoldedIsFaithful` is not inductive without the table, because
a folded operation takes its operands from there. What fits a type of C++ does
not wrap around in the pass, so the host's number is the program's wherever it
has one. That faithful code gives every name its old number, and its old value where
the constants also have the old types (`FaithfulValues`, over `Agrees`), is a statement about a
recursive function over the lines; the theorem takes the first line where it fails. `Pipeline` conjoins the
backend's steps with the passes' or leaves their variables alone; `PipelineRunsPasses`
says that its behaviours are behaviours of `ConstantFolding`, so that what is proved of the
one holds in the other.

**C++ backend.** `FilesAreMade` says for each phase what the files consist of: which
includes were collected, and that a header or a source, if asked for, is its
includes, its structs, its declarations or its definitions, in that order, of the
module as the passes have left it. This is the invariant; the module no longer changes once the
backend has begun (`phase # "idle" => pass > Passes`), or a header and a source of
the same module could disagree. What remains is about these files. Every name
`type_to_string` writes is a part of a type that `collect_includes_for_type` visits, although
the one goes into the arguments of structs only and the other into those of any
type (`WrittenIsVisited`): no other type of the IR has arguments. Its
proof goes level by level through the arguments and takes the first level where it
fails. `BodiesAreDeclared` also needs `LinesKept`, that each line of a function after
the passes is the line given, or a constant with its result: folding then takes uses
away and leaves what is declared. The assumption on the input is
`TypesAreTyped`: types are those the IR's constructors make, nested no deeper than
`TypeDepth`, which is any number.

TLC had the inductive invariants first, as invariants of the runs' instances:
`StructInv` and `Agreement` on the 1 995 571 states of `analyzer`, `TableInStep` and
`PassedIsSettled`, `FilesAreMade` and `LinesKept` on the 614 036 states of `pipeline`, `Settled` and
`Waiting` on 30 000 states of `parser` with shorter streams and `Nesting` on 37 002 of them.

Induction over data has no rule the provers can use. Where a proof needs one it
takes the set of counterexamples, by `WellFoundedInduction` a least element of it
(`FirstOf`), and refutes that.

Only model-checked:

* liveness (`EventuallyAnswered`, `EventuallyReturns`, `EventuallyLexed`, `EventuallyDone`), which
  the prover has no rules for;
* `FaultsAreContained`, which is about the frames of the run and not true of all: what
  an editor writes behind a body is arbitrary there, and could hold whole frames of its own;
* `TreeSpellsTokens` and `ParsesTheGrammar`: `Grammar` derives trees with `RECURSIVE`
  operators, which keep it from the prover, and what they derive is known by
  induction over the tree only.

## Not modelled

The command line, the plugin list, the version, the printers and dumps are constants,
appends and formatting. Of the analyzer: malformed nodes without children, and a
second `analyze()` on one object. Of the server: how JSON text is decoded within one
value, and writing replies piecewise. Of the lexer: characters beyond their
classes, and a trivia's text, which is its span's. Of the parser: the depth of
the host's stack and the wording of exceptions. Of the backend: the namespace, file
and field names, comments and layout. Lowering gives functions without bodies, so
what the passes and the backend are run on in `pipeline` are modules built
by hand, as in the repository's tests.

## Plan

1. Proofs: `FaultsAreContained` for frames whose trailers hold nothing but line ends, with
   `StreamInv` weakened to the frames before the first ill-formed one.
2. An analyzer used twice, with a walk that an exception cuts short.
3. The parser and the analyzer as one: the trees of the one as the walks of the
   other.
