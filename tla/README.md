# Cortex front end in TLA+

Models, model-checking runs and machine-checked proofs for the Cortex compiler front end
(`src/src`): a single-threaded C-like program that lexes a source file, records its struct
types in a first pass over the tokens, parses a struct in a second pass and prints the tree.

## The system

`main` (main.cpp 18-37) runs everything, once, in this order:

    read_file -> Lexer::create (all tokens) -> new_ast: pass 1, record_types
              -> toki and current reset -> parse_struct_decl(ast, nullptr): pass 2
              -> pp_node -> print known_types

Nothing runs concurrently and nothing is persisted. What is hard here is sequence and
recursion: mutually recursive parse functions that share one cursor (with a cached copy of the
token under it) and hand each other minimum precedences; two hand-written parsers of the same
structs that must agree; a hash table that probes, reuses tombstones and rehashes; an arena
that never frees; scopes; and the undefined behaviour of a young code base.

| Component | State | Operations | Interacts with | What makes it correct |
|---|---|---|---|---|
| Lexer (lexer.cpp) | buffer, position, current token, tokens | `create`, `next_token`, the literal scanners, keyword lookup | fills `Ast::tokens`, once, before the parsers | every character in one token, in order, `TOK_EOF` last and only there |
| Token cursor (ast.h 374-446) | `tokens`, `toki`, `current` | `next_token`, `skip_token`, `advance`, `match`, `get_token` | read and moved by every parse function | `current` is the token under the cursor; the cursor stays on the tokens |
| Expression parser (parser.cpp 99-414) | the C++ call stack, `node_pool`, the cursor | `parse_expr`, `parse_precedence`, `parse_unary`, `primary` | called for lengths, initializers and (statements) conditions | precedence and associativity, one owner per node, tree = text, bounded recursion, it stops |
| Declaration parser (parser.cpp 416-597) | `type_pool`, the locals of three functions | `declspec`, `parse_var_decl`, `parse_const_var_decl`, `parse_inferred_var_decl` | calls `parse_expr`, called for fields | the type has the shape of the declarator |
| Two-pass front end (ast.cpp 6-19, parser.cpp 685-803) | `known_types`, `symbols`, cursor | `new_ast`, `record_types`, `record_struct_decl`, `parse_struct_decl` | declaration parser, symbol table | full names registered once, in order; the passes agree; it stops |
| Statement parser (parser.cpp 599-683, 805-868) | cursor, nodes, its activations | `parse_stmt`, `parse_block`, `parse_if`, `parse_while`, `is_declaration`, ... | calls both parsers; nothing calls it from `main` yet | the tree has every part of the text at its place; an else belongs to the nearest if; the parser finds what the lookahead promised; it stops |
| Include statement (parser.cpp 70-97) | cursor | `parse_include` | nothing calls it | - |
| Symbol table (ast.h 128-183) | a stack of maps | `enter_scope`, `exit_scope`, `declare`, `lookup` | HashMap below, `record_struct_decl` and `parse_struct_decl` above | a name means what its innermost declaration says; scopes nest |
| Hash map (cortex_map.h 34-162) | buckets, capacity, `used` | `get`, `put` (with `rehash`), `remove` | symbol table | it is a map; a probe always ends; a put returns |
| Static hash map (cortex_map.h 164-299) | fixed buckets, `used` | the same without rehash | keyword table of the lexer | as above, until the watermark, where it exits |
| Arena (cortex.h 826-892) | mmap blocks, offset | `alloc`, `dealloc` (nothing), `deinit` | the pools of nodes and types, the lists of nodes, scopes | allocations lie in their block and never overlap |
| Strings (cortex.h 909-1120) | pointer, length, capacity, the heap | append, grow, copy, move, `operator+`, `destroy`, `reset` | paths of struct names, messages | each String has its own text in its own block, and C functions read that text |
| Containers (cortex.h) | pointer, length, capacity | `DynArray`, `StaticArray`, `Stack`, `Option`, `Result` | everywhere | indices within the length, growth that is enough |
| Pretty printer (pretty_print.cpp, ast.cpp 21 ff.) | none | `pp_node`, `to_str`, `Node::deinit` | walks the tree | prints the structs and fields of the text, in order |
| Files, main (cortex.h, main.cpp) | none | `read_file`, argument check | - | I/O only |

`PROJECT.json` lists the hazards of each part with the line where they bite.

The snapshot does not compile as it stands (a copy of a `const char*` at parser.cpp 550, a union
with non-trivial members); where a line cannot be read literally the model takes what it evidently
says, and nothing checked here depends on one of those lines.

## The modules

    Tokens <- ExprParser <- Declarations <- Printer <- FrontEnd    what main runs
                                 Declarations <- Statements         what will call it later
    KeyMap <= HashMap    ScopedView <= SymbolStack    Text <= Strings    abstract <= detailed
    Arena <- Pools          Lexer
    MC<Module>                  instances for TLC
    <Module>Proofs, MinMax      theorems (ParserProofs: Declarations and Statements,
                                TableProofs: HashMap and SymbolStack)

Definitions keep the names of the code. A definition whose name ends in `_slip` is no part of the
model: it is the definition that follows it with one plausible bug (a dropped test, an off-by-one,
a missing reset). Putting it in the place of the real one must make TLC find a violation; each
property has one (`mutants` in `PROJECT.json`), so none holds whatever the code does.

**Lexer.** One action per scanner of `next_token`; a scanning loop is one step, to where it stops.
Characters are classes (`"a"` is any letter, `"0"` any digit) and operator characters; a token is its
kind and its piece of the text. A character literal without a closing quote reads on behind the
buffer: it finds a quote there or crashes. `EofLast` is what `ExprParser` assumes of its input.

**Tokens.** Tags, the tables `get_precedence`, `is_right_associative`, `token_to_binary_ast_kind`
and the literal cases of `primary`. A token is its tag and its index: no property needs the text.

**ExprParser.** `parse_precedence`, `parse_unary` and `primary` with their recursion made
explicit: `stack` holds one frame per suspended activation (where it resumes, its `min_prec`,
operator token, `lhs` and arguments so far), `ret` is the pointer the last call returned, `pc` what
the innermost activation does next. There is one action per branch of the code: `PrimaryLiteral`,
`PrimaryGroup`, `PostfixMember`, `PostfixCall`, `TakeOperator`, `LeaveLoop`, `NextArgument`,
`CloseIndex` and so on, among them the ways to go wrong: `ExpectTokenFails` (print and `exit(1)`),
`IndexMissing` (`expect_expr` dereferences the null pointer it is about to report: a crash) and
`PrimaryNone` (no expression: a null pointer, which the callers mostly pass on).
`pool` never forgets a node, as the arena never frees.

**Declarations.** Adds `types` (`type_pool`) and the four declaration functions. The lengths of
arrays and initializers are parsed by real activations of `ExprParser`, which return into
`CloseArray` and `Initialized`. `declspec` is modelled by the set of flags it ORs together.

**FrontEnd.** Adds `known_types` and `pass`. `new_ast` is the reset between the passes; pass 1 is
`record_types` / `record_struct_decl`, which recurses through `RecordNested` with the prefix that
`next_prefix` computes; pass 2 is `parse_struct_decl` with all its returns. A name is a sequence of token
indices and dots. The keys of the symbol table are views of a string that is freed when
`record_struct_decl` returns, and `Option<Symbol>` assigns to memory no constructor ran on, so a
lookup in pass 2 may find, miss or crash: `LookupFails` is the crash, and no property relies on the
outcome. `main` ends by printing the tree.

**Printer.** `pp_node` as a function from a node to the nodes it prints a line for, in its order; what a
line says is left out. `Below` is what it follows: of a call only the arguments, of a struct the
fields before the structs inside. It crashes where it asks a declaration without a type for the
name of its type: a struct with a member whose struct was refused.

**Statements.** `parse_stmt` and all it calls, with the recursion explicit as in `ExprParser`: a
frame holds the node that `parse_if` or `parse_while` fills, or the list of `parse_block`.
Conditions, initializers and lengths are real activations of the modules below. `parse_for` and
`parse_switch` return null and consume nothing (`parse_for_or_switch`), so a block is stuck at
them. `is_declaration` is the lookahead of the code; `NamedDeclaration` does not consume a
semicolon, because `parse_stmt` returns what `parse_var_decl` returns.

**HashMap / KeyMap.** `put` is a sequence of steps, one per iteration of the loops of `rehash` and
`ensure_capacity` and one per moved entry; a probe is the least index at which its loop stops; `get`
and `remove` are one step. `KeyMap` is what users expect: a put takes effect once, when it
returns; a remove at once; nothing else changes what `get` says. `IsAMap` is the refinement. The
running put is part of both specifications, so that a put without an effect is no stuttering step.
`StaticHashMap` repeats `get`, `put` and `remove` line by line on a fixed array: with `fixed` the
same actions are its actions, except that a put at the watermark ends the program (`PutExits`).

**Strings / Text.** A heap of blocks and the `String` variables on it. A call is one step, computed
as the code does it: destroy, grow, write, terminator. The byte behind a block is part of the
block, for one call can write there. A block that was freed is gone, its address is used again; a
block that no variable points to is a leak. `Text` is what users expect, variables with texts.

**SymbolStack / ScopedView.** The scopes as a stack of maps, and `lookup_at`, the loop of `lookup`.
`ScopedView` has no scopes, only what every name means in each open view: entering copies the
innermost view, leaving drops it, declaring changes one name of it. `call`, the call made last, is
in both for the same reason as above.

**Arena / Pools.** `alloc` in `usize` arithmetic modulo `Word`; a pointer is a block and an offset.
`Pools` puts on top of it the `DynArray`s that share the arena of the `Ast`: `append`, in place or, when
`capacity <= len + 1` and `ensure_capacity` agrees, into a new allocation; the writes that the parser
makes through the pointers of `new_node` and `new_type`, at any later time; and `move`, with which a
finished list of arguments or statements goes to its node. `mem` has what every written byte holds, so
that two arrays, or two generations of one, that overlap read wrong values. `Arena`'s own next-state
relation, calls of any size, is what `ArenaProofs` is about.

## What the runs check

| Run | Instance | Shows |
|---|---|---|
| `lexer` | all texts of 3 of 15 character classes, of 4 of 5 and of 5 of 6 and 5 others; 82,083 states | `TokensTile` (nothing lost, nothing read twice), `LongestMatch`, `EofLast`, `LocationExact` (line, column and start of the line, counted anew from the text), `LexerStops` |
| `expr_parser` | all texts of up to 3 of 12 tokens, 625 chains of 4 operators from 5 levels, some 570 nested texts; 36,568 states | `OperatorsBind` (precedence, associativity, and prefix operators tightest) and its inductive strengthening `CallChain`; `CursorSound`; `DepthBounded` (recursion at most twice the tokens consumed); `SingleOwner`; `TreeKeepsTokens` (without a diagnostic the tree has each operand and operator of the text once, in order); `StopsOrStuckInArguments` |
| `front_end` | some 970 texts: pairs of declarations in a flat struct, qualified pointers and lengths that are missing, nested and anonymous structs three deep with everything that may follow them, refused texts, texts cut off at every token; 30,808 states | `RegisteredNames`; `PassesAgree` (fully for structs without nesting); `FieldsPrinted` (the structs and the fields that pass 2 read are printed once, in the order of the text; which lines belong to which struct is not checked, and fields behind a nested struct are exempt, as pass 2 drops them); `DeclaratorShape` (layer by layer, the type is what is written around the name: flags of all words, `const` and `static` on each star, each length from its own brackets); `FrontEndStops` |
| `statements` | every pair of 18 statements in a block, an if and a while, ifs with and without else three deep, broken statements, the block of test/var_decl.c12 cut off at every token; 279,861 states | `TreeKeepsLiterals`, `ElseToNearestIf`, `StatementsTerminated`, `LookaheadAgrees` (a declaration that `is_declaration` let through is refused before its name only for `a.*b`), `StatementsStop` (except at a `for` or `switch` in a block) |
| `hash_map` | 3 colliding keys, 2 values; a `HashMap` with initial size 1 and growth +1, and a `StaticHashMap` of 5; 77,770 states | `EveryEntryFound`, `NeverFull`, `IsAMap`, `PutReturns` |
| `strings` | 2 Strings, texts of up to 3 of 2 characters, blocks of 2 and 7 bytes; 58,373 states | `IsText`, `Terminated` (only zeros behind a text in its block, also where no terminator is written, and at least one behind a copy); with its types, that what leaks is empty |
| `symbol_stack` | 2 names, 2 symbols, 3 scopes; 1,273 states | `IsScoped` |
| `arena` | the pools of nodes and types and two lists, elements of 1 and 2 units in blocks of 16, arrays of 1, 3 and 8 elements, six appends; 973,522 states | `AllocationsInBlock`, `AllocationsDisjoint`, the memory of an array is an allocation of its capacity, `NothingLost` (every pointer a pool ever returned, and every list, reads what was last written, though pools move) |

Each passing run also checks the type invariant of its module; those of the parsers include that the
cached token is the one under the cursor.

Four runs check a sentence of the repository that the code does not keep; TLC finds each violated:

| Run | Sentence | What the code does |
|---|---|---|
| `append_char` | "at least enough space for `elem` and `null`" (cortex.h 1039) | with one byte free `ensure_capacity(len + 1)` does nothing: the character takes the byte and the terminator goes behind the block |
| `anonymous_prefix` | "If the parent has a name, pass it down with a dot. Otherwise, pass nothing." (parser.cpp 715) | a `String` made from `""` has capacity 8, so it is not `empty()` |
| `line_of_asserts` | "assert(line_start < self.buflen)" (lexer.cpp 50) | for an unclosed string in a text that ends with a newline, the diagnostic fails this assertion |
| `arena_oversize` | "no enough space in this block" (cortex.h 871) | the new block has `block_size` bytes however many were asked for; the node pool's third array (78 nodes in one piece) is larger than 8 KB |

Some behaviour that no sentence of the repository speaks against is part of the models, and the
properties say exactly where it shows:

* A declaration that starts with the name of a type leaves its semicolon, which becomes a null
  statement of the block and takes away the else of an `if` before it (`StatementsTerminated`).
* `T **p;` is parsed as an expression: the lookahead takes one `*` only. `a.*b;` is refused: the lookahead
  skips the `.` with the name before it, `declspec` wants another name behind it (`LookaheadAgrees`).
* A length that is no expression (`int x[a.];`) is reported and gives an array without one (`DeclaratorShape`).
* A prefix operator, a group, a member access, an index, an assignment and `null` print nothing,
  nor does anything below them (`PrintedTags`).
* `f(,a)` puts a null pointer in the argument list; `a[]` dereferences one before it is reported.
* The flags of `declspec` are ORed together, so `long long` is `long`, and `void` is `unsigned`.
* `append(String&)` may fill a block exactly and writes no terminator then; growing an empty String
  leaks its block (`Terminated`, `TypeOK` of `Strings`).
* `record_types` steps over `TOK_EOF` and copies whatever lies behind the last token; `new_ast` puts the
  cursor back before anybody looks at it (`FrontTypeOK`).

### Bounds

* The parsers have no bound on steps: an input is a finite text and the runs follow it to the end.
  What is bounded is the set of texts. Three tokens reach every branch of `primary` and every exit;
  four operators from five levels have every pair and triple of levels, equal ones included, in
  every order, which is what associativity is about; the nested texts put every small expression,
  the empty and the broken ones too, at every place of a larger one. The proofs below cover all texts.
* Texts for the lexer are exhaustive up to three characters, which every operator with the character
  behind it fits in; the longer ones are for strings, comments and literals around ends of lines, and
  for runs of operator characters.
* The statements of the pairs cover every case of `parse_stmt` and both outcomes of `is_declaration`
  for each form of declaration; two levels of nesting put each of the five returns of a body behind
  each other, and the third level of `if` is what "the nearest" is about.
* `BlockAppend` stops adding to a list at the length of the text, which no list that makes progress
  reaches: it lets TLC see the loop at a `for` come back to where it was.
* The hash map scales `INIT_SIZE` from 16 to 1 and the `+ 8` of the growth to `+ 1`, so that three
  keys meet arrays of 1, 3 and 8 entries: collisions that wrap around the end, rehashes with
  tombstones, rehashes that double the size and ones that keep it. The watermarks are the code's. The
  static one has `FixedCapacity = 5`: four entries before the watermark, one key put again among them.
* The strings scale the `+ 8` of the growth to `+ 2`, so that texts of at most `MaxLen = 3` characters
  start in a block of 2 bytes, fill it exactly, miss it by one and outgrow it; `MaxBlocks = 3` leaves
  room for two variables and a leaked block.
* Three scopes have an innermost, an outermost and one between; two names tell "this name" from
  "another".
* The arrays of the arena scale the `+ 8` of the growth to `+ 1`: arrays of 1, 3 and 8 elements, so
  that each moves twice and the node pool's third array fills a block of 16 exactly. In
  `arena_oversize` the block has 8 units, as 8 KB are too few for 78 nodes. `MaxAppends = 6` is enough
  for one array to move twice with others growing between; `MaxAllocs`, which bounds `Arena`'s own
  calls, guards no step of `Pools`.
* `MaxAppends`, `MaxScopes = 3`, `MaxLen` and `MaxBlocks` are the only counters with a bound in a guard.

### Fairness

The lexer and the parsers run under weak fairness of their whole next-state relation: the program is
sequential and nothing but a crash or an exit, which are states of the model, stops it. The hash map
is fair in `Continue` only: a call that runs goes on, but nobody has to make one. The arena, the
symbol table and the strings have safety properties only.

Deadlock is off for the lexer and the parsers, which stop when the program does, for the hash map, whose
static form ends the program, and for the arena and the strings, which stop at their bounds. The symbol
table always accepts another call.

## What is proved

TLAPS checks the following for every value of the constants.

**Expression parser** (`ExprParserProofs`, for every set of token sequences that end with their
only `TOK_EOF`; that is `InputsAssumption`). `TypeCorrect`, `CursorIsSound`, `CallChainHolds`,
`PrecedenceIsRespected`, `UnaryIsTightest`, together `OperatorsBindRight`, and `DepthIsBounded`. Precedence is not inductive as it
stands: that the operands of a node bind tightly enough follows from the `min_prec` with which they were
parsed, calls earlier. The invariant therefore says, besides types and the cursor, that

* the call stack is a chain in which each activation was called with the minimum its caller
  computes (`StackShape`);
* a suspended `TakeOperator` holds a left operand its operator may take (`FrameSound`);
* a returned expression is at least as tight as its caller's minimum, and the token behind it is
  none its right operand could still have taken (`ReturnSound`).

`IndInv` is the conjunction with `NodeSound`, `PrecedenceRespected` and `UnaryBindsTightest`, all
of which the run checks as well. `TypeStep`, `CursorStep`, `ShapeStep` and their companions prove
that each action keeps one conjunct; `DepthBounded` is a second induction on top of `IndInv`.
`OperatorsHaveNodes` shows that the `exit(1)` of `token_to_binary_ast_kind` is unreachable.
`EachNodeHasOneOwner` is a third one: every place that can hold a pointer (a kid of a node, a register or a
list of an activation, the result) is listed, and an action moves a pointer from one place to another, drops
it or makes a new node, so that no two live places ever hold the same node (`SingleOwner`).

`TreeKeepsTheTokens` is the correctness of the parser: for every text, a tree that comes without a diagnostic has
each operand and operator of the text once, in the order of the text. The equation of `TextInv` (checked by TLC on the states of
`expr_parser` before it was proved) holds as long as there is no diagnostic: what the suspended activations hold, from the bottom of the stack to
its top (`StackText`: an operator and its left operand, the arguments so far), followed by what the node in hand
yields (`HeldText`), is `Operands[toki]`, the text read so far. An operator that is taken moves tokens from the node in hand to the
stack, a return moves them back (`PushText`, `HoldText`, `PopText`, `AgainText`, and one lemma per group of actions). Two things make it
hard. An argument list of the model keeps at most as many arguments as there are tokens, so the proof must show that
a list that makes progress stays below the bound: each of its arguments has used up a token (`ArgumentsMove`), but for
the one at the cursor (`Fresh`). And a list that asks for a missing argument without moving never comes back: its
states are `Looping`, and no step leaves them (`LoopCloses`); that nothing else is missing without a diagnostic is
`NothingThere`. `Yield`, `Operands` and `FlattenSeq` are defined by `CHOOSE`: that such functions exist, are unique and
stay what they were when the pool grows (`YieldExists`, `YieldSame`, `OperandsStep`, `FlattenIs`) is again shown on the least
place where it would fail.

**Statement parser and front end** (`ParserProofs` and, for the two passes, `FrontEndProofs`, for every set of
token sequences). `StatementTypeCorrect` and
`FrontTypeCorrect`: what the run of the statements and the run of both passes check on a few texts holds for
all. The parsers call each other, so one invariant `ParserInv` is about frames of all kinds on one stack:
who may have called whom (`CallersOf`), what a suspended activation relies on when it is returned to (`HeldFor`:
its operator is one, the node it fills is in the pool and of its kind), and that `pc` belongs to the
activation on top (`TopOK`). Each action keeps it for any caller, so that `ExprStep` and `DeclStep` serve both
machines; `StmtStep` and `FrontStep` add their own. `FrontInv` adds the one place where the cached token is
not the one under the cursor: what `record_types` leaves behind. `LookaheadAndParserAgree`: `NameInv` carries what
`is_declaration` saw from its call through the loops of `declspec` to the declarator, so that a refusal on the way
leaves only the separator it skipped; that the recursive function
which models the lookahead has the values it is given (`NameEndStep`) is proved by a least element again.

`StatementsEnd` needs more of the stack: which declaration is `Bare`, called by a body of a block itself and not from
behind a `semicolon` frame, and that the type such a declaration is building is derived from a name (`EndInv`,
checked by TLC on the run of the statements before it was proved). "Derived" is said without recursion: a set of
types closed under `base` whose ends are names (`NameBelow`), which an older list of types keeps when it grows
(`NameStays`, `NameDerived`). The property speaks of `Layers`, a recursive function of the types made so far. That it
exists (`LayersExist`) and that the innermost layer of such a type is a name (`NameInnermost`) are both shown on
the least type for which they would fail: a base is always older. The lemmas `Above...` say what a call, a return and
a return that calls again leave of the stack; `ExprAbove` sums up every action of the expression parser.

`ElseBelongsToNearestIf` relates the call stack to the text. `Excess` counts how many more ifs than elses stand
between two tokens at one depth of braces, `OpenBraces`. The invariant `ElseInv` (checked by TLC on the states of the run of the
statements before it was proved) says that every activation on the stack has read a stretch in which no brace stays open
(`Inside`; a block, just its own) and each if, but the one that still awaits its else, has met one (`Paired`: from
no later token on do the ifs outnumber the elses). The hard state is the one between the return of a body and the look at the
next token (`Unpaired`): a body that ended in an if without an else leaves that if over, which is harmless exactly
if no else follows; so `Paired` is claimed of the activation on top only where `current` is an else or the body
is not done. Stretches are joined by `PairedJoins` and `ExcessAdds`; a block is made whole by its closing brace
(`BlockWhole`). The parsers of expressions and declarations read no such token: `MovesPlain`, `ExprMoves` and
`DeclMoves` show it of each of their actions. `ElseShape` turns counts over the text into `Balanced` and `Beside` of the model.

`PassOneRegistersNames` relates the call stack of pass 1 to the braces of the text. `Scopes[n]` lists the structs whose
braces are open before token n, by their full names; `ScopesHeld`, the heart of the invariant `NamesInv`, says that the
activations of `record_struct_decl` lie at the bottom of the stack and are these structs, one for one and with
these names, and that the one about to start has been given the prefix of the innermost. That the names registered are
all there are needs two more facts: a name behind a `struct` is never left unread, so that it is not counted late
(`NameRead`), and the declarations of fields, whatever their expressions, read no brace and no `struct` (`FieldsPlain`,
from `ExprMoves` and `DeclMoves`). A nested struct is entered under its own name and left to the scope around it
(`ScopesEntered`, `ScopesLeft`). `Scopes` and `StructNames` are functions defined by recursion over
the text; `StepFunction` shows once, by a least counterexample, that such a function exists.

`PassesReadTheSame` compares two runs of the parsers over one text, but an invariant sees one state. So `Course` is what
decides how a parser goes on, said in the words of pass 2 for both passes: the cursor, what is to be done, whether
a node came back, and of each activation its place and its minimum (`Place` renames those of `record_struct_decl`).
`After` is the step as a function of the text and the course alone. The long part (`Goes...`, then `Steady`) shows that every action
of either pass takes its course to `After` of it, but for what pass 2 does behind a nested struct. What pass 1 has done is
then kept as a set of courses closed under `After` (`Leads` while it runs, `Complete` once it is through:
`Accepted`), none of which is a refusal. Pass 2 starts at the same course, so `Along` says that its course is
in that set: it cannot be refused. This needs no bound and no count of steps, and holds for any nesting until
`parse_struct_decl` returns early from the struct around a nested one. From there on (`Early`) pass 2 only returns, and
pass 1 was at that token as well, behind the nested struct or behind a field named after it
(`Behind`): it has refused every name there that is not followed by a semicolon (`NameBehind`), so pass 2
never sees an initializer. Without nesting there is no early return: `OneStruct` says that one activation
of `parse_struct_decl` lies under those of its fields and that no closing brace was read yet (`InBody`), so the first one
ends the pass. `Scopes` serves again, to show that no other struct begins inside. `PassInv` joins the two; a text that does
not begin with a struct is left to the type invariant.

**Lexer** (`LexerProofs`, for every text without a null character). `TypeCorrect`, `TextIsTiled`,
`TokensAreLongest`, `LocationIsExact` and `EofIsLast`; the last is `InputsAssumption` of the expression parser. The
scanners are sorted by what they do (`ScannerSteps`): add a token from the position on, skip blanks, skip
a comment, end, or stop. `TokensTile` is not inductive: a token added later could begin between two
slashes that no token holds and undo a comment. `Closed` excludes it: two such slashes before the
position belong to a comment that has ended. Where a loop stops is a least element (`MinMax`, used for
the hash map as well); the lines a string spans are counted by `FS_Interval` and `FS_Subset`. For the
locations: the ends of lines before the position never change, a scanner adds exactly those it reads
(`TokenBreaks`, `SkipBreaks`), and `FS_Union` adds up the counts; so the line, its start and the column
stay what a count of the text from its beginning gives, over strings and comments of several lines too.

**Arena** (`ArenaProofs`). `AllocationsStayInBlock` and `AllocationsAreDisjoint` for all block sizes,
words and sequences of calls, under `SizesFit`: no call asks for more than a block. The run
`arena_oversize` shows that the condition is needed. The invariant adds that no block is smaller
than `block_size` and that the offset is clear of what was returned from the last block.

For `Pools` the same module has `PoolTypeCorrect`, `NothingIsLost` and `PoolsShareTheArena`, for any pools,
element sizes, initial capacities and growths, with no bound on the appends but the name of one, as long as no call so far
asked for more than a block (`RequestsFit`, a statement about the calls, not the constants: the real node pool
breaks it, as `arena_oversize` shows). The invariant `PInv` gives every byte one owner: an element of a pool,
the spare part of an array, a list, or nobody. An append writes only into its own spare part or into
bytes that nobody owned; the copies an array leaves behind when it moves stay with the elements whose
pointers were handed out. `Backed`, which the run checks in `PoolTypeOK`, says that the memory of an array is
an allocation of its whole capacity; without it `append` in place could leave the allocation.

**Strings** (`StringsProofs`, for any set of variables, characters and addresses, any bounds on length and blocks). `BlocksAreOwned` (the type
invariant), `TextsAreTerminated`, and `StringsImplementTexts`: `Strings` implements `Text`, so no call on one
variable changes what another one reads. The invariant says that each variable is sound (its length is within
the capacity of a live block, its text is followed by zeros up to the end of what was written),
that a block has at most one variable, that a block without one, a leak, is blank, and that a copy leaves a byte of its
block free (`Ended`). It is per variable, so
that a call has to be shown sound for its own only. The growth loop of `ensure_capacity` is not unrolled: a capacity
is reached by its steps (`Leads`), and all that is needed of it is that it is large enough.

**Symbol table** (`TableProofs`). `ScopesTypeCorrect` and `ScopesNest`: `SymbolStack` implements `ScopedView` for any
names, symbols and depth; one lemma per call, on the fact that a lookup from a scope depends on
that scope and the ones around it only (`SameBelow`).

**Hash map** (`TableProofs`, for all keys, values, hash functions, initial sizes, growths and
watermarks from 1 to 100, and both forms of the table). `TypeCorrect`, `EntriesAreFound`,
`NeverRunsFull`, and `TableIsAMap`: `HashMap` implements `KeyMap`. `IndInv` adds to the types

* `TableReachable`: no probe for a key that is in the table stops before it gets there. Tombstones
  and the wrap around the end are the difficulty: an entry put into a tombstone must not be in the
  way of another key, and a removal must not open a gap (`PlacedReachable`);
* `Counted`: `used` is at least the number of entries that are not empty. With the watermark this
  leaves an entry where a probe stops, because a probe of `capacity` steps visits every slot once
  (`SlotOnto`, `SlotInjective`, `EmptyOnEveryProbe`);
* `Rehashing`: what a put relies on between the steps of a rehash: the new buckets hold exactly
  the entries seen so far, no key twice, and have room for the rest.

TLC checks `IndInv` too, on the instance of `hash_map`. Where a probe stops is the minimum of a set of
naturals; that there is one (`MinIsLeast` in `MinMax`) follows from the library's theorem that the strict subset
ordering on finite sets is well-founded.

Model-checked only: liveness (`StopsOrStuckInArguments`, `FrontEndStops`, `StatementsStop`, `PutReturns`),
which is out of the prover's reach; `TreeKeepsLiterals`, `FieldsPrinted` and
`DeclaratorShape`, which compare a recursive definition with the text (the least
counterexample that serves for `Layers` would serve for the existence of these, but each needs an invariant that
says what the suspended activations still owe the text).

## What is not modelled

Spellings, source locations and the text of diagnostics and of printed lines; the value of a number and
which keyword a word is; file reading (I/O). The values of `Symbol` are opaque. Calls of `malloc` and
`mmap` succeed. Integers are unbounded except for the arena's `usize`: `used * 100` in the hash map
overflows an `int` at 21 million entries, which no source file here comes near.

Code that nothing calls: `parse_include`, whose node keeps the addresses of locals of the function;
`Node::deinit`, which would follow null children; `StringBuilder`, which repeats `String`; `resize` of
`String`; the private `rehash` of `StaticHashMap`. The move assignment of `String` calls itself without
end. `Type::to_str` (ast.h 102-118) returns a pointer into a String that is destroyed on return: what
it prints is undefined, and no property is about it.

The plain containers are sequences in the other models; the growth of a `DynArray` is in `Pools` on the
arena and in `HashMap` on the heap, and the undefined behaviour of `Option` is the crash in `FrontEnd`.
Of `DynArray`, `copy` and `append` of several elements have no caller; they copy `n` bytes where
`n * sizeof(T)` are meant (cortex.h 742-756). `RawArray`, `StaticArray` and `Result` are left out.

## Plan

In this order, the most used parts first; the first fourteen are done.

1. `Tokens`, `ExprParser`: precedence, ownership, cursor, depth, termination; proofs of safety.
2. `Declarations`: the shape of types.
3. `FrontEnd`: the two passes over real texts.
4. `HashMap` with `KeyMap`; 5. `SymbolStack` with `ScopedView`, proved; 6. `Arena`, proved.
7. `Lexer`: tokens tile the text.
8. `Statements` on `Declarations`: blocks, `if`/`else`, `while`, the statements that consume nothing,
   the semicolon that a declaration leaves behind. `Printer` below `FrontEnd`.
9. `StaticHashMap` in `HashMap`; `Strings` with `Text`.
10. Proofs about the hash map, and that it implements `KeyMap`. 11. `Pools` on the arena.
12. Proofs about the lexer. 13. Proofs about the strings and the pools, and of `SingleOwner`.
14. Proofs of the type invariants of `Statements` and `FrontEnd`, of `LookaheadAgrees`,
    of `StatementsTerminated` and of `ElseToNearestIf`; of `TreeKeepsTokens`, of `RegisteredNames` and of
    `PassesAgree`.
15. Next: a proof of `DeclaratorShape`.
