# PocScript: a TLA+ model of the compiler

PocScript is a small language with a compiler in C. The compiler is a pipeline: a
regex-table lexer, a recursive-descent parser with panic-mode recovery, a two-pass
semantic analyzer, an IR builder that lowers the tree to basic blocks, and a printer that
writes LLVM IR. It runs in one thread and keeps nothing between runs but its output file.
What is hard about it is therefore not concurrency but *agreement*: five passes keep
separate notions of the same thing (which loop is innermost, which variable a name means,
which code is reachable, which type an expression has, how long a string is, which token
comes next after an error), and each is right only
if it agrees with the others on every program. That agreement, and the behaviour of the
recovery and failure paths, is what these modules check. Paths below are relative to the
repository's root.

## 1. Inventory

| Component | State | Operations | Hard behaviour | What makes it correct |
| --- | --- | --- | --- | --- |
| Lexer (`src/lexer/lexer.c`) | input, cursor, line, column, token list | `lexerInit`, `lexerScan` | first matching row of the table wins; tokens over several lines; empty matches | nothing lost, longest match, true positions, termination |
| Parser (`src/parser/parser.c`) | current and peeked token, `is_panic`, error list, C call stack | 20 parse functions, two synchronizing loops | panic carried out of a callee; recovery loops; loops that rely on callees to consume | termination, panic confined to a declaration, every error further on than the last, accepted means nested |
| AST (`src/parser/ast.c`) | tree | constructors, free, printing | none of its own | not modelled |
| Semantic analysis, flow (`src/semantic/semantic.c`) | flow state per block, `loop_depth`, `current_function`, errors | `validateFunction`, `validateBlock`, `validateNode` | conservative flow analysis; nested functions | no accepted function falls off its end; only dead code is called unreachable; jumps have loops |
| Semantic analysis, names (`semantic.c`, `scope.c`) | chain of scopes, errors | `collect*`, `createValidationRoot`, `check*`, `validate*` | two walks with different scope trees | duplicates and undeclared names reported exactly; lexical binding |
| Semantic analysis, types (`semantic.c`, `types.c`) | none | `checkExpression` and the `check*` functions, type equality, compatibility | decay, array sizes, error types that pass every later check | what is accepted can be lowered, with the type it was checked with |
| IR builder, statements (`ir_builder_stmt.c`, `ir_builder_module.c`, `ir_builder_utils.c`, `ir_module.c`) | blocks, current block, loop targets, C call stack | one lowering function per statement | blocks filled in another order than created; code after jumps | valid blocks; the code runs as the source says |
| IR builder, scopes (`ir_scope.c`, `ir_builder_expr.c`) | chain of IR scopes | predeclaration, `irScopeDeclare`, `irScopeLookup` | scopes that differ from the semantic ones | code uses the variable that was checked |
| IR builder, expressions (`ir_builder_expr.c`) | values, addresses, emitted code | `irBuilderLowerRValue`, `...LValue`, `...ValueForExpectedType` | failures dropped; lowering tried twice | every call once and in order; operands of the types the instruction takes |
| IR builder, module (`ir_builder_module.c`) | globals, ids, symbols, functions | predeclare, collect strings, lower bodies | three stages give out ids; a string is stored up to three times | every operand is printed with the name of what it means |
| Printer (`ir_printer.c`) | text | `irPrintModuleToFile`, `irPrintGlobal`, `irPrintOperand` | short writes; text that another program reads | initializers, strings and numbers mean what the source means |
| Driver (`compiler_driver.c`, `main.c`) | output file, exit status | one run | failure between open and close; stale output under make | success means whole; failure leaves no fragment |
| Runtime, standard library (`runtime/`) | - | - | programs for the compiler | not modelled |

Interaction: `compileTokensToLlvmIr` calls the passes one after another; a pass that
reports errors ends the run. The tree is the only thing handed on (the IR builder takes
the result of the semantic pass but uses no scope of it), so scopes and loops are
computed anew by each pass.

`PROJECT.json` lists the hazards with their lines, and the properties that cover them. One is not
covered: the result of `fclose` is not looked at (`ir_printer.c:712`), so a run may report success for an
output that could not be flushed. `SuccessMeansWhole` and `UpToDateMeansCurrent` except this fault.

## 2. Modules

```
Statements ------+--> FlowValidation --+
                 +--> Lowering --------+--> Compilation --> CompilationProofs, MCCompilation
                 |       +--> MCLowering
                 +--> StructuredRun  (abstract; INSTANCE in Compilation)
Types -----------> Expressions --> ExpressionsProofs, MCExpressions
Environment (abstract; INSTANCE) --> SymbolTable --> SymbolTableProofs, MCSymbolTable
Globals        --> GlobalsProofs, MCGlobals
Lexer          --> LexerProofs, MCLexer
Parser         --> ParserProofs, MCParser
Driver         --> DriverProofs, MCDriver
NameResolution --> NameResolutionProofs, MCNameResolution
StringLiterals, Numbers --> Literals --> MCLiterals
```

The modules named `...Proofs` hold the theorems of section 4.

**Statements.** A function body as the sequence of items that a recursive walk meets:
simple statements, and opening, `else` and closing items of compound statements. The C
call stack of a walk becomes a stack of records in each module. `else if` is an `else` that
holds one `if`. What belongs together in such a sequence is read off the nesting depth
(`Depth`, `Close`, `Open`, `ElseOrEnd`, `LoopOf`).

**FlowValidation** (`semantic.c:804-994`). One action per node type. The body is not
chosen beforehand: each step takes any next item, so behaviours enumerate all bodies of
at most `MaxItems` items and `MaxDepth` nested blocks. `scopes` is the call stack of
`validateBlock`; `errors` holds kind and item in the order they are appended. Calls are
one action each for the entry to a block and the return from it.

**Lowering** (`ir_builder_stmt.c`, `irBuilderLowerFunctionBody`). `code` maps block ids to
instructions, `frames` holds the locals of pending lowering functions, `loop_targets`,
`current_block` and `block_count` are the fields of the same name. Code of a statement is
one instruction labelled with the statement's item. `MayFail` lets expressions fail to
lower, which makes every caller return false. Nested functions emit nothing: the builder
only lowers top-level ones. `LoweringSpec` lowers any item sequence that the walk could
meet, validated or not.

**StructuredRun** is the abstract specification of lowering: what a body means by its
structure alone, without blocks or branches, as a relation between observable steps
(statement, `for` clause, condition with its outcome, return).

**Compilation** composes the three and executes the emitted blocks the way LLVM does
(external). A rejected body is not lowered (`Accepted`).

**NameResolution** models the three walks that handle names: collection, validation, and
the IR builder (predeclaration, then bodies). A program is a sequence of globals, extern
functions, functions with at most one parameter, blocks (`if`, `while`), `for` headers,
declarations, reads, writes and calls; nested functions too. A `for` header may declare a
variable with an initializer, and has an update, which is an item at the end of the body: it is
lowered there, but checked before the body and found by validation as if it stood there
(`CheckedIn`). `scopes` is the chain that the current
walk keeps; `sem_binding` and `ir_binding` record what each use was bound to. The
reference is lexical scoping read off the program text (`Meaning`).

**Lexer.** The patterns of the table `types` as sets of match lengths over an alphabet
with one character per class the patterns distinguish; `Found` is the first row that
matches, with POSIX longest match inside a row. One keyword stands for all. The operator rows that are kept
are `== >= > -= -> = - /`; the others are ordered in the same way (`<=` before `<`, `!=` before
`!`, `+=` before `+`, `&&` before `&`) or share no first character with another row. A carriage
return is like any other character that no pattern accepts.

**Parser.** Each parse function is the list of steps it takes at the current token
(expect, call, advance, check panic, ...), and the state is the stack of steps still to
do. Tokens are chosen when they come into view (current and peeked), so all token lists
that begin like one of the `Inputs`, go on with its tokens and are no longer than its `max`
are covered. Operators of one kind are one token; braces, comma and semicolon are spelled out
(`"LBRACE"`, `"COMMA"`, ...). The tree is not built;
of it only `isAssignableTarget` matters for control, which `assignable` keeps.

**Driver.** A run as steps (read, tokens, syntax, semantic, module, write, close), the
output file as whose code it is and whether it is whole. Edits, kills, I/O faults and make
are external actions.

**Types** (`types.c`, `irBuilderTypeFromAst`). A type is a stack of pointer and array layers
over a base. Types as written become the semantic pass's and the builder's types by two
separate translations; compatibility and decay are those of `types.c`, its recursion
through arrays written as a quantifier over the level at which it stops.

**Expressions** (`semantic.c:436-802`, `ir_builder_expr.c`, `ir_builder_stmt.c`). Both passes
walk the same tree by recursion. The model builds the tree bottom-up on a stack, like a
postfix evaluation: a step takes the last nodes as children of a new one and computes, from what the
recursive functions returned for the children, what each returns for the new node: the type and
whether an error was reported (`sem`, `ok`; `okT` for `checkAssignmentTarget`), and the
value and the address of the builder (`r`, `l`) with the calls they emit in order. A
statement ends the tree and puts the two results together in `out`. Steps that would
follow a reported error are cut (`Viable`): the run of the compiler ends with the pass.
The two types of a variable are given: they have the same layers over the same base, but any
sizes, because a literal that initializes a variable whose outermost array is unsized replaces the sizes of
the inner arrays too, in the builder only. `resized` marks what comes from such a variable. An array of a type that
does not exist is an IR array without element.
`notes` records the forms that the semantic pass lets through although the builder
has no lowering (`Unsupported`) or emits operands of other types (`Mistyped`); the
properties say that this list is complete, and for the first kind that it is exact.
Operators with the same rules are one operator. Control around conditions is in Lowering.

**Globals** (`ir_builder_module.c`, `ir_printer.c`). The three stages of `irBuildModule` over
a program of globals, functions and extern functions: predeclaration, which gives ids to
globals and to the storages of their strings; collection, which stores every string literal once
more; lowering, which stores a literal once more and emits operands. `globals`,
`functions` and `symbols` are the fields of the module, `code` the operands with the place
in the source they stand for. What the printer makes of an id is
`irPrinterFindGlobalById`, the first global that has it.

**StringLiterals** and **Numbers**. A literal is typed in element by element (an element of a string
is a character or an escape; **Literals** composes the two), so that the reachable states are all literals up to the bound;
operators follow it through `semanticStringLiteralDecodedLength`, `irBuilderUnquoteString`,
`parseCharLiteralValue`, `irPrintEscapedString` and the reader of LLVM assembly (external),
and through `strtol`, `strtod`, `%ld` and `%f`. A double is a number of so many significant
bits; `strtod` and the reader of LLVM take the nearest one, the even one of two. Where `%f` puts a half is
left open. All numbers are counted in a unit that divides the literals and the doubles exactly.

**SymbolTable** (`scope.c`; `ir_scope.c` has the same table). A scope is a function from
buckets to lists with the newest symbol first, under any hash function. **Environment** is what
callers rely on, nested maps from names to symbols, and SymbolTable implements it under
the mapping `MapOf`.

## 3. Runs

| Run | Bounds | Shows |
| --- | --- | --- |
| `compilation` | 6 items, depth 2, 3 `for` headers | all bodies are validated, lowered and executed with every outcome of conditions. `CompiledRunsAsWritten` is the refinement of StructuredRun; `DefaultReturnUnused` and `UnreachableNeverRuns` say the flow analysis is sound for the code emitted; `JumpsHaveTargets` that the two loop bookkeepings agree; `StrayJumpsReported` which jumps are rejected |
| `lowering` | 6 items, any nesting, failing expressions | blocks, branches, terminators and loop targets, also for bodies the validation would reject; the inductive invariant of the proofs |
| `names` | 2 names, 4 named items | `DuplicatesReported` and `ValidationIsLexical`: semantic analysis agrees with lexical scoping. `BuildFailureExplained`: exactly which accepted programs fail to build. `BindingsAgree`: code and analysis mean the same declaration, but for the initializer that reads its own variable, a block's variable left behind, the update of a `for` that uses a name its body declares, and assignments to names the validation did not find, and for these it says which one is meant |
| `name_leak` | 2 names, 5 items | *violation*, see below |
| `lexer` | inputs of up to 4 characters | nothing lost, longest match, positions, termination |
| `parser` | lists of 7 tokens of the whole vocabulary, and of 14 tokens of a statement vocabulary inside a function | termination; recovery: panic ends with its declaration, errors move on; accepted means nested |
| `expressions` | 5 nodes, 2 calls, 3 waiting operands; 8 variables, 5 functions, 13 declared types | `TypesAgree`: the builder gives an expression the layers and base of the type the semantic pass gave it, and the sizes unless an initializer replaced them. `LoweredUnlessUnsupported`: exactly which accepted statements cannot be lowered. `CallsAsWritten`: which calls are emitted, in which order, and the only two forms that repeat them. `WellTypedUnlessNoted`: the only forms that emit ill-typed instructions, and the types of all nodes are types of the language |
| `globals` | 3 items, 2 uses per body | `OperandsResolve`: the printed operand names the storage of this very literal or the variable itself, but for variables with a string. `InitializersPrinted`, `EveryNameDefinedOnce`: the text of the module is consistent |
| `globals_name` | as `globals` | *violation*, see below |
| `literals` | strings of 4 elements of 9 characters; numbers of 4 digits before and 2 after the point, of 5 digits; 1 decimal, 11-bit long, 7-bit int, 7-bit mantissa | `TextReadsBack`: what is printed has the size of its array and reads back as the decoded text, and characters decode escapes as strings do. `SizesDifferAsExplained`: the lengths of the two passes differ by the escaped quotes and what follows a zero, and by nothing else. `IntegersPrinted`: what an integer is printed as. `FloatsSurvive`: the program has the double nearest to the literal, through two roundings to a double and one to decimals |
| `symbol_table` | 3 names, 2 of them in one bucket, 2 scopes | the refinement of Environment |
| `driver` | 6 versions of the source, one per refusing stage and two valid | what exit status and an up-to-date output promise |

Why the bounds are enough: with 6 items and depth 2 a body holds a loop in a loop with a
jump and a statement after it, an `if`/`else` with two returns and code after it, or a
function in a loop; the lowering functions look at the innermost frame and the current block
only, so deeper nesting repeats these cases, and the proofs cover what they claim at any
depth. Two names and four named items suffice for a name declared globally, as parameter,
in a header and in a block, and used after it. Four characters hold the longest fixed
operator or keyword representative with a neighbour on either side, and a string or
comment with a line break next to it. Fourteen tokens hold a broken `if`/`else` inside a
function and what follows it.

Five nodes hold an access with a call in its index, assigned or passed where a pointer is expected,
and a literal in a literal; eight variables have one of each shape the rules tell apart, with sizes that are
declared, inferred and replaced, a pointer to `void` and an array of nothing. Three
items hold two globals that share ids and a function that uses both. Four elements hold a
backslash followed by the code of another character. The widths of Numbers are scaled down so
that literals go past them; the carry into a new decimal and the half are among the digits. Doubles lie closer
together than printed decimals below 8 and further apart above, as they do below and above 2^33 in the
compiler.

Fairness: only Lexer and Parser state it, weak fairness of the scanner's and the parser's own step. Both
are loops of one thread that nothing can block; there is no other actor. Deadlock is
checked, and terminal states have an explicit stuttering action, except in Expressions
and Literals, where a behaviour ends when the bound is reached.

A module's type invariant is checked as a conjunct of one of its properties, or by itself where a
theorem states it.

Every property of a passing run has a mutant: a definition of the model changed the way a slip
in the C code would change it (marked "Mutant" in the modules), for which TLC finds the
property violated.

### Disagreements between code and documentation

Two of them, in which the compiled program silently means something else, have a run of their own
that finds the counterexample:

- `name_leak`: `irBuilderLowerBlockNode` opens no scope (`ir_builder_stmt.c:396`), so a local of a
  block that was left hides a global of its name from the code that follows, although the semantic
  pass bound that code to the global; `src/ir/README.md:144` names the locals of the current block first.
- `globals_name`: a global with a string initializer shares its id with the storage of the string
  (`ir_builder_module.c:100`), and its uses are printed as `@.str.1`; `src/ir/README.md:212` says `@x`.

The others are part of a property that names them as its only exceptions, so that the passing
runs show both that the code does this and that it does so nowhere else:

| What the code does | What is written | Property |
| --- | --- | --- |
| `break` and `continue` in a function nested in a loop are accepted: `validateFunction` keeps `loop_depth` (`semantic.c:829`). The nested function is never lowered, so nothing breaks later | rejected outside loops, `src/semantic/README.md:215` | `StrayJumpsReported` |
| Shadowing a local or parameter in an `if` or `while` block passes the semantic pass and makes the IR build fail (`ir_builder_stmt.c:206`) | valid, `src/semantic/README.md:200` | `BuildFailureExplained` |
| An assignment to an undeclared variable passes semantic analysis (`semantic.c:457`); the build fails, or takes a global declared later | an error, `src/semantic/README.md:201` | `BuildFailureExplained`, `BindingsAgree` |
| The update of a `for` is checked before the body, in the scope of the header (`semantic.c:941`), and lowered after it, in the scope the body declares its variables in (`ir_builder_stmt.c:604`): with a global `x`, the update of `for (...; x = x + 1) { x::int = 5; }` is compiled to the local | the header opens a scope, `src/ir/README.md:297`; shadowing is valid, `src/semantic/README.md:200` | `BindingsAgree` |
| A variable of a type that does not exist, a literal that sizes an array of one (`x::Array = {}`, `ir_builder_utils.c:220`) or an element of it, an indexed pointer, a call of something other than a name, an array literal as a value are accepted and have no lowering (`ir_builder_stmt.c:152`, `ir_builder_expr.c:55`) | the semantic pass rejects what is unsupported, `src/ir/README.md:398` | `LoweredUnlessUnsupported` |
| `a[f()] += 2` calls `f` twice and may store to another element than it loaded (`ir_builder_stmt.c:328`) | the result is stored back, `src/ir/README.md:287` | `CallsAsWritten` |
| After `x::int[3][] = {{1,2}}` the builder's `x[0]` is `[2 x i32]`, the semantic pass's `int[3]`, and `y::int[3] = x[0]` stores the one in a slot of the other (`ir_builder_utils.c:211`) | nested array literals are fully supported, `README.md:213` | `TypesAgree`, `WellTypedUnlessNoted` |
| `*p = 1` with `p::*char` is accepted (`semantic.c:497`) and stores an `i32` through an `i8*` | "exact pointee type matching", `src/semantic/README.md:221` | `WellTypedUnlessNoted` |
| An array that a call returns is accepted where a pointer is expected, and passed as the array: it has no address to decay to (`ir_builder_expr.c:214`) | the semantic pass rejects what is unsupported, `src/ir/README.md:398` | `WellTypedUnlessNoted` |
| `x::void;` and pointers to `void` are accepted (`parser.c:173`); the slot has no size, and what is loaded through the pointer no type | only as a return type, `GRAMMAR.md:228` | `WellTypedUnlessNoted` |
| A character that initializes a global is printed as 0 (`ir_builder_module.c:12`), a string that initializes a global array as `null` (`ir_printer.c:149`) | initializers are converted, `src/ir/README.md:160`, `:331` | `InitializersPrinted` |
| An escaped quote counts as two characters in the type of a string (`semantic.c:43`), so `Array<char>[4]` is refused for `"a\"b"` | the value with its terminator, `src/semantic/README.md:123` | `SizesDifferAsExplained` |
| Floats lose what is beyond six decimals, small ones are 0 (`ir_printer.c:121`), and long ones are printed as another number, though one with the same double; integers beyond `int` are printed as they are (`parser.c:849`) | fully supported, `README.md:200` | `FloatsSurvive`, `IntegersPrinted` |

## 4. Proofs

`CompilationProofs` proves first, of the lowering alone, for every body length, nesting depth, set of `for` headers and
value of `MayFail`:

- `LoweringTyped`: `LoweringSpec => []LoweringTypeOK`;
- `NoDanglingBranch`: `LoweringSpec => []BranchTargetsExist`;
- `OpenBlocksAccountedFor`: `LoweringSpec => []LoweringInd`;
- `FinishedFunctionTerminated`: `LoweringSpec => []EveryBlockTerminated`;
- `LoopTargetsAlwaysMatch`: `LoweringSpec => []LoopTargetsMatchLoops`.

Assumptions: those of Statements and Lowering about their constants, nothing else.

The argument: `EveryBlockTerminated` speaks only of the finished function, and is not
inductive. While the lowering is under way most blocks of the enclosing statements are
still open. `OpenBlocksOwed` says which: a block without terminator is the current one, or one
that a frame on the stack *owes* a terminator to (the `else` and end block of an `if` in its
`then` branch, the end block later; update and end block of a `for`; end block of a
`while`). Every lowering function keeps this: opening a statement creates blocks that are current,
terminated or owed; closing it terminates what it owed, or makes it current. When
the stack is empty only the current block can be open, and the default return closes it.
`FramesInRange` (pending blocks and loop targets exist) is what makes `BranchTargetsExist`
inductive: a `break` jumps to a block created long before. The lemmas follow that order:
`Emit`, `Goto` and `WithBlocks` as operations on code maps, pushing and popping, one lemma
for opening and one for closing a statement (`OpenStep`, `CloseStep`), one per statement, then
`NextKeepsInv`. `LoweringInv` is the conjunction that is inductive.
`LoopTargetsMatchLoops` needs it too: the rank of a loop among the loops on the stack of frames
is its place in `loop_targets`, and pushing or popping a frame shifts no rank below it.

Then it is about the two passes together, for bodies of every size:

- `JumpsAlwaysHaveTargets`: `Spec => []JumpsHaveTargets`;
- `StrayJumpsAlwaysReported`: `Spec => []StrayJumpsReported`.

The two passes never meet, so the invariant ties each to the body. `ValidationInv`: the block at
depth `d` on the stack of `validateBlock` is a loop exactly when the statement that is
open at depth `d` of the body is one (`ScopesMatch`), `loop_depth` is the number of loops among these
blocks, and the errors about jumps are exactly the jumps that no loop surrounds. `FramesMatch` says
for the lowering that every loop open at the item it comes to has a frame. A jump in a
validated body without errors is inside an open loop, hence there is a frame of a loop, hence
by `LoopTargetsMatchLoops` a loop target. Lowering skips nested functions, so that it comes to
fewer items than validation; that nothing is skipped halfway is what `Depth` before and
after a function shows. `Depth` counts openings and closings by cardinality, so no induction over
the body is needed.

The last part is about the flow analysis, again for bodies of every size:

- `DefaultReturnNeverRuns`: `Spec => []DefaultReturnUnused`;
- `UnreachableIsNeverRun`: `Spec => []UnreachableNeverRuns`.

Validation forgets its stack, and both properties are about what it knew at each item. `HistoryInv`
says that there is a history `H` of that stack, one for each item of the body, that `Walk` takes each to
the next, and that the items reported as unreachable are the ones before which the innermost block had
returned. A block that stays open is changed by its own items only (`HistoryKeeps`), so the history before and after a
compound statement is known from its first and last item (`CompoundHistory`).

For the default return, the set `D` of *dead* blocks is carried along the lowering: no branch from outside
leads into `D` (`Closed`), the end of an `if` is in it as long as no branch of the `if` comes to its end,
and where the history says that the statements so far return, the current block is in `D` or has its
terminator (`DeadBlocks`). Closing an `if` whose branches both return makes a dead block current; any other
end of a statement is taken out of `D`, which it can be because nothing was written to it yet
(`EndsEmpty`). At the end a function that must return a value has its default return in a dead or
terminated block, and the run, which starts outside `D`, never enters it (`Outside`). `ReturnInv` is the inductive
conjunction (`ReturnInvariant`).

For unreachable statements nothing is lowered: `Passed` follows the source. A control point is *live* when no
block around it has returned, except that at the end of a loop its body may have (a `continue` leads there).
Every way on from a live point leads to a live one (`LiveOnward`), with a lemma for each kind of move: into a block, past
a compound statement, to the `else` of an `if`, back to the head of a loop, and out of one, which needs that the
jump has a loop at all. A reported statement is not live, and `Passed`, a search of bounded length, stays within any such
set (`PassedClosed`).

`SymbolTableProofs` proves, for every set of names, hash function, number of buckets and
nesting:

- `TypeCorrect`: `Spec => []TypeOK`;
- `WalksCorrect`: `Spec => []WalkMeetsEachNameOnce`;
- `TableImplementsMaps`: `Spec => Env!Spec`, the refinement.

The inductive invariant says that the scopes are typed, that a symbol lies in the bucket of
its name, and that no bucket holds a name twice. The last needs `scopeDeclare` to look
first; the second is what lets a lookup search one bucket only. From both follows what a
lookup returns (`FoundAt` at the first place, which exists by well-foundedness of `<`), and then that
inserting at the head changes the map at that name and nowhere else.

`GlobalsProofs` proves, for programs of every size:

- `GlobalsTyped`: `Spec => []TypeOK`;
- `OperandsAlwaysResolve`: `Spec => []OperandsResolve`;
- `InitializersAlwaysPrinted`: `Spec => []InitializersPrinted`;
- `NamesAlwaysDefinedOnce`: `Spec => []EveryNameDefinedOnce`.

Ids are not unique, so the argument is about the *first* global that has an id.
`GlobalsPlaced` says that a global at place `k` has id `k`, except that a global with a
string has the id `k - 1` of the storage directly before it: the first global with an id is
therefore the one at that place, now and after anything is appended. `SymbolsDenote` ties the
symbol of a variable to such a place, `CodeDenotes` every emitted operand; lowering never
changes a global that is there, so an operand keeps its meaning.

For the names, `NamesInv` adds that a variable stands once among the globals and a function with a body
once among the functions, only when it was declared, and that every item is declared once the first stage is
over; storages are named after their place, so they differ by `GlobalsPlaced`.

`DriverProofs` proves, for every set of source versions and every sequence of edits, runs and faults:

- `UpToDateIsCurrent`: `Spec => []UpToDateMeansCurrent`;
- `SuccessIsWhole`: `Spec => SuccessMeansWhole`, an action property;
- `FailureIsClean`: `Spec => FailureLeavesNoFragment`, an action property.

The invariant says what the output is at each stage of a run: as before until it is opened, then
a fragment of the code of the version that was read; and that a run which goes on has met no fault, so
that without an edit the version it read is the source.

`LexerProofs` proves, for inputs of every length:

- `NothingIsLost`: `Spec => []NothingLost`;
- `FirstMatchIsLongest`: `Spec => []LongestMatch`;
- `PositionsAlwaysTrue`: `Spec => []PositionsTrue`.

Which rows of the table may match at a character is known from the character
(`Starts`): two rows that share a first character are compared one by one, the others never
compete. The line and column are those the text has at the cursor, which a match advances by the
line breaks it holds; the set of line breaks before a place grows by those in the match, and its
cardinality and maximum give the two numbers.

`ParserProofs` proves, for token lists of every kind and length:

- `DeclarationsAlwaysCalm`: `Spec => []DeclarationsStartCalm`;
- `ErrorsAlwaysMoveOn`: `Spec => []NoErrorTwice`;
- `AcceptedAlwaysNested`: `Spec => []AcceptedIsNested`.

`ParserInv` describes the stack of pending steps: the frame of the program at the bottom, which
resynchronizes before it goes on; the statements of a block directly on the frame that
closes the block; a step that consumes a token without looking only on top, and only while there
is a token. From it follows that panics end where a declaration does, and that the end of
input is never consumed. `ErrorsInv` says that after an error at the current token the parser is in
panic, at the end of input, or on the way to consume that very token: it resumed at a token that starts a
declaration, or at the brace that closes the block. `NestInv` is about programs without errors so far:
each frame has at most one bracket still to close (`Owed`), and the brackets consumed and not closed
are, from bottom to top, those that the frames owe (`Owes`). A frame that opens a bracket comes to owe it
in the same step; an empty stack owes nothing.

`NameResolutionProofs` proves, for programs of every size and nesting and every set of names:

- `DuplicatesAreReported`: `Spec => []DuplicatesReported`;
- `ValidationFollowsTheText`: `Spec => []ValidationIsLexical`;
- `BuildFailuresAreExplained`: `Spec => []BuildFailureExplained`;
- `BindingsOfThePassesAgree`: `Spec => []BindingsAgree`.

All four follow from one inductive invariant (`NameResolutionInvariant`: `Spec => []Inv`). The
properties speak of the text alone, by what encloses what; the three walks know only a chain of
scopes. The invariant says where a walk is in the text: `st` are the items that are open there,
outermost first, and `base` gives for each the position of its innermost scope in the chain
(`Frames`). On top of that it says what each scope holds:

- `Collected`: a symbol for each name that the block declared so far and for no other, so that a declaration that is
  refused repeats one of its block, and conversely;
- `Validated`: the variables of the block so far, and in the global scope the functions of the program; inner scopes
  hide outer ones, and a declaration in an inner scope stands later, so that the innermost scope
  with a name gives the *greatest* visible declaration, which is what the lexical meaning of a use is;
- `Lowered`: the declarations of the whole function or loop body so far, those of the blocks that were left
  included, because blocks open no scope there (`IrFrames`). This is where `LeftBehind` comes from, and
  `BodyLocals` for an update, which is lowered when its body has declared everything.

`Bound` and `IrBound` keep what was bound earlier. A nested function is passed over by the lowering; that
it leaves the frames as they were is shown from the depth before and after it. `Depth` is a
difference of cardinalities here too, and the item that encloses another is found as
the greatest of a finite set, so no induction over the program is needed. The assumptions are
`NoName` not being a name and the types of `WithNames` and `MaxNamed`.

`ExpressionsProofs` proves, for expressions of every size, and for all variables and functions:

- `TypesAlwaysAgree`: `Spec => []TypesAgree`.

`Sound` is what a node needs of its children: types of the two passes that are types, agreement (`Fits`)
of the value's and of the address's type with the semantic one, and that a string literal, the exception,
is an array for the semantic pass and has no address, so that no operator accepts it and
goes wrong. There is a lemma for each kind of node, over lemmas about what the two translations make of a
written type (`TypesAsWritten`) and what taking an element or adding a pointer does to agreement. The assumptions
are that the two passes know a variable with the same layers over the same base, of whatever sizes, down to the
array of a type that does not exist; and that the result type of a function is one that the builder has, as the
build ends at its declaration otherwise.

Assumptions everywhere: those stated in the modules about their constants.

Only model-checked: everything else. Liveness under fairness (`ScanningEnds`, `ParsingEnds`) is out of
the prover's reach. So are facts by induction over data: what flattened sequences hold (calls and leaves of
array literals: `CallsAsWritten`, `LoweredUnlessUnsupported`, `WellTypedUnlessNoted`), and what the recursive
functions of Literals return (`TextReadsBack`, `SizesDifferAsExplained`, `IntegersPrinted`,
`FloatsSurvive`). The refinement `CompiledRunsAsWritten` needs an invariant that ties every place in the emitted code to
the control points it stands for, and the length of the search along silent ones; it is not proved.

## 5. Not modelled, and why

Text (messages, tree printing, LLVM syntax) is formatting. Memory management of the C
code is out of scope of a state-machine model: allocation is taken to succeed. For that reason constructors,
`irTypeClone` and the free functions appear only as the values they copy. The tree (`ast.c`) and
`irDumpModule` have no control of their own. Functions have at most one parameter in
NameResolution; Expressions has functions of several. Runtime and standard library are programs, not parts of the compiler.

## 6. Plan

Done: the core (statement lowering and flow analysis with the refinement and the first
theorems), names, lexer, parser control, driver; types and expressions, globals and string
storage, string and number literals, the symbol table and its refinement.

Proved: the invariants of lowering, of both loop bookkeepings and of the flow analysis, of the symbol table, globals, driver,
lexer and parser, of the three walks that resolve names, and the agreement of types.

Next, in this order:

1. A reference grammar beside Parser (`GRAMMAR.md`): accepted exactly when derivable, first error at
   the first token that no program continues.
2. Several parameters in NameResolution.
