# Verification of FormaB

FormaB is the bootstrap compiler of the Forma language: one C++ process, one
thread, no persistent state. It scans and parses a file, schedules every `@!prae`
block and every function of it on a dependency graph, and the graph runs three
passes over each of them: compile to bytecode, verify, dump.

What is hard about it is therefore not concurrency or failure of machines, but
*order*: callbacks that run inside the loops that call them, destructors that
cascade, tables shared by passes that must run in the right sequence, and
numbering that must stay unique along every path of a generated program.

This directory holds TLA+ models of those parts, TLC configurations that check
them on small instances, and proofs (TLAPS) of the ones that hold for every
instance. `PROJECT.json` lists, machine-readably, the components, the runs, the
lines each definition models, the mutated definitions that show each property is
not vacuous, the findings, the hazards and the theorems.

## 1. Inventory

Paths are relative to the repository; `src/src/` in PROJECT.json is `src/` here.

| Component | State | Operations | Model |
|---|---|---|---|
| Dependency graph, `pipeline/depsGraph.{hpp,cpp}` | `m_nodes`, `m_edges`, `m_q`, `m_run`; per node `m_ins`, `m_outs`, `m_ready`; per edge `m_ins`, `m_outs`, `m_state` | `node`, `edge`, `in`, `out`, `run`, and inside it `statSelf`, `stat`, `Edge::run` | `DepsGraph`, `DepsOrder`, `DepsGraphProofs` |
| Data graph, `pipeline/dataGraph.hpp` | the value of a data node | rules that read input nodes and write output nodes | part of `FIScheduler` |
| Scheduler, `intermedia/scheduler.{hpp,cpp}` | `m_funcs`, `m_depQ`, the graph | `schedule`, `scheduleEntryPoint`, `scheduleFunc`, the walkers | `FIScheduler`, `FISchedulerProofs` |
| Shared tables, `intermedia/inputs.hpp`, `assembly.hpp` | ids of compiled functions, functions and strings by id | `intern`, `value`, `at` | part of `FIScheduler` |
| Atom store, `util/atom.hpp` | `m_values`, `m_keys` | `find`, `put`, `add`, `intern`, `key`, `value` | `AtomStore`, used by `FIScheduler` |
| Reference counting, `util/object/*`, `util/ptr.hpp` | `m_tracked`, `m_count`, `m_target`, the pointers | constructors, `operator=`, `lock`, destructors, `tryDestroy` | `RefTracker`, `RefTrackerProofs` |
| Scopes, `intermedia/praeCompiler/closures/{scope,function}.cpp` | `m_vars`, `m_borrowed`, `m_id`, `m_scope`, labels | `bind`, `get`, `set`, `phi`, `pushScope`, `applyScope`, `applyScopeWithIds` | `PraeScopes` |
| Code generator, `intermedia/praeCompiler/compiler.cpp` | the bytecode under construction | one `emit...` function per AST class | `PraeCompiler`, `PraeRun` |
| Bytecode verifier, `intermedia/verifier/` | queue of block closures, operand stack, stored variables | `verifyFunc`, `iterate`, forks at branches | `BlockVerifier`, `VerifierProofs` |
| Position tracker, `closures/position.{hpp,cpp}` | the current node; per node `m_prev`, `m_next` | `move`, `push`, the destructor of a node | `PositionTracker`, `Positions`, `PositionProofs` |
| Numeric literals, `praeCompiler/compiler.re` | `num`, the exponent, format, limit | `readIntBasic`, `readInt`, `emitLoadLNumeric` | `NumericLiteral`, `NumericProofs` |
| Scanner, `scanner.in.lpp`, `parserTag.hpp` | flex's stack of start conditions, `bufs`, `m_errors` | the rules that push, begin and pop, `bufStart`, `bufEnd`, the end of the file | `Scanner`, `ScannerProofs` |
| Parser and AST | - | generated | not modelled |
| Command line, `formab.cpp` | - | `schedule()`, then `run()`, `catch` | the order of its calls, in `FIScheduler` |
| Data holders, utilities, optimizer and interpreter stubs, build scripts | - | - | not modelled |

**How they interact.** `main` makes an `FIInputs` and an `FIScheduler`, calls
`schedule()`, which walks the AST and builds the graph, then `graph->run()`. The
graph calls a rule through `FRule::run` from the middle of its own loop; the
rule reads the data nodes, calls `FIPraeCompiler`, `FIVerifier` or
`FIDumpFunction`, which read and write `FIInputs::m_funcs` and
`FIAssembly::m_funcs`, and returns into the loop. An exception leaves both and
ends in `main`. Everything is held by `FPtr` and `FWeakPtr`.

**What makes each part correct**

* Graph: no edge is lost or run twice; an edge runs only when all it reads is
  complete; what is left behind is on or behind a cycle; `run()` ends.
* Scheduler: a function inside a block is through before the block compiles; a
  pass sees the function of its own pipeline; the graph it builds violates no
  assertion of the graph; everything is dumped once.
* Reference counting: counters are exact; an object is destroyed exactly when
  its last owner goes and is never owned again; a tracker outlives its object as
  long as it is watched; a cascade ends.
* Scopes: a variable of the bytecode is stored once on every path; a load finds
  what the last store to its variable of the program left; a block keeps its own
  variables to itself.
* Code generator: an emit function leaves on the operand stack what its caller
  takes, on every path; a function returns with its result alone.
* Position tracker: the current position is the one entered last of those not
  left, in whatever order emit functions let go of theirs.
* Numeric literals: what is loaded is the value of the literal; what is refused
  does not fit its format.
* Atom store: a number that is in compiled code keeps its meaning, and equal
  values have equal numbers.
* Scanner: conditions, buffers and block tokens open and close together; the scan
  ends.
* Verifier: what it reports is an error on some path; it misses none; it ends.

The hazards, each at its line, are under "hazards" in PROJECT.json.

## 2. The modules

### DepsGraph (with DepsOrder)

State is the code's, by its names; `pc`, `i`, `j` say where the nested calls
`run -> Edge::run -> Node::stat -> Edge::stat` are. `In`, `Out`, `AddNode`,
`AddEdge` build the graph in any order a client may. From `Run` on, one action is
one iteration of one loop: `StatSelf` and `StatEdge` for the two initial passes,
`TakeFront` for the head of the loop with its assertions, `RuleReturns` or
`RuleThrows` for the call of the rule, `StatOut` and `StatReader` for the loops
over written nodes and their readers, `Pop`, `Finish`. The edge being run stays
at the front of the queue until `Pop`, as in the code.

`Asserts` says whether `assert` is compiled in. A failed assertion ends in
`aborted`, an exception in `thrown`; after an exception `m_run` stays false, the
edge stays Open and queued.

`DepsOrder` is the abstract specification: a set of made edges, what each needs,
and the set done. It knows no queue, no ready flags, no nodes. `ImplementsOrder`
states, through the refinement mapping at the end of `DepsGraph`, that the graph
implements it, progress included. Adding a node, the initial passes and the
loops over readers are stuttering steps; `RuleReturns` is `Execute`.

### FIScheduler

Instantiates `DepsGraph` with the nodes and edges of pipelines; the graph's
variables are its variables and `RunGraph`, `WalkGraph` its actions. A program is
the nesting of its units: `encl[u]` is the unit that `u` is written in. `Schedule`
is one visit of the walker with the whole pipeline it makes, `WalkDeps` is one
DepWalker. While the graph is at `rule`, `Compile`, `Verify` and `Dump` are the
three rules, on the tables they share; `Compile` needs the ids of the functions
it loads, `Verify` and `Dump` need the id they read to be known. Where the code
would throw instead, only `Throw` is left, so the safety properties say that this
does not happen. `Throw` is always possible: many constructs are not implemented.

The tables of functions and of strings are stores of `AtomStore`, whose
operators have the names of `FAtomStore`'s methods. Each unit loads one string:
`Compile` interns it and keeps its number in `ldstr`, `Dump` looks the number up
among strings that other units have interned in between. The assembly's other
tables are used in the same way.

### RefTracker

`strong` and `weak` hold what every `FPtr` and `FWeakPtr` points to: variables of
running functions and members of objects. `stack` is the nest of destructors.
Between `BodyDone` and `Destroyed` the members go one by one, in any order, and
each may push another destructor.

* `p = q` is the destruction of `p`, then a copy, as `operator=` writes it: two
  steps of the model, `Drop` then `Copy`. The model assigns only from pointers
  that survive the first step, as the program does.
* The body of a destructor may run client code. It may use the members of its
  own object (which stand for its local variables too) and what they hold.
* A slot on `stack` keeps its object until `release()` has returned.
* No constructor locks a weak pointer to its own object; the program has none.
* `threw` ends the model: nothing but `main` catches.
* `reset()` is never called and objects are deleted through their tracker only.
  Addresses are not reused.

### PraeScopes, PraeCompiler

`PraeScopes` is what the compiler keeps for a function, one variable per field: the
chain of `scopes` with `vars` (`m_vars`) and `borrowed` (`m_borrowed`), `nextScopeId`,
the bytecode `code`, its `labels`, and in `ids` the `VarIds` of the construct a label
belongs to. A variable of the bytecode is `<<scope id, name, <<phi, count>>>>`: what
`assembleName` spells, which is one to one. What a method of `ScopeClosure` computes is an
operator on the chain (`Set`, `Bind`, `Phi`); a call on the `FuncClosure` is an action.

`PraeCompiler` compiles *some* function body. The emit functions call one
another recursively, and what they will find in the AST is not fixed: `todo` is
what is left to do of the ones that are running - nodes still to be compiled,
and calls on the `FuncClosure` between and after them. `EmitNode` takes the node in
front, chooses what the grammar allows there, and is the entry of the emit function of
that choice: it begins its labels and puts what it does in front of the rest.
`LoadXBlock`, for instance, puts there `pushScope`, the statements, `applyScope` and
`Ldvoid`. `MakeCall` makes the call in front. `applyScope` and `applyScopeWithIds` are
a loop over the modified variables: `LeaveScope` pops the scope, then `MergeName`
merges one variable after the other, in any order. `Branches` are the calls that
`emitLoadXControl` and the branching half of `emitSControl` share, `Loop` the looping half.

Abstractions: `Bez` and `Bnz` are not told apart (nor if and unless, while and
until), literals and functions are one constant load, operators and sends one
message each (`Tpl` too: all of them take some operands and leave one); a scope
is numbered when it is made, not when it first names a variable (only the numbers
differ); scope ids and counts have no upper limit, which the code puts at
2^32 - 2. A send has at most two operands here, a `let` one binding.
`Error` is any of the calls of `error()` and of the `NOTIMPL` places: it ends
the compilation and may happen at any node.

### PraeRun

Executes the code, when it is compiled, along one path: each opcode takes and
leaves what `BlockClosure::iterate` and the comments in `bytecode.hpp` say, and a
conditional branch goes either way. `stored` is what the variables of the
bytecode hold, `truth` what the variables of the program hold, and which instruction
stored it: each store of the program updates both, and the properties compare them. A value is named by the
instruction that made it. `decl` is a record of the model, not of the code: which
declaration a name refers to where it is compiled.

### BlockVerifier

`verifyFunc` and `iterate` on the same code. `q` is the queue of closures, and
what is local to the `iterate()` that runs is in `covered` and `action`.
`Iterate` is one round of its loop: `Report` is what the instruction prints,
`Effect` the closure after it, `ForkedAt` the closure it queues. Of the types on
the stack only their number is kept. Nothing pushes a bool (messages are
taken to return void), so every conditional branch is reported; that message
and the types in the others are left out.

`visits` is a record of the model, not of the code: the instructions the closures
came to, in order, each with what was stored by then. The properties compare it with
the paths of the code, which `After` gives apart from the closures: where a path
goes on from an instruction, with what it has stored. `ReportsAreReal` asks that each
visit goes on from an earlier one, which makes it the end of some path, and that
what is reported of the variables is wrong at a visit (`Errors`). `ReportsUpToJumps`
asks that the visits of closures that have not jumped contain the start and, with
each visit, where a path goes on that takes no `Br`; then they contain all that such
paths come to, and every error there is reported.

### PositionTracker (with Positions)

Every `FuncClosure` is a `PositionTracker`; each emit function keeps the node its
`MOVE` made until it returns. `Move` is `move()` with `push()`; `Return` is the
death of any node but the root, in any order (nested calls die innermost first,
but a node is an `FPtr` that may be kept longer), and `Close` that of the root.
`Destroy` is the destructor: its two assertions and its calls of `lock()` are
`NeighboursAgree`, and if they do not hold the model ends in `aborted`.
`FWeakPtr::operator bool` asks the tracker of the object for the tracker's own
count, so it is true as long as the pointer points anywhere, dead or not: only
because each node unlinks itself does `if (m_prev)` mean what it seems to.

`Positions` is the abstract specification: a set of open positions, the latest
of which is current. `Abstract` maps the live nodes to the open positions.

### NumericLiteral

One literal, from the tags of its pattern to its instructions: `Valid` or
`Invalid` is the match, `ReadExpon` and `ReadDigit` are rounds of the loop over the
digits in the two calls of `readIntBasic`, `Scale` is a round of the loop over the
exponent, `EmitInt` and `EmitReal` are the end of `emitLoadLNumeric`. Digits are
chosen as they are read, so a run covers strings of any length. `num` is computed
modulo the size of its type, as the code does, and `exact` is the value it stands
for. The exponent is read by the 16-bit instance; the model computes it with
`Mod32`, and the limit is far below either modulus.

An I8 literal is emitted as an `Ldci4` with a 64-bit argument, of which an `Ldci4`
shows the lower half: `HeldInI4`. `Converted` is what the conversion behind it makes of
that. The emitted value of real literals is a placeholder in the code.

`Written` are all literals the scanner lets through, but for separators. Three kinds
are loaded as another number (`OddKinds`): 64-bit ones, those with `_` between the
digits, and negated ones of a narrow unsigned format. The constant `Odd` says which of them a program may
have; `LoadsItsValue` itself makes no exception.

### Scanner

A file is any sequence of lexemes that the condition on top of the stack has a
rule for. Each action is the rule of one kind of lexeme, with what it does to the
stack of conditions (`$SSPUSH`, `$SSBEGIN`, `$SSPOP`) and to the stack of buffers;
`Plain` stands for all the rules that do neither. `AtEnd` is the end of the file,
which flex meets again whenever `yylex` goes on. An underflow of the stack of
conditions exits the process (`fatal`); a pop of an empty `std::stack` is undefined
behaviour and ends the model (`undefined`). `block` is what the parser has been
told: whether a `PraeBlockStart` is open. `stray` records that
`EscapedIdentifier` or `EscapedAtomKeyword` has matched outside SSEscapedID.

## 3. What is checked

| Run | Instance | Properties |
|---|---|---|
| `graph` | every graph of 2 nodes, 3 edges and up to 5 links, built in one order, without assertions, fair | `TypeOK`, `QueueIsOpen`, `InputsComplete`, `RunsAllButCycles`, `OnlyEmptyEdgesAbort`, `Stops`, `ImplementsOrder` |
| `scheduler` | every nesting of up to 5 blocks and functions, each with one of 2 strings, with assertions, fair | `TypeOK`, `InnerFirst`, `ReadsOwnFunction`, `StringsStay`, `NeverAborts`, `AllDumped` |
| `pointers` | 3 objects with a strong and a weak member each, 2 strong and 1 weak variable, limit 2, fair | `TypeOK`, `CountsPointers`, `TrackerOutlives`, `NoResurrection`, `CascadeEnds` |
| `codegen` | one name, programs of the five kinds below, no name declared twice in a scope | `TypeOK`, `PhiSound`, `NeverStale`, `SingleAssignment`, `NeverUnderflows`, `ReturnsOne` |
| `verifier` | one name, 4 pieces, with branches, loops and returns, fair | `TypeOK`, `ReportsAreReal`, `ReportsUpToJumps`, `VerifyEnds` |
| `position` | up to 8 nodes, made and destroyed in any order | `TypeOK`, `LinksExact`, `ImplementsPositions` |
| `numeric` | all literals but those of `OddKinds`; types of 256 and 512 values | `TypeOK`, `LoadsItsValue`, `RefusesOnlyMisfits` |
| `scanner` | files of up to 10 lexemes, fair | `TypeOK`, `BuffersMatch`, `BlocksMatch`, `PopsMatchPushes`, `ScanEnds` |
| `codegen_branch` | 5 pieces, branches with an else | `LoadsAreStored`: **violated** |
| `codegen_nested` | 6 pieces, branches with an else in branches | `NeverStale`: **violated** |
| `numeric_long` | 64-bit literals too | `LoadsItsValue`: **violated** |
| `verifier_jump` | branches with an else | `GivesUpOnlyOnLoops`: **violated** |

A piece is a statement of a list, or inside it an identifier, an operator or a
construct; constants are free.

*Why the bounds are enough.* A graph with 2 nodes, 3 edges and 5 links has every
shape the code tells apart: a node with two writers, an edge with two inputs, a
link that is repeated, an edge without inputs or outputs, a cycle with an edge
behind it, a node that becomes ready while its reader already waits for another.
`MCDepsGraph` restricts the order of building by an action constraint: nodes,
then edges, then links, edge by edge. What the graph is at `run()` differs from
other orders of building only in the order of the readers of a node; the safety
properties of the graph are proved for every size and every order besides.
`OnlyEmptyEdgesAbort` is about the assertions, but looks at them where they are
evaluated, whether they are compiled in or not. Five units
give functions beside one another, three deep, and two blocks. Three objects with
a member each give chains and cycles of owners, two objects that die inside a
third one's destructor; with a limit of 2 an object is shared, and a third owner
overflows its counter.

The kinds of program of `codegen` (`MCPraeRun`) differ in length, and the longer they are
the fewer constructs they have:

| Kind | Pieces | Constructs | What is long enough for it |
|---|---|---|---|
| short | 3 | all but unary curries and returns, loops included | each emit function, in each place that calls it, with each path through it: the operand stack needs no more |
| storing | 4 | loads, `++`, declarations, assignments, blocks, branches | a store in the condition of a branch, or in a value |
| mixed | 6 | loads, `++`, declarations, blocks, branching expressions; conditions are identifiers or literals | a load behind a branch of an expression that stores, inside another value |
| branched | 7 | loads, declarations, assignments, blocks, branches; an `if` with an else stands outermost | `var x = 0; if (c) { x = 1; } else x = 2; x`, the shape of `etc/pf-phi-test.fma` |
| nested | 8 | the same without else | `var x = 0; if (c) { x = 1; x = 2; } x`, `var x = 0; if (c) if (d) { x = 1; } x` |

In the last two kinds conditions and the values of declarations and assignments are
literals, and every declaration is a `var` (`Plain`). A load behind a block that
stores (`var x = 0; { x = 1; } x`) takes 6 pieces, behind two scopes that are left in turn 7, behind
three 8. So every way `applyScope` and `applyScopeWithIds` copy into a scope - one that
owns the variable, one that has borrowed it before, one that has not - is followed by a load,
and by another store. What the bounds and `ElseOutermost` leave out
of `NeverStale` are the cases in which it is false: loops, stores in the condition of an
`if` with a load behind it, and an else inside a branch (see the findings). A second name would only
add an order among the copies of a scope, and these do not read each other.

Four pieces give the
verifier a branch inside a branch, a loop behind a branch, a loop with a branch
in it, each with stores and loads or returns.

Eight position nodes let three live ones die in every order several times over.
The two integer types keep what the code depends on: the limits of I1 and I2 are
below that of I4, a product may wrap in either, and the limit of the exponent is
below all. The literals are all there: radix, sign, exponent, type letters, and as
many digits as the limits take; for those of `OddKinds` see the findings. Ten lexemes open a block, and in it a comment, a
literal and an escaped name, close them, and leave the file in each condition.

`CHECK_DEADLOCK FALSE` is used for the pointer run only: client code may stop at
any time, and a thrown exception ends the model. The other models stutter in an
explicit `Terminated` action and any other stop is an error.

No run declares symmetry: most check liveness too. In `RefTracker` client code
copies only from and to the slots it can reach.

*Fairness.* The program has one thread. Once `run()` is called it goes on:
`WF_vars(Walk)`; the rules it calls terminate (they walk a finite AST or
bytecode): `WF_vars(RuleReturns \/ RuleThrows)`. Building is not fair: a client
need not call `run()`. `FIScheduler` is fair in `Next`: `schedule()` and `run()`
are calls `main` makes one after the other. `RefTracker` is fair in `Unwind` only:
a destructor's body returns and the compiler-generated code behind it runs; client
code need not do anything. `Scanner` is fair in `Next`: a call of `yylex` goes on
until it returns, the parser asks again, and files are finite. `BlockVerifier` is fair in `Iterate` and
`VerifyReturns`: `verifyFunc` is one call that loops until its queue is empty.

*What the verifier misses.* `ReportsUpToJumps` claims little on purpose: behind a
jump a closure sees one more instruction only (`verifier_jump`), and most code
behind an if with an else is verified by nobody. `VerifyEnds` holds because of it:
with `action` reset in each round, which is the mutated form of `Action`, a loop
queues a closure for itself for ever.

*What a load may find.* `NeverStale` accepts two answers: the value the last store to that
variable of the program left, or nothing. Nothing is accepted only on a path that, since
that last store, has taken a branch past another store of the variable (`PassedBy`): the case
of `codegen_branch`. Where the path has passed no store of it by, as in
`var x = 0; { x = 1; } x`, or where every branch stored, only the value will do.

*Loops.* `NeverStale` and `SingleAssignment` are about code without loops, in which no jump
leads back (`Loopless`). With
them, a body stores its variables again in every round, and `NeverStale` fails: in
`var x = 0; while (x) x = 1;` the condition is compiled after the body and loads
what the body stores, so on entry it loads nothing; and a body that loads `x`
before it stores it finds the value from before the loop in every round. The
comment at `compiler.cpp:580` says that the handling of phis is still to be added
there. The other properties of `codegen`, and `verifier`, include loops.

### Findings

* `codegen_branch` - After `var x = 0; if (c) x = 1; else 0;` the compiler takes
  the merged variable `` 1@x^1`0 `` for `x` on both paths, but stores it only in the
  branch that assigned `x`. The other path loads a variable it never stored,
  which the verifier calls `load-before-store`. And code in
  the second branch that reads `x` gets the phi of the first.
  `NeverStale` bounds the damage: in the programs of `codegen` a load never finds an
  *old* value; it finds the right one, or an unstored variable where its path has passed
  a store by.
* `codegen_nested` - In `var x = 0; if (c) if (d) x = 1; else x = 2; x` every branch of
  the inner `if` stores `x`, and yet a path loads a variable it has not stored. Merging the first branch
  makes the scope around it the holder of `x`, so the second branch does not find the
  id of the first in the map (`function.cpp:78`) and makes a phi of its own, which
  stands for `x` from then on.
* `numeric_long` - A literal of type `l` is emitted as `Ldci4` with a 64-bit number
  (`compiler.re:270`); `bytecode.hpp:62-63` has `ldci4 <i4:i4> [ -> i4]` and
  `ldci8 <i8:i8> [ -> i8]`, which nothing emits. So `5000000000l` passes the limit and
  another number is loaded.
* `verifier_jump` - `action` is declared outside the loop of `iterate()`, so that
  after a `Br` it stays `Stay`: the instruction at the target is verified, the
  counter does not move, and the closure ends on meeting it again. The loop that
  `iterate()` replaced, kept as a comment in `verifier.cpp`, declares it inside.

More cases are known in which a property fails; the runs that check it leave them
out, or the property names them.

* In `var x = 0; if (++x) 0; x` the condition stores `x` in the scope of the first branch
  (`compiler.cpp:627-636`), and its copy is made at the end of that branch only: on the other path the
  load behind finds nothing, though both paths stored `x` (`NeverStale`).
* The scanner and the patterns of `compiler.re` let `_` through among digits, and
  `etc/formab-afl/pf-numbers.fma:7` writes `0o711_644`; `readIntBasic` turns any character
  above `Z` into a small letter's digit, `_` into 8 (`LoadsItsValue`, with `"separator"` in
  `Odd`).
* `readInt` allows a negated literal one above the limit of an unsigned format too: `-256uy`
  is accepted, and converts to 0 (`LoadsItsValue`, with `"negated"` in `Odd`).
* `let x = 1; let x = 2;` stores `1@x` twice (`SingleAssignment`): nothing refuses
  the second declaration, and `bind` restarts the numbering. The constant
  `Redeclares` admits it.
* In `var x = 0; { x = 1; let x = 2; } x` the assignment makes the block borrow `x`, the
  declaration does not end that, and the block's own `x` is copied over the outer
  one at its end (`NeverStale`, with `Redeclares`).
* `1 + { return 2; }` executes `Ret` with 1 below the result (`ReturnsOne`), which the
  verifier reports and the comment on the opcode allows.
* For a unary selector a curry pushes the receiver and the keyword and sends
  `FICurry`, which has arity 3 (`NeverUnderflows`). The curry of a keyword selector
  pushes an argument too and is right (`curry keyword`, in `codegen`).
* A file that ends in a block comment or a prae block is never finished: the
  `<<EOF>>` rules there report an error and go on (`ScanEnds` names them). In a raw
  block the same rule also ends a buffer, the second time on an empty stack
  (`BuffersMatch` names it). A file that ends in a literal outside a block, or
  behind an `@`, is accepted without an error, and the rest is dropped.
* `_a` outside SSEscapedID pops a condition: in a prae block the scanner
  leaves the block while the parser is in it; outside, it exits (`PopsMatchPushes`
  and `BlocksMatch` hold up to then). Where another rule matches as long and stands
  before it (`_` in a prae block, `12` or `ab` anywhere), that one is taken.
* `1e-3i` ends in `assert(expon > 0)`; `0b1e-1` matches a rule of the scanner and no
  pattern of `compiler.re` (the "probably shouldn't happen" there); an exponent
  above 1023 is refused for real literals too.

## 4. What is proved

Each of the modules below proves, of the specification it extends, `Spec => []P`
for the properties `P` of its runs, for every value of the constants that the named
assumption allows.

| Module | Theorem | Statement |
|---|---|---|
| `DepsGraphProofs` | `TypeCorrect` | `Spec => []TypeOK` |
| | `QueueCorrect` | `Spec => []QueueIsOpen` |
| | `InputsCorrect` | `Spec => []InputsComplete` |
| | `AssertionsCorrect` | `Spec => []OnlyEmptyEdgesAbort` |
| | `CompletenessCorrect` | `Spec => []RunsAllButCycles` |
| | `RefinementCorrect` | `Spec => Order!Spec` (the safety part of `ImplementsOrder`) |
| `FISchedulerProofs` | `TypeCorrect` | `Spec => []TypeOK` |
| | `InnerFirstCorrect` | `Spec => []InnerFirst` |
| | `ReadsCorrect` | `Spec => []ReadsOwnFunction` |
| | `StringsCorrect` | `Spec => []StringsStay` |
| | `NeverAbortsCorrect` | `Spec => []NeverAborts` |
| | `LookupsCorrect` | `Spec => []LookupsSucceed` |
| `RefTrackerProofs` | `TypeCorrect` | `Spec => []TypeOK` |
| | `CountsCorrect` | `Spec => []CountsPointers` |
| | `TrackersCorrect` | `Spec => []TrackerOutlives` |
| | `DestructionCorrect` | `Spec => []NoResurrection` |
| `PositionProofs` | `TypeCorrect` | `Spec => []TypeOK` |
| | `LinksCorrect` | `Spec => []LinksExact` |
| | `RefinementCorrect` | `Spec => ImplementsPositions` |
| `NumericProofs` | `TypeCorrect` | `Spec => []TypeOK` |
| | `LoadsCorrect` | `Odd = {}` implies `Spec => []LoadsItsValue` |
| | `RefusesCorrect` | no separators imply `Spec => []RefusesOnlyMisfits` |
| `ScannerProofs` | `TypeCorrect` | `Spec => []TypeOK` |
| | `BuffersCorrect` | `Spec => []BuffersMatch` |
| | `BlocksCorrect` | `Spec => []BlocksMatch` |
| | `PopsCorrect` | `Spec => []PopsMatchPushes` |
| `VerifierProofs` | `RealCorrect` | `Spec => []ReportsAreReal` |
| | `UpToJumpsCorrect` | `Spec => []ReportsUpToJumps` |
| | `TypeCorrect` | `NoCurries` implies `Spec => []TypeOK` |
| `PraeRunProofs` | `TypeCorrect` | `Spec => []TypeOK` |
| | `PhiCorrect` | `Spec => []PhiSound` |
| | `Balanced` | `NoCurries` implies `Spec => []NeverUnderflows` |
| | `OneReturned` | `NoCurries` and no `return` imply `Spec => []ReturnsOne` |
| | `JumpsCorrect` | `NoLoops` and `~Redeclares` imply `Spec => [](pc # 0 => Loopless)` |
| | `SingleCorrect` | `NoLoops` and `~Redeclares` imply `Spec => []SingleAssignment` |

What they assume of the constants:

* `DepsGraphProofs`: `GraphAssumption`, a natural bound and a boolean. So the theorems
  are about every set of nodes and edges, finite or not, every graph that can be
  built over them, with and without assertions.
* `FISchedulerProofs`: `SchedulerAssumption`, at least one unit, some string, a
  boolean. The bound on the units is any number, and so are the nesting and the
  strings.
* `RefTrackerProofs`: `RefAssumption`: the limit of the counters is positive, there are
  finitely many pointers (or they could not be counted), and a local pointer is no
  member.
* `PositionProofs`: `PositionAssumption`: the bound on the nodes is positive.
* `NumericProofs`: `NumericAssumption`. Of the integer types of the code (2^32, 2^64,
  127, 32767, an exponent of 1024) it keeps what the arguments use: moduli are even,
  the larger is a multiple of the smaller, twice the limit of I2 is below the
  modulus of I4, and the exponent's limit is below it too. `LoadsItsValue` is false
  for each of the `OddKinds`, so `LoadsCorrect` leaves them out; `RefusesCorrect` leaves out
  separators only, the value of which is none.
* `ScannerProofs`: `ScannerAssumption`: the bound on the lexemes is a natural number.
* `PraeRunProofs`: nothing in general: any set of names, any number of pieces, every
  construct. `NoCurries` leaves out the curry of a unary selector and `OneReturned` also return
  statements, for which the properties are false (see the cases above). So is
  `SingleAssignment` with loops, which store the same variables in every round, and with a second
  declaration of a name in its scope: `SingleCorrect` leaves out both.
* `VerifierProofs`: nothing, for the two properties of the reports. Of the generator they use that it compiles no more once it
  is through; the code it hands over may be any, with labels anywhere. `TypeCorrect`
  needs the generator, and leaves out the curry of a unary selector as `Balanced` does.

*The argument for the graph.* `QueueIsOpen` and `InputsComplete` are not inductive alone. The
first invariant, `Inv`, adds `Linked` (in() and out() record each link at both
ends: an edge's outputs and a node's writers agree, without which an edge that is
Done could fail to be a writer), `Fresh` (nothing has moved until `run()`), and
`CyclesClosed` (edges that wait for one another are Closed: a member of such a set
could only be opened once a writer of its input is Done, and that writer is in the
set). Each action is one of a few shapes, and a lemma per shape carries `Inv` over
it: building, silent steps, a node becoming ready, `Edge::stat`, the return of a
rule, the pop.

Completeness needs the converse: nothing that *could* open is overlooked. `IInv`
adds `Settled`: a node that could become ready, or an edge that could open, is
still to be visited by one of the loops (`NodePending`, `EdgePending` say which
iterations are left), `Declared` (links name objects of the graph) and `Drained`
(the queue is empty when `run()` is done). At `done` nothing is pending, so no
edge can open; then the Closed edges all wait for a Closed edge and form a cyclic
set by themselves, which is exactly `RunsAllButCycles`. The same invariant gives
the refinement: at `Finish` no edge is `Executable`.

*The argument for the positions.* `LinksExact` compares two live nodes, so it says
nothing of the two ends of the list, and the last node has to be the tracker's.
The inductive invariant `Inv` says of each link where it points among all live
nodes (`Linked`: to the nearest one, or nowhere if there is none), that nodes not
made yet point nowhere (`Fresh`), that the root outlives the others (`Close` waits
for them), and that no live node is later than `m_node`. With it the assertions of
the destructor hold (`DestructorSound`), unlinking a node closes the gap
(`UnlinkLinked`) and leaves the tracker at the last live node (`UnlinkCurrent`),
which is what `Positions` asks of `Leave`.

*The argument for the scheduler.* The scheduler's graph is an instance of
`DepsGraph`, and `DepsGraphProofs` is instantiated with it: `GP!IInv` is part of the
scheduler's invariant, and the steps of `run()` keep it by the lemma that is proved
there (`RunStep`). What is left is that `schedule()` builds graphs of that kind.
`ScheduleGraph` and `WalkDepsGraph` show that a whole pipeline, and the links of a
whole DepWalker, keep links recorded at both ends and within the graph; for the
latter the units inside a unit are an interval behind it (`InsideIsInterval`). The
rest of the invariant says which links there are (`Pipelines`, `Waits`), that the
stores are one to one (`Tables`), and that ids, numbers and listings are there for
exactly the units whose edges are Done (`Results`). When a rule runs its edge is
Open, so `InputsComplete` of the graph makes the writers of its inputs Done: the
edges of a pipeline one after the other (`Chain`), and the dump edge of every
function inside. That no number exceeds the number of units needs a count: a store is one
to one, and what is in it comes from units (`StoreBound`). `NeverAborts` comes from
the graph's `OnlyEmptyEdgesAbort`, and `Pipelines`: no edge is without links. `LookupsSucceed`
collects the lookups that throw in the code and are guards in the model; it shows that
no guard hides one.

*The argument for the reference counts.* The counters, the stages of the objects'
lives and the pointers agree as long as each destructor that runs is that of
another object. The counters alone do not give that: a pointer that is being
released on one level of the stack could be released again on another. `Anchored`
says why it is not: each such pointer belongs to the code one level further out,
or to an object that this code owns, and an object that is owned has not begun to be
destroyed. `Invariance` has one step per action; the counts move by the lemmas on
adding and removing one element of a finite set.

*The argument for literals.* While digits are read `num = exact`: the three tests of
`readIntBasic` (the quotient before the product, the product and the sum behind it)
refuse a digit exactly if the exact result is above the limit, although product
and sum are reduced modulo the size of the type (`RoundExact`). So nothing that passed has wrapped.
At the end the conversions to a narrower type are remainders of a number whose
range is known.

*The argument for the scanner.* The stack of conditions has one of few shapes
(`Shape`): INITIAL is at the bottom and nowhere else above it, the second is any
other, and only over a prae block is there a third. So a buffering condition can only be on top, and
the pops of the rules find what they expect. Only the rule of a stray escaped name
pops without looking.

*The argument for the verifier.* Both properties are about the end; the invariant is
about the queue. `FromPaths`: a closure waits where a path goes on from some visit,
or at an instruction this `iterate()` has covered, where it ends without a visit. `AllPaths`:
where a path without jumps goes on from a visit, there is a visit or a closure
waits. A closure that ends at a covered instruction could break the second; but
until it jumps a closure only goes forward (`Forward`), so what it has covered lies
behind it. When the queue is empty nothing waits, and `AllPaths` is the property.
`QueueAfterRun` says what a round does to the queue and the other lemmas use no more.

`TypeOK` says that a closure never pops from an empty stack, which is as true as the code
is good. `PraeRunProofs` is instantiated for it, with no function running; the actions
of the compiler are the same there (`SameCompile`). Its heights of the code
(`Heights`) are the sizes of the closures' stacks (`Levelled`), but for a closure that
stays at an instruction it has covered: it counted that instruction without moving, and
is about to end.

*The argument for the code generator.* `NeverUnderflows` is about the code that is
executed, but its reason lies in the emit functions that made it, and those are gone by
then. `Flows` ties the two together. It gives every place of the code a height of
the operand stack (`Heights`: each instruction takes and leaves what it should, and a
jump has the height its label has), and every place of `todo` one too
(`Ahead`): compiling what is left goes on from the height the code ends with, and from the
depth of the scopes, and ends at depth 2 with every label placed. Each emit
function is a sequence of calls that leads from a point to the point its callers
count on (`Expands`): one lemma per emit function, on the sequences it puts
in `todo`, and these sequences come from parts that are shared (`Branches`, `Loop`,
`Paren`). A step of the compiler then takes the front of `todo` to the end of the
code (`CompileFlows`), where a label that a jump meets before it is placed has its
height already. When the compiler is through, `todo` is empty, so every label is placed, the last
instruction returns (`Ends`), and execution keeps `Len(operands)` at the height of `pc`
(`Running`). None of it depends on how the loops over modified variables go:
each round of `MergeName` adds a load and a store and leaves the height alone.

`TypeOK` and `PhiSound` need the chain of scopes too (`Chain`): ids grow inwards, and
what a scope has borrowed is in the scope it names, mutable, and in none between
(`Lent`). A scope can be popped with that still true of what is to be merged (`Merged`),
and merging one variable leaves it true of the others.

`SingleAssignment` says of the path that is executed what has to be known of the code when it
is compiled. A name given to a variable is new (`Numbered`, `Renewed`): its scope id is below
`m_nextScopeId`, and while the scope is there its phi and count are not behind the
last ones given for that name (`Later` orders them). A scope that is gone never comes
back. So the only variables that are stored by two instructions are those a branch
records for its label (`Distinct`: once each), which `applyScopeWithIds` stores again at
the end of the other branch. What parts the two is the `Br` that ends the first
branch: behind the store the code only copies variables (`OpenAt`) until it leaves
(`SealedAt`) for a label that is placed behind the second store (`Parted`). For
this the places of the flow carry more than heights: the label whose
variables were just recorded, the labels nothing was recorded for yet, and the pairs of a label
and the one its branch has left for; `Discipline` says how each item of `todo` passes them on,
which a loop does not. All jumps go forward (`Forward`, and so `JumpsCorrect`). So what is executed never comes to a second store:
`Once` says of each variable stored so far that no store of it can be met from `pc`
on but on the far side of a `Br` that is taken first (`Meets`).

*Only model-checked.* Liveness (`Stops`, the progress part of `ImplementsOrder`,
`AllDumped`, `CascadeEnds`, `ScanEnds`, `VerifyEnds`): fairness and ENABLED are out of
the prover's reach. `NeverStale` of `PraeRun`.
`Program`, the set of nestings, is taken as the walker's numbering defines it.

## 5. What is not modelled

* Rule bodies beyond the tables they share; structs, messages and keywords
  interned by an assembly, which work as strings do; the text of messages and
  listings. `FAtomStore::emplace`, which nothing calls, and the store for keys wider
  than `size_t`, which nothing instantiates.
* What characters make a lexeme, and the positions (`yylloc`) of tokens. (A line
  continuation in a literal is counted as two lines there: its rule adds the
  length of the match.) What the parser does with tokens, and where it stops.
* `FDepsGraph::dot`, which only prints. `scheduleType` and `dropScope`, which
  nothing calls.
* The types the verifier keeps on its stack, and what it prints of them;
  `compileType`, which does nothing.
* The parser and the AST: generated from `scripts/ast.rb`. The optimizer and the
  interpreter: empty.

## 6. Plan

All components with state or control of their own are modelled, and most of their safety
properties are proved. What is left:

* **PraeRun**: `NeverStale`, from the invariant of `SingleAssignment` and one that relates
  the scopes at each place of the code to what a path has stored there.
