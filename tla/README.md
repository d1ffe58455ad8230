# Specifications of LLZK passes and analyses

LLZK is an intermediate representation for zero-knowledge circuits, built on
MLIR, with a library of transformations and analyses over it. This directory
holds TLA+ specifications of those parts of the library whose correctness
depends on an order of steps, on several data structures that must agree, or on
a fixed point: what each of them promises, what TLC found out about small
instances, and what TLAPS proves for all instances.

Run a check with `tlc -workers 2 -config X.cfg M` (the module of a
configuration is the one it is named after, or the one given in the table of
runs), and the proofs with `tlapm X_proofs.tla`.

1. [Inventory](#1-inventory)
2. [Plan](#2-plan)
3. [Modules and how they correspond to the code](#3-modules-and-how-they-correspond-to-the-code)
4. [Runs](#4-runs)
5. [Fairness](#5-fairness)
6. [Proofs](#6-proofs)
7. [Disagreements between code and comments](#7-disagreements-between-code-and-comments)
8. [What is not covered](#8-what-is-not-covered)

## 1. Inventory

The library is one process, and a pass runs on one operation at a time: nothing
is persisted, no messages are sent. What is hard is *ordering*: containers
keyed by pointers (`DenseMap`, `DenseSet`) are iterated in an order that
differs from run to run, worklists grow while they are consumed, recursion
leaves provisional results in shared tables, data-flow solvers revisit
operations in an order nobody wrote down, and passes mutate the program while
they hold facts about it. `MLIRContext` may run passes on different functions
in parallel, but the modelled ones are module or function passes whose state is
local to a run.

| Component | State it keeps | Operations | Interacts with | What is hard | What makes it correct | Status |
|---|---|---|---|---|---|---|
| **Unused declarations** `lib/Transforms/LLZKUnusedDeclarationEliminationPass.cpp` | IR, set of candidate members, maps `uses` and `usedBy`, vector `unusedStructs` | walks over reads and writes, erase members, worklist of structs, empty modules | symbol lookup (may fail) | order of the map; refill of the worklist; a failure halfway | no use of something erased is left; nothing is erased twice; only unread members go; every dead struct goes | modelled, proved |
| **Flattening clean-up** `Step6_Cleanup` in `lib/Dialect/Polymorphic/Transforms/FlatteningPass.cpp` | `roots`, `symbolsToKeep`, `defsToKeep`; or `tryToErase`, `visitedPlusSafetyResult` and the call stack | `FromKeepSet`, `FromEraseSet` | reads `SymbolDefTree`, `SymbolUseGraph` | a vector that grows while iterated; memoised recursion over cycles with provisional marks | nothing dangles; only what is reachable is kept; nothing is given up without need | modelled, proved |
| **Redundant reads and writes** `lib/Transforms/LLZKRedundantReadAndWriteEliminationPass.cpp` | `KnownState` (tree of references, globals, RAM), `replacementMap`, `redundantWrites` | one walk over a function, merge of regions, then the rewriting | side effects of operations | aliasing of indices, loops, branches, nodes shared between cloned states | a replaced read has the replacement's value; an erased write is not needed | partly modelled, proved |
| **Intervals** `lib/Analysis/Intervals.cpp`, `lib/Util/Field.cpp` | none (values) | join, intersect, difference, reduce, arithmetic, comparison | used by the analysis below | seven types of interval, half-way boundary, wrap-around | every operation contains the results of its operands' values | modelled |
| **Interval analysis** `lib/Analysis/IntervalAnalysis.cpp`, `SparseAnalysis.cpp` | lattice per value, solver's queue, recursion of `applyInterval` | `visitOperation`, `applyInterval` with its rules | solver, intervals, source references | values are narrowed *after* their users were visited; backward propagation through operations; order of the queue | intervals contain every execution's values; they only shrink; the end is a fixed point | partly modelled |
| **Symbol graphs** `lib/Analysis/SymbolDefTree.cpp`, `SymbolUseGraph.cpp` | tree, graph | building, walks, printing | clean-up | the printer and the clean-up each walk a graph with cycles | every symbol of the unit is in the tree; every use is an edge | inputs of the clean-up |
| **Flattening driver** `FlatteningPass.cpp`, names by `BuildShortTypeString` in `TypeHelper.cpp` | templates and definitions of the module, `ConversionTracker` (instantiations, `modified`), operations replaced but not yet erased, iteration count | instantiate main, structs, functions, affine maps; unroll; propagate types | dialect conversion, type unification, clean-up | a loop to a fixed point with a limit; clones made while a conversion has pending replacements; instances that are found again by name; partial instances | every use means what it meant in the original; every use resolves; the loop ends flat, or fails for a cause | partly modelled |
| Wildcard arrays, templates `WildcardArraySpecializationPass.cpp`, `EmptyTemplateRemovalPass.cpp`, `SharedImpl.cpp` | specialisations made so far | clone and specialise functions, remove empty templates | same tracker and rewriting as the driver | calls among functions that are specialised | one clone per shape, none unused | planned |
| Struct inlining `lib/Dialect/Struct/Transforms/InlineStructsPass.cpp` | inlining plan, complexity per struct, clones of members | plan along the call graph, inline `compute` and `constrain` | call graph | plan computed before the IR changes | the plan is acyclic, the bound is respected, member values correspond | planned |
| Arrays, PODs to scalars `ArrayToScalarPass.cpp`, `PodToScalarPass.cpp` | member replacement maps | five steps of conversion | dialect conversion | partial results between steps | reads of split aggregates see their last write | planned |
| Redundant operations `LLZKRedundantOperationEliminationPass.cpp` | map of equal operations, dominance | walk, translate, erase | call graph order | nested regions | replaced operations dominate and compute the same | planned |
| Product programs `LLZKComputeConstrainToProductPass.cpp`, `LLZKFuseProductLoopsPass.cpp`, `LightweightSignalEquivalenceAnalysis.cpp` | alignment of calls, equivalence classes | align, fuse | SMT solver | greedy matching | aligned calls are equivalent | planned |
| Member overwrite and checks `MemberOverwriteAnalysis.cpp`, `LLZKEnforceNoOverwritePass.cpp`, `Validators/` | lattice per member | one forward data flow | solver | loops and branches | every member is written exactly once | planned |
| While-to-for, unused allocations `LLZKWhileToForPass.cpp`, `LLZKRemoveUnusedDiscardableAllocationsPass.cpp` | none | local rewrites | | trip counts | same iterations | not modelled |
| **Polynomial lowering** `lib/Transforms/LLZKPolyLoweringPass.cpp`, `LLZKLoweringUtils.cpp` | body of `constrain`, `degreeMemo`, `rewrites`, `auxAssignments`, recursion of `lowerExpression`, copy of a call's operands | three walks (equalities, containments, calls), degree checks, order of the writes in `compute` | R1CS back end, which relies on degree 2 | memo and cache keyed by addresses of operations that are replaced and erased meanwhile; a cached replacement used at another place | values are kept, definitions dominate uses, auxiliary members are determined and written in order, the bound is met | partly modelled |
| Call graph `CallGraph.cpp`, `CallGraphAnalyses.cpp` | graph, reachability cache | walk, depth-first search | inlining, analyses | cycles | callers after callees | planned |
| Dependency graph, source references `ConstraintDependencyGraph.cpp`, `SourceRef.cpp`, `SourceRefLattice.cpp` | sets of references, equivalence classes, `ref2Val` | forward data flow, translation to the caller | solver, call graph | translation of a callee's references | every signal of a constraint is in its class | planned |
| Type unification `TypeHelper.cpp`, `AffineHelper.cpp` | unification map | structural recursion | driver, verifiers | conflicting bindings | symmetric where it claims to be | planned with the driver |
| Symbol lookup, includes `SymbolHelper.cpp`, `SymbolLookup.cpp`, `InlineIncludesPass.cpp` | loaded modules | lookup, loading of files | all passes | include cycles, lifetime of loaded modules | a lookup and its inlined form agree | taken as an input |
| Field registry `Field.cpp` | static map of fields | add, find | parser, interval analysis | filled lazily while attributes are parsed | one field per name | arithmetic only |
| Dialects `lib/Dialect/*/IR` | IR | parse, verify, fold | everything | | an operation's own rules | folds of felts only |
| Witness generation `tools/llzk-witgen` | memory of the interpreter, trace | interpret, lower, execute | dialects | two implementations of one meaning | interpreter and compiled code agree | planned |
| **R1CS back end** `backends/r1cs/lib/r1cs/Transforms/R1CSLoweringPass.cpp` | `degreeMemo`, `rewrites` of its own, linear combinations | normalise equalities, build constraints | runs after the polynomial lowering | stale uses between two passes; signs and scaling of combinations | one product per constraint; a constraint says what its equality said | partly modelled |
| Other back ends `backends/` (PCL, SMT, zkLean) | output program | translate operation by operation | dialects | | same constraints | not modelled |
| Pipelines, wrappers of analyses, tools, language server, C API, Python, table generator, debug helpers | none | glue | | | | not modelled: no state of their own |

The hazards of this code are listed, each at its line, in `PROJECT.json`
(`hazards`), with the property that covers each or the reason why none does.

## 2. Plan

Order: first the passes that *delete* parts of a program on the strength of
facts they collected before, since a wrong deletion silently changes the
circuit; then the analysis whose results are trusted by users; then the
passes that rewrite.

| | Modules | Abstract specification | Theorems | State |
|---|---|---|---|---|
| 1 | `UnusedDeclarationElimination` | `DeadDefinitions` | types, no dangling use, no double erase, only unread members, implementation | done |
| 2 | `SymbolGraphs`, `FromKeepSet`, `FromEraseSet` | closure under use, stated over all closed sets | types, no dangling use (when all targets go, for the erase set), reachability, need | done |
| 3 | `RedundantReadWrite` | the execution that runs along | types, reads preserved, no chains | done |
| 4 | `Intervals`, `IntervalArithmetic`, `IntervalAnalysis` | concrete executions | no operation on intervals, no visit and no rule of `applyInterval` loses a value, outside the listed operand types; every result is well formed; types and narrowing of the analysis | done |
| 5 | `FeltBlock`, `PolyLowering`, `R1CSLowering` | executions of the body on concrete inputs | definitions dominate uses, handles stay live, auxiliary members are determined and written in order, degrees meet the bound, values are kept | modelled, checked, these proved for the lowering |
| 6 | `FlatteningDriver` | what a use means: the original definition and values for its parameters | types, with that `structInstantiations` has an inverse; every use resolves; every placeholder of a name has an attribute | modelled, checked, these proved; propagation of types is left |
| 7 | struct inlining over a call graph | inlining as a partial order of structs | the plan is acyclic and complete | |
| 8 | source references, dependency graph | union–find of references | | |
| 9 | arrays and PODs to scalars, overwrite analysis | memory of scalars next to memory of aggregates | | |
| 10 | witness interpreter | | | |

Compositions: `FromKeepSet` and `FromEraseSet` share `SymbolGraphs`;
`IntervalAnalysis` composes the interval domain with the solver; `R1CSLowering`
extends `PolyLowering`, so that the back end runs on exactly the blocks that
the lowering leaves, as in the pipeline `-llzk-full-r1cs-lowering`.
The runs are kept to one per question; the bound of each is in section 4.
The modules of steps 1 to 6 are written for proofs as well: constants with named assumptions,
one action per step, invariants as conjunctions, recursion as functions or
folds and no RECURSIVE operator.

## 3. Modules and how they correspond to the code

`PROJECT.json` (`map`) gives the source lines of every definition.

### UnusedDeclarationElimination, DeadDefinitions

A unit is a set of structs and a set of operations; an operation is a member
definition, a read, a write or something else, in a struct or in a free
function. `mentions` is the set of structs that occur as a type of the
operation, which is all the pass looks at.

* `WalkReads`, `WalkWrites`, `EraseMembers` are the three walks of
  `removeUnusedMembers`. An unresolved reference fails the pass; the walk over
  the writes has by then erased some of them, any subset since the order of the
  walk decides which.
* `CollectUses` builds `uses` and `usedBy` and fills the worklist.
  `EraseStruct(s)` is one iteration of the loop: pop, erase, unlink, and refill
  when the vector ran empty (`Refilled`). The vector is a bag (`unused` counts
  occurrences): the order of its elements is that of a `DenseMap` keyed by
  pointers, so any of them may be the next.
* `RemoveEmptyModules` erases the modules that are empty when the walk meets
  them.

`DeadDefinitions` says what the removal of dead definitions is, without
worklist and maps: as long as something unused is left, remove it. It may end
only when nothing unused is left, whether it removed something before or not.
The pass has ended in its sense (`Ended`) when it comes to the empty modules, or
is done with the option to remove structs; without the option, or after a
failure of the walks, it removes no struct and does not claim to have ended.
`PrunesDeadStructs` is that specification under the mapping `live <- structs`,
`edges <- UseEdges` (computed from the operations that are left, not from the
pass's maps).

### SymbolGraphs, FromKeepSet, FromEraseSet

The definition tree and the use graph are inputs: `Kind`, `Parent` and a set of
use relations that meets `UsesAssumption` (a user of a struct's function or
member mentions the struct).

`FromKeepSet`: `TakeRoot` is an iteration over the growing `SetVector` of
roots, `VisitSymbol` a step of a depth-first walk, whose visited set
`symbolsToKeep` all walks share; a path the lookup does not find fails the pass
(`LookupFails`); `EraseUnreachable` is the walk that removes the rest.

`FromEraseSet`: the recursion of `collectSafeToErase` with an explicit stack
(`current`, `caller`, `waiting`). `Enter` marks the symbol as safe before
anything is looked at, `FoundSafe`, `FoundUnsafe` and `Descend` are the results
of the recursive call, `ReturnSafe` and `ReturnUnsafe` its ends; the latter
reverts the mark. The iteration over the `DenseSet` and over the edges is in
any order, except that the definition a symbol is in is looked at first.

### RedundantReadWrite

The function is generated operation by operation while the pass walks over it,
so that all functions up to the bounds are covered, and one execution runs
along: `env` and `mem` are the run-time values and memory, `live` tells whether
the region being walked is executed. The pass's state is `facts`
(`KnownState`: what each place is known to hold), `lastWrite`, `replacement`
(`replacementMap`) and `redundant` (`redundantWrites`). A place is a class
(global, RAM, array, member) and a value that names it.

* `Read`, `WriteGlobal`, `StoreRam`, `WriteTree`, `UnknownEffect` are the cases
  of `runOperation`; `Invalidated` and `ForgottenWrites` are what a write
  through a variable index, or to a member, makes unknown.
* `EnterRegion`, `NextRegion`, `LeaveRegion` are the handling of operations
  with regions: the entry state (emptied of globals and RAM for loops), the
  clone for the second region, and the merge (`AfterRegion`, `Common`).
  An executed loop iteration need not be the first: `EarlierIterations` lets
  the memory be any of `Memories` on entry.
* `UnknownEffect(handed, changed)` is a call, or another operation with effects
  the pass does not know: it is handed the array or the struct, or not, and may
  change what it is handed (`changed`) and in any case globals and RAM. The pass
  forgets globals and RAM and keeps the rest, `lastWrite` included (852-855).
  `lent` collects what was handed to calls, for the properties.

### Intervals, IntervalArithmetic, IntervalAnalysis

`Intervals` is the domain: an interval is a type and two bounds, an unreduced
interval a pair of integers, and `ReduceTo`, `Join`, `Intersect`, `Difference`
follow the code case by case (as functions over pairs of intervals, so that TLC
evaluates an argument once). `Gamma` is the meaning of an interval.
`IntervalArithmetic` has each operation twice: `Result` on values, from the
folds of the felt dialect, and `Transfer` on intervals. The pieces of a division
are written out (`JoinPieces`), an interval having at most two canonical parts.

`IntervalAnalysis` runs over one straight-line body (`circuit`) together with
one execution that meets its constraints (`witness`). `FirstVisit` is the
initialisation in program order, `Revisit` a pop of the solver's queue;
`VisitOperation`, `VisitCast`, `VisitEmitEq`, `VisitAssert` are the branches of
`visitOperation`. A constraint starts `applyInterval`; `todo` is the stack of
calls that are still to be made, and each `ApplyTo...` action is one call: it
narrows the value, queues its users (`SetValue`) and pushes the calls for the
operands of the operation that defined it. `Abort` is a failing `ensure`.
`CircuitsAssumption` is what SSA form and the operations' verifiers give:
operands are results of earlier operations, constraints have none, and `i1`
values meet only operations on `i1` (`IsTyped`). `Walked` is the frontier of
`getGeneralizedDecompInterval` as the least set closed under the factors of a
product, and `Root` what a factor contributes.
The queue is a bag: its order follows from use lists, so any order is allowed,
which includes the real one.

### FeltBlock, PolyLowering, R1CSLowering

`FeltBlock` is one block of felt operations: `block` is the list of the
addresses in program order, `op` what is stored at each. An erased operation is
no longer in `block`, but stays in `op` (its memory). `Insert`, `Erase`,
`ReplaceAllUses` and `ReplaceSubsequentUsesWith` are the steps of MLIR's builder
and of `LLZKLoweringUtils`. `IsBody` is what the verifiers ask of a block: as many
operands as the kind takes, of the right kind, each defined before its use; the
programs of `PolyLoweringAssumption` meet it.

`PolyLowering` is the pass on the body of one `constrain`. `lowerExpression` is
recursive and changes the block, `degreeMemo` and `rewrites` between its
recursive calls: `stack` holds its activations (`at` is where one is), and
`returned` what the last call returned. `walk` and `slots` are the operations
and the operands that are left to visit: a set each, as `Visit` and `Slot` take
the first in program order, which no step changes for what is left.

* `ReturnCached`, `ReturnUnchanged`, `LowerLhs`, `LowerRhs`, `ReturnRoot`,
  `BeginProduct`, `Factor`, `ReturnProduct` are the branches of
  `lowerExpression`. `Factor` is one iteration of the loop that factors a side
  into an auxiliary member: the read and the equality are inserted, and the
  uses from there on are replaced.
* `VisitEquality`, `VisitContainment`, `VisitCall` and the actions after each
  are the three walks. `call` is the copy of a call's operands that is changed
  while the block changes.
* `CheckDegrees` are the checks of degrees at the end, and `BeginVisit`,
  `VisitDependency`, `WriteAux` the depth-first order in which `compute` writes
  the members.

`R1CSLowering` goes on with that block for the bound 2: `BeginSide`,
`SkipNormalized`, `KeepValue`, `SplitSum` normalise the sides of an equality
along a post-order worklist, and `EmitSplitEquality`, `EmitEquality`,
`EmitAtErasedSum` rebuild it. `builder` is where the builder of the equality
stands: before it at first; after `SplitSum`, at the sum that was split and
erased; before it again when both sides are quadratic (713). When one is linear
and a sum was split, the equality is created at the erased sum
(`EmitAtErasedSum`). What that does is undefined; the links of an erased
operation are null and its memory is free, so the model has the run end there.
Otherwise `EmitConstraint` builds the constraint with
the arithmetic of linear combinations (`Add`, `Multiply`, `Equated`).

### FlatteningDriver

A unit is its templates (parameters in order, and expressions over them) and
its definitions; a definition is a path, in a template or in the module, and
what it uses: a call of a struct's `compute`, with the arguments of the result
type, or of a function, with the values that unification finds; in a loop, or
not. An argument is a constant, a parameter or expression by name, or an affine
map of the loop's variable. A name is a sequence of parts, words and numbers,
with a placeholder where a value is still open, so that two names are equal when
the strings are. `IsUnit` says what units there are: every use has a target, as
many arguments as its template has parameters, and names what is declared; the
templates' names are words, without the placeholder or a value in them.

* `InstantiateMain` and `KeepMain` are `instantiateMainStruct`.
* `BeginRound` to `EndRound` are an iteration of the loop in `runOn`.
  `ConvertStructUse` is `CallStructFuncPattern` with the type converter, the
  cloner (`StructInstance`) and the tracker (`RecordStruct`). Conversion keeps
  the operation it replaces until the end (`EndStructs`): a struct that is
  cloned in between is cloned with both.
* `InstantiateCall`, `KeepCall` and `CalleeMissing` are
  `InstantiateFuncAtCallOp`, with `FunctionInstance` for `instantiateFully` and
  `instantiatePartially`. The operations of a step are visited in any order.
* `Unroll` and `FoldAffineMaps` run to their end, as the greedy driver does.

Each definition carries what it is a clone of and for which values (`origin`,
`values`): nothing reads this but the properties.

## 4. Runs

Each property of a passing run has a mutant in `PROJECT.json`: a definition
changed the way a plausible bug would change the code, which makes TLC find
the property violated in the same run.

| Run | Module, configuration | Instance | What it shows |
|---|---|---|---|
| `unused_decl` | `MCUnusedDeclarationElimination` | 3 structs (one in two nested modules), 2 members, 2 other operations (two writes among them, one of which may not resolve), with and without Main, the option, public members, unresolved references | `NoDanglingUse`, `WorklistSound` (no struct is queued twice, or with users), `OnlyUnreadErased` also after a failure, `PrunesDeadStructs`, `Terminates` |
| `keep_set` | `MCFromKeepSet` | 2 structs with functions, a free function, global, contract, included and unknown symbol; 240 graphs, every set to keep | `NoDanglingUse` among what the pass may erase, `KeepsOnlyReachable`, `Terminates` |
| `erase_set` | `MCFromEraseSet` | a template with 2 structs and a function, a function that stays, an included one; 1024 graphs, most with cycles; 2 sets of targets | `UnsafeIsNeeded`: a target survives only if something that stays needs it; `NoDanglingUnlessGivenUp`; `Terminates` |
| `erase_set_dangling` | same, `FromEraseSetDangling.cfg` | same | violation of `NoDanglingUse` |
| `read_write` | `MCRedundantReadWrite` | up to 4 operations (calls among them, which are handed the array or struct or not, and change it or not) and one `if`, `if`/`else`, `for` or `while`; 2 values; an argument that may equal the constant; 8 shapes of functions | `StatefulReadsPreserved`, `ReadsPreserved`, `WritesPreserved`, `NoDaisyChain` |
| `read_write_aliases` | same, `ReadWriteAliases.cfg` | array only, 4 operations | violation of `AllReadsPreserved` |
| `read_write_double_erase` | same, `ReadWriteDoubleErase.cfg` | member, `if`/`else` | violation of `NoDoubleErase` |
| `intervals` | `MCIntervalAnalysis` | field of 7 elements, eleven families of circuits, inputs of all types of interval, every execution | `StaysSound`, `Narrows`, `Settled`, `EnsuresHold`, `Terminates` |
| `interval_orderings` | same, `IntervalOrderings.cfg` | `x <= y` asserted on two unconstrained inputs in the field of 7 | violation of `Sound` |
| `lowering` | `MCR1CSLowering` | six families of bodies with two inputs, a constant and up to eight operations (shared products, sums and negations, calls, lookups, divisions, a replaced factor), bounds 2 and 3; 1920 programs | `DefinitionsDominateUses`, `HandlesLive`, `SystemPreserved`, `AuxDetermined`, `FailsOnlyOnUnsupported`, `AuxWrittenAfterDependencies`; `OneProductPerConstraint`, `CircuitEquivalent` of the R1CS constraints; `PipelineTerminates` |
| `flattening` | `MCFlatteningDriver` | a main and three templates with up to two parameters: nested uses of structs and functions in every mix, loops, a template that uses itself for ever other values, two functions of one template | `UsesUnchanged`, `UsesResolve`, `FailsOnlyForCause`, `EndsFlat`, and in `TypeOK` that `structInstantiations` has an inverse |
| `flattening_param_order` | same, `FlatteningParamOrder.cfg` | a struct with three parameters, used with one known | violation of `UsesUnchanged` |

Bounds and why they suffice:

* *Unused declarations.* Chains, cycles and self-uses of structs need two or
  three structs; a refill of the worklist needs a chain of two; the removal of
  modules has its interesting case at depth two. A failure halfway needs a write
  that does not resolve next to one to a member nobody reads, which may be
  erased first (`Pairs`). The theorems remove the bound.
* *Clean-up.* A provisional mark is misused only when a second symbol is
  visited while a first is being checked and a third makes the first unsafe:
  the instance has five erasable or nested symbols plus one that stays. The
  theorems remove the bound for all but termination.
* *Reads and writes.* `MaxOps` bounds the operations and `MaxRegions` the
  operations with regions (one). A wrong fact needs a write that creates it, a
  write that should have removed it and a read, so three operations, four with
  an alias or around a branch. Regions one after the other are covered by the
  theorems; nested ones are left out.
* *Intervals.* 7 is the smallest prime whose upper half of the field (4, 5, 6)
  holds ranges that overlap without being equal, as the lower half does. The
  families
  are chosen so that each operation meets each pair of types as operands
  (`Kinds` has one interval or value of each) and each rule of `applyInterval`
  is entered; `Chains` has two constraints that disturb each other, so that
  operations are revisited. The queue of the solver and the executions are
  not bounded.
* *Lowering.* A stale memo or cache entry needs a value that is lowered once, an
  operand of it that is replaced afterwards, and a third use: two equalities
  over three or four products that share factors. `MaxAddress` (30) bounds the
  operations a run may create; no run of the instance comes near it, so it cuts
  nothing off. The properties about values compare executions on two inputs in
  a field of 9973 elements (`Felts`, `Executions`), which is a test of equality
  of polynomials of degree 3 or so at two points chosen apart from the
  constants of the programs, not a proof of it.
* *Flattening.* A partial instance needs a template with two parameters, a
  reused one two uses, and a clone of what is being converted a chain of uses:
  main, A, B and C. Constants are elements of a field of `Modulus` = 3, which
  keeps the expression `N + 1` finite and yet gives a template that uses itself
  more levels than there may be rounds. `IterationLimit` = 4 is exactly what
  the deepest other unit needs: `FailsOnlyForCause` is tight on both sides.

About the properties of the reads and writes:

* What the pass knows of arrays and members, and their last writes, survive a
  call that is handed them. `include/llzk/Dialect/Function/IR/Ops.td:53` says
  that arguments are passed by value; `llzk-witgen` passes arrays and structs by
  reference (`tools/llzk-witgen/ValueModel.h:41-42`, `Interpreter.cpp:778-809`,
  `935-951`). The properties therefore say which calls they are about.
  `ReadsPreserved` is about functions in which no call changes what it is handed,
  `WritesPreserved` in addition does not ask of a write to an array or struct
  that was handed to a call that no call saw it, and `AllReadsPreserved` is about
  functions that hand nothing to a call. Without these conditions TLC finds both
  passing properties violated: a read, a call that changes the array, and a
  second read that is replaced by the first; a write, a call that reads the
  array, and a second write that makes the first one redundant.
* `StatefulReadsPreserved` has no such condition: what is known of globals and
  RAM is forgotten at a call.

About the properties of the lowering run:

* `PipelineTerminates` counts three ways to end: lowered to a circuit, refused,
  or stopped by an equality that is rebuilt at an erased sum (section 7). The
  family `Roots` has sums that are split next to a linear side, which end
  that way (600 of the 3840 behaviours), and next to a quadratic side, where
  `EmitSplitEquality` puts the builder back and the circuit is reached (264).
  `OneProductPerConstraint` and `CircuitEquivalent` are about constraints, hence
  about the runs that get to build them.
* `ReuseAddresses` is FALSE: a new operation gets an address of its own. With
  TRUE TLC finds `SystemPreserved` violated: `rewrites` and `degreeMemo` keep
  the addresses of erased products as keys, and a new operation at such an
  address is taken for the old one. Whether the allocator does that is not for
  the model to say, so no run claims it.
* `HandlesLive` says that no value the pass has in hand is that of an erased
  operation. The arguments of a call in the instance do not contain one another;
  with `Programs <- SharedArguments`, where they do, TLC finds it violated:
  `runOnOperation` copies the operands of the call (LLZKPolyLoweringPass.cpp:1004)
  and lowers them one after the other; for `call(m, m)` with `m` above the
  bound, the first lowering replaces and erases `m`, which the copy still names.
* `FailsOnlyOnUnsupported`: the pass's own checks never refuse what it lowered;
  only divisions, for which it has no rule, make it fail.

About the properties of the flattening run:

* `UsesUnchanged` compares, for each definition and each clone, what its uses
  mean now with what the uses of its original mean for the clone's values:
  which original, with which values for its parameters, how often in a loop.
* `UsesResolve` and `FailsOnlyForCause` except one case, which they name
  (`InReusedTemplate`): a partial instance of a function is found by the name
  of its template alone, and one that was made for another function of the same
  template does not have it; the call then has no target and the pass fails.
* `Levels` is the number of steps in which uses lead from main and the
  originals to all their instances; a unit never needs more than two rounds
  beyond it.

About the properties of the interval run:

* `StaysSound` says that a step keeps the execution's values in all intervals,
  except at an operand type named in `DoubtfulVisit` or `DoubtfulApply`. These
  are the places where the rules of the code do lose values: a single value in
  the upper half of the field intersected with a range of type B or F (taken
  for type A), a single value joined with an F range, ordering comparisons and
  `!=` with an F operand, `<=` and `>=` that are known, products that are not
  zero with an F factor, signed division with C operands, and the bitwise
  complement. The list is part of the property: a step that loses a value for
  any other reason violates it.
* `Narrows` excepts a C range that meets an F range: what is left are two
  ranges, which the code joins. It also excepts the visit of a cast, whose
  branch (1117) sets the operand's interval without intersecting it with what
  is known of the result. The circuits of the run do not need that exception
  (where a cast was narrowed its operand was too), but the theorem does: with
  two casts of one value, one narrowed across the field and one to a single
  value in its upper half, the operand comes out wider than a cast of it.
* `Settled` is the fixed point, in two parts. When the queue is empty and no
  call is left, an asserted condition is true (or its interval empty) and the
  sides of an equality have the same interval. And at each step a result that
  was no wider than its operands allow stays so, unless its operation is
  queued. Each part has one exception, and the family `Wide` of the run meets
  both. A join may end up as the C range from 0 to the last value, which is not
  turned into Entire; what it shares with an F range are both ends of the
  field, whose join is Entire, and intersecting with Entire narrows neither
  side (`Spanning`). And where a C range meets an F range the join of what is
  left may be wider than the operands allow, with nothing queued (`LooseMeet`).
* `EnsuresHold` says that an `ensure` fails on sound intervals only in circuits
  that scale or select a comparison cast to a felt. Those do abort: for
  `2 * cast(a < b) == x` the comparison is handed the interval of `x` divided
  by 2, which is not boolean.

Deadlock is not checked anywhere: a pass ends.

## 5. Fairness

`Spec` of `UnusedDeclarationElimination`, `FromKeepSet`, `FromEraseSet`,
`IntervalAnalysis`, `PolyLowering` and `FlatteningDriver`, and `PipelineSpec` of
`R1CSLowering`, have weak fairness of their next-state relation: the code is a sequential program that
takes its next step until it is done, so some enabled step is always taken.
Nothing stronger is assumed: the choice among the elements of a map, a set or a
queue stays unconstrained, and termination holds for every choice.
`RedundantReadWrite` has no fairness and no liveness property: its function is
generated while it is walked, and how long it gets is not for the pass to say.

## 6. Proofs

| Module | Assumes | Inductive invariant | Theorems |
|---|---|---|---|
| `UnusedDeclarationElimination_proofs` | `StructsAssumption` (finitely many structs), `NestingAssumption` (modules nest strictly) | `IInv` = `TypeOK`, `Untouched`, `MapsExact`, `WorklistSound`, `UsesClosed`, `PathsClosed`, next to `UnreadInv` and `RefilledInv` | `TypeCorrect`, `NoDangling`, `NoDoubleErase`, `OnlyUnread`, `ImplementsPruning` |
| `FromKeepSet_proofs` | `SymbolsAssumption`, `UsesAssumption` | `IInv` = `TypeOK`, `RootsInv`, `ProcessedInv`, `DefsAreRoots`, `VisitedInv`; `ReachableInv` | `TypeCorrect`, `NoDangling`, `OnlyReachable` |
| `FromEraseSet_proofs` | the same, and that targets are erasable | `IInv` = `TypeOK`, `CallsInv`, `VisitedInv`; `NeededInv`; `SafeInv` | `TypeCorrect`, `LeftIsNeeded`, `NothingDangles` |
| `RedundantReadWrite_proofs` | `ValuesAssumption` | `IInv` (below); `WritesInv` | `TypeCorrect`, `StatefulPreserved`, `Preserved`, `NoChains`, `WritesKept` |
| `IntervalAnalysis_proofs`, first half | `PrimeAssumption` | none: lemmas about operators of `Intervals` and `IntervalArithmetic` | `ReduceToIsSound`, `JoinIsSound`, `IntersectIsSound`, `IntersectNarrows`, `ArithmeticIsSound`, `ComparisonsAreSound`, `TransferIsSound`; `TransferTyped` with one lemma per operator |
| `IntervalAnalysis_proofs`, second half | the same and `CircuitsAssumption` | `IInv` = `TypeOK`, calls of results that are set, results set in program order, operations without operands not queued; `EInv`, `SettledInv` | `TypeCorrect`, `SoundnessIsKept`, `NothingGivenBack`, `EnsuresAreMet`, `SettledWhenIdle` |
| `FlatteningDriver_proofs` | `FlatteningAssumption` (finite, well-formed units; names of words) | `Consistent` = `Well`, `MainOK`, `InstancesOK`, `LoopOK`, `VisitsOK` | `DriverTypeCorrect`, `UsesAlwaysResolve`, `EveryPlaceholderFilled` |
| `PolyLowering_proofs` | `PolyLoweringAssumption` (programs are well formed and have no erased operations yet, bounds are above 1) | `Inv` (below), as long as `Settled`; `Sound` for degrees and the order of members | `Invariance`, `TypeCorrect`, `Domination`, `Handles`, `Determined`, `WrittenInOrder`; `DegreesLowered`, `NoCyclicMembers`, `FailsForCallsAlone`, `NeverFails` |
| `PolyLoweringValues_proofs` | the same, and `~ ReuseAddresses` | `Faithful` (below), next to `Inv` | `ValuesKept`, `Preservation` |

The theorems hold for every value of the constants that meets the assumptions:
units of any size, any use graph, functions of any length, every prime, bodies
of any size with or without addresses that are used again (only that values are
kept supposes that they are not).

*Unused declarations.* `WorklistSound` is not inductive: that a struct in the
vector has no users stays true only because `usedBy` is, at every step, exactly
the inverse of `uses` restricted to the structs that are left (`MapsExact`),
and the operations that are left are in, and mention, structs that are left
(`UsesClosed`; `PathsClosed` says it of the modules around them, `Untouched`
that no struct or module is erased before the worklist runs). `ImplementsPruning` shows that every step is one of
`DeadDefinitions` or a stutter; its `Stop` step needs that an empty vector
means that no struct is removable, which is `RefilledInv`: it rests on the first
fill as on every refill. `OptionInv` relates the end of the pass to the option,
so that no step but the worklist's own end reaches `Ended` (`SameEnd`).

*Keep set.* The vector of roots is closed: below a root that has been taken
every definition is kept (`ProcessedInv`), what is visited has its uses visited
or on the stack (`VisitedInv`), and a definition that is visited is a root
(`DefsAreRoots`), which is why the outer loop must run over a growing vector.
`ReachableInv` says the converse: whatever is visited lies in every closed set
that holds the roots.

*Erase set.* `NeededInv` says that an `unsafe` mark, and a pending revert of
one, is justified: the symbol is in every set that holds what stays and is
closed under need. `CallsInv` describes the call stack: whoever waits for a
result depends on the symbol that is checked for it. That nothing dangles is
false in general (section 7), so it is stated, and proved, for the case that
no target is given up. `SafeInv` carries the argument: between two targets the
stack is empty (`StackInv`); what a safe symbol depends on has been looked at
or is still waiting on the stack (`LookedAtInv`); the revert that makes a
symbol unsafe climbs to the target the loop started with (`CallersInv`,
`GivenUpInv`). So once all targets are safe no symbol is unsafe,
and the safe symbols are closed under what they depend on (`SafeIsClosed`): a
user that stays would have been one of them.

*Reads and writes.* `Truth` says that what the pass knows is so: every trusted
fact (all of globals and RAM; in plain functions those of arrays and members
too) holds of the execution's memory, every replacement has the value of what
it replaces, and both are defined where they are used; within a region it says
so of the saved states as well. It survives a
loop because the entry state holds no fact about globals and RAM, and a merge
because a fact must hold at the end of both regions. A replaced read of an
array or a member may be wrong (section 7), and what such a read is used for
then is wrong too: hence `TreeReadsRight => Truth`, and `plain =>
TreeReadsRight` where each conditional has two branches, nothing repeats,
indices are constant and no call changes what it is handed. `StaticInv` holds what concerns the walk alone.

That writes are kept (`WritesKept`) is about straight code. `WritesInv` says
that a place has its last write to itself (no other place's current content
comes from it) and that the fact it left is still known, so that the next write
there makes redundant what nothing else holds. The observed last writes need
care: a read under another row of the same member forgets the rows it may be
and has its fact recorded, and while that fact is there, the next write of the
member does not declare its predecessor redundant. What a call saw is a matter of the
class that was handed to it: of the classes in `lent` the theorem says only that
no place's last write goes (`UnknownEffectWrites`).

*Intervals.* What the run `intervals` samples in the field of 7 elements holds
for every prime. A value of an interval has a *reading* in each range the code
may pick for it (as it stands, or shifted down by the prime for the upper half),
and the hull, the overlap, the sum or the corner products of the ranges hold
the corresponding integer. `ReduceToIsSound` carries that back to the field: a
range shorter than the prime meets at most one multiple of it, so its residues
are the run between the residues of its ends, or wrap once. `IntersectNarrows`
needs the converse, that the reduced range holds no other residue
(`ReduceToIsExact`). The hypotheses of the theorems (`Misjoined`, `FarPoint`,
a C range that meets an F range, an F range on the left of an ordering) are the
operand types `DoubtfulVisit`, `DoubtfulApply` and `LooseMeet` name: the proofs
show that for these operators the list leaves nothing out. An F range on the
*right* of an ordering is no exception to the visit: its bounds count as
empty and the comparison as open. The proofs use of the prime only that it is
above 2.

*Interval analysis.* `TransferTyped` says that every operation's interval is
well formed when its operands' are. It needs number theory where the code
divides: that a product of non-zero values is not zero (`NoZeroDivisors`) and
that every non-zero value has an inverse (`InverseExists`), which is where
`Prime` must be prime: the least positive number that a value and the prime
combine to divides both. An induction is stated there for a set that holds 0
and with each number the next (`Induction`), from the least element of its
complement. `TypeOK` becomes inductive with three facts about the order of
things: results are set exactly as the first pass comes to them, `applyInterval`
is only called for results that are set, and an operation without operands is
never on the queue, as no change can reach it. The last is also why a visit of
an input or a constant, which overwrites the interval, cannot undo what
`applyInterval` has found out. `NothingGivenBack` then follows step by step
from `IntersectNarrows`.

*Soundness.* `SoundnessIsKept` is proved in two layers. `TransferIsSound` is
about one operation: for any values of the operands in their intervals, the
result lies in the computed interval. Sums and products come from
`ArithmeticIsSound`; an integer division takes the quotients at the corners of
a part (a quotient is monotonic in each operand on one side of zero), a
remainder is bounded by the divisor; `bit_and` and the shifts rest on
`FromBits` picking the number with the given bits, for which numbers are
counted against sets of bits. Above it, `VisitIsSound` and one lemma per rule
(`AddIsSound` to `CmpIsSound`) are about the analysis. They need three facts
about an execution, which is a sequence built by recursion (`Partial` is its
explicit form): at each operation the values satisfy the operation
(`Witnessed`), an `i1` value is 0 or 1 (`BitsAreBits`), and a signal that the
walk down a product of roots reaches takes one of the roots when the product is
zero (`DecompositionIsSound`). The rules then undo an operation on the values
as they do on the intervals: `SumUndone`, `ProductUndone` for a constant factor
by its inverse, `RestrictedIsSound` for a comparison whose result is known.
So the exceptions in `DoubtfulVisit` and `DoubtfulApply`, which the run found
one by one in a field of 7 elements, are all there are in any field.

*Ensures.* What is boolean is more than the `i1` values: a cast takes the
interval of a comparison to a felt, an equality may push it on from there, and
a comparison of felts that are casts restricts them again. `BitLike` is the set
of values that hold a comparison's result, directly or through casts, and
`EInv` says that their intervals, and those about to be applied to one that has
an operation, are boolean or empty (inputs and constants may be given any
interval: meeting it with theirs is boolean again). A meet with a boolean
interval is boolean (`MeetOfTruth`), and so are the parts a comparison leaves
of it (`RestrictedTruth`); only the rules of `mul` and `select` pass on an
interval that comes from elsewhere. `EInv` adds that an ensure that fails has
met an empty interval, and no value of an execution lies in one.

*Settled.* `SettledInv` says of each constraint that has been visited: it is
queued, or each operand lies within what the constraint demands (their common
interval, or true) or is about to be given it by a call that is still to be
made. Such a call stays in line while nothing changes, as a rule only puts calls
before it, and when it is made the operand is what the demand leaves of it; a
change of an operand queues the constraint, since it has been visited
(`ChangeQueues`). At the end no call is left, so each side of an equality is
left as it is by the interval they share, and a case analysis of the types
(`NothingToMeet`) leaves equal sides and the one exception. The second part
needs no invariant of its own: a visit computes the result from its operands,
everything else narrows it or queues its operation (`StepKeepsPace`).

*Flattening driver.* That every use resolves rests on names. The name of an
instance keeps a placeholder for each parameter that is left open, so the number
of placeholders of a template that the pass made is the number of its parameters
(`TemplatesOK`), through any number of partial steps (`ShortTypeStringFacts`,
where the assertion of `BuildShortTypeString::from` is needed: there is an
argument for each placeholder). This is why a call may be led to whatever has
the wanted name (`ReusedNames`): a name with a value in it is none of the
program's, one without placeholders none of a partial clone's template, and one
with placeholders belongs to a template with as many parameters as the call has
arguments left. Only that the template also has the function is not
so (`InReusedTemplate`, which `Found` leaves open as `UsesResolve` does). A new
name is new because a symbol table with n symbols lacks one of n + 1 names
(`UniqueNameFacts`), and therefore no struct can be recorded as the instance of
two types (`OneMoreInstance`). `Fits` is preserved by growing the unit, since
neither a template nor a definition ever changes what it declares. The
expressions of a template go with its parameters when these are known; a partial
clone loses them (section 7), so that a use names only what is declared is
stated for programs in which a template with expressions has one parameter
(`NoExpressionLeft`). The theorems do not cover a program that itself names a
template as the pass would, with a value or a placeholder in its name.

*Polynomial lowering.* The one thing the pass erases is a product whose degree
in the memo is above the bound, once it has put another in its place; every
danger comes from values that are in hand meanwhile. `Held` says of a value that
it is no such product: not a product, or one whose degree in the memo is within
the bound (and the memo never raises a degree, `Keeps`). Whatever
`lowerExpression` returns is held (`ReturnedOK`), and so are cached replacements
that are still in the block (`RewritesOK`), the lowered sides of a product that
waits on the stack (`FrameOK`, `FactorOK`), and the values that auxiliary members
stand for (`AuxOK`). The values that the activations are at are not held, but
are strictly ordered in the block (`StackOK`), and an activation erases only its
own. `Factor` keeps an auxiliary equation meaningful since it replaces uses from
the operation after the product on, where no equation of another read may come
(`FollowingIsNoEquation`), and never replaces a read: what is factored is the
side of a product above the bound that has the higher degree, which is above one
as the bound is at least two, and a read has degree one. `EquationsOK` adds that nothing is ever put between a read and
its equation, from which `Determined` follows; `Domination` is part of
`IsBody(body)`. That `compute` writes a member after those it depends on follows
from the depth-first order (`OrderOK`) and from a read being after the value
that it stands for (`TreeFacts`): the value depends on earlier members only.

*Degrees.* The memo is not kept exact: operands of operations whose degrees are
in it are changed. But it never becomes too low: what it has for a value is no
less than what the operands of the value make it (`Closed`, for bodies without
divisions), so the degree that is computed anew is never above the one in the
memo. It may be too high, which costs a product more than needed and nothing
else. A value is low when its degree in the memo is within the bound. Whatever
is returned, cached or kept as a lowered side is low (`Bounded`), since `Factor`
goes on until the product of the two sides is; the operands of equalities and
rows that were visited are low (`EqualitiesLow`, `RowsLow`), and stay so when
later steps replace operands, as what is put in the place of a low value is low
(`Gentle`). So `DegreesLowered` holds, and the checks of equalities and
containments cannot fail (`FailsForCallsAlone`). Nor can the order of the
members: the visits in progress go strictly up the block (`VisitsDescend`), for
the read that another one depends on comes before it (`NoCyclicMembers`).

*Values.* `ValuesKept` says of every execution, not only of the two that
`Executions` has, that the operands of the equalities, lookups and calls in the
block have the values they have in the program, and that the equations the pass
has added hold. Two facts about blocks carry it. The values of a block are well
defined (`ValueEquation`): erased operations are products that rank below those
erased before them (`Ranked`), and the read of a member comes after what the
member holds (`MembersOK`), so that each value is computed from earlier ones; and
nothing else has the values of the block (`ValueIsUnique`), so that a block that
came from another one by an insertion, an erasure or other operands of the same
values has the values of before (`Follows`, from `InsertedFollows`,
`WithoutFollows`, `RearguedFollows`). `Faithful` then says what every value in
hand stands for: a cached replacement is worth what it replaces, a lowered side
what the operand of the product is, what is returned what was asked for, a copy
of a call's operand what the program's operand is. The two inductions, over the
rank of an operation and over its place, are by the least counterexample, since
the induction theorems cannot be used. Values are taken as they come: nothing
is used of arithmetic but that a value is determined by the kind of its operation
and the values of its operands, or of what its member holds. A new
operation must not take the address of an erased one (`~ ReuseAddresses`): with
it the property is false (section 4).

The hypothesis `Settled` is there for calls, and is needed: `runOnOperation`
lowers a copy of a call's operands, and what the copy names may be erased by the
lowering of another operand (section 4, `SharedArguments`). Up to the calls the
theorems suppose nothing of the program; from there on, that no operand of a call
is a product while another is more than a leaf (`ArgumentsApart`). The run is more
generous: some of its calls have two products as operands, of which one at most
is above the bound, and there the properties are model-checked only. All but
`ValuesKept` includes the reuse of addresses (`ReuseAddresses`): it breaks what the
program says (section 4), but neither the block nor the order of writes.

Only model-checked: every `Terminates` and `EndsFlat` (liveness and ENABLED are
beyond the prover); of the driver, `UsesUnchanged`, which is false when two
parameters of a struct are left (section 7), and `FailsOnlyForCause`, whose
bound counts the levels of a recursively defined closure; of the lowering,
`SystemPreserved` for calls whose operands are not apart,
`FailsOnlyOnUnsupported` for programs with calls, and both properties of the R1CS
back end, `OneProductPerConstraint` and `CircuitEquivalent`, which compare what
recursive functions over a block compute.

## 7. Disagreements between code and comments

Found while modelling, each shown by a run with expected violation and quoted
in `PROJECT.json` (`findings`):

1. `erase_set_dangling`: a result computed under a provisional mark stays in
   the table when the mark is reverted, and something that is still called is
   erased.
2. `read_write_aliases`: constant and variable indices of an array are kept
   side by side, which the comment on `ReferenceNode` rules out; a read can be
   replaced by a stale value.
3. `read_write_double_erase`: a write that both branches of a conditional
   overwrite is listed, and erased, twice.
4. `interval_orderings`: asserting `x <= y` on two unconstrained inputs gives
   `y` the range [1, p-1]: the restrictions for `le`/`ge` and `lt`/`gt` are
   exchanged on the right-hand side.
5. `flattening_param_order`: a partial instance of a struct declares the
   parameters that are left in reverse order, while uses keep the order of
   their arguments.

Observed while modelling, without a run of their own:

* A struct that is used only in a free function is removed as unused
  (the walk at LLZKUnusedDeclarationEliminationPass.cpp:168-172 skips what is in no struct), and
  contracts are not erased by `FromKeepSet`, but what they use may be.
* The copy of a call's operands in the polynomial lowering, and the reuse of
  addresses (section 4).
* The R1CS pass creates the new equality at an erased operation when a sum of
  it was split and one side is linear: `OpBuilder builder(eqOp)`
  (R1CSLoweringPass.cpp:700), `builder.setInsertionPoint(op)` at the sum (344),
  `op->erase()` (367-369), and `builder.create<EmitEqualityOp>` (727) without the
  `setInsertionPoint(eqOp)` that the branch for two quadratic sides has (713). The
  comment at 230-231 says of the normalized expression that it "can be directly
  used in EmitEqualityOp". A run with `builder # "crashed"` as its invariant shows
  it: `y * y + x * y` equated with `x`.
* What is known of arrays and members survives calls that are handed them
  (section 4, reads and writes): right if arguments are passed by value, as the
  language says, and wrong as `llzk-witgen` runs it.
* The R1CS pass walks equalities only: lookups, calls and assertions of
  `constrain` are dropped with the struct, without an error.
* A partial instance of a struct has no expressions, also where they depend on
  parameters that are left; the comment at FlatteningPass.cpp:750 speaks of
  preserved parameters and expressions.
* The comment at FlatteningPass.cpp:105 says that the values of
  `structInstantiations` have no parameters; partial instances have some.
* A struct that is instantiated in two steps and in one gets two clones for the
  same values: names are made unique, not compared.

The operand types excepted in `StaysSound` and the circuits excepted in
`EnsuresHold` are further places to look at; no comment claims the contrary
there in words that could be quoted.

## 8. What is not covered

* *Unused declarations*: how `mentions` follows from MLIR types (a struct that
  occurs only inside an array type is not seen by the pass and is not in
  `mentions`); free functions in nested modules.
* *Clean-up*: building the two graphs; the warnings after `FromEraseSet`; uses
  of contracts.
* *Lowering*: bodies with regions or several blocks; the history of writes to an
  array from which the rows of a containment are collected (a row is an
  `array.new` here); the clones that `rebuildExprInCompute` makes (what it
  computes is in `ValueIn`); names of members. In the R1CS pass: the checks of
  types, the numbering of signals, CSE.
* *Flattening driver*: propagation of types (step 5), which matters for arrays
  and members; inference of wildcard parameters from a function's body; callees
  that are parameters themselves; `instantiateViaTargetType`; types and arrays
  as values of parameters; explicit template arguments that unification does
  not find (calls with such arguments are rebuilt without them, or keep them
  unsubstituted, TypeConversionPatterns.h:209-227); expressions of felt type (the
  value of one is a `FeltConstAttr`, FlatteningPass.cpp:455-463, which 379-388 do
  not count as concrete; those of the model are of index type); the removal of empty templates before the loop. What happens to the
  definitions that are left over is the clean-up's part.
* *Reads and writes*: arrays of arrays and members of aggregate type, `new`
  operations, functions with several blocks, nested regions, and the removal
  of reads without uses at the end.
* *Intervals*: SMT expressions (kept beside each interval, no interval depends
  on them), the tracking of unreduced intervals, the tables `readResults` and
  `writeResults` that share the interval of a member or array element between
  accesses, regions with `yield`, loops, calls, and the merging of results per
  struct. Fields are one small prime in the run.
* Everything marked as planned or not modelled in the inventory.
