# Verification of the Lity compiler and its rule engine

Lity extends Solidity with a rule engine: contracts declare `rule`s over structs, `factInsert` and
`factDelete` keep structs in a working memory, and `fireAllRules` runs every rule on every set of
facts that meets its conditions. The compiler emits the whole engine (working memory, rule network,
agenda, reentrancy lock) as EVM code into each contract. This directory holds TLA+ models of that
engine and of the parts of the compiler around it, the TLC runs that check them, and TLAPS proofs.

All paths are relative to `src/`. `libsolidity/codegen/` is shortened to `codegen/`, and so on.

## 1. The system

### What runs on the chain: the emitted rule engine

| part | state | operations | what is hard |
|---|---|---|---|
| working memory (`codegen/RuleEngineCompiler.cpp`) | storage: one list per type at the hash of the type's name, a map from fact id (address of the struct) to its list | `factInsert`, `factDelete`, linear search, move of the last item into the hole | duplicates, handles that are stale or were never inserted, storage shared with the contract's own variables |
| engine (`ContractCompiler::appendRules`, `RuleEngineCompiler`) | storage: lock, reevaluation flag, `lock_on_active` map, `no_loop` marker; memory: lists of marks; EVM stack: nested `rulesExec` | `fireAllRules`, `update`, one element of a match list after the other | then blocks call other contracts, which call back; messages fail at any point and storage is restored; reevaluation restarts all rules while outer lists are half done |
| network (`RuleEngineCompiler.h`) | a dynamic array per node in memory | type, alpha, join, term node code; cleaning before a reevaluation | lists of an earlier run must not leak; new lists are not cleared; a join over repeated or empty lists |
| dynamic arrays (`codegen/DynArrUtils.cpp`) | header (pointer, length, capacity) and data in EVM memory | `alloc`, `clearArray`, `pushItem` with `reAlloc`, `forEachDo` | arrays move while other code allocates behind them; a new header is not cleared and may show what was encoded there |

### What runs in the compiler

| part | state | operations | what is hard |
|---|---|---|---|
| compiler stack (`interface/CompilerStack.*`, `ErrorReporter.*`) | sources with trees, order, contracts with code and caches, scopes, settings, error list and counters | `reset`, `addSource`, setters, `parse`, `analyze`, `compile`, `link`, getters with caches | one object lives through many calls in any order; a call that fails or throws half way; circles of imports; errors above the limit |
| standard JSON (`interface/StandardCompiler.cpp`) | the stack | one request after the other | what one request leaves behind for the next; sources that cannot be read |
| rule inheritance (`analysis/RuleInheritanceResolver.cpp`) | table of rules by name | visit of all rules, walk over base rules | order of declaration, names met twice, circles |
| compilation queue (`codegen/CompilerContext.cpp`, `Compiler.cpp`) | labels, queue and compiled set per context | label request, next function, phases of `compileContract` | creation code asks the finished runtime context for more; recursive functions |
| scanner, parser (`parsing/`) | source position, two tokens of lookahead, pending doc comment, recursion depth | `next`, `expectToken`, the productions | lookahead that decides between declaration and expression; comments that look at the next line |
| syntax tree and its output (`ast/AST*.cpp`) | one value handed from child to parent, depth of the listing | `accept`, listing, two JSON forms | classes that one of the visitors forgets |
| name resolution (`analysis/NameAndTypeResolver.cpp`, `DeclarationContainer.cpp`, `ReferencesResolver.cpp`, `FactMemberReferencesResolver.cpp`) | scopes, names not yet seen, linearised bases | register, import, inherit, resolve, activate | several walks over the tree that must agree; shadowing, diamonds of bases, members of facts in patterns |
| type system (`ast/Types.cpp`, `analysis/TypeChecker.cpp`) | annotations | one visit per node; storage layout; conversions | widths, rational literals, overriding |
| control flow and mutability (`analysis/ControlFlow*`, `StaticAnalyzer`, `ViewPureChecker`) | graph nodes, assigned sets, inferred mutability | build, fixpoint, report | loops, early exits, modifiers |
| SMT checker (`formal/`) | SSA index per variable, path conditions | visit, merge, query several solvers | indices after branches and loops, solvers that disagree |
| expressions and statements (`codegen/`) | stack height, variable offsets, break and return tags | one visit per node | height on every path, cleanup on early exits, storage copies |
| EVM assembly (`libevmasm/`) | items, tags, sub assemblies | append, optimise (jumpdest, peephole, CSE, deduplicate, constants), assemble | passes that feed each other until nothing changes; tags between assemblies; width of addresses |
| Yul (`libyul/`, `inlineasm/`) | scopes, known values | parse, analyse, optimiser steps, code generation | facts that are stale after branches and loops |
| command line, LLL, developer core (`lityc/`, `liblll/`, `libdevcore/`) | options, definitions, none | front ends and helpers | none that outlives a call |

The parts meet as follows. `lityc` and `StandardCompiler` drive one `CompilerStack`; this runs parser and
analysis phases on each source in import order and asks `Compiler` for code per contract.
`ContractCompiler` fills the queue and emits the engine through `RuleEngineCompiler` and
`DynArrUtils`, and state variables and calls through `ArrayUtils`, `LValue`, `CompilerUtils` and `ABIFunctions`;
inline assembly and the text `ABIFunctions` writes go through the assembly parser, analyser and code transform;
`Assembly` optimises and links. On the chain, messages to the contract meet in storage.

## 2. Modules

| module | models | kind |
|---|---|---|
| `RuleEngine` | the engine of one contract, messages around it | component |
| `RuleEngine_proofs`, `FactStore_proofs`, `DynArr_proofs`, `ContractPhases_proofs`, `StandardCompiler_proofs` | theorems about the modules they are named after | proofs |
| `Loops_proofs` | what a loop written as a recursive function is at each of its steps | proofs |
| `WorkingMemory` | what `factInsert` and `factDelete` promise: bags | abstract |
| `FactStore` | their storage layout | component, refines `WorkingMemory` |
| `SeqStore` | what dynamic arrays promise: independent sequences | abstract |
| `DynArr` | arrays and allocator in memory | component, refines `SeqStore` |
| `ReteNetwork` | construction, order and code of the nodes of one rule | component, against a reference definition |
| `RuleInheritance` | `extends` between rules | component, against a reference definition |
| `CodegenQueue` | labels and queue of both contexts | component |
| `ContractPhases` | rules resolved, then code generated, then a network run again and again | composition of the three above |
| `ArrayUtils` | types with their layout, words, bytes of memory, conversions; code emitted for packed values and arrays in storage, and for copies to memory | operators |
| `ContractStorage` | state variables under the statements that change them | component, against values |
| `AbiCoding` | both encoders and both decoders of call data | operators, against the ABI's encoding |
| `ContractCalls` | a call with state variables as arguments | composition of the two above |
| `EvmAssembly` | items of creation and runtime code, the optimiser's passes, `assemble` | component, against a reference machine |
| `SimplificationRules` | the EVM's pure instructions on words; the rule list of both optimisers and its matcher | operators, against a reference |
| `KnownState` | classes of expressions and known contents, code from them | operators |
| `AssemblyOptimiser` | gas meter and constant optimiser; `optimiseInternal`: passes of `EvmAssembly`, or blocks through eliminator and constant optimiser | composition of the above |
| `YulSyntax` | trees of assembly and an interpreter | operators, reference |
| `YulOptimiser` | every pass of the Yul optimiser | operators |
| `YulCodegen` | scopes, analyser with stack heights, code transform, a machine for the emitted items | operators |
| `YulSuite` | one program through the suite and the code generator | composition of the two above |
| `SyntaxTree`, `ParserBase` | nodes; tokens and parser states | operators |
| `Scanner`, `Parser`, `AsmParser` | texts to tokens; tokens to trees; the same for assembly, and its printer | operators |
| `TreeOutput` | `accept`, listing, JSON of a tree | operators |
| `ControlFlow` | flow graphs of functions with modifiers, search for unassigned storage pointers | operators, against paths |
| `NameResolution` | scopes, imports, members of facts, inheritance, references, data locations | operators, against what names mean by the nesting of the source |
| `FrontEnd` | one unit through scanner, parser and what looks at its tree; the grammar as a reference | composition of the above |
| `CompilerStack` | the stack and its error reporter | component |
| `StandardCompiler` | JSON requests on that stack | composition, extends `CompilerStack` |
| `Eager` | values that are computed once | helper |
| `MC...` | instances for TLC | |

**RuleEngine.** `st` is contract storage: `facts` (lists per type), `listOf` (the id map), `val` (contents of the
structs), `lock`, `reeval`, `lockMap`, `noLoop`. `calls` is the storage every message in progress began with:
a message that fails (`Abort`, used by INVALID, reverts, exhausted gas and a full EVM stack) puts it back.
`engineAt` says which message runs the engine, `frames` are the nested activations of `rulesExec` with their
program counter, `lockList` the lists of marks in memory. User code, in a message or in a then block, may
`WriteFact`, `FactInsert`, `FactDelete`, `Update`, `FireAllRules`, `Reenter`, `Return`, `Fail`. The steps of the
routine are `EvalRule`, `EndList`, `SkipLocked`, `SkipLooping`, `EnterThen`, `ThenEnd`, `Reevaluate`,
`ReturnFrame`, `Finish`. `fired` and `ran` are history variables. What a rule's network finds is the
operator constant `Matches`; `ReteNetwork` is the model of how it is computed. A hash of rule name and
facts is the pair itself (collisions are left out). Its lists are sequences that begin empty, which is what `DynArr` promises for
arrays whose header is not stray (see 6).

**FactStore.** `slots` is storage as addresses and words. `Push`, `Remove`, `Link`, `Hits` are the emitted helpers;
`UserWrite` is the contract writing its own variables. The layout assumption says that no hash collides, and that no hash is
so small that a search which begins at slot 0 (an unknown handle) reaches it: gas stops a search after `MaxSearch` items.

**DynArr.** `mem`, `free` (the free memory pointer), `arrays`, `owned`. `Encode` is code for an event, a call or a hash, which writes
beyond the free memory pointer without moving it. `Alloc` takes three words and clears none, so an array may begin with a header
that is not empty: it is then in `stray` until `ClearArray` empties it. A push to a stray array may write anywhere, also over the free
memory pointer; it sets `spoilt`, and the model goes no further. What is said of arrays is said up to that push.

**ReteNetwork.** A condition is known by the set of patterns whose facts it mentions. `GenOrder` is the post order of
the nodes; one action per kind of node, and `Reevaluate` empties the lists that the code empties. A node that allocates an array
(`Fill`) begins with an empty list or with one that shows a tuple already; `strays` counts the latter. `Select` is a loop over
a list whose body pushes some of the elements.

**RuleInheritance.** `Visit` enters a rule into the table, `Walk` takes over the facts of one base; the table used for
the lookup is the copy made before the rule is entered. `Endless` says of a rule that the names of its bases lead into a circle of
rules visited so far. `Lineage` is the reference: the least set with the rule that is
closed under bases.

**CodegenQueue.** One action per phase of `Compiler::compileContract` and one per turn of `appendMissingFunctions`.
`Asked` are the labels a function body takes from each context: those of the functions it calls or makes pointers to, and in the
creation context the pointers once more from the runtime context (`pushCombinedFunctionEntryLabel`). `rulesUsed` and `rulesPlaced` are
the labels of `entryAllRules`. `Waiting` is the queue without the compiled functions at its front, `Reach` the least closed set, the
reference.

**ContractPhases.** `ResolveRules`, `GenerateCode` and `RunNetwork` are the steps of the three modules it instantiates, one
stage after the other.

**ArrayUtils.** A type is a kind, a number and component types. Storage is a function from the slots that are
not zero to words; every operator (`storeValue`, `setToZero`, `copyArrayToStorage`, `clearDynamicArray`,
`resizeDynamicArray`, `incrementDynamicArraySize`, `popStorageArrayElement`, `copyArrayToMemory`, `convertType` ...) is the
value of storage or memory after the code of that name. A word has four bytes of sixteen values. The area of an array is
`computeHashStatic`, far enough from everything else.

**ContractStorage, ContractCalls.** `contract` is one contract: the types of its variables, lengths that occur, pairs of types
that are copied, calls. `sto` is its storage; `vals` are the values a reader of the source has in mind. The actions are
assignment of a word, `delete`, `length`, `push`, `pop`, copies from another path and from memory, each for every path
into every variable. `ReadsAgree` compares `sto`, read the way the code reads it, with `vals`. A call needs no state:
`CallsArrive` and `DecodersStayInside` are evaluated in every state for every call of the contract. `AbiCoding` has
`abi_encode`/`abi_decode` of ABIEncoderV2 (`tupleEncoder`, `tupleDecoder` and the functions they ask for) and the older
`encodeToMemory` and `abiDecode`; `EncodedTuple` is the encoding of the ABI specification.

**EvmAssembly.** `items` are the items of creation code (`main`) and runtime code (`sub`). `RunJumpdestRemover`, `RunPeephole` (one
call of `PeepholeOptimiser::optimise`) and `RunDeduplicate` are the steps of a round of `optimiseInternal`, first for the
runtime code; `EndRound` repeats or goes on and applies the replaced tags to the creation code; `Assemble` finds sizes and
positions, or stops at a pushed tag that has none. `full` is the setting that runs the deduplicator. Instructions are
represented by one or two of each kind the passes tell apart (for example ADD and AND for the commutative ones, DUP1, SWAP1).
The machine that gives the code its meaning (`Exec`) knows stack, storage, jumps and failures; a tag on the stack has
no number, and an execution whose outcome depends on one is not compared.

**KnownState, AssemblyOptimiser.** A known state has the expression classes with their
arguments and sequence numbers, the stack, and what is known of storage, memory and hashes; `feedItem` is
`KnownState::feedItem`. The code generator has the dependencies between stores and loads, the order of the queue, and the
stack layout with its limit of 16. A block grows by `FeedItems`, one fragment at a time, with meter and known state; `OptimiseBlock`
replaces it by generated code, `OptimiseConstants` is the constant optimiser on a block, `ConsiderConstant` every routine it considers.

**YulSyntax, YulOptimiser, YulCodegen, YulSuite.** Trees are records of one shape. Each pass is an operator on a tree and the name
dispenser, with the name of its class. `RunPass` is the next pass of `OptimiserSuite::run` (preparation, four rounds,
twice the end), `RunAlone` a pass that the suite does not contain. `Behaviour` is the sequence of storage reads and
writes for every input. `YulCodegen` also takes units that name Solidity declarations or are loose assembly.

**Front end.** `Scanner` works on characters. `Parser` has one operator per parse function on a state of tokens, position, built
values, errors and depth; a fatal error leaves the state alone until `parse`. `FrontEnd!Tokens` is the
grammar read backwards, the reference; `FrontEnd!Kept` are the tokens of a text of lines with comments. `unit`, `stage`, `tokens`, `tree`, `errors`, `output` are one unit on its way:
`Scan`, `Parse`, then `Show`, `CheckFlow`, or `ParseAssembly` and `PrintAssembly`. `ControlFlow` builds nodes and edges as
`ControlFlowBuilder` does and runs the search of `ControlFlowAnalyzer`; `MayReturnUnassigned` is the set of
pointers that some path of a structural semantics leaves unassigned, without a graph.
`ResolveNames` takes a tree with a unit it may import through `NameResolution!analyzeNames`: the steps of `CompilerStack::analyze`
up to the resolved names, with the walks of `DeclarationRegistrationHelper`, `FactMemberReferencesResolver` and
`ReferencesResolver` in their order. A node is the path of child numbers that leads to it; a scope belongs to a node. The
second half of the module is the reference (`Meant`, `Conflict`, `Orders`, `Hides`, `InPlace`): it has no scopes that change and no
order of walks.

**CompilerStack, StandardCompiler.** The object is the record `stack`; every public call is an action that replaces it by
the value of a function of it (`Reset`, `AddSource`, `Parse`, `Analyze`, `Compile`, `SourceMapping`), because a call
is sequential and only its beginning, its end and the exception that leaves it are visible from outside.
A text is known by its imports, its contracts and at most one fault, with the phase that reports it and whether
the report is fatal. `Gated`, `Stopping`, `ByList`, `ByItself` are the ways in which the phases of `analyze` decide. The loops over
sources, imports, phases and offers are functions of the number of turns; the depth first searches of `resolveImports` and
`compileContract` take the visits any search of that graph needs (`Visits`). `SourcesAssumption` gives every text a fault of a phase
that reports errors or none (the SMT checker and the contract standards only warn), and leaves contracts that create each other in a
circle to the fault of the type checker, which reports them (`analysis/TypeChecker.cpp:2300`). `RequestsAssumption` says that a
request offers texts for sources.

## 3. Runs

| run | constants | checks | result |
|---|---|---|---|
| `reentry` | one fact that may be listed twice, two `lock_on_active` rules, one of them also `no_loop`, three nested messages, more frames than marks | `TypeOK`, `LockMatchesEngine`, `NoMarksLeft`, `FactsFrozen`, `LockOnActiveOnce`, `RecursionBounded`, `EngineEnds` | holds |
| `fixpoint` | two facts, contents 0 and 1, a rule of one and a rule of two patterns, three frames, disciplined then blocks | `NoStaleMatch`, `HigherSalienceFirst`, `FixpointAtEnd` | holds |
| `noloop` | two facts, one `no_loop` rule | `NoLoopOnce` | violated |
| `memory` | `FactStore`: two structs, lists of up to three, searches of up to three items, three own variables; `DynArr`: elements of two words, 20 words of memory, one word of other code, one encoding of up to three words; `ContractCalls`: eight contracts | `ListsWellFormed`, `ArraysApart`, `ImplementsBags`, `KnownHandleKeepsOut`, `ImplementsSequences`, `ReadsAgree`, `NothingLeft`, `CallsArrive`, `DecodersStayInside` | holds |
| `stray_header` | as `memory` | `GrowsInTime` | violated |
| `tail_left` | a list of two-byte elements with lengths 0, 1, 2 | `NothingLeft` | violated |
| `phases` | all programs of up to four rules, bases first, and of three rules with any bases or names used twice; three functions with eight call graphs and three graphs of pointers, entry points, then blocks, constructors and pointers, rules fired in own and inherited functions and in the constructor; all rules of one and two patterns with conditions over at most two facts, rules of three patterns, at most one list that does not begin empty | `ConstraintsKept`, `LabelsPlacedOnce`, `NetworkExact`, `CompilationEnds` | holds |
| `optimiser` | all pieces of three of 18 items, runtime codes of an entry and three blocks out of eight, each with and without tags pushed by the creation code; blocks of up to three of 17 fragments, 4 stacks, words of six bytes of two bits; 48 constants | `CodeKept`, `TagsFit`, `PassesLower`, `BlockKept`, `EstimateCovers` | holds |
| `keccak_cached` | hashes of six and of five bytes | `BlockKept` | violated |
| `yul` | seven programs (branches, loops, switches, functions, recursion, shadowed names), 35 units of inline assembly, all rules; words of three bits | `MeaningKept`, `CodeFaithful`, `RulesSound` | holds |
| `frontend` | units written from trees for every production, sequences of tokens around every decision, texts, five lines of code and comments in any order, assembly of three flavours, contracts with storage returns; 1,586 trees for name resolution: locals in blocks and loops, all lists of bases of four contracts, pairs of declarations of one name, imports and paths, rules, places of variables | `ScanInverts`, `ParseInverts`, `ShownOnce`, `UnassignedReported`, `NamesResolved` | holds |
| `stack` | eight texts, two given sources, two compilations, three changes, error limit 2, 54 requests | `StateMatchesData`, `SuccessClean`, `AnswerCurrent`, `FailureExplained` | holds |

What the less obvious names say. `StateMatchesData`: the state the stack shows tells what its sources, scopes and contracts
are good for; imports come before the sources that need them, and code that is embedded was compiled with what embeds it.
`ConstraintsKept` has the facts of all ancestors and, for one level, exactly these, where bases are declared first. `LabelsPlacedOnce`
also says that exactly the reachable functions are compiled, and that the label of the rules is placed where it is pushed, unless
creation code or an inherited function fires rules. `CompilationEnds`: the walk over base rules ends if and only if it meets no
circle, and then the queue is emptied. `NetworkExact` is about messages in which every list began empty. `ArraysApart` and
`ImplementsSequences` hold until something is pushed to a stray array; `GrowsInTime` is what would have to hold then.
`TagsFit`: every tag an assembly pushes is placed, and its position fits the bytes reserved for it; for a tag of the sub assembly
`assemble` may stop instead, but only if deduplication had put it in the place of another. `ScanInverts`: a text has the tokens it
was written with, but for the line after an empty `///` that continues a documentation comment: this line and no other is lost.
`ShownOnce`: JSON has the outline of the tree with the then block in place of each rule and nothing for `fireAllRules`. `CodeFaithful` includes that analyser
and generator agree on heights. `RulesSound` includes the order of evaluation. `ParseInverts`: a tree written
down is read back, nothing that is accepted was skipped, and printed assembly gives the same tree. `MeaningKept` includes that no
pass lets two declarations share a name. `NamesResolved`: every use refers to what its name means, errors and
shadowing warnings are exactly those that have a reason, bases have a linear order or there is none. `NothingLeft`:
storage has no slot that the present values do not account for.

Why the bounds are enough. `reentry`: the lock can be disturbed by the engine's message, one inside it and one
outside it, so three messages are every relative position. Two marks exist, so four frames are never reached. `fixpoint`: a
reevaluation from the middle of a list, from inside a reevaluation, and between rules of different salience all
happen within three frames. `memory`: three items are a
first, a middle and a last item with duplicates; slot 0 is a variable of the contract, because an empty map
entry leads there; 20 words let an array of two elements move behind another one, and three words of an encoding cover a header. With words of four bytes, byte arrays of up to
three bytes are short, and lengths 0, 3, 5 are empty, the longest short one and two slots of data; two and four
elements share a slot; numbers with their sign, left aligned and right aligned values each have a narrow type.
Contracts with damaged call data replace every word by values that wrap around, point at or behind the end, and cut
the data by a byte or a word. `stack`: error limit 2 stands
for 256, so that a second compilation on the same object meets the limit; two compilations are needed for
everything that is stale, three changes for a source, a setting and a second source. `optimiser`: no peephole method looks
at more than three items and what follows a jump, and three blocks are needed for a block that becomes equal to
another only after a third was replaced; a byte has four values, so that codes of 30 bytes need three bytes per tag.
In the blocks three fragments are a store, a second store that may be to the same place, and a load; addresses
0, 1, 6 and 12 overlap by some bytes, a whole word or not at all. `MaxSteps` 6 stands for 10000, so the search for constants also
meets its limit. `phases`: three rules give a circle of one, two and three and a rule that leads into one; a list that does not begin
empty spoils the run it is in, so one is enough. `yul`: four rounds as in the code; three bits have a smallest number, a sign and shifts beyond the width.
`frontend`: every alternative of every production occurs once alone and in the places where another could be taken
for it; texts put every pair of operators next to each other; four lines before the last are a comment, one and two empty lines of
it and code. For names, four contracts are a diamond and every list of bases
that contradicts another; two statements and the region around them have a name before, inside and after its declaration.

Constants of passing runs that keep clear of what section 6 describes: packed arrays have lengths that fill their slots
(`memory`), hashes cover whole words (`optimiser`), programs avoid four patterns of the Yul passes (`yul`), decoders are not
given damaged arrays of arrays (`memory`).

Deadlock is checked in the runs of `RuleEngine`, whose system goes on for ever. It is
off where the system may stop: memory is used up (`memory`), resolution, compilation, optimisation or the way through the
front end are done (`phases`, `optimiser`, `yul`, `frontend`), and the bounds on calls are reached (`stack`).

Fairness. `RuleEngine!FairSpec` has weak fairness of the steps of the routine and of the return of a message: the EVM
executes the next instruction, and gas bounds every message, also one a then block waits for. Nothing is
assumed about user code calling an operation. `ContractPhases!PhasesSpec` has weak fairness of its next-state
relation: the stages are loops that never block. That the loops of the optimiser end is stated without fairness, as
the action property `PassesLower`: every pass that changes the code lowers it in a well-founded order.

## 4. What is proved

`RuleEngine_proofs` proves, for any sets of types, facts, contents and rules, any saliences and attributes, any
bounds and any `Matches` that yields sequences of tuples (`ConstantsAssumption`, `MatchesAssumption`):

- `TypeCorrect`: `TypeOK`. Needs `FramesOK`: a frame that acts on an element has one.
- `LockCorrect`: `LockMatchesEngine`. `MarksCorrect`: `NoMarksLeft`. `FactsCorrect`: `FactsFrozen`.
  `LockOnActiveCorrect`: `LockOnActiveOnce`.
- `DepthCorrect`: `RecursionBounded`.

The first five rest on one inductive invariant, `TypeInv /\ SafeInv`. A failing message replaces storage by a saved
one, so every conjunct must also speak of each saved storage: `LockInv` says that exactly the storages saved
inside the engine's message are locked, `MarkInv` that every unlocked storage has no marks, `SavedInv` that
storages saved inside the engine have the working memory and the marks of the present one, `ListInv` that every
mark in the map is in a list (so that `Finish` clears all), `FiredInv` that a `lock_on_active` activation that
fired is marked. `DepthInv` adds for `RecursionBounded` that every frame but the innermost rests on a mark of its
own. There is a lemma per group of actions (`AbortSafe`, `UserSafe`, `RulesSafe`, and so on).

- `MatchesFresh`: `NoStaleMatch`. `SalienceRespected`: `HigherSalienceFirst`. `EndsInFixpoint`: `FixpointAtEnd`. The run
  `fixpoint` has one message; the theorems hold for any depth of messages that come back from then blocks, write facts
  and fail. All three follow from `FixInv` (theorem `FixCorrect`), which the properties alone are not enough for: contents
  change while a then block runs, so it speaks of the contents the innermost frame has `seen`. Rules before the
  frame's rule are settled for these contents (`Before`), and so is the part of the list before the frame's element
  (`AtList`); they are the present contents when the frame looks at its list. Outer frames need nothing: when the
  inner one returns, every rule is done. `ran` and the marks only grow while the engine runs (`Growing`, `SettledStays`); a message that
  fails inside puts back a storage that has the present working memory, marks and `noLoop` (`SavedInv`).

`FactStore_proofs`, for any types, structs, own variables and layout that meets `LayoutAssumption`:

- `ListsCorrect`: `ListsWellFormed`. `HandlesKeepOut`: `KnownHandleKeepsOut`.
- `StoreImplementsBags`: `ImplementsBags`, a step of the bags for each of `factInsert` and `factDelete`, and none for a write of the
  contract. The inductive invariant `StoreInv` adds to `ListsWellFormed` only that every word is a
  number. Counting occurrences is the argument for `factDelete`: the last
  item takes the hole, so exactly one place of the deleted fact is gone and every other fact has as many as before.
- The first attempt showed that `ListsWellFormed` does not follow from freedom of collisions: the search for an unknown handle
  starts at slot 0 and its length is a variable of the contract, so without a bound it runs into the lists. This is
  where `MaxSearch` and the last part of the assumption come from.

`DynArr_proofs`, for any size of elements and memory, any elements, and any number of encodings of any size beyond the free memory
pointer (`DynArrAssumption` only gives the constants their types):

- `ArraysKeepApart`: `ArraysApart`. `ArraysImplementSequences`: `ImplementsSequences`. Both end where something is pushed to an array
  that did not begin empty and was not cleared since; `stray_header` shows what is lost then. The inductive invariant `MemInv`
  says nothing about memory beyond the free memory pointer, since anything may be there: whether a new array is stray is decided
  when it is allocated. A reallocation copies the elements behind everything else, so regions are compared only with what lies
  below the old pointer.

`ContractPhases_proofs`, for any rules with names, any finite set of functions with any calls and pointers between them, and any facts
(`RulesAssumption`, `FunctionsAssumption`, `PatternsAssumption`):

- `LabelsCorrect`: `LabelsPlacedOnce`. The inductive invariant `CodeInv` says of each context that a function with a label is
  compiled or in the queue, that its label is placed just if it is compiled, and that it is reachable; that whatever a compiled
  function asks of either context has a label there (`Labelled`), so that what is compiled at the end is closed; and that the queue of
  the creation context stays empty while the runtime context is looked at again (`Drained`): compiling for the
  runtime context asks nothing of the creation context. For the label of the rules `FiredInv` says that the labels pushed in a
  context are exactly those of the compiled functions and constructors that fire rules.
- `FactsInherited`: `ConstraintsKept`, for any number of rules and any depth of inheritance. The inductive invariant `RulesInv` is
  about contracts whose bases come first: the table and its copy have exactly the rules entered so far (`TableOf`), rules
  before the current one are `Complete`, and the current one is `HalfWay`: it has only its own fact and its base is next, or it
  already has the facts of its whole lineage and an ancestor further up is next. That is why facts are repeated in chains of three rules but
  none is missing or foreign, and why one level is exact.
- `NetworkCorrect`: `NetworkExact`, for any number of patterns, any conditions and any lists of facts. The
  inductive invariant `NetworkInv` (theorem `NetworkRuns`) says that `GenOrder` puts type, alpha and join node of each pattern in
  turn and the term node last, and that, while no list began otherwise than empty, every node that has run has the list its code
  makes of the lists above it as they are now (`RunSoFar`): no list of an earlier run is left. What a node's list is follows from loops: an element is
  in the joined list as often as its left part is in one list times its last fact in the other, and as often as it was if it
  meets the conditions, not at all otherwise. Since these are statements about the number of turns of a loop they are
  proved with the least counterexample (`Loops_proofs!LeastNumber`), not by a scheme of induction over lists.

`StandardCompiler_proofs`, for any sources, texts, imports, faults, requests and error limit (`SourcesAssumption`, `BoundsAssumption`,
`RequestsAssumption`):

- `DataMatchState`: `StateMatchesData`. `CompiledClean`: `SuccessClean`. `AnswersCurrent`: `AnswerCurrent`. `FailuresExplained`:
  `FailureExplained`. All four follow from one inductive invariant, `RequestsInv`, whose core is `StackInv`: for each state of the
  object, what its sources, order, scopes and entries are good for. A failed analysis may leave scopes and entries behind
  (`ParsedInv`), a failed compilation code of two compilations (`EntryInv`, `Together`); the state alone does not say so, which is
  why the properties are not inductive. Every call of the object and every step of a request keeps `StackInv`.
- `parse` (`ParseEnds`): every loop has an invariant that its turn keeps, `LoadInv` for the imports of one source and `ParseInv` for the
  sources to parse. It ends because a turn puts one more name among those done with, and there are as many turns as names. If no error
  was reported since the last reset, every tree is there and so are its imports.
- The depth first search, for any finite graph (`SearchInv`): a seen node is open or finished and only one of the two, open nodes
  lie on one path, every root and every successor of an open or finished node is seen or waits above it, and a
  successor that is not finished before its node has a path back. `Remaining` counts the visits left and
  falls with every visit. From that, `OrderGood` is the order of the sources, imports first unless there is a circle, and
  `CompileOrderFacts` that of the contracts, where there is none.
- `analyze` (`AnalyzeEnds`): `AnalysisInv` says that the verdict is good so far or an error is reported. That all phases answer true only
  if none found an error goes backwards (`AllPhasesClean`): the static analyser answers for the whole list of errors, so no phase before it
  left one there, and the phases after it report an error only when they answer false. That a name means one contract
  afterwards needs the search again: of two imports one is finished first, or they lie on a circle (`NoClash`).
- `compile` (`GenerateEnds`): `CodeInv` says that the contracts so far are `Made` by this compilation, from the present trees and settings, and
  embed only such code. What a contract creates comes before it, so nothing of an older compilation is embedded.
- Requests (`RequestEnds`): `AddInv` (sources of a request) says that settings are the defaults and nothing is reported.
  A request starts with no entry, so its answer shows code of its own compilation or none.

`FixInv` (with messages that come back, two levels), `ListsWellFormed`, `MemInv`, `RulesInv` and `RunSoFar` were also checked by TLC on
small instances.

Only model-checked: liveness (`EngineEnds`, `CompilationEnds`), which the prover does not do. `EvmAssembly` and the block
optimiser, Yul, storage and ABI and the front end are recursive operators over code, trees, types and texts, which the prover
cannot take.

## 5. Disagreements shown by a run

- `noloop`: `no_loop` remembers only the tuple that caused the last reevaluation, so with two facts a rule fires
  for them in turn without end (`codegen/ContractCompiler.cpp:491`), while `docs/rule-engine-guide.rst:359` says that it
  makes a rule "fire only once for each `fireAllRules`".
- `stray_header`: `alloc` leaves the header of a new array as it is in memory (`codegen/DynArrUtils.cpp:102`), and `pushItem` asks for
  more memory only when length and capacity are equal; after data was encoded there an array can begin with more length
  than capacity, and its elements are written outside of it without end, while `codegen/DynArrUtils.h:24` says that memory is allocated "if
  len is greater than cap after push".
- `keccak_cached`: hashes are looked up by the words of memory they cover (`libevmasm/KnownState.cpp:377`); the hash of a part
  of a word is taken for the hash of the whole word.
- `tail_left`: an array of packed elements that is made shorter inside a slot keeps its old elements, which come back when it
  grows (`codegen/ArrayUtils.cpp:757`), while `codegen/ArrayUtils.h:66` says that it "clears the tail if it is shortened".

## 6. Disagreements and limits met while modelling, without a run

Rule engine and queue

- `factDelete` of a handle that was never inserted searches a list at slot 0, the contract's own
  variables, and may succeed and change them (`codegen/RuleEngineCompiler.cpp:77`).
- `fireAllRules` in an inherited function pushes the label of the base contract's rules, and in creation code (a constructor or a
  function it calls) a label of the creation context; neither is ever placed, and `Assembly` stops with "Reference to tag without
  position." `LabelsPlacedOnce` says that these are the only cases.
- A fact inserted through a storage pointer goes to a list of its own, which no rule reads: `_ptr` is appended to
  either form of the type's name (`codegen/RuleEngineCompiler.cpp:50`). `FactStore` models both lists.
- Neither the lists of the nodes (`codegen/RuleEngineCompiler.cpp:114`, `160`, `215`) nor the lists of marks
  (`codegen/ContractCompiler.cpp:385`) are cleared when they are allocated; `appendCleanUpNodes` empties only the arrays of the run
  before. If a message emits an event or sends a call before it fires rules, they may begin with garbage (run `stray_header`).
  `ReteNetwork` lets lists begin so and `NetworkExact` excepts the messages in which one does; `RuleEngine` takes all its lists as the
  sequences `DynArr` implements as long as none is stray.
- A condition of the first pattern that mentions no fact is never compiled (`codegen/RuleEngineCompiler.h:330`), hence the
  premise of `NetworkExact`.
- A chain of three rules repeats the facts of the first, and a base declared later is silently passed over: `ConstraintsKept` is about
  bases declared first. A rule that extends its own name, in a circle or because two rules have one name, makes
  the walk endless and the compiler hangs (`analysis/RuleInheritanceResolver.cpp:21`); `CompilationEnds` says that it does so exactly
  for these.
- A return statement in a then block fails an assertion, because no function is around it
  (`analysis/ReferencesResolver.cpp:322`), and so does a variable declaration (`analysis/NameAndTypeResolver.cpp:696`);
  `docs/rule-engine-guide.rst:115` only says that the latter "is not supported yet". `NamesResolved` has these two as its only
  broken assertions.
- In a pattern, a name inherited from a base contract is taken for a member of the fact: patterns are looked at before inherited
  names are added (`interface/CompilerStack.cpp:224`). A member that is an argument of a call is not replaced, because
  `FunctionCall::replaceChild` handles only the called expression (`ast/AST.cpp:768`), and is reported as undeclared.

Compiler stack and JSON

- `CompilerStack::reset` keeps the requested names and the contract standard, although its comment says that all
  settings but remappings are reset. A later JSON request without a standard is checked against the old one.
- The loop over the sources in `reset` works on copies (`interface/CompilerStack.cpp:105`).
- `ErrorReporter::clear` keeps the counters (`interface/ErrorReporter.cpp:165`): after 256 errors in the life of an object a
  parser that fails meets the assertion in `CompilerStack::parse`.
- `analyze` after a failed `analyze` meets the assertion "Unable to add new scope." (`analysis/NameAndTypeResolver.cpp:749`).
- The source map of an earlier `compile` survives a second one (`interface/CompilerStack.cpp:392`); requests do not meet it.
- A selection with file `*` and a contract's name matches no contract (`interface/StandardCompiler.cpp:107`).
- A request whose sources have empty lists of URLs is answered "No error reported, but compilation failed."

Storage, memory and calls (`codegen/`)

- `copyArrayToStorage` clears what is left of a longer target element by element, one slot each; of packed elements only the
  first of each slot is cleared (`ArrayUtils.cpp:37`: "also clears target if it was larger").
- A copy converts with the width of the source: `int16[]` from `int8[]` loses the sign of negative elements.
- Packed arrays are copied slot by slot, so a static target of another element size can write over the variable behind it.
- A short byte array copied from memory takes what lies in memory after its end.
- `memoryCopy` for byte arrays that are not padded emits `ssub`, which is no instruction (`CompilerUtils.cpp:571`).
- ABIEncoderV2 from storage: an empty byte array gets a word too many; static packed arrays that do not fill their slot
  write past their head; packed `bytesN` elements are not shifted to the left; the step to the next element is one slot also
  for elements of several. The older encoder pads an empty string literal with a word. The decoder of arrays of dynamic
  elements reads the offsets of its elements without a comparison with the end.

Assembly and optimisers

- The deduplicator replaces a tag that the creation code pushes by the tag of an equal block, but the set
  of tags referenced from outside keeps the old one (`libevmasm/Assembly.cpp:438`); when the runtime code itself no longer
  pushes the new tag, the next round removes it, and `assemble` stops at a tag without a position (`libevmasm/Assembly.cpp:656`). The
  run `optimiser` meets this case; `TagsFit` says that there is no other.
- Yul passes, of which `libyul/optimiser/README.md:6` says that all stages "transform the AST
  in a semantically equivalent way". An assignment to several variables leaves the current names of their old values in use
  (`SSATransform.cpp:103`); the value tracked for a variable survives assignments to the variables it mentions
  (`SSAValueTracker.cpp:39`, used in `SimplificationRules.cpp:119`); for a variable declared together with another one the
  tracked value is null, which the matcher asserts it is not (`SimplificationRules.cpp:113`); a read in an inner block does not
  keep a declaration from being moved behind it (`VarDeclPropagator.cpp:36`). The programs of `yul` do not contain these patterns. `OptimiserSuite` is only called from
  `test/libyul/YulOptimizerTest.cpp:210` and `test/tools/yulopti.cpp`.

Front end

- `applyModifierFlowToFunctionFlow` (`analysis/ControlFlowGraph.cpp:99`) gives no exits to the node where the function used to
  end. No path that runs through a modifier's `_` reaches the new end, so a function with a modifier is not reported for
  storage pointers it leaves unassigned, unless a path skips the `_`. `UnassignedReported` is exact for functions
  without modifiers only.
- A path `B.S` to a struct that `B` inherits is not found in a contract before `B`, whose inherited names are added later. A name of
  several functions that is used outside code, before the types of their parameters are known, is a fatal error "Function type can not be used in this
  context." (`analysis/NameAndTypeResolver.cpp:251`).
- A line that is only `///` and continues a documentation comment takes the next line of source with it (`parsing/Scanner.cpp:284`), a
  first line that is only `///` does not; `ScanInverts` has this as its only exception. A form feed ends a
  line comment and is then illegal. `1._2 1` swallows the second number.
- Read in another way than they look: a state variable of function type followed by `constant` or `public` (part of the type);
  a string literal "eni" that is called. Accepted: facts without commas between fields, attributes of a rule that occur twice,
  a comma before the closing parenthesis in assembly. A Yul function may be named `bool` but not called.
- JSON of the syntax tree: a rule is shown as its then block, `fireAllRules` as null, as `ShownOnce` says; in the legacy form children that begin with an
  empty one become an attribute. `deepCopy` of tuples and calls shares the children (`ast/AST.h:1507`, `ast/AST.h:1619`).

Left out of the models: hash collisions; a then block that stops its message successfully from inline assembly;
slot 0 of `RuleEngine` is zero; warnings but those about shadowing; more than one fault in a text; contracts that create each other in
a circle; inheritance of contracts, remappings and metadata in `CompilerStack`; source locations; the attachment of
documentation to nodes.

## 7. Not modelled

- Type checker and `Types`: a function of the tree that keeps nothing but annotations. What later parts rely on, layout and
  conversions, is in `ArrayUtils`.
- In name resolution: array lengths, the types a function type may take across an interface, functions inside assembly, suggestions
  of similar names.
- Syntax and documentation checks, static analyzer, mutability: passes over one tree.
  `CompilerStack` models their verdicts, and how a failing one leaves the stack.
- SMT checker: its answers are warnings, the solvers are external.
- Operators, control flow and calls of expressions and statements: the code of one visit after the other on an EVM stack;
  only data, labels and rules have state that outlives a statement.
- `libevmasm/ControlFlowGraph`, which nothing calls any more, and the gas of whole paths.
- Command line, LLL, versions and standards, developer core: front ends and helpers without state that outlives a call.

## 8. Plan

Stack heights of statements, modifiers, break, continue and return; mutability; SSA indices of the SMT checker;
semantic versions and LLL last.
