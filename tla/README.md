# Cmpl in TLA+

Cmpl is a C compiler written in C, with a CUDA-like dialect for kernels. It is
one sequential program: a preprocessor feeds a tokenizer, a hybrid LR(1)/LL
parser builds a syntax tree, `ast-opt` folds and prunes it, `ir/gen` lowers it
to an SSA-like IR, `ir-opt` optimizes that in rounds, and `llvm-codegen` (by a
`clang` subprocess) or `vulkan` (SPIR-V) emits it. `gpu` splits a program into
a host and a device module, `demo/vk_rt*` is the runtime of the demo, and
`base` holds the arena and the hash map that everything is built on. The
compiler handles no messages and has no threads; what is hard in it is long
sequences of operations on mutable state: stacks that must unwind, caches that
must be fresh, graphs that are rewritten while they are walked, tables with
limits. Concurrency appears where several compilers or scripts share a
directory (`llvm_cg.c`'s temporary file, `scripts/lock.sh`).

Paths below are relative to the repository.

## Inventory

| component | state | operations | hard part | what makes it correct |
|---|---|---|---|---|
| conditional inclusion, `pp/pp_cond.c`, `pp_if.c` | stack of TAKING/SKIPPING | the conditional directives | the stack forgets what a group has done; a limit of 32 | emits the lines C selects; groups never mix |
| include checkpoint cache, `pp/inc/pp_cache*.c`, `pp_include.c` | entries; chain of recording scopes; seen set | record, probe, replay, evict | what an entry depends on, found while nested includes hit or miss | cached output = fresh output |
| macro expansion, `pp/pp_expand.c`, `pp_line.c` | macro table, disabled set | expand a line | self reference, arguments, `#`/`##` | ends; C's expansion |
| tokenizer | none that outlives a token | scan | | pure function of text |
| LL parser, `parser/ll` | token cursor | one function per construct | declarators are turned inside out after the fact; which statements belong to a switch label | the tree of the grammar |
| LR(1) parser, `parser/lr` | tables built at start; parse stack, pending casts | shift, reduce | table construction; casts decided late | grammar's derivations |
| AST optimizer, `ast-opt` | tree | fold, propagate, prune | integer widths; what a jump makes dead | same meaning |
| lowering, `ir/gen/ir_gen_stmt*.c` | block list, current block, break/continue targets, labels | one function per statement | blocks are linked before they are filled; jumps out of nested statements | the blocks do what the statements say |
| scopes, `ir/gen/ir_gen.c` | symbol table, list of saved bindings | declare, open, close | undoing shadowing after nested scopes | a name denotes what C says |
| initializers, `ir/gen/init` | cursor over a type | designate, descend, pad | nested braces and designators; bit-fields; two walks, one for local and one for static objects | C11 6.7.9 |
| constant expressions, `ir/gen/sa` | scope frames | evaluate, check an assertion | widths kept in 64 bits; addresses; which declaration a name means | C's value |
| types, `ir/type`, `ir/gen/resolve` | trees of types, typedef/enum/record tables, cache of records | resolve, attach fields, size arrays, lay out | passes that each see part of the unit, over types that are shared | the types and the ABI of C |
| module assembly, `ir/gen/ir_gen_module*.c` | globals, signatures, functions | prepare, emit, merge declarations | order of the passes; one object declared several times | one definition with C's linkage and value |
| dominators, `ir_opt_mem2reg_cfg.c` | predecessors, idom, frontiers | sweep to a fixed point | block order, stale marks, caps | dominators dominate; no phi is missing |
| mem2reg, `ir_opt_mem2reg*.c` | use lists, phis, walk stack | insert phis, rename, clean up | replaced values are still operands elsewhere | same behaviour; definitions dominate uses |
| other passes, `ir-opt` | use lists, value table, worklist | DCE, fold, simplify CFG, GVN, inline | a pass leaves what another assumes | same behaviour |
| LLVM code generation | a temporary file | write, run clang, remove | other compilers in the same directory | compiles its own module |
| GPU split, SPIR-V | two modules; ids; structured CFG | split, emit | merge blocks, interface ids | valid modules |
| base, `base/hash.c`, `arena.c` | slots; slabs | get, put, grow; alloc | growth, wrap-around | a map; disjoint blocks |
| demo runtime, `demo/vk_rt*.c` | device, buffers, pipelines | init, copy, launch, free | order of calls, partial failure | no use after release |
| drivers, scripts | argument state; `build/.cmpl.lock` | batch loop; lock | one unit's state leaking into the next; nested scripts | units are independent |

How they interact: the parts call one another in sequence and share arenas,
hash maps and type caches that live for a translation unit, except in batch
mode (`main_batch.c`), where the checkpoint cache outlives the unit.
The IR passes share the function they rewrite, and each assumes the others
left its lists consistent.

## What is modelled

| module | code | state and actions |
|---|---|---|
| `CondStack` | `pp/pp_cond.c` | the stack as a record; one operator per C function, with the entries above `depth` kept as the array keeps them |
| `Conditionals` | `pp_if.c`, `pp_directive.c` | `cs` beside C's reading of the same source (`groups`); one action per directive, conditions as inputs |
| `ConditionalsProofs` | | the theorems about it |
| `PPCache` (`MCPPCache`) | `pp/inc/pp_cache*.c`, `pp_include.c`, `pp.c`, `pp_define.c`, `main_batch.c` | the context, the C call stack as frames, the entries; a step is one source line, one child of a replay or one return. `Fresh` in `MCPPCache` runs the same source without a cache |
| `PPCacheProofs` | | the theorems about it |
| `ExprParse` (`MCExpressionRun`) | `parser/lr` | the stack with its states and the chain of pending casts; a step is one shift or one chain of reductions. `MCExpressionRun` builds each expression with the tree that C's grammar gives it |
| `Declarators`, `DeclParse` | `parser/ll`, `gpu/gpu_qual.c` | the parser as a record; one operator per C function, which returns what it leaves in its registers. An expression is one token |
| `TypeTrees`, `Declarations` (`MCDeclarations`) | `ir/gen/resolve`, `ir/type/ir_type*.c`, `ir_gen_module*.c` | `Declarations` composes both: one declaration of the unit, or one pass over it, a step. Types live in heaps, since passes change types that several declarations share |
| `Layout` | `ir/type/ir_type_layout.c`, `_bf*.c` | sizes, alignments, the placement of bit-fields |
| `Initializers` | `ir/gen/init` | the walk that stores into a local and the walk that builds a static constant |
| `Addresses` | `ir/gen/sa/ice_addr*.c`, `ice_type*.c` | address constants, `sizeof`, `offsetof` |
| `Abi`, `Objects` (`MCObjects`) | | the reference (System V x86-64, C11 6.7.9); `Objects` declares a record field by field, or initializes an object element by element |
| `AstOptimize` | `ast-opt` | each pass as a function of a tree |
| `StaticAsserts` | `ir/gen/sa` | integer constant expressions; the frames an assertion is evaluated in |
| `CArithmetic`, `CExec`, `OptimizeRun` (`MCOptimizeRun`) | | the reference (arithmetic of C with undefined results, execution of a tree); `OptimizeRun` takes a pass a step, to the fixed point |
| `Lowering` | `ir_gen_stmt*.c`, `ir_gen_func.c`, `ir_gen_logical.c` | the generator as functions on its context (block list, current block, targets, labels) |
| `LoweringRun` (`SmallBodies`) | | runs a statement list as C writes it and the blocks it was lowered to, side by side, over all outcomes of its conditions |
| `FlowGraph` | | control-flow graphs and the textbook meaning of dominators and frontiers |
| `Dominators` | `ir_opt_mem2reg_cfg.c` | one step per block of a sweep, with the marks and stamps of the C code |
| `Mem2Reg` (`MCMem2Reg`) | `ir_opt_mem2reg.c`, `_rename.c`, `use/ir_opt_use.c` | extends the analysis: promote, rename block by block, remove the dead; then runs the function before and after |
| `DominatorsProofs`, `Mem2RegProofs` | | the theorems about the analysis and about promotion |
| `IrPasses` | `ir_opt_dce.c`, `_const.c`, `_simplify.c`, `_gvn.c`, `_inline.c`, `support/` | functions over a heap of values that several instructions share, one operator per C function |
| `IrRun` | `ir_opt.c` | a pass a step, in rounds; what a module means, and modules in the form that mem2reg leaves |
| `Scopes` | `ir_gen.c`, `ir_gen_stmt.c`, `_decl.c`, `_ctrl.c` | the symbol table and the list of saved bindings beside C's scopes |
| `ScopesProofs`, `LeastElement` | | the theorems about it and the lemma that a set of naturals has a least element |
| `Dictionary` | `base/hash.h` | the abstract map: what `hashmap_get` returns, and the call of `hashmap_put` in progress |
| `HashMap` | `base/hash.c` | slots, capacity, count; `Put` (the growth), one turn of `rehash` a step, `Insert`. Implements `Dictionary` |
| `Arena` | `base/arena.c` | the slab in use, the chain, the blocks handed out |
| `MapInArena` (`MCMapInArena`) | both | the map takes its tables from an arena that others use too |
| `HashMapProofs`, `MapInArenaProofs` | | the theorems about them; those about the arena alone open the second |

The modules follow a program through the compiler: `ExprParse` and `DeclParse`
end in trees; `AstOptimize` starts from such trees, `TypeTrees` from the types
in them; `Layout` and `Initializers` start from the types that `TypeTrees`
ends in; `MCMem2Reg` gets its graphs from `Lowering`, so the block order
that the analyses meet is the one the generator makes; `IrRun` starts from what
mem2reg leaves.

Most of the compiler computes a result from an input, in passes. The models of
these parts are functions, one per C function and named as it is, and a run
takes them step by step on every input of a family; its properties compare the
result with a reference written from the C standard or the ABI: `Abi`,
`CArithmetic`, `CExec`, and in `MCExpressionRun` and `MCDeclarations` the meaning
that is built along with each input.

## Runs

| run | instance | shows |
|---|---|---|
| `conditionals` | stack of 3, 4 open groups | both the full stack and nesting beyond it occur; three is enough for a group to have an ancestor and a descendant |
| `pp_cache` | 3 headers, 12 bodies, 4 unit sources, batches of 3, cap of 2 entries per path and 6 in all | hits, misses, cycles, misses inside replays, suppressed headers and evictions all occur; the families are those in which no header reads a macro that a header below it writes |
| `expressions` | every operator around, and in each operand of, every other, three deep; an operand that the parser is known to get wrong for its cast, or to refuse under `sizeof`, is in brackets (`open`, `starts`, `loose` and `Kept` of `MCExpressionRun`: see "Deviations"), as is a comma in `[]` or between `?` and `:` | precedence, associativity, the reach of casts and `sizeof`, inner expressions of `_Generic` |
| `declarations` | declarators of up to four derivations over three base types, each as object, typedef, parameter, member, local and second of a list; five items of ten in every legal order; all orders of three declarations of an object; statements nested two deep | parsing, resolution, IR types and globals together say what C says; units over a limit or without a constant bound are rejected, no others; not tried are the declarators that "Deviations" lists, among them one that opens with a parenthesis after a typedef name (`Opens`) |
| `objects` | records of three fields; initializers of three elements, each plain, braced, a string or with a designator of up to two steps (three in one type), for objects of nine types; address chains of four steps | layout (bit-fields of several types too), both walks over initializers, and address constants agree with C and the ABI, but for the records and the lists that "Deviations" names (`PlainUnits`, `ElidedUnevenly` and the conditions after it) |
| `optimizer` | operators on all pairs of literal types, nested; a variable with two statements; a block with assertions | after every pass the program does what was written; constants have C's value; assertions see their scope |
| `lowering` | statements two deep, rows in loops, labels; 3 cases | the lowered blocks and the statements take the same steps |
| `mem2reg` | lowered bodies on two slots, with swaps, values held across loops and escaping slots; 4662 graphs of bodies without slots: without loops, branches three deep, branches around switches and switches around branches and switches, then rows and nests of loops | promotion keeps the values that are used on every path; in the order of blocks that the generator makes the analysis is exact without loops and sound with them, for these nests (switches and branches three deep can mislead it: see "Deviations") |
| `ir_passes` | every operation on constants and parameters; two computations with stores, calls or branches between them; branches and loops, nested and in a row, on constants and others; device functions up to and over the size that is inlined, and those that call them; both levels, three rounds | after every pass a function stores, calls and returns what it did, for four pairs of arguments, and LLVM would accept the module; a branch on a constant whose arm without code assigns (`if (1) x = q;`) is in `ir_phis` instead |
| `ir_phis` | `if (1) x = q;` without an else, before another statement | finding: a phi that names its own block |
| `scopes` | 2 names, 5 declarations, 4 scopes | shadowing through blocks and `for` statements |
| `map_in_arena` | 4 keys, three of one home slot in a table of 4; tables of 4, 8 and 16 slots at 50 % load; slabs of 32 bytes | collisions that wrap around, two growths, a table larger than a slab, blocks of others before and after |

Bounds are constants: `CondStackMax` stands for 32, `MAX_INCLUDES`,
`PP_CACHE_MAX`, `PP_CACHE_PER_PATH`, `MAX_CASES`, `MAX_BLK`, `MAX_PRE`,
`MAX_DF`, `MAX_CHILDREN`, `MAX_PASS`, `DOM_MAX_ITER`, `MAX_STACK`,
`MAX_DECL_DEPTH`, `MAX_SUFFIX`, `MAX_VISITED`, `MAX_SEEN`, `MAX_LAYERS`,
`CONT_MAX`, `MAX_CONSTANTS`, `MAX_ENUM`, `SA_MAX_FRAMES`, `MAX_INLINE_SIZE` and
`MAX_ITER` for the limits of the
same name or meaning in the code; `MaxNesting`, `MaxTUs`, `MaxDecls`,
`MaxDepth`, `MaxFields`, `MaxElements`, `MaxSteps`, `MaxDerivations`, `MaxItems`
and `Fuel` bound the inputs. Limits of the code are small enough to be reached
where their effect is the question (the stack, evictions, declarators) and
large enough not to be where it is not (the analyses: see "Deviations").
`InitialCap` is 4 for the 16 of the code, with `MAX_LOAD_PCT` at 50 for 70 so
that four keys are enough for a second growth; `SLAB_SIZE` is 32 with entries of
3 bytes, so that the third table needs a slab of its own as one of 4096 entries
does in the code. `CHAR_BITS`, `INT_BITS` and `LONG_BITS` are 2, 3 and 5: each
conversion can lose or keep a value, and every pair of values can be tried. The
proofs need only `InitialCap >= 4` and a load of at most 75 %.

The families are not samples: each is every input of its shape. Shapes were
chosen by what the code does with them, e.g. four derivations are the least in
which a function returns a pointer to a function that returns a pointer, and
three initializer elements the least in which what follows a designator
continues in, and then leaves, an aggregate.

Fairness: `EveryUnitEnds` is checked under `WF_vars(Next)` (`FairSpec`). The
compiler is one thread that waits for nothing, so whenever it can take a step
it does. Deadlock is not checked where a run ends in a result.

## Proofs

The theorems of `ConditionalsProofs`, `PPCacheProofs`, `ScopesProofs`,
`DominatorsProofs`, `Mem2RegProofs`, `HashMapProofs` and `MapInArenaProofs` are
checked by TLAPS; they hold for every stack size, nesting, set of headers and
what is in them, set of names, control-flow graph, function body, set of slots,
set of keys, hash function, slab size and sequence of calls.

*Conditional inclusion.* Besides the type invariant, the inductive invariant
relates the stack to the groups: until the limit is reached entry `i` of the
stack stands for group `i + 1`; a group that C reads as open is TAKING; and a
group that has had no branch line after its selected branch ended is TAKING
exactly if it is open and its ancestors are. The invariants are not inductive
by themselves: `#endif` uncovers an entry about which only this relation says
anything. From it follow the type invariant, `SkippingIsInherited`, `DepthIsNesting`,
`AgreesOnSimpleGroups` and `NeverLosesSelectedLines`.

*Include cache.* `ReplaySegmentsInSpan` is about a replay under way and
`ScopesFollowCalls` about the number of active scopes; neither says what a scope
has recorded, and an entry is made of that when its header ends. The invariant
`IInv` does: the calls on the stack begin at ascending positions of the output
(`CallsInOrder`); the scopes of the chain are those of the innermost calls, up
to the last replay, and each holds slots and operations in order that lie
between where its call began and where the next one did (`ScopesInOrder`). A replay
sets the chain aside, so its frame carries the same fact about the chain it saved
(`ReplayOK`), which must hold again when the replay returns. An entry is what a
scope held, measured from where its call began (`EntriesInSpan`), and a miss
inside a replay finds the replay's operations ascending. The type invariant is
part of the induction for one fact: a replay adds what a header once changed to
the depth of the conditional stack and clamps it, so the depth stays in the
array although nothing relates the difference to the depth it is added to.

*Scopes.* The invariant adds to the type invariant and `LocalsResolve` that the marks are
in the order of the open blocks (`MarksInOrder`), that popping any open block,
not only the innermost, would give back the table it found (`EachGivesBack`),
and that each scope was opened with a table that resolved the names of the scope
around it (`EachWasResolved`). The middle part is what makes closing a
block inductive: it says today what must hold after the pop. Its core is the
lemma that a pop to an outer mark does the same before and after an inner one.

*Dominators.* Three theorems, since what `compute_doms` finds is exact for some
functions only. `ForwardOrderIsExact` speaks of functions whose edges all lead to
later blocks of the list and which have places in the arrays; nested branches are not
of this kind (the generator lists the outer merge block before the inner blocks), and
129 of the 3292 functions without loops in the run are. For
these the invariant says that the lists of predecessors are the edges
(`ListsAreEdges`), that what is recorded of a block is another that has its
dominators, the block itself apart (`TreeIsRight`), and that the blocks before
the one a sweep is at have theirs. So the path up from a block is its dominators
(`PathsAreDominators`), and what `meet` returns has the dominators that both
blocks have (`MeetsInDominators`), provided that no block off the first path bears the
stamp. The stamps start again in each sweep while the marks stay, so that must be
said of marks that an earlier sweep has left: a mark is the stamp of a meet, found
by counting those before it (`StampOf`), that block is a common dominator of the
predecessors met there before (`MarksAreOfPaths`), and no two meets have one stamp
(`StampsDiffer`). A later sweep repeats every meet under its stamp, so the mark is
right again. In another order of the blocks the result of a meet changes from sweep to
sweep, which is the deviation below. The textbook side is that of `FlowGraph`: what
dominates a block dominates each reached block before it (`DominatorsThrough`), for
blocks are reached in the order of the list (`ReachedThrough`).

`SettledIsExact` is about every function without loops, in whatever order: the
recorded tree is the dominator tree if each block has in it the place where the
recorded paths from its predecessors meet (`Settled`). The proof goes by the longest
walk that ends in a block (`WalkEnds`): the predecessors and all that dominates them end
shorter ones (`WalksGoOn`), and none of them is the block itself (`NoWayBack`), so their
paths are their dominators and meet at its immediate one (`SettledPaths`). A sweep in
which each meet is right and that changes nothing leaves such a tree, so
`ImmediateDominators`, which the run checks for nested branches and switches too, can
fail only by marks of another sweep; where it does is listed below.

`FrontiersFound` needs an exact tree and no more (`FrontiersAreExact`), with loops too:
the runner from a reachable predecessor passes the dominators of that predecessor that
do not strictly dominate the join (`RunnerPasses`, `RunnerStaysWithin`), and from an
unreachable one only that; after each predecessor of each join the
lists hold exactly what the runners have passed, or are full (`ListsJoins`); and a
block with one predecessor, which `compute_df` leaves out, is in no frontier
(`FrontiersAreJoins`). What is asked is that no edge leads back to the entry.

*Promotion.* `DefinitionsDominateUses` and `OnlyUnreachableLoadsAreUndefined` are
proved of every function, with or without loops, whose recorded tree is its
dominator tree and is walked whole (`TreeIsWhole`: the blocks have places in the
arrays, what is recorded of a block is its immediate dominator, and no list of
children is full). The hypothesis is what the walk needs. Where the tree is flatter
than it should be, as a join under a loop can leave it (see "Deviations"), a block
may be renamed before one that dominates it: the load of a slot is then replaced in
what is stored later, or carried on as the current value after its users were
redirected, and stays. In the run the functions without loops have the exact
tree, and of those with loops some do and some do not. Frontiers need not be right: where a phi is missing
the value is wrong, but still one in force; that it is the right one is the next
paragraph.

The invariant has two states. Between promotions (`Rested`) each result is
used where its definition is in force. During one (`Walked`) the use lists hold every use of a load that
is still to be replaced (`AllListed`), so `redirect_users` leaves none
(`LoadRedirected`); that is why promotion rebuilds them for each slot. The walk is a list of frames
(`WalkFits`): a block is passed if no frame is above it in the tree, the blocks of
two frames are not above each other, the current value of a frame is in force where its
block begins and is not a load of the slot, and a load that was passed has no user. `RenameBlock`
replaces a frame by those of the children, and these cover what the block dominates
(`KidsCover`), which is where the exact tree enters: a block that dominates another
has a child above it. The current value is never a load of the slot, for a stored
value that was one is redirected before the store is met (`StoredIsNoLoad`: its load is
in force there, so it is in a block passed already or above in this one). Redirecting
moves a use to an older value, and what is in force at a load is in force wherever
the load is (`InForceThrough`, `InForceLater`). A phi takes what a predecessor ends with, which
is in force at its end (`PhisFilled`). The dominance facts hold in any graph:
`AvoidingBoth` and from it `DomUp` and `DomAntisymmetric`.

*What a promoted function does.* `SameBehaviour` is proved of every function, with
or without loops, for which the analysis serves (`AnalysisServes`: the tree as above,
a place for every block and edge, and recorded frontiers whose closure has the
dominance frontier of every reachable block, `FrontiersServe`). Of the lowered
functions on which the run starts the frontiers serve in all, and the tree is exact
in 1533 of the 1643 with slots.

Where the tree is exact that they serve is no hypothesis of its own
(`ExactTreeBehaviour`): it is enough that no edge leads back to the entry, which no
function that the generator makes has, and that no list of a frontier is full. The
runner follows immediate dominators, so it meets every block that dominates the
predecessor (`PathPasses`: with each step there is one dominator fewer, so `N` steps
lead to the entry), and nothing stops it below one that does not strictly dominate the
join (`RunnerPasses`). That `compute_df` leaves out the blocks with one predecessor
costs nothing, with loops too: a block of the frontier of `a` is reached around `a`, or,
if it is `a`, for a first time, and both from another predecessor than the one below
`a` (`FrontiersAreJoins`).

The proof has a static and a dynamic half, joined by two functions that are never
computed by the code: `rep` gives for each value of the original program the one that
stands for it, `ent` for each slot and block the value that the slot would have where
the block begins. From them follows what a slot has at any instruction
(`IsContent`: the value of the last store above, or that of the entry), and
`Represents` says what makes the program at hand stand for the original one: operands
are those of the original under `rep`, a replaced load stands for the content of its slot,
a phi takes from each predecessor what the slot has at its end (`PhisStand`), and
where a block has none all predecessors end with the same (`JoinsStand`).

Static half: redirecting one load changes `rep` and `ent` in one place
(`LoadStands`, `PutRep`); the invariant of the walk (`WalkStands`) says this of the
blocks that were passed, and that a frame carries what the slot has at the end of the
immediate dominator of its block. When the walk is over, `JoinsStand` holds for the
new slot (`JoinsFollow`): follow the value at the end of a predecessor up the tree,
past the blocks that do not strictly dominate the join. The join is in the dominance
frontier of each of them, so where it has no phi none of them stores to the slot or
has a phi of it: closed frontiers would have given the join one. The block above them
is the immediate dominator of the join too, and what it ends with is what the join
begins with. This is Cytron's theorem, for the closure that `compute_idf` takes of the
lists that `compute_df` has made. The frontiers matter only here.

Dynamic half: before each instruction the two runs agree (`Agrees`) on the memory of
the slots that were left, on the content of the promoted ones, and on every value
that is known there (`Loaded`), where a value the original has not defined may be
anything. One instruction keeps that (`InstrAgrees`; a loaded result has one instruction,
so a value in force is not overwritten), and so does an edge (`EdgeAgrees`), where all phis of a
block take their values at once: what stands for a value from above is no phi of
the block that is entered, although a loop may pass the same phi again.
`BehaviourInvariant` puts both halves together over the steps of `Spec`.

*Hash map.* A table is `Good` if a key has one slot at most and no unused slot
lies between a key's home slot and its own. A search in a good table finds
exactly the keys that are in it (`GetFound`, `GetMissing`); writing an entry
where its search stops keeps the table good (`WriteKeeps`), and the slot that
`rehash` takes, which looks for no key, is that slot (`FreeIsFirst`). The
invariant adds that the count is the number of used slots and leaves room (for
two entries before an insertion: this is where the load limit and the smallest
capacity enter), and that halfway through `rehash` the new table holds exactly
the entries the loop has passed (`Halfway`). `SearchesEnd` and the
refinement `Spec => Dict!Spec` follow; the latter needs the old table as the
dictionary while it is being copied.

*Arena.* The invariant adds to `BlocksApart` that no block of the slab in use
reaches beyond the offset (`BelowOffset`) and that the chain holds every other
slab in order (`Chain`), from which `EverySlabIsFreed` follows. The rest of
`MapInArenaProofs` puts map and arena together: an arena that a map lives in
keeps its invariant although
the sizes asked for grow without bound, and `TablesFit`.

Assumptions: `CondStackMax > 0`; limits of the cache above 0, keywords that are
names, headers and sources made of lines, a main source that is not a header; the
marker is not a name; the arrays of the analysis have a place at least, and a
function is a graph with an entry, in which only loads have results, each its own,
and a result is used where its load is in force (`ProgramsAssumption`: the
generator emits the operands of an instruction before it, in its block or in one
that every path to it goes through); an
unused slot is not an entry; a slab is a multiple of the alignment. The functions of
`Dominators` and `Mem2Reg` recurse over numbers, and that each has a value is a
lemma here (`RunExists`, by the least number at which one would be missing;
`RenamesExist`).

Only model-checked: everything else. `CachedIsFresh` compares with `FreshRun`,
which recurses over the source. `ServesLoops` holds of loops only in the shapes
that the generator makes, and `CastsWaitInside` only of well-formed expressions
(see "Deviations"): neither is an invariant of every input. `Lowering`,
`DeclParse`, `TypeTrees`, `AstOptimize`, `StaticAsserts`, `Layout`, `Initializers`,
`Addresses` and `IrPasses` are written with RECURSIVE operators; what such a function computes for every input is an induction over data, which is
beyond the prover. So are liveness and what depends on ENABLED.

## Deviations met while modelling

The code does more than one thing that C, or its own documents, would not have.
`ir_phis` shows one in a run. The others were seen while the models
were written; the instances of the passing runs, and the preconditions of their
properties, stay clear of them. They are listed so that a reader knows where a
property stops.

*Preprocessor.* The stack keeps only whether the current branch is
emitted, so once an `#elif` has ended the selected branch a later `#elif` or the
`#else` may be taken too (`pp_cond.c`; `doc/preprocessor.md:99` says a group knows
that a branch was taken); a second `#else` flips a group back (`doc/preprocessor.md:98` calls
it an error). A cached header that reads a macro which a header below it writes
keeps the old value: `pp_rec_ctrl_has` stops the dependency from being recorded
(`pp_cache_ctrl.c:8`: "Sound because the define is reproduced by the subtree's
own replay"). A header that leaves a conditional open replays with its depth but
not its states; an include dropped at `MAX_INCLUDES` while recording is missing
on replay; the cap for one path evicts the oldest entry of any path.
`#define foo foo` rescans without end (`pp_line.c:106`).

*Expressions.* A cast waits for its operand to be reduced, so `(T)a[i]` is right,
but nothing applies it to a postfix expression when `]`, `?`, `:` or a comma
operator comes next (`lr1_cast_pending.c:98`, `lr1_reduce_postfix.c:9`):
`b[(int)c]` is `(int)b[c]`, `(char)x ? c : 300` is `(char)(x ? c : 300)`,
`x ? (char)a : c` is `(char)(x ? a : c)` and `(T)a, b` is `(T)(a, b)`. In the third
operand of `?:` any cast at the start is late, for the state after a `:` is none of
those that apply casts: `c ? 300 : (char)c + 500` casts the 500. The run tries casts in
these operands in every form but those: of 42772 expressions it changes 451 that
are parsed wrong, by one pair of brackets, and four that are not. A
cast before an operand that is parsed wholesale (`va_arg`, `_Generic`, a
compound literal, `sizeof` of a type) reaches too far or is a syntax error.
`++*p`, `++ ++a`, `++sizeof a`, `sizeof -(int)x`, `sizeof a[(int)i]`,
`sizeof (int){0}` are syntax errors. A comma inside `[]` or between `?` and `:`
within a call separates arguments, and so does one inside an arm of `_Generic`.

*Declarations.* More than two pointer or array layers around a function, and
arrays that something else than the name's own pointer points to, get another
type; function parameters are not adjusted to pointers; `struct S (*x)(int)` is
a function; after a typedef name an object whose declarator opens with a parenthesis
is not one (`T (*p)(int);` is a syntax error, `T (*p);` declares nothing: `Opens` of
`MCDeclarations`); a storage class after a qualifier is dropped, and
`static __device__` loses one of the two; `extern int t[]; int t[3] = {...};`
and `int x; int x = 5;` keep the first declaration's type and value;
designators are not counted when an array is sized by its initializer; a typedef
inside a function replaces the global one, a local `struct S` changes `S` for
all functions, and `struct S;` after the definition takes its fields;
declarations after the 128th of a block, under a label, or second in a `for`
are not resolved; `typedef struct {...} *P;` leaves `p->b` an `i32`;
`a * b;` is a declaration. `long unsigned` is a signed long, `int long` an int.
A declaration right after a `case` label is a syntax error, an empty statement
ends the list of a case, and of a block.

*Constants.* Values are kept in 64 bits: a cast to `_Bool` truncates, a
`long` with an `unsigned` operand is unsigned, an unsigned division with a
negative image is signed, a shift of 64 unsigned bits to the right copies the
sign, `0 && 1/0` is rejected. `sizeof(*(g + 1))` is 1 for an array `g` of
arrays. Beyond 128 scopes the frames of assertions are unbalanced.
Constant propagation replaces a variable inside `sizeof`
(`opt_propagate_replace.c`).

*AST optimizer.* Comma expressions are typed by any operand, comparisons of long
or unsigned operands have their type, `-2 >> 1u` is unsigned, a propagated
`char` or `long` has the type of its literal, a constant that shadows another
name rewrites `n = 3` to `0 = 3`. Statements after a jump are removed with the
labels and cases in them, and with their static assertions (`opt_dead.c:10`:
"CASE/DEFAULT/LABEL nodes are never removed").

*Layout.* The code keeps the unit of a bit-field open through whole fields, lets
it grow, and measures whether the next one fits from where that unit began; the
ABI measures from a boundary of the bit-field's type. In
`struct { char n; int a:9; short b:8; }` the unit begins at bit 8, so `b` is put
at bit 32, and gcc has it at 17. An unnamed bit-field aligns its record; a union
with a bit-field gets the size of its last member. `LaidOutAsTheABI` is checked on
bit-fields of one type and of several, and leaves out (`PlainUnits`) the structs in
which a bit-field ends, counted from where its unit began, beyond the bits of its
type, the records in which an unnamed bit-field has the greatest alignment, and
the unions with a bit-field whose last member is smaller, up to the alignment,
than another or of width 0: 1366 of 11900 structs with a bit-field (765 of them
do differ from the ABI) and 1739 of 11900 unions (all of them do).

*Initializers, local and static.* An elided aggregate takes as many elements as
it has members of its own (`ir_gen_init.c:45`, `gen_const_absorb`), where C counts
the members of its members: with two levels of elided braces,
`Deep d = {1, 2, 3, 4}` for `{ { {x, y}, z }, g[2] }`, the 3 goes to `g[0]` and
`z` gets none; an elided union takes as many as it has members instead of one.
Both properties hold of elided aggregates in aggregates where the two counts do
not part within the list (`ElidedUnevenly`).

*Initializers of locals.* A second braced initializer of a member keeps the
values of the first that it does not give; a value in braces for a bit-field is
stored nowhere (`store i32 1, ptr void`); in a record with bit-fields the elements
after `.p.x = 1` continue inside `p`, and then from the position of `x` instead of
that of `p` (`first` stays set, `ir_gen_init_desig.c:71`, so the next step replaces `top_idx`): `{.p.x = 1, 2, 3}` puts
the 3 in `p` when `p` is the second field and `x` the first of its record.
`LocalAsWritten` leaves out no other lists: it is checked on 35423 of the 41471,
and of those left out 5296 do come out wrong.

*Initializers of statics.* A designator that comes back to a member rebuilds it
and forgets what it had, and `.f = 1, .f = 2` on bit-fields ORs both; after a
designator the position counts the unnamed fields (`ir_gen_const_desig_elem.c:96`), so in
`struct { int a:3; int :2; int b:5; char c; } m = {.b = 1, 7}` the 7 is lost; braces
around a scalar, designators through unions and aggregates in a record with
bit-fields are invalid IR or lost; `.s = "ab"` followed by elements loses them.
`StaticAsWritten` is checked on the 8482 lists without any of these.

*Lowering and IR.* A switch without labels ends the function; cases past the
64th are dropped; `default` before a `case` falls through to the wrong block;
statements after a nested block that ends in a jump follow a terminator; the
variable of a `for` statement belongs to the scope around the loop, and a local
may outlive its block. The stamps of `meet` restart in each sweep while the
marks stay (`ir_opt_mem2reg_cfg.c:85`), so a recorded dominator may be wrong, although the
marks are there "to avoid depending on block index ordering"
(`ir_opt_mem2reg_cfg.c:53`). Without loops this takes branches and switches three
deep: in `switch (s) { default: if (p) { x = 2; if (q) break; break; } else { if (r) ; } }`
the block after the switch gets as its dominator the one where `x = 2` is, which the other
branch does not pass. `ImmediateDominators` is checked for nests that are
less deep, where it holds. With loops a recorded dominator may be too high in simple
shapes too (`ServesLoops` still holds for structured code in the order that the
generator lists it; a `do` whose condition `continue` reaches from nested
branches breaks it, and loops entered by gotos can leave a reachable block
unrenamed); `build_domtree` drops children past the 64th; promotion stops at 128
predecessors, 32 frontier blocks, 512 blocks. `ServesLoops` leaves out the one
shape of `MCMem2Reg` that is misled (`Misled`); promotion is checked on it.

*IR passes.* `merge_block` moves a phi along, which then names the block it is in
(the finding). A copy made by `inline_call` shares the arguments of its calls
with the original, so `d(p, 1); d(q, 2);` with `__device__ void d(int p, int q)
{ e(q, p); }` calls `e(1, p)` twice and changes `d`; it also shares its results,
so dead code elimination takes the copies of everything that only computes, and
a call's result keeps its own number instead of the one that is returned. Folding
keeps constants in 64 bits: a logical shift to the right of a negative one is
not an int. `x + 0` is reported as a change in every round, although the
instruction stays, and with it the passes always take eight rounds; they stop
then whether or not they are done. Blocks that a folded branch leaves unreachable
are never removed. A folded branch keeps its condition as an operand
(`test/test_simplify_worklist.c:5`), so the comparison and its block stay; the model
keeps it too.

*Drivers.* In batch mode two sources can have one flat name, lines of 512
characters are skipped, and type caches are shared by the units; the name of
`llvm_cg.c`'s temporary file is looked for before it is taken.

## Not modelled

- *Macro expansion* and the *tokenizer*: text in, text out. The cache model
  takes macros as names with a value, the conditional model takes conditions as
  inputs; spelling, pasting and rescanning would be a model of characters.
- *LR(1) table construction*: the tables are a function of a fixed grammar.
  `ExprParse` states what the tables decide, by precedence; every pair of
  operators is tried against them.
- *Expression code generation*: `Lowering` treats an expression without control
  flow as one step, with `&&`, `||` and `?:` as the blocks they become. Widths
  and conversions are checked where constants are computed.
- *LLVM and SPIR-V back ends, IR dump*: translation of one instruction at a
  time into text or words, with their validity decided by other programs.
- *GPU split, demo runtime, drivers, scripts*: calls of an external API or of
  processes, in a fixed order.
- *Inside modelled parts*: floating point; attributes; variadic macros; the
  spelling of literals; diagnostics; kernels' launch syntax in declarations; in
  the IR passes `select`, other widths than int, and what value numbering writes
  through a shared array of arguments.
