# A TLA+ development of the jianmu compiler

jianmu translates SysY (a subset of C) into LoongArch assembly.  This directory
holds TLA+ models of the compiler from the syntax tree to machine code: IR
generation, the optimiser and the back end.  Where a pass transforms programs,
the model runs the program before and after it and compares what can be seen
from outside.  TLC checks the models on small instances; theorems about the back
end, which TLAPS proves, hold for every instance.

Contents: [the system](#the-system), [what is modelled](#what-is-modelled),
[the runs](#the-runs), [the proofs](#the-proofs),
[disagreements found](#disagreements-found),
[what is not modelled](#what-is-not-modelled), [plan](#plan).

## The system

The compiler is one sequential program (`src/src/cminusfc/cminusfc.cpp`): source
text -> syntax tree -> IR -> optimised IR -> machine code -> text.  Nothing runs
concurrently and nothing is persisted.  What makes it hard is of another kind:
work lists whose order of service is that of an `std::unordered_set` of
pointers, analyses that go stale while the code they describe is rewritten,
several data structures that have to agree after every editing step (operand
lists and use lists, edges and degrees, aliases and work lists), and machine
arithmetic.  A compiled program that behaves differently from run to run of the
compiler is a symptom no unit test pins down.

| component | source | state it keeps | operations | what makes it correct |
|---|---|---|---|---|
| machine registers and instructions | `codegen/Operand`, `MachineInstr`, `MachineBasicBlock` | operands of each instruction, instruction lists, `Register::color` | `get_use`, `get_def`, `replace_use`, `replace_def`, `colorize`, block `get_use`/`get_def` | what is reported as read and written is what the machine reads and writes |
| liveness analysis | `codegen/LivenessAnalysis` | `live_in`, `live_out`, queue | `run_on_func` | the result is the least solution of the data-flow equations; the queue empties |
| machine dead code elimination | `codegen/MIDCE` | instruction lists, `use_set`, `changed` | `run`, `run_on_func` | nothing that is read is removed although the live sets grow stale; it ends |
| register allocation | `codegen/RegisterAllocation` | interference graph, degrees, five sets of moves, four work lists, stack, aliases, colours | `build_graph`, `make_worklist`, `simplify`, `coalesce`, `freeze`, `select_spill`, `assign_colors`, `rewrite_program` | registers live at once never share a physical register, every register and move is settled, rounds end |
| frame and parameter layout | `codegen/MachineFunction` | slot offsets, frame size | `insert_alloca`, `insert_reg`, `calc_params_schedule` | slots are aligned and do not overlap; caller and callee agree |
| peephole optimisation | `codegen/PeepholeOptimization` | instruction lists | `opt_mul`, `opt_div`, `opt_add` | the replacement computes the same word |
| instruction selection | `codegen/InstructionSelector`, `MIBuilder` | value and block maps, machine code | `gen_*`, phi copies, prologue and epilogue | every IR value is in its register wherever it is read, copies of phis happen in parallel and on the right edge |
| dominators | `passes/Dominators` | `idom`, frontiers, post order | `create_idom`, ... | the fixed point is dominance, also for unreachable blocks and for the second function |
| Mem2Reg | `passes/Mem2Reg` | phi nodes, stacks of values | `generate_phi`, `rename` | a load is replaced by the last store on every path |
| loops and LICM | `passes/LoopDetection`, `passes/LICM` | loop nests, preheaders | discovery, hoisting | operands precede uses, nothing observable moves |
| dead code and purity | `passes/DeadCode`, `passes/FuncInfo` | marks, purity | mark and sweep | no observable instruction goes |
| IR values and users | `lightir/` | operand lists, use lists, block edges | `set_operand`, `remove_operand`, `replace_all_use_with`, ... | both lists say the same |
| IR generation | `cminusfc/cminusf_builder` | scopes, initialiser walk, short-circuit targets | visitors | initialisers fill the elements the language says |
| parser, driver, printing, runtime, old code generator | | | | see `PROJECT.json` |

Components interact by calls, one pass after the other on shared structures.
The driver builds the IR and, when asked to optimise, runs `DeadCode`,
`Mem2Reg`, `LoopDetection`, `LoopInvariantCodeMotion` and `DeadCode` again.
The back end runs `InstructionSelector`, `PeepholeOptimization`,
`MIDeadCodeElimination` and `RegisterAllocation`, in this order; the last two
each begin with a liveness analysis.  `PROJECT.json` lists every component, the
hazards with the line at which each one bites, and which property watches it.

## What is modelled

| module | models | extends |
|---|---|---|
| `Registers` | virtual and physical registers | |
| `MachineCode` | instructions, `has_dst`, `get_use`, `get_def` of instructions and blocks | `Registers` |
| `LivenessAnalysis` | `LivenessAnalysis::run_on_func` | `MachineCode` |
| `DeadCodeRemoval` | abstract: what removing dead instructions promises | `MachineCode` |
| `MIDCE` | `MIDeadCodeElimination`, analysis and sweeps; implements `DeadCodeRemoval` | `LivenessAnalysis` |
| `RegisterAllocation` | one round of `RegisterAllocation::run_on_func`, `make_worklist` to `assign_colors` | `Registers` |
| `RegAllocFunction` | the whole of `RegisterAllocation::run_on_func`: `build_graph`, rounds, `rewrite_program`, `colorize` | `RegisterAllocation`, `InstructionSelector` |
| `Words` | machine words of a small width, immediates, floats in halves | |
| `MIBuilder` | `MIBuilder`, `InstructionChecker`, callee-saved registers | `Words` |
| `FrameLayout` | `FrameScheduler`, `calc_params_schedule` | `MIBuilder` |
| `InstructionSelector` | `InstructionSelector`, one step per block or IR instruction | `FrameLayout` |
| `PeepholeOptimization` | `PeepholeOptimization`, one step per instruction | `MIBuilder` |
| `LoongArch` | external: what machine code does, and the calling convention | `FrameLayout`, `IRMeaning` |
| `IRMeaning` | external: what IR does, and the run-time library | `Words` |
| `Lowering` | selection, peephole optimisation, then the function run as IR and as machine code | `InstructionSelector`, `LoongArch`, instance of `PeepholeOptimization` |
| `BackEnd` | the same with register allocation, and the coloured code run beside the IR | `Lowering`, `RegAllocFunction` |
| `FlowGraph` | the blocks of each function, `succ_bbs_` and `pre_bbs_`; definitions of reachability, dominance and natural loops on paths | |
| `CminusfBuilder` | the control flow `CminusfBuilder` makes of statements and conditions, step by step | `FlowGraph` |
| `Dominators` | `Dominators::run_on_func`, one instance for all functions | `FlowGraph` |
| `LoopDetection` | `LoopDetection::run_on_func` | `Dominators` |
| `MiddleEnd` | builder, `DeadCode::clear_basic_blocks`, loop detection, one after the other | `CminusfBuilder`, `LoopDetection` |
| `IRGeneration` | `CminusfBuilder` on whole programs: scopes, types, constants, arrays, initialisers | `IRMeaning` |
| `SourceMeaning` | external: what a program means by the rules of C | `IRGeneration` |
| `IRCode` | instructions in blocks: uses, replacement, deletion, phis | `FlowGraph` |
| `FuncInfo` | purity of functions | `IRCode` |
| `DeadCode` | mark, sweep, `clear_basic_blocks` on instructions | `FuncInfo` |
| `Mem2Reg` | phi placement and renaming | `IRCode` |
| `LICM` | loop-invariant code motion | `FuncInfo` |
| `Optimizer` | IR generation and the four passes, each result run and compared with the source | `DeadCode`, `Mem2Reg`, `LICM`, `SourceMeaning` |
| `MC...` | the instances TLC checks | |
| `LivenessProofs`, `MIDCEProofs`, `AllocationProofs`, `ColoringProofs` | theorems and proofs about the back end | the modules they name |
| `BuilderProofs` | theorems and proofs about the flow graph of every program | `MiddleEnd` |
| `DominatorsProofs` | theorems and proofs about the analyses on it | `BuilderProofs` |
| `RegionProofs` | theorems and proofs about the shape of the graph, and what it means for the analyses | `DominatorsProofs` |
| `LoopProofs` | theorem and proof about the loops found | `RegionProofs` |

**MachineCode.**  An instruction is a record of its tag, its register operands,
the registers it reads implicitly (parameters of a call, the result of a
return) and the `IS_RESERVED` flag.  Tags that behave alike are one: what an
instruction computes plays no part in liveness.  The zero register is neither
read nor written, as in `get_use` and `get_def`.

**LivenessAnalysis.**  One step is one iteration of the loop over the FIFO
queue.  The order in which predecessors are appended is any order.  The code
does not start with every block in the queue, only with the epilogue, and
queues a block only when the live-in set of a successor changed.  That this is
enough is not a property of the algorithm alone.  It depends on two facts about
the functions `InstructionSelector` builds (`FuncAssumption`): every block
reaches the epilogue (a conditional branch always keeps both targets, so every
loop has its exit and every block leads to a return, each of which is a
predecessor of the epilogue), and the frame pointer, read by the epilogue, is
written only in the prologue and the epilogue.  So the frame pointer is live in
every block, which makes the live-in set of every block change at least once.
Without the second fact a block could be missed.

**MIDCE.**  One liveness analysis, then sweeps from the last to the first
instruction of every block until a sweep removes nothing.  Instructions keep
their original positions; `kept` holds the positions still in the list, so the
list iterator is a position.  Each action is one iteration of the innermost
loop (`Erase`, `Keep`) or what lies between two of them (`StartSweeps`,
`NextBlock`, `NextSweep`).  `DeadCodeRemoval` says what a removal may do:
remove one instruction whose result no path reads in the code *left at that
moment*, where "reads" means the operands the machine reads, not what
`get_use` reports.

**RegisterAllocation.**  The state is that of the C++ class: edges, degrees,
`move_list`, the five sets of moves, the four work lists, the stack, the
aliases and the colours.  One action per operation and branch: `MakeWorklist`,
`Simplify`, `CoalesceSame`, `CoalesceConstrained`, `CoalesceCombine`,
`CoalesceDefer`, `Freeze`, `SelectSpill`, `LeaveLoop`, `AssignColor` (one
register popped), `FinishAssign`.  Whatever the code takes with `*begin()` from
an unordered set is any element, and where a loop over such a set can come out
differently (`freeze_moves`) the order is quantified.  Two representations
differ from the code: `alias` is kept compressed, as `get_alias` leaves it, and
a `degree` below zero stands for the huge `size_t` it wraps to (`HighDegree`
treats it as high).  The graph and the moves are inputs here.

**RegAllocFunction** is the loop around it, on the machine code of a function.
`Build` is `build_graph` with `add_edge`, on top of what the last round has left
in `edges`, `degree`, `move_list` and the sets of moves, none of which the code
resets.  `Rewrite` is `rewrite_program` with `rewrite_prologue`: slots for the
spilled registers, a new register and a load for every use, a store behind every
definition, three more registers where the offset exceeds an immediate, and a
new frame.  `Colorize` is the last loop.  A step of a round is that of
`RegisterAllocation`; instead of any element of an unordered set it takes the
first in one of `HashOrders`, since with any order in every step the behaviours
of several rounds are too many.  The state the models of one round quantify
over, this module computes.

**Words, MIBuilder, FrameLayout.**  Words have `WordBits` bits and immediates
`ImmBits`, both smaller than the machine's 32 and 12, with the same relations
between them: a constant fits an immediate, needs two instructions, or wraps.
`Check` is the assertion in `MachineInstr`'s factory that an instruction has the
operands its opcode allows.  `ArgRegs` is the number of argument registers of
each bank, so that one of a few parameters already goes to the stack.

**InstructionSelector, PeepholeOptimization.**  A step of the selector is one
`gen_*` handler with all it emits, also what it puts at the end of *another*
block (`gen_phi` copies, before the branch or before the comparison that was
fused with it) or at a place it looks up in its own.  What a handler reads of
the use lists (`gen_icmp` emits nothing when every use is a branch) is read off
the operands.  A peephole step is one instruction the walk stands on, with the
search for the last definition of an operand as in the code: backwards, ending
before the first instruction of the block.

**Lowering** then runs both versions.  `LoongArch` executes machine code over
virtual registers: argument and result registers, the stack with the bytes an
access touches, and a call, which leaves every caller-saved register undefined.
What a caller can see is the log of calls, the result, the preserved registers
and the caller's part of the stack.

**BackEnd** puts the allocator behind the peephole optimisation and runs the
coloured code in the place of the code of `Lowering`.  `MIDCE`, which the driver
runs between the two, is left out of the composition: it only takes dead
instructions away, and a smaller function is one with fewer registers.  The
liveness analysis is a step that gives the least solution, which is what the run
`machine_dead_code` shows of it and `LivenessProofs` proves.

**CminusfBuilder.**  The visitor is recursive over the syntax tree.  Its call
stack is the variable `open`, and the next node is chosen while the walk goes
on, so the behaviours are the walks over every program the grammar allows.  A
visit is cut where it calls another one: `VisitSelection` is the visit of an if
up to its condition, `VisitThen` what follows the condition, `VisitElse` what
follows the first branch, and so on.  Each takes from the code which blocks are
created when, which block the builder inserts into, which fields of `context`
are set, and which are put back from the locals the frame holds.  Statements
without control flow (assignments, declarations, calls) change none of this.

**Dominators.**  `idom` starts at null pointers and is swept until it is
stable; frontiers and tree follow.  A step is one entry to or return from a
recursive `dfs`, or one block of a loop over blocks.  `run_on_func` clears
`dom_dfs_order_` and nothing else, so for the second function the sweeps of
`create_idom` pass the blocks of the first again: `postOrder` keeps them.
Children in the tree are a set of pointers: any order.
`IsDominate` reads an interval that is missing as 0, where `at()` would throw; none is
missing by then, since `create_idom` or the frontiers throw first.

**LoopDetection.**  Headers are visited in the reverse of the tree's dfs order,
so inner loops come first.  A `Loop` object is named by its header.  The work
list of `discover_loop_and_sub_loops` starts with the back edge nodes in any
order.

**IRGeneration.**  The same visitors once more, on whole programs.  A visit is
an operator from builder to builder, so a program is translated in one step;
the interleavings of the walk are what `CminusfBuilder` is for.  A builder
record has the module so far, the insert block, both scopes (the one of
variables and the table of constant values, which the code never leaves), the
targets in `context`, and `aborted`, which a failed assertion sets.  The
asserted types of the instruction constructors are part of `Create`.  Types of
values are kept (`i1` and `i32` differ, and a stored `i1` fails the assertion
as in the code); floats are counted in halves.

**SourceMeaning** gives the meaning of the same syntax tree by the rules of C,
independently of the IR, and says when C leaves it undefined: a variable read
before it is written, a division by zero, an overflow.

**IRCode, FuncInfo, DeadCode, Mem2Reg, LICM.**  Blocks are sequences of
instructions with a number each; deleting an instruction leaves a null operand
behind at its uses, as in the code, and a property says none is left.
`mark` and `process` of the two work lists are closures: they only add, and the
order does not show.  `Mem2Reg` takes one step per function for the phis and one
per block entered or left while renaming, with the stacks of values and what
each block pushed.  `LICM` takes one step per loop, inner loops first.  Both
passes use dominance and natural loops by their definitions in `FlowGraph`;
that the algorithms of `Dominators` and `LoopDetection` compute exactly these is
what run `middle_end` checks.  The instructions a loop hoists come from a `std::set` of
pointers: `HoistOrders` are the directions in which addresses may grow.  The
history variable `ordered` of `LICM` remembers whether every instruction was
hoisted behind its operands so far.

**Optimizer** is the driver's order of passes.  Behind each pass the IR of the
whole program is run for each list of answers from the outside (`getint` and
the like) and compared with `SourceMeaning`.

**MiddleEnd.**  Functions are built, blocks without predecessors are erased
until there are none, and one instance of the analyses runs over all functions.
The function pass between them, Mem2Reg, moves no block and no edge.

## The runs

| run | module, cfg | states | what it checks |
|---|---|---|---|
| `machine_dead_code` | `MCMIDCE`, `MIDCE.cfg` | 27,604 | liveness analysis and sweeps of 686 functions of a prologue, an epilogue and two blocks with seven kinds of code each |
| `allocation` | `MCAllocation`, `Allocation.cfg` | 746,201 | all interference graphs over three virtual and two physical registers, with two moves |
| `middle_end` | `MiddleEnd`, `MiddleEnd.cfg` | 642,515 | all programs of at most ten blocks and two functions, with at most one `&&` or `\|\|` |
| `optimizer` | `MCOptimizer`, `Optimizer.cfg` | 8,998 | 77 programs through IR generation and all passes, each with three lists of answers and both directions of addresses |
| `lowering` | `MCLowering`, `Lowering.cfg` | 85,553 | 167 IR functions through selection and peephole optimisation, each with up to twelve lists of arguments |
| `back_end` | `MCBackEnd`, `BackEnd.cfg` | 27,031 | five IR functions through selection and register allocation, with eight orders of the unordered sets |
| `precolored_simplified` | `MCAllocation`, `Precolored.cfg` | violation | see below |
| `far_load` | `MCMIDCE`, `FarLoad.cfg` | violation | see below |
| `unreached_loop` | `MiddleEnd`, `UnreachedLoop.cfg` | violation | see below |
| `signed_division` | `MCLowering`, `SignedDivision.cfg` | violation | see below |
| `shadowed_constant` | `MCOptimizer`, `ShadowedConstant.cfg` | violation | see below |
| `nested_braces` | `MCOptimizer`, `InnerLists.cfg` | violation | see below |

Properties, run by run:

* `machine_dead_code`, of the liveness analysis: `DataflowSolution` (at the end
  both equations hold in every block, also those the queue did not start with),
  `NeverTooLive` (at every step, a register in a live-in set is really read on
  some path before being written), `NothingMissed` (at the end, every register so
  read is there), `Monotone` (a live-in set rebuilt from scratch never loses a
  register).  Liveness of a register is defined independently of the equations,
  as the least set of blocks closed under "reads it, or leaves it alone and a
  successor needs it".  Of the sweeps: `ImplementsRemoval` (refinement of
  `DeadCodeRemoval`), `RemovedStayDead` (what a removed instruction wrote is
  never read by the code that is left: no later removal of another write brings
  it back to life), `OneSweepEnough` (a single sweep leaves nothing these live
  sets allow to remove, chains in a block included; the second sweep only
  confirms it).  Of both: `DceTypeOK`, `DceTermination`.
* `allocation`: `NoInterferenceMerged` (no chain of merges joins interfering
  registers), `ProperColoring` (when a round spills nothing, registers that
  interfere have different physical registers, unless a physical register was
  simplified: see below), `EveryRegisterSettled`, `NoMoveForgotten`,
  `DegreesExact` (the stored degree is the number of neighbours still in the
  graph as long as nothing but registers of the graph was simplified, and none
  twice: a register whose last move was given up under the name of one merged
  into it stays in `freeze_worklist`, and a merge next to it can send it to
  `simplify_worklist` as well),
  `CoalescedMovesVanish` (both sides of a coalesced move end with one
  register, so it prints as nothing), `RoundTermination`.
* `middle_end`: `MiddleEndTypeOK` (also that both edge lists of every block
  that is left say the same after blocks were erased), `TargetsFollowNesting`
  (true and false targets of a condition, and the targets of `break` and
  `continue`, are those of the innermost constructs around it, although the fields are set and
  restored by hand in sixteen assignments), `EveryBlockEnds` (the assertion against
  instructions behind a terminator never fails, and every block of a finished
  function has a terminator), `DominatorsExact` (immediate dominators, frontiers and tree
  intervals are what paths say, for every function analysed so far),
  `ThrowsOnlyForUnreached` (a look-up of a missing block happens only where a
  block is reached from one that is not; `create_idom` starts from the first
  predecessor, whether or not that one has a dominator yet), `LoopNestExact`
  (loops, parents, sub-loops and blocks are those of the natural loops, and no
  cycle is without header), `AnalysisTermination`.
* `optimizer`: `SameBehaviour` (the program gets through the compiler, and behind
  every pass, for every list of answers,
  the IR makes the calls the source makes, with the same arguments and in the
  same order, and `main` returns the same; wherever C says what that is),
  `DefinitionsDominateUses` (a definition reaches each use on every path, for
  a phi along its edge, and no operand is the null pointer of a deleted
  instruction).  Both leave out one thing, where an instruction was hoisted in
  front of an operand of its own (`~ordered`): the first the meaning of that
  program, the second the order inside one block.  The run holds such states, since
  it takes both directions of addresses, and without the precondition TLC finds
  both properties violated there (see the last part of the disagreements).  With
  addresses that rise, no program of the run has such an instruction, and nothing
  is left out.  Further `PhisMatchPredecessors` (at most one operand of a phi for each
  predecessor, none for another block, phis first),
  `NoPhiBehindTakenBranch` (no branch jumps to a block with phis when its
  condition holds; see `lowering`), `OptimizerTypeOK`, `OptimizerEnds`.
* `lowering`: `ComputesTheSame` (calls with their arguments, and result;
  excepted are runs in which the shift made of a division rounded a negative
  number, which is `signed_division`), `RestoresCaller` (preserved registers and
  the caller's frame), `AccessesAligned` (every access at a multiple of its
  size, the stack pointer at a multiple of 16 at every call),
  `InstructionsAccepted` (an assertion of the checker fails only for a function
  with one of two IR instructions: a sum with a constant on the left that `ORI`
  reaches and `ADDI` does not, or a division by the constant zero; the run holds
  both, and there the checker does fail), `LoweringTypeOK`.
* `back_end`: `SameBehaviour` (the coloured code makes the calls of the IR,
  returns the same and restores its caller's registers and frame),
  `ColorsFitTheCode` (whatever the earlier rounds have left in the graph, in the
  code that is coloured no register is written while another of its colour is
  still needed), `SpilledLeaveTheCode` (no instruction names a register that has
  a slot, so it does no harm that the graph keeps it, nor that a later round may
  "spill" it again, which happens), `InstructionsAccepted` (no condition register
  is spilled, every register of the code has a colour in the end, every load,
  store and frame set-up is an instruction the machine has), `BackEndTypeOK`
  (also that slots lie inside the frame and apart).  Deadlock checking is on and
  the state space is finite, so every behaviour of the run ends with the coloured
  function called and left; three of the five functions take several rounds in
  every order.

`optimizer` and `lowering` meet at what the selector expects of the IR.
`gen_phi` puts its copies behind the fused comparison-and-branch of a
predecessor, in front of the unconditional one, so a phi in the block a
conditional branch *takes* would not get its copy.  That the front end and the
passes never make one is `NoPhiBehindTakenBranch`, and the functions of
`lowering` keep to it.

**Bounds.**  Two blocks between prologue and epilogue give straight lines,
branches, self loops and loops through two blocks with entry at either place,
which is every way a block can be its own direct or indirect predecessor.
Three virtual registers and two colours let a register be of high or low degree,
be spilled, be merged into a virtual or a physical register, and be merged
twice; two moves are what it takes for a deferred move to be enabled again by
another merge.  The first move is one of three because renaming registers and
moves changes nothing.  Two physical registers never get an edge or a move
between them in the instance: their edges are never looked up, since `graph`
is only filled for virtual registers.  All registers of the instance have one
type; `add_edge` and the instruction checker keep types apart.

For the middle end a loop takes three blocks and an if three or four, so ten
blocks hold two nested loops in one function with a block to spare, or a loop in each of two, or an
if with else inside a loop; the run `unreached_loop` has the eleven that a loop
that is never entered and jumps back into a reached one takes.  One logical operator is enough for both
targets to be replaced and put back; it needs a block, which the ten leave for
two nested constructs.  Two functions are what the kept vector of blocks needs:
a third would add blocks of the same kind.

The 77 programs of `optimizer` are families, each with the variations that
matter for one hazard: loops with a store, a load, a call or a pure function in
the body, with and without a second way in or out; breaks, continues and returns
out of nested loops; nested loops with a variable of the outer one; short-circuit
conditions; bodies that define variables anew; floats and ints mixed; arrays
passed, indexed and cleared; recursion and calls for their effect; constants and
initialisers.  Words of 16 bits hold every number in them.  `Fuel` bounds the
iterations and calls of a run of the source (30; a run that uses it up counts as
undefined, which no program of the run does on all of its lists), `StepBound`
the steps of a run of the IR (600, more than twice what the longest takes).
`SourceMeaning` does not watch for indices outside an array: the programs have
none.  No initialiser has more elements than there is room for.  `HoistOrders`
has both directions in the run, of all orders there are; these two are enough
for an operand in front of its user and behind it.

The 167 functions of `lowering` cover every IR instruction with constants on
both sides of each immediate boundary, comparisons alone and in front of a
branch on them, phis that swap and rotate values, also with a condition in one,
variables of one, four and more bytes between each other, arrays addressed with
one and two indices, calls with more arguments than registers, floats, constants
on the left of a sum at every boundary of `ADDI` and `ORI`, and divisions by a
constant zero that no argument leads to.  No index of a `gep` is a negative
constant, and sizes of elements come with the instruction: the code takes them
from the types and multiplies without sign, which gives the same for indices that
are not negative.
Words have 12 bits and immediates 5, so a stack slot beyond the reach of an
immediate is a few slots away.  One argument register of each bank makes the
second parameter one on the stack.

The five functions of `back_end` have a value that lives across a call, a float
that does, a loop with phis in a circle, a join with two phis, and two
comparisons of floats, for which there is one condition register.  The machine
has six general registers (`ra`, `a0`, three that calls overwrite and one they
do not), two for floats and one condition; `SavedGeneral` and `SavedFloat` are
how many of `s0`.. and `fs0`.. the calling convention of the instance preserves.
With these every function spills in some order, some of them the temporaries of
an earlier spill.  Words have 14 bits and immediates 6, so the fifth slot is
beyond the reach of an immediate.  The order of a set is that of
`order * n` modulo 31 over the numbers of registers and moves: eight of the
thirty orders there are.  `VirtualRegisters` bounds how many registers there may
be (99 general ones); a rewrite that needs more would show as a deadlock.  The
rounds are not known to end: nothing in `select_spill` keeps it from a temporary.
A temporal property is beyond TLC here, which does not keep what it has computed
while it looks for `ENABLED`; the run shows the end by its finite state space.

**Fairness.**  The specifications of the back end have weak fairness of their
whole next-state relation and nothing else: a sequential loop whose body can run
does run.  No fairness between the choices of a work list is assumed.
`MiddleEnd` has it only once the program is built, because the model's choice of
statements stands for the author of the program.  `MiddleEnd` and `Optimizer`
say it without `ENABLED`: infinitely many steps, or infinitely often at the end.
Deadlock checking, which is on for them, shows that a step is possible until
then.  It is off for `MIDCE` and the single round, where every modelled routine returns;
`Lowering` and `BackEnd` state no fairness and end in steps that change nothing.

## The proofs

All theorems hold for arbitrary sets of registers, moves and blocks, any graph
and any code, and for every program whatever the bounds on its blocks, functions
and operators, under the named assumptions (`RegisterAssumption`,
`MachineAssumption`, `LivenessAssumption`, `MIDCEAssumption`,
`AllocationAssumption`, `InputAssumption`, `BuilderAssumption`), each of which
TLC evaluates on the instances.

* **`LivenessProofs`**: `TypeCorrect` (the types), `LivenessSound` (`NeverTooLive`),
  `SolutionCorrect` (`DataflowSolution`), `LivenessComplete` (`NothingMissed`),
  `LiveInOnlyGrows` (`Monotone`).  `DataflowSolution` speaks of the end only, so
  it is not inductive.  `QueueInv` says for each block not in the queue that its
  equations hold already or that it was never visited and nothing is live after
  it; at the end the second case is impossible, because the blocks that have
  the frame pointer live include the epilogue and, with a block, all its
  predecessors.  This is where both halves of `FuncAssumption` are used.
* **`MIDCEProofs`**: `RemovedAreDead` and `ImplementsDeadCodeRemoval` for
  functions in which no instruction but one on FP or SP reads the register it
  writes (`NoSelfRead`; the run `far_load` shows that this is needed);
  `DceTypeCorrect` and `SecondSweepConfirms` (`OneSweepEnough`) for every
  function.  `Later(b, n)` is what block b reads behind position n before
  writing it, or hands on to its (old) live-out set.  The invariant says that
  `use_set` covers `Later` where the sweep stands (`SweepInv`), that `Later` at
  the start of each block is covered by the old live-in set (`CoverInv`), and
  that what a removed instruction wrote is not in `Later` behind it
  (`RemovedInv`).  The lemma `RemovalShrinks` carries it: a removal makes
  `Later` smaller at every position, so stale live sets stay sound.
  `LiveIsLater` turns coverage of single blocks into the absence of paths, by
  the least-set definition of liveness and completeness of the analysis.
  `OneSweepEnough` has an invariant of its own (`OnceInv`): in every sweep
  `use_set` is exactly what the instructions that are left read later
  (`ExactUse`), so whatever the sweep has passed resists removal, and what is
  removed afterwards, further up, reads nothing that would change that.
* **`AllocationProofs`**: `AllocationTypeCorrect` and `InterferenceNeverMerged`
  (`NoInterferenceMerged`, with no side condition).  `MergeInv` needs more than
  the property: aliases lead to registers that are not merged themselves
  (`AliasInv`), edges are symmetric, every pending move is listed at the
  registers its ends were merged into (`MovesListed`) and is in one of the two
  sets only (`MovesOnce`), a register that is pushed or about to be has no
  pending move, so it is never merged any more (`StackQuiet`), and two facts
  about the registers the ends of an edge were merged into: they differ
  (`RootsApart`), and as long as neither is on the stack they have an edge
  themselves (`RootsJoined`), which is what `coalesce` looks up.
* **`ColoringProofs`**: `ColoringIsProper` (`ProperColoring`).  `StackSees` is
  the heart: a register on the stack still has an edge, up to aliases, to every
  register it interferes with that is not below it on the stack, so when it is
  coloured it sees all colours already given out.  `combine` drops exactly the
  edges to registers that are on the stack, that is, below.
  In the same module, of what a round leaves behind:
  `NoRegisterForgotten` (`EveryRegisterSettled`),
  `EveryMoveDecided` (`NoMoveForgotten`), `CoalescedShareColor`
  (`CoalescedMovesVanish`), none with a side condition.  `OnLists` follows a
  register from one work list to the next: while the loop runs, one that is not
  merged is in `simplify_worklist`, `freeze_worklist`, `spill_worklist` or on
  the stack, whatever the stored degrees say; so at its end it is on the stack
  (`StackedOrColored`).  A merge joins the aliases of both ends of a move
  (`MovesMerged`), and later merges move them together.  A move that is still
  active at the end has ends that are on no work list, and by `StackQuiet` none
  that was pushed, so both were merged into physical registers.
  Also `DegreesFollowGraph` (`DegreesExact`).  `DegreeInv` is the
  property with its premise, for all work before the colouring.  What makes it
  work is `AdjacentFacts` (two registers in the graph are each other's
  neighbours or neither is) and that `combine` counts only neighbours the
  survivor does not have yet; a register that is pushed twice would be
  subtracted twice, which is the second half of the premise.
* **`BuilderProofs`**: `JumpsFollowNesting` (`TargetsFollowNesting`),
  `BlocksEndOnce` (`EveryBlockEnds`), `BuilderTypeCorrect` and `EdgeListsAgree`
  (both parts of `MiddleEndTypeOK`), for every program, and also behind
  `clear_basic_blocks`.  The invariant `BuilderInv` reads the stack of visits
  under way.  `Nested`: which visit may lie in which.  `LaidOut`: all blocks a
  visit knows belong to the function being built.  `EndInv`: each block is
  ended, the insert block, or owed by exactly one visit that will make it the
  insert block later (`OwedOnce`, `EndedOrOwed`); so none is ended twice and
  none forgotten.  `ContextInv`: each field of `context` names the block of the
  nearest visit below that sets it, and each value saved for a restore was the
  one for the visits further below (`SavedAt`); so restoring by hand puts back
  what holds outside.  Erasing blocks keeps the edge lists in agreement because
  `Without` takes the same blocks out of all lists (`WithoutFacts`); what that
  recursive function returns for a list of any length is proved by
  `IntervalInduction`: a set of numbers up to n with 0 and all successors would,
  without n, be mapped into itself one to one but not onto, which a finite set
  cannot be.
* **`DominatorsProofs`**: `MiddleEndTypeCorrect` (`MiddleEndTypeOK`),
  `NoJumpToAnEntry` and `DominatorsFound` (`DominatorsExact`).  The types need what the routines keep true of each other
  (`WalkTypeOK`, `NestTypeOK`): the cursor of each loop lies in the list it
  walks, the visits of both walks are blocks, and a block with a number is one
  of the graph.  `Intersect`, `NewIdom` and `RootLoop` climb step by step, and
  `Recursion` proves that such functions on 0 .. n exist and take every step.
  `EntryInv` adds to `BuilderInv` that no visit under way knows the entry as a
  target: entries are made by `StartFunction` only, and `Elsewhere` keeps them
  out of the contexts, targets and blocks of all visits.
  `DominatorsFound` follows the routines of `run_on_func`, with one invariant for
  each.  *Numbers* (`OrderInv`, `DfsInv`): exactly the blocks that are reached get
  one, no two the same, and each but the entry has a predecessor with a higher
  one; while the walk is under way the visits are a path from the entry.
  `FromAbove` turns this into induction from the highest number down.
  *Dominance*: `Over(f, d, b)` is dominance by paths; it is an order, goes from a
  block to its predecessors and comes back from all of them (`OverFacts`), and a
  strict dominator has the higher number (`OrderedFacts`).  `Above(b)` is the
  chain of `idom_` from b.  *Sweeps* (`SweepInv`): while they run, the entry of a
  block is a block with a higher number that all strict dominators of the block
  dominate (`ClimbsRight`), so the chain holds all dominators and perhaps more;
  `intersect` finds a block on both chains below no common dominator
  (`IntersectFacts`), or fails (`IntersectFails`).  When a whole sweep changes
  nothing, each entry is on the chain of every predecessor (`Settled`), and then
  it dominates the block by paths: what can be reached without it is closed under
  successors (`SettledExact`).  Blocks of functions analysed before are swept
  again and keep what they have (`SweepComputes`).  *Frontiers* (`FrontInv`): the
  runners from a predecessor pass its dominators below the block's immediate one
  (`RunnersFacts`), a predecessor that is not reached makes them look up a null
  pointer (`RunnersAstray`), and blocks with one predecessor, which are skipped,
  are in no frontier (`JoinsExact`).  *Tree* (`TreeInv`): the visits of the second
  walk are the dominators of the last block entered, and the intervals, open
  ended for visits under way, are right among the blocks entered so far.
* **`RegionProofs`**: `EveryProgramReduces` and `OnlyUnreachedBlocksThrow`
  (`ThrowsOnlyForUnreached`).  The statements of the language can only make
  reducible flow graphs, but the builder wires them by hand, so this is proved
  of what it wires.  `RegionInv` keeps two histories next to the builder's state
  (bound by quantifiers, not variables of the model): `rank`, the order in which
  blocks became the insert block, and `body`, the blocks of each loop.  While the
  program is built, every edge goes on in this order or back to the header of a
  loop it starts in (`GoesOn`), a loop is entered at its header only
  (`SingleEntry`), and of the predecessors of a header those in its loop come
  last (`LatchesLast`), since `VisitIteration` jumps to the header before the body
  is built.  What ties this to the visits under way is `Framed`: a visit that will
  end the insert block lies in the loops around it.  `clear_basic_blocks` takes
  edges away in their order (`RegionClears`).  `RegionsReduce` turns this into
  dominance: a header dominates its loop, and each block has an edge into it from
  outside its own loop, so its first predecessor is outside too.  On such a graph
  the visits of the first walk rise in `rank` (`StackRanks`), so an edge leads to a
  lower number or to a dominator (`EdgesOrdered`); the first predecessor of a block
  is therefore numbered higher, and swept, before it (`FirstBefore`), and
  `NewIdom` never fails (`SweepGoesOn`).  What is left are the runners of the
  frontiers, which stop before the null pointer exactly if all predecessors are
  reached (`FrontierGoesOn`); `CausedInv` carries this through the loop over the
  blocks.
* **`LoopProofs`**: `LoopsFound` (`LoopNestExact`).  `Forest` says what natural
  loops are like where every predecessor is reached, which `CausedInv` says of an
  analysed function: each is the least set that holds what goes to its blocks
  other than the header, and of two loops one contains the other or they are
  apart (`NaturalForest`).  Among the blocks still to be visited, the dominators of
  each come after it (`VisitsRise`, from the order in which the second walk
  enters them, `TreeOrder`), so when a loop is created all loops inside it are
  found and none around it.  `NestInv` is the invariant: between two loops,
  `bb_to_loop_`, the parents, sub-loops and blocks are those of the loops found
  (`Nest`); while the loop of `header` is discovered (`Search`), everything that
  goes to a block discovered is discovered too, or part of a sub-loop hung under
  the loop, or still in the work list.  `ParentsLater` bounds the climb to the
  outermost loop (`RootFacts`).  When the work list is empty, what is discovered is
  closed, so it is the whole loop (`SearchEnds`).  That no cycle is overlooked does
  not follow from the loops being natural ones: on every cycle the block that
  comes first in the order of `EveryProgramReduces` has an edge back to it from
  blocks it dominates, and is a header (`CyclesInLoops`).

**Only model-checked.**  Termination (`DceTermination`,
`RoundTermination`, `AnalysisTermination`, `OptimizerEnds`): liveness under fairness is out of the prover's reach.
Every safety property of the run `middle_end` is proved.  Not proved yet, and
checked by TLC: of `BackEnd` `SpilledLeaveTheCode` and `ColorsFitTheCode`, which need
the types of all the code instruction selection and the rewriting produce;
`ColorsFitTheCode` moreover holds on the five functions, not of every one: the
run `precolored_simplified` is a round that breaks it.  The properties of `Optimizer`
and `Lowering`, and the behaviour of the coloured code, compare two runs of a
program: meaning and translation are recursive over it (`RECURSIVE` operators),
which is for TLC only.  What a work list or a fold of the community modules
computes is an induction over data with an operator as parameter; where a model
uses a recursive function instead, `IntervalInduction` takes its place.

## Disagreements found

The first two concern `src/tests/test_func.sh`, which requires of every program
that what it prints when compiled is what it should print; the third, a comment;
the others `src/README.md`, which says the language is a subset of C.

1. **A physical register in `simplify_worklist`** (`RegisterAllocation.cpp:347`,
   run `precolored_simplified`).  `freeze_moves` hands the other end of a move it
   gives up to `simplify_worklist` without the check for a physical register that
   `add_worklist` (line 300) makes.  On the stack the physical register is
   invisible to `adjacent`, so a later `combine` does not hand on the edge to it,
   and two registers that are live at once get that physical register.  This is
   why `ProperColoring` has a precondition, `NoPhysSimplified`; the theorem says
   that nothing else can go wrong.
2. **A removed address computation** (`MachineInstr.cpp:251`, run `far_load`).
   `get_use` leaves out an operand equal to the destination even when it is
   read.  `load_from_stack` and `store_to_stack` emit `ADD tmp, ptr, tmp` for
   offsets beyond 12 bits, and MIDCE then erases the instruction that loads
   `tmp`.  It needs a function with more than 4095 bytes of stack parameters.
3. **A loop that is not reached** (`Dominators.cpp:98`, run `unreached_loop`).
   `create_dominance_frontier`, said to find the frontier of every block, climbs
   from each predecessor of a block.  For one that is not reached it looks up a
   null pointer, and the exception ends the compiler.  `clear_basic_blocks`
   erases only blocks without predecessors, so a loop behind a statement that
   never ends survives it: `while (a) { if (b) return; else return; while (c); }`.
   This is why `DominatorsExact` speaks of functions whose analysis was
   finished, and what `ThrowsOnlyForUnreached` says can happen otherwise.

4. **A signed division by a power of two** (`PeepholeOptimization.cpp:112`, run
   `signed_division`).  `opt_div` makes it an arithmetic shift, which rounds down.
   This is why `ComputesTheSame` leaves out runs in which such a shift had a
   negative operand and a remainder.
5. **A hidden constant** (`cminusf_builder.hpp:162`, run `shadowed_constant`).
   The table of constant values has one scope, entered in the constructor, and
   `Scope::push` keeps the entry that is there: a constant that hides another
   one has the value of the hidden one in constant expressions.
6. **Braces in braces** (`cminusf_builder.cpp:356`, run `nested_braces`).  The
   length of an inner list is that of the largest sub-array that begins where it
   stands, also when the list around it is for that sub-array already.
   `{{{1},{2}}}` for `int d[2][2][2]` puts the 2 four places further on.

Met while modelling, without a run of its own.  The first three are in the runs
`optimizer` and `lowering`, whose properties have them as stated exceptions:

* The order of hoisted instructions is that of their addresses (`LICM.cpp:180`):
  where the allocator handed out descending addresses, a user comes to lie before
  its operand and reads what is not there yet.  The exception is `~ordered`.
* `3000 + x`: `opt_add` takes the constant of an `ORI`, which is unsigned, for
  the signed immediate of `ADDI` (`PeepholeOptimization.cpp:148`), and the
  checker fails.  The exception is `BeyondADDI`.
* A division by a constant zero: zero passes for a power of two
  (`PeepholeOptimization.cpp:107`), and the shift by -1 fails the checker, also
  where the division is never executed.  The exception is `ByZero`.

The next are in the model as well, but in no program of a run:

* A local `const float c = 3;`: `store_value` has replaced the number by the
  instruction that converts it when `get_const_value` asks for a constant, and
  the assertion at `cminusf_builder.cpp:115` fails (`IsConverted`).  A local
  `const float a[2] = {1, 2};` fails the one at `:98`.
* An array of floats with an `int` among its elements: `get_const_value` returns
  that one number for the whole array (`cminusf_builder.cpp:137-141`), so a
  global `float x[2] = {1.5, 2};` has one word of data, 2.0 (`ArrayWords`).
* An element of an all-zero constant array in a constant expression: the
  constant is a `ConstantZero`, and the cast to `ConstantArray` gives null, which is
  followed (`:674`).
* `int x = !y;` stores an `i1` (`:43-49`) and fails the assertion at
  `Instruction.cpp:269`; `!f` of a float falls through to an assertion (`:956-959`).

And of the code only:

* In a constant expression a division by zero divides in the compiler.
* A variable read on a path on which nothing was stored to it leaves a null
  operand after `Mem2Reg` (`Mem2Reg.cpp:104-110`), which `LICM` may dereference.
  C leaves such a program undefined only if the read is executed.
* `docs/how_init_val_works.py` accepts a brace at a place no sub-array begins
  at, the code fails an assertion there (`cminusf_builder.cpp:331`, `:361`).
* `select_spill` may choose the temporary of an earlier spill (`RegisterAllocation.cpp:356`),
  and in `back_end` it does: nothing bounds the rounds.  Every round makes new registers
  and a larger frame, so no state comes back, and no property says that rounds end.

## What is not modelled

The lexer and parser (generated), options and files of the driver, printing, the
runtime library, and the old code generator `CodeGen.cpp`, which
the driver no longer calls.  Within the modelled parts: formatting and debug
output; in `MachineCode`, the operand values and immediates of instructions
other than registers; in `BackEnd`, dead code elimination before the allocation;
the use lists of `User` and `Value`, which the models read off
the operands (planned below); the interning of types; `PatternMatch.hpp`, which
no pass the driver runs uses.

## Plan

In this order; each entry is a module with its runs, then its theorems.

1. `UseLists` - operand and use lists under every editing operation of `User`
   and `Value`.
2. `MIDCE` on the code of `InstructionSelector`, between the peephole optimisation
   and the allocation of `BackEnd`.

Theorems planned: soundness of the interference graph
built from the live sets; non-overlap of frame slots for every sequence of
insertions; agreement of operand and use lists.
