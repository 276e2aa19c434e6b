------------------------- MODULE LivenessAnalysis -------------------------
(***************************************************************************)
(* LivenessAnalysis::run_on_func: backward liveness over the basic blocks  *)
(* of one machine function with a FIFO worklist that starts with the       *)
(* epilogue block alone.  One step is one iteration of the loop.           *)
(*                                                                         *)
(* Unlike the usual formulation the worklist does not start with every     *)
(* block, and a block is queued only when the live-in set of a successor   *)
(* changes.  That the result is still a solution rests on two facts about  *)
(* the functions InstructionSelector builds, stated in FuncAssumption: the *)
(* epilogue is reachable from every block, and the frame pointer, read by  *)
(* the epilogue, is written by no block but the prologue.                  *)
(***************************************************************************)
EXTENDS MachineCode

CONSTANTS
    Block,        \* the basic blocks of a function
    Prologue,     \* func->get_prologue_block()
    Epilogue,     \* func->get_epilogue_block()
    Func          \* the functions analysed: records of code and succ

Pre(f, b) == {p \in Block : b \in f.succ[p]}

\* Every block has a path to the epilogue: a set that holds the epilogue and
\* with a block all its predecessors holds every block.
ReachesEpilogue(f) ==
    \A Z \in SUBSET Block :
        (Epilogue \in Z /\ \A b \in Z : Pre(f, b) \subseteq Z) => Z = Block

FuncAssumption ==
    \A f \in Func :
        /\ f.code \in [Block -> Seq(Instr)]
        /\ f.succ \in [Block -> SUBSET Block]
        /\ f.succ[Epilogue] = {}
        /\ Pre(f, Prologue) = {}
        /\ ReachesEpilogue(f)
        /\ FP \in BlockUse(f.code[Epilogue])
        /\ \A b \in Block \ {Prologue, Epilogue} : FP \notin BlockDef(f.code[b])

ASSUME LivenessAssumption ==
    /\ IsFiniteSet(Block)
    /\ Prologue \in Block /\ Epilogue \in Block
    /\ FuncAssumption

VARIABLES
    func,         \* the function being analysed
    use, def,     \* what each block reads before writing, and the converse
    worklist,     \* the queue; in_worklist is the set of its elements
    live_in,
    live_out

vars == <<func, use, def, worklist, live_in, live_out>>

\* The order in which a set of blocks is appended to the queue is that of the
\* predecessor list, which may be any.
Orders(S) == Bijection(1 .. Cardinality(S), S)

LiveOutOf(in, b) == UNION {in[s] : s \in func.succ[b]}

\* Mutant of LiveInOf: what the block writes stays live before it.
LiveInOfNoKill(out, b) == use[b] \cup out

LiveInOf(out, b) == use[b] \cup (out \ def[b])

\* Mutant of Init: the sets start full, as for an analysis that meets by
\* intersection.
InitAllLive ==
    /\ func \in Func
    /\ use = [b \in Block |-> BlockUse(func.code[b])]
    /\ def = [b \in Block |-> BlockDef(func.code[b])]
    /\ worklist = <<Epilogue>>
    /\ live_in = [b \in Block |-> Reg]
    /\ live_out = [b \in Block |-> Reg]

Init ==
    /\ func \in Func
    /\ use = [b \in Block |-> BlockUse(func.code[b])]
    /\ def = [b \in Block |-> BlockDef(func.code[b])]
    /\ worklist = <<Epilogue>>
    /\ live_in = [b \in Block |-> {}]
    /\ live_out = [b \in Block |-> {}]

\* Mutants of Requeue: the block visited still counts as queued; only one
\* predecessor is queued; the predecessors are queued although nothing changed.
RequeueOthers(b, new_in, rest) ==
    IF new_in = live_in[b]
       THEN worklist' = rest
       ELSE \E order \in Orders(Pre(func, b) \ (Range(rest) \cup {b})) :
               worklist' = rest \o order
RequeueOne(b, new_in, rest) ==
    LET fresh == Pre(func, b) \ Range(rest)
    IN  IF new_in = live_in[b] \/ fresh = {}
           THEN worklist' = rest
           ELSE \E p \in fresh : worklist' = Append(rest, p)
RequeueAlways(b, new_in, rest) ==
    \E order \in Orders(Pre(func, b) \ Range(rest)) : worklist' = rest \o order

\* If the live-in set of b changed, those of its predecessors that are not
\* queued are appended to the rest of the queue, from which b has been taken.
Requeue(b, new_in, rest) ==
    IF new_in = live_in[b]
       THEN worklist' = rest
       ELSE \E order \in Orders(Pre(func, b) \ Range(rest)) : worklist' = rest \o order

Visit ==
    /\ worklist # <<>>
    /\ LET b      == Head(worklist)
           out    == LiveOutOf(live_in, b)
           new_in == LiveInOf(out, b)
       IN  /\ live_out' = [live_out EXCEPT ![b] = out]
           /\ live_in' = [live_in EXCEPT ![b] = new_in]
           /\ Requeue(b, new_in, Tail(worklist))
    /\ UNCHANGED <<func, use, def>>

Next == Visit

Spec == Init /\ [][Next]_vars /\ WF_vars(Next)

Done == worklist = <<>>
-----------------------------------------------------------------------------
(***************************************************************************)
(* Correctness.                                                            *)
(***************************************************************************)

\* The types of the variables (func is a member of Func that never changes).
TypeOK ==
    /\ use \in [Block -> SUBSET Reg]
    /\ def \in [Block -> SUBSET Reg]
    /\ worklist \in Seq(Block)
    /\ live_in \in [Block -> SUBSET Reg]
    /\ live_out \in [Block -> SUBSET Reg]

\* When the loop ends, the two data-flow equations hold in EVERY block, also
\* in those the worklist was not started with; what build_graph and MIDCE
\* read (get_live_out) is then the union over the successors.
DataflowSolution ==
    Done =>
        \A b \in Block :
            /\ live_out[b] = LiveOutOf(live_in, b)
            /\ live_in[b] = LiveInOf(live_out[b], b)

\* r is live at the start of b: a path leads from b to a block that reads r
\* before writing it, and no block before that one on the path writes r.  The
\* blocks for which that is so form the least set with the two clauses below.
ReadsAhead(r, Z) ==
    \A b \in Block :
        r \in use[b] \/ (r \notin def[b] /\ func.succ[b] \cap Z # {}) => b \in Z

LiveAt(r, b) == \A Z \in SUBSET Block : ReadsAhead(r, Z) => b \in Z

\* At no time does a live-in set hold a register no later block reads: dead
\* registers would only cost colours and keep dead instructions alive.
NeverTooLive == \A b \in Block : \A r \in live_in[b] : LiveAt(r, b)

\* At the end no register that some path still reads is missing: a missing
\* one lets MIDCE delete its definition and the allocator reuse its register.
NothingMissed ==
    Done => \A b \in Block : \A r \in Reg : LiveAt(r, b) => r \in live_in[b]

\* A recomputed live-in set never loses a register although it is rebuilt
\* from scratch: this is why the worklist runs empty.
LiveInGrows == \A b \in Block : live_in[b] \subseteq live_in'[b]

Monotone == [][LiveInGrows]_vars

\* The loop ends.
Termination == <>Done
=============================================================================
