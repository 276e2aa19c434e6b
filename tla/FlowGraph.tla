----------------------------- MODULE FlowGraph -----------------------------
(***************************************************************************)
(* The basic blocks of a module and the edges between them, as every pass  *)
(* over the intermediate representation sees them: Module::functions,      *)
(* Function::basic_blocks_, BasicBlock::succ_bbs_ and pre_bbs_.  Blocks    *)
(* are numbered in the order of their creation.                            *)
(*                                                                         *)
(* The second half defines reachability, dominance and natural loops from  *)
(* paths alone; the analyses are measured against these definitions.       *)
(***************************************************************************)
EXTENDS Integers, Sequences, FiniteSets, SequencesExt

VARIABLES
    functions,  \* the block list of each function, its entry block first
    succ,       \* succ_bbs_ of every block created so far
    pred        \* pre_bbs_, in the order the branches were created

graphVars == <<functions, succ, pred>>

NoBlock == 0
Blocks == 1 .. Len(succ)
BlocksOf(f) == Range(functions[f])
Entry(f) == functions[f][1]

FlowGraphTypeOK ==
    /\ succ \in Seq(Seq(Blocks)) /\ pred \in Seq(Seq(Blocks))
    /\ Len(pred) = Len(succ)
    /\ functions \in Seq(Seq(Blocks) \ {<<>>})

NoEdges(k) == [i \in 1 .. k |-> <<>>]

\* k new blocks, and a branch at the end of block `from` to the targets,
\* which differ from each other (BranchInst::BranchInst).
BranchTo(k, from, targets) ==
    /\ succ' = [succ \o NoEdges(k) EXCEPT ![from] = @ \o targets]
    /\ pred' = [b \in 1 .. (Len(pred) + k) |->
                   LET old == (pred \o NoEdges(k))[b]
                   IN  IF b \in Range(targets) THEN Append(old, from) ELSE old]

\* basic_blocks_.remove, remove_succ_basic_block, remove_pre_basic_block: the
\* list without these elements.
Without(s, gone) ==
    LET kept[n \in 0 .. Len(s)] ==
            IF n = 0 THEN <<>>
            ELSE IF s[n] \in gone THEN kept[n - 1] ELSE Append(kept[n - 1], s[n])
    IN  kept[Len(s)]

\* Mutant of RemoveBlocks: the blocks that are left keep their predecessors.
RemoveOneWay(f, gone) ==
    /\ functions' = [functions EXCEPT ![f] = Without(@, gone)]
    /\ succ' = [b \in Blocks |-> Without(succ[b], gone)]
    /\ UNCHANGED pred

\* Function::remove for a set of blocks.
RemoveBlocks(f, gone) ==
    /\ functions' = [functions EXCEPT ![f] = Without(@, gone)]
    /\ succ' = [b \in Blocks |-> Without(succ[b], gone)]
    /\ pred' = [b \in Blocks |-> Without(pred[b], gone)]

-----------------------------------------------------------------------------
\* What follows defines, it translates no code.

\* Where an edge leads from these blocks, but for block d.
Onwards(from, d) == UNION {Range(succ[x]) \ {d} : x \in from}

\* The blocks on paths from b that do not touch block d.
ReachedWithout(b, d) ==
    LET known[n \in 0 .. Len(succ)] ==
            IF n = 0 THEN {b} \ {d}
            ELSE LET last == known[n - 1] IN last \cup Onwards(last, d)
    IN  known[Len(succ)]

Reached(f) == ReachedWithout(Entry(f), NoBlock)

\* The pairs of blocks <<d, b>> such that every path from the entry to b goes
\* through d.
Dominance(f) ==
    UNION {{d} \X (Reached(f) \ ReachedWithout(Entry(f), d)) : d \in Reached(f)}

\* In what follows dom is Dominance(f).
StrictDominators(dom, b) == {p[1] : p \in {q \in dom : q[2] = b /\ q[1] # b}}

\* The strict dominator all others dominate.
IsImmediateDominator(dom, d, b) ==
    /\ d \in StrictDominators(dom, b)
    /\ \A e \in StrictDominators(dom, b) : <<e, d>> \in dom

DominanceFrontier(dom, d) ==
    {b \in UNION {Range(succ[p[2]]) : p \in {q \in dom : q[1] = d}} :
        d \notin StrictDominators(dom, b)}

BackEdgeNodes(dom, h) == {p \in Range(pred[h]) : <<h, p>> \in dom}

LoopHeaders(dom) == {h \in Blocks : BackEdgeNodes(dom, h) # {}}

\* The pairs <<h, b>> of a loop header and a block from which control can come
\* back to h without passing it before.
NaturalLoops(f, dom) ==
    UNION {{h} \X ({h} \cup {b \in Reached(f) :
                        ReachedWithout(b, h) \cap BackEdgeNodes(dom, h) # {}}) :
           h \in LoopHeaders(dom)}
=============================================================================
