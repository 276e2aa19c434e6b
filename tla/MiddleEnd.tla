----------------------------- MODULE MiddleEnd -----------------------------
(***************************************************************************)
(* From the statements of a program to its loops, in the order of the      *)
(* driver: CminusfBuilder builds the flow graph of every function,         *)
(* DeadCode erases the blocks nothing jumps to, LoopDetection runs with    *)
(* one instance of Dominators over all functions.  (Mem2Reg, between them, *)
(* moves no block and no edge.)                                            *)
(***************************************************************************)
EXTENDS CminusfBuilder, LoopDetection

VARIABLES
    pass,     \* "build", "clear", "loops"
    cursor,   \* the function a pass stands at
    cleared   \* the flag changed of DeadCode::run

vars == <<bvars, dvars, lvars, pass, cursor, cleared>>

Init ==
    /\ BuilderInit
    /\ current = 0 /\ stage = "idle" /\ postOrder = <<>> /\ dfsOrder = <<>>
    /\ idom = <<>> /\ frontier = <<>> /\ treeSucc = <<>> /\ domL = <<>> /\ domR = <<>>
    /\ visits = <<>> /\ visited = {} /\ at = 0 /\ changed = FALSE /\ thrown = FALSE
    /\ loops = <<>> /\ loopBlocks = <<>> /\ subLoops = <<>> /\ loopParent = <<>>
    /\ bbToLoop = <<>> /\ toVisit = <<>> /\ header = NoBlock /\ workList = <<>>
    /\ pass = "build" /\ cursor = 0 /\ cleared = FALSE

Build ==
    /\ pass = "build"
    /\ BuilderNext
    /\ UNCHANGED <<dvars, lvars, pass, cursor, cleared>>

StartDeadCode ==
    /\ pass = "build" /\ open = <<>> /\ functions # <<>>
    /\ pass' = "clear" /\ cursor' = 1 /\ cleared' = FALSE
    /\ UNCHANGED <<bvars, dvars, lvars>>

\* clear_basic_blocks: the blocks without predecessors are collected first
\* and erased afterwards.
ToErase(f) == {b \in BlocksOf(f) \ {Entry(f)} : pred[b] = <<>>}

ClearBasicBlocks ==
    /\ pass = "clear" /\ cursor <= Len(functions)
    /\ RemoveBlocks(cursor, ToErase(cursor))
    /\ cleared' = (cleared \/ ToErase(cursor) # {})
    /\ cursor' = cursor + 1
    /\ UNCHANGED <<builderVars, dvars, lvars, pass>>

\* Mutant of ClearAgain: the flag is not reset.
ClearAgainStill ==
    /\ pass = "clear" /\ cursor > Len(functions) /\ cleared
    /\ cursor' = 1
    /\ UNCHANGED <<bvars, dvars, lvars, pass, cleared>>

ClearAgain ==
    /\ pass = "clear" /\ cursor > Len(functions) /\ cleared
    /\ cursor' = 1 /\ cleared' = FALSE
    /\ UNCHANGED <<bvars, dvars, lvars, pass>>

StartLoopDetection ==
    /\ pass = "clear" /\ cursor > Len(functions) /\ ~cleared
    /\ pass' = "loops" /\ cursor' = 0
    /\ NewDominators /\ NewLoopDetection
    /\ UNCHANGED <<bvars, cleared>>

NextFunction ==
    /\ pass = "loops" /\ FuncDone /\ cursor < Len(functions)
    /\ cursor' = cursor + 1
    /\ RunOnFunc(cursor + 1)
    /\ UNCHANGED <<bvars, lvars, pass, cleared>>

Analyse ==
    /\ pass = "loops"
    /\ \/ DominatorsStep /\ UNCHANGED lvars
       \/ StartLoops
       \/ LoopStep /\ UNCHANGED dvars
    /\ UNCHANGED <<bvars, pass, cursor, cleared>>

Passes ==
    \/ ClearBasicBlocks \/ ClearAgain
    \/ StartLoopDetection \/ NextFunction \/ Analyse

\* The last function is analysed, or an exception has ended the compiler.
Ended == pass = "loops" /\ (thrown \/ (FuncDone /\ cursor = Len(functions)))

\* Nothing happens any more, or nobody goes on with the program.
Rest == (pass = "build" \/ Ended) /\ UNCHANGED vars

Next == Build \/ StartDeadCode \/ Passes \/ Rest

\* The passes run on; how a program goes on is its author's choice.  Weak
\* fairness of Passes, written without its ENABLED: a step of them is possible
\* whenever Rest is not; the check for deadlocks shows that.
Fairness == []<><<Passes>>_vars \/ []<>(pass = "build" \/ Ended)

Spec == Init /\ [][Next]_vars /\ Fairness

-----------------------------------------------------------------------------
Functions == DOMAIN functions

\* The functions whose loops have been found.
Analysed == IF pass = "loops" /\ FuncDone THEN 1 .. cursor ELSE {}

\* The two edge lists say the same, also about erased blocks: no block that
\* is left names one that is gone (Function::remove).
EdgesAgree ==
    \A f \in Functions : \A a \in BlocksOf(f) :
        /\ \A b \in Range(succ[a]) : b \in BlocksOf(f) /\ a \in Range(pred[b])
        /\ \A b \in Range(pred[a]) : b \in BlocksOf(f) /\ a \in Range(succ[b])

MiddleEndTypeOK ==
    /\ BuilderTypeOK
    /\ pass = "loops" => DominatorsTypeOK /\ LoopsTypeOK
    /\ EdgesAgree

\* When a function is analysed, and however many are analysed after it on the
\* same instance, idom, the dominance frontiers and the intervals of the tree
\* say of its blocks what the paths of its flow graph say (create_idom,
\* create_dominance_frontier, create_dom_dfs_order).
DominatorsExact ==
    \A f \in Analysed :
        LET dom == Dominance(f) IN
        \A b \in Reached(f) :
            /\ b # Entry(f) => IsImmediateDominator(dom, idom[b], b)
            /\ frontier[b] = DominanceFrontier(dom, b)
            /\ \A c \in Reached(f) : IsDominate(c, b) = (<<c, b>> \in dom)

\* The analysis asks for the number of a block that has none, or climbs past
\* a block without dominator, only if a block is reached from one that is
\* not: the first predecessor that create_idom starts from is never one that
\* the sweep comes to later.
ThrowsOnlyForUnreached ==
    thrown => \E b \in Reached(current) : ~(Range(pred[b]) \subseteq Reached(current))

\* The header of the innermost loop around block b: it is inside all others.
Innermost(natural, b) ==
    LET around == {p[1] : p \in {q \in natural : q[2] = b}}
    IN  IF around = {} THEN NoBlock
        ELSE CHOOSE h \in around : \A g \in around : <<g, h>> \in natural

OnCycle(b) == \E c \in Range(succ[b]) : b \in ReachedWithout(c, NoBlock)

\* The loops found are the natural loops of the function, each with its
\* parent, its sub-loops and the blocks that are in no sub-loop of it, and no
\* cycle is overlooked: every one a program can be written with has a header
\* (LoopDetection::run_on_func, discover_loop_and_sub_loops).
LoopNestExact ==
    \A f \in Analysed :
        LET dom == Dominance(f)
            headers == LoopHeaders(dom)
            natural == NaturalLoops(f, dom)
        IN
        /\ Range(loops) \cap BlocksOf(f) = headers
        /\ IsInjective(loops)
        /\ \A b \in Reached(f) :
            /\ bbToLoop[b] = Innermost(natural, b)
            /\ OnCycle(b) = (bbToLoop[b] # NoBlock)
        /\ \A h \in headers :
            /\ loopParent[h] = Innermost({p \in natural : p[1] # h}, h)
            /\ loopBlocks[h] = {b \in Reached(f) : bbToLoop[b] = h}
            /\ subLoops[h] = {g \in headers : loopParent[g] = h}

\* Erasing blocks, the sweeps of create_idom and the work lists of the loops
\* all come to an end.
AnalysisTermination == pass = "clear" ~> thrown \/ Functions \subseteq Analysed

\* create_dominance_frontier computes the frontier of every basic block of f
\* (its comment, Dominators.cpp:90): no program makes the analysis end in an
\* exception.
EveryFunctionAnalysed == ~thrown
=============================================================================
