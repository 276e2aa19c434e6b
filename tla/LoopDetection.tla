--------------------------- MODULE LoopDetection ---------------------------
(***************************************************************************)
(* LoopDetection::run_on_func after Dominators::run_on_func, function by   *)
(* function.  A Loop object is named by its header.                        *)
(***************************************************************************)
EXTENDS Dominators

VARIABLES
    loops,       \* loops_
    loopBlocks,  \* Loop::blocks_ of each header
    subLoops,    \* Loop::sub_loops_
    loopParent,  \* Loop::parent_, NoBlock for none
    bbToLoop,    \* bb_to_loop_, NoBlock where there is no entry
    toVisit,     \* the part of dom_post_order_ still to be visited
    header,      \* the loop being discovered
    workList     \* work_list of discover_loop_and_sub_loops

loopMaps == <<loops, loopBlocks, subLoops, loopParent, bbToLoop>>
lvars == <<loopMaps, toVisit, header, workList>>

LoopsTypeOK ==
    /\ loops \in Seq(Blocks)
    /\ loopBlocks \in [Blocks -> SUBSET Blocks]
    /\ subLoops \in [Blocks -> SUBSET Blocks]
    /\ loopParent \in [Blocks -> Blocks \cup {NoBlock}]
    /\ bbToLoop \in [Blocks -> Blocks \cup {NoBlock}]
    /\ workList \in Seq(Blocks)

NewLoopDetection ==
    /\ loops' = <<>>
    /\ loopBlocks' = [b \in Blocks |-> {}] /\ subLoops' = [b \in Blocks |-> {}]
    /\ loopParent' = [b \in Blocks |-> NoBlock]
    /\ bbToLoop' = [b \in Blocks |-> NoBlock]
    /\ toVisit' = <<>> /\ header' = NoBlock /\ workList' = <<>>

\* The outermost loop around loop h found so far; no chain of parents is
\* longer than the list of loops.
RootLoop(h) ==
    LET up[n \in 0 .. Len(loops)] ==
            IF n = 0 THEN h
            ELSE LET last == up[n - 1]
                 IN  IF loopParent[last] = NoBlock THEN last ELSE loopParent[last]
    IN  up[Len(loops)]

-----------------------------------------------------------------------------
\* Mutant of VisitOrder: outer headers first.
VisitForward == dfsOrder

\* When the dominators of the function are there, its blocks are visited in
\* the reverse order of the dfs over the tree: inner headers first.
VisitOrder == Reverse(dfsOrder)

StartLoops ==
    /\ FinishFunc
    /\ toVisit' = VisitOrder
    /\ UNCHANGED <<loopMaps, header, workList>>

BackEdges(b) == {p \in Range(pred[b]) : IsDominate(b, p)}

SkipBlock ==
    /\ toVisit # <<>> /\ workList = <<>>
    /\ BackEdges(Head(toVisit)) = {}
    /\ toVisit' = Tail(toVisit)
    /\ UNCHANGED <<loopMaps, header, workList>>

\* A new loop; its work list starts with the back edge nodes, in any order.
CreateLoop ==
    /\ toVisit # <<>> /\ workList = <<>>
    /\ LET h == Head(toVisit) IN
        /\ BackEdges(h) # {}
        /\ \E order \in SetToSeqs(BackEdges(h)) : workList' = order
        /\ header' = h
        /\ loops' = Append(loops, h)
        /\ loopBlocks' = [loopBlocks EXCEPT ![h] = {h}]
        /\ bbToLoop' = [bbToLoop EXCEPT ![h] = h]
    /\ toVisit' = Tail(toVisit)
    /\ UNCHANGED <<subLoops, loopParent>>

AddBlock(b) ==
    /\ bbToLoop[b] = NoBlock
    /\ loopBlocks' = [loopBlocks EXCEPT ![header] = @ \cup {b}]
    /\ bbToLoop' = [bbToLoop EXCEPT ![b] = header]
    /\ workList' = Front(workList) \o pred[b]
    /\ UNCHANGED <<subLoops, loopParent>>

\* The block is in a loop found before: its outermost loop goes into this one
\* and the walk goes on from that loop's header.
AddSubLoop(b) ==
    LET sub == RootLoop(bbToLoop[b]) IN
    /\ bbToLoop[b] \notin {NoBlock, header}
    /\ sub # header
    /\ loopParent' = [loopParent EXCEPT ![sub] = header]
    /\ subLoops' = [subLoops EXCEPT ![header] = @ \cup {sub}]
    /\ workList' = Front(workList) \o pred[sub]
    /\ UNCHANGED <<loopBlocks, bbToLoop>>

KnownBlock(b) ==
    /\ bbToLoop[b] # NoBlock
    /\ bbToLoop[b] = header \/ RootLoop(bbToLoop[b]) = header
    /\ workList' = Front(workList)
    /\ UNCHANGED <<loopBlocks, subLoops, loopParent, bbToLoop>>

Discover ==
    /\ workList # <<>>
    /\ AddBlock(Last(workList)) \/ AddSubLoop(Last(workList)) \/ KnownBlock(Last(workList))
    /\ UNCHANGED <<loops, toVisit, header>>

LoopStep == stage = "done" /\ (SkipBlock \/ CreateLoop \/ Discover)

FuncDone == stage = "done" /\ toVisit = <<>> /\ workList = <<>>
=============================================================================
