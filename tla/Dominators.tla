----------------------------- MODULE Dominators -----------------------------
(***************************************************************************)
(* Dominators::run_on_func, called for one function of the module after    *)
(* the other on one instance of the pass, whose maps and whose vector of   *)
(* blocks in post order are kept from function to function.                *)
(*                                                                         *)
(* `stage` says which of the routines of run_on_func is at work.  Looking  *)
(* up a block that is missing from a map (std::map::at, also of a null     *)
(* pointer) throws std::out_of_range, which nothing catches: `thrown`.     *)
(***************************************************************************)
EXTENDS FlowGraph

VARIABLES
    current,     \* the function being analysed
    stage,       \* "idle", "dfs", "idom", "frontier", "tree" or "done"
    postOrder,   \* post_order_vec_; a block's place in it is its number
    idom,        \* idom_, NoBlock where it holds a null pointer
    frontier,    \* dom_frontier_
    treeSucc,    \* dom_tree_succ_blocks_
    domL, domR,  \* dom_tree_L_, dom_tree_R_; 0 where there is no entry
    dfsOrder,    \* dom_dfs_order_
    visits,      \* the blocks whose dfs has not returned, innermost last
    visited,     \* the set of that name; in the tree, the blocks entered
    at,          \* where the loop over postOrder or over the blocks stands
    changed,     \* the flag of create_idom
    thrown       \* std::out_of_range

domMaps == <<postOrder, idom, frontier, treeSucc, domL, domR, dfsOrder>>
domLocals == <<visits, visited, at, changed>>
dvars == <<current, stage, domMaps, domLocals, thrown>>

DominatorsTypeOK ==
    /\ stage \in {"idle", "dfs", "idom", "frontier", "tree", "done"}
    /\ idom \in [Blocks -> Blocks \cup {NoBlock}]
    /\ frontier \in [Blocks -> SUBSET Blocks]
    /\ treeSucc \in [Blocks -> SUBSET Blocks]
    /\ Range(postOrder) \subseteq Blocks

\* A new instance of the pass, on the blocks there are.
NewDominators ==
    /\ current' = 0 /\ stage' = "done"
    /\ postOrder' = <<>> /\ dfsOrder' = <<>>
    /\ idom' = [b \in Blocks |-> NoBlock]
    /\ frontier' = [b \in Blocks |-> {}] /\ treeSucc' = [b \in Blocks |-> {}]
    /\ domL' = [b \in Blocks |-> 0] /\ domR' = [b \in Blocks |-> 0]
    /\ visits' = <<>> /\ visited' = {} /\ at' = 0 /\ changed' = FALSE
    /\ thrown' = FALSE

Numbered == Range(postOrder)
Number(b) == CHOOSE i \in DOMAIN postOrder : postOrder[i] = b

-----------------------------------------------------------------------------
\* run_on_func clears dfsOrder and nothing else.
RunOnFunc(f) ==
    /\ stage = "done" /\ ~thrown
    /\ current' = f /\ stage' = "dfs"
    /\ dfsOrder' = <<>>
    /\ visits' = <<Entry(f)>> /\ visited' = {Entry(f)}
    /\ UNCHANGED <<postOrder, idom, frontier, treeSucc, domL, domR, at, changed, thrown>>

\* The first successor not visited yet, in the order of the list.
Unvisited(b) == Without(succ[b], visited)

DfsEnter ==
    /\ stage = "dfs" /\ visits # <<>>
    /\ Unvisited(Last(visits)) # <<>>
    /\ LET next == Head(Unvisited(Last(visits))) IN
        /\ visits' = Append(visits, next)
        /\ visited' = visited \cup {next}
    /\ UNCHANGED <<current, stage, domMaps, at, changed, thrown>>

DfsReturn ==
    /\ stage = "dfs" /\ visits # <<>>
    /\ Unvisited(Last(visits)) = <<>>
    /\ postOrder' = Append(postOrder, Last(visits))
    /\ visits' = Front(visits)
    /\ UNCHANGED <<current, stage, idom, frontier, treeSucc, domL, domR, dfsOrder,
                   visited, at, changed, thrown>>

StartIdom ==
    /\ stage = "dfs" /\ visits = <<>>
    /\ stage' = "idom"
    /\ idom' = [idom EXCEPT ![Entry(current)] = Entry(current)]
    /\ changed' = FALSE /\ at' = Len(postOrder)
    /\ UNCHANGED <<current, postOrder, frontier, treeSucc, domL, domR, dfsOrder,
                   visits, visited, thrown>>

\* intersect, one step: the block with the smaller number climbs.
Climb(x, y) ==
    CASE x = y -> <<x, y>>
      [] x # y /\ {x, y} \subseteq Numbered ->
            IF Number(x) < Number(y) THEN <<idom[x], y>> ELSE <<x, idom[y]>>
      [] OTHER -> <<NoBlock, NoBlock>>

\* Both climb until they meet, past no number twice.  NoBlock stands for the
\* exception of a block without a number.
Intersect(b1, b2) ==
    LET pair[n \in 0 .. 2 * Len(postOrder)] ==
            IF n = 0 THEN <<b1, b2>>
            ELSE LET last == pair[n - 1] IN Climb(last[1], last[2])
    IN  pair[2 * Len(postOrder)][1]

\* Mutant of NewIdom: predecessors that have no dominator yet are not skipped.
NewIdomAny(b) ==
    LET first == Head(pred[b])
        met(sofar, p) == IF p = first THEN sofar ELSE Intersect(p, sofar)
    IN  FoldLeft(met, first, pred[b])

\* The first predecessor, met with each other one that has a dominator.
NewIdom(b) ==
    LET first == pred[b][1]
        met[n \in 0 .. Len(pred[b])] ==
            IF n = 0 THEN first
            ELSE LET p == pred[b][n]
                     sofar == met[n - 1]
                 IN  IF p = first \/ idom[p] = NoBlock THEN sofar ELSE Intersect(p, sofar)
    IN  met[Len(pred[b])]

\* One block of the sweep over postOrder, which goes backwards and also
\* passes the blocks of the functions analysed before.
IdomOfBlock ==
    /\ stage = "idom" /\ at > 0 /\ ~thrown
    /\ LET b == postOrder[at] IN
        IF b = Entry(current) \/ pred[b] = <<>>
        THEN UNCHANGED <<idom, changed, thrown>>
        ELSE /\ thrown' = (NewIdom(b) = NoBlock)
             /\ idom' = [idom EXCEPT ![b] = NewIdom(b)]
             /\ changed' = (changed \/ NewIdom(b) # idom[b])
    /\ at' = at - 1
    /\ UNCHANGED <<current, stage, postOrder, frontier, treeSucc, domL, domR,
                   dfsOrder, visits, visited>>

SweepAgain ==
    /\ stage = "idom" /\ at = 0 /\ changed /\ ~thrown
    /\ changed' = FALSE /\ at' = Len(postOrder)
    /\ UNCHANGED <<current, stage, domMaps, visits, visited, thrown>>

StartFrontier ==
    /\ stage = "idom" /\ at = 0 /\ ~changed /\ ~thrown
    /\ stage' = "frontier" /\ at' = 1
    /\ UNCHANGED <<current, domMaps, visits, visited, changed, thrown>>

\* Mutant of Runners: the runner does not climb.
RunnersOnce(p, stop) == {p} \ {stop}

\* The blocks the runner passes from p up to, but not including, stop.  A
\* null pointer among them is looked up in idom_.
Runners(p, stop) ==
    LET up[n \in 0 .. Len(postOrder)] ==
            IF n = 0 THEN {p} \ {stop}
            ELSE LET known == up[n - 1]
                 IN  known \cup ({idom[x] : x \in known \ {NoBlock}} \ {stop})
    IN  up[Len(postOrder)]

FrontierOfBlock ==
    /\ stage = "frontier" /\ at <= Len(functions[current]) /\ ~thrown
    /\ LET b == functions[current][at]
           runners == IF Len(pred[b]) < 2 THEN {}
                      ELSE UNION {Runners(p, idom[b]) : p \in Range(pred[b])}
       IN  /\ thrown' = (NoBlock \in runners)
           /\ frontier' = [x \in Blocks |-> IF x \in runners THEN frontier[x] \cup {b}
                                                             ELSE frontier[x]]
    /\ at' = at + 1
    /\ UNCHANGED <<current, stage, postOrder, idom, treeSucc, domL, domR, dfsOrder,
                   visits, visited, changed>>

\* create_dom_tree_succ, and the first call of the dfs over the tree.
CreateTree ==
    /\ stage = "frontier" /\ at > Len(functions[current]) /\ ~thrown
    /\ stage' = "tree"
    /\ treeSucc' = [d \in Blocks |-> treeSucc[d] \cup
                       {b \in BlocksOf(current) : idom[b] = d /\ d # b}]
    /\ visits' = <<Entry(current)>> /\ visited' = {Entry(current)}
    /\ dfsOrder' = Append(dfsOrder, Entry(current))
    /\ domL' = [domL EXCEPT ![Entry(current)] = 1]
    /\ UNCHANGED <<current, postOrder, idom, frontier, domR, at, changed, thrown>>

\* The children are a set of pointers: any order.
TreeEnter ==
    /\ stage = "tree" /\ visits # <<>>
    /\ \E b \in treeSucc[Last(visits)] \ visited :
        /\ visits' = Append(visits, b)
        /\ visited' = visited \cup {b}
        /\ dfsOrder' = Append(dfsOrder, b)
        /\ domL' = [domL EXCEPT ![b] = Len(dfsOrder) + 1]
    /\ UNCHANGED <<current, stage, postOrder, idom, frontier, treeSucc, domR, at,
                   changed, thrown>>

TreeReturn ==
    /\ stage = "tree" /\ visits # <<>>
    /\ treeSucc[Last(visits)] \subseteq visited
    /\ domR' = [domR EXCEPT ![Last(visits)] = Len(dfsOrder)]
    /\ visits' = Front(visits)
    /\ UNCHANGED <<current, stage, postOrder, idom, frontier, treeSucc, domL, dfsOrder,
                   visited, at, changed, thrown>>

FinishFunc ==
    /\ stage = "tree" /\ visits = <<>>
    /\ stage' = "done"
    /\ UNCHANGED <<current, domMaps, domLocals, thrown>>

DominatorsStep ==
    \/ DfsEnter \/ DfsReturn
    \/ StartIdom \/ IdomOfBlock \/ SweepAgain
    \/ StartFrontier \/ FrontierOfBlock
    \/ CreateTree \/ TreeEnter \/ TreeReturn

\* is_dominate, by the intervals of the tree.
IsDominate(b1, b2) == domL[b1] <= domL[b2] /\ domR[b1] >= domL[b2]
=============================================================================
