------------------------- MODULE RegisterAllocation -------------------------
(***************************************************************************)
(* One round of RegisterAllocation::run_on_func: iterated register         *)
(* coalescing of a given interference graph and a given set of copies,     *)
(* from make_worklist to the end of assign_colors.  The round is followed  *)
(* by the colouring of the code, or by a rewrite and another round when    *)
(* spilled_nodes is not empty.                                             *)
(*                                                                         *)
(* The work lists are unordered sets of pointers, and *begin() of one is   *)
(* any of its elements: every step chooses freely.                         *)
(*                                                                         *)
(* Representation.                                                         *)
(*   graph[r] is the set of neighbours of r in edges when r is virtual and *)
(*     empty when r is physical (add_edge keeps both in step): it is the   *)
(*     operator Graph.                                                     *)
(*   alias is kept compressed: get_alias follows chains of aliases and     *)
(*     shortens them, so a step that gives v the alias u gives it to every *)
(*     register whose alias was v.                                         *)
(*   degree is a size_t that decrement_degree may take below zero, where   *)
(*     it wraps to a value no degree check tells from a large one: here it *)
(*     is an integer and a negative value counts as high (HighDegree).     *)
(***************************************************************************)
EXTENDS Registers, Integers, Sequences, FiniteSets, Functions

CONSTANTS
    Move,         \* the MOV instructions of the function
    Type,         \* the type of a register: general, float or float compare
    Allocatable,  \* type -> the physical registers that may be a colour
    NullPtr,      \* the colour of a register that has none
    Input         \* the graphs and copies: records of edges, moves, dst and src

\* type_k of the register's type: how many colours there are for it.
Colors(r) == Allocatable[Type[r]]
K(r) == Cardinality(Colors(r))

ASSUME AllocationAssumption ==
    /\ IsFiniteSet(Virt) /\ IsFiniteSet(Phys)
    /\ NullPtr \notin Reg
    /\ DOMAIN Type = Reg
    /\ Allocatable \in [Range(Type) -> SUBSET Phys]
    /\ \A r \in Reg : Colors(r) # {}
    /\ \A t \in DOMAIN Allocatable : \A p \in Allocatable[t] : Type[p] = t

\* add_edge keeps edges symmetric, joins registers of one type and no register
\* with itself; InstructionChecker::check_other gives both operands of a MOV
\* the same type.
ASSUME InputAssumption ==
    \A g \in Input :
        /\ g.edges \subseteq Reg \X Reg
        /\ \A e \in g.edges :
               <<e[2], e[1]>> \in g.edges /\ e[1] # e[2] /\ Type[e[1]] = Type[e[2]]
        /\ g.dst \in [Move -> Reg] /\ g.src \in [Move -> Reg]
        /\ g.moves \subseteq Move
        /\ \A m \in Move : Type[g.dst[m]] = Type[g.src[m]]

VARIABLES
    pc,                 \* "make", "loop", "assign" or "done"
    edges, degree,
    dst, src,           \* operands 0 and 1 of each move
    move_list,
    worklist_moves, active_moves,
    coalesced_moves, constrained_moves, frozen_moves,
    initial, simplify_worklist, freeze_worklist, spill_worklist,
    select_stack, in_select_stack,
    coalesced_nodes, alias,
    colored_nodes, spilled_nodes, color

graphVars == <<edges, degree, move_list>>
moveVars == <<worklist_moves, active_moves, coalesced_moves, constrained_moves,
              frozen_moves>>
listVars == <<initial, simplify_worklist, freeze_worklist, spill_worklist>>
stackVars == <<select_stack, in_select_stack>>
aliasVars == <<coalesced_nodes, alias>>
colorVars == <<colored_nodes, spilled_nodes, color>>
vars == <<pc, dst, src, graphVars, moveVars, listVars, stackVars, aliasVars, colorVars>>
-----------------------------------------------------------------------------
Neighbours(es, r) == {t \in Reg : <<r, t>> \in es}

Graph(es, r) == IF r \in Virt THEN Neighbours(es, r) ELSE {}

\* The state when make_worklist is entered in the first round: build_graph has
\* been called.
Init ==
    \E g \in Input :
        /\ pc = "make"
        /\ edges = g.edges
        /\ dst = g.dst /\ src = g.src
        /\ degree = [r \in Reg |-> Cardinality(Graph(g.edges, r))]
        /\ move_list = [r \in Reg |-> {m \in g.moves : r \in {g.dst[m], g.src[m]}}]
        /\ worklist_moves = g.moves
        /\ active_moves = {} /\ coalesced_moves = {}
        /\ constrained_moves = {} /\ frozen_moves = {}
        /\ initial = Virt
        /\ simplify_worklist = {} /\ freeze_worklist = {} /\ spill_worklist = {}
        /\ select_stack = <<>> /\ in_select_stack = {}
        /\ coalesced_nodes = {} /\ alias = [r \in Reg |-> r]
        /\ colored_nodes = {} /\ spilled_nodes = {}
        /\ color = [r \in Virt |-> NullPtr]

HighDegree(deg, r) == deg[r] < 0 \/ deg[r] >= K(r)

NodeMoves(r) == move_list[r] \cap (active_moves \cup worklist_moves)

MoveRelated(r) == NodeMoves(r) # {}

\* adjacent: the neighbours that are still in the graph.
Adjacent(r) == Graph(edges, r) \ (coalesced_nodes \cup in_select_stack)

GetAlias(r) == IF r \in coalesced_nodes THEN alias[r] ELSE r

\* Mutant of MakeWorklist: a degree of exactly K is in no list.
MakeWorklistStrict ==
    /\ pc = "make"
    /\ spill_worklist' = {r \in initial : degree[r] > K(r)}
    /\ freeze_worklist' = {r \in initial : degree[r] < K(r) /\ MoveRelated(r)}
    /\ simplify_worklist' = {r \in initial : degree[r] < K(r) /\ ~MoveRelated(r)}
    /\ initial' = {}
    /\ pc' = "loop"
    /\ UNCHANGED <<dst, src, graphVars, moveVars, stackVars, aliasVars, colorVars>>

MakeWorklist ==
    /\ pc = "make"
    /\ spill_worklist' = {r \in initial : HighDegree(degree, r)}
    /\ freeze_worklist' = {r \in initial : ~HighDegree(degree, r) /\ MoveRelated(r)}
    /\ simplify_worklist' = {r \in initial : ~HighDegree(degree, r) /\ ~MoveRelated(r)}
    /\ initial' = {}
    /\ pc' = "loop"
    /\ UNCHANGED <<dst, src, graphVars, moveVars, stackVars, aliasVars, colorVars>>
-----------------------------------------------------------------------------
(***************************************************************************)
(* The loop: simplify, coalesce, freeze and select_spill, in this order of *)
(* preference.                                                             *)
(***************************************************************************)
CanSimplify == pc = "loop" /\ simplify_worklist # {}
CanCoalesce == pc = "loop" /\ simplify_worklist = {} /\ worklist_moves # {}
CanFreeze ==
    pc = "loop" /\ simplify_worklist = {} /\ worklist_moves = {} /\ freeze_worklist # {}
CanSpill ==
    /\ pc = "loop" /\ simplify_worklist = {} /\ worklist_moves = {}
    /\ freeze_worklist = {} /\ spill_worklist # {}

\* decrement_degree acts on the nodes whose degree falls from K to K - 1.  The
\* order in which it is called for the nodes of a set changes nothing: it
\* reads only the degree of its own node and the graph.
Falling(deg, nodes) == {t \in nodes : deg[t] = K(t)}

\* enable_moves of the falling nodes and their neighbours; `pending' is
\* worklist_moves before.
EnableMoves(falling, pending) ==
    LET awake   == falling \cup UNION {Adjacent(t)' : t \in falling}
        enabled == {m \in active_moves : \E r \in awake : m \in move_list'[r]}
    IN  /\ worklist_moves' = pending \cup enabled
        /\ active_moves' = active_moves \ enabled

Simplify ==
    /\ CanSimplify
    /\ \E r \in simplify_worklist :
         LET near    == Adjacent(r)
             falling == Falling(degree, near)
         IN  /\ select_stack' = Append(select_stack, r)
             /\ in_select_stack' = in_select_stack \cup {r}
             /\ degree' = [t \in Reg |-> IF t \in near THEN degree[t] - 1 ELSE degree[t]]
             /\ UNCHANGED <<edges, move_list, aliasVars>>
             /\ EnableMoves(falling, worklist_moves)
             /\ spill_worklist' = spill_worklist \ falling
             /\ freeze_worklist' = freeze_worklist \cup {t \in falling : MoveRelated(t)'}
             /\ simplify_worklist' = (simplify_worklist \ {r})
                                         \cup {t \in falling : ~MoveRelated(t)'}
    /\ UNCHANGED <<pc, dst, src, initial, coalesced_moves, constrained_moves, frozen_moves,
                   colorVars>>

\* coalesce: u is the end that stays, the physical one if there is one.
Ends(m) ==
    LET x == GetAlias(dst[m])
        y == GetAlias(src[m])
    IN  IF y \in Phys THEN [u |-> y, v |-> x] ELSE [u |-> x, v |-> y]

\* Mutant of Constrained: interference is not looked at.
ConstrainedByType(u, v) == v \in Phys

Constrained(u, v) == v \in Phys \/ <<u, v>> \in edges

\* check_colored_adj: George's test.
CheckColoredAdj(u, v) ==
    {t \in Adjacent(v) \ Phys : HighDegree(degree, t) /\ <<t, u>> \notin edges} = {}

\* conservative: Briggs' test, with the degrees that are stored: that of a
\* physical register counts no neighbour.
Conservative(u, v) ==
    Cardinality({t \in Adjacent(u) \cup Adjacent(v) : HighDegree(degree, t)}) < K(u)

CanCombine(u, v) == IF u \in Phys THEN CheckColoredAdj(u, v) ELSE Conservative(u, v)

\* add_worklist: those of the nodes that may be simplified now.
Ready(nodes) ==
    {r \in nodes \cap Virt : ~MoveRelated(r)' /\ ~HighDegree(degree', r)}

AddWorklist(nodes) ==
    /\ freeze_worklist' = freeze_worklist \ Ready(nodes)
    /\ simplify_worklist' = simplify_worklist \cup Ready(nodes)

\* The branches of coalesce that leave the graph as it is.
NoMerge ==
    UNCHANGED <<pc, dst, src, graphVars, frozen_moves, initial, spill_worklist,
                stackVars, aliasVars, colorVars>>

MoveSame(m) ==
    /\ Ends(m).u = Ends(m).v
    /\ worklist_moves' = worklist_moves \ {m}
    /\ coalesced_moves' = coalesced_moves \cup {m}
    /\ NoMerge /\ UNCHANGED <<active_moves, constrained_moves>>
    /\ AddWorklist({Ends(m).u})

CoalesceSame == CanCoalesce /\ \E m \in worklist_moves : MoveSame(m)

MoveConstrained(m) ==
    LET u == Ends(m).u
        v == Ends(m).v
    IN  /\ u # v /\ Constrained(u, v)
        /\ worklist_moves' = worklist_moves \ {m}
        /\ constrained_moves' = constrained_moves \cup {m}
        /\ NoMerge /\ UNCHANGED <<active_moves, coalesced_moves>>
        /\ AddWorklist({u, v})

CoalesceConstrained == CanCoalesce /\ \E m \in worklist_moves : MoveConstrained(m)

\* Mutant of CoalesceDefer: the move stays in worklist_moves.
CoalesceRetry ==
    /\ CanCoalesce
    /\ \E m \in worklist_moves :
         LET u == Ends(m).u
             v == Ends(m).v
         IN  /\ u # v /\ ~Constrained(u, v) /\ ~CanCombine(u, v)
             /\ active_moves' = active_moves \cup {m}
             /\ NoMerge /\ UNCHANGED <<worklist_moves, coalesced_moves, constrained_moves,
                                       freeze_worklist, simplify_worklist>>

MoveDefer(m) ==
    LET u == Ends(m).u
        v == Ends(m).v
    IN  /\ u # v /\ ~Constrained(u, v) /\ ~CanCombine(u, v)
        /\ worklist_moves' = worklist_moves \ {m}
        /\ active_moves' = active_moves \cup {m}
        /\ NoMerge /\ UNCHANGED <<coalesced_moves, constrained_moves,
                                  freeze_worklist, simplify_worklist>>

CoalesceDefer == CanCoalesce /\ \E m \in worklist_moves : MoveDefer(m)

\* Mutant of NewNeighbours: add_edge counts an edge that is there already.
AllNeighbours(u, near) == near

\* The neighbours for which add_edge(t, u) makes a new edge.
NewNeighbours(u, near) == {t \in near : <<t, u>> \notin edges}

\* Mutant of Redirect: get_alias follows a single link.
RedirectOne(u, v) == [alias EXCEPT ![v] = u]

\* alias[v] = u, seen through get_alias.
Redirect(u, v) == [r \in Reg |-> IF alias[r] = v THEN u ELSE alias[r]]

\* combine(u, v): u takes over the moves of v and those neighbours of v that
\* are still in the graph; each of these gains the edge to u, if it is new,
\* and then loses one degree for v.
Combine(m, u, v) ==
    LET near    == Adjacent(v)
        fresh   == NewNeighbours(u, near)
        grown   == [r \in Reg |->
                      IF r \in Phys THEN degree[r]
                      ELSE IF r = u THEN degree[r] + Cardinality(fresh)
                      ELSE IF r \in fresh THEN degree[r] + 1 ELSE degree[r]]
        falling == Falling(grown, near)
    IN  /\ coalesced_nodes' = coalesced_nodes \cup {v}
        /\ alias' = Redirect(u, v)
        /\ move_list' = [move_list EXCEPT ![u] = @ \cup move_list[v]]
        /\ edges' = edges \cup (fresh \X {u}) \cup ({u} \X fresh)
        /\ degree' = [r \in Reg |-> IF r \in near THEN grown[r] - 1 ELSE grown[r]]
        /\ UNCHANGED <<in_select_stack, select_stack>>
        /\ EnableMoves(falling, worklist_moves \ {m})
        /\ LET frozen == (freeze_worklist \ {v}) \cup {t \in falling : MoveRelated(t)'}
               full   == {u} \cap {r \in frozen : HighDegree(degree', r)}
           IN  /\ spill_worklist' =
                     ((IF v \in freeze_worklist THEN spill_worklist ELSE spill_worklist \ {v})
                         \ falling) \cup full
               /\ freeze_worklist' = (frozen \ full) \ Ready({u})
               /\ simplify_worklist' =
                     simplify_worklist \cup {t \in falling : ~MoveRelated(t)'} \cup Ready({u})

MoveCombine(m) ==
    LET u == Ends(m).u
        v == Ends(m).v
    IN  /\ u # v /\ ~Constrained(u, v) /\ CanCombine(u, v)
        /\ coalesced_moves' = coalesced_moves \cup {m}
        /\ Combine(m, u, v)
        /\ UNCHANGED <<pc, dst, src, initial, constrained_moves, frozen_moves, colorVars>>

CoalesceCombine == CanCoalesce /\ \E m \in worklist_moves : MoveCombine(m)

\* freeze_moves(r): the moves of r are given up one after the other.  The other
\* end is operand 1 if operand 0 is r, and operand 0 otherwise: the operand
\* itself, not its alias.  It is handed to simplify_worklist when the move just
\* given up was its last one, which may depend on the order.  `waiting' is
\* freeze_worklist before.
FreezeMovesInOrder(r, waiting, order) ==
    LET given     == NodeMoves(r)
        other(m)  == IF dst[m] = r THEN src[m] ELSE dst[m]
    IN  /\ active_moves' = active_moves \ given
        /\ worklist_moves' = worklist_moves \ (given \ active_moves)
        /\ frozen_moves' = frozen_moves \cup given
        /\ LET last(m) == \A k \in given \cap move_list[other(m)] : order[k] <= order[m]
               freed   == {other(m) : m \in {k \in given :
                              /\ last(k)
                              /\ ~MoveRelated(other(k))'
                              /\ ~HighDegree(degree, other(k))}}
           IN  /\ freeze_worklist' = waiting \ freed
               /\ simplify_worklist' = simplify_worklist \cup {r} \cup freed

FreezeMoves(r, waiting) ==
    \E order \in Bijection(NodeMoves(r), 1 .. Cardinality(NodeMoves(r))) :
        FreezeMovesInOrder(r, waiting, order)

Freeze ==
    /\ CanFreeze
    /\ UNCHANGED <<pc, dst, src, graphVars, coalesced_moves, constrained_moves, initial,
                   spill_worklist, stackVars, aliasVars, colorVars>>
    /\ \E r \in freeze_worklist : FreezeMoves(r, freeze_worklist \ {r})

\* Mutant of SelectSpill: the moves of the candidate are not given up.
SelectSpillOnly ==
    /\ CanSpill
    /\ UNCHANGED <<pc, dst, src, graphVars, moveVars, initial, freeze_worklist,
                   stackVars, aliasVars, colorVars>>
    /\ \E r \in spill_worklist :
         /\ spill_worklist' = spill_worklist \ {r}
         /\ simplify_worklist' = simplify_worklist \cup {r}

\* select_spill: no heuristic, any candidate is as good as another.
SelectSpill ==
    /\ CanSpill
    /\ UNCHANGED <<pc, dst, src, graphVars, coalesced_moves, constrained_moves, initial,
                   stackVars, aliasVars, colorVars>>
    /\ \E r \in spill_worklist :
         /\ spill_worklist' = spill_worklist \ {r}
         /\ FreezeMoves(r, freeze_worklist)

LoopDone ==
    simplify_worklist = {} /\ worklist_moves = {} /\ freeze_worklist = {} /\ spill_worklist = {}

LeaveLoop ==
    /\ pc = "loop" /\ LoopDone
    /\ pc' = "assign"
    /\ color' = [r \in Virt |-> NullPtr]
    /\ UNCHANGED <<dst, src, graphVars, moveVars, listVars, stackVars, aliasVars,
                   colored_nodes, spilled_nodes>>
-----------------------------------------------------------------------------
(***************************************************************************)
(* assign_colors: the stack is emptied, last in first out.                 *)
(***************************************************************************)

\* Mutant of TakenBy: a merged neighbour is not looked up.
TakenByItself(w) ==
    IF w \in Phys THEN {w} ELSE IF w \in colored_nodes THEN {color[w]} ELSE {}

\* The colours a neighbour w takes away from a register.
TakenBy(w) ==
    LET root == GetAlias(w)
    IN  IF root \in Phys THEN {root}
        ELSE IF root \in colored_nodes THEN {color[root]} ELSE {}

OkColors(r) == Colors(r) \ UNION {TakenBy(w) : w \in Graph(edges, r)}

\* A physical register that reached the stack is "coloured" as well; the entry
\* of Register::color this writes is that of no virtual register.
AssignColor ==
    /\ pc = "assign" /\ select_stack # <<>>
    /\ LET r == select_stack[Len(select_stack)]
       IN  /\ select_stack' = SubSeq(select_stack, 1, Len(select_stack) - 1)
           /\ \/ /\ OkColors(r) = {}
                 /\ spilled_nodes' = spilled_nodes \cup {r}
                 /\ UNCHANGED <<colored_nodes, color>>
              \/ \E c \in OkColors(r) :
                    /\ colored_nodes' = colored_nodes \cup {r}
                    /\ color' = [v \in Virt |-> IF v = r THEN c ELSE color[v]]
                    /\ UNCHANGED spilled_nodes
    /\ UNCHANGED <<pc, dst, src, graphVars, moveVars, listVars, in_select_stack, aliasVars>>

\* Mutant of RootColor: the register merged into instead of its colour.
RootColorItself(r) == alias[r]

RootColor(r) == IF alias[r] \in Phys THEN alias[r] ELSE color[alias[r]]

\* A coalesced register gets the colour of the register it was merged into.
FinishAssign ==
    /\ pc = "assign" /\ select_stack = <<>>
    /\ color' = [r \in Virt |->
                    IF r \in coalesced_nodes THEN RootColor(r) ELSE color[r]]
    /\ in_select_stack' = {}
    /\ pc' = "done"
    /\ UNCHANGED <<dst, src, graphVars, moveVars, listVars, select_stack, aliasVars,
                   colored_nodes, spilled_nodes>>

Next ==
    \/ MakeWorklist
    \/ Simplify
    \/ CoalesceSame
    \/ CoalesceConstrained
    \/ CoalesceCombine
    \/ CoalesceDefer
    \/ Freeze
    \/ SelectSpill
    \/ LeaveLoop
    \/ AssignColor
    \/ FinishAssign

Spec == Init /\ [][Next]_vars /\ WF_vars(Next)
-----------------------------------------------------------------------------
(***************************************************************************)
(* Correctness.                                                            *)
(***************************************************************************)

\* The types of the variables.
TypeOK ==
    /\ pc \in {"make", "loop", "assign", "done"}
    /\ edges \subseteq Reg \X Reg
    /\ degree \in [Reg -> Int]
    /\ dst \in [Move -> Reg] /\ src \in [Move -> Reg]
    /\ move_list \in [Reg -> SUBSET Move]
    /\ worklist_moves \subseteq Move /\ active_moves \subseteq Move
    /\ coalesced_moves \subseteq Move /\ constrained_moves \subseteq Move
    /\ frozen_moves \subseteq Move
    /\ initial \subseteq Reg /\ simplify_worklist \subseteq Reg
    /\ freeze_worklist \subseteq Reg /\ spill_worklist \subseteq Reg
    /\ select_stack \in Seq(Reg) /\ in_select_stack \subseteq Reg
    /\ coalesced_nodes \subseteq Reg /\ alias \in [Reg -> Reg]
    /\ colored_nodes \subseteq Reg /\ spilled_nodes \subseteq Reg
    /\ color \in [Virt -> Phys \cup {NullPtr}]

\* No physical register was put on the stack.  freeze_moves does not exclude
\* it: the other end of a move that is given up may be physical.
NoPhysSimplified ==
    (simplify_worklist \cup in_select_stack \cup colored_nodes) \cap Phys = {}

\* The physical register that stands for a register in the code the round
\* leaves behind (Register::color, read by colorize).
Assigned(r) == IF r \in Virt THEN color[r] ELSE r

\* Two registers that are live at once never share a physical register in the
\* code that is emitted: after a round that spills nothing.
NoSharedRegister ==
    pc = "done" /\ spilled_nodes = {} =>
        \A e \in edges : Assigned(e[1]) # NullPtr => Assigned(e[1]) # Assigned(e[2])

\* The allocator guarantees this as long as no physical register has been
\* simplified.
ProperColoring == NoPhysSimplified => NoSharedRegister

\* Interfering registers are never merged, not even by a chain of merges none
\* of which joins interfering ones.
NoInterferenceMerged == \A e \in edges : GetAlias(e[1]) # GetAlias(e[2])

\* At the end of a round no virtual register has been forgotten by the work
\* lists: it has a colour, or it or the register it was merged into is spilled
\* (MachineInstr::colorize asserts this of the last round).
EveryRegisterSettled ==
    pc = "done" => \A r \in Virt : color[r] # NullPtr \/ GetAlias(r) \in spilled_nodes

\* When the loop ends every move has been decided: one that is still active
\* joins two registers merged into physical ones, which nothing can merge.
NoMoveForgotten ==
    pc \in {"assign", "done"} =>
        /\ worklist_moves = {}
        /\ \A m \in active_moves : {GetAlias(dst[m]), GetAlias(src[m])} \subseteq Phys

\* The stored degree of a register still in the graph is its number of
\* neighbours there, as long as only registers of the graph have been simplified
\* and none of them twice.  freeze_moves may hand over the other operand of a
\* move also when it is physical or already merged; and a register whose last
\* move was given up under the name of one merged into it stays in
\* freeze_worklist, from where it is simplified a second time if a merge next to
\* it has sent it to simplify_worklist meanwhile.  Then the count drifts.
DegreesExact ==
    /\ pc = "loop"
    /\ in_select_stack \cap (Phys \cup coalesced_nodes) = {} /\ IsInjective(select_stack)
    => \A r \in Virt \ (coalesced_nodes \cup in_select_stack) :
            degree[r] = Cardinality(Adjacent(r))

\* A move that was coalesced prints as nothing: both operands have one colour.
CoalescedMovesVanish ==
    pc = "done" => \A m \in coalesced_moves : Assigned(dst[m]) = Assigned(src[m])

\* The round ends.
RoundTermination == <>(pc = "done")
=============================================================================
