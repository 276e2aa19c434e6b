-------------------------- MODULE AllocationProofs --------------------------
(***************************************************************************)
(* Type correctness, and: no two interfering registers are ever merged,    *)
(* for every interference graph, every set of moves and every number of    *)
(* registers.                                                              *)
(***************************************************************************)
EXTENDS RegisterAllocation, FiniteSetTheorems, TLAPS

\* What the assumptions say of the number of registers and of the colours.
LEMMA ConstantFacts ==
    /\ IsFiniteSet(Reg)
    /\ \A r \in Reg : Colors(r) \subseteq Phys
    /\ NullPtr \notin Phys
    /\ Virt \cap Phys = {}
    /\ Virt \subseteq Reg /\ Phys \subseteq Reg
<1>1. IsFiniteSet(Reg)
    BY AllocationAssumption, FS_Union DEF Reg
<1>2. ASSUME NEW r \in Reg
      PROVE  Colors(r) \subseteq Phys
    <2>1. Type[r] \in Range(Type)
        BY AllocationAssumption DEF Range
    <2>2. QED
        BY <2>1, AllocationAssumption DEF Colors
<1>3. QED
    BY <1>1, <1>2, AllocationAssumption, RegisterAssumption DEF Reg

\* Sets of registers have a size.
LEMMA SizeType == \A S \in SUBSET Reg : Cardinality(S) \in Nat
    BY ConstantFacts, FS_Subset, FS_CardinalityType

\* The degree counters stay integers.
LEMMA DegreeType ==
    ASSUME TypeOK, NEW m \in Move, NEW u \in Reg, NEW v \in Reg, Combine(m, u, v)
    PROVE  degree' \in [Reg -> Int]
<1> DEFINE near  == Adjacent(v)
           fresh == NewNeighbours(u, near)
           grown == [r \in Reg |->
                       IF r \in Phys THEN degree[r]
                       ELSE IF r = u THEN degree[r] + Cardinality(fresh)
                       ELSE IF r \in fresh THEN degree[r] + 1 ELSE degree[r]]
<1>1. fresh \in SUBSET Reg
    BY DEF NewNeighbours, Adjacent, Graph, Neighbours
<1>2. Cardinality(fresh) \in Nat
    BY <1>1, SizeType
<1>3. grown \in [Reg -> Int]
    BY <1>2 DEF TypeOK
<1>4. degree' = [r \in Reg |-> IF r \in near THEN grown[r] - 1 ELSE grown[r]]
    BY DEF Combine
<1>5. QED
    BY <1>3, <1>4

LEMMA InitType == Init => TypeOK
<1> SUFFICES ASSUME NEW g \in Input,
                    edges = g.edges, dst = g.dst, src = g.src, pc = "make",
                    degree = [r \in Reg |-> Cardinality(Graph(g.edges, r))],
                    move_list = [r \in Reg |-> {m \in g.moves : r \in {g.dst[m], g.src[m]}}],
                    worklist_moves = g.moves,
                    active_moves = {}, coalesced_moves = {},
                    constrained_moves = {}, frozen_moves = {},
                    initial = Virt, simplify_worklist = {},
                    freeze_worklist = {}, spill_worklist = {},
                    select_stack = <<>>, in_select_stack = {},
                    coalesced_nodes = {}, alias = [r \in Reg |-> r],
                    colored_nodes = {}, spilled_nodes = {},
                    color = [r \in Virt |-> NullPtr]
             PROVE  TypeOK
    BY DEF Init
<1>1. \A r \in Reg : Graph(g.edges, r) \in SUBSET Reg
    BY DEF Graph, Neighbours
<1>2. degree \in [Reg -> Int]
    BY <1>1, SizeType
<1>3. QED
    BY <1>2, InputAssumption, ConstantFacts DEF TypeOK

\* The work lists after FreezeMoves.
LEMMA FreezeMovesType ==
    ASSUME TypeOK, NEW r \in Reg, NEW waiting \in SUBSET Reg, FreezeMoves(r, waiting)
    PROVE  /\ active_moves' \subseteq active_moves /\ worklist_moves' \subseteq worklist_moves
           /\ frozen_moves' \subseteq Move
           /\ freeze_worklist' \subseteq waiting
           /\ simplify_worklist' \subseteq Reg
<1>1. NodeMoves(r) \subseteq Move
    BY DEF NodeMoves, TypeOK
<1>2. QED
    BY <1>1 DEF FreezeMoves, FreezeMovesInOrder, TypeOK

LEMMA StepType == TypeOK /\ [Next]_vars => TypeOK'
<1> SUFFICES ASSUME TypeOK, [Next]_vars
             PROVE  TypeOK'
    OBVIOUS
<1> USE DEF graphVars, moveVars, listVars, stackVars, aliasVars, colorVars
<1>1. CASE MakeWorklist
    BY <1>1 DEF MakeWorklist, TypeOK
<1>2. CASE Simplify
    <2>1. PICK r \in simplify_worklist :
            /\ select_stack' = Append(select_stack, r)
            /\ in_select_stack' = in_select_stack \cup {r}
            /\ degree' = [t \in Reg |-> IF t \in Adjacent(r) THEN degree[t] - 1 ELSE degree[t]]
            /\ EnableMoves(Falling(degree, Adjacent(r)), worklist_moves)
            /\ spill_worklist' \subseteq spill_worklist
            /\ freeze_worklist' \subseteq freeze_worklist \cup Adjacent(r)
            /\ simplify_worklist' \subseteq simplify_worklist \cup Adjacent(r)
        BY <1>2 DEF Simplify, Falling
    <2>2. r \in Reg /\ Adjacent(r) \subseteq Reg
        BY DEF TypeOK, Adjacent, Graph, Neighbours
    <2>3. worklist_moves' \subseteq Move /\ active_moves' \subseteq Move
        BY <2>1 DEF EnableMoves, TypeOK
    <2>4. degree' \in [Reg -> Int]
        BY <2>1 DEF TypeOK
    <2>5. QED
        BY <1>2, <2>1, <2>2, <2>3, <2>4 DEF Simplify, TypeOK
<1>3. CASE CoalesceSame
    BY <1>3 DEF CoalesceSame, MoveSame, NoMerge, AddWorklist, Ready, Ends, GetAlias, TypeOK, Reg
<1>4. CASE CoalesceConstrained
    BY <1>4 DEF CoalesceConstrained, MoveConstrained, NoMerge, AddWorklist, Ready, TypeOK, Reg
<1>5. CASE CoalesceDefer
    BY <1>5 DEF CoalesceDefer, MoveDefer, NoMerge, TypeOK
<1>6. CASE CoalesceCombine
    <2>1. PICK m \in worklist_moves :
            /\ coalesced_moves' = coalesced_moves \cup {m}
            /\ Combine(m, Ends(m).u, Ends(m).v)
        BY <1>6 DEF CoalesceCombine, MoveCombine
    <2> DEFINE u == Ends(m).u
               v == Ends(m).v
    <2>2. m \in Move /\ u \in Reg /\ v \in Reg
        BY DEF TypeOK, Ends, GetAlias
    <2> HIDE DEF u, v
    <2>3. Combine(m, u, v)
        BY <2>1 DEF u, v
    <2>4. degree' \in [Reg -> Int]
        BY <2>2, <2>3, DegreeType
    <2>5. Adjacent(v) \subseteq Reg
        BY DEF Adjacent, Graph, Neighbours
    <2>6. /\ coalesced_nodes' \subseteq Reg
          /\ alias' \in [Reg -> Reg]
          /\ move_list' \in [Reg -> SUBSET Move]
          /\ edges' \subseteq Reg \X Reg
        BY <2>2, <2>3, <2>5 DEF Combine, Redirect, NewNeighbours, TypeOK
    <2>7. worklist_moves' \subseteq Move /\ active_moves' \subseteq Move
        BY <2>2, <2>3 DEF Combine, EnableMoves, TypeOK
    <2>8. /\ spill_worklist' \subseteq spill_worklist \cup {u}
          /\ freeze_worklist' \subseteq freeze_worklist \cup Adjacent(v)
          /\ simplify_worklist' \subseteq simplify_worklist \cup Adjacent(v) \cup {u}
        BY <2>3 DEF Combine, Falling, Ready
    <2>9. /\ UNCHANGED <<in_select_stack, select_stack>>
          /\ coalesced_moves' \subseteq Move
        BY <2>1, <2>2, <2>3 DEF Combine, TypeOK
    <2>10. UNCHANGED <<pc, dst, src, initial, constrained_moves, frozen_moves, colorVars>>
        BY <1>6 DEF CoalesceCombine, MoveCombine
    <2>11. QED
        BY <2>2, <2>4, <2>5, <2>6, <2>7, <2>8, <2>9, <2>10 DEF TypeOK
<1>7. CASE Freeze
    <2>1. PICK r \in freeze_worklist : FreezeMoves(r, freeze_worklist \ {r})
        BY <1>7 DEF Freeze
    <2>2. r \in Reg /\ freeze_worklist \ {r} \in SUBSET Reg
        BY DEF TypeOK
    <2>3. QED
        BY <1>7, <2>1, <2>2, FreezeMovesType DEF Freeze, TypeOK
<1>8. CASE SelectSpill
    <2>1. PICK r \in spill_worklist :
            FreezeMoves(r, freeze_worklist) /\ spill_worklist' = spill_worklist \ {r}
        BY <1>8 DEF SelectSpill
    <2>2. r \in Reg /\ freeze_worklist \in SUBSET Reg
        BY DEF TypeOK
    <2>3. QED
        BY <1>8, <2>1, <2>2, FreezeMovesType DEF SelectSpill, TypeOK
<1>9. CASE LeaveLoop
    BY <1>9 DEF LeaveLoop, TypeOK
<1>10. CASE AssignColor
    <2> DEFINE r == select_stack[Len(select_stack)]
    <2>1. r \in Reg /\ select_stack' \in Seq(Reg)
        BY <1>10 DEF AssignColor, TypeOK
    <2>2. OkColors(r) \subseteq Phys
        BY <2>1, ConstantFacts DEF OkColors
    <2>3. color' \in [Virt -> Phys \cup {NullPtr}]
        BY <1>10, <2>2 DEF AssignColor, TypeOK
    <2>4. colored_nodes' \subseteq Reg /\ spilled_nodes' \subseteq Reg
        BY <1>10, <2>1 DEF AssignColor, TypeOK
    <2>5. QED
        BY <1>10, <2>1, <2>3, <2>4 DEF AssignColor, TypeOK
<1>11. CASE FinishAssign
    <2>1. ASSUME NEW r \in Virt, r \in coalesced_nodes
          PROVE  RootColor(r) \in Phys \cup {NullPtr}
        BY <2>1, ConstantFacts DEF RootColor, TypeOK, Reg
    <2>2. color' \in [Virt -> Phys \cup {NullPtr}]
        BY <1>11, <2>1 DEF FinishAssign, TypeOK
    <2>3. QED
        BY <1>11, <2>2 DEF FinishAssign, TypeOK
<1>12. CASE UNCHANGED vars
    BY <1>12 DEF vars, TypeOK
<1>13. QED
    BY <1>1, <1>2, <1>3, <1>4, <1>5, <1>6, <1>7, <1>8, <1>9, <1>10, <1>11, <1>12 DEF Next

\* Every variable keeps its type: the colour of a virtual register is a
\* physical register or none, never a virtual one.
THEOREM AllocationTypeCorrect == Spec => []TypeOK
    BY InitType, StepType, PTL DEF Spec
-----------------------------------------------------------------------------
(***************************************************************************)
(* Interfering registers are never merged: the inductive invariant.        *)
(***************************************************************************)

\* Only virtual registers are merged, and alias leads to a register that is
\* not merged itself.
AliasInv ==
    /\ coalesced_nodes \subseteq Virt
    /\ \A r \in Reg : alias[r] \notin coalesced_nodes
    /\ \A r \in Reg : r \notin coalesced_nodes => alias[r] = r

Symmetric == \A e \in edges : <<e[2], e[1]>> \in edges

\* A move that may still be coalesced is listed at the registers its ends were
\* merged into.
MovesListed ==
    \A m \in worklist_moves \cup active_moves :
        m \in move_list[alias[dst[m]]] /\ m \in move_list[alias[src[m]]]

MovesOnce == worklist_moves \cap active_moves = {}

\* A register that is to be pushed or has been has no move left: it is never
\* merged any more.
StackQuiet ==
    \A r \in (simplify_worklist \cup in_select_stack) \ coalesced_nodes : NodeMoves(r) = {}

RootsApart == \A e \in edges : alias[e[1]] # alias[e[2]]

\* Merging never loses an edge between registers that are still in the graph.
RootsJoined ==
    pc \in {"make", "loop"} =>
        \A e \in edges :
            alias[e[1]] \notin in_select_stack /\ alias[e[2]] \notin in_select_stack =>
                <<alias[e[1]], alias[e[2]]>> \in edges

MergeInv ==
    AliasInv /\ Symmetric /\ MovesListed /\ MovesOnce /\ StackQuiet /\ RootsApart
    /\ RootsJoined

LEMMA InitMerge == Init => MergeInv
<1> SUFFICES ASSUME NEW g \in Input,
                    edges = g.edges, dst = g.dst, src = g.src, pc = "make",
                    move_list = [r \in Reg |-> {m \in g.moves : r \in {g.dst[m], g.src[m]}}],
                    worklist_moves = g.moves, active_moves = {},
                    simplify_worklist = {}, in_select_stack = {},
                    coalesced_nodes = {}, alias = [r \in Reg |-> r]
             PROVE  MergeInv
    BY DEF Init
<1>1. AliasInv /\ MovesOnce /\ StackQuiet
    BY DEF AliasInv, MovesOnce, StackQuiet
<1>2. \A e \in edges : e[1] # e[2] /\ <<e[2], e[1]>> \in edges
    BY InputAssumption
<1>3. Symmetric /\ RootsApart /\ RootsJoined
    <2>1. edges \subseteq Reg \X Reg
        BY InputAssumption
    <2>2. \A e \in edges : alias[e[1]] = e[1] /\ alias[e[2]] = e[2] /\ e = <<e[1], e[2]>>
        BY <2>1
    <2>3. QED
        BY <1>2, <2>2 DEF Symmetric, RootsApart, RootsJoined
<1>4. MovesListed
    BY InputAssumption DEF MovesListed
<1>5. QED
    BY <1>1, <1>3, <1>4 DEF MergeInv

\* The steps that merge nothing: the graph stays, moves are only given up, and
\* what becomes ready to be pushed has no move.
LEMMA NoMergeStep ==
    ASSUME MergeInv,
           UNCHANGED <<edges, alias, coalesced_nodes, move_list, dst, src>>,
           worklist_moves' \cup active_moves' \subseteq worklist_moves \cup active_moves,
           worklist_moves' \cap active_moves' = {},
           \A r \in simplify_worklist' \cup in_select_stack' :
               r \in simplify_worklist \cup in_select_stack \/ NodeMoves(r)' = {},
           pc' \in {"make", "loop"} =>
               pc \in {"make", "loop"} /\ in_select_stack \subseteq in_select_stack'
    PROVE  MergeInv'
<1>1. AliasInv' /\ Symmetric' /\ RootsApart' /\ MovesOnce'
    BY DEF MergeInv, AliasInv, Symmetric, RootsApart, MovesOnce
<1>2. MovesListed'
    BY DEF MergeInv, MovesListed
<1>3. RootsJoined'
    BY DEF MergeInv, RootsJoined
<1>4. StackQuiet'
    <2>1. \A r : NodeMoves(r)' \subseteq NodeMoves(r)
        BY DEF NodeMoves
    <2>2. QED
        BY <2>1 DEF MergeInv, StackQuiet
<1>5. QED
    BY <1>1, <1>2, <1>3, <1>4 DEF MergeInv

\* The ends of a move that may be coalesced are registers of the graph.
LEMMA EndsFacts ==
    ASSUME TypeOK, MergeInv, NEW m \in worklist_moves
    PROVE  LET u == Ends(m).u
               v == Ends(m).v
           IN  /\ u \in Reg /\ v \in Reg
               /\ u \notin coalesced_nodes /\ v \notin coalesced_nodes
               /\ u \notin in_select_stack /\ v \notin in_select_stack
               /\ {u, v} = {alias[dst[m]], alias[src[m]]}
<1> DEFINE u == Ends(m).u
           v == Ends(m).v
<1>1. m \in Move /\ dst[m] \in Reg /\ src[m] \in Reg
    BY DEF TypeOK
<1>2. GetAlias(dst[m]) = alias[dst[m]] /\ GetAlias(src[m]) = alias[src[m]]
    BY <1>1 DEF GetAlias, MergeInv, AliasInv
<1>3. {u, v} = {alias[dst[m]], alias[src[m]]}
    BY <1>2 DEF Ends
<1>4. u \in Reg /\ v \in Reg /\ u \notin coalesced_nodes /\ v \notin coalesced_nodes
    BY ZenonT(60), <1>1, <1>3 DEF TypeOK, MergeInv, AliasInv
<1>5. m \in NodeMoves(u) /\ m \in NodeMoves(v)
    BY <1>3 DEF NodeMoves, MergeInv, MovesListed
<1>6. u \notin in_select_stack /\ v \notin in_select_stack
    BY <1>4, <1>5 DEF MergeInv, StackQuiet
<1>7. QED
    BY <1>3, <1>4, <1>6
\* What combine does to the graph: every neighbour of v that is still there
\* gets the edge to u, and the new edges join nothing else.
LEMMA CombineEdges ==
    ASSUME TypeOK, MergeInv, NEW m \in worklist_moves, NEW u \in Reg, NEW v \in Virt,
           u \notin coalesced_nodes, v \notin coalesced_nodes,
           <<u, v>> \notin edges, Combine(m, u, v)
    PROVE  /\ edges \subseteq edges'
           /\ \A t \in Adjacent(v) : <<t, u>> \in edges' /\ <<u, t>> \in edges'
           /\ \A e \in edges' \ edges :
                  \E t \in Adjacent(v) \ {u, v} : e = <<t, u>> \/ e = <<u, t>>
<1> DEFINE fresh == NewNeighbours(u, Adjacent(v))
<1>1. edges' = edges \cup (fresh \X {u}) \cup ({u} \X fresh)
    BY DEF Combine
<1>2. ASSUME NEW t \in Adjacent(v)
      PROVE  t \in Reg /\ <<v, t>> \in edges
    BY DEF Adjacent, Graph, Neighbours
<1>3. v \notin Adjacent(v) /\ u \notin Adjacent(v)
    <2>1. v \in Reg /\ alias[v] = v
        BY DEF Reg, MergeInv, AliasInv
    <2>2. <<v, v>> \notin edges
        BY DEF MergeInv, RootsApart
    <2>3. <<v, u>> \notin edges
        BY DEF MergeInv, Symmetric
    <2>4. QED
        BY <1>2, <2>2, <2>3
<1>4. \A t \in Adjacent(v) : t \notin fresh => <<t, u>> \in edges
    BY DEF NewNeighbours
<1>5. \A t \in Adjacent(v) : <<t, u>> \in edges => <<u, t>> \in edges
    BY DEF MergeInv, Symmetric
<1>6. \A t \in Adjacent(v) : <<t, u>> \in edges' /\ <<u, t>> \in edges'
    BY <1>1, <1>4, <1>5
<1>7. fresh \subseteq Adjacent(v) \ {u, v}
    BY <1>3 DEF NewNeighbours
<1>8. QED
    BY <1>1, <1>6, <1>7
LEMMA CombineMerge ==
    ASSUME TypeOK, MergeInv, NEW m \in worklist_moves, NEW u \in Reg, NEW v \in Virt,
           u # v, u \notin coalesced_nodes, v \notin coalesced_nodes,
           u \notin in_select_stack, v \notin in_select_stack,
           <<u, v>> \notin edges, Combine(m, u, v),
           simplify_worklist = {}, pc = "loop", pc' = "loop", UNCHANGED <<dst, src>>
    PROVE  MergeInv'
<1> DEFINE root(r) == IF alias[r] = v THEN u ELSE alias[r]
<1>1. /\ coalesced_nodes' = coalesced_nodes \cup {v}
      /\ in_select_stack' = in_select_stack
      /\ \A r \in Reg : alias'[r] = root(r)
      /\ move_list' = [move_list EXCEPT ![u] = @ \cup move_list[v]]
    BY DEF Combine, Redirect
<1>2. /\ edges \subseteq edges'
      /\ \A t \in Adjacent(v) : <<t, u>> \in edges' /\ <<u, t>> \in edges'
      /\ \A e \in edges' \ edges :
             \E t \in Adjacent(v) \ {u, v} : e = <<t, u>> \/ e = <<u, t>>
    BY CombineEdges
<1>3. alias[u] = u /\ alias[v] = v /\ v \in Reg
    BY DEF MergeInv, AliasInv, Reg
<1>4. ASSUME NEW t \in Adjacent(v)
      PROVE  /\ t \in Reg /\ t \notin coalesced_nodes /\ t \notin in_select_stack
             /\ alias[t] = t
    BY DEF Adjacent, Graph, Neighbours, MergeInv, AliasInv
<1>5. \A e \in edges : e[1] \in Reg /\ e[2] \in Reg /\ e = <<e[1], e[2]>>
    BY DEF TypeOK
<1>6. worklist_moves' \cup active_moves' \subseteq worklist_moves \cup active_moves
      /\ worklist_moves' \cap active_moves' = {}
    BY DEF Combine, EnableMoves, MergeInv, MovesOnce
<1>7. AliasInv'
    BY <1>1, <1>3 DEF AliasInv, MergeInv
<1>8. Symmetric'
    <2>1. ASSUME NEW e \in edges'
          PROVE  <<e[2], e[1]>> \in edges'
        <3>1. CASE e \in edges
            BY <1>2, <3>1 DEF MergeInv, Symmetric
        <3>2. CASE e \notin edges
            BY <1>2, <3>2
        <3>3. QED
            BY <3>1, <3>2
    <2>2. QED
        BY <2>1 DEF Symmetric
<1>9. MovesListed' /\ MovesOnce'
    <2>1. ASSUME NEW k \in worklist_moves' \cup active_moves', NEW r \in Reg,
                 k \in move_list[alias[r]]
          PROVE  k \in move_list'[alias'[r]]
        BY <1>1, <2>1 DEF TypeOK
    <2>2. QED
        BY <1>6, <2>1 DEF MergeInv, MovesListed, MovesOnce, TypeOK
<1>10. StackQuiet'
    <2>1. ASSUME NEW r \in simplify_worklist'
          PROVE  NodeMoves(r)' = {}
        <3>1. simplify_worklist' \subseteq {t \in Reg : ~MoveRelated(t)'}
            BY <1>4, <1>3 DEF Combine, Falling, Ready, Reg
        <3>2. QED
            BY <3>1 DEF MoveRelated
    <2>2. ASSUME NEW r \in in_select_stack \ coalesced_nodes
          PROVE  NodeMoves(r)' = {}
        <3>1. NodeMoves(r) = {}
            BY DEF MergeInv, StackQuiet
        <3>2. move_list'[r] = move_list[r]
            BY <1>1, <2>2 DEF TypeOK
        <3>3. QED
            BY <1>6, <3>1, <3>2 DEF NodeMoves
    <2>3. QED
        BY <1>1, <2>1, <2>2 DEF StackQuiet
<1>11. ASSUME NEW e \in edges
       PROVE  /\ root(e[1]) # root(e[2])
              /\ root(e[1]) \notin in_select_stack /\ root(e[2]) \notin in_select_stack =>
                    <<root(e[1]), root(e[2])>> \in edges'
    <2> DEFINE a == alias[e[1]]
               b == alias[e[2]]
    <2>1. a # b /\ a \in Reg /\ b \in Reg /\ a \notin coalesced_nodes /\ b \notin coalesced_nodes
        BY <1>5 DEF MergeInv, RootsApart, AliasInv, TypeOK
    <2>2. a \notin in_select_stack /\ b \notin in_select_stack =>
             <<a, b>> \in edges /\ <<b, a>> \in edges
        BY DEF MergeInv, RootsJoined, Symmetric
    <2> HIDE DEF a, b
    <2>3. CASE a = v
        <3>1. b # u
            BY <2>2, <2>3 DEF MergeInv
        <3>2. b \notin in_select_stack => b \in Adjacent(v)
            BY <2>1, <2>2, <2>3 DEF Adjacent, Graph, Neighbours
        <3>3. QED
            BY <1>2, <2>1, <2>3, <3>1, <3>2 DEF a, b
    <2>4. CASE b = v
        <3>1. a # u
            BY <2>2, <2>4
        <3>2. a \notin in_select_stack => a \in Adjacent(v)
            BY <2>1, <2>2, <2>4 DEF Adjacent, Graph, Neighbours
        <3>3. QED
            BY <1>2, <2>1, <2>4, <3>1, <3>2 DEF a, b
    <2>5. CASE a # v /\ b # v
        BY <1>2, <2>1, <2>2, <2>5 DEF a, b
    <2>6. QED
        BY <2>3, <2>4, <2>5
<1>12. ASSUME NEW e \in edges' \ edges
       PROVE  alias'[e[1]] = e[1] /\ alias'[e[2]] = e[2] /\ e[1] # e[2] /\ e = <<e[1], e[2]>>
    <2>1. PICK t \in Adjacent(v) \ {u, v} : e = <<t, u>> \/ e = <<u, t>>
        BY <1>2
    <2>2. alias'[t] = t /\ alias'[u] = u
        BY <1>1, <1>3, <1>4
    <2>3. QED
        BY <2>1, <2>2
<1>13. RootsApart' /\ RootsJoined'
    BY ZenonT(60), <1>1, <1>5, <1>11, <1>12 DEF RootsApart, RootsJoined
<1>14. QED
    BY <1>7, <1>8, <1>9, <1>10, <1>13 DEF MergeInv

\* After freeze_moves the registers it hands over have no move left.
LEMMA FreezeMovesQuiet ==
    ASSUME MergeInv, NEW r, NEW waiting, FreezeMoves(r, waiting),
           UNCHANGED <<move_list, dst, src>>
    PROVE  /\ worklist_moves' \cup active_moves' \subseteq worklist_moves \cup active_moves
           /\ worklist_moves' \cap active_moves' = {}
           /\ \A t \in simplify_worklist' : t \in simplify_worklist \/ NodeMoves(t)' = {}
<1> DEFINE other(m) == IF dst[m] = r THEN src[m] ELSE dst[m]
<1>1. /\ active_moves' = active_moves \ NodeMoves(r)
      /\ worklist_moves' = worklist_moves \ (NodeMoves(r) \ active_moves)
      /\ \A t \in simplify_worklist' :
             t \in simplify_worklist \/ t = r
             \/ \E m \in NodeMoves(r) : t = other(m) /\ ~MoveRelated(other(m))'
    BY DEF FreezeMoves, FreezeMovesInOrder
<1>2. NodeMoves(r)' = {}
    BY <1>1 DEF NodeMoves, MergeInv, MovesOnce
<1>3. ASSUME NEW t \in simplify_worklist', t \notin simplify_worklist, t # r
      PROVE  NodeMoves(t)' = {}
    <2>1. PICK m \in NodeMoves(r) : t = other(m) /\ ~MoveRelated(other(m))'
        BY <1>1, <1>3
    <2>2. QED
        BY <2>1 DEF MoveRelated, NodeMoves
<1>4. QED
    BY <1>1, <1>2, <1>3 DEF MergeInv, MovesOnce

LEMMA MergeStep == TypeOK /\ MergeInv /\ [Next]_vars => MergeInv'
<1> SUFFICES ASSUME TypeOK, MergeInv, [Next]_vars
             PROVE  MergeInv'
    OBVIOUS
<1> USE DEF graphVars, moveVars, listVars, stackVars, aliasVars, colorVars
<1>0. worklist_moves \cap active_moves = {}
    BY DEF MergeInv, MovesOnce
<1>1. CASE MakeWorklist
    <2>1. \A r \in simplify_worklist' : NodeMoves(r)' = {}
        BY <1>1 DEF MakeWorklist, MoveRelated, NodeMoves
    <2>2. QED
        BY <1>0, <1>1, <2>1, NoMergeStep DEF MakeWorklist
<1>2. CASE Simplify
    <2>1. PICK r \in simplify_worklist :
            /\ in_select_stack' = in_select_stack \cup {r}
            /\ EnableMoves(Falling(degree, Adjacent(r)), worklist_moves)
            /\ \A t \in simplify_worklist' : t \in simplify_worklist \/ ~MoveRelated(t)'
        BY <1>2 DEF Simplify
    <2>2. worklist_moves' \cup active_moves' \subseteq worklist_moves \cup active_moves
          /\ worklist_moves' \cap active_moves' = {}
        BY <1>0, <2>1 DEF EnableMoves
    <2>3. \A t \in simplify_worklist' : t \in simplify_worklist \/ NodeMoves(t)' = {}
        BY <2>1 DEF MoveRelated
    <2>4. QED
        BY <1>2, <2>1, <2>2, <2>3, NoMergeStep DEF Simplify
<1>3. ASSUME CoalesceSame \/ CoalesceConstrained \/ CoalesceDefer
      PROVE  MergeInv'
    <2>1. \A t \in simplify_worklist' : t \in simplify_worklist \/ NodeMoves(t)' = {}
        BY <1>3 DEF CoalesceSame, MoveSame, CoalesceConstrained, MoveConstrained,
                CoalesceDefer, MoveDefer, AddWorklist, Ready, MoveRelated
    <2>2. worklist_moves' \cup active_moves' \subseteq worklist_moves \cup active_moves
          /\ worklist_moves' \cap active_moves' = {}
        BY <1>0, <1>3 DEF CoalesceSame, MoveSame, CoalesceConstrained, MoveConstrained,
                CoalesceDefer, MoveDefer
    <2>3. UNCHANGED <<pc, edges, alias, coalesced_nodes, move_list, dst, src, in_select_stack>>
        BY <1>3 DEF CoalesceSame, MoveSame, CoalesceConstrained, MoveConstrained,
                CoalesceDefer, MoveDefer, NoMerge
    <2>4. QED
        BY <2>1, <2>2, <2>3, NoMergeStep
<1>4. CASE CoalesceCombine
    <2>1. PICK m \in worklist_moves :
            /\ Ends(m).u # Ends(m).v /\ ~Constrained(Ends(m).u, Ends(m).v)
            /\ Combine(m, Ends(m).u, Ends(m).v)
        BY <1>4 DEF CoalesceCombine, MoveCombine
    <2>2. Ends(m).v \in Virt
        BY <2>1, EndsFacts DEF Constrained, Reg
    <2>3. simplify_worklist = {} /\ pc = "loop" /\ pc' = "loop" /\ UNCHANGED <<dst, src>>
        BY <1>4 DEF CoalesceCombine, MoveCombine, CanCoalesce
    <2>4. <<Ends(m).u, Ends(m).v>> \notin edges
        BY <2>1 DEF Constrained
    <2>5. QED
        BY <2>1, <2>2, <2>3, <2>4, EndsFacts, CombineMerge
<1>5. ASSUME Freeze \/ SelectSpill
      PROVE  MergeInv'
    <2>1. PICK r, waiting : FreezeMoves(r, waiting)
        BY <1>5 DEF Freeze, SelectSpill
    <2>2. UNCHANGED <<pc, edges, alias, coalesced_nodes, move_list, dst, src, in_select_stack>>
        BY <1>5 DEF Freeze, SelectSpill
    <2>3. QED
        BY <2>1, <2>2, FreezeMovesQuiet, NoMergeStep
<1>6. ASSUME LeaveLoop \/ AssignColor \/ FinishAssign \/ UNCHANGED vars
      PROVE  MergeInv'
    <2>1. UNCHANGED <<edges, alias, coalesced_nodes, move_list, dst, src, simplify_worklist,
                      worklist_moves, active_moves>>
        BY <1>6 DEF LeaveLoop, AssignColor, FinishAssign, vars
    <2>2. in_select_stack' \subseteq in_select_stack
        BY <1>6 DEF LeaveLoop, AssignColor, FinishAssign, vars
    <2>3. pc' \in {"make", "loop"} => pc \in {"make", "loop"} /\ in_select_stack' = in_select_stack
        BY <1>6 DEF LeaveLoop, AssignColor, FinishAssign, vars
    <2>4. QED
        BY <1>0, <2>1, <2>2, <2>3, NoMergeStep
<1>7. QED
    BY <1>1, <1>2, <1>3, <1>4, <1>5, <1>6 DEF Next

\* No chain of merges ever joins two registers that are live at once, whatever
\* the graph, the moves and the number of colours.
THEOREM InterferenceNeverMerged == Spec => []NoInterferenceMerged
<1>1. TypeOK /\ MergeInv => NoInterferenceMerged
    <2>1. SUFFICES ASSUME TypeOK, MergeInv, NEW e \in edges
                   PROVE  GetAlias(e[1]) # GetAlias(e[2])
        BY DEF NoInterferenceMerged
    <2>2. e[1] \in Reg /\ e[2] \in Reg
        BY <2>1 DEF TypeOK
    <2>3. \A r \in Reg : GetAlias(r) = alias[r]
        BY <2>1 DEF GetAlias, MergeInv, AliasInv
    <2>4. QED
        BY <2>1, <2>2, <2>3 DEF MergeInv, RootsApart
<1>2. QED
    BY <1>1, InitType, StepType, InitMerge, MergeStep, PTL DEF Spec
=============================================================================
