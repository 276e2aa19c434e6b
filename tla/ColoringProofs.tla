--------------------------- MODULE ColoringProofs ---------------------------
(***************************************************************************)
(* A round that spills nothing gives interfering registers different       *)
(* physical registers, unless a physical register was simplified.          *)
(*                                                                         *)
(* What a round leaves behind: no register is forgotten by the work lists, *)
(* no move that could still be coalesced is left, and both ends of a       *)
(* coalesced move have one colour.                                         *)
(*                                                                         *)
(* The degree counters follow the graph through every simplification and   *)
(* merge, as long as nothing but registers of the graph is simplified, and *)
(* none of them twice.                                                     *)
(***************************************************************************)
EXTENDS AllocationProofs

\* The registers at the positions up to i of the stack.
UpTo(i) == {select_stack[k] : k \in 1 .. i}

\* b has a neighbour that has been merged into a (or is a).
Sees(b, a) == \E w \in Reg : <<b, w>> \in edges /\ alias[w] = a

\* The stack is the order of colouring: in_select_stack says what is on it,
\* and a physical register that was popped has a colour.
StackInv ==
    /\ pc = "make" => simplify_worklist = {}
    /\ pc \in {"make", "loop"} => in_select_stack = Range(select_stack)
    /\ pc \in {"make", "loop"} => colored_nodes = {} /\ spilled_nodes = {}
    /\ pc = "assign" => Range(select_stack) \subseteq in_select_stack
    /\ pc = "assign" => in_select_stack \cap Phys \subseteq Range(select_stack) \cup colored_nodes

\* A register on the stack sees every interfering one that is not below it:
\* these are coloured first.
StackSees ==
    \A i \in 1 .. Len(select_stack) : \A e \in edges :
        /\ alias[e[1]] = select_stack[i]
        /\ alias[e[2]] \notin UpTo(i)
        => Sees(alias[e[1]], alias[e[2]])

\* a has got its final colour.
Final(a) == a \in Phys \/ (a \in colored_nodes /\ a \notin Range(select_stack))

\* The colour of a register that is not merged.
ColorOf(a) == IF a \in Phys THEN a ELSE color[a]

\* Registers that interfere and have got their final colours have different
\* ones.
ColorsApart ==
    pc = "assign" /\ spilled_nodes = {} =>
        /\ \A r \in Virt : color[r] # NullPtr => r \in colored_nodes
        /\ \A e \in edges :
               Final(alias[e[1]]) /\ Final(alias[e[2]]) =>
                   ColorOf(alias[e[1]]) # ColorOf(alias[e[2]])

ColorInv ==
    /\ StackInv
    /\ StackSees
    /\ NoPhysSimplified => ColorsApart /\ NoSharedRegister

-----------------------------------------------------------------------------
LEMMA InitColor == Init => ColorInv
<1> SUFFICES ASSUME Init
             PROVE  ColorInv
    OBVIOUS
<1>1. /\ pc = "make" /\ in_select_stack = {} /\ select_stack = <<>>
      /\ colored_nodes = {} /\ spilled_nodes = {} /\ simplify_worklist = {}
    BY DEF Init
<1>2. StackInv
    BY <1>1 DEF StackInv, Range
<1>3. StackSees
    BY <1>1 DEF StackSees
<1>4. ColorsApart /\ NoSharedRegister
    BY <1>1 DEF ColorsApart, NoSharedRegister
<1>5. QED
    BY <1>2, <1>3, <1>4 DEF ColorInv

\* What a step before assign_colors may do to the stack and to the colours.
LEMMA LoopFacts ==
    ASSUME TypeOK, StackInv, pc \in {"make", "loop"}, [Next]_vars
    PROVE  /\ StackInv'
           /\ simplify_worklist \subseteq simplify_worklist' \cup in_select_stack'
           /\ in_select_stack \subseteq in_select_stack'
           /\ UNCHANGED <<colored_nodes, spilled_nodes>>
           /\ pc' \in {"make", "loop", "assign"}
<1> USE DEF graphVars, moveVars, listVars, stackVars, aliasVars, colorVars
<1>1. CASE Simplify
    <2>1. PICK r \in simplify_worklist :
            /\ select_stack' = Append(select_stack, r)
            /\ in_select_stack' = in_select_stack \cup {r}
            /\ simplify_worklist \ {r} \subseteq simplify_worklist'
        BY <1>1 DEF Simplify
    <2>2. UNCHANGED <<pc, colored_nodes, spilled_nodes>> /\ pc = "loop"
        BY <1>1 DEF Simplify, CanSimplify
    <2>3. Range(select_stack') = Range(select_stack) \cup {r}
        <3>1. select_stack \in Seq(Reg) /\ r \in Reg
            BY DEF TypeOK
        <3>2. \A i \in 1 .. Len(select_stack) : select_stack'[i] = select_stack[i]
            BY <2>1, <3>1
        <3>3. Len(select_stack') = Len(select_stack) + 1 /\ select_stack'[Len(select_stack) + 1] = r
            BY <2>1, <3>1
        <3>4. DOMAIN select_stack = 1 .. Len(select_stack)
              /\ DOMAIN select_stack' = 1 .. Len(select_stack) + 1
              /\ Len(select_stack) \in Nat
            BY <2>1, <3>1
        <3>5. QED
            BY <3>2, <3>3, <3>4 DEF Range
    <2>4. QED
        BY <2>1, <2>2, <2>3 DEF StackInv
<1>2. CASE CoalesceCombine
    BY <1>2 DEF CoalesceCombine, MoveCombine, CanCoalesce, Combine, StackInv
<1>3. ASSUME MakeWorklist \/ CoalesceSame \/ CoalesceConstrained \/ CoalesceDefer \/ Freeze
             \/ SelectSpill \/ UNCHANGED vars
      PROVE  /\ UNCHANGED <<stackVars, colored_nodes, spilled_nodes>>
             /\ pc' \in {"make", "loop"}
             /\ pc' = "make" => UNCHANGED simplify_worklist /\ pc = "make"
    BY <1>3 DEF MakeWorklist, CoalesceSame, MoveSame, CoalesceConstrained, MoveConstrained,
            CoalesceDefer, MoveDefer, NoMerge, CanCoalesce, Freeze, CanFreeze, SelectSpill,
            CanSpill, vars
<1>4. ASSUME MakeWorklist \/ CoalesceSame \/ CoalesceConstrained \/ CoalesceDefer \/ Freeze
             \/ SelectSpill \/ UNCHANGED vars
      PROVE  simplify_worklist \subseteq simplify_worklist'
    BY <1>4 DEF MakeWorklist, CoalesceSame, MoveSame, CoalesceConstrained, MoveConstrained,
            CoalesceDefer, MoveDefer, NoMerge, AddWorklist, Freeze, SelectSpill,
            FreezeMoves, FreezeMovesInOrder, StackInv, vars
<1>5. CASE LeaveLoop
    BY <1>5 DEF LeaveLoop, StackInv
<1>6. ~AssignColor /\ ~FinishAssign
    BY DEF AssignColor, FinishAssign
<1>7. QED
    BY <1>1, <1>2, <1>3, <1>4, <1>5, <1>6 DEF Next, StackInv

\* Pushing r keeps what the registers below it see, and r sees every
\* interfering register that is not on the stack yet.
LEMMA SimplifySees ==
    ASSUME TypeOK, MergeInv, StackInv, StackSees, Simplify
    PROVE  StackSees'
<1> USE DEF graphVars, moveVars, listVars, stackVars, aliasVars, colorVars
<1>1. PICK r \in simplify_worklist : select_stack' = Append(select_stack, r)
    BY DEF Simplify
<1>2. select_stack \in Seq(Reg) /\ r \in Reg
    BY DEF TypeOK
<1>n. PICK n \in Nat : n = Len(select_stack)
    BY <1>2
<1>3. /\ Len(select_stack') = n + 1 /\ select_stack'[n + 1] = r
      /\ \A i \in 1 .. n : select_stack'[i] = select_stack[i]
    BY <1>1, <1>2, <1>n
<1>4. UNCHANGED <<edges, alias>> /\ in_select_stack = Range(select_stack) /\ pc = "loop"
    BY DEF Simplify, CanSimplify, StackInv
<1>5. \A i \in 1 .. n : UpTo(i)' = UpTo(i)
    BY <1>2, <1>3, <1>n DEF UpTo
<1>6. UpTo(n) = Range(select_stack)
    BY <1>2, <1>n DEF UpTo, Range
<1>7. \A i \in 1 .. n : UpTo(i) \subseteq UpTo(n)
    BY <1>2, <1>n DEF UpTo
<1>8. UpTo(n + 1)' = UpTo(n) \cup {r}
    <2>1. \A k \in 1 .. n + 1 : k \in 1 .. n \/ k = n + 1
        OBVIOUS
    <2>2. n + 1 \in 1 .. n + 1 /\ \A k \in 1 .. n : k \in 1 .. n + 1
        OBVIOUS
    <2>3. QED
        BY <1>3, <2>1, <2>2 DEF UpTo
<1>9. ASSUME NEW a, NEW b, Sees(a, b)
      PROVE  Sees(a, b)'
    BY <1>4, <1>9 DEF Sees
<1>10. ASSUME NEW i \in 1 .. n + 1, NEW e \in edges,
              alias[e[1]] = select_stack'[i], alias[e[2]] \notin UpTo(i)'
       PROVE  Sees(alias[e[1]], alias[e[2]])
    <2> DEFINE a == alias[e[2]]
    <2>1. CASE i \in 1 .. n
        BY <1>3, <1>5, <1>10, <1>n, <2>1 DEF StackSees
    <2>2. CASE i = n + 1 /\ r \in Range(select_stack)
        <3>1. PICK k \in 1 .. n : select_stack[k] = r
            BY <1>2, <1>n, <2>2 DEF Range
        <3>2. a \notin UpTo(k)
            BY <1>6, <1>7, <1>8, <1>10, <2>2, <3>1
        <3>3. QED
            BY <1>3, <1>10, <1>n, <2>2, <3>1, <3>2 DEF StackSees
    <2>3. CASE i = n + 1 /\ r \notin Range(select_stack)
        <3>1. alias[e[1]] = r /\ a \notin in_select_stack
            BY <1>3, <1>4, <1>6, <1>8, <1>10, <2>3
        <3>2. <<r, a>> \in edges
            BY <1>4, <2>3, <3>1 DEF MergeInv, RootsJoined
        <3>3. a \in Reg /\ alias[a] = a
            BY <3>2 DEF TypeOK, MergeInv, AliasInv
        <3>4. QED
            BY <3>1, <3>2, <3>3 DEF Sees
    <2>4. i \in 1 .. n \/ i = n + 1
        BY <1>2, <1>n
    <2>5. QED
        BY <2>1, <2>2, <2>3, <2>4
<1>11. QED
    BY <1>3, <1>4, <1>9, <1>10, <1>n DEF StackSees

\* A merge keeps what the registers on the stack see: neither of the merged
\* registers is on it.
LEMMA CombineSees ==
    ASSUME TypeOK, MergeInv, StackInv, StackSees, CoalesceCombine
    PROVE  StackSees'
<1>1. PICK m \in worklist_moves :
        /\ ~Constrained(Ends(m).u, Ends(m).v)
        /\ Combine(m, Ends(m).u, Ends(m).v)
    BY DEF CoalesceCombine, MoveCombine
<1> DEFINE u == Ends(m).u
           v == Ends(m).v
<1>2. /\ u \in Reg /\ v \in Virt /\ <<u, v>> \notin edges
      /\ u \notin coalesced_nodes /\ v \notin coalesced_nodes
      /\ u \notin in_select_stack /\ v \notin in_select_stack
    BY <1>1, EndsFacts DEF Constrained, Reg
<1>3. Combine(m, u, v)
    BY <1>1
<1> HIDE DEF u, v
<1>4. /\ edges \subseteq edges'
      /\ \A e \in edges' \ edges :
             \E t \in Adjacent(v) \ {u, v} : e = <<t, u>> \/ e = <<u, t>>
    BY <1>2, <1>3, CombineEdges
<1>5. /\ \A r \in Reg : alias'[r] = IF alias[r] = v THEN u ELSE alias[r]
      /\ select_stack' = select_stack
    BY <1>3 DEF Combine, Redirect
<1>6. in_select_stack = Range(select_stack) /\ select_stack \in Seq(Reg)
    BY DEF CoalesceCombine, MoveCombine, CanCoalesce, StackInv, TypeOK
<1>7. alias[u] = u
    BY <1>2 DEF MergeInv, AliasInv
<1>8. ASSUME NEW i \in 1 .. Len(select_stack), NEW e \in edges',
             alias'[e[1]] = select_stack[i], alias'[e[2]] \notin UpTo(i)
      PROVE  Sees(alias[e[1]], alias[e[2]])'
    <2>1. select_stack[i] \in in_select_stack
        BY <1>6 DEF Range
    <2>2. UpTo(i) \subseteq in_select_stack
        BY <1>6 DEF UpTo, Range
    <2>3. e \in edges
        <3>1. SUFFICES ASSUME NEW t \in Adjacent(v) \ {u, v}, e = <<t, u>> \/ e = <<u, t>>
                       PROVE  FALSE
            BY <1>4
        <3>2. t \in Reg /\ t \notin in_select_stack /\ alias[t] = t
            BY DEF Adjacent, Graph, Neighbours, MergeInv, AliasInv
        <3>3. alias'[e[1]] \in {t, u}
            BY <1>2, <1>5, <1>7, <3>1, <3>2
        <3>4. QED
            BY <1>2, <1>8, <2>1, <3>2, <3>3
    <2>4. e[1] \in Reg /\ e[2] \in Reg
        BY <2>3 DEF TypeOK
    <2>5. alias[e[1]] = select_stack[i] /\ alias'[e[1]] = alias[e[1]]
        BY <1>2, <1>5, <1>8, <2>1, <2>4
    <2>6. alias[e[2]] \notin UpTo(i)
        BY <1>2, <1>5, <1>8, <2>2, <2>4
    <2>7. PICK w \in Reg : <<alias[e[1]], w>> \in edges /\ alias[w] = alias[e[2]]
        BY <2>3, <2>5, <2>6 DEF StackSees, Sees
    <2>8. <<alias'[e[1]], w>> \in edges' /\ alias'[w] = alias'[e[2]]
        BY <1>4, <1>5, <2>4, <2>5, <2>7
    <2>9. QED
        BY <2>8 DEF Sees
<1>9. QED
    BY <1>5, <1>8 DEF StackSees, UpTo

\* Popping the stack shortens it from the top.
LEMMA PopFacts ==
    ASSUME TypeOK, AssignColor
    PROVE  \E n \in Nat, r \in Reg :
             /\ Len(select_stack) = n + 1 /\ select_stack[n + 1] = r
             /\ Len(select_stack') = n
             /\ \A i \in 1 .. n : select_stack'[i] = select_stack[i]
             /\ Range(select_stack) = Range(select_stack') \cup {r}
             /\ UpTo(n + 1) = Range(select_stack)
             /\ \/ OkColors(r) = {} /\ spilled_nodes' = spilled_nodes \cup {r} /\ UNCHANGED color
                \/ \E c \in OkColors(r) :
                      /\ colored_nodes' = colored_nodes \cup {r}
                      /\ color' = [v \in Virt |-> IF v = r THEN c ELSE color[v]]
                      /\ UNCHANGED spilled_nodes
<1>1. select_stack \in Seq(Reg) /\ select_stack # <<>>
    BY DEF TypeOK, AssignColor
<1>2. PICK n \in Nat : Len(select_stack) = n + 1
    BY <1>1
<1>3. select_stack' = SubSeq(select_stack, 1, n)
    BY <1>2 DEF AssignColor
<1>4. Len(select_stack') = n /\ \A i \in 1 .. n : select_stack'[i] = select_stack[i]
    BY <1>1, <1>2, <1>3
<1>5. DOMAIN select_stack' = 1 .. n /\ DOMAIN select_stack = 1 .. n + 1
    BY <1>1, <1>2, <1>3
<1>6. \A k : k \in 1 .. n + 1 <=> k \in 1 .. n \/ k = n + 1
    OBVIOUS
<1>7. Range(select_stack) = Range(select_stack') \cup {select_stack[n + 1]}
    BY <1>4, <1>5, <1>6 DEF Range
<1>8. UpTo(n + 1) = Range(select_stack)
    BY <1>5 DEF UpTo, Range
<1>9. select_stack[n + 1] \in Reg
    BY <1>1, <1>2
<1>10. QED
    BY <1>2, <1>4, <1>7, <1>8, <1>9 DEF AssignColor

\* The colour given to r is not the one an interfering register has.
LEMMA ChosenColor ==
    ASSUME TypeOK, MergeInv, StackSees, NEW n \in Nat, NEW r \in Virt,
           Len(select_stack) = n + 1, select_stack[n + 1] = r,
           UpTo(n + 1) = Range(select_stack),
           NEW e \in edges, alias[e[1]] = r,
           Final(alias[e[2]]), alias[e[2]] \notin Range(select_stack),
           NEW c \in OkColors(r)
    PROVE  c # ColorOf(alias[e[2]])
<1> DEFINE b == alias[e[2]]
<1>1. PICK w \in Reg : <<r, w>> \in edges /\ alias[w] = b
    <2>1. n + 1 \in 1 .. Len(select_stack)
        OBVIOUS
    <2>2. QED
        BY <2>1 DEF StackSees, Sees
<1>2. GetAlias(w) = b
    BY <1>1 DEF GetAlias, MergeInv, AliasInv
<1>3. w \in Graph(edges, r)
    BY <1>1 DEF Graph, Neighbours
<1>4. ColorOf(b) \in TakenBy(w)
    BY <1>2 DEF TakenBy, ColorOf, Final
<1>5. QED
    BY <1>3, <1>4 DEF OkColors

LEMMA AssignStep ==
    ASSUME TypeOK, MergeInv, ColorInv, AssignColor
    PROVE  /\ StackInv' /\ StackSees'
           /\ NoPhysSimplified => ColorsApart'
<1> USE DEF graphVars, moveVars, listVars, stackVars, aliasVars, colorVars
<1>1. PICK n \in Nat, r \in Reg :
        /\ Len(select_stack) = n + 1 /\ select_stack[n + 1] = r
        /\ Len(select_stack') = n
        /\ \A i \in 1 .. n : select_stack'[i] = select_stack[i]
        /\ Range(select_stack) = Range(select_stack') \cup {r}
        /\ UpTo(n + 1) = Range(select_stack)
        /\ \/ OkColors(r) = {} /\ spilled_nodes' = spilled_nodes \cup {r} /\ UNCHANGED color
           \/ \E c \in OkColors(r) :
                 /\ colored_nodes' = colored_nodes \cup {r}
                 /\ color' = [v \in Virt |-> IF v = r THEN c ELSE color[v]]
                 /\ UNCHANGED spilled_nodes
    BY PopFacts
<1>2. UNCHANGED <<edges, alias, in_select_stack>> /\ pc = "assign" /\ pc' = "assign"
      /\ colored_nodes \subseteq colored_nodes'
    BY DEF AssignColor
<1>3. r \in Phys => r \in colored_nodes'
    <2>1. r \in Phys => Graph(edges, r) = {}
        BY RegisterAssumption DEF Graph
    <2>2. r \in Phys => OkColors(r) = Colors(r)
        BY <2>1 DEF OkColors
    <2>3. Colors(r) # {}
        BY AllocationAssumption
    <2>4. QED
        BY <1>1, <2>2, <2>3
<1>4. StackInv'
    BY <1>1, <1>2, <1>3 DEF ColorInv, StackInv
<1>5. StackSees'
    <2>1. ASSUME NEW i \in 1 .. n
          PROVE  UpTo(i)' = UpTo(i) /\ i \in 1 .. n + 1
        BY <1>1 DEF UpTo
    <2>2. ASSUME NEW i \in 1 .. n, NEW e \in edges,
                 alias[e[1]] = select_stack'[i], alias[e[2]] \notin UpTo(i)'
          PROVE  Sees(alias[e[1]], alias[e[2]])
        BY <1>1, <2>1, <2>2 DEF ColorInv, StackSees
    <2>3. QED
        BY ZenonT(60), <1>1, <1>2, <2>2 DEF StackSees, Sees
<1>6. ASSUME NoPhysSimplified, spilled_nodes' = {}
      PROVE  /\ \A x \in Virt : color'[x] # NullPtr => x \in colored_nodes'
             /\ \A e \in edges :
                    Final(alias[e[1]])' /\ Final(alias[e[2]])' =>
                        ColorOf(alias[e[1]])' # ColorOf(alias[e[2]])'
    <2>1. PICK c \in OkColors(r) :
            /\ colored_nodes' = colored_nodes \cup {r}
            /\ color' = [v \in Virt |-> IF v = r THEN c ELSE color[v]]
            /\ spilled_nodes = {}
        BY <1>1, <1>6
    <2>2. r \in Virt /\ r \notin Phys
        BY <1>1, <1>2, <1>6, RegisterAssumption DEF ColorInv, StackInv, NoPhysSimplified, Reg
    <2>3. ColorsApart
        BY <1>6 DEF ColorInv
    <2>4. \A x \in Virt : color'[x] # NullPtr => x \in colored_nodes'
        BY <1>2, <2>1, <2>3 DEF ColorsApart
    <2>5. ASSUME NEW x \in Reg, x # r, Final(x)'
          PROVE  Final(x) /\ x \notin Range(select_stack) /\ ColorOf(x)' = ColorOf(x)
        <3>1. CASE x \in Phys
            BY <1>2, <1>6, <3>1 DEF Final, ColorOf, ColorInv, StackInv, NoPhysSimplified
        <3>2. CASE x \notin Phys
            BY <1>1, <2>1, <2>5, <3>2 DEF Final, ColorOf, Reg
        <3>3. QED
            BY <3>1, <3>2
    <2>6. ColorOf(r)' = c
        BY <2>1, <2>2 DEF ColorOf
    <2>7. ASSUME NEW e \in edges, Final(alias[e[1]])', Final(alias[e[2]])'
          PROVE  ColorOf(alias[e[1]])' # ColorOf(alias[e[2]])'
        <3>1. e[1] \in Reg /\ e[2] \in Reg /\ <<e[2], e[1]>> \in edges
            BY DEF TypeOK, MergeInv, Symmetric
        <3> DEFINE a == alias[e[1]]
                   b == alias[e[2]]
        <3>2. a \in Reg /\ b \in Reg /\ a # b
            BY <3>1 DEF TypeOK, MergeInv, RootsApart
        <3>3. Final(a)' /\ Final(b)'
            BY <2>7
        <3>4. CASE a # r /\ b # r
            BY <1>2, <2>1, <2>3, <2>5, <3>2, <3>3, <3>4 DEF ColorsApart
        <3>5. CASE a = r
            <4>1. b # r
                BY <3>2, <3>5
            <4>2. Final(b) /\ b \notin Range(select_stack) /\ ColorOf(b)' = ColorOf(b)
                BY <1>2, <2>5, <3>2, <3>3, <4>1
            <4>3. c # ColorOf(b)
                BY <1>1, <2>2, <3>5, <4>2, ChosenColor DEF ColorInv
            <4>4. QED
                BY <1>2, <2>6, <3>5, <4>2, <4>3
        <3>6. CASE b = r
            <4>1. a # r
                BY <3>2, <3>6
            <4>2. Final(a) /\ a \notin Range(select_stack) /\ ColorOf(a)' = ColorOf(a)
                BY <1>2, <2>5, <3>2, <3>3, <4>1
            <4>3. c # ColorOf(a)
                <5> DEFINE f == <<e[2], e[1]>>
                <5>1. f \in edges /\ alias[f[1]] = r /\ alias[f[2]] = a
                    BY <3>1, <3>6
                <5> HIDE DEF f
                <5>2. QED
                    BY <1>1, <2>2, <4>2, <5>1, ChosenColor DEF ColorInv
            <4>4. QED
                BY <1>2, <2>6, <3>6, <4>2, <4>3
        <3>7. QED
            BY <3>4, <3>5, <3>6
    <2>8. QED
        BY <2>4, <2>7
<1>7. NoPhysSimplified => ColorsApart'
    BY <1>2, <1>6 DEF ColorsApart
<1>8. QED
    BY <1>4, <1>5, <1>7

LEMMA FinishStep ==
    ASSUME TypeOK, MergeInv, ColorInv, NoPhysSimplified, FinishAssign
    PROVE  NoSharedRegister'
<1> USE DEF graphVars, moveVars, listVars, stackVars, aliasVars, colorVars
<1>1. UNCHANGED <<edges, alias, spilled_nodes>> /\ pc = "assign" /\ select_stack = <<>>
    BY DEF FinishAssign
<1>2. ASSUME NEW r \in Reg
      PROVE  Assigned(r)' = ColorOf(alias[r])
    <2>1. r \in Phys => r \notin Virt /\ alias[r] = r
        BY RegisterAssumption DEF MergeInv, AliasInv
    <2>2. r \in Virt => r \notin Phys
        BY RegisterAssumption
    <2>3. r \in Virt =>
             color'[r] = IF r \in coalesced_nodes THEN RootColor(r) ELSE color[r]
        BY DEF FinishAssign
    <2>4. r \notin coalesced_nodes => alias[r] = r
        BY DEF MergeInv, AliasInv
    <2>5. QED
        BY <2>1, <2>2, <2>3, <2>4 DEF Assigned, ColorOf, RootColor, Reg
<1>3. ASSUME NEW e \in edges, spilled_nodes = {}, ColorOf(alias[e[1]]) # NullPtr
      PROVE  ColorOf(alias[e[1]]) # ColorOf(alias[e[2]])
    <2>1. e[1] \in Reg /\ e[2] \in Reg
        BY DEF TypeOK
    <2>2. alias[e[1]] \in Virt \cup Phys /\ alias[e[2]] \in Virt \cup Phys
        BY <2>1 DEF TypeOK, Reg
    <2>3. ColorsApart
        BY DEF ColorInv
    <2>4. Range(select_stack) = {}
        BY <1>1 DEF Range
    <2>5. \A a \in Virt \cup Phys : ColorOf(a) # NullPtr => Final(a)
        BY <1>1, <1>3, <2>3, <2>4 DEF ColorOf, Final, ColorsApart
    <2>6. QED
        BY <1>1, <1>3, <2>2, <2>3, <2>5 DEF ColorsApart
<1>4. \A e \in edges : e[1] \in Reg /\ e[2] \in Reg
    BY DEF TypeOK
<1>5. QED
    BY <1>1, <1>2, <1>3, <1>4 DEF NoSharedRegister

\* A physical register that was simplified stays visible to the end.
LEMMA PhysSimplifiedStays ==
    ASSUME TypeOK, StackInv, [Next]_vars, NoPhysSimplified'
    PROVE  NoPhysSimplified
<1> USE DEF graphVars, moveVars, listVars, stackVars, aliasVars, colorVars
<1>1. CASE pc \in {"make", "loop"}
    BY <1>1, LoopFacts DEF NoPhysSimplified
<1>2. CASE AssignColor
    BY <1>2 DEF AssignColor, NoPhysSimplified
<1>3. CASE FinishAssign
    <2>1. Range(select_stack) = {}
        BY <1>3 DEF FinishAssign, Range
    <2>2. in_select_stack \cap Phys \subseteq colored_nodes
        BY <1>3, <2>1 DEF FinishAssign, StackInv
    <2>3. UNCHANGED <<simplify_worklist, colored_nodes>>
        BY <1>3 DEF FinishAssign
    <2>4. QED
        BY <2>2, <2>3 DEF NoPhysSimplified
<1>4. CASE UNCHANGED vars
    BY <1>4 DEF vars, NoPhysSimplified
<1>5. QED
    BY <1>1, <1>2, <1>3, <1>4
       DEF Next, MakeWorklist, Simplify, CanSimplify, CoalesceSame, MoveSame,
               CoalesceConstrained, MoveConstrained, CoalesceCombine, MoveCombine,
               CoalesceDefer, MoveDefer, CanCoalesce, Freeze, CanFreeze, SelectSpill,
               CanSpill, LeaveLoop

LEMMA ColorStep == TypeOK /\ MergeInv /\ ColorInv /\ [Next]_vars => ColorInv'
<1> SUFFICES ASSUME TypeOK, MergeInv, ColorInv, [Next]_vars
             PROVE  ColorInv'
    OBVIOUS
<1> USE DEF graphVars, moveVars, listVars, stackVars, aliasVars, colorVars
<1>1. NoPhysSimplified' => NoPhysSimplified
    BY PhysSimplifiedStays DEF ColorInv
<1>2. CASE pc \in {"make", "loop"}
    <2>1. StackInv' /\ pc' # "done" /\ (pc' = "assign" => LeaveLoop)
        BY <1>2, LoopFacts
           DEF ColorInv, Next, MakeWorklist, Simplify, CoalesceSame, MoveSame,
                   CoalesceConstrained, MoveConstrained, CoalesceCombine, MoveCombine,
                   CoalesceDefer, MoveDefer, NoMerge, CanSimplify, CanCoalesce, Freeze,
                   CanFreeze, SelectSpill, CanSpill, AssignColor, FinishAssign, vars
    <2>2. StackSees'
        <3>1. CASE Simplify
            BY <3>1, SimplifySees DEF ColorInv
        <3>2. CASE CoalesceCombine
            BY <3>2, CombineSees DEF ColorInv
        <3>3. CASE ~Simplify /\ ~CoalesceCombine
            <4>1. UNCHANGED <<select_stack, edges, alias>>
                BY <1>2, <3>3
                   DEF Next, MakeWorklist, CoalesceSame, MoveSame, CoalesceConstrained,
                           MoveConstrained, CoalesceDefer, MoveDefer, NoMerge, Freeze,
                           SelectSpill, LeaveLoop, AssignColor, FinishAssign, vars
            <4>2. select_stack' = select_stack /\ edges' = edges /\ alias' = alias
                BY <4>1
            <4>3. ASSUME NEW i \in 1 .. Len(select_stack'), NEW e \in edges',
                         alias'[e[1]] = select_stack'[i], alias'[e[2]] \notin UpTo(i)'
                  PROVE  Sees(alias[e[1]], alias[e[2]])'
                <5>1. UpTo(i)' = UpTo(i)
                    BY <4>2 DEF UpTo
                <5>2. Sees(alias[e[1]], alias[e[2]])
                    BY <4>2, <4>3, <5>1 DEF ColorInv, StackSees
                <5>3. QED
                    BY <4>2, <5>2 DEF Sees
            <4>4. QED
                BY <4>3 DEF StackSees
        <3>4. QED
            BY <3>1, <3>2, <3>3
    <2>3. ColorsApart'
        <3>1. SUFFICES ASSUME LeaveLoop
                       PROVE  ColorsApart'
            BY <2>1 DEF ColorsApart
        <3>2. colored_nodes' = {} /\ UNCHANGED <<edges, alias>>
              /\ \A r \in Virt : color'[r] = NullPtr
            BY <1>2, <3>1 DEF LeaveLoop, ColorInv, StackInv
        <3>3. ASSUME NEW e \in edges, Final(alias[e[1]])', Final(alias[e[2]])'
              PROVE  ColorOf(alias[e[1]])' # ColorOf(alias[e[2]])'
            <4>1. alias[e[1]] # alias[e[2]]
                BY DEF MergeInv, RootsApart
            <4>2. alias[e[1]] \in Phys /\ alias[e[2]] \in Phys
                BY <3>2, <3>3 DEF Final
            <4>3. QED
                BY <3>2, <4>1, <4>2 DEF ColorOf
        <3>4. QED
            BY <3>2, <3>3 DEF ColorsApart
    <2>4. QED
        BY <2>1, <2>2, <2>3 DEF ColorInv, NoSharedRegister
<1>3. CASE AssignColor
    <2>1. pc' = "assign"
        BY <1>3 DEF AssignColor
    <2>2. QED
        BY <1>1, <1>3, <2>1, AssignStep DEF ColorInv, NoSharedRegister
<1>4. CASE FinishAssign
    <2>1. pc' = "done" /\ select_stack' = <<>>
        BY <1>4 DEF FinishAssign
    <2>2. StackInv' /\ StackSees' /\ ColorsApart'
        BY <2>1 DEF StackInv, StackSees, ColorsApart
    <2>3. QED
        BY <1>1, <1>4, <2>2, FinishStep DEF ColorInv
<1>5. CASE UNCHANGED vars
    BY <1>5
       DEF vars, ColorInv, StackInv, StackSees, Sees, UpTo, ColorsApart, Final, ColorOf,
           NoPhysSimplified, NoSharedRegister, Assigned
<1>6. QED
    BY <1>2, <1>3, <1>4, <1>5
       DEF Next, MakeWorklist, Simplify, CanSimplify, CoalesceSame, MoveSame,
               CoalesceConstrained, MoveConstrained, CoalesceCombine, MoveCombine,
               CoalesceDefer, MoveDefer, CanCoalesce, Freeze, CanFreeze, SelectSpill,
               CanSpill, LeaveLoop

\* When a round spills nothing and no physical register was simplified in it,
\* two registers that are live at once have different physical registers:
\* whatever the graph, the moves, the number of colours and the order in which
\* the work lists are served.
THEOREM ColoringIsProper == Spec => []ProperColoring
<1>1. ColorInv => ProperColoring
    BY DEF ColorInv, ProperColoring
<1>2. QED
    BY <1>1, InitType, StepType, InitMerge, MergeStep, InitColor, ColorStep, PTL DEF Spec

-----------------------------------------------------------------------------
\* A register of the graph is always in a work list or on the stack.
OnLists ==
    /\ pc = "make" => initial = Virt
    /\ pc = "loop" =>
           Virt \ coalesced_nodes \subseteq simplify_worklist \cup freeze_worklist
                                               \cup spill_worklist \cup in_select_stack

\* What assign_colors has done to a register that left the stack.
Colored(r) == color[r] # NullPtr \/ r \in spilled_nodes

\* While the stack is emptied, every register that is not merged is still on
\* it or has been dealt with.
StackedOrColored ==
    pc = "assign" => \A r \in Virt \ coalesced_nodes : r \in Range(select_stack) \/ Colored(r)

\* The ends of a coalesced move have been merged into one register.
MovesMerged == \A m \in coalesced_moves : alias[dst[m]] = alias[src[m]]

SettledInv ==
    /\ OnLists /\ StackedOrColored /\ MovesMerged
    /\ EveryRegisterSettled /\ NoMoveForgotten /\ CoalescedMovesVanish

-----------------------------------------------------------------------------
\* get_alias, once alias is compressed.
LEMMA AliasIsRoot ==
    ASSUME AliasInv
    PROVE  \A r \in Reg : GetAlias(r) = alias[r]
    BY DEF AliasInv, GetAlias

LEMMA InitSettled == Init => SettledInv
<1> SUFFICES ASSUME Init
             PROVE  SettledInv
    OBVIOUS
<1>1. pc = "make" /\ initial = Virt /\ coalesced_moves = {}
    BY DEF Init
<1>2. QED
    BY <1>1
       DEF SettledInv, OnLists, StackedOrColored, MovesMerged, EveryRegisterSettled,
           NoMoveForgotten, CoalescedMovesVanish

\* Each step that takes a register off a work list puts it on another one or
\* on the stack, or merges it into a register that stays.
LEMMA ListsStep ==
    ASSUME TypeOK, MergeInv, OnLists, [Next]_vars
    PROVE  OnLists'
<1> USE DEF graphVars, moveVars, listVars, stackVars, aliasVars, colorVars
<1> DEFINE lists == simplify_worklist \cup freeze_worklist \cup spill_worklist
                        \cup in_select_stack
<1>1. CASE MakeWorklist
    <2>1. pc = "make" /\ initial = Virt
        BY <1>1 DEF MakeWorklist, OnLists
    <2>2. pc' = "loop" /\ Virt \subseteq lists'
        BY <1>1, <2>1 DEF MakeWorklist
    <2>3. QED
        BY <2>2 DEF OnLists
<1>2. CASE Simplify
    <2>1. PICK r \in simplify_worklist :
            /\ in_select_stack' = in_select_stack \cup {r}
            /\ spill_worklist' = spill_worklist \ Falling(degree, Adjacent(r))
            /\ freeze_worklist' = freeze_worklist
                   \cup {t \in Falling(degree, Adjacent(r)) : MoveRelated(t)'}
            /\ simplify_worklist' = (simplify_worklist \ {r})
                   \cup {t \in Falling(degree, Adjacent(r)) : ~MoveRelated(t)'}
        BY <1>2 DEF Simplify
    <2>2. lists \subseteq lists'
        BY <2>1
    <2>3. pc = "loop" /\ UNCHANGED <<pc, coalesced_nodes>>
        BY <1>2 DEF Simplify, CanSimplify
    <2>4. QED
        BY <2>2, <2>3 DEF OnLists
<1>3. ASSUME CoalesceSame \/ CoalesceConstrained \/ CoalesceDefer
      PROVE  OnLists'
    <2>1. lists \subseteq lists'
        BY <1>3 DEF CoalesceSame, MoveSame, CoalesceConstrained, MoveConstrained,
                CoalesceDefer, MoveDefer, AddWorklist, NoMerge
    <2>2. pc = "loop" /\ UNCHANGED <<pc, coalesced_nodes>>
        BY <1>3 DEF CoalesceSame, MoveSame, CoalesceConstrained, MoveConstrained,
                CoalesceDefer, MoveDefer, NoMerge, CanCoalesce
    <2>3. QED
        BY <2>1, <2>2 DEF OnLists
<1>4. CASE CoalesceCombine
    <2>1. PICK m \in worklist_moves : Combine(m, Ends(m).u, Ends(m).v)
        BY <1>4 DEF CoalesceCombine, MoveCombine
    <2>2. PICK u, v : u = Ends(m).u /\ v = Ends(m).v
        OBVIOUS
    <2>3. Combine(m, u, v)
        BY <2>1, <2>2
    <2>4. \A r \in lists : r = v \/ r \in lists'
        <3> DEFINE near    == Adjacent(v)
                   fresh   == NewNeighbours(u, near)
                   grown   == [r \in Reg |->
                                 IF r \in Phys THEN degree[r]
                                 ELSE IF r = u THEN degree[r] + Cardinality(fresh)
                                 ELSE IF r \in fresh THEN degree[r] + 1 ELSE degree[r]]
                   falling == Falling(grown, near)
                   frozen  == (freeze_worklist \ {v}) \cup {t \in falling : MoveRelated(t)'}
                   full    == {u} \cap {r \in frozen : HighDegree(degree', r)}
        <3>1. /\ spill_worklist' =
                     ((IF v \in freeze_worklist THEN spill_worklist ELSE spill_worklist \ {v})
                         \ falling) \cup full
              /\ freeze_worklist' = (frozen \ full) \ Ready({u})
              /\ simplify_worklist' =
                     simplify_worklist \cup {t \in falling : ~MoveRelated(t)'} \cup Ready({u})
              /\ in_select_stack' = in_select_stack
            BY <2>3 DEF Combine
        <3> HIDE DEF falling, full
        <3>2. QED
            BY <3>1
    <2>5. coalesced_nodes' = coalesced_nodes \cup {v} /\ pc = "loop" /\ UNCHANGED pc
        BY <1>4, <2>3 DEF CoalesceCombine, MoveCombine, CanCoalesce, Combine
    <2>6. QED
        BY <2>4, <2>5 DEF OnLists
<1>5. ASSUME Freeze \/ SelectSpill
      PROVE  OnLists'
    <2>1. PICK r, waiting :
            /\ FreezeMoves(r, waiting)
            /\ freeze_worklist \subseteq waiting \cup {r}
            /\ spill_worklist \subseteq spill_worklist' \cup {r}
        BY <1>5 DEF Freeze, SelectSpill
    <2>2. PICK order : FreezeMovesInOrder(r, waiting, order)
        BY <2>1 DEF FreezeMoves
    <2>3. simplify_worklist \cup {r} \cup waiting \subseteq simplify_worklist' \cup freeze_worklist'
        BY <2>2 DEF FreezeMovesInOrder
    <2>4. UNCHANGED in_select_stack
        BY <1>5 DEF Freeze, SelectSpill
    <2>5. lists \subseteq lists'
        BY <2>1, <2>3, <2>4
    <2>6. pc = "loop" /\ UNCHANGED <<pc, coalesced_nodes>>
        BY <1>5 DEF Freeze, CanFreeze, SelectSpill, CanSpill
    <2>7. QED
        BY <2>5, <2>6 DEF OnLists
<1>6. ASSUME LeaveLoop \/ AssignColor \/ FinishAssign
      PROVE  OnLists'
    BY <1>6 DEF LeaveLoop, AssignColor, FinishAssign, OnLists
<1>7. CASE UNCHANGED vars
    BY <1>7 DEF vars, OnLists
<1>8. QED
    BY <1>1, <1>2, <1>3, <1>4, <1>5, <1>6, <1>7 DEF Next

\* A merge makes the ends of its own move one and keeps together what has been
\* merged before.
LEMMA MovesMergedStep ==
    ASSUME TypeOK, MergeInv, MovesMerged, [Next]_vars
    PROVE  MovesMerged'
<1> USE DEF graphVars, moveVars, listVars, stackVars, aliasVars, colorVars
<1>1. CASE CoalesceSame
    <2>1. PICK m \in worklist_moves :
            Ends(m).u = Ends(m).v /\ coalesced_moves' = coalesced_moves \cup {m}
        BY <1>1 DEF CoalesceSame, MoveSame
    <2>2. alias[dst[m]] = alias[src[m]]
        BY <2>1, EndsFacts
    <2>3. UNCHANGED <<alias, dst, src>>
        BY <1>1 DEF CoalesceSame, MoveSame, NoMerge
    <2>4. QED
        BY <2>1, <2>2, <2>3 DEF MovesMerged
<1>2. CASE CoalesceCombine
    <2>1. PICK m \in worklist_moves :
            /\ coalesced_moves' = coalesced_moves \cup {m}
            /\ Combine(m, Ends(m).u, Ends(m).v)
        BY <1>2 DEF CoalesceCombine, MoveCombine
    <2>2. PICK u, v : u = Ends(m).u /\ v = Ends(m).v
        OBVIOUS
    <2>3. \A r \in Reg : alias'[r] = IF alias[r] = v THEN u ELSE alias[r]
        BY <2>1, <2>2 DEF Combine, Redirect
    <2>4. {u, v} = {alias[dst[m]], alias[src[m]]}
        BY <2>2, EndsFacts
    <2>5. UNCHANGED <<dst, src>> /\ \A k \in Move : dst[k] \in Reg /\ src[k] \in Reg
        BY <1>2 DEF CoalesceCombine, MoveCombine, TypeOK
    <2>6. alias'[dst[m]] = alias'[src[m]]
        BY <2>3, <2>4, <2>5 DEF TypeOK
    <2>7. \A k \in coalesced_moves : alias'[dst[k]] = alias'[src[k]]
        BY <2>3, <2>5 DEF MovesMerged, TypeOK
    <2>8. QED
        BY <2>1, <2>5, <2>6, <2>7 DEF MovesMerged
<1>3. CASE ~CoalesceSame /\ ~CoalesceCombine
    <2>1. UNCHANGED <<coalesced_moves, alias, dst, src>>
        BY <1>3
           DEF Next, MakeWorklist, Simplify, CoalesceConstrained, MoveConstrained, CoalesceDefer,
               MoveDefer, NoMerge, Freeze, SelectSpill, LeaveLoop, AssignColor, FinishAssign,
               vars
    <2>2. QED
        BY <2>1 DEF MovesMerged
<1>4. QED
    BY <1>1, <1>2, <1>3

\* When the loop is left all registers of the graph are on the stack, and a
\* move that is still active has no end that could be merged.
LEMMA LeaveSettled ==
    ASSUME TypeOK, MergeInv, StackInv, OnLists, LeaveLoop
    PROVE  StackedOrColored' /\ NoMoveForgotten'
<1> USE DEF graphVars, moveVars, listVars, stackVars, aliasVars, colorVars
<1>1. /\ pc = "loop" /\ pc' = "assign"
      /\ simplify_worklist = {} /\ worklist_moves = {} /\ freeze_worklist = {}
      /\ spill_worklist = {}
      /\ UNCHANGED <<worklist_moves, active_moves, dst, src, coalesced_nodes, alias,
                     select_stack, in_select_stack>>
    BY DEF LeaveLoop, LoopDone
<1>2. Virt \ coalesced_nodes \subseteq in_select_stack
    BY <1>1 DEF OnLists
<1>3. in_select_stack = Range(select_stack)
    BY <1>1 DEF StackInv
<1>4. StackedOrColored'
    BY <1>1, <1>2, <1>3 DEF StackedOrColored
<1>5. ASSUME NEW m \in active_moves, NEW r \in Reg, m \in move_list[alias[r]]
      PROVE  alias[r] \in Phys
    <2>1. alias[r] \in Reg /\ alias[r] \notin coalesced_nodes
        BY DEF TypeOK, MergeInv, AliasInv
    <2>2. m \in NodeMoves(alias[r])
        BY <1>5 DEF NodeMoves
    <2>3. alias[r] \notin in_select_stack
        BY <2>1, <2>2 DEF MergeInv, StackQuiet
    <2>4. QED
        BY <1>2, <2>1, <2>3 DEF Reg
<1>6. ASSUME NEW m \in active_moves
      PROVE  {GetAlias(dst[m]), GetAlias(src[m])} \subseteq Phys
    <2>1. dst[m] \in Reg /\ src[m] \in Reg
        BY DEF TypeOK
    <2>2. m \in move_list[alias[dst[m]]] /\ m \in move_list[alias[src[m]]]
        BY DEF MergeInv, MovesListed
    <2>3. alias[dst[m]] \in Phys /\ alias[src[m]] \in Phys
        BY <1>5, <2>1, <2>2
    <2>4. QED
        BY <2>1, <2>3, AliasIsRoot DEF MergeInv
<1>7. NoMoveForgotten'
    BY <1>1, <1>6 DEF NoMoveForgotten, GetAlias
<1>8. QED
    BY <1>4, <1>7

\* A register that is popped is coloured or spilled, and keeps its colour even
\* if it is popped again.
LEMMA PopSettled ==
    ASSUME TypeOK, StackedOrColored, AssignColor
    PROVE  StackedOrColored'
<1>1. PICK n \in Nat, r \in Reg :
        /\ Range(select_stack) = Range(select_stack') \cup {r}
        /\ \/ spilled_nodes' = spilled_nodes \cup {r} /\ UNCHANGED color
           \/ \E c \in OkColors(r) :
                 /\ color' = [v \in Virt |-> IF v = r THEN c ELSE color[v]]
                 /\ UNCHANGED spilled_nodes
    BY PopFacts
<1>2. pc = "assign" /\ UNCHANGED <<pc, coalesced_nodes>>
    BY DEF AssignColor, aliasVars
<1>3. CASE UNCHANGED color /\ spilled_nodes' = spilled_nodes \cup {r}
    BY <1>1, <1>2, <1>3 DEF StackedOrColored, Colored
<1>4. ASSUME NEW c \in OkColors(r),
             color' = [v \in Virt |-> IF v = r THEN c ELSE color[v]], UNCHANGED spilled_nodes
      PROVE  StackedOrColored'
    <2>1. c # NullPtr
        BY ConstantFacts DEF OkColors
    <2>2. QED
        BY <1>1, <1>2, <1>4, <2>1 DEF StackedOrColored, Colored
<1>5. QED
    BY <1>1, <1>3, <1>4

\* The end of assign_colors: a merged register takes the colour of the one it
\* was merged into.
LEMMA FinishSettled ==
    ASSUME TypeOK, MergeInv, StackedOrColored, MovesMerged, FinishAssign
    PROVE  EveryRegisterSettled' /\ CoalescedMovesVanish'
<1> USE DEF graphVars, moveVars, listVars, stackVars, aliasVars, colorVars
<1>1. /\ pc = "assign" /\ select_stack = <<>>
      /\ color' = [r \in Virt |-> IF r \in coalesced_nodes THEN RootColor(r) ELSE color[r]]
      /\ UNCHANGED <<alias, coalesced_nodes, spilled_nodes, coalesced_moves, dst, src>>
    BY DEF FinishAssign
<1>2. \A r \in Virt \ coalesced_nodes : Colored(r)
    BY <1>1 DEF StackedOrColored, Range
<1>3. ASSUME NEW r \in Reg
      PROVE  /\ alias[r] \in Reg \ coalesced_nodes
             /\ r \in Phys => alias[r] = r
             /\ r \notin coalesced_nodes => alias[r] = r
             /\ GetAlias(r) = alias[r] /\ GetAlias(r)' = alias[r]
             /\ Assigned(r)' = ColorOf(alias[r])
    <2>1. /\ alias[r] \in Reg \ coalesced_nodes /\ GetAlias(r) = alias[r]
          /\ r \notin coalesced_nodes => alias[r] = r
        BY AliasIsRoot DEF TypeOK, MergeInv, AliasInv
    <2>2. GetAlias(r)' = GetAlias(r)
        BY <1>1 DEF GetAlias
    <2>3. r \in Phys => r \notin Virt /\ alias[r] = r
        BY RegisterAssumption DEF MergeInv, AliasInv
    <2>4. r \in Virt => r \notin Phys
        BY RegisterAssumption
    <2>5. Assigned(r)' = ColorOf(alias[r])
        BY <1>1, <2>1, <2>3, <2>4 DEF Assigned, ColorOf, RootColor, Reg
    <2>6. QED
        BY <2>1, <2>2, <2>3, <2>5
<1>4. ASSUME NEW r \in Virt
      PROVE  color'[r] # NullPtr \/ GetAlias(r)' \in spilled_nodes'
    <2>1. r \in Reg
        BY DEF Reg
    <2>2. color'[r] = ColorOf(alias[r])
        BY <1>3, <2>1 DEF Assigned
    <2>3. CASE alias[r] \in Phys
        BY <2>2, <2>3, ConstantFacts DEF ColorOf
    <2>4. CASE alias[r] \notin Phys
        <3>1. alias[r] \in Virt \ coalesced_nodes
            BY <1>3, <2>1, <2>4 DEF Reg
        <3>2. Colored(alias[r])
            BY <1>2, <3>1
        <3>3. QED
            BY <1>1, <1>3, <2>1, <2>2, <2>4, <3>2 DEF Colored, ColorOf
    <2>5. QED
        BY <2>3, <2>4
<1>5. ASSUME NEW m \in coalesced_moves
      PROVE  Assigned(dst[m])' = Assigned(src[m])'
    <2>1. dst[m] \in Reg /\ src[m] \in Reg
        BY DEF TypeOK
    <2>2. alias[dst[m]] = alias[src[m]]
        BY DEF MovesMerged
    <2>3. Assigned(dst[m])' = ColorOf(alias[dst[m]])
        BY <1>1, <1>3, <2>1
    <2>4. Assigned(src[m])' = ColorOf(alias[src[m]])
        BY <1>1, <1>3, <2>1
    <2>5. QED
        BY <2>2, <2>3, <2>4
<1>6. QED
    BY <1>1, <1>4, <1>5 DEF EveryRegisterSettled, CoalescedMovesVanish, Assigned

LEMMA SettledStep ==
    TypeOK /\ MergeInv /\ ColorInv /\ SettledInv /\ [Next]_vars => SettledInv'
<1> SUFFICES ASSUME TypeOK, MergeInv, ColorInv, SettledInv, [Next]_vars
             PROVE  SettledInv'
    OBVIOUS
<1> USE DEF graphVars, moveVars, listVars, stackVars, aliasVars, colorVars
<1>1. OnLists' /\ MovesMerged'
    BY ListsStep, MovesMergedStep DEF SettledInv
<1>2. CASE pc \in {"make", "loop"} /\ ~LeaveLoop
    <2>1. pc' \in {"make", "loop"}
        BY <1>2
           DEF Next, MakeWorklist, Simplify, CoalesceSame, MoveSame, CoalesceConstrained,
               MoveConstrained, CoalesceCombine, MoveCombine, CoalesceDefer, MoveDefer, NoMerge,
               CanSimplify, CanCoalesce, Freeze, CanFreeze, SelectSpill, CanSpill,
               AssignColor, FinishAssign, vars
    <2>2. QED
        BY <1>1, <2>1
           DEF SettledInv, StackedOrColored, EveryRegisterSettled, NoMoveForgotten,
               CoalescedMovesVanish
<1>3. CASE LeaveLoop
    <2>1. pc' = "assign"
        BY <1>3 DEF LeaveLoop
    <2>2. QED
        BY <1>1, <1>3, <2>1, LeaveSettled
           DEF ColorInv, SettledInv, EveryRegisterSettled, CoalescedMovesVanish
<1>4. ASSUME AssignColor \/ FinishAssign
      PROVE  NoMoveForgotten'
    <2>1. /\ pc = "assign"
          /\ UNCHANGED <<worklist_moves, active_moves, dst, src, coalesced_nodes, alias>>
        BY <1>4 DEF AssignColor, FinishAssign
    <2>2. QED
        BY <2>1 DEF SettledInv, NoMoveForgotten, GetAlias
<1>5. CASE AssignColor
    <2>1. pc' = "assign"
        BY <1>5 DEF AssignColor
    <2>2. StackedOrColored'
        BY <1>5, PopSettled DEF SettledInv
    <2>3. QED
        BY <1>1, <1>4, <1>5, <2>1, <2>2
           DEF SettledInv, EveryRegisterSettled, CoalescedMovesVanish
<1>6. CASE FinishAssign
    <2>1. pc' = "done"
        BY <1>6 DEF FinishAssign
    <2>2. EveryRegisterSettled' /\ CoalescedMovesVanish'
        BY <1>6, FinishSettled DEF SettledInv
    <2>3. QED
        BY <1>1, <1>4, <1>6, <2>1, <2>2 DEF SettledInv, StackedOrColored
<1>7. CASE UNCHANGED vars
    BY <1>7
       DEF vars, SettledInv, OnLists, StackedOrColored, Colored, MovesMerged,
           EveryRegisterSettled, NoMoveForgotten, CoalescedMovesVanish, Assigned, GetAlias
<1>8. pc \in {"make", "loop"} \/ AssignColor \/ FinishAssign \/ UNCHANGED vars
    BY DEF Next, MakeWorklist, Simplify, CanSimplify, CoalesceSame, MoveSame,
           CoalesceConstrained, MoveConstrained, CoalesceCombine, MoveCombine,
           CoalesceDefer, MoveDefer, CanCoalesce, Freeze, CanFreeze, SelectSpill,
           CanSpill, LeaveLoop
<1>9. QED
    BY <1>2, <1>3, <1>5, <1>6, <1>7, <1>8

LEMMA SettledInvariance == Spec => []SettledInv
    BY InitType, StepType, InitMerge, MergeStep, InitColor, ColorStep, InitSettled, SettledStep,
       PTL DEF Spec

\* However the work lists are served, a register that is not merged reaches
\* the stack, and one that leaves it is coloured or spilled.
THEOREM NoRegisterForgotten == Spec => []EveryRegisterSettled
<1>1. SettledInv => EveryRegisterSettled
    BY DEF SettledInv
<1>2. QED
    BY <1>1, SettledInvariance, PTL

\* When the loop ends a move that is still active joins registers merged into
\* physical ones: freeze and simplify never strand a move that might have been
\* coalesced.
THEOREM EveryMoveDecided == Spec => []NoMoveForgotten
<1>1. SettledInv => NoMoveForgotten
    BY DEF SettledInv
<1>2. QED
    BY <1>1, SettledInvariance, PTL

\* The operands of every coalesced move get the same physical register, so
\* that the move prints as nothing.
THEOREM CoalescedShareColor == Spec => []CoalescedMovesVanish
<1>1. SettledInv => CoalescedMovesVanish
    BY DEF SettledInv
<1>2. QED
    BY <1>1, SettledInvariance, PTL

-----------------------------------------------------------------------------
\* Only registers of the graph have been simplified, each of them once.
SimplifiedOnce ==
    in_select_stack \cap (Phys \cup coalesced_nodes) = {} /\ IsInjective(select_stack)

Remaining == Virt \ (coalesced_nodes \cup in_select_stack)

DegreeInv ==
    pc \in {"make", "loop"} /\ SimplifiedOnce =>
        \A r \in Remaining : degree[r] = Cardinality(Adjacent(r))

-----------------------------------------------------------------------------
\* Sets of registers are finite.
LEMMA RegistersFinite == \A S \in SUBSET Reg : IsFiniteSet(S) /\ Cardinality(S) \in Nat
    BY ConstantFacts, FS_Subset, FS_CardinalityType

\* Two registers still in the graph are each other's neighbours or neither is,
\* and none is its own.
LEMMA AdjacentFacts ==
    ASSUME TypeOK, MergeInv, NEW r \in Remaining
    PROVE  /\ Adjacent(r) \in SUBSET Reg
           /\ r \in Reg /\ r \notin Adjacent(r)
           /\ \A t : t \in Adjacent(r) <=>
                  t \in Reg /\ <<r, t>> \in edges /\ t \notin coalesced_nodes \cup in_select_stack
           /\ \A t \in Remaining : t \in Adjacent(r) <=> r \in Adjacent(t)
           /\ \A t \in Reg : <<r, t>> \in edges <=> <<t, r>> \in edges
<1>1. r \in Virt /\ r \in Reg /\ r \notin coalesced_nodes /\ r \notin in_select_stack
    BY DEF Remaining, Reg
<1>2. \A t : t \in Adjacent(r) <=>
          t \in Reg /\ <<r, t>> \in edges /\ t \notin coalesced_nodes \cup in_select_stack
    BY <1>1 DEF Adjacent, Graph, Neighbours
<1>3. <<r, r>> \notin edges
    BY DEF MergeInv, RootsApart
<1>4. \A t \in Reg : <<r, t>> \in edges <=> <<t, r>> \in edges
    BY DEF MergeInv, Symmetric
<1>5. ASSUME NEW t \in Remaining
      PROVE  t \in Adjacent(r) <=> r \in Adjacent(t)
    <2>1. t \in Virt /\ t \in Reg /\ t \notin coalesced_nodes /\ t \notin in_select_stack
        BY DEF Remaining, Reg
    <2>2. r \in Adjacent(t) <=> <<t, r>> \in edges
        BY <1>1, <2>1 DEF Adjacent, Graph, Neighbours
    <2>3. QED
        BY <1>2, <1>4, <2>1, <2>2
<1>6. QED
    BY <1>1, <1>2, <1>3, <1>4, <1>5

LEMMA InitDegree == Init => DegreeInv
<1> SUFFICES ASSUME NEW g \in Input, edges = g.edges,
                    degree = [r \in Reg |-> Cardinality(Graph(g.edges, r))],
                    coalesced_nodes = {}, in_select_stack = {}
             PROVE  DegreeInv
    BY DEF Init
<1>1. \A r \in Virt : degree[r] = Cardinality(Adjacent(r))
    BY DEF Adjacent, Reg
<1>2. QED
    BY <1>1 DEF DegreeInv, Remaining

\* A register that is pushed leaves the neighbourhoods it was in, and the
\* counters of just these neighbours fall by one.
LEMMA SimplifyDegree ==
    ASSUME TypeOK, MergeInv, StackInv, DegreeInv, Simplify
    PROVE  DegreeInv'
<1> USE DEF graphVars, moveVars, listVars, stackVars, aliasVars, colorVars
<1>1. PICK r \in simplify_worklist :
        /\ select_stack' = Append(select_stack, r)
        /\ in_select_stack' = in_select_stack \cup {r}
        /\ degree' = [t \in Reg |-> IF t \in Adjacent(r) THEN degree[t] - 1 ELSE degree[t]]
    BY DEF Simplify
<1>2. UNCHANGED <<edges, coalesced_nodes>> /\ pc = "loop"
    BY DEF Simplify, CanSimplify
<1>3. SUFFICES ASSUME SimplifiedOnce', NEW t \in Remaining'
               PROVE  degree'[t] = Cardinality(Adjacent(t))'
    BY DEF DegreeInv
<1>4. r \in Virt /\ r \notin coalesced_nodes
    BY <1>1, <1>2, <1>3 DEF SimplifiedOnce, TypeOK, Reg
<1>5. IsInjective(select_stack) /\ r \notin Range(select_stack)
    <2>1. select_stack \in Seq(Reg) /\ r \in Reg
        BY DEF TypeOK
    <2>2. PICK n \in Nat : n = Len(select_stack)
        BY <2>1
    <2>3. /\ DOMAIN select_stack = 1 .. n /\ DOMAIN select_stack' = 1 .. n + 1
          /\ select_stack'[n + 1] = r
          /\ \A i \in 1 .. n : select_stack'[i] = select_stack[i]
        BY <1>1, <2>1, <2>2
    <2>4. \A i \in 1 .. n : i \in 1 .. n + 1 /\ i # n + 1 /\ n + 1 \in 1 .. n + 1
        BY <2>2
    <2>5. \A a, b \in 1 .. n + 1 : select_stack'[a] = select_stack'[b] => a = b
        BY <1>3, <2>3 DEF SimplifiedOnce, IsInjective
    <2>6. IsInjective(select_stack)
        BY <2>3, <2>4, <2>5 DEF IsInjective
    <2>7. \A i \in 1 .. n : select_stack[i] # r
        BY <2>3, <2>4, <2>5
    <2>8. QED
        BY <2>3, <2>6, <2>7 DEF Range
<1>6. r \notin in_select_stack
    BY <1>2, <1>5 DEF StackInv
<1>7. SimplifiedOnce /\ r \in Remaining /\ t \in Remaining /\ t # r
    BY <1>1, <1>2, <1>3, <1>4, <1>5, <1>6 DEF SimplifiedOnce, Remaining
<1>8. degree[t] = Cardinality(Adjacent(t))
    BY <1>2, <1>7 DEF DegreeInv
<1>9. Adjacent(t)' = Adjacent(t) \ {r}
    BY <1>1, <1>2 DEF Adjacent
<1>10. /\ t \in Reg /\ (t \in Adjacent(r) <=> r \in Adjacent(t))
       /\ IsFiniteSet(Adjacent(t)) /\ Cardinality(Adjacent(t)) \in Nat
    BY <1>7, AdjacentFacts, RegistersFinite
<1>11. Cardinality(Adjacent(t) \ {r}) =
          IF r \in Adjacent(t) THEN Cardinality(Adjacent(t)) - 1 ELSE Cardinality(Adjacent(t))
    BY <1>10, FS_RemoveElement
<1>12. QED
    BY <1>1, <1>8, <1>9, <1>10, <1>11

\* A merge: u gains the neighbours it did not have, and each neighbour of v
\* loses v and gains u unless it had it.
LEMMA CombineDegree ==
    ASSUME TypeOK, MergeInv, DegreeInv, pc = "loop",
           NEW m \in worklist_moves, NEW u \in Reg, NEW v \in Virt,
           u # v, u \notin coalesced_nodes, v \notin coalesced_nodes,
           u \notin in_select_stack, v \notin in_select_stack,
           <<u, v>> \notin edges, Combine(m, u, v)
    PROVE  DegreeInv'
<1> DEFINE near  == Adjacent(v)
           fresh == NewNeighbours(u, near)
           grown == [r \in Reg |->
                       IF r \in Phys THEN degree[r]
                       ELSE IF r = u THEN degree[r] + Cardinality(fresh)
                       ELSE IF r \in fresh THEN degree[r] + 1 ELSE degree[r]]
<1>1. /\ coalesced_nodes' = coalesced_nodes \cup {v}
      /\ UNCHANGED <<in_select_stack, select_stack>>
      /\ edges' = edges \cup (fresh \X {u}) \cup ({u} \X fresh)
      /\ degree' = [r \in Reg |-> IF r \in near THEN grown[r] - 1 ELSE grown[r]]
    BY DEF Combine
<1>2. SUFFICES ASSUME SimplifiedOnce', NEW r \in Remaining'
               PROVE  degree'[r] = Cardinality(Adjacent(r))'
    BY DEF DegreeInv
<1>3. SimplifiedOnce /\ v \in Remaining /\ r \in Remaining /\ r # v
    BY <1>1, <1>2 DEF SimplifiedOnce, Remaining
<1>4. r \in Reg /\ r \in Virt /\ r \notin Phys /\ r \notin coalesced_nodes
      /\ r \notin in_select_stack
    BY <1>3, RegisterAssumption DEF Remaining, Reg
<1>5. degree[r] = Cardinality(Adjacent(r)) /\ degree[r] \in Int
    BY <1>3, <1>4 DEF DegreeInv, TypeOK
<1>6. /\ near \in SUBSET Reg /\ v \notin near /\ u \notin near
      /\ r \in near <=> v \in Adjacent(r)
      /\ \A t \in near : t \notin coalesced_nodes /\ t \notin in_select_stack
    <2>1. <<v, u>> \notin edges
        BY DEF MergeInv, Symmetric
    <2>2. QED
        BY <1>3, <2>1, AdjacentFacts
<1>7. fresh \in SUBSET near /\ \A t \in near : t \in fresh <=> <<t, u>> \notin edges
    BY DEF NewNeighbours
<1> HIDE DEF near
<1>8. IsFiniteSet(fresh) /\ Cardinality(fresh) \in Nat
    BY <1>6, <1>7, RegistersFinite
<1>9. /\ Adjacent(r) \in SUBSET Reg
      /\ IsFiniteSet(Adjacent(r)) /\ Cardinality(Adjacent(r)) \in Nat
      /\ \A t : t \in Adjacent(r) <=>
             t \in Reg /\ <<r, t>> \in edges /\ t \notin coalesced_nodes \cup in_select_stack
      /\ \A t \in Reg : <<r, t>> \in edges <=> <<t, r>> \in edges
    BY <1>3, AdjacentFacts, RegistersFinite
<1> HIDE DEF fresh
<1>10. ASSUME NEW t
       PROVE  t \in Adjacent(r)' <=>
                 /\ t \in Reg /\ t # v /\ t \notin coalesced_nodes \cup in_select_stack
                 /\ <<r, t>> \in edges \/ (r \in fresh /\ t = u) \/ (r = u /\ t \in fresh)
    <2>1. t \in Adjacent(r)' <=>
             /\ t \in Reg /\ <<r, t>> \in edges'
             /\ t \notin coalesced_nodes' /\ t \notin in_select_stack'
        BY <1>4 DEF Adjacent, Graph, Neighbours
    <2>2. <<r, t>> \in edges' <=>
             <<r, t>> \in edges \/ (r \in fresh /\ t = u) \/ (r = u /\ t \in fresh)
        BY <1>1
    <2>3. QED
        BY <1>1, <2>1, <2>2
<1>11. CASE r = u
    <2>1. r \notin near /\ v \notin Adjacent(r)
        BY <1>6, <1>11
    <2>2. Adjacent(r)' = Adjacent(r) \cup fresh
        BY <1>6, <1>7, <1>9, <1>10, <1>11, <2>1
    <2>3. Adjacent(r) \cap fresh = {}
        BY <1>6, <1>7, <1>9, <1>11
    <2>4. Cardinality(Adjacent(r) \cup fresh) = Cardinality(Adjacent(r)) + Cardinality(fresh)
        <3>1. Cardinality(Adjacent(r) \cup fresh) = Cardinality(Adjacent(r))
                 + Cardinality(fresh) - Cardinality(Adjacent(r) \cap fresh)
            BY <1>8, <1>9, FS_Union
        <3>2. Cardinality(Adjacent(r) \cap fresh) = 0
            BY <2>3, FS_EmptySet
        <3>3. QED
            BY <1>8, <1>9, <3>1, <3>2
    <2>5. degree'[r] = degree[r] + Cardinality(fresh)
        BY <1>1, <1>4, <1>11, <2>1
    <2>6. QED
        BY <1>5, <2>2, <2>4, <2>5
<1>12. CASE r # u /\ r \in near
    <2>1. Cardinality(Adjacent(r) \ {v}) = Cardinality(Adjacent(r)) - 1
          /\ IsFiniteSet(Adjacent(r) \ {v})
        BY <1>6, <1>9, <1>12, FS_RemoveElement
    <2>2. CASE r \in fresh
        <3>1. u \notin Adjacent(r)
            BY <1>7, <1>9, <1>12, <2>2
        <3>2. Adjacent(r)' = (Adjacent(r) \ {v}) \cup {u}
            BY <1>9, <1>10, <1>12, <2>2
        <3>3. Cardinality((Adjacent(r) \ {v}) \cup {u}) = Cardinality(Adjacent(r) \ {v}) + 1
            BY <2>1, <3>1, FS_AddElement
        <3>4. grown[r] = degree[r] + 1
            BY <1>4, <1>12, <2>2
        <3>5. degree'[r] = grown[r] - 1
            <4> HIDE DEF grown
            <4> QED  BY <1>1, <1>4, <1>12
        <3>6. QED
            BY <1>5, <1>9, <2>1, <3>2, <3>3, <3>4, <3>5
    <2>3. CASE r \notin fresh
        <3>1. Adjacent(r)' = Adjacent(r) \ {v}
            BY <1>9, <1>10, <1>12, <2>3
        <3>2. degree'[r] = degree[r] - 1
            BY <1>1, <1>4, <1>12, <2>3
        <3>3. QED
            BY <1>5, <2>1, <3>1, <3>2
    <2>4. QED
        BY <2>2, <2>3
<1>13. CASE r # u /\ r \notin near
    <2>1. r \notin fresh /\ v \notin Adjacent(r)
        BY <1>6, <1>7, <1>13
    <2>2. Adjacent(r)' = Adjacent(r)
        BY <1>9, <1>10, <1>13, <2>1
    <2>3. degree'[r] = degree[r]
        BY <1>1, <1>4, <1>13, <2>1
    <2>4. QED
        BY <1>5, <2>2, <2>3
<1>14. QED
    BY <1>11, <1>12, <1>13

LEMMA DegreeStep == TypeOK /\ MergeInv /\ ColorInv /\ DegreeInv /\ [Next]_vars => DegreeInv'
<1> SUFFICES ASSUME TypeOK, MergeInv, ColorInv, DegreeInv, [Next]_vars
             PROVE  DegreeInv'
    OBVIOUS
<1> USE DEF graphVars, moveVars, listVars, stackVars, aliasVars, colorVars
<1>1. CASE Simplify
    BY <1>1, SimplifyDegree DEF ColorInv
<1>2. CASE CoalesceCombine
    <2>1. PICK m \in worklist_moves :
            /\ Ends(m).u # Ends(m).v /\ ~Constrained(Ends(m).u, Ends(m).v)
            /\ Combine(m, Ends(m).u, Ends(m).v)
        BY <1>2 DEF CoalesceCombine, MoveCombine
    <2>2. Ends(m).v \in Virt /\ <<Ends(m).u, Ends(m).v>> \notin edges
        BY <2>1, EndsFacts DEF Constrained, Reg
    <2>3. pc = "loop"
        BY <1>2 DEF CoalesceCombine, CanCoalesce
    <2>4. QED
        BY <2>1, <2>2, <2>3, EndsFacts, CombineDegree
<1>3. CASE ~Simplify /\ ~CoalesceCombine /\ pc' \in {"make", "loop"}
    <2>1. /\ UNCHANGED <<edges, degree, coalesced_nodes, select_stack, in_select_stack>>
          /\ pc \in {"make", "loop"}
        BY <1>3
           DEF Next, MakeWorklist, CoalesceSame, MoveSame, CoalesceConstrained, MoveConstrained,
               CoalesceDefer, MoveDefer, NoMerge, CanCoalesce, Freeze, CanFreeze, SelectSpill,
               CanSpill, LeaveLoop, AssignColor, FinishAssign, vars
    <2>2. QED
        BY <2>1 DEF DegreeInv, SimplifiedOnce, Remaining, Adjacent
<1>4. CASE pc' \notin {"make", "loop"}
    BY <1>4 DEF DegreeInv
<1>5. QED
    BY <1>1, <1>2, <1>3, <1>4

\* The stored degrees are the true ones whatever is simplified and merged, as
\* long as only registers of the graph are simplified, each of them once: what
\* the tests of coalesce and the work lists go by is then no estimate.
THEOREM DegreesFollowGraph == Spec => []DegreesExact
<1>1. DegreeInv => DegreesExact
    BY DEF DegreeInv, DegreesExact, SimplifiedOnce, Remaining
<1>2. QED
    BY <1>1, InitType, StepType, InitMerge, MergeStep, InitColor, ColorStep, InitDegree,
       DegreeStep, PTL DEF Spec
=============================================================================
