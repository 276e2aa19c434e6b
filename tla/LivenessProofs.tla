--------------------------- MODULE LivenessProofs ---------------------------
(***************************************************************************)
(* Liveness analysis is correct for every function that satisfies          *)
(* LivenessAssumption, whatever its blocks, registers and code: the result *)
(* solves the data-flow equations, holds every register that is live and   *)
(* no other.                                                               *)
(***************************************************************************)
EXTENDS LivenessAnalysis, FiniteSetTheorems, TLAPS

\* What LivenessAssumption says of a function of Func.
LEMMA FuncFacts ==
    ASSUME NEW f \in Func
    PROVE  /\ f.code \in [Block -> Seq(Instr)]
           /\ f.succ \in [Block -> SUBSET Block]
           /\ f.succ[Epilogue] = {}
           /\ Pre(f, Prologue) = {}
           /\ ReachesEpilogue(f)
           /\ FP \in BlockUse(f.code[Epilogue])
           /\ \A b \in Block \ {Prologue, Epilogue} : FP \notin BlockDef(f.code[b])
    BY LivenessAssumption DEF FuncAssumption

\* The elements of a queue are its head and the elements of its tail.
LEMMA HeadTail ==
    ASSUME NEW S, NEW q \in Seq(S), q # <<>>
    PROVE  /\ Head(q) \in S
           /\ Tail(q) \in Seq(S)
           /\ \A x \in Range(q) : x = Head(q) \/ x \in Range(Tail(q))
<1>1. Head(q) \in S /\ Tail(q) \in Seq(S)
    OBVIOUS
<1>2. ASSUME NEW x \in Range(q), x # Head(q)
      PROVE  x \in Range(Tail(q))
    <2>1. PICK k \in 1 .. Len(q) : q[k] = x
        BY <1>2 DEF Range
    <2>2. k # 1 /\ k - 1 \in 1 .. Len(Tail(q)) /\ Tail(q)[k - 1] = x
        BY <2>1, <1>2
    <2>3. k - 1 \in DOMAIN Tail(q)
        BY <2>2, <1>1
    <2>4. QED
        BY <2>2, <2>3 DEF Range
<1>3. QED
    BY <1>1, <1>2

\* Appending an ordering of S to a queue adds exactly the elements of S.
LEMMA AppendOrder ==
    ASSUME NEW T, NEW q \in Seq(T), NEW S \in SUBSET T, IsFiniteSet(S),
           NEW order \in Orders(S)
    PROVE  /\ q \o order \in Seq(T)
           /\ \A x \in T : x \in Range(q) \/ x \in S => x \in Range(q \o order)
<1>1. Cardinality(S) \in Nat
    BY FS_CardinalityType
<1>2. order \in [1 .. Cardinality(S) -> S] /\ \A x \in S : \E k \in 1 .. Cardinality(S) : order[k] = x
    BY DEF Orders, Bijection, Injection, Surjection
<1>3. order \in Seq(T) /\ Len(order) = Cardinality(S)
    BY <1>1, <1>2
<1>4. q \o order \in Seq(T)
    BY <1>3
<1>5. ASSUME NEW x \in Range(q)
      PROVE  x \in Range(q \o order)
    <2>1. PICK k \in 1 .. Len(q) : q[k] = x
        BY <1>5 DEF Range
    <2>2. k \in 1 .. Len(q \o order) /\ (q \o order)[k] = x
        BY <2>1, <1>3
    <2>3. QED
        BY <2>2, <1>4 DEF Range
<1>6. ASSUME NEW x \in S
      PROVE  x \in Range(q \o order)
    <2>1. PICK k \in 1 .. Cardinality(S) : order[k] = x
        BY <1>2
    <2>2. Len(q) + k \in 1 .. Len(q \o order) /\ (q \o order)[Len(q) + k] = x
        BY <2>1, <1>1, <1>3
    <2>3. QED
        BY <2>2, <1>4 DEF Range
<1>7. QED
    BY <1>4, <1>5, <1>6
-----------------------------------------------------------------------------
(***************************************************************************)
(* The inductive invariant.                                                *)
(***************************************************************************)

\* use and def are those of the function analysed.
InputInv ==
    /\ func \in Func
    /\ use = [b \in Block |-> BlockUse(func.code[b])]
    /\ def = [b \in Block |-> BlockDef(func.code[b])]

\* A block that is not queued agrees with its successors, and its own
\* equation holds unless nothing is live after it yet; the epilogue's holds
\* in any case, because the queue starts with it.
QueueInv ==
    \A b \in Block \ Range(worklist) :
        /\ live_out[b] = LiveOutOf(live_in, b)
        /\ live_in[b] = LiveInOf(live_out[b], b) \/ (live_out[b] = {} /\ b # Epilogue)

\* Recomputing a live-in set can only make it grow.
GrowInv ==
    \A b \in Block : live_in[b] \subseteq LiveInOf(LiveOutOf(live_in, b), b)

IInv == TypeOK /\ InputInv /\ QueueInv /\ GrowInv /\ NeverTooLive

\* What an instruction reads and writes are registers: the zero register is
\* neither.
LEMMA InstrType ==
    ASSUME NEW i \in Instr
    PROVE  GetUse(i) \subseteq Reg /\ GetDef(i) \subseteq Reg
<1>1. i.tag \in Tag /\ i.ops \in Seq(Reg \cup {Zero}) /\ i.implicit \subseteq Phys
    BY DEF Instr
<1>2. Range(i.ops) \subseteq Reg \cup {Zero}
    BY <1>1 DEF Range
<1>3. HasDst(i) => i.ops[1] \in Range(i.ops)
    BY <1>1 DEF Range, Instr
<1>4. CalleeSaved \subseteq Reg /\ CallerSaved \cup {RA} \subseteq Reg
    BY MachineAssumption DEF Reg
<1>5. GetUse(i) \subseteq Reg
    BY <1>1, <1>2, <1>4 DEF GetUse, Reg
<1>6. GetDef(i) \subseteq Reg
    BY <1>2, <1>3, <1>4 DEF GetDef, HasDst
<1>7. QED
    BY <1>5, <1>6

\* What a block reads and writes are registers.
LEMMA UseDefType ==
    ASSUME NEW code \in Seq(Instr)
    PROVE  BlockUse(code) \subseteq Reg /\ BlockDef(code) \subseteq Reg
<1>1. \A k \in DOMAIN code : code[k] \in Instr
    OBVIOUS
<1>2. \A k \in DOMAIN code : GetUse(code[k]) \subseteq Reg /\ GetDef(code[k]) \subseteq Reg
    BY <1>1, InstrType
<1>3. QED
    BY <1>2 DEF BlockUse, BlockDef

\* A larger live-in function gives larger live-in sets.
LEMMA FlowMonotone ==
    ASSUME IInv, NEW in, NEW b \in Block,
           \A c \in Block : live_in[c] \subseteq in[c]
    PROVE  LiveInOf(LiveOutOf(live_in, b), b) \subseteq LiveInOf(LiveOutOf(in, b), b)
<1>1. func.succ[b] \subseteq Block
    BY FuncFacts DEF IInv, InputInv
<1>2. LiveOutOf(live_in, b) \subseteq LiveOutOf(in, b)
    BY <1>1 DEF LiveOutOf
<1>3. QED
    BY <1>2 DEF LiveInOf

LEMMA InitIInv == Init => IInv
<1> SUFFICES ASSUME Init
             PROVE  IInv
    OBVIOUS
<1> USE DEF Init
<1>1. TypeOK
    <2>1. \A b \in Block : func.code[b] \in Seq(Instr)
        BY FuncFacts
    <2>2. \A b \in Block : use[b] \subseteq Reg /\ def[b] \subseteq Reg
        BY <2>1, UseDefType
    <2>3. QED
        BY <2>2, LivenessAssumption DEF TypeOK
<1>2. InputInv
    BY DEF InputInv
<1>3. QueueInv
    <2>1. Epilogue \in Range(worklist)
        BY DEF Range
    <2>2. ASSUME NEW b \in Block
          PROVE  live_out[b] = LiveOutOf(live_in, b)
        BY <1>2, FuncFacts DEF LiveOutOf, InputInv
    <2>3. QED
        BY <2>1, <2>2 DEF QueueInv
<1>4. GrowInv
    BY DEF GrowInv
<1>5. NeverTooLive
    BY DEF NeverTooLive
<1>6. QED
    BY <1>1, <1>2, <1>3, <1>4, <1>5 DEF IInv

\* One iteration of the loop preserves the invariant.
LEMMA VisitIInv ==
    ASSUME IInv, Visit
    PROVE  IInv'
<1> DEFINE b      == Head(worklist)
           rest   == Tail(worklist)
           out    == LiveOutOf(live_in, b)
           new_in == LiveInOf(out, b)
<1> USE DEF IInv
<1>1. /\ worklist # <<>> /\ worklist \in Seq(Block)
      /\ live_out' = [live_out EXCEPT ![b] = out]
      /\ live_in' = [live_in EXCEPT ![b] = new_in]
      /\ func' = func /\ use' = use /\ def' = def
    BY DEF Visit, TypeOK
<1>2. /\ b \in Block /\ rest \in Seq(Block)
      /\ \A c \in Range(worklist) : c = b \/ c \in Range(rest)
    BY <1>1, HeadTail
<1>3. func \in Func /\ func.succ \in [Block -> SUBSET Block]
    BY FuncFacts DEF InputInv
<1>4. /\ worklist' \in Seq(Block)
      /\ \A c \in Range(rest) : c \in Range(worklist')
      /\ new_in # live_in[b] => \A c \in Pre(func, b) : c \in Range(worklist')
    <2>1. CASE new_in = live_in[b]
        BY <2>1, <1>2 DEF Visit, Requeue
    <2>2. CASE new_in # live_in[b]
        <3> DEFINE fresh == Pre(func, b) \ Range(rest)
        <3>1. PICK order \in Orders(fresh) : worklist' = rest \o order
            BY <2>2 DEF Visit, Requeue
        <3>2. fresh \in SUBSET Block /\ IsFiniteSet(fresh)
            BY FS_Subset, LivenessAssumption DEF Pre
        <3>3. /\ worklist' \in Seq(Block)
              /\ \A c \in Block : c \in Range(rest) \/ c \in fresh => c \in Range(worklist')
            <4> HIDE DEF fresh
            <4>1. QED
                BY <3>1, <3>2, <1>2, AppendOrder
        <3>4. Range(rest) \subseteq Block
            BY <1>2 DEF Range
        <3>5. QED
            BY <3>3, <3>4 DEF Pre
    <2>3. QED
        BY <2>1, <2>2
<1>5. out \subseteq Reg /\ new_in \subseteq Reg
    BY <1>2, <1>3 DEF TypeOK, LiveOutOf, LiveInOf
<1>6. \A c \in Block : live_in[c] \subseteq live_in'[c]
    BY <1>1, <1>2 DEF GrowInv, TypeOK
<1>7. TypeOK'
    BY <1>1, <1>4, <1>5 DEF TypeOK
<1>8. InputInv'
    BY <1>1 DEF InputInv
<1>9. QueueInv'
    <2> SUFFICES ASSUME NEW c \in Block, c \notin Range(worklist')
                 PROVE  /\ live_out'[c] = LiveOutOf(live_in, c)'
                        /\ live_in'[c] = LiveInOf(live_out[c], c)'
                              \/ (live_out'[c] = {} /\ c # Epilogue)
        BY DEF QueueInv
    <2>1. live_in[b] = new_in \/ b \notin func.succ[c]
        BY <1>4 DEF Pre
    <2>2. \A s \in func.succ[c] : live_in'[s] = live_in[s]
        BY <2>1, <1>1, <1>2, <1>3 DEF TypeOK
    <2>3. LiveOutOf(live_in, c)' = LiveOutOf(live_in, c)
        BY <2>2, <1>1 DEF LiveOutOf
    <2>4. CASE c = b
        BY <2>3, <2>4, <1>1 DEF LiveInOf, TypeOK
    <2>5. CASE c # b
        <3>1. c \notin Range(worklist)
            BY <2>5, <1>2, <1>4
        <3>2. live_out'[c] = live_out[c] /\ live_in'[c] = live_in[c]
            BY <2>5, <1>1 DEF TypeOK
        <3>3. QED
            BY <3>1, <3>2, <2>3, <1>1 DEF QueueInv, LiveInOf
    <2>6. QED
        BY <2>4, <2>5
<1>10. GrowInv'
    <2> SUFFICES ASSUME NEW c \in Block
                 PROVE  live_in'[c] \subseteq LiveInOf(LiveOutOf(live_in', c), c)
        BY <1>1 DEF GrowInv, LiveInOf, LiveOutOf
    <2>1. LiveInOf(LiveOutOf(live_in, c), c) \subseteq LiveInOf(LiveOutOf(live_in', c), c)
        BY <1>6, FlowMonotone
    <2>2. live_in'[c] \subseteq LiveInOf(LiveOutOf(live_in, c), c)
        BY <1>1, <1>2 DEF GrowInv, TypeOK
    <2>3. QED
        BY <2>1, <2>2
<1>11. NeverTooLive'
    <2> SUFFICES ASSUME NEW c \in Block, NEW r \in live_in'[c],
                        NEW Z \in SUBSET Block, ReadsAhead(r, Z)
                 PROVE  c \in Z
        BY <1>1 DEF NeverTooLive, LiveAt, ReadsAhead
    <2>1. CASE c # b
        BY <2>1, <1>1 DEF NeverTooLive, LiveAt, TypeOK
    <2>2. CASE c = b
        <3>1. r \in use[b] \/ (r \notin def[b] /\ r \in out)
            BY <2>2, <1>1, <1>2 DEF LiveInOf, TypeOK
        <3>2. CASE r \in use[b]
            BY <3>2, <2>2, <1>2 DEF ReadsAhead
        <3>3. CASE r \notin def[b] /\ r \in out
            <4>1. PICK s \in func.succ[b] : r \in live_in[s]
                BY <3>3 DEF LiveOutOf
            <4>2. s \in Z
                BY <4>1, <1>2, <1>3 DEF NeverTooLive, LiveAt
            <4>3. QED
                BY <4>1, <4>2, <3>3, <2>2, <1>2 DEF ReadsAhead
        <3>4. QED
            BY <3>1, <3>2, <3>3
    <2>3. QED
        BY <2>1, <2>2
<1>12. QED
    BY <1>7, <1>8, <1>9, <1>10, <1>11

LEMMA StepIInv == IInv /\ [Next]_vars => IInv'
<1> SUFFICES ASSUME IInv, [Next]_vars
             PROVE  IInv'
    OBVIOUS
<1>1. CASE Visit
    BY <1>1, VisitIInv
<1>2. CASE UNCHANGED vars
    BY <1>2 DEF vars, IInv, TypeOK, InputInv, QueueInv, GrowInv, NeverTooLive,
                LiveAt, ReadsAhead, LiveOutOf, LiveInOf
<1>3. QED
    BY <1>1, <1>2 DEF Next

LEMMA Invariance == Spec => []IInv
<1>1. Init => IInv
    BY InitIInv
<1>2. IInv /\ [Next]_vars => IInv'
    BY StepIInv
<1>3. QED
    BY <1>1, <1>2, PTL DEF Spec
-----------------------------------------------------------------------------
(***************************************************************************)
(* The theorems.                                                           *)
(***************************************************************************)

\* Every variable keeps its type.
THEOREM TypeCorrect == Spec => []TypeOK
    BY Invariance, PTL DEF IInv

\* No live-in set ever holds a register that no later block reads.
THEOREM LivenessSound == Spec => []NeverTooLive
    BY Invariance, PTL DEF IInv

\* With the queue empty every equation holds: the blocks whose equation holds
\* and after which FP is live include the epilogue and, with a block, its
\* predecessors.
LEMMA SolutionAtEnd == IInv => DataflowSolution
<1> SUFFICES ASSUME IInv, Done
             PROVE  \A b \in Block : /\ live_out[b] = LiveOutOf(live_in, b)
                                     /\ live_in[b] = LiveInOf(live_out[b], b)
    BY DEF DataflowSolution
<1> DEFINE Z == {b \in Block : /\ live_in[b] = LiveInOf(live_out[b], b)
                               /\ b # Prologue => FP \in live_in[b]}
<1>1. func \in Func
    BY DEF IInv, InputInv
<1>2. Range(worklist) = {}
    BY DEF Done, Range
<1>3. \A b \in Block :
         /\ live_out[b] = LiveOutOf(live_in, b)
         /\ live_in[b] = LiveInOf(live_out[b], b) \/ (live_out[b] = {} /\ b # Epilogue)
    BY <1>2 DEF IInv, QueueInv
<1>4. Epilogue \in Z
    <2>1. live_in[Epilogue] = LiveInOf(live_out[Epilogue], Epilogue)
        BY <1>3, LivenessAssumption
    <2>2. FP \in use[Epilogue]
        BY <1>1, FuncFacts, LivenessAssumption DEF IInv, InputInv
    <2>3. QED
        BY <2>1, <2>2, LivenessAssumption DEF LiveInOf
<1>5. ASSUME NEW s \in Z, NEW p \in Pre(func, s)
      PROVE  p \in Z
    <2>1. p \in Block /\ s \in func.succ[p] /\ s # Prologue /\ p # Epilogue
        BY <1>1, <1>5, FuncFacts DEF Pre
    <2>2. FP \in live_out[p]
        BY <2>1, <1>3 DEF LiveOutOf
    <2>3. live_in[p] = LiveInOf(live_out[p], p)
        BY <2>1, <2>2, <1>3
    <2>4. p # Prologue => FP \notin def[p]
        BY <2>1, <1>1, FuncFacts DEF IInv, InputInv
    <2>5. QED
        BY <2>1, <2>2, <2>3, <2>4 DEF LiveInOf
<1>6. Z = Block
    <2>1. Z \in SUBSET Block /\ \A b \in Z : Pre(func, b) \subseteq Z
        BY <1>5
    <2>2. QED
        BY <2>1, <1>4, <1>1, FuncFacts DEF ReachesEpilogue
<1>7. QED
    BY <1>3, <1>6

\* When the loop ends both equations hold in every block.
THEOREM SolutionCorrect == Spec => []DataflowSolution
    BY Invariance, SolutionAtEnd, PTL

\* A live register is in the live-in set: the blocks whose live-in set holds r
\* have the two clauses of ReadsAhead.
LEMMA CompleteAtEnd == IInv => NothingMissed
<1> SUFFICES ASSUME IInv, Done, NEW b \in Block, NEW r \in Reg, LiveAt(r, b)
             PROVE  r \in live_in[b]
    BY DEF NothingMissed
<1> DEFINE Z == {c \in Block : r \in live_in[c]}
<1>1. \A c \in Block : /\ live_out[c] = LiveOutOf(live_in, c)
                       /\ live_in[c] = LiveInOf(live_out[c], c)
    BY SolutionAtEnd DEF DataflowSolution
<1>2. func.succ \in [Block -> SUBSET Block]
    BY FuncFacts DEF IInv, InputInv
<1>3. ASSUME NEW c \in Block, r \in use[c] \/ (r \notin def[c] /\ func.succ[c] \cap Z # {})
      PROVE  c \in Z
    <2>1. CASE r \in use[c]
        BY <2>1, <1>1 DEF LiveInOf
    <2>2. CASE r \notin def[c] /\ func.succ[c] \cap Z # {}
        <3>1. r \in live_out[c]
            BY <2>2, <1>1, <1>2 DEF LiveOutOf
        <3>2. QED
            BY <3>1, <2>2, <1>1 DEF LiveInOf
    <2>3. QED
        BY <1>3, <2>1, <2>2
<1>4. ReadsAhead(r, Z)
    BY <1>3 DEF ReadsAhead
<1>5. QED
    BY <1>4 DEF LiveAt

\* When the loop ends no live register is missing.
THEOREM LivenessComplete == Spec => []NothingMissed
    BY Invariance, CompleteAtEnd, PTL

LEMMA StepGrows == IInv /\ [Next]_vars => [LiveInGrows]_vars
<1> SUFFICES ASSUME IInv, Visit
             PROVE  LiveInGrows
    BY DEF Next
<1>1. live_in' = [live_in EXCEPT ![Head(worklist)] =
                    LiveInOf(LiveOutOf(live_in, Head(worklist)), Head(worklist))]
    BY DEF Visit
<1>2. Head(worklist) \in Block
    BY HeadTail DEF IInv, TypeOK, Visit
<1>3. QED
    BY <1>1, <1>2 DEF IInv, TypeOK, GrowInv, LiveInGrows

\* No step takes a register out of a live-in set.
THEOREM LiveInOnlyGrows == Spec => Monotone
<1>1. IInv /\ [Next]_vars => [LiveInGrows]_vars
    BY StepGrows
<1>2. QED
    BY <1>1, Invariance, PTL DEF Spec, Monotone
=============================================================================
