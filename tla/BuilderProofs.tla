---------------------------- MODULE BuilderProofs ----------------------------
(***************************************************************************)
(* What holds of every program's flow graph while CminusfBuilder builds    *)
(* it, and after DeadCode has erased blocks: jumps go where the nesting of *)
(* the statements says, every block ends once, and the two edge lists      *)
(* agree and never leave a function.                                       *)
(***************************************************************************)
EXTENDS MiddleEnd, FiniteSetTheorems, TLAPS

Conditions == {"LOrExp", "LAndExp", "EqExp"}
Logic == {"and", "or"}
Branching == {"if", "if_else", "while"}
Bodies == {"then", "then_else", "else", "body"}
Loops == {"while", "body"}

\* The order of the visits under way: the function is the outermost one, and
\* between a statement that branches and the condition on top of it there are
\* only the logical operators around that condition.
Nested ==
    \A i \in DOMAIN open :
        /\ i = 1 <=> open[i].kind = "function"
        /\ i < Len(open) =>
              /\ open[i].kind \notin Conditions
              /\ open[i].kind \in Logic \cup Branching
                    <=> open[i + 1].kind \in Conditions \cup Logic

\* The function being built, and the blocks a visit knows in it.
Here == BlocksOf(Len(functions))

BlocksIn(frame) ==
    CASE frame.kind \in Logic -> {frame.begin}
      [] frame.kind \in Branching \cup Bodies -> {frame.begin, frame.end, frame.join}
      [] OTHER -> {}

LaidOut ==
    open # <<>> =>
        /\ functions # <<>> /\ insert \in Here
        /\ \A i \in DOMAIN open : BlocksIn(open[i]) \subseteq Here

\* The blocks a visit will make the insert block later.
Owed(frame) ==
    (IF frame.kind \in Logic \cup Branching THEN {frame.begin} ELSE {})
    \cup (IF frame.kind \in Branching \cup {"then", "then_else", "body"}
          THEN {frame.end} ELSE {})
    \cup (IF frame.kind \in {"then_else", "else"} THEN {frame.join} ELSE {})

AllOwed == UNION {Owed(open[i]) : i \in DOMAIN open}

\* No block is owed twice, and none that is owed has been begun or ended.
OwedOnce ==
    /\ \A i \in DOMAIN open :
        /\ insert \notin Owed(open[i]) /\ Owed(open[i]) \cap ended = {}
        /\ \A j \in DOMAIN open : i # j => Owed(open[i]) \cap Owed(open[j]) = {}
        /\ open[i].kind \in Branching => open[i].begin # open[i].end
        /\ open[i].kind = "then_else" => open[i].end # open[i].join

\* A condition is visited with the insert block open and leaves it ended.
EndedByCondition ==
    /\ Inside(Conditions) => insert \notin ended
    /\ Inside(Logic \cup Branching) => insert \in ended

\* A block that has no end is the insert block or owed.
EndedOrOwed ==
    \A f \in DOMAIN functions : \A b \in BlocksOf(f) :
        b \in ended \/ (open # <<>> /\ (b = insert \/ b \in AllOwed))

EndInv == ~asserted /\ OwedOnce /\ EndedByCondition /\ EndedOrOwed

\* k is the innermost of the first n visits of stack o that is of these kinds.
Nearest(kinds, o, n, k) ==
    /\ k \in 1 .. n /\ o[k].kind \in kinds
    /\ \A j \in (k + 1) .. n : o[j].kind \notin kinds

TrueLeads(o, n, b) ==
    \E k \in 1 .. n : Nearest({"and"} \cup Branching, o, n, k) /\ o[k].begin = b

FalseLeads(o, n, b) ==
    \E k \in 1 .. n : /\ Nearest({"or"} \cup Branching, o, n, k)
                      /\ b = IF o[k].kind = "or" THEN o[k].begin ELSE o[k].end

LoopLeads(o, n, exit, again) ==
    \/ /\ \A k \in 1 .. n : o[k].kind \notin Loops
       /\ exit = NoBlock /\ again = NoBlock
    \/ \E k \in 1 .. n : Nearest(Loops, o, n, k) /\ o[k].end = exit /\ o[k].join = again

Outside == [trueBB |-> NoBlock, falseBB |-> NoBlock,
            iteration_endBB |-> NoBlock, iteration_condBB |-> NoBlock]

\* What the i-th visit keeps to put back: the targets of the visits around it.
SavedAt(o, i) ==
    /\ o[i].kind = "and" => TrueLeads(o, i - 1, o[i].saved.trueBB)
    /\ o[i].kind = "or" => FalseLeads(o, i - 1, o[i].saved.falseBB)
    /\ o[i].kind \in Loops => LoopLeads(o, i - 1, o[i].saved.iteration_endBB,
                                         o[i].saved.iteration_condBB)

\* The context holds the targets of the visits under way.
ContextInv ==
    /\ Inside(Conditions \cup Logic) =>
           /\ TrueLeads(open, Len(open), context.trueBB)
           /\ FalseLeads(open, Len(open), context.falseBB)
    /\ LoopLeads(open, Len(open), context.iteration_endBB, context.iteration_condBB)
    /\ \A i \in DOMAIN open : SavedAt(open, i)
    /\ IF Len(open) < 2 THEN context = Outside ELSE open[2].saved = Outside

\* No block belongs to two functions.
Apart ==
    \A f, g \in DOMAIN functions : f # g => BlocksOf(f) \cap BlocksOf(g) = {}

BuilderInv ==
    /\ BuilderTypeOK /\ Nested /\ LaidOut /\ EndInv /\ ContextInv
    /\ Apart /\ EdgesAgree

-----------------------------------------------------------------------------
\* The call stack after a visit returns, turns into another or calls one.
LEMMA FrontFacts ==
    ASSUME NEW S, NEW s \in Seq(S), s # <<>>
    PROVE  /\ Front(s) \in Seq(S) /\ Len(s) \in Nat \ {0} /\ Len(Front(s)) = Len(s) - 1
           /\ DOMAIN Front(s) = 1 .. Len(s) - 1 /\ DOMAIN s = 1 .. Len(s)
           /\ \A i \in 1 .. Len(s) - 1 : Front(s)[i] = s[i]
<1>1. Len(s) \in Nat \ {0} /\ Len(s) - 1 \in Nat
    OBVIOUS
<1>2. Front(s) = [i \in 1 .. Len(s) - 1 |-> s[i]]
    BY <1>1 DEF Front
<1>3. \A i \in 1 .. Len(s) - 1 : s[i] \in S
    BY <1>1
<1>4. QED
    BY <1>1, <1>2, <1>3

LEMMA TurnFacts ==
    ASSUME NEW S, NEW s \in Seq(S), s # <<>>, NEW e \in S
    PROVE  LET o == Append(Front(s), e) IN
           /\ o \in Seq(S) /\ Len(o) = Len(s) /\ DOMAIN o = 1 .. Len(s)
           /\ o[Len(s)] = e /\ \A i \in 1 .. Len(s) - 1 : o[i] = s[i]
<1> DEFINE f == Front(s)
<1>1. f \in Seq(S) /\ Len(s) \in Nat \ {0} /\ Len(f) = Len(s) - 1
      /\ \A i \in 1 .. Len(s) - 1 : f[i] = s[i]
    BY FrontFacts
<1> HIDE DEF f
<1>2. /\ Append(f, e) \in Seq(S) /\ Len(Append(f, e)) = Len(s)
      /\ Append(f, e)[Len(s)] = e
    BY <1>1
<1>3. \A i \in 1 .. Len(s) - 1 : Append(f, e)[i] = s[i]
    BY <1>1
<1>4. QED
    BY <1>2, <1>3 DEF f

LEMMA CallFacts ==
    ASSUME NEW S, NEW s \in Seq(S), NEW first \in S, NEW second \in S
    PROVE  LET o == s \o <<first, second>> IN
           /\ o \in Seq(S) /\ Len(o) = Len(s) + 2 /\ DOMAIN o = 1 .. Len(s) + 2
           /\ o[Len(s) + 1] = first /\ o[Len(s) + 2] = second
           /\ \A i \in 1 .. Len(s) : o[i] = s[i]
<1> DEFINE t == <<first, second>>
<1>1. t \in Seq(S) /\ Len(t) = 2 /\ t[1] = first /\ t[2] = second
    OBVIOUS
<1> HIDE DEF t
<1>2. QED
    BY <1>1

LEMMA ConcatFacts ==
    ASSUME NEW S, NEW s \in Seq(S), NEW t \in Seq(S)
    PROVE  /\ s \o t \in Seq(S) /\ Len(s \o t) = Len(s) + Len(t)
           /\ DOMAIN (s \o t) = 1 .. Len(s) + Len(t)
           /\ \A i \in 1 .. Len(s) + Len(t) :
                 (s \o t)[i] = IF i <= Len(s) THEN s[i] ELSE t[i - Len(s)]
    OBVIOUS

LEMMA SeqFacts ==
    ASSUME NEW S, NEW s \in Seq(S)
    PROVE  /\ Len(s) \in Nat /\ DOMAIN s = 1 .. Len(s) /\ \A i \in DOMAIN s : s[i] \in S
           /\ s # <<>> => Len(s) \in DOMAIN s
           /\ \A T : S \subseteq T => s \in Seq(T)
    OBVIOUS

LEMMA FunctionIsSeq ==
    ASSUME NEW S, NEW n \in Nat, NEW f \in [1 .. n -> S]
    PROVE  f \in Seq(S) /\ Len(f) = n
    OBVIOUS

LEMMA SingletonFacts ==
    ASSUME NEW x
    PROVE  <<x>> \in Seq({x}) /\ <<x>> # <<>> /\ Range(<<x>>) = {x}
<1>1. <<x>> \in Seq({x}) /\ DOMAIN <<x>> = {1} /\ <<x>>[1] = x
    OBVIOUS
<1>2. Range(<<x>>) = {<<x>>[1]}
    BY <1>1 DEF Range
<1>3. QED
    BY <1>1, <1>2

LEMMA RangeTyped ==
    ASSUME NEW S, NEW s \in Seq(S)
    PROVE  Range(s) \subseteq S
<1>1. \A i \in DOMAIN s : s[i] \in S
    BY SeqFacts
<1>2. QED
    BY <1>1 DEF Range

\* Range of a sequence that grows.
LEMMA RangeFacts ==
    ASSUME NEW S, NEW s \in Seq(S), NEW t \in Seq(S), NEW e \in S
    PROVE  /\ Range(s \o t) = Range(s) \cup Range(t)
           /\ Range(Append(s, e)) = Range(s) \cup {e}
           /\ Range(s) \subseteq S
<1>1. Range(s \o t) = Range(s) \cup Range(t)
    <2>1. DOMAIN (s \o t) = 1 .. Len(s) + Len(t)
          /\ \A i \in 1 .. Len(s) + Len(t) :
                (s \o t)[i] = IF i <= Len(s) THEN s[i] ELSE t[i - Len(s)]
        BY ConcatFacts
    <2>2. ASSUME NEW x \in Range(s) \cup Range(t)
          PROVE  x \in Range(s \o t)
        <3>1. CASE x \in Range(s)
            BY <2>1, <3>1 DEF Range
        <3>2. CASE x \in Range(t)
            <4>1. PICK i \in 1 .. Len(t) : x = t[i]
                BY <3>2 DEF Range
            <4>2. Len(s) + i \in DOMAIN (s \o t) /\ (s \o t)[Len(s) + i] = x
                BY <2>1, <4>1
            <4>3. QED
                BY <4>2 DEF Range
        <3>3. QED
            BY <2>2, <3>1, <3>2
    <2>3. ASSUME NEW x \in Range(s \o t)
          PROVE  x \in Range(s) \cup Range(t)
        <3>1. PICK i \in 1 .. Len(s) + Len(t) : x = (s \o t)[i]
            BY <2>1 DEF Range
        <3>2. i \in DOMAIN s \/ i - Len(s) \in DOMAIN t
            OBVIOUS
        <3>3. QED
            BY <2>1, <3>1, <3>2 DEF Range
    <2>4. QED
        BY <2>2, <2>3
<1>2. Range(Append(s, e)) = Range(s) \cup {e}
    <2>1. \A i \in DOMAIN s : i \in DOMAIN Append(s, e) /\ Append(s, e)[i] = s[i]
        OBVIOUS
    <2>2. \A i \in DOMAIN Append(s, e) : Append(s, e)[i] \in Range(s) \cup {e}
        BY DEF Range
    <2>3. Len(s) + 1 \in DOMAIN Append(s, e) /\ Append(s, e)[Len(s) + 1] = e
        OBVIOUS
    <2>4. QED
        BY <2>1, <2>2, <2>3 DEF Range
<1>3. Range(s) \subseteq S
    BY DEF Range
<1>4. QED
    BY <1>1, <1>2, <1>3

-----------------------------------------------------------------------------
\* What k new blocks and a branch from one block to others do to the edges.
LEMMA BranchFacts ==
    ASSUME FlowGraphTypeOK, NEW k \in Nat, NEW from \in Blocks,
           NEW targets \in Seq(1 .. Len(succ) + k), BranchTo(k, from, targets)
    PROVE  /\ Len(succ') = Len(succ) + k /\ Len(pred') = Len(succ')
           /\ succ' \in Seq(Seq(Blocks')) /\ pred' \in Seq(Seq(Blocks'))
           /\ \A b \in Blocks' : Range(succ'[b]) =
                 (IF b \in Blocks THEN Range(succ[b]) ELSE {})
                    \cup (IF b = from THEN Range(targets) ELSE {})
           /\ \A b \in Blocks' : Range(pred'[b]) =
                 (IF b \in Blocks THEN Range(pred[b]) ELSE {})
                    \cup (IF b \in Range(targets) THEN {from} ELSE {})
<1> DEFINE n == Len(succ)
           all == 1 .. n + k
           lists == Seq(all)
           none == NoEdges(k)
           grownSucc == succ \o none
           grownPred == pred \o none
<1>1. n \in Nat /\ Len(pred) = n /\ Blocks = 1 .. n /\ Blocks \subseteq all /\ from \in 1 .. n
    BY DEF FlowGraphTypeOK, Blocks
<1>2. succ \in Seq(lists) /\ pred \in Seq(lists)
    BY <1>1 DEF FlowGraphTypeOK
<1>3. none \in Seq(lists) /\ Len(none) = k /\ \A i \in 1 .. k : none[i] = <<>>
    BY DEF NoEdges
<1> HIDE DEF none
<1>4. /\ grownSucc \in Seq(lists) /\ Len(grownSucc) = n + k /\ DOMAIN grownSucc = all
      /\ \A b \in all : grownSucc[b] = IF b \in 1 .. n THEN succ[b] ELSE <<>>
    <2>1. /\ grownSucc \in Seq(lists) /\ Len(grownSucc) = n + k /\ DOMAIN grownSucc = all
          /\ \A b \in all : grownSucc[b] = IF b <= n THEN succ[b] ELSE none[b - n]
        <3> HIDE DEF lists
        <3> QED  BY <1>2, <1>3, ConcatFacts
    <2>2. \A b \in all : /\ b <= n <=> b \in 1 .. n
                           /\ ~(b <= n) => b - n \in 1 .. k
        BY <1>1
    <2>3. QED
        BY <1>3, <2>1, <2>2
<1>5. /\ grownPred \in Seq(lists) /\ Len(grownPred) = n + k /\ DOMAIN grownPred = all
      /\ \A b \in all : grownPred[b] = IF b \in 1 .. n THEN pred[b] ELSE <<>>
    <2>1. /\ grownPred \in Seq(lists) /\ Len(grownPred) = n + k /\ DOMAIN grownPred = all
          /\ \A b \in all : grownPred[b] = IF b <= n THEN pred[b] ELSE none[b - n]
        <3> HIDE DEF lists
        <3>1. /\ grownPred \in Seq(lists) /\ Len(grownPred) = Len(pred) + k
              /\ DOMAIN grownPred = 1 .. Len(pred) + k
              /\ \A b \in 1 .. Len(pred) + k :
                    grownPred[b] = IF b <= Len(pred) THEN pred[b] ELSE none[b - Len(pred)]
            BY <1>2, <1>3, ConcatFacts
        <3>2. QED
            BY <1>1, <3>1
    <2>2. \A b \in all : /\ b <= n <=> b \in 1 .. n
                           /\ ~(b <= n) => b - n \in 1 .. k
        BY <1>1
    <2>3. QED
        BY <1>3, <2>1, <2>2
<1>6. /\ succ' = [grownSucc EXCEPT ![from] = grownSucc[from] \o targets]
      /\ pred' = [b \in all |-> IF b \in Range(targets) THEN Append(grownPred[b], from)
                                                         ELSE grownPred[b]]
    BY <1>1 DEF BranchTo, none
<1> HIDE DEF grownSucc, grownPred
<1>7. succ' \in Seq(lists) /\ Len(succ') = n + k
      /\ \A b \in all : succ'[b] = IF b = from THEN grownSucc[b] \o targets ELSE grownSucc[b]
    <2>1. grownSucc[from] \o targets \in Seq(all)
        BY <1>1, <1>4
    <2>2. QED
        BY <1>1, <1>4, <1>6, <2>1
<1>8. pred' \in Seq(lists) /\ Len(pred') = n + k
    <2>1. \A b \in all : pred'[b] \in Seq(all)
        <3>1. \A b \in all : grownPred[b] \in Seq(all) /\ from \in all
            BY <1>1, <1>5
        <3>2. \A b \in all : Append(grownPred[b], from) \in Seq(all)
            BY <3>1
        <3>3. \A b \in all : pred'[b] \in {grownPred[b], Append(grownPred[b], from)}
            BY <1>6
        <3>4. QED
            BY <3>1, <3>2, <3>3
    <2>2. pred' \in [1 .. n + k -> lists]
        BY <1>6, <2>1
    <2>3. n + k \in Nat
        BY <1>1
    <2>4. QED
        <3> HIDE DEF lists
        <3> QED  BY <2>2, <2>3, FunctionIsSeq
<1>9. Blocks' = all
    BY <1>7 DEF Blocks
<1>10. Range(<<>>) = {}
    BY DEF Range
<1>11. ASSUME NEW b \in all
       PROVE  Range(succ'[b]) = (IF b \in Blocks THEN Range(succ[b]) ELSE {})
                                   \cup (IF b = from THEN Range(targets) ELSE {})
    <2>1. grownSucc[b] \in Seq(all)
          /\ Range(grownSucc[b]) = IF b \in Blocks THEN Range(succ[b]) ELSE {}
        BY <1>1, <1>4, <1>10
    <2>2. from \in all /\ Range(grownSucc[b] \o targets) = Range(grownSucc[b]) \cup Range(targets)
        BY <1>1, <2>1, RangeFacts
    <2>3. QED
        BY <1>7, <2>1, <2>2
<1>12. ASSUME NEW b \in all
       PROVE  Range(pred'[b]) = (IF b \in Blocks THEN Range(pred[b]) ELSE {})
                                   \cup (IF b \in Range(targets) THEN {from} ELSE {})
    <2>1. grownPred[b] \in Seq(all)
          /\ Range(grownPred[b]) = IF b \in Blocks THEN Range(pred[b]) ELSE {}
        BY <1>1, <1>5, <1>10
    <2>2. from \in all /\ Range(Append(grownPred[b], from)) = Range(grownPred[b]) \cup {from}
        <3>1. from \in all
            BY <1>1
        <3>2. QED
            BY <2>1, <3>1, RangeFacts
    <2>3. QED
        BY <1>6, <2>1, <2>2
<1>13. QED
    BY <1>7, <1>8, <1>9, <1>11, <1>12

\* One new block, and no branch.
LEMMA PlainBlockFacts ==
    ASSUME FlowGraphTypeOK, succ' = Append(succ, <<>>), pred' = Append(pred, <<>>)
    PROVE  /\ Len(succ') = Len(succ) + 1 /\ Len(pred') = Len(succ')
           /\ succ' \in Seq(Seq(Blocks')) /\ pred' \in Seq(Seq(Blocks'))
           /\ \A b \in Blocks' :
                /\ Range(succ'[b]) = IF b \in Blocks THEN Range(succ[b]) ELSE {}
                /\ Range(pred'[b]) = IF b \in Blocks THEN Range(pred[b]) ELSE {}
<1> DEFINE n == Len(succ)
           lists == Seq(1 .. n + 1)
<1>1. n \in Nat /\ Len(pred) = n /\ Blocks = 1 .. n
    BY DEF FlowGraphTypeOK, Blocks
<1>2. succ \in Seq(lists) /\ pred \in Seq(lists) /\ <<>> \in lists
    BY <1>1 DEF FlowGraphTypeOK
<1>3. Range(<<>>) = {}
    BY DEF Range
<1> HIDE DEF lists
<1>4. /\ succ' \in Seq(lists) /\ Len(succ') = n + 1
      /\ \A b \in 1 .. n + 1 : succ'[b] = IF b \in 1 .. n THEN succ[b] ELSE <<>>
    BY <1>1, <1>2
<1>5. /\ pred' \in Seq(lists) /\ Len(pred') = n + 1
      /\ \A b \in 1 .. n + 1 : pred'[b] = IF b \in 1 .. n THEN pred[b] ELSE <<>>
    BY <1>1, <1>2
<1>6. Blocks' = 1 .. n + 1
    BY <1>4 DEF Blocks
<1>7. QED
    BY <1>1, <1>3, <1>4, <1>5, <1>6 DEF lists

New(k) == (Len(succ) + 1) .. (Len(succ) + k)

\* What creating k blocks does to the block lists of the functions.
LEMMA CreateFacts ==
    ASSUME FlowGraphTypeOK, functions # <<>>, NEW k \in Nat, Len(succ') = Len(succ) + k,
           functions' = [functions EXCEPT ![Len(functions)] = @ \o Created(k)]
    PROVE  /\ functions' \in Seq(Seq(Blocks') \ {<<>>}) /\ Len(functions') = Len(functions)
           /\ \A f \in DOMAIN functions :
                Range(functions'[f]) = Range(functions[f])
                                          \cup (IF f = Len(functions) THEN New(k) ELSE {})
<1> DEFINE n == Len(succ)
           all == 1 .. n + k
           lists == Seq(all) \ {<<>>}
           m == Len(functions)
           last == functions[m]
           made == Created(k)
<1>1. n \in Nat /\ Blocks = 1 .. n /\ Blocks' = all
    BY DEF FlowGraphTypeOK, Blocks
<1>2. functions \in Seq(lists) /\ m \in DOMAIN functions
    <2>1. Seq(Blocks) \ {<<>>} \subseteq lists
        <3>1. Blocks \subseteq all
            BY <1>1
        <3>2. \A s \in Seq(Blocks) : s \in Seq(all)
            BY <3>1, SeqFacts
        <3>3. QED
            BY <3>2
    <2> HIDE DEF lists
    <2>2. functions \in Seq(Seq(Blocks) \ {<<>>})
        BY DEF FlowGraphTypeOK
    <2> DEFINE kept == Seq(Blocks) \ {<<>>}
    <2> HIDE DEF kept
    <2>3. functions \in Seq(kept) /\ kept \subseteq lists
        BY <2>1, <2>2 DEF kept
    <2>4. QED
        BY <2>3, SeqFacts
<1>3. made \in Seq(all) /\ Range(made) = New(k)
    <2>1. made = [i \in 1 .. k |-> n + i]
        BY DEF Created
    <2>2. made \in [1 .. k -> all] /\ DOMAIN made = 1 .. k
        BY <1>1, <2>1
    <2>3. \A x \in New(k) : x - n \in 1 .. k /\ made[x - n] = x
        BY <1>1, <2>1 DEF New
    <2>4. \A i \in 1 .. k : made[i] \in New(k)
        BY <1>1, <2>1 DEF New
    <2> HIDE DEF made
    <2>5. QED
        BY <2>2, <2>3, <2>4, FunctionIsSeq DEF Range
<1> HIDE DEF made
<1>4. last \in Seq(all) /\ last # <<>>
    BY <1>2
<1>5. last \o made \in lists
    BY <1>3, <1>4
<1>6. Range(last \o made) = Range(last) \cup New(k)
    <2>1. last[1] \in all
        BY <1>4
    <2>2. QED
        BY <1>3, <1>4, <2>1, RangeFacts
<1>7. functions' = [functions EXCEPT ![m] = last \o made]
    BY DEF made
<1> DEFINE longer == last \o made
<1> HIDE DEF lists, longer
<1>8. functions' \in Seq(lists) /\ Len(functions') = m /\ functions'[m] = longer
      /\ \A f \in DOMAIN functions : f # m => functions'[f] = functions[f]
    <2>1. longer \in lists /\ functions' = [functions EXCEPT ![m] = longer]
        BY <1>5, <1>7 DEF longer
    <2>2. functions \in [1 .. m -> lists] /\ m \in 1 .. m /\ m \in Nat
        BY <1>2
    <2>3. functions' \in [1 .. m -> lists] /\ functions'[m] = longer
          /\ \A f \in 1 .. m : f # m => functions'[f] = functions[f]
        BY <2>1, <2>2
    <2>4. functions' \in Seq(lists) /\ Len(functions') = m
        BY <2>2, <2>3, FunctionIsSeq
    <2>5. QED
        BY <1>2, <2>3, <2>4
<1>9. QED
    BY <1>1, <1>6, <1>8 DEF lists, longer

\* Branches inside one function leave the functions apart and the two edge
\* lists in agreement.
LEMMA EdgesGrow ==
    ASSUME FlowGraphTypeOK, Apart, EdgesAgree, functions # <<>>, NEW k \in Nat,
           NEW from \in Here, NEW T \in SUBSET (Here \cup New(k)),
           Len(succ') = Len(succ) + k, Len(functions') = Len(functions),
           functions' \in Seq(Seq(Blocks') \ {<<>>}),
           \A f \in DOMAIN functions :
               Range(functions'[f]) = Range(functions[f])
                                         \cup (IF f = Len(functions) THEN New(k) ELSE {}),
           \A b \in Blocks' : Range(succ'[b]) =
               (IF b \in Blocks THEN Range(succ[b]) ELSE {}) \cup (IF b = from THEN T ELSE {}),
           \A b \in Blocks' : Range(pred'[b]) =
               (IF b \in Blocks THEN Range(pred[b]) ELSE {}) \cup (IF b \in T THEN {from} ELSE {})
    PROVE  Apart' /\ EdgesAgree' /\ Here' = Here \cup New(k)
<1> DEFINE m == Len(functions)
<1>1. /\ DOMAIN functions = 1 .. m /\ DOMAIN functions' = 1 .. m /\ m \in 1 .. m
      /\ Blocks = 1 .. Len(succ) /\ Blocks' = 1 .. Len(succ) + k /\ Len(succ) \in Nat
    BY DEF FlowGraphTypeOK, Blocks
<1>2. \A f \in 1 .. m : BlocksOf(f) \subseteq Blocks
    <2> DEFINE lists == Seq(Blocks) \ {<<>>}
    <2>1. functions \in Seq(lists)
        BY DEF FlowGraphTypeOK
    <2>2. \A f \in 1 .. m : functions[f] \in lists
        <3> HIDE DEF lists
        <3> QED  BY <1>1, <2>1, SeqFacts
    <2>3. QED
        BY <2>2 DEF BlocksOf, Range
<1>3. New(k) \cap Blocks = {} /\ New(k) \subseteq Blocks' /\ Blocks \subseteq Blocks'
    BY <1>1 DEF New
<1>4. \A f \in 1 .. m : Range(functions'[f]) =
            BlocksOf(f) \cup (IF f = m THEN New(k) ELSE {})
    BY <1>1 DEF BlocksOf
<1>5. \A f, g \in 1 .. m : f # g => BlocksOf(f) \cap BlocksOf(g) = {}
    BY <1>1 DEF Apart
<1>6. Apart'
    <2>1. ASSUME NEW f \in 1 .. m, NEW g \in 1 .. m, f # g
          PROVE  Range(functions'[f]) \cap Range(functions'[g]) = {}
        <3>1. BlocksOf(f) \cap BlocksOf(g) = {} /\ BlocksOf(f) \cup BlocksOf(g) \subseteq Blocks
            BY <1>2, <1>5, <2>1
        <3>2. /\ Range(functions'[f]) = BlocksOf(f) \cup (IF f = m THEN New(k) ELSE {})
              /\ Range(functions'[g]) = BlocksOf(g) \cup (IF g = m THEN New(k) ELSE {})
            BY <1>4
        <3>3. QED
            BY <1>3, <2>1, <3>1, <3>2
    <2>2. QED
        BY <1>1, <2>1 DEF Apart, BlocksOf
<1>7. /\ from \in BlocksOf(m) /\ T \subseteq BlocksOf(m) \cup New(k)
      /\ from \in Blocks /\ T \subseteq Blocks'
      /\ \A f \in 1 .. m : Range(functions'[f]) \subseteq Blocks'
    <2>1. from \in BlocksOf(m) /\ T \subseteq BlocksOf(m) \cup New(k)
        BY DEF Here
    <2>2. BlocksOf(m) \subseteq Blocks
        BY <1>1, <1>2
    <2>3. \A f \in 1 .. m : Range(functions'[f]) \subseteq BlocksOf(f) \cup New(k)
        BY <1>4
    <2>4. QED
        BY <1>2, <1>3, <2>1, <2>2, <2>3
<1>8. ASSUME NEW f \in 1 .. m, NEW a \in Range(functions'[f]), NEW b \in Range(succ'[a])
      PROVE  b \in Range(functions'[f]) /\ a \in Range(pred'[b])
    <2>1. a \in Blocks'
        BY <1>7
    <2>2. CASE a = from /\ b \in T
        <3>1. f = m
            <4>1. a \in BlocksOf(f) \cup (IF f = m THEN New(k) ELSE {})
                BY <1>4
            <4>2. BlocksOf(f) \subseteq Blocks /\ (f # m => BlocksOf(f) \cap BlocksOf(m) = {})
                BY <1>1, <1>2, <1>5
            <4>3. QED
                BY <1>3, <1>7, <2>2, <4>1, <4>2
        <3>2. b \in Range(functions'[m]) /\ b \in Blocks'
            BY <1>1, <1>3, <1>4, <1>7, <2>2
        <3>3. QED
            BY <2>2, <3>1, <3>2
    <2>3. CASE a \in Blocks /\ b \in Range(succ[a])
        <3>1. a \in BlocksOf(f)
            BY <1>3, <1>4, <2>3
        <3>2. b \in BlocksOf(f) /\ a \in Range(pred[b])
            BY <1>1, <2>3, <3>1 DEF EdgesAgree, Functions
        <3>3. b \in Blocks /\ b \in Blocks' /\ b \in Range(functions'[f])
            <4>1. b \in Blocks
                BY <1>2, <3>2
            <4>2. b \in Blocks'
                BY <1>3, <4>1
            <4>3. b \in Range(functions'[f])
                BY <1>4, <3>2
            <4>4. QED
                BY <4>1, <4>2, <4>3
        <3>4. QED
            BY <3>2, <3>3
    <2>4. QED
        BY <1>8, <2>1, <2>2, <2>3
<1>9. ASSUME NEW f \in 1 .. m, NEW a \in Range(functions'[f]), NEW b \in Range(pred'[a])
      PROVE  b \in Range(functions'[f]) /\ a \in Range(succ'[b])
    <2>1. a \in Blocks'
        BY <1>7
    <2>2. CASE b = from /\ a \in T
        <3>1. f = m
            <4>1. a \in BlocksOf(f) \cup (IF f = m THEN New(k) ELSE {})
                BY <1>4
            <4>2. BlocksOf(f) \subseteq Blocks /\ (f # m => BlocksOf(f) \cap BlocksOf(m) = {})
                BY <1>1, <1>2, <1>5
            <4>3. QED
                BY <1>3, <1>7, <2>2, <4>1, <4>2
        <3>2. b \in Range(functions'[m]) /\ b \in Blocks'
            BY <1>1, <1>3, <1>4, <1>7, <2>2
        <3>3. QED
            BY <2>2, <3>1, <3>2
    <2>3. CASE a \in Blocks /\ b \in Range(pred[a])
        <3>1. a \in BlocksOf(f)
            BY <1>3, <1>4, <2>3
        <3>2. b \in BlocksOf(f) /\ a \in Range(succ[b])
            BY <1>1, <2>3, <3>1 DEF EdgesAgree, Functions
        <3>3. b \in Blocks /\ b \in Blocks' /\ b \in Range(functions'[f])
            <4>1. b \in Blocks
                BY <1>2, <3>2
            <4>2. b \in Blocks'
                BY <1>3, <4>1
            <4>3. b \in Range(functions'[f])
                BY <1>4, <3>2
            <4>4. QED
                BY <4>1, <4>2, <4>3
        <3>4. QED
            BY <3>2, <3>3
    <2>4. b \in (IF a \in Blocks THEN Range(pred[a]) ELSE {})
                    \cup (IF a \in T THEN {from} ELSE {})
        BY <2>1
    <2>5. QED
        BY <2>2, <2>3, <2>4
<1>10. EdgesAgree'
    BY <1>1, <1>8, <1>9 DEF EdgesAgree, Functions, BlocksOf
<1>11. QED
    BY <1>1, <1>4, <1>6, <1>10 DEF Here, BlocksOf

GraphInv == FlowGraphTypeOK /\ Apart /\ EdgesAgree

LEMMA HereFacts ==
    ASSUME FlowGraphTypeOK, functions # <<>>
    PROVE  /\ Here \subseteq Blocks /\ Blocks = 1 .. Len(succ) /\ Len(succ) \in Nat
           /\ Len(functions) \in DOMAIN functions
<1> DEFINE lists == Seq(Blocks) \ {<<>>}
<1>1. functions \in Seq(lists)
    BY DEF FlowGraphTypeOK
<1>2. Len(functions) \in DOMAIN functions /\ functions[Len(functions)] \in lists
    <2> HIDE DEF lists
    <2> QED  BY <1>1, SeqFacts
<1>3. Here \subseteq Blocks
    BY <1>2 DEF Here, BlocksOf, Range
<1>4. QED
    BY <1>2, <1>3 DEF Blocks, FlowGraphTypeOK

\* A branch between blocks there are.
LEMMA JumpGraph ==
    ASSUME GraphInv, functions # <<>>, NEW from \in Here, NEW targets \in Seq(Here),
           BranchTo(0, from, targets), UNCHANGED functions
    PROVE  GraphInv' /\ Len(succ') = Len(succ) /\ Here' = Here
<1>1. Here \subseteq Blocks /\ Len(succ) \in Nat /\ Blocks = 1 .. Len(succ)
    BY HereFacts DEF GraphInv
<1>2. targets \in Seq(1 .. Len(succ) + 0) /\ Range(targets) \subseteq Here
    <2>1. Here \subseteq 1 .. Len(succ) + 0
        BY <1>1
    <2>2. targets \in Seq(1 .. Len(succ) + 0)
        <3> DEFINE all == 1 .. Len(succ) + 0
        <3>1. Here \subseteq all
            BY <2>1
        <3> HIDE DEF all
        <3>2. targets \in Seq(all)
            BY <3>1, SeqFacts
        <3>3. QED
            BY <3>2 DEF all
    <2>3. QED
        BY <2>2, RangeTyped
<1>3. /\ Len(succ') = Len(succ) + 0 /\ Len(pred') = Len(succ')
      /\ succ' \in Seq(Seq(Blocks')) /\ pred' \in Seq(Seq(Blocks'))
      /\ \A b \in Blocks' : Range(succ'[b]) =
            (IF b \in Blocks THEN Range(succ[b]) ELSE {})
               \cup (IF b = from THEN Range(targets) ELSE {})
      /\ \A b \in Blocks' : Range(pred'[b]) =
            (IF b \in Blocks THEN Range(pred[b]) ELSE {})
               \cup (IF b \in Range(targets) THEN {from} ELSE {})
    BY <1>1, <1>2, BranchFacts DEF GraphInv
<1>4. Len(succ') = Len(succ) /\ Blocks' = Blocks /\ New(0) = {}
    BY <1>1, <1>3 DEF Blocks, New
<1>5. FlowGraphTypeOK'
    BY <1>3, <1>4 DEF GraphInv, FlowGraphTypeOK
<1>6. \A f \in DOMAIN functions : Range(functions'[f]) = Range(functions[f])
                                  \cup (IF f = Len(functions) THEN New(0) ELSE {})
    BY <1>4
<1>7. functions' \in Seq(Seq(Blocks') \ {<<>>}) /\ Len(functions') = Len(functions)
    BY <1>5 DEF FlowGraphTypeOK
<1>8. Range(targets) \in SUBSET (Here \cup New(0))
    BY <1>2
<1>9. Apart' /\ EdgesAgree' /\ Here' = Here \cup New(0)
    BY <1>3, <1>6, <1>7, <1>8, EdgesGrow DEF GraphInv
<1>10. QED
    BY <1>4, <1>5, <1>9 DEF GraphInv

\* New blocks, and a branch to some of them.
LEMMA SelectGraph ==
    ASSUME GraphInv, functions # <<>>, NEW k \in Nat, NEW from \in Here,
           NEW targets \in Seq(New(k)), BranchTo(k, from, targets), Create(k)
    PROVE  /\ GraphInv' /\ Len(succ') = Len(succ) + k /\ Here' = Here \cup New(k)
           /\ DOMAIN functions' = DOMAIN functions
           /\ \A f \in DOMAIN functions : BlocksOf(f)' \subseteq BlocksOf(f) \cup New(k)
<1>1. Here \subseteq Blocks /\ Len(succ) \in Nat /\ Blocks = 1 .. Len(succ)
    BY HereFacts DEF GraphInv
<1>2. targets \in Seq(1 .. Len(succ) + k) /\ Range(targets) \subseteq New(k)
    <2>1. New(k) \subseteq 1 .. Len(succ) + k
        BY <1>1 DEF New
    <2>2. QED
        BY <2>1, SeqFacts DEF Range
<1>3. /\ Len(succ') = Len(succ) + k /\ Len(pred') = Len(succ')
      /\ succ' \in Seq(Seq(Blocks')) /\ pred' \in Seq(Seq(Blocks'))
      /\ \A b \in Blocks' : Range(succ'[b]) =
            (IF b \in Blocks THEN Range(succ[b]) ELSE {})
               \cup (IF b = from THEN Range(targets) ELSE {})
      /\ \A b \in Blocks' : Range(pred'[b]) =
            (IF b \in Blocks THEN Range(pred[b]) ELSE {})
               \cup (IF b \in Range(targets) THEN {from} ELSE {})
    BY <1>1, <1>2, BranchFacts DEF GraphInv
<1>4. functions' = [functions EXCEPT ![Len(functions)] = @ \o Created(k)]
    BY DEF Create
<1>5. /\ functions' \in Seq(Seq(Blocks') \ {<<>>}) /\ Len(functions') = Len(functions)
      /\ \A f \in DOMAIN functions :
            Range(functions'[f]) = Range(functions[f])
                                      \cup (IF f = Len(functions) THEN New(k) ELSE {})
    BY <1>3, <1>4, CreateFacts DEF GraphInv
<1>6. Range(targets) \in SUBSET (Here \cup New(k))
    BY <1>2
<1>7. Apart' /\ EdgesAgree' /\ Here' = Here \cup New(k)
    BY <1>3, <1>5, <1>6, EdgesGrow DEF GraphInv
<1>8. DOMAIN functions' = DOMAIN functions
      /\ \A f \in DOMAIN functions : Range(functions'[f]) \subseteq Range(functions[f]) \cup New(k)
    BY <1>5 DEF GraphInv, FlowGraphTypeOK
<1>9. QED
    BY <1>3, <1>5, <1>7, <1>8 DEF GraphInv, FlowGraphTypeOK, BlocksOf

LEMMA PlainGraph ==
    ASSUME GraphInv, functions # <<>>, NEW from \in Here, Create(1),
           succ' = Append(succ, <<>>), pred' = Append(pred, <<>>)
    PROVE  /\ GraphInv' /\ Len(succ') = Len(succ) + 1 /\ Here' = Here \cup New(1)
           /\ DOMAIN functions' = DOMAIN functions
           /\ \A f \in DOMAIN functions : BlocksOf(f)' \subseteq BlocksOf(f) \cup New(1)
<1>1. Here \subseteq Blocks /\ Len(succ) \in Nat /\ Blocks = 1 .. Len(succ)
    BY HereFacts DEF GraphInv
<1>2. /\ Len(succ') = Len(succ) + 1 /\ Len(pred') = Len(succ')
      /\ succ' \in Seq(Seq(Blocks')) /\ pred' \in Seq(Seq(Blocks'))
      /\ \A b \in Blocks' :
            /\ Range(succ'[b]) = IF b \in Blocks THEN Range(succ[b]) ELSE {}
            /\ Range(pred'[b]) = IF b \in Blocks THEN Range(pred[b]) ELSE {}
    BY PlainBlockFacts DEF GraphInv
<1>3. functions' = [functions EXCEPT ![Len(functions)] = @ \o Created(1)]
    BY DEF Create
<1>4. /\ functions' \in Seq(Seq(Blocks') \ {<<>>}) /\ Len(functions') = Len(functions)
      /\ \A f \in DOMAIN functions :
            Range(functions'[f]) = Range(functions[f])
                                      \cup (IF f = Len(functions) THEN New(1) ELSE {})
    BY <1>2, <1>3, CreateFacts DEF GraphInv
<1>5. /\ \A b \in Blocks' : Range(succ'[b]) =
            (IF b \in Blocks THEN Range(succ[b]) ELSE {}) \cup (IF b = from THEN {} ELSE {})
      /\ \A b \in Blocks' : Range(pred'[b]) =
            (IF b \in Blocks THEN Range(pred[b]) ELSE {}) \cup (IF b \in {} THEN {from} ELSE {})
    BY <1>2
<1>6. {} \in SUBSET (Here \cup New(1))
    OBVIOUS
<1>7. Apart' /\ EdgesAgree' /\ Here' = Here \cup New(1)
    BY ZenonT(60), <1>2, <1>4, <1>5, <1>6, EdgesGrow DEF GraphInv
<1>8. DOMAIN functions' = DOMAIN functions
      /\ \A f \in DOMAIN functions : Range(functions'[f]) \subseteq Range(functions[f]) \cup New(1)
    BY <1>4 DEF GraphInv, FlowGraphTypeOK
<1>9. QED
    BY <1>2, <1>4, <1>7, <1>8 DEF GraphInv, FlowGraphTypeOK, BlocksOf

LEMMA StartGraph ==
    ASSUME GraphInv, functions' = Append(functions, Created(1)),
           succ' = Append(succ, <<>>), pred' = Append(pred, <<>>)
    PROVE  /\ GraphInv' /\ Len(succ') = Len(succ) + 1 /\ Here' = {Len(succ) + 1}
           /\ functions' # <<>>
           /\ \A f \in DOMAIN functions' :
                \/ f \in DOMAIN functions /\ BlocksOf(f)' = BlocksOf(f)
                \/ BlocksOf(f)' = Here'
<1> DEFINE n == Len(succ)
           lists == Seq(Blocks') \ {<<>>}
           m == Len(functions)
<1>1. n \in Nat /\ Blocks = 1 .. n /\ m \in Nat /\ DOMAIN functions = 1 .. m
    BY DEF GraphInv, FlowGraphTypeOK, Blocks
<1>2. /\ Len(succ') = n + 1 /\ Len(pred') = Len(succ')
      /\ succ' \in Seq(Seq(Blocks')) /\ pred' \in Seq(Seq(Blocks'))
      /\ \A b \in Blocks' :
            /\ Range(succ'[b]) = IF b \in Blocks THEN Range(succ[b]) ELSE {}
            /\ Range(pred'[b]) = IF b \in Blocks THEN Range(pred[b]) ELSE {}
    BY PlainBlockFacts DEF GraphInv
<1>3. Blocks' = 1 .. n + 1
    BY <1>2 DEF Blocks
<1>4. functions \in Seq(lists)
    <2> DEFINE old == Seq(Blocks) \ {<<>>}
    <2>1. old \subseteq lists
        <3>1. Blocks \subseteq Blocks'
            BY <1>1, <1>3
        <3>2. \A s \in Seq(Blocks) : s \in Seq(Blocks')
            BY <3>1, SeqFacts
        <3>3. QED
            BY <3>2
    <2>2. functions \in Seq(old)
        BY DEF GraphInv, FlowGraphTypeOK
    <2> HIDE DEF old, lists
    <2>3. QED
        BY <2>1, <2>2, SeqFacts
<1>5. Created(1) \in lists /\ Range(Created(1)) = {n + 1}
    <2>1. Created(1) = <<n + 1>>
        BY <1>1 DEF Created
    <2>2. n + 1 \in Blocks'
        BY <1>1, <1>3
    <2>3. <<n + 1>> \in Seq(Blocks')
        BY <2>2
    <2>4. QED
        BY <2>1, <2>3, SingletonFacts
<1> DEFINE first == Created(1)
<1>6. first \in lists /\ functions' = Append(functions, first)
    BY <1>5
<1>7. /\ functions' \in Seq(lists) /\ Len(functions') = m + 1 /\ functions'[m + 1] = first
      /\ DOMAIN functions' = 1 .. m + 1
      /\ \A f \in 1 .. m : functions'[f] = functions[f]
    <2> HIDE DEF first, lists
    <2> QED  BY <1>1, <1>4, <1>6
<1>8. FlowGraphTypeOK'
    BY <1>2, <1>7 DEF FlowGraphTypeOK
<1>9. Here' = {n + 1} /\ functions' # <<>> /\ Range(functions'[m + 1]) = {n + 1}
    <2>1. Range(functions'[m + 1]) = {n + 1}
        BY <1>5, <1>7
    <2>2. Here' = Range(functions'[m + 1])
        BY <1>7 DEF Here, BlocksOf
    <2>3. Len(functions') # 0
        BY <1>1, <1>7
    <2>4. QED
        BY <2>1, <2>2, <2>3
<1>10. \A f \in 1 .. m : Range(functions'[f]) = BlocksOf(f) /\ BlocksOf(f) \subseteq Blocks
    <2> DEFINE old == Seq(Blocks) \ {<<>>}
    <2>1. functions \in Seq(old)
        BY DEF GraphInv, FlowGraphTypeOK
    <2>2. \A f \in 1 .. m : functions[f] \in old
        <3> HIDE DEF old
        <3> QED  BY <1>1, <2>1, SeqFacts
    <2>3. QED
        BY <1>7, <2>2 DEF BlocksOf, Range
<1>11. \A f \in DOMAIN functions' :
            \/ f \in 1 .. m /\ Range(functions'[f]) = BlocksOf(f)
            \/ f = m + 1 /\ Range(functions'[f]) = {n + 1}
    <2>1. \A f \in DOMAIN functions' : f \in 1 .. m \/ f = m + 1
        BY <1>1, <1>7
    <2>2. QED
        BY <1>9, <1>10, <2>1
<1>12. Apart'
    <2>1. n + 1 \notin Blocks
        BY <1>1
    <2>2. \A f, g \in DOMAIN functions' :
                f # g => Range(functions'[f]) \cap Range(functions'[g]) = {}
        <3>1. \A f, g \in 1 .. m : f # g => BlocksOf(f) \cap BlocksOf(g) = {}
            BY <1>1 DEF GraphInv, Apart
        <3>2. ASSUME NEW f \in DOMAIN functions', NEW g \in DOMAIN functions', f # g
              PROVE  Range(functions'[f]) \cap Range(functions'[g]) = {}
            <4>1. CASE f \in 1 .. m /\ g \in 1 .. m
                BY <1>10, <3>1, <3>2, <4>1
            <4>2. CASE f = m + 1 /\ Range(functions'[f]) = {n + 1} /\ g \in 1 .. m
                BY <1>10, <2>1, <4>2
            <4>3. CASE g = m + 1 /\ Range(functions'[g]) = {n + 1} /\ f \in 1 .. m
                BY <1>10, <2>1, <4>3
            <4>4. QED
                BY <1>11, <3>2, <4>1, <4>2, <4>3
        <3>3. QED
            BY <3>2
    <2>3. QED
        BY <2>2 DEF Apart, BlocksOf
<1>13. EdgesAgree'
    <2>1. ASSUME NEW f \in DOMAIN functions', NEW a \in Range(functions'[f])
          PROVE  /\ \A b \in Range(succ'[a]) : b \in Range(functions'[f]) /\ a \in Range(pred'[b])
                 /\ \A b \in Range(pred'[a]) : b \in Range(functions'[f]) /\ a \in Range(succ'[b])
        <3>1. CASE f = m + 1
            <4>1. a = n + 1 /\ a \in Blocks' /\ a \notin Blocks
                BY <1>1, <1>3, <1>9, <2>1, <3>1
            <4>2. Range(succ'[a]) = {} /\ Range(pred'[a]) = {}
                BY <1>2, <4>1
            <4>3. QED
                BY <4>2
        <3>2. CASE f \in 1 .. m
            <4>1. a \in BlocksOf(f) /\ a \in Blocks /\ Range(functions'[f]) = BlocksOf(f)
                  /\ BlocksOf(f) \subseteq Blocks /\ Blocks \subseteq Blocks'
                BY <1>1, <1>3, <1>10, <3>2
            <4>2. /\ \A b \in Range(succ[a]) : b \in BlocksOf(f) /\ a \in Range(pred[b])
                  /\ \A b \in Range(pred[a]) : b \in BlocksOf(f) /\ a \in Range(succ[b])
                BY <1>1, <3>2, <4>1 DEF GraphInv, EdgesAgree, Functions
            <4>3. Range(succ'[a]) = Range(succ[a]) /\ Range(pred'[a]) = Range(pred[a])
                BY <1>2, <4>1
            <4>4. \A b \in BlocksOf(f) : Range(succ'[b]) = Range(succ[b])
                                        /\ Range(pred'[b]) = Range(pred[b])
                BY <1>2, <4>1
            <4>5. QED
                BY <4>1, <4>2, <4>3, <4>4
        <3>3. QED
            BY <1>11, <3>1, <3>2
    <2>2. QED
        BY <2>1 DEF EdgesAgree, Functions, BlocksOf
<1>14. QED
    BY <1>1, <1>2, <1>8, <1>9, <1>11, <1>12, <1>13 DEF GraphInv, BlocksOf

-----------------------------------------------------------------------------
\* Where the targets lead depends on the visits below, and a visit that sets
\* no target changes nothing.
LEMMA LeadsAgree ==
    ASSUME NEW o, NEW p, NEW n \in Nat, \A i \in 1 .. n : p[i] = o[i]
    PROVE  /\ \A b : TrueLeads(o, n, b) => TrueLeads(p, n, b)
           /\ \A b : FalseLeads(o, n, b) => FalseLeads(p, n, b)
           /\ \A e, c : LoopLeads(o, n, e, c) => LoopLeads(p, n, e, c)
<1>1. \A kinds, k : Nearest(kinds, o, n, k) => Nearest(kinds, p, n, k)
    BY DEF Nearest
<1>2. QED
    BY <1>1 DEF TrueLeads, FalseLeads, LoopLeads

LEMMA SavedAgree ==
    ASSUME NEW o, NEW p, NEW n \in Nat, \A i \in 1 .. n : p[i] = o[i],
           NEW i \in 1 .. n, SavedAt(o, i)
    PROVE  SavedAt(p, i)
<1>1. i - 1 \in Nat /\ \A j \in 1 .. i - 1 : p[j] = o[j]
    OBVIOUS
<1>2. /\ \A b : TrueLeads(o, i - 1, b) => TrueLeads(p, i - 1, b)
      /\ \A b : FalseLeads(o, i - 1, b) => FalseLeads(p, i - 1, b)
      /\ \A e, c : LoopLeads(o, i - 1, e, c) => LoopLeads(p, i - 1, e, c)
    BY <1>1, LeadsAgree
<1>3. p[i] = o[i]
    OBVIOUS
<1>4. QED
    BY <1>2, <1>3 DEF SavedAt

LEMMA LeadsOver ==
    ASSUME NEW o, NEW n \in Nat \ {0}
    PROVE  /\ o[n].kind \notin {"and"} \cup Branching =>
                  \A b : TrueLeads(o, n, b) <=> TrueLeads(o, n - 1, b)
           /\ o[n].kind \notin {"or"} \cup Branching =>
                  \A b : FalseLeads(o, n, b) <=> FalseLeads(o, n - 1, b)
           /\ o[n].kind \notin Loops =>
                  \A e, c : LoopLeads(o, n, e, c) <=> LoopLeads(o, n - 1, e, c)
<1>1. ASSUME NEW kinds, o[n].kind \notin kinds
      PROVE  /\ \A k : Nearest(kinds, o, n, k) <=> Nearest(kinds, o, n - 1, k)
             /\ (\A k \in 1 .. n : o[k].kind \notin kinds)
                    <=> \A k \in 1 .. n - 1 : o[k].kind \notin kinds
    <2>1. \A k \in 1 .. n : k \in 1 .. n - 1 \/ k = n
        OBVIOUS
    <2>2. \A k \in 1 .. n - 1 : k \in 1 .. n /\ \A j \in (k + 1) .. n :
                j \in (k + 1) .. n - 1 \/ j = n
        OBVIOUS
    <2>3. \A k : Nearest(kinds, o, n, k) => Nearest(kinds, o, n - 1, k)
        BY <1>1, <2>1 DEF Nearest
    <2>4. \A k : Nearest(kinds, o, n - 1, k) => Nearest(kinds, o, n, k)
        BY <1>1, <2>2 DEF Nearest
    <2>5. QED
        BY <1>1, <2>1, <2>2, <2>3, <2>4
<1>2. \A k : k \in 1 .. n - 1 => k \in 1 .. n
    OBVIOUS
<1>3. \A kinds, m, k : Nearest(kinds, o, m, k) => k \in 1 .. m
    BY DEF Nearest
<1>4. QED
    BY <1>1, <1>2, <1>3 DEF TrueLeads, FalseLeads, LoopLeads

LEMMA LeadsHere ==
    ASSUME NEW o, NEW n \in Nat \ {0}
    PROVE  /\ o[n].kind \in {"and"} \cup Branching => TrueLeads(o, n, o[n].begin)
           /\ o[n].kind = "or" => FalseLeads(o, n, o[n].begin)
           /\ o[n].kind \in Branching => FalseLeads(o, n, o[n].end)
           /\ o[n].kind \in Loops => LoopLeads(o, n, o[n].end, o[n].join)
<1>1. n \in 1 .. n /\ (n + 1) .. n = {}
    OBVIOUS
<1>2. \A kinds : o[n].kind \in kinds => Nearest(kinds, o, n, n)
    BY <1>1 DEF Nearest
<1>3. o[n].kind \in Branching => o[n].kind # "or"
    BY DEF Branching
<1>4. QED
    BY <1>1, <1>2, <1>3 DEF TrueLeads, FalseLeads, LoopLeads

\* A visit that turns into another: a loop stays a loop.
LEMMA LoopTurns ==
    ASSUME NEW o, NEW p, NEW n \in Nat \ {0}, \A i \in 1 .. n - 1 : p[i] = o[i],
           o[n].kind \in Loops <=> p[n].kind \in Loops,
           o[n].kind \in Loops => p[n].end = o[n].end /\ p[n].join = o[n].join,
           NEW e, NEW c, LoopLeads(o, n, e, c)
    PROVE  LoopLeads(p, n, e, c)
<1>1. CASE o[n].kind \notin Loops
    <2>1. LoopLeads(o, n - 1, e, c) /\ n - 1 \in Nat
        BY <1>1, LeadsOver
    <2>2. LoopLeads(p, n - 1, e, c)
        BY <2>1, LeadsAgree
    <2>3. QED
        BY <1>1, <2>2, LeadsOver
<1>2. CASE o[n].kind \in Loops
    <2>1. PICK k \in 1 .. n : Nearest(Loops, o, n, k) /\ o[k].end = e /\ o[k].join = c
        BY <1>2 DEF LoopLeads
    <2>2. k = n
        <3>1. k # n => n \in (k + 1) .. n
            OBVIOUS
        <3>2. QED
            BY <1>2, <2>1, <3>1 DEF Nearest
    <2>3. QED
        BY <1>2, <2>1, <2>2, LeadsHere
<1>3. QED
    BY <1>1, <1>2

-----------------------------------------------------------------------------
\* What a visit under way is made of.
Visits == [kind : Kind, begin : Blocks \cup {NoBlock}, end : Blocks \cup {NoBlock},
           join : Blocks \cup {NoBlock}, saved : Context]

LEMMA Grown ==
    ASSUME FlowGraphTypeOK, NEW k \in Nat, Len(succ') = Len(succ) + k
    PROVE  Blocks \subseteq Blocks' /\ Context \subseteq Context' /\ Visits \subseteq Visits'
<1>1. Blocks \subseteq Blocks'
    BY DEF Blocks, FlowGraphTypeOK
<1>2. Context \subseteq Context'
    BY <1>1 DEF Context
<1>3. QED
    BY <1>1, <1>2 DEF Visits

LEMMA TopFacts ==
    ASSUME BuilderInv, open # <<>>
    PROVE  /\ GraphInv /\ functions # <<>> /\ insert \in Here /\ Here \subseteq Blocks
           /\ open \in Seq(Visits) /\ context \in Context
           /\ Len(open) \in Nat \ {0} /\ DOMAIN open = 1 .. Len(open)
           /\ Top = open[Len(open)] /\ Top \in Visits /\ BlocksIn(Top) \subseteq Here
           /\ ended \subseteq Blocks /\ ~asserted
           /\ \A i \in 1 .. Len(open) : BlocksIn(open[i]) \subseteq Here
           /\ Len(succ) \in Nat /\ Blocks = 1 .. Len(succ)
<1>1. GraphInv /\ open \in Seq(Visits) /\ ended \subseteq Blocks /\ ~asserted
      /\ context \in Context
    BY DEF BuilderInv, GraphInv, BuilderTypeOK, Visits, EndInv
<1>2. functions # <<>> /\ insert \in Here /\ \A i \in DOMAIN open : BlocksIn(open[i]) \subseteq Here
    BY DEF BuilderInv, LaidOut
<1>3. Here \subseteq Blocks /\ Len(succ) \in Nat /\ Blocks = 1 .. Len(succ)
    BY <1>1, <1>2, HereFacts DEF GraphInv
<1>4. Len(open) \in Nat \ {0} /\ DOMAIN open = 1 .. Len(open) /\ Len(open) \in DOMAIN open
      /\ open[Len(open)] \in Visits
    <2> HIDE DEF Visits
    <2> QED  BY <1>1, SeqFacts
<1>5. Top = open[Len(open)]
    BY DEF Top, Last
<1>6. QED
    BY <1>1, <1>2, <1>3, <1>4, <1>5

\* The blocks the context names are blocks of the function.
LEMMA TargetsHere ==
    ASSUME BuilderInv, open # <<>>
    PROVE  /\ Inside(Conditions \cup Logic) => context.trueBB \in Here /\ context.falseBB \in Here
           /\ context.iteration_endBB = NoBlock \/ context.iteration_endBB \in Here
           /\ context.iteration_condBB = NoBlock \/ context.iteration_condBB \in Here
<1>1. \A i \in 1 .. Len(open) : BlocksIn(open[i]) \subseteq Here
    BY TopFacts
<1>2. \A i \in 1 .. Len(open) :
        /\ open[i].kind \in Logic \cup Branching \cup Bodies => open[i].begin \in Here
        /\ open[i].kind \in Branching \cup Bodies => open[i].end \in Here /\ open[i].join \in Here
    BY <1>1 DEF BlocksIn, Logic, Branching, Bodies
<1>3. ASSUME Inside(Conditions \cup Logic)
      PROVE  context.trueBB \in Here /\ context.falseBB \in Here
    <2>1. TrueLeads(open, Len(open), context.trueBB) /\ FalseLeads(open, Len(open), context.falseBB)
        BY <1>3 DEF BuilderInv, ContextInv
    <2>2. QED
        BY <1>2, <2>1 DEF TrueLeads, FalseLeads, Nearest, Logic
<1>4. LoopLeads(open, Len(open), context.iteration_endBB, context.iteration_condBB)
    BY DEF BuilderInv, ContextInv
<1>5. Loops \subseteq Branching \cup Bodies
    BY DEF Loops, Branching, Bodies
<1>6. QED
    BY <1>2, <1>3, <1>4, <1>5 DEF LoopLeads, Nearest

\* The visits below the top keep what they save while the stack above changes.
LEMMA BelowKept ==
    ASSUME BuilderInv, NEW m \in Nat, m <= Len(open), \A i \in 1 .. m : open'[i] = open[i]
    PROVE  \A i \in 1 .. m : SavedAt(open', i)
<1>1. \A i \in 1 .. m : SavedAt(open, i)
    BY DEF BuilderInv, ContextInv, BuilderTypeOK
<1>2. QED
    BY <1>1, SavedAgree

\* add_instruction at an open insert block.
LEMMA JumpFacts ==
    ASSUME BuilderInv, open # <<>>, insert \notin ended, NEW targets \in Seq(Here),
           Jump(0, targets), UNCHANGED functions
    PROVE  /\ GraphInv' /\ Len(succ') = Len(succ) + 0 /\ Here' = Here
           /\ ended' = ended \cup {insert} /\ ~asserted'
<1>1. BranchTo(0, insert, targets) /\ ended' = ended \cup {insert} /\ ~asserted'
    BY TopFacts DEF Jump, Terminate
<1>2. GraphInv' /\ Len(succ') = Len(succ) /\ Here' = Here
    BY <1>1, TopFacts, JumpGraph
<1>3. QED
    BY <1>1, <1>2, TopFacts

LEMMA JumpIfOpenFacts ==
    ASSUME BuilderInv, open # <<>>, NEW target \in Here, JumpIfOpen(target), UNCHANGED functions
    PROVE  /\ GraphInv' /\ Len(succ') = Len(succ) + 0 /\ Here' = Here
           /\ ended' = ended \cup {insert} /\ ~asserted'
<1>1. CASE insert \in ended
    <2>1. UNCHANGED <<functions, succ, pred, ended, asserted>>
        BY <1>1 DEF JumpIfOpen
    <2>2. GraphInv' /\ Here' = Here
        BY <2>1, TopFacts DEF GraphInv, FlowGraphTypeOK, Apart, EdgesAgree, Functions, Here,
                              BlocksOf, Blocks
    <2>3. QED
        BY <1>1, <2>1, <2>2, TopFacts
<1>2. CASE insert \notin ended
    <2>1. <<target>> \in Seq(Here)
        OBVIOUS
    <2>2. Jump(0, <<target>>)
        BY <1>2 DEF JumpIfOpen
    <2>3. QED
        BY <1>2, <2>1, <2>2, JumpFacts
<1>3. QED
    BY <1>1, <1>2

-----------------------------------------------------------------------------
\* A visit returns: the stack below is as it was.
LEMMA PopFacts ==
    ASSUME BuilderInv, open # <<>>, open' = Front(open), NEW k \in Nat,
           Len(succ') = Len(succ) + k
    PROVE  /\ open' \in Seq(Visits') /\ Len(open') = Len(open) - 1
           /\ DOMAIN open' = 1 .. Len(open) - 1
           /\ \A i \in 1 .. Len(open) - 1 : open'[i] = open[i]
           /\ open' # <<>> <=> Len(open) > 1
           /\ open' # <<>> => Top' = open[Len(open) - 1]
           /\ Nested'
           /\ \A i \in DOMAIN open' : SavedAt(open', i)
<1>1. open \in Seq(Visits) /\ Visits \subseteq Visits' /\ Len(open) \in Nat \ {0}
    BY TopFacts, Grown DEF GraphInv
<1>2. /\ open' \in Seq(Visits) /\ Len(open') = Len(open) - 1
      /\ DOMAIN open' = 1 .. Len(open) - 1
      /\ \A i \in 1 .. Len(open) - 1 : open'[i] = open[i]
    BY <1>1, FrontFacts
<1>3. open' \in Seq(Visits')
    BY <1>1, <1>2, SeqFacts
<1>4. open' # <<>> <=> Len(open) > 1
    BY <1>1, <1>2
<1>5. open' # <<>> => Top' = open[Len(open) - 1]
    BY <1>1, <1>2, <1>4 DEF Top, Last
<1>6. Nested'
    <2>1. \A i \in 1 .. Len(open) : open[i].kind = "function" <=> i = 1
        BY TopFacts DEF BuilderInv, Nested
    <2>2. \A i \in 1 .. Len(open) - 1 :
            /\ open[i].kind \notin Conditions
            /\ open[i].kind \in Logic \cup Branching
                  <=> open[i + 1].kind \in Conditions \cup Logic
        BY <1>1, TopFacts DEF BuilderInv, Nested
    <2>3. QED
        BY <1>1, <1>2, <2>1, <2>2 DEF Nested
<1>7. \A i \in DOMAIN open' : SavedAt(open', i)
    BY <1>1, <1>2, BelowKept
<1>8. QED
    BY <1>2, <1>3, <1>4, <1>5, <1>6, <1>7

LEMMA OwedFacts ==
    ASSUME BuilderInv, open # <<>>
    PROVE  /\ \A i \in 1 .. Len(open) : insert \notin Owed(open[i]) /\ Owed(open[i]) \cap ended = {}
           /\ \A i, j \in 1 .. Len(open) : i # j => Owed(open[i]) \cap Owed(open[j]) = {}
           /\ \A i \in 1 .. Len(open) :
                /\ open[i].kind \in Branching => open[i].begin # open[i].end
                /\ open[i].kind = "then_else" => open[i].end # open[i].join
                /\ Owed(open[i]) \subseteq Here
           /\ \A f \in DOMAIN functions : \A b \in BlocksOf(f) :
                b \in ended \/ b = insert \/ \E i \in 1 .. Len(open) : b \in Owed(open[i])
<1>1. OwedOnce /\ EndedOrOwed /\ DOMAIN open = 1 .. Len(open)
    BY TopFacts DEF BuilderInv, EndInv
<1>2. \A i \in 1 .. Len(open) : Owed(open[i]) \subseteq BlocksIn(open[i])
    BY DEF Owed, BlocksIn, Logic, Branching, Bodies
<1>3. \A i \in 1 .. Len(open) : Owed(open[i]) \subseteq Here
    BY <1>2, TopFacts
<1>4. QED
    BY <1>1, <1>3 DEF OwedOnce, EndedOrOwed, AllOwed

\* A body is left: the block that follows the statement comes next.
LEMMA LeaveStep ==
    ASSUME BuilderInv, LeaveThen \/ LeaveElse \/ LeaveBody
    PROVE  BuilderInv'
<1>1. /\ open # <<>> /\ Top.kind \in {"then", "else", "body"}
      /\ JumpIfOpen(Top.join) /\ UNCHANGED functions /\ open' = Front(open)
      /\ insert' = IF Top.kind = "else" THEN Top.join ELSE Top.end
      /\ context' = IF Top.kind = "body" THEN Top.saved ELSE RestoreTargets
    BY DEF LeaveThen, LeaveElse, LeaveBody, Inside
<1> PICK n \in Nat : n = Len(open) /\ n # 0
    BY <1>1, TopFacts
<1>2. n \in Nat \ {0} /\ Top = open[n] /\ DOMAIN open = 1 .. n /\ n \in 1 .. n
    BY <1>1, TopFacts
<1>3. n # 1 /\ n - 1 \in 1 .. n /\ n - 1 < n
    BY <1>1, <1>2 DEF BuilderInv, Nested
<1>4. Top.join \in Here /\ Top.end \in Here /\ insert' \in Here /\ Owed(Top) = {insert'}
    BY <1>1, TopFacts DEF BlocksIn, Owed, Logic, Branching, Bodies
<1>5. /\ GraphInv' /\ Len(succ') = Len(succ) + 0 /\ Here' = Here
      /\ ended' = ended \cup {insert} /\ ~asserted'
    BY <1>1, <1>4, JumpIfOpenFacts
<1>6. /\ open' \in Seq(Visits') /\ Len(open') = n - 1 /\ DOMAIN open' = 1 .. n - 1
      /\ \A i \in 1 .. n - 1 : open'[i] = open[i]
      /\ open' # <<>> /\ Top' = open[n - 1] /\ Nested'
      /\ \A i \in DOMAIN open' : SavedAt(open', i)
    <2>1. open # <<>> /\ open' = Front(open) /\ 0 \in Nat /\ Len(succ') = Len(succ) + 0
        BY <1>1, <1>5
    <2>2. n > 1
        BY <1>3
    <2>3. QED
        BY <2>1, <2>2, PopFacts
<1>7. Blocks \subseteq Blocks' /\ Context \subseteq Context' /\ Here \subseteq Blocks /\ insert \in Here
      /\ functions # <<>> /\ ended \subseteq Blocks /\ context \in Context /\ Top \in Visits
    BY <1>1, <1>5, TopFacts, Grown DEF GraphInv
<1>8. context' \in Context'
    <2>1. Top.saved \in Context
        BY <1>7 DEF Visits
    <2>2. RestoreTargets \in Context
        BY <1>7, <2>1 DEF RestoreTargets, Context
    <2>3. QED
        BY <1>1, <1>7, <2>1, <2>2
<1>9. BuilderTypeOK'
    <2>1. insert' \in Blocks' /\ ended' \subseteq Blocks' /\ asserted' = FALSE
        BY <1>4, <1>5, <1>7
    <2>2. FlowGraphTypeOK' /\ open' \in Seq(Visits')
        BY <1>5, <1>6 DEF GraphInv
    <2>3. QED
        BY <1>8, <2>1, <2>2 DEF BuilderTypeOK, Visits
<1>10. LaidOut'
    <2>1. \A i \in 1 .. n : BlocksIn(open[i]) \subseteq Here
        BY <1>1, TopFacts
    <2>2. \A i \in DOMAIN open' : i \in 1 .. n /\ open'[i] = open[i]
        BY <1>2, <1>6
    <2>3. QED
        BY <1>1, <1>4, <1>5, <1>7, <2>1, <2>2 DEF LaidOut
<1>11. \A i \in 1 .. n - 1 : i \in 1 .. n /\ i # n
    BY <1>2
<1>12. OwedOnce'
    <2>1. \A i \in 1 .. n : insert \notin Owed(open[i]) /\ Owed(open[i]) \cap ended = {}
        BY <1>1, OwedFacts
    <2>2. \A i, j \in 1 .. n : i # j => Owed(open[i]) \cap Owed(open[j]) = {}
        BY <1>1, OwedFacts
    <2>3. \A i \in 1 .. n : /\ open[i].kind \in Branching => open[i].begin # open[i].end
                            /\ open[i].kind = "then_else" => open[i].end # open[i].join
        BY <1>1, OwedFacts
    <2>4. ASSUME NEW i \in 1 .. n - 1
          PROVE  insert' \notin Owed(open[i]) /\ Owed(open[i]) \cap ended' = {}
        <3>1. i \in 1 .. n /\ i # n /\ n \in 1 .. n /\ open[n] = Top
            BY <1>2, <1>11
        <3>2. Owed(open[i]) \cap Owed(Top) = {}
            BY <2>2, <3>1
        <3>3. insert \notin Owed(open[i]) /\ Owed(open[i]) \cap ended = {}
            BY <2>1, <3>1
        <3>4. Owed(Top) = {insert'} /\ ended' = ended \cup {insert}
            BY <1>4, <1>5
        <3>5. QED
            BY <3>2, <3>3, <3>4
    <2>5. QED
        BY <1>6, <1>11, <2>2, <2>3, <2>4 DEF OwedOnce
<1>13. EndedByCondition'
    <2>1. Top' = open[n - 1] /\ open[n - 1].kind \notin Conditions \cup Logic \cup Branching
        <3>1. open[n].kind \notin Conditions \cup Logic
            BY <1>1, <1>2 DEF Conditions, Logic
        <3>2. /\ open[n - 1].kind \notin Conditions
              /\ open[n - 1].kind \in Logic \cup Branching
                    <=> open[(n - 1) + 1].kind \in Conditions \cup Logic
            BY <1>2, <1>3 DEF BuilderInv, Nested
        <3>3. QED
            BY <1>2, <1>6, <3>1, <3>2
    <2>2. QED
        BY <2>1 DEF EndedByCondition, Inside
<1>14. EndedOrOwed'
    <2>1. ASSUME NEW f \in DOMAIN functions, NEW b \in BlocksOf(f)
          PROVE  b \in ended' \/ b = insert' \/ \E i \in 1 .. n - 1 : b \in Owed(open[i])
        <3>1. b \in ended \/ b = insert \/ \E i \in 1 .. n : b \in Owed(open[i])
            BY <1>1, OwedFacts
        <3>2. \A i \in 1 .. n : i \in 1 .. n - 1 \/ i = n
            BY <1>2
        <3>3. QED
            BY <1>2, <1>4, <1>5, <3>1, <3>2
    <2>2. \A i \in 1 .. n - 1 : i \in DOMAIN open' /\ Owed(open[i]) = Owed(open'[i])
        BY <1>6
    <2>3. QED
        <3>1. UNCHANGED functions
            BY <1>1
        <3>2. ASSUME NEW f \in DOMAIN functions, NEW b \in BlocksOf(f)
              PROVE  b \in ended' \/ (open' # <<>> /\ (b = insert' \/ b \in AllOwed'))
            <4>1. b \in ended' \/ b = insert' \/ \E i \in 1 .. n - 1 : b \in Owed(open[i])
                BY <2>1, <3>2
            <4>2. QED
                BY <1>6, <2>2, <4>1 DEF AllOwed
        <3>3. QED
            BY <3>1, <3>2 DEF EndedOrOwed, BlocksOf
<1>15. ContextInv'
    <2>1. ~Inside(Conditions \cup Logic)'
        <3>1. open[n - 1].kind \notin Conditions
              /\ (open[n - 1].kind \in Logic \cup Branching
                    <=> open[(n - 1) + 1].kind \in Conditions \cup Logic)
            BY <1>2, <1>3 DEF BuilderInv, Nested
        <3>2. open[n].kind \notin Conditions \cup Logic
            BY <1>1, <1>2 DEF Conditions, Logic
        <3>3. QED
            BY <1>2, <1>6, <3>1, <3>2 DEF Inside
    <2>2. LoopLeads(open, n - 1, context'.iteration_endBB, context'.iteration_condBB)
        <3>1. CASE Top.kind = "body"
            BY <1>1, <1>2, <3>1 DEF BuilderInv, ContextInv, SavedAt, Loops
        <3>2. CASE Top.kind # "body"
            <4>1. open[n].kind \notin Loops
                BY <1>1, <1>2, <3>2 DEF Loops
            <4>2. LoopLeads(open, n, context.iteration_endBB, context.iteration_condBB)
                BY DEF BuilderInv, ContextInv
            <4>3. context'.iteration_endBB = context.iteration_endBB
                  /\ context'.iteration_condBB = context.iteration_condBB
                BY <1>1, <1>7, <3>2 DEF RestoreTargets, Context
            <4>4. QED
                BY <1>2, <4>1, <4>2, <4>3, LeadsOver
        <3>3. QED
            BY <3>1, <3>2
    <2>3. LoopLeads(open', n - 1, context'.iteration_endBB, context'.iteration_condBB)
        <3>1. n - 1 \in Nat /\ \A i \in 1 .. n - 1 : open'[i] = open[i]
            BY <1>2, <1>6
        <3>2. QED
            BY <2>2, <3>1, LeadsAgree
    <2>4. CASE n = 2
        <3>1. Top.saved = Outside
            BY <1>2, <2>4 DEF BuilderInv, ContextInv
        <3>2. context'.iteration_endBB = NoBlock /\ context'.iteration_condBB = NoBlock
            <4>1. open[1].kind = "function"
                BY <1>2 DEF BuilderInv, Nested
            <4>2. \A k \in 1 .. n - 1 : open[k].kind \notin Loops
                BY <2>4, <4>1 DEF Loops
            <4>3. QED
                BY <2>2, <4>2 DEF LoopLeads, Nearest
        <3>3. context'.trueBB = NoBlock /\ context'.falseBB = NoBlock
            BY <1>1, <1>7, <3>1 DEF RestoreTargets, Outside, Context
        <3>4. context' = Outside
            BY <1>8, <3>2, <3>3 DEF Context, Outside
        <3>5. QED
            BY <1>6, <2>1, <2>3, <2>4, <3>4 DEF ContextInv
    <2>5. CASE n # 2
        <3>1. open'[2] = open[2] /\ ~(n - 1 < 2) /\ open[2].saved = Outside
            BY <1>2, <1>3, <1>6, <2>5 DEF BuilderInv, ContextInv
        <3>2. QED
            BY <1>6, <2>1, <2>3, <3>1 DEF ContextInv
    <2>6. QED
        BY <2>4, <2>5
<1>16. QED
    BY <1>5, <1>6, <1>9, <1>10, <1>12, <1>13, <1>14, <1>15 DEF BuilderInv, EndInv, GraphInv

LEMMA SameGraph ==
    ASSUME GraphInv, UNCHANGED graphVars
    PROVE  GraphInv' /\ Len(succ') = Len(succ) + 0 /\ Here' = Here /\ Len(succ) \in Nat
<1>1. UNCHANGED <<functions, succ, pred>>
    BY DEF graphVars
<1>2. Len(succ) \in Nat
    BY DEF GraphInv, FlowGraphTypeOK
<1>3. QED
    BY <1>1, <1>2 DEF GraphInv, FlowGraphTypeOK, Apart, EdgesAgree, Functions, Here, BlocksOf, Blocks

\* The end of a function: nothing is owed any more.
LEMMA FinishStep ==
    ASSUME BuilderInv, FinishFunction
    PROVE  BuilderInv'
<1>1. /\ open # <<>> /\ Top.kind = "function" /\ open' = Front(open)
      /\ UNCHANGED <<graphVars, insert, context>>
      /\ insert \in ended => UNCHANGED <<ended, asserted>>
      /\ insert \notin ended => Terminate(insert)
    BY DEF FinishFunction, Inside
<1>2. Len(open) = 1 /\ Top = open[1]
    <2>1. Len(open) \in Nat \ {0} /\ Top = open[Len(open)] /\ DOMAIN open = 1 .. Len(open)
        BY <1>1, TopFacts
    <2>2. QED
        BY <1>1, <2>1 DEF BuilderInv, Nested
<1>3. GraphInv' /\ Len(succ') = Len(succ) + 0
    BY <1>1, TopFacts, SameGraph
<1>4. ended' = ended \cup {insert} /\ ~asserted'
    <2>1. CASE insert \in ended
        BY <1>1, <2>1, TopFacts
    <2>2. CASE insert \notin ended
        BY <1>1, <2>2, TopFacts DEF Terminate
    <2>3. QED
        BY <2>1, <2>2
<1>5. open' \in Seq(Visits') /\ Len(open') = 0 /\ DOMAIN open' = {} /\ open' = <<>>
    <2>1. /\ open' \in Seq(Visits') /\ Len(open') = Len(open) - 1
          /\ DOMAIN open' = 1 .. Len(open) - 1 /\ (open' # <<>> <=> Len(open) > 1)
        <3>1. open # <<>> /\ open' = Front(open) /\ 0 \in Nat /\ Len(succ') = Len(succ) + 0
            BY <1>1, <1>3
        <3>2. QED
            BY <3>1, PopFacts
    <2>2. QED
        BY <1>2, <2>1
<1>6. Blocks \subseteq Blocks' /\ Context \subseteq Context' /\ insert \in Blocks /\ ended \subseteq Blocks
      /\ context \in Context
    BY <1>1, <1>3, TopFacts, Grown DEF GraphInv
<1>7. BuilderTypeOK'
    <2>1. insert' \in Blocks' /\ ended' \subseteq Blocks' /\ asserted' = FALSE
        BY <1>1, <1>4, <1>6
    <2>2. QED
        BY <1>1, <1>3, <1>5, <1>6, <2>1 DEF BuilderTypeOK, Visits, GraphInv
<1>8. Nested' /\ LaidOut' /\ OwedOnce' /\ EndedByCondition'
    BY <1>5 DEF Nested, LaidOut, OwedOnce, EndedByCondition, Inside
<1>9. EndedOrOwed'
    <2>1. \A i \in 1 .. Len(open) : Owed(open[i]) = {}
        BY <1>1, <1>2 DEF Owed, Logic, Branching
    <2>2. \A f \in DOMAIN functions : \A b \in BlocksOf(f) : b \in ended \/ b = insert
        BY <1>1, <2>1, OwedFacts
    <2>3. functions' = functions
        BY <1>1 DEF graphVars
    <2>4. QED
        BY <1>4, <2>2, <2>3 DEF EndedOrOwed, BlocksOf
<1>10. ContextInv'
    <2>1. context' = Outside
        BY <1>1, <1>2 DEF BuilderInv, ContextInv
    <2>2. 1 .. 0 = {} /\ 0 < 2
        OBVIOUS
    <2>3. LoopLeads(open', 0, context'.iteration_endBB, context'.iteration_condBB)
        BY <2>1, <2>2 DEF LoopLeads, Outside
    <2>4. QED
        BY <1>5, <2>1, <2>2, <2>3 DEF ContextInv, Inside
<1>11. QED
    BY <1>3, <1>4, <1>7, <1>8, <1>9, <1>10 DEF BuilderInv, EndInv, GraphInv

\* A statement that ends its block.
LEMMA EndBlockStep ==
    ASSUME BuilderInv, VisitReturn \/ VisitBreak \/ VisitContinue
    PROVE  BuilderInv'
<1>1. /\ open # <<>> /\ insert \notin ended
      /\ Top.kind \in {"function", "then", "then_else", "else", "body"}
      /\ UNCHANGED <<insert, context, open, functions>>
    BY DEF VisitReturn, VisitBreak, VisitContinue, NextStatement, AtStatement, Inside, graphVars
<1>2. /\ GraphInv' /\ Len(succ') = Len(succ) + 0 /\ Here' = Here
      /\ ended' = ended \cup {insert} /\ ~asserted'
    <2>1. CASE VisitReturn
        <3>1. Terminate(insert) /\ UNCHANGED graphVars
            BY <2>1 DEF VisitReturn
        <3>2. QED
            BY <1>1, <3>1, TopFacts, SameGraph DEF Terminate
    <2>2. CASE VisitBreak
        <3>1. context.iteration_endBB \in Here
            BY <1>1, <2>2, TargetsHere DEF VisitBreak
        <3>2. Jump(0, <<context.iteration_endBB>>)
            BY <2>2 DEF VisitBreak
        <3>3. <<context.iteration_endBB>> \in Seq(Here)
            BY <3>1
        <3>4. QED
            BY <1>1, <3>2, <3>3, JumpFacts
    <2>3. CASE VisitContinue
        <3>1. context.iteration_condBB \in Here
            BY <1>1, <2>3, TargetsHere DEF VisitContinue
        <3>2. Jump(0, <<context.iteration_condBB>>)
            BY <2>3 DEF VisitContinue
        <3>3. <<context.iteration_condBB>> \in Seq(Here)
            BY <3>1
        <3>4. QED
            BY <1>1, <3>2, <3>3, JumpFacts
    <2>4. QED
        BY <2>1, <2>2, <2>3
<1>3. /\ Blocks \subseteq Blocks' /\ Context \subseteq Context' /\ Visits \subseteq Visits'
      /\ insert \in Here /\ Here \subseteq Blocks /\ ended \subseteq Blocks /\ context \in Context
      /\ open \in Seq(Visits) /\ functions # <<>> /\ DOMAIN open = 1 .. Len(open)
    BY <1>1, <1>2, TopFacts, Grown DEF GraphInv
<1>4. BuilderTypeOK'
    <2>1. insert' \in Blocks' /\ ended' \subseteq Blocks' /\ asserted' = FALSE
        BY <1>1, <1>2, <1>3
    <2>2. FlowGraphTypeOK' /\ open' \in Seq(Visits')
        BY <1>1, <1>2, <1>3, SeqFacts DEF GraphInv
    <2>3. QED
        BY <1>1, <1>3, <2>1, <2>2 DEF BuilderTypeOK, Visits
<1>5. Nested'
    BY <1>1 DEF BuilderInv, Nested
<1>6. LaidOut'
    BY <1>1, <1>2 DEF BuilderInv, LaidOut
<1>7. OwedOnce'
    <2>1. OwedOnce
        BY DEF BuilderInv, EndInv
    <2>2. QED
        BY <1>1, <1>2, <2>1 DEF OwedOnce
<1>8. EndedByCondition'
    <2>1. ~Inside(Conditions \cup Logic \cup Branching)
        BY <1>1 DEF Inside, Conditions, Logic, Branching
    <2>2. QED
        BY <1>1, <2>1 DEF EndedByCondition, Inside, Top
<1>9. EndedOrOwed'
    <2>1. EndedOrOwed
        BY DEF BuilderInv, EndInv
    <2>2. QED
        BY <1>1, <1>2, <2>1 DEF EndedOrOwed, AllOwed, BlocksOf
<1>10. ContextInv'
    <2>1. ContextInv
        BY DEF BuilderInv
    <2>2. QED
        BY <1>1, <2>1 DEF ContextInv, Inside, Top
<1>11. QED
    BY <1>2, <1>4, <1>5, <1>6, <1>7, <1>8, <1>9, <1>10 DEF BuilderInv, EndInv, GraphInv

\* A function begins, with its entry block.
LEMMA StartStep ==
    ASSUME BuilderInv, StartFunction
    PROVE  BuilderInv'
<1> DEFINE first == PlainFrame("function")
<1>1. /\ open = <<>> /\ functions' = Append(functions, Created(1))
      /\ succ' = Append(succ, <<>>) /\ pred' = Append(pred, <<>>)
      /\ insert' = Len(succ) + 1 /\ open' = <<first>>
      /\ UNCHANGED <<ended, asserted, context>>
    BY DEF StartFunction
<1>2. GraphInv /\ FlowGraphTypeOK /\ ended \subseteq Blocks /\ ~asserted /\ context \in Context
    BY DEF BuilderInv, GraphInv, BuilderTypeOK, EndInv
<1>3. /\ GraphInv' /\ Len(succ') = Len(succ) + 1 /\ Here' = {insert'}
      /\ functions' # <<>>
      /\ \A f \in DOMAIN functions' :
            \/ f \in DOMAIN functions /\ BlocksOf(f)' = BlocksOf(f)
            \/ BlocksOf(f)' = Here'
    BY <1>1, <1>2, StartGraph
<1>4. Len(succ) \in Nat /\ Blocks = 1 .. Len(succ) /\ Blocks' = 1 .. Len(succ) + 1
      /\ insert' \notin Blocks /\ insert' \in Blocks'
    BY <1>1, <1>2, <1>3 DEF FlowGraphTypeOK, Blocks
<1>5. Blocks \subseteq Blocks' /\ Context \subseteq Context' /\ Visits \subseteq Visits'
    BY <1>2, <1>3, Grown
<1>6. first = [kind |-> "function", begin |-> NoBlock, end |-> NoBlock, join |-> NoBlock,
               saved |-> context]
    BY DEF PlainFrame, Frame
<1>7. first \in Visits
    BY <1>2, <1>6 DEF Visits, Kind
<1> HIDE DEF first
<1>8. /\ open' \in Seq(Visits') /\ Len(open') = 1 /\ DOMAIN open' = {1} /\ open'[1] = first
      /\ open' # <<>> /\ first.kind = "function"
    BY <1>1, <1>5, <1>6, <1>7
<1>9. BuilderTypeOK'
    <2>1. insert' \in Blocks' /\ ended' \subseteq Blocks' /\ asserted' = FALSE /\ context' \in Context'
        BY <1>1, <1>2, <1>4, <1>5
    <2>2. FlowGraphTypeOK' /\ open' \in Seq(Visits')
        BY <1>3, <1>8 DEF GraphInv
    <2>3. QED
        BY <2>1, <2>2 DEF BuilderTypeOK, Visits
<1>10. Nested'
    BY <1>8 DEF Nested
<1>11. Owed(first) = {} /\ BlocksIn(first) = {}
    BY <1>8 DEF Owed, BlocksIn, Logic, Branching, Bodies
<1>12. LaidOut'
    BY <1>3, <1>8, <1>11 DEF LaidOut
<1>13. OwedOnce'
    BY <1>8, <1>11 DEF OwedOnce, Branching
<1>14. Top' = first /\ ~Inside(Conditions \cup Logic \cup Branching)'
    <2>1. Top' = first
        BY <1>8 DEF Top, Last
    <2>2. QED
        BY <1>8, <2>1 DEF Inside, Conditions, Logic, Branching
<1>15. EndedByCondition'
    BY <1>14 DEF EndedByCondition, Inside
<1>16. EndedOrOwed'
    <2>1. \A f \in DOMAIN functions : BlocksOf(f) \subseteq ended
        BY <1>1 DEF BuilderInv, EndInv, EndedOrOwed
    <2>2. QED
        BY <1>1, <1>3, <1>8, <2>1 DEF EndedOrOwed, BlocksOf
<1>17. ContextInv'
    <2>1. context' = Outside
        BY <1>1 DEF BuilderInv, ContextInv
    <2>2. LoopLeads(open', 1, context'.iteration_endBB, context'.iteration_condBB)
        BY <1>8, <2>1 DEF LoopLeads, Outside, Loops
    <2>3. SavedAt(open', 1)
        BY <1>8 DEF SavedAt, Loops
    <2>4. QED
        BY <1>8, <1>14, <2>1, <2>2, <2>3 DEF ContextInv, Inside
<1>18. QED
    BY <1>1, <1>2, <1>3, <1>9, <1>10, <1>12, <1>13, <1>15, <1>16, <1>17 DEF BuilderInv, EndInv, GraphInv

\* A condition without operators: the insert block branches on its value.
LEMMA OperandStep ==
    ASSUME BuilderInv, VisitOperand
    PROVE  BuilderInv'
<1>1. /\ open # <<>> /\ Top.kind \in Conditions /\ Inside(Conditions \cup Logic)
      /\ Inside(Conditions)
      /\ Jump(0, <<context.trueBB, context.falseBB>>) /\ open' = Front(open)
      /\ UNCHANGED <<functions, insert, context>>
    BY DEF VisitOperand, Inside, Conditions
<1> PICK n \in Nat : n = Len(open) /\ n # 0
    BY <1>1, TopFacts
<1>2. /\ n \in Nat \ {0} /\ Top = open[n] /\ DOMAIN open = 1 .. n /\ n \in 1 .. n
      /\ open[n].kind \in Conditions
    BY <1>1, TopFacts
<1>3. /\ open[1].kind = "function" /\ n # 1 /\ n - 1 \in 1 .. n /\ n - 1 < n
      /\ open[n - 1].kind \in Logic \cup Branching /\ open[n - 1].kind \notin Conditions
      /\ n - 1 # 1
    <2>1. open[1].kind = "function" /\ n # 1 /\ n - 1 \in 1 .. n /\ n - 1 < n
        BY <1>2 DEF BuilderInv, Nested, Conditions
    <2>2. /\ open[n - 1].kind \notin Conditions
          /\ open[n - 1].kind \in Logic \cup Branching
                <=> open[(n - 1) + 1].kind \in Conditions \cup Logic
        BY <1>2, <2>1 DEF BuilderInv, Nested
    <2>3. open[n - 1].kind \in Logic \cup Branching
        BY <1>2, <2>2
    <2>4. QED
        BY <2>1, <2>2, <2>3 DEF Logic, Branching
<1>4. insert \notin ended
    BY <1>1 DEF BuilderInv, EndInv, EndedByCondition
<1>5. /\ GraphInv' /\ Len(succ') = Len(succ) + 0 /\ Here' = Here
      /\ ended' = ended \cup {insert} /\ ~asserted'
    <2>1. <<context.trueBB, context.falseBB>> \in Seq(Here)
        BY <1>1, TargetsHere
    <2>2. QED
        BY <1>1, <1>4, <2>1, JumpFacts
<1>6. /\ open' \in Seq(Visits') /\ Len(open') = n - 1 /\ DOMAIN open' = 1 .. n - 1
      /\ \A i \in 1 .. n - 1 : open'[i] = open[i]
      /\ open' # <<>> /\ Top' = open[n - 1] /\ Nested'
      /\ \A i \in DOMAIN open' : SavedAt(open', i)
    <2>1. open # <<>> /\ open' = Front(open) /\ 0 \in Nat /\ Len(succ') = Len(succ) + 0
        BY <1>1, <1>5
    <2>2. n > 1
        BY <1>3
    <2>3. QED
        BY <2>1, <2>2, PopFacts
<1>7. /\ Blocks \subseteq Blocks' /\ Context \subseteq Context' /\ Here \subseteq Blocks
      /\ insert \in Here /\ functions # <<>> /\ ended \subseteq Blocks /\ context \in Context
    BY <1>1, <1>5, TopFacts, Grown DEF GraphInv
<1>8. BuilderTypeOK'
    <2>1. insert' \in Blocks' /\ ended' \subseteq Blocks' /\ asserted' = FALSE /\ context' \in Context'
        BY <1>1, <1>5, <1>7
    <2>2. FlowGraphTypeOK' /\ open' \in Seq(Visits')
        BY <1>5, <1>6 DEF GraphInv
    <2>3. QED
        BY <2>1, <2>2 DEF BuilderTypeOK, Visits
<1>9. \A i \in 1 .. n - 1 : i \in 1 .. n /\ i # n
    BY <1>2
<1>10. LaidOut'
    <2>1. \A i \in 1 .. n : BlocksIn(open[i]) \subseteq Here
        BY <1>1, TopFacts
    <2>2. QED
        BY <1>1, <1>5, <1>6, <1>7, <1>9, <2>1 DEF LaidOut
<1>11. OwedOnce'
    <2>1. \A i \in 1 .. n : insert \notin Owed(open[i]) /\ Owed(open[i]) \cap ended = {}
        BY <1>1, OwedFacts
    <2>2. \A i, j \in 1 .. n : i # j => Owed(open[i]) \cap Owed(open[j]) = {}
        BY <1>1, OwedFacts
    <2>3. \A i \in 1 .. n : /\ open[i].kind \in Branching => open[i].begin # open[i].end
                            /\ open[i].kind = "then_else" => open[i].end # open[i].join
        BY <1>1, OwedFacts
    <2>4. \A i \in 1 .. n - 1 : insert' \notin Owed(open[i]) /\ Owed(open[i]) \cap ended' = {}
        BY <1>1, <1>5, <1>9, <2>1
    <2>5. QED
        BY <1>6, <1>9, <2>2, <2>3, <2>4 DEF OwedOnce
<1>12. EndedByCondition'
    BY <1>1, <1>3, <1>5, <1>6 DEF EndedByCondition, Inside
<1>13. EndedOrOwed'
    <2>1. Owed(open[n]) = {}
        BY <1>2 DEF Owed, Conditions, Logic, Branching
    <2>2. ASSUME NEW f \in DOMAIN functions, NEW b \in BlocksOf(f)
          PROVE  b \in ended' \/ \E i \in 1 .. n - 1 : b \in Owed(open[i])
        <3>1. b \in ended \/ b = insert \/ \E i \in 1 .. n : b \in Owed(open[i])
            BY <1>1, OwedFacts
        <3>2. \A i \in 1 .. n : i \in 1 .. n - 1 \/ i = n
            BY <1>2
        <3>3. QED
            BY <1>5, <2>1, <3>1, <3>2
    <2>3. \A i \in 1 .. n - 1 : i \in DOMAIN open' /\ Owed(open[i]) = Owed(open'[i])
        BY <1>6
    <2>4. QED
        BY <1>1, <1>6, <2>2, <2>3 DEF EndedOrOwed, AllOwed, BlocksOf
<1>14. ContextInv'
    <2>1. n - 1 \in Nat /\ \A i \in 1 .. n - 1 : open'[i] = open[i]
        BY <1>2, <1>6
    <2>2. open[n].kind \notin {"and"} \cup Branching /\ open[n].kind \notin {"or"} \cup Branching
          /\ open[n].kind \notin Loops
        BY <1>2 DEF Conditions, Branching, Loops
    <2>3. /\ TrueLeads(open, n, context.trueBB) /\ FalseLeads(open, n, context.falseBB)
          /\ LoopLeads(open, n, context.iteration_endBB, context.iteration_condBB)
        BY <1>1 DEF BuilderInv, ContextInv
    <2>4. /\ TrueLeads(open, n - 1, context.trueBB) /\ FalseLeads(open, n - 1, context.falseBB)
          /\ LoopLeads(open, n - 1, context.iteration_endBB, context.iteration_condBB)
        BY <1>2, <2>2, <2>3, LeadsOver
    <2>5. /\ TrueLeads(open', n - 1, context.trueBB) /\ FalseLeads(open', n - 1, context.falseBB)
          /\ LoopLeads(open', n - 1, context.iteration_endBB, context.iteration_condBB)
        BY <2>1, <2>4, LeadsAgree
    <2>6. open'[2] = open[2] /\ ~(n - 1 < 2) /\ open[2].saved = Outside
        BY <1>2, <1>3, <1>6 DEF BuilderInv, ContextInv
    <2>7. QED
        BY <1>1, <1>6, <2>5, <2>6 DEF ContextInv
<1>15. QED
    BY <1>5, <1>6, <1>8, <1>10, <1>11, <1>12, <1>13, <1>14 DEF BuilderInv, EndInv, GraphInv

-----------------------------------------------------------------------------
\* The visit on top turns into another, which owes what its predecessor did
\* but for the block that is begun, and perhaps new blocks.
LEMMA TurnOwed ==
    ASSUME BuilderInv, open # <<>>, NEW frame \in Visits', open' = Return(frame),
           NEW k \in Nat, GraphInv', Len(succ') = Len(succ) + k, Here' = Here \cup New(k),
           DOMAIN functions' = DOMAIN functions,
           \A f \in DOMAIN functions : BlocksOf(f)' \subseteq BlocksOf(f) \cup New(k),
           ended' = ended \cup {insert}, ~asserted', context' \in Context',
           insert' \in Owed(Top), Owed(frame) = (Owed(Top) \ {insert'}) \cup New(k),
           BlocksIn(frame) \subseteq Here', frame.kind \notin Branching,
           frame.kind = "then_else" => frame.end # frame.join,
           frame.kind = "function" <=> Len(open) = 1,
           Top.kind \in Conditions \cup Logic <=> frame.kind \in Conditions \cup Logic
    PROVE  /\ BuilderTypeOK' /\ Nested' /\ LaidOut' /\ OwedOnce' /\ EndedOrOwed'
           /\ Len(open') = Len(open) /\ DOMAIN open' = 1 .. Len(open) /\ open' # <<>>
           /\ Top' = frame /\ open'[Len(open)] = frame
           /\ \A i \in 1 .. Len(open) - 1 : open'[i] = open[i]
           /\ \A i \in 1 .. Len(open) - 1 : SavedAt(open', i)
<1> PICK n \in Nat : n = Len(open) /\ n # 0
    BY TopFacts
<1>1. /\ n \in Nat \ {0} /\ Top = open[n] /\ DOMAIN open = 1 .. n /\ n \in 1 .. n
      /\ insert \in Here /\ Here \subseteq Blocks /\ functions # <<>> /\ ended \subseteq Blocks
    BY TopFacts
<1>2. Blocks \subseteq Blocks' /\ Visits \subseteq Visits' /\ New(k) \cap Blocks = {}
      /\ functions' # <<>>
    <2>1. Blocks \subseteq Blocks' /\ Visits \subseteq Visits'
        BY TopFacts, Grown DEF GraphInv
    <2>2. New(k) \cap Blocks = {}
        BY TopFacts DEF New
    <2>3. functions' # <<>>
        BY <1>1, TopFacts, HereFacts DEF GraphInv
    <2>4. QED
        BY <2>1, <2>2, <2>3
<1>3. /\ open' \in Seq(Visits') /\ Len(open') = n /\ DOMAIN open' = 1 .. n /\ open'[n] = frame
      /\ \A i \in 1 .. n - 1 : open'[i] = open[i]
    <2>1. open \in Seq(Visits')
        BY <1>2, TopFacts, SeqFacts
    <2>2. open' = Append(Front(open), frame)
        BY DEF Return
    <2>3. QED
        BY <2>1, <2>2, TurnFacts
<1>4. open' # <<>> /\ Top' = frame
    BY <1>1, <1>3 DEF Top, Last
<1>5. \A i \in 1 .. n : i \in 1 .. n - 1 \/ i = n
    OBVIOUS
<1>6. \A i \in 1 .. n - 1 : i \in 1 .. n /\ i # n
    OBVIOUS
<1>7. \A i \in 1 .. n - 1 : SavedAt(open', i)
    <2>1. n - 1 \in Nat /\ n - 1 <= Len(open) /\ \A i \in 1 .. n - 1 : open'[i] = open[i]
        BY <1>1, <1>3
    <2>2. QED
        BY <2>1, BelowKept
<1>8. BuilderTypeOK'
    <2>1. Owed(Top) \subseteq Here
        BY <1>1, OwedFacts
    <2>2. insert' \in Blocks' /\ ended' \subseteq Blocks' /\ asserted' = FALSE
        BY <1>1, <1>2, <2>1
    <2>3. FlowGraphTypeOK'
        BY DEF GraphInv
    <2>4. QED
        BY <1>3, <2>2, <2>3 DEF BuilderTypeOK, Visits
<1>9. Nested'
    <2>1. \A i \in 1 .. n : i = 1 <=> open[i].kind = "function"
        BY <1>1 DEF BuilderInv, Nested
    <2>2. \A i \in 1 .. n - 1 :
            /\ open[i].kind \notin Conditions
            /\ open[i].kind \in Logic \cup Branching
                  <=> open[i + 1].kind \in Conditions \cup Logic
        <3>1. \A i \in 1 .. n - 1 : i \in 1 .. n /\ i < n
            OBVIOUS
        <3>2. QED
            BY <1>1, <3>1 DEF BuilderInv, Nested
    <2>3. \A i \in 1 .. n : i = 1 <=> open'[i].kind = "function"
        BY <1>3, <1>5, <2>1
    <2>4. \A i \in 1 .. n - 1 : i + 1 \in 1 .. n - 1 \/ i + 1 = n
        OBVIOUS
    <2>5. \A i \in 1 .. n - 1 :
            /\ open'[i].kind \notin Conditions
            /\ open'[i].kind \in Logic \cup Branching
                  <=> open'[i + 1].kind \in Conditions \cup Logic
        BY <1>1, <1>3, <2>2, <2>4
    <2>6. \A i \in 1 .. n : i < n => i \in 1 .. n - 1
        OBVIOUS
    <2>7. QED
        BY <1>3, <2>3, <2>5, <2>6 DEF Nested
<1>10. LaidOut'
    <2>1. \A i \in 1 .. n : BlocksIn(open[i]) \subseteq Here
        BY TopFacts
    <2>2. ASSUME NEW i \in 1 .. n
          PROVE  BlocksIn(open'[i]) \subseteq Here'
        <3>1. CASE i = n
            BY <1>3, <3>1
        <3>2. CASE i \in 1 .. n - 1
            BY <1>3, <2>1, <3>2
        <3>3. QED
            BY <1>5, <3>1, <3>2
    <2>3. insert' \in Here'
        BY <1>1, OwedFacts
    <2>4. QED
        BY <1>2, <1>3, <2>2, <2>3 DEF LaidOut
<1>11. /\ \A i \in 1 .. n : insert \notin Owed(open[i]) /\ Owed(open[i]) \cap ended = {}
       /\ \A i, j \in 1 .. n : i # j => Owed(open[i]) \cap Owed(open[j]) = {}
       /\ \A i \in 1 .. n : /\ open[i].kind \in Branching => open[i].begin # open[i].end
                            /\ open[i].kind = "then_else" => open[i].end # open[i].join
                            /\ Owed(open[i]) \subseteq Here
    BY OwedFacts
<1>12. OwedOnce'
    <2> DEFINE next == insert'
               mine == Owed(Top)
               owes == Owed(frame)
    <2>0. /\ next \in mine /\ mine = Owed(open[n]) /\ mine \subseteq Blocks
          /\ mine \cap New(k) = {} /\ owes = (mine \ {next}) \cup New(k)
          /\ ended' \subseteq Blocks /\ Owed(open'[n]) = owes
        BY <1>1, <1>2, <1>3, <1>11
    <2> HIDE DEF next, mine, owes
    <2>1. \A i \in 1 .. n : insert' \notin Owed(open'[i]) /\ Owed(open'[i]) \cap ended' = {}
        <3>1. \A i \in 1 .. n - 1 : insert' \notin Owed(open[i]) /\ Owed(open[i]) \cap ended' = {}
            <4>1. \A i \in 1 .. n - 1 : Owed(open[i]) \cap mine = {} /\ insert \notin Owed(open[i])
                        /\ Owed(open[i]) \cap ended = {}
                BY <1>1, <1>6, <1>11, <2>0
            <4>2. QED
                BY <2>0, <4>1 DEF next
        <3>2. next \notin owes /\ owes \cap ended' = {}
            BY <1>1, <1>2, <1>11, <2>0
        <3>3. ASSUME NEW i \in 1 .. n
              PROVE  insert' \notin Owed(open'[i]) /\ Owed(open'[i]) \cap ended' = {}
            <4>1. CASE i = n
                BY <2>0, <3>2, <4>1 DEF next
            <4>2. CASE i \in 1 .. n - 1
                BY <1>3, <3>1, <4>2
            <4>3. QED
                BY <1>5, <4>1, <4>2
        <3>4. QED
            BY <3>3
    <2>2. \A i \in 1 .. n - 1 : Owed(open'[i]) \cap owes = {}
        <3>1. \A i \in 1 .. n - 1 : Owed(open[i]) \cap mine = {} /\ Owed(open[i]) \subseteq Blocks
            BY <1>1, <1>6, <1>11, <2>0
        <3>2. QED
            BY <1>2, <1>3, <2>0, <3>1
    <2>3. \A i, j \in 1 .. n : i # j => Owed(open'[i]) \cap Owed(open'[j]) = {}
        <3>1. \A i, j \in 1 .. n - 1 : i # j => Owed(open'[i]) \cap Owed(open'[j]) = {}
            BY <1>3, <1>6, <1>11
        <3>2. ASSUME NEW i \in 1 .. n, NEW j \in 1 .. n, i # j
              PROVE  Owed(open'[i]) \cap Owed(open'[j]) = {}
            <4>1. CASE i \in 1 .. n - 1 /\ j \in 1 .. n - 1
                BY <3>1, <3>2, <4>1
            <4>2. CASE i \in 1 .. n - 1 /\ j = n
                BY <2>0, <2>2, <4>2
            <4>3. CASE i = n /\ j \in 1 .. n - 1
                BY <2>0, <2>2, <4>3
            <4>4. QED
                BY <1>5, <3>2, <4>1, <4>2, <4>3
        <3>3. QED
            BY <3>2
    <2>4. \A i \in 1 .. n : /\ open'[i].kind \in Branching => open'[i].begin # open'[i].end
                            /\ open'[i].kind = "then_else" => open'[i].end # open'[i].join
        BY <1>3, <1>5, <1>6, <1>11
    <2>5. QED
        BY <1>3, <2>1, <2>3, <2>4 DEF OwedOnce
<1>13. EndedOrOwed'
    <2>1. ASSUME NEW f \in DOMAIN functions', NEW b \in BlocksOf(f)'
          PROVE  b \in ended' \/ b = insert' \/ \E i \in 1 .. n : b \in Owed(open'[i])
        <3>1. CASE b \in New(k)
            BY <1>1, <1>3, <3>1
        <3>2. CASE b \in BlocksOf(f) /\ f \in DOMAIN functions
            <4>1. b \in ended \/ b = insert \/ \E i \in 1 .. n : b \in Owed(open[i])
                BY <3>2, OwedFacts
            <4>2. ASSUME NEW i \in 1 .. n, b \in Owed(open[i])
                  PROVE  b = insert' \/ b \in Owed(open'[i])
                BY <1>1, <1>3, <1>5, <4>2
            <4>3. QED
                BY <4>1, <4>2
        <3>3. QED
            BY <2>1, <3>1, <3>2
    <2>2. QED
        BY <1>3, <1>4, <2>1 DEF EndedOrOwed, AllOwed, BlocksOf
<1>14. QED
    BY <1>3, <1>4, <1>7, <1>8, <1>9, <1>10, <1>12, <1>13

\* A branch of a statement, or the body of a loop, begins.
LEMMA BodyStep ==
    ASSUME BuilderInv, VisitThen \/ VisitThenElse \/ VisitElse \/ VisitBody
    PROVE  BuilderInv'
<1>1. /\ open # <<>> /\ Top.kind \in Branching \cup {"then_else"} /\ UNCHANGED context
      /\ Top.kind # "then_else" => insert \in ended
    <2>1. open # <<>> /\ Top.kind \in Branching \cup {"then_else"} /\ UNCHANGED context
        BY DEF VisitThen, VisitThenElse, VisitElse, VisitBody, Inside, Branching
    <2>2. Top.kind # "then_else" => Inside(Logic \cup Branching)
        BY <2>1 DEF Inside
    <2>3. QED
        BY <2>1, <2>2 DEF BuilderInv, EndInv, EndedByCondition
<1> PICK n \in Nat : n = Len(open) /\ n # 0
    BY <1>1, TopFacts
<1>2. /\ n \in Nat \ {0} /\ Top = open[n] /\ DOMAIN open = 1 .. n /\ n \in 1 .. n
      /\ Top \in Visits /\ context \in Context /\ ~asserted /\ insert \in Here
      /\ functions # <<>> /\ GraphInv /\ FlowGraphTypeOK
      /\ Top.begin \in Here /\ Top.end \in Here /\ Top.join \in Here
    <2>1. BlocksIn(Top) = {Top.begin, Top.end, Top.join}
        BY <1>1 DEF BlocksIn, Logic, Branching, Bodies
    <2>2. QED
        BY <1>1, <2>1, TopFacts DEF GraphInv
<1>3. n # 1
    BY <1>1, <1>2 DEF BuilderInv, Nested, Branching
<1>4. PICK k \in Nat, frame \in Visits' :
        /\ open' = Return(frame) /\ frame.kind \in Bodies /\ frame.saved = Top.saved
        /\ Top.kind = "while" <=> frame.kind = "body"
        /\ frame.kind = "body" => frame.end = Top.end /\ frame.join = Top.join
        /\ frame.kind = "then_else" => frame.end # frame.join
        /\ insert' \in Owed(Top) /\ Owed(frame) = (Owed(Top) \ {insert'}) \cup New(k)
        /\ BlocksIn(frame) \subseteq Here'
        /\ GraphInv' /\ Len(succ') = Len(succ) + k /\ Here' = Here \cup New(k)
        /\ DOMAIN functions' = DOMAIN functions
        /\ \A f \in DOMAIN functions : BlocksOf(f)' \subseteq BlocksOf(f) \cup New(k)
        /\ ended' = ended \cup {insert} /\ ~asserted'
    <2>1. New(0) = {} /\ Here \cup New(0) = Here
        BY TopFacts, <1>1 DEF New
    <2>2. /\ Top.kind \in Branching => Top.begin # Top.end
          /\ Top.kind = "then_else" => Top.end # Top.join
        BY <1>1, <1>2, OwedFacts
    <2>3. CASE VisitThen \/ VisitBody
        <3>1. /\ insert' = Top.begin /\ UNCHANGED <<graphVars, ended, asserted>>
              /\ \/ Top.kind = "if" /\ open' = Return([Top EXCEPT !.kind = "then"])
                 \/ Top.kind = "while" /\ open' = Return([Top EXCEPT !.kind = "body"])
            BY <2>3 DEF VisitThen, VisitBody, Inside
        <3>2. GraphInv' /\ Len(succ') = Len(succ) + 0 /\ Here' = Here
            BY <1>2, <3>1, SameGraph
        <3>3. Visits \subseteq Visits'
            BY <1>2, <3>2, Grown
        <3>4. PICK new \in {"then", "body"} :
                 open' = Return([Top EXCEPT !.kind = new]) /\ (new = "body" <=> Top.kind = "while")
            BY <3>1
        <3> DEFINE frame == [Top EXCEPT !.kind = new]
        <3>5. /\ frame \in Visits' /\ frame.kind = new /\ frame.begin = Top.begin
              /\ frame.end = Top.end /\ frame.join = Top.join /\ frame.saved = Top.saved
            BY <1>2, <3>3 DEF Visits, Kind
        <3> HIDE DEF frame
        <3>6. Owed(Top) = {Top.begin, Top.end} /\ Owed(frame) = {Top.end}
              /\ BlocksIn(frame) = {Top.begin, Top.end, Top.join}
            BY <3>1, <3>5 DEF Owed, BlocksIn, Logic, Branching, Bodies
        <3>7. /\ Owed(frame) = (Owed(Top) \ {insert'}) \cup New(0) /\ insert' \in Owed(Top)
              /\ BlocksIn(frame) \subseteq Here'
            BY <1>2, <2>1, <2>2, <3>1, <3>2, <3>6 DEF Branching
        <3>8. /\ DOMAIN functions' = DOMAIN functions
              /\ \A f \in DOMAIN functions : BlocksOf(f)' \subseteq BlocksOf(f) \cup New(0)
            BY <3>1 DEF graphVars, BlocksOf
        <3>9. ended' = ended \cup {insert} /\ ~asserted' /\ Here' = Here \cup New(0)
            BY <1>1, <1>2, <2>1, <3>1, <3>2
        <3>10. open' = Return(frame)
            BY <3>4 DEF frame
        <3>11. QED
            BY <3>2, <3>4, <3>5, <3>7, <3>8, <3>9, <3>10 DEF Bodies
    <2>4. CASE VisitElse
        <3> DEFINE frame == [Top EXCEPT !.kind = "else"]
        <3>1. /\ insert' = Top.end /\ Top.kind = "then_else" /\ open' = Return(frame)
              /\ JumpIfOpen(Top.join) /\ UNCHANGED functions
            BY <2>4 DEF VisitElse, Inside
        <3>2. /\ GraphInv' /\ Len(succ') = Len(succ) + 0 /\ Here' = Here
              /\ ended' = ended \cup {insert} /\ ~asserted'
            BY <1>1, <1>2, <3>1, JumpIfOpenFacts
        <3>3. Visits \subseteq Visits'
            BY <1>2, <3>2, Grown
        <3>4. /\ frame \in Visits' /\ frame.kind = "else" /\ frame.begin = Top.begin
              /\ frame.end = Top.end /\ frame.join = Top.join /\ frame.saved = Top.saved
            BY <1>2, <3>3 DEF Visits, Kind
        <3> HIDE DEF frame
        <3>5. Owed(Top) = {Top.end, Top.join} /\ Owed(frame) = {Top.join}
              /\ BlocksIn(frame) = {Top.begin, Top.end, Top.join}
            BY <3>1, <3>4 DEF Owed, BlocksIn, Logic, Branching, Bodies
        <3>6. /\ Owed(frame) = (Owed(Top) \ {insert'}) \cup New(0) /\ insert' \in Owed(Top)
              /\ BlocksIn(frame) \subseteq Here' /\ Here' = Here \cup New(0)
            BY <1>2, <2>1, <2>2, <3>1, <3>2, <3>5
        <3>7. /\ DOMAIN functions' = DOMAIN functions
              /\ \A f \in DOMAIN functions : BlocksOf(f)' \subseteq BlocksOf(f) \cup New(0)
            BY <3>1 DEF BlocksOf
        <3>8. QED
            BY <3>1, <3>2, <3>4, <3>6, <3>7 DEF Bodies
    <2>5. CASE VisitThenElse
        <3> DEFINE merge == Len(succ) + 1
                   frame == [Top EXCEPT !.kind = "then_else", !.join = merge]
        <3>1. /\ insert' = Top.begin /\ Top.kind = "if_else" /\ Create(1)
              /\ succ' = Append(succ, <<>>) /\ pred' = Append(pred, <<>>)
              /\ open' = Return([Top EXCEPT !.kind = "then_else", !.join = Created(1)[1]])
              /\ UNCHANGED <<ended, asserted>>
            BY <2>5 DEF VisitThenElse, Inside
        <3>2. Created(1)[1] = merge /\ New(1) = {merge} /\ Here \subseteq Blocks
              /\ Len(succ) \in Nat /\ Blocks = 1 .. Len(succ)
            BY <1>1, TopFacts DEF Created, New
        <3>3. /\ GraphInv' /\ Len(succ') = Len(succ) + 1 /\ Here' = Here \cup New(1)
              /\ DOMAIN functions' = DOMAIN functions
              /\ \A f \in DOMAIN functions : BlocksOf(f)' \subseteq BlocksOf(f) \cup New(1)
            BY <1>2, <3>1, PlainGraph
        <3>4. Visits \subseteq Visits' /\ merge \in Blocks' /\ merge \notin Blocks
            <4>1. Blocks' = 1 .. Len(succ) + 1
                BY <3>3 DEF Blocks
            <4>2. QED
                BY <1>2, <3>2, <3>3, <4>1, Grown
        <3> HIDE DEF merge
        <3>5. /\ frame \in Visits' /\ frame.kind = "then_else" /\ frame.begin = Top.begin
              /\ frame.end = Top.end /\ frame.join = merge /\ frame.saved = Top.saved
            BY <1>2, <3>4 DEF Visits, Kind
        <3>6. open' = Return(frame)
            BY <3>1, <3>2
        <3> HIDE DEF frame
        <3>7. Owed(Top) = {Top.begin, Top.end} /\ Owed(frame) = {Top.end, merge}
              /\ BlocksIn(frame) = {Top.begin, Top.end, merge}
            BY <3>1, <3>5 DEF Owed, BlocksIn, Logic, Branching, Bodies
        <3>8. /\ Owed(frame) = (Owed(Top) \ {insert'}) \cup New(1) /\ insert' \in Owed(Top)
              /\ BlocksIn(frame) \subseteq Here' /\ frame.end # frame.join
            BY <1>2, <2>2, <3>1, <3>2, <3>3, <3>4, <3>5, <3>7 DEF Branching
        <3>9. ended' = ended \cup {insert} /\ ~asserted'
            BY <1>1, <1>2, <3>1
        <3>10. QED
            BY <3>1, <3>3, <3>5, <3>6, <3>8, <3>9 DEF Bodies
    <2>6. QED
        BY <2>3, <2>4, <2>5
<1>5. context' \in Context'
    BY <1>1, <1>2, <1>4, Grown
<1>6. /\ frame.kind \notin Branching \cup Conditions \cup Logic \cup {"function"}
      /\ Top.kind \notin Conditions \cup Logic
    BY <1>1, <1>4 DEF Bodies, Branching, Conditions, Logic
<1>7. /\ BuilderTypeOK' /\ Nested' /\ LaidOut' /\ OwedOnce' /\ EndedOrOwed'
      /\ Len(open') = n /\ DOMAIN open' = 1 .. n /\ open' # <<>>
      /\ Top' = frame /\ open'[n] = frame
      /\ \A i \in 1 .. n - 1 : open'[i] = open[i]
      /\ \A i \in 1 .. n - 1 : SavedAt(open', i)
    BY <1>1, <1>3, <1>4, <1>5, <1>6, TurnOwed
<1>8. ~Inside(Conditions \cup Logic \cup Branching)'
    BY <1>6, <1>7 DEF Inside
<1>9. EndedByCondition'
    BY <1>8 DEF EndedByCondition, Inside
<1>10. ContextInv'
    <2>1. LoopLeads(open, n, context.iteration_endBB, context.iteration_condBB)
        BY DEF BuilderInv, ContextInv
    <2>2. /\ open[n].kind \in Loops <=> open'[n].kind \in Loops
          /\ open[n].kind \in Loops => open'[n].end = open[n].end /\ open'[n].join = open[n].join
        BY <1>1, <1>2, <1>4, <1>7 DEF Loops, Branching, Bodies
    <2>3. LoopLeads(open', n, context'.iteration_endBB, context'.iteration_condBB)
        BY <1>1, <1>2, <1>7, <2>1, <2>2, LoopTurns
    <2>4. SavedAt(open', n)
        <3>1. SavedAt(open, n)
            BY <1>2 DEF BuilderInv, ContextInv
        <3>2. frame.kind \in Loops => LoopLeads(open, n - 1, frame.saved.iteration_endBB,
                                                 frame.saved.iteration_condBB)
            BY <1>2, <1>4, <1>7, <2>2, <3>1 DEF SavedAt
        <3>3. n - 1 \in Nat
            BY <1>2
        <3>4. frame.kind \in Loops => LoopLeads(open', n - 1, frame.saved.iteration_endBB,
                                                 frame.saved.iteration_condBB)
            BY <1>7, <3>2, <3>3, LeadsAgree
        <3>5. QED
            BY <1>6, <1>7, <3>4 DEF SavedAt, Logic
    <2>5. \A i \in DOMAIN open' : SavedAt(open', i)
        <3>1. \A i \in 1 .. n : i \in 1 .. n - 1 \/ i = n
            OBVIOUS
        <3>2. QED
            BY <1>7, <2>4, <3>1
    <2>6. ~(n < 2) /\ open'[2].saved = Outside
        <3>1. open[2].saved = Outside /\ ~(n < 2)
            BY <1>2, <1>3 DEF BuilderInv, ContextInv
        <3>2. 2 = n \/ 2 \in 1 .. n - 1
            BY <1>3, <1>2
        <3>3. QED
            BY <1>2, <1>4, <1>7, <3>1, <3>2
    <2>7. QED
        BY <1>7, <1>8, <2>3, <2>5, <2>6 DEF ContextInv, Inside
<1>11. QED
    BY <1>4, <1>7, <1>9, <1>10 DEF BuilderInv, EndInv, GraphInv

LEMMA PlainFrameFacts ==
    ASSUME context \in Context, NEW kind \in Kind
    PROVE  /\ PlainFrame(kind) \in Visits /\ PlainFrame(kind).kind = kind
           /\ kind \notin Logic \cup Branching \cup Bodies =>
                  Owed(PlainFrame(kind)) = {} /\ BlocksIn(PlainFrame(kind)) = {}
<1>1. PlainFrame(kind) = [kind |-> kind, begin |-> NoBlock, end |-> NoBlock, join |-> NoBlock,
                          saved |-> context]
    BY DEF PlainFrame, Frame
<1>2. PlainFrame(kind) \in Visits /\ PlainFrame(kind).kind = kind
    BY <1>1 DEF Visits
<1>3. QED
    BY <1>2 DEF Owed, BlocksIn, Branching, Bodies

\* Between the operands of a logical operator.
LEMMA RightStep ==
    ASSUME BuilderInv, VisitRight
    PROVE  BuilderInv'
<1> DEFINE frame == PlainFrame(IF Top.kind = "and" THEN "EqExp" ELSE "LAndExp")
<1>1. /\ open # <<>> /\ Top.kind \in Logic /\ insert' = Top.begin /\ context' = RightContext
      /\ open' = Return(frame) /\ UNCHANGED <<graphVars, ended, asserted>>
      /\ Inside(Logic \cup Branching) /\ Inside(Conditions \cup Logic)
    BY DEF VisitRight, Inside, Logic
<1>2. insert \in ended
    BY <1>1 DEF BuilderInv, EndInv, EndedByCondition
<1> PICK n \in Nat : n = Len(open) /\ n # 0
    BY <1>1, TopFacts
<1>3. /\ n \in Nat \ {0} /\ Top = open[n] /\ DOMAIN open = 1 .. n /\ n \in 1 .. n
      /\ Top \in Visits /\ context \in Context /\ ~asserted /\ insert \in Here
      /\ functions # <<>> /\ GraphInv /\ FlowGraphTypeOK
    BY <1>1, TopFacts DEF GraphInv
<1>4. n # 1 /\ n # 2
    <2>1. open[1].kind = "function"
        BY <1>3 DEF BuilderInv, Nested
    <2>2. n # 1
        BY <1>1, <1>3, <2>1 DEF Logic
    <2>3. n = 2 => open[1].kind \in Logic \cup Branching
        BY <1>1, <1>3 DEF BuilderInv, Nested
    <2>4. QED
        BY <2>1, <2>2, <2>3 DEF Logic, Branching
<1>5. frame \in Visits /\ frame.kind \in {"EqExp", "LAndExp"} /\ Owed(frame) = {}
      /\ BlocksIn(frame) = {}
    BY <1>3, PlainFrameFacts DEF Kind, Logic, Branching, Bodies
<1> HIDE DEF frame
<1>6. GraphInv' /\ Len(succ') = Len(succ) + 0 /\ Here' = Here
    BY <1>1, <1>3, SameGraph
<1>7. Visits \subseteq Visits' /\ Context \subseteq Context' /\ New(0) = {}
    <2>1. FlowGraphTypeOK /\ Len(succ') = Len(succ) + 0 /\ Len(succ) \in Nat
        BY <1>6, <1>1, TopFacts DEF GraphInv
    <2>2. Visits \subseteq Visits' /\ Context \subseteq Context'
        BY <2>1, Grown
    <2>3. New(0) = {}
        BY <2>1 DEF New
    <2>4. QED
        BY <2>2, <2>3
<1>8. context' \in Context'
    <2>1. Top.saved \in Context
        BY <1>3 DEF Visits
    <2>2. RightContext \in Context
        BY <1>3, <2>1 DEF RightContext, Context
    <2>3. QED
        BY <1>1, <1>7, <2>2
<1>9. /\ insert' \in Owed(Top) /\ Owed(frame) = (Owed(Top) \ {insert'}) \cup New(0)
      /\ BlocksIn(frame) \subseteq Here'
    <2>1. Owed(Top) = {Top.begin}
        BY <1>1 DEF Owed, Logic, Branching
    <2>2. QED
        BY <1>1, <1>5, <1>7, <2>1
<1>10. /\ frame.kind \notin Branching \cup Logic \cup Loops \cup {"then_else", "function"}
       /\ frame.kind \in Conditions
    BY <1>5 DEF Branching, Logic, Loops, Conditions
<1>11. /\ DOMAIN functions' = DOMAIN functions
       /\ \A f \in DOMAIN functions : BlocksOf(f)' \subseteq BlocksOf(f) \cup New(0)
    BY <1>1 DEF graphVars, BlocksOf
<1>12. /\ ended' = ended \cup {insert} /\ ~asserted' /\ Here' = Here \cup New(0)
       /\ frame \in Visits' /\ 0 \in Nat
    BY <1>1, <1>2, <1>3, <1>5, <1>6, <1>7
<1>13. /\ BuilderTypeOK' /\ Nested' /\ LaidOut' /\ OwedOnce' /\ EndedOrOwed'
       /\ Len(open') = n /\ DOMAIN open' = 1 .. n /\ open' # <<>>
       /\ Top' = frame /\ open'[n] = frame
       /\ \A i \in 1 .. n - 1 : open'[i] = open[i]
       /\ \A i \in 1 .. n - 1 : SavedAt(open', i)
    BY <1>1, <1>4, <1>6, <1>8, <1>9, <1>10, <1>11, <1>12, TurnOwed
<1>14. EndedByCondition'
    <2>1. insert' \notin ended
        BY <1>1, <1>3, <1>9, OwedFacts
    <2>2. QED
        BY <1>1, <1>10, <1>13, <2>1 DEF EndedByCondition, Inside
<1>15. ContextInv'
    <2>1. n - 1 \in Nat /\ \A i \in 1 .. n - 1 : open'[i] = open[i]
        BY <1>3, <1>13
    <2>2. /\ TrueLeads(open, n, context.trueBB) /\ FalseLeads(open, n, context.falseBB)
          /\ LoopLeads(open, n, context.iteration_endBB, context.iteration_condBB)
          /\ SavedAt(open, n)
        BY <1>1, <1>3 DEF BuilderInv, ContextInv
    <2>3. /\ TrueLeads(open, n - 1, context'.trueBB) /\ FalseLeads(open, n - 1, context'.falseBB)
          /\ LoopLeads(open, n - 1, context'.iteration_endBB, context'.iteration_condBB)
        <3>1. LoopLeads(open, n - 1, context.iteration_endBB, context.iteration_condBB)
            BY <1>1, <1>3, <2>2, LeadsOver DEF Logic, Loops
        <3>2. CASE Top.kind = "and"
            <4>1. /\ TrueLeads(open, n - 1, Top.saved.trueBB)
                  /\ FalseLeads(open, n - 1, context.falseBB)
                BY <1>3, <2>2, <3>2, LeadsOver DEF SavedAt, Branching
            <4>2. context' = [context EXCEPT !.trueBB = Top.saved.trueBB]
                BY <1>1, <3>2 DEF RightContext
            <4>3. QED
                BY <1>3, <3>1, <4>1, <4>2 DEF Context
        <3>3. CASE Top.kind = "or"
            <4>1. /\ TrueLeads(open, n - 1, context.trueBB)
                  /\ FalseLeads(open, n - 1, Top.saved.falseBB)
                BY <1>3, <2>2, <3>3, LeadsOver DEF SavedAt, Branching
            <4>2. context' = [context EXCEPT !.falseBB = Top.saved.falseBB]
                BY <1>1, <3>3 DEF RightContext
            <4>3. QED
                BY <1>3, <3>1, <4>1, <4>2 DEF Context
        <3>4. QED
            BY <1>1, <3>2, <3>3 DEF Logic
    <2>4. /\ TrueLeads(open', n - 1, context'.trueBB) /\ FalseLeads(open', n - 1, context'.falseBB)
          /\ LoopLeads(open', n - 1, context'.iteration_endBB, context'.iteration_condBB)
        BY <2>1, <2>3, LeadsAgree
    <2>5. /\ TrueLeads(open', n, context'.trueBB) /\ FalseLeads(open', n, context'.falseBB)
          /\ LoopLeads(open', n, context'.iteration_endBB, context'.iteration_condBB)
        BY <1>3, <1>5, <1>10, <1>13, <2>4, LeadsOver
    <2>6. \A i \in DOMAIN open' : SavedAt(open', i)
        <3>1. SavedAt(open', n)
            BY <1>5, <1>10, <1>13 DEF SavedAt
        <3>2. \A i \in 1 .. n : i \in 1 .. n - 1 \/ i = n
            OBVIOUS
        <3>3. QED
            BY <1>13, <3>1, <3>2
    <2>7. ~(n < 2) /\ open'[2].saved = Outside
        <3>1. open[2].saved = Outside /\ ~(n < 2) /\ 2 \in 1 .. n - 1
            BY <1>3, <1>4 DEF BuilderInv, ContextInv
        <3>2. QED
            BY <1>13, <3>1
    <2>8. QED
        BY <1>13, <2>5, <2>6, <2>7 DEF ContextInv
<1>16. QED
    BY <1>6, <1>12, <1>13, <1>14, <1>15 DEF BuilderInv, EndInv, GraphInv

\* A statement that branches, or a logical operator, calls the visit of a
\* condition on top of the first m visits; it owes new blocks only.
LEMMA CallOwed ==
    ASSUME BuilderInv, open # <<>>, NEW m \in Nat \ {0}, m <= Len(open),
           \A i \in 1 .. Len(open) : i <= m \/ Owed(open[i]) = {},
           open' \in Seq(Visits'), Len(open') = m + 2,
           \A i \in 1 .. m : open'[i] = open[i],
           open[m].kind \notin Conditions,
           open[m].kind \in Logic \cup Branching <=> open'[m + 1].kind \in Logic,
           open'[m + 1].kind \in Logic \cup Branching, open'[m + 2].kind \in Conditions,
           open'[m + 1].kind \in Branching => open'[m + 1].begin # open'[m + 1].end,
           BlocksIn(open'[m + 1]) \subseteq Here', Owed(open'[m + 2]) = {}, BlocksIn(open'[m + 2]) = {},
           NEW k \in Nat, GraphInv', Len(succ') = Len(succ) + k, Here' = Here \cup New(k),
           DOMAIN functions' = DOMAIN functions,
           \A f \in DOMAIN functions : BlocksOf(f)' \subseteq BlocksOf(f) \cup New(k),
           ended \subseteq ended', ended' \subseteq ended \cup {insert},
           ~asserted', context' \in Context',
           insert' \in New(k) \cup {insert}, insert' \notin ended',
           insert \in ended' \cup {insert'},
           Owed(open'[m + 1]) \subseteq New(k), insert' \notin Owed(open'[m + 1]),
           New(k) \subseteq Owed(open'[m + 1]) \cup {insert'}
    PROVE  /\ BuilderTypeOK' /\ Nested' /\ LaidOut' /\ OwedOnce' /\ EndedByCondition'
           /\ EndedOrOwed' /\ DOMAIN open' = 1 .. m + 2 /\ Top' = open'[m + 2]
           /\ \A i \in 1 .. m : SavedAt(open', i)
<1> DEFINE frame == open'[m + 1]
           inner == open'[m + 2]
<1>0. /\ open'[m + 1] = frame /\ open'[m + 2] = inner
      /\ open[m].kind \in Logic \cup Branching <=> frame.kind \in Logic
      /\ frame.kind \in Logic \cup Branching /\ inner.kind \in Conditions
      /\ frame.kind \in Branching => frame.begin # frame.end
      /\ BlocksIn(frame) \subseteq Here' /\ Owed(inner) = {} /\ BlocksIn(inner) = {}
      /\ Owed(frame) \subseteq New(k) /\ insert' \notin Owed(frame)
      /\ New(k) \subseteq Owed(frame) \cup {insert'}
    OBVIOUS
<1> USE <1>0
<1> HIDE DEF frame, inner
<1> PICK n \in Nat : n = Len(open) /\ n # 0
    BY TopFacts
<1>1. /\ n \in Nat \ {0} /\ DOMAIN open = 1 .. n /\ m <= n
      /\ insert \in Here /\ Here \subseteq Blocks /\ functions # <<>> /\ ended \subseteq Blocks
      /\ \A i \in 1 .. m : i \in 1 .. n
    BY TopFacts
<1>2. Blocks \subseteq Blocks' /\ New(k) \cap Blocks = {} /\ Here' \subseteq Blocks'
      /\ functions' # <<>>
    <2>1. Blocks \subseteq Blocks'
        BY TopFacts, Grown DEF GraphInv
    <2>2. New(k) \cap Blocks = {}
        BY TopFacts DEF New
    <2>3. functions' # <<>>
        BY <1>1, TopFacts, HereFacts DEF GraphInv
    <2>4. (FlowGraphTypeOK /\ functions # <<>> => Here \subseteq Blocks)'
        BY HereFacts, PTL
    <2>5. QED
        BY <2>1, <2>2, <2>3, <2>4 DEF GraphInv
<1>3. /\ DOMAIN open' = 1 .. m + 2 /\ open' # <<>> /\ Top' = inner
      /\ m + 1 \in 1 .. m + 2 /\ m + 2 \in 1 .. m + 2
    <2>1. DOMAIN open' = 1 .. m + 2
        BY SeqFacts
    <2>2. open' # <<>>
        <3>1. m + 2 # 0
            OBVIOUS
        <3>2. QED
            BY <3>1
    <2>3. QED
        BY <2>1, <2>2 DEF Top, Last
<1>4. \A i \in 1 .. m + 2 : i \in 1 .. m \/ i = m + 1 \/ i = m + 2
    OBVIOUS
<1>5. \A i \in 1 .. m : SavedAt(open', i)
    <2>1. m \in Nat /\ m <= Len(open)
        OBVIOUS
    <2>2. QED
        BY <2>1, BelowKept
<1>6. insert' \in Here' /\ insert' \in Blocks'
    BY <1>1, <1>2
<1>7. BuilderTypeOK'
    <2>1. insert' \in Blocks' /\ ended' \subseteq Blocks' /\ asserted' = FALSE
        BY <1>1, <1>2, <1>6
    <2>2. FlowGraphTypeOK'
        BY DEF GraphInv
    <2>3. QED
        BY <2>1, <2>2 DEF BuilderTypeOK, Visits
<1>8. Nested'
    <2>1. \A i \in 1 .. n : i = 1 <=> open[i].kind = "function"
        BY <1>1 DEF BuilderInv, Nested
    <2>2. \A i \in 1 .. m : i < m =>
            /\ open[i].kind \notin Conditions
            /\ open[i].kind \in Logic \cup Branching
                  <=> open[i + 1].kind \in Conditions \cup Logic
        <3>1. \A i \in 1 .. m : i < m => i \in 1 .. n /\ i < n
            BY <1>1
        <3>2. QED
            BY <1>1, <3>1 DEF BuilderInv, Nested
    <2>3. \A i \in 1 .. m + 2 : i = 1 <=> open'[i].kind = "function"
        <3>1. frame.kind # "function" /\ inner.kind # "function" /\ m + 1 # 1 /\ m + 2 # 1
            BY DEF Conditions, Logic, Branching
        <3>2. QED
            BY <1>1, <1>4, <2>1, <3>1
    <2>4. \A i \in 1 .. m : i < m => i + 1 \in 1 .. m
        OBVIOUS
    <2>5. \A i \in 1 .. m : i < m =>
            /\ open'[i].kind \notin Conditions
            /\ open'[i].kind \in Logic \cup Branching
                  <=> open'[i + 1].kind \in Conditions \cup Logic
        BY <2>2, <2>4
    <2>6. m \in 1 .. m /\ open'[m] = open[m] /\ (m + 1) + 1 = m + 2
        OBVIOUS
    <2>7. frame.kind \notin Conditions /\ frame.kind \in Logic <=> frame.kind \in Logic \cup Conditions
        BY DEF Conditions, Logic, Branching
    <2>8. ASSUME NEW i \in 1 .. m + 2, i < m + 2
          PROVE  /\ open'[i].kind \notin Conditions
                 /\ open'[i].kind \in Logic \cup Branching
                       <=> open'[i + 1].kind \in Conditions \cup Logic
        <3>1. CASE i = m + 1
            BY <2>6, <2>7, <3>1
        <3>2. CASE i = m
            BY <2>6, <2>7, <3>2
        <3>3. CASE i \in 1 .. m /\ i < m
            BY <2>5, <3>3
        <3>4. QED
            BY <2>8, <3>1, <3>2, <3>3
    <2>9. QED
        BY <1>3, <2>3, <2>8 DEF Nested
<1>9. LaidOut'
    <2>1. \A i \in 1 .. n : BlocksIn(open[i]) \subseteq Here
        BY TopFacts
    <2>2. \A i \in 1 .. m + 2 : BlocksIn(open'[i]) \subseteq Here'
        BY <1>1, <1>4, <2>1
    <2>3. QED
        BY <1>2, <1>3, <1>6, <2>2 DEF LaidOut
<1>10. /\ \A i \in 1 .. n : insert \notin Owed(open[i]) /\ Owed(open[i]) \cap ended = {}
       /\ \A i, j \in 1 .. n : i # j => Owed(open[i]) \cap Owed(open[j]) = {}
       /\ \A i \in 1 .. n : /\ open[i].kind \in Branching => open[i].begin # open[i].end
                            /\ open[i].kind = "then_else" => open[i].end # open[i].join
                            /\ Owed(open[i]) \subseteq Here
    BY OwedFacts
<1>11. OwedOnce'
    <2>1. \A i \in 1 .. m : /\ insert' \notin Owed(open'[i]) /\ Owed(open'[i]) \cap ended' = {}
                            /\ Owed(open'[i]) \cap Owed(frame) = {}
        <3>1. \A i \in 1 .. m : Owed(open[i]) \subseteq Blocks /\ insert \notin Owed(open[i])
                        /\ Owed(open[i]) \cap ended = {}
            BY <1>1, <1>10
        <3>2. \A i \in 1 .. m : Owed(open[i]) \cap New(k) = {}
            BY <1>2, <3>1
        <3>3. \A i \in 1 .. m : /\ insert' \notin Owed(open[i]) /\ Owed(open[i]) \cap ended' = {}
                                /\ Owed(open[i]) \cap Owed(frame) = {}
            BY <3>1, <3>2
        <3>4. QED
            BY <3>3
    <2>2. Owed(frame) \cap ended' = {}
        BY <1>1, <1>2
    <2>3. \A i \in 1 .. m + 2 : insert' \notin Owed(open'[i]) /\ Owed(open'[i]) \cap ended' = {}
        BY <1>4, <2>1, <2>2
    <2>4. \A i, j \in 1 .. m : i # j => Owed(open'[i]) \cap Owed(open'[j]) = {}
        BY <1>1, <1>10
    <2>5. ASSUME NEW i \in 1 .. m + 2, NEW j \in 1 .. m + 2, i # j
          PROVE  Owed(open'[i]) \cap Owed(open'[j]) = {}
        <3>1. CASE i \in 1 .. m /\ j \in 1 .. m
            BY <2>4, <2>5, <3>1
        <3>2. CASE i \in 1 .. m /\ j = m + 1
            BY <2>1, <3>2
        <3>3. CASE i = m + 1 /\ j \in 1 .. m
            BY <2>1, <3>3
        <3>4. CASE i = m + 2 \/ j = m + 2
            BY <3>4
        <3>5. QED
            BY <1>4, <2>5, <3>1, <3>2, <3>3, <3>4
    <2>6. \A i \in 1 .. m + 2 : /\ open'[i].kind \in Branching => open'[i].begin # open'[i].end
                                /\ open'[i].kind = "then_else" => open'[i].end # open'[i].join
        <3>1. \A i \in 1 .. m : /\ open'[i].kind \in Branching => open'[i].begin # open'[i].end
                                /\ open'[i].kind = "then_else" => open'[i].end # open'[i].join
            BY <1>1, <1>10
        <3>2. /\ inner.kind \notin Branching /\ inner.kind # "then_else"
              /\ frame.kind # "then_else"
            BY DEF Conditions, Logic, Branching
        <3>3. QED
            BY <1>4, <3>1, <3>2
    <2>7. QED
        BY <1>3, <2>3, <2>5, <2>6 DEF OwedOnce
<1>12. EndedByCondition'
    <2>1. inner.kind \notin Logic \cup Branching
        BY DEF Conditions, Logic, Branching
    <2>2. QED
        BY <1>3, <2>1 DEF EndedByCondition, Inside
<1>13. EndedOrOwed'
    <2>1. ASSUME NEW f \in DOMAIN functions', NEW b \in BlocksOf(f)'
          PROVE  b \in ended' \/ b = insert' \/ \E i \in 1 .. m + 2 : b \in Owed(open'[i])
        <3>1. CASE b \in New(k)
            BY <1>3, <3>1
        <3>2. CASE b \in BlocksOf(f) /\ f \in DOMAIN functions
            <4>1. b \in ended \/ b = insert \/ \E i \in 1 .. n : b \in Owed(open[i])
                BY <3>2, OwedFacts
            <4>2. ASSUME NEW i \in 1 .. n, b \in Owed(open[i])
                  PROVE  i \in 1 .. m + 2 /\ b \in Owed(open'[i])
                <5>1. i <= m
                    BY <4>2
                <5>2. QED
                    BY <4>2, <5>1
            <4>3. QED
                BY <4>1, <4>2
        <3>3. QED
            BY <2>1, <3>1, <3>2
    <2>2. QED
        BY <1>3, <2>1 DEF EndedOrOwed, AllOwed, BlocksOf
<1>14. QED
    BY <1>3, <1>5, <1>7, <1>8, <1>9, <1>11, <1>12, <1>13

\* Where the values lead once the visits frame and inner lie on m others.
LEMMA CallLeads ==
    ASSUME NEW o, NEW m \in Nat, o[m + 1].kind \in Logic \cup Branching,
           o[m + 2].kind \in Conditions
    PROVE  /\ \A b : TrueLeads(o, m + 2, b) <=> TrueLeads(o, m + 1, b)
           /\ \A b : FalseLeads(o, m + 2, b) <=> FalseLeads(o, m + 1, b)
           /\ \A e, c : LoopLeads(o, m + 2, e, c) <=> LoopLeads(o, m + 1, e, c)
           /\ o[m + 1].kind \notin {"and"} \cup Branching =>
                  \A b : TrueLeads(o, m, b) => TrueLeads(o, m + 1, b)
           /\ o[m + 1].kind \notin {"or"} \cup Branching =>
                  \A b : FalseLeads(o, m, b) => FalseLeads(o, m + 1, b)
           /\ o[m + 1].kind \notin Loops =>
                  \A e, c : LoopLeads(o, m, e, c) => LoopLeads(o, m + 1, e, c)
<1>1. /\ m + 1 \in Nat \ {0} /\ m + 2 \in Nat \ {0}
      /\ (m + 1) - 1 = m /\ (m + 2) - 1 = m + 1
    OBVIOUS
<1>2. /\ o[m + 2].kind \notin {"and"} \cup Branching
      /\ o[m + 2].kind \notin {"or"} \cup Branching /\ o[m + 2].kind \notin Loops
    BY DEF Conditions, Branching, Loops
<1>3. /\ \A b : TrueLeads(o, m + 2, b) <=> TrueLeads(o, (m + 2) - 1, b)
      /\ \A b : FalseLeads(o, m + 2, b) <=> FalseLeads(o, (m + 2) - 1, b)
      /\ \A e, c : LoopLeads(o, m + 2, e, c) <=> LoopLeads(o, (m + 2) - 1, e, c)
    BY <1>1, <1>2, LeadsOver
<1>4. /\ o[m + 1].kind \notin {"and"} \cup Branching =>
             \A b : TrueLeads(o, m + 1, b) <=> TrueLeads(o, (m + 1) - 1, b)
      /\ o[m + 1].kind \notin {"or"} \cup Branching =>
             \A b : FalseLeads(o, m + 1, b) <=> FalseLeads(o, (m + 1) - 1, b)
      /\ o[m + 1].kind \notin Loops =>
             \A e, c : LoopLeads(o, m + 1, e, c) <=> LoopLeads(o, (m + 1) - 1, e, c)
    BY <1>1, LeadsOver
<1>5. QED
    BY <1>1, <1>3, <1>4

\* Before the left operand of a logical operator.
LEMMA LogicStep ==
    ASSUME BuilderInv, VisitOr \/ VisitAnd
    PROVE  BuilderInv'
<1> PICK kind \in Logic, left \in {"LOrExp", "LAndExp"} :
            /\ open # <<>> /\ Top.kind \in Conditions /\ VisitLogic(kind, left)
    BY DEF VisitOr, VisitAnd, Inside, Conditions, Logic
<1> DEFINE new == Created(1)[1]
           frame == Frame(kind, new, NoBlock, NoBlock)
           inner == PlainFrame(left)
<1>1. /\ Create(1) /\ succ' = Append(succ, <<>>) /\ pred' = Append(pred, <<>>)
      /\ context' = IF kind = "and" THEN [context EXCEPT !.trueBB = new]
                                    ELSE [context EXCEPT !.falseBB = new]
      /\ open' = Append(Append(Front(open), frame), inner)
      /\ UNCHANGED <<insert, ended, asserted>>
    BY DEF VisitLogic, Return
<1> PICK n \in Nat : n = Len(open) /\ n # 0
    BY TopFacts
<1>2. /\ n \in Nat \ {0} /\ Top = open[n] /\ DOMAIN open = 1 .. n /\ n \in 1 .. n
      /\ open[n].kind \in Conditions /\ context \in Context /\ ~asserted
      /\ insert \in Here /\ Here \subseteq Blocks /\ functions # <<>> /\ GraphInv
      /\ FlowGraphTypeOK /\ Len(succ) \in Nat /\ Blocks = 1 .. Len(succ)
      /\ open \in Seq(Visits)
    BY TopFacts DEF GraphInv
<1>3. /\ open[1].kind = "function" /\ n # 1 /\ n - 1 \in 1 .. n /\ n - 1 \in Nat \ {0}
      /\ open[n - 1].kind \in Logic \cup Branching /\ open[n - 1].kind \notin Conditions
      /\ n - 1 # 1
    <2>1. open[1].kind = "function" /\ n # 1 /\ n - 1 \in 1 .. n /\ n - 1 < n
        BY <1>2 DEF BuilderInv, Nested, Conditions
    <2>2. /\ open[n - 1].kind \notin Conditions
          /\ open[n - 1].kind \in Logic \cup Branching
                <=> open[(n - 1) + 1].kind \in Conditions \cup Logic
        BY <1>2, <2>1 DEF BuilderInv, Nested
    <2>3. open[n - 1].kind \in Logic \cup Branching
        BY <1>2, <2>2
    <2>4. QED
        BY <2>1, <2>2, <2>3 DEF Logic, Branching
<1>4. new = Len(succ) + 1 /\ New(1) = {new}
    BY <1>2 DEF Created, New
<1> HIDE DEF new
<1>5. /\ GraphInv' /\ Len(succ') = Len(succ) + 1 /\ Here' = Here \cup New(1)
      /\ DOMAIN functions' = DOMAIN functions
      /\ \A f \in DOMAIN functions : BlocksOf(f)' \subseteq BlocksOf(f) \cup New(1)
    BY <1>1, <1>2, PlainGraph
<1>6. /\ Blocks \subseteq Blocks' /\ Context \subseteq Context' /\ Visits \subseteq Visits'
      /\ new \in Blocks' /\ new \notin Blocks
    <2>1. 1 \in Nat
        OBVIOUS
    <2>2. Blocks \subseteq Blocks' /\ Context \subseteq Context' /\ Visits \subseteq Visits'
        BY <1>2, <1>5, <2>1, Grown
    <2>3. new \in Blocks' /\ new \notin Blocks
        BY <1>2, <1>4, <1>5 DEF Blocks
    <2>4. QED
        BY <2>2, <2>3
<1>7. /\ frame \in Visits' /\ inner \in Visits'
      /\ frame.kind = kind /\ frame.begin = new /\ frame.saved = context
      /\ inner.kind = left /\ Owed(inner) = {} /\ BlocksIn(inner) = {}
      /\ Owed(frame) = {new} /\ BlocksIn(frame) = {new}
    <2>1. frame = [kind |-> kind, begin |-> new, end |-> NoBlock, join |-> NoBlock,
                   saved |-> context]
        BY DEF Frame
    <2>2. frame \in Visits'
        BY <1>2, <1>6, <2>1 DEF Visits, Kind, Logic
    <2>3. inner \in Visits' /\ inner.kind = left /\ Owed(inner) = {} /\ BlocksIn(inner) = {}
        BY <1>2, <1>6, PlainFrameFacts DEF Kind, Logic, Branching, Bodies
    <2>4. frame.kind = kind /\ frame.begin = new /\ frame.saved = context
        BY <2>1
    <2> HIDE DEF frame
    <2>5. Owed(frame) = {new} /\ BlocksIn(frame) = {new}
        BY <2>4 DEF Owed, BlocksIn, Logic, Branching, Bodies
    <2>6. QED
        BY <2>2, <2>3, <2>4, <2>5
<1> HIDE DEF frame, inner
<1> PICK m \in Nat : m = n - 1 /\ m # 0
    BY <1>3
<1>8. /\ open' \in Seq(Visits') /\ Len(open') = m + 2
      /\ open'[m + 1] = frame /\ open'[m + 2] = inner
      /\ \A i \in 1 .. m : open'[i] = open[i]
    <2>1. open \in Seq(Visits')
        BY <1>2, <1>6, SeqFacts
    <2> DEFINE o == Append(Front(open), frame)
    <2>2. /\ o \in Seq(Visits') /\ Len(o) = n /\ o[n] = frame
          /\ \A i \in 1 .. n - 1 : o[i] = open[i]
        BY <1>7, <2>1, TurnFacts
    <2> HIDE DEF o
    <2>3. /\ Append(o, inner) \in Seq(Visits') /\ Len(Append(o, inner)) = n + 1
          /\ Append(o, inner)[n] = frame /\ Append(o, inner)[n + 1] = inner
          /\ \A i \in 1 .. n - 1 : Append(o, inner)[i] = open[i]
        BY <1>2, <1>7, <2>2
    <2>4. open' = Append(o, inner) /\ m + 1 = n /\ m + 2 = n + 1
        BY <1>1 DEF o
    <2>5. QED
        BY <2>3, <2>4
<1>9. /\ context' \in Context'
      /\ kind = "and" => context'.trueBB = new /\ context'.falseBB = context.falseBB
      /\ kind = "or" => context'.falseBB = new /\ context'.trueBB = context.trueBB
    BY <1>1, <1>2, <1>6 DEF Context, Logic
<1>10. insert \notin ended
    BY <1>2 DEF BuilderInv, EndInv, EndedByCondition, Inside
<1>11. Owed(open[n]) = {}
    BY <1>2 DEF Owed, Conditions, Logic, Branching
<1>12. /\ BuilderTypeOK' /\ Nested' /\ LaidOut' /\ OwedOnce' /\ EndedByCondition'
       /\ EndedOrOwed' /\ DOMAIN open' = 1 .. m + 2 /\ Top' = inner
       /\ \A i \in 1 .. m : SavedAt(open', i)
    <2>1. \A i \in 1 .. Len(open) : i <= m \/ Owed(open[i]) = {}
        <3>1. \A i \in 1 .. Len(open) : i <= m \/ i = n
            BY <1>2
        <3>2. QED
            BY <1>11, <3>1
    <2>2. /\ m <= Len(open) /\ 1 \in Nat
          /\ kind \in Logic /\ kind \notin Branching /\ left \in Conditions
        BY DEF Conditions, Logic, Branching
    <2>3. /\ ended \subseteq ended' /\ ended' \subseteq ended \cup {insert} /\ ~asserted'
          /\ insert' \in New(1) \cup {insert} /\ insert' \notin ended'
          /\ insert \in ended' \cup {insert'}
        BY <1>1, <1>2, <1>10
    <2>4. /\ Owed(frame) \subseteq New(1) /\ insert' \notin Owed(frame)
          /\ New(1) \subseteq Owed(frame) \cup {insert'} /\ BlocksIn(frame) \subseteq Here'
        BY <1>1, <1>2, <1>4, <1>5, <1>6, <1>7
    <2>5. /\ m \in Nat \ {0} /\ open[m].kind \notin Conditions
          /\ open[m].kind \in Logic \cup Branching <=> open'[m + 1].kind \in Logic
          /\ open'[m + 1].kind \in Logic \cup Branching /\ open'[m + 2].kind \in Conditions
          /\ open'[m + 1].kind \in Branching => open'[m + 1].begin # open'[m + 1].end
        BY <1>3, <1>7, <1>8, <2>2
    <2>6. /\ BlocksIn(open'[m + 1]) \subseteq Here'
          /\ Owed(open'[m + 2]) = {} /\ BlocksIn(open'[m + 2]) = {}
          /\ Owed(open'[m + 1]) \subseteq New(1) /\ insert' \notin Owed(open'[m + 1])
          /\ New(1) \subseteq Owed(open'[m + 1]) \cup {insert'}
        BY <1>7, <1>8, <2>4
    <2>7. QED
        BY <1>5, <1>8, <1>9, <2>1, <2>2, <2>3, <2>5, <2>6, CallOwed
<1>13. ContextInv'
    <2>1. /\ m + 1 = n /\ Len(open') = m + 2 /\ DOMAIN open' = 1 .. m + 2
          /\ open'[m + 1] = frame /\ open'[m + 2] = inner
          /\ \A i \in 1 .. m : open'[i] = open[i]
          /\ open'[m + 1].kind \in Logic \cup Branching /\ open'[m + 2].kind \in Conditions
        BY <1>7, <1>8, <1>12 DEF Conditions
    <2>2. /\ TrueLeads(open, n, context.trueBB) /\ FalseLeads(open, n, context.falseBB)
          /\ LoopLeads(open, n, context.iteration_endBB, context.iteration_condBB)
        BY <1>2 DEF BuilderInv, ContextInv, Inside
    <2>3. /\ TrueLeads(open, n - 1, context.trueBB) /\ FalseLeads(open, n - 1, context.falseBB)
          /\ LoopLeads(open, n - 1, context.iteration_endBB, context.iteration_condBB)
        BY <1>2, <2>2, LeadsOver DEF Conditions, Branching, Loops
    <2>4. /\ TrueLeads(open', m, context.trueBB) /\ FalseLeads(open', m, context.falseBB)
          /\ LoopLeads(open', m, context.iteration_endBB, context.iteration_condBB)
        BY <2>1, <2>3, LeadsAgree
    <2>5. LoopLeads(open', m + 2, context'.iteration_endBB, context'.iteration_condBB)
        <3>1. /\ context'.iteration_endBB = context.iteration_endBB
              /\ context'.iteration_condBB = context.iteration_condBB
            BY <1>1, <1>2 DEF Context
        <3>2. frame.kind \notin Loops
            BY <1>7 DEF Logic, Loops
        <3>3. QED
            BY <2>1, <2>4, <3>1, <3>2, CallLeads
    <2>6. TrueLeads(open', m + 2, context'.trueBB) /\ FalseLeads(open', m + 2, context'.falseBB)
        <3>1. m + 1 \in Nat \ {0}
            OBVIOUS
        <3>2. CASE kind = "and"
            <4>1. TrueLeads(open', m + 1, new)
                BY <1>7, <2>1, <3>1, <3>2, LeadsHere
            <4>2. FalseLeads(open', m + 1, context.falseBB)
                BY <1>7, <2>1, <2>4, <3>2, CallLeads DEF Branching
            <4>3. QED
                BY <1>9, <2>1, <3>2, <4>1, <4>2, CallLeads
        <3>3. CASE kind = "or"
            <4>1. FalseLeads(open', m + 1, new)
                BY <1>7, <2>1, <3>1, <3>3, LeadsHere
            <4>2. TrueLeads(open', m + 1, context.trueBB)
                BY <1>7, <2>1, <2>4, <3>3, CallLeads DEF Branching
            <4>3. QED
                BY <1>9, <2>1, <3>3, <4>1, <4>2, CallLeads
        <3>4. QED
            BY <3>2, <3>3 DEF Logic
    <2>7. SavedAt(open', m + 1)
        <3>1. (m + 1) - 1 = m /\ frame.kind \notin Loops
            BY <1>7 DEF Logic, Loops
        <3>2. QED
            BY <1>7, <2>1, <2>4, <3>1 DEF SavedAt
    <2>8. SavedAt(open', m + 2)
        BY <2>1 DEF SavedAt, Conditions, Loops
    <2>9. \A i \in DOMAIN open' : SavedAt(open', i)
        <3>1. \A i \in 1 .. m + 2 : i \in 1 .. m \/ i = m + 1 \/ i = m + 2
            OBVIOUS
        <3>2. QED
            BY <1>12, <2>1, <2>7, <2>8, <3>1
    <2>10. ~(Len(open') < 2) /\ open'[2].saved = Outside
        <3>1. open[2].saved = Outside /\ 2 \in 1 .. m /\ ~(m + 2 < 2)
            BY <1>2, <1>3 DEF BuilderInv, ContextInv
        <3>2. QED
            BY <2>1, <3>1
    <2>11. QED
        BY <2>1, <2>5, <2>6, <2>9, <2>10 DEF ContextInv
<1>14. QED
    BY <1>1, <1>2, <1>5, <1>12, <1>13 DEF BuilderInv, EndInv, GraphInv

\* A statement that branches: three blocks, and its condition comes next.
LEMMA SelectStep ==
    ASSUME BuilderInv, NEW kind \in Branching,
           \/ kind \in {"if", "if_else"} /\ VisitSelection(kind)
           \/ kind = "while" /\ VisitIteration
    PROVE  BuilderInv'
<1> DEFINE begin == Created(3)[2]
           end == Created(3)[3]
           first == Created(3)[1]
           join == IF kind = "while" THEN first ELSE end
           frame == Frame(kind, begin, end, join)
           inner == PlainFrame("LOrExp")
<1>1. /\ NextStatement /\ Create(3) /\ Jump(3, <<first>>) /\ insert' = first
      /\ open' = open \o <<frame, inner>>
      /\ context' = IF kind = "while"
                    THEN [trueBB |-> begin, falseBB |-> end,
                          iteration_endBB |-> end, iteration_condBB |-> first]
                    ELSE [context EXCEPT !.trueBB = begin, !.falseBB = end]
    <2>1. CASE kind = "while"
        <3>1. VisitIteration /\ join = first
            BY <2>1
        <3> HIDE DEF join
        <3>2. QED
            BY <2>1, <3>1 DEF VisitIteration
    <2>2. CASE kind # "while"
        <3>1. VisitSelection(kind) /\ join = end
            BY <2>2
        <3> HIDE DEF join
        <3>2. QED
            BY <2>2, <3>1 DEF VisitSelection
    <2>3. QED
        BY <2>1, <2>2
<1>2. /\ open # <<>> /\ insert \notin ended
      /\ Top.kind \notin Conditions \cup Logic \cup Branching
    BY <1>1 DEF NextStatement, AtStatement, Inside, Conditions, Logic, Branching
<1> PICK n \in Nat : n = Len(open) /\ n # 0
    BY <1>2, TopFacts
<1>3. /\ n \in Nat \ {0} /\ Top = open[n] /\ DOMAIN open = 1 .. n /\ n \in 1 .. n
      /\ context \in Context /\ ~asserted /\ ended \subseteq Blocks
      /\ insert \in Here /\ Here \subseteq Blocks /\ functions # <<>> /\ GraphInv
      /\ FlowGraphTypeOK /\ Len(succ) \in Nat /\ Blocks = 1 .. Len(succ)
      /\ open \in Seq(Visits)
    BY <1>2, TopFacts DEF GraphInv
<1>4. /\ first = Len(succ) + 1 /\ begin = Len(succ) + 2 /\ end = Len(succ) + 3
      /\ New(3) = {first, begin, end} /\ New(3) \cap Blocks = {}
    <2>1. first = Len(succ) + 1 /\ begin = Len(succ) + 2 /\ end = Len(succ) + 3
        BY <1>3 DEF Created
    <2> HIDE DEF first, begin, end
    <2>2. QED
        BY <1>3, <2>1 DEF New
<1>5. join \in New(3)
    BY <1>4
<1> HIDE DEF first, begin, end, join
<1>6. /\ ended' = ended \cup {insert} /\ ~asserted' /\ BranchTo(3, insert, <<first>>)
    BY <1>1, <1>2, <1>3 DEF Jump, Terminate
<1>7. /\ GraphInv' /\ Len(succ') = Len(succ) + 3 /\ Here' = Here \cup New(3)
      /\ DOMAIN functions' = DOMAIN functions
      /\ \A f \in DOMAIN functions : BlocksOf(f)' \subseteq BlocksOf(f) \cup New(3)
    <2>1. <<first>> \in Seq(New(3)) /\ 3 \in Nat
        BY <1>4
    <2>2. QED
        BY <1>1, <1>3, <1>6, <2>1, SelectGraph
<1>8. /\ Blocks \subseteq Blocks' /\ Context \subseteq Context' /\ Visits \subseteq Visits'
      /\ New(3) \subseteq Blocks'
    <2>1. 3 \in Nat
        OBVIOUS
    <2>2. Blocks \subseteq Blocks' /\ Context \subseteq Context' /\ Visits \subseteq Visits'
        BY <1>3, <1>7, <2>1, Grown
    <2>3. New(3) \subseteq Blocks'
        BY <1>3, <1>4, <1>7 DEF Blocks
    <2>4. QED
        BY <2>2, <2>3
<1>9. /\ frame \in Visits' /\ inner \in Visits'
      /\ frame.kind = kind /\ frame.begin = begin /\ frame.end = end /\ frame.join = join
      /\ frame.saved = context
      /\ inner.kind = "LOrExp" /\ Owed(inner) = {} /\ BlocksIn(inner) = {}
      /\ Owed(frame) = {begin, end} /\ BlocksIn(frame) = {begin, end, join}
    <2>1. frame = [kind |-> kind, begin |-> begin, end |-> end, join |-> join,
                   saved |-> context]
        BY DEF Frame
    <2>2. frame \in Visits'
        BY <1>3, <1>4, <1>5, <1>8, <2>1 DEF Visits, Kind, Branching
    <2>3. /\ inner \in Visits' /\ inner.kind = "LOrExp" /\ Owed(inner) = {}
          /\ BlocksIn(inner) = {}
        BY <1>3, <1>8, PlainFrameFacts DEF Kind, Logic, Branching, Bodies
    <2>4. /\ frame.kind = kind /\ frame.begin = begin /\ frame.end = end
          /\ frame.join = join /\ frame.saved = context
        BY <2>1
    <2> HIDE DEF frame
    <2>5. Owed(frame) = {begin, end} /\ BlocksIn(frame) = {begin, end, join}
        BY <2>4 DEF Owed, BlocksIn, Logic, Branching, Bodies
    <2>6. QED
        BY <2>2, <2>3, <2>4, <2>5
<1> HIDE DEF frame, inner
<1>10. /\ open' \in Seq(Visits') /\ Len(open') = n + 2
       /\ open'[n + 1] = frame /\ open'[n + 2] = inner
       /\ \A i \in 1 .. n : open'[i] = open[i]
    <2>1. open \in Seq(Visits')
        BY <1>3, <1>8, SeqFacts
    <2>2. QED
        BY <1>1, <1>9, <2>1, CallFacts
<1>11. /\ context' \in Context' /\ context'.trueBB = begin /\ context'.falseBB = end
       /\ kind = "while" => context'.iteration_endBB = end /\ context'.iteration_condBB = first
       /\ kind # "while" => /\ context'.iteration_endBB = context.iteration_endBB
                            /\ context'.iteration_condBB = context.iteration_condBB
    <2>1. first \in Blocks' /\ begin \in Blocks' /\ end \in Blocks' /\ context \in Context'
        BY <1>3, <1>4, <1>8
    <2>2. QED
        BY <1>1, <2>1 DEF Context
<1>12. /\ BuilderTypeOK' /\ Nested' /\ LaidOut' /\ OwedOnce' /\ EndedByCondition'
       /\ EndedOrOwed' /\ DOMAIN open' = 1 .. n + 2
       /\ \A i \in 1 .. n : SavedAt(open', i)
    <2>1. \A i \in 1 .. Len(open) : i <= n \/ Owed(open[i]) = {}
        BY <1>3
    <2>2. n <= Len(open) /\ 3 \in Nat /\ kind \notin Logic
        BY DEF Logic, Branching
    <2>3. /\ ended \subseteq ended' /\ ended' \subseteq ended \cup {insert} /\ ~asserted'
          /\ insert' \in New(3) \cup {insert} /\ insert' \notin ended'
          /\ insert \in ended' \cup {insert'}
        BY <1>1, <1>3, <1>4, <1>6
    <2>4. /\ open[n].kind \notin Conditions
          /\ open[n].kind \in Logic \cup Branching <=> open'[n + 1].kind \in Logic
          /\ open'[n + 1].kind \in Logic \cup Branching /\ open'[n + 2].kind \in Conditions
          /\ open'[n + 1].kind \in Branching => open'[n + 1].begin # open'[n + 1].end
        BY <1>2, <1>3, <1>4, <1>9, <1>10, <2>2 DEF Conditions
    <2>5. /\ BlocksIn(open'[n + 1]) \subseteq Here'
          /\ Owed(open'[n + 2]) = {} /\ BlocksIn(open'[n + 2]) = {}
          /\ Owed(open'[n + 1]) \subseteq New(3) /\ insert' \notin Owed(open'[n + 1])
          /\ New(3) \subseteq Owed(open'[n + 1]) \cup {insert'}
        BY <1>1, <1>3, <1>4, <1>5, <1>7, <1>9, <1>10
    <2>6. QED
        BY <1>2, <1>3, <1>7, <1>10, <1>11, <2>1, <2>2, <2>3, <2>4, <2>5, CallOwed
<1>13. ContextInv'
    <2>1. /\ open'[n + 1].kind \in Logic \cup Branching /\ open'[n + 2].kind \in Conditions
          /\ n + 1 \in Nat \ {0} /\ open'[n + 1].kind \in Branching
        BY <1>9, <1>10 DEF Conditions
    <2>2. LoopLeads(open, n, context.iteration_endBB, context.iteration_condBB)
        BY <1>3 DEF BuilderInv, ContextInv
    <2>3. LoopLeads(open', n, context.iteration_endBB, context.iteration_condBB)
        BY <1>10, <2>2, LeadsAgree
    <2>4. TrueLeads(open', n + 2, context'.trueBB) /\ FalseLeads(open', n + 2, context'.falseBB)
        <3>1. /\ TrueLeads(open', n + 1, open'[n + 1].begin)
              /\ FalseLeads(open', n + 1, open'[n + 1].end)
            BY <2>1, LeadsHere
        <3>2. QED
            BY <1>9, <1>10, <1>11, <2>1, <3>1, CallLeads
    <2>5. LoopLeads(open', n + 2, context'.iteration_endBB, context'.iteration_condBB)
        <3>1. CASE kind = "while"
            <4>1. join = first /\ open'[n + 1].kind \in Loops
                BY <1>9, <1>10, <3>1 DEF join, Loops
            <4>2. LoopLeads(open', n + 1, open'[n + 1].end, open'[n + 1].join)
                BY <2>1, <4>1, LeadsHere
            <4>3. QED
                BY <1>9, <1>10, <1>11, <2>1, <3>1, <4>1, <4>2, CallLeads
        <3>2. CASE kind # "while"
            <4>1. open'[n + 1].kind \notin Loops
                BY <1>9, <1>10, <3>2 DEF Loops, Branching
            <4>2. QED
                BY <1>11, <2>1, <2>3, <3>2, <4>1, CallLeads
        <3>3. QED
            BY <3>1, <3>2
    <2>6. SavedAt(open', n + 1)
        <3>1. (n + 1) - 1 = n /\ kind # "and" /\ kind # "or"
            BY DEF Branching
        <3>2. QED
            BY <1>9, <1>10, <2>3, <3>1 DEF SavedAt
    <2>7. SavedAt(open', n + 2)
        BY <1>9, <1>10 DEF SavedAt, Loops
    <2>8. \A i \in DOMAIN open' : SavedAt(open', i)
        <3>1. \A i \in 1 .. n + 2 : i \in 1 .. n \/ i = n + 1 \/ i = n + 2
            OBVIOUS
        <3>2. QED
            BY <1>12, <2>6, <2>7, <3>1
    <2>9. ~(Len(open') < 2) /\ open'[2].saved = Outside
        <3>1. CASE n = 1
            <4>1. context = Outside /\ n + 1 = 2 /\ ~(n + 2 < 2)
                BY <1>3, <3>1 DEF BuilderInv, ContextInv
            <4>2. QED
                BY <1>9, <1>10, <4>1
        <3>2. CASE n # 1
            <4>1. open[2].saved = Outside /\ 2 \in 1 .. n /\ ~(n + 2 < 2)
                BY <1>3, <3>2 DEF BuilderInv, ContextInv
            <4>2. QED
                BY <1>10, <4>1
        <3>3. QED
            BY <3>1, <3>2
    <2>10. QED
        BY <1>10, <2>4, <2>5, <2>8, <2>9 DEF ContextInv
<1>14. QED
    BY <1>6, <1>7, <1>12, <1>13 DEF BuilderInv, EndInv, GraphInv

-----------------------------------------------------------------------------
\* What TargetsFollowNesting and EveryBlockEnds say follows from the invariant.
LEMMA NearestIsMax ==
    ASSUME NEW o, NEW n \in Nat, DOMAIN o = 1 .. n, NEW kinds, NEW k \in Int,
           Nearest(kinds, o, n, k)
    PROVE  Max({i \in DOMAIN o : o[i].kind \in kinds}) = k
<1> DEFINE S == {i \in DOMAIN o : o[i].kind \in kinds}
<1>1. k \in S /\ \A i \in S : k >= i
    <2>1. k \in S
        BY DEF Nearest
    <2>2. ASSUME NEW i \in S
          PROVE  k >= i
        <3>1. i \in 1 .. n /\ k \in 1 .. n /\ i \notin (k + 1) .. n
            BY <2>2 DEF Nearest
        <3>2. QED
            BY <3>1
    <2>3. QED
        BY <2>1, <2>2
<1>2. S \subseteq Int
    OBVIOUS
<1> HIDE DEF S
<1>3. \A x : x \in S /\ (\A i \in S : x >= i) => x = k
    <2>1. ASSUME NEW x \in S, \A i \in S : x >= i
          PROVE  x = k
        <3>1. x >= k /\ k >= x /\ x \in Int
            BY <1>1, <1>2, <2>1
        <3>2. QED
            BY <3>1
    <2>2. QED
        BY <2>1
<1>4. Max(S) = k
    <2>1. Max(S) = CHOOSE x \in S : \A i \in S : x >= i
        BY DEF Max
    <2>2. QED
        BY <1>1, <1>3, <2>1
<1>5. QED
    BY <1>4 DEF S

LEMMA NestingFollows ==
    ASSUME BuilderInv
    PROVE  TargetsFollowNesting
<1>1. /\ Len(open) \in Nat /\ DOMAIN open = 1 .. Len(open)
      /\ open = <<>> => Len(open) = 0
    <2>1. open \in Seq(Visits)
        BY DEF BuilderInv, BuilderTypeOK, Visits
    <2>2. QED
        BY <2>1, SeqFacts
<1> PICK n \in Nat : n = Len(open)
    BY <1>1
<1>2. ASSUME Inside({"LOrExp", "LAndExp", "EqExp"})
      PROVE  context.trueBB = TrueTarget /\ context.falseBB = FalseTarget
    <2>1. TrueLeads(open, n, context.trueBB) /\ FalseLeads(open, n, context.falseBB)
        BY <1>2 DEF BuilderInv, ContextInv, Inside, Conditions
    <2>2. context.trueBB = TrueTarget
        <3>1. PICK k \in 1 .. n : Nearest({"and", "if", "if_else", "while"}, open, n, k)
                                    /\ open[k].begin = context.trueBB
            <4>1. {"and"} \cup Branching = {"and", "if", "if_else", "while"}
                BY DEF Branching
            <4>2. QED
                BY <2>1, <4>1 DEF TrueLeads
        <3>2. Max({i \in DOMAIN open : open[i].kind \in {"and", "if", "if_else", "while"}}) = k
            BY <1>1, <3>1, NearestIsMax
        <3>3. QED
            BY <3>1, <3>2 DEF TrueTarget
    <2>3. context.falseBB = FalseTarget
        <3>1. PICK k \in 1 .. n : /\ Nearest({"or", "if", "if_else", "while"}, open, n, k)
                                  /\ context.falseBB = IF open[k].kind = "or" THEN open[k].begin
                                                                              ELSE open[k].end
            <4>1. {"or"} \cup Branching = {"or", "if", "if_else", "while"}
                BY DEF Branching
            <4>2. QED
                BY <2>1, <4>1 DEF FalseLeads
        <3>2. Max({i \in DOMAIN open : open[i].kind \in {"or", "if", "if_else", "while"}}) = k
            BY <1>1, <3>1, NearestIsMax
        <3>3. QED
            BY <3>1, <3>2 DEF FalseTarget
    <2>4. QED
        BY <2>2, <2>3
<1>3. /\ context.iteration_endBB = IF OpenLoops = {} THEN NoBlock ELSE open[Max(OpenLoops)].end
      /\ context.iteration_condBB = IF OpenLoops = {} THEN NoBlock ELSE open[Max(OpenLoops)].join
    <2>1. LoopLeads(open, n, context.iteration_endBB, context.iteration_condBB)
        BY DEF BuilderInv, ContextInv
    <2>2. OpenLoops = {i \in DOMAIN open : open[i].kind \in Loops}
        BY DEF OpenLoops, Loops
    <2>3. CASE /\ \A k \in 1 .. n : open[k].kind \notin Loops
               /\ context.iteration_endBB = NoBlock /\ context.iteration_condBB = NoBlock
        BY <1>1, <2>2, <2>3
    <2>4. CASE \E k \in 1 .. n : /\ Nearest(Loops, open, n, k)
                                 /\ open[k].end = context.iteration_endBB
                                 /\ open[k].join = context.iteration_condBB
        <3>1. PICK k \in 1 .. n : /\ Nearest(Loops, open, n, k)
                                 /\ open[k].end = context.iteration_endBB
                                 /\ open[k].join = context.iteration_condBB
            BY <2>4
        <3>2. Max(OpenLoops) = k
            BY <1>1, <2>2, <3>1, NearestIsMax
        <3>3. OpenLoops # {}
            BY <1>1, <2>2, <3>1 DEF Nearest
        <3>4. QED
            BY <3>1, <3>2, <3>3
    <2>5. QED
        BY <2>1, <2>3, <2>4 DEF LoopLeads
<1>4. open = <<>> => context = Outside
    BY <1>1 DEF BuilderInv, ContextInv
<1>5. QED
    BY <1>2, <1>3, <1>4 DEF TargetsFollowNesting, Outside

LEMMA EndsFollow ==
    ASSUME BuilderInv
    PROVE  EveryBlockEnds
    BY DEF BuilderInv, EndInv, EndedOrOwed, EveryBlockEnds

-----------------------------------------------------------------------------
\* The invariant holds of the empty module and through every visit.
LEMMA BuilderStarts ==
    ASSUME BuilderInit
    PROVE  BuilderInv
<1>1. /\ functions = <<>> /\ succ = <<>> /\ pred = <<>> /\ open = <<>>
      /\ insert = NoBlock /\ ended = {} /\ asserted = FALSE /\ context = Outside
    BY DEF BuilderInit, Outside
<1>2. DOMAIN functions = {} /\ DOMAIN open = {} /\ Len(open) = 0
    BY <1>1
<1>3. BuilderTypeOK
    <2>1. FlowGraphTypeOK
        BY <1>1 DEF FlowGraphTypeOK
    <2>2. context \in Context
        BY <1>1 DEF Context, Outside
    <2>3. open \in Seq([kind : Kind, begin : Blocks \cup {NoBlock},
                        end : Blocks \cup {NoBlock}, join : Blocks \cup {NoBlock},
                        saved : Context])
        BY <1>1
    <2>4. QED
        BY <1>1, <2>1, <2>2, <2>3 DEF BuilderTypeOK
<1>4. Nested /\ LaidOut /\ EndInv
    BY <1>1, <1>2 DEF Nested, LaidOut, EndInv, OwedOnce, EndedByCondition, EndedOrOwed, Inside
<1>5. ContextInv
    BY <1>1, <1>2 DEF ContextInv, Inside, LoopLeads, Outside
<1>6. Apart /\ EdgesAgree
    BY <1>2 DEF Apart, EdgesAgree, Functions
<1>7. QED
    BY <1>3, <1>4, <1>5, <1>6 DEF BuilderInv

LEMMA BuilderStep ==
    ASSUME BuilderInv, BuilderNext
    PROVE  BuilderInv'
<1>1. CASE StartFunction
    BY <1>1, StartStep
<1>2. CASE FinishFunction
    BY <1>2, FinishStep
<1>3. CASE VisitReturn \/ VisitBreak \/ VisitContinue
    BY <1>3, EndBlockStep
<1>4. CASE \E kind \in {"if", "if_else"} : VisitSelection(kind)
    BY <1>4, SelectStep DEF Branching
<1>5. CASE VisitIteration
    BY <1>5, SelectStep DEF Branching
<1>6. CASE VisitOperand
    BY <1>6, OperandStep
<1>7. CASE VisitOr \/ VisitAnd
    BY <1>7, LogicStep
<1>8. CASE VisitRight
    BY <1>8, RightStep
<1>9. CASE VisitThen \/ VisitThenElse \/ VisitElse \/ VisitBody
    BY <1>9, BodyStep
<1>10. CASE LeaveThen \/ LeaveElse \/ LeaveBody
    BY <1>10, LeaveStep
<1>11. QED
    BY <1>1, <1>2, <1>3, <1>4, <1>5, <1>6, <1>7, <1>8, <1>9, <1>10 DEF BuilderNext

LEMMA BuilderStutters ==
    ASSUME BuilderInv, UNCHANGED bvars
    PROVE  BuilderInv'
<1>1. UNCHANGED <<functions, succ, pred, insert, ended, asserted, context, open>>
    BY DEF bvars, graphVars, builderVars
<1>2. BuilderTypeOK'
    BY <1>1 DEF BuilderInv, BuilderTypeOK, FlowGraphTypeOK, Blocks, Context
<1>3. Nested' /\ LaidOut' /\ EndInv'
    BY <1>1 DEF BuilderInv, Nested, LaidOut, Here, BlocksOf, EndInv, OwedOnce, EndedByCondition,
                EndedOrOwed, AllOwed, Inside, Top
<1>4. ContextInv'
    BY <1>1 DEF BuilderInv, ContextInv, Inside, Top
<1>5. Apart' /\ EdgesAgree'
    BY <1>1 DEF BuilderInv, Apart, EdgesAgree, Functions, BlocksOf
<1>6. QED
    BY <1>2, <1>3, <1>4, <1>5 DEF BuilderInv

-----------------------------------------------------------------------------
\* Induction up to n, on a set instead of a predicate: a set that holds 0 and
\* with every number below n its successor holds n.
LEMMA IntervalInduction ==
    ASSUME NEW n \in Nat, NEW S \in SUBSET (0 .. n), 0 \in S,
           \A i \in S : i < n => i + 1 \in S
    PROVE  n \in S
<1> SUFFICES ASSUME n \notin S
             PROVE  FALSE
    OBVIOUS
<1> DEFINE next == [i \in S |-> i + 1]
<1>1. next \in Injection(S, S)
    <2>1. \A i \in S : i + 1 \in S
        OBVIOUS
    <2>2. next \in [S -> S]
        BY <2>1
    <2>3. \A a, b \in S : next[a] = next[b] => a = b
        OBVIOUS
    <2>4. QED
        BY <2>2, <2>3 DEF Injection, IsInjective
<1>2. IsFiniteSet(S)
    <2>1. IsFiniteSet(0 .. n)
        BY FS_Interval
    <2>2. QED
        BY <2>1, FS_Subset
<1>3. next \in Surjection(S, S)
    BY <1>1, <1>2, FS_Injection
<1>4. \E i \in S : next[i] = 0
    BY <1>3 DEF Surjection
<1>5. QED
    BY <1>4

\* Without goes through the list one element after the other.
LEMMA WithoutSteps ==
    ASSUME NEW S, NEW s \in Seq(S), NEW gone
    PROVE  \E f : /\ Without(s, gone) = f[Len(s)] /\ f[0] = <<>>
                  /\ \A n \in 1 .. Len(s) :
                        f[n] = IF s[n] \in gone THEN f[n - 1] ELSE Append(f[n - 1], s[n])
<1> DEFINE All == Len(s)
           Body(f, n) == IF n = 0 THEN <<>>
                         ELSE IF s[n] \in gone THEN f[n - 1] ELSE Append(f[n - 1], s[n])
           Good(f, m) == f = [n \in 0 .. m |-> Body(f, n)]
           kept == CHOOSE f : Good(f, All)
           S0 == {m \in 0 .. All : \E f : Good(f, m)}
<1>1. All \in Nat
    OBVIOUS
<1>2. Without(s, gone) = kept[All]
    BY DEF Without
<1> HIDE DEF All
<1>3. 0 \in S0
    <2> DEFINE f == [n \in 0 .. 0 |-> <<>>]
    <2>1. f = [n \in 0 .. 0 |-> Body(f, n)]
        OBVIOUS
    <2> HIDE DEF Body, f
    <2>2. 0 \in 0 .. All
        BY <1>1
    <2>3. QED
        BY <2>1, <2>2
<1>4. ASSUME NEW m \in S0, m < All
      PROVE  m + 1 \in S0
    <2>1. m \in Nat /\ m + 1 \in 0 .. All
        BY <1>1, <1>4
    <2>2. PICK f : Good(f, m)
        BY <1>4
    <2> DEFINE g == [n \in 0 .. m + 1 |-> IF n = m + 1 THEN Body(f, n) ELSE f[n]]
    <2>3. \A n \in 0 .. m : f[n] = Body(f, n)
        BY <2>2
    <2>4. \A n \in 0 .. m : g[n] = f[n]
        BY <2>1
    <2>5. ASSUME NEW n \in 0 .. m + 1
          PROVE  g[n] = Body(g, n)
        <3>1. CASE n = 0
            BY <2>1, <2>3, <2>4, <3>1
        <3>2. CASE n # 0
            <4>1. n - 1 \in 0 .. m /\ g[n - 1] = f[n - 1]
                BY <2>1, <2>4, <3>2
            <4>2. Body(g, n) = Body(f, n)
                BY <4>1, <3>2
            <4>3. g[n] = Body(f, n)
                BY <2>1, <2>3
            <4>4. QED
                BY <4>2, <4>3
        <3>3. QED
            BY <3>1, <3>2
    <2> HIDE DEF Body
    <2>6. g = [n \in 0 .. m + 1 |-> Body(g, n)]
        <3>1. g = [n \in 0 .. m + 1 |-> g[n]]
            OBVIOUS
        <3> HIDE DEF g
        <3>2. QED
            BY <2>5, <3>1
    <2>7. QED
        BY <2>1, <2>6
<1>5. All \in S0
    <2>1. S0 \in SUBSET (0 .. All)
        OBVIOUS
    <2> HIDE DEF S0
    <2>2. QED
        BY <1>1, <1>3, <1>4, <2>1, IntervalInduction
<1>6. Good(kept, All)
    BY <1>5
<1>7. /\ kept[0] = <<>>
      /\ \A n \in 1 .. All : kept[n] = IF s[n] \in gone THEN kept[n - 1]
                                                        ELSE Append(kept[n - 1], s[n])
    <2> HIDE DEF kept
    <2>1. \A n \in 0 .. All : kept[n] = Body(kept, n)
        BY <1>6
    <2>2. QED
        BY <1>1, <2>1
<1> HIDE DEF kept
<1>8. QED
    BY <1>2, <1>7 DEF All

\* It keeps the elements that are not to go, and no others.
LEMMA WithoutFacts ==
    ASSUME NEW S, NEW s \in Seq(S), NEW gone
    PROVE  Without(s, gone) \in Seq(S) /\ Range(Without(s, gone)) = Range(s) \ gone
<1> PICK f : /\ Without(s, gone) = f[Len(s)] /\ f[0] = <<>>
             /\ \A n \in 1 .. Len(s) :
                   f[n] = IF s[n] \in gone THEN f[n - 1] ELSE Append(f[n - 1], s[n])
    BY WithoutSteps
<1> DEFINE First(n) == {s[i] : i \in 1 .. n}
           Done == {n \in 0 .. Len(s) : f[n] \in Seq(S) /\ Range(f[n]) = First(n) \ gone}
<1>1. Len(s) \in Nat /\ DOMAIN s = 1 .. Len(s) /\ \A i \in 1 .. Len(s) : s[i] \in S
    OBVIOUS
<1>2. 0 \in Done
    <2>1. Range(<<>>) = {}
        BY DEF Range
    <2>2. First(0) = {}
        OBVIOUS
    <2> HIDE DEF First
    <2>3. f[0] \in Seq(S) /\ Range(f[0]) = First(0) \ gone /\ 0 \in 0 .. Len(s)
        BY <1>1, <2>1, <2>2
    <2>4. QED
        BY <2>3
<1>3. ASSUME NEW n \in Done, n < Len(s)
      PROVE  n + 1 \in Done
    <2>1. n \in Nat /\ n + 1 \in 1 .. Len(s) /\ (n + 1) - 1 = n /\ s[n + 1] \in S
        BY <1>1, <1>3
    <2>2. f[n + 1] = IF s[n + 1] \in gone THEN f[n] ELSE Append(f[n], s[n + 1])
        BY <2>1
    <2>3. First(n + 1) = First(n) \cup {s[n + 1]}
        <3>1. \A i \in 1 .. n + 1 : i \in 1 .. n \/ i = n + 1
            BY <2>1
        <3>2. \A i \in 1 .. n : i \in 1 .. n + 1
            BY <2>1
        <3>3. QED
            BY <2>1, <3>1, <3>2
    <2> HIDE DEF First
    <2>4. CASE s[n + 1] \in gone
        BY <1>3, <2>1, <2>2, <2>3, <2>4
    <2>5. CASE s[n + 1] \notin gone
        <3> DEFINE t == f[n]
                   e == s[n + 1]
        <3>1. t \in Seq(S) /\ e \in S /\ Range(t) = First(n) \ gone
            BY <1>3, <2>1
        <3> HIDE DEF t, e
        <3>2. Append(t, e) \in Seq(S) /\ Range(Append(t, e)) = Range(t) \cup {e}
            BY <3>1, RangeFacts
        <3>3. /\ f[n + 1] = Append(t, e) /\ First(n + 1) = First(n) \cup {e}
              /\ e \notin gone
            BY <2>2, <2>3, <2>5 DEF t, e
        <3>4. f[n + 1] \in Seq(S) /\ Range(f[n + 1]) = First(n + 1) \ gone
            BY <3>1, <3>2, <3>3
        <3>5. QED
            BY <2>1, <3>4
    <2>6. QED
        BY <2>4, <2>5
<1>4. Len(s) \in Done
    <2>1. Done \in SUBSET (0 .. Len(s))
        OBVIOUS
    <2> HIDE DEF Done
    <2>2. QED
        BY <1>1, <1>2, <1>3, <2>1, IntervalInduction
<1>5. Range(s) = First(Len(s))
    BY <1>1 DEF Range
<1> HIDE DEF First
<1>6. QED
    BY <1>4, <1>5
\* Function::remove leaves no edge to a block that is gone.
LEMMA RemoveFacts ==
    ASSUME GraphInv, NEW f \in DOMAIN functions,
           NEW gone \in SUBSET (BlocksOf(f) \ {Entry(f)}), RemoveBlocks(f, gone)
    PROVE  /\ GraphInv' /\ Blocks' = Blocks /\ DOMAIN functions' = DOMAIN functions
           /\ \A g \in DOMAIN functions : BlocksOf(g)' \subseteq BlocksOf(g)
<1> DEFINE lists == Seq(Blocks)
           n == Len(succ)
<1>1. /\ succ \in Seq(lists) /\ pred \in Seq(lists) /\ Len(pred) = n /\ n \in Nat
      /\ Blocks = 1 .. n /\ functions \in Seq(lists \ {<<>>})
    BY DEF GraphInv, FlowGraphTypeOK, Blocks
<1>2. /\ functions' = [functions EXCEPT ![f] = Without(functions[f], gone)]
      /\ succ' = [b \in Blocks |-> Without(succ[b], gone)]
      /\ pred' = [b \in Blocks |-> Without(pred[b], gone)]
    BY DEF RemoveBlocks
<1>3. /\ \A b \in Blocks : succ[b] \in lists /\ pred[b] \in lists
      /\ \A g \in DOMAIN functions : functions[g] \in lists /\ functions[g] # <<>>
    <2> DEFINE some == lists \ {<<>>}
    <2> HIDE DEF lists
    <2>1. \A b \in Blocks : succ[b] \in lists /\ pred[b] \in lists
        BY <1>1, SeqFacts
    <2>2. functions \in Seq(some)
        BY <1>1
    <2> HIDE DEF some
    <2>3. \A g \in DOMAIN functions : functions[g] \in some
        BY <2>2, SeqFacts
    <2>4. QED
        BY <2>1, <2>3 DEF some
<1>4. \A s \in lists : /\ Without(s, gone) \in lists
                        /\ Range(Without(s, gone)) = Range(s) \ gone
    BY WithoutFacts
<1> HIDE DEF lists
<1>5. succ' \in [1 .. n -> lists] /\ pred' \in [1 .. n -> lists]
    BY <1>1, <1>2, <1>3, <1>4
<1>6. succ' \in Seq(lists) /\ pred' \in Seq(lists) /\ Len(succ') = n /\ Len(pred') = n
    BY <1>1, <1>5, FunctionIsSeq
<1>7. Blocks' = Blocks
    BY <1>1, <1>6 DEF Blocks
<1>8. /\ Without(functions[f], gone) \in lists \ {<<>>}
      /\ Range(Without(functions[f], gone)) = BlocksOf(f) \ gone
    <2>1. /\ Without(functions[f], gone) \in lists
          /\ Range(Without(functions[f], gone)) = BlocksOf(f) \ gone
        BY <1>3, <1>4 DEF BlocksOf
    <2>2. Entry(f) \in BlocksOf(f) \ gone
        <3>1. 1 \in DOMAIN functions[f]
            BY <1>3 DEF lists
        <3>2. QED
            BY <3>1 DEF Entry, BlocksOf, Range
    <2>3. Range(<<>>) = {}
        BY DEF Range
    <2>4. QED
        BY <2>1, <2>2, <2>3
<1>9. /\ functions' \in Seq(lists \ {<<>>}) /\ DOMAIN functions' = DOMAIN functions
      /\ \A g \in DOMAIN functions :
            functions'[g] = IF g = f THEN Without(functions[f], gone) ELSE functions[g]
    <2> DEFINE some == lists \ {<<>>}
    <2>1. functions \in Seq(some) /\ Without(functions[f], gone) \in some
        BY <1>1, <1>8
    <2> HIDE DEF some
    <2>2. /\ functions' \in Seq(some) /\ DOMAIN functions' = DOMAIN functions
          /\ \A g \in DOMAIN functions :
                functions'[g] = IF g = f THEN Without(functions[f], gone) ELSE functions[g]
        BY <1>2, <2>1
    <2>3. QED
        BY <2>2 DEF some
<1>10. FlowGraphTypeOK'
    BY <1>6, <1>7, <1>9 DEF FlowGraphTypeOK, lists
<1>11. \A g \in DOMAIN functions :
            BlocksOf(g)' = IF g = f THEN BlocksOf(g) \ gone ELSE BlocksOf(g)
    BY <1>8, <1>9 DEF BlocksOf
<1>12. Apart'
    BY <1>9, <1>11 DEF GraphInv, Apart
<1>13. \A g \in DOMAIN functions : g # f => BlocksOf(g) \cap gone = {}
    BY DEF GraphInv, Apart
<1>14. \A g \in DOMAIN functions : BlocksOf(g) \subseteq Blocks
    <2>1. ASSUME NEW g \in DOMAIN functions
          PROVE  Range(functions[g]) \subseteq Blocks
        BY <1>3, RangeTyped DEF lists
    <2>2. QED
        BY <2>1 DEF BlocksOf
<1>15. \A b \in Blocks : Range(succ'[b]) = Range(succ[b]) \ gone
                        /\ Range(pred'[b]) = Range(pred[b]) \ gone
    BY <1>2, <1>3, <1>4
<1>16. EdgesAgree'
    <2>1. ASSUME NEW g \in DOMAIN functions, NEW a \in BlocksOf(g)'
          PROVE  /\ \A b \in Range(succ'[a]) : b \in BlocksOf(g)' /\ a \in Range(pred'[b])
                 /\ \A b \in Range(pred'[a]) : b \in BlocksOf(g)' /\ a \in Range(succ'[b])
        <3>1. a \in BlocksOf(g) /\ a \in Blocks /\ a \notin gone
            BY <1>11, <1>13, <1>14, <2>1
        <3>2. /\ \A b \in Range(succ[a]) : b \in BlocksOf(g) /\ a \in Range(pred[b])
              /\ \A b \in Range(pred[a]) : b \in BlocksOf(g) /\ a \in Range(succ[b])
            BY <3>1 DEF GraphInv, EdgesAgree, Functions
        <3>3. \A b \in BlocksOf(g) : b \notin gone => b \in BlocksOf(g)' /\ b \in Blocks
            BY <1>11, <1>14
        <3>4. QED
            BY <1>15, <3>1, <3>2, <3>3
    <2>2. QED
        BY <1>9, <2>1 DEF EdgesAgree, Functions, BlocksOf
<1>17. QED
    BY <1>7, <1>9, <1>10, <1>11, <1>12, <1>16 DEF GraphInv

\* DeadCode erases no entry block and nothing while a function is built.
LEMMA ClearStep ==
    ASSUME BuilderInv, open = <<>>, cursor \in Nat \ {0}, ClearBasicBlocks
    PROVE  BuilderInv'
<1>1. /\ cursor \in DOMAIN functions /\ GraphInv
      /\ RemoveBlocks(cursor, ToErase(cursor))
      /\ ToErase(cursor) \in SUBSET (BlocksOf(cursor) \ {Entry(cursor)})
    <2>1. functions \in Seq(Seq(Blocks) \ {<<>>}) /\ cursor <= Len(functions)
        BY DEF BuilderInv, BuilderTypeOK, FlowGraphTypeOK, ClearBasicBlocks
    <2>2. cursor \in DOMAIN functions
        BY <2>1, SeqFacts
    <2>3. QED
        BY <2>2 DEF BuilderInv, BuilderTypeOK, GraphInv, ClearBasicBlocks, ToErase
<1>2. UNCHANGED <<insert, ended, asserted, context, open>>
    BY DEF ClearBasicBlocks, builderVars
<1>3. /\ GraphInv' /\ Blocks' = Blocks /\ DOMAIN functions' = DOMAIN functions
      /\ \A g \in DOMAIN functions : BlocksOf(g)' \subseteq BlocksOf(g)
    BY <1>1, RemoveFacts
<1>4. BuilderTypeOK'
    BY <1>2, <1>3 DEF BuilderInv, BuilderTypeOK, GraphInv, Context
<1>5. DOMAIN open = {} /\ open' = <<>> /\ Len(open) = 0
    BY <1>2
<1>6. Nested' /\ LaidOut'
    BY <1>2, <1>5 DEF Nested, LaidOut
<1>7. EndInv'
    <2>1. OwedOnce' /\ EndedByCondition' /\ ~asserted'
        BY <1>2, <1>5 DEF BuilderInv, EndInv, OwedOnce, EndedByCondition, Inside
    <2>2. EndedOrOwed'
        BY <1>2, <1>3 DEF BuilderInv, EndInv, EndedOrOwed, BlocksOf
    <2>3. QED
        BY <2>1, <2>2 DEF EndInv
<1>8. ContextInv'
    BY <1>2 DEF BuilderInv, ContextInv, Inside, Top
<1>9. QED
    BY <1>3, <1>4, <1>6, <1>7, <1>8 DEF BuilderInv, GraphInv

-----------------------------------------------------------------------------
\* The passes start when the last function is finished, and add nothing.
ProgramInv ==
    /\ BuilderInv
    /\ pass # "build" => open = <<>>
    /\ pass = "clear" => cursor \in Nat \ {0}

LEMMA ProgramStep ==
    ASSUME ProgramInv, [Next]_vars
    PROVE  ProgramInv'
<1>1. CASE Build
    BY <1>1, BuilderStep DEF ProgramInv, Build
<1>2. CASE StartDeadCode
    BY <1>2, BuilderStutters DEF ProgramInv, StartDeadCode, bvars, builderVars
<1>3. CASE ClearBasicBlocks
    BY <1>3, ClearStep DEF ProgramInv, ClearBasicBlocks, builderVars
<1>4. CASE ClearAgain
    BY <1>4, BuilderStutters DEF ProgramInv, ClearAgain, bvars, builderVars
<1>5. CASE StartLoopDetection
    BY <1>5, BuilderStutters DEF ProgramInv, StartLoopDetection, bvars, builderVars
<1>6. CASE NextFunction \/ Analyse
    <2>1. UNCHANGED bvars /\ pass = "loops" /\ pass' = "loops"
        BY <1>6 DEF NextFunction, Analyse
    <2>2. QED
        BY <2>1, BuilderStutters DEF ProgramInv, bvars, builderVars
<1>7. CASE UNCHANGED vars
    BY <1>7, BuilderStutters DEF ProgramInv, vars, bvars, builderVars
<1>8. QED
    BY <1>1, <1>2, <1>3, <1>4, <1>5, <1>6, <1>7 DEF Next, Passes, Rest

LEMMA ProgramInvariant == Spec => []ProgramInv
<1>1. Init => ProgramInv
    BY BuilderStarts DEF Init, ProgramInv
<1>2. ProgramInv /\ [Next]_vars => ProgramInv'
    BY ProgramStep
<1>3. QED
    BY <1>1, <1>2, PTL DEF Spec

\* Every block, edge and target of a program is one that exists, whatever the
\* program and however many blocks DeadCode erases.
THEOREM BuilderTypeCorrect == Spec => []BuilderTypeOK
<1>1. ProgramInv => BuilderTypeOK
    BY DEF ProgramInv, BuilderInv
<1>2. QED
    BY <1>1, ProgramInvariant, PTL

\* However statements and conditions are nested, the blocks the builder holds
\* ready for a condition, a break or a continue are those of the innermost
\* visit they belong to.
THEOREM JumpsFollowNesting == Spec => []TargetsFollowNesting
<1>1. ProgramInv => TargetsFollowNesting
    BY NestingFollows DEF ProgramInv
<1>2. QED
    BY <1>1, ProgramInvariant, PTL

\* No instruction follows a terminator, and once a function is finished every
\* block of it has one.
THEOREM BlocksEndOnce == Spec => []EveryBlockEnds
<1>1. ProgramInv => EveryBlockEnds
    BY EndsFollow DEF ProgramInv
<1>2. QED
    BY <1>1, ProgramInvariant, PTL

\* The lists of successors and of predecessors say the same of the blocks
\* that are left, while a function is built and after blocks were erased.
THEOREM EdgeListsAgree == Spec => []EdgesAgree
<1>1. ProgramInv => EdgesAgree
    BY DEF ProgramInv, BuilderInv
<1>2. QED
    BY <1>1, ProgramInvariant, PTL
=============================================================================
