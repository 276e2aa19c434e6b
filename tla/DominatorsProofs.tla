-------------------------- MODULE DominatorsProofs --------------------------
(***************************************************************************)
(* The analyses on the flow graph of every program: the types of what      *)
(* Dominators and LoopDetection keep; the entry blocks, which nothing      *)
(* branches to; and that what Dominators::run_on_func leaves in idom_,     *)
(* dom_frontier_ and the intervals of the dominator tree is what the paths *)
(* of the flow graph say.                                                  *)
(*                                                                         *)
(* The last of these goes along the routines of the pass: the post order   *)
(* and the numbers (OrderInv, DfsInv), dominance by paths and as chains of *)
(* idom_ (Over, Above), intersect and the sweeps of create_idom            *)
(* (SweepInv), the runners of create_dominance_frontier (FrontInv), the    *)
(* dfs over the tree (TreeInv).                                            *)
(***************************************************************************)
EXTENDS BuilderProofs

\* Induction that keeps every step.
LEMMA IntervalAll ==
    ASSUME NEW n \in Nat, NEW S \in SUBSET (0 .. n), 0 \in S,
           \A i \in S : i < n => i + 1 \in S
    PROVE  \A i \in 0 .. n : i \in S
<1>1. ASSUME NEW i \in 0 .. n
      PROVE  i \in S
    <2> DEFINE T == S \cap (0 .. i)
    <2>1. i \in Nat /\ T \in SUBSET (0 .. i) /\ 0 \in T
        OBVIOUS
    <2>2. \A k \in T : k < i => k + 1 \in T
        OBVIOUS
    <2> HIDE DEF T
    <2>3. i \in T
        BY <2>1, <2>2, IntervalInduction
    <2>4. QED
        BY <2>3 DEF T
<1>2. QED
    BY <1>1

\* The values f of n steps g from s0 on.
Rounds(n, S) == [1 .. n -> [S -> S]]
Stepwise(f, n, S, s0, g) ==
    f \in [0 .. n -> S] /\ f[0] = s0 /\ \A i \in 1 .. n : f[i] = g[i][f[i - 1]]

\* A function defined step by step on 0 .. n exists.
LEMMA Recursion ==
    ASSUME NEW n \in Nat, NEW S, NEW s0 \in S, NEW g \in Rounds(n, S)
    PROVE  \E f : Stepwise(f, n, S, s0, g)
<1> DEFINE Body(f, i) == IF i = 0 THEN s0 ELSE g[i][f[i - 1]]
           Good(f, m) == f \in [0 .. m -> S] /\ \A i \in 0 .. m : f[i] = Body(f, i)
           S0 == {m \in 0 .. n : \E f : Good(f, m)}
<1>1. 0 \in S0
    <2> DEFINE f == [i \in 0 .. 0 |-> s0]
    <2>1. f \in [0 .. 0 -> S] /\ \A i \in 0 .. 0 : i = 0 /\ f[i] = s0
        OBVIOUS
    <2> HIDE DEF f
    <2>2. Good(f, 0)
        BY <2>1
    <2>3. 0 \in 0 .. n
        OBVIOUS
    <2>4. QED
        BY <2>2, <2>3
<1>2. ASSUME NEW m \in S0, m < n
      PROVE  m + 1 \in S0
    <2>1. m \in Nat /\ m + 1 \in 0 .. n /\ m + 1 \in 1 .. n /\ m \in 0 .. m
        BY <1>2
    <2>2. PICK f : Good(f, m)
        BY <1>2
    <2> DEFINE last == g[m + 1][f[m]]
               h == [i \in 0 .. m + 1 |-> IF i = m + 1 THEN last ELSE f[i]]
    <2>3. last \in S
        <3>1. g[m + 1] \in [S -> S] /\ f[m] \in S
            BY <2>1, <2>2 DEF Rounds
        <3>2. QED
            BY <3>1
    <2> HIDE DEF last
    <2>4. h \in [0 .. m + 1 -> S] /\ h[m + 1] = last /\ \A i \in 0 .. m : h[i] = f[i]
        BY <2>1, <2>2, <2>3
    <2> HIDE DEF h
    <2>5. ASSUME NEW i \in 0 .. m + 1
          PROVE  h[i] = Body(h, i)
        <3>1. CASE i = 0
            <4>1. i \in 0 .. m
                BY <2>1, <3>1
            <4>2. h[i] = f[i] /\ f[i] = Body(f, i)
                BY <2>2, <2>4, <4>1
            <4>3. QED
                BY <3>1, <4>2
        <3>2. CASE i \in 1 .. m
            <4>1. i - 1 \in 0 .. m /\ i \in 0 .. m /\ i # 0
                BY <2>1, <3>2
            <4>2. h[i - 1] = f[i - 1] /\ h[i] = f[i] /\ f[i] = Body(f, i)
                BY <2>2, <2>4, <4>1
            <4>3. QED
                BY <4>1, <4>2
        <3>3. CASE i = m + 1
            <4>1. i # 0 /\ i - 1 = m /\ h[i - 1] = f[m] /\ h[i] = last
                BY <2>1, <2>4, <3>3
            <4>2. g[i][h[i - 1]] = last
                BY <3>3, <4>1 DEF last
            <4>3. QED
                BY <4>1, <4>2
        <3>4. QED
            BY <2>1, <3>1, <3>2, <3>3
    <2> HIDE DEF Body
    <2>6. Good(h, m + 1)
        BY <2>4, <2>5
    <2>7. QED
        BY <2>1, <2>6
<1>3. n \in S0
    <2>1. S0 \in SUBSET (0 .. n)
        OBVIOUS
    <2>2. 0 \in S0 /\ \A m \in S0 : m < n => m + 1 \in S0
        BY <1>1, <1>2
    <2> HIDE DEF S0
    <2>3. QED
        BY <2>1, <2>2, IntervalInduction
<1>4. PICK f : Good(f, n)
    BY <1>3
<1>5. 0 \in 0 .. n /\ \A i \in 1 .. n : i \in 0 .. n /\ i # 0
    OBVIOUS
<1>6. Stepwise(f, n, S, s0, g)
    BY <1>4, <1>5 DEF Stepwise
<1>7. QED
    BY <1>6


\* What follows the same steps where it stays in S is that function.
LEMMA Stays ==
    ASSUME NEW n \in Nat, NEW S, NEW s0 \in S, NEW g \in Rounds(n, S), NEW f,
           f = [i \in 0 .. n |-> f[i]], f[0] = s0,
           \A i \in 1 .. n : f[i - 1] \in S => f[i] = g[i][f[i - 1]]
    PROVE  Stepwise(f, n, S, s0, g)
<1> DEFINE Typed == {i \in 0 .. n : f[i] \in S}
<1>1. ASSUME NEW i \in 1 .. n, f[i - 1] \in S
      PROVE  f[i] \in S
    <2>1. g[i] \in [S -> S]
        BY DEF Rounds
    <2>2. QED
        BY <1>1, <2>1
<1>2. 0 \in Typed /\ \A i \in Typed : i < n => i + 1 \in Typed
    <2>1. 0 \in Typed
        OBVIOUS
    <2>2. ASSUME NEW i \in Typed, i < n
          PROVE  i + 1 \in Typed
        <3>1. i + 1 \in 1 .. n /\ i + 1 \in 0 .. n /\ (i + 1) - 1 = i
            BY <2>2
        <3>2. QED
            BY <1>1, <2>2, <3>1
    <2>3. QED
        BY <2>1, <2>2
<1>3. \A i \in 0 .. n : i \in Typed
    <2>1. Typed \in SUBSET (0 .. n)
        OBVIOUS
    <2> HIDE DEF Typed
    <2>2. QED
        BY <1>2, <2>1, IntervalAll
<1>4. f \in [0 .. n -> S]
    <2>1. \A i \in 0 .. n : f[i] \in S
        BY <1>3
    <2>2. QED
        BY <2>1
<1>5. \A i \in 1 .. n : i - 1 \in 0 .. n
    OBVIOUS
<1>6. QED
    BY <1>4, <1>5 DEF Stepwise

-----------------------------------------------------------------------------
\* The edge lists and the functions hold blocks.
LEMMA ListFacts ==
    ASSUME FlowGraphTypeOK
    PROVE  /\ Len(succ) \in Nat
           /\ \A b \in Blocks : /\ succ[b] \in Seq(Blocks) /\ Range(succ[b]) \subseteq Blocks
                                /\ pred[b] \in Seq(Blocks) /\ Range(pred[b]) \subseteq Blocks
           /\ \A f \in DOMAIN functions :
                  /\ functions[f] \in Seq(Blocks) /\ functions[f] # <<>>
                  /\ Entry(f) \in BlocksOf(f) /\ BlocksOf(f) \subseteq Blocks
<1>1. succ \in Seq(Seq(Blocks)) /\ pred \in Seq(Seq(Blocks)) /\ Len(pred) = Len(succ)
      /\ functions \in Seq(Seq(Blocks) \ {<<>>})
    BY DEF FlowGraphTypeOK
<1>2. Len(succ) \in Nat /\ DOMAIN succ = Blocks /\ DOMAIN pred = Blocks
    BY <1>1, SeqFacts DEF Blocks
<1>3. \A b \in Blocks : succ[b] \in Seq(Blocks) /\ pred[b] \in Seq(Blocks)
    <2> HIDE DEF Blocks
    <2>1. QED
        BY <1>1, <1>2, SeqFacts
<1>4. \A f \in DOMAIN functions : functions[f] \in Seq(Blocks) \ {<<>>}
    <2> DEFINE lists == Seq(Blocks) \ {<<>>}
    <2> HIDE DEF lists
    <2>1. functions \in Seq(lists)
        BY <1>1 DEF lists
    <2>2. \A f \in DOMAIN functions : functions[f] \in lists
        BY <2>1, SeqFacts
    <2>3. QED
        BY <2>2 DEF lists
<1>5. ASSUME NEW f \in DOMAIN functions
      PROVE  Entry(f) \in BlocksOf(f) /\ BlocksOf(f) \subseteq Blocks
    <2>1. functions[f] \in Seq(Blocks) /\ functions[f] # <<>>
        BY <1>4
    <2>2. 1 \in DOMAIN functions[f]
        BY <2>1
    <2>3. BlocksOf(f) \subseteq Blocks
        BY <2>1, RangeTyped DEF BlocksOf
    <2>4. QED
        BY <2>2, <2>3 DEF Entry, BlocksOf, Range
<1>6. QED
    BY <1>2, <1>3, <1>4, <1>5, RangeTyped

LEMMA OnwardsFacts ==
    ASSUME FlowGraphTypeOK, NEW from \in SUBSET Blocks, NEW d
    PROVE  /\ Onwards(from, d) \subseteq Blocks \ {d}
           /\ \A x \in from : Range(succ[x]) \ {d} \subseteq Onwards(from, d)
           /\ \A S : (\A x \in from : Range(succ[x]) \ {d} \subseteq S) => Onwards(from, d) \subseteq S
<1>1. \A x \in from : Range(succ[x]) \subseteq Blocks
    BY ListFacts
<1>2. QED
    BY <1>1 DEF Onwards

\* The rounds of ReachedWithout.
LEMMA ReachedSteps ==
    ASSUME FlowGraphTypeOK, NEW b \in Blocks, NEW d
    PROVE  \E known \in [0 .. Len(succ) -> SUBSET Blocks] :
               /\ ReachedWithout(b, d) = known[Len(succ)] /\ known[0] = {b} \ {d}
               /\ \A n \in 1 .. Len(succ) : known[n] = known[n - 1] \cup Onwards(known[n - 1], d)
<1> DEFINE N == Len(succ)
           S == SUBSET Blocks
           s0 == {b} \ {d}
           E(last) == last \cup Onwards(last, d)
           g == [n \in 1 .. N |-> [x \in S |-> E(x)]]
           Body(f, n) == IF n = 0 THEN s0 ELSE E(f[n - 1])
           Good(f) == f = [n \in 0 .. N |-> Body(f, n)]
           known == CHOOSE f : Good(f)
<1>1. N \in Nat /\ s0 \in S /\ \A x \in S : E(x) \in S
    BY ListFacts, OnwardsFacts
<1>2. ReachedWithout(b, d) = known[N]
    BY DEF ReachedWithout
<1> HIDE DEF N, S, s0, E
<1>3. g \in Rounds(N, S) /\ \A n \in 1 .. N : \A x \in S : g[n][x] = E(x)
    BY <1>1 DEF Rounds
<1> HIDE DEF g
<1>4. PICK f : Stepwise(f, N, S, s0, g)
    BY <1>1, <1>3, Recursion
<1>5. \A n \in 0 .. N : f[n] = Body(f, n)
    <2>1. f \in [0 .. N -> S] /\ f[0] = s0 /\ \A n \in 1 .. N : f[n] = g[n][f[n - 1]]
        BY <1>4 DEF Stepwise
    <2>2. \A n \in 0 .. N : n = 0 \/ (n # 0 /\ n \in 1 .. N /\ n - 1 \in 0 .. N)
        BY <1>1
    <2>3. QED
        BY <1>3, <2>1, <2>2
<1>6. Good(f)
    <2>1. f = [n \in 0 .. N |-> f[n]]
        BY <1>4 DEF Stepwise
    <2> HIDE DEF Body
    <2>2. QED
        BY <1>5, <2>1
<1>7. Good(known)
    <2> HIDE DEF Good
    <2>1. QED
        BY <1>6
<1> HIDE DEF known
<1>8. /\ known = [n \in 0 .. N |-> known[n]]
      /\ \A n \in 0 .. N : known[n] = Body(known, n)
    <2> HIDE DEF Body
    <2>1. \A n \in 0 .. N : known[n] = Body(known, n)
        BY <1>7
    <2>2. QED
        BY <1>7, <2>1
<1>9. Stepwise(known, N, S, s0, g)
    <2>1. 0 \in 0 .. N /\ \A n \in 1 .. N : n \in 0 .. N /\ n # 0
        BY <1>1
    <2>2. known[0] = s0 /\ \A n \in 1 .. N : known[n] = E(known[n - 1])
        BY <1>8, <2>1
    <2>3. \A n \in 1 .. N : known[n - 1] \in S => known[n] = g[n][known[n - 1]]
        BY <1>3, <2>2
    <2> HIDE DEF Body
    <2>4. QED
        BY <1>1, <1>3, <1>8, <2>2, <2>3, Stays
<1>10. \A n \in 1 .. N : known[n] = E(known[n - 1])
    <2>1. \A n \in 1 .. N : n \in 0 .. N /\ n # 0
        BY <1>1
    <2>2. QED
        BY <1>8, <2>1
<1>11. QED
    BY <1>2, <1>9, <1>10 DEF Stepwise, N, S, s0, E

\* What is reached on paths from b that do not touch d: b, and with each block
\* its successors; and nothing else.
LEMMA ReachFacts ==
    ASSUME FlowGraphTypeOK, NEW b \in Blocks, NEW d
    PROVE  LET R == ReachedWithout(b, d) IN
           /\ R \subseteq Blocks /\ d \notin R /\ (b # d => b \in R)
           /\ \A x \in R : Range(succ[x]) \ {d} \subseteq R
           /\ \A S : b \in S /\ (\A x \in S \cap R : Range(succ[x]) \ {d} \subseteq S) => R \subseteq S
<1> DEFINE N == Len(succ)
           Closed(X) == Onwards(X, d) \subseteq X
<1> PICK known \in [0 .. N -> SUBSET Blocks] :
            /\ ReachedWithout(b, d) = known[N] /\ known[0] = {b} \ {d}
            /\ \A n \in 1 .. N : known[n] = known[n - 1] \cup Onwards(known[n - 1], d)
    BY ReachedSteps
<1>1. N \in Nat /\ IsFiniteSet(Blocks) /\ Cardinality(Blocks) = N
    <2>1. N \in Nat
        BY ListFacts
    <2>2. IsFiniteSet(1 .. N) /\ Cardinality(1 .. N) = N
        <3> HIDE DEF N
        <3>1. IsFiniteSet(1 .. N) /\ Cardinality(1 .. N) = IF 1 > N THEN 0 ELSE N - 1 + 1
            BY <2>1, FS_Interval
        <3>2. QED
            BY <2>1, <3>1
    <2>3. QED
        BY <2>1, <2>2 DEF Blocks
<1> HIDE DEF N
<1>2. ASSUME NEW n \in 0 .. N, n < N
      PROVE  n + 1 \in 0 .. N /\ known[n + 1] = known[n] \cup Onwards(known[n], d)
    <2>1. n + 1 \in 1 .. N /\ n + 1 \in 0 .. N /\ (n + 1) - 1 = n
        BY <1>1, <1>2
    <2>2. QED
        BY <2>1
<1>3. \A n \in 0 .. N : known[n] \subseteq Blocks /\ Onwards(known[n], d) \subseteq Blocks \ {d}
    BY OnwardsFacts
<1> DEFINE Sound == {n \in 0 .. N : /\ known[n] \subseteq Blocks \ {d} /\ (b # d => b \in known[n])
                                   /\ (Closed(known[n]) \/ Cardinality(known[n]) >= n)}
<1>4. N \in Sound
    <2>1. 0 \in Sound
        <3>1. known[0] \subseteq Blocks \ {d} /\ (b # d => b \in known[0]) /\ IsFiniteSet(known[0])
            BY <1>1, FS_Subset
        <3>2. Cardinality(known[0]) >= 0
            BY <3>1, FS_CardinalityType
        <3>3. QED
            BY <1>1, <3>1, <3>2
    <2>2. ASSUME NEW n \in Sound, n < N
          PROVE  n + 1 \in Sound
        <3> DEFINE X == known[n]
                   Y == known[n + 1]
        <3>1. n \in 0 .. N /\ X \subseteq Blocks \ {d} /\ (b # d => b \in X)
              /\ (Closed(X) \/ Cardinality(X) >= n)
            BY <2>2
        <3>2. n + 1 \in 0 .. N /\ Y = X \cup Onwards(X, d) /\ Onwards(X, d) \subseteq Blocks \ {d}
            BY <1>2, <1>3, <2>2, <3>1
        <3>3. Y \subseteq Blocks \ {d} /\ (b # d => b \in Y)
            BY <3>1, <3>2
        <3>4. CASE Closed(X)
            <4>1. Y = X
                BY <3>2, <3>4
            <4>2. QED
                BY <3>2, <3>3, <3>4, <4>1
        <3>5. CASE ~Closed(X)
            <4>1. X \subseteq Y /\ X # Y
                BY <3>2, <3>5
            <4>2. IsFiniteSet(X) /\ IsFiniteSet(Y)
                BY <1>1, <3>1, <3>3, FS_Subset
            <4>3. Cardinality(X) >= n
                BY <3>1, <3>5
            <4> HIDE DEF X, Y
            <4>4. /\ Cardinality(X) \in Nat /\ Cardinality(Y) \in Nat
                  /\ Cardinality(X) <= Cardinality(Y) /\ Cardinality(X) # Cardinality(Y)
                BY <4>1, <4>2, FS_Subset, FS_CardinalityType
            <4>5. Cardinality(Y) >= n + 1
                BY <1>1, <3>1, <4>3, <4>4
            <4>6. QED
                BY <3>2, <3>3, <4>5 DEF Y
        <3>6. QED
            BY <3>4, <3>5
    <2>3. Sound \in SUBSET (0 .. N)
        OBVIOUS
    <2> HIDE DEF Sound
    <2>4. QED
        BY <1>1, <2>1, <2>2, <2>3, IntervalInduction
<1>5. Closed(known[N])
    <2>1. CASE Cardinality(known[N]) >= N
        <3>1. known[N] \subseteq Blocks
            BY <1>4
        <3>2. Cardinality(known[N]) \in Nat /\ Cardinality(known[N]) <= Cardinality(Blocks)
            BY <1>1, <3>1, FS_Subset, FS_CardinalityType
        <3>3. Cardinality(known[N]) = Cardinality(Blocks)
            BY <1>1, <2>1, <3>2
        <3>4. known[N] = Blocks
            BY <1>1, <3>1, <3>3, FS_Subset
        <3>5. QED
            BY <3>4, OnwardsFacts
    <2>2. QED
        BY <1>4, <2>1
<1>6. ASSUME NEW S, b \in S,
             \A x \in S \cap known[N] : Range(succ[x]) \ {d} \subseteq S
      PROVE  known[N] \subseteq S
    <2> DEFINE Within == {n \in 0 .. N : known[n] \subseteq known[N] => known[n] \subseteq S}
    <2>1. 0 \in Within
        BY <1>1, <1>6
    <2>2. ASSUME NEW n \in Within, n < N
          PROVE  n + 1 \in Within
        <3>1. n \in 0 .. N /\ n + 1 \in 0 .. N /\ known[n + 1] = known[n] \cup Onwards(known[n], d)
            BY <1>2, <2>2
        <3>2. SUFFICES ASSUME known[n + 1] \subseteq known[N]
                       PROVE  known[n + 1] \subseteq S
            BY <3>1
        <3>3. known[n] \subseteq S \cap known[N] /\ known[n] \in SUBSET Blocks
            BY <2>2, <3>1, <3>2
        <3>4. Onwards(known[n], d) \subseteq S
            BY <1>6, <3>3, OnwardsFacts
        <3>5. QED
            BY <3>1, <3>3, <3>4
    <2>3. Within \in SUBSET (0 .. N)
        OBVIOUS
    <2> HIDE DEF Within
    <2>4. N \in Within
        BY <1>1, <2>1, <2>2, <2>3, IntervalInduction
    <2>5. QED
        BY <2>4 DEF Within
<1>7. known[N] \subseteq Blocks \ {d} /\ (b # d => b \in known[N])
    BY <1>4
<1>8. \A x \in known[N] : Range(succ[x]) \ {d} \subseteq known[N]
    BY <1>5, <1>7, OnwardsFacts
<1>9. QED
    BY <1>6, <1>7, <1>8

-----------------------------------------------------------------------------
\* The numbers of the blocks, and what idom_ holds.
IdomTyped ==
    /\ idom \in [Blocks -> Blocks \cup {NoBlock}] /\ postOrder \in Seq(Blocks)

LEMMA NumberFacts ==
    ASSUME NEW b \in Numbered, postOrder \in Seq(Blocks)
    PROVE  Number(b) \in DOMAIN postOrder /\ postOrder[Number(b)] = b /\ b \in Blocks
<1>1. \E i \in DOMAIN postOrder : postOrder[i] = b
    BY DEF Numbered, Range
<1>2. Number(b) \in DOMAIN postOrder /\ postOrder[Number(b)] = b
    BY <1>1 DEF Number
<1>3. QED
    BY <1>2, SeqFacts

LEMMA ClimbTyped ==
    ASSUME IdomTyped, NEW x \in Blocks \cup {NoBlock}, NEW y \in Blocks \cup {NoBlock}
    PROVE  Climb(x, y) \in (Blocks \cup {NoBlock}) \X (Blocks \cup {NoBlock})
<1>1. Numbered \subseteq Blocks
    BY RangeTyped DEF IdomTyped, Numbered
<1>2. CASE x = y
    BY <1>2 DEF Climb
<1>3. CASE x # y /\ {x, y} \subseteq Numbered
    <2>1. idom[x] \in Blocks \cup {NoBlock} /\ idom[y] \in Blocks \cup {NoBlock}
        BY <1>1, <1>3 DEF IdomTyped
    <2>2. QED
        BY <1>3, <2>1 DEF Climb
<1>4. CASE x # y /\ ~({x, y} \subseteq Numbered)
    BY <1>4 DEF Climb
<1>5. QED
    BY <1>2, <1>3, <1>4

\* The steps of intersect.
LEMMA IntersectSteps ==
    ASSUME IdomTyped, NEW b1 \in Blocks \cup {NoBlock}, NEW b2 \in Blocks \cup {NoBlock}
    PROVE  \E known \in [0 .. 2 * Len(postOrder) -> (Blocks \cup {NoBlock}) \X (Blocks \cup {NoBlock})] :
               /\ Intersect(b1, b2) = known[2 * Len(postOrder)][1] /\ known[0] = <<b1, b2>>
               /\ \A n \in 1 .. 2 * Len(postOrder) : known[n] = Climb(known[n - 1][1], known[n - 1][2])
<1> DEFINE N == 2 * Len(postOrder)
           S == (Blocks \cup {NoBlock}) \X (Blocks \cup {NoBlock})
           s0 == <<b1, b2>>
           E(last) == Climb(last[1], last[2])
           g == [n \in 1 .. N |-> [x \in S |-> E(x)]]
           Body(f, n) == IF n = 0 THEN s0 ELSE E(f[n - 1])
           Good(f) == f = [n \in 0 .. N |-> Body(f, n)]
           known == CHOOSE f : Good(f)
<1>1. N \in Nat /\ s0 \in S /\ \A x \in S : E(x) \in S
    <2>1. Len(postOrder) \in Nat
        BY DEF IdomTyped
    <2>2. QED
        BY <2>1, ClimbTyped
<1>2. Intersect(b1, b2) = known[N][1]
    BY DEF Intersect
<1> HIDE DEF N, S, s0, E
<1>3. g \in Rounds(N, S) /\ \A n \in 1 .. N : \A x \in S : g[n][x] = E(x)
    BY <1>1 DEF Rounds
<1> HIDE DEF g
<1>4. PICK f : Stepwise(f, N, S, s0, g)
    BY <1>1, <1>3, Recursion
<1>5. \A n \in 0 .. N : f[n] = Body(f, n)
    <2>1. f \in [0 .. N -> S] /\ f[0] = s0 /\ \A n \in 1 .. N : f[n] = g[n][f[n - 1]]
        BY <1>4 DEF Stepwise
    <2>2. \A n \in 0 .. N : n = 0 \/ (n # 0 /\ n \in 1 .. N /\ n - 1 \in 0 .. N)
        BY <1>1
    <2>3. QED
        BY <1>3, <2>1, <2>2
<1>6. Good(f)
    <2>1. f = [n \in 0 .. N |-> f[n]]
        BY <1>4 DEF Stepwise
    <2> HIDE DEF Body
    <2>2. QED
        BY <1>5, <2>1
<1>7. Good(known)
    <2> HIDE DEF Good
    <2>1. QED
        BY <1>6
<1> HIDE DEF known
<1>8. /\ known = [n \in 0 .. N |-> known[n]]
      /\ \A n \in 0 .. N : known[n] = Body(known, n)
    <2> HIDE DEF Body
    <2>1. \A n \in 0 .. N : known[n] = Body(known, n)
        BY <1>7
    <2>2. QED
        BY <1>7, <2>1
<1>9. known[0] = s0 /\ \A n \in 1 .. N : known[n] = E(known[n - 1])
    <2>1. 0 \in 0 .. N /\ \A n \in 1 .. N : n \in 0 .. N /\ n # 0
        BY <1>1
    <2>2. QED
        BY <1>8, <2>1
<1>10. Stepwise(known, N, S, s0, g)
    <2>1. \A n \in 1 .. N : known[n - 1] \in S => known[n] = g[n][known[n - 1]]
        BY <1>3, <1>9
    <2> HIDE DEF Body
    <2>2. QED
        BY <1>1, <1>3, <1>8, <1>9, <2>1, Stays
<1>11. QED
    BY <1>2, <1>9, <1>10 DEF Stepwise, N, S, s0, E

LEMMA IntersectTyped ==
    ASSUME IdomTyped, NEW b1 \in Blocks \cup {NoBlock}, NEW b2 \in Blocks \cup {NoBlock}
    PROVE  Intersect(b1, b2) \in Blocks \cup {NoBlock}
<1> DEFINE N == 2 * Len(postOrder)
           S == (Blocks \cup {NoBlock}) \X (Blocks \cup {NoBlock})
<1>1. PICK known \in [0 .. N -> S] : Intersect(b1, b2) = known[N][1]
    BY IntersectSteps
<1>2. N \in 0 .. N
    BY DEF IdomTyped
<1> HIDE DEF N
<1>3. known[N] \in S
    BY <1>1, <1>2
<1>4. QED
    BY <1>1, <1>3

\* The steps of create_idom over the predecessors of a block.
LEMMA NewIdomSteps ==
    ASSUME IdomTyped, FlowGraphTypeOK, NEW b \in Blocks, pred[b] # <<>>
    PROVE  \E known \in [0 .. Len(pred[b]) -> Blocks \cup {NoBlock}] :
               /\ NewIdom(b) = known[Len(pred[b])] /\ known[0] = pred[b][1]
               /\ \A n \in 1 .. Len(pred[b]) : known[n] = IF pred[b][n] = pred[b][1] \/ idom[pred[b][n]] = NoBlock
                                   THEN known[n - 1] ELSE Intersect(pred[b][n], known[n - 1])
<1> DEFINE N == Len(pred[b])
           S == Blocks \cup {NoBlock}
           s0 == pred[b][1]
           E(n, last) == IF pred[b][n] = pred[b][1] \/ idom[pred[b][n]] = NoBlock
                                   THEN last ELSE Intersect(pred[b][n], last)
           g == [n \in 1 .. N |-> [x \in S |-> E(n, x)]]
           Body(f, n) == IF n = 0 THEN s0 ELSE E(n, f[n - 1])
           Good(f) == f = [n \in 0 .. N |-> Body(f, n)]
           known == CHOOSE f : Good(f)
<1>1. N \in Nat /\ s0 \in S /\ \A n \in 1 .. N : \A x \in S : E(n, x) \in S
    <2>1. pred[b] \in Seq(Blocks)
        BY ListFacts
    <2>2. Len(pred[b]) \in Nat /\ \A n \in 1 .. Len(pred[b]) : pred[b][n] \in Blocks
        BY <2>1, SeqFacts
    <2>3. 1 \in 1 .. Len(pred[b])
        BY <2>1
    <2>4. \A n \in 1 .. N : \A x \in S : Intersect(pred[b][n], x) \in S
        BY <2>2, IntersectTyped
    <2>5. QED
        BY <2>2, <2>3, <2>4
<1>2. NewIdom(b) = known[N]
    BY DEF NewIdom
<1> HIDE DEF N, S, s0, E
<1>3. g \in Rounds(N, S) /\ \A n \in 1 .. N : \A x \in S : g[n][x] = E(n, x)
    BY <1>1 DEF Rounds
<1> HIDE DEF g
<1>4. PICK f : Stepwise(f, N, S, s0, g)
    BY <1>1, <1>3, Recursion
<1>5. \A n \in 0 .. N : f[n] = Body(f, n)
    <2>1. f \in [0 .. N -> S] /\ f[0] = s0 /\ \A n \in 1 .. N : f[n] = g[n][f[n - 1]]
        BY <1>4 DEF Stepwise
    <2>2. \A n \in 0 .. N : n = 0 \/ (n # 0 /\ n \in 1 .. N /\ n - 1 \in 0 .. N)
        BY <1>1
    <2>3. QED
        BY <1>3, <2>1, <2>2
<1>6. Good(f)
    <2>1. f = [n \in 0 .. N |-> f[n]]
        BY <1>4 DEF Stepwise
    <2> HIDE DEF Body
    <2>2. QED
        BY <1>5, <2>1
<1>7. Good(known)
    <2> HIDE DEF Good
    <2>1. QED
        BY <1>6
<1> HIDE DEF known
<1>8. /\ known = [n \in 0 .. N |-> known[n]]
      /\ \A n \in 0 .. N : known[n] = Body(known, n)
    <2> HIDE DEF Body
    <2>1. \A n \in 0 .. N : known[n] = Body(known, n)
        BY <1>7
    <2>2. QED
        BY <1>7, <2>1
<1>9. known[0] = s0 /\ \A n \in 1 .. N : known[n] = E(n, known[n - 1])
    <2>1. 0 \in 0 .. N /\ \A n \in 1 .. N : n \in 0 .. N /\ n # 0
        BY <1>1
    <2>2. QED
        BY <1>8, <2>1
<1>10. Stepwise(known, N, S, s0, g)
    <2>1. \A n \in 1 .. N : known[n - 1] \in S => known[n] = g[n][known[n - 1]]
        BY <1>3, <1>9
    <2> HIDE DEF Body
    <2>2. QED
        BY <1>1, <1>3, <1>8, <1>9, <2>1, Stays
<1>11. QED
    BY <1>2, <1>9, <1>10 DEF Stepwise, N, S, s0, E

LEMMA NewIdomTyped ==
    ASSUME IdomTyped, FlowGraphTypeOK, NEW b \in Blocks, pred[b] # <<>>
    PROVE  NewIdom(b) \in Blocks \cup {NoBlock}
<1>1. PICK known \in [0 .. Len(pred[b]) -> Blocks \cup {NoBlock}] : NewIdom(b) = known[Len(pred[b])]
    BY NewIdomSteps
<1>2. Len(pred[b]) \in 0 .. Len(pred[b])
    BY ListFacts
<1>3. QED
    BY <1>1, <1>2

\* The steps from a loop to the one around it.
LEMMA RootSteps ==
    ASSUME LoopsTypeOK, NEW h \in Blocks
    PROVE  \E known \in [0 .. Len(loops) -> Blocks] :
               /\ RootLoop(h) = known[Len(loops)] /\ known[0] = h
               /\ \A n \in 1 .. Len(loops) : known[n] = IF loopParent[known[n - 1]] = NoBlock THEN known[n - 1] ELSE loopParent[known[n - 1]]
<1> DEFINE N == Len(loops)
           S == Blocks
           s0 == h
           E(last) == IF loopParent[last] = NoBlock THEN last ELSE loopParent[last]
           g == [n \in 1 .. N |-> [x \in S |-> E(x)]]
           Body(f, n) == IF n = 0 THEN s0 ELSE E(f[n - 1])
           Good(f) == f = [n \in 0 .. N |-> Body(f, n)]
           known == CHOOSE f : Good(f)
<1>1. N \in Nat /\ s0 \in S /\ \A x \in S : E(x) \in S
    BY DEF LoopsTypeOK
<1>2. RootLoop(h) = known[N]
    BY DEF RootLoop
<1> HIDE DEF N, S, s0, E
<1>3. g \in Rounds(N, S) /\ \A n \in 1 .. N : \A x \in S : g[n][x] = E(x)
    BY <1>1 DEF Rounds
<1> HIDE DEF g
<1>4. PICK f : Stepwise(f, N, S, s0, g)
    BY <1>1, <1>3, Recursion
<1>5. \A n \in 0 .. N : f[n] = Body(f, n)
    <2>1. f \in [0 .. N -> S] /\ f[0] = s0 /\ \A n \in 1 .. N : f[n] = g[n][f[n - 1]]
        BY <1>4 DEF Stepwise
    <2>2. \A n \in 0 .. N : n = 0 \/ (n # 0 /\ n \in 1 .. N /\ n - 1 \in 0 .. N)
        BY <1>1
    <2>3. QED
        BY <1>3, <2>1, <2>2
<1>6. Good(f)
    <2>1. f = [n \in 0 .. N |-> f[n]]
        BY <1>4 DEF Stepwise
    <2> HIDE DEF Body
    <2>2. QED
        BY <1>5, <2>1
<1>7. Good(known)
    <2> HIDE DEF Good
    <2>1. QED
        BY <1>6
<1> HIDE DEF known
<1>8. /\ known = [n \in 0 .. N |-> known[n]]
      /\ \A n \in 0 .. N : known[n] = Body(known, n)
    <2> HIDE DEF Body
    <2>1. \A n \in 0 .. N : known[n] = Body(known, n)
        BY <1>7
    <2>2. QED
        BY <1>7, <2>1
<1>9. known[0] = s0 /\ \A n \in 1 .. N : known[n] = E(known[n - 1])
    <2>1. 0 \in 0 .. N /\ \A n \in 1 .. N : n \in 0 .. N /\ n # 0
        BY <1>1
    <2>2. QED
        BY <1>8, <2>1
<1>10. Stepwise(known, N, S, s0, g)
    <2>1. \A n \in 1 .. N : known[n - 1] \in S => known[n] = g[n][known[n - 1]]
        BY <1>3, <1>9
    <2> HIDE DEF Body
    <2>2. QED
        BY <1>1, <1>3, <1>8, <1>9, <2>1, Stays
<1>11. QED
    BY <1>2, <1>9, <1>10 DEF Stepwise, N, S, s0, E

LEMMA RootTyped ==
    ASSUME LoopsTypeOK, NEW h \in Blocks
    PROVE  RootLoop(h) \in Blocks
<1>1. PICK known \in [0 .. Len(loops) -> Blocks] : RootLoop(h) = known[Len(loops)]
    BY RootSteps
<1>2. Len(loops) \in 0 .. Len(loops)
    BY DEF LoopsTypeOK
<1>3. QED
    BY <1>1, <1>2
-----------------------------------------------------------------------------
\* What the analyses keep, while they run.
WalkTypeOK ==
    /\ DominatorsTypeOK /\ IdomTyped
    /\ domL \in [Blocks -> Nat] /\ domR \in [Blocks -> Nat]
    /\ dfsOrder \in Seq(Blocks) /\ visits \in Seq(Blocks)
    /\ stage # "idle" /\ cursor \in 0 .. Len(functions)
    /\ stage # "done" => current \in DOMAIN functions
    /\ at \in Nat /\ (stage = "idom" => at <= Len(postOrder)) /\ (stage = "frontier" => at # 0)

NestTypeOK ==
    /\ LoopsTypeOK /\ toVisit \in Seq(Blocks)
    /\ workList # <<>> => header \in Blocks

\* Every step from a state of this kind leads to one.
WalkInv == FlowGraphTypeOK /\ WalkTypeOK

LEMMA WalkBlocks ==
    ASSUME WalkInv, UNCHANGED graphVars
    PROVE  /\ Blocks' = Blocks /\ FlowGraphTypeOK'
           /\ Len(succ) \in Nat /\ Len(postOrder) \in Nat
           /\ stage # "done" => /\ Entry(current) \in Blocks /\ functions[current] \in Seq(Blocks)
                                /\ BlocksOf(current) \subseteq Blocks
           /\ visits # <<>> => Last(visits) \in Blocks /\ Front(visits) \in Seq(Blocks)
<1>1. Blocks' = Blocks /\ FlowGraphTypeOK'
    BY DEF WalkInv, graphVars, Blocks, FlowGraphTypeOK
<1>2. ASSUME stage # "done"
      PROVE  /\ Entry(current) \in Blocks /\ functions[current] \in Seq(Blocks)
             /\ BlocksOf(current) \subseteq Blocks
    <2>1. current \in DOMAIN functions
        BY <1>2 DEF WalkInv, WalkTypeOK
    <2>2. QED
        BY <2>1, ListFacts DEF WalkInv
<1>3. Len(succ) \in Nat /\ Len(postOrder) \in Nat /\ visits \in Seq(Blocks)
    BY ListFacts DEF WalkInv, WalkTypeOK, IdomTyped
<1>4. visits # <<>> => Last(visits) \in Blocks /\ Front(visits) \in Seq(Blocks)
    BY <1>3, FrontFacts DEF Last
<1>5. QED
    BY <1>1, <1>2, <1>3, <1>4

\* Walking the blocks of a function.
LEMMA DfsTyped ==
    ASSUME WalkInv, UNCHANGED <<graphVars, cursor>>, DfsEnter \/ DfsReturn
    PROVE  WalkInv'
<1>1. /\ Blocks' = Blocks /\ FlowGraphTypeOK' /\ stage = "dfs" /\ visits # <<>>
      /\ Last(visits) \in Blocks /\ Front(visits) \in Seq(Blocks)
      /\ functions' = functions /\ cursor' = cursor
    BY WalkBlocks DEF DfsEnter, DfsReturn, graphVars
<1>2. /\ stage' = stage /\ current' = current /\ at' = at
      /\ UNCHANGED <<idom, frontier, treeSucc, domL, domR, dfsOrder>>
    BY DEF DfsEnter, DfsReturn, domMaps
<1>3. visits' \in Seq(Blocks) /\ postOrder' \in Seq(Blocks)
    <2>1. postOrder \in Seq(Blocks) /\ visits \in Seq(Blocks)
        BY DEF WalkInv, WalkTypeOK, IdomTyped
    <2>2. CASE DfsEnter
        <3>1. succ[Last(visits)] \in Seq(Blocks)
            BY <1>1, ListFacts DEF WalkInv
        <3>2. Unvisited(Last(visits)) \in Seq(Blocks) /\ Unvisited(Last(visits)) # <<>>
            BY <2>2, <3>1, WithoutFacts DEF Unvisited, DfsEnter
        <3>3. Head(Unvisited(Last(visits))) \in Blocks
            BY <3>2
        <3>4. visits' = Append(visits, Head(Unvisited(Last(visits)))) /\ postOrder' = postOrder
            BY <2>2 DEF DfsEnter, domMaps
        <3>5. QED
            BY <2>1, <3>3, <3>4
    <2>3. CASE DfsReturn
        BY <1>1, <2>1, <2>3 DEF DfsReturn
    <2>4. QED
        BY <2>2, <2>3
<1>4. Range(postOrder') \subseteq Blocks
    BY <1>3, RangeTyped
<1>5. QED
    BY <1>1, <1>2, <1>3, <1>4 DEF WalkInv, WalkTypeOK, IdomTyped, DominatorsTypeOK

\* Computing the immediate dominators.
LEMMA SweepTyped ==
    ASSUME WalkInv, UNCHANGED <<graphVars, cursor>>,
           StartIdom \/ IdomOfBlock \/ SweepAgain \/ StartFrontier
    PROVE  WalkInv'
<1>1. /\ Blocks' = Blocks /\ FlowGraphTypeOK' /\ stage # "done" /\ Entry(current) \in Blocks
      /\ functions' = functions /\ cursor' = cursor /\ Len(postOrder) \in Nat
    BY WalkBlocks DEF StartIdom, IdomOfBlock, SweepAgain, StartFrontier, graphVars
<1>2. /\ stage' \in {"idom", "frontier"} /\ current' = current
      /\ UNCHANGED <<postOrder, frontier, treeSucc, domL, domR, dfsOrder, visits>>
    BY DEF StartIdom, IdomOfBlock, SweepAgain, StartFrontier, domMaps
<1>3. /\ at' \in Nat /\ (stage' = "idom" => at' <= Len(postOrder))
      /\ (stage' = "frontier" => at' # 0)
    BY <1>1 DEF StartIdom, IdomOfBlock, SweepAgain, StartFrontier, WalkInv, WalkTypeOK
<1>4. idom' \in [Blocks -> Blocks \cup {NoBlock}]
    <2>1. idom \in [Blocks -> Blocks \cup {NoBlock}] /\ IdomTyped
        BY DEF WalkInv, WalkTypeOK, IdomTyped
    <2>2. CASE StartIdom
        BY <1>1, <2>1, <2>2 DEF StartIdom
    <2>3. CASE IdomOfBlock
        <3> DEFINE b == postOrder[at]
        <3>1. b \in Blocks
            BY <2>3 DEF IdomOfBlock, WalkInv, WalkTypeOK, IdomTyped
        <3>2. \/ idom' = idom
              \/ pred[b] # <<>> /\ idom' = [idom EXCEPT ![b] = NewIdom(b)]
            BY <2>3 DEF IdomOfBlock
        <3> HIDE DEF b
        <3>3. pred[b] # <<>> => NewIdom(b) \in Blocks \cup {NoBlock}
            BY <2>1, <3>1, NewIdomTyped DEF WalkInv
        <3>4. QED
            BY <2>1, <3>1, <3>2, <3>3
    <2>4. CASE SweepAgain \/ StartFrontier
        BY <2>1, <2>4 DEF SweepAgain, StartFrontier, domMaps
    <2>5. QED
        BY <2>2, <2>3, <2>4
<1>5. QED
    BY <1>1, <1>2, <1>3, <1>4 DEF WalkInv, WalkTypeOK, IdomTyped, DominatorsTypeOK

\* Computing the dominance frontiers and the tree.
LEMMA TreeTyped ==
    ASSUME WalkInv, UNCHANGED <<graphVars, cursor>>,
           FrontierOfBlock \/ CreateTree \/ TreeEnter \/ TreeReturn
    PROVE  WalkInv'
<1>1. /\ Blocks' = Blocks /\ FlowGraphTypeOK' /\ stage # "done" /\ Entry(current) \in Blocks
      /\ functions' = functions /\ cursor' = cursor /\ functions[current] \in Seq(Blocks)
      /\ BlocksOf(current) \subseteq Blocks
      /\ (visits # <<>> => Last(visits) \in Blocks /\ Front(visits) \in Seq(Blocks))
    BY WalkBlocks DEF FrontierOfBlock, CreateTree, TreeEnter, TreeReturn, graphVars
<1>2. /\ stage' \in {"frontier", "tree"} /\ current' = current
      /\ UNCHANGED <<postOrder, idom>>
      /\ at' \in Nat /\ (stage' = "frontier" => at' # 0)
    <2>1. at \in Nat
        BY DEF WalkInv, WalkTypeOK
    <2>2. CASE FrontierOfBlock
        BY <2>1, <2>2 DEF FrontierOfBlock
    <2>3. CASE CreateTree \/ TreeEnter \/ TreeReturn
        BY <2>1, <2>3 DEF CreateTree, TreeEnter, TreeReturn
    <2>4. QED
        BY <2>2, <2>3
<1>3. /\ frontier \in [Blocks -> SUBSET Blocks] /\ treeSucc \in [Blocks -> SUBSET Blocks]
      /\ dfsOrder \in Seq(Blocks) /\ visits \in Seq(Blocks)
      /\ domL \in [Blocks -> Nat] /\ domR \in [Blocks -> Nat]
    BY DEF WalkInv, WalkTypeOK, DominatorsTypeOK
<1>4. /\ frontier' \in [Blocks -> SUBSET Blocks] /\ treeSucc' \in [Blocks -> SUBSET Blocks]
      /\ dfsOrder' \in Seq(Blocks) /\ visits' \in Seq(Blocks)
      /\ domL' \in [Blocks -> Nat] /\ domR' \in [Blocks -> Nat]
    <2>1. CASE FrontierOfBlock
        <3>1. functions[current][at] \in Blocks
            BY <1>1, <2>1 DEF FrontierOfBlock, WalkInv, WalkTypeOK
        <3> DEFINE b == functions[current][at]
                   runners == IF Len(pred[b]) < 2 THEN {}
                              ELSE UNION {Runners(p, idom[b]) : p \in Range(pred[b])}
        <3>2. frontier' = [x \in Blocks |-> IF x \in runners THEN frontier[x] \cup {b}
                                                             ELSE frontier[x]]
            BY <2>1 DEF FrontierOfBlock
        <3>3. b \in Blocks
            BY <3>1
        <3>4. UNCHANGED <<treeSucc, dfsOrder, visits, domL, domR>>
            BY <2>1 DEF FrontierOfBlock
        <3> HIDE DEF b, runners
        <3>5. QED
            BY <1>3, <3>2, <3>3, <3>4
    <2>2. CASE CreateTree
        BY <1>1, <1>3, <2>2 DEF CreateTree
    <2>3. CASE TreeEnter
        <3>1. PICK b \in treeSucc[Last(visits)] \ visited :
                /\ visits' = Append(visits, b)
                /\ dfsOrder' = Append(dfsOrder, b)
                /\ domL' = [domL EXCEPT ![b] = Len(dfsOrder) + 1]
            BY <2>3 DEF TreeEnter
        <3>2. b \in Blocks
            BY <1>1, <1>3, <2>3, <3>1 DEF TreeEnter
        <3>3. UNCHANGED <<frontier, treeSucc, domR>>
            BY <2>3 DEF TreeEnter
        <3>4. Len(dfsOrder) + 1 \in Nat
            BY <1>3
        <3>5. QED
            BY <1>3, <3>1, <3>2, <3>3, <3>4
    <2>4. CASE TreeReturn
        <3>1. Len(dfsOrder) \in Nat
            BY <1>3
        <3>2. QED
            BY <1>1, <1>3, <2>4, <3>1 DEF TreeReturn
    <2>5. QED
        BY <2>1, <2>2, <2>3, <2>4
<1>5. QED
    BY <1>1, <1>2, <1>4 DEF WalkInv, WalkTypeOK, IdomTyped, DominatorsTypeOK
-----------------------------------------------------------------------------
\* Finding the loops.
LEMMA LoopsTyped ==
    ASSUME WalkInv, NestTypeOK, UNCHANGED graphVars, LoopStep
    PROVE  NestTypeOK'
<1>1. /\ Blocks' = Blocks /\ Len(succ) \in Nat
      /\ \A b \in Blocks : pred[b] \in Seq(Blocks) /\ Range(pred[b]) \subseteq Blocks
    BY WalkBlocks, ListFacts DEF WalkInv
<1>2. /\ loops \in Seq(Blocks)
      /\ loopBlocks \in [Blocks -> SUBSET Blocks] /\ subLoops \in [Blocks -> SUBSET Blocks]
      /\ loopParent \in [Blocks -> Blocks \cup {NoBlock}]
      /\ bbToLoop \in [Blocks -> Blocks \cup {NoBlock}]
      /\ workList \in Seq(Blocks) /\ toVisit \in Seq(Blocks)
      /\ LoopsTypeOK /\ (workList # <<>> => header \in Blocks)
    BY DEF NestTypeOK, LoopsTypeOK
<1>3. CASE SkipBlock
    <2>1. toVisit' \in Seq(Blocks) /\ UNCHANGED <<loopMaps, header, workList>>
        BY <1>2, <1>3 DEF SkipBlock
    <2>2. QED
        BY <1>1, <1>2, <2>1 DEF NestTypeOK, LoopsTypeOK, loopMaps
<1>4. CASE CreateLoop
    <2> DEFINE h == Head(toVisit)
    <2>1. h \in Blocks /\ toVisit' \in Seq(Blocks)
        <3>1. toVisit # <<>> /\ toVisit' = Tail(toVisit)
            BY <1>4 DEF CreateLoop
        <3>2. QED
            BY <1>2, <3>1
    <2>2. PICK order \in SetToSeqs(BackEdges(h)) : workList' = order
        BY <1>4 DEF CreateLoop
    <2>3. order \in Seq(Blocks)
        <3>1. BackEdges(h) \subseteq Blocks
            BY <1>1, <2>1 DEF BackEdges
        <3>2. IsFiniteSet(Blocks)
            BY <1>1, FS_Interval DEF Blocks
        <3>3. Cardinality(BackEdges(h)) \in Nat
            BY <3>1, <3>2, FS_Subset, FS_CardinalityType
        <3>4. order \in [1 .. Cardinality(BackEdges(h)) -> BackEdges(h)]
            BY <2>2 DEF SetToSeqs
        <3>5. order \in [1 .. Cardinality(BackEdges(h)) -> Blocks]
            BY <3>1, <3>4
        <3>6. QED
            BY <3>3, <3>5, FunctionIsSeq
    <2>4. /\ header' = h /\ loops' = Append(loops, h)
          /\ loopBlocks' = [loopBlocks EXCEPT ![h] = {h}]
          /\ bbToLoop' = [bbToLoop EXCEPT ![h] = h]
          /\ UNCHANGED <<subLoops, loopParent>>
        BY <1>4 DEF CreateLoop
    <2> HIDE DEF h
    <2>5. QED
        BY <1>1, <1>2, <2>1, <2>2, <2>3, <2>4 DEF NestTypeOK, LoopsTypeOK
<1>5. CASE Discover
    <2> DEFINE b == Last(workList)
    <2>1. b \in Blocks /\ header \in Blocks /\ Front(workList) \in Seq(Blocks)
          /\ UNCHANGED <<loops, toVisit, header>>
        BY <1>2, <1>5, FrontFacts DEF Discover, Last
    <2>2. AddBlock(b) \/ AddSubLoop(b) \/ KnownBlock(b)
        BY <1>5 DEF Discover
    <2> HIDE DEF b
    <2>3. bbToLoop[b] # NoBlock => RootLoop(bbToLoop[b]) \in Blocks
        BY <1>2, <2>1, RootTyped
    <2>4. /\ loopBlocks' \in [Blocks -> SUBSET Blocks] /\ subLoops' \in [Blocks -> SUBSET Blocks]
          /\ loopParent' \in [Blocks -> Blocks \cup {NoBlock}]
          /\ bbToLoop' \in [Blocks -> Blocks \cup {NoBlock}]
          /\ workList' \in Seq(Blocks)
        <3>1. CASE AddBlock(b)
            <4>1. Front(workList) \o pred[b] \in Seq(Blocks)
                BY <1>1, <2>1
            <4>2. QED
                BY <1>2, <2>1, <3>1, <4>1 DEF AddBlock
        <3>2. CASE AddSubLoop(b)
            <4> DEFINE sub == RootLoop(bbToLoop[b])
            <4>1. sub \in Blocks
                BY <2>3, <3>2 DEF AddSubLoop
            <4>2. /\ loopParent' = [loopParent EXCEPT ![sub] = header]
                  /\ subLoops' = [subLoops EXCEPT ![header] = @ \cup {sub}]
                  /\ workList' = Front(workList) \o pred[sub]
                  /\ UNCHANGED <<loopBlocks, bbToLoop>>
                BY <3>2 DEF AddSubLoop
            <4> HIDE DEF sub
            <4>3. Front(workList) \o pred[sub] \in Seq(Blocks)
                BY <1>1, <2>1, <4>1
            <4>4. QED
                BY <1>2, <2>1, <4>1, <4>2, <4>3
        <3>3. CASE KnownBlock(b)
            BY <1>2, <2>1, <3>3 DEF KnownBlock
        <3>4. QED
            BY <2>2, <3>1, <3>2, <3>3
    <2>5. QED
        BY <1>1, <1>2, <2>1, <2>4 DEF NestTypeOK, LoopsTypeOK
<1>6. QED
    BY <1>3, <1>4, <1>5 DEF LoopStep

LEMMA ReverseTyped ==
    ASSUME NEW S, NEW s \in Seq(S)
    PROVE  Reverse(s) \in Seq(S)
<1>1. Len(s) \in Nat /\ \A i \in 1 .. Len(s) : Len(s) - i + 1 \in 1 .. Len(s)
    OBVIOUS
<1>2. Reverse(s) = [i \in 1 .. Len(s) |-> s[Len(s) - i + 1]]
    BY <1>1 DEF Reverse
<1>3. Reverse(s) \in [1 .. Len(s) -> S]
    BY <1>1, <1>2
<1>4. QED
    BY <1>1, <1>3, FunctionIsSeq

\* The analyses of a program.
AnalysisInv == pass = "loops" => WalkInv /\ NestTypeOK

LEMMA AnalysisStep ==
    ASSUME ProgramInv, AnalysisInv, [Next]_vars
    PROVE  AnalysisInv'
<1>1. FlowGraphTypeOK
    BY DEF ProgramInv, BuilderInv, BuilderTypeOK
<1>2. CASE StartLoopDetection
    <2>1. Blocks' = Blocks /\ FlowGraphTypeOK' /\ Len(functions) \in Nat /\ functions' = functions
        BY <1>1, <1>2 DEF StartLoopDetection, bvars, graphVars, Blocks, FlowGraphTypeOK
    <2>2. NewDominators /\ NewLoopDetection /\ cursor' = 0 /\ pass' = "loops"
        BY <1>2 DEF StartLoopDetection
    <2>3. <<>> \in Seq(Blocks) /\ Range(<<>>) = {} /\ Len(<<>>) = 0
        BY DEF Range
    <2>4. WalkTypeOK'
        BY <2>1, <2>2, <2>3 DEF NewDominators, WalkTypeOK, DominatorsTypeOK, IdomTyped
    <2>5. NestTypeOK'
        BY <2>1, <2>2, <2>3 DEF NewLoopDetection, NestTypeOK, LoopsTypeOK
    <2>6. QED
        BY <2>1, <2>4, <2>5 DEF AnalysisInv, WalkInv
<1>3. CASE NextFunction
    <2>1. WalkInv /\ NestTypeOK /\ UNCHANGED graphVars /\ UNCHANGED lvars
          /\ cursor < Len(functions) /\ cursor' = cursor + 1 /\ RunOnFunc(cursor + 1)
        BY <1>3 DEF AnalysisInv, NextFunction, bvars, graphVars
    <2>2. /\ Blocks' = Blocks /\ FlowGraphTypeOK' /\ functions' = functions
          /\ cursor \in 0 .. Len(functions) /\ Len(functions) \in Nat
          /\ DOMAIN functions = 1 .. Len(functions)
        <3>1. Blocks' = Blocks /\ FlowGraphTypeOK' /\ functions' = functions
            BY <2>1, WalkBlocks DEF graphVars
        <3>2. cursor \in 0 .. Len(functions)
            BY <2>1 DEF WalkInv, WalkTypeOK
        <3>3. Len(functions) \in Nat /\ DOMAIN functions = 1 .. Len(functions)
            BY <1>1 DEF FlowGraphTypeOK
        <3>4. QED
            BY <3>1, <3>2, <3>3
    <2>3. cursor + 1 \in 1 .. Len(functions)
        BY <2>1, <2>2
    <2>4. Entry(cursor + 1) \in Blocks
        BY <1>1, <2>2, <2>3, ListFacts
    <2>5. <<>> \in Seq(Blocks) /\ <<Entry(cursor + 1)>> \in Seq(Blocks)
        BY <2>4
    <2>6. WalkTypeOK'
        BY <2>1, <2>2, <2>3, <2>5 DEF RunOnFunc, WalkInv, WalkTypeOK, DominatorsTypeOK, IdomTyped
    <2>7. NestTypeOK'
        BY <2>1, <2>2 DEF NestTypeOK, LoopsTypeOK, lvars, loopMaps
    <2>8. QED
        BY <2>2, <2>6, <2>7 DEF AnalysisInv, WalkInv
<1>4. CASE Analyse
    <2>1. WalkInv /\ NestTypeOK /\ UNCHANGED <<graphVars, cursor>> /\ UNCHANGED graphVars
        BY <1>4 DEF AnalysisInv, Analyse, bvars, graphVars
    <2>2. Blocks' = Blocks /\ FlowGraphTypeOK' /\ functions' = functions
        BY <2>1, WalkBlocks DEF graphVars
    <2>3. CASE DominatorsStep /\ UNCHANGED lvars
        <3>1. WalkInv'
            BY <2>1, <2>3, DfsTyped, SweepTyped, TreeTyped DEF DominatorsStep
        <3>2. NestTypeOK'
            BY <2>1, <2>2, <2>3 DEF NestTypeOK, LoopsTypeOK, lvars, loopMaps
        <3>3. QED
            BY <3>1, <3>2 DEF AnalysisInv
    <2>4. CASE StartLoops
        <3>1. /\ UNCHANGED <<current, domMaps, domLocals, thrown>> /\ stage' = "done"
              /\ toVisit' = Reverse(dfsOrder) /\ UNCHANGED <<loopMaps, header, workList>>
            BY <2>4 DEF StartLoops, FinishFunc, VisitOrder
        <3>2. toVisit' \in Seq(Blocks)
            BY <2>1, <3>1, ReverseTyped DEF WalkInv, WalkTypeOK
        <3>3. WalkInv'
            BY <2>1, <2>2, <3>1
               DEF WalkInv, WalkTypeOK, DominatorsTypeOK, IdomTyped, domMaps, domLocals
        <3>4. NestTypeOK'
            BY <2>1, <2>2, <3>1, <3>2 DEF NestTypeOK, LoopsTypeOK, loopMaps
        <3>5. QED
            BY <3>3, <3>4 DEF AnalysisInv
    <2>5. CASE LoopStep /\ UNCHANGED dvars
        <3>1. WalkInv'
            BY <2>1, <2>2, <2>5
               DEF WalkInv, WalkTypeOK, DominatorsTypeOK, IdomTyped, dvars, domMaps, domLocals
        <3>2. NestTypeOK'
            BY <2>1, <2>5, LoopsTyped
        <3>3. QED
            BY <3>1, <3>2 DEF AnalysisInv
    <2>6. QED
        BY <1>4, <2>3, <2>4, <2>5 DEF Analyse
<1>5. CASE pass' # "loops"
    BY <1>5 DEF AnalysisInv
<1>6. CASE UNCHANGED vars
    BY <1>6 DEF AnalysisInv, WalkInv, WalkTypeOK, DominatorsTypeOK, IdomTyped, FlowGraphTypeOK,
                NestTypeOK, LoopsTypeOK, Blocks, vars, bvars, graphVars, dvars, domMaps,
                domLocals, lvars, loopMaps
<1>7. QED
    <2>1. CASE Build \/ StartDeadCode \/ ClearBasicBlocks \/ ClearAgain
        BY <1>5, <2>1 DEF Build, StartDeadCode, ClearBasicBlocks, ClearAgain
    <2>2. QED
        BY <1>2, <1>3, <1>4, <1>6, <2>1 DEF Next, Passes, Rest

\* Every block the analyses look at or record is one of the program, and the
\* edge lists they follow agree, for every program and every function of it.
THEOREM MiddleEndTypeCorrect == Spec => []MiddleEndTypeOK
<1>1. Init => AnalysisInv
    BY DEF Init, AnalysisInv
<1>2. ProgramInv /\ AnalysisInv /\ [Next]_vars => AnalysisInv'
    BY AnalysisStep
<1>3. ProgramInv /\ AnalysisInv => MiddleEndTypeOK
    BY DEF ProgramInv, BuilderInv, AnalysisInv, WalkInv, WalkTypeOK, NestTypeOK, MiddleEndTypeOK
<1>4. QED
    BY <1>1, <1>2, <1>3, ProgramInvariant, PTL DEF Spec
-----------------------------------------------------------------------------
\* No branch leads to the entry block of a function, and no visit under way
\* knows it as a target.
EntryAlone == \A f \in DOMAIN functions : pred[Entry(f)] = <<>>

Elsewhere ==
    open # <<>> => \A i \in DOMAIN open : Entry(Len(functions)) \notin BlocksIn(open[i])

LEMMA EmptyRange ==
    ASSUME NEW S, NEW s \in Seq(S), Range(s) = {}
    PROVE  s = <<>>
<1>1. s # <<>> => 1 \in DOMAIN s
    OBVIOUS
<1>2. QED
    BY <1>1 DEF Range

\* Entries stay what they are while blocks and edges are added.
LEMMA EntryGrows ==
    ASSUME FlowGraphTypeOK, FlowGraphTypeOK', EntryAlone,
           NEW k \in Nat, Len(succ') = Len(succ) + k, NEW from, NEW T,
           DOMAIN functions' = DOMAIN functions,
           \A f \in DOMAIN functions : Entry(f)' = Entry(f) /\ Entry(f) \notin T,
           \A b \in Blocks' : Range(pred'[b]) =
               (IF b \in Blocks THEN Range(pred[b]) ELSE {}) \cup (IF b \in T THEN {from} ELSE {})
    PROVE  EntryAlone'
<1>1. ASSUME NEW f \in DOMAIN functions
      PROVE  pred'[Entry(f)'] = <<>>
    <2> DEFINE e == Entry(f)
    <2>1. e \in Blocks /\ pred[e] = <<>> /\ e \notin T /\ Entry(f)' = e
        BY ListFacts DEF EntryAlone
    <2>2. e \in Blocks'
        BY <2>1 DEF Blocks, FlowGraphTypeOK
    <2> HIDE DEF e
    <2>3. Range(pred'[e]) = {}
        <3>1. Range(pred[e]) = {}
            BY <2>1 DEF Range
        <3>2. QED
            BY <2>1, <2>2, <3>1
    <2>4. pred'[e] \in Seq(Blocks')
        <3> DEFINE lists == Seq(Blocks')
        <3>1. pred' \in Seq(lists) /\ e \in 1 .. Len(pred')
            BY <2>2 DEF FlowGraphTypeOK, Blocks
        <3> HIDE DEF lists
        <3>2. pred'[e] \in lists
            BY <3>1
        <3>3. QED
            BY <3>2 DEF lists
    <2>5. QED
        BY <2>1, <2>3, <2>4, EmptyRange
<1>2. QED
    BY <1>1 DEF EntryAlone

LEMMA EntriesCreated ==
    ASSUME FlowGraphTypeOK, functions # <<>>, NEW k \in Nat, Create(k)
    PROVE  /\ DOMAIN functions' = DOMAIN functions
           /\ \A f \in DOMAIN functions : Entry(f)' = Entry(f)
<1> DEFINE m == Len(functions)
           longer == functions[m] \o Created(k)
<1>1. functions' = [functions EXCEPT ![m] = longer]
    BY DEF Create
<1>2. m \in DOMAIN functions /\ DOMAIN functions' = DOMAIN functions
    <2>1. m \in DOMAIN functions
        BY HereFacts
    <2> HIDE DEF longer
    <2>2. QED
        BY <1>1, <2>1
<1>3. functions[m] \in Seq(Blocks) /\ functions[m] # <<>> /\ Len(succ) \in Nat
    BY <1>2, ListFacts
<1>4. Created(k) \in Seq(Int)
    BY <1>3 DEF Created
<1>5. longer[1] = functions[m][1]
    <2> DEFINE made == Created(k)
    <2>1. functions[m] \in Seq(Int) /\ made \in Seq(Int) /\ Len(functions[m]) >= 1
        BY <1>3, <1>4 DEF Blocks
    <2> HIDE DEF made
    <2>2. (functions[m] \o made)[1] = functions[m][1]
        BY <2>1
    <2>3. QED
        BY <2>2 DEF made
<1> HIDE DEF longer
<1>6. ASSUME NEW f \in DOMAIN functions
      PROVE  functions'[f][1] = functions[f][1]
    <2>1. CASE f = m
        BY <1>1, <1>2, <1>5, <2>1
    <2>2. CASE f # m
        BY <1>1, <1>2, <2>2
    <2>3. QED
        BY <2>1, <2>2
<1>7. QED
    BY <1>2, <1>6 DEF Entry

\* Visits that come to know new blocks only.
LEMMA ElsewhereKept ==
    ASSUME BuilderInv, Elsewhere, open # <<>>, NEW k \in Nat,
           Entry(Len(functions))' = Entry(Len(functions)),
           \A i \in DOMAIN open' :
               \/ \E j \in DOMAIN open : open'[i] = open[j]
               \/ BlocksIn(open'[i]) \subseteq BlocksIn(Top) \cup New(k)
    PROVE  Elsewhere'
<1> DEFINE e == Entry(Len(functions))
<1>1. GraphInv /\ functions # <<>> /\ Len(open) \in DOMAIN open /\ Top = open[Len(open)]
    BY TopFacts
<1>2. e \in Blocks /\ Len(succ) \in Nat
    BY <1>1, HereFacts, ListFacts DEF GraphInv
<1>3. e \notin New(k)
    BY <1>2 DEF New, Blocks
<1>4. \A i \in DOMAIN open : e \notin BlocksIn(open[i])
    BY DEF Elsewhere
<1>5. e \notin BlocksIn(Top)
    BY <1>1, <1>4
<1> HIDE DEF e
<1>6. \A i \in DOMAIN open' : e \notin BlocksIn(open'[i])
    BY <1>3, <1>4, <1>5
<1>7. QED
    BY <1>6 DEF Elsewhere, BlocksIn, e

\* The targets in context are those of visits under way.
LEMMA ContextElsewhere ==
    ASSUME BuilderInv, Elsewhere, open # <<>>
    PROVE  LET e == Entry(Len(functions)) IN
           /\ Inside(Conditions \cup Logic) => context.trueBB # e /\ context.falseBB # e
           /\ context.iteration_endBB = NoBlock \/ context.iteration_endBB # e
           /\ context.iteration_condBB = NoBlock \/ context.iteration_condBB # e
           /\ e \notin BlocksIn(Top)
<1> DEFINE e == Entry(Len(functions))
<1>1. Len(open) \in DOMAIN open /\ Top = open[Len(open)] /\ DOMAIN open = 1 .. Len(open)
    BY TopFacts
<1>2. \A i \in 1 .. Len(open) : e \notin BlocksIn(open[i])
    BY <1>1 DEF Elsewhere
<1> HIDE DEF e
<1>3. \A i \in 1 .. Len(open) :
        /\ open[i].kind \in Logic \cup Branching \cup Bodies => open[i].begin # e
        /\ open[i].kind \in Branching \cup Bodies => open[i].end # e /\ open[i].join # e
    BY <1>2 DEF BlocksIn, Logic, Branching, Bodies
<1>4. ASSUME Inside(Conditions \cup Logic)
      PROVE  context.trueBB # e /\ context.falseBB # e
    <2>1. TrueLeads(open, Len(open), context.trueBB) /\ FalseLeads(open, Len(open), context.falseBB)
        BY <1>4 DEF BuilderInv, ContextInv
    <2>2. QED
        BY <1>3, <2>1 DEF TrueLeads, FalseLeads, Nearest, Logic
<1>5. LoopLeads(open, Len(open), context.iteration_endBB, context.iteration_condBB)
    BY DEF BuilderInv, ContextInv
<1>6. Loops \subseteq Branching \cup Bodies
    BY DEF Loops, Branching, Bodies
<1>7. e \notin BlocksIn(Top)
    BY <1>1, <1>2
<1>8. QED
    BY <1>3, <1>4, <1>5, <1>6, <1>7 DEF LoopLeads, Nearest, e

\* Jumps between blocks there are.
LEMMA EntryJumps ==
    ASSUME BuilderInv, EntryAlone, open # <<>>, NEW targets \in Seq(Here),
           Entry(Len(functions)) \notin Range(targets),
           BranchTo(0, insert, targets), UNCHANGED functions
    PROVE  EntryAlone' /\ Entry(Len(functions))' = Entry(Len(functions))
<1>1. /\ GraphInv /\ functions # <<>> /\ insert \in Here /\ Here \subseteq Blocks
      /\ Len(succ) \in Nat /\ Blocks = 1 .. Len(succ)
    BY TopFacts
<1>2. GraphInv'
    BY <1>1, JumpGraph
<1>3. FlowGraphTypeOK /\ FlowGraphTypeOK' /\ Apart /\ insert \in Blocks
    BY <1>1, <1>2 DEF GraphInv
<1>4. targets \in Seq(1 .. Len(succ) + 0) /\ Range(targets) \subseteq Here
    <2>1. 1 .. Len(succ) + 0 = Blocks
        BY <1>1
    <2>2. targets \in Seq(Blocks)
        BY <1>1, SeqFacts
    <2>3. QED
        BY <2>1, <2>2, RangeTyped
<1>5. /\ Len(succ') = Len(succ) + 0
      /\ \A b \in Blocks' : Range(pred'[b]) =
            (IF b \in Blocks THEN Range(pred[b]) ELSE {})
               \cup (IF b \in Range(targets) THEN {insert} ELSE {})
    BY <1>3, <1>4, BranchFacts
<1>6. ASSUME NEW f \in DOMAIN functions
      PROVE  Entry(f)' = Entry(f) /\ Entry(f) \notin Range(targets)
    <2>1. Entry(f)' = Entry(f)
        BY DEF Entry
    <2>2. CASE f = Len(functions)
        BY <2>1, <2>2
    <2>3. CASE f # Len(functions)
        <3>1. Len(functions) \in DOMAIN functions /\ Entry(f) \in BlocksOf(f)
            BY <1>1, <1>3, HereFacts, ListFacts
        <3>2. BlocksOf(f) \cap Here = {}
            BY <1>3, <2>3, <3>1 DEF Apart, Here
        <3>3. QED
            BY <1>4, <2>1, <3>1, <3>2
    <2>4. QED
        BY <2>2, <2>3
<1>7. DOMAIN functions' = DOMAIN functions
    OBVIOUS
<1> DEFINE T == Range(targets)
<1>8. \A f \in DOMAIN functions : Entry(f)' = Entry(f) /\ Entry(f) \notin T
    BY <1>6
<1>9. \A b \in Blocks' : Range(pred'[b]) =
            (IF b \in Blocks THEN Range(pred[b]) ELSE {}) \cup (IF b \in T THEN {insert} ELSE {})
    BY <1>5
<1> HIDE DEF T
<1>10. EntryAlone'
    BY <1>3, <1>5, <1>7, <1>8, <1>9, EntryGrows
<1>11. Entry(Len(functions))' = Entry(Len(functions))
    BY DEF Entry
<1>12. QED
    BY <1>10, <1>11
EntryInv == EntryAlone /\ Elsewhere

\* Visits that leave the graph alone.
LEMMA EntryVisits ==
    ASSUME BuilderInv, EntryInv,
           FinishFunction \/ VisitReturn \/ VisitRight \/ VisitThen \/ VisitBody
    PROVE  EntryInv'
<1>1. open # <<>> /\ UNCHANGED graphVars
    BY DEF FinishFunction, VisitReturn, VisitRight, VisitThen, VisitBody, NextStatement,
           AtStatement, Inside
<1>2. EntryAlone' /\ Entry(Len(functions))' = Entry(Len(functions))
    BY <1>1 DEF EntryInv, EntryAlone, Entry, graphVars
<1>3. /\ open \in Seq(Visits) /\ DOMAIN open = 1 .. Len(open) /\ Top \in Visits
      /\ Len(open) \in Nat \ {0} /\ context \in Context
    BY <1>1, TopFacts
<1>4. ASSUME NEW frame \in Visits, BlocksIn(frame) \subseteq BlocksIn(Top), open' = Return(frame),
             NEW i \in DOMAIN open'
      PROVE  \/ \E j \in DOMAIN open : open'[i] = open[j]
             \/ BlocksIn(open'[i]) \subseteq BlocksIn(Top)
    BY <1>1, <1>3, <1>4, TurnFacts DEF Return
<1>5. ASSUME NEW i \in DOMAIN open'
      PROVE  \/ \E j \in DOMAIN open : open'[i] = open[j]
             \/ BlocksIn(open'[i]) \subseteq BlocksIn(Top)
    <2>1. CASE FinishFunction
        <3>1. open' = Front(open)
            BY <2>1 DEF FinishFunction
        <3>2. QED
            BY <1>1, <1>3, <3>1, FrontFacts
    <2>2. CASE VisitReturn
        BY <2>2 DEF VisitReturn
    <2>3. CASE VisitRight
        <3> DEFINE kind == IF Top.kind = "and" THEN "EqExp" ELSE "LAndExp"
        <3>1. kind \in Kind /\ kind \notin Logic \cup Branching \cup Bodies
            BY DEF Kind, Logic, Branching, Bodies
        <3>2. open' = Return(PlainFrame(kind))
            BY <2>3 DEF VisitRight
        <3> HIDE DEF kind
        <3>3. PlainFrame(kind) \in Visits /\ BlocksIn(PlainFrame(kind)) = {}
            BY <1>3, <3>1, PlainFrameFacts
        <3>4. QED
            BY <1>4, <3>2, <3>3
    <2>4. CASE VisitThen \/ VisitBody
        <3> DEFINE then == [Top EXCEPT !.kind = "then"]
                   body == [Top EXCEPT !.kind = "body"]
        <3>1. /\ then \in Visits /\ body \in Visits
              /\ Top.kind \in Branching => /\ BlocksIn(then) = BlocksIn(Top)
                                           /\ BlocksIn(body) = BlocksIn(Top)
            BY <1>3 DEF Visits, Kind, BlocksIn, Logic, Branching, Bodies
        <3>2. Top.kind \in Branching /\ (open' = Return(then) \/ open' = Return(body))
            BY <2>4 DEF VisitThen, VisitBody, Inside, Branching
        <3> HIDE DEF then, body
        <3>3. QED
            BY <1>4, <3>1, <3>2
    <2>5. QED
        BY <2>1, <2>2, <2>3, <2>4
<1>6. Elsewhere'
    <2>1. \A i \in DOMAIN open' : \/ \E j \in DOMAIN open : open'[i] = open[j]
                                  \/ BlocksIn(open'[i]) \subseteq BlocksIn(Top) \cup New(0)
        BY <1>5
    <2>2. QED
        BY <1>1, <1>2, <2>1, ElsewhereKept DEF EntryInv
<1>7. QED
    BY <1>2, <1>6 DEF EntryInv

\* Visits that end in a branch to blocks there are.
LEMMA EntryBranches ==
    ASSUME BuilderInv, EntryInv,
           \/ VisitBreak \/ VisitContinue \/ VisitOperand
           \/ LeaveThen \/ VisitElse \/ LeaveElse \/ LeaveBody
    PROVE  EntryInv'
<1> DEFINE e == Entry(Len(functions))
<1>1. open # <<>> /\ UNCHANGED functions
    BY DEF VisitBreak, VisitContinue, VisitOperand, LeaveThen, VisitElse, LeaveElse, LeaveBody,
           NextStatement, AtStatement, Inside
<1>2. /\ open \in Seq(Visits) /\ DOMAIN open = 1 .. Len(open) /\ Top \in Visits
      /\ Len(open) \in Nat \ {0} /\ BlocksIn(Top) \subseteq Here
    BY <1>1, TopFacts
<1>3. /\ Inside(Conditions \cup Logic) => context.trueBB # e /\ context.falseBB # e
      /\ context.iteration_endBB = NoBlock \/ context.iteration_endBB # e
      /\ context.iteration_condBB = NoBlock \/ context.iteration_condBB # e
      /\ e \notin BlocksIn(Top)
    BY <1>1, ContextElsewhere DEF EntryInv
<1>4. /\ Inside(Conditions \cup Logic) => context.trueBB \in Here /\ context.falseBB \in Here
      /\ context.iteration_endBB = NoBlock \/ context.iteration_endBB \in Here
      /\ context.iteration_condBB = NoBlock \/ context.iteration_condBB \in Here
    BY <1>1, TargetsHere
<1>5. Top.kind \in Bodies => Top.join \in Here \ {e}
    BY <1>2, <1>3 DEF BlocksIn, Logic, Bodies
<1> HIDE DEF e
<1>6. \/ EntryAlone' /\ Entry(Len(functions))' = Entry(Len(functions))
      \/ \E targets \in Seq(Here) : e \notin Range(targets) /\ BranchTo(0, insert, targets)
    <2>1. ASSUME NEW t \in Here \ {e}
          PROVE  <<t>> \in Seq(Here) /\ e \notin Range(<<t>>)
        BY SingletonFacts
    <2>2. CASE VisitBreak \/ VisitContinue
        <3>1. PICK t \in Here \ {e} : BranchTo(0, insert, <<t>>)
            BY <1>3, <1>4, <2>2 DEF VisitBreak, VisitContinue, Jump
        <3>2. QED
            BY <2>1, <3>1
    <2>3. CASE VisitOperand
        <3> DEFINE t == context.trueBB
                   u == context.falseBB
        <3>1. t \in Here \ {e} /\ u \in Here \ {e} /\ BranchTo(0, insert, <<t, u>>)
            BY <1>3, <1>4, <2>3 DEF VisitOperand, Jump, Inside, Conditions
        <3> HIDE DEF t, u
        <3>2. <<t, u>> \in Seq(Here) /\ e \notin Range(<<t, u>>)
            BY <3>1 DEF Range
        <3>3. QED
            BY <3>1, <3>2
    <2>4. CASE LeaveThen \/ VisitElse \/ LeaveElse \/ LeaveBody
        <3>1. Top.join \in Here \ {e} /\ JumpIfOpen(Top.join)
            BY <1>5, <2>4 DEF LeaveThen, VisitElse, LeaveElse, LeaveBody, Inside, Bodies
        <3>2. CASE insert \in ended
            BY <1>1, <3>1, <3>2 DEF JumpIfOpen, EntryInv, EntryAlone, Entry
        <3>3. CASE insert \notin ended
            BY <2>1, <3>1, <3>3 DEF JumpIfOpen, Jump
        <3>4. QED
            BY <3>2, <3>3
    <2>5. QED
        BY <2>2, <2>3, <2>4
<1>7. EntryAlone' /\ Entry(Len(functions))' = Entry(Len(functions))
    BY <1>1, <1>6, EntryJumps DEF EntryInv, e
<1>8. ASSUME NEW i \in DOMAIN open'
      PROVE  \/ \E j \in DOMAIN open : open'[i] = open[j]
             \/ BlocksIn(open'[i]) \subseteq BlocksIn(Top) \cup New(0)
    <2>1. CASE open' = open
        BY <2>1
    <2>2. CASE open' = Front(open)
        BY <1>1, <1>2, <2>2, FrontFacts
    <2>3. CASE VisitElse
        <3> DEFINE frame == [Top EXCEPT !.kind = "else"]
        <3>1. frame \in Visits /\ BlocksIn(frame) = BlocksIn(Top)
            BY <1>2, <2>3 DEF Visits, Kind, BlocksIn, Logic, Branching, Bodies, VisitElse, Inside
        <3>2. open' = Append(Front(open), frame)
            BY <2>3 DEF VisitElse, Return
        <3> HIDE DEF frame
        <3>3. \/ \E j \in DOMAIN open : open'[i] = open[j]
              \/ open'[i] = frame
            BY <1>1, <1>2, <3>1, <3>2, TurnFacts
        <3>4. QED
            BY <3>1, <3>3
    <2>4. QED
        BY <2>1, <2>2, <2>3
           DEF VisitBreak, VisitContinue, VisitOperand, LeaveThen, LeaveElse, LeaveBody
<1>9. Elsewhere'
    BY <1>1, <1>7, <1>8, ElsewhereKept DEF EntryInv
<1>10. QED
    BY <1>7, <1>9 DEF EntryInv
\* Visits that create blocks.
LEMMA EntryCreates ==
    ASSUME BuilderInv, EntryInv, BuilderInv',
           \/ \E kind \in {"if", "if_else"} : VisitSelection(kind)
           \/ VisitIteration \/ VisitOr \/ VisitAnd \/ VisitThenElse
    PROVE  EntryInv'
<1>1. PICK k \in {1, 3} : /\ Create(k)
                          /\ \/ k = 3 /\ BranchTo(3, insert, <<Created(3)[1]>>)
                             \/ k = 1 /\ succ' = Append(succ, <<>>) /\ pred' = Append(pred, <<>>)
    BY DEF VisitSelection, VisitIteration, VisitOr, VisitAnd, VisitLogic, VisitThenElse, Jump
<1>2. open # <<>>
    BY DEF VisitSelection, VisitIteration, VisitOr, VisitAnd, VisitThenElse,
           NextStatement, AtStatement, Inside
<1>3. /\ GraphInv /\ FlowGraphTypeOK /\ FlowGraphTypeOK' /\ functions # <<>>
      /\ insert \in Blocks /\ Len(succ) \in Nat /\ Blocks = 1 .. Len(succ)
      /\ open \in Seq(Visits) /\ DOMAIN open = 1 .. Len(open) /\ Top \in Visits
      /\ Len(open) \in Nat \ {0} /\ context \in Context /\ Top = open[Len(open)]
    BY <1>2, TopFacts DEF GraphInv, BuilderInv, BuilderTypeOK
<1>4. /\ DOMAIN functions' = DOMAIN functions
      /\ \A f \in DOMAIN functions : Entry(f)' = Entry(f) /\ Entry(f) \in Blocks
      /\ Len(functions) \in DOMAIN functions /\ Len(functions') = Len(functions)
    <2>1. k \in Nat
        BY <1>1
    <2>2. DOMAIN functions' = DOMAIN functions /\ \A f \in DOMAIN functions : Entry(f)' = Entry(f)
        BY <1>1, <1>3, <2>1, EntriesCreated
    <2>3. Len(functions') = Len(functions)
        BY <2>2, <1>3 DEF FlowGraphTypeOK
    <2>4. QED
        BY <1>3, <2>2, <2>3, ListFacts, HereFacts
<1>5. EntryAlone'
    <2> DEFINE T == IF k = 3 THEN {Len(succ) + 1} ELSE {}
    <2>1. /\ Len(succ') = Len(succ) + k
          /\ \A b \in Blocks' : Range(pred'[b]) =
                (IF b \in Blocks THEN Range(pred[b]) ELSE {}) \cup (IF b \in T THEN {insert} ELSE {})
        <3>1. CASE k = 3
            <4> DEFINE t == <<Len(succ) + 1>>
            <4>1. Created(3)[1] = Len(succ) + 1
                BY <1>3 DEF Created
            <4>2. t \in Seq(1 .. Len(succ) + k) /\ Range(t) = {Len(succ) + 1} /\ k \in Nat
                <5>1. Len(succ) + 1 \in 1 .. Len(succ) + k
                    BY <1>3, <3>1
                <5>2. Range(t) = {Len(succ) + 1}
                    BY SingletonFacts
                <5>3. QED
                    BY <3>1, <5>1, <5>2
            <4>3. BranchTo(k, insert, t)
                BY <1>1, <3>1, <4>1
            <4> HIDE DEF t
            <4>4. /\ Len(succ') = Len(succ) + k
                  /\ \A b \in Blocks' : Range(pred'[b]) =
                        (IF b \in Blocks THEN Range(pred[b]) ELSE {})
                           \cup (IF b \in Range(t) THEN {insert} ELSE {})
                BY <1>3, <4>2, <4>3, BranchFacts
            <4>5. QED
                BY <4>2, <4>4, <3>1
        <3>2. CASE k = 1
            <4>1. succ' = Append(succ, <<>>) /\ pred' = Append(pred, <<>>)
                BY <1>1, <3>2
            <4>2. /\ Len(succ') = Len(succ) + 1
                  /\ \A b \in Blocks' : Range(pred'[b]) = IF b \in Blocks THEN Range(pred[b]) ELSE {}
                BY <1>3, <4>1, PlainBlockFacts
            <4>3. QED
                BY <3>2, <4>2
        <3>3. QED
            BY <3>1, <3>2
    <2>2. \A f \in DOMAIN functions : Entry(f)' = Entry(f) /\ Entry(f) \notin T
        <3>1. Len(succ) + 1 \notin Blocks
            BY <1>3
        <3>2. QED
            BY <1>4, <3>1
    <2>3. k \in Nat /\ EntryAlone /\ FlowGraphTypeOK /\ FlowGraphTypeOK'
          /\ DOMAIN functions' = DOMAIN functions
        BY <1>1, <1>3, <1>4 DEF EntryInv
    <2> HIDE DEF T
    <2>4. QED
        BY <2>1, <2>2, <2>3, EntryGrows
<1>6. Entry(Len(functions))' = Entry(Len(functions))
    BY <1>4 DEF Entry
<1>7. \A n \in Nat : \A i \in 1 .. n : Created(n)[i] \in New(n)
    <2>1. ASSUME NEW n \in Nat, NEW i \in 1 .. n
          PROVE  Len(succ) + i \in New(n)
        BY <1>3 DEF New
    <2>2. QED
        BY <2>1 DEF Created
<1>8. \A kind, b, e, j : /\ BlocksIn(Frame(kind, b, e, j)) \subseteq {b, e, j}
                         /\ kind \in Logic => BlocksIn(Frame(kind, b, e, j)) = {b}
    <2>1. ASSUME NEW kind, NEW b, NEW e, NEW j
          PROVE  /\ BlocksIn(Frame(kind, b, e, j)) \subseteq {b, e, j}
                 /\ kind \in Logic => BlocksIn(Frame(kind, b, e, j)) = {b}
        <3> DEFINE f == Frame(kind, b, e, j)
        <3>1. f.kind = kind /\ f.begin = b /\ f.end = e /\ f.join = j
            BY DEF Frame
        <3> HIDE DEF f
        <3>2. /\ BlocksIn(f) \subseteq {f.begin, f.end, f.join}
              /\ f.kind \in Logic => BlocksIn(f) = {f.begin}
            <4>1. CASE f.kind \in Logic
                BY <4>1 DEF BlocksIn, Logic, Branching, Bodies
            <4>2. CASE f.kind \in Branching \cup Bodies
                BY <4>2 DEF BlocksIn, Logic, Branching, Bodies
            <4>3. CASE f.kind \notin Logic \cup Branching \cup Bodies
                BY <4>3 DEF BlocksIn
            <4>4. QED
                BY <4>1, <4>2, <4>3
        <3>3. QED
            BY <3>1, <3>2 DEF f
    <2>2. QED
        BY <2>1
<1>9. \A kind \in Conditions : BlocksIn(PlainFrame(kind)) = {}
    BY DEF PlainFrame, Frame, BlocksIn, Conditions, Logic, Branching, Bodies
<1>10. ASSUME NEW s, NEW t, NEW o \in Seq(Visits), open' = o \o <<s, t>>, NEW n \in Nat,
              \A i \in DOMAIN o : i \in DOMAIN open /\ o[i] = open[i],
              BlocksIn(s) \subseteq New(n), BlocksIn(t) = {}, NEW i \in DOMAIN open'
       PROVE  \/ \E j \in DOMAIN open : open'[i] = open[j]
              \/ BlocksIn(open'[i]) \subseteq BlocksIn(Top) \cup New(n)
    <2> DEFINE all == Visits \cup {s, t}
    <2>1. o \in Seq(all) /\ s \in all /\ t \in all
        BY SeqFacts
    <2> HIDE DEF all
    <2>2. /\ DOMAIN (o \o <<s, t>>) = 1 .. Len(o) + 2
          /\ (o \o <<s, t>>)[Len(o) + 1] = s /\ (o \o <<s, t>>)[Len(o) + 2] = t
          /\ \A k0 \in 1 .. Len(o) : (o \o <<s, t>>)[k0] = o[k0]
        BY <2>1, CallFacts
    <2>3. Len(o) \in Nat /\ DOMAIN o = 1 .. Len(o)
        BY SeqFacts
    <2>4. i \in 1 .. Len(o) \/ i = Len(o) + 1 \/ i = Len(o) + 2
        BY <1>10, <2>2, <2>3
    <2>5. QED
        BY <1>10, <2>2, <2>3, <2>4
<1>11. PICK n \in Nat : \A i \in DOMAIN open' :
            \/ \E j \in DOMAIN open : open'[i] = open[j]
            \/ BlocksIn(open'[i]) \subseteq BlocksIn(Top) \cup New(n)
    <2>1. ASSUME NEW kind, NEW join \in New(3),
                 open' = open \o <<Frame(kind, Created(3)[2], Created(3)[3], join),
                                   PlainFrame("LOrExp")>>
          PROVE  \A i \in DOMAIN open' :
                    \/ \E j \in DOMAIN open : open'[i] = open[j]
                    \/ BlocksIn(open'[i]) \subseteq BlocksIn(Top) \cup New(3)
        <3> DEFINE s == Frame(kind, Created(3)[2], Created(3)[3], join)
                   t == PlainFrame("LOrExp")
        <3>1. Created(3)[2] \in New(3) /\ Created(3)[3] \in New(3)
            BY <1>7
        <3>2. BlocksIn(s) \subseteq New(3) /\ BlocksIn(t) = {}
            BY <1>8, <1>9, <2>1, <3>1 DEF Conditions
        <3>3. open' = open \o <<s, t>>
            BY <2>1
        <3> HIDE DEF s, t
        <3>4. QED
            BY <1>3, <1>10, <3>2, <3>3
    <2>2. ASSUME NEW kind, VisitSelection(kind)
          PROVE  \E n \in Nat : \A i \in DOMAIN open' :
                    \/ \E j \in DOMAIN open : open'[i] = open[j]
                    \/ BlocksIn(open'[i]) \subseteq BlocksIn(Top) \cup New(n)
        <3>1. Created(3)[3] \in New(3)
            BY <1>7
        <3>2. QED
            BY <2>1, <2>2, <3>1 DEF VisitSelection
    <2>3. CASE VisitIteration
        <3>1. Created(3)[1] \in New(3)
            BY <1>7
        <3>2. QED
            BY <2>1, <2>3, <3>1 DEF VisitIteration
    <2>4. CASE VisitOr \/ VisitAnd
        <3>1. PICK kind \in Logic, left \in Conditions :
                open' = Append(Return(Frame(kind, Created(1)[1], NoBlock, NoBlock)), PlainFrame(left))
            BY <2>4 DEF VisitOr, VisitAnd, VisitLogic, Logic, Conditions
        <3> DEFINE s == Frame(kind, Created(1)[1], NoBlock, NoBlock)
                   t == PlainFrame(left)
                   o == Front(open)
        <3>2. BlocksIn(s) \subseteq New(1) /\ BlocksIn(t) = {}
            <4>1. Created(1)[1] \in New(1)
                BY <1>7
            <4>2. QED
                BY <1>8, <1>9, <4>1
        <3>3. o \in Seq(Visits) /\ \A i \in DOMAIN o : i \in DOMAIN open /\ o[i] = open[i]
            BY <1>2, <1>3, FrontFacts
        <3>4. open' = Append(Append(o, s), t)
            BY <3>1 DEF Return
        <3> HIDE DEF s, t, o
        <3>5. Append(Append(o, s), t) = o \o <<s, t>>
            <4> DEFINE all == Visits \cup {s, t}
            <4>1. o \in Seq(all) /\ s \in all /\ t \in all
                BY <3>3, SeqFacts
            <4> HIDE DEF all
            <4>2. QED
                BY <4>1
        <3>6. open' = o \o <<s, t>>
            BY <3>4, <3>5
        <3>7. \A i \in DOMAIN open' :
                    \/ \E j \in DOMAIN open : open'[i] = open[j]
                    \/ BlocksIn(open'[i]) \subseteq BlocksIn(Top) \cup New(1)
            BY <1>10, <3>2, <3>3, <3>6
        <3>8. QED
            BY <3>7
    <2>5. CASE VisitThenElse
        <3> DEFINE s == [Top EXCEPT !.kind = "then_else", !.join = Created(1)[1]]
                   o == Front(open)
        <3>1. o \in Seq(Visits) /\ \A i \in DOMAIN o : i \in DOMAIN open /\ o[i] = open[i]
            BY <1>2, <1>3, FrontFacts
        <3>2. BlocksIn(s) \subseteq BlocksIn(Top) \cup New(1)
            <4>1. Created(1)[1] \in New(1)
                BY <1>7
            <4>2. Top.kind = "if_else"
                BY <2>5 DEF VisitThenElse, Inside
            <4>3. BlocksIn(Top) = {Top.begin, Top.end, Top.join}
                BY <4>2 DEF BlocksIn, Logic, Branching
            <4>4. BlocksIn(s) = {Top.begin, Top.end, Created(1)[1]}
                BY <1>3 DEF BlocksIn, Logic, Branching, Bodies, Visits
            <4>5. QED
                BY <4>1, <4>3, <4>4
        <3>3. open' = Append(o, s)
            BY <2>5 DEF VisitThenElse, Return
        <3> HIDE DEF s, o
        <3>4. \A i \in DOMAIN open' : (i \in DOMAIN o /\ open'[i] = o[i]) \/ open'[i] = s
            <4> DEFINE all == Visits \cup {s}
            <4>1. o \in Seq(all) /\ s \in all
                BY <3>1, SeqFacts
            <4> HIDE DEF all
            <4>2. QED
                BY <3>3, <4>1
        <3>5. QED
            BY <3>1, <3>2, <3>4
    <2>6. QED
        BY <2>2, <2>3, <2>4, <2>5
<1>12. Elsewhere'
    BY <1>2, <1>6, <1>11, ElsewhereKept DEF EntryInv
<1>13. QED
    BY <1>5, <1>12 DEF EntryInv
\* A new function.
LEMMA EntryStarts ==
    ASSUME BuilderInv, EntryInv, StartFunction
    PROVE  EntryInv'
<1> DEFINE n == Len(succ)
           m == Len(functions)
<1>1. /\ FlowGraphTypeOK /\ GraphInv /\ n \in Nat /\ Blocks = 1 .. n /\ m \in Nat
      /\ DOMAIN functions = 1 .. m /\ Len(pred) = n /\ DOMAIN pred = 1 .. n
      /\ pred \in Seq(Seq(Blocks)) /\ context \in Context
      /\ functions \in Seq(Seq(Blocks) \ {<<>>})
    BY DEF BuilderInv, BuilderTypeOK, GraphInv, FlowGraphTypeOK, Blocks
<1>2. /\ functions' = Append(functions, Created(1)) /\ pred' = Append(pred, <<>>)
      /\ open' = <<PlainFrame("function")>>
    BY DEF StartFunction
<1>3. Created(1)[1] = n + 1 /\ Created(1) \in Seq(Int)
    BY <1>1 DEF Created
<1>4. /\ DOMAIN functions' = 1 .. m + 1 /\ functions'[m + 1] = Created(1)
      /\ \A f \in 1 .. m : functions'[f] = functions[f]
    <2> DEFINE made == Created(1)
               all == (Seq(Blocks) \ {<<>>}) \cup {made}
    <2>1. functions \in Seq(all) /\ made \in all
        BY <1>1, SeqFacts
    <2> HIDE DEF made, all
    <2>2. /\ DOMAIN Append(functions, made) = 1 .. m + 1
          /\ Append(functions, made)[m + 1] = made
          /\ \A f \in 1 .. m : Append(functions, made)[f] = functions[f]
        BY <2>1
    <2>3. QED
        BY <1>2, <2>2 DEF made
<1>5. pred'[n + 1] = <<>> /\ \A b \in 1 .. n : pred'[b] = pred[b]
    <2> DEFINE lists == Seq(Blocks)
    <2>1. pred \in Seq(lists) /\ <<>> \in lists
        BY <1>1
    <2> HIDE DEF lists
    <2>2. QED
        BY <1>1, <1>2, <2>1
<1>6. ASSUME NEW f \in DOMAIN functions'
      PROVE  pred'[functions'[f][1]] = <<>>
    <2>1. CASE f \in 1 .. m
        <3>1. Entry(f) \in 1 .. n /\ pred[Entry(f)] = <<>>
            BY <1>1, <2>1, ListFacts DEF EntryInv, EntryAlone
        <3>2. functions'[f][1] = Entry(f)
            BY <1>4, <2>1 DEF Entry
        <3>3. QED
            BY <1>5, <3>1, <3>2
    <2>2. CASE f = m + 1
        BY <1>3, <1>4, <1>5, <2>2
    <2>3. QED
        BY <1>1, <1>4, <2>1, <2>2
<1>7. EntryAlone'
    BY <1>6 DEF EntryAlone, Entry
<1>8. Elsewhere'
    <2>1. BlocksIn(PlainFrame("function")) = {}
        BY <1>1, PlainFrameFacts DEF Kind, Logic, Branching, Bodies
    <2>2. DOMAIN open' = {1} /\ open'[1] = PlainFrame("function")
        BY <1>2
    <2>3. \A i \in DOMAIN open' : BlocksIn(open'[i]) = {}
        BY <2>1, <2>2
    <2>4. QED
        BY <2>3 DEF Elsewhere, BlocksIn
<1>9. QED
    BY <1>7, <1>8 DEF EntryInv

\* The first element stays the first.
LEMMA WithoutFirst ==
    ASSUME NEW S, NEW s \in Seq(S), s # <<>>, NEW gone, s[1] \notin gone
    PROVE  Without(s, gone)[1] = s[1]
<1> PICK f : /\ Without(s, gone) = f[Len(s)] /\ f[0] = <<>>
             /\ \A n \in 1 .. Len(s) :
                   f[n] = IF s[n] \in gone THEN f[n - 1] ELSE Append(f[n - 1], s[n])
    BY WithoutSteps
<1> DEFINE N == Len(s)
           Kept == {n \in 0 .. N : n = 0 \/ (f[n] \in Seq(S) /\ f[n] # <<>> /\ f[n][1] = s[1])}
<1>1. N \in Nat /\ N # 0 /\ \A n \in 1 .. N : s[n] \in S
    OBVIOUS
<1>2. 0 \in Kept /\ \A n \in Kept : n < N => n + 1 \in Kept
    <2>1. ASSUME NEW n \in Kept, n < N
          PROVE  n + 1 \in Kept
        <3>1. n \in Nat /\ n + 1 \in 1 .. N /\ n + 1 \in 0 .. N /\ (n + 1) - 1 = n
            BY <1>1, <2>1
        <3>2. f[n + 1] = IF s[n + 1] \in gone THEN f[n] ELSE Append(f[n], s[n + 1])
            BY <3>1
        <3>3. CASE n = 0
            <4>1. f[n + 1] = Append(<<>>, s[1])
                BY <3>2, <3>3
            <4>2. s[1] \in S
                BY <1>1
            <4>3. Append(<<>>, s[1]) \in Seq(S) /\ Append(<<>>, s[1]) # <<>>
                  /\ Append(<<>>, s[1])[1] = s[1]
                BY <4>2
            <4>4. QED
                BY <3>1, <4>1, <4>3
        <3>4. CASE n # 0
            <4> DEFINE t == f[n]
                       e == s[n + 1]
            <4>1. t \in Seq(S) /\ t # <<>> /\ t[1] = s[1] /\ e \in S
                BY <1>1, <2>1, <3>1, <3>4
            <4> HIDE DEF t, e
            <4>2. Append(t, e) \in Seq(S) /\ Append(t, e) # <<>> /\ Append(t, e)[1] = s[1]
                BY <4>1
            <4>3. QED
                BY <3>1, <3>2, <4>1, <4>2 DEF t, e
        <3>5. QED
            BY <3>3, <3>4
    <2>2. 0 \in Kept
        BY <1>1
    <2>3. QED
        BY <2>1, <2>2
<1>3. N \in Kept
    <2>1. Kept \in SUBSET (0 .. N)
        OBVIOUS
    <2> HIDE DEF Kept
    <2>2. QED
        BY <1>1, <1>2, <2>1, IntervalInduction
<1>4. QED
    BY <1>1, <1>3

LEMMA EntryClears ==
    ASSUME BuilderInv, EntryInv, open = <<>>, cursor \in Nat \ {0}, ClearBasicBlocks
    PROVE  EntryInv'
<1> DEFINE gone == ToErase(cursor)
<1>1. /\ FlowGraphTypeOK /\ cursor \in DOMAIN functions /\ gone \subseteq BlocksOf(cursor)
      /\ Entry(cursor) \notin gone /\ RemoveBlocks(cursor, gone) /\ open' = <<>>
    <2>1. functions \in Seq(Seq(Blocks) \ {<<>>}) /\ cursor <= Len(functions)
        BY DEF BuilderInv, BuilderTypeOK, FlowGraphTypeOK, ClearBasicBlocks
    <2>2. cursor \in DOMAIN functions
        BY <2>1, SeqFacts
    <2>3. QED
        BY <2>2 DEF BuilderInv, BuilderTypeOK, ClearBasicBlocks, ToErase, builderVars
<1> HIDE DEF gone
<1>2. /\ functions' = [functions EXCEPT ![cursor] = Without(functions[cursor], gone)]
      /\ pred' = [b \in Blocks |-> Without(pred[b], gone)]
    BY <1>1 DEF RemoveBlocks
<1>3. Without(functions[cursor], gone)[1] = Entry(cursor)
    <2>1. functions[cursor] \in Seq(Blocks) /\ functions[cursor] # <<>>
        BY <1>1, ListFacts
    <2>2. functions[cursor][1] \notin gone
        BY <1>1 DEF Entry
    <2>3. QED
        BY <2>1, <2>2, WithoutFirst DEF Entry
<1>4. DOMAIN functions' = DOMAIN functions
      /\ \A f \in DOMAIN functions : functions'[f][1] = Entry(f)
    <2> DEFINE shorter == Without(functions[cursor], gone)
    <2>1. functions' = [functions EXCEPT ![cursor] = shorter] /\ shorter[1] = Entry(cursor)
        BY <1>2, <1>3
    <2> HIDE DEF shorter
    <2>2. QED
        BY <1>1, <2>1 DEF Entry
<1>5. Without(<<>>, gone) = <<>>
    <2> DEFINE none == <<>>
    <2>1. none \in Seq(Blocks) /\ Range(none) = {}
        BY DEF Range
    <2> HIDE DEF none
    <2>2. Without(none, gone) \in Seq(Blocks) /\ Range(Without(none, gone)) = {}
        BY <2>1, WithoutFacts
    <2>3. QED
        BY <2>2, EmptyRange DEF none
<1>6. \A f \in DOMAIN functions : pred'[Entry(f)] = <<>>
    BY <1>1, <1>2, <1>5, ListFacts DEF EntryInv, EntryAlone
<1>7. EntryAlone'
    BY <1>4, <1>6 DEF EntryAlone, Entry
<1>8. QED
    BY <1>1, <1>7 DEF EntryInv, Elsewhere

LEMMA EntryInvariant == Spec => []EntryInv
<1>1. Init => EntryInv
    BY DEF Init, BuilderInit, EntryInv, EntryAlone, Elsewhere
<1>2. ProgramInv /\ EntryInv /\ [Next]_vars /\ ProgramInv' => EntryInv'
    <2> SUFFICES ASSUME ProgramInv, EntryInv, [Next]_vars, ProgramInv'
                 PROVE  EntryInv'
        OBVIOUS
    <2>1. BuilderInv /\ BuilderInv'
        BY DEF ProgramInv
    <2>2. CASE Build
        <3>1. BuilderNext
            BY <2>2 DEF Build
        <3>2. CASE FinishFunction \/ VisitReturn \/ VisitRight \/ VisitThen \/ VisitBody
            BY <2>1, <3>2, EntryVisits
        <3>3. CASE \/ VisitBreak \/ VisitContinue \/ VisitOperand
                   \/ LeaveThen \/ VisitElse \/ LeaveElse \/ LeaveBody
            BY <2>1, <3>3, EntryBranches
        <3>4. CASE \/ \E kind \in {"if", "if_else"} : VisitSelection(kind)
                   \/ VisitIteration \/ VisitOr \/ VisitAnd \/ VisitThenElse
            BY <2>1, <3>4, EntryCreates
        <3>5. CASE StartFunction
            BY <2>1, <3>5, EntryStarts
        <3>6. QED
            BY <3>1, <3>2, <3>3, <3>4, <3>5 DEF BuilderNext
    <2>3. CASE ClearBasicBlocks
        BY <2>1, <2>3, EntryClears DEF ProgramInv, ClearBasicBlocks
    <2>4. CASE UNCHANGED bvars
        BY <2>4 DEF EntryInv, EntryAlone, Elsewhere, Entry, BlocksIn, bvars, graphVars, builderVars
    <2>5. QED
        BY <2>2, <2>3, <2>4 DEF Next, Passes, Rest, StartDeadCode, ClearAgain, StartLoopDetection,
                                NextFunction, Analyse, vars
<1>3. QED
    BY <1>1, <1>2, ProgramInvariant, PTL DEF Spec
\* No branch ever leads to an entry block, which dominators and dominance
\* frontiers rely on: the code never gives an entry an immediate dominator.
THEOREM NoJumpToAnEntry == Spec => []EntryAlone
<1>1. EntryInv => EntryAlone
    BY DEF EntryInv
<1>2. QED
    BY <1>1, EntryInvariant, PTL

-----------------------------------------------------------------------------
\* What is reached from the entry of a function stays in the function.
LEMMA ReachedFacts ==
    ASSUME GraphInv, NEW f \in DOMAIN functions
    PROVE  /\ Reached(f) \subseteq BlocksOf(f) /\ BlocksOf(f) \subseteq Blocks
           /\ Entry(f) \in Reached(f)
           /\ \A b \in Reached(f) : Range(succ[b]) \subseteq Reached(f)
           /\ \A S : Entry(f) \in S /\ (\A x \in S \cap Reached(f) : Range(succ[x]) \subseteq S)
                        => Reached(f) \subseteq S
<1>1. FlowGraphTypeOK /\ EdgesAgree /\ NoBlock \notin Blocks
    BY DEF GraphInv, Blocks, NoBlock
<1>2. /\ Entry(f) \in Blocks /\ Entry(f) \in BlocksOf(f) /\ BlocksOf(f) \subseteq Blocks
      /\ \A x \in Blocks : Range(succ[x]) \subseteq Blocks
    BY <1>1, ListFacts
<1>3. /\ Reached(f) \subseteq Blocks /\ (Entry(f) # NoBlock => Entry(f) \in Reached(f))
      /\ \A x \in Reached(f) : Range(succ[x]) \ {NoBlock} \subseteq Reached(f)
      /\ \A S : Entry(f) \in S /\ (\A x \in S \cap Reached(f) : Range(succ[x]) \ {NoBlock} \subseteq S)
                   => Reached(f) \subseteq S
    BY <1>1, <1>2, ReachFacts DEF Reached
<1>4. \A x \in Blocks : Range(succ[x]) \ {NoBlock} = Range(succ[x])
    BY <1>1, <1>2
<1>5. /\ Entry(f) \in Reached(f)
      /\ \A b \in Reached(f) : Range(succ[b]) \subseteq Reached(f)
    BY <1>1, <1>2, <1>3, <1>4
<1>6. ASSUME NEW S, Entry(f) \in S, \A x \in S \cap Reached(f) : Range(succ[x]) \subseteq S
      PROVE  Reached(f) \subseteq S
    BY <1>3, <1>6
<1>7. \A x \in BlocksOf(f) : Range(succ[x]) \subseteq BlocksOf(f)
    BY <1>1 DEF EdgesAgree, Functions
<1>8. Reached(f) \subseteq BlocksOf(f)
    BY <1>2, <1>6, <1>7
<1>9. QED
    BY <1>2, <1>5, <1>6, <1>8

\* Block a has a higher number than block b.
Ahead(a, b) ==
    \E i, j \in DOMAIN postOrder : j < i /\ postOrder[i] = a /\ postOrder[j] = b

\* The functions whose blocks have their numbers.
Walked == IF stage = "dfs" THEN 1 .. current - 1 ELSE 1 .. current

\* The blocks of f that have a number.
NumberedOf(f) ==
    IF f \in Walked THEN Reached(f)
    ELSE IF stage = "dfs" /\ f = current THEN visited \ Range(visits) ELSE {}

\* Every number belongs to one block, and exactly the blocks that are reached
\* get one, each a lower one than some predecessor.
OrderInv ==
    /\ IsInjective(postOrder)
    /\ \A f \in DOMAIN functions : Numbered \cap BlocksOf(f) = NumberedOf(f)
    /\ Numbered \subseteq UNION {BlocksOf(f) : f \in DOMAIN functions}
    /\ \A f \in Walked : \A b \in Reached(f) \ {Entry(f)} : \E p \in Range(pred[b]) : Ahead(p, b)

\* The visits of the dfs under way are a path from the entry; a block whose
\* visit has returned has a predecessor whose visit returns later.
DfsInv ==
    stage = "dfs" =>
        /\ IsInjective(visits) /\ Range(visits) \subseteq visited
        /\ visited \subseteq Reached(current) /\ Entry(current) \in visited
        /\ visits # <<>> => visits[1] = Entry(current)
        /\ \A k \in 2 .. Len(visits) : visits[k - 1] \in Range(pred[visits[k]])
        /\ \A b \in visited \ Range(visits) :
            /\ Range(succ[b]) \subseteq visited
            /\ b # Entry(current) => \E p \in Range(pred[b]) : p \in Range(visits) \/ Ahead(p, b)
            /\ b = Entry(current) => visits = <<>>

LEMMA AheadGrows ==
    ASSUME postOrder \in Seq(Blocks), NEW e \in Blocks, postOrder' = Append(postOrder, e)
    PROVE  /\ Len(postOrder') = Len(postOrder) + 1
           /\ Numbered' = Numbered \cup {e}
           /\ \A a, b : Ahead(a, b) => Ahead(a, b)'
           /\ \A b \in Numbered : Ahead(e, b)'
           /\ IsInjective(postOrder) /\ e \notin Numbered => IsInjective(postOrder')
<1> DEFINE n == Len(postOrder)
<1>1. /\ n \in Nat /\ DOMAIN postOrder = 1 .. n /\ DOMAIN postOrder' = 1 .. n + 1
      /\ Len(postOrder') = n + 1
      /\ postOrder'[n + 1] = e /\ \A i \in 1 .. n : postOrder'[i] = postOrder[i]
    OBVIOUS
<1>2. \A i \in 1 .. n : i \in 1 .. n + 1 /\ i < n + 1
    BY <1>1
<1>3. n + 1 \in 1 .. n + 1 /\ \A i \in 1 .. n + 1 : i \in 1 .. n \/ i = n + 1
    BY <1>1
<1> HIDE DEF n
<1>4. Numbered' = Numbered \cup {e}
    BY <1>1, <1>2, <1>3 DEF Numbered, Range
<1>5. ASSUME NEW a, NEW b, Ahead(a, b)
      PROVE  Ahead(a, b)'
    BY <1>1, <1>2, <1>5 DEF Ahead
<1>6. ASSUME NEW b \in Numbered
      PROVE  Ahead(e, b)'
    BY <1>1, <1>2, <1>3 DEF Ahead, Numbered, Range
<1>7. ASSUME IsInjective(postOrder), e \notin Numbered
      PROVE  IsInjective(postOrder')
    <2>1. \A i \in 1 .. n : postOrder[i] # e
        BY <1>1, <1>7 DEF Numbered, Range
    <2>2. \A i, j \in 1 .. n : postOrder[i] = postOrder[j] => i = j
        BY <1>1, <1>7 DEF IsInjective
    <2>3. QED
        BY <1>1, <1>3, <2>1, <2>2 DEF IsInjective
<1>8. QED
    BY <1>1, <1>4, <1>5, <1>6, <1>7 DEF n

\* A stack whose elements differ.
LEMMA StackFacts ==
    ASSUME NEW S, NEW s \in Seq(S), IsInjective(s)
    PROVE  /\ \A e \in S : e \notin Range(s) =>
                  IsInjective(Append(s, e)) /\ Range(Append(s, e)) = Range(s) \cup {e}
           /\ s # <<>> => /\ IsInjective(Front(s)) /\ Range(Front(s)) = Range(s) \ {Last(s)}
                          /\ Last(s) \in Range(s)
<1> DEFINE n == Len(s)
<1>1. n \in Nat /\ DOMAIN s = 1 .. n /\ \A i, j \in 1 .. n : s[i] = s[j] => i = j
    BY DEF IsInjective
<1>2. ASSUME NEW e \in S, e \notin Range(s)
      PROVE  IsInjective(Append(s, e)) /\ Range(Append(s, e)) = Range(s) \cup {e}
    <2>1. /\ DOMAIN Append(s, e) = 1 .. n + 1 /\ Append(s, e)[n + 1] = e
          /\ \A i \in 1 .. n : Append(s, e)[i] = s[i]
        OBVIOUS
    <2>2. \A i \in 1 .. n + 1 : i \in 1 .. n \/ i = n + 1
        BY <1>1
    <2>3. \A i \in 1 .. n : s[i] # e
        BY <1>1, <1>2 DEF Range
    <2>4. Range(Append(s, e)) = Range(s) \cup {e}
        BY RangeFacts
    <2>5. QED
        BY <1>1, <2>1, <2>2, <2>3, <2>4 DEF IsInjective
<1>3. ASSUME s # <<>>
      PROVE  /\ IsInjective(Front(s)) /\ Range(Front(s)) = Range(s) \ {Last(s)}
             /\ Last(s) \in Range(s)
    <2>1. /\ n \in 1 .. n /\ DOMAIN Front(s) = 1 .. n - 1 /\ Last(s) = s[n]
          /\ \A i \in 1 .. n - 1 : Front(s)[i] = s[i]
        BY <1>3, FrontFacts DEF Last
    <2>2. \A i \in 1 .. n : i \in 1 .. n - 1 <=> i # n
        <3>1. \A m \in Nat : \A i \in 1 .. m : i \in 1 .. m - 1 <=> i # m
            OBVIOUS
        <3>2. n \in Nat
            BY <1>1
        <3>3. QED
            BY <3>1, <3>2, Zenon
    <2>3. \A i \in 1 .. n - 1 : i \in 1 .. n
        BY <1>1
    <2> DEFINE g == Front(s)
               l == Last(s)
    <2>4. /\ DOMAIN g = 1 .. n - 1 /\ l = s[n] /\ n \in 1 .. n
          /\ \A i \in 1 .. n - 1 : g[i] = s[i]
        BY <2>1
    <2> HIDE DEF n, g, l
    <2>5. Range(g) = Range(s) \ {l}
        <3>1. ASSUME NEW i \in 1 .. n - 1
              PROVE  g[i] \in Range(s) /\ g[i] # l
            BY <1>1, <2>2, <2>3, <2>4 DEF Range
        <3>2. ASSUME NEW i \in 1 .. n, s[i] # l
              PROVE  s[i] \in Range(g)
            BY <2>2, <2>4, <3>2 DEF Range
        <3>3. QED
            BY <1>1, <2>4, <3>1, <3>2 DEF Range
    <2>6. l \in Range(s)
        BY <1>1, <2>4 DEF Range
    <2>7. IsInjective(g)
        <3>1. \A i, j \in 1 .. n - 1 : g[i] = g[j] => i = j
            BY <1>1, <2>3, <2>4
        <3>2. QED
            BY <2>4, <3>1 DEF IsInjective
    <2>8. QED
        BY <2>5, <2>6, <2>7 DEF g, l
<1>4. QED
    BY <1>2, <1>3

-----------------------------------------------------------------------------
\* While the analyses run the graph stays what it is.
Graph == GraphInv /\ EntryAlone

LEMMA GraphStill ==
    ASSUME UNCHANGED graphVars
    PROVE  /\ Blocks' = Blocks /\ DOMAIN functions' = DOMAIN functions
           /\ \A f : Entry(f)' = Entry(f) /\ BlocksOf(f)' = BlocksOf(f) /\ Reached(f)' = Reached(f)
           /\ \A b, d : ReachedWithout(b, d)' = ReachedWithout(b, d)
<1>1. functions' = functions /\ succ' = succ /\ pred' = pred
    BY DEF graphVars
<1>2. \A f : Entry(f)' = Entry(f) /\ BlocksOf(f)' = BlocksOf(f)
    BY <1>1 DEF Entry, BlocksOf, Range
<1>3. \A b, d : ReachedWithout(b, d)' = ReachedWithout(b, d)
    BY <1>1 DEF ReachedWithout, Onwards
<1>4. \A f : Reached(f)' = Reached(f)
    BY <1>1 DEF Reached, ReachedWithout, Onwards, Entry
<1>5. QED
    BY <1>1, <1>2, <1>3, <1>4 DEF Blocks

\* The dfs comes to a successor that was not visited.
LEMMA EnterOrder ==
    ASSUME Graph, WalkInv, OrderInv, DfsInv, UNCHANGED graphVars, DfsEnter
    PROVE  OrderInv' /\ DfsInv'
<1> DEFINE t == Last(visits)
           unseen == Unvisited(t)
           e == Head(unseen)
           n == Len(visits)
<1>1. /\ visits \in Seq(Blocks) /\ visits # <<>> /\ t \in Range(visits) /\ t \in Blocks
      /\ n \in Nat \ {0} /\ DOMAIN visits = 1 .. n /\ t = visits[n]
      /\ current \in DOMAIN functions /\ stage = "dfs"
    <2>1. visits \in Seq(Blocks) /\ visits # <<>> /\ stage = "dfs" /\ current \in DOMAIN functions
        BY DEF DfsEnter, WalkInv, WalkTypeOK
    <2>2. n \in Nat \ {0} /\ DOMAIN visits = 1 .. n /\ t = visits[n]
        BY <2>1 DEF Last
    <2>3. QED
        BY <2>1, <2>2, RangeTyped DEF Range
<1>2. e \in Range(succ[t]) /\ e \notin visited /\ e \in Blocks
    <2>1. succ[t] \in Seq(Blocks) /\ Range(succ[t]) \subseteq Blocks
        BY <1>1, ListFacts DEF WalkInv
    <2>2. unseen \in Seq(Blocks) /\ Range(unseen) = Range(succ[t]) \ visited
        BY <2>1, WithoutFacts DEF Unvisited
    <2>3. unseen # <<>>
        BY DEF DfsEnter
    <2> HIDE DEF unseen
    <2>4. e \in Range(unseen)
        BY <2>2, <2>3 DEF Range
    <2>5. QED
        BY <2>1, <2>2, <2>4
<1>3. /\ visits' = Append(visits, e) /\ visited' = visited \cup {e}
      /\ UNCHANGED <<stage, current, postOrder>>
    BY DEF DfsEnter, domMaps
<1> HIDE DEF e, unseen
<1>4. /\ IsInjective(visits) /\ Range(visits) \subseteq visited /\ visited \subseteq Reached(current)
      /\ Entry(current) \in visited /\ visits[1] = Entry(current)
      /\ \A k \in 2 .. n : visits[k - 1] \in Range(pred[visits[k]])
    BY <1>1 DEF DfsInv
<1>5. IsInjective(visits') /\ Range(visits') = Range(visits) \cup {e}
    BY <1>1, <1>2, <1>3, <1>4, StackFacts
<1>6. visited' \ Range(visits') = visited \ Range(visits)
    BY <1>2, <1>3, <1>4, <1>5
<1>7. pred' = pred /\ succ' = succ /\ DOMAIN functions' = DOMAIN functions
    BY DEF graphVars
<1>8. e \in Reached(current) /\ t \in Range(pred[e])
    <2>1. t \in Reached(current) /\ t \in BlocksOf(current)
        BY <1>1, <1>4, ReachedFacts DEF Graph
    <2>2. e \in Reached(current)
        BY <1>1, <1>2, <2>1, ReachedFacts DEF Graph
    <2>3. t \in Range(pred[e])
        BY <1>1, <1>2, <2>1 DEF Graph, GraphInv, EdgesAgree, Functions
    <2>4. QED
        BY <2>2, <2>3
<1>9. DfsInv'
    <2>1. /\ n + 1 = Len(visits') /\ visits'[n + 1] = e
          /\ \A k \in 1 .. n : visits'[k] = visits[k]
        BY <1>1, <1>3
    <2>2. visits'[1] = Entry(current)' /\ Entry(current)' \in visited'
        BY <1>1, <1>3, <1>4, <2>1, GraphStill
    <2>3. ASSUME NEW k \in 2 .. Len(visits')
          PROVE  visits'[k - 1] \in Range(pred'[visits'[k]])
        <3>1. CASE k \in 2 .. n
            <4>1. k \in 1 .. n /\ k - 1 \in 1 .. n
                BY <1>1, <3>1
            <4>2. QED
                BY <1>4, <1>7, <2>1, <3>1, <4>1
        <3>2. CASE k = n + 1
            <4>1. visits'[k - 1] = t /\ visits'[k] = e
                BY <1>1, <2>1, <3>2
            <4>2. QED
                BY <1>7, <1>8, <4>1
        <3>3. QED
            BY <1>1, <2>1, <3>1, <3>2
    <2>4. ASSUME NEW b \in visited' \ Range(visits')
          PROVE  /\ Range(succ'[b]) \subseteq visited' /\ b # Entry(current)'
                 /\ \E p \in Range(pred'[b]) : p \in Range(visits') \/ Ahead(p, b)'
        <3>1. b \in visited \ Range(visits)
            BY <1>6
        <3>2. Range(succ[b]) \subseteq visited /\ b # Entry(current)
            BY <1>1, <3>1 DEF DfsInv
        <3>3. PICK p \in Range(pred[b]) : p \in Range(visits) \/ Ahead(p, b)
            BY <1>1, <3>1, <3>2 DEF DfsInv
        <3>4. Ahead(p, b)' <=> Ahead(p, b)
            BY <1>3 DEF Ahead
        <3>5. QED
            BY <1>3, <1>5, <1>7, <3>2, <3>3, <3>4, GraphStill
    <2>5. visited' \subseteq Reached(current)'
        BY <1>3, <1>4, <1>8, GraphStill
    <2>6. QED
        BY <1>3, <1>4, <1>5, <2>2, <2>3, <2>4, <2>5 DEF DfsInv
<1>10. OrderInv'
    <2>1. Walked' = Walked
        BY <1>3 DEF Walked
    <2>2. \A f : NumberedOf(f)' = NumberedOf(f)
        BY <1>3, <1>6, <2>1, GraphStill DEF NumberedOf
    <2>3. Numbered' = Numbered /\ \A a, b : Ahead(a, b)' <=> Ahead(a, b)
        BY <1>3 DEF Numbered, Ahead
    <2>4. QED
        BY <1>3, <1>7, <2>1, <2>2, <2>3, GraphStill DEF OrderInv
<1>11. QED
    BY <1>9, <1>10

\* A visit returns, and its block gets the next number.
LEMMA ReturnOrder ==
    ASSUME Graph, WalkInv, OrderInv, DfsInv, UNCHANGED graphVars, DfsReturn
    PROVE  OrderInv' /\ DfsInv'
<1>0. Last(visits) \in Blocks
    BY WalkBlocks DEF DfsReturn
<1> PICK t \in Blocks : t = Last(visits)
    BY <1>0
<1> DEFINE n == Len(visits)
<1>1. /\ visits \in Seq(Blocks) /\ visits # <<>> /\ t \in Range(visits) /\ t \in Blocks
      /\ n \in Nat \ {0} /\ DOMAIN visits = 1 .. n /\ t = visits[n]
      /\ current \in DOMAIN functions /\ stage = "dfs" /\ postOrder \in Seq(Blocks)
    <2>1. /\ visits \in Seq(Blocks) /\ visits # <<>> /\ stage = "dfs" /\ current \in DOMAIN functions
          /\ postOrder \in Seq(Blocks)
        BY DEF DfsReturn, WalkInv, WalkTypeOK, IdomTyped
    <2>2. n \in Nat \ {0} /\ DOMAIN visits = 1 .. n /\ t = visits[n]
        BY <2>1 DEF Last
    <2>3. QED
        BY <2>1, <2>2, RangeTyped DEF Range
<1>2. Range(succ[t]) \subseteq visited
    <2>1. succ[t] \in Seq(Blocks)
        BY <1>1, ListFacts DEF WalkInv
    <2>2. Range(Unvisited(t)) = Range(succ[t]) \ visited
        BY <2>1, WithoutFacts DEF Unvisited
    <2>3. Range(Unvisited(t)) = {}
        BY DEF DfsReturn, Range
    <2>4. QED
        BY <2>2, <2>3
<1>3. /\ visits' = Front(visits) /\ postOrder' = Append(postOrder, t)
      /\ UNCHANGED <<stage, current, visited>>
    BY DEF DfsReturn
<1>4. /\ IsInjective(visits) /\ Range(visits) \subseteq visited /\ visited \subseteq Reached(current)
      /\ Entry(current) \in visited /\ visits[1] = Entry(current)
      /\ \A k \in 2 .. n : visits[k - 1] \in Range(pred[visits[k]])
    BY <1>1 DEF DfsInv
<1>5. IsInjective(visits') /\ Range(visits') = Range(visits) \ {t}
    BY <1>1, <1>3, <1>4, StackFacts
<1>6. /\ n - 1 = Len(visits') /\ DOMAIN visits' = 1 .. n - 1
      /\ \A k \in 1 .. n - 1 : visits'[k] = visits[k]
    BY <1>1, <1>3, FrontFacts
<1> HIDE DEF n
<1>7. visited' \ Range(visits') = (visited \ Range(visits)) \cup {t}
    BY <1>1, <1>3, <1>4, <1>5
<1>8. pred' = pred /\ succ' = succ /\ DOMAIN functions' = DOMAIN functions
    BY DEF graphVars
<1>9. t \in BlocksOf(current) /\ t \notin Numbered
    <2>1. t \in BlocksOf(current)
        BY <1>1, <1>4, ReachedFacts DEF Graph
    <2>2. current \notin Walked
        BY <1>1 DEF Walked, WalkInv, FlowGraphTypeOK
    <2>3. Numbered \cap BlocksOf(current) = visited \ Range(visits)
        BY <1>1, <2>2 DEF OrderInv, NumberedOf
    <2>4. QED
        BY <1>1, <2>1, <2>3
<1>10. /\ Numbered' = Numbered \cup {t}
       /\ \A a, b : Ahead(a, b) => Ahead(a, b)'
       /\ \A b \in Numbered : Ahead(t, b)'
       /\ IsInjective(postOrder')
    <2>1. postOrder \in Seq(Blocks) /\ t \in Blocks /\ postOrder' = Append(postOrder, t)
        BY <1>1, <1>3
    <2>2. IsInjective(postOrder)
        BY DEF OrderInv
    <2>3. QED
        BY <1>9, <2>1, <2>2, AheadGrows
<1>11. DfsInv'
    <2>1. visits' # <<>> => visits'[1] = Entry(current)'
        <3>1. visits' # <<>> => 1 \in 1 .. n - 1
            BY <1>1, <1>3, <1>6
        <3>2. QED
            BY <1>3, <1>4, <1>6, <3>1, GraphStill
    <2>2. ASSUME NEW k \in 2 .. Len(visits')
          PROVE  visits'[k - 1] \in Range(pred'[visits'[k]])
        <3>1. k \in 1 .. n - 1 /\ k - 1 \in 1 .. n - 1 /\ k \in 2 .. n
            BY <1>1, <1>6
        <3>2. QED
            BY <1>4, <1>6, <1>8, <3>1
    <2>3. ASSUME NEW b \in visited' \ Range(visits')
          PROVE  /\ Range(succ'[b]) \subseteq visited'
                 /\ b # Entry(current)' => \E p \in Range(pred'[b]) : p \in Range(visits') \/ Ahead(p, b)'
                 /\ b = Entry(current)' => visits' = <<>>
        <3>1. Entry(current)' = Entry(current)
            BY <1>3, GraphStill
        <3>2. CASE b = t
            <4>1. ASSUME b # Entry(current)
                  PROVE  \E p \in Range(pred[b]) : p \in Range(visits')
                <5>1. n # 1
                    BY <1>1, <1>4, <3>2, <4>1
                <5>2. n \in 2 .. n /\ n - 1 \in 1 .. n - 1
                    BY <1>1, <5>1
                <5>3. visits[n - 1] \in Range(pred[t])
                    BY <1>1, <1>4, <5>2
                <5>4. visits[n - 1] \in Range(visits')
                    BY <1>6, <5>2 DEF Range
                <5>5. QED
                    BY <3>2, <5>3, <5>4
            <4>2. ASSUME b = Entry(current)
                  PROVE  visits' = <<>>
                <5>1. visits[1] = visits[n] /\ 1 \in DOMAIN visits /\ n \in DOMAIN visits
                    BY <1>1, <1>4, <3>2, <4>2
                <5>2. n = 1
                    BY <1>4, <5>1 DEF IsInjective
                <5>3. Len(visits') = 0 /\ visits' \in Seq(Blocks)
                    BY <1>1, <1>3, <1>6, <5>2, FrontFacts
                <5>4. QED
                    BY <5>3
            <4>3. QED
                BY <1>2, <1>3, <1>8, <3>1, <3>2, <4>1, <4>2
        <3>3. CASE b \in visited \ Range(visits)
            <4>1. Range(succ[b]) \subseteq visited /\ b # Entry(current)
                BY <1>1, <3>3 DEF DfsInv
            <4>2. PICK p \in Range(pred[b]) : p \in Range(visits) \/ Ahead(p, b)
                BY <1>1, <3>3, <4>1 DEF DfsInv
            <4>3. b \in Numbered
                <5>1. b \in BlocksOf(current)
                    BY <1>1, <1>4, <3>3, ReachedFacts DEF Graph
                <5>2. current \notin Walked
                    BY <1>1 DEF Walked, WalkInv, FlowGraphTypeOK
                <5>3. QED
                    BY <1>1, <3>3, <5>1, <5>2 DEF OrderInv, NumberedOf
            <4>4. p \in Range(visits') \/ Ahead(p, b)'
                <5>1. CASE Ahead(p, b)
                    BY <1>10, <5>1
                <5>2. CASE p = t
                    BY <1>10, <4>3, <5>2
                <5>3. CASE p \in Range(visits) /\ p # t
                    BY <1>5, <5>3
                <5>4. QED
                    BY <4>2, <5>1, <5>2, <5>3
            <4>5. QED
                BY <1>3, <1>8, <3>1, <4>1, <4>2, <4>4
        <3>4. QED
            BY <1>7, <3>2, <3>3
    <2>4. visited' \subseteq Reached(current)' /\ Entry(current)' \in visited'
        BY <1>3, <1>4, GraphStill
    <2>5. Range(visits') \subseteq visited'
        BY <1>3, <1>4, <1>5
    <2>6. QED
        BY <1>5, <2>1, <2>2, <2>3, <2>4, <2>5 DEF DfsInv
<1>12. OrderInv'
    <2>1. Walked' = Walked
        BY <1>3 DEF Walked
    <2>2. ASSUME NEW f \in DOMAIN functions
          PROVE  (Numbered \cap BlocksOf(f) = NumberedOf(f))'
        <3>1. Numbered \cap BlocksOf(f) = NumberedOf(f) /\ BlocksOf(f)' = BlocksOf(f)
            BY GraphStill DEF OrderInv
        <3>2. CASE f = current
            <4>1. current \notin Walked
                BY <1>1 DEF Walked, WalkInv, FlowGraphTypeOK
            <4>2. /\ NumberedOf(f) = visited \ Range(visits)
                  /\ NumberedOf(f)' = visited' \ Range(visits')
                BY <1>1, <1>3, <2>1, <3>2, <4>1 DEF NumberedOf
            <4>3. QED
                BY <1>7, <1>9, <1>10, <3>1, <3>2, <4>2
        <3>3. CASE f # current
            <4>1. NumberedOf(f)' = NumberedOf(f)
                BY <1>3, <2>1, <3>3, GraphStill DEF NumberedOf
            <4>2. t \notin BlocksOf(f)
                BY <1>1, <1>9, <3>3 DEF Graph, GraphInv, Apart
            <4>3. QED
                BY <1>10, <3>1, <4>1, <4>2
        <3>4. QED
            BY <3>2, <3>3
    <2>3. Numbered' \subseteq UNION {BlocksOf(f)' : f \in DOMAIN functions}
        BY <1>1, <1>9, <1>10, GraphStill DEF OrderInv
    <2>4. ASSUME NEW f \in Walked, NEW b \in Reached(f) \ {Entry(f)}
          PROVE  \E p \in Range(pred'[b]) : Ahead(p, b)'
        BY <1>8, <1>10 DEF OrderInv
    <2>5. QED
        BY <1>8, <1>10, <2>1, <2>2, <2>3, <2>4, GraphStill DEF OrderInv
<1>13. QED
    BY <1>11, <1>12

\* The last visit has returned: everything that is reached was visited.
LEMMA FinishOrder ==
    ASSUME Graph, WalkInv, OrderInv, DfsInv, UNCHANGED graphVars, StartIdom
    PROVE  OrderInv' /\ DfsInv'
<1>1. /\ stage = "dfs" /\ stage' = "idom" /\ visits = <<>> /\ current \in DOMAIN functions
      /\ DOMAIN functions = 1 .. Len(functions)
      /\ UNCHANGED <<current, postOrder>>
    BY DEF StartIdom, WalkInv, WalkTypeOK, FlowGraphTypeOK
<1>2. visited \ Range(visits) = visited
    BY <1>1 DEF Range
<1>3. visited = Reached(current)
    <2>1. visited \subseteq Reached(current) /\ Entry(current) \in visited
        BY <1>1 DEF DfsInv
    <2>2. \A x \in visited : Range(succ[x]) \subseteq visited
        BY <1>1, <1>2 DEF DfsInv
    <2>3. Reached(current) \subseteq visited
        BY <1>1, <2>1, <2>2, ReachedFacts DEF Graph
    <2>4. QED
        BY <2>1, <2>3
<1>4. Walked' = Walked \cup {current} /\ current \notin Walked
    BY <1>1 DEF Walked
<1>5. \A f \in DOMAIN functions : NumberedOf(f)' = NumberedOf(f)
    <2>1. ASSUME NEW f \in DOMAIN functions
          PROVE  NumberedOf(f)' = NumberedOf(f)
        <3>1. Reached(f)' = Reached(f)
            BY GraphStill
        <3>2. CASE f \in Walked
            BY <1>4, <3>1, <3>2 DEF NumberedOf
        <3>3. CASE f = current
            BY <1>1, <1>2, <1>3, <1>4, <3>1, <3>3 DEF NumberedOf
        <3>4. CASE f \notin Walked /\ f # current
            BY <1>1, <1>4, <3>4 DEF NumberedOf
        <3>5. QED
            BY <3>2, <3>3, <3>4
    <2>2. QED
        BY <2>1
<1>6. Numbered' = Numbered /\ \A a, b : Ahead(a, b)' <=> Ahead(a, b)
    BY <1>1 DEF Numbered, Ahead
<1>7. pred' = pred /\ DOMAIN functions' = DOMAIN functions
    BY DEF graphVars
<1>8. ASSUME NEW b \in Reached(current) \ {Entry(current)}
      PROVE  \E p \in Range(pred[b]) : Ahead(p, b)
    <2>1. \E p \in Range(pred[b]) : p \in Range(visits) \/ Ahead(p, b)
        BY <1>1, <1>2, <1>3 DEF DfsInv
    <2>2. QED
        BY <1>1, <2>1 DEF Range
<1>9. OrderInv'
    <2>1. \A f \in Walked' : \A b \in Reached(f) \ {Entry(f)} : \E p \in Range(pred[b]) : Ahead(p, b)
        BY <1>4, <1>8 DEF OrderInv
    <2>2. QED
        BY <1>1, <1>5, <1>6, <1>7, <2>1, GraphStill DEF OrderInv
<1>10. QED
    BY <1>1, <1>9 DEF DfsInv

\* A new function: none of its blocks has a number.
LEMMA BeginOrder ==
    ASSUME Graph, WalkInv, OrderInv, UNCHANGED graphVars, NEW f \in DOMAIN functions,
           current = f - 1, RunOnFunc(f)
    PROVE  OrderInv' /\ DfsInv'
<1>1. /\ stage = "done" /\ stage' = "dfs" /\ current' = f /\ postOrder' = postOrder
      /\ visits' = <<Entry(f)>> /\ visited' = {Entry(f)}
      /\ DOMAIN functions = 1 .. Len(functions) /\ Len(functions) \in Nat
    BY DEF RunOnFunc, WalkInv, FlowGraphTypeOK
<1>2. Range(visits') = {Entry(f)} /\ IsInjective(visits') /\ Len(visits') = 1
    BY <1>1 DEF Range, IsInjective
<1>3. Walked' = Walked /\ f \notin Walked
    BY <1>1 DEF Walked
<1>4. \A g : NumberedOf(g)' = NumberedOf(g)
    <2>1. ASSUME NEW g
          PROVE  NumberedOf(g)' = NumberedOf(g)
        <3>1. CASE g \in Walked
            BY <1>3, <3>1, GraphStill DEF NumberedOf
        <3>2. CASE g \notin Walked
            BY <1>1, <1>2, <1>3, <3>2 DEF NumberedOf
        <3>3. QED
            BY <3>1, <3>2
    <2>2. QED
        BY <2>1
<1>5. Numbered' = Numbered /\ \A a, b : Ahead(a, b)' <=> Ahead(a, b)
    BY <1>1 DEF Numbered, Ahead
<1>6. pred' = pred /\ DOMAIN functions' = DOMAIN functions
    BY DEF graphVars
<1>7. OrderInv'
    BY <1>1, <1>3, <1>4, <1>5, <1>6, GraphStill DEF OrderInv
<1>8. DfsInv'
    <2>1. Entry(f) \in Reached(f)
        BY ReachedFacts DEF Graph
    <2>2. Entry(current)' = Entry(f) /\ Reached(current)' = Reached(f)
        BY <1>1, GraphStill
    <2>3. visits'[1] = Entry(f) /\ visited' \ Range(visits') = {}
        BY <1>1, <1>2
    <2>4. \A k \in 2 .. Len(visits') : FALSE
        BY <1>2
    <2>5. QED
        BY <1>1, <1>2, <2>1, <2>2, <2>3, <2>4 DEF DfsInv
<1>9. QED
    BY <1>7, <1>8

\* The other routines number no block.
LEMMA OrderKept ==
    ASSUME OrderInv, UNCHANGED graphVars, UNCHANGED <<current, postOrder>>,
           stage # "dfs", stage' # "dfs"
    PROVE  OrderInv' /\ DfsInv'
<1>1. Walked' = Walked
    BY DEF Walked
<1>2. \A f : NumberedOf(f)' = NumberedOf(f)
    BY <1>1, GraphStill DEF NumberedOf
<1>3. Numbered' = Numbered /\ \A a, b : Ahead(a, b)' <=> Ahead(a, b)
    BY DEF Numbered, Ahead
<1>4. pred' = pred /\ DOMAIN functions' = DOMAIN functions
    BY DEF graphVars
<1>5. OrderInv'
    BY <1>1, <1>2, <1>3, <1>4, GraphStill DEF OrderInv
<1>6. QED
    BY <1>5 DEF DfsInv

Numbering == pass = "loops" => current = cursor /\ OrderInv /\ DfsInv

LEMMA NumberingStep ==
    ASSUME ProgramInv, AnalysisInv, EntryInv, Numbering, [Next]_vars
    PROVE  Numbering'
<1>1. Graph
    BY DEF Graph, GraphInv, ProgramInv, BuilderInv, BuilderTypeOK, EntryInv
<1>2. CASE StartLoopDetection
    <2>1. /\ current' = 0 /\ cursor' = 0 /\ stage' = "done" /\ postOrder' = <<>>
        BY <1>2 DEF StartLoopDetection, NewDominators
    <2>2. Walked' = {} /\ Numbered' = {} /\ IsInjective(postOrder')
        BY <2>1 DEF Walked, Numbered, Range, IsInjective
    <2>3. \A f : NumberedOf(f)' = {}
        BY <2>1, <2>2 DEF NumberedOf
    <2>4. QED
        BY <2>1, <2>2, <2>3 DEF Numbering, OrderInv, DfsInv
<1>3. CASE NextFunction
    <2>1. /\ WalkInv /\ current = cursor /\ OrderInv /\ UNCHANGED graphVars /\ pass = "loops"
          /\ cursor < Len(functions) /\ cursor' = cursor + 1 /\ RunOnFunc(cursor + 1)
        BY <1>3 DEF AnalysisInv, Numbering, NextFunction, bvars, graphVars
    <2>2. cursor \in Nat /\ cursor + 1 \in DOMAIN functions
        BY <2>1 DEF WalkInv, WalkTypeOK, FlowGraphTypeOK
    <2> DEFINE f == cursor + 1
    <2>3. f \in DOMAIN functions /\ current = f - 1 /\ RunOnFunc(f)
        BY <2>1, <2>2
    <2>4. current' = cursor'
        BY <2>1 DEF RunOnFunc
    <2> HIDE DEF f
    <2>5. OrderInv' /\ DfsInv'
        BY <1>1, <2>1, <2>3, BeginOrder
    <2>6. QED
        BY <2>4, <2>5 DEF Numbering
<1>4. CASE Analyse
    <2>1. /\ WalkInv /\ UNCHANGED <<cursor, graphVars>> /\ UNCHANGED graphVars
          /\ current = cursor /\ OrderInv /\ DfsInv
        BY <1>4 DEF AnalysisInv, Numbering, Analyse, bvars, graphVars
    <2>2. CASE DfsEnter \/ DfsReturn \/ StartIdom
        <3>1. OrderInv' /\ DfsInv'
            BY <1>1, <2>1, <2>2, EnterOrder, ReturnOrder, FinishOrder
        <3>2. current' = current
            BY <2>2 DEF DfsEnter, DfsReturn, StartIdom
        <3>3. QED
            BY <2>1, <3>1, <3>2 DEF Numbering
    <2>3. CASE /\ UNCHANGED <<current, postOrder>>
               /\ (stage # "dfs" /\ stage' # "dfs") \/ UNCHANGED dvars
        <3>1. CASE stage # "dfs" /\ stage' # "dfs"
            BY <2>1, <2>3, <3>1, OrderKept DEF Numbering
        <3>2. CASE UNCHANGED dvars
            <4>1. UNCHANGED <<current, stage, postOrder, visits, visited>>
                BY <3>2 DEF dvars, domMaps, domLocals
            <4>2. Walked' = Walked /\ Numbered' = Numbered /\ \A a, b : Ahead(a, b)' <=> Ahead(a, b)
                BY <4>1 DEF Walked, Numbered, Ahead
            <4>3. \A f : NumberedOf(f)' = NumberedOf(f)
                BY <2>1, <4>1, <4>2, GraphStill DEF NumberedOf
            <4>4. pred' = pred /\ succ' = succ /\ DOMAIN functions' = DOMAIN functions
                BY <2>1 DEF graphVars
            <4>5. OrderInv'
                BY <2>1, <4>1, <4>2, <4>3, <4>4, GraphStill DEF OrderInv
            <4>6. DfsInv'
                BY <2>1, <4>1, <4>2, <4>4, GraphStill DEF DfsInv
            <4>7. QED
                BY <2>1, <4>1, <4>5, <4>6 DEF Numbering
        <3>3. QED
            BY <2>3, <3>1, <3>2
    <2>4. CASE IdomOfBlock \/ SweepAgain \/ StartFrontier \/ FrontierOfBlock
               \/ CreateTree \/ TreeEnter \/ TreeReturn
        BY <2>3, <2>4 DEF IdomOfBlock, SweepAgain, StartFrontier, FrontierOfBlock,
                          CreateTree, TreeEnter, TreeReturn, domMaps
    <2>5. CASE StartLoops
        BY <2>3, <2>5 DEF StartLoops, FinishFunc, domMaps
    <2>6. CASE LoopStep /\ UNCHANGED dvars
        BY <2>3, <2>6 DEF dvars, domMaps
    <2>7. QED
        BY <1>4, <2>2, <2>4, <2>5, <2>6 DEF Analyse, DominatorsStep
<1>5. CASE pass' # "loops"
    BY <1>5 DEF Numbering
<1>6. CASE UNCHANGED vars
    <2>1. UNCHANGED <<current, cursor, pass, stage, postOrder, visits, visited, functions, succ, pred>>
        BY <1>6 DEF vars, bvars, graphVars, dvars, domMaps, domLocals
    <2>2. UNCHANGED graphVars
        BY <2>1 DEF graphVars
    <2>3. Walked' = Walked /\ Numbered' = Numbered /\ \A a, b : Ahead(a, b)' <=> Ahead(a, b)
        BY <2>1 DEF Walked, Numbered, Ahead
    <2>4. \A f : NumberedOf(f)' = NumberedOf(f)
        BY <2>1, <2>2, <2>3, GraphStill DEF NumberedOf
    <2>5. OrderInv => OrderInv'
        BY <2>1, <2>2, <2>3, <2>4, GraphStill DEF OrderInv
    <2>6. DfsInv => DfsInv'
        BY <2>1, <2>2, <2>3, GraphStill DEF DfsInv
    <2>7. QED
        BY <2>1, <2>5, <2>6 DEF Numbering
<1>7. QED
    <2>1. CASE Build \/ StartDeadCode \/ ClearBasicBlocks \/ ClearAgain
        BY <1>5, <2>1 DEF Build, StartDeadCode, ClearBasicBlocks, ClearAgain, Numbering
    <2>2. QED
        BY <1>2, <1>3, <1>4, <1>6, <2>1 DEF Next, Passes, Rest

LEMMA NumberingHolds == Spec => []Numbering
<1>1. Init => Numbering
    BY DEF Init, Numbering
<1>2. Init => AnalysisInv
    BY DEF Init, AnalysisInv
<1>3. ProgramInv /\ AnalysisInv /\ [Next]_vars => AnalysisInv'
    BY AnalysisStep
<1>4. ProgramInv /\ AnalysisInv /\ EntryInv /\ Numbering /\ [Next]_vars => Numbering'
    BY NumberingStep
<1>5. QED
    BY <1>1, <1>2, <1>3, <1>4, ProgramInvariant, EntryInvariant, PTL DEF Spec

-----------------------------------------------------------------------------
\* The order of the numbers.
LEMMA AheadFacts ==
    ASSUME postOrder \in Seq(Blocks), IsInjective(postOrder)
    PROVE  /\ \A a, b : Ahead(a, b) => a \in Numbered /\ b \in Numbered /\ ~Ahead(b, a) /\ a # b
           /\ \A a, b, c : Ahead(a, b) /\ Ahead(b, c) => Ahead(a, c)
           /\ \A a, b \in Numbered : Ahead(a, b) <=> Number(b) < Number(a)
           /\ \A a, b \in Numbered : a = b \/ Ahead(a, b) \/ Ahead(b, a)
<1> DEFINE D == DOMAIN postOrder
<1>1. D \subseteq Nat /\ \A i, j \in D : postOrder[i] = postOrder[j] => i = j
    BY DEF IsInjective
<1>2. \A b \in Numbered : Number(b) \in D /\ postOrder[Number(b)] = b
    BY NumberFacts
<1> HIDE DEF D
<1>3. \A a, b : Ahead(a, b) <=> \E i, j \in D : j < i /\ postOrder[i] = a /\ postOrder[j] = b
    BY DEF Ahead, D
<1>4. \A i \in D : postOrder[i] \in Numbered
    BY DEF D, Numbered, Range
<1>5. ASSUME NEW a, NEW b, Ahead(a, b)
      PROVE  a \in Numbered /\ b \in Numbered /\ Number(b) < Number(a)
    <2>1. PICK i \in D, j \in D : j < i /\ postOrder[i] = a /\ postOrder[j] = b
        BY <1>3, <1>5
    <2>2. a \in Numbered /\ b \in Numbered
        BY <1>4, <2>1
    <2>3. Number(a) = i /\ Number(b) = j
        BY <1>1, <1>2, <2>1, <2>2
    <2>4. QED
        BY <2>1, <2>2, <2>3
<1>6. ASSUME NEW a \in Numbered, NEW b \in Numbered, Number(b) < Number(a)
      PROVE  Ahead(a, b)
    BY <1>2, <1>3, <1>6
<1>7. \A a \in Numbered : Number(a) \in Nat
    BY <1>1, <1>2
<1>8. \A a, b : Ahead(a, b) => ~Ahead(b, a) /\ a # b
    BY <1>5, <1>7
<1>9. ASSUME NEW a, NEW b, NEW c, Ahead(a, b), Ahead(b, c)
      PROVE  Ahead(a, c)
    <2>1. /\ a \in Numbered /\ b \in Numbered /\ c \in Numbered
          /\ Number(b) < Number(a) /\ Number(c) < Number(b)
        BY <1>5, <1>9
    <2>2. Number(c) < Number(a)
        BY <1>7, <2>1
    <2>3. QED
        BY <1>6, <2>1, <2>2
<1>10. ASSUME NEW a \in Numbered, NEW b \in Numbered, a # b, ~Ahead(a, b)
       PROVE  Ahead(b, a)
    <2>1. Number(a) # Number(b) /\ ~(Number(b) < Number(a))
        BY <1>2, <1>6, <1>10
    <2>2. Number(a) < Number(b)
        BY <1>7, <2>1
    <2>3. QED
        BY <1>6, <2>2
<1>11. QED
    BY <1>5, <1>6, <1>8, <1>9, <1>10

\* Induction from the highest number down.
LEMMA FromAbove ==
    ASSUME postOrder \in Seq(Blocks), IsInjective(postOrder), NEW Good,
           \A b \in Numbered : (\A a \in Numbered : Ahead(a, b) => a \in Good) => b \in Good
    PROVE  Numbered \subseteq Good
<1> DEFINE n == Len(postOrder)
           T == {k \in 0 .. n : \A i \in 1 .. n : n - k < i => postOrder[i] \in Good}
<1>1. n \in Nat /\ DOMAIN postOrder = 1 .. n
    OBVIOUS
<1>2. \A i, j \in 1 .. n : postOrder[i] = postOrder[j] => i = j
    BY <1>1 DEF IsInjective
<1>3. \A i \in 1 .. n : postOrder[i] \in Numbered
    BY <1>1 DEF Numbered, Range
<1>4. \A a, b : Ahead(a, b) <=> \E i, j \in 1 .. n : j < i /\ postOrder[i] = a /\ postOrder[j] = b
    BY <1>1 DEF Ahead
<1> HIDE DEF n
<1>5. T \in SUBSET (0 .. n) /\ 0 \in T
    BY <1>1
<1>6. ASSUME NEW k \in T, k < n
      PROVE  k + 1 \in T
    <2>1. k \in Nat /\ k + 1 \in 0 .. n /\ \A i \in 1 .. n : n - k < i => postOrder[i] \in Good
        BY <1>1, <1>6
    <2>2. ASSUME NEW i \in 1 .. n, n - (k + 1) < i
          PROVE  postOrder[i] \in Good
        <3>1. CASE n - k < i
            BY <2>1, <3>1
        <3>2. CASE i = n - k
            <4>1. ASSUME NEW a \in Numbered, Ahead(a, postOrder[i])
                  PROVE  a \in Good
                <5>1. PICK x \in 1 .. n, y \in 1 .. n :
                          y < x /\ postOrder[x] = a /\ postOrder[y] = postOrder[i]
                    BY <1>4, <4>1
                <5>2. y = i
                    BY <1>2, <5>1
                <5>3. n - k < x
                    BY <3>2, <5>1, <5>2
                <5>4. QED
                    BY <2>1, <5>1, <5>3
            <4>2. QED
                BY <1>3, <4>1
        <3>3. QED
            BY <1>1, <2>1, <2>2, <3>1, <3>2
    <2>3. QED
        BY <2>1, <2>2
<1>7. n \in T
    <2> HIDE DEF T
    <2>1. \A i \in 0 .. n : i \in T
        BY <1>1, <1>5, <1>6, IntervalAll
    <2>2. QED
        BY <1>1, <2>1
<1>8. \A i \in 1 .. n : postOrder[i] \in Good
    BY <1>1, <1>7
<1>9. QED
    BY <1>1, <1>8 DEF Numbered, Range

\* Every path of the function to block b goes through block d.
Over(f, d, b) == d \in Reached(f) /\ b \in Reached(f) \ ReachedWithout(Entry(f), d)

LEMMA WithoutReached ==
    ASSUME Graph, NEW f \in DOMAIN functions, NEW d
    PROVE  LET R == ReachedWithout(Entry(f), d) IN
           /\ d \notin R /\ (d # Entry(f) => Entry(f) \in R) /\ (d = Entry(f) => R = {})
           /\ \A x \in R : Range(succ[x]) \ {d} \subseteq R
           /\ \A S : Entry(f) \in S /\ (\A x \in S \cap R : Range(succ[x]) \ {d} \subseteq S) => R \subseteq S
<1> DEFINE R == ReachedWithout(Entry(f), d)
<1>1. FlowGraphTypeOK /\ Entry(f) \in Blocks
    BY ListFacts DEF Graph, GraphInv
<1>2. /\ d \notin R /\ (d # Entry(f) => Entry(f) \in R)
      /\ \A x \in R : Range(succ[x]) \ {d} \subseteq R
      /\ \A S : Entry(f) \in S /\ (\A x \in S \cap R : Range(succ[x]) \ {d} \subseteq S) => R \subseteq S
    BY <1>1, ReachFacts
<1> HIDE DEF R
<1>3. ASSUME d = Entry(f)
      PROVE  R = {}
    <2> DEFINE S == {Entry(f)}
    <2>1. Entry(f) \in S /\ \A x \in S \cap R : Range(succ[x]) \ {d} \subseteq S
        BY <1>2, <1>3
    <2>2. R \subseteq S
        BY <1>2, <2>1
    <2>3. QED
        BY <1>2, <1>3, <2>2
<1>4. QED
    BY <1>2, <1>3 DEF R

LEMMA OverFacts ==
    ASSUME Graph, NEW f \in DOMAIN functions
    PROVE  /\ \A b \in Reached(f) : Over(f, b, b) /\ Over(f, Entry(f), b)
           /\ \A d, b : Over(f, d, b) => d \in Reached(f) /\ b \in Reached(f)
           /\ \A d : Over(f, d, Entry(f)) => d = Entry(f)
           /\ \A d, b : \A p \in Range(pred[b]) \cap Reached(f) : Over(f, d, b) /\ d # b => Over(f, d, p)
           /\ \A d \in Reached(f), b \in Reached(f) \ {Entry(f)} :
                  (\A p \in Range(pred[b]) \cap Reached(f) : Over(f, d, p)) => Over(f, d, b)
           /\ \A d, b, c : Over(f, d, b) /\ Over(f, b, c) => Over(f, d, c)
<1> DEFINE e == Entry(f)
           R(d) == ReachedWithout(Entry(f), d)
<1>1. /\ Reached(f) \subseteq Blocks /\ e \in Reached(f)
      /\ \A b \in Reached(f) : Range(succ[b]) \subseteq Reached(f)
      /\ \A S : e \in S /\ (\A x \in S \cap Reached(f) : Range(succ[x]) \subseteq S) => Reached(f) \subseteq S
    BY ReachedFacts DEF Graph
<1>2. \A b \in Reached(f) : \A p \in Range(pred[b]) : b \in Range(succ[p])
    <2>1. Reached(f) \subseteq BlocksOf(f) /\ EdgesAgree
        BY ReachedFacts DEF Graph, GraphInv
    <2>2. QED
        BY <2>1 DEF EdgesAgree, Functions
<1>3. \A b \in Reached(f) : \A c \in Range(succ[b]) : b \in Range(pred[c])
    <2>1. Reached(f) \subseteq BlocksOf(f) /\ EdgesAgree
        BY ReachedFacts DEF Graph, GraphInv
    <2>2. QED
        BY <2>1 DEF EdgesAgree, Functions
<1>4. \A d, b : Over(f, d, b) <=> d \in Reached(f) /\ b \in Reached(f) /\ b \notin R(d)
    BY DEF Over
<1>5. \A d : /\ d \notin R(d) /\ (d # e => e \in R(d)) /\ (d = e => R(d) = {})
             /\ \A x \in R(d) : Range(succ[x]) \ {d} \subseteq R(d)
             /\ \A S : e \in S /\ (\A x \in S \cap R(d) : Range(succ[x]) \ {d} \subseteq S) => R(d) \subseteq S
    BY WithoutReached
<1> HIDE DEF e, R
<1>6. ASSUME NEW d, NEW b, Over(f, d, b), d # b, NEW p \in Range(pred[b]) \cap Reached(f)
      PROVE  Over(f, d, p)
    <2>1. b \in Range(succ[p]) /\ b \notin R(d)
        BY <1>2, <1>4, <1>6
    <2>2. p \notin R(d)
        BY <1>5, <1>6, <2>1
    <2>3. QED
        BY <1>4, <1>6, <2>2
<1>7. ASSUME NEW d \in Reached(f), NEW b \in Reached(f) \ {e},
             \A p \in Range(pred[b]) \cap Reached(f) : Over(f, d, p)
      PROVE  Over(f, d, b)
    <2> DEFINE S == Reached(f) \cap (R(d) \ {b})
    <2>1. CASE d = e
        BY <1>4, <1>5, <2>1
    <2>2. CASE d # e
        <3>1. e \in S
            BY <1>1, <1>5, <1>7, <2>2
        <3>2. ASSUME NEW x \in S \cap R(d), NEW y \in Range(succ[x]) \ {d}
              PROVE  y \in S
            <4>1. y \in R(d) /\ y \in Reached(f) /\ x \in Range(pred[y]) /\ x \in Reached(f)
                BY <1>1, <1>3, <1>5, <3>2
            <4>2. y # b
                BY <1>4, <1>7, <3>2, <4>1
            <4>3. QED
                BY <4>1, <4>2
        <3>3. R(d) \subseteq S
            <4>1. \A x \in S \cap R(d) : Range(succ[x]) \ {d} \subseteq S
                BY <3>2
            <4> HIDE DEF S
            <4>2. QED
                BY <1>5, <3>1, <4>1
        <3>4. QED
            BY <1>4, <1>7, <3>3
    <2>3. QED
        BY <2>1, <2>2
<1>8. ASSUME NEW d, NEW b, NEW c, Over(f, d, b), Over(f, b, c)
      PROVE  Over(f, d, c)
    <2>1. b \notin R(d) /\ c \notin R(b) /\ d \in Reached(f) /\ c \in Reached(f)
        BY <1>4, <1>8
    <2>2. CASE b = e
        BY <1>4, <1>5, <2>1, <2>2
    <2>3. CASE b # e
        <3>1. \A x \in R(b) \cap R(d) : Range(succ[x]) \ {d} \subseteq R(b)
            BY <1>5, <2>1
        <3>2. R(d) \subseteq R(b)
            BY <1>5, <2>3, <3>1
        <3>3. QED
            BY <1>4, <2>1, <3>2
    <2>4. QED
        BY <2>2, <2>3
<1>9. \A b \in Reached(f) : Over(f, b, b) /\ Over(f, e, b)
    BY <1>1, <1>4, <1>5
<1>10. \A d : Over(f, d, e) => d = e
    BY <1>4, <1>5
<1>11. QED
    BY <1>4, <1>6, <1>7, <1>8, <1>9, <1>10 DEF e

\* The definitions of FlowGraph in these words.
LEMMA DominanceFacts ==
    ASSUME NEW f
    PROVE  /\ \A d, b : <<d, b>> \in Dominance(f) <=> Over(f, d, b)
           /\ \A b : StrictDominators(Dominance(f), b) = {d \in Reached(f) : d # b /\ Over(f, d, b)}
           /\ \A d : DominanceFrontier(Dominance(f), d) =
                  {b \in UNION {Range(succ[p]) : p \in {x \in Reached(f) : Over(f, d, x)}} :
                      ~(d # b /\ Over(f, d, b))}
<1> DEFINE dom == Dominance(f)
           D(d) == {d} \X (Reached(f) \ ReachedWithout(Entry(f), d))
<1>1. \A q : q \in dom <=> \E d \in Reached(f) : q \in D(d)
    BY DEF Dominance
<1>2. \A d, q : q \in D(d) <=>
          \E b \in Reached(f) \ ReachedWithout(Entry(f), d) : q = <<d, b>>
    OBVIOUS
<1> HIDE DEF dom, D
<1>3. \A q : q \in dom <=> \E d, b \in Reached(f) : q = <<d, b>> /\ Over(f, d, b)
    BY <1>1, <1>2 DEF Over
<1>4. \A d, b : <<d, b>> \in dom <=> Over(f, d, b)
    BY <1>3 DEF Over
<1>5. \A q \in dom : Over(f, q[1], q[2])
    <2>1. ASSUME NEW q \in dom
          PROVE  Over(f, q[1], q[2])
        <3>1. PICK d, b \in Reached(f) : q = <<d, b>> /\ Over(f, d, b)
            BY <1>3
        <3>2. q[1] = d /\ q[2] = b
            BY <3>1
        <3>3. QED
            BY <3>1, <3>2
    <2>2. QED
        BY <2>1
<1>6. \A b : StrictDominators(dom, b) = {d \in Reached(f) : d # b /\ Over(f, d, b)}
    <2>1. ASSUME NEW b
          PROVE  StrictDominators(dom, b) = {d \in Reached(f) : d # b /\ Over(f, d, b)}
        <3>1. \A d : d \in StrictDominators(dom, b) <=> \E q \in dom : q[2] = b /\ q[1] # b /\ d = q[1]
            BY DEF StrictDominators
        <3>2. \A d : d \in StrictDominators(dom, b) <=> d # b /\ Over(f, d, b)
            <4>1. ASSUME NEW d, d # b, Over(f, d, b)
                  PROVE  d \in StrictDominators(dom, b)
                <5> DEFINE q == <<d, b>>
                <5>1. q \in dom /\ q[2] = b /\ q[1] = d
                    BY <1>4, <4>1
                <5> HIDE DEF q
                <5>2. QED
                    BY <3>1, <4>1, <5>1
            <4>2. ASSUME NEW d, d \in StrictDominators(dom, b)
                  PROVE  d # b /\ Over(f, d, b)
                <5>1. PICK q \in dom : q[2] = b /\ q[1] # b /\ d = q[1]
                    BY <3>1, <4>2
                <5>2. QED
                    BY <1>5, <5>1
            <4>3. QED
                BY <4>1, <4>2
        <3>3. \A d : Over(f, d, b) => d \in Reached(f)
            BY DEF Over
        <3>4. StrictDominators(dom, b) \subseteq {d \in Reached(f) : d # b /\ Over(f, d, b)}
            BY <3>2, <3>3
        <3>5. {d \in Reached(f) : d # b /\ Over(f, d, b)} \subseteq StrictDominators(dom, b)
            BY <3>2
        <3>6. QED
            BY <3>4, <3>5
    <2>2. QED
        BY <2>1
<1>7. ASSUME NEW d
      PROVE  DominanceFrontier(dom, d) =
                  {b \in UNION {Range(succ[p]) : p \in {x \in Reached(f) : Over(f, d, x)}} :
                      ~(d # b /\ Over(f, d, b))}
    <2> DEFINE U == UNION {Range(succ[p[2]]) : p \in {q \in dom : q[1] = d}}
               V == UNION {Range(succ[p]) : p \in {x \in Reached(f) : Over(f, d, x)}}
    <2>1. U = V
        <3>1. \A b : b \in U <=> \E q \in dom : q[1] = d /\ b \in Range(succ[q[2]])
            OBVIOUS
        <3>2. \A b : b \in V <=> \E x \in Reached(f) : Over(f, d, x) /\ b \in Range(succ[x])
            OBVIOUS
        <3> HIDE DEF U, V
        <3>3. \A b : b \in U <=> b \in V
            <4>1. ASSUME NEW b, b \in U
                  PROVE  b \in V
                <5>1. PICK q \in dom : q[1] = d /\ b \in Range(succ[q[2]])
                    BY <3>1, <4>1
                <5>2. Over(f, d, q[2]) /\ q[2] \in Reached(f)
                    BY <1>5, <5>1 DEF Over
                <5>3. QED
                    BY <3>2, <5>1, <5>2
            <4>2. ASSUME NEW b, b \in V
                  PROVE  b \in U
                <5>1. PICK x \in Reached(f) : Over(f, d, x) /\ b \in Range(succ[x])
                    BY <3>2, <4>2
                <5> DEFINE q == <<d, x>>
                <5>2. q \in dom /\ q[1] = d /\ q[2] = x
                    BY <1>4, <5>1
                <5> HIDE DEF q
                <5>3. QED
                    BY <3>1, <5>1, <5>2
            <4>3. QED
                BY <4>1, <4>2
        <3>4. QED
            BY <3>3
    <2>2. DominanceFrontier(dom, d) = {b \in U : d \notin StrictDominators(dom, b)}
        BY DEF DominanceFrontier
    <2> HIDE DEF U, V
    <2>3. \A b : d \in StrictDominators(dom, b) <=> d # b /\ Over(f, d, b)
        BY <1>6 DEF Over
    <2>4. {b \in U : d \notin StrictDominators(dom, b)} = {b \in V : ~(d # b /\ Over(f, d, b))}
        BY <2>1, <2>3
    <2>5. QED
        BY <2>2, <2>4 DEF V
<1>8. QED
    BY <1>4, <1>6, <1>7 DEF dom

-----------------------------------------------------------------------------
\* What is known of the graph and of the numbers whenever an analysis runs.
Ordered == Graph /\ WalkInv /\ current = cursor /\ OrderInv

LEMMA OrderedTypes ==
    ASSUME Ordered
    PROVE  /\ FlowGraphTypeOK /\ IdomTyped /\ idom \in [Blocks -> Blocks \cup {NoBlock}]
           /\ postOrder \in Seq(Blocks) /\ IsInjective(postOrder)
           /\ DOMAIN functions = 1 .. Len(functions) /\ Len(functions) \in Nat
           /\ stage # "done" => current \in DOMAIN functions
           /\ at \in Nat /\ (stage = "idom" => at <= Len(postOrder))
<1>1. FlowGraphTypeOK /\ WalkTypeOK /\ IsInjective(postOrder)
    BY DEF Ordered, WalkInv, OrderInv
<1>2. DOMAIN functions = 1 .. Len(functions) /\ Len(functions) \in Nat
    BY <1>1 DEF FlowGraphTypeOK
<1>3. IdomTyped /\ at \in Nat /\ (stage = "idom" => at <= Len(postOrder))
      /\ (stage # "done" => current \in DOMAIN functions)
    BY <1>1 DEF WalkTypeOK
<1>4. QED
    BY <1>1, <1>2, <1>3 DEF IdomTyped

\* A strict dominator has the higher number; so has a predecessor on the way
\* the block was found.
LEMMA OrderedFacts ==
    ASSUME Ordered, NEW f \in Walked
    PROVE  /\ f \in DOMAIN functions /\ Reached(f) \subseteq Blocks /\ NoBlock \notin Blocks
           /\ Reached(f) \subseteq Numbered /\ Entry(f) \in Reached(f) /\ pred[Entry(f)] = <<>>
           /\ \A b \in Reached(f) : Range(pred[b]) \cap Numbered \subseteq Reached(f)
           /\ \A b \in Reached(f) : Range(succ[b]) \subseteq Reached(f)
           /\ \A b \in Reached(f) \ {Entry(f)} :
                  \E p \in Range(pred[b]) \cap Reached(f) : Ahead(p, b)
           /\ \A d, b : Over(f, d, b) /\ d # b => Ahead(d, b)
<1>1. f \in DOMAIN functions
    <2>1. current \in 0 .. Len(functions) /\ DOMAIN functions = 1 .. Len(functions)
          /\ Len(functions) \in Nat
        BY DEF Ordered, WalkInv, WalkTypeOK, FlowGraphTypeOK
    <2>2. f \in 1 .. current
        BY <2>1 DEF Walked
    <2>3. QED
        BY <2>1, <2>2
<1>2. /\ Reached(f) \subseteq BlocksOf(f) /\ Reached(f) \subseteq Blocks /\ Entry(f) \in Reached(f)
      /\ \A b \in Reached(f) : Range(succ[b]) \subseteq Reached(f)
    BY <1>1, ReachedFacts DEF Ordered, Graph
<1>3. Numbered \cap BlocksOf(f) = Reached(f)
    BY <1>1 DEF Ordered, OrderInv, NumberedOf
<1>4. \A b \in Reached(f) : Range(pred[b]) \subseteq BlocksOf(f)
    BY <1>1, <1>2 DEF Ordered, Graph, GraphInv, EdgesAgree, Functions
<1>5. \A b \in Reached(f) : Range(pred[b]) \cap Numbered \subseteq Reached(f)
    BY <1>3, <1>4
<1>6. postOrder \in Seq(Blocks) /\ IsInjective(postOrder)
    BY DEF Ordered, WalkInv, WalkTypeOK, IdomTyped, OrderInv
<1>7. \A b \in Reached(f) \ {Entry(f)} : \E p \in Range(pred[b]) \cap Reached(f) : Ahead(p, b)
    <2>1. ASSUME NEW b \in Reached(f) \ {Entry(f)}
          PROVE  \E p \in Range(pred[b]) \cap Reached(f) : Ahead(p, b)
        <3>1. PICK p \in Range(pred[b]) : Ahead(p, b)
            BY DEF Ordered, OrderInv
        <3>2. p \in Numbered
            BY <1>6, <3>1, AheadFacts
        <3>3. QED
            BY <1>5, <3>1, <3>2
    <2>2. QED
        BY <2>1
<1>8. NoBlock \notin Blocks
    BY DEF Blocks, NoBlock
<1>9. ASSUME NEW d
      PROVE  \A b : Over(f, d, b) /\ d # b => Ahead(d, b)
    <2> DEFINE Good == {b \in Numbered : Over(f, d, b) /\ d # b => Ahead(d, b)}
    <2>1. ASSUME NEW b \in Numbered, \A a \in Numbered : Ahead(a, b) => a \in Good
          PROVE  b \in Good
        <3>1. ASSUME Over(f, d, b), d # b
              PROVE  Ahead(d, b)
            <4>1. b \in Reached(f) \ {Entry(f)}
                BY <1>1, <3>1, OverFacts DEF Ordered
            <4>2. PICK p \in Range(pred[b]) \cap Reached(f) : Ahead(p, b)
                BY <1>7, <4>1
            <4>3. Over(f, d, p)
                BY <1>1, <3>1, <4>2, OverFacts DEF Ordered
            <4>4. p \in Good
                BY <1>3, <2>1, <4>2
            <4>5. d = p \/ Ahead(d, p)
                BY <4>3, <4>4
            <4>6. QED
                BY <1>6, <4>2, <4>5, AheadFacts
        <3>2. QED
            BY <3>1
    <2> HIDE DEF Good
    <2>2. Numbered \subseteq Good
        BY <1>6, <2>1, FromAbove
    <2>3. \A b : Over(f, d, b) => b \in Numbered
        BY <1>3 DEF Over
    <2>4. QED
        BY <2>2, <2>3 DEF Good
<1>10. pred[Entry(f)] = <<>>
    BY <1>1 DEF Ordered, Graph, EntryAlone
<1>11. QED
    BY <1>1, <1>2, <1>3, <1>5, <1>7, <1>8, <1>9, <1>10

\* The blocks that have an entry in idom_, and those a block climbs to.
Has == {b \in Blocks : idom[b] # NoBlock}

Above(x) ==
    {d \in Blocks :
        \A S \in SUBSET Blocks : x \in S /\ (\A y \in S \cap Has : idom[y] \in S) => d \in S}

LEMMA AboveFacts ==
    ASSUME IdomTyped, NEW x \in Blocks
    PROVE  /\ x \in Above(x) /\ Above(x) \subseteq Blocks
           /\ \A y \in Above(x) \cap Has : idom[y] \in Above(x)
           /\ \A S : x \in S /\ (\A y \in S \cap Above(x) \cap Has : idom[y] \in S) => Above(x) \subseteq S
<1>1. \A y \in Has : y \in Blocks /\ idom[y] \in Blocks
    BY DEF Has, IdomTyped
<1>2. \A d : d \in Above(x) <=>
          /\ d \in Blocks
          /\ \A S \in SUBSET Blocks : x \in S /\ (\A y \in S \cap Has : idom[y] \in S) => d \in S
    BY DEF Above
<1>3. x \in Above(x) /\ Above(x) \subseteq Blocks
    BY <1>2
<1>4. \A y \in Above(x) \cap Has : idom[y] \in Above(x)
    BY <1>1, <1>2
<1>5. ASSUME NEW S, x \in S, \A y \in S \cap Above(x) \cap Has : idom[y] \in S
      PROVE  Above(x) \subseteq S
    <2> DEFINE T == S \cap Above(x)
    <2>1. T \in SUBSET Blocks /\ x \in T /\ \A y \in T \cap Has : idom[y] \in T
        BY <1>3, <1>4, <1>5
    <2> HIDE DEF T
    <2>2. Above(x) \subseteq T
        BY <1>2, <2>1
    <2>3. QED
        BY <2>2 DEF T
<1>6. QED
    BY <1>3, <1>4, <1>5

\* What the sweeps keep: a block's entry is another block that has one, with a
\* higher number, and every strict dominator of the block dominates it.
ClimbsRight(f, b) ==
    /\ idom[b] \in Has \cap Reached(f) /\ Ahead(idom[b], b)
    /\ \A d : Over(f, d, b) /\ d # b => Over(f, d, idom[b])

IdomInv ==
    /\ Has \subseteq UNION {Reached(f) : f \in Walked}
    /\ \A f \in Walked : idom[Entry(f)] = Entry(f)
    /\ \A f \in Walked : \A b \in (Reached(f) \cap Has) \ {Entry(f)} : ClimbsRight(f, b)

\* The chain of a block, within its function, holds all its dominators.
LEMMA ChainFacts ==
    ASSUME Ordered, IdomInv, NEW f \in Walked, NEW x \in Reached(f) \cap Has
    PROVE  /\ Above(x) \subseteq Reached(f) \cap Has
           /\ \A y \in Above(x) : Above(y) \subseteq Above(x) /\ (y = x \/ Ahead(y, x))
           /\ \A d : Over(f, d, x) => d \in Above(x)
           /\ Above(x) \subseteq {x} \cup Above(idom[x])
           /\ Above(Entry(f)) = {Entry(f)}
<1> DEFINE e == Entry(f)
           W == Reached(f) \cap Has
<1>1. /\ IdomTyped /\ postOrder \in Seq(Blocks) /\ IsInjective(postOrder)
      /\ W \subseteq Blocks /\ Reached(f) \subseteq Numbered /\ e \in Reached(f) /\ f \in DOMAIN functions
    BY OrderedFacts DEF Ordered, WalkInv, WalkTypeOK, IdomTyped, OrderInv
<1>2. idom[e] = e /\ e \in Has
    <2>1. idom[e] = e /\ e \in Blocks
        BY <1>1, OrderedFacts DEF IdomInv
    <2>2. e # NoBlock
        BY <2>1, OrderedFacts
    <2>3. QED
        BY <2>1, <2>2 DEF Has
<1>3. ASSUME NEW y \in W
      PROVE  /\ idom[y] \in W
             /\ y # e => Ahead(idom[y], y) /\ \A d : Over(f, d, y) /\ d # y => Over(f, d, idom[y])
    <2>1. CASE y = e
        BY <1>1, <1>2, <2>1
    <2>2. CASE y # e
        BY <2>2 DEF IdomInv, ClimbsRight
    <2>3. QED
        BY <2>1, <2>2
<1>4. ASSUME NEW y \in W
      PROVE  /\ y \in Above(y) /\ Above(y) \subseteq W
             /\ \A z \in Above(y) : idom[z] \in Above(y)
             /\ \A S : y \in S /\ (\A z \in S \cap Above(y) : idom[z] \in S) => Above(y) \subseteq S
    <2>1. /\ y \in Above(y)
          /\ \A z \in Above(y) \cap Has : idom[z] \in Above(y)
          /\ \A S : y \in S /\ (\A z \in S \cap Above(y) \cap Has : idom[z] \in S) => Above(y) \subseteq S
        BY <1>1, AboveFacts
    <2>2. \A z \in W \cap Above(y) \cap Has : idom[z] \in W
        BY <1>3
    <2> HIDE DEF W
    <2>3. Above(y) \subseteq W
        BY <2>1, <2>2
    <2>4. Above(y) \subseteq Has
        BY <2>3 DEF W
    <2>5. QED
        BY <2>1, <2>3, <2>4
<1> HIDE DEF e, W
<1>5. x \in W /\ e \in W
    BY <1>1, <1>2 DEF W
<1>6. \A y \in Above(x) : Above(y) \subseteq Above(x)
    <2>1. ASSUME NEW y \in Above(x)
          PROVE  Above(y) \subseteq Above(x)
        <3>1. y \in W /\ \A z \in Above(x) : idom[z] \in Above(x)
            BY <1>4, <1>5
        <3>2. QED
            BY <1>4, <3>1
    <2>2. QED
        BY <2>1
<1>7. ASSUME NEW y \in W
      PROVE  \A z \in Above(y) : z = y \/ Ahead(z, y)
    <2> DEFINE S == {z \in Above(y) : z = y \/ Ahead(z, y)}
    <2>1. y \in S
        BY <1>4
    <2>2. ASSUME NEW z \in S \cap Above(y)
          PROVE  idom[z] \in S
        <3>1. z \in W /\ idom[z] \in Above(y)
            BY <1>4
        <3>2. CASE z = e
            BY <1>2, <2>2, <3>2
        <3>3. CASE z # e
            <4>1. Ahead(idom[z], z)
                BY <1>3, <3>1, <3>3
            <4>2. Ahead(idom[z], y)
                BY <1>1, <2>2, <4>1, AheadFacts
            <4>3. QED
                BY <3>1, <4>2
        <3>4. QED
            BY <3>2, <3>3
    <2>3. Above(y) \subseteq S
        <3>1. y \in S /\ \A z \in S \cap Above(y) : idom[z] \in S
            BY <2>1, <2>2
        <3> HIDE DEF S
        <3>2. QED
            BY <1>4, <3>1
    <2>4. QED
        BY <2>3
<1>8. ASSUME NEW d
      PROVE  Over(f, d, x) => d \in Above(x)
    <2> DEFINE Good == {y \in Numbered : y \in W /\ Over(f, d, y) => d \in Above(y)}
    <2>1. ASSUME NEW y \in Numbered, \A a \in Numbered : Ahead(a, y) => a \in Good
          PROVE  y \in Good
        <3>1. ASSUME y \in W, Over(f, d, y)
              PROVE  d \in Above(y)
            <4>1. CASE d = y
                BY <1>4, <3>1, <4>1
            <4>2. CASE d # y
                <5>1. y # e
                    BY <1>1, <3>1, <4>2, OverFacts DEF Ordered, e
                <5>2. idom[y] \in W /\ Ahead(idom[y], y) /\ Over(f, d, idom[y])
                    BY <1>3, <3>1, <4>2, <5>1
                <5>3. idom[y] \in Numbered
                    BY <1>1, <5>2, AheadFacts
                <5>4. d \in Above(idom[y])
                    BY <2>1, <5>2, <5>3
                <5>5. idom[y] \in Above(y)
                    BY <1>4, <3>1
                <5>6. Above(idom[y]) \subseteq Above(y)
                    BY <1>4, <3>1, <5>2, <5>5
                <5>7. QED
                    BY <5>4, <5>6
            <4>3. QED
                BY <4>1, <4>2
        <3>2. QED
            BY <3>1
    <2> HIDE DEF Good
    <2>2. Numbered \subseteq Good
        BY <1>1, <2>1, FromAbove
    <2>3. x \in Numbered
        BY <1>1
    <2>4. QED
        BY <1>5, <2>2, <2>3 DEF Good
<1>9. Above(x) \subseteq {x} \cup Above(idom[x])
    <2> DEFINE S == {x} \cup Above(idom[x])
    <2>1. idom[x] \in W
        BY <1>3, <1>5
    <2>2. x \in S /\ \A z \in S \cap Above(x) : idom[z] \in S
        BY <1>4, <2>1
    <2> HIDE DEF S
    <2>3. Above(x) \subseteq S
        BY <1>4, <1>5, <2>2
    <2>4. QED
        BY <2>3 DEF S
<1>10. Above(e) = {e}
    <2> DEFINE S == {e}
    <2>1. e \in S /\ \A z \in S \cap Above(e) : idom[z] \in S
        BY <1>2 DEF e
    <2> HIDE DEF S
    <2>2. Above(e) \subseteq S
        BY <1>4, <1>5, <2>1
    <2>3. QED
        BY <1>4, <1>5, <2>2 DEF S
<1>11. Above(x) \subseteq Reached(f) \cap Has
    BY <1>4, <1>5 DEF W
<1>12. QED
    BY <1>5, <1>6, <1>7, <1>8, <1>9, <1>10, <1>11 DEF e

\* One step of intersect between two blocks of a function that have entries.
LEMMA ClimbFacts ==
    ASSUME Ordered, IdomInv, NEW f \in Walked,
           NEW x \in Reached(f) \cap Has, NEW y \in Reached(f) \cap Has, x # y
    PROVE  \E u, v \in Reached(f) \cap Has :
               /\ Climb(x, y) = <<u, v>> /\ Number(u) + Number(v) > Number(x) + Number(y)
               /\ u \in {x, idom[x]} /\ v \in {y, idom[y]}
               /\ \A d : Over(f, d, x) /\ Over(f, d, y) => Over(f, d, u) /\ Over(f, d, v)
<1> DEFINE W == Reached(f) \cap Has
<1>1. /\ postOrder \in Seq(Blocks) /\ IsInjective(postOrder) /\ W \subseteq Numbered
      /\ f \in DOMAIN functions
      /\ \A d, b : Over(f, d, b) /\ d # b => Ahead(d, b)
    BY OrderedFacts DEF Ordered, WalkInv, WalkTypeOK, IdomTyped, OrderInv
<1>2. /\ \A a \in W : Number(a) \in Nat
      /\ \A a, b \in W : Ahead(a, b) <=> Number(b) < Number(a)
    <2>1. \A a \in Numbered : Number(a) \in DOMAIN postOrder
        BY <1>1, NumberFacts
    <2>2. DOMAIN postOrder \subseteq Nat
        BY <1>1
    <2>3. \A a, b \in Numbered : Ahead(a, b) <=> Number(b) < Number(a)
        BY <1>1, AheadFacts
    <2>4. QED
        BY <1>1, <2>1, <2>2, <2>3
<1>3. ASSUME NEW a \in W, NEW b \in W, Number(a) < Number(b)
      PROVE  /\ idom[a] \in W /\ Number(idom[a]) > Number(a)
             /\ \A d : Over(f, d, a) /\ Over(f, d, b) => Over(f, d, idom[a])
    <2>1. Ahead(b, a) /\ ~Ahead(a, b) /\ a # b
        BY <1>1, <1>2, <1>3, AheadFacts
    <2>2. a # Entry(f)
        <3>1. Over(f, Entry(f), b)
            BY <1>1, OverFacts DEF Ordered
        <3>2. QED
            BY <1>1, <2>1, <3>1
    <2>3. ClimbsRight(f, a)
        BY <2>2 DEF IdomInv
    <2>4. idom[a] \in W /\ Ahead(idom[a], a)
        BY <2>3 DEF ClimbsRight
    <2>5. ASSUME NEW d, Over(f, d, a), Over(f, d, b)
          PROVE  Over(f, d, idom[a])
        <3>1. d # a
            BY <1>1, <2>1, <2>5
        <3>2. QED
            BY <2>3, <2>5, <3>1 DEF ClimbsRight
    <2>6. Number(idom[a]) > Number(a)
        BY <1>2, <2>4
    <2>7. QED
        BY <2>4, <2>5, <2>6
<1>4. x \in W /\ y \in W /\ {x, y} \subseteq Numbered /\ Number(x) # Number(y)
    <2>1. {x, y} \subseteq Numbered
        BY <1>1
    <2>2. postOrder[Number(x)] = x /\ postOrder[Number(y)] = y
        BY <1>1, <2>1, NumberFacts
    <2>3. QED
        BY <2>1, <2>2
<1> HIDE DEF W
<1>5. CASE Number(x) < Number(y)
    <2>1. Climb(x, y) = <<idom[x], y>>
        BY <1>4, <1>5 DEF Climb
    <2>2. /\ idom[x] \in W /\ Number(idom[x]) > Number(x)
          /\ \A d : Over(f, d, x) /\ Over(f, d, y) => Over(f, d, idom[x])
        BY <1>3, <1>4, <1>5
    <2>3. Number(idom[x]) + Number(y) > Number(x) + Number(y)
        BY <1>2, <1>4, <2>2
    <2>4. QED
        BY <1>4, <2>1, <2>2, <2>3 DEF W
<1>6. CASE Number(y) < Number(x)
    <2>1. Climb(x, y) = <<x, idom[y]>>
        BY <1>2, <1>4, <1>6 DEF Climb
    <2>2. /\ idom[y] \in W /\ Number(idom[y]) > Number(y)
          /\ \A d : Over(f, d, x) /\ Over(f, d, y) => Over(f, d, idom[y])
        BY <1>3, <1>4, <1>6
    <2>3. Number(x) + Number(idom[y]) > Number(x) + Number(y)
        BY <1>2, <1>4, <2>2
    <2>4. QED
        BY <1>4, <2>1, <2>2, <2>3 DEF W
<1>7. QED
    BY <1>2, <1>4, <1>5, <1>6

\* intersect finds a block both chains go through, below no common dominator.
LEMMA IntersectFacts ==
    ASSUME Ordered, IdomInv, NEW f \in Walked,
           NEW x \in Reached(f) \cap Has, NEW y \in Reached(f) \cap Has
    PROVE  /\ Intersect(x, y) \in Above(x) \cap Above(y)
           /\ \A d : Over(f, d, x) /\ Over(f, d, y) => Over(f, d, Intersect(x, y))
<1> DEFINE W == Reached(f) \cap Has
           len == Len(postOrder)
           N == 2 * len
           Pairs == (Blocks \cup {NoBlock}) \X (Blocks \cup {NoBlock})
           Both(d) == Over(f, d, x) /\ Over(f, d, y)
           Good(n, u, v) == /\ u \in Above(x) /\ v \in Above(y)
                            /\ \A d : Both(d) => Over(f, d, u) /\ Over(f, d, v)
                            /\ u = v \/ Number(u) + Number(v) >= n + 2
<1>1. /\ IdomTyped /\ postOrder \in Seq(Blocks) /\ IsInjective(postOrder)
      /\ W \subseteq Blocks /\ W \subseteq Numbered
    BY OrderedFacts DEF Ordered, WalkInv, WalkTypeOK, IdomTyped, OrderInv
<1>2. len \in Nat /\ N \in Nat /\ \A a \in W : Number(a) \in 1 .. len
    <2>1. \A a \in Numbered : Number(a) \in DOMAIN postOrder
        BY <1>1, NumberFacts
    <2>2. DOMAIN postOrder = 1 .. len /\ len \in Nat
        BY <1>1
    <2>3. QED
        BY <1>1, <2>1, <2>2
<1>3. PICK pair \in [0 .. N -> Pairs] :
          /\ Intersect(x, y) = pair[N][1] /\ pair[0] = <<x, y>>
          /\ \A n \in 1 .. N : pair[n] = Climb(pair[n - 1][1], pair[n - 1][2])
    <2>1. x \in Blocks \cup {NoBlock} /\ y \in Blocks \cup {NoBlock}
        BY <1>1
    <2>2. QED
        BY <1>1, <2>1, IntersectSteps
<1>4. Above(x) \subseteq W /\ Above(y) \subseteq W /\ x \in Above(x) /\ y \in Above(y)
    BY <1>1, ChainFacts, AboveFacts
<1>5. /\ \A u \in Above(x) : idom[u] \in Above(x)
      /\ \A u \in Above(y) : idom[u] \in Above(y)
    <2>1. \A u \in Above(x) \cap Has : idom[u] \in Above(x)
        BY <1>1, AboveFacts
    <2>2. \A u \in Above(y) \cap Has : idom[u] \in Above(y)
        BY <1>1, AboveFacts
    <2>3. QED
        BY <1>4, <2>1, <2>2
<1> DEFINE T == {n \in 0 .. N : \E u, v \in W : pair[n] = <<u, v>> /\ Good(n, u, v)}
<1> HIDE DEF len, N, Pairs
<1>6. 0 \in T
    <2>1. Number(x) + Number(y) >= 0 + 2
        BY <1>2
    <2>2. QED
        BY <1>2, <1>3, <1>4, <2>1
<1>7. ASSUME NEW n \in T, n < N
      PROVE  n + 1 \in T
    <2>1. n + 1 \in 1 .. N /\ n + 1 \in 0 .. N /\ (n + 1) - 1 = n /\ n \in Nat
        BY <1>2, <1>7
    <2>2. PICK u \in W, v \in W : pair[n] = <<u, v>> /\ Good(n, u, v)
        BY DEF T
    <2>3. pair[n + 1] = Climb(u, v)
        BY <1>3, <2>1, <2>2
    <2>4. CASE u = v
        <3>1. Climb(u, v) = <<u, v>>
            BY <2>4 DEF Climb
        <3>2. Good(n + 1, u, v)
            BY <2>2, <2>4
        <3>3. QED
            BY <2>1, <2>3, <3>1, <3>2
    <2>5. CASE u # v
        <3>1. PICK a \in W, b \in W :
                  /\ Climb(u, v) = <<a, b>> /\ Number(a) + Number(b) > Number(u) + Number(v)
                  /\ a \in {u, idom[u]} /\ b \in {v, idom[v]}
                  /\ \A d : Over(f, d, u) /\ Over(f, d, v) => Over(f, d, a) /\ Over(f, d, b)
            BY <2>5, ClimbFacts
        <3>2. a \in Above(x) /\ b \in Above(y)
            BY <1>5, <2>2, <3>1
        <3>3. Number(a) + Number(b) >= (n + 1) + 2
            <4>1. Number(u) + Number(v) >= n + 2
                BY <2>2, <2>5
            <4>2. Number(a) \in Nat /\ Number(b) \in Nat /\ Number(u) \in Nat /\ Number(v) \in Nat
                BY <1>2
            <4>3. QED
                BY <2>1, <3>1, <4>1, <4>2
        <3>4. \A d : Both(d) => Over(f, d, a) /\ Over(f, d, b)
            BY <2>2, <3>1
        <3>5. QED
            BY <2>1, <2>3, <3>1, <3>2, <3>3, <3>4
    <2>6. QED
        BY <2>4, <2>5
<1>8. N \in T
    <2>1. T \in SUBSET (0 .. N)
        OBVIOUS
    <2> HIDE DEF T
    <2>2. \A i \in 0 .. N : i \in T
        BY <1>2, <1>6, <1>7, <2>1, IntervalAll
    <2>3. QED
        BY <1>2, <2>2
<1>9. PICK u \in W, v \in W : pair[N] = <<u, v>> /\ Good(N, u, v)
    BY <1>8
<1>10. u = v
    <2>1. Number(u) \in 1 .. len /\ Number(v) \in 1 .. len
        BY <1>2
    <2>2. Number(u) + Number(v) < N + 2
        BY <1>2, <2>1 DEF N
    <2>3. Number(u) + Number(v) \in Nat
        BY <1>2, <2>1
    <2>4. QED
        BY <1>2, <1>9, <2>2, <2>3
<1>11. QED
    BY <1>3, <1>9, <1>10

\* With a block that has no entry yet, intersect looks up what is missing.
LEMMA IntersectFails ==
    ASSUME Ordered, IdomInv, NEW f \in Walked, NEW x \in Reached(f) \cap Has,
           NEW s \in (Blocks \cup {NoBlock}) \ Has, s \in Numbered => s \in Reached(f)
    PROVE  Intersect(x, s) = NoBlock
<1> DEFINE W == Reached(f) \cap Has
           len == Len(postOrder)
           N == 2 * len
           Pairs == (Blocks \cup {NoBlock}) \X (Blocks \cup {NoBlock})
           Tries(n, p) == \E u \in W : /\ p = <<u, s>>
                                       /\ s \in Numbered => Number(u) + Number(s) >= n + 3
                                       /\ s \notin Numbered => n = 0
           Lost(n, p) == n < N /\ \E u \in W : p = <<u, NoBlock>>
           Gone(p) == p = <<NoBlock, NoBlock>>
<1>1. /\ IdomTyped /\ postOrder \in Seq(Blocks) /\ IsInjective(postOrder)
      /\ W \subseteq Blocks /\ W \subseteq Numbered /\ NoBlock \notin Blocks
      /\ Numbered \subseteq Blocks /\ f \in DOMAIN functions
      /\ \A d, b : Over(f, d, b) /\ d # b => Ahead(d, b)
    <2>1. postOrder \in Seq(Blocks)
        BY DEF Ordered, WalkInv, WalkTypeOK, IdomTyped
    <2>2. Numbered \subseteq Blocks
        BY <2>1, RangeTyped DEF Numbered
    <2>3. QED
        BY <2>2, OrderedFacts DEF Ordered, WalkInv, WalkTypeOK, IdomTyped, OrderInv
<1>2. len \in Nat /\ N \in Nat /\ \A a \in Numbered : Number(a) \in 1 .. len
    <2>1. \A a \in Numbered : Number(a) \in DOMAIN postOrder
        BY <1>1, NumberFacts
    <2>2. DOMAIN postOrder = 1 .. len /\ len \in Nat
        BY <1>1
    <2>3. QED
        BY <1>1, <2>1, <2>2
<1>3. PICK pair \in [0 .. N -> Pairs] :
          /\ Intersect(x, s) = pair[N][1] /\ pair[0] = <<x, s>>
          /\ \A n \in 1 .. N : pair[n] = Climb(pair[n - 1][1], pair[n - 1][2])
    <2>1. x \in Blocks \cup {NoBlock} /\ s \in Blocks \cup {NoBlock}
        BY <1>1
    <2>2. QED
        BY <1>1, <2>1, IntersectSteps
<1>4. s \notin W /\ (s \in Blocks => idom[s] = NoBlock)
    BY DEF Has
<1>5. \A u \in W : s \in Numbered => Number(u) # Number(s)
    <2>1. \A u \in Numbered : postOrder[Number(u)] = u
        BY <1>1, NumberFacts
    <2>2. QED
        BY <1>1, <1>4, <2>1
<1>6. N >= 2
    <2>1. len >= 1
        BY <1>1, <1>2
    <2>2. QED
        BY <1>2, <2>1
<1>7. ASSUME NEW u \in W, s \in Numbered, Number(u) < Number(s)
      PROVE  idom[u] \in W /\ Number(idom[u]) > Number(u)
    <2>1. Ahead(s, u) /\ ~Ahead(u, s) /\ u # s
        BY <1>1, <1>7, AheadFacts
    <2>2. u # Entry(f)
        <3>1. Over(f, Entry(f), s)
            BY <1>1, <1>7, OverFacts DEF Ordered
        <3>2. QED
            BY <1>1, <2>1, <3>1
    <2>3. idom[u] \in W /\ Ahead(idom[u], u)
        BY <2>2 DEF IdomInv, ClimbsRight
    <2>4. QED
        BY <1>1, <2>3, AheadFacts
<1> DEFINE T == {n \in 0 .. N : Tries(n, pair[n]) \/ Lost(n, pair[n]) \/ Gone(pair[n])}
<1> HIDE DEF W, Pairs
<1>8. 0 \in T
    <2>1. x \in W
        BY DEF W
    <2>2. s \in Numbered => Number(x) + Number(s) >= 0 + 3
        BY <1>1, <1>2, <1>5, <2>1
    <2>3. Tries(0, pair[0])
        BY <1>3, <2>1, <2>2
    <2>4. QED
        BY <1>2, <2>3
<1> HIDE DEF N
<1>9. ASSUME NEW n \in T, n < N
      PROVE  n + 1 \in T
    <2>1. n + 1 \in 1 .. N /\ n + 1 \in 0 .. N /\ (n + 1) - 1 = n /\ n \in Nat
        BY <1>2, <1>9
    <2>2. pair[n + 1] = Climb(pair[n][1], pair[n][2])
        BY <1>3, <2>1
    <2>3. CASE Tries(n, pair[n])
        <3>1. PICK u \in W : /\ pair[n] = <<u, s>>
                             /\ s \in Numbered => Number(u) + Number(s) >= n + 3
                             /\ s \notin Numbered => n = 0
            BY <2>3
        <3>2. pair[n + 1] = Climb(u, s) /\ u # s /\ u \in Numbered
            BY <1>1, <1>4, <2>2, <3>1
        <3>3. CASE s \notin Numbered
            BY <2>1, <3>2, <3>3 DEF Climb
        <3>4. CASE s \in Numbered /\ Number(u) < Number(s)
            <4>1. pair[n + 1] = <<idom[u], s>>
                BY <3>2, <3>4 DEF Climb
            <4>2. idom[u] \in W /\ Number(idom[u]) > Number(u)
                BY <1>7, <3>4
            <4>3. Number(idom[u]) \in Nat /\ Number(u) \in Nat /\ Number(s) \in Nat
                BY <1>1, <1>2, <3>2, <3>4, <4>2
            <4>4. Number(idom[u]) + Number(s) >= (n + 1) + 3
                BY <2>1, <3>1, <3>4, <4>2, <4>3
            <4>5. Tries(n + 1, pair[n + 1])
                BY <3>4, <4>1, <4>2, <4>4
            <4>6. QED
                BY <2>1, <4>5
        <3>5. CASE s \in Numbered /\ Number(s) < Number(u)
            <4>1. Number(u) \in 1 .. len /\ Number(s) \in 1 .. len
                BY <1>2, <3>2, <3>5
            <4>2. pair[n + 1] = <<u, NoBlock>>
                BY <1>1, <1>4, <3>2, <3>5, <4>1 DEF Climb
            <4>3. n + 1 < N
                BY <1>2, <2>1, <3>1, <3>5, <4>1 DEF N
            <4>4. QED
                BY <2>1, <4>2, <4>3
        <3>6. Number(u) \in Nat /\ (s \in Numbered => Number(s) \in Nat /\ Number(u) # Number(s))
            BY <1>2, <1>5, <3>2
        <3>7. QED
            BY <3>3, <3>4, <3>5, <3>6
    <2>4. CASE Lost(n, pair[n])
        <3>1. PICK u \in W : pair[n] = <<u, NoBlock>>
            BY <2>4
        <3>2. u # NoBlock /\ ~({u, NoBlock} \subseteq Numbered)
            BY <1>1
        <3>3. Climb(u, NoBlock) = <<NoBlock, NoBlock>>
            BY <3>2 DEF Climb
        <3>4. QED
            BY <2>1, <2>2, <3>1, <3>3
    <2>5. CASE Gone(pair[n])
        <3>1. Climb(NoBlock, NoBlock) = <<NoBlock, NoBlock>>
            BY DEF Climb
        <3>2. QED
            BY <2>1, <2>2, <2>5, <3>1
    <2>6. QED
        BY <2>3, <2>4, <2>5 DEF T
<1>10. N \in T
    <2>1. T \in SUBSET (0 .. N)
        OBVIOUS
    <2> HIDE DEF T
    <2>2. \A i \in 0 .. N : i \in T
        BY <1>2, <1>8, <1>9, <2>1, IntervalAll
    <2>3. QED
        BY <1>2, <2>2
<1>11. ~Tries(N, pair[N])
    <2>1. ASSUME NEW u \in W, s \in Numbered, Number(u) + Number(s) >= N + 3
          PROVE  FALSE
        <3>1. Number(u) \in 1 .. len /\ Number(s) \in 1 .. len
            BY <1>1, <1>2, <2>1
        <3>2. QED
            BY <1>2, <2>1, <3>1 DEF N
    <2>2. QED
        BY <1>6, <2>1
<1>12. Gone(pair[N])
    BY <1>2, <1>10, <1>11
<1>13. QED
    BY <1>3, <1>12

\* The new immediate dominator of a block whose first predecessor has an entry:
\* no lookup fails.
LEMMA NewIdomFrom ==
    ASSUME Ordered, IdomInv, NEW f \in Walked, NEW b \in Reached(f),
           pred[b] # <<>>, pred[b][1] \in Has
    PROVE  /\ NewIdom(b) \in Reached(f) \cap Has
           /\ \A p \in Range(pred[b]) \cap Has : NewIdom(b) \in Above(p)
           /\ \A d : (\A p \in Range(pred[b]) \cap Has : Over(f, d, p)) => Over(f, d, NewIdom(b))
<1> DEFINE W == Reached(f) \cap Has
           P == pred[b]
           N == Len(P)
           S == Blocks \cup {NoBlock}
           first == P[1]
<1>1. /\ IdomTyped /\ FlowGraphTypeOK /\ W \subseteq Blocks /\ Has \subseteq Numbered /\ b \in Blocks
      /\ Range(P) \cap Numbered \subseteq Reached(f)
    <2>1. IdomTyped /\ FlowGraphTypeOK
        BY DEF Ordered, WalkInv, WalkTypeOK
    <2>2. Has \subseteq Numbered
        BY OrderedFacts DEF IdomInv
    <2>3. QED
        BY <2>1, <2>2, OrderedFacts
<1>2. P \in Seq(Blocks) /\ P # <<>> /\ N \in Nat /\ DOMAIN P = 1 .. N /\ 1 \in 1 .. N
    <2>1. P \in Seq(Blocks)
        BY <1>1, ListFacts
    <2>2. P # <<>>
        OBVIOUS
    <2>3. N \in Nat /\ DOMAIN P = 1 .. N /\ 1 \in 1 .. N
        BY <2>1, <2>2
    <2>4. QED
        BY <2>1, <2>2, <2>3
<1>3. \A i \in 1 .. N : P[i] \in Blocks /\ P[i] \in Range(P)
    BY <1>2 DEF Range
<1>4. Range(P) = {P[i] : i \in 1 .. N}
    BY <1>2 DEF Range
<1>5. PICK met \in [0 .. N -> S] :
          /\ NewIdom(b) = met[N] /\ met[0] = first
          /\ \A n \in 1 .. N : met[n] = IF P[n] = first \/ idom[P[n]] = NoBlock
                                        THEN met[n - 1] ELSE Intersect(P[n], met[n - 1])
    BY <1>1, <1>2, NewIdomSteps
<1>6. \A n \in 1 .. N : P[n] \in Has <=> idom[P[n]] # NoBlock
    BY <1>3 DEF Has
<1>7. Range(P) \cap Has \subseteq W
    BY <1>1
<1>8. first \in Has
    OBVIOUS
<1> HIDE DEF P, N, S
<1> DEFINE Common(d) == \A p \in Range(P) \cap Has : Over(f, d, p)
           T == {n \in 0 .. N : /\ met[n] \in W /\ met[n] \in Above(first)
                                /\ \A i \in 1 .. n : P[i] \in Has => met[n] \in Above(P[i])
                                /\ \A d : Common(d) => Over(f, d, met[n])}
<1>9. 0 \in T
    <2>1. first \in W /\ first \in Range(P)
        BY <1>2, <1>3, <1>7, <1>8
    <2>2. first \in Above(first)
        BY <1>1, <2>1, AboveFacts
    <2>3. \A d : Common(d) => Over(f, d, first)
        BY <1>8, <2>1
    <2> HIDE DEF first
    <2>4. QED
        BY <1>2, <1>5, <2>1, <2>2, <2>3
<1>10. ASSUME NEW n \in T, n < N
       PROVE  n + 1 \in T
    <2>1. n + 1 \in 1 .. N /\ n + 1 \in 0 .. N /\ (n + 1) - 1 = n /\ n \in Nat
        BY <1>2, <1>10
    <2>2. \A i \in 1 .. n + 1 : i \in 1 .. n \/ i = n + 1
        BY <2>1
    <2>3. met[n + 1] = IF P[n + 1] = first \/ idom[P[n + 1]] = NoBlock
                       THEN met[n] ELSE Intersect(P[n + 1], met[n])
        BY <1>5, <2>1
    <2>4. CASE P[n + 1] = first \/ P[n + 1] \notin Has
        <3>1. met[n + 1] = met[n]
            BY <1>6, <2>1, <2>3, <2>4
        <3>2. QED
            BY <2>1, <2>2, <2>4, <3>1
    <2>5. CASE P[n + 1] # first /\ P[n + 1] \in Has
        <3> DEFINE p == P[n + 1]
                   s == met[n]
                   r == Intersect(p, s)
        <3>1. met[n + 1] = r
            BY <1>6, <2>1, <2>3, <2>5
        <3>2. p \in W /\ s \in W /\ p \in Range(P) \cap Has
            BY <1>3, <1>7, <2>1, <2>5
        <3>3. /\ s \in Above(first) /\ \A i \in 1 .. n : P[i] \in Has => s \in Above(P[i])
              /\ \A d : Common(d) => Over(f, d, s)
            OBVIOUS
        <3>4. /\ r \in Above(p) \cap Above(s)
              /\ \A d : Over(f, d, p) /\ Over(f, d, s) => Over(f, d, r)
            <4> HIDE DEF p, s
            <4>1. QED
                BY <3>2, IntersectFacts
        <3>5. ASSUME NEW q \in W, s \in Above(q)
              PROVE  r \in Above(q)
            <4>1. Above(s) \subseteq Above(q)
                <5> HIDE DEF s
                <5>1. QED
                    BY <3>5, ChainFacts
            <4>2. QED
                BY <3>4, <4>1
        <3>6. r \in W
            <4>1. Above(p) \subseteq W
                <5> HIDE DEF p
                <5>1. QED
                    BY <3>2, ChainFacts
            <4>2. QED
                BY <3>4, <4>1
        <3> HIDE DEF r
        <3>7. r \in Above(first)
            BY <1>2, <1>3, <1>7, <1>8, <3>3, <3>5
        <3>8. ASSUME NEW i \in 1 .. n + 1, P[i] \in Has
              PROVE  r \in Above(P[i])
            <4>1. CASE i = n + 1
                BY <3>4, <4>1
            <4>2. CASE i \in 1 .. n
                <5>1. i \in 1 .. N
                    BY <2>1, <4>2, <1>2
                <5>2. P[i] \in W
                    BY <1>3, <1>7, <3>8, <5>1
                <5>3. QED
                    BY <3>3, <3>5, <3>8, <4>2, <5>2
            <4>3. QED
                BY <2>2, <4>1, <4>2
        <3>9. ASSUME NEW d, Common(d)
              PROVE  Over(f, d, r)
            <4>1. Over(f, d, p) /\ Over(f, d, s)
                BY <3>2, <3>3, <3>9
            <4>2. QED
                BY <3>4, <4>1
        <3>10. QED
            BY <2>1, <3>1, <3>6, <3>7, <3>8, <3>9
    <2>6. QED
        BY <2>4, <2>5
<1>11. N \in T
    <2>1. T \in SUBSET (0 .. N)
        OBVIOUS
    <2> HIDE DEF T
    <2>2. \A i \in 0 .. N : i \in T
        BY <1>2, <1>9, <1>10, <2>1, IntervalAll
    <2>3. QED
        BY <1>2, <2>2
<1>12. /\ met[N] \in W
       /\ \A i \in 1 .. N : P[i] \in Has => met[N] \in Above(P[i])
       /\ \A d : Common(d) => Over(f, d, met[N])
    BY <1>11
<1>13. \A p \in Range(P) \cap Has : met[N] \in Above(p)
    BY <1>4, <1>12
<1>14. QED
    BY <1>5, <1>12, <1>13 DEF P

\* The new immediate dominator of a block one of whose predecessors has an
\* entry: without an entry of the first predecessor the lookup fails.
LEMMA NewIdomFacts ==
    ASSUME Ordered, IdomInv, NEW f \in Walked, NEW b \in Reached(f),
           Range(pred[b]) \cap Has # {}, NewIdom(b) # NoBlock
    PROVE  /\ NewIdom(b) \in Reached(f) \cap Has
           /\ \A p \in Range(pred[b]) \cap Has : NewIdom(b) \in Above(p)
           /\ \A d : (\A p \in Range(pred[b]) \cap Has : Over(f, d, p)) => Over(f, d, NewIdom(b))
<1> DEFINE W == Reached(f) \cap Has
           P == pred[b]
           N == Len(P)
           S == Blocks \cup {NoBlock}
           first == P[1]
<1>1. /\ IdomTyped /\ FlowGraphTypeOK /\ W \subseteq Blocks /\ Has \subseteq Numbered /\ b \in Blocks
      /\ Range(P) \cap Numbered \subseteq Reached(f)
    <2>1. IdomTyped /\ FlowGraphTypeOK
        BY DEF Ordered, WalkInv, WalkTypeOK
    <2>2. Has \subseteq Numbered
        BY OrderedFacts DEF IdomInv
    <2>3. QED
        BY <2>1, <2>2, OrderedFacts
<1>2. P \in Seq(Blocks) /\ P # <<>> /\ N \in Nat /\ DOMAIN P = 1 .. N /\ 1 \in 1 .. N
    <2>1. P \in Seq(Blocks)
        BY <1>1, ListFacts
    <2>2. P # <<>>
        BY DEF Range
    <2>3. N \in Nat /\ DOMAIN P = 1 .. N /\ 1 \in 1 .. N
        BY <2>1, <2>2
    <2>4. QED
        BY <2>1, <2>2, <2>3
<1>3. \A i \in 1 .. N : P[i] \in Blocks /\ P[i] \in Range(P)
    BY <1>2 DEF Range
<1>4. Range(P) = {P[i] : i \in 1 .. N}
    BY <1>2 DEF Range
<1>5. PICK met \in [0 .. N -> S] :
          /\ NewIdom(b) = met[N] /\ met[0] = first
          /\ \A n \in 1 .. N : met[n] = IF P[n] = first \/ idom[P[n]] = NoBlock
                                        THEN met[n - 1] ELSE Intersect(P[n], met[n - 1])
    BY <1>1, <1>2, NewIdomSteps
<1>6. \A n \in 1 .. N : P[n] \in Has <=> idom[P[n]] # NoBlock
    BY <1>3 DEF Has
<1>7. Range(P) \cap Has \subseteq W
    BY <1>1
<1> HIDE DEF P, N, S
<1>8. NoBlock \notin Blocks /\ NoBlock \notin Has /\ NoBlock \notin Numbered
    <2>1. NoBlock \notin Blocks /\ Has \subseteq Blocks
        BY OrderedFacts DEF Has
    <2>2. Numbered \subseteq Blocks
        BY <1>1, RangeTyped DEF Numbered, IdomTyped
    <2>3. QED
        BY <2>1, <2>2
<1>9. first \in Has
    <2> SUFFICES ASSUME first \notin Has
                 PROVE  FALSE
        OBVIOUS
    <2> DEFINE T == {n \in 0 .. N : /\ met[n] \in {first, NoBlock}
                                    /\ \A i \in 1 .. n : P[i] \in Has => met[n] = NoBlock}
    <2>1. 0 \in T
        BY <1>2, <1>5
    <2>2. ASSUME NEW n \in T, n < N
          PROVE  n + 1 \in T
        <3>1. n + 1 \in 1 .. N /\ n + 1 \in 0 .. N /\ (n + 1) - 1 = n /\ n \in Nat
            BY <1>2, <2>2
        <3>2. \A i \in 1 .. n + 1 : i \in 1 .. n \/ i = n + 1
            BY <3>1
        <3>3. met[n + 1] = IF P[n + 1] = first \/ idom[P[n + 1]] = NoBlock
                           THEN met[n] ELSE Intersect(P[n + 1], met[n])
            BY <1>5, <3>1
        <3>4. CASE P[n + 1] \notin Has
            <4>1. met[n + 1] = met[n]
                BY <1>6, <3>1, <3>3, <3>4
            <4>2. QED
                BY <3>1, <3>2, <3>4, <4>1
        <3>5. CASE P[n + 1] \in Has
            <4>1. P[n + 1] # first /\ idom[P[n + 1]] # NoBlock
                BY <1>6, <3>1, <3>5
            <4>2. met[n + 1] = Intersect(P[n + 1], met[n])
                BY <3>3, <4>1
            <4>3. P[n + 1] \in W
                BY <1>3, <1>7, <3>1, <3>5
            <4> DEFINE s == met[n]
            <4>4. s \in {first, NoBlock}
                OBVIOUS
            <4> HIDE DEF s
            <4>5. s \in (Blocks \cup {NoBlock}) \ Has /\ (s \in Numbered => s \in Reached(f))
                BY <1>1, <1>2, <1>3, <1>8, <4>4
            <4>6. Intersect(P[n + 1], s) = NoBlock
                BY <4>3, <4>5, IntersectFails
            <4>7. met[n + 1] = NoBlock
                BY <4>2, <4>6 DEF s
            <4>8. QED
                BY <3>1, <4>7
        <3>6. QED
            BY <3>4, <3>5
    <2>3. N \in T
        <3>1. T \in SUBSET (0 .. N)
            OBVIOUS
        <3> HIDE DEF T
        <3>2. \A i \in 0 .. N : i \in T
            BY <1>2, <2>1, <2>2, <3>1, IntervalAll
        <3>3. QED
            BY <1>2, <3>2
    <2>4. PICK p \in Range(P) : p \in Has
        BY DEF P
    <2>5. PICK i \in 1 .. N : P[i] = p
        BY <1>4, <2>4
    <2>6. met[N] = NoBlock
        BY <2>3, <2>4, <2>5
    <2>7. QED
        BY <1>5, <2>6
<1>10. QED
    BY <1>2, <1>9, NewIdomFrom DEF P

-----------------------------------------------------------------------------
\* The blocks the sweep under way has passed.
Swept == {postOrder[i] : i \in at + 1 .. Len(postOrder)}

\* As long as nothing changes, the entry of a block it has passed is on the
\* chain of every predecessor that has one.
Settled ==
    \A f \in Walked : \A b \in (Swept \cap Reached(f)) \ {Entry(f)} :
        \A p \in Range(pred[b]) \cap Has : idom[b] \in Above(p)

\* The functions whose sweeps are over; what they leave is a strict dominator
\* of each block, and IdomInv makes it the immediate one.
Finished == IF stage \in {"dfs", "idom"} THEN 1 .. current - 1 ELSE 1 .. current

ExactIdom(f) ==
    \A b \in Reached(f) \ {Entry(f)} : idom[b] # NoBlock /\ Over(f, idom[b], b)

SweepInv ==
    ~thrown =>
        /\ IdomInv
        /\ stage = "idom" => Swept \subseteq Has /\ (~changed => Settled)
        /\ \A f \in Finished : ExactIdom(f)

\* A block with a number belongs to one function that was walked.
LEMMA HomeFacts ==
    ASSUME Ordered
    PROVE  /\ stage # "dfs" => \A b \in Numbered : \E f \in Walked : b \in Reached(f)
           /\ \A f, g \in DOMAIN functions : Reached(f) \cap Reached(g) # {} => f = g
           /\ Walked \subseteq DOMAIN functions
<1>1. ASSUME stage # "dfs", NEW b \in Numbered
      PROVE  \E f \in Walked : b \in Reached(f)
    <2>1. PICK f \in DOMAIN functions : b \in BlocksOf(f)
        BY DEF Ordered, OrderInv
    <2>2. b \in NumberedOf(f)
        BY <2>1 DEF Ordered, OrderInv
    <2>3. f \in Walked /\ b \in Reached(f)
        BY <1>1, <2>2 DEF NumberedOf
    <2>4. QED
        BY <2>3
<1>2. \A f \in DOMAIN functions : Reached(f) \subseteq BlocksOf(f)
    BY ReachedFacts DEF Ordered, Graph
<1>3. \A f, g \in DOMAIN functions : Reached(f) \cap Reached(g) # {} => f = g
    BY <1>2 DEF Ordered, Graph, GraphInv, Apart
<1>4. Walked \subseteq DOMAIN functions
    BY OrderedFacts
<1>5. QED
    BY <1>1, <1>3, <1>4

\* On a function whose sweeps are over, the chains are the dominators.
LEMMA ChainExact ==
    ASSUME Ordered, IdomInv, NEW f \in Walked, ExactIdom(f)
    PROVE  /\ Reached(f) \subseteq Has
           /\ \A x \in Reached(f) : \A d : d \in Above(x) <=> Over(f, d, x)
<1>1. /\ f \in DOMAIN functions /\ Reached(f) \subseteq Blocks /\ Entry(f) \in Reached(f)
      /\ NoBlock \notin Blocks /\ IdomTyped
    BY OrderedFacts DEF Ordered, WalkInv, WalkTypeOK
<1>2. Reached(f) \subseteq Has
    <2>1. Entry(f) \in Has
        BY <1>1 DEF IdomInv, Has
    <2>2. \A b \in Reached(f) \ {Entry(f)} : b \in Has
        BY <1>1 DEF ExactIdom, Has
    <2>3. QED
        BY <2>1, <2>2
<1>3. ASSUME NEW x \in Reached(f)
      PROVE  \A d \in Above(x) : Over(f, d, x)
    <2> DEFINE S == {d \in Reached(f) : Over(f, d, x)}
    <2>1. x \in S
        BY <1>1, OverFacts DEF Ordered
    <2>2. ASSUME NEW y \in S
          PROVE  idom[y] \in S
        <3>1. CASE y = Entry(f)
            BY <2>2, <3>1 DEF IdomInv
        <3>2. CASE y # Entry(f)
            <4>1. Over(f, idom[y], y)
                BY <3>2 DEF ExactIdom
            <4>2. Over(f, idom[y], x)
                BY <1>1, <2>2, <4>1, OverFacts DEF Ordered
            <4>3. QED
                BY <4>2 DEF Over
        <3>3. QED
            BY <3>1, <3>2
    <2>3. Above(x) \subseteq S
        <3>1. x \in S /\ \A y \in S \cap Above(x) \cap Has : idom[y] \in S
            BY <2>1, <2>2
        <3> HIDE DEF S
        <3>2. QED
            BY <1>1, <3>1, AboveFacts
    <2>4. QED
        BY <2>3
<1>4. ASSUME NEW x \in Reached(f), NEW d, Over(f, d, x)
      PROVE  d \in Above(x)
    <2>1. x \in Reached(f) \cap Has
        BY <1>2
    <2>2. QED
        BY <1>4, <2>1, ChainFacts
<1>5. QED
    BY <1>2, <1>3, <1>4

\* Nothing changed in a whole sweep: what is left is exact.
LEMMA SettledExact ==
    ASSUME Ordered, IdomInv, Settled, stage = "idom", at = 0, Swept \subseteq Has, NEW f \in Walked
    PROVE  ExactIdom(f)
<1> DEFINE e == Entry(f)
           R(d) == ReachedWithout(Entry(f), d)
<1>1. /\ f \in DOMAIN functions /\ Reached(f) \subseteq Blocks /\ e \in Reached(f)
      /\ NoBlock \notin Blocks /\ IdomTyped /\ Reached(f) \subseteq Numbered
      /\ \A b \in Reached(f) : Range(succ[b]) \subseteq Reached(f)
      /\ pred[e] = <<>>
    BY OrderedFacts DEF Ordered, WalkInv, WalkTypeOK
<1>2. Swept = Numbered
    <2>1. at + 1 .. Len(postOrder) = DOMAIN postOrder
        BY <1>1 DEF IdomTyped
    <2>2. QED
        BY <2>1 DEF Swept, Numbered, Range
<1>3. Reached(f) \subseteq Has
    BY <1>1, <1>2
<1>4. \A b \in Reached(f) : \A c \in Range(succ[b]) : b \in Range(pred[c])
    <2>1. Reached(f) \subseteq BlocksOf(f) /\ EdgesAgree
        BY <1>1, ReachedFacts DEF Ordered, Graph, GraphInv
    <2>2. QED
        BY <1>1, <2>1 DEF EdgesAgree, Functions
<1>5. \A b \in Reached(f) \ {e} : \A p \in Range(pred[b]) \cap Has : idom[b] \in Above(p)
    BY <1>1, <1>2 DEF Settled
<1>6. \A d : /\ d \notin R(d) /\ (d # e => e \in R(d)) /\ (d = e => R(d) = {})
             /\ \A x \in R(d) : Range(succ[x]) \ {d} \subseteq R(d)
             /\ \A S : e \in S /\ (\A x \in S \cap R(d) : Range(succ[x]) \ {d} \subseteq S) => R(d) \subseteq S
    BY <1>1, WithoutReached DEF Ordered
<1>7. /\ \A x \in Reached(f) : Above(x) \subseteq Reached(f) /\ Above(x) \subseteq {x} \cup Above(idom[x])
      /\ \A x \in Reached(f) : \A y \in Above(x) : Above(y) \subseteq Above(x)
      /\ \A x \in Reached(f) : idom[x] \in Above(x)
      /\ Above(e) = {e}
    <2>1. \A x \in Reached(f) : x \in Reached(f) \cap Has
        BY <1>3
    <2>2. \A x \in Reached(f) : x \in Above(x) /\ (\A y \in Above(x) \cap Has : idom[y] \in Above(x))
        BY <1>1, AboveFacts
    <2>3. \A x \in Reached(f) : idom[x] \in Above(x)
        BY <2>1, <2>2
    <2>4. QED
        BY <1>1, <2>1, <2>3, ChainFacts
<1> HIDE DEF e, R
<1>8. ASSUME NEW d, NEW b \in Reached(f), d \in Above(b), d # e
      PROVE  b \notin R(d)
    <2> DEFINE S == {x \in Reached(f) : d \notin Above(x)}
    <2>1. e \in S
        BY <1>1, <1>7, <1>8
    <2>2. ASSUME NEW x \in S \cap R(d), NEW y \in Range(succ[x]) \ {d}
          PROVE  y \in S
        <3>1. y \in Reached(f) /\ x \in Range(pred[y])
            BY <1>1, <1>4, <2>2
        <3>2. y # e
            BY <1>1, <3>1 DEF Range
        <3>3. idom[y] \in Above(x)
            BY <1>3, <1>5, <3>1, <3>2
        <3>4. d \notin Above(idom[y])
            BY <1>7, <2>2, <3>3
        <3>5. QED
            BY <1>7, <2>2, <3>1, <3>4
    <2>3. R(d) \subseteq S
        <3>1. e \in S /\ \A x \in S \cap R(d) : Range(succ[x]) \ {d} \subseteq S
            BY <2>1, <2>2
        <3> HIDE DEF S
        <3>2. QED
            BY <1>6, <3>1
    <2>4. QED
        BY <1>8, <2>3
<1>9. ASSUME NEW b \in Reached(f) \ {e}
      PROVE  idom[b] # NoBlock /\ Over(f, idom[b], b)
    <2>1. idom[b] \in Above(b) /\ idom[b] \in Reached(f)
        BY <1>7
    <2>2. CASE idom[b] = e
        BY <1>1, <2>2, OverFacts DEF Ordered, e
    <2>3. CASE idom[b] # e
        <3>1. b \notin R(idom[b])
            BY <1>8, <2>1, <2>3
        <3>2. QED
            BY <1>1, <2>1, <3>1 DEF Over, R
    <2>4. QED
        BY <1>1, <2>1, <2>2, <2>3
<1>10. QED
    BY <1>9 DEF ExactIdom, e

-----------------------------------------------------------------------------
\* Dominance, while the graph stays what it is.
LEMMA OverStill ==
    ASSUME UNCHANGED graphVars
    PROVE  \A f, d, b : Over(f, d, b)' <=> Over(f, d, b)
<1>1. functions' = functions /\ succ' = succ
    BY DEF graphVars
<1>2. QED
    BY <1>1 DEF Over, Reached, ReachedWithout, Onwards, Entry

\* Steps that leave one entry of idom_ alone.
LEMMA ClimbsStill ==
    ASSUME UNCHANGED graphVars, \A a, b : Ahead(a, b) => Ahead(a, b)', Has \subseteq Has',
           NEW f, NEW b, idom'[b] = idom[b]
    PROVE  /\ ClimbsRight(f, b) => ClimbsRight(f, b)'
           /\ Over(f, idom[b], b)' <=> Over(f, idom[b], b)
<1>1. PICK i : i = idom[b] /\ i = idom'[b]
    OBVIOUS
<1>2. Over(f, idom[b], b)' <=> Over(f, idom[b], b)
    <2>1. Over(f, i, b)' <=> Over(f, i, b)
        BY OverStill
    <2>2. QED
        BY <1>1, <2>1 DEF Over
<1>3. ASSUME ClimbsRight(f, b)
      PROVE  ClimbsRight(f, b)'
    <2>1. i \in Has \cap Reached(f) /\ Ahead(i, b) /\ \A d : Over(f, d, b) /\ d # b => Over(f, d, i)
        BY <1>1, <1>3 DEF ClimbsRight
    <2>2. i \in Has' \cap Reached(f)' /\ Ahead(i, b)'
        BY <2>1, GraphStill
    <2>3. \A d : Over(f, d, b)' /\ d # b => Over(f, d, i)'
        BY <2>1, OverStill
    <2>4. \A d : Over(f, d, b)' /\ d # b => Over(f, d, idom[b])'
        BY <1>1, <2>3 DEF Over
    <2>5. Ahead(idom[b], b)'
        BY <1>1, <2>2 DEF Ahead
    <2>6. QED
        BY <1>1, <2>2, <2>4, <2>5 DEF ClimbsRight
<1>4. QED
    BY <1>2, <1>3

\* Steps that leave idom_ alone.
LEMMA IdomKept ==
    ASSUME UNCHANGED graphVars, idom' = idom
    PROVE  /\ Has' = Has /\ \A x : Above(x)' = Above(x)
           /\ \A f : ExactIdom(f)' <=> ExactIdom(f)
           /\ (\A a, b : Ahead(a, b) => Ahead(a, b)') =>
                  /\ \A f, b : ClimbsRight(f, b) => ClimbsRight(f, b)'
                  /\ Walked' = Walked /\ IdomInv => IdomInv'
<1>1. Blocks' = Blocks
    BY GraphStill
<1>2. Has' = Has
    BY <1>1 DEF Has
<1>3. \A x : Above(x)' = Above(x)
    BY <1>1, <1>2 DEF Above
<1>4. ASSUME NEW f
      PROVE  ExactIdom(f)' <=> ExactIdom(f)
    <2>1. Reached(f)' = Reached(f) /\ Entry(f)' = Entry(f)
        BY GraphStill
    <2>2. \A b : Over(f, idom[b], b)' <=> Over(f, idom[b], b)
        <3>1. functions' = functions /\ succ' = succ
            BY DEF graphVars
        <3>2. QED
            BY <3>1 DEF Over, Reached, ReachedWithout, Onwards, Entry
    <2>3. QED
        BY <2>1, <2>2 DEF ExactIdom
<1>5. ASSUME \A a, b : Ahead(a, b) => Ahead(a, b)', NEW f, NEW b, ClimbsRight(f, b)
      PROVE  ClimbsRight(f, b)'
    BY <1>2, <1>5, ClimbsStill
<1>6. ASSUME \A a, b : Ahead(a, b) => Ahead(a, b)', Walked' = Walked, IdomInv
      PROVE  IdomInv'
    BY <1>2, <1>5, <1>6, GraphStill DEF IdomInv
<1>7. QED
    BY <1>2, <1>3, <1>4, <1>5, <1>6

\* The dfs is over: the entry of the function is its own dominator.
LEMMA SweepsBegin ==
    ASSUME Ordered, SweepInv, UNCHANGED graphVars, StartIdom
    PROVE  SweepInv'
<1> SUFFICES ASSUME ~thrown'
             PROVE  SweepInv'
    BY DEF SweepInv
<1> DEFINE e == Entry(current)
<1>1. /\ stage = "dfs" /\ stage' = "idom" /\ UNCHANGED <<current, postOrder, thrown>>
      /\ idom' = [idom EXCEPT ![e] = e] /\ at' = Len(postOrder)
      /\ IdomInv /\ ~thrown /\ \A f \in Finished : ExactIdom(f)
    BY DEF StartIdom, SweepInv
<1>2. /\ current \in DOMAIN functions /\ DOMAIN functions = 1 .. Len(functions)
      /\ idom \in [Blocks -> Blocks \cup {NoBlock}] /\ FlowGraphTypeOK
      /\ postOrder \in Seq(Blocks) /\ Walked \subseteq DOMAIN functions
    BY <1>1, HomeFacts, OrderedTypes
<1>3. e \in Reached(current) /\ e \in Blocks /\ e # NoBlock
    <2>1. e \in Reached(current) /\ e \in Blocks
        BY <1>2, ReachedFacts DEF Ordered, Graph
    <2>2. QED
        BY <2>1 DEF Blocks, NoBlock
<1>4. /\ Walked' = Walked \cup {current} /\ current \notin Walked /\ Finished' = Finished
      /\ Finished \subseteq Walked
    BY <1>1, <1>2 DEF Walked, Finished
<1>5. \A f \in Walked : e \notin Reached(f)
    BY <1>2, <1>3, <1>4, HomeFacts
<1>6. /\ Has' = Has \cup {e} /\ idom'[e] = e
      /\ \A b \in Blocks : b # e => idom'[b] = idom[b]
      /\ Entry(current)' = e
    BY <1>1, <1>2, <1>3, GraphStill DEF Has
<1>7. \A f \in Walked : Entry(f) # e /\ Entry(f) \in Blocks /\ Reached(f) \subseteq Blocks
    BY <1>5, OrderedFacts
<1>8. ASSUME NEW f \in Walked, NEW b \in (Reached(f) \cap Has) \ {Entry(f)}
      PROVE  ClimbsRight(f, b)'
    <2>1. ClimbsRight(f, b) /\ b # e /\ b \in Blocks
        BY <1>1, <1>5, <1>7, <1>8 DEF IdomInv
    <2>2. idom'[b] = idom[b] /\ Has \subseteq Has'
        BY <1>6, <2>1
    <2>3. \A x, y : Ahead(x, y) => Ahead(x, y)'
        BY <1>1 DEF Ahead
    <2>4. QED
        BY <2>1, <2>2, <2>3, ClimbsStill
<1>9. (Reached(current) \cap Has') \ {e} = {}
    <2>1. ASSUME NEW b \in Reached(current) \cap Has
          PROVE  FALSE
        <3>1. PICK f \in Walked : b \in Reached(f)
            BY <1>1 DEF IdomInv
        <3>2. QED
            BY <1>2, <1>4, <3>1, HomeFacts
    <2>2. QED
        BY <1>6, <2>1
<1>10. IdomInv'
    <2>1. Has' \subseteq UNION {Reached(f)' : f \in Walked'}
        <3>1. \A f : Reached(f)' = Reached(f)
            BY GraphStill
        <3>2. Has \subseteq UNION {Reached(f) : f \in Walked}
            BY <1>1 DEF IdomInv
        <3>3. ASSUME NEW b \in Has'
              PROVE  \E f \in Walked' : b \in Reached(f)'
            BY <1>3, <1>4, <1>6, <3>1, <3>2, <3>3
        <3>4. QED
            BY <3>3
    <2>2. \A f \in Walked' : idom'[Entry(f)'] = Entry(f)'
        <3>1. \A f \in Walked : idom[Entry(f)] = Entry(f)
            BY <1>1 DEF IdomInv
        <3>2. \A f \in Walked : idom'[Entry(f)'] = Entry(f)'
            BY <1>6, <1>7, <3>1, GraphStill
        <3>3. idom'[Entry(current)'] = Entry(current)'
            BY <1>6
        <3>4. \A f \in Walked' : f \in Walked \/ f = current
            BY <1>4
        <3>5. ASSUME NEW f \in Walked', f = current
              PROVE  idom'[Entry(f)'] = Entry(f)'
            <4>1. Entry(f)' = Entry(f)
                BY GraphStill
            <4>2. QED
                BY <1>6, <3>5, <4>1
        <3>6. QED
            BY <3>2, <3>4, <3>5
    <2>3. ASSUME NEW f \in Walked', NEW b \in (Reached(f)' \cap Has') \ {Entry(f)'}
          PROVE  ClimbsRight(f, b)'
        <3>1. Reached(f)' = Reached(f) /\ Entry(f)' = Entry(f)
            BY GraphStill
        <3>2. CASE f = current
            BY <1>9, <3>1, <3>2
        <3>3. CASE f \in Walked
            <4>1. b \in (Reached(f) \cap Has) \ {Entry(f)}
                BY <1>5, <1>6, <3>1, <3>3
            <4>2. QED
                BY <1>8, <3>3, <4>1
        <3>4. QED
            BY <1>4, <3>2, <3>3
    <2>4. QED
        BY <2>1, <2>2, <2>3 DEF IdomInv
<1>11. Swept' = {}
    <2>1. Len(postOrder) \in Nat
        BY <1>2
    <2>2. (at + 1 .. Len(postOrder))' = {}
        BY <1>1, <2>1
    <2>3. QED
        BY <2>2 DEF Swept
<1>12. ASSUME NEW f \in Finished
       PROVE  ExactIdom(f)'
    <2>1. f \in Walked /\ ExactIdom(f)
        BY <1>1, <1>4
    <2>2. Reached(f)' = Reached(f) /\ Entry(f)' = Entry(f)
        BY GraphStill
    <2>3. ASSUME NEW b \in Reached(f) \ {Entry(f)}
          PROVE  idom'[b] # NoBlock /\ Over(f, idom[b], b)'
        <3>1. PICK i : i = idom[b]
            OBVIOUS
        <3>2. i # NoBlock /\ Over(f, i, b)
            BY <2>1, <3>1 DEF ExactIdom
        <3>3. idom'[b] = i
            BY <1>5, <1>6, <1>7, <2>1, <3>1
        <3>4. Over(f, i, b)'
            BY <3>2, OverStill
        <3>5. QED
            BY <3>2, <3>3, <3>4 DEF Over
    <2>4. QED
        BY <2>2, <2>3 DEF ExactIdom
<1>13. Settled'
    BY <1>11 DEF Settled
<1>14. QED
    BY <1>1, <1>4, <1>10, <1>11, <1>12, <1>13 DEF SweepInv

\* The sweep passes a block without recomputing it: the entry of a function.
LEMMA SweepSkips ==
    ASSUME Ordered, SweepInv, UNCHANGED graphVars, IdomOfBlock, NEW b, b = postOrder[at],
           b = Entry(current) \/ pred[b] = <<>>
    PROVE  SweepInv'
<1>1. /\ stage = "idom" /\ stage' = "idom" /\ at > 0 /\ at' = at - 1 /\ ~thrown
      /\ UNCHANGED <<current, postOrder, idom, changed, thrown>>
      /\ IdomInv /\ Swept \subseteq Has /\ (~changed => Settled)
      /\ \A f \in Finished : ExactIdom(f)
    BY DEF IdomOfBlock, SweepInv
<1>2. /\ at \in Nat /\ at <= Len(postOrder) /\ postOrder \in Seq(Blocks)
      /\ current \in DOMAIN functions /\ DOMAIN functions = 1 .. Len(functions)
    BY <1>1, OrderedTypes
<1>3. b \in Numbered /\ Swept' = Swept \cup {b}
    <2>1. at \in 1 .. Len(postOrder) /\ Len(postOrder) \in Nat /\ DOMAIN postOrder = 1 .. Len(postOrder)
        BY <1>1, <1>2
    <2>2. (at' + 1 .. Len(postOrder')) = (at + 1 .. Len(postOrder)) \cup {at}
        BY <1>1, <2>1
    <2>3. b \in Numbered
        BY <2>1 DEF Numbered, Range
    <2>4. Swept' = {postOrder[i] : i \in (at + 1 .. Len(postOrder)) \cup {at}}
        BY <1>1, <2>2 DEF Swept
    <2>5. QED
        BY <2>3, <2>4 DEF Swept
<1>4. PICK f \in Walked : b \in Reached(f)
    BY <1>1, <1>3, HomeFacts
<1>5. b = Entry(f)
    <2>1. CASE b = Entry(current)
        <3>1. current \in Walked
            BY <1>1, <1>2 DEF Walked
        <3>2. b \in Reached(current)
            BY <2>1, <3>1, OrderedFacts
        <3>3. f = current
            BY <1>2, <1>4, <3>2, HomeFacts
        <3>4. QED
            BY <2>1, <3>3
    <2>2. CASE pred[b] = <<>>
        <3>1. Range(pred[b]) = {}
            BY <2>2 DEF Range
        <3>2. QED
            BY <1>4, <3>1, OrderedFacts
    <2>3. QED
        BY <2>1, <2>2
<1>6. b \in Has /\ pred[b] = <<>> /\ Range(pred[b]) = {}
    <2>1. idom[b] = b /\ b \in Blocks /\ NoBlock \notin Blocks /\ pred[b] = <<>>
        BY <1>1, <1>4, <1>5, OrderedFacts DEF IdomInv
    <2>2. QED
        BY <2>1 DEF Has, Range
<1>7. /\ Walked' = Walked /\ Finished' = Finished /\ pred' = pred
      /\ Has' = Has /\ \A x : Above(x)' = Above(x)
      /\ \A g : ExactIdom(g)' <=> ExactIdom(g)
    BY <1>1, IdomKept DEF Walked, Finished, graphVars
<1>8. IdomInv'
    <2>1. \A x, y : Ahead(x, y) => Ahead(x, y)'
        BY <1>1 DEF Ahead
    <2>2. QED
        BY <1>1, <1>7, <2>1, IdomKept
<1>9. ~changed' => Settled'
    <2>1. ASSUME Settled
          PROVE  Settled'
        <3>1. ASSUME NEW g \in Walked, NEW c \in (Swept' \cap Reached(g)) \ {Entry(g)},
                     NEW p \in Range(pred[c]) \cap Has
              PROVE  idom[c] \in Above(p)
            <4>1. c \in Swept
                BY <1>3, <1>6, <3>1
            <4>2. QED
                BY <2>1, <3>1, <4>1 DEF Settled
        <3>2. \A g : Reached(g)' = Reached(g) /\ Entry(g)' = Entry(g)
            BY GraphStill
        <3>3. QED
            BY <1>1, <1>7, <3>1, <3>2 DEF Settled
    <2>2. QED
        BY <1>1, <2>1
<1>10. QED
    BY <1>1, <1>3, <1>6, <1>7, <1>8, <1>9 DEF SweepInv

\* The sweep recomputes a block: what it finds is a dominator in the making,
\* and in a function whose sweeps are over the one it was.
LEMMA SweepComputes ==
    ASSUME Ordered, SweepInv, UNCHANGED graphVars, IdomOfBlock, NEW b, b = postOrder[at],
           b # Entry(current), pred[b] # <<>>
    PROVE  SweepInv'
<1> SUFFICES ASSUME ~thrown'
             PROVE  SweepInv'
    BY DEF SweepInv
<1>1. /\ stage = "idom" /\ stage' = "idom" /\ at > 0 /\ at' = at - 1 /\ ~thrown
      /\ UNCHANGED <<current, postOrder>>
      /\ NewIdom(b) # NoBlock /\ idom' = [idom EXCEPT ![b] = NewIdom(b)]
      /\ changed' = (changed \/ NewIdom(b) # idom[b])
      /\ IdomInv /\ Swept \subseteq Has /\ (~changed => Settled)
      /\ \A f \in Finished : ExactIdom(f)
    BY DEF IdomOfBlock, SweepInv
<1>2. PICK r : r = NewIdom(b)
    OBVIOUS
<1>3. /\ at \in Nat /\ at <= Len(postOrder) /\ postOrder \in Seq(Blocks) /\ IsInjective(postOrder)
      /\ current \in DOMAIN functions /\ DOMAIN functions = 1 .. Len(functions)
      /\ idom \in [Blocks -> Blocks \cup {NoBlock}] /\ IdomTyped
    BY <1>1, OrderedTypes
<1>4. /\ b \in Numbered /\ Swept' = Swept \cup {b}
      /\ \A p : Ahead(p, b) => p \in Swept
    <2>1. at \in 1 .. Len(postOrder) /\ Len(postOrder) \in Nat /\ DOMAIN postOrder = 1 .. Len(postOrder)
        BY <1>1, <1>3
    <2>2. (at' + 1 .. Len(postOrder')) = (at + 1 .. Len(postOrder)) \cup {at}
        BY <1>1, <2>1
    <2>3. b \in Numbered
        BY <2>1 DEF Numbered, Range
    <2>4. Swept' = {postOrder[i] : i \in (at + 1 .. Len(postOrder)) \cup {at}}
        BY <1>1, <2>2 DEF Swept
    <2>5. ASSUME NEW p, Ahead(p, b)
          PROVE  p \in Swept
        <3>1. PICK i \in DOMAIN postOrder, j \in DOMAIN postOrder :
                  j < i /\ postOrder[i] = p /\ postOrder[j] = b
            BY <2>5 DEF Ahead
        <3>2. j = at
            BY <1>3, <2>1, <3>1 DEF IsInjective
        <3>3. i \in at + 1 .. Len(postOrder)
            BY <2>1, <3>1, <3>2
        <3>4. QED
            BY <3>1, <3>3 DEF Swept
    <2>6. QED
        BY <2>3, <2>4, <2>5 DEF Swept
<1>5. PICK f \in Walked : b \in Reached(f)
    BY <1>1, <1>4, HomeFacts
<1>6. /\ b \in Blocks /\ b # Entry(f) /\ f \in DOMAIN functions /\ Reached(f) \subseteq Numbered
      /\ NoBlock \notin Blocks
    BY <1>5, OrderedFacts
<1>7. PICK q \in Range(pred[b]) \cap Reached(f) : Ahead(q, b)
    BY <1>5, <1>6, OrderedFacts
<1>8. q \in Has
    BY <1>1, <1>4, <1>7
<1>9. /\ r \in Reached(f) \cap Has
      /\ \A p \in Range(pred[b]) \cap Has : r \in Above(p)
      /\ \A d : (\A p \in Range(pred[b]) \cap Has : Over(f, d, p)) => Over(f, d, r)
    BY <1>1, <1>2, <1>5, <1>7, <1>8, NewIdomFacts
<1>10. Ahead(r, b) /\ r # b
    <2>1. r \in Above(q) /\ q \in Reached(f) \cap Has
        BY <1>7, <1>8, <1>9
    <2>2. r = q \/ Ahead(r, q)
        BY <1>1, <2>1, ChainFacts
    <2>3. QED
        BY <1>3, <1>7, <2>2, AheadFacts
<1>11. \A d : Over(f, d, b) /\ d # b => Over(f, d, r)
    <2>1. Range(pred[b]) \cap Has \subseteq Range(pred[b]) \cap Reached(f)
        <3>1. Has \subseteq Numbered
            BY <1>1, OrderedFacts DEF IdomInv
        <3>2. QED
            BY <1>5, <3>1, OrderedFacts
    <2>2. ASSUME NEW d, Over(f, d, b), d # b
          PROVE  Over(f, d, r)
        <3>1. \A p \in Range(pred[b]) \cap Has : Over(f, d, p)
            BY <1>6, <2>1, <2>2, OverFacts DEF Ordered
        <3>2. QED
            BY <1>9, <3>1
    <2>3. QED
        BY <2>2
<1>12. /\ Has' = Has \cup {b} /\ idom'[b] = r /\ r # NoBlock
       /\ \A c \in Blocks : c # b => idom'[c] = idom[c]
    <2>1. Blocks' = Blocks
        BY GraphStill
    <2>2. QED
        BY <1>1, <1>2, <1>3, <1>6, <2>1 DEF Has
<1>13. /\ Walked' = Walked /\ Finished' = Finished /\ pred' = pred
       /\ \A g : Reached(g)' = Reached(g) /\ Entry(g)' = Entry(g)
       /\ \A x, y : Ahead(x, y) <=> Ahead(x, y)'
    BY <1>1, GraphStill DEF Walked, Finished, graphVars, Ahead
<1>14. \A g \in Walked : Reached(g) \subseteq Blocks /\ Entry(g) \in Reached(g) /\ Entry(g) # b
    <2>1. ASSUME NEW g \in Walked
          PROVE  Reached(g) \subseteq Blocks /\ Entry(g) \in Reached(g) /\ pred[Entry(g)] = <<>>
        BY OrderedFacts
    <2>2. QED
        BY <2>1
<1>15. ClimbsRight(f, b)'
    <2>1. r \in Has' \cap Reached(f)' /\ Ahead(r, b)'
        BY <1>9, <1>10, <1>12, <1>13
    <2>2. \A d : Over(f, d, b)' /\ d # b => Over(f, d, r)'
        BY <1>11, OverStill
    <2>3. \A d : Over(f, d, b)' /\ d # b => Over(f, d, idom[b])'
        BY <1>12, <2>2 DEF Over
    <2>4. Ahead(idom[b], b)'
        BY <1>12, <2>1 DEF Ahead
    <2>5. QED
        BY <1>12, <2>1, <2>3, <2>4 DEF ClimbsRight
<1>16. IdomInv'
    <2>1. Has' \subseteq UNION {Reached(g)' : g \in Walked'}
        BY <1>1, <1>5, <1>12, <1>13 DEF IdomInv
    <2>2. \A g \in Walked' : idom'[Entry(g)'] = Entry(g)'
        BY <1>1, <1>12, <1>13, <1>14 DEF IdomInv
    <2>3. ASSUME NEW g \in Walked', NEW c \in (Reached(g)' \cap Has') \ {Entry(g)'}
          PROVE  ClimbsRight(g, c)'
        <3>1. g \in Walked /\ c \in Reached(g) \ {Entry(g)} /\ c \in Blocks
            BY <1>13, <1>14
        <3>2. CASE c = b
            <4>1. g = f
                BY <1>5, <3>1, <3>2, HomeFacts
            <4>2. QED
                BY <1>15, <3>2, <4>1
        <3>3. CASE c # b
            <4>1. ClimbsRight(g, c) /\ idom'[c] = idom[c] /\ Has \subseteq Has'
                BY <1>1, <1>12, <2>3, <3>1, <3>3 DEF IdomInv
            <4>2. QED
                BY <1>13, <4>1, ClimbsStill
        <3>4. QED
            BY <3>2, <3>3
    <2>4. QED
        BY <2>1, <2>2, <2>3 DEF IdomInv
<1>17. ASSUME NEW g \in Finished
       PROVE  ExactIdom(g)'
    <2>1. g \in Walked /\ ExactIdom(g)
        BY <1>1, <1>3, <1>17 DEF Finished, Walked
    <2>2. ASSUME NEW c \in Reached(g) \ {Entry(g)}
          PROVE  idom'[c] # NoBlock /\ Over(g, idom[c], c)'
        <3>1. CASE c = b
            <4>1. g = f
                BY <1>5, <2>1, <2>2, <3>1, HomeFacts
            <4>2. Reached(f) \subseteq Has /\ \A x \in Reached(f) : \A d \in Above(x) : Over(f, d, x)
                BY <1>1, <2>1, <4>1, ChainExact
            <4>3. \A p \in Range(pred[b]) \cap Reached(f) : Over(f, r, p)
                BY <1>9, <4>2
            <4>4. Over(f, r, b)
                BY <1>5, <1>6, <1>9, <4>3, OverFacts DEF Ordered
            <4>5. Over(f, r, b)'
                BY <4>4, OverStill
            <4>6. QED
                BY <1>12, <3>1, <4>1, <4>5 DEF Over
        <3>2. CASE c # b
            <4>1. idom[c] # NoBlock /\ Over(g, idom[c], c)
                BY <2>1, <2>2 DEF ExactIdom
            <4>2. idom'[c] = idom[c] /\ Has \subseteq Has'
                BY <1>12, <1>14, <2>1, <2>2, <3>2
            <4>3. Over(g, idom[c], c)'
                BY <1>13, <4>1, <4>2, ClimbsStill
            <4>4. QED
                BY <4>1, <4>2, <4>3
        <3>3. QED
            BY <3>1, <3>2
    <2>3. QED
        BY <1>13, <2>2 DEF ExactIdom
<1>18. ASSUME ~changed'
       PROVE  Settled'
    <2>1. Settled /\ idom' = idom
        BY <1>1, <1>2, <1>3, <1>18
    <2>2. Has' = Has /\ \A x : Above(x)' = Above(x)
        BY <2>1, IdomKept
    <2>3. ASSUME NEW g \in Walked, NEW c \in (Swept' \cap Reached(g)) \ {Entry(g)},
                 NEW p \in Range(pred[c]) \cap Has
          PROVE  idom[c] \in Above(p)
        <3>1. CASE c \in Swept
            BY <2>1, <2>3, <3>1 DEF Settled
        <3>2. CASE c = b
            BY <1>9, <1>12, <2>1, <2>3, <3>2
        <3>3. QED
            BY <1>4, <3>1, <3>2
    <2>4. QED
        BY <1>13, <2>1, <2>2, <2>3 DEF Settled
<1>19. QED
    BY <1>1, <1>4, <1>12, <1>13, <1>16, <1>17, <1>18 DEF SweepInv

\* The other steps change no entry.
LEMMA SweepsKept ==
    ASSUME SweepInv, UNCHANGED graphVars, idom' = idom, ~thrown' => ~thrown, Walked' = Walked,
           \A a, b : Ahead(a, b) => Ahead(a, b)', stage' # "idom", Finished' \subseteq Finished
    PROVE  SweepInv'
<1>1. /\ IdomInv => IdomInv'
      /\ \A f : ExactIdom(f)' <=> ExactIdom(f)
    BY IdomKept
<1>2. QED
    BY <1>1 DEF SweepInv

\* The next sweep, or the end of them.
LEMMA SweepsEnd ==
    ASSUME Ordered, SweepInv, UNCHANGED graphVars, SweepAgain \/ StartFrontier
    PROVE  SweepInv'
<1>1. /\ stage = "idom" /\ at = 0 /\ ~thrown /\ UNCHANGED <<current, postOrder, idom, thrown>>
      /\ IdomInv /\ Swept \subseteq Has /\ (~changed => Settled)
      /\ \A f \in Finished : ExactIdom(f)
    BY DEF SweepAgain, StartFrontier, SweepInv, domMaps
<1>2. /\ postOrder \in Seq(Blocks) /\ current \in Nat /\ current \in DOMAIN functions
      /\ DOMAIN functions = 1 .. Len(functions) /\ Len(postOrder) \in Nat
    BY <1>1, OrderedTypes
<1>3. /\ Has' = Has /\ \A f : ExactIdom(f)' <=> ExactIdom(f)
    BY <1>1, IdomKept
<1>4. CASE SweepAgain
    <2>1. stage' = "idom" /\ ~changed' /\ at' = Len(postOrder)
        BY <1>1, <1>4 DEF SweepAgain
    <2>2. Walked' = Walked /\ Finished' = Finished /\ \A a, b : Ahead(a, b) => Ahead(a, b)'
        BY <1>1, <2>1 DEF Walked, Finished, Ahead
    <2>3. IdomInv'
        BY <1>1, <2>2, IdomKept
    <2>4. (at + 1 .. Len(postOrder))' = {}
        BY <1>1, <1>2, <2>1
    <2>5. Swept' = {}
        BY <2>4 DEF Swept
    <2>6. Settled'
        BY <2>5 DEF Settled
    <2>7. QED
        BY <1>1, <1>3, <2>2, <2>3, <2>5, <2>6 DEF SweepInv
<1>5. CASE StartFrontier
    <2>1. stage' = "frontier" /\ ~changed
        BY <1>5 DEF StartFrontier
    <2>2. /\ Walked' = Walked /\ Walked = 1 .. current /\ Finished' = 1 .. current
          /\ \A a, b : Ahead(a, b) => Ahead(a, b)'
        BY <1>1, <2>1 DEF Walked, Finished, Ahead
    <2>3. IdomInv'
        BY <1>1, <2>2, IdomKept
    <2>4. \A f \in Walked : ExactIdom(f)
        BY <1>1, <2>1, SettledExact
    <2>5. QED
        BY <1>3, <2>1, <2>2, <2>3, <2>4 DEF SweepInv
<1>6. QED
    BY <1>4, <1>5

\* The steps while the analyses run.
LEMMA AnalysisCases ==
    ASSUME [Next]_vars, pass' = "loops"
    PROVE  \/ StartLoopDetection
           \/ /\ pass = "loops" /\ UNCHANGED graphVars
              /\ NextFunction \/ DominatorsStep \/ FinishFunc \/ UNCHANGED dvars
<1>1. CASE Build \/ StartDeadCode \/ ClearBasicBlocks \/ ClearAgain
    BY <1>1 DEF Build, StartDeadCode, ClearBasicBlocks, ClearAgain
<1>2. CASE NextFunction
    BY <1>2 DEF NextFunction, bvars, graphVars
<1>3. CASE Analyse
    BY <1>3 DEF Analyse, StartLoops, bvars, graphVars
<1>4. CASE UNCHANGED vars
    BY <1>4 DEF vars, bvars, graphVars
<1>5. QED
    BY <1>1, <1>2, <1>3, <1>4 DEF Next, Passes, Rest

LEMMA OrderedNow ==
    ASSUME ProgramInv, AnalysisInv, EntryInv, Numbering, pass = "loops"
    PROVE  Ordered /\ DfsInv
<1>1. Graph
    BY DEF Graph, GraphInv, ProgramInv, BuilderInv, BuilderTypeOK, EntryInv
<1>2. QED
    BY <1>1 DEF Ordered, AnalysisInv, Numbering

Sweeps == pass = "loops" => SweepInv

LEMMA SweepsStep ==
    ASSUME ProgramInv, AnalysisInv, EntryInv, Numbering, Sweeps, [Next]_vars
    PROVE  Sweeps'
<1> SUFFICES ASSUME pass' = "loops"
             PROVE  SweepInv'
    BY DEF Sweeps
<1>1. CASE StartLoopDetection
    <2>1. /\ current' = 0 /\ stage' = "done" /\ ~thrown' /\ idom' = [b \in Blocks |-> NoBlock]
          /\ Blocks' = Blocks
        BY <1>1, GraphStill DEF StartLoopDetection, NewDominators, bvars, graphVars
    <2>2. Has' = {} /\ Walked' = {} /\ Finished' = {}
        BY <2>1 DEF Has, Walked, Finished
    <2>3. QED
        BY <2>1, <2>2 DEF SweepInv, IdomInv
<1>2. CASE pass = "loops" /\ UNCHANGED graphVars
    <2>1. Ordered /\ DfsInv /\ SweepInv /\ WalkInv
        BY <1>2, OrderedNow DEF Sweeps, Ordered
    <2>2. postOrder \in Seq(Blocks) /\ current \in Int
        BY <2>1, OrderedTypes DEF Ordered, WalkInv, WalkTypeOK
    <2>3. CASE NextFunction
        <3>1. RunOnFunc(cursor + 1) /\ cursor = current
            BY <2>1, <2>3 DEF NextFunction, Ordered
        <3>2. /\ stage = "done" /\ stage' = "dfs" /\ current' = current + 1
              /\ UNCHANGED <<idom, thrown, postOrder>>
            BY <3>1 DEF RunOnFunc
        <3>3. Walked' = Walked /\ Finished' = Finished /\ \A a, b : Ahead(a, b) => Ahead(a, b)'
            BY <2>2, <3>2 DEF Walked, Finished, Ahead
        <3>4. QED
            BY <1>2, <2>1, <3>2, <3>3, SweepsKept
    <2>4. CASE DfsEnter \/ DfsReturn
        <3>1. /\ stage = "dfs" /\ stage' = "dfs" /\ UNCHANGED <<current, idom, thrown>>
            BY <2>4 DEF DfsEnter, DfsReturn, domMaps
        <3>2. Walked' = Walked /\ Finished' = Finished
            BY <3>1 DEF Walked, Finished
        <3>3. \A a, b : Ahead(a, b) => Ahead(a, b)'
            <4>1. CASE postOrder' = postOrder
                BY <4>1 DEF Ahead
            <4>2. CASE DfsReturn
                <5>1. Last(visits) \in Blocks
                    BY <1>2, <2>1, <4>2, WalkBlocks DEF DfsReturn
                <5>2. PICK e \in Blocks : postOrder' = Append(postOrder, e)
                    BY <4>2, <5>1 DEF DfsReturn
                <5>3. QED
                    BY <2>2, <5>2, AheadGrows
            <4>3. QED
                BY <2>4, <4>1, <4>2 DEF DfsEnter, domMaps
        <3>4. QED
            BY <1>2, <2>1, <3>1, <3>2, <3>3, SweepsKept
    <2>5. CASE StartIdom
        BY <1>2, <2>1, <2>5, SweepsBegin
    <2>6. CASE IdomOfBlock
        <3>1. PICK b : b = postOrder[at]
            OBVIOUS
        <3>2. QED
            BY <1>2, <2>1, <2>6, <3>1, SweepSkips, SweepComputes
    <2>7. CASE SweepAgain \/ StartFrontier
        BY <1>2, <2>1, <2>7, SweepsEnd
    <2>8. CASE FrontierOfBlock \/ CreateTree \/ TreeEnter \/ TreeReturn \/ FinishFunc
        <3>1. /\ UNCHANGED <<current, idom, postOrder>> /\ (~thrown' => ~thrown)
              /\ stage \in {"frontier", "tree"} /\ stage' \in {"frontier", "tree", "done"}
            BY <2>8 DEF FrontierOfBlock, CreateTree, TreeEnter, TreeReturn, FinishFunc, domMaps
        <3>2. Walked' = Walked /\ Finished' = Finished /\ \A a, b : Ahead(a, b) => Ahead(a, b)'
            BY <3>1 DEF Walked, Finished, Ahead
        <3>3. QED
            BY <1>2, <2>1, <3>1, <3>2, SweepsKept
    <2>9. CASE UNCHANGED dvars
        <3>1. UNCHANGED <<current, stage, idom, postOrder, thrown, at, changed>>
            BY <2>9 DEF dvars, domMaps, domLocals
        <3>2. /\ Walked' = Walked /\ Finished' = Finished /\ Swept' = Swept /\ pred' = pred
              /\ \A a, b : Ahead(a, b) => Ahead(a, b)'
              /\ \A f : Reached(f)' = Reached(f) /\ Entry(f)' = Entry(f)
            BY <1>2, <3>1, GraphStill DEF Walked, Finished, Ahead, Swept, graphVars
        <3>3. /\ IdomInv => IdomInv'
              /\ Has' = Has /\ \A x : Above(x)' = Above(x)
              /\ \A f : ExactIdom(f)' <=> ExactIdom(f)
            BY <1>2, <3>1, <3>2, IdomKept
        <3>4. Settled => Settled'
            BY <3>1, <3>2, <3>3 DEF Settled
        <3>5. QED
            BY <2>1, <3>1, <3>2, <3>3, <3>4 DEF SweepInv
    <2>10. QED
        BY <1>2, <2>3, <2>4, <2>5, <2>6, <2>7, <2>8, <2>9, AnalysisCases, <1>1 DEF DominatorsStep
<1>3. QED
    BY <1>1, <1>2, AnalysisCases

LEMMA SweepsHold == Spec => []Sweeps
<1>1. Init => Sweeps
    BY DEF Init, Sweeps
<1>2. Init => AnalysisInv
    BY DEF Init, AnalysisInv
<1>3. ProgramInv /\ AnalysisInv /\ [Next]_vars => AnalysisInv'
    BY AnalysisStep
<1>4. ProgramInv /\ AnalysisInv /\ EntryInv /\ Numbering /\ Sweeps /\ [Next]_vars => Sweeps'
    BY SweepsStep
<1>5. QED
    BY <1>1, <1>2, <1>3, <1>4, ProgramInvariant, EntryInvariant, NumberingHolds, PTL DEF Spec

-----------------------------------------------------------------------------
\* The steps of the runner of create_dominance_frontier.
LEMMA RunnersSteps ==
    ASSUME IdomTyped, NEW p \in Blocks, NEW stop
    PROVE  \E known \in [0 .. Len(postOrder) -> SUBSET (Blocks \cup {NoBlock})] :
               /\ Runners(p, stop) = known[Len(postOrder)] /\ known[0] = {p} \ {stop}
               /\ \A n \in 1 .. Len(postOrder) : known[n] = known[n - 1] \cup ({idom[x] : x \in known[n - 1] \ {NoBlock}} \ {stop})
<1> DEFINE N == Len(postOrder)
           S == SUBSET (Blocks \cup {NoBlock})
           s0 == {p} \ {stop}
           E(last) == last \cup ({idom[x] : x \in last \ {NoBlock}} \ {stop})
           g == [n \in 1 .. N |-> [x \in S |-> E(x)]]
           Body(f, n) == IF n = 0 THEN s0 ELSE E(f[n - 1])
           Good(f) == f = [n \in 0 .. N |-> Body(f, n)]
           known == CHOOSE f : Good(f)
<1>1. N \in Nat /\ s0 \in S /\ \A x \in S : E(x) \in S
    BY DEF IdomTyped
<1>2. Runners(p, stop) = known[N]
    BY DEF Runners
<1> HIDE DEF N, S, s0, E
<1>3. g \in Rounds(N, S) /\ \A n \in 1 .. N : \A x \in S : g[n][x] = E(x)
    BY <1>1 DEF Rounds
<1> HIDE DEF g
<1>4. PICK f : Stepwise(f, N, S, s0, g)
    BY <1>1, <1>3, Recursion
<1>5. \A n \in 0 .. N : f[n] = Body(f, n)
    <2>1. f \in [0 .. N -> S] /\ f[0] = s0 /\ \A n \in 1 .. N : f[n] = g[n][f[n - 1]]
        BY <1>4 DEF Stepwise
    <2>2. \A n \in 0 .. N : n = 0 \/ (n # 0 /\ n \in 1 .. N /\ n - 1 \in 0 .. N)
        BY <1>1
    <2>3. QED
        BY <1>3, <2>1, <2>2
<1>6. Good(f)
    <2>1. f = [n \in 0 .. N |-> f[n]]
        BY <1>4 DEF Stepwise
    <2> HIDE DEF Body
    <2>2. QED
        BY <1>5, <2>1
<1>7. Good(known)
    <2> HIDE DEF Good
    <2>1. QED
        BY <1>6
<1> HIDE DEF known
<1>8. /\ known = [n \in 0 .. N |-> known[n]]
      /\ \A n \in 0 .. N : known[n] = Body(known, n)
    <2> HIDE DEF Body
    <2>1. \A n \in 0 .. N : known[n] = Body(known, n)
        BY <1>7
    <2>2. QED
        BY <1>7, <2>1
<1>9. known[0] = s0 /\ \A n \in 1 .. N : known[n] = E(known[n - 1])
    <2>1. 0 \in 0 .. N /\ \A n \in 1 .. N : n \in 0 .. N /\ n # 0
        BY <1>1
    <2>2. QED
        BY <1>8, <2>1
<1>10. Stepwise(known, N, S, s0, g)
    <2>1. \A n \in 1 .. N : known[n - 1] \in S => known[n] = g[n][known[n - 1]]
        BY <1>3, <1>9
    <2> HIDE DEF Body
    <2>2. QED
        BY <1>1, <1>3, <1>8, <1>9, <2>1, Stays
<1>11. QED
    BY <1>2, <1>9, <1>10 DEF Stepwise, N, S, s0, E

\* Where the immediate dominators are known, a runner passes the dominators of
\* the predecessor it starts from that do not strictly dominate the block.
LEMMA RunnersFacts ==
    ASSUME Ordered, IdomInv, NEW f \in Walked, ExactIdom(f),
           NEW b \in Reached(f) \ {Entry(f)}, NEW p \in Range(pred[b]) \cap Reached(f)
    PROVE  \A x : x \in Runners(p, idom[b]) <=> Over(f, x, p) /\ ~(x # b /\ Over(f, x, b))
<1> DEFINE N == Len(postOrder)
           s == idom[b]
           T == {x \in Reached(f) : Over(f, x, p) /\ Over(f, s, x) /\ x # s}
<1>1. /\ IdomTyped /\ postOrder \in Seq(Blocks) /\ IsInjective(postOrder) /\ N \in Nat
      /\ f \in DOMAIN functions /\ Reached(f) \subseteq Blocks /\ Reached(f) \subseteq Numbered
      /\ NoBlock \notin Blocks /\ Entry(f) \in Reached(f) /\ Graph
      /\ \A d, c : Over(f, d, c) /\ d # c => Ahead(d, c)
      /\ \A d, c : Over(f, d, c) => d \in Reached(f) /\ c \in Reached(f)
      /\ \A c \in Reached(f) : Over(f, c, c) /\ Over(f, Entry(f), c)
      /\ \A d, c, e : Over(f, d, c) /\ Over(f, c, e) => Over(f, d, e)
    <2>1. f \in DOMAIN functions /\ Graph
        BY OrderedFacts DEF Ordered
    <2>2. Len(postOrder) \in Nat
        BY OrderedTypes
    <2>3. QED
        BY <2>1, <2>2, OrderedTypes, OrderedFacts, OverFacts
<1>2. \A y \in Reached(f) \ {Entry(f)} : /\ y \in Has /\ Over(f, idom[y], y) /\ Ahead(idom[y], y)
                                         /\ \A d : Over(f, d, y) /\ d # y => Over(f, d, idom[y])
    <2>1. \A y \in Reached(f) \ {Entry(f)} : y \in Has /\ Over(f, idom[y], y)
        BY <1>1 DEF ExactIdom, Has
    <2>2. QED
        BY <2>1 DEF IdomInv, ClimbsRight
<1>3. /\ Over(f, s, b) /\ Ahead(s, b) /\ s # b /\ Over(f, s, p) /\ s \in Reached(f)
      /\ \A d : Over(f, d, b) /\ d # b <=> Over(f, d, s)
    <2>1. Over(f, s, b) /\ Ahead(s, b) /\ s # b /\ s \in Reached(f)
        BY <1>1, <1>2, AheadFacts
    <2>2. Over(f, s, p)
        BY <1>1, <2>1, OverFacts
    <2>3. ASSUME NEW d, Over(f, d, s)
          PROVE  Over(f, d, b) /\ d # b
        <3>1. d = s \/ Ahead(d, s)
            BY <1>1, <2>3
        <3>2. QED
            BY <1>1, <2>1, <2>3, <3>1, AheadFacts
    <2>4. \A d : Over(f, d, b) /\ d # b => Over(f, d, s)
        BY <1>2
    <2>5. QED
        BY <2>1, <2>2, <2>3, <2>4
<1>4. p \in Blocks
    BY <1>1
<1> HIDE DEF s
<1> PICK known \in [0 .. N -> SUBSET (Blocks \cup {NoBlock})] :
            /\ Runners(p, s) = known[N] /\ known[0] = {p} \ {s}
            /\ \A n \in 1 .. N : known[n] = known[n - 1] \cup ({idom[x] : x \in known[n - 1] \ {NoBlock}} \ {s})
    <2>1. IdomTyped
        BY <1>1
    <2>2. QED
        BY <1>4, <2>1, RunnersSteps
<1> HIDE DEF N
<1>5. ASSUME NEW n \in 0 .. N, n < N
      PROVE  n + 1 \in 0 .. N /\ known[n + 1] = known[n] \cup ({idom[x] : x \in known[n] \ {NoBlock}} \ {s})
    <2>1. n + 1 \in 1 .. N /\ n + 1 \in 0 .. N /\ (n + 1) - 1 = n
        BY <1>1, <1>5
    <2>2. QED
        BY <2>1
<1>6. ASSUME NEW y \in T
      PROVE  y \in Reached(f) \ {Entry(f)} /\ (idom[y] # s => idom[y] \in T)
    <2>1. y # Entry(f)
        BY <1>1, <1>6, OverFacts
    <2>2. Over(f, idom[y], y) /\ Over(f, s, idom[y])
        BY <1>2, <1>6, <2>1
    <2>3. QED
        BY <1>1, <1>6, <2>1, <2>2
<1> DEFINE Sound == {n \in 0 .. N :
               /\ known[n] \subseteq T
               /\ \A y \in known[n] : Number(y) > n \/ \E m \in 0 .. N : m < n /\ y \in known[m]}
<1>7. 0 .. N \subseteq Sound
    <2>1. 0 \in Sound
        <3>1. known[0] \subseteq T
            BY <1>1, <1>3
        <3>2. \A y \in Reached(f) : Number(y) > 0
            <4>1. ASSUME NEW y \in Reached(f)
                  PROVE  Number(y) \in 1 .. N
                BY <1>1, NumberFacts DEF N
            <4>2. QED
                BY <1>1, <4>1
        <3>3. QED
            BY <1>1, <3>1, <3>2
    <2>2. ASSUME NEW n \in Sound, n < N
          PROVE  n + 1 \in Sound
        <3>1. n \in 0 .. N /\ n + 1 \in 0 .. N /\ known[n] \subseteq T
              /\ known[n + 1] = known[n] \cup ({idom[x] : x \in known[n] \ {NoBlock}} \ {s})
            BY <1>5, <2>2
        <3>2. known[n + 1] \subseteq T
            BY <1>6, <3>1
        <3>3. ASSUME NEW y \in known[n + 1], y \notin known[n]
              PROVE  Number(y) > n + 1 \/ \E m \in 0 .. N : m < n + 1 /\ y \in known[m]
            <4>1. PICK x \in known[n] : y = idom[x] /\ y # s
                BY <3>1, <3>3
            <4>2. x \in Reached(f) \ {Entry(f)} /\ y \in T
                BY <1>6, <3>1, <4>1
            <4>3. CASE Number(x) > n
                <5>1. Ahead(y, x) /\ x \in Numbered /\ y \in Numbered
                    BY <1>1, <1>2, <4>1, <4>2
                <5>2. Number(x) < Number(y)
                    BY <1>1, <5>1, AheadFacts
                <5>3. Number(x) \in Nat /\ Number(y) \in Nat
                    BY <1>1, <5>1, NumberFacts
                <5>4. QED
                    BY <1>1, <3>1, <4>3, <5>2, <5>3
            <4>4. CASE \E m \in 0 .. N : m < n /\ x \in known[m]
                <5>1. PICK m \in 0 .. N : m < n /\ x \in known[m]
                    BY <4>4
                <5>2. m < N /\ m + 1 < n + 1
                    BY <1>1, <3>1, <5>1
                <5>3. m + 1 \in 0 .. N /\ known[m + 1] = known[m] \cup ({idom[z] : z \in known[m] \ {NoBlock}} \ {s})
                    BY <1>5, <5>1, <5>2
                <5>4. x # NoBlock
                    BY <1>1, <4>2
                <5>5. y \in known[m + 1]
                    BY <4>1, <5>1, <5>3, <5>4
                <5>6. QED
                    BY <5>2, <5>3, <5>5
            <4>5. QED
                BY <2>2, <4>1, <4>3, <4>4
        <3>4. \A y \in known[n] : \E m \in 0 .. N : m < n + 1 /\ y \in known[m]
            BY <1>1, <3>1
        <3>5. QED
            BY <3>1, <3>2, <3>3, <3>4
    <2>3. Sound \in SUBSET (0 .. N)
        OBVIOUS
    <2> HIDE DEF Sound
    <2>4. \A n \in 0 .. N : n \in Sound
        BY <1>1, <2>1, <2>2, <2>3, IntervalAll
    <2>5. QED
        BY <2>4
<1>8. ASSUME NEW m \in 0 .. N
      PROVE  known[m] \subseteq known[N]
    <2> DEFINE Later == {n \in 0 .. N : m <= n => known[m] \subseteq known[n]}
    <2>1. 0 \in Later
        <3>1. m <= 0 => m = 0
            BY <1>1
        <3>2. QED
            BY <1>1, <3>1
    <2>2. ASSUME NEW n \in Later, n < N
          PROVE  n + 1 \in Later
        <3>1. n \in 0 .. N /\ n + 1 \in 0 .. N /\ known[n] \subseteq known[n + 1]
            BY <1>5, <2>2
        <3>2. m <= n + 1 => m <= n \/ m = n + 1
            BY <1>1, <3>1
        <3>3. QED
            BY <2>2, <3>1, <3>2
    <2>3. Later \in SUBSET (0 .. N)
        OBVIOUS
    <2> HIDE DEF Later
    <2>4. N \in Later
        BY <1>1, <2>1, <2>2, <2>3, IntervalInduction
    <2>5. m <= N
        BY <1>1
    <2>6. QED
        BY <2>4, <2>5 DEF Later
<1>9. known[N] \subseteq T
    <2>1. N \in Sound
        BY <1>1, <1>7
    <2>2. QED
        BY <2>1
<1>10. \A y \in known[N] : idom[y] # s => idom[y] \in known[N]
    <2>1. ASSUME NEW y \in known[N], idom[y] # s
          PROVE  idom[y] \in known[N]
        <3>1. N \in Sound /\ y \in Reached(f)
            BY <1>1, <1>7, <1>9, <2>1
        <3>2. Number(y) <= N /\ Number(y) \in Nat
            <4>1. Number(y) \in 1 .. N
                BY <1>1, <3>1, NumberFacts DEF N
            <4>2. QED
                BY <1>1, <4>1
        <3>3. PICK m \in 0 .. N : m < N /\ y \in known[m]
            BY <1>1, <2>1, <3>1, <3>2
        <3>4. m + 1 \in 0 .. N /\ known[m + 1] = known[m] \cup ({idom[z] : z \in known[m] \ {NoBlock}} \ {s})
            BY <1>5, <3>3
        <3>5. y # NoBlock
            BY <1>1, <3>1
        <3>6. QED
            BY <1>8, <2>1, <3>3, <3>4, <3>5
    <2>2. QED
        BY <2>1
<1> HIDE DEF Sound
<1>11. ASSUME NEW x, Over(f, x, p), ~Over(f, x, s)
       PROVE  x \in known[N]
    <2> DEFINE S == known[N] \cup {y \in Reached(f) : Over(f, y, s)}
    <2>1. p \in S
        <3>1. 0 \in 0 .. N /\ known[0] = {p} \ {s}
            BY <1>1
        <3>2. QED
            BY <1>1, <1>3, <1>8, <3>1
    <2>2. ASSUME NEW y \in S
          PROVE  idom[y] \in S
        <3>1. CASE y \in known[N]
            BY <1>1, <1>3, <1>10, <3>1
        <3>2. CASE Over(f, y, s) /\ y # Entry(f)
            BY <1>1, <1>2, <3>2
        <3>3. CASE y = Entry(f)
            BY <1>1, <1>3, <3>3 DEF IdomInv
        <3>4. QED
            BY <2>2, <3>1, <3>2, <3>3
    <2>3. Above(p) \subseteq S
        <3> HIDE DEF S
        <3>1. \A y \in S \cap Above(p) \cap Has : idom[y] \in S
            BY <2>2
        <3>2. QED
            BY <1>1, <1>4, <2>1, <3>1, AboveFacts
    <2>4. x \in Above(p)
        BY <1>11, ChainExact
    <2>5. QED
        BY <1>11, <2>3, <2>4
<1>12. ASSUME NEW x \in T
       PROVE  ~Over(f, x, s)
    <2>1. Ahead(s, x)
        BY <1>1, <1>12
    <2>2. QED
        BY <1>1, <1>12, <2>1, AheadFacts
<1>13. \A x : x \in known[N] <=> Over(f, x, p) /\ ~Over(f, x, s)
    BY <1>9, <1>11, <1>12
<1>14. Runners(p, idom[b]) = known[N]
    BY DEF s
<1>15. QED
    BY <1>3, <1>13, <1>14

\* A block that is not reached has no entry, and the runner that starts from
\* it comes to where there is none.
LEMMA RunnersAstray ==
    ASSUME Ordered, postOrder # <<>>, NEW p \in Blocks, p \notin Has, NEW stop
    PROVE  Runners(p, stop) \subseteq {p, NoBlock} /\ (stop \in Blocks /\ stop # p => NoBlock \in Runners(p, stop))
<1> DEFINE N == Len(postOrder)
<1>1. IdomTyped /\ N \in Nat /\ idom[p] = NoBlock /\ NoBlock \notin Blocks /\ p # NoBlock
    BY OrderedTypes DEF Has, Blocks, NoBlock
<1> PICK known \in [0 .. N -> SUBSET (Blocks \cup {NoBlock})] :
            /\ Runners(p, stop) = known[N] /\ known[0] = {p} \ {stop}
            /\ \A n \in 1 .. N : known[n] = known[n - 1] \cup ({idom[x] : x \in known[n - 1] \ {NoBlock}} \ {stop})
    BY <1>1, RunnersSteps
<1> HIDE DEF N
<1>2. ASSUME NEW n \in 0 .. N, n < N
      PROVE  n + 1 \in 0 .. N /\ known[n + 1] = known[n] \cup ({idom[x] : x \in known[n] \ {NoBlock}} \ {stop})
    <2>1. n + 1 \in 1 .. N /\ n + 1 \in 0 .. N /\ (n + 1) - 1 = n
        BY <1>1, <1>2
    <2>2. QED
        BY <2>1
<1> DEFINE Sound == {n \in 0 .. N : /\ known[n] \subseteq {p, NoBlock}
                                    /\ stop \in Blocks /\ stop # p => p \in known[n] /\ (n > 0 => NoBlock \in known[n])}
<1>3. N \in Sound
    <2>1. 0 \in Sound
        BY <1>1
    <2>2. ASSUME NEW n \in Sound, n < N
          PROVE  n + 1 \in Sound
        <3>1. n \in 0 .. N /\ n + 1 \in 0 .. N /\ known[n] \subseteq {p, NoBlock}
              /\ known[n + 1] = known[n] \cup ({idom[x] : x \in known[n] \ {NoBlock}} \ {stop})
            BY <1>2, <2>2
        <3>2. {idom[x] : x \in known[n] \ {NoBlock}} \subseteq {NoBlock}
            BY <1>1, <3>1
        <3>3. QED
            BY <1>1, <2>2, <3>1, <3>2
    <2>3. Sound \in SUBSET (0 .. N)
        OBVIOUS
    <2> HIDE DEF Sound
    <2>4. QED
        BY <1>1, <2>1, <2>2, <2>3, IntervalInduction
<1>4. N > 0
    BY <1>1 DEF N, IdomTyped
<1>5. QED
    BY <1>3, <1>4

-----------------------------------------------------------------------------
\* Block b joins paths of which block x dominates one up to the block, and it
\* is not strictly dominated by x.
JoinsAt(f, x, b) ==
    /\ b \in BlocksOf(f) /\ Len(pred[b]) >= 2
    /\ \E p \in Range(pred[b]) \cap Reached(f) : Over(f, x, p) /\ ~(x # b /\ Over(f, x, b))

\* The blocks create_dominance_frontier has passed.
Passed == {functions[current][i] : i \in 1 .. at - 1}

\* The functions whose dominance frontiers are found.
Mapped == IF stage \in {"tree", "done"} THEN 1 .. current ELSE 1 .. current - 1

FrontierNow(f, x) ==
    IF f \in Mapped THEN DominanceFrontier(Dominance(f), x)
    ELSE IF stage = "frontier" /\ f = current THEN {b \in Passed : JoinsAt(f, x, b)} ELSE {}

FrontInv ==
    /\ thrown => stage \in {"idom", "frontier"}
    /\ ~thrown => \A f \in DOMAIN functions : \A x \in Reached(f) : frontier[x] = FrontierNow(f, x)

\* The joins are the dominance frontier: a block with one predecessor is
\* strictly dominated by what dominates that one.
LEMMA JoinsExact ==
    ASSUME Ordered, NEW f \in Walked, NEW x \in Reached(f)
    PROVE  {b \in BlocksOf(f) : JoinsAt(f, x, b)} = DominanceFrontier(Dominance(f), x)
<1>1. /\ f \in DOMAIN functions /\ Reached(f) \subseteq Blocks /\ Graph /\ FlowGraphTypeOK /\ EdgesAgree
      /\ postOrder \in Seq(Blocks) /\ IsInjective(postOrder) /\ Reached(f) \subseteq BlocksOf(f)
      /\ \A b \in Reached(f) : Range(succ[b]) \subseteq Reached(f)
      /\ pred[Entry(f)] = <<>>
      /\ \A d, b : Over(f, d, b) /\ d # b => Ahead(d, b)
      /\ \A b \in Blocks : pred[b] \in Seq(Blocks)
    <2>1. f \in DOMAIN functions /\ Graph /\ FlowGraphTypeOK /\ EdgesAgree
        BY OrderedFacts DEF Ordered, Graph, GraphInv
    <2>2. \A b \in Blocks : pred[b] \in Seq(Blocks)
        BY <2>1, ListFacts
    <2>3. QED
        BY <2>1, <2>2, OrderedTypes, OrderedFacts, ReachedFacts DEF Graph
<1>2. \A b : b \in DominanceFrontier(Dominance(f), x) <=>
              /\ \E p \in Reached(f) : Over(f, x, p) /\ b \in Range(succ[p])
              /\ ~(x # b /\ Over(f, x, b))
    BY DominanceFacts
<1>3. \A p \in Reached(f), b \in BlocksOf(f) : b \in Range(succ[p]) <=> p \in Range(pred[b])
    BY <1>1 DEF EdgesAgree, Functions
<1>4. ASSUME NEW b, JoinsAt(f, x, b)
      PROVE  b \in DominanceFrontier(Dominance(f), x)
    BY <1>2, <1>3, <1>4 DEF JoinsAt
<1>5. ASSUME NEW b \in DominanceFrontier(Dominance(f), x)
      PROVE  JoinsAt(f, x, b)
    <2>1. PICK p \in Reached(f) : Over(f, x, p) /\ b \in Range(succ[p])
        BY <1>2
    <2>2. b \in Reached(f) /\ b \in BlocksOf(f) /\ b \in Blocks /\ p \in Range(pred[b])
        BY <1>1, <1>3, <2>1
    <2>3. b # Entry(f)
        <3>1. pred[b] # <<>>
            BY <1>1, <2>2 DEF Range
        <3>2. QED
            BY <1>1, <3>1
    <2>4. PICK q \in Range(pred[b]) \cap Reached(f) : Ahead(q, b)
        BY <2>2, <2>3, OrderedFacts
    <2>5. Len(pred[b]) >= 2
        <3>1. SUFFICES ASSUME ~(Len(pred[b]) >= 2)
                       PROVE  FALSE
            OBVIOUS
        <3>2. \A r \in Range(pred[b]) : r = p
            <4>1. pred[b] \in Seq(Blocks) /\ Len(pred[b]) \in Nat /\ DOMAIN pred[b] = 1 .. Len(pred[b])
                BY <1>1, <2>2
            <4>2. DOMAIN pred[b] \subseteq {1}
                BY <3>1, <4>1
            <4>3. QED
                BY <2>2, <4>2 DEF Range
        <3>3. q = p
            BY <2>4, <3>2
        <3>4. Over(f, x, b)
            BY <1>1, <2>1, <2>2, <2>3, <3>2, OverFacts
        <3>5. x = b
            BY <1>2, <1>5, <3>4
        <3>6. b = p \/ Ahead(b, p)
            BY <1>1, <2>1, <3>5
        <3>7. QED
            BY <1>1, <2>4, <3>3, <3>6, AheadFacts
    <2>6. QED
        BY <1>2, <1>5, <2>1, <2>2, <2>5 DEF JoinsAt
<1>6. QED
    BY <1>4, <1>5 DEF JoinsAt

\* Nothing of this changes while the graph stays what it is.
LEMMA FrontiersStill ==
    ASSUME UNCHANGED graphVars
    PROVE  /\ \A f, x, b : JoinsAt(f, x, b)' <=> JoinsAt(f, x, b)
           /\ \A f, x : DominanceFrontier(Dominance(f), x)' = DominanceFrontier(Dominance(f), x)
<1>1. functions' = functions /\ succ' = succ /\ pred' = pred
    BY DEF graphVars
<1>2. \A f, x, b : JoinsAt(f, x, b)' <=> JoinsAt(f, x, b)
    BY <1>1 DEF JoinsAt, BlocksOf, Over, Reached, ReachedWithout, Onwards, Entry, Range
<1>3. \A f, x : DominanceFrontier(Dominance(f), x)' = DominanceFrontier(Dominance(f), x)
    BY <1>1 DEF DominanceFrontier, StrictDominators, Dominance, Reached, ReachedWithout, Onwards, Entry, Range
<1>4. QED
    BY <1>2, <1>3

\* create_dominance_frontier passes a block: its runners pass the blocks in
\* whose frontier it is.
LEMMA FrontierAdds ==
    ASSUME Ordered, SweepInv, FrontInv, UNCHANGED graphVars, FrontierOfBlock
    PROVE  FrontInv'
<1> PICK f : f = current
    OBVIOUS
<1> DEFINE b == functions[f][at]
           R == IF Len(pred[b]) < 2 THEN {}
                ELSE UNION {Runners(p, idom[b]) : p \in Range(pred[b])}
<1>1. /\ stage = "frontier" /\ stage' = "frontier" /\ ~thrown /\ thrown' = (NoBlock \in R)
      /\ at <= Len(functions[f]) /\ at' = at + 1 /\ current' = current
      /\ frontier' = [x \in Blocks |-> IF x \in R THEN frontier[x] \cup {b} ELSE frontier[x]]
    BY DEF FrontierOfBlock
<1> SUFFICES ASSUME ~thrown'
             PROVE  \A g \in DOMAIN functions' : \A x \in Reached(g)' : frontier'[x] = FrontierNow(g, x)'
    BY <1>1 DEF FrontInv
<1>2. /\ IdomInv /\ \A g \in Finished : ExactIdom(g)
      /\ \A g \in DOMAIN functions : \A x \in Reached(g) : frontier[x] = FrontierNow(g, x)
    BY <1>1 DEF SweepInv, FrontInv
<1>3. /\ f \in DOMAIN functions /\ f \in Walked /\ f \in Finished /\ f \notin Mapped
      /\ at \in Nat \ {0} /\ FlowGraphTypeOK /\ EdgesAgree /\ postOrder # <<>> /\ Graph /\ Apart
      /\ \A g \in DOMAIN functions : Reached(g) \subseteq BlocksOf(g) /\ BlocksOf(g) \subseteq Blocks
    <2>1. f \in DOMAIN functions /\ DOMAIN functions = 1 .. Len(functions) /\ Len(functions) \in Nat
        BY <1>1, OrderedTypes
    <2>2. f \in Walked /\ f \in Finished /\ f \notin Mapped
        BY <1>1, <2>1 DEF Walked, Finished, Mapped
    <2>3. at \in Nat \ {0} /\ FlowGraphTypeOK /\ EdgesAgree /\ Graph /\ GraphInv /\ Apart
        BY <1>1 DEF Ordered, Graph, GraphInv, WalkInv, WalkTypeOK
    <2>4. Entry(f) \in Numbered
        BY <2>2, OrderedFacts
    <2>5. postOrder # <<>>
        BY <2>4 DEF Numbered, Range
    <2>6. QED
        BY <2>1, <2>2, <2>3, <2>5, ReachedFacts
<1>4. b \in BlocksOf(f) /\ b \in Blocks
    <2>1. functions[f] \in Seq(Blocks)
        BY <1>3, ListFacts
    <2>2. at \in DOMAIN functions[f]
        BY <1>1, <1>3, <2>1
    <2>3. QED
        BY <1>3, <2>2 DEF BlocksOf, Range
<1>5. Passed' = Passed \cup {b}
    <2>1. 1 .. at' - 1 = (1 .. at - 1) \cup {at}
        BY <1>1, <1>3
    <2>2. functions' = functions
        BY DEF graphVars
    <2>3. Passed' = {functions[f][i] : i \in (1 .. at - 1) \cup {at}}
        BY <1>1, <2>1, <2>2 DEF Passed
    <2>4. QED
        BY <2>3 DEF Passed
<1> HIDE DEF b, R
<1>6. /\ Range(pred[b]) \subseteq BlocksOf(f)
      /\ \A p \in Range(pred[b]) : b \in Range(succ[p])
    BY <1>3, <1>4 DEF EdgesAgree, Functions
<1>7. /\ NoBlock \notin Blocks /\ Reached(f) \subseteq Blocks /\ pred[Entry(f)] = <<>>
      /\ \A c \in Reached(f) : Range(succ[c]) \subseteq Reached(f)
      /\ Range(pred[b]) \cap Has \subseteq Reached(f) \/ b \notin Reached(f)
      /\ \A d, c : Over(f, d, c) => d \in Reached(f) /\ c \in Reached(f)
    <2>1. Has \subseteq Numbered
        BY <1>2, OrderedFacts DEF IdomInv
    <2>2. \A d, c : Over(f, d, c) => d \in Reached(f) /\ c \in Reached(f)
        BY DEF Over
    <2>3. QED
        BY <1>3, <2>1, <2>2, OrderedFacts
<1>8. ASSUME NEW x
      PROVE  x \in R <=> Len(pred[b]) >= 2 /\ \E p \in Range(pred[b]) : x \in Runners(p, idom[b])
    <2>1. Len(pred[b]) \in Nat
        <3>1. pred[b] \in Seq(Blocks)
            BY <1>3, <1>4, ListFacts
        <3>2. QED
            BY <3>1
    <2>2. Len(pred[b]) < 2 <=> ~(Len(pred[b]) >= 2)
        BY <2>1
    <2>3. QED
        BY <2>2 DEF R
<1>9. ASSUME Len(pred[b]) >= 2, b \in Reached(f)
      PROVE  b # Entry(f) /\ Range(pred[b]) \subseteq Reached(f)
    <2>1. b # Entry(f)
        BY <1>7, <1>9
    <2>2. idom[b] \in Reached(f) /\ Over(f, idom[b], b) /\ idom[b] \in Has
        <3>1. b \in Has /\ Over(f, idom[b], b)
            BY <1>2, <1>3, <1>7, <1>9, <2>1 DEF ExactIdom, Has
        <3>2. QED
            BY <1>2, <1>3, <1>9, <2>1, <3>1 DEF IdomInv, ClimbsRight
    <2>3. ASSUME NEW p \in Range(pred[b]), p \notin Has
          PROVE  FALSE
        <3>1. p \in Blocks
            BY <1>3, <1>6
        <3>2. NoBlock \in Runners(p, idom[b])
            BY <1>3, <1>7, <2>2, <2>3, <3>1, RunnersAstray
        <3>3. QED
            BY <1>1, <1>8, <1>9, <3>2
    <2>4. QED
        BY <1>7, <1>9, <2>1, <2>3
<1>10. ASSUME b \notin Reached(f), NEW p \in Range(pred[b])
       PROVE  p \in Blocks /\ p \notin Has /\ p \notin Reached(f) /\ Runners(p, idom[b]) \subseteq {p, NoBlock}
    <2>1. p \in Blocks /\ p \notin Reached(f) /\ p \in BlocksOf(f)
        BY <1>3, <1>6, <1>7, <1>10
    <2>2. p \notin Has
        <3>1. ASSUME p \in Has
              PROVE  FALSE
            <4>1. PICK g \in Walked : p \in Reached(g)
                BY <1>2, <3>1 DEF IdomInv
            <4>2. g \in DOMAIN functions
                BY HomeFacts
            <4>3. QED
                BY <1>3, <2>1, <4>1, <4>2 DEF Apart
        <3>2. QED
            BY <3>1
    <2>3. QED
        BY <1>3, <2>1, <2>2, RunnersAstray
<1>11. ASSUME NEW x \in Blocks
       PROVE  /\ x \in R => x \in BlocksOf(f)
              /\ x \in Reached(f) => (x \in R <=> JoinsAt(f, x, b))
    <2>1. CASE ~(Len(pred[b]) >= 2)
        BY <1>8, <2>1 DEF JoinsAt
    <2>2. CASE Len(pred[b]) >= 2 /\ b \in Reached(f)
        <3>1. b # Entry(f) /\ Range(pred[b]) \subseteq Reached(f)
            BY <1>9, <2>2
        <3>2. \A p \in Range(pred[b]) :
                  x \in Runners(p, idom[b]) <=> Over(f, x, p) /\ ~(x # b /\ Over(f, x, b))
            BY <1>2, <1>3, <2>2, <3>1, RunnersFacts
        <3>3. x \in R <=> JoinsAt(f, x, b)
            BY <1>4, <1>8, <2>2, <3>1, <3>2 DEF JoinsAt
        <3>4. x \in R => x \in Reached(f)
            BY <1>7, <3>3 DEF JoinsAt
        <3>5. QED
            BY <1>3, <3>3, <3>4
    <2>3. CASE Len(pred[b]) >= 2 /\ b \notin Reached(f)
        <3>1. \A p \in Range(pred[b]) : p \notin Reached(f) /\ Runners(p, idom[b]) \subseteq {p, NoBlock}
            BY <1>10, <2>3
        <3>2. x \in R => x \in Range(pred[b])
            BY <1>7, <1>8, <1>11, <3>1
        <3>3. QED
            BY <1>6, <3>1, <3>2 DEF JoinsAt
    <2>4. QED
        BY <2>1, <2>2, <2>3
<1>12. ASSUME NEW g \in DOMAIN functions, NEW x \in Reached(g)
       PROVE  frontier'[x] = FrontierNow(g, x)'
    <2>1. /\ x \in Blocks /\ frontier'[x] = IF x \in R THEN frontier[x] \cup {b} ELSE frontier[x]
        BY <1>1, <1>3, <1>12
    <2>2. Mapped' = Mapped /\ stage' = stage /\ current' = current
        BY <1>1 DEF Mapped
    <2>3. CASE g = f
        <3>1. frontier[x] = {c \in Passed : JoinsAt(f, x, c)}
            BY <1>1, <1>2, <1>3, <1>12, <2>3 DEF FrontierNow
        <3>2. FrontierNow(f, x)' = {c \in Passed' : JoinsAt(f, x, c)'}
            BY <1>1, <1>3, <2>2 DEF FrontierNow
        <3>3. {c \in Passed' : JoinsAt(f, x, c)'} = {c \in Passed \cup {b} : JoinsAt(f, x, c)}
            BY <1>5, FrontiersStill
        <3>4. x \in R <=> JoinsAt(f, x, b)
            BY <1>11, <1>12, <2>1, <2>3
        <3>5. QED
            BY <2>1, <2>3, <3>1, <3>2, <3>3, <3>4
    <2>4. CASE g # f
        <3>1. x \notin R
            BY <1>3, <1>11, <1>12, <2>1, <2>4 DEF Apart
        <3>2. FrontierNow(g, x)' = FrontierNow(g, x)
            BY <2>2, <2>4, FrontiersStill DEF FrontierNow
        <3>3. QED
            BY <1>2, <1>12, <2>1, <3>1, <3>2
    <2>5. QED
        BY <2>3, <2>4
<1>13. QED
    BY <1>12, GraphStill

\* The steps before the frontiers and after them.
LEMMA FrontiersKept ==
    ASSUME FrontInv, UNCHANGED graphVars, frontier' = frontier, ~thrown' => ~thrown,
           thrown' => stage' \in {"idom", "frontier"}, Mapped' = Mapped,
           \/ stage # "frontier" /\ stage' # "frontier"
           \/ stage # "frontier" /\ stage' = "frontier" /\ Passed' = {}
           \/ UNCHANGED <<stage, current, at>>
    PROVE  FrontInv'
<1> SUFFICES ASSUME ~thrown'
             PROVE  \A f \in DOMAIN functions' : \A x \in Reached(f)' : frontier'[x] = FrontierNow(f, x)'
    BY DEF FrontInv
<1>1. \A f \in DOMAIN functions : \A x \in Reached(f) : frontier[x] = FrontierNow(f, x)
    BY DEF FrontInv
<1>2. functions' = functions
    BY DEF graphVars
<1>3. ASSUME NEW f, NEW x
      PROVE  FrontierNow(f, x)' = FrontierNow(f, x)
    <2>1. CASE f \in Mapped
        BY <2>1, FrontiersStill DEF FrontierNow
    <2>2. CASE f \notin Mapped /\ stage # "frontier" /\ stage' # "frontier"
        BY <2>2 DEF FrontierNow
    <2>3. CASE f \notin Mapped /\ stage # "frontier" /\ Passed' = {}
        BY <2>3 DEF FrontierNow
    <2>4. CASE f \notin Mapped /\ UNCHANGED <<stage, current, at>>
        <3>1. Passed' = Passed
            BY <1>2, <2>4 DEF Passed
        <3>2. \A b : JoinsAt(f, x, b)' <=> JoinsAt(f, x, b)
            BY FrontiersStill
        <3>3. {b \in Passed' : JoinsAt(f, x, b)'} = {b \in Passed : JoinsAt(f, x, b)}
            BY <3>1, <3>2
        <3>4. QED
            BY <2>4, <3>3 DEF FrontierNow
    <2>5. QED
        BY <2>1, <2>2, <2>3, <2>4
<1>4. QED
    BY <1>1, <1>2, <1>3, GraphStill

\* All blocks are passed.
LEMMA FrontiersEnd ==
    ASSUME Ordered, FrontInv, UNCHANGED graphVars, CreateTree
    PROVE  FrontInv'
<1> PICK f : f = current
    OBVIOUS
<1>1. /\ stage = "frontier" /\ stage' = "tree" /\ ~thrown /\ ~thrown' /\ at > Len(functions[f])
      /\ UNCHANGED <<current, frontier>>
    BY DEF CreateTree
<1>2. /\ f \in DOMAIN functions /\ f \in Walked /\ Mapped' = Mapped \cup {f} /\ f \notin Mapped
      /\ at \in Nat /\ FlowGraphTypeOK
    <2>1. f \in DOMAIN functions /\ DOMAIN functions = 1 .. Len(functions) /\ Len(functions) \in Nat
          /\ at \in Nat /\ FlowGraphTypeOK
        BY <1>1, OrderedTypes
    <2>2. (1 .. f) = (1 .. f - 1) \cup {f} /\ f \notin 1 .. f - 1 /\ f \in 1 .. f
        BY <2>1
    <2>3. Mapped' = 1 .. f /\ Mapped = 1 .. f - 1 /\ Walked = 1 .. f
        BY <1>1 DEF Mapped, Walked
    <2>4. QED
        BY <2>1, <2>2, <2>3
<1>3. BlocksOf(f) \subseteq Passed
    <2>1. functions[f] \in Seq(Blocks)
        BY <1>2, ListFacts
    <2>2. DOMAIN functions[f] \subseteq 1 .. at - 1
        BY <1>1, <1>2, <2>1
    <2>3. QED
        BY <2>2 DEF BlocksOf, Range, Passed
<1>4. ASSUME NEW g \in DOMAIN functions, NEW x \in Reached(g)
      PROVE  frontier'[x] = FrontierNow(g, x)'
    <2>1. frontier'[x] = FrontierNow(g, x)
        BY <1>1, <1>4 DEF FrontInv
    <2>2. FrontierNow(g, x)' = IF g \in Mapped' THEN DominanceFrontier(Dominance(g), x) ELSE {}
        BY <1>1, FrontiersStill DEF FrontierNow
    <2>3. CASE g = f
        <3>1. FrontierNow(g, x) = {b \in Passed : JoinsAt(f, x, b)}
            BY <1>1, <1>2, <2>3 DEF FrontierNow
        <3>2. {b \in Passed : JoinsAt(f, x, b)} = {b \in BlocksOf(f) : JoinsAt(f, x, b)}
            BY <1>3 DEF JoinsAt
        <3>3. FrontierNow(g, x)' = DominanceFrontier(Dominance(f), x)
            BY <1>2, <2>2, <2>3
        <3>4. {b \in BlocksOf(f) : JoinsAt(f, x, b)} = DominanceFrontier(Dominance(f), x)
            BY <1>2, <1>4, <2>3, JoinsExact
        <3>5. QED
            BY <2>1, <3>1, <3>2, <3>3, <3>4
    <2>4. CASE g # f
        <3>1. FrontierNow(g, x) = IF g \in Mapped THEN DominanceFrontier(Dominance(g), x) ELSE {}
            BY <1>1, <2>4 DEF FrontierNow
        <3>2. QED
            BY <1>2, <2>1, <2>2, <2>4, <3>1
    <2>5. QED
        BY <2>3, <2>4
<1>5. QED
    BY <1>1, <1>4, GraphStill DEF FrontInv

Fronts == pass = "loops" => FrontInv

LEMMA FrontsStep ==
    ASSUME ProgramInv, AnalysisInv, EntryInv, Numbering, Sweeps, Fronts, [Next]_vars
    PROVE  Fronts'
<1> SUFFICES ASSUME pass' = "loops"
             PROVE  FrontInv'
    BY DEF Fronts
<1>1. CASE StartLoopDetection
    <2>1. /\ current' = 0 /\ stage' = "done" /\ ~thrown' /\ frontier' = [b \in Blocks |-> {}]
          /\ UNCHANGED graphVars
        BY <1>1 DEF StartLoopDetection, NewDominators, bvars
    <2>2. Mapped' = {}
        BY <2>1 DEF Mapped
    <2>3. GraphInv
        BY DEF GraphInv, ProgramInv, BuilderInv, BuilderTypeOK
    <2>4. \A f \in DOMAIN functions : Reached(f) \subseteq Blocks
        BY <2>3, ReachedFacts
    <2>5. \A f \in DOMAIN functions' : \A x \in Reached(f)' : frontier'[x] = {}
        BY <2>1, <2>4, GraphStill
    <2>6. QED
        BY <2>1, <2>2, <2>5 DEF FrontInv, FrontierNow
<1>2. CASE pass = "loops" /\ UNCHANGED graphVars
    <2>1. Ordered /\ SweepInv /\ FrontInv
        BY <1>2, OrderedNow DEF Sweeps, Fronts
    <2>2. current \in Int
        BY <2>1, OrderedTypes DEF Ordered, WalkInv, WalkTypeOK
    <2>3. CASE NextFunction
        <3>1. RunOnFunc(cursor + 1) /\ cursor = current
            BY <2>1, <2>3 DEF NextFunction, Ordered
        <3>2. /\ stage = "done" /\ stage' = "dfs" /\ current' = current + 1
              /\ UNCHANGED <<frontier, thrown>> /\ ~thrown
            BY <3>1 DEF RunOnFunc
        <3>3. Mapped' = Mapped
            BY <2>2, <3>2 DEF Mapped
        <3>4. QED
            BY <1>2, <2>1, <3>2, <3>3, FrontiersKept
    <2>4. CASE DfsEnter \/ DfsReturn \/ StartIdom \/ IdomOfBlock \/ SweepAgain
        <3>1. /\ stage \in {"dfs", "idom"} /\ stage' \in {"dfs", "idom"} /\ UNCHANGED <<current, frontier>>
              /\ (thrown' => thrown \/ stage' = "idom") /\ (~thrown' => ~thrown)
              /\ (stage = "idom" => stage' = "idom")
            BY <2>4 DEF DfsEnter, DfsReturn, StartIdom, IdomOfBlock, SweepAgain, domMaps
        <3>2. thrown' => stage' = "idom"
            BY <2>1, <3>1 DEF FrontInv
        <3>3. Mapped' = Mapped
            BY <3>1 DEF Mapped
        <3>4. QED
            BY <1>2, <2>1, <3>1, <3>2, <3>3, FrontiersKept
    <2>5. CASE StartFrontier
        <3>1. /\ stage = "idom" /\ stage' = "frontier" /\ UNCHANGED <<current, frontier, thrown>> /\ at' = 1
            BY <2>5 DEF StartFrontier, domMaps
        <3>2. Mapped' = Mapped /\ Passed' = {}
            BY <3>1 DEF Mapped, Passed
        <3>3. QED
            BY <1>2, <2>1, <3>1, <3>2, FrontiersKept
    <2>6. CASE FrontierOfBlock
        BY <1>2, <2>1, <2>6, FrontierAdds
    <2>7. CASE CreateTree
        BY <1>2, <2>1, <2>7, FrontiersEnd
    <2>8. CASE TreeEnter \/ TreeReturn \/ FinishFunc
        <3>1. /\ UNCHANGED <<current, frontier, thrown>>
              /\ stage = "tree" /\ stage' \in {"tree", "done"}
            BY <2>8 DEF TreeEnter, TreeReturn, FinishFunc, domMaps, domLocals
        <3>2. Mapped' = Mapped /\ ~thrown
            BY <2>1, <3>1 DEF Mapped, FrontInv
        <3>3. QED
            BY <1>2, <2>1, <3>1, <3>2, FrontiersKept
    <2>9. CASE UNCHANGED dvars
        <3>1. UNCHANGED <<current, stage, frontier, thrown, at>>
            BY <2>9 DEF dvars, domMaps, domLocals
        <3>2. Mapped' = Mapped /\ (thrown => stage \in {"idom", "frontier"})
            BY <2>1, <3>1 DEF Mapped, FrontInv
        <3>3. QED
            BY <1>2, <2>1, <3>1, <3>2, FrontiersKept
    <2>10. QED
        BY <1>2, <2>3, <2>4, <2>5, <2>6, <2>7, <2>8, <2>9, AnalysisCases, <1>1 DEF DominatorsStep
<1>3. QED
    BY <1>1, <1>2, AnalysisCases

LEMMA FrontsHold == Spec => []Fronts
<1>1. Init => Fronts
    BY DEF Init, Fronts
<1>2. Init => AnalysisInv
    BY DEF Init, AnalysisInv
<1>3. ProgramInv /\ AnalysisInv /\ [Next]_vars => AnalysisInv'
    BY AnalysisStep
<1>4. ProgramInv /\ AnalysisInv /\ EntryInv /\ Numbering /\ Sweeps /\ Fronts /\ [Next]_vars => Fronts'
    BY FrontsStep
<1>5. QED
    BY <1>1, <1>2, <1>3, <1>4, ProgramInvariant, EntryInvariant, NumberingHolds, SweepsHold, PTL DEF Spec

-----------------------------------------------------------------------------
\* The blocks create_dom_tree_succ puts under block d.
Kids(f, d) == {b \in BlocksOf(f) : idom[b] = d /\ d # b}

\* Where the tree stands up to which a block's interval counts: a visit under
\* way is open ended.
UpTo(x) == IF x \in Range(visits) THEN Len(dfsOrder) ELSE domR[x]

\* The dfs over the tree of function f under way: the visits are the dominators
\* of the last block entered, the blocks entered are closed towards the root,
\* and among them the intervals say who dominates whom.
TreeWalk(f) ==
    /\ \A x \in Reached(f) : treeSucc[x] = Kids(f, x)
    /\ Entry(f) \in visited /\ visited \subseteq Reached(f)
    /\ \A x \in visited \ {Entry(f)} : idom[x] \in visited
    /\ Range(visits) \subseteq visited /\ IsInjective(visits)
    /\ visits # <<>> => /\ visits[1] = Entry(f)
                        /\ \A d : d \in Range(visits) <=> Over(f, d, Last(visits))
    /\ \A k \in 2 .. Len(visits) : idom[visits[k]] = visits[k - 1]
    /\ \A x \in visited \ Range(visits) : domR[x] <= Len(dfsOrder) /\ Kids(f, x) \subseteq visited
    /\ \A x \in visited : domL[x] <= Len(dfsOrder)
    /\ \A x, y \in visited : Over(f, x, y) <=> domL[x] <= domL[y] /\ UpTo(x) >= domL[y]

\* The functions whose tree is measured.
Measured == IF stage = "done" THEN 1 .. current ELSE 1 .. current - 1

TreeInv ==
    /\ \A f \in DOMAIN functions \ Mapped : \A x \in Reached(f) : treeSucc[x] = {}
    /\ \A f \in Measured : \A x, y \in Reached(f) : IsDominate(x, y) <=> Over(f, x, y)
    /\ stage = "tree" => TreeWalk(current)

\* The tree of a function whose immediate dominators are known.
LEMMA TreeFacts ==
    ASSUME Ordered, IdomInv, NEW f \in Walked, ExactIdom(f)
    PROVE  /\ \A d \in Blocks : \A b : b \in Kids(f, d) <=> b \in Reached(f) \ {Entry(f)} /\ idom[b] = d
           /\ \A b \in Reached(f) \ {Entry(f)} :
                  /\ idom[b] \in Reached(f) /\ Ahead(idom[b], b) /\ idom[b] # b /\ ~Over(f, b, idom[b])
                  /\ \A d : Over(f, d, b) <=> d = b \/ Over(f, d, idom[b])
           /\ \A V \in SUBSET Reached(f) :
                  (\A x \in V \ {Entry(f)} : idom[x] \in V) =>
                      \A y \in V : \A d : Over(f, d, y) => d \in V
<1>1. /\ f \in DOMAIN functions /\ Reached(f) \subseteq Blocks /\ NoBlock \notin Blocks
      /\ Graph /\ Apart /\ Reached(f) \subseteq BlocksOf(f) /\ Entry(f) \in Reached(f)
      /\ IdomTyped /\ postOrder \in Seq(Blocks) /\ IsInjective(postOrder)
      /\ idom[Entry(f)] = Entry(f) /\ Reached(f) \subseteq Has
      /\ \A d, b : Over(f, d, b) /\ d # b => Ahead(d, b)
      /\ \A d, b, c : Over(f, d, b) /\ Over(f, b, c) => Over(f, d, c)
      /\ \A b \in Reached(f) : Over(f, b, b)
    <2>1. f \in DOMAIN functions /\ Graph /\ Apart /\ idom[Entry(f)] = Entry(f)
        BY OrderedFacts DEF Ordered, Graph, GraphInv, IdomInv
    <2>2. Reached(f) \subseteq BlocksOf(f) /\ \A b \in Reached(f) : Over(f, b, b)
        BY <2>1, ReachedFacts, OverFacts DEF Graph
    <2>3. \A d, b, c : Over(f, d, b) /\ Over(f, b, c) => Over(f, d, c)
        BY <2>1, OverFacts
    <2>4. QED
        BY <2>1, <2>2, <2>3, OrderedTypes, OrderedFacts, ChainExact
<1>2. ASSUME NEW b \in Reached(f) \ {Entry(f)}
      PROVE  /\ idom[b] \in Reached(f) /\ Ahead(idom[b], b) /\ idom[b] # b /\ ~Over(f, b, idom[b])
             /\ \A d : Over(f, d, b) <=> d = b \/ Over(f, d, idom[b])
    <2>1. /\ idom[b] \in Reached(f) /\ Ahead(idom[b], b) /\ Over(f, idom[b], b)
          /\ \A d : Over(f, d, b) /\ d # b => Over(f, d, idom[b])
        BY <1>1, <1>2 DEF IdomInv, ClimbsRight, ExactIdom
    <2>2. idom[b] # b
        BY <1>1, <2>1, AheadFacts
    <2>3. ~Over(f, b, idom[b])
        BY <1>1, <2>1, <2>2, AheadFacts
    <2>4. \A d : Over(f, d, b) <=> d = b \/ Over(f, d, idom[b])
        BY <1>1, <1>2, <2>1
    <2>5. QED
        BY <2>1, <2>2, <2>3, <2>4
<1>3. ASSUME NEW d \in Blocks, NEW b
      PROVE  b \in Kids(f, d) <=> b \in Reached(f) \ {Entry(f)} /\ idom[b] = d
    <2>1. ASSUME b \in Kids(f, d)
          PROVE  b \in Reached(f) \ {Entry(f)} /\ idom[b] = d
        <3>1. b \in BlocksOf(f) /\ idom[b] = d /\ d # b
            BY <2>1 DEF Kids
        <3>2. BlocksOf(f) \subseteq Blocks
            BY <1>1, ReachedFacts DEF Graph
        <3>3. b \in Has
            BY <1>1, <3>1, <3>2 DEF Has
        <3>4. PICK g \in Walked : b \in Reached(g)
            BY <3>3 DEF IdomInv
        <3>5. g \in DOMAIN functions /\ Reached(g) \subseteq BlocksOf(g)
            BY <1>1, HomeFacts, ReachedFacts DEF Graph
        <3>6. g = f
            BY <1>1, <3>1, <3>4, <3>5 DEF Apart
        <3>7. QED
            BY <1>1, <3>1, <3>4, <3>6
    <2>2. ASSUME b \in Reached(f) \ {Entry(f)}, idom[b] = d
          PROVE  b \in Kids(f, d)
        BY <1>1, <1>2, <2>2 DEF Kids
    <2>3. QED
        BY <2>1, <2>2
<1>4. ASSUME NEW V \in SUBSET Reached(f), \A x \in V \ {Entry(f)} : idom[x] \in V,
             NEW y \in V, NEW d, Over(f, d, y)
      PROVE  d \in V
    <2>1. \A x \in V : idom[x] \in V
        BY <1>1, <1>4
    <2>2. y \in Blocks /\ y \in Reached(f)
        BY <1>1
    <2>3. Above(y) \subseteq V
        BY <1>1, <2>1, <2>2, AboveFacts
    <2>4. d \in Above(y)
        BY <1>4, <2>2, ChainExact
    <2>5. QED
        BY <2>3, <2>4
<1>5. QED
    BY <1>2, <1>3, <1>4

LEMMA KidsStill ==
    ASSUME UNCHANGED graphVars, idom' = idom
    PROVE  \A f, d : Kids(f, d)' = Kids(f, d)
<1>1. functions' = functions
    BY DEF graphVars
<1>2. QED
    BY <1>1 DEF Kids, BlocksOf, Range

\* While the tree of one function is measured the others keep their intervals.
LEMMA OtherTrees ==
    ASSUME Ordered, TreeInv, UNCHANGED graphVars, stage \in {"frontier", "tree"},
           stage' = "tree", current' = current, NEW b \in Reached(current),
           \A x \in Blocks \ {b} : domL'[x] = domL[x] /\ domR'[x] = domR[x]
    PROVE  \A g \in Measured' : \A x, y \in Reached(g)' : IsDominate(x, y)' <=> Over(g, x, y)'
<1>1. current \in DOMAIN functions /\ DOMAIN functions = 1 .. Len(functions) /\ Len(functions) \in Nat
    BY OrderedTypes
<1>2. Measured' = 1 .. current - 1 /\ Measured = 1 .. current - 1
    BY DEF Measured
<1>3. ASSUME NEW g \in Measured, NEW x \in Reached(g), NEW y \in Reached(g)
      PROVE  IsDominate(x, y)' <=> Over(g, x, y)
    <2>1. g \in DOMAIN functions /\ g # current
        BY <1>1, <1>2
    <2>2. x \in Blocks /\ y \in Blocks
        BY <2>1, ReachedFacts DEF Ordered, Graph
    <2>3. x # b /\ y # b
        BY <1>1, <2>1, HomeFacts
    <2>4. IsDominate(x, y)' <=> IsDominate(x, y)
        BY <2>2, <2>3 DEF IsDominate
    <2>5. QED
        BY <2>4 DEF TreeInv
<1>4. QED
    BY <1>2, <1>3, GraphStill, OverStill

LEMMA WalkTypes ==
    ASSUME Ordered
    PROVE  /\ domL \in [Blocks -> Nat] /\ domR \in [Blocks -> Nat]
           /\ visits \in Seq(Blocks) /\ dfsOrder \in Seq(Blocks) /\ treeSucc \in [Blocks -> SUBSET Blocks]
           /\ Len(dfsOrder) \in Nat /\ Len(visits) \in Nat /\ DOMAIN visits = 1 .. Len(visits)
<1>1. /\ domL \in [Blocks -> Nat] /\ domR \in [Blocks -> Nat]
      /\ visits \in Seq(Blocks) /\ dfsOrder \in Seq(Blocks) /\ treeSucc \in [Blocks -> SUBSET Blocks]
    BY DEF Ordered, WalkInv, WalkTypeOK, DominatorsTypeOK
<1>2. QED
    BY <1>1

\* The tree is made, and the dfs over it comes to its root.
LEMMA TreeCreated ==
    ASSUME Ordered, SweepInv, TreeInv, UNCHANGED graphVars, CreateTree
    PROVE  TreeInv'
<1> PICK f : f = current
    OBVIOUS
<1> PICK e : e = Entry(f)
    OBVIOUS
<1>1. /\ stage = "frontier" /\ stage' = "tree" /\ ~thrown
      /\ UNCHANGED <<current, idom, domR>>
      /\ treeSucc' = [d \in Blocks |-> treeSucc[d] \cup Kids(f, d)]
      /\ visits' = <<e>> /\ visited' = {e} /\ dfsOrder' = Append(dfsOrder, e)
      /\ domL' = [domL EXCEPT ![e] = 1]
    BY DEF CreateTree, Kids
<1>2. /\ IdomInv /\ f \in DOMAIN functions /\ f \in Walked /\ ExactIdom(f)
      /\ f \notin Mapped /\ Mapped' = Mapped \cup {f}
    <2>1. f \in DOMAIN functions /\ DOMAIN functions = 1 .. Len(functions) /\ Len(functions) \in Nat
        BY <1>1, OrderedTypes
    <2>2. (1 .. f) = (1 .. f - 1) \cup {f} /\ f \notin 1 .. f - 1 /\ f \in 1 .. f
        BY <2>1
    <2>3. Mapped' = 1 .. f /\ Mapped = 1 .. f - 1 /\ Walked = 1 .. f /\ Finished = 1 .. f
        BY <1>1 DEF Mapped, Walked, Finished
    <2>4. IdomInv /\ \A g \in Finished : ExactIdom(g)
        BY <1>1 DEF SweepInv
    <2>5. QED
        BY <2>1, <2>2, <2>3, <2>4
<1>3. /\ Reached(f) \subseteq Blocks /\ e \in Reached(f) /\ e \in Blocks
      /\ \A d \in Blocks : \A b : b \in Kids(f, d) <=> b \in Reached(f) \ {Entry(f)} /\ idom[b] = d
      /\ \A b \in Reached(f) \ {Entry(f)} : idom[b] \in Reached(f)
      /\ \A d : Over(f, d, e) <=> d = e
      /\ domL \in [Blocks -> Nat] /\ dfsOrder \in Seq(Blocks) /\ Len(dfsOrder) \in Nat
    <2>1. Graph
        BY DEF Ordered
    <2>2. e \in Reached(f) /\ Reached(f) \subseteq Blocks
        BY <1>2, OrderedFacts
    <2>3. \A d : Over(f, d, e) <=> d = e
        BY <1>2, <2>1, <2>2, OverFacts
    <2>4. QED
        BY <1>2, <2>2, <2>3, TreeFacts, WalkTypes
<1>4. ASSUME NEW g \in DOMAIN functions \ Mapped', NEW x \in Reached(g)
      PROVE  treeSucc'[x] = {}
    <2>1. g # f /\ treeSucc[x] = {} /\ x \in Blocks
        BY <1>2, <1>4, ReachedFacts DEF Ordered, Graph, TreeInv
    <2>2. Kids(f, x) = {}
        BY <1>2, <1>3, <1>4, <2>1, HomeFacts
    <2>3. QED
        BY <1>1, <2>1, <2>2
<1>5. TreeWalk(f)'
    <2>1. \A x \in Reached(f) : treeSucc[x] = {}
        BY <1>2 DEF TreeInv
    <2>2. \A x \in Reached(f) : treeSucc'[x] = Kids(f, x)
        BY <1>1, <1>3, <2>1
    <2>3. Range(visits') = {e} /\ Last(visits') = e /\ Len(visits') = 1 /\ IsInjective(visits') /\ visits'[1] = e
        BY <1>1 DEF Range, Last, IsInjective
    <2>4. Len(dfsOrder') = Len(dfsOrder) + 1 /\ Len(dfsOrder') >= 1
        BY <1>1, <1>3
    <2>5. domL'[e] = 1 /\ UpTo(e)' = Len(dfsOrder')
        BY <1>1, <1>3, <2>3 DEF UpTo
    <2>6. \A k \in 2 .. Len(visits') : idom'[visits'[k]] = visits'[k - 1]
        <3>1. 2 .. Len(visits') = {}
            <4>1. Len(visits') = 1
                BY <2>3
            <4>2. QED
                BY <4>1
        <3>2. QED
            BY <3>1
    <2>7. Entry(f)' = e /\ Reached(f)' = Reached(f) /\ Over(f, e, e)'
        BY <1>3, GraphStill, OverStill
    <2>8. \A d : d \in Range(visits') <=> Over(f, d, Last(visits))'
        <3>1. \A d : Over(f, d, e)' <=> d = e
            BY <1>3, OverStill
        <3>2. QED
            BY <2>3, <3>1 DEF Over
    <2>9. \A x \in Reached(f)' : treeSucc'[x] = Kids(f, x)'
        BY <1>1, <2>2, <2>7, KidsStill
    <2>10. \A x \in visited' : domL'[x] <= Len(dfsOrder')
        BY <1>1, <2>4, <2>5
    <2>11. \A x, y \in visited' : Over(f, x, y)' <=> domL'[x] <= domL'[y] /\ UpTo(x)' >= domL'[y]
        BY <1>1, <2>4, <2>5, <2>7
    <2>12. visited' = {e} /\ Range(visits') = {e}
        BY <1>1, <2>3
    <2>13. QED
        BY <1>3, <2>3, <2>6, <2>7, <2>8, <2>9, <2>10, <2>11, <2>12 DEF TreeWalk
<1>6. \A g \in Measured' : \A x, y \in Reached(g)' : IsDominate(x, y)' <=> Over(g, x, y)'
    <2>1. \A x \in Blocks \ {e} : domL'[x] = domL[x] /\ domR'[x] = domR[x]
        BY <1>1, <1>3
    <2>2. QED
        BY <1>1, <1>3, <2>1, OtherTrees
<1>7. QED
    BY <1>1, <1>4, <1>5, <1>6, GraphStill DEF TreeInv

\* What holds while a tree is being measured.
LEMMA TreeNow ==
    ASSUME Ordered, SweepInv, FrontInv, TreeInv, stage = "tree"
    PROVE  /\ IdomInv /\ current \in DOMAIN functions /\ current \in Walked /\ ExactIdom(current)
           /\ TreeWalk(current) /\ Reached(current) \subseteq Blocks /\ Entry(current) \in Reached(current)
           /\ visits # <<>> => Last(visits) \in Range(visits)
<1>1. current \in DOMAIN functions /\ DOMAIN functions = 1 .. Len(functions) /\ Len(functions) \in Nat
    BY OrderedTypes
<1>2. current \in Walked /\ current \in Finished
    BY <1>1 DEF Walked, Finished
<1>3. IdomInv /\ ExactIdom(current)
    BY <1>2 DEF FrontInv, SweepInv
<1>4. TreeWalk(current)
    BY DEF TreeInv
<1>5. visits # <<>> => Last(visits) \in Range(visits)
    BY <1>4, WalkTypes, StackFacts DEF TreeWalk
<1>6. QED
    BY <1>1, <1>2, <1>3, <1>4, <1>5, OrderedFacts

\* The dfs comes to a child that was not entered.
LEMMA TreeEntered ==
    ASSUME Ordered, SweepInv, FrontInv, TreeInv, UNCHANGED graphVars, TreeEnter
    PROVE  TreeInv'
<1> PICK f : f = current
    OBVIOUS
<1> PICK N : N = Len(dfsOrder)
    OBVIOUS
<1>1. PICK b \in treeSucc[Last(visits)] \ visited :
          /\ stage = "tree" /\ stage' = "tree" /\ visits # <<>> /\ visits' = Append(visits, b)
          /\ visited' = visited \cup {b} /\ dfsOrder' = Append(dfsOrder, b)
          /\ domL' = [domL EXCEPT ![b] = N + 1]
          /\ UNCHANGED <<current, idom, treeSucc, domR>>
    BY DEF TreeEnter
<1> PICK l : l = Last(visits)
    OBVIOUS
<1>2. /\ IdomInv /\ f \in DOMAIN functions /\ f \in Walked /\ ExactIdom(f)
      /\ TreeWalk(f) /\ Reached(f) \subseteq Blocks /\ Entry(f) \in Reached(f)
      /\ l \in Range(visits)
    BY <1>1, TreeNow
<1>3. /\ visited \subseteq Reached(f) /\ Range(visits) \subseteq visited /\ IsInjective(visits)
      /\ Entry(f) \in visited /\ visits[1] = Entry(f)
      /\ \A d : d \in Range(visits) <=> Over(f, d, l)
      /\ \A x \in visited \ {Entry(f)} : idom[x] \in visited
      /\ \A k \in 2 .. Len(visits) : idom[visits[k]] = visits[k - 1]
      /\ \A x \in visited \ Range(visits) : domR[x] <= N /\ Kids(f, x) \subseteq visited
      /\ \A x \in visited : domL[x] <= N
      /\ \A x, y \in visited : Over(f, x, y) <=> domL[x] <= domL[y] /\ UpTo(x) >= domL[y]
      /\ \A x \in Reached(f) : treeSucc[x] = Kids(f, x)
    BY <1>1, <1>2 DEF TreeWalk
<1>4. /\ b \in Reached(f) \ {Entry(f)} /\ idom[b] = l /\ b \notin visited /\ b \in Blocks
      /\ \A d : Over(f, d, b) <=> d = b \/ Over(f, d, l)
      /\ \A y \in visited : ~Over(f, b, y)
    <2>1. l \in Reached(f) /\ l \in Blocks /\ b \in Kids(f, l)
        BY <1>1, <1>2, <1>3
    <2>2. b \in Reached(f) \ {Entry(f)} /\ idom[b] = l /\ b \notin visited
        BY <1>1, <1>2, <2>1, TreeFacts
    <2>3. \A d : Over(f, d, b) <=> d = b \/ Over(f, d, l)
        BY <1>2, <2>2, TreeFacts
    <2>4. \A y \in visited : ~Over(f, b, y)
        BY <1>2, <1>3, <2>2, TreeFacts
    <2>5. QED
        BY <1>2, <2>2, <2>3, <2>4
<1>5. /\ domL \in [Blocks -> Nat] /\ domR \in [Blocks -> Nat] /\ N \in Nat
      /\ visits \in Seq(Blocks) /\ Len(visits) \in Nat /\ DOMAIN visits = 1 .. Len(visits)
      /\ Len(dfsOrder') = N + 1 /\ Len(visits) # 0
    <2>1. dfsOrder \in Seq(Blocks) /\ Len(dfsOrder) \in Nat /\ visits \in Seq(Blocks) /\ Len(visits) \in Nat
        BY WalkTypes
    <2>2. Len(dfsOrder') = N + 1
        BY <1>1, <2>1
    <2>3. Len(visits) # 0
        BY <1>1, <2>1
    <2>4. QED
        BY <2>1, <2>2, <2>3, WalkTypes
<1>6. /\ IsInjective(visits') /\ Range(visits') = Range(visits) \cup {b}
      /\ Last(visits') = b /\ visits' # <<>> /\ visits'[1] = Entry(f) /\ Len(visits') = Len(visits) + 1
      /\ \A k \in 1 .. Len(visits) : visits'[k] = visits[k]
      /\ visits'[Len(visits) + 1] = b /\ visits[Len(visits)] = l
    <2>1. b \notin Range(visits)
        BY <1>3, <1>4
    <2>2. IsInjective(visits') /\ Range(visits') = Range(visits) \cup {b}
        BY <1>1, <1>3, <1>4, <1>5, <2>1, StackFacts
    <2>3. /\ Len(visits') = Len(visits) + 1 /\ \A k \in 1 .. Len(visits) : visits'[k] = visits[k]
          /\ visits'[Len(visits) + 1] = b
        BY <1>1, <1>4, <1>5
    <2>4. 1 \in 1 .. Len(visits)
        BY <1>5
    <2>5. visits' # <<>> /\ Last(visits') = b /\ visits'[1] = Entry(f)
        BY <1>3, <1>5, <2>3, <2>4 DEF Last
    <2>6. visits[Len(visits)] = l
        BY DEF Last
    <2>7. QED
        BY <2>2, <2>3, <2>5, <2>6
<1>7. \A k \in 2 .. Len(visits') : idom'[visits'[k]] = visits'[k - 1]
    <2>1. ASSUME NEW k \in 2 .. Len(visits')
          PROVE  idom'[visits'[k]] = visits'[k - 1]
        <3>1. CASE k = Len(visits) + 1
            <4>1. k - 1 = Len(visits) /\ k - 1 \in 1 .. Len(visits)
                BY <1>5, <3>1
            <4>2. visits'[k - 1] = l /\ visits'[k] = b
                BY <1>6, <3>1, <4>1
            <4>3. QED
                BY <1>1, <1>4, <4>2
        <3>2. CASE k # Len(visits) + 1
            <4>1. k \in 2 .. Len(visits) /\ k - 1 \in 1 .. Len(visits) /\ k \in 1 .. Len(visits)
                <5>1. PICK n : n = Len(visits)
                    OBVIOUS
                <5>2. n \in Nat /\ k \in 2 .. n + 1 /\ k # n + 1
                    BY <1>5, <1>6, <3>2, <5>1
                <5>3. k \in 2 .. n /\ k - 1 \in 1 .. n /\ k \in 1 .. n
                    BY <5>2
                <5>4. QED
                    BY <5>1, <5>3
            <4>2. QED
                BY <1>1, <1>3, <1>6, <4>1
        <3>3. QED
            BY <3>1, <3>2
    <2>2. QED
        BY <2>1
<1>8. /\ domL'[b] = N + 1 /\ \A x \in Blocks : x # b => domL'[x] = domL[x]
      /\ \A x : UpTo(x) = (IF x \in Range(visits) THEN N ELSE domR[x])
      /\ \A x : UpTo(x)' = (IF x \in Range(visits) \cup {b} THEN N + 1 ELSE domR[x])
    BY <1>1, <1>4, <1>5, <1>6 DEF UpTo
<1>9. \A x \in visited : x \in Blocks /\ x # b /\ domL[x] \in Nat /\ domL[x] <= N /\ domL'[x] = domL[x]
    BY <1>2, <1>3, <1>4, <1>5, <1>8
<1>10. ASSUME NEW x \in visited', NEW y \in visited'
       PROVE  Over(f, x, y) <=> domL'[x] <= domL'[y] /\ UpTo(x)' >= domL'[y]
    <2>1. CASE x \in visited /\ y \in visited
        <3>1. Over(f, x, y) <=> domL[x] <= domL[y] /\ UpTo(x) >= domL[y]
            BY <1>3, <2>1
        <3>2. UpTo(x)' >= domL[y] <=> UpTo(x) >= domL[y]
            <4>1. CASE x \in Range(visits)
                BY <1>5, <1>8, <1>9, <2>1, <4>1
            <4>2. CASE x \notin Range(visits)
                BY <1>8, <1>9, <2>1, <4>2
            <4>3. QED
                BY <4>1, <4>2
        <3>3. QED
            BY <1>9, <2>1, <3>1, <3>2
    <2>2. CASE x \in visited /\ y = b
        <3>1. Over(f, x, y) <=> x \in Range(visits)
            BY <1>3, <1>4, <2>2
        <3>2. domL'[x] <= N + 1
            BY <1>5, <1>9, <2>2
        <3>3. CASE x \in Range(visits)
            BY <1>5, <1>8, <2>2, <3>1, <3>2, <3>3
        <3>4. CASE x \notin Range(visits)
            <4>1. UpTo(x)' = domR[x] /\ domR[x] <= N /\ domR[x] \in Nat
                BY <1>3, <1>5, <1>8, <1>9, <2>2, <3>4
            <4>2. ~(UpTo(x)' >= N + 1)
                BY <1>5, <4>1
            <4>3. QED
                BY <1>8, <2>2, <3>1, <3>4, <4>2
        <3>5. QED
            BY <3>3, <3>4
    <2>3. CASE x = b /\ y \in visited
        <3>1. ~(domL'[x] <= domL'[y])
            BY <1>5, <1>8, <1>9, <2>3
        <3>2. QED
            BY <1>4, <2>3, <3>1
    <2>4. CASE x = b /\ y = b
        <3>1. Over(f, b, b) /\ UpTo(b)' = N + 1 /\ domL'[b] = N + 1
            BY <1>4, <1>8
        <3>2. QED
            BY <1>5, <2>4, <3>1
    <2>5. QED
        BY <1>1, <2>1, <2>2, <2>3, <2>4
<1>11. /\ \A x \in visited' : domL'[x] <= Len(dfsOrder')
       /\ \A x \in visited' \ {Entry(f)} : idom'[x] \in visited'
       /\ \A x \in visited' \ Range(visits') : domR'[x] <= Len(dfsOrder') /\ Kids(f, x) \subseteq visited'
    <2>1. \A x \in visited' : domL'[x] <= N + 1
        BY <1>1, <1>5, <1>8, <1>9
    <2>2. \A x \in visited' \ {Entry(f)} : idom'[x] \in visited'
        BY <1>1, <1>2, <1>3, <1>4
    <2>3. ASSUME NEW x \in visited' \ Range(visits')
          PROVE  domR'[x] <= N + 1 /\ Kids(f, x) \subseteq visited'
        <3>1. x \in visited \ Range(visits)
            BY <1>1, <1>6, <2>3
        <3>2. domR[x] <= N /\ domR[x] \in Nat /\ Kids(f, x) \subseteq visited
            BY <1>3, <1>5, <1>9, <3>1
        <3>3. QED
            BY <1>1, <1>5, <3>2
    <2>4. QED
        BY <1>5, <2>1, <2>2, <2>3
<1>12. TreeWalk(f)'
    <2>1. /\ Entry(f)' = Entry(f) /\ Reached(f)' = Reached(f)
          /\ \A d, x : Over(f, d, x)' <=> Over(f, d, x)
          /\ \A d : Kids(f, d)' = Kids(f, d)
        BY <1>1, GraphStill, OverStill, KidsStill
    <2>2. \A d : d \in Range(visits') <=> Over(f, d, Last(visits))'
        <3>1. \A d : d \in Range(visits') <=> Over(f, d, b)'
            BY <1>3, <1>4, <1>6, <2>1
        <3>2. QED
            BY <1>6, <3>1 DEF Over
    <2>3. \A x \in Reached(f)' : treeSucc'[x] = Kids(f, x)'
        BY <1>1, <1>3, <2>1
    <2>4. Entry(f)' \in visited' /\ visited' \subseteq Reached(f)' /\ Range(visits') \subseteq visited'
        BY <1>1, <1>3, <1>4, <1>6, <2>1
    <2>5. \A x, y \in visited' : Over(f, x, y)' <=> domL'[x] <= domL'[y] /\ UpTo(x)' >= domL'[y]
        BY <1>10, <2>1
    <2>6. \A x \in visited' \ Range(visits') : domR'[x] <= Len(dfsOrder') /\ Kids(f, x)' \subseteq visited'
        BY <1>11, <2>1
    <2>7. QED
        BY <1>6, <1>7, <1>11, <2>1, <2>2, <2>3, <2>4, <2>5, <2>6 DEF TreeWalk
<1>13. \A g \in Measured' : \A x, y \in Reached(g)' : IsDominate(x, y)' <=> Over(g, x, y)'
    BY <1>1, <1>4, <1>8, OtherTrees
<1>14. \A g \in DOMAIN functions \ Mapped' : \A x \in Reached(g) : treeSucc'[x] = {}
    BY <1>1 DEF TreeInv, Mapped
<1>15. QED
    BY <1>1, <1>12, <1>13, <1>14, GraphStill DEF TreeInv

\* A visit of the tree returns.
LEMMA TreeReturned ==
    ASSUME Ordered, SweepInv, FrontInv, TreeInv, UNCHANGED graphVars, TreeReturn
    PROVE  TreeInv'
<1> PICK f : f = current
    OBVIOUS
<1> PICK N : N = Len(dfsOrder)
    OBVIOUS
<1> PICK l : l = Last(visits)
    OBVIOUS
<1>1. /\ stage = "tree" /\ stage' = "tree" /\ visits # <<>> /\ visits' = Front(visits)
      /\ treeSucc[l] \subseteq visited /\ domR' = [domR EXCEPT ![l] = N]
      /\ UNCHANGED <<current, idom, treeSucc, domL, dfsOrder, visited>>
    BY DEF TreeReturn
<1>2. /\ IdomInv /\ f \in DOMAIN functions /\ f \in Walked /\ ExactIdom(f)
      /\ TreeWalk(f) /\ Reached(f) \subseteq Blocks /\ Entry(f) \in Reached(f)
      /\ l \in Range(visits)
    BY <1>1, TreeNow
<1>3. /\ visited \subseteq Reached(f) /\ Range(visits) \subseteq visited /\ IsInjective(visits)
      /\ Entry(f) \in visited /\ visits[1] = Entry(f)
      /\ \A d : d \in Range(visits) <=> Over(f, d, l)
      /\ \A x \in visited \ {Entry(f)} : idom[x] \in visited
      /\ \A k \in 2 .. Len(visits) : idom[visits[k]] = visits[k - 1]
      /\ \A x \in visited \ Range(visits) : domR[x] <= N /\ Kids(f, x) \subseteq visited
      /\ \A x \in visited : domL[x] <= N
      /\ \A x, y \in visited : Over(f, x, y) <=> domL[x] <= domL[y] /\ UpTo(x) >= domL[y]
      /\ \A x \in Reached(f) : treeSucc[x] = Kids(f, x)
    BY <1>1, <1>2 DEF TreeWalk
<1>4. /\ domL \in [Blocks -> Nat] /\ domR \in [Blocks -> Nat] /\ N \in Nat
      /\ visits \in Seq(Blocks) /\ Len(visits) \in Nat /\ DOMAIN visits = 1 .. Len(visits)
      /\ Len(visits) # 0 /\ l = visits[Len(visits)]
    <2>1. visits \in Seq(Blocks) /\ Len(visits) \in Nat
        BY WalkTypes
    <2>2. Len(visits) # 0
        BY <1>1, <2>1
    <2>3. QED
        BY <2>1, <2>2, WalkTypes DEF Last
<1>5. /\ IsInjective(visits') /\ Range(visits') = Range(visits) \ {l}
      /\ Len(visits') = Len(visits) - 1 /\ \A k \in 1 .. Len(visits) - 1 : visits'[k] = visits[k]
    <2>1. IsInjective(visits') /\ Range(visits') = Range(visits) \ {l}
        BY <1>1, <1>3, <1>4, StackFacts
    <2>2. visits' = [k \in 1 .. Len(visits) - 1 |-> visits[k]] /\ visits' \in Seq(Blocks)
        <3>1. visits' = SubSeq(visits, 1, Len(visits) - 1)
            BY <1>1 DEF Front
        <3>2. QED
            BY <1>4, <3>1
    <2>3. Len(visits') = Len(visits) - 1
        BY <1>4, <2>2
    <2>4. QED
        BY <2>1, <2>2, <2>3
<1>6. ASSUME visits' # <<>>
      PROVE  /\ visits'[1] = Entry(f) /\ Last(visits') = idom[l]
             /\ \A d : d \in Range(visits') <=> Over(f, d, idom[l])
    <2>1. Len(visits) - 1 \in 1 .. Len(visits) - 1 /\ 1 \in 1 .. Len(visits) - 1 /\ Len(visits) \in 2 .. Len(visits)
        <3>1. Len(visits') # 0
            <4>1. visits' \in Seq(Blocks)
                <5>1. visits' = SubSeq(visits, 1, Len(visits) - 1)
                    BY <1>1 DEF Front
                <5>2. QED
                    BY <1>4, <5>1
            <4>2. QED
                BY <1>6, <4>1
        <3>2. QED
            BY <1>4, <1>5, <3>1
    <2>2. Last(visits') = visits[Len(visits) - 1] /\ visits'[1] = Entry(f)
        BY <1>3, <1>5, <2>1 DEF Last
    <2>3. idom[l] = visits[Len(visits) - 1]
        BY <1>3, <1>4, <2>1
    <2>4. l # Entry(f) /\ l \in Reached(f)
        <3>1. 1 \in 1 .. Len(visits) /\ Len(visits) \in 1 .. Len(visits) /\ Len(visits) # 1
            <4>1. PICK n : n = Len(visits)
                OBVIOUS
            <4>2. n \in Nat /\ n \in 2 .. n
                BY <1>4, <2>1, <4>1
            <4>3. 1 \in 1 .. n /\ n \in 1 .. n /\ n # 1
                BY <4>2
            <4>4. QED
                BY <4>1, <4>3
        <3>2. visits[1] # visits[Len(visits)]
            BY <1>3, <1>4, <3>1 DEF IsInjective
        <3>3. QED
            BY <1>2, <1>3, <1>4, <3>2
    <2>5. \A d : d \in Range(visits') <=> Over(f, d, idom[l])
        <3>1. \A d : Over(f, d, l) <=> d = l \/ Over(f, d, idom[l])
            BY <1>2, <2>4, TreeFacts
        <3>2. ~Over(f, l, idom[l])
            BY <1>2, <2>4, TreeFacts
        <3>3. QED
            BY <1>3, <1>5, <3>1, <3>2
    <2>6. QED
        BY <2>2, <2>3, <2>5
<1>7. \A k \in 2 .. Len(visits') : idom'[visits'[k]] = visits'[k - 1]
    <2>1. ASSUME NEW k \in 2 .. Len(visits')
          PROVE  idom'[visits'[k]] = visits'[k - 1]
        <3>1. k \in 2 .. Len(visits) /\ k \in 1 .. Len(visits) - 1 /\ k - 1 \in 1 .. Len(visits) - 1
            BY <1>4, <1>5
        <3>2. QED
            BY <1>1, <1>3, <1>5, <3>1
    <2>2. QED
        BY <2>1
<1>8. /\ \A x : UpTo(x)' = UpTo(x)
      /\ \A x \in visited' \ Range(visits') : domR'[x] <= Len(dfsOrder') /\ Kids(f, x) \subseteq visited'
    <2>1. l \in Reached(f) /\ l \in Blocks
        BY <1>2, <1>3
    <2>2. domR'[l] = N /\ \A x : x # l => domR'[x] = domR[x]
        BY <1>1, <1>4, <2>1
    <2>3. \A x : UpTo(x)' = UpTo(x)
        BY <1>1, <1>2, <1>5, <2>2 DEF UpTo
    <2>4. Kids(f, l) \subseteq visited
        BY <1>1, <1>3, <2>1
    <2>5. QED
        BY <1>1, <1>3, <1>4, <1>5, <2>2, <2>3, <2>4
<1>9. TreeWalk(f)'
    <2>1. /\ Entry(f)' = Entry(f) /\ Reached(f)' = Reached(f)
          /\ \A d, x : Over(f, d, x)' <=> Over(f, d, x)
          /\ \A d : Kids(f, d)' = Kids(f, d)
        BY <1>1, GraphStill, OverStill, KidsStill
    <2>2. ASSUME visits' # <<>>
          PROVE  \A d : d \in Range(visits') <=> Over(f, d, Last(visits))'
        <3>1. PICK m : m = idom[l]
            OBVIOUS
        <3>2. \A d : d \in Range(visits') <=> Over(f, d, m)'
            BY <1>6, <2>1, <2>2, <3>1
        <3>3. Last(visits') = m
            BY <1>6, <2>2, <3>1
        <3>4. QED
            BY <3>2, <3>3 DEF Over
    <2>3. \A x \in Reached(f)' : treeSucc'[x] = Kids(f, x)'
        BY <1>1, <1>3, <2>1
    <2>4. Entry(f)' \in visited' /\ visited' \subseteq Reached(f)' /\ Range(visits') \subseteq visited'
        BY <1>1, <1>3, <1>5, <2>1
    <2>5. \A x, y \in visited' : Over(f, x, y)' <=> domL'[x] <= domL'[y] /\ UpTo(x)' >= domL'[y]
        BY <1>1, <1>3, <1>8, <2>1
    <2>6. \A x \in visited' \ Range(visits') : domR'[x] <= Len(dfsOrder') /\ Kids(f, x)' \subseteq visited'
        BY <1>8, <2>1
    <2>7. /\ \A x \in visited' : domL'[x] <= Len(dfsOrder')
          /\ \A x \in visited' \ {Entry(f)'} : idom'[x] \in visited'
          /\ visits' # <<>> => visits'[1] = Entry(f)'
        BY <1>1, <1>3, <1>6, <2>1
    <2>8. QED
        BY <1>5, <1>7, <2>2, <2>3, <2>4, <2>5, <2>6, <2>7 DEF TreeWalk
<1>10. \A g \in Measured' : \A x, y \in Reached(g)' : IsDominate(x, y)' <=> Over(g, x, y)'
    <2>1. l \in Reached(f)
        BY <1>2, <1>3
    <2>2. \A x \in Blocks \ {l} : domL'[x] = domL[x] /\ domR'[x] = domR[x]
        BY <1>1, <1>4
    <2>3. QED
        BY <1>1, <2>1, <2>2, OtherTrees
<1>11. \A g \in DOMAIN functions \ Mapped' : \A x \in Reached(g) : treeSucc'[x] = {}
    BY <1>1 DEF TreeInv, Mapped
<1>12. QED
    BY <1>1, <1>9, <1>10, <1>11, GraphStill DEF TreeInv

\* When the last visit has returned, everything that is reached was entered.
LEMMA TreeComplete ==
    ASSUME Ordered, SweepInv, FrontInv, TreeInv, stage = "tree", visits = <<>>
    PROVE  visited = Reached(current)
<1> PICK f : f = current
    OBVIOUS
<1>1. /\ IdomInv /\ f \in DOMAIN functions /\ f \in Walked /\ ExactIdom(f)
      /\ TreeWalk(f) /\ Reached(f) \subseteq Blocks /\ Entry(f) \in Reached(f)
      /\ postOrder \in Seq(Blocks) /\ IsInjective(postOrder) /\ Reached(f) \subseteq Numbered
    BY TreeNow, OrderedTypes, OrderedFacts
<1>2. Range(visits) = {}
    BY DEF Range
<1> DEFINE Good == visited \cup (Numbered \ Reached(f))
<1>3. ASSUME NEW b \in Numbered, \A a \in Numbered : Ahead(a, b) => a \in Good
      PROVE  b \in Good
    <2>1. CASE b \notin Reached(f) \/ b = Entry(f)
        BY <1>1, <2>1 DEF TreeWalk
    <2>2. CASE b \in Reached(f) \ {Entry(f)}
        <3>1. PICK d : d = idom[b]
            OBVIOUS
        <3>2. d \in Reached(f) /\ Ahead(d, b)
            BY <1>1, <2>2, <3>1, TreeFacts
        <3>3. d \in visited \ Range(visits) /\ d \in Blocks
            BY <1>1, <1>2, <1>3, <3>2
        <3>4. Kids(f, d) \subseteq visited
            BY <1>1, <3>3 DEF TreeWalk
        <3>5. b \in Kids(f, d)
            BY <1>1, <2>2, <3>1, <3>3, TreeFacts
        <3>6. QED
            BY <3>4, <3>5
    <2>3. QED
        BY <2>1, <2>2
<1> HIDE DEF Good
<1>4. Numbered \subseteq Good
    BY <1>1, <1>3, FromAbove
<1>5. Reached(f) \subseteq visited
    BY <1>1, <1>4 DEF Good
<1>6. QED
    BY <1>1, <1>5 DEF TreeWalk

LEMMA TreeFinished ==
    ASSUME Ordered, SweepInv, FrontInv, TreeInv, UNCHANGED graphVars, FinishFunc
    PROVE  TreeInv'
<1> PICK f : f = current
    OBVIOUS
<1>1. /\ stage = "tree" /\ stage' = "done" /\ visits = <<>>
      /\ UNCHANGED <<current, treeSucc, domL, domR>>
    BY DEF FinishFunc, domMaps
<1>2. /\ IdomInv /\ f \in DOMAIN functions /\ f \in Walked /\ ExactIdom(f)
      /\ TreeWalk(f) /\ Reached(f) \subseteq Blocks /\ Entry(f) \in Reached(f)
      /\ DOMAIN functions = 1 .. Len(functions) /\ Len(functions) \in Nat
    BY <1>1, TreeNow, OrderedTypes
<1>3. Range(visits) = {}
    BY <1>1 DEF Range
<1>4. Reached(f) \subseteq visited
    BY <1>1, TreeComplete
<1>5. \A x, y \in Reached(f) : IsDominate(x, y) <=> Over(f, x, y)
    <2>1. \A x, y \in visited : Over(f, x, y) <=> domL[x] <= domL[y] /\ UpTo(x) >= domL[y]
        BY <1>2 DEF TreeWalk
    <2>2. \A x : UpTo(x) = domR[x]
        BY <1>3 DEF UpTo
    <2>3. QED
        BY <1>4, <2>1, <2>2 DEF IsDominate
<1>6. ASSUME NEW g \in Measured'
      PROVE  \A x, y \in Reached(g) : IsDominate(x, y) <=> Over(g, x, y)
    <2>1. g \in Measured \/ g = f
        BY <1>1, <1>2, <1>6 DEF Measured
    <2>2. QED
        BY <1>5, <2>1 DEF TreeInv
<1>7. \A g \in Measured' : \A x, y \in Reached(g)' : IsDominate(x, y)' <=> Over(g, x, y)'
    <2>1. \A x, y : IsDominate(x, y)' <=> IsDominate(x, y)
        BY <1>1 DEF IsDominate
    <2>2. QED
        BY <1>6, <2>1, GraphStill, OverStill
<1>8. \A g \in DOMAIN functions \ Mapped' : \A x \in Reached(g) : treeSucc'[x] = {}
    BY <1>1 DEF TreeInv, Mapped
<1>9. QED
    BY <1>1, <1>7, <1>8, GraphStill DEF TreeInv

\* The other steps leave the tree alone.
LEMMA TreesKept ==
    ASSUME TreeInv, UNCHANGED graphVars, UNCHANGED <<treeSucc, domL, domR>>,
           Mapped' = Mapped, Measured' = Measured, stage' = "tree" => UNCHANGED dvars
    PROVE  TreeInv'
<1>1. functions' = functions
    BY DEF graphVars
<1>2. \A f, x, y : /\ IsDominate(x, y)' <=> IsDominate(x, y)
                   /\ Over(f, x, y)' <=> Over(f, x, y)
                   /\ Reached(f)' = Reached(f)
    BY GraphStill, OverStill DEF IsDominate
<1>3. ASSUME stage' = "tree"
      PROVE  TreeWalk(current)'
    <2> PICK f : f = current
        OBVIOUS
    <2>1. /\ UNCHANGED <<current, stage, idom, treeSucc, domL, domR, dfsOrder, visits, visited>>
          /\ TreeWalk(f)
        BY <1>3 DEF dvars, domMaps, domLocals, TreeInv
    <2>2. /\ Entry(f)' = Entry(f) /\ Reached(f)' = Reached(f)
          /\ \A d : Kids(f, d)' = Kids(f, d) /\ UpTo(d)' = UpTo(d)
        BY <2>1, GraphStill, KidsStill DEF UpTo
    <2>3. \A d : Over(f, d, Last(visits))' <=> Over(f, d, Last(visits))
        <3>1. PICK l : l = Last(visits)
            OBVIOUS
        <3>2. Last(visits') = l
            BY <2>1, <3>1
        <3>3. \A d : Over(f, d, l)' <=> Over(f, d, l)
            BY <1>2
        <3>4. \A d : Over(f, d, Last(visits))' <=> Over(f, d, l)'
            BY <3>2 DEF Over
        <3>5. \A d : Over(f, d, Last(visits)) <=> Over(f, d, l)
            BY <3>1
        <3>6. QED
            BY <3>3, <3>4, <3>5
    <2>4. TreeWalk(f)'
        BY <1>2, <2>1, <2>2, <2>3 DEF TreeWalk
    <2>5. QED
        BY <2>1, <2>4
<1>4. /\ \A f \in DOMAIN functions \ Mapped : \A x \in Reached(f) : treeSucc[x] = {}
      /\ \A f \in Measured : \A x, y \in Reached(f) : IsDominate(x, y) <=> Over(f, x, y)
    BY DEF TreeInv
<1>5. \A f \in DOMAIN functions' \ Mapped' : \A x \in Reached(f)' : treeSucc'[x] = {}
    BY <1>1, <1>2, <1>4
<1>6. \A f \in Measured' : \A x, y \in Reached(f)' : IsDominate(x, y)' <=> Over(f, x, y)'
    BY <1>2, <1>4
<1>7. QED
    BY <1>3, <1>5, <1>6 DEF TreeInv

Trees == pass = "loops" => TreeInv

LEMMA TreesStep ==
    ASSUME ProgramInv, AnalysisInv, EntryInv, Numbering, Sweeps, Fronts, Trees, [Next]_vars
    PROVE  Trees'
<1> SUFFICES ASSUME pass' = "loops"
             PROVE  TreeInv'
    BY DEF Trees
<1>1. CASE StartLoopDetection
    <2>1. /\ current' = 0 /\ stage' = "done" /\ treeSucc' = [b \in Blocks |-> {}]
          /\ UNCHANGED graphVars
        BY <1>1 DEF StartLoopDetection, NewDominators, bvars
    <2>2. Measured' = {}
        BY <2>1 DEF Measured
    <2>3. GraphInv
        BY DEF GraphInv, ProgramInv, BuilderInv, BuilderTypeOK
    <2>4. \A f \in DOMAIN functions : Reached(f) \subseteq Blocks
        BY <2>3, ReachedFacts
    <2>5. \A f \in DOMAIN functions' : \A x \in Reached(f)' : treeSucc'[x] = {}
        BY <2>1, <2>4, GraphStill
    <2>6. QED
        BY <2>1, <2>2, <2>5 DEF TreeInv
<1>2. CASE pass = "loops" /\ UNCHANGED graphVars
    <2>1. Ordered /\ SweepInv /\ FrontInv /\ TreeInv
        BY <1>2, OrderedNow DEF Sweeps, Fronts, Trees
    <2>2. current \in Int
        BY <2>1, OrderedTypes DEF Ordered, WalkInv, WalkTypeOK
    <2>3. CASE NextFunction
        <3>1. RunOnFunc(cursor + 1) /\ cursor = current
            BY <2>1, <2>3 DEF NextFunction, Ordered
        <3>2. /\ stage = "done" /\ stage' = "dfs" /\ current' = current + 1
              /\ UNCHANGED <<treeSucc, domL, domR>>
            BY <3>1 DEF RunOnFunc
        <3>3. Mapped' = Mapped /\ Measured' = Measured
            BY <2>2, <3>2 DEF Mapped, Measured
        <3>4. QED
            BY <1>2, <2>1, <3>2, <3>3, TreesKept
    <2>4. CASE DfsEnter \/ DfsReturn \/ StartIdom \/ IdomOfBlock \/ SweepAgain \/ StartFrontier \/ FrontierOfBlock
        <3>1. /\ stage \in {"dfs", "idom", "frontier"} /\ stage' \in {"dfs", "idom", "frontier"}
              /\ UNCHANGED <<current, treeSucc, domL, domR>>
            BY <2>4 DEF DfsEnter, DfsReturn, StartIdom, IdomOfBlock, SweepAgain, StartFrontier,
                        FrontierOfBlock, domMaps
        <3>2. Mapped' = Mapped /\ Measured' = Measured
            BY <3>1 DEF Mapped, Measured
        <3>3. QED
            BY <1>2, <2>1, <3>1, <3>2, TreesKept
    <2>5. CASE CreateTree
        BY <1>2, <2>1, <2>5, TreeCreated
    <2>6. CASE TreeEnter
        BY <1>2, <2>1, <2>6, TreeEntered
    <2>7. CASE TreeReturn
        BY <1>2, <2>1, <2>7, TreeReturned
    <2>8. CASE FinishFunc
        BY <1>2, <2>1, <2>8, TreeFinished
    <2>9. CASE UNCHANGED dvars
        <3>1. UNCHANGED <<current, stage, treeSucc, domL, domR>>
            BY <2>9 DEF dvars, domMaps, domLocals
        <3>2. Mapped' = Mapped /\ Measured' = Measured
            BY <3>1 DEF Mapped, Measured
        <3>3. QED
            BY <1>2, <2>1, <2>9, <3>1, <3>2, TreesKept
    <2>10. QED
        BY <1>2, <2>3, <2>4, <2>5, <2>6, <2>7, <2>8, <2>9, AnalysisCases, <1>1 DEF DominatorsStep
<1>3. QED
    BY <1>1, <1>2, AnalysisCases

LEMMA TreesHold == Spec => []Trees
<1>1. Init => Trees
    BY DEF Init, Trees
<1>2. Init => AnalysisInv
    BY DEF Init, AnalysisInv
<1>3. ProgramInv /\ AnalysisInv /\ [Next]_vars => AnalysisInv'
    BY AnalysisStep
<1>4. ProgramInv /\ AnalysisInv /\ EntryInv /\ Numbering /\ Sweeps /\ Fronts /\ Trees /\ [Next]_vars => Trees'
    BY TreesStep
<1>5. QED
    BY <1>1, <1>2, <1>3, <1>4, ProgramInvariant, EntryInvariant, NumberingHolds, SweepsHold, FrontsHold,
       PTL DEF Spec

-----------------------------------------------------------------------------
\* The strict dominator all others dominate, in these words.
LEMMA ImmediateFacts ==
    ASSUME Ordered, IdomInv, NEW f \in Walked, ExactIdom(f), NEW b \in Reached(f) \ {Entry(f)}
    PROVE  IsImmediateDominator(Dominance(f), idom[b], b)
<1> PICK d : d = idom[b]
    OBVIOUS
<1>1. /\ d \in Reached(f) /\ d # b /\ Over(f, d, b)
      /\ \A e : Over(f, e, b) /\ e # b => Over(f, e, d)
    <2>1. d # b /\ d \in Reached(f) /\ \A e : Over(f, e, b) <=> e = b \/ Over(f, e, d)
        BY TreeFacts
    <2>2. Over(f, d, b)
        BY DEF ExactIdom
    <2>3. QED
        BY <2>1, <2>2
<1>2. /\ \A e, c : <<e, c>> \in Dominance(f) <=> Over(f, e, c)
      /\ StrictDominators(Dominance(f), b) = {e \in Reached(f) : e # b /\ Over(f, e, b)}
    BY DominanceFacts
<1>3. QED
    BY <1>1, <1>2 DEF IsImmediateDominator

\* After Dominators::run_on_func has been run on one function after another,
\* idom_, dom_frontier_ and the intervals of the tree say for every program
\* and of every function analysed what the paths of its flow graph say.
THEOREM DominatorsFound == Spec => []DominatorsExact
<1>1. ASSUME ProgramInv, AnalysisInv, EntryInv, Numbering, Sweeps, Fronts, Trees
      PROVE  DominatorsExact
    <2> SUFFICES ASSUME NEW f \in Analysed, NEW b \in Reached(f)
                 PROVE  /\ b # Entry(f) => IsImmediateDominator(Dominance(f), idom[b], b)
                        /\ frontier[b] = DominanceFrontier(Dominance(f), b)
                        /\ \A c \in Reached(f) : IsDominate(c, b) = (<<c, b>> \in Dominance(f))
        BY DEF DominatorsExact
    <2>1. pass = "loops" /\ stage = "done" /\ f \in 1 .. cursor
        BY DEF Analysed, FuncDone
    <2>2. Ordered /\ SweepInv /\ FrontInv /\ TreeInv
        BY <1>1, <2>1, OrderedNow DEF Sweeps, Fronts, Trees
    <2>3. cursor = current /\ cursor \in 0 .. Len(functions)
        BY <2>2 DEF Ordered, WalkInv, WalkTypeOK
    <2>4. /\ f \in Walked /\ f \in Finished /\ f \in Mapped /\ f \in Measured
        BY <2>1, <2>3 DEF Walked, Finished, Mapped, Measured
    <2>5. IdomInv /\ ExactIdom(f) /\ f \in DOMAIN functions /\ ~thrown
        BY <2>1, <2>2, <2>4, OrderedFacts DEF SweepInv, FrontInv
    <2>6. b # Entry(f) => IsImmediateDominator(Dominance(f), idom[b], b)
        BY <2>2, <2>4, <2>5, ImmediateFacts
    <2>7. frontier[b] = DominanceFrontier(Dominance(f), b)
        BY <2>2, <2>4, <2>5 DEF FrontInv, FrontierNow
    <2>8. ASSUME NEW c \in Reached(f)
          PROVE  IsDominate(c, b) = (<<c, b>> \in Dominance(f))
        <3>1. IsDominate(c, b) <=> Over(f, c, b)
            BY <2>2, <2>4 DEF TreeInv
        <3>2. <<c, b>> \in Dominance(f) <=> Over(f, c, b)
            BY DominanceFacts
        <3>3. IsDominate(c, b) \in BOOLEAN
            BY DEF IsDominate
        <3>4. QED
            BY <3>1, <3>2, <3>3
    <2>9. QED
        BY <2>6, <2>7, <2>8
<1>2. Init => AnalysisInv
    BY DEF Init, AnalysisInv
<1>3. ProgramInv /\ AnalysisInv /\ [Next]_vars => AnalysisInv'
    BY AnalysisStep
<1>4. QED
    BY <1>1, <1>2, <1>3, ProgramInvariant, EntryInvariant, NumberingHolds, SweepsHold, FrontsHold, TreesHold,
       PTL DEF Spec
=============================================================================
