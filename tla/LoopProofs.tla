----------------------------- MODULE LoopProofs -----------------------------
(***************************************************************************)
(* LoopDetection finds the natural loops of every function, innermost      *)
(* first, and how they are nested; and every cycle is in one of them,      *)
(* since the flow graphs can be reduced.                                   *)
(***************************************************************************)
EXTENDS RegionProofs

\* The blocks of the natural loops, as pairs <<h, b>> of a header and a block.
NaturalOf(f) == NaturalLoops(f, Dominance(f))

\* In what follows N is such a set of pairs, R the blocks of the function and S a
\* set of headers.  l is the innermost loop of S around b, or there is none.
Inner(N, S, b, l) ==
    IF l = NoBlock THEN \A g \in S : <<g, b>> \notin N
    ELSE l \in S /\ <<l, b>> \in N /\ \A g \in S : <<g, b>> \in N => <<g, l>> \in N

\* The loops with headers in S are found, with their blocks and their nesting.
Nest(N, R, S, bt, lp, lb, sl) ==
    /\ \A g \in S : <<g, g>> \in N
    /\ \A b \in R : Inner(N, S, b, bt[b])
    /\ \A g \in S : Inner(N, S \ {g}, g, lp[g])
    /\ \A g \in R \ S : lp[g] = NoBlock
    /\ \A g \in S : lb[g] = {b \in R : bt[b] = g}
    /\ \A g \in R : sl[g] = {k \in S : lp[k] = g}

\* While the loop of h is discovered, l may be h as well, if no loop found
\* before is around b.
Placed(N, S, h, b, l) ==
    IF l = h THEN <<h, b>> \in N /\ \A g \in S : <<g, b>> \notin N ELSE Inner(N, S, b, l)

\* The blocks discovered, and those of the loops discovered.
Covered(N, R, S, h, bt, lp) ==
    {b \in R : bt[b] = h \/ \E g \in S : lp[g] = h /\ <<g, b>> \in N}

\* The loops of S are found and that of h is being discovered: what goes to a
\* block discovered is discovered or still in the work list wl.
Search(N, R, prd, S, h, bt, lp, lb, sl, wl) ==
    /\ h \in R \ S /\ <<h, h>> \in N
    /\ \A g \in S : <<g, g>> \in N /\ <<g, h>> \notin N
    /\ \A b \in R : Placed(N, S, h, b, bt[b])
    /\ bt[h] = h
    /\ \A g \in S : Placed(N, S \ {g}, h, g, lp[g])
    /\ \A g \in R \ S : lp[g] = NoBlock
    /\ \A g \in S \cup {h} : lb[g] = {b \in R : bt[b] = g}
    /\ \A g \in R : sl[g] = {k \in S : lp[k] = g}
    /\ \A b \in wl : <<h, b>> \in N
    /\ \A q \in Range(prd[h]) : <<h, q>> \in N => q \in Covered(N, R, S, h, bt, lp) \cup wl
    /\ \A b \in R \ {h} : bt[b] = h => Range(prd[b]) \subseteq Covered(N, R, S, h, bt, lp) \cup wl
    /\ \A g \in S : lp[g] = h => Range(prd[g]) \subseteq Covered(N, R, S, h, bt, lp) \cup wl

\* What holds of the natural loops of a function: a loop contains all that goes
\* to its blocks other than the header, and is the least such set; two loops
\* are apart or one contains the other.
Forest(N, R, prd) ==
    /\ NoBlock \notin R /\ N \subseteq R \X R
    /\ \A h, b : <<h, b>> \in N => <<h, h>> \in N
    /\ \A h, b : <<h, b>> \in N /\ <<b, h>> \in N => h = b
    /\ \A h, g, b : <<h, g>> \in N /\ <<g, b>> \in N => <<h, b>> \in N
    /\ \A h, g, b : <<h, b>> \in N /\ <<g, b>> \in N => <<h, g>> \in N \/ <<g, h>> \in N
    /\ \A h, b : <<h, b>> \in N /\ b # h => \A q \in Range(prd[b]) : <<h, q>> \in N
    /\ \A h, T : /\ \A q \in Range(prd[h]) : <<h, q>> \in N => q \in T
                 /\ \A b \in T : <<h, b>> \in N /\ b # h => Range(prd[b]) \subseteq T
                 => \A b : <<h, b>> \in N => b = h \/ b \in T

\* When the work list is empty, the loop of h and the loops in it are found.
LEMMA SearchEnds ==
    ASSUME NEW N, NEW R, NEW prd, NEW S, NEW h, NEW bt, NEW lp, NEW lb, NEW sl,
           Forest(N, R, prd), Search(N, R, prd, S, h, bt, lp, lb, sl, {})
    PROVE  Nest(N, R, S \cup {h}, bt, lp, lb, sl)
<1> PICK C : C = Covered(N, R, S, h, bt, lp)
    OBVIOUS
<1>1. /\ \A q, b : <<q, b>> \in N => q \in R /\ b \in R
      /\ NoBlock \notin R /\ h \in R /\ h \notin S /\ <<h, h>> \in N
      /\ \A g \in S : <<g, g>> \in N /\ <<g, h>> \notin N /\ g \in R
    BY DEF Forest, Search
<1>2. ASSUME NEW b, <<h, b>> \in N
      PROVE  b \in C
    <2>1. \A q \in Range(prd[h]) : <<h, q>> \in N => q \in C
        BY DEF Search
    <2>2. ASSUME NEW c \in C, c # h, NEW q \in Range(prd[c])
          PROVE  q \in C
        <3>1. c \in R
            BY DEF Covered
        <3>2. CASE bt[c] = h
            BY <2>2, <3>1, <3>2 DEF Search
        <3>3. CASE \E g \in S : lp[g] = h /\ <<g, c>> \in N
            <4>1. PICK g \in S : lp[g] = h /\ <<g, c>> \in N
                BY <3>3
            <4>2. CASE c = g
                BY <2>2, <4>1, <4>2 DEF Search
            <4>3. CASE c # g
                <5>1. <<g, q>> \in N
                    BY <2>2, <4>1, <4>3 DEF Forest
                <5>2. QED
                    BY <1>1, <4>1, <5>1 DEF Covered
            <4>4. QED
                BY <4>2, <4>3
        <3>4. QED
            BY <3>2, <3>3 DEF Covered
    <2>3. \A c \in C : <<h, c>> \in N /\ c # h => Range(prd[c]) \subseteq C
        BY <2>2
    <2>4. b = h \/ b \in C
        BY <1>2, <2>1, <2>3 DEF Forest
    <2>5. h \in C
        BY <1>1 DEF Covered, Search
    <2>6. QED
        BY <2>4, <2>5
<1>3. ASSUME NEW l, NEW b, <<l, b>> \in N, <<h, b>> \in N, l \in S
      PROVE  <<h, l>> \in N
    BY <1>1, <1>3 DEF Forest
<1>4. ASSUME NEW b \in R
      PROVE  Inner(N, S \cup {h}, b, bt[b])
    <2> PICK l : l = bt[b]
        OBVIOUS
    <2>1. Placed(N, S, h, b, l)
        BY DEF Search
    <2>2. CASE l = h
        BY <1>1, <2>1, <2>2 DEF Placed, Inner
    <2>3. CASE l # h /\ l = NoBlock
        <3>1. \A g \in S : <<g, b>> \notin N
            BY <2>1, <2>3 DEF Placed, Inner
        <3>2. <<h, b>> \notin N
            BY <1>2, <2>3, <3>1 DEF Covered
        <3>3. QED
            BY <2>3, <3>1, <3>2 DEF Inner
    <2>4. CASE l # h /\ l # NoBlock
        BY <1>3, <2>1, <2>4 DEF Placed, Inner
    <2>5. QED
        BY <2>2, <2>3, <2>4
<1>5. ASSUME NEW g \in S \cup {h}
      PROVE  Inner(N, (S \cup {h}) \ {g}, g, lp[g])
    <2> PICK l : l = lp[g]
        OBVIOUS
    <2>1. CASE g = h
        <3>1. lp[h] = NoBlock
            BY <1>1 DEF Search
        <3>2. QED
            BY <1>1, <2>1, <3>1 DEF Inner
    <2>2. CASE g \in S
        <3>1. Placed(N, S \ {g}, h, g, l) /\ g # h
            BY <1>1, <2>2 DEF Search
        <3>2. CASE l = h
            BY <1>1, <3>1, <3>2 DEF Placed, Inner
        <3>3. CASE l # h /\ l = NoBlock
            <4>1. \A k \in S \ {g} : <<k, g>> \notin N
                BY <3>1, <3>3 DEF Placed, Inner
            <4>2. <<h, g>> \notin N
                <5> SUFFICES ASSUME g \in C
                             PROVE  FALSE
                    BY <1>2
                <5>1. bt[g] # h
                    BY <1>1, <2>2 DEF Search, Placed
                <5>2. PICK k \in S : lp[k] = h /\ <<k, g>> \in N
                    BY <5>1 DEF Covered
                <5>3. k # g
                    BY <3>3, <5>2
                <5>4. QED
                    BY <4>1, <5>2, <5>3
            <4>3. QED
                BY <3>3, <4>1, <4>2 DEF Inner
        <3>4. CASE l # h /\ l # NoBlock
            BY <1>3, <3>1, <3>4 DEF Placed, Inner
        <3>5. QED
            BY <3>2, <3>3, <3>4
    <2>3. QED
        BY <2>1, <2>2
<1>6. /\ \A g \in S \cup {h} : <<g, g>> \in N
      /\ \A g \in R \ (S \cup {h}) : lp[g] = NoBlock
      /\ \A g \in S \cup {h} : lb[g] = {b \in R : bt[b] = g}
    BY <1>1 DEF Search
<1>7. ASSUME NEW g \in R
      PROVE  sl[g] = {k \in S \cup {h} : lp[k] = g}
    <2>1. sl[g] = {k \in S : lp[k] = g} /\ lp[h] = NoBlock
        BY <1>1 DEF Search
    <2>2. QED
        BY <1>1, <2>1
<1>8. QED
    BY <1>4, <1>5, <1>6, <1>7 DEF Nest

\* A loop is created, its work list is what goes back to its header.
Begins(N, R, prd, S, h, bt, lp, lb, sl, bt2, lb2, wl) ==
    /\ Forest(N, R, prd) /\ Nest(N, R, S, bt, lp, lb, sl)
    /\ S \subseteq R /\ h \in R \ S /\ <<h, h>> \in N /\ \A g \in S : <<g, h>> \notin N
    /\ bt2[h] = h /\ \A b \in R \ {h} : bt2[b] = bt[b]
    /\ lb2[h] = {h} /\ \A g \in S : lb2[g] = lb[g]
    /\ \A b \in wl : <<h, b>> \in N
    /\ \A q \in Range(prd[h]) : <<h, q>> \in N => q \in wl

\* The search of a loop begins with what goes back to its header.
LEMMA SearchBegins ==
    ASSUME NEW N, NEW R, NEW prd, NEW S, NEW h, NEW bt, NEW lp, NEW lb, NEW sl,
           NEW bt2, NEW lb2, NEW wl, Begins(N, R, prd, S, h, bt, lp, lb, sl, bt2, lb2, wl)
    PROVE  Search(N, R, prd, S, h, bt2, lp, lb2, sl, wl)
<1>1. /\ S \subseteq R /\ h \in R \ S /\ <<h, h>> \in N /\ \A g \in S : <<g, h>> \notin N
      /\ bt2[h] = h /\ \A b \in R \ {h} : bt2[b] = bt[b]
      /\ lb2[h] = {h} /\ \A g \in S : lb2[g] = lb[g]
      /\ \A b \in wl : <<h, b>> \in N
      /\ \A q \in Range(prd[h]) : <<h, q>> \in N => q \in wl
      /\ NoBlock \notin R
    BY DEF Begins, Forest
<1>2. /\ \A g \in S : <<g, g>> \in N
      /\ \A b \in R : Inner(N, S, b, bt[b])
      /\ \A g \in S : Inner(N, S \ {g}, g, lp[g])
      /\ \A g \in R \ S : lp[g] = NoBlock
      /\ \A g \in S : lb[g] = {b \in R : bt[b] = g}
      /\ \A g \in R : sl[g] = {k \in S : lp[k] = g}
    BY DEF Begins, Nest
<1>3. bt[h] = NoBlock
    BY <1>1, <1>2 DEF Inner
<1>4. /\ \A b \in R : bt[b] # h
      /\ \A g \in S : lp[g] # h
    BY <1>1, <1>2 DEF Inner
<1>5. ASSUME NEW b \in R
      PROVE  Placed(N, S, h, b, bt2[b])
    <2>1. CASE b = h
        BY <1>1, <2>1 DEF Placed
    <2>2. CASE b # h
        BY <1>1, <1>2, <1>4, <2>2 DEF Placed
    <2>3. QED
        BY <2>1, <2>2
<1>6. \A g \in S : Placed(N, S \ {g}, h, g, lp[g])
    BY <1>2, <1>4 DEF Placed
<1>7. ASSUME NEW g \in S \cup {h}
      PROVE  lb2[g] = {b \in R : bt2[b] = g}
    <2>1. CASE g = h
        BY <1>1, <1>4, <2>1
    <2>2. CASE g # h
        BY <1>1, <1>2, <1>3, <2>2
    <2>3. QED
        BY <2>1, <2>2
<1>8. \A b \in R \ {h} : bt2[b] # h
    BY <1>1, <1>4
<1>9. QED
    BY <1>1, <1>2, <1>4, <1>5, <1>6, <1>7, <1>8 DEF Search

\* What is left in the work list when a block of it is done with.
Replaced(wl2, wl, b, new) == wl \ {b} \subseteq wl2 /\ new \subseteq wl2 /\ wl2 \subseteq wl \cup new

\* A block is added to the loop.
Adds(N, R, prd, S, h, bt, lp, lb, sl, wl, b, bt2, lb2, wl2) ==
    /\ Forest(N, R, prd) /\ Search(N, R, prd, S, h, bt, lp, lb, sl, wl)
    /\ b \in wl /\ bt[b] = NoBlock
    /\ bt2[b] = h /\ \A c \in R \ {b} : bt2[c] = bt[c]
    /\ lb2[h] = lb[h] \cup {b} /\ \A g \in S : lb2[g] = lb[g]
    /\ Replaced(wl2, wl, b, Range(prd[b]))

\* The search goes on with a block that was in no loop.
LEMMA SearchAdds ==
    ASSUME NEW N, NEW R, NEW prd, NEW S, NEW h, NEW bt, NEW lp, NEW lb, NEW sl, NEW wl,
           NEW b, NEW bt2, NEW lb2, NEW wl2,
           Adds(N, R, prd, S, h, bt, lp, lb, sl, wl, b, bt2, lb2, wl2)
    PROVE  Search(N, R, prd, S, h, bt2, lp, lb2, sl, wl2)
<1> PICK C, C2 : C = Covered(N, R, S, h, bt, lp) /\ C2 = Covered(N, R, S, h, bt2, lp)
    OBVIOUS
<1>1. /\ b \in wl /\ bt[b] = NoBlock
      /\ bt2[b] = h /\ \A c \in R \ {b} : bt2[c] = bt[c]
      /\ lb2[h] = lb[h] \cup {b} /\ \A g \in S : lb2[g] = lb[g]
      /\ wl \ {b} \subseteq wl2 /\ Range(prd[b]) \subseteq wl2 /\ wl2 \subseteq wl \cup Range(prd[b])
      /\ NoBlock \notin R /\ \A c, d : <<c, d>> \in N => c \in R /\ d \in R
      /\ \A c, d : <<c, d>> \in N /\ d # c => \A q \in Range(prd[d]) : <<c, q>> \in N
    BY DEF Adds, Forest, Replaced
<1>2. /\ h \in R \ S /\ <<h, h>> \in N
      /\ \A g \in S : <<g, g>> \in N /\ <<g, h>> \notin N
      /\ \A c \in R : Placed(N, S, h, c, bt[c])
      /\ bt[h] = h
      /\ \A g \in S : Placed(N, S \ {g}, h, g, lp[g])
      /\ \A g \in R \ S : lp[g] = NoBlock
      /\ \A g \in S \cup {h} : lb[g] = {c \in R : bt[c] = g}
      /\ \A g \in R : sl[g] = {k \in S : lp[k] = g}
      /\ \A c \in wl : <<h, c>> \in N
      /\ \A q \in Range(prd[h]) : <<h, q>> \in N => q \in C \cup wl
      /\ \A c \in R \ {h} : bt[c] = h => Range(prd[c]) \subseteq C \cup wl
      /\ \A g \in S : lp[g] = h => Range(prd[g]) \subseteq C \cup wl
    BY DEF Adds, Search
<1>3. b \in R /\ b # h /\ <<h, b>> \in N /\ h # NoBlock
    BY <1>1, <1>2
<1>4. \A g \in S : <<g, b>> \notin N
    BY <1>1, <1>2, <1>3 DEF Placed, Inner
<1>5. C \cup wl \subseteq C2 \cup wl2
    <2>1. b \in C2
        BY <1>1, <1>3 DEF Covered
    <2>2. C \subseteq C2
        BY <1>1, <2>1 DEF Covered
    <2>3. QED
        BY <1>1, <2>1, <2>2
<1>6. ASSUME NEW c \in R
      PROVE  Placed(N, S, h, c, bt2[c])
    <2>1. CASE c = b
        BY <1>1, <1>3, <1>4, <2>1 DEF Placed
    <2>2. CASE c # b
        BY <1>1, <1>2, <2>2
    <2>3. QED
        BY <2>1, <2>2
<1>7. ASSUME NEW g \in S \cup {h}
      PROVE  lb2[g] = {c \in R : bt2[c] = g}
    <2>1. lb[g] = {c \in R : bt[c] = g} /\ g \in R
        BY <1>1, <1>2
    <2>2. CASE g = h
        BY <1>1, <1>3, <2>1, <2>2
    <2>3. CASE g # h
        <3>1. lb2[g] = lb[g] /\ g # NoBlock
            BY <1>1, <2>1, <2>3
        <3>2. \A c \in R : bt2[c] = g <=> bt[c] = g
            BY <1>1, <2>3, <3>1
        <3>3. QED
            BY <2>1, <3>1, <3>2
    <2>4. QED
        BY <2>2, <2>3
<1>8. \A c \in wl2 : <<h, c>> \in N
    BY <1>1, <1>2, <1>3
<1>9. ASSUME NEW c \in R \ {h}, bt2[c] = h
      PROVE  Range(prd[c]) \subseteq C2 \cup wl2
    <2>1. CASE c = b
        BY <1>1, <2>1
    <2>2. CASE c # b
        BY <1>1, <1>2, <1>5, <1>9, <2>2
    <2>3. QED
        BY <2>1, <2>2
<1>10. bt2[h] = h
    BY <1>1, <1>2, <1>3
<1>11. QED
    BY <1>2, <1>5, <1>6, <1>7, <1>8, <1>9, <1>10 DEF Search

\* A loop found before goes into this one.
Nests(N, R, prd, S, h, bt, lp, lb, sl, wl, b, sub, lp2, sl2, wl2) ==
    /\ Forest(N, R, prd) /\ Search(N, R, prd, S, h, bt, lp, lb, sl, wl)
    /\ b \in wl /\ sub \in S /\ lp[sub] = NoBlock /\ <<sub, b>> \in N
    /\ lp2[sub] = h /\ \A g \in R \ {sub} : lp2[g] = lp[g]
    /\ sl2[h] = sl[h] \cup {sub} /\ \A g \in R \ {h} : sl2[g] = sl[g]
    /\ Replaced(wl2, wl, b, Range(prd[sub]))

\* The search goes on with a loop that had no parent.
LEMMA SearchNests ==
    ASSUME NEW N, NEW R, NEW prd, NEW S, NEW h, NEW bt, NEW lp, NEW lb, NEW sl, NEW wl,
           NEW b, NEW sub, NEW lp2, NEW sl2, NEW wl2,
           Nests(N, R, prd, S, h, bt, lp, lb, sl, wl, b, sub, lp2, sl2, wl2)
    PROVE  Search(N, R, prd, S, h, bt, lp2, lb, sl2, wl2)
<1> PICK C, C2 : C = Covered(N, R, S, h, bt, lp) /\ C2 = Covered(N, R, S, h, bt, lp2)
    OBVIOUS
<1>1. /\ b \in wl /\ sub \in S /\ lp[sub] = NoBlock /\ <<sub, b>> \in N
      /\ lp2[sub] = h /\ \A g \in R \ {sub} : lp2[g] = lp[g]
      /\ sl2[h] = sl[h] \cup {sub} /\ \A g \in R \ {h} : sl2[g] = sl[g]
      /\ wl \ {b} \subseteq wl2 /\ Range(prd[sub]) \subseteq wl2 /\ wl2 \subseteq wl \cup Range(prd[sub])
      /\ NoBlock \notin R /\ \A c, d : <<c, d>> \in N => c \in R /\ d \in R
      /\ \A c, d : <<c, d>> \in N /\ d # c => \A q \in Range(prd[d]) : <<c, q>> \in N
      /\ \A c, g, d : <<c, d>> \in N /\ <<g, d>> \in N => <<c, g>> \in N \/ <<g, c>> \in N
    BY DEF Nests, Forest, Replaced
<1>2. /\ h \in R \ S /\ <<h, h>> \in N
      /\ \A g \in S : <<g, g>> \in N /\ <<g, h>> \notin N
      /\ \A c \in R : Placed(N, S, h, c, bt[c])
      /\ bt[h] = h
      /\ \A g \in S : Placed(N, S \ {g}, h, g, lp[g])
      /\ \A g \in R \ S : lp[g] = NoBlock
      /\ \A g \in S \cup {h} : lb[g] = {c \in R : bt[c] = g}
      /\ \A g \in R : sl[g] = {k \in S : lp[k] = g}
      /\ \A c \in wl : <<h, c>> \in N
      /\ \A q \in Range(prd[h]) : <<h, q>> \in N => q \in C \cup wl
      /\ \A c \in R \ {h} : bt[c] = h => Range(prd[c]) \subseteq C \cup wl
      /\ \A g \in S : lp[g] = h => Range(prd[g]) \subseteq C \cup wl
    BY DEF Nests, Search
<1>3. b \in R /\ sub \in R /\ sub # h /\ <<h, b>> \in N /\ h # NoBlock /\ \A g \in S : g \in R /\ g # h
    BY <1>1, <1>2
<1>4. <<h, sub>> \in N
    BY <1>1, <1>2, <1>3
<1>5. \A g \in S \ {sub} : <<g, sub>> \notin N
    BY <1>1, <1>2, <1>3 DEF Placed, Inner
<1>6. C \cup wl \subseteq C2 \cup wl2
    <2>1. b \in C2
        BY <1>1, <1>3 DEF Covered
    <2>2. \A g \in S : lp[g] = h => lp2[g] = h
        BY <1>1, <1>3
    <2>3. C \subseteq C2
        BY <2>2 DEF Covered
    <2>4. QED
        BY <1>1, <2>1, <2>3
<1>7. ASSUME NEW g \in S
      PROVE  Placed(N, S \ {g}, h, g, lp2[g])
    <2>1. CASE g = sub
        BY <1>1, <1>4, <1>5, <2>1 DEF Placed
    <2>2. CASE g # sub
        BY <1>1, <1>2, <1>3, <2>2
    <2>3. QED
        BY <2>1, <2>2
<1>8. \A g \in R \ S : lp2[g] = NoBlock
    BY <1>1, <1>2
<1>9. ASSUME NEW g \in R
      PROVE  sl2[g] = {k \in S : lp2[k] = g}
    <2>1. sl[g] = {k \in S : lp[k] = g} /\ g # NoBlock
        BY <1>1, <1>2
    <2>2. CASE g = h
        BY <1>1, <1>3, <2>1, <2>2
    <2>3. CASE g # h
        <3>1. sl2[g] = sl[g]
            BY <1>1, <2>3
        <3>2. \A k \in S : lp2[k] = g <=> lp[k] = g
            BY <1>1, <1>3, <2>1, <2>3
        <3>3. QED
            BY <2>1, <3>1, <3>2
    <2>4. QED
        BY <2>2, <2>3
<1>10. \A c \in wl2 : <<h, c>> \in N
    BY <1>1, <1>2, <1>3, <1>4
<1>11. ASSUME NEW g \in S, lp2[g] = h
       PROVE  Range(prd[g]) \subseteq C2 \cup wl2
    <2>1. CASE g = sub
        BY <1>1, <2>1
    <2>2. CASE g # sub
        BY <1>1, <1>2, <1>3, <1>6, <1>11, <2>2
    <2>3. QED
        BY <2>1, <2>2
<1>12. QED
    BY <1>2, <1>6, <1>7, <1>8, <1>9, <1>10, <1>11 DEF Search

\* A block known is dropped from the work list.
LEMMA SearchKnows ==
    ASSUME NEW N, NEW R, NEW prd, NEW S, NEW h, NEW bt, NEW lp, NEW lb, NEW sl, NEW wl,
           Search(N, R, prd, S, h, bt, lp, lb, sl, wl),
           NEW b \in Covered(N, R, S, h, bt, lp), NEW wl2, Replaced(wl2, wl, b, {})
    PROVE  Search(N, R, prd, S, h, bt, lp, lb, sl, wl2)
<1> PICK C : C = Covered(N, R, S, h, bt, lp)
    OBVIOUS
<1>1. C \cup wl \subseteq C \cup wl2 /\ wl2 \subseteq wl
    BY DEF Replaced
<1>2. QED
    BY <1>1 DEF Search

\* What happens to other blocks does not matter.
LEMMA NestLocal ==
    ASSUME NEW N, NEW R, NEW S, NEW bt, NEW lp, NEW lb, NEW sl, Nest(N, R, S, bt, lp, lb, sl),
           S \subseteq R, NEW bt2, NEW lp2, NEW lb2, NEW sl2,
           \A b \in R : bt2[b] = bt[b] /\ lp2[b] = lp[b] /\ lb2[b] = lb[b] /\ sl2[b] = sl[b]
    PROVE  Nest(N, R, S, bt2, lp2, lb2, sl2)
<1>1. \A g \in S : lb2[g] = {b \in R : bt2[b] = g}
    BY DEF Nest
<1>2. \A g \in R : sl2[g] = {k \in S : lp2[k] = g}
    BY DEF Nest
<1>3. QED
    BY <1>1, <1>2 DEF Nest

-----------------------------------------------------------------------------
\* Where control goes back to h from, and what the natural loops are in these
\* terms.
Latches(f, h) == {p \in Range(pred[h]) : Over(f, h, p)}

\* The headers are the blocks control goes back to, and a loop holds the header and
\* what gets to a latch without passing it.
LEMMA NaturalFacts ==
    ASSUME Graph, NEW f \in DOMAIN functions
    PROVE  /\ \A h : BackEdgeNodes(Dominance(f), h) = Latches(f, h)
           /\ \A h : h \in LoopHeaders(Dominance(f)) <=> h \in Reached(f) /\ Latches(f, h) # {}
           /\ \A h, b : <<h, b>> \in NaturalOf(f) <=>
                  /\ h \in Reached(f) /\ Latches(f, h) # {}
                  /\ b = h \/ (b \in Reached(f) /\ ReachedWithout(b, h) \cap Latches(f, h) # {})
<1> PICK dom : dom = Dominance(f)
    OBVIOUS
<1>1. \A h : BackEdgeNodes(dom, h) = Latches(f, h)
    BY DominanceFacts DEF BackEdgeNodes, Latches
<1>2. \A h : Latches(f, h) # {} => h \in Reached(f)
    BY DEF Latches, Over
<1>3. Reached(f) \subseteq Blocks
    BY ReachedFacts DEF Graph
<1>4. \A h : h \in LoopHeaders(dom) <=> h \in Reached(f) /\ Latches(f, h) # {}
    BY <1>1, <1>2, <1>3 DEF LoopHeaders
<1> DEFINE Body(h) == {h} \cup {b \in Reached(f) : ReachedWithout(b, h) \cap BackEdgeNodes(dom, h) # {}}
<1>5. NaturalOf(f) = UNION {{h} \X Body(h) : h \in LoopHeaders(dom)}
    BY DEF NaturalOf, NaturalLoops
<1>6. \A h, b : b \in Body(h) <=> b = h \/ (b \in Reached(f) /\ ReachedWithout(b, h) \cap Latches(f, h) # {})
    BY <1>1
<1> HIDE DEF Body
<1>7. \A h, b : <<h, b>> \in NaturalOf(f) <=> h \in LoopHeaders(dom) /\ b \in Body(h)
    BY <1>5
<1>8. QED
    BY <1>1, <1>4, <1>6, <1>7

\* A loop is dominated by its header, and contains what goes to its blocks.
LEMMA NaturalSteps ==
    ASSUME Graph, NEW f \in DOMAIN functions, Closed(f)
    PROVE  /\ \A h, b : <<h, b>> \in NaturalOf(f) => Over(f, h, b)
           /\ \A h : \A q \in Range(pred[h]) : <<h, q>> \in NaturalOf(f) <=> q \in Latches(f, h)
           /\ \A h, b : <<h, b>> \in NaturalOf(f) /\ b # h
                  => \A q \in Range(pred[b]) : <<h, q>> \in NaturalOf(f)
<1> PICK N, R : N = NaturalOf(f) /\ R = Reached(f)
    OBVIOUS
<1>1. /\ FlowGraphTypeOK /\ R \subseteq Blocks /\ R \subseteq BlocksOf(f)
      /\ \A b \in R : \A q \in Range(pred[b]) : q \in R /\ b \in Range(succ[q])
      /\ \A b \in R : Over(f, b, b)
    <2>1. FlowGraphTypeOK /\ EdgesAgree /\ R \subseteq Blocks /\ R \subseteq BlocksOf(f)
        BY ReachedFacts DEF Graph, GraphInv
    <2>2. \A b \in R : \A q \in Range(pred[b]) : q \in R /\ b \in Range(succ[q])
        BY <2>1 DEF EdgesAgree, Functions, Closed
    <2>3. QED
        BY <2>1, <2>2, OverFacts
<1>2. \A h, b : <<h, b>> \in N <=>
                  /\ h \in R /\ Latches(f, h) # {}
                  /\ b = h \/ (b \in R /\ ReachedWithout(b, h) \cap Latches(f, h) # {})
    BY NaturalFacts
<1>3. \A h, p : p \in Latches(f, h) <=> p \in Range(pred[h]) /\ Over(f, h, p)
    BY DEF Latches
<1>4. ASSUME NEW h, NEW b, <<h, b>> \in N
      PROVE  Over(f, h, b)
    <2>1. CASE b = h
        BY <1>1, <1>2, <1>4, <2>1
    <2>2. CASE b # h
        <3>1. b \in R /\ h \in R
            BY <1>2, <1>4, <2>2
        <3>2. PICK p : p \in ReachedWithout(b, h) /\ p \in Latches(f, h)
            BY <1>2, <1>4, <2>2
        <3>3. PICK E : E = ReachedWithout(Entry(f), h)
            OBVIOUS
        <3>4. p \notin E
            BY <1>3, <3>2, <3>3 DEF Over
        <3>5. \A x \in E : Range(succ[x]) \ {h} \subseteq E
            BY <3>3, WithoutReached
        <3>6. b \in E => ReachedWithout(b, h) \subseteq E
            BY <1>1, <3>1, <3>5, ReachFacts
        <3>7. QED
            BY <3>1, <3>2, <3>3, <3>4, <3>6 DEF Over
    <2>3. QED
        BY <2>1, <2>2
<1>5. ASSUME NEW h, NEW q \in Range(pred[h])
      PROVE  <<h, q>> \in N <=> q \in Latches(f, h)
    <2>1. ASSUME q \in Latches(f, h)
          PROVE  <<h, q>> \in N
        <3>1. h \in R /\ q \in R
            BY <1>3, <2>1 DEF Over
        <3>2. q # h => q \in ReachedWithout(q, h)
            BY <1>1, <3>1, ReachFacts
        <3>3. QED
            BY <1>2, <2>1, <3>1, <3>2
    <2>2. QED
        BY <1>3, <1>4, <2>1
<1>6. ASSUME NEW h, NEW b, <<h, b>> \in N, b # h, NEW q \in Range(pred[b])
      PROVE  <<h, q>> \in N
    <2>1. b \in R /\ h \in R /\ q \in R /\ b \in Range(succ[q]) /\ Latches(f, h) # {}
        BY <1>1, <1>2, <1>6
    <2>2. PICK p : p \in ReachedWithout(b, h) /\ p \in Latches(f, h)
        BY <1>2, <1>6
    <2>3. CASE q = h
        BY <1>2, <2>1, <2>3
    <2>4. CASE q # h
        <3>1. PICK Q : Q = ReachedWithout(q, h)
            OBVIOUS
        <3>2. q \in Q /\ \A x \in Q : Range(succ[x]) \ {h} \subseteq Q
            BY <1>1, <2>1, <2>4, <3>1, ReachFacts
        <3>3. b \in Q
            BY <1>6, <2>1, <3>2
        <3>4. ReachedWithout(b, h) \subseteq Q
            BY <1>1, <2>1, <3>2, <3>3, ReachFacts
        <3>5. QED
            BY <1>2, <2>1, <2>2, <3>1, <3>4
    <2>5. QED
        BY <2>3, <2>4
<1>7. QED
    BY <1>4, <1>5, <1>6

\* The natural loops of a function whose blocks are reached only from blocks
\* that are reached.
LEMMA NaturalForest ==
    ASSUME Ordered, NEW f \in Walked, Closed(f)
    PROVE  Forest(NaturalOf(f), Reached(f), pred)
<1> PICK N, R : N = NaturalOf(f) /\ R = Reached(f)
    OBVIOUS
<1>1. Graph /\ f \in DOMAIN functions /\ FlowGraphTypeOK
    BY OrderedFacts, OrderedTypes DEF Ordered
<1>2. /\ R \subseteq Blocks /\ Entry(f) \in R
      /\ \A b \in R : \A q \in Range(pred[b]) : q \in R
      /\ \A b \in R : \A c \in Range(succ[b]) : c \in R /\ b \in Range(pred[c])
      /\ \A S : Entry(f) \in S /\ (\A x \in S \cap R : Range(succ[x]) \subseteq S) => R \subseteq S
    <2>1. EdgesAgree /\ R \subseteq BlocksOf(f) /\ R \subseteq Blocks /\ Entry(f) \in R
        BY <1>1, ReachedFacts DEF Graph, GraphInv
    <2>2. \A b \in R : \A c \in Range(succ[b]) : c \in R /\ b \in Range(pred[c])
        BY <1>1, <2>1, ReachedFacts DEF Graph, EdgesAgree, Functions
    <2>3. QED
        BY <1>1, <2>1, <2>2, ReachedFacts DEF Graph, Closed
<1>3. /\ \A h, b : Over(f, h, b) => h \in R /\ b \in R
      /\ \A h, b : Over(f, h, b) /\ Over(f, b, h) => h = b
      /\ \A h : Over(f, h, Entry(f)) => h = Entry(f)
    <2>1. \A h, b : Over(f, h, b) /\ Over(f, b, h) => h = b
        BY OrderedFacts, OrderedTypes, AheadFacts
    <2>2. QED
        BY <1>1, <2>1, OverFacts
<1>4. /\ \A h, b : <<h, b>> \in N => Over(f, h, b) /\ h \in R /\ b \in R
      /\ \A h : \A q \in Range(pred[h]) : <<h, q>> \in N <=> q \in Latches(f, h)
      /\ \A h, b : <<h, b>> \in N /\ b # h => \A q \in Range(pred[b]) : <<h, q>> \in N
    BY <1>1, <1>3, NaturalSteps
<1>5. \A h, b : <<h, b>> \in N <=>
                  /\ h \in R /\ Latches(f, h) # {}
                  /\ b = h \/ (b \in R /\ ReachedWithout(b, h) \cap Latches(f, h) # {})
    BY <1>1, NaturalFacts
<1>6. NoBlock \notin R /\ N \subseteq R \X R
    <2>1. NoBlock \notin R
        BY <1>2 DEF Blocks, NoBlock
    <2>2. N = UNION {{h} \X ({h} \cup {b \in R : ReachedWithout(b, h) \cap BackEdgeNodes(Dominance(f), h) # {}}) :
                                h \in LoopHeaders(Dominance(f))}
        BY DEF NaturalOf, NaturalLoops
    <2>3. LoopHeaders(Dominance(f)) \subseteq R
        BY <1>1, NaturalFacts
    <2>4. QED
        BY <2>1, <2>2, <2>3
<1>7. \A h, b : <<h, b>> \in N => <<h, h>> \in N
    BY <1>5
<1>8. \A h, b : <<h, b>> \in N /\ <<b, h>> \in N => h = b
    BY <1>3, <1>4
<1>9. ASSUME NEW h, NEW T, \A q \in Range(pred[h]) : <<h, q>> \in N => q \in T,
             \A b \in T : <<h, b>> \in N /\ b # h => Range(pred[b]) \subseteq T,
             NEW b, <<h, b>> \in N
      PROVE  b = h \/ b \in T
    <2> SUFFICES ASSUME b # h, b \notin T
                 PROVE  FALSE
        OBVIOUS
    <2>1. PICK S : S = {x \in R : ~(x \in T /\ <<h, x>> \in N)}
        OBVIOUS
    <2>2. b \in S /\ b \in Blocks
        BY <1>2, <1>4, <1>9, <2>1
    <2>3. ASSUME NEW x \in S, NEW y \in Range(succ[x]) \ {h}
          PROVE  y \in S
        <3>1. x \in R /\ y \in R /\ x \in Range(pred[y])
            BY <1>2, <2>1, <2>3
        <3>2. y \in T /\ <<h, y>> \in N => x \in T /\ <<h, x>> \in N
            BY <1>4, <1>9, <2>3, <3>1
        <3>3. QED
            BY <2>1, <2>3, <3>1, <3>2
    <2>4. ReachedWithout(b, h) \subseteq S
        BY <1>1, <2>2, <2>3, ReachFacts
    <2>5. PICK p : p \in ReachedWithout(b, h) /\ p \in Latches(f, h)
        BY <1>5, <1>9
    <2>6. p \in Range(pred[h]) /\ p \in S
        BY <2>4, <2>5 DEF Latches
    <2>7. QED
        BY <1>4, <1>9, <2>1, <2>5, <2>6
<1>10. ASSUME NEW h, NEW g, NEW b, <<h, g>> \in N, <<g, b>> \in N
       PROVE  <<h, b>> \in N
    <2>1. PICK T : T = {x \in R : <<h, x>> \in N}
        OBVIOUS
    <2>2. \A q \in Range(pred[g]) : <<g, q>> \in N => q \in T
        BY <1>4, <1>10, <2>1
    <2>3. ASSUME NEW x \in T, <<g, x>> \in N, x # g
          PROVE  Range(pred[x]) \subseteq T
        <3>1. x # h
            BY <1>8, <1>10, <2>3
        <3>2. QED
            BY <1>4, <2>1, <2>3, <3>1
    <2>4. b = g \/ b \in T
        BY <1>9, <1>10, <2>2, <2>3
    <2>5. QED
        BY <1>10, <2>1, <2>4
<1>11. ASSUME NEW h, NEW g, NEW b, <<h, b>> \in N, <<g, b>> \in N
       PROVE  <<h, g>> \in N \/ <<g, h>> \in N
    <2> SUFFICES ASSUME <<h, g>> \notin N, <<g, h>> \notin N
                 PROVE  FALSE
        OBVIOUS
    <2>1. PICK S : S = {x \in R : ~(<<h, x>> \in N /\ <<g, x>> \in N)}
        OBVIOUS
    <2>2. Entry(f) \in S
        <3>1. <<h, Entry(f)>> \in N => h = Entry(f)
            BY <1>3, <1>4
        <3>2. QED
            BY <1>2, <2>1, <3>1
    <2>3. ASSUME NEW x \in S, NEW y \in Range(succ[x])
          PROVE  y \in S
        <3>1. x \in R /\ y \in R /\ x \in Range(pred[y])
            BY <1>2, <2>1, <2>3
        <3>2. <<h, y>> \in N /\ <<g, y>> \in N => y # h /\ y # g
            OBVIOUS
        <3>3. <<h, y>> \in N /\ <<g, y>> \in N => <<h, x>> \in N /\ <<g, x>> \in N
            BY <1>4, <3>1, <3>2
        <3>4. QED
            BY <2>1, <2>3, <3>1, <3>3
    <2>4. R \subseteq S
        BY <1>2, <2>2, <2>3
    <2>5. QED
        BY <1>4, <1>11, <2>1, <2>4
<1>12. QED
    BY <1>4, <1>6, <1>7, <1>8, <1>9, <1>10, <1>11 DEF Forest

-----------------------------------------------------------------------------
\* The headers the walk over the blocks has come to.
Found(f) ==
    IF stage = "done" /\ f = current THEN LoopHeaders(Dominance(f)) \ Range(toVisit)
    ELSE IF f \in 1 .. current - 1 THEN LoopHeaders(Dominance(f)) ELSE {}

\* A dominator of a block to be visited is visited later.
VisitsRise ==
    /\ IsInjective(toVisit) /\ Range(toVisit) \subseteq Reached(current)
    /\ \A i \in DOMAIN toVisit : \A d : Over(current, d, toVisit[i]) =>
           \E j \in i .. Len(toVisit) : toVisit[j] = d

\* A loop is created after the loops in it.
ParentsLater ==
    \A i \in DOMAIN loops : loopParent[loops[i]] # NoBlock =>
        \E j \in i + 1 .. Len(loops) : loops[j] = loopParent[loops[i]]

\* The loops of f, found or being found.
NestNow(f) ==
    IF f = current /\ workList # <<>>
    THEN Search(NaturalOf(f), Reached(f), pred, Found(f) \ {header}, header,
                bbToLoop, loopParent, loopBlocks, subLoops, Range(workList))
    ELSE Nest(NaturalOf(f), Reached(f), Found(f), bbToLoop, loopParent, loopBlocks, subLoops)

NestInv ==
    /\ toVisit # <<>> \/ workList # <<>> => stage = "done" /\ current \in DOMAIN functions
    /\ toVisit # <<>> => VisitsRise
    /\ IsInjective(loops) /\ \A f \in DOMAIN functions : Range(loops) \cap BlocksOf(f) = Found(f)
    /\ ParentsLater
    /\ workList # <<>> => header \in Found(current) /\ loops # <<>> /\ header = loops[Len(loops)]
    /\ \A f \in DOMAIN functions : NestNow(f)

\* Going from a loop to the loops around it: what these steps keep holds of the
\* outermost one, which is in no other loop.
LEMMA RootFacts ==
    ASSUME LoopsTypeOK, ParentsLater, NEW G \in SUBSET Range(loops),
           \A x \in G : loopParent[x] # NoBlock => loopParent[x] \in G, NEW k \in G
    PROVE  RootLoop(k) \in G /\ loopParent[RootLoop(k)] = NoBlock
<1> DEFINE n == Len(loops)
<1>1. n \in Nat /\ DOMAIN loops = 1 .. n /\ \A i \in 1 .. n : loops[i] \in Blocks
    BY DEF LoopsTypeOK
<1>2. k \in Blocks
    BY <1>1 DEF Range
<1>3. PICK known \in [0 .. n -> Blocks] :
          /\ RootLoop(k) = known[n] /\ known[0] = k
          /\ \A m \in 1 .. n : known[m] = IF loopParent[known[m - 1]] = NoBlock THEN known[m - 1]
                                          ELSE loopParent[known[m - 1]]
    BY <1>2, RootSteps
<1> DEFINE T == {m \in 0 .. n : /\ known[m] \in G
                                /\ loopParent[known[m]] = NoBlock \/ \E j \in m + 1 .. n : loops[j] = known[m]}
<1> HIDE DEF n
<1>4. 0 \in T
    <2>1. k \in Range(loops)
        OBVIOUS
    <2>2. \E j \in 1 .. n : loops[j] = k
        BY <1>1, <2>1 DEF Range
    <2>3. QED
        BY <1>1, <1>3, <2>2
<1>5. ASSUME NEW m \in T, m < n
      PROVE  m + 1 \in T
    <2>1. m \in 0 .. n /\ m + 1 \in 1 .. n /\ (m + 1) - 1 = m
        BY <1>1, <1>5
    <2>2. PICK x : x = known[m]
        OBVIOUS
    <2>3. x \in G /\ (loopParent[x] = NoBlock \/ \E j \in m + 1 .. n : loops[j] = x)
        BY <1>5, <2>2
    <2>4. known[m + 1] = IF loopParent[x] = NoBlock THEN x ELSE loopParent[x]
        BY <1>3, <2>1, <2>2
    <2>5. CASE loopParent[x] = NoBlock
        BY <2>1, <2>3, <2>4, <2>5
    <2>6. CASE loopParent[x] # NoBlock
        <3>1. PICK j \in m + 1 .. n : loops[j] = x
            BY <2>3, <2>6
        <3>2. j \in 1 .. n
            BY <1>1, <2>1, <3>1
        <3>3. PICK i \in j + 1 .. n : loops[i] = loopParent[x]
            BY <1>1, <2>6, <3>1, <3>2 DEF ParentsLater, n
        <3>4. i \in (m + 1) + 1 .. n
            BY <1>1, <2>1, <3>1, <3>3
        <3>5. known[m + 1] = loopParent[x] /\ loopParent[x] \in G
            BY <2>3, <2>4, <2>6
        <3>6. QED
            BY <2>1, <3>3, <3>4, <3>5
    <2>7. QED
        BY <2>5, <2>6
<1>6. n \in T
    <2>1. T \in SUBSET (0 .. n)
        OBVIOUS
    <2> HIDE DEF T
    <2>2. \A m \in 0 .. n : m \in T
        BY <1>1, <1>4, <1>5, <2>1, IntervalAll
    <2>3. QED
        BY <1>1, <2>2
<1>7. n + 1 .. n = {}
    BY <1>1
<1>8. QED
    BY <1>3, <1>6, <1>7

\* The back edges of a block, in any order.
LEMMA SeqsFacts ==
    ASSUME NEW S, IsFiniteSet(S), NEW order \in SetToSeqs(S)
    PROVE  Range(order) = S
<1>1. PICK n : n = Cardinality(S)
    OBVIOUS
<1>2. n \in Nat
    BY <1>1, FS_CardinalityType
<1>3. IsFiniteSet(1 .. n) /\ Cardinality(1 .. n) = n
    BY <1>2, FS_Interval
<1>4. order \in [1 .. n -> S] /\ \A i, j \in 1 .. n : i # j => order[i] # order[j]
    BY <1>1 DEF SetToSeqs
<1>5. order \in Injection(1 .. n, S)
    BY <1>4 DEF Injection, IsInjective
<1>6. order \in Surjection(1 .. n, S)
    BY <1>1, <1>3, <1>5, FS_Injection
<1>7. QED
    BY <1>4, <1>6 DEF Surjection, Range

-----------------------------------------------------------------------------
\* The dfs over the tree comes to a block after its dominators.
Downwards(f) ==
    /\ Range(dfsOrder) = visited /\ IsInjective(dfsOrder)
    /\ \A i \in DOMAIN dfsOrder : \A d : Over(f, d, dfsOrder[i]) =>
           \E j \in 1 .. i : dfsOrder[j] = d

TreeOrder ==
    /\ stage = "tree" => Downwards(current)
    /\ stage \notin {"tree", "done"} => dfsOrder = <<>>

\* A block is entered after its dominators.
LEMMA DownwardsGrows ==
    ASSUME UNCHANGED graphVars, dfsOrder \in Seq(Blocks), NEW f, NEW b \in Blocks \ visited,
           Downwards(f), visited' = visited \cup {b}, dfsOrder' = Append(dfsOrder, b),
           \A d : Over(f, d, b) => d = b \/ d \in visited
    PROVE  Downwards(f)'
<1> PICK n : n = Len(dfsOrder)
    OBVIOUS
<1>1. /\ n \in Nat /\ DOMAIN dfsOrder = 1 .. n /\ DOMAIN dfsOrder' = 1 .. n + 1
      /\ dfsOrder'[n + 1] = b /\ \A i \in 1 .. n : dfsOrder'[i] = dfsOrder[i]
    OBVIOUS
<1>2. Range(dfsOrder') = visited' /\ IsInjective(dfsOrder')
    BY StackFacts DEF Downwards
<1>3. ASSUME NEW i \in 1 .. n + 1, NEW d, Over(f, d, dfsOrder'[i])
      PROVE  \E j \in 1 .. i : dfsOrder'[j] = d
    <2>1. CASE i \in 1 .. n
        <3>1. PICK j \in 1 .. i : dfsOrder[j] = d
            BY <1>1, <1>3, <2>1 DEF Downwards
        <3>2. j \in 1 .. n
            BY <1>1, <2>1, <3>1
        <3>3. QED
            BY <1>1, <3>1, <3>2
    <2>2. CASE i = n + 1
        <3>1. d = b \/ d \in visited
            BY <1>1, <1>3, <2>2
        <3>2. CASE d = b
            BY <1>1, <2>2, <3>2
        <3>3. CASE d \in visited
            <4>1. PICK j \in 1 .. n : dfsOrder[j] = d
                BY <1>1, <3>3 DEF Downwards, Range
            <4>2. j \in 1 .. i /\ dfsOrder'[j] = d
                BY <1>1, <2>2, <4>1
            <4>3. QED
                BY <4>2
        <3>4. QED
            BY <3>1, <3>2, <3>3
    <2>3. QED
        BY <1>1, <2>1, <2>2
<1>4. ASSUME NEW i \in DOMAIN dfsOrder', NEW d, Over(f, d, dfsOrder[i])'
      PROVE  \E j \in 1 .. i : dfsOrder'[j] = d
    <2>1. PICK x : x = dfsOrder'[i]
        OBVIOUS
    <2>2. Over(f, d, x)'
        BY <1>4, <2>1 DEF Over
    <2>3. Over(f, d, x)
        BY <2>2, OverStill
    <2>4. QED
        BY <1>1, <1>3, <2>1, <2>3
<1>5. QED
    BY <1>2, <1>4 DEF Downwards

\* The order stays when it is not touched.
LEMMA DownwardsStill ==
    ASSUME UNCHANGED graphVars, UNCHANGED <<dfsOrder, visited>>, NEW f, Downwards(f)
    PROVE  Downwards(f)'
<1>1. ASSUME NEW i \in DOMAIN dfsOrder', NEW d, Over(f, d, dfsOrder[i])'
      PROVE  \E j \in 1 .. i : dfsOrder'[j] = d
    <2>1. PICK x : x = dfsOrder'[i]
        OBVIOUS
    <2>2. Over(f, d, x)'
        BY <1>1, <2>1 DEF Over
    <2>3. Over(f, d, x)
        BY <2>2, OverStill
    <2>4. QED
        BY <1>1, <2>1, <2>3 DEF Downwards
<1>2. QED
    BY <1>1 DEF Downwards

Orders == pass = "loops" => TreeOrder

\* The order of the dfs over the tree, in every step.
LEMMA OrdersStep ==
    ASSUME ProgramInv, AnalysisInv, EntryInv, Numbering, Sweeps, Fronts, Trees, Orders, [Next]_vars
    PROVE  Orders'
<1> SUFFICES ASSUME pass' = "loops"
             PROVE  TreeOrder'
    BY DEF Orders
<1>1. CASE StartLoopDetection
    BY <1>1 DEF StartLoopDetection, NewDominators, TreeOrder
<1>2. CASE pass = "loops" /\ UNCHANGED graphVars
    <2>1. Ordered /\ SweepInv /\ FrontInv /\ TreeInv /\ TreeOrder
        BY <1>2, OrderedNow DEF Sweeps, Fronts, Trees, Orders
    <2> PICK f : f = current
        OBVIOUS
    <2>2. CASE NextFunction
        BY <2>2 DEF NextFunction, RunOnFunc, TreeOrder
    <2>3. CASE DfsEnter \/ DfsReturn \/ StartIdom \/ IdomOfBlock \/ SweepAgain \/ StartFrontier \/ FrontierOfBlock
        BY <2>1, <2>3 DEF DfsEnter, DfsReturn, StartIdom, IdomOfBlock, SweepAgain, StartFrontier,
                          FrontierOfBlock, TreeOrder, domMaps
    <2>4. CASE CreateTree
        <3>1. /\ dfsOrder = <<>> /\ stage' = "tree" /\ current' = f /\ stage = "frontier"
              /\ visited' = {Entry(f)} /\ dfsOrder' = Append(dfsOrder, Entry(f))
            BY <2>1, <2>4 DEF CreateTree, TreeOrder
        <3>2. dfsOrder' = <<Entry(f)>> /\ f \in DOMAIN functions /\ Graph
            BY <2>1, <3>1, OrderedTypes DEF Ordered
        <3>3. Range(dfsOrder') = visited' /\ IsInjective(dfsOrder') /\ DOMAIN dfsOrder' = {1} /\ dfsOrder'[1] = Entry(f)
            BY <3>1, <3>2 DEF Range, IsInjective
        <3>4. \A d : Over(f, d, Entry(f)) => d = Entry(f)
            BY <3>2, OverFacts
        <3>5. ASSUME NEW i \in DOMAIN dfsOrder', NEW d, Over(f, d, dfsOrder[i])'
              PROVE  \E j \in 1 .. i : dfsOrder'[j] = d
            <4>1. PICK x : x = Entry(f)
                OBVIOUS
            <4>2. i = 1 /\ dfsOrder'[i] = x
                BY <3>3, <3>5, <4>1
            <4>3. Over(f, d, x)'
                BY <3>5, <4>2 DEF Over
            <4>4. Over(f, d, x)
                BY <1>2, <4>3, OverStill
            <4>5. QED
                BY <3>4, <4>1, <4>2, <4>4
        <3>6. Downwards(f)'
            BY <3>3, <3>5 DEF Downwards
        <3>7. QED
            BY <3>1, <3>6 DEF TreeOrder
    <2>5. CASE TreeEnter
        <3>1. PICK b \in treeSucc[Last(visits)] \ visited :
                  /\ stage = "tree" /\ stage' = "tree" /\ visits # <<>> /\ current' = f
                  /\ visited' = visited \cup {b} /\ dfsOrder' = Append(dfsOrder, b)
            BY <2>5 DEF TreeEnter
        <3> PICK l : l = Last(visits)
            OBVIOUS
        <3>2. /\ IdomInv /\ f \in DOMAIN functions /\ f \in Walked /\ ExactIdom(f)
              /\ TreeWalk(f) /\ Reached(f) \subseteq Blocks /\ l \in Range(visits)
            BY <2>1, <3>1, TreeNow
        <3>3. /\ l \in Blocks /\ l \in Reached(f) /\ b \in Kids(f, l)
              /\ \A d : Over(f, d, l) => d \in visited
            <4>1. /\ visited \subseteq Reached(f) /\ Range(visits) \subseteq visited
                  /\ \A d : d \in Range(visits) <=> Over(f, d, l)
                  /\ \A x \in Reached(f) : treeSucc[x] = Kids(f, x)
                BY <3>1, <3>2 DEF TreeWalk
            <4>2. QED
                BY <3>1, <3>2, <4>1
        <3>4. b \in Reached(f) \ {Entry(f)} /\ idom[b] = l
            BY <2>1, <3>2, <3>3, TreeFacts
        <3>5. \A d : Over(f, d, b) => d = b \/ d \in visited
            <4>1. \A d : Over(f, d, b) <=> d = b \/ Over(f, d, idom[b])
                BY <2>1, <3>2, <3>4, TreeFacts
            <4>2. QED
                BY <3>3, <3>4, <4>1
        <3>6. b \in Blocks \ visited /\ dfsOrder \in Seq(Blocks) /\ Downwards(f)
            BY <2>1, <3>1, <3>2, <3>4, WalkTypes DEF TreeOrder
        <3>7. Downwards(f)'
            BY <1>2, <3>1, <3>5, <3>6, DownwardsGrows
        <3>8. QED
            BY <3>1, <3>7 DEF TreeOrder
    <2>6. CASE TreeReturn
        <3>1. /\ stage = "tree" /\ stage' = "tree" /\ current' = f
              /\ UNCHANGED <<dfsOrder, visited>>
            BY <2>6 DEF TreeReturn
        <3>2. Downwards(f)'
            BY <1>2, <2>1, <3>1, DownwardsStill DEF TreeOrder
        <3>3. QED
            BY <3>1, <3>2 DEF TreeOrder
    <2>7. CASE FinishFunc
        BY <2>7 DEF FinishFunc, TreeOrder
    <2>8. CASE UNCHANGED dvars
        <3>1. UNCHANGED <<current, stage, dfsOrder, visited>>
            BY <2>8 DEF dvars, domMaps, domLocals
        <3>2. Downwards(f) => Downwards(f)'
            BY <1>2, <3>1, DownwardsStill
        <3>3. QED
            BY <2>1, <3>1, <3>2 DEF TreeOrder
    <2>9. QED
        BY <1>1, <2>2, <2>3, <2>4, <2>5, <2>6, <2>7, <2>8, AnalysisCases DEF DominatorsStep
<1>3. QED
    BY <1>1, <1>2, AnalysisCases

-----------------------------------------------------------------------------
LEMMA NaturalStill ==
    ASSUME UNCHANGED graphVars
    PROVE  \A f : /\ NaturalOf(f)' = NaturalOf(f)
                  /\ LoopHeaders(Dominance(f))' = LoopHeaders(Dominance(f))
<1>1. functions' = functions /\ succ' = succ /\ pred' = pred
    BY DEF graphVars
<1>2. \A f : Dominance(f)' = Dominance(f)
    BY <1>1 DEF Dominance, Reached, ReachedWithout, Onwards, Entry
<1>3. \A f : LoopHeaders(Dominance(f))' = LoopHeaders(Dominance(f))
    BY <1>1, <1>2 DEF LoopHeaders, BackEdgeNodes, Blocks
<1>4. ASSUME NEW f
      PROVE  NaturalOf(f)' = NaturalOf(f)
    <2>1. PICK dom, H : /\ dom = Dominance(f) /\ H = LoopHeaders(dom)
                        /\ dom = Dominance(f)' /\ H = LoopHeaders(dom)'
        <3>1. PICK dom : dom = Dominance(f) /\ dom = Dominance(f)'
            BY <1>2
        <3>2. LoopHeaders(dom)' = LoopHeaders(dom)
            BY <1>1 DEF LoopHeaders, BackEdgeNodes, Blocks
        <3>3. QED
            BY <3>1, <3>2
    <2>2. \A h : BackEdgeNodes(dom, h)' = BackEdgeNodes(dom, h)
        BY <1>1 DEF BackEdgeNodes
    <2>3. Reached(f)' = Reached(f) /\ \A b, h : ReachedWithout(b, h)' = ReachedWithout(b, h)
        BY GraphStill
    <2>4. \A h : {b \in Reached(f)' : ReachedWithout(b, h)' \cap BackEdgeNodes(dom, h)' # {}}
                 = {b \in Reached(f) : ReachedWithout(b, h) \cap BackEdgeNodes(dom, h) # {}}
        BY <2>2, <2>3
    <2>5. NaturalLoops(f, dom)' = NaturalLoops(f, dom)
        BY <2>1, <2>4 DEF NaturalLoops
    <2>6. QED
        BY <2>1, <2>5 DEF NaturalOf
<1>5. QED
    BY <1>3, <1>4

\* Steps that leave the loops found and the walk over the blocks alone.
LEMMA NestStill ==
    ASSUME UNCHANGED graphVars, UNCHANGED lvars, NestInv,
           \A f \in DOMAIN functions : Found(f)' = Found(f),
           toVisit # <<>> \/ workList # <<>> => stage' = stage /\ current' = current
    PROVE  NestInv'
<1>1. /\ functions' = functions /\ pred' = pred
      /\ UNCHANGED <<loops, loopBlocks, subLoops, loopParent, bbToLoop, toVisit, header, workList>>
    BY DEF graphVars, lvars, loopMaps
<1>2. \A f : BlocksOf(f)' = BlocksOf(f) /\ Reached(f)' = Reached(f) /\ NaturalOf(f)' = NaturalOf(f)
    BY GraphStill, NaturalStill
<1>3. ASSUME toVisit # <<>>
      PROVE  VisitsRise'
    <2> PICK f : f = current
        OBVIOUS
    <2>1. VisitsRise /\ current' = f
        BY <1>3 DEF NestInv
    <2>2. IsInjective(toVisit') /\ Range(toVisit') \subseteq Reached(f)'
        BY <1>1, <1>2, <2>1 DEF VisitsRise
    <2>3. ASSUME NEW i \in DOMAIN toVisit', NEW d, Over(f, d, toVisit[i])'
          PROVE  \E j \in i .. Len(toVisit') : toVisit'[j] = d
        <3>1. PICK x : x = toVisit'[i]
            OBVIOUS
        <3>2. Over(f, d, x)'
            BY <2>3, <3>1 DEF Over
        <3>3. Over(f, d, x)
            BY <3>2, OverStill
        <3>4. QED
            BY <1>1, <2>1, <3>1, <3>3 DEF VisitsRise
    <2>4. QED
        BY <2>1, <2>2, <2>3 DEF VisitsRise
<1>4. ASSUME NEW f \in DOMAIN functions
      PROVE  NestNow(f)'
    <2>1. PICK N, R, S : /\ N = NaturalOf(f) /\ R = Reached(f) /\ S = Found(f)
                         /\ N = NaturalOf(f)' /\ R = Reached(f)' /\ S = Found(f)'
        BY <1>2
    <2>2. workList # <<>> => current' = current
        OBVIOUS
    <2>3. NestNow(f)
        BY DEF NestInv
    <2>4. QED
        BY <1>1, <2>1, <2>2, <2>3 DEF NestNow
<1>5. \A f \in DOMAIN functions : Range(loops') \cap BlocksOf(f)' = Found(f)'
    BY <1>1, <1>2 DEF NestInv
<1>6. workList' # <<>> => header' \in Found(current)' /\ loops' # <<>> /\ header' = loops'[Len(loops')]
    <2> PICK f : f = current
        OBVIOUS
    <2>1. workList # <<>> => current' = f /\ f \in DOMAIN functions /\ header \in Found(f)
        BY DEF NestInv
    <2>2. workList # <<>> => header \in Found(f)'
        BY <2>1
    <2>3. workList # <<>> => header \in Found(current)'
        BY <2>1, <2>2 DEF Found
    <2>4. QED
        BY <1>1, <2>3 DEF NestInv
<1>7. ParentsLater' /\ IsInjective(loops')
    BY <1>1 DEF NestInv, ParentsLater
<1>8. QED
    BY <1>1, <1>3, <1>4, <1>5, <1>6, <1>7 DEF NestInv

\* What is known when the loops of a function are detected.
LEMMA DetectFacts ==
    ASSUME Ordered, FrontInv, TreeInv, CausedInv, NEW f \in DOMAIN functions, stage = "done", f = current
    PROVE  /\ f \in Walked /\ Closed(f) /\ Graph /\ FlowGraphTypeOK
           /\ Forest(NaturalOf(f), Reached(f), pred)
           /\ Reached(f) \subseteq BlocksOf(f) /\ Reached(f) \subseteq Blocks
           /\ \A b \in Reached(f) : BackEdges(b) = Latches(f, b)
           /\ \A h : h \in LoopHeaders(Dominance(f)) <=> h \in Reached(f) /\ Latches(f, h) # {}
           /\ \A h : h \in LoopHeaders(Dominance(f)) <=> <<h, h>> \in NaturalOf(f)
           /\ \A h, b : <<h, b>> \in NaturalOf(f) => Over(f, h, b)
           /\ \A h : \A q \in Range(pred[h]) : <<h, q>> \in NaturalOf(f) <=> q \in Latches(f, h)
<1>1. f \in 1 .. current
    BY OrderedTypes
<1>2. f \in Walked /\ f \in Mapped /\ f \in Measured
    BY <1>1 DEF Walked, Mapped, Measured
<1>3. ~thrown
    BY DEF FrontInv
<1>4. Closed(f) /\ Graph /\ FlowGraphTypeOK
    BY <1>2, <1>3, OrderedTypes DEF CausedInv, Ordered
<1>5. Reached(f) \subseteq BlocksOf(f) /\ Reached(f) \subseteq Blocks
    BY <1>4, ReachedFacts DEF Graph
<1>6. \A b \in Reached(f) : BackEdges(b) = Latches(f, b)
    <2>1. \A x, y \in Reached(f) : IsDominate(x, y) <=> Over(f, x, y)
        BY <1>2 DEF TreeInv
    <2>2. QED
        BY <1>4, <2>1 DEF BackEdges, Latches, Closed
<1>7. \A h : h \in LoopHeaders(Dominance(f)) <=> h \in Reached(f) /\ Latches(f, h) # {}
    BY <1>4, NaturalFacts
<1>8. \A h : h \in LoopHeaders(Dominance(f)) <=> <<h, h>> \in NaturalOf(f)
    BY <1>4, NaturalFacts
<1>9. QED
    BY <1>2, <1>4, <1>5, <1>6, <1>7, <1>8, NaturalForest, NaturalSteps

\* The steps while the loops are detected.
LEMMA LoopCases ==
    ASSUME [Next]_vars, pass' = "loops"
    PROVE  \/ StartLoopDetection
           \/ /\ pass = "loops" /\ UNCHANGED graphVars
              /\ \/ NextFunction \/ StartLoops
                 \/ DominatorsStep /\ UNCHANGED lvars
                 \/ LoopStep /\ UNCHANGED dvars
                 \/ UNCHANGED dvars /\ UNCHANGED lvars
<1>1. CASE Build \/ StartDeadCode \/ ClearBasicBlocks \/ ClearAgain
    BY <1>1 DEF Build, StartDeadCode, ClearBasicBlocks, ClearAgain
<1>2. CASE NextFunction
    BY <1>2 DEF NextFunction, bvars, graphVars
<1>3. CASE Analyse
    BY <1>3 DEF Analyse, bvars, graphVars
<1>4. CASE UNCHANGED vars
    BY <1>4 DEF vars, bvars, graphVars
<1>5. QED
    BY <1>1, <1>2, <1>3, <1>4 DEF Next, Passes, Rest

\* No loop is found when the pass starts.
LEMMA NestStarts ==
    ASSUME GraphInv, StartLoopDetection
    PROVE  NestInv'
<1>1. /\ UNCHANGED graphVars /\ functions' = functions /\ pred' = pred /\ current' = 0 /\ stage' = "done"
      /\ loops' = <<>> /\ toVisit' = <<>> /\ workList' = <<>>
      /\ loopBlocks' = [b \in Blocks |-> {}] /\ subLoops' = [b \in Blocks |-> {}]
      /\ loopParent' = [b \in Blocks |-> NoBlock] /\ bbToLoop' = [b \in Blocks |-> NoBlock]
    BY DEF StartLoopDetection, NewDominators, NewLoopDetection, bvars, graphVars
<1>2. Range(loops') = {} /\ IsInjective(loops')
    BY <1>1 DEF Range, IsInjective
<1>3. ASSUME NEW f \in DOMAIN functions
      PROVE  Found(f)' = {}
    <2>1. f \in Nat \ {0}
        BY DEF GraphInv, FlowGraphTypeOK
    <2>2. QED
        BY <1>1, <2>1 DEF Found
<1>4. ASSUME NEW f \in DOMAIN functions
      PROVE  NestNow(f)'
    <2> PICK N, R : N = NaturalOf(f)' /\ R = Reached(f)'
        OBVIOUS
    <2>1. R \subseteq Blocks
        BY <1>1, GraphStill, ReachedFacts
    <2>2. Nest(N, R, {}, bbToLoop', loopParent', loopBlocks', subLoops')
        BY <1>1, <2>1 DEF Nest, Inner
    <2>3. QED
        BY <1>1, <1>3, <2>2 DEF NestNow
<1>5. ParentsLater'
    BY <1>1 DEF ParentsLater
<1>6. QED
    BY <1>1, <1>2, <1>3, <1>4, <1>5 DEF NestInv

\* What Reverse returns.
LEMMA ReverseFacts ==
    ASSUME NEW S, NEW s \in Seq(S)
    PROVE  /\ Reverse(s) \in Seq(S) /\ Len(Reverse(s)) = Len(s) /\ Range(Reverse(s)) = Range(s)
           /\ \A i \in 1 .. Len(s) : Reverse(s)[i] = s[Len(s) - i + 1]
           /\ IsInjective(s) => IsInjective(Reverse(s))
<1> PICK n : n = Len(s)
    OBVIOUS
<1> PICK r : r = Reverse(s)
    OBVIOUS
<1>1. n \in Nat /\ \A i \in 1 .. n : n - i + 1 \in 1 .. n
    OBVIOUS
<1>2. r = [i \in 1 .. n |-> s[n - i + 1]]
    BY <1>1 DEF Reverse
<1>3. r \in [1 .. n -> S]
    BY <1>1, <1>2
<1>4. r \in Seq(S) /\ Len(r) = n
    BY <1>1, <1>3, FunctionIsSeq
<1>5. \A x : x \in Range(s) <=> \E i \in 1 .. n : s[i] = x
    BY DEF Range
<1>6. \A x : x \in Range(r) <=> \E i \in 1 .. n : s[n - i + 1] = x
    BY <1>2 DEF Range
<1>7. \A i \in 1 .. n : n - (n - i + 1) + 1 = i
    BY <1>1
<1>8. Range(r) = Range(s)
    <2>1. ASSUME NEW x \in Range(s)
          PROVE  x \in Range(r)
        <3>1. PICK i \in 1 .. n : s[i] = x
            BY <1>5
        <3>2. s[n - (n - i + 1) + 1] = x
            BY <1>7, <3>1
        <3>3. QED
            BY <1>1, <1>6, <3>2
    <2>2. QED
        BY <1>1, <1>5, <1>6, <2>1
<1>9. ASSUME IsInjective(s)
      PROVE  IsInjective(r)
    <2>1. \A i, j \in 1 .. n : s[i] = s[j] => i = j
        BY <1>9 DEF IsInjective
    <2>2. ASSUME NEW i \in 1 .. n, NEW j \in 1 .. n, r[i] = r[j]
          PROVE  i = j
        <3>1. n - i + 1 = n - j + 1
            BY <1>1, <1>2, <2>1, <2>2
        <3>2. QED
            BY <1>1, <3>1
    <2>3. QED
        BY <1>2, <2>2 DEF IsInjective
<1>10. QED
    BY <1>2, <1>4, <1>8, <1>9

\* The walk over the blocks starts.
LEMMA VisitsBegin ==
    ASSUME Ordered, SweepInv, FrontInv, TreeInv, TreeOrder, UNCHANGED graphVars, NestInv, NestTypeOK, StartLoops
    PROVE  NestInv'
<1> PICK f : f = current
    OBVIOUS
<1> PICK n : n = Len(dfsOrder)
    OBVIOUS
<1>1. /\ stage = "tree" /\ stage' = "done" /\ visits = <<>> /\ current' = f /\ toVisit' = Reverse(dfsOrder)
      /\ functions' = functions /\ pred' = pred
      /\ UNCHANGED <<loops, loopBlocks, subLoops, loopParent, bbToLoop, header, workList>>
    BY DEF StartLoops, FinishFunc, VisitOrder, loopMaps, graphVars
<1>2. /\ f \in DOMAIN functions /\ visited = Reached(f) /\ Graph /\ dfsOrder \in Seq(Blocks) /\ n \in Nat
      /\ Downwards(f) /\ toVisit = <<>> /\ workList = <<>>
      /\ DOMAIN functions = 1 .. Len(functions) /\ Len(functions) \in Nat
    BY <1>1, OrderedTypes, TreeComplete, WalkTypes DEF Ordered, TreeOrder, NestInv
<1>3. /\ Len(toVisit') = n /\ Range(toVisit') = Reached(f) /\ IsInjective(toVisit') /\ DOMAIN toVisit' = 1 .. n
      /\ \A i \in 1 .. n : toVisit'[i] = dfsOrder[n - i + 1]
    BY <1>1, <1>2, ReverseFacts DEF Downwards
<1>4. \A g : BlocksOf(g)' = BlocksOf(g) /\ Reached(g)' = Reached(g) /\ NaturalOf(g)' = NaturalOf(g)
             /\ LoopHeaders(Dominance(g))' = LoopHeaders(Dominance(g))
    BY GraphStill, NaturalStill
<1>5. VisitsRise'
    <2>1. ASSUME NEW i \in 1 .. n, NEW d, Over(f, d, toVisit[i])'
          PROVE  \E j \in i .. n : toVisit'[j] = d
        <3>1. PICK x : x = toVisit'[i]
            OBVIOUS
        <3>2. Over(f, d, x)'
            BY <2>1, <3>1 DEF Over
        <3>3. Over(f, d, x)
            BY <3>2, OverStill
        <3>4. n - i + 1 \in 1 .. n /\ x = dfsOrder[n - i + 1]
            BY <1>2, <1>3, <3>1
        <3>5. PICK j \in 1 .. n - i + 1 : dfsOrder[j] = d
            BY <1>2, <3>3, <3>4 DEF Downwards
        <3>6. n - j + 1 \in i .. n /\ n - j + 1 \in 1 .. n /\ n - (n - j + 1) + 1 = j
            BY <1>2, <3>5
        <3>7. toVisit'[n - j + 1] = d
            BY <1>3, <3>5, <3>6
        <3>8. QED
            BY <3>6, <3>7
    <2>2. QED
        BY <1>1, <1>3, <1>4, <2>1 DEF VisitsRise
<1>6. ASSUME NEW g \in DOMAIN functions
      PROVE  Found(g)' = Found(g)
    <2>1. CASE g = f
        <3>1. LoopHeaders(Dominance(f)) \subseteq Reached(f)
            BY <1>2, NaturalFacts
        <3>2. Found(f)' = {}
            BY <1>1, <1>3, <1>4, <3>1 DEF Found
        <3>3. Found(f) = {}
            BY <1>1, <1>2 DEF Found
        <3>4. QED
            BY <2>1, <3>2, <3>3
    <2>2. CASE g # f
        BY <1>1, <1>4, <2>2 DEF Found
    <2>3. QED
        BY <2>1, <2>2
<1>7. ASSUME NEW g \in DOMAIN functions
      PROVE  NestNow(g)'
    <2>1. PICK N, R, S : /\ N = NaturalOf(g) /\ R = Reached(g) /\ S = Found(g)
                         /\ N = NaturalOf(g)' /\ R = Reached(g)' /\ S = Found(g)'
        BY <1>4, <1>6
    <2>2. NestNow(g)
        BY DEF NestInv
    <2>3. QED
        BY <1>1, <1>2, <2>1, <2>2 DEF NestNow
<1>8. \A g \in DOMAIN functions : Range(loops') \cap BlocksOf(g)' = Found(g)'
    BY <1>1, <1>4, <1>6 DEF NestInv
<1>9. ParentsLater' /\ IsInjective(loops')
    BY <1>1 DEF NestInv, ParentsLater
<1>10. QED
    BY <1>1, <1>2, <1>5, <1>7, <1>8, <1>9 DEF NestInv

\* The walk goes on.
LEMMA VisitsGoOn ==
    ASSUME UNCHANGED graphVars, toVisit \in Seq(Blocks), toVisit # <<>>, VisitsRise,
           toVisit' = Tail(toVisit), current' = current
    PROVE  /\ Range(toVisit') = Range(toVisit) \ {Head(toVisit)} /\ VisitsRise'
           /\ Head(toVisit) \in Range(toVisit) /\ Head(toVisit) \in Reached(current)
           /\ \A d : Over(current, d, Head(toVisit)) => d \in Range(toVisit)
<1> PICK f, h : f = current /\ h = Head(toVisit)
    OBVIOUS
<1> PICK n : n = Len(toVisit)
    OBVIOUS
<1>1. /\ n \in Nat \ {0} /\ DOMAIN toVisit = 1 .. n /\ DOMAIN toVisit' = 1 .. n - 1 /\ Len(toVisit') = n - 1
      /\ h = toVisit[1] /\ \A i \in 1 .. n - 1 : toVisit'[i] = toVisit[i + 1]
    OBVIOUS
<1>2. /\ \A i, j \in 1 .. n : toVisit[i] = toVisit[j] => i = j
      /\ Range(toVisit) \subseteq Reached(f)
      /\ \A i \in 1 .. n : \A d : Over(f, d, toVisit[i]) => \E j \in i .. n : toVisit[j] = d
    BY <1>1 DEF VisitsRise, IsInjective
<1>3. h \in Range(toVisit) /\ h \in Reached(f)
    BY <1>1, <1>2 DEF Range
<1>4. ASSUME NEW d, Over(f, d, h)
      PROVE  d \in Range(toVisit)
    BY <1>1, <1>2, <1>4 DEF Range
<1>5. \A i \in 1 .. n - 1 : i + 1 \in 1 .. n /\ i + 1 # 1
    BY <1>1
<1>6. \A i \in 1 .. n : i = 1 \/ (i - 1 \in 1 .. n - 1 /\ (i - 1) + 1 = i)
    BY <1>1
<1>7. Range(toVisit') = Range(toVisit) \ {h}
    <2>1. ASSUME NEW i \in 1 .. n - 1
          PROVE  toVisit'[i] \in Range(toVisit) \ {h}
        BY <1>1, <1>2, <1>5 DEF Range
    <2>2. ASSUME NEW x \in Range(toVisit) \ {h}
          PROVE  x \in Range(toVisit')
        <3>1. PICK i \in 1 .. n : toVisit[i] = x
            BY <1>1, <2>2 DEF Range
        <3>2. i - 1 \in 1 .. n - 1 /\ toVisit'[i - 1] = x
            BY <1>1, <1>6, <2>2, <3>1
        <3>3. QED
            BY <1>1, <3>2 DEF Range
    <2>3. Range(toVisit') \subseteq Range(toVisit) \ {h}
        BY <1>1, <2>1 DEF Range
    <2>4. QED
        BY <2>2, <2>3
<1>8. IsInjective(toVisit')
    <2>1. ASSUME NEW i \in 1 .. n - 1, NEW j \in 1 .. n - 1, toVisit'[i] = toVisit'[j]
          PROVE  i = j
        <3>1. i + 1 = j + 1
            BY <1>1, <1>2, <1>5, <2>1
        <3>2. QED
            BY <1>1, <3>1
    <2>2. QED
        BY <1>1, <2>1 DEF IsInjective
<1>9. ASSUME NEW i \in DOMAIN toVisit', NEW d, Over(f, d, toVisit[i])'
      PROVE  \E j \in i .. Len(toVisit') : toVisit'[j] = d
    <2>1. PICK x : x = toVisit'[i]
        OBVIOUS
    <2>2. Over(f, d, x)'
        BY <1>9, <2>1 DEF Over
    <2>3. Over(f, d, x)
        BY <2>2, OverStill
    <2>4. i \in 1 .. n - 1 /\ i + 1 \in 1 .. n /\ x = toVisit[i + 1]
        BY <1>1, <1>5, <1>9, <2>1
    <2>5. PICK j \in i + 1 .. n : toVisit[j] = d
        BY <1>2, <2>3, <2>4
    <2>6. j - 1 \in i .. n - 1 /\ j - 1 \in 1 .. n - 1 /\ (j - 1) + 1 = j
        BY <1>1, <2>4, <2>5
    <2>7. toVisit'[j - 1] = d
        BY <1>1, <2>5, <2>6
    <2>8. QED
        BY <1>1, <2>6, <2>7
<1>10. VisitsRise'
    <2>1. Reached(f)' = Reached(f) /\ current' = f
        BY GraphStill
    <2>2. Range(toVisit') \subseteq Reached(current)'
        BY <1>2, <1>7, <2>1
    <2>3. ASSUME NEW i \in DOMAIN toVisit', NEW d, Over(current, d, toVisit[i])'
          PROVE  \E j \in i .. Len(toVisit') : toVisit'[j] = d
        BY <1>9, <2>1, <2>3
    <2>4. QED
        BY <1>8, <2>2, <2>3 DEF VisitsRise
<1>11. QED
    BY <1>3, <1>4, <1>7, <1>10

Detecting ==
    /\ Ordered /\ FrontInv /\ TreeInv /\ CausedInv /\ NestTypeOK /\ NestInv
    /\ stage = "done" /\ current \in DOMAIN functions

\* A block that is no header is skipped.
LEMMA SkipKeeps ==
    ASSUME Detecting, UNCHANGED graphVars, UNCHANGED dvars, SkipBlock
    PROVE  NestInv'
<1> PICK f, h : f = current /\ h = Head(toVisit)
    OBVIOUS
<1>1. /\ toVisit # <<>> /\ workList = <<>> /\ BackEdges(h) = {} /\ toVisit' = Tail(toVisit)
      /\ UNCHANGED <<loops, loopBlocks, subLoops, loopParent, bbToLoop, header, workList>>
      /\ current' = f /\ stage' = "done" /\ stage = "done" /\ functions' = functions /\ pred' = pred
      /\ f \in DOMAIN functions /\ toVisit \in Seq(Blocks)
    BY DEF SkipBlock, loopMaps, dvars, graphVars, Detecting, NestTypeOK
<1>2. /\ Range(toVisit') = Range(toVisit) \ {h} /\ VisitsRise' /\ h \in Reached(f)
    BY <1>1, VisitsGoOn DEF NestInv, Detecting
<1>3. \A g : BlocksOf(g)' = BlocksOf(g) /\ Reached(g)' = Reached(g) /\ NaturalOf(g)' = NaturalOf(g)
             /\ LoopHeaders(Dominance(g))' = LoopHeaders(Dominance(g))
    BY GraphStill, NaturalStill
<1>4. h \notin LoopHeaders(Dominance(f))
    BY <1>1, <1>2, DetectFacts DEF Detecting
<1>5. ASSUME NEW g
      PROVE  Found(g)' = Found(g)
    <2>1. CASE g = f
        <3>1. Found(f)' = LoopHeaders(Dominance(f)) \ Range(toVisit')
            BY <1>1, <1>3 DEF Found
        <3>2. Found(f) = LoopHeaders(Dominance(f)) \ Range(toVisit)
            BY <1>1 DEF Found
        <3>3. QED
            BY <1>2, <1>4, <2>1, <3>1, <3>2
    <2>2. CASE g # f
        BY <1>1, <1>3, <2>2 DEF Found
    <2>3. QED
        BY <2>1, <2>2
<1>6. ASSUME NEW g \in DOMAIN functions
      PROVE  NestNow(g)'
    <2>1. PICK N, R, S : /\ N = NaturalOf(g) /\ R = Reached(g) /\ S = Found(g)
                         /\ N = NaturalOf(g)' /\ R = Reached(g)' /\ S = Found(g)'
        BY <1>3, <1>5
    <2>2. NestNow(g)
        BY DEF NestInv, Detecting
    <2>3. QED
        BY <1>1, <2>1, <2>2 DEF NestNow
<1>7. \A g \in DOMAIN functions : Range(loops') \cap BlocksOf(g)' = Found(g)'
    BY <1>1, <1>3, <1>5 DEF NestInv, Detecting
<1>8. ParentsLater' /\ IsInjective(loops')
    BY <1>1 DEF NestInv, ParentsLater, Detecting
<1>9. QED
    BY <1>1, <1>2, <1>6, <1>7, <1>8 DEF NestInv, Detecting

\* A loop is created.
LEMMA CreateKeeps ==
    ASSUME Detecting, UNCHANGED graphVars, UNCHANGED dvars, CreateLoop
    PROVE  NestInv'
<1> PICK f, h : f = current /\ h = Head(toVisit)
    OBVIOUS
<1>1. /\ toVisit # <<>> /\ workList = <<>> /\ BackEdges(h) # {} /\ toVisit' = Tail(toVisit)
      /\ \E order \in SetToSeqs(BackEdges(h)) : workList' = order
      /\ header' = h /\ loops' = Append(loops, h)
      /\ loopBlocks' = [loopBlocks EXCEPT ![h] = {h}] /\ bbToLoop' = [bbToLoop EXCEPT ![h] = h]
      /\ subLoops' = subLoops /\ loopParent' = loopParent
      /\ current' = f /\ stage' = "done" /\ stage = "done" /\ functions' = functions /\ pred' = pred
      /\ f \in DOMAIN functions /\ toVisit \in Seq(Blocks) /\ loops \in Seq(Blocks)
      /\ loopBlocks \in [Blocks -> SUBSET Blocks] /\ bbToLoop \in [Blocks -> Blocks \cup {NoBlock}]
    BY DEF CreateLoop, dvars, graphVars, Detecting, NestTypeOK, LoopsTypeOK
<1>2. /\ Range(toVisit') = Range(toVisit) \ {h} /\ VisitsRise' /\ h \in Reached(f) /\ h \in Range(toVisit)
      /\ \A d : Over(f, d, h) => d \in Range(toVisit)
    BY <1>1, VisitsGoOn DEF NestInv, Detecting
<1>3. \A g : BlocksOf(g)' = BlocksOf(g) /\ Reached(g)' = Reached(g) /\ NaturalOf(g)' = NaturalOf(g)
             /\ LoopHeaders(Dominance(g))' = LoopHeaders(Dominance(g))
    BY GraphStill, NaturalStill
<1> PICK N, R, S, H : /\ N = NaturalOf(f) /\ R = Reached(f) /\ S = Found(f)
                      /\ H = LoopHeaders(Dominance(f))
    OBVIOUS
<1>4. /\ Forest(N, R, pred) /\ R \subseteq Blocks /\ R \subseteq BlocksOf(f) /\ BackEdges(h) = Latches(f, h)
      /\ h \in H /\ H \subseteq R /\ <<h, h>> \in N
      /\ \A c, b : <<c, b>> \in N => Over(f, c, b)
      /\ \A q \in Range(pred[h]) : <<h, q>> \in N <=> q \in Latches(f, h)
      /\ Apart /\ Graph
    <2>1. Graph
        BY <1>1, DetectFacts DEF Detecting
    <2>2. QED
        BY <1>1, <1>2, <2>1, DetectFacts DEF Detecting, Graph, GraphInv
<1>5. S = H \ Range(toVisit) /\ Found(f)' = S \cup {h} /\ h \notin S /\ S \subseteq R
    <2>1. S = H \ Range(toVisit)
        BY <1>1 DEF Found
    <2>2. Found(f)' = H \ Range(toVisit')
        BY <1>1, <1>3 DEF Found
    <2>3. QED
        BY <1>2, <1>4, <2>1, <2>2
<1>6. \A g : g # f => Found(g)' = Found(g)
    BY <1>1, <1>3 DEF Found
<1>7. Range(workList') = Latches(f, h)
    <2>1. IsFiniteSet(Blocks)
        BY <1>1, FS_Interval, ListFacts DEF Blocks, Detecting, Ordered, WalkInv
    <2>2. Latches(f, h) \subseteq Blocks
        BY <1>4 DEF Latches, Over
    <2>3. IsFiniteSet(Latches(f, h))
        BY <2>1, <2>2, FS_Subset
    <2>4. QED
        BY <1>1, <1>4, <2>3, SeqsFacts
<1>8. Search(N, R, pred, S, h, bbToLoop', loopParent, loopBlocks', subLoops, Range(workList'))
    <2>1. Nest(N, R, S, bbToLoop, loopParent, loopBlocks, subLoops)
        BY <1>1 DEF NestInv, NestNow, Detecting
    <2>2. /\ bbToLoop'[h] = h /\ \A b \in R \ {h} : bbToLoop'[b] = bbToLoop[b]
          /\ loopBlocks'[h] = {h} /\ \A g \in S : loopBlocks'[g] = loopBlocks[g]
        BY <1>1, <1>2, <1>4, <1>5
    <2>3. \A g \in S : <<g, h>> \notin N
        BY <1>2, <1>4, <1>5
    <2>4. /\ \A b \in Range(workList') : <<h, b>> \in N
          /\ \A q \in Range(pred[h]) : <<h, q>> \in N => q \in Range(workList')
        BY <1>4, <1>7 DEF Latches
    <2>5. Begins(N, R, pred, S, h, bbToLoop, loopParent, loopBlocks, subLoops, bbToLoop', loopBlocks', Range(workList'))
        BY <1>2, <1>4, <1>5, <2>1, <2>2, <2>3, <2>4 DEF Begins
    <2>6. QED
        BY <2>5, SearchBegins
<1>9. NestNow(f)'
    <2>1. N = NaturalOf(f)' /\ R = Reached(f)' /\ Found(f)' = S \cup {h} /\ Found(f)' \ {h} = S
        BY <1>3, <1>5
    <2>2. CASE workList' = <<>>
        <3>1. Range(workList') = {}
            BY <2>2 DEF Range
        <3>2. Nest(N, R, S \cup {h}, bbToLoop', loopParent, loopBlocks', subLoops)
            BY <1>4, <1>8, <3>1, SearchEnds
        <3>3. QED
            BY <1>1, <2>1, <2>2, <3>2 DEF NestNow
    <2>3. CASE workList' # <<>>
        BY <1>1, <1>8, <2>1, <2>3 DEF NestNow
    <2>4. QED
        BY <2>2, <2>3
<1>10. ASSUME NEW g \in DOMAIN functions, g # f
       PROVE  NestNow(g)'
    <2>1. PICK N2, R2, S2 : /\ N2 = NaturalOf(g) /\ R2 = Reached(g) /\ S2 = Found(g)
                            /\ N2 = NaturalOf(g)' /\ R2 = Reached(g)' /\ S2 = Found(g)'
        BY <1>3, <1>6, <1>10
    <2>2. Nest(N2, R2, S2, bbToLoop, loopParent, loopBlocks, subLoops)
        BY <1>1, <1>10, <2>1 DEF NestInv, NestNow, Detecting
    <2>3. R2 \subseteq BlocksOf(g) /\ R2 \subseteq Blocks /\ h \notin R2
        BY <1>1, <1>2, <1>4, <1>10, <2>1, ReachedFacts DEF Graph, Apart
    <2>4. S2 \subseteq R2
        BY <1>4, <2>1, NaturalFacts DEF Found
    <2>5. \A b \in R2 : /\ bbToLoop'[b] = bbToLoop[b] /\ loopParent[b] = loopParent[b]
                        /\ loopBlocks'[b] = loopBlocks[b] /\ subLoops[b] = subLoops[b]
        BY <1>1, <2>3
    <2>6. Nest(N2, R2, S2, bbToLoop', loopParent, loopBlocks', subLoops)
        BY <2>2, <2>4, <2>5, NestLocal
    <2>7. QED
        BY <1>1, <1>10, <2>1, <2>6 DEF NestNow
<1>11. h \in Blocks /\ h \notin Range(loops) /\ IsInjective(loops) /\ loopParent[h] = NoBlock
    <2>1. Range(loops) \cap BlocksOf(f) = S /\ IsInjective(loops)
        BY <1>1 DEF NestInv, Detecting
    <2>2. loopParent[h] = NoBlock
        BY <1>2, <1>5, <1>8 DEF Search
    <2>3. QED
        BY <1>2, <1>4, <1>5, <2>1, <2>2
<1>12. Range(loops') = Range(loops) \cup {h} /\ IsInjective(loops')
    BY <1>1, <1>11, StackFacts
<1>13. ASSUME NEW g \in DOMAIN functions
       PROVE  Range(loops') \cap BlocksOf(g)' = Found(g)'
    <2>1. Range(loops) \cap BlocksOf(g) = Found(g)
        BY DEF NestInv, Detecting
    <2>2. CASE g = f
        BY <1>2, <1>3, <1>4, <1>5, <1>12, <2>1, <2>2
    <2>3. CASE g # f
        <3>1. h \notin BlocksOf(g)
            BY <1>1, <1>2, <1>4, <2>3 DEF Apart
        <3>2. QED
            BY <1>3, <1>6, <1>12, <2>1, <2>3, <3>1
    <2>4. QED
        BY <2>2, <2>3
<1>14. ParentsLater' /\ loops' # <<>> /\ loops'[Len(loops')] = h
    <2>1. PICK n : n = Len(loops)
        OBVIOUS
    <2>2. /\ n \in Nat /\ DOMAIN loops = 1 .. n /\ DOMAIN loops' = 1 .. n + 1 /\ Len(loops') = n + 1
          /\ loops'[n + 1] = h /\ \A i \in 1 .. n : loops'[i] = loops[i]
        BY <1>1, <2>1
    <2>3. ASSUME NEW i \in 1 .. n + 1, loopParent[loops'[i]] # NoBlock
          PROVE  \E j \in i + 1 .. n + 1 : loops'[j] = loopParent[loops'[i]]
        <3>1. i \in 1 .. n /\ loops'[i] = loops[i]
            BY <1>11, <2>2, <2>3
        <3>2. PICK j \in i + 1 .. n : loops[j] = loopParent[loops[i]]
            BY <2>1, <2>2, <2>3, <3>1 DEF NestInv, ParentsLater, Detecting
        <3>3. j \in 1 .. n /\ j \in i + 1 .. n + 1
            BY <2>2, <3>1, <3>2
        <3>4. QED
            BY <2>2, <3>1, <3>2, <3>3
    <2>4. \A i \in DOMAIN loops' : loopParent'[loops'[i]] # NoBlock =>
              \E j \in i + 1 .. Len(loops') : loops'[j] = loopParent'[loops'[i]]
        BY <1>1, <2>2, <2>3
    <2>5. ParentsLater'
        BY <2>4 DEF ParentsLater
    <2>6. loops' # <<>>
        BY <2>2
    <2>7. QED
        BY <2>2, <2>5, <2>6
<1>15. header' \in Found(current)'
    <2>1. h \in Found(f)'
        BY <1>5
    <2>2. QED
        BY <1>1, <2>1 DEF Found
<1>16. \A g \in DOMAIN functions : NestNow(g)'
    BY <1>9, <1>10
<1>17. QED
    BY <1>1, <1>2, <1>12, <1>13, <1>14, <1>15, <1>16 DEF NestInv

\* The outermost loop around a block that is in a loop.
LEMMA RootPlaced ==
    ASSUME LoopsTypeOK, ParentsLater, NEW N, NEW R, NEW prd, NEW S, NEW h, NEW wl, Forest(N, R, prd),
           Search(N, R, prd, S, h, bbToLoop, loopParent, loopBlocks, subLoops, wl),
           S \cup {h} \subseteq Range(loops), NEW b \in wl, bbToLoop[b] # NoBlock
    PROVE  LET r == RootLoop(bbToLoop[b]) IN
           /\ r # h => r \in S /\ loopParent[r] = NoBlock /\ <<r, b>> \in N
           /\ r = h \/ bbToLoop[b] = h => b \in Covered(N, R, S, h, bbToLoop, loopParent)
<1> DEFINE C == Covered(N, R, S, h, bbToLoop, loopParent)
           G == {x \in S \cup {h} : (x \in S => <<x, b>> \in N) /\ (x = h => b \in C)}
           k == bbToLoop[b]
           r == RootLoop(k)
<1>1. /\ h \in R \ S /\ \A g \in S : <<g, g>> \in N
      /\ \A c \in R : Placed(N, S, h, c, bbToLoop[c])
      /\ \A g \in S : Placed(N, S \ {g}, h, g, loopParent[g])
      /\ \A g \in R \ S : loopParent[g] = NoBlock
      /\ \A c \in wl : <<h, c>> \in N
    BY DEF Search
<1>2. /\ \A c, d : <<c, d>> \in N => c \in R /\ d \in R
      /\ \A c, g, d : <<c, g>> \in N /\ <<g, d>> \in N => <<c, d>> \in N
    BY DEF Forest
<1>3. b \in R /\ k # NoBlock
    BY <1>1, <1>2
<1>4. k = h => b \in C
    BY <1>3 DEF Covered
<1>5. k \in G
    <2>1. Placed(N, S, h, b, k)
        BY <1>1, <1>3
    <2>2. k = h \/ (k \in S /\ k # h /\ <<k, b>> \in N)
        BY <1>1, <1>3, <2>1 DEF Placed, Inner
    <2>3. QED
        BY <1>1, <1>4, <2>2
<1>6. ASSUME NEW x \in G, loopParent[x] # NoBlock
      PROVE  loopParent[x] \in G
    <2> PICK l : l = loopParent[x]
        OBVIOUS
    <2>1. x \in S /\ x # h /\ <<x, b>> \in N
        BY <1>1, <1>6
    <2>2. Placed(N, S \ {x}, h, x, l)
        BY <1>1, <2>1
    <2>3. CASE l = h
        <3>1. b \in C
            BY <1>3, <2>1, <2>3 DEF Covered
        <3>2. QED
            BY <1>1, <2>3, <3>1
    <2>4. CASE l # h
        <3>1. l \in S /\ <<l, x>> \in N
            BY <1>6, <2>2, <2>4 DEF Placed, Inner
        <3>2. <<l, b>> \in N
            BY <1>2, <2>1, <3>1
        <3>3. QED
            BY <2>4, <3>1, <3>2
    <2>5. QED
        BY <2>3, <2>4
<1>7. G \in SUBSET Range(loops)
    OBVIOUS
<1> HIDE DEF G, C, k
<1>8. RootLoop(k) \in G /\ loopParent[RootLoop(k)] = NoBlock
    BY <1>5, <1>6, <1>7, RootFacts
<1>9. QED
    BY <1>4, <1>8 DEF G, C, k

\* A sequence holds what its front holds, and its last element.
LEMMA FrontRange ==
    ASSUME NEW S, NEW s \in Seq(S), s # <<>>
    PROVE  Range(s) = Range(Front(s)) \cup {Last(s)}
<1> PICK n : n = Len(s)
    OBVIOUS
<1>1. /\ n \in Nat \ {0} /\ DOMAIN s = 1 .. n /\ DOMAIN Front(s) = 1 .. n - 1
      /\ \A i \in 1 .. n - 1 : Front(s)[i] = s[i]
    BY FrontFacts
<1>2. Last(s) = s[n]
    BY DEF Last
<1>3. \A i \in 1 .. n : i \in 1 .. n - 1 \/ i = n
    BY <1>1
<1>4. \A i \in 1 .. n - 1 : i \in 1 .. n
    BY <1>1
<1>5. n \in 1 .. n
    BY <1>1
<1>6. Range(s) \subseteq Range(Front(s)) \cup {Last(s)}
    BY <1>1, <1>2, <1>3 DEF Range
<1>7. Range(Front(s)) \cup {Last(s)} \subseteq Range(s)
    BY <1>1, <1>2, <1>4, <1>5 DEF Range
<1>8. QED
    BY <1>6, <1>7

\* One block of the work list.
LEMMA DiscoverKeeps ==
    ASSUME Detecting, UNCHANGED graphVars, UNCHANGED dvars, Discover
    PROVE  NestInv'
<1> PICK f, h, b : f = current /\ h = header /\ b = Last(workList)
    OBVIOUS
<1>1. /\ workList # <<>>
      /\ AddBlock(b) \/ AddSubLoop(b) \/ KnownBlock(b)
      /\ loops' = loops /\ toVisit' = toVisit /\ header' = header
      /\ current' = f /\ stage' = "done" /\ stage = "done" /\ functions' = functions /\ pred' = pred
      /\ f \in DOMAIN functions
    BY DEF Discover, dvars, graphVars, Detecting
<1>2. /\ loops \in Seq(Blocks) /\ workList \in Seq(Blocks)
      /\ loopBlocks \in [Blocks -> SUBSET Blocks] /\ bbToLoop \in [Blocks -> Blocks \cup {NoBlock}]
      /\ subLoops \in [Blocks -> SUBSET Blocks] /\ loopParent \in [Blocks -> Blocks \cup {NoBlock}]
      /\ LoopsTypeOK
    BY DEF Detecting, NestTypeOK, LoopsTypeOK
<1>3. \A g : BlocksOf(g)' = BlocksOf(g) /\ Reached(g)' = Reached(g) /\ NaturalOf(g)' = NaturalOf(g)
             /\ LoopHeaders(Dominance(g))' = LoopHeaders(Dominance(g)) /\ Found(g)' = Found(g)
    <2>1. \A g : BlocksOf(g)' = BlocksOf(g) /\ Reached(g)' = Reached(g) /\ NaturalOf(g)' = NaturalOf(g)
                 /\ LoopHeaders(Dominance(g))' = LoopHeaders(Dominance(g))
        BY GraphStill, NaturalStill
    <2>2. \A g : Found(g)' = Found(g)
        BY <1>1, <2>1 DEF Found
    <2>3. QED
        BY <2>1, <2>2
<1> PICK N, R, S, wl : N = NaturalOf(f) /\ R = Reached(f) /\ S = Found(f) \ {h} /\ wl = Range(workList)
    OBVIOUS
<1>4. /\ Forest(N, R, pred) /\ R \subseteq Blocks /\ R \subseteq BlocksOf(f) /\ Apart /\ Graph
      /\ FlowGraphTypeOK
    <2>1. Graph
        BY <1>1, DetectFacts DEF Detecting
    <2>2. QED
        BY <1>1, <2>1, DetectFacts DEF Detecting, Graph, GraphInv
<1>5. Search(N, R, pred, S, h, bbToLoop, loopParent, loopBlocks, subLoops, wl)
    <2>1. NestNow(f)
        BY <1>1 DEF NestInv, Detecting
    <2>2. QED
        BY <1>1, <2>1 DEF NestNow
<1>6. /\ h \in Found(f) /\ loops # <<>> /\ h = loops[Len(loops)] /\ ParentsLater /\ IsInjective(loops)
      /\ \A g \in DOMAIN functions : Range(loops) \cap BlocksOf(g) = Found(g)
    BY <1>1 DEF NestInv, Detecting
<1>7. S \cup {h} = Found(f) /\ S \cup {h} \subseteq Range(loops)
    BY <1>1, <1>6
<1>8. /\ b \in wl /\ b \in R /\ b \in Blocks /\ h \in R /\ h \in Blocks /\ h \notin S
      /\ Front(workList) \in Seq(Blocks) /\ wl = Range(Front(workList)) \cup {b}
    <2>1. Front(workList) \in Seq(Blocks) /\ wl = Range(Front(workList)) \cup {b}
        BY <1>1, <1>2, FrontFacts, FrontRange
    <2>2. h \in R /\ h \notin S /\ <<h, b>> \in N
        BY <1>5, <2>1 DEF Search
    <2>3. N \subseteq R \X R
        BY <1>4 DEF Forest
    <2>4. QED
        BY <1>4, <2>1, <2>2, <2>3
<1>9. \A c \in Blocks : pred[c] \in Seq(Blocks)
    BY <1>4, ListFacts
<1>10. S \subseteq R
    <2>1. N \subseteq R \X R
        BY <1>4 DEF Forest
    <2>2. \A g \in S : <<g, g>> \in N
        BY <1>5 DEF Search
    <2>3. QED
        BY <2>1, <2>2
<1> PICK sub : sub = RootLoop(bbToLoop[b])
    OBVIOUS
<1>11. bbToLoop[b] # NoBlock =>
           /\ sub # h => sub \in S /\ loopParent[sub] = NoBlock /\ <<sub, b>> \in N
           /\ sub = h \/ bbToLoop[b] = h => b \in Covered(N, R, S, h, bbToLoop, loopParent)
    <2> SUFFICES ASSUME bbToLoop[b] # NoBlock
                 PROVE  /\ sub # h => sub \in S /\ loopParent[sub] = NoBlock /\ <<sub, b>> \in N
                        /\ sub = h \/ bbToLoop[b] = h => b \in Covered(N, R, S, h, bbToLoop, loopParent)
        OBVIOUS
    <2>1. /\ LoopsTypeOK /\ ParentsLater /\ Forest(N, R, pred)
          /\ Search(N, R, pred, S, h, bbToLoop, loopParent, loopBlocks, subLoops, wl)
          /\ S \cup {h} \subseteq Range(loops) /\ b \in wl
        BY <1>2, <1>4, <1>5, <1>6, <1>7, <1>8
    <2>2. /\ RootLoop(bbToLoop[b]) # h =>
                /\ RootLoop(bbToLoop[b]) \in S /\ loopParent[RootLoop(bbToLoop[b])] = NoBlock
                /\ <<RootLoop(bbToLoop[b]), b>> \in N
          /\ RootLoop(bbToLoop[b]) = h \/ bbToLoop[b] = h =>
                b \in Covered(N, R, S, h, bbToLoop, loopParent)
        BY <2>1, RootPlaced
    <2>3. QED
        BY <2>2
<1>12. /\ Search(N, R, pred, S, h, bbToLoop', loopParent', loopBlocks', subLoops', Range(workList'))
       /\ \A c \in Blocks \ R : /\ bbToLoop'[c] = bbToLoop[c] /\ loopParent'[c] = loopParent[c]
                                /\ loopBlocks'[c] = loopBlocks[c] /\ subLoops'[c] = subLoops[c]
       /\ ParentsLater'
    <2>1. CASE AddBlock(b)
        <3>1. /\ bbToLoop[b] = NoBlock /\ loopBlocks' = [loopBlocks EXCEPT ![h] = @ \cup {b}]
              /\ bbToLoop' = [bbToLoop EXCEPT ![b] = h]
              /\ workList' = Front(workList) \o pred[b]
              /\ subLoops' = subLoops /\ loopParent' = loopParent
            BY <2>1 DEF AddBlock
        <3>2. Range(workList') = Range(Front(workList)) \cup Range(pred[b])
            BY <1>8, <1>9, <3>1, RangeFacts
        <3>3. Replaced(Range(workList'), wl, b, Range(pred[b]))
            BY <1>8, <3>2 DEF Replaced
        <3>4. /\ bbToLoop'[b] = h /\ \A c \in Blocks \ {b} : bbToLoop'[c] = bbToLoop[c]
              /\ loopBlocks'[h] = loopBlocks[h] \cup {b}
              /\ \A c \in Blocks \ {h} : loopBlocks'[c] = loopBlocks[c]
            BY <1>2, <1>8, <3>1
        <3>5. /\ \A c \in R \ {b} : bbToLoop'[c] = bbToLoop[c]
              /\ \A c \in S : loopBlocks'[c] = loopBlocks[c]
            BY <1>4, <1>8, <1>10, <3>4
        <3>6. Adds(N, R, pred, S, h, bbToLoop, loopParent, loopBlocks, subLoops, wl, b,
                   bbToLoop', loopBlocks', Range(workList'))
            BY <1>4, <1>5, <1>8, <3>1, <3>3, <3>4, <3>5 DEF Adds
        <3>7. Search(N, R, pred, S, h, bbToLoop', loopParent, loopBlocks', subLoops, Range(workList'))
            BY <3>6, SearchAdds
        <3>8. ParentsLater'
            BY <1>1, <1>6, <3>1 DEF ParentsLater
        <3>9. QED
            BY <1>8, <3>1, <3>4, <3>7, <3>8
    <2>2. CASE AddSubLoop(b)
        <3>1. /\ bbToLoop[b] # NoBlock /\ sub # h
              /\ loopParent' = [loopParent EXCEPT ![sub] = h]
              /\ subLoops' = [subLoops EXCEPT ![h] = @ \cup {sub}]
              /\ workList' = Front(workList) \o pred[sub]
              /\ loopBlocks' = loopBlocks /\ bbToLoop' = bbToLoop
            BY <2>2 DEF AddSubLoop
        <3>2. sub \in S /\ loopParent[sub] = NoBlock /\ <<sub, b>> \in N /\ sub \in R /\ sub \in Blocks
            BY <1>4, <1>10, <1>11, <3>1
        <3>3. Range(workList') = Range(Front(workList)) \cup Range(pred[sub])
            BY <1>8, <1>9, <3>1, <3>2, RangeFacts
        <3>4. Replaced(Range(workList'), wl, b, Range(pred[sub]))
            BY <1>8, <3>3 DEF Replaced
        <3>5. /\ loopParent'[sub] = h /\ \A c \in Blocks \ {sub} : loopParent'[c] = loopParent[c]
              /\ subLoops'[h] = subLoops[h] \cup {sub}
              /\ \A c \in Blocks \ {h} : subLoops'[c] = subLoops[c]
            BY <1>2, <1>8, <3>1, <3>2
        <3>6. /\ \A c \in R \ {sub} : loopParent'[c] = loopParent[c]
              /\ \A c \in R \ {h} : subLoops'[c] = subLoops[c]
            BY <1>4, <3>5
        <3>7. Nests(N, R, pred, S, h, bbToLoop, loopParent, loopBlocks, subLoops, wl, b, sub,
                    loopParent', subLoops', Range(workList'))
            BY <1>4, <1>5, <1>8, <3>2, <3>4, <3>5, <3>6 DEF Nests
        <3>8. Search(N, R, pred, S, h, bbToLoop, loopParent', loopBlocks, subLoops', Range(workList'))
            BY <3>7, SearchNests
        <3>9. ASSUME NEW i \in DOMAIN loops', loopParent'[loops'[i]] # NoBlock
              PROVE  \E j \in i + 1 .. Len(loops') : loops'[j] = loopParent'[loops'[i]]
            <4>1. PICK n : n = Len(loops)
                OBVIOUS
            <4>2. n \in Nat /\ i \in 1 .. n /\ loops' = loops /\ loops[i] \in Blocks /\ loops[n] = h
                BY <1>1, <1>2, <1>6, <3>9, <4>1
            <4>3. CASE loops[i] = sub
                <5>1. i # n
                    BY <3>1, <4>2, <4>3
                <5>2. n \in i + 1 .. n /\ loops[n] = loopParent'[loops[i]]
                    BY <3>5, <4>2, <4>3, <5>1
                <5>3. QED
                    BY <4>1, <4>2, <5>2
            <4>4. CASE loops[i] # sub
                <5>1. loopParent'[loops[i]] = loopParent[loops[i]]
                    BY <3>5, <4>2, <4>4
                <5>2. \E j \in i + 1 .. n : loops[j] = loopParent[loops[i]]
                    BY <1>6, <3>9, <4>1, <4>2, <5>1 DEF ParentsLater
                <5>3. QED
                    BY <4>1, <4>2, <5>1, <5>2
            <4>5. QED
                BY <4>3, <4>4
        <3>10. ParentsLater'
            BY <3>9 DEF ParentsLater
        <3>11. QED
            BY <1>8, <3>1, <3>2, <3>5, <3>8, <3>10
    <2>3. CASE KnownBlock(b)
        <3>1. /\ bbToLoop[b] # NoBlock
              /\ bbToLoop[b] = h \/ sub = h
              /\ workList' = Front(workList)
              /\ subLoops' = subLoops /\ loopParent' = loopParent
              /\ loopBlocks' = loopBlocks /\ bbToLoop' = bbToLoop
            BY <2>3 DEF KnownBlock
        <3>2. b \in Covered(N, R, S, h, bbToLoop, loopParent)
            BY <1>11, <3>1
        <3>3. Replaced(Range(workList'), wl, b, {})
            BY <1>8, <3>1 DEF Replaced
        <3>4. Search(N, R, pred, S, h, bbToLoop, loopParent, loopBlocks, subLoops, Range(workList'))
            BY <1>5, <3>2, <3>3, SearchKnows
        <3>5. ParentsLater'
            BY <1>1, <1>6, <3>1 DEF ParentsLater
        <3>6. QED
            BY <3>1, <3>4, <3>5
    <2>4. QED
        BY <1>1, <2>1, <2>2, <2>3
<1>13. NestNow(f)'
    <2>1. N = NaturalOf(f)' /\ R = Reached(f)' /\ Found(f)' = S \cup {h} /\ Found(f)' \ {h} = S
        BY <1>3, <1>7
    <2>2. CASE workList' = <<>>
        <3>1. Range(workList') = {}
            BY <2>2 DEF Range
        <3>2. Nest(N, R, S \cup {h}, bbToLoop', loopParent', loopBlocks', subLoops')
            BY <1>4, <1>12, <3>1, SearchEnds
        <3>3. QED
            BY <1>1, <2>1, <2>2, <3>2 DEF NestNow
    <2>3. CASE workList' # <<>>
        BY <1>1, <1>12, <2>1, <2>3 DEF NestNow
    <2>4. QED
        BY <2>2, <2>3
<1>14. ASSUME NEW g \in DOMAIN functions, g # f
       PROVE  NestNow(g)'
    <2>1. PICK N2, R2, S2 : /\ N2 = NaturalOf(g) /\ R2 = Reached(g) /\ S2 = Found(g)
                            /\ N2 = NaturalOf(g)' /\ R2 = Reached(g)' /\ S2 = Found(g)'
        BY <1>3
    <2>2. Nest(N2, R2, S2, bbToLoop, loopParent, loopBlocks, subLoops)
        <3>1. NestNow(g)
            BY DEF NestInv, Detecting
        <3>2. QED
            BY <1>14, <2>1, <3>1 DEF NestNow
    <2>3. R2 \subseteq BlocksOf(g) /\ R2 \subseteq Blocks /\ R2 \cap R = {}
        BY <1>1, <1>4, <1>14, <2>1, ReachedFacts DEF Graph, Apart
    <2>4. S2 \subseteq R2
        BY <1>4, <2>1, NaturalFacts DEF Found
    <2>5. \A c \in R2 : /\ bbToLoop'[c] = bbToLoop[c] /\ loopParent'[c] = loopParent[c]
                        /\ loopBlocks'[c] = loopBlocks[c] /\ subLoops'[c] = subLoops[c]
        BY <1>12, <2>3
    <2>6. Nest(N2, R2, S2, bbToLoop', loopParent', loopBlocks', subLoops')
        BY <2>2, <2>4, <2>5, NestLocal
    <2>7. QED
        BY <1>1, <1>14, <2>1, <2>6 DEF NestNow
<1>15. \A g \in DOMAIN functions : Range(loops') \cap BlocksOf(g)' = Found(g)'
    BY <1>1, <1>3, <1>6
<1>16. toVisit' # <<>> => VisitsRise'
    <2> SUFFICES ASSUME toVisit # <<>>
                 PROVE  VisitsRise'
        BY <1>1
    <2>1. VisitsRise
        BY DEF NestInv, Detecting
    <2>2. IsInjective(toVisit') /\ Range(toVisit') \subseteq Reached(current)'
        BY <1>1, <1>3, <2>1 DEF VisitsRise
    <2>3. ASSUME NEW i \in DOMAIN toVisit', NEW d, Over(current, d, toVisit[i])'
          PROVE  \E j \in i .. Len(toVisit') : toVisit'[j] = d
        <3>1. PICK x : x = toVisit'[i]
            OBVIOUS
        <3>2. Over(f, d, x)'
            BY <1>1, <2>3, <3>1 DEF Over
        <3>3. Over(f, d, x)
            BY <3>2, OverStill
        <3>4. QED
            BY <1>1, <2>1, <3>1, <3>3 DEF VisitsRise
    <2>4. QED
        BY <2>2, <2>3 DEF VisitsRise
<1>17. header' \in Found(current)'
    <2>1. h \in Found(f)'
        BY <1>3, <1>6
    <2>2. QED
        BY <1>1, <2>1 DEF Found
<1>18. \A g \in DOMAIN functions : NestNow(g)'
    BY <1>13, <1>14
<1>19. QED
    BY <1>1, <1>6, <1>12, <1>15, <1>16, <1>17, <1>18 DEF NestInv

-----------------------------------------------------------------------------
LoopsKnown == pass = "loops" => NestInv

\* The invariant of the loop detection, in every step.
LEMMA LoopsKnownStep ==
    ASSUME ProgramInv, AnalysisInv, EntryInv, Numbering, Sweeps, Fronts, Trees, Caused, Orders, LoopsKnown,
           [Next]_vars
    PROVE  LoopsKnown'
<1> SUFFICES ASSUME pass' = "loops"
             PROVE  NestInv'
    BY DEF LoopsKnown
<1>1. CASE StartLoopDetection
    <2>1. GraphInv
        BY DEF GraphInv, ProgramInv, BuilderInv, BuilderTypeOK
    <2>2. QED
        BY <1>1, <2>1, NestStarts
<1>2. CASE pass = "loops" /\ UNCHANGED graphVars
    <2>1. /\ Ordered /\ SweepInv /\ FrontInv /\ TreeInv /\ CausedInv /\ TreeOrder /\ NestTypeOK /\ NestInv
        BY <1>2, OrderedNow DEF Sweeps, Fronts, Trees, Caused, Orders, LoopsKnown, AnalysisInv
    <2>2. current \in Int /\ DOMAIN functions = 1 .. Len(functions) /\ Len(functions) \in Nat
        BY <2>1, OrderedTypes DEF Ordered, WalkInv, WalkTypeOK
    <2>3. \A g : LoopHeaders(Dominance(g))' = LoopHeaders(Dominance(g))
        BY <1>2, NaturalStill
    <2>4. CASE NextFunction
        <3>1. /\ stage = "done" /\ toVisit = <<>> /\ workList = <<>> /\ UNCHANGED lvars
              /\ stage' = "dfs" /\ current' = current + 1
            BY <2>1, <2>4 DEF NextFunction, RunOnFunc, FuncDone, Ordered
        <3>2. Range(toVisit) = {}
            BY <3>1 DEF Range
        <3>3. ASSUME NEW g \in DOMAIN functions
              PROVE  Found(g)' = Found(g)
            <4>1. g \in 1 .. (current + 1) - 1 <=> g = current \/ g \in 1 .. current - 1
                BY <2>2
            <4>2. PICK H : H = LoopHeaders(Dominance(g)) /\ H = LoopHeaders(Dominance(g))'
                BY <2>3
            <4>3. Found(g) = IF g = current \/ g \in 1 .. current - 1 THEN H ELSE {}
                BY <3>1, <3>2, <4>2 DEF Found
            <4>4. Found(g)' = IF g \in 1 .. (current + 1) - 1 THEN H ELSE {}
                BY <3>1, <4>2 DEF Found
            <4>5. QED
                BY <4>1, <4>3, <4>4
        <3>4. QED
            BY <1>2, <2>1, <3>1, <3>3, NestStill
    <2>5. CASE StartLoops
        BY <1>2, <2>1, <2>5, VisitsBegin
    <2>6. CASE DominatorsStep /\ UNCHANGED lvars
        <3>1. stage # "done" /\ stage' # "done" /\ current' = current
            BY <2>6 DEF DominatorsStep, DfsEnter, DfsReturn, StartIdom, IdomOfBlock, SweepAgain, StartFrontier,
                        FrontierOfBlock, CreateTree, TreeEnter, TreeReturn
        <3>2. toVisit = <<>> /\ workList = <<>>
            BY <2>1, <3>1 DEF NestInv
        <3>3. \A g \in DOMAIN functions : Found(g)' = Found(g)
            BY <2>3, <3>1 DEF Found
        <3>4. QED
            BY <1>2, <2>1, <2>6, <3>2, <3>3, NestStill
    <2>7. CASE LoopStep /\ UNCHANGED dvars
        <3>1. stage = "done" /\ (SkipBlock \/ CreateLoop \/ Discover)
            BY <2>7 DEF LoopStep
        <3>2. toVisit # <<>> \/ workList # <<>>
            BY <3>1 DEF SkipBlock, CreateLoop, Discover
        <3>3. Detecting
            BY <2>1, <3>1, <3>2 DEF Detecting, NestInv
        <3>4. QED
            BY <1>2, <2>7, <3>1, <3>3, SkipKeeps, CreateKeeps, DiscoverKeeps
    <2>8. CASE UNCHANGED dvars /\ UNCHANGED lvars
        <3>1. stage' = stage /\ current' = current /\ toVisit' = toVisit
            BY <2>8 DEF dvars, lvars
        <3>2. \A g \in DOMAIN functions : Found(g)' = Found(g)
            BY <2>3, <3>1 DEF Found
        <3>3. QED
            BY <1>2, <2>1, <2>8, <3>1, <3>2, NestStill
    <2>9. QED
        BY <1>1, <2>4, <2>5, <2>6, <2>7, <2>8, LoopCases
<1>3. QED
    BY <1>1, <1>2, LoopCases

-----------------------------------------------------------------------------
\* The blocks on paths from a block that is reached.
LEMMA WaysFacts ==
    ASSUME Graph, NEW f \in DOMAIN functions, NEW b \in Reached(f)
    PROVE  LET W == ReachedWithout(b, NoBlock) IN
           /\ b \in W /\ W \subseteq Reached(f)
           /\ \A x \in W : Range(succ[x]) \subseteq W
           /\ \A S : b \in S /\ (\A x \in S \cap W : Range(succ[x]) \subseteq S) => W \subseteq S
<1> PICK W : W = ReachedWithout(b, NoBlock)
    OBVIOUS
<1>1. /\ FlowGraphTypeOK /\ NoBlock \notin Blocks /\ Reached(f) \subseteq Blocks
      /\ \A x \in Reached(f) : Range(succ[x]) \subseteq Reached(f)
      /\ \A x \in Blocks : Range(succ[x]) \subseteq Blocks
    BY ReachedFacts, ListFacts DEF Graph, GraphInv, NoBlock, Blocks
<1>2. /\ b \in W /\ W \subseteq Blocks
      /\ \A x \in W : Range(succ[x]) \ {NoBlock} \subseteq W
      /\ \A S : b \in S /\ (\A x \in S \cap W : Range(succ[x]) \ {NoBlock} \subseteq S) => W \subseteq S
    BY <1>1, ReachFacts
<1>3. \A x \in Blocks : Range(succ[x]) \ {NoBlock} = Range(succ[x])
    BY <1>1
<1>4. ASSUME NEW S, b \in S, \A x \in S \cap W : Range(succ[x]) \subseteq S
      PROVE  W \subseteq S
    BY <1>2, <1>4
<1>5. W \subseteq Reached(f)
    BY <1>1, <1>4
<1>6. \A x \in W : Range(succ[x]) \subseteq W
    BY <1>2, <1>3
<1>7. QED
    BY <1>2, <1>4, <1>5, <1>6

\* Two paths are joined.
LEMMA WaysJoin ==
    ASSUME Graph, NEW f \in DOMAIN functions, NEW b \in Reached(f), NEW c \in ReachedWithout(b, NoBlock)
    PROVE  ReachedWithout(c, NoBlock) \subseteq ReachedWithout(b, NoBlock)
<1> PICK W : W = ReachedWithout(b, NoBlock)
    OBVIOUS
<1>1. c \in W /\ c \in Reached(f) /\ \A x \in W : Range(succ[x]) \subseteq W
    BY WaysFacts
<1>2. \A S : c \in S /\ (\A x \in S \cap ReachedWithout(c, NoBlock) : Range(succ[x]) \subseteq S)
                => ReachedWithout(c, NoBlock) \subseteq S
    BY <1>1, WaysFacts
<1>3. QED
    BY <1>1, <1>2

\* A path from a block to another one starts with one of its successors.
LEMMA FirstStep ==
    ASSUME Graph, NEW f \in DOMAIN functions, NEW b \in Reached(f), NEW x \in ReachedWithout(b, NoBlock), x # b
    PROVE  \E c \in Range(succ[b]) : x \in ReachedWithout(c, NoBlock)
<1> PICK S : S = {b} \cup UNION {ReachedWithout(c, NoBlock) : c \in Range(succ[b])}
    OBVIOUS
<1>1. /\ \A y \in ReachedWithout(b, NoBlock) : y \in Reached(f)
      /\ \A c \in Range(succ[b]) : c \in Reached(f)
      /\ \A T : b \in T /\ (\A y \in T \cap ReachedWithout(b, NoBlock) : Range(succ[y]) \subseteq T)
                   => ReachedWithout(b, NoBlock) \subseteq T
    BY WaysFacts, ReachedFacts DEF Graph
<1>2. \A c \in Range(succ[b]) : /\ c \in ReachedWithout(c, NoBlock)
                                /\ \A y \in ReachedWithout(c, NoBlock) :
                                       Range(succ[y]) \subseteq ReachedWithout(c, NoBlock)
    BY <1>1, WaysFacts
<1>3. \A y : y \in S <=> y = b \/ \E c \in Range(succ[b]) : y \in ReachedWithout(c, NoBlock)
    OBVIOUS
<1>4. ASSUME NEW y \in S, NEW z \in Range(succ[y])
      PROVE  z \in S
    BY <1>2, <1>3
<1>5. ReachedWithout(b, NoBlock) \subseteq S
    BY <1>1, <1>3, <1>4
<1>6. QED
    BY <1>3, <1>5

\* A path between two blocks ends with an edge from a block on it.
LEMMA LastStep ==
    ASSUME Graph, NEW f \in DOMAIN functions, NEW b \in Reached(f), NEW x \in ReachedWithout(b, NoBlock), x # b
    PROVE  \E p \in ReachedWithout(b, x) : x \in Range(succ[p]) /\ p \in ReachedWithout(b, NoBlock)
<1> PICK W, S : W = ReachedWithout(b, NoBlock) /\ S = ReachedWithout(b, x)
    OBVIOUS
<1>1. /\ b \in W /\ \A y \in W : Range(succ[y]) \subseteq W
      /\ \A T : b \in T /\ (\A y \in T \cap W : Range(succ[y]) \subseteq T) => W \subseteq T
    BY WaysFacts
<1>2. FlowGraphTypeOK /\ b \in Blocks
    BY ReachedFacts DEF Graph, GraphInv
<1>3. /\ x \notin S /\ b \in S /\ \A y \in S : Range(succ[y]) \ {x} \subseteq S
      /\ \A T : b \in T /\ (\A y \in T \cap S : Range(succ[y]) \ {x} \subseteq T) => S \subseteq T
    BY <1>2, ReachFacts
<1>4. S \subseteq W
    BY <1>1, <1>3
<1>5. \E p \in S : x \in Range(succ[p])
    BY <1>1, <1>3
<1>6. QED
    BY <1>4, <1>5

\* Ranks have a least element.
LEMMA LeastRank ==
    ASSUME NEW S, S # {}, NEW rank, \A x \in S : rank[x] \in Nat
    PROVE  \E x \in S : \A y \in S : rank[x] <= rank[y]
<1> SUFFICES ASSUME \A x \in S : \E y \in S : rank[y] < rank[x]
             PROVE  FALSE
    OBVIOUS
<1>1. PICK z \in S : rank[z] \in Nat
    OBVIOUS
<1> PICK n \in Nat : n = rank[z]
    BY <1>1
<1> PICK T : T = {m \in 0 .. n : \A y \in S : m <= rank[y]}
    OBVIOUS
<1>2. T \in SUBSET (0 .. n) /\ 0 \in T
    OBVIOUS
<1>3. ASSUME NEW m \in T, m < n
      PROVE  m + 1 \in T
    <2>1. m \in 0 .. n /\ \A y \in S : m <= rank[y] /\ rank[y] \in Nat
        OBVIOUS
    <2>2. \A y \in S : m + 1 <= rank[y]
        BY <2>1
    <2>3. QED
        BY <1>3, <2>1, <2>2
<1>4. n \in T
    BY <1>2, <1>3, IntervalInduction
<1>5. PICK y \in S : rank[y] < n
    OBVIOUS
<1>6. QED
    BY <1>4, <1>5

\* What is in a loop is on a cycle.
LEMMA LoopsOnCycles ==
    ASSUME Graph, NEW f \in DOMAIN functions, Closed(f), NEW h, NEW b, <<h, b>> \in NaturalOf(f)
    PROVE  OnCycle(b)
<1> PICK R, W, V : R = Reached(f) /\ W = ReachedWithout(b, NoBlock) /\ V = ReachedWithout(h, NoBlock)
    OBVIOUS
<1>1. /\ Over(f, h, b) /\ h \in R /\ b \in R
      /\ b = h \/ ReachedWithout(b, h) \cap Latches(f, h) # {}
      /\ Latches(f, h) # {}
    BY NaturalSteps, NaturalFacts, OverFacts
<1>2. /\ R \subseteq Blocks /\ Entry(f) \in R /\ FlowGraphTypeOK
      /\ \A x \in R : \A y \in Range(succ[x]) : y \in R /\ x \in Range(pred[y])
      /\ \A x \in R : \A p \in Range(pred[x]) : x \in Range(succ[p])
      /\ \A S : Entry(f) \in S /\ (\A x \in S \cap R : Range(succ[x]) \subseteq S) => R \subseteq S
    <2>1. EdgesAgree /\ R \subseteq BlocksOf(f)
        BY ReachedFacts DEF Graph, GraphInv
    <2>2. QED
        BY <2>1, ReachedFacts DEF Graph, GraphInv, EdgesAgree, Functions
<1>3. /\ b \in W /\ h \in V /\ W \subseteq R /\ V \subseteq R
      /\ \A x \in W : Range(succ[x]) \subseteq W
      /\ \A x \in V : Range(succ[x]) \subseteq V
    BY <1>1, WaysFacts
<1>4. ASSUME NEW x, Over(f, h, x)
      PROVE  x \in V
    <2> PICK S : S = {y \in R : Over(f, h, y) => y \in V}
        OBVIOUS
    <2>1. Entry(f) \in S
        BY <1>2, <1>3, OverFacts
    <2>2. ASSUME NEW y \in S, NEW z \in Range(succ[y])
          PROVE  z \in S
        <3>1. y \in R /\ z \in R /\ y \in Range(pred[z])
            BY <1>2, <2>2
        <3>2. Over(f, h, z) /\ h # z => Over(f, h, y)
            BY <3>1, OverFacts
        <3>3. Over(f, h, z) => z \in V
            BY <1>3, <2>2, <3>2
        <3>4. QED
            BY <3>1, <3>3
    <2>3. R \subseteq S
        BY <1>2, <2>1, <2>2
    <2>4. QED
        BY <1>4, <2>3, OverFacts
<1>5. PICK p \in Latches(f, h) : p \in W
    <2>1. CASE b = h
        BY <1>1, <1>4, <2>1 DEF Latches
    <2>2. CASE b # h
        <3>1. PICK p \in Latches(f, h) : p \in ReachedWithout(b, h)
            BY <1>1, <2>2
        <3>2. b \in Blocks
            BY <1>1, <1>2
        <3>3. ReachedWithout(b, h) \subseteq W
            BY <1>2, <1>3, <3>2, ReachFacts
        <3>4. QED
            BY <3>1, <3>3
    <2>3. QED
        BY <2>1, <2>2
<1>6. h \in Range(succ[p]) /\ h \in W /\ b \in V
    BY <1>1, <1>2, <1>3, <1>4, <1>5 DEF Latches
<1>7. CASE b # h
    <2>1. PICK c \in Range(succ[b]) : h \in ReachedWithout(c, NoBlock)
        BY <1>1, <1>6, <1>7, FirstStep
    <2>2. c \in R
        BY <1>1, <1>2
    <2>3. b \in ReachedWithout(c, NoBlock)
        BY <1>6, <2>1, <2>2, WaysJoin
    <2>4. QED
        BY <2>3 DEF OnCycle
<1>8. CASE b = h /\ p = h
    BY <1>3, <1>6, <1>8 DEF OnCycle
<1>9. CASE b = h /\ p # h
    <2>1. PICK c \in Range(succ[b]) : p \in ReachedWithout(c, NoBlock)
        BY <1>1, <1>5, <1>9, FirstStep
    <2>2. c \in R
        BY <1>1, <1>2
    <2>3. b \in ReachedWithout(c, NoBlock)
        BY <1>6, <1>9, <2>1, <2>2, WaysFacts
    <2>4. QED
        BY <2>3 DEF OnCycle
<1>10. QED
    BY <1>7, <1>8, <1>9

\* What is on a cycle is in a loop, if the flow graph can be reduced: the
\* first block of the cycles around b is the header of a loop.
LEMMA CyclesInLoops ==
    ASSUME Graph, NEW f \in DOMAIN functions, NEW rank, Reducible(f, rank), NEW b \in Reached(f), OnCycle(b)
    PROVE  \E h : <<h, b>> \in NaturalOf(f)
<1> DEFINE W(x) == ReachedWithout(x, NoBlock)
<1> PICK R, C : R = Reached(f) /\ C = {x \in W(b) : b \in W(x)}
    OBVIOUS
<1>1. /\ R \subseteq Blocks /\ FlowGraphTypeOK
      /\ \A x \in R : \A y \in Range(succ[x]) : y \in R /\ x \in Range(pred[y])
    <2>1. EdgesAgree /\ R \subseteq BlocksOf(f)
        BY ReachedFacts DEF Graph, GraphInv
    <2>2. QED
        BY <2>1, ReachedFacts DEF Graph, GraphInv, EdgesAgree, Functions
<1>2. /\ \A x \in R : x \in W(x) /\ W(x) \subseteq R
      /\ \A x \in R : \A y \in W(x) : Range(succ[y]) \subseteq W(x)
      /\ \A x \in R : \A y \in W(x) : W(y) \subseteq W(x)
    BY WaysFacts, WaysJoin
<1>3. PICK c \in Range(succ[b]) : b \in W(c)
    BY DEF OnCycle
<1>4. c \in R /\ c \in W(b)
    BY <1>1, <1>2
<1>5. C \subseteq R /\ c \in C /\ b \in C
    BY <1>2, <1>3, <1>4
<1>6. PICK x \in C : \A y \in C : rank[x] <= rank[y]
    <2>1. \A y \in C : rank[y] \in Nat
        BY <1>1, <1>5 DEF Reducible
    <2>2. QED
        BY <1>5, <2>1, LeastRank
<1>7. x \in R /\ x \in W(b) /\ b \in W(x)
    BY <1>5
<1>8. ASSUME NEW p \in W(b), x \in Range(succ[p])
      PROVE  p \in Latches(f, x)
    <2>1. p \in R /\ p \in Range(pred[x])
        BY <1>1, <1>2, <1>8
    <2>2. b \in W(p)
        <3>1. x \in W(p)
            BY <1>2, <1>8, <2>1
        <3>2. QED
            BY <1>2, <1>7, <2>1, <3>1
    <2>3. rank[x] <= rank[p] /\ rank[x] \in Nat /\ rank[p] \in Nat
        BY <1>1, <1>6, <1>7, <2>1, <2>2 DEF Reducible
    <2>4. rank[p] < rank[x] \/ Over(f, x, p)
        BY <1>7, <2>1 DEF Reducible
    <2>5. QED
        BY <2>1, <2>3, <2>4 DEF Latches
<1>9. CASE x = b
    <2>1. \E p \in W(b) : b \in Range(succ[p])
        <3>1. CASE c = b
            BY <1>2, <1>3, <3>1
        <3>2. CASE c # b
            <4>1. \E p \in W(c) : b \in Range(succ[p])
                BY <1>3, <1>4, <3>2, LastStep
            <4>2. W(c) \subseteq W(b)
                BY <1>2, <1>4
            <4>3. QED
                BY <4>1, <4>2
        <3>3. QED
            BY <3>1, <3>2
    <2>2. Latches(f, b) # {}
        BY <1>8, <1>9, <2>1
    <2>3. <<b, b>> \in NaturalOf(f)
        BY <2>2, NaturalFacts
    <2>4. QED
        BY <2>3
<1>10. CASE x # b
    <2>1. PICK p \in ReachedWithout(b, x) : x \in Range(succ[p]) /\ p \in W(b)
        BY <1>7, <1>10, LastStep
    <2>2. p \in Latches(f, x)
        BY <1>8, <2>1
    <2>3. <<x, b>> \in NaturalOf(f)
        BY <1>7, <2>1, <2>2, NaturalFacts
    <2>4. QED
        BY <2>3
<1>11. QED
    BY <1>9, <1>10

\* The innermost loop, of those in M with headers in H, is unique.
LEMMA InnermostFacts ==
    ASSUME NEW N, NEW R, NEW prd, Forest(N, R, prd), NEW H, NEW M, M \subseteq N,
           \A g, b : <<g, b>> \in M <=> g \in H /\ <<g, b>> \in N,
           NEW b, NEW l, Inner(N, H, b, l), NoBlock \notin H
    PROVE  Innermost(M, b) = l
<1> PICK A : A = {p[1] : p \in {q \in M : q[2] = b}}
    OBVIOUS
<1>1. M \subseteq R \X R
    BY DEF Forest
<1>2. \A g : g \in A <=> g \in H /\ <<g, b>> \in N
    <2>1. ASSUME NEW g \in A
          PROVE  <<g, b>> \in M
        BY <1>1
    <2>2. ASSUME NEW g, <<g, b>> \in M
          PROVE  g \in A
        <3>1. <<g, b>>[1] = g /\ <<g, b>>[2] = b
            OBVIOUS
        <3>2. QED
            BY <2>2, <3>1
    <2>3. QED
        BY <2>1, <2>2
<1>3. CASE l = NoBlock
    <2>1. A = {}
        BY <1>2, <1>3 DEF Inner
    <2>2. QED
        BY <1>3, <2>1 DEF Innermost
<1>4. CASE l # NoBlock
    <2>1. l \in A /\ \A g \in A : <<g, l>> \in M
        BY <1>2, <1>4 DEF Inner
    <2>2. ASSUME NEW h \in A, \A g \in A : <<g, h>> \in M
          PROVE  h = l
        <3>1. <<l, h>> \in N /\ <<h, l>> \in N
            BY <2>1, <2>2
        <3>2. QED
            BY <3>1 DEF Forest
    <2>3. (CHOOSE h \in A : \A g \in A : <<g, h>> \in M) = l
        BY <2>1, <2>2
    <2>4. A # {}
        BY <2>1
    <2>5. QED
        BY <2>3, <2>4 DEF Innermost
<1>5. QED
    BY <1>3, <1>4

\* What is known when a function is analysed.
LEMMA LoopsExact ==
    ASSUME ProgramInv, AnalysisInv, EntryInv, Numbering, RegionInv, Fronts, Caused, LoopsKnown
    PROVE  LoopNestExact
<1> SUFFICES ASSUME NEW f \in Analysed
             PROVE  LET dom == Dominance(f)
                        headers == LoopHeaders(dom)
                        natural == NaturalLoops(f, dom)
                    IN
                    /\ Range(loops) \cap BlocksOf(f) = headers
                    /\ IsInjective(loops)
                    /\ \A b \in Reached(f) :
                        /\ bbToLoop[b] = Innermost(natural, b)
                        /\ OnCycle(b) = (bbToLoop[b] # NoBlock)
                    /\ \A h \in headers :
                        /\ loopParent[h] = Innermost({p \in natural : p[1] # h}, h)
                        /\ loopBlocks[h] = {b \in Reached(f) : bbToLoop[b] = h}
                        /\ subLoops[h] = {g \in headers : loopParent[g] = h}
    BY DEF LoopNestExact
<1>1. /\ pass = "loops" /\ stage = "done" /\ toVisit = <<>> /\ workList = <<>>
      /\ f \in 1 .. cursor
    BY DEF Analysed, FuncDone
<1>2. Ordered /\ FrontInv /\ CausedInv /\ NestInv
    BY <1>1, OrderedNow DEF Fronts, Caused, LoopsKnown
<1>3. current = cursor /\ cursor \in 0 .. Len(functions) /\ DOMAIN functions = 1 .. Len(functions)
      /\ Len(functions) \in Nat /\ Graph
    BY <1>2, OrderedTypes DEF Ordered, WalkInv, WalkTypeOK
<1>4. f \in DOMAIN functions /\ f \in Walked /\ f \in Mapped /\ (f = current \/ f \in 1 .. current - 1)
    BY <1>1, <1>3 DEF Walked, Mapped
<1>5. Closed(f)
    BY <1>1, <1>2, <1>4 DEF CausedInv, FrontInv
<1> PICK H, N, R : H = LoopHeaders(Dominance(f)) /\ N = NaturalOf(f) /\ R = Reached(f)
    OBVIOUS
<1>6. Forest(N, R, pred)
    BY <1>2, <1>4, <1>5, NaturalForest
<1>7. /\ \A h : h \in H <=> h \in R /\ Latches(f, h) # {}
      /\ \A h, b : <<h, b>> \in N => h \in H
    BY <1>3, <1>4, NaturalFacts
<1>8. H \subseteq R /\ NoBlock \notin R /\ NoBlock \notin H /\ N \subseteq R \X R
    BY <1>6, <1>7 DEF Forest
<1>9. Found(f) = H
    <2>1. Range(toVisit) = {}
        BY <1>1 DEF Range
    <2>2. QED
        BY <1>1, <1>4, <2>1 DEF Found
<1>10. /\ Nest(N, R, H, bbToLoop, loopParent, loopBlocks, subLoops)
       /\ IsInjective(loops) /\ Range(loops) \cap BlocksOf(f) = H
    <2>1. NestNow(f)
        BY <1>2, <1>4 DEF NestInv
    <2>2. QED
        BY <1>1, <1>2, <1>4, <1>9, <2>1 DEF NestNow, NestInv
<1>11. ASSUME NEW b \in R
       PROVE  /\ bbToLoop[b] = Innermost(N, b)
              /\ OnCycle(b) = (bbToLoop[b] # NoBlock)
    <2>1. Inner(N, H, b, bbToLoop[b])
        BY <1>10 DEF Nest
    <2>2. bbToLoop[b] = Innermost(N, b)
        <3>1. \A g, c : <<g, c>> \in N <=> g \in H /\ <<g, c>> \in N
            BY <1>7
        <3>2. QED
            BY <1>6, <1>8, <2>1, <3>1, InnermostFacts
    <2>3. bbToLoop[b] # NoBlock <=> \E h : <<h, b>> \in N
        BY <1>7, <2>1 DEF Inner
    <2>4. OnCycle(b) <=> \E h : <<h, b>> \in N
        <3>1. open = <<>> /\ BuilderInv /\ EntryAlone
            BY <1>1 DEF ProgramInv, EntryInv
        <3>2. PICK rank : Reducible(f, rank)
            BY <1>4, <3>1, ProgramsReduce
        <3>3. QED
            BY <1>3, <1>4, <1>5, <3>2, LoopsOnCycles, CyclesInLoops
    <2>5. OnCycle(b) \in BOOLEAN
        BY DEF OnCycle
    <2>6. QED
        BY <2>2, <2>3, <2>4, <2>5
<1>12. ASSUME NEW h \in H
       PROVE  /\ loopParent[h] = Innermost({p \in N : p[1] # h}, h)
              /\ loopBlocks[h] = {b \in R : bbToLoop[b] = h}
              /\ subLoops[h] = {g \in H : loopParent[g] = h}
    <2> PICK M : M = {p \in N : p[1] # h}
        OBVIOUS
    <2>1. Inner(N, H \ {h}, h, loopParent[h])
        BY <1>10 DEF Nest
    <2>2. M \subseteq N /\ \A g, c : <<g, c>> \in M <=> g \in H \ {h} /\ <<g, c>> \in N
        BY <1>7
    <2>3. Innermost(M, h) = loopParent[h]
        BY <1>6, <1>8, <2>1, <2>2, InnermostFacts
    <2>4. QED
        BY <1>8, <1>10, <2>3 DEF Nest
<1>13. QED
    BY <1>10, <1>11, <1>12 DEF NaturalOf

\* The loops found are the natural loops of every function, each with its
\* blocks, its parent and its sub-loops, for every program: no cycle is
\* overlooked.
THEOREM LoopsFound == Spec => []LoopNestExact
<1>1. Init => AnalysisInv /\ Caused /\ Orders /\ LoopsKnown
    BY DEF Init, AnalysisInv, Caused, Orders, LoopsKnown
<1>2. ProgramInv /\ AnalysisInv /\ [Next]_vars => AnalysisInv'
    BY AnalysisStep
<1>3. ProgramInv /\ AnalysisInv /\ EntryInv /\ Numbering /\ RegionInv /\ Edges /\ Sweeps /\ Fronts
         /\ Caused /\ [Next]_vars => Caused'
    BY CausedStep
<1>4. ProgramInv /\ AnalysisInv /\ EntryInv /\ Numbering /\ Sweeps /\ Fronts /\ Trees /\ Orders
         /\ [Next]_vars => Orders'
    BY OrdersStep
<1>5. ProgramInv /\ AnalysisInv /\ EntryInv /\ Numbering /\ Sweeps /\ Fronts /\ Trees /\ Caused
         /\ Orders /\ LoopsKnown /\ [Next]_vars => LoopsKnown'
    BY LoopsKnownStep
<1>6. ProgramInv /\ AnalysisInv /\ EntryInv /\ Numbering /\ RegionInv /\ Fronts /\ Caused /\ LoopsKnown
         => LoopNestExact
    BY LoopsExact
<1>7. QED
    BY <1>1, <1>2, <1>3, <1>4, <1>5, <1>6, ProgramInvariant, EntryInvariant, NumberingHolds,
       RegionsHold, EdgesHold, SweepsHold, FrontsHold, TreesHold, PTL DEF Spec
=============================================================================
