---------------------------- MODULE RegionProofs ----------------------------
(***************************************************************************)
(* The flow graphs of programs are reducible: every loop is entered at its *)
(* header, and without the edges that lead back to headers no path comes   *)
(* back to where it was.  Hence the sweeps of create_idom never start from *)
(* a predecessor that has no dominator yet.                                *)
(***************************************************************************)
EXTENDS DominatorsProofs

\* The blocks that have been the insert block.
Begun == ended \cup (IF open = <<>> THEN {} ELSE {insert})

\* In what follows rank numbers the blocks in the order they were begun, and
\* body[h] holds the blocks of the loop with header h, h included.

\* An edge goes on to a block begun later, or back to the header of a loop.
GoesOn(rank, body) ==
    \A b \in Begun : \A u \in Range(pred[b]) : rank[u] < rank[b] \/ u \in body[b]

\* A loop is entered at its header.
SingleEntry(body) ==
    \A h \in Blocks : \A b \in body[h] \ {h} : Range(pred[b]) \subseteq body[h]

EntryOutside(body) ==
    \A f \in DOMAIN functions : \A h \in Blocks : Entry(f) \notin body[h]

\* The edges that go back to a header were added after those that enter it.
LatchesLast(body) ==
    \A b \in Blocks : \A i, j \in 1 .. Len(pred[b]) :
        i < j /\ pred[b][i] \in body[b] => pred[b][j] \in body[b]

HeadersBegun(body) == \A b \in Blocks : body[b] # {} => b \in Begun

Regions(n, rank, body) ==
    /\ rank \in [Blocks -> 0 .. n] /\ body \in [Blocks -> SUBSET Blocks]
    /\ \A b \in Blocks : Range(pred[b]) \subseteq ended
    /\ GoesOn(rank, body) /\ SingleEntry(body) /\ EntryOutside(body)
    /\ LatchesLast(body) /\ HeadersBegun(body)

\* What k new blocks in the loops H, the last one begun, or a new loop, make
\* of rank and body.
Raised(rank, n, k, ins) ==
    [b \in 1 .. Len(succ) + k |->
        IF b = ins /\ ins \notin Begun THEN n + 1 ELSE IF b \in Blocks THEN rank[b] ELSE 0]

Widened(body, k, H, new) ==
    [h \in 1 .. Len(succ) + k |->
        IF h \in Blocks THEN body[h] \cup (IF h \in H THEN New(k) ELSE {})
        ELSE IF h = new THEN {new, new + 1} ELSE {}]

\* The predecessors of a block once there are k more.
OldPred(b) == IF b \in Blocks THEN pred[b] ELSE <<>>

LEMMA OldPredFacts ==
    ASSUME FlowGraphTypeOK, NEW b
    PROVE  /\ OldPred(b) \in Seq(Blocks)
           /\ b \notin Blocks => OldPred(b) = <<>> /\ Range(OldPred(b)) = {}
           /\ b \in Blocks => OldPred(b) = pred[b]
<1>1. CASE b \in Blocks
    BY <1>1, ListFacts DEF OldPred
<1>2. CASE b \notin Blocks
    <2>1. OldPred(b) = <<>> /\ <<>> \in Seq(Blocks)
        BY <1>2 DEF OldPred
    <2>2. Range(<<>>) = {}
        BY DEF Range
    <2>3. QED
        BY <1>2, <2>1, <2>2
<1>3. QED
    BY <1>1, <1>2

\* What a branch from one block to the blocks T does to the lists of
\* predecessors.
Branched(k, from, T) ==
    \A b \in Blocks' : pred'[b] = IF b \in T THEN Append(OldPred(b), from) ELSE OldPred(b)

LEMMA BranchedFacts ==
    ASSUME FlowGraphTypeOK, NEW k \in Nat, Len(succ') = Len(succ) + k,
           NEW from \in Blocks', NEW T \in SUBSET Blocks', Branched(k, from, T)
    PROVE  /\ Blocks' = Blocks \cup New(k) /\ Blocks \cap New(k) = {} /\ NoBlock \notin Blocks'
           /\ \A b \in Blocks' : Range(pred'[b]) = Range(OldPred(b)) \cup (IF b \in T THEN {from} ELSE {})
           /\ \A b \in Blocks' \ T : pred'[b] = OldPred(b)
           /\ \A b \in T : /\ Len(pred'[b]) = Len(OldPred(b)) + 1
                           /\ pred'[b][Len(OldPred(b)) + 1] = from
                           /\ \A i \in 1 .. Len(OldPred(b)) : pred'[b][i] = OldPred(b)[i]
<1>1. Blocks' = Blocks \cup New(k) /\ Blocks \cap New(k) = {} /\ NoBlock \notin Blocks'
    <2>1. Len(succ) \in Nat
        BY ListFacts
    <2>2. QED
        BY <2>1 DEF Blocks, New, NoBlock
<1>2. ASSUME NEW b \in Blocks'
      PROVE  /\ Range(pred'[b]) = Range(OldPred(b)) \cup (IF b \in T THEN {from} ELSE {})
             /\ b \notin T => pred'[b] = OldPred(b)
             /\ b \in T => /\ Len(pred'[b]) = Len(OldPred(b)) + 1
                           /\ pred'[b][Len(OldPred(b)) + 1] = from
                           /\ \A i \in 1 .. Len(OldPred(b)) : pred'[b][i] = OldPred(b)[i]
    <2>1. OldPred(b) \in Seq(Blocks)
        BY OldPredFacts
    <2>2. pred'[b] = IF b \in T THEN Append(OldPred(b), from) ELSE OldPred(b)
        BY DEF Branched
    <2>3. OldPred(b) \in Seq(Blocks')
        BY <1>1, <2>1, SeqFacts
    <2>4. Range(Append(OldPred(b), from)) = Range(OldPred(b)) \cup {from}
        BY <2>3, RangeFacts
    <2>5. QED
        BY <2>1, <2>2, <2>4
<1>3. QED
    BY <1>1, <1>2

\* A step that adds k blocks and a branch to the blocks T, and begins a block,
\* extends rank and body: a target that was begun is the header of a loop the
\* branch is in, and loops are entered nowhere else.
LEMMA RegionsGrow ==
    ASSUME FlowGraphTypeOK, Begun \subseteq Blocks, NEW n \in Nat, NEW rank, NEW body, Regions(n, rank, body),
           NEW k \in Nat, Len(succ') = Len(succ) + k,
           NEW from \in Blocks', NEW T \in SUBSET Blocks', Branched(k, from, T),
           T # {} => from \in Begun /\ from \in ended',
           ended \subseteq ended', ended' \subseteq Begun,
           NEW ins \in Blocks', Begun' = Begun \cup {ins},
           NEW H \in SUBSET Begun, NEW new, new = NoBlock \/ new = Len(succ) + 1,
           new # NoBlock => k >= 2 /\ new + 1 \notin T /\ ins = new,
           \A f \in DOMAIN functions' :
               \/ f \in DOMAIN functions /\ Entry(f)' = Entry(f) /\ Entry(f) \in Blocks
               \/ Entry(f)' \notin Blocks /\ H = {} /\ new = NoBlock,
           T # {} => \A h \in H : from \in body[h],
           \A b \in T \cap Blocks : \A h \in Blocks \ {b} : b \in body[h] => from \in body[h],
           \A b \in T \cap Begun : from \in body[b],
           NEW rank2, rank2 = Raised(rank, n, k, ins),
           NEW body2, body2 = Widened(body, k, H, new)
    PROVE  Regions(n + 1, rank2, body2)'
<1>1. /\ Blocks' = Blocks \cup New(k) /\ Blocks \cap New(k) = {} /\ NoBlock \notin Blocks'
      /\ Blocks' = 1 .. Len(succ) + k /\ Len(succ) \in Nat
      /\ \A b \in Blocks' : Range(pred'[b]) = Range(OldPred(b)) \cup (IF b \in T THEN {from} ELSE {})
    BY BranchedFacts, ListFacts DEF Blocks
<1>2. rank \in [Blocks -> 0 .. n] /\ body \in [Blocks -> SUBSET Blocks]
      /\ \A b \in Blocks : Range(pred[b]) \subseteq ended
    BY DEF Regions
<1>3. \A b \in Blocks' : Range(OldPred(b)) \subseteq ended /\ (b \notin Blocks => Range(OldPred(b)) = {})
                         /\ (b \in Blocks => OldPred(b) = pred[b])
    <2>1. \A b \in Blocks' : /\ b \notin Blocks => Range(OldPred(b)) = {}
                             /\ b \in Blocks => OldPred(b) = pred[b]
        BY OldPredFacts
    <2>2. QED
        BY <1>2, <2>1
<1>4. /\ rank2 \in [Blocks' -> 0 .. n + 1]
      /\ \A b \in Blocks : b \in Begun \/ b # ins => rank2[b] = rank[b]
      /\ ins \notin Begun => rank2[ins] = n + 1
    BY <1>1, <1>2 DEF Raised
<1>5. /\ body2 \in [Blocks' -> SUBSET Blocks']
      /\ \A h \in Blocks : body2[h] = body[h] \cup (IF h \in H THEN New(k) ELSE {})
      /\ \A h \in New(k) : body2[h] = IF h = new THEN {new, new + 1} ELSE {}
    <2>1. new # NoBlock => {new, new + 1} \subseteq New(k)
        BY <1>1 DEF New
    <2>2. \A h \in New(k) : h \notin Blocks /\ h # NoBlock
        BY <1>1
    <2>3. body2 = [h \in Blocks' |->
                     IF h \in Blocks THEN body[h] \cup (IF h \in H THEN New(k) ELSE {})
                     ELSE IF h = new THEN {new, new + 1} ELSE {}]
        BY <1>1 DEF Widened
    <2>4. ASSUME NEW h \in Blocks' PROVE body2[h] \subseteq Blocks'
        <3>1. CASE h \in Blocks
            BY <1>1, <1>2, <2>3, <3>1
        <3>2. CASE h \notin Blocks
            BY <1>1, <2>1, <2>3, <3>2
        <3>3. QED
            BY <3>1, <3>2
    <2>5. QED
        BY <1>1, <2>2, <2>3, <2>4
<1>6. \A b \in Blocks' : Range(pred'[b]) \subseteq ended'
    <2>1. ASSUME NEW b \in Blocks' PROVE Range(pred'[b]) \subseteq ended'
        <3>1. b \notin T => Range(pred'[b]) = Range(OldPred(b))
            BY <1>1
        <3>2. b \in T => Range(pred'[b]) = Range(OldPred(b)) \cup {from} /\ from \in ended'
            BY <1>1
        <3>3. QED
            BY <1>3, <3>1, <3>2
    <2>2. QED
        BY <2>1
<1>7. GoesOn(rank2, body2)'
    <2>1. ASSUME NEW b \in Begun', NEW u \in Range(pred'[b])
          PROVE  rank2[u] < rank2[b] \/ u \in body2[b]
        <3>1. b \in Blocks' /\ u \in Begun /\ u \in Blocks
            BY <1>1, <1>6, <2>1
        <3>2. CASE b \notin Begun
            <4>1. b = ins /\ rank2[b] = n + 1 /\ rank2[u] = rank[u]
                BY <1>4, <3>1, <3>2
            <4>2. rank[u] <= n /\ rank[u] \in Int
                BY <1>2, <3>1
            <4>3. QED
                BY <4>1, <4>2
        <3>3. CASE b \in Begun
            <4>1. rank2[b] = rank[b] /\ rank2[u] = rank[u] /\ body[b] \subseteq body2[b]
                BY <1>4, <1>5, <3>1, <3>3
            <4>2. u \in Range(pred[b]) \/ (b \in T /\ u = from)
                BY <1>1, <1>3, <3>3
            <4>3. QED
                BY <3>3, <4>1, <4>2 DEF Regions, GoesOn
        <3>4. QED
            BY <3>2, <3>3
    <2>2. QED
        BY <2>1 DEF GoesOn
<1>8. SingleEntry(body2)'
    <2>1. ASSUME NEW h \in Blocks', NEW b \in body2[h] \ {h}, NEW u \in Range(pred'[b])
          PROVE  u \in body2[h]
        <3>1. b \in Blocks' /\ (u \in Range(OldPred(b)) \/ (b \in T /\ u = from))
            BY <1>1, <1>5
        <3>2. CASE h \in Blocks /\ b \in Blocks
            <4>1. b \in body[h] /\ body[h] \subseteq body2[h]
                BY <1>1, <1>5, <3>2
            <4>2. CASE u \in Range(OldPred(b))
                BY <1>3, <3>1, <3>2, <4>1, <4>2 DEF Regions, SingleEntry
            <4>3. CASE b \in T /\ u = from
                BY <3>2, <4>1, <4>3
            <4>4. QED
                BY <3>1, <4>2, <4>3
        <3>3. CASE h \in Blocks /\ b \notin Blocks
            <4>1. h \in H /\ b \in T /\ u = from
                BY <1>2, <1>3, <1>5, <3>1, <3>3
            <4>2. QED
                BY <1>5, <3>3, <4>1
        <3>4. CASE h \notin Blocks
            <4>1. h \in New(k) /\ h = new /\ b = new + 1
                BY <1>1, <1>5, <3>4
            <4>2. b \notin Blocks /\ b \notin T
                <5>1. new # NoBlock
                    BY <1>1, <4>1
                <5>2. QED
                    BY <1>1, <4>1, <5>1 DEF Blocks, NoBlock
            <4>3. QED
                BY <1>3, <3>1, <4>2
        <3>5. QED
            BY <3>2, <3>3, <3>4
    <2>2. QED
        BY <2>1 DEF SingleEntry
<1>9. EntryOutside(body2)'
    <2>1. ASSUME NEW f \in DOMAIN functions', NEW h \in Blocks', Entry(f)' \in body2[h]
          PROVE  FALSE
        <3>1. CASE f \in DOMAIN functions /\ Entry(f)' = Entry(f) /\ Entry(f) \in Blocks
            <4>1. h \notin Blocks => body2[h] \subseteq {new, new + 1} /\ (body2[h] # {} => new # NoBlock)
                BY <1>1, <1>5
            <4>2. h \in Blocks
                BY <1>1, <2>1, <3>1, <4>1 DEF Blocks, NoBlock
            <4>3. Entry(f) \in body[h]
                BY <1>1, <1>5, <2>1, <3>1, <4>2
            <4>4. QED
                BY <3>1, <4>2, <4>3 DEF Regions, EntryOutside
        <3>2. CASE Entry(f)' \notin Blocks /\ H = {} /\ new = NoBlock
            BY <1>1, <1>2, <1>5, <2>1, <3>2
        <3>3. QED
            BY <3>1, <3>2
    <2>2. QED
        BY <2>1 DEF EntryOutside
<1>10. \A b \in Blocks' : body2[b] # {} => b \in Begun'
    <2>1. \A b \in Blocks : body[b] # {} => b \in Begun
        BY DEF Regions, HeadersBegun
    <2>2. \A b \in New(k) : body2[b] # {} => b = new /\ new # NoBlock
        BY <1>1, <1>5
    <2>3. QED
        BY <1>1, <1>5, <2>1, <2>2
<1>11. LatchesLast(body2)'
    <2>1. ASSUME NEW b \in Blocks', NEW i \in 1 .. Len(pred'[b]), NEW j \in 1 .. Len(pred'[b]),
                 i < j, pred'[b][i] \in body2[b]
          PROVE  pred'[b][j] \in body2[b]
        <3>1. /\ OldPred(b) \in Seq(Blocks) /\ Len(OldPred(b)) \in Nat
              /\ b \notin T => pred'[b] = OldPred(b)
              /\ b \in T => /\ Len(pred'[b]) = Len(OldPred(b)) + 1
                           /\ pred'[b][Len(OldPred(b)) + 1] = from
                           /\ \A m \in 1 .. Len(OldPred(b)) : pred'[b][m] = OldPred(b)[m]
            BY BranchedFacts, OldPredFacts, SeqFacts
        <3>2. i \in 1 .. Len(OldPred(b)) /\ pred'[b][i] = OldPred(b)[i]
            BY <2>1, <3>1
        <3>3. b \in Blocks /\ OldPred(b) = pred[b]
            <4>1. b \notin Blocks => OldPred(b) = <<>>
                BY OldPredFacts
            <4>2. QED
                BY <1>3, <3>2, <4>1
        <3>4. pred[b][i] \in body[b]
            <4>1. pred[b][i] \in Blocks /\ pred[b][i] \notin New(k)
                BY <1>1, <3>1, <3>2, <3>3
            <4>2. QED
                BY <1>5, <2>1, <3>2, <3>3, <4>1
        <3>5. body[b] \subseteq body2[b]
            BY <1>5, <3>3
        <3>6. CASE j \in 1 .. Len(OldPred(b))
            <4>1. pred[b][j] \in body[b]
                BY <2>1, <3>2, <3>3, <3>4, <3>6 DEF Regions, LatchesLast
            <4>2. pred'[b][j] = pred[b][j]
                BY <3>1, <3>3, <3>6
            <4>3. QED
                BY <3>5, <4>1, <4>2
        <3>7. CASE j \notin 1 .. Len(OldPred(b))
            <4>1. b \in T /\ pred'[b][j] = from
                BY <3>1, <3>7
            <4>2. b \in Begun
                BY <3>3, <3>4 DEF Regions, HeadersBegun
            <4>3. QED
                BY <3>5, <4>1, <4>2
        <3>8. QED
            BY <3>6, <3>7
    <2>2. QED
        BY <2>1 DEF LatchesLast
<1>12. QED
    BY <1>4, <1>5, <1>6, <1>7, <1>8, <1>9, <1>10, <1>11 DEF Regions, HeadersBegun

-----------------------------------------------------------------------------
\* The headers of the loops among the first m visits.
Heads(o, m) == {o[j].join : j \in {i \in 1 .. m : o[i].kind \in Loops}}

\* The blocks the i-th visit knows are in the loops around it, and in its own
\* if it is a loop, and in no other.
FrameFits(body, o, i) ==
    /\ \A b \in BlocksIn(o[i]) : \A h \in Blocks :
        /\ b \in body[h] => h \in Heads(o, i)
        /\ h \in Heads(o, i - 1) => b \in body[h]
    /\ o[i].kind \in Loops => /\ o[i].begin \in body[o[i].join]
                              /\ o[i].join \in body[o[i].join]
    /\ o[i].kind \in {"if", "then"} => o[i].join = o[i].end

Framed(body) ==
    /\ open # <<>> => \A h \in Heads(open, Len(open)) : insert \in body[h]
    /\ \A i \in DOMAIN open : FrameFits(body, open, i)

LEMMA HeadsFacts ==
    ASSUME NEW o, NEW m \in Nat
    PROVE  /\ Heads(o, 0) = {}
           /\ Heads(o, m + 1) = Heads(o, m) \cup (IF o[m + 1].kind \in Loops THEN {o[m + 1].join} ELSE {})
           /\ m # 0 => Heads(o, m) = Heads(o, m - 1) \cup (IF o[m].kind \in Loops THEN {o[m].join} ELSE {})
           /\ \A j \in 0 .. m : Heads(o, j) \subseteq Heads(o, m)
           /\ \A p : (\A i \in 1 .. m : p[i] = o[i]) => Heads(p, m) = Heads(o, m)
<1>1. Heads(o, 0) = {}
    BY DEF Heads
<1>2. 1 .. m + 1 = 1 .. m \cup {m + 1}
    OBVIOUS
<1>3. Heads(o, m + 1) = Heads(o, m) \cup (IF o[m + 1].kind \in Loops THEN {o[m + 1].join} ELSE {})
    BY <1>2 DEF Heads
<1>4. ASSUME NEW j \in 0 .. m PROVE Heads(o, j) \subseteq Heads(o, m)
    <2>1. 1 .. j \subseteq 1 .. m
        OBVIOUS
    <2>2. QED
        BY <2>1 DEF Heads
<1>5. ASSUME NEW p, \A i \in 1 .. m : p[i] = o[i] PROVE Heads(p, m) = Heads(o, m)
    BY <1>5 DEF Heads
<1>6. ASSUME m # 0
      PROVE  Heads(o, m) = Heads(o, m - 1) \cup (IF o[m].kind \in Loops THEN {o[m].join} ELSE {})
    <2>1. 1 .. m = 1 .. m - 1 \cup {m}
        BY <1>6
    <2>2. QED
        BY <2>1 DEF Heads
<1>7. QED
    BY <1>1, <1>3, <1>4, <1>5, <1>6

\* The headers of open loops are blocks that were begun.
LEMMA HeadsHere ==
    ASSUME BuilderInv, open # <<>>
    PROVE  /\ \A i \in 0 .. Len(open) : Heads(open, i) \subseteq Blocks
           /\ \A i \in 1 .. Len(open) : BlocksIn(open[i]) \subseteq Blocks
           /\ \A n, rank, body : Regions(n, rank, body) /\ Framed(body) =>
                  Heads(open, Len(open)) \subseteq Begun
<1>1. /\ \A i \in 1 .. Len(open) : BlocksIn(open[i]) \subseteq Blocks
      /\ Len(open) \in Nat \ {0} /\ DOMAIN open = 1 .. Len(open)
    BY TopFacts
<1>2. \A i \in 1 .. Len(open) : open[i].kind \in Loops => open[i].join \in BlocksIn(open[i])
    BY DEF BlocksIn, Loops, Branching, Bodies, Logic
<1>3. \A h \in Heads(open, Len(open)) :
         \E i \in 1 .. Len(open) : open[i].kind \in Loops /\ h = open[i].join /\ h \in Blocks
    BY <1>1, <1>2 DEF Heads
<1>4. Heads(open, Len(open)) \subseteq Blocks
    BY <1>3
<1>5. ASSUME NEW n, NEW rank, NEW body, Regions(n, rank, body), Framed(body),
             NEW h \in Heads(open, Len(open))
      PROVE  h \in Begun
    <2>1. PICK i \in 1 .. Len(open) : open[i].kind \in Loops /\ h = open[i].join /\ h \in Blocks
        BY <1>3
    <2>2. FrameFits(body, open, i)
        BY <1>1, <1>5 DEF Framed
    <2>3. body[h] # {}
        BY <2>1, <2>2 DEF FrameFits
    <2>4. QED
        BY <1>5, <2>1, <2>3 DEF Regions, HeadersBegun
<1>6. QED
    BY <1>1, <1>4, <1>5, HeadsFacts

\* Which blocks are in which loops once there are k more.
Widens(body2, body, k, H, new) ==
    /\ Blocks' = Blocks \cup New(k) /\ Blocks \cap New(k) = {}
    /\ \A b \in Blocks : \A h \in Blocks : b \in body2[h] <=> b \in body[h]
    /\ \A b \in Blocks : \A h \in New(k) : b \notin body2[h]
    /\ \A b \in New(k) : \A h \in Blocks : b \in body2[h] <=> h \in H
    /\ \A b \in New(k) : \A h \in New(k) : b \in body2[h] <=> (h = new /\ b \in {new, new + 1})

LEMMA WidenedFacts ==
    ASSUME Len(succ) \in Nat, NEW k \in Nat, Len(succ') = Len(succ) + k,
           NEW body \in [Blocks -> SUBSET Blocks],
           NEW H \in SUBSET Blocks, NEW new, new = NoBlock \/ new = Len(succ) + 1,
           NEW body2, body2 = Widened(body, k, H, new)
    PROVE  Widens(body2, body, k, H, new)
<1>1. Blocks' = Blocks \cup New(k) /\ Blocks \cap New(k) = {} /\ Blocks' = 1 .. Len(succ) + k
    BY DEF Blocks, New
<1>2. \A h \in Blocks : body2[h] = body[h] \cup (IF h \in H THEN New(k) ELSE {})
    BY <1>1 DEF Widened
<1>3. \A h \in New(k) : body2[h] = IF h = new THEN {new, new + 1} ELSE {}
    BY <1>1 DEF Widened
<1>4. \A h \in New(k) : h = new => new \notin Blocks /\ new + 1 \notin Blocks
    BY DEF New, Blocks, NoBlock
<1>5. QED
    BY <1>1, <1>2, <1>3, <1>4 DEF Widens

\* The visits below keep what they know.
LEMMA FramesBelow ==
    ASSUME BuilderInv, open # <<>>, NEW k \in Nat, Len(succ') = Len(succ) + k,
           NEW body \in [Blocks -> SUBSET Blocks], Framed(body),
           NEW new, new = NoBlock \/ new = Len(succ) + 1,
           NEW body2, body2 = Widened(body, k, Heads(open, Len(open)), new),
           NEW m \in Nat, m <= Len(open), \A i \in 1 .. m : open'[i] = open[i]
    PROVE  /\ \A i \in 0 .. m : Heads(open', i) = Heads(open, i)
           /\ \A i \in 1 .. m : FrameFits(body2, open, i)'
<1>1. /\ \A i \in 0 .. Len(open) : Heads(open, i) \subseteq Blocks
      /\ \A i \in 1 .. Len(open) : BlocksIn(open[i]) \subseteq Blocks
      /\ Len(open) \in Nat \ {0} /\ DOMAIN open = 1 .. Len(open)
    BY HeadsHere, TopFacts
<1>2. Widens(body2, body, k, Heads(open, Len(open)), new)
    <2>1. Len(succ) \in Nat /\ Heads(open, Len(open)) \in SUBSET Blocks
        BY <1>1, TopFacts
    <2>2. QED
        BY <2>1, WidenedFacts
<1>3. ASSUME NEW i \in 0 .. m PROVE Heads(open', i) = Heads(open, i)
    <2>1. \A j \in 1 .. i : open'[j] = open[j]
        OBVIOUS
    <2>2. QED
        BY <2>1, HeadsFacts
<1>4. ASSUME NEW i \in 1 .. m PROVE FrameFits(body2, open, i)'
    <2>1. FrameFits(body, open, i) /\ i \in 1 .. Len(open) /\ i - 1 \in 0 .. m /\ i \in 0 .. m
        BY <1>1 DEF Framed
    <2>2. open'[i] = open[i] /\ Heads(open', i) = Heads(open, i) /\ Heads(open', i - 1) = Heads(open, i - 1)
        BY <1>3, <2>1
    <2>3. BlocksIn(open[i]) \subseteq Blocks /\ Heads(open, i - 1) \subseteq Blocks
        BY <1>1, <2>1
    <2>4. ASSUME NEW b \in BlocksIn(open[i]), NEW h \in Blocks'
          PROVE  /\ b \in body2[h] => h \in Heads(open, i)
                 /\ h \in Heads(open, i - 1) => b \in body2[h]
        BY <1>2, <2>1, <2>3 DEF FrameFits, Widens
    <2>5. ASSUME open[i].kind \in Loops
          PROVE  open[i].begin \in body2[open[i].join] /\ open[i].join \in body2[open[i].join]
        <3>1. {open[i].begin, open[i].join} \subseteq BlocksIn(open[i])
            BY <2>5 DEF BlocksIn, Loops, Branching, Bodies, Logic
        <3>2. QED
            BY <1>2, <2>1, <2>3, <2>5, <3>1 DEF FrameFits, Widens
    <2>6. QED
        BY <2>1, <2>2, <2>4, <2>5 DEF FrameFits
<1>5. QED
    BY <1>3, <1>4

\* A target a visit has ready is to be begun, or the header of an open loop.
Ready(b) ==
    \E i \in 1 .. Len(open) : /\ b \in BlocksIn(open[i])
                              /\ b \in Owed(open[i]) \cup Heads(open, Len(open))

\* What a visit does to the graph: k new blocks, in all open loops, a branch at
\* the insert block to the blocks T, and the next insert block.
Extends(k, T, new) ==
    /\ k \in Nat /\ Len(succ') = Len(succ) + k /\ T \in SUBSET Blocks' /\ Branched(k, insert, T)
    /\ T # {} => insert \in ended'
    /\ ended \subseteq ended' /\ ended' \subseteq ended \cup {insert}
    /\ insert' \in Blocks' /\ Begun' = Begun \cup {insert'}
    /\ new = NoBlock \/ new = Len(succ) + 1
    /\ new # NoBlock => k >= 2 /\ new + 1 \notin T /\ insert' = new
    /\ functions' = functions \/ Create(k)
    /\ \A b \in T \cap Blocks : Ready(b)

LEMMA RegionsExtend ==
    ASSUME BuilderInv, open # <<>>, NEW k, NEW T, NEW new, Extends(k, T, new),
           NEW n \in Nat, NEW rank, NEW body, Regions(n, rank, body), Framed(body),
           NEW rank2, rank2 = Raised(rank, n, k, insert'),
           NEW body2, body2 = Widened(body, k, Heads(open, Len(open)), new)
    PROVE  Regions(n + 1, rank2, body2)'
<1> DEFINE H == Heads(open, Len(open))
<1>1. /\ FlowGraphTypeOK /\ functions # <<>> /\ insert \in Blocks /\ ended \subseteq Blocks
      /\ Len(open) \in Nat \ {0} /\ DOMAIN open = 1 .. Len(open)
    BY TopFacts DEF GraphInv
<1>2. Begun = ended \cup {insert}
    BY DEF Begun
<1>3. H \subseteq Begun /\ H \subseteq Blocks
    <2>1. Len(open) \in 0 .. Len(open)
        BY <1>1
    <2>2. QED
        BY <2>1, HeadsHere
<1>4. body \in [Blocks -> SUBSET Blocks] /\ \A h \in H : insert \in body[h]
    BY DEF Framed, Regions
<1>5. ASSUME NEW b \in T \cap Blocks
      PROVE  /\ \A h \in Blocks \ {b} : b \in body[h] => insert \in body[h]
             /\ b \in Begun => insert \in body[b]
    <2>1. PICK i \in 1 .. Len(open) : /\ b \in BlocksIn(open[i])
                                      /\ b \in Owed(open[i]) \cup H
        BY DEF Extends, Ready
    <2>2. FrameFits(body, open, i)
        BY <1>1 DEF Framed
    <2>3. Heads(open, i) \subseteq H
        <3>1. i \in 0 .. Len(open) /\ Len(open) \in Nat
            BY <1>1
        <3>2. QED
            BY <3>1, HeadsFacts
    <2>4. \A h \in Blocks : b \in body[h] => insert \in body[h]
        BY <1>4, <2>1, <2>2, <2>3 DEF FrameFits
    <2>5. b \in Owed(open[i]) => b \notin Begun
        BY <1>1, <1>2, OwedFacts
    <2>6. QED
        BY <1>4, <2>1, <2>4, <2>5
<1>6. ASSUME NEW f \in DOMAIN functions'
      PROVE  f \in DOMAIN functions /\ Entry(f)' = Entry(f) /\ Entry(f) \in Blocks
    <2>1. CASE functions' = functions
        BY <1>1, <2>1, ListFacts DEF Entry, BlocksOf
    <2>2. CASE Create(k)
        <3>1. k \in Nat
            BY DEF Extends
        <3>2. DOMAIN functions' = DOMAIN functions /\ \A g \in DOMAIN functions : Entry(g)' = Entry(g)
            BY <1>1, <2>2, <3>1, EntriesCreated
        <3>3. QED
            BY <1>1, <3>2, ListFacts
    <2>3. QED
        BY <2>1, <2>2 DEF Extends
<1>7. PICK from, ins, hs : from = insert /\ ins = insert' /\ hs = H
    OBVIOUS
<1>8. /\ Begun \subseteq Blocks /\ k \in Nat /\ Len(succ') = Len(succ) + k /\ from \in Blocks'
      /\ T \in SUBSET Blocks' /\ Branched(k, from, T) /\ ins \in Blocks'
      /\ Begun' = Begun \cup {ins} /\ hs \in SUBSET Begun
      /\ new = NoBlock \/ new = Len(succ) + 1
      /\ new # NoBlock => k >= 2 /\ new + 1 \notin T /\ ins = new
      /\ ended \subseteq ended' /\ ended' \subseteq Begun
      /\ T # {} => from \in Begun /\ from \in ended'
    <2>1. Blocks \subseteq Blocks'
        BY <1>1, ListFacts DEF Extends, Blocks
    <2>2. QED
        BY <1>1, <1>2, <1>3, <1>7, <2>1 DEF Extends
<1>9. /\ T # {} => \A h \in hs : from \in body[h]
      /\ \A b \in T \cap Blocks : \A h \in Blocks \ {b} : b \in body[h] => from \in body[h]
      /\ \A b \in T \cap Begun : from \in body[b]
      /\ rank2 = Raised(rank, n, k, ins) /\ body2 = Widened(body, k, hs, new)
    BY <1>4, <1>5, <1>7, <1>8
<1> HIDE DEF H
<1>10. QED
    BY <1>1, <1>6, <1>8, <1>9, RegionsGrow

\* The next insert block is in the loops that stay open.
LEMMA PopFrames ==
    ASSUME BuilderInv, open # <<>>, NEW k, NEW T, Extends(k, T, NoBlock),
           open' = Front(open), insert' \in {insert} \cup BlocksIn(Top),
           NEW n, NEW rank, NEW body, Regions(n, rank, body), Framed(body),
           NEW body2, body2 = Widened(body, k, Heads(open, Len(open)), NoBlock)
    PROVE  Framed(body2)'
<1>1. /\ Len(open) \in Nat \ {0} /\ DOMAIN open = 1 .. Len(open) /\ Top = open[Len(open)]
      /\ DOMAIN open' = 1 .. Len(open) - 1 /\ \A i \in 1 .. Len(open) - 1 : open'[i] = open[i]
      /\ Len(open') = Len(open) - 1 /\ BlocksIn(Top) \subseteq Blocks /\ insert \in Blocks
      /\ open \in Seq(Visits)
    <2>1. /\ Len(open) \in Nat \ {0} /\ DOMAIN open = 1 .. Len(open) /\ Top = open[Len(open)]
          /\ open \in Seq(Visits) /\ BlocksIn(Top) \subseteq Blocks /\ insert \in Blocks
        BY TopFacts
    <2>2. QED
        BY <2>1, FrontFacts
<1>2. /\ k \in Nat /\ Len(succ') = Len(succ) + k /\ body \in [Blocks -> SUBSET Blocks]
    BY DEF Extends, Regions
<1>3. /\ \A i \in 0 .. Len(open) - 1 : Heads(open', i) = Heads(open, i)
      /\ \A i \in 1 .. Len(open) - 1 : FrameFits(body2, open, i)'
    <2>1. Len(open) - 1 \in Nat /\ Len(open) - 1 <= Len(open)
        BY <1>1
    <2>2. QED
        BY <1>1, <1>2, <2>1, FramesBelow
<1>4. /\ Heads(open, Len(open) - 1) \subseteq Heads(open, Len(open))
      /\ Heads(open, Len(open)) \subseteq Blocks
    <2>1. Len(open) - 1 \in 0 .. Len(open) /\ Len(open) \in 0 .. Len(open)
        BY <1>1
    <2>2. QED
        BY <1>1, <2>1, HeadsFacts, HeadsHere
<1>5. Widens(body2, body, k, Heads(open, Len(open)), NoBlock)
    <2>1. Len(succ) \in Nat /\ Heads(open, Len(open)) \in SUBSET Blocks
        BY <1>4, TopFacts
    <2>2. QED
        BY <1>2, <2>1, WidenedFacts
<1>6. \A h \in Heads(open, Len(open) - 1) : insert' \in body[h]
    <2>1. CASE insert' = insert
        BY <1>4, <2>1 DEF Framed
    <2>2. CASE insert' \in BlocksIn(Top)
        <3>1. FrameFits(body, open, Len(open))
            BY <1>1 DEF Framed
        <3>2. QED
            BY <1>1, <1>4, <2>2, <3>1 DEF FrameFits
    <2>3. QED
        BY <2>1, <2>2
<1>7. \A h \in Heads(open', Len(open')) : insert' \in body2[h]
    <2>1. Heads(open', Len(open')) = Heads(open, Len(open) - 1)
        BY <1>1, <1>3
    <2>2. insert' \in Blocks
        BY <1>1
    <2>3. QED
        BY <1>4, <1>5, <1>6, <2>1, <2>2 DEF Widens
<1>8. QED
    BY <1>1, <1>3, <1>7 DEF Framed

\* A visit turns into another that knows the same blocks, or new ones.
LEMMA TurnFrames ==
    ASSUME BuilderInv, open # <<>>, NEW k, NEW T, Extends(k, T, NoBlock),
           DOMAIN open' = 1 .. Len(open), Len(open') = Len(open),
           \A i \in 1 .. Len(open) - 1 : open'[i] = open[i],
           NEW frame, frame = open'[Len(open)],
           BlocksIn(frame) \subseteq BlocksIn(Top) \cup New(k),
           frame.kind \in Loops <=> Top.kind \in Loops,
           frame.kind \in Loops => frame.begin = Top.begin /\ frame.join = Top.join,
           frame.kind \in {"if", "then"} =>
               /\ Top.kind \in {"if", "then"}
               /\ frame.join = Top.join /\ frame.end = Top.end,
           insert' = insert \/ (insert' \in BlocksIn(Top) /\ (Top.kind \in Loops => insert' = Top.begin)),
           NEW n, NEW rank, NEW body, Regions(n, rank, body), Framed(body),
           NEW body2, body2 = Widened(body, k, Heads(open, Len(open)), NoBlock)
    PROVE  Framed(body2)'
<1> DEFINE l == Len(open)
<1>1. /\ l \in Nat \ {0} /\ DOMAIN open = 1 .. l /\ Top = open[l]
      /\ BlocksIn(Top) \subseteq Blocks /\ insert \in Blocks
    BY TopFacts
<1>2. /\ k \in Nat /\ Len(succ') = Len(succ) + k /\ body \in [Blocks -> SUBSET Blocks]
    BY DEF Extends, Regions
<1>3. /\ \A i \in 0 .. l - 1 : Heads(open', i) = Heads(open, i)
      /\ \A i \in 1 .. l - 1 : FrameFits(body2, open, i)'
    <2>1. l - 1 \in Nat /\ l - 1 <= l
        BY <1>1
    <2>2. QED
        BY <1>1, <1>2, <2>1, FramesBelow
<1>4. /\ Heads(open, l) = Heads(open, l - 1) \cup (IF Top.kind \in Loops THEN {Top.join} ELSE {})
      /\ Heads(open', l) = Heads(open, l)
      /\ Heads(open, l) \subseteq Blocks /\ Heads(open, l - 1) \subseteq Blocks
    <2>1. l \in Nat /\ l # 0 /\ l \in 0 .. l /\ l - 1 \in 0 .. l /\ l - 1 \in 0 .. l - 1
        BY <1>1
    <2>2. /\ Heads(open, l) = Heads(open, l - 1) \cup (IF open[l].kind \in Loops THEN {open[l].join} ELSE {})
          /\ Heads(open', l) = Heads(open', l - 1) \cup (IF open'[l].kind \in Loops THEN {open'[l].join} ELSE {})
        BY <2>1, HeadsFacts
    <2>3. Heads(open', l - 1) = Heads(open, l - 1)
        BY <1>3, <2>1
    <2>4. Heads(open, l) \subseteq Blocks /\ Heads(open, l - 1) \subseteq Blocks
        BY <2>1, HeadsHere
    <2>5. QED
        BY <1>1, <2>2, <2>3, <2>4
<1>5. Widens(body2, body, k, Heads(open, l), NoBlock)
    <2>1. Len(succ) \in Nat /\ Heads(open, l) \in SUBSET Blocks
        BY <1>4, TopFacts
    <2>2. QED
        BY <1>2, <2>1, WidenedFacts
<1>6. /\ \A b \in BlocksIn(Top) : \A h \in Blocks :
            /\ b \in body[h] => h \in Heads(open, l)
            /\ h \in Heads(open, l - 1) => b \in body[h]
      /\ Top.kind \in Loops => Top.begin \in body[Top.join] /\ Top.join \in body[Top.join]
      /\ Top.kind \in {"if", "then"} => Top.join = Top.end
    <2>1. FrameFits(body, open, l)
        BY <1>1 DEF Framed
    <2>2. QED
        BY <1>1, <2>1 DEF FrameFits
<1>7. FrameFits(body2, open, l)'
    <2>1. \A h \in New(k) : h # NoBlock
        BY <1>1, TopFacts DEF New, NoBlock
    <2>2. ASSUME NEW b \in BlocksIn(frame), NEW h \in Blocks'
          PROVE  /\ b \in body2[h] => h \in Heads(open', l)
                 /\ h \in Heads(open', l - 1) => b \in body2[h]
        <3>1. Heads(open', l - 1) = Heads(open, l - 1) /\ Heads(open, l - 1) \subseteq Heads(open, l)
            BY <1>1, <1>3, <1>4
        <3>2. CASE b \in BlocksIn(Top)
            BY <1>1, <1>4, <1>5, <1>6, <3>1, <3>2 DEF Widens
        <3>3. CASE b \in New(k)
            <4>1. h \in Blocks \/ h \in New(k)
                BY <1>5 DEF Widens
            <4>2. CASE h \in Blocks
                BY <1>4, <1>5, <3>1, <3>3, <4>2 DEF Widens
            <4>3. CASE h \in New(k)
                BY <1>4, <1>5, <2>1, <3>1, <3>3, <4>3 DEF Widens
            <4>4. QED
                BY <4>1, <4>2, <4>3
        <3>4. QED
            BY <3>2, <3>3
    <2>3. frame.kind \in Loops => frame.begin \in body2[frame.join] /\ frame.join \in body2[frame.join]
        <3>1. ASSUME Top.kind \in Loops PROVE {Top.begin, Top.join} \subseteq Blocks
            BY <1>1, <3>1 DEF BlocksIn, Loops, Branching, Bodies, Logic
        <3>2. QED
            BY <1>5, <1>6, <3>1 DEF Widens
    <2>4. QED
        BY <1>6, <2>2, <2>3 DEF FrameFits
<1>8. \A h \in Heads(open', l) : insert' \in body2[h]
    <2>1. ASSUME NEW h \in Heads(open, l) PROVE insert' \in body[h]
        <3>1. CASE insert' = insert
            BY <3>1 DEF Framed
        <3>2. CASE insert' \in BlocksIn(Top) /\ (Top.kind \in Loops => insert' = Top.begin)
            <4>1. CASE h \in Heads(open, l - 1)
                BY <1>4, <1>6, <3>2, <4>1
            <4>2. CASE Top.kind \in Loops /\ h = Top.join
                BY <1>6, <3>2, <4>2
            <4>3. QED
                BY <1>4, <4>1, <4>2
        <3>3. QED
            BY <3>1, <3>2
    <2>2. insert' \in Blocks
        BY <1>1
    <2>3. QED
        BY <1>4, <1>5, <2>1, <2>2 DEF Widens
<1>9. QED
    BY <1>1, <1>3, <1>7, <1>8 DEF Framed

\* A visit calls that of a condition: the frame below it knows new blocks only.
Calls(m, k, new) ==
    /\ m = Len(open) \/ (m = Len(open) - 1 /\ Top.kind \notin Loops)
    /\ DOMAIN open' = 1 .. m + 2 /\ Len(open') = m + 2
    /\ \A i \in 1 .. m : open'[i] = open[i]
    /\ BlocksIn(open'[m + 1]) \subseteq New(k)
    /\ open'[m + 1].kind \in Loops <=> new # NoBlock
    /\ open'[m + 1].kind \in Loops => open'[m + 1].begin = new + 1 /\ open'[m + 1].join = new
    /\ open'[m + 1].kind \in {"if", "then"} => open'[m + 1].join = open'[m + 1].end
    /\ BlocksIn(open'[m + 2]) = {} /\ open'[m + 2].kind \notin Loops \cup {"if", "then"}
    /\ insert' \in {insert} \cup New(k)

LEMMA CallFrames ==
    ASSUME BuilderInv, open # <<>>, NEW k, NEW T, NEW new, Extends(k, T, new),
           NEW m \in Nat \ {0}, Calls(m, k, new),
           NEW n, NEW rank, NEW body, Regions(n, rank, body), Framed(body),
           NEW body2, body2 = Widened(body, k, Heads(open, Len(open)), new)
    PROVE  Framed(body2)'
<1> DEFINE l == Len(open)
<1> DEFINE H == Heads(open, l)
<1>1. /\ l \in Nat \ {0} /\ DOMAIN open = 1 .. l /\ Top = open[l]
      /\ BlocksIn(Top) \subseteq Blocks /\ insert \in Blocks /\ Len(succ) \in Nat
    BY TopFacts
<1>2. /\ k \in Nat /\ Len(succ') = Len(succ) + k /\ body \in [Blocks -> SUBSET Blocks]
      /\ new = NoBlock \/ new = Len(succ) + 1
      /\ new # NoBlock => insert' = new
    BY DEF Extends, Regions
<1>3. /\ \A i \in 0 .. m : Heads(open', i) = Heads(open, i)
      /\ \A i \in 1 .. m : FrameFits(body2, open, i)'
    <2>1. m \in Nat /\ \A i \in 1 .. m : open'[i] = open[i]
        BY DEF Calls
    <2>2. m = l \/ m = l - 1
        BY DEF Calls
    <2>3. m <= Len(open)
        <3>1. Len(open) \in Nat
            BY <1>1
        <3>2. QED
            BY <2>2, <3>1
    <2>4. QED
        BY <1>1, <1>2, <2>1, <2>3, FramesBelow
<1>4. H = Heads(open, m) /\ H \subseteq Blocks
    <2>1. l \in Nat /\ l # 0 /\ l \in 0 .. l
        BY <1>1
    <2>2. /\ Heads(open, l) = Heads(open, l - 1) \cup (IF open[l].kind \in Loops THEN {open[l].join} ELSE {})
          /\ Heads(open, l) \subseteq Blocks
        BY <2>1, HeadsFacts, HeadsHere
    <2>3. QED
        BY <1>1, <2>2 DEF Calls
<1>5. /\ Heads(open', m) = H
      /\ Heads(open', m + 1) = H \cup (IF new # NoBlock THEN {new} ELSE {})
      /\ Heads(open', m + 2) = Heads(open', m + 1)
    <2>1. m \in Nat /\ m \in 0 .. m /\ m + 1 \in Nat /\ m + 1 + 1 = m + 2
        OBVIOUS
    <2>2. /\ Heads(open', m + 1) = Heads(open', m) \cup (IF open'[m + 1].kind \in Loops THEN {open'[m + 1].join} ELSE {})
          /\ Heads(open', m + 2) = Heads(open', m + 1) \cup (IF open'[m + 2].kind \in Loops THEN {open'[m + 2].join} ELSE {})
        BY <2>1, HeadsFacts
    <2>3. Heads(open', m) = H
        BY <1>3, <1>4, <2>1
    <2>4. QED
        BY <2>2, <2>3 DEF Calls
<1>6. Widens(body2, body, k, H, new)
    <2>1. H \in SUBSET Blocks
        BY <1>4
    <2>2. QED
        BY <1>1, <1>2, <2>1, WidenedFacts
<1>7. new # NoBlock => {new, new + 1} \subseteq New(k)
    <2>1. new # NoBlock => k >= 2
        BY DEF Extends
    <2>2. QED
        BY <1>1, <1>2, <2>1 DEF New
<1>8. FrameFits(body2, open, m + 1)'
    <2>1. m + 1 - 1 = m
        OBVIOUS
    <2>2. ASSUME NEW b \in BlocksIn(open'[m + 1]), NEW h \in Blocks'
          PROVE  /\ b \in body2[h] => h \in Heads(open', m + 1)
                 /\ h \in Heads(open', m) => b \in body2[h]
        <3>1. b \in New(k)
            BY DEF Calls
        <3>2. \A x \in New(k) : x # NoBlock
            BY <1>1 DEF New, NoBlock
        <3>3. QED
            <4>1. h \in Blocks \/ h \in New(k)
                BY <1>6 DEF Widens
            <4>2. CASE h \in Blocks
                BY <1>4, <1>5, <1>6, <3>1, <4>2 DEF Widens
            <4>3. CASE h \in New(k)
                BY <1>4, <1>5, <1>6, <3>1, <3>2, <4>3 DEF Widens
            <4>4. QED
                BY <4>1, <4>2, <4>3
    <2>3. open'[m + 1].kind \in Loops => /\ open'[m + 1].begin \in body2[open'[m + 1].join]
                                         /\ open'[m + 1].join \in body2[open'[m + 1].join]
        BY <1>6, <1>7 DEF Widens, Calls
    <2>4. open'[m + 1].kind \in {"if", "then"} => open'[m + 1].join = open'[m + 1].end
        BY DEF Calls
    <2>5. QED
        BY <2>1, <2>2, <2>3, <2>4 DEF FrameFits
<1>9. FrameFits(body2, open, m + 2)'
    BY DEF FrameFits, Calls
<1>10. \A h \in Heads(open', m + 2) : insert' \in body2[h]
    <2>1. ASSUME NEW h \in H PROVE insert' \in body2[h]
        <3>1. CASE insert' = insert
            BY <1>1, <1>4, <1>6, <3>1 DEF Framed, Widens
        <3>2. CASE insert' \in New(k)
            BY <1>4, <1>6, <3>2 DEF Widens
        <3>3. QED
            BY <3>1, <3>2 DEF Calls
    <2>2. new # NoBlock => insert' \in body2[new]
        BY <1>2, <1>6, <1>7 DEF Widens
    <2>3. QED
        BY <1>5, <2>1, <2>2
<1>11. QED
    <2> USE DEF Calls
    <2>1. \A i \in 1 .. m + 2 : i \in 1 .. m \/ i = m + 1 \/ i = m + 2
        OBVIOUS
    <2>2. open' # <<>> => \A h \in Heads(open', Len(open')) : insert' \in body2[h]
        BY <1>10
    <2>3. \A i \in DOMAIN open' : FrameFits(body2, open, i)'
        BY <1>3, <1>8, <1>9, <2>1
    <2>4. QED
        BY <2>2, <2>3 DEF Framed

-----------------------------------------------------------------------------
RegionInv == \E n \in Nat : \E rank, body : Regions(n, rank, body) /\ Framed(body)

\* A visit returns, turns into another or stays, or calls another.
LEMMA RegionPop ==
    ASSUME BuilderInv, RegionInv, open # <<>>, NEW k, NEW T, Extends(k, T, NoBlock),
           open' = Front(open), insert' \in {insert} \cup BlocksIn(Top)
    PROVE  RegionInv'
<1>1. PICK n, rank, body : n \in Nat /\ Regions(n, rank, body) /\ Framed(body)
    BY DEF RegionInv
<1>2. PICK rank2, body2 : /\ rank2 = Raised(rank, n, k, insert')
                          /\ body2 = Widened(body, k, Heads(open, Len(open)), NoBlock)
    OBVIOUS
<1>3. Regions(n + 1, rank2, body2)' /\ Framed(body2)'
    BY <1>1, <1>2, RegionsExtend, PopFrames
<1>4. PICK n2 \in Nat : n2 = n + 1
    BY <1>1
<1>5. QED
    BY <1>3, <1>4 DEF RegionInv

LEMMA RegionTurn ==
    ASSUME BuilderInv, RegionInv, open # <<>>, NEW k, NEW T, Extends(k, T, NoBlock),
           DOMAIN open' = 1 .. Len(open), Len(open') = Len(open),
           \A i \in 1 .. Len(open) - 1 : open'[i] = open[i],
           NEW frame, frame = open'[Len(open)],
           BlocksIn(frame) \subseteq BlocksIn(Top) \cup New(k),
           frame.kind \in Loops <=> Top.kind \in Loops,
           frame.kind \in Loops => frame.begin = Top.begin /\ frame.join = Top.join,
           frame.kind \in {"if", "then"} =>
               /\ Top.kind \in {"if", "then"}
               /\ frame.join = Top.join /\ frame.end = Top.end,
           insert' = insert \/ (insert' \in BlocksIn(Top) /\ (Top.kind \in Loops => insert' = Top.begin))
    PROVE  RegionInv'
<1>1. PICK n, rank, body : n \in Nat /\ Regions(n, rank, body) /\ Framed(body)
    BY DEF RegionInv
<1>2. PICK rank2, body2 : /\ rank2 = Raised(rank, n, k, insert')
                          /\ body2 = Widened(body, k, Heads(open, Len(open)), NoBlock)
    OBVIOUS
<1>3. Regions(n + 1, rank2, body2)'
    BY <1>1, <1>2, RegionsExtend
<1>4. Framed(body2)'
    BY <1>1, <1>2, TurnFrames
<1>5. PICK n2 \in Nat : n2 = n + 1
    BY <1>1
<1>6. QED
    BY <1>3, <1>4, <1>5 DEF RegionInv

LEMMA RegionCall ==
    ASSUME BuilderInv, RegionInv, open # <<>>, NEW k, NEW T, NEW new, Extends(k, T, new),
           NEW m \in Nat \ {0}, Calls(m, k, new)
    PROVE  RegionInv'
<1>1. PICK n, rank, body : n \in Nat /\ Regions(n, rank, body) /\ Framed(body)
    BY DEF RegionInv
<1>2. PICK rank2, body2 : /\ rank2 = Raised(rank, n, k, insert')
                          /\ body2 = Widened(body, k, Heads(open, Len(open)), new)
    OBVIOUS
<1>3. Regions(n + 1, rank2, body2)'
    BY <1>1, <1>2, RegionsExtend
<1>4. Framed(body2)'
    BY <1>1, <1>2, CallFrames
<1>5. PICK n2 \in Nat : n2 = n + 1
    BY <1>1
<1>6. QED
    BY <1>3, <1>4, <1>5 DEF RegionInv

\* The branches of the builder in these words.
LEMMA BranchToBranched ==
    ASSUME FlowGraphTypeOK, NEW k \in Nat, NEW from, NEW targets, BranchTo(k, from, targets),
           Len(succ') = Len(succ) + k
    PROVE  Branched(k, from, Range(targets))
<1>1. /\ pred \in Seq(Seq(Blocks)) /\ Len(pred) = Len(succ) /\ Len(succ) \in Nat
      /\ DOMAIN pred = 1 .. Len(succ)
    BY ListFacts DEF FlowGraphTypeOK
<1>2. NoEdges(k) \in Seq(Seq(Blocks)) /\ Len(NoEdges(k)) = k /\ \A i \in 1 .. k : NoEdges(k)[i] = <<>>
    <2>1. NoEdges(k) \in [1 .. k -> Seq(Blocks)] /\ \A i \in 1 .. k : NoEdges(k)[i] = <<>>
        BY DEF NoEdges
    <2>2. QED
        BY <2>1, FunctionIsSeq
<1>3. ASSUME NEW b \in Blocks'
      PROVE  (pred \o NoEdges(k))[b] = OldPred(b)
    <2>1. b \in 1 .. Len(pred) + k
        BY <1>1 DEF Blocks
    <2>2. (pred \o NoEdges(k))[b] = IF b <= Len(pred) THEN pred[b] ELSE NoEdges(k)[b - Len(pred)]
        BY <1>1, <1>2, <2>1, ConcatFacts
    <2>3. CASE b <= Len(pred)
        BY <1>1, <2>1, <2>2, <2>3 DEF OldPred, Blocks
    <2>4. CASE ~(b <= Len(pred))
        <3>1. b - Len(pred) \in 1 .. k /\ b \notin Blocks
            BY <1>1, <2>1, <2>4 DEF Blocks
        <3>2. QED
            BY <1>2, <2>2, <2>4, <3>1 DEF OldPred
    <2>5. QED
        BY <2>3, <2>4
<1>4. Blocks' = 1 .. (Len(pred) + k)
    BY <1>1 DEF Blocks
<1>5. QED
    BY <1>3, <1>4 DEF BranchTo, Branched

LEMMA PlainBranched ==
    ASSUME FlowGraphTypeOK, NEW from
    PROVE  /\ UNCHANGED <<succ, pred>> => Len(succ') = Len(succ) + 0 /\ Branched(0, from, {})
           /\ succ' = Append(succ, <<>>) /\ pred' = Append(pred, <<>>) =>
                  Len(succ') = Len(succ) + 1 /\ Branched(1, from, {})
<1>1. /\ pred \in Seq(Seq(Blocks)) /\ succ \in Seq(Seq(Blocks)) /\ Len(pred) = Len(succ)
      /\ Len(succ) \in Nat /\ <<>> \in Seq(Blocks)
    BY ListFacts DEF FlowGraphTypeOK
<1>2. ASSUME UNCHANGED <<succ, pred>>
      PROVE  Len(succ') = Len(succ) + 0 /\ Branched(0, from, {})
    BY <1>1, <1>2 DEF Branched, OldPred, Blocks
<1>3. ASSUME succ' = Append(succ, <<>>), pred' = Append(pred, <<>>)
      PROVE  Len(succ') = Len(succ) + 1 /\ Branched(1, from, {})
    <2>1. Len(succ') = Len(succ) + 1
        BY <1>1, <1>3
    <2>2. ASSUME NEW b \in Blocks' PROVE pred'[b] = OldPred(b)
        <3>1. b \in 1 .. Len(pred) + 1
            BY <1>1, <2>1 DEF Blocks
        <3>2. CASE b = Len(pred) + 1
            BY <1>1, <1>3, <3>2 DEF OldPred, Blocks
        <3>3. CASE b # Len(pred) + 1
            BY <1>1, <1>3, <3>1, <3>3 DEF OldPred, Blocks
        <3>4. QED
            BY <3>2, <3>3
    <2>3. QED
        BY <2>1, <2>2 DEF Branched
<1>4. QED
    BY <1>2, <1>3

-----------------------------------------------------------------------------
\* The targets in context, and those of the statement on top, are ready.
LEMMA TargetsReady ==
    ASSUME BuilderInv, open # <<>>
    PROVE  /\ Inside(Conditions) => Ready(context.trueBB) /\ Ready(context.falseBB)
           /\ context.iteration_endBB # NoBlock => Ready(context.iteration_endBB)
           /\ context.iteration_condBB # NoBlock => Ready(context.iteration_condBB)
           /\ Top.kind = "then" /\ Top.join = Top.end => Ready(Top.join)
           /\ Top.kind \in {"then_else", "else", "body"} => Ready(Top.join)
<1>1. /\ Len(open) \in Nat \ {0} /\ Top = open[Len(open)] /\ ContextInv
      /\ Len(open) \in 1 .. Len(open)
    BY TopFacts DEF BuilderInv
<1>2. \A k \in 1 .. Len(open) : open[k].kind \in Logic \cup Branching => Ready(open[k].begin)
    BY DEF Ready, BlocksIn, Owed, Logic, Branching
<1>3. \A k \in 1 .. Len(open) : open[k].kind \in Branching \cup Loops => Ready(open[k].end)
    BY DEF Ready, BlocksIn, Owed, Logic, Branching, Bodies, Loops
<1>4. \A k \in 1 .. Len(open) : open[k].kind \in Loops => Ready(open[k].join)
    BY DEF Ready, BlocksIn, Heads, Logic, Branching, Bodies, Loops
<1>5. ASSUME Inside(Conditions)
      PROVE  Ready(context.trueBB) /\ Ready(context.falseBB)
    <2>1. TrueLeads(open, Len(open), context.trueBB) /\ FalseLeads(open, Len(open), context.falseBB)
        BY <1>1, <1>5 DEF ContextInv, Inside
    <2>2. Ready(context.trueBB)
        <3>1. PICK k \in 1 .. Len(open) : /\ Nearest({"and"} \cup Branching, open, Len(open), k)
                                          /\ open[k].begin = context.trueBB
            BY <2>1 DEF TrueLeads
        <3>2. open[k].kind \in Logic \cup Branching
            BY <3>1 DEF Nearest, Logic
        <3>3. QED
            BY <1>2, <3>1, <3>2
    <2>3. Ready(context.falseBB)
        <3>1. PICK k \in 1 .. Len(open) :
                  /\ Nearest({"or"} \cup Branching, open, Len(open), k)
                  /\ context.falseBB = IF open[k].kind = "or" THEN open[k].begin ELSE open[k].end
            BY <2>1 DEF FalseLeads
        <3>2. open[k].kind \in {"or"} \cup Branching
            BY <3>1 DEF Nearest
        <3>3. QED
            BY <1>2, <1>3, <3>1, <3>2 DEF Logic
    <2>4. QED
        BY <2>2, <2>3
<1>6. /\ context.iteration_endBB # NoBlock => Ready(context.iteration_endBB)
      /\ context.iteration_condBB # NoBlock => Ready(context.iteration_condBB)
    <2>1. LoopLeads(open, Len(open), context.iteration_endBB, context.iteration_condBB)
        BY <1>1 DEF ContextInv
    <2>2. QED
        BY <1>3, <1>4, <2>1 DEF LoopLeads, Nearest
<1>7. Top.kind \in {"then_else", "else"} => Ready(Top.join)
    BY <1>1 DEF Ready, BlocksIn, Owed, Logic, Branching, Bodies
<1>8. Top.kind = "then" /\ Top.join = Top.end => Ready(Top.join)
    BY <1>1 DEF Ready, BlocksIn, Owed, Logic, Branching, Bodies
<1>9. Top.kind = "body" => Ready(Top.join)
    BY <1>1, <1>4 DEF Loops
<1>10. QED
    BY <1>5, <1>6, <1>7, <1>8, <1>9

\* A branch at the insert block to blocks there are.
LEMMA JumpExtends ==
    ASSUME BuilderInv, open # <<>>, insert \notin ended, NEW targets \in Seq(Here),
           \A b \in Range(targets) : Ready(b), Jump(0, targets), UNCHANGED functions,
           insert' \in Blocks, Begun' = Begun \cup {insert'}
    PROVE  Extends(0, Range(targets), NoBlock)
<1>1. /\ Len(succ') = Len(succ) + 0 /\ ended' = ended \cup {insert}
    BY JumpFacts
<1>2. FlowGraphTypeOK /\ Len(succ) \in Nat /\ Blocks' = Blocks /\ Here \subseteq Blocks
    BY <1>1, TopFacts DEF GraphInv, Blocks
<1>3. Branched(0, insert, Range(targets))
    BY <1>1, <1>2, BranchToBranched DEF Jump
<1>4. Range(targets) \subseteq Here
    BY RangeTyped
<1>5. QED
    BY <1>1, <1>2, <1>3, <1>4 DEF Extends

LEMMA JumpIfOpenExtends ==
    ASSUME BuilderInv, open # <<>>, NEW target \in Here, Ready(target),
           JumpIfOpen(target), UNCHANGED functions,
           insert' \in Blocks, Begun' = Begun \cup {insert'}
    PROVE  /\ \E T : Extends(0, T, NoBlock)
           /\ Len(succ') = Len(succ) + 0
<1>1. CASE insert \in ended
    <2>1. UNCHANGED <<succ, pred, ended>>
        BY <1>1 DEF JumpIfOpen
    <2>2. Len(succ') = Len(succ) + 0 /\ Branched(0, insert, {}) /\ Blocks' = Blocks
        BY <2>1, TopFacts, PlainBranched DEF GraphInv, Blocks
    <2>3. Extends(0, {}, NoBlock)
        BY <2>1, <2>2 DEF Extends
    <2>4. QED
        BY <2>2, <2>3
<1>2. CASE insert \notin ended
    <2>1. Jump(0, <<target>>) /\ <<target>> \in Seq(Here) /\ Range(<<target>>) = {target}
        BY <1>2, SingletonFacts DEF JumpIfOpen
    <2>2. Extends(0, Range(<<target>>), NoBlock) /\ Len(succ') = Len(succ) + 0
        BY <1>2, <2>1, JumpExtends, JumpFacts
    <2>3. QED
        BY <2>2
<1>3. QED
    BY <1>1, <1>2

\* Statements that end their block.
LEMMA RegionEnds ==
    ASSUME BuilderInv, RegionInv, VisitReturn \/ VisitBreak \/ VisitContinue
    PROVE  RegionInv'
<1>1. /\ open # <<>> /\ insert \notin ended /\ UNCHANGED <<insert, open, functions>>
    BY DEF VisitReturn, VisitBreak, VisitContinue, NextStatement, AtStatement, Inside, graphVars
<1>2. /\ FlowGraphTypeOK /\ insert \in Blocks /\ Here \subseteq Blocks /\ ended \subseteq Blocks
      /\ Len(open) \in Nat \ {0} /\ DOMAIN open = 1 .. Len(open) /\ Top = open[Len(open)]
    BY <1>1, TopFacts DEF GraphInv
<1>3. ended' = ended \cup {insert}
    BY DEF VisitReturn, VisitBreak, VisitContinue, Jump, Terminate
<1>4. Begun' = Begun \cup {insert'} /\ insert' \in Blocks
    BY <1>1, <1>2, <1>3 DEF Begun
<1>5. \E T : Extends(0, T, NoBlock)
    <2>1. CASE VisitReturn
        <3>1. UNCHANGED <<succ, pred>>
            BY <2>1 DEF VisitReturn, graphVars
        <3>2. Len(succ') = Len(succ) + 0 /\ Branched(0, insert, {}) /\ Blocks' = Blocks
            BY <1>2, <3>1, PlainBranched DEF Blocks
        <3>3. Extends(0, {}, NoBlock)
            BY <1>1, <1>2, <1>3, <1>4, <3>2 DEF Extends
        <3>4. QED
            BY <3>3
    <2>2. ASSUME NEW b \in Here, Ready(b), Jump(0, <<b>>) PROVE \E T : Extends(0, T, NoBlock)
        <3>1. <<b>> \in Seq(Here) /\ Range(<<b>>) = {b}
            BY SingletonFacts
        <3>2. Extends(0, Range(<<b>>), NoBlock)
            BY <1>1, <1>4, <2>2, <3>1, JumpExtends
        <3>3. QED
            BY <3>2
    <2>3. CASE VisitBreak
        <3>1. context.iteration_endBB \in Here /\ Ready(context.iteration_endBB)
            BY <1>1, <2>3, TargetsHere, TargetsReady DEF VisitBreak
        <3>2. QED
            BY <2>2, <2>3, <3>1 DEF VisitBreak
    <2>4. CASE VisitContinue
        <3>1. context.iteration_condBB \in Here /\ Ready(context.iteration_condBB)
            BY <1>1, <2>4, TargetsHere, TargetsReady DEF VisitContinue
        <3>2. QED
            BY <2>2, <2>4, <3>1 DEF VisitContinue
    <2>5. QED
        BY <2>1, <2>3, <2>4
<1>6. PICK T, frame : Extends(0, T, NoBlock) /\ frame = Top
    BY <1>5
<1>7. /\ DOMAIN open' = 1 .. Len(open) /\ Len(open') = Len(open)
      /\ \A i \in 1 .. Len(open) - 1 : open'[i] = open[i]
      /\ frame = open'[Len(open)] /\ BlocksIn(frame) \subseteq BlocksIn(Top) \cup New(0)
    BY <1>1, <1>2, <1>6
<1>8. QED
    BY <1>1, <1>6, <1>7, RegionTurn

\* Below a visit that is not that of the function there is another.
LEMMA NotLast ==
    ASSUME BuilderInv, open # <<>>, Top.kind # "function", open' = Front(open)
    PROVE  open' # <<>> /\ Len(open) > 1
<1>1. Len(open) \in Nat \ {0} /\ Top = open[Len(open)] /\ DOMAIN open = 1 .. Len(open) /\ open \in Seq(Visits)
    BY TopFacts
<1>2. Len(open) # 1
    BY <1>1 DEF BuilderInv, Nested
<1>3. Len(open') = Len(open) - 1
    BY <1>1, FrontFacts
<1>4. QED
    BY <1>1, <1>2, <1>3

\* Visits that return.
LEMMA RegionReturns ==
    ASSUME BuilderInv, RegionInv,
           FinishFunction \/ VisitOperand \/ LeaveThen \/ LeaveElse \/ LeaveBody
    PROVE  RegionInv'
<1>1. open # <<>> /\ open' = Front(open) /\ functions' = functions
    BY DEF FinishFunction, VisitOperand, LeaveThen, LeaveElse, LeaveBody, Inside, graphVars
<1>2. /\ FlowGraphTypeOK /\ insert \in Here /\ Here \subseteq Blocks /\ ended \subseteq Blocks
      /\ Len(open) \in Nat \ {0} /\ DOMAIN open = 1 .. Len(open) /\ Top = open[Len(open)]
      /\ BlocksIn(Top) \subseteq Here /\ Len(succ) \in Nat
    BY <1>1, TopFacts DEF GraphInv
<1>3. ended' = ended \cup {insert}
    BY <1>1, <1>2 DEF FinishFunction, VisitOperand, LeaveThen, LeaveElse, LeaveBody, JumpIfOpen, Jump, Terminate
<1>4. insert' \in {insert} \cup BlocksIn(Top)
    <2>1. CASE FinishFunction \/ VisitOperand
        BY <2>1 DEF FinishFunction, VisitOperand
    <2>2. CASE LeaveThen \/ LeaveElse \/ LeaveBody
        BY <2>2 DEF LeaveThen, LeaveElse, LeaveBody, Inside, BlocksIn, Logic, Branching, Bodies
    <2>3. QED
        BY <2>1, <2>2
<1>5. insert' \in Blocks /\ Begun' = Begun \cup {insert'}
    <2>1. insert' \in Blocks
        BY <1>2, <1>4
    <2>2. CASE FinishFunction \/ VisitOperand
        <3>1. insert' = insert
            BY <2>2 DEF FinishFunction, VisitOperand
        <3>2. QED
            BY <1>1, <1>3, <2>1, <3>1 DEF Begun
    <2>3. CASE LeaveThen \/ LeaveElse \/ LeaveBody
        <3>1. Top.kind # "function"
            BY <2>3 DEF LeaveThen, LeaveElse, LeaveBody, Inside
        <3>2. open' # <<>>
            BY <1>1, <3>1, NotLast
        <3>3. QED
            BY <1>1, <1>3, <2>1, <3>2 DEF Begun
    <2>4. QED
        BY <2>2, <2>3
<1>6. \E T : Extends(0, T, NoBlock)
    <2>1. CASE FinishFunction
        <3>1. UNCHANGED <<succ, pred>>
            BY <2>1 DEF FinishFunction, graphVars
        <3>2. Len(succ') = Len(succ) + 0 /\ Branched(0, insert, {}) /\ Blocks' = Blocks
            BY <1>2, <3>1, PlainBranched DEF Blocks
        <3>3. Extends(0, {}, NoBlock)
            BY <1>1, <1>2, <1>3, <1>5, <3>2 DEF Extends
        <3>4. QED
            BY <3>3
    <2>2. CASE VisitOperand
        <3>1. Inside(Conditions) /\ insert \notin ended
            BY <2>2 DEF VisitOperand, Conditions, BuilderInv, EndInv, EndedByCondition
        <3>2. /\ context.trueBB \in Here /\ context.falseBB \in Here
              /\ Ready(context.trueBB) /\ Ready(context.falseBB)
            BY <1>1, <3>1, TargetsHere, TargetsReady DEF Inside
        <3>3. PICK targets : targets = <<context.trueBB, context.falseBB>>
            OBVIOUS
        <3>4. targets \in Seq(Here) /\ Range(targets) = {context.trueBB, context.falseBB}
            <4>1. DOMAIN targets = 1 .. 2 /\ targets[1] = context.trueBB /\ targets[2] = context.falseBB
                BY <3>3
            <4>2. 1 .. 2 = {1, 2}
                OBVIOUS
            <4>3. QED
                BY <3>2, <3>3, <4>1, <4>2 DEF Range
        <3>5. Extends(0, Range(targets), NoBlock)
            BY <1>1, <1>5, <2>2, <3>1, <3>2, <3>3, <3>4, JumpExtends DEF VisitOperand
        <3>6. QED
            BY <3>5
    <2>3. CASE LeaveThen \/ LeaveElse \/ LeaveBody
        <3>1. /\ Top.kind \in {"then", "else", "body"} /\ JumpIfOpen(Top.join)
              /\ Top.join \in Here
            <4>1. Top.kind \in {"then", "else", "body"} /\ JumpIfOpen(Top.join)
                BY <2>3 DEF LeaveThen, LeaveElse, LeaveBody, Inside
            <4>2. QED
                BY <1>2, <4>1 DEF BlocksIn, Logic, Branching, Bodies
        <3>2. Top.kind = "then" => Top.join = Top.end
            <4>1. PICK n, rank, body : n \in Nat /\ Framed(body)
                BY DEF RegionInv
            <4>2. FrameFits(body, open, Len(open))
                BY <1>2, <4>1 DEF Framed
            <4>3. QED
                BY <1>2, <4>2 DEF FrameFits
        <3>3. Ready(Top.join)
            BY <1>1, <3>1, <3>2, TargetsReady
        <3>4. QED
            BY <1>1, <1>5, <3>1, <3>3, JumpIfOpenExtends
    <2>4. QED
        BY <2>1, <2>2, <2>3
<1>7. QED
    BY <1>1, <1>4, <1>6, RegionPop

LEMMA ReturnFacts ==
    ASSUME BuilderInv, open # <<>>, NEW e, open' = Return(e)
    PROVE  /\ Len(open') = Len(open) /\ DOMAIN open' = 1 .. Len(open) /\ open'[Len(open)] = e
           /\ \A i \in 1 .. Len(open) - 1 : open'[i] = open[i]
<1>1. PICK s, S : s = open /\ S = Visits \cup {e}
    OBVIOUS
<1>2. s \in Seq(S) /\ s # <<>> /\ e \in S
    <2>1. s \in Seq(Visits)
        BY <1>1, TopFacts
    <2>2. Visits \subseteq S
        BY <1>1
    <2>3. QED
        BY <1>1, <2>1, <2>2, SeqFacts
<1>3. open' = Append(Front(s), e)
    BY <1>1 DEF Return
<1>4. QED
    BY <1>1, <1>2, <1>3, TurnFacts

\* Visits that turn into another, and those between the operands.
LEMMA RegionTurns ==
    ASSUME BuilderInv, RegionInv,
           VisitRight \/ VisitThen \/ VisitThenElse \/ VisitElse \/ VisitBody
    PROVE  RegionInv'
<1>1. /\ open # <<>>
      /\ Top.kind \in Logic \cup Branching \cup {"then_else"}
    BY DEF VisitRight, VisitThen, VisitThenElse, VisitElse, VisitBody, Inside, Logic, Branching
<1>2. /\ FlowGraphTypeOK /\ insert \in Here /\ Here \subseteq Blocks /\ ended \subseteq Blocks
      /\ Len(open) \in Nat \ {0} /\ DOMAIN open = 1 .. Len(open) /\ Top = open[Len(open)]
      /\ BlocksIn(Top) \subseteq Here /\ Len(succ) \in Nat /\ Top \in Visits /\ open \in Seq(Visits)
    BY <1>1, TopFacts DEF GraphInv
<1>3. insert' \in BlocksIn(Top) /\ (Top.kind \in Loops => insert' = Top.begin)
    <2>1. CASE VisitRight
        BY <2>1 DEF VisitRight, Inside, BlocksIn, Logic, Loops
    <2>2. CASE VisitThen \/ VisitThenElse \/ VisitElse \/ VisitBody
        BY <2>2 DEF VisitThen, VisitThenElse, VisitElse, VisitBody, Inside, BlocksIn, Logic, Branching, Bodies, Loops
    <2>3. QED
        BY <2>1, <2>2
<1>4. insert \in ended'
    <2>1. CASE VisitElse
        BY <2>1 DEF VisitElse, JumpIfOpen, Jump, Terminate
    <2>2. CASE ~VisitElse
        <3>1. Inside(Logic \cup Branching) /\ ended' = ended
            BY <1>1, <2>2 DEF VisitRight, VisitThen, VisitThenElse, VisitBody, Inside, Logic, Branching
        <3>2. QED
            BY <3>1 DEF BuilderInv, EndInv, EndedByCondition
    <2>3. QED
        BY <2>1, <2>2
<1>5. ended \subseteq ended' /\ ended' \subseteq ended \cup {insert}
    BY DEF VisitRight, VisitThen, VisitThenElse, VisitElse, VisitBody, JumpIfOpen, Jump, Terminate
<1>6. insert' \in Blocks /\ Begun' = Begun \cup {insert'}
    <2>1. open' # <<>>
        <3>1. \E frame : open' = Return(frame)
            BY DEF VisitRight, VisitThen, VisitThenElse, VisitElse, VisitBody
        <3>2. Len(open') = Len(open)
            BY <1>1, <3>1, ReturnFacts
        <3>3. QED
            BY <1>2, <3>2
    <2>2. QED
        BY <1>1, <1>2, <1>3, <1>4, <1>5, <2>1 DEF Begun
<1>7. ASSUME UNCHANGED <<functions, succ, pred>> PROVE Extends(0, {}, NoBlock)
    <2>1. Len(succ') = Len(succ) + 0 /\ Branched(0, insert, {}) /\ Blocks' = Blocks
        BY <1>2, <1>7, PlainBranched DEF Blocks
    <2>2. QED
        BY <1>2, <1>5, <1>6, <1>7, <2>1 DEF Extends
<1>8. CASE VisitRight
    <2>1. PICK kind \in {"EqExp", "LAndExp"} : open' = Return(PlainFrame(kind))
        BY <1>8 DEF VisitRight
    <2>2. PICK frame : frame = PlainFrame(kind)
        OBVIOUS
    <2>3. frame.kind = kind
        BY <2>2 DEF PlainFrame, Frame
    <2>4. BlocksIn(frame) = {} /\ frame.kind \notin Loops \cup {"if", "then"}
        BY <2>3 DEF BlocksIn, Logic, Branching, Bodies, Loops
    <2>5. Top.kind \notin Loops
        BY <1>8 DEF VisitRight, Inside, Logic, Loops
    <2>6. Extends(0, {}, NoBlock)
        BY <1>7, <1>8 DEF VisitRight, graphVars
    <2>7. /\ Len(open') = Len(open) /\ DOMAIN open' = 1 .. Len(open) /\ open'[Len(open)] = frame
          /\ \A i \in 1 .. Len(open) - 1 : open'[i] = open[i]
        BY <1>1, <2>1, <2>2, ReturnFacts
    <2>8. QED
        BY <1>1, <1>3, <2>4, <2>5, <2>6, <2>7, RegionTurn
<1>9. CASE VisitThen
    <2>1. PICK frame : frame = [Top EXCEPT !.kind = "then"] /\ open' = Return(frame) /\ Top.kind = "if"
        BY <1>9 DEF VisitThen, Inside
    <2>2. /\ frame.kind = "then" /\ frame.begin = Top.begin /\ frame.end = Top.end /\ frame.join = Top.join
        BY <1>2, <2>1 DEF Visits
    <2>3. BlocksIn(frame) \subseteq BlocksIn(Top) \cup New(0)
        BY <2>1, <2>2 DEF BlocksIn, Logic, Branching, Bodies
    <2>4. Extends(0, {}, NoBlock)
        BY <1>7, <1>9 DEF VisitThen, graphVars
    <2>5. /\ Len(open') = Len(open) /\ DOMAIN open' = 1 .. Len(open) /\ open'[Len(open)] = frame
          /\ \A i \in 1 .. Len(open) - 1 : open'[i] = open[i]
        BY <1>1, <2>1, ReturnFacts
    <2>6. (frame.kind \in Loops <=> Top.kind \in Loops) /\ (frame.kind \in {"if", "then"} => Top.kind \in {"if", "then"})
        BY <2>1, <2>2 DEF Loops
    <2>7. QED
        BY <1>1, <1>3, <2>2, <2>3, <2>4, <2>5, <2>6, RegionTurn
<1>10. CASE VisitBody
    <2>1. PICK frame : frame = [Top EXCEPT !.kind = "body"] /\ open' = Return(frame) /\ Top.kind = "while"
        BY <1>10 DEF VisitBody, Inside
    <2>2. /\ frame.kind = "body" /\ frame.begin = Top.begin /\ frame.end = Top.end /\ frame.join = Top.join
        BY <1>2, <2>1 DEF Visits
    <2>3. BlocksIn(frame) \subseteq BlocksIn(Top) \cup New(0)
        BY <2>1, <2>2 DEF BlocksIn, Logic, Branching, Bodies
    <2>4. Extends(0, {}, NoBlock)
        BY <1>7, <1>10 DEF VisitBody, graphVars
    <2>5. /\ Len(open') = Len(open) /\ DOMAIN open' = 1 .. Len(open) /\ open'[Len(open)] = frame
          /\ \A i \in 1 .. Len(open) - 1 : open'[i] = open[i]
        BY <1>1, <2>1, ReturnFacts
    <2>6. (frame.kind \in Loops <=> Top.kind \in Loops) /\ (frame.kind \in {"if", "then"} => Top.kind \in {"if", "then"})
        BY <2>1, <2>2 DEF Loops
    <2>7. QED
        BY <1>1, <1>3, <2>2, <2>3, <2>4, <2>5, <2>6, RegionTurn
<1>11. CASE VisitElse
    <2>1. PICK frame : frame = [Top EXCEPT !.kind = "else"] /\ open' = Return(frame) /\ Top.kind = "then_else"
        BY <1>11 DEF VisitElse, Inside
    <2>2. /\ frame.kind = "else" /\ frame.begin = Top.begin /\ frame.end = Top.end /\ frame.join = Top.join
        BY <1>2, <2>1 DEF Visits
    <2>3. BlocksIn(frame) \subseteq BlocksIn(Top) \cup New(0)
        BY <2>1, <2>2 DEF BlocksIn, Logic, Branching, Bodies
    <2>4. \E T : Extends(0, T, NoBlock)
        <3>1. Top.join \in Here /\ Ready(Top.join) /\ JumpIfOpen(Top.join) /\ UNCHANGED functions
            <4>1. JumpIfOpen(Top.join) /\ UNCHANGED functions
                BY <1>11 DEF VisitElse
            <4>2. Top.join \in Here
                BY <1>2, <2>1 DEF BlocksIn, Logic, Branching, Bodies
            <4>3. QED
                BY <1>1, <2>1, <4>1, <4>2, TargetsReady
        <3>2. QED
            BY <1>1, <1>6, <3>1, JumpIfOpenExtends
    <2>5. /\ Len(open') = Len(open) /\ DOMAIN open' = 1 .. Len(open) /\ open'[Len(open)] = frame
          /\ \A i \in 1 .. Len(open) - 1 : open'[i] = open[i]
        BY <1>1, <2>1, ReturnFacts
    <2>6. (frame.kind \in Loops <=> Top.kind \in Loops) /\ (frame.kind \in {"if", "then"} => Top.kind \in {"if", "then"})
        BY <2>1, <2>2 DEF Loops
    <2>7. QED
        BY <1>1, <1>3, <2>2, <2>3, <2>4, <2>5, <2>6, RegionTurn
<1>12. CASE VisitThenElse
    <2>1. PICK new : new = Len(succ) + 1
        OBVIOUS
    <2>2. Created(1)[1] = new /\ New(1) = {new}
        <3>1. Created(1) = [i \in 1 .. 1 |-> Len(succ) + i] /\ 1 \in 1 .. 1
            BY DEF Created
        <3>2. New(1) = {new}
            BY <1>2, <2>1 DEF New
        <3>3. QED
            BY <2>1, <3>1, <3>2
    <2>3. PICK frame : /\ frame = [Top EXCEPT !.kind = "then_else", !.join = new]
                       /\ open' = Return(frame) /\ Top.kind = "if_else"
        BY <1>12, <2>2 DEF VisitThenElse, Inside
    <2>4. /\ frame.kind = "then_else" /\ frame.begin = Top.begin /\ frame.end = Top.end /\ frame.join = new
        BY <1>2, <2>3 DEF Visits
    <2>5. BlocksIn(frame) \subseteq BlocksIn(Top) \cup New(1)
        BY <2>2, <2>3, <2>4 DEF BlocksIn, Logic, Branching, Bodies
    <2>6. Extends(1, {}, NoBlock)
        <3>1. Create(1) /\ succ' = Append(succ, <<>>) /\ pred' = Append(pred, <<>>)
            BY <1>12 DEF VisitThenElse
        <3>2. Len(succ') = Len(succ) + 1 /\ Branched(1, insert, {})
            BY <1>2, <3>1, PlainBranched
        <3>3. Blocks \subseteq Blocks'
            BY <1>2, <3>2 DEF Blocks
        <3>4. QED
            BY <1>2, <1>5, <1>6, <3>1, <3>2, <3>3 DEF Extends
    <2>7. /\ Len(open') = Len(open) /\ DOMAIN open' = 1 .. Len(open) /\ open'[Len(open)] = frame
          /\ \A i \in 1 .. Len(open) - 1 : open'[i] = open[i]
        BY <1>1, <2>3, ReturnFacts
    <2>8. frame.kind \notin Loops /\ Top.kind \notin Loops /\ frame.kind \notin {"if", "then"}
        BY <2>3, <2>4 DEF Loops
    <2>9. QED
        BY <1>1, <1>3, <2>5, <2>6, <2>7, <2>8, RegionTurn
<1>13. QED
    BY <1>8, <1>9, <1>10, <1>11, <1>12

\* Before the left operand of a logical operator.
LEMMA RegionLogic ==
    ASSUME BuilderInv, RegionInv, VisitOr \/ VisitAnd
    PROVE  RegionInv'
<1>1. PICK kind \in Logic, left \in {"LOrExp", "LAndExp"} :
            open # <<>> /\ Top.kind \in Conditions /\ VisitLogic(kind, left)
    BY DEF VisitOr, VisitAnd, Inside, Conditions, Logic
<1>2. /\ FlowGraphTypeOK /\ insert \in Blocks /\ Len(succ) \in Nat /\ ended \subseteq Blocks
      /\ Len(open) \in Nat \ {0} /\ DOMAIN open = 1 .. Len(open) /\ Top = open[Len(open)]
      /\ open \in Seq(Visits)
    BY <1>1, TopFacts DEF GraphInv
<1>3. PICK new : new = Len(succ) + 1
    OBVIOUS
<1>4. Created(1)[1] = new /\ New(1) = {new}
    <2>1. Created(1) = [i \in 1 .. 1 |-> Len(succ) + i] /\ 1 \in 1 .. 1
        BY DEF Created
    <2>2. New(1) = {new}
        BY <1>2, <1>3 DEF New
    <2>3. QED
        BY <1>3, <2>1, <2>2
<1>5. PICK frame, inner : frame = Frame(kind, new, NoBlock, NoBlock) /\ inner = PlainFrame(left)
    OBVIOUS
<1>6. /\ Create(1) /\ succ' = Append(succ, <<>>) /\ pred' = Append(pred, <<>>)
      /\ UNCHANGED <<insert, ended>>
      /\ open' = Append(Return(frame), inner)
    BY <1>1, <1>4, <1>5 DEF VisitLogic
<1>7. frame.kind = kind /\ frame.begin = new /\ inner.kind = left
    BY <1>5 DEF PlainFrame, Frame
<1>8. /\ BlocksIn(frame) = {new} /\ frame.kind \notin Loops \cup {"if", "then"}
      /\ BlocksIn(inner) = {} /\ inner.kind \notin Loops \cup {"if", "then"}
    BY <1>7 DEF BlocksIn, Logic, Branching, Bodies, Loops
<1>9. PICK m \in Nat : Len(open) = m + 1
    <2>1. PICK l \in Nat \ {0} : l = Len(open)
        BY <1>2
    <2>2. l - 1 \in Nat /\ l = (l - 1) + 1
        OBVIOUS
    <2>3. QED
        BY <2>1, <2>2
<1>10. /\ DOMAIN open' = 1 .. m + 2 /\ Len(open') = m + 2
       /\ open'[m + 1] = frame /\ open'[m + 2] = inner
       /\ \A i \in 1 .. m : open'[i] = open[i]
    <2>1. PICK S, o : S = Visits \cup {frame, inner} /\ o = Append(Front(open), frame)
        OBVIOUS
    <2>2. open \in Seq(S) /\ frame \in S /\ inner \in S
        BY <1>2, <2>1, SeqFacts
    <2>3. /\ o \in Seq(S) /\ Len(o) = Len(open) /\ o[Len(open)] = frame
          /\ \A i \in 1 .. Len(open) - 1 : o[i] = open[i]
        BY <1>1, <2>1, <2>2, TurnFacts
    <2>4. PICK p : p = open'
        OBVIOUS
    <2>5. p = Append(o, inner)
        BY <1>6, <2>1, <2>4 DEF Return
    <2>6. /\ DOMAIN p = 1 .. m + 2 /\ Len(p) = m + 2 /\ p[m + 2] = inner
          /\ \A i \in 1 .. m + 1 : p[i] = o[i]
        BY <1>9, <2>2, <2>3, <2>5
    <2>7. p[m + 1] = frame /\ \A i \in 1 .. m : p[i] = open[i]
        BY <1>9, <2>3, <2>6
    <2>8. QED
        BY <2>4, <2>6, <2>7
<1>11. m # 0
    BY <1>1, <1>2, <1>9 DEF BuilderInv, Nested, Conditions
<1>12. Calls(m, 1, NoBlock)
    <2>1. Top.kind \notin Loops
        BY <1>1 DEF Conditions, Loops
    <2>2. QED
        BY <1>4, <1>6, <1>8, <1>9, <1>10, <2>1 DEF Calls
<1>13. Extends(1, {}, NoBlock)
    <2>1. Len(succ') = Len(succ) + 1 /\ Branched(1, insert, {})
        BY <1>2, <1>6, PlainBranched
    <2>2. Blocks \subseteq Blocks'
        BY <1>2, <2>1 DEF Blocks
    <2>3. open' # <<>>
        BY <1>10
    <2>4. Begun' = Begun \cup {insert'} /\ insert' \in Blocks'
        BY <1>1, <1>2, <1>6, <2>2, <2>3 DEF Begun
    <2>5. QED
        BY <1>2, <1>6, <2>1, <2>4 DEF Extends
<1>14. QED
    BY <1>1, <1>11, <1>12, <1>13, RegionCall

\* The visit of a statement that branches, up to its condition.
LEMMA RegionSelects ==
    ASSUME BuilderInv, RegionInv, NEW kind \in Branching,
           \/ kind \in {"if", "if_else"} /\ VisitSelection(kind)
           \/ kind = "while" /\ VisitIteration
    PROVE  RegionInv'
<1>1. PICK first, begin, end : first = Created(3)[1] /\ begin = Created(3)[2] /\ end = Created(3)[3]
    OBVIOUS
<1>2. PICK frame, inner : /\ frame = Frame(kind, begin, end, IF kind = "while" THEN first ELSE end)
                          /\ inner = PlainFrame("LOrExp")
    OBVIOUS
<1>3. /\ NextStatement /\ Create(3) /\ Jump(3, <<first>>) /\ insert' = first
      /\ open' = open \o <<frame, inner>>
    <2>1. CASE kind = "while"
        BY <1>1, <1>2, <2>1 DEF VisitIteration
    <2>2. CASE kind # "while"
        BY <1>1, <1>2, <2>2 DEF VisitSelection
    <2>3. QED
        BY <2>1, <2>2
<1>4. open # <<>> /\ insert \notin ended
    BY <1>3 DEF NextStatement, AtStatement, Inside
<1>5. /\ FlowGraphTypeOK /\ insert \in Blocks /\ Len(succ) \in Nat /\ ended \subseteq Blocks
      /\ Len(open) \in Nat \ {0} /\ open \in Seq(Visits) /\ insert \in Here /\ functions # <<>> /\ GraphInv
    BY <1>4, TopFacts DEF GraphInv
<1>6. /\ first = Len(succ) + 1 /\ begin = first + 1 /\ end = first + 2
      /\ New(3) = {first, begin, end} /\ New(3) \cap Blocks = {}
    <2>1. first = Len(succ) + 1 /\ begin = Len(succ) + 2 /\ end = Len(succ) + 3
        BY <1>1, <1>5 DEF Created
    <2>2. QED
        BY <1>5, <2>1 DEF New, Blocks
<1>7. /\ frame.kind = kind /\ frame.begin = begin /\ frame.end = end
      /\ frame.join = (IF kind = "while" THEN first ELSE end) /\ inner.kind = "LOrExp"
    BY <1>2 DEF PlainFrame, Frame
<1>8. /\ BlocksIn(frame) \subseteq New(3)
      /\ BlocksIn(inner) = {} /\ inner.kind \notin Loops \cup {"if", "then"}
      /\ frame.kind \in Loops <=> kind = "while"
      /\ frame.kind \notin {"then", "body"}
    BY <1>6, <1>7 DEF BlocksIn, Logic, Branching, Bodies, Loops
<1>9. PICK l \in Nat \ {0} : l = Len(open)
    BY <1>5
<1>10. /\ DOMAIN open' = 1 .. l + 2 /\ Len(open') = l + 2
       /\ open'[l + 1] = frame /\ open'[l + 2] = inner
       /\ \A i \in 1 .. l : open'[i] = open[i]
    <2>1. PICK S : S = Visits \cup {frame, inner}
        OBVIOUS
    <2>2. open \in Seq(S) /\ frame \in S /\ inner \in S
        BY <1>5, <2>1, SeqFacts
    <2>3. QED
        BY <1>3, <1>9, <2>2, CallFacts
<1>11. PICK new : new = IF kind = "while" THEN first ELSE NoBlock
    OBVIOUS
<1>12. (new # NoBlock <=> kind = "while") /\ (kind = "while" => new = first)
    BY <1>5, <1>6, <1>11 DEF NoBlock
<1>13. Calls(l, 3, new)
    <2>1. insert' \in {insert} \cup New(3)
        BY <1>3, <1>6
    <2>2. frame.kind \in Loops => frame.begin = new + 1 /\ frame.join = new
        BY <1>6, <1>7, <1>8, <1>12
    <2>3. frame.kind \in {"if", "then"} => frame.join = frame.end
        BY <1>7, <1>8
    <2>4. QED
        BY <1>8, <1>9, <1>10, <1>12, <2>1, <2>2, <2>3 DEF Calls
<1>14. Extends(3, {first}, new)
    <2>1. ended' = ended \cup {insert} /\ BranchTo(3, insert, <<first>>)
        BY <1>3 DEF Jump, Terminate
    <2>2. Len(succ') = Len(succ) + 3
        <3>1. <<first>> \in Seq(New(3)) /\ 3 \in Nat
            BY <1>6
        <3>2. QED
            BY <1>3, <1>5, <2>1, <3>1, SelectGraph
    <2>3. Branched(3, insert, {first})
        <3>1. Range(<<first>>) = {first} /\ 3 \in Nat
            BY SingletonFacts
        <3>2. Branched(3, insert, Range(<<first>>))
            BY <1>5, <2>1, <2>2, <3>1, BranchToBranched
        <3>3. QED
            BY <3>1, <3>2
    <2>4. first \in Blocks' /\ first \notin Blocks /\ insert \in Blocks'
        BY <1>5, <1>6, <2>2 DEF Blocks
    <2>5. Begun' = Begun \cup {insert'}
        BY <1>3, <1>4, <1>10, <2>1 DEF Begun
    <2>6. new # NoBlock => new = first /\ new + 1 # first
        BY <1>5, <1>6, <1>12
    <2>7. new = NoBlock \/ new = Len(succ) + 1
        BY <1>6, <1>12
    <2>8. QED
        BY <1>3, <2>1, <2>2, <2>3, <2>4, <2>5, <2>6, <2>7 DEF Extends
<1>15. QED
    BY <1>4, <1>9, <1>13, <1>14, RegionCall

-----------------------------------------------------------------------------
\* The visit of a function begins.
LEMMA RegionStarts ==
    ASSUME BuilderInv, RegionInv, StartFunction
    PROVE  RegionInv'
<1>1. PICK n, rank, body : n \in Nat /\ Regions(n, rank, body) /\ Framed(body)
    BY DEF RegionInv
<1>2. PICK ins : ins = Len(succ) + 1
    OBVIOUS
<1>3. /\ FlowGraphTypeOK /\ Len(succ) \in Nat /\ context \in Context /\ ended \subseteq Blocks
      /\ functions \in Seq(Seq(Blocks) \ {<<>>}) /\ body \in [Blocks -> SUBSET Blocks]
    BY <1>1 DEF BuilderInv, BuilderTypeOK, FlowGraphTypeOK, Regions
<1>4. /\ functions' = Append(functions, Created(1)) /\ succ' = Append(succ, <<>>)
      /\ pred' = Append(pred, <<>>) /\ open' = <<PlainFrame("function")>> /\ insert' = ins
      /\ open = <<>> /\ ended' = ended
    BY <1>2 DEF StartFunction
<1>5. Begun = ended /\ Begun' = ended \cup {ins}
    BY <1>4 DEF Begun
<1>6. /\ Len(succ') = Len(succ) + 1 /\ Branched(1, ins, {}) /\ ins \in Blocks' /\ ins \notin Blocks
    <2>1. Len(succ') = Len(succ) + 1 /\ Branched(1, ins, {})
        BY <1>3, <1>4, PlainBranched
    <2>2. QED
        BY <1>2, <1>3, <2>1 DEF Blocks
<1>7. ASSUME NEW f \in DOMAIN functions'
      PROVE  \/ f \in DOMAIN functions /\ Entry(f)' = Entry(f) /\ Entry(f) \in Blocks
             \/ Entry(f)' \notin Blocks
    <2>1. PICK made, all : made = Created(1) /\ all = (Seq(Blocks) \ {<<>>}) \cup {made}
        OBVIOUS
    <2>2. made[1] = ins
        BY <1>2, <1>3, <2>1 DEF Created
    <2>3. functions \in Seq(all) /\ made \in all
        BY <1>3, <2>1, SeqFacts
    <2>4. /\ f \in DOMAIN functions \/ functions'[f] = made
          /\ f \in DOMAIN functions => functions'[f] = functions[f]
        BY <1>4, <2>1, <2>3
    <2>5. f \in DOMAIN functions => Entry(f) \in Blocks
        BY <1>3, ListFacts
    <2>6. QED
        BY <1>6, <2>2, <2>4, <2>5 DEF Entry
<1>8. PICK rank2, body2, new : /\ new = NoBlock /\ rank2 = Raised(rank, n, 1, ins)
                               /\ body2 = Widened(body, 1, {}, new)
    OBVIOUS
<1>9. Regions(n + 1, rank2, body2)'
    <2> PICK k \in Nat : k = 1
        OBVIOUS
    <2>1. PICK T, H : k = 1 /\ T = {} /\ H = {}
        OBVIOUS
    <2>2. /\ Len(succ') = Len(succ) + k /\ Branched(k, ins, T)
          /\ rank2 = Raised(rank, n, k, ins) /\ body2 = Widened(body, k, H, new)
        BY <1>6, <1>8, <2>1
    <2>3. /\ Begun \subseteq Blocks /\ T \in SUBSET Blocks' /\ H \in SUBSET Begun
          /\ ended \subseteq ended' /\ ended' \subseteq Begun /\ Begun' = Begun \cup {ins}
        BY <1>3, <1>4, <1>5, <2>1
    <2>4. /\ T # {} => ins \in Begun /\ ins \in ended'
          /\ new # NoBlock => k >= 2 /\ new + 1 \notin T /\ ins = new
          /\ \A f \in DOMAIN functions' :
                \/ f \in DOMAIN functions /\ Entry(f)' = Entry(f) /\ Entry(f) \in Blocks
                \/ Entry(f)' \notin Blocks /\ H = {} /\ new = NoBlock
        BY <1>7, <1>8, <2>1
    <2>5. /\ T # {} => \A h \in H : ins \in body[h]
          /\ \A b \in T \cap Blocks : \A h \in Blocks \ {b} : b \in body[h] => ins \in body[h]
          /\ \A b \in T \cap Begun : ins \in body[b]
        BY <2>1
    <2>6. QED
        BY <1>1, <1>3, <1>6, <1>8, <2>2, <2>3, <2>4, <2>5, RegionsGrow
<1>10. Framed(body2)'
    <2>1. PICK frame : frame = PlainFrame("function")
        OBVIOUS
    <2>2. BlocksIn(frame) = {} /\ frame.kind = "function"
        BY <1>3, <2>1, PlainFrameFacts DEF Kind, Logic, Branching, Bodies
    <2>3. Len(open') = 1 /\ DOMAIN open' = {1} /\ open'[1] = frame
        BY <1>4, <2>1
    <2>4. Heads(open', 1) = {}
        BY <2>2, <2>3 DEF Heads, Loops
    <2>5. QED
        BY <2>2, <2>3, <2>4 DEF Framed, FrameFits, Loops
<1>11. PICK n2 \in Nat : n2 = n + 1
    BY <1>1
<1>12. QED
    BY <1>9, <1>10, <1>11 DEF RegionInv

-----------------------------------------------------------------------------
\* The elements of t come in this order among the first m of s.
Keeps(t, s, m) ==
    /\ \A i \in 1 .. Len(t) : \E p \in 1 .. m : s[p] = t[i]
    /\ \A i, j \in 1 .. Len(t) : i < j =>
          \E p, q \in 1 .. m : p < q /\ s[p] = t[i] /\ s[q] = t[j]

LEMMA KeepsMore ==
    ASSUME NEW t, NEW s, NEW n \in Nat, Keeps(t, s, n)
    PROVE  Keeps(t, s, n + 1)
<1>1. \A p \in 1 .. n : p \in 1 .. n + 1
    OBVIOUS
<1>2. ASSUME NEW i \in 1 .. Len(t)
      PROVE  \E p \in 1 .. n + 1 : s[p] = t[i]
    BY <1>1 DEF Keeps
<1>3. ASSUME NEW i \in 1 .. Len(t), NEW j \in 1 .. Len(t), i < j
      PROVE  \E p, q \in 1 .. n + 1 : p < q /\ s[p] = t[i] /\ s[q] = t[j]
    <2>1. PICK p, q \in 1 .. n : p < q /\ s[p] = t[i] /\ s[q] = t[j]
        BY <1>3 DEF Keeps
    <2>2. QED
        BY <1>1, <2>1
<1>4. QED
    BY <1>2, <1>3 DEF Keeps

LEMMA WithoutOrder ==
    ASSUME NEW S, NEW s \in Seq(S), NEW gone
    PROVE  Keeps(Without(s, gone), s, Len(s))
<1> PICK f : /\ Without(s, gone) = f[Len(s)] /\ f[0] = <<>>
             /\ \A n \in 1 .. Len(s) :
                   f[n] = IF s[n] \in gone THEN f[n - 1] ELSE Append(f[n - 1], s[n])
    BY WithoutSteps, Z3T(20)
<1>1. PICK N : N = Len(s) /\ N \in Nat /\ \A n \in 1 .. N : s[n] \in S
    <2>1. Len(s) \in Nat /\ \A n \in 1 .. Len(s) : s[n] \in S
        BY SeqFacts
    <2>2. QED
        BY <2>1
<1>2. PICK Done : Done = {n \in 0 .. N : f[n] \in Seq(S) /\ Keeps(f[n], s, n)}
    OBVIOUS
<1>3. 0 \in Done
    <2>1. PICK none : none = f[0]
        OBVIOUS
    <2>2. none \in Seq(S) /\ Len(none) = 0
        BY <2>1
    <2>3. 0 \in 0 .. N /\ \A i \in 1 .. Len(none) : FALSE
        BY <1>1, <2>2
    <2>4. QED
        BY <1>2, <2>1, <2>2, <2>3 DEF Keeps
<1>4. ASSUME NEW n \in Done, n < N
      PROVE  n + 1 \in Done
    <2>1. n \in Nat /\ n + 1 \in 1 .. N /\ n + 1 \in 0 .. N /\ (n + 1) - 1 = n
        BY <1>1, <1>2, <1>4
    <2>2. PICK t, e, u : t = f[n] /\ e = s[n + 1] /\ u = f[n + 1]
        OBVIOUS
    <2>3. t \in Seq(S) /\ Keeps(t, s, n) /\ e \in S /\ 1 .. n \subseteq 1 .. n + 1
        BY <1>1, <1>2, <2>1, <2>2
    <2>4. u = IF e \in gone THEN t ELSE Append(t, e)
        BY <1>1, <2>1, <2>2
    <2>5. CASE e \in gone
        <3>1. Keeps(t, s, n + 1)
            BY <2>1, <2>3, KeepsMore
        <3>2. QED
            BY <1>2, <2>1, <2>2, <2>3, <2>4, <2>5, <3>1
    <2>6. CASE e \notin gone
        <3>1. /\ u \in Seq(S) /\ Len(u) = Len(t) + 1 /\ Len(t) \in Nat /\ u[Len(t) + 1] = e
              /\ \A i \in 1 .. Len(t) : u[i] = t[i]
            BY <2>3, <2>4, <2>6
        <3>2. ASSUME NEW i \in 1 .. Len(u)
              PROVE  \E p \in 1 .. n + 1 : s[p] = u[i] /\ (i # Len(t) + 1 => p <= n)
            <4>1. CASE i \in 1 .. Len(t)
                <5>1. PICK p \in 1 .. n : s[p] = t[i]
                    BY <2>3, <4>1 DEF Keeps
                <5>2. p \in 1 .. n + 1 /\ p <= n
                    BY <2>1, <2>3, <5>1
                <5>3. QED
                    BY <3>1, <4>1, <5>1, <5>2
            <4>2. CASE i = Len(t) + 1
                BY <2>1, <2>2, <3>1, <4>2
            <4>3. QED
                BY <3>1, <4>1, <4>2
        <3>3. ASSUME NEW i \in 1 .. Len(u), NEW j \in 1 .. Len(u), i < j
              PROVE  \E p, q \in 1 .. n + 1 : p < q /\ s[p] = u[i] /\ s[q] = u[j]
            <4>1. i \in 1 .. Len(t)
                BY <3>1, <3>3
            <4>2. CASE j \in 1 .. Len(t)
                <5>1. PICK p, q \in 1 .. n : p < q /\ s[p] = t[i] /\ s[q] = t[j]
                    BY <2>3, <3>3, <4>1, <4>2 DEF Keeps
                <5>2. QED
                    BY <2>3, <3>1, <4>1, <4>2, <5>1
            <4>3. CASE j = Len(t) + 1
                <5>1. PICK p \in 1 .. n + 1 : s[p] = u[i] /\ p <= n
                    BY <3>1, <3>2, <4>1
                <5>2. p < n + 1 /\ s[n + 1] = u[j]
                    BY <2>1, <2>2, <3>1, <4>3, <5>1
                <5>3. QED
                    BY <2>1, <5>1, <5>2
            <4>4. QED
                BY <3>1, <4>2, <4>3
        <3>4. Keeps(u, s, n + 1)
            BY <3>2, <3>3 DEF Keeps
        <3>5. QED
            BY <1>2, <2>1, <2>2, <3>1, <3>4
    <2>7. QED
        BY <2>5, <2>6
<1>5. N \in Done
    <2>1. Done \in SUBSET (0 .. N)
        BY <1>2
    <2>2. QED
        BY <1>1, <1>3, <1>4, <2>1, IntervalInduction
<1>6. QED
    BY <1>1, <1>2, <1>5

\* Function::remove takes edges away and keeps the order of the others.
LEMMA RegionClears ==
    ASSUME BuilderInv, RegionInv, open = <<>>, cursor \in Nat \ {0}, ClearBasicBlocks
    PROVE  RegionInv'
<1>1. PICK n, rank, body : n \in Nat /\ Regions(n, rank, body)
    BY DEF RegionInv
<1>2. PICK gone : gone = ToErase(cursor)
    OBVIOUS
<1>3. /\ FlowGraphTypeOK /\ cursor \in DOMAIN functions
      /\ Entry(cursor) \notin gone /\ RemoveBlocks(cursor, gone) /\ open' = <<>> /\ ended' = ended
    <2>1. functions \in Seq(Seq(Blocks) \ {<<>>}) /\ cursor <= Len(functions)
        BY DEF BuilderInv, BuilderTypeOK, FlowGraphTypeOK, ClearBasicBlocks
    <2>2. cursor \in DOMAIN functions
        BY <2>1, SeqFacts
    <2>3. QED
        BY <1>2, <2>2 DEF BuilderInv, BuilderTypeOK, ClearBasicBlocks, ToErase, builderVars
<1>4. PICK shorter : shorter = Without(functions[cursor], gone)
    OBVIOUS
<1>5. /\ functions' = [functions EXCEPT ![cursor] = shorter]
      /\ pred' = [b \in Blocks |-> Without(pred[b], gone)]
      /\ succ' = [b \in Blocks |-> Without(succ[b], gone)]
    BY <1>3, <1>4 DEF RemoveBlocks
<1>6. shorter[1] = Entry(cursor)
    <2>1. functions[cursor] \in Seq(Blocks) /\ functions[cursor] # <<>> /\ functions[cursor][1] \notin gone
        BY <1>3, ListFacts DEF Entry
    <2>2. QED
        BY <1>4, <2>1, WithoutFirst DEF Entry
<1>7. DOMAIN functions' = DOMAIN functions /\ \A f \in DOMAIN functions : functions'[f][1] = functions[f][1]
    BY <1>3, <1>5, <1>6 DEF Entry
<1>8. Blocks' = Blocks
    <2>1. Len(succ) \in Nat /\ Blocks = 1 .. Len(succ) /\ DOMAIN succ' = Blocks
        BY <1>3, <1>5, ListFacts DEF Blocks
    <2>2. PICK s : s = succ'
        OBVIOUS
    <2>3. Len(s) = Len(succ)
        BY <1>5, <2>1, <2>2
    <2>4. QED
        BY <2>2, <2>3 DEF Blocks
<1>9. Begun' = Begun
    BY <1>3 DEF Begun
<1>10. ASSUME NEW b \in Blocks
       PROVE  Range(pred'[b]) \subseteq Range(pred[b]) /\ Keeps(pred'[b], pred[b], Len(pred[b]))
    <2>1. PICK s : s = pred[b] /\ s \in Seq(Blocks)
        BY <1>3, ListFacts
    <2>2. Range(Without(s, gone)) \subseteq Range(s) /\ Keeps(Without(s, gone), s, Len(s))
        BY <2>1, WithoutFacts, WithoutOrder
    <2>3. QED
        BY <1>5, <2>1, <2>2
<1>11. GoesOn(rank, body)' /\ SingleEntry(body)'
    <2>1. Begun \subseteq Blocks /\ body \in [Blocks -> SUBSET Blocks]
        BY <1>1, <1>3 DEF Begun, BuilderInv, BuilderTypeOK, Regions
    <2>2. \A b \in Begun : \A u \in Range(pred'[b]) : rank[u] < rank[b] \/ u \in body[b]
        BY <1>1, <1>10, <2>1 DEF Regions, GoesOn
    <2>3. \A h \in Blocks : \A b \in body[h] \ {h} : Range(pred'[b]) \subseteq body[h]
        BY <1>1, <1>10, <2>1 DEF Regions, SingleEntry
    <2>4. QED
        BY <1>8, <1>9, <2>2, <2>3 DEF GoesOn, SingleEntry
<1>12. EntryOutside(body)' /\ HeadersBegun(body)'
    BY <1>1, <1>7, <1>8, <1>9 DEF Regions, EntryOutside, HeadersBegun, Entry
<1>13. LatchesLast(body)'
    <2>1. ASSUME NEW b \in Blocks, NEW i \in 1 .. Len(pred'[b]), NEW j \in 1 .. Len(pred'[b]),
                 i < j, pred'[b][i] \in body[b]
          PROVE  pred'[b][j] \in body[b]
        <3>1. PICK p, q \in 1 .. Len(pred[b]) : p < q /\ pred[b][p] = pred'[b][i] /\ pred[b][q] = pred'[b][j]
            BY <1>10, <2>1 DEF Keeps
        <3>2. QED
            BY <1>1, <2>1, <3>1 DEF Regions, LatchesLast
    <2>2. QED
        BY <1>8, <2>1 DEF LatchesLast
<1>14. \A b \in Blocks : Range(pred'[b]) \subseteq ended'
    BY <1>1, <1>3, <1>10 DEF Regions
<1>15. Regions(n, rank, body)'
    BY <1>1, <1>8, <1>11, <1>12, <1>13, <1>14 DEF Regions
<1>16. Framed(body)'
    BY <1>3 DEF Framed
<1>17. QED
    BY <1>1, <1>15, <1>16 DEF RegionInv


LEMMA RegionsHold == Spec => []RegionInv
<1>1. Init => RegionInv
    <2> SUFFICES ASSUME Init
                 PROVE  RegionInv
        OBVIOUS
    <2>1. succ = <<>> /\ pred = <<>> /\ functions = <<>> /\ ended = {} /\ open = <<>>
        BY DEF Init, BuilderInit
    <2>2. Blocks = {} /\ Begun = {}
        BY <2>1 DEF Blocks, Begun
    <2>3. PICK rank, body : rank = [b \in Blocks |-> 0] /\ body = [b \in Blocks |-> {}]
        OBVIOUS
    <2>4. Regions(0, rank, body) /\ Framed(body)
        BY <2>1, <2>2, <2>3 DEF Regions, GoesOn, SingleEntry, EntryOutside, LatchesLast, HeadersBegun, Framed
    <2>5. QED
        BY <2>4 DEF RegionInv
<1>2. ProgramInv /\ RegionInv /\ [Next]_vars /\ ProgramInv' => RegionInv'
    <2> SUFFICES ASSUME ProgramInv, RegionInv, [Next]_vars, ProgramInv'
                 PROVE  RegionInv'
        OBVIOUS
    <2>1. BuilderInv
        BY DEF ProgramInv
    <2>2. CASE Build
        <3>1. BuilderNext
            BY <2>2 DEF Build
        <3>2. CASE StartFunction
            BY <2>1, <3>2, RegionStarts
        <3>3. CASE VisitReturn \/ VisitBreak \/ VisitContinue
            BY <2>1, <3>3, RegionEnds
        <3>4. CASE FinishFunction \/ VisitOperand \/ LeaveThen \/ LeaveElse \/ LeaveBody
            BY <2>1, <3>4, RegionReturns
        <3>5. CASE VisitRight \/ VisitThen \/ VisitThenElse \/ VisitElse \/ VisitBody
            BY <2>1, <3>5, RegionTurns
        <3>6. CASE VisitOr \/ VisitAnd
            BY <2>1, <3>6, RegionLogic
        <3>7. CASE \E kind \in {"if", "if_else"} : VisitSelection(kind)
            BY <2>1, <3>7, RegionSelects DEF Branching
        <3>8. CASE VisitIteration
            <4>1. "while" \in Branching
                BY DEF Branching
            <4>2. QED
                BY <2>1, <3>8, <4>1, RegionSelects
        <3>9. QED
            BY <3>1, <3>2, <3>3, <3>4, <3>5, <3>6, <3>7, <3>8 DEF BuilderNext
    <2>3. CASE ClearBasicBlocks
        BY <2>1, <2>3, RegionClears DEF ProgramInv, ClearBasicBlocks
    <2>4. CASE UNCHANGED bvars
        <3>1. UNCHANGED <<functions, succ, pred, ended, open, insert>>
            BY <2>4 DEF bvars, graphVars, builderVars
        <3>2. PICK n, rank, body : n \in Nat /\ Regions(n, rank, body) /\ Framed(body)
            BY DEF RegionInv
        <3>3. Blocks' = Blocks /\ Begun' = Begun
            BY <3>1 DEF Blocks, Begun
        <3>4. Regions(n, rank, body)'
            BY <3>1, <3>2, <3>3 DEF Regions, GoesOn, SingleEntry, EntryOutside, LatchesLast, HeadersBegun, Entry
        <3>5. Framed(body)'
            BY <3>1, <3>2, <3>3 DEF Framed, FrameFits, Heads, BlocksIn
        <3>6. QED
            BY <3>2, <3>4, <3>5 DEF RegionInv
    <2>5. QED
        BY <2>2, <2>3, <2>4 DEF Next, Passes, Rest, StartDeadCode, ClearAgain, StartLoopDetection,
                                NextFunction, Analyse, vars
<1>3. QED
    BY <1>1, <1>2, ProgramInvariant, PTL DEF Spec

-----------------------------------------------------------------------------
\* The flow graph of f can be reduced: the blocks can be ordered so that every
\* edge that does not go on in this order leads to a dominator of the block it
\* starts from, and the first predecessor of a block always comes before it.
Reducible(f, rank) ==
    /\ \A b \in Blocks : rank[b] \in Nat
    /\ \A d, b : Over(f, d, b) /\ d # b => rank[d] < rank[b]
    /\ \A b \in Reached(f) : \A u \in Range(pred[b]) \cap Reached(f) : rank[u] < rank[b] \/ Over(f, b, u)
    /\ \A b \in Reached(f) \ {Entry(f)} : pred[b] # <<>> /\ rank[pred[b][1]] < rank[b]

\* The header of a loop dominates the blocks of the loop.
LEMMA HeaderDominates ==
    ASSUME Graph, NEW n, NEW rank, NEW body, Regions(n, rank, body),
           NEW f \in DOMAIN functions, NEW h \in Reached(f), NEW u \in Reached(f), u \in body[h]
    PROVE  Over(f, h, u)
<1>1. /\ h \in Blocks /\ EdgesAgree /\ BlocksOf(f) \subseteq Blocks /\ Entry(f) \in BlocksOf(f)
      /\ Reached(f) \subseteq BlocksOf(f)
    <2>1. FlowGraphTypeOK /\ EdgesAgree
        BY DEF Graph, GraphInv
    <2>2. Reached(f) \subseteq BlocksOf(f) /\ BlocksOf(f) \subseteq Blocks /\ Entry(f) \in BlocksOf(f)
        BY <2>1, ReachedFacts, ListFacts DEF Graph
    <2>3. QED
        BY <2>1, <2>2
<1>2. PICK R, S : R = ReachedWithout(Entry(f), h) /\ S = {y \in BlocksOf(f) : y \notin body[h]}
    OBVIOUS
<1>3. Entry(f) \in S
    BY <1>1, <1>2 DEF Regions, EntryOutside
<1>4. ASSUME NEW x \in S \cap R, NEW y \in Range(succ[x]) \ {h}
      PROVE  y \in S
    <2>1. y \in BlocksOf(f) /\ x \in Range(pred[y])
        BY <1>1, <1>2, <1>4 DEF EdgesAgree, Functions
    <2>2. y \in body[h] \ {h} => x \in body[h]
        BY <1>1, <2>1 DEF Regions, SingleEntry
    <2>3. QED
        BY <1>2, <1>4, <2>1, <2>2
<1>5. R \subseteq S
    BY <1>2, <1>3, <1>4, WithoutReached
<1>6. u \notin R
    BY <1>2, <1>5
<1>7. QED
    BY <1>2, <1>6 DEF Over

\* Every block but the entry is reached by an edge from outside its own loop.
LEMMA ForwardEdge ==
    ASSUME Graph, NEW f \in DOMAIN functions, NEW b \in Reached(f) \ {Entry(f)}
    PROVE  \E p \in Range(pred[b]) \cap Reached(f) : ~Over(f, b, p)
<1> SUFFICES ASSUME \A p \in Range(pred[b]) \cap Reached(f) : Over(f, b, p)
             PROVE  FALSE
    OBVIOUS
<1>1. PICK S : S = {x \in Reached(f) : ~Over(f, b, x)}
    OBVIOUS
<1>2. /\ Entry(f) \in Reached(f) /\ EdgesAgree /\ Reached(f) \subseteq BlocksOf(f)
      /\ \A x \in Reached(f) : Range(succ[x]) \subseteq Reached(f)
      /\ \A T : Entry(f) \in T /\ (\A x \in T \cap Reached(f) : Range(succ[x]) \subseteq T)
                   => Reached(f) \subseteq T
    BY ReachedFacts DEF Graph, GraphInv
<1>3. /\ Over(f, b, b)
      /\ \A d : Over(f, d, Entry(f)) => d = Entry(f)
      /\ \A c : \A p \in Range(pred[c]) \cap Reached(f) : Over(f, b, c) /\ b # c => Over(f, b, p)
    BY OverFacts
<1>4. Entry(f) \in S
    BY <1>1, <1>2, <1>3
<1>5. ASSUME NEW x \in S, NEW y \in Range(succ[x])
      PROVE  y \in S
    <2>1. x \in Reached(f) /\ ~Over(f, b, x) /\ y \in Reached(f)
        BY <1>1, <1>2, <1>5
    <2>2. x \in Range(pred[y])
        BY <1>2, <1>5, <2>1 DEF EdgesAgree, Functions
    <2>3. ~Over(f, b, y)
        BY <1>3, <2>1, <2>2
    <2>4. QED
        BY <1>1, <2>1, <2>3
<1>6. Reached(f) \subseteq S
    BY <1>2, <1>4, <1>5
<1>7. QED
    BY <1>1, <1>3, <1>6

LEMMA RegionsReduce ==
    ASSUME Graph, NEW n \in Nat, NEW rank, NEW body, Regions(n, rank, body),
           NEW f \in DOMAIN functions, BlocksOf(f) \subseteq Begun
    PROVE  Reducible(f, rank)
<1>1. /\ rank \in [Blocks -> 0 .. n] /\ GoesOn(rank, body) /\ LatchesLast(body)
      /\ Reached(f) \subseteq BlocksOf(f) /\ BlocksOf(f) \subseteq Blocks /\ FlowGraphTypeOK
    BY ReachedFacts DEF Regions, Graph, GraphInv
<1>2. ASSUME NEW b \in Reached(f), NEW u \in Range(pred[b])
      PROVE  rank[u] < rank[b] \/ u \in body[b]
    <2>1. b \in Begun
        BY <1>1
    <2>2. QED
        BY <1>1, <2>1 DEF GoesOn
<1>3. ASSUME NEW b \in Reached(f), NEW u \in Range(pred[b]) \cap Reached(f)
      PROVE  rank[u] < rank[b] \/ Over(f, b, u)
    BY <1>2, HeaderDominates
<1>4. ASSUME NEW b \in Reached(f) \ {Entry(f)}
      PROVE  \E p \in Range(pred[b]) \cap Reached(f) : p \notin body[b] /\ rank[p] < rank[b]
    <2>1. PICK p \in Range(pred[b]) \cap Reached(f) : ~Over(f, b, p)
        BY <1>4, ForwardEdge
    <2>2. p \notin body[b]
        BY <2>1, HeaderDominates
    <2>3. rank[p] < rank[b]
        BY <1>2, <2>2
    <2>4. QED
        BY <2>2, <2>3
<1>5. ASSUME NEW b \in Reached(f) \ {Entry(f)}
      PROVE  pred[b] # <<>> /\ rank[pred[b][1]] < rank[b]
    <2>1. PICK p \in Range(pred[b]) \cap Reached(f) : p \notin body[b]
        BY <1>4
    <2>2. PICK s \in Seq(Blocks) : s = pred[b]
        BY <1>1, ListFacts
    <2>3. PICK j \in DOMAIN s : s[j] = p
        BY <2>2 DEF Range
    <2>4. s # <<>> /\ DOMAIN s = 1 .. Len(s) /\ Len(s) \in Nat /\ 1 \in 1 .. Len(s) /\ j \in 1 .. Len(s)
          /\ (j # 1 => 1 < j)
        BY <2>2, <2>3
    <2>5. s[1] \notin body[b]
        BY <1>1, <2>1, <2>2, <2>3, <2>4 DEF LatchesLast
    <2>6. s[1] \in Range(s)
        BY <2>4 DEF Range
    <2>7. rank[s[1]] < rank[b]
        BY <1>2, <2>2, <2>5, <2>6
    <2>8. QED
        BY <2>2, <2>4, <2>7
<1>6. ASSUME NEW d
      PROVE  \A b : Over(f, d, b) /\ d # b => rank[d] < rank[b]
    <2>1. PICK T : T = {m \in 0 .. n : \A b \in Reached(f) : Over(f, d, b) /\ d # b /\ rank[b] <= m => rank[d] < rank[b]}
        OBVIOUS
    <2>2. ASSUME NEW m \in 0 .. n, NEW b \in Reached(f), Over(f, d, b), d # b, rank[b] <= m,
                 \A k \in 0 .. n : k < m => k \in T
          PROVE  rank[d] < rank[b]
        <3>1. b # Entry(f) /\ d \in Reached(f)
            BY <2>2, OverFacts
        <3>2. PICK p \in Range(pred[b]) \cap Reached(f) : rank[p] < rank[b]
            BY <1>4, <3>1
        <3>3. Over(f, d, p)
            BY <2>2, <3>2, OverFacts
        <3>4. rank[p] \in 0 .. n /\ rank[b] \in 0 .. n /\ rank[d] \in 0 .. n
            BY <1>1, <3>1
        <3>5. rank[p] < m
            BY <2>2, <3>2, <3>4
        <3>6. d # p => rank[d] < rank[p]
            BY <2>1, <2>2, <3>3, <3>4, <3>5
        <3>7. QED
            BY <3>2, <3>4, <3>6
    <2>3. 0 \in T
        BY <2>1, <2>2
    <2>4. ASSUME NEW m \in 0 .. n, m < n, \A k \in 0 .. m : k \in T
          PROVE  m + 1 \in T
        <3>1. m + 1 \in 0 .. n /\ \A k \in 0 .. n : k < m + 1 => k \in 0 .. m
            BY <2>4
        <3>2. QED
            BY <2>1, <2>2, <2>4, <3>1
    <2>5. n \in T
        <3>1. PICK U : U = {m \in 0 .. n : \A k \in 0 .. m : k \in T}
            OBVIOUS
        <3>2. 0 \in U
            BY <2>3, <3>1
        <3>3. ASSUME NEW m \in U, m < n PROVE m + 1 \in U
            <4>1. m \in 0 .. n /\ \A k \in 0 .. m : k \in T
                BY <3>1
            <4>2. m + 1 \in T
                BY <2>4, <3>3, <4>1
            <4>3. m + 1 \in 0 .. n /\ \A k \in 0 .. m + 1 : k \in 0 .. m \/ k = m + 1
                BY <3>3, <4>1
            <4>4. QED
                BY <3>1, <4>1, <4>2, <4>3
        <3>4. U \in SUBSET (0 .. n)
            BY <3>1
        <3>5. n \in U
            BY <3>2, <3>3, <3>4, IntervalInduction
        <3>6. QED
            BY <3>1, <3>5
    <2>6. \A b : Over(f, d, b) => b \in Reached(f) /\ rank[b] <= n
        BY <1>1 DEF Over
    <2>7. QED
        BY <2>1, <2>5, <2>6
<1>7. QED
    BY <1>1, <1>3, <1>5, <1>6 DEF Reducible

\* The blocks of finished functions were all begun.
LEMMA ProgramsReduce ==
    ASSUME BuilderInv, EntryAlone, RegionInv, open = <<>>
    PROVE  \E rank : \A f \in DOMAIN functions : Reducible(f, rank)
<1>1. Graph
    BY DEF Graph, GraphInv, BuilderInv, BuilderTypeOK
<1>2. PICK n, rank, body : n \in Nat /\ Regions(n, rank, body)
    BY DEF RegionInv
<1>3. \A f \in DOMAIN functions : BlocksOf(f) \subseteq Begun
    BY DEF BuilderInv, EndInv, EndedOrOwed, Begun
<1>4. QED
    BY <1>1, <1>2, <1>3, RegionsReduce

\* However a program is written, the flow graph of each of its functions can
\* be reduced, before the blocks nothing jumps to are erased and afterwards.
THEOREM EveryProgramReduces ==
    Spec => [](open = <<>> => \E rank : \A f \in DOMAIN functions : Reducible(f, rank))
<1>1. ProgramInv /\ EntryInv /\ RegionInv
         => (open = <<>> => \E rank : \A f \in DOMAIN functions : Reducible(f, rank))
    BY ProgramsReduce DEF ProgramInv, EntryInv
<1>2. QED
    BY <1>1, ProgramInvariant, EntryInvariant, RegionsHold, PTL

-----------------------------------------------------------------------------
\* The visits of the dfs never go back: each block among them comes before the
\* innermost one.
LEMMA StackRanks ==
    ASSUME Graph, WalkInv, DfsInv, stage = "dfs", NEW rank, Reducible(current, rank),
           NEW n \in Nat, n = Len(visits), NEW j \in 1 .. n, j # n
    PROVE  rank[visits[j]] < rank[visits[n]]
<1>1. /\ DOMAIN visits = 1 .. n /\ current \in DOMAIN functions /\ IsInjective(visits)
      /\ \A k \in 1 .. n : visits[k] \in Reached(current) /\ visits[k] \in Blocks
      /\ visits[1] = Entry(current)
      /\ \A k \in 2 .. n : visits[k - 1] \in Range(pred[visits[k]])
    <2>1. visits \in Seq(Blocks) /\ current \in DOMAIN functions
        BY DEF WalkInv, WalkTypeOK
    <2>2. DOMAIN visits = 1 .. n /\ visits # <<>>
        BY <2>1
    <2>3. \A k \in 1 .. n : visits[k] \in Range(visits)
        BY <2>2 DEF Range
    <2>4. QED
        BY <2>1, <2>2, <2>3 DEF DfsInv
<1>2. /\ \A d : Over(current, d, Entry(current)) => d = Entry(current)
      /\ \A d, b : \A p \in Range(pred[b]) \cap Reached(current) :
            Over(current, d, b) /\ d # b => Over(current, d, p)
    BY <1>1, OverFacts
<1> DEFINE Among(k) == \A d : Over(current, d, visits[k]) => \E i \in 1 .. k : visits[i] = d
<1>3. \A k \in 1 .. n : Among(k)
    <2>1. PICK U : U = {m \in 0 .. n : \A k \in 1 .. m : Among(k)}
        OBVIOUS
    <2>2. 0 \in U
        BY <2>1
    <2>3. ASSUME NEW m \in U, m < n
          PROVE  m + 1 \in U
        <3>1. /\ m \in 0 .. n /\ m + 1 \in 0 .. n /\ m + 1 \in 1 .. n
              /\ (m # 0 => m \in 1 .. m /\ m \in 1 .. n /\ m + 1 \in 2 .. n)
              /\ \A k \in 1 .. m + 1 : k \in 1 .. m \/ k = m + 1
            BY <2>1, <2>3
        <3>2. ASSUME NEW d, Over(current, d, visits[m + 1])
              PROVE  \E i \in 1 .. m + 1 : visits[i] = d
            <4>1. CASE m = 0
                BY <1>1, <1>2, <3>2, <4>1
            <4>2. CASE m # 0 /\ d # visits[m + 1]
                <5>1. visits[m] \in Range(pred[visits[m + 1]]) \cap Reached(current)
                    <6>1. (m + 1) - 1 = m
                        BY <3>1
                    <6>2. QED
                        BY <1>1, <3>1, <4>2, <6>1
                <5>2. Over(current, d, visits[m])
                    BY <1>2, <3>2, <4>2, <5>1
                <5>3. Among(m)
                    BY <2>1, <2>3, <3>1, <4>2
                <5>4. PICK i \in 1 .. m : visits[i] = d
                    BY <5>2, <5>3
                <5>5. i \in 1 .. m + 1
                    BY <3>1
                <5>6. QED
                    BY <5>4, <5>5
            <4>3. CASE d = visits[m + 1]
                <5>1. m + 1 \in 1 .. m + 1
                    BY <3>1
                <5>2. QED
                    BY <4>3, <5>1
            <4>4. QED
                BY <4>1, <4>2, <4>3
        <3>3. Among(m + 1)
            BY <3>2
        <3> HIDE DEF Among
        <3>4. QED
            BY <2>1, <2>3, <3>1, <3>3
    <2>4. U \in SUBSET (0 .. n)
        BY <2>1
    <2> HIDE DEF Among
    <2>5. n \in U
        BY <2>2, <2>3, <2>4, IntervalInduction
    <2>6. QED
        BY <2>1, <2>5
<1>4. ASSUME NEW k \in 2 .. n
      PROVE  rank[visits[k - 1]] < rank[visits[k]]
    <2>1. k - 1 \in 1 .. n /\ k \in 1 .. n /\ \A i \in 1 .. k - 1 : i \in 1 .. n /\ i # k
        BY <1>4
    <2>2. ~Over(current, visits[k], visits[k - 1])
        <3> SUFFICES ASSUME Over(current, visits[k], visits[k - 1])
                     PROVE  FALSE
            OBVIOUS
        <3>1. PICK i \in 1 .. k - 1 : visits[i] = visits[k]
            BY <1>3, <2>1
        <3>2. QED
            BY <1>1, <2>1, <3>1 DEF IsInjective
    <2> HIDE DEF Among
    <2>3. visits[k - 1] \in Range(pred[visits[k]]) \cap Reached(current) /\ visits[k] \in Reached(current)
        BY <1>1, <2>1
    <2>4. QED
        BY <2>2, <2>3 DEF Reducible
<1> HIDE DEF Among
<1> DEFINE After(k) == j < k => rank[visits[j]] < rank[visits[k]]
<1>5. After(n)
    <2>1. PICK U : U = {k \in 0 .. n : After(k)}
        OBVIOUS
    <2>2. 0 \in U
        BY <2>1
    <2>3. ASSUME NEW m \in U, m < n
          PROVE  m + 1 \in U
        <3>1. m \in 0 .. n /\ m + 1 \in 1 .. n /\ (m # 0 => m \in 1 .. n /\ m + 1 \in 2 .. n)
            BY <2>1, <2>3
        <3>2. m # 0 => rank[visits[m]] < rank[visits[m + 1]]
            <4>1. (m + 1) - 1 = m
                BY <3>1
            <4>2. QED
                BY <1>4, <3>1, <4>1
        <3>3. /\ m # 0 => rank[visits[m]] \in Nat
              /\ rank[visits[j]] \in Nat /\ rank[visits[m + 1]] \in Nat
            BY <1>1, <3>1 DEF Reducible
        <3>4. j < m + 1 => j = m \/ j < m
            BY <3>1
        <3>5. After(m + 1)
            BY <2>1, <2>3, <3>1, <3>2, <3>3, <3>4
        <3>6. QED
            BY <2>1, <3>1, <3>5
    <2>4. U \in SUBSET (0 .. n)
        BY <2>1
    <2> HIDE DEF After
    <2>5. n \in U
        BY <2>2, <2>3, <2>4, IntervalInduction
    <2>6. QED
        BY <2>1, <2>5
<1>6. QED
    BY <1>5

\* An edge leads to a block with a lower number, or to a dominator.
EdgesOrdered ==
    \A f \in DOMAIN functions : \A b \in Numbered \cap BlocksOf(f) : \A s \in Range(succ[b]) :
        Ahead(b, s) \/ Over(f, s, b)

LEMMA ReturnEdges ==
    ASSUME Graph, WalkInv, OrderInv, DfsInv, UNCHANGED graphVars, DfsReturn,
           NEW rank, Reducible(current, rank), EdgesOrdered
    PROVE  EdgesOrdered'
<1> PICK t : t = Last(visits)
    OBVIOUS
<1> PICK n : n = Len(visits)
    OBVIOUS
<1>1. /\ visits \in Seq(Blocks) /\ n \in Nat /\ DOMAIN visits = 1 .. n /\ n \in 1 .. n /\ t = visits[n]
      /\ stage = "dfs" /\ current \in DOMAIN functions /\ postOrder \in Seq(Blocks)
      /\ postOrder' = Append(postOrder, t)
    <2>1. /\ visits \in Seq(Blocks) /\ visits # <<>> /\ stage = "dfs" /\ current \in DOMAIN functions
          /\ postOrder \in Seq(Blocks) /\ postOrder' = Append(postOrder, t)
        BY DEF DfsReturn, WalkInv, WalkTypeOK, IdomTyped
    <2>2. n \in Nat /\ DOMAIN visits = 1 .. n /\ n \in 1 .. n /\ t = visits[n]
        BY <2>1 DEF Last
    <2>3. QED
        BY <2>1, <2>2
<1>2. t \in Blocks /\ t \in Range(visits) /\ t \in Reached(current) /\ t \in BlocksOf(current)
    <2>1. t \in Blocks /\ t \in Range(visits)
        BY <1>1 DEF Range
    <2>2. t \in Reached(current)
        BY <1>1, <2>1 DEF DfsInv
    <2>3. QED
        BY <1>1, <2>1, <2>2, ReachedFacts DEF Graph
<1>3. Range(succ[t]) \subseteq visited
    <2>1. succ[t] \in Seq(Blocks)
        BY <1>2, ListFacts DEF WalkInv
    <2>2. Range(Unvisited(t)) = Range(succ[t]) \ visited
        BY <2>1, WithoutFacts DEF Unvisited
    <2>3. Range(Unvisited(t)) = {}
        BY DEF DfsReturn, Range
    <2>4. QED
        BY <2>2, <2>3
<1>4. /\ Numbered' = Numbered \cup {t}
      /\ \A a, b : Ahead(a, b) => Ahead(a, b)'
      /\ \A b \in Numbered : Ahead(t, b)'
    BY <1>1, <1>2, AheadGrows
<1>5. ASSUME NEW s \in Range(succ[t])
      PROVE  Ahead(t, s)' \/ Over(current, s, t)
    <2>1. s \in visited
        BY <1>3
    <2>2. CASE s \notin Range(visits)
        <3>1. current \notin Walked
            BY <1>1 DEF Walked, WalkInv, FlowGraphTypeOK
        <3>2. s \in Numbered
            BY <1>1, <2>1, <2>2, <3>1 DEF OrderInv, NumberedOf
        <3>3. QED
            BY <1>4, <3>2
    <2>3. CASE s = t
        BY <1>1, <1>2, <2>3, OverFacts
    <2>4. CASE s \in Range(visits) /\ s # t
        <3>1. PICK j \in 1 .. n : s = visits[j] /\ j # n
            BY <1>1, <2>4 DEF Range
        <3>2. rank[s] < rank[t]
            BY <1>1, <3>1, StackRanks
        <3>3. s \in Reached(current) /\ rank[s] \in Nat /\ rank[t] \in Nat
            <4>1. s \in Reached(current)
                BY <1>1, <2>4 DEF DfsInv
            <4>2. s \in Blocks
                BY <1>1, <4>1, ReachedFacts DEF Graph
            <4>3. QED
                BY <1>2, <4>1, <4>2 DEF Reducible
        <3>4. t \in Range(pred[s]) \cap Reached(current)
            BY <1>1, <1>2 DEF Graph, GraphInv, EdgesAgree, Functions
        <3>5. rank[t] < rank[s] \/ Over(current, s, t)
            BY <3>3, <3>4 DEF Reducible
        <3>6. QED
            BY <3>2, <3>3, <3>5
    <2>5. QED
        BY <2>2, <2>3, <2>4
<1>6. ASSUME NEW f \in DOMAIN functions, NEW b \in Numbered' \cap BlocksOf(f), NEW s \in Range(succ[b])
      PROVE  Ahead(b, s)' \/ Over(f, s, b)
    <2>1. CASE b \in Numbered
        BY <1>4, <1>6, <2>1 DEF EdgesOrdered
    <2>2. CASE b = t
        <3>1. f = current
            BY <1>1, <1>2, <2>2 DEF Graph, GraphInv, Apart
        <3>2. QED
            BY <1>5, <2>2, <3>1
    <2>3. QED
        BY <1>4, <2>1, <2>2
<1>7. DOMAIN functions' = DOMAIN functions /\ succ' = succ /\ \A f : BlocksOf(f)' = BlocksOf(f)
    BY GraphStill DEF graphVars
<1>8. \A f, d, b : Over(f, d, b)' <=> Over(f, d, b)
    BY OverStill
<1>9. QED
    BY <1>6, <1>7, <1>8 DEF EdgesOrdered

Edges == pass = "loops" => EdgesOrdered

LEMMA EdgesStep ==
    ASSUME ProgramInv, AnalysisInv, EntryInv, Numbering, RegionInv, Edges, [Next]_vars
    PROVE  Edges'
<1> SUFFICES ASSUME pass' = "loops"
             PROVE  EdgesOrdered'
    BY DEF Edges
<1>1. CASE StartLoopDetection
    <2>1. postOrder' = <<>>
        BY <1>1 DEF StartLoopDetection, NewDominators
    <2>2. Numbered' = {}
        BY <2>1 DEF Numbered, Range
    <2>3. QED
        BY <2>2 DEF EdgesOrdered
<1>2. CASE pass = "loops" /\ UNCHANGED graphVars
    <2>1. Ordered /\ DfsInv /\ EdgesOrdered
        BY <1>2, OrderedNow DEF Edges
    <2>2. CASE DfsReturn
        <3>1. open = <<>> /\ BuilderInv /\ EntryAlone
            BY <1>2 DEF ProgramInv, EntryInv
        <3>2. PICK rank : \A f \in DOMAIN functions : Reducible(f, rank)
            BY <3>1, ProgramsReduce
        <3>3. current \in DOMAIN functions
            BY <2>1, <2>2 DEF DfsReturn, Ordered, WalkInv, WalkTypeOK
        <3>4. QED
            BY <1>2, <2>1, <2>2, <3>2, <3>3, ReturnEdges DEF Ordered
    <2>3. CASE postOrder' = postOrder
        <3>1. Numbered' = Numbered /\ \A a, b : Ahead(a, b)' <=> Ahead(a, b)
            BY <2>3 DEF Numbered, Ahead
        <3>2. DOMAIN functions' = DOMAIN functions /\ succ' = succ /\ \A f : BlocksOf(f)' = BlocksOf(f)
            BY <1>2, GraphStill DEF graphVars
        <3>3. \A f, d, b : Over(f, d, b)' <=> Over(f, d, b)
            BY <1>2, OverStill
        <3>4. QED
            BY <2>1, <3>1, <3>2, <3>3 DEF EdgesOrdered
    <2>4. CASE NextFunction
        <3>1. postOrder' = postOrder
            BY <2>4 DEF NextFunction, RunOnFunc
        <3>2. QED
            BY <2>3, <3>1
    <2>5. CASE DominatorsStep \/ FinishFunc
        <3>1. DfsReturn \/ postOrder' = postOrder
            BY <2>5 DEF DominatorsStep, FinishFunc, DfsEnter, StartIdom, IdomOfBlock, SweepAgain,
                        StartFrontier, FrontierOfBlock, CreateTree, TreeEnter, TreeReturn, domMaps
        <3>2. QED
            BY <2>2, <2>3, <3>1
    <2>6. CASE UNCHANGED dvars
        <3>1. postOrder' = postOrder
            BY <2>6 DEF dvars, domMaps
        <3>2. QED
            BY <2>3, <3>1
    <2>7. QED
        BY <1>1, <1>2, <2>4, <2>5, <2>6, AnalysisCases
<1>3. QED
    BY <1>1, <1>2, AnalysisCases

LEMMA EdgesHold == Spec => []Edges
<1>1. Init => Edges
    BY DEF Init, Edges
<1>2. Init => AnalysisInv
    BY DEF Init, AnalysisInv
<1>3. ProgramInv /\ AnalysisInv /\ [Next]_vars => AnalysisInv'
    BY AnalysisStep
<1>4. ProgramInv /\ AnalysisInv /\ EntryInv /\ Numbering /\ RegionInv /\ Edges /\ [Next]_vars => Edges'
    BY EdgesStep
<1>5. QED
    BY <1>1, <1>2, <1>3, <1>4, ProgramInvariant, EntryInvariant, NumberingHolds, RegionsHold, PTL DEF Spec

-----------------------------------------------------------------------------
\* No block of f that is reached has a predecessor that is not.
Closed(f) == \A b \in Reached(f) : Range(pred[b]) \subseteq Reached(f)

\* create_idom starts from the first predecessor of a block; the sweep passes
\* it before the block.
LEMMA FirstBefore ==
    ASSUME Ordered, EdgesOrdered, NEW f \in Walked, NEW rank, Reducible(f, rank),
           NEW b \in Reached(f) \ {Entry(f)}, Closed(f)
    PROVE  pred[b] # <<>> /\ Ahead(pred[b][1], b)
<1> PICK p : p = pred[b][1]
    OBVIOUS
<1>1. pred[b] # <<>> /\ rank[p] < rank[b]
    BY DEF Reducible
<1>2. /\ f \in DOMAIN functions /\ Reached(f) \subseteq Blocks /\ Reached(f) \subseteq Numbered
      /\ FlowGraphTypeOK /\ EdgesAgree /\ Reached(f) \subseteq BlocksOf(f)
    <2>1. f \in DOMAIN functions /\ Reached(f) \subseteq Blocks /\ Reached(f) \subseteq Numbered
        BY OrderedFacts
    <2>2. FlowGraphTypeOK /\ EdgesAgree /\ GraphInv
        BY DEF Ordered, Graph, GraphInv
    <2>3. QED
        BY <2>1, <2>2, ReachedFacts
<1>3. p \in Range(pred[b])
    <2>1. pred[b] \in Seq(Blocks)
        BY <1>2, ListFacts
    <2>2. 1 \in DOMAIN pred[b]
        BY <1>1, <2>1
    <2>3. QED
        BY <2>2 DEF Range
<1>4. p \in Reached(f) /\ b \in Range(succ[p])
    <2>1. p \in Reached(f)
        BY <1>3 DEF Closed
    <2>2. QED
        BY <1>2, <1>3, <2>1 DEF EdgesAgree, Functions
<1>5. rank[p] \in Nat /\ rank[b] \in Nat /\ b # p
    BY <1>1, <1>2, <1>4 DEF Reducible
<1>6. ~Over(f, b, p)
    BY <1>1, <1>5 DEF Reducible
<1>7. Ahead(p, b) \/ Over(f, b, p)
    BY <1>2, <1>4 DEF EdgesOrdered
<1>8. QED
    BY <1>1, <1>6, <1>7

\* So the entry of the first predecessor is there when create_idom looks at the
\* block, also where the sweep passes the functions analysed before.
LEMMA SweepGoesOn ==
    ASSUME Ordered, SweepInv, IdomOfBlock, EdgesOrdered,
           NEW rank, \A f \in DOMAIN functions : Reducible(f, rank),
           \A f \in Walked : Closed(f)
    PROVE  ~thrown'
<1> PICK b : b = postOrder[at]
    OBVIOUS
<1>1. stage = "idom" /\ at > 0 /\ ~thrown /\ IdomInv /\ Swept \subseteq Has
    BY DEF IdomOfBlock, SweepInv
<1>2. CASE b = Entry(current) \/ pred[b] = <<>>
    BY <1>1, <1>2 DEF IdomOfBlock
<1>3. CASE b # Entry(current) /\ pred[b] # <<>>
    <2>1. at \in Nat /\ at <= Len(postOrder) /\ postOrder \in Seq(Blocks) /\ IsInjective(postOrder)
        BY <1>1, OrderedTypes
    <2>2. at \in 1 .. Len(postOrder) /\ Len(postOrder) \in Nat /\ DOMAIN postOrder = 1 .. Len(postOrder)
        BY <1>1, <2>1
    <2>3. b \in Numbered
        BY <2>2 DEF Numbered, Range
    <2>4. PICK f \in Walked : b \in Reached(f)
        BY <1>1, <2>3, HomeFacts
    <2>5. f \in DOMAIN functions /\ b # Entry(f)
        BY <1>3, <2>4, OrderedFacts
    <2>6. PICK p : p = pred[b][1]
        OBVIOUS
    <2>7. Ahead(p, b)
        BY <2>4, <2>5, <2>6, FirstBefore
    <2>8. p \in Swept
        <3>1. PICK i \in DOMAIN postOrder, j \in DOMAIN postOrder :
                  j < i /\ postOrder[i] = p /\ postOrder[j] = b
            BY <2>7 DEF Ahead
        <3>2. j = at
            BY <2>1, <2>2, <3>1 DEF IsInjective
        <3>3. i \in at + 1 .. Len(postOrder)
            BY <2>2, <3>1, <3>2
        <3>4. QED
            BY <3>1, <3>3 DEF Swept
    <2>9. NewIdom(b) \in Has
        BY <1>1, <1>3, <2>4, <2>6, <2>8, NewIdomFrom
    <2>10. NoBlock \notin Has
        BY <2>4, OrderedFacts DEF Has
    <2>11. QED
        BY <1>3, <2>9, <2>10 DEF IdomOfBlock
<1>4. QED
    BY <1>2, <1>3

\* The runner does not stop at the block it stops before.
LEMMA RunnersExclude ==
    ASSUME IdomTyped, NEW p \in Blocks, NEW stop
    PROVE  stop \notin Runners(p, stop)
<1> DEFINE N == Len(postOrder)
<1>1. N \in Nat
    BY DEF IdomTyped
<1>2. PICK known \in [0 .. N -> SUBSET (Blocks \cup {NoBlock})] :
          /\ Runners(p, stop) = known[N] /\ known[0] = {p} \ {stop}
          /\ \A n \in 1 .. N : known[n] = known[n - 1] \cup ({idom[x] : x \in known[n - 1] \ {NoBlock}} \ {stop})
    BY RunnersSteps
<1> HIDE DEF N
<1>3. PICK S : S = {n \in 0 .. N : stop \notin known[n]}
    OBVIOUS
<1>4. 0 \in S
    BY <1>1, <1>2, <1>3
<1>5. ASSUME NEW n \in S, n < N
      PROVE  n + 1 \in S
    <2>1. n + 1 \in 1 .. N /\ n + 1 \in 0 .. N /\ (n + 1) - 1 = n
        BY <1>1, <1>3, <1>5
    <2>2. known[n + 1] = known[n] \cup ({idom[x] : x \in known[n] \ {NoBlock}} \ {stop})
        BY <1>2, <2>1
    <2>3. QED
        BY <1>3, <2>1, <2>2
<1>6. S \in SUBSET (0 .. N)
    BY <1>3
<1>7. N \in S
    BY <1>1, <1>4, <1>5, <1>6, IntervalInduction
<1>8. QED
    BY <1>2, <1>3, <1>7

\* One block of create_dominance_frontier: it ends in an exception only if a
\* predecessor of the block is not reached, and the block is.
LEMMA FrontierGoesOn ==
    ASSUME Ordered, SweepInv, FrontierOfBlock, NEW b, b = functions[current][at]
    PROVE  /\ Closed(current) => ~thrown'
           /\ ~thrown' /\ b \in Reached(current) => Range(pred[b]) \subseteq Reached(current)
<1> PICK f : f = current
    OBVIOUS
<1> DEFINE R == IF Len(pred[b]) < 2 THEN {}
                ELSE UNION {Runners(p, idom[b]) : p \in Range(pred[b])}
<1>1. stage = "frontier" /\ ~thrown /\ thrown' = (NoBlock \in R) /\ at <= Len(functions[f])
    BY DEF FrontierOfBlock
<1>2. IdomInv /\ \A g \in Finished : ExactIdom(g)
    BY <1>1 DEF SweepInv
<1>3. /\ f \in DOMAIN functions /\ f \in Walked /\ f \in Finished
      /\ at \in Nat \ {0} /\ FlowGraphTypeOK /\ EdgesAgree /\ postOrder # <<>> /\ IdomTyped /\ Apart
      /\ \A g \in DOMAIN functions : Reached(g) \subseteq BlocksOf(g) /\ BlocksOf(g) \subseteq Blocks
    <2>1. f \in DOMAIN functions /\ DOMAIN functions = 1 .. Len(functions) /\ Len(functions) \in Nat
          /\ IdomTyped
        BY <1>1, OrderedTypes
    <2>2. f \in Walked /\ f \in Finished
        BY <1>1, <2>1 DEF Walked, Finished
    <2>3. at \in Nat \ {0} /\ FlowGraphTypeOK /\ EdgesAgree /\ GraphInv /\ Apart
        BY <1>1 DEF Ordered, Graph, GraphInv, WalkInv, WalkTypeOK
    <2>4. Entry(f) \in Numbered
        BY <2>2, OrderedFacts
    <2>5. postOrder # <<>>
        BY <2>4 DEF Numbered, Range
    <2>6. QED
        BY <2>1, <2>2, <2>3, <2>5, ReachedFacts
<1>4. b \in BlocksOf(f) /\ b \in Blocks
    <2>1. functions[f] \in Seq(Blocks)
        BY <1>3, ListFacts
    <2>2. at \in DOMAIN functions[f]
        BY <1>1, <1>3, <2>1
    <2>3. QED
        BY <1>3, <2>2 DEF BlocksOf, Range
<1>5. /\ NoBlock \notin Blocks /\ Reached(f) \subseteq Blocks /\ pred[Entry(f)] = <<>>
      /\ Has \subseteq Numbered
      /\ b \in Reached(f) => Range(pred[b]) \cap Numbered \subseteq Reached(f)
    BY <1>2, <1>3, OrderedFacts DEF IdomInv
<1>6. pred[b] \in Seq(Blocks) /\ Len(pred[b]) \in Nat /\ DOMAIN pred[b] = 1 .. Len(pred[b])
      /\ Range(pred[b]) \subseteq Blocks
    <2>1. pred[b] \in Seq(Blocks) /\ Range(pred[b]) \subseteq Blocks
        BY <1>3, <1>4, ListFacts
    <2>2. QED
        BY <2>1
<1>7. ASSUME Closed(f), NoBlock \in R
      PROVE  FALSE
    <2>1. PICK p \in Range(pred[b]) : NoBlock \in Runners(p, idom[b])
        BY <1>7
    <2>2. p \in Blocks
        BY <1>6
    <2>3. CASE b \in Reached(f)
        <3>1. p \in Reached(f) /\ b # Entry(f)
            <4>1. pred[b] # <<>>
                BY DEF Range
            <4>2. QED
                BY <1>5, <1>7, <2>3, <4>1 DEF Closed
        <3>2. Over(f, NoBlock, p)
            BY <1>2, <1>3, <2>1, <2>3, <3>1, RunnersFacts
        <3>3. QED
            BY <1>5, <3>2 DEF Over
    <2>4. CASE b \notin Reached(f)
        <3>1. b \notin Has
            <4> SUFFICES ASSUME b \in Has
                         PROVE  FALSE
                OBVIOUS
            <4>1. PICK g \in Walked : b \in Reached(g)
                BY <1>2 DEF IdomInv
            <4>2. g \in DOMAIN functions
                BY HomeFacts
            <4>3. QED
                BY <1>3, <1>4, <2>4, <4>1, <4>2 DEF Apart
        <3>2. idom[b] = NoBlock
            BY <1>4, <3>1 DEF Has
        <3>3. QED
            BY <1>3, <2>1, <2>2, <3>2, RunnersExclude
    <2>5. QED
        BY <2>3, <2>4
<1>8. ASSUME NoBlock \notin R, b \in Reached(f), NEW p \in Range(pred[b])
      PROVE  p \in Reached(f)
    <2>1. b # Entry(f)
        <3>1. pred[b] # <<>>
            BY DEF Range
        <3>2. QED
            BY <1>5, <3>1
    <2>2. CASE Len(pred[b]) < 2
        <3>1. PICK q \in Range(pred[b]) \cap Reached(f) : Ahead(q, b)
            BY <1>3, <1>8, <2>1, OrderedFacts
        <3>2. PICK i \in 1 .. Len(pred[b]), j \in 1 .. Len(pred[b]) : pred[b][i] = p /\ pred[b][j] = q
            BY <1>6, <1>8, <3>1 DEF Range
        <3>3. i = j
            BY <1>6, <2>2
        <3>4. QED
            BY <3>1, <3>2, <3>3
    <2>3. CASE ~(Len(pred[b]) < 2)
        <3>1. b \in Has /\ idom[b] \in Reached(f)
            <4>1. b \in Has
                BY <1>3, <1>2, <1>4, <1>8, <2>1 DEF ExactIdom, Has
            <4>2. QED
                BY <1>2, <1>3, <1>8, <2>1, <4>1 DEF IdomInv, ClimbsRight
        <3>2. NoBlock \notin Runners(p, idom[b])
            BY <1>8, <2>3
        <3>3. idom[b] # p => p \in Has
            BY <1>3, <1>5, <1>6, <3>1, <3>2, RunnersAstray
        <3>4. QED
            BY <1>5, <1>8, <3>1, <3>3
    <2>4. QED
        BY <2>2, <2>3
<1>9. QED
    BY <1>1, <1>7, <1>8

\* What the analysis has found out about the predecessors of the blocks: as
\* long as it goes on, none of those it has passed is left out.
CausedInv ==
    IF thrown THEN ~Closed(current)
    ELSE /\ \A f \in Mapped : Closed(f)
         /\ stage = "frontier" => \A b \in Passed \cap Reached(current) : Range(pred[b]) \subseteq Reached(current)

Caused == IF pass = "loops" THEN CausedInv ELSE ~thrown

\* One block of create_dominance_frontier, or the end of the loop over them.
LEMMA FrontierCaused ==
    ASSUME Ordered, SweepInv, CausedInv, UNCHANGED graphVars, FrontierOfBlock \/ CreateTree
    PROVE  CausedInv'
<1> PICK f : f = current
    OBVIOUS
<1>1. /\ stage = "frontier" /\ ~thrown /\ current' = current
      /\ \A g \in Mapped : Closed(g)
      /\ \A b \in Passed \cap Reached(f) : Range(pred[b]) \subseteq Reached(f)
    BY DEF FrontierOfBlock, CreateTree, CausedInv
<1>2. /\ f \in DOMAIN functions /\ DOMAIN functions = 1 .. Len(functions) /\ Len(functions) \in Nat
      /\ at \in Nat \ {0} /\ functions[f] \in Seq(Blocks) /\ Reached(f) \subseteq BlocksOf(f)
    <2>1. /\ f \in DOMAIN functions /\ DOMAIN functions = 1 .. Len(functions) /\ Len(functions) \in Nat
          /\ FlowGraphTypeOK
        BY <1>1, OrderedTypes
    <2>2. at \in Nat \ {0} /\ GraphInv
        BY <1>1 DEF Ordered, Graph, WalkInv, WalkTypeOK
    <2>3. QED
        BY <2>1, <2>2, ReachedFacts, ListFacts
<1>3. /\ functions' = functions /\ pred' = pred
      /\ \A g : Reached(g)' = Reached(g) /\ (Closed(g)' <=> Closed(g))
    BY GraphStill DEF graphVars, Closed
<1>4. CASE FrontierOfBlock
    <2>1. PICK b : b = functions[f][at]
        OBVIOUS
    <2>2. stage' = "frontier" /\ at' = at + 1
        BY <1>4 DEF FrontierOfBlock
    <2>3. Mapped' = Mapped
        BY <1>1, <2>2 DEF Mapped
    <2>4. Passed' = Passed \cup {b}
        <3>1. 1 .. at' - 1 = (1 .. at - 1) \cup {at}
            BY <1>2, <2>2
        <3>2. Passed' = {functions[f][i] : i \in (1 .. at - 1) \cup {at}}
            BY <1>1, <1>3, <3>1 DEF Passed
        <3>3. QED
            BY <2>1, <3>2 DEF Passed
    <2>5. thrown' => ~Closed(f)
        BY <1>4, <2>1, FrontierGoesOn
    <2>6. ~thrown' /\ b \in Reached(f) => Range(pred[b]) \subseteq Reached(f)
        BY <1>4, <2>1, FrontierGoesOn
    <2>7. ~thrown' => \A c \in Passed' \cap Reached(f) : Range(pred[c]) \subseteq Reached(f)
        BY <1>1, <2>4, <2>6
    <2>8. QED
        BY <1>1, <1>3, <2>3, <2>5, <2>7 DEF CausedInv
<1>5. CASE CreateTree
    <2>1. stage' = "tree" /\ ~thrown' /\ at > Len(functions[f])
        BY <1>1, <1>5 DEF CreateTree
    <2>2. DOMAIN functions[f] \subseteq 1 .. at - 1
        BY <1>2, <2>1
    <2>3. BlocksOf(f) \subseteq Passed
        BY <2>2 DEF BlocksOf, Range, Passed
    <2>4. Closed(f)
        BY <1>1, <1>2, <2>3 DEF Closed
    <2>5. Mapped' = Mapped \cup {f}
        <3>1. (1 .. f) = (1 .. f - 1) \cup {f}
            BY <1>2
        <3>2. QED
            BY <1>1, <2>1, <3>1 DEF Mapped
    <2>6. QED
        BY <1>1, <1>3, <2>1, <2>4, <2>5 DEF CausedInv
<1>6. QED
    BY <1>4, <1>5

LEMMA CausedStep ==
    ASSUME ProgramInv, AnalysisInv, EntryInv, Numbering, RegionInv, Edges, Sweeps, Fronts, Caused, [Next]_vars
    PROVE  Caused'
<1>1. CASE pass' # "loops"
    <2>1. pass # "loops" /\ thrown' = thrown
        BY <1>1 DEF Next, Build, StartDeadCode, Passes, ClearBasicBlocks, ClearAgain, StartLoopDetection,
                    NextFunction, Analyse, Rest, vars, dvars
    <2>2. QED
        BY <1>1, <2>1 DEF Caused
<1>2. CASE StartLoopDetection
    <2>1. current' = 0 /\ stage' = "done" /\ ~thrown'
        BY <1>2 DEF StartLoopDetection, NewDominators
    <2>2. Mapped' = {}
        BY <2>1 DEF Mapped
    <2>3. CausedInv'
        BY <2>1, <2>2 DEF CausedInv
    <2>4. pass' = "loops"
        BY <1>2 DEF StartLoopDetection
    <2>5. QED
        BY <2>3, <2>4 DEF Caused
<1>3. CASE pass' = "loops" /\ pass = "loops" /\ UNCHANGED graphVars
    <2> SUFFICES CausedInv'
        BY <1>3 DEF Caused
    <2>1. Ordered /\ SweepInv /\ FrontInv /\ EdgesOrdered /\ CausedInv
        BY <1>3, OrderedNow DEF Sweeps, Fronts, Edges, Caused
    <2>2. current \in Int
        BY <2>1, OrderedTypes DEF Ordered, WalkInv, WalkTypeOK
    <2>3. /\ functions' = functions /\ pred' = pred
          /\ \A g : Reached(g)' = Reached(g) /\ (Closed(g)' <=> Closed(g))
        BY <1>3, GraphStill DEF graphVars, Closed
    <2>4. ASSUME Mapped' = Mapped, ~thrown, ~thrown', stage' # "frontier"
          PROVE  CausedInv'
        BY <2>1, <2>3, <2>4 DEF CausedInv
    <2>5. CASE NextFunction
        <3>1. RunOnFunc(cursor + 1) /\ cursor = current
            BY <2>1, <2>5 DEF NextFunction, Ordered
        <3>2. stage = "done" /\ stage' = "dfs" /\ current' = current + 1 /\ ~thrown /\ ~thrown'
            BY <3>1 DEF RunOnFunc
        <3>3. Mapped' = Mapped
            BY <2>2, <3>2 DEF Mapped
        <3>4. QED
            BY <2>4, <3>2, <3>3
    <2>6. CASE DfsEnter \/ DfsReturn \/ StartIdom \/ SweepAgain
        <3>1. /\ stage \in {"dfs", "idom"} /\ stage' \in {"dfs", "idom"} /\ UNCHANGED <<current, thrown>>
              /\ ~thrown
            BY <2>1, <2>6 DEF DfsEnter, DfsReturn, StartIdom, SweepAgain, FrontInv
        <3>2. Mapped' = Mapped
            BY <3>1 DEF Mapped
        <3>3. QED
            BY <2>4, <3>1, <3>2
    <2>7. CASE IdomOfBlock
        <3>1. stage = "idom" /\ stage' = "idom" /\ current' = current /\ ~thrown
            BY <2>7 DEF IdomOfBlock
        <3>2. Mapped' = Mapped /\ Mapped = 1 .. current - 1 /\ Walked = 1 .. current
            BY <3>1 DEF Mapped, Walked
        <3>3. thrown' => ~Closed(current)
            <4> SUFFICES ASSUME Closed(current)
                         PROVE  ~thrown'
                OBVIOUS
            <4>1. \A g \in Walked : g \in Mapped \/ g = current
                BY <2>2, <3>2
            <4>2. \A g \in Walked : Closed(g)
                BY <2>1, <3>1, <4>1 DEF CausedInv
            <4>3. open = <<>> /\ BuilderInv /\ EntryAlone
                BY <1>3 DEF ProgramInv, EntryInv
            <4>4. PICK rank : \A f \in DOMAIN functions : Reducible(f, rank)
                BY <4>3, ProgramsReduce
            <4>5. QED
                BY <2>1, <2>7, <4>2, <4>4, SweepGoesOn
        <3>4. QED
            BY <2>1, <2>3, <3>1, <3>2, <3>3 DEF CausedInv
    <2>8. CASE StartFrontier
        <3>1. stage = "idom" /\ stage' = "frontier" /\ ~thrown /\ ~thrown' /\ current' = current /\ at' = 1
            BY <2>8 DEF StartFrontier
        <3>2. Mapped' = Mapped /\ Passed' = {}
            BY <3>1 DEF Mapped, Passed
        <3>3. QED
            BY <2>1, <2>3, <3>1, <3>2 DEF CausedInv
    <2>9. CASE FrontierOfBlock \/ CreateTree
        BY <1>3, <2>1, <2>9, FrontierCaused
    <2>10. CASE TreeEnter \/ TreeReturn \/ FinishFunc
        <3>1. /\ UNCHANGED <<current, thrown>> /\ stage = "tree" /\ stage' \in {"tree", "done"}
            BY <2>10 DEF TreeEnter, TreeReturn, FinishFunc, domMaps, domLocals
        <3>2. Mapped' = Mapped /\ ~thrown
            BY <2>1, <3>1 DEF Mapped, FrontInv
        <3>3. QED
            BY <2>4, <3>1, <3>2
    <2>11. CASE UNCHANGED dvars
        <3>1. UNCHANGED <<current, stage, thrown, at>>
            BY <2>11 DEF dvars, domMaps, domLocals
        <3>2. Mapped' = Mapped /\ Passed' = Passed
            BY <2>3, <3>1 DEF Mapped, Passed
        <3>3. QED
            BY <2>1, <2>3, <3>1, <3>2 DEF CausedInv
    <2>12. QED
        BY <1>2, <1>3, <2>5, <2>6, <2>7, <2>8, <2>9, <2>10, <2>11, AnalysisCases DEF DominatorsStep, StartLoopDetection
<1>4. QED
    BY <1>1, <1>2, <1>3, AnalysisCases

\* The analysis ends in an exception only in a function that goes from a block
\* that is not reached to one that is; the order of the blocks never makes
\* create_idom start from a predecessor it comes to later.
THEOREM OnlyUnreachedBlocksThrow == Spec => []ThrowsOnlyForUnreached
<1>1. Init => Caused
    BY DEF Init, Caused
<1>2. Init => AnalysisInv
    BY DEF Init, AnalysisInv
<1>3. ProgramInv /\ AnalysisInv /\ [Next]_vars => AnalysisInv'
    BY AnalysisStep
<1>4. ProgramInv /\ AnalysisInv /\ EntryInv /\ Numbering /\ RegionInv /\ Edges /\ Sweeps /\ Fronts
         /\ Caused /\ [Next]_vars => Caused'
    BY CausedStep
<1>5. Caused => ThrowsOnlyForUnreached
    BY DEF Caused, CausedInv, ThrowsOnlyForUnreached, Closed
<1>6. QED
    BY <1>1, <1>2, <1>3, <1>4, <1>5, ProgramInvariant, EntryInvariant, NumberingHolds, RegionsHold,
       EdgesHold, SweepsHold, FrontsHold, PTL DEF Spec
=============================================================================
