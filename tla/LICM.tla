-------------------------------- MODULE LICM --------------------------------
(***************************************************************************)
(* LoopInvariantCodeMotion: what does not change in a loop moves to a      *)
(* preheader.  LoopDetection has run before; its results are the natural   *)
(* loops FlowGraph defines, each without the blocks of the loops in it.    *)
(***************************************************************************)
EXTENDS FuncInfo

CONSTANT HoistOrders  \* the Directions in which hoisted instructions may lie

VARIABLES
    loopOf,    \* header -> [func, blocks, backEdges, parent]
    loopDone,  \* is_loop_done_, the headers of the loops that are
    pureCalls, \* func_info_, computed when the pass begins
    crashed,   \* a null pointer was dereferenced
    ordered    \* history: in every preheader operands lie in front of their users

licmVars == <<loopOf, loopDone, pureCalls, crashed, ordered>>

LICMInit == loopOf = <<>> /\ loopDone = {} /\ pureCalls = {} /\ crashed = FALSE /\ ordered = TRUE

StartLICM ==
    LET doms == [f \in DOMAIN functions |-> Dominance(f)]
        headers == UNION {{f} \X LoopHeaders(doms[f]) : f \in DOMAIN functions}
        nests == UNION {NaturalLoops(f, doms[f]) : f \in DOMAIN functions}
        body(h) == {b \in Blocks : <<h, b>> \in nests}
        around(h) == {p[1] : p \in {p \in nests : p[2] = h /\ p[1] # h}}
        inside(h) == {p[2] : p \in {p \in headers : h \in around(p[2])}}
    IN
    /\ loopOf' = [h \in {p[2] : p \in headers} |->
            [func |-> CHOOSE f \in DOMAIN functions : h \in BlocksOf(f),
             blocks |-> body(h) \ UNION {body(x) : x \in inside(h)},
             backEdges |-> BackEdgeNodes(doms[CHOOSE f \in DOMAIN functions : h \in BlocksOf(f)], h),
             parent |-> IF around(h) = {} THEN NoBlock
                        ELSE CHOOSE x \in around(h) : around(h) \ {x} \subseteq around(x)]]
    /\ loopDone' = {} /\ pureCalls' = PureFunctions
    /\ UNCHANGED <<irVars, crashed, ordered>>

SubLoops(h) == {x \in DOMAIN loopOf : loopOf[x].parent = h}

\* The blocks of a loop and of the loops in it.
WholeLoop(h) ==
    LET grow[known \in SUBSET DOMAIN loopOf] ==
            LET more == known \cup UNION {SubLoops(x) : x \in known}
            IN  IF more = known THEN known ELSE grow[more]
    IN  UNION {loopOf[x].blocks : x \in grow[{h}]}

\* Mutant of MayMove: a load of a global variable moves across any call.
MayMoveAcross(i, inside) ==
    /\ i.op \notin {"alloca", "store", "ret", "br", "phi"}
    /\ ~IsImpureCall(i, pureCalls)
    /\ i.op = "load" => /\ i.args[1][1] = "global"
                        /\ \A s \in inside : s.op = "store" => s.args[2] # i.args[1]

\* The instructions that may move if their operands do not change; inside are
\* those in the loop.
MayMove(i, inside) ==
    /\ i.op \notin {"alloca", "store", "ret", "br", "phi"}
    /\ ~IsImpureCall(i, pureCalls)
    /\ i.op = "load" => /\ i.args[1][1] = "global"
                        /\ \A s \in inside : /\ s.op = "store" => s.args[2] # i.args[1]
                                             /\ ~IsImpureCall(s, pureCalls)

\* loop_invariant, by its ids.
Invariants(h) ==
    LET inside == InstructionsIn(WholeLoop(h))
        candidates == {i \in InstructionsIn(loopOf[h].blocks) : MayMove(i, inside)}
        ready(i, known) == \A k \in DOMAIN i.args :
            IsInst(i.args[k]) => i.args[k][3] \in known \/ i.args[k][3] \notin IdsOf(inside)
        spread[known \in SUBSET IdsOf(candidates)] ==
            LET more == {i.id : i \in {i \in candidates : ready(i, known)}}
            IN  IF more = known THEN known ELSE spread[more]
    IN  spread[{}]

FromOutside(h, pair) == pair[2][3] \notin loopOf[h].backEdges
MovedPairs(h, i) == SelectSeq(PhiPairs(i), LAMBDA p : FromOutside(h, p))

\* Mutant of PhiBehind: remove_phi_operand is not called.
PhiBehindAll(h, i, new, preheader) ==
    IF MovedPairs(h, i) = <<>> THEN i ELSE AddPhiPair(i, <<"inst", i.type, new>>, preheader)

\* A phi of the header h: what comes from outside comes from the phi new in
\* the preheader.
PhiBehind(h, i, new, preheader) ==
    IF MovedPairs(h, i) = <<>> THEN i
    ELSE AddPhiPair(WithPairs(i, SelectSeq(PhiPairs(i), LAMBDA p : ~FromOutside(h, p))),
                    <<"inst", i.type, new>>, preheader)

Entering(h) == Range(pred[h]) \ loopOf[h].backEdges

\* The phis of the preheader, the code there and the code elsewhere.
NewPhis(h) ==
    LET split == SelectSeq(PhisOf(h), LAMBDA i : MovedPairs(h, i) # <<>>)
    IN  [k \in DOMAIN split |-> WithPairs(PhiInst(NextId + k, split[k].type), MovedPairs(h, split[k]))]

NewIdOf(h, i) ==
    NextId + Cardinality({j \in 1 .. (CHOOSE k \in DOMAIN PhisOf(h) : PhisOf(h)[k] = i) :
                            MovedPairs(h, PhisOf(h)[j]) # <<>>})

Redirected(i, from, to) ==
    [i EXCEPT !.args = [k \in DOMAIN @ |-> IF @[k] = BlockOperand(from) THEN BlockOperand(to) ELSE @[k]]]

\* No instruction of the sequence lies in front of an operand of its own.
OperandsFirst(list) ==
    \A k, n \in DOMAIN list :
        (\E v \in Range(list[k].args) : IsInst(v) /\ v[3] = list[n].id) => n < k

\* The instructions go to the preheader in the order of loop_invariant, a
\* std::set of pointers: that of their addresses, which no line fixes.
Hoist(h, ids, preheader) ==
    LET stays(b) == SelectSeq(code[b], LAMBDA i : i.id \notin ids)
        changedIn(b, i) ==
            CASE b = h /\ i.op = "phi" -> PhiBehind(h, i, NewIdOf(h, i), preheader)
              [] b \in Entering(h) /\ i.op = "br" -> Redirected(i, h, preheader)
              [] OTHER -> i
        branch == [PhiInst(NextId, "void") EXCEPT !.op = "br", !.args = <<BlockOperand(h)>>]
        all == InstructionsIn(Blocks)
    IN  \E direction \in HoistOrders :
            LET hoisted == [k \in 1 .. Cardinality(ids) |->
                    CHOOSE i \in all : i.id = ByAddress(ids, direction)[k]]
            IN  /\ code' = Append([b \in Blocks |-> [k \in DOMAIN stays(b) |-> changedIn(b, stays(b)[k])]],
                                  NewPhis(h) \o hoisted \o <<branch>>)
                /\ ordered' = (ordered /\ OperandsFirst(hoisted))

\* The entering blocks go to the preheader, it to the header.
Rewire(h, preheader) ==
    LET to(b) == IF b \in Entering(h) THEN Append(SelectSeq(succ[b], LAMBDA x : x # h), preheader)
                                      ELSE succ[b]
    IN
    /\ succ' = Append([b \in Blocks |-> to(b)], <<h>>)
    /\ pred' = Append([pred EXCEPT ![h] = Append(SelectSeq(@, LAMBDA x : x \notin Entering(h)), preheader)],
                      SelectSeq(pred[h], LAMBDA x : x \in Entering(h)))

\* remove_operand goes through the operands behind the one it removes.
MeetsNull(h) == \E i \in Range(PhisOf(h)) : MovedPairs(h, i) # <<>> /\ Null \in Range(i.args)

\* run_on_loop, for a loop whose sub-loops are done.  A loop without invariants
\* gets a preheader, too, but nothing leads there.
RunOnLoop ==
    \E h \in DOMAIN loopOf \ loopDone :
        LET ids == Invariants(h)
            preheader == Len(succ) + 1
            parent == loopOf[h].parent
        IN
        /\ SubLoops(h) \subseteq loopDone
        /\ loopDone' = loopDone \cup {h}
        /\ functions' = [functions EXCEPT ![loopOf[h].func] = Append(@, preheader)]
        /\ IF ids = {}
           THEN /\ succ' = Append(succ, <<>>) /\ pred' = Append(pred, <<>>)
                /\ code' = Append(code, <<>>)
                /\ UNCHANGED <<loopOf, crashed, ordered>>
           ELSE /\ Hoist(h, ids, preheader) /\ Rewire(h, preheader)
                /\ crashed' = (crashed \/ MeetsNull(h))
                /\ loopOf' = IF parent = NoBlock THEN loopOf
                             ELSE [loopOf EXCEPT ![parent].blocks = @ \cup {preheader}]
        /\ UNCHANGED <<signatures, pureCalls>>

LICMDone == loopDone = DOMAIN loopOf
=============================================================================
