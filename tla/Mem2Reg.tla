------------------------------- MODULE Mem2Reg -------------------------------
(***************************************************************************)
(* Mem2Reg: local variables that are no arrays become values.  Dominators  *)
(* has run before; its results are those FlowGraph defines.                *)
(***************************************************************************)
EXTENDS IRCode

VARIABLES
    func,      \* func_, 0 before the first one
    dom,       \* the dominance pairs of the function
    varStack,  \* var_stack_: variable -> its definitions, the latest last
    phiMap,    \* phi_map_: phi -> variable
    walk       \* the calls of rename: [block, children still to be renamed]

mem2regVars == <<func, dom, varStack, phiMap, walk>>

Mem2RegInit == func = 0 /\ dom = {} /\ varStack = <<>> /\ phiMap = <<>> /\ walk = <<>>

StartMem2Reg ==
    /\ func' = 0 /\ dom' = {} /\ varStack' = <<>> /\ phiMap' = <<>> /\ walk' = <<>>
    /\ UNCHANGED irVars

Top(s) == s[Len(s)]
StoreBlocks(v) == {Parent(i) : i \in {i \in Uses(<<"inst", "ptr", v.id>>) : i.op = "store"}}

\* Mutant of DefinitionBlocks: the blocks that load the variable count as well.
UseBlocks(v) == {Parent(v)} \cup {Parent(i) : i \in Uses(<<"inst", "ptr", v.id>>)}

DefinitionBlocks(v) == {Parent(v)} \cup StoreBlocks(v)

\* The dominance frontier of the definitions, and of the phis placed there.
PhiBlocks(dominance, v) ==
    LET frontier(blocks) == UNION {DominanceFrontier(dominance, b) : b \in blocks}
        spread[defs \in SUBSET Blocks] ==
            LET more == defs \cup frontier(defs) IN IF more = defs THEN frontier(defs) ELSE spread[more]
    IN  spread[DefinitionBlocks(v)]

\* The variables with definitions in several blocks get phis at the front of
\* the blocks where these meet, one variable after the other.
GeneratePhi ==
    /\ walk = <<>> /\ func < Len(functions)
    /\ func' = func + 1
    /\ \E direction \in Directions :
        LET dominance == Dominance(func + 1)
            allocas == {i \in InstructionsOf(func + 1) : i.op = "alloca"}
            names == {i \in allocas : Cardinality(DefinitionBlocks(i)) > 1}
            order == ByAddress(IdsOf(names), direction)
            blocks == [v \in IdsOf(names) |-> PhiBlocks(dominance, CHOOSE i \in names : i.id = v)]
            rank(v) == CHOOSE k \in DOMAIN order : order[k] = v
            phiId(v, b) == NextId + rank(v) * Len(succ) + b
            type(v) == (CHOOSE i \in names : i.id = v).elem
            phis(b) == Reverse(SelectSeq(order, LAMBDA v : b \in blocks[v]))
        IN  /\ dom' = dominance
            /\ code' = [b \in Blocks |->
                            [k \in DOMAIN phis(b) |-> PhiInst(phiId(phis(b)[k], b), type(phis(b)[k]))]
                            \o code[b]]
            /\ phiMap' = [p \in UNION {{phiId(v, b) : b \in blocks[v]} : v \in IdsOf(names)} |->
                            CHOOSE v \in IdsOf(names) : \E b \in blocks[v] : phiId(v, b) = p]
            /\ varStack' = [v \in IdsOf(allocas) |-> <<>>]
            /\ walk' = <<[block |-> NoBlock, children |-> {Entry(func + 1)}]>>
    /\ UNCHANGED <<functions, succ, pred, signatures>>

\* is_valid_ptr: the address is neither a global variable nor a gep.
IsValidPtr(v) ==
    /\ v[1] # "global"
    /\ ~(IsInst(v) /\ \E i \in InstructionsOf(func) : i.id = v[3] /\ i.op = "gep")

IsVariableStore(i) == i.op = "store" /\ IsValidPtr(i.args[2])
IsVariableLoad(i) == i.op = "load" /\ IsValidPtr(i.args[1])

\* Steps three to five for one instruction: acc has the stacks and the values
\* that replace the loads met so far.
Renamed(acc, i) ==
    LET now(v) == IF IsInst(v) /\ v[3] \in DOMAIN acc.values THEN acc.values[v[3]] ELSE v
        push(v, x) == [acc EXCEPT !.stack[v] = Append(@, x)]
    IN
    CASE i.op = "phi" -> push(phiMap[i.id], <<"inst", i.type, i.id>>)
      [] IsVariableStore(i) -> push(i.args[2][3], now(i.args[1]))
      [] IsVariableLoad(i) /\ acc.stack[i.args[1][3]] # <<>> ->
            [acc EXCEPT !.values = (i.id :> Top(acc.stack[i.args[1][3]])) @@ @]
      [] OTHER -> acc

\* Step six: the phi gets the latest definition in b, if there is one.
PhiFrom(i, stack, b) ==
    IF i.op # "phi" \/ stack[phiMap[i.id]] = <<>> THEN i
    ELSE AddPhiPair(i, Top(stack[phiMap[i.id]]), b)

\* rename is called for a block.
RenameEnter ==
    /\ walk # <<>>
    /\ \E b \in Top(walk).children :
        LET done == FoldLeft(Renamed, [stack |-> varStack, values |-> <<>>], code[b])
            replaced == Replaced(code, done.values)
        IN  /\ varStack' = done.stack
            /\ code' = [x \in Blocks |->
                            IF x \in Range(succ[b])
                            THEN [k \in DOMAIN replaced[x] |-> PhiFrom(replaced[x][k], done.stack, b)]
                            ELSE replaced[x]]
            /\ walk' = Append([walk EXCEPT ![Len(walk)].children = @ \ {b}],
                              [block |-> b,
                               children |-> {c \in BlocksOf(func) : IsImmediateDominator(dom, b, c)}])
    /\ UNCHANGED <<functions, succ, pred, signatures, func, dom, phiMap>>

\* Mutant of Pops: the definitions by phis stay on the stack.
PopsStores(i, v) == IsVariableStore(i) /\ i.args[2][3] = v

\* Step eight: what the instructions of the block pushed goes.
Pops(i, v) == (i.op = "phi" /\ phiMap[i.id] = v) \/ (IsVariableStore(i) /\ i.args[2][3] = v)

\* rename returns, step nine behind it: the loads and stores of variables go.
RenameReturn ==
    /\ walk # <<>> /\ Top(walk).children = {}
    /\ LET b == Top(walk).block
           body == IF b = NoBlock THEN <<>> ELSE code[b]
           pops(v) == Len(SelectSeq(body, LAMBDA i : Pops(i, v)))
       IN  /\ varStack' = [v \in DOMAIN varStack |->
                               SubSeq(varStack[v], 1, Len(varStack[v]) - pops(v))]
           /\ code' = Deleted(code, IdsOf({i \in Range(body) : IsVariableStore(i) \/ IsVariableLoad(i)}))
    /\ walk' = Front(walk)
    /\ UNCHANGED <<functions, succ, pred, signatures, func, dom, phiMap>>

Mem2RegDone == walk = <<>> /\ func = Len(functions)
=============================================================================
