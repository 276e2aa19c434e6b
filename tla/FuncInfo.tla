------------------------------ MODULE FuncInfo ------------------------------
(***************************************************************************)
(* FuncInfo::run: the functions whose calls have no side effects.          *)
(***************************************************************************)
EXTENDS IRCode

\* get_first_addr: where the address v, which a load or a store of function f
\* uses, comes from.
FirstAddr(f, v) ==
    LET defs == InstructionsOf(f)
        from[x \in {v} \cup UNION {Range(i.args) : i \in defs}] ==
            LET def == CHOOSE i \in defs : i.id = x[3]
                pointers == SelectSeq(def.args, LAMBDA y : y[2] = "ptr")
            IN  CASE ~IsInst(x) \/ def.op \in {"alloca", "load"} -> x
                  [] def.op = "gep" -> from[def.args[1]]
                  [] OTHER -> IF pointers = <<>> THEN x ELSE from[pointers[1]]
    IN  from[v]

IsLocal(f, v) ==
    LET first == FirstAddr(f, v)
    IN  IsInst(first) /\ \E i \in InstructionsOf(f) : i.id = first[3] /\ i.op = "alloca"

IsSideEffect(f, i) ==
    \/ i.op = "store" /\ ~IsLocal(f, i.args[2])
    \/ i.op = "load" /\ ~IsLocal(f, i.args[1])

\* Pure as far as its own instructions show; an array makes a function impure.
TrivialMark(f) ==
    /\ signatures[f].name # "main"
    /\ Range(signatures[f].params) \subseteq {"i32", "float"}
    /\ \A i \in InstructionsOf(f) : ~IsSideEffect(f, i)

Calls(i, callees) == i.op = "call" /\ i.args[1][3] \in callees
Callers(callees) == {f \in DOMAIN functions : \E i \in InstructionsOf(f) : Calls(i, callees)}

\* process: what calls an impure function, a declaration for one, is impure too.
PureFunctions ==
    LET declared == {i.args[1][3] : i \in {i \in InstructionsIn(Blocks) : i.op = "call"}}
                        \ DOMAIN functions
        spread[impure \in SUBSET (declared \cup DOMAIN functions)] ==
            LET more == impure \cup Callers(impure)
            IN  IF more = impure THEN impure ELSE spread[more]
    IN  DOMAIN functions
            \ spread[declared \cup {f \in DOMAIN functions : ~TrivialMark(f)}]

IsImpureCall(i, pure) == i.op = "call" /\ i.args[1][3] \notin pure
=============================================================================
