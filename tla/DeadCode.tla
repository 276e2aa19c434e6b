------------------------------ MODULE DeadCode ------------------------------
(***************************************************************************)
(* DeadCode::run: as long as something changes, the blocks without         *)
(* predecessors are erased and the instructions no critical one needs.     *)
(***************************************************************************)
EXTENDS FuncInfo

VARIABLES
    pureFuncs,  \* func_info, computed when the pass begins
    sweepAt,    \* the function it stands at
    changed     \* the flag of run

deadCodeVars == <<pureFuncs, sweepAt, changed>>

DeadCodeInit == pureFuncs = {} /\ sweepAt = 0 /\ changed = FALSE

StartDeadCode ==
    /\ pureFuncs' = PureFunctions
    /\ sweepAt' = 1 /\ changed' = FALSE
    /\ UNCHANGED irVars

\* clear_basic_blocks: what it erases.
ToErase(f) == {b \in BlocksOf(f) \ {Entry(f)} : pred[b] = <<>>}

IsCritical(i) == i.op \in {"br", "ret", "store"} \/ IsImpureCall(i, pureFuncs)

\* mark: what the critical instructions among these need, directly or not.
Marked(instructions) ==
    LET operands(marked) == {v[3] : v \in {v \in UNION {Range(i.args) : i \in marked} : IsInst(v)}}
        spread[marked \in SUBSET instructions] ==
            LET more == marked \cup {i \in instructions : i.id \in operands(marked)}
            IN  IF more = marked THEN marked ELSE spread[more]
    IN  spread[{i \in instructions : IsCritical(i)}]

\* One round of run for one function; mark and sweep see the blocks that are left.
DeadCodeOnFunc ==
    LET gone == ToErase(sweepAt)
        left == InstructionsIn(BlocksOf(sweepAt) \ gone)
        unmarked == left \ Marked(left)
    IN
    /\ sweepAt \in DOMAIN functions
    /\ RemoveBlocks(sweepAt, gone)
    /\ code' = Deleted(DeletedBlocks(code, gone), IdsOf(unmarked))
    /\ changed' = (changed \/ gone # {} \/ unmarked # {})
    /\ sweepAt' = sweepAt + 1
    /\ UNCHANGED <<signatures, pureFuncs>>

\* Mutant of DeadCodeAgain: the flag is not reset.
DeadCodeAgainStill ==
    /\ sweepAt > Len(functions) /\ changed
    /\ sweepAt' = 1
    /\ UNCHANGED <<irVars, pureFuncs, changed>>

DeadCodeAgain ==
    /\ sweepAt > Len(functions) /\ changed
    /\ sweepAt' = 1 /\ changed' = FALSE
    /\ UNCHANGED <<irVars, pureFuncs>>

DeadCodeDone == sweepAt > Len(functions) /\ ~changed
=============================================================================
