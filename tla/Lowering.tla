------------------------------ MODULE Lowering ------------------------------
(***************************************************************************)
(* The lowering of a function, from its IR to machine code with virtual    *)
(* registers: InstructionSelector, then PeepholeOptimization.  When it is  *)
(* done the function is run twice on some arguments, once as IR and once   *)
(* as machine code, and what a caller can see must be the same.            *)
(***************************************************************************)
EXTENDS InstructionSelector, LoongArch

CONSTANTS
    ArgLists,     \* the values, ints or halves, of the first, second, ... argument
    CallAnswers   \* what the functions it calls return, one call after the other

VARIABLES
    stage,    \* "select", "peephole", "call", "interpret", "execute", "left"
    cursor,   \* of the peephole optimisation
    ir,       \* the function run as IR
    machine   \* the function run as machine code

lvars == <<svars, stage, cursor, ir, machine>>
runVars == <<ir, machine>>

Peephole == INSTANCE PeepholeOptimization
    WITH instrs <- instrs, cursor <- cursor, rejected <- rejected

NoRun == [left |-> FALSE]

LoweringInit(functions) ==
    /\ SelectorInit(functions)
    /\ stage = "select" /\ cursor = <<1, 1>>
    /\ ir = NoRun /\ machine = NoRun

\* A failed assertion of the checker ends the compiler.
Select ==
    /\ stage = "select" /\ ~rejected
    /\ SelectorNext
    /\ stage' = IF at'[1] = Prologue THEN "peephole" ELSE "select"
    /\ UNCHANGED <<cursor, runVars>>

PeepholeSweep ==
    /\ stage = "peephole" /\ ~rejected
    /\ \/ Peephole!Optimize
       \/ Peephole!NextBlock
    /\ stage' = IF cursor'[1] > Epilogue THEN "call" ELSE "peephole"
    /\ UNCHANGED <<func, at, tail, frameSize, allocaMap, runVars>>

\* The compiled function is called.
Run ==
    /\ stage = "call"
    /\ \E args \in {SubSeq(list, 1, Len(func.params)) : list \in ArgLists} :
        /\ ir' = Started(func.params, args, 1, CallAnswers, GlobalWords)
        /\ machine' = Entered(func.params, args, Prologue, CallAnswers)
    /\ stage' = "interpret"
    /\ UNCHANGED <<svars, cursor>>

InterpretStep ==
    /\ stage = "interpret"
    /\ ir' = Interpret(func.blocks, <<>>, ir)
    /\ stage' = IF ir'.left THEN "execute" ELSE "interpret"
    /\ UNCHANGED <<svars, cursor, machine>>

\* A program whose behaviour is undefined is not run.
ExecuteStep ==
    /\ stage = "execute" /\ ~ir.undefined
    /\ machine' = Execute(machine, instrs)
    /\ stage' = IF machine'.left THEN "left" ELSE "execute"
    /\ UNCHANGED <<svars, cursor, ir>>

\* The compiler has aborted, or the program has ended.
Finished ==
    /\ rejected \/ stage = "left" \/ (stage = "execute" /\ ir.undefined)
    /\ UNCHANGED lvars

LoweringNext == Select \/ PeepholeSweep \/ Run \/ InterpretStep \/ ExecuteStep \/ Finished

-----------------------------------------------------------------------------
\* What is being built is machine code, and the frame only grows.
LoweringTypeOK ==
    /\ stage \in {"select", "peephole", "call", "interpret", "execute", "left"}
    /\ \A b \in DOMAIN instrs : \A k \in DOMAIN instrs[b] :
        /\ instrs[b][k].suffix \in {"NONE", "BYTE", "HALF", "WORD", "DWORD"}
        /\ \A n \in DOMAIN instrs[b][k].ops : instrs[b][k].ops[n][1] \in Banks \cup {"imm", "label"}
    /\ frameSize \in Nat /\ rejected \in BOOLEAN
    /\ \A pair \in allocaMap : pair[2] <= frameSize

Agreement ==
    /\ machine.log = ir.log
    /\ ReturnedTo(machine, func.ret) = ir.result

\* The machine code makes the calls the IR makes, in the same order with the
\* same arguments, and returns the same result.  Excepted are runs in which a
\* negative number was divided by a shift that does not come out even.
ComputesTheSame == stage = "left" /\ ~machine.rounded => Agreement

\* The same without exception.
DividesTowardsZero == stage = "left" => Agreement

\* A function that is left has restored every register of its caller, and its
\* caller's frame is what it was.
RestoresCaller ==
    stage = "left" =>
        /\ \A r \in Preserved : RegValue(machine, r) = CallerValue(r)
        /\ \A x \in DOMAIN machine.callerMem :
                x \in DOMAIN machine.mem /\ machine.mem[x] = machine.callerMem[x]

\* Every access to memory is at a multiple of its size, and every call with
\* the stack pointer at a multiple of 16.
AccessesAligned == stage \in {"execute", "left"} => ~machine.misaligned

\* The two instructions of the IR whose peephole replacement can be refused: an
\* addition of a constant on the left that ORI reaches and ADDI does not, and a
\* division by the constant 0.
BeyondADDI(i) == /\ i.op = "add" /\ i.args[1][1] = "int"
                 /\ i.args[1][3] \in 2 ^ (ImmBits - 1) .. 2 ^ ImmBits - 1
ByZero(i) == i.op = "sdiv" /\ i.args[2][1] = "int" /\ i.args[2][3] = 0

\* InstructionChecker accepts every instruction the passes make of a function
\* without one of those two.
InstructionsAccepted ==
    rejected => \E b \in Blocks : \E i \in Range(func.blocks[b]) : BeyondADDI(i) \/ ByZero(i)
=============================================================================
