------------------------------- MODULE MIDCE -------------------------------
(***************************************************************************)
(* MIDeadCodeElimination: one liveness analysis, then sweeps over the      *)
(* blocks, each from its last instruction to its first, until a sweep      *)
(* removes nothing.  Every sweep starts a block from the live-out set of   *)
(* the one analysis, which grows stale as instructions go.                 *)
(*                                                                         *)
(* Instructions keep the positions they had when the pass began; kept is   *)
(* the set of those still in the list.  One step is one iteration of the   *)
(* innermost loop, or what lies between two of them.                       *)
(***************************************************************************)
EXTENDS LivenessAnalysis

CONSTANTS
    SP,           \* the stack pointer
    Blocks        \* func->get_basic_blocks(): the blocks in list order

ASSUME MIDCEAssumption ==
    /\ SP \in Phys
    /\ Blocks \in Seq(Block) /\ Range(Blocks) = Block

VARIABLES
    phase,        \* "analyse", "sweep" or "done"
    kept,         \* block -> positions of the instructions still in its list
    block,        \* index in Blocks of the block being swept
    inst,         \* position of the instruction inst_ points to, 0 for rend()
    use_set,      \* registers read behind inst_
    changed

sweepVars == <<phase, kept, block, inst, use_set, changed>>
dceVars == <<vars, sweepVars>>

\* The position, or 0, of the last kept instruction of block b in front of
\* position n: a set of one element.
Previous(b, n) ==
    {m \in kept[b] \cup {0} : m < n /\ \A k \in kept[b] : k <= m \/ k >= n}

Instruction == func.code[Blocks[block]][inst]

\* MIDeadCodeElimination::run: the analysis is finished before the first sweep.
Analyse == phase = "analyse" /\ Visit /\ UNCHANGED sweepVars

\* Mutant of Enter: the sweep starts from the live-in set.
EnterLiveIn(n) ==
    LET b == Blocks[n]
    IN  /\ block' = n
        /\ inst' \in Previous(b, Len(func.code[b]) + 1)
        /\ use_set' = live_in[b]

\* The sweep enters the n-th block of the list at its last instruction.
Enter(n) ==
    LET b == Blocks[n]
    IN  /\ block' = n
        /\ inst' \in Previous(b, Len(func.code[b]) + 1)
        /\ use_set' = live_out[b]

StartSweeps ==
    /\ phase = "analyse" /\ Done
    /\ phase' = "sweep" /\ changed' = FALSE
    /\ Enter(1)
    /\ UNCHANGED <<vars, kept>>

IsDead(i) == GetDef(i) \cap (use_set \cup {FP, SP}) = {}

Erasable(i) == IsDead(i) /\ HasDst(i) /\ ~i.reserved

\* Mutant of Erase: what the erased instruction reads is inserted as well.
EraseAndUse ==
    /\ phase = "sweep" /\ inst # 0 /\ Erasable(Instruction)
    /\ kept' = [kept EXCEPT ![Blocks[block]] = @ \ {inst}]
    /\ inst' \in Previous(Blocks[block], inst)
    /\ changed' = TRUE
    /\ use_set' = use_set \cup GetUse(Instruction)
    /\ UNCHANGED <<vars, phase, block>>

Erase ==
    /\ phase = "sweep" /\ inst # 0 /\ Erasable(Instruction)
    /\ kept' = [kept EXCEPT ![Blocks[block]] = @ \ {inst}]
    /\ inst' \in Previous(Blocks[block], inst)
    /\ changed' = TRUE
    /\ UNCHANGED <<vars, phase, block, use_set>>

\* Mutants of ReadBefore: the definitions are taken out after the uses are put
\* in; the zero register is put in.
DefAfterUse(i) == (use_set \cup GetUse(i)) \ GetDef(i)
ZeroToo(i) == (use_set \ GetDef(i)) \cup GetUseZero(i)

ReadBefore(i) == (use_set \ GetDef(i)) \cup GetUse(i)

Keep ==
    /\ phase = "sweep" /\ inst # 0 /\ ~Erasable(Instruction)
    /\ use_set' = ReadBefore(Instruction)
    /\ inst' \in Previous(Blocks[block], inst)
    /\ UNCHANGED <<vars, phase, kept, block, changed>>

NextBlock ==
    /\ phase = "sweep" /\ inst = 0 /\ block < Len(Blocks)
    /\ Enter(block + 1)
    /\ UNCHANGED <<vars, phase, kept, changed>>

\* Mutant of NextSweep: changed is not reset.
NextSweepStill ==
    /\ phase = "sweep" /\ inst = 0 /\ block = Len(Blocks)
    /\ IF changed
          THEN Enter(1) /\ UNCHANGED <<phase, changed>>
          ELSE phase' = "done" /\ UNCHANGED <<changed, block, inst, use_set>>
    /\ UNCHANGED <<vars, kept>>

NextSweep ==
    /\ phase = "sweep" /\ inst = 0 /\ block = Len(Blocks)
    /\ IF changed
          THEN changed' = FALSE /\ Enter(1) /\ UNCHANGED phase
          ELSE phase' = "done" /\ UNCHANGED <<changed, block, inst, use_set>>
    /\ UNCHANGED <<vars, kept>>

DceInit ==
    /\ Init
    /\ phase = "analyse"
    /\ kept = [b \in Block |-> DOMAIN func.code[b]]
    /\ block = 1 /\ inst = 0 /\ use_set = {} /\ changed = FALSE

DceNext == Analyse \/ StartSweeps \/ Erase \/ Keep \/ NextBlock \/ NextSweep

DceSpec == DceInit /\ [][DceNext]_dceVars /\ WF_dceVars(DceNext)
-----------------------------------------------------------------------------
(***************************************************************************)
(* Correctness.                                                            *)
(***************************************************************************)

\* The types of the variables of the sweeps.
DceTypeOK ==
    /\ phase \in {"analyse", "sweep", "done"}
    /\ \A b \in Block : kept[b] \subseteq DOMAIN func.code[b]
    /\ block \in 1 .. Len(Blocks)
    /\ inst \in kept[Blocks[block]] \cup {0}
    /\ use_set \subseteq Reg
    /\ changed \in BOOLEAN

Removal == INSTANCE DeadCodeRemoval WITH func <- func, kept <- kept

\* No instruction but one on FP or SP reads the register it writes: for such
\* an instruction get_use does not say what is read.
NoSelfRead(functions) ==
    \A f \in functions : \A b \in Block : \A k \in DOMAIN f.code[b] :
        Removal!Reads(f.code[b][k]) \subseteq GetUse(f.code[b][k]) \cup {FP, SP}

\* The pass removes instructions one at a time, each dead in the code that is
\* left at that moment, although it asks live sets that are older.
ImplementsRemoval == Removal!Spec

\* What a removed instruction wrote is read by no instruction still there.
RemovedStayDead == Removal!RemovedStayDead

\* Registers read in block b before they are written, or in the live-out set,
\* behind position n of the code that is left.
ReadLater(b, n) ==
    LET before(k) == {j \in kept[b] : n < j /\ j < k}
        written(S) == UNION {GetDef(func.code[b][j]) : j \in S}
    IN  (live_out[b] \ written({j \in kept[b] : j > n}))
            \cup UNION {GetUse(func.code[b][k]) \ written(before(k)) :
                          k \in {k \in kept[b] : k > n}}

\* One sweep finds everything these live sets allow, chains of dead
\* instructions in a block included: the second one only confirms it.
OneSweepEnough ==
    phase = "done" \/ (phase = "sweep" /\ inst = 0 /\ block = Len(Blocks)) =>
        \A b \in Block : \A k \in kept[b] :
            LET i == func.code[b][k]
            IN  HasDst(i) /\ ~i.reserved =>
                    GetDef(i) \cap (ReadLater(b, k) \cup {FP, SP}) # {}

\* The sweeps end.
DceTermination == <>(phase = "done")
=============================================================================
