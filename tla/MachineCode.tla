---------------------------- MODULE MachineCode ----------------------------
(***************************************************************************)
(* Machine instructions as the back-end passes see them: which registers   *)
(* an instruction reads and writes (MachineInstr::get_use, get_def) and    *)
(* which ones a basic block reads before writing, and the converse         *)
(* (MachineBasicBlock::get_use, get_def).                                  *)
(*                                                                         *)
(* An instruction is a record                                              *)
(*   tag       its opcode; the opcodes that behave alike are one tag:      *)
(*             "OP" for every computation or load, "BR" for every branch   *)
(*             other than calls and returns, "ST" for ST and FST_S         *)
(*   ops       its register operands in order (immediates and labels are   *)
(*             no registers and are left out)                              *)
(*   implicit  the registers an instruction reads without naming them: the *)
(*             parameter registers of the callee of a BL, the result       *)
(*             register of the function a JR returns from                  *)
(*   reserved  the IS_RESERVED flag: the instruction marks a place and is  *)
(*             not to be removed                                           *)
(***************************************************************************)
EXTENDS Registers, Integers, Sequences, FiniteSets, Functions

CONSTANTS
    Zero,         \* the constant-zero register, never a use nor a definition
    RA,           \* the return-address register
    FP,           \* the frame pointer
    CalleeSaved,  \* PhysicalRegister::callee_saved_regs()
    CallerSaved   \* PhysicalRegister::caller_saved_regs()

ASSUME MachineAssumption ==
    /\ Zero \notin Virt \cup Phys
    /\ RA \in Phys /\ FP \in Phys
    /\ CalleeSaved \subseteq Phys
    /\ CallerSaved \subseteq Phys

Tag == {"MOV", "OP", "ST", "BR", "BL", "JR"}

\* MachineInstr::has_dst: the first operand is written.
HasDst(i) == i.tag \in {"MOV", "OP"}

Instr ==
    {i \in [tag : Tag, ops : Seq(Reg \cup {Zero}), implicit : SUBSET Phys,
            reserved : BOOLEAN] :
        HasDst(i) => Len(i.ops) >= 1}

\* Mutant of GetUse: the zero register counts as a use.
GetUseZero(i) ==
    CASE i.tag = "BL" -> i.implicit
      [] i.tag = "JR" -> CalleeSaved \cup i.implicit
      [] OTHER -> {r \in Range(i.ops) : HasDst(i) => r # i.ops[1]}

\* An operand equal to the destination is not counted as a use, also when it
\* is read: get_use compares every operand with operands[0].
GetUse(i) ==
    CASE i.tag = "BL" -> i.implicit
      [] i.tag = "JR" -> CalleeSaved \cup i.implicit
      [] OTHER -> {r \in Range(i.ops) \ {Zero} : HasDst(i) => r # i.ops[1]}

GetDef(i) ==
    CASE i.tag = "BL" -> CallerSaved \cup {RA}
      [] HasDst(i) -> {i.ops[1]} \ {Zero}
      [] OTHER -> {}

\* MachineBasicBlock::get_use: read by an instruction before the block
\* writes it.
BlockUse(code) ==
    {r \in UNION {GetUse(code[k]) : k \in DOMAIN code} : \E k \in DOMAIN code :
        /\ r \in GetUse(code[k])
        /\ \A j \in 1 .. (k - 1) : r \notin GetDef(code[j])}

\* MachineBasicBlock::get_def: written by an instruction before the block
\* reads it; the writing instruction's own reads come first.
BlockDef(code) ==
    {r \in UNION {GetDef(code[k]) : k \in DOMAIN code} : \E k \in DOMAIN code :
        /\ r \in GetDef(code[k])
        /\ \A j \in 1 .. k : r \notin GetUse(code[j])}
=============================================================================
