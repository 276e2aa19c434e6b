----------------------------- MODULE MIBuilder -----------------------------
(***************************************************************************)
(* Machine instructions with all their operands, what InstructionChecker   *)
(* demands of them, and the sequences MIBuilder emits for constants,       *)
(* addresses and stack slots.                                              *)
(*                                                                         *)
(* An operand is a triple: a register <<bank, kind, n>>, where kind "r" is *)
(* a physical register with its number on the machine and every other kind *)
(* is virtual; an immediate <<"imm", "", n>>; a label <<"label", "", n>>   *)
(* of block n or of the callee.  An operator that needs a temporary takes  *)
(* it as an argument: the caller sees to it that it is a new one.          *)
(***************************************************************************)
EXTENDS Words, Sequences, SequencesExt

CONSTANTS
    SavedGeneral,  \* how many of s0 .. s8 there are, 9 on the machine
    SavedFloat     \* how many of fs0 .. fs7 there are, 8 on the machine

ASSUME SavedAssumption == SavedGeneral \in 0 .. 9 /\ SavedFloat \in 0 .. 8

Imm(n) == <<"imm", "", n>>
Label(n) == <<"label", "", n>>
Virtual(bank, n) == <<bank, "v", n>>
General(n) == Virtual("General", n)
Float(n) == Virtual("Float", n)
Physical(bank, n) == <<bank, "r", n>>

zero == Physical("General", 0)
ra == Physical("General", 1)
sp == Physical("General", 3)
fp == Physical("General", 22)
a(i) == Physical("General", 4 + i)
fa(i) == Physical("Float", i)

SavedRegs == [i \in 1 .. SavedGeneral |-> Physical("General", 22 + i)]
             \o [i \in 1 .. SavedFloat |-> Physical("Float", 23 + i)]

\* Mutant of CalleeSavedRegs: ra is forgotten.
CalleeSavedRegsNoRa == SavedRegs

\* PhysicalRegister::callee_saved_regs: ra, s(0) .. s(8), fs(0) .. fs(7).
CalleeSavedRegs == <<ra>> \o SavedRegs

Banks == {"General", "Float", "FloatCmp"}

\* insert_instr outside a flagged stretch, with and without a suffix.
I(tag, ops) == <<[tag |-> tag, ops |-> ops, suffix |-> "NONE", flags |-> {}]>>
IS(tag, ops, suffix) == <<[tag |-> tag, ops |-> ops, suffix |-> suffix, flags |-> {}]>>

\* The same code emitted after set_flag.
Flagged(code, flags) == [k \in DOMAIN code |-> [code[k] EXCEPT !.flags = flags]]

-----------------------------------------------------------------------------
\* The table of InstructionChecker for the tags the compiler emits: the kinds
\* of the operands, the width of an immediate, whether it is signed, and the
\* suffixes allowed.
Requirement(tag) ==
    LET req(types, width, signed, suffixes) ==
            [types |-> types, width |-> width, signed |-> signed, suffixes |-> suffixes]
        G == "General"  F == "Float"  C == "FloatCmp"
        none == {"NONE"}  words == {"WORD", "DWORD"}
    IN
    CASE tag = "MOV" -> req(<<"register", "register">>, 0, TRUE, none)
      [] tag \in {"ADD", "SUB", "MUL", "DIV", "MOD"} -> req(<<G, G, G>>, 0, TRUE, words)
      [] tag = "ADDI" -> req(<<G, G, "imm">>, ImmBits, TRUE, words)
      [] tag \in {"SLLI", "SRLI", "SRAI"} -> req(<<G, G, "imm">>, ImmBits, FALSE, words)
      [] tag \in {"LU12I_W", "LU32I_D"} -> req(<<G, "imm">>, WordBits - ImmBits, TRUE, none)
      [] tag = "LU52I_D" -> req(<<G, G, "imm">>, ImmBits, TRUE, none)
      [] tag \in {"SLT", "AND", "OR", "XOR"} -> req(<<G, G, G>>, 0, TRUE, none)
      [] tag \in {"ANDI", "ORI", "XORI"} -> req(<<G, G, "imm">>, ImmBits, FALSE, none)
      [] tag \in {"BEQ", "BNE", "BLT", "BGE"} -> req(<<G, G, "label">>, 0, TRUE, none)
      [] tag = "BNEZ" -> req(<<G, "label">>, 0, TRUE, none)
      [] tag \in {"B", "BL"} -> req(<<"label">>, 0, TRUE, none)
      [] tag \in {"LD", "ST"} -> req(<<G, G, "imm">>, ImmBits, TRUE, {"BYTE", "HALF"} \cup words)
      [] tag = "JR" -> req(<<G>>, 0, TRUE, none)
      [] tag = "LA_LOCAL" -> req(<<G, "label">>, 0, TRUE, none)
      [] tag \in {"FADD_S", "FSUB_S", "FMUL_S", "FDIV_S"} -> req(<<F, F, F>>, 0, TRUE, none)
      [] tag \in {"FFINT_S_W", "FTINTRZ_W_S"} -> req(<<F, F>>, 0, TRUE, none)
      [] tag = "MOVGR2FR_W" -> req(<<F, G>>, 0, TRUE, none)
      [] tag = "MOVFR2GR_S" -> req(<<G, F>>, 0, TRUE, none)
      [] tag = "MOVCF2GR" -> req(<<G, C>>, 0, TRUE, none)
      [] tag \in {"FLD_S", "FST_S"} -> req(<<F, G, "imm">>, ImmBits, TRUE, none)
      [] tag \in {"FCMP_SEQ_S", "FCMP_SNE_S", "FCMP_SLT_S", "FCMP_SLE_S"} ->
            req(<<C, F, F>>, 0, TRUE, none)

\* InstructionChecker::check.  Of a MOV it asks only that both registers are
\* of one bank.
Check(i) ==
    LET req == Requirement(i.tag) IN
    /\ Len(i.ops) = Len(req.types)
    /\ i.suffix \in req.suffixes
    /\ \A k \in DOMAIN i.ops :
        LET op == i.ops[k] IN
        /\ IF req.types[k] = "register" THEN op[1] \in Banks ELSE op[1] = req.types[k]
        /\ op[1] = "imm" => IF req.signed THEN IsImmLength(op[3], req.width)
                                          ELSE IsUimmLength(op[3], req.width)
    /\ i.tag = "MOV" => i.ops[1][1] = i.ops[2][1]

\* The first operand is written (MachineInstr::has_dst).
Writes(i) == i.tag \notin {"B", "BL", "BEQ", "BNE", "BLT", "BGE", "BNEZ", "JR", "ST", "FST_S"}

-----------------------------------------------------------------------------
\* The upper part is zero: one instruction is enough.
IsShort(val) == val \div 2 ^ ImmBits = 0

LoadInt32(val, reg, tmp) ==
    LET low == Imm(Bits(val, ImmBits)) IN
    IF IsShort(val) THEN I("ORI", <<reg, zero, low>>)
    ELSE I("LU12I_W", <<tmp, Imm(val \div 2 ^ ImmBits)>>) \o I("ORI", <<reg, tmp, low>>)

\* The bits of a float go through a general register.
LoadFloat(bits, reg, tmp1, tmp2) ==
    LoadInt32(bits, tmp1, tmp2) \o I("MOVGR2FR_W", <<reg, tmp1>>)

\* Mutant of Reaches: the immediate is taken for an unsigned one.
ReachesUnsigned(val) == IsUimmLength(val, ImmBits)

\* The number fits the immediate of ADDI, LD and ST.
Reaches(val) == IsImmLength(val, ImmBits)

\* val fits an int: load_int64 is for frames and offsets beyond 2^31 bytes.
AddIntToReg(dst, src, val, tmp1, tmp2) ==
    CASE val = 0 /\ src = dst -> <<>>
      [] val = 0 /\ src # dst -> I("MOV", <<dst, src>>)
      [] val # 0 /\ Reaches(val) -> IS("ADDI", <<dst, src, Imm(val)>>, "DWORD")
      [] OTHER -> LoadInt32(val, tmp1, tmp2) \o IS("ADD", <<dst, src, tmp1>>, "DWORD")

\* A load or store at ptr + offset; the address beyond the reach of an
\* immediate is computed in the register its upper part was loaded into.
AtOffset(access(_, _), ptr, offset, tmp1, tmp2) ==
    IF Reaches(offset) THEN access(ptr, Imm(offset))
    ELSE LoadInt32(offset, tmp1, tmp2) \o IS("ADD", <<tmp1, ptr, tmp1>>, "DWORD")
                                       \o access(tmp1, Imm(0))

StoreToStack(reg, ptr, offset, suffix, tmp1, tmp2) ==
    LET access(base, imm) == IF reg[1] = "General" THEN IS("ST", <<reg, base, imm>>, suffix)
                                                   ELSE I("FST_S", <<reg, base, imm>>)
    IN  AtOffset(access, ptr, offset, tmp1, tmp2)

LoadFromStack(reg, ptr, offset, suffix, tmp1, tmp2) ==
    LET access(base, imm) == IF reg[1] = "General" THEN IS("LD", <<reg, base, imm>>, suffix)
                                                   ELSE I("FLD_S", <<reg, base, imm>>)
    IN  AtOffset(access, ptr, offset, tmp1, tmp2)
=============================================================================
