------------------------ MODULE InstructionSelector ------------------------
(***************************************************************************)
(* InstructionSelector::run for one function: parameters, one gen_*        *)
(* handler per IR instruction, prologue and epilogue.                      *)
(*                                                                         *)
(* The IR function is a record of its parameter types, its return type and *)
(* its blocks, each a sequence of instructions                             *)
(*   op     the opcode      id     its number as a value                   *)
(*   type   of its result   args   its operands                            *)
(*   sizes  gep: the bytes an index step of each operand stands for;       *)
(*          alloca: the size of the variable                               *)
(* An IR operand is a triple <<kind, type, n>> of kind "int" or "fp" (a    *)
(* constant), "inst", "arg", "global", "block" or "func".                  *)
(*                                                                         *)
(* New registers are named by the place that asks for them, which makes    *)
(* them as unique as the counter of RegisterFactory does.                  *)
(***************************************************************************)
EXTENDS FrameLayout

VARIABLES
    func,       \* the IR function
    instrs,     \* machine code of each block, prologue and epilogue last
    at,         \* the block and the place in it gen_inst has come to
    tail,       \* how many instructions lie behind the insert point
    frameSize,  \* FrameScheduler::frame_size
    allocaMap,  \* FrameScheduler::alloca_map, a set of pairs
    rejected    \* InstructionChecker: an assertion failed

svars == <<func, instrs, at, tail, frameSize, allocaMap, rejected>>

Blocks == DOMAIN func.blocks
Prologue == Len(func.blocks) + 1
Epilogue == Len(func.blocks) + 2
InstOf(id) == CHOOSE i \in UNION {Range(func.blocks[b]) : b \in Blocks} : i.id = id
ICmpOps == {"eq", "ne", "gt", "ge", "lt", "le"}
FCmpOps == {"feq", "fne", "fgt", "fge", "flt", "fle"}

\* The uses of a value: pairs of a user and an operand place.
UseList(id) ==
    {u \in UNION {{<<i, k>> : k \in DOMAIN i.args} :
                  i \in UNION {Range(func.blocks[b]) : b \in Blocks}} :
        u[1].args[u[2]][1] = "inst" /\ u[1].args[u[2]][3] = id}

-----------------------------------------------------------------------------
Tmp(bank, k) == <<bank, "t", 10000 * at[1] + 100 * at[2] + k>>
T(k) == Tmp("General", k)

\* get_reg: the register of a value, and the code that fills it when it is a
\* constant or an address.  Temporaries k to k + 2.
GetReg(v, k) ==
    CASE v[1] = "inst" -> Virtual(BankOf(v[2]), v[3])
      [] v[1] = "arg" -> <<BankOf(v[2]), "p", v[3]>>
      [] OTHER -> Tmp(BankOf(v[2]), k)

GetRegCode(v, k) ==
    CASE v[1] = "int" -> LoadInt32(v[3], T(k), T(k + 1))
      [] v[1] = "fp" -> LoadFloat(FloatBits(v[3]), Tmp("Float", k), T(k + 1), T(k + 2))
      [] v[1] = "global" -> I("LA_LOCAL", <<T(k), Label(v[3])>>)
      [] OTHER -> <<>>

Dst(i) == Virtual(BankOf(i.type), i.id)

SuffixOf(type) ==
    CASE SizeOf(type) = 1 -> "BYTE" [] SizeOf(type) = 4 -> "WORD" [] OTHER -> "DWORD"
SlotSuffix(type) == IF SizeOf(type) = 8 THEN "DWORD" ELSE "WORD"

\* The code of two operands and of one instruction that reads both.
Operands2(i) == GetRegCode(i.args[1], 0) \o GetRegCode(i.args[2], 3)
Op1(i) == GetReg(i.args[1], 0)
Op2(i) == GetReg(i.args[2], 3)

Accepted(code) == \A k \in DOMAIN code : Check(code[k])

InsertBefore(list, n, code) ==
    SubSeq(list, 1, Len(list) - n) \o code \o SubSeq(list, Len(list) - n + 1, Len(list))

\* find_instr and get_instrs_end as a distance from the end of the list.
DistanceOfFirst(list, found) ==
    IF found = {} THEN 0 ELSE Len(list) - Min(found) + 1

-----------------------------------------------------------------------------
SelectorInit(functions) ==
    /\ func \in functions
    /\ instrs = [b \in 1 .. Epilogue |-> <<>>]
    /\ at = <<0, 1>> /\ tail = 0
    /\ frameSize = 0 /\ allocaMap = {} /\ rejected = FALSE

\* The insert point of a block: behind the copies of parameters and phis, in
\* front of what successors generated before have put there.
StartBlock(code, b) ==
    /\ at' = <<b, 1>>
    /\ tail' = DistanceOfFirst(code[b],
                  {k \in DOMAIN code[b] : code[b][k].flags \cap {"PHI", "ARGS"} = {}})

GenStoreParams ==
    LET places == ParamsSchedule(func.params).places
        one(k) == LET type == func.params[k]
                      reg == <<BankOf(type), "p", k>>
                  IN  IF places[k].onStack
                      THEN LoadFromStack(reg, fp, places[k].offset, SlotSuffix(type),
                                         T(2 * k), T(2 * k + 1))
                      ELSE I("MOV", <<reg, places[k].reg>>)
        code == Flagged(FlattenSeq([k \in DOMAIN func.params |-> one(k)]), {"ARGS"})
    IN
    /\ at[1] = 0
    /\ instrs' = [instrs EXCEPT ![1] = code]
    /\ rejected' = ~Accepted(code)
    /\ StartBlock(instrs', 1)
    /\ UNCHANGED <<func, frameSize, allocaMap>>

Here == func.blocks[at[1]][at[2]]
AtInst(ops) ==
    /\ at[1] \in Blocks /\ at[2] <= Len(func.blocks[at[1]])
    /\ Here.op \in ops

\* insert_instr at the insert point for all of the code, then the next one.
Emit(code) ==
    /\ instrs' = [instrs EXCEPT ![at[1]] = InsertBefore(@, tail, code)]
    /\ rejected' = (rejected \/ ~Accepted(code))
    /\ at' = [at EXCEPT ![2] = @ + 1]
    /\ UNCHANGED <<func, tail>>

Gen(ops, code(_)) == AtInst(ops) /\ Emit(code(Here)) /\ UNCHANGED <<frameSize, allocaMap>>

NextBlock ==
    /\ at[1] \in Blocks /\ at[2] > Len(func.blocks[at[1]])
    /\ at[1] < Len(func.blocks)
    /\ StartBlock(instrs, at[1] + 1)
    /\ UNCHANGED <<func, instrs, frameSize, allocaMap, rejected>>

-----------------------------------------------------------------------------
GenRet == Gen({"ret"}, LAMBDA i :
    (IF i.args = <<>> THEN I("MOV", <<a(0), zero>>)
     ELSE GetRegCode(i.args[1], 0)
          \o I("MOV", <<IF i.args[1][2] = "float" THEN fa(0) ELSE a(0), Op1(i)>>))
    \o I("B", <<Label(Epilogue)>>))

\* Mutant of InOrder: the operands of gt and le are not exchanged.
InOrderAsIs(cmp) == cmp

\* gen_br asks for the operands of gt and le in the opposite order.
InOrder(cmp) == IF cmp.op \in {"gt", "le"} THEN [cmp EXCEPT !.args = Reverse(@)] ELSE cmp

FusedTag == [eq |-> "BEQ", ne |-> "BNE", gt |-> "BLT", ge |-> "BGE", lt |-> "BLT", le |-> "BGE"]

\* A branch goes to the end of the block, behind the copies for phis; a
\* comparison of ints is done by the branch itself.
BranchCode(i) ==
    IF Len(i.args) = 1 THEN I("B", <<Label(i.args[1][3])>>)
    ELSE LET cond == i.args[1]
             yes == Label(i.args[2][3])
             cmp == InOrder(InstOf(cond[3]))
         IN  (IF cond[1] = "inst" /\ cmp.op \in ICmpOps
              THEN Operands2(cmp) \o I(FusedTag[cmp.op], <<Op1(cmp), Op2(cmp), yes>>)
              ELSE GetRegCode(cond, 0) \o I("BNEZ", <<GetReg(cond, 0), yes>>))
             \o I("B", <<Label(i.args[3][3])>>)

GenBr ==
    /\ AtInst({"br"})
    /\ instrs' = [instrs EXCEPT ![at[1]] = @ \o BranchCode(Here)]
    /\ rejected' = (rejected \/ ~Accepted(BranchCode(Here)))
    /\ at' = [at EXCEPT ![2] = @ + 1]
    /\ UNCHANGED <<func, tail, frameSize, allocaMap>>

GenBinary ==
    LET tag == [add |-> "ADD", sub |-> "SUB", mul |-> "MUL", sdiv |-> "DIV", srem |-> "MOD"]
    IN  Gen(DOMAIN tag, LAMBDA i :
            Operands2(i) \o IS(tag[i.op], <<Dst(i), Op1(i), Op2(i)>>, "WORD"))

GenFloatBinary ==
    LET tag == [fadd |-> "FADD_S", fsub |-> "FSUB_S", fmul |-> "FMUL_S", fdiv |-> "FDIV_S"]
    IN  Gen(DOMAIN tag, LAMBDA i :
            Operands2(i) \o I(tag[i.op], <<Dst(i), Op1(i), Op2(i)>>))

\* Mutant of Place: what the frame holds already is forgotten.
PlaceAnew(size) == InsertAlloca(0, size)

Place(size) == InsertAlloca(frameSize, size)

GenAlloca ==
    /\ AtInst({"alloca"})
    /\ frameSize' = Place(Here.sizes[1])
    /\ allocaMap' = allocaMap \cup {<<Here.id, frameSize'>>}
    /\ Emit(AddIntToReg(Dst(Here), fp, -frameSize', T(0), T(1)))

GenLoad == Gen({"load"}, LAMBDA i :
    GetRegCode(i.args[1], 0)
    \o (IF i.type = "float" THEN I("FLD_S", <<Dst(i), Op1(i), Imm(0)>>)
        ELSE IS("LD", <<Dst(i), Op1(i), Imm(0)>>, SuffixOf(i.type))))

GenStore == Gen({"store"}, LAMBDA i :
    Operands2(i)
    \o (IF i.args[1][2] = "float" THEN I("FST_S", <<Op1(i), Op2(i), Imm(0)>>)
        ELSE IS("ST", <<Op1(i), Op2(i), Imm(0)>>, SuffixOf(i.args[1][2]))))

\* The one user of a comparison is a branch, which does it itself.
OnlyForBranch(id) == \E u \in UseList(id) : UseList(id) = {u} /\ u[1].op = "br"

ICmpCode(i) ==
    LET d == Dst(i)  x == Op1(i)  y == Op2(i)
        less(r, p, q) == I("SLT", <<r, p, q>>)
        not(r, p) == I("XORI", <<r, p, Imm(1)>>)
        differ(r) == less(T(6), x, y) \o less(T(7), y, x) \o I("OR", <<r, T(6), T(7)>>)
    IN
    CASE i.op = "eq" -> differ(T(8)) \o not(d, T(8))
      [] i.op = "ne" -> differ(d)
      [] i.op = "gt" -> less(d, y, x)
      [] i.op = "ge" -> less(T(6), x, y) \o not(d, T(6))
      [] i.op = "lt" -> less(d, x, y)
      [] i.op = "le" -> less(T(6), y, x) \o not(d, T(6))

GenICmp == Gen(ICmpOps, LAMBDA i :
    IF OnlyForBranch(i.id) THEN <<>> ELSE Operands2(i) \o ICmpCode(i))

GenFCmp ==
    LET tag == [feq |-> "FCMP_SEQ_S", fne |-> "FCMP_SNE_S", fgt |-> "FCMP_SLT_S",
                fge |-> "FCMP_SLE_S", flt |-> "FCMP_SLT_S", fle |-> "FCMP_SLE_S"]
        c == Tmp("FloatCmp", 6)
    IN  Gen(FCmpOps, LAMBDA i :
            Operands2(i)
            \o (IF i.op \in {"fgt", "fge"} THEN I(tag[i.op], <<c, Op2(i), Op1(i)>>)
                                           ELSE I(tag[i.op], <<c, Op1(i), Op2(i)>>))
            \o I("MOVCF2GR", <<Dst(i), c>>))

\* A copy for a phi goes in front of the first B or BNEZ.
CopyPlace(list) == DistanceOfFirst(list, {k \in DOMAIN list : list[k].tag \in {"B", "BNEZ"}})

\* A register that every predecessor copies its value to, and the phi reads.
GenPhi ==
    /\ AtInst({"phi"})
    /\ LET tmp == Tmp(BankOf(Here.type), 99)
           copy(p) == GetRegCode(Here.args[2 * p - 1], 3 * p)
                      \o I("MOV", <<tmp, GetReg(Here.args[2 * p - 1], 3 * p)>>)
           step(code, p) == LET b == Here.args[2 * p][3] IN
                [code EXCEPT ![b] = InsertBefore(@, CopyPlace(@), copy(p))]
           pairs == [p \in 1 .. (Len(Here.args) \div 2) |-> p]
           copies == FoldLeft(step, instrs, pairs)
           mov == Flagged(I("MOV", <<Dst(Here), tmp>>), {"PHI"})
       IN  /\ instrs' = [copies EXCEPT ![at[1]] = InsertBefore(@, tail, mov)]
           /\ rejected' = (rejected \/ ~Accepted(mov)
                           \/ \E p \in Range(pairs) : ~Accepted(copy(p)))
    /\ at' = [at EXCEPT ![2] = @ + 1]
    /\ UNCHANGED <<func, tail, frameSize, allocaMap>>

CallCode(i) ==
    LET types == [k \in 1 .. (Len(i.args) - 1) |-> i.args[k + 1][2]]
        schedule == ParamsSchedule(types)
        pass(k) ==
            LET v == i.args[k + 1]  place == schedule.places[k]  t == 6 * k IN
            GetRegCode(v, t)
            \o (IF place.onStack
                THEN StoreToStack(GetReg(v, t), sp, place.offset, SlotSuffix(v[2]), T(t + 3), T(t + 4))
                ELSE I("MOV", <<place.reg, GetReg(v, t)>>))
    IN
    AddIntToReg(sp, sp, -schedule.size, T(0), T(1))
    \o FlattenSeq([k \in DOMAIN types |-> pass(k)])
    \o I("BL", <<Label(i.args[1][3])>>)
    \o AddIntToReg(sp, sp, schedule.size, T(2), T(3))
    \o (CASE i.type = "void" -> <<>>
          [] i.type = "float" -> I("MOV", <<Dst(i), fa(0)>>)
          [] OTHER -> I("MOV", <<Dst(i), a(0)>>))

GenCall == Gen({"call"}, CallCode)

\* One index of a gep: the address so far and the code.  Bound: no constant
\* index is negative, as in every program C gives a meaning; the product of
\* the code is an unsigned int.
GepStep(i, acc, k) ==
    LET idx == i.args[k]  size == i.sizes[k - 1]  next == T(10 * k) IN
    [reg |-> next,
     code |-> acc.code \o
        (IF idx[1] = "int" THEN AddIntToReg(next, acc.reg, idx[3] * size, T(10 * k + 1), T(10 * k + 2))
         ELSE (IF IsPowerOf2OrZero(size)
               THEN IS("SLLI", <<T(10 * k + 3), GetReg(idx, 0), Imm(FirstBit(size) - 1)>>, "WORD")
               ELSE LoadInt32(size, T(10 * k + 4), T(10 * k + 5))
                    \o IS("MUL", <<T(10 * k + 3), GetReg(idx, 0), T(10 * k + 4)>>, "WORD"))
              \o IS("ADD", <<next, acc.reg, T(10 * k + 3)>>, "DWORD"))]

GenGep == Gen({"gep"}, LAMBDA i :
    LET all == FoldLeft(LAMBDA acc, k : GepStep(i, acc, k),
                        [reg |-> Op1(i), code |-> GetRegCode(i.args[1], 0)],
                        [k \in 1 .. Len(i.sizes) |-> k + 1])
    IN  all.code \o I("MOV", <<Dst(i), all.reg>>))

\* gen_zext and gen_bitcast.
GenMove == Gen({"zext", "bitcast"}, LAMBDA i :
    GetRegCode(i.args[1], 0) \o I("MOV", <<Dst(i), Op1(i)>>))

GenSiToFp == Gen({"sitofp"}, LAMBDA i :
    GetRegCode(i.args[1], 0) \o I("MOVGR2FR_W", <<Tmp("Float", 6), Op1(i)>>)
    \o I("FFINT_S_W", <<Dst(i), Tmp("Float", 6)>>))

GenFpToSi == Gen({"fptosi"}, LAMBDA i :
    GetRegCode(i.args[1], 0) \o I("FTINTRZ_W_S", <<Tmp("Float", 6), Op1(i)>>)
    \o I("MOVFR2GR_S", <<Dst(i), Tmp("Float", 6)>>))

-----------------------------------------------------------------------------
SavedIn(reg) == <<reg[1], "s", reg[3]>>
FpSaved == <<"General", "s", 0>>

PrologueCode ==
    I("MOV", <<FpSaved, fp>>) \o I("MOV", <<fp, sp>>)
    \o Flagged(AddIntToReg(sp, sp, -Align(frameSize, 16), T(0), T(1)), {"FRAME"})
    \o Flagged(I("MOV", <<zero, zero>>), {"FRAME", "RESERVED"})
    \o FlattenSeq([k \in DOMAIN CalleeSavedRegs |->
            I("MOV", <<SavedIn(CalleeSavedRegs[k]), CalleeSavedRegs[k]>>)])
    \o I("B", <<Label(1)>>)

EpilogueCode ==
    FlattenSeq([k \in DOMAIN CalleeSavedRegs |->
            I("MOV", <<CalleeSavedRegs[k], SavedIn(CalleeSavedRegs[k])>>)])
    \o I("MOV", <<sp, fp>>) \o I("MOV", <<fp, FpSaved>>) \o I("JR", <<ra>>)

GenPrologueEpilogue ==
    /\ at[1] = Len(func.blocks) /\ at[2] > Len(func.blocks[at[1]])
    /\ instrs' = [instrs EXCEPT ![Prologue] = PrologueCode, ![Epilogue] = EpilogueCode]
    /\ rejected' = (rejected \/ ~Accepted(PrologueCode \o EpilogueCode))
    /\ frameSize' = Align(frameSize, 16)
    /\ at' = <<Prologue, 1>>
    /\ UNCHANGED <<func, tail, allocaMap>>

SelectorNext ==
    \/ GenStoreParams \/ NextBlock \/ GenPrologueEpilogue
    \/ GenRet \/ GenBr \/ GenBinary \/ GenFloatBinary \/ GenAlloca \/ GenLoad \/ GenStore
    \/ GenICmp \/ GenFCmp \/ GenPhi \/ GenCall \/ GenGep \/ GenMove \/ GenSiToFp \/ GenFpToSi

Selected == at[1] = Prologue
=============================================================================
