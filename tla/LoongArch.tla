----------------------------- MODULE LoongArch -----------------------------
(***************************************************************************)
(* External: what the machine does with the instructions the compiler      *)
(* emits, and what a function that is called may do to registers and       *)
(* memory.  Memory is a set of cells; a cell is read with the size it was  *)
(* written with or is Junk.                                                *)
(***************************************************************************)
EXTENDS FrameLayout, IRMeaning, Bitwise

CONSTANTS
    Signatures,  \* callee -> [params, ret], types
    GlobalWords  \* global variable -> the words it is initialised with

StackTop == 2 ^ (WordBits - 1)            \* sp when the function is entered
GlobalAddress(n) == 2 ^ (2 * WordBits - 3) + 16 * n

\* The registers a function must restore: ra, sp, fp, s0 to s8, fs0 to fs7.
Preserved == {Physical("General", n) : n \in {1, 3} \cup 22 .. 31}
             \cup {Physical("Float", n) : n \in 24 .. 31}

RegValue(m, r) == IF r = zero THEN 0 ELSE IF r \in DOMAIN m.regs THEN m.regs[r] ELSE Junk
SetReg(m, r, v) == IF r = zero THEN m ELSE [m EXCEPT !.regs = (r :> v) @@ @]

Restricted(f, S) == [x \in DOMAIN f \cap S |-> f[x]]
MachineCell(m, address, size) ==
    IF address \in DOMAIN m.mem /\ m.mem[address][1] = size THEN m.mem[address][2] ELSE Junk
SetCell(m, address, size, v) ==
    LET apart == {x \in DOMAIN m.mem : x + m.mem[x][1] <= address \/ address + size <= x}
    IN  [m EXCEPT !.mem = (address :> <<size, v>>) @@ Restricted(@, apart),
                  !.misaligned = @ \/ address % size # 0]

Bytes(suffix) ==
    CASE suffix = "BYTE" -> 1 [] suffix = "HALF" -> 2 [] suffix = "DWORD" -> 8 [] OTHER -> 4

\* The value an instruction other than a jump or a store writes.
Result(m, i) ==
    LET val(k) == IF i.ops[k][1] \in {"imm", "label"} THEN i.ops[k][3] ELSE RegValue(m, i.ops[k])
        x == val(2)  y == val(3)
        f == Halves(x)  g == Halves(y)
        sized(n) == IF i.suffix = "WORD" THEN Word(n) ELSE Dword(n)
        bitwise(op(_, _)) == Dword(op(Bits(x, 2 * WordBits), Bits(y, 2 * WordBits)))
        or(p, q) == p | q
        xor(p, q) == p ^^ q
    IN
    CASE i.tag \in {"MOV", "MOVFR2GR_S", "MOVCF2GR"} -> x
      [] i.tag \in {"ADD", "ADDI"} -> sized(x + y)
      [] i.tag = "SUB" -> sized(x - y)
      [] i.tag = "MUL" -> Word(Word(x) * Word(y))
      [] i.tag = "DIV" -> IF y = 0 THEN Junk ELSE Word(Quotient(x, y))
      [] i.tag = "MOD" -> IF y = 0 THEN Junk ELSE Word(Remainder(x, y))
      [] i.tag = "SLLI" -> Word(Word(x) * 2 ^ y)
      [] i.tag = "SRAI" -> Word(x) \div 2 ^ y
      [] i.tag = "LU12I_W" -> Word(x * 2 ^ ImmBits)
      [] i.tag \in {"ORI", "OR"} -> bitwise(or)
      [] i.tag = "XORI" -> bitwise(xor)
      [] i.tag = "SLT" -> Truth(x < y)
      [] i.tag \in {"LD", "FLD_S"} -> MachineCell(m, x + y, Bytes(i.suffix))
      [] i.tag = "LA_LOCAL" -> GlobalAddress(x)
      [] i.tag = "FADD_S" -> FloatBits(FloatSum(f, g))
      [] i.tag = "FSUB_S" -> FloatBits(FloatSum(f, -g))
      [] i.tag = "FMUL_S" -> FloatBits(FloatProduct(f, g))
      [] i.tag = "FDIV_S" -> IF g = 0 THEN Junk ELSE FloatBits(FloatQuotient(f, g))
      [] i.tag = "MOVGR2FR_W" -> Word(x)
      [] i.tag = "FFINT_S_W" -> FloatBits(2 * x)
      [] i.tag = "FTINTRZ_W_S" -> Quotient(f, 2)
      [] i.tag = "FCMP_SEQ_S" -> Truth(f = g)
      [] i.tag = "FCMP_SNE_S" -> Truth(f # g)
      [] i.tag = "FCMP_SLT_S" -> Truth(f < g)
      [] i.tag = "FCMP_SLE_S" -> Truth(f <= g)

\* The values of arguments in the given places: of an address, what lies there.
Arguments(m, types, places) ==
    [k \in DOMAIN types |->
        LET size == IF SizeOf(types[k]) = 8 THEN 8 ELSE 4
            v == IF places[k].onStack THEN MachineCell(m, RegValue(m, sp) + places[k].offset, size)
                                      ELSE RegValue(m, places[k].reg)
        IN  CASE types[k] = "ptr" -> MachineCell(m, v, 4)
              [] types[k] = "float" -> Halves(v)
              [] OTHER -> v]

\* A call is seen with its arguments.  The callee keeps sp, fp and the
\* callee-saved registers but ra, and the memory above its parameters.
Call(m, f) ==
    LET schedule == ParamsSchedule(Signatures[f].params)
        event == <<"call", f, Arguments(m, Signatures[f].params, schedule.places)>>
        keeps(r) == r[2] # "r" \/ r \in Preserved \ {ra}
        result == CalleeResult(m)
    IN  [m EXCEPT
            !.log = Append(@, event),
            !.regs = (CASE Signatures[f].ret = "i32" -> a(0) :> result
                        [] Signatures[f].ret = "float" -> fa(0) :> FloatBits(result)
                        [] OTHER -> <<>>)
                     @@ Restricted(@, {r \in DOMAIN m.regs : keeps(r)}),
            !.mem = Restricted(@, {x \in DOMAIN m.mem : x >= RegValue(m, sp) + schedule.size}),
            !.misaligned = @ \/ RegValue(m, sp) % 16 # 0]

Taken(m, i) ==
    LET x == RegValue(m, i.ops[1])  y == RegValue(m, i.ops[2]) IN
    CASE i.tag = "B" -> TRUE [] i.tag = "BNEZ" -> x # 0 [] i.tag = "BEQ" -> x = y
      [] i.tag = "BNE" -> x # y [] i.tag = "BLT" -> x < y [] i.tag = "BGE" -> x >= y

\* One instruction of the code list; the machine is left by JR.
Execute(m, list) ==
    LET i == list[m.pc][m.index]
        next == [m EXCEPT !.index = @ + 1]
    IN
    CASE i.tag \in {"B", "BNEZ", "BEQ", "BNE", "BLT", "BGE"} ->
            IF Taken(m, i) THEN [m EXCEPT !.pc = i.ops[Len(i.ops)][3], !.index = 1] ELSE next
      [] i.tag = "JR" -> [m EXCEPT !.left = TRUE]
      [] i.tag = "BL" -> Call(next, i.ops[1][3])
      [] i.tag \in {"ST", "FST_S"} ->
            SetCell(next, RegValue(m, i.ops[2]) + i.ops[3][3], Bytes(i.suffix),
                    IF Bytes(i.suffix) = 4 THEN Word(RegValue(m, i.ops[1])) ELSE RegValue(m, i.ops[1]))
      [] OTHER ->
            SetReg([next EXCEPT
                        !.misaligned = @ \/ (i.tag \in {"LD", "FLD_S"} /\
                            (RegValue(m, i.ops[2]) + i.ops[3][3]) % Bytes(i.suffix) # 0),
                        !.rounded = @ \/ (i.tag = "SRAI" /\ RegValue(m, i.ops[2]) < 0 /\
                            RegValue(m, i.ops[2]) % 2 ^ i.ops[3][3] # 0)],
                   i.ops[1], Result(m, i))

\* What the caller has in them.
CallerValue(r) == IF r = sp THEN StackTop ELSE 500 + r[3]

\* The state in which the caller enters a function at block pc.  args are the
\* values of its parameters; what a pointer argument points to lies where no
\* frame reaches.  A cell of the caller's own frame follows the parameters.
Entered(types, args, pc, answers) ==
    LET schedule == ParamsSchedule(types)
        raw(k) == CASE types[k] = "ptr" -> GlobalAddress(20 + k)
                    [] types[k] = "float" -> FloatBits(args[k])
                    [] OTHER -> args[k]
        inRegs == {k \in DOMAIN types : ~schedule.places[k].onStack}
        place(k) == StackTop + schedule.places[k].offset
        cells == {StackTop + schedule.size} \cup {GlobalAddress(n) : n \in DOMAIN GlobalWords}
        base == [regs |-> [r \in Preserved |-> CallerValue(r)],
                 mem |-> [x \in cells |-> IF x = StackTop + schedule.size THEN <<8, 99>>
                            ELSE <<4, GlobalWords[(x - GlobalAddress(0)) \div 16][1]>>],
                 pc |-> pc, index |-> 1, log |-> <<>>, answers |-> answers,
                 misaligned |-> FALSE, rounded |-> FALSE, left |-> FALSE]
        pass(m, k) ==
            LET passed == IF k \in inRegs THEN SetReg(m, schedule.places[k].reg, raw(k))
                          ELSE SetCell(m, place(k), IF types[k] = "ptr" THEN 8 ELSE 4, raw(k))
            IN  IF types[k] = "ptr" THEN SetCell(passed, raw(k), 4, args[k]) ELSE passed
        entered == FoldLeft(pass, base, [k \in DOMAIN types |-> k])
    IN  entered @@ [callerMem |-> Restricted(entered.mem,
                        {x \in DOMAIN entered.mem : x < GlobalAddress(0)})]

\* What the caller finds in the register of the result.
ReturnedTo(m, type) ==
    CASE type = "float" -> <<Halves(RegValue(m, fa(0)))>>
      [] type = "i32" -> <<RegValue(m, a(0))>>
      [] OTHER -> <<>>
=============================================================================
