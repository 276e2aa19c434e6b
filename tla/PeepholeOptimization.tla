------------------------ MODULE PeepholeOptimization ------------------------
(***************************************************************************)
(* PeepholeOptimization::run_on_func: one sweep over the instructions of   *)
(* every block that replaces an ADD, MUL or DIV one of whose operands is a *)
(* constant.                                                               *)
(***************************************************************************)
EXTENDS MIBuilder

VARIABLES
    instrs,    \* machine code of each block
    cursor,    \* the block and the instruction the sweep has come to
    rejected   \* InstructionChecker: an assertion failed

\* A new register: code is inserted at a place at most once by opt_add, kind
\* "o", and once by opt_mul, kind "q".
New(kind, b, k) == <<"General", kind, 1000 * b + k>>

\* check_const: the instruction loads a constant, and which.
IsConst(i) == i.tag \in {"ADDI", "ORI"} /\ i.ops[2] = zero
Const(i) == i.ops[3][3]

\* find_pre_inst: the last definition of a register in front of instruction
\* k, or 0.  The first instruction of a block is never looked at.
Definition(list, k, reg) ==
    LET defs == {j \in 2 .. k - 1 : Writes(list[j]) /\ list[j].ops[1] = reg}
    IN  IF defs = {} THEN 0 ELSE Max(defs)

\* The state of one iteration: the instructions, the iterator, the new code.
\* erase_instr moves the iterator on; the code is inserted in front of it.
Unchanged(s) == s
Replace(s, code) ==
    [list |-> SubSeq(s.list, 1, s.at - 1) \o code \o SubSeq(s.list, s.at + 1, Len(s.list)),
     at |-> s.at + Len(code), added |-> s.added \o code]

\* The constant an operand of the instruction is known to be: a set of at
\* most one element.
Known(s, operand) ==
    LET d == Definition(s.list, s.at, s.list[s.at].ops[operand])
    IN  IF d # 0 /\ IsConst(s.list[d]) THEN {Const(s.list[d])} ELSE {}
\* Both operands are the same definition, or have none in the block.
SameDefinition(s) ==
    Definition(s.list, s.at, s.list[s.at].ops[2]) = Definition(s.list, s.at, s.list[s.at].ops[3])

OptAdd(s, tmp) ==
    LET i == s.list[s.at]  left == Known(s, 2)  right == Known(s, 3) IN
    IF i.tag # "ADD" \/ (left = {} /\ right = {}) THEN Unchanged(s)
    ELSE Replace(s,
        CASE SameDefinition(s) ->
                LoadInt32(2 * Max(left), i.ops[1], tmp)
          [] ~SameDefinition(s) /\ left # {} ->
                IS("ADDI", <<i.ops[1], i.ops[3], Imm(Max(left))>>, i.suffix)
          [] OTHER -> AddIntToReg(i.ops[1], i.ops[2], Max(right), tmp, <<tmp[1], "o2", tmp[3]>>))

ShiftAmount(n) == FirstBit(n) - 1

OptMul(s, tmp) ==
    LET i == s.list[s.at]
        shiftable(operand) == {n \in Known(s, operand) : IsPowerOf2OrZero(n)}
        shifted(operand, n) ==
            IF n = 0 THEN LoadInt32(0, i.ops[1], tmp)
            ELSE IS("SLLI", <<i.ops[1], i.ops[operand], Imm(ShiftAmount(n))>>, i.suffix)
    IN
    CASE i.tag # "MUL" -> Unchanged(s)
      [] i.tag = "MUL" /\ SameDefinition(s) ->
            IF Known(s, 2) = {} THEN Unchanged(s)
            ELSE Replace(s, LoadInt32(Max(Known(s, 2)) * Max(Known(s, 2)), i.ops[1], tmp))
      [] i.tag = "MUL" /\ ~SameDefinition(s) /\ shiftable(2) # {} ->
            Replace(s, shifted(3, Max(shiftable(2))))
      [] i.tag = "MUL" /\ ~SameDefinition(s) /\ shiftable(2) = {} /\ shiftable(3) # {} ->
            Replace(s, shifted(2, Max(shiftable(3))))
      [] OTHER -> Unchanged(s)

\* A division by a power of two becomes an arithmetic shift.
OptDiv(s) ==
    LET i == s.list[s.at] IN
    IF i.tag # "DIV" \/ {n \in Known(s, 3) : IsPowerOf2OrZero(n)} = {} THEN Unchanged(s)
    ELSE Replace(s, IS("SRAI", <<i.ops[1], i.ops[2], Imm(ShiftAmount(Max(Known(s, 3))))>>, i.suffix))

-----------------------------------------------------------------------------
\* One iteration.  After a replacement opt_mul and opt_div look at the next
\* instruction, which opt_add does not see.
Optimize ==
    LET b == cursor[1]  k == cursor[2]
        s == OptDiv(OptMul(OptAdd([list |-> instrs[b], at |-> k, added |-> <<>>],
                                  New("o", b, k)), New("q", b, k)))
    IN
    /\ b \in DOMAIN instrs /\ k <= Len(instrs[b])
    /\ instrs' = [instrs EXCEPT ![b] = s.list]
    /\ rejected' = \E n \in DOMAIN s.added : ~Check(s.added[n])
    /\ cursor' = <<b, s.at + 1>>

NextBlock ==
    /\ cursor[1] \in DOMAIN instrs /\ cursor[2] > Len(instrs[cursor[1]])
    /\ cursor' = <<cursor[1] + 1, 1>>
    /\ UNCHANGED <<instrs, rejected>>

Swept == cursor[1] \notin DOMAIN instrs
=============================================================================
