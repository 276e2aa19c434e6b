------------------------------- MODULE IRCode -------------------------------
(***************************************************************************)
(* The instructions in the blocks of a FlowGraph and the ways the passes   *)
(* edit them.  An instruction is a record as IRGeneration creates it; its  *)
(* operands are values, and who uses a value is who has it as an operand:  *)
(* User::set_operand, add_operand and remove_operand keep the use lists in *)
(* step with the operands.                                                 *)
(***************************************************************************)
EXTENDS FlowGraph, TLC

VARIABLES
    code,       \* BasicBlock::instr_list_ of every block created so far
    signatures  \* the names and the parameter types of the functions

irVars == <<functions, succ, pred, code, signatures>>

Null == <<"null", "null", 0>>
IsInst(v) == v[1] = "inst"
BlockOperand(b) == <<"block", "label", b>>

InstructionsIn(blocks) == UNION {Range(code[b]) : b \in blocks}
InstructionsOf(f) == InstructionsIn(BlocksOf(f))
IdsOf(instructions) == {i.id : i \in instructions}
Parent(i) == CHOOSE b \in Blocks : i \in Range(code[b])
Uses(v) == {i \in InstructionsIn(Blocks) : \E k \in DOMAIN i.args : i.args[k][1] = v[1] /\ i.args[k][3] = v[3]}
NextId == 1 + Max({0} \cup IdsOf(InstructionsIn(Blocks)))

\* The containers of the passes are ordered by the addresses of what they hold;
\* the allocator may place later instructions higher or lower (bound: one or
\* the other for all of them).
Directions == {"up", "down"}
ByAddress(ids, direction) ==
    LET up == SetToSortSeq(ids, <) IN IF direction = "up" THEN up ELSE Reverse(up)

\* The instructions in c, each changed by change.
Mapped(c, change(_)) == [b \in DOMAIN c |-> [k \in DOMAIN c[b] |-> change(c[b][k])]]

\* Value::replace_all_use_with for the instructions in the domain of values.
Replaced(c, values) ==
    Mapped(c, LAMBDA i : [i EXCEPT !.args = [k \in DOMAIN @ |->
                              IF IsInst(@[k]) /\ @[k][3] \in DOMAIN values
                              THEN values[@[k][3]] ELSE @[k]]])

\* Instructions are deleted: what still uses them is left with a null pointer.
Deleted(c, ids) ==
    Replaced([b \in DOMAIN c |-> SelectSeq(c[b], LAMBDA i : i.id \notin ids)],
             [id \in ids |-> Null])

\* Blocks are deleted with all that is in them.
DeletedBlocks(c, gone) ==
    LET ids == IdsOf(InstructionsIn(gone))
        left == [b \in DOMAIN c |-> IF b \in gone THEN <<>> ELSE c[b]]
    IN  Mapped(Deleted(left, ids),
               LAMBDA i : [i EXCEPT !.args = [k \in DOMAIN @ |->
                              IF @[k][1] = "block" /\ @[k][3] \in gone THEN Null ELSE @[k]]])

\* The pairs of a phi: PhiInst::add_phi_pair_operand appends one.
PhiInst(id, type) ==
    [op |-> "phi", id |-> id, type |-> type, args |-> <<>>, sizes |-> <<>>, elem |-> "none"]
PhisOf(b) == SelectSeq(code[b], LAMBDA i : i.op = "phi")
PhiPairs(i) == [k \in 1 .. (Len(i.args) \div 2) |-> <<i.args[2 * k - 1], i.args[2 * k]>>]
AddPhiPair(i, v, b) == [i EXCEPT !.args = @ \o <<v, BlockOperand(b)>>]
WithPairs(i, pairs) == [i EXCEPT !.args = FlattenSeq(pairs)]
=============================================================================
