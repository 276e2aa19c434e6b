---------------------------- MODULE FrameLayout ----------------------------
(***************************************************************************)
(* Where things are on the stack: FrameScheduler, which places local       *)
(* variables and spilled registers below the frame pointer, and            *)
(* calc_params_schedule, which caller and callee both follow.              *)
(***************************************************************************)
EXTENDS MIBuilder

CONSTANT ArgRegs  \* parameter registers of each bank, 8 on the machine

ASSUME FrameAssumption == ArgRegs \in 1 .. 8

\* Rounded up to a multiple; the alignments are powers of two.
Align(size, alignment) == ((size + alignment - 1) \div alignment) * alignment

\* Mutant of InsertReg: a spilled register takes four bytes.
InsertRegWord(frameSize) == Align(frameSize + 4, 4)

\* The frame size when a variable of the given size, or a spilled register,
\* has been placed; it is also the distance of the slot below fp.
InsertAlloca(frameSize, size) == Align(frameSize + size, 16)
InsertReg(frameSize) == Align(frameSize + 8, 8)

SizeOf(type) == CASE type = "i1" -> 1 [] type \in {"i32", "float"} -> 4 [] type = "ptr" -> 8

BankOf(type) == IF type = "float" THEN "Float" ELSE "General"

\* Mutant of ParamOffset: the offset is not aligned.
ParamOffsetTight(size, type) == size

\* Where the next parameter on the stack goes when size bytes are taken.
ParamOffset(size, type) == Align(size, SizeOf(type))

\* calc_params_schedule: the place of each parameter, and the size of the
\* block of those on the stack.
ParamsSchedule(types) ==
    LET inReg(bank, places) == {k \in DOMAIN places :
                                    ~places[k].onStack /\ places[k].reg[1] = bank}
        step(s, type) ==
            LET used == Cardinality(inReg(BankOf(type), s.places))
                offset == ParamOffset(s.size, type)
            IN  IF used < ArgRegs
                THEN [s EXCEPT !.places = Append(@,
                        [onStack |-> FALSE, offset |-> 0,
                         reg |-> IF type = "float" THEN fa(used) ELSE a(used)])]
                ELSE [places |-> Append(s.places,
                        [onStack |-> TRUE, offset |-> offset, reg |-> zero]),
                      size |-> offset + SizeOf(type)]
        all == FoldLeft(step, [places |-> <<>>, size |-> 0], types)
    IN  [all EXCEPT !.size = Align(@, 16)]
=============================================================================
