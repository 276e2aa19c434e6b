------------------------------ MODULE MCMIDCE ------------------------------
(***************************************************************************)
(* MIDCE on functions of a prologue, an epilogue and two blocks between    *)
(* them.  No instruction of mcFunc reads the register it writes, but for   *)
(* the stack pointer; one of mcFarFunc does.                               *)
(***************************************************************************)
EXTENDS MIDCE, TLC

CONSTANTS pro, b1, b2, epi, x, y, fps, sv, ra, fp, sp, a0, s0, zero

mcVirt == {x, y, fps, sv}
mcPhys == {ra, fp, sp, a0, s0}
mcCalleeSaved == {ra, s0}
mcCallerSaved == {a0}
mcBlock == {pro, b1, b2, epi}
mcBlocks == <<b1, b2, pro, epi>>

I(tag, ops, implicit) ==
    [tag |-> tag, ops |-> ops, implicit |-> implicit, reserved |-> FALSE]
mov(d, s) == I("MOV", <<d, s>>, {})
op(d, s) == I("OP", <<d, s>>, {})

\* gen_prologue_epilogue; the move of the zero register marks the place where
\* the frame is set up.
PrologueCode ==
    <<mov(fps, fp), mov(fp, sp), op(sp, sp), [mov(zero, zero) EXCEPT !.reserved = TRUE],
      mov(sv, s0), I("BR", <<>>, {})>>
EpilogueCode == <<mov(s0, sv), mov(sp, fp), mov(fp, fps), I("JR", <<ra>>, {a0})>>

\* Definitions and uses in both blocks, a chain that is dead unless y is
\* read, a call whose parameter is also overwritten by it, and writes of the
\* zero register and of a parameter register.
Snippets ==
    {<<op(x, a0), op(a0, x)>>,
     <<op(y, x)>>,
     <<op(x, a0), op(y, x), op(x, y)>>,
     <<I("ST", <<x, y>>, {})>>,
     <<mov(a0, x), I("BL", <<>>, {a0}), mov(y, a0)>>,
     <<mov(zero, y), mov(a0, zero)>>,
     <<>>}

FuncOf(code1, code2, succ1, succ2) ==
    [code |-> (pro :> PrologueCode @@ epi :> EpilogueCode @@ b1 :> code1 @@ b2 :> code2),
     succ |-> (pro :> {b1} @@ epi :> {} @@ b1 :> succ1 @@ b2 :> succ2)]

mcFunc ==
    {f \in {FuncOf(c1, c2, s1, s2) :
             c1 \in Snippets, c2 \in Snippets,
             s1 \in {{epi}, {b2}, {b1, b2}, {b2, epi}},
             s2 \in {{epi}, {b1}, {b1, epi}, {b2, epi}}} :
        ReachesEpilogue(f)}

ASSUME mcFuncAssumption == NoSelfRead(mcFunc)

\* load_from_stack with an offset that needs a register: the offset is loaded
\* into x, the address is computed into x again, and y is loaded from there.
FarLoad == <<op(x, zero), I("OP", <<x, fp, x>>, {}), op(y, x), mov(a0, y)>>

mcFarFunc ==
    {FuncOf(FarLoad, c, s1, {epi}) : c \in Snippets, s1 \in {{b2}, {b1, b2}}}
=============================================================================
