----------------------------- MODULE MCLowering -----------------------------
(***************************************************************************)
(* Small functions for Lowering, one family for each kind of IR            *)
(* instruction and for the combinations in which their code interleaves.   *)
(***************************************************************************)
EXTENDS Lowering

CONSTANT Family  \* the families of this run

MCArgLists == {<<x, y, 7, -4, 3, 6>> : x \in {-3, 0, 2, 9}, y \in {-4, 0, 2}}
MCSignatures == <<[params |-> <<"i32">>, ret |-> "i32"],
                  [params |-> <<"i32", "ptr", "i32", "float", "ptr", "float">>, ret |-> "void"],
                  [params |-> <<"float", "float", "i32", "i32">>, ret |-> "float"]>>

MCCallAnswers == <<3, 5, 7, 9>>
MCGlobalWords == <<<<7>>>>

-----------------------------------------------------------------------------
Num(n) == <<"int", "i32", n>>
Half(n) == <<"fp", "float", n>>
V(id) == <<"inst", "i32", id>>
B(id) == <<"inst", "i1", id>>
F(id) == <<"inst", "float", id>>
P(id) == <<"inst", "ptr", id>>
Arg(k) == <<"arg", "i32", k>>
FArg(k) == <<"arg", "float", k>>
PArg(k) == <<"arg", "ptr", k>>
To(b) == <<"block", "label", b>>
Callee(n) == <<"func", "fn", n>>
Global1 == <<"global", "ptr", 1>>

Op(op, id, type, args) == [op |-> op, id |-> id, type |-> type, args |-> args, sizes |-> <<>>]
Gep(id, args, sizes) == [op |-> "gep", id |-> id, type |-> "ptr", args |-> args, sizes |-> sizes]
Alloca(id, size) == [op |-> "alloca", id |-> id, type |-> "ptr", args |-> <<>>, sizes |-> <<size>>]
Ret(v) == Op("ret", 0, "void", <<v>>)
Br(args) == Op("br", 0, "void", args)
Store(v, p) == Op("store", 0, "void", <<v, p>>)
Fn(params, ret, blocks) == [params |-> params, ret |-> ret, blocks |-> blocks]

-----------------------------------------------------------------------------
\* An arithmetic operation on a parameter and constants, some beyond the
\* reach of an immediate.
Arithmetics ==
    {Fn(<<"i32">>, "i32", <<<<Op(op, 1, "i32", <<x, y>>), Ret(V(1))>>>>) :
        op \in {"add", "sub", "mul", "sdiv", "srem"},
        x \in {Arg(1), Num(3), Num(4)}, y \in {Arg(1), Num(-5), Num(4), Num(20), Num(100)}}
    \cup {Fn(<<"i32">>, "i32",
            <<<<Op("mul", 1, "i32", <<Arg(1), Num(0)>>), Op(op, 2, "i32", <<V(1), V(1)>>),
               Op("add", 3, "i32", <<V(2), Arg(1)>>), Ret(V(3))>>>>) : op \in {"add", "mul"}}

\* A comparison whose value is used, that decides a branch, or both.
Comparison ==
    UNION {
        {Fn(<<"i32", "i32">>, "i32",
            <<<<Op(op, 1, "i1", <<Arg(1), y>>), Op("zext", 2, "i32", <<B(1)>>), Ret(V(2))>>>>),
         Fn(<<"i32", "i32">>, "i32",
            <<<<Op(op, 1, "i1", <<Arg(1), y>>), Br(<<B(1), To(2), To(3)>>)>>,
              <<Ret(Num(1))>>, <<Ret(Num(0))>>>>),
         Fn(<<"i32", "i32">>, "i32",
            <<<<Op(op, 1, "i1", <<Arg(1), y>>), Br(<<B(1), To(2), To(3)>>)>>,
              <<Op("zext", 2, "i32", <<B(1)>>), Op("add", 3, "i32", <<V(2), Num(5)>>), Ret(V(3))>>,
              <<Op("zext", 4, "i32", <<B(1)>>), Ret(V(4))>>>>)} :
        op \in ICmpOps, y \in {Arg(2), Num(2)}}
    \cup {Fn(<<"float", "float">>, "i32",
            <<<<Op(op, 1, "i1", <<FArg(1), y>>), Br(<<B(1), To(2), To(3)>>)>>,
              <<Op("zext", 2, "i32", <<B(1)>>), Op("add", 3, "i32", <<V(2), Num(5)>>), Ret(V(3))>>,
              <<Op("zext", 4, "i32", <<B(1)>>), Ret(V(4))>>>>) :
        op \in FCmpOps, y \in {FArg(2), Half(2)}}

\* Phis behind branches of both kinds and in loops, where a phi is an operand
\* of another.
Join(cond) ==
    Fn(<<"i32", "i32">>, "i32",
        <<Append(cond, Br(<<B(1), To(2), To(3)>>)),
          <<Op("sub", 2, "i32", <<Arg(1), Arg(2)>>), Br(<<To(3)>>)>>,
          <<Op("phi", 3, "i32", <<Arg(2), To(1), V(2), To(2)>>),
            Op("phi", 4, "i32", <<Num(100), To(1), Arg(1), To(2)>>),
            Op("add", 5, "i32", <<V(3), V(4)>>), Ret(V(5))>>>>)
Loop(exchanged) ==
    Fn(<<"i32", "i32">>, "i32",
        <<<<Br(<<To(2)>>)>>,
          <<Op("phi", 1, "i32", <<Num(0), To(1), V(5), To(3)>>),
            Op("phi", 2, "i32", <<Arg(1), To(1), V(3), To(3)>>),
            Op("phi", 3, "i32", <<Arg(2), To(1), IF exchanged THEN V(2) ELSE V(6), To(3)>>),
            Op("lt", 4, "i1", <<V(1), Num(2)>>), Br(<<B(4), To(3), To(4)>>)>>,
          <<Op("add", 5, "i32", <<V(1), Num(1)>>), Op("add", 6, "i32", <<V(2), V(3)>>), Br(<<To(2)>>)>>,
          <<Op("mul", 7, "i32", <<V(2), Num(3)>>), Op("sub", 8, "i32", <<V(7), V(3)>>), Ret(V(8))>>>>)
Phis ==
    {Join(<<Op(op, 1, "i1", <<Arg(1), Arg(2)>>)>>) : op \in ICmpOps}
    \cup {Join(<<Op("sitofp", 6, "float", <<Arg(1)>>), Op("fgt", 1, "i1", <<F(6), Half(3)>>)>>),
          Loop(TRUE), Loop(FALSE)}

\* Variables and arrays in the frame, indices that are constants, scaled by a
\* shift or by a multiplication.
Below(x, y, id) == <<Op("lt", id, "i1", <<x, y>>), Op("zext", id + 1, "i32", <<B(id)>>)>>
Array(rows, cols) ==
    Fn(<<"i32", "i32">>, "i32",
        <<Below(Arg(1), Arg(2), 1) \o Below(Arg(1), Num(1), 3) \o
          <<Alloca(5, 4), Alloca(6, 4 * rows * cols), Alloca(7, 8),
            Store(Arg(1), P(5)),
            Gep(8, <<P(6), Num(0), Num(1), Num(cols - 1)>>, <<4 * rows * cols, 4 * cols, 4>>),
            Store(Num(5), P(8)),
            Gep(9, <<P(6), Num(0), V(2), V(4)>>, <<4 * rows * cols, 4 * cols, 4>>),
            Store(Num(7), P(9)),
            Store(P(9), P(7)),
            Op("load", 10, "i32", <<P(8)>>), Op("load", 11, "i32", <<P(5)>>),
            Op("load", 12, "ptr", <<P(7)>>), Op("load", 13, "i32", <<P(12)>>),
            Op("sub", 14, "i32", <<V(10), V(11)>>), Op("mul", 15, "i32", <<V(14), V(13)>>),
            Ret(V(15))>>>>)
Memory ==
    {Array(2, cols) : cols \in {2, 3, 8}}
    \cup {Fn(<<"i32">>, "i32",
            <<<<Op("load", 1, "i32", <<Global1>>), Op("add", 2, "i32", <<V(1), Arg(1)>>),
               Store(V(2), Global1), Op("load", 3, "i32", <<Global1>>), Ret(V(3))>>>>)}

\* Calls with parameters in registers and on the stack, of and from a function
\* with such parameters.
Calls ==
    {Fn(<<"i32", "float", "ptr", "i32", "float", "ptr">>, "i32",
        <<<<Op("call", 1, "i32", <<Callee(1), x>>),
           Op("call", 2, "void", <<Callee(2), V(1), PArg(3), Arg(4), FArg(2), PArg(6), FArg(5)>>),
           Op("call", 3, "float", <<Callee(3), FArg(5), Half(3), Arg(4), V(1)>>),
           Op("fptosi", 4, "i32", <<F(3)>>),
           Op("add", 5, "i32", <<V(1), V(4)>>), Ret(V(5))>>>>) :
        x \in {Arg(1), Num(20)}}
    \cup {Fn(<<"i32">>, "void",
            <<<<Alloca(1, 4), Alloca(2, 40), Store(Arg(1), P(1)), Store(Num(100), P(2)),
               Op("call", 3, "void", <<Callee(2), Num(1), P(1), Num(2), Half(1), P(2), Half(-2)>>),
               Op("call", 4, "void", <<Callee(2), Num(1), P(1), Num(2), Half(1), P(2), Half(-2)>>),
               [Ret(Num(0)) EXCEPT !.args = <<>>]>>>>)}

\* Floating-point operations and conversions.
Floats ==
    {Fn(<<"float", "i32">>, ret,
        <<<<Op("sitofp", 1, "float", <<Arg(2)>>), Op(op, 2, "float", <<x, F(1)>>),
           Op("fptosi", 3, "i32", <<F(2)>>),
           IF ret = "float" THEN Ret(F(2)) ELSE Ret(V(3))>>>>) :
        op \in {"fadd", "fsub", "fmul", "fdiv"}, x \in {FArg(1), Half(5)}, ret \in {"float", "i32"}}

\* A constant on the left of an addition, around the reach of ADDI and of ORI.
LeftConstants ==
    {Fn(<<"i32">>, "i32", <<<<Op("add", 1, "i32", <<Num(n), Arg(1)>>), Ret(V(1))>>>>) :
        n \in {-17, -16, 15, 16, 31, 32}}

\* A division by the constant 0 that no argument leads to, as the first use of
\* a constant in its block, which the peephole optimisation does not look at,
\* and behind another instruction.
ZeroDivisors ==
    {Fn(<<"i32">>, "i32",
        <<<<Op("gt", 1, "i1", <<Arg(1), Num(30)>>), Br(<<B(1), To(2), To(3)>>)>>,
          front \o <<Op(op, 3, "i32", <<Arg(1), Num(0)>>), Ret(V(3))>>, <<Ret(Arg(1))>>>>) :
        front \in {<<>>, <<Op("add", 2, "i32", <<Arg(1), Num(1)>>)>>}, op \in {"sdiv", "srem"}}

-----------------------------------------------------------------------------
Functions ==
    UNION {CASE family = "arithmetic" -> Arithmetics
             [] family = "comparison" -> Comparison
             [] family = "phis" -> Phis
             [] family = "memory" -> Memory
             [] family = "calls" -> Calls
             [] family = "floats" -> Floats
             [] family = "left constants" -> LeftConstants
             [] family = "zero divisors" -> ZeroDivisors : family \in Family}

MCInit == LoweringInit(Functions)
MCSpec == MCInit /\ [][LoweringNext]_lvars
=============================================================================
