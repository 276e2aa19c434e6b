----------------------------- MODULE MCBackEnd -----------------------------
(***************************************************************************)
(* Small functions for BackEnd on a machine with few registers.            *)
(***************************************************************************)
EXTENDS MCLowering, BackEnd

t(n) == Physical("General", 12 + n)
s0 == Physical("General", 23)
ft0 == Physical("Float", 8)
fcc0 == Physical("FloatCmp", 0)

MachineBanks ==
    [General |-> {ra, a(0), t(0), t(1), t(2), s0}, Float |-> {fa(0), ft0}, FloatCmp |-> {fcc0}]
MachineRegisters == UNION {MachineBanks[bank] : bank \in Banks} \cup {sp, fp}
VirtualRegisters == {Nth("General", n) : n \in 1 .. 99} \cup {Nth("Float", n) : n \in 1 .. 12}
          \cup {Nth("FloatCmp", n) : n \in 1 .. 2}
Copied == 1 .. 999
TypeOfRegister == [r \in VirtualRegisters \cup MachineRegisters |-> r[1]]
LostInCalls == {a(0), t(0), t(1), t(2), fa(0), ft0, fcc0}
ParameterRegisters == <<{a(0)}, {a(0), fa(0)}, {a(0), fa(0)}>>

\* TLC evaluates a definition once, but one that stands for a constant at
\* every use: the constants stand for names.
MCAllocatable == MachineBanks
MCPhys == MachineRegisters
MCVirt == VirtualRegisters
MCType == TypeOfRegister
MCCallerSaved == LostInCalls
MCParamRegs == ParameterRegisters
MCMove == Copied

\* A value that is needed behind a call.
AcrossCall ==
    Fn(<<"i32">>, "i32",
       <<<<Op("add", 1, "i32", <<Arg(1), Num(3)>>),
           Op("call", 2, "i32", <<Callee(1), Arg(1)>>),
           Op("sub", 3, "i32", <<V(2), V(1)>>), Ret(V(3))>>>>)

\* A float that is needed behind a call, and a condition.
FloatAcrossCall ==
    Fn(<<"float", "i32">>, "i32",
       <<<<Op("fadd", 1, "float", <<FArg(1), Half(3)>>),
           Op("call", 2, "i32", <<Callee(1), Arg(2)>>),
           Op("fgt", 3, "i1", <<F(1), FArg(1)>>),
           Op("zext", 4, "i32", <<B(3)>>),
           Op("add", 5, "i32", <<V(2), V(4)>>), Ret(V(5))>>>>)

\* Two conditions, for one condition register.
TwoConditions ==
    Fn(<<"float", "float">>, "i32",
       <<<<Op("fgt", 1, "i1", <<FArg(1), FArg(2)>>), Op("fle", 2, "i1", <<FArg(1), FArg(2)>>),
           Op("zext", 3, "i32", <<B(1)>>), Op("zext", 4, "i32", <<B(2)>>),
           Op("sub", 5, "i32", <<V(3), V(4)>>), Ret(V(5))>>>>)

BackEndFunctions ==
    {AcrossCall, FloatAcrossCall, TwoConditions, Loop(FALSE), Join(<<Op("lt", 1, "i1", <<Arg(1), Arg(2)>>)>>)}

MCBackEndInit == BackEndInit(BackEndFunctions)
MCBackEndSpec == MCBackEndInit /\ [][BackEndNext]_backEndVars
=============================================================================
