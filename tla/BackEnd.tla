------------------------------ MODULE BackEnd ------------------------------
(***************************************************************************)
(* The back end: Lowering with RegisterAllocation behind the peephole      *)
(* optimisation, and the coloured code run beside the IR.  The dead-code   *)
(* elimination between them only takes instructions away, see MIDCE.       *)
(***************************************************************************)
EXTENDS Lowering, RegAllocFunction

backEndVars == <<lvars, allocVars>>

BackEndInit(functions) == LoweringInit(functions) /\ AllocatorInit

Lower ==
    /\ Select \/ PeepholeSweep
    /\ UNCHANGED allocVars

Allocate ==
    /\ stage = "call" /\ ~rejected
    /\ AllocatorNext
    /\ UNCHANGED <<func, at, tail, allocaMap, stage, cursor, runVars>>

\* The coloured function is called.
RunAllocated ==
    /\ pc = "colored" /\ ~rejected
    /\ Run
    /\ UNCHANGED allocVars

RunOn ==
    /\ InterpretStep \/ ExecuteStep
    /\ UNCHANGED allocVars

Compiled == Finished /\ UNCHANGED allocVars

BackEndNext == Lower \/ Allocate \/ RunAllocated \/ RunOn \/ Compiled

-----------------------------------------------------------------------------
\* The variables of the allocator fit together; the slots of the spilled
\* registers are eight bytes each, inside the frame and apart.
BackEndTypeOK ==
    /\ initial \subseteq Reg /\ edges \subseteq Reg \X Reg
    /\ \A r \in DOMAIN regMap : regMap[r] \in 1 .. frameSize
    /\ \A p \in DOMAIN regMap : \A r \in DOMAIN regMap \ {p} : ~(regMap[p] - regMap[r] \in 0 .. 7)

\* A register on the stack is gone from the code: every use has become a load
\* in front of the instruction and every definition a store behind it, so it
\* does no harm that the graph keeps it (rewrite_program).
SpilledLeaveTheCode ==
    pc \in {"build", "colored"} =>
        \A i \in Range(AllCode) : Range(i.ops) \cap DOMAIN regMap = {}

\* Whatever the rounds before have left in edges, degree and the lists of
\* moves: in the code that is coloured no register is written while another of
\* its colour is still needed.
ColorsFitTheCode ==
    pc = "done" /\ spilled_nodes = {} =>
        LET painted(r) == IF r \in Virt THEN color[r] ELSE r
        IN  \A p \in Interferences : painted(p[1]) # painted(p[2])

\* The coloured code makes the calls the IR makes and returns the same, and the
\* registers of its caller are what they were.
SameBehaviour == stage = "left" /\ ~machine.rounded => Agreement /\ RestoresCaller
=============================================================================
