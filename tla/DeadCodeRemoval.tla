-------------------------- MODULE DeadCodeRemoval --------------------------
(***************************************************************************)
(* What a dead-code elimination of machine code promises: instructions go  *)
(* one at a time, and each of them only writes a register that nothing     *)
(* reads afterwards in the code that is left.  Then no instruction that is *)
(* left ever reads another value than before.                              *)
(*                                                                         *)
(* Here a register is read when the instruction names it at any place but  *)
(* that of its destination: this is what the machine does, whatever        *)
(* MachineInstr::get_use says.                                             *)
(***************************************************************************)
EXTENDS MachineCode

CONSTANTS
    Block,        \* the basic blocks
    SP            \* the stack pointer

VARIABLES
    func,         \* code and succ of the function before the elimination
    kept          \* the positions of each block whose instruction is left

Reads(i) ==
    CASE i.tag = "BL" -> i.implicit
      [] i.tag = "JR" -> CalleeSaved \cup i.implicit
      [] OTHER -> {i.ops[n] : n \in {n \in DOMAIN i.ops : HasDst(i) => n > 1}} \ {Zero}

At(b, k) == func.code[b][k]

\* Block b, from behind position n to its end, reads r before it writes it.
ReadBehind(r, b, n) ==
    \E k \in kept[b] :
        /\ k > n /\ r \in Reads(At(b, k))
        /\ \A j \in kept[b] : n < j /\ j < k => r \notin GetDef(At(b, j))

WrittenBehind(r, b, n) == \E k \in kept[b] : k > n /\ r \in GetDef(At(b, k))

\* The blocks that need the value r has at their start: the least set with
\* this property.
Needing(r, Z) ==
    \A b \in Block :
        ReadBehind(r, b, 0) \/ (~WrittenBehind(r, b, 0) /\ func.succ[b] \cap Z # {}) => b \in Z

Needed(r) == {b \in Block : \A Z \in SUBSET Block : Needing(r, Z) => b \in Z}

\* Some path from behind position n of block b reads r before writing it.
LiveBehind(r, b, n) ==
    \/ ReadBehind(r, b, n)
    \/ ~WrittenBehind(r, b, n) /\ func.succ[b] \cap Needed(r) # {}

\* Only an instruction that does nothing but write a register may go, and
\* only if no path behind it reads that register.
Removable(b, k) ==
    /\ HasDst(At(b, k)) /\ ~At(b, k).reserved
    /\ GetDef(At(b, k)) \cap {FP, SP} = {}
    /\ \A r \in GetDef(At(b, k)) : ~LiveBehind(r, b, k)

Init == kept = [b \in Block |-> DOMAIN func.code[b]]

Remove ==
    /\ \E b \in Block : \E k \in kept[b] :
         /\ Removable(b, k)
         /\ kept' = [kept EXCEPT ![b] = @ \ {k}]
    /\ UNCHANGED func

Spec == Init /\ [][Remove]_<<func, kept>>

\* The removal of other instructions never brings back to life what a removed
\* instruction wrote.
RemovedStayDead ==
    \A b \in Block : \A k \in DOMAIN func.code[b] \ kept[b] :
        \A r \in GetDef(At(b, k)) : ~LiveBehind(r, b, k)
=============================================================================
