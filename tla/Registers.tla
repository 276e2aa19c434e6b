----------------------------- MODULE Registers -----------------------------
(***************************************************************************)
(* The registers of the machine code: the virtual registers instruction    *)
(* selection creates without limit and the physical ones of the machine.   *)
(***************************************************************************)
CONSTANTS
    Virt,         \* virtual registers
    Phys          \* physical registers, without the zero register

ASSUME RegisterAssumption == Virt \cap Phys = {}

Reg == Virt \cup Phys
=============================================================================
