---------------------------- MODULE MCAllocation ----------------------------
(***************************************************************************)
(* RegisterAllocation on every interference graph over three virtual and   *)
(* two physical registers of one type, with two moves between any of them. *)
(* Renaming the registers and the moves changes nothing, so the first move *)
(* is one of three.  Two physical registers neither interfere nor are      *)
(* joined by a move: add_edge stores nothing for them that is looked up,   *)
(* and such a move is constrained whatever the graph.                      *)
(***************************************************************************)
EXTENDS RegisterAllocation, TLC

CONSTANTS v1, v2, v3, v4, p1, p2, m1, m2

mcVirt == {v1, v2, v3}
mcPhys == {p1, p2}
mcFourVirt == {v1, v2, v3, v4}
mcMove == {m1, m2}
mcType == [r \in Reg |-> "general"]
mcAllocatable == [t \in {"general"} |-> Phys]

Pairs == {P \in SUBSET Reg : Cardinality(P) = 2 /\ P \cap Virt # {}}

Both(P) == {e \in P \X P : e[1] # e[2]}

Graphs == {UNION {Both(P) : P \in S} : S \in SUBSET Pairs}

First == {<<v1, v2>>, <<v1, p1>>, <<p1, v1>>}

Second == {c \in Reg \X Reg : c[1] # c[2] /\ {c[1], c[2]} \cap Virt # {}}

mcInput ==
    {[edges |-> es, moves |-> Move, dst |-> (m1 :> c[1] @@ m2 :> d[1]),
      src |-> (m1 :> c[2] @@ m2 :> d[2])] : es \in Graphs, c \in First, d \in Second}

\* One more register, one copy into a physical register and one between two
\* registers.
mcPrecoloredInput ==
    {[edges |-> es, moves |-> Move, dst |-> (m1 :> p1 @@ m2 :> v2),
      src |-> (m1 :> v1 @@ m2 :> v3)] : es \in Graphs}
=============================================================================
