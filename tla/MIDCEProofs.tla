---------------------------- MODULE MIDCEProofs ----------------------------
(***************************************************************************)
(* MIDCE implements DeadCodeRemoval for every function in which no         *)
(* instruction reads the register it writes.  The argument is that the     *)
(* sweep's use_set covers what is read later (Later) at every position,    *)
(* that a removal makes Later smaller everywhere, and that the live-in     *)
(* sets of the one analysis therefore stay large enough.                   *)
(***************************************************************************)
EXTENDS MIDCE, LivenessProofs

\* The registers, but for FP and SP, that block b reads behind position n
\* before it writes them, or leaves alone and hands on to a live-out set that
\* holds them.
Later(b, n) ==
    {r \in Reg \ {FP, SP} :
        \/ Removal!ReadBehind(r, b, n)
        \/ ~Removal!WrittenBehind(r, b, n) /\ r \in live_out[b]}

\* The sweep knows at least what is read behind the place where it stands.
SweepInv == phase = "sweep" => Later(Blocks[block], inst) \subseteq use_set

\* The live sets cover the code that is left.
CoverInv == phase # "analyse" => Done /\ \A b \in Block : Later(b, 0) \subseteq live_in[b]

\* What a removed instruction wrote is not read later in its block and not
\* handed on.
RemovedInv ==
    \A b \in Block : \A k \in DOMAIN func.code[b] \ kept[b] :
        GetDef(func.code[b][k]) \cap (Later(b, k) \cup {FP, SP}) = {}

StartInv == phase = "analyse" => kept = [b \in Block |-> DOMAIN func.code[b]]

DceInv ==
    /\ IInv /\ DceTypeOK
    /\ DOMAIN kept = Block
    /\ StartInv /\ SweepInv /\ CoverInv /\ RemovedInv

-----------------------------------------------------------------------------
\* DeadCodeRemoval reads the same instructions.
LEMMA SameInstructions ==
    \A i : Removal!GetDef(i) = GetDef(i) /\ Removal!HasDst(i) = HasDst(i)
    BY DEF Removal!GetDef, GetDef, Removal!HasDst, HasDst

\* The code of a block is a sequence of instructions.
LEMMA CodeFacts ==
    ASSUME IInv, NEW b \in Block
    PROVE  /\ func.code[b] \in Seq(Instr)
           /\ DOMAIN func.code[b] = 1 .. Len(func.code[b])
           /\ Len(func.code[b]) \in Nat
           /\ \A k \in DOMAIN func.code[b] : func.code[b][k] \in Instr
           /\ func.succ[b] \subseteq Block
<1>1. func.code \in [Block -> Seq(Instr)] /\ func.succ \in [Block -> SUBSET Block]
    BY FuncFacts DEF IInv, InputInv
<1>2. func.code[b] \in Seq(Instr)
    BY <1>1
<1>3. QED
    BY <1>1, <1>2

\* The blocks of the list are blocks.
LEMMA BlockFacts == \A n \in 1 .. Len(Blocks) : Blocks[n] \in Block
    BY MIDCEAssumption

\* A register live behind a position is in Later: the blocks whose live-in
\* set holds it have the two clauses of Needing.
LEMMA LiveIsLater ==
    ASSUME DceInv, phase # "analyse",
           NEW b \in Block, NEW n \in Nat, NEW r \in Reg \ {FP, SP},
           Removal!LiveBehind(r, b, n)
    PROVE  r \in Later(b, n)
<1> DEFINE Z == {c \in Block : r \in live_in[c]}
<1>1. \A c \in Block : live_out[c] = LiveOutOf(live_in, c)
    BY SolutionAtEnd DEF DceInv, CoverInv, DataflowSolution
<1>2. \A c \in Block : func.succ[c] \subseteq Block
    BY CodeFacts DEF DceInv
<1>3. \A c \in Block : func.succ[c] \cap Z # {} => r \in live_out[c]
    BY <1>1, <1>2 DEF LiveOutOf
<1>4. ASSUME NEW c \in Block,
             Removal!ReadBehind(r, c, 0)
                 \/ (~Removal!WrittenBehind(r, c, 0) /\ func.succ[c] \cap Z # {})
      PROVE  c \in Z
    <2>1. r \in Later(c, 0)
        BY <1>3, <1>4 DEF Later
    <2>2. QED
        BY <2>1 DEF DceInv, CoverInv
<1>5. Removal!Needing(r, Z)
    BY <1>4 DEF Removal!Needing
<1>6. Removal!Needed(r) \subseteq Z
    BY <1>5 DEF Removal!Needed
<1>7. QED
    BY <1>3, <1>6 DEF Removal!LiveBehind, Later

\* Removing an instruction that writes nothing read later makes Later smaller
\* at every position: in front of it no read is uncovered and nothing new is
\* handed on.
LEMMA RemovalShrinks ==
    ASSUME DceInv, NEW c \in Block, NEW p \in kept[c], UNCHANGED <<func, live_out>>,
           kept' = [kept EXCEPT ![c] = @ \ {p}],
           GetDef(func.code[c][p]) \cap Later(c, p) = {},
           NEW b \in Block, NEW n \in Nat
    PROVE  Later(b, n)' \subseteq Later(b, n)
<1>1. kept'[b] = IF b = c THEN kept[c] \ {p} ELSE kept[b]
    BY DEF DceInv
<1>2. CASE b # c
    BY <1>1, <1>2, SameInstructions
       DEF Later, Removal!ReadBehind, Removal!WrittenBehind, Removal!At
<1>3. CASE b = c
    <2> DEFINE rest == kept[c] \ {p}
    <2>1. SUFFICES ASSUME NEW r \in Reg \ {FP, SP}, r \in Later(b, n)'
                   PROVE  r \in Later(b, n)
        BY DEF Later
    <2> DEFINE Rd(k) == r \in Removal!Reads(func.code[c][k])
               Wr(k) == r \in GetDef(func.code[c][k])
    <2>2. p \in Nat /\ kept[c] \subseteq Nat
        BY CodeFacts DEF DceInv, DceTypeOK
    <2>3. \/ \E k \in rest : k > n /\ Rd(k) /\ \A j \in rest : n < j /\ j < k => ~Wr(j)
          \/ (\A k \in rest : k > n => ~Wr(k)) /\ r \in live_out[c]
        BY <1>1, <1>3, <2>1, SameInstructions
           DEF Later, Removal!ReadBehind, Removal!WrittenBehind, Removal!At
    <2>4. Wr(p) => /\ \A k \in kept[c] : k > p /\ Rd(k) =>
                          \E j \in kept[c] : p < j /\ j < k /\ Wr(j)
                   /\ (\E k \in kept[c] : k > p /\ Wr(k)) \/ r \notin live_out[c]
        BY <2>1, SameInstructions DEF Later, Removal!ReadBehind, Removal!WrittenBehind, Removal!At
    <2>5. SUFFICES \/ \E k \in kept[c] :
                          k > n /\ Rd(k) /\ \A j \in kept[c] : n < j /\ j < k => ~Wr(j)
                   \/ (\A k \in kept[c] : k > n => ~Wr(k)) /\ r \in live_out[c]
        BY <1>3, <2>1, SameInstructions DEF Later, Removal!ReadBehind, Removal!WrittenBehind, Removal!At
    <2> HIDE DEF Rd, Wr
    <2>6. CASE \E k \in rest : k > n /\ Rd(k) /\ \A j \in rest : n < j /\ j < k => ~Wr(j)
        <3>1. PICK k \in rest : k > n /\ Rd(k) /\ \A j \in rest : n < j /\ j < k => ~Wr(j)
            BY <2>6
        <3>2. ~(Wr(p) /\ n < p /\ p < k)
            BY <2>2, <2>4, <3>1
        <3>3. \A j \in kept[c] : n < j /\ j < k => ~Wr(j)
            BY <3>1, <3>2
        <3>4. QED
            BY <3>1, <3>3
    <2>7. CASE (\A k \in rest : k > n => ~Wr(k)) /\ r \in live_out[c]
        BY <2>2, <2>4, <2>7
    <2>8. QED
        BY <2>3, <2>6, <2>7
<1>4. QED
    BY <1>2, <1>3

-----------------------------------------------------------------------------
\* Behind the position Previous gives there is nothing left but what is behind
\* n, and n itself.
LEMMA PreviousFacts ==
    ASSUME DceInv, NEW b \in Block, NEW n \in Nat, NEW m \in Previous(b, n)
    PROVE  /\ m \in Nat /\ m < n /\ m \in kept[b] \cup {0}
           /\ \A k \in kept[b] : k > m => k >= n
<1>1. kept[b] \subseteq Nat
    BY CodeFacts DEF DceInv, DceTypeOK
<1>2. QED
    BY <1>1 DEF Previous

LEMMA InitDce == DceInit => DceInv
<1> SUFFICES ASSUME DceInit
             PROVE  DceInv
    OBVIOUS
<1>1. IInv
    BY InitIInv DEF DceInit
<1>2. 1 \in 1 .. Len(Blocks)
    <2>1. Prologue \in Range(Blocks)
        BY MIDCEAssumption, LivenessAssumption
    <2>2. PICK n \in DOMAIN Blocks : Blocks[n] = Prologue
        BY <2>1 DEF Range
    <2>3. n \in 1 .. Len(Blocks) /\ Len(Blocks) \in Nat
        BY MIDCEAssumption
    <2>4. QED
        BY <2>3
<1>3. DceTypeOK
    BY <1>2, MIDCEAssumption DEF DceInit, DceTypeOK
<1>4. QED
    BY <1>1, <1>3 DEF DceInit, DceInv, StartInv, SweepInv, CoverInv, RemovedInv

\* An iteration of the analysis changes nothing of the sweeps.
LEMMA AnalyseStep == DceInv /\ Analyse => DceInv'
<1> SUFFICES ASSUME DceInv, Analyse
             PROVE  DceInv'
    OBVIOUS
<1>1. IInv'
    BY VisitIInv DEF DceInv, Analyse
<1>2. UNCHANGED <<func, phase, kept, block, inst, use_set, changed>> /\ phase = "analyse"
    BY DEF Analyse, Visit, sweepVars
<1>3. DceTypeOK'
    BY <1>2 DEF DceInv, DceTypeOK
<1>4. RemovedInv'
    BY <1>2 DEF DceInv, StartInv, RemovedInv
<1>5. QED
    BY <1>1, <1>2, <1>3, <1>4 DEF DceInv, StartInv, SweepInv, CoverInv

\* Where a block begins to be swept, Later is at most the live-out set.
LEMMA EnterStep ==
    ASSUME DceInv, NEW n \in 1 .. Len(Blocks), Enter(n), phase' = "sweep",
           changed' \in BOOLEAN, UNCHANGED <<vars, kept>>
    PROVE  DceTypeOK' /\ SweepInv'
<1> DEFINE b == Blocks[n]
<1> HIDE DEF b
<1>1. b \in Block
    BY BlockFacts DEF b
<1>2. block' = n /\ inst' \in Previous(b, Len(func.code[b]) + 1) /\ use_set' = live_out[b]
    BY DEF Enter, b
<1>3. UNCHANGED <<func, kept, live_out>>
    BY DEF vars
<1>4. Len(func.code[b]) \in Nat /\ DOMAIN func.code[b] = 1 .. Len(func.code[b])
    BY <1>1, CodeFacts DEF DceInv
<1>5. /\ inst' \in kept[b] \cup {0}
      /\ \A k \in kept[b] : k > inst' => k >= Len(func.code[b]) + 1
    BY <1>1, <1>2, <1>4, PreviousFacts
<1>6. \A k \in kept[b] : ~(k > inst')
    BY <1>1, <1>4, <1>5 DEF DceInv, DceTypeOK
<1>7. Blocks[block'] = b
    BY <1>2 DEF b
<1>8. live_out[b] \subseteq Reg
    BY <1>1 DEF DceInv, IInv, TypeOK
<1>9. DceTypeOK'
    BY <1>2, <1>3, <1>5, <1>7, <1>8 DEF DceInv, DceTypeOK
<1>10. Later(Blocks[block], inst)' \subseteq live_out[b]
    <2>1. \A r : ~Removal!ReadBehind(r, Blocks[block], inst)'
        BY <1>3, <1>6, <1>7 DEF Removal!ReadBehind
    <2>2. QED
        BY <1>3, <1>7, <2>1 DEF Later
<1>11. QED
    BY <1>2, <1>7, <1>9, <1>10 DEF SweepInv

\* The sweeps start with live sets that are a solution, and with all the code.
LEMMA StartStep ==
    ASSUME DceInv, NoSelfRead(Func), StartSweeps
    PROVE  DceInv'
<1>1. /\ phase = "analyse" /\ phase' = "sweep" /\ Done
      /\ kept = [b \in Block |-> DOMAIN func.code[b]]
      /\ UNCHANGED <<func, use, def, worklist, live_in, live_out, kept>>
    BY DEF StartSweeps, vars, DceInv, StartInv
<1>2. IInv'
    BY StepIInv DEF StartSweeps, DceInv
<1>3. 1 \in 1 .. Len(Blocks)
    BY DEF DceInv, DceTypeOK
<1>4. DceTypeOK' /\ SweepInv'
    BY <1>3, EnterStep DEF StartSweeps
<1>5. \A b \in Block : live_in[b] = LiveInOf(live_out[b], b)
    BY <1>1, SolutionAtEnd DEF DceInv, DataflowSolution
<1>6. ASSUME NEW b \in Block, NEW r \in Later(b, 0)
      PROVE  r \in live_in[b]
    <2> DEFINE code == func.code[b]
    <2>1. kept[b] = DOMAIN code /\ DOMAIN code = 1 .. Len(code) /\ Len(code) \in Nat
          /\ use[b] = BlockUse(code) /\ def[b] = BlockDef(code)
        BY <1>1, CodeFacts DEF DceInv, IInv, InputInv
    <2>2. \A k \in DOMAIN code : Removal!Reads(code[k]) \subseteq GetUse(code[k]) \cup {FP, SP}
        BY DEF NoSelfRead, DceInv, IInv, InputInv
    <2>3. r \in Reg \ {FP, SP}
        BY DEF Later
    <2>4. CASE Removal!ReadBehind(r, b, 0)
        <3>1. PICK k \in DOMAIN code :
                /\ r \in Removal!Reads(code[k])
                /\ \A j \in DOMAIN code : 0 < j /\ j < k => r \notin GetDef(code[j])
            BY <2>1, <2>4, SameInstructions DEF Removal!ReadBehind, Removal!At
        <3>2. r \in GetUse(code[k]) /\ \A j \in 1 .. (k - 1) : r \notin GetDef(code[j])
            <4>1. r \in GetUse(code[k])
                BY <2>2, <2>3, <3>1
            <4>2. k \in Nat /\ \A j \in 1 .. (k - 1) : j \in DOMAIN code /\ 0 < j /\ j < k
                BY <2>1
            <4>3. QED
                BY <3>1, <4>1, <4>2
        <3>3. r \in use[b]
            BY <2>1, <3>2 DEF BlockUse
        <3>4. QED
            BY <1>5, <3>3 DEF LiveInOf
    <2>5. CASE ~Removal!WrittenBehind(r, b, 0) /\ r \in live_out[b]
        <3>1. \A k \in DOMAIN code : r \notin GetDef(code[k])
            BY <2>1, <2>5, SameInstructions DEF Removal!WrittenBehind, Removal!At
        <3>2. r \notin def[b]
            BY <2>1, <3>1 DEF BlockDef
        <3>3. QED
            BY <1>5, <2>5, <3>2 DEF LiveInOf
    <2>6. QED
        BY <2>4, <2>5 DEF Later
<1>7. \A b \in Block : Later(b, 0)' = Later(b, 0)
    BY <1>1 DEF Later, Removal!ReadBehind, Removal!WrittenBehind, Removal!At
<1>8. CoverInv'
    BY <1>1, <1>6, <1>7 DEF CoverInv, Done
<1>9. RemovedInv'
    BY <1>1 DEF RemovedInv
<1>10. QED
    BY <1>1, <1>2, <1>4, <1>8, <1>9 DEF DceInv, StartInv

\* What a step of the sweep starts from.
LEMMA SweepFacts ==
    ASSUME DceInv, phase = "sweep", inst # 0
    PROVE  /\ Blocks[block] \in Block
           /\ inst \in kept[Blocks[block]] /\ inst \in Nat
           /\ kept[Blocks[block]] \subseteq Nat
           /\ inst \in DOMAIN func.code[Blocks[block]]
           /\ Instruction \in Instr
           /\ GetUse(Instruction) \subseteq Reg /\ GetDef(Instruction) \subseteq Reg
           /\ Later(Blocks[block], inst) \subseteq use_set
<1>1. Blocks[block] \in Block
    BY BlockFacts DEF DceInv, DceTypeOK
<1>2. inst \in kept[Blocks[block]] /\ inst \in DOMAIN func.code[Blocks[block]]
    BY <1>1 DEF DceInv, DceTypeOK
<1>3. kept[Blocks[block]] \subseteq Nat
    BY <1>1, CodeFacts DEF DceInv, DceTypeOK
<1>4. Instruction \in Instr
    BY <1>1, <1>2, CodeFacts DEF DceInv, Instruction
<1>5. QED
    BY <1>1, <1>2, <1>3, <1>4, InstrType DEF DceInv, SweepInv

\* An instruction that is kept: the use set moves in front of it.
LEMMA KeepStep ==
    ASSUME DceInv, NoSelfRead(Func), Keep
    PROVE  DceInv'
<1> DEFINE b == Blocks[block]
           i == Instruction
<1>1. /\ phase = "sweep" /\ inst # 0 /\ use_set' = ReadBefore(i)
      /\ inst' \in Previous(b, inst)
      /\ UNCHANGED <<func, use, def, worklist, live_in, live_out, phase, kept, block, changed>>
    BY DEF Keep, vars
<1>2. /\ b \in Block /\ inst \in kept[b] /\ inst \in Nat /\ kept[b] \subseteq Nat
      /\ inst \in DOMAIN func.code[b] /\ i = func.code[b][inst]
      /\ GetUse(i) \subseteq Reg /\ Later(b, inst) \subseteq use_set
    BY <1>1, SweepFacts DEF Instruction
<1>3. IInv'
    BY <1>1, StepIInv DEF DceInv, vars
<1>4. /\ inst' \in Nat /\ inst' < inst /\ inst' \in kept[b] \cup {0}
      /\ \A k \in kept[b] : k > inst' => k >= inst
    <2>1. PICK m \in Previous(b, inst) : m = inst'
        BY <1>1
    <2>2. QED
        BY <1>2, <2>1, PreviousFacts
<1>5. use_set' = (use_set \ GetDef(i)) \cup GetUse(i)
    BY <1>1 DEF ReadBefore
<1>6. Removal!Reads(i) \subseteq GetUse(i) \cup {FP, SP}
    BY <1>2 DEF NoSelfRead, DceInv, IInv, InputInv
<1>7. ASSUME NEW r \in Later(Blocks[block], inst)'
      PROVE  r \in use_set'
    <2>1. r \in Reg \ {FP, SP}
        BY DEF Later
    <2>2. CASE \E k \in kept[b] :
                  /\ k > inst' /\ r \in Removal!Reads(func.code[b][k])
                  /\ \A j \in kept[b] : inst' < j /\ j < k => r \notin GetDef(func.code[b][j])
        <3>1. PICK k \in kept[b] :
                /\ k > inst' /\ r \in Removal!Reads(func.code[b][k])
                /\ \A j \in kept[b] : inst' < j /\ j < k => r \notin GetDef(func.code[b][j])
            BY <2>2
        <3>2. CASE k = inst
            BY <1>2, <1>5, <1>6, <2>1, <3>1, <3>2
        <3>3. CASE k > inst
            <4>1. r \notin GetDef(i)
                BY <1>2, <1>4, <3>1, <3>3
            <4>2. \A j \in kept[b] : inst < j /\ j < k => r \notin GetDef(func.code[b][j])
                BY <1>2, <1>4, <3>1
            <4>3. r \in Later(b, inst)
                BY <2>1, <3>1, <3>3, <4>2, SameInstructions
                   DEF Later, Removal!ReadBehind, Removal!At
            <4>4. QED
                BY <1>2, <1>5, <4>1, <4>3
        <3>4. QED
            BY <1>2, <1>4, <3>1, <3>2, <3>3
    <2>3. CASE /\ \A k \in kept[b] : k > inst' => r \notin GetDef(func.code[b][k])
               /\ r \in live_out[b]
        <3>1. r \notin GetDef(i)
            BY <1>2, <1>4, <2>3
        <3>2. \A k \in kept[b] : k > inst => r \notin GetDef(func.code[b][k])
            BY <1>2, <1>4, <2>3
        <3>3. r \in Later(b, inst)
            BY <2>1, <2>3, <3>2, SameInstructions DEF Later, Removal!WrittenBehind, Removal!At
        <3>4. QED
            BY <1>2, <1>5, <3>1, <3>3
    <2>4. QED
        BY <1>1, <2>2, <2>3, SameInstructions
           DEF Later, Removal!ReadBehind, Removal!WrittenBehind, Removal!At
<1>8. SweepInv'
    BY <1>7 DEF SweepInv
<1>9. DceTypeOK'
    BY <1>1, <1>2, <1>4, <1>5 DEF DceInv, DceTypeOK
<1>10. \A c, n : Later(c, n)' = Later(c, n)
    BY <1>1 DEF Later, Removal!ReadBehind, Removal!WrittenBehind, Removal!At
<1>11. CoverInv' /\ RemovedInv'
    BY <1>1, <1>10 DEF DceInv, CoverInv, RemovedInv, Done
<1>12. QED
    BY <1>1, <1>3, <1>8, <1>9, <1>11 DEF DceInv, StartInv

\* An instruction that is erased writes nothing that is read later; use_set
\* stays as it is.
LEMMA EraseStep ==
    ASSUME DceInv, Erase
    PROVE  DceInv'
<1> DEFINE b == Blocks[block]
           i == Instruction
<1>1. /\ phase = "sweep" /\ inst # 0 /\ Erasable(i) /\ changed' = TRUE
      /\ inst' \in Previous(b, inst)
      /\ kept' = [kept EXCEPT ![b] = @ \ {inst}]
      /\ UNCHANGED <<func, use, def, worklist, live_in, live_out, phase, use_set, block>>
    BY DEF Erase, vars
<1>2. /\ b \in Block /\ inst \in kept[b] /\ inst \in Nat /\ kept[b] \subseteq Nat
      /\ inst \in DOMAIN func.code[b] /\ i = func.code[b][inst]
      /\ Later(b, inst) \subseteq use_set
    BY <1>1, SweepFacts DEF Instruction
<1>3. IInv'
    BY <1>1, StepIInv DEF DceInv, vars
<1>4. /\ inst' \in Nat /\ inst' < inst /\ inst' \in kept[b] \cup {0}
      /\ \A k \in kept[b] : k > inst' => k >= inst
    <2>1. PICK m \in Previous(b, inst) : m = inst'
        BY <1>1
    <2>2. QED
        BY <1>2, <2>1, PreviousFacts
<1>5. GetDef(i) \cap (Later(b, inst) \cup {FP, SP}) = {}
    BY <1>1, <1>2 DEF Erasable, IsDead
<1>6. /\ DOMAIN kept' = Block /\ kept'[b] = kept[b] \ {inst}
      /\ \A c \in Block : kept'[c] \subseteq kept[c] /\ (c # b => kept'[c] = kept[c])
    BY <1>1, <1>2 DEF DceInv
<1>7. \A c \in Block, n \in Nat : Later(c, n)' \subseteq Later(c, n)
    BY <1>1, <1>2, <1>5, RemovalShrinks
<1>8. DceTypeOK'
    BY <1>1, <1>2, <1>4, <1>6 DEF DceInv, DceTypeOK
<1>9. ASSUME NEW r \in Later(Blocks[block], inst)'
      PROVE  r \in use_set'
    <2>1. r \in Reg \ {FP, SP}
        BY DEF Later
    <2>2. \A k \in kept'[b] : k > inst' => k \in kept[b] /\ k > inst
        BY <1>2, <1>4, <1>6
    <2>3. \A k \in kept[b] : k > inst => k \in kept'[b] /\ k > inst'
        BY <1>2, <1>4, <1>6
    <2>4. CASE \E k \in kept'[b] :
                  /\ k > inst' /\ r \in Removal!Reads(func.code[b][k])
                  /\ \A j \in kept'[b] : inst' < j /\ j < k => r \notin GetDef(func.code[b][j])
        <3>1. PICK k \in kept'[b] :
                /\ k > inst' /\ r \in Removal!Reads(func.code[b][k])
                /\ \A j \in kept'[b] : inst' < j /\ j < k => r \notin GetDef(func.code[b][j])
            BY <2>4
        <3>2. \A j \in kept[b] : inst < j /\ j < k => r \notin GetDef(func.code[b][j])
            BY <1>2, <1>4, <2>3, <3>1
        <3>3. r \in Later(b, inst)
            BY <2>1, <2>2, <3>1, <3>2, SameInstructions
               DEF Later, Removal!ReadBehind, Removal!At
        <3>4. QED
            BY <1>1, <1>2, <3>3
    <2>5. CASE /\ \A k \in kept'[b] : k > inst' => r \notin GetDef(func.code[b][k])
               /\ r \in live_out[b]
        <3>1. \A k \in kept[b] : k > inst => r \notin GetDef(func.code[b][k])
            BY <2>3, <2>5
        <3>2. r \in Later(b, inst)
            BY <2>1, <2>5, <3>1, SameInstructions DEF Later, Removal!WrittenBehind, Removal!At
        <3>3. QED
            BY <1>1, <1>2, <3>2
    <2>6. QED
        BY <1>1, <2>4, <2>5, SameInstructions
           DEF Later, Removal!ReadBehind, Removal!WrittenBehind, Removal!At
<1>10. SweepInv'
    BY <1>9 DEF SweepInv
<1>11. CoverInv'
    BY <1>1, <1>7 DEF DceInv, CoverInv, Done
<1>12. ASSUME NEW c \in Block, NEW k \in DOMAIN func.code[c] \ kept'[c]
       PROVE  GetDef(func.code[c][k]) \cap (Later(c, k)' \cup {FP, SP}) = {}
    <2>1. k \in Nat
        BY CodeFacts DEF DceInv
    <2>2. CASE k \notin kept[c]
        BY <1>7, <2>1, <2>2 DEF DceInv, RemovedInv
    <2>3. CASE k \in kept[c]
        BY <1>2, <1>5, <1>6, <1>7, <2>1, <2>3
    <2>4. QED
        BY <2>2, <2>3
<1>13. RemovedInv'
    BY <1>1, <1>12 DEF RemovedInv
<1>14. QED
    BY <1>1, <1>3, <1>6, <1>8, <1>10, <1>11, <1>13 DEF DceInv, StartInv

\* Between blocks and between sweeps nothing is removed.
LEMMA PauseStep ==
    ASSUME DceInv, NextBlock \/ NextSweep
    PROVE  DceInv'
<1>1. UNCHANGED <<func, use, def, worklist, live_in, live_out, kept>> /\ UNCHANGED vars
      /\ phase = "sweep" /\ phase' \in {"sweep", "done"}
    BY DEF NextBlock, NextSweep, vars
<1>2. IInv'
    BY <1>1, StepIInv DEF DceInv
<1>3. block \in 1 .. Len(Blocks) /\ Len(Blocks) \in Nat
    BY MIDCEAssumption DEF DceInv, DceTypeOK
<1>4. DceTypeOK' /\ SweepInv'
    <2>1. CASE NextBlock
        <3>1. block + 1 \in 1 .. Len(Blocks)
            BY <1>3, <2>1 DEF NextBlock
        <3>2. Enter(block + 1) /\ phase' = "sweep" /\ changed' \in BOOLEAN
            BY <1>1, <2>1 DEF NextBlock, DceInv, DceTypeOK
        <3>3. QED
            BY <1>1, <3>1, <3>2, EnterStep
    <2>2. CASE NextSweep /\ changed
        <3>1. Enter(1) /\ changed' = FALSE /\ phase' = phase
            BY <2>2 DEF NextSweep
        <3>2. 1 \in 1 .. Len(Blocks)
            BY <1>3
        <3>3. QED
            BY <1>1, <3>1, <3>2, EnterStep
    <2>3. CASE NextSweep /\ ~changed
        BY <1>1, <2>3 DEF NextSweep, DceInv, DceTypeOK, SweepInv
    <2>4. QED
        BY <2>1, <2>2, <2>3
<1>5. \A c, n : Later(c, n)' = Later(c, n)
    BY <1>1 DEF Later, Removal!ReadBehind, Removal!WrittenBehind, Removal!At
<1>6. CoverInv' /\ RemovedInv'
    BY <1>1, <1>5 DEF DceInv, CoverInv, RemovedInv, Done
<1>7. QED
    BY <1>1, <1>2, <1>4, <1>6 DEF DceInv, StartInv

LEMMA StepDce == NoSelfRead(Func) /\ DceInv /\ [DceNext]_dceVars => DceInv'
<1> SUFFICES ASSUME NoSelfRead(Func), DceInv, [DceNext]_dceVars
             PROVE  DceInv'
    OBVIOUS
<1>1. CASE UNCHANGED dceVars
    <2>1. UNCHANGED vars /\ UNCHANGED <<func, use, def, worklist, live_in, live_out>>
          /\ UNCHANGED <<phase, kept, block, inst, use_set, changed>>
        BY <1>1 DEF dceVars, sweepVars, vars
    <2>2. IInv'
        BY <2>1, StepIInv DEF DceInv
    <2>3. \A c, n : Later(c, n)' = Later(c, n)
        BY <2>1 DEF Later, Removal!ReadBehind, Removal!WrittenBehind, Removal!At
    <2>4. DceTypeOK'
        BY <2>1 DEF DceInv, DceTypeOK
    <2>5. SweepInv'
        BY <2>1 DEF DceInv, SweepInv, Later, Removal!ReadBehind, Removal!WrittenBehind,
                    Removal!At
    <2>6. CoverInv' /\ RemovedInv' /\ StartInv' /\ DOMAIN kept' = Block
        BY <2>1, <2>3 DEF DceInv, CoverInv, RemovedInv, StartInv, Done
    <2>7. QED
        BY <2>2, <2>4, <2>5, <2>6 DEF DceInv
<1>2. QED
    BY <1>1, AnalyseStep, StartStep, EraseStep, KeepStep, PauseStep DEF DceNext

LEMMA DceInvariance ==
    ASSUME NoSelfRead(Func)
    PROVE  DceSpec => []DceInv
<1>1. NoSelfRead(Func) /\ DceInv /\ [DceNext]_dceVars => DceInv'
    BY StepDce
<1>2. QED
    BY <1>1, InitDce, PTL DEF DceSpec

\* What a removed instruction wrote is never read by the code that is left.
THEOREM RemovedAreDead ==
    ASSUME NoSelfRead(Func)
    PROVE  DceSpec => []RemovedStayDead
<1>1. ASSUME DceInv
      PROVE  RemovedStayDead
    <2>1. SUFFICES ASSUME NEW b \in Block, NEW k \in DOMAIN func.code[b] \ kept[b],
                          NEW r \in GetDef(func.code[b][k]), Removal!LiveBehind(r, b, k)
                   PROVE  FALSE
        BY SameInstructions DEF RemovedStayDead, Removal!RemovedStayDead, Removal!At
    <2>2. phase # "analyse"
        BY <1>1 DEF DceInv, StartInv
    <2>3. k \in Nat /\ r \in Reg
        BY <1>1, CodeFacts, InstrType DEF DceInv
    <2>4. r \notin Later(b, k) /\ r \notin {FP, SP}
        BY <1>1 DEF DceInv, RemovedInv
    <2>5. QED
        BY <1>1, <2>1, <2>2, <2>3, <2>4, LiveIsLater
<1>2. QED
    BY <1>1, DceInvariance, PTL

\* Every step of the pass removes nothing, or one instruction whose result no
\* path reads in the code that is there at that moment.
THEOREM ImplementsDeadCodeRemoval ==
    ASSUME NoSelfRead(Func)
    PROVE  DceSpec => ImplementsRemoval
<1>1. DceInit => Removal!Init
    BY DEF DceInit, Removal!Init
<1>2. ASSUME DceInv, Erase
      PROVE  Removal!Remove
    <2> DEFINE b == Blocks[block]
    <2>1. /\ phase = "sweep" /\ inst # 0 /\ Erasable(Instruction)
          /\ kept' = [kept EXCEPT ![b] = @ \ {inst}] /\ UNCHANGED func
        BY <1>2 DEF Erase, vars
    <2>2. /\ b \in Block /\ inst \in kept[b] /\ inst \in Nat
          /\ Instruction = func.code[b][inst]
          /\ GetDef(Instruction) \subseteq Reg /\ Later(b, inst) \subseteq use_set
        BY <1>2, <2>1, SweepFacts DEF Instruction
    <2>3. GetDef(Instruction) \cap (Later(b, inst) \cup {FP, SP}) = {}
        BY <2>1, <2>2 DEF Erasable, IsDead
    <2>4. \A r \in GetDef(Instruction) : ~Removal!LiveBehind(r, b, inst)
        BY <1>2, <2>1, <2>2, <2>3, LiveIsLater
    <2>5. Removal!Removable(b, inst)
        BY <2>1, <2>2, <2>3, <2>4, SameInstructions
           DEF Erasable, Removal!Removable, Removal!At
    <2>6. QED
        BY <2>1, <2>2, <2>5 DEF Removal!Remove
<1>3. DceInv /\ [DceNext]_dceVars => [Removal!Remove]_<<func, kept>>
    BY <1>2 DEF DceNext, Analyse, Visit, StartSweeps, Keep, NextBlock, NextSweep,
                dceVars, sweepVars, vars
<1>4. QED
    BY <1>1, <1>3, DceInvariance, PTL DEF DceSpec, ImplementsRemoval, Removal!Spec
-----------------------------------------------------------------------------
(***************************************************************************)
(* One sweep is enough.  Nothing here needs NoSelfRead: the use set is     *)
(* exactly what the sweep's own rule says is read behind the place where   *)
(* it stands, and in a block that has been swept nothing is left to        *)
(* remove, whatever is removed elsewhere.                                  *)
(***************************************************************************)

\* Sweeping again would leave instruction k of block b in place.
Resists(b, k) ==
    LET i == func.code[b][k]
    IN  HasDst(i) /\ ~i.reserved => GetDef(i) \cap (ReadLater(b, k) \cup {FP, SP}) # {}

\* Nothing behind position n of block b is left to remove.
SweptBehind(b, n) == \A k \in kept[b] : k > n => Resists(b, k)

\* The use set is what is read behind inst.
ExactUse == phase = "sweep" => use_set = ReadLater(Blocks[block], inst)

\* The blocks and positions the current sweep has passed are clean.
SweptClean ==
    /\ phase = "sweep" => SweptBehind(Blocks[block], inst)
    /\ phase = "sweep" => \A n \in 1 .. Len(Blocks) : n < block => SweptBehind(Blocks[n], 0)
    /\ phase = "done" => \A n \in 1 .. Len(Blocks) : SweptBehind(Blocks[n], 0)

OnceInv == IInv /\ DceTypeOK /\ DOMAIN kept = Block /\ ExactUse /\ SweptClean

\* ReadLater, one register at a time.
LEMMA ReadLaterFacts ==
    ASSUME NEW b, NEW n, NEW r
    PROVE  r \in ReadLater(b, n) <=>
              \/ r \in live_out[b]
                 /\ \A j \in kept[b] : j > n => r \notin GetDef(func.code[b][j])
              \/ \E k \in kept[b] :
                    /\ k > n /\ r \in GetUse(func.code[b][k])
                    /\ \A j \in kept[b] : n < j /\ j < k => r \notin GetDef(func.code[b][j])
    BY DEF ReadLater

LEMMA ReadLaterNext ==
    ASSUME NEW b, NEW n, NEW r, UNCHANGED <<func, live_out>>
    PROVE  r \in ReadLater(b, n)' <=>
              \/ r \in live_out[b]
                 /\ \A j \in kept'[b] : j > n => r \notin GetDef(func.code[b][j])
              \/ \E k \in kept'[b] :
                    /\ k > n /\ r \in GetUse(func.code[b][k])
                    /\ \A j \in kept'[b] : n < j /\ j < k => r \notin GetDef(func.code[b][j])
    BY DEF ReadLater

\* Every instruction kept stands at a position above 0.
LEMMA KeptFacts ==
    ASSUME IInv, DceTypeOK, NEW b \in Block
    PROVE  /\ kept[b] \subseteq DOMAIN func.code[b] /\ kept[b] \subseteq Nat \ {0}
           /\ DOMAIN func.code[b] = 1 .. Len(func.code[b]) /\ Len(func.code[b]) \in Nat
    BY CodeFacts DEF DceTypeOK

\* A block is entered with everything behind inst, which is nothing, swept.
LEMMA EnterOnce ==
    ASSUME OnceInv, NEW n \in 1 .. Len(Blocks), Enter(n), phase' = "sweep",
           changed' \in BOOLEAN, UNCHANGED <<vars, kept>>
    PROVE  /\ DceTypeOK' /\ ExactUse'
           /\ SweptBehind(Blocks[block], inst)'
           /\ block' = n /\ Blocks[n] \in Block
<1> DEFINE b == Blocks[n]
<1> HIDE DEF b
<1>1. b \in Block
    BY BlockFacts DEF b
<1>2. block' = n /\ inst' \in Previous(b, Len(func.code[b]) + 1) /\ use_set' = live_out[b]
    BY DEF Enter, b
<1>3. UNCHANGED <<func, kept, live_out>>
    BY DEF vars
<1>4. /\ kept[b] \subseteq 1 .. Len(func.code[b]) /\ Len(func.code[b]) \in Nat
    BY <1>1, KeptFacts DEF OnceInv
<1>5. /\ inst' \in kept[b] \cup {0}
      /\ \A k \in kept[b] : ~(k > inst')
    BY <1>2, <1>4 DEF Previous
<1>6. Blocks[block'] = b
    BY <1>2 DEF b
<1>7. live_out[b] \subseteq Reg
    BY <1>1 DEF OnceInv, IInv, TypeOK
<1>8. DceTypeOK'
    BY <1>2, <1>3, <1>5, <1>6, <1>7 DEF OnceInv, DceTypeOK
<1>9. ReadLater(b, inst') = live_out[b]
    <2>1. ASSUME NEW r
          PROVE  r \in ReadLater(b, inst') <=> r \in live_out[b]
        BY <1>5, ReadLaterFacts
    <2>2. QED
        BY <2>1
<1>10. ReadLater(Blocks[block], inst)' = ReadLater(b, inst')
    BY <1>3, <1>6 DEF ReadLater
<1>11. SweptBehind(Blocks[block], inst)'
    BY <1>3, <1>5, <1>6 DEF SweptBehind
<1>12. QED
    BY <1>1, <1>2, <1>8, <1>9, <1>10, <1>11 DEF ExactUse, b

\* What a step of the sweep starts from.
LEMMA OnceFacts ==
    ASSUME OnceInv, phase = "sweep", inst # 0, inst' \in Previous(Blocks[block], inst)
    PROVE  /\ Blocks[block] \in Block
           /\ inst \in kept[Blocks[block]] /\ inst \in Nat
           /\ kept[Blocks[block]] \subseteq Nat
           /\ GetUse(Instruction) \subseteq Reg
           /\ inst' \in Nat /\ inst' < inst /\ inst' \in kept[Blocks[block]] \cup {0}
           /\ \A k \in kept[Blocks[block]] : k > inst' <=> k > inst \/ k = inst
<1>1. Blocks[block] \in Block
    BY BlockFacts DEF OnceInv, DceTypeOK
<1>2. /\ kept[Blocks[block]] \subseteq DOMAIN func.code[Blocks[block]]
      /\ kept[Blocks[block]] \subseteq Nat
      /\ inst \in kept[Blocks[block]]
    BY <1>1, KeptFacts DEF OnceInv, DceTypeOK
<1>3. Instruction \in Instr
    BY <1>1, <1>2, CodeFacts DEF OnceInv, Instruction
<1>4. /\ inst' \in Nat /\ inst' < inst /\ inst' \in kept[Blocks[block]] \cup {0}
      /\ \A k \in kept[Blocks[block]] : k <= inst' \/ k >= inst
    BY <1>2 DEF Previous
<1>5. QED
    BY <1>1, <1>2, <1>3, <1>4, InstrType

\* An instruction that is kept resists: the use set it was held against is
\* what is read behind it.
LEMMA KeepOnce ==
    ASSUME OnceInv, Keep
    PROVE  OnceInv'
<1> DEFINE b == Blocks[block]
           i == Instruction
<1>1. /\ phase = "sweep" /\ inst # 0 /\ ~Erasable(i) /\ use_set' = ReadBefore(i)
      /\ inst' \in Previous(b, inst)
      /\ UNCHANGED <<func, use, def, worklist, live_in, live_out, phase, kept, block, changed>>
    BY DEF Keep, vars
<1>2. /\ b \in Block /\ inst \in kept[b] /\ inst \in Nat /\ kept[b] \subseteq Nat
      /\ GetUse(i) \subseteq Reg
      /\ inst' \in Nat /\ inst' < inst /\ inst' \in kept[b] \cup {0}
      /\ \A k \in kept[b] : k > inst' <=> k > inst \/ k = inst
    BY <1>1, OnceFacts
<1>3. i = func.code[b][inst] /\ use_set = ReadLater(b, inst)
    BY <1>1 DEF Instruction, OnceInv, ExactUse
<1>4. IInv'
    BY <1>1, StepIInv DEF OnceInv, vars
<1>5. DceTypeOK'
    BY <1>1, <1>2 DEF OnceInv, DceTypeOK, ReadBefore
<1> HIDE DEF i, b
<1>6. ASSUME NEW r
      PROVE  r \in ReadLater(b, inst') <=> r \in use_set'
    <2>1. r \in use_set' <=> r \in GetUse(i) \/ (r \notin GetDef(i) /\ r \in ReadLater(b, inst))
        BY <1>1, <1>3 DEF ReadBefore
    <2>2. (\A j \in kept[b] : j > inst' => r \notin GetDef(func.code[b][j]))
             <=> r \notin GetDef(i) /\ \A j \in kept[b] : j > inst => r \notin GetDef(func.code[b][j])
        BY <1>2, <1>3
    <2>3. ASSUME NEW k \in kept[b], k > inst
          PROVE  (\A j \in kept[b] : inst' < j /\ j < k => r \notin GetDef(func.code[b][j]))
                   <=> r \notin GetDef(i)
                       /\ \A j \in kept[b] : inst < j /\ j < k => r \notin GetDef(func.code[b][j])
        BY <1>2, <1>3, <2>3
    <2>4. \A j \in kept[b] : ~(inst' < j /\ j < inst)
        BY <1>2
    <2>5. r \in ReadLater(b, inst') <=>
              \/ r \in live_out[b] /\ r \notin GetDef(i)
                 /\ \A j \in kept[b] : j > inst => r \notin GetDef(func.code[b][j])
              \/ r \in GetUse(i)
              \/ \E k \in kept[b] :
                    /\ k > inst /\ r \in GetUse(func.code[b][k]) /\ r \notin GetDef(i)
                    /\ \A j \in kept[b] : inst < j /\ j < k => r \notin GetDef(func.code[b][j])
        BY <1>2, <1>3, <2>2, <2>3, <2>4, ReadLaterFacts
    <2>6. QED
        BY <2>1, <2>5, ReadLaterFacts
<1>7. ExactUse'
    <2>1. ReadLater(Blocks[block], inst)' = ReadLater(b, inst')
        BY <1>1 DEF ReadLater, b
    <2>2. QED
        BY <1>6, <2>1 DEF ExactUse
<1>8. Resists(b, inst)
    BY <1>1, <1>3 DEF Erasable, IsDead, Resists
<1>9. SweptClean'
    <2>1. \A c, k : Resists(c, k)' = Resists(c, k)
        BY <1>1 DEF Resists, ReadLater
    <2>2. SweptBehind(b, inst)
        BY <1>1 DEF OnceInv, SweptClean, b
    <2>3. \A k \in kept[b] : k > inst' => Resists(b, k)
        BY <1>2, <1>8, <2>2 DEF SweptBehind
    <2>4. QED
        BY <1>1, <2>1, <2>3 DEF OnceInv, SweptClean, SweptBehind, b
<1>10. QED
    BY <1>1, <1>4, <1>5, <1>7, <1>9 DEF OnceInv

\* What is erased was not swept before, and nothing behind it is disturbed.
LEMMA EraseOnce ==
    ASSUME OnceInv, Erase
    PROVE  OnceInv'
<1>0. PICK b \in Block : b = Blocks[block]
    BY BlockFacts DEF OnceInv, DceTypeOK
<1>1. /\ phase = "sweep" /\ inst # 0 /\ Erasable(Instruction)
      /\ kept' = [kept EXCEPT ![b] = @ \ {inst}]
      /\ inst' \in Previous(b, inst) /\ changed' = TRUE
      /\ UNCHANGED <<func, use, def, worklist, live_in, live_out, phase, block, use_set>>
    BY <1>0 DEF Erase, vars
<1>2. /\ b \in Block /\ inst \in kept[b] /\ inst \in Nat /\ kept[b] \subseteq Nat
      /\ inst' \in Nat /\ inst' < inst /\ inst' \in kept[b] \cup {0}
      /\ \A k \in kept[b] : k > inst' <=> k > inst \/ k = inst
    BY <1>0, <1>1, OnceFacts
<1>3. IInv'
    BY <1>1, StepIInv DEF OnceInv, vars
<1>4. /\ DOMAIN kept' = Block /\ kept'[b] = kept[b] \ {inst}
      /\ \A c \in Block : kept'[c] \subseteq kept[c] /\ (c # b => kept'[c] = kept[c])
    BY <1>1, <1>2 DEF OnceInv
<1>5. DceTypeOK'
    BY <1>0, <1>1, <1>2, <1>4 DEF OnceInv, DceTypeOK
<1>6. Instruction = func.code[b][inst] /\ use_set = ReadLater(b, inst)
    BY <1>0, <1>1 DEF Instruction, OnceInv, ExactUse
<1>7. PICK p \in Nat, m \in Nat : p = inst /\ m = inst'
    BY <1>2
<1>8. ASSUME NEW n \in Nat, NEW k \in Nat, n >= p, k = n \/ (n = p /\ k = m)
      PROVE  ReadLater(b, k)' = ReadLater(b, n)
    <2>1. \A j \in kept[b] : j > n => j \in kept'[b] /\ j > k
        BY <1>2, <1>4, <1>7, <1>8
    <2>2. \A j \in kept'[b] : j > k => j \in kept[b] /\ j > n
        BY <1>2, <1>4, <1>7, <1>8
    <2>3. ASSUME NEW r
          PROVE  r \in ReadLater(b, k)' <=> r \in ReadLater(b, n)
        <3>1. (\A j \in kept'[b] : j > k => r \notin GetDef(func.code[b][j]))
                 <=> \A j \in kept[b] : j > n => r \notin GetDef(func.code[b][j])
            BY <2>1, <2>2
        <3>2. ASSUME NEW h
              PROVE  (\A j \in kept'[b] : k < j /\ j < h => r \notin GetDef(func.code[b][j]))
                       <=> \A j \in kept[b] : n < j /\ j < h => r \notin GetDef(func.code[b][j])
            <4>1. \A j \in kept'[b] : k < j => j \in kept[b] /\ n < j
                BY <1>2, <1>4, <2>2
            <4>2. \A j \in kept[b] : n < j => j \in kept'[b] /\ k < j
                BY <1>2, <1>4, <2>1
            <4>3. QED
                BY <4>1, <4>2
        <3>3. UNCHANGED <<func, live_out>>
            BY <1>1
        <3>4. QED
            BY <2>1, <2>2, <3>1, <3>2, <3>3, ReadLaterFacts, ReadLaterNext
    <2>4. QED
        BY <2>3
<1>9. ExactUse'
    <2>1. ReadLater(Blocks[block], inst)' = ReadLater(b, m)'
        BY <1>0, <1>1, <1>7 DEF ReadLater
    <2>2. ReadLater(b, m)' = ReadLater(b, p)
        BY <1>2, <1>7, <1>8
    <2>3. QED
        BY <1>1, <1>6, <1>7, <2>1, <2>2 DEF ExactUse
<1>10. ASSUME NEW c \in Block, NEW n \in Nat, SweptBehind(c, n), c # b \/ n >= p
       PROVE  SweptBehind(c, n)'
    <2>1. SUFFICES ASSUME NEW k \in kept'[c], k > n
                   PROVE  Resists(c, k)'
        BY DEF SweptBehind
    <2>2. k \in kept[c] /\ Resists(c, k)
        BY <1>4, <1>10, <2>1 DEF SweptBehind
    <2>3. ReadLater(c, k)' = ReadLater(c, k)
        <3>1. CASE c # b
            BY <1>1, <1>4, <3>1 DEF ReadLater
        <3>2. CASE c = b
            BY <1>2, <1>7, <1>8, <1>10, <2>1, <2>2, <3>2
        <3>3. QED
            BY <3>1, <3>2
    <2>4. QED
        BY <1>1, <2>2, <2>3 DEF Resists
<1>11. SweptBehind(Blocks[block], inst)'
    <2>1. SweptBehind(b, p)
        BY <1>0, <1>1, <1>7 DEF OnceInv, SweptClean
    <2>2. SweptBehind(b, p)'
        BY <1>2, <1>10, <2>1
    <2>3. \A k \in kept'[b] : k > m => k > p
        BY <1>2, <1>4, <1>7
    <2>4. SweptBehind(b, m)'
        BY <2>2, <2>3 DEF SweptBehind
    <2>5. QED
        BY <1>0, <1>1, <1>7, <2>4 DEF SweptBehind
<1>12. ASSUME NEW n \in 1 .. Len(Blocks), n < block
       PROVE  SweptBehind(Blocks[n], 0)'
    <2>1. SweptBehind(Blocks[n], 0)
        BY <1>1, <1>12 DEF OnceInv, SweptClean
    <2>2. Blocks[n] # b
        BY SMTT(30), <1>1, <1>2, <1>6, <2>1 DEF SweptBehind, Resists, Erasable, IsDead
    <2>3. QED
        BY <1>10, <2>1, <2>2, BlockFacts
<1>13. SweptClean'
    BY <1>1, <1>11, <1>12 DEF SweptClean
<1>14. QED
    BY <1>1, <1>3, <1>4, <1>5, <1>9, <1>13 DEF OnceInv

\* Between blocks the one just swept joins the clean ones; after the last one
\* all of them are clean.
LEMMA PauseOnce ==
    ASSUME OnceInv, NextBlock \/ NextSweep
    PROVE  OnceInv'
<1>1. UNCHANGED <<func, use, def, worklist, live_in, live_out, kept>> /\ UNCHANGED vars
      /\ phase = "sweep" /\ inst = 0
    BY DEF NextBlock, NextSweep, vars
<1>2. IInv' /\ DOMAIN kept' = Block
    BY <1>1, StepIInv DEF OnceInv
<1>3. block \in 1 .. Len(Blocks) /\ Len(Blocks) \in Nat
    BY MIDCEAssumption DEF OnceInv, DceTypeOK
<1>4. \A n \in 1 .. Len(Blocks) : n <= block => SweptBehind(Blocks[n], 0)
    BY <1>1, <1>3 DEF OnceInv, SweptClean
<1>5. \A c, n : SweptBehind(c, n)' = SweptBehind(c, n)
    BY <1>1 DEF SweptBehind, Resists, ReadLater
<1>6. CASE NextBlock
    <2>1. block + 1 \in 1 .. Len(Blocks)
        BY <1>3, <1>6 DEF NextBlock
    <2>2. Enter(block + 1) /\ phase' = "sweep" /\ changed' \in BOOLEAN
        BY <1>6 DEF NextBlock, OnceInv, DceTypeOK
    <2>3. DceTypeOK' /\ ExactUse' /\ SweptBehind(Blocks[block], inst)' /\ block' = block + 1
        BY <1>1, <2>1, <2>2, EnterOnce
    <2>4. \A n \in 1 .. Len(Blocks) : n < block' => SweptBehind(Blocks[n], 0)'
        BY <1>3, <1>4, <1>5, <2>3
    <2>5. SweptClean'
        BY <2>2, <2>3, <2>4 DEF SweptClean
    <2>6. QED
        BY <1>2, <2>3, <2>5 DEF OnceInv
<1>7. CASE NextSweep /\ changed
    <2>0. 1 \in 1 .. Len(Blocks)
        BY <1>3
    <2>1. Enter(1) /\ phase' = "sweep" /\ changed' \in BOOLEAN
        BY <1>1, <1>7 DEF NextSweep
    <2>2. DceTypeOK' /\ ExactUse' /\ SweptBehind(Blocks[block], inst)' /\ block' = 1
        BY <1>1, <2>0, <2>1, EnterOnce
    <2>3. SweptClean'
        BY <2>1, <2>2 DEF SweptClean
    <2>4. QED
        BY <1>2, <2>2, <2>3 DEF OnceInv
<1>8. CASE NextSweep /\ ~changed
    <2>1. phase' = "done" /\ block = Len(Blocks) /\ UNCHANGED <<block, inst, use_set, changed>>
        BY <1>8 DEF NextSweep
    <2>2. DceTypeOK' /\ ExactUse'
        BY <1>1, <2>1 DEF OnceInv, DceTypeOK, ExactUse
    <2>3. SweptClean'
        BY <1>3, <1>4, <1>5, <2>1 DEF SweptClean
    <2>4. QED
        BY <1>2, <2>2, <2>3 DEF OnceInv
<1>9. QED
    BY <1>6, <1>7, <1>8

LEMMA InitOnce == DceInit => OnceInv
<1>1. DceInit => IInv /\ DceTypeOK /\ DOMAIN kept = Block
    BY InitDce DEF DceInv
<1>2. QED
    BY <1>1 DEF DceInit, OnceInv, ExactUse, SweptClean

LEMMA StepOnce == OnceInv /\ [DceNext]_dceVars => OnceInv'
<1> SUFFICES ASSUME OnceInv, [DceNext]_dceVars
             PROVE  OnceInv'
    OBVIOUS
<1>1. CASE Analyse
    <2>1. IInv'
        BY <1>1, VisitIInv DEF OnceInv, Analyse
    <2>2. UNCHANGED <<func, phase, kept, block, inst, use_set, changed>> /\ phase = "analyse"
        BY <1>1 DEF Analyse, Visit, sweepVars
    <2>3. QED
        BY <2>1, <2>2 DEF OnceInv, DceTypeOK, ExactUse, SweptClean
<1>2. CASE StartSweeps
    <2>1. 1 \in 1 .. Len(Blocks)
        BY MIDCEAssumption DEF OnceInv, DceTypeOK
    <2>2. Enter(1) /\ phase' = "sweep" /\ changed' \in BOOLEAN /\ UNCHANGED <<vars, kept>>
        BY <1>2 DEF StartSweeps
    <2>3. DceTypeOK' /\ ExactUse' /\ SweptBehind(Blocks[block], inst)' /\ block' = 1
        BY <2>1, <2>2, EnterOnce
    <2>4. IInv'
        BY <2>2, StepIInv DEF OnceInv
    <2>5. SweptClean'
        BY <2>2, <2>3 DEF SweptClean
    <2>6. QED
        BY <2>2, <2>3, <2>4, <2>5 DEF OnceInv
<1>3. CASE UNCHANGED dceVars
    <2>1. UNCHANGED vars /\ UNCHANGED <<func, live_out, phase, kept, block, inst, use_set, changed>>
        BY <1>3 DEF dceVars, sweepVars, vars
    <2>2. IInv'
        BY <2>1, StepIInv DEF OnceInv
    <2>3. QED
        BY SMTT(30), <2>1, <2>2
           DEF OnceInv, DceTypeOK, ExactUse, SweptClean, SweptBehind, Resists, ReadLater
<1>4. QED
    BY <1>1, <1>2, <1>3, EraseOnce, KeepOnce, PauseOnce DEF DceNext

\* The sweeps keep their types, also those of a function with instructions
\* that read what they write.
THEOREM DceTypeCorrect == DceSpec => []DceTypeOK
<1>1. OnceInv => DceTypeOK
    BY DEF OnceInv
<1>2. QED
    BY <1>1, InitOnce, StepOnce, PTL DEF DceSpec

\* After one sweep nothing is left that its live sets allow to remove, chains
\* of dead instructions included: of any function, also of one with
\* instructions that read what they write.
THEOREM SecondSweepConfirms == DceSpec => []OneSweepEnough
<1>1. ASSUME OnceInv
      PROVE  OneSweepEnough
    <2>1. SUFFICES ASSUME phase = "done" \/ (phase = "sweep" /\ inst = 0 /\ block = Len(Blocks)),
                          NEW b \in Block, NEW k \in kept[b]
                   PROVE  Resists(b, k)
        BY DEF OneSweepEnough, Resists
    <2>2. PICK n \in 1 .. Len(Blocks) : Blocks[n] = b
        BY MIDCEAssumption DEF Range
    <2>3. Len(Blocks) \in Nat /\ block \in 1 .. Len(Blocks)
        BY <1>1, MIDCEAssumption DEF OnceInv, DceTypeOK
    <2>4. SweptBehind(b, 0)
        BY <1>1, <2>1, <2>2, <2>3 DEF OnceInv, SweptClean
    <2>5. k > 0
        BY <1>1, KeptFacts DEF OnceInv
    <2>6. QED
        BY <2>4, <2>5 DEF SweptBehind
<1>2. QED
    BY <1>1, InitOnce, StepOnce, PTL DEF DceSpec
=============================================================================
