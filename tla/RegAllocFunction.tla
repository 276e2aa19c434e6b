-------------------------- MODULE RegAllocFunction --------------------------
(***************************************************************************)
(* RegisterAllocation::run_on_func for the machine code of one function:   *)
(* rounds of liveness analysis, build_graph and colouring, a rewrite of    *)
(* the code between two rounds that puts the registers without a colour on *)
(* the stack, and the colouring of the code after the last.                *)
(*                                                                         *)
(* Between two rounds only initial and the sets of nodes are set anew:     *)
(* edges, degree, move_list and the sets of moves are those the round has  *)
(* left.  Stale entries of alias are read for no register, so alias is     *)
(* reset here, as its compressed form asks for.                            *)
(*                                                                         *)
(* Registers are numbered bank by bank in the order they are met in the    *)
(* code; those a rewrite creates follow, without the ones no instruction   *)
(* names.  Moves to or from the zero register are decided at once, change  *)
(* no list and are left out.                                               *)
(*                                                                         *)
(* The liveness analysis is modelled by its result, see LivenessAnalysis.  *)
(***************************************************************************)
EXTENDS RegisterAllocation, InstructionSelector

CONSTANTS
    ParamRegs,   \* callee -> its parameter registers
    CallerSaved, \* PhysicalRegister::caller_saved_regs()
    HashOrders   \* the orders in which the containers yield their elements

VARIABLES
    regMap,      \* FrameScheduler::reg_map, as distances below the base
    spBased,     \* the registers with kUSING_SP_AS_FRAME_REG
    created,     \* how many registers of each bank there are so far
    order        \* of the containers

codeVars == <<instrs, frameSize, rejected, regMap, spBased, created, order>>
allocVars == <<vars, regMap, spBased, created, order>>

IsVirtual(x) == x[1] \in Banks /\ x[2] # "r"
Nth(bank, n) == <<bank, "x", n>>

\* The containers are unordered sets of pointers: their order is a hash of the
\* address (bound: one of HashOrders for all of them).
Key(n) == 1000 * ((order * n) % 31) + n
Begin(S) == CHOOSE r \in S : \A t \in S : Key(r[3]) <= Key(t[3])
BeginMove(S) == CHOOSE m \in S : \A k \in S : Key(m) <= Key(k)
MoveOrder(r) == [m \in NodeMoves(r) |-> Key(m)]
Ordered(S) ==
    LET bank == [Float |-> 0, FloatCmp |-> 1, General |-> 2]
        place(r) == 4 * Key(r[3]) + bank[r[1]]
    IN  [k \in 1 .. Cardinality(S) |->
            CHOOSE r \in S : Cardinality({t \in S : place(t) < place(r)}) = k - 1]

-----------------------------------------------------------------------------
\* MachineInstr::get_use and get_def with all operands.
NamedUses(i) ==
    SelectSeq(i.ops, LAMBDA x : x[1] \in Banks /\ x # zero /\ (Writes(i) => x # i.ops[1]))
Uses(i) ==
    CASE i.tag = "BL" -> ParamRegs[i.ops[1][3]]
      [] i.tag = "JR" -> Range(CalleeSavedRegs)
                         \cup (CASE func.ret = "i32" -> {a(0)} [] func.ret = "float" -> {fa(0)}
                                 [] OTHER -> {})
      [] OTHER -> Range(NamedUses(i))

\* Mutant of Defs: a call keeps the registers its callee may use.
DefsKept(i) ==
    CASE i.tag = "BL" -> {ra}
      [] i.tag # "BL" /\ Writes(i) -> {i.ops[1]} \ {zero}
      [] OTHER -> {}

Defs(i) ==
    CASE i.tag = "BL" -> CallerSaved \cup {ra}
      [] i.tag # "BL" /\ Writes(i) -> {i.ops[1]} \ {zero}
      [] OTHER -> {}

\* Where the branches of a block lead, also the successors the IR gave it.
Targets(b) ==
    {i.ops[Len(i.ops)][3] : i \in {i \in Range(instrs[b]) :
        i.tag \in {"B", "BNEZ", "BEQ", "BNE", "BLT", "BGE"}}}

\* Live in front of the code when `out' is live behind it.
LiveBefore(code, out) == FoldRight(LAMBDA i, live : (live \ Defs(i)) \cup Uses(i), code, out)

\* The live-in sets: the least solution, reached after as many sweeps as
\* there are blocks.
LiveIns ==
    LET sweep(ins, k) ==
            [b \in DOMAIN instrs |-> LiveBefore(instrs[b], UNION {ins[s] : s \in Targets(b)})]
    IN  FoldLeft(sweep, [b \in DOMAIN instrs |-> {}], instrs)

-----------------------------------------------------------------------------
AllCode == FlattenSeq(instrs)

\* The registers in the order they are met.
Met(code) ==
    LET note(seen, x) == IF IsVirtual(x) /\ x \notin Range(seen) THEN Append(seen, x) ELSE seen
    IN  FoldLeft(note, <<>>, FlattenSeq([k \in DOMAIN code |-> code[k].ops]))

\* The allocator is given the code: registers and moves get their numbers and
\* every virtual register that occurs is initial.
EnterFunction ==
    /\ pc = "idle"
    /\ order' \in HashOrders
    /\ \E met \in {Met(AllCode)} :
         LET bank(x) == SelectSeq(met, LAMBDA y : y[1] = x[1])
             number(x) == IF IsVirtual(x)
                          THEN Nth(x[1], CHOOSE n \in DOMAIN bank(x) : bank(x)[n] = x) ELSE x
             named(i) == [i EXCEPT !.ops = [n \in DOMAIN @ |-> number(@[n])]]
             entered(i, id) == IF i.tag = "MOV" /\ zero \notin Range(i.ops)
                               THEN [id |-> id] @@ named(i) ELSE named(i)
         IN  /\ instrs' = [b \in DOMAIN instrs |->
                              [k \in DOMAIN instrs[b] |-> entered(instrs[b][k], 100 * b + k)]]
             /\ initial' = {number(x) : x \in Range(met)}
             /\ created' = [bk \in Banks |-> Cardinality({x \in Range(met) : x[1] = bk})]
             /\ spBased' = {number(FpSaved)}
    /\ pc' = "build"
    /\ UNCHANGED <<frameSize, rejected, regMap, dst, src, graphVars, moveVars,
                   simplify_worklist, freeze_worklist, spill_worklist, stackVars,
                   aliasVars, colorVars>>

\* build_graph, in one instruction: what is defined interferes with what is
\* live behind it, the source of a copy excepted.
Interfere(i, s) ==
    LET live == (IF i.tag = "MOV" THEN s.live \ {i.ops[2]} ELSE s.live) \cup Defs(i)
    IN  [live |-> (live \ Defs(i)) \cup Uses(i), pairs |-> s.pairs \cup (Defs(i) \X live)]

Interferences ==
    LET ins == LiveIns
        pairs == UNION {FoldRight(Interfere, instrs[b],
                            [live |-> UNION {ins[s] : s \in Targets(b)}, pairs |-> {}]).pairs :
                        b \in DOMAIN instrs}
        joined == {p \in pairs : p[1] # p[2] /\ Type[p[1]] = Type[p[2]]}
    IN  UNION {{p, <<p[2], p[1]>>} : p \in joined}

\* The copies of the code and their operands.
Copies ==
    LET copies == {i \in Range(AllCode) : "id" \in DOMAIN i}
    IN  [m \in {i.id : i \in copies} |-> (CHOOSE i \in copies : i.id = m).ops]

\* Mutant of RoundGraph: it is built once for all rounds.
RoundGraphOnce == IF edges = {} THEN Interferences ELSE edges

\* The graph of a round: what the last one has left stays in it.
RoundGraph == edges \cup Interferences

Build ==
    /\ pc = "build"
    /\ \E es \in {{p : p \in RoundGraph}}, copy \in {Copies} :
         LET added(r) == Cardinality(Neighbours(es, r)) - Cardinality(Neighbours(edges, r))
         IN  /\ edges' = es
             /\ degree' = [r \in Reg |-> IF r \in Virt THEN degree[r] + added(r) ELSE degree[r]]
             /\ dst' = [m \in DOMAIN copy |-> copy[m][1]]
             /\ src' = [m \in DOMAIN copy |-> copy[m][2]]
             /\ move_list' = [r \in Reg |->
                    move_list[r] \cup {m \in DOMAIN copy : r \in Range(copy[m])}]
             /\ worklist_moves' = worklist_moves \cup DOMAIN copy
    /\ pc' = "make"
    /\ UNCHANGED <<codeVars, active_moves, coalesced_moves, constrained_moves,
                   frozen_moves, listVars, stackVars, aliasVars, colorVars>>

-----------------------------------------------------------------------------
(***************************************************************************)
(* One round of colouring.  Every step takes the element its container     *)
(* yields first.                                                           *)
(***************************************************************************)
Coalesce ==
    /\ CanCoalesce
    /\ \E m \in {BeginMove(worklist_moves)} :
           MoveSame(m) \/ MoveConstrained(m) \/ MoveDefer(m) \/ MoveCombine(m)

\* Freeze and SelectSpill; the moves are given up in the order of their set.
FreezeBegin ==
    /\ CanFreeze
    /\ UNCHANGED <<pc, dst, src, graphVars, coalesced_moves, constrained_moves, initial,
                   spill_worklist, stackVars, aliasVars, colorVars>>
    /\ \E r \in {Begin(freeze_worklist)} :
           FreezeMovesInOrder(r, freeze_worklist \ {r}, MoveOrder(r))

SelectSpillBegin ==
    /\ CanSpill
    /\ UNCHANGED <<pc, dst, src, graphVars, coalesced_moves, constrained_moves, initial,
                   stackVars, aliasVars, colorVars>>
    /\ \E r \in {Begin(spill_worklist)} :
           /\ spill_worklist' = spill_worklist \ {r}
           /\ FreezeMovesInOrder(r, freeze_worklist, MoveOrder(r))

Top == select_stack[Len(select_stack)]

Color ==
    /\ AssignColor
    /\ Top \in Virt /\ OkColors(Top) # {} => color'[Top] = Begin(OkColors(Top))

Round ==
    /\ \/ MakeWorklist
       \/ /\ CanSimplify
          /\ select_stack' = Append(select_stack, Begin(simplify_worklist))
          /\ Simplify
       \/ Coalesce
       \/ FreezeBegin
       \/ SelectSpillBegin
       \/ LeaveLoop
       \/ Color
       \/ FinishAssign
    /\ UNCHANGED codeVars

-----------------------------------------------------------------------------
(***************************************************************************)
(* rewrite_program: a new register for every use and every definition of a *)
(* register without a colour, loaded in front of the instruction or stored *)
(* behind it.  s.created counts the registers while they are created.      *)
(***************************************************************************)
New(counts, bank, k) == Nth(bank, counts[bank] + k)
Created(counts, bank, k) == [counts EXCEPT ![bank] = @ + k]

\* The access to the slot of r through a new register of its bank; an offset
\* beyond the reach of an immediate takes three more.
SlotAccess(r, store, slots, counts) ==
    LET reg == New(counts, r[1], 1)
        after == Created(counts, r[1], 1)
        t(k) == New(after, "General", k)
        offset == -slots[r]
        base == IF r \in spBased THEN sp ELSE fp
        access(b, n) ==
            IF r[1] = "General" THEN IS(IF store THEN "ST" ELSE "LD", <<reg, b, Imm(n)>>, "DWORD")
            ELSE I(IF store THEN "FST_S" ELSE "FLD_S", <<reg, b, Imm(n)>>)
    IN  IF Reaches(offset) THEN [reg |-> reg, counts |-> after, code |-> access(base, offset)]
        ELSE [reg |-> reg, counts |-> Created(after, "General", 3),
              code |-> AddIntToReg(t(1), base, offset, t(2), t(3)) \o access(t(1), 0)]

\* Mutant of ReplaceUse: the first source stays.
ReplaceLaterUse(i, old, new) ==
    [i EXCEPT !.ops = [n \in DOMAIN @ |->
        IF @[n] = old /\ (Writes(i) => n > 2) THEN new ELSE @[n]]]

ReplaceUse(i, old, new) ==
    [i EXCEPT !.ops = [n \in DOMAIN @ |->
        IF @[n] = old /\ (Writes(i) => n > 1) THEN new ELSE @[n]]]
ReplaceDef(i, new) == [i EXCEPT !.ops[1] = new]

\* One instruction.  A register that is named twice is loaded twice, the
\* second time for nothing.
RewriteInstr(s, i, slots) ==
    LET spilled(x) == x \in DOMAIN slots
        load(t, r) ==
            LET access == SlotAccess(r, FALSE, slots, t.counts)
            IN  [code |-> t.code \o access.code, counts |-> access.counts,
                 instr |-> ReplaceUse(t.instr, r, access.reg)]
        loaded == FoldLeft(load, [code |-> s.code, counts |-> s.counts, instr |-> i],
                           SelectSeq(NamedUses(i), spilled))
        store == SlotAccess(i.ops[1], TRUE, slots, loaded.counts)
    IN  IF Writes(i) /\ spilled(i.ops[1])
        THEN [code |-> loaded.code \o <<ReplaceDef(loaded.instr, store.reg)>> \o store.code,
              counts |-> store.counts]
        ELSE [code |-> Append(loaded.code, loaded.instr), counts |-> loaded.counts]

\* The blocks one after the other; each is given the registers created so far.
RewriteBlocks(slots) ==
    LET block(s, code) ==
            LET done == FoldLeft(LAMBDA t, i : RewriteInstr(t, i, slots),
                                 [code |-> <<>>, counts |-> s.counts], code)
            IN  [blocks |-> Append(s.blocks, done.code), counts |-> done.counts]
    IN  FoldLeft(block, [blocks |-> <<>>, counts |-> created], instrs)

\* rewrite_prologue: the first stretch of flagged instructions gives way to one
\* for the new size of the frame.
RewritePrologue(list, size, t1, t2) ==
    LET flagged == {k \in DOMAIN list : "FRAME" \in list[k].flags}
        behind == Min({k \in Min(flagged) .. Len(list) + 1 : k \notin flagged})
    IN  SubSeq(list, 1, Min(flagged) - 1)
        \o Flagged(AddIntToReg(sp, sp, -size, t1, t2), {"FRAME"})
        \o Flagged(I("MOV", <<zero, zero>>), {"FRAME", "RESERVED"})
        \o SubSeq(list, behind, Len(list))

\* FrameScheduler::insert_reg of every spilled register.
Places ==
    LET place(s, r) == [size |-> InsertReg(s.size), map |-> (r :> InsertReg(s.size)) @@ s.map]
    IN  FoldLeft(place, [size |-> frameSize, map |-> <<>>], Ordered(spilled_nodes))

\* Mutant of Again: the new registers are forgotten.
AgainOld(temps) == coalesced_nodes \cup colored_nodes

\* What the next round has to colour.
Again(temps) == coalesced_nodes \cup colored_nodes \cup temps

Rewrite ==
    /\ pc = "done" /\ spilled_nodes # {}
    /\ \E placed \in {Places} : \E done \in {RewriteBlocks(placed.map)} :
         LET size == Align(placed.size, 16)
             counts == IF Reaches(-size) THEN done.counts ELSE Created(done.counts, "General", 2)
             temps == UNION {{Nth(bk, n) : n \in created[bk] + 1 .. counts[bk]} : bk \in Banks}
         IN  /\ temps \subseteq Virt
             /\ regMap' = placed.map @@ regMap
             /\ frameSize' = size
             /\ created' = counts
             /\ instrs' = [done.blocks EXCEPT ![Prologue] =
                              RewritePrologue(@, size, New(done.counts, "General", 1),
                                              New(done.counts, "General", 2))]
             /\ rejected' = (rejected \/ (\E r \in spilled_nodes : r[1] = "FloatCmp")
                                      \/ ~Accepted(AllCode'))
             /\ initial' = Again(temps)
    /\ spilled_nodes' = {} /\ coalesced_nodes' = {} /\ colored_nodes' = {}
    /\ alias' = [r \in Reg |-> r]
    /\ pc' = "build"
    /\ UNCHANGED <<spBased, order, dst, src, graphVars, moveVars, simplify_worklist,
                   freeze_worklist, spill_worklist, stackVars, color>>

-----------------------------------------------------------------------------
\* MachineInstr::colorize on every instruction: a virtual register without a
\* colour is a failed assertion.
Colorize ==
    /\ pc = "done" /\ spilled_nodes = {}
    /\ LET painted(x) == IF x \in Virt THEN color[x] ELSE x
       IN  instrs' = [b \in DOMAIN instrs |-> [k \in DOMAIN instrs[b] |->
                        [instrs[b][k] EXCEPT !.ops = [n \in DOMAIN @ |-> painted(@[n])]]]]
    /\ rejected' = (rejected \/ \E i \in Range(AllCode') : NullPtr \in Range(i.ops))
    /\ pc' = "colored"
    /\ UNCHANGED <<frameSize, regMap, spBased, created, order, dst, src, graphVars,
                   moveVars, listVars, stackVars, aliasVars, colorVars>>

AllocatorInit ==
    /\ pc = "idle"
    /\ edges = {} /\ degree = [r \in Reg |-> 0] /\ dst = <<>> /\ src = <<>>
    /\ move_list = [r \in Reg |-> {}]
    /\ worklist_moves = {} /\ active_moves = {} /\ coalesced_moves = {}
    /\ constrained_moves = {} /\ frozen_moves = {}
    /\ initial = {} /\ simplify_worklist = {} /\ freeze_worklist = {} /\ spill_worklist = {}
    /\ select_stack = <<>> /\ in_select_stack = {}
    /\ coalesced_nodes = {} /\ alias = [r \in Reg |-> r]
    /\ colored_nodes = {} /\ spilled_nodes = {} /\ color = [r \in Virt |-> NullPtr]
    /\ regMap = <<>> /\ spBased = {} /\ created = [bk \in Banks |-> 0]
    /\ order = 1

AllocatorNext == EnterFunction \/ Build \/ Round \/ Rewrite \/ Colorize
=============================================================================
