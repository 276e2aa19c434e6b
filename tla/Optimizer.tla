----------------------------- MODULE Optimizer -----------------------------
(***************************************************************************)
(* From a program to its optimised IR, in the order of the driver with     *)
(* -mem2reg: CminusfBuilder, DeadCode, Mem2Reg, LoopDetection,             *)
(* LoopInvariantCodeMotion, DeadCode.                                      *)
(***************************************************************************)
EXTENDS SourceMeaning, DeadCode, Mem2Reg, LICM

CONSTANTS
    Programs,    \* syntax trees
    AnswerLists, \* what the outside answers, one list for each run of a program
    StepBound    \* bound: the instructions of one run

VARIABLES
    source,   \* the program
    stage,    \* "build", "dead", "mem2reg", "licm", "dead2", "done"
    globals,  \* the initial words of the global variables
    rejected, \* an assertion of the front end has failed
    meaning   \* what the source means, for each list of answers

passVars == <<deadCodeVars, mem2regVars, licmVars>>
vars == <<irVars, passVars, source, stage, globals, rejected, meaning>>

Init ==
    /\ source \in Programs
    /\ stage = "build" /\ globals = <<>> /\ rejected = FALSE /\ meaning = <<>>
    /\ functions = <<>> /\ succ = <<>> /\ pred = <<>> /\ code = <<>> /\ signatures = <<>>
    /\ DeadCodeInit /\ Mem2RegInit /\ LICMInit

Build ==
    /\ stage = "build" /\ stage' = "built"
    /\ \E b \in {VisitProgram(source)} :
        /\ functions' = b.functions /\ succ' = b.succ /\ pred' = b.pred
        /\ code' = b.code /\ signatures' = b.signatures
        /\ globals' = b.globals /\ rejected' = b.aborted
    /\ meaning' = [answers \in AnswerLists |-> Meaning(source, answers)]
    /\ UNCHANGED <<source, passVars>>

\* The driver starts the next pass.
StartPass ==
    /\ \/ stage = "built" /\ ~rejected /\ stage' = "dead" /\ StartDeadCode
          /\ UNCHANGED <<mem2regVars, licmVars>>
       \/ stage = "dead" /\ DeadCodeDone /\ stage' = "mem2reg" /\ StartMem2Reg
          /\ UNCHANGED <<deadCodeVars, licmVars>>
       \/ stage = "mem2reg" /\ Mem2RegDone /\ stage' = "licm" /\ StartLICM
          /\ UNCHANGED <<deadCodeVars, mem2regVars>>
       \/ stage = "licm" /\ LICMDone /\ ~crashed /\ stage' = "dead2" /\ StartDeadCode
          /\ UNCHANGED <<mem2regVars, licmVars>>
       \/ stage = "dead2" /\ DeadCodeDone /\ stage' = "done" /\ UNCHANGED <<irVars, passVars>>
    /\ UNCHANGED <<source, globals, rejected, meaning>>

PassStep ==
    /\ \/ stage \in {"dead", "dead2"} /\ (DeadCodeOnFunc \/ DeadCodeAgain)
          /\ UNCHANGED <<mem2regVars, licmVars>>
       \/ stage = "mem2reg" /\ (GeneratePhi \/ RenameEnter \/ RenameReturn)
          /\ UNCHANGED <<deadCodeVars, licmVars>>
       \/ stage = "licm" /\ ~crashed /\ RunOnLoop
          /\ UNCHANGED <<deadCodeVars, mem2regVars>>
    /\ UNCHANGED <<source, stage, globals, rejected, meaning>>

\* The compiler has ended.
Finished == stage = "done" /\ UNCHANGED vars

Next == Build \/ StartPass \/ PassStep \/ Finished

\* The driver runs the passes one after the other and nothing interrupts it:
\* weak fairness of Next, written without its ENABLED.  A step is possible until
\* the stage is "done"; the check for deadlocks shows that.
Fairness == []<><<Next>>_vars \/ []<>(stage = "done")

Spec == Init /\ [][Next]_vars /\ Fairness

-----------------------------------------------------------------------------
\* Every instruction has a number of its own, a terminator ends each block that
\* something leads to, and its targets are the block's successors.
OptimizerTypeOK ==
    /\ FlowGraphTypeOK /\ DOMAIN code = Blocks /\ DOMAIN signatures = DOMAIN functions
    /\ \A b \in Blocks : \A k \in DOMAIN code[b] :
        /\ \A c \in Blocks : \A j \in DOMAIN code[c] :
            code[b][k].id = code[c][j].id => b = c /\ k = j
        /\ code[b][k].op \in {"br", "ret"} => k = Len(code[b])
        /\ code[b][k].op = "br" => {v[3] : v \in {v \in Range(code[b][k].args) : v[1] = "block"}}
                                        = Range(succ[b])
    /\ \A f \in DOMAIN functions : \A b \in BlocksOf(f) :
        /\ Range(pred[b]) \cup Range(succ[b]) \subseteq BlocksOf(f)
        /\ \A c \in BlocksOf(f) : c \in Range(succ[b]) <=> b \in Range(pred[c])
    /\ source \in Programs
    /\ stage \in {"build", "built", "dead", "mem2reg", "licm", "dead2", "done"}
    /\ sweepAt \in 0 .. Len(functions) + 1 /\ func \in 0 .. Len(functions)
    /\ loopDone \subseteq DOMAIN loopOf

\* Between two passes.
AtBoundary ==
    \/ stage \in {"built", "done"}
    \/ stage \in {"dead", "dead2"} /\ DeadCodeDone
    \/ stage = "mem2reg" /\ Mem2RegDone
    \/ stage = "licm" /\ LICMDone

RECURSIVE Run(_, _, _)
Run(bodies, s, steps) ==
    IF s.left \/ steps = 0 THEN s ELSE Run(bodies, Interpret(code, bodies, s), steps - 1)

\* What the IR does when the outside gives these answers.
Outcome(answers) ==
    LET bodies == [f \in DOMAIN functions |-> Entry(f)]
        main == CHOOSE f \in DOMAIN functions : signatures[f].name = "main"
    IN  Run(bodies, Started(<<>>, <<>>, Entry(main), answers, globals), StepBound)

\* Wherever C says what the program does, the IR does the same: the calls to
\* the outside with their arguments, in their order, and what main returns.
KeepsMeaning ==
    \A answers \in AnswerLists :
        meaning[answers].undefined \/
            LET out == Outcome(answers) IN
            out.left /\ out.log = meaning[answers].log /\ out.result = <<meaning[answers].result>>

\* The compiler goes through the program, and after each pass the IR does what
\* the source means.  Excepted is code in whose preheaders LICM put a hoisted
\* instruction in front of one of its operands, which the addresses decide.
SameBehaviour == AtBoundary => /\ ~rejected /\ ~crashed
                               /\ ordered => KeepsMeaning

\* The blocks that control can reach.
Live == UNION {Reached(f) : f \in DOMAIN functions}

\* A definition reaches every use: it is in a block that dominates it, for a phi
\* the predecessor the value comes from, or before it in the block, which the
\* addresses decide in a preheader (ordered); and no operand is the null pointer
\* a deleted instruction leaves behind.
DefinitionsDominateUses ==
    AtBoundary =>
        \A f \in DOMAIN functions :
            LET dominance == Dominance(f)
                place == [i \in InstructionsIn(Reached(f)) |->
                            CHOOSE p \in {<<b, k>> \in Reached(f) \X (1 .. 60) : k \in DOMAIN code[b]} :
                                code[p[1]][p[2]] = i]
                defined(id, b, k) == \E d \in DOMAIN place :
                    /\ d.id = id
                    /\ IF place[d][1] = b THEN ordered => place[d][2] < k ELSE <<place[d][1], b>> \in dominance
            IN  \A i \in DOMAIN place : \A n \in DOMAIN i.args :
                    /\ i.args[n] # Null
                    /\ IsInst(i.args[n]) =>
                        IF i.op = "phi" THEN defined(i.args[n][3], i.args[n + 1][3], 1000)
                        ELSE defined(i.args[n][3], place[i][1], place[i][2])

\* A phi has at most one operand for each predecessor of its block and none for
\* another block; all of them are at the front of the block.
PhisMatchPredecessors ==
    AtBoundary =>
        \A b \in Live : \A i \in Range(PhisOf(b)) :
            /\ SubSeq(code[b], 1, Len(PhisOf(b))) = PhisOf(b)
            /\ \A k, n \in DOMAIN PhiPairs(i) : PhiPairs(i)[k][2] = PhiPairs(i)[n][2] => k = n
            /\ \A p \in Range(PhiPairs(i)) : p[2][3] \in Range(pred[b])

\* No conditional branch jumps, when its condition holds, to a block with phis:
\* the instruction selector copies a phi's operand behind the comparison and
\* branch in one, where it is not copied when the branch is taken.
NoPhiBehindTakenBranch ==
    AtBoundary =>
        \A b \in Live : PhisOf(b) # <<>> =>
            \A p \in Range(pred[b]) :
                LET branch == Last(code[p]) IN
                Len(branch.args) = 1 \/ branch.args[2] # BlockOperand(b)

\* Optimisation ends.
OptimizerEnds == <>(stage = "done")
=============================================================================
