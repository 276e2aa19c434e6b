-------------------------- MODULE CminusfBuilder --------------------------
(***************************************************************************)
(* The control flow CminusfBuilder creates for function bodies: one visit  *)
(* per statement or condition, with the blocks it creates, the branches it *)
(* adds and the fields of context it sets and restores.                    *)
(*                                                                         *)
(* The visitor is recursive over a syntax tree.  Here `open` is its call   *)
(* stack, and which node comes next is chosen as the walk proceeds, so     *)
(* that the behaviours are the walks over every tree the grammar allows.   *)
(* Statements without control flow leave all of this alone and have no     *)
(* action; a body may hold any number of statements, none included.        *)
(***************************************************************************)
EXTENDS FlowGraph

CONSTANTS
    MaxBlocks,     \* bound: blocks of the module
    MaxFunctions,  \* bound: functions of the module
    MaxOperators   \* bound: && and || of the module

ASSUME BuilderAssumption ==
    MaxBlocks \in Nat /\ MaxFunctions \in Nat /\ MaxOperators \in Nat

VARIABLES
    insert,     \* the insert block of the IR builder
    ended,      \* the blocks with a terminator
    asserted,   \* add_instruction on a terminated block: its assertion failed
    context,    \* the fields of CminusfBuilder::context that hold blocks
    open,       \* the visits under way, innermost last
    operators   \* how many && and || were visited, for MaxOperators

builderVars == <<insert, ended, asserted, context, open, operators>>
bvars == <<graphVars, builderVars>>

Context ==
    [trueBB : Blocks \cup {NoBlock}, falseBB : Blocks \cup {NoBlock},
     iteration_endBB : Blocks \cup {NoBlock},
     iteration_condBB : Blocks \cup {NoBlock}]

\* A visit under way: where it stands, its local blocks and the context it
\* will restore.  For a statement begin is trueBB, end is falseBB and join is
\* where a body jumps when it is done: falseBB, mergeBB with an else, condBB in
\* a loop.  For a logical expression begin is the block of its right operand.
Kind == {"function", "LOrExp", "LAndExp", "EqExp", "and", "or", "if", "if_else",
         "then", "then_else", "else", "while", "body"}

Frame(kind, begin, end, join) ==
    [kind |-> kind, begin |-> begin, end |-> end, join |-> join, saved |-> context]

\* A visit without local blocks.
PlainFrame(kind) == Frame(kind, NoBlock, NoBlock, NoBlock)

Top == Last(open)
Inside(kinds) == open # <<>> /\ Top.kind \in kinds
Return(frame) == Append(Front(open), frame)

BuilderTypeOK ==
    /\ FlowGraphTypeOK
    /\ insert \in Blocks \cup {NoBlock}
    /\ ended \subseteq Blocks /\ asserted \in BOOLEAN
    /\ context \in Context
    /\ open \in Seq([kind : Kind, begin : Blocks \cup {NoBlock},
                     end : Blocks \cup {NoBlock}, join : Blocks \cup {NoBlock},
                     saved : Context])

BuilderInit ==
    /\ functions = <<>> /\ succ = <<>> /\ pred = <<>>
    /\ insert = NoBlock /\ ended = {} /\ asserted = FALSE
    /\ context = [trueBB |-> NoBlock, falseBB |-> NoBlock,
                  iteration_endBB |-> NoBlock, iteration_condBB |-> NoBlock]
    /\ open = <<>> /\ operators = 0

-----------------------------------------------------------------------------
\* BasicBlock::create adds the block to the function that is being built.
Created(k) == [i \in 1 .. k |-> Len(succ) + i]

Create(k) ==
    /\ Len(succ) + k <= MaxBlocks
    /\ functions' = [functions EXCEPT ![Len(functions)] = @ \o Created(k)]

\* A terminator goes to the end of block b.
Terminate(b) ==
    /\ ended' = ended \cup {b}
    /\ asserted' = (asserted \/ b \in ended)

\* create_br and create_cond_br at the insert block, after k new blocks.
Jump(k, targets) == Terminate(insert) /\ BranchTo(k, insert, targets)

\* Mutant of JumpIfOpen: is_terminated is not asked.
JumpAlways(target) == Jump(0, <<target>>)

\* if (not insert->is_terminated()) create_br(target).
JumpIfOpen(target) ==
    IF insert \in ended THEN UNCHANGED <<succ, pred, ended, asserted>>
                        ELSE Jump(0, <<target>>)

\* visit(ASTBlock) goes on to the next statement only if the insert block is
\* still open; the last statement of a body may leave it terminated.
AtStatement == Inside({"function", "then", "then_else", "else", "body"})
NextStatement == AtStatement /\ insert \notin ended

-----------------------------------------------------------------------------
StartFunction ==
    /\ open = <<>>
    /\ Len(functions) < MaxFunctions /\ Len(succ) < MaxBlocks
    /\ functions' = Append(functions, Created(1))
    /\ succ' = Append(succ, <<>>) /\ pred' = Append(pred, <<>>)
    /\ insert' = Len(succ) + 1
    /\ open' = <<PlainFrame("function")>>
    /\ UNCHANGED <<ended, asserted, context, operators>>

\* The implicit return at the end of a body.
FinishFunction ==
    /\ Inside({"function"})
    /\ IF insert \in ended THEN UNCHANGED <<ended, asserted>> ELSE Terminate(insert)
    /\ open' = Front(open)
    /\ UNCHANGED <<graphVars, insert, context, operators>>

VisitReturn ==
    /\ NextStatement
    /\ Terminate(insert)
    /\ UNCHANGED <<graphVars, insert, context, open, operators>>

\* break and continue inside a loop; outside one the program is not legal.
VisitBreak ==
    /\ NextStatement /\ context.iteration_endBB # NoBlock
    /\ Jump(0, <<context.iteration_endBB>>)
    /\ UNCHANGED <<functions, insert, context, open, operators>>

VisitContinue ==
    /\ NextStatement /\ context.iteration_condBB # NoBlock
    /\ Jump(0, <<context.iteration_condBB>>)
    /\ UNCHANGED <<functions, insert, context, open, operators>>

\* The visit of an if up to its condition: three blocks, a branch to the
\* first, and ASTCond makes that block the insert block.
VisitSelection(kind) ==
    LET new == Created(3) IN
    /\ NextStatement
    /\ Create(3)
    /\ Jump(3, <<new[1]>>)
    /\ insert' = new[1]
    /\ context' = [context EXCEPT !.trueBB = new[2], !.falseBB = new[3]]
    /\ open' = open \o <<Frame(kind, new[2], new[3], new[3]), PlainFrame("LOrExp")>>
    /\ UNCHANGED operators

VisitIteration ==
    LET new == Created(3) IN
    /\ NextStatement
    /\ Create(3)
    /\ Jump(3, <<new[1]>>)
    /\ insert' = new[1]
    /\ context' = [trueBB |-> new[2], falseBB |-> new[3],
                   iteration_endBB |-> new[3], iteration_condBB |-> new[1]]
    /\ open' = open \o <<Frame("while", new[2], new[3], new[1]), PlainFrame("LOrExp")>>
    /\ UNCHANGED operators

-----------------------------------------------------------------------------
\* A condition that is no && or ||: whoever visits it branches on its value.
VisitOperand ==
    /\ Inside({"LOrExp", "LAndExp", "EqExp"})
    /\ Jump(0, <<context.trueBB, context.falseBB>>)
    /\ open' = Front(open)
    /\ UNCHANGED <<functions, insert, context, operators>>

\* Before the left operand: a new block, where the right one will go.
VisitLogic(kind, left) ==
    LET new == Created(1)[1] IN
    /\ operators < MaxOperators
    /\ Create(1)
    /\ succ' = Append(succ, <<>>) /\ pred' = Append(pred, <<>>)
    /\ context' = IF kind = "and" THEN [context EXCEPT !.trueBB = new]
                                  ELSE [context EXCEPT !.falseBB = new]
    /\ open' = Append(Return(Frame(kind, new, NoBlock, NoBlock)), PlainFrame(left))
    /\ operators' = operators + 1
    /\ UNCHANGED <<insert, ended, asserted>>

VisitOr == Inside({"LOrExp"}) /\ VisitLogic("or", "LOrExp")
VisitAnd == Inside({"LOrExp", "LAndExp"}) /\ VisitLogic("and", "LAndExp")

\* Mutant of RightContext: the old target is not put back.
RightContextKept == context

RightContext ==
    IF Top.kind = "and" THEN [context EXCEPT !.trueBB = Top.saved.trueBB]
                        ELSE [context EXCEPT !.falseBB = Top.saved.falseBB]

\* Between the operands: the old target comes back.
VisitRight ==
    /\ Inside({"and", "or"})
    /\ insert' = Top.begin
    /\ context' = RightContext
    /\ open' = Return(PlainFrame(IF Top.kind = "and" THEN "EqExp" ELSE "LAndExp"))
    /\ UNCHANGED <<graphVars, ended, asserted, operators>>

-----------------------------------------------------------------------------
VisitThen ==
    /\ Inside({"if"})
    /\ insert' = Top.begin
    /\ open' = Return([Top EXCEPT !.kind = "then"])
    /\ UNCHANGED <<graphVars, ended, asserted, context, operators>>

\* With an else, mergeBB is created after the condition.
VisitThenElse ==
    /\ Inside({"if_else"})
    /\ Create(1)
    /\ succ' = Append(succ, <<>>) /\ pred' = Append(pred, <<>>)
    /\ insert' = Top.begin
    /\ open' = Return([Top EXCEPT !.kind = "then_else", !.join = Created(1)[1]])
    /\ UNCHANGED <<ended, asserted, context, operators>>

RestoreTargets == [context EXCEPT !.trueBB = Top.saved.trueBB,
                                  !.falseBB = Top.saved.falseBB]

LeaveThen ==
    /\ Inside({"then"})
    /\ JumpIfOpen(Top.join)
    /\ insert' = Top.end
    /\ context' = RestoreTargets
    /\ open' = Front(open)
    /\ UNCHANGED <<functions, operators>>

VisitElse ==
    /\ Inside({"then_else"})
    /\ JumpIfOpen(Top.join)
    /\ insert' = Top.end
    /\ open' = Return([Top EXCEPT !.kind = "else"])
    /\ UNCHANGED <<functions, context, operators>>

LeaveElse ==
    /\ Inside({"else"})
    /\ JumpIfOpen(Top.join)
    /\ insert' = Top.join
    /\ context' = RestoreTargets
    /\ open' = Front(open)
    /\ UNCHANGED <<functions, operators>>

VisitBody ==
    /\ Inside({"while"})
    /\ insert' = Top.begin
    /\ open' = Return([Top EXCEPT !.kind = "body"])
    /\ UNCHANGED <<graphVars, ended, asserted, context, operators>>

LeaveBody ==
    /\ Inside({"body"})
    /\ JumpIfOpen(Top.join)
    /\ insert' = Top.end
    /\ context' = Top.saved
    /\ open' = Front(open)
    /\ UNCHANGED <<functions, operators>>

BuilderNext ==
    \/ StartFunction \/ FinishFunction
    \/ VisitReturn \/ VisitBreak \/ VisitContinue
    \/ \E kind \in {"if", "if_else"} : VisitSelection(kind)
    \/ VisitIteration
    \/ VisitOperand \/ VisitOr \/ VisitAnd \/ VisitRight
    \/ VisitThen \/ VisitThenElse \/ LeaveThen \/ VisitElse \/ LeaveElse
    \/ VisitBody \/ LeaveBody

-----------------------------------------------------------------------------
\* Where the value true (or false) of the expression on top of open[k] leads,
\* read off the visits under way: to the right operand of the nearest && (||)
\* whose left operand is being visited, or else into the statement.
TrueTarget ==
    LET k == Max({i \in DOMAIN open : open[i].kind \in {"and", "if", "if_else", "while"}})
    IN  open[k].begin

FalseTarget ==
    LET k == Max({i \in DOMAIN open : open[i].kind \in {"or", "if", "if_else", "while"}})
    IN  IF open[k].kind = "or" THEN open[k].begin ELSE open[k].end

\* The loop a break or continue at this place belongs to.
OpenLoops == {i \in DOMAIN open : open[i].kind \in {"while", "body"}}

\* The blocks in context are those of the innermost visits they belong to,
\* however conditions and statements are nested: every visit puts back what
\* it changed, a break leaves the innermost loop and a continue tests its
\* condition again, and && and || skip their right operand and nothing else
\* (context.trueBB, falseBB, iteration_endBB, iteration_condBB).
TargetsFollowNesting ==
    /\ Inside({"LOrExp", "LAndExp", "EqExp"}) =>
            context.trueBB = TrueTarget /\ context.falseBB = FalseTarget
    /\ context.iteration_endBB =
            IF OpenLoops = {} THEN NoBlock ELSE open[Max(OpenLoops)].end
    /\ context.iteration_condBB =
            IF OpenLoops = {} THEN NoBlock ELSE open[Max(OpenLoops)].join
    /\ open = <<>> => context = [trueBB |-> NoBlock, falseBB |-> NoBlock,
                iteration_endBB |-> NoBlock, iteration_condBB |-> NoBlock]

\* No instruction is added behind a terminator (the assertion of
\* BasicBlock::add_instruction holds), and once a function is finished each
\* of its blocks ends in one, also blocks nothing jumps to.
EveryBlockEnds ==
    /\ ~asserted
    /\ open = <<>> => \A f \in DOMAIN functions : BlocksOf(f) \subseteq ended

BuilderSpec == BuilderInit /\ [][BuilderNext]_bvars
=============================================================================
