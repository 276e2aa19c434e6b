---------------------------- MODULE IRGeneration ----------------------------
(***************************************************************************)
(* CminusfBuilder::visit: the IR of a program, from its syntax tree.       *)
(*                                                                         *)
(* A node of the tree is a record.  Expressions, each with its node, "num",*)
(* "var", "op", "unary" or "call":                                         *)
(*   [num, type]  [name, index]  [op, left, right]  [unary, arg]           *)
(*   [callee, args]                                                        *)
(* Statements:                                                             *)
(*   [kind |-> "assign", to, value]  [kind |-> "exp", value]               *)
(*   [kind |-> "def", const, type, var, dims, init]   init: none or one,   *)
(*   an expression or, of an array, a [node |-> "list", items]             *)
(*   [kind |-> "if", cond, yes, no]                   no: no or one stmt   *)
(*   [kind |-> "while", cond, body]  [kind |-> "block", items]             *)
(*   [kind |-> "break"]  [kind |-> "continue"]  [kind |-> "return", result]*)
(* A function is [name, ret, params, body], a parameter [var, type, array, *)
(* dims], its sizes numbers, a program [globals, funcs].                   *)
(*                                                                         *)
(* A visit maps a builder to the builder after it, a visit of an           *)
(* expression to a pair [b, v] with its value.  A builder is               *)
(*   functions, succ, pred, code   the module so far                       *)
(*   insert      the insert block      nextId      numbers instructions    *)
(*   scope, constScope                 the tables of names                 *)
(*   context     trueBB, ..., is_const_exp                                 *)
(*   globals     the initial words of the global variables                 *)
(*   signatures  the names and parameter types of the functions            *)
(*   aborted     an assertion has failed                                   *)
(***************************************************************************)
EXTENDS IRMeaning

Nothing == <<"none", "void", 0>>
IntValue(n) == <<"int", "i32", n>>
BoolValue(p) == <<"int", "i1", IF p THEN 1 ELSE 0>>
FloatValue(halves) == <<"fp", "float", halves>>
BlockValue(b) == <<"block", "label", b>>
IsConstant(v) == v[1] \in {"int", "fp"}

With(b, v) == [b |-> b, v |-> v]
\* What follows a visit, given what the visit has made.
Then(visited, next(_)) == next(visited)
Abort(b) == [b EXCEPT !.aborted = TRUE]
AbortUnless(b, ok) == IF ok THEN b ELSE Abort(b)

-----------------------------------------------------------------------------
\* IRBuilder and the constructors of the instructions.
IntOps == {"add", "sub", "mul", "sdiv", "srem", "eq", "ne", "gt", "ge", "lt", "le"}
FloatOps == {"fadd", "fsub", "fmul", "fdiv", "feq", "fne", "fgt", "fge", "flt", "fle"}

\* The types the constructors assert, of ptr the type it points to.
WellTyped(op, args, elem) ==
    LET type(k) == args[k][2] IN
    CASE op \in IntOps -> type(1) = "i32" /\ type(2) = "i32"
      [] op \in FloatOps -> type(1) = "float" /\ type(2) = "float"
      [] op = "br" -> Len(args) = 1 \/ type(1) = "i1"
      [] op = "store" -> type(1) = elem
      [] op = "zext" -> type(1) = "i1"
      [] op = "sitofp" -> type(1) \in {"i1", "i32"}
      [] op = "fptosi" -> type(1) = "float"
      [] OTHER -> TRUE

IsTerminated(b, block) == b.code[block] # <<>> /\ Last(b.code[block]).op \in {"br", "ret"}

Create(b, op, type, args, sizes, elem) ==
    LET i == [op |-> op, id |-> b.nextId, type |-> type, args |-> args, sizes |-> sizes, elem |-> elem]
    IN  With(AbortUnless([b EXCEPT !.code[b.insert] = Append(@, i), !.nextId = @ + 1],
                         ~IsTerminated(b, b.insert) /\ WellTyped(op, args, elem)),
             <<"inst", type, b.nextId>>)

Inst(b, op, type, args) == Create(b, op, type, args, <<>>, "none")
Alloca(b, elem, size) == Create(b, "alloca", "ptr", <<>>, <<size>>, elem)
Store(b, v, ptr, elem) == Create(b, "store", "void", <<v, ptr>>, <<>>, elem).b

Edges(b, targets) ==
    [b EXCEPT !.succ[b.insert] = @ \o targets,
              !.pred = FoldLeft(LAMBDA p, x : [p EXCEPT ![x] = Append(@, b.insert)], @, targets)]
CreateBr(b, to) == Edges(Inst(b, "br", "void", <<BlockValue(to)>>).b, <<to>>)
CreateCondBr(b, v, yes, no) ==
    Edges(Inst(b, "br", "void", <<v, BlockValue(yes), BlockValue(no)>>).b, <<yes, no>>)
BrIfOpen(b, to) == IF IsTerminated(b, b.insert) THEN b ELSE CreateBr(b, to)

CreateBlock(b) ==
    [b EXCEPT !.functions[Len(b.functions)] = Append(@, Len(b.succ) + 1),
              !.succ = Append(@, <<>>), !.pred = Append(@, <<>>), !.code = Append(@, <<>>)]
Newest(b) == Len(b.succ)
SetInsertPoint(b, block) == [b EXCEPT !.insert = block]

-----------------------------------------------------------------------------
\* Scope::push keeps a name that is there already; find looks outwards.
ScopePush(scopes, name, entry) == [scopes EXCEPT ![Len(scopes)] = @ @@ (name :> entry)]
Find(scopes, name) == scopes[Max({k \in DOMAIN scopes : name \in DOMAIN scopes[k]})][name]
Push(b, name, entry) == [b EXCEPT !.scope = ScopePush(@, name, entry)]
EnterScope(b) == [b EXCEPT !.scope = Append(@, <<>>)]
ExitScope(b) == [b EXCEPT !.scope = Front(@)]
InGlobal(b) == Len(b.scope) = 1

\* A variable: where it is, its type, whether its place holds a pointer to it.
Variable(ptr, type, dims, pointer, const) ==
    [ptr |-> ptr, type |-> type, dims |-> dims, pointer |-> pointer, const |-> const]

\* The bytes an index in each dimension skips, those of the whole first.
Strides(dims) ==
    [k \in 1 .. Len(dims) + 1 |-> 4 * FoldLeft(LAMBDA p, n : p * n, 1, SubSeq(dims, k, Len(dims)))]

\* What an assignment, a return or a call does to a value: the conversion to
\* the type wanted.
Convert(b, v, type) ==
    CASE type = "float" /\ v[2] # "float" -> Inst(b, "sitofp", "float", <<v>>)
      [] type = "i32" /\ v[2] = "float" -> Inst(b, "fptosi", "i32", <<v>>)
      [] type = "i32" /\ v[2] = "i1" -> Inst(b, "zext", "i32", <<v>>)
      [] OTHER -> With(b, v)

\* store_value knows floats and ints only, a condition is stored as it is.
ConvertInit(b, v, type) == IF v[2] = "i1" /\ type = "i32" THEN With(b, v) ELSE Convert(b, v, type)

\* get_const_value: a constant of the type wanted.
AsConstant(v, type) ==
    CASE v[1] = "fp" /\ type = "i32" -> IntValue(FloatToInt(v[3]))
      [] v[1] = "int" /\ type = "float" -> FloatValue(2 * v[3])
      [] OTHER -> v

-----------------------------------------------------------------------------
\* Constants are folded as they are built.
Comparisons == {"eq", "ne", "gt", "ge", "lt", "le"}
FloatName == [add |-> "fadd", sub |-> "fsub", mul |-> "fmul", sdiv |-> "fdiv", eq |-> "feq",
              ne |-> "fne", gt |-> "fgt", ge |-> "fge", lt |-> "flt", le |-> "fle"]

Folded(b, op, l, r) ==
    LET halves(v) == IF v[1] = "fp" THEN v[3] ELSE 2 * v[3]
        float == l[1] = "fp" \/ r[1] = "fp"
    IN
    CASE op \in Comparisons -> With(b, BoolValue(ICmp(op, halves(l), halves(r))))
      [] float /\ op = "srem" -> With(Abort(b), Nothing)
      [] float -> With(b, FloatValue(Arithmetic(FloatName[op], halves(l), halves(r))))
      [] op \in {"sdiv", "srem"} /\ r[3] = 0 -> With(Abort(b), Nothing)
      [] OTHER -> With(b, IntValue(Word(Arithmetic(op, l[3], r[3]))))

FoldedUnary(unary, v) ==
    CASE unary = "pos" -> IF v[1] = "fp" THEN v ELSE IntValue(v[3])
      [] unary = "neg" -> IF v[1] = "fp" THEN FloatValue(-v[3]) ELSE IntValue(Word(-v[3]))
      [] unary = "not" -> BoolValue(v[3] = 0)

\* The operands of an arithmetic instruction become floats or ints together.
Binary(b, op, l, r) ==
    IF l[2] = "float" \/ r[2] = "float"
    THEN LET first == Convert(b, l, "float")  second == Convert(first.b, r, "float")
             type == IF op \in Comparisons THEN "i1" ELSE "float"
         IN  IF op = "srem" THEN With(Abort(b), Nothing)
             ELSE Inst(second.b, FloatName[op], type, <<first.v, second.v>>)
    ELSE LET first == Convert(b, l, "i32")  second == Convert(first.b, r, "i32")
             type == IF op \in Comparisons THEN "i1" ELSE "i32"
         IN  Inst(second.b, op, type, <<first.v, second.v>>)

\* ! of a float falls through to the assertion behind it.
Unary(b, unary, v) ==
    IF v[2] = "float"
    THEN CASE unary = "pos" -> With(b, v)
           [] unary = "neg" -> Inst(b, "fsub", "float", <<FloatValue(0), v>>)
           [] unary = "not" -> With(Abort(Inst(b, "feq", "i1", <<v, FloatValue(0)>>).b), Nothing)
    ELSE LET int == Convert(b, v, "i32") IN
         CASE unary = "pos" -> int
           [] unary = "neg" -> Inst(int.b, "sub", "i32", <<IntValue(0), int.v>>)
           [] unary = "not" -> Inst(int.b, "eq", "i1", <<IntValue(0), int.v>>)

\* A value as the condition of a branch to context's blocks.
BranchOn(b, v) ==
    LET test == CASE v[2] = "float" -> Inst(b, "fne", "i1", <<v, FloatValue(0)>>)
                  [] v[2] = "i32" -> Inst(b, "ne", "i1", <<v, IntValue(0)>>)
                  [] OTHER -> With(b, v)
    IN  CreateCondBr(test.b, test.v, test.b.context.trueBB, test.b.context.falseBB)

IsLogic(e) == e.node = "op" /\ e.op \in {"and", "or"}

RECURSIVE VisitExp(_, _), VisitAll(_, _), VisitLogic(_, _), VisitLVal(_, _, _), VisitCall(_, _)

\* The visits of several expressions, in order; v is the sequence of values.
VisitAll(b, exps) ==
    IF exps = <<>> THEN With(b, <<>>)
    ELSE Then(VisitExp(b, Head(exps)), LAMBDA first :
         Then(VisitAll(first.b, Tail(exps)), LAMBDA rest : With(rest.b, <<first.v>> \o rest.v)))

\* An operand of && or || branches by itself when it is one of them.
VisitOperand(b, e) ==
    IF IsLogic(e) THEN VisitLogic(b, e)
    ELSE Then(VisitExp(b, e), LAMBDA operand : BranchOn(operand.b, operand.v))

VisitLogic(b, e) ==
    LET side == IF e.op = "and" THEN "trueBB" ELSE "falseBB"
        new == Newest(b) + 1
    IN  Then(VisitOperand([CreateBlock(b) EXCEPT !.context[side] = new], e.left), LAMBDA left :
             VisitOperand([SetInsertPoint(left, new) EXCEPT !.context[side] = b.context[side]], e.right))

\* An index that is a float becomes an int; a constant is one before fptosi.
IndexValue(b, v) ==
    IF v[2] # "float" THEN With(b, v)
    ELSE Inst(b, "fptosi", "i32", <<IF IsConstant(v) THEN IntValue(FloatToInt(v[3])) ELSE v>>)

\* An element of a constant.  The indices are numbers; an array that is all
\* zero, or that get_const_value made one number, has no elements.
ConstantElement(b, constant, index) ==
    LET strides == constant[4]
        at == 1 + FoldLeft(LAMBDA sum, k : sum + index[k][3] * (strides[k + 1] \div 4), 0,
                           [k \in DOMAIN index |-> k])
        vals == constant[3]
        ok == /\ constant[1] = "array" /\ Len(index) + 1 = Len(strides)
              /\ \A k \in DOMAIN index :
                    index[k][1] = "int" /\ index[k][3] \in 0 .. strides[k] \div strides[k + 1] - 1
              /\ \E k \in DOMAIN vals : vals[k][3] # 0
              /\ constant[2] = "float" => \A k \in DOMAIN vals : vals[k][1] = "fp"
    IN  IF index = <<>> THEN With(b, constant)
        ELSE IF ok THEN With(b, vals[at])
        ELSE With(Abort(b), Nothing)

\* The indices of an element, of an array that is passed its first one's.
VisitIndex(b, e, passing) ==
    Then(FoldLeft(LAMBDA acc, x :
                      Then(VisitExp(acc.b, x), LAMBDA exp :
                      Then(IndexValue(exp.b, exp.v), LAMBDA int : With(int.b, Append(acc.v, int.v)))),
                  With(b, <<>>), e.index), LAMBDA index :
         With(index.b, IF passing THEN Append(index.v, IntValue(0)) ELSE index.v))

\* The place of variable var with these indices.
PlaceOf(b, var, index) ==
    LET gep(c, ptr, idxs) ==
            Create(c, "gep", "ptr", <<ptr>> \o idxs, SubSeq(Strides(var.dims), 1, Len(idxs)), "none")
    IN  CASE var.pointer ->
                Then(Inst(b, "load", "ptr", <<var.ptr>>), LAMBDA base : gep(base.b, base.v, index))
          [] ~var.pointer /\ var.dims # <<>> -> gep(b, var.ptr, <<IntValue(0)>> \o index)
          [] OTHER -> With(b, var.ptr)

\* The place of a variable or of an element of an array; unless it is assigned
\* to or an array is passed, what is there.
VisitLVal(b, e, isLValue) ==
    LET var == Find(b.scope, e.name)
        passing == Len(var.dims) + (IF var.pointer THEN 1 ELSE 0) > Len(e.index)
        ok == /\ b.context.is_const_exp => var.const
              /\ ~(isLValue /\ var.const) /\ ~(passing /\ var.const)
    IN  IF b.context.is_const_exp
        THEN Then(VisitIndex(AbortUnless(b, ok), e, FALSE), LAMBDA index :
                  ConstantElement(index.b, Find(<<b.constScope>>, e.name), index.v))
        ELSE Then(VisitIndex(AbortUnless(b, ok), e, passing), LAMBDA index :
             Then(PlaceOf(index.b, var, index.v), LAMBDA place :
                  IF isLValue \/ passing THEN place ELSE Inst(place.b, "load", var.type, <<place.v>>)))

VisitCall(b, e) ==
    LET func == Find(b.scope, e.callee)
        pass(acc, arg, type) ==
            Then(Convert(acc.b, arg, type), LAMBDA v : With(AbortUnless(v.b, v.v[2] = type), Append(acc.v, v.v)))
    IN  IF Len(func.params) # Len(e.args) THEN With(Abort(b), Nothing)
        ELSE Then(VisitAll(b, e.args), LAMBDA args :
             Then(FoldLeft(LAMBDA acc, k : pass(acc, args.v[k], func.params[k]), With(args.b, <<>>),
                           [k \in DOMAIN func.params |-> k]), LAMBDA passed :
                  Inst(passed.b, "call", func.ret, <<<<"func", "fn", func.num>>>> \o passed.v)))

VisitExp(b, e) ==
    CASE e.node = "num" ->
            With(b, IF e.type = "i32" THEN IntValue(e.num) ELSE FloatValue(e.num))
      [] e.node = "var" -> VisitLVal(b, e, FALSE)
      [] e.node = "call" -> VisitCall(b, e)
      [] e.node = "unary" ->
            Then(VisitExp(b, e.arg), LAMBDA arg :
            IF IsConstant(arg.v) THEN With(arg.b, FoldedUnary(e.unary, arg.v))
            ELSE Unary(AbortUnless(arg.b, ~b.context.is_const_exp), e.unary, arg.v))
      [] e.node = "op" ->
            Then(VisitAll(b, <<e.left, e.right>>), LAMBDA both :
            IF IsConstant(both.v[1]) /\ IsConstant(both.v[2])
            THEN Folded(both.b, e.op, both.v[1], both.v[2])
            ELSE Binary(AbortUnless(both.b, ~b.context.is_const_exp), e.op, both.v[1], both.v[2]))

\* The value of an initialiser, of a constant one that is folded.
VisitValue(b, e, const) ==
    Then(VisitExp([b EXCEPT !.context.is_const_exp = const], e), LAMBDA exp :
         With([exp.b EXCEPT !.context.is_const_exp = FALSE], exp.v))
VisitConstExp(b, e) == VisitValue(b, e, TRUE)

\* The insert point is the block for the condition; && and || branch themselves.
VisitCond(b, e) == VisitOperand(SetInsertPoint(b, b.context.condBB), e)

-----------------------------------------------------------------------------
\* InitValCalc.  calc has the elements of an array, row by row, and how many of
\* them the visit has passed.  A list in braces stands for the first of the
\* arrays of 2, 3, ... dimensions less that begins here.
NewInitValCalc(dims) ==
    [vals |-> [k \in 1 .. Strides(dims)[1] \div 4 |-> IntValue(0)], at |-> 0, strides |-> Strides(dims)]

ListSize(calc) ==
    LET fits == {k \in 2 .. Len(calc.strides) - 1 : (4 * calc.at) % calc.strides[k] = 0}
    IN  IF fits = {} THEN 0 ELSE calc.strides[Min(fits)] \div 4

\* ASTConstInitVal and ASTInitVal.  Bound: no list has more elements than there
\* is room for; the compiler would write them behind vals.
RECURSIVE VisitList(_, _, _, _)
VisitList(b, calc, items, const) ==
    LET item == Head(items)
        visited ==
            IF item.node = "list"
            THEN Then(VisitList(AbortUnless(b, ListSize(calc) # 0), calc, item.items, const), LAMBDA inner :
                      With(inner.b, [inner.v EXCEPT !.at = calc.at + ListSize(calc)]))
            ELSE Then(VisitValue(b, item, const), LAMBDA exp :
                      With(exp.b, [calc EXCEPT !.vals[calc.at + 1] = exp.v, !.at = @ + 1]))
    IN  IF items = <<>> THEN With(b, calc)
        ELSE Then(visited, LAMBDA next : VisitList(next.b, next.v, Tail(items), const))

\* store_value of an array: if most of it is zero all of it is cleared first.
StoreArray(b, ptr, vals, type, strides, const) ==
    LET isZero(v) == IsConstant(v) /\ v[3] = 0
        clear == 2 * Cardinality({k \in DOMAIN vals : isZero(vals[k])}) > Len(vals)
        cast == Inst(b, "bitcast", "ptr", <<ptr>>)
        memset == <<"func", "fn", Find(b.scope, "memset").num>>
        cleared == Inst(cast.b, "call", "void", <<memset, cast.v, IntValue(0), <<"int", "i64", strides[1]>>>>).b
        indices(k) == [d \in 1 .. Len(strides) - 1 |-> IntValue(((4 * (k - 1)) % strides[d]) \div strides[d + 1])]
        store(acc, k) ==
            LET value == IF type = "float" /\ vals[k][2] # "float"
                         THEN Inst(acc, "sitofp", "float", <<vals[k]>>) ELSE With(acc, vals[k])
                ok == (type = "i32" => vals[k][2] # "float") /\ (const => IsConstant(value.v))
                gep == Create(AbortUnless(value.b, ok), "gep", "ptr", <<ptr, IntValue(0)>> \o indices(k), strides, "none")
            IN  Store(gep.b, value.v, gep.v, type)
    IN  FoldLeft(store, IF clear THEN cleared ELSE b,
                 SelectSeq([k \in DOMAIN vals |-> k], LAMBDA k : ~(clear /\ isZero(vals[k]))))

\* get_const_value of an array, as the words MachineModule::create_init_val puts
\* in its place.  At the first int in an array of floats the routine returns
\* that one number.
ArrayWords(vals, type) ==
    LET ints == {k \in DOMAIN vals : type = "float" /\ vals[k][1] = "int"}
    IN  IF ints = {} THEN [k \in DOMAIN vals |-> vals[k][3]] ELSE <<2 * vals[Min(ints)][3]>>
ArrayIsConstant(vals, type) ==
    \A k \in DOMAIN vals :
        \/ IsConstant(vals[k]) /\ (type = "i32" => vals[k][1] = "int")
        \/ \E j \in 1 .. k - 1 : type = "float" /\ vals[j][1] = "int"

-----------------------------------------------------------------------------
\* The sizes of an array are constant expressions.
VisitSizes(b, dims) ==
    FoldLeft(LAMBDA acc, e : Then(VisitConstExp(acc.b, e), LAMBDA n :
                With(AbortUnless(n.b, n.v[1] = "int" /\ n.v[3] > 0), Append(acc.v, n.v[3]))),
             With(b, <<>>), dims)

IsList(s) == s.init # <<>> /\ s.init[1].node = "list"

\* The value of an initialiser; of a list, the elements.  A list that is given
\* to no array indexes empty vectors.
VisitInit(b, s, dims) ==
    CASE s.init = <<>> -> With(AbortUnless(b, ~s.const), Nothing)
      [] IsList(s) ->
            Then(VisitList(AbortUnless(b, dims # <<>>), NewInitValCalc(dims), s.init[1].items, s.const), LAMBDA list :
                 With(list.b, list.v.vals))
      [] OTHER -> VisitValue(b, s.init[1], s.const)

IsConstantInit(s, init) == IF IsList(s) THEN ArrayIsConstant(init, s.type) ELSE IsConstant(init)

\* store_value, of a constant in a function, has put the instruction that
\* converts a number in its place.
IsConverted(b, s, init) == ~InGlobal(b) /\ ~IsList(s) /\ ((init[2] = "float") # (s.type = "float"))

\* What the table of constant values gets.
ConstantOf(s, init, strides) ==
    IF IsList(s) THEN <<"array", s.type, init, strides>> ELSE AsConstant(init, s.type)

DefineGlobal(b, s, dims, init) ==
    LET words == CASE s.init = <<>> -> [w \in 1 .. Strides(dims)[1] \div 4 |-> 0]
                   [] IsList(s) -> ArrayWords(init, s.type)
                   [] OTHER -> <<AsConstant(init, s.type)[3]>>
        ptr == <<"global", "ptr", Len(b.globals) + 1>>
    IN  [Push(b, s.var, Variable(ptr, s.type, dims, FALSE, s.const)) EXCEPT
            !.globals = Append(@, words), !.aborted = @ \/ (s.init # <<>> /\ ~IsConstantInit(s, init))]

DefineLocal(b, s, dims, init) ==
    LET elem == IF dims = <<>> THEN s.type ELSE "array" IN
    Then(Alloca(b, elem, Strides(dims)[1]), LAMBDA place :
    Then(Push(place.b, s.var, Variable(place.v, s.type, dims, FALSE, s.const)), LAMBDA pushed :
    CASE s.init = <<>> -> pushed
      [] IsList(s) -> StoreArray(pushed, place.v, init, s.type, Strides(dims), s.const)
      [] OTHER -> Then(ConvertInit(pushed, init, s.type), LAMBDA v : Store(v.b, v.v, place.v, elem))))

\* ASTConstDef and ASTVarDef.  The table of constant values has one scope, which
\* is never left.
VisitDef(b, s) ==
    LET enter(c, dims, init) ==
            IF ~s.const THEN c
            ELSE [c EXCEPT !.constScope = ScopePush(<<@>>, s.var, ConstantOf(s, init, Strides(dims)))[1],
                           !.aborted = @ \/ ~IsConstantInit(s, init) \/ IsConverted(b, s, init)]
    IN  Then(VisitSizes(b, s.dims), LAMBDA sizes :
        Then(VisitInit(sizes.b, s, sizes.v), LAMBDA init :
             enter(IF InGlobal(b) THEN DefineGlobal(init.b, s, sizes.v, init.v)
                                  ELSE DefineLocal(init.b, s, sizes.v, init.v), sizes.v, init.v)))

RECURSIVE VisitStmt(_, _), VisitItems(_, _)

\* ASTBlock stops behind a terminator.
VisitItems(b, items) ==
    IF items = <<>> THEN b
    ELSE Then(VisitStmt(b, Head(items)), LAMBDA first :
              IF IsTerminated(first, first.insert) THEN first ELSE VisitItems(first, Tail(items)))

\* Three new blocks, for the condition, the body and what follows.
ThreeBlocks(b) == CreateBlock(CreateBlock(CreateBlock(b)))

Targets(b, cond, yes, no) ==
    [b EXCEPT !.context.condBB = cond, !.context.trueBB = yes, !.context.falseBB = no]
RestoreTargets(b, old) == Targets(b, old.context.condBB, old.context.trueBB, old.context.falseBB)

\* The visit of a branch of an if or the body of a loop, in block at, which goes
\* on to block to.
VisitBranch(b, s, at, to) ==
    Then(VisitStmt(SetInsertPoint(b, at), s), LAMBDA c : BrIfOpen(c, to))

VisitSelection(b, s) ==
    LET n == Newest(b)
        branches(made) ==
            IF s.no = <<>> THEN With(VisitBranch(made, s.yes, n + 2, n + 3), n + 3)
            ELSE LET merge == Newest(made) + 1
                     yes == VisitBranch(CreateBlock(made), s.yes, n + 2, merge)
                 IN  With(VisitBranch(yes, s.no[1], n + 3, merge), merge)
    IN  Then(VisitCond(Targets(CreateBr(ThreeBlocks(b), n + 1), n + 1, n + 2, n + 3), s.cond), LAMBDA cond :
        Then(branches(cond), LAMBDA done : RestoreTargets(SetInsertPoint(done.b, done.v), b)))

VisitIteration(b, s) ==
    LET n == Newest(b)
        within == [Targets(CreateBr(ThreeBlocks(b), n + 1), n + 1, n + 2, n + 3) EXCEPT
                    !.context.iteration_endBB = n + 3, !.context.iteration_condBB = n + 1]
        body == VisitBranch(VisitCond(within, s.cond), s.body, n + 2, n + 1)
    IN  [RestoreTargets(SetInsertPoint(body, n + 3), b) EXCEPT
            !.context.iteration_endBB = b.context.iteration_endBB,
            !.context.iteration_condBB = b.context.iteration_condBB]

VisitAssign(b, s) ==
    LET type == Find(b.scope, s.to.name).type IN
    Then(VisitLVal(b, s.to, TRUE), LAMBDA to :
    Then(VisitExp(to.b, s.value), LAMBDA exp :
    Then(Convert(exp.b, exp.v, type), LAMBDA value : Store(value.b, value.v, to.v, type))))

VisitReturn(b, s) ==
    IF s.result = <<>> THEN AbortUnless(Inst(b, "ret", "void", <<>>).b, b.context.ret = "void")
    ELSE Then(VisitExp(b, s.result[1]), LAMBDA exp :
         Then(Convert(exp.b, exp.v, b.context.ret), LAMBDA value :
              AbortUnless(Inst(value.b, "ret", "void", <<value.v>>).b, value.v[2] = b.context.ret)))

VisitStmt(b, s) ==
    CASE s.kind = "def" -> VisitDef(b, s)
      [] s.kind = "assign" -> VisitAssign(b, s)
      [] s.kind = "exp" -> VisitExp(b, s.value).b
      [] s.kind = "block" -> ExitScope(VisitItems(EnterScope(b), s.items))
      [] s.kind = "if" -> VisitSelection(b, s)
      [] s.kind = "while" -> VisitIteration(b, s)
      [] s.kind = "break" -> CreateBr(b, b.context.iteration_endBB)
      [] s.kind = "continue" -> CreateBr(b, b.context.iteration_condBB)
      [] s.kind = "return" -> VisitReturn(b, s)

-----------------------------------------------------------------------------
\* ASTFParam: the type a parameter has as an argument.
ParamType(p) == IF p.array THEN "ptr" ELSE p.type

\* A parameter is stored to a variable; the body shares the scope of the
\* parameters; what falls off the end of the body returns 0.
VisitFuncDef(b, f) ==
    LET num == Len(b.functions) + 1
        func == [num |-> num, params |-> [k \in DOMAIN f.params |-> ParamType(f.params[k])], ret |-> f.ret]
        opened == CreateBlock([Push(b, f.name, func) EXCEPT
                                  !.functions = Append(@, <<>>), !.context.ret = f.ret,
                                  !.signatures = Append(@, [name |-> f.name, params |-> func.params])])
        param(acc, k) ==
            LET p == f.params[k]  type == ParamType(p)
                ptr == Alloca(acc, type, IF p.array THEN 8 ELSE 4)
            IN  Push(Store(ptr.b, <<"arg", type, k>>, ptr.v, type), p.var,
                     Variable(ptr.v, p.type, p.dims, p.array, FALSE))
        entered == FoldLeft(param, EnterScope(SetInsertPoint(opened, Newest(opened))),
                            [k \in DOMAIN f.params |-> k])
        zero0 == CASE f.ret = "void" -> <<>> [] f.ret = "float" -> <<FloatValue(0)>> [] OTHER -> <<IntValue(0)>>
    IN  Then(VisitItems(entered, f.body), LAMBDA body :
             ExitScope(IF IsTerminated(body, body.insert) THEN body
                       ELSE Inst(body, "ret", "void", zero0).b))

NewBuilder ==
    [functions |-> <<>>, succ |-> <<>>, pred |-> <<>>, code |-> <<>>, insert |-> 0, nextId |-> 1,
     scope |-> <<Outside>>, constScope |-> <<>>, globals |-> <<>>, signatures |-> <<>>, aborted |-> FALSE,
     context |-> [condBB |-> 0, trueBB |-> 0, falseBB |-> 0, iteration_endBB |-> 0,
                  iteration_condBB |-> 0, is_const_exp |-> FALSE, ret |-> "void"]]

VisitProgram(p) ==
    FoldLeft(VisitFuncDef, FoldLeft(VisitDef, NewBuilder, p.globals), p.funcs)
=============================================================================
