--------------------------- MODULE SourceMeaning ---------------------------
(***************************************************************************)
(* External: what a program means, by the rules of C, in terms of the      *)
(* syntax tree IRGeneration describes.  A run c has the tables of names,   *)
(* the cells of the variables, the calls to the outside, and               *)
(*   status     "go", "break", "continue" or "return"                      *)
(*   result     what was returned                                          *)
(*   undefined  C does not say what happens, or fuel, the bound on loop    *)
(*              iterations and calls, is used up                            *)
(***************************************************************************)
EXTENDS IRGeneration

CONSTANT Fuel  \* bound: iterations of loops and calls of functions in one run

Got(c, type, v) == [c |-> c, type |-> type, v |-> v]

Declare(c, name, entry) == [c EXCEPT !.scopes[Len(c.scopes)] = (name :> entry) @@ @]
Write(c, at, v) == [c EXCEPT !.cells = (at :> v) @@ @]

Converted(g, type) ==
    CASE type = "float" /\ g.type = "i32" -> [g EXCEPT !.type = type, !.v = IntToFloat(@)]
      [] type = "i32" /\ g.type = "float" -> [g EXCEPT !.type = type, !.v = FloatToInt(@)]
      [] OTHER -> g

FloatOp == [add |-> "fadd", sub |-> "fsub", mul |-> "fmul", sdiv |-> "fdiv"]
IsComparison(op) == op \in {"eq", "ne", "gt", "ge", "lt", "le"}

Combined(c, op, l, r) ==
    LET type == IF l.type = "float" \/ r.type = "float" THEN "float" ELSE "i32"
        name == IF type = "float" THEN FloatOp[op] ELSE op
    IN  Then(<<Converted(l, type).v, Converted(r, type).v>>, LAMBDA v :
        IF IsComparison(op) THEN Got(c, "i32", Truth(ICmp(op, v[1], v[2])))
        ELSE Got([c EXCEPT !.undefined = @ \/ UndefinedArithmetic(name, v[1], v[2])],
                 type, Arithmetic(name, v[1], v[2])))

Product(dims) == FoldLeft(LAMBDA p, n : p * n, 1, dims)

RECURSIVE Eval(_, _), EvalAll(_, _), Place(_, _), CallOf(_, _), Exec(_, _), ExecAll(_, _)

EvalAll(c, exps) ==
    FoldLeft(LAMBDA acc, e : Then(Eval(acc.c, e), LAMBDA g : [c |-> g.c, all |-> Append(acc.all, g)]),
             [c |-> c, all |-> <<>>], exps)

\* The cell of a variable or element, elements row by row.
Place(c, e) ==
    LET var == Find(c.scopes, e.name)
        dims == IF var.pointer THEN <<1>> \o var.dims ELSE var.dims
        skipped(index) ==
            FoldLeft(LAMBDA p, k : p + Product(SubSeq(dims, k + 1, Len(dims))) * Converted(index[k], "i32").v,
                     0, [k \in DOMAIN index |-> k])
    IN  Then(EvalAll(c, e.index), LAMBDA index :
             [c |-> index.c, at |-> var.at + skipped(index.all), type |-> var.type,
              array |-> Len(dims) > Len(e.index)])

\* A parameter is a variable of its own; one that is an array is its caller's.
Bind(c, p, arg) ==
    LET entry(at) == [at |-> at, type |-> p.type, dims |-> p.dims, pointer |-> p.array] IN
    IF p.array THEN Declare(c, p.var, entry(arg.v))
    ELSE [Declare(Write(c, c.next, Converted(arg, p.type).v), p.var, entry(c.next)) EXCEPT !.next = @ + 1]

\* What a call is worth behind the body of f, whose scopes are left.
Left(c, f, outer) ==
    Got([c EXCEPT !.scopes = outer, !.status = "go", !.result = <<>>, !.undefined = @ \/ c.fuel <= 0], f.ret,
        IF c.status = "return" /\ c.result # <<>> THEN Converted(c.result[1], f.ret).v ELSE 0)

CallOutside(c, outside, args) ==
    Got([c EXCEPT !.log = Append(@, <<"call", outside.num,
                                      [k \in DOMAIN args |-> Converted(args[k], outside.params[k]).v]>>)],
        outside.ret, CalleeResult(c))

CallOf(c, e) ==
    LET Known == {f \in Range(c.funcs) : f.name = e.callee}
        entered(d, f, args) ==
            FoldLeft(LAMBDA acc, k : Bind(acc, f.params[k], args[k]),
                     [d EXCEPT !.scopes = <<d.scopes[1], <<>>>>, !.fuel = @ - 1], [k \in DOMAIN args |-> k])
    IN  Then(EvalAll(c, e.args), LAMBDA args :
             IF Known = {} THEN CallOutside(args.c, Outside[e.callee], args.all)
             ELSE LET f == CHOOSE f \in Known : TRUE
                  IN  Left(ExecAll(entered(args.c, f, args.all), f.body), f, args.c.scopes))

EvalUnary(g, unary) ==
    CASE unary = "pos" -> g
      [] unary = "neg" -> [g EXCEPT !.v = -g.v]
      [] unary = "not" -> Got(g.c, "i32", Truth(g.v = 0))

\* The right side of && and || only counts when the left does not decide.
EvalOp(l, e) ==
    CASE e.op = "and" /\ l.v = 0 -> Got(l.c, "i32", 0)
      [] e.op = "or" /\ l.v # 0 -> Got(l.c, "i32", 1)
      [] OTHER -> Then(Eval(l.c, e.right), LAMBDA r :
                       IF e.op \in {"and", "or"} THEN Got(r.c, "i32", Truth(r.v # 0))
                       ELSE Combined(r.c, e.op, l, r))

Eval(c, e) ==
    CASE e.node = "num" -> Got(c, e.type, e.num)
      [] e.node = "var" ->
            Then(Place(c, e), LAMBDA p :
                 IF p.array THEN Got(p.c, "ptr", p.at)
                 ELSE Got([p.c EXCEPT !.undefined = @ \/ p.at \notin DOMAIN p.c.cells],
                          p.type, Cell(p.c.cells, p.at)))
      [] e.node = "call" -> CallOf(c, e)
      [] e.node = "unary" -> EvalUnary(Eval(c, e.arg), e.unary)
      [] e.node = "op" -> Then(Eval(c, e.left), LAMBDA l : EvalOp(l, e))

ExecAll(c, items) ==
    FoldLeft(LAMBDA acc, s : IF acc.status # "go" THEN acc ELSE Exec(acc, s), c, items)

\* A list in braces: an inner one is for the largest array inside this one that
\* begins where it stands.
RECURSIVE Fill(_, _, _, _, _)
Fill(c, items, dims, at, type) ==
    LET size(k) == Product(SubSeq(dims, k, Len(dims)))
        inner(pos) == Min({k \in 2 .. Len(dims) : pos % size(k) = 0})
        put(acc, item) ==
            IF item.node = "list"
            THEN Then(inner(acc.pos), LAMBDA k :
                      [c |-> Fill(acc.c, item.items, SubSeq(dims, k, Len(dims)), at + acc.pos, type),
                       pos |-> acc.pos + size(k)])
            ELSE Then(Eval(acc.c, item), LAMBDA g :
                      [c |-> Write(g.c, at + acc.pos, Converted(g, type).v), pos |-> acc.pos + 1])
    IN  FoldLeft(put, [c |-> c, pos |-> 0], items).c

\* The name is known to its own initialiser; what a list leaves out is zero.
Initialise(c, s, dims, at) ==
    CASE s.init = <<>> -> c
      [] IsList(s) ->
            Fill([c EXCEPT !.cells = [x \in at .. at + Product(dims) - 1 |-> 0] @@ @], s.init[1].items, dims, at, s.type)
      [] OTHER -> Then(Eval(c, s.init[1]), LAMBDA g : Write(g.c, at, Converted(g, s.type).v))

Define(c, s) ==
    LET room(d, dims) ==
            Declare([d EXCEPT !.next = @ + Product(dims),
                              !.cells = Restrict(@, DOMAIN @ \ (d.next .. d.next + Product(dims) - 1))],
                    s.var, [at |-> d.next, type |-> s.type, dims |-> dims, pointer |-> FALSE])
    IN  Then(EvalAll(c, s.dims), LAMBDA sizes :
        Then([k \in DOMAIN s.dims |-> sizes.all[k].v], LAMBDA dims :
             Initialise(room(sizes.c, dims), s, dims, sizes.c.next)))

\* again: what a loop does once its body has been run.
Exec(c, s) ==
    LET again(body) ==
            CASE body.status = "break" -> [body EXCEPT !.status = "go"]
              [] body.status = "return" -> body
              [] body.fuel <= 1 -> [body EXCEPT !.status = "go", !.fuel = @ - 1, !.undefined = TRUE]
              [] OTHER -> Exec([body EXCEPT !.status = "go", !.fuel = @ - 1], s)
        returned(g) == [g.c EXCEPT !.status = "return", !.result = <<[type |-> g.type, v |-> g.v]>>]
    IN
    CASE s.kind = "def" -> Define(c, s)
      [] s.kind = "assign" ->
            Then(Place(c, s.to), LAMBDA to :
            Then(Eval(to.c, s.value), LAMBDA g : Write(g.c, to.at, Converted(g, to.type).v)))
      [] s.kind = "exp" -> Eval(c, s.value).c
      [] s.kind = "block" ->
            [ExecAll([c EXCEPT !.scopes = Append(@, <<>>)], s.items) EXCEPT !.scopes = c.scopes]
      [] s.kind = "if" ->
            Then(Eval(c, s.cond), LAMBDA g : ExecAll(g.c, IF g.v # 0 THEN <<s.yes>> ELSE s.no))
      [] s.kind = "while" ->
            Then(Eval(c, s.cond), LAMBDA g : IF g.v = 0 THEN g.c ELSE Then(Exec(g.c, s.body), again))
      [] s.kind \in {"break", "continue"} -> [c EXCEPT !.status = s.kind]
      [] s.kind = "return" ->
            IF s.result = <<>> THEN [c EXCEPT !.status = "return"] ELSE returned(Eval(c, s.result[1]))

\* A global variable is zero unless it is initialised.
Zeroed(c, s) ==
    Then(Exec(c, s), LAMBDA made : [made EXCEPT !.cells = @ @@ [at \in c.next .. made.next - 1 |-> 0]])

\* The run of main with these answers from the outside.
Meaning(program, answers) ==
    LET start == [scopes |-> <<<<>>>>, cells |-> <<>>, next |-> 1, funcs |-> program.funcs, log |-> <<>>,
                  answers |-> answers, status |-> "go", result |-> <<>>, undefined |-> FALSE, fuel |-> Fuel]
    IN  Then(CallOf(FoldLeft(Zeroed, start, program.globals), [node |-> "call", callee |-> "main", args |-> <<>>]),
             LAMBDA main : [log |-> main.c.log, result |-> main.v, undefined |-> main.c.undefined])
=============================================================================
