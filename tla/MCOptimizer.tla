---------------------------- MODULE MCOptimizer ----------------------------
(***************************************************************************)
(* Small programs for Optimizer, by what the passes do with them.          *)
(***************************************************************************)
EXTENDS Optimizer

CONSTANT Family  \* the families of this run

MCAnswerLists == {<<3, 5, 2>>, <<0, 2, 1>>, <<2, -1, 3>>}

-----------------------------------------------------------------------------
N(n) == [node |-> "num", num |-> n, type |-> "i32"]
Half(n) == [node |-> "num", num |-> n, type |-> "float"]
X(name) == [node |-> "var", name |-> name, index |-> <<>>]
At1(name, e) == [node |-> "var", name |-> name, index |-> <<e>>]
At3(name, e, f, g) == [node |-> "var", name |-> name, index |-> <<e, f, g>>]
At2(name, e, f) == [node |-> "var", name |-> name, index |-> <<e, f>>]
Bin(op, l, r) == [node |-> "op", op |-> op, left |-> l, right |-> r]
Un(unary, e) == [node |-> "unary", unary |-> unary, arg |-> e]
CallOf1(f, args) == [node |-> "call", callee |-> f, args |-> args]
Get == CallOf1("getint", <<>>)

Def(const, type, var, dims, init) ==
    [kind |-> "def", const |-> const, type |-> type, var |-> var, dims |-> dims, init |-> init]
IntVar(var, e) == Def(FALSE, "i32", var, <<>>, <<e>>)
Float(var, e) == Def(FALSE, "float", var, <<>>, <<e>>)
NoInit(var) == Def(FALSE, "i32", var, <<>>, <<>>)
Array(var, dims) == Def(FALSE, "i32", var, dims, <<>>)
Const(var, e) == Def(TRUE, "i32", var, <<>>, <<e>>)
Set(to, e) == [kind |-> "assign", to |-> to, value |-> e]
Do(e) == [kind |-> "exp", value |-> e]
Put(e) == Do(CallOf1("putint", <<e>>))
Block(items) == [kind |-> "block", items |-> items]
If(c, yes) == [kind |-> "if", cond |-> c, yes |-> Block(yes), no |-> <<>>]
IfElse(c, yes, no) == [kind |-> "if", cond |-> c, yes |-> Block(yes), no |-> <<Block(no)>>]
While(c, items) == [kind |-> "while", cond |-> c, body |-> Block(items)]
Break == [kind |-> "break"]
Continue == [kind |-> "continue"]
Ret(e) == [kind |-> "return", result |-> <<e>>]
RetVoid == [kind |-> "return", result |-> <<>>]
Inc(var) == Set(X(var), Bin("add", X(var), N(1)))
AddTo(var, e) == Set(X(var), Bin("add", X(var), e))

Scalar(var, type) == [var |-> var, type |-> type, array |-> FALSE, dims |-> <<>>]
ArrayParam(var, dims) == [var |-> var, type |-> "i32", array |-> TRUE, dims |-> dims]
Fn(name, ret, params, body) == [node |-> "var", name |-> name, ret |-> ret, params |-> params, body |-> body]
Main(body) == Fn("main", "i32", <<>>, body)
Program(globs, funcs) == [globals |-> globs, funcs |-> funcs]

-----------------------------------------------------------------------------
G == IntVar("g", N(5))
Square == Fn("square", "i32", <<Scalar("x", "i32")>>, <<Ret(Bin("mul", X("x"), X("x")))>>)
Noisy == Fn("noisy", "void", <<>>, <<Inc("g"), RetVoid>>)
Reader == Fn("reader", "i32", <<>>, <<Ret(X("g"))>>)
Helpers == <<Square, Noisy, Reader>>

\* A loop with something that may or may not be invariant, and something that
\* decides whether it is.
InvariantLoops ==
    {Program(<<G>>, Helpers \o <<Main(
        <<IntVar("n", Get), IntVar("i", N(0)), IntVar("s", N(0)),
          While(Bin("lt", X("i"), X("n")), <<AddTo("s", e)>> \o stmt \o <<Inc("i")>>),
          Put(X("s")), Ret(X("g"))>>)>>) :
        e \in {Bin("mul", Bin("add", X("n"), N(1)), Bin("sub", X("n"), N(2))), X("g"),
               Bin("add", X("g"), X("i")), CallOf1("square", <<X("n")>>), CallOf1("reader", <<>>)},
        stmt \in {<<>>, <<Inc("g")>>, <<Do(CallOf1("noisy", <<>>))>>}}

\* Ways out of a loop; nothing may come to what follows.
Leaving ==
    {Program(<<G>>, <<Main(
        <<IntVar("n", Get), IntVar("i", N(0)), IntVar("s", Get),
          While(Bin("lt", X("i"), N(4)),
                <<Inc("i"), IfElse(Bin("eq", X("i"), X("n")), <<stmt>>, <<other>>),
                  AddTo("s", Bin("mul", X("n"), N(2)))>>),
          Put(X("i")), Ret(X("s"))>>)>>) :
        other \in {Inc("s"), Continue}, stmt \in {Break, Continue, Ret(X("i")), Set(X("n"), N(7)), Put(X("s"))}}

\* Loops in loops: what is invariant in one of them or in both.
Nested ==
    {Program(<<G>>, Helpers \o <<Main(
        <<IntVar("n", Get), IntVar("m", Get), IntVar("i", N(0)), IntVar("s", N(0)),
          While(Bin("lt", X("i"), X("n")),
                <<IntVar("j", N(0))>> \o
                <<While(Bin("lt", X("j"), N(2)), <<AddTo("s", e), Inc("j")>>), stmt, Inc("i")>>),
          Ret(X("s"))>>)>>) :
        e \in {Bin("mul", X("n"), X("m")), Bin("mul", X("i"), X("m")),
               Bin("add", Bin("mul", X("n"), N(3)), Bin("mul", X("i"), N(2)))},
        stmt \in {AddTo("s", Bin("sub", X("n"), X("m"))), Put(X("s")), Inc("m")}}

\* Conditions, also where a value is taken from them.
Conditions ==
    LET lt == Bin("lt", X("a"), X("b"))  eq == Bin("eq", X("a"), N(2))  gt == Bin("gt", X("b"), N(1)) IN
    {Program(<<>>, <<Main(
        <<IntVar("a", Get), IntVar("b", Get), IntVar("r", N(1)),
          IfElse(c, <<Set(X("r"), N(2)), Set(X("a"), X("b"))>>, <<Inc("a")>>),
          While(Bin("and", c, Bin("lt", X("r"), N(5))), <<Inc("r"), AddTo("b", N(-1))>>),
          Put(X("a")), Ret(X("r"))>>)>>) :
        c \in {lt, Un("not", X("a")), Bin("and", lt, gt), Bin("or", eq, gt), X("a"),
               Bin("or", Bin("and", lt, eq), Un("not", Bin("sub", X("a"), X("b")))),
               Bin("and", Bin("or", lt, eq), gt), Bin("add", lt, gt)}}

\* Variables of a loop body, with and without a first value there.
BodyVariables ==
    {Program(<<>>, <<Main(
        <<IntVar("n", Get), IntVar("s", N(0))>> \o
        <<While(Bin("gt", X("n"), N(0)),
                <<def, IfElse(Bin("eq", X("n"), N(2)), <<Set(X("t"), N(1))>>, <<Set(X("t"), X("n"))>>),
                  Block(<<IntVar("t", Bin("mul", X("n"), N(2))), AddTo("s", X("t"))>>),
                  AddTo("s", X("t")), Set(X("n"), Bin("sub", X("n"), N(1)))>>),
          Ret(X("s"))>>)>>) :
        def \in {NoInit("t"), IntVar("t", N(3))}}

\* Floats and conversions, among them those of arguments and results.
Floats ==
    {Program(<<Float("w", Half(3))>>, <<
        Fn("half", "float", <<Scalar("x", "float"), Scalar("k", "i32")>>,
           <<If(Bin("gt", X("x"), X("k")), <<Ret(X("k"))>>), Ret(Bin("sdiv", X("x"), N(2)))>>),
        Main(<<Float("x", CallOf1("getfloat", <<>>)), IntVar("i", N(0))>> \o
             <<While(Bin("lt", X("i"), N(2)),
                     <<Set(X("x"), e), Inc("i"), Do(CallOf1("putfloat", <<X("x")>>))>>),
               Ret(r)>>)>>) :
        e \in {Bin("add", X("x"), X("w")), CallOf1("half", <<X("i"), X("x")>>), Un("neg", X("x"))},
        r \in {X("x"), Bin("lt", X("x"), X("i")), Bin("mul", X("x"), N(2))}}

\* Arrays in functions and as arguments, with indices that do not change.
Arrays ==
    {Program(<<Array("v", <<N(3)>>)>>, <<
        Fn("fill", "void", <<ArrayParam("p", dims), Scalar("k", "i32")>>,
           <<IntVar("i", N(0)),
             While(Bin("lt", X("i"), N(2)), <<Set(e, Bin("add", e, X("k"))), Inc("i")>>)>>),
        Main(<<IntVar("n", Get), Array("a", <<N(2), N(2)>>),
               Set(At2("a", N(1), N(0)), N(4)), Set(At2("a", N(1), N(1)), X("n")),
               Do(CallOf1("fill", <<arg, N(3)>>)), Do(CallOf1("fill", <<arg, X("n")>>)),
               Put(At2("a", N(1), N(1))), Ret(Bin("add", At2("a", N(1), N(0)), At1("v", N(1))))>>)>>) :
        <<dims, e, arg>> \in {<<<<>>, At1("p", N(1)), At1("a", N(1))>>,
                              <<<<>>, At1("p", X("i")), X("v")>>,
                              <<<<2>>, At2("p", N(1), X("i")), X("a")>>}}

\* Arrays with a list of values, most of them zero or not, in functions, in the
\* body of a loop and outside; lists in lists.
Listed(items) == [node |-> "list", items |-> items]
ArrayOf(const, type, var, dims, items) == Def(const, type, var, dims, <<Listed(items)>>)
Initialisers ==
    {Program(globs, <<Main(
        locals \o <<IntVar("i", N(0)), Set(At2("b", N(1), N(0)), N(6)),
          While(Bin("lt", X("i"), N(3)),
                <<ArrayOf(FALSE, "i32", "c", <<N(3)>>, <<X("i")>>),
                  Put(Bin("add", At1("c", N(2)), At2("b", Bin("sdiv", X("i"), N(2)), Bin("srem", X("i"), N(2))))),
                  Set(At1("c", N(2)), N(8)), Inc("i")>>),
          Ret(Bin("add", At1("k", N(1)), At2("b", N(1), N(1))))>>)>>) :
        <<globs, locals>> \in
            {<<<<ArrayOf(TRUE, "i32", "k", <<N(2)>>, <<N(1), N(2)>>), ArrayOf(FALSE, "i32", "b", <<N(2), N(2)>>, l)>>,
               <<IntVar("n", Get)>>>> :
                l \in {<<>>, <<N(1), N(2), N(3), N(4)>>, <<Listed(<<N(1)>>), Listed(<<N(0), N(3)>>)>>,
                       <<N(0), N(5), Listed(<<N(7)>>)>>, <<Listed(<<>>), N(2)>>}}
            \cup
            {<<<<>>, <<IntVar("n", Get), ArrayOf(TRUE, "i32", "k", <<N(2)>>, <<N(1)>>),
                      ArrayOf(FALSE, "i32", "b", <<N(2), N(2)>>, l)>>>> :
                l \in {<<>>, <<X("n"), N(2), Get>>, <<Listed(<<Get>>), Listed(<<N(0), X("n")>>)>>,
                       <<N(0), Get, Listed(<<X("n")>>)>>, <<Listed(<<>>), N(2)>>}}}
    \cup
    {Program(globs, <<Main(locals \o
        <<Put(At1("x", N(0))), Put(At1("x", N(1))), Put(At1("x", N(2))), Ret(At1("x", N(3)))>>)>>) :
        <<globs, locals>> \in
            {<<<<ArrayOf(FALSE, "float", "x", <<N(4)>>, [k \in 1 .. 4 |-> Half(k)])>>, <<>>>>,
             <<<<>>, <<ArrayOf(FALSE, "float", "x", <<N(4)>>, <<Get, N(2), Half(3), Half(0)>>)>>>>,
             <<<<>>, <<ArrayOf(FALSE, "float", "x", <<N(4)>>, <<Half(0), Half(0), N(0), Get>>)>>>>}}
    \cup
    {Program(<<>>, <<Main(
        <<IntVar("n", Get), ArrayOf(FALSE, "i32", "d", <<N(2), N(2), N(2)>>, l), IntVar("i", N(0))>> \o
        <<While(Bin("lt", X("i"), N(2)),
                <<Put(At3("d", X("i"), N(0), N(0))), Put(At3("d", X("i"), N(0), N(1))),
                  Put(At3("d", X("i"), N(1), N(0))), Put(At3("d", X("i"), N(1), N(1))), Inc("i")>>),
          Ret(N(0))>>)>>) :
        l \in {<<Listed(<<Listed(<<N(1)>>)>>), Listed(<<X("n"), N(3), Listed(<<N(5)>>)>>)>>,
               <<N(1), N(2), Listed(<<N(3)>>), N(4), N(5), Listed(<<Get>>)>>}}

\* A list in a list in a list: { { { 1 }, { 2 } } }.
InnerLists ==
    {Program(<<>>, <<Main(
        <<ArrayOf(FALSE, "i32", "d", <<N(2), N(2), N(2)>>, <<Listed(<<Listed(<<N(1)>>), Listed(<<N(2)>>)>>)>>),
          Put(At3("d", N(0), N(1), N(0))), Ret(At3("d", N(1), N(0), N(0)))>>)>>)}

\* The functions of a program call each other.
Recursion ==
    {Program(<<G>>, <<Noisy,
        Fn("up", "i32", <<Scalar("n", "i32")>>,
           <<If(Bin("le", X("n"), N(0)), <<Ret(N(0))>>), stmt,
             Ret(Bin("add", X("n"), CallOf1("up", <<Bin("sub", X("n"), N(1))>>)))>>),
        Main(<<IntVar("n", Get), Do(CallOf1("up", <<X("n")>>)), IntVar("i", N(0)), IntVar("s", N(0)),
               While(Bin("lt", X("i"), N(2)), <<AddTo("s", CallOf1("up", <<X("n")>>)), Inc("i")>>),
               Put(X("g")), Ret(X("s"))>>)>>) :
        stmt \in {Do(X("n")), Put(X("n")), Do(CallOf1("noisy", <<>>))}}

\* Constants, of a number and of an array, in a constant expression; one of a
\* name that is used in another block too.
Constants ==
    {Program(<<ArrayOf(TRUE, "i32", "t", <<N(2), N(2)>>, <<N(4), N(1), N(3), N(5)>>)>>, <<Main(
        <<IntVar("n", Get), ArrayOf(TRUE, "i32", "u", <<At2("t", N(1), N(0))>>, <<N(7), N(6)>>),
          Const("m", Bin("add", At2("t", N(0), N(0)), At1("u", Bin("sub", At2("t", N(1), N(0)), N(2))))),
          Ret(Bin("add", X("n"), Bin("mul", X("m"), At1("u", N(0)))))>>)>>)} \cup
    {Program(<<Const("k", N(2))>>, <<Main(
        <<IntVar("n", Get), Const("m", Bin("add", X("k"), N(1))), Array("a", <<X("m")>>),
          Set(At1("a", X("k")), X("n")), Block(<<Const("m", N(4)), Put(X("m"))>>),
          Ret(Bin("add", X("m"), At1("a", N(2))))>>)>>)} \cup
    {Program(<<Def(TRUE, "float", "f", <<>>, <<N(3)>>), Const("k", Half(5))>>, <<Main(
        <<Const("m", X("k")), Do(CallOf1("putfloat", <<X("f")>>)), Ret(Bin("add", X("k"), X("m")))>>)>>)}

ShadowedConstants ==
    {Program(<<Const("k", N(2))>>, <<Main(
        <<IntVar("n", Get), Block(<<Const("k", N(3)), Const("m", Bin("add", X("k"), N(1))), Put(X("m"))>>),
          Ret(X("n"))>>)>>)}

Families ==
    [loops |-> InvariantLoops, leaving |-> Leaving, nested |-> Nested, conditions |-> Conditions,
     bodies |-> BodyVariables, floats |-> Floats, arrays |-> Arrays, calls |-> Recursion,
     constants |-> Constants, initialisers |-> Initialisers,
     shadowed |-> ShadowedConstants, braces |-> InnerLists]

MCPrograms == UNION {Families[f] : f \in Family}
=============================================================================
