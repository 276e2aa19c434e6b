----------------------------- MODULE IRMeaning -----------------------------
(***************************************************************************)
(* External: what the IR means, independently of any machine and of the    *)
(* passes: the values of instructions, memory by variable, calls inside    *)
(* the program, and the calls it makes to the outside with their results.  *)
(* Ints are ints, floats are counted in halves.                            *)
(*                                                                         *)
(* code maps blocks to their instructions, bodies the numbers of functions *)
(* to their entry blocks; a function without a body is called outside.     *)
(***************************************************************************)
EXTENDS Words, Sequences, FiniteSets, SequencesExt, TLC

Junk == -77                \* a value nobody has written
Truth(b) == IF b THEN 1 ELSE 0

\* What the outside answers to the next call.
CalleeResult(s) == LET k == Len(s.log) + 1 IN IF k \in DOMAIN s.answers THEN s.answers[k] ELSE 0

ICmp(op, x, y) ==
    CASE op = "eq" -> x = y [] op = "ne" -> x # y [] op = "gt" -> x > y
      [] op = "ge" -> x >= y [] op = "lt" -> x < y [] op = "le" -> x <= y
FCmp(op, x, y) ==
    ICmp([feq |-> "eq", fne |-> "ne", fgt |-> "gt", fge |-> "ge", flt |-> "lt", fle |-> "le"][op],
         x, y)

\* Addresses: every variable of a call has a region of its own.
Region(kind, n) == 1000 * (IF kind = "arg" THEN 100 + n ELSE 200 + n)
AllocaRegion(depth, id) == 1000000 * depth + 1000 * id

Frame(s) == Last(s.frames)
InFrame(s, frame) == [s EXCEPT !.frames = Append(Front(@), frame)]
At(b, k) == <<b, k>>

Cell(mem, address) == IF address \in DOMAIN mem THEN mem[address] ELSE Junk

Value(s, v) ==
    CASE v[1] \in {"int", "fp"} -> v[3]
      [] v[1] = "inst" -> IF v[3] \in DOMAIN Frame(s).env THEN Frame(s).env[v[3]] ELSE Junk
      [] v[1] = "arg" -> Frame(s).args[v[3]]
      [] v[1] = "global" -> Region("global", v[3])
      [] OTHER -> Junk

\* Arithmetic of ints and floats; a division by zero gives anything.
Arithmetic(op, x, y) ==
    CASE op = "add" -> x + y [] op = "sub" -> x - y [] op = "mul" -> x * y
      [] op = "sdiv" -> IF y = 0 THEN 0 ELSE Quotient(x, y)
      [] op = "srem" -> IF y = 0 THEN 0 ELSE Remainder(x, y)
      [] op = "fadd" -> FloatSum(x, y) [] op = "fsub" -> FloatSum(x, -y)
      [] op = "fmul" -> FloatProduct(x, y)
      [] op = "fdiv" -> IF y = 0 THEN 0 ELSE FloatQuotient(x, y)
IntToFloat(x) == Halves(FloatBits(2 * x))
FloatToInt(x) == Quotient(x, 2)

\* Undefined in C: an arithmetic result that is no int, a division by zero.
UndefinedArithmetic(op, x, y) ==
    \/ op \in {"add", "sub", "mul", "sdiv"} /\ ~IsImmLength(Arithmetic(op, x, y), WordBits)
    \/ op \in {"sdiv", "srem", "fdiv"} /\ y = 0

ArithmeticOps == {"add", "sub", "mul", "sdiv", "srem", "fadd", "fsub", "fmul", "fdiv"}

Computed(s, i) ==
    LET x == Value(s, i.args[1])  y == Value(s, i.args[2]) IN
    CASE i.op \in ArithmeticOps -> Arithmetic(i.op, x, y)
      [] i.op \in {"eq", "ne", "gt", "ge", "lt", "le"} -> Truth(ICmp(i.op, x, y))
      [] i.op \in {"feq", "fne", "fgt", "fge", "flt", "fle"} -> Truth(FCmp(i.op, x, y))
      [] i.op = "alloca" -> AllocaRegion(Len(s.frames), i.id)
      [] i.op = "load" -> Cell(s.mem, x)
      [] i.op = "gep" -> FoldLeft(LAMBDA p, k : p + i.sizes[k] * Value(s, i.args[k + 1]),
                                  x, [k \in DOMAIN i.sizes |-> k])
      [] i.op \in {"zext", "bitcast"} -> x
      [] i.op = "sitofp" -> IntToFloat(x)
      [] i.op = "fptosi" -> FloatToInt(x)

Undefined(s, i) ==
    \/ i.op \in ArithmeticOps /\ UndefinedArithmetic(i.op, Value(s, i.args[1]), Value(s, i.args[2]))
    \/ i.op = "load" /\ Value(s, i.args[1]) \notin DOMAIN s.mem

\* On entry to a block all of its phis get their values at once.
Enter(code, s, b) ==
    LET f == Frame(s)
        phis == {i \in Range(code[b]) : i.op = "phi"}
        pairs(i) == {p \in 1 .. (Len(i.args) \div 2) : i.args[2 * p][3] = f.at[1]}
        chosen(i) == IF pairs(i) = {} THEN Junk
                     ELSE Value(s, i.args[2 * (CHOOSE p \in pairs(i) : TRUE) - 1])
        new == [id \in {i.id : i \in phis} |-> chosen(CHOOSE i \in phis : i.id = id)]
    IN  InFrame(s, [f EXCEPT !.at = At(b, Cardinality(phis) + 1), !.env = new @@ @])

\* The call is answered: its value is known and the next instruction is due.
Answered(s, id, v) ==
    InFrame(s, [Frame(s) EXCEPT !.env = (id :> v) @@ @, !.at[2] = @ + 1])

\* What the outside sees of an argument: an address by what is stored there.
Seen(s, v) == IF v[2] = "ptr" THEN Cell(s.mem, Value(s, v)) ELSE Value(s, v)

\* The functions of the runtime library: their numbers and types.
Outside == [getint |-> [num |-> 101, params |-> <<>>, ret |-> "i32"],
            putint |-> [num |-> 102, params |-> <<"i32">>, ret |-> "void"],
            getfloat |-> [num |-> 103, params |-> <<>>, ret |-> "float"],
            putfloat |-> [num |-> 104, params |-> <<"float">>, ret |-> "void"],
            memset |-> [num |-> 105, params |-> <<"ptr", "i32", "i64">>, ret |-> "void"]]

Called(s, i, bodies) ==
    LET f == i.args[1][3]
        args(val(_, _)) == [k \in 1 .. Len(i.args) - 1 |-> val(s, i.args[k + 1])]
        cleared == {Value(s, i.args[2]) + 4 * k : k \in 0 .. (Value(s, i.args[4]) \div 4) - 1}
    IN  CASE f \in DOMAIN bodies ->
                [s EXCEPT !.frames = Append(@, [at |-> At(bodies[f], 1), env |-> <<>>,
                                                args |-> args(Value)])]
          [] f = Outside.memset.num ->
                [Answered(s, i.id, Junk) EXCEPT !.mem = [p \in cleared |-> Value(s, i.args[3])] @@ @]
          [] OTHER -> [Answered(s, i.id, CalleeResult(s)) EXCEPT
                        !.log = Append(@, <<"call", f, args(Seen)>>)]

Returned(s, i, code) ==
    LET result == [k \in DOMAIN i.args |-> Value(s, i.args[k])]
        caller == [s EXCEPT !.frames = Front(@)]
        call == code[Frame(caller).at[1]][Frame(caller).at[2]]
    IN  IF Len(s.frames) = 1 THEN [s EXCEPT !.left = TRUE, !.result = result]
        ELSE Answered(caller, call.id, IF result = <<>> THEN Junk ELSE result[1])

\* One instruction.
Interpret(code, bodies, s) ==
    LET f == Frame(s)
        i == code[f.at[1]][f.at[2]]
        next == InFrame(s, [f EXCEPT !.at[2] = @ + 1])
    IN
    CASE i.op = "ret" -> Returned(s, i, code)
      [] i.op = "br" ->
            LET k == IF Len(i.args) = 1 THEN 1 ELSE IF Value(s, i.args[1]) # 0 THEN 2 ELSE 3
            IN  Enter(code, s, i.args[k][3])
      [] i.op = "store" ->
            [next EXCEPT !.mem = (Value(s, i.args[2]) :> Value(s, i.args[1])) @@ @]
      [] i.op = "call" -> Called(s, i, bodies)
      [] OTHER -> [Answered(s, i.id, Computed(s, i)) EXCEPT !.undefined = @ \/ Undefined(s, i)]

\* A call of the function that begins with block entry; globals are the words
\* the global variables are initialised with.
Started(types, args, entry, answers, globals) ==
    LET pointers == {k \in DOMAIN types : types[k] = "ptr"}
        words == UNION {{n} \X DOMAIN globals[n] : n \in DOMAIN globals}
        at(p) == Region("global", p[1]) + 4 * (p[2] - 1)
    IN
    [frames |-> <<[env |-> <<>>, at |-> At(entry, 1),
                   args |-> [k \in DOMAIN types |->
                                IF k \in pointers THEN Region("arg", k) ELSE args[k]]]>>,
     log |-> <<>>, answers |-> answers, left |-> FALSE, result |-> <<>>, undefined |-> FALSE,
     mem |-> [p \in {Region("arg", k) : k \in pointers} |-> args[(p \div 1000) - 100]]
             @@ [p \in {at(q) : q \in words} |->
                    LET q == CHOOSE q \in words : at(q) = p IN globals[q[1]][q[2]]]]
=============================================================================
