------------------------------- MODULE Words -------------------------------
(***************************************************************************)
(* Two's complement words.  An int has WordBits bits, a general register   *)
(* twice as many, a short immediate ImmBits (32, 64 and 12 in the code and *)
(* on the machine).                                                        *)
(***************************************************************************)
EXTENDS Integers

CONSTANTS
    WordBits,  \* bits of an int
    ImmBits    \* bits of the immediate operand of most instructions

ASSUME WordAssumption ==
    /\ WordBits \in Nat /\ ImmBits \in Nat
    /\ 0 < ImmBits /\ 2 * ImmBits < WordBits

\* The bits of n that a field of the given width holds, read as a natural
\* number and as a signed one.
Bits(n, width) == n % (2 ^ width)
Wrap(n, width) ==
    IF Bits(n, width) < 2 ^ (width - 1) THEN Bits(n, width)
                                        ELSE Bits(n, width) - 2 ^ width
Word(n) == Wrap(n, WordBits)
Dword(n) == Wrap(n, 2 * WordBits)

\* Immediate::is_imm_length and is_uimm_length.
IsImmLength(n, width) == -(2 ^ (width - 1)) <= n /\ n <= 2 ^ (width - 1) - 1
IsUimmLength(n, width) == 0 <= n /\ n <= 2 ^ width - 1

\* (n & (n - 1)) = 0, and __builtin_ffs, which is 0 for 0.
IsPowerOf2OrZero(n) == n = 0 \/ \E k \in 0 .. WordBits - 1 : n = 2 ^ k
FirstBit(n) ==
    IF n = 0 THEN 0 ELSE 1 + (CHOOSE k \in 0 .. WordBits : Bits(n, k + 1) = 2 ^ k)

\* Division that rounds towards zero, as in C; its remainder.
Quotient(a, b) ==
    LET abs(n) == IF n < 0 THEN -n ELSE n
        q == abs(a) \div abs(b)
    IN  IF (a < 0) = (b < 0) THEN q ELSE -q
Remainder(a, b) == a - b * Quotient(a, b)

\* The bits of a floating-point number, counted in halves, and back.  The lower
\* bits of the small numbers of a program are zero, as in the real encoding.
FloatUnit == 2 ^ (WordBits - 5)
FloatBits(halves) == Word(halves * FloatUnit)
Halves(bits) == Word(bits) \div FloatUnit

\* Arithmetic on them, rounded to halves.
FloatSum(x, y) == Halves(FloatBits(x + y))
FloatProduct(x, y) == Halves(FloatBits((x * y) \div 2))
FloatQuotient(x, y) == Halves(FloatBits(Quotient(2 * x, y)))
=============================================================================
