---------------------------- MODULE FieldCalls ----------------------------
(***************************************************************************)
(* The extension field of crates/verify/src/fp/fp2.rs, whatever backend    *)
(* the prime has, as pairs of elements of the backend; and sequences of    *)
(* calls on these elements, with the element of PrimeField that each       *)
(* result ought to stand for: `elt' is the last result, as the backend     *)
(* stores it, and the next call starts from it.                            *)
(***************************************************************************)
EXTENDS Integers, Sequences

CONSTANTS
    zero, one,                                        \* FpBackend's operations
    add(_, _), sub(_, _), neg(_), mul(_, _), sqr(_),
    inv(_), sqrt(_), exp3div4(_), half(_), mul_small(_, _),
    is_square(_), is_equal(_, _), is_zero(_),
    encode(_), decode(_),
    fp2_mul(_, _), fp2_sqr(_),

    P,              \* the modulus
    Stored(_),      \* what the backend promises of an element between calls
    IntegerOf(_),   \* the integer its words hold
    R,              \* the Montgomery factor, modulo P
    set_small(_), div3(_), decode_reduce(_), cswap(_, _, _),
    BYTE, ENCODED_BYTES,
    Encoded,        \* integers whose bytes are decoded
    Strings,        \* byte strings to reduce
    Operands,       \* integers below 2P: decoded, or decoded and negated, second operands
    Wide,           \* the ones among them that the extension is checked with
    Small,          \* words
    Bounded, Calls  \* whether a sequence has at most Calls calls

F == INSTANCE PrimeField

---------------------------------------------------------------------------
(* The extension: the backend's operations on pairs.                       *)

Pair(re, im) == [re |-> re, im |-> im]
Pick(a0, a1, ctl) == IF ctl THEN a1 ELSE a0

ct_is_zero(a)  == is_zero(a.re) /\ is_zero(a.im)
ct_is_one(a)   == is_equal(a.re, one) /\ is_zero(a.im)
ct_equal(a, b) == is_equal(a.re, b.re) /\ is_equal(a.im, b.im)

CAdd(a, b)   == Pair(add(a.re, b.re), add(a.im, b.im))
add_one(a)   == Pair(add(a.re, one), a.im)
CSub(a, b)   == Pair(sub(a.re, b.re), sub(a.im, b.im))
CNeg(a)      == Pair(neg(a.re), neg(a.im))
CHalf(a)     == Pair(half(a.re), half(a.im))
CSmall(a, k) == Pair(mul_small(a.re, k), mul_small(a.im, k))
conjugate(a) == Pair(a.re, neg(a.im))

mul_by_i(a, ctl) == Pair(Pick(a.im, neg(a.im), ctl), Pick(neg(a.re), a.re, ctl))

RealNorm(a)  == add(sqr(a.re), sqr(a.im))
CIsSquare(a) == is_square(RealNorm(a))
CInv(a) ==
    LET n == inv(RealNorm(a)) IN Pair(mul(a.re, n), neg(mul(a.im, n)))

\* The root of the norm, or of an element that is real, its real part.
Root(a) == Pick(sqrt(RealNorm(a)), a.re, is_zero(a.im))

CSqrt(a) ==
    LET x0  == add(Root(a), a.re)
        t0  == add(x0, x0)
        x1  == exp3div4(t0)
        y0  == mul(x0, x1)
        y1  == mul(x1, a.im)
        f   == is_zero(sub(t0, sqr(add(y0, y0))))
    IN  Pair(Pick(y1, y0, f), Pick(neg(y0), y1, f))

Odd(a) == encode(a)[1] % 2 = 1

sqrt_canonical_even(a) ==
    LET s      == CSqrt(a)
        negate == Odd(s.re) \/ (is_zero(s.re) /\ Odd(s.im))
    IN  Pair(Pick(s.re, neg(s.re), negate), Pick(s.im, neg(s.im), negate))

sqrt_verify(a) == LET s == CSqrt(a) IN [root |-> s, ok |-> ct_equal(a, fp2_sqr(s))]

\* The last byte that differs decides, and the imaginary part comes last.
less_than(a, b) ==
    LET x == encode(a.re) \o encode(a.im)
        y == encode(b.re) \o encode(b.im)
    IN  \E i \in DOMAIN x : x[i] < y[i] /\ \A j \in (i + 1)..Len(x) : x[j] = y[j]

CDecode(re, im) ==
    LET r == decode(re) i == decode(im) IN [ok |-> r.ok /\ i.ok, value |-> Pair(r.limbs, i.limbs)]

---------------------------------------------------------------------------
(* Batched inversion and powers.                                           *)

RECURSIVE Products(_, _)
Products(xs, t) ==
    IF Len(t) = Len(xs) THEN t ELSE Products(xs, Append(t, fp2_mul(t[Len(t)], xs[Len(t) + 1])))

\* t2[i] is the inverse of the product of all but the last i.
RECURSIVE Inverses(_, _)
Inverses(xs, t) ==
    IF Len(t) = Len(xs) THEN t
    ELSE Inverses(xs, Append(t, fp2_mul(t[Len(t)], xs[Len(xs) - Len(t) + 1])))

batched_inv(xs) ==
    IF xs = <<>> THEN xs
    ELSE LET n  == Len(xs)
             t1 == Products(xs, <<xs[1]>>)
             t2 == Inverses(xs, <<CInv(t1[n])>>)
         IN  [i \in 1..n |-> IF i = 1 THEN t2[n] ELSE fp2_mul(t1[i - 1], t2[n - i + 1])]

\* The exponent's bits, the least significant first, to the end of the word.
RECURSIVE Squarings(_, _, _)
Squarings(out, acc, bits) ==
    IF bits = <<>> THEN out
    ELSE Squarings(IF Head(bits) = 1 THEN fp2_mul(out, acc) ELSE out, fp2_sqr(acc), Tail(bits))

pow_vartime(a, bits) == Squarings(Pair(one, zero), a, bits)

---------------------------------------------------------------------------
(* Sequences of calls.                                                     *)

VARIABLES
    elt, due,  \* the element and the integer it should stand for
    agrees,    \* whether the last answer was the right one
    left       \* calls that may still be made

fvars == <<elt, due, agrees, left>>

RECURSIVE BytesValue(_)
BytesValue(bytes) == IF bytes = <<>> THEN 0 ELSE Head(bytes) + 2 ^ BYTE * BytesValue(Tail(bytes))

\* The residue of a byte string that no integer of the model can hold.
RECURSIVE BytesResidue(_)
BytesResidue(bytes) ==
    IF bytes = <<>> THEN 0 ELSE (Head(bytes) + F!Times(2 ^ BYTE % P, BytesResidue(Tail(bytes)))) % P

\* The integer below P that stored words stand for.
Meaning(n)  == F!Times(IntegerOf(n) % P, F!Reciprocal(R))
CMeaning(a) == Pair(Meaning(a.re), Meaning(a.im))

\* A second operand, as a caller may have it: decoded, or left unreduced.
Bytes(v)  == [i \in 1..ENCODED_BYTES |-> (v \div 2 ^ (BYTE * (i - 1))) % 2 ^ BYTE]
Loaded(v) == decode(Bytes(v)).limbs
Second(v) == IF v < P THEN Loaded(v) ELSE neg(Loaded(v - P))
SecondDue(v) == IF v < P THEN v ELSE F!Minus(0, v - P)

FieldInit == elt = zero /\ due = 0 /\ agrees = TRUE /\ left = Calls

Spend        == left > 0 /\ left' = IF Bounded THEN left - 1 ELSE left
Give(r, v)   == Spend /\ elt' = r /\ due' = v /\ agrees' = TRUE
Answer(a, b) == Spend /\ agrees' = (a = b) /\ UNCHANGED <<elt, due>>

\* A call with a pair of results: the sequence goes on with one of them.
GivePair(r, v) == Give(r.re, v.re) \/ Give(r.im, v.im)

Load ==
    \/ \E v \in Encoded :
          LET d == decode(Bytes(v))
          IN  /\ Spend
              /\ agrees' = (d.ok = (v < P))
              /\ elt' = d.limbs /\ due' = IF d.ok THEN v ELSE 0
    \/ \E bytes \in Strings : Give(decode_reduce(bytes), BytesResidue(bytes))
    \/ \E v \in Small : Give(set_small(v), v % P)
    \/ Give(one, 1)

Linear ==
    \/ \E v \in Operands :
          LET y == Second(v)
          IN  \/ Give(add(elt, y), F!Plus(due, SecondDue(v)))
              \/ Give(sub(elt, y), F!Minus(due, SecondDue(v)))
              \/ Give(sub(y, elt), F!Minus(SecondDue(v), due))
    \/ \E v \in Small : Give(mul_small(elt, v), F!Times(due, v % P))
    \/ Give(add(elt, elt), F!Plus(due, due))
    \/ Give(neg(elt), F!Minus(0, due))
    \/ Give(half(elt), F!Times(due, F!Reciprocal(2)))
    \/ Give(div3(elt), F!Times(due, F!Reciprocal(3 % P)))

Multiply ==
    \/ \E v \in Operands : Give(mul(elt, Second(v)), F!Times(due, SecondDue(v)))
    \/ Give(sqr(elt), F!Times(due, due))
    \/ Give(inv(elt), F!Reciprocal(due))
    \/ Give(exp3div4(elt), F!Power(due, (P - 3) \div 4))
    \/ F!Square(due) /\ Give(sqrt(elt), F!Power(due, (P + 1) \div 4))

Observe ==
    \/ \E v \in Operands : Answer(is_equal(elt, Second(v)), due = SecondDue(v))
    \/ Answer(is_zero(elt), due = 0)
    \/ Answer(is_square(elt), F!Square(due))
    \/ Answer(BytesValue(encode(elt)), due)

Swap ==
    \E v \in Operands, ctl \in {0, 1} :
        LET s == cswap(elt, Second(v), ctl)
        IN  \/ Give(s[1], IF ctl = 1 THEN SecondDue(v) ELSE due)
            \/ Give(s[2], IF ctl = 1 THEN due ELSE SecondDue(v))

---------------------------------------------------------------------------
(* The extension, on elt + i y.                                              *)

Quadratic(y, d) ==
    LET z == Pair(elt, y)
        c == F!Complex(due, d)
    IN  \/ \E v \in Wide :
              LET w == Pair(Second(v), y)
                  e == F!Complex(SecondDue(v), d)
              IN  \/ GivePair(fp2_mul(z, w), F!CTimes(c, e))
                  \/ Answer(less_than(z, w), due < SecondDue(v))
                  \/ Answer(less_than(Pair(y, elt), Pair(Second(v), elt)), d < SecondDue(v))
                  \/ Answer(ct_equal(z, w), c = e)
        \/ GivePair(fp2_sqr(z), F!CTimes(c, c))
        \/ GivePair(CInv(z), F!CReciprocal(c))
        \/ GivePair(CSub(CAdd(z, add_one(z)), conjugate(CNeg(z))),
                    F!CPlus(F!CPlus(c, c), F!CPlus(F!Complex(1, 0), F!Complex(due, F!Minus(0, d)))))
        \/ GivePair(CHalf(CSmall(z, 3)), F!CTimes(c, F!Complex(F!Times(3 % P, F!Reciprocal(2)), 0)))
        \/ \E ctl \in BOOLEAN :
              GivePair(mul_by_i(z, ctl), F!CTimes(c, F!Complex(0, IF ctl THEN 1 ELSE P - 1)))
        \/ GivePair(pow_vartime(z, <<1, 0, 1, 1, 0>>), F!CPower(c, 13))
        \/ Answer(CIsSquare(z), F!CSquare(c))
        \/ Answer(ct_is_zero(z), c = F!Complex(0, 0))
        \/ Answer(ct_is_one(z), c = F!Complex(1, 0))
        \/ Answer(CDecode(encode(elt), encode(y)).ok, TRUE)

\* A root is only defined up to its sign, or by the parity asked for.
Roots(y, d) ==
    LET z == Pair(elt, y)
        c == F!Complex(due, d)
        s == CMeaning(CSqrt(z))
        e == CMeaning(sqrt_canonical_even(z))
    IN  \/ Answer(sqrt_verify(z).ok, F!CSquare(c))
        \/ F!CSquare(c) /\ GivePair(CSqrt(z), s) /\ F!CTimes(s, s) = c
        \/ F!CSquare(c) /\ Answer(<<F!CTimes(s, s), F!CTimes(e, e), (IF e.re = 0 THEN e.im ELSE e.re) % 2>>,
                                  <<c, c, 0>>)

Batch(y, d) ==
    LET xs == <<Pair(elt, y), Pair(y, elt), Pair(one, y)>>
        cs == <<F!Complex(due, d), F!Complex(d, due), F!Complex(1, d)>>
    IN  /\ \A i \in 1..3 : cs[i] # F!Complex(0, 0)
        /\ Answer([i \in 1..3 |-> CMeaning(batched_inv(xs)[i])], [i \in 1..3 |-> F!CReciprocal(cs[i])])

FieldNext ==
    \/ Load \/ Linear \/ Multiply \/ Observe \/ Swap
    \/ \E v \in Wide : LET y == Second(v)
                               d == SecondDue(v)
                           IN  Quadratic(y, d) \/ Roots(y, d) \/ Batch(y, d)

---------------------------------------------------------------------------
(* Properties.                                                             *)

\* After any sequence of calls the stored words keep the form and the range
\* that every kernel counts on, unreduced results included, they stand for
\* the element they ought to, and every comparison, square test, decoding
\* and encoding answers for that element and not for the words.
FieldRight == Stored(elt) /\ Meaning(elt) = due /\ agrees
=============================================================================
