------------------------------ MODULE Division ----------------------------
(***************************************************************************)
(* The unsigned division of crates/sqisign-rs/src/mp/div.rs: Knuth's       *)
(* schoolbook algorithm for divisors of an odd number of limbs, the        *)
(* Burnikel-Ziegler recursion for an even one, and the blockwise division  *)
(* that feeds it.  An array of limbs is a number, its length beside it     *)
(* where the code passes one.  A result is <<quotient, remainder>>.        *)
(***************************************************************************)
EXTENDS Integers

CONSTANTS
    DigitBits,   \* width of a limb, 64 in the code
    MaxLimbs,    \* limbs of an operand at most
    Dividends,   \* values of |a|
    Divisors     \* values of |b|

B == 2 ^ DigitBits

ASSUME DivisionAssumption ==
    /\ DigitBits \in Nat \ {0} /\ MaxLimbs \in Nat \ {0}
    /\ Dividends \subseteq 0..(B ^ MaxLimbs - 1) /\ Divisors \subseteq 1..(B ^ MaxLimbs - 1)

\* Of the powers that occur, for no prover here knows their law.
ASSUME DivisionPowers ==
    /\ 2 ^ 0 = 1 /\ \A k \in 0..(DigitBits - 1) : 2 ^ k \in Nat /\ 2 ^ (k + 1) = 2 * 2 ^ k
    /\ B ^ 0 = 1 /\ \A k \in 0..(2 * MaxLimbs) : B ^ k \in Nat /\ B ^ (k + 1) = B * B ^ k

VARIABLES pair,    \* dividend and divisor
          result   \* of divmod_abs

dvars == <<pair, result>>

Digit(v, i)     == (v \div B ^ i) % B
Digits(v, i, n) == (v \div B ^ i) % B ^ n      \* n limbs from place i
TrimLen(v)      == CHOOSE n \in 1..MaxLimbs : v < B ^ n /\ (n = 1 \/ v >= B ^ (n - 1))
LeadingZeros(d) == CHOOSE s \in 0..DigitBits : d * 2 ^ s < B /\ (2 * d * 2 ^ s >= B)

---------------------------------------------------------------------------
(* divmod_schoolbook.                                                      *)

\* Two limbs show that the estimate is too large, while the remainder still
\* is a limb.
TooLarge(qhat, rhat, v2, next) == rhat < B /\ qhat * v2 > rhat * B + next

\* The turns of the loop that lowers the estimate.
Lowerings(qhat, rhat, v1, v2, next) ==
    CHOOSE k \in 0..B : /\ ~TooLarge(qhat - k, rhat + k * v1, v2, next)
                        /\ \A i \in 0..(k - 1) : TooLarge(qhat - i, rhat + i * v1, v2, next)

\* Quotient digit of a window of vlen + 1 limbs, from its top limbs.
Estimate(win, v, vlen) ==
    LET v1   == Digit(v, vlen - 1)
        num  == Digits(win, vlen - 1, 2)
        qhat == IF num \div v1 >= B THEN B - 1 ELSE num \div v1
    IN  qhat - Lowerings(qhat, num - qhat * v1, v1, Digit(v, vlen - 2), Digit(win, vlen - 2))

\* Mutated form of Corrected: a digit one too large is never put right.
NoAddBack(qhat, win, v, vlen) == <<qhat, (win - qhat * v) % B ^ (vlen + 1)>>

\* The digit and the window that is left; one too large is added back.
Corrected(qhat, win, v, vlen) ==
    IF win < qhat * v
    THEN <<qhat - 1, (win - qhat * v + v) % B ^ (vlen + 1)>>
    ELSE <<qhat, win - qhat * v>>

\* k is what is found of the quotient and what is left of the dividend.
KnuthTurn(k, j, vn, vlen) ==
    LET win == Digits(k[2], j, vlen + 1)
        c   == Corrected(Estimate(win, vn, vlen), win, vn, vlen)
    IN  <<k[1] + c[1] * B ^ j, k[2] - win * B ^ j + c[2] * B ^ j>>

Schoolbook(u, ulen, v, vlen) ==
    IF vlen = 1 THEN <<u \div v, u % v>>
    ELSE LET shift == LeadingZeros(Digit(v, vlen - 1))
             turns == ulen - vlen + 1
             k[i \in 0..turns] ==     \* after i turns
                 IF i = 0 THEN <<0, u * 2 ^ shift>>
                 ELSE KnuthTurn(k[i - 1], turns - i, v * 2 ^ shift, vlen)
             end   == k[turns]
         IN  <<end[1], (end[2] % B ^ vlen) \div 2 ^ shift>>

---------------------------------------------------------------------------
(* div_d2n1n, div_d3n2n.                                                   *)

\* qhat goes down and b is added until the remainder is not negative.
Restored(q, r, b) ==
    LET k == CHOOSE k \in 0..q : r + k * b >= 0 /\ (k = 0 \/ r + (k - 1) * b < 0)
    IN  <<q - k, r + k * b>>

\* 3n limbs by 2n, divide being the division of 2n limbs by n.
D3n2n(divide, a, b, n) ==
    LET top  == divide[<<a \div B ^ n, b \div B ^ n>>]
        rest == Restored(top[1], top[2] * B ^ n + (a % B ^ n) - top[1] * (b % B ^ n), b)
    IN  <<rest[1], rest[2] % B ^ (2 * n)>>

\* The same of 2n limbs by n, from that of n by n \div 2.
Halved(divide, a, b, n) ==
    LET h  == n \div 2
        hi == D3n2n(divide, a \div B ^ h, b, h)
        lo == D3n2n(divide, hi[2] * B ^ h + (a % B ^ h), b, h)
    IN  <<hi[1] * B ^ h + lo[1], lo[2]>>

D2n1n[n \in Nat] ==
    IF n % 2 = 0 /\ n >= 2
    THEN [p \in Nat \X Nat |-> Halved(D2n1n[n \div 2], p[1], p[2], n)]
    ELSE [p \in Nat \X Nat |-> Schoolbook(p[1], 2 * n, p[2], n)]

---------------------------------------------------------------------------
(* div_unsigned, divmod_abs.                                               *)

\* The block at place i, with the remainder of the one before it.
BlockTurn(k, i, un, vn, n) ==
    LET d == D2n1n[n][<<k[2] * B ^ n + Digits(un, i * n, n), vn>>]
    IN  <<k[1] + d[1] * B ^ (i * n), d[2]>>

\* The top block gives a quotient of 0 or 1.
DivUnsigned(u, ulen, v, n) ==
    LET shift == LeadingZeros(Digit(v, n - 1))
        vn    == v * 2 ^ shift
        un    == u * 2 ^ shift
        t     == (ulen + 1 + n - 1) \div n      \* blocks
        top   == Digits(un, (t - 1) * n, n)
        start == IF top < vn THEN <<0, top>> ELSE <<B ^ ((t - 1) * n), top - vn>>
        k[i \in 0..(t - 1)] ==     \* after the top block and i others
            IF i = 0 THEN start ELSE BlockTurn(k[i - 1], t - 1 - i, un, vn, n)
        end   == k[t - 1]
    IN  <<end[1], end[2] \div 2 ^ shift>>

DivmodAbs(u, v) ==
    LET ulen == TrimLen(u)
        vlen == TrimLen(v)
    IN  IF u < v THEN <<0, u>>
        ELSE IF vlen % 2 = 1 THEN Schoolbook(u, ulen, v, vlen)
        ELSE DivUnsigned(u, ulen, v, vlen)

---------------------------------------------------------------------------
DivIdle == pair = <<>> /\ result = <<>>

DivInit == pair \in Dividends \X Divisors /\ result = <<>>

Divide ==
    /\ pair # <<>> /\ result = <<>>
    /\ result' = DivmodAbs(pair[1], pair[2])
    /\ UNCHANGED pair

DivSpec == DivInit /\ [][Divide]_dvars

---------------------------------------------------------------------------
(* Properties.                                                             *)

\* The quotient and the remainder are the Euclidean ones for every dividend
\* and divisor, the digit estimates that are one too large (one in 2^63 for
\* limbs of 64 bits) and the quotients of the recursion that are several too
\* large included.
QuotientRight ==
    result # <<>> => result = <<pair[1] \div pair[2], pair[1] % pair[2]>>
============================================================================
