-------------------------------- MODULE Modq -------------------------------
(***************************************************************************)
(* Arithmetic modulo an odd number of any size (mp/modq.rs), the square    *)
(* roots it serves, and the test of primality (mp/prime.rs).  A residue is *)
(* a sequence of limbs of RADIX bits, the least significant first, in      *)
(* Montgomery form and below 2p; the number of limbs goes with the bound   *)
(* of p.  A draw is an existential choice: one that is refused changes     *)
(* nothing, and the source of randomness may fail.                         *)
(***************************************************************************)
EXTENDS Integers, Sequences

CONSTANTS
    RADIX, WORD,    \* bits of a limb and of a machine word, 61 and 64
    WINDOW_SIZE,    \* of the power of fixed pattern, 3
    SLIDING,        \* windows of the other, of a short modulus and of a long one: 4 and 6
    SHORT,          \* bits of a short modulus, 160
    JACOBI_BASES,   \* the first primes
    SPLIT, BATCHES, \* the sieve's odd primes: in products of a half and of a full word
    SMALL,          \* bits up to which a sieved number may be one of them, 32
    FREE_ROUNDS,    \* rounds that ask for no random base, 24
    Moduli,         \* odd numbers with bounds, <<p, bits>>
    Questions       \* what is asked, see Asked

ASSUME ModqAssumption ==
    /\ {RADIX, WORD, WINDOW_SIZE, SHORT, SMALL, FREE_ROUNDS} \subseteq Nat \ {0}
    /\ WINDOW_SIZE < RADIX /\ RADIX < WORD
    /\ \A m \in Moduli : m[1] % 2 = 1 /\ m[1] < 2 ^ (m[2] - 1)
                         /\ 2 * m[2] * 4 ^ RADIX <= RADIX * 4 ^ WORD

VARIABLES ask, ctx, loop, reply
mvars == <<ask, ctx, loop, reply>>

MASK      == 2 ^ RADIX
Wrap(v)   == v % 2 ^ WORD
AsSigned(v) == IF v >= 2 ^ (WORD - 1) THEN v - 2 ^ WORD ELSE v
BitLength(v) == CHOOSE k \in 0..30 : v \div 2 ^ k = 0 /\ (k = 0 \/ v \div 2 ^ (k - 1) # 0)
TwoAdic(v)   == CHOOSE k \in 0..30 : v % 2 ^ k = 0 /\ (v \div 2 ^ k) % 2 = 1
BitAt(v, i)  == (v \div 2 ^ i) % 2

\* A sequence whose elements TLC computes once.
Once(f) == f \o <<>>

\* Into limbs and back.
ToModq(v, nw) == Once([i \in 1..nw |-> (v \div MASK ^ (i - 1)) % MASK])
FromModq(a) ==
    LET from[i \in 1..(Len(a) + 1)] == IF i > Len(a) THEN 0 ELSE (a[i] % MASK) + MASK * from[i + 1]
    IN  from[1]

----------------------------------------------------------------------------
(* Sums: carries, and the modulus added back to what has become negative.  *)

prop(n) ==
    LET nw == Len(n)
        carry[i \in 1..nw] == (AsSigned(n[i]) + (IF i = 1 THEN 0 ELSE carry[i - 1])) \div MASK
    IN  IF nw = 1 THEN n
        ELSE Once([i \in 1..nw |-> IF i = 1 THEN n[i] % MASK
                                   ELSE IF i < nw THEN (AsSigned(n[i]) + carry[i - 1]) % MASK
                                   ELSE Wrap(n[i] + carry[i - 1])])

Below0(n)     == AsSigned(n[Len(n)]) < 0
Combined(n, q, sg) == Once([i \in 1..Len(n) |-> Wrap(n[i] + sg * q[i])])
Recover(n, q) == LET c == prop(n) IN prop(IF Below0(c) THEN Combined(c, q, 1) ELSE c)

modfsb(n, p)      == Recover(Combined(n, p, -1), p)
modadd(a, b, two) == Recover(Combined(Combined(a, b, 1), two, -1), two)
modsub(a, b, two) == Recover(Combined(a, b, -1), two)

modshl(n, a) ==
    Once([i \in 1..Len(a) |->
        LET low == IF i = 1 THEN 0 ELSE a[i - 1] \div 2 ^ (RADIX - n)
        IN  IF i = Len(a) THEN Wrap(Wrap(a[i] * 2 ^ n) + low) ELSE ((a[i] * 2 ^ n) % MASK) + low])

----------------------------------------------------------------------------
(* Products: the columns of the schoolbook product, each cleared by a      *)
(* multiple of the modulus.                                                *)

Dot(a, b, k) ==
    LET upto[j \in 0..Len(a)] ==
            IF j = 0 THEN 0
            ELSE upto[j - 1] + (IF k - j + 2 \in 1..Len(b) THEN a[j] * b[k - j + 2] ELSE 0)
    IN  upto[Len(a)]

\* Each cross term once and doubled, then the square.
SquareColumn(a, k) ==
    LET upto[j \in 0..Len(a)] ==
            IF j = 0 THEN 0
            ELSE upto[j - 1] + (IF 2 * (j - 1) < k /\ k - j + 2 <= Len(a) THEN a[j] * a[k - j + 2] ELSE 0)
    IN  2 * upto[Len(a)] + (IF k % 2 = 0 THEN a[k \div 2 + 1] ^ 2 ELSE 0)

\* The sum t carried into the next column, and the multiples v so far.
Cleared(columns, c) ==
    LET nw == c.nw
        high[k \in Nat, t \in Nat, v \in Seq(Nat), out \in Seq(Nat)] ==
            IF k = 2 * nw - 1 THEN Append(out, Wrap(t))
            ELSE LET s == t + columns[k] + Dot(v, c.n, k) IN high[k + 1, s \div MASK, v, Append(out, s % MASK)]
        low[t \in Nat, v \in Seq(Nat)] ==
            LET k == Len(v)
            IN  IF k = nw THEN high[nw, t, v, <<>>]
                ELSE LET s == t + columns[k] + Dot(v, c.n, k)
                         q == (Wrap(s) * c.ndash) % MASK
                     IN  low[(s + q * c.n[1]) \div MASK, Append(v, q)]
    IN  low[0, <<>>]

modmul(a, b, c) == Cleared([k \in 0..(2 * c.nw - 2) |-> Dot(a, b, k)], c)
modsqr(a, c)    == Cleared([k \in 0..(2 * c.nw - 2) |-> SquareColumn(a, k)], c)

redc(a, c)      == modfsb(modmul(a, ToModq(1, c.nw), c), c.n)
modis0(a, c)    == \A i \in 1..c.nw : redc(a, c)[i] = 0
modcmp(a, b, c) == redc(a, c) = redc(b, c)

----------------------------------------------------------------------------
(* The context of a modulus.                                               *)

\* Mutated form of numwords_for: no room for the bounds below 2p.
NoHeadroom(bits) == (bits + RADIX - 2) \div RADIX

numwords_for(bits) == (bits + RADIX + 1) \div RADIX

\* -1/p modulo MASK: each turn doubles the bits that are right.
getndash(p0) ==
    LET a == MASK - (p0 % MASK)
        turn[i \in 0..6] == IF i = 0 THEN 1 ELSE LET x == turn[i - 1] IN Wrap(x * Wrap(2 - Wrap(a * x)))
    IN  turn[6] % MASK

Doubled(a, two, times) ==
    LET dbl[i \in Nat, b \in Seq(Nat)] == IF i = 0 THEN b ELSE dbl[i - 1, modadd(b, b, two)]
    IN  dbl[times, a]

\* A quotient digit from the leading digits of part and v, put right twice.
Trial(part, v, active) ==
    LET digit(x, i) == IF i < 0 THEN 0 ELSE (x \div MASK ^ i) % MASK
        top   == v \div MASK ^ (active - 1)
        first == digit(part, active) * MASK + digit(part, active - 1)
        q     == first \div top
        start == IF q >= MASK THEN <<q - 1, first - (q - 1) * top>> ELSE <<q, first - q * top>>
        Fixed(h) == IF h[2] < MASK /\ h[1] * digit(v, active - 2) > h[2] * MASK + digit(part, active - 2)
                    THEN <<h[1] - 1, h[2] + top>> ELSE h
    IN  Fixed(Fixed(start))[1]

\* 2^(RADIX nw) modulo 2p, by long division.
modone_div(two, nw, active) ==
    LET shift == RADIX - BitLength(two[active] % MASK)
        v     == FromModq(two) * 2 ^ shift
        rest[j \in Int, u \in Nat] ==
            IF j < 0 THEN u
            ELSE LET part == u \div MASK ^ j
                     r    == part - Trial(part, v, active) * v
                 IN  rest[j - 1, (IF r < 0 THEN (r + v) % MASK ^ (active + 1) ELSE r) * MASK ^ j
                                 + (u % MASK ^ j)]
    IN  ToModq(rest[nw + 1 - active, MASK ^ nw * 2 ^ shift] \div 2 ^ shift, nw)

modone(two) ==
    LET nw == Len(two)
    IN  IF nw > 1 /\ two[nw] % MASK # 0 THEN modone_div(two, nw, nw)
        ELSE IF nw > 2 /\ two[nw - 1] % MASK # 0 THEN modone_div(two, nw, nw - 1)
        ELSE Doubled(ToModq(1, nw), two, nw * RADIX)

\* ModCtx::new.
Context(p, bits) ==
    LET nw  == numwords_for(bits)
        n   == ToModq(p, nw)
        two == modshl(1, n)
    IN  [nw |-> nw, n |-> n, two |-> two, ndash |-> getndash(n[1]), one |-> modone(two),
         window |-> IF BitLength(p) <= SHORT THEN SLIDING[1] ELSE SLIDING[2]]

nresx(a, c) == Doubled(modadd(a, a, c.two), c.two, RADIX * c.nw - 1)
Mont(v, c)  == nresx(ToModq(v, c.nw), c)

----------------------------------------------------------------------------
(* Powers.                                                                 *)

\* The table of first, and that times x, x^2...
Powers(first, x, size, c) ==
    LET grown[t \in Seq(Seq(Nat))] ==
            IF Len(t) = size THEN t ELSE grown[Append(t, modmul(t[Len(t)], x, c))]
    IN  grown[<<first>>]

\* The entry found by selecting each in turn under a mask whose low bit is 0.
modcmv(b, g, f) ==
    LET w == Wrap(2 ^ (WORD - 1) + 90)
        keep == w + (IF b = 1 THEN 0 ELSE 1)
    IN  Once([i \in 1..Len(f) |->
                Wrap(Wrap(Wrap(keep * f[i]) + Wrap((b + w) * g[i])) - Wrap(w * Wrap(f[i] + g[i])))])

modtablelookup(table, index, a) ==
    LET from[i \in Nat, f \in Seq(Nat)] ==
            IF i = Len(table) THEN f
            ELSE from[i + 1, modcmv(IF index = i THEN 1 ELSE 0, table[i + 1], f)]
    IN  from[0, a]

Squared(a, times, c) ==
    LET sq[i \in Nat, b \in Seq(Nat)] == IF i = 0 THEN b ELSE sq[i - 1, modsqr(b, c)]
    IN  sq[times, a]

modxpowe_windowed(x, e, c) ==
    LET total  == RADIX * c.nw
        num    == (total + WINDOW_SIZE - 1) \div WINDOW_SIZE
        shiftr == num * WINDOW_SIZE - RADIX * (c.nw - 1) - WINDOW_SIZE
        table  == Powers(c.one, x, 2 ^ WINDOW_SIZE, c)
        turn[k \in Nat, s \in Seq(Nat), ee \in Seq(Nat), tmp \in Seq(Nat)] ==
            IF k = num THEN s
            ELSE LET found == modtablelookup(table, (ee[c.nw] \div 2 ^ shiftr) % 2 ^ WINDOW_SIZE, tmp)
                 IN  turn[k + 1, modmul(Squared(s, WINDOW_SIZE, c), found, c), modshl(WINDOW_SIZE, ee), found]
    IN  turn[0, c.one, ToModq(e, c.nw), ToModq(0, c.nw)]

\* Windows that start and end with a 1, and the odd powers of x.
modxpowe_non_ct(x, e, c) ==
    LET table == Powers(x, modsqr(x, c), 2 ^ (c.window - 1), c)
        wlen(i) == CHOOSE l \in 1..c.window :
                       /\ l <= i + 1 /\ BitAt(e, i - l + 1) = 1
                       /\ \A m \in (l + 1)..c.window : m <= i + 1 => BitAt(e, i - m + 1) = 0
        chosen(i) == table[(((e \div 2 ^ (i - wlen(i) + 1)) % 2 ^ wlen(i)) + 1) \div 2]
        run[i \in -1..30, s \in Seq(Nat)] ==
            IF i < 0 THEN s
            ELSE IF BitAt(e, i) = 0 THEN run[i - 1, modsqr(s, c)]
            ELSE run[i - wlen(i), modmul(Squared(s, wlen(i), c), chosen(i), c)]
        top == BitLength(e) - 1
    IN  IF e = 0 THEN c.one ELSE run[top - wlen(top), chosen(top)]

pow_mod(x, e, c) == FromModq(redc(modxpowe_windowed(Mont(x, c), e, c), c))

----------------------------------------------------------------------------
(* Square roots.                                                           *)

MinusOne(x, c) == modis0(modadd(modsqr(x, c), c.one, c.two), c)

\* Half of p - 1 without its twos, up.
OddPart(v) == v \div 2 ^ TwoAdic(v)

\* Modulo 3 mod 4: a power, which is checked.
sqrt_mod_p_3mod4(a, p, c) ==
    LET aa == Mont(a, c)
        ss == modxpowe_non_ct(aa, (p + 1) \div 4, c)
    IN  IF modcmp(modsqr(ss, c), aa, c) THEN <<FromModq(redc(ss, c))>> ELSE <<>>

\* The state of the Tonelli-Shanks loop: c of order 2^m, r^2 = a t.
Tonelli(a, z, p, c) ==
    LET q  == OddPart(p - 1)
        aa == Mont(a, c)
    IN  [c |-> modxpowe_non_ct(Mont(z, c), q, c), t |-> modxpowe_non_ct(aa, q, c),
         r |-> modxpowe_non_ct(aa, (q + 1) \div 2, c), m |-> TwoAdic(p - 1)]

\* Squarings until t is 1, or m of them.
OrderIn(t, m, c) ==
    LET is == {i \in 0..(m - 1) : modcmp(Squared(t, i, c), c.one, c)}
    IN  IF is = {} THEN m ELSE CHOOSE i \in is : \A j \in is : i <= j

TonelliTurn(s, i, c) ==
    LET b   == Squared(s.c, s.m - i - 1, c)
        bsq == modsqr(b, c)
    IN  [c |-> bsq, t |-> modmul(s.t, bsq, c), r |-> modmul(s.r, b, c), m |-> i]

\* A small prime with Jacobi symbol -1, or 0.
find_jacobi_minus_one(n) ==
    LET power(b, e, a) == LET p[i \in 0..e] == IF i = 0 THEN 1 ELSE (p[i - 1] * b) % a IN p[e]
        good == {i \in 1..Len(JACOBI_BASES) :
                    LET a == JACOBI_BASES[i]
                    IN  IF a = 2 THEN n % 8 = 5 ELSE n % a # 0 /\ power(n % a, (a - 1) \div 2, a) = a - 1}
    IN  IF good = {} THEN 0 ELSE JACOBI_BASES[CHOOSE i \in good : \A j \in good : i <= j]

\* k times a, by doublings and additions.
scale_small(a, k, c) ==
    LET acc[mag \in Nat, base \in Seq(Nat), sum \in Seq(Nat)] ==
            IF mag = 0 THEN sum
            ELSE acc[mag \div 2, modadd(base, base, c.two), IF mag % 2 = 1 THEN modadd(sum, base, c.two) ELSE sum]
        zero == ToModq(0, c.nw)
    IN  IF k < 0 THEN modsub(zero, acc[-k, a, zero], c.two) ELSE acc[k, a, zero]

sqrt_m1_mod_verified(n, c) ==
    LET a == find_jacobi_minus_one(n)
        x == modxpowe_non_ct(scale_small(c.one, a, c), n \div 4, c)
    IN  IF a # 0 /\ MinusOne(x, c) THEN <<FromModq(redc(x, c))>> ELSE <<>>

----------------------------------------------------------------------------
(* The test of primality.                                                  *)

\* The remainder of two words by one, d having its top bit, through
\* di = (2^(2 WORD) - 1) / d - 2^WORD.
rem_2by1_preinv(nh, nl, d, di) ==
    LET p    == nh * di
        ql   == Wrap(p + nl)
        qh   == Wrap(p \div 2 ^ WORD + nh + 1 + (IF ql < (p % 2 ^ WORD) THEN 1 ELSE 0))
        r    == Wrap(nl - Wrap(qh * d))
        back == IF r > ql THEN Wrap(r + d) ELSE r
    IN  IF back >= d THEN back - d ELSE back

Factors(qs) == LET prod[i \in 0..Len(qs)] == IF i = 0 THEN 1 ELSE prod[i - 1] * qs[i] IN prod[Len(qs)]

\* The remainder of n by a batch's product, word by word from the top.
mod_u64_preinv(n, d) ==
    LET s  == WORD - BitLength(d)
        dn == d * 2 ^ s
        di == (4 ^ WORD - 1) \div dn - 2 ^ WORD
        words == (BitLength(n) + WORD - 1) \div WORD
        down[i \in 0..words] ==     \* after the words from i up
            IF i = words THEN 0
            ELSE LET r == down[i + 1]
                     w == (n \div 2 ^ (WORD * i)) % 2 ^ WORD
                 IN  rem_2by1_preinv(r * 2 ^ s + w \div 2 ^ (WORD - s), Wrap(w * 2 ^ s), dn, di) \div 2 ^ s
    IN  down[0]

InSeq(qs) == {qs[i] : i \in 1..Len(qs)}
SievePrimes == InSeq(SPLIT) \cup UNION {InSeq(BATCHES[i]) : i \in 1..Len(BATCHES)}
SieveBound  == CHOOSE q \in SievePrimes : \A r \in SievePrimes : r <= q

sieve_fast(n) ==
    /\ \A q \in InSeq(SPLIT) : (n % Factors(SPLIT)) % q # 0
    /\ \A i \in 1..Len(BATCHES) : \A q \in InSeq(BATCHES[i]) :
           mod_u64_preinv(n, Factors(BATCHES[i])) % q # 0

sieve(n) ==
    IF BitLength(n) > SMALL THEN sieve_fast(n) ELSE \A q \in SievePrimes : n % q # 0 \/ n = q

reduce_once(a, c) == LET p == FromModq(c.n) v == FromModq(a) IN IF v >= p THEN v - p ELSE v
mont_equal(a, b, c) == reduce_once(a, c) = reduce_once(b, c)
half_mod(a, c) ==
    LET v == reduce_once(a, c)
    IN  ToModq((IF v % 2 = 1 THEN (v + FromModq(c.n)) % MASK ^ c.nw ELSE v) \div 2, c.nw)

\* A strong round: x^d is 1, or one of its first squares is -1.
mr_round(x, n, c) ==
    LET minus_one == modsub(ToModq(0, c.nw), c.one, c.two)
        y == modxpowe_non_ct(x, OddPart(n - 1), c)
        s == TwoAdic(n - 1)
        goes[i \in 0..s] == \* from the i-th square on
            IF i = s THEN FALSE
            ELSE \/ mont_equal(Squared(y, i, c), minus_one, c)
                 \/ ~mont_equal(Squared(y, i, c), c.one, c) /\ goes[i + 1]
    IN  mont_equal(y, c.one, c) \/ goes[0]

\* The Jacobi symbol of a modulo the odd n.
jacobi_u64(a, n) ==
    LET turn[u \in Nat, v \in Nat, sign \in {-1, 1}] ==
            IF u = 0 THEN IF v = 1 THEN sign ELSE 0
            ELSE LET k    == TwoAdic(u)
                     odd  == u \div 2 ^ k
                     two  == IF k % 2 = 1 /\ v % 8 \in {3, 5} THEN -sign ELSE sign
                     flip == IF v % 4 = 3 /\ odd % 4 = 3 THEN -two ELSE two
                 IN  turn[v % odd, odd, flip]
    IN  turn[a % n, n, 1]

perfect_square(n) ==
    /\ \A m \in {8, 3, 5, 7, 11, 13} : \E x \in 0..(m - 1) : (x * x) % m = n % m
    /\ \E r \in 1..n : r * r = n

\* The first of 5, 7, 9... whose symbol with n is -1; 0 if n is seen to be
\* composite before.
Discriminant(n) ==
    LET from[d \in Nat] ==
            IF d > 1000001 \/ n % d = 0 \/ jacobi_u64(n % d, d) = 0 THEN 0
            ELSE IF jacobi_u64(n % d, d) = -1 THEN d ELSE from[d + 2]
    IN  from[5]

\* The terms U and V of the Lucas sequence and the power of q, doubled, and
\* moved on by one for a bit 1.
Terms == [u : Seq(Nat), v : Seq(Nat), q : Seq(Nat)]
LucasDouble(l, c) ==
    [u |-> modmul(l.u, l.v, c),
     v |-> modsub(modsqr(l.v, c), modadd(l.q, l.q, c.two), c.two), q |-> modsqr(l.q, c)]
LucasNext(l, q, c) ==
    LET u == half_mod(modadd(l.u, l.v, c.two), c)
    IN  [u |-> u, v |-> modadd(u, scale_small(l.u, -2 * q, c), c.two),
         q |-> modmul(l.q, scale_small(c.one, q, c), c)]

strong_lucas(n, c) ==
    LET dabs == Discriminant(n)
        q    == IF (dabs \div 2) % 2 = 1 THEN dabs \div 4 + 1 ELSE -(dabs \div 4)
        d    == OddPart(n + 1)
        zero == ToModq(0, c.nw)
        term[pos \in Int, l \in Terms] ==
            IF pos < 0 THEN l
            ELSE term[pos - 1, IF BitAt(d, pos) = 1 THEN LucasNext(LucasDouble(l, c), q, c) ELSE LucasDouble(l, c)]
        vanishes[r \in Nat, l \in Terms] ==
            \/ mont_equal(l.v, zero, c)
            \/ r + 1 < TwoAdic(n + 1) /\ vanishes[r + 1, LucasDouble(l, c)]
        last == term[BitLength(d) - 2, [u |-> c.one, v |-> c.one, q |-> scale_small(c.one, q, c)]]
    IN  /\ ~perfect_square(n) /\ dabs # 0
        /\ mont_equal(last.u, zero, c) \/ vanishes[0, last]

\* probab_prime lowers the bound to the length of the number.
Tightened(n) == IF BitLength(n[1]) + 1 < n[2] THEN <<n[1], BitLength(n[1]) + 1>> ELSE n

----------------------------------------------------------------------------
(* What is asked, and the loops that answer.                               *)

\* ModCtx::new, of the number that is asked about.
NewContext(m) == ctx' = <<Context(m[1], m[2])>> /\ UNCHANGED <<ask, loop, reply>>
New == ask.op \notin {"none", "prime"} /\ ctx = <<>> /\ NewContext(ask.p)

c0        == ctx[1]
Asked(op) == ask.op = op /\ ctx # <<>> /\ reply = <<>>
Tells(r)  == reply' = <<r>> /\ UNCHANGED <<ask, ctx, loop>>
Goes(l)   == loop' = l /\ UNCHANGED <<ask, ctx, reply>>

\* All that one pair of residues below 2p is used for.
AddMultiply ==
    /\ Asked("sums")
    /\ LET a == ToModq(ask.a, c0.nw)
           b == ToModq(ask.b, c0.nw)
       IN  Tells(<<[add |-> FromModq(modadd(a, b, c0.two)), sub |-> FromModq(modsub(a, b, c0.two)),
                  mul |-> FromModq(modmul(a, b, c0)), sqr |-> FromModq(modsqr(a, c0)),
                  half |-> FromModq(half_mod(a, c0)), out |-> FromModq(redc(a, c0))]>>)

Exponentiate == Asked("power") /\ Tells(<<pow_mod(ask.a, ask.b, c0)>>)

RootByPower == Asked("root") /\ ask.p[1] % 4 = 3 /\ Tells(sqrt_mod_p_3mod4(ask.a, ask.p[1], c0))

IsSquare(a, p) == \E x \in 0..(p - 1) : (x * x) % p = a

\* A non-residue is drawn.
DrawNonResidue ==
    /\ Asked("root") /\ ask.p[1] % 4 = 1 /\ loop = <<>>
    /\ \E z \in {z \in 1..(ask.p[1] - 1) : ~IsSquare(z, ask.p[1])} :
          Goes(<<Tonelli(ask.a, z, ask.p[1], c0)>>)

TonelliShanks ==
    /\ Asked("root") /\ loop # <<>>
    /\ LET s == loop[1]
       IN  \E i \in {OrderIn(s.t, s.m, c0)} :
               IF i = 0 THEN Tells(<<FromModq(redc(s.r, c0))>>)
               ELSE IF i = s.m THEN Tells(<<>>)
               ELSE Goes(<<TonelliTurn(s, i, c0)>>)

\* What is drawn is taken as it is for a residue in Montgomery form.
DrawMinusOne ==
    /\ Asked("minus one")
    /\ \E x \in 0..ask.p[1] :
          \E y \in {modxpowe_non_ct(ToModq(x, c0.nw), ask.p[1] \div 4, c0)} :
             MinusOne(y, c0) /\ Tells(<<FromModq(redc(y, c0))>>)

Verified == Asked("verified") /\ Tells(sqrt_m1_mod_verified(ask.p[1], c0))

\* A root is then not found, and a number not prime, with no rounds left.
DrawFailed ==
    \/ Asked("root") /\ ask.p[1] % 4 = 1 /\ loop = <<>> /\ Tells(<<>>)
    \/ Asked("minus one") /\ Tells(<<>>)
    \/ Asked("prime") /\ loop # <<>> /\ loop' = <<0>> /\ reply' = <<<<FALSE>>>> /\ UNCHANGED <<ask, ctx>>

\* bpsw: the small numbers and the sieve; then the strong tests, and the
\* rounds that are left.
Bpsw ==
    /\ ask.op = "prime" /\ ctx = <<>> /\ reply = <<>>
    /\ LET n == ask.p[1]
       IN  IF n < 2 \/ (n > 3 /\ n % 2 = 0) THEN Tells(<<FALSE>>)
           ELSE IF n \in {2, 3} THEN Tells(<<TRUE>>)
           ELSE IF ~sieve(n) THEN Tells(<<FALSE>>)
           ELSE IF BitLength(n) <= SMALL /\ n <= SieveBound THEN Tells(<<TRUE>>)
           ELSE NewContext(Tightened(ask.p))

StrongTests ==
    /\ Asked("prime") /\ loop = <<>>
    /\ IF ~mr_round(modadd(c0.one, c0.one, c0.two), ask.p[1], c0) \/ ~strong_lucas(ask.p[1], c0)
       THEN Tells(<<FALSE>>)
       ELSE IF ask.reps <= FREE_ROUNDS THEN Tells(<<TRUE>>) ELSE Goes(<<ask.reps - FREE_ROUNDS>>)

Round ==
    /\ Asked("prime") /\ loop # <<>>
    /\ \E a \in 2..(ask.p[1] - 2) : a \in ask.draws /\
          IF ~mr_round(modmul(ToModq(a, c0.nw), nresx(c0.one, c0), c0), ask.p[1], c0) THEN Tells(<<FALSE>>)
          ELSE IF loop[1] = 1 THEN Tells(<<TRUE>>) ELSE Goes(<<loop[1] - 1>>)

ModqIdle == ask = [op |-> "none"] /\ ctx = <<>> /\ loop = <<>> /\ reply = <<>>
ModqInit == ask \in Questions /\ ctx = <<>> /\ loop = <<>> /\ reply = <<>>
ModqNext == \/ New \/ AddMultiply \/ Exponentiate \/ RootByPower \/ DrawNonResidue \/ TonelliShanks
            \/ DrawMinusOne \/ Verified \/ DrawFailed \/ Bpsw \/ StrongTests \/ Round

----------------------------------------------------------------------------
(* What the answers should be.                                             *)

PowerModulo(a, e, p) ==
    LET pw[i \in 0..e] ==
            IF i = 0 THEN 1 ELSE LET h == pw[i \div 2] IN (((h * h) % p) * (IF i % 2 = 1 THEN a ELSE 1)) % p
    IN  pw[e]
IsPrimeNumber(n) == n > 1 /\ \A d \in 2..(n - 1) : d * d > n \/ n % d # 0

\* Sums and products are congruent and below 2p, the reduced below p.
SumsRight(r) ==
    LET p == ask.p[1]
        radix == PowerModulo(2, RADIX * c0.nw, p)
    IN  /\ r.add < 2 * p /\ r.add % p = (ask.a + ask.b) % p
        /\ r.sub < 2 * p /\ r.sub % p = (ask.a - ask.b) % p
        /\ r.mul < 2 * p /\ (r.mul * radix) % p = ((ask.a % p) * (ask.b % p)) % p
        /\ r.sqr < 2 * p /\ (r.sqr * radix) % p = ((ask.a % p) * (ask.a % p)) % p
        /\ r.half < p /\ (2 * r.half) % p = ask.a % p
        /\ r.out < p /\ (r.out * radix) % p = ask.a % p

\* Modulo 1 mod 4 no root of 0 is found: no power of t is 1.
HasRoot(a, p) == IsSquare(a, p) /\ (a # 0 \/ p % 4 = 3)

\* At each turn of Tonelli-Shanks r^2 = a t, c has order 2^m, and t one that
\* is smaller unless a is no square.
TonelliSound ==
    LET p == ask.p[1]
        s == loop[1]
        Out(x) == FromModq(redc(x, c0))
        Raised(x, k) == PowerModulo(Out(x), 2 ^ k, p)
    IN  /\ (Out(s.r) * Out(s.r)) % p = (ask.a * Out(s.t)) % p
        /\ Raised(s.c, s.m - 1) = p - 1
        /\ HasRoot(ask.a, p) => Raised(s.t, s.m - 1) = 1

\* Whatever the number of limbs, the bounds and the draws: a sum or a product
\* is in the class and the range the next one counts on, a power is the
\* power, a root squares to what it is the root of and is missing only where
\* there is none, a root of -1 is one, and a number called prime is prime and
\* one called composite is not, unless the source of randomness failed.
ResidueRight ==
    /\ ask.op = "root" /\ loop # <<>> => TonelliSound
    /\ reply # <<>> =>
        LET p == ask.p[1]
            r == reply[1]
        IN  CASE ask.op = "sums"  -> SumsRight(r[1])
              [] ask.op = "power" -> r = <<PowerModulo(ask.a, ask.b, p)>>
              [] ask.op = "root"  ->
                    IF r = <<>> THEN (p % 4 = 1 /\ loop = <<>>) \/ ~HasRoot(ask.a, p)
                                ELSE r[1] < p /\ (r[1] * r[1]) % p = ask.a
              [] ask.op \in {"minus one", "verified"} ->
                    IF r = <<>> THEN ask.op = "minus one" \/ ~IsPrimeNumber(p)
                                ELSE r[1] < p /\ (r[1] * r[1]) % p = p - 1
              [] ask.op = "prime" -> r = <<IsPrimeNumber(p)>> \/ (r = <<FALSE>> /\ loop = <<0>>)
============================================================================
