----------------------------- MODULE RadixField ---------------------------
(***************************************************************************)
(* The prime-field kernels of crates/verify/src/fp/p324_3.rs, which        *)
(* tools/gen-fp also writes, at other sizes, into p500_27.rs and           *)
(* p664_17.rs.  An element is a sequence of limbs, the least significant   *)
(* first, each with spare bits above its RADIX bits, in Montgomery form    *)
(* and reduced lazily.  The modulus is PTOP in the top limb minus 1.       *)
(***************************************************************************)
EXTENDS Integers, Sequences

CONSTANTS
    NLIMBS,         \* 6, 9 and 11 in the code
    RADIX,          \* 55, 57 and 61
    WORD,           \* width of a machine word, 64
    PTOP,           \* what p + 1 is in the top limb
    BYTE,           \* bits of a byte, 8
    ENCODED_BYTES,
    TABLE,          \* odd powers in modpro's table, 16
    WINDOWS         \* modpro's chain: the first entry, then squarings and the entry to multiply by

Modulus  == PTOP * 2 ^ (RADIX * (NLIMBS - 1)) - 1

\* What the constants of the three files have in common.
RadixFits ==
    /\ {NLIMBS, RADIX, WORD, PTOP, BYTE, ENCODED_BYTES, TABLE} \subseteq Nat \ {0}
    /\ NLIMBS >= 2 /\ BYTE < RADIX
    /\ 4 * PTOP < 2 ^ WORD /\ 4 * Modulus < 2 ^ (RADIX * NLIMBS)

MASK     == 2 ^ RADIX
Wrap(v)  == v % 2 ^ WORD
Signed(v) == IF v >= 2 ^ (WORD - 1) THEN v - 2 ^ WORD ELSE v
Limbs    == 1..NLIMBS

\* The limbs of an integer, and the integer of carried limbs.
ToLimbs(v) == [i \in Limbs |-> IF i = NLIMBS THEN v \div MASK ^ (NLIMBS - 1)
                                             ELSE (v \div MASK ^ (i - 1)) % MASK]
RECURSIVE Total(_, _)
Total(n, i) == IF i > NLIMBS THEN 0 ELSE n[i] + MASK * Total(n, i + 1)
IntegerOf(n) == Total(n, 1)

RECURSIVE CarryFrom(_, _, _)
CarryFrom(n, carry, done) ==
    LET i == Len(done) + 1
        t == Signed(Wrap(carry + n[i]))
    IN  IF i = NLIMBS THEN Append(done, Wrap(t))
        ELSE CarryFrom(n, t \div MASK, Append(done, t % MASK))

prop(n)     == CarryFrom(n, 0, <<>>)
Negative(n) == Signed(n[NLIMBS]) < 0

\* n + k p, with the carries left in the limbs.
PlusP(n, k) == [n EXCEPT ![1] = Wrap(@ - k), ![NLIMBS] = Wrap(@ + k * PTOP)]

\* Carry, add k p if that is negative, carry again.
Recover(n, k) == LET m == prop(n) IN prop(IF Negative(m) THEN PlusP(m, k) ELSE m)

flatten(n) == [limbs |-> Recover(n, 1), fixed |-> Negative(prop(n))]
modfsb(n)  == flatten(PlusP(n, -1))

modadd(a, b) == Recover(PlusP([i \in Limbs |-> Wrap(a[i] + b[i])], -2), 2)
modsub(a, b) == Recover([i \in Limbs |-> Wrap(a[i] - b[i])], 2)
modneg(b)    == Recover([i \in Limbs |-> Wrap(-b[i])], 2)

---------------------------------------------------------------------------
(* Multiplication: the columns of the schoolbook product, the low limb of  *)
(* each of the first NLIMBS added back NLIMBS - 1 columns higher.          *)

RECURSIVE Dot(_, _, _, _)
Dot(a, b, k, i) ==
    IF i >= NLIMBS \/ i > k THEN 0
    ELSE (IF k - i < NLIMBS THEN a[i + 1] * b[k - i + 1] ELSE 0) + Dot(a, b, k, i + 1)

Column(a, b, k) == Dot(a, b, k, 0)

\* Each cross term once and doubled, then the square.
RECURSIVE Cross(_, _, _)
Cross(a, k, i) ==
    IF 2 * i >= k THEN 0
    ELSE (IF k - i < NLIMBS THEN a[i + 1] * a[k - i + 1] ELSE 0) + Cross(a, k, i + 1)

SquareColumn(a, k) == 2 * Cross(a, k, 0) + (IF k % 2 = 0 THEN a[k \div 2 + 1] ^ 2 ELSE 0)

\* Mutated form of Fold: the first limb emitted is not added back.
LateFold(v, k) == IF k >= NLIMBS THEN v[k - NLIMBS + 2] * PTOP ELSE 0

Fold(v, k) == IF k >= NLIMBS - 1 THEN v[k - NLIMBS + 2] * PTOP ELSE 0

\* The limbs emitted from the columns cs, from the sum t carried so far.
RECURSIVE Columns(_, _, _)
Columns(cs, t, v) ==
    LET k == Len(v)
        s == (t + cs[k + 1] + Fold(v, k)) % 2 ^ (2 * WORD)
    IN  IF k = 2 * NLIMBS - 1 THEN SubSeq(v, NLIMBS + 1, k) \o <<Wrap(t)>>
        ELSE Columns(cs, s \div MASK, Append(v, s % MASK))

modmul(a, b) == Columns([k \in 1..(2 * NLIMBS - 1) |-> Column(a, b, k - 1)], 0, <<>>)
modsqr(a)    == Columns([k \in 1..(2 * NLIMBS - 1) |-> SquareColumn(a, k - 1)], 0, <<>>)

\* (No element is empty: the test has TLC evaluate one square at a time.)
RECURSIVE modnsqr(_, _)
modnsqr(a, n) == IF n = 0 \/ a = <<>> THEN a ELSE modnsqr(modsqr(a), n - 1)

---------------------------------------------------------------------------
(* Powers: the square-root progenitor w^((p-3)/4) by a table of odd powers *)
(* and a fixed chain of windows.                                           *)

RECURSIVE OddPowers(_, _)
OddPowers(tab, w2) ==
    IF Len(tab) = TABLE THEN tab ELSE OddPowers(Append(tab, modmul(tab[Len(tab)], w2)), w2)

RECURSIVE Chain(_, _, _)
Chain(z, tab, windows) ==
    IF windows = <<>> \/ z = <<>> THEN z
    ELSE Chain(modmul(modnsqr(z, windows[1][1]), tab[windows[1][2] + 1]), tab, Tail(windows))

modpro(w) == LET tab == OddPowers(<<w>>, modsqr(w)) IN Chain(tab[Head(WINDOWS) + 1], tab, Tail(WINDOWS))

modinv(x)  == modmul(x, modnsqr(modpro(x), 2))
modsqrt(x) == modmul(modpro(x), x)

\* The constants of the file, in Montgomery form.
F == INSTANCE PrimeField WITH P <- Modulus

Factor        == MASK ^ NLIMBS % Modulus
Montgomery(v) == ToLimbs(F!Times(v, Factor))

ZERO      == [i \in Limbs |-> 0]
ONE       == Montgomery(1)
TWO_INV   == Montgomery(F!Reciprocal(2))
THREE_INV == Montgomery(F!Reciprocal(3))
R2_NRES   == Montgomery(Factor)

nres(m) == modmul(m, R2_NRES)
redc(n) == modfsb(modmul(n, [ZERO EXCEPT ![1] = 1])).limbs

modis0(a)    == \A i \in Limbs : redc(a)[i] = 0
modis1(a)    == LET c == redc(a) IN c[1] = 1 /\ \A i \in Limbs \ {1} : c[i] = 0
modcmp(a, b) == redc(a) = redc(b)
modqr(x)     == modis1(modmul(modsqr(modpro(x)), x)) \/ modis0(x)

modint(v)    == nres([ZERO EXCEPT ![1] = v])
modmli(a, v) == modmul(a, modint(v))

---------------------------------------------------------------------------
(* Bytes, the least significant first.                                     *)

High(v, n) == v \div 2 ^ (RADIX - n)

modshl(a, n) ==
    [i \in Limbs |->
        LET low == IF i = 1 THEN 0 ELSE High(a[i - 1], n)
        IN  IF i = NLIMBS THEN Wrap(a[i] * 2 ^ n) + low ELSE ((a[i] * 2 ^ n) % MASK) + low]

modshr(a, n) ==
    [i \in Limbs |-> a[i] \div 2 ^ n
                     + (IF i = NLIMBS THEN 0 ELSE (a[i + 1] * 2 ^ (RADIX - n)) % MASK)]

RECURSIVE Emit(_, _)
Emit(c, out) ==
    IF Len(out) = ENCODED_BYTES THEN out
    ELSE Emit(modshr(c, BYTE), Append(out, c[1] % 2 ^ BYTE))

fp_encode(a) == Emit(redc(a), <<>>)

RECURSIVE Absorb(_, _)
Absorb(a, bytes) ==
    IF bytes = <<>> THEN a
    ELSE LET s == modshl(a, BYTE)
         IN  Absorb([s EXCEPT ![1] = Wrap(@ + bytes[Len(bytes)])], SubSeq(bytes, 1, Len(bytes) - 1))

fp_decode(bytes) ==
    IF Len(bytes) < ENCODED_BYTES THEN [ok |-> FALSE, limbs |-> ZERO]
    ELSE LET m == modfsb(Absorb(ZERO, SubSeq(bytes, 1, ENCODED_BYTES)))
         IN  [ok |-> m.fixed, limbs |-> IF m.fixed THEN nres(m.limbs) ELSE ZERO]

CHUNK_BYTES == ENCODED_BYTES - 1
CHUNK_R     == Montgomery(2 ^ (BYTE * CHUNK_BYTES) % Modulus)

\* A chunk, or what is left at the end, with zeros above it.
Padded(bytes) == bytes \o [i \in 1..(ENCODED_BYTES - Len(bytes)) |-> 0]

RECURSIVE Chunks(_, _)
Chunks(acc, bytes) ==
    IF bytes = <<>> THEN acc
    ELSE LET len   == Len(bytes) - CHUNK_BYTES
             chunk == fp_decode(Padded(SubSeq(bytes, len + 1, Len(bytes)))).limbs
         IN  Chunks(modadd(modmul(acc, CHUNK_R), chunk), SubSeq(bytes, 1, len))

fp_decode_reduce(bytes) ==
    LET rem  == Len(bytes) % CHUNK_BYTES
        rest == SubSeq(bytes, Len(bytes) - rem + 1, Len(bytes))
    IN  Chunks(IF rem = 0 THEN ZERO ELSE fp_decode(Padded(rest)).limbs, SubSeq(bytes, 1, Len(bytes) - rem))

\* The masks of the swap: any word will do for the blinding r.
modcsw(b, g, f, r) ==
    LET c0 == Wrap(1 - b + r)
        c1 == Wrap(b + r)
        mix(s, t) == Wrap(c0 * t + c1 * s - r * Wrap(s + t))
    IN  [g |-> [i \in Limbs |-> mix(f[i], g[i])], f |-> [i \in Limbs |-> mix(g[i], f[i])]]

select(a0, a1, ctl) == IF ctl THEN a1 ELSE a0

---------------------------------------------------------------------------
(* The product and the square in Fp2 that a backend has by default.        *)

fp2_mul(a, b) ==
    LET t1 == modmul(a.im, b.im)
        rr == modmul(a.re, b.re)
        t0 == modmul(modadd(a.re, a.im), modadd(b.re, b.im))
    IN  [re |-> modsub(rr, t1), im |-> modsub(modsub(t0, t1), rr)]

fp2_sqr(a) ==
    LET half == modmul(a.re, a.im)
    IN  [re |-> modmul(modadd(a.re, a.im), modsub(a.re, a.im)), im |-> modadd(half, half)]

\* Between calls: carried limbs and a value below 2p.
Stored(n) == /\ \A i \in Limbs \ {NLIMBS} : n[i] < MASK
             /\ IntegerOf(n) < 2 * Modulus
=============================================================================
