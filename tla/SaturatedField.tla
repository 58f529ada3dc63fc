-------------------------- MODULE SaturatedField --------------------------
(***************************************************************************)
(* The x86-64 kernels of crates/verify/src/fp/p324_3_asm.rs, which         *)
(* tools/gen-fp-asm also writes, at other sizes, into p500_27_asm.rs and   *)
(* p664_17_asm.rs.  An element is an integer held in whole words, in       *)
(* Montgomery form and reduced lazily: below 2^BITS, which is below 2p.    *)
(* The multiplications have two forms, in assembly with two carry chains   *)
(* (adcx, adox) and portable; every other kernel has one.                  *)
(***************************************************************************)
EXTENDS Integers, Sequences

CONSTANTS
    NLIMBS,            \* 6, 8 and 11 in the code
    WORD,              \* width of a word, 64
    P_PLUS_1_TOP,      \* the only word of p + 1 that is not zero, the last
    BITS,              \* 326, 505 and 669
    BYTE,              \* bits of a byte, 8
    ENCODED_BYTES,
    ONES_BITS, TAIL,   \* (p - 3) / 4 = TAIL 2^ONES_BITS + 2^ONES_BITS - 1
    asm_available      \* what dispatch.rs answers

B    == 2 ^ WORD
R    == 2 ^ (WORD * NLIMBS)
P    == P_PLUS_1_TOP * 2 ^ (WORD * (NLIMBS - 1)) - 1
FOLD == NLIMBS - 1

\* What the constants of the three files have in common.
SaturatedFits ==
    /\ 2 ^ (BITS - 1) < P /\ P < 2 ^ BITS /\ 16 * P < R
    /\ P - 3 = 4 * ((TAIL + 1) * 2 ^ ONES_BITS - 1)
    /\ P < 2 ^ (BYTE * ENCODED_BYTES) /\ BYTE * ENCODED_BYTES <= WORD * NLIMBS

\* The words of an integer, least significant first, and the integer of words.
Words(v) == [i \in 1..NLIMBS |-> (v \div B ^ (i - 1)) % B]
RECURSIVE Sum(_, _)
Sum(t, i) == IF i > NLIMBS THEN 0 ELSE t[i] + B * Sum(t, i + 1)
Value(t) == Sum(t, 1)

---------------------------------------------------------------------------
(* The assembly: the accumulator is NLIMBS + 1 registers.                  *)

\* One row a w: the low halves go through one carry chain, the high halves,
\* a word higher, through the other, in which the first low half starts.
RECURSIVE MulxRow(_, _, _, _, _, _)
MulxRow(t, a, w, j, cf, of) ==
    IF j > NLIMBS THEN [t EXCEPT ![j] = (@ + cf) % B]
    ELSE LET low  == t[j] + ((a[j] * w) % B) + cf
             high == t[j + 1] + (a[j] * w) \div B + (IF j = 1 THEN low \div B ELSE of)
         IN  MulxRow([t EXCEPT ![j] = low % B, ![j + 1] = high % B], a, w, j + 1,
                     IF j = 1 THEN 0 ELSE low \div B, high \div B)

Row(t, a, w) == MulxRow(t, a, w, 1, 0, 0)

\* Mutated form of FoldAsm: the carry of the low half is dropped.
CarrylessFold(t) ==
    LET prod == t[1] * P_PLUS_1_TOP
    IN  Append(SubSeq([t EXCEPT ![FOLD + 1] = (@ + (prod % B)) % B,
                                ![FOLD + 2] = (@ + prod \div B) % B], 2, NLIMBS + 1), 0)

\* Add t[0] p and drop the low word.
FoldAsm(t) ==
    LET prod == t[1] * P_PLUS_1_TOP
        low  == t[FOLD + 1] + (prod % B)
    IN  Append(SubSeq([t EXCEPT ![FOLD + 1] = low % B,
                                ![FOLD + 2] = (@ + prod \div B + low \div B) % B], 2, NLIMBS + 1), 0)

Empty == Words(0) \o <<0>>

RECURSIVE RowsAsm(_, _, _)
RowsAsm(t, a, b) == IF b = <<>> THEN t ELSE RowsAsm(FoldAsm(Row(t, a, Head(b))), a, Tail(b))

RECURSIVE RowsAsm2(_, _, _, _, _)
RowsAsm2(t, a0, b0, a1, b1) ==
    IF b0 = <<>> THEN t
    ELSE RowsAsm2(FoldAsm(Row(Row(t, a0, Head(b0)), a1, Head(b1))), a0, Tail(b0), a1, Tail(b1))

mont_mul_asm(a, b) == Value(RowsAsm(Empty, Words(a), Words(b)))

\* 2p - b, in words.
Opposite(b) == (2 * P - b) % R

fp2_mul_re_asm(a, b) ==
    Value(RowsAsm2(Empty, Words(a.re), Words(b.re), Words(a.im), Words(Opposite(b.im))))
fp2_mul_im_asm(a, b) == Value(RowsAsm2(Empty, Words(a.re), Words(b.im), Words(a.im), Words(b.re)))

---------------------------------------------------------------------------
(* The portable form: one carry, in double words, and a second spare word. *)

RECURSIVE CarryRow(_, _, _, _, _)
CarryRow(t, a, w, j, carry) ==
    LET s == t[j] + carry
        p == t[j] + a[j] * w + carry
    IN  IF j > NLIMBS THEN [t EXCEPT ![j] = s % B, ![j + 1] = (@ + s \div B) % B]
        ELSE CarryRow([t EXCEPT ![j] = p % B], a, w, j + 1, p \div B)

fold_and_shift(t) ==
    LET prod == t[1] * P_PLUS_1_TOP
        s0 == t[FOLD + 1] + (prod % B)
        s1 == t[FOLD + 2] + prod \div B + s0 \div B
    IN  Append(SubSeq([t EXCEPT ![FOLD + 1] = s0 % B, ![FOLD + 2] = s1 % B,
                                ![FOLD + 3] = (@ + s1 \div B) % B], 2, NLIMBS + 2), 0)

RECURSIVE Rows(_, _, _)
Rows(t, a, b) ==
    IF b = <<>> THEN t ELSE Rows(fold_and_shift(CarryRow(t, a, Head(b), 1, 0)), a, Tail(b))

RECURSIVE Rows2(_, _, _, _, _)
Rows2(t, a0, b0, a1, b1) ==
    IF b0 = <<>> THEN t
    ELSE Rows2(fold_and_shift(CarryRow(CarryRow(t, a0, Head(b0), 1, 0), a1, Head(b1), 1, 0)),
               a0, Tail(b0), a1, Tail(b1))

mont_mul_portable(a, b) == Value(Rows(Append(Empty, 0), Words(a), Words(b)))
mont_mul2_portable(a0, b0, a1, b1) ==
    Value(Rows2(Append(Empty, 0), Words(a0), Words(b0), Words(a1), Words(b1)))
fp2_mul_re_portable(a, b) == mont_mul2_portable(a.re, b.re, a.im, Opposite(b.im))

mont_mul(a, b) == IF asm_available THEN mont_mul_asm(a, b) ELSE mont_mul_portable(a, b)

fp2_mul(a, b) ==
    IF asm_available THEN [re |-> fp2_mul_re_asm(a, b), im |-> fp2_mul_im_asm(a, b)]
    ELSE [re |-> fp2_mul_re_portable(a, b), im |-> mont_mul2_portable(a.re, b.im, a.im, b.re)]

---------------------------------------------------------------------------
(* Sums and differences.  The masks come from the bits from BITS up, which *)
(* for operands below 2^BITS are all 0 or all 1, or 0 or 1 after a sum.    *)

Masked(bits) == IF bits = 0 THEN 0 ELSE P

SubMasked(v) == (v - Masked(v \div 2 ^ BITS)) % R
AddMasked(v) == (v + Masked(v \div 2 ^ BITS)) % R

add_asm(a, b) == SubMasked(SubMasked((a + b) % R))
sub_asm(a, b) == AddMasked((((a - b) % R) + (IF a < b THEN P ELSE 0)) % R)

add_lazy(a, b)    == (a + b) % R
sub_lazy_2p(a, b) == (((a - b) % R) + 2 * P) % R

fp2_sqr(a) ==
    [re |-> mont_mul(add_lazy(a.re, a.im), sub_lazy_2p(a.re, a.im)),
     im |-> mont_mul(add_lazy(a.re, a.re), a.im)]

neg(a)  == sub_asm(0, a)
half(a) == ((IF a % 2 = 1 THEN a + P ELSE a) \div 2) % R

sub_p_masked(v, on) == IF on THEN (v - P) % R ELSE v
ge_mask(a, b)       == a >= b
Reduced(v)          == sub_p_masked(v, ge_mask(v, P))
canonical(v)        == Reduced(Reduced(v))

is_equal(a, b) == canonical(a) = canonical(b)
is_zero(a)     == canonical(a) = 0

---------------------------------------------------------------------------
(* Powers: the all-ones chain and a short tail.                            *)

RECURSIVE sqr_n(_, _)
sqr_n(x, n) == IF n = 0 THEN x ELSE sqr_n(mont_mul(x, x), n - 1)

\* acc is w^(2^cur - 1): double cur for each lower bit of k, add 1 if it is set.
RECURSIVE Doublings(_, _, _, _)
Doublings(acc, w, cur, bits) ==
    IF bits = <<>> THEN acc
    ELSE LET twice == mont_mul(sqr_n(acc, cur), acc)
         IN  IF Head(bits) = 1 THEN Doublings(mont_mul(mont_mul(twice, twice), w), w, 2 * cur + 1, Tail(bits))
             ELSE Doublings(twice, w, 2 * cur, Tail(bits))

\* The bits of k, the most significant first.
RECURSIVE Bits(_)
Bits(k) == IF k = 0 THEN <<>> ELSE Append(Bits(k \div 2), k % 2)

ones(w, k) == Doublings(w, w, 1, Tail(Bits(k)))

\* The constants of the file, in Montgomery form.
F == INSTANCE PrimeField
ONE       == R % P
R2        == F!Times(ONE, ONE)
THREE_INV == F!Times(F!Reciprocal(3), ONE)

RECURSIVE TailPower(_, _, _)
TailPower(v, u, bits) ==
    IF bits = <<>> THEN v
    ELSE LET s == mont_mul(v, v) IN TailPower(IF Head(bits) = 1 THEN mont_mul(s, u) ELSE s, u, Tail(bits))

FromOnes(t, w)  == mont_mul(TailPower(ONE, mont_mul(t, w), Bits(TAIL)), t)
exp3div4(w)     == FromOnes(ones(w, ONES_BITS), w)
FourthPower(z)  == sqr_n(z, 2)
inv(a)          == mont_mul(a, FourthPower(exp3div4(a)))
sqrt(a)         == mont_mul(a, exp3div4(a))
is_square(a)    == canonical(mont_mul(a, sqr_n(exp3div4(a), 1))) = ONE \/ is_zero(a)

---------------------------------------------------------------------------
(* Small multiples, bytes, swaps.                                          *)

set_small(v)    == mont_mul(v % B, R2)
div3(a)         == mont_mul(a, THREE_INV)
mul_small(a, v) == mont_mul(a, set_small(v))

RECURSIVE FromBytes(_)
FromBytes(bytes) == IF bytes = <<>> THEN 0 ELSE Head(bytes) + 2 ^ BYTE * FromBytes(Tail(bytes))

encode(a) ==
    LET x == canonical(mont_mul(a, 1)) IN [i \in 1..ENCODED_BYTES |-> (x \div 2 ^ (BYTE * (i - 1))) % 2 ^ BYTE]

\* The integer if it is below p, zero if not.
bytes_to_int(bytes) ==
    LET v == FromBytes(SubSeq(bytes, 1, ENCODED_BYTES))
    IN  [ok |-> ~ge_mask(v, P), value |-> IF ge_mask(v, P) THEN 0 ELSE v]

decode(bytes) ==
    LET d == bytes_to_int(bytes) IN [ok |-> d.ok, limbs |-> mont_mul(d.value, R2)]

CHUNK_BYTES == ENCODED_BYTES - 1
CHUNK_R     == F!Times(2 ^ (BYTE * CHUNK_BYTES) % P, ONE)

Chunk(bytes) ==
    mont_mul(bytes_to_int(bytes \o [i \in 1..(ENCODED_BYTES - Len(bytes)) |-> 0]).value, R2)

RECURSIVE Chunks(_, _)
Chunks(acc, bytes) ==
    IF bytes = <<>> THEN acc
    ELSE LET len == Len(bytes) - CHUNK_BYTES
         IN  Chunks(add_asm(mont_mul(acc, CHUNK_R), Chunk(SubSeq(bytes, len + 1, Len(bytes)))),
                    SubSeq(bytes, 1, len))

decode_reduce(bytes) ==
    LET rem  == Len(bytes) % CHUNK_BYTES
        rest == SubSeq(bytes, Len(bytes) - rem + 1, Len(bytes))
    IN  Chunks(IF rem = 0 THEN 0 ELSE Chunk(rest), SubSeq(bytes, 1, Len(bytes) - rem))

cswap(a, b, ctl)    == IF ctl = 1 THEN <<b, a>> ELSE <<a, b>>
select(a0, a1, ctl) == IF ctl THEN a1 ELSE a0

---------------------------------------------------------------------------
Stored(v) == v \in 0..(2 ^ BITS - 1)
=============================================================================
