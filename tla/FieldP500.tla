---------------------------- MODULE FieldP500 -----------------------------
(***************************************************************************)
(* The two backends of p = 27 2^500 - 1, crates/verify/src/fp/p500_27.rs and *)
(* p500_27_asm.rs: the code of RadixField and SaturatedField written out for *)
(* the number of limbs.  Here the primes are                               *)
(* 27 2^14 - 1 = 442367 in 3 limbs and 27 2^10 - 1 = 27647 in 2 words.     *)
(***************************************************************************)
EXTENDS Integers, Sequences

VARIABLES elt, due, agrees, left

K == INSTANCE RadixField WITH
        NLIMBS <- 3, RADIX <- 7, WORD <- 10, PTOP <- 27, BYTE <- 3,
        ENCODED_BYTES <- 7, TABLE <- 16, WINDOWS <- <<6, <<6, 15>>, <<5, 15>>, <<2, 1>>>>

S == INSTANCE SaturatedField WITH
        NLIMBS <- 2, WORD <- 10, P_PLUS_1_TOP <- 27, BITS <- 15, BYTE <- 3,
        ENCODED_BYTES <- 5, ONES_BITS <- 8, TAIL <- 26, asm_available <- FALSE

---------------------------------------------------------------------------
(* The unsaturated limbs.                                                  *)

modadd(a, b) == K!modadd(a, b)
modsub(a, b) == K!modsub(a, b)
modneg(a)    == K!modneg(a)
modmul(a, b) == K!modmul(a, b)
modsqr(a)    == K!modsqr(a)
modpro(w)    == K!modpro(w)
modinv(x)    == K!modinv(x)
modsqrt(x)   == K!modsqrt(x)
modqr(x)     == K!modqr(x)
modint(v)    == K!modint(v)
modmli(a, v) == K!modmli(a, v)
modis0(a)    == K!modis0(a)
modcmp(a, b) == K!modcmp(a, b)
modhalf(a)   == modmul(K!TWO_INV, a)
moddiv3(a)   == modmul(K!THREE_INV, a)

fp_encode(a)            == K!fp_encode(a)
fp_decode(bytes)        == K!fp_decode(bytes)
fp_decode_reduce(bytes) == K!fp_decode_reduce(bytes)
modcsw(a, b, ctl)       == LET s == K!modcsw(ctl, a, b, 19) IN <<s.g, s.f>>

RadixMul(a, b)  == K!fp2_mul(a, b)
RadixSqr(a)     == K!fp2_sqr(a)
RadixStored(a)  == K!Stored(a)
RadixInteger(a) == K!IntegerOf(a)

Radix == INSTANCE FieldCalls WITH
    P <- K!Modulus, R <- K!Factor, BYTE <- 3, ENCODED_BYTES <- 7,
    zero <- K!ZERO, one <- K!ONE, add <- modadd, sub <- modsub, neg <- modneg, mul <- modmul,
    sqr <- modsqr, inv <- modinv, sqrt <- modsqrt, exp3div4 <- modpro, half <- modhalf,
    div3 <- moddiv3, mul_small <- modmli, set_small <- modint, is_square <- modqr,
    is_equal <- modcmp, is_zero <- modis0, encode <- fp_encode, decode <- fp_decode,
    decode_reduce <- fp_decode_reduce, cswap <- modcsw, fp2_mul <- RadixMul, fp2_sqr <- RadixSqr,
    Stored <- RadixStored, IntegerOf <- RadixInteger,
    Encoded <- {0, 1, 442366, 442367, 2097151},
    Strings <- {<<>>, <<7>>, <<7, 7, 7, 7, 7, 7, 7>>, <<5, 0, 0, 0, 0, 0, 0, 0, 0, 0, 0, 0>>},
    Operands <- {1, 442366, 442367, 884733}, Wide <- {442366, 442368}, Small <- {0, 1023},
    Bounded <- TRUE, Calls <- 2

---------------------------------------------------------------------------
(* The saturated words.                                                    *)

mont_mul_asm(a, b)             == S!mont_mul_asm(a, b)
fp2_mul_re_asm(a, b)           == S!fp2_mul_re_asm(a, b)
fp2_mul_im_asm(a, b)           == S!fp2_mul_im_asm(a, b)
mont_mul_portable(a, b)        == S!mont_mul_portable(a, b)
mont_mul2_portable(a, b, c, d) == S!mont_mul2_portable(a, b, c, d)
fp2_mul_re_portable(a, b)      == S!fp2_mul_re_portable(a, b)

add_asm(a, b)         == S!add_asm(a, b)
sub_asm(a, b)         == S!sub_asm(a, b)
add_lazy_asm(a, b)    == S!add_lazy(a, b)
sub_lazy_2p_asm(a, b) == S!sub_lazy_2p(a, b)
neg(a)                == S!neg(a)
half(a)               == S!half(a)
div3(a)               == S!div3(a)
mont_mul(a, b)        == S!mont_mul(a, b)
sqr(a)                == S!mont_mul(a, a)
exp3div4(w)           == S!exp3div4(w)
inv(a)                == S!inv(a)
sqrt(a)               == S!sqrt(a)
is_square(a)          == S!is_square(a)
is_equal(a, b)        == S!is_equal(a, b)
is_zero(a)            == S!is_zero(a)
set_small(v)          == S!set_small(v)
mul_small(a, v)       == S!mul_small(a, v)
encode(a)             == S!encode(a)
decode(bytes)         == S!decode(bytes)
decode_reduce(bytes)  == S!decode_reduce(bytes)
cswap(a, b, ctl)      == S!cswap(a, b, ctl)
fp2_mul(a, b)         == S!fp2_mul(a, b)
fp2_sqr(a)            == S!fp2_sqr(a)
Stored(v)             == S!Stored(v)
Integer(v)            == v

Saturated == INSTANCE FieldCalls WITH
    P <- S!P, R <- S!ONE, BYTE <- 3, ENCODED_BYTES <- 5,
    zero <- 0, one <- S!ONE, add <- add_asm, sub <- sub_asm, mul <- mont_mul,
    IntegerOf <- Integer,
    Encoded <- {0, 1, 27646, 27647, 32767},
    Strings <- {<<>>, <<7>>, <<7, 7, 7, 7, 7>>, <<5, 0, 0, 0, 0, 0, 0, 0>>},
    Operands <- {1, 27646, 27647, 55293}, Wide <- {27646, 27648}, Small <- {0, 1023},
    Bounded <- TRUE, Calls <- 2

\* On what a product or a square hands to the kernels, unreduced sums and
\* differences included, both forms of a kernel give the same words.
SameProducts(a, b) ==
    LET pair == {[re |-> a, im |-> b], [re |-> b, im |-> a]}
        lazy == {a, b, add_lazy_asm(a, b), add_lazy_asm(a, a), sub_lazy_2p_asm(a, b)}
    IN  /\ \A s, t \in lazy : mont_mul_asm(s, t) = mont_mul_portable(s, t)
        /\ \A s, t \in pair :
              /\ fp2_mul_re_asm(s, t) = fp2_mul_re_portable(s, t)
              /\ fp2_mul_im_asm(s, t) = mont_mul2_portable(s.re, t.im, s.im, t.re)
===========================================================================
