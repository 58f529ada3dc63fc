----------------------------- MODULE BoundedInt ---------------------------
(***************************************************************************)
(* The bounded signed integers of crates/sqisign-rs/src/mp: limbs in two's *)
(* complement and a public bound on the length.  `limbs' are all the limbs *)
(* of the container read as one number, those above the active ones, which *)
(* an operation may leave behind, included.  Division is its quotient:     *)
(* module Division is about the routine.                                   *)
(***************************************************************************)
EXTENDS Integers

CONSTANTS
    W,   \* width of a limb, 64 in the code
    N    \* limbs of the container

ASSUME IntAssumption == W \in Nat /\ W >= 2 /\ N \in Nat /\ N >= 2

MaxBits == W * N

\* Of the powers of two that occur, for no prover here knows their law.
ASSUME IntPowers == 2 ^ 0 = 1 /\ \A k \in 0..(MaxBits + 1) : 2 ^ k \in Nat /\ 2 ^ (k + 1) = 2 * 2 ^ k

Least(a, b)    == IF a < b THEN a ELSE b
Greatest(a, b) == IF a < b THEN b ELSE a
Magnitude(v)   == IF v < 0 THEN -v ELSE v

\* What the limbs that hold `bits' bits can tell apart.
Width(bits)  == W * ((bits + W - 1) \div W)
Modulus(a)   == 2 ^ Width(a.bits)

Active(a)   == a.limbs % Modulus(a)
Stale(a)    == a.limbs - Active(a)
Negative(a) == 2 * Active(a) >= Modulus(a)
Value(a)    == IF Negative(a) THEN Active(a) - Modulus(a) ELSE Active(a)

\* A fresh result: v in the limbs that `bits' bits need, the others 0.
Fresh(v, bits) == [bits |-> bits, limbs |-> v % 2 ^ Width(bits)]

\* What truncation to bits b leaves of v.
Wrapped(v, b) == IF v % 2 ^ b >= 2 ^ (b - 1) THEN (v % 2 ^ b) - 2 ^ b ELSE v % 2 ^ b

\* Mutated form of Normalise: the sign is not copied into the top limb.
MaskOnly(a) == [a EXCEPT !.limbs = Stale(a) + (@ % 2 ^ a.bits)]

\* The top limb holds the sign above the bound again.
Normalise(a) == [a EXCEPT !.limbs = Stale(a) + (Wrapped(@, a.bits) % Modulus(a))]

FromBits(v, b) == Fresh(v % 2 ^ b, b + 1)

\* New limbs get the sign; limbs given up stay as they are.
SetBound(a, b) ==
    IF b = a.bits THEN a
    ELSE IF b > a.bits
    THEN [bits |-> b, limbs |-> a.limbs - (a.limbs % 2 ^ Width(b)) + (Value(a) % 2 ^ Width(b))]
    ELSE Normalise([a EXCEPT !.bits = Greatest(b, 1)])

Sum(a, b)  == Fresh(Value(a) + Value(b), Least(Greatest(a.bits, b.bits) + 1, MaxBits))
Difference(a, b) == Fresh(Value(a) - Value(b), Least(Greatest(a.bits, b.bits) + 1, MaxBits))

CNeg(a, neg) == Fresh(IF neg THEN -Active(a) ELSE Active(a), a.bits)
Abs(a)       == CNeg(a, Negative(a))

\* The magnitudes are multiplied into the container, the sign comes after.
Product(a, b) ==
    LET m == (Active(Abs(a)) * Active(Abs(b))) % 2 ^ MaxBits
    IN  CNeg([bits |-> Least(a.bits + b.bits - 1, MaxBits), limbs |-> m],
             Negative(a) # Negative(b))

\* The active limbs are shifted as an unsigned number.
DivPow2(a, e) ==
    IF e = 0 THEN a
    ELSE [bits |-> IF e < a.bits THEN a.bits - e ELSE 1, limbs |-> Stale(a) + (Active(a) \div 2 ^ e)]

MulPow2(a, e) ==
    IF e = 0 THEN a
    ELSE LET r == SetBound(a, Least(a.bits + e, MaxBits))
         IN  [r EXCEPT !.limbs = Stale(r) + ((Active(r) * 2 ^ e) % Modulus(r))]

ModPow2(a, e) ==
    LET r == SetBound(a, e + 1)
    IN  [r EXCEPT !.limbs = Stale(r) + (Active(r) % 2 ^ e)]

\* A small factor, and the bound the caller promises.
TimesSmall(a, b, bound) ==
    SetBound(CNeg([bits  |-> Width(bound),
                   limbs |-> (Active(Abs(a)) * Magnitude(b)) % 2 ^ Width(bound)],
                  Negative(a) # (b < 0)), bound)

Signs(a, q) == IF a THEN -q ELSE q

\* Quotient and remainder rounded towards zero.
Quotient(a, b)  == CNeg(Fresh(Magnitude(Value(a)) \div Magnitude(Value(b)), a.bits), Negative(a) # Negative(b))
Remainder(a, b) == CNeg(Fresh(Magnitude(Value(a)) % Magnitude(Value(b)), b.bits), Negative(a))

Modulo(a, b) ==
    LET r == Remainder(a, b)
    IN  IF ~Negative(r) THEN r
        ELSE IF Negative(b) THEN Difference(r, b) ELSE Sum(r, b)

\* The limb at place i, and the length of the magnitude as the code finds it:
\* from the first limb that is not all sign, one more bit for -2^k.
Limb(a, i) == (a.limbs \div 2 ^ (W * i)) % 2 ^ W
Length(d)  == CHOOSE k \in 0..W : d < 2 ^ k /\ (k = 0 \/ d >= 2 ^ (k - 1))

BitSize(a) ==
    LET sign == IF Negative(a) THEN 2 ^ W - 1 ELSE 0
        used == {i \in 0..(N - 1) : i < Width(a.bits) \div W /\ Limb(a, i) # sign}
        top  == CHOOSE i \in used : \A j \in used : j <= i
        flip == IF Negative(a) THEN sign - Limb(a, top) ELSE Limb(a, top)
        rest == \A i \in 0..(top - 1) : Limb(a, i) = 0
        d    == (IF Negative(a) /\ rest THEN flip + 1 ELSE flip) % 2 ^ W
    IN  IF used = {} THEN IF Negative(a) THEN 1 ELSE 0
        ELSE IF d = 0 THEN W * top + W + 1
        ELSE W * top + Length(d)

\* One more turn of invmod_2e: x is right to p bits, then to q.
Lifted(a, x, q) == ModPow2(Product(x, Difference(Fresh(2, 3), Product(a, x))), q)

\* Inverse modulo 2^e: the precision doubles from the one bit of 1 while it
\* stays below e, then goes to e.
InvPow2(a, e) ==
    LET x[k \in 0..e] == IF k = 0 THEN Fresh(1, 2) ELSE Lifted(a, x[k - 1], 2 ^ k)
        last == CHOOSE k \in 0..e : 2 ^ k < e /\ 2 ^ (k + 1) >= e
    IN  ModPow2(IF e = 1 THEN x[0] ELSE Lifted(a, x[last], e), e)
============================================================================
