----------------------------- MODULE IntegerOps ---------------------------
(***************************************************************************)
(* Sequences of operations on two bounded integers, as the quaternion code *)
(* makes them, within what the documents of each operation and the tests   *)
(* of crates/sqisign-rs/tests/mp_props.rs allow, with the integer the      *)
(* result ought to be beside it.                                           *)
(***************************************************************************)
EXTENDS BoundedInt

CONSTANTS Values   \* operands to start from: the integer and its bound

ASSUME ValuesAssumption ==
    Values \subseteq Int \X (1..MaxBits) /\ \A v \in Values : Magnitude(v[1]) < 2 ^ (v[2] - 1)

VARIABLES
    x, y,    \* two integers
    want     \* what the value of x ought to be

ivars == <<x, y, want>>

OpsInit ==
    \E first, second \in Values : /\ x = Fresh(first[1], first[2]) /\ want = first[1]
                                 /\ y = Fresh(second[1], second[2])

Give(r, v) == x' = r /\ want' = v /\ y' = y

\* The bound of the result fits the container: "no honest computation ever
\* reaches the top".
AddOp == /\ Greatest(x.bits, y.bits) < MaxBits
         /\ \/ Give(Sum(x, y), Value(x) + Value(y))
            \/ Give(Difference(x, y), Value(x) - Value(y))

MulOp == /\ x.bits + y.bits - 1 <= MaxBits
         /\ Give(Product(x, y), Value(x) * Value(y))

NegOp == \/ Give(CNeg(x, TRUE), -Value(x))
         \/ Give(Abs(x), Magnitude(Value(x)))

\* The zero fill stays above the sign bit of the result's top limb, and the
\* floor is not -2^(b-1) for the bound b of the result.
Floors(a, e) ==
    LET b == IF e < a.bits THEN a.bits - e ELSE 1
    IN  \/ ~Negative(a)
        \/ Width(b) - 1 < Width(a.bits) - e /\ Magnitude(Value(a) \div 2 ^ e) < 2 ^ (b - 1)

ShiftOp ==
    \E e \in 0..MaxBits :
        \/ Floors(x, e) /\ Give(DivPow2(x, e), Value(x) \div 2 ^ e)
        \/ x.bits + e <= MaxBits /\ Give(MulPow2(x, e), Value(x) * 2 ^ e)

ModPow2Op ==
    \E e \in 0..(MaxBits - 1) : Give(ModPow2(x, e), Value(x) % 2 ^ e)

\* -2^(b-1) is "not representable": normalise does not fold it to 0.
SetBoundOp ==
    \E b \in 0..MaxBits :
        LET v == Wrapped(Value(x), Greatest(b, 1))
        IN  /\ Magnitude(v) < 2 ^ (Greatest(b, 1) - 1)
            /\ Give(SetBound(x, b), IF b > x.bits THEN Value(x) ELSE v)

SmallOp ==
    \E k \in {-3, 2}, b \in 1..MaxBits :
        /\ Magnitude(k * Value(x)) < 2 ^ (b - 1)
        /\ Give(TimesSmall(x, k, b), k * Value(x))

DivOp ==
    /\ Value(y) # 0
    /\ LET q == Magnitude(Value(x)) \div Magnitude(Value(y))
           r == Magnitude(Value(x)) % Magnitude(Value(y))
       IN  \/ Give(Quotient(x, y), Signs(Negative(x) # Negative(y), q))
           \/ Give(Remainder(x, y), Signs(Negative(x), r))
           \/ y.bits < MaxBits /\ Give(Modulo(x, y), Value(x) % Magnitude(Value(y)))

InvOp ==
    /\ Value(x) % 2 = 1
    /\ \E e \in 1..(MaxBits - 1) :
          Give(InvPow2(x, e), CHOOSE v \in 0..(2 ^ e - 1) : (v * Value(x)) % 2 ^ e = 1 % 2 ^ e)

Exchange == x' = y /\ y' = x /\ want' = Value(y)

OpsNext == AddOp \/ MulOp \/ NegOp \/ ShiftOp \/ ModPow2Op \/ SetBoundOp \/ SmallOp
           \/ DivOp \/ InvOp \/ Exchange

OpsSpec == OpsInit /\ [][OpsNext]_ivars

---------------------------------------------------------------------------
(* Properties.                                                             *)

\* After any sequence of operations the limbs below the bound stand for the
\* integer they ought to, strictly within the bound, and the length that is
\* found from the limbs is its own: what an operation leaves in the limbs
\* above its bound, or in the bits of the top limb above the sign, is never
\* read by the next one.
Exact ==
    /\ Value(x) = want
    /\ Magnitude(want) < 2 ^ (x.bits - 1)
    /\ BitSize(x) = CHOOSE k \in 0..MaxBits : Magnitude(want) < 2 ^ k /\ (k = 0 \/ Magnitude(want) >= 2 ^ (k - 1))
============================================================================
