---------------------------- MODULE KummerLine ----------------------------
(***************************************************************************)
(* x-only arithmetic of crates/verify/src/ec/point.rs on the 2-power       *)
(* torsion of one curve.  E[2^F] is Z/2^F x Z/2^F, a point of the Kummer   *)
(* line is a point of the curve up to sign, and the formulas do exactly    *)
(* what the products of coordinates in the code give, the cases where they *)
(* degenerate to (0 : 0) included.                                         *)
(***************************************************************************)
EXTENDS Integers

CONSTANTS F   \* the 2-power torsion of the curve is E[2^F]

ASSUME FAssumption == F \in Nat /\ F >= 2

Order   == 2 ^ F
Vectors == (0..(Order - 1)) \X (0..(Order - 1))

Plus(u, v)  == <<(u[1] + v[1]) % Order, (u[2] + v[2]) % Order>>
Times(n, u) == <<(n * u[1]) % Order, (n * u[2]) % Order>>
Neg(u)      == Times(-1, u)
Minus(u, v) == Plus(u, Neg(v))

\* What (X : Z) stands for: a point up to sign; (0 : 0); or, once a formula
\* was given a difference that is not its points', some other point.
Point(u)  == {u, Neg(u)}
Undefined == {}
Foreign   == {<<Order, Order>>}

Identity == Point(<<0, 0>>)             \* Z = 0
Origin   == Point(<<0, Order \div 2>>)  \* X = 0, the point (0, 0)

IsZero(p)            == p \in {Identity, Undefined}
HasZeroCoordinate(p) == p \in {Identity, Origin, Undefined}
IsTwoTorsion(p)      == p # Identity /\ \E u \in p : Times(2, u) = <<0, 0>>

Sums(p, q) == {Point(Plus(u, v)) : u \in p, v \in q}

\* P + Q from P - Q.  Handed P + Q instead it gives P - Q.  The products with
\* the coordinates of the difference lose a coordinate when it has a zero.
XAdd(p, q, d) ==
    IF Foreign \in {p, q, d} THEN Foreign
    ELSE IF Undefined \in {p, q, d} THEN Undefined
    ELSE IF d \notin Sums(p, q) THEN Foreign
    ELSE IF HasZeroCoordinate(d) THEN Undefined
    ELSE IF Sums(p, q) = {d} THEN d ELSE CHOOSE s \in Sums(p, q) : s # d

XDbl(p) == IF p = Foreign THEN Foreign ELSE {Times(2, u) : u \in p}

\* The curve: whether it is E0 (A = 0) and whether A24 is cached.  On E0
\* without a cache A24 is (1 : 0), and the product with its Z is 0.
Curves == [e0 : BOOLEAN, cached : BOOLEAN]

NormalizeA24(e) == [e EXCEPT !.cached = TRUE]

XDblA24(p, e) == IF e.cached THEN XDbl(p)
                 ELSE IF p = Foreign THEN Foreign
                 ELSE IF HasZeroCoordinate(p) THEN Undefined ELSE Origin
============================================================================
