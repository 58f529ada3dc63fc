---------------------------- MODULE Quaternions ---------------------------
(***************************************************************************)
(* The quaternion algebra (-1, -Char), its maximal order O0 with the basis *)
(* 1, i, (i + j)/2, (1 + k)/2, and the Gaussian integers inside it         *)
(* (quat/algebra.rs, quat/stdorder.rs, quat/dim2.rs).  An element is four  *)
(* numerators over 1, i, j, k and a denominator, not always in lowest      *)
(* terms, exactly as the code keeps it.  The integers are exact: that the  *)
(* bounded ones do not lose limbs is the question of IntegerOps.           *)
(***************************************************************************)
EXTENDS Integers, Sequences

CONSTANT Char      \* the characteristic

ASSUME CharAssumption == Char \in Nat /\ Char % 8 = 7

Elem(d, a, b, c, e) == [denom |-> d, coord |-> <<a, b, c, e>>]
GaussElem(uv) == Elem(1, uv[1], uv[2], 0, 0)
OneElem == Elem(1, 1, 0, 0, 0)

Magnitude(n) == IF n < 0 THEN -n ELSE n
\* div rounds towards 0.
Truncated(a, b) == LET q == Magnitude(a) \div Magnitude(b)
                   IN  IF (a < 0) = (b < 0) THEN q ELSE -q
gcd[a \in Nat, b \in Nat] == IF b = 0 THEN a ELSE gcd[b, a % b]
Gcd(a, b) == gcd[Magnitude(a), Magnitude(b)]
Content(v) == Gcd(Gcd(v[1], v[2]), Gcd(v[3], v[4]))
Over(v, n) == [t \in DOMAIN v |-> Truncated(v[t], n)]
Residues(v, n) == [t \in DOMAIN v |-> v[t] % n]

\* The inverse modulo n, 0 when there is none (invmod answers None).
inverse[a \in Int, n \in Nat] ==
    LET S == {b \in 0..(n - 1) : (a * b) % n = 1 % n}
    IN  IF S = {} THEN 0 ELSE CHOOSE b \in S : TRUE
Inverse0(a, n) == inverse[a, n]
Invertible(a, n) == Gcd(a, n) = 1

----------------------------------------------------------------------------
CoordMul(a, b) ==
    <<Char * (-(a[3] * b[3]) - a[4] * b[4]) + a[1] * b[1] - a[2] * b[2],
      Char * (a[3] * b[4] - a[4] * b[3]) + a[1] * b[2] + a[2] * b[1],
      a[1] * b[3] + a[3] * b[1] - a[2] * b[4] + a[4] * b[2],
      a[1] * b[4] + a[4] * b[1] - a[3] * b[2] + a[2] * b[3]>>
QMul(x, y) == [denom |-> x.denom * y.denom, coord |-> CoordMul(x.coord, y.coord)]

Conj(x) == [x EXCEPT !.coord = <<@[1], -@[2], -@[3], -@[4]>>]

\* The reduced norm in lowest terms: numerator and denominator.
Norm(x) ==
    LET c == x.coord
        n == Char * (c[3] * c[3] + c[4] * c[4]) + c[1] * c[1] + c[2] * c[2]
        g == Gcd(n, x.denom * x.denom)
    IN  <<n \div g, (x.denom * x.denom) \div g>>

Normalize(x) ==
    LET g == Gcd(Content(x.coord), x.denom)
        s == IF x.denom < 0 THEN -1 ELSE 1
    IN  [denom |-> s * Truncated(x.denom, g),
         coord |-> [t \in 1..4 |-> s * Truncated(x.coord[t], g)]]

\* Coordinates in O0's basis, and back.
InO0(x) == \A n \in {2 * x.coord[3], 2 * x.coord[4], x.coord[1] - x.coord[4],
                     x.coord[2] - x.coord[3]} : n % x.denom = 0
ToO0Basis(x) ==
    Over(<<x.coord[1] - x.coord[4], x.coord[2] - x.coord[3], 2 * x.coord[3],
           2 * x.coord[4]>>, x.denom)
FromO0Basis(v) == Elem(2, 2 * v[1] + v[4], 2 * v[2] + v[3], v[3], v[4])
ModO0(x, m) == FromO0Basis(Residues(ToO0Basis(x), m))

\* content * primitive, in the coordinates of O0.
ContentOf(x) == Content(ToO0Basis(x))
MakePrimitive(x) ==
    LET v == ToO0Basis(x)
    IN  IF Content(v) = 0 THEN v ELSE Over(v, Content(v))

----------------------------------------------------------------------------
GaussianMul(a, b) ==
    LET r == (a[1] + a[2]) * b[1]
        s == (a[1] - a[2]) * b[2]
        t == (b[1] + b[2]) * a[2]
    IN  <<r - t, t + s>>
SumTwoSquares(a) == a[1] * a[1] + a[2] * a[2]

\* Rounded to the nearest, ties towards 0 as the remainder decides.
RoundedDiv(a, b) ==
    LET q == Truncated(a, b)
        r == a - q * b
        s == IF (a < 0) = (b < 0) THEN 1 ELSE -1
    IN  IF 2 * Magnitude(r) > Magnitude(b) THEN q + s ELSE q

GaussianSub(a, p) == <<a[1] - p[1], a[2] - p[2]>>
RoundedQuotient(t, n) == <<RoundedDiv(t[1], n), RoundedDiv(t[2], n)>>
GaussianRemainder(a, b) ==
    GaussianSub(a, GaussianMul(RoundedQuotient(GaussianMul(<<b[1], -b[2]>>, a), SumTwoSquares(b)), b))

gaussianGcd[a \in Int \X Int, b \in Int \X Int] ==
    IF b = <<0, 0>> THEN a ELSE gaussianGcd[b, GaussianRemainder(a, b)]
GaussianGcd(a, b) == IF a = <<0, 0>> THEN gaussianGcd[b, a] ELSE gaussianGcd[a, b]
============================================================================
