------------------------------- MODULE Qlapoty -----------------------------
(***************************************************************************)
(* The norm equation of the ideal-to-isogeny translation                   *)
(* (quat/qlapoty.rs): two elements of the smallest ideal of a class whose  *)
(* norms sum to n 2^TwoExp.  The bounds decide whether a Gaussian integer  *)
(* k is drawn or fixed; the first loop tests k until one suits, the second *)
(* tries lambda = 1, 3, 5... until what remains is a prime and a sum of    *)
(* two squares.                                                            *)
(***************************************************************************)
EXTENDS Integers, Sequences, TLC

CONSTANTS
    LargeChar,           \* the characteristic
    TwoExp,         \* log2 of the sum of the two norms, over that of the ideal
    Smalls          \* smallest ideals of their classes, <<x, y, n>>

LOCAL INSTANCE Quaternions WITH Char <- LargeChar

VARIABLES small, step, work
qlvars == <<small, step, work>>

N == small[3]
root[n \in Nat] == CHOOSE r \in 0..n : r * r <= n /\ (r + 1) * (r + 1) > n
RootOf(n) == root[n]
prime[n \in Int] == n > 1 /\ \A d \in 2..root[n] : n % d # 0
Prime(n) == prime[n]
Bits(n) == CHOOSE b \in 0..31 : 2 ^ b > n /\ \A c \in 0..(b - 1) : 2 ^ c <= n
Least(a, b) == IF a < b THEN a ELSE b
IsOdd(a) == a % 2 = 1
Goto(r) == step' = r[1] /\ work' = r[2] /\ UNCHANGED small

\* u a + v b = 1 for coprime a and b.
Bezout(a, b) ==
    IF b = 0 THEN <<a, 0>>
    ELSE LET u == Inverse0(a, Magnitude(b)) IN <<u, Truncated(1 - u * a, b)>>

----------------------------------------------------------------------------
\* The triples that are ideals (the norm of the generator is divisible by n).
IsSmall(s) == (4 * s[1] * s[1] + (2 * s[2] + 1) * (2 * s[2] + 1) + LargeChar) % (4 * s[3]) = 0

\* The generator (2x + (2y + 1) i + j) / 2 and the lattice of the pairs
\* orthogonal to its Gaussian part modulo 4n; its reduction gives a shortest
\* vector.
Generator == Elem(2, 2 * small[1], 2 * small[2] + 1, 1, 0)
Pairing(z, gen) == gen.coord[1] * z[1] + gen.coord[2] * z[2]
InLattice(z, gen) == Pairing(z, gen) % (4 * N) = 0
ShortVectors ==
    LET r == RootOf(5 * N)
        S == {z \in (-r..r) \X (-r..r) : z # <<0, 0>> /\ InLattice(z, Generator)}
    IN  {z \in S : \A y \in S : SumTwoSquares(z) <= SumTwoSquares(y)}

\* initialize_bounds: the norm of k must lie between lo and hi.  A narrow
\* interval is widened by taking powers of 5 out of omega.
Available == Truncated((2 ^ (TwoExp + 3) - 16 * N) * N, LargeChar)
Lowest(len) == LET b == N \div 2 IN IF b % len = 0 THEN b \div len ELSE b \div len + 1
Highest(len) == Least(((5 * N) \div 2) \div len, Available \div 2)
Wide(lo, hi) == hi - lo > Bits(N) * Bits(N)

Fives(g) == LET limit == Bits(N) * Bits(N) * Bits(N) * Bits(N)
            IN  CHOOSE f \in 0..6 :
                    /\ g % (5 ^ f) = 0 /\ (f = 0 \/ 5 ^ (f - 1) < limit)
                    /\ ~(g % (5 ^ (f + 1)) = 0 /\ 5 ^ f < limit)
squared[f \in Nat, v \in Int \X Int] ==
    IF f <= 1 THEN v ELSE squared[f - 1, GaussianMul(v, v)]
FiveFactor(omega, f) ==
    squared[f, <<2, IF (2 * omega[1] - omega[2]) % 5 = 0 THEN -1 ELSE 1>>]

Widened(omega, f) ==
    LET len == SumTwoSquares(omega)
        o == <<omega[1] \div 5 ^ f, omega[2] \div 5 ^ f>>
        v == FiveFactor(o, f)
        lo == 5 ^ f * Lowest(len)
        hi == 5 ^ f * Highest(len)
    IN  [omega |-> IF f = 0 THEN omega ELSE GaussianMul(v, o),
         gen |-> IF f = 0 THEN Generator ELSE QMul(GaussElem(v), Generator),
         f |-> f, lo |-> lo, hi |-> hi, big |-> Wide(lo, hi)]

\* A short interval has its k fixed.
RootLow(lo) == LET r == RootOf(lo \div 2)
               IN  IF r * r # lo \div 2 /\ ~IsOdd(lo) THEN r + 1 ELSE r
FixedK(hi) ==
    LET r == RootOf(hi)
    IN  IF r <= 2 THEN <<1, 0>> ELSE IF r <= 4 THEN <<2, 1>>
        ELSE IF r <= 11 THEN <<4, 3>> ELSE <<>>

Bounded(omega) ==
    LET len == SumTwoSquares(omega)
        f == IF Wide(Lowest(len), Highest(len)) THEN 0 ELSE Fives(Gcd(omega[1], omega[2]))
        w == Widened(omega, f)
    IN  IF len * Available <= 2 * (N \div 2) THEN <<"none", <<>>>>
        ELSE <<"one", [k |-> FixedK(w.hi)] @@ w>>
Bounds == step = "bounds" /\ \E r \in {Bounded(z) : z \in ShortVectors} : Goto(r)

----------------------------------------------------------------------------
\* What the norm of k must be prime to.
Coprime(k) == Gcd(SumTwoSquares(k), IF work.big THEN N ELSE Gcd(work.omega[1], work.omega[2])) = 1

\* The tests on k, and the swaps that put its even part where 5^f wants it.
Fits(k) ==
    /\ IsOdd(k[1]) # IsOdd(k[2])
    /\ Gcd(k[1], k[2]) = 1
    /\ Coprime(k)
Arranged(k) ==
    LET s == IF IsOdd(k[1]) THEN <<k[2], k[1]>> ELSE k
    IN  IF IsOdd(work.f) THEN <<-s[2], s[1]>> ELSE s

\* Common Gaussian factors of conj(k) and omega are turned round.
turned[k \in Int \X Int] ==
    LET g == GaussianGcd(<<k[1], -k[2]>>, work.omega)
        m == SumTwoSquares(g)
        t == Over(GaussianMul(k, GaussianMul(g, g)), m)
    IN  IF m = 1 THEN t ELSE turned[t]

Alpha(k) == QMul(GaussElem(k), work.gen)
Primitive(k) == Gcd(N, Gcd(Alpha(k).coord[1], Alpha(k).coord[2])) = 1

\* A basis of the lattice of alpha that starts with st, its second vector
\* reduced by the first, and a vector whose product with alpha is 1.
ShortBasis(st, alpha) ==
    LET g == Gcd(alpha.coord[1], 4 * N)
        c == (-Inverse0(Truncated(alpha.coord[1], g), (4 * N) \div g) * alpha.coord[2]) % ((4 * N) \div g)
        x == Truncated(st[2], g)
        y == Truncated(g * st[1] - c * st[2], 4 * N)
        b == Bezout(x, y)
        second == <<-c * b[2] + ((4 * N) \div g) * b[1], -g * b[2]>>
        q == RoundedDiv(st[1] * second[1] + st[2] * second[2], SumTwoSquares(st))
    IN  <<<<st[1], second[1] - q * st[1]>>, <<st[2], second[2] - q * st[2]>>>>
UnitVector(alpha) ==
    LET a == alpha.coord[1]
        b == alpha.coord[2]
        g == Gcd(a, b)
        uv == Bezout(Truncated(a, g), Truncated(b, g))
        k == Inverse0(g, 4 * N)
    IN  <<(k * uv[1]) % (4 * N), (k * uv[2]) % (4 * N)>>

Entered(k) ==
    LET alpha == Alpha(k)
        st == GaussianMul(k, work.omega)
    IN  [alpha |-> alpha, st |-> st, basis |-> ShortBasis(st, alpha), unit |-> UnitVector(alpha),
         r |-> Norm(alpha)[1] \div N, lambda |-> -1]

\* A fixed k that is refused is tried again, as the test left it.
Next1(k) == IF Primitive(k) THEN <<"two", Entered(k)>> ELSE <<"one", [work EXCEPT !.k = k]>>
TryFixed ==
    /\ step = "one" /\ work.k # <<>>
    /\ \E r \in (IF Fits(work.k) THEN {Next1(k) : k \in {turned[Arranged(work.k)]}} ELSE {<<step, work>>}) : Goto(r)

\* A drawn k that is refused is drawn again; the source of randomness may
\* fail.
Drawn ==
    LET first == RootLow(work.lo)..RootOf(work.hi)
        Low(s) == IF work.lo > s
                  THEN LET r == RootOf(work.lo - s) IN IF r * r < work.lo - s THEN r + 1 ELSE r
                  ELSE 0
    IN  UNION {{<<a, b>> : b \in Low(a * a)..RootOf(work.hi - a * a)} : a \in first}
Suitable == {k \in {turned[Arranged(z)] : z \in {y \in Drawn : Fits(y)}} : Primitive(k)}
TryDrawn == step = "one" /\ work.k = <<>> /\ \E r \in {<<"two", Entered(k)>> : k \in Suitable} : Goto(r)
DrawFails == step = "one" /\ work.k = <<>> /\ Goto(<<"none", <<>>>>)

----------------------------------------------------------------------------
\* For one lambda: the right hand side, the vector of the lattice's coset
\* nearest to 0, and what the two squares must add up to.
Delta == IF IsOdd(work.r) THEN N ELSE 3 * N
Sum(lambda) == 2 ^ TwoExp - Delta - 2 * work.r * lambda * lambda
Nearest(lambda) ==
    LET n4 == 4 * N
        M == work.basis
        t == (Sum(lambda) * Inverse0(lambda, n4)) % n4
        v == <<(work.unit[1] * t) % n4, (work.unit[2] * t) % n4>>
        det == M[1][1] * M[2][2] - M[1][2] * M[2][1]
        a == RoundedDiv(M[2][2] * v[1] - M[1][2] * v[2], det)
        b == RoundedDiv(M[1][1] * v[2] - M[2][1] * v[1], det)
    IN  <<v[1] - M[1][1] * a - M[1][2] * b, v[2] - M[2][1] * a - M[2][2] * b>>
Quotient(lambda, v) == (Sum(lambda) + Delta - lambda * Pairing(v, work.alpha)) \div N
Remainder(lambda, v) == 2 * Quotient(lambda, v) - SumTwoSquares(v)

SquareRoots(z) ==
    IF ~Prime(z) THEN {}
    ELSE {y \in {<<x, RootOf(z - x * x)>> : x \in 0..RootOf(z)} :
              y[1] <= y[2] /\ SumTwoSquares(y) = z}

\* Mutated form of Matched: the squares stay as Cornacchia ordered them.
Unmatched(v, y) == y
Matched(v, y) == IF IsOdd(v[1]) = IsOdd(y[1]) THEN y ELSE <<y[2], y[1]>>

\* mu1 and mu2, with the squares swapped where the parities ask for it.
Answer(lambda, v, y) ==
    LET c == Matched(v, y)
        Part(s, t) == N * t + lambda * work.alpha.coord[s]
        Mu(sign) == Elem(2, Part(1, v[1] + sign * c[1]), Part(2, v[2] + sign * c[2]),
                         lambda * work.alpha.coord[3], lambda * work.alpha.coord[4])
        mu1 == Mu(1)
        mu2 == Mu(-1)
        bar == Conj(mu1)
    IN  [mu1 |-> mu1, mu2 |-> mu2, theta |-> QMul(mu2, [bar EXCEPT !.denom = @ * N])]

Tried(lambda) ==
    LET v == Nearest(lambda)
        z == Remainder(lambda, v)
        refused == \/ Gcd(lambda, 4 * N) # 1
                   \/ IsOdd(v[1]) = IsOdd(v[2])
                   \/ z < 0
                   \/ SquareRoots(z) = {}
    IN  IF refused THEN {<<"two", [work EXCEPT !.lambda = lambda]>>}
        ELSE {<<"found", Answer(lambda, v, y)>> : y \in SquareRoots(z)}
LastLambda == RootOf(2 ^ TwoExp \div work.r)
TryLambda == step = "two" /\ work.lambda <= LastLambda /\ \E r \in Tried(work.lambda + 2) : Goto(r)
NoLambda == step = "two" /\ work.lambda > LastLambda /\ Goto(<<"none", <<>>>>)

----------------------------------------------------------------------------
QlapotyIdle == small = <<>> /\ step = "idle" /\ work = <<>>
QlapotyInit == small \in Smalls /\ step = "bounds" /\ work = <<>>
QlapotyNext == Bounds \/ TryFixed \/ TryDrawn \/ DrawFails \/ TryLambda \/ NoLambda

QlapotySpec == QlapotyInit /\ [][QlapotyNext]_qlvars /\ WF_qlvars(QlapotyNext)

----------------------------------------------------------------------------
\* x is in the ideal of norm N when the product of x and the conjugate of
\* its generator is divisible by N.
InSmall(x) ==
    LET m == QMul(x, Conj(Generator))
    IN  InO0(x) /\ InO0([m EXCEPT !.denom = @ * N])
\* The assertions of the search: the short vector is in the lattice of the
\* generator it has become, starts a basis of it, and the quotient is exact.
SearchSound ==
    /\ InLattice(work.st, work.alpha)
    /\ Magnitude(work.basis[1][1] * work.basis[2][2] - work.basis[1][2] * work.basis[2][1]) = 4 * N
    /\ Pairing(work.unit, work.alpha) % (4 * N) = 1
Solved ==
    LET n1 == Norm(work.mu1)
        n2 == Norm(work.mu2)
    IN  /\ InSmall(work.mu1) /\ InSmall(work.mu2)
        /\ n1[2] = 1 /\ n2[2] = 1 /\ n1[1] + n2[1] = N * 2 ^ TwoExp
        /\ n1[1] % N = 0 /\ IsOdd(n1[1] \div N)
        /\ InO0(work.theta)

\* The first loop finds a k: of those it may draw one suits, and the fixed
\* one is not refused, for it would be tried again for ever.  The one way
\* it is refused, a big interval and a factor in common with n, is the
\* subject of QlapotyEnds.
KSuits ==
    IF work.k = <<>> THEN Suitable # {}
    ELSE \/ Fits(work.k) /\ Primitive(turned[Arranged(work.k)])
         \/ work.big /\ Gcd(SumTwoSquares(work.k), N) # 1

\* Whatever k and lambda led to it, an answer solves the equation: two
\* elements of the ideal whose norms sum to n 2^TwoExp, the quotient of the
\* first odd, and an integral theta.  The first loop never runs dry.
QlapotyRight ==
    /\ step = "two" => SearchSound
    /\ step = "found" => Solved
    /\ step = "one" => KSuits

\* The search ends, with an answer or with None.
QlapotyEnds == <>(step \in {"found", "none"})
============================================================================
