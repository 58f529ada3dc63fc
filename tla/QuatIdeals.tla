----------------------------- MODULE QuatIdeals ---------------------------
(***************************************************************************)
(* Left O0-ideals in inert normal form (quat/ideal.rs): an ideal of norm n *)
(* generated by n and (2x + (2y + 1)i + j)/2 is the triple (x, y, n), and  *)
(* one that has no such form is an inert ideal times a Gaussian integer,   *)
(* its split part.  Creation from a generator, intersection, the product   *)
(* conj(a) b with its Gram matrix, and the draw of a random ideal of prime *)
(* norm are each one step from a posed task to its outcome.                *)
(***************************************************************************)
EXTENDS Quaternions, FiniteSets

CONSTANTS
    Norms,          \* odd norms of the ideals drawn
    OddNorms,       \* norms of the ideals created from a generator
    Coefficients,   \* coordinates in O0 of the generators
    Splits          \* split parts

VARIABLES task, outcome
qvars == <<task, outcome>>

Nothing == [none |-> TRUE]
FromXYN(x, y, n) == [x |-> x, y |-> y, norm |-> n]

----------------------------------------------------------------------------
\* The basis of the ideal as columns over the denominator 2.
Columns(I) ==
    LET n2 == 2 * I.norm
        y2 == 2 * I.y + 1
    IN  <<<<n2, 0, 0, 0>>, <<0, n2, 0, 0>>, <<2 * I.x, y2, 1, 0>>, <<n2 - y2, 2 * I.x, 0, 1>>>>
BasisElem(B, t) == [denom |-> 2, coord |-> B[t]]
OddInertGen(I) == Elem(2, 2 * I.x, 2 * I.y + 1, 1, 0)

\* Membership in a lattice with a triangular basis over the denominator 2:
\* the coordinates are found from the last one back.
LatticeHas(B, x) ==
    LET Minus(v, t) == LET q == Truncated(v[t], x.denom * B[t][t])
                       IN  [s \in 1..4 |-> v[s] - q * x.denom * B[t][s]]
        v4 == [s \in 1..4 |-> 2 * x.coord[s]]
        v3 == Minus(v4, 4)
        v2 == Minus(v3, 3)
        v1 == Minus(v2, 2)
        v0 == Minus(v1, 1)
    IN  v3[4] = 0 /\ v2[3] = 0 /\ v1[2] = 0 /\ v0[1] = 0

----------------------------------------------------------------------------
\* InertGenToIdOdd.  The part q of the norm prime to s = c^2 + d^2 moves a
\* generator without an inert form to one with it.
coprimePart[q \in Nat, s \in Nat] ==
    IF Gcd(q, s) = 1 THEN q ELSE coprimePart[q \div Gcd(q, s), s]
Moved(t, n, s) ==
    LET m == QMul(Elem(1, coprimePart[n, s], 0, 1, 0), t)
    IN  Normalize([m EXCEPT !.coord = Residues(@, n)])
Squares(t) == t.coord[3] * t.coord[3] + t.coord[4] * t.coord[4]
Settled(t, n) == IF Gcd(n, Squares(t) % n) = 1 THEN t ELSE Moved(t, n, Squares(t) % n)
InertTriple(t, s, k, n) ==
    LET g == GaussianMul(<<t.coord[1], t.coord[2]>>, <<t.coord[3], -t.coord[4]>>)
    IN  IF ~Invertible(s, n) THEN Nothing
        ELSE FromXYN(((g[1] % n) * k) % n, (((g[2] - s) % n) * k) % n, n)
InertForm(t, n) == InertTriple(t, Squares(t) % n, Inverse0(2 * (Squares(t) % n), n), n)
CreateInertOdd(gen, n) == InertForm(Settled([ModO0(Normalize(gen), n) EXCEPT !.denom = 1], n), n)

\* GenToIdOdd: the split part u + vi is a Gaussian gcd of the two halves of
\* the generator and the norm.
SplitPart(t, n) ==
    LET uv == GaussianGcd(GaussianGcd(<<t.coord[1], t.coord[2]>>,
                                      <<t.coord[3], -t.coord[4]>>), <<n, 0>>)
    IN  IF uv \in {<<0, 1>>, <<0, -1>>} THEN <<1, 0>> ELSE uv
WithSplit(t, uv, n) ==
    LET m == QMul(t, Elem(SumTwoSquares(uv), uv[1], -uv[2], 0, 0))
    IN  [ideal |-> CreateInertOdd(Normalize(ModO0(m, n)), n \div SumTwoSquares(uv)),
         split |-> GaussElem(uv)]
SplitOff(t, n) == WithSplit(t, SplitPart(t, n), n)
CreateOdd(gen, n) == SplitOff([Normalize(ModO0(gen, n)) EXCEPT !.denom = 1], n)

\* GenToIdPowTwo: None when i + 1 is in the ideal modulo 2.
Even(a) == a % 2 = 0
Unbalanced(t, n) ==
    IF Even(ToO0Basis(t)[3]) # Even(ToO0Basis(t)[4]) THEN t
    ELSE ModO0(Normalize(QMul(Elem(2, 0, 1, 1, 0), t)), n)
ThirdEven(t, n) == IF Even(ToO0Basis(t)[3]) THEN t ELSE ModO0(QMul(Elem(1, 0, 1, 0, 0), t), n)
PowTwoTriple(w, k, n) ==
    FromXYN((k * ((w[1] * w[3] + w[2] * w[4] + w[3] * w[4]) % n)) % n,
            (k * ((w[2] * w[3] - w[1] * w[4] - w[4] * w[4]) % n)) % n, n)
PowTwoForm(w, n) == PowTwoTriple(w, Inverse0(w[3] * w[3] + w[4] * w[4], n), n)
NoPowTwoForm(v) == Even(v[3]) = Even(v[4]) /\ (Even(v[3]) \/ Even(v[1]) = Even(v[2]))
PowTwoOf(t, n) ==
    IF n = 1 THEN FromXYN(0, 1, 1)
    ELSE IF NoPowTwoForm(ToO0Basis(t)) THEN Nothing
    ELSE PowTwoForm(ToO0Basis(ThirdEven(Unbalanced(t, n), n)), n)
CreatePowTwo(gen, n) == PowTwoOf(ModO0(Normalize(gen), n), n)

----------------------------------------------------------------------------
Crt(a, b, m, n) == CHOOSE z \in 0..(m * n - 1) : z % m = a % m /\ z % n = b % n

\* Mutated form of Twisted: the split part is applied once, not squared.
TwistedOnce(b, split) ==
    LET u == split.coord[1]
        v == split.coord[2]
        z == Residues(GaussianMul(<<2 * b.x, 2 * b.y + 1>>, <<u, -v>>), 2 * b.norm)
        k == Inverse0(u * u + v * v, b.norm)
    IN  <<((z[1] \div 2) * k) % b.norm, (((z[2] - u * u - v * v) \div 2) * k) % b.norm>>

\* The inert form of b moved by the split part of a.
Twisted(b, split) ==
    LET u == split.coord[1]
        v == split.coord[2]
        t == 2 * b.norm
        w == Residues(GaussianMul(<<u, -v>>, <<u, -v>>), t)
        z == Residues(GaussianMul(<<2 * b.x, 2 * b.y + 1>>, w), t)
        k == Inverse0(u * u + v * v, b.norm)
    IN  <<((z[1] \div 2) * k) % b.norm, (((z[2] - u * u - v * v) \div 2) * k) % b.norm>>
Intersect(a, b, split) ==
    LET xy == IF split = OneElem THEN <<b.x, b.y>> ELSE Twisted(b, split)
    IN  FromXYN(Crt(a.x, xy[1], a.norm, b.norm), Crt(a.y, xy[2], a.norm, b.norm),
                a.norm * b.norm)

\* conj(a) b, with Bezout coefficients of the two norms.
MulO0(a, b) ==
    LET m == a.norm
        n == b.norm
        u == Inverse0(m, n)
        v == (1 - u * m) \div n
        x1 == n * (-(v * 2 * a.x) % (2 * m))
        x2 == m * ((u * 2 * b.x) % (2 * n))
        y1 == n * (-(v * (2 * a.y + 1)) % (2 * m))
        y2 == m * ((u * (2 * b.y + 1)) % (2 * n))
    IN  <<<<2 * m * n, 0, 0, 0>>, <<0, 2 * m * n, 0, 0>>, <<x2 + x1, y2 - y1, 1, 0>>,
          <<-(y2 + y1), x2 - x1, 0, 1>>>>

\* The Gram matrix of the product, divided by its norm, read off the basis.
ProductGram(B) ==
    LET ax2 == (B[3][1] - B[4][2]) \div 2
        bx2 == (B[3][1] + B[4][2]) \div 2
        by == -(B[4][1] + B[3][2]) \div 2
        ay == (B[3][2] - B[4][1]) \div 2
        n == B[1][1] \div 2
        g33 == ((ax2 + bx2) * (ax2 + bx2) + (ay - by) * (ay - by) + Char) \div B[1][1]
        g44 == 2 * ((ay * by - ax2 * bx2) \div n) + g33
        g34 == (ay * by + ax2 * bx2 - (ax2 + by) * (bx2 + ay)) \div n
    IN  <<<<B[1][1], 0, ax2 + bx2, -(ay + by)>>, <<0, B[1][1], ay - by, bx2 - ax2>>,
          <<ax2 + bx2, ay - by, g33, g34>>, <<-(ay + by), bx2 - ax2, g34, g44>>>>

----------------------------------------------------------------------------
\* PrimeNormIdealInertSampling: x is drawn until -(Char + (2x)^2) is a square,
\* its root is one of two, and the answer takes one more bit.
RightHandSide(x, n) == -(Char + 4 * x * x) % (4 * n)
Accepted(x, n) ==
    LET r == RightHandSide(x, n) % n
    IN  /\ \E z \in 1..(n - 1) : (z * z) % n = r
        /\ r # 0
        /\ RightHandSide(x, n) % 4 < 2
DrawnIdeal(x, root, negated, n) ==
    LET y == Crt(RightHandSide(x, n) % 2, root, 4, n)
        y2 == (IF negated THEN -y ELSE y) % (2 * n)
    IN  FromXYN(x, (y2 - 1) \div 2, n)

Draw ==
    /\ task.op = "draw" /\ outcome = Nothing
    /\ \E x \in 0..(task.n - 1), root \in 0..(task.n - 1), negated \in BOOLEAN :
          /\ Accepted(x, task.n)
          /\ (root * root) % task.n = RightHandSide(x, task.n) % task.n
          /\ outcome' = DrawnIdeal(x, root, negated, task.n)
    /\ UNCHANGED task

Create ==
    /\ task.op = "create" /\ outcome = Nothing
    /\ outcome' = CreateOdd(task.gen, task.n)
    /\ UNCHANGED task
Meet ==
    /\ task.op = "meet" /\ outcome = Nothing
    /\ outcome' = Intersect(task.a, task.b, task.split)
    /\ UNCHANGED task
Product ==
    /\ task.op = "product" /\ outcome = Nothing
    /\ LET B == MulO0(task.a, task.b)
       IN  outcome' = [basis |-> B, gram |-> ProductGram(B)]
    /\ UNCHANGED task

----------------------------------------------------------------------------
\* An inert triple is an ideal when n divides the norm of its generator.
IsIdeal(I) == (4 * I.x * I.x + (2 * I.y + 1) * (2 * I.y + 1) + Char) % (4 * I.norm) = 0
IdealsOf(n) == {I \in {FromXYN(x, y, n) : x, y \in 0..(n - 1)} : IsIdeal(I)}

Generators(n) ==
    {g \in {FromO0Basis(v) : v \in Coefficients \X Coefficients \X Coefficients \X Coefficients} :
        /\ ContentOf(g) # 0 /\ Gcd(ContentOf(g), n) = 1
        /\ Norm(g)[1] % n = 0}

Tasks ==
    [op : {"draw"}, n : Norms]
    \cup UNION {[op : {"create"}, n : {n}, gen : Generators(n)] : n \in OddNorms}
    \cup UNION {[op : {"product"}, a : IdealsOf(m), b : IdealsOf(n)] :
                   <<m, n>> \in {z \in Norms \X Norms : Gcd(z[1], z[2]) = 1}}
    \cup UNION {[op : {"meet"}, a : IdealsOf(m), b : IdealsOf(n),
                 split : {s \in Splits : Gcd(Norm(s)[1], n) = 1}] :
                   <<m, n>> \in {z \in (Norms \cup {2, 4}) \X Norms : Gcd(z[1], z[2]) = 1}}

IdealsIdle == task = Nothing /\ outcome = Nothing
IdealsInit == task \in Tasks /\ outcome = Nothing
IdealsNext == task # Nothing /\ (Draw \/ Create \/ Meet \/ Product)

----------------------------------------------------------------------------
CreatedRight ==
    LET I == outcome.ideal
        s == outcome.split
        n == Norm(s)[1]
    IN  /\ IsIdeal(I) /\ I.norm * n = task.n
        /\ LatticeHas(Columns(I), QMul(task.gen, [Conj(s) EXCEPT !.denom = n]))
MetRight ==
    /\ IsIdeal(outcome) /\ outcome.norm = task.a.norm * task.b.norm
    /\ \A t \in 1..4 :
          /\ LatticeHas(Columns(task.a), BasisElem(Columns(outcome), t))
          /\ LatticeHas(Columns(task.b), QMul(BasisElem(Columns(outcome), t), task.split))
\* 1, i, j/2 + ... and their sums tell the whole quadratic form.
Probes == {<<1, 0, 0, 0>>, <<0, 0, 1, 0>>, <<0, 0, 0, 1>>, <<1, 1, 1, 1>>, <<2, -1, 1, 3>>, <<1, 0, -1, 2>>}
ProductRight ==
    LET B == outcome.basis
        n == task.a.norm * task.b.norm
        Combined(v) == [denom |-> 2, coord |-> [s \in 1..4 |-> B[1][s] * v[1] + B[2][s] * v[2]
                                                            + B[3][s] * v[3] + B[4][s] * v[4]]]
        Row(v, s) == outcome.gram[s][1] * v[1] + outcome.gram[s][2] * v[2]
                     + outcome.gram[s][3] * v[3] + outcome.gram[s][4] * v[4]
    IN  /\ \A s, t \in 1..4 :
              LatticeHas(B, QMul(Conj(BasisElem(Columns(task.a), s)), BasisElem(Columns(task.b), t)))
        /\ \A v \in Probes :
              /\ Norm(Combined(v))[2] = 1
              /\ Norm(Combined(v))[1] * 2 = n * (v[1] * Row(v, 1) + v[2] * Row(v, 2)
                                                 + v[3] * Row(v, 3) + v[4] * Row(v, 4))

\* What the ideal routines return is what their documentation says: the draw
\* an ideal of its norm, the creation an ideal that holds the generator and,
\* with its split part, has the norm, the intersection a part of both
\* ideals, and the product all products conj(a) b with the Gram matrix of
\* its basis.
IdealRight ==
    outcome # Nothing =>
        CASE task.op = "draw"    -> IsIdeal(outcome) /\ outcome.norm = task.n
          [] task.op = "create"  -> CreatedRight
          [] task.op = "meet"    -> MetRight
          [] task.op = "product" -> ProductRight
============================================================================
