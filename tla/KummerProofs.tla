--------------------------- MODULE KummerProofs ---------------------------
(***************************************************************************)
(* Proofs about ScalarMul, TateLog and DiscreteLog: first the powers of    *)
(* two and the points of the Kummer line, as integer combinations of P and *)
(* Q; then the invariants of the scalar multiplications, in which every    *)
(* register is such a combination: MulInv for three of the loops, VerifInv *)
(* for what ec_biscalar_mul_verif must not refuse, BiInv for the fourth;   *)
(* then the signs of the Tate logarithms, and last the discrete logarithms *)
(* of roots of unity.                                                      *)
(***************************************************************************)
EXTENDS ScalarMul, TateLog, DiscreteLog, NumberFacts, SequenceTheorems

---------------------------------------------------------------------------
(* Powers of two.                                                          *)

LEMMA Constants == F \in Nat /\ F >= 2 /\ LimbBits \in Nat /\ LimbBits >= 2
BY FAssumption, ScalarAssumption

LEMMA TwoPowers == \A k \in 0..(F + LimbBits) : 2 ^ k \in Nat \ {0} /\ 2 ^ (k + 1) = 2 * 2 ^ k
<1> DEFINE S == {k \in Nat : k <= F + LimbBits => 2 ^ k # 0}
<1>1. 0 \in S
      BY PowerAssumption
<1>2. ASSUME NEW k \in Nat, k \in S PROVE k + 1 \in S
      <2> SUFFICES ASSUME k + 1 <= F + LimbBits PROVE 2 ^ (k + 1) # 0
          OBVIOUS
      <2>1. 2 ^ k \in Nat /\ 2 ^ k # 0 /\ 2 ^ (k + 1) = 2 * 2 ^ k
            BY <1>2, PowerAssumption, Constants
      <2> QED
          BY <2>1
<1>3. Nat \subseteq S
      <2> HIDE DEF S
      <2> QED
          BY <1>1, <1>2, SimpleInduction
<1> QED
    BY <1>3, PowerAssumption, Constants

LEMMA PowersGrow == \A k \in 0..(F + LimbBits) : \A j \in 0..k : 2 ^ j <= 2 ^ k /\ (j < k => 2 ^ j < 2 ^ k)
<1> DEFINE S == {k \in Nat : k <= F + LimbBits => \A j \in 0..k : 2 ^ j <= 2 ^ k /\ (j < k => 2 ^ j < 2 ^ k)}
<1>1. 0 \in S
      <2>0. 2 ^ 0 = 1
            BY PowerAssumption
      <2>1. ASSUME NEW j \in 0..0 PROVE 2 ^ j <= 2 ^ 0 /\ ~(j < 0)
            <3>1. j = 0
                  OBVIOUS
            <3> QED
                BY <3>1, <2>0
      <2> QED
          BY <2>1
<1>2. ASSUME NEW k \in Nat, k \in S PROVE k + 1 \in S
      <2> SUFFICES ASSUME k + 1 <= F + LimbBits, NEW j \in 0..(k + 1)
                   PROVE  2 ^ j <= 2 ^ (k + 1) /\ (j < k + 1 => 2 ^ j < 2 ^ (k + 1))
          OBVIOUS
      <2>1. 2 ^ k \in Nat \ {0} /\ 2 ^ (k + 1) = 2 * 2 ^ k /\ 2 ^ (k + 1) \in Nat
            BY TwoPowers, Constants
      <2>2. CASE j = k + 1
            BY <2>2, <2>1
      <2>3. CASE j <= k
            <3>1. 2 ^ j <= 2 ^ k /\ 2 ^ j \in Nat
                  BY <1>2, <2>3, TwoPowers, Constants
            <3> QED
                BY <3>1, <2>1
      <2> QED
          BY <2>2, <2>3
<1>3. Nat \subseteq S
      <2> HIDE DEF S
      <2> QED
          BY <1>1, <1>2, SimpleInduction
<1> QED
    BY <1>3, Constants

LEMMA OrderLarge == Order \in Nat /\ Order >= 4 /\ Order % 2 = 0 /\ Order = 2 * (Order \div 2)
<1>1. 2 ^ 2 = 2 * 2 ^ 1 /\ 2 ^ 1 = 2 * 2 ^ 0 /\ 2 ^ 0 = 1
      BY TwoPowers, PowerAssumption, Constants
<1>2. 2 ^ 2 <= 2 ^ F /\ 2 ^ F \in Nat
      BY PowersGrow, TwoPowers, Constants
<1>3. F - 1 \in 0..(F + LimbBits) /\ (F - 1) + 1 = F
      BY Constants
<1>4. 2 ^ F = 2 * 2 ^ (F - 1) /\ 2 ^ (F - 1) \in Nat
      BY <1>3, TwoPowers
<1>5. 2 ^ F >= 4
      BY <1>1, <1>2
<1> QED
    BY <1>2, <1>4, <1>5 DEF Order

\* The bits of k below 2h.
LEMMA BitSplit ==
    ASSUME NEW k \in Nat, NEW h \in Nat \ {0}
    PROVE  /\ k % (2 * h) = h * ((k \div h) % 2) + (k % h)
           /\ (k \div h) % 2 \in {0, 1} /\ k % h \in Nat
<1> DEFINE q == k \div h
           r == k % h
           half == q \div 2
           b == q % 2
<1>1. k = h * q + r /\ r \in 0..(h - 1) /\ q \in Int
      BY DivMod
<1>2. q = 2 * half + b /\ b \in 0..1 /\ half \in Int
      BY <1>1, DivMod
<1> HIDE DEF q, r, half, b
<1>3. k = (2 * h) * half + (h * b + r)
      BY <1>1, <1>2
<1>4. b = 0 \/ b = 1
      BY <1>2
<1>5. h * b + r \in 0..(2 * h - 1)
      BY <1>1, <1>4
<1>6. k % (2 * h) = h * b + r
      <2> DEFINE m == 2 * h
                 t == h * b + r
      <2>1. m \in Nat \ {0} /\ k = m * half + t /\ t \in 0..(m - 1)
            BY <1>3, <1>5
      <2> HIDE DEF m, t
      <2>2. k % m = t
            BY <2>1, <1>2, Residue
      <2> QED
          BY <2>2 DEF m, t
<1>7. b \in {0, 1} /\ r \in Nat
      BY <1>1, <1>4
<1>8. (k \div h) % 2 = b /\ k % h = r
      BY DEF q, r, b
<1>9. k % (2 * h) = h * ((k \div h) % 2) + (k % h)
      BY ONLY <1>6, <1>8, Zenon
<1> QED
    BY <1>7, <1>8, <1>9, Zenon

\* A power of two below another, and how often it is contained in it.
LEMMA PowerSum == \A k \in Nat : \A j \in Nat : j + k <= F + LimbBits => 2 ^ (j + k) = 2 ^ j * 2 ^ k
<1> DEFINE S == {k \in Nat : \A j \in Nat : j + k <= F + LimbBits => 2 ^ (j + k) = 2 ^ j * 2 ^ k}
<1>1. 0 \in S
      <2> SUFFICES ASSUME NEW j \in Nat, j + 0 <= F + LimbBits PROVE 2 ^ (j + 0) = 2 ^ j * 2 ^ 0
          OBVIOUS
      <2>1. 2 ^ 0 = 1 /\ 2 ^ j \in Nat /\ j + 0 = j
            BY TwoPowers, PowerAssumption, Constants
      <2>2. 2 ^ j * 1 = 2 ^ j
            BY <2>1
      <2> QED
          BY <2>1, <2>2, Zenon
<1>2. ASSUME NEW k \in Nat, k \in S PROVE k + 1 \in S
      <2> SUFFICES ASSUME NEW j \in Nat, j + (k + 1) <= F + LimbBits
                   PROVE  2 ^ (j + (k + 1)) = 2 ^ j * 2 ^ (k + 1)
          OBVIOUS
      <2>0. j + k \in 0..(F + LimbBits) /\ k \in 0..(F + LimbBits) /\ j \in 0..(F + LimbBits) /\ j + (k + 1) = (j + k) + 1
            BY Constants
      <2>1. 2 ^ (j + k) = 2 ^ j * 2 ^ k
            BY <1>2, <2>0
      <2>2. 2 ^ ((j + k) + 1) = 2 * 2 ^ (j + k) /\ 2 ^ (k + 1) = 2 * 2 ^ k
            BY <2>0, TwoPowers
      <2>3. 2 ^ j \in Int /\ 2 ^ k \in Int
            BY <2>0, TwoPowers
      <2> DEFINE a == 2 ^ j
                 b == 2 ^ k
      <2>4. \A u, v \in Int : 2 * (u * v) = u * (2 * v)
            OBVIOUS
      <2>5. 2 * (a * b) = a * (2 * b)
            BY <2>3, <2>4, Zenon
      <2> QED
          BY <2>0, <2>1, <2>2, <2>5, Zenon
<1>3. Nat \subseteq S
      <2> HIDE DEF S
      <2> QED
          BY <1>1, <1>2, SimpleInduction
<1> QED
    BY <1>3

---------------------------------------------------------------------------
(* Points with integer coordinates.                                        *)

Vec(x, y) == <<x % Order, y % Order>>
Pt(x, y)  == Point(Vec(x, y))

LEMMA MinusZero == -0 = 0
<1>1. \A n \in Int : n + n = n => -n = n
      OBVIOUS
<1>2. 0 \in Int /\ 0 + 0 = 0
      OBVIOUS
<1> QED
    BY <1>1, <1>2, Zenon

LEMMA ModSum ==
    ASSUME NEW m \in Nat \ {0}, NEW x \in Int, NEW z \in Int
    PROVE  ((x % m) + (z % m)) % m = (x + z) % m
<1> DEFINE a == x % m
           c == z % m
<1>1. a \in 0..(m - 1) /\ a % m = x % m
      BY ModRange
<1>2. c \in 0..(m - 1) /\ c % m = z % m
      BY ModRange
<1> HIDE DEF a, c
<1>3. a \in Int /\ c \in Int
      BY <1>1, <1>2
<1>4. Same(a, x, m) /\ Same(c, z, m)
      BY <1>1, <1>2, Zenon DEF Same
<1>5. Same(a + c, x + z, m)
      BY <1>3, <1>4, SameAdd
<1>6. (a + c) % m = (x + z) % m
      BY <1>5, Zenon DEF Same
<1> QED
    BY <1>6, Zenon DEF a, c

LEMMA ModScale ==
    ASSUME NEW m \in Nat \ {0}, NEW n \in Int, NEW x \in Int
    PROVE  (n * (x % m)) % m = (n * x) % m
<1> DEFINE a == x % m
<1>1. a \in 0..(m - 1) /\ a % m = x % m
      BY ModRange
<1> HIDE DEF a
<1>2. a \in Int
      BY <1>1
<1>3. (n * a) % m = (n * x) % m
      BY <1>1, <1>2, ModMulRight, Zenon
<1> QED
    BY <1>3, Zenon DEF a

LEMMA VecPlus ==
    ASSUME NEW x \in Int, NEW y \in Int, NEW z \in Int, NEW t \in Int
    PROVE  Plus(Vec(x, y), Vec(z, t)) = Vec(x + z, y + t)
<1>1. Order \in Nat \ {0}
      BY OrderLarge
<1>2. ((x % Order) + (z % Order)) % Order = (x + z) % Order
      BY <1>1, ModSum
<1>3. ((y % Order) + (t % Order)) % Order = (y + t) % Order
      BY <1>1, ModSum
<1> QED
    BY <1>2, <1>3 DEF Plus, Vec

LEMMA VecTimes ==
    ASSUME NEW n \in Int, NEW x \in Int, NEW y \in Int
    PROVE  Times(n, Vec(x, y)) = Vec(n * x, n * y)
<1>1. Order \in Nat \ {0}
      BY OrderLarge
<1>2. (n * (x % Order)) % Order = (n * x) % Order
      BY <1>1, ModScale
<1>3. (n * (y % Order)) % Order = (n * y) % Order
      BY <1>1, ModScale
<1> QED
    BY <1>2, <1>3 DEF Times, Vec

LEMMA VecNeg ==
    ASSUME NEW x \in Int, NEW y \in Int
    PROVE  Neg(Vec(x, y)) = Vec(-x, -y)
<1>1. Times(-1, Vec(x, y)) = Vec((-1) * x, (-1) * y)
      BY VecTimes
<1>2. (-1) * x = -x /\ (-1) * y = -y
      OBVIOUS
<1> QED
    BY <1>1, <1>2 DEF Neg

\* A vector of the model is one of these.
LEMMA VecSelf == ASSUME NEW u \in Vectors PROVE u = Vec(u[1], u[2]) /\ u[1] \in Int /\ u[2] \in Int
<1>1. u[1] \in 0..(Order - 1) /\ u[2] \in 0..(Order - 1) /\ u = <<u[1], u[2]>>
      BY DEF Vectors
<1>2. u[1] % Order = u[1] /\ u[2] % Order = u[2]
      BY <1>1, OrderLarge
<1> QED
    BY <1>1, <1>2 DEF Vec

LEMMA VecRange ==
    ASSUME NEW x \in Int, NEW y \in Int
    PROVE  Vec(x, y) \in Vectors
<1>1. Order \in Nat \ {0}
      BY OrderLarge
<1>2. x % Order \in 0..(Order - 1)
      BY <1>1, ModRange, Zenon
<1>3. y % Order \in 0..(Order - 1)
      BY <1>1, ModRange, Zenon
<1> QED
    BY <1>2, <1>3 DEF Vec, Vectors

LEMMA PtSet ==
    ASSUME NEW x \in Int, NEW y \in Int
    PROVE  Pt(x, y) = {Vec(x, y), Vec(-x, -y)} /\ Pt(-x, -y) = Pt(x, y)
<1>1. Neg(Vec(x, y)) = Vec(-x, -y) /\ Neg(Vec(-x, -y)) = Vec(-(-x), -(-y))
      BY VecNeg
<1>2. -(-x) = x /\ -(-y) = y
      OBVIOUS
<1> QED
    BY <1>1, <1>2 DEF Pt, Point

\* None of the marks of the model is a point.
LEMMA PtProper ==
    ASSUME NEW x \in Int, NEW y \in Int
    PROVE  Pt(x, y) # Foreign /\ Pt(x, y) # Undefined /\ Pt(x, y) # None
<1>1. Vec(x, y) \in Pt(x, y)
      BY PtSet
<1>2. Vec(x, y) \in Vectors
      BY VecRange
<1>3. <<Order, Order>> \notin Vectors /\ <<0, Order>> \notin Vectors
      BY OrderLarge DEF Vectors
<1> QED
    BY <1>1, <1>2, <1>3 DEF Foreign, Undefined, None

LEMMA PtDouble ==
    ASSUME NEW x \in Int, NEW y \in Int
    PROVE  XDbl(Pt(x, y)) = Pt(2 * x, 2 * y)
<1>1. XDbl(Pt(x, y)) = {Times(2, u) : u \in {Vec(x, y), Vec(-x, -y)}}
      BY PtProper, PtSet DEF XDbl
<1>2. Times(2, Vec(x, y)) = Vec(2 * x, 2 * y) /\ Times(2, Vec(-x, -y)) = Vec(2 * (-x), 2 * (-y))
      BY VecTimes
<1>3. 2 * (-x) = -(2 * x) /\ 2 * (-y) = -(2 * y)
      OBVIOUS
<1>4. Pt(2 * x, 2 * y) = {Vec(2 * x, 2 * y), Vec(-(2 * x), -(2 * y))}
      BY PtSet
<1> QED
    BY <1>1, <1>2, <1>3, <1>4

LEMMA PtSums ==
    ASSUME NEW x \in Int, NEW y \in Int, NEW z \in Int, NEW t \in Int
    PROVE  Sums(Pt(x, y), Pt(z, t)) = {Pt(x + z, y + t), Pt(x - z, y - t)}
<1>1. Pt(x, y) = {Vec(x, y), Vec(-x, -y)} /\ Pt(z, t) = {Vec(z, t), Vec(-z, -t)}
      BY PtSet
<1>2. Plus(Vec(x, y), Vec(z, t)) = Vec(x + z, y + t) /\ Plus(Vec(x, y), Vec(-z, -t)) = Vec(x + (-z), y + (-t))
      BY VecPlus
<1>3. Plus(Vec(-x, -y), Vec(z, t)) = Vec((-x) + z, (-y) + t)
      BY VecPlus
<1>4. Plus(Vec(-x, -y), Vec(-z, -t)) = Vec((-x) + (-z), (-y) + (-t))
      BY VecPlus
<1>5. /\ x + (-z) = x - z /\ y + (-t) = y - t
      /\ (-x) + z = -(x - z) /\ (-y) + t = -(y - t)
      /\ (-x) + (-z) = -(x + z) /\ (-y) + (-t) = -(y + t)
      OBVIOUS
<1>6. Point(Vec(x + z, y + t)) = Pt(x + z, y + t) /\ Point(Vec(x - z, y - t)) = Pt(x - z, y - t)
      BY DEF Pt
<1>7. Point(Vec(-(x + z), -(y + t))) = Pt(x + z, y + t) /\ Point(Vec(-(x - z), -(y - t))) = Pt(x - z, y - t)
      BY PtSet DEF Pt
<1>8. Sums(Pt(x, y), Pt(z, t)) =
          {Point(Plus(Vec(x, y), Vec(z, t))), Point(Plus(Vec(x, y), Vec(-z, -t))),
           Point(Plus(Vec(-x, -y), Vec(z, t))), Point(Plus(Vec(-x, -y), Vec(-z, -t)))}
      <2> DEFINE f(u, v) == Point(Plus(u, v))
                 a == Vec(x, y)
                 b == Vec(-x, -y)
                 c == Vec(z, t)
                 d == Vec(-z, -t)
      <2>1. Sums(Pt(x, y), Pt(z, t)) = {f(u, v) : u \in {a, b}, v \in {c, d}}
            BY <1>1 DEF Sums
      <2> HIDE DEF f, a, b, c, d
      <2>2. {f(u, v) : u \in {a, b}, v \in {c, d}} = {f(a, c), f(a, d), f(b, c), f(b, d)}
            OBVIOUS
      <2> QED
          BY <2>1, <2>2 DEF f, a, b, c, d
<1> QED
    BY <1>2, <1>3, <1>4, <1>5, <1>6, <1>7, <1>8

\* Handed the right difference xADD gives the sum, or (0 : 0).
LEMMA PtAdd ==
    ASSUME NEW x \in Int, NEW y \in Int, NEW z \in Int, NEW t \in Int
    PROVE  XAdd(Pt(x, y), Pt(z, t), Pt(x - z, y - t)) =
               IF HasZeroCoordinate(Pt(x - z, y - t)) THEN Undefined ELSE Pt(x + z, y + t)
<1> DEFINE p == Pt(x, y)
           q == Pt(z, t)
           d == Pt(x - z, y - t)
           e == Pt(x + z, y + t)
<1>1. Sums(p, q) = {e, d}
      BY PtSums
<1>2. Foreign \notin {p, q, d} /\ Undefined \notin {p, q, d}
      BY PtProper
<1>3. (IF Sums(p, q) = {d} THEN d ELSE CHOOSE s \in Sums(p, q) : s # d) = e
      <2> HIDE DEF p, q, d, e
      <2>1. CASE e = d
            BY <2>1, <1>1
      <2>2. CASE e # d
            <3>1. Sums(p, q) # {d}
                  BY <2>2, <1>1
            <3>2. \E s \in Sums(p, q) : s # d
                  BY <2>2, <1>1
            <3>3. (CHOOSE s \in Sums(p, q) : s # d) = e
                  BY <3>2, <1>1
            <3> QED
                BY <3>1, <3>3
      <2> QED
          BY <2>1, <2>2
<1> HIDE DEF p, q, d, e
<1>4. XAdd(p, q, d) = IF HasZeroCoordinate(d) THEN Undefined ELSE e
      BY <1>1, <1>2, <1>3 DEF XAdd
<1> QED
    BY <1>4 DEF p, q, d, e

\* A multiple of the order.
Null(n) == \E k \in Int : n = k * Order

\* Two vectors of one point are equal or opposite.
LEMMA PtEqual ==
    ASSUME NEW x \in Int, NEW y \in Int, NEW z \in Int, NEW t \in Int, Pt(x, y) = Pt(z, t)
    PROVE  (Null(x - z) /\ Null(y - t)) \/ (Null(x + z) /\ Null(y + t))
<1>1. Order \in Nat \ {0}
      BY OrderLarge
<1>2. Vec(x, y) \in {Vec(z, t), Vec(-z, -t)}
      BY PtSet
<1>3. CASE Vec(x, y) = Vec(z, t)
      <2>1. x % Order = z % Order /\ y % Order = t % Order
            BY <1>3 DEF Vec
      <2>2. PICK k \in Int : x = z + k * Order
            BY <2>1, <1>1, ModDiffer, Zenon
      <2>3. PICK j \in Int : y = t + j * Order
            BY <2>1, <1>1, ModDiffer, Zenon
      <2>4. x - z = k * Order /\ y - t = j * Order
            BY <1>1, <2>2, <2>3
      <2> QED
          BY <2>4 DEF Null
<1>4. CASE Vec(x, y) = Vec(-z, -t)
      <2>0. -z \in Int /\ -t \in Int
            OBVIOUS
      <2>1. x % Order = (-z) % Order /\ y % Order = (-t) % Order
            BY <1>4 DEF Vec
      <2>2. PICK k \in Int : x = -z + k * Order
            BY <2>0, <2>1, <1>1, ModDiffer, Zenon
      <2>3. PICK j \in Int : y = -t + j * Order
            BY <2>0, <2>1, <1>1, ModDiffer, Zenon
      <2>4. x + z = k * Order /\ y + t = j * Order
            BY <1>1, <2>2, <2>3
      <2> QED
          BY <2>4 DEF Null
<1> QED
    BY <1>2, <1>3, <1>4

\* Numbers that differ by a multiple of the order give one point.
LEMMA NullSame ==
    ASSUME NEW x \in Int, NEW y \in Int, NEW z \in Int, NEW t \in Int, Null(x - z), Null(y - t)
    PROVE  Pt(x, y) = Pt(z, t)
<1>1. Order \in Nat \ {0}
      BY OrderLarge
<1>2. PICK k \in Int : x - z = k * Order
      BY DEF Null
<1>3. PICK j \in Int : y - t = j * Order
      BY DEF Null
<1>4. x = z + k * Order /\ y = t + j * Order
      <2> DEFINE a == k * Order
                 b == j * Order
      <2>1. a \in Int /\ b \in Int /\ x - z = a /\ y - t = b
            BY <1>1, <1>2, <1>3
      <2> HIDE DEF a, b
      <2>2. x = z + a /\ y = t + b
            BY <2>1
      <2> QED
          BY <2>2 DEF a, b
<1>5. x % Order = z % Order
      BY <1>1, <1>4, ModShift
<1>6. y % Order = t % Order
      BY <1>1, <1>4, ModShift
<1> QED
    BY <1>5, <1>6, Zenon DEF Pt, Vec

---------------------------------------------------------------------------
(* Combinations of P and Q.                                                *)

Comb(a, b) == Pt(a * call.p[1] + b * call.q[1], a * call.p[2] + b * call.q[2])

BasisOK == call.p \in Vectors /\ call.q \in Vectors

LEMMA Coordinates ==
    ASSUME BasisOK
    PROVE  call.p[1] \in Int /\ call.p[2] \in Int /\ call.q[1] \in Int /\ call.q[2] \in Int
BY VecSelf DEF BasisOK

LEMMA CombType ==
    ASSUME BasisOK, NEW a \in Int, NEW b \in Int
    PROVE  a * call.p[1] + b * call.q[1] \in Int /\ a * call.p[2] + b * call.q[2] \in Int
<1> DEFINE x == call.p[1]
           y == call.p[2]
           z == call.q[1]
           t == call.q[2]
<1>1. x \in Int /\ y \in Int /\ z \in Int /\ t \in Int
      BY Coordinates
<1> HIDE DEF x, y, z, t
<1>2. a * x + b * z \in Int /\ a * y + b * t \in Int
      BY <1>1
<1> QED
    BY <1>2 DEF x, y, z, t

LEMMA CombProper ==
    ASSUME BasisOK, NEW a \in Int, NEW b \in Int
    PROVE  Comb(a, b) # Foreign /\ Comb(a, b) # Undefined /\ Comb(a, b) # None
BY CombType, PtProper DEF Comb

LEMMA CombNeg ==
    ASSUME BasisOK, NEW a \in Int, NEW b \in Int
    PROVE  Comb(-a, -b) = Comb(a, b)
<1> DEFINE x == call.p[1]
           y == call.p[2]
           z == call.q[1]
           t == call.q[2]
<1>1. x \in Int /\ y \in Int /\ z \in Int /\ t \in Int
      BY Coordinates
<1> HIDE DEF x, y, z, t
<1>2. (-a) * x + (-b) * z = -(a * x + b * z) /\ (-a) * y + (-b) * t = -(a * y + b * t)
      BY <1>1
<1>3. a * x + b * z \in Int /\ a * y + b * t \in Int
      BY <1>1
<1>4. Pt((-a) * x + (-b) * z, (-a) * y + (-b) * t) = Pt(a * x + b * z, a * y + b * t)
      BY <1>2, <1>3, PtSet
<1> QED
    BY <1>4, Zenon DEF x, y, z, t, Comb

LEMMA CombDouble ==
    ASSUME BasisOK, NEW a \in Int, NEW b \in Int
    PROVE  XDbl(Comb(a, b)) = Comb(2 * a, 2 * b)
<1> DEFINE x == call.p[1]
           y == call.p[2]
           z == call.q[1]
           t == call.q[2]
<1>1. x \in Int /\ y \in Int /\ z \in Int /\ t \in Int
      BY Coordinates
<1> HIDE DEF x, y, z, t
<1>2. (2 * a) * x + (2 * b) * z = 2 * (a * x + b * z) /\ (2 * a) * y + (2 * b) * t = 2 * (a * y + b * t)
      BY <1>1
<1>3. a * x + b * z \in Int /\ a * y + b * t \in Int
      BY <1>1
<1>4. XDbl(Pt(a * x + b * z, a * y + b * t)) = Pt((2 * a) * x + (2 * b) * z, (2 * a) * y + (2 * b) * t)
      BY <1>2, <1>3, PtDouble
<1> QED
    BY <1>4, Zenon DEF x, y, z, t, Comb

\* xADD of two combinations, its third argument being their difference.
LEMMA CombAdd ==
    ASSUME BasisOK, NEW a \in Int, NEW b \in Int, NEW c \in Int, NEW d \in Int
    PROVE  XAdd(Comb(a, b), Comb(c, d), Comb(a - c, b - d)) =
               IF HasZeroCoordinate(Comb(a - c, b - d)) THEN Undefined ELSE Comb(a + c, b + d)
<1> DEFINE x == call.p[1]
           y == call.p[2]
           z == call.q[1]
           t == call.q[2]
<1>1. x \in Int /\ y \in Int /\ z \in Int /\ t \in Int
      BY Coordinates
<1> HIDE DEF x, y, z, t
<1> DEFINE e == a * x + b * z
           f == a * y + b * t
           g == c * x + d * z
           h == c * y + d * t
<1>2. (a - c) * x + (b - d) * z = e - g /\ (a - c) * y + (b - d) * t = f - h
      BY <1>1
<1>3. (a + c) * x + (b + d) * z = e + g /\ (a + c) * y + (b + d) * t = f + h
      BY <1>1
<1>4. e \in Int /\ f \in Int /\ g \in Int /\ h \in Int
      BY <1>1
<1>5. Comb(a, b) = Pt(e, f) /\ Comb(c, d) = Pt(g, h)
      BY Zenon DEF x, y, z, t, Comb
<1>6. Comb(a - c, b - d) = Pt(e - g, f - h) /\ Comb(a + c, b + d) = Pt(e + g, f + h)
      <2>1. Comb(a - c, b - d) = Pt((a - c) * x + (b - d) * z, (a - c) * y + (b - d) * t)
            BY Zenon DEF x, y, z, t, Comb
      <2>2. Comb(a + c, b + d) = Pt((a + c) * x + (b + d) * z, (a + c) * y + (b + d) * t)
            BY Zenon DEF x, y, z, t, Comb
      <2> HIDE DEF e, f, g, h
      <2> QED
          BY <1>2, <1>3, <2>1, <2>2, Zenon
<1> HIDE DEF e, f, g, h
<1>7. XAdd(Pt(e, f), Pt(g, h), Pt(e - g, f - h)) =
          IF HasZeroCoordinate(Pt(e - g, f - h)) THEN Undefined ELSE Pt(e + g, f + h)
      BY <1>4, PtAdd
<1> QED
    BY <1>5, <1>6, <1>7, Zenon

LEMMA CombNames ==
    ASSUME BasisOK
    PROVE  P = Comb(1, 0) /\ Q = Comb(0, 1) /\ PmQ = Comb(1, -1) /\ Identity = Comb(0, 0)
<1> DEFINE x == call.p[1]
           y == call.p[2]
           z == call.q[1]
           t == call.q[2]
<1>1. x \in Int /\ y \in Int /\ z \in Int /\ t \in Int
      BY Coordinates
<1>2. call.p = Vec(x, y) /\ call.q = Vec(z, t)
      BY VecSelf DEF BasisOK
<1> HIDE DEF x, y, z, t
<1>3. /\ 1 * x + 0 * z = x /\ 1 * y + 0 * t = y /\ 0 * x + 1 * z = z /\ 0 * y + 1 * t = t
      /\ 1 * x + (-1) * z = x + (-z) /\ 1 * y + (-1) * t = y + (-t)
      /\ 0 * x + 0 * z = 0 /\ 0 * y + 0 * t = 0
      BY <1>1
<1>4. Comb(1, 0) = Pt(1 * x + 0 * z, 1 * y + 0 * t) /\ Comb(0, 1) = Pt(0 * x + 1 * z, 0 * y + 1 * t)
      BY Zenon DEF Comb, x, y, z, t
<1>5. Comb(1, -1) = Pt(1 * x + (-1) * z, 1 * y + (-1) * t) /\ Comb(0, 0) = Pt(0 * x + 0 * z, 0 * y + 0 * t)
      BY Zenon DEF Comb, x, y, z, t
<1>6. Minus(call.p, call.q) = Vec(x + (-z), y + (-t))
      <2>1. Neg(Vec(z, t)) = Vec(-z, -t) /\ -z \in Int /\ -t \in Int
            BY <1>1, VecNeg
      <2>2. Plus(Vec(x, y), Vec(-z, -t)) = Vec(x + (-z), y + (-t))
            BY <1>1, <2>1, VecPlus
      <2> QED
          BY <1>2, <2>1, <2>2, Zenon DEF Minus
<1>7. Vec(0, 0) = <<0, 0>>
      BY OrderLarge DEF Vec
<1>8. P = Pt(x, y) /\ Q = Pt(z, t) /\ PmQ = Pt(x + (-z), y + (-t)) /\ Identity = Pt(0, 0)
      BY <1>2, <1>6, <1>7, Zenon DEF P, Q, PmQ, Identity, Pt
<1> QED
    BY <1>3, <1>4, <1>5, <1>8, Zenon

LEMMA CombExpected ==
    ASSUME BasisOK, NEW a \in Int, NEW b \in Int
    PROVE  Combination(a, b) = Comb(a, b)
<1> DEFINE x == call.p[1]
           y == call.p[2]
           z == call.q[1]
           t == call.q[2]
<1>1. x \in Int /\ y \in Int /\ z \in Int /\ t \in Int
      BY Coordinates
<1>2. call.p = Vec(x, y) /\ call.q = Vec(z, t)
      BY VecSelf DEF BasisOK
<1> HIDE DEF x, y, z, t
<1>3. Times(a, call.p) = Vec(a * x, a * y) /\ Times(b, call.q) = Vec(b * z, b * t)
      <2>1. Times(a, Vec(x, y)) = Vec(a * x, a * y)
            BY <1>1, VecTimes
      <2>2. Times(b, Vec(z, t)) = Vec(b * z, b * t)
            BY <1>1, VecTimes
      <2> QED
          BY <1>2, <2>1, <2>2, Zenon
<1>4. a * x \in Int /\ a * y \in Int /\ b * z \in Int /\ b * t \in Int
      BY <1>1
<1>5. Plus(Times(a, call.p), Times(b, call.q)) = Vec(a * x + b * z, a * y + b * t)
      BY <1>3, <1>4, VecPlus
<1> QED
    BY <1>5, Zenon DEF Combination, Comb, Pt, x, y, z, t

Even(n) == \E u \in Int : n = 2 * u

\* A matrix of odd determinant gives no even vector but from an even one.
LEMMA ParityOfBasis ==
    ASSUME NEW x \in Int, NEW y \in Int, NEW z \in Int, NEW t \in Int, NEW a \in Int, NEW b \in Int,
           Even(a * x + b * z), Even(a * y + b * t), ~Even(x * t - y * z)
    PROVE  Even(a) /\ Even(b)
<1>u. PICK u \in Int : a * x + b * z = 2 * u
      BY DEF Even
<1>v. PICK v \in Int : a * y + b * t = 2 * v
      BY DEF Even
<1>w. PICK w \in Int : x * t - y * z = 2 * w + 1
      <2> DEFINE d == x * t - y * z
      <2>1. d \in Int /\ ~Even(d)
            OBVIOUS
      <2> HIDE DEF d
      <2>2. d = 2 * (d \div 2) + (d % 2) /\ d \div 2 \in Int /\ d % 2 \in 0..1
            BY <2>1, DivMod
      <2>3. d % 2 # 0
            BY <2>1, <2>2 DEF Even
      <2> QED
          BY <2>2, <2>3 DEF d
<1>1. a * (x * t - y * z) = t * (a * x + b * z) - z * (a * y + b * t)
      OBVIOUS
<1>2. b * (x * t - y * z) = x * (a * y + b * t) - y * (a * x + b * z)
      OBVIOUS
<1>3. a * (2 * w + 1) = t * (2 * u) - z * (2 * v) /\ b * (2 * w + 1) = x * (2 * v) - y * (2 * u)
      BY <1>1, <1>2, <1>u, <1>v, <1>w
<1> DEFINE r == t * u - z * v - a * w
           s == x * v - y * u - b * w
<1>4. a = 2 * r /\ r \in Int
      BY ONLY <1>3, a \in Int, t \in Int, u \in Int, z \in Int, v \in Int, w \in Int
<1>5. b = 2 * s /\ s \in Int
      BY ONLY <1>3, b \in Int, x \in Int, u \in Int, y \in Int, v \in Int, w \in Int
<1> HIDE DEF r, s
<1> QED
    BY <1>4, <1>5 DEF Even

\* The half of the order is even.
LEMMA OrderFour == \E h \in Nat : Order = 4 * h /\ Order \div 2 = 2 * h /\ h > 0
<1>1. F - 1 \in 0..(F + LimbBits) /\ (F - 1) + 1 = F /\ F - 2 \in 0..(F + LimbBits) /\ (F - 2) + 1 = F - 1
      BY Constants
<1> DEFINE h == 2 ^ (F - 2)
           k == 2 ^ (F - 1)
<1>2. Order = 2 * k /\ k = 2 * h /\ h \in Nat \ {0}
      BY <1>1, TwoPowers DEF Order
<1> HIDE DEF h, k
<1>3. Order = 4 * h /\ Order \div 2 = 2 * h /\ h > 0 /\ h \in Nat
      <2>1. Order = 4 * h
            BY <1>2
      <2>2. (4 * h) \div 2 = 2 * h
            BY <1>2
      <2> QED
          BY <1>2, <2>1, <2>2
<1> QED
    BY <1>3

\* The coordinates of a point with a zero coordinate are even.
LEMMA ZeroIsEven ==
    ASSUME NEW x \in Int, NEW y \in Int, HasZeroCoordinate(Pt(x, y))
    PROVE  Even(x) /\ Even(y)
<1>1. PICK h \in Nat : Order = 4 * h /\ Order \div 2 = 2 * h /\ h > 0
      BY OrderFour
<1>2. Vec(x, y) \in Pt(x, y) /\ Pt(x, y) # Undefined
      BY PtSet, PtProper
<1>3. Pt(x, y) \in {Identity, Origin}
      BY <1>2 DEF HasZeroCoordinate
<1>4. Identity = Pt(0, 0) /\ Origin = Pt(0, 2 * h)
      <2>1. Vec(0, 0) = <<0, 0>> /\ Vec(0, 2 * h) = <<0, 2 * h>>
            <3>1. 0 % Order = 0 /\ (2 * h) % Order = 2 * h
                  BY <1>1
            <3> QED
                BY <3>1 DEF Vec
      <2> QED
          BY <1>1, <2>1, Zenon DEF Identity, Origin, Pt
<1>5. Vec(x, y) \in {Vec(0, 0), Vec(0, 2 * h), Vec(0, -(2 * h))}
      <2>1. Pt(0, 0) = {Vec(0, 0), Vec(-0, -0)} /\ Pt(0, 2 * h) = {Vec(0, 2 * h), Vec(-0, -(2 * h))}
            BY PtSet
      <2>2. -0 = 0
            BY MinusZero
      <2> QED
          BY <1>2, <1>3, <1>4, <2>1, <2>2, Zenon
<1>6. x % Order = 0 % Order
      BY <1>5 DEF Vec
<1>7. \E c \in {0, 2 * h, -(2 * h)} : y % Order = c % Order
      BY <1>5 DEF Vec
<1>8. PICK c \in {0, 2 * h, -(2 * h)} : y % Order = c % Order
      BY <1>7
<1>9. c \in Int /\ \E e \in Int : c = 2 * e
      <2>1. 0 = 2 * 0 /\ -(2 * h) = 2 * (-h) /\ h \in Int /\ -h \in Int /\ 0 \in Int
            OBVIOUS
      <2>2. CASE c = 0
            BY <2>1, <2>2
      <2>3. CASE c = 2 * h
            BY <2>1, <2>3
      <2>4. CASE c = -(2 * h)
            BY <2>1, <2>4
      <2> QED
          BY <1>8, <2>2, <2>3, <2>4
<1>10. Order \in Nat \ {0}
       BY OrderLarge
<1>11. PICK k \in Int : x = 0 + k * Order
       <2>1. 0 \in Int
             OBVIOUS
       <2> QED
           BY ONLY <1>6, <1>10, <2>1, x \in Int, ModDiffer, Zenon
<1>12. PICK j \in Int : y = c + j * Order
       BY ONLY <1>8, <1>9, <1>10, y \in Int, ModDiffer, Zenon
<1>13. PICK e \in Int : c = 2 * e
       BY <1>9
<1>14. x = 2 * (k * (2 * h)) /\ y = 2 * (e + j * (2 * h))
       BY <1>1, <1>11, <1>12, <1>13
<1>15. k * (2 * h) \in Int /\ e + j * (2 * h) \in Int
       BY <1>1
<1> QED
    BY <1>14, <1>15 DEF Even

\* A combination with an odd coefficient, of a basis of E[2^F], has no zero
\* coordinate.
LEMMA CombRegular ==
    ASSUME BasisOK, FullBasis, NEW a \in Int, NEW b \in Int, ~Even(a) \/ ~Even(b)
    PROVE  ~HasZeroCoordinate(Comb(a, b))
<1> SUFFICES ASSUME HasZeroCoordinate(Comb(a, b)) PROVE FALSE
    OBVIOUS
<1> DEFINE x == call.p[1]
           y == call.p[2]
           z == call.q[1]
           t == call.q[2]
<1>1. x \in Int /\ y \in Int /\ z \in Int /\ t \in Int
      BY Coordinates
<1>2. (x * t - y * z) % 2 = 1
      BY DEF FullBasis
<1>3. HasZeroCoordinate(Pt(a * x + b * z, a * y + b * t))
      BY Zenon DEF Comb
<1>4. ~Even(x * t - y * z)
      <2> HIDE DEF x, y, z, t
      <2>1. \A d \in Int : d % 2 = 1 => ~Even(d)
            BY DEF Even
      <2>2. x * t - y * z \in Int
            BY <1>1
      <2> QED
          BY <1>2, <2>1, <2>2, Zenon
<1> HIDE DEF x, y, z, t
<1>5. a * x + b * z \in Int /\ a * y + b * t \in Int
      BY <1>1
<1>6. Even(a * x + b * z) /\ Even(a * y + b * t)
      BY <1>3, <1>5, ZeroIsEven
<1> QED
    BY <1>1, <1>4, <1>6, ParityOfBasis

LEMMA OneIsOdd == ~Even(1)
BY DEF Even

\* Twice a number that is odd is no multiple of the order.
LEMMA NullIsEven == ASSUME NEW n \in Int, Null(2 * n) PROVE Even(n)
<1>1. PICK h \in Nat : Order = 4 * h /\ Order \div 2 = 2 * h /\ h > 0
      BY OrderFour
<1>2. PICK k \in Int : 2 * n = k * Order
      BY DEF Null
<1>3. n = 2 * (k * h) /\ k * h \in Int
      BY <1>1, <1>2
<1> QED
    BY <1>3 DEF Even

LEMMA OddNotEven == \A d \in Int : d % 2 = 1 => ~Even(d)
BY DEF Even

---------------------------------------------------------------------------
(* The invariant.                                                          *)

CallInv ==
    /\ BasisOK /\ call.k \in Nat /\ call.l \in Nat /\ call.kbits \in 1..F
    /\ pc = "ladder" => call.alg \in {"ladder", "verif"}
    /\ pc = "ladder3pt" => call.alg = "ladder3pt"
    /\ pc \in {"recode", "biladder"} => call.alg = "biscalar"
    /\ pc = "euclid" => call.alg = "verif"
    /\ curve \in Curves

\* What the ladder that runs has to give.
Target == IF call.alg = "ladder" THEN Comb(Mask(call.k), 0) ELSE Comb(Mask(call.k), Mask(call.l))

\* The registers in the order of the bits read so far.
Low  == IF st.prevbit = 1 THEN st.r1 ELSE st.r0
High == IF st.prevbit = 1 THEN st.r0 ELSE st.r1

LadderShape ==
    /\ st = [r0 |-> st.r0, r1 |-> st.r1, p |-> st.p, k |-> st.k, prevbit |-> st.prevbit, i |-> st.i]
    /\ st.k \in Nat /\ st.prevbit \in {0, 1} /\ st.i \in 0..call.kbits

\* n is the number the bits read so far make: [n] p and [n + 1] p.
Climbs(a, b, n) ==
    /\ a \in Int /\ b \in Int /\ n \in Nat
    /\ st.p = Comb(a, b)
    /\ Comb(Mask(st.k) * a, Mask(st.k) * b) = Target
    /\ 2 ^ st.i * n + (st.k % 2 ^ st.i) = Mask(st.k)
    /\ Low = Comb(n * a, n * b) /\ High = Comb((n + 1) * a, (n + 1) * b)

\* A point with a zero coordinate: the ladder ends in one.
Sinks ==
    /\ call.alg = "ladder" => st.p = P
    /\ \/ st.r0 = Identity /\ st.r1 = st.p /\ st.prevbit = 0
       \/ st.r0 \in {Identity, Undefined} /\ st.r1 = Undefined

LadderInv ==
    /\ LadderShape
    /\ IF HasZeroCoordinate(st.p) THEN Sinks ELSE \E a, b, n : Climbs(a, b, n)

Marks == IF FullBasis THEN {} ELSE {Undefined}
Exponent == LimbBits * ((call.kbits + LimbBits - 1) \div LimbBits)

Ladder3Inv ==
    /\ st = [x0 |-> st.x0, x1 |-> st.x1, x2 |-> st.x2, i |-> st.i]
    /\ st.i \in 0..Exponent
    /\ st.x0 = Comb(0, 2 ^ st.i)
    /\ st.x1 \in {Comb(1, call.k % 2 ^ st.i)} \cup Marks
    /\ st.x2 \in {Comb(1, (call.k % 2 ^ st.i) - 2 ^ st.i)} \cup Marks

\* [s0] x0 + [s1] x1 is the point asked for, xdiff the difference of x0 and x1.
Weighs(u, a, b, c, d) ==
    /\ a \in Int /\ b \in Int /\ c \in Int /\ d \in Int
    /\ u.x0 = Comb(a, b) /\ u.x1 = Comb(c, d) /\ u.xdiff = Comb(a - c, b - d)
    /\ u.s0 * a + u.s1 * c = Mask(call.k) /\ u.s0 * b + u.s1 * d = Mask(call.l)

EuclidShape(u) ==
    /\ u = [s0 |-> u.s0, s1 |-> u.s1, x0 |-> u.x0, x1 |-> u.x1, xdiff |-> u.xdiff]
    /\ u.s0 \in 0..(2 ^ call.kbits - 1) /\ u.s1 \in 0..(2 ^ call.kbits - 1)

Regular(u) == ~HasZeroCoordinate(u.x0) /\ ~HasZeroCoordinate(u.x1) /\ ~HasZeroCoordinate(u.xdiff)

\* At the end [s1] x1 is.
Leads(u, c, d) ==
    /\ c \in Int /\ d \in Int
    /\ u.x1 = Comb(c, d)
    /\ u.s1 * c = Mask(call.k) /\ u.s1 * d = Mask(call.l)

\* On E0 without a cached A24 the last doublings lose the point.
EuclidInv ==
    /\ EuclidShape(st)
    /\ st.s0 # 0 => Regular(st) /\ \E a, b, c, d : Weighs(st, a, b, c, d)
    /\ st.s0 = 0 => \/ \E c, d : Leads(st, c, d)
                    \/ ~curve.cached /\ st.x1 \in {Origin, Undefined}

Answered == /\ call.alg \in {"ladder", "ladder3pt"} => ResultRight
            /\ call.alg = "verif" => PointRight

MulInv ==
    /\ CallInv
    /\ pc = "ladder" => LadderInv
    /\ pc = "ladder3pt" => Ladder3Inv
    /\ pc = "euclid" => EuclidInv
    /\ Answered

\* Before the end there is nothing to show of the result.
LEMMA NotDone == ASSUME pc # "done" PROVE Answered
BY DEF Answered, ResultRight, PointRight, RefusalRight

---------------------------------------------------------------------------
(* The ladder.                                                             *)

\* xDBL and xADD of the marks.
LEMMA Marked ==
    /\ XDbl(Identity) = Identity /\ XDbl(Origin) = Identity /\ XDbl(Undefined) = Undefined
    /\ \A p, q \in {Identity, Origin, Undefined} : XAdd(p, Undefined, q) = Undefined /\ XAdd(Undefined, p, q) = Undefined
    /\ Foreign \notin {Identity, Origin, Undefined}
<1>1. PICK h \in Nat : Order = 4 * h /\ Order \div 2 = 2 * h /\ h > 0
      BY OrderFour
<1>2. Identity = Pt(0, 0) /\ Origin = Pt(0, 2 * h)
      <2>1. Vec(0, 0) = <<0, 0>> /\ Vec(0, 2 * h) = <<0, 2 * h>>
            <3>1. 0 % Order = 0 /\ (2 * h) % Order = 2 * h
                  BY <1>1
            <3> QED
                BY <3>1 DEF Vec
      <2> QED
          BY <1>1, <2>1, Zenon DEF Identity, Origin, Pt
<1>3. Identity # Foreign /\ Origin # Foreign /\ Undefined # Foreign
      <2>1. Pt(0, 0) # Foreign /\ Pt(0, 2 * h) # Foreign
            BY PtProper
      <2> QED
          BY <1>2, <2>1, Zenon DEF Undefined, Foreign
<1>4. XDbl(Pt(0, 0)) = Pt(2 * 0, 2 * 0) /\ XDbl(Pt(0, 2 * h)) = Pt(2 * 0, 2 * (2 * h))
      BY PtDouble
<1>5. Pt(2 * 0, 2 * 0) = Pt(0, 0)
      <2>1. 2 * 0 = 0
            OBVIOUS
      <2> QED
          BY <2>1, Zenon
<1>6. Pt(2 * 0, 2 * (2 * h)) = Pt(0, 0)
      <2>1. 2 * 0 = 0 /\ 2 * (2 * h) = Order
            BY <1>1
      <2>2. Order % Order = 0 % Order
            BY <1>1
      <2>3. Vec(0, Order) = Vec(0, 0)
            BY <2>2, Zenon DEF Vec
      <2> QED
          BY <2>1, <2>3, Zenon DEF Pt
<1>7. XDbl(Undefined) = Undefined
      BY <1>3 DEF XDbl, Undefined
<1>8. \A p, q \in {Identity, Origin, Undefined} : XAdd(p, Undefined, q) = Undefined /\ XAdd(Undefined, p, q) = Undefined
      BY <1>3, Zenon DEF XAdd
<1> QED
    BY <1>2, <1>3, <1>4, <1>5, <1>6, <1>7, <1>8, Zenon

LEMMA MaskRange ==
    ASSUME call.kbits \in 1..F
    PROVE  /\ 2 ^ call.kbits \in Nat \ {0}
           /\ \A x \in Nat : Mask(x) \in 0..(2 ^ call.kbits - 1) /\ Mask(x) \in Int
<1>1. 2 ^ call.kbits \in Nat \ {0}
      BY TwoPowers, Constants
<1>2. ASSUME NEW x \in Nat
      PROVE  Mask(x) \in 0..(2 ^ call.kbits - 1) /\ Mask(x) \in Int
      <2> DEFINE m == 2 ^ call.kbits
      <2>1. m \in Nat \ {0} /\ Mask(x) = x % m
            BY <1>1 DEF Mask
      <2> HIDE DEF m
      <2>2. x % m \in 0..(m - 1)
            BY <2>1, ModRange
      <2>3. Mask(x) \in 0..(m - 1)
            BY <2>1, <2>2, Zenon
      <2> QED
          BY <2>3 DEF m
<1> QED
    BY <1>1, <1>2

\* Entering the ladder with [a] P + [b] Q.
LEMMA LadderStart ==
    ASSUME BasisOK, call.kbits \in 1..F, call' = call,
           NEW x, NEW k \in Nat,
           st' = [r0 |-> Identity, r1 |-> x, p |-> x, k |-> k, prevbit |-> 0, i |-> call.kbits],
           HasZeroCoordinate(x) => (call.alg = "ladder" => x = P),
           ~HasZeroCoordinate(x) => \E a, b \in Int : x = Comb(a, b) /\ Comb(Mask(k) * a, Mask(k) * b) = Target
    PROVE  LadderInv'
<1>1. LadderShape'
      BY Constants DEF LadderShape
<1>2. /\ st'.p = x /\ st'.r0 = Identity /\ st'.r1 = x /\ st'.prevbit = 0 /\ st'.k = k /\ st'.i = call.kbits
      BY DEF LadderShape
<1>3. CASE HasZeroCoordinate(x)
      <2>1. Sinks'
            <3>1. call'.alg = "ladder" => st'.p = P'
                  BY <1>2, <1>3 DEF P
            <3> QED
                BY <1>2, <3>1, Zenon DEF Sinks
      <2> QED
          BY <1>1, <1>2, <1>3, <2>1, Zenon DEF LadderInv
<1>4. CASE ~HasZeroCoordinate(x)
      <2>1. PICK a, b \in Int : x = Comb(a, b) /\ Comb(Mask(k) * a, Mask(k) * b) = Target
            BY <1>4
      <2>2. Comb(0 * a, 0 * b) = Identity /\ Comb((0 + 1) * a, (0 + 1) * b) = x
            <3>1. 0 * a = 0 /\ 0 * b = 0 /\ (0 + 1) * a = a /\ (0 + 1) * b = b
                  OBVIOUS
            <3> QED
                BY <2>1, <3>1, CombNames, Zenon
      <2>3. 2 ^ call.kbits * 0 + (k % 2 ^ call.kbits) = Mask(k)
            BY MaskRange DEF Mask
      <2>4. Climbs(a, b, 0)'
            <3>1. Low' = Identity /\ High' = x
                  BY <1>2 DEF Low, High
            <3>2. Target' = Target /\ Mask(k)' = Mask(k) /\ Comb(a, b)' = Comb(a, b)
                  BY DEF Target, Mask, Comb
            <3>3. Comb(0 * a, 0 * b)' = Identity /\ Comb((0 + 1) * a, (0 + 1) * b)' = x
                  BY <2>2 DEF Comb
            <3>4. Comb(Mask(st.k) * a, Mask(st.k) * b)' = Target'
                  BY <1>2, <2>1 DEF Comb, Target, Mask
            <3>5. (2 ^ st.i * 0 + (st.k % 2 ^ st.i) = Mask(st.k))'
                  BY <1>2, <2>3 DEF Mask
            <3> QED
                BY <1>2, <2>1, <3>1, <3>2, <3>3, <3>4, <3>5 DEF Climbs
      <2> QED
          BY <1>1, <1>2, <1>4, <2>4 DEF LadderInv
<1> QED
    BY <1>3, <1>4

LEMMA BitRange == ASSUME NEW k \in Nat, NEW i \in 1..F PROVE Bit(k, i - 1) \in {0, 1}
<1> DEFINE h == 2 ^ (i - 1)
<1>1. i - 1 \in 0..(F + LimbBits)
      BY Constants
<1>2. h \in Nat \ {0}
      BY <1>1, TwoPowers
<1>3. (k \div h) % 2 \in {0, 1}
      <2> HIDE DEF h
      <2> QED
          BY <1>2, BitSplit
<1> QED
    BY <1>3 DEF Bit

\* The next bit of the number read from the top.
LEMMA NextBit ==
    ASSUME NEW k \in Nat, NEW i \in 1..F, NEW n \in Nat, NEW K, 2 ^ i * n + (k % 2 ^ i) = K
    PROVE  /\ Bit(k, i - 1) \in {0, 1}
           /\ 2 ^ (i - 1) * (2 * n + Bit(k, i - 1)) + (k % 2 ^ (i - 1)) = K
<1> DEFINE h == 2 ^ (i - 1)
           m == 2 ^ i
           r == k % h
           b == (k \div h) % 2
           s == k % m
<1>1. i - 1 \in 0..(F + LimbBits) /\ (i - 1) + 1 = i
      BY Constants
<1>2. h \in Nat \ {0} /\ m = 2 * h
      BY <1>1, TwoPowers
<1> HIDE DEF h, m
<1>3. k % (2 * h) = h * b + r /\ b \in {0, 1} /\ r \in Nat
      BY <1>2, BitSplit
<1>4. s = h * b + r /\ m * n + s = K
      BY <1>2, <1>3, Zenon DEF m
<1> HIDE DEF b, r, s
<1>5. h * (2 * n + b) + r = K
      BY ONLY <1>2, <1>3, <1>4, n \in Nat
<1> QED
    BY <1>3, <1>5, Zenon DEF Bit, b, r, h

\* One turn, from [n] p and [n + 1] p in order: doubles the one the bit asks for.
LEMMA LadderStep ==
    ASSUME BasisOK, NEW a \in Int, NEW b \in Int, NEW n \in Nat, ~HasZeroCoordinate(Comb(a, b))
    PROVE  /\ XDbl(Comb(n * a, n * b)) = Comb((2 * n) * a, (2 * n) * b)
           /\ XDbl(Comb((n + 1) * a, (n + 1) * b)) = Comb((2 * n + 2) * a, (2 * n + 2) * b)
           /\ XAdd(Comb(n * a, n * b), Comb((n + 1) * a, (n + 1) * b), Comb(a, b)) = Comb((2 * n + 1) * a, (2 * n + 1) * b)
           /\ XAdd(Comb((n + 1) * a, (n + 1) * b), Comb(n * a, n * b), Comb(a, b)) = Comb((2 * n + 1) * a, (2 * n + 1) * b)
<1> DEFINE x == n * a
           y == n * b
           z == (n + 1) * a
           t == (n + 1) * b
<1>1. /\ x \in Int /\ y \in Int /\ z \in Int /\ t \in Int
      /\ 2 * x = (2 * n) * a /\ 2 * y = (2 * n) * b /\ 2 * z = (2 * n + 2) * a /\ 2 * t = (2 * n + 2) * b
      /\ x - z = -a /\ y - t = -b /\ z - x = a /\ t - y = b
      /\ x + z = (2 * n + 1) * a /\ y + t = (2 * n + 1) * b
      /\ z + x = (2 * n + 1) * a /\ t + y = (2 * n + 1) * b
      OBVIOUS
<1> HIDE DEF x, y, z, t
<1>2. XDbl(Comb(x, y)) = Comb(2 * x, 2 * y) /\ XDbl(Comb(z, t)) = Comb(2 * z, 2 * t)
      BY <1>1, CombDouble
<1>3. Comb(-a, -b) = Comb(a, b)
      BY CombNeg
<1>4. XAdd(Comb(x, y), Comb(z, t), Comb(x - z, y - t)) =
          IF HasZeroCoordinate(Comb(x - z, y - t)) THEN Undefined ELSE Comb(x + z, y + t)
      BY <1>1, CombAdd
<1>5. XAdd(Comb(z, t), Comb(x, y), Comb(z - x, t - y)) =
          IF HasZeroCoordinate(Comb(z - x, t - y)) THEN Undefined ELSE Comb(z + x, t + y)
      BY <1>1, CombAdd
<1>6. XDbl(Comb(x, y)) = Comb((2 * n) * a, (2 * n) * b) /\ XDbl(Comb(z, t)) = Comb((2 * n + 2) * a, (2 * n + 2) * b)
      BY <1>1, <1>2, Zenon
<1>7. XAdd(Comb(x, y), Comb(z, t), Comb(a, b)) = Comb((2 * n + 1) * a, (2 * n + 1) * b)
      BY <1>1, <1>3, <1>4, Zenon
<1>8. XAdd(Comb(z, t), Comb(x, y), Comb(a, b)) = Comb((2 * n + 1) * a, (2 * n + 1) * b)
      BY <1>1, <1>5, Zenon
<1> QED
    BY <1>6, <1>7, <1>8, Zenon DEF x, y, z, t

LEMMA LadderTurnKeeps ==
    ASSUME CallInv, LadderInv, LadderTurn
    PROVE  LadderInv'
<1> DEFINE bit == Bit(st.k, st.i - 1)
           r0 == st.r0
           r1 == st.r1
           p == st.p
           x == IF (bit + st.prevbit) % 2 = 1 THEN r1 ELSE r0
           y == IF (bit + st.prevbit) % 2 = 1 THEN r0 ELSE r1
<1>1. /\ BasisOK /\ call.kbits \in 1..F /\ LadderShape /\ call' = call
      /\ st.k \in Nat /\ st.prevbit \in {0, 1} /\ st.i \in 1..call.kbits /\ st.i \in 1..F
      BY Constants DEF CallInv, LadderInv, LadderShape, LadderTurn
<1>2. bit \in {0, 1}
      BY <1>1, BitRange
<1>3. Turned(bit)[1] = x /\ Turned(bit)[2] = y
      <2> HIDE DEF bit
      <2> QED
          BY DEF Turned, Swapped
<1>4. st' = [r0 |-> XDbl(x), r1 |-> XAdd(x, y, p), p |-> p, k |-> st.k, prevbit |-> bit, i |-> st.i - 1]
      <2>1. st' = [st EXCEPT !.r0 = XDbl(Turned(bit)[1]), !.r1 = XAdd(Turned(bit)[1], Turned(bit)[2], st.p),
                            !.prevbit = bit, !.i = @ - 1]
            BY DEF LadderTurn
      <2>2. st' = [st EXCEPT !.r0 = XDbl(x), !.r1 = XAdd(x, y, p), !.prevbit = bit, !.i = @ - 1]
            BY <1>3, <2>1
      <2> HIDE DEF x, y, bit
      <2> QED
          BY <1>1, <2>2 DEF LadderShape
<1>5. /\ st'.r0 = XDbl(x) /\ st'.r1 = XAdd(x, y, p) /\ st'.p = p /\ st'.k = st.k
      /\ st'.prevbit = bit /\ st'.i = st.i - 1
      <2> HIDE DEF x, y, bit, p
      <2> QED
          BY <1>4
<1>6. LadderShape'
      <2>1. st' = [r0 |-> st'.r0, r1 |-> st'.r1, p |-> st'.p, k |-> st'.k, prevbit |-> st'.prevbit, i |-> st'.i]
            <3> HIDE DEF x, y, bit, p
            <3> QED
                BY <1>4, <1>5, Zenon
      <2>2. st'.k \in Nat /\ st'.prevbit \in {0, 1} /\ st'.i \in 0..call'.kbits
            <3> HIDE DEF x, y, bit, p
            <3> QED
                BY <1>1, <1>2, <1>5
      <2> QED
          BY <2>1, <2>2, Zenon DEF LadderShape
<1> HIDE DEF bit
<1>7. CASE HasZeroCoordinate(p)
      <2>1. Sinks
            BY <1>7 DEF LadderInv
      <2>2. p \in {Identity, Origin, Undefined}
            BY <1>7 DEF HasZeroCoordinate
      <2>3. XDbl(x) \in {Identity, Undefined} /\ XAdd(x, y, p) = Undefined
            <3>1. CASE r0 = Identity /\ r1 = p /\ st.prevbit = 0
                  <4>1. {x, y} = {Identity, p} /\ x \in {Identity, p} /\ y \in {Identity, p}
                        BY <3>1
                  <4>2. XDbl(x) \in {Identity, Undefined}
                        BY <2>2, <4>1, Marked
                  <4>3. CASE p = Undefined
                        BY <4>1, <4>3, Marked
                  <4>4. CASE p # Undefined
                        <5>1. p \in Sums(x, y)
                              <6>1. PICK h \in Nat : Order = 4 * h /\ Order \div 2 = 2 * h /\ h > 0
                                    BY OrderFour
                              <6>2. \E c \in {0, 2 * h} : p = Pt(0, c)
                                    <7>1. Vec(0, 0) = <<0, 0>> /\ Vec(0, 2 * h) = <<0, 2 * h>>
                                          <8>1. 0 % Order = 0 /\ (2 * h) % Order = 2 * h
                                                BY <6>1
                                          <8> QED
                                              BY <8>1 DEF Vec
                                    <7>2. Identity = Pt(0, 0) /\ Origin = Pt(0, 2 * h)
                                          BY <6>1, <7>1, Zenon DEF Identity, Origin, Pt
                                    <7> QED
                                        BY <2>2, <4>4, <7>2, Zenon
                              <6>3. PICK c \in {0, 2 * h} : p = Pt(0, c)
                                    BY <6>2
                              <6>4. Identity = Pt(0, 0) /\ c \in Int
                                    <7>1. Vec(0, 0) = <<0, 0>>
                                          BY OrderLarge DEF Vec
                                    <7>2. Identity = Pt(0, 0)
                                          BY <7>1, Zenon DEF Identity, Pt
                                    <7>3. c \in Int
                                          BY <6>1
                                    <7> QED
                                        BY <7>2, <7>3
                              <6>5. Sums(Pt(0, 0), Pt(0, c)) = {Pt(0 + 0, 0 + c), Pt(0 - 0, 0 - c)}
                                    BY <6>4, PtSums
                              <6>6. Sums(Pt(0, c), Pt(0, 0)) = {Pt(0 + 0, c + 0), Pt(0 - 0, c - 0)}
                                    BY <6>4, PtSums
                              <6>7. 0 + 0 = 0 /\ 0 + c = c /\ c + 0 = c
                                    BY <6>4
                              <6>8. p \in Sums(Identity, p) /\ p \in Sums(p, Identity)
                                    BY <6>3, <6>4, <6>5, <6>6, <6>7, Zenon
                              <6> QED
                                  BY <3>1, <6>8
                        <5>2. Foreign \notin {x, y, p}
                              BY <2>2, <4>1, Marked
                        <5>3. Undefined \notin {x, y, p}
                              <6>1. Identity # Undefined
                                    BY DEF Identity, Undefined, Point
                              <6> QED
                                  BY <4>1, <4>4, <6>1
                        <5> HIDE DEF x, y, p
                        <5>4. XAdd(x, y, p) = Undefined
                              BY <1>7, <5>1, <5>2, <5>3, Zenon DEF XAdd
                        <5> QED
                            BY <4>2, <5>4
                  <4> QED
                      BY <4>2, <4>3, <4>4
            <3>2. CASE r0 \in {Identity, Undefined} /\ r1 = Undefined
                  BY <2>2, <3>2, Marked
            <3> QED
                BY <2>1, <3>1, <3>2 DEF Sinks
      <2>4. Sinks'
            <3> HIDE DEF x, y, p
            <3>1. call.alg = "ladder" => p = P
                  BY <2>1 DEF Sinks, p
            <3>2. P' = P
                  BY <1>1 DEF P
            <3> QED
                BY <1>1, <1>5, <2>3, <3>1, <3>2, Zenon DEF Sinks
      <2> HIDE DEF x, y, p
      <2> QED
          BY <1>5, <1>6, <1>7, <2>4, Zenon DEF LadderInv
<1>8. CASE ~HasZeroCoordinate(p)
      <2>1. PICK a, b, n : Climbs(a, b, n)
            BY <1>8 DEF LadderInv
      <2>2. a \in Int /\ b \in Int /\ n \in Nat /\ p = Comb(a, b) /\ ~HasZeroCoordinate(Comb(a, b))
            BY <1>8, <2>1 DEF Climbs
      <2>3. Low = Comb(n * a, n * b) /\ High = Comb((n + 1) * a, (n + 1) * b)
            BY <2>1 DEF Climbs
      <2>4. PICK m \in Nat : m = 2 * n + bit
            BY <1>2, <2>2
      <2>5. 2 ^ (st.i - 1) * m + (st.k % 2 ^ (st.i - 1)) = Mask(st.k)
            <3>1. 2 ^ st.i * n + (st.k % 2 ^ st.i) = Mask(st.k)
                  BY <2>1 DEF Climbs
            <3>2. 2 ^ (st.i - 1) * (2 * n + bit) + (st.k % 2 ^ (st.i - 1)) = Mask(st.k)
                  BY <1>1, <2>2, <3>1, NextBit DEF bit
            <3> QED
                BY <2>4, <3>2, Zenon
      <2>6. /\ bit = 0 => x = Low /\ y = High
            /\ bit = 1 => x = High /\ y = Low
            BY <1>1 DEF Low, High
      <2>7. /\ XDbl(Comb(n * a, n * b)) = Comb((2 * n) * a, (2 * n) * b)
            /\ XDbl(Comb((n + 1) * a, (n + 1) * b)) = Comb((2 * n + 2) * a, (2 * n + 2) * b)
            /\ XAdd(Comb(n * a, n * b), Comb((n + 1) * a, (n + 1) * b), Comb(a, b)) = Comb((2 * n + 1) * a, (2 * n + 1) * b)
            /\ XAdd(Comb((n + 1) * a, (n + 1) * b), Comb(n * a, n * b), Comb(a, b)) = Comb((2 * n + 1) * a, (2 * n + 1) * b)
            BY <1>1, <2>2, LadderStep
      <2>8. Low' = Comb(m * a, m * b) /\ High' = Comb((m + 1) * a, (m + 1) * b)
            <3> HIDE DEF x, y, p
            <3>1. CASE bit = 0
                  <4>1. Low' = XDbl(x) /\ High' = XAdd(x, y, p)
                        BY <1>5, <3>1 DEF Low, High
                  <4>2. m = 2 * n /\ m + 1 = 2 * n + 1
                        BY <2>2, <2>4, <3>1
                  <4> QED
                      BY <2>2, <2>3, <2>6, <2>7, <3>1, <4>1, <4>2, Zenon
            <3>2. CASE bit = 1
                  <4>1. Low' = XAdd(x, y, p) /\ High' = XDbl(x)
                        BY <1>5, <3>2 DEF Low, High
                  <4>2. m = 2 * n + 1 /\ m + 1 = 2 * n + 2
                        BY <2>2, <2>4, <3>2
                  <4> QED
                      BY <2>2, <2>3, <2>6, <2>7, <3>2, <4>1, <4>2, Zenon
            <3> QED
                BY <1>2, <3>1, <3>2
      <2> HIDE DEF x, y, p
      <2>9. Climbs(a, b, m)'
            <3>1. Comb(Mask(st.k) * a, Mask(st.k) * b)' = Comb(Mask(st.k) * a, Mask(st.k) * b) /\ Target' = Target
                  BY <1>1, <1>5 DEF Comb, Target, Mask
            <3>2. Comb(a, b)' = Comb(a, b) /\ Comb(m * a, m * b)' = Comb(m * a, m * b)
                  /\ Comb((m + 1) * a, (m + 1) * b)' = Comb((m + 1) * a, (m + 1) * b)
                  BY <1>1 DEF Comb
            <3>3. (2 ^ st.i * m + (st.k % 2 ^ st.i) = Mask(st.k))'
                  BY <1>1, <1>5, <2>5 DEF Mask
            <3>4. Comb(Mask(st.k) * a, Mask(st.k) * b) = Target
                  BY <2>1 DEF Climbs
            <3> QED
                BY <1>5, <2>2, <2>4, <2>8, <3>1, <3>2, <3>3, <3>4 DEF Climbs
      <2> QED
          BY <1>5, <1>6, <1>8, <2>9 DEF LadderInv
<1> QED
    BY <1>7, <1>8

\* Answers with the target, with a refusal, and with anything where the point
\* has a zero coordinate.
LEMMA LadderAnswers ==
    ASSUME BasisOK, call.k \in Nat, call.l \in Nat, call.kbits \in 1..F, call' = call,
           call.alg \in {"ladder", "verif"},
           \/ out' = Target
           \/ call.alg = "verif" /\ out' = None
           \/ call.alg = "ladder" /\ HasZeroCoordinate(P) /\ out' # None
    PROVE  Answered'
<1>1. Mask(call.k) \in Int /\ Mask(call.l) \in Int
      BY MaskRange
<1>2. Target # None
      BY <1>1, CombProper DEF Target
<1>3. Combination(Mask(call.k), 0) = Comb(Mask(call.k), 0) /\ Combination(Mask(call.k), Mask(call.l)) = Comb(Mask(call.k), Mask(call.l))
      BY <1>1, CombExpected
<1>4. Target \in Expected
      <2>1. CASE call.alg = "ladder"
            BY <1>3, <2>1 DEF Target, Expected
      <2>2. CASE call.alg = "verif"
            BY <1>3, <2>2 DEF Target, Expected
      <2> QED
          BY <2>1, <2>2
<1>5. Expected' = Expected /\ HasZeroCoordinate(P)' = HasZeroCoordinate(P)
      <2>1. P' = P /\ Capacity' = Capacity /\ Mask(call.k)' = Mask(call.k) /\ Mask(call.l)' = Mask(call.l)
            BY DEF P, Capacity, Mask
      <2>2. Expected' = Expected
            <3>1. CASE call.alg = "ladder"
                  BY <2>1, <3>1 DEF Expected, Combination
            <3>2. CASE call.alg = "verif"
                  BY <2>1, <3>2 DEF Expected, Combination
            <3> QED
                BY <3>1, <3>2
      <2> QED
          BY <2>1, <2>2 DEF HasZeroCoordinate
<1>6. PointRight'
      BY <1>4, <1>5 DEF PointRight
<1>7. call.alg = "ladder" => RefusalRight'
      BY <1>2 DEF RefusalRight
<1> QED
    BY <1>6, <1>7 DEF Answered, ResultRight

\* The point and the marks have no name in common with None.
LEMMA NoneIsNoPoint == None \notin {Identity, Origin, Undefined}
<1>1. None # Undefined
      BY DEF None, Undefined
<1>2. Order # 0 /\ Order \div 2 # Order /\ Order \in Nat
      BY OrderLarge
<1>3. <<0, 0>> # <<0, Order>> /\ <<0, Order \div 2>> # <<0, Order>>
      BY <1>2
<1> QED
    BY <1>1, <1>3 DEF None, Identity, Origin, Point

LEMMA LadderEndKeeps ==
    ASSUME CallInv, LadderInv, LadderEnd
    PROVE  Answered' /\ (~HasZeroCoordinate(st.p) => Low = Target)
<1>1. /\ BasisOK /\ call.kbits \in 1..F /\ LadderShape /\ call' = call /\ call.k \in Nat /\ call.l \in Nat
      /\ st.k \in Nat /\ st.prevbit \in {0, 1} /\ st.i = 0 /\ call.alg \in {"ladder", "verif"}
      BY DEF CallInv, LadderInv, LadderShape, LadderEnd
<1>2. out' = IF call.alg = "verif" /\ HasZeroCoordinate(Low) THEN None ELSE Low
      <2>1. Swapped(st.prevbit, <<st.r0, st.r1>>)[1] = Low
            BY DEF Swapped, Low
      <2> QED
          BY <2>1, Zenon DEF LadderEnd, Return
<1>3. CASE HasZeroCoordinate(st.p)
      <2>1. Sinks
            BY <1>3 DEF LadderInv
      <2>2. st.p \in {Identity, Origin, Undefined}
            BY <1>3 DEF HasZeroCoordinate
      <2>3. Low \in {Identity, Origin, Undefined}
            BY <1>1, <2>1, <2>2 DEF Sinks, Low
      <2>4. HasZeroCoordinate(Low) /\ Low # None
            BY <2>3, NoneIsNoPoint DEF HasZeroCoordinate
      <2>5. call.alg = "ladder" => HasZeroCoordinate(P)
            BY <1>3, <2>1, Zenon DEF Sinks
      <2>6. call.alg = "verif" => out' = None
            BY <1>2, <2>4
      <2>7. call.alg = "ladder" => out' # None
            BY <1>2, <2>4
      <2> QED
          BY <1>1, <1>3, <2>5, <2>6, <2>7, LadderAnswers
<1>4. CASE ~HasZeroCoordinate(st.p)
      <2>1. PICK a, b, n : Climbs(a, b, n)
            BY <1>4 DEF LadderInv
      <2>2. n = Mask(st.k)
            <3>1. 2 ^ st.i * n + (st.k % 2 ^ st.i) = Mask(st.k) /\ n \in Nat
                  BY <2>1 DEF Climbs
            <3>2. 2 ^ st.i = 1
                  BY <1>1, PowerAssumption
            <3>3. 1 * n + (st.k % 1) = Mask(st.k)
                  BY <3>1, <3>2
            <3>4. st.k % 1 = 0
                  BY <1>1
            <3> QED
                BY <3>1, <3>3, <3>4
      <2>3. Low = Target
            BY <2>1, <2>2, Zenon DEF Climbs
      <2>4. out' = Target \/ (call.alg = "verif" /\ out' = None)
            BY <1>2, <2>3
      <2> QED
          BY <1>1, <2>3, <2>4, LadderAnswers
<1> QED
    BY <1>3, <1>4

LEMMA LadderEnterKeeps ==
    ASSUME CallInv, LadderEnter
    PROVE  LadderInv'
<1>1. /\ BasisOK /\ call.kbits \in 1..F /\ call' = call /\ call.k \in Nat /\ call.alg = "ladder"
      /\ st' = [r0 |-> Identity, r1 |-> P, p |-> P, k |-> call.k, prevbit |-> 0, i |-> call.kbits]
      BY DEF CallInv, LadderEnter, Ladder
<1>2. P = Comb(1, 0) /\ 1 \in Int /\ 0 \in Int
      BY <1>1, CombNames
<1>3. Comb(Mask(call.k) * 1, Mask(call.k) * 0) = Target
      <2>1. Mask(call.k) * 1 = Mask(call.k) /\ Mask(call.k) * 0 = 0
            BY <1>1, MaskRange
      <2>2. Target = Comb(Mask(call.k), 0)
            BY <1>1 DEF Target
      <2> QED
          BY <2>1, <2>2, Zenon
<1>4. \E a, b \in Int : P = Comb(a, b) /\ Comb(Mask(call.k) * a, Mask(call.k) * b) = Target
      BY <1>2, <1>3
<1> HIDE DEF P
<1> QED
    BY <1>1, <1>4, LadderStart

---------------------------------------------------------------------------
(* The three-point ladder.                                                 *)

\* The exponent of the capacity of a scalar's limbs.
LEMMA ExponentRange ==
    ASSUME call.kbits \in 1..F
    PROVE  Exponent \in call.kbits..(F + LimbBits - 1) /\ Capacity = 2 ^ Exponent /\ 2 ^ Exponent \in Nat \ {0}
<1> DEFINE w == call.kbits
           q == (w + LimbBits - 1) \div LimbBits
           a == w + LimbBits - 1
           r == a % LimbBits
<1>1. a \in Int /\ LimbBits \in Nat \ {0} /\ w \in 1..F /\ F \in Nat
      BY Constants
<1>2. a = LimbBits * q + r /\ r \in 0..(LimbBits - 1) /\ q \in Int
      <2> HIDE DEF w
      <2>1. \A c \in Int : c = LimbBits * (c \div LimbBits) + (c % LimbBits) /\ c % LimbBits \in 0..(LimbBits - 1)
                                /\ c \div LimbBits \in Int
            BY <1>1, DivMod
      <2> QED
          BY <1>1, <2>1, Zenon
<1> DEFINE e == LimbBits * q
<1>3. Exponent = e
      BY Zenon DEF Exponent
<1> HIDE DEF q, r
<1>4. e \in Int
      BY <1>1, <1>2
<1> HIDE DEF e, w
<1>5. e \in w..(F + LimbBits - 1)
      <2>1. w + LimbBits - 1 = e + r
            BY <1>2 DEF e
      <2> QED
          BY <1>1, <1>2, <1>4, <2>1
<1>6. Exponent \in call.kbits..(F + LimbBits - 1)
      BY <1>3, <1>5 DEF w
<1>7. 2 ^ Exponent \in Nat \ {0}
      <2>1. Exponent \in 0..(F + LimbBits)
            BY <1>6, Constants
      <2> QED
          BY <2>1, TwoPowers
<1> QED
    BY <1>6, <1>7 DEF Capacity, Exponent

\* A scalar of kbits bits fits.
LEMMA CapacityLarge ==
    ASSUME call.kbits \in 1..F
    PROVE  2 ^ call.kbits <= Capacity /\ Capacity \in Nat \ {0}
<1>1. Exponent \in 0..(F + LimbBits) /\ call.kbits \in 0..Exponent
      BY ExponentRange, Constants
<1> QED
    BY <1>1, ExponentRange, PowersGrow

\* Points that are marks only where P and Q are no basis.
LEMMA MarkedAdd ==
    ASSUME BasisOK, NEW a \in Int, NEW b \in Int, NEW c \in Int, NEW d \in Int,
           NEW q \in {Comb(c, d)} \cup Marks, NEW r \in {Comb(a - c, b - d)} \cup Marks,
           ~Even(a - c) \/ ~Even(b - d)
    PROVE  XAdd(Comb(a, b), q, r) \in {Comb(a + c, b + d)} \cup Marks
<1>1. Comb(a, b) # Foreign /\ Comb(a, b) # Undefined
      BY CombProper
<1>2. Comb(c, d) # Foreign /\ Comb(a - c, b - d) # Foreign
      BY CombProper
<1>3. Undefined # Foreign
      BY Marked
<1>4. CASE q = Comb(c, d) /\ r = Comb(a - c, b - d)
      <2>1. XAdd(Comb(a, b), q, r) = IF HasZeroCoordinate(Comb(a - c, b - d)) THEN Undefined ELSE Comb(a + c, b + d)
            BY <1>4, CombAdd
      <2>2. FullBasis => ~HasZeroCoordinate(Comb(a - c, b - d))
            BY CombRegular
      <2> QED
          BY <2>1, <2>2 DEF Marks
<1>5. CASE Undefined \in {q, r} /\ ~FullBasis
      <2>1. Foreign \notin {Comb(a, b), q, r}
            BY <1>1, <1>2, <1>3 DEF Marks
      <2>2. XAdd(Comb(a, b), q, r) = Undefined
            BY <1>5, <2>1, Zenon DEF XAdd
      <2> QED
          BY <1>5, <2>2 DEF Marks
<1> QED
    BY <1>4, <1>5 DEF Marks

LEMMA Ladder3ptEnterKeeps ==
    ASSUME CallInv, Ladder3ptEnter
    PROVE  (pc' = "ladder3pt" => Ladder3Inv') /\ Answered'
<1>1. /\ BasisOK /\ call.kbits \in 1..F /\ call' = call /\ curve' = curve /\ call.k \in Nat /\ call.alg = "ladder3pt"
      BY DEF CallInv, Ladder3ptEnter
<1>2. CASE ~curve.cached \/ HasZeroCoordinate(PmQ)
      <2>1. pc' = "done" /\ out' = None
            BY <1>2 DEF Ladder3ptEnter, Return
      <2>2. Refused'
            BY <1>1, <1>2 DEF Refused, PmQ, HasZeroCoordinate
      <2> QED
          BY <1>1, <2>1, <2>2 DEF Answered, ResultRight, PointRight, RefusalRight
<1>3. CASE ~(~curve.cached \/ HasZeroCoordinate(PmQ))
      <2>1. pc' = "ladder3pt" /\ st' = [x0 |-> Q, x1 |-> P, x2 |-> PmQ, i |-> 0]
            BY <1>3 DEF Ladder3ptEnter
      <2>2. st'.x0 = Q /\ st'.x1 = P /\ st'.x2 = PmQ /\ st'.i = 0
            BY <2>1
      <2>3. 2 ^ 0 = 1 /\ call.k % 2 ^ 0 = 0 /\ 0 - 1 = -1
            <3>1. 2 ^ 0 = 1
                  BY PowerAssumption
            <3>2. call.k % 1 = 0
                  BY <1>1
            <3> QED
                BY <3>1, <3>2
      <2>4. Q = Comb(0, 2 ^ 0) /\ P = Comb(1, call.k % 2 ^ 0) /\ PmQ = Comb(1, (call.k % 2 ^ 0) - 2 ^ 0)
            BY <1>1, <2>3, CombNames
      <2>5. st'.i \in 0..Exponent
            BY <1>1, <2>2, ExponentRange
      <2>6. /\ Comb(0, 2 ^ 0)' = Comb(0, 2 ^ 0) /\ Comb(1, call.k % 2 ^ 0)' = Comb(1, call.k % 2 ^ 0)
            /\ Comb(1, (call.k % 2 ^ 0) - 2 ^ 0)' = Comb(1, (call.k % 2 ^ 0) - 2 ^ 0) /\ Exponent' = Exponent
            BY <1>1 DEF Comb, Exponent
      <2>7. st' = [x0 |-> st'.x0, x1 |-> st'.x1, x2 |-> st'.x2, i |-> st'.i]
            BY <2>1, <2>2
      <2>8. Ladder3Inv'
            <3>1. st'.x0 = Comb(0, 2 ^ st.i)' /\ st'.x1 = Comb(1, call.k % 2 ^ st.i)'
                  /\ st'.x2 = Comb(1, (call.k % 2 ^ st.i) - 2 ^ st.i)'
                  BY <1>1, <2>2, <2>4 DEF Comb
            <3> QED
                BY <2>5, <2>6, <2>7, <3>1 DEF Ladder3Inv
      <2> QED
          BY <2>1, <2>8 DEF Answered, ResultRight, PointRight, RefusalRight
<1> QED
    BY <1>2, <1>3

LEMMA Ladder3ptTurnKeeps ==
    ASSUME CallInv, Ladder3Inv, Ladder3ptTurn
    PROVE  Ladder3Inv'
<1> DEFINE i == st.i
           h == 2 ^ i
           k == call.k
           r == k % h
           bit == Bit(k, i)
<1>1. /\ BasisOK /\ call.kbits \in 1..F /\ call' = call /\ k \in Nat
      /\ st = [x0 |-> st.x0, x1 |-> st.x1, x2 |-> st.x2, i |-> i]
      BY DEF CallInv, Ladder3Inv, Ladder3ptTurn
<1>2. /\ st.x0 = Comb(0, h) /\ st.x1 \in {Comb(1, r)} \cup Marks /\ st.x2 \in {Comb(1, r - h)} \cup Marks
      BY DEF Ladder3Inv
<1>3. i \in 0..(Exponent - 1) /\ i + 1 \in 0..Exponent /\ i \in 0..(F + LimbBits)
      <2>1. Exponent \in call.kbits..(F + LimbBits - 1) /\ Capacity = 2 ^ Exponent /\ 2 ^ Exponent \in Nat
            BY <1>1, ExponentRange
      <2>2. i \in 0..Exponent /\ h < Capacity
            BY DEF Ladder3Inv, Ladder3ptTurn
      <2>3. i # Exponent
            <3>1. i = Exponent => h = Capacity
                  BY <2>1
            <3> HIDE DEF h
            <3> QED
                BY <2>1, <2>2, <3>1
      <2> QED
          BY <1>1, <2>1, <2>2, <2>3, Constants
<1>4. h \in Nat \ {0} /\ 2 ^ (i + 1) = 2 * h
      BY <1>3, TwoPowers
<1>5. k % (2 * h) = h * ((k \div h) % 2) + r /\ (k \div h) % 2 \in {0, 1} /\ r \in Nat
      <2> HIDE DEF h
      <2> QED
          BY <1>1, <1>4, BitSplit
<1>6. k % 2 ^ (i + 1) = h * bit + r /\ bit \in {0, 1} /\ bit = Bit(call.k, st.i)
      BY <1>4, <1>5, Zenon DEF Bit
<1> HIDE DEF h, r, bit, k
<1>7. XDbl(st.x0) = Comb(0, 2 * h)
      <2>1. 0 \in Int /\ h \in Int /\ 2 * 0 = 0
            BY <1>4
      <2>2. XDbl(Comb(0, h)) = Comb(2 * 0, 2 * h)
            BY <1>1, <2>1, CombDouble
      <2> QED
          BY <1>2, <2>1, <2>2, Zenon
<1> DEFINE R == k % 2 ^ (i + 1)
           H == 2 ^ (i + 1)
<1>8. H = 2 * h /\ R = h * bit + r /\ h \in Int /\ r \in Int
      BY <1>4, <1>5, <1>6
<1>0. ASSUME st'.x0 = Comb(0, H), st'.x1 \in {Comb(1, R)} \cup Marks, st'.x2 \in {Comb(1, R - H)} \cup Marks,
             st' = [x0 |-> st'.x0, x1 |-> st'.x1, x2 |-> st'.x2, i |-> st'.i], st'.i = i + 1
      PROVE  Ladder3Inv'
      <2>1. Marks' = Marks /\ Exponent' = Exponent
            BY <1>1 DEF Marks, FullBasis, Exponent
      <2>2. /\ Comb(0, 2 ^ st.i)' = Comb(0, H) /\ Comb(1, call.k % 2 ^ st.i)' = Comb(1, R)
            /\ Comb(1, (call.k % 2 ^ st.i) - 2 ^ st.i)' = Comb(1, R - H)
            BY <1>0, <1>1 DEF Comb, H, R, k
      <2>3. st'.i \in 0..Exponent'
            BY <1>0, <1>3, <2>1
      <2> HIDE DEF i
      <2> QED
          BY <1>0, <2>1, <2>2, <2>3 DEF Ladder3Inv
<1> HIDE DEF R, H
<1>9. CASE bit = 1
      <2>1. st' = [st EXCEPT !.x0 = XDbl(st.x0), !.x1 = XAdd(st.x0, st.x1, st.x2), !.i = @ + 1]
            BY <1>6, <1>9 DEF Ladder3ptTurn
      <2>2. st' = [x0 |-> XDbl(st.x0), x1 |-> XAdd(st.x0, st.x1, st.x2), x2 |-> st.x2, i |-> i + 1]
            BY <1>1, <2>1
      <2>3. R = r + h /\ r - h = R - H
            BY <1>8, <1>9
      <2>4. XAdd(st.x0, st.x1, st.x2) \in {Comb(1, R)} \cup Marks
            <3>1. 0 - 1 = -1 /\ h - r = -(r - h) /\ 0 + 1 = 1 /\ h + r = R
                  BY <1>8, <2>3
            <3>2. Comb(-1, -(r - h)) = Comb(1, r - h)
                  BY <1>1, <1>8, CombNeg
            <3>3. ~Even(0 - 1)
                  BY DEF Even
            <3>4. st.x2 \in {Comb(0 - 1, h - r)} \cup Marks
                  BY <1>2, <3>1, <3>2, Zenon
            <3>5. XAdd(Comb(0, h), st.x1, st.x2) \in {Comb(0 + 1, h + r)} \cup Marks
                  <4>1. 0 \in Int /\ 1 \in Int
                        OBVIOUS
                  <4> QED
                      BY ONLY <1>1, <1>2, <1>8, <3>3, <3>4, <4>1, MarkedAdd
            <3> QED
                BY <1>2, <3>1, <3>5, Zenon
      <2>5. st.x2 \in {Comb(1, R - H)} \cup Marks
            BY <1>2, <2>3, Zenon
      <2>6. st'.x0 = Comb(0, H) /\ st'.x1 \in {Comb(1, R)} \cup Marks /\ st'.x2 \in {Comb(1, R - H)} \cup Marks
            BY <1>7, <1>8, <2>2, <2>4, <2>5
      <2>7. st' = [x0 |-> st'.x0, x1 |-> st'.x1, x2 |-> st'.x2, i |-> st'.i] /\ st'.i = i + 1
            BY <2>2
      <2> QED
          BY <1>0, <2>6, <2>7
<1>10. CASE bit = 0
      <2>1. st' = [st EXCEPT !.x0 = XDbl(st.x0), !.x2 = XAdd(st.x0, st.x2, st.x1), !.i = @ + 1]
            BY <1>6, <1>10 DEF Ladder3ptTurn
      <2>2. st' = [x0 |-> XDbl(st.x0), x1 |-> st.x1, x2 |-> XAdd(st.x0, st.x2, st.x1), i |-> i + 1]
            BY <1>1, <2>1
      <2>3. R = r
            BY <1>8, <1>10
      <2>4. XAdd(st.x0, st.x2, st.x1) \in {Comb(1, R - H)} \cup Marks
            <3>1. 0 - 1 = -1 /\ -h - (r - h) = -r /\ 0 + 1 = 1 /\ -h + (r - h) = R - H /\ -h \in Int /\ r - h \in Int
                  BY <1>8, <2>3
            <3>2. Comb(-1, -r) = Comb(1, r)
                  BY <1>1, <1>8, CombNeg
            <3>3. ~Even(0 - 1)
                  BY DEF Even
            <3>4. st.x1 \in {Comb(0 - 1, -h - (r - h))} \cup Marks
                  BY <1>2, <3>1, <3>2, Zenon
            <3>5. st.x0 = Comb(0, -h)
                  <4>1. Comb(-0, -h) = Comb(0, h) /\ 0 \in Int
                        BY <1>1, <1>8, CombNeg
                  <4>2. -0 = 0
                        BY MinusZero
                  <4> QED
                      BY <1>2, <4>1, <4>2, Zenon
            <3>6. XAdd(Comb(0, -h), st.x2, st.x1) \in {Comb(0 + 1, -h + (r - h))} \cup Marks
                  <4>1. 0 \in Int /\ 1 \in Int
                        OBVIOUS
                  <4> QED
                      BY ONLY <1>1, <1>2, <1>8, <3>1, <3>3, <3>4, <4>1, MarkedAdd
            <3> QED
                BY <3>1, <3>5, <3>6, Zenon
      <2>5. st.x1 \in {Comb(1, R)} \cup Marks
            BY <1>2, <2>3, Zenon
      <2>6. st'.x0 = Comb(0, H) /\ st'.x1 \in {Comb(1, R)} \cup Marks /\ st'.x2 \in {Comb(1, R - H)} \cup Marks
            BY <1>7, <1>8, <2>2, <2>4, <2>5
      <2>7. st' = [x0 |-> st'.x0, x1 |-> st'.x1, x2 |-> st'.x2, i |-> st'.i] /\ st'.i = i + 1
            BY <2>2
      <2> QED
          BY <1>0, <2>6, <2>7
<1> QED
    BY <1>6, <1>9, <1>10

LEMMA Ladder3ptEndKeeps ==
    ASSUME CallInv, Ladder3Inv, Ladder3ptEnd
    PROVE  Answered'
<1>1. /\ BasisOK /\ call.kbits \in 1..F /\ call' = call /\ call.k \in Nat /\ call.alg = "ladder3pt"
      /\ pc' = "done" /\ out' = st.x1 /\ 2 ^ st.i = Capacity
      BY DEF CallInv, Ladder3ptEnd, Return
<1>2. st.x1 \in {Comb(1, call.k % Capacity)} \cup Marks
      BY <1>1, Zenon DEF Ladder3Inv
<1>3. call.k % Capacity \in Int
      <2>1. Capacity \in Nat \ {0}
            BY <1>1, CapacityLarge
      <2> DEFINE c == Capacity
                 k == call.k
      <2>2. c \in Nat \ {0} /\ k \in Int
            BY <1>1, <2>1
      <2> HIDE DEF c, k
      <2>3. k % c \in Int
            BY <2>2, SameResidue
      <2> QED
          BY <2>3 DEF c, k
<1>4. Combination(1, call.k % Capacity) = Comb(1, call.k % Capacity) /\ Comb(1, call.k % Capacity) # None
      BY <1>1, <1>3, CombExpected, CombProper
<1>5. Expected' = {Combination(1, call.k % Capacity)} /\ Marks' = Marks
      <2>1. Capacity' = Capacity
            BY <1>1 DEF Capacity
      <2>2. Combination(1, call.k % Capacity)' = Combination(1, call.k % Capacity)
            BY <1>1, <2>1 DEF Combination
      <2>3. Expected' = {Combination(1, call.k % Capacity)}
            BY <1>1, <2>2 DEF Expected
      <2> QED
          BY <1>1, <2>3 DEF Marks, FullBasis
<1>6. PointRight'
      BY <1>1, <1>2, <1>4, <1>5 DEF PointRight, Marks
<1>7. Undefined # None
      BY NoneIsNoPoint
<1>8. out' # None
      BY <1>1, <1>2, <1>4, <1>7 DEF Marks
<1> QED
    BY <1>1, <1>6, <1>8 DEF Answered, ResultRight, RefusalRight

---------------------------------------------------------------------------
(* The reduction of two scalars.                                           *)

\* What one step reaches: nothing is said of what will be refused.
Reached(v) == EuclidShape(v) /\ (Regular(v) => \E a, b, c, d : Weighs(v, a, b, c, d))

LEMMA WeighsLeads ==
    ASSUME NEW u, NEW a, NEW b, NEW c, NEW d, Weighs(u, a, b, c, d), u.s0 = 0, u.s1 \in Int
    PROVE  Leads(u, c, d)
<1> DEFINE s == u.s1
           k == Mask(call.k)
           l == Mask(call.l)
<1>1. /\ a \in Int /\ b \in Int /\ c \in Int /\ d \in Int /\ s \in Int /\ u.x1 = Comb(c, d)
      /\ 0 * a + s * c = k /\ 0 * b + s * d = l
      BY DEF Weighs
<1> HIDE DEF s, k, l
<1>2. s * c = k /\ s * d = l
      BY <1>1
<1> QED
    BY <1>1, <1>2 DEF Leads, s, k, l

LEMMA Reach ==
    ASSUME NEW s0 \in 0..(2 ^ call.kbits - 1), NEW s1 \in 0..(2 ^ call.kbits - 1), NEW x0, NEW x1, NEW xdiff,
           NEW v, v = [s0 |-> s0, s1 |-> s1, x0 |-> x0, x1 |-> x1, xdiff |-> xdiff],
           NEW a \in Int, NEW b \in Int, NEW c \in Int, NEW d \in Int,
           s0 * a + s1 * c = Mask(call.k), s0 * b + s1 * d = Mask(call.l),
           ~HasZeroCoordinate(x0) /\ ~HasZeroCoordinate(x1) /\ ~HasZeroCoordinate(xdiff) =>
               x0 = Comb(a, b) /\ x1 = Comb(c, d) /\ xdiff = Comb(a - c, b - d)
    PROVE  Reached(v)
<1>1. v.s0 = s0 /\ v.s1 = s1 /\ v.x0 = x0 /\ v.x1 = x1 /\ v.xdiff = xdiff
      OBVIOUS
<1>2. EuclidShape(v)
      BY <1>1 DEF EuclidShape
<1>3. ASSUME Regular(v) PROVE Weighs(v, a, b, c, d)
      <2>1. ~HasZeroCoordinate(x0) /\ ~HasZeroCoordinate(x1) /\ ~HasZeroCoordinate(xdiff)
            BY <1>1, <1>3, Zenon DEF Regular
      <2>2. x0 = Comb(a, b) /\ x1 = Comb(c, d) /\ xdiff = Comb(a - c, b - d)
            BY <2>1, Zenon
      <2> QED
          BY <1>1, <2>2 DEF Weighs
<1> QED
    BY <1>2, <1>3 DEF Reached

\* The fields before the step, the smaller scalar first.
Before(u, a, b, c, d) ==
    /\ BasisOK /\ call.kbits \in 1..F /\ call.k \in Nat /\ call.l \in Nat /\ curve.cached \in BOOLEAN
    /\ EuclidShape(u) /\ Weighs(u, a, b, c, d) /\ Regular(u) /\ u.s0 <= u.s1

LEMMA Fields ==
    ASSUME NEW u, NEW a, NEW b, NEW c, NEW d, Before(u, a, b, c, d)
    PROVE  /\ a \in Int /\ b \in Int /\ c \in Int /\ d \in Int
           /\ u.s0 \in 0..(2 ^ call.kbits - 1) /\ u.s1 \in 0..(2 ^ call.kbits - 1) /\ u.s0 <= u.s1
           /\ u.s0 \in Int /\ u.s1 \in Int /\ Less(u) = u.s1 - u.s0 /\ Less(u) \in 0..(2 ^ call.kbits - 1)
           /\ u.x0 = Comb(a, b) /\ u.x1 = Comb(c, d) /\ u.xdiff = Comb(a - c, b - d)
           /\ u.s0 * a + u.s1 * c = Mask(call.k) /\ u.s0 * b + u.s1 * d = Mask(call.l)
           /\ XAdd(u.x1, u.x0, u.xdiff) = Comb(a + c, b + d)
           /\ XAdd(u.x1, u.xdiff, u.x0) = Comb(a - 2 * c, b - 2 * d)
           /\ XAdd(u.x0, u.xdiff, u.x1) = Comb(2 * a - c, 2 * b - d)
           /\ XDbl(u.x0) = Comb(2 * a, 2 * b) /\ XDbl(u.x1) = Comb(2 * c, 2 * d)
<1>1. /\ a \in Int /\ b \in Int /\ c \in Int /\ d \in Int
      /\ u.x0 = Comb(a, b) /\ u.x1 = Comb(c, d) /\ u.xdiff = Comb(a - c, b - d)
      /\ u.s0 * a + u.s1 * c = Mask(call.k) /\ u.s0 * b + u.s1 * d = Mask(call.l)
      BY DEF Before, Weighs
<1>2. /\ u.s0 \in 0..(2 ^ call.kbits - 1) /\ u.s1 \in 0..(2 ^ call.kbits - 1) /\ u.s0 <= u.s1
      /\ BasisOK /\ call.kbits \in 1..F
      BY DEF Before, EuclidShape
<1>3. 2 ^ call.kbits \in Nat \ {0} /\ 2 ^ call.kbits <= Capacity /\ Capacity \in Nat \ {0}
      BY <1>2, MaskRange, CapacityLarge
<1>4. Less(u) = u.s1 - u.s0 /\ Less(u) \in 0..(2 ^ call.kbits - 1) /\ u.s0 \in Int /\ u.s1 \in Int
      <2> DEFINE s == u.s0
                 t == u.s1
                 m == 2 ^ call.kbits
                 n == Capacity
      <2>1. s \in 0..(m - 1) /\ t \in 0..(m - 1) /\ s <= t /\ m \in Nat \ {0} /\ m <= n /\ n \in Nat \ {0}
            BY <1>2, <1>3
      <2> HIDE DEF s, t, m, n
      <2>2. t - s \in 0..(n - 1) /\ t - s \in 0..(m - 1) /\ s \in Int /\ t \in Int
            BY <2>1
      <2>3. (t - s) % n = t - s
            BY <2>1, <2>2
      <2> QED
          BY <2>2, <2>3, Zenon DEF Less, s, t, m, n
<1>5. ~HasZeroCoordinate(Comb(a, b)) /\ ~HasZeroCoordinate(Comb(c, d)) /\ ~HasZeroCoordinate(Comb(a - c, b - d))
      BY <1>1, Zenon DEF Before, Regular
<1>6. /\ -(a - c) = c - a /\ -(b - d) = d - b /\ a - c \in Int /\ b - d \in Int /\ c - a \in Int /\ d - b \in Int
      /\ c + a = a + c /\ d + b = b + d
      /\ c - (c - a) = a /\ d - (d - b) = b /\ c + (c - a) = 2 * c - a /\ d + (d - b) = 2 * d - b
      /\ -(2 * c - a) = a - 2 * c /\ -(2 * d - b) = b - 2 * d /\ 2 * c - a \in Int /\ 2 * d - b \in Int
      /\ a - (a - c) = c /\ b - (b - d) = d /\ a + (a - c) = 2 * a - c /\ b + (b - d) = 2 * b - d
      BY <1>1
<1>7. Comb(c - a, d - b) = Comb(a - c, b - d) /\ Comb(a - 2 * c, b - 2 * d) = Comb(2 * c - a, 2 * d - b)
      <2>1. Comb(-(a - c), -(b - d)) = Comb(a - c, b - d)
            BY <1>2, <1>6, CombNeg
      <2>2. Comb(-(2 * c - a), -(2 * d - b)) = Comb(2 * c - a, 2 * d - b)
            BY <1>2, <1>6, CombNeg
      <2> QED
          BY <1>6, <2>1, <2>2, Zenon
<1>8. XAdd(u.x1, u.x0, u.xdiff) = Comb(a + c, b + d)
      <2>1. XAdd(Comb(c, d), Comb(a, b), Comb(c - a, d - b)) =
                IF HasZeroCoordinate(Comb(c - a, d - b)) THEN Undefined ELSE Comb(c + a, d + b)
            BY <1>1, <1>2, CombAdd
      <2> QED
          BY <1>1, <1>5, <1>6, <1>7, <2>1, Zenon
<1>9. XAdd(u.x1, u.xdiff, u.x0) = Comb(a - 2 * c, b - 2 * d)
      <2>1. XAdd(Comb(c, d), Comb(c - a, d - b), Comb(c - (c - a), d - (d - b))) =
                IF HasZeroCoordinate(Comb(c - (c - a), d - (d - b))) THEN Undefined ELSE Comb(c + (c - a), d + (d - b))
            BY <1>1, <1>2, <1>6, CombAdd
      <2> QED
          BY <1>1, <1>5, <1>6, <1>7, <2>1, Zenon
<1>10. XAdd(u.x0, u.xdiff, u.x1) = Comb(2 * a - c, 2 * b - d)
      <2>1. XAdd(Comb(a, b), Comb(a - c, b - d), Comb(a - (a - c), b - (b - d))) =
                IF HasZeroCoordinate(Comb(a - (a - c), b - (b - d))) THEN Undefined ELSE Comb(a + (a - c), b + (b - d))
            BY <1>1, <1>2, <1>6, CombAdd
      <2> QED
          BY <1>1, <1>5, <1>6, <2>1, Zenon
<1>11. XDbl(u.x0) = Comb(2 * a, 2 * b) /\ XDbl(u.x1) = Comb(2 * c, 2 * d)
       BY <1>1, <1>2, CombDouble
<1> QED
    BY <1>1, <1>2, <1>4, <1>8, <1>9, <1>10, <1>11, Zenon

\* On E0 without a cached A24 a doubling loses every point.
LEMMA DoubleA24 ==
    ASSUME NEW u, NEW a, NEW b, NEW c, NEW d, Before(u, a, b, c, d), NEW p \in {u.x0, u.x1},
           ~HasZeroCoordinate(XDblA24(p, curve))
    PROVE  XDblA24(p, curve) = XDbl(p)
<1>1. ~HasZeroCoordinate(p)
      BY DEF Before, Regular
<1>2. p # Foreign
      <2>1. u.x0 = Comb(a, b) /\ u.x1 = Comb(c, d) /\ BasisOK /\ a \in Int /\ b \in Int /\ c \in Int /\ d \in Int
            BY DEF Before, Weighs
      <2> QED
          BY <2>1, CombProper
<1>3. ~curve.cached => XDblA24(p, curve) = Origin
      BY <1>1, <1>2, Zenon DEF XDblA24
<1>4. HasZeroCoordinate(Origin)
      BY DEF HasZeroCoordinate
<1>5. curve.cached
      BY <1>3, <1>4, Zenon
<1> QED
    BY <1>5, Zenon DEF XDblA24

LEMMA SubtractedReaches ==
    ASSUME NEW u, NEW a, NEW b, NEW c, NEW d, Before(u, a, b, c, d)
    PROVE  Reached(Subtracted(u))
<1> DEFINE s == u.s0
           t == u.s1
           m == 2 ^ call.kbits
           k == Mask(call.k)
           l == Mask(call.l)
           r == Less(u)
           x == XAdd(u.x1, u.x0, u.xdiff)
           v == Subtracted(u)
<1>1. /\ a \in Int /\ b \in Int /\ c \in Int /\ d \in Int
      /\ s \in 0..(m - 1) /\ s \in Int /\ t \in Int /\ r = t - s /\ r \in 0..(m - 1)
      /\ s * a + t * c = k /\ s * b + t * d = l
      /\ u.x0 = Comb(a, b) /\ u.x1 = Comb(c, d) /\ x = Comb(a + c, b + d)
      BY Fields
<1>2. v = [s0 |-> s, s1 |-> r, x0 |-> x, x1 |-> u.x1, xdiff |-> u.x0]
      <2>1. u = [s0 |-> u.s0, s1 |-> u.s1, x0 |-> u.x0, x1 |-> u.x1, xdiff |-> u.xdiff]
            BY DEF Before, EuclidShape
      <2>2. v = [u EXCEPT !.s1 = r, !.x0 = x, !.xdiff = u.x0]
            BY DEF Subtracted
      <2> HIDE DEF r, x, v
      <2> QED
          BY <2>1, <2>2
<1> HIDE DEF s, t, m, k, l, r, x, v
<1>3. s * (a + c) + r * c = k /\ s * (b + d) + r * d = l
      BY ONLY <1>1
<1>4. a + c \in Int /\ b + d \in Int /\ (a + c) - c = a /\ (b + d) - d = b
      BY <1>1
<1>5. x = Comb(a + c, b + d) /\ u.x1 = Comb(c, d) /\ u.x0 = Comb((a + c) - c, (b + d) - d)
      BY <1>1, <1>4, Zenon
<1>6. Reached(v)
      BY <1>1, <1>2, <1>3, <1>4, <1>5, Reach DEF m, k, l
<1> QED
    BY <1>6 DEF v

LEMMA HalvedReaches ==
    ASSUME NEW u, NEW a, NEW b, NEW c, NEW d, Before(u, a, b, c, d), u.s1 % 2 = u.s0 % 2
    PROVE  Reached(Halved(u))
<1> DEFINE s == u.s0
           t == u.s1
           m == 2 ^ call.kbits
           k == Mask(call.k)
           l == Mask(call.l)
           r == Less(u) \div 2
           x == XAdd(u.x1, u.x0, u.xdiff)
           y == XDblA24(u.x1, curve)
           v == Halved(u)
<1>1. /\ a \in Int /\ b \in Int /\ c \in Int /\ d \in Int
      /\ s \in 0..(m - 1) /\ s \in Int /\ t \in Int /\ Less(u) = t - s /\ Less(u) \in 0..(m - 1)
      /\ s * a + t * c = k /\ s * b + t * d = l
      /\ u.xdiff = Comb(a - c, b - d) /\ x = Comb(a + c, b + d) /\ XDbl(u.x1) = Comb(2 * c, 2 * d)
      BY Fields
<1>2. v = [s0 |-> s, s1 |-> r, x0 |-> x, x1 |-> y, xdiff |-> u.xdiff]
      <2>1. u = [s0 |-> u.s0, s1 |-> u.s1, x0 |-> u.x0, x1 |-> u.x1, xdiff |-> u.xdiff]
            BY DEF Before, EuclidShape
      <2>2. v = [u EXCEPT !.s1 = r, !.x0 = x, !.x1 = y]
            BY DEF Halved
      <2> HIDE DEF r, x, y, v
      <2> QED
          BY <2>1, <2>2
<1>3. ~HasZeroCoordinate(y) => y = Comb(2 * c, 2 * d)
      BY <1>1, DoubleA24
<1>4. m \in Nat
      BY MaskRange DEF Before
<1>5. t % 2 = s % 2
      OBVIOUS
<1> DEFINE z == Less(u)
<1>6. z = t - s /\ z \in 0..(m - 1) /\ r = z \div 2
      BY <1>1
<1> HIDE DEF s, t, m, k, l, r, x, y, v, z
<1>7. t - s = 2 * r /\ r \in 0..(m - 1) /\ r \in Int
      BY ONLY <1>1, <1>4, <1>5, <1>6
<1>8. s * (a + c) + r * (2 * c) = k /\ s * (b + d) + r * (2 * d) = l
      <2>1. t = s + 2 * r
            BY <1>1, <1>7
      <2> QED
          BY ONLY <1>1, <1>7, <2>1
<1>9. /\ a + c \in Int /\ b + d \in Int /\ 2 * c \in Int /\ 2 * d \in Int
      /\ (a + c) - 2 * c = a - c /\ (b + d) - 2 * d = b - d
      BY <1>1
<1>10. ~HasZeroCoordinate(x) /\ ~HasZeroCoordinate(y) /\ ~HasZeroCoordinate(u.xdiff) =>
           x = Comb(a + c, b + d) /\ y = Comb(2 * c, 2 * d) /\ u.xdiff = Comb((a + c) - 2 * c, (b + d) - 2 * d)
       BY <1>1, <1>3, <1>9, Zenon
<1>11. Reached(v)
       BY <1>1, <1>2, <1>7, <1>8, <1>9, <1>10, Reach DEF m, k, l
<1> QED
    BY <1>11 DEF v

LEMMA Halved1Reaches ==
    ASSUME NEW u, NEW a, NEW b, NEW c, NEW d, Before(u, a, b, c, d), u.s1 % 2 = 0
    PROVE  Reached(Halved1(u))
<1> DEFINE s == u.s0
           t == u.s1
           m == 2 ^ call.kbits
           k == Mask(call.k)
           l == Mask(call.l)
           r == u.s1 \div 2
           x == XAdd(u.x1, u.xdiff, u.x0)
           y == XDblA24(u.x1, curve)
           v == Halved1(u)
<1>1. /\ a \in Int /\ b \in Int /\ c \in Int /\ d \in Int
      /\ s \in 0..(m - 1) /\ s \in Int /\ t \in Int /\ t \in 0..(m - 1)
      /\ s * a + t * c = k /\ s * b + t * d = l
      /\ u.x0 = Comb(a, b) /\ x = Comb(a - 2 * c, b - 2 * d) /\ XDbl(u.x1) = Comb(2 * c, 2 * d)
      BY Fields
<1>2. v = [s0 |-> s, s1 |-> r, x0 |-> u.x0, x1 |-> y, xdiff |-> x]
      <2>1. u = [s0 |-> u.s0, s1 |-> u.s1, x0 |-> u.x0, x1 |-> u.x1, xdiff |-> u.xdiff]
            BY DEF Before, EuclidShape
      <2>2. v = [u EXCEPT !.s1 = r, !.xdiff = x, !.x1 = y]
            BY DEF Halved1
      <2> HIDE DEF r, x, y, v
      <2> QED
          BY <2>1, <2>2
<1>3. ~HasZeroCoordinate(y) => y = Comb(2 * c, 2 * d)
      BY <1>1, DoubleA24
<1>4. m \in Nat
      BY MaskRange DEF Before
<1>5. t % 2 = 0 /\ r = t \div 2
      OBVIOUS
<1> HIDE DEF s, t, m, k, l, r, x, y, v
<1>7. t = 2 * r /\ r \in 0..(m - 1) /\ r \in Int
      BY ONLY <1>1, <1>4, <1>5
<1>8. s * a + r * (2 * c) = k /\ s * b + r * (2 * d) = l
      BY ONLY <1>1, <1>7
<1>9. 2 * c \in Int /\ 2 * d \in Int
      BY <1>1
<1>10. ~HasZeroCoordinate(u.x0) /\ ~HasZeroCoordinate(y) /\ ~HasZeroCoordinate(x) =>
           u.x0 = Comb(a, b) /\ y = Comb(2 * c, 2 * d) /\ x = Comb(a - 2 * c, b - 2 * d)
       BY <1>1, <1>3, Zenon
<1>11. Reached(v)
       BY <1>1, <1>2, <1>7, <1>8, <1>9, <1>10, Reach DEF m, k, l
<1> QED
    BY <1>11 DEF v

LEMMA Halved0Reaches ==
    ASSUME NEW u, NEW a, NEW b, NEW c, NEW d, Before(u, a, b, c, d), u.s0 % 2 = 0
    PROVE  Reached(Halved0(u))
<1> DEFINE s == u.s0
           t == u.s1
           m == 2 ^ call.kbits
           k == Mask(call.k)
           l == Mask(call.l)
           r == u.s0 \div 2
           x == XAdd(u.x0, u.xdiff, u.x1)
           y == XDblA24(u.x0, curve)
           v == Halved0(u)
<1>1. /\ a \in Int /\ b \in Int /\ c \in Int /\ d \in Int
      /\ s \in 0..(m - 1) /\ s \in Int /\ t \in Int /\ t \in 0..(m - 1)
      /\ s * a + t * c = k /\ s * b + t * d = l
      /\ u.x1 = Comb(c, d) /\ x = Comb(2 * a - c, 2 * b - d) /\ XDbl(u.x0) = Comb(2 * a, 2 * b)
      BY Fields
<1>2. v = [s0 |-> r, s1 |-> t, x0 |-> y, x1 |-> u.x1, xdiff |-> x]
      <2>1. u = [s0 |-> u.s0, s1 |-> u.s1, x0 |-> u.x0, x1 |-> u.x1, xdiff |-> u.xdiff]
            BY DEF Before, EuclidShape
      <2>2. v = [u EXCEPT !.s0 = r, !.xdiff = x, !.x0 = y]
            BY DEF Halved0
      <2> HIDE DEF r, x, y, v
      <2> QED
          BY <2>1, <2>2
<1>3. ~HasZeroCoordinate(y) => y = Comb(2 * a, 2 * b)
      BY <1>1, DoubleA24
<1>4. m \in Nat
      BY MaskRange DEF Before
<1>5. s % 2 = 0 /\ r = s \div 2
      OBVIOUS
<1> HIDE DEF s, t, m, k, l, r, x, y, v
<1>7. s = 2 * r /\ r \in 0..(m - 1) /\ r \in Int
      BY ONLY <1>1, <1>4, <1>5
<1>8. r * (2 * a) + t * c = k /\ r * (2 * b) + t * d = l
      BY ONLY <1>1, <1>7
<1>9. 2 * a \in Int /\ 2 * b \in Int
      BY <1>1
<1>10. ~HasZeroCoordinate(y) /\ ~HasZeroCoordinate(u.x1) /\ ~HasZeroCoordinate(x) =>
           y = Comb(2 * a, 2 * b) /\ u.x1 = Comb(c, d) /\ x = Comb(2 * a - c, 2 * b - d)
       BY <1>1, <1>3, Zenon
<1>11. Reached(v)
       BY <1>1, <1>2, <1>7, <1>8, <1>9, <1>10, Reach DEF m, k, l
<1> QED
    BY <1>11 DEF v

LEMMA OrderedBefore ==
    ASSUME CallInv, EuclidInv, st.s0 # 0, NEW a, NEW b, NEW c, NEW d, Weighs(st, a, b, c, d)
    PROVE  IF st.s1 < st.s0 THEN /\ Before(Ordered, c, d, a, b)
                                 /\ Ordered.s0 = st.s1 /\ Ordered.s1 = st.s0
                            ELSE Before(Ordered, a, b, c, d) /\ Ordered = st
<1>1. /\ BasisOK /\ call.kbits \in 1..F /\ call.k \in Nat /\ call.l \in Nat /\ curve.cached \in BOOLEAN
      BY DEF CallInv, Curves
<1>2. EuclidShape(st) /\ Regular(st)
      BY DEF EuclidInv
<1>4. st.s0 \in Nat /\ st.s1 \in Nat
      <2>1. 2 ^ call.kbits \in Nat
            BY <1>1, MaskRange
      <2> DEFINE m == 2 ^ call.kbits
      <2>2. st.s0 \in 0..(m - 1) /\ st.s1 \in 0..(m - 1)
            BY <1>2 DEF EuclidShape
      <2> HIDE DEF m
      <2> QED
          BY <2>2
<1>5. CASE ~(st.s1 < st.s0)
      <2>1. Ordered = st
            BY <1>5 DEF Ordered
      <2>2. Before(st, a, b, c, d)
            BY <1>1, <1>2, <1>4, <1>5 DEF Before
      <2> QED
          BY <1>5, <2>1, <2>2, Zenon
<1>6. CASE st.s1 < st.s0
      <2> DEFINE u == Ordered
      <2>1. u = [s0 |-> st.s1, s1 |-> st.s0, x0 |-> st.x1, x1 |-> st.x0, xdiff |-> st.xdiff]
            <3>1. st = [s0 |-> st.s0, s1 |-> st.s1, x0 |-> st.x0, x1 |-> st.x1, xdiff |-> st.xdiff]
                  BY <1>2 DEF EuclidShape
            <3>2. u = [st EXCEPT !.s0 = st.s1, !.s1 = st.s0, !.x0 = st.x1, !.x1 = st.x0]
                  BY <1>6 DEF Ordered
            <3> HIDE DEF u
            <3> QED
                BY <3>1, <3>2
      <2> HIDE DEF u
      <2>2. u.s0 = st.s1 /\ u.s1 = st.s0 /\ u.x0 = st.x1 /\ u.x1 = st.x0 /\ u.xdiff = st.xdiff
            BY <2>1
      <2>3. EuclidShape(u) /\ Regular(u)
            BY <1>2, <2>1, <2>2 DEF EuclidShape, Regular
      <2>4. Weighs(u, c, d, a, b)
            <3>1. /\ a \in Int /\ b \in Int /\ c \in Int /\ d \in Int
                  /\ st.x0 = Comb(a, b) /\ st.x1 = Comb(c, d) /\ st.xdiff = Comb(a - c, b - d)
                  /\ st.s0 * a + st.s1 * c = Mask(call.k) /\ st.s0 * b + st.s1 * d = Mask(call.l)
                  BY DEF Weighs
            <3>2. Comb(c - a, d - b) = Comb(a - c, b - d)
                  <4>1. -(a - c) = c - a /\ -(b - d) = d - b /\ a - c \in Int /\ b - d \in Int
                        BY <3>1
                  <4>2. Comb(-(a - c), -(b - d)) = Comb(a - c, b - d)
                        BY <1>1, <4>1, CombNeg
                  <4> QED
                      BY <4>1, <4>2, Zenon
            <3>3. u.s0 * c + u.s1 * a = Mask(call.k) /\ u.s0 * d + u.s1 * b = Mask(call.l)
                  <4> DEFINE s == st.s0
                             t == st.s1
                             k == Mask(call.k)
                             l == Mask(call.l)
                  <4>1. s \in Int /\ t \in Int /\ s * a + t * c = k /\ s * b + t * d = l /\ u.s0 = t /\ u.s1 = s
                        BY <1>4, <2>2, <3>1
                  <4> HIDE DEF s, t, k, l
                  <4>2. t * c + s * a = k /\ t * d + s * b = l
                        BY <3>1, <4>1
                  <4> QED
                      BY <4>1, <4>2, Zenon DEF k, l
            <3> QED
                BY <2>2, <3>1, <3>2, <3>3, Zenon DEF Weighs
      <2>5. u.s0 <= u.s1
            BY <1>4, <1>6, <2>2
      <2>6. Before(u, c, d, a, b)
            BY <1>1, <2>3, <2>4, <2>5, Zenon DEF Before
      <2> QED
          BY <1>6, <2>2, <2>6, Zenon DEF u
<1> QED
    BY <1>5, <1>6

LEMMA ReducedReaches ==
    ASSUME NEW u, NEW a, NEW b, NEW c, NEW d, Before(u, a, b, c, d)
    PROVE  Reached(Reduced(u))
<1>1. CASE u.s1 < (4 * u.s0) % Capacity
      <2>1. Reduced(u) = Subtracted(u)
            BY <1>1 DEF Reduced
      <2> QED
          BY <2>1, SubtractedReaches
<1>2. CASE ~(u.s1 < (4 * u.s0) % Capacity) /\ u.s1 % 2 = u.s0 % 2
      <2>1. Reduced(u) = Halved(u)
            BY <1>2, Zenon DEF Reduced
      <2> QED
          BY <1>2, <2>1, HalvedReaches
<1>3. CASE ~(u.s1 < (4 * u.s0) % Capacity) /\ u.s1 % 2 # u.s0 % 2 /\ u.s1 % 2 = 0
      <2>1. Reduced(u) = Halved1(u)
            BY <1>3, Zenon DEF Reduced
      <2> QED
          BY <1>3, <2>1, Halved1Reaches
<1>4. CASE ~(u.s1 < (4 * u.s0) % Capacity) /\ u.s1 % 2 # u.s0 % 2 /\ u.s1 % 2 # 0
      <2>1. Reduced(u) = Halved0(u)
            BY <1>4, Zenon DEF Reduced
      <2>2. u.s0 % 2 = 0
            <3> DEFINE s == u.s0
                       t == u.s1
            <3>1. s \in Int /\ t \in Int
                  BY Fields
            <3>2. s % 2 # t % 2 /\ t % 2 # 0
                  BY <1>4
            <3> HIDE DEF s, t
            <3>3. s % 2 = 0
                  BY <3>1, <3>2
            <3> QED
                BY <3>3 DEF s
      <2> QED
          BY <2>1, <2>2, Halved0Reaches
<1> QED
    BY <1>1, <1>2, <1>3, <1>4

LEMMA EuclidKeeps ==
    ASSUME CallInv, EuclidInv, Euclid
    PROVE  (pc' = "euclid" => EuclidInv') /\ Answered'
<1>1. /\ call' = call /\ curve' = curve /\ call.alg = "verif" /\ st.s0 # 0 /\ pc = "euclid"
      BY DEF CallInv, Euclid
<1> DEFINE v == Reduced(Ordered)
<1>2. Reached(v)
      <2>1. PICK i, j, k, l : Weighs(st, i, j, k, l)
            BY <1>1 DEF EuclidInv
      <2>2. Before(Ordered, k, l, i, j) \/ Before(Ordered, i, j, k, l)
            <3>1. st.s0 # 0
                  BY <1>1
            <3> QED
                BY <2>1, <3>1, OrderedBefore
      <2>3. PICK a, b, c, d : Before(Ordered, a, b, c, d)
            BY <2>2, Zenon
      <2> QED
          BY <2>3, ReducedReaches
<1>3. IF \E p \in {v.x0, v.x1, v.xdiff} : HasZeroCoordinate(p) THEN Return(None) /\ st' = st
      ELSE st' = v /\ UNCHANGED <<pc, out>>
      BY DEF Euclid
<1> HIDE DEF v
<1>4. CASE \E p \in {v.x0, v.x1, v.xdiff} : HasZeroCoordinate(p)
      <2>1. pc' = "done" /\ out' = None
            BY <1>3, <1>4 DEF Return
      <2> QED
          BY <1>1, <2>1 DEF Answered, PointRight
<1>5. CASE ~(\E p \in {v.x0, v.x1, v.xdiff} : HasZeroCoordinate(p))
      <2>1. st' = v /\ pc' = pc
            BY <1>3, <1>5
      <2>2. Regular(v)
            BY <1>5 DEF Regular
      <2>3. PICK a, b, c, d : Weighs(v, a, b, c, d)
            BY <1>2, <2>2 DEF Reached
      <2>4. EuclidShape(v)
            BY <1>2 DEF Reached
      <2>5. a \in Int /\ b \in Int /\ c \in Int /\ d \in Int
            BY <2>3 DEF Weighs
      <2>6. Weighs(st, a, b, c, d)'
            <3>1. Comb(a, b)' = Comb(a, b) /\ Comb(c, d)' = Comb(c, d) /\ Comb(a - c, b - d)' = Comb(a - c, b - d)
                  BY <1>1 DEF Comb
            <3>2. Mask(call.k)' = Mask(call.k) /\ Mask(call.l)' = Mask(call.l)
                  BY <1>1 DEF Mask
            <3> QED
                BY <2>1, <2>3, <3>1, <3>2 DEF Weighs
      <2>7. EuclidShape(st)' /\ Regular(st)'
            BY <1>1, <2>1, <2>2, <2>4 DEF EuclidShape, Regular, HasZeroCoordinate
      <2>8. EuclidInv'
            <3>1. st'.s1 \in Int
                  <4> DEFINE m == 2 ^ call.kbits
                  <4>1. st'.s1 \in 0..(m - 1) /\ m \in Nat
                        BY <2>1, <2>4, MaskRange DEF EuclidShape, CallInv
                  <4> HIDE DEF m
                  <4> QED
                      BY <4>1
            <3>2. (Leads(v, c, d) /\ v.s0 = 0) \/ v.s0 # 0
                  BY <2>1, <2>3, <3>1, WeighsLeads
            <3>3. st'.s0 = 0 => Leads(st, c, d)'
                  <4>1. Comb(c, d)' = Comb(c, d) /\ Mask(call.k)' = Mask(call.k) /\ Mask(call.l)' = Mask(call.l)
                        BY <1>1 DEF Comb, Mask
                  <4> QED
                      BY <2>1, <3>2, <4>1 DEF Leads
            <3> QED
                BY <2>6, <2>7, <3>3 DEF EuclidInv
      <2> QED
          BY <1>1, <2>1, <2>8 DEF Answered, PointRight
<1> QED
    BY <1>4, <1>5

LEMMA VerifEnterKeeps ==
    ASSUME CallInv, VerifEnter
    PROVE  (pc' = "euclid" => EuclidInv' /\ Weighs(st, 1, 0, 0, 1)') /\ Answered'
<1> DEFINE s0 == Mask(call.k)
           s1 == Mask(call.l)
           refused == \/ HasZeroCoordinate(P) \/ HasZeroCoordinate(Q) \/ HasZeroCoordinate(PmQ)
                      \/ s0 = 0 /\ s1 = 0
<1>1. /\ BasisOK /\ call.kbits \in 1..F /\ call' = call /\ call.alg = "verif"
      /\ s0 \in 0..(2 ^ call.kbits - 1) /\ s1 \in 0..(2 ^ call.kbits - 1) /\ s0 \in Int /\ s1 \in Int
      BY MaskRange DEF CallInv, VerifEnter
<1>2. IF refused THEN Return(None) /\ UNCHANGED <<curve, st>>
      ELSE /\ curve' = Prepared
           /\ st' = [s0 |-> s0, s1 |-> s1, x0 |-> P, x1 |-> Q, xdiff |-> PmQ]
           /\ pc' = "euclid"
           /\ out' = out
      BY DEF VerifEnter
<1>3. CASE refused
      <2>1. pc' = "done" /\ out' = None
            BY <1>2, <1>3 DEF Return
      <2> QED
          BY <1>1, <2>1 DEF Answered, PointRight
<1>4. CASE ~refused
      <2>1. pc' = "euclid" /\ st' = [s0 |-> s0, s1 |-> s1, x0 |-> P, x1 |-> Q, xdiff |-> PmQ]
            BY <1>2, <1>4
      <2>2. st'.s0 = s0 /\ st'.s1 = s1 /\ st'.x0 = P /\ st'.x1 = Q /\ st'.xdiff = PmQ
            <3> HIDE DEF s0, s1
            <3> QED
                BY <2>1
      <2>3. EuclidShape(st)'
            <3> HIDE DEF s0, s1
            <3> QED
                BY <1>1, <2>1, <2>2 DEF EuclidShape
      <2>4. Regular(st)'
            <3>1. ~HasZeroCoordinate(P) /\ ~HasZeroCoordinate(Q) /\ ~HasZeroCoordinate(PmQ)
                  BY <1>4
            <3> QED
                BY <2>2, <3>1 DEF Regular, HasZeroCoordinate
      <2>5. Weighs(st, 1, 0, 0, 1)'
            <3>1. P = Comb(1, 0) /\ Q = Comb(0, 1) /\ PmQ = Comb(1, -1)
                  BY <1>1, CombNames
            <3>2. Comb(1, 0)' = Comb(1, 0) /\ Comb(0, 1)' = Comb(0, 1) /\ Comb(1 - 0, 0 - 1)' = Comb(1, -1)
                  <4>1. 1 - 0 = 1 /\ 0 - 1 = -1
                        OBVIOUS
                  <4>2. Comb(1 - 0, 0 - 1) = Comb(1, -1)
                        BY <4>1, Zenon
                  <4> QED
                      BY <1>1, <4>2 DEF Comb
            <3>3. Mask(call.k)' = s0 /\ Mask(call.l)' = s1
                  BY <1>1 DEF Mask
            <3> HIDE DEF s0, s1
            <3>4. s0 * 1 + s1 * 0 = s0 /\ s0 * 0 + s1 * 1 = s1
                  BY <1>1
            <3> QED
                BY <2>2, <3>1, <3>2, <3>3, <3>4 DEF Weighs
      <2>6. EuclidInv'
            <3>1. st'.s0 = 0 => Leads(st, 0, 1)'
                  <4>1. Q = Comb(0, 1) /\ Comb(0, 1)' = Comb(0, 1)
                        BY <1>1, CombNames DEF Comb
                  <4>2. Mask(call.k)' = s0 /\ Mask(call.l)' = s1
                        BY <1>1 DEF Mask
                  <4> HIDE DEF s0, s1
                  <4>3. s1 * 0 = 0 /\ s1 * 1 = s1
                        BY <1>1
                  <4> QED
                      BY <2>2, <4>1, <4>2, <4>3 DEF Leads
            <3> QED
                BY <2>3, <2>4, <2>5, <3>1 DEF EuclidInv
      <2>7. Answered'
            BY <2>1 DEF Answered, ResultRight, PointRight, RefusalRight
      <2> QED
          BY <2>5, <2>6, <2>7
<1> QED
    BY <1>3, <1>4

\* xDBL with the curve's A24.
LEMMA MarkedA24 ==
    ~curve.cached => \A p : p # Foreign => XDblA24(p, curve) \in {Origin, Undefined}
BY DEF XDblA24

LEMMA StripKeeps ==
    ASSUME CallInv, EuclidInv, Strip
    PROVE  EuclidInv'
<1> DEFINE s == st.s1
           y == XDblA24(st.x1, curve)
           m == 2 ^ call.kbits
           r == s \div 2
<1>1. /\ BasisOK /\ call' = call /\ curve' = curve /\ st.s0 = 0 /\ s % 2 = 0 /\ EuclidShape(st)
      /\ m \in Nat \ {0} /\ s \in 0..(m - 1) /\ st.s0 \in 0..(m - 1) /\ curve.cached \in BOOLEAN
      BY MaskRange DEF CallInv, EuclidInv, EuclidShape, Strip, Curves
<1>2. st' = [s0 |-> 0, s1 |-> r, x0 |-> st.x0, x1 |-> y, xdiff |-> st.xdiff]
      <2>1. st = [s0 |-> st.s0, s1 |-> st.s1, x0 |-> st.x0, x1 |-> st.x1, xdiff |-> st.xdiff]
            BY DEF EuclidInv, EuclidShape
      <2>2. st' = [st EXCEPT !.s1 = r, !.x1 = y]
            BY DEF Strip, Stripped
      <2> HIDE DEF r, y
      <2> QED
          BY <1>1, <2>1, <2>2
<1>3. st'.s0 = 0 /\ st'.s1 = r /\ st'.x0 = st.x0 /\ st'.x1 = y /\ st'.xdiff = st.xdiff
      <2> HIDE DEF r, y
      <2> QED
          BY <1>2
<1>4. s = 2 * r /\ r \in 0..(m - 1) /\ r \in Int
      <2> HIDE DEF s, m
      <2> QED
          BY <1>1
<1>5. EuclidShape(st)'
      <2>1. (2 ^ call.kbits)' = m
            BY <1>1
      <2> HIDE DEF r, y, m
      <2> QED
          BY <1>1, <1>2, <1>3, <1>4, <2>1 DEF EuclidShape
<1>6. CASE \E c, d : Leads(st, c, d)
      <2>1. PICK c, d : Leads(st, c, d)
            BY <1>6
      <2>2. /\ c \in Int /\ d \in Int /\ st.x1 = Comb(c, d)
            /\ s * c = Mask(call.k) /\ s * d = Mask(call.l)
            BY <2>1 DEF Leads
      <2>3. st.x1 # Foreign
            BY <1>1, <2>2, CombProper
      <2>4. CASE ~curve.cached
            <3>1. y \in {Origin, Undefined}
                  BY <2>3, <2>4, MarkedA24
            <3> HIDE DEF y
            <3> QED
                BY <1>1, <1>3, <1>5, <2>4, <3>1 DEF EuclidInv, Origin, Undefined
      <2>5. CASE curve.cached
            <3>1. y = Comb(2 * c, 2 * d)
                  <4>1. y = XDbl(st.x1)
                        BY <2>5, Zenon DEF XDblA24
                  <4> QED
                      BY <1>1, <2>2, <4>1, CombDouble
            <3> DEFINE k == Mask(call.k)
                       l == Mask(call.l)
            <3>2. r * (2 * c) = k /\ r * (2 * d) = l
                  <4>1. s * c = k /\ s * d = l
                        BY <2>2
                  <4> HIDE DEF s, r, k, l
                  <4> QED
                      BY ONLY <1>4, <2>2, <4>1
            <3>3. Leads(st, 2 * c, 2 * d)'
                  <4>1. Comb(2 * c, 2 * d)' = Comb(2 * c, 2 * d) /\ Mask(call.k)' = k /\ Mask(call.l)' = l
                        BY <1>1 DEF Comb, Mask
                  <4>2. 2 * c \in Int /\ 2 * d \in Int
                        BY <2>2
                  <4> HIDE DEF k, l, r, y
                  <4> QED
                      BY <1>3, <3>1, <3>2, <4>1, <4>2 DEF Leads
            <3> QED
                BY <1>3, <1>5, <3>3 DEF EuclidInv
      <2> QED
          BY <1>1, <2>4, <2>5
<1>7. CASE ~curve.cached /\ st.x1 \in {Origin, Undefined}
      <2>1. y \in {Origin, Undefined}
            BY <1>7, Marked, MarkedA24
      <2> HIDE DEF y
      <2> QED
          BY <1>1, <1>3, <1>5, <1>7, <2>1 DEF EuclidInv, Origin, Undefined
<1> QED
    BY <1>1, <1>6, <1>7 DEF EuclidInv

\* What is left is the ladder's, or the point itself.
LEMMA VerifEndKeeps ==
    ASSUME CallInv, EuclidInv, VerifEnd
    PROVE  (pc' = "ladder" => LadderInv') /\ Answered'
<1> DEFINE s == st.s1
           m == 2 ^ call.kbits
<1>1. /\ BasisOK /\ call.kbits \in 1..F /\ call' = call /\ call.k \in Nat /\ call.l \in Nat /\ call.alg = "verif"
      /\ st.s0 = 0 /\ EuclidShape(st) /\ m \in Nat \ {0} /\ s \in 0..(m - 1) /\ pc = "euclid"
      BY MaskRange DEF CallInv, EuclidInv, EuclidShape, VerifEnd
<1>2. s \in Nat /\ Mask(s) = s
      <2>1. s \in Nat /\ s % m = s
            <3> HIDE DEF s, m
            <3> QED
                BY <1>1
      <2> QED
          BY <2>1 DEF Mask
<1>3. ~HasZeroCoordinate(st.x1) => \E c, d : Leads(st, c, d)
      BY <1>1 DEF EuclidInv, HasZeroCoordinate
<1>4. ASSUME NEW c, NEW d, Leads(st, c, d)
      PROVE  c \in Int /\ d \in Int /\ st.x1 = Comb(c, d) /\ Comb(s * c, s * d) = Target
      <2>1. c \in Int /\ d \in Int /\ st.x1 = Comb(c, d) /\ s * c = Mask(call.k) /\ s * d = Mask(call.l)
            BY <1>4 DEF Leads
      <2>2. Target = Comb(Mask(call.k), Mask(call.l))
            BY <1>1 DEF Target
      <2> QED
          BY <2>1, <2>2, Zenon
<1>5. CASE s # 1
      <2>1. Ladder(st.x1, s, call.kbits) /\ out' = out
            BY <1>5, Zenon DEF VerifEnd
      <2>2. st' = [r0 |-> Identity, r1 |-> st.x1, p |-> st.x1, k |-> s, prevbit |-> 0, i |-> call.kbits] /\ pc' = "ladder"
            BY <2>1, Zenon DEF Ladder
      <2>3. ~HasZeroCoordinate(st.x1) => \E c, d \in Int : st.x1 = Comb(c, d) /\ Comb(Mask(s) * c, Mask(s) * d) = Target
            BY <1>2, <1>3, <1>4, Zenon
      <2>4. HasZeroCoordinate(st.x1) => (call.alg = "ladder" => st.x1 = P)
            BY <1>1
      <2> HIDE DEF s
      <2>5. LadderInv'
            BY <1>1, <1>2, <2>2, <2>3, <2>4, LadderStart
      <2> QED
          BY <2>2, <2>5 DEF Answered, ResultRight, PointRight, RefusalRight
<1>6. CASE s = 1
      <2>1. pc' = "done" /\ out' = IF HasZeroCoordinate(st.x1) THEN None ELSE st.x1
            BY <1>6, Zenon DEF VerifEnd, Return
      <2>2. ~HasZeroCoordinate(st.x1) => st.x1 = Target
            <3>1. ASSUME NEW c, NEW d, Leads(st, c, d) PROVE st.x1 = Target
                  <4>1. c \in Int /\ d \in Int /\ st.x1 = Comb(c, d) /\ Comb(s * c, s * d) = Target
                        BY <1>4, <3>1
                  <4>2. s * c = c /\ s * d = d
                        BY <1>6, <4>1
                  <4> QED
                      BY <4>1, <4>2, Zenon
            <3> QED
                BY <1>3, <3>1, Zenon
      <2>3. out' = Target \/ out' = None
            BY <2>1, <2>2
      <2>4. Answered'
            BY <1>1, <2>3, LadderAnswers
      <2> QED
          BY <2>1, <2>4
<1> QED
    BY <1>5, <1>6

---------------------------------------------------------------------------
(* Every step keeps the invariant.                                         *)

\* The routine, its arguments and its loop stay together.
LEMMA CallKeeps ==
    ASSUME CallInv, [Next]_svars
    PROVE  CallInv'
<1>1. \A e \in Curves : NormalizeA24(e) \in Curves
      BY DEF NormalizeA24, Curves
<1> DEFINE Rest == /\ pc' = "ladder" => call'.alg \in {"ladder", "verif"}
                   /\ pc' = "ladder3pt" => call'.alg = "ladder3pt"
                   /\ pc' \in {"recode", "biladder"} => call'.alg = "biscalar"
                   /\ pc' = "euclid" => call'.alg = "verif"
<1>2. ASSUME call' = call, curve' \in Curves, Rest PROVE CallInv'
      BY <1>2 DEF CallInv, BasisOK
<1>3. ASSUME NEW b \in Bases, NEW k \in Scalars, NEW w \in Widths, NEW l \in {0} \cup Scalars, NEW alg, Call(alg, b, k, l, w)
      PROVE  CallInv'
      <2>1. b[1] \in Vectors /\ b[2] \in Vectors /\ k \in Nat /\ l \in Nat /\ w \in 1..F
            BY ScalarAssumption
      <2>2. call' = [alg |-> alg, p |-> b[1], q |-> b[2], k |-> k, l |-> l, kbits |-> w] /\ pc' = "called" /\ curve' = curve
            BY <1>3 DEF Call
      <2>3. call'.p = b[1] /\ call'.q = b[2] /\ call'.k = k /\ call'.l = l /\ call'.kbits = w
            BY <2>2
      <2> QED
          BY <2>1, <2>2, <2>3 DEF CallInv, BasisOK
<1>4. CASE UNCHANGED svars
      BY <1>4 DEF svars, CallInv, BasisOK
<1>5. CASE LadderEnter
      BY <1>1, <1>2, <1>5 DEF LadderEnter, Ladder, CallInv
<1>6. CASE LadderTurn \/ LadderEnd
      BY <1>2, <1>6 DEF LadderTurn, LadderEnd, Return, CallInv
<1>7. CASE Ladder3ptEnter \/ Ladder3ptTurn \/ Ladder3ptEnd
      BY <1>2, <1>7 DEF Ladder3ptEnter, Ladder3ptTurn, Ladder3ptEnd, Return, CallInv
<1>8. CASE BiscalarEnter
      <2>1. call' = call /\ curve' = curve /\ call.alg = "biscalar" /\ pc' \in {"done", "recode"}
            BY <1>8 DEF BiscalarEnter, Return
      <2> QED
          BY <1>2, <2>1 DEF CallInv
<1>9. CASE Recode \/ RecodeEnd
      <2>1. call' = call /\ curve' = curve /\ pc = "recode" /\ pc' \in {"done", "recode", "biladder"}
            BY <1>9 DEF Recode, RecodeEnd, Return
      <2> QED
          BY <1>2, <2>1 DEF CallInv
<1>10. CASE BiladderTurn \/ BiladderEnd
      <2>1. call' = call /\ curve' = curve /\ pc = "biladder" /\ pc' \in {"done", "biladder"}
            BY <1>10 DEF BiladderTurn, BiladderEnd, Return
      <2> QED
          BY <1>2, <2>1 DEF CallInv
<1>11. CASE VerifEnter
      <2>1. call' = call /\ curve' \in {curve, NormalizeA24(curve)} /\ call.alg = "verif" /\ pc' \in {"done", "euclid"}
            BY <1>11 DEF VerifEnter, Prepared, Return
      <2> QED
          BY <1>1, <1>2, <2>1 DEF CallInv
<1>12. CASE Euclid \/ Strip
      <2>1. call' = call /\ curve' = curve /\ pc = "euclid" /\ pc' \in {"done", "euclid"}
            BY <1>12 DEF Euclid, Strip, Return
      <2> QED
          BY <1>2, <2>1 DEF CallInv
<1>13. CASE VerifEnd
      <2>1. call' = call /\ curve' \in {curve, NormalizeA24(curve)} /\ pc = "euclid" /\ pc' \in {"done", "ladder"}
            BY <1>13 DEF VerifEnd, Ladder, Return
      <2> QED
          BY <1>1, <1>2, <2>1 DEF CallInv
<1> QED
    BY <1>3, <1>4, <1>5, <1>6, <1>7, <1>8, <1>9, <1>10, <1>11, <1>12, <1>13 DEF Next

LEMMA MulInit == Init => MulInv
<1> SUFFICES ASSUME Init PROVE MulInv
    OBVIOUS
<1>1. CallInv
      <2>1. <<0, 0>> \in Vectors
            BY OrderLarge DEF Vectors
      <2> QED
          BY <2>1, Constants DEF Init, NoCall, CallInv, BasisOK
<1>2. pc = "idle"
      BY DEF Init
<1>3. Answered
      BY <1>2, NotDone
<1> QED
    BY <1>1, <1>2, <1>3 DEF MulInv

\* The routines of the constant-time multiplication of two scalars are
\* nothing of what Answered speaks of.
LEMMA OtherAnswers ==
    ASSUME call'.alg \notin {"ladder", "ladder3pt", "verif"} \/ pc' # "done"
    PROVE  Answered'
BY DEF Answered, ResultRight, PointRight, RefusalRight

LEMMA MulKeeps ==
    ASSUME MulInv, [Next]_svars
    PROVE  MulInv'
<1> USE DEF MulInv
<1>1. CallInv /\ CallInv'
      BY CallKeeps
<1>2. CASE UNCHANGED svars
      <2>1. LadderInv => LadderInv'
            BY <1>2 DEF svars, LadderInv, LadderShape, Sinks, Climbs, Low, High, Target, Comb, Mask, P, HasZeroCoordinate
      <2>2. Ladder3Inv => Ladder3Inv'
            BY <1>2 DEF svars, Ladder3Inv, Exponent, Marks, FullBasis, Comb
      <2>3. EuclidInv => EuclidInv'
            BY <1>2 DEF svars, EuclidInv, EuclidShape, Regular, Weighs, Leads, Comb, Mask, HasZeroCoordinate
      <2>4. Answered'
            BY <1>2 DEF svars, Answered, ResultRight, PointRight, RefusalRight, Refused, Expected, Combination, Usable,
                        FullBasis, ShortColumn, Mask, Capacity, P, Q, PmQ, HasZeroCoordinate, IsTwoTorsion
      <2> QED
          BY <1>1, <1>2, <2>1, <2>2, <2>3, <2>4 DEF svars
<1>3. CASE pc = "idle" /\ \E b \in Bases, k \in Scalars, w \in Widths :
              \/ \E alg \in {"ladder", "ladder3pt"} : Call(alg, b, k, 0, w)
              \/ \E alg \in {"biscalar", "verif"}, l \in Scalars : Call(alg, b, k, l, w)
      <2>1. pc' = "called"
            BY <1>3 DEF Call
      <2> QED
          BY <1>1, <2>1, OtherAnswers
<1>4. CASE LadderEnter
      <2>1. pc' = "ladder"
            BY <1>4 DEF LadderEnter, Ladder
      <2> QED
          BY <1>1, <1>4, <2>1, LadderEnterKeeps, OtherAnswers
<1>5. CASE LadderTurn
      <2>1. pc = "ladder" /\ pc' = "ladder"
            BY <1>5 DEF LadderTurn
      <2> QED
          BY <1>1, <1>5, <2>1, LadderTurnKeeps, OtherAnswers
<1>6. CASE LadderEnd
      <2>1. pc = "ladder" /\ pc' = "done"
            BY <1>6 DEF LadderEnd, Return
      <2> QED
          BY <1>1, <1>6, <2>1, LadderEndKeeps
<1>7. CASE Ladder3ptEnter
      <2>1. pc' \in {"ladder3pt", "done"}
            BY <1>7 DEF Ladder3ptEnter, Return
      <2> QED
          BY <1>1, <1>7, <2>1, Ladder3ptEnterKeeps
<1>8. CASE Ladder3ptTurn
      <2>1. pc = "ladder3pt" /\ pc' = "ladder3pt"
            BY <1>8 DEF Ladder3ptTurn
      <2> QED
          BY <1>1, <1>8, <2>1, Ladder3ptTurnKeeps, OtherAnswers
<1>9. CASE Ladder3ptEnd
      <2>1. pc = "ladder3pt" /\ pc' = "done"
            BY <1>9 DEF Ladder3ptEnd, Return
      <2> QED
          BY <1>1, <1>9, <2>1, Ladder3ptEndKeeps
<1>10. CASE BiscalarEnter \/ Recode \/ RecodeEnd \/ BiladderTurn \/ BiladderEnd
      <2>1. call'.alg = "biscalar"
            BY <1>1, <1>10 DEF CallInv, BiscalarEnter, Recode, RecodeEnd, BiladderTurn, BiladderEnd
      <2>2. pc' \in {"done", "recode", "biladder"}
            <3>1. CASE BiscalarEnter
                  BY <3>1 DEF BiscalarEnter, Return
            <3>2. CASE Recode \/ RecodeEnd
                  BY <3>2 DEF Recode, RecodeEnd, Return
            <3>3. CASE BiladderTurn \/ BiladderEnd
                  BY <3>3 DEF BiladderTurn, BiladderEnd, Return
            <3> QED
                BY <1>10, <3>1, <3>2, <3>3
      <2> QED
          BY <1>1, <2>1, <2>2, OtherAnswers
<1>11. CASE VerifEnter
      <2>1. pc' \in {"euclid", "done"}
            BY <1>11 DEF VerifEnter, Return
      <2> QED
          BY <1>1, <1>11, <2>1, VerifEnterKeeps
<1>12. CASE Euclid
      <2>1. pc = "euclid" /\ pc' \in {"euclid", "done"}
            BY <1>12 DEF Euclid, Return
      <2> QED
          BY <1>1, <1>12, <2>1, EuclidKeeps
<1>13. CASE Strip
      <2>1. pc = "euclid" /\ pc' = "euclid"
            BY <1>13 DEF Strip
      <2> QED
          BY <1>1, <1>13, <2>1, StripKeeps, OtherAnswers
<1>14. CASE VerifEnd
      <2>1. pc = "euclid" /\ pc' \in {"ladder", "done"}
            BY <1>14 DEF VerifEnd, Ladder, Return
      <2> QED
          BY <1>1, <1>14, <2>1, VerifEndKeeps
<1> QED
    BY <1>2, <1>3, <1>4, <1>5, <1>6, <1>7, <1>8, <1>9, <1>10, <1>11, <1>12, <1>13, <1>14 DEF Next

---------------------------------------------------------------------------
(* Small combinations of a basis.                                          *)

LEMMA Lengths == F \in Nat /\ F >= 3 /\ LimbBits \in Nat /\ LimbBits >= 3
BY FAssumption, ScalarAssumption

\* An odd factor takes nothing from the power of two in a product.
LEMMA OddFactor ==
    ASSUME NEW d \in Int, ~Even(d)
    PROVE  \A k \in Nat : k <= F => \A n \in Int : (\E j \in Int : d * n = j * 2 ^ k) => \E i \in Int : n = i * 2 ^ k
<1> DEFINE S == {k \in Nat : k <= F => \A n \in Int : (\E j \in Int : d * n = j * 2 ^ k) => \E i \in Int : n = i * 2 ^ k}
<1>0. \E w \in Int : d = 2 * w + 1
      <2>1. d = 2 * (d \div 2) + (d % 2) /\ d \div 2 \in Int /\ d % 2 \in 0..1
            BY DivMod
      <2>2. d % 2 # 0
            BY <2>1 DEF Even
      <2> QED
          BY <2>1, <2>2
<1>1. 0 \in S
      <2>1. ASSUME NEW n \in Int PROVE n = n * 2 ^ 0
            BY PowerAssumption
      <2>2. \A n \in Int : (\E j \in Int : d * n = j * 2 ^ 0) => \E i \in Int : n = i * 2 ^ 0
            BY <2>1, Zenon
      <2>3. 0 \in Nat
            OBVIOUS
      <2> QED
          BY <2>2, <2>3, Zenon
<1>2. ASSUME NEW k \in Nat, k \in S PROVE k + 1 \in S
      <2> SUFFICES ASSUME k + 1 <= F, NEW n \in Int, NEW j \in Int, d * n = j * 2 ^ (k + 1)
                   PROVE  \E i \in Int : n = i * 2 ^ (k + 1)
          <3>1. k + 1 \in Nat
                OBVIOUS
          <3> QED
              BY <3>1, Zenon
      <2>1. k \in 0..(F + LimbBits) /\ k <= F
            BY Constants
      <2> DEFINE m == 2 ^ k
      <2>2. m \in Nat \ {0} /\ 2 ^ (k + 1) = 2 * m
            BY <2>1, TwoPowers
      <2>3. d * n = (2 * j) * m /\ 2 * j \in Int
            <3>1. d * n = j * (2 * m)
                  BY <2>2
            <3> HIDE DEF m
            <3>2. j * (2 * m) = (2 * j) * m
                  BY <2>2
            <3> QED
                BY <3>1, <3>2
      <2>4. PICK i \in Int : n = i * m
            BY <1>2, <2>1, <2>3
      <2>5. PICK w \in Int : d = 2 * w + 1
            BY <1>0
      <2> HIDE DEF m
      <2>6. (d * i - 2 * j) * m = 0
            BY <2>2, <2>3, <2>4
      <2>7. d * i = 2 * j
            <3> DEFINE z == d * i - 2 * j
            <3>1. z \in Int /\ z * m = 0 /\ m \in Nat \ {0}
                  BY <2>2, <2>6
            <3> HIDE DEF z
            <3>2. z = 0
                  BY <3>1
            <3> QED
                BY <3>2 DEF z
      <2>8. i = 2 * (j - w * i) /\ j - w * i \in Int
            BY <2>5, <2>7
      <2>9. n = (j - w * i) * (2 * m)
            BY <2>2, <2>4, <2>8
      <2> QED
          BY <2>2, <2>8, <2>9, Zenon
<1>3. Nat \subseteq S
      <2> HIDE DEF S
      <2> QED
          BY <1>1, <1>2, SimpleInduction
<1> QED
    BY <1>3

LEMMA OddFactorOrder ==
    ASSUME NEW d \in Int, ~Even(d), NEW n \in Int, NEW j \in Int, d * n = j * Order
    PROVE  Null(n)
<1>1. F \in Nat /\ F <= F /\ Order = 2 ^ F
      BY Constants DEF Order
<1>2. \E i \in Int : d * n = i * 2 ^ F
      BY <1>1, Zenon
<1>3. \E i \in Int : n = i * 2 ^ F
      BY <1>1, <1>2, OddFactor, Zenon
<1> QED
    BY <1>1, <1>3, Zenon DEF Null

\* Twice a vector with a zero coordinate is 0.
LEMMA ZeroIsNull ==
    ASSUME NEW x \in Int, NEW y \in Int, HasZeroCoordinate(Pt(x, y))
    PROVE  Null(2 * x) /\ Null(2 * y)
<1>1. PICK h \in Nat : Order = 4 * h /\ Order \div 2 = 2 * h /\ h > 0
      BY OrderFour
<1>2. Identity = Pt(0, 0) /\ Origin = Pt(0, 2 * h)
      <2>1. Vec(0, 0) = <<0, 0>> /\ Vec(0, 2 * h) = <<0, 2 * h>>
            <3>1. 0 % Order = 0 /\ (2 * h) % Order = 2 * h
                  BY <1>1
            <3> QED
                BY <3>1 DEF Vec
      <2> QED
          BY <1>1, <2>1, Zenon DEF Identity, Origin, Pt
<1>3. Pt(x, y) = Pt(0, 0) \/ Pt(x, y) = Pt(0, 2 * h)
      BY <1>2, PtProper DEF HasZeroCoordinate
<1>4. ASSUME NEW n \in Int, Null(n) PROVE Null(2 * n)
      <2>1. PICK k \in Int : n = k * Order
            BY <1>4 DEF Null
      <2>2. 2 * n = (2 * k) * Order /\ 2 * k \in Int
            BY <2>1, OrderLarge
      <2> QED
          BY <2>2 DEF Null
<1>5. \E c \in {0, 2 * h} : (Null(x) /\ Null(y - c)) \/ (Null(x) /\ Null(y + c))
      <2>1. x - 0 = x /\ x + 0 = x /\ 0 \in Int /\ 2 * h \in Int
            OBVIOUS
      <2>2. CASE Pt(x, y) = Pt(0, 0)
            <3>1. (Null(x - 0) /\ Null(y - 0)) \/ (Null(x + 0) /\ Null(y + 0))
                  BY <2>2, PtEqual
            <3> QED
                BY <2>1, <3>1
      <2>3. CASE Pt(x, y) = Pt(0, 2 * h)
            <3>1. (Null(x - 0) /\ Null(y - 2 * h)) \/ (Null(x + 0) /\ Null(y + 2 * h))
                  BY <2>1, <2>3, PtEqual
            <3> QED
                BY <2>1, <3>1
      <2> QED
          BY <1>3, <2>2, <2>3
<1>6. PICK c \in {0, 2 * h} : (Null(x) /\ Null(y - c)) \/ (Null(x) /\ Null(y + c))
      BY <1>5
<1>7. c = 0 \/ 2 * c = Order
      BY <1>1
<1>8. Null(2 * y)
      <2>1. PICK k \in Int : y - c = k * Order \/ y + c = k * Order
            BY <1>6 DEF Null
      <2>2. c \in Int
            BY <1>1
      <2>3. 2 * y = (2 * k) * Order \/ 2 * y = (2 * k + 1) * Order \/ 2 * y = (2 * k - 1) * Order
            BY <1>7, <2>1, <2>2, OrderLarge
      <2> QED
          BY <2>3 DEF Null
<1> QED
    BY <1>4, <1>6, <1>8

\* Coefficients below half the order, not both 0.
Light(a, b) ==
    /\ a \in Int /\ b \in Int /\ (a # 0 \/ b # 0)
    /\ 2 * a < Order /\ -(2 * a) < Order /\ 2 * b < Order /\ -(2 * b) < Order

LEMMA NullIsZero ==
    ASSUME NEW a \in Int, 2 * a < Order, -(2 * a) < Order, Null(2 * a)
    PROVE  a = 0
<1> DEFINE n == Order
<1>1. n \in Nat /\ n >= 4 /\ 2 * a < n /\ -(2 * a) < n
      BY OrderLarge
<1>2. PICK k \in Int : 2 * a = k * n
      BY DEF Null
<1> HIDE DEF n
<1>3. k * n < n /\ -n < k * n
      BY <1>1, <1>2
<1>4. k >= 1 => k * n >= n
      BY <1>1
<1>5. k <= -1 => k * n <= -n
      <2>1. ASSUME NEW h \in Nat PROVE h * n >= 0
            BY <1>1
      <2>2. k <= -1 => (-1 - k) * n >= 0
            BY <2>1
      <2>3. (-1 - k) * n = -n - k * n
            BY <1>1
      <2> QED
          BY <1>1, <2>2, <2>3
<1>6. k = 0
      BY <1>1, <1>3, <1>4, <1>5
<1> QED
    BY <1>1, <1>2, <1>6

\* Such a combination of a basis has no zero coordinate.
LEMMA LightRegular ==
    ASSUME BasisOK, FullBasis, NEW a, NEW b, Light(a, b)
    PROVE  ~HasZeroCoordinate(Comb(a, b))
<1> SUFFICES ASSUME HasZeroCoordinate(Comb(a, b)) PROVE FALSE
    OBVIOUS
<1> DEFINE x == call.p[1]
           y == call.p[2]
           z == call.q[1]
           t == call.q[2]
<1>0. a \in Int /\ b \in Int
      BY DEF Light
<1>1. x \in Int /\ y \in Int /\ z \in Int /\ t \in Int
      BY Coordinates
<1>2. (x * t - y * z) % 2 = 1
      BY DEF FullBasis
<1>3. HasZeroCoordinate(Pt(a * x + b * z, a * y + b * t))
      BY Zenon DEF Comb
<1> HIDE DEF x, y, z, t
<1> DEFINE d == x * t - y * z
<1>4. d \in Int /\ ~Even(d)
      <2>1. d \in Int
            BY <1>1
      <2> QED
          BY <1>2, <2>1, OddNotEven
<1>5. a * x + b * z \in Int /\ a * y + b * t \in Int
      BY <1>0, <1>1
<1>6. Null(2 * (a * x + b * z)) /\ Null(2 * (a * y + b * t))
      BY <1>3, <1>5, ZeroIsNull
<1>7. PICK k \in Int : 2 * (a * x + b * z) = k * Order
      BY <1>6 DEF Null
<1>8. PICK j \in Int : 2 * (a * y + b * t) = j * Order
      BY <1>6 DEF Null
<1>9. Order \in Int
      BY OrderLarge
<1>10. d * (2 * a) = t * (2 * (a * x + b * z)) - z * (2 * (a * y + b * t))
       BY <1>0, <1>1
<1>11. d * (2 * b) = x * (2 * (a * y + b * t)) - y * (2 * (a * x + b * z))
       BY <1>0, <1>1
<1>12. d * (2 * a) = (t * k - z * j) * Order /\ d * (2 * b) = (x * j - y * k) * Order
       BY ONLY <1>1, <1>7, <1>8, <1>9, <1>10, <1>11, k \in Int, j \in Int
<1>13. t * k - z * j \in Int /\ x * j - y * k \in Int /\ 2 * a \in Int /\ 2 * b \in Int
       BY <1>0, <1>1
<1> HIDE DEF d
<1>14. Null(2 * a)
       BY <1>4, <1>12, <1>13, OddFactorOrder
<1>15. Null(2 * b)
       BY <1>4, <1>12, <1>13, OddFactorOrder
<1>16. a = 0 /\ b = 0
       BY <1>14, <1>15, NullIsZero DEF Light
<1> QED
    BY <1>16 DEF Light

---------------------------------------------------------------------------
(* The reduction of a short column.                                        *)

GoodArgs == Usable /\ FullBasis /\ ShortColumn

Small(c, d) == 4 * c < Order /\ 4 * d < Order

\* Weights that are not negative and independent; small before a doubling
\* that has nothing else to bound its point.
Balanced(u, a, b, c, d) ==
    /\ Weighs(u, a, b, c, d)
    /\ a \in Nat /\ b \in Nat /\ c \in Nat /\ d \in Nat /\ a * d # b * c
    /\ u.s1 = 0 \/ (u.s0 = 1 /\ u.s1 = 1) => Small(c, d)

VerifInv ==
    /\ pc = "euclid" => /\ curve.e0 \/ curve.cached
                        /\ GoodArgs => \E a, b, c, d : Balanced(st, a, b, c, d)
    /\ pc = "ladder" /\ call.alg = "verif" /\ GoodArgs => ~HasZeroCoordinate(st.p)
    /\ pc = "done" /\ call.alg = "verif" => RefusalRight

LEMMA Heavier ==
    ASSUME NEW m \in Nat, NEW s \in Nat, m <= s, NEW a \in Nat
    PROVE  m * a <= s * a
<1>1. s - m \in Nat
      OBVIOUS
<1>2. (s - m) * a \in Nat
      BY <1>1
<1>3. s * a = m * a + (s - m) * a
      OBVIOUS
<1> QED
    BY <1>2, <1>3

\* One of the two columns: what bounds its weights.
LEMMA ColumnBounds ==
    ASSUME NEW s \in Nat, NEW t \in Nat, NEW a \in Nat, NEW c \in Nat, NEW n \in Nat, 2 * (s * a + t * c) < n
    PROVE  /\ s >= 1 => 2 * a < n
           /\ s >= 2 => 4 * a < n
           /\ t >= 1 => 2 * c < n
           /\ t >= 2 => 4 * c < n
           /\ t >= 5 => 8 * c < n
           /\ s >= 1 /\ t >= 1 => 2 * (a + c) < n
<1> DEFINE x == s * a
           y == t * c
<1>1. x \in Nat /\ y \in Nat /\ 2 * (x + y) < n
      OBVIOUS
<1>2. (s >= 1 => 1 * a <= x) /\ (s >= 2 => 2 * a <= x)
      BY Heavier
<1>3. (t >= 1 => 1 * c <= y) /\ (t >= 2 => 2 * c <= y) /\ (t >= 5 => 5 * c <= y)
      BY Heavier
<1> HIDE DEF x, y
<1> QED
    BY <1>1, <1>2, <1>3

\* Three pairs no register loses a coordinate with.
Sound(a, b, c, d) ==
    /\ a \in Nat /\ b \in Nat /\ c \in Nat /\ d \in Nat /\ a * d # b * c
    /\ Light(a, b) /\ Light(c, d) /\ Light(a - c, b - d)

LEMMA SoundIs ==
    ASSUME NEW a \in Nat, NEW b \in Nat, NEW c \in Nat, NEW d \in Nat, a * d # b * c,
           2 * a < Order, 2 * b < Order, 2 * c < Order, 2 * d < Order
    PROVE  Sound(a, b, c, d)
<1>1. (a # 0 \/ b # 0) /\ (c # 0 \/ d # 0) /\ (a - c # 0 \/ b - d # 0)
      <2>1. ~(a = 0 /\ b = 0)
            <3>1. 0 * d = 0 * c
                  OBVIOUS
            <3> QED
                BY <3>1
      <2>2. ~(c = 0 /\ d = 0)
            <3>1. a * 0 = b * 0
                  OBVIOUS
            <3> QED
                BY <3>1
      <2>3. ~(a = c /\ b = d)
            <3>1. a * b = b * a
                  OBVIOUS
            <3> QED
                BY <3>1
      <2>4. (a - c = 0 => a = c) /\ (b - d = 0 => b = d)
            OBVIOUS
      <2> QED
          BY <2>1, <2>2, <2>3, <2>4
<1> DEFINE n == Order
<1>2. n \in Nat /\ n > 0 /\ 2 * a < n /\ 2 * b < n /\ 2 * c < n /\ 2 * d < n
      BY OrderLarge
<1> HIDE DEF n
<1>3. /\ -(2 * a) < n /\ -(2 * b) < n /\ -(2 * c) < n /\ -(2 * d) < n
      /\ 2 * (a - c) < n /\ -(2 * (a - c)) < n /\ 2 * (b - d) < n /\ -(2 * (b - d)) < n
      /\ a - c \in Int /\ b - d \in Int /\ a \in Int /\ b \in Int /\ c \in Int /\ d \in Int
      BY <1>2
<1> QED
    BY <1>1, <1>2, <1>3 DEF Sound, Light, n

\* What a step leaves when it does not refuse, and a cached A24 never does.
Stays(v) == curve.cached \/ Regular(v) => Regular(v) /\ \E a, b, c, d : Balanced(v, a, b, c, d)

LEMMA Stay ==
    ASSUME BasisOK, FullBasis, NEW s0, NEW s1, NEW x0, NEW x1, NEW xdiff,
           NEW v, v = [s0 |-> s0, s1 |-> s1, x0 |-> x0, x1 |-> x1, xdiff |-> xdiff],
           NEW a, NEW b, NEW c, NEW d, Sound(a, b, c, d),
           s0 * a + s1 * c = Mask(call.k), s0 * b + s1 * d = Mask(call.l),
           s1 = 0 \/ (s0 = 1 /\ s1 = 1) => Small(c, d),
           curve.cached \/ (~HasZeroCoordinate(x0) /\ ~HasZeroCoordinate(x1) /\ ~HasZeroCoordinate(xdiff)) =>
               x0 = Comb(a, b) /\ x1 = Comb(c, d) /\ xdiff = Comb(a - c, b - d)
    PROVE  Stays(v)
<1>1. v.s0 = s0 /\ v.s1 = s1 /\ v.x0 = x0 /\ v.x1 = x1 /\ v.xdiff = xdiff
      OBVIOUS
<1>2. SUFFICES ASSUME curve.cached \/ Regular(v)
               PROVE  Regular(v) /\ \E i, j, k, l : Balanced(v, i, j, k, l)
      BY Zenon DEF Stays
<1>3. x0 = Comb(a, b) /\ x1 = Comb(c, d) /\ xdiff = Comb(a - c, b - d)
      BY <1>1, <1>2, Zenon DEF Regular
<1>4. ~HasZeroCoordinate(Comb(a, b)) /\ ~HasZeroCoordinate(Comb(c, d)) /\ ~HasZeroCoordinate(Comb(a - c, b - d))
      BY LightRegular DEF Sound
<1>5. Regular(v)
      BY <1>1, <1>3, <1>4, Zenon DEF Regular
<1>6. a \in Nat /\ b \in Nat /\ c \in Nat /\ d \in Nat /\ a * d # b * c
      BY DEF Sound
<1>7. a \in Int /\ b \in Int /\ c \in Int /\ d \in Int
      BY <1>6
<1>8. Weighs(v, a, b, c, d)
      BY <1>1, <1>3, <1>7, Zenon DEF Weighs
<1>9. Balanced(v, a, b, c, d)
      BY <1>1, <1>6, <1>8, Zenon DEF Balanced
<1> QED
    BY <1>5, <1>9, Zenon

\* The columns before a step.
Ready(u, a, b, c, d) ==
    /\ Before(u, a, b, c, d) /\ GoodArgs
    /\ a \in Nat /\ b \in Nat /\ c \in Nat /\ d \in Nat /\ a * d # b * c
    /\ u.s0 = 0 => Small(a, b)
    /\ u.s0 = 1 /\ u.s1 = 1 => Small(c, d)

LEMMA MaskOdd == ASSUME NEW x \in Nat, call.kbits \in 1..F PROVE Mask(x) % 2 = x % 2
<1> DEFINE m == 2 ^ call.kbits
<1>1. call.kbits - 1 \in 0..(F + LimbBits) /\ call.kbits = (call.kbits - 1) + 1
      BY Constants
<1>2. 2 ^ (call.kbits - 1) \in Nat \ {0} /\ m = 2 * 2 ^ (call.kbits - 1)
      BY <1>1, TwoPowers
<1>3. PICK h \in Nat \ {0} : m = 2 * h
      BY <1>2, Zenon
<1> HIDE DEF m
<1>4. x = m * (x \div m) + (x % m) /\ x \div m \in Int /\ x % m \in Nat
      <2>1. m \in Nat \ {0} /\ x \in Int
            BY <1>3
      <2>2. x = m * (x \div m) + (x % m) /\ x % m \in 0..(m - 1) /\ x \div m \in Int
            BY <2>1, DivMod
      <2> DEFINE r == x % m
      <2>3. r \in 0..(m - 1)
            BY <2>2
      <2> HIDE DEF r
      <2>4. r \in Nat
            BY <2>1, <2>3
      <2> QED
          BY <2>2, <2>4 DEF r
<1> DEFINE q == x \div m
           r == x % m
<1>5. x = 2 * (h * q) + r /\ h * q \in Int /\ r \in Nat
      <2> HIDE DEF q, r
      <2>1. x = m * q + r /\ q \in Int /\ r \in Nat
            BY <1>4 DEF q, r
      <2>2. m * q = 2 * (h * q)
            BY <1>3, <2>1
      <2>3. h * q \in Int
            BY <1>3, <2>1
      <2> QED
          BY <2>1, <2>2, <2>3
<1> DEFINE w == h * q
<1> HIDE DEF w, q, r
<1>6. w \in Int /\ x = 2 * w + r /\ r \in Nat
      BY <1>5 DEF w
<1>7. r % 2 = x % 2
      BY <1>6
<1> QED
    BY <1>7 DEF Mask, r, m

\* One of the masked scalars is odd and both are short.
LEMMA Short ==
    ASSUME ShortColumn, call.k \in Nat, call.l \in Nat, call.kbits \in 1..F
    PROVE  /\ Mask(call.k) \in Nat /\ Mask(call.l) \in Nat
           /\ Mask(call.k) % 2 = 1 \/ Mask(call.l) % 2 = 1
           /\ 2 * Mask(call.k) < Order /\ 2 * Mask(call.l) < Order
<1>1. Mask(call.k) \in Nat /\ Mask(call.l) \in Nat
      BY MaskRange
<1>2. Mask(call.k) % 2 = call.k % 2 /\ Mask(call.l) % 2 = call.l % 2
      BY MaskOdd
<1> QED
    BY <1>1, <1>2, Zenon DEF ShortColumn

\* Limbs have three bits or more.
LEMMA CapacityEight ==
    ASSUME call.kbits \in 1..F
    PROVE  Capacity \in Nat /\ (Capacity = 8 \/ Capacity >= 16)
<1> DEFINE q == (call.kbits + LimbBits - 1) \div LimbBits
           e == Exponent
<1>1. e \in Nat /\ e >= 1 /\ e \in 0..(F + LimbBits) /\ Capacity = 2 ^ e
      BY ExponentRange, Constants
<1>2. e = LimbBits * q /\ q \in Int
      <2>1. q \in Int
            <3>1. call.kbits + LimbBits - 1 \in Int /\ LimbBits \in Nat \ {0}
                  BY Constants
            <3> QED
                BY <3>1, DivMod
      <2> QED
          BY <2>1, Zenon DEF Exponent
<1>3. e >= 3
      <2> HIDE DEF q, e
      <2>1. q >= 1
            <3>1. CASE q <= 0
                  <4>1. -q \in Nat /\ LimbBits * (-q) \in Nat
                        BY <1>2, <3>1, Constants
                  <4>2. LimbBits * (-q) = -(LimbBits * q)
                        BY <1>2, Constants
                  <4> QED
                      BY <1>1, <1>2, <4>1, <4>2
            <3> QED
                BY <1>2, <3>1
      <2>2. q \in Nat /\ 1 <= q /\ LimbBits \in Nat
            BY <1>2, <2>1, Lengths
      <2>3. 1 * LimbBits <= q * LimbBits
            BY <2>2, Heavier
      <2>4. q * LimbBits = LimbBits * q
            BY <2>2
      <2> QED
          BY <1>2, <2>2, <2>3, <2>4, Lengths
<1> HIDE DEF q, e
<1>4. 2 ^ 3 = 8 /\ 2 ^ 4 = 16
      <2>1. {0, 1, 2, 3} \subseteq 0..(F + LimbBits)
            BY Lengths
      <2>2. 2 ^ (0 + 1) = 2 * 2 ^ 0 /\ 2 ^ (1 + 1) = 2 * 2 ^ 1 /\ 2 ^ (2 + 1) = 2 * 2 ^ 2 /\ 2 ^ (3 + 1) = 2 * 2 ^ 3
            BY <2>1, PowerAssumption
      <2>3. 0 + 1 = 1 /\ 1 + 1 = 2 /\ 2 + 1 = 3 /\ 3 + 1 = 4 /\ 2 ^ 0 = 1
            BY PowerAssumption
      <2>4. 2 ^ 1 = 2 * 1 /\ 2 ^ 2 = 2 * 2 ^ 1 /\ 2 ^ 3 = 2 * 2 ^ 2 /\ 2 ^ 4 = 2 * 2 ^ 3
            BY <2>2, <2>3, Zenon
      <2> QED
          BY <2>4
<1>5. e >= 4 => 2 ^ 4 <= 2 ^ e
      <2>1. e >= 4 => 4 \in 0..e
            BY <1>1
      <2> QED
          BY <1>1, <2>1, PowersGrow, Zenon
<1>6. 2 ^ e \in Nat
      BY <1>1, TwoPowers
<1>7. CASE e = 3
      BY <1>1, <1>4, <1>7
<1>8. CASE e >= 4
      BY <1>1, <1>4, <1>5, <1>6, <1>8
<1> QED
    BY <1>1, <1>3, <1>7, <1>8

\* Two even numbers make two even columns.
OddColumns(s, t, a, b, c, d) == (s * a + t * c) % 2 = 1 \/ (s * b + t * d) % 2 = 1

LEMMA OneOdd ==
    ASSUME NEW s \in Nat, NEW t \in Nat, NEW a \in Nat, NEW b \in Nat, NEW c \in Nat, NEW d \in Nat,
           OddColumns(s, t, a, b, c, d)
    PROVE  s % 2 = 1 \/ t % 2 = 1
<1>1. CASE s % 2 = 0 /\ t % 2 = 0
      <2>1. PICK p \in Nat : s = 2 * p
            BY <1>1
      <2>2. PICK q \in Nat : t = 2 * q
            BY <1>1
      <2>3. s * a + t * c = 2 * (p * a + q * c) /\ s * b + t * d = 2 * (p * b + q * d)
            BY <2>1, <2>2
      <2>4. p * a + q * c \in Nat /\ p * b + q * d \in Nat
            OBVIOUS
      <2>5. \A h \in Nat : (2 * h) % 2 = 0
            OBVIOUS
      <2>6. (s * a + t * c) % 2 = 0 /\ (s * b + t * d) % 2 = 0
            BY <2>3, <2>4, <2>5, Zenon
      <2> QED
          BY <2>6 DEF OddColumns
<1> QED
    BY <1>1

\* The columns as numbers, and what bounds the weights.
LEMMA ReadyFields ==
    ASSUME NEW u, NEW a, NEW b, NEW c, NEW d, Ready(u, a, b, c, d)
    PROVE  /\ a \in Nat /\ b \in Nat /\ c \in Nat /\ d \in Nat /\ a * d # b * c
           /\ u.s0 \in Nat /\ u.s1 \in Nat /\ u.s0 <= u.s1 /\ u.s1 # 0
           /\ u.s0 % 2 = 1 \/ u.s1 % 2 = 1
           /\ u.s0 >= 1 => 2 * a < Order /\ 2 * b < Order /\ 2 * (a + c) < Order /\ 2 * (b + d) < Order
           /\ u.s0 >= 2 => Small(a, b)
           /\ 2 * c < Order /\ 2 * d < Order
           /\ u.s1 >= 2 => Small(c, d)
           /\ u.s1 >= 5 => 8 * c < Order /\ 8 * d < Order
           /\ BasisOK /\ FullBasis
<1> DEFINE s == u.s0
           t == u.s1
           n == Order
           k == Mask(call.k)
           l == Mask(call.l)
<1>1. /\ a \in Nat /\ b \in Nat /\ c \in Nat /\ d \in Nat /\ a * d # b * c
      /\ Before(u, a, b, c, d) /\ BasisOK /\ FullBasis
      BY DEF Ready, GoodArgs, Before
<1>2. s \in Int /\ t \in Int /\ s <= t /\ s * a + t * c = k /\ s * b + t * d = l /\ s \in 0..(2 ^ call.kbits - 1)
      BY <1>1, Fields
<1>3. k \in Nat /\ l \in Nat /\ (k % 2 = 1 \/ l % 2 = 1) /\ 2 * k < n /\ 2 * l < n
      BY <1>1, Short DEF Ready, GoodArgs, Before
<1>4. 2 ^ call.kbits \in Nat
      BY <1>1, MaskRange DEF Before
<1>5. n \in Nat
      BY OrderLarge
<1> HIDE DEF s, t, n, k, l
<1>6. s \in Nat /\ t \in Nat
      BY <1>2, <1>4
<1>7. s % 2 = 1 \/ t % 2 = 1
      <2>1. OddColumns(s, t, a, b, c, d)
            BY <1>2, <1>3, Zenon DEF OddColumns
      <2> QED
          BY <1>1, <1>6, <2>1, OneOdd
<1>8. t # 0
      <2>1. t = 0 => s = 0
            BY <1>2, <1>6
      <2> QED
          BY <1>7, <2>1
<1>9. 2 * (s * a + t * c) < n /\ 2 * (s * b + t * d) < n
      BY <1>2, <1>3
<1>10. /\ s >= 1 => 2 * a < n
       /\ s >= 2 => 4 * a < n
       /\ t >= 1 => 2 * c < n
       /\ t >= 2 => 4 * c < n
       /\ t >= 5 => 8 * c < n
       /\ s >= 1 /\ t >= 1 => 2 * (a + c) < n
       BY <1>1, <1>5, <1>6, <1>9, ColumnBounds
<1>11. /\ s >= 1 => 2 * b < n
       /\ s >= 2 => 4 * b < n
       /\ t >= 1 => 2 * d < n
       /\ t >= 2 => 4 * d < n
       /\ t >= 5 => 8 * d < n
       /\ s >= 1 /\ t >= 1 => 2 * (b + d) < n
       BY <1>1, <1>5, <1>6, <1>9, ColumnBounds
<1>12. t >= 1
       BY <1>6, <1>8
<1> QED
    BY <1>1, <1>2, <1>6, <1>7, <1>8, <1>10, <1>11, <1>12 DEF s, t, n, Small

\* The bound on four times the smaller scalar, when it wraps as when it does
\* not.
LEMMA FourTimes ==
    ASSUME call.kbits \in 1..F
    PROVE  (4 * 1) % Capacity = 4 /\ (4 * 3) % Capacity >= 4
<1> DEFINE n == Capacity
<1>1. n \in Nat /\ (n = 8 \/ n >= 16)
      BY CapacityEight
<1> HIDE DEF n
<1>2. 4 % n = 4 /\ 12 % n >= 4
      <2>1. CASE n = 8
            BY <2>1
      <2>2. CASE n >= 16
            BY <1>1, <2>2
      <2> QED
          BY <1>1, <2>1, <2>2
<1>3. 4 * 1 = 4 /\ 4 * 3 = 12
      OBVIOUS
<1> QED
    BY <1>2, <1>3 DEF n

LEMMA SubtractedStays ==
    ASSUME NEW u, NEW a, NEW b, NEW c, NEW d, Ready(u, a, b, c, d), u.s1 < (4 * u.s0) % Capacity
    PROVE  Stays(Subtracted(u))
<1> DEFINE s == u.s0
           t == u.s1
           k == Mask(call.k)
           l == Mask(call.l)
           r == Less(u)
           x == XAdd(u.x1, u.x0, u.xdiff)
           v == Subtracted(u)
<1>1. Before(u, a, b, c, d) /\ call.kbits \in 1..F
      BY DEF Ready, Before
<1>2. /\ a \in Int /\ b \in Int /\ c \in Int /\ d \in Int
      /\ s \in Int /\ t \in Int /\ r = t - s
      /\ s * a + t * c = k /\ s * b + t * d = l
      /\ u.x0 = Comb(a, b) /\ u.x1 = Comb(c, d) /\ x = Comb(a + c, b + d)
      BY <1>1, Fields
<1>3. v = [s0 |-> s, s1 |-> r, x0 |-> x, x1 |-> u.x1, xdiff |-> u.x0]
      <2>1. u = [s0 |-> u.s0, s1 |-> u.s1, x0 |-> u.x0, x1 |-> u.x1, xdiff |-> u.xdiff]
            BY <1>1 DEF Before, EuclidShape
      <2>2. v = [u EXCEPT !.s1 = r, !.x0 = x, !.xdiff = u.x0]
            BY DEF Subtracted
      <2> HIDE DEF r, x, v
      <2> QED
          BY <2>1, <2>2
<1>4. /\ a \in Nat /\ b \in Nat /\ c \in Nat /\ d \in Nat /\ a * d # b * c
      /\ s \in Nat /\ t \in Nat /\ s <= t
      /\ s >= 1 => 2 * (a + c) < Order /\ 2 * (b + d) < Order
      /\ 2 * c < Order /\ 2 * d < Order
      /\ t >= 2 => Small(c, d)
      /\ s = 1 /\ t = 1 => Small(c, d)
      /\ BasisOK /\ FullBasis
      BY ReadyFields DEF Ready
<1>5. s >= 1
      <2>1. CASE s = 0
            <3>1. Capacity \in Nat \ {0}
                  BY <1>1, CapacityLarge
            <3>2. (4 * 0) % Capacity = 0
                  BY <3>1
            <3>3. t < 0
                  BY <2>1, <3>2
            <3> QED
                BY <1>4, <3>3
      <2> HIDE DEF s
      <2> QED
          BY <1>4, <2>1
<1> HIDE DEF s, t, k, l, r, x, v
<1>6. s * (a + c) + r * c = k /\ s * (b + d) + r * d = l
      BY ONLY <1>2
<1>7. a + c \in Nat /\ b + d \in Nat /\ (a + c) - c = a /\ (b + d) - d = b
      BY <1>4
<1>8. (a + c) * d # (b + d) * c
      <2>1. (a + c) * d - (b + d) * c = a * d - b * c
            BY <1>4
      <2> DEFINE i == (a + c) * d
                 j == (b + d) * c
                 g == a * d
                 h == b * c
      <2>2. i \in Int /\ j \in Int /\ g \in Int /\ h \in Int /\ g # h /\ i - j = g - h
            BY <1>4, <1>7, <2>1
      <2> HIDE DEF i, j, g, h
      <2>3. i # j
            BY <2>2
      <2> QED
          BY <2>3 DEF i, j
<1>9. Sound(a + c, b + d, c, d)
      BY <1>4, <1>5, <1>7, <1>8, SoundIs
<1>10. r = 0 \/ (s = 1 /\ r = 1) => Small(c, d)
       <2>1. r = 0 => t = s
             BY <1>2
       <2>2. s = 1 /\ r = 1 => t = 2
             BY <1>2
       <2>3. t >= 2 \/ (s = 1 /\ t = 1)
             BY <1>4, <1>5
       <2> QED
           BY <1>4, <2>3
<1>11. x = Comb(a + c, b + d) /\ u.x1 = Comb(c, d) /\ u.x0 = Comb((a + c) - c, (b + d) - d)
       BY <1>2, <1>7, Zenon
<1>12. Stays(v)
       BY <1>3, <1>4, <1>6, <1>9, <1>10, <1>11, Stay DEF k, l
<1> QED
    BY <1>12 DEF v

LEMMA HalvedStays ==
    ASSUME NEW u, NEW a, NEW b, NEW c, NEW d, Ready(u, a, b, c, d),
           ~(u.s1 < (4 * u.s0) % Capacity), u.s1 % 2 = u.s0 % 2
    PROVE  Stays(Halved(u))
<1> DEFINE s == u.s0
           t == u.s1
           k == Mask(call.k)
           l == Mask(call.l)
           r == Less(u) \div 2
           x == XAdd(u.x1, u.x0, u.xdiff)
           y == XDblA24(u.x1, curve)
           v == Halved(u)
<1>1. Before(u, a, b, c, d) /\ call.kbits \in 1..F
      BY DEF Ready, Before
<1>2. /\ a \in Int /\ b \in Int /\ c \in Int /\ d \in Int
      /\ s \in Int /\ t \in Int /\ Less(u) = t - s
      /\ s * a + t * c = k /\ s * b + t * d = l
      /\ u.xdiff = Comb(a - c, b - d) /\ x = Comb(a + c, b + d) /\ XDbl(u.x1) = Comb(2 * c, 2 * d)
      BY <1>1, Fields
<1>3. v = [s0 |-> s, s1 |-> r, x0 |-> x, x1 |-> y, xdiff |-> u.xdiff]
      <2>1. u = [s0 |-> u.s0, s1 |-> u.s1, x0 |-> u.x0, x1 |-> u.x1, xdiff |-> u.xdiff]
            BY <1>1 DEF Before, EuclidShape
      <2>2. v = [u EXCEPT !.s1 = r, !.x0 = x, !.x1 = y]
            BY DEF Halved
      <2> HIDE DEF r, x, y, v
      <2> QED
          BY <2>1, <2>2
<1>4. /\ a \in Nat /\ b \in Nat /\ c \in Nat /\ d \in Nat /\ a * d # b * c
      /\ s \in Nat /\ t \in Nat /\ s <= t
      /\ s % 2 = 1 \/ t % 2 = 1
      /\ s >= 1 => 2 * (a + c) < Order /\ 2 * (b + d) < Order
      /\ t >= 2 => Small(c, d)
      /\ t >= 5 => 8 * c < Order /\ 8 * d < Order
      /\ BasisOK /\ FullBasis
      BY ReadyFields
<1>5. curve.cached \/ ~HasZeroCoordinate(y) => y = Comb(2 * c, 2 * d)
      <2>1. curve.cached => y = XDbl(u.x1)
            BY Zenon DEF XDblA24
      <2>2. ~HasZeroCoordinate(y) => y = XDbl(u.x1)
            BY <1>1, DoubleA24
      <2> QED
          BY <1>2, <2>1, <2>2, Zenon
<1>6. t % 2 = s % 2
      OBVIOUS
<1>7. (t < 4 => ~(s = 1 \/ s = 3)) /\ (t = 3 => s # 3)
      <2>1. (4 * 1) % Capacity = 4 /\ (4 * 3) % Capacity >= 4
            BY <1>1, FourTimes
      <2> DEFINE n == (4 * s) % Capacity
      <2>2. ~(t < n)
            OBVIOUS
      <2>3. (s = 1 => n = 4) /\ (s = 3 => n >= 4)
            BY <2>1
      <2> HIDE DEF n, s, t
      <2>4. s = 1 => ~(t < 4)
            BY <2>2, <2>3
      <2>5. s = 3 /\ t < 4 => t < n
            <3>1. Capacity \in Nat \ {0}
                  BY <1>1, CapacityLarge
            <3>2. n \in Int
                  BY <1>4, <3>1 DEF n
            <3> QED
                BY <1>4, <2>3, <3>2
      <2> QED
          BY <2>2, <2>4, <2>5
<1> DEFINE z == Less(u)
<1>8. z = t - s /\ r = z \div 2
      BY <1>2
<1> HIDE DEF s, t, k, l, r, x, y, v, z
<1>9. s % 2 = 1 /\ t % 2 = 1
      BY <1>4, <1>6
<1>10. s >= 1 /\ t >= 2
       BY <1>4, <1>7, <1>9
<1>11. t - s = 2 * r /\ r \in Int
       BY ONLY <1>4, <1>6, <1>8
<1>12. s * (a + c) + r * (2 * c) = k /\ s * (b + d) + r * (2 * d) = l
       <2>1. t = s + 2 * r
             BY <1>4, <1>11
       <2> QED
           BY ONLY <1>2, <1>11, <2>1
<1>13. /\ a + c \in Nat /\ b + d \in Nat /\ 2 * c \in Nat /\ 2 * d \in Nat
       /\ (a + c) - 2 * c = a - c /\ (b + d) - 2 * d = b - d
       BY <1>4
<1>14. (a + c) * (2 * d) # (b + d) * (2 * c)
       <2>1. (a + c) * (2 * d) - (b + d) * (2 * c) = 2 * (a * d - b * c)
             BY <1>4
       <2> DEFINE i == (a + c) * (2 * d)
                  j == (b + d) * (2 * c)
                  g == a * d
                  h == b * c
       <2>2. i \in Int /\ j \in Int /\ g \in Int /\ h \in Int /\ g # h /\ i - j = 2 * (g - h)
             BY <1>4, <1>13, <2>1
       <2> HIDE DEF i, j, g, h
       <2>3. i # j
             BY <2>2
       <2> QED
           BY <2>3 DEF i, j
<1>15. 2 * (2 * c) < Order /\ 2 * (2 * d) < Order
       <2>1. 4 * c < Order /\ 4 * d < Order
             BY <1>4, <1>10 DEF Small
       <2>2. 2 * (2 * c) = 4 * c /\ 2 * (2 * d) = 4 * d
             BY <1>4
       <2> QED
           BY <2>1, <2>2
<1>16. Sound(a + c, b + d, 2 * c, 2 * d)
       BY <1>4, <1>10, <1>13, <1>14, <1>15, SoundIs
<1>17. r = 0 \/ (s = 1 /\ r = 1) => Small(2 * c, 2 * d)
       <2>1. r = 0 => t >= 5
             BY <1>4, <1>7, <1>9, <1>11
       <2>2. ~(s = 1 /\ r = 1)
             BY <1>4, <1>7, <1>11
       <2>3. 4 * (2 * c) = 8 * c /\ 4 * (2 * d) = 8 * d
             BY <1>4
       <2>4. t >= 5 => Small(2 * c, 2 * d)
             BY <1>4, <2>3 DEF Small
       <2> QED
           BY <2>1, <2>2, <2>4
<1>18. curve.cached \/ (~HasZeroCoordinate(x) /\ ~HasZeroCoordinate(y) /\ ~HasZeroCoordinate(u.xdiff)) =>
           x = Comb(a + c, b + d) /\ y = Comb(2 * c, 2 * d) /\ u.xdiff = Comb((a + c) - 2 * c, (b + d) - 2 * d)
       BY <1>2, <1>5, <1>13, Zenon
<1>19. Stays(v)
       BY <1>3, <1>4, <1>12, <1>16, <1>17, <1>18, Stay DEF k, l
<1> QED
    BY <1>19 DEF v

LEMMA Halved1Stays ==
    ASSUME NEW u, NEW a, NEW b, NEW c, NEW d, Ready(u, a, b, c, d),
           ~(u.s1 < (4 * u.s0) % Capacity), u.s1 % 2 # u.s0 % 2, u.s1 % 2 = 0
    PROVE  Stays(Halved1(u))
<1> DEFINE s == u.s0
           t == u.s1
           k == Mask(call.k)
           l == Mask(call.l)
           r == u.s1 \div 2
           x == XAdd(u.x1, u.xdiff, u.x0)
           y == XDblA24(u.x1, curve)
           v == Halved1(u)
<1>1. Before(u, a, b, c, d) /\ call.kbits \in 1..F
      BY DEF Ready, Before
<1>2. /\ a \in Int /\ b \in Int /\ c \in Int /\ d \in Int
      /\ s * a + t * c = k /\ s * b + t * d = l
      /\ u.x0 = Comb(a, b) /\ x = Comb(a - 2 * c, b - 2 * d) /\ XDbl(u.x1) = Comb(2 * c, 2 * d)
      BY <1>1, Fields
<1>3. v = [s0 |-> s, s1 |-> r, x0 |-> u.x0, x1 |-> y, xdiff |-> x]
      <2>1. u = [s0 |-> u.s0, s1 |-> u.s1, x0 |-> u.x0, x1 |-> u.x1, xdiff |-> u.xdiff]
            BY <1>1 DEF Before, EuclidShape
      <2>2. v = [u EXCEPT !.s1 = r, !.xdiff = x, !.x1 = y]
            BY DEF Halved1
      <2> HIDE DEF r, x, y, v
      <2> QED
          BY <2>1, <2>2
<1>4. /\ a \in Nat /\ b \in Nat /\ c \in Nat /\ d \in Nat /\ a * d # b * c
      /\ s \in Nat /\ t \in Nat /\ s <= t
      /\ s % 2 = 1 \/ t % 2 = 1
      /\ s >= 1 => 2 * a < Order /\ 2 * b < Order
      /\ t >= 2 => Small(c, d)
      /\ BasisOK /\ FullBasis
      BY ReadyFields
<1>5. curve.cached \/ ~HasZeroCoordinate(y) => y = Comb(2 * c, 2 * d)
      <2>1. curve.cached => y = XDbl(u.x1)
            BY Zenon DEF XDblA24
      <2>2. ~HasZeroCoordinate(y) => y = XDbl(u.x1)
            BY <1>1, DoubleA24
      <2> QED
          BY <1>2, <2>1, <2>2, Zenon
<1>6. t % 2 = 0 /\ r = t \div 2
      OBVIOUS
<1>7. s = 1 => ~(t < 4)
      <2>1. (4 * 1) % Capacity = 4
            BY <1>1, FourTimes
      <2> QED
          BY <2>1
<1> HIDE DEF s, t, k, l, r, x, y, v
<1>8. s % 2 = 1
      BY <1>4, <1>6
<1>9. s >= 1 /\ t >= 2
      BY <1>4, <1>6, <1>8
<1>10. t = 2 * r /\ r \in Int
       BY ONLY <1>4, <1>6
<1>11. s * a + r * (2 * c) = k /\ s * b + r * (2 * d) = l
       BY ONLY <1>2, <1>10
<1>12. 2 * c \in Nat /\ 2 * d \in Nat
       BY <1>4
<1>13. a * (2 * d) # b * (2 * c)
       <2> DEFINE i == a * (2 * d)
                  j == b * (2 * c)
                  g == a * d
                  h == b * c
       <2>2. i \in Int /\ j \in Int /\ g \in Int /\ h \in Int /\ g # h /\ i = 2 * g /\ j = 2 * h
             BY <1>4
       <2> HIDE DEF i, j, g, h
       <2>3. i # j
             BY <2>2
       <2> QED
           BY <2>3 DEF i, j
<1>14. 2 * (2 * c) < Order /\ 2 * (2 * d) < Order
       <2>1. 4 * c < Order /\ 4 * d < Order
             BY <1>4, <1>9 DEF Small
       <2>2. 2 * (2 * c) = 4 * c /\ 2 * (2 * d) = 4 * d
             BY <1>4
       <2> QED
           BY <2>1, <2>2
<1>15. Sound(a, b, 2 * c, 2 * d)
       BY <1>4, <1>9, <1>12, <1>13, <1>14, SoundIs
<1>16. r = 0 \/ (s = 1 /\ r = 1) => Small(2 * c, 2 * d)
       BY <1>4, <1>7, <1>9, <1>10
<1>17. curve.cached \/ (~HasZeroCoordinate(u.x0) /\ ~HasZeroCoordinate(y) /\ ~HasZeroCoordinate(x)) =>
           u.x0 = Comb(a, b) /\ y = Comb(2 * c, 2 * d) /\ x = Comb(a - 2 * c, b - 2 * d)
       BY <1>2, <1>5, Zenon
<1>18. Stays(v)
       BY <1>3, <1>4, <1>11, <1>15, <1>16, <1>17, Stay DEF k, l
<1> QED
    BY <1>18 DEF v

LEMMA Halved0Stays ==
    ASSUME NEW u, NEW a, NEW b, NEW c, NEW d, Ready(u, a, b, c, d), u.s1 % 2 # 0, u.s0 % 2 = 0
    PROVE  Stays(Halved0(u))
<1> DEFINE s == u.s0
           t == u.s1
           k == Mask(call.k)
           l == Mask(call.l)
           r == u.s0 \div 2
           x == XAdd(u.x0, u.xdiff, u.x1)
           y == XDblA24(u.x0, curve)
           v == Halved0(u)
<1>1. Before(u, a, b, c, d) /\ call.kbits \in 1..F
      BY DEF Ready, Before
<1>2. /\ a \in Int /\ b \in Int /\ c \in Int /\ d \in Int
      /\ s * a + t * c = k /\ s * b + t * d = l
      /\ u.x1 = Comb(c, d) /\ x = Comb(2 * a - c, 2 * b - d) /\ XDbl(u.x0) = Comb(2 * a, 2 * b)
      BY <1>1, Fields
<1>3. v = [s0 |-> r, s1 |-> t, x0 |-> y, x1 |-> u.x1, xdiff |-> x]
      <2>1. u = [s0 |-> u.s0, s1 |-> u.s1, x0 |-> u.x0, x1 |-> u.x1, xdiff |-> u.xdiff]
            BY <1>1 DEF Before, EuclidShape
      <2>2. v = [u EXCEPT !.s0 = r, !.xdiff = x, !.x0 = y]
            BY DEF Halved0
      <2> HIDE DEF r, x, y, v
      <2> QED
          BY <2>1, <2>2
<1>4. /\ a \in Nat /\ b \in Nat /\ c \in Nat /\ d \in Nat /\ a * d # b * c
      /\ s \in Nat /\ t \in Nat /\ s <= t /\ t # 0
      /\ s = 0 => Small(a, b)
      /\ s >= 2 => Small(a, b)
      /\ 2 * c < Order /\ 2 * d < Order
      /\ BasisOK /\ FullBasis
      BY ReadyFields DEF Ready
<1>5. curve.cached \/ ~HasZeroCoordinate(y) => y = Comb(2 * a, 2 * b)
      <2>1. curve.cached => y = XDbl(u.x0)
            BY Zenon DEF XDblA24
      <2>2. ~HasZeroCoordinate(y) => y = XDbl(u.x0)
            BY <1>1, DoubleA24
      <2> QED
          BY <1>2, <2>1, <2>2, Zenon
<1>6. s % 2 = 0 /\ r = s \div 2 /\ t % 2 # 0
      OBVIOUS
<1> HIDE DEF s, t, k, l, r, x, y, v
<1>7. s = 0 \/ s >= 2
      BY <1>4, <1>6
<1>8. s = 2 * r /\ r \in Int
      BY ONLY <1>4, <1>6
<1>9. r * (2 * a) + t * c = k /\ r * (2 * b) + t * d = l
      BY ONLY <1>2, <1>4, <1>8
<1>10. 2 * a \in Nat /\ 2 * b \in Nat
       BY <1>4
<1>11. (2 * a) * d # (2 * b) * c
       <2> DEFINE i == (2 * a) * d
                  j == (2 * b) * c
                  g == a * d
                  h == b * c
       <2>2. i \in Int /\ j \in Int /\ g \in Int /\ h \in Int /\ g # h /\ i = 2 * g /\ j = 2 * h
             BY <1>4
       <2> HIDE DEF i, j, g, h
       <2>3. i # j
             BY <2>2
       <2> QED
           BY <2>3 DEF i, j
<1>12. 2 * (2 * a) < Order /\ 2 * (2 * b) < Order
       <2>1. 4 * a < Order /\ 4 * b < Order
             BY <1>4, <1>7 DEF Small
       <2>2. 2 * (2 * a) = 4 * a /\ 2 * (2 * b) = 4 * b
             BY <1>4
       <2> QED
           BY <2>1, <2>2
<1>13. Sound(2 * a, 2 * b, c, d)
       BY <1>4, <1>10, <1>11, <1>12, SoundIs
<1>14. t = 0 \/ (r = 1 /\ t = 1) => Small(c, d)
       BY <1>4, <1>8
<1>15. curve.cached \/ (~HasZeroCoordinate(y) /\ ~HasZeroCoordinate(u.x1) /\ ~HasZeroCoordinate(x)) =>
           y = Comb(2 * a, 2 * b) /\ u.x1 = Comb(c, d) /\ x = Comb(2 * a - c, 2 * b - d)
       BY <1>2, <1>5, Zenon
<1>16. Stays(v)
       BY <1>3, <1>4, <1>9, <1>13, <1>14, <1>15, Stay DEF k, l
<1> QED
    BY <1>16 DEF v

LEMMA ReducedStays ==
    ASSUME NEW u, NEW a, NEW b, NEW c, NEW d, Ready(u, a, b, c, d)
    PROVE  Stays(Reduced(u))
<1>1. CASE u.s1 < (4 * u.s0) % Capacity
      <2>1. Reduced(u) = Subtracted(u)
            BY <1>1 DEF Reduced
      <2> QED
          BY <1>1, <2>1, SubtractedStays
<1>2. CASE ~(u.s1 < (4 * u.s0) % Capacity) /\ u.s1 % 2 = u.s0 % 2
      <2>1. Reduced(u) = Halved(u)
            BY <1>2, Zenon DEF Reduced
      <2> QED
          BY <1>2, <2>1, HalvedStays
<1>3. CASE ~(u.s1 < (4 * u.s0) % Capacity) /\ u.s1 % 2 # u.s0 % 2 /\ u.s1 % 2 = 0
      <2>1. Reduced(u) = Halved1(u)
            BY <1>3, Zenon DEF Reduced
      <2> QED
          BY <1>3, <2>1, Halved1Stays
<1>4. CASE ~(u.s1 < (4 * u.s0) % Capacity) /\ u.s1 % 2 # u.s0 % 2 /\ u.s1 % 2 # 0
      <2>1. Reduced(u) = Halved0(u)
            BY <1>4, Zenon DEF Reduced
      <2>2. u.s0 % 2 = 0
            <3> DEFINE s == u.s0
                       t == u.s1
            <3>1. s \in Nat /\ t \in Nat
                  BY ReadyFields
            <3>2. s % 2 # t % 2 /\ t % 2 # 0
                  BY <1>4
            <3> HIDE DEF s, t
            <3>3. s % 2 = 0
                  BY <3>1, <3>2
            <3> QED
                BY <3>3 DEF s
      <2> QED
          BY <1>4, <2>1, <2>2, Halved0Stays
<1> QED
    BY <1>1, <1>2, <1>3, <1>4

LEMMA OrderedReady ==
    ASSUME CallInv, EuclidInv, st.s0 # 0, GoodArgs, NEW a, NEW b, NEW c, NEW d, Balanced(st, a, b, c, d)
    PROVE  Ready(Ordered, a, b, c, d) \/ Ready(Ordered, c, d, a, b)
<1>1. /\ Weighs(st, a, b, c, d)
      /\ a \in Nat /\ b \in Nat /\ c \in Nat /\ d \in Nat /\ a * d # b * c
      /\ st.s1 = 0 \/ (st.s0 = 1 /\ st.s1 = 1) => Small(c, d)
      BY DEF Balanced
<1>2. IF st.s1 < st.s0 THEN /\ Before(Ordered, c, d, a, b)
                            /\ Ordered.s0 = st.s1 /\ Ordered.s1 = st.s0
                       ELSE Before(Ordered, a, b, c, d) /\ Ordered = st
      BY <1>1, OrderedBefore
<1>3. CASE ~(st.s1 < st.s0)
      BY <1>1, <1>2, <1>3, Zenon DEF Ready
<1>4. CASE st.s1 < st.s0
      <2>1. c * b # d * a
            <3>1. c * b = b * c /\ d * a = a * d
                  BY <1>1
            <3> QED
                BY <1>1, <3>1, Zenon
      <2>2. ~(1 < 1)
            OBVIOUS
      <2>3. Ordered.s0 = 1 /\ Ordered.s1 = 1 => Small(a, b)
            BY <1>2, <1>4, <2>2, Zenon
      <2>4. Ordered.s0 = 0 => Small(c, d)
            BY <1>1, <1>2, <1>4, Zenon
      <2> QED
          BY <1>1, <1>2, <1>4, <2>1, <2>3, <2>4, Zenon DEF Ready
<1> QED
    BY <1>3, <1>4

---------------------------------------------------------------------------
(* No good call of ec_biscalar_mul_verif is refused.                       *)

LEMMA SameArgs == ASSUME call' = call PROVE GoodArgs' = GoodArgs
BY DEF GoodArgs, Usable, FullBasis, ShortColumn, Mask, P, Q, PmQ, HasZeroCoordinate

LEMMA MayRefuse ==
    ASSUME call.alg = "verif", call' = call, ~GoodArgs \/ (curve'.e0 /\ ~curve'.cached)
    PROVE  RefusalRight'
<1>1. ~GoodArgs' \/ (curve'.e0 /\ ~curve'.cached)
      BY SameArgs
<1> QED
    BY <1>1 DEF RefusalRight, Refused, GoodArgs

LEMMA VerifEnterGood ==
    ASSUME CallInv, VerifEnter
    PROVE  VerifInv'
<1>1. call' = call /\ call.alg = "verif" /\ call.kbits \in 1..F /\ call.k \in Nat /\ call.l \in Nat /\ curve \in Curves
      BY DEF CallInv, VerifEnter
<1>2. CASE pc' = "euclid"
      <2>1. curve' = Prepared /\ Weighs(st, 1, 0, 0, 1)'
            <3>1. curve' = Prepared
                  BY <1>2 DEF VerifEnter, Return
            <3> QED
                BY <1>2, <3>1, VerifEnterKeeps
      <2>2. curve'.e0 \/ curve'.cached
            BY <1>1, <2>1 DEF Prepared, NormalizeA24, Curves
      <2>3. Small(0, 1)
            <3>1. PICK h \in Nat : Order = 8 * h /\ h > 0
                  <4>1. F - 3 \in 0..(F + LimbBits) /\ F - 2 \in 0..(F + LimbBits) /\ F - 1 \in 0..(F + LimbBits)
                        /\ (F - 3) + 1 = F - 2 /\ (F - 2) + 1 = F - 1 /\ (F - 1) + 1 = F
                        BY Lengths
                  <4> DEFINE h == 2 ^ (F - 3)
                             i == 2 ^ (F - 2)
                             j == 2 ^ (F - 1)
                  <4>2. h \in Nat \ {0} /\ i = 2 * h /\ j = 2 * i /\ Order = 2 * j
                        BY <4>1, TwoPowers DEF Order
                  <4> HIDE DEF h, i, j
                  <4>3. h \in Nat /\ Order = 8 * h /\ h > 0
                        BY <4>2
                  <4> QED
                      BY <4>3
            <3>2. 4 * 0 = 0 /\ 4 * 1 = 4 /\ 0 < Order /\ 4 < Order
                  BY <3>1
            <3> QED
                BY <3>2 DEF Small
      <2>4. 1 * 1 # 0 * 0 /\ 1 \in Nat /\ 0 \in Nat
            OBVIOUS
      <2>5. Balanced(st, 1, 0, 0, 1)'
            BY <2>1, <2>3, <2>4, Zenon DEF Balanced, Small
      <2> QED
          BY <1>2, <2>2, <2>5 DEF VerifInv
<1>3. CASE pc' # "euclid"
      <2>1. /\ HasZeroCoordinate(P) \/ HasZeroCoordinate(Q) \/ HasZeroCoordinate(PmQ) \/ (Mask(call.k) = 0 /\ Mask(call.l) = 0)
            /\ pc' = "done"
            BY <1>3, Zenon DEF VerifEnter, Return
      <2>2. ShortColumn => ~(Mask(call.k) = 0 /\ Mask(call.l) = 0)
            <3>1. 0 % 2 = 0 /\ 0 # 1
                  OBVIOUS
            <3>2. ShortColumn => Mask(call.k) % 2 = 1 \/ Mask(call.l) % 2 = 1
                  BY <1>1, Short
            <3> QED
                BY <3>1, <3>2
      <2>3. ~GoodArgs
            BY <2>1, <2>2 DEF GoodArgs, Usable
      <2>4. RefusalRight'
            BY <1>1, <2>3, MayRefuse
      <2> QED
          BY <2>1, <2>4 DEF VerifInv
<1> QED
    BY <1>2, <1>3

LEMMA EuclidGood ==
    ASSUME CallInv, EuclidInv, VerifInv, Euclid
    PROVE  VerifInv'
<1>1. call' = call /\ curve' = curve /\ call.alg = "verif" /\ st.s0 # 0 /\ pc = "euclid"
      BY DEF CallInv, Euclid
<1>2. /\ curve.e0 \/ curve.cached
      /\ GoodArgs => \E a, b, c, d : Balanced(st, a, b, c, d)
      BY <1>1 DEF VerifInv
<1> DEFINE v == Reduced(Ordered)
<1>3. GoodArgs => Stays(v)
      <2> SUFFICES ASSUME GoodArgs PROVE Stays(v)
          OBVIOUS
      <2>1. PICK a, b, c, d : Balanced(st, a, b, c, d)
            BY <1>2
      <2>2. Ready(Ordered, a, b, c, d) \/ Ready(Ordered, c, d, a, b)
            BY <1>1, <2>1, OrderedReady
      <2>3. PICK i, j, k, l : Ready(Ordered, i, j, k, l)
            BY <2>2
      <2> QED
          BY <2>3, ReducedStays
<1>4. IF ~Regular(v) THEN pc' = "done" /\ out' = None
      ELSE st' = v /\ pc' = pc
      <2>1. IF \E p \in {v.x0, v.x1, v.xdiff} : HasZeroCoordinate(p) THEN Return(None) /\ st' = st
            ELSE st' = v /\ UNCHANGED <<pc, out>>
            BY DEF Euclid
      <2> HIDE DEF v
      <2> QED
          BY <2>1 DEF Regular, Return
<1> HIDE DEF v
<1>5. CASE ~Regular(v)
      <2>1. ~GoodArgs \/ (curve.e0 /\ ~curve.cached)
            BY <1>2, <1>3, <1>5 DEF Stays
      <2>2. RefusalRight'
            BY <1>1, <2>1, MayRefuse
      <2> QED
          BY <1>4, <1>5, <2>2 DEF VerifInv
<1>6. CASE Regular(v)
      <2>1. GoodArgs => \E a, b, c, d : Balanced(v, a, b, c, d)
            BY <1>3, <1>6 DEF Stays
      <2>2. ASSUME NEW a, NEW b, NEW c, NEW d, Balanced(v, a, b, c, d)
            PROVE  Balanced(st, a, b, c, d)'
            <3>1. st' = v
                  BY <1>4, <1>6
            <3>2. Weighs(st, a, b, c, d)'
                  BY <1>1, <2>2, <3>1 DEF Balanced, Weighs, Comb, Mask
            <3> QED
                BY <2>2, <3>1, <3>2, Zenon DEF Balanced, Small
      <2>3. GoodArgs' => (\E a, b, c, d : Balanced(st, a, b, c, d))'
            BY <1>1, <2>1, <2>2, SameArgs
      <2> QED
          BY <1>1, <1>2, <1>4, <1>6, <2>3 DEF VerifInv
<1> QED
    BY <1>5, <1>6

\* The column that is left is odd.
LEMMA EndOdd ==
    ASSUME CallInv, EuclidInv, VerifInv, pc = "euclid", st.s0 = 0, GoodArgs
    PROVE  st.s1 % 2 = 1 /\ ~HasZeroCoordinate(st.x1)
<1>1. PICK a, b, c, d : Balanced(st, a, b, c, d)
      BY DEF VerifInv
<1> DEFINE t == st.s1
           k == Mask(call.k)
           l == Mask(call.l)
<1>2. /\ a \in Nat /\ b \in Nat /\ c \in Nat /\ d \in Nat
      /\ 0 * a + t * c = k /\ 0 * b + t * d = l /\ st.x1 = Comb(c, d)
      BY <1>1 DEF Balanced, Weighs
<1>3. BasisOK /\ FullBasis /\ t \in 0..(2 ^ call.kbits - 1) /\ 2 ^ call.kbits \in Nat /\ (k % 2 = 1 \/ l % 2 = 1)
      BY MaskRange, Short DEF CallInv, GoodArgs, EuclidInv, EuclidShape
<1> HIDE DEF t, k, l
<1>4. t \in Nat /\ (t * c) = k /\ (t * d) = l
      BY <1>2, <1>3
<1>5. t % 2 = 1
      <2>1. OddColumns(0, t, a, b, c, d)
            BY <1>2, <1>3, Zenon DEF OddColumns
      <2>2. 0 \in Nat /\ 0 % 2 # 1
            OBVIOUS
      <2>3. 0 % 2 = 1 \/ t % 2 = 1
            BY <1>2, <1>4, <2>1, <2>2, OneOdd
      <2> QED
          BY <2>2, <2>3
<1>6. ~Even(c) \/ ~Even(d)
      <2>1. ASSUME Even(c), Even(d) PROVE FALSE
            <3>1. PICK i \in Int : c = 2 * i
                  BY <2>1 DEF Even
            <3>2. PICK j \in Int : d = 2 * j
                  BY <2>1 DEF Even
            <3>3. k = 2 * (t * i) /\ l = 2 * (t * j) /\ t * i \in Int /\ t * j \in Int
                  BY <1>4, <3>1, <3>2
            <3>4. k \in Int /\ l \in Int /\ Even(k) /\ Even(l)
                  BY <3>3 DEF Even
            <3> QED
                BY <1>3, <3>4, OddNotEven
      <2> QED
          BY <2>1
<1>7. ~HasZeroCoordinate(Comb(c, d))
      <2>1. c \in Int /\ d \in Int
            BY <1>2
      <2> QED
          BY <1>3, <1>6, <2>1, CombRegular
<1> QED
    BY <1>2, <1>5, <1>7 DEF t

LEMMA StripGood ==
    ASSUME CallInv, EuclidInv, VerifInv, Strip
    PROVE  VerifInv'
<1>1. call' = call /\ curve' = curve /\ pc' = "euclid" /\ pc = "euclid" /\ st.s0 = 0 /\ st.s1 % 2 = 0
      BY DEF Strip
<1>2. ~GoodArgs
      BY <1>1, EndOdd
<1> QED
    BY <1>1, <1>2, SameArgs DEF VerifInv

LEMMA VerifEndGood ==
    ASSUME CallInv, EuclidInv, VerifInv, VerifEnd
    PROVE  VerifInv'
<1>1. call' = call /\ pc = "euclid" /\ st.s0 = 0 /\ call.alg = "verif" /\ GoodArgs' = GoodArgs
      BY SameArgs DEF VerifEnd, CallInv
<1>2. GoodArgs => ~HasZeroCoordinate(st.x1)
      BY <1>1, EndOdd
<1>3. CASE st.s1 # 1
      <2>1. Ladder(st.x1, st.s1, call.kbits)
            BY <1>3, Zenon DEF VerifEnd
      <2>2. st' = [r0 |-> Identity, r1 |-> st.x1, p |-> st.x1, k |-> st.s1, prevbit |-> 0, i |-> call.kbits] /\ pc' = "ladder"
            BY <2>1, Zenon DEF Ladder
      <2>3. st'.p = st.x1
            BY <2>2
      <2>4. GoodArgs' => ~HasZeroCoordinate(st.p)'
            BY <1>1, <1>2, <2>3, Zenon DEF HasZeroCoordinate
      <2> QED
          BY <2>2, <2>4 DEF VerifInv
<1>4. CASE st.s1 = 1
      <2>1. pc' = "done" /\ out' = (IF HasZeroCoordinate(st.x1) THEN None ELSE st.x1)
            BY <1>4, Zenon DEF VerifEnd, Return
      <2>2. GoodArgs => out' # None
            <3>1. ASSUME GoodArgs PROVE st.x1 # None
                  <4>1. PICK a, b, c, d : Balanced(st, a, b, c, d)
                        BY <1>1, <3>1 DEF VerifInv
                  <4>2. st.x1 = Comb(c, d) /\ c \in Int /\ d \in Int /\ BasisOK
                        BY <4>1 DEF Balanced, Weighs, CallInv
                  <4> QED
                      BY <4>2, CombProper
            <3> QED
                BY <1>2, <2>1, <3>1
      <2>3. RefusalRight'
            <3>1. CASE GoodArgs
                  BY <2>2, <3>1 DEF RefusalRight
            <3>2. CASE ~GoodArgs
                  BY <1>1, <3>2, MayRefuse
            <3> QED
                BY <3>1, <3>2
      <2> QED
          BY <2>1, <2>3 DEF VerifInv
<1> QED
    BY <1>3, <1>4

LEMMA LadderEndGood ==
    ASSUME CallInv, LadderInv, VerifInv, LadderEnd
    PROVE  VerifInv'
<1>1. call' = call /\ pc = "ladder" /\ pc' = "done" /\ (call.alg = "verif" /\ GoodArgs => ~HasZeroCoordinate(st.p))
      BY DEF LadderEnd, Return, VerifInv
<1>2. call.alg = "verif" => RefusalRight'
      <2> SUFFICES ASSUME call.alg = "verif" PROVE RefusalRight'
          OBVIOUS
      <2>1. CASE ~GoodArgs
            BY <1>1, <2>1, MayRefuse
      <2>2. CASE GoodArgs
            <3>1. Low = Target
                  BY <1>1, <2>2, LadderEndKeeps
            <3>2. BasisOK /\ FullBasis /\ (Mask(call.k) % 2 = 1 \/ Mask(call.l) % 2 = 1)
                  /\ Mask(call.k) \in Int /\ Mask(call.l) \in Int
                  BY <2>2, Short DEF CallInv, GoodArgs
            <3>3. ~Even(Mask(call.k)) \/ ~Even(Mask(call.l))
                  BY <3>2, OddNotEven
            <3>4. Target = Comb(Mask(call.k), Mask(call.l))
                  BY DEF Target
            <3>5. ~HasZeroCoordinate(Low) /\ Low # None
                  BY <3>1, <3>2, <3>3, <3>4, CombRegular, CombProper
            <3>6. out' = Low
                  <4>1. Swapped(st.prevbit, <<st.r0, st.r1>>)[1] = Low
                        BY DEF Swapped, Low
                  <4> QED
                      BY <3>5, <4>1, Zenon DEF LadderEnd, Return
            <3> QED
                BY <3>5, <3>6 DEF RefusalRight
      <2> QED
          BY <2>1, <2>2
<1> QED
    BY <1>1, <1>2 DEF VerifInv

LEMMA VerifInit == Init => VerifInv
BY DEF Init, VerifInv

LEMMA VerifKeeps ==
    ASSUME MulInv, VerifInv, [Next]_svars
    PROVE  VerifInv'
<1>1. CallInv /\ CallInv' /\ (pc = "ladder" => LadderInv) /\ (pc = "euclid" => EuclidInv)
      BY CallKeeps DEF MulInv
<1>2. CASE UNCHANGED svars
      <2>1. call' = call /\ curve' = curve /\ pc' = pc /\ st' = st /\ out' = out
            BY <1>2 DEF svars
      <2>2. Refused' = Refused
            BY <2>1 DEF Refused, Usable, FullBasis, ShortColumn, Mask, P, Q, PmQ, HasZeroCoordinate, IsTwoTorsion
      <2>3. \A a, b, c, d : Balanced(st, a, b, c, d)' = Balanced(st, a, b, c, d)
            BY <2>1 DEF Balanced, Weighs, Comb, Mask, Small
      <2> QED
          BY <2>1, <2>2, <2>3, SameArgs DEF VerifInv, RefusalRight, HasZeroCoordinate
<1>3. CASE pc = "idle" /\ \E b \in Bases, k \in Scalars, w \in Widths :
              \/ \E alg \in {"ladder", "ladder3pt"} : Call(alg, b, k, 0, w)
              \/ \E alg \in {"biscalar", "verif"}, l \in Scalars : Call(alg, b, k, l, w)
      <2>1. pc' = "called"
            BY <1>3 DEF Call
      <2> QED
          BY <2>1 DEF VerifInv
<1>4. CASE \/ Ladder3ptEnter \/ Ladder3ptTurn \/ Ladder3ptEnd
           \/ BiscalarEnter \/ Recode \/ RecodeEnd \/ BiladderTurn \/ BiladderEnd
      <2>1. call' = call /\ call.alg \in {"ladder3pt", "biscalar"}
            BY <1>1, <1>4 DEF CallInv, Ladder3ptEnter, Ladder3ptTurn, Ladder3ptEnd,
                              BiscalarEnter, Recode, RecodeEnd, BiladderTurn, BiladderEnd
      <2> QED
          BY <1>1, <2>1 DEF VerifInv, CallInv
<1>5. CASE LadderEnter
      BY <1>5 DEF LadderEnter, Ladder, VerifInv
<1>6. CASE LadderTurn
      <2>1. pc = "ladder" /\ pc' = "ladder" /\ call' = call /\ st'.p = st.p
            <3>1. st = [r0 |-> st.r0, r1 |-> st.r1, p |-> st.p, k |-> st.k, prevbit |-> st.prevbit, i |-> st.i]
                  BY <1>1, <1>6 DEF LadderTurn, LadderInv, LadderShape
            <3>2. \E r0, r1, bit, i : st' = [st EXCEPT !.r0 = r0, !.r1 = r1, !.prevbit = bit, !.i = i]
                  BY <1>6, Zenon DEF LadderTurn
            <3>3. st'.p = st.p
                  BY <3>1, <3>2
            <3> QED
                BY <1>6, <3>3 DEF LadderTurn
      <2> QED
          BY <2>1, SameArgs DEF VerifInv, HasZeroCoordinate
<1>7. CASE LadderEnd
      BY <1>1, <1>7, LadderEndGood DEF LadderEnd
<1>8. CASE VerifEnter
      BY <1>1, <1>8, VerifEnterGood
<1>9. CASE Euclid
      BY <1>1, <1>9, EuclidGood DEF Euclid
<1>10. CASE Strip
      BY <1>1, <1>10, StripGood DEF Strip
<1>11. CASE VerifEnd
      BY <1>1, <1>11, VerifEndGood DEF VerifEnd
<1> QED
    BY <1>2, <1>3, <1>4, <1>5, <1>6, <1>7, <1>8, <1>9, <1>10, <1>11 DEF Next

---------------------------------------------------------------------------
(* The halves of a scalar and the two numbers of each parity around one.   *)

Half(x, i) == x \div 2 ^ i

EvenOf(x) == x + (x % 2)
OddOf(x)  == (x + 1) - (x % 2)

LEMMA HalfNext ==
    ASSUME NEW x \in Nat, NEW i \in Nat, i < F + LimbBits
    PROVE  /\ Half(x, i) \in Nat /\ Half(x, i + 1) \in Nat
           /\ Half(x, i) = 2 * Half(x, i + 1) + (Half(x, i) % 2)
           /\ Half(x, i) \div 2 = Half(x, i + 1)
<1> DEFINE h == 2 ^ i
           m == 2 ^ (i + 1)
           q == x \div h
           r == x % h
           half == q \div 2
           b == q % 2
<1>1. i \in 0..(F + LimbBits) /\ h \in Nat \ {0} /\ m = 2 * h
      BY TwoPowers, Constants
<1> HIDE DEF h, m
<1>2. x = h * q + r /\ r \in 0..(h - 1) /\ q \in Int
      <2>1. x \in Int /\ h \in Nat \ {0}
            BY <1>1
      <2> QED
          BY ONLY <2>1, DivMod
<1>3. q = 2 * half + b /\ b \in 0..1 /\ half \in Int
      <2> HIDE DEF q
      <2> QED
          BY <1>2, DivMod
<1> HIDE DEF q, r, half, b
<1>4. x = m * half + (h * b + r) /\ h * b + r \in 0..(m - 1) /\ m \in Nat \ {0}
      <2>1. b = 0 \/ b = 1
            BY <1>3
      <2>2. h * b + r \in 0..(2 * h - 1)
            BY <1>1, <1>2, <2>1
      <2>3. x = (2 * h) * half + (h * b + r)
            BY <1>1, <1>2, <1>3
      <2> QED
          BY <1>1, <2>2, <2>3
<1>5. x \div m = half
      <2> DEFINE t == h * b + r
      <2>1. x = m * half + t /\ t \in 0..(m - 1) /\ x \in Int
            BY <1>4
      <2> HIDE DEF t
      <2> QED
          BY <1>3, <1>4, <2>1, Residue
<1>6. q \in Nat
      <2>1. q < 0 => h * q <= -h
            <3>1. q < 0 => h * (-1 - q) >= 0
                  BY <1>1, <1>2
            <3>2. h * (-1 - q) = -h - h * q
                  BY <1>1, <1>2
            <3> QED
                BY <1>1, <1>2, <3>1, <3>2
      <2> QED
          BY <1>1, <1>2, <2>1
<1>7. half \in Nat
      BY <1>3, <1>6
<1>8. Half(x, i) = q /\ Half(x, i + 1) = half
      BY <1>5 DEF Half, q, h, m
<1>9. q \div 2 = half /\ q % 2 = b
      BY DEF half, b
<1> QED
    BY <1>3, <1>6, <1>7, <1>8, <1>9, Zenon

LEMMA HalfEnds ==
    ASSUME NEW x \in Nat
    PROVE  /\ Half(x, 0) = x
           /\ \A i \in 0..(F + LimbBits) : x < 2 ^ i => Half(x, i) = 0
<1>1. Half(x, 0) = x
      <2>1. x = 1 * x + 0 /\ 0 \in 0..(1 - 1) /\ x \in Int /\ 1 \in Nat \ {0}
            OBVIOUS
      <2>2. x \div 1 = x
            BY <2>1, Residue
      <2> QED
          BY <2>2, PowerAssumption DEF Half
<1>2. ASSUME NEW i \in 0..(F + LimbBits), x < 2 ^ i PROVE Half(x, i) = 0
      <2> DEFINE m == 2 ^ i
      <2>1. m \in Nat \ {0} /\ x < m
            BY <1>2, TwoPowers
      <2> HIDE DEF m
      <2>2. x \in 0..(m - 1) /\ x = m * 0 + x /\ x \in Int /\ 0 \in Int
            BY <2>1
      <2>3. x \div m = 0
            BY <2>1, <2>2, Residue
      <2> QED
          BY <2>3 DEF Half, m
<1> QED
    BY <1>1, <1>2

\* From a number to the one with a bit more: its two neighbours.
Digit(y, x) == (y + x) % 2
Pick(d, a, b) == IF d = 0 THEN a ELSE b

\* Of the two neighbours of y the even one is twice a neighbour of its half x,
\* the odd one the sum of both.
LEMMA Neighbours ==
    ASSUME NEW x \in Nat, NEW y \in Nat, y = 2 * x + (y % 2)
    PROVE  /\ EvenOf(y) = 2 * Pick(Digit(y, x), EvenOf(x), OddOf(x))
           /\ OddOf(y) = EvenOf(x) + OddOf(x)
           /\ Digit(y, x) = 0 \/ Digit(y, x) = 1
           /\ EvenOf(x) \in Nat /\ OddOf(x) \in Nat
           /\ EvenOf(x) - OddOf(x) = 1 \/ EvenOf(x) - OddOf(x) = -1
<1> DEFINE e == x % 2
           b == y % 2
<1>1. PICK h \in Nat : x = 2 * h + e
      BY DivMod
<1>2. (e = 0 \/ e = 1) /\ (b = 0 \/ b = 1) /\ y = 2 * x + b
      OBVIOUS
<1>3. EvenOf(x) = x + e /\ OddOf(x) = (x + 1) - e /\ EvenOf(y) = y + b /\ OddOf(y) = (y + 1) - b
      BY DEF EvenOf, OddOf
<1> HIDE DEF e, b
<1>4. Digit(y, x) = IF b = e THEN 0 ELSE 1
      <2>1. y + x = 2 * (x + h) + (b + e) /\ x + h \in Nat
            BY <1>1, <1>2
      <2>2. CASE b = e
            <3>1. y + x = 2 * (x + h + b)
                  BY <1>2, <2>1, <2>2
            <3> QED
                BY <1>2, <2>1, <2>2, <3>1 DEF Digit
      <2>3. CASE b # e
            <3>1. y + x = 2 * (x + h) + 1
                  BY <1>2, <2>1, <2>3
            <3> QED
                BY <2>1, <2>3, <3>1 DEF Digit
      <2> QED
          BY <2>2, <2>3
<1>5. EvenOf(y) = 2 * Pick(Digit(y, x), EvenOf(x), OddOf(x))
      <2>1. CASE b = e
            BY <1>2, <1>3, <1>4, <2>1 DEF Pick
      <2>2. CASE b # e
            <3>1. Pick(Digit(y, x), EvenOf(x), OddOf(x)) = (x + 1) - e
                  BY <1>3, <1>4, <2>2 DEF Pick
            <3>2. e = 1 - b
                  BY <1>2, <2>2
            <3> QED
                BY ONLY <1>2, <1>3, <3>1, <3>2, x \in Nat, y \in Nat
      <2> QED
          BY <2>1, <2>2
<1>6. OddOf(y) = EvenOf(x) + OddOf(x)
      BY ONLY <1>2, <1>3, x \in Nat, y \in Nat
<1>7. EvenOf(x) \in Nat /\ OddOf(x) \in Nat
      BY <1>2, <1>3
<1>8. EvenOf(x) - OddOf(x) = 1 \/ EvenOf(x) - OddOf(x) = -1
      BY <1>2, <1>3
<1>9. Digit(y, x) = 0 \/ Digit(y, x) = 1
      BY <1>4
<1> QED
    BY <1>5, <1>6, <1>7, <1>8, <1>9

\* The odd scalars that are recoded.
KK == Odd(Mask(call.k))
LL == Odd(Mask(call.l))

\* Odd(x) is x, or one less modulo 2^kbits.
LEMMA OddIs ==
    ASSUME call.kbits \in 1..F, NEW w \in Nat
    PROVE  LET x == Mask(w)
               m == 2 ^ call.kbits
           IN  /\ x \in 0..(m - 1) /\ m \in Nat /\ Odd(x) \in Nat /\ Odd(x) < m /\ Odd(x) % 2 = 1
               /\ x % 2 = 0 \/ x % 2 = 1
               /\ x % 2 = 1 => Odd(x) = x
               /\ x % 2 = 0 => Odd(x) + 1 = x \/ Odd(x) + 1 = x + m
<1> DEFINE x == Mask(w)
           m == 2 ^ call.kbits
<1>1. m \in Nat \ {0} /\ x \in 0..(m - 1)
      BY MaskRange
<1>2. PICK h \in Nat : m = 2 * h
      <2>1. call.kbits - 1 \in 0..(F + LimbBits) /\ call.kbits = (call.kbits - 1) + 1
            BY Constants
      <2>2. 2 ^ (call.kbits - 1) \in Nat \ {0} /\ m = 2 * 2 ^ (call.kbits - 1)
            BY <2>1, TwoPowers
      <2> QED
          BY <2>2, Zenon
<1>3. Odd(x) = IF x % 2 = 1 THEN x ELSE (x - 1) % m
      BY DEF Odd
<1> HIDE DEF x, m
<1>4. x \in Nat /\ x < m /\ (x % 2 = 0 \/ x % 2 = 1)
      BY <1>1
<1>5. CASE x % 2 = 1
      BY <1>1, <1>3, <1>4, <1>5 DEF x, m
<1>6. CASE x % 2 = 0 /\ x # 0
      <2>1. x - 1 \in 0..(m - 1) /\ x - 1 = m * 0 + (x - 1) /\ x - 1 \in Int
            BY <1>1, <1>4, <1>6
      <2>2. (x - 1) % m = x - 1
            <3> DEFINE y == x - 1
            <3>1. y \in 0..(m - 1) /\ y = m * 0 + y /\ y \in Int /\ 0 \in Int /\ m \in Nat \ {0}
                  BY <1>1, <2>1
            <3> HIDE DEF y
            <3>2. y % m = y
                  BY <3>1, Residue
            <3> QED
                BY <3>2 DEF y
      <2>3. (x - 1) % 2 = 1
            <3>1. PICK i \in Int : x = 2 * i
                  BY <1>4, <1>6
            <3>2. x - 1 = 2 * (i - 1) + 1 /\ 1 \in 0..1 /\ i - 1 \in Int /\ x - 1 \in Int
                  BY <3>1
            <3> QED
                BY <3>2, Residue
      <2>4. Odd(x) = x - 1
            BY <1>3, <1>6, <2>2
      <2>5. Odd(x) \in Nat /\ Odd(x) < m /\ Odd(x) % 2 = 1 /\ Odd(x) + 1 = x
            <3>1. Odd(x) % 2 = 1
                  BY <2>3, <2>4
            <3>2. x >= 1 /\ m \in Nat
                  BY <1>1, <1>4, <1>6
            <3>3. Odd(x) \in Nat /\ Odd(x) < m /\ Odd(x) + 1 = x
                  BY ONLY <1>4, <2>4, <3>2
            <3> QED
                BY <3>1, <3>3
      <2> QED
          BY <1>1, <1>4, <1>6, <2>5 DEF x, m
<1>7. CASE x = 0
      <2>1. x - 1 = m * (-1) + (m - 1) /\ m - 1 \in 0..(m - 1) /\ x - 1 \in Int
            BY <1>1, <1>7
      <2>2. (x - 1) % m = m - 1
            <3> DEFINE y == x - 1
                       r == m - 1
                       q == -1
            <3>1. r \in 0..(m - 1) /\ y = m * q + r /\ y \in Int /\ q \in Int /\ m \in Nat \ {0}
                  BY <1>1, <2>1
            <3> HIDE DEF y, r, q
            <3>2. y % m = r
                  BY <3>1, Residue
            <3> QED
                BY <3>2 DEF y, r
      <2>3. 0 % 2 = 0
            OBVIOUS
      <2>4. Odd(x) = m - 1
            BY <1>3, <1>7, <2>2, <2>3
      <2>5. (m - 1) % 2 = 1
            <3>1. h >= 1 /\ m - 1 = 2 * (h - 1) + 1
                  BY <1>1, <1>2
            <3> QED
                BY <3>1
      <2>6. Odd(x) \in Nat /\ Odd(x) < m /\ Odd(x) % 2 = 1 /\ Odd(x) + 1 = x + m
            BY <1>1, <1>7, <2>4, <2>5
      <2> QED
          BY <1>1, <1>4, <1>7, <2>3, <2>6 DEF x, m
<1> QED
    BY <1>4, <1>5, <1>6, <1>7

---------------------------------------------------------------------------
(* One turn of the ladder on three points.                                 *)

BiArgs == BasisOK /\ Usable /\ ~HasZeroCoordinate(Comb(1, 1))

\* Sums of registers whose difference is one of the four points.
LEMMA KnownSum ==
    ASSUME BiArgs, NEW a \in Int, NEW b \in Int, NEW c \in Int, NEW d \in Int
    PROVE  /\ (a - b = 1 \/ a - b = -1) => XAdd(Comb(a, c), Comb(b, c), P) = Comb(a + b, 2 * c)
           /\ (a - b = 1 \/ a - b = -1) => XAdd(Comb(c, a), Comb(c, b), Q) = Comb(2 * c, a + b)
           /\ (a - b = 1 /\ c - d = 1) \/ (a - b = -1 /\ c - d = -1) => XAdd(Comb(a, c), Comb(b, d), Comb(1, 1)) = Comb(a + b, c + d)
           /\ (a - b = 1 /\ c - d = -1) \/ (a - b = -1 /\ c - d = 1) => XAdd(Comb(a, c), Comb(b, d), PmQ) = Comb(a + b, c + d)
<1>1. BasisOK /\ ~HasZeroCoordinate(P) /\ ~HasZeroCoordinate(Q) /\ ~HasZeroCoordinate(PmQ) /\ ~HasZeroCoordinate(Comb(1, 1))
      BY DEF BiArgs, Usable
<1>2. P = Comb(1, 0) /\ Q = Comb(0, 1) /\ PmQ = Comb(1, -1)
      BY <1>1, CombNames
<1>3. Comb(-1, 0) = P /\ Comb(0, -1) = Q /\ Comb(-1, 1) = PmQ /\ Comb(-1, -1) = Comb(1, 1)
      <2>1. -0 = 0 /\ -(-1) = 1 /\ 1 \in Int /\ 0 \in Int /\ -1 \in Int
            BY MinusZero
      <2>2. Comb(-1, -0) = Comb(1, 0)
            BY <1>1, <2>1, CombNeg
      <2>3. Comb(-0, -1) = Comb(0, 1)
            BY <1>1, <2>1, CombNeg
      <2>4. Comb(-1, -(-1)) = Comb(1, -1)
            BY <1>1, <2>1, CombNeg
      <2>5. Comb(-1, -1) = Comb(1, 1)
            BY <1>1, <2>1, CombNeg
      <2> QED
          BY <1>2, <2>1, <2>2, <2>3, <2>4, <2>5, Zenon
<1>4. ASSUME NEW x \in Int, NEW y \in Int, NEW z \in Int, NEW t \in Int, NEW p, p = Comb(x - z, y - t), ~HasZeroCoordinate(p)
      PROVE  XAdd(Comb(x, y), Comb(z, t), p) = Comb(x + z, y + t)
      <2>1. XAdd(Comb(x, y), Comb(z, t), Comb(x - z, y - t)) =
                IF HasZeroCoordinate(Comb(x - z, y - t)) THEN Undefined ELSE Comb(x + z, y + t)
            BY <1>1, CombAdd
      <2> QED
          BY <1>4, <2>1, Zenon
<1>5. c - c = 0 /\ c + c = 2 * c
      OBVIOUS
<1>6. ASSUME a - b = 1 \/ a - b = -1
      PROVE  XAdd(Comb(a, c), Comb(b, c), P) = Comb(a + b, 2 * c) /\ XAdd(Comb(c, a), Comb(c, b), Q) = Comb(2 * c, a + b)
      <2>1. P = Comb(a - b, c - c) /\ Q = Comb(c - c, a - b)
            BY <1>2, <1>3, <1>5, <1>6, Zenon
      <2>2. XAdd(Comb(a, c), Comb(b, c), P) = Comb(a + b, c + c)
            BY <1>1, <1>4, <2>1
      <2>3. XAdd(Comb(c, a), Comb(c, b), Q) = Comb(c + c, a + b)
            BY <1>1, <1>4, <2>1
      <2> QED
          BY <1>5, <2>2, <2>3, Zenon
<1>7. ASSUME (a - b = 1 /\ c - d = 1) \/ (a - b = -1 /\ c - d = -1)
      PROVE  XAdd(Comb(a, c), Comb(b, d), Comb(1, 1)) = Comb(a + b, c + d)
      <2>1. Comb(1, 1) = Comb(a - b, c - d)
            BY <1>3, <1>7, Zenon
      <2> QED
          BY <1>1, <1>4, <2>1
<1>8. ASSUME (a - b = 1 /\ c - d = -1) \/ (a - b = -1 /\ c - d = 1)
      PROVE  XAdd(Comb(a, c), Comb(b, d), PmQ) = Comb(a + b, c + d)
      <2>1. PmQ = Comb(a - b, c - d)
            BY <1>2, <1>3, <1>8, Zenon
      <2> QED
          BY <1>1, <1>4, <2>1
<1> QED
    BY <1>6, <1>7, <1>8, Zenon

\* Which register a digit chooses, for the type t before and u after the
\* turn; the type is the scalar of which the middle register holds the odd
\* neighbour.
ThreeOf(regs, t, a, b, c, g) ==
    regs = <<Comb(a, c), IF t = 0 THEN Comb(b, c) ELSE Comb(a, g), Comb(b, g)>>

DigitsOf(d, u, e, f) == d[1] = Swapped(u, <<e, f>>)[1] /\ d[2] = Swapped(u, <<e, f>>)[2]

Chosen(regs, d, u, t, a, b, c, g, e, f) ==
    /\ regs[1 + d[1] + d[2]] = Comb(Pick(e, a, b), Pick(f, c, g))
    /\ u = 0 => regs[1 + d[2]] = Comb(a, Pick(f, c, g)) /\ regs[2 + d[2]] = Comb(b, Pick(f, c, g))
    /\ u = 1 => regs[1 + d[2]] = Comb(Pick(e, a, b), c) /\ regs[2 + d[2]] = Comb(Pick(e, a, b), g)
    /\ \A p, q : Swapped(d[2], Swapped(t, <<p, q>>)) = Swapped(u, <<p, q>>)
    /\ (d[1] + d[2]) % 2 = (e + f) % 2

LEMMA Registers ==
    ASSUME NEW a, NEW b, NEW c, NEW g, NEW u \in {0, 1}, NEW t, NEW e \in {0, 1}, NEW f \in {0, 1}, NEW d,
           DigitsOf(d, u, e, f), t = (u + d[2]) % 2, NEW regs, ThreeOf(regs, t, a, b, c, g)
    PROVE  Chosen(regs, d, u, t, a, b, c, g, e, f)
<1> USE DEF Chosen, DigitsOf
<1>1. regs[1] = Comb(a, c) /\ regs[2] = (IF t = 0 THEN Comb(b, c) ELSE Comb(a, g)) /\ regs[3] = Comb(b, g)
      BY DEF ThreeOf
<1>2. CASE u = 0
      <2>1. d[1] = e /\ d[2] = f /\ t = f
            BY <1>2 DEF Swapped
      <2>2. CASE e = 0 /\ f = 0
            BY <1>1, <1>2, <2>1, <2>2 DEF Pick, Swapped
      <2>3. CASE e = 0 /\ f = 1
            BY <1>1, <1>2, <2>1, <2>3 DEF Pick, Swapped
      <2>4. CASE e = 1 /\ f = 0
            BY <1>1, <1>2, <2>1, <2>4 DEF Pick, Swapped
      <2>5. CASE e = 1 /\ f = 1
            BY <1>1, <1>2, <2>1, <2>5 DEF Pick, Swapped
      <2> QED
          BY <2>2, <2>3, <2>4, <2>5
<1>3. CASE u = 1
      <2>1. d[1] = f /\ d[2] = e /\ t = 1 - e
            BY <1>3 DEF Swapped
      <2>2. CASE e = 0 /\ f = 0
            BY <1>1, <1>3, <2>1, <2>2 DEF Pick, Swapped
      <2>3. CASE e = 0 /\ f = 1
            BY <1>1, <1>3, <2>1, <2>3 DEF Pick, Swapped
      <2>4. CASE e = 1 /\ f = 0
            BY <1>1, <1>3, <2>1, <2>4 DEF Pick, Swapped
      <2>5. CASE e = 1 /\ f = 1
            BY <1>1, <1>3, <2>1, <2>5 DEF Pick, Swapped
      <2> QED
          BY <2>2, <2>3, <2>4, <2>5
<1> QED
    BY <1>2, <1>3

---------------------------------------------------------------------------
(* The invariant of ec_biscalar_mul.                                       *)

\* The digits of the odd scalars: where neighbouring bits differ.
DK(j) == Digit(Half(KK, j - 1), Half(KK, j))
DL(j) == Digit(Half(LL, j - 1), Half(LL, j))

OddK  == Mask(call.k) % 2
OddL  == Mask(call.l) % 2
Evens == 2 - (OddK + OddL)

\* T[j] is the type of the middle register when j digits are left.
Turns(T, r, j) ==
    /\ r[j][1] = Swapped(T[j - 1], <<DK(j), DL(j)>>)[1]
    /\ r[j][2] = Swapped(T[j - 1], <<DK(j), DL(j)>>)[2]
    /\ T[j] = (T[j - 1] + r[j][2]) % 2

Digits(T, r) ==
    /\ T \in [0..call.kbits -> {0, 1}]
    /\ T[0] = IF Evens = 1 THEN 1 - OddK ELSE 0
    /\ r \in Seq([1..2 -> {0, 1}]) /\ Len(r) \in 0..call.kbits
    /\ \A j \in 1..Len(r) : Turns(T, r, j)

BiRest(s) ==
    /\ Usable /\ call.kbits > 1
    /\ s.evens = Evens /\ s.both = (OddK = 1 /\ OddL = 1)

RecodeShape(s) ==
    s = [k |-> s.k, l |-> s.l, evens |-> s.evens, both |-> s.both, sigma |-> s.sigma, pre |-> s.pre, r |-> s.r]

Recoded(T, s) ==
    LET n == Len(s.r)
    IN  /\ Digits(T, s.r)
        /\ s.sigma = <<T[n], 1 - T[n]>>
        /\ n < call.kbits => Swapped((s.sigma[1] + s.pre) % 2, <<s.k, s.l>>) = Swapped(T[n], <<Half(KK, n), Half(LL, n)>>)

RecodeInv == RecodeShape(st) /\ BiRest(st) /\ \E T : Recoded(T, st)

BiladderShape(s) ==
    s = [r0 |-> s.r0, r1 |-> s.r1, r2 |-> s.r2, diff1 |-> s.diff1, diff2 |-> s.diff2,
         r |-> s.r, evens |-> s.evens, both |-> s.both, i |-> s.i]

\* The middle register: the odd neighbour of the half that T names.
Middle(t, x, y) == IF t = 0 THEN Comb(OddOf(x), EvenOf(y)) ELSE Comb(EvenOf(x), OddOf(y))

\* The three registers hold the combinations of the two neighbours of each
\* half, the differences are the points that tell the registers apart.
Laddered(T, s) ==
    LET x == Half(KK, s.i)
        y == Half(LL, s.i)
    IN  /\ Digits(T, s.r) /\ Len(s.r) = call.kbits /\ s.i \in 0..call.kbits
        /\ s.r0 = Comb(EvenOf(x), EvenOf(y)) /\ s.r2 = Comb(OddOf(x), OddOf(y))
        /\ s.r1 = Middle(T[s.i], x, y)
        /\ s.diff1 = Swapped(T[s.i], <<P, Q>>)
        /\ s.diff2 = Swapped((x + y) % 2, <<Comb(1, 1), PmQ>>)

BiladderInv ==
    /\ BiladderShape(st) /\ BiRest(st)
    /\ ~HasZeroCoordinate(Comb(1, 1)) /\ \E T : Laddered(T, st)

LEMMA OddScalars ==
    ASSUME CallInv
    PROVE  /\ KK \in Nat /\ LL \in Nat /\ KK < 2 ^ call.kbits /\ LL < 2 ^ call.kbits
           /\ KK % 2 = 1 /\ LL % 2 = 1
           /\ (OddK = 0 \/ OddK = 1) /\ (OddL = 0 \/ OddL = 1)
<1>1. call.kbits \in 1..F /\ call.k \in Nat /\ call.l \in Nat
      BY DEF CallInv
<1>2. KK \in Nat /\ KK < 2 ^ call.kbits /\ KK % 2 = 1 /\ (OddK = 0 \/ OddK = 1)
      BY <1>1, OddIs DEF KK, OddK
<1>3. LL \in Nat /\ LL < 2 ^ call.kbits /\ LL % 2 = 1 /\ (OddL = 0 \/ OddL = 1)
      BY <1>1, OddIs DEF LL, OddL
<1> QED
    BY <1>2, <1>3

LEMMA HalvesOf ==
    ASSUME CallInv, NEW n \in 0..(call.kbits - 1), NEW x \in {KK, LL}
    PROVE  /\ Half(x, n) \in Nat /\ Half(x, n + 1) \in Nat
           /\ Half(x, n) = 2 * Half(x, n + 1) + (Half(x, n) % 2)
           /\ Half(x, n) \div 2 = Half(x, n + 1)
           /\ n = call.kbits - 1 => Half(x, n + 1) = 0
<1>1. x \in Nat /\ x < 2 ^ call.kbits /\ call.kbits \in 1..F
      BY OddScalars DEF CallInv
<1>2. n \in Nat /\ n < F + LimbBits /\ call.kbits \in 0..(F + LimbBits)
      BY <1>1, Constants
<1>3. Half(x, call.kbits) = 0
      BY <1>1, <1>2, HalfEnds
<1>4. n = call.kbits - 1 => n + 1 = call.kbits
      BY <1>1
<1> QED
    BY <1>1, <1>2, <1>3, <1>4, HalfNext

\* The digits of turn n and what is left of the scalars s.
Shifted(n, s, kept, digit) ==
    /\ kept = [j \in 1..2 |-> IF n = call.kbits - 1 THEN s[j] ELSE s[j] \div 2]
    /\ digit = [j \in 1..2 |-> IF n = call.kbits - 1 THEN kept[j] % 2 ELSE (kept[j] + s[j]) % 2]

IsDigit(n, u, digit) ==
    /\ digit \in [1..2 -> {0, 1}]
    /\ digit[1] = Swapped(u, <<DK(n + 1), DL(n + 1)>>)[1]
    /\ digit[2] = Swapped(u, <<DK(n + 1), DL(n + 1)>>)[2]

\* A digit is where the neighbouring bits of its scalar differ, and the rest
\* is half of what there was.
LEMMA OneDigit ==
    ASSUME CallInv, NEW n \in 0..(call.kbits - 1), NEW u \in {0, 1}, NEW s,
           s = Swapped(u, <<Half(KK, n), Half(LL, n)>>),
           NEW kept, NEW digit, Shifted(n, s, kept, digit)
    PROVE  /\ IsDigit(n, u, digit)
           /\ n # call.kbits - 1 => <<kept[1], kept[2]>> = Swapped(u, <<Half(KK, n + 1), Half(LL, n + 1)>>)
<1> USE DEF Shifted
<1> DEFINE x == Half(KK, n)
           y == Half(LL, n)
           z == Half(KK, n + 1)
           t == Half(LL, n + 1)
           last == n = call.kbits - 1
<1>1. x \in Nat /\ y \in Nat /\ z \in Nat /\ t \in Nat /\ x \div 2 = z /\ y \div 2 = t /\ (last => z = 0 /\ t = 0)
      BY HalvesOf
<1>2. DK(n + 1) = (x + z) % 2 /\ DL(n + 1) = (y + t) % 2
      <2>1. (n + 1) - 1 = n
            OBVIOUS
      <2> QED
          BY <2>1, Zenon DEF DK, DL, Digit
<1>3. /\ kept[1] = IF last THEN s[1] ELSE s[1] \div 2
      /\ kept[2] = IF last THEN s[2] ELSE s[2] \div 2
      /\ digit[1] = IF last THEN kept[1] % 2 ELSE (kept[1] + s[1]) % 2
      /\ digit[2] = IF last THEN kept[2] % 2 ELSE (kept[2] + s[2]) % 2
      OBVIOUS
<1>4. /\ u = 0 => s[1] = x /\ s[2] = y
      /\ u = 1 => s[1] = y /\ s[2] = x
      BY DEF Swapped
<1>5. (last => x % 2 = (x + z) % 2 /\ y % 2 = (y + t) % 2) /\ z + x = x + z /\ t + y = y + t
      <2> HIDE DEF x, y, z, t, last
      <2>1. last => x + z = x /\ y + t = y
            BY <1>1
      <2> QED
          BY <1>1, <2>1
<1> HIDE DEF x, y, z, t, last
<1>6. /\ u = 0 => digit[1] = (x + z) % 2 /\ digit[2] = (y + t) % 2 /\ (~last => kept[1] = z /\ kept[2] = t)
      /\ u = 1 => digit[1] = (y + t) % 2 /\ digit[2] = (x + z) % 2 /\ (~last => kept[1] = t /\ kept[2] = z)
      BY ONLY <1>1, <1>3, <1>4, <1>5
<1>7. /\ digit[1] = Swapped(u, <<DK(n + 1), DL(n + 1)>>)[1]
      /\ digit[2] = Swapped(u, <<DK(n + 1), DL(n + 1)>>)[2]
      BY <1>2, <1>6 DEF Swapped
<1>8. ~last => <<kept[1], kept[2]>> = Swapped(u, <<z, t>>)
      BY <1>6 DEF Swapped
<1>9. digit \in [1..2 -> {0, 1}]
      <2>1. (x + z) % 2 \in {0, 1} /\ (y + t) % 2 \in {0, 1}
            BY <1>1
      <2>2. digit[1] \in {0, 1} /\ digit[2] \in {0, 1}
            BY <1>6, <2>1
      <2>3. digit = [j \in 1..2 |-> digit[j]]
            OBVIOUS
      <2>4. \A j \in 1..2 : j = 1 \/ j = 2
            OBVIOUS
      <2> QED
          BY <2>2, <2>3, <2>4
<1> QED
    BY <1>7, <1>8, <1>9 DEF z, t, last, IsDigit

\* What the routine leaves alone.
LEMMA SameScalars ==
    ASSUME call' = call
    PROVE  /\ KK' = KK /\ LL' = LL /\ OddK' = OddK /\ OddL' = OddL /\ Evens' = Evens
           /\ Usable' = Usable /\ P' = P /\ Q' = Q /\ PmQ' = PmQ
           /\ \A a, b : Comb(a, b)' = Comb(a, b)
           /\ \A T, r : Digits(T, r)' = Digits(T, r)
           /\ \A s : BiRest(s)' = BiRest(s)
           /\ \A T, s : Recoded(T, s)' = Recoded(T, s) /\ Laddered(T, s)' = Laddered(T, s)
<1>1. KK' = KK /\ LL' = LL /\ OddK' = OddK /\ OddL' = OddL
      BY DEF KK, LL, OddK, OddL, Mask, Odd
<1>2. Evens' = Evens
      BY <1>1 DEF Evens
<1>3. P' = P /\ Q' = Q /\ PmQ' = PmQ
      BY DEF P, Q, PmQ
<1>4. Usable' = Usable
      BY <1>3 DEF Usable, HasZeroCoordinate
<1>5. \A a, b : Comb(a, b)' = Comb(a, b)
      BY DEF Comb
<1>6. \A T, r : Digits(T, r)' = Digits(T, r)
      BY <1>1, <1>2 DEF Digits, Turns, DK, DL
<1>7. \A s : BiRest(s)' = BiRest(s)
      BY <1>1, <1>2, <1>4 DEF BiRest
<1>8. \A T, s : Recoded(T, s)' = Recoded(T, s)
      BY <1>1, <1>2 DEF Recoded, Digits, Turns, DK, DL
<1>9. \A T, s : Laddered(T, s)' = Laddered(T, s)
      BY <1>1, <1>2, <1>3 DEF Laddered, Digits, Turns, DK, DL, Comb, Middle
<1> QED
    BY <1>1, <1>2, <1>3, <1>4, <1>5, <1>6, <1>7, <1>8, <1>9

\* An answer that is no refusal.
BiExpected(o) == o \in Expected /\ o # None

LEMMA BiAnswers ==
    ASSUME CallInv, call.alg = "biscalar", call' = call, curve' = curve,
           BiExpected(out') \/ (out' = None /\ Refused)
    PROVE  ResultRight'
<1>1. Expected' = Expected /\ Refused' = Refused
      <2>1. Mask(call.k)' = Mask(call.k) /\ Mask(call.l)' = Mask(call.l)
            BY DEF Mask
      <2>2. Expected' = Expected
            BY <2>1 DEF Expected, Combination
      <2>3. Refused' = Refused
            BY SameScalars DEF Refused, Usable, HasZeroCoordinate, IsTwoTorsion
      <2> QED
          BY <2>2, <2>3
<1>2. PointRight' /\ RefusalRight'
      BY <1>1 DEF PointRight, RefusalRight, BiExpected
<1> QED
    BY <1>2 DEF ResultRight

LEMMA BiCombination ==
    ASSUME CallInv, call.alg = "biscalar", NEW a, NEW b,
           a = Mask(call.k) \/ a = Mask(call.k) + 2 ^ call.kbits,
           b = Mask(call.l) \/ b = Mask(call.l) + 2 ^ call.kbits
    PROVE  BiExpected(Comb(a, b))
<1> DEFINE k == Mask(call.k)
           l == Mask(call.l)
           m == 2 ^ call.kbits
<1>1. k \in Int /\ l \in Int /\ m \in Int /\ BasisOK
      BY MaskRange DEF CallInv
<1>2. Expected = {Combination(k + i, l + j) : i \in {0, m}, j \in {0, m}}
      BY DEF Expected
<1>3. a = k \/ a = k + m
      OBVIOUS
<1>4. b = l \/ b = l + m
      OBVIOUS
<1> HIDE DEF k, l, m
<1>5. a \in Int /\ b \in Int
      BY <1>1, <1>3, <1>4
<1>6. Comb(a, b) = Combination(a, b) /\ Comb(a, b) # None
      BY <1>1, <1>5, CombExpected, CombProper
<1>7. \E i \in {0, m} : a = k + i
      <2>1. k + 0 = k
            BY <1>1
      <2> QED
          BY <1>3, <2>1
<1>8. \E j \in {0, m} : b = l + j
      <2>1. l + 0 = l
            BY <1>1
      <2> QED
          BY <1>4, <2>1
<1>9. Combination(a, b) \in Expected
      <2>1. PICK i \in {0, m} : a = k + i
            BY <1>7
      <2>2. PICK j \in {0, m} : b = l + j
            BY <1>8
      <2>3. Combination(k + i, l + j) \in Expected
            BY <1>2
      <2> QED
          BY <2>1, <2>2, <2>3
<1> QED
    BY <1>6, <1>9 DEF BiExpected

\* For one bit the four combinations of points of order two.
LEMMA TableRight ==
    ASSUME CallInv, call.alg = "biscalar", call.kbits = 1
    PROVE  BiExpected(TwoTorsionTable) \/ (TwoTorsionTable = None /\ Refused)
<1>1. BasisOK
      BY DEF CallInv
<1>2. CASE ~(IsTwoTorsion(P) /\ IsTwoTorsion(Q) /\ IsTwoTorsion(PmQ))
      BY <1>2 DEF TwoTorsionTable, Refused
<1>3. CASE IsTwoTorsion(P) /\ IsTwoTorsion(Q) /\ IsTwoTorsion(PmQ)
      <2>1. TwoTorsionTable = IF call.k % 2 = 1 THEN IF call.l % 2 = 1 THEN PmQ ELSE P
                              ELSE IF call.l % 2 = 1 THEN Q ELSE Identity
            BY <1>3, Zenon DEF TwoTorsionTable
      <2>2. /\ Mask(call.k) = call.k % 2 /\ Mask(call.l) = call.l % 2
            /\ (call.k % 2 = 0 \/ call.k % 2 = 1) /\ (call.l % 2 = 0 \/ call.l % 2 = 1)
            <3>1. 2 ^ 1 = 2
                  <4>1. 0 \in 0..(F + LimbBits) /\ 0 + 1 = 1
                        BY Constants
                  <4>2. 2 ^ (0 + 1) = 2 * 2 ^ 0 /\ 2 ^ 0 = 1
                        BY <4>1, PowerAssumption
                  <4> QED
                      BY <4>1, <4>2
            <3>2. call.k \in Nat /\ call.l \in Nat
                  BY DEF CallInv
            <3> QED
                BY <3>1, <3>2 DEF Mask
      <2>3. P = Comb(1, 0) /\ Q = Comb(0, 1) /\ PmQ = Comb(1, -1) /\ Identity = Comb(0, 0)
            BY <1>1, CombNames
      <2>4. Comb(1, -1) = Comb(1, 1)
            <3> DEFINE x == call.p[1]
                       y == call.p[2]
                       z == call.q[1]
                       t == call.q[2]
            <3>1. x \in Int /\ y \in Int /\ z \in Int /\ t \in Int
                  BY <1>1, Coordinates
            <3>2. Null(2 * z) /\ Null(2 * t)
                  <4>1. \E u \in Q : Times(2, u) = <<0, 0>>
                        BY <1>3 DEF IsTwoTorsion
                  <4>2. Comb(0, 2) = Identity
                        <5>1. XDbl(Q) = Comb(0, 2)
                              <6>1. XDbl(Comb(0, 1)) = Comb(2 * 0, 2 * 1) /\ 2 * 0 = 0 /\ 2 * 1 = 2
                                    BY <1>1, CombDouble
                              <6> QED
                                  BY <2>3, <6>1, Zenon
                        <5>2. XDbl(Q) = {Times(2, u) : u \in Q}
                              <6>1. Q # Foreign
                                    BY <1>1, <2>3, CombProper
                              <6> QED
                                  BY <6>1 DEF XDbl
                        <5>3. <<0, 0>> \in Comb(0, 2)
                              BY <4>1, <5>1, <5>2
                        <5>4. Comb(0, 2) = Pt(2 * z, 2 * t)
                              <6>1. 0 * x + 2 * z = 2 * z /\ 0 * y + 2 * t = 2 * t
                                    BY <3>1
                              <6> QED
                                  BY <6>1, Zenon DEF Comb
                        <5> HIDE DEF z, t
                        <5>5. Pt(2 * z, 2 * t) = {Vec(2 * z, 2 * t), Vec(-(2 * z), -(2 * t))}
                              BY <3>1, PtSet
                        <5>6. <<0, 0>> = Vec(0, 0)
                              BY OrderLarge DEF Vec
                        <5>7. Vec(2 * z, 2 * t) = Vec(0, 0) \/ Vec(-(2 * z), -(2 * t)) = Vec(0, 0)
                              BY <5>3, <5>4, <5>5, <5>6
                        <5>8. Pt(2 * z, 2 * t) = Pt(0, 0) \/ Pt(-(2 * z), -(2 * t)) = Pt(0, 0)
                              BY <5>7, Zenon DEF Pt
                        <5>9. Pt(-(2 * z), -(2 * t)) = Pt(2 * z, 2 * t)
                              <6>1. /\ Pt(-(2 * z), -(2 * t)) = {Vec(-(2 * z), -(2 * t)), Vec(-(-(2 * z)), -(-(2 * t)))}
                                    /\ -(-(2 * z)) = 2 * z /\ -(-(2 * t)) = 2 * t
                                    BY <3>1, PtSet
                              <6> QED
                                  BY <5>5, <6>1
                        <5>10. Identity = Pt(0, 0)
                               BY <5>6, Zenon DEF Identity, Pt
                        <5> QED
                            BY <5>4, <5>8, <5>9, <5>10
                  <4>3. Pt(2 * z, 2 * t) = Pt(0, 0)
                        <5>1. 0 * x + 2 * z = 2 * z /\ 0 * y + 2 * t = 2 * t /\ 0 * x + 0 * z = 0 /\ 0 * y + 0 * t = 0
                              BY <3>1
                        <5>2. Comb(0, 2) = Comb(0, 0)
                              BY <2>3, <4>2
                        <5> QED
                            BY <5>1, <5>2, Zenon DEF Comb
                  <4> HIDE DEF z, t
                  <4>4. (Null(2 * z - 0) /\ Null(2 * t - 0)) \/ (Null(2 * z + 0) /\ Null(2 * t + 0))
                        BY <3>1, <4>3, PtEqual
                  <4>5. 2 * z - 0 = 2 * z /\ 2 * t - 0 = 2 * t /\ 2 * z + 0 = 2 * z /\ 2 * t + 0 = 2 * t
                        BY <3>1
                  <4> QED
                      BY <4>4, <4>5
            <3>3. Comb(1, 1) = Pt(x + z, y + t) /\ Comb(1, -1) = Pt(x - z, y - t)
                  <4>1. 1 * x + 1 * z = x + z /\ 1 * y + 1 * t = y + t /\ 1 * x + (-1) * z = x - z /\ 1 * y + (-1) * t = y - t
                        BY <3>1
                  <4> QED
                      BY <4>1, Zenon DEF Comb
            <3> HIDE DEF x, y, z, t
            <3>4. (x + z) - (x - z) = 2 * z /\ (y + t) - (y - t) = 2 * t
                  BY <3>1
            <3>5. x + z \in Int /\ y + t \in Int /\ x - z \in Int /\ y - t \in Int
                  BY <3>1
            <3>6. Pt(x + z, y + t) = Pt(x - z, y - t)
                  BY <3>2, <3>4, <3>5, NullSame
            <3> QED
                BY <3>3, <3>6
      <2>5. TwoTorsionTable = Comb(Mask(call.k), Mask(call.l))
            BY <2>1, <2>2, <2>3, <2>4
      <2> QED
          BY <2>5, BiCombination
<1> QED
    BY <1>2, <1>3

---------------------------------------------------------------------------
(* The recoding of the scalars.                                            *)

\* The invariants of a state s are those of the next one, if it is s.
LEMMA RecodeFrom ==
    ASSUME call' = call, NEW T, NEW s, s = st', RecodeShape(s), BiRest(s), Recoded(T, s)
    PROVE  RecodeInv'
<1>1. BiRest(s)' /\ Recoded(T, s)'
      BY SameScalars
<1>2. RecodeShape(st)'
      BY DEF RecodeShape
<1>3. BiRest(st)'
      BY <1>1 DEF BiRest
<1>4. Recoded(T, st)'
      BY <1>1 DEF Recoded, Digits, Turns, DK, DL
<1> QED
    BY <1>2, <1>3, <1>4 DEF RecodeInv

LEMMA BiladderFrom ==
    ASSUME call' = call, NEW T, NEW s, s = st', BiladderShape(s), BiRest(s), Laddered(T, s),
           ~HasZeroCoordinate(Comb(1, 1))
    PROVE  BiladderInv'
<1>1. BiRest(s)' /\ Laddered(T, s)'
      BY SameScalars
<1>2. BiladderShape(st)'
      BY DEF BiladderShape
<1>3. BiRest(st)'
      BY <1>1 DEF BiRest
<1>4. Laddered(T, st)'
      BY <1>1 DEF Laddered, Digits, Turns, DK, DL, Comb, Middle
<1>5. ~HasZeroCoordinate(Comb(1, 1))'
      BY SameScalars DEF HasZeroCoordinate
<1> QED
    BY <1>2, <1>3, <1>4, <1>5 DEF BiladderInv

\* What holds in ec_biscalar_mul, and of its result; and no call is of a
\* fifth routine.
BiInv ==
    /\ pc = "recode" => RecodeInv
    /\ pc = "biladder" => BiladderInv
    /\ pc = "done" /\ call.alg = "biscalar" => ResultRight
    /\ pc = "idle" \/ call.alg \in {"ladder", "ladder3pt", "biscalar", "verif"}

\* The type the recoding starts from and the pair sigma it makes.
LEMMA FirstType ==
    ASSUME CallInv, NEW t, t = IF Evens = 1 THEN 1 - OddK ELSE 0
    PROVE  /\ t \in {0, 1}
           /\ (IF Evens = 1 THEN <<1 - OddK, 1 - OddL>> ELSE <<0, 1>>) = <<t, 1 - t>>
<1>1. (OddK = 0 \/ OddK = 1) /\ (OddL = 0 \/ OddL = 1) /\ Evens = 2 - (OddK + OddL)
      BY OddScalars DEF Evens
<1> HIDE DEF OddK, OddL, Evens
<1>2. CASE Evens = 1
      BY <1>1, <1>2
<1>3. CASE Evens # 1
      BY <1>1, <1>3
<1> QED
    BY <1>2, <1>3

LEMMA BiscalarEnterKeeps ==
    ASSUME CallInv, BiscalarEnter
    PROVE  BiInv'
<1>1. call' = call /\ call.alg = "biscalar" /\ BasisOK /\ call.kbits \in 1..F
      BY DEF BiscalarEnter, CallInv
<1>2. ASSUME pc' = "done", curve' = curve, out' = None, Refused
      PROVE  BiInv'
      <2>1. ResultRight'
            BY <1>1, <1>2, BiAnswers
      <2> QED
          BY <1>1, <1>2, <2>1 DEF BiInv
<1>3. CASE IsZero(PmQ)
      <2>1. pc' = "done" /\ curve' = curve /\ out' = None
            BY <1>3, Zenon DEF BiscalarEnter, Return
      <2>2. Refused
            BY <1>1, <1>3 DEF Refused, Usable, HasZeroCoordinate, IsZero
      <2> QED
          BY <1>2, <2>1, <2>2
<1>4. CASE ~IsZero(PmQ) /\ call.kbits = 1
      <2>1. pc' = "done" /\ curve' = curve /\ out' = TwoTorsionTable
            BY <1>4, Zenon DEF BiscalarEnter, Return
      <2>2. BiExpected(TwoTorsionTable) \/ (TwoTorsionTable = None /\ Refused)
            BY <1>1, <1>4, TableRight
      <2>3. BiExpected(out') \/ (out' = None /\ Refused)
            BY <2>1, <2>2, Zenon
      <2>4. ResultRight'
            BY <1>1, <2>1, <2>3, BiAnswers
      <2> QED
          BY <1>1, <2>1, <2>4 DEF BiInv
<1>5. CASE ~IsZero(PmQ) /\ call.kbits # 1 /\ ~Usable
      <2>1. pc' = "done" /\ curve' = curve /\ out' = None
            BY <1>5, Zenon DEF BiscalarEnter, Return, Usable
      <2>2. Refused
            BY <1>1, <1>5 DEF Refused
      <2> QED
          BY <1>2, <2>1, <2>2
<1>6. CASE ~IsZero(PmQ) /\ call.kbits # 1 /\ Usable
      <2>1. /\ pc' = "recode"
            /\ st' = [k |-> Odd(Mask(call.k)), l |-> Odd(Mask(call.l)),
                      evens |-> 2 - ((Mask(call.k) % 2) + (Mask(call.l) % 2)),
                      both |-> Mask(call.k) % 2 = 1 /\ Mask(call.l) % 2 = 1,
                      sigma |-> IF 2 - ((Mask(call.k) % 2) + (Mask(call.l) % 2)) = 1
                                THEN <<1 - (Mask(call.k) % 2), 1 - (Mask(call.l) % 2)>> ELSE <<0, 1>>,
                      pre |-> 0, r |-> <<>>]
            BY <1>6, Zenon DEF BiscalarEnter, Usable
      <2>2. st' = [k |-> KK, l |-> LL, evens |-> Evens, both |-> OddK = 1 /\ OddL = 1,
                   sigma |-> IF Evens = 1 THEN <<1 - OddK, 1 - OddL>> ELSE <<0, 1>>,
                   pre |-> 0, r |-> <<>>]
            BY <2>1, Zenon DEF KK, LL, OddK, OddL, Evens
      <2>3. PICK t : t = IF Evens = 1 THEN 1 - OddK ELSE 0
            OBVIOUS
      <2>4. PICK s : s = st'
            OBVIOUS
      <2>5. PICK T : T = [j \in 0..call.kbits |-> t]
            OBVIOUS
      <2>6. t \in {0, 1} /\ (IF Evens = 1 THEN <<1 - OddK, 1 - OddL>> ELSE <<0, 1>>) = <<t, 1 - t>>
            BY <2>3, FirstType
      <2>7. s = [k |-> KK, l |-> LL, evens |-> Evens, both |-> OddK = 1 /\ OddL = 1,
                 sigma |-> <<t, 1 - t>>, pre |-> 0, r |-> <<>>]
            BY <2>2, <2>4, <2>6, Zenon
      <2>8. RecodeShape(s) /\ BiRest(s)
            BY <1>1, <1>6, <2>7 DEF RecodeShape, BiRest
      <2>9. T[0] = t /\ T \in [0..call.kbits -> {0, 1}]
            BY <1>1, <2>5, <2>6
      <2>10. Digits(T, <<>>)
            BY <1>1, <2>3, <2>9 DEF Digits
      <2>11. s.r = <<>> /\ s.sigma = <<t, 1 - t>> /\ s.sigma[1] = t /\ s.pre = 0 /\ s.k = KK /\ s.l = LL /\ Len(<<>>) = 0
            BY <2>7
      <2>12. (t + 0) % 2 = t
            BY <2>6
      <2>13. Half(KK, 0) = KK /\ Half(LL, 0) = LL
            BY OddScalars, HalfEnds
      <2>14. Recoded(T, s)
            BY <2>9, <2>10, <2>11, <2>12, <2>13, Zenon DEF Recoded
      <2>15. RecodeInv'
            BY <1>1, <2>4, <2>8, <2>14, RecodeFrom
      <2> QED
          BY <1>1, <2>1, <2>15 DEF BiInv
<1> QED
    BY <1>3, <1>4, <1>5, <1>6

\* Two swaps in a row.
LEMMA SwapTwice ==
    ASSUME NEW u \in {0, 1}, NEW v \in {0, 1}, NEW a, NEW b
    PROVE  Swapped((v + u) % 2, Swapped(u, <<a, b>>)) = Swapped(v, <<a, b>>)
<1>1. (0 + 0) % 2 = 0 /\ (0 + 1) % 2 = 1 /\ (1 + 0) % 2 = 1 /\ (1 + 1) % 2 = 0
      OBVIOUS
<1>2. CASE u = 0 /\ v = 0
      BY <1>1, <1>2 DEF Swapped
<1>3. CASE u = 0 /\ v = 1
      BY <1>1, <1>3 DEF Swapped
<1>4. CASE u = 1 /\ v = 0
      BY <1>1, <1>4 DEF Swapped
<1>5. CASE u = 1 /\ v = 1
      BY <1>1, <1>5 DEF Swapped
<1> QED
    BY <1>2, <1>3, <1>4, <1>5

NextTypes(U, T, n, d) == U = [T EXCEPT ![n + 1] = (T[n] + d[2]) % 2]

\* One digit more.
LEMMA NextDigits ==
    ASSUME NEW T, NEW r, Digits(T, r), NEW n, n = Len(r), n < call.kbits, call.kbits \in Nat,
           NEW d, IsDigit(n, T[n], d), NEW U, NextTypes(U, T, n, d)
    PROVE  Digits(U, Append(r, d)) /\ U[n + 1] = (T[n] + d[2]) % 2 /\ U[n + 1] \in {0, 1}
<1> USE DEF IsDigit, NextTypes
<1> DEFINE a == Append(r, d)
           v == (T[n] + d[2]) % 2
<1>1. /\ T \in [0..call.kbits -> {0, 1}] /\ r \in Seq([1..2 -> {0, 1}]) /\ n \in Nat
      /\ T[0] = (IF Evens = 1 THEN 1 - OddK ELSE 0)
      BY DEF Digits
<1>2. \A j \in 1..n : Turns(T, r, j)
      BY DEF Digits
<1>3. /\ a \in Seq([1..2 -> {0, 1}]) /\ Len(a) = n + 1 /\ a[n + 1] = d
      /\ \A j \in 1..n : a[j] = r[j]
      BY <1>1
<1>4. T[n] \in {0, 1} /\ d[2] \in {0, 1}
      BY <1>1
<1>5. v \in {0, 1}
      BY <1>4
<1> HIDE DEF a, v
<1>6. U[n + 1] = v /\ U \in [0..call.kbits -> {0, 1}] /\ \A j \in 0..n : U[j] = T[j]
      BY <1>1, <1>5 DEF v
<1>7. U[0] = IF Evens = 1 THEN 1 - OddK ELSE 0
      BY <1>1, <1>6
<1>8. ASSUME NEW j \in 1..(n + 1) PROVE Turns(U, a, j)
      <2>1. CASE j = n + 1
            <3>1. j - 1 = n
                  BY <1>1, <2>1
            <3>2. a[j] = d /\ U[j] = v /\ U[j - 1] = T[n]
                  BY <1>1, <1>3, <1>6, <2>1, <3>1
            <3> QED
                BY <2>1, <3>1, <3>2, Zenon DEF Turns, v
      <2>2. CASE j # n + 1
            <3>1. j \in 1..n /\ j \in 0..n /\ j - 1 \in 0..n
                  BY <1>1, <2>2
            <3>2. a[j] = r[j] /\ U[j] = T[j] /\ U[j - 1] = T[j - 1]
                  BY <1>3, <1>6, <3>1
            <3>3. Turns(T, r, j)
                  BY <1>2, <3>1
            <3> QED
                BY <3>2, <3>3, Zenon DEF Turns
      <2> QED
          BY <2>1, <2>2
<1>9. Len(a) \in 0..call.kbits
      BY <1>1, <1>3
<1>10. Digits(U, a)
       BY <1>3, <1>6, <1>7, <1>8, <1>9, Zenon DEF Digits
<1> QED
    BY <1>5, <1>6, <1>10 DEF a, v

LEMMA RecodeKeeps ==
    ASSUME CallInv, RecodeInv, Recode
    PROVE  BiInv'
<1>1. /\ call' = call /\ pc' = "recode" /\ call.alg = "biscalar"
      /\ Len(st.r) < call.kbits /\ call.kbits \in 1..F /\ RecodeShape(st) /\ BiRest(st)
      BY DEF Recode, CallInv, RecodeInv
<1>2. PICK T : Recoded(T, st)
      BY DEF RecodeInv
<1>3. PICK n : n = Len(st.r)
      OBVIOUS
<1>4. PICK s : s = Swapped((st.sigma[1] + st.pre) % 2, <<st.k, st.l>>)
      OBVIOUS
<1>5. PICK kept : kept = [j \in 1..2 |-> IF n = call.kbits - 1 THEN s[j] ELSE s[j] \div 2]
      OBVIOUS
<1>6. PICK d : d = [j \in 1..2 |-> IF n = call.kbits - 1 THEN kept[j] % 2 ELSE (kept[j] + s[j]) % 2]
      OBVIOUS
<1>7. st' = [st EXCEPT !.k = kept[1], !.l = kept[2], !.r = Append(@, d),
                       !.pre = st.sigma[1], !.sigma = Swapped(d[2], @)]
      BY <1>3, <1>4, <1>5, <1>6, Zenon DEF Recode
<1>8. PICK w : w = st'
      OBVIOUS
<1>9. /\ Digits(T, st.r) /\ st.sigma = <<T[n], 1 - T[n]>>
      /\ s = Swapped(T[n], <<Half(KK, n), Half(LL, n)>>)
      BY <1>1, <1>2, <1>3, <1>4 DEF Recoded
<1>10. n \in 0..(call.kbits - 1) /\ T[n] \in {0, 1} /\ call.kbits \in Nat /\ st.r \in Seq([1..2 -> {0, 1}])
       BY <1>1, <1>3, <1>9, Constants DEF Digits
<1>11. PICK u : u = T[n]
       OBVIOUS
<1>12. /\ IsDigit(n, u, d)
       /\ n # call.kbits - 1 => <<kept[1], kept[2]>> = Swapped(u, <<Half(KK, n + 1), Half(LL, n + 1)>>)
       <2>1. Shifted(n, s, kept, d)
             BY <1>5, <1>6, Zenon DEF Shifted
       <2>2. s = Swapped(u, <<Half(KK, n), Half(LL, n)>>) /\ u \in {0, 1}
             BY <1>9, <1>10, <1>11
       <2> QED
           BY <1>10, <2>1, <2>2, OneDigit
<1>13. PICK U : U = [T EXCEPT ![n + 1] = (T[n] + d[2]) % 2]
       OBVIOUS
<1>14. Digits(U, Append(st.r, d)) /\ U[n + 1] = (u + d[2]) % 2 /\ U[n + 1] \in {0, 1}
       <2>1. IsDigit(n, T[n], d) /\ n < call.kbits
             BY <1>10, <1>11, <1>12
       <2>2. PICK r : r = st.r
             OBVIOUS
       <2>3. NextTypes(U, T, n, d) /\ Digits(T, r) /\ n = Len(r) /\ call.kbits \in Nat
             BY <1>3, <1>9, <1>10, <1>13, <2>2, Zenon DEF NextTypes
       <2>4. Digits(U, Append(r, d)) /\ U[n + 1] = (T[n] + d[2]) % 2 /\ U[n + 1] \in {0, 1}
             BY <2>1, <2>3, NextDigits
       <2> QED
           BY <1>11, <2>2, <2>4, Zenon
<1>15. PICK v : v = U[n + 1]
       OBVIOUS
<1>16. v \in {0, 1} /\ u \in {0, 1} /\ v = (u + d[2]) % 2 /\ (d[2] = 0 \/ d[2] = 1)
       BY <1>10, <1>11, <1>12, <1>14, <1>15 DEF IsDigit
<1>17. st.sigma = <<u, 1 - u>>
       BY <1>9, <1>11
<1>18. Swapped(d[2], st.sigma) = <<v, 1 - v>>
       <2>1. CASE d[2] = 0
             <3>1. v = u
                   BY <1>16, <2>1
             <3> QED
                 BY <1>17, <2>1, <3>1 DEF Swapped
       <2>2. CASE d[2] = 1
             <3>1. v = 1 - u /\ u = 1 - v
                   BY <1>16, <2>2
             <3>2. <<u, 1 - u>>[1] = u /\ <<u, 1 - u>>[2] = 1 - u
                   OBVIOUS
             <3> QED
                 BY <1>17, <2>2, <3>1, <3>2, Zenon DEF Swapped
       <2> QED
           BY <1>16, <2>1, <2>2
<1>19. /\ w.k = kept[1] /\ w.l = kept[2] /\ w.r = Append(st.r, d) /\ w.pre = st.sigma[1]
       /\ w.sigma = Swapped(d[2], st.sigma) /\ w.evens = st.evens /\ w.both = st.both
       /\ RecodeShape(w)
       BY <1>1, <1>7, <1>8 DEF RecodeShape
<1>20. BiRest(w)
       BY <1>1, <1>19 DEF BiRest
<1>21. Len(w.r) = n + 1
       BY <1>3, <1>10, <1>12, <1>19 DEF IsDigit
<1>22. w.sigma = <<v, 1 - v>> /\ w.sigma[1] = v /\ w.pre = u
       BY <1>17, <1>18, <1>19
<1>23. ASSUME n + 1 < call.kbits
       PROVE  Swapped((w.sigma[1] + w.pre) % 2, <<w.k, w.l>>) = Swapped(v, <<Half(KK, n + 1), Half(LL, n + 1)>>)
       <2>1. <<w.k, w.l>> = Swapped(u, <<Half(KK, n + 1), Half(LL, n + 1)>>)
             BY <1>10, <1>12, <1>19, <1>23
       <2>2. v \in {0, 1} /\ u \in {0, 1}
             BY <1>16
       <2>3. PICK a : a = Half(KK, n + 1)
             OBVIOUS
       <2>4. PICK b : b = Half(LL, n + 1)
             OBVIOUS
       <2>5. Swapped((v + u) % 2, Swapped(u, <<a, b>>)) = Swapped(v, <<a, b>>)
             BY <2>2, SwapTwice
       <2>6. Swapped((v + u) % 2, <<w.k, w.l>>) = Swapped(v, <<a, b>>)
             BY <2>1, <2>3, <2>4, <2>5, Zenon
       <2> QED
           BY <1>22, <2>3, <2>4, <2>6, Zenon
<1>24. Recoded(U, w)
       BY <1>14, <1>15, <1>19, <1>21, <1>22, <1>23, Zenon DEF Recoded
<1>25. RecodeInv'
       BY <1>1, <1>8, <1>19, <1>20, <1>24, RecodeFrom
<1> QED
    BY <1>1, <1>25 DEF BiInv

\* The sum of the two points, in either order.
LEMMA SumIs ==
    ASSUME BasisOK, Usable
    PROVE  /\ Point(Plus(call.p, call.q)) = Comb(1, 1)
           /\ XAdd(P, Q, PmQ) = Comb(1, 1) /\ XAdd(Q, P, PmQ) = Comb(1, 1)
<1>1. Point(Plus(call.p, call.q)) = Comb(1, 1)
      <2> DEFINE x == call.p[1]
                 y == call.p[2]
                 z == call.q[1]
                 t == call.q[2]
      <2>1. x \in Int /\ y \in Int /\ z \in Int /\ t \in Int
            BY Coordinates
      <2>2. call.p = Vec(x, y) /\ call.q = Vec(z, t)
            BY VecSelf DEF BasisOK
      <2>3. Comb(1, 1) = Pt(1 * x + 1 * z, 1 * y + 1 * t)
            BY Zenon DEF Comb
      <2> HIDE DEF x, y, z, t
      <2>4. 1 * x + 1 * z = x + z /\ 1 * y + 1 * t = y + t
            BY <2>1
      <2>5. Plus(Vec(x, y), Vec(z, t)) = Vec(x + z, y + t)
            BY <2>1, VecPlus
      <2> QED
          BY <2>2, <2>3, <2>4, <2>5, Zenon DEF Pt
<1>2. P = Comb(1, 0) /\ Q = Comb(0, 1) /\ PmQ = Comb(1, -1) /\ ~HasZeroCoordinate(PmQ)
      <2>1. P = Comb(1, 0) /\ Q = Comb(0, 1) /\ PmQ = Comb(1, -1)
            BY CombNames
      <2>2. ~HasZeroCoordinate(PmQ)
            BY DEF Usable
      <2> QED
          BY <2>1, <2>2
<1>3. Comb(-1, 1) = PmQ
      <2>1. -(-1) = 1 /\ 1 \in Int /\ -1 \in Int
            BY MinusZero
      <2>2. Comb(-1, -(-1)) = Comb(1, -1)
            BY <2>1, CombNeg
      <2> QED
          BY <1>2, <2>1, <2>2, Zenon
<1>4. /\ 1 - 0 = 1 /\ 0 - 1 = -1 /\ 1 + 0 = 1 /\ 0 + 1 = 1
      /\ 1 \in Int /\ 0 \in Int
      OBVIOUS
<1>5. XAdd(Comb(1, 0), Comb(0, 1), Comb(1 - 0, 0 - 1)) =
          IF HasZeroCoordinate(Comb(1 - 0, 0 - 1)) THEN Undefined ELSE Comb(1 + 0, 0 + 1)
      BY <1>4, CombAdd
<1>6. XAdd(Comb(0, 1), Comb(1, 0), Comb(0 - 1, 1 - 0)) =
          IF HasZeroCoordinate(Comb(0 - 1, 1 - 0)) THEN Undefined ELSE Comb(0 + 1, 1 + 0)
      BY <1>4, CombAdd
<1>7. XAdd(P, Q, PmQ) = Comb(1, 1)
      BY <1>2, <1>4, <1>5, Zenon
<1>8. XAdd(Q, P, PmQ) = Comb(1, 1)
      BY <1>2, <1>3, <1>4, <1>6, Zenon
<1> QED
    BY <1>1, <1>7, <1>8

LEMMA RecodeEndKeeps ==
    ASSUME CallInv, RecodeInv, RecodeEnd
    PROVE  BiInv'
<1>1. /\ call' = call /\ curve' = curve /\ call.alg = "biscalar" /\ Len(st.r) = call.kbits
      /\ call.kbits \in 1..F /\ BasisOK /\ RecodeShape(st) /\ BiRest(st) /\ Usable
      BY DEF RecodeEnd, CallInv, RecodeInv, BiRest
<1>2. PICK T : Recoded(T, st)
      BY DEF RecodeInv
<1>3. PICK t : t = T[call.kbits]
      OBVIOUS
<1>4. Digits(T, st.r) /\ st.sigma[1] = t
      BY <1>1, <1>2, <1>3 DEF Recoded
<1>5. t = 0 \/ t = 1
      BY <1>1, <1>3, <1>4 DEF Digits
<1>6. PICK r1 : r1 = Swapped(t, <<P, Q>>)
      OBVIOUS
<1>7. XAdd(r1[1], r1[2], PmQ) = Comb(1, 1)
      <2>1. XAdd(P, Q, PmQ) = Comb(1, 1) /\ XAdd(Q, P, PmQ) = Comb(1, 1)
            BY <1>1, SumIs
      <2>2. r1 = <<P, Q>> \/ r1 = <<Q, P>>
            BY <1>6, Zenon DEF Swapped
      <2>3. <<P, Q>>[1] = P /\ <<P, Q>>[2] = Q /\ <<Q, P>>[1] = Q /\ <<Q, P>>[2] = P
            OBVIOUS
      <2> QED
          BY <2>1, <2>2, <2>3, Zenon
<1>8. CASE HasZeroCoordinate(Comb(1, 1))
      <2>1. pc' = "done" /\ out' = None
            BY <1>4, <1>6, <1>7, <1>8, Zenon DEF RecodeEnd, Return
      <2>2. Refused
            BY <1>1, <1>8, SumIs DEF Refused
      <2>3. ResultRight'
            BY <1>1, <2>1, <2>2, BiAnswers
      <2> QED
          BY <1>1, <2>1, <2>3 DEF BiInv
<1>9. CASE ~HasZeroCoordinate(Comb(1, 1))
      <2>1. /\ st' = [r0 |-> Identity, r1 |-> r1[1], r2 |-> Comb(1, 1),
                      diff1 |-> r1, diff2 |-> <<Comb(1, 1), PmQ>>,
                      r |-> st.r, evens |-> st.evens, both |-> st.both, i |-> call.kbits]
            /\ pc' = "biladder"
            BY <1>4, <1>6, <1>7, <1>9, Zenon DEF RecodeEnd
      <2>2. PICK s : s = st'
            OBVIOUS
      <2>3. /\ s.r0 = Identity /\ s.r1 = r1[1] /\ s.r2 = Comb(1, 1) /\ s.diff1 = r1
            /\ s.diff2 = <<Comb(1, 1), PmQ>> /\ s.r = st.r /\ s.evens = st.evens /\ s.both = st.both
            /\ s.i = call.kbits /\ BiladderShape(s)
            BY <2>1, <2>2 DEF BiladderShape
      <2>4. BiRest(s)
            BY <1>1, <2>3 DEF BiRest
      <2>5. Half(KK, s.i) = 0 /\ Half(LL, s.i) = 0
            <3>1. call.kbits - 1 \in 0..(call.kbits - 1) /\ (call.kbits - 1) + 1 = call.kbits
                  BY <1>1, Constants
            <3>2. Half(KK, (call.kbits - 1) + 1) = 0 /\ Half(LL, (call.kbits - 1) + 1) = 0
                  BY <3>1, HalvesOf
            <3> QED
                BY <2>3, <3>1, <3>2, Zenon
      <2>6. EvenOf(0) = 0 /\ OddOf(0) = 1 /\ (0 + 0) % 2 = 0
            BY DEF EvenOf, OddOf
      <2>7. Identity = Comb(0, 0) /\ P = Comb(1, 0) /\ Q = Comb(0, 1)
            BY <1>1, CombNames
      <2>8. s.r1 = Middle(T[s.i], 0, 0)
            <3>1. CASE t = 0
                  <4>1. r1 = <<P, Q>>
                        BY <1>6, <3>1 DEF Swapped
                  <4>2. r1[1] = Comb(1, 0)
                        BY <2>7, <4>1
                  <4> QED
                      BY <1>3, <2>3, <2>6, <3>1, <4>2, Zenon DEF Middle
            <3>2. CASE t = 1
                  <4>1. r1 = <<Q, P>>
                        BY <1>6, <3>2 DEF Swapped
                  <4>2. r1[1] = Comb(0, 1) /\ t # 0
                        BY <2>7, <3>2, <4>1
                  <4> QED
                      BY <1>3, <2>3, <2>6, <4>2, Zenon DEF Middle
            <3> QED
                BY <1>5, <3>1, <3>2
      <2>9. s.diff1 = Swapped(T[s.i], <<P, Q>>)
            BY <1>3, <1>6, <2>3, Zenon
      <2>10. s.diff2 = Swapped((0 + 0) % 2, <<Comb(1, 1), PmQ>>)
            BY <2>3, <2>6 DEF Swapped
      <2>11. s.r0 = Comb(EvenOf(0), EvenOf(0)) /\ s.r2 = Comb(OddOf(0), OddOf(0))
            BY <2>3, <2>6, <2>7, Zenon
      <2>12. s.i \in 0..call.kbits /\ Digits(T, s.r) /\ Len(s.r) = call.kbits
            BY <1>1, <1>4, <2>3, Constants
      <2>13. Laddered(T, s)
            BY <2>5, <2>8, <2>9, <2>10, <2>11, <2>12, Zenon DEF Laddered
      <2>14. BiladderInv'
            BY <1>1, <1>9, <2>2, <2>3, <2>4, <2>13, BiladderFrom
      <2> QED
          BY <1>1, <2>1, <2>14 DEF BiInv
<1> QED
    BY <1>8, <1>9

---------------------------------------------------------------------------
(* The ladder on three points.                                             *)

\* A number and its half.
LEMMA Halves == ASSUME NEW x \in Nat PROVE \E h \in Nat : x = 2 * h + (x % 2)
OBVIOUS

\* Whether the two outer registers differ by the sum or the difference.
LEMMA OuterDifference ==
    ASSUME NEW x \in Nat, NEW y \in Nat
    PROVE  LET a == EvenOf(x) - OddOf(x)
               c == EvenOf(y) - OddOf(y)
           IN  \/ (x + y) % 2 = 0 /\ ((a = 1 /\ c = 1) \/ (a = -1 /\ c = -1))
               \/ (x + y) % 2 = 1 /\ ((a = 1 /\ c = -1) \/ (a = -1 /\ c = 1))
<1> DEFINE e == x % 2
           f == y % 2
           a == EvenOf(x) - OddOf(x)
           c == EvenOf(y) - OddOf(y)
<1>1. PICK h \in Nat : x = 2 * h + e
      BY Halves
<1>2. PICK g \in Nat : y = 2 * g + f
      BY Halves
<1>3. (e = 0 \/ e = 1) /\ (f = 0 \/ f = 1)
      OBVIOUS
<1>4. EvenOf(x) = x + e /\ OddOf(x) = (x + 1) - e /\ EvenOf(y) = y + f /\ OddOf(y) = (y + 1) - f
      BY DEF EvenOf, OddOf
<1> HIDE DEF e, f
<1>5. a = 2 * e - 1 /\ c = 2 * f - 1
      BY ONLY <1>3, <1>4, x \in Nat, y \in Nat
<1> HIDE DEF a, c
<1>6. x + y = 2 * (h + g) + (e + f) /\ h + g \in Nat
      BY ONLY <1>1, <1>2, <1>3, x \in Nat, y \in Nat
<1>7. (x + y) % 2 = IF e = f THEN 0 ELSE 1
      <2>1. CASE e = f
            <3>1. x + y = 2 * (h + g + e) /\ h + g + e \in Nat
                  BY ONLY <1>3, <1>6, <2>1, h \in Nat, g \in Nat, x \in Nat, y \in Nat
            <3> QED
                BY <2>1, <3>1
      <2>2. CASE e # f
            <3>1. x + y = 2 * (h + g) + 1
                  BY <1>3, <1>6, <2>2
            <3> QED
                BY <1>6, <2>2, <3>1
      <2> QED
          BY <2>1, <2>2
<1>8. CASE e = f
      <2>1. (x + y) % 2 = 0
            BY <1>7, <1>8
      <2>2. (a = 1 /\ c = 1) \/ (a = -1 /\ c = -1)
            BY <1>3, <1>5, <1>8
      <2> QED
          BY <2>1, <2>2 DEF a, c
<1>9. CASE e # f
      <2>1. (x + y) % 2 = 1
            BY <1>7, <1>9
      <2>2. (a = 1 /\ c = -1) \/ (a = -1 /\ c = 1)
            BY <1>3, <1>5, <1>9
      <2> QED
          BY <2>1, <2>2 DEF a, c
<1> QED
    BY <1>8, <1>9

\* The parity of the sum of two digits.
LEMMA DigitSum ==
    ASSUME NEW x \in Nat, NEW y \in Nat, NEW z \in Nat, NEW t \in Nat
    PROVE  (Digit(x, z) + Digit(y, t)) % 2 = (((x + y) % 2) + ((z + t) % 2)) % 2
<1>1. ASSUME NEW a \in Int, NEW b \in Int PROVE Same((a % 2) + (b % 2), a + b, 2)
      <2> DEFINE u == a % 2
                 v == b % 2
      <2>1. u \in Int /\ Same(u, a, 2) /\ v \in Int /\ Same(v, b, 2) /\ 2 \in Nat \ {0}
            BY SameResidue
      <2> HIDE DEF u, v
      <2>2. Same(u + v, a + b, 2)
            BY <2>1, SameAdd
      <2> QED
          BY <2>2 DEF u, v
<1>2. x + z \in Int /\ y + t \in Int /\ x + y \in Int /\ z + t \in Int
      OBVIOUS
<1>3. (x + z) + (y + t) = (x + y) + (z + t)
      OBVIOUS
<1>4. Same(((x + z) % 2) + ((y + t) % 2), (x + z) + (y + t), 2)
      BY <1>1, <1>2
<1>5. Same(((x + y) % 2) + ((z + t) % 2), (x + y) + (z + t), 2)
      BY <1>1, <1>2
<1> DEFINE a == ((x + z) % 2) + ((y + t) % 2)
           b == ((x + y) % 2) + ((z + t) % 2)
           c == (x + z) + (y + t)
           k == (x + y) + (z + t)
<1>6. a % 2 = c % 2 /\ b % 2 = k % 2 /\ c = k
      BY <1>3, <1>4, <1>5, Zenon DEF Same
<1> HIDE DEF a, b, c, k
<1>7. a % 2 = b % 2
      BY <1>6, Zenon
<1> QED
    BY <1>7, Zenon DEF Digit, a, b

\* The registers and digits of a turn from the halves x and y to z and w, one
\* bit longer; and what it computes.
TurnOf(regs, d, u, t, x, y, z, w) ==
    /\ x \in Nat /\ y \in Nat /\ z \in Nat /\ w \in Nat /\ u \in {0, 1}
    /\ z = 2 * x + (z % 2) /\ w = 2 * y + (w % 2)
    /\ DigitsOf(d, u, Digit(z, x), Digit(w, y)) /\ t = (u + d[2]) % 2
    /\ regs = <<Comb(EvenOf(x), EvenOf(y)), Middle(t, x, y), Comb(OddOf(x), OddOf(y))>>

TurnedTo(regs, d, u, t, x, y, z, w) ==
    /\ XDbl(regs[1 + d[1] + d[2]]) = Comb(EvenOf(z), EvenOf(w))
    /\ XAdd(regs[1 + d[2]], regs[2 + d[2]], Swapped(u, <<P, Q>>)[1]) = Middle(u, z, w)
    /\ XAdd(regs[1], regs[3], Swapped((x + y) % 2, <<Comb(1, 1), PmQ>>)[1]) = Comb(OddOf(z), OddOf(w))
    /\ \A p, q : Swapped(d[2], Swapped(t, <<p, q>>)) = Swapped(u, <<p, q>>)
    /\ \A p, q : Swapped((d[1] + d[2]) % 2, Swapped((x + y) % 2, <<p, q>>)) = Swapped((z + w) % 2, <<p, q>>)

LEMMA TurnRight ==
    ASSUME BiArgs, NEW regs, NEW d, NEW u, NEW t, NEW x, NEW y, NEW z, NEW w,
           TurnOf(regs, d, u, t, x, y, z, w)
    PROVE  TurnedTo(regs, d, u, t, x, y, z, w)
<1> SUFFICES ASSUME x \in Nat, y \in Nat, z \in Nat, w \in Nat, u \in {0, 1},
                    z = 2 * x + (z % 2), w = 2 * y + (w % 2),
                    DigitsOf(d, u, Digit(z, x), Digit(w, y)), t = (u + d[2]) % 2,
                    regs = <<Comb(EvenOf(x), EvenOf(y)), Middle(t, x, y), Comb(OddOf(x), OddOf(y))>>
             PROVE  TurnedTo(regs, d, u, t, x, y, z, w)
    BY Zenon DEF TurnOf
<1> DEFINE a == EvenOf(x)
           b == OddOf(x)
           c == EvenOf(y)
           g == OddOf(y)
           e == Digit(z, x)
           f == Digit(w, y)
<1>1. /\ EvenOf(z) = 2 * Pick(e, a, b) /\ OddOf(z) = a + b /\ (e = 0 \/ e = 1)
      /\ a \in Nat /\ b \in Nat /\ (a - b = 1 \/ a - b = -1)
      BY Neighbours
<1>2. /\ EvenOf(w) = 2 * Pick(f, c, g) /\ OddOf(w) = c + g /\ (f = 0 \/ f = 1)
      /\ c \in Nat /\ g \in Nat /\ (c - g = 1 \/ c - g = -1)
      BY Neighbours
<1>3. ThreeOf(regs, t, a, b, c, g)
      BY Zenon DEF Middle, ThreeOf
<1>4. /\ regs[1 + d[1] + d[2]] = Comb(Pick(e, a, b), Pick(f, c, g))
      /\ u = 0 => regs[1 + d[2]] = Comb(a, Pick(f, c, g)) /\ regs[2 + d[2]] = Comb(b, Pick(f, c, g))
      /\ u = 1 => regs[1 + d[2]] = Comb(Pick(e, a, b), c) /\ regs[2 + d[2]] = Comb(Pick(e, a, b), g)
      /\ \A p, q : Swapped(d[2], Swapped(t, <<p, q>>)) = Swapped(u, <<p, q>>)
      /\ (d[1] + d[2]) % 2 = (e + f) % 2
      <2>1. e \in {0, 1} /\ f \in {0, 1}
            BY <1>1, <1>2
      <2> HIDE DEF a, b, c, g, e, f
      <2>2. DigitsOf(d, u, e, f)
            BY Zenon DEF e, f
      <2>3. t = (u + d[2]) % 2 /\ u \in {0, 1}
            OBVIOUS
      <2>4. Chosen(regs, d, u, t, a, b, c, g, e, f)
            BY ONLY <1>3, <2>1, <2>2, <2>3, Registers
      <2> QED
          BY <2>4, Zenon DEF Chosen
<1>5. regs[1] = Comb(a, c) /\ regs[3] = Comb(b, g)
      OBVIOUS
<1>6. BasisOK
      BY DEF BiArgs
<1>7. \A p, q : Swapped((d[1] + d[2]) % 2, Swapped((x + y) % 2, <<p, q>>)) = Swapped((z + w) % 2, <<p, q>>)
      <2>1. (d[1] + d[2]) % 2 = (((z + w) % 2) + ((x + y) % 2)) % 2
            <3>1. (Digit(z, x) + Digit(w, y)) % 2 = (((z + w) % 2) + ((x + y) % 2)) % 2
                  BY ONLY x \in Nat, y \in Nat, z \in Nat, w \in Nat, DigitSum
            <3> QED
                BY <1>4, <3>1, Zenon
      <2>2. PICK v : v = (z + w) % 2
            OBVIOUS
      <2>3. PICK k : k = (x + y) % 2
            OBVIOUS
      <2>4. v \in {0, 1} /\ k \in {0, 1}
            <3>1. z + w \in Nat /\ x + y \in Nat
                  OBVIOUS
            <3> QED
                BY <2>2, <2>3, <3>1
      <2>5. ASSUME NEW p, NEW q PROVE Swapped((v + k) % 2, Swapped(k, <<p, q>>)) = Swapped(v, <<p, q>>)
            BY <2>4, SwapTwice
      <2> QED
          BY <2>1, <2>2, <2>3, <2>5, Zenon
<1>8. PICK k : k = (x + y) % 2
      OBVIOUS
<1>9. \/ k = 0 /\ ((a - b = 1 /\ c - g = 1) \/ (a - b = -1 /\ c - g = -1))
      \/ k = 1 /\ ((a - b = 1 /\ c - g = -1) \/ (a - b = -1 /\ c - g = 1))
      BY <1>8, OuterDifference, Zenon
<1> HIDE DEF a, b, c, g, e, f
<1>10. XDbl(regs[1 + d[1] + d[2]]) = Comb(EvenOf(z), EvenOf(w))
       <2>1. Pick(e, a, b) \in Int /\ Pick(f, c, g) \in Int
             BY <1>1, <1>2 DEF Pick
       <2>2. XDbl(Comb(Pick(e, a, b), Pick(f, c, g))) = Comb(2 * Pick(e, a, b), 2 * Pick(f, c, g))
             BY <1>6, <2>1, CombDouble
       <2> QED
           BY <1>1, <1>2, <1>4, <2>2, Zenon
<1>11. XAdd(regs[1 + d[2]], regs[2 + d[2]], Swapped(u, <<P, Q>>)[1]) = Middle(u, z, w)
       <2>1. Pick(e, a, b) \in Int /\ Pick(f, c, g) \in Int /\ a \in Int /\ b \in Int /\ c \in Int /\ g \in Int
             BY <1>1, <1>2 DEF Pick
       <2>2. CASE u = 0
             <3>1. Swapped(u, <<P, Q>>)[1] = P
                   BY <2>2 DEF Swapped
             <3>2. XAdd(Comb(a, Pick(f, c, g)), Comb(b, Pick(f, c, g)), P) = Comb(a + b, 2 * Pick(f, c, g))
                   <4>1. PICK m : m = Pick(f, c, g)
                         OBVIOUS
                   <4>2. m \in Int /\ (a - b = 1 \/ a - b = -1)
                         BY <1>1, <2>1, <4>1
                   <4>3. XAdd(Comb(a, m), Comb(b, m), P) = Comb(a + b, 2 * m)
                         BY ONLY BiArgs, <2>1, <4>2, KnownSum
                   <4> QED
                       BY <4>1, <4>3, Zenon
             <3> QED
                 BY <1>1, <1>2, <1>4, <2>2, <3>1, <3>2, Zenon DEF Middle
       <2>3. CASE u = 1
             <3>1. Swapped(u, <<P, Q>>)[1] = Q /\ u # 0
                   BY <2>3 DEF Swapped
             <3>2. XAdd(Comb(Pick(e, a, b), c), Comb(Pick(e, a, b), g), Q) = Comb(2 * Pick(e, a, b), c + g)
                   <4>1. PICK m : m = Pick(e, a, b)
                         OBVIOUS
                   <4>2. m \in Int /\ (c - g = 1 \/ c - g = -1)
                         BY <1>2, <2>1, <4>1
                   <4>3. XAdd(Comb(m, c), Comb(m, g), Q) = Comb(2 * m, c + g)
                         BY ONLY BiArgs, <2>1, <4>2, KnownSum
                   <4> QED
                       BY <4>1, <4>3, Zenon
             <3> QED
                 BY <1>1, <1>2, <1>4, <2>3, <3>1, <3>2, Zenon DEF Middle
       <2> QED
           BY <2>2, <2>3
<1>12. XAdd(regs[1], regs[3], Swapped(k, <<Comb(1, 1), PmQ>>)[1]) = Comb(OddOf(z), OddOf(w))
       <2>1. a \in Int /\ b \in Int /\ c \in Int /\ g \in Int
             BY <1>1, <1>2
       <2>2. CASE k = 0
             <3>1. Swapped(k, <<Comb(1, 1), PmQ>>)[1] = Comb(1, 1)
                   BY <2>2 DEF Swapped
             <3>2. (a - b = 1 /\ c - g = 1) \/ (a - b = -1 /\ c - g = -1)
                   BY <1>9, <2>2
             <3>3. XAdd(Comb(a, c), Comb(b, g), Comb(1, 1)) = Comb(a + b, c + g)
                   BY ONLY BiArgs, <2>1, <3>2, KnownSum
             <3> QED
                 BY <1>1, <1>2, <1>5, <3>1, <3>3, Zenon
       <2>3. CASE k = 1
             <3>1. Swapped(k, <<Comb(1, 1), PmQ>>)[1] = PmQ
                   BY <2>3 DEF Swapped
             <3>2. (a - b = 1 /\ c - g = -1) \/ (a - b = -1 /\ c - g = 1)
                   BY <1>9, <2>3
             <3>3. XAdd(Comb(a, c), Comb(b, g), PmQ) = Comb(a + b, c + g)
                   BY ONLY BiArgs, <2>1, <3>2, KnownSum
             <3> QED
                 BY <1>1, <1>2, <1>5, <3>1, <3>3, Zenon
       <2> QED
           BY <1>9, <2>2, <2>3
<1> QED
    BY <1>4, <1>7, <1>8, <1>10, <1>11, <1>12, Zenon DEF TurnedTo

LEMMA BiladderTurnKeeps ==
    ASSUME CallInv, BiladderInv, BiladderTurn
    PROVE  BiInv'
<1>1. /\ call' = call /\ pc' = "biladder" /\ call.alg = "biscalar" /\ st.i > 0
      /\ call.kbits \in 1..F /\ BiladderShape(st) /\ BiRest(st) /\ BiArgs /\ ~HasZeroCoordinate(Comb(1, 1))
      BY DEF BiladderTurn, CallInv, BiladderInv, BiRest, BiArgs
<1>2. PICK T : Laddered(T, st)
      BY DEF BiladderInv
<1>3. PICK i : i = st.i
      OBVIOUS
<1>4. PICK x : x = Half(KK, i)
      OBVIOUS
<1>5. PICK y : y = Half(LL, i)
      OBVIOUS
<1>6. PICK z : z = Half(KK, i - 1)
      OBVIOUS
<1>7. PICK w : w = Half(LL, i - 1)
      OBVIOUS
<1>8. PICK d : d = st.r[i]
      OBVIOUS
<1>9. PICK t : t = T[i]
      OBVIOUS
<1>10. PICK u : u = T[i - 1]
       OBVIOUS
<1>11. PICK regs : regs = <<st.r0, st.r1, st.r2>>
       OBVIOUS
<1>12. /\ Digits(T, st.r) /\ Len(st.r) = call.kbits /\ i \in 0..call.kbits
       /\ st.r0 = Comb(EvenOf(x), EvenOf(y)) /\ st.r2 = Comb(OddOf(x), OddOf(y))
       /\ st.r1 = Middle(t, x, y)
       /\ st.diff1 = Swapped(t, <<P, Q>>)
       /\ st.diff2 = Swapped((x + y) % 2, <<Comb(1, 1), PmQ>>)
       BY <1>2, <1>3, <1>4, <1>5, <1>9, Zenon DEF Laddered
<1>13. i \in 1..Len(st.r) /\ i - 1 \in 0..(call.kbits - 1) /\ i - 1 \in 0..call.kbits /\ (i - 1) + 1 = i
       BY <1>1, <1>3, <1>12, Constants
<1>14. /\ x \in Nat /\ y \in Nat /\ z \in Nat /\ w \in Nat
       /\ z = 2 * x + (z % 2) /\ w = 2 * y + (w % 2)
       <2>1. PICK n : n = i - 1
             OBVIOUS
       <2>2. n \in 0..(call.kbits - 1) /\ n + 1 = i
             BY <1>13, <2>1
       <2>3. Half(KK, n) \in Nat /\ Half(KK, n + 1) \in Nat /\ Half(KK, n) = 2 * Half(KK, n + 1) + (Half(KK, n) % 2)
             BY <2>2, HalvesOf
       <2>4. Half(LL, n) \in Nat /\ Half(LL, n + 1) \in Nat /\ Half(LL, n) = 2 * Half(LL, n + 1) + (Half(LL, n) % 2)
             BY <2>2, HalvesOf
       <2> QED
           BY <1>4, <1>5, <1>6, <1>7, <2>1, <2>2, <2>3, <2>4, Zenon
<1>15. /\ Turns(T, st.r, i) /\ T \in [0..call.kbits -> {0, 1}]
       BY <1>12, <1>13 DEF Digits
<1>16. u \in {0, 1}
       BY <1>10, <1>13, <1>15
<1>17. DigitsOf(d, u, Digit(z, x), Digit(w, y)) /\ t = (u + d[2]) % 2
       BY <1>4, <1>5, <1>6, <1>7, <1>8, <1>9, <1>10, <1>15, Zenon DEF Turns, DK, DL, DigitsOf
<1>18. regs = <<Comb(EvenOf(x), EvenOf(y)), Middle(t, x, y), Comb(OddOf(x), OddOf(y))>>
       BY <1>11, <1>12, Zenon
<1>19. /\ XDbl(regs[1 + d[1] + d[2]]) = Comb(EvenOf(z), EvenOf(w))
       /\ XAdd(regs[1 + d[2]], regs[2 + d[2]], Swapped(u, <<P, Q>>)[1]) = Middle(u, z, w)
       /\ XAdd(regs[1], regs[3], Swapped((x + y) % 2, <<Comb(1, 1), PmQ>>)[1]) = Comb(OddOf(z), OddOf(w))
       /\ \A p, q : Swapped(d[2], Swapped(t, <<p, q>>)) = Swapped(u, <<p, q>>)
       /\ \A p, q : Swapped((d[1] + d[2]) % 2, Swapped((x + y) % 2, <<p, q>>)) = Swapped((z + w) % 2, <<p, q>>)
       <2>1. TurnOf(regs, d, u, t, x, y, z, w)
             BY <1>14, <1>16, <1>17, <1>18, Zenon DEF TurnOf
       <2>2. TurnedTo(regs, d, u, t, x, y, z, w)
             BY <1>1, <2>1, TurnRight
       <2> QED
           BY <2>2, Zenon DEF TurnedTo
<1>20. PICK s : s = st'
       OBVIOUS
<1>21. st' = [st EXCEPT !.r0 = XDbl(regs[1 + d[1] + d[2]]),
                        !.r1 = XAdd(regs[1 + d[2]], regs[2 + d[2]], Swapped(d[2], st.diff1)[1]),
                        !.r2 = XAdd(st.r0, st.r2, st.diff2[1]),
                        !.diff1 = Swapped(d[2], st.diff1), !.diff2 = Swapped((d[1] + d[2]) % 2, st.diff2), !.i = @ - 1]
       BY <1>3, <1>8, <1>11, Zenon DEF BiladderTurn, Differences2
<1>22. /\ s.r0 = XDbl(regs[1 + d[1] + d[2]])
       /\ s.r1 = XAdd(regs[1 + d[2]], regs[2 + d[2]], Swapped(d[2], st.diff1)[1])
       /\ s.r2 = XAdd(st.r0, st.r2, st.diff2[1])
       /\ s.diff1 = Swapped(d[2], st.diff1) /\ s.diff2 = Swapped((d[1] + d[2]) % 2, st.diff2)
       /\ s.i = i - 1 /\ s.r = st.r /\ s.evens = st.evens /\ s.both = st.both /\ BiladderShape(s)
       BY <1>1, <1>3, <1>20, <1>21 DEF BiladderShape
<1>23. s.diff1 = Swapped(u, <<P, Q>>) /\ s.diff2 = Swapped((z + w) % 2, <<Comb(1, 1), PmQ>>)
       <2>1. \A p, q : Swapped(d[2], Swapped(t, <<p, q>>)) = Swapped(u, <<p, q>>)
             BY <1>19, Zenon
       <2>2. Swapped(d[2], Swapped(t, <<P, Q>>)) = Swapped(u, <<P, Q>>)
             BY <2>1, Zenon
       <2>3. \A p, q : Swapped((d[1] + d[2]) % 2, Swapped((x + y) % 2, <<p, q>>)) = Swapped((z + w) % 2, <<p, q>>)
             BY <1>19, Zenon
       <2>4. Swapped((d[1] + d[2]) % 2, Swapped((x + y) % 2, <<Comb(1, 1), PmQ>>)) = Swapped((z + w) % 2, <<Comb(1, 1), PmQ>>)
             BY <2>3, Zenon
       <2>5. st.diff1 = Swapped(t, <<P, Q>>) /\ st.diff2 = Swapped((x + y) % 2, <<Comb(1, 1), PmQ>>)
             BY <1>12, Zenon
       <2>6. s.diff1 = Swapped(d[2], st.diff1) /\ s.diff2 = Swapped((d[1] + d[2]) % 2, st.diff2)
             BY <1>22, Zenon
       <2> QED
           BY <2>2, <2>4, <2>5, <2>6, Zenon
<1>24. s.r0 = Comb(EvenOf(z), EvenOf(w)) /\ s.r1 = Middle(u, z, w)
       BY <1>19, <1>22, <1>23, Zenon
<1>25. s.r2 = Comb(OddOf(z), OddOf(w))
       <2>1. regs[1] = st.r0 /\ regs[3] = st.r2
             BY <1>11
       <2> QED
           BY <1>12, <1>19, <1>22, <2>1, Zenon
<1>26. Laddered(T, s)
       <2>1. u = T[s.i] /\ z = Half(KK, s.i) /\ w = Half(LL, s.i)
             BY <1>6, <1>7, <1>10, <1>22, Zenon
       <2>2. s.i \in 0..call.kbits /\ Digits(T, s.r) /\ Len(s.r) = call.kbits
             BY <1>12, <1>13, <1>22
       <2> QED
           BY <1>23, <1>24, <1>25, <2>1, <2>2, Zenon DEF Laddered
<1>27. BiRest(s)
       BY <1>1, <1>22 DEF BiRest
<1>28. BiladderInv'
       BY <1>1, <1>20, <1>22, <1>26, <1>27, BiladderFrom
<1> QED
    BY <1>1, <1>28 DEF BiInv

\* The neighbour of an odd scalar that has the parity of the given one.
LEMMA ParityRestored ==
    ASSUME CallInv
    PROVE  LET k == Mask(call.k)
               l == Mask(call.l)
               m == 2 ^ call.kbits
           IN  /\ OddK = 1 => OddOf(KK) = k
               /\ OddK = 0 => EvenOf(KK) = k \/ EvenOf(KK) = k + m
               /\ OddL = 1 => OddOf(LL) = l
               /\ OddL = 0 => EvenOf(LL) = l \/ EvenOf(LL) = l + m
<1>1. call.kbits \in 1..F /\ call.k \in Nat /\ call.l \in Nat
      BY DEF CallInv
<1>2. ASSUME NEW v \in Nat, v % 2 = 1
      PROVE  OddOf(v) = v /\ EvenOf(v) = v + 1
      BY <1>2 DEF OddOf, EvenOf
<1>3. /\ KK \in Nat /\ KK % 2 = 1
      /\ OddK = 1 => KK = Mask(call.k)
      /\ OddK = 0 => KK + 1 = Mask(call.k) \/ KK + 1 = Mask(call.k) + 2 ^ call.kbits
      BY <1>1, OddIs DEF KK, OddK
<1>4. /\ LL \in Nat /\ LL % 2 = 1
      /\ OddL = 1 => LL = Mask(call.l)
      /\ OddL = 0 => LL + 1 = Mask(call.l) \/ LL + 1 = Mask(call.l) + 2 ^ call.kbits
      BY <1>1, OddIs DEF LL, OddL
<1>5. OddOf(KK) = KK /\ EvenOf(KK) = KK + 1
      BY <1>2, <1>3
<1>6. OddOf(LL) = LL /\ EvenOf(LL) = LL + 1
      BY <1>2, <1>4
<1> QED
    BY <1>3, <1>4, <1>5, <1>6, Zenon

LEMMA BiladderEndKeeps ==
    ASSUME CallInv, BiladderInv, BiladderEnd
    PROVE  BiInv'
<1>1. /\ call' = call /\ curve' = curve /\ pc' = "done" /\ call.alg = "biscalar" /\ st.i = 0
      /\ call.kbits \in 1..F /\ BiRest(st)
      BY DEF BiladderEnd, Return, CallInv, BiladderInv
<1>2. PICK T : Laddered(T, st)
      BY DEF BiladderInv
<1>3. Half(KK, 0) = KK /\ Half(LL, 0) = LL
      BY OddScalars, HalfEnds
<1>4. /\ st.r0 = Comb(EvenOf(KK), EvenOf(LL)) /\ st.r2 = Comb(OddOf(KK), OddOf(LL))
      /\ st.r1 = Middle(T[0], KK, LL) /\ Digits(T, st.r)
      BY <1>1, <1>2, <1>3, Zenon DEF Laddered
<1>5. (OddK = 0 \/ OddK = 1) /\ (OddL = 0 \/ OddL = 1) /\ Evens = 2 - (OddK + OddL)
      BY OddScalars DEF Evens
<1>6. st.evens = Evens /\ st.both = (OddK = 1 /\ OddL = 1)
      BY <1>1 DEF BiRest
<1>7. out' = IF OddK = 1 /\ OddL = 1 THEN st.r2 ELSE IF Evens % 2 = 1 THEN st.r1 ELSE st.r0
      BY <1>6, Zenon DEF BiladderEnd, Return
<1>8. T[0] = IF Evens = 1 THEN 1 - OddK ELSE 0
      BY <1>4 DEF Digits
<1>9. PICK a : a = IF OddK = 1 THEN OddOf(KK) ELSE EvenOf(KK)
      OBVIOUS
<1>10. PICK b : b = IF OddL = 1 THEN OddOf(LL) ELSE EvenOf(LL)
       OBVIOUS
<1>11. BiExpected(Comb(a, b))
       <2>1. a = Mask(call.k) \/ a = Mask(call.k) + 2 ^ call.kbits
             BY <1>5, <1>9, ParityRestored, Zenon
       <2>2. b = Mask(call.l) \/ b = Mask(call.l) + 2 ^ call.kbits
             BY <1>5, <1>10, ParityRestored, Zenon
       <2> QED
           BY <1>1, <2>1, <2>2, BiCombination
<1>12. out' = Comb(a, b)
       <2>1. CASE OddK = 1 /\ OddL = 1
             BY <1>4, <1>7, <1>9, <1>10, <2>1, Zenon
       <2>2. CASE OddK = 1 /\ OddL = 0
             <3>1. Evens = 1 /\ Evens % 2 = 1 /\ OddL # 1
                   BY <1>5, <2>2
             <3>2. T[0] = 0
                   BY <1>8, <2>2, <3>1
             <3> QED
                 BY <1>4, <1>7, <1>9, <1>10, <2>2, <3>1, <3>2, Zenon DEF Middle
       <2>3. CASE OddK = 0 /\ OddL = 1
             <3>1. Evens = 1 /\ Evens % 2 = 1 /\ OddK # 1
                   BY <1>5, <2>3
             <3>2. T[0] = 1 /\ T[0] # 0
                   BY <1>8, <2>3, <3>1
             <3> QED
                 BY <1>4, <1>7, <1>9, <1>10, <2>3, <3>1, <3>2, Zenon DEF Middle
       <2>4. CASE OddK = 0 /\ OddL = 0
             <3>1. Evens % 2 # 1 /\ OddK # 1 /\ OddL # 1
                   BY <1>5, <2>4
             <3> QED
                 BY <1>4, <1>7, <1>9, <1>10, <3>1, Zenon
       <2> QED
           BY <1>5, <2>1, <2>2, <2>3, <2>4
<1>13. ResultRight'
       BY <1>1, <1>11, <1>12, BiAnswers
<1> QED
    BY <1>1, <1>13 DEF BiInv

---------------------------------------------------------------------------
(* All four routines.                                                      *)

LEMMA BiInit == Init => BiInv
BY DEF Init, BiInv

LEMMA BiKeeps ==
    ASSUME CallInv, BiInv, [Next]_svars
    PROVE  BiInv'
<1>1. CASE UNCHANGED svars
      <2>1. call' = call /\ curve' = curve /\ pc' = pc /\ st' = st /\ out' = out
            BY <1>1 DEF svars
      <2>2. PICK s : s = st
            OBVIOUS
      <2>3. pc = "recode" => RecodeInv'
            BY <2>1, <2>2, RecodeFrom DEF BiInv, RecodeInv
      <2>4. pc = "biladder" => BiladderInv'
            BY <2>1, <2>2, BiladderFrom DEF BiInv, BiladderInv
      <2>5. ResultRight' = ResultRight
            <3>1. Expected' = Expected /\ Refused' = Refused /\ FullBasis' = FullBasis /\ HasZeroCoordinate(P)' = HasZeroCoordinate(P)
                  BY <2>1 DEF Expected, Combination, Refused, Usable, FullBasis, ShortColumn, Mask, P, Q, PmQ,
                              HasZeroCoordinate, IsTwoTorsion
            <3> QED
                BY <2>1, <3>1 DEF ResultRight, PointRight, RefusalRight
      <2> QED
          BY <2>1, <2>3, <2>4, <2>5 DEF BiInv
<1>2. CASE pc = "idle" /\ \E b \in Bases, k \in Scalars, w \in Widths :
              \/ \E alg \in {"ladder", "ladder3pt"} : Call(alg, b, k, 0, w)
              \/ \E alg \in {"biscalar", "verif"}, l \in Scalars : Call(alg, b, k, l, w)
      <2>1. pc' = "called" /\ call'.alg \in {"ladder", "ladder3pt", "biscalar", "verif"}
            BY <1>2 DEF Call
      <2> QED
          BY <2>1 DEF BiInv
<1>3. CASE \/ LadderEnter \/ LadderTurn \/ LadderEnd
           \/ Ladder3ptEnter \/ Ladder3ptTurn \/ Ladder3ptEnd
           \/ VerifEnter \/ Euclid \/ Strip \/ VerifEnd
      <2>1. /\ call' = call /\ pc' \notin {"recode", "biladder"}
            /\ call.alg \in {"ladder", "ladder3pt", "verif"}
            BY <1>3 DEF CallInv, LadderEnter, LadderTurn, LadderEnd, Ladder, Ladder3ptEnter, Ladder3ptTurn,
                        Ladder3ptEnd, VerifEnter, Euclid, Strip, VerifEnd, Return
      <2> QED
          BY <2>1 DEF BiInv
<1>4. CASE BiscalarEnter
      BY <1>4, BiscalarEnterKeeps
<1>5. CASE Recode
      BY <1>5, RecodeKeeps DEF BiInv, Recode
<1>6. CASE RecodeEnd
      BY <1>6, RecodeEndKeeps DEF BiInv, RecodeEnd
<1>7. CASE BiladderTurn
      BY <1>7, BiladderTurnKeeps DEF BiInv, BiladderTurn
<1>8. CASE BiladderEnd
      BY <1>8, BiladderEndKeeps DEF BiInv, BiladderEnd
<1> QED
    BY <1>1, <1>2, <1>3, <1>4, <1>5, <1>6, <1>7, <1>8 DEF Next

\* Whatever the points, the scalars, the bound on their bits and the width of
\* a limb, every call of ec_mul, ec_ladder3pt, ec_biscalar_mul and
\* ec_biscalar_mul_verif answers with the combination of P and Q that was
\* asked for, and refuses only what Refused names: no sequence of swaps gives
\* an addition a wrong difference, and no short column of a basis change is
\* turned away in the middle of the reduction.
THEOREM MultiplicationsCorrect == Spec => []ResultRight
<1>1. Init => MulInv /\ VerifInv /\ BiInv
      BY MulInit, VerifInit, BiInit
<1>2. MulInv /\ VerifInv /\ BiInv /\ [Next]_svars => MulInv' /\ VerifInv' /\ BiInv'
      BY MulKeeps, VerifKeeps, BiKeeps DEF MulInv
<1>3. MulInv /\ VerifInv /\ BiInv => ResultRight
      <2> SUFFICES ASSUME MulInv, VerifInv, BiInv, pc = "done" PROVE ResultRight
          BY DEF ResultRight, PointRight, RefusalRight
      <2>1. CASE call.alg = "biscalar"
            BY <2>1 DEF BiInv
      <2>2. CASE call.alg \in {"ladder", "ladder3pt", "verif"}
            BY <2>2 DEF MulInv, VerifInv, Answered, ResultRight, RefusalRight
      <2> QED
          BY <2>1, <2>2 DEF BiInv
<1> QED
    BY <1>1, <1>2, <1>3, PTL DEF Spec

---------------------------------------------------------------------------
(* The logarithms of TateLog.                                              *)

\* Shared finds the root its two biquadratics have in common, or nothing: it
\* never gives another.
RootPair(p1, p2, d, u) == Sums(p1, p2) = {d, u}

LEMMA SharedRoot ==
    ASSUME NEW p1, NEW p2, NEW p1q, NEW p2q, NEW d, NEW u, NEW v, RootPair(p1, p2, d, u), RootPair(p1q, p2q, d, v)
    PROVE  /\ Shared(p1, p2, p1q, p2q) = d \/ Shared(p1, p2, p1q, p2q) = Undefined
           /\ u # v /\ p1q # Undefined /\ p2q # Undefined /\ d # Origin /\ u # Origin
                 => Shared(p1, p2, p1q, p2q) = d
<1>0. Sums(p1, p2) = {d, u} /\ Sums(p1q, p2q) = {d, v}
      BY DEF RootPair
<1>1. CASE u = v
      BY <1>0, <1>1 DEF Shared
<1>2. CASE u # v
      <2>1. {d, u} \cap {d, v} = {d}
            BY <1>2
      <2>2. (CHOOSE s \in {d} : TRUE) = d
            OBVIOUS
      <2>3. {d, u} # {d, v}
            BY <1>2
      <2>4. Origin \in {d} => Origin \in {d, u}
            OBVIOUS
      <2> QED
          BY <1>0, <2>1, <2>2, <2>3 DEF Shared
<1> QED
    BY <1>1, <1>2

OddVector(x, y) == ~(Even(x) /\ Even(y))

LEMMA EvenShift ==
    ASSUME NEW x \in Int, NEW m \in Int, Even(x + 2 * m)
    PROVE  Even(x)
<1>1. PICK u \in Int : x + 2 * m = 2 * u
      BY DEF Even
<1>2. x = 2 * (u - m) /\ u - m \in Int
      BY <1>1
<1> QED
    BY <1>2 DEF Even

LEMMA OddShift ==
    ASSUME NEW x \in Int, NEW y \in Int, NEW m \in Int, NEW n \in Int, OddVector(x, y)
    PROVE  OddVector(x + 2 * m, y + 2 * n)
BY EvenShift DEF OddVector

LEMMA OddIsRegular ==
    ASSUME NEW x \in Int, NEW y \in Int, OddVector(x, y)
    PROVE  ~HasZeroCoordinate(Pt(x, y)) /\ ~(Null(2 * x) /\ Null(2 * y))
BY ZeroIsEven, NullIsEven DEF OddVector

\* x(R - Q) from the four points and x(P - R), x(P - Q).
FindsRQ(p1, p2, q1, q2, r1, r2) ==
    LET found == Shared(Pt(r1, r2), Pt(q1, q2), Pt(p1 - r1, p2 - r2), Pt(p1 - q1, p2 - q2))
        right == Pt(r1 - q1, r2 - q2)
    IN  /\ found = right \/ found = Undefined
        /\ /\ OddVector(r1 + q1, r2 + q2) /\ OddVector(r1 - q1, r2 - q2)
           /\ OddVector(p1, p2) /\ OddVector(r1 + q1 - p1, r2 + q2 - p2)
           => found = right

LEMMA RootRQ ==
    ASSUME NEW p1 \in Int, NEW p2 \in Int, NEW q1 \in Int, NEW q2 \in Int, NEW r1 \in Int, NEW r2 \in Int
    PROVE  FindsRQ(p1, p2, q1, q2, r1, r2)
<1> DEFINE d == Pt(r1 - q1, r2 - q2)
           u == Pt(r1 + q1, r2 + q2)
           v == Pt((p1 - r1) + (p1 - q1), (p2 - r2) + (p2 - q2))
<1>1. Sums(Pt(r1, r2), Pt(q1, q2)) = {d, u}
      BY PtSums
<1>2. Sums(Pt(p1 - r1, p2 - r2), Pt(p1 - q1, p2 - q2)) = {d, v}
      <2>1. Sums(Pt(p1 - r1, p2 - r2), Pt(p1 - q1, p2 - q2)) =
                {v, Pt((p1 - r1) - (p1 - q1), (p2 - r2) - (p2 - q2))}
            BY PtSums
      <2>2. (p1 - r1) - (p1 - q1) = -(r1 - q1) /\ (p2 - r2) - (p2 - q2) = -(r2 - q2)
            OBVIOUS
      <2>3. Pt(-(r1 - q1), -(r2 - q2)) = d
            BY PtSet
      <2> QED
          BY <2>1, <2>2, <2>3
<1>3. /\ OddVector(r1 + q1, r2 + q2) /\ OddVector(r1 - q1, r2 - q2)
      /\ OddVector(p1, p2) /\ OddVector(r1 + q1 - p1, r2 + q2 - p2)
      => u # v /\ Pt(p1 - r1, p2 - r2) # Undefined /\ Pt(p1 - q1, p2 - q2) # Undefined /\ d # Origin /\ u # Origin
      <2> SUFFICES ASSUME OddVector(r1 + q1, r2 + q2), OddVector(r1 - q1, r2 - q2),
                          OddVector(p1, p2), OddVector(r1 + q1 - p1, r2 + q2 - p2)
                   PROVE  u # v /\ Pt(p1 - r1, p2 - r2) # Undefined /\ Pt(p1 - q1, p2 - q2) # Undefined /\ d # Origin /\ u # Origin
          OBVIOUS
      <2>1. ~HasZeroCoordinate(d) /\ ~HasZeroCoordinate(u)
            BY OddIsRegular
      <2>2. Pt(p1 - r1, p2 - r2) # Undefined /\ Pt(p1 - q1, p2 - q2) # Undefined
            BY PtProper
      <2>3. ASSUME u = v PROVE FALSE
            <3> DEFINE g1 == (p1 - r1) + (p1 - q1)
                       g2 == (p2 - r2) + (p2 - q2)
                       h1 == r1 + q1
                       h2 == r2 + q2
            <3>1. g1 \in Int /\ g2 \in Int /\ h1 \in Int /\ h2 \in Int /\ Pt(h1, h2) = Pt(g1, g2)
                  BY <2>3
            <3>2. /\ h1 - g1 = 2 * (r1 + q1 - p1) /\ h2 - g2 = 2 * (r2 + q2 - p2)
                  /\ h1 + g1 = 2 * p1 /\ h2 + g2 = 2 * p2
                  OBVIOUS
            <3> HIDE DEF g1, g2, h1, h2
            <3>3. (Null(h1 - g1) /\ Null(h2 - g2)) \/ (Null(h1 + g1) /\ Null(h2 + g2))
                  BY <3>1, PtEqual, Zenon
            <3>4. /\ ~(Null(2 * (r1 + q1 - p1)) /\ Null(2 * (r2 + q2 - p2)))
                  /\ ~(Null(2 * p1) /\ Null(2 * p2))
                  BY OddIsRegular
            <3> QED
                BY <3>2, <3>3, <3>4, Zenon
      <2> QED
          BY <2>1, <2>2, <2>3, Zenon DEF HasZeroCoordinate
<1> HIDE DEF d, u, v
<1> DEFINE a1 == Pt(r1, r2)
           a2 == Pt(q1, q2)
           b1 == Pt(p1 - r1, p2 - r2)
           b2 == Pt(p1 - q1, p2 - q2)
<1>4. RootPair(a1, a2, d, u) /\ RootPair(b1, b2, d, v)
      BY <1>1, <1>2, Zenon DEF RootPair
<1>5. /\ OddVector(r1 + q1, r2 + q2) /\ OddVector(r1 - q1, r2 - q2)
      /\ OddVector(p1, p2) /\ OddVector(r1 + q1 - p1, r2 + q2 - p2)
      => u # v /\ b1 # Undefined /\ b2 # Undefined /\ d # Origin /\ u # Origin
      BY <1>3, Zenon
<1> HIDE DEF a1, a2, b1, b2
<1>6. /\ Shared(a1, a2, b1, b2) = d \/ Shared(a1, a2, b1, b2) = Undefined
      /\ u # v /\ b1 # Undefined /\ b2 # Undefined /\ d # Origin /\ u # Origin => Shared(a1, a2, b1, b2) = d
      BY ONLY <1>4, SharedRoot, Z3
<1> QED
    BY <1>5, <1>6, Zenon DEF a1, a2, b1, b2, d, FindsRQ

\* x(P - S) from the four points and x(P - R), x(R - S).
FindsPS(p1, p2, s1, s2, r1, r2) ==
    LET found == Shared(Pt(p1, p2), Pt(s1, s2), Pt(p1 - r1, p2 - r2), Pt(r1 - s1, r2 - s2))
        right == Pt(p1 - s1, p2 - s2)
    IN  /\ found = right \/ found = Undefined
        /\ /\ OddVector(p1 + s1, p2 + s2) /\ OddVector(p1 - s1, p2 - s2)
           /\ ~(Null(2 * r1) /\ Null(2 * r2)) /\ OddVector(p1 + s1 - r1, p2 + s2 - r2)
           => found = right

LEMMA RootPS ==
    ASSUME NEW p1 \in Int, NEW p2 \in Int, NEW s1 \in Int, NEW s2 \in Int, NEW r1 \in Int, NEW r2 \in Int
    PROVE  FindsPS(p1, p2, s1, s2, r1, r2)
<1> DEFINE d == Pt(p1 - s1, p2 - s2)
           u == Pt(p1 + s1, p2 + s2)
           v == Pt((p1 - r1) - (r1 - s1), (p2 - r2) - (r2 - s2))
<1>1. Sums(Pt(p1, p2), Pt(s1, s2)) = {d, u}
      BY PtSums
<1>2. Sums(Pt(p1 - r1, p2 - r2), Pt(r1 - s1, r2 - s2)) = {d, v}
      <2>1. Sums(Pt(p1 - r1, p2 - r2), Pt(r1 - s1, r2 - s2)) =
                {Pt((p1 - r1) + (r1 - s1), (p2 - r2) + (r2 - s2)), v}
            BY PtSums
      <2>2. (p1 - r1) + (r1 - s1) = p1 - s1 /\ (p2 - r2) + (r2 - s2) = p2 - s2
            OBVIOUS
      <2> QED
          BY <2>1, <2>2
<1>3. /\ OddVector(p1 + s1, p2 + s2) /\ OddVector(p1 - s1, p2 - s2)
      /\ ~(Null(2 * r1) /\ Null(2 * r2)) /\ OddVector(p1 + s1 - r1, p2 + s2 - r2)
      => u # v /\ Pt(p1 - r1, p2 - r2) # Undefined /\ Pt(r1 - s1, r2 - s2) # Undefined /\ d # Origin /\ u # Origin
      <2> SUFFICES ASSUME OddVector(p1 + s1, p2 + s2), OddVector(p1 - s1, p2 - s2),
                          ~(Null(2 * r1) /\ Null(2 * r2)), OddVector(p1 + s1 - r1, p2 + s2 - r2)
                   PROVE  u # v /\ Pt(p1 - r1, p2 - r2) # Undefined /\ Pt(r1 - s1, r2 - s2) # Undefined /\ d # Origin /\ u # Origin
          OBVIOUS
      <2>1. ~HasZeroCoordinate(d) /\ ~HasZeroCoordinate(u)
            BY OddIsRegular
      <2>2. Pt(p1 - r1, p2 - r2) # Undefined /\ Pt(r1 - s1, r2 - s2) # Undefined
            BY PtProper
      <2>3. ASSUME u = v PROVE FALSE
            <3> DEFINE g1 == (p1 - r1) - (r1 - s1)
                       g2 == (p2 - r2) - (r2 - s2)
                       h1 == p1 + s1
                       h2 == p2 + s2
            <3>1. g1 \in Int /\ g2 \in Int /\ h1 \in Int /\ h2 \in Int /\ Pt(h1, h2) = Pt(g1, g2)
                  BY <2>3
            <3>2. /\ h1 - g1 = 2 * r1 /\ h2 - g2 = 2 * r2
                  /\ h1 + g1 = 2 * (p1 + s1 - r1) /\ h2 + g2 = 2 * (p2 + s2 - r2)
                  OBVIOUS
            <3> HIDE DEF g1, g2, h1, h2
            <3>3. (Null(h1 - g1) /\ Null(h2 - g2)) \/ (Null(h1 + g1) /\ Null(h2 + g2))
                  BY <3>1, PtEqual, Zenon
            <3>4. ~(Null(2 * (p1 + s1 - r1)) /\ Null(2 * (p2 + s2 - r2)))
                  BY OddIsRegular
            <3> QED
                BY <3>2, <3>3, <3>4, Zenon
      <2> QED
          BY <2>1, <2>2, <2>3, Zenon DEF HasZeroCoordinate
<1> HIDE DEF d, u, v
<1> DEFINE a1 == Pt(p1, p2)
           a2 == Pt(s1, s2)
           b1 == Pt(p1 - r1, p2 - r2)
           b2 == Pt(r1 - s1, r2 - s2)
<1>4. RootPair(a1, a2, d, u) /\ RootPair(b1, b2, d, v)
      BY <1>1, <1>2, Zenon DEF RootPair
<1>5. /\ OddVector(p1 + s1, p2 + s2) /\ OddVector(p1 - s1, p2 - s2)
      /\ ~(Null(2 * r1) /\ Null(2 * r2)) /\ OddVector(p1 + s1 - r1, p2 + s2 - r2)
      => u # v /\ b1 # Undefined /\ b2 # Undefined /\ d # Origin /\ u # Origin
      BY <1>3, Zenon
<1> HIDE DEF a1, a2, b1, b2
<1>6. /\ Shared(a1, a2, b1, b2) = d \/ Shared(a1, a2, b1, b2) = Undefined
      /\ u # v /\ b1 # Undefined /\ b2 # Undefined /\ d # Origin /\ u # Origin => Shared(a1, a2, b1, b2) = d
      BY ONLY <1>4, SharedRoot, Z3
<1> QED
    BY <1>5, <1>6, Zenon DEF a1, a2, b1, b2, d, FindsPS

LEMMA SharedUndefined == \A p1, p2, p1q, p2q : Undefined \in {p1q, p2q} => Shared(p1, p2, p1q, p2q) = Undefined
BY DEF Shared

---------------------------------------------------------------------------
(* The points of a query as integer vectors: R and S are [2^(F - e)] times *)
(* a combination of P and Q.                                               *)

Scale == 2 ^ (F - query.e)
Lx(c) == Scale * (c[1] * query.pq[1][1] + c[2] * query.pq[2][1])
Ly(c) == Scale * (c[1] * query.pq[1][2] + c[2] * query.pq[2][2])

QueryOK == \E e \in Subgroups : query \in Queries(e)

IsCoordinate(c) == c = query.r \/ c = query.s

LEMMA QueryShape ==
    ASSUME QueryOK
    PROVE  /\ query.e \in 1..F /\ query.pq \in TateBases
           /\ query.pq[1] \in Vectors /\ query.pq[2] \in Vectors
           /\ query.pq[1][1] \in Int /\ query.pq[1][2] \in Int
           /\ query.pq[2][1] \in Int /\ query.pq[2][2] \in Int
           /\ \A c \in {query.r, query.s} : c[1] \in 0..(2 ^ query.e - 1) /\ c[2] \in 0..(2 ^ query.e - 1)
           /\ Det(query.r, query.s) % 2 = 1
           /\ Det(query.pq[1], query.pq[2]) % 2 = 1
<1>1. PICK e \in Subgroups : query \in Queries(e)
      BY DEF QueryOK
<1> DEFINE Coordinates2 == (0..(2 ^ e - 1)) \X (0..(2 ^ e - 1))
<1>2. query \in [pq : TateBases, e : {e}, r : Coordinates2, s : Coordinates2] /\ Det(query.r, query.s) % 2 = 1
      BY <1>1 DEF Queries
<1>3. query.e = e /\ query.pq \in TateBases /\ query.r \in Coordinates2 /\ query.s \in Coordinates2
      <2> HIDE DEF Coordinates2
      <2> QED
          BY <1>2
<1>4. query.e \in 1..F /\ query.pq[1] \in Vectors /\ query.pq[2] \in Vectors
      BY <1>1, <1>3, TateAssumption
<1>5. Det(query.pq[1], query.pq[2]) % 2 = 1
      BY <1>3, TateAssumption
<1>6. \A c \in {query.r, query.s} : c[1] \in 0..(2 ^ query.e - 1) /\ c[2] \in 0..(2 ^ query.e - 1)
      BY <1>3
<1>7. \A u \in Vectors : u[1] \in Int /\ u[2] \in Int
      BY VecSelf
<1> QED
    BY <1>2, <1>3, <1>4, <1>5, <1>6, <1>7

LEMMA CoordinateRange ==
    ASSUME QueryOK, NEW c, IsCoordinate(c)
    PROVE  c[1] \in Nat /\ c[2] \in Nat /\ Scale \in Nat \ {0} /\ Lx(c) \in Int /\ Ly(c) \in Int
<1>1. c[1] \in 0..(2 ^ query.e - 1) /\ c[2] \in 0..(2 ^ query.e - 1) /\ query.e \in 1..F
      BY QueryShape DEF IsCoordinate
<1>2. query.e \in 0..(F + LimbBits) /\ F - query.e \in 0..(F + LimbBits)
      BY <1>1, Constants
<1>3. 2 ^ query.e \in Nat /\ Scale \in Nat \ {0}
      BY <1>2, TwoPowers DEF Scale
<1>4. c[1] \in Nat /\ c[2] \in Nat
      BY <1>1, <1>3
<1> DEFINE x == query.pq[1][1]
           y == query.pq[1][2]
           z == query.pq[2][1]
           t == query.pq[2][2]
<1>5. x \in Int /\ y \in Int /\ z \in Int /\ t \in Int
      BY QueryShape
<1> DEFINE m == Scale
           a == c[1]
           b == c[2]
<1>6. m * (a * x + b * z) \in Int /\ m * (a * y + b * t) \in Int
      <2> HIDE DEF x, y, z, t, m, a, b
      <2>1. m \in Int /\ a \in Int /\ b \in Int
            BY <1>3, <1>4 DEF m, a, b
      <2> QED
          BY <1>5, <2>1
<1> QED
    BY <1>3, <1>4, <1>6 DEF Lx, Ly

LEMMA LiftIs ==
    ASSUME QueryOK, NEW c, IsCoordinate(c)
    PROVE  Lift(query.pq, query.e, c) = Vec(Lx(c), Ly(c))
<1> DEFINE x == query.pq[1][1]
           y == query.pq[1][2]
           z == query.pq[2][1]
           t == query.pq[2][2]
           m == Scale
           a == c[1]
           b == c[2]
<1>1. x \in Int /\ y \in Int /\ z \in Int /\ t \in Int /\ m \in Int /\ a \in Int /\ b \in Int
      BY QueryShape, CoordinateRange
<1>2. query.pq[1] = Vec(x, y) /\ query.pq[2] = Vec(z, t)
      BY QueryShape, VecSelf
<1>3. Lift(query.pq, query.e, c) = Times(m, Plus(Times(a, query.pq[1]), Times(b, query.pq[2])))
      BY DEF Lift, Scale
<1>4. Lx(c) = m * (a * x + b * z) /\ Ly(c) = m * (a * y + b * t)
      BY DEF Lx, Ly
<1> HIDE DEF x, y, z, t, m, a, b
<1>5. Times(a, Vec(x, y)) = Vec(a * x, a * y)
      BY <1>1, VecTimes
<1>6. Times(b, Vec(z, t)) = Vec(b * z, b * t)
      BY <1>1, VecTimes
<1>7. a * x \in Int /\ a * y \in Int /\ b * z \in Int /\ b * t \in Int
      BY <1>1
<1>8. Plus(Vec(a * x, a * y), Vec(b * z, b * t)) = Vec(a * x + b * z, a * y + b * t)
      BY <1>7, VecPlus
<1>9. Times(m, Vec(a * x + b * z, a * y + b * t)) = Vec(m * (a * x + b * z), m * (a * y + b * t))
      <2>1. a * x + b * z \in Int /\ a * y + b * t \in Int
            BY <1>7
      <2> QED
          BY <1>1, <2>1, VecTimes
<1> QED
    BY <1>2, <1>3, <1>4, <1>5, <1>6, <1>8, <1>9, Zenon

LEMMA VecMinus ==
    ASSUME NEW x \in Int, NEW y \in Int, NEW z \in Int, NEW t \in Int
    PROVE  Point(Minus(Vec(x, y), Vec(z, t))) = Pt(x - z, y - t)
<1>1. Neg(Vec(z, t)) = Vec(-z, -t) /\ -z \in Int /\ -t \in Int
      BY VecNeg
<1>2. Plus(Vec(x, y), Vec(-z, -t)) = Vec(x + (-z), y + (-t))
      BY <1>1, VecPlus
<1>3. x + (-z) = x - z /\ y + (-t) = y - t
      OBVIOUS
<1> QED
    BY <1>1, <1>2, <1>3, Zenon DEF Minus, Pt

\* An odd coefficient makes an odd vector, whatever the multiples of 2 added.
LEMMA OddCombination ==
    ASSUME QueryOK, NEW a \in Int, NEW b \in Int, ~Even(a) \/ ~Even(b)
    PROVE  OddVector(a * query.pq[1][1] + b * query.pq[2][1], a * query.pq[1][2] + b * query.pq[2][2])
<1> DEFINE x == query.pq[1][1]
           y == query.pq[1][2]
           z == query.pq[2][1]
           t == query.pq[2][2]
<1>1. x \in Int /\ y \in Int /\ z \in Int /\ t \in Int
      BY QueryShape
<1>2. (x * t - y * z) % 2 = 1
      BY QueryShape DEF Det
<1> HIDE DEF x, y, z, t
<1>3. ~Even(x * t - y * z)
      <2>1. x * t - y * z \in Int
            BY <1>1
      <2> QED
          BY <1>2, <2>1, OddNotEven, Zenon
<1>4. ~(Even(a * x + b * z) /\ Even(a * y + b * t))
      BY <1>1, <1>3, ParityOfBasis
<1> QED
    BY <1>4 DEF x, y, z, t, OddVector

\* The coordinates of R, and of S, are not both even: R and S are a basis.
LEMMA OddCoordinate ==
    ASSUME QueryOK, NEW c, IsCoordinate(c)
    PROVE  ~Even(c[1]) \/ ~Even(c[2])
<1> DEFINE a == query.r[1]
           b == query.r[2]
           f == query.s[1]
           g == query.s[2]
<1>1. a \in Int /\ b \in Int /\ f \in Int /\ g \in Int
      BY CoordinateRange DEF IsCoordinate
<1>2. (a * g - b * f) % 2 = 1
      BY QueryShape DEF Det
<1> HIDE DEF a, b, f, g
<1>3. a * g - b * f \in Int /\ ~Even(a * g - b * f)
      <2>1. a * g - b * f \in Int
            BY <1>1
      <2> QED
          BY <1>2, <2>1, OddNotEven, Zenon
<1>4. ASSUME Even(a), Even(b) PROVE FALSE
      <2>1. PICK u \in Int : a = 2 * u
            BY <1>4 DEF Even
      <2>2. PICK v \in Int : b = 2 * v
            BY <1>4 DEF Even
      <2>3. a * g - b * f = 2 * (u * g - v * f) /\ u * g - v * f \in Int
            BY <1>1, <2>1, <2>2
      <2> QED
          BY <1>3, <2>3 DEF Even
<1>5. ASSUME Even(f), Even(g) PROVE FALSE
      <2>1. PICK u \in Int : f = 2 * u
            BY <1>5 DEF Even
      <2>2. PICK v \in Int : g = 2 * v
            BY <1>5 DEF Even
      <2>3. a * g - b * f = 2 * (a * v - b * u) /\ a * v - b * u \in Int
            BY <1>1, <2>1, <2>2
      <2> QED
          BY <1>3, <2>3 DEF Even
<1> QED
    BY <1>4, <1>5 DEF IsCoordinate, a, b, f, g

\* Below the full torsion R and S are twice something.
LEMMA LiftEven ==
    ASSUME QueryOK, query.e < F, NEW c, IsCoordinate(c)
    PROVE  Even(Lx(c)) /\ Even(Ly(c))
<1> DEFINE x == query.pq[1][1]
           y == query.pq[1][2]
           z == query.pq[2][1]
           t == query.pq[2][2]
           m == 2 ^ (F - query.e - 1)
           a == c[1]
           b == c[2]
<1>1. x \in Int /\ y \in Int /\ z \in Int /\ t \in Int /\ a \in Int /\ b \in Int /\ query.e \in 1..F
      BY QueryShape, CoordinateRange
<1>2. m \in Int /\ Scale = 2 * m
      <2>1. F - query.e - 1 \in 0..(F + LimbBits) /\ (F - query.e - 1) + 1 = F - query.e
            BY <1>1, Constants
      <2> QED
          BY <2>1, TwoPowers DEF Scale
<1>3. Lx(c) = (2 * m) * (a * x + b * z) /\ Ly(c) = (2 * m) * (a * y + b * t)
      BY <1>2 DEF Lx, Ly
<1> HIDE DEF x, y, z, t, m, a, b
<1>4. (2 * m) * (a * x + b * z) = 2 * (m * (a * x + b * z)) /\ m * (a * x + b * z) \in Int
      BY <1>1, <1>2
<1>5. (2 * m) * (a * y + b * t) = 2 * (m * (a * y + b * t)) /\ m * (a * y + b * t) \in Int
      BY <1>1, <1>2
<1> QED
    BY <1>3, <1>4, <1>5, Zenon DEF Even

\* Nor are R and S points of order 2 when e is more than 1.
LEMMA LiftOrder ==
    ASSUME QueryOK, query.e >= 2, NEW c, IsCoordinate(c)
    PROVE  ~(Null(2 * Lx(c)) /\ Null(2 * Ly(c)))
<1> SUFFICES ASSUME Null(2 * Lx(c)), Null(2 * Ly(c)) PROVE FALSE
    OBVIOUS
<1> DEFINE x == query.pq[1][1]
           y == query.pq[1][2]
           z == query.pq[2][1]
           t == query.pq[2][2]
           m == Scale
           h == 2 ^ (query.e - 2)
           a == c[1]
           b == c[2]
<1>1. x \in Int /\ y \in Int /\ z \in Int /\ t \in Int /\ a \in Int /\ b \in Int /\ query.e \in 1..F
      BY QueryShape, CoordinateRange
<1>2. m \in Nat \ {0} /\ h \in Nat \ {0}
      <2>1. query.e - 2 \in 0..(F + LimbBits)
            BY <1>1, Constants
      <2> QED
          BY <2>1, CoordinateRange, TwoPowers
<1>3. Order = m * (2 * (2 * h))
      <2>1. /\ query.e - 2 \in 0..(F + LimbBits) /\ (query.e - 2) + 1 = query.e - 1
            /\ query.e - 1 \in 0..(F + LimbBits) /\ (query.e - 1) + 1 = query.e
            BY <1>1, Constants
      <2>2. 2 ^ query.e = 2 * 2 ^ (query.e - 1) /\ 2 ^ (query.e - 1) = 2 * h
            BY <2>1, TwoPowers
      <2>3. F - query.e \in Nat /\ query.e \in Nat /\ (F - query.e) + query.e = F /\ F <= F + LimbBits
            BY <1>1, Constants
      <2>4. 2 ^ ((F - query.e) + query.e) = 2 ^ (F - query.e) * 2 ^ query.e
            BY <2>3, PowerSum
      <2> QED
          BY <2>2, <2>3, <2>4, Zenon DEF Order, Scale
<1>4. Lx(c) = m * (a * x + b * z) /\ Ly(c) = m * (a * y + b * t)
      BY DEF Lx, Ly
<1>5. ~Even(a) \/ ~Even(b)
      BY OddCoordinate
<1>6. OddVector(a * x + b * z, a * y + b * t)
      BY <1>1, <1>5, OddCombination, Zenon
<1> HIDE DEF x, y, z, t, m, a, b, h
<1> DEFINE f == a * x + b * z
           g == a * y + b * t
<1>7. f \in Int /\ g \in Int
      BY <1>1
<1>8. Null(2 * (m * f)) /\ Null(2 * (m * g))
      BY <1>4
<1> HIDE DEF f, g
<1>9. ASSUME NEW n \in Int, Null(2 * (m * n)) PROVE Even(n)
      <2>1. PICK k \in Int : 2 * (m * n) = k * (m * (2 * (2 * h)))
            BY <1>3, <1>9 DEF Null
      <2>2. (2 * m) * (n - 2 * (k * h)) = 0
            BY <1>2, <2>1
      <2>3. n - 2 * (k * h) = 0
            <3> DEFINE w == n - 2 * (k * h)
                       v == 2 * m
            <3>1. w \in Int /\ v \in Nat \ {0} /\ v * w = 0
                  BY <1>2, <2>2
            <3> HIDE DEF w, v
            <3>2. w = 0
                  BY <3>1
            <3> QED
                BY <3>2 DEF w
      <2>4. n = 2 * (k * h) /\ k * h \in Int
            BY <1>2, <2>3
      <2> QED
          BY <2>4 DEF Even
<1>10. Even(f) /\ Even(g)
       BY <1>7, <1>8, <1>9
<1> QED
    BY <1>6, <1>10 DEF f, g, OddVector

---------------------------------------------------------------------------
(* The four differences.                                                   *)

\* What compute_shared_difference_points finds when it started with P - R:
\* the differences that go with it, or (0 : 0) for some.
Found(pmr, rmq, pms, smq, p1, p2, q1, q2, r1, r2, s1, s2) ==
    /\ pmr = Pt(p1 - r1, p2 - r2)
    /\ rmq = Pt(r1 - q1, r2 - q2) \/ rmq = Undefined
    /\ pms = Pt(p1 - s1, p2 - s2) \/ pms = Undefined
    /\ smq = Pt(s1 - q1, s2 - q2) \/ smq = Undefined

FindsAll(rmq, pms, smq, p1, p2, q1, q2, r1, r2, s1, s2) ==
    /\ Found(Pt(p1 - r1, p2 - r2), rmq, pms, smq, p1, p2, q1, q2, r1, r2, s1, s2)
    /\ /\ Even(r1) /\ Even(r2) /\ Even(s1) /\ Even(s2)
       /\ OddVector(p1, p2) /\ OddVector(q1, q2) /\ OddVector(-q1, -q2) /\ OddVector(q1 - p1, q2 - p2)
       /\ ~(Null(2 * r1) /\ Null(2 * r2))
       => rmq # Undefined /\ pms # Undefined /\ smq # Undefined

LEMMA AllRoots ==
    ASSUME NEW p1 \in Int, NEW p2 \in Int, NEW q1 \in Int, NEW q2 \in Int,
           NEW r1 \in Int, NEW r2 \in Int, NEW s1 \in Int, NEW s2 \in Int,
           NEW rmq, NEW pms, NEW smq,
           rmq = Shared(Pt(r1, r2), Pt(q1, q2), Pt(p1 - r1, p2 - r2), Pt(p1 - q1, p2 - q2)),
           pms = Shared(Pt(p1, p2), Pt(s1, s2), Pt(p1 - r1, p2 - r2), Pt(r1 - s1, r2 - s2)),
           smq = Shared(Pt(s1, s2), Pt(q1, q2), pms, Pt(p1 - q1, p2 - q2))
    PROVE  FindsAll(rmq, pms, smq, p1, p2, q1, q2, r1, r2, s1, s2)
<1>1. /\ rmq = Pt(r1 - q1, r2 - q2) \/ rmq = Undefined
      /\ /\ OddVector(r1 + q1, r2 + q2) /\ OddVector(r1 - q1, r2 - q2)
         /\ OddVector(p1, p2) /\ OddVector(r1 + q1 - p1, r2 + q2 - p2)
         => rmq = Pt(r1 - q1, r2 - q2)
      <2>1. FindsRQ(p1, p2, q1, q2, r1, r2)
            BY RootRQ
      <2> QED
          BY <2>1, Zenon DEF FindsRQ
<1>2. /\ pms = Pt(p1 - s1, p2 - s2) \/ pms = Undefined
      /\ /\ OddVector(p1 + s1, p2 + s2) /\ OddVector(p1 - s1, p2 - s2)
         /\ ~(Null(2 * r1) /\ Null(2 * r2)) /\ OddVector(p1 + s1 - r1, p2 + s2 - r2)
         => pms = Pt(p1 - s1, p2 - s2)
      <2>1. FindsPS(p1, p2, s1, s2, r1, r2)
            BY RootPS
      <2> QED
          BY <2>1, Zenon DEF FindsPS
<1>3. CASE pms = Undefined
      <2>1. smq = Undefined
            BY <1>3, SharedUndefined
      <2>2. /\ Even(r1) /\ Even(r2) /\ Even(s1) /\ Even(s2)
            /\ OddVector(p1, p2) /\ ~(Null(2 * r1) /\ Null(2 * r2))
            => pms = Pt(p1 - s1, p2 - s2)
            <3> SUFFICES ASSUME Even(r1), Even(r2), Even(s1), Even(s2),
                                OddVector(p1, p2), ~(Null(2 * r1) /\ Null(2 * r2))
                         PROVE  pms = Pt(p1 - s1, p2 - s2)
                OBVIOUS
            <3>a. PICK a1 \in Int : r1 = 2 * a1
                  BY DEF Even
            <3>b. PICK a2 \in Int : r2 = 2 * a2
                  BY DEF Even
            <3>c. PICK b1 \in Int : s1 = 2 * b1
                  BY DEF Even
            <3>d. PICK b2 \in Int : s2 = 2 * b2
                  BY DEF Even
            <3>1. /\ -b1 \in Int /\ -b2 \in Int /\ b1 - a1 \in Int /\ b2 - a2 \in Int
                  /\ p1 + s1 = p1 + 2 * b1 /\ p2 + s2 = p2 + 2 * b2
                  /\ p1 - s1 = p1 + 2 * (-b1) /\ p2 - s2 = p2 + 2 * (-b2)
                  /\ p1 + s1 - r1 = p1 + 2 * (b1 - a1) /\ p2 + s2 - r2 = p2 + 2 * (b2 - a2)
                  BY <3>a, <3>b, <3>c, <3>d
            <3>2. OddVector(p1 + 2 * b1, p2 + 2 * b2)
                  BY OddShift
            <3>3. OddVector(p1 + 2 * (-b1), p2 + 2 * (-b2))
                  BY <3>1, OddShift, Zenon
            <3>4. OddVector(p1 + 2 * (b1 - a1), p2 + 2 * (b2 - a2))
                  BY <3>1, OddShift, Zenon
            <3> QED
                BY <1>2, <3>1, <3>2, <3>3, <3>4, Zenon
      <2>3. Pt(p1 - s1, p2 - s2) # Undefined
            BY PtProper
      <2> QED
          BY <1>1, <1>3, <2>1, <2>2, <2>3, Zenon DEF Found, FindsAll
<1>4. CASE pms = Pt(p1 - s1, p2 - s2)
      <2>1. /\ smq = Pt(s1 - q1, s2 - q2) \/ smq = Undefined
            /\ /\ OddVector(s1 + q1, s2 + q2) /\ OddVector(s1 - q1, s2 - q2)
               /\ OddVector(p1, p2) /\ OddVector(s1 + q1 - p1, s2 + q2 - p2)
               => smq = Pt(s1 - q1, s2 - q2)
            <3>1. FindsRQ(p1, p2, q1, q2, s1, s2)
                  BY RootRQ
            <3> QED
                BY <1>4, <3>1, Zenon DEF FindsRQ
      <2>2. ASSUME NEW t1 \in Int, NEW t2 \in Int, Even(t1), Even(t2),
                   OddVector(p1, p2), OddVector(q1, q2), OddVector(-q1, -q2), OddVector(q1 - p1, q2 - p2)
            PROVE  OddVector(t1 + q1, t2 + q2) /\ OddVector(t1 - q1, t2 - q2) /\ OddVector(t1 + q1 - p1, t2 + q2 - p2)
            <3>a. PICK a1 \in Int : t1 = 2 * a1
                  BY <2>2 DEF Even
            <3>b. PICK a2 \in Int : t2 = 2 * a2
                  BY <2>2 DEF Even
            <3>1. /\ t1 + q1 = q1 + 2 * a1 /\ t2 + q2 = q2 + 2 * a2
                  /\ t1 - q1 = (-q1) + 2 * a1 /\ t2 - q2 = (-q2) + 2 * a2
                  /\ t1 + q1 - p1 = (q1 - p1) + 2 * a1 /\ t2 + q2 - p2 = (q2 - p2) + 2 * a2
                  /\ -q1 \in Int /\ -q2 \in Int /\ q1 - p1 \in Int /\ q2 - p2 \in Int
                  BY <3>a, <3>b
            <3>2. OddVector(q1 + 2 * a1, q2 + 2 * a2)
                  BY <2>2, OddShift
            <3>3. OddVector((-q1) + 2 * a1, (-q2) + 2 * a2)
                  BY <2>2, <3>1, OddShift, Zenon
            <3>4. OddVector((q1 - p1) + 2 * a1, (q2 - p2) + 2 * a2)
                  BY <2>2, <3>1, OddShift, Zenon
            <3> QED
                BY <3>1, <3>2, <3>3, <3>4, Zenon
      <2>3. Pt(p1 - s1, p2 - s2) # Undefined /\ Pt(s1 - q1, s2 - q2) # Undefined /\ Pt(r1 - q1, r2 - q2) # Undefined
            BY PtProper
      <2>4. Found(Pt(p1 - r1, p2 - r2), rmq, pms, smq, p1, p2, q1, q2, r1, r2, s1, s2)
            BY <1>1, <1>4, <2>1, Zenon DEF Found
      <2>5. /\ Even(r1) /\ Even(r2) /\ Even(s1) /\ Even(s2)
            /\ OddVector(p1, p2) /\ OddVector(q1, q2) /\ OddVector(-q1, -q2) /\ OddVector(q1 - p1, q2 - p2)
            => rmq # Undefined /\ pms # Undefined /\ smq # Undefined
            BY <1>1, <1>4, <2>1, <2>2, <2>3, Zenon
      <2> QED
          BY <2>4, <2>5, Zenon DEF FindsAll
<1> QED
    BY <1>2, <1>3, <1>4

---------------------------------------------------------------------------
(* The invariant of the routine.  With w = 1 the differences are those of  *)
(* R and S, with w = -1 those of -R and -S.                                *)

BasisMinus(w, c, x, y) == Pt(x - w * Lx(c), y - w * Ly(c))
MinusBasis(w, c, x, y) == Pt(w * Lx(c) - x, w * Ly(c) - y)

Settled(d, w) ==
    /\ d.pmr = BasisMinus(w, query.r, query.pq[1][1], query.pq[1][2])
    /\ d.rmq = MinusBasis(w, query.r, query.pq[2][1], query.pq[2][2]) \/ d.rmq = Undefined
    /\ d.pms = BasisMinus(w, query.s, query.pq[1][1], query.pq[1][2]) \/ d.pms = Undefined
    /\ d.smq = MinusBasis(w, query.s, query.pq[2][1], query.pq[2][2]) \/ d.smq = Undefined
    /\ query.e \in 2..(F - 1) => d.rmq # Undefined /\ d.pms # Undefined /\ d.smq # Undefined

TateInv ==
    /\ QueryOK
    /\ stage \in {"given", "differences", "done"}
    /\ stage = "differences" => \E w \in {1, -1} : Settled(diffs, w)
    /\ TateRight

LEMMA QueryPoints ==
    ASSUME QueryOK
    PROVE  /\ PointP = Pt(query.pq[1][1], query.pq[1][2]) /\ PointQ = Pt(query.pq[2][1], query.pq[2][2])
           /\ PointR = Pt(Lx(query.r), Ly(query.r)) /\ PointS = Pt(Lx(query.s), Ly(query.s))
           /\ DiffPQ = Pt(query.pq[1][1] - query.pq[2][1], query.pq[1][2] - query.pq[2][2])
           /\ DiffRS = Pt(Lx(query.r) - Lx(query.s), Ly(query.r) - Ly(query.s))
<1> DEFINE x == query.pq[1][1]
           y == query.pq[1][2]
           z == query.pq[2][1]
           t == query.pq[2][2]
           a == Lx(query.r)
           b == Ly(query.r)
           f == Lx(query.s)
           g == Ly(query.s)
<1>1. /\ x \in Int /\ y \in Int /\ z \in Int /\ t \in Int
      /\ query.pq[1] = Vec(x, y) /\ query.pq[2] = Vec(z, t)
      BY QueryShape, VecSelf
<1>2. Lift(query.pq, query.e, query.r) = Vec(a, b) /\ a \in Int /\ b \in Int
      BY LiftIs, CoordinateRange DEF IsCoordinate
<1>3. Lift(query.pq, query.e, query.s) = Vec(f, g) /\ f \in Int /\ g \in Int
      BY LiftIs, CoordinateRange DEF IsCoordinate
<1> HIDE DEF x, y, z, t, a, b, f, g
<1>4. Point(Minus(Vec(x, y), Vec(z, t))) = Pt(x - z, y - t)
      BY <1>1, VecMinus
<1>5. Point(Minus(Vec(a, b), Vec(f, g))) = Pt(a - f, b - g)
      BY <1>2, <1>3, VecMinus
<1>6. DiffPQ = Pt(x - z, y - t) /\ DiffRS = Pt(a - f, b - g)
      BY <1>1, <1>2, <1>3, <1>4, <1>5, Zenon DEF DiffPQ, DiffRS
<1>7. PointP = Pt(x, y) /\ PointQ = Pt(z, t) /\ PointR = Pt(a, b) /\ PointS = Pt(f, g)
      BY <1>1, <1>2, <1>3, Zenon DEF PointP, PointQ, PointR, PointS, Pt
<1> QED
    BY <1>6, <1>7 DEF x, y, z, t, a, b, f, g

\* A sign makes no difference to a point, nor to its order.
SameUpToSign(w, x, y) ==
    /\ w * x \in Int /\ w * y \in Int /\ Pt(w * x, w * y) = Pt(x, y)
    /\ Null(2 * (w * x)) => Null(2 * x)
    /\ Null(2 * (w * y)) => Null(2 * y)
    /\ Even(x) => Even(w * x)
    /\ Even(y) => Even(w * y)

LEMMA Signs ==
    ASSUME NEW w \in {1, -1}, NEW x \in Int, NEW y \in Int
    PROVE  SameUpToSign(w, x, y)
<1>1. CASE w = 1
      <2>1. w * x = x /\ w * y = y
            BY <1>1
      <2> QED
          BY <2>1 DEF SameUpToSign
<1>2. CASE w = -1
      <2>1. w * x = -x /\ w * y = -y /\ -x \in Int /\ -y \in Int
            BY <1>2
      <2>2. Pt(-x, -y) = Pt(x, y)
            BY PtSet
      <2>3. ASSUME NEW n \in Int, Null(2 * (-n)) PROVE Null(2 * n)
            <3>1. PICK k \in Int : 2 * (-n) = k * Order
                  BY <2>3 DEF Null
            <3>2. 2 * n = (-k) * Order /\ -k \in Int
                  BY <3>1, OrderLarge
            <3> QED
                BY <3>2 DEF Null
      <2>4. ASSUME NEW n \in Int, Even(n) PROVE Even(-n)
            <3>1. PICK u \in Int : n = 2 * u
                  BY <2>4 DEF Even
            <3>2. -n = 2 * (-u) /\ -u \in Int
                  BY <3>1
            <3> QED
                BY <3>2 DEF Even
      <2> QED
          BY <2>1, <2>2, <2>3, <2>4, Zenon DEF SameUpToSign
<1> QED
    BY <1>1, <1>2

LEMMA OddBasis ==
    ASSUME QueryOK
    PROVE  /\ OddVector(query.pq[1][1], query.pq[1][2]) /\ OddVector(query.pq[2][1], query.pq[2][2])
           /\ OddVector(-query.pq[2][1], -query.pq[2][2])
           /\ OddVector(query.pq[2][1] - query.pq[1][1], query.pq[2][2] - query.pq[1][2])
<1> DEFINE x == query.pq[1][1]
           y == query.pq[1][2]
           z == query.pq[2][1]
           t == query.pq[2][2]
<1>1. x \in Int /\ y \in Int /\ z \in Int /\ t \in Int
      BY QueryShape
<1>2. ~Even(1) /\ ~Even(-1) /\ 0 \in Int /\ 1 \in Int /\ -1 \in Int
      BY DEF Even
<1>3. OddVector(1 * x + 0 * z, 1 * y + 0 * t) /\ OddVector(0 * x + 1 * z, 0 * y + 1 * t)
      BY <1>2, OddCombination
<1>4. OddVector(0 * x + (-1) * z, 0 * y + (-1) * t)
      BY <1>2, OddCombination, Zenon
<1>5. OddVector((-1) * x + 1 * z, (-1) * y + 1 * t)
      BY <1>2, OddCombination, Zenon
<1> HIDE DEF x, y, z, t
<1>6. /\ 1 * x + 0 * z = x /\ 1 * y + 0 * t = y /\ 0 * x + 1 * z = z /\ 0 * y + 1 * t = t
      /\ 0 * x + (-1) * z = -z /\ 0 * y + (-1) * t = -t
      /\ (-1) * x + 1 * z = z - x /\ (-1) * y + 1 * t = t - y
      BY <1>1
<1>7. OddVector(x, y) /\ OddVector(z, t) /\ OddVector(-z, -t) /\ OddVector(z - x, t - y)
      BY <1>3, <1>4, <1>5, <1>6, Zenon
<1> QED
    BY <1>7 DEF x, y, z, t

LEMMA DifferencesSettle ==
    ASSUME QueryOK, NEW pmr \in Sums(PointP, PointR), NEW rmq, NEW pms, NEW smq,
           rmq = Shared(PointR, PointQ, pmr, DiffPQ),
           pms = Shared(PointP, PointS, pmr, DiffRS),
           smq = Shared(PointS, PointQ, pms, DiffPQ)
    PROVE  \E w \in {1, -1} : Settled([pmr |-> pmr, pms |-> pms, rmq |-> rmq, smq |-> smq], w)
<1> DEFINE p1 == query.pq[1][1]
           p2 == query.pq[1][2]
           q1 == query.pq[2][1]
           q2 == query.pq[2][2]
           a == Lx(query.r)
           b == Ly(query.r)
           f == Lx(query.s)
           g == Ly(query.s)
<1>1. /\ p1 \in Int /\ p2 \in Int /\ q1 \in Int /\ q2 \in Int
      /\ a \in Int /\ b \in Int /\ f \in Int /\ g \in Int
      BY QueryShape, CoordinateRange DEF IsCoordinate
<1>2. /\ PointP = Pt(p1, p2) /\ PointQ = Pt(q1, q2) /\ PointR = Pt(a, b) /\ PointS = Pt(f, g)
      /\ DiffPQ = Pt(p1 - q1, p2 - q2) /\ DiffRS = Pt(a - f, b - g)
      BY QueryPoints
<1>3. OddVector(p1, p2) /\ OddVector(q1, q2) /\ OddVector(-q1, -q2) /\ OddVector(q1 - p1, q2 - p2)
      BY OddBasis
<1>4. query.e \in 2..(F - 1) => Even(a) /\ Even(b) /\ Even(f) /\ Even(g) /\ ~(Null(2 * a) /\ Null(2 * b))
      <2>1. query.e \in 2..(F - 1) => query.e < F /\ query.e >= 2
            BY Constants
      <2> QED
          BY <2>1, LiftEven, LiftOrder DEF IsCoordinate
<1>5. PICK w \in {1, -1} : pmr = Pt(p1 - w * a, p2 - w * b)
      <2> HIDE DEF p1, p2, a, b
      <2>1. pmr \in {Pt(p1 + a, p2 + b), Pt(p1 - a, p2 - b)}
            BY <1>1, <1>2, PtSums
      <2>2. p1 - 1 * a = p1 - a /\ p2 - 1 * b = p2 - b /\ p1 - (-1) * a = p1 + a /\ p2 - (-1) * b = p2 + b
            BY <1>1
      <2>3. pmr = Pt(p1 - 1 * a, p2 - 1 * b) \/ pmr = Pt(p1 - (-1) * a, p2 - (-1) * b)
            BY <2>1, <2>2
      <2> QED
          BY <2>3
<1> HIDE DEF p1, p2, q1, q2, a, b, f, g
<1> DEFINE r1 == w * a
           r2 == w * b
           s1 == w * f
           s2 == w * g
<1>6. /\ r1 \in Int /\ r2 \in Int /\ s1 \in Int /\ s2 \in Int
      /\ Pt(r1, r2) = PointR /\ Pt(s1, s2) = PointS
      /\ Null(2 * r1) => Null(2 * a)
      /\ Null(2 * r2) => Null(2 * b)
      <2>1. SameUpToSign(w, a, b) /\ SameUpToSign(w, f, g)
            BY <1>1, Signs
      <2> QED
          BY <1>2, <2>1, Zenon DEF SameUpToSign
<1>7. Even(a) /\ Even(b) /\ Even(f) /\ Even(g) => Even(r1) /\ Even(r2) /\ Even(s1) /\ Even(s2)
      <2>1. SameUpToSign(w, a, b) /\ SameUpToSign(w, f, g)
            BY <1>1, Signs
      <2> QED
          BY <2>1, Zenon DEF SameUpToSign
<1>8. Pt(r1 - s1, r2 - s2) = DiffRS
      <2>1. r1 - s1 = w * (a - f) /\ r2 - s2 = w * (b - g) /\ a - f \in Int /\ b - g \in Int
            BY <1>1
      <2>2. Pt(w * (a - f), w * (b - g)) = Pt(a - f, b - g)
            <3> DEFINE h == a - f
                       k == b - g
            <3>1. h \in Int /\ k \in Int
                  BY <2>1
            <3> HIDE DEF h, k
            <3>2. SameUpToSign(w, h, k)
                  BY <3>1, Signs
            <3> QED
                BY <3>2, Zenon DEF SameUpToSign, h, k
      <2> QED
          BY <1>2, <2>1, <2>2
<1> HIDE DEF r1, r2, s1, s2
<1>9. pmr = Pt(p1 - r1, p2 - r2)
      BY <1>5 DEF r1, r2
<1>10. /\ rmq = Shared(Pt(r1, r2), Pt(q1, q2), Pt(p1 - r1, p2 - r2), Pt(p1 - q1, p2 - q2))
       /\ pms = Shared(Pt(p1, p2), Pt(s1, s2), Pt(p1 - r1, p2 - r2), Pt(r1 - s1, r2 - s2))
       /\ smq = Shared(Pt(s1, s2), Pt(q1, q2), pms, Pt(p1 - q1, p2 - q2))
       BY <1>2, <1>6, <1>8, <1>9
<1>11. FindsAll(rmq, pms, smq, p1, p2, q1, q2, r1, r2, s1, s2)
       BY <1>1, <1>6, <1>10, AllRoots
<1>12. query.e \in 2..(F - 1) => rmq # Undefined /\ pms # Undefined /\ smq # Undefined
       BY <1>3, <1>4, <1>6, <1>7, <1>11, Zenon DEF FindsAll
<1>13. Settled([pmr |-> pmr, pms |-> pms, rmq |-> rmq, smq |-> smq], w)
       <2>1. /\ BasisMinus(w, query.r, query.pq[1][1], query.pq[1][2]) = Pt(p1 - r1, p2 - r2)
             /\ MinusBasis(w, query.r, query.pq[2][1], query.pq[2][2]) = Pt(r1 - q1, r2 - q2)
             /\ BasisMinus(w, query.s, query.pq[1][1], query.pq[1][2]) = Pt(p1 - s1, p2 - s2)
             /\ MinusBasis(w, query.s, query.pq[2][1], query.pq[2][2]) = Pt(s1 - q1, s2 - q2)
             BY Zenon DEF BasisMinus, MinusBasis, p1, p2, q1, q2, a, b, f, g, r1, r2, s1, s2
       <2> DEFINE dd == [pmr |-> pmr, pms |-> pms, rmq |-> rmq, smq |-> smq]
       <2>2. dd.pmr = pmr /\ dd.pms = pms /\ dd.rmq = rmq /\ dd.smq = smq
             OBVIOUS
       <2> HIDE DEF dd
       <2>3. Settled(dd, w)
             BY <1>9, <1>11, <1>12, <2>1, <2>2, Zenon DEF Settled, Found, FindsAll
       <2> QED
           BY <2>3 DEF dd
<1> QED
    BY <1>13

\* The sign a pairing comes with: that of w.
WithSign(w, n) == IF w = 1 THEN n ELSE (-n) % 2 ^ query.e

LEMMA TwoSelf == ASSUME NEW n \in 0..1 PROVE (-n) % 2 = n
<1>1. n = 0 \/ n = 1
      OBVIOUS
<1>2. CASE n = 0
      <2>1. -n = 0
            BY <1>2, MinusZero
      <2>2. 0 % 2 = 0
            OBVIOUS
      <2> QED
          BY <1>2, <2>1, <2>2, Zenon
<1>3. CASE n = 1
      <2>1. (-1) % 2 = 1
            <3>1. -1 \in Int /\ -1 = 2 * (-1) + 1 /\ 1 \in 0..(2 - 1) /\ 2 \in Nat \ {0}
                  OBVIOUS
            <3> QED
                BY <3>1, Residue
      <2> QED
          BY <1>3, <2>1, Zenon
<1> QED
    BY <1>1, <1>2, <1>3

LEMMA SignsDiffer ==
    ASSUME QueryOK, query.e # 1, NEW c, IsCoordinate(c), NEW x \in Int, NEW y \in Int, OddVector(x, y)
    PROVE  Pt(x + Lx(c), y + Ly(c)) # Pt(x - Lx(c), y - Ly(c))
<1> DEFINE a == Lx(c)
           b == Ly(c)
<1>1. a \in Int /\ b \in Int
      BY CoordinateRange
<1>2. ~(Null(2 * a) /\ Null(2 * b))
      <2>1. query.e \in 1..F
            BY QueryShape
      <2>2. query.e >= 2
            BY <2>1, Constants
      <2> QED
          BY <2>2, LiftOrder
<1> HIDE DEF a, b
<1>3. ASSUME Pt(x + a, y + b) = Pt(x - a, y - b) PROVE FALSE
      <2> DEFINE g1 == x + a
                 g2 == y + b
                 h1 == x - a
                 h2 == y - b
      <2>1. g1 \in Int /\ g2 \in Int /\ h1 \in Int /\ h2 \in Int /\ Pt(g1, g2) = Pt(h1, h2)
            BY <1>1, <1>3
      <2>2. g1 - h1 = 2 * a /\ g2 - h2 = 2 * b /\ g1 + h1 = 2 * x /\ g2 + h2 = 2 * y
            BY <1>1
      <2> HIDE DEF g1, g2, h1, h2
      <2>3. (Null(g1 - h1) /\ Null(g2 - h2)) \/ (Null(g1 + h1) /\ Null(g2 + h2))
            BY <2>1, PtEqual
      <2>4. ~(Null(2 * x) /\ Null(2 * y))
            BY OddIsRegular
      <2> QED
          BY <1>2, <2>2, <2>3, <2>4, Zenon
<1> QED
    BY <1>3 DEF a, b

LEMMA SignedIs ==
    ASSUME QueryOK, NEW c, IsCoordinate(c), NEW w \in {1, -1}, NEW x \in Int, NEW y \in Int, OddVector(x, y),
           NEW n \in 0..(2 ^ query.e - 1)
    PROVE  /\ (IF BasisMinus(w, c, x, y) = Pt(x - Lx(c), y - Ly(c)) THEN n ELSE (-n) % 2 ^ query.e) = WithSign(w, n)
           /\ (IF MinusBasis(w, c, x, y) = Pt(Lx(c) - x, Ly(c) - y) THEN n ELSE (-n) % 2 ^ query.e) = WithSign(w, n)
<1> DEFINE a == Lx(c)
           b == Ly(c)
<1>1. a \in Int /\ b \in Int
      BY CoordinateRange
<1>2. query.e = 1 \/ Pt(x + a, y + b) # Pt(x - a, y - b)
      BY SignsDiffer
<1>3. query.e = 1 => (-n) % 2 ^ query.e = n
      <2> SUFFICES ASSUME query.e = 1 PROVE (-n) % 2 ^ query.e = n
          OBVIOUS
      <2>1. 2 ^ 1 = 2 * 2 ^ 0 /\ 2 ^ 0 = 1
            BY TwoPowers, PowerAssumption, Constants
      <2>2. 2 ^ query.e = 2
            BY <2>1
      <2>3. n \in 0..1
            BY <2>2
      <2> QED
          BY <2>2, <2>3, TwoSelf
<1>4. BasisMinus(w, c, x, y) = Pt(x - w * a, y - w * b) /\ MinusBasis(w, c, x, y) = Pt(w * a - x, w * b - y)
      BY Zenon DEF BasisMinus, MinusBasis
<1> HIDE DEF a, b
<1>5. /\ x - 1 * a = x - a /\ y - 1 * b = y - b /\ x - (-1) * a = x + a /\ y - (-1) * b = y + b
      /\ 1 * a - x = a - x /\ 1 * b - y = b - y /\ (-1) * a - x = -(x + a) /\ (-1) * b - y = -(y + b)
      /\ a - x = -(x - a) /\ b - y = -(y - b)
      BY <1>1
<1>6. Pt(-(x + a), -(y + b)) = Pt(x + a, y + b) /\ Pt(-(x - a), -(y - b)) = Pt(x - a, y - b)
      <2> DEFINE g1 == x + a
                 g2 == y + b
                 h1 == x - a
                 h2 == y - b
      <2>1. g1 \in Int /\ g2 \in Int /\ h1 \in Int /\ h2 \in Int
            BY <1>1
      <2> HIDE DEF g1, g2, h1, h2
      <2>2. Pt(-g1, -g2) = Pt(g1, g2) /\ Pt(-h1, -h2) = Pt(h1, h2)
            BY <2>1, PtSet
      <2> QED
          BY <2>2 DEF g1, g2, h1, h2
<1>7. CASE w = 1
      <2>1. BasisMinus(w, c, x, y) = Pt(x - a, y - b) /\ MinusBasis(w, c, x, y) = Pt(a - x, b - y)
            BY <1>4, <1>5, <1>7
      <2> QED
          BY <1>7, <2>1, Zenon DEF WithSign, a, b
<1>8. CASE w = -1
      <2>0. w # 1
            BY <1>8
      <2>1. BasisMinus(w, c, x, y) = Pt(x + a, y + b)
            BY <1>4, <1>5, <1>8
      <2>2. MinusBasis(w, c, x, y) = Pt(x + a, y + b) /\ Pt(a - x, b - y) = Pt(x - a, y - b)
            BY <1>4, <1>5, <1>6, <1>8
      <2> QED
          BY <1>2, <1>3, <2>0, <2>1, <2>2, Zenon DEF WithSign, a, b
<1> QED
    BY <1>7, <1>8

\* The logarithms when every inversion had a unit, and that it has below the
\* full torsion.
LEMMA AllInverted ==
    ASSUME QueryOK, query.e \in 2..(F - 1), NEW w \in {1, -1}, Settled(diffs, w)
    PROVE  Inverted
<1> DEFINE p1 == query.pq[1][1]
           p2 == query.pq[1][2]
           q1 == query.pq[2][1]
           q2 == query.pq[2][2]
           a == Lx(query.r)
           b == Ly(query.r)
           f == Lx(query.s)
           g == Ly(query.s)
<1>1. /\ p1 \in Int /\ p2 \in Int /\ q1 \in Int /\ q2 \in Int
      /\ a \in Int /\ b \in Int /\ f \in Int /\ g \in Int
      BY QueryShape, CoordinateRange DEF IsCoordinate
<1>2. /\ PointP = Pt(p1, p2) /\ PointQ = Pt(q1, q2) /\ PointR = Pt(a, b) /\ PointS = Pt(f, g)
      /\ DiffPQ = Pt(p1 - q1, p2 - q2)
      BY QueryPoints
<1>3. OddVector(p1, p2) /\ OddVector(q1, q2) /\ OddVector(-q1, -q2) /\ OddVector(q1 - p1, q2 - p2)
      BY OddBasis
<1>4. Even(a) /\ Even(b) /\ Even(f) /\ Even(g) /\ ~(Null(2 * a) /\ Null(2 * b)) /\ ~(Null(2 * f) /\ Null(2 * g))
      <2>1. query.e < F /\ query.e >= 2
            BY Constants
      <2> QED
          BY <2>1, LiftEven, LiftOrder DEF IsCoordinate
<1>5. /\ diffs.pmr = Pt(p1 - w * a, p2 - w * b)
      /\ diffs.rmq = Pt(w * a - q1, w * b - q2)
      /\ diffs.pms = Pt(p1 - w * f, p2 - w * g)
      /\ diffs.smq = Pt(w * f - q1, w * g - q2)
      BY Zenon DEF Settled, BasisMinus, MinusBasis
<1> HIDE DEF p1, p2, q1, q2, a, b, f, g
<1>6. ASSUME NEW x \in Int, NEW y \in Int, OddVector(x, y)
      PROVE  ~IsZero(Pt(x, y)) /\ Pt(x, y) # Origin
      <2>1. ~HasZeroCoordinate(Pt(x, y))
            BY <1>6, OddIsRegular
      <2> QED
          BY <2>1 DEF HasZeroCoordinate, IsZero
<1>7. ASSUME NEW x \in Int, NEW y \in Int, ~(Null(2 * x) /\ Null(2 * y))
      PROVE  ~IsZero(Pt(x, y))
      <2> SUFFICES ASSUME IsZero(Pt(x, y)) PROVE FALSE
          OBVIOUS
      <2>1. Pt(x, y) = Identity
            BY PtProper DEF IsZero
      <2>2. Identity = Pt(0, 0) /\ 0 \in Int
            <3>1. Vec(0, 0) = <<0, 0>>
                  BY OrderLarge DEF Vec
            <3> QED
                BY <3>1 DEF Identity, Pt
      <2>3. (Null(x - 0) /\ Null(y - 0)) \/ (Null(x + 0) /\ Null(y + 0))
            BY <2>1, <2>2, PtEqual, Zenon
      <2>4. x - 0 = x /\ y - 0 = y /\ x + 0 = x /\ y + 0 = y
            OBVIOUS
      <2>5. Null(x) /\ Null(y)
            BY <2>3, <2>4, Zenon
      <2>6. ASSUME NEW n \in Int, Null(n) PROVE Null(2 * n)
            <3>1. PICK k \in Int : n = k * Order
                  BY <2>6 DEF Null
            <3>2. 2 * n = (2 * k) * Order /\ 2 * k \in Int
                  BY <3>1, OrderLarge
            <3> QED
                BY <3>2 DEF Null
      <2> QED
          BY <1>7, <2>5, <2>6
<1>8. ASSUME NEW x \in Int, NEW y \in Int, NEW u \in Int, NEW v \in Int, OddVector(x, y), Even(u), Even(v)
      PROVE  ~IsZero(Pt(x + u, y + v))
      <2>1. PICK k \in Int : u = 2 * k
            BY <1>8 DEF Even
      <2>2. PICK j \in Int : v = 2 * j
            BY <1>8 DEF Even
      <2>3. OddVector(x + 2 * k, y + 2 * j)
            BY <1>8, OddShift
      <2>4. x + 2 * k \in Int /\ y + 2 * j \in Int
            OBVIOUS
      <2> QED
          BY <1>6, <2>1, <2>2, <2>3, <2>4
<1>9. ASSUME NEW u \in Int, NEW v \in Int, Even(u), Even(v)
      PROVE  ~IsZero(Pt(p1 - w * u, p2 - w * v)) /\ ~IsZero(Pt(w * u - q1, w * v - q2))
      <2>1. PICK k \in Int : u = 2 * k
            BY <1>9 DEF Even
      <2>2. PICK j \in Int : v = 2 * j
            BY <1>9 DEF Even
      <2> DEFINE y1 == -(w * k)
                 y2 == -(w * j)
                 z1 == w * k
                 z2 == w * j
      <2>3. /\ y1 \in Int /\ y2 \in Int /\ z1 \in Int /\ z2 \in Int
            /\ p1 - w * u = p1 + 2 * y1 /\ p2 - w * v = p2 + 2 * y2
            /\ w * u - q1 = (-q1) + 2 * z1 /\ w * v - q2 = (-q2) + 2 * z2
            /\ -q1 \in Int /\ -q2 \in Int
            BY <1>1, <2>1, <2>2
      <2> HIDE DEF y1, y2, z1, z2
      <2>4. Even(2 * y1) /\ Even(2 * y2) /\ Even(2 * z1) /\ Even(2 * z2)
            BY <2>3 DEF Even
      <2>5. 2 * y1 \in Int /\ 2 * y2 \in Int /\ 2 * z1 \in Int /\ 2 * z2 \in Int
            BY <2>3
      <2>6. ~IsZero(Pt(p1 + 2 * y1, p2 + 2 * y2))
            BY <1>1, <1>3, <1>8, <2>4, <2>5
      <2>7. ~IsZero(Pt((-q1) + 2 * z1, (-q2) + 2 * z2))
            BY <1>3, <1>8, <2>3, <2>4, <2>5
      <2> QED
          BY <2>3, <2>6, <2>7, Zenon
<1>10. ~IsZero(diffs.pmr) /\ ~IsZero(diffs.rmq) /\ ~IsZero(diffs.pms) /\ ~IsZero(diffs.smq)
       BY <1>1, <1>4, <1>5, <1>9
<1>11. ~IsZero(PointP) /\ ~IsZero(PointQ) /\ PointP # Origin /\ PointQ # Origin
       BY <1>1, <1>2, <1>3, <1>6
<1>12. ~IsZero(PointR) /\ ~IsZero(PointS)
       BY <1>1, <1>2, <1>4, <1>7
<1>13. ~IsZero(DiffPQ)
       <2>1. q1 - p1 \in Int /\ q2 - p2 \in Int /\ p1 - q1 = -(q1 - p1) /\ p2 - q2 = -(q2 - p2)
             BY <1>1
       <2>2. Pt(-(q1 - p1), -(q2 - p2)) = Pt(q1 - p1, q2 - p2)
             BY <2>1, PtSet
       <2>3. ~IsZero(Pt(q1 - p1, q2 - p2))
             BY <1>3, <1>6, <2>1
       <2> QED
           BY <1>2, <2>1, <2>2, <2>3, Zenon
<1> QED
    BY <1>10, <1>11, <1>12, <1>13 DEF Inverted

LEMMA PairingsGive ==
    ASSUME QueryOK, NEW w \in {1, -1}, Settled(diffs, w), Inverted
    PROVE  LET p == query.pq[1]
               q == query.pq[2]
               r == Lift(query.pq, query.e, query.r)
               s == Lift(query.pq, query.e, query.s)
           IN  /\ Signed(r, q, diffs.rmq, query.r[1]) = WithSign(w, query.r[1])
               /\ Signed(p, r, diffs.pmr, query.r[2]) = WithSign(w, query.r[2])
               /\ Signed(s, q, diffs.smq, query.s[1]) = WithSign(w, query.s[1])
               /\ Signed(p, s, diffs.pms, query.s[2]) = WithSign(w, query.s[2])
<1> DEFINE p1 == query.pq[1][1]
           p2 == query.pq[1][2]
           q1 == query.pq[2][1]
           q2 == query.pq[2][2]
           a == Lx(query.r)
           b == Ly(query.r)
           f == Lx(query.s)
           g == Ly(query.s)
           p == query.pq[1]
           q == query.pq[2]
           r == Lift(query.pq, query.e, query.r)
           s == Lift(query.pq, query.e, query.s)
<1>1. /\ p1 \in Int /\ p2 \in Int /\ q1 \in Int /\ q2 \in Int
      /\ a \in Int /\ b \in Int /\ f \in Int /\ g \in Int
      BY QueryShape, CoordinateRange DEF IsCoordinate
<1>2. p = Vec(p1, p2) /\ q = Vec(q1, q2) /\ r = Vec(a, b) /\ s = Vec(f, g)
      BY QueryShape, VecSelf, LiftIs DEF IsCoordinate
<1>3. OddVector(p1, p2) /\ OddVector(q1, q2)
      BY OddBasis
<1>4. \A d \in {diffs.rmq, diffs.pms, diffs.smq} : d # Undefined
      BY DEF Inverted, IsZero
<1>5. /\ diffs.pmr = BasisMinus(w, query.r, p1, p2) /\ diffs.rmq = MinusBasis(w, query.r, q1, q2)
      /\ diffs.pms = BasisMinus(w, query.s, p1, p2) /\ diffs.smq = MinusBasis(w, query.s, q1, q2)
      BY <1>4 DEF Settled
<1>6. /\ query.r[1] \in 0..(2 ^ query.e - 1) /\ query.r[2] \in 0..(2 ^ query.e - 1)
      /\ query.s[1] \in 0..(2 ^ query.e - 1) /\ query.s[2] \in 0..(2 ^ query.e - 1)
      BY QueryShape
<1>7. /\ (IF BasisMinus(w, query.r, p1, p2) = Pt(p1 - a, p2 - b) THEN query.r[2] ELSE (-query.r[2]) % 2 ^ query.e)
           = WithSign(w, query.r[2])
      /\ (IF MinusBasis(w, query.r, q1, q2) = Pt(a - q1, b - q2) THEN query.r[1] ELSE (-query.r[1]) % 2 ^ query.e)
           = WithSign(w, query.r[1])
      <2>1. IsCoordinate(query.r)
            BY DEF IsCoordinate
      <2> QED
          BY <1>1, <1>3, <1>6, <2>1, SignedIs
<1>8. /\ (IF BasisMinus(w, query.s, p1, p2) = Pt(p1 - f, p2 - g) THEN query.s[2] ELSE (-query.s[2]) % 2 ^ query.e)
           = WithSign(w, query.s[2])
      /\ (IF MinusBasis(w, query.s, q1, q2) = Pt(f - q1, g - q2) THEN query.s[1] ELSE (-query.s[1]) % 2 ^ query.e)
           = WithSign(w, query.s[1])
      <2>1. IsCoordinate(query.s)
            BY DEF IsCoordinate
      <2> QED
          BY <1>1, <1>3, <1>6, <2>1, SignedIs
<1> HIDE DEF p1, p2, q1, q2, a, b, f, g, p, q, r, s
<1>9. Point(Minus(r, q)) = Pt(a - q1, b - q2) /\ Point(Minus(p, r)) = Pt(p1 - a, p2 - b)
      <2>1. Point(Minus(Vec(a, b), Vec(q1, q2))) = Pt(a - q1, b - q2)
            BY <1>1, VecMinus
      <2>2. Point(Minus(Vec(p1, p2), Vec(a, b))) = Pt(p1 - a, p2 - b)
            BY <1>1, VecMinus
      <2> QED
          BY <1>2, <2>1, <2>2, Zenon
<1>10. Point(Minus(s, q)) = Pt(f - q1, g - q2) /\ Point(Minus(p, s)) = Pt(p1 - f, p2 - g)
      <2>1. Point(Minus(Vec(f, g), Vec(q1, q2))) = Pt(f - q1, g - q2)
            BY <1>1, VecMinus
      <2>2. Point(Minus(Vec(p1, p2), Vec(f, g))) = Pt(p1 - f, p2 - g)
            BY <1>1, VecMinus
      <2> QED
          BY <1>2, <2>1, <2>2, Zenon
<1>11. /\ Signed(r, q, diffs.rmq, query.r[1]) = WithSign(w, query.r[1])
       /\ Signed(p, r, diffs.pmr, query.r[2]) = WithSign(w, query.r[2])
       BY <1>5, <1>7, <1>9, Zenon DEF Signed
<1>12. /\ Signed(s, q, diffs.smq, query.s[1]) = WithSign(w, query.s[1])
       /\ Signed(p, s, diffs.pms, query.s[2]) = WithSign(w, query.s[2])
       BY <1>5, <1>8, <1>10, Zenon DEF Signed
<1> QED
    BY <1>11, <1>12 DEF p, q, r, s

LEMMA TateInitRight == TateInit => TateInv
BY DEF TateInit, TateInv, QueryOK, TateRight

LEMMA DifferencesKeep == TateInv /\ Differences => TateInv'
<1> SUFFICES ASSUME TateInv, Differences PROVE TateInv'
    OBVIOUS
<1>1. /\ stage' = "differences" /\ query' = query /\ answer' = answer
      BY DEF Differences
<1>2. PICK pmr \in Sums(PointP, PointR) :
          LET rmq == Shared(PointR, PointQ, pmr, DiffPQ)
              pms == Shared(PointP, PointS, pmr, DiffRS)
          IN  diffs' = [pmr |-> pmr, pms |-> pms, rmq |-> rmq, smq |-> Shared(PointS, PointQ, pms, DiffPQ)]
      BY DEF Differences
<1> DEFINE rmq == Shared(PointR, PointQ, pmr, DiffPQ)
           pms == Shared(PointP, PointS, pmr, DiffRS)
           smq == Shared(PointS, PointQ, pms, DiffPQ)
<1>3. diffs' = [pmr |-> pmr, pms |-> pms, rmq |-> rmq, smq |-> smq]
      BY <1>2
<1>4. QueryOK
      BY DEF TateInv
<1>5. \E w \in {1, -1} : Settled([pmr |-> pmr, pms |-> pms, rmq |-> rmq, smq |-> smq], w)
      BY <1>4, DifferencesSettle
<1>6. PICK w \in {1, -1} : Settled([pmr |-> pmr, pms |-> pms, rmq |-> rmq, smq |-> smq], w)
      BY <1>5
<1>7. Settled(diffs, w)'
      <2>1. Settled(diffs', w)
            BY <1>3, <1>6
      <2> QED
          BY <1>1, <2>1 DEF Settled, BasisMinus, MinusBasis, Lx, Ly, Scale
<1>8. QueryOK'
      BY <1>1, <1>4 DEF QueryOK
<1>9. TateRight'
      BY <1>1 DEF TateRight
<1> QED
    BY <1>1, <1>7, <1>8, <1>9 DEF TateInv

LEMMA PairingsKeep == TateInv /\ Pairings => TateInv'
<1> SUFFICES ASSUME TateInv, Pairings PROVE TateInv'
    OBVIOUS
<1>1. stage = "differences" /\ stage' = "done" /\ query' = query /\ diffs' = diffs
      BY DEF Pairings
<1>2. QueryOK
      BY DEF TateInv
<1>3. PICK w \in {1, -1} : Settled(diffs, w)
      BY <1>1 DEF TateInv
<1> DEFINE p == query.pq[1]
           q == query.pq[2]
           r == Lift(query.pq, query.e, query.r)
           s == Lift(query.pq, query.e, query.s)
           m == <<query.r[1], query.r[2], query.s[1], query.s[2]>>
<1>4. answer' = IF ~Inverted THEN Garbage
                ELSE <<Signed(r, q, diffs.rmq, query.r[1]), Signed(p, r, diffs.pmr, query.r[2]),
                       Signed(s, q, diffs.smq, query.s[1]), Signed(p, s, diffs.pms, query.s[2])>>
      BY DEF Pairings
<1>5. \/ answer' = m
      \/ answer' = [i \in 1..4 |-> (-m[i]) % 2 ^ query.e]
      \/ answer' = Garbage /\ query.e \in {1, F}
      <2>1. CASE ~Inverted
            <3>1. query.e \in 1..F
                  BY <1>2, QueryShape
            <3>2. query.e \in {1, F}
                  BY <1>2, <1>3, <2>1, <3>1, AllInverted, Constants
            <3> QED
                BY <1>4, <2>1, <3>2
      <2>2. CASE Inverted
            <3>1. /\ Signed(r, q, diffs.rmq, query.r[1]) = WithSign(w, query.r[1])
                  /\ Signed(p, r, diffs.pmr, query.r[2]) = WithSign(w, query.r[2])
                  /\ Signed(s, q, diffs.smq, query.s[1]) = WithSign(w, query.s[1])
                  /\ Signed(p, s, diffs.pms, query.s[2]) = WithSign(w, query.s[2])
                  BY <1>2, <1>3, <2>2, PairingsGive
            <3>2. answer' = <<WithSign(w, query.r[1]), WithSign(w, query.r[2]),
                              WithSign(w, query.s[1]), WithSign(w, query.s[2])>>
                  BY <1>4, <2>2, <3>1
            <3>3. CASE w = 1
                  <4>1. \A n : WithSign(w, n) = n
                        BY <3>3 DEF WithSign
                  <4> QED
                      BY <3>2, <4>1
            <3>4. CASE w = -1
                  <4>1. \A n : WithSign(w, n) = (-n) % 2 ^ query.e
                        <5>1. w # 1
                              BY <3>4
                        <5> QED
                            BY <5>1, Zenon DEF WithSign
                  <4>2. answer' = <<(-m[1]) % 2 ^ query.e, (-m[2]) % 2 ^ query.e,
                                    (-m[3]) % 2 ^ query.e, (-m[4]) % 2 ^ query.e>>
                        BY <3>2, <4>1
                  <4> DEFINE neg(n) == (-n) % 2 ^ query.e
                  <4>3. answer' = <<neg(m[1]), neg(m[2]), neg(m[3]), neg(m[4])>>
                        BY <4>2
                  <4> HIDE DEF neg, m
                  <4>4. <<neg(m[1]), neg(m[2]), neg(m[3]), neg(m[4])>> = [i \in 1..4 |-> neg(m[i])]
                        OBVIOUS
                  <4>5. answer' = [i \in 1..4 |-> neg(m[i])]
                        BY <4>3, <4>4
                  <4> QED
                      BY <4>5 DEF neg
            <3> QED
                BY <3>3, <3>4
      <2> QED
          BY <2>1, <2>2
<1>6. TateRight'
      BY <1>1, <1>5 DEF TateRight
<1>7. QueryOK'
      BY <1>1, <1>2 DEF QueryOK
<1> QED
    BY <1>1, <1>6, <1>7 DEF TateInv

\* Whatever the torsion, the basis, the subgroup and the points in it, and
\* whichever root decides between P - R and P + R: the four logarithms are
\* those of (R, S) or those of (-R, -S), and they are only lost in the
\* 2-torsion and in the full torsion.
THEOREM TateLogarithmsCorrect == TateSpec => []TateRight
<1>1. TateInit => TateInv
      BY TateInitRight
<1>2. TateInv /\ [TateNext]_tvars => TateInv'
      <2> SUFFICES ASSUME TateInv, [TateNext]_tvars PROVE TateInv'
          OBVIOUS
      <2>1. CASE UNCHANGED tvars
            BY <2>1 DEF tvars, TateInv, QueryOK, TateRight, Settled, BasisMinus, MinusBasis, Lx, Ly, Scale
      <2> QED
          BY <2>1, DifferencesKeep, PairingsKeep DEF TateNext
<1>3. TateInv => TateRight
      BY DEF TateInv
<1> QED
    BY <1>1, <1>2, <1>3, PTL DEF TateSpec

---------------------------------------------------------------------------
(* Discrete logarithms: powers of two and the roots of unity.              *)

LEMMA OrderTo ==
    ASSUME NEW e \in Exponents, NEW k \in 0..e
    PROVE  2 ^ k \in Nat \ {0} /\ (k < e => 2 ^ (k + 1) = 2 * 2 ^ k)
<1>1. e \in Nat \ {0}
      BY LogAssumption
<1>2. \A i \in 0..(e - 1) : 2 ^ i \in Nat /\ 2 ^ (i + 1) = 2 * 2 ^ i
      BY LogPowers
<1> DEFINE S == {i \in Nat : i <= e => 2 ^ i \in Nat \ {0}}
<1>3. 0 \in S
      BY LogPowers
<1>4. ASSUME NEW i \in Nat, i \in S PROVE i + 1 \in S
      <2> SUFFICES ASSUME i + 1 <= e PROVE 2 ^ (i + 1) \in Nat \ {0}
          OBVIOUS
      <2>1. i \in 0..(e - 1) /\ 2 ^ i \in Nat \ {0}
            BY <1>1, <1>4
      <2>2. 2 ^ (i + 1) = 2 * 2 ^ i
            BY <1>2, <2>1
      <2> QED
          BY <2>1, <2>2
<1>5. Nat \subseteq S
      <2> HIDE DEF S
      <2> QED
          BY <1>3, <1>4, SimpleInduction
<1>6. 2 ^ k \in Nat \ {0}
      BY <1>1, <1>5
<1>7. k < e => 2 ^ (k + 1) = 2 * 2 ^ k
      BY <1>1, <1>2
<1> QED
    BY <1>6, <1>7

LEMMA OrderToSum ==
    ASSUME NEW e \in Exponents, NEW i \in Nat, NEW j \in Nat, i + j <= e
    PROVE  2 ^ (i + j) = 2 ^ i * 2 ^ j /\ 2 ^ i \in Nat \ {0} /\ 2 ^ j \in Nat \ {0}
<1>1. e \in Nat \ {0}
      BY LogAssumption
<1>2. i \in 0..e /\ j \in 0..e
      BY <1>1
<1>3. 2 ^ i \in Nat \ {0} /\ 2 ^ j \in Nat \ {0}
      BY <1>2, OrderTo
<1> DEFINE S == {m \in Nat : i + m <= e => 2 ^ (i + m) = 2 ^ i * 2 ^ m}
<1>4. 0 \in S
      <2>1. i + 0 = i /\ 2 ^ 0 = 1
            BY LogPowers
      <2> QED
          BY <1>3, <2>1
<1>5. ASSUME NEW m \in Nat, m \in S PROVE m + 1 \in S
      <2> SUFFICES ASSUME i + (m + 1) <= e PROVE 2 ^ (i + (m + 1)) = 2 ^ i * 2 ^ (m + 1)
          OBVIOUS
      <2>1. i + m \in 0..e /\ i + m < e /\ m \in 0..e /\ m < e /\ i + (m + 1) = (i + m) + 1
            BY <1>1
      <2>2. 2 ^ (i + m) = 2 ^ i * 2 ^ m
            BY <1>5, <2>1
      <2>3. 2 ^ ((i + m) + 1) = 2 * 2 ^ (i + m) /\ 2 ^ (m + 1) = 2 * 2 ^ m /\ 2 ^ m \in Nat
            BY <2>1, OrderTo
      <2> DEFINE a == 2 ^ i
                 b == 2 ^ m
      <2>4. a \in Nat /\ b \in Nat /\ 2 ^ (i + (m + 1)) = 2 * (a * b) /\ 2 ^ (m + 1) = 2 * b
            BY <1>3, <2>1, <2>2, <2>3
      <2> HIDE DEF a, b
      <2>5. 2 * (a * b) = a * (2 * b)
            BY <2>4
      <2> QED
          BY <2>4, <2>5 DEF a
<1>6. Nat \subseteq S
      <2> HIDE DEF S
      <2> QED
          BY <1>4, <1>5, SimpleInduction
<1> QED
    BY <1>3, <1>6

LEMMA ElementsAre ==
    ASSUME NEW e \in Exponents
    PROVE  /\ 2 ^ e \in Nat \ {0} /\ Zero \notin Roots(e) /\ One \in Roots(e) /\ Roots(e) \subseteq Nat
           /\ Zero # One /\ One = 0 /\ Zero \in Elements(e)
           /\ \A x : x \in Elements(e) <=> x = Zero \/ x \in Roots(e)
           /\ \A x \in Roots(e) : x \in Nat /\ x < 2 ^ e /\ x # Zero /\ x % 2 ^ e = x
<1>1. e \in Nat \ {0} /\ e \in 0..e
      BY LogAssumption
<1> DEFINE m == 2 ^ e
<1>2. m \in Nat \ {0}
      BY <1>1, OrderTo
<1>3. Roots(e) = 0..(m - 1)
      BY DEF Roots
<1> HIDE DEF m
<1>4. \A x \in 0..(m - 1) : x \in Nat /\ x < m /\ x # Zero /\ x % m = x
      <2> TAKE x \in 0..(m - 1)
      <2>1. x % m = x
            BY <1>2
      <2> QED
          BY <1>2, <2>1 DEF Zero
<1> QED
    BY <1>2, <1>3, <1>4 DEF Elements, Zero, One, m

LEMMA MulIs ==
    ASSUME NEW e \in Exponents, NEW x \in Elements(e), NEW y \in Elements(e)
    PROVE  /\ Mul(e, x, y) \in Elements(e)
           /\ x = Zero \/ y = Zero => Mul(e, x, y) = Zero
           /\ x # Zero /\ y # Zero => Mul(e, x, y) = (x + y) % 2 ^ e /\ Mul(e, x, y) \in Roots(e)
<1> DEFINE m == 2 ^ e
<1>1. m \in Nat \ {0} /\ Roots(e) = 0..(m - 1)
      BY ElementsAre DEF Roots
<1>2. CASE x = Zero \/ y = Zero
      BY <1>2, ElementsAre DEF Mul
<1>3. CASE ~(x = Zero \/ y = Zero)
      <2>1. x \in Int /\ y \in Int
            BY <1>3, ElementsAre
      <2>2. Mul(e, x, y) = (x + y) % m
            BY <1>3 DEF Mul
      <2> HIDE DEF m
      <2>3. (x + y) % m \in 0..(m - 1)
            BY <1>1, <2>1
      <2>4. Mul(e, x, y) \in Roots(e)
            BY <1>1, <2>2, <2>3
      <2> QED
          BY <1>3, <2>2, <2>4, ElementsAre DEF m
<1> QED
    BY <1>2, <1>3

LEMMA PowIs ==
    ASSUME NEW e \in Exponents, NEW x \in Elements(e), NEW n \in Nat
    PROVE  /\ Pow(e, x, n) \in Elements(e)
           /\ x # Zero => Pow(e, x, n) = (x * n) % 2 ^ e /\ Pow(e, x, n) \in Roots(e)
           /\ x = Zero /\ n # 0 => Pow(e, x, n) = Zero
           /\ n = 0 => Pow(e, x, n) = One
<1> DEFINE m == 2 ^ e
<1>1. m \in Nat \ {0} /\ Roots(e) = 0..(m - 1)
      BY ElementsAre DEF Roots
<1>2. CASE n = 0
      <2>1. Pow(e, x, n) = One
            BY <1>2 DEF Pow
      <2>2. x # Zero => (x * n) % m = One
            <3> HAVE x # Zero
            <3>1. x \in Nat
                  BY ElementsAre
            <3>2. x * n = 0
                  BY <1>2, <3>1
            <3>3. 0 % m = 0
                  <4> HIDE DEF m
                  <4> QED
                      BY <1>1
            <3> QED
                BY <3>2, <3>3 DEF One
      <2> QED
          BY <1>2, <2>1, <2>2, ElementsAre
<1>3. CASE n # 0
      <2>1. CASE x = Zero
            BY <1>3, <2>1, ElementsAre DEF Pow
      <2>2. CASE x # Zero
            <3>1. x \in Int
                  BY <2>2, ElementsAre
            <3>2. Pow(e, x, n) = (x * n) % m
                  BY <1>3, <2>2 DEF Pow
            <3> DEFINE c == x * n
            <3>3. c \in Int
                  BY <3>1
            <3> HIDE DEF m, c
            <3>4. c % m \in 0..(m - 1)
                  BY <1>1, <3>3
            <3>5. Pow(e, x, n) \in Roots(e)
                  BY <1>1, <3>2, <3>4 DEF c
            <3> QED
                BY <1>3, <2>2, <3>2, <3>5, ElementsAre DEF m
      <2> QED
          BY <2>1, <2>2
<1> QED
    BY <1>2, <1>3

\* What is taken into a root modulo its order.
LEMMA PowSame ==
    ASSUME NEW e \in Exponents, NEW x \in Roots(e), NEW n \in Nat
    PROVE  Pow(e, x, n) \in Roots(e) /\ Same(Pow(e, x, n), x * n, 2 ^ e)
<1>1. x # Zero /\ x \in Elements(e) /\ x \in Nat /\ 2 ^ e \in Nat \ {0}
      BY ElementsAre
<1>2. Pow(e, x, n) = (x * n) % 2 ^ e /\ Pow(e, x, n) \in Roots(e)
      BY <1>1, PowIs
<1> DEFINE c == x * n
           m == 2 ^ e
<1>3. c \in Int /\ m \in Nat \ {0} /\ Pow(e, x, n) = c % m
      BY <1>1, <1>2
<1> HIDE DEF c, m
<1>4. Same(c % m, c, m)
      BY <1>3, SameResidue
<1> QED
    BY <1>2, <1>3, <1>4 DEF c, m

LEMMA MulSame ==
    ASSUME NEW e \in Exponents, NEW x \in Roots(e), NEW y \in Roots(e)
    PROVE  Mul(e, x, y) \in Roots(e) /\ Same(Mul(e, x, y), x + y, 2 ^ e)
<1>1. x # Zero /\ x \in Elements(e) /\ x \in Nat /\ 2 ^ e \in Nat \ {0} /\ y # Zero /\ y \in Elements(e) /\ y \in Nat
      BY ElementsAre
<1>2. Mul(e, x, y) = (x + y) % 2 ^ e /\ Mul(e, x, y) \in Roots(e)
      BY <1>1, MulIs
<1> DEFINE c == x + y
           m == 2 ^ e
<1>3. c \in Int /\ m \in Nat \ {0} /\ Mul(e, x, y) = c % m
      BY <1>1, <1>2
<1> HIDE DEF c, m
<1>4. Same(c % m, c, m)
      BY <1>3, SameResidue
<1> QED
    BY <1>2, <1>3, <1>4 DEF c, m

\* Two roots with the same residue are the same.
LEMMA RootsEqual ==
    ASSUME NEW e \in Exponents, NEW x \in Roots(e), NEW y \in Roots(e), Same(x, y, 2 ^ e)
    PROVE  x = y
BY ElementsAre DEF Same

LEMMA PowTwice ==
    ASSUME NEW e \in Exponents, NEW x \in Elements(e), NEW m \in Nat, NEW n \in Nat \ {0}
    PROVE  Pow(e, Pow(e, x, m), n) = Pow(e, x, m * n)
<1>0. m * n \in Nat /\ n \in Nat /\ One \in Elements(e) /\ (m = 0 => m * n = 0) /\ (m # 0 => m * n # 0)
      BY ElementsAre
<1>1. CASE x = Zero
      <2>1. CASE m = 0
            <3>1. Pow(e, x, m) = One /\ Pow(e, x, m * n) = One
                  BY <1>0, <2>1, PowIs
            <3>2. Pow(e, One, n) = One
                  <4>1. One # Zero
                        BY ElementsAre
                  <4>2. Pow(e, One, n) = (One * n) % 2 ^ e
                        BY <1>0, <4>1, PowIs
                  <4>3. One * n = One /\ One % 2 ^ e = One
                        BY <1>0, ElementsAre
                  <4> QED
                      BY <4>2, <4>3
            <3> QED
                BY <3>1, <3>2
      <2>2. CASE m # 0
            <3>1. Pow(e, x, m) = Zero
                  BY <1>1, <2>2, PowIs
            <3>2. Pow(e, x, m * n) = Zero
                  BY <1>0, <1>1, <2>2, PowIs
            <3>3. Pow(e, Zero, n) = Zero
                  BY <1>0, ElementsAre, PowIs
            <3> QED
                BY <3>1, <3>2, <3>3
      <2> QED
          BY <2>1, <2>2
<1>2. CASE x # Zero
      <2> DEFINE M == 2 ^ e
                 y == Pow(e, x, m)
                 z == Pow(e, y, n)
                 w == Pow(e, x, m * n)
      <2>1. x \in Roots(e) /\ M \in Nat \ {0} /\ Roots(e) \subseteq Nat
            BY <1>2, ElementsAre
      <2>2. y \in Roots(e) /\ Same(y, x * m, M)
            BY <2>1, PowSame
      <2>3. z \in Roots(e) /\ Same(z, y * n, M)
            BY <1>0, <2>2, PowSame
      <2>4. w \in Roots(e) /\ Same(w, x * (m * n), M)
            BY <1>0, <2>1, PowSame
      <2> HIDE DEF M, y, z, w
      <2>5. y \in Int /\ x * m \in Int /\ n \in Int /\ Same(n, n, M)
            BY <2>1, <2>2 DEF Same
      <2>6. Same(y * n, (x * m) * n, M)
            BY <2>1, <2>2, <2>5, SameMul
      <2>7. (x * m) * n = x * (m * n)
            BY <2>1
      <2>8. Same(z, w, M)
            BY <2>3, <2>4, <2>6, <2>7, Zenon DEF Same
      <2>9. z = w
            BY <2>3, <2>4, <2>8, RootsEqual DEF M
      <2> QED
          BY <2>9 DEF z, w, y
<1> QED
    BY <1>1, <1>2

LEMMA MulOne ==
    ASSUME NEW e \in Exponents, NEW x \in Elements(e)
    PROVE  Mul(e, x, One) = x
<1>1. One \in Elements(e) /\ One # Zero /\ One = 0
      BY ElementsAre
<1>2. CASE x = Zero
      BY <1>1, <1>2, MulIs
<1>3. CASE x # Zero
      <2>1. Mul(e, x, One) = (x + One) % 2 ^ e
            BY <1>1, <1>3, MulIs
      <2>2. x + One = x /\ x % 2 ^ e = x
            BY <1>1, <1>3, ElementsAre
      <2> QED
          BY <2>1, <2>2
<1> QED
    BY <1>2, <1>3

\* The powers of the lower half and of the higher one make one power.
LEMMA MulPow ==
    ASSUME NEW e \in Exponents, NEW f \in Elements(e), NEW h \in Elements(e),
           NEW a \in Nat, NEW b \in Nat, NEW n \in Nat \ {0}
    PROVE  Mul(e, Mul(e, f, Pow(e, h, a)), Pow(e, Pow(e, h, n), b)) = Mul(e, f, Pow(e, h, b * n + a))
<1> DEFINE M == 2 ^ e
           p == Pow(e, h, a)
           q == Pow(e, Pow(e, h, n), b)
           c == b * n + a
           t == Pow(e, h, c)
<1>0. c \in Nat /\ n \in Nat /\ One \in Elements(e) /\ One # Zero /\ Zero \in Elements(e) /\ M \in Nat \ {0} /\ Roots(e) \subseteq Nat
      BY ElementsAre
<1>1. p \in Elements(e) /\ q \in Elements(e) /\ t \in Elements(e)
      <2>1. Pow(e, h, n) \in Elements(e)
            BY <1>0, PowIs
      <2> HIDE DEF c
      <2> QED
          BY <1>0, <2>1, PowIs
<1>2. CASE h = Zero
      <2>1. Pow(e, h, n) = Zero
            BY <1>0, <1>2, PowIs
      <2>2. (b = 0 => q = One) /\ (b # 0 => q = Zero)
            BY <1>0, <2>1, PowIs
      <2>3. (a = 0 => p = One) /\ (a # 0 => p = Zero)
            BY <1>2, PowIs
      <2>4. (c = 0 => t = One) /\ (c # 0 => t = Zero)
            <3> HIDE DEF c
            <3> QED
                BY <1>0, <1>2, PowIs
      <2>5. c = 0 <=> a = 0 /\ b = 0
            <3>1. b * n \in Nat /\ (b = 0 <=> b * n = 0)
                  OBVIOUS
            <3> QED
                BY <3>1
      <2> HIDE DEF p, q, t, c
      <2>6. Mul(e, f, One) = f
            BY MulOne
      <2>7. Mul(e, f, Zero) = Zero /\ Mul(e, Zero, One) = Zero
            BY <1>0, MulIs
      <2>8. Mul(e, Mul(e, f, p), Zero) = Zero
            <3>1. Mul(e, f, p) \in Elements(e)
                  BY <1>1, MulIs
            <3> QED
                BY <1>0, <3>1, MulIs
      <2>9. Mul(e, Mul(e, f, p), q) = Mul(e, f, t)
            <3>1. CASE a = 0 /\ b = 0
                  BY <2>2, <2>3, <2>4, <2>5, <2>6, <3>1
            <3>2. CASE a # 0 /\ b = 0
                  BY <2>2, <2>3, <2>4, <2>5, <2>7, <3>2
            <3>3. CASE b # 0
                  BY <2>2, <2>4, <2>5, <2>7, <2>8, <3>3
            <3> QED
                BY <3>1, <3>2, <3>3
      <2> QED
          BY <2>9 DEF p, q, t, c
<1>3. CASE h # Zero /\ f = Zero
      <2> HIDE DEF p, q, t
      <2>1. Mul(e, f, p) = Zero /\ Mul(e, f, t) = Zero
            BY <1>1, <1>3, MulIs
      <2>2. Mul(e, Zero, q) = Zero
            BY <1>0, <1>1, MulIs
      <2>3. Mul(e, Mul(e, f, p), q) = Mul(e, f, t)
            BY <2>1, <2>2
      <2> QED
          BY <2>3 DEF p, q, t
<1>4. CASE h # Zero /\ f # Zero
      <2> DEFINE r == Pow(e, h, n)
                 u == Mul(e, f, p)
                 v == Mul(e, u, q)
                 w == Mul(e, f, t)
      <2>1. h \in Roots(e) /\ f \in Roots(e)
            BY <1>4, ElementsAre
      <2>2. p \in Roots(e) /\ Same(p, h * a, M)
            BY <2>1, PowSame
      <2>3. r \in Roots(e) /\ Same(r, h * n, M)
            BY <1>0, <2>1, PowSame
      <2>4. q \in Roots(e) /\ Same(q, r * b, M)
            BY <2>3, PowSame
      <2>5. t \in Roots(e) /\ Same(t, h * c, M)
            <3> HIDE DEF c
            <3> QED
                BY <1>0, <2>1, PowSame
      <2> HIDE DEF p, q, r, t
      <2>6. u \in Roots(e) /\ Same(u, f + p, M)
            BY <2>1, <2>2, MulSame
      <2>7. v \in Roots(e) /\ Same(v, u + q, M)
            <3> HIDE DEF u
            <3> QED
                BY <2>4, <2>6, MulSame
      <2>8. w \in Roots(e) /\ Same(w, f + t, M)
            BY <2>1, <2>5, MulSame
      <2> HIDE DEF M, u, v, w
      <2>9. /\ f \in Int /\ h \in Int /\ p \in Int /\ q \in Int /\ r \in Int /\ t \in Int /\ u \in Int
            /\ h * a \in Int /\ h * n \in Int /\ h * c \in Int /\ r * b \in Int /\ (h * n) * b \in Int /\ b \in Int
            /\ f + p \in Int /\ f + h * a \in Int
            BY <1>0, <2>1, <2>2, <2>3, <2>4, <2>5, <2>6
      <2>10. Same(f, f, M) /\ Same(b, b, M)
             BY DEF Same
      <2>11. Same(r * b, (h * n) * b, M)
             BY <1>0, <2>3, <2>9, <2>10, SameMul
      <2>12. Same(q, (h * n) * b, M)
             BY <2>4, <2>11, SameTrans
      <2>13. Same(f + p, f + h * a, M)
             BY <1>0, <2>2, <2>9, <2>10, SameAdd
      <2>14. Same(u, f + h * a, M)
             BY <2>6, <2>13, SameTrans
      <2>15. Same(u + q, (f + h * a) + (h * n) * b, M)
             BY <1>0, <2>9, <2>12, <2>14, SameAdd
      <2>16. Same(f + t, f + h * c, M)
             BY <1>0, <2>5, <2>9, <2>10, SameAdd
      <2>17. (f + h * a) + (h * n) * b = f + h * c
             <3>1. h * c = (h * n) * b + h * a
                   BY <1>0, <2>9
             <3> HIDE DEF c
             <3> QED
                 BY <2>9, <3>1
      <2>18. Same(v, w, M)
             BY <2>7, <2>8, <2>15, <2>16, <2>17, Zenon DEF Same
      <2>19. v = w
             BY <2>7, <2>8, <2>18, RootsEqual DEF M
      <2> QED
          BY <2>19 DEF v, u, p, q, r, w, t
<1> QED
    BY <1>2, <1>3, <1>4

\* The 2^len-th power of x is 1.
Dies(e, x, len) == (x * 2 ^ len) % 2 ^ e = 0

\* What len bits tell of f and of h = 1/g of order 2^len at most; a is what
\* they make, if they say so (ok).
Tells(e, len, f, h, ok, a) ==
    (h # Zero => Dies(e, h, len)) =>
        /\ f # Zero /\ h # Zero =>
              /\ ok => (f + a * h) % 2 ^ e = 0
              /\ Dies(e, f, len) /\ (~Dies(e, h, len - 1) \/ f = One) => ok
              /\ ok /\ Dies(e, h, len - 1) => f = One /\ a = 0
        /\ f # Zero /\ h = Zero => (ok <=> f = One) /\ (ok => a = 0)
        /\ f = Zero /\ h # Zero => ~ok
        /\ f = Zero /\ h = Zero => a >= 1

LEMMA DiesAfter ==
    ASSUME NEW e \in Exponents, NEW x \in Roots(e), NEW i \in Nat, NEW j \in Nat, i + j <= e
    PROVE  Dies(e, Pow(e, x, 2 ^ i), j) <=> Dies(e, x, i + j)
<1> DEFINE M == 2 ^ e
           y == Pow(e, x, 2 ^ i)
           p == 2 ^ i
           q == 2 ^ j
<1>1. 2 ^ (i + j) = p * q /\ p \in Nat \ {0} /\ q \in Nat \ {0} /\ M \in Nat \ {0} /\ Roots(e) \subseteq Nat
      BY OrderToSum, ElementsAre
<1>2. y \in Roots(e) /\ Same(y, x * p, M)
      BY <1>1, PowSame
<1> HIDE DEF y, p, q, M
<1>3. y \in Int /\ x * p \in Int /\ q \in Int /\ Same(q, q, M)
      BY <1>1, <1>2 DEF Same
<1>4. Same(y * q, (x * p) * q, M)
      BY <1>1, <1>2, <1>3, SameMul
<1>5. (x * p) * q = x * (p * q)
      BY <1>1
<1>6. (y * q) % M = (x * (p * q)) % M
      BY <1>4, <1>5 DEF Same
<1>7. Dies(e, y, j) <=> (y * q) % M = 0
      BY DEF Dies, M, q
<1>8. Dies(e, x, i + j) <=> (x * (p * q)) % M = 0
      BY <1>1 DEF Dies, M
<1> QED
    BY <1>6, <1>7, <1>8 DEF y, p

LEMMA DiesSame ==
    ASSUME NEW e \in Exponents, NEW x \in Int, NEW y \in Int, Same(x, y, 2 ^ e), NEW i \in 0..e
    PROVE  Dies(e, x, i) <=> Dies(e, y, i)
<1> DEFINE M == 2 ^ e
           p == 2 ^ i
<1>1. p \in Int /\ M \in Nat \ {0} /\ Same(p, p, M)
      BY OrderTo, ElementsAre DEF Same
<1> HIDE DEF M, p
<1>2. Same(x * p, y * p, M)
      BY <1>1, SameMul DEF M
<1> QED
    BY <1>2 DEF Same, Dies, M, p

LEMMA OneDies ==
    ASSUME NEW e \in Exponents, NEW i \in 0..e
    PROVE  Dies(e, One, i)
<1>1. One * 2 ^ i = 0
      BY OrderTo DEF One
<1>2. 0 % 2 ^ e = 0
      BY ElementsAre
<1> QED
    BY <1>1, <1>2 DEF Dies

LEMMA RootDies ==
    ASSUME NEW e \in Exponents, NEW x \in Roots(e)
    PROVE  Dies(e, x, e)
<1> DEFINE M == 2 ^ e
<1>1. M \in Nat \ {0} /\ x \in Nat
      BY ElementsAre
<1> HIDE DEF M
<1>2. x * M = M * x + 0 /\ x * M \in Int /\ x \in Int /\ 0 \in 0..(M - 1)
      BY <1>1
<1>3. (x * M) % M = 0
      BY <1>1, <1>2, Residue
<1> QED
    BY <1>3 DEF Dies, M

\* Two halves of the bits.
LEMMA TellsHalves ==
    ASSUME NEW e \in Exponents, NEW f \in Elements(e), NEW h \in Elements(e),
           NEW r \in Nat \ {0}, NEW l \in Nat \ {0}, r + l <= e,
           NEW ok1 \in BOOLEAN, NEW ok2 \in BOOLEAN, NEW a1 \in Nat, NEW a2 \in Nat,
           Tells(e, r, Pow(e, f, 2 ^ l), Pow(e, h, 2 ^ l), ok1, a1),
           Tells(e, l, Mul(e, f, Pow(e, h, a1)), Pow(e, h, 2 ^ r), ok2, a2)
    PROVE  Tells(e, r + l, f, h, ok1 /\ ok2, a2 * 2 ^ r + a1)
<1> DEFINE M  == 2 ^ e
           f1 == Pow(e, f, 2 ^ l)
           h1 == Pow(e, h, 2 ^ l)
           p1 == Pow(e, h, a1)
           f2 == Mul(e, f, p1)
           h2 == Pow(e, h, 2 ^ r)
           a  == a2 * 2 ^ r + a1
           ok == ok1 /\ ok2
<1>0. /\ 2 ^ r \in Nat \ {0} /\ 2 ^ l \in Nat \ {0} /\ M \in Nat \ {0} /\ Roots(e) \subseteq Nat
      /\ e \in Nat /\ r - 1 \in Nat /\ l - 1 \in Nat /\ r \in 0..e /\ l \in 0..e
      /\ r + l = l + r /\ (r + l) - 1 = l + (r - 1) /\ (r + l) - 1 = r + (l - 1) /\ (r + l) - 1 \in 0..e /\ r + l \in 0..e
      /\ l - 1 \in 0..e /\ r - 1 \in 0..e /\ l + (r - 1) <= e /\ r + (l - 1) <= e /\ l + r <= e
      BY LogAssumption, OrderToSum, ElementsAre
<1>1. Tells(e, r, f1, h1, ok1, a1) /\ Tells(e, l, f2, h2, ok2, a2)
      OBVIOUS
<1>2. a \in Nat /\ (a1 >= 1 => a >= 1)
      <2> DEFINE p == 2 ^ r
      <2>1. p \in Nat
            BY <1>0
      <2> HIDE DEF p
      <2>2. a2 * p \in Nat
            BY <2>1
      <2> QED
          BY <2>2 DEF p
<1>3. CASE f = Zero
      <2>1. f1 = Zero
            BY <1>0, <1>3, PowIs
      <2>2. CASE h = Zero
            <3>1. h1 = Zero
                  BY <1>0, <2>2, PowIs
            <3> HIDE DEF f1, h1, f2, h2, a, ok
            <3>2. a1 >= 1
                  BY <1>1, <2>1, <3>1 DEF Tells
            <3>3. Tells(e, r + l, f, h, ok, a)
                  BY <1>2, <1>3, <2>2, <3>2 DEF Tells
            <3> QED
                BY <3>3 DEF ok, a
      <2>3. CASE h # Zero
            <3>1. h1 \in Roots(e) /\ h \in Roots(e) /\ h1 # Zero
                  BY <1>0, <2>3, PowIs, ElementsAre
            <3>2. Dies(e, h1, r) <=> Dies(e, h, l + r)
                  BY <1>0, <3>1, DiesAfter
            <3>3. ok => ok1
                  OBVIOUS
            <3> HIDE DEF f1, h1, f2, h2, a, ok
            <3>4. Dies(e, h, r + l) => ~ok1
                  BY <1>0, <1>1, <2>1, <3>1, <3>2 DEF Tells
            <3>5. Tells(e, r + l, f, h, ok, a)
                  BY <1>3, <2>3, <3>3, <3>4 DEF Tells
            <3> QED
                BY <3>5 DEF ok, a
      <2> QED
          BY <2>2, <2>3
<1>4. CASE f # Zero /\ h = Zero
      <2>1. h1 = Zero /\ h2 = Zero /\ f1 # Zero /\ (f = One => f1 = One) /\ f \in Roots(e)
            <3>1. h1 = Zero /\ h2 = Zero /\ f \in Roots(e)
                  BY <1>0, <1>4, PowIs, ElementsAre
            <3>2. f1 \in Roots(e) /\ f1 = (f * 2 ^ l) % M
                  BY <1>0, <1>4, PowIs
            <3>3. f = One => f1 = One
                  <4> HAVE f = One
                  <4>1. f * 2 ^ l = 0
                        BY <1>0 DEF One
                  <4>2. 0 % M = 0
                        <5> HIDE DEF M
                        <5> QED
                            BY <1>0
                  <4> QED
                      BY <3>2, <4>1, <4>2 DEF One
            <3> QED
                BY <3>1, <3>2, <3>3, ElementsAre
      <2>2. a1 = 0 => f2 = f
            <3> HAVE a1 = 0
            <3>1. p1 = One
                  BY PowIs
            <3> QED
                BY <3>1, MulOne
      <2>3. a1 = 0 /\ a2 = 0 => a = 0
            <3> HAVE a1 = 0 /\ a2 = 0
            <3>1. 0 * 2 ^ r = 0
                  BY <1>0
            <3> QED
                BY <3>1
      <2>4. ok <=> ok1 /\ ok2
            OBVIOUS
      <2> HIDE DEF f1, h1, f2, h2, a, ok
      <2>5. (ok1 <=> f1 = One) /\ (ok1 => a1 = 0)
            BY <1>1, <2>1 DEF Tells
      <2>6. f2 # Zero => (ok2 <=> f2 = One) /\ (ok2 => a2 = 0)
            BY <1>1, <2>1 DEF Tells
      <2>7. (ok <=> f = One) /\ (ok => a = 0)
            <3>1. ok => f = One /\ a = 0
                  BY <1>4, <2>2, <2>3, <2>4, <2>5, <2>6
            <3>2. f = One => ok
                  BY <1>4, <2>1, <2>2, <2>4, <2>5, <2>6
            <3> QED
                BY <3>1, <3>2
      <2>8. Tells(e, r + l, f, h, ok, a)
            BY <1>4, <2>7 DEF Tells
      <2> QED
          BY <2>8 DEF ok, a
<1>5. CASE f # Zero /\ h # Zero
      <2>1. f \in Roots(e) /\ h \in Roots(e)
            BY <1>5, ElementsAre
      <2>2. f1 \in Roots(e) /\ Same(f1, f * 2 ^ l, M) /\ h1 \in Roots(e) /\ Same(h1, h * 2 ^ l, M)
            BY <1>0, <2>1, PowSame
      <2>3. p1 \in Roots(e) /\ Same(p1, h * a1, M) /\ h2 \in Roots(e) /\ Same(h2, h * 2 ^ r, M)
            BY <1>0, <2>1, PowSame
      <2>4. f2 \in Roots(e) /\ Same(f2, f + p1, M)
            <3> HIDE DEF p1
            <3> QED
                BY <2>1, <2>3, MulSame
      <2>5. /\ Dies(e, h1, r) <=> Dies(e, h, r + l)
            /\ Dies(e, h2, l) <=> Dies(e, h, r + l)
            /\ Dies(e, h1, r - 1) <=> Dies(e, h, (r + l) - 1)
            /\ Dies(e, h2, l - 1) <=> Dies(e, h, (r + l) - 1)
            /\ Dies(e, f1, r) <=> Dies(e, f, r + l)
            BY <1>0, <2>1, DiesAfter
      <2>6. f1 # Zero /\ h1 # Zero /\ f2 # Zero /\ h2 # Zero
            BY <2>2, <2>3, <2>4, ElementsAre
      <2>7. a1 = 0 => f2 = f
            <3> HAVE a1 = 0
            <3>1. p1 = One
                  BY PowIs
            <3> QED
                BY <3>1, MulOne
      <2>8. f = One => f1 = One
            <3> HAVE f = One
            <3>1. f1 = (f * 2 ^ l) % M
                  BY <1>0, <1>5, PowIs
            <3>2. f * 2 ^ l = 0
                  BY <1>0 DEF One
            <3>3. 0 % M = 0
                  <4> HIDE DEF M
                  <4> QED
                      BY <1>0
            <3> QED
                BY <3>1, <3>2, <3>3 DEF One
      <2>9. a1 = 0 /\ a2 = 0 => a = 0
            <3> HAVE a1 = 0 /\ a2 = 0
            <3>1. 0 * 2 ^ r = 0
                  BY <1>0
            <3> QED
                BY <3>1
      <2>10. ok <=> ok1 /\ ok2
             OBVIOUS
      <2> DEFINE p == 2 ^ l
                 q == 2 ^ r
      <2>11. Same(f1, f * p, M) /\ Same(h1, h * p, M) /\ Same(h2, h * q, M) /\ a = a2 * q + a1 /\ p \in Nat /\ q \in Nat
             BY <1>0, <2>2, <2>3
      <2> HIDE DEF p, q
      <2>12. Same(f2, f + h * a1, M)
             <3> HIDE DEF f1, h1, p1, f2, h2, M
             <3>1. Same(f, f, M) /\ f \in Int /\ p1 \in Int /\ h * a1 \in Int
                   BY <1>0, <2>1, <2>3 DEF Same
             <3>2. Same(f + p1, f + h * a1, M)
                   BY <1>0, <2>3, <3>1, SameAdd
             <3> QED
                 BY <2>4, <3>2, SameTrans
      <2>13. (f2 + a2 * h2) % M = (f + a * h) % M
             <3> HIDE DEF f1, h1, p1, f2, h2, M, a
             <3>1. /\ f \in Int /\ f2 \in Int /\ h2 \in Int /\ a2 \in Int /\ h * q \in Int /\ h * a1 \in Int
                   /\ f + h * a1 \in Int /\ a2 * h2 \in Int /\ a2 * (h * q) \in Int /\ Same(a2, a2, M)
                   BY <1>0, <2>1, <2>3, <2>4, <2>11 DEF Same
             <3>2. Same(a2 * h2, a2 * (h * q), M)
                   BY <1>0, <2>11, <3>1, SameMul
             <3>3. Same(f2 + a2 * h2, (f + h * a1) + a2 * (h * q), M)
                   BY <1>0, <2>12, <3>1, <3>2, SameAdd
             <3>4. (f + h * a1) + a2 * (h * q) = f + a * h
                   <4>1. h \in Nat
                         BY <1>0, <2>1
                   <4>2. a * h = a2 * (h * q) + h * a1
                         BY <2>11, <4>1
                   <4> QED
                       BY <3>1, <4>2
             <3> QED
                 BY <3>3, <3>4 DEF Same
      <2>14. (f1 + a1 * h1) % M = 0 => Dies(e, f2, l)
             <3> HIDE DEF f1, h1, p1, f2, h2, M, a
             <3> HAVE (f1 + a1 * h1) % M = 0
             <3>0. /\ f \in Int /\ f1 \in Int /\ f2 \in Int /\ h1 \in Int /\ h \in Int /\ a1 \in Int /\ p \in Int
                   /\ Same(a1, a1, M) /\ Same(p, p, M)
                   BY <1>0, <2>1, <2>2, <2>4, <2>11 DEF Same
             <3>1. /\ h * p \in Int /\ h * a1 \in Int /\ f + h * a1 \in Int /\ a1 * h1 \in Int /\ f * p \in Int
                   /\ a1 * (h * p) \in Int
                   BY <3>0
             <3>2. Same(a1 * h1, a1 * (h * p), M)
                   BY <1>0, <2>11, <3>0, <3>1, SameMul
             <3>3. Same(f1 + a1 * h1, f * p + a1 * (h * p), M)
                   BY <1>0, <2>11, <3>0, <3>1, <3>2, SameAdd
             <3>4. Same(f2 * p, (f + h * a1) * p, M)
                   BY <1>0, <2>12, <3>0, <3>1, SameMul
             <3>5. (f + h * a1) * p = f * p + a1 * (h * p)
                   BY <3>0, <3>1
             <3>6. (f2 * p) % M = 0
                   BY <3>3, <3>4, <3>5 DEF Same
             <3> QED
                 BY <3>6 DEF Dies, p, M
      <2>15. One # Zero
             BY ElementsAre
      <2> HIDE DEF f1, h1, p1, f2, h2, M, a, ok
      <2> SUFFICES ASSUME Dies(e, h, r + l)
                   PROVE  /\ ok => (f + a * h) % M = 0
                          /\ Dies(e, f, r + l) /\ (~Dies(e, h, (r + l) - 1) \/ f = One) => ok
                          /\ ok /\ Dies(e, h, (r + l) - 1) => f = One /\ a = 0
          BY <1>5 DEF Tells, M, ok, a
      <2>16. /\ ok1 => (f1 + a1 * h1) % M = 0
             /\ Dies(e, f1, r) /\ (~Dies(e, h1, r - 1) \/ f1 = One) => ok1
             /\ ok1 /\ Dies(e, h1, r - 1) => f1 = One /\ a1 = 0
             BY <1>1, <2>5, <2>6 DEF Tells, M
      <2>17. /\ ok2 => (f2 + a2 * h2) % M = 0
             /\ Dies(e, f2, l) /\ (~Dies(e, h2, l - 1) \/ f2 = One) => ok2
             /\ ok2 /\ Dies(e, h2, l - 1) => f2 = One /\ a2 = 0
             BY <1>1, <2>5, <2>6 DEF Tells, M
      <2>18. ok => (f + a * h) % M = 0
             BY <2>10, <2>13, <2>17
      <2>19. Dies(e, f, r + l) /\ (~Dies(e, h, (r + l) - 1) \/ f = One) => ok
             <3> HAVE Dies(e, f, r + l) /\ (~Dies(e, h, (r + l) - 1) \/ f = One)
             <3>1. ok1
                   BY <2>5, <2>8, <2>16
             <3>2. Dies(e, f2, l)
                   BY <2>14, <2>16, <3>1
             <3>3. CASE ~Dies(e, h, (r + l) - 1)
                   BY <2>5, <2>10, <2>17, <3>1, <3>2, <3>3
             <3>4. CASE f = One /\ Dies(e, h, (r + l) - 1)
                   <4>1. a1 = 0
                         BY <2>5, <2>16, <3>1, <3>4
                   <4>2. f2 = One
                         BY <2>7, <3>4, <4>1
                   <4> QED
                       BY <2>10, <2>17, <3>1, <3>2, <4>2
             <3> QED
                 BY <3>3, <3>4
      <2>20. ok /\ Dies(e, h, (r + l) - 1) => f = One /\ a = 0
             <3> HAVE ok /\ Dies(e, h, (r + l) - 1)
             <3>1. a1 = 0 /\ f2 = One /\ a2 = 0
                   BY <2>5, <2>10, <2>16, <2>17
             <3> QED
                 BY <2>7, <2>9, <3>1
      <2> QED
          BY <2>18, <2>19, <2>20
<1> QED
    BY <1>3, <1>4, <1>5

---------------------------------------------------------------------------
(* fp2_dlog_2e.                                                            *)

AnswersOf(e) == [ok : BOOLEAN, a : Nat, fs : Seq(Elements(e)), gs : Seq(Elements(e)), depth : Nat]

\* What is left of the stacks s, for the callers, when len bits r.a are found
\* on their top; lv are the levels.
Leaves(e, len, s, r, lv) ==
    /\ r.a <= 2 ^ len - 1
    /\ Len(r.fs) = Len(s[1]) /\ Len(r.gs) = Len(s[1])
    /\ \A i \in 1..(Len(s[1]) - 1) : /\ r.fs[i] = Mul(e, s[1][i], Pow(e, s[2][i], r.a))
                                     /\ r.gs[i] = Pow(e, s[2][i], 2 ^ len)
    /\ r.depth <= Len(s[1]) - 1 + lv[len]

Finds(e, len, s, r, lv) ==
    r \in AnswersOf(e) /\ Leaves(e, len, s, r, lv) /\ Tells(e, len, Last(s[1]), Last(s[2]), r.ok, r.a)

LevelsOf(e, lv) ==
    /\ \A n \in 1..e : lv[n] \in Nat \ {0}
    /\ lv[1] = 1 /\ \A n \in 2..e : lv[n] = 1 + lv[n \div 2]
    /\ \A i, j \in 1..e : i <= j => lv[i] <= lv[j]

LEMMA PowOne ==
    ASSUME NEW e \in Exponents, NEW x \in Elements(e)
    PROVE  Pow(e, x, 1) = x
<1>1. CASE x = Zero
      BY <1>1, PowIs
<1>2. CASE x # Zero
      <2>1. Pow(e, x, 1) = (x * 1) % 2 ^ e
            BY <1>2, PowIs
      <2>2. x * 1 = x /\ x % 2 ^ e = x
            BY <1>2, ElementsAre
      <2> QED
          BY <2>1, <2>2
<1> QED
    BY <1>1, <1>2

LEMMA SmallOrders ==
    ASSUME NEW e \in Exponents
    PROVE  2 ^ 0 = 1 /\ 2 ^ 1 = 2
<1>1. 0 \in 0..(e - 1)
      BY LogAssumption
<1>2. 2 ^ (0 + 1) = 2 * 2 ^ 0 /\ 2 ^ 0 = 1 /\ 0 + 1 = 1
      BY <1>1, LogPowers
<1> QED
    BY <1>2

\* A double that is 0 modulo M.
LEMMA HalfOrder ==
    ASSUME NEW M \in Nat \ {0}, NEW x \in 0..(M - 1), (x * 2) % M = 0, x # 0
    PROVE  2 * x = M
<1> DEFINE q == (x * 2) \div M
<1>1. x * 2 = M * q + ((x * 2) % M) /\ q \in Int
      <2>1. x * 2 \in Int
            OBVIOUS
      <2> QED
          BY <2>1, DivMod
<1> HIDE DEF q
<1>2. x * 2 = M * q
      <2>1. M * q \in Int
            BY <1>1
      <2> QED
          BY <1>1, <2>1
<1>3. q >= 1
      <2> SUFFICES ASSUME q <= 0 PROVE FALSE
          BY <1>1
      <2>1. M * q <= 0
            BY <1>1
      <2> QED
          BY <1>2, <2>1
<1>4. q <= 1
      <2> SUFFICES ASSUME q >= 2 PROVE FALSE
          BY <1>1
      <2>1. M * q >= M * 2
            BY <1>1
      <2> QED
          BY <1>2, <2>1
<1>5. q = 1
      BY <1>1, <1>3, <1>4
<1> QED
    BY <1>2, <1>5

LEMMA TellsOne ==
    ASSUME NEW e \in Exponents, NEW f \in Elements(e), NEW h \in Elements(e), NEW bit \in {0, 1},
           bit = 0 <=> f = One
    PROVE  Tells(e, 1, f, h, bit = 0 \/ f = h, bit)
<1> DEFINE M == 2 ^ e
           ok == bit = 0 \/ f = h
<1>0. One = 0 /\ Zero # One /\ M \in Nat \ {0} /\ Roots(e) = 0..(M - 1) /\ 1 - 1 = 0
      BY ElementsAre DEF Roots
<1>1. CASE f = Zero \/ h = Zero
      <2>1. ok <=> f = One \/ f = h
            OBVIOUS
      <2> HIDE DEF ok
      <2>2. Tells(e, 1, f, h, ok, bit)
            BY <1>0, <1>1, <2>1 DEF Tells
      <2> QED
          BY <2>2 DEF ok
<1>2. CASE f # Zero /\ h # Zero
      <2>1. f \in 0..(M - 1) /\ h \in 0..(M - 1)
            BY <1>0, <1>2, ElementsAre
      <2>2. /\ Dies(e, h, 1) <=> (h * 2) % M = 0
            /\ Dies(e, f, 1) <=> (f * 2) % M = 0
            /\ Dies(e, h, 0) <=> (h * 1) % M = 0
            BY SmallOrders DEF Dies
      <2>3. f = One => ok /\ bit = 0
            OBVIOUS
      <2>4. ok => f = One \/ (f = h /\ bit = 1)
            OBVIOUS
      <2>5. f = h => ok
            OBVIOUS
      <2> HIDE DEF ok, M
      <2>6. h * 1 = h /\ h % M = h
            BY <1>0, <2>1
      <2>7. ASSUME (h * 2) % M = 0
            PROVE  /\ ok => (f + bit * h) % M = 0
                   /\ (f * 2) % M = 0 /\ (h # 0 \/ f = One) => ok
                   /\ ok /\ h = 0 => f = One /\ bit = 0
            <3>1. ok => (f + bit * h) % M = 0
                  <4>1. CASE f = One
                        <5>1. bit * h = 0 /\ f = 0
                              BY <1>0, <2>1, <2>3, <4>1
                        <5>2. 0 % M = 0
                              BY <1>0
                        <5> QED
                            BY <5>1, <5>2
                  <4>2. CASE f = h /\ bit = 1
                        <5>1. f + bit * h = h * 2
                              BY <2>1, <4>2
                        <5> QED
                            BY <2>7, <5>1
                  <4> QED
                      BY <2>4, <4>1, <4>2
            <3>2. (f * 2) % M = 0 /\ (h # 0 \/ f = One) => ok
                  <4> HAVE (f * 2) % M = 0 /\ (h # 0 \/ f = One)
                  <4>1. CASE f = One
                        BY <2>3, <4>1
                  <4>2. CASE f # One
                        <5>1. 2 * f = M
                              BY <1>0, <2>1, <4>2, HalfOrder
                        <5>2. 2 * h = M
                              BY <1>0, <2>1, <2>7, <4>2, HalfOrder
                        <5>3. f = h
                              BY <2>1, <5>1, <5>2
                        <5> QED
                            BY <2>5, <5>3
                  <4> QED
                      BY <4>1, <4>2
            <3>3. ok /\ h = 0 => f = One /\ bit = 0
                  BY <1>0, <2>3, <2>4
            <3> QED
                BY <3>1, <3>2, <3>3
      <2>8. Tells(e, 1, f, h, ok, bit)
            <3>1. Dies(e, h, 1 - 1) <=> h = 0
                  BY <1>0, <2>2, <2>6
            <3> SUFFICES ASSUME Dies(e, h, 1)
                         PROVE  /\ ok => (f + bit * h) % M = 0
                                /\ Dies(e, f, 1) /\ (~Dies(e, h, 1 - 1) \/ f = One) => ok
                                /\ ok /\ Dies(e, h, 1 - 1) => f = One /\ bit = 0
                BY <1>2 DEF Tells, M
            <3> QED
                BY <2>2, <2>7, <3>1
      <2> QED
          BY <2>8 DEF ok
<1> QED
    BY <1>1, <1>2

LEMMA StackIs ==
    ASSUME NEW e \in Exponents, NEW s \in Stacks(e)
    PROVE  /\ s = <<s[1], s[2]>> /\ s[1] \in Seq(Elements(e)) /\ s[2] \in Seq(Elements(e))
           /\ Len(s[1]) \in Nat \ {0} /\ Len(s[2]) = Len(s[1])
           /\ \A i \in 1..Len(s[1]) : s[1][i] \in Elements(e) /\ s[2][i] \in Elements(e)
           /\ Last(s[1]) = s[1][Len(s[1])] /\ Last(s[2]) = s[2][Len(s[1])]
           /\ Last(s[1]) \in Elements(e) /\ Last(s[2]) \in Elements(e)
<1>1. s \in Seq(Elements(e)) \X Seq(Elements(e)) /\ Len(s[1]) = Len(s[2]) /\ s[1] # <<>>
      BY DEF Stacks
<1>2. s = <<s[1], s[2]>> /\ s[1] \in Seq(Elements(e)) /\ s[2] \in Seq(Elements(e))
      BY <1>1
<1>3. Len(s[1]) \in Nat \ {0}
      BY <1>1, <1>2, EmptySeq
<1>4. \A i \in 1..Len(s[1]) : s[1][i] \in Elements(e) /\ s[2][i] \in Elements(e)
      BY <1>1, <1>2, ElementOfSeq
<1> DEFINE m == Len(s[1])
<1>5. m \in 1..m
      BY <1>3
<1> QED
    BY <1>1, <1>2, <1>3, <1>4, <1>5 DEF Last

LEMMA StackIf ==
    ASSUME NEW e \in Exponents, NEW a \in Seq(Elements(e)), NEW b \in Seq(Elements(e)),
           NEW m \in Nat \ {0}, Len(a) = m, Len(b) = m
    PROVE  <<a, b>> \in Stacks(e)
<1>1. a # <<>>
      BY EmptySeq
<1> QED
    BY <1>1 DEF Stacks

LEMMA SequenceIf ==
    ASSUME NEW S, NEW m \in Nat, NEW q \in [1..m -> S]
    PROVE  q \in Seq(S) /\ Len(q) = m
OBVIOUS

LEMMA LeafFinds ==
    ASSUME NEW e \in Exponents, NEW lv, LevelsOf(e, lv), NEW s \in Stacks(e)
    PROVE  Finds(e, 1, s, LogLeaf(e, s[1], s[2]), lv)
<1> DEFINE fs == s[1]
           gs == s[2]
           m  == Len(fs)
           f  == Last(fs)
           h  == Last(gs)
           bit == IF f = One THEN 0 ELSE 1
           nf == [i \in DOMAIN fs |-> IF i < Len(fs) /\ bit = 1 THEN Mul(e, fs[i], gs[i]) ELSE fs[i]]
           ng == [i \in DOMAIN gs |-> IF i < Len(gs) THEN Pow(e, gs[i], 2) ELSE gs[i]]
           r  == LogLeaf(e, fs, gs)
<1>1. /\ fs \in Seq(Elements(e)) /\ gs \in Seq(Elements(e)) /\ m \in Nat \ {0} /\ Len(gs) = m
      /\ \A i \in 1..m : fs[i] \in Elements(e) /\ gs[i] \in Elements(e)
      /\ f \in Elements(e) /\ h \in Elements(e)
      BY StackIs
<1>2. r = [ok |-> bit = 0 \/ f = h, a |-> bit, fs |-> nf, gs |-> ng, depth |-> m]
      BY DEF LogLeaf, Lowered
<1>3. bit \in {0, 1} /\ (bit = 0 <=> f = One)
      OBVIOUS
<1>4. DOMAIN fs = 1..m /\ DOMAIN gs = 1..m
      BY <1>1, LenProperties
<1> HIDE DEF fs, gs, m, f, h, bit
<1>5. \A i \in 1..m : nf[i] = (IF i < m /\ bit = 1 THEN Mul(e, fs[i], gs[i]) ELSE fs[i])
                   /\ ng[i] = (IF i < m THEN Pow(e, gs[i], 2) ELSE gs[i])
      BY <1>1, <1>4 DEF m
<1>6. nf \in [1..m -> Elements(e)] /\ ng \in [1..m -> Elements(e)]
      <2>1. \A i \in 1..m : nf[i] \in Elements(e) /\ ng[i] \in Elements(e)
            <3> TAKE i \in 1..m
            <3>1. Mul(e, fs[i], gs[i]) \in Elements(e) /\ Pow(e, gs[i], 2) \in Elements(e)
                  BY <1>1, MulIs, PowIs
            <3> HIDE DEF nf, ng
            <3> QED
                BY <1>1, <1>5, <3>1
      <2>2. DOMAIN nf = 1..m /\ DOMAIN ng = 1..m /\ nf = [i \in DOMAIN nf |-> nf[i]] /\ ng = [i \in DOMAIN ng |-> ng[i]]
            BY <1>4
      <2> HIDE DEF nf, ng
      <2> QED
          BY <2>1, <2>2
<1>7. nf \in Seq(Elements(e)) /\ ng \in Seq(Elements(e)) /\ Len(nf) = m /\ Len(ng) = m
      <2> HIDE DEF nf, ng
      <2> QED
          BY <1>1, <1>6, SequenceIf
<1> HIDE DEF nf, ng, r
<1>8. r \in AnswersOf(e)
      BY <1>1, <1>2, <1>3, <1>7 DEF AnswersOf
<1>9. r.a = bit /\ r.fs = nf /\ r.gs = ng /\ r.depth = m /\ r.ok = (bit = 0 \/ f = h)
      BY <1>2
<1>10. Leaves(e, 1, s, r, lv)
       <2>1. r.a <= 2 ^ 1 - 1
             BY <1>3, <1>9, SmallOrders
       <2>2. ASSUME NEW i \in 1..(m - 1)
             PROVE  nf[i] = Mul(e, fs[i], Pow(e, gs[i], bit)) /\ ng[i] = Pow(e, gs[i], 2 ^ 1)
             <3>1. i \in 1..m /\ i < m
                   BY <1>1
             <3>2. fs[i] \in Elements(e) /\ gs[i] \in Elements(e)
                   BY <1>1, <3>1
             <3>3. ng[i] = Pow(e, gs[i], 2 ^ 1)
                   BY <1>5, <3>1, SmallOrders
             <3>4. CASE bit = 1
                   BY <1>5, <3>1, <3>2, <3>4, PowOne
             <3>5. CASE bit = 0
                   <4>1. Pow(e, gs[i], bit) = One
                         BY <3>2, <3>5, PowIs
                   <4>2. Mul(e, fs[i], One) = fs[i]
                         BY <3>2, MulOne
                   <4> QED
                       BY <1>5, <3>1, <3>3, <3>5, <4>1, <4>2
             <3> QED
                 BY <1>3, <3>3, <3>4, <3>5
       <2>3. r.depth <= m - 1 + lv[1]
             BY <1>1, <1>9 DEF LevelsOf
       <2> QED
           BY <1>7, <1>9, <2>1, <2>2, <2>3 DEF Leaves, fs, gs, m
<1>11. Tells(e, 1, f, h, r.ok, r.a)
       BY <1>1, <1>3, <1>9, TellsOne
<1> QED
    BY <1>8, <1>10, <1>11 DEF Finds, f, h, fs, gs, r

\* The routine for len bits, as the recursion holds it.
Solved(e, len, lv) == {Fn \in [Stacks(e) -> AnswersOf(e)] : \A s \in Stacks(e) : Finds(e, len, s, Fn[s], lv)}

LEMMA FrontOfStack ==
    ASSUME NEW S, NEW s \in Seq(S), NEW m \in Nat \ {0}, Len(s) = m + 1
    PROVE  /\ Front(s) \in Seq(S) /\ Len(Front(s)) = m
           /\ \A j \in 1..m : Front(s)[j] = s[j]
<1>1. \A j \in 1..(m + 1) : s[j] \in S
      BY ElementOfSeq
<1>2. Front(s) = [j \in 1..m |-> s[j]]
      BY DEF Front
<1> QED
    BY <1>1, <1>2

\* A split solves what its halves solve.
LEMMA SplitFinds ==
    ASSUME NEW e \in Exponents, NEW lv, LevelsOf(e, lv), NEW n \in 2..e,
           NEW low \in Solved(e, n \div 2, lv), NEW high \in Solved(e, n - n \div 2, lv), NEW s \in Stacks(e)
    PROVE  Finds(e, n, s, LogSplit(e, n, low, high, s[1], s[2]), lv)
<1> DEFINE fs == s[1]
           gs == s[2]
           m  == Len(fs)
           f  == Last(fs)
           h  == Last(gs)
           r  == n \div 2
           l  == n - r
           af == Append(fs, Pow(e, f, 2 ^ l))
           ag == Append(gs, Pow(e, h, 2 ^ l))
           lo == low[<<af, ag>>]
           bf == Front(lo.fs)
           bg == Front(lo.gs)
           hi == high[<<bf, bg>>]
           d  == IF lo.depth > hi.depth THEN lo.depth ELSE hi.depth
           a  == hi.a * 2 ^ r + lo.a
           ans == LogSplit(e, n, low, high, fs, gs)
<1>0. ans = [ok |-> lo.ok /\ hi.ok, a |-> a, fs |-> hi.fs, gs |-> hi.gs, depth |-> d]
      BY DEF LogSplit
<1>1. /\ fs \in Seq(Elements(e)) /\ gs \in Seq(Elements(e)) /\ m \in Nat \ {0} /\ Len(gs) = m
      /\ \A i \in 1..m : fs[i] \in Elements(e) /\ gs[i] \in Elements(e)
      /\ f \in Elements(e) /\ h \in Elements(e) /\ f = fs[m] /\ h = gs[m]
      BY StackIs
<1>2. /\ r \in Nat \ {0} /\ l \in Nat \ {0} /\ r + l = n /\ r + l <= e /\ n \in Nat
      /\ r \in 1..e /\ l \in 1..e /\ n \in 1..e /\ r <= n /\ l <= n
      <2>1. e \in Nat
            BY LogAssumption
      <2>2. n \in Nat /\ n >= 2 /\ n <= e
            BY <2>1
      <2>3. r \in 1..(n - 1) /\ l \in 1..(n - 1)
            BY <2>2, HalvesLess
      <2> QED
          BY <2>1, <2>2, <2>3
<1>3. 2 ^ n = 2 ^ r * 2 ^ l /\ 2 ^ r \in Nat \ {0} /\ 2 ^ l \in Nat \ {0}
      BY <1>2, OrderToSum
<1>4. low \in [Stacks(e) -> AnswersOf(e)] /\ \A t \in Stacks(e) : Finds(e, r, t, low[t], lv)
      BY DEF Solved
<1>5. high \in [Stacks(e) -> AnswersOf(e)] /\ \A t \in Stacks(e) : Finds(e, l, t, high[t], lv)
      BY DEF Solved
<1>6. lv[n] = 1 + lv[r] /\ lv[l] <= lv[n] /\ lv[r] \in Nat /\ lv[l] \in Nat /\ lv[n] \in Nat
      BY <1>2 DEF LevelsOf
<1> HIDE DEF fs, gs, m, f, h, r, l
<1>7. Pow(e, f, 2 ^ l) \in Elements(e) /\ Pow(e, h, 2 ^ l) \in Elements(e)
      BY <1>1, <1>3, PowIs
<1>8. /\ af \in Seq(Elements(e)) /\ ag \in Seq(Elements(e)) /\ Len(af) = m + 1 /\ Len(ag) = m + 1
      /\ \A i \in 1..m : af[i] = fs[i] /\ ag[i] = gs[i]
      /\ af[m + 1] = Pow(e, f, 2 ^ l) /\ ag[m + 1] = Pow(e, h, 2 ^ l)
      <2> DEFINE x == Pow(e, f, 2 ^ l)
                 y == Pow(e, h, 2 ^ l)
      <2>1. x \in Elements(e) /\ y \in Elements(e)
            BY <1>7
      <2>2. Len(fs) = m
            BY DEF m
      <2> HIDE DEF x, y
      <2>3. /\ Append(fs, x) \in Seq(Elements(e)) /\ Len(Append(fs, x)) = m + 1
            /\ \A i \in 1..m : Append(fs, x)[i] = fs[i]
            /\ Append(fs, x)[m + 1] = x
            BY <1>1, <2>1, <2>2, AppendProperties
      <2>4. /\ Append(gs, y) \in Seq(Elements(e)) /\ Len(Append(gs, y)) = m + 1
            /\ \A i \in 1..m : Append(gs, y)[i] = gs[i]
            /\ Append(gs, y)[m + 1] = y
            BY <1>1, <2>1, AppendProperties
      <2> QED
          BY <2>3, <2>4 DEF x, y
<1> HIDE DEF af, ag
<1>9. m + 1 \in Nat \ {0}
      BY <1>1
<1>10. <<af, ag>> \in Stacks(e)
       BY <1>8, <1>9, StackIf
<1>11. Finds(e, r, <<af, ag>>, lo, lv)
       BY <1>4, <1>10
<1> HIDE DEF lo
<1>12. /\ lo \in AnswersOf(e) /\ lo.a <= 2 ^ r - 1
       /\ Len(lo.fs) = m + 1 /\ Len(lo.gs) = m + 1
       /\ \A i \in 1..m : lo.fs[i] = Mul(e, fs[i], Pow(e, gs[i], lo.a)) /\ lo.gs[i] = Pow(e, gs[i], 2 ^ r)
       /\ lo.depth <= m + lv[r]
       /\ Tells(e, r, Pow(e, f, 2 ^ l), Pow(e, h, 2 ^ l), lo.ok, lo.a)
       <2>1. <<af, ag>>[1] = af /\ <<af, ag>>[2] = ag
             OBVIOUS
       <2>2. m + 1 - 1 = m
             BY <1>1
       <2>3. Last(af) = Pow(e, f, 2 ^ l) /\ Last(ag) = Pow(e, h, 2 ^ l)
             BY <1>8 DEF Last
       <2>4. Leaves(e, r, <<af, ag>>, lo, lv) /\ lo \in AnswersOf(e)
             BY <1>11 DEF Finds
       <2>5. Tells(e, r, Last(af), Last(ag), lo.ok, lo.a)
             BY <1>11, <2>1 DEF Finds
       <2>6. /\ lo.a <= 2 ^ r - 1
             /\ Len(lo.fs) = m + 1 /\ Len(lo.gs) = m + 1
             /\ \A i \in 1..m : lo.fs[i] = Mul(e, af[i], Pow(e, ag[i], lo.a)) /\ lo.gs[i] = Pow(e, ag[i], 2 ^ r)
             /\ lo.depth <= m + lv[r]
             <3> DEFINE t == <<af, ag>>
             <3>1. t[1] = af /\ t[2] = ag /\ Len(t[1]) = m + 1 /\ Leaves(e, r, t, lo, lv)
                   BY <1>8, <2>4
             <3> HIDE DEF t
             <3> DEFINE c == Len(t[1])
             <3>2. /\ lo.a <= 2 ^ r - 1
                   /\ Len(lo.fs) = c /\ Len(lo.gs) = c
                   /\ \A i \in 1..(c - 1) : /\ lo.fs[i] = Mul(e, t[1][i], Pow(e, t[2][i], lo.a))
                                           /\ lo.gs[i] = Pow(e, t[2][i], 2 ^ r)
                   /\ lo.depth <= c - 1 + lv[r]
                   BY <3>1, Zenon DEF Leaves
             <3>3. c = m + 1
                   BY <3>1
             <3> HIDE DEF c
             <3>4. c - 1 = m
                   <4>1. m \in Nat
                         BY <1>1
                   <4> QED
                       BY <3>3, <4>1
             <3>5. \A i \in 1..m : lo.fs[i] = Mul(e, af[i], Pow(e, ag[i], lo.a)) /\ lo.gs[i] = Pow(e, ag[i], 2 ^ r)
                   BY <3>1, <3>2, <3>4, Zenon
             <3>6. lo.depth <= m + lv[r]
                   BY <3>2, <3>4, Zenon
             <3>7. lo.a <= 2 ^ r - 1 /\ Len(lo.fs) = m + 1 /\ Len(lo.gs) = m + 1
                   BY <3>2, <3>3, Zenon
             <3> QED
                 BY <3>5, <3>6, <3>7, Zenon
       <2> QED
           BY <1>8, <2>3, <2>4, <2>5, <2>6
<1>13. /\ lo.ok \in BOOLEAN /\ lo.a \in Nat /\ lo.fs \in Seq(Elements(e)) /\ lo.gs \in Seq(Elements(e)) /\ lo.depth \in Nat
       BY <1>12 DEF AnswersOf
<1>14. /\ bf \in Seq(Elements(e)) /\ Len(bf) = m /\ \A j \in 1..m : bf[j] = lo.fs[j]
       /\ bg \in Seq(Elements(e)) /\ Len(bg) = m /\ \A j \in 1..m : bg[j] = lo.gs[j]
       <2>1. m \in Nat \ {0} /\ Len(lo.fs) = m + 1 /\ Len(lo.gs) = m + 1
             BY <1>1, <1>12
       <2>2. bf \in Seq(Elements(e)) /\ Len(bf) = m /\ \A j \in 1..m : bf[j] = lo.fs[j]
             BY <1>13, <2>1, FrontOfStack
       <2>3. bg \in Seq(Elements(e)) /\ Len(bg) = m /\ \A j \in 1..m : bg[j] = lo.gs[j]
             BY <1>13, <2>1, FrontOfStack
       <2> QED
           BY <2>2, <2>3
<1> HIDE DEF bf, bg
<1>15. <<bf, bg>> \in Stacks(e)
       BY <1>1, <1>14, StackIf
<1>16. Finds(e, l, <<bf, bg>>, hi, lv)
       BY <1>5, <1>15
<1> HIDE DEF hi
<1>17. /\ hi \in AnswersOf(e) /\ hi.a <= 2 ^ l - 1
       /\ Len(hi.fs) = m /\ Len(hi.gs) = m
       /\ \A i \in 1..(m - 1) : hi.fs[i] = Mul(e, bf[i], Pow(e, bg[i], hi.a)) /\ hi.gs[i] = Pow(e, bg[i], 2 ^ l)
       /\ hi.depth <= m - 1 + lv[l]
       /\ Tells(e, l, Mul(e, f, Pow(e, h, lo.a)), Pow(e, h, 2 ^ r), hi.ok, hi.a)
       <2>1. <<bf, bg>>[1] = bf /\ <<bf, bg>>[2] = bg
             OBVIOUS
       <2>2. m \in 1..m
             BY <1>1
       <2>3. Last(bf) = Mul(e, f, Pow(e, h, lo.a)) /\ Last(bg) = Pow(e, h, 2 ^ r)
             <3>1. Last(bf) = bf[m] /\ Last(bg) = bg[m]
                   BY <1>14 DEF Last
             <3>2. bf[m] = lo.fs[m] /\ bg[m] = lo.gs[m]
                   BY <1>14, <2>2
             <3>3. lo.fs[m] = Mul(e, fs[m], Pow(e, gs[m], lo.a)) /\ lo.gs[m] = Pow(e, gs[m], 2 ^ r)
                   BY <1>12, <2>2
             <3> QED
                 BY <1>1, <3>1, <3>2, <3>3
       <2>4. Leaves(e, l, <<bf, bg>>, hi, lv) /\ hi \in AnswersOf(e)
             BY <1>16 DEF Finds
       <2>5. Tells(e, l, Last(bf), Last(bg), hi.ok, hi.a)
             BY <1>16, <2>1 DEF Finds
       <2>6. /\ hi.a <= 2 ^ l - 1
             /\ Len(hi.fs) = m /\ Len(hi.gs) = m
             /\ \A i \in 1..(m - 1) : hi.fs[i] = Mul(e, bf[i], Pow(e, bg[i], hi.a)) /\ hi.gs[i] = Pow(e, bg[i], 2 ^ l)
             /\ hi.depth <= m - 1 + lv[l]
             <3> DEFINE t == <<bf, bg>>
             <3>1. t[1] = bf /\ t[2] = bg /\ Len(t[1]) = m /\ Leaves(e, l, t, hi, lv)
                   BY <1>14, <2>4
             <3> HIDE DEF t
             <3> QED
                 BY <3>1, Zenon DEF Leaves
       <2> QED
           BY <2>3, <2>4, <2>5, <2>6
<1>18. /\ hi.ok \in BOOLEAN /\ hi.a \in Nat /\ hi.fs \in Seq(Elements(e)) /\ hi.gs \in Seq(Elements(e)) /\ hi.depth \in Nat
       BY <1>17 DEF AnswersOf
<1>19. a \in Nat /\ a <= 2 ^ n - 1
       <2> DEFINE A == 2 ^ r
                  B == 2 ^ l
                  N == 2 ^ n
                  x == hi.a
                  y == lo.a
       <2>1. A \in Nat \ {0} /\ B \in Nat \ {0} /\ N = A * B /\ x \in Nat /\ y \in Nat /\ x <= B - 1 /\ y <= A - 1
             BY <1>3, <1>12, <1>13, <1>17, <1>18
       <2>2. a = x * A + y /\ N = 2 ^ n
             OBVIOUS
       <2> HIDE DEF A, B, N, x, y, a
       <2>3. x * A <= (B - 1) * A /\ x * A \in Nat
             BY <2>1
       <2>4. (B - 1) * A = A * B - A
             BY <2>1
       <2>5. A * B \in Nat
             BY <2>1
       <2> QED
           BY <2>1, <2>2, <2>3, <2>4, <2>5
<1>20. d \in Nat /\ d <= m - 1 + lv[n]
       <2>1. lo.depth <= m + lv[r] /\ hi.depth <= m - 1 + lv[l]
             BY <1>12, <1>17
       <2>2. lo.depth \in Nat /\ hi.depth \in Nat
             BY <1>13, <1>18
       <2>3. lo.depth <= m - 1 + lv[n]
             BY <1>1, <1>6, <2>1, <2>2
       <2>4. hi.depth <= m - 1 + lv[n]
             BY <1>1, <1>6, <2>1, <2>2
       <2> QED
           BY <2>2, <2>3, <2>4
<1>21. Tells(e, n, f, h, lo.ok /\ hi.ok, a)
       <2>1. Tells(e, r + l, f, h, lo.ok /\ hi.ok, hi.a * 2 ^ r + lo.a)
             <3>1. f \in Elements(e) /\ h \in Elements(e) /\ r \in Nat \ {0} /\ l \in Nat \ {0} /\ r + l <= e
                   BY <1>1, <1>2
             <3>2. lo.ok \in BOOLEAN /\ hi.ok \in BOOLEAN /\ lo.a \in Nat /\ hi.a \in Nat
                   BY <1>13, <1>18
             <3>3. Tells(e, r, Pow(e, f, 2 ^ l), Pow(e, h, 2 ^ l), lo.ok, lo.a)
                   BY <1>12
             <3>4. Tells(e, l, Mul(e, f, Pow(e, h, lo.a)), Pow(e, h, 2 ^ r), hi.ok, hi.a)
                   BY <1>17
             <3> QED
                 BY <3>1, <3>2, <3>3, <3>4, TellsHalves
       <2> QED
           BY <1>2, <2>1
<1>22. ASSUME NEW i \in 1..(m - 1)
       PROVE  /\ hi.fs[i] = Mul(e, fs[i], Pow(e, gs[i], a))
              /\ hi.gs[i] = Pow(e, gs[i], 2 ^ n)
       <2>1. i \in 1..m
             BY <1>1
       <2>2. fs[i] \in Elements(e) /\ gs[i] \in Elements(e)
             BY <1>1, <2>1
       <2>3. bf[i] = Mul(e, fs[i], Pow(e, gs[i], lo.a)) /\ bg[i] = Pow(e, gs[i], 2 ^ r)
             BY <1>12, <1>14, <2>1
       <2>4. hi.fs[i] = Mul(e, bf[i], Pow(e, bg[i], hi.a)) /\ hi.gs[i] = Pow(e, bg[i], 2 ^ l)
             BY <1>17
       <2>5. Mul(e, Mul(e, fs[i], Pow(e, gs[i], lo.a)), Pow(e, Pow(e, gs[i], 2 ^ r), hi.a))
                 = Mul(e, fs[i], Pow(e, gs[i], hi.a * 2 ^ r + lo.a))
             <3> DEFINE A == 2 ^ r
                        x == fs[i]
                        y == gs[i]
                        u == lo.a
                        w == hi.a
             <3>1. A \in Nat \ {0} /\ u \in Nat /\ w \in Nat /\ x \in Elements(e) /\ y \in Elements(e)
                   BY <1>3, <1>13, <1>18, <2>2
             <3> HIDE DEF A, x, y, u, w
             <3>2. Mul(e, Mul(e, x, Pow(e, y, u)), Pow(e, Pow(e, y, A), w)) = Mul(e, x, Pow(e, y, w * A + u))
                   BY <3>1, MulPow
             <3> QED
                 BY <3>2 DEF A, x, y, u, w
       <2>6. Pow(e, Pow(e, gs[i], 2 ^ r), 2 ^ l) = Pow(e, gs[i], 2 ^ r * 2 ^ l)
             BY <1>3, <2>2, PowTwice
       <2> QED
           BY <1>3, <2>3, <2>4, <2>5, <2>6
<1> HIDE DEF a, d, ans
<1>23. (lo.ok /\ hi.ok) \in BOOLEAN
       BY <1>13, <1>18
<1>24. /\ ans.ok = (lo.ok /\ hi.ok) /\ ans.a = a /\ ans.fs = hi.fs /\ ans.gs = hi.gs /\ ans.depth = d
       BY <1>0
<1>25. ans \in AnswersOf(e)
       BY <1>0, <1>18, <1>19, <1>20, <1>23 DEF AnswersOf
<1>26. Leaves(e, n, s, ans, lv)
       <2>1. m = Len(s[1]) /\ fs = s[1] /\ gs = s[2]
             BY DEF m, fs, gs
       <2> QED
           BY <1>17, <1>19, <1>20, <1>22, <1>24, <2>1 DEF Leaves
<1>27. Tells(e, n, f, h, ans.ok, ans.a)
       BY <1>21, <1>24
<1> QED
    BY <1>25, <1>26, <1>27 DEF Finds, f, h, fs, gs, ans

LEMMA InvIs ==
    ASSUME NEW e \in Exponents, NEW x \in Elements(e)
    PROVE  /\ Inv(e, x) \in Elements(e) /\ (x = Zero <=> Inv(e, x) = Zero)
           /\ x # Zero => x \in Int /\ Inv(e, x) \in Roots(e) /\ Same(Inv(e, x), -x, 2 ^ e)
<1> DEFINE M == 2 ^ e
<1>1. M \in Nat \ {0} /\ Roots(e) = 0..(M - 1) /\ M = 2 ^ e
      BY ElementsAre DEF Roots
<1>2. CASE x = Zero
      BY <1>2, ElementsAre DEF Inv
<1>3. CASE x # Zero
      <2>1. x \in Roots(e) /\ x \in Nat
            BY <1>3, ElementsAre
      <2> HIDE DEF M
      <2>2. -x \in Int
            BY <2>1
      <2>3. (-x) % M \in 0..(M - 1) /\ Same((-x) % M, -x, M)
            BY <1>1, <2>2, SameResidue
      <2>4. Inv(e, x) = (-x) % M
            BY <1>1, <1>3 DEF Inv
      <2> QED
          BY <1>1, <1>3, <2>1, <2>3, <2>4, ElementsAre
<1> QED
    BY <1>2, <1>3

LEMMA LevelsAre ==
    ASSUME NEW e \in Exponents
    PROVE  \E lv : LevelsOf(e, lv) /\ Levels(e) = lv[e]
<1>1. e \in Nat \ {0}
      BY LogAssumption
<1> DEFINE Law(h) == h = [n \in 1..e |-> IF n = 1 THEN 1 ELSE 1 + h[n \div 2]]
           lv == CHOOSE h : Law(h)
           start == [n \in 1..e |-> 1]
           step == [p \in Nat \X Nat \X Nat |-> 1 + p[2]]
           S == [n \in 1..e |-> Nat \ {0}]
<1>2. \E h : Law(h)
      <2>1. \A n \in 1..e : n <= 1 => start[n] \in S[n]
            OBVIOUS
      <2>2. ASSUME NEW n \in 1..e, n > 1, NEW a \in S[n \div 2], NEW b \in S[n - n \div 2]
            PROVE  step[<<n, a, b>>] = 1 + a /\ step[<<n, a, b>>] \in S[n]
            <3>1. n \in Nat /\ n >= 2
                  BY <1>1, <2>2
            <3> DEFINE i == n \div 2
                       j == n - n \div 2
            <3>2. i \in 1..(n - 1) /\ j \in 1..(n - 1)
                  BY <3>1, HalvesLess
            <3> HIDE DEF i, j
            <3>3. i \in 1..e /\ j \in 1..e
                  BY <1>1, <3>1, <3>2
            <3>4. S[i] = Nat \ {0} /\ S[j] = Nat \ {0}
                  BY <3>3
            <3>5. a \in Nat /\ b \in Nat
                  BY <2>2, <3>4 DEF i, j
            <3>6. step[<<n, a, b>>] = 1 + a
                  BY <3>1, <3>5
            <3> HIDE DEF step
            <3> QED
                BY <3>5, <3>6
      <2>3. \A n \in 1..e : n > 1 => \A a \in S[n \div 2], b \in S[n - n \div 2] : step[<<n, a, b>>] \in S[n]
            BY <2>2
      <2> HIDE DEF start, step, S
      <2>4. PICK h : Halving(h, e, 1, start, step) /\ \A n \in 1..e : h[n] \in S[n]
            <3>1. e \in Nat /\ 1 \in Nat \ {0}
                  BY <1>1
            <3> QED
                BY <2>1, <2>3, <3>1, HalvingWithin
      <2>5. h = [n \in 1..e |-> IF n <= 1 THEN start[n] ELSE step[<<n, h[n \div 2], h[n - n \div 2]>>]]
            BY <2>4, Zenon DEF Halving
      <2>6. h = [n \in 1..e |-> h[n]]
            BY <2>5, Zenon
      <2>7. \A n \in 1..e : h[n] = IF n <= 1 THEN start[n] ELSE step[<<n, h[n \div 2], h[n - n \div 2]>>]
            BY <2>5, Zenon
      <2>8. \A n \in 1..e : h[n] = IF n = 1 THEN 1 ELSE 1 + h[n \div 2]
            <3> TAKE n \in 1..e
            <3>1. CASE n = 1
                  <4>1. n <= 1 /\ start[n] = 1
                        BY <3>1 DEF start
                  <4>2. h[n] = start[n]
                        BY <2>7, <4>1, Zenon
                  <4> QED
                      BY <3>1, <4>1, <4>2
            <3>2. CASE n # 1
                  <4>1. n \in Nat /\ n >= 2 /\ n > 1 /\ ~(n <= 1)
                        BY <1>1, <3>2
                  <4> DEFINE i == n \div 2
                             j == n - n \div 2
                  <4>2. i \in 1..(n - 1) /\ j \in 1..(n - 1)
                        BY <4>1, HalvesLess
                  <4>3. h[n] = step[<<n, h[i], h[j]>>]
                        BY <2>7, <4>1
                  <4> HIDE DEF i, j
                  <4>4. i \in 1..e /\ j \in 1..e
                        BY <1>1, <4>1, <4>2
                  <4>5. h[i] \in S[i] /\ h[j] \in S[j]
                        BY <2>4, <4>4
                  <4>6. step[<<n, h[i], h[j]>>] = 1 + h[i]
                        BY <2>2, <4>1, <4>5 DEF i, j
                  <4> QED
                      BY <3>2, <4>3, <4>6 DEF i
            <3> QED
                BY <3>1, <3>2
      <2>9. Law(h)
            BY <2>6, <2>8, Zenon
      <2> QED
          BY <2>9
<1>3. Law(lv)
      <2> HIDE DEF Law
      <2> QED
          BY <1>2
<1>4. Levels(e) = lv[e]
      BY DEF Levels
<1> HIDE DEF lv, start, step, S
<1>5. \A n \in 1..e : lv[n] = IF n = 1 THEN 1 ELSE 1 + lv[n \div 2]
      BY <1>3, Zenon
<1> HIDE DEF Law
<1>6. lv[1] = 1 /\ \A n \in 2..e : lv[n] = 1 + lv[n \div 2]
      BY <1>1, <1>5
<1>7. \A n \in 1..e : lv[n] \in Nat \ {0}
      <2> DEFINE T == [n \in 1..e |-> Nat \ {0}]
      <2>1. \A n \in 1..e : T[n] = Nat \ {0}
            OBVIOUS
      <2> HIDE DEF T
      <2>2. \A n \in 1..e : n <= 1 => lv[n] \in T[n]
            BY <1>6, <2>1
      <2>3. \A n \in 1..e : n > 1 /\ lv[n \div 2] \in T[n \div 2] /\ lv[n - n \div 2] \in T[n - n \div 2] => lv[n] \in T[n]
            <3> TAKE n \in 1..e
            <3> HAVE n > 1 /\ lv[n \div 2] \in T[n \div 2] /\ lv[n - n \div 2] \in T[n - n \div 2]
            <3>1. n \in 2..e /\ n \in Nat /\ n >= 2
                  BY <1>1
            <3> DEFINE i == n \div 2
            <3>2. i \in 1..(n - 1) /\ lv[n] = 1 + lv[i] /\ lv[i] \in T[i]
                  BY <1>6, <3>1, HalvesLess
            <3> HIDE DEF i
            <3>3. i \in 1..e
                  BY <1>1, <3>1, <3>2
            <3>4. lv[i] \in Nat
                  BY <2>1, <3>2, <3>3
            <3> QED
                BY <2>1, <3>2, <3>4
      <2>4. 1 \in Nat \ {0} /\ e \in Nat
            BY <1>1
      <2>5. \A n \in 1..e : lv[n] \in T[n]
            BY <2>2, <2>3, <2>4, HalvingStays
      <2> QED
          BY <2>1, <2>5
<1> DEFINE R == {j \in Nat : j \in 1..e => \A i \in 1..j : lv[i] <= lv[j]}
<1>8. ASSUME NEW j \in Nat, \A k \in Nat : k < j => k \in R PROVE j \in R
      <2> SUFFICES ASSUME j \in 1..e, NEW i \in 1..j PROVE lv[i] <= lv[j]
          OBVIOUS
      <2>1. i \in 1..e /\ lv[i] \in Nat \ {0} /\ lv[j] \in Nat \ {0}
            <3>1. i \in 1..e
                  BY <1>1
            <3> QED
                BY <1>7, <3>1
      <2>2. CASE i = 1
            BY <1>6, <2>1, <2>2
      <2>3. CASE i # 1
            <3>1. i \in Nat /\ j \in Nat /\ i >= 2 /\ j >= 2 /\ i <= j /\ i \in 2..e /\ j \in 2..e
                  BY <1>1, <2>1, <2>3
            <3> DEFINE a == i \div 2
                       b == j \div 2
            <3>2. a \in 1..b /\ b < j /\ b \in Nat
                  BY <3>1
            <3>3. lv[i] = 1 + lv[a] /\ lv[j] = 1 + lv[b]
                  BY <1>6, <3>1
            <3> HIDE DEF a, b
            <3>4. b \in 1..e /\ a \in 1..e
                  BY <1>1, <3>1, <3>2
            <3>5. lv[a] <= lv[b]
                  BY <1>8, <3>2, <3>4
            <3>6. lv[a] \in Nat /\ lv[b] \in Nat
                  BY <1>7, <3>4
            <3> QED
                BY <3>3, <3>5, <3>6
      <2> QED
          BY <2>2, <2>3
<1>9. Nat \subseteq R
      <2> HIDE DEF R
      <2> QED
          BY <1>8, StrongInduction
<1>10. \A i, j \in 1..e : i <= j => lv[i] <= lv[j]
       <2> TAKE i, j \in 1..e
       <2> HAVE i <= j
       <2>1. j \in Nat /\ i \in 1..j
             BY <1>1
       <2> QED
           BY <1>9, <2>1
<1>11. LevelsOf(e, lv)
       BY <1>6, <1>7, <1>10 DEF LevelsOf
<1> QED
    BY <1>4, <1>11

LEMMA SolvedLeaf ==
    ASSUME NEW e \in Exponents, NEW lv, LevelsOf(e, lv)
    PROVE  [s \in Stacks(e) |-> LogLeaf(e, s[1], s[2])] \in Solved(e, 1, lv)
<1> DEFINE Fn == [s \in Stacks(e) |-> LogLeaf(e, s[1], s[2])]
<1>1. \A s \in Stacks(e) : Fn[s] = LogLeaf(e, s[1], s[2])
      OBVIOUS
<1>2. Fn = [s \in Stacks(e) |-> Fn[s]]
      OBVIOUS
<1> HIDE DEF Fn
<1>3. \A s \in Stacks(e) : Finds(e, 1, s, Fn[s], lv)
      BY <1>1, LeafFinds
<1>4. \A s \in Stacks(e) : Fn[s] \in AnswersOf(e)
      BY <1>3 DEF Finds
<1>5. Fn \in [Stacks(e) -> AnswersOf(e)]
      BY <1>2, <1>4
<1>6. Fn \in Solved(e, 1, lv)
      BY <1>3, <1>5, Zenon DEF Solved
<1> QED
    BY <1>6 DEF Fn

LEMMA SolvedSplit ==
    ASSUME NEW e \in Exponents, NEW lv, LevelsOf(e, lv), NEW n \in 2..e,
           NEW low \in Solved(e, n \div 2, lv), NEW high \in Solved(e, n - n \div 2, lv)
    PROVE  [s \in Stacks(e) |-> LogSplit(e, n, low, high, s[1], s[2])] \in Solved(e, n, lv)
<1> DEFINE Fn == [s \in Stacks(e) |-> LogSplit(e, n, low, high, s[1], s[2])]
<1>1. \A s \in Stacks(e) : Fn[s] = LogSplit(e, n, low, high, s[1], s[2])
      OBVIOUS
<1>2. Fn = [s \in Stacks(e) |-> Fn[s]]
      OBVIOUS
<1> HIDE DEF Fn
<1>3. \A s \in Stacks(e) : Finds(e, n, s, Fn[s], lv)
      BY <1>1, SplitFinds
<1>4. \A s \in Stacks(e) : Fn[s] \in AnswersOf(e)
      BY <1>3 DEF Finds
<1>5. Fn \in [Stacks(e) -> AnswersOf(e)]
      BY <1>2, <1>4
<1>6. Fn \in Solved(e, n, lv)
      BY <1>3, <1>5, Zenon DEF Solved
<1> QED
    BY <1>6 DEF Fn

\* fp2_dlog_2e on one pair of stacks.
LEMMA DlogFinds ==
    ASSUME NEW e \in Exponents, NEW lv, LevelsOf(e, lv), NEW f \in Elements(e), NEW g \in Elements(e)
    PROVE  Finds(e, e, <<<<f>>, <<Inv(e, g)>>>>, Dlog(e, f, g), lv)
<1>1. e \in Nat \ {0} /\ 1 \in Nat \ {0} /\ e \in Nat
      BY LogAssumption
<1> DEFINE Law(h) == h = [n \in 1..e |-> IF n = 1 THEN [s \in Stacks(e) |-> LogLeaf(e, s[1], s[2])]
                                       ELSE [s \in Stacks(e) |-> LogSplit(e, n, h[n \div 2], h[n - n \div 2], s[1], s[2])]]
           rec == CHOOSE h : Law(h)
           leaf == [s \in Stacks(e) |-> LogLeaf(e, s[1], s[2])]
           U == [Stacks(e) -> AnswersOf(e)]
           start == [n \in 1..e |-> leaf]
           step == [p \in Nat \X U \X U |-> [s \in Stacks(e) |-> LogSplit(e, p[1], p[2], p[3], s[1], s[2])]]
           S == [n \in 1..e |-> Solved(e, n, lv)]
<1>2. \A n \in 1..e : S[n] = Solved(e, n, lv) /\ S[n] \subseteq U
      BY DEF Solved
<1>3. \A n \in 1..e, a \in U, b \in U :
          step[<<n, a, b>>] = [s \in Stacks(e) |-> LogSplit(e, n, a, b, s[1], s[2])]
      <2> TAKE n \in 1..e, a \in U, b \in U
      <2> DEFINE p == <<n, a, b>>
      <2>1. p \in Nat \X U \X U
            BY <1>1
      <2>2. p[1] = n /\ p[2] = a /\ p[3] = b
            OBVIOUS
      <2> HIDE DEF U, p
      <2>3. step[p] = [s \in Stacks(e) |-> LogSplit(e, p[1], p[2], p[3], s[1], s[2])]
            BY <2>1
      <2> QED
          BY <2>2, <2>3 DEF p
<1>4. leaf \in Solved(e, 1, lv)
      BY SolvedLeaf
<1>5. \A n \in 1..e : start[n] = leaf
      OBVIOUS
<1>6. ASSUME NEW n \in 1..e, n > 1
      PROVE  n \in 2..e /\ n \div 2 \in 1..e /\ n - n \div 2 \in 1..e
      <2>1. n \in Nat /\ n >= 2 /\ n \in 2..e
            BY <1>1, <1>6
      <2> DEFINE i == n \div 2
                 j == n - n \div 2
      <2>2. i \in 1..(n - 1) /\ j \in 1..(n - 1)
            BY <2>1, HalvesLess
      <2> HIDE DEF i, j
      <2>3. i \in 1..e /\ j \in 1..e
            BY <1>1, <2>1, <2>2
      <2> QED
          BY <2>1, <2>3 DEF i, j
<1> HIDE DEF step, U, S, start, leaf
<1>7. \A n \in 1..e : n > 1 => \A a \in S[n \div 2], b \in S[n - n \div 2] :
          step[<<n, a, b>>] = [s \in Stacks(e) |-> LogSplit(e, n, a, b, s[1], s[2])] /\ step[<<n, a, b>>] \in S[n]
      <2> SUFFICES ASSUME NEW n \in 1..e, n > 1, NEW a \in S[n \div 2], NEW b \in S[n - n \div 2]
                   PROVE  /\ step[<<n, a, b>>] = [s \in Stacks(e) |-> LogSplit(e, n, a, b, s[1], s[2])]
                          /\ step[<<n, a, b>>] \in S[n]
          OBVIOUS
      <2>1. n \in 2..e /\ n \div 2 \in 1..e /\ n - n \div 2 \in 1..e
            BY <1>6
      <2>2. a \in Solved(e, n \div 2, lv) /\ b \in Solved(e, n - n \div 2, lv) /\ a \in U /\ b \in U
            BY <1>2, <2>1
      <2>3. step[<<n, a, b>>] = [s \in Stacks(e) |-> LogSplit(e, n, a, b, s[1], s[2])]
            BY <1>3, <2>2
      <2>4. [s \in Stacks(e) |-> LogSplit(e, n, a, b, s[1], s[2])] \in Solved(e, n, lv)
            BY <2>1, <2>2, SolvedSplit
      <2> QED
          BY <1>2, <2>3, <2>4
<1>8. \A n \in 1..e : n <= 1 => start[n] \in S[n]
      <2> TAKE n \in 1..e
      <2> HAVE n <= 1
      <2>1. n = 1
            BY <1>1
      <2> QED
          BY <1>2, <1>4, <1>5, <2>1
<1>9. \E h : Law(h)
      <2>1. \A n \in 1..e : n > 1 => \A a \in S[n \div 2], b \in S[n - n \div 2] : step[<<n, a, b>>] \in S[n]
            BY <1>7
      <2>2. PICK h : Halving(h, e, 1, start, step) /\ \A n \in 1..e : h[n] \in S[n]
            BY <1>1, <1>8, <2>1, HalvingWithin
      <2>3. h = [n \in 1..e |-> IF n <= 1 THEN start[n] ELSE step[<<n, h[n \div 2], h[n - n \div 2]>>]]
            BY <2>2, Zenon DEF Halving
      <2>4. h = [n \in 1..e |-> h[n]]
            BY <2>3, Zenon
      <2>5. \A n \in 1..e : h[n] = IF n <= 1 THEN start[n] ELSE step[<<n, h[n \div 2], h[n - n \div 2]>>]
            BY <2>3, Zenon
      <2>6. \A n \in 1..e : h[n] = IF n = 1 THEN leaf
                                   ELSE [s \in Stacks(e) |-> LogSplit(e, n, h[n \div 2], h[n - n \div 2], s[1], s[2])]
            <3> TAKE n \in 1..e
            <3>1. CASE n = 1
                  <4>1. n <= 1 /\ start[n] = leaf
                        BY <1>5, <3>1
                  <4>2. h[n] = start[n]
                        BY <2>5, <4>1, Zenon
                  <4> QED
                      BY <3>1, <4>1, <4>2, Zenon
            <3>2. CASE n # 1
                  <4>1. n > 1 /\ ~(n <= 1)
                        BY <1>1, <3>2
                  <4>2. h[n \div 2] \in S[n \div 2] /\ h[n - n \div 2] \in S[n - n \div 2]
                        BY <1>6, <2>2, <4>1
                  <4>3. step[<<n, h[n \div 2], h[n - n \div 2]>>]
                            = [s \in Stacks(e) |-> LogSplit(e, n, h[n \div 2], h[n - n \div 2], s[1], s[2])]
                        BY <1>7, <4>1, <4>2
                  <4>4. h[n] = step[<<n, h[n \div 2], h[n - n \div 2]>>]
                        BY <2>5, <4>1
                  <4> QED
                      BY <3>2, <4>3, <4>4, Zenon
            <3> QED
                BY <3>1, <3>2
      <2>7. h = [n \in 1..e |-> IF n = 1 THEN leaf
                                ELSE [s \in Stacks(e) |-> LogSplit(e, n, h[n \div 2], h[n - n \div 2], s[1], s[2])]]
            BY <2>4, <2>6, Zenon
      <2>8. Law(h)
            BY <2>7, Zenon DEF leaf
      <2> QED
          BY <2>8
<1>10. Law(rec)
       <2> HIDE DEF Law
       <2> QED
           BY <1>9
<1>11. Dlog(e, f, g) = rec[e][<<<<f>>, <<Inv(e, g)>>>>]
       BY DEF Dlog
<1> HIDE DEF rec
<1>12. \A n \in 1..e : rec[n] = IF n = 1 THEN leaf
                                ELSE [s \in Stacks(e) |-> LogSplit(e, n, rec[n \div 2], rec[n - n \div 2], s[1], s[2])]
       BY <1>10, Zenon DEF leaf
<1> HIDE DEF Law
<1>13. \A n \in 1..e : n <= 1 => rec[n] \in S[n]
       <2> TAKE n \in 1..e
       <2> HAVE n <= 1
       <2>1. n = 1
             BY <1>1
       <2>2. rec[n] = leaf
             BY <1>12, <2>1, Zenon
       <2> QED
           BY <1>2, <1>4, <2>1, <2>2
<1>14. \A n \in 1..e : n > 1 /\ rec[n \div 2] \in S[n \div 2] /\ rec[n - n \div 2] \in S[n - n \div 2] => rec[n] \in S[n]
       <2> TAKE n \in 1..e
       <2> HAVE n > 1 /\ rec[n \div 2] \in S[n \div 2] /\ rec[n - n \div 2] \in S[n - n \div 2]
       <2>1. n # 1
             OBVIOUS
       <2>2. rec[n] = [s \in Stacks(e) |-> LogSplit(e, n, rec[n \div 2], rec[n - n \div 2], s[1], s[2])]
             BY <1>12, <2>1, Zenon
       <2> DEFINE Fn == [s \in Stacks(e) |-> LogSplit(e, n, rec[n \div 2], rec[n - n \div 2], s[1], s[2])]
       <2>3. step[<<n, rec[n \div 2], rec[n - n \div 2]>>] = Fn /\ step[<<n, rec[n \div 2], rec[n - n \div 2]>>] \in S[n]
             BY <1>7
       <2> HIDE DEF Fn
       <2>4. Fn \in S[n]
             BY <2>3, Zenon
       <2> QED
           BY <2>2, <2>4, Zenon DEF Fn
<1>15. \A n \in 1..e : rec[n] \in S[n]
       BY <1>1, <1>13, <1>14, HalvingStays
<1>16. rec[e] \in Solved(e, e, lv)
       <2>1. e \in 1..e
             BY <1>1
       <2> QED
           BY <1>2, <1>15, <2>1
<1>17. <<<<f>>, <<Inv(e, g)>>>> \in Stacks(e)
       <2>1. Inv(e, g) \in Elements(e)
             BY InvIs
       <2> DEFINE a == <<f>>
                  b == <<Inv(e, g)>>
       <2>2. a \in Seq(Elements(e)) /\ b \in Seq(Elements(e)) /\ Len(a) = 1 /\ Len(b) = 1
             BY <2>1
       <2> HIDE DEF a, b
       <2>3. <<a, b>> \in Stacks(e)
             BY <1>1, <2>2, StackIf
       <2> QED
           BY <2>3 DEF a, b
<1> QED
    BY <1>11, <1>16, <1>17 DEF Solved

LEMMA TimesHalf ==
    ASSUME NEW N \in Nat \ {0}, NEW x \in Int
    PROVE  (x * N) % (2 * N) = (IF x % 2 = 0 THEN 0 ELSE N)
<1> DEFINE q == x \div 2
           b == x % 2
           m == 2 * N
<1>1. x = 2 * q + b /\ b \in {0, 1} /\ q \in Int
      OBVIOUS
<1>2. m \in Nat \ {0} /\ m = 2 * N
      OBVIOUS
<1> HIDE DEF q, b, m
<1>3. b \in Int /\ x * N \in Int /\ b * N \in Int
      BY <1>1
<1>4. x * N = b * N + q * m
      <2>1. x * N = (2 * q) * N + b * N
            BY <1>1
      <2>2. (2 * q) * N = q * m
            BY <1>1, <1>2
      <2>3. (2 * q) * N \in Int
            BY <1>1
      <2> QED
          BY <1>3, <2>1, <2>2, <2>3
<1>5. (x * N) % m = (b * N) % m
      <2>1. m \in Nat \ {0} /\ q \in Int
            BY <1>1, <1>2
      <2> QED
          BY <1>3, <1>4, <2>1, ModShift
<1>6. CASE b = 0
      <2>1. b * N = 0 /\ 0 % m = 0
            BY <1>2, <1>6
      <2> QED
          BY <1>5, <1>6, <2>1 DEF b, m
<1>7. CASE b = 1
      <2>1. b * N = N /\ N % m = N
            BY <1>2, <1>7
      <2> QED
          BY <1>5, <1>7, <2>1 DEF b, m
<1> QED
    BY <1>1, <1>6, <1>7

LEMMA HalfPower ==
    ASSUME NEW e \in Exponents, NEW x \in Int
    PROVE  /\ e - 1 \in 0..e /\ 2 ^ (e - 1) \in Nat \ {0} /\ 2 ^ e = 2 * 2 ^ (e - 1)
           /\ (x * 2 ^ (e - 1)) % 2 ^ e = (IF x % 2 = 0 THEN 0 ELSE 2 ^ (e - 1))
           /\ Dies(e, x, e - 1) <=> x % 2 = 0
<1>1. e \in Nat \ {0} /\ e - 1 \in 0..e /\ e - 1 < e /\ (e - 1) + 1 = e
      BY LogAssumption
<1> DEFINE N == 2 ^ (e - 1)
<1>2. N \in Nat \ {0} /\ 2 ^ e = 2 * N
      <2>1. 2 ^ (e - 1) \in Nat \ {0} /\ 2 ^ ((e - 1) + 1) = 2 * 2 ^ (e - 1)
            BY <1>1, OrderTo
      <2> QED
          BY <1>1, <2>1
<1> HIDE DEF N
<1>3. (x * N) % (2 * N) = (IF x % 2 = 0 THEN 0 ELSE N)
      BY <1>2, TimesHalf
<1>4. N # 0
      BY <1>2
<1>5. Dies(e, x, e - 1) <=> (x * N) % 2 ^ e = 0
      BY DEF Dies, N
<1> QED
    BY <1>1, <1>2, <1>3, <1>4, <1>5 DEF N

LEMMA InvParity ==
    ASSUME NEW e \in Exponents, NEW g \in Roots(e)
    PROVE  Inv(e, g) \in Roots(e) /\ Inv(e, g) \in Nat /\ Inv(e, g) % 2 = g % 2 /\ g % 2 \in {0, 1}
<1> DEFINE h == Inv(e, g)
           N == 2 ^ (e - 1)
<1>1. g \in Elements(e) /\ g # Zero /\ g \in Nat
      BY ElementsAre
<1>2. h \in Roots(e) /\ Same(h, -g, 2 ^ e)
      BY <1>1, InvIs
<1>3. h \in Nat
      BY <1>2, ElementsAre
<1> HIDE DEF h
<1>4. N \in Nat \ {0} /\ 2 ^ e = 2 * N
      BY <1>1, HalfPower
<1> HIDE DEF N
<1>5. -g \in Int /\ h \in Int /\ 2 \in Nat \ {0}
      BY <1>1, <1>3
<1>6. h % (2 * N) = (-g) % (2 * N)
      BY <1>2, <1>4 DEF Same
<1>7. h % 2 = (-g) % 2
      BY <1>4, <1>5, <1>6, ModDown
<1>8. (-g) % 2 = g % 2
      <2>1. g \in Int /\ -g = g + (-g) * 2
            BY <1>1
      <2> QED
          BY <1>5, <2>1, ModShift
<1>9. g % 2 \in {0, 1}
      BY <1>1
<1> QED
    BY <1>2, <1>3, <1>7, <1>8, <1>9 DEF h

\* What fp2_dlog_2e returns.
LEMMA DlogIs ==
    ASSUME NEW e \in Exponents, NEW f \in Elements(e), NEW g \in Elements(e)
    PROVE  /\ Dlog(e, f, g).ok \in BOOLEAN /\ Dlog(e, f, g).a \in 0..(2 ^ e - 1)
           /\ Dlog(e, f, g).ok => Pow(e, g, Dlog(e, f, g).a) = f
           /\ Zero \notin {f, g} => (Dlog(e, f, g).ok <=> g % 2 = 1 \/ f = One)
           /\ f = Zero /\ g # Zero => ~Dlog(e, f, g).ok
           /\ Dlog(e, f, g).depth <= Levels(e)
<1> DEFINE r == Dlog(e, f, g)
           h == Inv(e, g)
           s == <<<<f>>, <<h>>>>
           M == 2 ^ e
<1>1. PICK lv : LevelsOf(e, lv) /\ Levels(e) = lv[e]
      BY LevelsAre
<1>2. Finds(e, e, s, r, lv)
      BY <1>1, DlogFinds
<1>3. e \in Nat \ {0} /\ e \in 1..e /\ lv[e] \in Nat
      <2>1. e \in Nat \ {0} /\ e \in 1..e
            BY LogAssumption
      <2> QED
          BY <1>1, <2>1 DEF LevelsOf
<1> HIDE DEF r
<1>4. s[1] = <<f>> /\ s[2] = <<h>> /\ Len(s[1]) = 1 /\ Last(s[1]) = f /\ Last(s[2]) = h
      BY DEF Last
<1> HIDE DEF h, s, M
<1>5. r \in AnswersOf(e) /\ Leaves(e, e, s, r, lv) /\ Tells(e, e, f, h, r.ok, r.a)
      BY <1>2, <1>4 DEF Finds
<1>6. r.ok \in BOOLEAN /\ r.a \in Nat /\ r.depth \in Nat
      BY <1>5 DEF AnswersOf
<1>7. r.a <= M - 1 /\ r.depth <= 1 - 1 + lv[e]
      BY <1>4, <1>5, Zenon DEF Leaves, M
<1>8. M \in Nat \ {0} /\ Roots(e) = 0..(M - 1)
      BY ElementsAre DEF Roots, M
<1>9. r.a \in 0..(M - 1) /\ r.depth <= Levels(e)
      BY <1>1, <1>3, <1>6, <1>7, <1>8
<1>10. h \in Elements(e) /\ (g = Zero <=> h = Zero) /\ (g # Zero => g \in Int /\ h \in Roots(e) /\ Same(h, -g, M))
       BY InvIs DEF h, M
<1>11. h # Zero => Dies(e, h, e)
       BY <1>10, RootDies
<1>12. /\ f # Zero /\ h # Zero =>
              /\ r.ok => (f + r.a * h) % M = 0
              /\ Dies(e, f, e) /\ (~Dies(e, h, e - 1) \/ f = One) => r.ok
              /\ r.ok /\ Dies(e, h, e - 1) => f = One /\ r.a = 0
       /\ f # Zero /\ h = Zero => (r.ok <=> f = One) /\ (r.ok => r.a = 0)
       /\ f = Zero /\ h # Zero => ~r.ok
       /\ f = Zero /\ h = Zero => r.a >= 1
       BY <1>5, <1>11, Zenon DEF Tells, M
<1>13. r.ok => Pow(e, g, r.a) = f
       <2> HAVE r.ok
       <2>1. CASE f # Zero /\ g # Zero
             <3>1. f \in Roots(e) /\ g \in Roots(e) /\ f \in Int /\ g \in Int /\ h \in Int /\ Same(h, -g, M)
                   <4>1. f \in Roots(e) /\ g \in Roots(e) /\ h \in Roots(e)
                         BY <1>10, <2>1, ElementsAre
                   <4> QED
                       BY <1>10, <2>1, <4>1, ElementsAre
             <3>2. (f + r.a * h) % M = 0
                   BY <1>10, <1>12, <2>1
             <3> DEFINE a == r.a
             <3>3. a \in Nat /\ a \in Int /\ a * h \in Int /\ g * a \in Int /\ f + a * h \in Int /\ -g \in Int
                   BY <1>6, <3>1
             <3> HIDE DEF a
             <3>4. Same(a, a, M) /\ Same(g * a, g * a, M) /\ Same(f + a * h, 0, M)
                   <4>1. 0 % M = 0
                         BY <1>8
                   <4> QED
                       BY <3>2, <4>1 DEF Same, a
             <3>5. Same(a * h, a * (-g), M)
                   BY <1>8, <3>1, <3>3, <3>4, SameMul
             <3>6. a * (-g) = -(g * a)
                   BY <3>1, <3>3
             <3>7. Same((f + a * h) - a * h, 0 - a * (-g), M)
                   <4>1. a * (-g) \in Int /\ 0 \in Int
                         BY <3>3
                   <4> QED
                       BY <1>8, <3>3, <3>4, <3>5, <4>1, SameSub
             <3>8. (f + a * h) - a * h = f /\ 0 - a * (-g) = g * a
                   BY <3>1, <3>3, <3>6
             <3>9. Same(f, g * a, M)
                   BY <3>7, <3>8
             <3>10. Pow(e, g, a) \in Roots(e) /\ Same(Pow(e, g, a), g * a, M)
                    BY <3>1, <3>3, PowSame DEF M
             <3>11. Same(Pow(e, g, a), f, M)
                    BY <3>9, <3>10 DEF Same
             <3> QED
                 BY <3>1, <3>10, <3>11, RootsEqual DEF M, a
       <2>2. CASE f # Zero /\ g = Zero
             <3>1. f = One /\ r.a = 0
                   BY <1>10, <1>12, <2>2
             <3> QED
                 BY <3>1 DEF Pow
       <2>3. CASE f = Zero /\ g # Zero
             BY <1>10, <1>12, <2>3
       <2>4. CASE f = Zero /\ g = Zero
             <3>1. r.a >= 1
                   BY <1>10, <1>12, <2>4
             <3>2. r.a # 0
                   BY <1>6, <3>1
             <3> QED
                 BY <2>4, <3>2 DEF Pow
       <2> QED
           BY <2>1, <2>2, <2>3, <2>4
<1>14. Zero \notin {f, g} => (r.ok <=> g % 2 = 1 \/ f = One)
       <2> HAVE Zero \notin {f, g}
       <2>1. f # Zero /\ g # Zero /\ h # Zero /\ f \in Roots(e) /\ g \in Roots(e)
             BY <1>10, ElementsAre
       <2>2. Dies(e, f, e)
             BY <2>1, RootDies
       <2>3. h \in Int /\ h % 2 = g % 2 /\ g % 2 \in {0, 1}
             BY <2>1, InvParity DEF h
       <2>4. Dies(e, h, e - 1) <=> h % 2 = 0
             BY <2>3, HalfPower
       <2>5. Dies(e, h, e - 1) <=> ~(g % 2 = 1)
             BY <2>3, <2>4
       <2>6. /\ (~Dies(e, h, e - 1) \/ f = One) => r.ok
             /\ r.ok /\ Dies(e, h, e - 1) => f = One
             BY <1>12, <2>1, <2>2
       <2> QED
           BY <1>6, <2>5, <2>6, Zenon
<1>15. f = Zero /\ g # Zero => ~r.ok
       BY <1>10, <1>12
<1> QED
    BY <1>6, <1>9, <1>13, <1>14, <1>15 DEF r, M

\* The tables there are.
LEMMA TableIs ==
    ASSUME NEW e \in Exponents, NEW g \in Elements(e)
    PROVE  HasTable(e, g) <=> e \in LeafBits..MaxBits /\ g # Zero /\ g % 2 = 1
<1> DEFINE h == Inv(e, g)
           N == 2 ^ (e - 1)
           M == 2 ^ e
<1>1. h \in Elements(e) /\ N \in Nat \ {0} /\ Zero = -1
      <2>1. 0 \in Int
            OBVIOUS
      <2> QED
          BY <2>1, InvIs, HalfPower DEF Zero
<1>2. HasTable(e, g) <=> e \in LeafBits..MaxBits /\ Pow(e, h, N) = N
      BY DEF HasTable
<1>3. CASE g = Zero
      <2>1. h = Zero
            BY <1>3 DEF Inv
      <2> HIDE DEF h, N
      <2>2. Pow(e, h, N) = Zero
            BY <1>1, <2>1, PowIs
      <2>3. Zero # N
            BY <1>1
      <2> QED
          BY <1>2, <1>3, <2>2, <2>3
<1>4. CASE g # Zero
      <2>1. g \in Roots(e)
            BY <1>4, ElementsAre
      <2>2. h \in Roots(e) /\ h \in Nat /\ h % 2 = g % 2 /\ g % 2 \in {0, 1}
            BY <2>1, InvParity
      <2> HIDE DEF h
      <2>3. h # Zero /\ h \in Int
            BY <2>2, ElementsAre
      <2>4. (h * N) % M = (IF h % 2 = 0 THEN 0 ELSE N)
            BY <2>3, HalfPower
      <2> HIDE DEF N, M
      <2>5. Pow(e, h, N) = (h * N) % M
            BY <1>1, <2>3, PowIs DEF M
      <2>6. N # 0
            BY <1>1
      <2>7. Pow(e, h, N) = N <=> g % 2 = 1
            BY <2>2, <2>4, <2>5, <2>6
      <2> QED
          BY <1>2, <1>4, <2>7
<1> QED
    BY <1>3, <1>4

FixedAnswers == [ok : BOOLEAN, a : Nat]

\* What the table search says of len bits of f, with 2^(e - len) of the
\* table's powers passed.
FixedFinds(e, g, len, f, r) ==
    /\ f = Zero => ~r.ok
    /\ f # Zero /\ Dies(e, f, len) => r.ok
    /\ r.ok => r.a <= 2 ^ len - 1 /\ Same(f, (g * 2 ^ (e - len)) * r.a, 2 ^ e)

FixedSolved(e, g, len) ==
    {Fn \in [Elements(e) \X (0..(e - len)) -> FixedAnswers] :
        \A f \in Elements(e) : FixedFinds(e, g, len, f, Fn[<<f, e - len>>])}

LEMMA Invertible ==
    ASSUME NEW e \in Exponents, NEW g \in Roots(e), g % 2 = 1
    PROVE  \E b \in Nat : Same(g * b, 1, 2 ^ e)
<1> DEFINE M == 2 ^ e
           N == 2 ^ (e - 1)
<1>1. N \in Nat \ {0} /\ M = 2 * N /\ Roots(e) = 0..(M - 1)
      BY HalfPower DEF Roots
<1>2. g \in Elements(e) /\ g # Zero /\ g \in Nat
      BY ElementsAre
<1> HIDE DEF N, M
<1>3. 1 \in Roots(e)
      BY <1>1
<1>4. 1 \in Elements(e) /\ 1 # Zero
      BY <1>3, ElementsAre
<1> DEFINE b == Dlog(e, 1, g).a
<1>5. b \in 0..(M - 1) /\ Pow(e, g, b) = 1
      BY <1>2, <1>4, DlogIs DEF M
<1> HIDE DEF b
<1>6. b \in Nat
      BY <1>1, <1>5
<1>7. Same(1, g * b, M)
      BY <1>5, <1>6, PowSame DEF M
<1> QED
    BY <1>6, <1>7 DEF Same, M

\* An entry of the table of small powers.
LEMMA RootAtIs ==
    ASSUME NEW e \in Exponents, LeafBits <= e, NEW g \in Roots(e), NEW len \in 1..LeafBits, NEW x \in Nat
    PROVE  /\ RootAt(e, g, RootIndex(x, len)) \in Roots(e)
           /\ Same(RootAt(e, g, RootIndex(x, len)), (g * 2 ^ (e - len)) * x, 2 ^ e)
<1> DEFINE M == 2 ^ e
           w == 2 ^ (e - LeafBits)
           u == 2 ^ (LeafBits - len)
           B == 2 ^ LeafBits
           K == 2 ^ (e - len)
           h == Inv(e, g)
           z == Pow(e, h, w)
           y == -(x * u)
           j == y % B
<1>1. e \in Nat /\ LeafBits \in Nat /\ len \in Nat /\ e - LeafBits \in Nat /\ LeafBits - len \in Nat
      BY LogAssumption
<1>2. w * u = K /\ w \in Nat \ {0} /\ u \in Nat \ {0}
      <2>1. (e - LeafBits) + (LeafBits - len) = e - len /\ (e - LeafBits) + (LeafBits - len) <= e
            BY <1>1
      <2>2. 2 ^ ((e - LeafBits) + (LeafBits - len)) = w * u /\ w \in Nat \ {0} /\ u \in Nat \ {0}
            BY <1>1, <2>1, OrderToSum
      <2> QED
          BY <2>1, <2>2
<1>3. w * B = M /\ B \in Nat \ {0} /\ M \in Nat \ {0}
      <2>1. (e - LeafBits) + LeafBits = e /\ (e - LeafBits) + LeafBits <= e
            BY <1>1
      <2>2. 2 ^ ((e - LeafBits) + LeafBits) = w * B /\ B \in Nat \ {0}
            BY <1>1, <2>1, OrderToSum
      <2> QED
          BY <2>1, <2>2, ElementsAre
<1>4. g \in Elements(e) /\ g # Zero /\ g \in Nat
      BY ElementsAre
<1>5. h \in Roots(e) /\ Same(h, -g, M)
      BY <1>4, InvIs
<1>6. h \in Nat
      BY <1>5, ElementsAre
<1>7. RootAt(e, g, RootIndex(x, len)) = Pow(e, z, j)
      BY DEF RootAt, RootIndex
<1> HIDE DEF h, w, u, B, K, M
<1>8. z \in Roots(e) /\ Same(z, h * w, M)
      BY <1>2, <1>5, PowSame DEF M
<1>9. z \in Nat
      BY <1>8, ElementsAre
<1> HIDE DEF z
<1>10. y \in Int
       BY <1>2
<1> HIDE DEF y
<1>11. j \in 0..(B - 1) /\ \E c \in Int : j = y + c * B
       <2>1. j \in 0..(B - 1) /\ j \in Int /\ Same(j, y, B)
             BY <1>3, <1>10, SameResidue
       <2> HIDE DEF j
       <2>2. j % B = y % B
             BY <2>1 DEF Same
       <2> QED
           BY <1>3, <1>10, <2>1, <2>2, ModDiffer
<1>12. j \in Nat
       BY <1>3, <1>11
<1> HIDE DEF j
<1>13. Pow(e, z, j) \in Roots(e) /\ Same(Pow(e, z, j), z * j, M)
       BY <1>8, <1>12, PowSame DEF M
<1>14. Same(z * j, (h * w) * j, M)
       <2>1. h * w \in Int /\ z \in Int /\ j \in Int /\ Same(j, j, M)
             BY <1>2, <1>6, <1>9, <1>12 DEF Same
       <2> QED
           BY <1>3, <1>8, <2>1, SameMul
<1>15. PICK c \in Int : j = y + c * B
       BY <1>11
<1> DEFINE V == -(K * x)
<1>16. K \in Nat /\ V \in Int
       <2>1. w * u \in Nat
             BY <1>2
       <2>2. K \in Nat
             BY <1>2, <2>1
       <2> QED
           BY <2>2
<1>17. (h * w) * j = h * V + (h * c) * M
       <2>1. w * y = V
             <3>1. w * y = -((w * u) * x)
                   BY <1>2 DEF y
             <3> QED
                 BY <1>2, <3>1
       <2>2. (h * w) * j = h * (w * y) + (h * c) * (w * B)
             BY <1>2, <1>3, <1>6, <1>10, <1>15
       <2> QED
           BY <1>3, <2>1, <2>2
<1>18. Same(h * V, (-g) * V, M)
       <2>1. -g \in Int /\ h \in Int /\ Same(V, V, M)
             BY <1>4, <1>6 DEF Same
       <2> HIDE DEF V
       <2> QED
           BY <1>3, <1>5, <1>16, <2>1, SameMul
<1>19. (-g) * V = (g * K) * x
       BY <1>4, <1>16
<1> HIDE DEF V
<1>20. Same((h * w) * j, h * V, M)
       <2>1. (h * w) * j \in Int /\ h * V \in Int /\ h * c \in Int
             BY <1>2, <1>6, <1>12, <1>15, <1>16
       <2> DEFINE S == (h * w) * j
                  T == h * V
                  k == h * c
       <2>2. S \in Int /\ T \in Int /\ k \in Int /\ S = T + k * M
             BY <1>17, <2>1
       <2> HIDE DEF S, T, k
       <2>3. S % M = T % M
             BY <1>3, <2>2, ModShift
       <2> QED
           BY <2>3 DEF Same, S, T
<1>21. Same(Pow(e, z, j), (g * K) * x, M)
       BY <1>13, <1>14, <1>18, <1>19, <1>20, Zenon DEF Same
<1> QED
    BY <1>7, <1>13, <1>21 DEF M, K, z, j

LEMMA FixedLeafFinds ==
    ASSUME NEW e \in Exponents, LeafBits <= e, NEW g \in Roots(e), g % 2 = 1,
           NEW len \in 1..LeafBits, NEW f \in Elements(e)
    PROVE  FixedLeaf(e, g, len, f) \in FixedAnswers /\ FixedFinds(e, g, len, f, FixedLeaf(e, g, len, f))
<1> DEFINE M == 2 ^ e
           W == 2 ^ len
           K == 2 ^ (e - len)
           found == {x \in 0..(W - 1) : RootAt(e, g, RootIndex(x, len)) = f}
           a == CHOOSE x \in found : \A y \in found : x <= y
           r == FixedLeaf(e, g, len, f)
<1>1. e \in Nat /\ LeafBits \in Nat /\ len \in Nat /\ e - len \in Nat /\ (e - len) + len = e /\ len \in 0..e
      BY LogAssumption
<1>2. M = K * W /\ W \in Nat \ {0} /\ K \in Nat \ {0} /\ M \in Nat \ {0}
      <2>1. 2 ^ ((e - len) + len) = K * W /\ W \in Nat \ {0} /\ K \in Nat \ {0}
            BY <1>1, OrderToSum
      <2> QED
          BY <1>1, <2>1, ElementsAre
<1>3. r = IF found = {} THEN Pending ELSE [ok |-> TRUE, a |-> a]
      BY DEF FixedLeaf
<1>4. g \in Nat
      BY ElementsAre
<1> HIDE DEF M, W, K, r
<1>5. \A x \in 0..(W - 1) : /\ x \in Nat /\ RootAt(e, g, RootIndex(x, len)) \in Roots(e)
                            /\ Same(RootAt(e, g, RootIndex(x, len)), (g * K) * x, M)
      <2> TAKE x \in 0..(W - 1)
      <2>1. x \in Nat
            BY <1>2
      <2> QED
          BY <2>1, RootAtIs DEF K, M
<1>6. ASSUME found # {}
      PROVE  a \in 0..(W - 1) /\ RootAt(e, g, RootIndex(a, len)) = f
      <2>1. found \subseteq Nat
            BY <1>5
      <2>2. \E x \in found : \A y \in found : x <= y
            <3> HIDE DEF found
            <3> QED
                BY <1>6, <2>1, LeastElement
      <2>3. a \in found
            BY <2>2
      <2> HIDE DEF a
      <2> QED
          BY <2>3
<1>7. ASSUME f # Zero, Dies(e, f, len)
      PROVE  found # {}
      <2>1. f \in Roots(e) /\ f \in Nat
            BY <1>7, ElementsAre
      <2> DEFINE t == (f * W) \div M
      <2>2. f * W = M * t /\ t \in Int
            <3>1. f * W \in Int
                  BY <1>2, <2>1
            <3>2. f * W = M * t + ((f * W) % M) /\ t \in Int
                  BY <1>2, <3>1, DivMod
            <3>3. (f * W) % M = 0
                  BY <1>7 DEF Dies, W, M
            <3> HIDE DEF t
            <3>4. M * t \in Int
                  BY <1>2, <3>2
            <3> QED
                BY <3>2, <3>3, <3>4
      <2> HIDE DEF t
      <2>3. f = K * t
            <3>1. f * W = (K * t) * W
                  <4>1. M * t = (K * t) * W
                        BY <1>2, <2>2
                  <4> QED
                      BY <2>2, <4>1
            <3> DEFINE s == K * t
            <3>2. s \in Int /\ f * W = s * W
                  BY <1>2, <2>2, <3>1
            <3> HIDE DEF s
            <3>3. f = s
                  BY <1>2, <2>1, <3>2
            <3> QED
                BY <3>3 DEF s
      <2>4. PICK b \in Nat : Same(g * b, 1, M)
            BY Invertible DEF M
      <2>5. PICK d \in Int : g * b = 1 + d * M
            <3>1. g * b \in Int /\ 1 \in Int /\ (g * b) % M = 1 % M
                  BY <1>4, <2>4 DEF Same
            <3> QED
                BY <1>2, <3>1, ModDiffer
      <2> DEFINE v == b * t
                 x == v % W
                 s == v \div W
      <2>6. v \in Int
            BY <2>2
      <2>7. v = W * s + x /\ x \in 0..(W - 1) /\ s \in Int
            <3> HIDE DEF v
            <3> QED
                BY <1>2, <2>6, DivMod
      <2> HIDE DEF x, s
      <2>8. x \in Int
            BY <1>2, <2>7
      <2>9. (g * K) * x = f + (d * f - g * s) * M
            <3>1. x = v - W * s
                  <4> HIDE DEF v
                  <4>1. W * s \in Int
                        BY <1>2, <2>7
                  <4> QED
                      BY <2>6, <2>7, <2>8, <4>1
            <3>2. (g * K) * x = (g * K) * (b * t) - (g * K) * (W * s)
                  BY <1>2, <1>4, <2>2, <2>4, <2>7, <3>1
            <3>3. (g * K) * (b * t) = (g * b) * (K * t)
                  BY <1>2, <1>4, <2>2, <2>4
            <3>4. (g * b) * (K * t) = f + (d * f) * M
                  <4>1. (g * b) * (K * t) = (1 + d * M) * f
                        BY <2>3, <2>5
                  <4>2. (1 + d * M) * f = f + (d * f) * M
                        BY <1>2, <2>1, <2>5
                  <4> QED
                      BY <4>1, <4>2
            <3>5. (g * K) * (W * s) = (g * s) * M
                  <4>1. (g * K) * (W * s) = (g * s) * (K * W)
                        BY <1>2, <1>4, <2>7
                  <4> QED
                      BY <1>2, <4>1
            <3>6. (f + (d * f) * M) - (g * s) * M = f + (d * f - g * s) * M
                  BY <1>2, <1>4, <2>1, <2>5, <2>7
            <3>7. (g * K) * x = (f + (d * f) * M) - (g * s) * M
                  BY ONLY <3>2, <3>3, <3>4, <3>5, Zenon
            <3> QED
                BY <3>6, <3>7, Zenon
      <2>10. Same((g * K) * x, f, M)
             <3>1. (g * K) * x \in Int /\ f \in Int /\ d * f - g * s \in Int
                   BY <1>2, <1>4, <2>1, <2>5, <2>7, <2>8
             <3> DEFINE S == (g * K) * x
                        k == d * f - g * s
             <3>2. S \in Int /\ f \in Int /\ k \in Int /\ S = f + k * M
                   BY <2>9, <3>1
             <3> HIDE DEF S, k
             <3>3. S % M = f % M
                   BY <1>2, <3>2, ModShift
             <3> QED
                 BY <3>3 DEF Same, S
      <2>11. RootAt(e, g, RootIndex(x, len)) = f
             <3>1. RootAt(e, g, RootIndex(x, len)) \in Roots(e) /\ Same(RootAt(e, g, RootIndex(x, len)), f, M)
                   BY <1>5, <2>7, <2>10 DEF Same
             <3> QED
                 BY <2>1, <3>1, RootsEqual DEF M
      <2> QED
          BY <2>7, <2>11
<1> HIDE DEF a
<1>8. CASE found = {}
      <2>1. r = Pending
            BY <1>3, <1>8
      <2>2. r.ok = FALSE /\ r.a = 0 /\ r \in FixedAnswers
            BY <2>1 DEF Pending, FixedAnswers
      <2>3. ~(f # Zero /\ Dies(e, f, len))
            BY <1>7, <1>8
      <2> HIDE DEF found
      <2>4. FixedFinds(e, g, len, f, r)
            BY <2>2, <2>3 DEF FixedFinds
      <2> QED
          BY <2>2, <2>4 DEF r
<1>9. CASE found # {}
      <2>1. r = [ok |-> TRUE, a |-> a]
            BY <1>3, <1>9
      <2>2. a \in 0..(W - 1) /\ RootAt(e, g, RootIndex(a, len)) = f
            BY <1>6, <1>9
      <2> HIDE DEF found
      <2>3. a \in Nat /\ a <= W - 1
            BY <1>2, <2>2
      <2>4. r.ok = TRUE /\ r.a = a /\ r \in FixedAnswers
            BY <2>1, <2>3 DEF FixedAnswers
      <2>5. f \in Roots(e) /\ Same(f, (g * K) * a, M)
            BY <1>5, <2>2
      <2>6. f # Zero
            BY <2>5, ElementsAre
      <2>7. FixedFinds(e, g, len, f, r)
            BY <2>3, <2>4, <2>5, <2>6, Zenon DEF FixedFinds, K, M, W
      <2> QED
          BY <2>4, <2>7 DEF r
<1> QED
    BY <1>8, <1>9

\* A split of the table search.
LEMMA FixedSplitFinds ==
    ASSUME NEW e \in Exponents, NEW g \in Roots(e), NEW n \in 2..e,
           NEW low \in FixedSolved(e, g, n \div 2), NEW high \in FixedSolved(e, g, n - n \div 2),
           NEW f \in Elements(e), NEW k \in 0..(e - n)
    PROVE  /\ FixedSplit(e, g, n, low, high, f, k) \in FixedAnswers
           /\ k = e - n => FixedFinds(e, g, n, f, FixedSplit(e, g, n, low, high, f, k))
<1> DEFINE r    == n \div 2
           l    == n - r
           f1   == Pow(e, f, 2 ^ l)
           lo   == low[<<f1, k + l>>]
           h    == Inv(e, g)
           pw   == Pow(e, h, 2 ^ k * lo.a)
           rest == Mul(e, f, pw)
           hi   == high[<<rest, k + r>>]
           a    == hi.a * 2 ^ r + lo.a
           ans  == FixedSplit(e, g, n, low, high, f, k)
           M    == 2 ^ e
           A    == 2 ^ r
           B    == 2 ^ l
           K    == 2 ^ k
<1>0. ans = IF lo.ok /\ hi.ok THEN [ok |-> TRUE, a |-> a] ELSE Pending
      BY DEF FixedSplit
<1>1. /\ r \in Nat \ {0} /\ l \in Nat \ {0} /\ r + l = n /\ l + r = n /\ l + r <= e /\ n \in Nat /\ n <= e /\ e \in Nat
      /\ r \in 1..e /\ l \in 1..e /\ n \in 1..e
      <2>1. e \in Nat
            BY LogAssumption
      <2>2. n \in Nat /\ n >= 2 /\ n <= e
            BY <2>1
      <2>3. r \in 1..(n - 1) /\ l \in 1..(n - 1)
            BY <2>2, HalvesLess
      <2> QED
          BY <2>1, <2>2, <2>3
<1>2. /\ low \in [Elements(e) \X (0..(e - r)) -> FixedAnswers]
      /\ \A x \in Elements(e) : FixedFinds(e, g, r, x, low[<<x, e - r>>])
      BY DEF FixedSolved
<1>3. /\ high \in [Elements(e) \X (0..(e - l)) -> FixedAnswers]
      /\ \A x \in Elements(e) : FixedFinds(e, g, l, x, high[<<x, e - l>>])
      BY DEF FixedSolved
<1> HIDE DEF r, l, ans, h
<1>4. k \in Nat /\ k <= e /\ k \in 0..e /\ k + l \in 0..(e - r) /\ k + r \in 0..(e - l)
      BY <1>1
<1>5. A \in Nat \ {0} /\ B \in Nat \ {0} /\ K \in Nat \ {0} /\ M \in Nat \ {0} /\ 2 ^ n = B * A
      BY <1>1, <1>4, OrderTo, OrderToSum, ElementsAre
<1> HIDE DEF M, A, B, K
<1>6. f1 \in Elements(e)
      BY <1>5, PowIs DEF B
<1>7. lo \in FixedAnswers
      <2> HIDE DEF f1
      <2>1. <<f1, k + l>> \in Elements(e) \X (0..(e - r))
            BY <1>4, <1>6
      <2> QED
          BY <1>2, <2>1
<1>8. lo.ok \in BOOLEAN /\ lo.a \in Nat
      BY <1>7 DEF FixedAnswers
<1> HIDE DEF lo, f1
<1> DEFINE c == K * lo.a
<1>9. c \in Nat
      BY <1>5, <1>8
<1>10. pw = Pow(e, h, c)
       BY DEF K
<1>11. g \in Elements(e) /\ g # Zero /\ g \in Nat
       BY ElementsAre
<1>12. h \in Roots(e) /\ Same(h, -g, M)
       BY <1>11, InvIs DEF h, M
<1> HIDE DEF c, pw
<1>13. pw \in Roots(e) /\ Same(pw, h * c, M)
       BY <1>9, <1>10, <1>12, PowSame DEF M
<1>14. pw \in Elements(e) /\ pw # Zero /\ pw \in Nat /\ h \in Nat
       BY <1>12, <1>13, ElementsAre
<1>15. rest \in Elements(e)
       BY <1>14, MulIs
<1>16. hi \in FixedAnswers
       <2> HIDE DEF rest
       <2>1. <<rest, k + r>> \in Elements(e) \X (0..(e - l))
             BY <1>4, <1>15
       <2> QED
           BY <1>3, <2>1
<1>17. hi.ok \in BOOLEAN /\ hi.a \in Nat
       BY <1>16 DEF FixedAnswers
<1>18. a = hi.a * A + lo.a /\ a \in Nat
       <2>1. a = hi.a * A + lo.a
             BY DEF A
       <2>2. hi.a * A \in Nat
             BY <1>5, <1>17
       <2> HIDE DEF a
       <2> QED
           BY <1>8, <2>1, <2>2
<1> HIDE DEF hi, a
<1>19. ans \in FixedAnswers
       <2>1. Pending \in FixedAnswers /\ [ok |-> TRUE, a |-> a] \in FixedAnswers
             BY <1>18 DEF Pending, FixedAnswers
       <2> QED
           BY <1>0, <2>1
<1>20. ASSUME k = e - n
       PROVE  FixedFinds(e, g, n, f, ans)
       <2>1. k + l = e - r /\ k + r = e - l /\ k + l <= e /\ k + r <= e /\ (e - n) + n = e
             BY <1>1, <1>20
       <2>2. 2 ^ (e - r) = K * B /\ 2 ^ (e - l) = K * A /\ 2 ^ (e - n) = K
             <3>1. 2 ^ (k + l) = K * B /\ 2 ^ (k + r) = K * A
                   BY <1>1, <1>4, <2>1, OrderToSum DEF K, A, B
             <3> QED
                 BY <1>20, <2>1, <3>1 DEF K
       <2>3. /\ f1 = Zero => ~lo.ok
             /\ f1 # Zero /\ Dies(e, f1, r) => lo.ok
             /\ lo.ok => lo.a <= A - 1 /\ Same(f1, (g * (K * B)) * lo.a, M)
             <3>1. FixedFinds(e, g, r, f1, lo)
                   <4>1. lo = low[<<f1, e - r>>]
                         BY <2>1 DEF lo
                   <4> QED
                       BY <1>2, <1>6, <4>1
             <3> QED
                 BY <2>2, <3>1 DEF FixedFinds, A, M
       <2>4. /\ rest = Zero => ~hi.ok
             /\ rest # Zero /\ Dies(e, rest, l) => hi.ok
             /\ hi.ok => hi.a <= B - 1 /\ Same(rest, (g * (K * A)) * hi.a, M)
             <3>1. FixedFinds(e, g, l, rest, hi)
                   <4>1. hi = high[<<rest, e - l>>]
                         BY <2>1 DEF hi
                   <4> HIDE DEF rest
                   <4> QED
                       BY <1>3, <1>15, <4>1
             <3> HIDE DEF rest
             <3> QED
                 BY <2>2, <3>1 DEF FixedFinds, B, M
       <2>5. f = Zero => ~ans.ok
             <3> HAVE f = Zero
             <3>1. f1 = Zero
                   BY <1>5, PowIs DEF f1, B
             <3>2. ans = Pending
                   BY <1>0, <2>3, <3>1
             <3> QED
                 BY <3>2 DEF Pending
       <2>6. ASSUME f # Zero
             PROVE  /\ f \in Roots(e) /\ f \in Nat /\ f1 \in Roots(e) /\ f1 \in Nat /\ f1 # Zero
                    /\ Same(f1, f * B, M)
                    /\ rest \in Roots(e) /\ rest \in Nat /\ rest # Zero
                    /\ Same(rest, f + h * c, M)
             <3>1. f \in Roots(e) /\ f \in Nat
                   BY <2>6, ElementsAre
             <3>2. f1 \in Roots(e) /\ Same(f1, f * B, M)
                   BY <1>5, <3>1, PowSame DEF f1, B, M
             <3>3. rest \in Roots(e) /\ Same(rest, f + pw, M)
                   BY <1>13, <3>1, MulSame DEF M
             <3>4. Same(f + pw, f + h * c, M)
                   <4>1. Same(f, f, M) /\ f \in Int /\ pw \in Int /\ h * c \in Int
                         BY <1>9, <1>14, <3>1 DEF Same
                   <4> QED
                       BY <1>5, <1>13, <4>1, SameAdd
             <3> HIDE DEF rest
             <3>5. f1 \in Nat /\ f1 # Zero /\ rest \in Nat /\ rest # Zero
                   BY <3>2, <3>3, ElementsAre
             <3>6. Same(rest, f + h * c, M)
                   BY <3>3, <3>4, Zenon DEF Same
             <3> QED
                 BY <3>1, <3>2, <3>3, <3>5, <3>6
       <2> HIDE DEF rest
       <2> DEFINE G == g * c
       <2>7. G \in Nat /\ G \in Int
             BY <1>9, <1>11
       <2>8. Same(h * c, -G, M)
             <3>1. -g \in Int /\ h \in Int /\ c \in Int /\ Same(c, c, M)
                   BY <1>9, <1>11, <1>14 DEF Same
             <3>2. Same(h * c, (-g) * c, M)
                   BY <1>5, <1>12, <3>1, SameMul
             <3>3. (-g) * c = -G
                   BY <1>9, <1>11
             <3> QED
                 BY <3>2, <3>3
       <2> HIDE DEF G
       <2>9. f # Zero => Same(rest, f - G, M)
             <3> HAVE f # Zero
             <3>1. f \in Int /\ -G \in Int /\ h * c \in Int /\ Same(f, f, M)
                   BY <1>9, <1>14, <2>6, <2>7 DEF Same
             <3>2. Same(f + h * c, f + (-G), M)
                   BY <1>5, <2>8, <3>1, SameAdd
             <3>3. f + (-G) = f - G
                   BY <2>7, <3>1
             <3>4. Same(rest, f + h * c, M)
                   BY <2>6
             <3> QED
                 BY <3>2, <3>3, <3>4, Zenon DEF Same
       <2>10. (g * (K * B)) * lo.a = G * B
              BY <1>5, <1>8, <1>11 DEF G, c
       <2>11. f # Zero /\ Dies(e, f, n) => ans.ok
              <3> HAVE f # Zero /\ Dies(e, f, n)
              <3>1. Dies(e, f1, r)
                    <4>1. Dies(e, Pow(e, f, 2 ^ l), r) <=> Dies(e, f, l + r)
                          BY <1>1, <2>6, DiesAfter
                    <4> QED
                        BY <1>1, <4>1 DEF f1
              <3>2. lo.ok /\ Same(f1, G * B, M)
                    BY <2>3, <2>6, <2>10, <3>1
              <3>3. Same(f * B, G * B, M)
                    BY <2>6, <3>2, Zenon DEF Same
              <3>4. Same(f * B - G * B, 0, M)
                    <4>1. f * B \in Int /\ G * B \in Int /\ Same(G * B, G * B, M)
                          BY <1>5, <2>6, <2>7 DEF Same
                    <4> DEFINE x == f * B
                               y == G * B
                    <4>2. x \in Int /\ y \in Int /\ Same(x, y, M) /\ Same(y, y, M)
                          BY <3>3, <4>1
                    <4> HIDE DEF x, y
                    <4>3. Same(x - y, y - y, M)
                          BY <1>5, <4>2, SameSub
                    <4>4. y - y = 0
                          BY <4>2
                    <4> QED
                        BY <4>3, <4>4 DEF x, y
              <3>5. Dies(e, f - G, l)
                    <4>1. (f - G) * B = f * B - G * B
                          BY <1>5, <2>6, <2>7
                    <4>2. 0 % M = 0
                          BY <1>5
                    <4>3. ((f - G) * B) % M = 0
                          BY <3>4, <4>1, <4>2 DEF Same
                    <4> QED
                        BY <4>3 DEF Dies, B, M
              <3>6. Dies(e, rest, l)
                    <4>1. rest \in Int /\ f - G \in Int /\ l \in 0..e /\ Same(rest, f - G, M)
                          BY <1>1, <2>6, <2>7, <2>9
                    <4> QED
                        BY <3>5, <4>1, DiesSame DEF M
              <3>7. hi.ok
                    BY <2>4, <2>6, <3>6
              <3> QED
                  BY <1>0, <3>2, <3>7
       <2>12. ans.ok => ans.a <= 2 ^ n - 1 /\ Same(f, (g * K) * ans.a, M)
              <3> HAVE ans.ok
              <3>1. lo.ok /\ hi.ok /\ ans.a = a
                    BY <1>0 DEF Pending
              <3>2. f # Zero
                    BY <2>5
              <3>3. a <= 2 ^ n - 1
                    <4> DEFINE N == 2 ^ n
                               x == hi.a
                               y == lo.a
                    <4>1. N = A * B /\ x \in Nat /\ y \in Nat /\ x <= B - 1 /\ y <= A - 1 /\ a = x * A + y
                          BY <1>5, <1>8, <1>17, <1>18, <2>3, <2>4, <3>1
                    <4> HIDE DEF N, x, y
                    <4>2. x * A <= (B - 1) * A /\ x * A \in Nat
                          BY <1>5, <4>1
                    <4>3. (B - 1) * A = A * B - A /\ A * B \in Nat
                          BY <1>5
                    <4>4. a <= N - 1
                          BY <1>5, <4>1, <4>2, <4>3
                    <4> QED
                        BY <4>4 DEF N
              <3>4. Same(f - G, (g * (K * A)) * hi.a, M)
                    BY <2>4, <2>9, <3>1, <3>2, Zenon DEF Same
              <3> DEFINE X == (g * (K * A)) * hi.a
              <3>5. X \in Int
                    BY <1>5, <1>11, <1>17
              <3>6. (g * K) * a = X + G
                    <4>1. (g * K) * a = (g * K) * (hi.a * A) + (g * K) * lo.a
                          BY <1>5, <1>8, <1>11, <1>17, <1>18
                    <4>2. (g * K) * (hi.a * A) = X
                          BY <1>5, <1>11, <1>17
                    <4>3. (g * K) * lo.a = G
                          BY <1>5, <1>8, <1>11 DEF G, c
                    <4> QED
                        BY <4>1, <4>2, <4>3
              <3> HIDE DEF X
              <3>7. f \in Int /\ f - G \in Int /\ Same(G, G, M)
                    BY <2>6, <2>7, <3>2 DEF Same
              <3>8. Same((f - G) + G, X + G, M)
                    BY <1>5, <2>7, <3>4, <3>5, <3>7, SameAdd DEF X
              <3>9. (f - G) + G = f
                    BY <2>7, <3>7
              <3> QED
                  BY <3>1, <3>3, <3>6, <3>8, <3>9
       <2> QED
           BY <2>2, <2>5, <2>11, <2>12, Zenon DEF FixedFinds, M
<1> QED
    BY <1>19, <1>20 DEF ans

LEMMA FixedSolvedLeaf ==
    ASSUME NEW e \in Exponents, LeafBits <= e, NEW g \in Roots(e), g % 2 = 1, NEW len \in 1..LeafBits
    PROVE  [p \in Elements(e) \X (0..(e - len)) |-> FixedLeaf(e, g, len, p[1])] \in FixedSolved(e, g, len)
<1> DEFINE D == Elements(e) \X (0..(e - len))
           Fn == [p \in D |-> FixedLeaf(e, g, len, p[1])]
<1>1. e - len \in 0..(e - len)
      BY LogAssumption
<1>2. \A p \in D : Fn[p] = FixedLeaf(e, g, len, p[1])
      OBVIOUS
<1>3. Fn = [p \in D |-> Fn[p]]
      OBVIOUS
<1> HIDE DEF Fn
<1>4. \A p \in D : Fn[p] \in FixedAnswers
      BY <1>2, FixedLeafFinds
<1>5. Fn \in [D -> FixedAnswers]
      BY <1>3, <1>4
<1>6. \A f \in Elements(e) : FixedFinds(e, g, len, f, Fn[<<f, e - len>>])
      <2> TAKE f \in Elements(e)
      <2>1. <<f, e - len>> \in D /\ <<f, e - len>>[1] = f
            BY <1>1
      <2>2. Fn[<<f, e - len>>] = FixedLeaf(e, g, len, f)
            BY <1>2, <2>1
      <2>3. FixedFinds(e, g, len, f, FixedLeaf(e, g, len, f))
            BY FixedLeafFinds
      <2> QED
          BY <2>2, <2>3
<1>7. Fn \in FixedSolved(e, g, len)
      BY <1>5, <1>6, Zenon DEF FixedSolved, D
<1> QED
    BY <1>7 DEF Fn

LEMMA FixedSolvedSplit ==
    ASSUME NEW e \in Exponents, NEW g \in Roots(e), NEW n \in 2..e,
           NEW low \in FixedSolved(e, g, n \div 2), NEW high \in FixedSolved(e, g, n - n \div 2)
    PROVE  [p \in Elements(e) \X (0..(e - n)) |-> FixedSplit(e, g, n, low, high, p[1], p[2])] \in FixedSolved(e, g, n)
<1> DEFINE D == Elements(e) \X (0..(e - n))
           Fn == [p \in D |-> FixedSplit(e, g, n, low, high, p[1], p[2])]
<1>1. e - n \in 0..(e - n)
      BY LogAssumption
<1>2. \A p \in D : Fn[p] = FixedSplit(e, g, n, low, high, p[1], p[2])
      OBVIOUS
<1>3. Fn = [p \in D |-> Fn[p]]
      OBVIOUS
<1> HIDE DEF Fn
<1>4. \A p \in D : Fn[p] \in FixedAnswers
      <2> TAKE p \in D
      <2>1. p[1] \in Elements(e) /\ p[2] \in 0..(e - n)
            OBVIOUS
      <2>2. FixedSplit(e, g, n, low, high, p[1], p[2]) \in FixedAnswers
            BY <2>1, FixedSplitFinds
      <2> QED
          BY <1>2, <2>2
<1>5. Fn \in [D -> FixedAnswers]
      BY <1>3, <1>4
<1>6. \A f \in Elements(e) : FixedFinds(e, g, n, f, Fn[<<f, e - n>>])
      <2> TAKE f \in Elements(e)
      <2>1. <<f, e - n>> \in D /\ <<f, e - n>>[1] = f /\ <<f, e - n>>[2] = e - n
            BY <1>1
      <2>2. Fn[<<f, e - n>>] = FixedSplit(e, g, n, low, high, f, e - n)
            BY <1>2, <2>1
      <2>3. FixedFinds(e, g, n, f, FixedSplit(e, g, n, low, high, f, e - n))
            BY <1>1, FixedSplitFinds
      <2> QED
          BY <2>2, <2>3
<1>7. Fn \in FixedSolved(e, g, n)
      BY <1>5, <1>6, Zenon DEF FixedSolved, D
<1> QED
    BY <1>7 DEF Fn

LEMMA FixedDlogFinds ==
    ASSUME NEW e \in Exponents, LeafBits <= e, NEW g \in Roots(e), g % 2 = 1, NEW f \in Elements(e)
    PROVE  FixedDlog(e, f, g) \in FixedAnswers /\ FixedFinds(e, g, e, f, FixedDlog(e, f, g))
<1>1. e \in Nat \ {0} /\ LeafBits \in Nat \ {0} /\ e \in Nat
      BY LogAssumption
<1> DEFINE Leaf(n) == [p \in Elements(e) \X (0..(e - n)) |-> FixedLeaf(e, g, n, p[1])]
           Both(n, a, b) == [p \in Elements(e) \X (0..(e - n)) |-> FixedSplit(e, g, n, a, b, p[1], p[2])]
           Law(h) == h = [n \in 1..e |-> IF n <= LeafBits
                                       THEN [p \in Elements(e) \X (0..(e - n)) |-> FixedLeaf(e, g, n, p[1])]
                                       ELSE [p \in Elements(e) \X (0..(e - n)) |->
                                                FixedSplit(e, g, n, h[n \div 2], h[n - n \div 2], p[1], p[2])]]
           rec == CHOOSE h : Law(h)
           U == UNION {FixedSolved(e, g, n) : n \in 1..e}
           start == [n \in 1..e |-> Leaf(n)]
           step == [p \in Nat \X U \X U |-> Both(p[1], p[2], p[3])]
           S == [n \in 1..e |-> FixedSolved(e, g, n)]
<1>2. \A n \in 1..e : S[n] = FixedSolved(e, g, n) /\ S[n] \subseteq U
      OBVIOUS
<1>3. \A n \in 1..e, a \in U, b \in U : step[<<n, a, b>>] = Both(n, a, b)
      <2> TAKE n \in 1..e, a \in U, b \in U
      <2> DEFINE p == <<n, a, b>>
      <2>1. p \in Nat \X U \X U
            BY <1>1
      <2>2. p[1] = n /\ p[2] = a /\ p[3] = b
            OBVIOUS
      <2> HIDE DEF U, p, Both
      <2>3. step[p] = Both(p[1], p[2], p[3])
            BY <2>1
      <2> QED
          BY <2>2, <2>3 DEF p
<1>4. \A n \in 1..e : n <= LeafBits => Leaf(n) \in FixedSolved(e, g, n)
      <2> TAKE n \in 1..e
      <2> HAVE n <= LeafBits
      <2>1. n \in 1..LeafBits
            BY <1>1
      <2> QED
          BY <2>1, FixedSolvedLeaf
<1>5. \A n \in 1..e : start[n] = Leaf(n)
      OBVIOUS
<1>6. ASSUME NEW n \in 1..e, n > LeafBits
      PROVE  n \in 2..e /\ n \div 2 \in 1..e /\ n - n \div 2 \in 1..e
      <2>1. n \in Nat /\ n >= 2 /\ n \in 2..e
            BY <1>1, <1>6
      <2> DEFINE i == n \div 2
                 j == n - n \div 2
      <2>2. i \in 1..(n - 1) /\ j \in 1..(n - 1)
            BY <2>1, HalvesLess
      <2> HIDE DEF i, j
      <2>3. i \in 1..e /\ j \in 1..e
            BY <1>1, <2>1, <2>2
      <2> QED
          BY <2>1, <2>3 DEF i, j
<1> HIDE DEF step, U, S, start
<1>7. \A n \in 1..e : n > LeafBits => \A a \in S[n \div 2], b \in S[n - n \div 2] :
          step[<<n, a, b>>] = Both(n, a, b) /\ step[<<n, a, b>>] \in S[n]
      <2> SUFFICES ASSUME NEW n \in 1..e, n > LeafBits, NEW a \in S[n \div 2], NEW b \in S[n - n \div 2]
                   PROVE  step[<<n, a, b>>] = Both(n, a, b) /\ step[<<n, a, b>>] \in S[n]
          BY Zenon
      <2>1. n \in 2..e /\ n \div 2 \in 1..e /\ n - n \div 2 \in 1..e
            BY <1>6
      <2>2. a \in FixedSolved(e, g, n \div 2) /\ b \in FixedSolved(e, g, n - n \div 2) /\ a \in U /\ b \in U
            BY <1>2, <2>1
      <2>4. Both(n, a, b) \in FixedSolved(e, g, n)
            BY <2>1, <2>2, FixedSolvedSplit
      <2> HIDE DEF Both
      <2>3. step[<<n, a, b>>] = Both(n, a, b)
            BY <1>3, <2>2
      <2> QED
          BY <1>2, <2>3, <2>4
<1>8. \A n \in 1..e : n <= LeafBits => start[n] \in S[n]
      <2> HIDE DEF Leaf
      <2> QED
          BY <1>2, <1>4, <1>5
<1>9. \E h : Law(h)
      <2>1. \A n \in 1..e : n > LeafBits => \A a \in S[n \div 2], b \in S[n - n \div 2] : step[<<n, a, b>>] \in S[n]
            <3> HIDE DEF Both
            <3> QED
                BY <1>7
      <2>2. PICK h : Halving(h, e, LeafBits, start, step) /\ \A n \in 1..e : h[n] \in S[n]
            BY <1>1, <1>8, <2>1, HalvingWithin
      <2>3. h = [n \in 1..e |-> IF n <= LeafBits THEN start[n] ELSE step[<<n, h[n \div 2], h[n - n \div 2]>>]]
            BY <2>2, Zenon DEF Halving
      <2>4. h = [n \in 1..e |-> h[n]]
            BY <2>3, Zenon
      <2>5. \A n \in 1..e : h[n] = IF n <= LeafBits THEN start[n] ELSE step[<<n, h[n \div 2], h[n - n \div 2]>>]
            BY <2>3, Zenon
      <2>6. \A n \in 1..e : h[n] = IF n <= LeafBits THEN Leaf(n) ELSE Both(n, h[n \div 2], h[n - n \div 2])
            <3> HIDE DEF Leaf, Both
            <3> TAKE n \in 1..e
            <3>1. CASE n <= LeafBits
                  <4>1. start[n] = Leaf(n)
                        BY <1>5
                  <4>2. h[n] = start[n]
                        BY <2>5, <3>1, Zenon
                  <4> QED
                      BY <3>1, <4>1, <4>2, Zenon
            <3>2. CASE ~(n <= LeafBits)
                  <4>1. n > LeafBits
                        BY <1>1, <3>2
                  <4>2. h[n \div 2] \in S[n \div 2] /\ h[n - n \div 2] \in S[n - n \div 2]
                        BY <1>6, <2>2, <4>1
                  <4>3. step[<<n, h[n \div 2], h[n - n \div 2]>>] = Both(n, h[n \div 2], h[n - n \div 2])
                        BY <1>7, <4>1, <4>2
                  <4>4. h[n] = step[<<n, h[n \div 2], h[n - n \div 2]>>]
                        BY <2>5, <3>2, Zenon
                  <4> QED
                      BY <3>2, <4>3, <4>4, Zenon
            <3> QED
                BY <3>1, <3>2
      <2>7. h = [n \in 1..e |-> IF n <= LeafBits THEN Leaf(n) ELSE Both(n, h[n \div 2], h[n - n \div 2])]
            <3> HIDE DEF Leaf, Both
            <3> QED
                BY <2>4, <2>6, Zenon
      <2>8. Law(h)
            BY <2>7, Zenon
      <2> QED
          BY <2>8, Zenon
<1>10. Law(rec)
       <2> HIDE DEF Law
       <2> QED
           BY <1>9
<1>11. FixedDlog(e, f, g) = rec[e][<<f, 0>>]
       BY DEF FixedDlog
<1> HIDE DEF rec
<1>12. \A n \in 1..e : rec[n] = IF n <= LeafBits THEN Leaf(n) ELSE Both(n, rec[n \div 2], rec[n - n \div 2])
       BY <1>10, Zenon
<1> HIDE DEF Law, Leaf, Both
<1>13. \A n \in 1..e : n <= LeafBits => rec[n] \in S[n]
       <2> TAKE n \in 1..e
       <2> HAVE n <= LeafBits
       <2>1. rec[n] = Leaf(n)
             BY <1>12, Zenon
       <2> QED
           BY <1>2, <1>4, <2>1
<1>14. \A n \in 1..e : n > LeafBits /\ rec[n \div 2] \in S[n \div 2] /\ rec[n - n \div 2] \in S[n - n \div 2] => rec[n] \in S[n]
       <2> TAKE n \in 1..e
       <2> HAVE n > LeafBits /\ rec[n \div 2] \in S[n \div 2] /\ rec[n - n \div 2] \in S[n - n \div 2]
       <2>1. ~(n <= LeafBits)
             BY <1>1
       <2>2. rec[n] = Both(n, rec[n \div 2], rec[n - n \div 2])
             BY <1>12, <2>1, Zenon
       <2>3. /\ step[<<n, rec[n \div 2], rec[n - n \div 2]>>] = Both(n, rec[n \div 2], rec[n - n \div 2])
             /\ step[<<n, rec[n \div 2], rec[n - n \div 2]>>] \in S[n]
             BY <1>7
       <2> QED
           BY <2>2, <2>3, Zenon
<1>15. \A n \in 1..e : rec[n] \in S[n]
       BY <1>1, <1>13, <1>14, HalvingStays
<1>16. rec[e] \in FixedSolved(e, g, e)
       <2>1. e \in 1..e
             BY <1>1
       <2> QED
           BY <1>2, <1>15, <2>1
<1>17. e - e = 0 /\ <<f, 0>> \in Elements(e) \X (0..(e - e))
       BY <1>1
<1>18. /\ rec[e] \in [Elements(e) \X (0..(e - e)) -> FixedAnswers]
       /\ FixedFinds(e, g, e, f, rec[e][<<f, e - e>>])
       BY <1>16 DEF FixedSolved
<1>19. rec[e][<<f, 0>>] \in FixedAnswers
       BY <1>17, <1>18
<1> QED
    BY <1>11, <1>17, <1>18, <1>19

\* A table has one exponent for a value, the one fp2_dlog_2e finds.
LEMMA FixedIsDlog ==
    ASSUME NEW e \in Exponents, NEW f \in Elements(e), NEW g \in Elements(e), HasTable(e, g)
    PROVE  /\ FixedDlog(e, f, g).ok = Dlog(e, f, g).ok
           /\ Dlog(e, f, g).ok => FixedDlog(e, f, g).a = Dlog(e, f, g).a
<1> DEFINE M == 2 ^ e
           r == FixedDlog(e, f, g)
           s == Dlog(e, f, g)
<1>1. e \in LeafBits..MaxBits /\ g # Zero /\ g % 2 = 1
      BY TableIs
<1>2. LeafBits <= e /\ g \in Roots(e) /\ g \in Nat
      <2>1. LeafBits \in Nat /\ MaxBits \in Nat
            BY LogAssumption
      <2>2. LeafBits <= e
            BY <1>1, <2>1
      <2> QED
          BY <1>1, <2>2, ElementsAre
<1>3. r \in FixedAnswers /\ FixedFinds(e, g, e, f, r)
      BY <1>1, <1>2, FixedDlogFinds
<1>4. /\ s.ok \in BOOLEAN /\ s.a \in 0..(M - 1)
      /\ s.ok => Pow(e, g, s.a) = f
      /\ Zero \notin {f, g} => (s.ok <=> g % 2 = 1 \/ f = One)
      /\ f = Zero /\ g # Zero => ~s.ok
      BY DlogIs
<1>5. M \in Nat \ {0} /\ 2 ^ (e - e) = 1
      <2>1. e - e = 0
            BY LogAssumption
      <2> QED
          BY <2>1, ElementsAre, SmallOrders
<1> HIDE DEF r, s, M
<1>6. r.ok \in BOOLEAN /\ r.a \in Nat
      BY <1>3 DEF FixedAnswers
<1>7. /\ f = Zero => ~r.ok
      /\ f # Zero /\ Dies(e, f, e) => r.ok
      /\ r.ok => r.a <= M - 1 /\ Same(f, (g * 1) * r.a, M)
      BY <1>3, <1>5 DEF FixedFinds, M
<1>8. f # Zero => r.ok /\ s.ok
      <2> HAVE f # Zero
      <2>1. f \in Roots(e)
            BY ElementsAre
      <2>2. Dies(e, f, e)
            BY <2>1, RootDies
      <2>3. Zero \notin {f, g}
            BY <1>1
      <2> QED
          BY <1>1, <1>4, <1>7, <2>2, <2>3
<1>9. r.ok = s.ok
      BY <1>1, <1>4, <1>6, <1>7, <1>8, Zenon
<1>10. ASSUME s.ok PROVE r.a = s.a
       <2> DEFINE a == r.a
                  c == s.a
       <2>1. f # Zero /\ f \in Roots(e) /\ f \in Nat
             BY <1>1, <1>4, <1>10, ElementsAre
       <2>2. a \in 0..(M - 1) /\ c \in 0..(M - 1) /\ a \in Nat /\ c \in Nat
             BY <1>4, <1>5, <1>6, <1>7, <1>9, <1>10
       <2>3. Same(f, (g * 1) * a, M) /\ Pow(e, g, c) = f
             BY <1>4, <1>7, <1>9, <1>10
       <2> HIDE DEF a, c
       <2>4. Same(f, g * c, M)
             BY <1>2, <2>2, <2>3, PowSame DEF M
       <2>5. (g * 1) * a = g * a
             BY <1>2, <2>2
       <2>6. Same(g * a, g * c, M)
             BY <2>3, <2>4, <2>5 DEF Same
       <2>7. PICK b \in Nat : Same(g * b, 1, M)
             BY <1>1, <1>2, Invertible DEF M
       <2>8. \A x \in Nat : Same(b * (g * x), x, M)
             <3> TAKE x \in Nat
             <3>1. g * b \in Int /\ 1 \in Int /\ x \in Int /\ Same(x, x, M)
                   BY <1>2, <2>7 DEF Same
             <3>2. Same((g * b) * x, 1 * x, M)
                   BY <1>5, <2>7, <3>1, SameMul
             <3>3. (g * b) * x = b * (g * x) /\ 1 * x = x
                   BY <1>2, <2>7
             <3> QED
                 BY <3>2, <3>3
       <2>9. Same(b * (g * a), b * (g * c), M)
             <3>1. b \in Int /\ g * a \in Int /\ g * c \in Int /\ Same(b, b, M)
                   BY <1>2, <2>2, <2>7 DEF Same
             <3> QED
                 BY <1>5, <2>6, <3>1, SameMul
       <2>10. Same(b * (g * a), a, M) /\ Same(b * (g * c), c, M)
              BY <2>2, <2>8
       <2>11. Same(a, c, M)
              BY <2>9, <2>10, Zenon DEF Same
       <2>12. a \in Roots(e) /\ c \in Roots(e)
              BY <2>2 DEF Roots, M
       <2>13. a = c
              BY <2>11, <2>12, RootsEqual DEF M
       <2> QED
           BY <2>13 DEF a, c
<1> QED
    BY <1>9, <1>10 DEF r, s

\* The input is one there is, and the answers are those of the two routines.
LogTypes ==
    /\ input.e \in Exponents /\ input.f \in Elements(input.e) /\ input.g \in Elements(input.e)
    /\ log = <<>> \/ /\ log = Dlog(input.e, input.f, input.g)
                     /\ HasTable(input.e, input.g) => fixed = FixedDlog(input.e, input.f, input.g)

\* Of fp2_dlog_2e and of the table of DlogTable::new: the exponent returned
\* is below 2^e and right; an f that g generates gets one; the stack stays
\* within the levels it is dimensioned for; and the table search, wherever
\* there is a table, gives the same answer.
THEOREM LogarithmsCorrect == LogSpec => []LogRight
<1>1. LogInit => LogTypes
      <2> SUFFICES ASSUME LogInit PROVE LogTypes
          OBVIOUS
      <2>1. PICK e \in Exponents : input \in [e : {e}, f : Elements(e), g : Elements(e)]
            BY DEF LogInit
      <2>2. input.e = e /\ input.f \in Elements(e) /\ input.g \in Elements(e)
            BY <2>1
      <2> QED
          BY <2>2 DEF LogInit, LogTypes
<1>2. LogTypes /\ [Solve]_lvars => LogTypes'
      <2>1. LogTypes /\ Solve => LogTypes'
            BY DEF LogTypes, Solve
      <2>2. LogTypes /\ UNCHANGED lvars => LogTypes'
            BY DEF LogTypes, lvars
      <2> QED
          BY <2>1, <2>2
<1>3. LogTypes => LogRight
      <2> SUFFICES ASSUME LogTypes, log # <<>> PROVE LogRight
          BY DEF LogRight
      <2> DEFINE e == input.e
                 f == input.f
                 g == input.g
      <2>1. e \in Exponents /\ f \in Elements(e) /\ g \in Elements(e) /\ log = Dlog(e, f, g)
            /\ (HasTable(e, g) => fixed = FixedDlog(e, f, g))
            BY DEF LogTypes
      <2> HIDE DEF e, f, g
      <2>2. /\ log.ok => log.a \in 0..(2 ^ e - 1) /\ Pow(e, g, log.a) = f
            /\ Zero \notin {f, g} => (log.ok <=> g % 2 = 1 \/ f = One)
            /\ log.depth <= Levels(e)
            BY <2>1, DlogIs
      <2>3. HasTable(e, g) <=> e \in LeafBits..MaxBits /\ g # Zero /\ g % 2 = 1
            BY <2>1, TableIs
      <2>4. HasTable(e, g) => fixed.ok = log.ok /\ (log.ok => fixed.a = log.a)
            BY <2>1, FixedIsDlog
      <2> QED
          BY <2>2, <2>3, <2>4, Zenon DEF LogRight, e, f, g
<1> QED
    BY <1>1, <1>2, <1>3, PTL DEF LogSpec
============================================================================
