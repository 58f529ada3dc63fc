------------------------- MODULE VerificationProofs -----------------------
(***************************************************************************)
(* Proofs about Verifier and CompressedSignature.  The arithmetic of the   *)
(* recovery comes first, then the invariant of the state machine.          *)
(***************************************************************************)
EXTENDS CompressedSignature, NumberFacts, FiniteSetTheorems

N == Pow2[R]

LEMMA Powers ==
    /\ R \in Nat /\ R >= 3 /\ N \in Nat \ {0}
    /\ Pow2[R + 1] = 2 * N /\ Pow2[R + 2] = 4 * N
    /\ Pow2[3] = 8
    /\ \E q \in Nat \ {0} : N = 8 * q
<1>1. R \in Nat /\ R >= 3 /\ N \in Nat \ {0}
      BY PowAssumption DEF N
<1>2. Pow2[2] = 4
      BY PowAssumption
<1>3. Pow2[R + 1] = 2 * N /\ Pow2[R + 2] = 4 * N
      <2>1. R + 1 \in Exponents /\ R + 2 \in Exponents /\ R \in Exponents /\ 1 \in Exponents /\ 2 \in Exponents
            BY PowAssumption
      <2>2. Pow2[R + 1] = Pow2[R] * Pow2[1] /\ Pow2[R + 2] = Pow2[R] * Pow2[2]
            BY <2>1, PowAssumption
      <2> QED
          BY <2>2, <1>1, <1>2, PowAssumption DEF N
<1>4. 3 \in Exponents /\ Pow2[3] = 8
      <2>1. 3 \in 0..R /\ R \in Exponents
            BY <1>1, PowAssumption
      <2>2. 3 \in Exponents /\ 1 + 2 \in Exponents
            BY <2>1, PowAssumption
      <2>3. Pow2[1 + 2] = Pow2[1] * Pow2[2]
            BY <2>2, PowAssumption
      <2> QED
          BY <2>2, <2>3, <1>2, PowAssumption
<1>5. R - 3 \in Exponents /\ N = 8 * Pow2[R - 3]
      <2>1. R - 3 \in 0..R /\ R \in Exponents
            BY <1>1, PowAssumption
      <2>2. R - 3 \in Exponents /\ 3 + (R - 3) \in Exponents /\ 3 + (R - 3) = R
            BY <2>1, <1>1, PowAssumption
      <2>3. Pow2[3 + (R - 3)] = Pow2[3] * Pow2[R - 3]
            BY <2>2, <1>4, PowAssumption
      <2> QED
          BY <2>2, <2>3, <1>4 DEF N
<1>6. Pow2[R - 3] \in Nat \ {0}
      BY <1>5, PowAssumption
<1> QED
    BY <1>1, <1>3, <1>4, <1>5, <1>6

\* The powers below R divide N.
LEMMA Below ==
    ASSUME NEW k \in 0..R
    PROVE  /\ Pow2[k] \in Nat \ {0}
           /\ Pow2[R - k] \in Nat \ {0}
           /\ N = Pow2[k] * Pow2[R - k]
<1>1. R \in Exponents /\ R \in Nat
      BY PowAssumption
<1>2. k \in Exponents /\ R - k \in 0..R
      BY <1>1, PowAssumption
<1>3. R - k \in Exponents /\ k + (R - k) = R
      BY <1>1, <1>2, PowAssumption
<1>4. Pow2[k + (R - k)] = Pow2[k] * Pow2[R - k]
      BY <1>1, <1>2, <1>3, PowAssumption
<1> QED
    BY <1>2, <1>3, <1>4, PowAssumption DEF N

---------------------------------------------------------------------------
(* The Newton iteration.                                                   *)

\* An odd number is its own inverse modulo 8.
LEMMA OddSquare ==
    ASSUME NEW a \in Int, a % 2 = 1
    PROVE  \E j \in Int : a * a = 1 + j * 8
<1>1. PICK k \in Int : a = 2 * k + 1
      BY DivMod
<1>2. CASE k % 2 = 0
      <2>1. PICK l \in Int : k = 2 * l
            BY <1>2
      <2>2. a * a = 1 + (2 * l * l + l) * 8
            BY <1>1, <2>1
      <2>3. 2 * l * l + l \in Int
            OBVIOUS
      <2> QED
          BY <2>2, <2>3
<1>3. CASE k % 2 = 1
      <2>1. PICK l \in Int : k = 2 * l + 1
            BY <1>3
      <2>2. a * a = 1 + (2 * l * l + 3 * l + 1) * 8
            BY <1>1, <2>1
      <2>3. 2 * l * l + 3 * l + 1 \in Int
            OBVIOUS
      <2> QED
          BY <2>2, <2>3
<1> QED
    BY <1>2, <1>3

\* What "right to the bits" means: a common multiple away.
LEMMA ZeroMod ==
    ASSUME NEW m \in Nat \ {0}, NEW a \in Int
    PROVE  (a % m = 0) <=> \E k \in Int : a = k * m
<1>1. ASSUME a % m = 0
      PROVE  \E k \in Int : a = k * m
      <2>1. a = m * (a \div m) + (a % m) /\ a \div m \in Int
            BY DivMod
      <2>2. a = (a \div m) * m
            BY <1>1, <2>1
      <2> QED
          BY <2>1, <2>2
<1>2. ASSUME NEW k \in Int, a = k * m
      PROVE  a % m = 0
      <2>1. a = m * k + 0 /\ 0 \in 0..(m - 1)
            BY <1>2
      <2> QED
          BY ONLY <2>1, k \in Int, a \in Int, 0 \in Int, m \in Nat \ {0}, Residue, Zenon
<1> QED
    BY <1>1, <1>2

\* The two inner reductions of a turn do not matter modulo N.
LEMMA NewtonValue ==
    ASSUME NEW a \in Int, NEW x \in Int
    PROVE  LET y == (x * ((2 - ((a * x) % N)) % N)) % N
           IN  y \in 0..(N - 1) /\ (a * y) % N = (a * (x * (2 - a * x))) % N
<1> DEFINE u == a * x
           v == u % N
           w == 2 - v
           z == w % N
           t == 2 - u
           d == x * z
           e == x * t
           y == d % N
<1>1. N \in Nat \ {0} /\ u \in Int /\ t \in Int /\ e \in Int
      BY Powers
<1> HIDE DEF u, t, e
<1>2. v \in Int /\ Same(v, u, N)
      BY <1>1, SameResidue
<1>3. w \in Int /\ Same(w, t, N)
      <2> HIDE DEF v
      <2>1. Same(2, 2, N)
            BY DEF Same
      <2>2. Same(2 - v, 2 - u, N)
            BY <1>1, <1>2, <2>1, SameSub
      <2> QED
          BY <1>2, <2>2 DEF t
<1>4. z \in Int /\ Same(z, t, N)
      <2> HIDE DEF w
      <2>1. z \in Int /\ Same(z, w, N)
            BY <1>1, <1>3, SameResidue
      <2> QED
          BY <1>3, <2>1, SameTrans
<1>5. d \in Int /\ Same(d, e, N)
      <2> HIDE DEF z
      <2>1. Same(x, x, N)
            BY DEF Same
      <2>2. Same(x * z, x * t, N)
            BY <1>1, <1>4, <2>1, SameMul
      <2> QED
          BY <1>4, <2>2 DEF e
<1>6. y \in 0..(N - 1) /\ y \in Int /\ Same(y, e, N)
      <2> HIDE DEF d
      <2>1. y \in 0..(N - 1) /\ y \in Int /\ Same(y, d, N)
            BY <1>1, <1>5, SameResidue
      <2> QED
          BY <1>5, <2>1, SameTrans
<1>7. Same(a * y, a * e, N)
      <2> HIDE DEF y
      <2>1. Same(a, a, N)
            BY DEF Same
      <2> QED
          BY <1>1, <1>6, <2>1, SameMul
<1>8. (a * y) % N = (a * e) % N
      <2> HIDE DEF y
      <2> QED
          BY <1>7, Zenon DEF Same
<1> QED
    BY <1>6, <1>8, Zenon DEF u, t, e

\* One turn doubles the bits, up to R.
LEMMA NewtonTurn ==
    ASSUME NEW a \in Int, NEW x \in Int, NEW b \in Nat, b < R,
           (a * x - 1) % Pow2[b] = 0
    PROVE  LET y == (x * ((2 - ((a * x) % N)) % N)) % N
           IN  (a * y - 1) % Pow2[IF 2 * b < R THEN 2 * b ELSE R] = 0
<1> DEFINE y == (x * ((2 - ((a * x) % N)) % N)) % N
           p == Pow2[b]
           f == a * (x * (2 - a * x))
<1>1. R \in Nat /\ N \in Nat \ {0} /\ p \in Nat \ {0}
      BY Powers, Below
<1>2. PICK k \in Int : a * x - 1 = k * p
      <2> DEFINE u == a * x - 1
      <2>1. u \in Int /\ u % p = 0
            OBVIOUS
      <2>2. \E k \in Int : u = k * p
            <3> HIDE DEF u, p
            <3> QED
                BY <1>1, <2>1, ZeroMod
      <2> QED
          BY <2>2
<1>3. f = 1 + (-(k * k)) * (p * p)
      <2>1. a * x = 1 + k * p
            BY <1>1, <1>2
      <2> HIDE DEF p
      <2> QED
          BY <1>1, <2>1, NewtonStep
<1>4. y \in Int /\ (a * y) % N = f % N
      <2>1. y \in 0..(N - 1) /\ (a * y) % N = f % N
            BY NewtonValue
      <2> QED
          BY <2>1, <1>1
<1>5. PICK l \in Int : a * y = f + l * N
      <2> DEFINE u == a * y
      <2>1. u \in Int /\ f \in Int /\ u % N = f % N
            BY <1>4
      <2>2. \E l \in Int : u = f + l * N
            <3> HIDE DEF u, f, N
            <3> QED
                BY <1>1, <2>1, ModDiffer
      <2> QED
          BY <2>2
<1>6. CASE 2 * b < R
      <2>1. b \in Exponents /\ 2 * b \in Exponents /\ 2 * b \in 0..R
            BY <1>6, <1>1, PowAssumption
      <2>2. Pow2[2 * b] = p * p
            <3>1. b + b = 2 * b
                  OBVIOUS
            <3> QED
                BY <2>1, <3>1, PowAssumption
      <2>3. PICK q \in Nat \ {0} : N = Pow2[2 * b] * q
            BY <2>1, Below
      <2> DEFINE m == Pow2[2 * b]
      <2>4. m \in Nat \ {0}
            BY <2>1, Below
      <2>5. a * y - 1 = (-(k * k) + l * q) * m
            <3>1. m = p * p /\ N = m * q
                  BY <2>2, <2>3
            <3> HIDE DEF y, f, m, p, N
            <3>2. a * y - 1 = (-(k * k)) * m + l * (m * q)
                  BY <1>3, <1>5, <3>1, <1>4, <1>1, <2>4
            <3> QED
                BY <3>2, <2>4
      <2> DEFINE u == a * y - 1
                 j == -(k * k) + l * q
      <2>6. u \in Int /\ j \in Int /\ u = j * m
            BY <2>5, <1>4
      <2>7. u % m = 0
            <3> HIDE DEF u, j, m
            <3> QED
                BY <2>4, <2>6, ZeroMod
      <2> QED
          BY <2>7, <1>6
<1>7. CASE ~(2 * b < R)
      <2>1. b \in 0..R /\ 2 * b - R \in 0..R /\ R - b \in 0..R
            BY <1>7, <1>1
      <2>2. b \in Exponents /\ 2 * b - R \in Exponents /\ R - b \in Exponents
            BY <2>1, PowAssumption
      <2>3. p = Pow2[R - b] * Pow2[2 * b - R]
            <3>1. (R - b) + (2 * b - R) = b
                  BY <1>1
            <3> QED
                BY <2>2, <3>1, PowAssumption
      <2>4. N = p * Pow2[R - b]
            BY <2>1, Below
      <2> DEFINE g == Pow2[R - b]
                 h == Pow2[2 * b - R]
      <2>5. g \in Nat /\ h \in Nat
            BY <2>2, PowAssumption
      <2>6. p * p = h * N
            <3>1. p = g * h /\ N = p * g
                  BY <2>3, <2>4
            <3> HIDE DEF p, g, h, N
            <3>2. p * p = p * (g * h)
                  BY <3>1
            <3>3. p * (g * h) = h * (p * g)
                  BY <1>1, <2>5
            <3> QED
                BY <3>1, <3>2, <3>3
      <2>7. a * y - 1 = (l - (k * k) * h) * N
            <3> HIDE DEF y, f, p, h, N
            <3>1. a * y - 1 = (-(k * k)) * (h * N) + l * N
                  BY <1>3, <1>5, <2>6, <1>4, <1>1, <2>5
            <3> QED
                BY <3>1, <1>1, <2>5
      <2> DEFINE u == a * y - 1
                 j == l - (k * k) * h
      <2>8. u \in Int /\ j \in Int /\ u = j * N
            BY <2>7, <2>5, <1>4
      <2>9. u % N = 0
            <3> HIDE DEF u, j, N
            <3> QED
                BY <1>1, <2>8, ZeroMod
      <2> QED
          BY <2>9, <1>7 DEF N
<1> QED
    BY <1>6, <1>7

\* A pivot is its own inverse to three bits.
LEMMA NewtonStart ==
    ASSUME NEW a \in 0..(N - 1), a % 2 = 1
    PROVE  /\ a % N = a
           /\ (a * a - 1) % Pow2[IF 3 < R THEN 3 ELSE R] = 0
<1>1. N \in Nat \ {0} /\ R \in Nat /\ R >= 3 /\ Pow2[3] = 8
      BY Powers
<1>2. a % N = a
      BY <1>1
<1>3. Pow2[IF 3 < R THEN 3 ELSE R] = 8
      BY <1>1
<1>4. PICK j \in Int : a * a = 1 + j * 8
      BY OddSquare, <1>1
<1>5. (a * a - 1) % 8 = 0
      BY <1>4, <1>1
<1> QED
    BY <1>2, <1>3, <1>5

---------------------------------------------------------------------------
(* Division by the pivot.                                                  *)

Inverts(a, x) == (a * x - 1) % N = 0

\* x is the inverse of a: multiplying by it undoes a multiplication by a ...
LEMMA Divide ==
    ASSUME NEW a \in Int, NEW x \in Int, NEW d \in Int, NEW e \in Int,
           Inverts(a, x), Same(d, a * e, N)
    PROVE  Same(d * x, e, N)
<1>1. N \in Nat \ {0}
      BY Powers
<1>2. PICK l \in Int : a * x - 1 = l * N
      <2> DEFINE u == a * x - 1
      <2>1. u \in Int /\ u % N = 0
            BY DEF Inverts
      <2>2. \E l \in Int : u = l * N
            <3> HIDE DEF u
            <3> QED
                BY <1>1, <2>1, ZeroMod
      <2> QED
          BY <2>2
<1>3. PICK k \in Int : d = a * e + k * N
      <2> DEFINE u == a * e
      <2>1. u \in Int /\ d % N = u % N
            BY DEF Same
      <2>2. \E k \in Int : d = u + k * N
            <3> HIDE DEF u
            <3> QED
                BY <1>1, <2>1, ModDiffer
      <2> QED
          BY <2>2
<1> DEFINE s == d * x
           j == e * l + k * x
<1>4. s \in Int /\ j \in Int
      OBVIOUS
<1>5. s = e + j * N
      <2>1. d * x = e * (a * x) + (k * x) * N
            BY <1>1, <1>3
      <2>2. a * x = 1 + l * N
            BY <1>1, <1>2
      <2>3. e * (1 + l * N) + (k * x) * N = e + (e * l + k * x) * N
            BY <1>1
      <2> QED
          BY <2>1, <2>2, <2>3
<1>6. s % N = e % N
      <2> HIDE DEF s, j
      <2> QED
          BY ONLY <1>1, <1>4, <1>5, e \in Int, ModShift, Zenon
<1> QED
    BY <1>6 DEF Same

\* ... and a times a quotient is the dividend.
LEMMA Undivide ==
    ASSUME NEW a \in Int, NEW x \in Int, NEW d \in Int,
           Inverts(a, x)
    PROVE  Same(a * ((d * x) % N), d, N)
<1>1. N \in Nat \ {0}
      BY Powers
<1>2. PICK l \in Int : a * x - 1 = l * N
      <2> DEFINE u == a * x - 1
      <2>1. u \in Int /\ u % N = 0
            BY DEF Inverts
      <2>2. \E l \in Int : u = l * N
            <3> HIDE DEF u
            <3> QED
                BY <1>1, <2>1, ZeroMod
      <2> QED
          BY <2>2
<1> DEFINE f == d * x
           g == f % N
           s == a * f
           j == d * l
<1>3. f \in Int /\ g \in Int /\ g % N = f % N
      <2>1. f \in Int
            OBVIOUS
      <2> HIDE DEF f
      <2>2. g \in 0..(N - 1) /\ g % N = f % N
            BY <1>1, <2>1, ModRange
      <2> QED
          BY <1>1, <2>1, <2>2
<1>4. (a * g) % N = s % N
      <2> HIDE DEF f, g
      <2>1. Same(a, a, N) /\ Same(g, f, N)
            BY <1>3, Zenon DEF Same
      <2>2. Same(a * g, a * f, N)
            BY <1>1, <1>3, <2>1, SameMul
      <2> QED
          BY <2>2, Zenon DEF Same
<1>5. s \in Int /\ j \in Int
      OBVIOUS
<1>6. s = d + j * N
      <2>1. a * (d * x) = d * (a * x)
            OBVIOUS
      <2>2. a * x = 1 + l * N
            BY <1>1, <1>2
      <2>3. d * (1 + l * N) = d + (d * l) * N
            BY <1>1
      <2> QED
          BY <2>1, <2>2, <2>3
<1>7. s % N = d % N
      <2> HIDE DEF s, j
      <2> QED
          BY ONLY <1>1, <1>5, <1>6, d \in Int, ModShift, Zenon
<1> QED
    BY <1>4, <1>7 DEF Same

---------------------------------------------------------------------------
(* The parts of an entry: the R bits that are sent and the bit above them. *)

LEMMA Split ==
    ASSUME NEW a \in Nat
    PROVE  /\ Bit(a, R) \in {0, 1}
           /\ a % Pow2[R + 1] = (a % N) + N * Bit(a, R)
<1>1. N \in Nat \ {0} /\ Pow2[R + 1] = 2 * N
      BY Powers
<1> DEFINE q == a \div N
           r == a % N
           h == q \div 2
           b == q % 2
<1>2. q \in Int /\ r \in 0..(N - 1) /\ a = N * q + r
      BY <1>1
<1>3. h \in Int /\ b \in 0..1 /\ q = 2 * h + b
      <2> HIDE DEF q
      <2> QED
          BY <1>2, DivMod
<1> DEFINE t == r + N * b
           m == 2 * N
<1>4. m \in Nat \ {0} /\ t \in 0..(m - 1) /\ a = m * h + t
      <2> HIDE DEF q, r, h, b
      <2>1. b = 0 \/ b = 1
            BY <1>3
      <2>2. t \in 0..(m - 1)
            BY <1>1, <1>2, <2>1
      <2>3. a = m * h + t
            BY <1>1, <1>2, <1>3
      <2> QED
          BY <1>1, <2>2, <2>3
<1>5. a % m = t
      <2> HIDE DEF h, t, m
      <2> QED
          BY ONLY <1>3, <1>4, a \in Int
<1> QED
    BY <1>1, <1>3, <1>5 DEF Bit, N

LEMMA Join ==
    ASSUME NEW l \in 0..(N - 1), NEW b \in {0, 1}
    PROVE  LET v == l + N * b
           IN  /\ v \in 0..(Pow2[R + 1] - 1)
               /\ v % N = l
               /\ Bit(v, R) = b
               /\ v % 2 = l % 2
<1>1. N \in Nat \ {0} /\ Pow2[R + 1] = 2 * N
      BY Powers
<1> DEFINE v == l + N * b
<1>2. v \in 0..(Pow2[R + 1] - 1) /\ v \in Int /\ v = N * b + l /\ b \in Int
      BY <1>1
<1>3. v % N = l /\ v \div N = b
      <2> HIDE DEF v
      <2> QED
          BY <1>1, <1>2
<1>4. Bit(v, R) = b
      BY <1>3 DEF Bit, N
<1>5. v % 2 = l % 2
      <2>1. PICK q \in Nat \ {0} : N = 8 * q
            BY Powers
      <2> DEFINE k == 4 * q * b
      <2>2. v = l + k * 2 /\ k \in Int /\ l \in Int
            BY <2>1, <1>1
      <2> HIDE DEF v, k
      <2> QED
          BY <1>2, <2>2
<1> QED
    BY <1>2, <1>3, <1>4, <1>5

LEMMA Nibble ==
    ASSUME NEW b1 \in {0, 1}, NEW b2 \in {0, 1}, NEW b3 \in {0, 1}, NEW b4 \in {0, 1}
    PROVE  LET n == b1 + 2 * b2 + 4 * b3 + 8 * b4
           IN  /\ Bit(n, 0) = b1 /\ Bit(n, 1) = b2 /\ Bit(n, 2) = b3 /\ Bit(n, 3) = b4
               /\ n \in 0..15
<1>1. Pow2[0] = 1 /\ Pow2[1] = 2 /\ Pow2[2] = 4 /\ Pow2[3] = 8
      <2>1. 1 \in Exponents /\ 2 \in Exponents /\ Pow2[1 + 1] = Pow2[1] * Pow2[1]
            BY PowAssumption
      <2> QED
          BY <2>1, Powers, PowAssumption
<1> QED
    BY <1>1 DEF Bit

LEMMA NibbleBits ==
    ASSUME NEW n \in 0..15
    PROVE  /\ Bit(n, 0) \in {0, 1} /\ Bit(n, 1) \in {0, 1} /\ Bit(n, 2) \in {0, 1} /\ Bit(n, 3) \in {0, 1}
           /\ n = Bit(n, 0) + 2 * Bit(n, 1) + 4 * Bit(n, 2) + 8 * Bit(n, 3)
<1>1. Pow2[0] = 1 /\ Pow2[1] = 2 /\ Pow2[2] = 4 /\ Pow2[3] = 8
      <2>1. 1 \in Exponents /\ 2 \in Exponents /\ Pow2[1 + 1] = Pow2[1] * Pow2[1]
            BY PowAssumption
      <2> QED
          BY <2>1, Powers, PowAssumption
<1> QED
    BY <1>1 DEF Bit

---------------------------------------------------------------------------
(* Determinants.                                                           *)

LEMMA DetType ==
    ASSUME NEW m \in Matrices
    PROVE  /\ m[1] \in Nat /\ m[2] \in Nat /\ m[3] \in Nat /\ m[4] \in Nat
           /\ Det(m) \in Int
<1>1. m[1] \in Nat /\ m[2] \in Nat /\ m[3] \in Nat /\ m[4] \in Nat
      BY DEF Matrices, Places
<1> QED
    BY <1>1 DEF Det

\* An odd determinant has an odd entry in its first row.
LEMMA OddPivot ==
    ASSUME NEW m \in Matrices, OddDet(m)
    PROVE  m[1] % 2 = 1 \/ m[2] % 2 = 1
<1>1. m[1] \in Nat /\ m[2] \in Nat /\ m[3] \in Nat /\ m[4] \in Nat
      BY DetType
<1>2. SUFFICES ASSUME m[1] % 2 = 0, m[2] % 2 = 0
               PROVE  FALSE
      BY <1>1
<1>3. PICK j \in Int, k \in Int : m[1] = 2 * j /\ m[2] = 2 * k
      BY <1>1, <1>2
<1>4. m[1] * m[4] - m[2] * m[3] = 2 * (j * m[4] - k * m[3])
      BY <1>1, <1>3
<1> DEFINE e == j * m[4] - k * m[3]
<1>5. e \in Int
      BY <1>1
<1>6. (2 * e) % 2 = 0
      <2> HIDE DEF e
      <2> QED
          BY <1>5
<1> QED
    BY <1>4, <1>6 DEF OddDet, Det

\* Matrices that agree modulo n have determinants that agree modulo n.
LEMMA DetMod ==
    ASSUME NEW n \in Nat \ {0}, NEW m \in Matrices, NEW o \in Matrices,
           \A i \in Places : m[i] % n = o[i] % n
    PROVE  Det(m) % n = Det(o) % n
<1>1. /\ m[1] \in Int /\ m[2] \in Int /\ m[3] \in Int /\ m[4] \in Int
      /\ o[1] \in Int /\ o[2] \in Int /\ o[3] \in Int /\ o[4] \in Int
      BY DetType
<1>2. /\ m[1] % n = o[1] % n /\ m[2] % n = o[2] % n
      /\ m[3] % n = o[3] % n /\ m[4] % n = o[4] % n
      BY DEF Places
<1>3. Same(m[1], o[1], n) /\ Same(m[2], o[2], n) /\ Same(m[3], o[3], n) /\ Same(m[4], o[4], n)
      BY <1>2 DEF Same
<1>4. Same(m[1] * m[4], o[1] * o[4], n)
      BY ONLY <1>1, <1>3, n \in Nat \ {0}, SameMul, Zenon
<1>5. Same(m[2] * m[3], o[2] * o[3], n)
      BY ONLY <1>1, <1>3, n \in Nat \ {0}, SameMul, Zenon
<1> DEFINE a == m[1] * m[4]
           b == o[1] * o[4]
           c == m[2] * m[3]
           d == o[2] * o[3]
<1>6. a \in Int /\ b \in Int /\ c \in Int /\ d \in Int /\ Same(a, b, n) /\ Same(c, d, n)
      BY <1>1, <1>4, <1>5
<1>7. Same(a - c, b - d, n)
      <2> HIDE DEF a, b, c, d
      <2> QED
          BY ONLY <1>6, n \in Nat \ {0}, SameSub, Zenon
<1> QED
    BY <1>7 DEF Det, Same

\* N is even: what is odd modulo N is odd.
LEMMA ParityMod ==
    ASSUME NEW a \in Int, NEW b \in Int, Same(a, b, N)
    PROVE  Same(a, b, 2)
<1>1. PICK q \in Nat \ {0} : N = 8 * q
      BY Powers
<1>2. PICK k \in Int : a = b + k * N
      BY Powers, ModDiffer DEF Same
<1> DEFINE j == 4 * k * q
<1>3. a = b + j * 2 /\ j \in Int
      BY <1>1, <1>2
<1> HIDE DEF j
<1> QED
    BY <1>3 DEF Same

LEMMA SameMod ==
    ASSUME NEW a \in Int
    PROVE  a % N \in 0..(N - 1) /\ a % N \in Int /\ Same(a % N, a, N)
<1>1. N \in Nat \ {0}
      BY Powers
<1>2. a % N \in 0..(N - 1) /\ (a % N) % N = a % N
      BY <1>1, ModRange
<1> QED
    BY <1>1, <1>2 DEF Same

---------------------------------------------------------------------------
(* The recovery.                                                           *)

\* The entry that was dropped, from the determinant.
LEMMA FourthEntry ==
    ASSUME NEW m \in Matrices, OddDet(m), det \in Int, inv \in Int,
           det % N = Det(m) % N,
           Inverts(Pivot(Compressed(m)), inv)
    PROVE  LET c == Compressed(m)
           IN  /\ c.m00 % 2 = m[1] % 2
               /\ m[1] % 2 = 1 => c.mvar = m[3] % N /\ Fourth(c) = m[4] % N
               /\ m[1] % 2 # 1 => c.mvar = m[4] % N /\ Fourth(c) = m[3] % N
<1> DEFINE c == Compressed(m)
           a == m[1] % N
           b == m[2] % N
<1>1. /\ m[1] \in Int /\ m[2] \in Int /\ m[3] \in Int /\ m[4] \in Int
      /\ Det(m) = m[1] * m[4] - m[2] * m[3] /\ N \in Nat \ {0} /\ Det(m) \in Int
      BY DetType, Powers DEF Det
<1>2. c.m00 = a /\ c.m01 = b /\ c.mvar = Variable(m) % N
      BY DEF Compressed, N
<1>3. a \in Int /\ b \in Int /\ Same(a, m[1], N) /\ Same(b, m[2], N)
      BY <1>1, SameMod
<1>4. a % 2 = m[1] % 2
      <2> HIDE DEF a
      <2>1. Same(a, m[1], 2)
            BY <1>1, <1>3, ParityMod
      <2> QED
          BY <2>1 DEF Same
<1>5. Same(det, Det(m), N)
      BY DEF Same
<1>6. ASSUME m[1] % 2 = 1
      PROVE  c.mvar = m[3] % N /\ Fourth(c) = m[4] % N
      <2> DEFINE v == m[3] % N
                 d == det + b * v
      <2>1. c.mvar = v /\ Pivot(c) = a /\ Fourth(c) = (d * inv) % N
            BY <1>2, <1>4, <1>6 DEF Variable, Pivot, Fourth, N
      <2>2. v \in Int /\ Same(v, m[3], N)
            BY <1>1, SameMod
      <2>3. b * v \in Int /\ m[2] * m[3] \in Int /\ Same(b * v, m[2] * m[3], N)
            <3> HIDE DEF b, v
            <3>1. Same(b * v, m[2] * m[3], N)
                  BY ONLY <1>1, <1>3, <2>2, SameMul, Zenon
            <3> QED
                BY <3>1, <1>1, <1>3, <2>2
      <2>4. d \in Int /\ Same(d, Det(m) + m[2] * m[3], N)
            <3> DEFINE s == b * v
                       t == m[2] * m[3]
            <3>1. s \in Int /\ t \in Int /\ Same(s, t, N)
                  BY <2>3
            <3>2. Same(det + s, Det(m) + t, N)
                  <4> HIDE DEF s, t
                  <4> QED
                      BY ONLY <1>1, <1>5, <3>1, det \in Int, SameAdd, Zenon
            <3> QED
                BY <3>1, <3>2
      <2>5. Det(m) + m[2] * m[3] = m[1] * m[4]
            BY <1>1
      <2>6. (a * m[4]) % N = (m[1] * m[4]) % N
            BY <1>1, ModMulLeft
      <2>7. d % N = (a * m[4]) % N
            BY <2>4, <2>5, <2>6 DEF Same
      <2>8. (d * inv) % N = m[4] % N
            <3>1. Inverts(a, inv)
                  BY <2>1
            <3>2. a \in Int /\ d \in Int /\ m[4] \in Int /\ Same(d, a * m[4], N)
                  BY <1>1, <1>3, <2>4, <2>7 DEF Same
            <3> HIDE DEF a, d
            <3>3. Same(d * inv, m[4], N)
                  BY ONLY <3>1, <3>2, inv \in Int, Divide, Zenon
            <3> QED
                BY <3>3 DEF Same
      <2> QED
          BY <2>1, <2>8
<1>7. ASSUME m[1] % 2 # 1
      PROVE  c.mvar = m[4] % N /\ Fourth(c) = m[3] % N
      <2> DEFINE v == m[4] % N
                 d == a * v - det
      <2>1. c.mvar = v /\ Pivot(c) = b /\ Fourth(c) = (d * inv) % N
            BY <1>2, <1>4, <1>7 DEF Variable, Pivot, Fourth, N
      <2>2. v \in Int /\ Same(v, m[4], N)
            BY <1>1, SameMod
      <2>3. a * v \in Int /\ m[1] * m[4] \in Int /\ Same(a * v, m[1] * m[4], N)
            <3> HIDE DEF a, v
            <3>1. Same(a * v, m[1] * m[4], N)
                  BY ONLY <1>1, <1>3, <2>2, SameMul, Zenon
            <3> QED
                BY <3>1, <1>1, <1>3, <2>2
      <2>4. d \in Int /\ Same(d, m[1] * m[4] - Det(m), N)
            <3> DEFINE s == a * v
                       t == m[1] * m[4]
            <3>1. s \in Int /\ t \in Int /\ Same(s, t, N)
                  BY <2>3
            <3>2. Same(s - det, t - Det(m), N)
                  <4> HIDE DEF s, t
                  <4> QED
                      BY ONLY <1>1, <1>5, <3>1, det \in Int, SameSub, Zenon
            <3> QED
                BY <3>1, <3>2
      <2>5. m[1] * m[4] - Det(m) = m[2] * m[3]
            BY <1>1
      <2>6. (b * m[3]) % N = (m[2] * m[3]) % N
            BY <1>1, ModMulLeft
      <2>7. d % N = (b * m[3]) % N
            BY <2>4, <2>5, <2>6 DEF Same
      <2>8. (d * inv) % N = m[3] % N
            <3>1. Inverts(b, inv)
                  BY <2>1
            <3>2. b \in Int /\ d \in Int /\ m[3] \in Int /\ Same(d, b * m[3], N)
                  BY <1>1, <1>3, <2>4, <2>7 DEF Same
            <3> HIDE DEF b, d
            <3>3. Same(d * inv, m[3], N)
                  BY ONLY <3>1, <3>2, inv \in Int, Divide, Zenon
            <3> QED
                BY <3>3 DEF Same
      <2> QED
          BY <2>1, <2>8
<1> QED
    BY <1>2, <1>4, <1>6, <1>7

LEMMA RecoveredMatrix ==
    ASSUME NEW m \in Matrices, OddDet(m), det \in Int, inv \in Int,
           det % N = Det(m) % N,
           Inverts(Pivot(Compressed(m)), inv)
    PROVE  Raised(Compressed(m)) = Low(m, R + 1)
<1> DEFINE c == Compressed(m)
<1>1. m[1] \in Nat /\ m[2] \in Nat /\ m[3] \in Nat /\ m[4] \in Nat
      BY DetType
<1>2. LowEntries(c) = <<m[1] % N, m[2] % N, m[3] % N, m[4] % N>>
      <2>1. c.m00 = m[1] % N /\ c.m01 = m[2] % N
            BY DEF Compressed, N
      <2> QED
          BY <2>1, FourthEntry DEF LowEntries
<1>3. /\ Bit(c.bits, 0) = Bit(m[1], R) /\ Bit(c.bits, 1) = Bit(m[2], R)
      /\ Bit(c.bits, 2) = Bit(m[3], R) /\ Bit(c.bits, 3) = Bit(m[4], R)
      <2>1. c.bits = Bit(m[1], R) + 2 * Bit(m[2], R) + 4 * Bit(m[3], R) + 8 * Bit(m[4], R)
            BY DEF Compressed, Bits
      <2>2. Bit(m[1], R) \in {0, 1} /\ Bit(m[2], R) \in {0, 1} /\ Bit(m[3], R) \in {0, 1} /\ Bit(m[4], R) \in {0, 1}
            BY <1>1, Split
      <2> QED
          BY <2>1, <2>2, Nibble
<1>4. ASSUME NEW i \in Places
      PROVE  LowEntries(c)[i] + Pow2[R] * Bit(c.bits, i - 1) = m[i] % Pow2[R + 1]
      <2>1. CASE i = 1
            BY <1>1, <1>2, <1>3, <2>1, Split DEF N
      <2>2. CASE i = 2
            BY <1>1, <1>2, <1>3, <2>2, Split DEF N
      <2>3. CASE i = 3
            BY <1>1, <1>2, <1>3, <2>3, Split DEF N
      <2>4. CASE i = 4
            BY <1>1, <1>2, <1>3, <2>4, Split DEF N
      <2> QED
          BY <2>1, <2>2, <2>3, <2>4 DEF Places
<1> QED
    BY <1>4 DEF Raised, Low

Compact == [m00 : Nat, m01 : Nat, mvar : Nat, bits : Nat]

\* A compressed signature the decoder takes.
Taken(c) == /\ c \in Compact
            /\ c.m00 < N /\ c.m01 < N /\ c.mvar < N /\ c.bits \in 0..15
            /\ Pivot(c) % 2 = 1

\* What is recovered from any compressed signature has its entries, and a
\* determinant that is the one the pairings gave.
LEMMA RaisedEntries ==
    ASSUME NEW c, Taken(c), det \in Int, inv \in Int
    PROVE  /\ Raised(c) \in [Places -> 0..(Pow2[R + 1] - 1)]
           /\ \A i \in Places : /\ LowEntries(c)[i] \in 0..(N - 1)
                                /\ Raised(c)[i] % N = LowEntries(c)[i]
                                /\ Bit(Raised(c)[i], R) = Bit(c.bits, i - 1)
                                /\ Raised(c)[i] % 2 = LowEntries(c)[i] % 2
<1>1. N \in Nat \ {0}
      BY Powers
<1>2. Fourth(c) \in 0..(N - 1)
      <2>1. c.m01 * c.mvar \in Int /\ c.m00 * c.mvar \in Int
            BY DEF Taken, Compact
      <2>2. (det + c.m01 * c.mvar) * inv \in Int /\ (c.m00 * c.mvar - det) * inv \in Int
            BY <2>1
      <2> QED
          BY <1>1, <2>2, ModRange DEF Fourth, N
<1>3. ASSUME NEW i \in Places
      PROVE  LowEntries(c)[i] \in 0..(N - 1) /\ Bit(c.bits, i - 1) \in {0, 1}
      <2>1. c.m00 \in 0..(N - 1) /\ c.m01 \in 0..(N - 1) /\ c.mvar \in 0..(N - 1)
            BY <1>1 DEF Taken, Compact
      <2>2. LowEntries(c)[i] \in 0..(N - 1)
            BY <1>2, <2>1 DEF LowEntries, Places
      <2>3. c.bits \in 0..15
            BY DEF Taken
      <2>4. Bit(c.bits, i - 1) \in {0, 1}
            BY <2>3, NibbleBits DEF Places
      <2> QED
          BY <2>2, <2>4
<1>4. ASSUME NEW i \in Places
      PROVE  /\ Raised(c)[i] \in 0..(Pow2[R + 1] - 1)
             /\ Raised(c)[i] % N = LowEntries(c)[i]
             /\ Bit(Raised(c)[i], R) = Bit(c.bits, i - 1)
             /\ Raised(c)[i] % 2 = LowEntries(c)[i] % 2
      <2> DEFINE l == LowEntries(c)[i]
                 b == Bit(c.bits, i - 1)
      <2>1. l \in 0..(N - 1) /\ b \in {0, 1}
            BY <1>3
      <2>2. Raised(c)[i] = l + N * b
            BY DEF Raised, N
      <2> HIDE DEF l, b
      <2>3. LET v == l + N * b
            IN  v \in 0..(Pow2[R + 1] - 1) /\ v % N = l /\ Bit(v, R) = b /\ v % 2 = l % 2
            BY <2>1, Join
      <2>4. /\ Raised(c)[i] \in 0..(Pow2[R + 1] - 1)
            /\ Raised(c)[i] % N = l
            /\ Bit(Raised(c)[i], R) = b
            /\ Raised(c)[i] % 2 = l % 2
            BY <2>2, <2>3
      <2> QED
          BY <2>4 DEF l, b
<1>5. Raised(c) \in [Places -> 0..(Pow2[R + 1] - 1)]
      BY <1>4 DEF Raised
<1> QED
    BY <1>3, <1>4, <1>5

LEMMA RaisedDet ==
    ASSUME NEW c, Taken(c), det \in Int, det % 2 = 1, inv \in Int,
           Inverts(Pivot(c), inv)
    PROVE  OddDet(Raised(c))
<1> DEFINE l == LowEntries(c)
           f == Fourth(c)
<1>1. /\ N \in Nat \ {0}
      /\ c.m00 \in Int /\ c.m01 \in Int /\ c.mvar \in Int /\ Pivot(c) \in Int
      BY Powers DEF Taken, Compact, Pivot
<1>2. l \in Matrices /\ f \in Int
      <2>1. \A i \in Places : l[i] \in Nat
            BY RaisedEntries, <1>1
      <2>2. l = <<l[1], l[2], l[3], l[4]>>
            BY DEF LowEntries
      <2>3. l \in [1..4 -> Nat]
            BY <2>1, <2>2 DEF Places
      <2>4. f = l[4] \/ f = l[3]
            BY DEF LowEntries
      <2> QED
          BY <2>1, <2>3, <2>4 DEF Matrices, Places
<1>3. ASSUME c.m00 % 2 = 1
      PROVE  Det(l) % 2 = 1
      <2> DEFINE p == c.m00 * f
                 q == c.m01 * c.mvar
                 d == det + q
      <2>1. q \in Int /\ d \in Int /\ p \in Int
            <3>1. q \in Int
                  BY <1>1
            <3>2. p \in Int
                  BY <1>1, <1>2
            <3> HIDE DEF q, p
            <3> QED
                BY <3>1, <3>2
      <2>2. f = (d * inv) % N /\ Pivot(c) = c.m00
            BY <1>3 DEF Fourth, Pivot, N
      <2>3. Same(p, d, N)
            <3>1. Same(Pivot(c) * ((d * inv) % N), d, N)
                  <4> HIDE DEF d
                  <4> QED
                      BY ONLY <1>1, <2>1, Inverts(Pivot(c), inv), inv \in Int, Undivide, Zenon
            <3> QED
                BY <2>2, <3>1
      <2>4. Same(p, d, 2)
            <3> HIDE DEF p, d
            <3> QED
                BY ONLY <2>1, <2>3, ParityMod, Zenon
      <2>5. Det(l) = p - q
            BY <1>3 DEF Det, LowEntries
      <2>6. p % 2 = (det + q) % 2
            BY <2>4 DEF Same
      <2> HIDE DEF p, q, d
      <2> QED
          BY <2>1, <2>5, <2>6
<1>4. ASSUME c.m00 % 2 # 1
      PROVE  Det(l) % 2 = 1
      <2> DEFINE p == c.m01 * f
                 q == c.m00 * c.mvar
                 d == q - det
      <2>1. q \in Int /\ d \in Int /\ p \in Int
            <3>1. q \in Int
                  BY <1>1
            <3>2. p \in Int
                  BY <1>1, <1>2
            <3> HIDE DEF q, p
            <3> QED
                BY <3>1, <3>2
      <2>2. f = (d * inv) % N /\ Pivot(c) = c.m01
            BY <1>4 DEF Fourth, Pivot, N
      <2>3. Same(p, d, N)
            <3>1. Same(Pivot(c) * ((d * inv) % N), d, N)
                  <4> HIDE DEF d
                  <4> QED
                      BY ONLY <1>1, <2>1, Inverts(Pivot(c), inv), inv \in Int, Undivide, Zenon
            <3> QED
                BY <2>2, <3>1
      <2>4. Same(p, d, 2)
            <3> HIDE DEF p, d
            <3> QED
                BY ONLY <2>1, <2>3, ParityMod, Zenon
      <2>5. Det(l) = q - p
            BY <1>4 DEF Det, LowEntries
      <2>6. p % 2 = (q - det) % 2
            BY <2>4 DEF Same
      <2> HIDE DEF p, q, d
      <2> QED
          BY <2>1, <2>5, <2>6
<1>5. Det(l) % 2 = 1
      BY <1>3, <1>4
<1>6. Raised(c) \in Matrices /\ \A i \in Places : Raised(c)[i] % 2 = l[i] % 2
      <2>1. Pow2[R + 1] \in Nat
            BY Powers
      <2> QED
          BY <2>1, RaisedEntries DEF Matrices
<1>7. Det(Raised(c)) % 2 = Det(l) % 2
      <2> HIDE DEF l
      <2> QED
          BY <1>2, <1>6, DetMod
<1> QED
    BY <1>5, <1>7 DEF OddDet

LEMMA RaisedCompressed ==
    ASSUME NEW c, Taken(c), det \in Int, inv \in Int
    PROVE  Compressed(Raised(c)) = c
<1> DEFINE m == Raised(c)
           d == Compressed(m)
<1>1. \A i \in Places : /\ m[i] % N = LowEntries(c)[i]
                        /\ Bit(m[i], R) = Bit(c.bits, i - 1)
                        /\ m[i] % 2 = LowEntries(c)[i] % 2
      BY RaisedEntries
<1>2. d.m00 = c.m00 /\ d.m01 = c.m01 /\ m[1] % 2 = c.m00 % 2
      BY <1>1 DEF Compressed, LowEntries, Places, N
<1>3. d.mvar = c.mvar
      <2>1. CASE c.m00 % 2 = 1
            BY <1>1, <1>2, <2>1 DEF Compressed, LowEntries, Places, Variable, N
      <2>2. CASE c.m00 % 2 # 1
            BY <1>1, <1>2, <2>2 DEF Compressed, LowEntries, Places, Variable, N
      <2> QED
          BY <2>1, <2>2
<1>4. d.bits = c.bits
      <2>1. d.bits = Bit(m[1], R) + 2 * Bit(m[2], R) + 4 * Bit(m[3], R) + 8 * Bit(m[4], R)
            BY DEF Compressed, Bits
      <2>2. /\ Bit(m[1], R) = Bit(c.bits, 0) /\ Bit(m[2], R) = Bit(c.bits, 1)
            /\ Bit(m[3], R) = Bit(c.bits, 2) /\ Bit(m[4], R) = Bit(c.bits, 3)
            BY <1>1 DEF Places
      <2>3. c.bits = Bit(c.bits, 0) + 2 * Bit(c.bits, 1) + 4 * Bit(c.bits, 2) + 8 * Bit(c.bits, 3)
            BY NibbleBits DEF Taken
      <2> QED
          BY <2>1, <2>2, <2>3
<1>5. d = [m00 |-> d.m00, m01 |-> d.m01, mvar |-> d.mvar, bits |-> d.bits]
      BY DEF Compressed
<1>6. c = [m00 |-> c.m00, m01 |-> c.m01, mvar |-> c.mvar, bits |-> c.bits]
      BY DEF Taken, Compact
<1> QED
    BY <1>2, <1>3, <1>4, <1>5, <1>6

---------------------------------------------------------------------------
(* The canonical form.                                                     *)

LEMMA Bounds ==
    /\ Pow2[R + Extra] = 4 * N /\ Pow2[R + Extra - 1] = 2 * N
    /\ N \in Nat \ {0}
<1>1. R + Extra = R + 2 /\ R + Extra - 1 = R + 1
      BY Powers DEF Extra
<1> QED
    BY <1>1, Powers

\* Whatever is recovered is canonical: all its entries are below mid.
LEMMA RaisedCanonical ==
    ASSUME NEW m \in [Places -> 0..(Pow2[R + 1] - 1)]
    PROVE  Canonical(m)
<1>1. Pow2[R + 1] = 2 * N /\ N \in Nat \ {0}
      BY Powers
<1>2. \A i \in Places : m[i] \in Nat /\ m[i] < 4 * N /\ m[i] <= 2 * N
      BY <1>1
<1> QED
    BY <1>2, Bounds DEF Canonical

LEMMA LowLow ==
    ASSUME NEW m \in [Places -> 0..(Pow2[R + 1] - 1)]
    PROVE  Low(m, R + 1) = m
<1>1. \A i \in Places : m[i] % Pow2[R + 1] = m[i]
      BY Powers
<1> QED
    BY <1>1 DEF Low

\* Exactly one of M and -M is canonical.
LEMMA OneOfTwo ==
    ASSUME NEW m \in Matrices, \A i \in Places : m[i] < Pow2[R + Extra], Negated(m) # m
    PROVE  Canonical(m) <=> ~Canonical(Negated(m))
<1> DEFINE n == Negated(m)
           H == 2 * N
<1>1. H \in Nat \ {0} /\ Pow2[R + Extra] = 2 * H /\ Pow2[R + Extra - 1] = H
      BY Bounds
<1>2. \A i \in Places : m[i] \in 0..(2 * H - 1)
      BY <1>1 DEF Matrices
<1>3. \A i \in Places : n[i] = IF m[i] = 0 THEN 0 ELSE 2 * H - m[i]
      <2> SUFFICES ASSUME NEW i \in Places
                   PROVE  (2 * H - m[i]) % (2 * H) = IF m[i] = 0 THEN 0 ELSE 2 * H - m[i]
          BY <1>1 DEF Negated
      <2> DEFINE B == 2 * H
      <2>1. B \in Nat \ {0} /\ m[i] \in 0..(B - 1)
            BY <1>1, <1>2
      <2> HIDE DEF H, B
      <2>2. (B - m[i]) % B = IF m[i] = 0 THEN 0 ELSE B - m[i]
            BY <2>1
      <2> QED
          BY <2>2 DEF B
<1>4. \A i \in Places : /\ n[i] \in 0..(2 * H - 1)
                        /\ n[i] \in {0, H} <=> m[i] \in {0, H}
                        /\ m[i] \notin {0, H} => (n[i] <= H <=> ~(m[i] <= H))
                        /\ m[i] \in {0, H} => m[i] <= H /\ n[i] <= H
      <2> HIDE DEF H, n
      <2> QED
          BY <1>1, <1>2, <1>3
<1>5. PICK k \in Places : m[k] \notin {0, H} /\ \A j \in 1..(k - 1) : m[j] \in {0, H}
      <2>1. PICK i \in Places : m[i] \notin {0, H}
            <3>1. SUFFICES ASSUME \A i \in Places : m[i] \in {0, H}
                           PROVE  FALSE
                  OBVIOUS
            <3>2. \A i \in Places : n[i] = m[i]
                  <4> HIDE DEF H, n
                  <4> QED
                      BY <1>1, <1>3, <3>1
            <3>3. n = m
                  BY <3>2 DEF Negated, Matrices
            <3> QED
                BY <3>3
      <2> HIDE DEF H
      <2>2. CASE m[1] \notin {0, H}
            BY <2>2 DEF Places
      <2>3. CASE m[1] \in {0, H} /\ m[2] \notin {0, H}
            BY <2>3 DEF Places
      <2>4. CASE m[1] \in {0, H} /\ m[2] \in {0, H} /\ m[3] \notin {0, H}
            BY <2>4 DEF Places
      <2>5. CASE m[1] \in {0, H} /\ m[2] \in {0, H} /\ m[3] \in {0, H}
            <3>1. m[4] \notin {0, H}
                  BY <2>1, <2>5 DEF Places
            <3> QED
                BY <2>5, <3>1 DEF Places
      <2> QED
          BY <2>2, <2>3, <2>4, <2>5
<1>6. \A j \in 1..(k - 1) : j \in Places
      BY DEF Places
<1>7. Canonical(m) <=> m[k] <= H
      <2>1. Canonical(m) <=> /\ \A i \in Places : m[i] < 2 * H
                             /\ \A i \in Places : (\A j \in 1..(i - 1) : m[j] \in {0, H}) => m[i] <= H
            BY <1>1 DEF Canonical
      <2> HIDE DEF H
      <2>2. \A i \in Places : m[i] < 2 * H
            BY <1>1, <1>2
      <2>3. \A i \in Places : i > k => ~(\A j \in 1..(i - 1) : m[j] \in {0, H})
            BY <1>5 DEF Places
      <2>4. \A i \in Places : i < k => m[i] <= H
            <3>1. \A i \in Places : i < k => m[i] \in {0, H}
                  BY <1>5 DEF Places
            <3> QED
                BY <1>4, <3>1
      <2>5. \A i \in Places : i > k \/ i < k \/ i = k
            BY DEF Places
      <2> QED
          BY <1>5, <2>1, <2>2, <2>3, <2>4, <2>5
<1>8. Canonical(n) <=> n[k] <= H
      <2>1. Canonical(n) <=> /\ \A i \in Places : n[i] < 2 * H
                             /\ \A i \in Places : (\A j \in 1..(i - 1) : n[j] \in {0, H}) => n[i] <= H
            BY <1>1 DEF Canonical
      <2> HIDE DEF H, n
      <2>2. \A i \in Places : n[i] < 2 * H
            BY <1>1, <1>4
      <2>3. \A i \in Places : i > k => ~(\A j \in 1..(i - 1) : n[j] \in {0, H})
            BY <1>4, <1>5 DEF Places
      <2>4. \A i \in Places : i < k => n[i] <= H
            <3>1. \A i \in Places : i < k => m[i] \in {0, H}
                  BY <1>5 DEF Places
            <3> QED
                BY <1>4, <3>1
      <2>5. \A i \in Places : i > k \/ i < k \/ i = k
            BY DEF Places
      <2>6. \A j \in 1..(k - 1) : n[j] \in {0, H}
            BY <1>4, <1>5, <1>6
      <2> QED
          BY <2>1, <2>2, <2>3, <2>4, <2>5, <2>6
<1>9. n[k] <= H <=> ~(m[k] <= H)
      BY <1>4, <1>5
<1> QED
    BY <1>7, <1>8, <1>9

---------------------------------------------------------------------------
(* What the verifiers accept.                                              *)

\* A matrix the chain accepts has the signer's determinant.
LEMMA AcceptedDet ==
    ASSUME NEW e, NEW m \in Matrices, e.signed \in Matrices, OddDet(e.signed), Accepts(e, m)
    PROVE  Det(m) % N = Det(e.signed) % N /\ OddDet(m)
<1> DEFINE o == e.signed
<1>1. N \in Nat \ {0} /\ Pow2[R + 1] = 2 * N
      BY Powers
<1>2. \A i \in Places : m[i] \in Int /\ o[i] \in Int
      BY DEF Matrices
<1>3. \A i \in Places : \A a \in Int : m[i] % Pow2[R + 1] = a % Pow2[R + 1] => m[i] % N = a % N
      <2> SUFFICES ASSUME NEW i \in Places, NEW a \in Int, m[i] % (2 * N) = a % (2 * N)
                   PROVE  m[i] % N = a % N
          BY <1>1
      <2> DEFINE b == m[i]
                 B == 2 * N
      <2>1. b \in Int /\ B \in Nat \ {0} /\ b % B = a % B
            BY <1>1, <1>2
      <2>2. PICK k \in Int : b = a + k * B
            <3> HIDE DEF b, B
            <3> QED
                BY <2>1, ModDiffer
      <2> DEFINE l == 2 * k
      <2>3. b = a + l * N /\ l \in Int
            BY <1>1, <2>2
      <2>4. b % N = a % N
            <3> HIDE DEF b, B, l
            <3> QED
                BY ONLY <1>1, <2>1, <2>3, a \in Int, ModShift, Zenon
      <2> QED
          BY <2>4
<1>4. \A i \in Places : m[i] % N = o[i] % N
      <2>1. CASE Low(m, R + 1) = Low(o, R + 1)
            <3>1. \A i \in Places : m[i] % Pow2[R + 1] = o[i] % Pow2[R + 1]
                  BY <2>1 DEF Low
            <3> QED
                BY <1>2, <1>3, <3>1
      <2>2. CASE Low(m, R + 1) = Low(Scaled(o), R + 1)
            <3>1. \A i \in Places : m[i] % Pow2[R + 1] = Scaled(o)[i] % Pow2[R + 1]
                  BY <2>2 DEF Low
            <3>2. \A i \in Places : Scaled(o)[i] \in Int /\ Scaled(o)[i] % N = o[i] % N
                  <4> TAKE i \in Places
                  <4> DEFINE a == o[i]
                             b == a * (1 + N)
                  <4>1. a \in Int /\ b \in Int /\ b = a + a * N
                        BY <1>1, <1>2
                  <4>2. b % N = a % N
                        <5> HIDE DEF a, b
                        <5> QED
                            BY ONLY <1>1, <4>1, ModShift, Zenon
                  <4>3. Scaled(o)[i] = b \/ Scaled(o)[i] = a
                        BY DEF Scaled, N
                  <4> HIDE DEF a, b
                  <4>4. Scaled(o)[i] \in Int /\ Scaled(o)[i] % N = a % N
                        BY <4>1, <4>2, <4>3
                  <4> QED
                      BY <4>4 DEF a
            <3>3. \A i \in Places : m[i] % N = Scaled(o)[i] % N
                  BY <1>3, <3>1, <3>2
            <3> QED
                BY <3>2, <3>3
      <2> QED
          BY <2>1, <2>2 DEF Accepts
<1>5. Det(m) % N = Det(o) % N
      BY <1>1, <1>4, DetMod
<1>6. OddDet(m)
      <2>1. Same(Det(m), Det(o), 2)
            <3>1. Det(m) \in Int /\ Det(o) \in Int /\ Same(Det(m), Det(o), N)
                  BY <1>5, DetType DEF Same
            <3> QED
                BY ONLY <3>1, ParityMod, Zenon
      <2> QED
          BY <2>1 DEF Same, OddDet
<1> QED
    BY <1>5, <1>6

\* What compress makes, the decoder takes.
LEMMA CompressedTaken ==
    ASSUME NEW m \in Matrices, OddDet(m)
    PROVE  WellFormed(Compressed(m)) /\ Compressed(m) \in Compact
<1> DEFINE c == Compressed(m)
<1>1. /\ N \in Nat \ {0}
      /\ m[1] \in Int /\ m[2] \in Int /\ m[3] \in Int /\ m[4] \in Int
      /\ m[1] \in Nat /\ m[2] \in Nat /\ m[3] \in Nat /\ m[4] \in Nat
      BY Powers, DetType
<1>2. c.m00 = m[1] % N /\ c.m01 = m[2] % N /\ c.mvar = Variable(m) % N /\ c.bits = Bits(m)
      BY DEF Compressed, N
<1>3. Variable(m) \in Int
      BY <1>1 DEF Variable
<1>4. c.m00 \in 0..(N - 1) /\ c.m01 \in 0..(N - 1) /\ c.mvar \in 0..(N - 1)
      BY <1>1, <1>2, <1>3, SameMod
<1>5. c.m00 % 2 = 1 \/ c.m01 % 2 = 1
      <2>1. Same(m[1] % N, m[1], 2) /\ Same(m[2] % N, m[2], 2)
            <3>1. \A a \in Int : Same(a % N, a, 2)
                  <4> TAKE a \in Int
                  <4>1. a % N \in Int /\ Same(a % N, a, N)
                        BY SameMod
                  <4> QED
                      BY ONLY <4>1, a \in Int, ParityMod, Zenon
            <3> QED
                BY <1>1, <3>1
      <2>2. m[1] % 2 = 1 \/ m[2] % 2 = 1
            BY OddPivot
      <2> QED
          BY <1>2, <2>1, <2>2 DEF Same
<1>6. c.bits \in 0..15
      <2>1. Bit(m[1], R) \in {0, 1} /\ Bit(m[2], R) \in {0, 1} /\ Bit(m[3], R) \in {0, 1} /\ Bit(m[4], R) \in {0, 1}
            BY <1>1, Split
      <2> QED
          BY <1>2, <2>1 DEF Bits
<1> QED
    BY <1>1, <1>4, <1>5, <1>6 DEF WellFormed, Compact, Compressed, N

LEMMA WellFormedTaken ==
    ASSUME NEW c \in Compact, WellFormed(c)
    PROVE  Taken(c)
<1>1. N \in Nat \ {0}
      BY Powers
<1>2. c.bits \in 0..15
      BY DEF WellFormed, Compact
<1> QED
    BY <1>2 DEF Taken, WellFormed, Compact, Pivot, N

---------------------------------------------------------------------------
(* The invariant of the state machine.                                     *)

Before == {"sign", "signed", "received", "compressed", "changed", "decoded", "invert", "panicked"}

\* What each stage rests on: a signed matrix with an odd determinant, the
\* early returns passed, the determinant of the pairings, nothing recovered
\* before the end of the inversion, and at the end the matrix of every
\* signature with that determinant and that compressed form.
StageInv ==
    /\ pc # "sign" => OddDet(env.signed)
    /\ pc \in {"invert", "recovered"} => Ready
    /\ pc = "invert" => det = PairedDet(env) /\ prec >= 3
    /\ pc \in Before => back = Zeros
    /\ pc = "recovered" =>
           /\ back \in [Places -> 0..(Pow2[R + 1] - 1)]
           /\ \A m \in Matrices :
                  OddDet(m) /\ Det(m) % N = Det(env.signed) % N /\ comp = Compressed(m)
                      => back = Low(m, R + 1)

IInv == TypeOK /\ NewtonInv /\ StageInv /\ Recompressed /\ SameVerdict

LEMMA TypeFacts ==
    ASSUME TypeOK
    PROVE  /\ env.signed \in Matrices /\ sig \in Matrices /\ comp \in Compact
           /\ det \in Int /\ inv \in Int /\ prec \in Nat
           /\ pc \in Held => Taken(comp)
           /\ Pow2[R] = N
<1>1. N \in Nat \ {0} /\ Pow2[R] = N
      BY Powers DEF N
<1> QED
    BY <1>1 DEF TypeOK, Taken, Compact

LEMMA InitInv == Init => IInv
<1> SUFFICES ASSUME Init
             PROVE  IInv
    OBVIOUS
<1>1. Zeros \in Matrices /\ Zeros \in [Places -> 0..(Pow2[R + 1] - 1)]
      BY Powers DEF Zeros, Matrices
<1>2. env.signed = Zeros /\ env \in Environments(env.signed)
      BY DEF Init, Environments, Steps
<1>3. comp \in [m00 : Nat, m01 : Nat, mvar : Nat, bits : Nat]
      BY DEF Init, NoComp
<1>4. TypeOK
      BY <1>1, <1>2, <1>3, Powers DEF Init, TypeOK, Held, N
<1> QED
    BY <1>4 DEF IInv, Init, NewtonInv, StageInv, Recompressed, SameVerdict, Before

LEMMA SignInv ==
    ASSUME IInv, NEW m \in Signed, NEW e \in Environments(m), Sign(m, e)
    PROVE  IInv'
<1>1. m \in Matrices /\ OddDet(m)
      BY WireAssumption DEF Signed, Matrices, Places
<1>2. e.signed = m /\ e \in Environments(e.signed)
      BY DEF Environments
<1>3. TypeOK'
      BY <1>1, <1>2 DEF IInv, TypeOK, Sign, Held
<1> QED
    BY <1>1, <1>2, <1>3 DEF IInv, Sign, NewtonInv, StageInv, Recompressed, SameVerdict, Before

LEMMA ReceiveInv ==
    ASSUME IInv, NEW i \in Places, NEW v \in Replaced, Receive(i, v)
    PROVE  IInv'
<1>1. sig' \in Matrices
      BY WireAssumption DEF IInv, TypeOK, Receive, Matrices
<1>2. TypeOK'
      BY <1>1 DEF IInv, TypeOK, Receive, Held
<1> QED
    BY <1>2 DEF IInv, Receive, NewtonInv, StageInv, Recompressed, SameVerdict, Before

LEMMA CompressInv ==
    ASSUME IInv, Compress
    PROVE  IInv'
<1>1. sig \in Matrices /\ comp \in Compact
      BY TypeFacts DEF IInv
<1>2. comp' \in Compact
      BY <1>1, CompressedTaken DEF Compress
<1>3. TypeOK'
      BY <1>2 DEF IInv, TypeOK, Compress, Held, Compact
<1> QED
    BY <1>3 DEF IInv, Compress, NewtonInv, StageInv, Recompressed, SameVerdict, Before

LEMMA ChangeInv ==
    ASSUME IInv, NEW f \in Fields, NEW v \in (IF f = "bits" THEN WireBits ELSE WireEntries), Change(f, v)
    PROVE  IInv'
<1>1. v \in Nat /\ comp \in Compact
      BY WireAssumption, TypeFacts DEF IInv
<1>2. comp' \in Compact
      BY <1>1 DEF Change, Fields, Compact
<1>3. TypeOK'
      BY <1>2 DEF IInv, TypeOK, Change, Held, Compact
<1> QED
    BY <1>3 DEF IInv, Change, NewtonInv, StageInv, Recompressed, SameVerdict, Before

LEMMA DecodeInv ==
    ASSUME IInv, Decode
    PROVE  IInv'
<1>1. /\ comp \in Compact /\ sig \in Matrices /\ env.signed \in Matrices
      /\ pc # "sign" /\ back = Zeros
      BY TypeFacts DEF IInv, Decode, StageInv, Before
<1>2. CASE WellFormed(comp)
      <2>1. Taken(comp) /\ pc' = "decoded" /\ comp' = comp
            BY <1>1, <1>2, WellFormedTaken DEF Decode
      <2>2. TypeOK'
            BY <1>2, <2>1, Powers DEF IInv, TypeOK, Decode, Held, Taken, Compact, N
      <2> QED
          BY <1>2, <2>2 DEF IInv, Decode, NewtonInv, StageInv, Recompressed, SameVerdict, Before
<1>3. CASE ~WellFormed(comp)
      <2>1. TypeOK'
            BY <1>3 DEF IInv, TypeOK, Decode, Held
      <2>2. ~(Verify(env, sig) /\ comp = Compressed(sig))
            <3>1. SUFFICES ASSUME Verify(env, sig), comp = Compressed(sig)
                           PROVE  FALSE
                  OBVIOUS
            <3>2. Accepts(env, sig)
                  BY <3>1 DEF Verify, VerifyInner
            <3>3. OddDet(sig)
                  BY <1>1, <3>2, AcceptedDet DEF IInv, StageInv
            <3> QED
                BY <1>1, <1>3, <3>1, <3>3, CompressedTaken
      <2>3. SameVerdict'
            BY <1>1, <1>3, <2>2 DEF SameVerdict, Decode, Verify, VerifyInner, Accepts
      <2> QED
          BY <1>3, <2>1, <2>3 DEF IInv, Decode, NewtonInv, StageInv, Recompressed, Before
<1> QED
    BY <1>2, <1>3

LEMMA RecoverInv ==
    ASSUME IInv, Recover
    PROVE  IInv'
<1>1. /\ pc = "decoded" /\ back = Zeros /\ Taken(comp)
      /\ env.signed \in Matrices /\ OddDet(env.signed)
      /\ Pow2[R] = N /\ N \in Nat \ {0}
      BY TypeFacts, Powers DEF IInv, Recover, StageInv, Before, Held
<1>2. CASE ~Ready
      <2>1. TypeOK'
            BY <1>2 DEF IInv, TypeOK, Recover, Rejected, Held
      <2>2. SameVerdict'
            BY <1>1, <1>2 DEF SameVerdict, Recover, Rejected, Ready, Verify, VerifyInner, Accepts
      <2> QED
          BY <1>2, <2>1, <2>2 DEF IInv, Recover, Rejected, NewtonInv, StageInv, Recompressed, Before
<1>3. CASE Ready
      <2>1. Pivot(comp) \in 0..(N - 1) /\ Pivot(comp) % 2 = 1
            BY <1>1 DEF Taken, Compact, Pivot
      <2>2. /\ Seed(Pivot(comp)) = Pivot(comp)
            /\ (Pivot(comp) * Pivot(comp) - 1) % Pow2[IF 3 < R THEN 3 ELSE R] = 0
            BY <1>1, <2>1, NewtonStart DEF Seed
      <2>3. /\ inv' = Pivot(comp) /\ prec' = 3 /\ comp' = comp /\ pc' = "invert"
            /\ det' = PairedDet(env) /\ env' = env /\ back' = back
            BY <1>3, <2>2 DEF Recover
      <2>4. PairedDet(env) \in 0..(N - 1)
            <3>1. Det(env.signed) \in Int
                  BY <1>1, DetType
            <3> QED
                BY <1>1, <3>1, SameMod DEF PairedDet, N
      <2>5. TypeOK'
            BY <1>1, <1>3, <2>1, <2>3, <2>4 DEF IInv, TypeOK, Recover, Held
      <2>6. NewtonInv'
            BY <2>2, <2>3 DEF NewtonInv, Pivot
      <2>7. StageInv'
            BY <1>1, <1>3, <2>3 DEF StageInv, Ready, Before, PairedDet, Det
      <2> QED
          BY <2>3, <2>5, <2>6, <2>7 DEF IInv, Recompressed, SameVerdict
<1> QED
    BY <1>2, <1>3

LEMMA NewtonStepInv ==
    ASSUME IInv, Newton
    PROVE  IInv'
<1>1. /\ pc = "invert" /\ prec < R /\ prec \in Nat /\ prec >= 3 /\ inv \in Int
      /\ Taken(comp) /\ Pow2[R] = N /\ N \in Nat \ {0} /\ R \in Nat
      BY TypeFacts, Powers DEF IInv, Newton, StageInv, Held, Precise
<1> DEFINE a == Pivot(comp)
           y == (inv * ((2 - ((a * inv) % N)) % N)) % N
<1>2. a \in Int
      BY <1>1 DEF Taken, Compact, Pivot
<1>3. inv' = y /\ prec' = 2 * prec /\ comp' = comp /\ pc' = pc
      BY <1>1 DEF Newton
<1>4. (a * inv - 1) % Pow2[prec] = 0
      BY <1>1 DEF IInv, NewtonInv
<1>5. y \in 0..(N - 1) /\ (a * y - 1) % Pow2[IF 2 * prec < R THEN 2 * prec ELSE R] = 0
      <2>1. y \in 0..(N - 1)
            BY <1>1, <1>2, NewtonValue
      <2>2. (a * y - 1) % Pow2[IF 2 * prec < R THEN 2 * prec ELSE R] = 0
            <3>1. \A b \in Int : (b * inv - 1) % Pow2[prec] = 0 =>
                      LET z == (inv * ((2 - ((b * inv) % N)) % N)) % N
                      IN  (b * z - 1) % Pow2[IF 2 * prec < R THEN 2 * prec ELSE R] = 0
                  BY <1>1, NewtonTurn
            <3> QED
                BY <1>2, <1>4, <3>1
      <2> QED
          BY <2>1, <2>2
<1>6. NewtonInv'
      <2> HIDE DEF y
      <2>1. Pivot(comp)' = a
            BY <1>3 DEF Pivot
      <2> QED
          BY <1>3, <1>5, <2>1 DEF NewtonInv
<1>7. TypeOK'
      <2> HIDE DEF y
      <2>1. inv' \in 0..(Pow2[R] - 1) /\ prec' \in Nat
            BY <1>1, <1>3, <1>5
      <2> QED
          BY <1>1, <2>1 DEF IInv, TypeOK, Newton, Held, Pivot
<1>8. StageInv'
      <2> HIDE DEF y
      <2>1. prec' >= 3
            BY <1>1, <1>3
      <2> QED
          BY <1>1, <2>1 DEF IInv, StageInv, Newton, Ready, Before
<1> QED
    BY <1>1, <1>3, <1>6, <1>7, <1>8 DEF IInv, Recompressed, SameVerdict

LEMMA ReconstructInv ==
    ASSUME IInv, Reconstruct
    PROVE  IInv'
<1>1. /\ pc = "invert" /\ det \in Int /\ inv \in Int /\ Taken(comp) /\ Ready
      /\ det = PairedDet(env) /\ env.signed \in Matrices /\ OddDet(env.signed)
      /\ N \in Nat \ {0} /\ Pow2[R] = N /\ prec >= R /\ prec \in Nat /\ R \in Nat
      BY TypeFacts, Powers DEF IInv, Reconstruct, StageInv, Held, Precise
<1>2. Inverts(Pivot(comp), inv)
      BY <1>1 DEF IInv, NewtonInv, Inverts
<1>3. det % N = Det(env.signed) % N /\ det % 2 = 1
      <2> DEFINE d == Det(env.signed)
      <2>1. d \in Int /\ det = d % N
            BY <1>1, DetType DEF PairedDet
      <2>2. Same(det, d, N)
            <3> HIDE DEF d
            <3> QED
                BY <2>1, SameMod
      <2>3. Same(det, d, 2)
            <3> HIDE DEF d
            <3> QED
                BY ONLY <1>1, <2>1, <2>2, ParityMod, Zenon
      <2> QED
          BY <1>1, <2>2, <2>3 DEF Same, OddDet
<1>4. back' = Raised(comp) /\ Raised(comp) \in [Places -> 0..(Pow2[R + 1] - 1)]
      BY <1>1, RaisedEntries DEF Reconstruct
<1>5. Canonical(Raised(comp))
      BY <1>4, RaisedCanonical
<1>6. /\ pc' = "recovered" /\ verdict' = verdict /\ comp' = comp /\ env' = env /\ sig' = sig
      BY <1>5 DEF Reconstruct
<1>7. Recompressed'
      <2>1. OddDet(Raised(comp)) /\ Compressed(Raised(comp)) = comp
            BY <1>1, <1>2, <1>3, RaisedDet, RaisedCompressed
      <2>2. OddDet(back') /\ Compressed(back') = comp'
            BY <1>4, <1>6, <2>1
      <2> QED
          BY <2>2 DEF Recompressed, OddDet, Det, Compressed, Variable, Bits, Bit
<1>8. \A m \in Matrices :
          OddDet(m) /\ Det(m) % N = Det(env.signed) % N /\ comp = Compressed(m)
              => Raised(comp) = Low(m, R + 1)
      BY <1>1, <1>2, <1>3, RecoveredMatrix
<1>9. StageInv'
      <2>1. \A m \in Matrices :
                OddDet(m) /\ Det(m) % N = Det(env'.signed) % N /\ comp' = Compressed(m)
                    => back' = Low(m, R + 1)
            BY <1>4, <1>6, <1>8
      <2> QED
          BY <1>1, <1>4, <1>6, <2>1 DEF StageInv, Ready, Before
<1>10. TypeOK'
      BY <1>1, <1>4, <1>6 DEF IInv, TypeOK, Reconstruct, Held, Pivot
<1> QED
    BY <1>6, <1>7, <1>9, <1>10 DEF IInv, NewtonInv, SameVerdict

LEMMA FinishInv ==
    ASSUME IInv, Finish
    PROVE  IInv'
<1>1. /\ pc = "recovered" /\ Ready /\ back \in [Places -> 0..(Pow2[R + 1] - 1)]
      /\ env.signed \in Matrices /\ OddDet(env.signed) /\ sig \in Matrices
      BY TypeFacts DEF IInv, Finish, StageInv
<1>2. /\ pc' = "done" /\ comp' = comp /\ env' = env /\ sig' = sig /\ back' = back
      /\ verdict' = IF Accepts(env, back) THEN "accept" ELSE "reject"
      BY DEF Finish
<1>3. Verify(env, back) <=> Accepts(env, back)
      BY <1>1, RaisedCanonical DEF Verify, VerifyInner, Ready
<1>4. Verify(env, sig) /\ comp = Compressed(sig) => Accepts(env, back)
      <2> SUFFICES ASSUME Verify(env, sig), comp = Compressed(sig)
                   PROVE  Accepts(env, back)
          OBVIOUS
      <2>1. Accepts(env, sig)
            BY DEF Verify, VerifyInner
      <2>2. back = Low(sig, R + 1)
            BY <1>1, <2>1, AcceptedDet DEF IInv, StageInv
      <2>3. Low(back, R + 1) = Low(sig, R + 1)
            BY <1>1, <2>2, LowLow
      <2> QED
          BY <2>1, <2>3 DEF Accepts
<1>5. SameVerdict'
      <2>1. (verdict' = "accept") <=> Accepts(env, back)
            BY <1>2
      <2>2. Verify(env', back') <=> Accepts(env, back)
            BY <1>2, <1>3
      <2>3. Verify(env', sig') /\ comp' = Compressed(sig') => Accepts(env, back)
            BY <1>2, <1>4
      <2> QED
          BY <2>1, <2>2, <2>3 DEF SameVerdict, Verify, VerifyInner, Accepts, Canonical, Low, Scaled, Compressed, Variable, Bits, Bit
<1>6. TypeOK'
      BY <1>1, <1>2 DEF IInv, TypeOK, Finish, Held
<1> QED
    BY <1>1, <1>2, <1>5, <1>6 DEF IInv, NewtonInv, StageInv, Recompressed, Before

\* Every step of the state machine, and every stutter, keeps the invariant.
LEMMA StepInv ==
    ASSUME IInv, [Next]_vars
    PROVE  IInv'
<1>1. ASSUME NEW m \in Signed, NEW e \in Environments(m), Sign(m, e)
      PROVE  IInv'
      BY <1>1, SignInv
<1>2. ASSUME NEW i \in Places, NEW v \in Replaced, Receive(i, v)
      PROVE  IInv'
      BY <1>2, ReceiveInv
<1>3. CASE Compress
      BY <1>3, CompressInv
<1>4. ASSUME NEW f \in Fields, NEW v \in (IF f = "bits" THEN WireBits ELSE WireEntries), Change(f, v)
      PROVE  IInv'
      BY <1>4, ChangeInv
<1>5. CASE Decode
      BY <1>5, DecodeInv
<1>6. CASE Recover
      BY <1>6, RecoverInv
<1>7. CASE Newton
      BY <1>7, NewtonStepInv
<1>8. CASE Reconstruct
      BY <1>8, ReconstructInv
<1>9. CASE Finish
      BY <1>9, FinishInv
<1>10. CASE UNCHANGED vars
      BY <1>10 DEF vars, IInv, TypeOK, NewtonInv, StageInv, Recompressed, SameVerdict, Pivot, Ready,
                   Held, Before, OddDet, Det, Compressed, Variable, Bits, Bit, PairedDet,
                   Verify, VerifyInner, Accepts, Canonical, Low, Scaled
<1> QED
    BY <1>1, <1>2, <1>3, <1>4, <1>5, <1>6, <1>7, <1>8, <1>9, <1>10 DEF Next

\* Types; and a decoded compressed signature is reduced and its pivot odd.
THEOREM TypeCorrect == Spec => []TypeOK
<1>1. IInv => TypeOK
      BY DEF IInv
<1> QED
    BY InitInv, StepInv, <1>1, PTL DEF Spec

\* inv_mod_2exp: every turn of the loop keeps its claim, for every R, every
\* pivot and so for every limb count.
THEOREM InverseRight == Spec => []NewtonInv
<1>1. IInv => NewtonInv
      BY DEF IInv
<1> QED
    BY InitInv, StepInv, <1>1, PTL DEF Spec

\* reconstruct gives the signer's matrix back from its compressed form.
THEOREM RoundTripRight == Spec => []RoundTrip
<1>1. IInv => RoundTrip
      BY TypeFacts DEF IInv, StageInv, RoundTrip
<1> QED
    BY InitInv, StepInv, <1>1, PTL DEF Spec

\* What decompress returns, compress takes, and gives the same bytes.
THEOREM RecompressedRight == Spec => []Recompressed
<1>1. IInv => Recompressed
      BY DEF IInv
<1> QED
    BY InitInv, StepInv, <1>1, PTL DEF Spec

\* verify_compressed and verify decide alike.
THEOREM SameVerdictRight == Spec => []SameVerdict
<1>1. IInv => SameVerdict
      BY DEF IInv
<1> QED
    BY InitInv, StepInv, <1>1, PTL DEF Spec

\* check_canonical_basis_change_matrix lets exactly one of M and -M pass.
THEOREM RepresentativeRight == Spec => []Representative
<1>1. IInv => Representative
      BY TypeFacts, OneOfTwo DEF IInv, Representative
<1> QED
    BY InitInv, StepInv, <1>1, PTL DEF Spec

---------------------------------------------------------------------------
(* Batches.                                                                *)

\* The verdicts written so far, what is left of the caller's slice, and the
\* count of the true ones among those written.
BatchInv ==
    /\ items \in Seq(Kinds) /\ given \in Seq(BOOLEAN) /\ out \in Seq(BOOLEAN)
    /\ turn \in Int /\ turn >= -1
    /\ turn >= 0 =>
           /\ Len(out) = Len(given)
           /\ turn <= Len(items) /\ turn <= Len(out)
           /\ \A k \in 1..turn : out[k] = Verdict(items[k])
           /\ \A k \in (turn + 1)..Len(out) : out[k] = given[k]
           /\ IsFiniteSet({k \in 1..turn : out[k]})
           /\ accepted = Cardinality({k \in 1..turn : out[k]})

LEMMA BatchInitInv == BatchInit => BatchInv
BY DEF BatchInit, BatchInv

LEMMA BatchCallInv ==
    ASSUME BatchInv, NEW its \in BoundedSeq(Kinds, MaxItems), NEW slice \in BoundedSeq(BOOLEAN, MaxItems),
           BatchCall(its, slice)
    PROVE  BatchInv'
<1>1. its \in Seq(Kinds) /\ slice \in Seq(BOOLEAN)
      <2>1. PICK m \in 0..MaxItems : its \in [1..m -> Kinds]
            BY DEF BoundedSeq, SeqOf
      <2>2. PICK n \in 0..MaxItems : slice \in [1..n -> BOOLEAN]
            BY DEF BoundedSeq, SeqOf
      <2>3. m \in Nat /\ n \in Nat
            BY MaxItemsAssumption
      <2> QED
          BY <2>1, <2>2, <2>3
<1>2. items' = its /\ given' = slice /\ out' = slice /\ accepted' = 0 /\ turn' = 0
      BY DEF BatchCall
<1>3. {k \in 1..0 : slice[k]} = {}
      OBVIOUS
<1>4. IsFiniteSet({k \in 1..0 : slice[k]}) /\ Cardinality({k \in 1..0 : slice[k]}) = 0
      BY <1>3, FS_EmptySet
<1>5. Len(slice) \in Nat /\ Len(its) \in Nat
      BY <1>1
<1> QED
    BY <1>1, <1>2, <1>4, <1>5 DEF BatchInv

LEMMA BatchTurnInv ==
    ASSUME BatchInv, BatchTurn
    PROVE  BatchInv'
<1>1. /\ items \in Seq(Kinds) /\ given \in Seq(BOOLEAN) /\ out \in Seq(BOOLEAN)
      /\ turn \in Nat /\ turn < Len(items) /\ turn < Len(out)
      /\ Len(items) \in Nat /\ Len(out) \in Nat /\ Len(out) = Len(given)
      BY DEF BatchInv, BatchTurn, MinLen
<1> DEFINE t == turn + 1
           v == Verdict(items[t])
           S == {k \in 1..turn : out[k]}
           T == {k \in 1..t : out'[k]}
<1>2. v \in BOOLEAN
      BY DEF Verdict
<1>3. /\ items' = items /\ given' = given /\ turn' = t
      /\ out' = [out EXCEPT ![t] = v] /\ accepted' = accepted + Counted(t)
      BY DEF BatchTurn
<1>4. /\ out' \in Seq(BOOLEAN) /\ Len(out') = Len(out)
      /\ out'[t] = v /\ \A k \in 1..Len(out) : k # t => out'[k] = out[k]
      BY <1>1, <1>2, <1>3
<1>5. T = IF v THEN S \cup {t} ELSE S
      <2>1. \A k : k \in 1..t <=> k \in 1..turn \/ k = t
            BY <1>1
      <2>2. \A k \in 1..turn : k \in 1..Len(out) /\ k # t
            BY <1>1
      <2>3. \A k \in 1..turn : out'[k] = out[k]
            BY <1>4, <2>2
      <2> HIDE DEF t, v
      <2> QED
          BY <1>4, <2>1, <2>3
<1>6. t \notin S /\ IsFiniteSet(S) /\ accepted = Cardinality(S)
      BY <1>1 DEF BatchInv
<1>7. IsFiniteSet(T) /\ accepted' = Cardinality(T)
      <2>1. IsFiniteSet(S \cup {t}) /\ Cardinality(S \cup {t}) = Cardinality(S) + 1
            BY <1>6, FS_AddElement
      <2>2. Counted(t) = IF v THEN 1 ELSE 0
            BY DEF Counted
      <2>3. Cardinality(S) \in Nat
            BY <1>6, FS_CardinalityType
      <2> HIDE DEF S, T, t, v
      <2> QED
          BY <1>3, <1>5, <1>6, <2>1, <2>2, <2>3
<1>8. \A k \in 1..t : out'[k] = Verdict(items[k])
      BY <1>1, <1>4 DEF BatchInv
<1>9. \A k \in (t + 1)..Len(out) : out'[k] = given[k]
      BY <1>1, <1>4 DEF BatchInv
<1> QED
    BY <1>1, <1>3, <1>4, <1>7, <1>8, <1>9 DEF BatchInv

\* The loop of verify_batch leaves the verdicts, the rest of the slice and the
\* count as they should be, for batches and slices of any length.
THEOREM BatchRight == BatchSpec => []BatchVerdicts
<1>1. BatchInv /\ [BatchNext]_bvars => BatchInv'
      <2> SUFFICES ASSUME BatchInv, [BatchNext]_bvars
                   PROVE  BatchInv'
          OBVIOUS
      <2>1. ASSUME NEW its \in BoundedSeq(Kinds, MaxItems), NEW slice \in BoundedSeq(BOOLEAN, MaxItems),
                   BatchCall(its, slice)
            PROVE  BatchInv'
            BY <2>1, BatchCallInv
      <2>2. CASE BatchTurn
            BY <2>2, BatchTurnInv
      <2>3. CASE UNCHANGED bvars
            BY <2>3 DEF bvars, BatchInv
      <2> QED
          BY <2>1, <2>2, <2>3 DEF BatchNext
<1>2. BatchInv => BatchVerdicts
      <2> SUFFICES ASSUME BatchInv, turn >= 0, turn = MinLen(items, out)
                   PROVE  /\ Len(out) = Len(given)
                          /\ \A k \in 1..Len(out) :
                                 out[k] = IF k <= Len(items) THEN Verdict(items[k]) ELSE given[k]
                          /\ accepted = Cardinality({k \in 1..MinLen(items, out) : out[k]})
          BY DEF BatchVerdicts
      <2>1. Len(items) \in Nat /\ Len(out) \in Nat
            BY DEF BatchInv
      <2>2. CASE Len(items) < Len(out)
            <3>1. turn = Len(items)
                  BY <2>2 DEF MinLen
            <3> QED
                BY <2>1, <2>2, <3>1 DEF BatchInv
      <2>3. CASE ~(Len(items) < Len(out))
            <3>1. turn = Len(out)
                  BY <2>3 DEF MinLen
            <3> QED
                BY <2>1, <2>3, <3>1 DEF BatchInv
      <2> QED
          BY <2>2, <2>3
<1> QED
    BY BatchInitInv, <1>1, <1>2, PTL DEF BatchSpec
============================================================================
