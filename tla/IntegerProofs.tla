--------------------------- MODULE IntegerProofs --------------------------
(***************************************************************************)
(* Proofs about IntegerOps, Division and Dispatch: what the limbs of a     *)
(* bounded integer stand for, operation by operation, the length found     *)
(* from them, the inverse modulo a power of two; the division of its       *)
(* magnitudes; and the choice of the field kernels.                        *)
(***************************************************************************)
EXTENDS IntegerOps, Division, Dispatch, NumberFacts

---------------------------------------------------------------------------
(* Powers of two and widths.                                               *)

LEMMA Sizes == W \in Nat /\ W >= 2 /\ N \in Nat /\ N >= 2 /\ MaxBits \in Nat /\ MaxBits >= 4 /\ MaxBits = W * N
<1>1. W \in Nat /\ N \in Nat /\ W >= 2 /\ N >= 2
      BY IntAssumption
<1>2. W * N \in Nat /\ (W - 2) * N \in Nat /\ W * N = 2 * N + (W - 2) * N
      BY <1>1
<1> QED
    BY <1>1, <1>2 DEF MaxBits

\* The sequence of doublings, of which the powers of two are the beginning.
LEMMA PowersAre == \E f : Doubles(f) /\ \A k \in 0..(MaxBits + 2) : 2 ^ k = f[k]
<1>1. PICK f : f = [n \in Nat |-> IF n = 0 THEN 1 ELSE 2 * f[n - 1]]
      BY DoublesExists
<1>2. Doubles(f)
      BY <1>1, DoublesDef
<1> DEFINE S == {k \in Nat : k <= MaxBits + 2 => 2 ^ k = f[k]}
<1>3. 0 \in S
      BY <1>2, IntPowers DEF Doubles
<1>4. ASSUME NEW k \in Nat, k \in S PROVE k + 1 \in S
      <2> SUFFICES ASSUME k + 1 <= MaxBits + 2 PROVE 2 ^ (k + 1) = f[k + 1]
          OBVIOUS
      <2>1. k \in 0..(MaxBits + 1) /\ 2 ^ k = f[k]
            BY <1>4, Sizes
      <2>2. 2 ^ (k + 1) = 2 * 2 ^ k
            BY <2>1, IntPowers
      <2>3. f[k + 1] = 2 * f[k]
            BY <1>2 DEF Doubles
      <2> QED
          BY <2>1, <2>2, <2>3
<1>5. Nat \subseteq S
      <2> HIDE DEF S
      <2> QED
          BY <1>3, <1>4, SimpleInduction
<1>6. \A k \in 0..(MaxBits + 2) : 2 ^ k = f[k]
      BY <1>5, Sizes
<1> QED
    BY <1>2, <1>6

LEMMA TwoPower ==
    ASSUME NEW k \in Nat, k <= MaxBits + 2
    PROVE  2 ^ k \in Nat \ {0} /\ (k <= MaxBits + 1 => 2 ^ (k + 1) = 2 * 2 ^ k)
<1>1. PICK f : Doubles(f) /\ \A i \in 0..(MaxBits + 2) : 2 ^ i = f[i]
      BY PowersAre
<1>2. 2 ^ k = f[k] /\ f[k] \in Nat \ {0}
      BY <1>1, Sizes DEF Doubles
<1>3. k <= MaxBits + 1 => 2 ^ (k + 1) = 2 * 2 ^ k
      BY IntPowers, Sizes
<1> QED
    BY <1>2, <1>3

LEMMA PowerSum ==
    ASSUME NEW i \in Nat, NEW j \in Nat, i + j <= MaxBits + 2
    PROVE  2 ^ (i + j) = 2 ^ i * 2 ^ j
<1>1. PICK f : Doubles(f) /\ \A k \in 0..(MaxBits + 2) : 2 ^ k = f[k]
      BY PowersAre
<1>2. f[i + j] = f[i] * f[j]
      BY <1>1, DoublesSum
<1>3. 2 ^ (i + j) = f[i + j] /\ 2 ^ i = f[i] /\ 2 ^ j = f[j]
      BY <1>1, Sizes
<1> QED
    BY <1>2, <1>3

LEMMA PowerLe ==
    ASSUME NEW i \in Nat, NEW j \in Nat, i <= j, j <= MaxBits + 2
    PROVE  2 ^ i <= 2 ^ j /\ \E q \in Nat \ {0} : 2 ^ j = 2 ^ i * q
<1>1. j - i \in Nat /\ i + (j - i) = j
      OBVIOUS
<1>2. 2 ^ (i + (j - i)) = 2 ^ i * 2 ^ (j - i)
      BY <1>1, PowerSum
<1>3. 2 ^ i \in Nat \ {0} /\ 2 ^ (j - i) \in Nat \ {0} /\ 2 ^ j = 2 ^ i * 2 ^ (j - i)
      <2>1. 2 ^ i \in Nat \ {0}
            <3>1. i <= MaxBits + 2
                  BY Sizes
            <3> QED
                BY <3>1, TwoPower
      <2>2. 2 ^ (j - i) \in Nat \ {0}
            <3>1. j - i <= MaxBits + 2
                  BY Sizes
            <3> QED
                BY <1>1, <3>1, TwoPower
      <2> QED
          BY <1>1, <1>2, <2>1, <2>2
<1> DEFINE a == 2 ^ i
           q == 2 ^ (j - i)
<1>4. a \in Nat \ {0} /\ q \in Nat \ {0} /\ 2 ^ j = a * q
      BY <1>3
<1> HIDE DEF a, q
<1>5. (q - 1) * a \in Nat /\ a * q = a + (q - 1) * a
      BY <1>4
<1>6. a <= a * q
      BY <1>4, <1>5
<1> QED
    BY <1>4, <1>6 DEF a

LEMMA PowerLess ==
    ASSUME NEW i \in Nat, NEW j \in Nat, i < j, j <= MaxBits + 2
    PROVE  2 ^ i < 2 ^ j
<1>1. i + 1 \in Nat /\ i + 1 <= j /\ i <= MaxBits + 1 /\ i <= MaxBits + 2
      BY Sizes
<1>2. 2 ^ (i + 1) <= 2 ^ j
      BY <1>1, PowerLe
<1>3. 2 ^ i \in Nat \ {0} /\ 2 ^ (i + 1) = 2 * 2 ^ i /\ 2 ^ j \in Nat
      BY <1>1, TwoPower
<1> QED
    BY <1>2, <1>3

LEMMA SmallPowers == 2 ^ 0 = 1 /\ 2 ^ 1 = 2 /\ 2 ^ 2 = 4
<1>1. 2 ^ 0 = 1 /\ 2 ^ (0 + 1) = 2 * 2 ^ 0 /\ 2 ^ (1 + 1) = 2 * 2 ^ 1
      BY IntPowers, Sizes
<1>2. 0 + 1 = 1 /\ 1 + 1 = 2
      OBVIOUS
<1> QED
    BY <1>1, <1>2

\* The limbs that b bits need.
LEMMA WidthIs ==
    ASSUME NEW b \in 1..MaxBits
    PROVE  /\ Width(b) \in Nat /\ b <= Width(b) /\ Width(b) <= MaxBits /\ W <= Width(b)
           /\ Width(b) \div W \in 1..N /\ Width(b) = W * (Width(b) \div W)
<1> DEFINE n == (b + W - 1) \div W
           r == (b + W - 1) % W
<1>1. W \in Nat \ {0} /\ b \in Nat /\ b >= 1 /\ b <= W * N
      BY Sizes
<1>2. b + W - 1 = W * n + r /\ r \in 0..(W - 1) /\ n \in Int
      <2> DEFINE a == b + W - 1
      <2>1. a \in Int
            BY <1>1
      <2>2. a = W * (a \div W) + (a % W) /\ a % W \in 0..(W - 1) /\ a \div W \in Int
            <3> HIDE DEF a
            <3> QED
                BY <1>1, <2>1, DivMod
      <2> QED
          BY <2>2
<1> HIDE DEF n, r
<1>3. b <= W * n
      BY <1>1, <1>2
<1>4. n >= 1
      <2> SUFFICES ASSUME n <= 0 PROVE FALSE
          BY <1>2
      <2>1. W * (-n) \in Nat /\ W * n = -(W * (-n))
            BY <1>1, <1>2
      <2> QED
          BY <1>1, <1>2, <1>3, <2>1
<1>5. n <= N
      <2> SUFFICES ASSUME n >= N + 1 PROVE FALSE
          BY <1>2, Sizes
      <2>1. N \in Nat /\ W * (n - (N + 1)) \in Nat /\ W * n = W * (n - (N + 1)) + W * N + W
            BY <1>1, <1>2, Sizes
      <2>2. W * N \in Nat
            BY Sizes
      <2> QED
          BY <1>1, <1>2, <2>1, <2>2
<1>6. W * n \in Nat /\ W * n <= W * N /\ W <= W * n
      <2>1. N \in Nat /\ W * (N - n) \in Nat /\ W * N = W * n + W * (N - n)
            BY <1>1, <1>2, <1>5, Sizes
      <2>2. W * (n - 1) \in Nat /\ W * n = W + W * (n - 1)
            BY <1>1, <1>2, <1>4
      <2> QED
          BY <1>1, <2>1, <2>2
<1>7. Width(b) = W * n
      BY DEF Width, n
<1>8. (W * n) \div W = n
      <2> DEFINE a == W * n
      <2>1. a \in Int /\ a = W * n + 0 /\ 0 \in 0..(W - 1)
            BY <1>1, <1>2
      <2>2. a \div W = n
            <3> HIDE DEF a
            <3> QED
                BY <1>1, <1>2, <2>1, Residue
      <2> QED
          BY <2>2
<1> QED
    BY <1>2, <1>3, <1>4, <1>5, <1>6, <1>7, <1>8, Sizes

LEMMA WidthLe ==
    ASSUME NEW b \in 1..MaxBits, NEW c \in 1..MaxBits, b <= c
    PROVE  Width(b) <= Width(c)
<1> DEFINE n == (b + W - 1) \div W
           m == (c + W - 1) \div W
<1>1. W \in Nat \ {0} /\ b \in Nat /\ c \in Nat
      BY Sizes
<1>2. n \in Int /\ m \in Int /\ n <= m
      BY <1>1
<1> HIDE DEF n, m
<1>3. W * (m - n) \in Nat /\ W * m = W * n + W * (m - n) /\ W * n \in Int
      BY <1>1, <1>2
<1>4. Width(b) = W * n /\ Width(c) = W * m
      BY DEF Width, n, m
<1> QED
    BY <1>3, <1>4

\* A whole number of limbs is its own width.
LEMMA WidthWhole ==
    ASSUME NEW n \in 1..N
    PROVE  W * n \in 1..MaxBits /\ Width(W * n) = W * n
<1>1. W \in Nat \ {0} /\ n \in Nat /\ N \in Nat /\ n >= 1 /\ n <= N
      BY Sizes
<1>2. W * n \in Nat /\ W * n >= 1 /\ W * n <= W * N
      <2>1. W * (N - n) \in Nat /\ W * N = W * n + W * (N - n)
            BY <1>1
      <2>2. W * (n - 1) \in Nat /\ W * n = W + W * (n - 1)
            BY <1>1
      <2> QED
          BY <1>1, <2>1, <2>2
<1>3. (W * n + W - 1) \div W = n
      <2> DEFINE a == W * n + W - 1
      <2>1. a \in Int /\ a = W * n + (W - 1) /\ W - 1 \in 0..(W - 1)
            BY <1>1
      <2>2. a \div W = n
            <3> HIDE DEF a
            <3> QED
                BY <1>1, <2>1, Residue
      <2> QED
          BY <2>2
<1> QED
    BY <1>2, <1>3, Sizes DEF Width

---------------------------------------------------------------------------
(* What the limbs stand for.                                               *)

Mod(b)  == 2 ^ Width(b)
Edge(b) == 2 ^ (Width(b) - 1)

LEMMA ModIs ==
    ASSUME NEW b \in 1..MaxBits
    PROVE  /\ Mod(b) \in Nat \ {0} /\ Edge(b) \in Nat \ {0} /\ Mod(b) = 2 * Edge(b) /\ Edge(b) >= 2
           /\ 2 ^ (b - 1) \in Nat \ {0} /\ 2 ^ (b - 1) <= Edge(b) /\ Mod(b) = 2 ^ Width(b)
           /\ \E q \in Nat \ {0} : 2 ^ MaxBits = Mod(b) * q
<1>1. Width(b) \in Nat /\ Width(b) >= 2 /\ b <= Width(b) /\ Width(b) <= MaxBits /\ b \in Nat /\ b >= 1
      BY WidthIs, Sizes
<1> DEFINE w == Width(b)
<1> HIDE DEF w
<1>2. w \in Nat /\ w >= 2 /\ b <= w /\ w <= MaxBits /\ b - 1 \in Nat /\ w - 1 \in Nat
      BY <1>1 DEF w
<1>3. MaxBits \in Nat /\ w <= MaxBits + 2 /\ w - 1 <= MaxBits + 1 /\ w - 1 <= MaxBits + 2 /\ (w - 1) + 1 = w
      BY <1>2, Sizes
<1>4. 2 ^ (w - 1) \in Nat \ {0} /\ 2 ^ ((w - 1) + 1) = 2 * 2 ^ (w - 1)
      BY <1>2, <1>3, TwoPower
<1>5. 2 ^ 1 <= 2 ^ (w - 1)
      <2>1. 1 \in Nat /\ 1 <= w - 1
            BY <1>2
      <2> QED
          BY <1>2, <1>3, <2>1, PowerLe
<1>6. 2 ^ (b - 1) <= 2 ^ (w - 1)
      BY <1>2, <1>3, PowerLe
<1>7. 2 ^ (b - 1) \in Nat \ {0}
      <2>1. b - 1 <= MaxBits + 2
            BY <1>2, <1>3
      <2> QED
          BY <1>2, <2>1, TwoPower
<1>8. \E q \in Nat \ {0} : 2 ^ MaxBits = 2 ^ w * q
      <2>1. MaxBits <= MaxBits + 2
            BY <1>3
      <2> QED
          BY <1>2, <1>3, <2>1, PowerLe
<1>9. 2 ^ w = 2 * 2 ^ (w - 1)
      BY <1>3, <1>4
<1> QED
    BY <1>4, <1>5, <1>6, <1>7, <1>8, <1>9, SmallPowers DEF Mod, Edge, w

\* The signed reading of a residue.
Reading(r, m) == IF 2 * r >= m THEN r - m ELSE r

LEMMA ReadingIs ==
    ASSUME NEW h \in Nat \ {0}, NEW m, m = 2 * h, NEW r \in 0..(m - 1), NEW v, v = Reading(r, m)
    PROVE  /\ v \in Int /\ -h <= v /\ v < h /\ Same(v, r, m)
           /\ (2 * r >= m <=> v < 0) /\ r = IF v < 0 THEN v + m ELSE v
<1>1. m \in Nat \ {0} /\ r \in Int
      OBVIOUS
<1>2. v \in Int /\ -h <= v /\ v < h /\ (2 * r >= m <=> v < 0) /\ r = (IF v < 0 THEN v + m ELSE v)
      BY DEF Reading
<1>3. \E k \in Int : v = r + k * m
      <2>1. v = r + 0 * m \/ v = r + (-1) * m
            BY DEF Reading
      <2> QED
          BY <2>1
<1>4. v % m = r % m
      <2>1. PICK k \in Int : v = r + k * m
            BY <1>3
      <2> QED
          BY <1>1, <1>2, <2>1, ModShift
<1> QED
    BY <1>2, <1>4 DEF Same

\* Two numbers of less than half the modulus.
LEMMA SameIsEqual ==
    ASSUME NEW h \in Nat \ {0}, NEW m, m = 2 * h, NEW u \in Int, NEW v \in Int,
           -h <= u, u < h, -h <= v, v < h, Same(u, v, m)
    PROVE  u = v
<1>1. m \in Nat \ {0} /\ u % m = v % m
      BY DEF Same
<1>2. PICK k \in Int : u = v + k * m
      BY <1>1, ModDiffer
<1>3. k * m < m /\ -m < k * m
      <2>1. k * m = u - v
            BY <1>1, <1>2
      <2>2. u - v < m /\ -m < u - v
            OBVIOUS
      <2> QED
          BY ONLY <2>1, <2>2
<1>4. k < 1
      <2> SUFFICES ASSUME k >= 1 PROVE FALSE
          OBVIOUS
      <2>1. (k - 1) * m \in Nat /\ k * m = (k - 1) * m + m
            BY <1>1
      <2> QED
          BY <1>1, <1>3, <2>1
<1>5. k > -1
      <2> SUFFICES ASSUME k <= -1 PROVE FALSE
          OBVIOUS
      <2>1. (-1 - k) * m \in Nat /\ k * m = -((-1 - k) * m) - m
            BY <1>1
      <2> QED
          BY <1>1, <1>3, <2>1
<1>6. k = 0
      BY <1>4, <1>5
<1> QED
    BY <1>1, <1>2, <1>6

Num(a) == /\ a = [bits |-> a.bits, limbs |-> a.limbs]
          /\ a.bits \in 1..MaxBits /\ a.limbs \in Int

\* The value, the sign and the active limbs of a number.
ReadsAs(a, v) ==
    /\ v \in Int /\ -Edge(a.bits) <= v /\ v < Edge(a.bits)
    /\ Same(a.limbs, v, Mod(a.bits)) /\ Negative(a) \in BOOLEAN /\ (Negative(a) <=> v < 0)
    /\ Active(a) \in 0..(Mod(a.bits) - 1) /\ Same(a.limbs, Active(a), Mod(a.bits))
    /\ Active(a) = IF v < 0 THEN v + Mod(a.bits) ELSE v
    /\ Stale(a) \in Int /\ Same(Stale(a), 0, Mod(a.bits))

LEMMA SameSwap ==
    ASSUME NEW a, NEW b, NEW m, Same(a, b, m)
    PROVE  Same(b, a, m)
BY DEF Same

LEMMA SameShift ==
    ASSUME NEW m \in Nat \ {0}, NEW a \in Int, NEW b \in Int, NEW k \in Int, a = b + k * m
    PROVE  Same(a, b, m)
BY ModShift DEF Same

LEMMA NumReads ==
    ASSUME NEW a, Num(a)
    PROVE  ReadsAs(a, Value(a))
<1> DEFINE b == a.bits
           m == Mod(b)
           h == Edge(b)
           r == Active(a)
           v == Value(a)
<1>1. b \in 1..MaxBits /\ a.limbs \in Int
      BY DEF Num
<1>2. m \in Nat \ {0} /\ h \in Nat \ {0} /\ m = 2 * h /\ Modulus(a) = m
      BY <1>1, ModIs DEF Modulus, Mod
<1>3. r = a.limbs % m
      BY <1>2 DEF Active
<1> HIDE DEF m, h, b
<1>4. r \in 0..(m - 1) /\ r \in Int /\ Same(r, a.limbs, m)
      BY <1>1, <1>2, <1>3, SameResidue
<1>5. v = Reading(r, m) /\ Negative(a) = (2 * r >= m)
      BY <1>2 DEF Value, Negative, Reading
<1> DEFINE s == Stale(a)
<1>6. s = a.limbs - r
      BY DEF Stale
<1> HIDE DEF r, v, s
<1>7. /\ v \in Int /\ -h <= v /\ v < h /\ Same(v, r, m)
      /\ (2 * r >= m <=> v < 0) /\ r = IF v < 0 THEN v + m ELSE v
      BY <1>2, <1>4, <1>5, ReadingIs
<1>8. Same(a.limbs, v, m) /\ Same(a.limbs, r, m)
      <2>1. Same(a.limbs, r, m) /\ Same(r, v, m)
            BY <1>4, <1>7, SameSwap
      <2> QED
          BY <2>1, SameTrans
<1>9. s \in Int /\ Same(s, 0, m)
      <2>1. Same(r, r, m)
            BY DEF Same
      <2>2. Same(a.limbs - r, r - r, m)
            BY <1>1, <1>2, <1>4, <1>8, <2>1, SameSub
      <2> QED
          BY <1>1, <1>4, <1>6, <2>2
<1>10. Negative(a) \in BOOLEAN /\ (Negative(a) <=> v < 0)
       <2>1. (2 * r >= m) \in BOOLEAN
             OBVIOUS
       <2> QED
           BY <1>5, <1>7, <2>1, Zenon
<1> QED
    BY <1>4, <1>7, <1>8, <1>9, <1>10 DEF ReadsAs, m, h, b, r, v, s

LEMMA ValueIs ==
    ASSUME NEW a, Num(a), NEW v \in Int, -Edge(a.bits) <= v, v < Edge(a.bits), Same(a.limbs, v, Mod(a.bits))
    PROVE  Value(a) = v
<1> DEFINE u == Value(a)
           m == Mod(a.bits)
           h == Edge(a.bits)
<1>1. m \in Nat \ {0} /\ h \in Nat \ {0} /\ m = 2 * h
      BY ModIs DEF Num
<1>2. u \in Int /\ -h <= u /\ u < h /\ Same(a.limbs, u, m)
      BY NumReads DEF ReadsAs
<1>3. -h <= v /\ v < h /\ Same(a.limbs, v, m)
      OBVIOUS
<1> HIDE DEF u, m, h
<1>4. Same(u, v, m)
      <2>1. Same(u, a.limbs, m)
            BY <1>2, SameSwap
      <2> QED
          BY <1>3, <2>1, SameTrans
<1>5. u = v
      BY <1>1, <1>2, <1>3, <1>4, SameIsEqual
<1> QED
    BY <1>5 DEF u

\* a stands for v, strictly within its bound.
Holds(a, v) == Num(a) /\ v \in Int /\ Value(a) = v /\ Magnitude(v) < 2 ^ (a.bits - 1)

LEMMA Within ==
    ASSUME NEW b \in 1..MaxBits, NEW v \in Int, Magnitude(v) < 2 ^ (b - 1)
    PROVE  /\ -Edge(b) <= v /\ v < Edge(b)
           /\ -2 ^ (b - 1) < v /\ v < 2 ^ (b - 1)
<1> DEFINE p == 2 ^ (b - 1)
           h == Edge(b)
<1>1. p \in Nat /\ h \in Nat /\ p <= h /\ Magnitude(v) < p
      BY ModIs
<1>2. -p = -2 ^ (b - 1)
      OBVIOUS
<1> HIDE DEF p, h
<1>3. -h <= v /\ v < h /\ -p < v /\ v < p
      BY <1>1 DEF Magnitude
<1> QED
    BY <1>2, <1>3 DEF p, h

LEMMA HoldsIf ==
    ASSUME NEW a, Num(a), NEW v \in Int, Magnitude(v) < 2 ^ (a.bits - 1), Same(a.limbs, v, Mod(a.bits))
    PROVE  Holds(a, v)
<1>1. -Edge(a.bits) <= v /\ v < Edge(a.bits)
      BY Within DEF Num
<1>2. Value(a) = v
      BY <1>1, ValueIs
<1> QED
    BY <1>2 DEF Holds

LEMMA FreshIs ==
    ASSUME NEW v \in Int, NEW b \in 1..MaxBits
    PROVE  /\ Num(Fresh(v, b)) /\ Fresh(v, b).bits = b /\ Same(Fresh(v, b).limbs, v, Mod(b))
           /\ Fresh(v, b).limbs \in 0..(Mod(b) - 1)
           /\ Magnitude(v) < 2 ^ (b - 1) => Holds(Fresh(v, b), v)
<1>1. Mod(b) \in Nat \ {0} /\ 2 ^ Width(b) = Mod(b)
      BY ModIs
<1>2. v % Mod(b) \in 0..(Mod(b) - 1) /\ v % Mod(b) \in Int /\ Same(v % Mod(b), v, Mod(b))
      BY <1>1, SameResidue
<1>3. Fresh(v, b) = [bits |-> b, limbs |-> v % Mod(b)]
      BY <1>1 DEF Fresh
<1> DEFINE f == Fresh(v, b)
           l == v % Mod(b)
<1> HIDE DEF l
<1>4. f = [bits |-> b, limbs |-> l] /\ l \in Int /\ l \in 0..(Mod(b) - 1) /\ Same(l, v, Mod(b))
      BY <1>2, <1>3 DEF l
<1> HIDE DEF f
<1>5. Num(f) /\ f.bits = b /\ f.limbs = l
      BY <1>4 DEF Num
<1>6. Magnitude(v) < 2 ^ (b - 1) => Holds(f, v)
      BY <1>4, <1>5, HoldsIf
<1> QED
    BY <1>4, <1>5, <1>6 DEF f

---------------------------------------------------------------------------
(* Sums, signs and products.                                               *)

LEMMA WidthTop == Width(MaxBits) = MaxBits /\ Mod(MaxBits) = 2 ^ MaxBits /\ MaxBits \in 1..MaxBits
<1>1. N \in 1..N /\ MaxBits = W * N
      BY Sizes
<1>2. MaxBits \in 1..MaxBits /\ Width(MaxBits) = MaxBits
      BY <1>1, WidthWhole
<1> QED
    BY <1>2 DEF Mod

\* The modulus of fewer bits divides that of more.
LEMMA SameDown ==
    ASSUME NEW b \in 1..MaxBits, NEW u \in Int, NEW v \in Int, Same(u, v, 2 ^ MaxBits)
    PROVE  Same(u, v, Mod(b))
<1>1. PICK q \in Nat \ {0} : 2 ^ MaxBits = Mod(b) * q
      BY ModIs
<1> DEFINE m == Mod(b)
<1>2. m \in Nat \ {0} /\ u % (m * q) = v % (m * q)
      BY <1>1, ModIs DEF Same
<1> HIDE DEF m
<1>3. u % m = v % m
      BY <1>2, ModDown
<1> QED
    BY <1>3 DEF Same, m

LEMMA SumsHold ==
    ASSUME NEW a, NEW b, NEW v, NEW w, Holds(a, v), Holds(b, w), Greatest(a.bits, b.bits) < MaxBits
    PROVE  Holds(Sum(a, b), v + w) /\ Holds(Difference(a, b), v - w)
<1> DEFINE g == Greatest(a.bits, b.bits)
           p == 2 ^ (a.bits - 1)
           q == 2 ^ (b.bits - 1)
           s == 2 ^ (g - 1)
<1>1. a.bits \in 1..MaxBits /\ b.bits \in 1..MaxBits /\ MaxBits \in Nat
      BY Sizes DEF Holds, Num
<1>2. g \in 1..MaxBits /\ g < MaxBits /\ a.bits <= g /\ b.bits <= g /\ g - 1 \in Nat /\ (g - 1) + 1 = g /\ g + 1 \in 1..MaxBits
      BY <1>1 DEF Greatest
<1>3. Least(g + 1, MaxBits) = g + 1 /\ (g + 1) - 1 = g
      BY <1>1, <1>2 DEF Least
<1>4. v \in Int /\ w \in Int /\ Value(a) = v /\ Value(b) = w /\ Magnitude(v) < p /\ Magnitude(w) < q
      BY DEF Holds
<1>5. p \in Nat /\ p <= s
      <2>1. a.bits - 1 \in Nat /\ a.bits - 1 <= g - 1 /\ g - 1 <= MaxBits + 2 /\ a.bits - 1 <= MaxBits + 2
            BY <1>1, <1>2
      <2> QED
          BY <1>2, <2>1, PowerLe, TwoPower
<1>6. q \in Nat /\ q <= s
      <2>1. b.bits - 1 \in Nat /\ b.bits - 1 <= g - 1 /\ g - 1 <= MaxBits + 2 /\ b.bits - 1 <= MaxBits + 2
            BY <1>1, <1>2
      <2> QED
          BY <1>2, <2>1, PowerLe, TwoPower
<1>7. s \in Nat /\ 2 ^ g = 2 * s
      <2>1. g - 1 <= MaxBits + 2 /\ g - 1 <= MaxBits + 1
            BY <1>1, <1>2
      <2> QED
          BY <1>2, <2>1, TwoPower
<1>8. Magnitude(v + w) < 2 ^ g /\ Magnitude(v - w) < 2 ^ g
      <2> HIDE DEF g, p, q, s
      <2> QED
          BY <1>4, <1>5, <1>6, <1>7 DEF Magnitude
<1>9. Sum(a, b) = Fresh(v + w, g + 1) /\ Difference(a, b) = Fresh(v - w, g + 1)
      BY <1>3, <1>4 DEF Sum, Difference
<1> HIDE DEF g
<1>10. v + w \in Int /\ v - w \in Int
       BY <1>4
<1>11. Holds(Fresh(v + w, g + 1), v + w)
       BY <1>2, <1>3, <1>8, <1>10, FreshIs
<1>12. Holds(Fresh(v - w, g + 1), v - w)
       BY <1>2, <1>3, <1>8, <1>10, FreshIs
<1> QED
    BY <1>9, <1>11, <1>12

LEMMA CNegIs ==
    ASSUME NEW a, Num(a), NEW neg \in BOOLEAN
    PROVE  /\ Num(CNeg(a, neg)) /\ CNeg(a, neg).bits = a.bits
           /\ Same(CNeg(a, neg).limbs, Signs(neg, Value(a)), Mod(a.bits))
           /\ CNeg(a, neg).limbs \in 0..(Mod(a.bits) - 1)
<1> DEFINE b == a.bits
           m == Mod(b)
           r == Active(a)
           v == Value(a)
           f == IF neg THEN -r ELSE r
           u == IF neg THEN -v ELSE v
<1>1. b \in 1..MaxBits
      BY DEF Num
<1>2. m \in Nat \ {0}
      BY <1>1, ModIs
<1>3. v \in Int /\ r \in Int /\ r = IF v < 0 THEN v + m ELSE v
      BY NumReads DEF ReadsAs
<1> HIDE DEF r, v, m
<1>4. f \in Int /\ u \in Int
      BY <1>3
<1>5. Same(f, u, m)
      <2>1. \E k \in Int : f = u + k * m
            <3>1. f = u + 0 * m \/ f = u + 1 * m \/ f = u + (-1) * m
                  BY <1>2, <1>3
            <3> QED
                BY <3>1
      <2>2. PICK k \in Int : f = u + k * m
            BY <2>1
      <2> HIDE DEF f, u
      <2> QED
          BY <1>2, <1>4, <2>2, SameShift
<1>6. CNeg(a, neg) = Fresh(f, b)
      BY DEF CNeg, r
<1> HIDE DEF f, b
<1>7. /\ Num(Fresh(f, b)) /\ Fresh(f, b).bits = b /\ Same(Fresh(f, b).limbs, f, m)
      /\ Fresh(f, b).limbs \in 0..(m - 1)
      BY <1>1, <1>4, FreshIs DEF m
<1>8. Same(Fresh(f, b).limbs, u, m)
      <2> HIDE DEF u
      <2> QED
          BY <1>5, <1>7, SameTrans
<1> QED
    BY <1>6, <1>7, <1>8 DEF Signs, v, m, b

LEMMA CNegHolds ==
    ASSUME NEW a, NEW v, Holds(a, v), NEW neg \in BOOLEAN
    PROVE  Holds(CNeg(a, neg), Signs(neg, v))
<1>1. Num(a) /\ Value(a) = v /\ v \in Int /\ Magnitude(v) < 2 ^ (a.bits - 1)
      BY DEF Holds
<1>2. Num(CNeg(a, neg)) /\ CNeg(a, neg).bits = a.bits /\ Same(CNeg(a, neg).limbs, Signs(neg, v), Mod(a.bits))
      BY <1>1, CNegIs
<1>3. Signs(neg, v) \in Int /\ Magnitude(Signs(neg, v)) = Magnitude(v)
      BY <1>1 DEF Signs, Magnitude
<1> QED
    BY <1>1, <1>2, <1>3, HoldsIf

LEMMA AbsIs ==
    ASSUME NEW a, Num(a)
    PROVE  Num(Abs(a)) /\ Abs(a).bits = a.bits /\ Active(Abs(a)) = Magnitude(Value(a)) /\ Magnitude(Value(a)) \in Nat
<1> DEFINE b == a.bits
           m == Mod(b)
           v == Value(a)
           c == Abs(a)
<1>1. b \in 1..MaxBits /\ m \in Nat \ {0} /\ m = 2 * Edge(b) /\ Edge(b) \in Nat \ {0}
      BY ModIs DEF Num
<1>2. v \in Int /\ -Edge(b) <= v /\ v < Edge(b) /\ Negative(a) \in BOOLEAN /\ (Negative(a) <=> v < 0)
      BY NumReads DEF ReadsAs
<1>3. Negative(a) \in BOOLEAN
      BY <1>2
<1>4. Num(c) /\ c.bits = b /\ Same(c.limbs, Signs(Negative(a), v), m) /\ c.limbs \in 0..(m - 1)
      BY <1>3, CNegIs DEF Abs
<1>5. Magnitude(v) \in 0..(m - 1) /\ Signs(Negative(a), v) = Magnitude(v)
      <2> DEFINE h == Edge(b)
      <2>1. h \in Nat \ {0} /\ m = 2 * h /\ v \in Int /\ -h <= v /\ v < h
            BY <1>1, <1>2
      <2>2. Signs(Negative(a), v) = Magnitude(v)
            <3> HIDE DEF v
            <3> QED
                BY <1>2, Zenon DEF Magnitude, Signs
      <2> HIDE DEF v, m, h
      <2>3. Magnitude(v) \in 0..(m - 1)
            BY <2>1 DEF Magnitude
      <2> QED
          BY <2>2, <2>3
<1> DEFINE r == Active(c)
           n == Magnitude(v)
<1>6. r \in 0..(m - 1) /\ Same(c.limbs, r, m)
      BY <1>4, NumReads DEF ReadsAs
<1> HIDE DEF r, n, m, c, b, v
<1>7. Same(r, n, m)
      <2>1. Same(r, c.limbs, m)
            BY <1>6, SameSwap
      <2>2. Same(c.limbs, n, m)
            BY <1>4, <1>5 DEF n
      <2> QED
          BY <2>1, <2>2, SameTrans
<1>8. r = n
      <2>1. r % m = n % m /\ n \in 0..(m - 1)
            BY <1>5, <1>7 DEF Same, n
      <2>2. r = m * 0 + r /\ n = m * 0 + n /\ r \in Int /\ n \in Int /\ 0 \in Int
            BY <1>1, <1>6, <2>1
      <2>3. r % m = r /\ n % m = n
            BY <1>1, <1>6, <2>1, <2>2, Residue
      <2> QED
          BY <2>1, <2>3
<1> QED
    BY <1>4, <1>5, <1>8 DEF r, c, n, v, b

LEMMA ProductIs ==
    ASSUME NEW a, Num(a), NEW b, Num(b)
    PROVE  LET c == Least(a.bits + b.bits - 1, MaxBits)
           IN  /\ c \in 1..MaxBits /\ Num(Product(a, b)) /\ Product(a, b).bits = c
               /\ Same(Product(a, b).limbs, Value(a) * Value(b), Mod(c))
<1> DEFINE c == Least(a.bits + b.bits - 1, MaxBits)
           v == Value(a)
           w == Value(b)
           f == Magnitude(v)
           g == Magnitude(w)
           M == 2 ^ MaxBits
           l == (f * g) % M
           p == [bits |-> c, limbs |-> l]
           neg == Negative(a) # Negative(b)
<1>1. c \in 1..MaxBits
      BY Sizes DEF Num, Least
<1>2. /\ v \in Int /\ w \in Int
      /\ Negative(a) \in BOOLEAN /\ (Negative(a) <=> v < 0) /\ Negative(b) \in BOOLEAN /\ (Negative(b) <=> w < 0)
      BY NumReads DEF ReadsAs
<1>3. f \in Nat /\ g \in Nat /\ Active(Abs(a)) = f /\ Active(Abs(b)) = g
      BY AbsIs
<1>4. M \in Nat \ {0}
      BY WidthTop, ModIs
<1>5. l \in Int /\ Same(l, f * g, M)
      <2> DEFINE e == f * g
      <2>1. e \in Int
            BY <1>3
      <2> HIDE DEF e, M
      <2>2. e % M \in Int /\ Same(e % M, e, M)
            BY <1>4, <2>1, SameResidue
      <2> QED
          BY <2>2 DEF e
<1>6. Product(a, b) = CNeg(p, neg) /\ neg \in BOOLEAN
      BY <1>3 DEF Product
<1> HIDE DEF c, l, M, neg
<1>7. Num(p) /\ p.bits = c /\ p.limbs = l
      BY <1>1, <1>5 DEF Num
<1>8. Signs(neg, f * g) = v * w
      <2>1. v < 0 /\ w < 0 => f * g = v * w
            BY <1>2 DEF Magnitude
      <2>2. ~(v < 0) /\ ~(w < 0) => f * g = v * w
            BY <1>2 DEF Magnitude
      <2>3. v < 0 /\ ~(w < 0) => -(f * g) = v * w
            BY <1>2 DEF Magnitude
      <2>4. ~(v < 0) /\ w < 0 => -(f * g) = v * w
            BY <1>2 DEF Magnitude
      <2> HIDE DEF f, g, v, w
      <2>5. CASE v < 0 /\ w < 0
            <3>1. ~neg
                  BY <1>2, <2>5, Zenon DEF neg
            <3> QED
                BY <2>1, <2>5, <3>1, Zenon DEF Signs
      <2>6. CASE ~(v < 0) /\ ~(w < 0)
            <3>1. ~neg
                  BY <1>2, <2>6, Zenon DEF neg
            <3> QED
                BY <2>2, <2>6, <3>1, Zenon DEF Signs
      <2>7. CASE v < 0 /\ ~(w < 0)
            <3>1. neg
                  BY <1>2, <2>7, Zenon DEF neg
            <3> QED
                BY <2>3, <2>7, <3>1, Zenon DEF Signs
      <2>8. CASE ~(v < 0) /\ w < 0
            <3>1. neg
                  BY <1>2, <2>8, Zenon DEF neg
            <3> QED
                BY <2>4, <2>8, <3>1, Zenon DEF Signs
      <2> QED
          BY <2>5, <2>6, <2>7, <2>8, Zenon
<1> DEFINE m == Mod(c)
           u == Value(p)
<1>9. m \in Nat \ {0} /\ u \in Int /\ Same(l, u, m)
      BY <1>1, <1>7, ModIs, NumReads DEF ReadsAs
<1>10. Same(l, f * g, m)
       BY <1>1, <1>3, <1>5, SameDown DEF M
<1>11. Num(CNeg(p, neg)) /\ CNeg(p, neg).bits = c /\ Same(CNeg(p, neg).limbs, Signs(neg, u), m)
       BY <1>6, <1>7, CNegIs
<1> DEFINE e == f * g
<1>12. e \in Int
       BY <1>3
<1> HIDE DEF p, u, m, e
<1>13. Same(u, e, m)
       <2>1. Same(u, l, m)
             BY <1>9, SameSwap
       <2> QED
           BY <1>10, <2>1, SameTrans DEF e
<1>14. Same(Signs(neg, u), Signs(neg, e), m)
       <2>1. Same(0, 0, m)
             BY DEF Same
       <2>2. Same(0 - u, 0 - e, m)
             BY <1>9, <1>12, <1>13, <2>1, SameSub
       <2>3. 0 - u = -u /\ 0 - e = -e
             BY <1>9, <1>12
       <2> QED
           BY <1>13, <2>2, <2>3 DEF Signs
<1>15. Same(CNeg(p, neg).limbs, v * w, m)
       <2>1. Signs(neg, e) = v * w
             BY <1>8 DEF e
       <2>2. Same(CNeg(p, neg).limbs, Signs(neg, e), m)
             BY <1>11, <1>14, SameTrans
       <2> QED
           BY <2>1, <2>2
<1>16. /\ c \in 1..MaxBits /\ Num(Product(a, b)) /\ Product(a, b).bits = c
       /\ Same(Product(a, b).limbs, v * w, m)
       BY <1>1, <1>6, <1>11, <1>15
<1> QED
    BY <1>16 DEF c, m

\* The magnitude of a product of two bounded numbers.
LEMMA ProductBound ==
    ASSUME NEW v \in Int, NEW w \in Int, NEW p \in Nat, NEW q \in Nat, Magnitude(v) < p, Magnitude(w) < q
    PROVE  Magnitude(v * w) < p * q
<1> DEFINE f == Magnitude(v)
           g == Magnitude(w)
<1>1. f \in Nat /\ g \in Nat /\ f < p /\ g < q
      BY DEF Magnitude
<1>2. Magnitude(v * w) = f * g
      BY DEF Magnitude
<1> HIDE DEF f, g
<1>3. (p - f - 1) * g \in Nat /\ p * (q - g - 1) \in Nat
      BY <1>1
<1>4. p * q = f * g + (p - f - 1) * g + p * (q - g - 1) + g + p
      BY <1>1
<1>5. f * g \in Nat
      BY <1>1
<1> QED
    BY <1>1, <1>2, <1>3, <1>4, <1>5

LEMMA ProductHolds ==
    ASSUME NEW a, NEW b, NEW v, NEW w, Holds(a, v), Holds(b, w), a.bits + b.bits - 1 <= MaxBits
    PROVE  Holds(Product(a, b), v * w)
<1> DEFINE c == a.bits + b.bits - 1
           p == 2 ^ (a.bits - 1)
           q == 2 ^ (b.bits - 1)
<1>1. a.bits \in 1..MaxBits /\ b.bits \in 1..MaxBits /\ MaxBits \in Nat /\ Num(a) /\ Num(b)
      BY Sizes DEF Holds, Num
<1>2. v \in Int /\ w \in Int /\ Value(a) = v /\ Value(b) = w /\ Magnitude(v) < p /\ Magnitude(w) < q
      BY DEF Holds
<1>3. Least(c, MaxBits) = c /\ c \in Nat /\ c - 1 = (a.bits - 1) + (b.bits - 1)
      BY <1>1 DEF Least
<1>4. Num(Product(a, b)) /\ Product(a, b).bits = c /\ Same(Product(a, b).limbs, v * w, Mod(c))
      BY <1>1, <1>2, <1>3, ProductIs
<1>5. a.bits - 1 \in Nat /\ b.bits - 1 \in Nat /\ (a.bits - 1) + (b.bits - 1) <= MaxBits + 2
      /\ a.bits - 1 <= MaxBits + 2 /\ b.bits - 1 <= MaxBits + 2
      BY <1>1
<1>6. p \in Nat /\ q \in Nat /\ 2 ^ (c - 1) = p * q
      <2>1. p \in Nat /\ q \in Nat
            BY <1>5, TwoPower
      <2>2. 2 ^ ((a.bits - 1) + (b.bits - 1)) = p * q
            BY <1>5, PowerSum
      <2> QED
          BY <1>3, <2>1, <2>2
<1> HIDE DEF p, q, c
<1>7. v * w \in Int /\ Magnitude(v * w) < 2 ^ (c - 1)
      BY <1>2, <1>6, ProductBound
<1> QED
    BY <1>4, <1>7, HoldsIf

---------------------------------------------------------------------------
(* Changes of the bound, and shifts.                                       *)

LEMMA SameLower ==
    ASSUME NEW i \in Nat, NEW j \in Nat, i <= j, j <= MaxBits + 2, NEW u \in Int, NEW v \in Int, Same(u, v, 2 ^ j)
    PROVE  Same(u, v, 2 ^ i)
<1>1. PICK q \in Nat \ {0} : 2 ^ j = 2 ^ i * q
      BY PowerLe
<1> DEFINE m == 2 ^ i
<1>2. m \in Nat \ {0}
      <2>1. i <= MaxBits + 2
            BY Sizes
      <2> QED
          BY <2>1, TwoPower
<1>3. u % (m * q) = v % (m * q)
      BY <1>1 DEF Same
<1> HIDE DEF m
<1>4. u % m = v % m
      BY <1>2, <1>3, ModDown
<1> QED
    BY <1>4 DEF Same, m

LEMMA WrappedIs ==
    ASSUME NEW b \in 1..MaxBits, NEW v \in Int
    PROVE  /\ Wrapped(v, b) \in Int /\ -Edge(b) <= Wrapped(v, b) /\ Wrapped(v, b) < Edge(b)
           /\ Same(Wrapped(v, b), v, 2 ^ b)
           /\ Magnitude(v) < 2 ^ (b - 1) => Wrapped(v, b) = v
<1> DEFINE m == 2 ^ b
           h == 2 ^ (b - 1)
           r == v % m
           u == Wrapped(v, b)
<1>1. h \in Nat \ {0} /\ m = 2 * h /\ m \in Nat \ {0} /\ h <= Edge(b) /\ Edge(b) \in Nat
      <2>1. b - 1 \in Nat /\ b - 1 <= MaxBits + 2 /\ b - 1 <= MaxBits + 1 /\ (b - 1) + 1 = b
            BY Sizes
      <2>2. 2 ^ (b - 1) \in Nat \ {0} /\ 2 ^ ((b - 1) + 1) = 2 * 2 ^ (b - 1)
            BY <2>1, TwoPower
      <2>3. h <= Edge(b) /\ Edge(b) \in Nat
            BY ModIs
      <2> QED
          BY <2>1, <2>2, <2>3
<1>2. u = IF r >= h THEN r - m ELSE r
      BY DEF Wrapped
<1>3. b - 1 \in Int
      OBVIOUS
<1> HIDE DEF m, h
<1>4. r \in 0..(m - 1) /\ Same(r, v, m)
      BY <1>1, SameResidue
<1> HIDE DEF r, u
<1>5. u = Reading(r, m)
      <2>1. r >= h <=> 2 * r >= m
            BY <1>1, <1>4
      <2> QED
          BY <1>2, <2>1 DEF Reading
<1>6. u \in Int /\ -h <= u /\ u < h /\ Same(u, r, m)
      BY <1>1, <1>4, <1>5, ReadingIs
<1>7. Same(u, v, m)
      BY <1>4, <1>6, SameTrans
<1>8. Magnitude(v) < h => u = v
      <2> SUFFICES ASSUME Magnitude(v) < h PROVE u = v
          OBVIOUS
      <2>1. -h <= v /\ v < h
            BY <1>1 DEF Magnitude
      <2> QED
          BY <1>1, <1>6, <1>7, <2>1, SameIsEqual
<1>9. -Edge(b) <= u /\ u < Edge(b)
      <2> DEFINE e == Edge(b)
      <2>1. h <= e /\ e \in Nat /\ h \in Nat
            BY <1>1
      <2> HIDE DEF e
      <2>2. -e <= u /\ u < e
            BY <1>6, <2>1
      <2> QED
          BY <2>2 DEF e
<1> QED
    BY <1>6, <1>7, <1>8, <1>9 DEF u, m, h

\* The stale limbs and what the active ones become.
LEMMA Rewritten ==
    ASSUME NEW m \in Nat \ {0}, NEW s \in Int, Same(s, 0, m), NEW u \in Int, NEW v \in Int, Same(u, v, m)
    PROVE  s + u \in Int /\ Same(s + u, v, m)
<1>1. Same(s + u, 0 + v, m)
      BY SameAdd
<1> QED
    BY <1>1

\* Residues modulo a number and its multiples.
LEMMA ResidueIs ==
    ASSUME NEW m \in Nat \ {0}, NEW v \in Int
    PROVE  v % m \in Int /\ v % m \in 0..(m - 1) /\ Same(v % m, v, m)
BY SameResidue

LEMMA SetBoundIs ==
    ASSUME NEW a, Num(a), NEW b \in 0..MaxBits
    PROVE  LET c == Greatest(b, 1)
               r == SetBound(a, b)
           IN  /\ c \in 1..MaxBits /\ Num(r) /\ r.bits = c /\ Same(r.limbs, Value(a), 2 ^ c)
               /\ b >= a.bits => Value(r) = Value(a)
               /\ b < a.bits => Value(r) = Wrapped(Value(a), c)
<1> DEFINE c == Greatest(b, 1)
           r == SetBound(a, b)
           d == a.bits
           v == Value(a)
           m == Mod(c)
           Goal == /\ Num(r) /\ r.bits = c /\ Same(r.limbs, v, 2 ^ c)
                   /\ b >= d => Value(r) = v
                   /\ b < d => Value(r) = Wrapped(v, c)
<1>1. /\ c \in 1..MaxBits /\ d \in 1..MaxBits /\ a.limbs \in Int
      /\ a = [bits |-> a.bits, limbs |-> a.limbs]
      BY Sizes DEF Greatest, Num
<1>2. /\ v \in Int /\ -Edge(d) <= v /\ v < Edge(d) /\ Same(a.limbs, v, Mod(d))
      /\ b \in Int /\ d \in Int
      BY <1>1, NumReads DEF ReadsAs
<1>3. m \in Nat \ {0} /\ m = 2 ^ Width(c) /\ Width(c) \in Nat /\ c <= Width(c) /\ Width(c) <= MaxBits /\ c \in Nat
      BY <1>1, ModIs, WidthIs
<1>4. ASSUME NEW u \in Int, NEW t \in Int, Same(u, t, m) PROVE Same(u, t, 2 ^ c)
      <2>1. Same(u, t, 2 ^ Width(c))
            BY <1>3, <1>4
      <2>2. Width(c) <= MaxBits + 2
            BY <1>3, Sizes
      <2> QED
          BY <1>3, <2>1, <2>2, SameLower
<1>5. ASSUME b = d PROVE Goal
      <2>1. r = a /\ c = d
            BY <1>1, <1>5 DEF SetBound, Greatest
      <2>2. Same(r.limbs, v, 2 ^ c)
            BY <1>1, <1>2, <1>4, <2>1
      <2> QED
          BY <1>2, <1>5, <2>1, <2>2
<1>6. ASSUME b > d PROVE Goal
      <2>1. c = b /\ b # d
            BY <1>1, <1>2, <1>6 DEF Greatest
      <2> DEFINE s == a.limbs - (a.limbs % m)
                 l == s + (v % m)
      <2>2. r = [bits |-> b, limbs |-> l]
            BY <1>3, <1>6, <2>1 DEF SetBound
      <2> HIDE DEF m
      <2>3. s \in Int /\ Same(s, 0, m)
            <3> DEFINE k == a.limbs % m
            <3>1. k \in Int /\ Same(k, a.limbs, m)
                  BY <1>1, <1>3, ResidueIs
            <3> HIDE DEF k
            <3>2. Same(a.limbs, a.limbs, m)
                  BY DEF Same
            <3>3. Same(a.limbs - k, a.limbs - a.limbs, m)
                  <4>1. Same(a.limbs, k, m)
                        BY <3>1, SameSwap
                  <4>2. Same(k, k, m)
                        BY DEF Same
                  <4>3. Same(a.limbs - k, k - k, m)
                        BY <1>1, <1>3, <3>1, <4>1, <4>2, SameSub
                  <4> QED
                      BY <1>1, <3>1, <4>3
            <3>4. a.limbs - a.limbs = 0
                  BY <1>1
            <3> QED
                BY <1>1, <3>1, <3>3, <3>4 DEF k
      <2>4. v % m \in Int /\ Same(v % m, v, m)
            BY <1>2, <1>3, ResidueIs
      <2> HIDE DEF s
      <2>5. l \in Int /\ Same(l, v, m)
            <3> DEFINE u == v % m
            <3>1. u \in Int /\ Same(u, v, m)
                  BY <2>4
            <3> HIDE DEF u
            <3>2. s + u \in Int /\ Same(s + u, v, m)
                  BY <1>2, <1>3, <2>3, <3>1, Rewritten
            <3> QED
                BY <3>2 DEF u
      <2> HIDE DEF l, r, c
      <2>6. Num(r) /\ r.bits = c /\ r.limbs = l
            BY <1>1, <2>1, <2>2, <2>5 DEF Num
      <2>7. -Edge(c) <= v /\ v < Edge(c)
            <3>1. Width(d) <= Width(c)
                  BY <1>1, <1>2, <1>6, <2>1, WidthLe
            <3>2. Width(d) \in Nat /\ Width(d) >= 1
                  BY <1>1, WidthIs, Sizes
            <3> DEFINE i == Width(d) - 1
                       j == Width(c) - 1
            <3>3. i \in Nat /\ j \in Nat /\ i <= j /\ j <= MaxBits + 2
                  BY <1>3, <3>1, <3>2, Sizes
            <3> HIDE DEF i, j
            <3>4. 2 ^ i <= 2 ^ j
                  BY <3>3, PowerLe
            <3> DEFINE e == Edge(d)
                       f == Edge(c)
            <3>5. e <= f /\ e \in Nat /\ f \in Nat /\ -e <= v /\ v < e
                  BY <1>1, <1>2, <3>4, ModIs DEF Edge, i, j
            <3> HIDE DEF e, f
            <3>6. -f <= v /\ v < f
                  BY <1>2, <3>5
            <3> QED
                BY <3>6 DEF f
      <2>8. Same(r.limbs, v, Mod(r.bits))
            BY <2>5, <2>6 DEF m
      <2>9. Value(r) = v
            BY <1>2, <2>6, <2>7, <2>8, ValueIs
      <2>10. Same(r.limbs, v, 2 ^ c)
             BY <1>2, <1>4, <2>5, <2>6
      <2>11. ~(b < d)
             BY <1>2, <1>6
      <2> QED
          BY <2>6, <2>9, <2>10, <2>11
<1>7. ASSUME b < d PROVE Goal
      <2> DEFINE n == [bits |-> c, limbs |-> a.limbs]
                 w == Wrapped(a.limbs, c)
                 l == Stale(n) + (w % m)
      <2>1. Num(n) /\ n.bits = c /\ n.limbs = a.limbs
            BY <1>1 DEF Num
      <2>2. r = [bits |-> c, limbs |-> l]
            <3>1. r = Normalise([a EXCEPT !.bits = c])
                  BY <1>2, <1>7 DEF SetBound
            <3>2. [a EXCEPT !.bits = c] = n
                  BY <1>1
            <3>3. Modulus(n) = m
                  BY <1>3, <2>1 DEF Modulus
            <3> QED
                BY <2>1, <3>1, <3>2, <3>3 DEF Normalise
      <2>3. /\ w \in Int /\ -Edge(c) <= w /\ w < Edge(c) /\ Same(w, a.limbs, 2 ^ c)
            BY <1>1, WrappedIs
      <2>4. Stale(n) \in Int /\ Same(Stale(n), 0, m)
            BY <2>1, NumReads DEF ReadsAs
      <2> HIDE DEF m, w, n
      <2>5. l \in Int /\ Same(l, w, m)
            <3> DEFINE u == w % m
                       s == Stale(n)
            <3>1. u \in Int /\ Same(u, w, m) /\ s \in Int /\ Same(s, 0, m)
                  BY <1>3, <2>3, <2>4, ResidueIs
            <3> HIDE DEF u, s
            <3>2. s + u \in Int /\ Same(s + u, w, m)
                  BY <1>3, <2>3, <3>1, Rewritten
            <3> QED
                BY <3>2 DEF u, s
      <2> HIDE DEF l, r, c
      <2>6. Num(r) /\ r.bits = c /\ r.limbs = l
            BY <1>1, <2>2, <2>5 DEF Num
      <2>7. Same(r.limbs, w, Mod(r.bits))
            BY <2>5, <2>6 DEF m
      <2>8. Value(r) = w
            BY <2>3, <2>6, <2>7, ValueIs
      <2>9. Same(a.limbs, v, 2 ^ c)
            <3>1. Same(a.limbs, v, 2 ^ Width(d)) /\ Width(d) \in Nat /\ d <= Width(d) /\ Width(d) <= MaxBits
                  BY <1>1, <1>2, WidthIs DEF Mod
            <3>2. c <= Width(d) /\ Width(d) <= MaxBits + 2
                  BY <1>1, <1>2, <1>7, <3>1, Sizes DEF c, Greatest
            <3> QED
                BY <1>1, <1>2, <1>3, <3>1, <3>2, SameLower
      <2>10. w = Wrapped(v, c)
             <3>1. a.limbs % 2 ^ c = v % 2 ^ c
                   BY <2>9 DEF Same
             <3> QED
                 BY <3>1 DEF w, Wrapped
      <2>11. Same(r.limbs, v, 2 ^ c)
             <3>1. Same(l, w, 2 ^ c)
                   BY <1>4, <2>3, <2>5
             <3>2. Same(w, v, 2 ^ c)
                   BY <2>3, <2>9, SameTrans
             <3> QED
                 BY <2>6, <3>1, <3>2, SameTrans
      <2>12. ~(b >= d)
             BY <1>2, <1>7
      <2> QED
          BY <2>6, <2>8, <2>10, <2>11, <2>12
<1>8. b = d \/ b > d \/ b < d
      BY <1>2
<1>9. Goal
      BY <1>5, <1>6, <1>7, <1>8
<1> QED
    BY <1>1, <1>9

LEMMA SetBoundHolds ==
    ASSUME NEW a, NEW v, Holds(a, v), NEW b \in 0..MaxBits,
           Magnitude(Wrapped(v, Greatest(b, 1))) < 2 ^ (Greatest(b, 1) - 1)
    PROVE  Holds(SetBound(a, b), IF b > a.bits THEN v ELSE Wrapped(v, Greatest(b, 1)))
<1> DEFINE c == Greatest(b, 1)
           r == SetBound(a, b)
           w == Wrapped(v, c)
           d == a.bits
<1>1. Num(a) /\ Value(a) = v /\ v \in Int /\ Magnitude(v) < 2 ^ (d - 1) /\ d \in 1..MaxBits
      BY DEF Holds, Num
<1>2. /\ c \in 1..MaxBits /\ Num(r) /\ r.bits = c
      /\ b >= d => Value(r) = v
      /\ b < d => Value(r) = w
      BY <1>1, SetBoundIs
<1>3. w \in Int /\ Magnitude(w) < 2 ^ (c - 1)
      BY <1>1, <1>2, WrappedIs
<1>4. CASE b > d
      <2>1. c = b /\ Value(r) = v
            BY <1>1, <1>2, <1>4 DEF Greatest
      <2>2. d - 1 \in Nat /\ c - 1 \in Nat /\ d - 1 <= c - 1 /\ c - 1 <= MaxBits + 2 /\ d - 1 <= MaxBits + 2
            BY <1>1, <1>2, <1>4, <2>1, Sizes
      <2>3. 2 ^ (d - 1) <= 2 ^ (c - 1)
            BY <2>2, PowerLe
      <2>4. 2 ^ (d - 1) \in Nat /\ 2 ^ (c - 1) \in Nat
            BY <2>2, TwoPower
      <2>5. Magnitude(v) \in Int
            BY <1>1 DEF Magnitude
      <2>6. Magnitude(v) < 2 ^ (c - 1)
            BY <1>1, <2>3, <2>4, <2>5
      <2> QED
          BY <1>1, <1>2, <1>4, <2>1, <2>6 DEF Holds
<1>5. CASE b = d
      <2>1. c = d /\ b >= d /\ ~(b > d)
            BY <1>1, <1>5 DEF Greatest
      <2>2. w = v
            BY <1>1, <1>2, <2>1, WrappedIs
      <2> QED
          BY <1>1, <1>2, <1>3, <2>1, <2>2 DEF Holds
<1>6. CASE b < d
      <2>1. ~(b > d)
            BY <1>1, <1>6
      <2> QED
          BY <1>2, <1>3, <1>6, <2>1 DEF Holds
<1>7. b > d \/ b = d \/ b < d
      BY <1>1
<1> QED
    BY <1>4, <1>5, <1>6, <1>7

LEMMA ModPow2Holds ==
    ASSUME NEW a, Num(a), NEW e \in 0..(MaxBits - 1)
    PROVE  Holds(ModPow2(a, e), Value(a) % 2 ^ e)
<1> DEFINE c == e + 1
           r == SetBound(a, c)
           v == Value(a)
           m == Mod(c)
           p == 2 ^ e
           u == Active(r) % p
           l == Stale(r) + u
           g == ModPow2(a, e)
<1>1. c \in 1..MaxBits /\ c \in 0..MaxBits /\ Greatest(c, 1) = c /\ e \in Nat /\ c \in Nat /\ c - 1 = e
      BY Sizes DEF Greatest
<1>2. Num(r) /\ r.bits = c /\ Same(r.limbs, v, 2 ^ c)
      BY <1>1, SetBoundIs
<1>3. v \in Int
      BY NumReads DEF ReadsAs
<1>4. m \in Nat \ {0} /\ p \in Nat \ {0}
      <2>1. e <= MaxBits + 2
            BY <1>1, Sizes
      <2> QED
          BY <1>1, <2>1, ModIs, TwoPower
<1>5. r.limbs \in Int /\ r = [bits |-> r.bits, limbs |-> r.limbs]
      BY <1>2 DEF Num
<1>6. Active(r) \in Int /\ Same(r.limbs, Active(r), m) /\ Stale(r) \in Int /\ Same(Stale(r), 0, m)
      BY <1>2, NumReads DEF ReadsAs
<1>7. u \in 0..(p - 1) /\ u \in Int
      BY <1>4, <1>6, ResidueIs
<1>8. u = v % p
      <2>1. Same(Active(r), v, p)
            <3>1. e <= c /\ c <= MaxBits + 2 /\ Width(c) \in Nat /\ e <= Width(c) /\ Width(c) <= MaxBits + 2
                  BY <1>1, WidthIs, Sizes
            <3>2. Same(r.limbs, v, p)
                  BY <1>1, <1>2, <1>3, <1>5, <3>1, SameLower
            <3>3. Same(r.limbs, Active(r), 2 ^ Width(c))
                  BY <1>6 DEF Mod
            <3>4. Same(r.limbs, Active(r), p)
                  BY <1>1, <1>5, <1>6, <3>1, <3>3, SameLower
            <3>5. Same(Active(r), r.limbs, p)
                  BY <3>4, SameSwap
            <3> QED
                BY <3>2, <3>5, SameTrans
      <2> QED
          BY <2>1 DEF Same
<1>9. g = [bits |-> c, limbs |-> l]
      <2>1. g = [r EXCEPT !.limbs = l]
            BY DEF ModPow2
      <2> HIDE DEF r, l
      <2> QED
          BY <1>2, <1>5, <2>1
<1> HIDE DEF u, r, g, m, c, p
<1>10. l \in Int /\ Same(l, u, m)
       <2>1. Same(u, u, m)
             BY DEF Same
       <2> QED
           BY <1>4, <1>6, <1>7, <2>1, Rewritten
<1> HIDE DEF l
<1>11. Num(g) /\ g.bits = c /\ g.limbs = l
       BY <1>1, <1>9, <1>10 DEF Num
<1>12. Magnitude(u) < 2 ^ (g.bits - 1)
       <2>1. u < p /\ u >= 0
             BY <1>4, <1>7
       <2>2. 2 ^ (g.bits - 1) = p
             BY <1>1, <1>11 DEF p
       <2> QED
           BY <1>7, <2>1, <2>2 DEF Magnitude
<1>13. Same(g.limbs, u, Mod(g.bits))
       BY <1>10, <1>11 DEF m
<1>14. Holds(g, u)
       BY <1>7, <1>11, <1>12, <1>13, HoldsIf
<1> QED
    BY <1>8, <1>14 DEF g, p

LEMMA ScaledBound ==
    ASSUME NEW v \in Int, NEW p \in Nat \ {0}, NEW q \in Nat, Magnitude(v) < q
    PROVE  Magnitude(v * p) < q * p
<1>1. -q < v /\ v < q
      BY DEF Magnitude
<1>2. (q - v - 1) * p \in Nat /\ (q + v - 1) * p \in Nat
      BY <1>1
<1>3. q * p = v * p + (q - v - 1) * p + p /\ q * p = -(v * p) + (q + v - 1) * p + p
      OBVIOUS
<1>4. v * p \in Int /\ q * p \in Int
      OBVIOUS
<1> DEFINE z == v * p
           t == q * p
<1>5. z < t /\ -z < t
      BY <1>2, <1>3, <1>4
<1>6. z \in Int /\ t \in Int
      BY <1>4
<1> HIDE DEF z, t
<1>7. Magnitude(z) < t
      BY <1>5, <1>6 DEF Magnitude
<1> QED
    BY <1>7 DEF z, t

LEMMA MulPow2Holds ==
    ASSUME NEW a, NEW v, Holds(a, v), NEW e \in Nat, a.bits + e <= MaxBits
    PROVE  Holds(MulPow2(a, e), v * 2 ^ e)
<1> DEFINE d == a.bits
           c == d + e
           r == SetBound(a, c)
           m == Mod(c)
           p == 2 ^ e
           t == Active(r) * p
           l == Stale(r) + (t % m)
           g == MulPow2(a, e)
<1>1. Num(a) /\ Value(a) = v /\ v \in Int /\ Magnitude(v) < 2 ^ (d - 1) /\ d \in 1..MaxBits /\ MaxBits \in Nat
      BY Sizes DEF Holds, Num
<1>2. CASE e = 0
      <2>1. g = a
            BY <1>2 DEF MulPow2
      <2>2. v * 2 ^ e = v
            <3>1. 2 ^ e = 1
                  BY <1>2, SmallPowers
            <3> QED
                BY <1>1, <3>1
      <2> QED
          BY <2>1, <2>2
<1>3. CASE e # 0
      <2>1. c \in 1..MaxBits /\ c \in 0..MaxBits /\ Greatest(c, 1) = c /\ Least(c, MaxBits) = c /\ c >= d /\ c - 1 = (d - 1) + e
            BY <1>1 DEF Greatest, Least
      <2>2. Num(r) /\ r.bits = c /\ Value(r) = v
            BY <1>1, <2>1, SetBoundIs
      <2>3. /\ r = [bits |-> r.bits, limbs |-> r.limbs] /\ r.limbs \in Int
            /\ Active(r) \in Int /\ Same(r.limbs, Active(r), m) /\ Same(r.limbs, v, m)
            /\ Stale(r) \in Int /\ Same(Stale(r), 0, m)
            BY <2>2, NumReads DEF ReadsAs, Num
      <2>4. m \in Nat \ {0} /\ p \in Nat \ {0}
            <3>1. e <= MaxBits + 2
                  BY <1>1
            <3> QED
                BY <2>1, <3>1, ModIs, TwoPower
      <2>5. g = [bits |-> c, limbs |-> l]
            <3>1. Modulus(r) = m
                  BY <2>2 DEF Modulus, Mod
            <3>2. g = [r EXCEPT !.limbs = l]
                  BY <1>3, <2>1, <3>1 DEF MulPow2
            <3> HIDE DEF r, l
            <3> QED
                BY <2>2, <2>3, <3>2
      <2>6. t \in Int /\ Same(t, v * p, m) /\ v * p \in Int
            <3> DEFINE r0 == Active(r)
            <3>1. Same(r0, v, m)
                  <4>1. Same(r0, r.limbs, m)
                        BY <2>3, SameSwap
                  <4> QED
                      BY <2>3, <4>1, SameTrans
            <3>2. r0 \in Int /\ Same(p, p, m)
                  BY <2>3 DEF Same
            <3> HIDE DEF r0, p, m
            <3>3. Same(r0 * p, v * p, m) /\ r0 * p \in Int /\ v * p \in Int
                  BY <1>1, <2>4, <3>1, <3>2, SameMul
            <3> QED
                BY <3>3 DEF r0
      <2>7. Magnitude(v * p) < 2 ^ (c - 1)
            <3> DEFINE q == 2 ^ (d - 1)
            <3>1. d - 1 \in Nat /\ d - 1 <= MaxBits + 2 /\ (d - 1) + e <= MaxBits + 2
                  BY <1>1
            <3>2. q \in Nat /\ 2 ^ (c - 1) = q * p
                  <4>1. q \in Nat
                        BY <3>1, TwoPower
                  <4>2. 2 ^ ((d - 1) + e) = q * p
                        BY <3>1, PowerSum
                  <4> QED
                      BY <2>1, <4>1, <4>2
            <3>3. Magnitude(v) < q
                  BY <1>1
            <3> HIDE DEF q, p, c
            <3>4. Magnitude(v * p) < q * p
                  BY <1>1, <2>4, <3>2, <3>3, ScaledBound
            <3> QED
                BY <3>2, <3>4
      <2> HIDE DEF r, t, m, c, p, g
      <2>8. l \in Int /\ Same(l, v * p, m)
            <3> DEFINE u == t % m
                       s == Stale(r)
            <3>1. u \in Int /\ Same(u, t, m)
                  BY <2>4, <2>6, ResidueIs
            <3>2. Same(u, v * p, m)
                  BY <2>6, <3>1, SameTrans
            <3>3. s \in Int /\ Same(s, 0, m)
                  BY <2>3
            <3> HIDE DEF u, s
            <3>4. s + u \in Int /\ Same(s + u, v * p, m)
                  BY <2>4, <2>6, <3>1, <3>2, <3>3, Rewritten
            <3> QED
                BY <3>4 DEF u, s
      <2> HIDE DEF l
      <2>9. Num(g) /\ g.bits = c /\ g.limbs = l
            BY <2>1, <2>5, <2>8 DEF Num
      <2>10. Same(g.limbs, v * p, Mod(g.bits)) /\ Magnitude(v * p) < 2 ^ (g.bits - 1)
             BY <2>7, <2>8, <2>9 DEF m
      <2>11. Holds(g, v * p)
             BY <2>6, <2>9, <2>10, HoldsIf
      <2> QED
          BY <2>11 DEF g, p
<1> QED
    BY <1>2, <1>3

LEMMA DivLess ==
    ASSUME NEW v \in Nat, NEW p \in Nat \ {0}, NEW q \in Nat, v < q * p
    PROVE  v \div p \in Nat /\ v \div p < q
<1> DEFINE f == v \div p
           r == v % p
<1>1. v = p * f + r /\ r \in 0..(p - 1) /\ f \in Int
      BY DivMod
<1> HIDE DEF f, r
<1>2. f >= 0
      <2> SUFFICES ASSUME f <= -1 PROVE FALSE
          BY <1>1
      <2>1. p * (-1 - f) \in Nat /\ p * f = -p - p * (-1 - f)
            BY <1>1
      <2> QED
          BY <1>1, <2>1
<1>3. f < q
      <2> SUFFICES ASSUME f >= q PROVE FALSE
          BY <1>1
      <2>1. p * (f - q) \in Nat /\ p * f = q * p + p * (f - q)
            BY <1>1
      <2> QED
          BY <1>1, <2>1
<1> QED
    BY <1>1, <1>2, <1>3 DEF f

\* What is shifted in: a multiple of the modulus that is kept.
LEMMA DivShift ==
    ASSUME NEW v \in Int, NEW p \in Nat \ {0}, NEW k \in Int
    PROVE  (v + p * k) \div p = (v \div p) + k
<1> DEFINE f == v \div p
           r == v % p
           w == v + p * k
<1>1. v = p * f + r /\ r \in 0..(p - 1) /\ f \in Int
      BY DivMod
<1> HIDE DEF f, r
<1>2. w = p * (f + k) + r /\ w \in Int /\ f + k \in Int
      BY <1>1
<1> HIDE DEF w
<1>3. w \div p = f + k
      BY <1>1, <1>2, Residue
<1> QED
    BY <1>3 DEF f, w

Fewer(d, e) == IF e < d THEN d - e ELSE 1

LEMMA FewerIs ==
    ASSUME NEW d \in 1..MaxBits, NEW e \in 0..MaxBits
    PROVE  /\ Fewer(d, e) \in 1..MaxBits /\ Fewer(d, e) <= d /\ Width(Fewer(d, e)) <= Width(d)
           /\ 2 ^ (Fewer(d, e) - 1) \in Nat /\ 2 ^ (d - 1) <= 2 ^ (Fewer(d, e) - 1) * 2 ^ e
<1> DEFINE c == Fewer(d, e)
<1>1. MaxBits \in Nat /\ d \in Nat /\ e \in Nat
      BY Sizes
<1>2. c \in 1..MaxBits /\ c <= d /\ c - 1 \in Nat /\ c - 1 <= MaxBits + 2
      BY <1>1 DEF Fewer
<1>3. Width(c) <= Width(d)
      BY <1>2, WidthLe
<1>4. 2 ^ (c - 1) \in Nat
      BY <1>2, TwoPower
<1>5. d - 1 \in Nat /\ d - 1 <= MaxBits + 2 /\ e <= MaxBits + 2
      BY <1>1
<1>6. 2 ^ (d - 1) <= 2 ^ (c - 1) * 2 ^ e
      <2>1. CASE e < d
            <3>1. d - 1 = (c - 1) + e
                  BY <1>1, <2>1 DEF Fewer
            <3>2. 2 ^ (d - 1) = 2 ^ (c - 1) * 2 ^ e /\ 2 ^ (d - 1) \in Nat
                  BY <1>1, <1>2, <1>5, <3>1, PowerSum, TwoPower
            <3> HIDE DEF c
            <3> QED
                BY <3>2
      <2>2. CASE ~(e < d)
            <3>1. c - 1 = 0 /\ d - 1 <= e
                  BY <1>1, <2>2 DEF Fewer
            <3>2. 2 ^ (c - 1) = 1
                  <4>1. 2 ^ (c - 1) = 2 ^ 0
                        BY <3>1
                  <4> QED
                      BY <4>1, SmallPowers
            <3>3. 2 ^ (d - 1) <= 2 ^ e /\ 2 ^ e \in Nat
                  BY <1>1, <1>5, <3>1, PowerLe, TwoPower
            <3> HIDE DEF c
            <3>4. 1 * 2 ^ e = 2 ^ e
                  BY <3>3
            <3> QED
                BY <3>2, <3>3, <3>4
      <2> QED
          BY <2>1, <2>2
<1> QED
    BY <1>2, <1>3, <1>4, <1>6

LEMMA DivPow2Holds ==
    ASSUME NEW a, NEW v, Holds(a, v), NEW e \in 0..MaxBits, Floors(a, e)
    PROVE  Holds(DivPow2(a, e), v \div 2 ^ e)
<1> DEFINE d == a.bits
           c == Fewer(d, e)
           p == 2 ^ e
           r == Active(a)
           s == Stale(a)
           f == v \div p
           l == s + (r \div p)
           m == Mod(c)
           g == DivPow2(a, e)
<1>1. /\ Num(a) /\ Value(a) = v /\ v \in Int /\ Magnitude(v) < 2 ^ (d - 1) /\ d \in 1..MaxBits /\ MaxBits \in Nat
      /\ e \in Nat
      BY Sizes DEF Holds, Num
<1>2. /\ a = [bits |-> a.bits, limbs |-> a.limbs] /\ a.limbs \in Int
      /\ r \in Int /\ r = (IF v < 0 THEN v + Mod(d) ELSE v)
      /\ s \in Int /\ Same(s, 0, Mod(d)) /\ (Negative(a) <=> v < 0)
      BY <1>1, NumReads DEF ReadsAs, Num
<1>3. /\ c \in 1..MaxBits /\ Width(c) <= Width(d)
      /\ 2 ^ (c - 1) \in Nat /\ 2 ^ (d - 1) <= 2 ^ (c - 1) * p
      BY <1>1, FewerIs
<1>4. p \in Nat \ {0} /\ m \in Nat \ {0}
      <2>1. e <= MaxBits + 2
            BY <1>1
      <2> QED
          BY <1>1, <1>3, <2>1, ModIs, TwoPower
<1>5. Width(c) \in Nat /\ Width(d) \in Nat /\ Width(d) <= MaxBits + 2 /\ Width(d) <= MaxBits
      BY <1>1, <1>3, WidthIs
<1>6. Same(s, 0, m)
      <2>1. Same(s, 0, 2 ^ Width(d)) /\ 0 \in Int
            BY <1>2 DEF Mod
      <2> QED
          BY <1>2, <1>3, <1>5, <2>1, SameLower DEF Mod
<1>7. f \in Int
      BY <1>1, <1>4
<1>8. CASE e = 0
      <2>1. g = a
            BY <1>8 DEF DivPow2
      <2>2. f = v
            <3>1. p = 1
                  BY <1>8, SmallPowers
            <3> HIDE DEF p
            <3>2. v = 1 * v + 0 /\ 0 \in 0..(1 - 1)
                  BY <1>1
            <3> QED
                BY <1>1, <3>1, <3>2, Residue
      <2> QED
          BY <2>1, <2>2
<1>9. CASE e # 0
      <2>1. g = [bits |-> c, limbs |-> l]
            BY <1>9 DEF DivPow2, Fewer
      <2>2. Same(r \div p, f, m) /\ r \div p \in Int /\ Magnitude(f) < 2 ^ (c - 1)
            <3>1. CASE ~(v < 0)
                  <4>1. r = v /\ v \in Nat
                        BY <1>1, <1>2, <3>1
                  <4>2. r \div p = f
                        BY <4>1
                  <4> DEFINE q == 2 ^ (c - 1)
                             z == 2 ^ (d - 1)
                  <4>3. v < z /\ z <= q * p /\ q \in Nat /\ z \in Nat
                        <5>1. z \in Nat
                              BY <1>1, ModIs
                        <5> QED
                            BY <1>1, <1>3, <4>1, <5>1 DEF Magnitude
                  <4> HIDE DEF q, z, p, c
                  <4>4. v < q * p
                        BY <1>4, <4>1, <4>3
                  <4>5. f \in Nat /\ f < q
                        BY <1>4, <4>1, <4>3, <4>4, DivLess
                  <4>6. Magnitude(f) < q
                        BY <4>5 DEF Magnitude
                  <4> QED
                      BY <1>7, <4>2, <4>6 DEF Same, q
            <3>2. CASE v < 0
                  <4>1. Width(c) - 1 < Width(d) - e /\ Magnitude(f) < 2 ^ (c - 1)
                        BY <1>1, <1>2, <3>2 DEF Floors, Fewer
                  <4> DEFINE i == Width(d) - e
                             k == 2 ^ i
                  <4>2. i \in Nat /\ Width(c) <= i /\ e + i = Width(d) /\ i <= MaxBits + 2
                        BY <1>1, <1>5, <4>1
                  <4> HIDE DEF i
                  <4>3. 2 ^ Width(d) = p * k
                        BY <1>1, <1>5, <4>2, PowerSum
                  <4>4. k \in Nat \ {0}
                        BY <4>2, TwoPower
                  <4>5. PICK j \in Nat \ {0} : k = m * j
                        BY <1>5, <4>2, PowerLe DEF Mod
                  <4>6. r = v + p * k
                        BY <1>2, <3>2, <4>3 DEF Mod
                  <4> HIDE DEF k, p, m, r, c
                  <4>7. r \div p = f + k
                        <5>1. v \in Int /\ p \in Nat \ {0} /\ k \in Int
                              BY <1>1, <1>4, <4>4
                        <5> QED
                            BY <4>6, <5>1, DivShift
                  <4>8. f + k = f + j * m
                        BY <1>4, <4>5
                  <4>9. f + k \in Int /\ j \in Int /\ k \in Int
                        BY <1>7, <4>4
                  <4> DEFINE n == f + k
                  <4>10. n \in Int /\ n = f + j * m
                         BY <4>8, <4>9
                  <4> HIDE DEF n, f
                  <4>11. Same(n, f, m)
                         BY <1>4, <1>7, <4>9, <4>10, SameShift
                  <4>12. r \div p = n
                         BY <4>7 DEF n
                  <4> QED
                      BY <4>1, <4>10, <4>11, <4>12
            <3> QED
                BY <3>1, <3>2
      <2> DEFINE t == r \div p
      <2>3. t \in Int /\ Same(t, f, m) /\ Magnitude(f) < 2 ^ (c - 1)
            BY <2>2
      <2> HIDE DEF f, m, s, c, g, t
      <2>4. l \in Int /\ Same(l, f, m)
            <3>1. s + t \in Int /\ Same(s + t, f, m)
                  BY <1>2, <1>4, <1>6, <1>7, <2>3, Rewritten
            <3> QED
                BY <3>1 DEF t
      <2> HIDE DEF l
      <2>5. Num(g) /\ g.bits = c /\ g.limbs = l
            BY <1>3, <2>1, <2>4 DEF Num
      <2>6. Same(g.limbs, f, Mod(g.bits)) /\ Magnitude(f) < 2 ^ (g.bits - 1)
            BY <2>3, <2>4, <2>5 DEF m
      <2>7. Holds(g, f)
            BY <1>7, <2>5, <2>6, HoldsIf
      <2> QED
          BY <2>7 DEF g, f
<1> QED
    BY <1>8, <1>9

LEMMA TimesSmallHolds ==
    ASSUME NEW a, NEW v, Holds(a, v), NEW k \in Int, NEW b \in 1..MaxBits, Magnitude(k * v) < 2 ^ (b - 1)
    PROVE  Holds(TimesSmall(a, k, b), k * v)
<1> DEFINE w == Width(b)
           f == Magnitude(v)
           h == Magnitude(k)
           e == f * h
           l == e % 2 ^ w
           p == [bits |-> w, limbs |-> l]
           neg == Negative(a) # (k < 0)
           q == CNeg(p, neg)
<1>1. Num(a) /\ Value(a) = v /\ v \in Int
      BY DEF Holds
<1>2. Negative(a) \in BOOLEAN /\ (Negative(a) <=> v < 0) /\ (k < 0) \in BOOLEAN
      BY <1>1, NumReads DEF ReadsAs
<1>3. f \in Nat /\ h \in Nat /\ Active(Abs(a)) = f
      BY <1>1, AbsIs DEF Magnitude
<1>4. w \in 1..MaxBits /\ b <= w /\ Width(w) = w
      <2>1. Width(b) \div W \in 1..N /\ w = W * (Width(b) \div W) /\ w \in Nat /\ b <= w /\ w <= MaxBits
            BY WidthIs
      <2>2. Width(W * (Width(b) \div W)) = W * (Width(b) \div W)
            BY <2>1, WidthWhole
      <2> QED
          BY <2>1, <2>2, Sizes
<1>5. TimesSmall(a, k, b) = SetBound(q, b) /\ neg \in BOOLEAN
      <2>1. Active(Abs(a)) * Magnitude(k) = e
            BY <1>3
      <2> QED
          BY <2>1 DEF TimesSmall
<1>6. 2 ^ w \in Nat \ {0} /\ Mod(w) = 2 ^ w /\ e \in Nat
      <2>1. Mod(w) = 2 ^ w /\ Mod(w) \in Nat \ {0}
            BY <1>4, ModIs DEF Mod
      <2> QED
          BY <1>3, <2>1
<1>7. l \in Int /\ Same(l, e, Mod(w))
      <2> DEFINE m == 2 ^ w
      <2>1. m \in Nat \ {0} /\ Mod(w) = m /\ e \in Int
            BY <1>6
      <2> HIDE DEF e, m
      <2>2. e % m \in Int /\ Same(e % m, e, m)
            BY <2>1, ResidueIs
      <2> QED
          BY <2>1, <2>2 DEF m
<1>8. Magnitude(e) = e /\ Magnitude(k * v) = e
      BY <1>1, <1>3 DEF Magnitude
<1>9. Signs(neg, e) = k * v
      <2>1. v < 0 /\ k < 0 => e = k * v
            BY <1>1 DEF Magnitude
      <2>2. ~(v < 0) /\ ~(k < 0) => e = k * v
            BY <1>1 DEF Magnitude
      <2>3. v < 0 /\ ~(k < 0) => -e = k * v
            BY <1>1 DEF Magnitude
      <2>4. ~(v < 0) /\ k < 0 => -e = k * v
            BY <1>1 DEF Magnitude
      <2> HIDE DEF e
      <2>5. CASE v < 0 /\ k < 0
            <3>1. ~neg
                  BY <1>2, <2>5, Zenon DEF neg
            <3> QED
                BY <2>1, <2>5, <3>1, Zenon DEF Signs
      <2>6. CASE ~(v < 0) /\ ~(k < 0)
            <3>1. ~neg
                  BY <1>2, <2>6, Zenon DEF neg
            <3> QED
                BY <2>2, <2>6, <3>1, Zenon DEF Signs
      <2>7. CASE v < 0 /\ ~(k < 0)
            <3>1. neg
                  BY <1>2, <2>7, Zenon DEF neg
            <3> QED
                BY <2>3, <2>7, <3>1, Zenon DEF Signs
      <2>8. CASE ~(v < 0) /\ k < 0
            <3>1. neg
                  BY <1>2, <2>8, Zenon DEF neg
            <3> QED
                BY <2>4, <2>8, <3>1, Zenon DEF Signs
      <2> QED
          BY <2>5, <2>6, <2>7, <2>8, Zenon
<1>10. 2 ^ (b - 1) <= 2 ^ (w - 1) /\ 2 ^ (b - 1) \in Nat /\ 2 ^ (w - 1) \in Nat
       <2>1. b - 1 \in Nat /\ w - 1 \in Nat /\ b - 1 <= w - 1 /\ w - 1 <= MaxBits + 2 /\ b - 1 <= MaxBits + 2
             BY <1>4, Sizes
       <2> QED
           BY <2>1, PowerLe, TwoPower
<1> HIDE DEF w, e, l, neg
<1>11. Num(p) /\ p.bits = w /\ p.limbs = l
       BY <1>4, <1>7 DEF Num
<1>12. Magnitude(e) < 2 ^ (w - 1)
       BY <1>6, <1>8, <1>10
<1>13. Holds(p, e)
       BY <1>6, <1>7, <1>11, <1>12, HoldsIf
<1> DEFINE u == k * v
<1>14. u \in Int /\ Signs(neg, e) = u /\ Magnitude(u) < 2 ^ (b - 1)
       BY <1>1, <1>9
<1>15. q.bits = w
       BY <1>5, <1>11, CNegIs
<1> HIDE DEF p, q, u
<1>16. Holds(q, u)
       BY <1>5, <1>13, <1>14, CNegHolds DEF q
<1>17. Greatest(b, 1) = b /\ b \in 0..MaxBits /\ ~(b > q.bits)
       BY <1>4, <1>15 DEF Greatest
<1>18. Wrapped(u, b) = u
       BY <1>14, WrappedIs
<1>19. Holds(SetBound(q, b), u)
       <2>1. Magnitude(Wrapped(u, Greatest(b, 1))) < 2 ^ (Greatest(b, 1) - 1)
             BY <1>14, <1>17, <1>18
       <2>2. Holds(SetBound(q, b), IF b > q.bits THEN u ELSE Wrapped(u, Greatest(b, 1)))
             BY <1>16, <1>17, <2>1, SetBoundHolds
       <2> QED
           BY <1>17, <1>18, <2>2
<1> QED
    BY <1>5, <1>19 DEF u

---------------------------------------------------------------------------
(* Quotients and remainders.                                               *)

LEMMA RemainderSign ==
    ASSUME NEW v \in Int, NEW n \in Nat \ {0}, NEW t, t = Magnitude(v) % n
    PROVE  /\ t \in 0..(n - 1)
           /\ ~(v < 0) => v % n = t
           /\ v < 0 /\ t = 0 => v % n = 0
           /\ v < 0 /\ t # 0 => v % n = n - t
<1> DEFINE u == Magnitude(v)
           q == u \div n
<1>1. u \in Int /\ (v < 0 => v = -u) /\ (~(v < 0) => u = v)
      BY DEF Magnitude
<1> HIDE DEF u
<1>2. u = n * q + t /\ t \in 0..(n - 1) /\ q \in Int
      BY <1>1, DivMod DEF u
<1> HIDE DEF q
<1>3. ~(v < 0) => v % n = t
      BY <1>1 DEF u
<1>4. ASSUME v < 0, t = 0 PROVE v % n = 0
      <2>1. v = n * (-q) + 0 /\ -q \in Int /\ 0 \in 0..(n - 1)
            BY <1>1, <1>2, <1>4
      <2> QED
          BY <2>1, Residue
<1>5. ASSUME v < 0, t # 0 PROVE v % n = n - t
      <2>1. v = n * (-q - 1) + (n - t) /\ -q - 1 \in Int /\ n - t \in 0..(n - 1)
            BY <1>1, <1>2, <1>5
      <2> QED
          BY <2>1, Residue
<1> QED
    BY <1>2, <1>3, <1>4, <1>5

\* A magnitude and its sign.
LEMMA SignedHolds ==
    ASSUME NEW u \in Nat, NEW b \in 1..MaxBits, u < 2 ^ (b - 1), NEW neg \in BOOLEAN
    PROVE  Holds(CNeg(Fresh(u, b), neg), Signs(neg, u)) /\ CNeg(Fresh(u, b), neg).bits = b
<1>1. Magnitude(u) = u
      BY DEF Magnitude
<1>2. Holds(Fresh(u, b), u) /\ Num(Fresh(u, b)) /\ Fresh(u, b).bits = b
      BY <1>1, FreshIs
<1> QED
    BY <1>2, CNegHolds, CNegIs

LEMMA DivisionsHold ==
    ASSUME NEW a, NEW b, NEW v, NEW w, Holds(a, v), Holds(b, w), w # 0
    PROVE  /\ Holds(Quotient(a, b), Signs(Negative(a) # Negative(b), Magnitude(v) \div Magnitude(w)))
           /\ Holds(Remainder(a, b), Signs(Negative(a), Magnitude(v) % Magnitude(w)))
           /\ Remainder(a, b).bits = b.bits
<1> DEFINE u == Magnitude(v)
           n == Magnitude(w)
           p == 2 ^ (a.bits - 1)
           z == 2 ^ (b.bits - 1)
           q == u \div n
           t == u % n
<1>1. /\ Num(a) /\ Value(a) = v /\ v \in Int /\ u < p /\ a.bits \in 1..MaxBits
      /\ Num(b) /\ Value(b) = w /\ w \in Int /\ n < z /\ b.bits \in 1..MaxBits
      BY DEF Holds, Num
<1>2. u \in Nat /\ n \in Nat \ {0}
      BY <1>1 DEF Magnitude
<1>3. p \in Nat \ {0} /\ z \in Nat \ {0}
      BY <1>1, ModIs
<1>4. Negative(a) \in BOOLEAN /\ Negative(b) \in BOOLEAN
      BY <1>1, NumReads DEF ReadsAs
<1>5. Quotient(a, b) = CNeg(Fresh(q, a.bits), Negative(a) # Negative(b)) /\ Remainder(a, b) = CNeg(Fresh(t, b.bits), Negative(a))
      BY <1>1 DEF Quotient, Remainder
<1>6. (Negative(a) # Negative(b)) \in BOOLEAN
      BY <1>4
<1>7. q \in Nat /\ q < p
      <2> HIDE DEF u, n, p
      <2>1. u < p * n
            <3>1. p * (n - 1) \in Nat /\ p * n = p + p * (n - 1)
                  BY <1>2, <1>3
            <3> QED
                BY <1>1, <1>2, <1>3, <3>1
      <2> QED
          BY <1>2, <1>3, <2>1, DivLess
<1>8. t \in Nat /\ t < z
      <2> HIDE DEF u, n, z
      <2>1. t \in 0..(n - 1)
            BY <1>2, ModRange
      <2> QED
          BY <1>1, <1>2, <1>3, <2>1
<1> HIDE DEF q, t
<1>9. Holds(CNeg(Fresh(q, a.bits), Negative(a) # Negative(b)), Signs(Negative(a) # Negative(b), q))
      BY <1>1, <1>6, <1>7, SignedHolds
<1>10. /\ Holds(CNeg(Fresh(t, b.bits), Negative(a)), Signs(Negative(a), t))
       /\ CNeg(Fresh(t, b.bits), Negative(a)).bits = b.bits
       BY <1>1, <1>4, <1>8, SignedHolds
<1> QED
    BY <1>5, <1>9, <1>10 DEF q, t

LEMMA ModuloHolds ==
    ASSUME NEW a, NEW b, NEW v, NEW w, Holds(a, v), Holds(b, w), w # 0, b.bits < MaxBits
    PROVE  Holds(Modulo(a, b), v % Magnitude(w))
<1> DEFINE n == Magnitude(w)
           t == Magnitude(v) % n
           r == Remainder(a, b)
           s == Signs(Negative(a), t)
<1>1. /\ Num(a) /\ Value(a) = v /\ v \in Int
      /\ Num(b) /\ Value(b) = w /\ w \in Int /\ b.bits \in 1..MaxBits
      BY DEF Holds, Num
<1>2. n \in Nat \ {0} /\ (w < 0 => n = -w) /\ (~(w < 0) => n = w)
      BY <1>1 DEF Magnitude
<1>3. (Negative(a) <=> v < 0) /\ (Negative(b) <=> w < 0)
      BY <1>1, NumReads DEF ReadsAs
<1>4. Holds(r, s) /\ r.bits = b.bits
      BY DivisionsHold
<1>5. Num(r) /\ Value(r) = s /\ s \in Int
      BY <1>4 DEF Holds
<1>6. Negative(r) <=> s < 0
      BY <1>5, NumReads DEF ReadsAs
<1> HIDE DEF n, r
<1>7. /\ t \in 0..(n - 1)
      /\ ~(v < 0) => v % n = t
      /\ v < 0 /\ t = 0 => v % n = 0
      /\ v < 0 /\ t # 0 => v % n = n - t
      BY <1>1, <1>2, RemainderSign
<1> DEFINE e == v % n
<1>8. ~(s < 0) => e = s
      <2> HIDE DEF t, e
      <2>1. (v < 0 => s = -t) /\ (~(v < 0) => s = t)
            BY <1>3 DEF Signs
      <2> HIDE DEF s
      <2> QED
          BY <1>2, <1>7, <2>1 DEF e
<1>9. s < 0 => e = s + n
      <2> HIDE DEF t, e
      <2>1. (v < 0 => s = -t) /\ (~(v < 0) => s = t)
            BY <1>3 DEF Signs
      <2> HIDE DEF s
      <2> QED
          BY <1>2, <1>7, <2>1 DEF e
<1> HIDE DEF s, e
<1>10. CASE ~(s < 0)
       <2>1. Modulo(a, b) = r
             BY <1>6, <1>10 DEF Modulo, r
       <2> QED
           BY <1>4, <1>8, <1>10, <2>1 DEF e, n
<1>11. CASE s < 0
       <2>1. Greatest(r.bits, b.bits) < MaxBits
             BY <1>4 DEF Greatest
       <2>2. Holds(Sum(r, b), s + w) /\ Holds(Difference(r, b), s - w)
             BY <1>4, <2>1, SumsHold
       <2>3. CASE w < 0
             <3>1. Modulo(a, b) = Difference(r, b)
                   BY <1>3, <1>6, <1>11, <2>3 DEF Modulo, r
             <3>2. s - w = e
                   BY <1>1, <1>2, <1>5, <1>9, <1>11, <2>3
             <3> QED
                 BY <2>2, <3>1, <3>2 DEF e, n
       <2>4. CASE ~(w < 0)
             <3>1. Modulo(a, b) = Sum(r, b)
                   BY <1>3, <1>6, <1>11, <2>4 DEF Modulo, r
             <3>2. s + w = e
                   BY <1>1, <1>2, <1>5, <1>9, <1>11, <2>4
             <3> QED
                 BY <2>2, <3>1, <3>2 DEF e, n
       <2> QED
           BY <2>3, <2>4
<1> QED
    BY <1>10, <1>11

---------------------------------------------------------------------------
(* The inverse modulo a power of two.  The products on the way may fill    *)
(* the container; they are then right modulo all it holds.                 *)

Stands(a, v) ==
    /\ Num(a) /\ v \in Int
    /\ Holds(a, v) \/ (a.bits = MaxBits /\ Same(Value(a), v, 2 ^ MaxBits))

LEMMA StandsSame ==
    ASSUME NEW a, NEW v, Stands(a, v)
    PROVE  Num(a) /\ Value(a) \in Int /\ v \in Int /\ Same(Value(a), v, 2 ^ MaxBits)
<1>1. Num(a) /\ v \in Int /\ Value(a) \in Int
      BY NumReads DEF Stands, ReadsAs
<1>2. Same(Value(a), v, 2 ^ MaxBits)
      BY Zenon DEF Stands, Holds, Same
<1> QED
    BY <1>1, <1>2

\* A result that fills the container.
LEMMA StandsFull ==
    ASSUME NEW a, Num(a), a.bits = MaxBits, NEW u \in Int, NEW v \in Int,
           Same(a.limbs, u, Mod(a.bits)), Same(u, v, 2 ^ MaxBits)
    PROVE  Stands(a, v)
<1> DEFINE M == 2 ^ MaxBits
<1>1. Mod(a.bits) = M
      BY WidthTop
<1>2. Same(a.limbs, Value(a), M) /\ Same(a.limbs, u, M)
      BY <1>1, NumReads DEF ReadsAs
<1> HIDE DEF M
<1>3. Same(Value(a), u, M)
      <2>1. Same(Value(a), a.limbs, M)
            BY <1>2, SameSwap
      <2> QED
          BY <1>2, <2>1, SameTrans
<1>4. Same(Value(a), v, M)
      BY <1>3, SameTrans DEF M
<1> QED
    BY <1>4 DEF Stands, M

LEMMA ProductStands ==
    ASSUME NEW a, NEW b, NEW v, NEW w, Stands(a, v), Stands(b, w)
    PROVE  Stands(Product(a, b), v * w)
<1> DEFINE s == a.bits + b.bits - 1
           g == Product(a, b)
           M == 2 ^ MaxBits
<1>1. /\ Num(a) /\ v \in Int /\ Value(a) \in Int /\ Same(Value(a), v, M)
      /\ Num(b) /\ w \in Int /\ Value(b) \in Int /\ Same(Value(b), w, M)
      BY StandsSame
<1>2. a.bits \in 1..MaxBits /\ b.bits \in 1..MaxBits /\ MaxBits \in Nat
      BY <1>1, Sizes DEF Num
<1>3. v * w \in Int /\ Value(a) * Value(b) \in Int
      BY <1>1
<1>4. CASE Holds(a, v) /\ Holds(b, w) /\ s <= MaxBits
      <2>1. Holds(g, v * w)
            BY <1>4, ProductHolds
      <2> QED
          BY <2>1 DEF Stands, Holds
<1>5. CASE ~(Holds(a, v) /\ Holds(b, w) /\ s <= MaxBits)
      <2>1. s >= MaxBits
            <3>1. a.bits = MaxBits \/ b.bits = MaxBits \/ ~(s <= MaxBits)
                  BY <1>5, Zenon DEF Stands
            <3> QED
                BY <1>2, <3>1
      <2>2. Least(s, MaxBits) = MaxBits
            BY <1>2, <2>1 DEF Least
      <2>3. Num(g) /\ g.bits = MaxBits /\ Same(g.limbs, Value(a) * Value(b), Mod(MaxBits))
            BY <1>1, <2>2, ProductIs
      <2>4. Same(Value(a) * Value(b), v * w, M)
            <3>1. M \in Nat \ {0}
                  BY WidthTop, ModIs
            <3> HIDE DEF M
            <3> QED
                BY <1>1, <3>1, SameMul
      <2> QED
          BY <1>3, <2>3, <2>4, StandsFull
<1> QED
    BY <1>4, <1>5

LEMMA DifferenceStands ==
    ASSUME NEW a, NEW b, NEW v, NEW w, Stands(a, v), Stands(b, w)
    PROVE  Stands(Difference(a, b), v - w)
<1> DEFINE s == Greatest(a.bits, b.bits)
           g == Difference(a, b)
           u == Value(a) - Value(b)
           M == 2 ^ MaxBits
<1>1. /\ Num(a) /\ v \in Int /\ Value(a) \in Int /\ Same(Value(a), v, M)
      /\ Num(b) /\ w \in Int /\ Value(b) \in Int /\ Same(Value(b), w, M)
      BY StandsSame
<1>2. a.bits \in 1..MaxBits /\ b.bits \in 1..MaxBits /\ MaxBits \in Nat /\ s \in 1..MaxBits
      BY <1>1, Sizes DEF Num, Greatest
<1>3. v - w \in Int /\ u \in Int
      BY <1>1
<1>4. CASE Holds(a, v) /\ Holds(b, w) /\ s < MaxBits
      <2>1. Holds(g, v - w)
            BY <1>4, SumsHold
      <2> QED
          BY <2>1 DEF Stands, Holds
<1>5. CASE ~(Holds(a, v) /\ Holds(b, w) /\ s < MaxBits)
      <2>1. s >= MaxBits
            <3>1. a.bits = MaxBits \/ b.bits = MaxBits \/ ~(s < MaxBits)
                  BY <1>5, Zenon DEF Stands
            <3> QED
                BY <1>2, <3>1 DEF Greatest
      <2>2. Least(s + 1, MaxBits) = MaxBits
            BY <1>2, <2>1 DEF Least
      <2>3. g = Fresh(u, MaxBits)
            BY <2>2 DEF Difference
      <2> HIDE DEF u
      <2>4. Num(g) /\ g.bits = MaxBits /\ Same(g.limbs, u, Mod(MaxBits))
            BY <1>3, <2>3, WidthTop, FreshIs
      <2>5. Same(u, v - w, M)
            <3>1. M \in Nat \ {0}
                  BY WidthTop, ModIs
            <3> HIDE DEF M
            <3> QED
                BY <1>1, <3>1, SameSub DEF u
      <2> QED
          BY <1>3, <2>4, <2>5, StandsFull
<1> QED
    BY <1>4, <1>5

LEMMA HoldsStands ==
    ASSUME NEW a, NEW v, Holds(a, v)
    PROVE  Stands(a, v)
BY Zenon DEF Holds, Stands

LEMMA ModPow2Stands ==
    ASSUME NEW a, NEW v, Stands(a, v), NEW e \in 0..(MaxBits - 1)
    PROVE  Holds(ModPow2(a, e), v % 2 ^ e)
<1>1. Num(a) /\ Value(a) \in Int /\ v \in Int /\ Same(Value(a), v, 2 ^ MaxBits)
      BY StandsSame
<1>2. e \in Nat /\ MaxBits \in Nat /\ e <= MaxBits /\ MaxBits <= MaxBits + 2
      BY Sizes
<1>3. Same(Value(a), v, 2 ^ e)
      BY <1>1, <1>2, SameLower
<1>4. Value(a) % 2 ^ e = v % 2 ^ e
      BY <1>3 DEF Same
<1>5. Holds(ModPow2(a, e), Value(a) % 2 ^ e)
      BY <1>1, ModPow2Holds
<1> QED
    BY <1>4, <1>5

LEMMA LiftedHolds ==
    ASSUME NEW a, NEW b, NEW v, NEW u, Holds(a, v), Holds(b, u), NEW e \in 0..(MaxBits - 1)
    PROVE  Holds(Lifted(a, b, e), (u * (2 - v * u)) % 2 ^ e)
<1>1. Holds(Fresh(2, 3), 2)
      <2>1. Magnitude(2) < 2 ^ (3 - 1) /\ 3 \in 1..MaxBits
            <3>1. Magnitude(2) = 2 /\ 3 - 1 = 2
                  BY DEF Magnitude
            <3>2. 3 \in 1..MaxBits
                  BY Sizes
            <3>3. 2 ^ (3 - 1) = 4
                  BY <3>1, SmallPowers
            <3> QED
                BY <3>1, <3>2, <3>3
      <2> DEFINE t == 2
                 b3 == 3
      <2>2. t \in Int /\ b3 \in 1..MaxBits /\ Magnitude(t) < 2 ^ (b3 - 1)
            BY <2>1
      <2> HIDE DEF t, b3
      <2>3. Holds(Fresh(t, b3), t)
            BY <2>2, FreshIs
      <2> QED
          BY ONLY <2>3, Zenon DEF t, b3
<1>2. Stands(a, v) /\ Stands(b, u) /\ Stands(Fresh(2, 3), 2)
      BY <1>1, HoldsStands
<1>3. Stands(Product(a, b), v * u)
      BY <1>2, ProductStands
<1>4. Stands(Difference(Fresh(2, 3), Product(a, b)), 2 - v * u)
      BY <1>2, <1>3, DifferenceStands
<1>5. Stands(Product(b, Difference(Fresh(2, 3), Product(a, b))), u * (2 - v * u))
      BY <1>2, <1>4, ProductStands
<1> QED
    BY <1>5, ModPow2Stands DEF Lifted

LEMMA InverseUnique ==
    ASSUME NEW m \in Nat \ {0}, NEW v \in Int, NEW u \in Int, NEW w \in Int,
           Same(v * u, 1, m), Same(v * w, 1, m)
    PROVE  Same(u, w, m)
<1> DEFINE s == v * u
           t == v * w
<1>1. s \in Int /\ t \in Int /\ Same(s, 1, m) /\ Same(t, 1, m)
      OBVIOUS
<1>2. s * w = t * u
      OBVIOUS
<1> HIDE DEF s, t
<1>3. Same(w, w, m) /\ Same(u, u, m) /\ 1 \in Int
      BY DEF Same
<1>4. Same(s * w, 1 * w, m) /\ Same(t * u, 1 * u, m)
      <2>1. Same(s * w, 1 * w, m)
            BY ONLY <1>1, <1>3, m \in Nat \ {0}, w \in Int, SameMul
      <2>2. Same(t * u, 1 * u, m)
            BY ONLY <1>1, <1>3, m \in Nat \ {0}, u \in Int, SameMul
      <2> QED
          BY <2>1, <2>2
<1>5. Same(s * w, w, m) /\ Same(s * w, u, m)
      <2>1. 1 * w = w /\ 1 * u = u
            OBVIOUS
      <2> QED
          BY <1>2, <1>4, <2>1
<1>6. Same(u, s * w, m)
      BY <1>5, SameSwap
<1> QED
    BY <1>5, <1>6, SameTrans

\* One turn: right to p bits, then to q <= 2 p.
LEMMA Doubling ==
    ASSUME NEW v \in Int, NEW u \in Int, NEW p \in Nat, NEW q \in Nat, p <= q, q <= p + p, q <= MaxBits,
           Same(v * u, 1, 2 ^ p)
    PROVE  LET w == (u * (2 - v * u)) % 2 ^ q
           IN  w \in 0..(2 ^ q - 1) /\ Same(v * w, 1, 2 ^ q)
<1> DEFINE j == q - p
           P == 2 ^ p
           Q == 2 ^ q
           J == 2 ^ j
           z == u * (2 - v * u)
<1>1. j \in Nat /\ j <= p /\ p + j = q
      OBVIOUS
<1>2. q <= MaxBits + 2 /\ p <= MaxBits + 2 /\ j <= MaxBits + 2
      BY <1>1, Sizes
<1>3. P \in Nat \ {0} /\ Q \in Nat \ {0} /\ J \in Nat \ {0}
      BY <1>1, <1>2, TwoPower
<1>4. Q = P * J
      <2> HIDE DEF j
      <2>1. 2 ^ (p + j) = 2 ^ p * 2 ^ j
            BY <1>1, <1>2, PowerSum
      <2> QED
          BY <1>1, <2>1
<1>5. PICK m \in Nat \ {0} : P = J * m
      <2> HIDE DEF j
      <2> QED
          BY <1>1, <1>2, PowerLe
<1> HIDE DEF j, P, Q, J
<1>6. PICK k \in Int : v * u = 1 + k * P
      <2>1. (v * u) % P = 1 % P
            BY DEF Same, P
      <2> DEFINE s == v * u
      <2>2. s \in Int /\ s % P = 1 % P /\ 1 \in Int
            BY <2>1
      <2> HIDE DEF s
      <2>3. \E k \in Int : s = 1 + k * P
            BY <1>3, <2>2, ModDiffer
      <2> QED
          BY <2>3 DEF s
<1>7. v * z = 1 + (-(k * k)) * (P * P)
      BY <1>3, <1>6, NewtonStep
<1>8. P * P = Q * m
      BY <1>3, <1>4, <1>5
<1>9. z \in Int
      OBVIOUS
<1> HIDE DEF z
<1>10. Same(v * z, 1, Q)
       <2> DEFINE s == v * z
                  i == (-(k * k)) * m
       <2>1. s \in Int /\ i \in Int
             BY <1>6, <1>9
       <2>2. s = 1 + i * Q
             <3>1. (-(k * k)) * (Q * m) = ((-(k * k)) * m) * Q
                   BY <1>3, <1>6
             <3> QED
                 BY <1>7, <1>8, <3>1
       <2> HIDE DEF s, i
       <2>3. Same(s, 1, Q)
             BY <1>3, <2>1, <2>2, SameShift
       <2> QED
           BY <2>3 DEF s
<1> DEFINE w == z % Q
<1>11. w \in 0..(Q - 1) /\ w \in Int /\ Same(w, z, Q)
       BY <1>3, <1>9, SameResidue
<1> HIDE DEF w
<1>12. Same(v * w, v * z, Q)
       <2>1. Same(v, v, Q)
             BY DEF Same
       <2> QED
           BY <1>3, <1>9, <1>11, <2>1, SameMul
<1>13. Same(v * w, 1, Q)
       BY <1>10, <1>12, SameTrans
<1> QED
    BY <1>11, <1>13 DEF w, z, Q

LEMMA PowerAbove ==
    ASSUME NEW k \in Nat, k <= MaxBits + 2
    PROVE  k < 2 ^ k
<1> DEFINE S == {n \in Nat : n <= MaxBits + 2 => n < 2 ^ n}
<1>1. 0 \in S
      BY SmallPowers
<1>2. ASSUME NEW n \in Nat, n \in S PROVE n + 1 \in S
      <2> SUFFICES ASSUME n + 1 <= MaxBits + 2 PROVE n + 1 < 2 ^ (n + 1)
          OBVIOUS
      <2>1. n <= MaxBits + 2 /\ n <= MaxBits + 1
            BY Sizes
      <2>2. n < 2 ^ n
            BY <1>2, <2>1
      <2>3. 2 ^ n \in Nat \ {0} /\ 2 ^ (n + 1) = 2 * 2 ^ n
            BY <2>1, TwoPower
      <2> QED
          BY <2>2, <2>3
<1>3. Nat \subseteq S
      <2> HIDE DEF S
      <2> QED
          BY <1>1, <1>2, SimpleInduction
<1> QED
    BY <1>3

\* The last of the precisions below e.
LEMMA LastTurn ==
    ASSUME NEW e \in 2..(MaxBits - 1)
    PROVE  \E k \in 0..e : 2 ^ k < e /\ 2 ^ (k + 1) >= e
<1> DEFINE T == {k \in 0..e : 2 ^ (k + 1) >= e}
<1>1. e \in Nat /\ e >= 2 /\ e + 1 <= MaxBits + 2 /\ MaxBits \in Nat
      BY Sizes
<1>2. e \in T
      <2>1. e + 1 < 2 ^ (e + 1)
            BY <1>1, PowerAbove
      <2>2. 2 ^ (e + 1) \in Nat
            BY <1>1, TwoPower
      <2> QED
          BY <1>1, <2>1, <2>2
<1>3. PICK k \in T : \A i \in T : k <= i
      <2>1. T \subseteq Nat /\ T # {}
            BY <1>2
      <2> HIDE DEF T
      <2> QED
          BY <2>1, LeastElement
<1>4. k \in 0..e /\ 2 ^ (k + 1) >= e
      BY <1>3
<1>5. CASE k = 0
      <2>1. 2 ^ k = 1
            BY <1>5, SmallPowers
      <2> QED
          BY <1>1, <1>4, <2>1
<1>6. CASE k # 0
      <2>1. k - 1 \in 0..e /\ (k - 1) + 1 = k /\ ~(k <= k - 1)
            BY <1>1, <1>4, <1>6
      <2>2. ~(k - 1 \in T)
            BY <1>3, <2>1
      <2>3. ~(2 ^ ((k - 1) + 1) >= e)
            <3> HIDE <1>3
            <3> QED
                BY <2>1, <2>2
      <2>4. 2 ^ k \in Nat
            <3>1. k \in Nat /\ k <= MaxBits + 2
                  BY <1>1, <1>4
            <3> QED
                BY <3>1, TwoPower
      <2>5. 2 ^ k < e
            BY <1>1, <2>1, <2>3, <2>4
      <2> QED
          BY <1>4, <2>5
<1> QED
    BY <1>5, <1>6

\* The values invmod_2e goes through.
TurnsTo(a, n, g) == g = [k \in 0..n |-> IF k = 0 THEN Fresh(1, 2) ELSE Lifted(a, g[k - 1], 2 ^ k)]

LEMMA TurnsExist ==
    ASSUME NEW a, NEW e \in Nat
    PROVE  \E g : TurnsTo(a, e, g)
<1> DEFINE S == {n \in Nat : \E g : TurnsTo(a, n, g)}
<1>1. 0 \in S
      <2> DEFINE g == [k \in 0..0 |-> Fresh(1, 2)]
      <2>1. g = [k \in 0..0 |-> IF k = 0 THEN Fresh(1, 2) ELSE Lifted(a, g[k - 1], 2 ^ k)]
            <3>1. \A k \in 0..0 : k = 0
                  OBVIOUS
            <3> QED
                BY <3>1
      <2> HIDE DEF g
      <2>2. TurnsTo(a, 0, g)
            BY <2>1 DEF TurnsTo
      <2> QED
          BY <2>2
<1>2. ASSUME NEW n \in Nat, n \in S PROVE n + 1 \in S
      <2>1. PICK g : TurnsTo(a, n, g)
            BY <1>2
      <2> DEFINE T(k, t) == Lifted(a, t, 2 ^ k)
                 h == [k \in 0..(n + 1) |-> IF k <= n THEN g[k] ELSE T(k, g[n])]
      <2>2. g = [k \in 0..n |-> IF k = 0 THEN Fresh(1, 2) ELSE T(k, g[k - 1])]
            BY <2>1 DEF TurnsTo
      <2> HIDE DEF T
      <2>3. ASSUME NEW k \in 0..(n + 1)
            PROVE  h[k] = IF k = 0 THEN Fresh(1, 2) ELSE T(k, h[k - 1])
            <3>1. CASE k = 0
                  <4>1. k \in 0..n /\ k <= n /\ g[k] = Fresh(1, 2)
                        BY <2>2, <3>1
                  <4>2. h[k] = g[k]
                        BY <4>1
                  <4> QED
                      BY <3>1, <4>1, <4>2
            <3>2. CASE k # 0 /\ k <= n
                  <4>1. k \in 0..n /\ k - 1 \in 0..(n + 1) /\ k - 1 <= n
                        BY <3>2
                  <4>2. h[k] = g[k] /\ h[k - 1] = g[k - 1]
                        BY <3>2, <4>1
                  <4>3. g[k] = T(k, g[k - 1])
                        <5> HIDE DEF h
                        <5> QED
                            BY <2>2, <3>2, <4>1
                  <4> HIDE DEF h
                  <4> QED
                      BY <3>2, <4>2, <4>3
            <3>3. CASE ~(k <= n)
                  <4>1. k = n + 1 /\ k - 1 = n /\ n \in 0..(n + 1) /\ n <= n /\ k # 0
                        BY <3>3
                  <4>2. h[k] = T(k, g[n]) /\ h[n] = g[n]
                        BY <3>3, <4>1
                  <4> HIDE DEF h
                  <4> QED
                      BY <4>1, <4>2
            <3> HIDE DEF h
            <3> QED
                BY <3>1, <3>2, <3>3
      <2>4. h = [k \in 0..(n + 1) |-> h[k]]
            OBVIOUS
      <2> HIDE DEF h
      <2>5. h = [k \in 0..(n + 1) |-> IF k = 0 THEN Fresh(1, 2) ELSE T(k, h[k - 1])]
            BY <2>3, <2>4, Zenon
      <2>6. TurnsTo(a, n + 1, h)
            BY <2>5 DEF TurnsTo, T
      <2> QED
          BY <2>6
<1>3. Nat \subseteq S
      <2> HIDE DEF S
      <2> QED
          BY <1>1, <1>2, SimpleInduction
<1> QED
    BY <1>3

\* d is right to n bits.
RightTo(d, v, n) == \E u \in Int : Holds(d, u) /\ Same(v * u, 1, 2 ^ n)

LEMMA LiftedRight ==
    ASSUME NEW a, NEW v, Holds(a, v), NEW d, NEW p \in Nat, RightTo(d, v, p),
           NEW q \in Nat, p <= q, q <= p + p, q <= MaxBits - 1
    PROVE  /\ RightTo(Lifted(a, d, q), v, q)
           /\ \E u \in 0..(2 ^ q - 1) : Holds(Lifted(a, d, q), u) /\ Same(v * u, 1, 2 ^ q)
<1>1. PICK u \in Int : Holds(d, u) /\ Same(v * u, 1, 2 ^ p)
      BY DEF RightTo
<1>2. v \in Int /\ q \in 0..(MaxBits - 1) /\ q <= MaxBits
      BY Sizes DEF Holds
<1> DEFINE w == (u * (2 - v * u)) % 2 ^ q
<1>3. w \in 0..(2 ^ q - 1) /\ Same(v * w, 1, 2 ^ q)
      BY <1>1, <1>2, Doubling
<1>4. Holds(Lifted(a, d, q), w)
      BY <1>1, <1>2, LiftedHolds
<1> HIDE DEF w
<1> QED
    BY <1>3, <1>4 DEF RightTo

LEMMA TurnsRight ==
    ASSUME NEW a, NEW v, Holds(a, v), v % 2 = 1, NEW e \in 1..(MaxBits - 1),
           NEW g, TurnsTo(a, e, g), NEW l \in 0..e, l = 0 \/ 2 ^ l < e
    PROVE  RightTo(g[l], v, 2 ^ l)
<1>1. MaxBits \in Nat /\ e <= MaxBits + 2 /\ e \in Nat /\ e < MaxBits /\ v \in Int
      BY Sizes DEF Holds
<1> DEFINE S == {k \in Nat : k <= l => RightTo(g[k], v, 2 ^ k)}
<1>2. 0 \in S
      <2>1. g[0] = Fresh(1, 2)
            <3>1. 0 \in 0..e
                  BY <1>1
            <3> QED
                BY <3>1 DEF TurnsTo
      <2>2. Holds(Fresh(1, 2), 1)
            <3> DEFINE o == 1
                       t == 2
            <3>1. o \in Int /\ t \in 1..MaxBits /\ Magnitude(o) < 2 ^ (t - 1)
                  <4>1. t - 1 = 1 /\ Magnitude(o) = 1
                        BY DEF Magnitude
                  <4> QED
                      BY <4>1, Sizes, SmallPowers
            <3> HIDE DEF o, t
            <3>2. Holds(Fresh(o, t), o)
                  BY <3>1, FreshIs
            <3> QED
                BY ONLY <3>2, Zenon DEF o, t
      <2>3. 2 ^ (2 ^ 0) = 2
            BY SmallPowers
      <2>4. Same(v * 1, 1, 2)
            <3>1. v * 1 = v /\ 1 % 2 = 1
                  BY <1>1
            <3> QED
                BY <3>1 DEF Same
      <2>5. RightTo(g[0], v, 2 ^ 0)
            <3>1. 1 \in Int
                  OBVIOUS
            <3> QED
                BY <2>1, <2>2, <2>3, <2>4, <3>1, Zenon DEF RightTo
      <2> QED
          BY <2>5
<1>3. ASSUME NEW k \in Nat, k \in S PROVE k + 1 \in S
      <2> SUFFICES ASSUME k + 1 <= l PROVE RightTo(g[k + 1], v, 2 ^ (k + 1))
          OBVIOUS
      <2> DEFINE i == k + 1
                 p == 2 ^ k
                 q == 2 ^ i
      <2>1. k <= l /\ k <= MaxBits + 1 /\ k <= MaxBits + 2 /\ i \in Nat /\ i # 0 /\ i \in 0..e /\ i <= l
            /\ l \in Nat /\ l <= MaxBits + 2 /\ i - 1 = k /\ l # 0
            BY <1>1
      <2>2. RightTo(g[k], v, p)
            BY <1>3, <2>1
      <2>3. p \in Nat \ {0} /\ q = 2 * p
            BY <2>1, TwoPower
      <2>4. q <= 2 ^ l
            <3> HIDE DEF i
            <3> QED
                BY <2>1, PowerLe
      <2>5. 2 ^ l < e /\ 2 ^ l \in Nat
            BY <2>1, TwoPower
      <2>6. g[i] = Lifted(a, g[i - 1], 2 ^ i)
            <3> HIDE DEF i
            <3> QED
                BY <2>1 DEF TurnsTo
      <2>7. g[i] = Lifted(a, g[k], q)
            BY <2>1, <2>6
      <2> HIDE DEF p, q, i
      <2>8. p <= q /\ q <= p + p /\ q <= MaxBits - 1 /\ p \in Nat /\ q \in Nat
            BY <1>1, <2>3, <2>4, <2>5
      <2>9. RightTo(Lifted(a, g[k], q), v, q)
            BY <2>2, <2>8, LiftedRight
      <2> QED
          BY <2>7, <2>9 DEF q, i
<1>4. Nat \subseteq S
      <2> HIDE DEF S
      <2> QED
          BY <1>2, <1>3, SimpleInduction
<1>5. l \in Nat /\ l <= l
      BY <1>1
<1> QED
    BY <1>4, <1>5

LEMMA InverseHolds ==
    ASSUME NEW a, NEW v, Holds(a, v), v % 2 = 1, NEW e \in 1..(MaxBits - 1)
    PROVE  Holds(InvPow2(a, e), CHOOSE w \in 0..(2 ^ e - 1) : (w * v) % 2 ^ e = 1 % 2 ^ e)
<1> DEFINE g == CHOOSE f : TurnsTo(a, e, f)
           last == CHOOSE k \in 0..e : 2 ^ k < e /\ 2 ^ (k + 1) >= e
           r == IF e = 1 THEN g[0] ELSE Lifted(a, g[last], e)
           Q == 2 ^ e
           Right(d) == \E u \in Int : Holds(d, u) /\ Same(v * u, 1, Q)
<1>1. MaxBits \in Nat /\ e \in Nat /\ e >= 1 /\ e <= MaxBits + 2 /\ e <= MaxBits - 1 /\ v \in Int
      BY Sizes DEF Holds
<1>2. TurnsTo(a, e, g)
      <2>1. \E f : TurnsTo(a, e, f)
            BY <1>1, TurnsExist
      <2> QED
          BY <2>1
<1>3. InvPow2(a, e) = ModPow2(r, e)
      BY DEF InvPow2, TurnsTo
<1> HIDE DEF g
<1>4. Q \in Nat \ {0}
      BY <1>1, TwoPower
<1>5. Right(r)
      <2>1. CASE e = 1
            <3>1. RightTo(g[0], v, 2 ^ 0)
                  <4>1. 0 \in 0..e
                        BY <1>1
                  <4> QED
                      BY <1>2, <4>1, TurnsRight
            <3>2. 2 ^ 0 = e
                  BY <2>1, SmallPowers
            <3> QED
                BY <2>1, <3>1, <3>2 DEF RightTo
      <2>2. CASE e # 1
            <3>1. e \in 2..(MaxBits - 1)
                  BY <1>1, <2>2
            <3>2. last \in 0..e /\ 2 ^ last < e /\ 2 ^ (last + 1) >= e
                  <4>1. \E k \in 0..e : 2 ^ k < e /\ 2 ^ (k + 1) >= e
                        BY <3>1, LastTurn
                  <4> QED
                      BY <4>1
            <3> HIDE DEF last
            <3>3. last \in Nat /\ last <= MaxBits + 1 /\ last <= MaxBits + 2
                  BY <1>1, <3>2
            <3> DEFINE p == 2 ^ last
            <3>4. p \in Nat \ {0} /\ 2 ^ (last + 1) = 2 * p
                  BY <3>3, TwoPower
            <3>5. RightTo(g[last], v, p)
                  BY <1>2, <3>2, TurnsRight
            <3>6. p < e /\ p + p >= e
                  BY <3>2, <3>4
            <3> HIDE DEF p
            <3>7. p <= e /\ e <= p + p /\ p \in Nat
                  BY <1>1, <3>4, <3>6
            <3>8. RightTo(Lifted(a, g[last], e), v, e)
                  BY <1>1, <3>5, <3>7, LiftedRight
            <3> QED
                BY <2>2, <3>8 DEF RightTo
      <2> QED
          BY <2>1, <2>2
<1> HIDE DEF r
<1>6. PICK u \in Int : Holds(r, u) /\ Same(v * u, 1, Q)
      BY <1>5
<1> DEFINE w == u % Q
<1>7. w \in 0..(Q - 1) /\ w \in Int /\ Same(w, u, Q)
      BY <1>4, SameResidue
<1>8. Holds(InvPow2(a, e), w)
      <2>1. e \in 0..(MaxBits - 1)
            BY <1>1
      <2>2. Holds(ModPow2(r, e), w)
            BY <1>6, <2>1, HoldsStands, ModPow2Stands
      <2> QED
          BY <1>3, <2>2
<1> HIDE DEF w, Q
<1>9. Same(v * w, 1, Q)
      <2>1. Same(v, v, Q)
            BY DEF Same
      <2>2. Same(v * w, v * u, Q)
            BY <1>1, <1>4, <1>7, <2>1, SameMul
      <2> QED
          BY <1>6, <2>2, SameTrans
<1>10. w * v = v * w
       BY <1>1, <1>7
<1>11. ASSUME NEW z \in 0..(Q - 1), (z * v) % Q = 1 % Q PROVE z = w
       <2>1. z \in Int /\ z * v = v * z
             BY <1>1, <1>4
       <2>2. Same(v * z, 1, Q)
             BY <1>11, <2>1 DEF Same
       <2>3. Same(z, w, Q)
             BY <1>1, <1>4, <1>7, <1>9, <2>1, <2>2, InverseUnique
       <2>4. z % Q = w % Q
             BY <2>3 DEF Same
       <2>5. z % Q = z /\ w % Q = w
             <3>1. Q * 0 = 0 /\ 0 \in Int /\ z = Q * 0 + z /\ w = Q * 0 + w
                   BY <1>4, <1>7, <2>1
             <3>2. z % Q = z
                   BY ONLY <3>1, <1>4, <2>1, z \in 0..(Q - 1), Residue
             <3>3. w % Q = w
                   BY ONLY <3>1, <1>4, <1>7, Residue
             <3> QED
                 BY <3>2, <3>3
       <2> QED
           BY <2>4, <2>5
<1>12. (w * v) % Q = 1 % Q
       BY <1>9, <1>10 DEF Same
<1>13. (CHOOSE z \in 0..(Q - 1) : (z * v) % Q = 1 % Q) = w
       BY <1>7, <1>11, <1>12, Zenon
<1> QED
    BY <1>8, <1>13 DEF Q

---------------------------------------------------------------------------
(* The length, found from the limbs.                                       *)

Place(u, i) == (u \div 2 ^ (W * i)) % 2 ^ W
Base(i)     == 2 ^ (W * i)

LEMMA BaseIs ==
    ASSUME NEW i \in 0..N
    PROVE  /\ Base(i) \in Nat \ {0} /\ 2 ^ W \in Nat \ {0} /\ 2 ^ W >= 4 /\ Base(i) = 2 ^ (W * i)
           /\ W * i \in Nat /\ W * i <= MaxBits /\ W * (i + 1) = W * i + W
           /\ i < N => W * i + W <= MaxBits /\ Base(i + 1) = Base(i) * 2 ^ W
<1>1. i \in Nat /\ i <= N /\ W \in Nat /\ N \in Nat /\ MaxBits = W * N /\ MaxBits \in Nat /\ W >= 2 /\ N >= 2
      BY Sizes
<1>2. W * i \in Nat /\ W * (i + 1) = W * i + W
      BY <1>1
<1>3. W * i <= MaxBits
      <2>1. W * (N - i) \in Nat /\ W * N = W * i + W * (N - i)
            BY <1>1
      <2> QED
          BY <1>1, <1>2, <2>1
<1>4. i < N => W * i + W <= MaxBits
      <2> SUFFICES ASSUME i < N PROVE W * i + W <= MaxBits
          OBVIOUS
      <2>1. N - i - 1 \in Nat
            BY <1>1
      <2>2. W * (N - i - 1) \in Nat /\ W * N = (W * i + W) + W * (N - i - 1)
            BY <1>1, <2>1
      <2> QED
          BY <1>1, <1>2, <2>2
<1> DEFINE j == W * i
<1>5. j \in Nat /\ j <= MaxBits + 2 /\ W <= MaxBits + 2 /\ (i < N => j + W <= MaxBits + 2) /\ W * (i + 1) = j + W
      <2>1. W * (N - 1) \in Nat /\ W * N = W + W * (N - 1)
            BY <1>1
      <2> QED
          BY <1>1, <1>2, <1>3, <1>4, <2>1
<1> HIDE DEF j
<1>6. 2 ^ j \in Nat \ {0} /\ 2 ^ W \in Nat \ {0} /\ 2 ^ 2 <= 2 ^ W
      <2>1. 2 ^ 2 <= 2 ^ W
            BY <1>1, <1>5, PowerLe
      <2> QED
          BY <1>1, <1>5, <2>1, TwoPower
<1>7. i < N => 2 ^ (j + W) = 2 ^ j * 2 ^ W
      BY <1>1, <1>5, PowerSum
<1> QED
    BY <1>2, <1>3, <1>4, <1>5, <1>6, <1>7, SmallPowers DEF Base, j

\* The bases of the limbs divide one another.
LEMMA BaseDown ==
    ASSUME NEW n \in 0..N, NEW i \in 0..(n - 1)
    PROVE  \E q \in Nat \ {0} : Base(n) = Base(i) * (2 ^ W * q)
<1>1. i \in 0..N /\ i + 1 \in 0..N /\ i < N /\ n \in Nat /\ N \in Nat
      BY Sizes
<1>2. Base(i + 1) = Base(i) * 2 ^ W
      BY <1>1, BaseIs
<1>3. PICK q \in Nat \ {0} : Base(n) = Base(i + 1) * q
      <2> DEFINE j == W * (i + 1)
                 k == W * n
      <2>1. j \in Nat /\ k \in Nat /\ k <= MaxBits + 2
            BY <1>1, BaseIs, Sizes
      <2>2. j <= k
            <3>1. n - i - 1 \in Nat
                  BY <1>1
            <3>2. W * (n - i - 1) \in Nat /\ W * n = W * (i + 1) + W * (n - i - 1)
                  BY <1>1, <3>1, Sizes
            <3> QED
                BY <2>1, <3>2
      <2> HIDE DEF j, k
      <2>3. \E q \in Nat \ {0} : 2 ^ k = 2 ^ j * q
            BY <2>1, <2>2, PowerLe
      <2> QED
          BY <2>3 DEF Base, j, k
<1>4. Base(i) \in Nat \ {0} /\ 2 ^ W \in Nat \ {0}
      BY <1>1, BaseIs
<1>5. Base(n) = Base(i) * (2 ^ W * q)
      <2> DEFINE b == Base(i)
                 t == 2 ^ W
      <2>1. b \in Nat /\ t \in Nat /\ Base(n) = (b * t) * q
            BY <1>2, <1>3, <1>4
      <2> HIDE DEF b, t
      <2>2. (b * t) * q = b * (t * q)
            BY <2>1
      <2> QED
          BY <2>1, <2>2 DEF b, t
<1> QED
    BY <1>5

LEMMA PlaceRange ==
    ASSUME NEW u \in Int, NEW i \in 0..N
    PROVE  Place(u, i) \in 0..(2 ^ W - 1) /\ Place(u, i) \in Int /\ u \div Base(i) \in Int
<1> DEFINE b == Base(i)
           t == 2 ^ W
           q == u \div b
<1>1. b \in Nat \ {0} /\ t \in Nat \ {0}
      BY BaseIs
<1>2. q \in Int
      <2> HIDE DEF b
      <2> QED
          BY <1>1, DivMod
<1>3. Place(u, i) = q % t
      BY DEF Place, Base
<1> HIDE DEF b, t, q
<1>4. q % t \in 0..(t - 1) /\ q % t \in Int
      BY <1>1, <1>2, SameResidue
<1> QED
    BY <1>2, <1>3, <1>4 DEF q, t, b

\* The limbs that are kept are those of the number.
LEMMA PlaceDown ==
    ASSUME NEW n \in 0..N, NEW i \in 0..(n - 1), NEW u \in Int, NEW v \in Int, Same(u, v, Base(n))
    PROVE  Place(u, i) = Place(v, i)
<1>1. n \in 0..N /\ i \in 0..N
      BY Sizes
<1>2. PICK q \in Nat \ {0} : Base(n) = Base(i) * (2 ^ W * q)
      BY BaseDown
<1> DEFINE b == Base(i)
           t == 2 ^ W
           m == Base(n)
           e == v \div b
           f == u \div b
<1>3. b \in Nat \ {0} /\ t \in Nat \ {0} /\ m \in Nat \ {0} /\ m = b * (t * q)
      BY <1>1, <1>2, BaseIs
<1>4. PICK k \in Int : u = v + k * m
      <2>1. u % m = v % m
            BY DEF Same
      <2> HIDE DEF m
      <2> QED
          BY <1>3, <2>1, ModDiffer
<1>5. Place(u, i) = f % t /\ Place(v, i) = e % t
      BY DEF Place, Base
<1> HIDE DEF b, t, m
<1>6. f = e + (t * q) * k
      <2>1. u = v + b * ((t * q) * k)
            BY <1>3, <1>4
      <2> DEFINE j == (t * q) * k
      <2>2. j \in Int /\ u = v + b * j
            BY <1>3, <2>1
      <2> HIDE DEF j
      <2>3. u \div b = (v \div b) + j
            BY <1>3, <2>2, DivShift
      <2> QED
          BY <2>3 DEF j
<1>7. e \in Int /\ f \in Int
      BY <1>3, DivMod
<1> HIDE DEF e, f
<1>8. f = e + (q * k) * t /\ q * k \in Int
      BY <1>3, <1>6, <1>7
<1>9. f % t = e % t
      BY <1>3, <1>7, <1>8, ModShift
<1> QED
    BY <1>5, <1>9

\* A number with no limb from t on.
LEMMA NoneAbove ==
    ASSUME NEW n \in 0..N, NEW t \in 0..n, NEW u \in Nat, u < Base(n),
           \A i \in t..(n - 1) : Place(u, i) = 0
    PROVE  u < Base(t)
<1>1. N \in Nat /\ n \in Nat /\ t \in Nat /\ n <= N /\ t <= n
      BY Sizes
<1> DEFINE S == {k \in Nat : k <= n - t => u < Base(n - k)}
<1>2. 0 \in S
      <2>1. n - 0 = n
            BY <1>1
      <2> QED
          BY <2>1
<1>3. ASSUME NEW k \in Nat, k \in S PROVE k + 1 \in S
      <2> SUFFICES ASSUME k + 1 <= n - t PROVE u < Base(n - (k + 1))
          OBVIOUS
      <2> DEFINE i == n - (k + 1)
                 b == Base(i)
                 h == 2 ^ W
                 q == u \div b
      <2>1. i \in 0..N /\ i < N /\ i + 1 = n - k /\ i \in t..(n - 1) /\ k <= n - t
            BY <1>1
      <2>2. u < Base(i + 1)
            BY <1>3, <2>1
      <2> HIDE DEF i
      <2>3. b \in Nat \ {0} /\ h \in Nat \ {0} /\ Base(i + 1) = b * h
            BY <2>1, BaseIs
      <2>4. q % h = 0
            BY <2>1 DEF Place, Base
      <2> HIDE DEF b, h
      <2>5. u < h * b
            BY <2>2, <2>3
      <2>6. q \in Nat /\ q < h
            BY <2>3, <2>5, DivLess
      <2>7. u = b * q + (u % b) /\ u % b \in 0..(b - 1)
            <3>1. u \in Int
                  OBVIOUS
            <3> QED
                BY <2>3, <3>1, DivMod
      <2> HIDE DEF q
      <2>8. q = 0
            <3>1. q = h * 0 + q /\ q \in 0..(h - 1) /\ q \in Int /\ 0 \in Int
                  BY <2>3, <2>6
            <3>2. q % h = q
                  BY ONLY <2>3, <3>1, Residue
            <3> QED
                BY <2>4, <3>2
      <2>9. u < b
            <3> DEFINE r == u % b
            <3>1. u = b * q + r /\ r \in 0..(b - 1)
                  BY <2>7
            <3> HIDE DEF r
            <3> QED
                BY <2>3, <2>8, <3>1
      <2> QED
          BY <2>9 DEF b, i
<1>4. Nat \subseteq S
      <2> HIDE DEF S
      <2> QED
          BY <1>2, <1>3, SimpleInduction
<1>5. n - t \in Nat /\ n - t <= n - t /\ n - (n - t) = t
      BY <1>1
<1> QED
    BY <1>4, <1>5

\* The limbs from t on of a number below the base of t.
LEMMA PlaceAbove ==
    ASSUME NEW t \in 0..N, NEW i \in t..(N - 1), NEW u \in Nat, u < Base(t)
    PROVE  Place(u, i) = 0
<1>1. N \in Nat /\ i \in 0..N /\ t <= i /\ t \in Nat /\ i \in Nat /\ W \in Nat
      BY Sizes
<1> DEFINE b == Base(i)
           h == 2 ^ W
<1>2. b \in Nat \ {0} /\ h \in Nat \ {0} /\ Base(t) \in Nat
      BY <1>1, BaseIs
<1>3. Base(t) <= b
      <2> DEFINE j == W * t
                 k == W * i
      <2>1. j \in Nat /\ k \in Nat /\ k <= MaxBits + 2
            <3>1. W * t \in Nat
                  BY BaseIs
            <3>2. W * i \in Nat /\ W * i <= MaxBits
                  BY <1>1, BaseIs
            <3> QED
                BY <3>1, <3>2, Sizes
      <2>2. j <= k
            <3>1. W * (i - t) \in Nat /\ W * i = W * t + W * (i - t)
                  BY <1>1
            <3> QED
                BY <2>1, <3>1
      <2> HIDE DEF j, k
      <2>3. 2 ^ j <= 2 ^ k
            BY <2>1, <2>2, PowerLe
      <2> QED
          BY <2>3 DEF Base, j, k
<1>4. Place(u, i) = (u \div b) % h
      BY DEF Place, Base
<1> HIDE DEF b, h
<1>5. u = b * 0 + u /\ u \in 0..(b - 1) /\ u \in Int /\ 0 \in Int
      BY <1>2, <1>3
<1>6. u \div b = 0
      BY <1>2, <1>5, Residue
<1>7. 0 = h * 0 + 0 /\ 0 \in 0..(h - 1)
      BY <1>2
<1>8. 0 % h = 0
      BY <1>2, <1>7, Residue
<1> QED
    BY <1>4, <1>6, <1>8

\* The limb the length is found from.
LEMMA TopPlace ==
    ASSUME NEW n \in 1..N, NEW c \in Nat, c < Base(n), c # 0
    PROVE  \E t \in 0..(n - 1) :
               /\ Place(c, t) # 0 /\ \A i \in 0..(n - 1) : Place(c, i) # 0 => i <= t
               /\ c = Base(t) * Place(c, t) + (c % Base(t)) /\ c % Base(t) \in 0..(Base(t) - 1)
<1> DEFINE T == {i \in 0..n : c < Base(i)}
<1>1. N \in Nat /\ n \in Nat /\ n >= 1 /\ n <= N
      BY Sizes
<1>2. n \in T
      BY <1>1
<1>3. PICK s \in T : \A i \in T : s <= i
      <2>1. T \subseteq Nat /\ T # {}
            BY <1>2
      <2> HIDE DEF T
      <2> QED
          BY <2>1, LeastElement
<1>4. s \in 0..n /\ c < Base(s)
      BY <1>3
<1>5. s # 0
      <2> SUFFICES ASSUME s = 0 PROVE FALSE
          OBVIOUS
      <2>1. W * 0 = 0
            BY Sizes
      <2>2. Base(0) = 1
            BY <2>1, SmallPowers DEF Base
      <2> QED
          BY <1>4, <2>2
<1> DEFINE t == s - 1
<1>6. t \in 0..(n - 1) /\ t + 1 = s /\ t \in 0..n /\ t \in 0..N /\ t < N /\ n \in 0..N /\ s \in 0..N /\ ~(s <= t)
      BY <1>1, <1>4, <1>5
<1>7. ~(c < Base(t))
      <2>1. ~(t \in T)
            BY <1>3, <1>6
      <2> QED
          BY <1>6, <2>1
<1> HIDE DEF T, t
<1>8. ASSUME NEW i \in 0..(n - 1), Place(c, i) # 0 PROVE i <= t
      <2> SUFFICES ASSUME ~(i <= t) PROVE FALSE
          OBVIOUS
      <2>1. i \in s..(N - 1)
            BY <1>1, <1>4, <1>6
      <2>2. Place(c, i) = 0
            BY <1>4, <1>6, <2>1, PlaceAbove
      <2> QED
          BY <1>8, <2>2
<1>9. Place(c, t) # 0
      <2>1. PICK i \in t..(n - 1) : Place(c, i) # 0
            BY <1>6, <1>7, NoneAbove
      <2>2. i \in 0..(n - 1)
            BY <1>1, <1>6, <2>1
      <2>3. i <= t
            BY <1>8, <2>1, <2>2
      <2>4. i = t
            BY <1>6, <2>1, <2>2, <2>3
      <2> QED
          BY <2>1, <2>4
<1> DEFINE b == Base(t)
           h == 2 ^ W
           q == c \div b
<1>10. b \in Nat \ {0} /\ h \in Nat \ {0} /\ Base(t + 1) = b * h
       BY <1>6, BaseIs
<1>11. Place(c, t) = q % h
       BY DEF Place, Base
<1> HIDE DEF b, h
<1>12. c < h * b
       BY <1>4, <1>6, <1>10
<1>13. q \in Nat /\ q < h
       BY <1>10, <1>12, DivLess
<1>14. c = b * q + (c % b) /\ c % b \in 0..(b - 1)
       <2>1. c \in Int
             OBVIOUS
       <2> QED
           BY <1>10, <2>1, DivMod
<1> HIDE DEF q
<1>15. q % h = q
       <2>1. q = h * 0 + q /\ q \in 0..(h - 1) /\ q \in Int /\ 0 \in Int
             BY <1>10, <1>13
       <2> QED
           BY ONLY <1>10, <2>1, Residue
<1> QED
    BY <1>6, <1>8, <1>9, <1>11, <1>14, <1>15 DEF b

\* The limbs below t are 0.
LEMMA NoneBelow ==
    ASSUME NEW t \in 0..N, NEW u \in Int
    PROVE  (\A i \in 0..(t - 1) : Place(u, i) = 0) <=> u % Base(t) = 0
<1> DEFINE m == Base(t)
           r == u % m
<1>1. t \in Nat /\ N \in Nat /\ 0 \in 0..t /\ m \in Nat \ {0}
      BY BaseIs, Sizes
<1>2. r \in 0..(m - 1) /\ r \in Int /\ Same(r, u, m)
      <2> HIDE DEF m
      <2> QED
          BY <1>1, SameResidue
<1> HIDE DEF r
<1>3. \A i \in 0..(t - 1) : Place(r, i) = Place(u, i)
      BY <1>2, PlaceDown
<1>4. ASSUME \A i \in 0..(t - 1) : Place(u, i) = 0 PROVE r = 0
      <2>1. r \in Nat /\ r < Base(t)
            <3> HIDE DEF m
            <3>1. r \in Nat /\ r < m
                  BY <1>1, <1>2
            <3> QED
                BY <3>1 DEF m
      <2>2. r < Base(0)
            <3>1. \A i \in 0..(t - 1) : Place(r, i) = 0
                  BY <1>3, <1>4
            <3> QED
                BY <1>1, <2>1, <3>1, NoneAbove
      <2>3. Base(0) = 1
            <3>1. W * 0 = 0
                  BY Sizes
            <3> QED
                BY <3>1, SmallPowers DEF Base
      <2> QED
          BY <2>1, <2>2, <2>3
<1>5. ASSUME r = 0, NEW i \in 0..(t - 1) PROVE Place(u, i) = 0
      <2>1. i \in 0..N /\ i \in 0..(N - 1) /\ i \in i..(N - 1)
            BY <1>1
      <2>2. 0 \in Nat /\ 0 < Base(i)
            <3>1. Base(i) \in Nat \ {0}
                  BY <2>1, BaseIs
            <3> QED
                BY <3>1
      <2>3. Place(0, i) = 0
            BY <2>1, <2>2, PlaceAbove
      <2> QED
          BY <1>3, <1>5, <2>3
<1> QED
    BY <1>4, <1>5 DEF r

\* The limbs of the complement.
LEMMA PlaceFlip ==
    ASSUME NEW n \in 0..N, NEW i \in 0..(n - 1), NEW c \in Int
    PROVE  Place((Base(n) - 1) - c, i) = (2 ^ W - 1) - Place(c, i)
<1>1. i \in 0..N /\ n \in 0..N
      BY Sizes
<1>2. PICK q \in Nat \ {0} : Base(n) = Base(i) * (2 ^ W * q)
      BY BaseDown
<1> DEFINE b == Base(i)
           h == 2 ^ W
           m == Base(n)
           f == c \div b
           r == c % b
           g == f \div h
           l == f % h
           d == (m - 1) - c
<1>3. b \in Nat \ {0} /\ h \in Nat \ {0} /\ m \in Nat \ {0} /\ m = b * (h * q)
      BY <1>1, <1>2, BaseIs
<1>4. Place(c, i) = l /\ Place(d, i) = (d \div b) % h
      BY DEF Place, Base
<1> HIDE DEF b, h, m
<1>5. f \in Int /\ r \in 0..(b - 1) /\ c = b * f + r
      BY <1>3, DivMod
<1>6. g \in Int /\ l \in 0..(h - 1) /\ f = h * g + l
      <2> HIDE DEF f
      <2> QED
          BY <1>3, <1>5, DivMod
<1> HIDE DEF f, r, g, l
<1> DEFINE e == h * (q - g - 1) + (h - 1 - l)
<1>7. e \in Int /\ d \in Int /\ b - 1 - r \in 0..(b - 1)
      BY <1>3, <1>5, <1>6
<1>8. d = b * e + (b - 1 - r)
      <2>1. b * e = b * (h * q) - b * (h * g + l) - b
            BY <1>3, <1>6
      <2> QED
          BY <1>3, <1>5, <1>6, <2>1
<1> HIDE DEF d
<1>9. d \div b = e
      <2> HIDE DEF e
      <2> DEFINE s == b - 1 - r
      <2>1. s \in 0..(b - 1) /\ d = b * e + s
            BY <1>7, <1>8
      <2> HIDE DEF s
      <2> QED
          BY <1>3, <1>7, <2>1, Residue
<1>10. e % h = h - 1 - l
       <2> DEFINE k == q - g - 1
                  s == h - 1 - l
       <2>1. k \in Int /\ s \in 0..(h - 1) /\ e = h * k + s
             BY <1>3, <1>6
       <2> HIDE DEF k, s, e
       <2>2. e % h = s
             BY <1>3, <1>7, <2>1, Residue
       <2> QED
           BY <2>2 DEF s
<1> QED
    BY <1>4, <1>9, <1>10 DEF d, h, m

\* How many limbs a has, and the number whose limbs the code looks at: the
\* complement below 0.
Limbs(a) == Width(a.bits) \div W
Shown(v) == IF v < 0 THEN -v - 1 ELSE v

LEMMA LimbsAre ==
    ASSUME NEW a, NEW v, Holds(a, v)
    PROVE  /\ Limbs(a) \in 1..N /\ Base(Limbs(a)) = Mod(a.bits)
           /\ Shown(v) \in Nat /\ Shown(v) < Base(Limbs(a))
           /\ \A i \in 0..(Limbs(a) - 1) :
                  Limb(a, i) = IF v < 0 THEN (2 ^ W - 1) - Place(Shown(v), i) ELSE Place(Shown(v), i)
<1> DEFINE n == Limbs(a)
           m == Mod(a.bits)
           h == Edge(a.bits)
           c == Shown(v)
<1>1. Num(a) /\ v \in Int /\ Value(a) = v /\ ReadsAs(a, v) /\ a.bits \in 1..MaxBits /\ a.limbs \in Int
      BY NumReads DEF Holds, Num
<1>2. n \in 1..N /\ Width(a.bits) = W * n
      BY <1>1, WidthIs DEF Limbs
<1>3. Base(n) = m
      BY <1>2 DEF Base, Mod
<1>4. m \in Nat \ {0} /\ h \in Nat \ {0} /\ m = 2 * h
      BY <1>1, ModIs
<1>5. -h <= v /\ v < h /\ Active(a) \in 0..(m - 1) /\ Same(a.limbs, Active(a), m)
      /\ Active(a) = IF v < 0 THEN v + m ELSE v
      BY <1>1 DEF ReadsAs
<1> HIDE DEF m, h, n
<1>6. c \in Nat /\ c < m
      BY <1>1, <1>4, <1>5 DEF Shown
<1>7. Active(a) = IF v < 0 THEN (m - 1) - c ELSE c
      BY <1>1, <1>4, <1>5 DEF Shown
<1>8. n \in 0..N
      BY <1>2, Sizes
<1> HIDE DEF c
<1>9. ASSUME NEW i \in 0..(n - 1)
      PROVE  Limb(a, i) = IF v < 0 THEN (2 ^ W - 1) - Place(c, i) ELSE Place(c, i)
      <2>1. Limb(a, i) = Place(a.limbs, i)
            BY DEF Limb, Place
      <2>2. Active(a) \in Int
            BY <1>5
      <2>3. Place(a.limbs, i) = Place(Active(a), i)
            BY <1>1, <1>3, <1>5, <1>8, <2>2, PlaceDown
      <2>4. CASE v < 0
            <3>1. Active(a) = (Base(n) - 1) - c
                  BY <1>3, <1>7, <2>4
            <3>2. Place((Base(n) - 1) - c, i) = (2 ^ W - 1) - Place(c, i)
                  <4>1. c \in Int
                        BY <1>6
                  <4> QED
                      BY <1>8, <4>1, PlaceFlip
            <3> QED
                BY <2>1, <2>3, <2>4, <3>1, <3>2
      <2>5. CASE ~(v < 0)
            BY <1>7, <2>1, <2>3, <2>5
      <2> QED
          BY <2>4, <2>5
<1> QED
    BY <1>2, <1>3, <1>6, <1>9 DEF n, c, m

Fits(d, k) == d < 2 ^ k /\ (k = 0 \/ d >= 2 ^ (k - 1))

LEMMA FitsOnce ==
    ASSUME NEW d \in Nat, NEW k \in 0..(MaxBits + 2), NEW l \in 0..(MaxBits + 2), Fits(d, k), Fits(d, l)
    PROVE  k = l
<1>1. ASSUME NEW i \in 0..(MaxBits + 2), NEW j \in 0..(MaxBits + 2), i < j, Fits(d, i), Fits(d, j) PROVE FALSE
      <2>1. i \in Nat /\ j - 1 \in Nat /\ i <= j - 1 /\ j - 1 <= MaxBits + 2 /\ i <= MaxBits + 2 /\ j # 0
            BY <1>1, Sizes
      <2>2. 2 ^ i <= 2 ^ (j - 1)
            BY <2>1, PowerLe
      <2>3. 2 ^ i \in Nat /\ 2 ^ (j - 1) \in Nat
            BY <2>1, TwoPower
      <2>4. d < 2 ^ i /\ d >= 2 ^ (j - 1)
            BY <1>1, <2>1 DEF Fits
      <2> QED
          BY <2>2, <2>3, <2>4
<1>2. k \in Int /\ l \in Int /\ (k < l \/ l < k \/ k = l)
      BY Sizes
<1> QED
    BY <1>1, <1>2

LEMMA LengthIs ==
    ASSUME NEW d \in 1..(2 ^ W - 1)
    PROVE  Length(d) \in 1..W /\ 2 ^ (Length(d) - 1) <= d /\ d < 2 ^ Length(d)
<1>1. W \in Nat /\ W <= MaxBits /\ MaxBits \in Nat /\ 2 ^ W \in Nat /\ d \in Nat /\ d >= 1 /\ d < 2 ^ W
      <2>1. W \in Nat /\ N \in Nat /\ W * (N - 1) \in Nat /\ W * N = W + W * (N - 1) /\ MaxBits = W * N /\ MaxBits \in Nat
            BY Sizes
      <2>2. W <= MaxBits + 2
            BY <2>1
      <2>3. 2 ^ W \in Nat
            BY <2>1, <2>2, TwoPower
      <2> QED
          BY <2>1, <2>3
<1> DEFINE T == {k \in 0..W : d < 2 ^ k}
<1>2. PICK k \in T : \A i \in T : k <= i
      <2>1. T \subseteq Nat /\ T # {}
            BY <1>1
      <2> HIDE DEF T
      <2> QED
          BY <2>1, LeastElement
<1>3. k \in 0..W /\ d < 2 ^ k
      BY <1>2
<1>4. k # 0
      <2> SUFFICES ASSUME k = 0 PROVE FALSE
          OBVIOUS
      <2>1. 2 ^ k = 1
            BY SmallPowers
      <2> QED
          BY <1>1, <1>3, <2>1
<1>5. d >= 2 ^ (k - 1)
      <2>1. k - 1 \in 0..W /\ ~(k <= k - 1) /\ k - 1 \in Nat /\ k - 1 <= MaxBits + 2
            BY <1>1, <1>3, <1>4
      <2>2. ~(k - 1 \in T)
            BY <1>2, <2>1
      <2>3. ~(d < 2 ^ (k - 1))
            BY <2>1, <2>2
      <2>4. 2 ^ (k - 1) \in Nat
            BY <2>1, TwoPower
      <2> QED
          BY <1>1, <2>3, <2>4
<1> HIDE DEF T
<1> DEFINE l == Length(d)
<1>6. l \in 0..W /\ d < 2 ^ l /\ (l = 0 \/ d >= 2 ^ (l - 1))
      <2>1. \E j \in 0..W : d < 2 ^ j /\ (j = 0 \/ d >= 2 ^ (j - 1))
            BY <1>3, <1>5
      <2> QED
          BY <2>1 DEF Length
<1> HIDE DEF l
<1>7. l # 0
      <2> SUFFICES ASSUME l = 0 PROVE FALSE
          OBVIOUS
      <2>1. 2 ^ l = 1
            BY SmallPowers
      <2> QED
          BY <1>1, <1>6, <2>1
<1>8. l - 1 \in Nat /\ l - 1 <= MaxBits + 2
      BY <1>1, <1>6, <1>7
<1>9. 2 ^ (l - 1) \in Nat
      BY <1>8, TwoPower
<1> QED
    BY <1>1, <1>6, <1>7, <1>9 DEF l

\* The size of a number from its top limb.
LEMMA FitsTop ==
    ASSUME NEW t \in 0..(N - 1), NEW d \in 1..(2 ^ W - 1), NEW r \in 0..(Base(t) - 1),
           NEW u, u = Base(t) * d + r
    PROVE  W * t + Length(d) \in 1..MaxBits /\ Fits(u, W * t + Length(d))
<1> DEFINE l == Length(d)
           j == W * t
           b == Base(t)
<1>1. l \in 1..W /\ 2 ^ (l - 1) <= d /\ d < 2 ^ l
      BY LengthIs
<1>2. j \in Nat /\ j + W <= MaxBits /\ MaxBits \in Nat /\ b \in Nat \ {0} /\ b = 2 ^ j /\ W \in Nat /\ 2 ^ W \in Nat
      <2>1. t \in 0..N /\ t < N
            BY Sizes
      <2> QED
          BY <2>1, BaseIs, Sizes
<1> HIDE DEF l, j, b
<1>3. j + l \in 1..MaxBits /\ l \in Nat /\ l - 1 \in Nat /\ j + l <= MaxBits + 2 /\ j + (l - 1) <= MaxBits + 2
      /\ l <= MaxBits + 2 /\ l - 1 <= MaxBits + 2 /\ (j + l) - 1 = j + (l - 1)
      BY <1>1, <1>2
<1>4. 2 ^ (j + l) = b * 2 ^ l /\ 2 ^ (j + (l - 1)) = b * 2 ^ (l - 1)
      <2>1. 2 ^ (j + l) = 2 ^ j * 2 ^ l
            BY <1>2, <1>3, PowerSum
      <2>2. 2 ^ (j + (l - 1)) = 2 ^ j * 2 ^ (l - 1)
            BY <1>2, <1>3, PowerSum
      <2> QED
          BY <1>2, <2>1, <2>2
<1>5. 2 ^ l \in Nat /\ 2 ^ (l - 1) \in Nat
      BY <1>3, TwoPower
<1> DEFINE p == 2 ^ l
           q == 2 ^ (l - 1)
<1>6. p \in Nat /\ q \in Nat /\ q <= d /\ d < p /\ d \in Nat /\ r \in 0..(b - 1) /\ u = b * d + r
      BY <1>1, <1>2, <1>5 DEF b
<1> HIDE DEF p, q
<1>7. b * q <= u
      <2>1. b * (d - q) \in Nat /\ b * d = b * q + b * (d - q)
            BY <1>2, <1>6
      <2> QED
          BY <1>2, <1>6, <2>1
<1>8. u < b * p
      <2>1. b * (p - d - 1) \in Nat /\ b * p = b * d + b + b * (p - d - 1)
            BY <1>2, <1>6
      <2> QED
          BY <1>2, <1>6, <2>1
<1>9. Fits(u, j + l)
      <2>1. 2 ^ (j + l) = b * p /\ 2 ^ ((j + l) - 1) = b * q
            BY <1>3, <1>4 DEF p, q
      <2>2. b * q \in Nat /\ b * p \in Nat /\ u \in Nat
            BY <1>2, <1>6
      <2> QED
          BY <1>7, <1>8, <2>1, <2>2 DEF Fits
<1> QED
    BY <1>3, <1>9 DEF l, j

\* Whether the limbs below t of a number below 0 are all 0.
LEMMA RestIs ==
    ASSUME NEW a, NEW v, Holds(a, v), v < 0, NEW t \in 0..(Limbs(a) - 1)
    PROVE  (\A i \in 0..(t - 1) : Limb(a, i) = 0) <=> Shown(v) % Base(t) = Base(t) - 1
<1> DEFINE n == Limbs(a)
           b == Base(t)
           m == Base(n)
           c == Shown(v)
           f == c \div b
           r == c % b
<1>1. /\ n \in 1..N /\ m = Mod(a.bits) /\ v \in Int /\ a.limbs \in Int /\ Same(a.limbs, v, Mod(a.bits))
      /\ c \in Nat
      BY LimbsAre, NumReads DEF Holds, ReadsAs, Num
<1>2. t \in 0..N /\ n \in 0..N
      BY <1>1, Sizes
<1>3. b \in Nat \ {0} /\ m \in Nat \ {0}
      BY <1>2, BaseIs
<1>4. (\A i \in 0..(t - 1) : Limb(a, i) = 0) <=> a.limbs % b = 0
      <2>1. \A i \in 0..(t - 1) : Limb(a, i) = Place(a.limbs, i)
            BY DEF Limb, Place
      <2>2. (\A i \in 0..(t - 1) : Place(a.limbs, i) = 0) <=> a.limbs % Base(t) = 0
            BY <1>1, <1>2, NoneBelow
      <2> QED
          BY <2>1, <2>2
<1>5. PICK q \in Nat \ {0} : m = b * (2 ^ W * q)
      BY <1>2, BaseDown
<1>6. a.limbs % b = v % b
      <2> DEFINE k == 2 ^ W * q
      <2>1. k \in Nat \ {0} /\ m = b * k
            <3>1. 2 ^ W \in Nat \ {0}
                  BY <1>2, BaseIs
            <3> QED
                BY <1>5, <3>1
      <2>2. a.limbs % m = v % m
            BY <1>1 DEF Same
      <2> HIDE DEF k, m, b
      <2>3. a.limbs % (b * k) = v % (b * k)
            BY <2>1, <2>2
      <2> QED
          BY <1>1, <1>3, <2>1, <2>3, ModDown
<1>7. c = -v - 1
      BY DEF Shown
<1> HIDE DEF b, c
<1>8. f \in Int /\ r \in 0..(b - 1) /\ c = b * f + r
      <2>1. c \in Int
            BY <1>1
      <2> QED
          BY <1>3, <2>1, DivMod
<1> HIDE DEF f, r
<1>9. v % b = b - 1 - r
      <2> DEFINE k == -f - 1
                 s == b - 1 - r
      <2>1. b * k = -(b * f) - b
            BY <1>3, <1>8
      <2>2. k \in Int /\ s \in 0..(b - 1) /\ v = b * k + s
            BY <1>1, <1>3, <1>7, <1>8, <2>1
      <2> HIDE DEF k, s
      <2>3. v % b = s
            BY <1>1, <1>3, <2>2, Residue
      <2> QED
          BY <2>3 DEF s
<1>10. (b - 1 - r = 0) <=> (r = b - 1)
       BY <1>3, <1>8
<1> QED
    BY <1>4, <1>6, <1>9, <1>10 DEF b, c, r

LEMMA BitSizeFits ==
    ASSUME NEW a, NEW v, Holds(a, v)
    PROVE  BitSize(a) \in 0..(MaxBits + 1) /\ Fits(Magnitude(v), BitSize(a))
<1> DEFINE H == 2 ^ W
           neg == Negative(a)
           sign == IF neg THEN H - 1 ELSE 0
           used == {i \in 0..(N - 1) : i < Width(a.bits) \div W /\ Limb(a, i) # sign}
           top == CHOOSE i \in used : \A j \in used : j <= i
           flip == IF neg THEN sign - Limb(a, top) ELSE Limb(a, top)
           rest == \A i \in 0..(top - 1) : Limb(a, i) = 0
           d == (IF neg /\ rest THEN flip + 1 ELSE flip) % H
           size == BitSize(a)
           n == Limbs(a)
           c == Shown(v)
           u == Magnitude(v)
<1>1. size = IF used = {} THEN IF neg THEN 1 ELSE 0
             ELSE IF d = 0 THEN W * top + W + 1
             ELSE W * top + Length(d)
      BY DEF BitSize
<1>2. /\ n \in 1..N /\ c \in Nat /\ c < Base(n) /\ v \in Int /\ neg \in BOOLEAN /\ (neg <=> v < 0)
      /\ \A i \in 0..(n - 1) : Limb(a, i) = IF v < 0 THEN (H - 1) - Place(c, i) ELSE Place(c, i)
      BY LimbsAre, NumReads DEF Holds, ReadsAs
<1>3. H \in Nat \ {0} /\ MaxBits \in Nat /\ N \in Nat /\ W \in Nat
      <2>1. 0 \in 0..N
            BY Sizes
      <2> QED
          BY <2>1, BaseIs, Sizes
<1>4. u \in Nat /\ u = (IF v < 0 THEN c + 1 ELSE c)
      BY <1>2 DEF Magnitude, Shown
<1> HIDE DEF size
<1>5. used = {i \in 0..(n - 1) : Place(c, i) # 0}
      <2>1. \A i \in 0..(N - 1) : i < Width(a.bits) \div W <=> i \in 0..(n - 1)
            BY <1>2, <1>3 DEF Limbs
      <2>2. \A i \in 0..(n - 1) : i \in 0..(N - 1) /\ i \in 0..N
            BY <1>2, <1>3
      <2>3. ASSUME NEW i \in 0..(n - 1) PROVE Limb(a, i) # sign <=> Place(c, i) # 0
            <3>1. Place(c, i) \in Int
                  <4>1. c \in Int
                        BY <1>2
                  <4> QED
                      BY <2>2, <4>1, PlaceRange
            <3> HIDE DEF H, neg, c
            <3>2. CASE v < 0
                  BY <1>2, <1>3, <3>1, <3>2
            <3>3. CASE ~(v < 0)
                  BY <1>2, <1>3, <3>1, <3>3
            <3> QED
                BY <3>2, <3>3
      <2> HIDE DEF sign, n, c
      <2> QED
          BY <2>1, <2>2, <2>3
<1> HIDE DEF used, neg, n, c, u, H
<1>6. CASE c = 0
      <2>1. used = {}
            <3>1. ASSUME NEW i \in 0..(n - 1) PROVE Place(c, i) = 0
                  <4>1. 0 \in 0..N /\ i \in 0..(N - 1)
                        BY <1>2, <1>3
                  <4>2. Base(0) \in Nat \ {0}
                        BY <4>1, BaseIs
                  <4>3. c < Base(0)
                        BY <1>6, <4>2
                  <4> QED
                      BY <1>2, <4>1, <4>3, PlaceAbove
            <3> QED
                BY <1>5, <3>1
      <2>2. CASE v < 0
            <3>1. size = 1 /\ u = 1
                  BY <1>1, <1>2, <1>4, <1>6, <2>1, <2>2
            <3>2. 1 - 1 = 0
                  OBVIOUS
            <3> QED
                BY <1>3, <3>1, <3>2, SmallPowers DEF Fits, size, u
      <2>3. CASE ~(v < 0)
            <3>1. size = 0 /\ u = 0
                  BY <1>1, <1>2, <1>4, <1>6, <2>1, <2>3
            <3> QED
                BY <1>3, <3>1, SmallPowers DEF Fits, size, u
      <2> QED
          BY <2>2, <2>3
<1>7. CASE c # 0
      <2>1. PICK t \in 0..(n - 1) :
                /\ Place(c, t) # 0 /\ \A i \in 0..(n - 1) : Place(c, i) # 0 => i <= t
                /\ c = Base(t) * Place(c, t) + (c % Base(t)) /\ c % Base(t) \in 0..(Base(t) - 1)
            BY <1>2, <1>7, TopPlace
      <2>2. t \in used /\ \A i \in used : i <= t
            BY <1>5, <2>1
      <2>3. top = t
            <3>1. \A i \in used : i \in Int
                  BY <1>5
            <3>2. \A i \in used : (\A j \in used : j <= i) => i = t
                  BY <2>2, <3>1
            <3> QED
                BY <2>2, <3>2, Zenon
      <2> HIDE DEF top
      <2> DEFINE b == Base(t)
                 f == Place(c, t)
                 r == c % b
      <2>4. f \in 1..(H - 1) /\ b \in Nat \ {0} /\ r \in 0..(b - 1) /\ c = b * f + r
            /\ t \in 0..N /\ t \in 0..(N - 1) /\ t < N /\ t \in Nat
            <3>1. t \in 0..N /\ c \in Int /\ t \in 0..(N - 1)
                  BY <1>2, <1>3
            <3>2. f \in 0..(H - 1)
                  BY <3>1, PlaceRange DEF H
            <3>3. b \in Nat \ {0}
                  BY <3>1, BaseIs
            <3> QED
                BY <1>3, <2>1, <3>1, <3>2, <3>3
      <2>5. flip = f
            <3> HIDE DEF f
            <3>1. CASE v < 0
                  BY <1>2, <1>3, <2>3, <2>4, <3>1 DEF f
            <3>2. CASE ~(v < 0)
                  BY <1>2, <1>3, <2>3, <2>4, <3>2 DEF f
            <3> QED
                BY <3>1, <3>2
      <2>6. v < 0 => (rest <=> r = b - 1)
            <3> SUFFICES ASSUME v < 0 PROVE rest <=> r = b - 1
                OBVIOUS
            <3>1. (\A i \in 0..(t - 1) : Limb(a, i) = 0) <=> Shown(v) % Base(t) = Base(t) - 1
                  BY RestIs DEF n
            <3> QED
                BY <2>3, <3>1 DEF c
      <2> HIDE DEF flip, rest
      <2>7. used # {}
            BY <2>2
      <2> HIDE DEF b, f, r, d
      <2>8. ASSUME NEW g \in 1..(H - 1), d = g, NEW s \in 0..(b - 1), u = b * g + s
            PROVE  size \in 0..(MaxBits + 1) /\ Fits(u, size)
            <3>1. size = W * t + Length(g)
                  <4>1. d # 0
                        BY <1>3, <2>8
                  <4> QED
                      BY <1>1, <2>3, <2>7, <2>8, <4>1
            <3>2. g \in 1..(2 ^ W - 1) /\ s \in 0..(Base(t) - 1) /\ u = Base(t) * g + s
                  BY <2>8 DEF b, H
            <3>3. W * t + Length(g) \in 1..MaxBits /\ Fits(u, W * t + Length(g))
                  BY <2>4, <3>2, FitsTop
            <3> QED
                BY <1>3, <3>1, <3>3
      <2>9. ASSUME NEW g \in 0..(H - 1) PROVE g % H = g
            <3>1. g = H * 0 + g /\ g \in Int /\ 0 \in Int
                  BY <1>3
            <3> QED
                BY <1>3, <3>1, Residue
      <2>10. CASE ~(v < 0)
             <3>1. d = f % H
                   BY <1>2, <2>5, <2>10 DEF d
             <3>2. d = f
                   BY <2>4, <2>9, <3>1
             <3>3. u = b * f + r
                   BY <1>4, <2>4, <2>10
             <3> QED
                 BY <2>4, <2>8, <3>2, <3>3 DEF u, size
      <2>11. CASE v < 0 /\ ~rest
             <3>1. d = f % H
                   BY <1>2, <2>5, <2>11 DEF d
             <3>2. d = f
                   BY <2>4, <2>9, <3>1
             <3>3. r + 1 \in 0..(b - 1) /\ u = b * f + (r + 1)
                   <4>1. r # b - 1
                         BY <2>6, <2>11
                   <4> QED
                       BY <1>4, <2>4, <2>11, <4>1
             <3> QED
                 BY <2>4, <2>8, <3>2, <3>3 DEF u, size
      <2>12. CASE v < 0 /\ rest
             <3>1. d = (f + 1) % H
                   BY <1>2, <2>5, <2>12 DEF d
             <3>2. u = b * (f + 1) + 0
                   <4>1. r = b - 1
                         BY <2>6, <2>12
                   <4> QED
                       BY <1>4, <2>4, <2>12, <4>1
             <3>3. CASE f = H - 1
                   <4>1. d = 0
                         <5>1. H = H * 1 + 0 /\ 0 \in 0..(H - 1)
                               BY <1>3
                         <5>2. H % H = 0
                               BY <1>3, <5>1, Residue
                         <5>3. f + 1 = H
                               BY <1>3, <3>3
                         <5> QED
                             BY <3>1, <5>2, <5>3
                   <4>2. size = W * t + W + 1
                         BY <1>1, <2>3, <2>7, <4>1
                   <4> DEFINE k == W * t + W
                   <4>3. k \in Nat /\ k <= MaxBits /\ 2 ^ k = b * H
                         <5>1. W * t \in Nat /\ W * t + W <= MaxBits
                               BY <2>4, BaseIs
                         <5>2. 2 ^ (W * t + W) = 2 ^ (W * t) * 2 ^ W
                               <6>1. W * t + W <= MaxBits + 2
                                     BY <1>3, <5>1
                               <6> QED
                                   BY <1>3, <5>1, <6>1, PowerSum
                         <5> QED
                             BY <1>3, <5>1, <5>2 DEF b, H, Base
                   <4> HIDE DEF k
                   <4>4. size = k + 1 /\ u = 2 ^ k
                         <5>1. f + 1 = H
                               BY <1>3, <3>3
                         <5>2. b * H + 0 = b * H
                               BY <1>3, <2>4
                         <5> QED
                             BY <3>2, <4>2, <4>3, <5>1, <5>2 DEF k
                   <4>5. 2 ^ (k + 1) = 2 * 2 ^ k /\ 2 ^ k \in Nat \ {0}
                         <5>1. k <= MaxBits + 1 /\ k <= MaxBits + 2
                               BY <1>3, <4>3
                         <5> QED
                             BY <4>3, <5>1, TwoPower
                   <4>6. Fits(u, k + 1)
                         <5>1. (k + 1) - 1 = k
                               BY <4>3
                         <5> QED
                             BY <4>4, <4>5, <5>1 DEF Fits
                   <4> QED
                       BY <1>3, <4>3, <4>4, <4>6 DEF u, size
             <3>4. CASE f # H - 1
                   <4>1. f + 1 \in 1..(H - 1) /\ f + 1 \in 0..(H - 1) /\ 0 \in 0..(b - 1)
                         BY <1>3, <2>4, <3>4
                   <4>2. d = f + 1
                         BY <2>9, <3>1, <4>1
                   <4> QED
                       BY <2>8, <3>2, <4>1, <4>2 DEF u, size
             <3> QED
                 BY <3>3, <3>4
      <2> QED
          BY <2>10, <2>11, <2>12
<1> QED
    BY <1>6, <1>7

\* The length is that of the integer, and within the bound.
LEMMA BitSizeRight ==
    ASSUME NEW a, NEW v, Holds(a, v)
    PROVE  BitSize(a) = CHOOSE k \in 0..MaxBits : Magnitude(v) < 2 ^ k /\ (k = 0 \/ Magnitude(v) >= 2 ^ (k - 1))
<1> DEFINE s == BitSize(a)
           u == Magnitude(v)
           b == a.bits
<1>1. s \in 0..(MaxBits + 1) /\ Fits(u, s)
      BY BitSizeFits
<1>2. u \in Nat /\ b \in 1..MaxBits /\ u < 2 ^ (b - 1) /\ MaxBits \in Nat
      BY Sizes DEF Holds, Num, Magnitude
<1> HIDE DEF s, u, b
<1>3. s \in 0..MaxBits
      <2> SUFFICES ASSUME s = MaxBits + 1 PROVE FALSE
          BY <1>1, <1>2
      <2>1. s - 1 = MaxBits /\ s # 0 /\ b - 1 \in Nat /\ b - 1 <= MaxBits /\ MaxBits <= MaxBits + 2 /\ b - 1 <= MaxBits + 2
            BY <1>2
      <2>2. u >= 2 ^ MaxBits
            BY <1>1, <2>1 DEF Fits
      <2>3. 2 ^ (b - 1) <= 2 ^ MaxBits
            BY <1>2, <2>1, PowerLe
      <2>4. 2 ^ (b - 1) \in Nat /\ 2 ^ MaxBits \in Nat
            BY <1>2, <2>1, TwoPower
      <2> QED
          BY <1>2, <2>2, <2>3, <2>4
<1>4. \A k \in 0..MaxBits : Fits(u, k) => k = s
      <2> SUFFICES ASSUME NEW k \in 0..MaxBits, Fits(u, k) PROVE k = s
          OBVIOUS
      <2>1. k \in 0..(MaxBits + 2) /\ s \in 0..(MaxBits + 2)
            BY <1>1, <1>2
      <2> QED
          BY <1>1, <1>2, <2>1, FitsOnce
<1>5. s = CHOOSE k \in 0..MaxBits : Fits(u, k)
      BY <1>1, <1>3, <1>4, Zenon
<1> QED
    BY <1>5 DEF Fits, s, u

---------------------------------------------------------------------------
(* Sequences of operations: the result stands for what it ought to, and    *)
(* both operands stay strictly within their bounds.                        *)

OpsInv == Holds(x, want) /\ Holds(y, Value(y))

LEMMA HoldsOwn ==
    ASSUME NEW a, NEW v, Holds(a, v)
    PROVE  Value(a) = v /\ Holds(a, Value(a)) /\ v \in Int
BY Zenon DEF Holds

LEMMA OpsStarts == OpsInit => OpsInv
<1> SUFFICES ASSUME OpsInit PROVE OpsInv
    OBVIOUS
<1>1. PICK first \in Values, second \in Values :
          x = Fresh(first[1], first[2]) /\ want = first[1] /\ y = Fresh(second[1], second[2])
      BY DEF OpsInit
<1>2. ASSUME NEW p \in Values PROVE Holds(Fresh(p[1], p[2]), p[1])
      <2>1. p \in Int \X (1..MaxBits) /\ Magnitude(p[1]) < 2 ^ (p[2] - 1)
            BY ValuesAssumption
      <2>2. p[1] \in Int /\ p[2] \in 1..MaxBits
            BY <2>1
      <2> QED
          BY <2>1, <2>2, FreshIs
<1> QED
    BY <1>1, <1>2, HoldsOwn DEF OpsInv

\* A step that gives a result keeps the other operand.
LEMMA GiveKeeps ==
    ASSUME OpsInv, NEW r, NEW v, Holds(r, v), Give(r, v)
    PROVE  OpsInv'
<1>1. x' = r /\ want' = v /\ y' = y
      BY DEF Give
<1>2. Holds(x, want)' /\ Holds(y, Value(y))'
      BY <1>1 DEF OpsInv, Holds, Num, Value, Active, Negative, Modulus, Width, Magnitude
<1> QED
    BY <1>2 DEF OpsInv

LEMMA OpsKept == OpsInv /\ [OpsNext]_ivars => OpsInv'
<1> SUFFICES ASSUME OpsInv, [OpsNext]_ivars PROVE OpsInv'
    OBVIOUS
<1> DEFINE v == Value(x)
           w == Value(y)
<1>1. Holds(x, v) /\ Holds(y, w) /\ v \in Int /\ w \in Int
      BY HoldsOwn DEF OpsInv
<1>2. ReadsAs(x, v) /\ ReadsAs(y, w) /\ x.bits \in 1..MaxBits /\ y.bits \in 1..MaxBits
      BY <1>1, NumReads DEF Holds, Num
<1>3. Negative(x) \in BOOLEAN /\ Negative(y) \in BOOLEAN /\ (Negative(x) <=> v < 0)
      BY <1>2 DEF ReadsAs
<1>4. MaxBits \in Nat
      BY Sizes
<1>5. CASE AddOp
      <2>1. Holds(Sum(x, y), v + w) /\ Holds(Difference(x, y), v - w)
            BY <1>1, <1>5, SumsHold DEF AddOp
      <2> QED
          BY <1>5, <2>1, GiveKeeps DEF AddOp
<1>6. CASE MulOp
      <2>1. Holds(Product(x, y), v * w)
            BY <1>1, <1>6, ProductHolds DEF MulOp
      <2> QED
          BY <1>6, <2>1, GiveKeeps DEF MulOp
<1>7. CASE NegOp
      <2>1. Holds(CNeg(x, TRUE), -v)
            <3>1. Holds(CNeg(x, TRUE), Signs(TRUE, v))
                  BY <1>1, CNegHolds
            <3> QED
                BY <3>1 DEF Signs
      <2>2. Holds(Abs(x), Magnitude(v))
            <3>1. Holds(CNeg(x, Negative(x)), Signs(Negative(x), v))
                  BY <1>1, <1>3, CNegHolds
            <3>2. Signs(Negative(x), v) = Magnitude(v)
                  BY <1>3, Zenon DEF Signs, Magnitude
            <3> QED
                BY <3>1, <3>2 DEF Abs
      <2> QED
          BY <1>7, <2>1, <2>2, GiveKeeps DEF NegOp
<1>8. CASE ShiftOp
      <2>1. PICK e \in 0..MaxBits :
                \/ Floors(x, e) /\ Give(DivPow2(x, e), v \div 2 ^ e)
                \/ x.bits + e <= MaxBits /\ Give(MulPow2(x, e), v * 2 ^ e)
            BY <1>8 DEF ShiftOp
      <2>2. CASE Floors(x, e) /\ Give(DivPow2(x, e), v \div 2 ^ e)
            <3>1. Holds(DivPow2(x, e), v \div 2 ^ e)
                  BY <1>1, <2>2, DivPow2Holds
            <3> QED
                BY <2>2, <3>1, GiveKeeps
      <2>3. CASE x.bits + e <= MaxBits /\ Give(MulPow2(x, e), v * 2 ^ e)
            <3>1. e \in Nat
                  BY <1>4
            <3>2. Holds(MulPow2(x, e), v * 2 ^ e)
                  BY <1>1, <2>3, <3>1, MulPow2Holds
            <3> QED
                BY <2>3, <3>2, GiveKeeps
      <2> QED
          BY <2>1, <2>2, <2>3
<1>9. CASE ModPow2Op
      <2>1. PICK e \in 0..(MaxBits - 1) : Give(ModPow2(x, e), v % 2 ^ e)
            BY <1>9 DEF ModPow2Op
      <2>2. Holds(ModPow2(x, e), v % 2 ^ e)
            BY <1>1, ModPow2Holds DEF Holds
      <2> QED
          BY <2>1, <2>2, GiveKeeps
<1>10. CASE SetBoundOp
       <2>1. PICK b \in 0..MaxBits :
                 /\ Magnitude(Wrapped(v, Greatest(b, 1))) < 2 ^ (Greatest(b, 1) - 1)
                 /\ Give(SetBound(x, b), IF b > x.bits THEN v ELSE Wrapped(v, Greatest(b, 1)))
             BY <1>10 DEF SetBoundOp
       <2>2. Holds(SetBound(x, b), IF b > x.bits THEN v ELSE Wrapped(v, Greatest(b, 1)))
             BY <1>1, <2>1, SetBoundHolds
       <2> QED
           BY <2>1, <2>2, GiveKeeps
<1>11. CASE SmallOp
       <2>1. PICK k \in {-3, 2}, b \in 1..MaxBits :
                 Magnitude(k * v) < 2 ^ (b - 1) /\ Give(TimesSmall(x, k, b), k * v)
             BY <1>11 DEF SmallOp
       <2>2. k \in Int
             OBVIOUS
       <2>3. Holds(TimesSmall(x, k, b), k * v)
             BY <1>1, <2>1, <2>2, TimesSmallHolds
       <2> QED
           BY <2>1, <2>3, GiveKeeps
<1>12. CASE DivOp
       <2>1. w # 0
             BY <1>12 DEF DivOp
       <2>2. /\ Holds(Quotient(x, y), Signs(Negative(x) # Negative(y), Magnitude(v) \div Magnitude(w)))
             /\ Holds(Remainder(x, y), Signs(Negative(x), Magnitude(v) % Magnitude(w)))
             BY <1>1, <2>1, DivisionsHold
       <2>3. y.bits < MaxBits => Holds(Modulo(x, y), v % Magnitude(w))
             BY <1>1, <2>1, ModuloHolds
       <2> QED
           BY <1>12, <2>2, <2>3, GiveKeeps DEF DivOp
<1>13. CASE InvOp
       <2>1. PICK e \in 1..(MaxBits - 1) :
                 Give(InvPow2(x, e), CHOOSE z \in 0..(2 ^ e - 1) : (z * v) % 2 ^ e = 1 % 2 ^ e)
             BY <1>13 DEF InvOp
       <2>2. v % 2 = 1
             BY <1>13 DEF InvOp
       <2>3. Holds(InvPow2(x, e), CHOOSE z \in 0..(2 ^ e - 1) : (z * v) % 2 ^ e = 1 % 2 ^ e)
             BY <1>1, <2>2, InverseHolds
       <2> QED
           BY <2>1, <2>3, GiveKeeps
<1>14. CASE Exchange
       <2>1. x' = y /\ y' = x /\ want' = w
             BY <1>14 DEF Exchange
       <2>2. Holds(x, want)' /\ Holds(y, Value(y))'
             BY <1>1, <2>1 DEF Holds, Num, Value, Active, Negative, Modulus, Width, Magnitude
       <2> QED
           BY <2>2 DEF OpsInv
<1>15. CASE UNCHANGED ivars
       BY <1>15 DEF ivars, OpsInv, Holds, Num, Value, Active, Negative, Modulus, Width, Magnitude
<1> QED
    BY <1>5, <1>6, <1>7, <1>8, <1>9, <1>10, <1>11, <1>12, <1>13, <1>14, <1>15 DEF OpsNext

\* For every width and number of limbs and any operands: after any sequence
\* of operations the active limbs stand for the integer they ought to,
\* strictly within the bound, and the length found from them is its own.
THEOREM IntegersExact == OpsSpec => []Exact
<1>1. OpsInv => Exact
      <2> SUFFICES ASSUME OpsInv PROVE Exact
          OBVIOUS
      <2>1. Value(x) = want /\ Magnitude(want) < 2 ^ (x.bits - 1)
            BY DEF OpsInv, Holds
      <2>2. BitSize(x) = CHOOSE k \in 0..MaxBits : Magnitude(want) < 2 ^ k /\ (k = 0 \/ Magnitude(want) >= 2 ^ (k - 1))
            BY BitSizeRight DEF OpsInv
      <2> QED
          BY <2>1, <2>2, Zenon DEF Exact
<1> QED
    BY <1>1, OpsStarts, OpsKept, PTL DEF OpsSpec

---------------------------------------------------------------------------
(* Division: powers of the base, and what the limbs of a number are.       *)

LEMMA TwoTo ==
    ASSUME NEW k \in 0..DigitBits
    PROVE  2 ^ k \in Nat \ {0} /\ (k < DigitBits => 2 ^ (k + 1) = 2 * 2 ^ k)
<1>1. DigitBits \in Nat \ {0}
      BY DivisionAssumption
<1> DEFINE S == {i \in Nat : i <= DigitBits => 2 ^ i \in Nat \ {0}}
<1>2. 0 \in S
      BY DivisionPowers
<1>3. ASSUME NEW i \in Nat, i \in S PROVE i + 1 \in S
      <2> SUFFICES ASSUME i + 1 <= DigitBits PROVE 2 ^ (i + 1) \in Nat \ {0}
          OBVIOUS
      <2>1. i \in 0..(DigitBits - 1) /\ 2 ^ i \in Nat \ {0}
            BY <1>1, <1>3
      <2>2. 2 ^ (i + 1) = 2 * 2 ^ i
            BY <2>1, DivisionPowers
      <2> QED
          BY <2>1, <2>2
<1>4. Nat \subseteq S
      <2> HIDE DEF S
      <2> QED
          BY <1>2, <1>3, SimpleInduction
<1>5. k < DigitBits => 2 ^ (k + 1) = 2 * 2 ^ k
      BY <1>1, DivisionPowers
<1> QED
    BY <1>1, <1>4, <1>5

LEMMA TwoToSum ==
    ASSUME NEW i \in Nat, NEW j \in Nat, i + j <= DigitBits
    PROVE  2 ^ (i + j) = 2 ^ i * 2 ^ j
<1>1. DigitBits \in Nat \ {0}
      BY DivisionAssumption
<1> DEFINE S == {m \in Nat : i + m <= DigitBits => 2 ^ (i + m) = 2 ^ i * 2 ^ m}
<1>2. 0 \in S
      <2>1. i \in 0..DigitBits /\ i + 0 = i
            BY <1>1
      <2>2. 2 ^ i \in Nat \ {0} /\ 2 ^ 0 = 1
            BY <2>1, TwoTo, DivisionPowers
      <2> QED
          BY <2>1, <2>2
<1>3. ASSUME NEW m \in Nat, m \in S PROVE m + 1 \in S
      <2> SUFFICES ASSUME i + (m + 1) <= DigitBits PROVE 2 ^ (i + (m + 1)) = 2 ^ i * 2 ^ (m + 1)
          OBVIOUS
      <2>1. i + m \in 0..DigitBits /\ i + m < DigitBits /\ m \in 0..DigitBits /\ m < DigitBits /\ i \in 0..DigitBits
            BY <1>1
      <2>2. 2 ^ (i + m) = 2 ^ i * 2 ^ m
            BY <1>3, <2>1
      <2>3. 2 ^ ((i + m) + 1) = 2 * 2 ^ (i + m) /\ 2 ^ (m + 1) = 2 * 2 ^ m
            BY <2>1, TwoTo
      <2>4. 2 ^ i \in Nat /\ 2 ^ m \in Nat
            BY <2>1, TwoTo
      <2>5. i + (m + 1) = (i + m) + 1
            OBVIOUS
      <2> QED
          BY <2>2, <2>3, <2>4, <2>5
<1>4. Nat \subseteq S
      <2> HIDE DEF S
      <2> QED
          BY <1>2, <1>3, SimpleInduction
<1> QED
    BY <1>1, <1>4

\* A base is even and at least 2.
LEMMA BaseEven == B \in Nat /\ B >= 2 /\ \E c \in Nat : B = 2 * c
<1>1. DigitBits - 1 \in 0..DigitBits /\ DigitBits - 1 < DigitBits /\ (DigitBits - 1) + 1 = DigitBits
      BY DivisionAssumption
<1>2. 2 ^ (DigitBits - 1) \in Nat \ {0}
      BY <1>1, TwoTo
<1>3. 2 ^ ((DigitBits - 1) + 1) = 2 * 2 ^ (DigitBits - 1)
      BY <1>1, TwoTo
<1> QED
    BY <1>1, <1>2, <1>3 DEF B

LEMMA BaseTo ==
    ASSUME NEW k \in 0..(2 * MaxLimbs + 1)
    PROVE  B ^ k \in Nat \ {0} /\ (k <= 2 * MaxLimbs => B ^ (k + 1) = B * B ^ k)
<1>1. MaxLimbs \in Nat \ {0} /\ B \in Nat /\ B >= 2
      BY DivisionAssumption, BaseEven
<1> DEFINE S == {i \in Nat : i <= 2 * MaxLimbs + 1 => B ^ i \in Nat \ {0}}
<1>2. 0 \in S
      BY DivisionPowers
<1>3. ASSUME NEW i \in Nat, i \in S PROVE i + 1 \in S
      <2> SUFFICES ASSUME i + 1 <= 2 * MaxLimbs + 1 PROVE B ^ (i + 1) \in Nat \ {0}
          OBVIOUS
      <2>1. i \in 0..(2 * MaxLimbs) /\ B ^ i \in Nat \ {0}
            BY <1>1, <1>3
      <2>2. B ^ (i + 1) = B * B ^ i
            BY <2>1, DivisionPowers
      <2>3. B * B ^ i \in Nat \ {0}
            BY <1>1, <2>1
      <2> QED
          BY <2>2, <2>3
<1>4. Nat \subseteq S
      <2> HIDE DEF S
      <2> QED
          BY <1>2, <1>3, SimpleInduction
<1>5. k <= 2 * MaxLimbs => B ^ (k + 1) = B * B ^ k
      BY <1>1, DivisionPowers
<1> QED
    BY <1>1, <1>4, <1>5

LEMMA BaseToSum ==
    ASSUME NEW i \in Nat, NEW j \in Nat, i + j <= 2 * MaxLimbs + 1
    PROVE  /\ B ^ i \in Nat \ {0} /\ B ^ j \in Nat \ {0}
           /\ B ^ (i + j) = B ^ i * B ^ j
<1>1. MaxLimbs \in Nat \ {0} /\ B \in Nat /\ B >= 2
      BY DivisionAssumption, BaseEven
<1>0. B ^ i \in Nat \ {0} /\ B ^ j \in Nat \ {0}
      BY <1>1, BaseTo
<1> DEFINE S == {m \in Nat : i + m <= 2 * MaxLimbs + 1 => B ^ (i + m) = B ^ i * B ^ m}
<1>2. 0 \in S
      <2>1. i + 0 = i /\ B ^ 0 = 1
            BY DivisionPowers
      <2> QED
          BY <1>0, <2>1
<1>3. ASSUME NEW m \in Nat, m \in S PROVE m + 1 \in S
      <2> SUFFICES ASSUME i + (m + 1) <= 2 * MaxLimbs + 1 PROVE B ^ (i + (m + 1)) = B ^ i * B ^ (m + 1)
          OBVIOUS
      <2>1. /\ i + m \in 0..(2 * MaxLimbs + 1) /\ i + m <= 2 * MaxLimbs
            /\ m \in 0..(2 * MaxLimbs + 1) /\ m <= 2 * MaxLimbs
            BY <1>1
      <2>2. B ^ (i + m) = B ^ i * B ^ m
            BY <1>3, <2>1
      <2>3. B ^ ((i + m) + 1) = B * B ^ (i + m) /\ B ^ (m + 1) = B * B ^ m
            BY <2>1, BaseTo
      <2>4. B ^ m \in Nat
            BY <2>1, BaseTo
      <2>5. i + (m + 1) = (i + m) + 1
            OBVIOUS
      <2>6. B * (B ^ i * B ^ m) = B ^ i * (B * B ^ m)
            BY <1>0, <1>1, <2>4
      <2> QED
          BY <2>2, <2>3, <2>5, <2>6
<1>4. Nat \subseteq S
      <2> HIDE DEF S
      <2> QED
          BY <1>2, <1>3, SimpleInduction
<1> QED
    BY <1>0, <1>1, <1>4

\* Remainder and quotient by a product.
LEMMA DivTwice ==
    ASSUME NEW a \in Nat, NEW p \in Nat \ {0}, NEW q \in Nat \ {0}
    PROVE  /\ a \div (p * q) = (a \div p) \div q
           /\ a % (p * q) = ((a \div p) % q) * p + (a % p)
<1> DEFINE c == a \div p
           r == a % p
           d == c \div q
           s == c % q
<1>1. a = p * c + r /\ r \in 0..(p - 1) /\ c \in Int
      BY DivMod
<1>2. c = q * d + s /\ s \in 0..(q - 1) /\ d \in Int
      BY <1>1, DivMod
<1> HIDE DEF c, r, d, s
<1>3. a = (p * q) * d + (s * p + r)
      <2>1. p * c = p * (q * d) + p * s
            BY <1>1, <1>2
      <2>2. p * (q * d) = (p * q) * d /\ p * s = s * p
            BY <1>2
      <2> QED
          BY <1>1, <1>2, <2>1, <2>2
<1>4. s * p + r \in 0..(p * q - 1) /\ p * q \in Nat \ {0}
      <2>1. s * p \in Nat /\ s <= q - 1
            BY <1>2
      <2>2. s * p <= (q - 1) * p
            BY <1>2
      <2>3. (q - 1) * p = p * q - p
            OBVIOUS
      <2>4. p * q \in Nat \ {0}
            OBVIOUS
      <2> QED
          BY <1>1, <2>1, <2>2, <2>3, <2>4
<1> DEFINE m == p * q
           t == s * p + r
<1>5. m \in Nat \ {0} /\ t \in 0..(m - 1) /\ a \in Int /\ d \in Int /\ a = m * d + t
      BY <1>2, <1>3, <1>4
<1> HIDE DEF m, t
<1>6. a % m = t /\ a \div m = d
      BY ONLY <1>5, Residue
<1> QED
    BY ONLY <1>6, Zenon DEF m, t, c, r, d, s

\* A quotient below a bound.
LEMMA DivBelow ==
    ASSUME NEW a \in Nat, NEW p \in Nat \ {0}, NEW c \in Nat, a < c * p
    PROVE  a \div p \in 0..(c - 1) /\ a % p \in 0..(p - 1) /\ a = p * (a \div p) + (a % p)
<1> DEFINE q == a \div p
           r == a % p
<1>1. a = p * q + r /\ r \in 0..(p - 1) /\ q \in Int
      BY DivMod
<1> HIDE DEF q, r
<1>2. q < c
      <2> SUFFICES ASSUME q >= c PROVE FALSE
          BY <1>1
      <2>1. p * q >= p * c
            BY <1>1
      <2> QED
          BY <1>1, <2>1
<1>3. q >= 0
      <2> SUFFICES ASSUME q <= -1 PROVE FALSE
          BY <1>1
      <2>1. p * q <= p * (-1)
            BY <1>1
      <2> QED
          BY <1>1, <2>1
<1>4. q \in 0..(c - 1)
      BY <1>1, <1>2, <1>3
<1> QED
    BY ONLY <1>1, <1>4, Zenon DEF q, r

LEMMA ModSmall ==
    ASSUME NEW m \in Nat \ {0}, NEW a \in 0..(m - 1)
    PROVE  a % m = a
<1>1. a = m * 0 + a /\ a \in Int /\ 0 \in Int
      OBVIOUS
<1> QED
    BY <1>1, Residue

\* What a division is for.
Euclid(r, a, b) == r \in Nat \X Nat /\ a = r[1] * b + r[2] /\ r[2] < b

LEMMA EuclidIs ==
    ASSUME NEW a \in Nat, NEW b \in Nat \ {0}, NEW r, Euclid(r, a, b)
    PROVE  r = <<a \div b, a % b>>
<1>0. r \in Nat \X Nat /\ a = r[1] * b + r[2] /\ r[2] < b
      BY DEF Euclid
<1>4. r = <<r[1], r[2]>> /\ r[1] \in Nat /\ r[2] \in Nat
      BY <1>0
<1>1. r[1] \in Nat /\ r[2] \in 0..(b - 1) /\ a = b * r[1] + r[2]
      BY <1>0, <1>4
<1> DEFINE q == r[1]
           t == r[2]
<1>2. a \in Int /\ b \in Nat \ {0} /\ q \in Int /\ t \in 0..(b - 1) /\ a = b * q + t
      BY <1>1
<1> HIDE DEF q, t
<1>3. a % b = t /\ a \div b = q
      BY ONLY <1>2, Residue
<1> QED
    BY ONLY <1>3, <1>4, Zenon DEF q, t

Trims(v, n) == v < B ^ n /\ (n = 1 \/ v >= B ^ (n - 1))

LEMMA TrimIs ==
    ASSUME NEW v \in Nat, v < B ^ MaxLimbs
    PROVE  TrimLen(v) \in 1..MaxLimbs /\ Trims(v, TrimLen(v))
<1> DEFINE T == {n \in 1..MaxLimbs : v < B ^ n}
<1>1. MaxLimbs \in Nat \ {0}
      BY DivisionAssumption
<1>2. T \subseteq Nat /\ T # {} /\ \A n \in T : n \in 1..MaxLimbs /\ v < B ^ n
      BY <1>1
<1>3. \A n \in 1..MaxLimbs : v < B ^ n => n \in T
      OBVIOUS
<1> HIDE DEF T
<1>4. PICK n \in T : \A m \in T : n <= m
      BY <1>2, LeastElement
<1>5. n \in 1..MaxLimbs /\ v < B ^ n
      BY <1>2, <1>4
<1>6. n = 1 \/ v >= B ^ (n - 1)
      <2> SUFFICES ASSUME n # 1, ~(v >= B ^ (n - 1)) PROVE FALSE
          OBVIOUS
      <2>1. n - 1 \in 1..MaxLimbs /\ ~(n <= n - 1) /\ n - 1 \in 0..(2 * MaxLimbs + 1)
            BY <1>1, <1>5
      <2>2. v < B ^ (n - 1)
            BY <2>1, BaseTo
      <2> QED
          BY <1>3, <1>4, <2>1, <2>2
<1>7. \E m \in 1..MaxLimbs : v < B ^ m /\ (m = 1 \/ v >= B ^ (m - 1))
      BY <1>5, <1>6
<1> DEFINE l == CHOOSE m \in 1..MaxLimbs : v < B ^ m /\ (m = 1 \/ v >= B ^ (m - 1))
<1>8. l \in 1..MaxLimbs /\ v < B ^ l /\ (l = 1 \/ v >= B ^ (l - 1))
      BY <1>7, Zenon
<1> QED
    BY <1>8, Zenon DEF TrimLen, Trims

LEMMA ZerosAre ==
    ASSUME NEW d \in 1..(B - 1)
    PROVE  /\ LeadingZeros(d) \in 0..DigitBits
           /\ d * 2 ^ LeadingZeros(d) < B /\ 2 * (d * 2 ^ LeadingZeros(d)) >= B
<1> DEFINE T == {s \in 0..DigitBits : 2 * (d * 2 ^ s) >= B}
<1>1. DigitBits \in Nat \ {0} /\ B \in Nat /\ B >= 2
      BY DivisionAssumption, BaseEven
<1>2. T \subseteq Nat /\ \A s \in T : s \in 0..DigitBits /\ 2 * (d * 2 ^ s) >= B
      BY <1>1
<1>3. \A s \in 0..DigitBits : 2 * (d * 2 ^ s) >= B => s \in T
      OBVIOUS
<1>4. DigitBits \in T
      <2>1. d \in Nat /\ 2 ^ DigitBits = B /\ d >= 1
            BY <1>1 DEF B
      <2>2. d * B >= B
            <3>1. (d - 1) * B \in Nat /\ d * B = B + (d - 1) * B
                  BY <1>1, <2>1
            <3> QED
                BY <1>1, <3>1
      <2>3. d * B \in Nat
            BY <1>1, <2>1
      <2>4. 2 * (d * 2 ^ DigitBits) >= B
            BY <1>1, <2>1, <2>2, <2>3
      <2>5. DigitBits \in 0..DigitBits
            BY <1>1
      <2> QED
          BY <2>4, <2>5
<1> HIDE DEF T
<1>5. PICK s \in T : \A m \in T : s <= m
      BY <1>2, <1>4, LeastElement
<1>6. s \in 0..DigitBits /\ 2 * (d * 2 ^ s) >= B
      BY <1>2, <1>5
<1>7. d * 2 ^ s < B
      <2>1. CASE s = 0
            <3>1. 2 ^ s = 1
                  BY <2>1, DivisionPowers
            <3> QED
                BY <1>1, <3>1
      <2>2. CASE s # 0
            <3>1. s - 1 \in 0..DigitBits /\ s - 1 < DigitBits /\ (s - 1) + 1 = s /\ ~(s <= s - 1)
                  BY <1>1, <1>6, <2>2
            <3>2. 2 ^ (s - 1) \in Nat /\ 2 ^ ((s - 1) + 1) = 2 * 2 ^ (s - 1)
                  BY <3>1, TwoTo
            <3>3. ~(2 * (d * 2 ^ (s - 1)) >= B)
                  BY <1>3, <1>5, <3>1
            <3>4. d * 2 ^ s = 2 * (d * 2 ^ (s - 1))
                  BY <3>1, <3>2
            <3>5. d * 2 ^ (s - 1) \in Nat
                  BY <3>2
            <3> QED
                BY <1>1, <3>3, <3>4, <3>5
      <2> QED
          BY <2>1, <2>2
<1>8. \A m \in 0..DigitBits : 2 * d * 2 ^ m = 2 * (d * 2 ^ m)
      <2> TAKE m \in 0..DigitBits
      <2>1. 2 ^ m \in Nat
            BY TwoTo
      <2> QED
          BY <2>1
<1>9. \E m \in 0..DigitBits : d * 2 ^ m < B /\ (2 * d * 2 ^ m >= B)
      BY <1>6, <1>7, <1>8
<1> DEFINE l == CHOOSE m \in 0..DigitBits : d * 2 ^ m < B /\ (2 * d * 2 ^ m >= B)
<1>10. l \in 0..DigitBits /\ d * 2 ^ l < B /\ (2 * d * 2 ^ l >= B)
       BY <1>9, Zenon
<1>11. l = LeadingZeros(d)
       BY Zenon DEF LeadingZeros
<1> HIDE DEF l
<1>12. 2 * (d * 2 ^ l) >= B
       BY <1>8, <1>10
<1> QED
    BY <1>10, <1>11, <1>12

\* Of a number of n limbs, the top one, and the leading zeros of that one.
Tall(v, n) == v \in Nat /\ v < B ^ n /\ B ^ n <= B * v

LEMMA TopDigit ==
    ASSUME NEW n \in 1..MaxLimbs, NEW v, Tall(v, n)
    PROVE  /\ B ^ (n - 1) \in Nat \ {0} /\ B ^ n = B * B ^ (n - 1) /\ B ^ (n - 1) <= v
           /\ Digit(v, n - 1) = v \div B ^ (n - 1)
           /\ Digit(v, n - 1) \in 1..(B - 1)
           /\ v % B ^ (n - 1) \in 0..(B ^ (n - 1) - 1)
           /\ v = B ^ (n - 1) * Digit(v, n - 1) + (v % B ^ (n - 1))
<1>1. MaxLimbs \in Nat \ {0} /\ B \in Nat /\ B >= 2 /\ v \in Nat
      BY DivisionAssumption, BaseEven DEF Tall
<1>2. n - 1 \in 0..(2 * MaxLimbs + 1) /\ n - 1 <= 2 * MaxLimbs /\ (n - 1) + 1 = n
      BY <1>1
<1>3. B ^ (n - 1) \in Nat \ {0} /\ B ^ ((n - 1) + 1) = B * B ^ (n - 1)
      BY <1>2, BaseTo
<1>4. B ^ n = B * B ^ (n - 1)
      BY <1>2, <1>3
<1> DEFINE E == B ^ (n - 1)
           q == v \div E
<1>5. E \in Nat \ {0} /\ v < B * E /\ B * E <= B * v
      BY <1>3, <1>4 DEF Tall
<1> HIDE DEF E
<1>6. E <= v
      <2> SUFFICES ASSUME v <= E - 1 PROVE FALSE
          BY <1>1, <1>5
      <2>1. B * v <= B * (E - 1)
            BY <1>1, <1>5
      <2>2. B * (E - 1) = B * E - B
            BY <1>1, <1>5
      <2> QED
          BY <1>1, <1>5, <2>1, <2>2
<1>7. q \in 0..(B - 1) /\ v % E \in 0..(E - 1) /\ v = E * q + (v % E)
      BY <1>1, <1>5, DivBelow
<1>8. q % B = q
      <2> HIDE DEF q
      <2> QED
          BY <1>1, <1>7, ModSmall
<1>9. q # 0
      <2> HIDE DEF q
      <2> SUFFICES ASSUME q = 0 PROVE FALSE
          OBVIOUS
      <2>1. E * q = 0
            BY <1>5
      <2> QED
          BY <1>5, <1>6, <1>7, <2>1
<1>10. q \in 1..(B - 1)
       <2> HIDE DEF q
       <2> QED
           BY <1>1, <1>7, <1>9
<1>11. Digit(v, n - 1) = q
       BY <1>8 DEF Digit, E
<1>12. v % E \in 0..(E - 1) /\ v = E * Digit(v, n - 1) + (v % E) /\ Digit(v, n - 1) \in 1..(B - 1)
       BY <1>7, <1>10, <1>11, Zenon
<1>13. Digit(v, n - 1) = v \div E
       BY <1>11
<1> HIDE DEF q
<1> QED
    BY ONLY <1>3, <1>4, <1>6, <1>12, <1>13, Zenon DEF E

\* After the shift the top bit is set.
LEMMA Shifted ==
    ASSUME NEW n \in 1..MaxLimbs, NEW v, Tall(v, n)
    PROVE  LET s == LeadingZeros(Digit(v, n - 1))
           IN  /\ s \in 0..DigitBits /\ 2 ^ s \in Nat \ {0} /\ 2 ^ s < B
               /\ v * 2 ^ s \in Nat /\ v * 2 ^ s < B ^ n /\ B ^ n <= 2 * (v * 2 ^ s)
<1> DEFINE d == Digit(v, n - 1)
           s == LeadingZeros(d)
           E == B ^ (n - 1)
           P == 2 ^ s
           r == v % E
<1>1. E \in Nat \ {0} /\ B ^ n = B * E /\ d \in 1..(B - 1) /\ r \in 0..(E - 1) /\ v = E * d + r
      BY TopDigit
<1>2. B \in Nat /\ B >= 2 /\ v \in Nat /\ DigitBits \in Nat
      BY DivisionAssumption, BaseEven DEF Tall
<1> HIDE DEF d, E, r
<1>3. s \in 0..DigitBits /\ d * P < B /\ 2 * (d * P) >= B
      BY <1>1, ZerosAre
<1>4. P \in Nat \ {0}
      BY <1>3, TwoTo
<1>5. PICK Q \in Nat \ {0} : B = P * Q
      <2>1. DigitBits - s \in Nat /\ s \in Nat /\ s + (DigitBits - s) = DigitBits
            BY <1>2, <1>3
      <2>2. 2 ^ (s + (DigitBits - s)) = 2 ^ s * 2 ^ (DigitBits - s)
            BY <1>2, <2>1, TwoToSum
      <2>3. 2 ^ (DigitBits - s) \in Nat \ {0}
            <3>1. DigitBits - s \in 0..DigitBits
                  BY <1>2, <1>3
            <3> QED
                BY <3>1, TwoTo
      <2> QED
          BY <2>1, <2>2, <2>3 DEF B
<1> HIDE DEF P
<1>6. P * (d + 1) <= B
      <2>1. d + 1 <= Q
            <3> SUFFICES ASSUME Q <= d PROVE FALSE
                BY <1>1
            <3>1. P * Q <= P * d
                  BY <1>1, <1>4, <1>5
            <3> QED
                BY <1>1, <1>2, <1>3, <1>4, <1>5, <3>1
      <2>2. P * (d + 1) <= P * Q
            BY <1>1, <1>4, <2>1
      <2> QED
          BY <1>5, <2>2
<1>7. P < B
      <2>1. P * (d + 1) = P * d + P /\ P * d \in Nat \ {0}
            BY <1>1, <1>4
      <2> QED
          BY <1>2, <1>4, <1>6, <2>1
<1>8. v * P < B * E
      <2>1. v < E * (d + 1)
            BY <1>1
      <2> DEFINE c == E * (d + 1)
      <2>7. c \in Nat /\ v + 1 <= c
            BY <1>1, <1>2, <2>1
      <2>8. c * P = E * (P * (d + 1))
            BY <1>1, <1>4
      <2> HIDE DEF c
      <2>9. (v + 1) * P <= c * P /\ (v + 1) * P = v * P + P
            BY <1>2, <1>4, <2>7
      <2>2. v * P < c * P
            <3>1. v * P \in Int /\ c * P \in Int
                  BY <1>2, <1>4, <2>7
            <3> QED
                BY <1>4, <2>9, <3>1
      <2>3. c * P = E * (P * (d + 1))
            BY <2>8
      <2>4. P * (d + 1) \in Nat
            BY <1>1, <1>4
      <2>5. E * (P * (d + 1)) <= E * B
            <3> DEFINE g == P * (d + 1)
            <3>1. g \in Nat /\ g <= B
                  BY <1>6, <2>4
            <3> HIDE DEF g
            <3>2. E * g <= E * B
                  BY <1>1, <1>2, <3>1
            <3> QED
                BY <3>2 DEF g
      <2>6. E * B = B * E /\ v * P \in Int /\ E * B \in Int
            BY <1>1, <1>2, <1>4
      <2>10. c * P \in Int
             BY <1>4, <2>7
      <2>11. c * P <= E * B
             BY ONLY <2>3, <2>5, Zenon
      <2> QED
          BY <2>2, <2>6, <2>10, <2>11
<1>9. B * E <= 2 * (v * P)
      <2>1. v * P = E * (d * P) + r * P /\ r * P \in Nat /\ d * P \in Nat
            BY <1>1, <1>2, <1>4
      <2> DEFINE c == d * P
      <2>2. c \in Nat /\ 2 * c >= B
            BY <1>3, <2>1
      <2> HIDE DEF c
      <2>3. E * (2 * c) >= E * B
            BY <1>1, <1>2, <2>2
      <2>4. E * (2 * c) = 2 * (E * c) /\ E * B = B * E /\ E * c \in Nat
            BY <1>1, <1>2, <2>2
      <2>5. v * P = E * c + r * P
            BY <2>1 DEF c
      <2>6. v * P \in Int /\ B * E \in Int
            BY <1>1, <1>2, <1>4
      <2> QED
          BY <2>1, <2>3, <2>4, <2>5, <2>6
<1>10. v * P \in Nat
       BY <1>2, <1>4
<1>11. v * P < B ^ n /\ B ^ n <= 2 * (v * P)
       BY <1>1, <1>8, <1>9
<1> QED
    BY ONLY <1>3, <1>4, <1>7, <1>10, <1>11, Zenon DEF P, d

---------------------------------------------------------------------------
(* Knuth's digit.                                                          *)

\* The loop that lowers the estimate ends.
LEMMA LoweringsEnd ==
    ASSUME NEW qh \in Int, NEW rh \in Nat, NEW v1 \in Nat \ {0}, NEW v2 \in Nat, NEW next \in Nat
    PROVE  LET k == Lowerings(qh, rh, v1, v2, next)
           IN  /\ k \in 0..B /\ ~TooLarge(qh - k, rh + k * v1, v2, next)
               /\ \A i \in 0..(k - 1) : TooLarge(qh - i, rh + i * v1, v2, next)
<1> DEFINE T == {k \in 0..B : ~TooLarge(qh - k, rh + k * v1, v2, next)}
<1>1. B \in Nat /\ B >= 2
      BY BaseEven
<1>2. T \subseteq Nat /\ \A k \in T : k \in 0..B /\ ~TooLarge(qh - k, rh + k * v1, v2, next)
      BY <1>1
<1>3. \A k \in 0..B : ~TooLarge(qh - k, rh + k * v1, v2, next) => k \in T
      OBVIOUS
<1>4. B \in T
      <2>1. (v1 - 1) * B \in Nat /\ B * v1 = B + (v1 - 1) * B
            BY <1>1
      <2>2. ~(rh + B * v1 < B)
            BY <1>1, <2>1
      <2>3. ~TooLarge(qh - B, rh + B * v1, v2, next) /\ B \in 0..B
            BY <1>1, <2>2 DEF TooLarge
      <2> QED
          BY <2>3
<1> HIDE DEF T
<1>5. PICK k \in T : \A m \in T : k <= m
      BY <1>2, <1>4, LeastElement
<1>6. k \in 0..B /\ ~TooLarge(qh - k, rh + k * v1, v2, next)
      BY <1>2, <1>5
<1>7. ASSUME NEW i \in 0..(k - 1) PROVE TooLarge(qh - i, rh + i * v1, v2, next)
      <2>1. i \in 0..B /\ ~(k <= i)
            BY <1>1, <1>6
      <2> QED
          BY <1>3, <1>5, <2>1
<1>8. \E m \in 0..B : /\ ~TooLarge(qh - m, rh + m * v1, v2, next)
                      /\ \A i \in 0..(m - 1) : TooLarge(qh - i, rh + i * v1, v2, next)
      BY <1>6, <1>7
<1> DEFINE l == CHOOSE m \in 0..B : /\ ~TooLarge(qh - m, rh + m * v1, v2, next)
                                    /\ \A i \in 0..(m - 1) : TooLarge(qh - i, rh + i * v1, v2, next)
<1>9. /\ l \in 0..B /\ ~TooLarge(qh - l, rh + l * v1, v2, next)
      /\ \A i \in 0..(l - 1) : TooLarge(qh - i, rh + i * v1, v2, next)
      BY <1>8, Zenon
<1>10. l = Lowerings(qh, rh, v1, v2, next)
       BY Zenon DEF Lowerings
<1> HIDE DEF l
<1> QED
    BY <1>9, <1>10, Zenon

\* A number is less than a multiple of another.
\* An estimate that two limbs show to be too large is.
LEMMA SeenTooLarge ==
    ASSUME NEW e \in Nat \ {0}, NEW v1 \in Nat, NEW v2 \in Nat, NEW vr \in Nat,
           NEW num \in Nat, NEW next \in Nat, NEW wr \in 0..(e - 1), NEW qh \in Nat,
           TooLarge(qh, num - qh * v1, v2, next)
    PROVE  e * (B * num + next) + wr < qh * (e * (B * v1 + v2) + vr)
<1>1. B \in Nat /\ B >= 2
      BY BaseEven
<1>2. qh * v2 >= (num - qh * v1) * B + next + 1
      <2>1. qh * v2 > (num - qh * v1) * B + next
            BY DEF TooLarge
      <2>2. qh * v2 \in Int /\ (num - qh * v1) * B + next \in Int
            BY <1>1
      <2> QED
          BY <2>1, <2>2
<1>3. (num - qh * v1) * B = B * num - qh * (B * v1)
      BY <1>1
<1> DEFINE t == B * num + next
           w == B * v1 + v2
<1>4. t \in Nat /\ w \in Nat
      BY <1>1
<1>5. qh * w = qh * (B * v1) + qh * v2
      BY <1>1
<1>6. qh * w >= t + 1
      <2>1. qh * (B * v1) \in Int /\ qh * v2 \in Int /\ B * num \in Int /\ qh * w \in Int
            BY <1>1, <1>4
      <2> HIDE DEF w
      <2>2. t = B * num + next
            OBVIOUS
      <2> HIDE DEF t
      <2> QED
          BY <1>2, <1>3, <1>4, <1>5, <2>1, <2>2
<1> HIDE DEF t, w
<1>7. e * (qh * w) >= e * (t + 1)
      <2> DEFINE g == qh * w
      <2>1. g \in Nat /\ g >= t + 1
            BY <1>4, <1>6
      <2> HIDE DEF g
      <2>2. e * g >= e * (t + 1)
            BY <1>4, <2>1
      <2> QED
          BY <2>2 DEF g
<1>8. qh * (e * w + vr) = e * (qh * w) + qh * vr /\ qh * vr \in Nat /\ e * (qh * w) \in Nat
      BY <1>4
<1>9. e * (t + 1) = e * t + e /\ e * t \in Nat
      BY <1>4
<1>10. e * t + wr < qh * (e * w + vr)
       <2> DEFINE a == e * (qh * w)
                  b == e * t
                  c == qh * vr
       <2>1. a \in Nat /\ b \in Nat /\ c \in Nat /\ a >= b + e
             BY <1>7, <1>8, <1>9
       <2>2. qh * (e * w + vr) = a + c
             BY <1>8
       <2> HIDE DEF a, b, c
       <2>3. b + wr < a + c
             BY <2>1
       <2> QED
           BY <2>2, <2>3 DEF b
<1> QED
    BY <1>10 DEF t, w

\* One that they do not is at most one too large.
LEMMA NotSeenTooLarge ==
    ASSUME NEW e \in Nat \ {0}, NEW v1 \in Nat \ {0}, NEW v2 \in 0..(B - 1), NEW vr \in 0..(e - 1),
           NEW num \in Nat, NEW next \in Nat, NEW wr \in Nat, NEW qh \in Int, qh <= B - 1,
           ~TooLarge(qh, num - qh * v1, v2, next)
    PROVE  LET v == e * (B * v1 + v2) + vr
           IN  qh * v < e * (B * num + next) + wr + v
<1>1. B \in Nat /\ B >= 2
      BY BaseEven
<1> DEFINE t == B * num + next
           w == B * v1 + v2
           v == e * w + vr
<1>2. t \in Nat /\ w \in Nat /\ w >= B /\ v2 \in Nat /\ vr \in Nat
      <2>1. (v1 - 1) * B \in Nat /\ B * v1 = B + (v1 - 1) * B
            BY <1>1
      <2>2. B * num \in Nat /\ v2 \in Nat
            BY <1>1
      <2> QED
          BY <1>1, <2>1, <2>2
<1>3. v \in Nat /\ v >= e * B
      <2> HIDE DEF w
      <2>1. e * w >= e * B /\ e * w \in Nat
            BY <1>1, <1>2
      <2>2. e * B \in Nat
            BY <1>1
      <2> QED
          BY <1>2, <2>1, <2>2
<1>4. CASE qh <= 0
      <2>1. qh * v <= 0
            <3> HIDE DEF v
            <3> QED
                BY <1>3, <1>4
      <2>2. e * B >= 1 /\ e * t + wr >= 0
            <3> HIDE DEF t
            <3>1. e * t \in Nat
                  BY <1>2
            <3>2. e * B = e + e * (B - 1) /\ e * (B - 1) \in Nat
                  BY <1>1
            <3> QED
                BY <3>1, <3>2
      <2>3. qh * v \in Int /\ e * t + wr \in Int /\ e * B \in Int
            <3> HIDE DEF t, v
            <3>1. qh * v \in Int
                  BY <1>3
            <3>2. e * t \in Int
                  BY <1>2
            <3>3. e * B \in Int
                  BY <1>1
            <3> QED
                BY <3>1, <3>2, <3>3
      <2>4. qh * v < e * t + wr + v
            <3> DEFINE a == qh * v
                       b == e * t + wr
            <3>1. a \in Int /\ b \in Int /\ a <= 0 /\ b >= 0
                  BY <2>1, <2>2, <2>3
            <3> HIDE DEF a, b
            <3>2. v >= 1
                  <4> HIDE DEF v
                  <4> QED
                      BY <1>3, <2>2, <2>3
            <3> HIDE DEF v
            <3>3. a < b + v
                  BY <1>3, <3>1, <3>2
            <3> QED
                BY <3>3 DEF a, b
      <2> QED
          BY <2>4
<1>5. CASE qh >= 1
      <2>1. qh \in Nat /\ qh >= 1
            BY <1>5
      <2>2. qh * w <= t
            <3>1. qh * w = qh * (B * v1) + qh * v2
                  BY <1>1, <1>2
            <3>2. (num - qh * v1) * B = B * num - qh * (B * v1)
                  BY <1>1
            <3>3. qh * (B * v1) \in Int /\ qh * v2 \in Int /\ B * num \in Int
                  BY <1>1, <1>2
            <3> DEFINE c == num - qh * v1
            <3>4. c \in Int
                  OBVIOUS
            <3>5. CASE ~(c < B)
                  <4>1. c * B >= B * B
                        <5> HIDE DEF c
                        <5> QED
                            BY <1>1, <3>4, <3>5
                  <4>2. qh * v2 <= B * B
                        <5>1. qh * v2 <= qh * B
                              BY <1>1, <1>2, <2>1
                        <5>2. qh * B <= B * B
                              BY <1>1, <2>1
                        <5>3. qh * v2 \in Int /\ qh * B \in Int /\ B * B \in Int
                              BY <1>1, <1>2
                        <5> QED
                            BY <5>1, <5>2, <5>3
                  <4>3. B * B \in Int
                        BY <1>1
                  <4>4. qh * v2 <= B * num - qh * (B * v1)
                        <5>1. c * B = B * num - qh * (B * v1)
                              BY <3>2
                        <5> HIDE DEF c
                        <5> QED
                            BY <3>3, <4>1, <4>2, <4>3, <5>1
                  <4>5. t = B * num + next
                        OBVIOUS
                  <4> HIDE DEF t, w, c
                  <4> QED
                      BY <1>2, <3>1, <3>3, <4>4, <4>5
            <3>6. CASE c < B
                  <4>1. ~(qh * v2 > c * B + next)
                        BY <3>6 DEF TooLarge
                  <4>2. c * B = B * num - qh * (B * v1)
                        BY <3>2
                  <4>3. t = B * num + next
                        OBVIOUS
                  <4> HIDE DEF t, w, c
                  <4> QED
                      BY <1>2, <3>1, <3>3, <4>1, <4>2, <4>3
            <3> QED
                BY <3>5, <3>6
      <2>3. qh * w <= t
            <3> HIDE DEF w, t
            <3> QED
                BY <1>2, <2>1, <2>2
      <2> HIDE DEF t, w
      <2>4. e * (qh * w) <= e * t
            <3> DEFINE g == qh * w
            <3>1. g \in Nat /\ g <= t
                  BY <1>2, <2>1, <2>3
            <3> HIDE DEF g
            <3>2. e * g <= e * t
                  BY <1>2, <3>1
            <3> QED
                BY <3>2 DEF g
      <2>5. qh * v = e * (qh * w) + qh * vr
            BY <1>2, <2>1
      <2>6. qh * vr < e * B
            <3>1. qh * vr <= qh * e
                  BY <1>2, <2>1
            <3>2. qh * e <= (B - 1) * e
                  BY <1>1, <2>1
            <3>3. (B - 1) * e = e * B - e
                  BY <1>1
            <3>4. qh * vr \in Int /\ qh * e \in Int /\ e * B \in Int
                  BY <1>1, <1>2, <2>1
            <3> QED
                BY <3>1, <3>2, <3>3, <3>4
      <2>7. qh * v < e * t + wr + v
            <3>1. qh * vr \in Int /\ e * B \in Int /\ e * (qh * w) \in Int /\ e * t \in Int
                  <4>1. qh * w \in Int
                        BY <1>2
                  <4> QED
                      BY <1>1, <1>2, <4>1
            <3> HIDE DEF v
            <3> QED
                BY <1>3, <2>4, <2>5, <2>6, <3>1
      <2> QED
          BY <2>7 DEF t, w
<1> QED
    BY <1>4, <1>5

LEMMA TwoLimbs == MaxLimbs >= 2 => B ^ 2 = B * B /\ B ^ 1 = B
<1>1. MaxLimbs \in Nat \ {0} /\ B \in Nat /\ B >= 2
      BY DivisionAssumption, BaseEven
<1> HAVE MaxLimbs >= 2
<1>2. 0 \in 0..(2 * MaxLimbs + 1) /\ 0 <= 2 * MaxLimbs /\ 1 \in 0..(2 * MaxLimbs + 1) /\ 1 <= 2 * MaxLimbs
      BY <1>1
<1>3. B ^ (0 + 1) = B * B ^ 0 /\ B ^ (1 + 1) = B * B ^ 1 /\ B ^ 0 = 1
      BY <1>2, BaseTo, DivisionPowers
<1>4. 0 + 1 = 1 /\ 1 + 1 = 2
      OBVIOUS
<1> QED
    BY <1>1, <1>3, <1>4

\* The two top limbs of v and the three of the window.
LEMMA Leading ==
    ASSUME NEW n \in 2..MaxLimbs, NEW v, Tall(v, n), NEW win \in Nat, win < v * B
    PROVE  LET e    == B ^ (n - 2)
               v1   == Digit(v, n - 1)
               v2   == Digit(v, n - 2)
               num  == Digits(win, n - 1, 2)
               next == Digit(win, n - 2)
           IN  /\ e \in Nat \ {0} /\ v1 \in Nat \ {0} /\ v2 \in 0..(B - 1)
               /\ num \in Nat /\ next \in 0..(B - 1)
               /\ \E vr \in 0..(e - 1) : v = e * (B * v1 + v2) + vr
               /\ \E wr \in 0..(e - 1) : win = e * (B * num + next) + wr
<1> DEFINE e    == B ^ (n - 2)
           f    == B ^ (n - 1)
           v1   == Digit(v, n - 1)
           v2   == Digit(v, n - 2)
           num  == Digits(win, n - 1, 2)
           next == Digit(win, n - 2)
           vr   == v % e
           wr   == win % e
<1>1. MaxLimbs \in Nat \ {0} /\ B \in Nat /\ B >= 2 /\ v \in Nat /\ B \in Nat \ {0} /\ MaxLimbs >= 2 /\ n \in 1..MaxLimbs
      BY DivisionAssumption, BaseEven DEF Tall
<1>2. e \in Nat \ {0} /\ f = e * B
      <2>1. n - 2 \in 0..(2 * MaxLimbs + 1) /\ n - 2 <= 2 * MaxLimbs /\ (n - 2) + 1 = n - 1
            BY <1>1
      <2>2. B ^ (n - 2) \in Nat \ {0} /\ B ^ ((n - 2) + 1) = B * B ^ (n - 2)
            BY <2>1, BaseTo
      <2> QED
          BY <1>1, <2>1, <2>2
<1>3. f \in Nat \ {0} /\ B ^ n = B * f /\ v1 \in 1..(B - 1) /\ v % f \in 0..(f - 1) /\ v = f * v1 + (v % f)
      BY <1>1, TopDigit
<1>4. v % f = v2 * e + vr /\ v2 \in 0..(B - 1) /\ vr \in 0..(e - 1)
      <2>1. v % (e * B) = ((v \div e) % B) * e + (v % e)
            BY <1>1, <1>2, DivTwice
      <2>2. v2 = (v \div e) % B
            BY DEF Digit
      <2>3. v \div e \in Int /\ v % e \in 0..(e - 1)
            <3>1. v \in Int
                  BY <1>1
            <3> HIDE DEF e
            <3> QED
                BY <1>2, <3>1, DivMod
      <2>4. (v \div e) % B \in 0..(B - 1)
            BY <1>1, <2>3, ModRange
      <2> QED
          BY ONLY <1>2, <2>1, <2>2, <2>3, <2>4, Zenon
<1>5. win % f = next * e + wr /\ next \in 0..(B - 1) /\ wr \in 0..(e - 1)
      <2>1. win % (e * B) = ((win \div e) % B) * e + (win % e)
            BY <1>1, <1>2, DivTwice
      <2>2. next = (win \div e) % B
            BY DEF Digit
      <2>3. win \div e \in Int /\ win % e \in 0..(e - 1)
            <3>1. win \in Int
                  OBVIOUS
            <3> HIDE DEF e
            <3> QED
                BY <1>2, <3>1, DivMod
      <2>4. (win \div e) % B \in 0..(B - 1)
            BY <1>1, <2>3, ModRange
      <2> QED
          BY ONLY <1>2, <2>1, <2>2, <2>3, <2>4, Zenon
<1>6. num \in Nat /\ win = f * num + (win % f)
      <2> DEFINE c == B * B
                 g == win \div f
      <2>1. win < c * f
            <3>1. v <= B * f
                  <4>1. v < B ^ n
                        BY DEF Tall
                  <4>2. v < B * f
                        BY <1>3, <4>1
                  <4>3. B * f \in Int
                        BY <1>1, <1>3
                  <4> HIDE DEF f
                  <4> QED
                      BY <1>1, <4>2, <4>3
            <3> HIDE DEF f
            <3>2. v * B <= (B * f) * B
                  <4> DEFINE h == B * f
                  <4>1. h \in Nat /\ v <= h
                        BY <1>1, <1>3, <3>1
                  <4> HIDE DEF h
                  <4>2. v * B <= h * B
                        BY <1>1, <4>1
                  <4> QED
                      BY <4>2 DEF h
            <3>3. (B * f) * B = c * f
                  BY <1>1, <1>3
            <3>4. v * B \in Int /\ c * f \in Int
                  BY <1>1, <1>3
            <3> QED
                BY <3>2, <3>3, <3>4
      <2>2. c \in Nat \ {0} /\ B ^ 2 = c
            BY <1>1, TwoLimbs
      <2> HIDE DEF c
      <2>3. g \in 0..(c - 1) /\ win = f * g + (win % f)
            BY <1>3, <2>1, <2>2, DivBelow
      <2>4. num = g
            <3>1. num = g % c
                  BY <2>2 DEF Digits
            <3> HIDE DEF g
            <3>2. g % c = g
                  BY <2>2, <2>3, ModSmall
            <3> QED
                BY <3>1, <3>2
      <2>5. g \in Nat
            <3> HIDE DEF g
            <3> QED
                BY <2>2, <2>3
      <2> QED
          BY ONLY <2>3, <2>4, <2>5, Zenon
<1> HIDE DEF e, f, v1, v2, num, next, vr, wr
<1>7. v = e * (B * v1 + v2) + vr
      <2>1. v1 \in Nat /\ v2 \in Nat /\ vr \in Nat
            BY <1>1, <1>2, <1>3, <1>4
      <2>2. e * (B * v1 + v2) = (e * B) * v1 + v2 * e
            BY <1>1, <1>2, <2>1
      <2>3. (e * B) * v1 \in Int /\ v2 * e \in Int
            BY <1>1, <1>2, <2>1
      <2>4. v = (e * B) * v1 + (v2 * e + vr)
            BY ONLY <1>2, <1>3, <1>4
      <2> QED
          BY <2>1, <2>2, <2>3, <2>4
<1>8. win = e * (B * num + next) + wr
      <2>1. next \in Nat /\ wr \in Nat
            BY <1>1, <1>2, <1>5
      <2>2. e * (B * num + next) = (e * B) * num + next * e
            BY <1>1, <1>2, <1>6, <2>1
      <2>3. (e * B) * num \in Int /\ next * e \in Int
            BY <1>1, <1>2, <1>6, <2>1
      <2>4. win = (e * B) * num + (next * e + wr)
            BY ONLY <1>2, <1>5, <1>6
      <2> QED
          BY <2>1, <2>2, <2>3, <2>4
<1>9. v1 \in Nat \ {0}
      BY <1>1, <1>3
<1> USE DEF e, v1, v2, num, next
<1>10. \E r \in 0..(e - 1) : v = e * (B * v1 + v2) + r
       BY ONLY <1>4, <1>7, Zenon
<1>11. \E r \in 0..(e - 1) : win = e * (B * num + next) + r
       BY ONLY <1>5, <1>8, Zenon
<1> QED
    BY ONLY <1>2, <1>4, <1>5, <1>6, <1>9, <1>10, <1>11, Zenon

\* The estimate is the digit, or one too large.
LEMMA EstimateIs ==
    ASSUME NEW n \in 2..MaxLimbs, NEW v, Tall(v, n), NEW win \in Nat, win < v * B
    PROVE  LET e == Estimate(win, v, n)
           IN  e \in Int /\ win < (e + 1) * v /\ e * v < win + v
<1> DEFINE e    == B ^ (n - 2)
           v1   == Digit(v, n - 1)
           v2   == Digit(v, n - 2)
           num  == Digits(win, n - 1, 2)
           next == Digit(win, n - 2)
           qh   == IF num \div v1 >= B THEN B - 1 ELSE num \div v1
           rh   == num - qh * v1
           k    == Lowerings(qh, rh, v1, v2, next)
<1>1. B \in Nat /\ B >= 2 /\ v \in Nat
      BY BaseEven DEF Tall
<1>2. /\ e \in Nat \ {0} /\ v1 \in Nat \ {0} /\ v2 \in 0..(B - 1)
      /\ num \in Nat /\ next \in 0..(B - 1)
      /\ \E vr \in 0..(e - 1) : v = e * (B * v1 + v2) + vr
      /\ \E wr \in 0..(e - 1) : win = e * (B * num + next) + wr
      BY Leading
<1>3. Estimate(win, v, n) = qh - k
      BY DEF Estimate
<1> HIDE DEF e, v1, v2, num, next
<1>4. PICK vr \in 0..(e - 1) : v = e * (B * v1 + v2) + vr
      BY <1>2
<1>5. PICK wr \in 0..(e - 1) : win = e * (B * num + next) + wr
      BY <1>2
<1>6. v2 \in Nat /\ next \in Nat /\ vr \in Nat /\ wr \in Nat
      BY <1>1, <1>2
<1>7. qh \in 0..(B - 1) /\ rh \in Nat /\ (qh = B - 1 \/ num < (qh + 1) * v1)
      <2> DEFINE q == num \div v1
                 r == num % v1
      <2>1. num = v1 * q + r /\ r \in 0..(v1 - 1) /\ q \in Int
            <3>1. num \in Int
                  BY <1>2
            <3> QED
                BY <1>2, <3>1, DivMod
      <2> HIDE DEF q, r
      <2>2. q >= 0
            <3> SUFFICES ASSUME q <= -1 PROVE FALSE
                BY <2>1
            <3>1. v1 * q <= v1 * (-1)
                  BY <1>2, <2>1
            <3> QED
                BY <1>2, <2>1, <3>1
      <2>3. qh = IF q >= B THEN B - 1 ELSE q
            BY DEF q
      <2> HIDE DEF qh
      <2>4. qh \in 0..(B - 1) /\ qh <= q
            BY <1>1, <2>1, <2>2, <2>3
      <2>5. num - qh * v1 >= 0 /\ num - qh * v1 \in Int
            <3>1. qh * v1 <= q * v1
                  BY <1>1, <1>2, <2>1, <2>4
            <3>2. q * v1 = v1 * q
                  BY <1>2, <2>1
            <3>3. qh \in Int /\ qh * v1 \in Int /\ v1 * q \in Int
                  BY <1>1, <1>2, <2>1, <2>4
            <3> QED
                BY <1>2, <2>1, <3>1, <3>2, <3>3
      <2>6. qh = B - 1 \/ num < (qh + 1) * v1
            <3> SUFFICES ASSUME qh # B - 1 PROVE num < (qh + 1) * v1
                OBVIOUS
            <3>1. qh = q
                  BY <2>3
            <3>2. (q + 1) * v1 = v1 * q + v1 /\ v1 * q \in Int
                  BY <1>2, <2>1
            <3> QED
                BY <1>2, <2>1, <3>1, <3>2
      <2> QED
          BY <2>4, <2>5, <2>6
<1> HIDE DEF qh
<1>8. qh \in Int /\ qh <= B - 1 /\ qh >= 0
      BY <1>1, <1>7
<1> HIDE DEF rh
<1>9. /\ k \in 0..B /\ ~TooLarge(qh - k, rh + k * v1, v2, next)
      /\ \A i \in 0..(k - 1) : TooLarge(qh - i, rh + i * v1, v2, next)
      BY <1>2, <1>6, <1>7, <1>8, LoweringsEnd
<1> HIDE DEF k
<1>10. k \in Nat
       BY <1>1, <1>9
<1>11. \A i \in Int : rh + i * v1 = num - (qh - i) * v1
       BY <1>2, <1>8 DEF rh
<1>12. win < ((qh - k) + 1) * v
       <2>1. CASE k = 0
             <3>1. ((qh - k) + 1) * v = (qh + 1) * v
                   BY <1>8, <2>1
             <3>2. CASE qh = B - 1
                   <4>1. (qh + 1) * v = v * B
                         BY <1>1, <3>2
                   <4> QED
                       BY <3>1, <4>1
             <3>3. CASE num < (qh + 1) * v1
                   <4> DEFINE a == qh + 1
                   <4>1. a \in Nat /\ num + 1 <= a * v1
                         <5>1. a \in Nat
                               BY <1>8
                         <5>2. a * v1 \in Int
                               BY <1>2, <5>1
                         <5> QED
                             BY <1>2, <3>3, <5>1, <5>2
                   <4> HIDE DEF a
                   <4>2. win < e * (B * (num + 1))
                         <5>1. e * (B * (num + 1)) = e * (B * num + B)
                               BY <1>1, <1>2
                         <5>2. e * (B * num + B) = e * (B * num) + e * B
                               BY <1>1, <1>2
                         <5>3. e * (B * num + next) = e * (B * num) + e * next
                               BY <1>1, <1>2, <1>6
                         <5>4. e * next <= e * (B - 1)
                               BY <1>1, <1>2, <1>6
                         <5>5. e * (B - 1) = e * B - e
                               BY <1>1, <1>2
                         <5>6. e * next \in Int /\ e * B \in Int /\ e * (B * num) \in Int
                               BY <1>1, <1>2, <1>6
                         <5>7. wr < e
                               BY <1>2, <1>5
                         <5> QED
                             BY <1>2, <1>5, <1>6, <5>1, <5>2, <5>3, <5>4, <5>5, <5>6, <5>7
                   <4>3. e * (B * (num + 1)) <= e * (B * (a * v1))
                         <5> DEFINE g == a * v1
                                    h == num + 1
                         <5>1. g \in Nat /\ h \in Nat /\ h <= g
                               BY <1>2, <4>1
                         <5> HIDE DEF g, h
                         <5>2. B * h <= B * g /\ B * h \in Nat /\ B * g \in Nat
                               BY <1>1, <5>1
                         <5>3. e * (B * h) <= e * (B * g)
                               <6> DEFINE s == B * h
                                          t == B * g
                               <6>1. s \in Nat /\ t \in Nat /\ s <= t
                                     BY <5>2
                               <6> HIDE DEF s, t
                               <6>2. e * s <= e * t
                                     BY <1>2, <6>1
                               <6> QED
                                   BY <6>2 DEF s, t
                         <5> QED
                             BY <5>3 DEF g, h
                   <4>4. e * (B * (a * v1)) <= a * v
                         <5>1. a * v = a * (e * (B * v1 + v2)) + a * vr
                               <6> DEFINE s == e * (B * v1 + v2)
                               <6>1. s \in Int /\ v = s + vr
                                     BY <1>1, <1>2, <1>4, <1>6
                               <6> HIDE DEF s
                               <6>2. a * v = a * s + a * vr
                                     BY <1>6, <4>1, <6>1
                               <6> QED
                                   BY <6>2 DEF s
                         <5>2. a * (e * (B * v1 + v2)) = e * (B * (a * v1)) + e * (a * v2)
                               BY <1>1, <1>2, <1>6, <4>1
                         <5>3. e * (a * v2) \in Nat /\ a * vr \in Nat /\ e * (B * (a * v1)) \in Nat
                               BY <1>1, <1>2, <1>6, <4>1
                         <5> QED
                             BY <5>1, <5>2, <5>3
                   <4>5. a * v \in Int /\ e * (B * (a * v1)) \in Int /\ e * (B * (num + 1)) \in Int
                         BY <1>1, <1>2, <4>1
                   <4>6. win < a * v
                         BY <4>2, <4>3, <4>4, <4>5
                   <4> QED
                       BY <3>1, <4>6 DEF a
             <3> QED
                 BY <1>7, <3>2, <3>3
       <2>2. CASE k # 0
             <3> DEFINE i == k - 1
                        c == qh - i
             <3>1. i \in 0..(k - 1) /\ i \in Int /\ c \in Int /\ (qh - k) + 1 = c
                   BY <1>8, <1>10, <2>2
             <3>2. TooLarge(c, num - c * v1, v2, next)
                   BY <1>9, <1>11, <3>1
             <3> HIDE DEF i, c
             <3>3. c \in Nat
                   <4> SUFFICES ASSUME c <= -1 PROVE FALSE
                       BY <3>1
                   <4>1. num - c * v1 < B /\ c * v2 > (num - c * v1) * B + next
                         BY <3>2 DEF TooLarge
                   <4>2. c * v2 <= 0 /\ c * v2 \in Int
                         BY <1>6, <3>1
                   <4>3. c * v1 <= 0 /\ c * v1 \in Int
                         BY <1>2, <3>1
                   <4> DEFINE g == num - c * v1
                   <4>4. g \in Nat
                         BY <1>2, <4>3
                   <4>5. c * v2 > g * B + next
                         BY <4>1
                   <4> HIDE DEF g
                   <4>6. g * B \in Nat
                         BY <1>1, <4>4
                   <4> QED
                       BY <1>6, <4>2, <4>5, <4>6
             <3>4. e * (B * num + next) + wr < c * (e * (B * v1 + v2) + vr)
                   BY <1>2, <1>6, <3>2, <3>3, SeenTooLarge
             <3> QED
                 BY ONLY <1>4, <1>5, <3>1, <3>4
       <2> QED
           BY <2>1, <2>2
<1>13. (qh - k) * v < win + v
       <2> DEFINE c == qh - k
       <2>1. c \in Int /\ c <= B - 1 /\ ~TooLarge(c, num - c * v1, v2, next)
             <3>1. c \in Int /\ c <= B - 1 /\ k \in Int
                   BY <1>1, <1>8, <1>10
             <3> QED
                 BY <1>9, <1>11, <3>1
       <2> HIDE DEF c
       <2>2. c * (e * (B * v1 + v2) + vr) < e * (B * num + next) + wr + (e * (B * v1 + v2) + vr)
             BY <1>2, <1>6, <2>1, NotSeenTooLarge
       <2>3. c * v < win + v
             BY ONLY <1>4, <1>5, <2>2
       <2> QED
           BY <2>3 DEF c
<1>14. qh - k \in Int
       BY <1>8, <1>10
<1> QED
    BY ONLY <1>3, <1>12, <1>13, <1>14

\* What m turns of a loop keep.
LEMMA LoopStays ==
    ASSUME NEW m \in Nat, NEW S, NEW f, f[0] \in S[0], \A i \in 1..m : f[i - 1] \in S[i - 1] => f[i] \in S[i]
    PROVE  \A i \in 0..m : f[i] \in S[i]
<1> DEFINE R == {i \in Nat : i <= m => f[i] \in S[i]}
<1>1. 0 \in R
      OBVIOUS
<1>2. ASSUME NEW i \in Nat, i \in R PROVE i + 1 \in R
      <2> SUFFICES ASSUME i + 1 <= m PROVE f[i + 1] \in S[i + 1]
          OBVIOUS
      <2>1. (i + 1) - 1 = i /\ f[i] \in S[i] /\ i + 1 \in 1..m
            BY <1>2
      <2> QED
          BY <2>1
<1>3. Nat \subseteq R
      <2> HIDE DEF R
      <2> QED
          BY <1>1, <1>2, SimpleInduction
<1> QED
    BY <1>3

\* A loop of m turns, whose state is in S[i] after i of them.
Loop(f, m, start, step) == f = [i \in 0..m |-> IF i = 0 THEN start ELSE step[<<i, f[i - 1]>>]]

LEMMA LoopExists ==
    ASSUME NEW m \in Nat, NEW T, NEW S \in [0..m -> SUBSET T], NEW start, start \in S[0], NEW step,
           \A i \in 1..m : \A s \in S[i - 1] : step[<<i, s>>] \in S[i]
    PROVE  \E f : Loop(f, m, start, step) /\ \A i \in 0..m : f[i] \in S[i]
<1> DEFINE turn == [p \in Nat \X T |-> IF p[1] + 1 <= m /\ p[2] \in S[p[1]] THEN step[<<p[1] + 1, p[2]>>] ELSE start]
<1>1. start \in T /\ 0 \in 0..m
      OBVIOUS
<1>2. turn \in [Nat \X T -> T]
      <2> SUFFICES ASSUME NEW p \in Nat \X T, p[1] + 1 <= m, p[2] \in S[p[1]]
                   PROVE  step[<<p[1] + 1, p[2]>>] \in T
          BY <1>1
      <2>1. p[1] \in Nat /\ p[1] + 1 \in 1..m /\ (p[1] + 1) - 1 = p[1] /\ p[1] + 1 \in 0..m
            OBVIOUS
      <2>2. step[<<p[1] + 1, p[2]>>] \in S[p[1] + 1]
            BY <2>1
      <2> QED
          BY <2>1, <2>2
<1>3. PICK h : Solves(h, T, start, turn)
      <2> HIDE DEF turn
      <2> QED
          BY <1>1, <1>2, Recursion
<1>4. h[0] = start /\ \A n \in Nat : h[n + 1] = turn[<<n, h[n]>>] /\ h[n] \in T
      BY <1>3 DEF Solves
<1> DEFINE R == {i \in Nat : i <= m => h[i] \in S[i]}
<1>5. 0 \in R
      BY <1>4
<1>6. ASSUME NEW i \in Nat, i + 1 <= m, h[i] \in S[i]
      PROVE  h[i + 1] = step[<<i + 1, h[i]>>]
      <2>1. h[i + 1] = turn[<<i, h[i]>>] /\ h[i] \in T
            BY <1>4
      <2> QED
          BY <1>6, <2>1
<1>7. ASSUME NEW i \in Nat, i \in R PROVE i + 1 \in R
      <2> SUFFICES ASSUME i + 1 <= m PROVE h[i + 1] \in S[i + 1]
          OBVIOUS
      <2>1. h[i] \in S[i] /\ i + 1 \in 1..m /\ (i + 1) - 1 = i
            BY <1>7
      <2>2. step[<<i + 1, h[i]>>] \in S[i + 1]
            BY <2>1
      <2> QED
          BY <1>6, <2>1, <2>2
<1>8. Nat \subseteq R
      <2> HIDE DEF R
      <2> QED
          BY <1>5, <1>7, SimpleInduction
<1> HIDE DEF turn
<1>9. \A i \in 0..m : h[i] = IF i = 0 THEN start ELSE step[<<i, h[i - 1]>>]
      <2> TAKE i \in 0..m
      <2>1. CASE i = 0
            BY <1>4, <2>1
      <2>2. CASE i # 0
            <3>1. i - 1 \in Nat /\ (i - 1) + 1 <= m /\ (i - 1) + 1 = i
                  BY <2>2
            <3>2. h[i - 1] \in S[i - 1]
                  BY <1>8, <3>1
            <3>3. h[(i - 1) + 1] = step[<<(i - 1) + 1, h[i - 1]>>]
                  BY <1>6, <3>1, <3>2
            <3> QED
                BY <2>2, <3>1, <3>3
      <2> QED
          BY <2>1, <2>2
<1> DEFINE f == [i \in 0..m |-> h[i]]
<1>10. \A i \in 0..m : f[i] = IF i = 0 THEN start ELSE step[<<i, f[i - 1]>>]
       <2> TAKE i \in 0..m
       <2>1. CASE i = 0
             BY <1>9, <2>1
       <2>2. CASE i # 0
             <3>1. i - 1 \in 0..m
                   BY <2>2
             <3>2. f[i - 1] = h[i - 1] /\ f[i] = h[i]
                   BY <3>1
             <3> HIDE DEF f
             <3> QED
                 BY <1>9, <2>2, <3>2
       <2> QED
           BY <2>1, <2>2
<1>11. f = [i \in 0..m |-> f[i]]
       OBVIOUS
<1>13. \A i \in 0..m : f[i] \in S[i]
       BY <1>8
<1> HIDE DEF f
<1>12. f = [i \in 0..m |-> IF i = 0 THEN start ELSE step[<<i, f[i - 1]>>]]
       BY <1>10, <1>11, Zenon
<1> QED
    BY <1>12, <1>13 DEF Loop

LEMMA CorrectedIs ==
    ASSUME NEW n \in 2..MaxLimbs, NEW v, Tall(v, n), NEW win \in Nat, NEW e \in Int,
           win < (e + 1) * v, e * v < win + v
    PROVE  Euclid(Corrected(e, win, v, n), win, v)
<1> DEFINE a == e * v
           M == B ^ (n + 1)
<1>1. v \in Nat /\ v < B ^ n /\ B \in Nat /\ B >= 2 /\ MaxLimbs \in Nat
      BY DivisionAssumption, BaseEven DEF Tall
<1>2. a \in Int /\ (e + 1) * v = a + v /\ (e - 1) * v = a - v
      BY <1>1
<1>3. M \in Nat \ {0} /\ v <= M
      <2>1. n \in 0..(2 * MaxLimbs + 1) /\ n <= 2 * MaxLimbs /\ n + 1 \in 0..(2 * MaxLimbs + 1)
            BY <1>1
      <2>2. B ^ n \in Nat \ {0} /\ B ^ (n + 1) = B * B ^ n /\ M \in Nat \ {0}
            BY <2>1, BaseTo
      <2> DEFINE P == B ^ n
      <2>3. P \in Nat /\ v < P /\ M = B * P
            BY <1>1, <2>2
      <2> HIDE DEF P
      <2>4. (B - 1) * P \in Nat /\ B * P = P + (B - 1) * P
            BY <1>1, <2>3
      <2> QED
          BY <1>1, <2>2, <2>3, <2>4
<1> HIDE DEF M
<1>4. win < a + v /\ a < win + v
      BY <1>2
<1>5. v # 0
      BY <1>1, <1>2, <1>4
<1>6. CASE win < a
      <2>1. win - a + v \in 0..(M - 1) /\ win - a + v \in Nat
            BY <1>1, <1>2, <1>3, <1>4, <1>6
      <2>2. (win - a + v) % M = win - a + v
            BY <1>3, <2>1, ModSmall
      <2>3. e - 1 \in Nat
            <3> SUFFICES ASSUME e <= 0 PROVE FALSE
                OBVIOUS
            <3>1. a <= 0
                  BY <1>1
            <3> QED
                BY <1>2, <1>6, <3>1
      <2>4. Corrected(e, win, v, n) = <<e - 1, win - a + v>>
            BY <1>6, <2>2 DEF Corrected, M
      <2> HIDE DEF a
      <2>5. win = (e - 1) * v + (win - a + v) /\ win - a + v < v
            BY <1>1, <1>2, <1>6
      <2> QED
          BY <2>1, <2>3, <2>4, <2>5 DEF Euclid
<1>7. CASE ~(win < a)
      <2>1. e \in Nat
            <3> SUFFICES ASSUME e <= -1 PROVE FALSE
                OBVIOUS
            <3>1. (e + 1) * v <= 0
                  BY <1>1
            <3>2. a + v <= 0
                  BY <1>2, <3>1
            <3> HIDE DEF a
            <3> QED
                BY <1>1, <1>2, <1>4, <3>2
      <2>2. Corrected(e, win, v, n) = <<e, win - a>>
            BY <1>7 DEF Corrected
      <2>3. win = e * v + (win - a)
            BY <1>2
      <2> HIDE DEF a
      <2>4. win - a \in Nat /\ win - a < v
            BY <1>1, <1>2, <1>4, <1>7
      <2> QED
          BY <2>1, <2>2, <2>3, <2>4 DEF Euclid
<1> QED
    BY <1>6, <1>7

\* What is found times the divisor and what is left are the dividend; the
\* digits from place j on are found.
Left(k, un, vn, j) == k \in Nat \X Nat /\ k[1] * vn + k[2] = un /\ k[2] < vn * B ^ j

LEMMA KnuthTurnIs ==
    ASSUME NEW n \in 2..MaxLimbs, NEW vn, Tall(vn, n), NEW un \in Nat, NEW j \in Nat, n + j <= 2 * MaxLimbs,
           NEW k, Left(k, un, vn, j + 1)
    PROVE  Left(KnuthTurn(k, j, vn, n), un, vn, j)
<1> DEFINE P == B ^ j
           q == k[1]
           r == k[2]
           g == r \div P
           low == r % P
           win == Digits(r, j, n + 1)
           c == Corrected(Estimate(win, vn, n), win, vn, n)
<1>1. vn \in Nat /\ vn < B ^ n /\ B \in Nat /\ B >= 2 /\ MaxLimbs \in Nat
      BY DivisionAssumption, BaseEven DEF Tall
<1>2. P \in Nat \ {0} /\ B ^ (j + 1) = B * P
      <2>1. j \in 0..(2 * MaxLimbs + 1) /\ j <= 2 * MaxLimbs
            BY <1>1
      <2> QED
          BY <2>1, BaseTo
<1>3. B ^ n \in Nat \ {0} /\ B ^ (n + 1) = B * B ^ n
      <2>1. n \in 0..(2 * MaxLimbs + 1) /\ n <= 2 * MaxLimbs
            BY <1>1
      <2> QED
          BY <2>1, BaseTo
<1>4. k = <<q, r>> /\ q \in Nat /\ r \in Nat /\ q * vn + r = un /\ r < vn * (B * P)
      <2>1. k \in Nat \X Nat /\ k[1] * vn + k[2] = un /\ k[2] < vn * B ^ (j + 1)
            BY DEF Left
      <2>2. k = <<k[1], k[2]>> /\ k[1] \in Nat /\ k[2] \in Nat
            BY <2>1
      <2> QED
          BY <1>2, <2>1, <2>2
<1>5. vn * (B * P) = (vn * B) * P /\ vn * B \in Nat
      BY <1>1, <1>2
<1> HIDE DEF P
<1>6. g \in 0..(vn * B - 1) /\ low \in 0..(P - 1) /\ r = P * g + low
      <2>1. r < (vn * B) * P
            BY <1>4, <1>5
      <2> DEFINE s == vn * B
      <2>2. s \in Nat /\ r < s * P
            BY <1>5, <2>1
      <2> HIDE DEF s, r
      <2>3. g \in 0..(s - 1) /\ low \in 0..(P - 1) /\ r = P * g + low
            BY <1>2, <1>4, <2>2, DivBelow
      <2> QED
          BY <2>3 DEF s
<1> HIDE DEF g, low
<1>7. win = g
      <2> DEFINE M == B ^ (n + 1)
      <2>1. win = g % M
            BY DEF Digits, g, P
      <2>2. vn * B <= M /\ M \in Nat \ {0}
            <3> DEFINE h == B ^ n
            <3>1. h \in Nat \ {0} /\ vn <= h /\ M = B * h
                  BY <1>1, <1>3
            <3> HIDE DEF h, M
            <3>2. vn * B <= h * B
                  BY <1>1, <3>1
            <3>3. h * B = B * h /\ B * h \in Nat \ {0}
                  BY <1>1, <3>1
            <3> QED
                BY <3>1, <3>2, <3>3
      <2> HIDE DEF M
      <2>3. g \in 0..(M - 1)
            BY <1>5, <1>6, <2>2
      <2> QED
          BY <2>1, <2>2, <2>3, ModSmall
<1> HIDE DEF win
<1>8. win \in Nat /\ win < vn * B
      BY <1>5, <1>6, <1>7
<1>9. Euclid(c, win, vn)
      <2> DEFINE e == Estimate(win, vn, n)
      <2>1. e \in Int /\ win < (e + 1) * vn /\ e * vn < win + vn
            BY <1>8, EstimateIs
      <2> HIDE DEF e
      <2>2. Euclid(Corrected(e, win, vn, n), win, vn)
            BY <1>8, <2>1, CorrectedIs
      <2> QED
          BY <2>2 DEF e
<1>10. KnuthTurn(k, j, vn, n) = <<q + c[1] * P, r - win * P + c[2] * P>>
       BY DEF KnuthTurn, win, P
<1> HIDE DEF q, r, c
<1>11. c[1] \in Nat /\ c[2] \in Nat /\ win = c[1] * vn + c[2] /\ c[2] < vn
       BY <1>9 DEF Euclid
<1> DEFINE a == c[1]
           b == c[2]
<1>12. a \in Nat /\ b \in Nat /\ win = a * vn + b /\ b < vn
       BY <1>11
<1> HIDE DEF a, b
<1>13. r - win * P + b * P = b * P + low
       BY <1>2, <1>4, <1>6, <1>7, <1>12
<1>14. b * P + low \in Nat /\ b * P + low < vn * P
       <2>1. b * P \in Nat /\ vn * P \in Nat /\ low \in Nat /\ low < P
             BY <1>1, <1>2, <1>6, <1>12
       <2>2. b * P <= (vn - 1) * P
             BY <1>1, <1>2, <1>12
       <2>3. (vn - 1) * P = vn * P - P
             BY <1>1, <1>2
       <2> QED
           BY <1>2, <2>1, <2>2, <2>3
<1>15. (q + a * P) * vn + (b * P + low) = un
       <2>1. (q + a * P) * vn = q * vn + (a * vn) * P
             BY <1>1, <1>2, <1>4, <1>12
       <2>2. r = (a * vn + b) * P + low
             BY <1>2, <1>6, <1>7, <1>12
       <2>3. (a * vn + b) * P = (a * vn) * P + b * P
             BY <1>1, <1>2, <1>12
       <2>4. q * vn \in Int /\ (a * vn) * P \in Int /\ b * P \in Int /\ low \in Int
             BY <1>1, <1>2, <1>4, <1>6, <1>12
       <2> QED
           BY <1>4, <2>1, <2>2, <2>3, <2>4
<1>16. q + a * P \in Nat
       BY <1>2, <1>4, <1>12
<1> DEFINE d == q + a * P
           l == b * P + low
<1>17. KnuthTurn(k, j, vn, n) = <<d, l>>
       BY <1>10, <1>13 DEF a, b
<1>18. d \in Nat /\ l \in Nat /\ d * vn + l = un /\ l < vn * B ^ j
       BY <1>14, <1>15, <1>16 DEF P
<1> HIDE DEF d, l
<1> QED
    BY <1>17, <1>18 DEF Left

\* The remainder is shifted back.
LEMMA ShiftBack ==
    ASSUME NEW u \in Nat, NEW v \in Nat \ {0}, NEW p \in Nat \ {0}, NEW q \in Nat, NEW r \in Nat,
           q * (v * p) + r = u * p, r < v * p
    PROVE  Euclid(<<q, r \div p>>, u, v)
<1> DEFINE c == u - q * v
<1>1. c \in Int /\ r = p * c
      <2>1. q * (v * p) = (q * v) * p
            OBVIOUS
      <2>2. (u - q * v) * p = u * p - (q * v) * p
            OBVIOUS
      <2>3. u * p \in Int /\ (q * v) * p \in Int
            OBVIOUS
      <2>4. r = (u - q * v) * p
            BY <2>1, <2>2, <2>3
      <2> QED
          BY <2>4
<1> HIDE DEF c
<1>2. c >= 0
      <2> SUFFICES ASSUME c <= -1 PROVE FALSE
          BY <1>1
      <2>1. p * c <= p * (-1)
            BY <1>1
      <2> QED
          BY <1>1, <2>1
<1>3. c < v
      <2> SUFFICES ASSUME c >= v PROVE FALSE
          BY <1>1
      <2>1. p * c >= p * v /\ p * v = v * p /\ v * p \in Int
            BY <1>1
      <2> QED
          BY <1>1, <2>1
<1>4. r \div p = c
      <2>1. r = p * c + 0 /\ r \in Int /\ 0 \in 0..(p - 1)
            BY <1>1
      <2> QED
          BY <1>1, <2>1, Residue
<1>5. u = q * v + c
      BY DEF c
<1> QED
    BY <1>1, <1>2, <1>3, <1>4, <1>5 DEF Euclid

LEMMA SchoolbookIs ==
    ASSUME NEW n \in 1..MaxLimbs, NEW v, Tall(v, n), NEW m \in Nat, n <= m, m <= 2 * MaxLimbs,
           NEW u \in Nat, u < B ^ m
    PROVE  Euclid(Schoolbook(u, m, v, n), u, v)
<1>1. v \in Nat \ {0} /\ v < B ^ n /\ B \in Nat /\ B >= 2 /\ MaxLimbs \in Nat \ {0}
      <2>1. v \in Nat /\ v < B ^ n /\ B \in Nat /\ B >= 2 /\ MaxLimbs \in Nat \ {0}
            BY DivisionAssumption, BaseEven DEF Tall
      <2>2. B ^ (n - 1) <= v /\ B ^ (n - 1) \in Nat \ {0}
            BY TopDigit
      <2> QED
          BY <2>1, <2>2
<1>2. CASE n = 1
      <2> DEFINE q == u \div v
                 r == u % v
      <2>1. Schoolbook(u, m, v, n) = <<q, r>>
            BY <1>2 DEF Schoolbook
      <2>2. u < (u + 1) * v
            <3>1. (u + 1) * (v - 1) \in Nat /\ (u + 1) * v = (u + 1) + (u + 1) * (v - 1)
                  BY <1>1
            <3> QED
                BY <3>1
      <2>3. q \in Int /\ q >= 0 /\ r \in 0..(v - 1) /\ u = v * q + r
            <3> DEFINE c == u + 1
            <3>1. c \in Nat /\ u < c * v
                  BY <2>2
            <3> HIDE DEF c
            <3>2. q \in 0..(c - 1) /\ r \in 0..(v - 1) /\ u = v * q + r
                  BY <1>1, <3>1, DivBelow
            <3> HIDE DEF q, r
            <3> QED
                BY <3>1, <3>2
      <2> HIDE DEF q, r
      <2>4. q \in Nat /\ r \in Nat /\ r < v /\ u = q * v + r
            BY <1>1, <2>3
      <2> QED
          BY <2>1, <2>4 DEF Euclid
<1>3. CASE n # 1
      <2> DEFINE shift == LeadingZeros(Digit(v, n - 1))
                 p     == 2 ^ shift
                 vn    == v * p
                 un    == u * p
                 turns == m - n + 1
                 start == <<0, u * 2 ^ shift>>
                 S     == [i \in 0..turns |-> {k \in Nat \X Nat : Left(k, un, vn, turns - i)}]
                 step  == [a \in (1..turns) \X (Nat \X Nat) |-> KnuthTurn(a[2], turns - a[1], v * 2 ^ shift, n)]
                 end   == CHOOSE f : f = [i \in 0..turns |-> IF i = 0 THEN start
                                                             ELSE KnuthTurn(f[i - 1], turns - i, v * 2 ^ shift, n)]
      <2>1. n \in 2..MaxLimbs /\ turns \in Nat /\ turns >= 1 /\ n + turns <= 2 * MaxLimbs + 1
            BY <1>1, <1>3
      <2>2. p \in Nat \ {0} /\ vn \in Nat /\ vn < B ^ n /\ B ^ n <= 2 * vn
            BY Shifted
      <2>3. Schoolbook(u, m, v, n) = <<end[turns][1], (end[turns][2] % B ^ n) \div p>>
            BY <1>3 DEF Schoolbook
      <2>4. vn = v * 2 ^ shift /\ un = u * 2 ^ shift
            OBVIOUS
      <2> HIDE DEF shift
      <2>5. Tall(vn, n) /\ un \in Nat
            <3>1. un \in Nat
                  BY <2>2
            <3> HIDE DEF vn, un
            <3>2. 2 * vn <= B * vn
                  BY <1>1, <2>2
            <3>3. B ^ n <= B * vn
                  <4>1. B ^ n \in Nat
                        <5>1. n \in 0..(2 * MaxLimbs + 1)
                              BY <1>1
                        <5> QED
                            BY <5>1, BaseTo
                  <4>2. B * vn \in Nat
                        BY <1>1, <2>2
                  <4> QED
                      BY <2>2, <3>2, <4>1, <4>2
            <3> QED
                BY <2>2, <3>1, <3>3 DEF Tall
      <2>6. Left(start, un, vn, turns)
            <3>1. u < v * B ^ turns
                  <4>1. B ^ (n - 1) \in Nat \ {0} /\ B ^ (n - 1) <= v
                        BY TopDigit
                  <4>2. (n - 1) + turns = m /\ n - 1 \in Nat
                        BY <2>1
                  <4>3. B ^ ((n - 1) + turns) = B ^ (n - 1) * B ^ turns /\ B ^ turns \in Nat \ {0}
                        <5> HIDE DEF turns
                        <5>1. (n - 1) + turns <= 2 * MaxLimbs + 1
                              BY <1>1, <4>2
                        <5> QED
                            BY <2>1, <4>2, <5>1, BaseToSum
                  <4> DEFINE f == B ^ (n - 1)
                             g == B ^ turns
                  <4>4. f \in Nat /\ g \in Nat /\ f <= v /\ u < f * g
                        BY <4>1, <4>2, <4>3
                  <4> HIDE DEF f, g
                  <4>5. f * g <= v * g
                        BY <1>1, <4>4
                  <4>6. f * g \in Int /\ v * g \in Int
                        BY <1>1, <4>4
                  <4>7. u < v * g
                        BY <4>4, <4>5, <4>6
                  <4> QED
                      BY <4>7 DEF g
            <3> DEFINE g == B ^ turns
            <3>2. g \in Nat \ {0}
                  <4>1. turns \in 0..(2 * MaxLimbs + 1)
                        BY <1>1, <2>1
                  <4> HIDE DEF turns
                  <4> QED
                      BY <4>1, BaseTo
            <3>3. u < v * g
                  BY <3>1
            <3> HIDE DEF g, p
            <3>4. un < vn * g
                  <4>1. u + 1 <= v * g /\ v * g \in Nat
                        BY <1>1, <3>2, <3>3
                  <4> DEFINE h == v * g
                  <4>2. h \in Nat /\ u + 1 <= h
                        BY <4>1
                  <4> HIDE DEF h
                  <4>3. (u + 1) * p <= h * p /\ (u + 1) * p = u * p + p
                        BY <2>2, <4>2
                  <4>4. h * p = vn * g
                        BY <1>1, <2>2, <3>2 DEF h
                  <4>5. h * p \in Int /\ u * p \in Int
                        BY <2>2, <4>2
                  <4>6. u * p < h * p
                        BY <2>2, <4>3, <4>5
                  <4> QED
                      BY <4>4, <4>6
            <3>5. start = <<0, un>>
                  BY DEF p
            <3> HIDE DEF un, vn, start
            <3>6. 0 * vn + un = un
                  BY <2>2, <2>5
            <3>7. un < vn * B ^ turns
                  BY <3>4 DEF g
            <3> QED
                BY <2>5, <3>5, <3>6, <3>7 DEF Left
      <2> HIDE DEF vn, un
      <2>7. start \in S[0] /\ S \in [0..turns -> SUBSET (Nat \X Nat)]
            <3>1. 0 \in 0..turns /\ turns - 0 = turns /\ start \in Nat \X Nat
                  BY <2>1, <2>6 DEF Left
            <3> HIDE DEF turns, start
            <3>2. S[0] = {k \in Nat \X Nat : Left(k, un, vn, turns)}
                  BY <3>1
            <3> QED
                BY <2>6, <3>1, <3>2
      <2>8. \A i \in 0..turns : \A s : s \in S[i] <=> s \in Nat \X Nat /\ Left(s, un, vn, turns - i)
            OBVIOUS
      <2> HIDE DEF S, start
      <2>9. ASSUME NEW i \in 1..turns, NEW s \in S[i - 1]
            PROVE  /\ KnuthTurn(s, turns - i, v * 2 ^ shift, n) \in S[i]
                   /\ step[<<i, s>>] = KnuthTurn(s, turns - i, v * 2 ^ shift, n)
            <3>1. i - 1 \in 0..turns /\ i \in 0..turns /\ turns - i \in Nat /\ turns - (i - 1) = (turns - i) + 1
                  BY <2>1
            <3>2. s \in Nat \X Nat /\ Left(s, un, vn, (turns - i) + 1)
                  BY <2>8, <3>1
            <3>3. n + (turns - i) <= 2 * MaxLimbs
                  BY <1>1, <2>1
            <3>4. Left(KnuthTurn(s, turns - i, vn, n), un, vn, turns - i)
                  BY <2>1, <2>5, <3>1, <3>2, <3>3, KnuthTurnIs
            <3>5. KnuthTurn(s, turns - i, vn, n) \in Nat \X Nat
                  BY <3>4 DEF Left
            <3>6. KnuthTurn(s, turns - i, vn, n) \in S[i]
                  BY <2>8, <3>1, <3>4, <3>5
            <3>7. <<i, s>> \in (1..turns) \X (Nat \X Nat)
                  BY <3>2
            <3>8. step[<<i, s>>] = KnuthTurn(s, turns - i, v * 2 ^ shift, n)
                  BY <3>7
            <3> QED
                BY <2>4, <3>6, <3>8
      <2> HIDE DEF step, turns
      <2>10. \A i \in 1..turns : \A s \in S[i - 1] : step[<<i, s>>] \in S[i]
             BY <2>9
      <2> DEFINE Runs(f) == f = [i \in 0..turns |-> IF i = 0 THEN start
                                                    ELSE KnuthTurn(f[i - 1], turns - i, v * 2 ^ shift, n)]
      <2>11. PICK f : Loop(f, turns, start, step) /\ \A i \in 0..turns : f[i] \in S[i]
             BY <2>1, <2>7, <2>10, LoopExists
      <2>12. Runs(f)
             <3>2. f = [i \in 0..turns |-> IF i = 0 THEN start ELSE step[<<i, f[i - 1]>>]]
                   BY <2>11 DEF Loop
             <3>3. \A i \in 0..turns : i # 0 => step[<<i, f[i - 1]>>] = KnuthTurn(f[i - 1], turns - i, v * 2 ^ shift, n)
                   <4> TAKE i \in 0..turns
                   <4> HAVE i # 0
                   <4>1. i \in 1..turns /\ i - 1 \in 0..turns
                         BY <2>1
                   <4>2. f[i - 1] \in S[i - 1]
                         BY <2>11, <4>1
                   <4> QED
                       BY <2>9, <4>1, <4>2
             <3>4. \A i \in 0..turns : (IF i = 0 THEN start ELSE step[<<i, f[i - 1]>>])
                       = IF i = 0 THEN start ELSE KnuthTurn(f[i - 1], turns - i, v * 2 ^ shift, n)
                   BY <3>3, Zenon
             <3> QED
                 BY <3>2, <3>4, Zenon
      <2>13. Runs(end)
             <3> HIDE DEF Runs
             <3>1. end = CHOOSE g : Runs(g)
                   BY DEF Runs
             <3> QED
                 BY <2>12, <3>1, Zenon
      <2> HIDE DEF end
      <2>14. end[0] \in S[0] /\ \A i \in 1..turns : end[i - 1] \in S[i - 1] => end[i] \in S[i]
             <3>1. 0 \in 0..turns /\ \A i \in 1..turns : i \in 0..turns /\ i # 0
                   BY <2>1
             <3>2. end[0] = start /\ \A i \in 1..turns : end[i] = KnuthTurn(end[i - 1], turns - i, v * 2 ^ shift, n)
                   BY <2>13, <3>1
             <3> HIDE DEF Runs
             <3> QED
                 BY <2>7, <2>9, <3>2
      <2> HIDE DEF Runs
      <2>15. \A i \in 0..turns : end[i] \in S[i]
             BY <2>1, <2>14, LoopStays
      <2>16. end[turns] \in Nat \X Nat /\ Left(end[turns], un, vn, 0)
             <3>1. turns \in 0..turns /\ turns - turns = 0
                   BY <2>1
             <3> QED
                 BY <2>8, <2>15, <3>1
      <2> DEFINE q == end[turns][1]
                 r == end[turns][2]
      <2>17. q \in Nat /\ r \in Nat /\ q * (v * p) + r = u * p /\ r < v * p
             <3>1. vn * B ^ 0 = vn
                   BY <2>2, DivisionPowers
             <3> HIDE DEF p
             <3>2. q \in Nat /\ r \in Nat /\ q * vn + r = un /\ r < vn
                   BY <2>16, <3>1 DEF Left
             <3> HIDE DEF q, r
             <3> QED
                 BY <3>2 DEF vn, un
      <2>18. r % B ^ n = r
             <3> DEFINE M == B ^ n
             <3>1. M \in Nat \ {0}
                   <4>1. n \in 0..(2 * MaxLimbs + 1)
                         BY <1>1
                   <4> QED
                       BY <4>1, BaseTo
             <3>2. r < vn /\ vn < M
                   BY <2>2, <2>17 DEF vn
             <3> HIDE DEF r, M
             <3>3. r \in 0..(M - 1)
                   BY <2>2, <2>17, <3>1, <3>2
             <3>4. r % M = r
                   BY <3>1, <3>3, ModSmall
             <3> QED
                 BY <3>4 DEF M
      <2>19. Schoolbook(u, m, v, n) = <<q, r \div p>>
             BY <2>3, <2>18, Zenon
      <2> HIDE DEF q, r, p
      <2>20. Euclid(<<q, r \div p>>, u, v)
             BY <1>1, <2>2, <2>17, ShiftBack
      <2> QED
          BY <2>19, <2>20
<1> QED
    BY <1>2, <1>3

---------------------------------------------------------------------------
(* The recursion.                                                          *)

LEMMA RestoredIs ==
    ASSUME NEW q \in Nat, NEW r \in Int, NEW b \in Nat \ {0}, r < b, r + q * b >= 0
    PROVE  /\ Restored(q, r, b) \in Nat \X Nat /\ Restored(q, r, b)[2] < b
           /\ Restored(q, r, b)[1] * b + Restored(q, r, b)[2] = q * b + r
<1> DEFINE T == {k \in 0..q : r + k * b >= 0}
<1>1. T \subseteq Nat /\ q \in T /\ \A k \in T : k \in 0..q /\ r + k * b >= 0
      OBVIOUS
<1>2. \A k \in 0..q : r + k * b >= 0 => k \in T
      OBVIOUS
<1> HIDE DEF T
<1>3. PICK k \in T : \A m \in T : k <= m
      BY <1>1, LeastElement
<1>4. k \in 0..q /\ r + k * b >= 0
      BY <1>1, <1>3
<1>5. k = 0 \/ r + (k - 1) * b < 0
      <2> SUFFICES ASSUME k # 0, ~(r + (k - 1) * b < 0) PROVE FALSE
          OBVIOUS
      <2>1. k - 1 \in 0..q /\ ~(k <= k - 1)
            BY <1>4
      <2>2. r + (k - 1) * b \in Int
            BY <2>1
      <2>3. r + (k - 1) * b >= 0
            BY <2>2
      <2> QED
          BY <1>2, <1>3, <2>1, <2>3
<1> DEFINE l == CHOOSE m \in 0..q : r + m * b >= 0 /\ (m = 0 \/ r + (m - 1) * b < 0)
<1>6. l \in 0..q /\ r + l * b >= 0 /\ (l = 0 \/ r + (l - 1) * b < 0)
      <2>1. \E m \in 0..q : r + m * b >= 0 /\ (m = 0 \/ r + (m - 1) * b < 0)
            BY <1>4, <1>5
      <2> QED
          BY <2>1, Zenon
<1>7. Restored(q, r, b) = <<q - l, r + l * b>>
      BY DEF Restored
<1> HIDE DEF l
<1>8. r + l * b < b
      <2>1. CASE l = 0
            <3>1. l * b = 0
                  BY <2>1
            <3> QED
                BY <3>1
      <2>2. CASE r + (l - 1) * b < 0
            <3>1. (l - 1) * b = l * b - b /\ l * b \in Int
                  BY <1>6
            <3> QED
                BY <2>2, <3>1
      <2> QED
          BY <1>6, <2>1, <2>2
<1> DEFINE c == q - l
           d == r + l * b
<1>9. c \in Nat /\ d \in Nat /\ d < b
      BY <1>6, <1>8
<1>10. c * b + d = q * b + r
       BY <1>6
<1>11. Restored(q, r, b) = <<c, d>>
       BY <1>7
<1> HIDE DEF c, d
<1> QED
    BY <1>9, <1>10, <1>11

\* A divisor of n limbs with its top bit set.
Norm(b, n) == b \in Nat /\ b < B ^ n /\ B ^ n <= 2 * b

\* f divides 2n limbs by n.
Halves(f, n) == \A a, b \in Nat : a < B ^ n * B ^ n /\ Norm(b, n) => Euclid(f[<<a, b>>], a, b)

LEMMA TwiceTo ==
    ASSUME NEW n \in Nat, 2 * n <= 2 * MaxLimbs
    PROVE  B ^ n \in Nat \ {0} /\ B ^ (2 * n) = B ^ n * B ^ n
<1>1. n + n = 2 * n /\ n + n <= 2 * MaxLimbs + 1 /\ MaxLimbs \in Nat
      BY DivisionAssumption
<1> QED
    BY <1>1, BaseToSum

LEMMA PowerEven ==
    ASSUME NEW n \in 1..MaxLimbs
    PROVE  \E c \in Nat : B ^ n = 2 * c
<1>1. MaxLimbs \in Nat
      BY DivisionAssumption
<1>2. n - 1 \in 0..(2 * MaxLimbs + 1) /\ n - 1 <= 2 * MaxLimbs /\ (n - 1) + 1 = n
      BY <1>1
<1>3. B ^ (n - 1) \in Nat /\ B ^ ((n - 1) + 1) = B * B ^ (n - 1)
      BY <1>2, BaseTo
<1>4. PICK c \in Nat : B = 2 * c
      BY BaseEven
<1>5. B ^ n = 2 * (c * B ^ (n - 1)) /\ c * B ^ (n - 1) \in Nat
      BY <1>2, <1>3, <1>4
<1> QED
    BY <1>5

LEMMA D3n2nIs ==
    ASSUME NEW n \in Nat \ {0}, 2 * n <= MaxLimbs, NEW f, Halves(f, n),
           NEW a \in Nat, NEW b, Norm(b, 2 * n), a < B ^ n * (B ^ n * B ^ n)
    PROVE  Euclid(D3n2n(f, a, b, n), a, b)
<1> DEFINE P  == B ^ n
           a1 == a \div P
           a0 == a % P
           b1 == b \div P
           b0 == b % P
           top == f[<<a1, b1>>]
<1>1. MaxLimbs \in Nat /\ B \in Nat /\ B >= 2 /\ n \in 1..MaxLimbs /\ 2 * n \in 1..MaxLimbs
      BY DivisionAssumption, BaseEven
<1>2. P \in Nat \ {0} /\ B ^ (2 * n) = P * P
      BY <1>1, TwiceTo
<1>3. PICK c \in Nat : P = 2 * c
      BY <1>1, PowerEven
<1>4. b \in Nat /\ b < P * P /\ P * P <= 2 * b /\ a < (P * P) * P
      <2>1. b \in Nat /\ b < P * P /\ P * P <= 2 * b
            BY <1>2 DEF Norm
      <2>2. P * (P * P) = (P * P) * P
            BY <1>2
      <2> QED
          BY <2>1, <2>2
<1> HIDE DEF P
<1>5. a1 \in Nat /\ a1 < P * P /\ a0 \in 0..(P - 1) /\ a = P * a1 + a0
      <2> DEFINE s == P * P
      <2>1. s \in Nat /\ a < s * P
            BY <1>2, <1>4
      <2> HIDE DEF s
      <2>2. a1 \in 0..(s - 1) /\ a0 \in 0..(P - 1) /\ a = P * a1 + a0
            BY <1>2, <2>1, DivBelow
      <2> HIDE DEF a1, a0
      <2>3. a1 \in Nat /\ a1 < s
            BY <2>1, <2>2
      <2> QED
          BY <2>2, <2>3 DEF s
<1>6. b1 \in Nat /\ b1 < P /\ b0 \in 0..(P - 1) /\ b = P * b1 + b0
      <2>1. b1 \in 0..(P - 1) /\ b0 \in 0..(P - 1) /\ b = P * b1 + b0
            BY <1>2, <1>4, DivBelow
      <2> HIDE DEF b1, b0
      <2> QED
          BY <1>2, <2>1
<1>7. D3n2n(f, a, b, n) =
          LET rest == Restored(top[1], top[2] * P + a0 - top[1] * b0, b)
          IN  <<rest[1], rest[2] % B ^ (2 * n)>>
      BY DEF D3n2n, P
<1> HIDE DEF a1, a0, b1, b0
<1>8. P <= 2 * b1 /\ b1 >= 1
      <2>1. P <= 2 * b1
            <3> SUFFICES ASSUME 2 * b1 < P PROVE FALSE
                BY <1>2, <1>6
            <3>1. b1 + 1 <= c
                  BY <1>3, <1>6
            <3>2. P * (b1 + 1) <= P * c
                  BY <1>2, <1>3, <1>6, <3>1
            <3>3. P * (b1 + 1) = P * b1 + P /\ P * b1 \in Int
                  BY <1>2, <1>6
            <3>4. b < P * c
                  <4>1. P * c \in Int
                        BY <1>2
                  <4> QED
                      BY <1>2, <1>4, <1>6, <3>2, <3>3, <4>1
            <3>5. P * P = 2 * (P * c) /\ P * c \in Int
                  BY <1>2, <1>3
            <3> QED
                BY <1>4, <3>4, <3>5
      <2> QED
          BY <1>2, <1>6, <2>1
<1>9. Euclid(top, a1, b1)
      <2>1. Norm(b1, n)
            BY <1>6, <1>8 DEF Norm, P
      <2>2. a1 < B ^ n * B ^ n
            BY <1>5 DEF P
      <2> QED
          BY <1>5, <1>6, <2>1, <2>2 DEF Halves
<1> HIDE DEF top
<1> DEFINE q == top[1]
           s == top[2]
           r == s * P + a0 - q * b0
<1>10. q \in Nat /\ s \in Nat /\ a1 = q * b1 + s /\ s < b1
       BY <1>9 DEF Euclid
<1>11. D3n2n(f, a, b, n) = <<Restored(q, r, b)[1], Restored(q, r, b)[2] % B ^ (2 * n)>>
       BY <1>7
<1> HIDE DEF q, s
<1>12. a0 \in Nat /\ b0 \in Nat /\ a0 < P
       BY <1>2, <1>5, <1>6
<1>13. r \in Int /\ q * b + r = a
       <2>1. q * b = P * (q * b1) + q * b0
             BY <1>2, <1>6, <1>10, <1>12
       <2>2. P * a1 = P * (q * b1) + s * P
             BY <1>2, <1>6, <1>10
       <2>3. q * b0 \in Int /\ s * P \in Int /\ P * (q * b1) \in Int
             BY <1>2, <1>6, <1>10, <1>12
       <2> QED
           BY <1>5, <1>12, <2>1, <2>2, <2>3
<1>14. r < b
       <2>1. s * P <= (b1 - 1) * P /\ (b1 - 1) * P = P * b1 - P
             BY <1>2, <1>6, <1>10
       <2>2. q * b0 \in Nat /\ s * P \in Int /\ P * b1 \in Int
             BY <1>2, <1>6, <1>10, <1>12
       <2> QED
           BY <1>2, <1>6, <1>12, <2>1, <2>2
<1> HIDE DEF r
<1>15. r + q * b >= 0 /\ b # 0
       <2>1. q * b \in Int
             BY <1>4, <1>10
       <2>2. b # 0
             BY <1>2, <1>6, <1>8, <1>4
       <2> QED
           BY <1>13, <2>1, <2>2
<1>16. b \in Nat \ {0}
       BY <1>4, <1>15
<1>17. /\ Restored(q, r, b) \in Nat \X Nat /\ Restored(q, r, b)[2] < b
       /\ Restored(q, r, b)[1] * b + Restored(q, r, b)[2] = q * b + r
       BY <1>10, <1>13, <1>14, <1>15, <1>16, RestoredIs
<1> DEFINE d == Restored(q, r, b)[1]
           e == Restored(q, r, b)[2]
<1>18. d \in Nat /\ e \in Nat /\ e < b /\ d * b + e = a
       BY <1>13, <1>17
<1>19. D3n2n(f, a, b, n) = <<d, e % B ^ (2 * n)>>
       BY <1>11
<1> HIDE DEF d, e
<1>20. e % B ^ (2 * n) = e
       <2> DEFINE M == B ^ (2 * n)
       <2>1. M \in Nat \ {0} /\ b < M
             BY <1>2, <1>4
       <2> HIDE DEF M
       <2>2. e \in 0..(M - 1)
             BY <1>4, <1>18, <2>1
       <2>3. e % M = e
             BY <2>1, <2>2, ModSmall
       <2> QED
           BY <2>3 DEF M
<1> QED
    BY <1>18, <1>19, <1>20 DEF Euclid

LEMMA HalvedIs ==
    ASSUME NEW h \in Nat \ {0}, NEW n \in Nat, n = 2 * h, n <= MaxLimbs, n \div 2 = h, NEW f, Halves(f, h),
           NEW a \in Nat, a < B ^ n * B ^ n, NEW b, Norm(b, n)
    PROVE  Euclid(Halved(f, a, b, n), a, b)
<1> DEFINE P  == B ^ h
           a1 == a \div P
           a0 == a % P
           hi == D3n2n(f, a1, b, h)
           lo == D3n2n(f, hi[2] * P + a0, b, h)
<1>1. MaxLimbs \in Nat /\ 2 * h <= MaxLimbs /\ 2 * h <= 2 * MaxLimbs
      BY DivisionAssumption
<1>2. P \in Nat \ {0} /\ B ^ n = P * P
      BY <1>1, TwiceTo
<1>3. Halved(f, a, b, n) = <<hi[1] * P + lo[1], lo[2]>>
      BY DEF Halved
<1>4. b \in Nat /\ b < P * P /\ Norm(b, 2 * h)
      BY <1>2 DEF Norm
<1>5. a < (P * (P * P)) * P
      <2>1. a < (P * P) * (P * P)
            BY <1>2
      <2>2. (P * P) * (P * P) = (P * (P * P)) * P
            BY <1>2
      <2> QED
          BY <2>1, <2>2
<1>6. \A c \in Nat : c < P * (P * P) => Euclid(D3n2n(f, c, b, h), c, b)
      BY <1>1, <1>4, D3n2nIs
<1> HIDE DEF P
<1>7. a1 \in Nat /\ a1 < P * (P * P) /\ a0 \in 0..(P - 1) /\ a = P * a1 + a0
      <2> DEFINE s == P * (P * P)
      <2>1. s \in Nat /\ a < s * P
            BY <1>2, <1>5
      <2> HIDE DEF s
      <2>2. a1 \in 0..(s - 1) /\ a0 \in 0..(P - 1) /\ a = P * a1 + a0
            BY <1>2, <2>1, DivBelow
      <2> HIDE DEF a1, a0
      <2>3. a1 \in Nat /\ a1 < s
            BY <2>1, <2>2
      <2> QED
          BY <2>2, <2>3 DEF s
<1> HIDE DEF a1, a0
<1>8. Euclid(hi, a1, b)
      BY <1>6, <1>7
<1> HIDE DEF hi
<1> DEFINE q == hi[1]
           r == hi[2]
           c == r * P + a0
<1>9. q \in Nat /\ r \in Nat /\ a1 = q * b + r /\ r < b
      BY <1>8 DEF Euclid
<1>10. a0 \in Nat /\ a0 < P
       BY <1>2, <1>7
<1>11. lo = D3n2n(f, c, b, h)
       OBVIOUS
<1>12. Halved(f, a, b, n) = <<q * P + lo[1], lo[2]>>
       BY <1>3
<1> HIDE DEF lo, q, r
<1>13. c \in Nat /\ c < P * (P * P)
       <2>1. r * P <= (b - 1) * P /\ (b - 1) * P = b * P - P /\ r * P \in Nat /\ b * P \in Nat
             BY <1>2, <1>4, <1>9
       <2>2. c < b * P
             BY <1>2, <1>10, <2>1
       <2>3. b * P <= P * (P * P)
             <3> DEFINE s == P * P
             <3>1. s \in Nat /\ b <= s
                   BY <1>2, <1>4
             <3> HIDE DEF s
             <3>2. b * P <= s * P /\ s * P = P * s
                   BY <1>2, <1>4, <3>1
             <3> QED
                 BY <3>2 DEF s
       <2>4. P * (P * P) \in Int /\ c \in Nat
             BY <1>2, <1>10, <2>1
       <2> QED
           BY <2>1, <2>2, <2>3, <2>4
<1> HIDE DEF c
<1>14. Euclid(lo, c, b)
       BY <1>6, <1>11, <1>13
<1> DEFINE d == lo[1]
           e == lo[2]
<1>15. d \in Nat /\ e \in Nat /\ c = d * b + e /\ e < b
       BY <1>14 DEF Euclid
<1>16. Halved(f, a, b, n) = <<q * P + d, e>>
       BY <1>12
<1> HIDE DEF d, e
<1>17. a = (q * P + d) * b + e
       <2>1. c = r * P + a0
             BY DEF c
       <2>2. (q * P + d) * b = P * (q * b) + d * b
             BY <1>2, <1>4, <1>9, <1>15
       <2>3. P * a1 = P * (q * b) + r * P
             BY <1>2, <1>4, <1>9
       <2>4. P * (q * b) \in Int /\ d * b \in Int /\ r * P \in Int
             BY <1>2, <1>4, <1>9, <1>15
       <2> QED
           BY <1>7, <1>10, <1>15, <2>1, <2>2, <2>3, <2>4
<1>18. q * P + d \in Nat
       BY <1>2, <1>9, <1>15
<1> DEFINE g == q * P + d
<1>19. g \in Nat /\ a = g * b + e /\ Halved(f, a, b, n) = <<g, e>>
       BY <1>16, <1>17, <1>18
<1> HIDE DEF g
<1> QED
    BY <1>15, <1>19 DEF Euclid

\* The division of 2n limbs by n, from the one of half the limbs.
Level(n, half) ==
    IF n % 2 = 0 /\ n >= 2
    THEN [p \in Nat \X Nat |-> Halved(half, p[1], p[2], n)]
    ELSE [p \in Nat \X Nat |-> Schoolbook(p[1], 2 * n, p[2], n)]

LevelsTo(g, n) == g = [i \in 0..n |-> Level(i, g[i \div 2])]

LEMMA HalfIs ==
    ASSUME NEW n \in Nat
    PROVE  n \div 2 \in Nat /\ n \div 2 <= n /\ (n >= 1 => n \div 2 < n) /\ (n % 2 = 0 => n = 2 * (n \div 2))
OBVIOUS

LEMMA LevelsExist ==
    ASSUME NEW n \in Nat
    PROVE  \E g : LevelsTo(g, n)
<1> DEFINE S == {m \in Nat : \E g : LevelsTo(g, m)}
<1>1. 0 \in S
      <2> DEFINE c == Level(0, <<>>)
                 g == [i \in 0..0 |-> c]
      <2>1. Level(0, g[0 \div 2]) = c
            BY DEF Level
      <2>2. \A i \in 0..0 : i = 0
            OBVIOUS
      <2>3. \A i \in 0..0 : g[i] = Level(i, g[i \div 2])
            <3>1. g[0] = c
                  OBVIOUS
            <3> HIDE DEF g, c
            <3> QED
                BY <2>1, <2>2, <3>1
      <2>4. g = [i \in 0..0 |-> g[i]]
            OBVIOUS
      <2> HIDE DEF g
      <2>5. g = [i \in 0..0 |-> Level(i, g[i \div 2])]
            BY <2>3, <2>4, Zenon
      <2>6. LevelsTo(g, 0)
            BY <2>5 DEF LevelsTo
      <2> QED
          BY <2>6
<1>2. ASSUME NEW m \in Nat, m \in S PROVE m + 1 \in S
      <2>1. PICK g : LevelsTo(g, m)
            BY <1>2
      <2> DEFINE c == Level(m + 1, g[(m + 1) \div 2])
                 h == [i \in 0..(m + 1) |-> IF i <= m THEN g[i] ELSE c]
      <2>2. \A i \in 0..m : g[i] = Level(i, g[i \div 2])
            <3>1. g = [i \in 0..m |-> Level(i, g[i \div 2])]
                  BY <2>1 DEF LevelsTo
            <3> QED
                BY <3>1
      <2>3. \A i \in 0..m : h[i] = g[i]
            OBVIOUS
      <2>4. h[m + 1] = c
            <3>1. m + 1 \in 0..(m + 1) /\ ~(m + 1 <= m)
                  OBVIOUS
            <3> HIDE DEF c
            <3> QED
                BY <3>1
      <2>5. h = [i \in 0..(m + 1) |-> h[i]]
            OBVIOUS
      <2> HIDE DEF h
      <2>6. \A i \in 0..(m + 1) : h[i] = Level(i, h[i \div 2])
            <3> TAKE i \in 0..(m + 1)
            <3>1. CASE i <= m
                  <4>1. i \in 0..m /\ i \div 2 \in 0..m
                        BY <3>1, HalfIs
                  <4>2. h[i] = g[i] /\ h[i \div 2] = g[i \div 2] /\ g[i] = Level(i, g[i \div 2])
                        BY <2>2, <2>3, <4>1
                  <4> QED
                      BY <4>2
            <3>2. CASE i = m + 1
                  <4>1. i \in Nat /\ i >= 1
                        BY <3>2
                  <4>2. i \div 2 \in 0..m
                        <5>1. i \div 2 \in Nat /\ i \div 2 < i
                              BY <4>1, HalfIs
                        <5> QED
                            BY <3>2, <5>1
                  <4>3. h[i \div 2] = g[i \div 2]
                        BY <2>3, <4>2
                  <4> QED
                      BY <2>4, <3>2, <4>3
            <3> QED
                BY <3>1, <3>2
      <2>7. h = [i \in 0..(m + 1) |-> Level(i, h[i \div 2])]
            BY <2>5, <2>6, Zenon
      <2>8. LevelsTo(h, m + 1)
            BY <2>7 DEF LevelsTo
      <2> QED
          BY <2>8
<1>3. Nat \subseteq S
      <2> HIDE DEF S
      <2> QED
          BY <1>1, <1>2, SimpleInduction
<1> QED
    BY <1>3

LEMMA LevelsAgree ==
    ASSUME NEW n \in Nat, NEW m \in Nat, NEW g, NEW h, LevelsTo(g, n), LevelsTo(h, m)
    PROVE  \A i \in Nat : i <= n /\ i <= m => g[i] = h[i]
<1> DEFINE S == {i \in Nat : i <= n /\ i <= m => g[i] = h[i]}
<1>1. \A i \in 0..n : g[i] = Level(i, g[i \div 2])
      BY DEF LevelsTo
<1>2. \A i \in 0..m : h[i] = Level(i, h[i \div 2])
      BY DEF LevelsTo
<1>3. ASSUME NEW i \in Nat, \A l \in Nat : l < i => l \in S PROVE i \in S
      <2> SUFFICES ASSUME i <= n, i <= m PROVE g[i] = h[i]
          OBVIOUS
      <2>1. i \in 0..n /\ i \in 0..m
            OBVIOUS
      <2>2. g[i] = Level(i, g[i \div 2]) /\ h[i] = Level(i, h[i \div 2])
            BY <1>1, <1>2, <2>1
      <2>3. CASE i = 0
            <3>1. Level(i, g[i \div 2]) = Level(i, h[i \div 2])
                  BY <2>3 DEF Level
            <3> QED
                BY <2>2, <3>1
      <2>4. CASE i # 0
            <3>1. i \div 2 \in Nat /\ i \div 2 < i
                  BY <2>4, HalfIs
            <3>2. i \div 2 <= n /\ i \div 2 <= m
                  BY <3>1
            <3>3. g[i \div 2] = h[i \div 2]
                  BY <1>3, <3>1, <3>2
            <3> QED
                BY <2>2, <3>3
      <2> QED
          BY <2>3, <2>4
<1>4. Nat \subseteq S
      <2> HIDE DEF S
      <2> QED
          BY <1>3, StrongInduction
<1> QED
    BY <1>4

LEMMA D2n1nDef == \A n \in Nat : D2n1n[n] = Level(n, D2n1n[n \div 2])
<1> DEFINE G == [n \in Nat |-> CHOOSE g : LevelsTo(g, n)]
           f == [n \in Nat |-> G[n][n]]
           Is(d) == d = [n \in Nat |->
                IF n % 2 = 0 /\ n >= 2
                THEN [p \in Nat \X Nat |-> Halved(d[n \div 2], p[1], p[2], n)]
                ELSE [p \in Nat \X Nat |-> Schoolbook(p[1], 2 * n, p[2], n)]]
<1>1. \A n \in Nat : LevelsTo(G[n], n)
      <2> TAKE n \in Nat
      <2>1. \E g : LevelsTo(g, n)
            BY LevelsExist
      <2>2. G[n] = CHOOSE g : LevelsTo(g, n)
            OBVIOUS
      <2> QED
          BY <2>1, <2>2, Zenon
<1> HIDE DEF G
<1>2. \A n \in Nat : f[n] = Level(n, f[n \div 2])
      <2> TAKE n \in Nat
      <2>1. n \div 2 \in Nat /\ n \div 2 <= n
            BY HalfIs
      <2>2. f[n] = G[n][n] /\ f[n \div 2] = G[n \div 2][n \div 2]
            BY <2>1
      <2>3. G[n][n] = Level(n, G[n][n \div 2])
            <3>1. LevelsTo(G[n], n)
                  BY <1>1
            <3>2. n \in 0..n
                  OBVIOUS
            <3> DEFINE g == G[n]
            <3>3. g = [i \in 0..n |-> Level(i, g[i \div 2])]
                  BY <3>1 DEF LevelsTo
            <3> HIDE DEF g
            <3>4. g[n] = Level(n, g[n \div 2])
                  BY <3>2, <3>3
            <3> QED
                BY <3>4 DEF g
      <2>4. G[n \div 2][n \div 2] = G[n][n \div 2]
            <3> DEFINE g == G[n]
                       h == G[n \div 2]
                       m == n \div 2
            <3>1. m \in Nat /\ m <= n /\ LevelsTo(g, n) /\ LevelsTo(h, m)
                  BY <1>1, <2>1
            <3> HIDE DEF g, h, m
            <3>2. g[m] = h[m]
                  BY <3>1, LevelsAgree
            <3> QED
                BY <3>2 DEF g, h, m
      <2> QED
          BY <2>2, <2>3, <2>4
<1>3. f = [n \in Nat |-> f[n]]
      OBVIOUS
<1> HIDE DEF f
<1>4. Is(f)
      <2>1. \A n \in Nat : f[n] = IF n % 2 = 0 /\ n >= 2
                THEN [p \in Nat \X Nat |-> Halved(f[n \div 2], p[1], p[2], n)]
                ELSE [p \in Nat \X Nat |-> Schoolbook(p[1], 2 * n, p[2], n)]
            BY <1>2, Zenon DEF Level
      <2> QED
          BY <1>3, <2>1, Zenon
<1>5. D2n1n = CHOOSE d : Is(d)
      BY DEF D2n1n
<1>6. Is(D2n1n)
      <2> HIDE DEF Is
      <2> QED
          BY <1>4, <1>5, Zenon
<1>7. \A n \in Nat : D2n1n[n] = IF n % 2 = 0 /\ n >= 2
                THEN [p \in Nat \X Nat |-> Halved(D2n1n[n \div 2], p[1], p[2], n)]
                ELSE [p \in Nat \X Nat |-> Schoolbook(p[1], 2 * n, p[2], n)]
      <2> DEFINE d == D2n1n
      <2>1. Is(d)
            BY <1>6
      <2> HIDE DEF d
      <2>2. \A n \in Nat : d[n] = IF n % 2 = 0 /\ n >= 2
                THEN [p \in Nat \X Nat |-> Halved(d[n \div 2], p[1], p[2], n)]
                ELSE [p \in Nat \X Nat |-> Schoolbook(p[1], 2 * n, p[2], n)]
            BY <2>1
      <2> QED
          BY <2>2, Zenon DEF d
<1> QED
    BY <1>7, Zenon DEF Level

LEMMA NormTall ==
    ASSUME NEW n \in 1..MaxLimbs, NEW b, Norm(b, n)
    PROVE  Tall(b, n)
<1>1. B \in Nat /\ B >= 2 /\ MaxLimbs \in Nat
      BY DivisionAssumption, BaseEven
<1>2. b \in Nat /\ b < B ^ n /\ B ^ n <= 2 * b
      BY DEF Norm
<1>3. B ^ n \in Nat
      <2>1. n \in 0..(2 * MaxLimbs + 1)
            BY <1>1
      <2> QED
          BY <2>1, BaseTo
<1>4. 2 * b <= B * b /\ B * b \in Nat
      BY <1>1, <1>2
<1>5. B ^ n <= B * b
      BY <1>2, <1>3, <1>4
<1> QED
    BY <1>2, <1>5 DEF Tall

LEMMA D2n1nIs ==
    ASSUME NEW n \in 1..MaxLimbs
    PROVE  Halves(D2n1n[n], n)
<1> DEFINE S == {m \in Nat : m \in 1..MaxLimbs => Halves(D2n1n[m], m)}
<1>1. MaxLimbs \in Nat
      BY DivisionAssumption
<1>2. ASSUME NEW m \in Nat, \A l \in Nat : l < m => l \in S PROVE m \in S
      <2> SUFFICES ASSUME m \in 1..MaxLimbs PROVE Halves(D2n1n[m], m)
          OBVIOUS
      <2> SUFFICES ASSUME NEW a \in Nat, NEW b \in Nat, a < B ^ m * B ^ m, Norm(b, m)
                   PROVE  Euclid(D2n1n[m][<<a, b>>], a, b)
          BY DEF Halves
      <2>0. <<a, b>> \in Nat \X Nat /\ <<a, b>>[1] = a /\ <<a, b>>[2] = b
            OBVIOUS
      <2>1. D2n1n[m] = Level(m, D2n1n[m \div 2])
            BY D2n1nDef
      <2>2. CASE m % 2 = 0 /\ m >= 2
            <3> DEFINE h == m \div 2
                       f == D2n1n[h]
            <3>1. h \in Nat /\ h < m /\ m = 2 * h
                  BY <2>2, HalfIs
            <3>2. D2n1n[m][<<a, b>>] = Halved(f, a, b, m)
                  <4>1. D2n1n[m] = [p \in Nat \X Nat |-> Halved(f, p[1], p[2], m)]
                        BY <2>1, <2>2, Zenon DEF Level
                  <4> HIDE DEF f
                  <4> QED
                      BY <2>0, <4>1
            <3>3. m \div 2 = h
                  OBVIOUS
            <3>4. h \in S
                  BY <1>2, <3>1
            <3> HIDE DEF h
            <3>5. h \in 1..MaxLimbs /\ h \in Nat \ {0} /\ m <= MaxLimbs
                  BY <1>1, <2>2, <3>1
            <3>6. Halves(f, h)
                  BY <3>4, <3>5
            <3> HIDE DEF f
            <3>7. Euclid(Halved(f, a, b, m), a, b)
                  BY <3>1, <3>3, <3>5, <3>6, HalvedIs
            <3> QED
                BY <3>2, <3>7
      <2>3. CASE ~(m % 2 = 0 /\ m >= 2)
            <3>1. D2n1n[m][<<a, b>>] = Schoolbook(a, 2 * m, b, m)
                  <4>1. D2n1n[m] = [p \in Nat \X Nat |-> Schoolbook(p[1], 2 * m, p[2], m)]
                        BY <2>1, <2>3, Zenon DEF Level
                  <4> QED
                      BY <2>0, <4>1
            <3> DEFINE l == 2 * m
            <3>2. l \in Nat /\ m <= l /\ l <= 2 * MaxLimbs
                  BY <1>1
            <3>3. a < B ^ l
                  BY <1>1, <3>2, TwiceTo
            <3>4. Tall(b, m)
                  BY NormTall
            <3> HIDE DEF l
            <3>5. Euclid(Schoolbook(a, l, b, m), a, b)
                  BY <3>2, <3>3, <3>4, SchoolbookIs
            <3> QED
                BY <3>1, <3>5 DEF l
      <2> QED
          BY <2>2, <2>3
<1>3. Nat \subseteq S
      <2> HIDE DEF S
      <2> QED
          BY <1>2, StrongInduction
<1> QED
    BY <1>1, <1>3

---------------------------------------------------------------------------
(* The division by blocks, and the whole.                                  *)

\* What is found, what is left, and the blocks below place i.
LeftBlocks(k, un, vn, n, i) ==
    /\ k \in Nat \X Nat /\ k[2] < vn
    /\ k[1] * vn + k[2] * B ^ (i * n) + (un % B ^ (i * n)) = un

LEMMA BlockTurnIs ==
    ASSUME NEW n \in 1..MaxLimbs, NEW vn, Norm(vn, n), NEW un \in Nat, NEW i \in Nat, (i + 1) * n <= 2 * MaxLimbs,
           NEW k, LeftBlocks(k, un, vn, n, i + 1)
    PROVE  LeftBlocks(BlockTurn(k, i, un, vn, n), un, vn, n, i)
<1> DEFINE j   == i * n
           P   == B ^ j
           Q   == B ^ n
           q   == k[1]
           r   == k[2]
           dig == Digits(un, j, n)
           low == un % P
           a   == r * Q + dig
           d   == D2n1n[n][<<a, vn>>]
<1>1. MaxLimbs \in Nat /\ B \in Nat /\ B >= 2 /\ vn \in Nat
      BY DivisionAssumption, BaseEven DEF Norm
<1>2. j \in Nat /\ j + n = (i + 1) * n /\ j + n <= 2 * MaxLimbs + 1 /\ n \in Nat
      <2>1. i * n \in Nat /\ (i + 1) * n = i * n + n
            OBVIOUS
      <2>2. j + n <= 2 * MaxLimbs + 1
            BY <1>1, <2>1
      <2> QED
          BY <2>1, <2>2
<1>3. P \in Nat \ {0} /\ Q \in Nat \ {0} /\ B ^ ((i + 1) * n) = P * Q
      <2> HIDE DEF j
      <2>1. B ^ (j + n) = B ^ j * B ^ n /\ B ^ j \in Nat \ {0} /\ B ^ n \in Nat \ {0}
            BY <1>2, BaseToSum
      <2> QED
          BY <1>2, <2>1
<1>4. /\ k = <<q, r>> /\ q \in Nat /\ r \in Nat /\ r < vn
      /\ q * vn + r * (P * Q) + (un % (P * Q)) = un
      <2>1. /\ k \in Nat \X Nat /\ k[2] < vn
            /\ k[1] * vn + k[2] * B ^ ((i + 1) * n) + (un % B ^ ((i + 1) * n)) = un
            BY DEF LeftBlocks
      <2>2. k = <<k[1], k[2]>> /\ k[1] \in Nat /\ k[2] \in Nat
            BY <2>1
      <2>3. k[1] * vn + k[2] * (P * Q) + (un % (P * Q)) = un
            BY ONLY <1>3, <2>1, Zenon
      <2> QED
          BY <2>1, <2>2, <2>3
<1>5. BlockTurn(k, i, un, vn, n) = <<q + d[1] * P, d[2]>>
      BY DEF BlockTurn
<1>6. un % (P * Q) = dig * P + low /\ dig \in 0..(Q - 1) /\ low \in 0..(P - 1)
      <2> HIDE DEF j, P
      <2>1. un % (P * Q) = ((un \div P) % Q) * P + (un % P)
            BY <1>3, DivTwice
      <2>2. dig = (un \div P) % Q
            BY DEF Digits, P
      <2> HIDE DEF Q, dig
      <2>3. un \in Int
            OBVIOUS
      <2>4. un \div P \in Int /\ un % P \in 0..(P - 1)
            BY <1>3, <2>3, DivMod
      <2>5. (un \div P) % Q \in 0..(Q - 1)
            BY <1>3, <2>4, ModRange
      <2> QED
          BY ONLY <2>1, <2>2, <2>4, <2>5, Zenon
<1> HIDE DEF q, r, dig
<1>7. dig \in Nat /\ dig < Q /\ low \in Nat /\ vn <= Q
      <2>1. vn < Q
            BY DEF Norm
      <2> HIDE DEF Q, P, low
      <2> QED
          BY <1>1, <1>3, <1>6, <2>1
<1>8. a \in Nat /\ a < Q * Q
      <2> HIDE DEF Q
      <2>1. r * Q \in Nat /\ r * Q <= (vn - 1) * Q /\ (vn - 1) * Q = vn * Q - Q /\ vn * Q <= Q * Q
            BY <1>1, <1>3, <1>4, <1>7
      <2>2. vn * Q \in Int /\ Q * Q \in Int
            BY <1>1, <1>3
      <2> QED
          BY <1>3, <1>7, <2>1, <2>2
<1>9. Euclid(d, a, vn)
      <2>1. Halves(D2n1n[n], n)
            BY D2n1nIs
      <2> HIDE DEF a
      <2>2. a \in Nat /\ vn \in Nat /\ a < B ^ n * B ^ n
            BY <1>1, <1>8
      <2> QED
          BY <2>1, <2>2 DEF Halves
<1> HIDE DEF d
<1> DEFINE e == d[1]
           f == d[2]
<1>10. e \in Nat /\ f \in Nat /\ a = e * vn + f /\ f < vn
       BY <1>9 DEF Euclid
<1>11. BlockTurn(k, i, un, vn, n) = <<q + e * P, f>>
       BY <1>5
<1> HIDE DEF e, f, P, Q, low
<1> DEFINE g == q + e * P
<1>12. g \in Nat
       BY <1>3, <1>4, <1>10
<1>13. g * vn + f * P + low = un
       <2>1. g * vn = q * vn + (e * vn) * P
             BY <1>1, <1>3, <1>4, <1>10
       <2>2. (r * Q + dig) * P = (e * vn + f) * P
             BY <1>10
       <2>3. (r * Q + dig) * P = r * (P * Q) + dig * P /\ (e * vn + f) * P = (e * vn) * P + f * P
             BY <1>1, <1>3, <1>4, <1>7, <1>10
       <2>4. /\ q * vn \in Int /\ (e * vn) * P \in Int /\ f * P \in Int
             /\ r * (P * Q) \in Int /\ dig * P \in Int
             BY <1>1, <1>3, <1>4, <1>7, <1>10
       <2>5. q * vn + r * (P * Q) + (dig * P + low) = un
             BY ONLY <1>4, <1>6
       <2> HIDE DEF a, g
       <2> QED
           BY <1>7, <2>1, <2>2, <2>3, <2>4, <2>5
<1>14. BlockTurn(k, i, un, vn, n) = <<g, f>>
       BY <1>11
<1> HIDE DEF g
<1>15. g * vn + f * B ^ (i * n) + (un % B ^ (i * n)) = un
       BY <1>13 DEF P, j, low
<1> HIDE DEF j
<1> QED
    BY <1>10, <1>12, <1>14, <1>15 DEF LeftBlocks

LEMMA DivUnsignedIs ==
    ASSUME NEW n \in 1..MaxLimbs, NEW v, Tall(v, n), NEW ulen \in Nat, n <= ulen, ulen <= MaxLimbs,
           NEW u \in Nat, u < B ^ ulen
    PROVE  Euclid(DivUnsigned(u, ulen, v, n), u, v)
<1> DEFINE shift == LeadingZeros(Digit(v, n - 1))
           p     == 2 ^ shift
           vn    == v * p
           un    == u * p
           t     == (ulen + 1 + n - 1) \div n
           top   == Digits(un, (t - 1) * n, n)
           start == IF top < vn THEN <<0, top>> ELSE <<B ^ ((t - 1) * n), top - vn>>
           m     == t - 1
           Runs(f) == f = [i \in 0..(t - 1) |-> IF i = 0 THEN start ELSE BlockTurn(f[i - 1], t - 1 - i, un, vn, n)]
           end   == CHOOSE f : Runs(f)
           S     == [i \in 0..m |-> {k \in Nat \X Nat : LeftBlocks(k, un, vn, n, m - i)}]
           step  == [a \in (1..m) \X (Nat \X Nat) |-> BlockTurn(a[2], m - a[1], un, vn, n)]
<1>1. v \in Nat \ {0} /\ v < B ^ n /\ B \in Nat /\ B >= 2 /\ MaxLimbs \in Nat \ {0} /\ n \in Nat \ {0}
      <2>1. v \in Nat /\ v < B ^ n /\ B \in Nat /\ B >= 2 /\ MaxLimbs \in Nat \ {0}
            BY DivisionAssumption, BaseEven DEF Tall
      <2>2. B ^ (n - 1) <= v /\ B ^ (n - 1) \in Nat \ {0}
            BY TopDigit
      <2> QED
          BY <2>1, <2>2
<1>2. p \in Nat \ {0} /\ p < B /\ Norm(vn, n)
      BY Shifted DEF Norm
<1>3. DivUnsigned(u, ulen, v, n) = <<end[t - 1][1], end[t - 1][2] \div p>>
      BY DEF DivUnsigned
<1> HIDE DEF shift, p
<1>4. vn \in Nat /\ vn < B ^ n /\ B ^ n <= 2 * vn /\ un \in Nat
      <2>1. un \in Nat
            BY <1>2
      <2> QED
          BY <1>2, <2>1 DEF Norm
<1>5. t \in Nat /\ t >= 1 /\ n * t >= ulen + 1 /\ n * t <= 2 * MaxLimbs
      <2> DEFINE l == ulen + 1 + n - 1
                 r == l % n
      <2>1. l \in Int /\ l = ulen + n
            BY <1>1
      <2> HIDE DEF l
      <2>2. l = n * t + r /\ r \in 0..(n - 1) /\ t \in Int
            BY <1>1, <2>1, DivMod DEF l
      <2> HIDE DEF r, t
      <2>3. n * t >= ulen + 1 /\ n * t <= 2 * MaxLimbs
            <3>1. n * t \in Int
                  BY <1>1, <2>2
            <3> QED
                BY <1>1, <2>1, <2>2, <3>1
      <2>4. t >= 1
            <3> SUFFICES ASSUME t <= 0 PROVE FALSE
                BY <2>2
            <3>1. n * t <= 0 /\ n * t \in Int
                  BY <1>1, <2>2
            <3>2. ulen + 1 > 0
                  OBVIOUS
            <3> QED
                BY <2>3, <3>1, <3>2
      <2> QED
          BY <2>2, <2>3, <2>4
<1> HIDE DEF t
<1>6. m \in Nat /\ m + 1 = t /\ m * n \in Nat /\ m * n + n = n * t /\ m * n + n <= 2 * MaxLimbs + 1
      <2>1. m \in Nat /\ m + 1 = t
            BY <1>5
      <2>2. (m + 1) * n = m * n + n /\ m * n \in Nat
            BY <1>1, <2>1
      <2>3. t * n = n * t
            BY <1>1, <1>5
      <2>4. m * n + n = n * t
            BY <2>1, <2>2, <2>3
      <2>5. m * n + n <= 2 * MaxLimbs + 1
            <3> HIDE DEF m
            <3> QED
                BY <1>1, <1>5, <2>2, <2>4
      <2> QED
          BY <2>1, <2>2, <2>4, <2>5
<1> DEFINE P == B ^ (m * n)
           Q == B ^ n
<1>7. P \in Nat \ {0} /\ Q \in Nat \ {0} /\ B ^ (n * t) = P * Q
      <2> DEFINE j == m * n
      <2>1. j \in Nat /\ j + n = n * t /\ j + n <= 2 * MaxLimbs + 1
            BY <1>6
      <2> HIDE DEF j, m
      <2>2. B ^ (j + n) = B ^ j * B ^ n /\ B ^ j \in Nat \ {0} /\ B ^ n \in Nat \ {0}
            BY <1>1, <2>1, BaseToSum
      <2> QED
          BY <2>1, <2>2 DEF j
<1>8. un < Q * P
      <2>1. ulen \in 0..(2 * MaxLimbs + 1) /\ ulen <= 2 * MaxLimbs
            BY <1>1
      <2>2. B ^ ulen \in Nat \ {0} /\ B ^ (ulen + 1) = B * B ^ ulen
            BY <2>1, BaseTo
      <2> DEFINE c == B ^ ulen
                 d == B ^ (ulen + 1)
      <2>3. un < d
            <3>1. c \in Nat \ {0} /\ u < c /\ d = B * c
                  BY <2>2
            <3> HIDE DEF c, d
            <3>2. u * p <= u * B
                  BY <1>1, <1>2
            <3>3. u * B <= (c - 1) * B /\ (c - 1) * B = B * c - B
                  BY <1>1, <3>1
            <3>4. u * p \in Int /\ u * B \in Int /\ B * c \in Int
                  BY <1>1, <1>2, <3>1
            <3> QED
                BY <1>1, <3>1, <3>2, <3>3, <3>4
      <2>4. d <= B ^ (n * t)
            <3> DEFINE w == n * t - (ulen + 1)
            <3>1. n * t \in Int
                  BY <1>1, <1>5
            <3>2. w \in Nat /\ (ulen + 1) + w = n * t /\ (ulen + 1) + w <= 2 * MaxLimbs + 1
                  BY <1>1, <1>5, <3>1
            <3> HIDE DEF w
            <3>3. B ^ ((ulen + 1) + w) = B ^ (ulen + 1) * B ^ w /\ B ^ (ulen + 1) \in Nat \ {0} /\ B ^ w \in Nat \ {0}
                  BY <3>2, BaseToSum
            <3> DEFINE g == B ^ w
            <3>4. g \in Nat \ {0} /\ d \in Nat /\ B ^ (n * t) = d * g
                  BY <3>2, <3>3
            <3> HIDE DEF d, g
            <3>5. d * (g - 1) \in Nat /\ d * g = d + d * (g - 1)
                  BY <3>4
            <3> QED
                BY <3>4, <3>5
      <2>5. P * Q = Q * P
            <3> HIDE DEF P, Q
            <3> QED
                BY <1>7
      <2>6. d \in Int /\ Q * P \in Int
            <3>1. d \in Int
                  BY <1>1, <2>2
            <3> HIDE DEF P, Q
            <3> QED
                BY <1>7, <3>1
      <2> HIDE DEF d, P, Q, un
      <2> QED
          BY <1>4, <1>7, <2>3, <2>4, <2>5, <2>6
<1> DEFINE low == un % P
<1>9. top \in Nat /\ top < Q /\ low \in 0..(P - 1) /\ un = P * top + low
      <2> DEFINE g == un \div P
      <2>1. top = g % Q
            BY DEF Digits
      <2> HIDE DEF un, P, Q, top
      <2>2. g \in 0..(Q - 1) /\ low \in 0..(P - 1) /\ un = P * g + low
            BY <1>4, <1>7, <1>8, DivBelow
      <2> HIDE DEF g, low
      <2>3. g % Q = g
            BY <1>7, <2>2, ModSmall
      <2>4. g \in Nat /\ g < Q
            BY <1>7, <2>2
      <2> QED
          BY <2>1, <2>2, <2>3, <2>4
<1>10. start = IF top < vn THEN <<0, top>> ELSE <<P, top - vn>>
       OBVIOUS
<1> HIDE DEF top, vn, un, start
<1>11. LeftBlocks(start, un, vn, n, m)
       <2> HIDE DEF m
       <2>0. vn < Q /\ Q <= 2 * vn
             BY <1>4
       <2>1. CASE top < vn
             <3>1. start = <<0, top>>
                   BY <1>10, <2>1
             <3>2. 0 * vn + top * P + low = un
                   <4> HIDE DEF P, low, Q
                   <4>1. low \in Int
                         BY <1>7, <1>9
                   <4> QED
                       BY <1>4, <1>7, <1>9, <4>1
             <3> HIDE DEF P, Q
             <3>3. 0 * vn + top * B ^ (m * n) + (un % B ^ (m * n)) = un
                   BY <3>2 DEF P
             <3> QED
                 BY <1>9, <2>1, <3>1, <3>3 DEF LeftBlocks
       <2>2. CASE ~(top < vn)
             <3> DEFINE r == top - vn
             <3>1. start = <<P, r>>
                   BY <1>10, <2>2
             <3>2. r \in Nat /\ r < vn
                   <4> HIDE DEF Q, P, low
                   <4> QED
                       BY <1>4, <1>7, <1>9, <2>0, <2>2
             <3>3. P * vn + r * P + low = un
                   <4> HIDE DEF P, low, Q
                   <4>1. low \in Int
                         BY <1>7, <1>9
                   <4>2. r * P = P * top - P * vn /\ P * top \in Int /\ P * vn \in Int
                         BY <1>4, <1>7, <1>9
                   <4> HIDE DEF r
                   <4> QED
                       BY <1>4, <1>9, <4>1, <4>2
             <3> HIDE DEF r
             <3>4. P * vn + r * B ^ (m * n) + (un % B ^ (m * n)) = un
                   BY <3>3
             <3> HIDE DEF P, Q
             <3> QED
                 BY <1>7, <3>1, <3>2, <3>4 DEF LeftBlocks
       <2> QED
           BY <2>1, <2>2
<1> HIDE DEF P, Q, low
<1>12. \A i \in 0..m : \A s : s \in S[i] <=> s \in Nat \X Nat /\ LeftBlocks(s, un, vn, n, m - i)
       OBVIOUS
<1>13. start \in S[0] /\ S \in [0..m -> SUBSET (Nat \X Nat)]
       <2>1. 0 \in 0..m /\ m - 0 = m
             BY <1>6
       <2>2. start \in Nat \X Nat
             BY <1>11 DEF LeftBlocks
       <2>3. start \in S[0]
             BY <1>11, <1>12, <2>1, <2>2
       <2> QED
           BY <2>3
<1> HIDE DEF S
<1>14. ASSUME NEW i \in 1..m, NEW s \in S[i - 1]
       PROVE  BlockTurn(s, m - i, un, vn, n) \in S[i] /\ step[<<i, s>>] = BlockTurn(s, m - i, un, vn, n)
       <2>1. i - 1 \in 0..m /\ i \in 0..m /\ m - i \in Nat /\ m - (i - 1) = (m - i) + 1
             BY <1>6
       <2>2. s \in Nat \X Nat /\ LeftBlocks(s, un, vn, n, (m - i) + 1)
             BY <1>12, <2>1
       <2>3. ((m - i) + 1) * n <= 2 * MaxLimbs
             <3>1. (m - i) + 1 <= m + 1 /\ (m - i) + 1 \in Nat
                   <4> HIDE DEF m
                   <4> QED
                       BY <1>6, <2>1
             <3> DEFINE c == (m - i) + 1
             <3>2. c \in Nat /\ c <= t
                   BY <1>6, <3>1
             <3> HIDE DEF c
             <3>3. c * n <= t * n /\ t * n = n * t
                   BY <1>1, <1>5, <3>2
             <3>4. c * n \in Int /\ n * t \in Int
                   BY <1>1, <1>5, <3>2
             <3>5. c * n <= 2 * MaxLimbs
                   BY <1>1, <1>5, <3>3, <3>4
             <3> QED
                 BY <3>5 DEF c
       <2>4. LeftBlocks(BlockTurn(s, m - i, un, vn, n), un, vn, n, m - i)
             <3> DEFINE j == m - i
             <3>1. j \in Nat /\ LeftBlocks(s, un, vn, n, j + 1) /\ (j + 1) * n <= 2 * MaxLimbs
                   BY <2>1, <2>2, <2>3
             <3> HIDE DEF j, m
             <3>2. LeftBlocks(BlockTurn(s, j, un, vn, n), un, vn, n, j)
                   BY <1>2, <1>4, <3>1, BlockTurnIs
             <3> QED
                 BY <3>2 DEF j
       <2>5. BlockTurn(s, m - i, un, vn, n) \in Nat \X Nat
             BY <2>4 DEF LeftBlocks
       <2>6. BlockTurn(s, m - i, un, vn, n) \in S[i]
             BY <1>12, <2>1, <2>4, <2>5
       <2>7. <<i, s>> \in (1..m) \X (Nat \X Nat)
             BY <2>2
       <2>8. step[<<i, s>>] = BlockTurn(s, m - i, un, vn, n)
             <3> HIDE DEF m
             <3> QED
                 BY <2>7
       <2> QED
           BY <2>6, <2>8
<1> HIDE DEF step
<1>15. \A f : Runs(f) <=> f = [i \in 0..m |-> IF i = 0 THEN start ELSE BlockTurn(f[i - 1], m - i, un, vn, n)]
       OBVIOUS
<1>16. m \in Nat
       BY <1>6
<1> HIDE DEF m, Runs
<1>17. \A i \in 1..m : \A s \in S[i - 1] : step[<<i, s>>] \in S[i]
       BY <1>14
<1>18. PICK f : Loop(f, m, start, step) /\ \A i \in 0..m : f[i] \in S[i]
       BY <1>13, <1>16, <1>17, LoopExists
<1>19. Runs(f)
       <2>1. f = [i \in 0..m |-> IF i = 0 THEN start ELSE step[<<i, f[i - 1]>>]]
             BY <1>18 DEF Loop
       <2>2. \A i \in 0..m : i # 0 => step[<<i, f[i - 1]>>] = BlockTurn(f[i - 1], m - i, un, vn, n)
             <3> TAKE i \in 0..m
             <3> HAVE i # 0
             <3>1. i \in 1..m /\ i - 1 \in 0..m
                   BY <1>16
             <3>2. f[i - 1] \in S[i - 1]
                   BY <1>18, <3>1
             <3> QED
                 BY <1>14, <3>1, <3>2
       <2>3. \A i \in 0..m : (IF i = 0 THEN start ELSE step[<<i, f[i - 1]>>])
                 = IF i = 0 THEN start ELSE BlockTurn(f[i - 1], m - i, un, vn, n)
             BY <2>2, Zenon
       <2>4. f = [i \in 0..m |-> IF i = 0 THEN start ELSE BlockTurn(f[i - 1], m - i, un, vn, n)]
             BY <2>1, <2>3, Zenon
       <2> QED
           BY <1>15, <2>4
<1>20. Runs(end)
       BY <1>19, Zenon
<1> HIDE DEF end
<1>21. end[0] \in S[0] /\ \A i \in 1..m : end[i - 1] \in S[i - 1] => end[i] \in S[i]
       <2>1. 0 \in 0..m /\ \A i \in 1..m : i \in 0..m /\ i # 0
             BY <1>16
       <2>2. end = [i \in 0..m |-> IF i = 0 THEN start ELSE BlockTurn(end[i - 1], m - i, un, vn, n)]
             BY <1>15, <1>20
       <2>3. end[0] = start /\ \A i \in 1..m : end[i] = BlockTurn(end[i - 1], m - i, un, vn, n)
             BY <2>1, <2>2
       <2> QED
           BY <1>13, <1>14, <2>3
<1>22. \A i \in 0..m : end[i] \in S[i]
       BY <1>16, <1>21, LoopStays
<1>23. end[m] \in Nat \X Nat /\ LeftBlocks(end[m], un, vn, n, 0)
       <2>1. m \in 0..m /\ m - m = 0
             BY <1>16
       <2> QED
           BY <1>12, <1>22, <2>1
<1> DEFINE q == end[m][1]
           r == end[m][2]
<1>24. q \in Nat /\ r \in Nat /\ q * (v * p) + r = u * p /\ r < v * p
       <2>1. B ^ (0 * n) = 1 /\ un % 1 = 0
             <3>1. 0 * n = 0
                   BY <1>1
             <3> QED
                 BY <1>4, <3>1, DivisionPowers
       <2>2. q \in Nat /\ r \in Nat /\ r < vn /\ q * vn + r * 1 + 0 = un
             BY <1>23, <2>1 DEF LeftBlocks
       <2> HIDE DEF q, r
       <2>3. q * vn + r = un
             <3>1. q * vn \in Int
                   BY <1>4, <2>2
             <3> QED
                 BY <2>2, <3>1
       <2> QED
           BY <2>2, <2>3 DEF vn, un
<1>25. DivUnsigned(u, ulen, v, n) = <<q, r \div p>>
       BY <1>3 DEF m
<1> HIDE DEF q, r
<1>26. Euclid(<<q, r \div p>>, u, v)
       BY <1>1, <1>2, <1>24, ShiftBack
<1> QED
    BY <1>25, <1>26

\* The quotient and the remainder of every two numbers of at most MaxLimbs limbs.
LEMMA DivmodAbsIs ==
    ASSUME NEW u \in 0..(B ^ MaxLimbs - 1), NEW v \in 1..(B ^ MaxLimbs - 1)
    PROVE  DivmodAbs(u, v) = <<u \div v, u % v>>
<1> DEFINE m == TrimLen(u)
           n == TrimLen(v)
<1>1. MaxLimbs \in Nat \ {0} /\ B \in Nat /\ B >= 2
      BY DivisionAssumption, BaseEven
<1>2. B ^ MaxLimbs \in Nat
      <2>1. MaxLimbs \in 0..(2 * MaxLimbs + 1)
            BY <1>1
      <2> QED
          BY <2>1, BaseTo
<1>3. u \in Nat /\ u < B ^ MaxLimbs /\ v \in Nat \ {0} /\ v < B ^ MaxLimbs
      BY <1>2
<1>4. m \in 1..MaxLimbs /\ Trims(u, m) /\ n \in 1..MaxLimbs /\ Trims(v, n)
      BY <1>3, TrimIs
<1>5. DivmodAbs(u, v) = IF u < v THEN <<0, u>> ELSE IF n % 2 = 1 THEN Schoolbook(u, m, v, n) ELSE DivUnsigned(u, m, v, n)
      BY DEF DivmodAbs
<1> HIDE DEF m, n
<1>6. CASE u < v
      <2>1. Euclid(<<0, u>>, u, v)
            <3>1. u = 0 * v + u
                  BY <1>3
            <3> QED
                BY <1>3, <1>6, <3>1 DEF Euclid
      <2>2. <<0, u>> = <<u \div v, u % v>>
            BY <1>3, <2>1, EuclidIs
      <2> QED
          BY <1>5, <1>6, <2>2
<1>7. CASE ~(u < v)
      <2>1. n \in 0..(2 * MaxLimbs + 1) /\ n - 1 \in 0..(2 * MaxLimbs + 1) /\ n - 1 <= 2 * MaxLimbs /\ (n - 1) + 1 = n
            BY <1>1, <1>4
      <2>2. B ^ n = B * B ^ (n - 1) /\ B ^ (n - 1) \in Nat \ {0}
            BY <2>1, BaseTo
      <2>3. Tall(v, n)
            <3>1. v < B ^ n
                  BY <1>4 DEF Trims
            <3>2. B ^ (n - 1) <= v
                  <4>1. CASE n = 1
                        <5>1. B ^ (n - 1) = 1
                              BY <4>1, DivisionPowers
                        <5> QED
                            BY <1>3, <5>1
                  <4>2. CASE n # 1
                        BY <1>3, <1>4, <2>2, <4>2 DEF Trims
                  <4> QED
                      BY <4>1, <4>2
            <3>3. B * B ^ (n - 1) <= B * v
                  <4> DEFINE c == B ^ (n - 1)
                  <4>1. c \in Nat /\ c <= v
                        BY <2>2, <3>2
                  <4> HIDE DEF c
                  <4>2. B * c <= B * v
                        BY <1>1, <1>3, <4>1
                  <4> QED
                      BY <4>2 DEF c
            <3> QED
                BY <1>3, <2>2, <3>1, <3>3 DEF Tall
      <2>4. n <= m
            <3> SUFFICES ASSUME m <= n - 1 PROVE FALSE
                BY <1>4
            <3>1. n - 1 \in 1..MaxLimbs /\ n # 1
                  BY <1>1, <1>4
            <3> DEFINE w == (n - 1) - m
            <3>2. w \in Nat /\ m \in Nat /\ m + w = n - 1 /\ m + w <= 2 * MaxLimbs + 1
                  BY <1>1, <1>4, <3>1
            <3> HIDE DEF w
            <3>3. B ^ (m + w) = B ^ m * B ^ w /\ B ^ m \in Nat \ {0} /\ B ^ w \in Nat \ {0}
                  BY <3>2, BaseToSum
            <3>4. u < B ^ m /\ v >= B ^ (n - 1)
                  BY <1>4, <3>1 DEF Trims
            <3> DEFINE c == B ^ m
                       d == B ^ w
            <3>5. c \in Nat /\ d \in Nat \ {0} /\ u < c /\ v >= c * d
                  BY <3>2, <3>3, <3>4
            <3> HIDE DEF c, d
            <3>6. c * (d - 1) \in Nat /\ c * d = c + c * (d - 1)
                  BY <3>5
            <3> QED
                BY <1>3, <1>7, <3>5, <3>6
      <2>5. u < B ^ m /\ m \in Nat /\ m <= 2 * MaxLimbs /\ m <= MaxLimbs
            BY <1>1, <1>4 DEF Trims
      <2>6. Euclid(Schoolbook(u, m, v, n), u, v)
            BY <1>3, <1>4, <2>3, <2>4, <2>5, SchoolbookIs
      <2>7. Euclid(DivUnsigned(u, m, v, n), u, v)
            BY <1>3, <1>4, <2>3, <2>4, <2>5, DivUnsignedIs
      <2>8. /\ Schoolbook(u, m, v, n) = <<u \div v, u % v>>
            /\ DivUnsigned(u, m, v, n) = <<u \div v, u % v>>
            BY <1>3, <2>6, <2>7, EuclidIs
      <2> QED
          BY <1>5, <1>7, <2>8
<1> QED
    BY <1>6, <1>7

\* What a division is asked is kept, and what it tells is right.
DivisionInv == pair \in Dividends \X Divisors /\ QuotientRight

\* The division of div.rs, by Knuth's digits below an odd number of limbs and
\* by halves and blocks above, is the Euclidean one, whatever the width of a
\* limb, the number of limbs and the operands.
THEOREM DivisionCorrect == DivSpec => []QuotientRight
<1>1. DivInit => DivisionInv
      BY DEF DivInit, DivisionInv, QuotientRight
<1>2. DivisionInv /\ [Divide]_dvars => DivisionInv'
      <2> SUFFICES ASSUME DivisionInv, [Divide]_dvars PROVE DivisionInv'
          OBVIOUS
      <2>1. CASE Divide
            <3> DEFINE u == pair[1]
                       v == pair[2]
            <3>1. u \in Dividends /\ v \in Divisors /\ pair \in Dividends \X Divisors
                  BY DEF DivisionInv
            <3>2. pair' = pair /\ result' = DivmodAbs(u, v)
                  BY <2>1 DEF Divide
            <3> HIDE DEF u, v
            <3>3. u \in 0..(B ^ MaxLimbs - 1) /\ v \in 1..(B ^ MaxLimbs - 1)
                  BY <3>1, DivisionAssumption
            <3>4. DivmodAbs(u, v) = <<u \div v, u % v>>
                  BY <3>3, DivmodAbsIs
            <3>5. result' = <<pair[1] \div pair[2], pair[1] % pair[2]>>
                  BY <3>2, <3>4, Zenon DEF u, v
            <3>6. QuotientRight'
                  BY <3>2, <3>5, Zenon DEF QuotientRight
            <3> QED
                BY <3>1, <3>2, <3>6 DEF DivisionInv
      <2>2. CASE UNCHANGED dvars
            BY <2>2 DEF dvars, DivisionInv, QuotientRight
      <2> QED
          BY <2>1, <2>2
<1>3. DivisionInv => QuotientRight
      BY DEF DivisionInv
<1> QED
    BY <1>1, <1>2, <1>3, PTL DEF DivSpec

---------------------------------------------------------------------------
(* A forced answer stays until somebody undoes it: nobody is detecting, so *)
(* nobody stores over it, and who reads it runs portable kernels.          *)

DispInv ==
    /\ pc \in [Threads -> {"call", "detect", "asm", "portable"}]
    /\ MODE \in {"auto", "asm", "portable"} /\ (MODE = "asm" => Detected)
    /\ forced => MODE = "portable" /\ \A t \in Threads : pc[t] # "detect"
    /\ \A t \in Threads : pc[t] = "asm" => Detected /\ (forced => t \in late)

LEMMA NextDisp == DispInv /\ [DispNext]_disp => DispInv'
<1> SUFFICES ASSUME DispInv, [DispNext]_disp PROVE DispInv'
    OBVIOUS
<1>1. ASSUME NEW t \in Threads, LoadMode(t) PROVE DispInv'
      BY <1>1 DEF DispInv, LoadMode, Detected
<1>2. ASSUME NEW t \in Threads, Detect(t) PROVE DispInv'
      <2>1. ~forced
            BY <1>2 DEF DispInv, Detect
      <2> QED
          BY <1>2, <2>1 DEF DispInv, Detect, Detected
<1>3. ASSUME NEW t \in Threads, Return(t) PROVE DispInv'
      BY <1>3 DEF DispInv, Return, Detected
<1>4. ASSUME NEW t \in Threads, force_portable(t) PROVE DispInv'
      BY <1>4 DEF DispInv, force_portable, Forced, Detected
<1>5. ASSUME NEW t \in Threads, force_auto(t) PROVE DispInv'
      BY <1>5 DEF DispInv, force_auto, Detected
<1>6. CASE UNCHANGED disp
      BY <1>6 DEF DispInv, disp, Detected
<1> QED
    BY <1>1, <1>2, <1>3, <1>4, <1>5, <1>6 DEF DispNext

\* For any number of threads and any CPU: no assembly kernel without its
\* instructions, and none that starts after portable kernels were forced.
THEOREM DispatchCorrect == DispSpec => []DispatchRight
<1>1. DispInit => DispInv
      BY DEF DispInit, DispInv
<1>2. DispInv => DispatchRight
      BY DEF DispInv, DispatchRight, Detected
<1> QED
    BY <1>1, <1>2, NextDisp, PTL DEF DispSpec
============================================================================
