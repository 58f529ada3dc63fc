---------------------------- MODULE NumberFacts ---------------------------
(***************************************************************************)
(* Lemmas about numbers the other proofs rest on: residues of sums and     *)
(* products, which the solvers do not find by themselves when the modulus  *)
(* is a variable, and induction.  The library states induction for an      *)
(* operator, which the provers cannot instantiate; stated for a set it is  *)
(* a fact like any other.                                                  *)
(***************************************************************************)
EXTENDS Integers, TLAPS, WellFoundedInduction

LEMMA DivMod ==
    ASSUME NEW a \in Int, NEW m \in Nat \ {0}
    PROVE  /\ a = m * (a \div m) + (a % m)
           /\ a % m \in 0..(m - 1)
           /\ a \div m \in Int
OBVIOUS

LEMMA Residue ==
    ASSUME NEW m \in Nat \ {0}, NEW a \in Int, NEW q \in Int, NEW r \in 0..(m - 1), a = m * q + r
    PROVE  a % m = r /\ a \div m = q
OBVIOUS

LEMMA ModRange ==
    ASSUME NEW m \in Nat \ {0}, NEW a \in Int
    PROVE  a % m \in 0..(m - 1) /\ (a % m) % m = a % m
OBVIOUS

\* Adding a multiple of the modulus.
LEMMA ModShift ==
    ASSUME NEW m \in Nat \ {0}, NEW a \in Int, NEW b \in Int, NEW k \in Int, a = b + k * m
    PROVE  a % m = b % m
<1>1. b = m * (b \div m) + (b % m) /\ b % m \in 0..(m - 1) /\ b \div m \in Int
      BY DivMod
<1>2. a = m * ((b \div m) + k) + (b % m) /\ (b \div m) + k \in Int
      BY <1>1
<1> QED
    BY <1>1, <1>2, Residue

\* Equal residues differ by a multiple.
LEMMA ModDiffer ==
    ASSUME NEW m \in Nat \ {0}, NEW a \in Int, NEW b \in Int, a % m = b % m
    PROVE  \E k \in Int : a = b + k * m
<1>1. a = m * (a \div m) + (a % m) /\ b = m * (b \div m) + (b % m)
      BY DivMod
<1>2. a \div m \in Int /\ b \div m \in Int /\ a % m \in Int
      BY DivMod
<1>3. a = b + ((a \div m) - (b \div m)) * m
      BY <1>1, <1>2
<1> WITNESS (a \div m) - (b \div m) \in Int
<1> QED
    BY <1>3

\* The same residue, as a relation the provers do not look into.
Same(a, b, m) == a % m = b % m

LEMMA SameAdd ==
    ASSUME NEW m \in Nat \ {0}, NEW a \in Int, NEW b \in Int, NEW c \in Int, NEW d \in Int,
           Same(a, b, m), Same(c, d, m)
    PROVE  Same(a + c, b + d, m)
<1>0. a % m = b % m /\ c % m = d % m
      BY DEF Same
<1>1. PICK k \in Int : a = b + k * m
      BY <1>0, ModDiffer
<1>2. PICK l \in Int : c = d + l * m
      BY <1>0, ModDiffer
<1>3. a + c = (b + d) + (k + l) * m
      BY <1>1, <1>2
<1> DEFINE s == a + c
           t == b + d
           j == k + l
<1>4. s \in Int /\ t \in Int /\ j \in Int /\ s = t + j * m
      BY <1>3
<1>5. s % m = t % m
      <2> HIDE DEF s, t, j
      <2> QED
          BY ONLY <1>4, m \in Nat \ {0}, ModShift, Zenon
<1> QED
    BY <1>5 DEF Same

LEMMA SameSub ==
    ASSUME NEW m \in Nat \ {0}, NEW a \in Int, NEW b \in Int, NEW c \in Int, NEW d \in Int,
           Same(a, b, m), Same(c, d, m)
    PROVE  Same(a - c, b - d, m)
<1>0. a % m = b % m /\ c % m = d % m
      BY DEF Same
<1>1. PICK k \in Int : a = b + k * m
      BY <1>0, ModDiffer
<1>2. PICK l \in Int : c = d + l * m
      BY <1>0, ModDiffer
<1>3. a - c = (b - d) + (k - l) * m
      BY <1>1, <1>2
<1> DEFINE s == a - c
           t == b - d
           j == k - l
<1>4. s \in Int /\ t \in Int /\ j \in Int /\ s = t + j * m
      BY <1>3
<1>5. s % m = t % m
      <2> HIDE DEF s, t, j
      <2> QED
          BY ONLY <1>4, m \in Nat \ {0}, ModShift, Zenon
<1> QED
    BY <1>5 DEF Same

LEMMA SameMul ==
    ASSUME NEW m \in Nat \ {0}, NEW a \in Int, NEW b \in Int, NEW c \in Int, NEW d \in Int,
           Same(a, b, m), Same(c, d, m)
    PROVE  Same(a * c, b * d, m)
<1>0. a % m = b % m /\ c % m = d % m
      BY DEF Same
<1>1. PICK k \in Int : a = b + k * m
      BY <1>0, ModDiffer
<1>2. PICK l \in Int : c = d + l * m
      BY <1>0, ModDiffer
<1> DEFINE s == a * c
           t == b * d
           j == b * l + k * d + k * l * m
<1>3. s = t + j * m
      BY <1>1, <1>2
<1>4. s \in Int /\ t \in Int /\ j \in Int
      OBVIOUS
<1>5. s % m = t % m
      <2> HIDE DEF s, t, j
      <2> QED
          BY ONLY <1>3, <1>4, m \in Nat \ {0}, ModShift, Zenon
<1> QED
    BY <1>5 DEF Same

LEMMA SameResidue ==
    ASSUME NEW m \in Nat \ {0}, NEW a \in Int
    PROVE  a % m \in 0..(m - 1) /\ a % m \in Int /\ Same(a % m, a, m)
<1>1. a % m \in 0..(m - 1) /\ (a % m) % m = a % m
      BY ModRange
<1> QED
    BY <1>1 DEF Same

LEMMA SameTrans ==
    ASSUME NEW m, NEW a, NEW b, NEW c, Same(a, b, m), Same(b, c, m)
    PROVE  Same(a, c, m)
BY Zenon DEF Same

\* The same with one operand fixed.
LEMMA ModMulRight ==
    ASSUME NEW m \in Nat \ {0}, NEW a \in Int, NEW c \in Int, NEW d \in Int, c % m = d % m
    PROVE  (a * c) % m = (a * d) % m
<1>1. PICK l \in Int : c = d + l * m
      BY ModDiffer
<1> DEFINE s == a * c
           t == a * d
           j == a * l
<1>2. s \in Int /\ t \in Int /\ j \in Int /\ s = t + j * m
      BY <1>1
<1>3. s % m = t % m
      <2> HIDE DEF s, t, j
      <2> QED
          BY ONLY <1>2, m \in Nat \ {0}, ModShift, Zenon
<1> QED
    BY <1>3

LEMMA ModSubRight ==
    ASSUME NEW m \in Nat \ {0}, NEW a \in Int, NEW c \in Int, NEW d \in Int, c % m = d % m
    PROVE  (a - c) % m = (a - d) % m
<1>1. PICK l \in Int : c = d + l * m
      BY ModDiffer
<1> DEFINE s == a - c
           t == a - d
           j == -l
<1>2. s \in Int /\ t \in Int /\ j \in Int /\ s = t + j * m
      BY <1>1
<1>3. s % m = t % m
      <2> HIDE DEF s, t, j
      <2> QED
          BY ONLY <1>2, m \in Nat \ {0}, ModShift, Zenon
<1> QED
    BY <1>3

\* A residue modulo a multiple decides the residue.
LEMMA ModDown ==
    ASSUME NEW m \in Nat \ {0}, NEW q \in Nat \ {0}, NEW a \in Int, NEW b \in Int,
           a % (m * q) = b % (m * q)
    PROVE  a % m = b % m
<1>1. m * q \in Nat \ {0}
      OBVIOUS
<1>2. PICK k \in Int : a = b + k * (m * q)
      BY <1>1, ModDiffer
<1>3. a = b + (k * q) * m /\ k * q \in Int
      BY <1>2
<1> QED
    BY <1>3, ModShift

\* Reducing one operand first does not change the residue.
LEMMA ModMulLeft ==
    ASSUME NEW m \in Nat \ {0}, NEW a \in Int, NEW b \in Int
    PROVE  ((a % m) * b) % m = (a * b) % m
<1> DEFINE q == a \div m
           r == a % m
<1>1. q \in Int /\ r \in Int /\ a = m * q + r
      BY DivMod
<1> HIDE DEF q, r
<1> DEFINE s == r * b
           t == a * b
           j == -(q * b)
<1>2. s \in Int /\ t \in Int /\ j \in Int
      BY <1>1
<1>3. s = t + j * m
      BY <1>1
<1>4. s % m = t % m
      <2> HIDE DEF s, t, j
      <2> QED
          BY ONLY <1>2, <1>3, m \in Nat \ {0}, ModShift, Zenon
<1> QED
    BY <1>4 DEF r

\* a x = 1 modulo p gives a (x (2 - a x)) = 1 modulo p * p.
LEMMA NewtonStep ==
    ASSUME NEW a \in Int, NEW x \in Int, NEW p \in Nat \ {0}, NEW k \in Int,
           a * x = 1 + k * p
    PROVE  a * (x * (2 - a * x)) = 1 + (-(k * k)) * (p * p)
<1>1. a * (x * (2 - a * x)) = (a * x) * (2 - a * x)
      OBVIOUS
<1>2. (1 + k * p) * (2 - (1 + k * p)) = 1 + (-(k * k)) * (p * p)
      OBVIOUS
<1> QED
    BY <1>1, <1>2

---------------------------------------------------------------------------
(* Induction, as a fact about sets: the provers take no predicate.         *)

NatOrder == OpToRel(<, Nat)

LEMMA NatOrderIsLess == IsWellFoundedOn(NatOrder, Nat) /\ \A x, y \in Nat : <<x, y>> \in NatOrder <=> x < y
<1>1. IsWellFoundedOn(NatOrder, Nat)
      BY NatLessThanWellFounded DEF NatOrder
<1>2. \A x, y \in Nat : <<x, y>> \in NatOrder <=> x < y
      BY DEF NatOrder, OpToRel
<1> QED
    BY <1>1, <1>2

\* Every set of naturals that is not empty has a least element.
LEMMA LeastElement ==
    ASSUME NEW T, T \subseteq Nat, T # {}
    PROVE  \E x \in T : \A y \in T : x <= y
<1>0. IsWellFoundedOn(NatOrder, Nat)
      BY NatOrderIsLess
<1>1. PICK x \in T : \A y \in T : ~(<<y, x>> \in NatOrder)
      BY <1>0, WFMin
<1>2. \A y \in T : x \in Nat /\ y \in Nat /\ ~(y < x)
      BY <1>1, NatOrderIsLess
<1>3. \A y \in T : x <= y
      BY <1>2
<1> QED
    BY <1>3

\* A set that holds a number when it holds all the smaller ones holds all.
LEMMA StrongInduction ==
    ASSUME NEW S, \A n \in Nat : (\A m \in Nat : m < n => m \in S) => n \in S
    PROVE  Nat \subseteq S
<1> SUFFICES ASSUME Nat \ S # {} PROVE FALSE
    OBVIOUS
<1>1. PICK x \in Nat \ S : \A y \in Nat \ S : x <= y
      <2> DEFINE T == Nat \ S
      <2>1. T \subseteq Nat /\ T # {}
            OBVIOUS
      <2>2. \E x \in T : \A y \in T : x <= y
            <3> HIDE DEF T
            <3> QED
                BY <2>1, LeastElement
      <2> QED
          BY <2>2
<1>2. \A m \in Nat : m < x => m \in S
      BY <1>1
<1> QED
    BY <1>1, <1>2

LEMMA SimpleInduction ==
    ASSUME NEW S, 0 \in S, \A n \in Nat : n \in S => n + 1 \in S
    PROVE  Nat \subseteq S
<1>1. ASSUME NEW n \in Nat, \A m \in Nat : m < n => m \in S
      PROVE  n \in S
      <2>1. CASE n = 0
            BY <2>1
      <2>2. CASE n # 0
            <3>1. n - 1 \in Nat /\ n - 1 < n /\ (n - 1) + 1 = n
                  BY <2>2
            <3>2. n - 1 \in S
                  BY <1>1, <3>1
            <3> QED
                BY <3>1, <3>2
      <2> QED
          BY <2>1, <2>2
<1> QED
    BY <1>1, StrongInduction

\* A value and a function for the step define a sequence of values.
Upto(g, n, T, start, step) ==
    /\ g \in [0..n -> T] /\ g[0] = start
    /\ \A i \in 0..(n - 1) : g[i + 1] = step[<<i, g[i]>>]

LEMMA UptoNext ==
    ASSUME NEW T, NEW start \in T, NEW step \in [Nat \X T -> T], NEW n \in Nat, NEW g,
           Upto(g, n, T, start, step)
    PROVE  \E h : Upto(h, n + 1, T, start, step)
<1> DEFINE h == [i \in 0..(n + 1) |-> IF i <= n THEN g[i] ELSE step[<<n, g[n]>>]]
<1>1. g[n] \in T /\ step[<<n, g[n]>>] \in T
      BY DEF Upto
<1>2. h \in [0..(n + 1) -> T]
      BY <1>1 DEF Upto
<1>3. h[0] = start
      BY DEF Upto
<1>4. ASSUME NEW i \in 0..((n + 1) - 1)
      PROVE  h[i + 1] = step[<<i, h[i]>>]
      <2>1. CASE i = n
            <3>1. n + 1 \in 0..(n + 1) /\ n \in 0..(n + 1) /\ ~(n + 1 <= n)
                  OBVIOUS
            <3>2. h[n + 1] = step[<<n, g[n]>>] /\ h[n] = g[n]
                  BY <3>1
            <3> QED
                BY <2>1, <3>2
      <2>2. CASE i # n
            BY <2>2 DEF Upto
      <2> QED
          BY <2>1, <2>2
<1>5. Upto(h, n + 1, T, start, step)
      <2> HIDE DEF h
      <2> QED
          BY <1>2, <1>3, <1>4 DEF Upto
<1> HIDE DEF h
<1> QED
    BY <1>5

LEMMA UptoUnique ==
    ASSUME NEW T, NEW start \in T, NEW step \in [Nat \X T -> T], NEW n \in Nat, NEW a, NEW b,
           Upto(a, n, T, start, step), Upto(b, n + 1, T, start, step)
    PROVE  a[n] = b[n]
<1> DEFINE R == {i \in Nat : i <= n => a[i] = b[i]}
<1>1. 0 \in R
      BY DEF Upto
<1>2. ASSUME NEW i \in Nat, i \in R
      PROVE  i + 1 \in R
      <2> SUFFICES ASSUME i + 1 <= n PROVE a[i + 1] = b[i + 1]
          OBVIOUS
      <2>1. i \in 0..(n - 1) /\ i \in 0..((n + 1) - 1) /\ a[i] = b[i]
            BY <1>2
      <2>2. a[i + 1] = step[<<i, a[i]>>] /\ b[i + 1] = step[<<i, b[i]>>]
            BY <2>1 DEF Upto
      <2> QED
          BY <2>1, <2>2
<1>3. Nat \subseteq R
      <2> HIDE DEF R
      <2> QED
          BY <1>1, <1>2, SimpleInduction
<1> QED
    BY <1>3

Solves(f, T, start, step) ==
    f \in [Nat -> T] /\ f[0] = start /\ \A n \in Nat : f[n + 1] = step[<<n, f[n]>>]

LEMMA Recursion ==
    ASSUME NEW T, NEW start \in T, NEW step \in [Nat \X T -> T]
    PROVE  \E f : Solves(f, T, start, step)
<1> DEFINE S == {n \in Nat : \E g : Upto(g, n, T, start, step)}
<1>1. Nat \subseteq S
      <2>1. 0 \in S
            <3>1. Upto([i \in 0..0 |-> start], 0, T, start, step)
                  BY DEF Upto
            <3> QED
                BY <3>1
      <2>2. ASSUME NEW n \in Nat, n \in S
            PROVE  n + 1 \in S
            <3>1. PICK g : Upto(g, n, T, start, step)
                  BY <2>2
            <3>2. \E h : Upto(h, n + 1, T, start, step)
                  BY <3>1, UptoNext
            <3> QED
                BY <3>2
      <2> HIDE DEF S
      <2> QED
          BY <2>1, <2>2, SimpleInduction
<1> DEFINE G == [n \in Nat |-> CHOOSE g : Upto(g, n, T, start, step)]
<1>2. ASSUME NEW n \in Nat
      PROVE  Upto(G[n], n, T, start, step)
      <2>1. \E g : Upto(g, n, T, start, step)
            BY <1>1
      <2> QED
          BY <2>1
<1> HIDE DEF G
<1> DEFINE f == [n \in Nat |-> G[n][n]]
<1>3. f \in [Nat -> T]
      BY <1>2 DEF Upto
<1>4. f[0] = start
      BY <1>2 DEF Upto
<1>5. ASSUME NEW n \in Nat
      PROVE  f[n + 1] = step[<<n, f[n]>>]
      <2>1. n + 1 \in Nat /\ n \in 0..((n + 1) - 1)
            OBVIOUS
      <2>2. G[n + 1][n + 1] = step[<<n, G[n + 1][n]>>]
            BY <1>2, <2>1 DEF Upto
      <2>3. G[n][n] = G[n + 1][n]
            <3> DEFINE a == G[n]
                       b == G[n + 1]
            <3>1. Upto(a, n, T, start, step) /\ Upto(b, n + 1, T, start, step)
                  BY <1>2, <2>1
            <3> HIDE DEF a, b
            <3>2. a[n] = b[n]
                  BY <3>1, UptoUnique
            <3> QED
                BY <3>2 DEF a, b
      <2> QED
          BY <2>1, <2>2, <2>3
<1> HIDE DEF f
<1> QED
    BY <1>3, <1>4, <1>5 DEF Solves

---------------------------------------------------------------------------
(* Powers of two, for the functions of the models that are one.            *)

\* f is the sequence 1, 2, 4, ...
Doubles(f) == f \in [Nat -> Nat \ {0}] /\ f[0] = 1 /\ \A n \in Nat : f[n + 1] = 2 * f[n]

LEMMA DoublesExists == \E h : h = [n \in Nat |-> IF n = 0 THEN 1 ELSE 2 * h[n - 1]]
<1> DEFINE step == [p \in Nat \X Nat |-> 2 * p[2]]
<1>1. step \in [Nat \X Nat -> Nat]
      OBVIOUS
<1>2. PICK h : Solves(h, Nat, 1, step)
      <2> HIDE DEF step
      <2> QED
          BY <1>1, Recursion
<1>3. \A n \in Nat \ {0} : h[n] = 2 * h[n - 1]
      <2> TAKE n \in Nat \ {0}
      <2>1. n - 1 \in Nat /\ (n - 1) + 1 = n
            OBVIOUS
      <2>2. h[n] = step[<<n - 1, h[n - 1]>>]
            BY <1>2, <2>1 DEF Solves
      <2> QED
          BY <1>2, <2>1, <2>2 DEF Solves
<1>4. h = [n \in Nat |-> IF n = 0 THEN 1 ELSE 2 * h[n - 1]]
      BY <1>2, <1>3 DEF Solves
<1> QED
    BY <1>4

LEMMA DoublesDef ==
    ASSUME NEW f, f = [n \in Nat |-> IF n = 0 THEN 1 ELSE 2 * f[n - 1]]
    PROVE  Doubles(f)
<1>6. f[0] = 1 /\ \A n \in Nat : f[n + 1] = 2 * f[n]
      OBVIOUS
<1> DEFINE S == {n \in Nat : f[n] \in Nat \ {0}}
<1>7. 0 \in S
      BY <1>6
<1>8. \A n \in Nat : n \in S => n + 1 \in S
      BY <1>6
<1>9. Nat \subseteq S
      <2> HIDE DEF S
      <2> QED
          BY <1>7, <1>8, SimpleInduction
<1>10. f \in [Nat -> Nat \ {0}]
      BY <1>9
<1> QED
    BY <1>6, <1>10 DEF Doubles

LEMMA DoublesSum ==
    ASSUME NEW f, Doubles(f)
    PROVE  \A m, n \in Nat : f[m + n] = f[m] * f[n]
<1> SUFFICES ASSUME NEW m \in Nat PROVE \A n \in Nat : f[m + n] = f[m] * f[n]
    OBVIOUS
<1> DEFINE S == {n \in Nat : f[m + n] = f[m] * f[n]}
<1>1. 0 \in S
      BY DEF Doubles
<1>2. ASSUME NEW n \in Nat, n \in S
      PROVE  n + 1 \in S
      <2>1. f[m + (n + 1)] = 2 * f[m + n]
            <3>1. m + n \in Nat /\ m + (n + 1) = (m + n) + 1
                  OBVIOUS
            <3> QED
                BY <3>1 DEF Doubles
      <2>2. f[n + 1] = 2 * f[n] /\ f[m] \in Nat /\ f[n] \in Nat
            BY DEF Doubles
      <2> QED
          BY <1>2, <2>1, <2>2
<1>3. Nat \subseteq S
      <2> HIDE DEF S
      <2> QED
          BY <1>1, <1>2, SimpleInduction
<1> QED
    BY <1>3

---------------------------------------------------------------------------
(* Recursion and induction on the two halves of a number.                  *)

\* A function defined at n from its values at the two halves of n.
Halving(f, m, low, start, step) ==
    f = [n \in 1..m |-> IF n <= low THEN start[n] ELSE step[<<n, f[n \div 2], f[n - n \div 2]>>]]

LEMMA HalvesLess ==
    ASSUME NEW n \in Nat, n >= 2
    PROVE  n \div 2 \in 1..(n - 1) /\ n - n \div 2 \in 1..(n - 1) /\ n \div 2 <= n - n \div 2 /\ n - n \div 2 <= n \div 2 + 1
OBVIOUS

LEMMA HalvingExists ==
    ASSUME NEW m \in Nat, NEW low \in Nat \ {0}, NEW start, NEW step
    PROVE  \E f : Halving(f, m, low, start, step)
<1> DEFINE S == {k \in Nat : \E f : Halving(f, k, low, start, step)}
<1>1. 0 \in S
      <2> DEFINE f == [n \in 1..0 |-> 0]
      <2>1. f = [n \in 1..0 |-> f[n]] /\ \A n \in 1..0 : FALSE
            OBVIOUS
      <2> HIDE DEF f
      <2>2. \A n \in 1..0 : f[n] = IF n <= low THEN start[n] ELSE step[<<n, f[n \div 2], f[n - n \div 2]>>]
            BY <2>1
      <2>3. f = [n \in 1..0 |-> IF n <= low THEN start[n] ELSE step[<<n, f[n \div 2], f[n - n \div 2]>>]]
            BY <2>1, <2>2, Zenon
      <2>4. Halving(f, 0, low, start, step)
            BY <2>3, Zenon DEF Halving
      <2> QED
          BY <2>4
<1>2. ASSUME NEW k \in Nat, k \in S PROVE k + 1 \in S
      <2>1. PICK g : Halving(g, k, low, start, step)
            BY <1>2
      <2>2. \A n \in 1..k : g[n] = IF n <= low THEN start[n] ELSE step[<<n, g[n \div 2], g[n - n \div 2]>>]
            <3>1. g = [n \in 1..k |-> IF n <= low THEN start[n] ELSE step[<<n, g[n \div 2], g[n - n \div 2]>>]]
                  BY <2>1, Zenon DEF Halving
            <3> QED
                BY <3>1, Zenon
      <2> DEFINE c == IF k + 1 <= low THEN start[k + 1] ELSE step[<<k + 1, g[(k + 1) \div 2], g[k + 1 - (k + 1) \div 2]>>]
                 h == [n \in 1..(k + 1) |-> IF n <= k THEN g[n] ELSE c]
      <2>3. \A n \in 1..k : h[n] = g[n]
            OBVIOUS
      <2>4. h[k + 1] = c
            <3>1. k + 1 \in 1..(k + 1) /\ ~(k + 1 <= k)
                  OBVIOUS
            <3> HIDE DEF c
            <3> QED
                BY <3>1
      <2>5. h = [n \in 1..(k + 1) |-> h[n]]
            OBVIOUS
      <2> HIDE DEF h
      <2>6. \A n \in 1..(k + 1) : h[n] = IF n <= low THEN start[n] ELSE step[<<n, h[n \div 2], h[n - n \div 2]>>]
            <3> TAKE n \in 1..(k + 1)
            <3>1. CASE n <= low
                  <4>1. CASE n <= k
                        <5>1. n \in 1..k
                              BY <4>1
                        <5> QED
                            BY <2>2, <2>3, <3>1, <5>1
                  <4>2. CASE n = k + 1
                        BY <2>4, <3>1, <4>2
                  <4> QED
                      BY <4>1, <4>2
            <3>2. CASE ~(n <= low)
                  <4>0. n \in Nat /\ n >= 2
                        BY <3>2
                  <4>1. n \div 2 \in 1..(n - 1) /\ n - n \div 2 \in 1..(n - 1)
                        BY <4>0, HalvesLess
                  <4>2. n \div 2 \in 1..k /\ n - n \div 2 \in 1..k
                        BY <4>1
                  <4>3. h[n \div 2] = g[n \div 2] /\ h[n - n \div 2] = g[n - n \div 2]
                        BY <2>3, <4>2
                  <4>4. CASE n <= k
                        <5>1. n \in 1..k
                              BY <4>4
                        <5>2. h[n] = g[n] /\ g[n] = step[<<n, g[n \div 2], g[n - n \div 2]>>]
                              BY <2>2, <2>3, <3>2, <5>1
                        <5> QED
                            BY <3>2, <4>3, <5>2
                  <4>5. CASE n = k + 1
                        <5>1. h[n] = step[<<n, g[n \div 2], g[n - n \div 2]>>]
                              BY <2>4, <3>2, <4>5
                        <5> QED
                            BY <3>2, <4>3, <5>1
                  <4> QED
                      BY <4>4, <4>5
            <3> QED
                BY <3>1, <3>2
      <2>7. h = [n \in 1..(k + 1) |-> IF n <= low THEN start[n] ELSE step[<<n, h[n \div 2], h[n - n \div 2]>>]]
            BY <2>5, <2>6, Zenon
      <2>8. Halving(h, k + 1, low, start, step)
            BY <2>7, Zenon DEF Halving
      <2> QED
          BY <2>8
<1>3. Nat \subseteq S
      <2> HIDE DEF S
      <2> QED
          BY <1>1, <1>2, SimpleInduction
<1> QED
    BY <1>3

\* What the halves hand on holds everywhere.
LEMMA HalvingStays ==
    ASSUME NEW m \in Nat, NEW low \in Nat \ {0}, NEW S, NEW f,
           \A n \in 1..m : n <= low => f[n] \in S[n],
           \A n \in 1..m : n > low /\ f[n \div 2] \in S[n \div 2] /\ f[n - n \div 2] \in S[n - n \div 2] => f[n] \in S[n]
    PROVE  \A n \in 1..m : f[n] \in S[n]
<1> DEFINE R == {n \in Nat : n \in 1..m => f[n] \in S[n]}
<1>1. ASSUME NEW n \in Nat, \A l \in Nat : l < n => l \in R PROVE n \in R
      <2> SUFFICES ASSUME n \in 1..m PROVE f[n] \in S[n]
          OBVIOUS
      <2>1. CASE n <= low
            BY <2>1
      <2>2. CASE n > low
            <3>1. n >= 2
                  BY <2>2
            <3> DEFINE a == n \div 2
                       b == n - n \div 2
            <3>2. a \in 1..(n - 1) /\ b \in 1..(n - 1)
                  BY <3>1, HalvesLess
            <3> HIDE DEF a, b
            <3>3. f[a] \in S[a] /\ f[b] \in S[b]
                  <4>1. a \in Nat /\ a < n /\ a \in 1..m /\ b \in Nat /\ b < n /\ b \in 1..m
                        BY <3>2
                  <4> QED
                      BY <1>1, <4>1
            <3> QED
                BY <2>2, <3>3 DEF a, b
      <2> QED
          BY <2>1, <2>2
<1>2. Nat \subseteq R
      <2> HIDE DEF R
      <2> QED
          BY <1>1, StrongInduction
<1> QED
    BY <1>2

\* A function that keeps within sets is what its halves make it.
LEMMA HalvingWithin ==
    ASSUME NEW m \in Nat, NEW low \in Nat \ {0}, NEW S, NEW start, NEW step,
           \A n \in 1..m : n <= low => start[n] \in S[n],
           \A n \in 1..m : n > low =>
               \A a \in S[n \div 2], b \in S[n - n \div 2] : step[<<n, a, b>>] \in S[n]
    PROVE  \E f : Halving(f, m, low, start, step) /\ \A n \in 1..m : f[n] \in S[n]
<1>1. PICK f : Halving(f, m, low, start, step)
      BY HalvingExists
<1>2. \A n \in 1..m : f[n] = IF n <= low THEN start[n] ELSE step[<<n, f[n \div 2], f[n - n \div 2]>>]
      <2>1. f = [n \in 1..m |-> IF n <= low THEN start[n] ELSE step[<<n, f[n \div 2], f[n - n \div 2]>>]]
            BY <1>1, Zenon DEF Halving
      <2> QED
          BY <2>1, Zenon
<1>3. \A n \in 1..m : n <= low => f[n] \in S[n]
      BY <1>2
<1>4. \A n \in 1..m : n > low /\ f[n \div 2] \in S[n \div 2] /\ f[n - n \div 2] \in S[n - n \div 2] => f[n] \in S[n]
      <2> TAKE n \in 1..m
      <2> HAVE n > low /\ f[n \div 2] \in S[n \div 2] /\ f[n - n \div 2] \in S[n - n \div 2]
      <2>1. ~(n <= low)
            OBVIOUS
      <2>2. f[n] = step[<<n, f[n \div 2], f[n - n \div 2]>>]
            BY <1>2, <2>1
      <2> QED
          BY <2>2
<1>5. \A n \in 1..m : f[n] \in S[n]
      BY <1>3, <1>4, HalvingStays
<1> QED
    BY <1>1, <1>5

============================================================================
