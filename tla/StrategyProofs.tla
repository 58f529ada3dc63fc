--------------------------- MODULE StrategyProofs -------------------------
(***************************************************************************)
(* Proofs about StrategyChain.  The running sums and the tables come       *)
(* first: what the recursive definitions compute, by induction.  Then what *)
(* a strategy is, read from its first node, and the invariant of the walk. *)
(***************************************************************************)
EXTENDS StrategyChain, NumberFacts, SequenceTheorems

---------------------------------------------------------------------------
(* Running sums.                                                           *)

LEMMA SumsDef ==
    ASSUME NEW s \in Seq(Int)
    PROVE  Sums(s) = [j \in 0..Len(s) |-> IF j = 0 THEN 0 ELSE Sums(s)[j - 1] + s[j]]
<1> DEFINE step == [p \in Nat \X Int |-> IF p[1] + 1 \in 1..Len(s) THEN p[2] + s[p[1] + 1] ELSE p[2]]
<1>1. step \in [Nat \X Int -> Int]
      <2>1. ASSUME NEW n \in Nat, NEW v \in Int
            PROVE  step[<<n, v>>] \in Int
            <3>1. CASE n + 1 \in 1..Len(s)
                  <4>1. s[n + 1] \in Int
                        BY <3>1, ElementOfSeq
                  <4> QED
                      BY <3>1, <4>1
            <3>2. CASE ~(n + 1 \in 1..Len(s))
                  BY <3>2
            <3> QED
                BY <3>1, <3>2
      <2>2. step = [p \in Nat \X Int |-> step[p]]
            OBVIOUS
      <2>3. \A p \in Nat \X Int : \E n \in Nat, v \in Int : p = <<n, v>>
            OBVIOUS
      <2> HIDE DEF step
      <2>4. \A p \in Nat \X Int : step[p] \in Int
            BY <2>1, <2>3
      <2> QED
          BY <2>2, <2>4
<1>2. PICK h : Solves(h, Int, 0, step)
      <2> DEFINE z == 0
      <2>1. z \in Int
            OBVIOUS
      <2> HIDE DEF step, z
      <2>2. \E h : Solves(h, Int, z, step)
            BY <1>1, <2>1, Recursion
      <2> QED
          BY <2>2 DEF z
<1> DEFINE g == [j \in 0..Len(s) |-> h[j]]
<1>3. ASSUME NEW j \in 0..Len(s), j # 0
      PROVE  h[j] = h[j - 1] + s[j]
      <2>1. j - 1 \in Nat /\ (j - 1) + 1 = j /\ j \in 1..Len(s)
            BY <1>3
      <2>2. h[j] = step[<<j - 1, h[j - 1]>>]
            BY <1>2, <2>1 DEF Solves
      <2> QED
          BY <1>2, <2>1, <2>2 DEF Solves
<1>4. g = [j \in 0..Len(s) |-> IF j = 0 THEN 0 ELSE g[j - 1] + s[j]]
      BY <1>2, <1>3 DEF Solves
<1> DEFINE P(f) == f = [j \in 0..Len(s) |-> IF j = 0 THEN 0 ELSE f[j - 1] + s[j]]
<1>5. P(g)
      BY <1>4
<1>6. Sums(s) = CHOOSE f : P(f)
      BY DEF Sums
<1>7. P(Sums(s))
      <2> HIDE DEF P, g
      <2> QED
          BY <1>5, <1>6
<1> QED
    BY <1>7

LEMMA SumsTelescope ==
    ASSUME NEW s \in Seq(Int), NEW e \in [0..Len(s) -> Int], e[0] = 0,
           \A j \in 1..Len(s) : s[j] = e[j] - e[j - 1]
    PROVE  Sums(s)[Len(s)] = e[Len(s)]
<1> DEFINE S == {j \in Nat : j <= Len(s) => Sums(s)[j] = e[j]}
<1>1. 0 \in S
      <2>1. 0 \in 0..Len(s)
            OBVIOUS
      <2>2. Sums(s)[0] = 0
            BY <2>1, SumsDef
      <2> QED
          BY <2>2
<1>2. ASSUME NEW j \in Nat, j \in S
      PROVE  j + 1 \in S
      <2> SUFFICES ASSUME j + 1 <= Len(s) PROVE Sums(s)[j + 1] = e[j + 1]
          OBVIOUS
      <2>1. j + 1 \in 1..Len(s) /\ j \in 0..Len(s) /\ (j + 1) - 1 = j
            OBVIOUS
      <2>2. Sums(s)[j + 1] = Sums(s)[j] + s[j + 1]
            BY <2>1, SumsDef
      <2>3. Sums(s)[j] = e[j] /\ s[j + 1] = e[j + 1] - e[j] /\ e[j] \in Int /\ e[j + 1] \in Int
            <3>1. Sums(s)[j] = e[j]
                  BY <1>2, <2>1
            <3>2. s[j + 1] = e[j + 1] - e[(j + 1) - 1]
                  BY <2>1
            <3>3. j + 1 \in 0..Len(s)
                  BY <2>1
            <3>4. e[j] \in Int /\ e[j + 1] \in Int
                  BY <2>1, <3>3
            <3> QED
                BY <2>1, <3>1, <3>2, <3>4
      <2> DEFINE u == Sums(s)[j]
                 v == s[j + 1]
                 x == e[j]
                 y == e[j + 1]
      <2>4. u + v = y
            <3>1. u = x /\ v = y - x /\ x \in Int /\ y \in Int
                  BY <2>3
            <3> HIDE DEF u, v, x, y
            <3> QED
                BY <3>1
      <2> QED
          BY <2>2, <2>4
<1>3. Nat \subseteq S
      <2> HIDE DEF S
      <2> QED
          BY <1>1, <1>2, SimpleInduction
<1> QED
    BY <1>3

---------------------------------------------------------------------------
(* Tables that grow by an entry at a time.                                 *)

Grows(f, T) ==
    /\ f[0] = <<>>
    /\ \A n \in Nat : f[n] \in Seq(T) /\ Len(f[n]) = n
    /\ \A n \in Nat : \E v \in T : f[n + 1] = Append(f[n], v)

LEMMA GrownExists ==
    ASSUME NEW T, NEW next \in [Seq(T) -> T]
    PROVE  \E f : f \in [Nat -> Seq(T)] /\ Grows(f, T) /\ \A n \in Nat : f[n + 1] = Append(f[n], next[f[n]])
<1> DEFINE step == [p \in Nat \X Seq(T) |-> Append(p[2], next[p[2]])]
<1>1. step \in [Nat \X Seq(T) -> Seq(T)]
      OBVIOUS
<1>2. PICK f : Solves(f, Seq(T), <<>>, step)
      <2>1. <<>> \in Seq(T)
            OBVIOUS
      <2> DEFINE U == Seq(T)
                 start == <<>>
      <2>2. start \in U /\ step \in [Nat \X U -> U]
            BY <1>1, <2>1
      <2>3. \E f : Solves(f, U, start, step)
            <3> HIDE DEF U, start, step
            <3> QED
                BY <2>2, Recursion
      <2> QED
          BY <2>3
<1>3. f \in [Nat -> Seq(T)] /\ f[0] = <<>> /\ \A n \in Nat : f[n + 1] = step[<<n, f[n]>>]
      BY <1>2 DEF Solves
<1>4. \A n \in Nat : f[n + 1] = Append(f[n], next[f[n]]) /\ next[f[n]] \in T
      BY <1>3
<1> DEFINE S == {n \in Nat : Len(f[n]) = n}
<1>5. 0 \in S
      BY <1>3
<1>6. ASSUME NEW n \in Nat, n \in S
      PROVE  n + 1 \in S
      <2>1. f[n] \in Seq(T) /\ Len(f[n]) = n
            BY <1>3, <1>6
      <2>2. Len(Append(f[n], next[f[n]])) = n + 1
            <3> DEFINE q == f[n]
                       v == next[f[n]]
            <3>1. q \in Seq(T) /\ v \in T /\ Len(q) = n
                  BY <1>4, <2>1
            <3> HIDE DEF q, v
            <3>2. Len(Append(q, v)) = Len(q) + 1
                  BY <3>1, AppendProperties
            <3> QED
                BY <3>1, <3>2 DEF q, v
      <2>3. f[n + 1] = Append(f[n], next[f[n]])
            BY <1>4
      <2>4. Len(f[n + 1]) = n + 1 /\ n + 1 \in Nat
            BY <2>2, <2>3
      <2> QED
          BY <2>4, Zenon
<1>7. Nat \subseteq S
      <2> HIDE DEF S
      <2> QED
          BY <1>5, <1>6, SimpleInduction
<1> QED
    BY <1>3, <1>4, <1>7 DEF Grows

\* An entry, once made, stays.
LEMMA GrownStays ==
    ASSUME NEW T, NEW f, Grows(f, T)
    PROVE  \A n \in Nat : \A i \in 1..n : f[n][i] = f[i][i] /\ f[i][i] \in T
<1> DEFINE S == {n \in Nat : \A i \in 1..n : f[n][i] = f[i][i]}
<1>1. 0 \in S
      OBVIOUS
<1>2. ASSUME NEW n \in Nat, n \in S
      PROVE  n + 1 \in S
      <2> SUFFICES ASSUME NEW i \in 1..(n + 1) PROVE f[n + 1][i] = f[i][i]
          OBVIOUS
      <2>1. CASE i = n + 1
            BY <2>1
      <2>2. CASE i # n + 1
            <3>1. PICK v \in T : f[n + 1] = Append(f[n], v)
                  BY DEF Grows
            <3>2. i \in 1..n /\ f[n] \in Seq(T) /\ Len(f[n]) = n
                  BY <2>2 DEF Grows
            <3>3. f[n + 1][i] = f[n][i]
                  BY <3>1, <3>2
            <3> QED
                BY <1>2, <3>2, <3>3
      <2> QED
          BY <2>1, <2>2
<1>3. Nat \subseteq S
      <2> HIDE DEF S
      <2> QED
          BY <1>1, <1>2, SimpleInduction
<1>4. ASSUME NEW n \in Nat, NEW i \in 1..n
      PROVE  f[i][i] \in T
      <2> DEFINE q == f[i]
      <2>1. q \in Seq(T) /\ i \in 1..Len(q)
            BY DEF Grows
      <2>2. q[i] \in T
            <3> HIDE DEF q
            <3> QED
                BY <2>1, ElementOfSeq
      <2> QED
          BY <2>2
<1> QED
    BY <1>3, <1>4

---------------------------------------------------------------------------
(* Every strategy.                                                         *)

Steps  == Nat \ {0}
Family == SUBSET Seq(Steps)

LEMMA ComposedType ==
    ASSUME NEW t \in Seq(Family)
    PROVE  Composed(t, Len(t) + 1) \in Family
<1> DEFINE i == Len(t) + 1
<1>1. CASE i = 1
      <2>1. <<>> \in Seq(Steps)
            OBVIOUS
      <2> QED
          BY <1>1, <2>1 DEF Composed, Family
<1>2. CASE i # 1
      <2> SUFFICES ASSUME NEW s \in Composed(t, i) PROVE s \in Seq(Steps)
          BY DEF Family
      <2>1. PICK b \in 1..(i - 1) : s \in Joined(t, i, b)
            BY <1>2 DEF Composed
      <2>2. PICK x \in t[i - b], y \in t[b] : s = <<b>> \o x \o y
            BY <2>1 DEF Joined
      <2>3. i - b \in 1..Len(t) /\ b \in 1..Len(t)
            OBVIOUS
      <2>4. t[i - b] \in Family /\ t[b] \in Family
            <3> DEFINE a == i - b
            <3> HIDE DEF a
            <3>1. t[a] \in Family /\ t[b] \in Family
                  BY <2>3, ElementOfSeq DEF a
            <3> QED
                BY <3>1 DEF a
      <2>5. x \in Seq(Steps) /\ y \in Seq(Steps) /\ <<b>> \in Seq(Steps)
            BY <2>4 DEF Family, Steps
      <2> QED
          BY <2>2, <2>5, ConcatProperties
<1> QED
    BY <1>1, <1>2

LEMMA StrategiesGrow ==
    /\ Grows(Strategies, Family)
    /\ \A n \in Nat : Strategies[n + 1] = Append(Strategies[n], Composed(Strategies[n], n + 1))
<1> DEFINE next == [t \in Seq(Family) |-> Composed(t, Len(t) + 1)]
<1>1. next \in [Seq(Family) -> Family]
      BY ComposedType
<1>2. PICK f : /\ f \in [Nat -> Seq(Family)] /\ Grows(f, Family)
               /\ \A n \in Nat : f[n + 1] = Append(f[n], next[f[n]])
      <2> HIDE DEF next
      <2> QED
          BY <1>1, GrownExists
<1>3. \A n \in Nat : f[n + 1] = Append(f[n], Composed(f[n], n + 1))
      BY <1>2 DEF Grows
<1>4. f = [n \in Nat |-> IF n = 0 THEN <<>> ELSE Append(f[n - 1], Composed(f[n - 1], n))]
      <2>1. ASSUME NEW n \in Nat, n # 0
            PROVE  f[n] = Append(f[n - 1], Composed(f[n - 1], n))
            <3>1. n - 1 \in Nat /\ (n - 1) + 1 = n
                  BY <2>1
            <3>2. f[(n - 1) + 1] = Append(f[n - 1], Composed(f[n - 1], (n - 1) + 1))
                  BY <1>3, <3>1
            <3> QED
                BY <3>1, <3>2
      <2>2. f[0] = <<>>
            BY <1>2 DEF Grows
      <2> QED
          BY <1>2, <2>1, <2>2
<1> DEFINE P(g) == g = [n \in Nat |-> IF n = 0 THEN <<>> ELSE Append(g[n - 1], Composed(g[n - 1], n))]
<1>5. P(f)
      BY <1>4
<1>6. Strategies = CHOOSE g : P(g)
      BY DEF Strategies
<1>7. P(Strategies)
      <2> HIDE DEF P
      <2> QED
          BY <1>5, <1>6
<1> HIDE DEF next
<1> DEFINE S == Strategies
<1>8. S = [n \in Nat |-> IF n = 0 THEN <<>> ELSE Append(S[n - 1], Composed(S[n - 1], n))]
      BY <1>7
<1> HIDE DEF S, P
<1>9. S[0] = <<>> /\ \A n \in Nat : S[n + 1] = Append(S[n], Composed(S[n], n + 1))
      <2>1. S[0] = <<>>
            BY <1>8
      <2>2. ASSUME NEW n \in Nat
            PROVE  S[n + 1] = Append(S[n], Composed(S[n], n + 1))
            <3>1. n + 1 \in Nat /\ n + 1 # 0 /\ (n + 1) - 1 = n
                  OBVIOUS
            <3>2. S[n + 1] = Append(S[(n + 1) - 1], Composed(S[(n + 1) - 1], n + 1))
                  BY <1>8, <3>1
            <3> QED
                BY <3>1, <3>2
      <2> QED
          BY <2>1, <2>2
<1> DEFINE R == {n \in Nat : S[n] = f[n]}
<1>10. Nat \subseteq R
      <2>1. 0 \in R
            BY <1>2, <1>9 DEF Grows
      <2>2. ASSUME NEW n \in Nat, n \in R
            PROVE  n + 1 \in R
            <3>1. S[n] = f[n] /\ S[n + 1] = Append(S[n], Composed(S[n], n + 1))
                  BY <1>9, <2>2
            <3>2. f[n + 1] = Append(f[n], Composed(f[n], n + 1))
                  BY <1>3
            <3>3. S[n + 1] = f[n + 1] /\ n + 1 \in Nat
                  BY <3>1, <3>2
            <3> QED
                BY <3>3, Zenon
      <2> HIDE DEF R
      <2> QED
          BY <2>1, <2>2, SimpleInduction
<1>11. S = f
      <2>1. DOMAIN S = Nat /\ S = [n \in DOMAIN S |-> S[n]]
            BY <1>8
      <2> QED
          BY <1>2, <1>10, <2>1
<1> QED
    BY <1>2, <1>3, <1>11 DEF S

\* One leaf needs no doubling; more are split in two somewhere.
LEMMA StrategiesMade ==
    /\ AllStrategies(1) = { <<>> }
    /\ \A n \in Nat \ {0, 1} : \A s :
          s \in AllStrategies(n) <=>
             \E b \in 1..(n - 1) : \E x \in AllStrategies(n - b), y \in AllStrategies(b) :
                s = <<b>> \o x \o y
<1> DEFINE S == Strategies
<1>0. Grows(S, Family) /\ \A n \in Nat : S[n + 1] = Append(S[n], Composed(S[n], n + 1))
      BY StrategiesGrow
<1> HIDE DEF S
<1>1. ASSUME NEW n \in Nat \ {0}
      PROVE  S[n][n] = Composed(S[n - 1], n)
      <2> DEFINE m == n - 1
                 q == S[m]
                 v == Composed(q, n)
      <2>1. m \in Nat /\ m + 1 = n
            OBVIOUS
      <2>2. S[m + 1] = Append(S[m], Composed(S[m], m + 1))
            BY <1>0, <2>1
      <2>3. S[n] = Append(q, v)
            BY <2>1, <2>2
      <2>4. q \in Seq(Family) /\ Len(q) = m
            BY <1>0, <2>1 DEF Grows
      <2>5. v \in Family
            BY <2>1, <2>4, ComposedType
      <2>6. Append(q, v)[Len(q) + 1] = v
            <3> HIDE DEF q, v
            <3> QED
                BY <2>4, <2>5, AppendProperties
      <2>7. S[n][n] = v
            BY <2>1, <2>3, <2>4, <2>6
      <2> QED
          BY <2>7
<1>2. ASSUME NEW n \in Nat, NEW i \in 1..n
      PROVE  S[n][i] = AllStrategies(i)
      <2>1. S[n][i] = S[i][i]
            BY <1>0, GrownStays
      <2> QED
          BY <2>1 DEF AllStrategies, S
<1>3. AllStrategies(1) = { <<>> }
      <2>1. S[1][1] = Composed(S[0], 1)
            BY <1>1
      <2>2. S[1][1] = { <<>> }
            BY <2>1 DEF Composed
      <2> QED
          BY <2>2, <1>2
<1>4. ASSUME NEW n \in Nat \ {0, 1}, NEW s
      PROVE  s \in AllStrategies(n) <=>
                \E b \in 1..(n - 1) : \E x \in AllStrategies(n - b), y \in AllStrategies(b) :
                   s = <<b>> \o x \o y
      <2>1. AllStrategies(n) = Composed(S[n - 1], n)
            BY <1>1, <1>2
      <2>2. ASSUME NEW b \in 1..(n - 1)
            PROVE  S[n - 1][n - b] = AllStrategies(n - b) /\ S[n - 1][b] = AllStrategies(b)
            <3>1. n - 1 \in Nat /\ n - b \in 1..(n - 1)
                  OBVIOUS
            <3> QED
                BY <1>2, <3>1
      <2>3. s \in Composed(S[n - 1], n) <=> \E b \in 1..(n - 1) : s \in Joined(S[n - 1], n, b)
            BY DEF Composed
      <2>4. ASSUME NEW b \in 1..(n - 1)
            PROVE  s \in Joined(S[n - 1], n, b) <=>
                      \E x \in AllStrategies(n - b), y \in AllStrategies(b) : s = <<b>> \o x \o y
            <3> DEFINE t == S[n - 1]
            <3>2. t[n - b] = AllStrategies(n - b) /\ t[b] = AllStrategies(b)
                  BY <2>2
            <3> HIDE DEF t
            <3>1. s \in Joined(t, n, b) <=> \E x \in t[n - b], y \in t[b] : s = <<b>> \o x \o y
                  <4>1. s \in Joined(t, n, b) <=> \E h \in t[n - b] \X t[b] : s = <<b>> \o h[1] \o h[2]
                        BY DEF Joined
                  <4>2. ASSUME NEW h \in t[n - b] \X t[b], s = <<b>> \o h[1] \o h[2]
                        PROVE  \E x \in t[n - b], y \in t[b] : s = <<b>> \o x \o y
                        <5>1. h[1] \in t[n - b] /\ h[2] \in t[b]
                              OBVIOUS
                        <5> QED
                            BY <4>2, <5>1
                  <4>3. ASSUME NEW x \in t[n - b], NEW y \in t[b], s = <<b>> \o x \o y
                        PROVE  \E h \in t[n - b] \X t[b] : s = <<b>> \o h[1] \o h[2]
                        <5> DEFINE h == <<x, y>>
                        <5>1. h \in t[n - b] \X t[b] /\ h[1] = x /\ h[2] = y
                              OBVIOUS
                        <5> HIDE DEF h
                        <5> QED
                            BY <4>3, <5>1
                  <4> QED
                      BY <4>1, <4>2, <4>3
            <3>3. s \in Joined(t, n, b) <=>
                      \E x \in AllStrategies(n - b), y \in AllStrategies(b) : s = <<b>> \o x \o y
                  BY <3>1, <3>2, Zenon
            <3> QED
                BY <3>3 DEF t
      <2> QED
          BY <2>1, <2>3, <2>4
<1> QED
    BY <1>3, <1>4

LEMMA StrategySplit ==
    ASSUME NEW n \in Nat \ {0, 1}, NEW s \in AllStrategies(n)
    PROVE  \E b \in 1..(n - 1) : \E x \in AllStrategies(n - b), y \in AllStrategies(b) :
              s = <<b>> \o x \o y
BY StrategiesMade, Zenon

LEMMA StrategyMade ==
    ASSUME NEW n \in Nat \ {0, 1}, NEW b \in 1..(n - 1),
           NEW x \in AllStrategies(n - b), NEW y \in AllStrategies(b)
    PROVE  <<b>> \o x \o y \in AllStrategies(n)
BY StrategiesMade, Zenon

\* A strategy of n leaves has n - 1 nodes.
LEMMA StrategyLength ==
    \A n \in Nat \ {0} : \A s \in AllStrategies(n) : s \in Seq(Steps) /\ Len(s) = n - 1
<1> DEFINE S == {n \in Nat : n # 0 => \A s \in AllStrategies(n) : s \in Seq(Steps) /\ Len(s) = n - 1}
<1>1. ASSUME NEW n \in Nat, \A m \in Nat : m < n => m \in S
      PROVE  n \in S
      <2> SUFFICES ASSUME n # 0, NEW s \in AllStrategies(n)
                   PROVE  s \in Seq(Steps) /\ Len(s) = n - 1
          OBVIOUS
      <2>1. CASE n = 1
            <3>1. s = <<>>
                  BY <2>1, StrategiesMade
            <3> QED
                BY <2>1, <3>1
      <2>2. CASE n # 1
            <3>1. PICK b \in 1..(n - 1) :
                     \E x \in AllStrategies(n - b), y \in AllStrategies(b) : s = <<b>> \o x \o y
                  <4>1. n \in Nat \ {0, 1}
                        BY <2>2
                  <4> QED
                      BY <4>1, StrategySplit, Zenon
            <3>2. PICK x \in AllStrategies(n - b), y \in AllStrategies(b) : s = <<b>> \o x \o y
                  BY <3>1
            <3>3. n - b \in Nat /\ n - b < n /\ n - b # 0 /\ b \in Nat /\ b < n /\ b # 0
                  OBVIOUS
            <3>4. n - b \in S /\ b \in S
                  BY <1>1, <3>3
            <3>5. x \in Seq(Steps) /\ Len(x) = n - b - 1 /\ y \in Seq(Steps) /\ Len(y) = b - 1
                  BY <3>3, <3>4
            <3>6. <<b>> \in Seq(Steps) /\ Len(<<b>>) = 1
                  BY <3>3 DEF Steps
            <3> DEFINE u == <<b>> \o x
            <3>7. u \in Seq(Steps) /\ Len(u) = n - b
                  BY <3>5, <3>6, ConcatProperties
            <3>8. s \in Seq(Steps) /\ Len(s) = (n - b) + (b - 1)
                  <4>1. s = u \o y
                        BY <3>2
                  <4> HIDE DEF u
                  <4>2. u \o y \in Seq(Steps) /\ Len(u \o y) = Len(u) + Len(y)
                        BY <3>5, <3>7, ConcatProperties
                  <4> QED
                      BY <3>5, <3>7, <4>1, <4>2
            <3> QED
                BY <3>8
      <2> QED
          BY <2>1, <2>2
<1>2. Nat \subseteq S
      <2> HIDE DEF S
      <2> QED
          BY <1>1, StrongInduction
<1> QED
    BY <1>2

\* The m - 1 nodes of s after the first a.
Part(s, a, m) == [i \in 1..(m - 1) |-> s[a + i]]

LEMMA PartOfPart ==
    ASSUME NEW s, NEW a \in Int, NEW m \in Int, NEW c \in Nat, NEW q \in Int, c + q <= m
    PROVE  Part(Part(s, a, m), c, q) = Part(s, a + c, q)
BY DEF Part

\* Where the two halves of a strategy are.
LEMMA PartsOf ==
    ASSUME NEW n \in Nat \ {0, 1}, NEW b \in 1..(n - 1), NEW x \in Seq(Steps), NEW y \in Seq(Steps),
           Len(x) = n - b - 1, Len(y) = b - 1
    PROVE  /\ (<<b>> \o x \o y)[1] = b
           /\ Part(<<b>> \o x \o y, 1, n - b) = x
           /\ Part(<<b>> \o x \o y, n - b, b) = y
<1> DEFINE s == <<b>> \o x \o y
<1> DEFINE u == <<b>> \o x
<1>1. <<b>> \in Seq(Steps) /\ Len(<<b>>) = 1 /\ <<b>>[1] = b
      BY DEF Steps
<1>2. /\ u \in Seq(Steps) /\ Len(u) = n - b
      /\ u[1] = b
      /\ \A i \in 1..(n - b - 1) : u[1 + i] = x[i]
      <2>1. /\ u \in Seq(Steps) /\ Len(u) = 1 + Len(x)
            /\ \A i \in 1..(1 + Len(x)) : u[i] = IF i <= 1 THEN <<b>>[i] ELSE x[i - 1]
            BY <1>1, ConcatProperties
      <2>2. ASSUME NEW i \in 1..(n - b - 1)
            PROVE  u[1 + i] = x[i]
            <3>1. 1 + i \in 1..(1 + Len(x)) /\ ~(1 + i <= 1) /\ (1 + i) - 1 = i
                  OBVIOUS
            <3> QED
                BY <2>1, <3>1
      <2> QED
          BY <1>1, <2>1, <2>2
<1>3. s = u \o y
      OBVIOUS
<1> HIDE DEF u, s
<1>4. \A i \in 1..(Len(u) + Len(y)) : s[i] = IF i <= Len(u) THEN u[i] ELSE y[i - Len(u)]
      BY <1>2, <1>3, ConcatProperties
<1>5. s[1] = b
      BY <1>2, <1>4
<1>6. \A i \in 1..(n - b - 1) : s[1 + i] = x[i]
      BY <1>2, <1>4
<1>7. ASSUME NEW i \in 1..(b - 1)
      PROVE  s[(n - b) + i] = y[i]
      <2>1. (n - b) + i \in 1..(Len(u) + Len(y)) /\ ~((n - b) + i <= Len(u)) /\ ((n - b) + i) - Len(u) = i
            BY <1>2
      <2> QED
          BY <1>4, <2>1
<1>8. x = [i \in 1..(n - b - 1) |-> x[i]] /\ y = [i \in 1..(b - 1) |-> y[i]]
      BY LenProperties
<1>9. s[1] = b /\ Part(s, 1, n - b) = x /\ Part(s, n - b, b) = y
      BY <1>5, <1>6, <1>7, <1>8 DEF Part
<1> QED
    BY <1>9 DEF s

\* A strategy names the doublings to its first half, and both halves are
\* strategies.
LEMMA StrategyHalves ==
    ASSUME NEW n \in Nat \ {0, 1}, NEW s \in AllStrategies(n)
    PROVE  /\ s[1] \in 1..(n - 1)
           /\ Part(s, 1, n - s[1]) \in AllStrategies(n - s[1])
           /\ Part(s, n - s[1], s[1]) \in AllStrategies(s[1])
<1>1. PICK b \in 1..(n - 1) :
         \E x \in AllStrategies(n - b), y \in AllStrategies(b) : s = <<b>> \o x \o y
      BY StrategySplit, Zenon
<1>2. PICK x \in AllStrategies(n - b), y \in AllStrategies(b) : s = <<b>> \o x \o y
      BY <1>1
<1>3. n - b \in Nat \ {0} /\ b \in Nat \ {0}
      OBVIOUS
<1>4. x \in Seq(Steps) /\ Len(x) = n - b - 1 /\ y \in Seq(Steps) /\ Len(y) = b - 1
      BY <1>3, StrategyLength
<1>5. s[1] = b /\ Part(s, 1, n - b) = x /\ Part(s, n - b, b) = y
      BY <1>2, <1>4, PartsOf, SMT
<1> QED
    BY <1>5

---------------------------------------------------------------------------
(* The optimised strategy.                                                 *)

Entries == [s : Seq(Steps), c : Nat]

LEMMA EntryOf ==
    ASSUME NEW t \in Seq(Entries), NEW j \in 1..Len(t)
    PROVE  t[j] \in Entries /\ t[j].s \in Seq(Steps) /\ t[j].c \in Nat
<1>1. t[j] \in Entries
      BY ElementOfSeq
<1> QED
    BY <1>1 DEF Entries

LEMMA SplitFound ==
    ASSUME NEW mul \in Nat, NEW t \in Seq(Entries), NEW i \in Nat, i = Len(t) + 1, i # 1
    PROVE  /\ BestSplit(t, i, mul) \in 1..(i - 1)
           /\ \A a \in 1..(i - 1) : SplitCost(t, i, BestSplit(t, i, mul), mul) <= SplitCost(t, i, a, mul)
           /\ \A a \in 1..(i - 1) : SplitCost(t, i, a, mul) \in Nat
<1> DEFINE cost == [a \in 1..(i - 1) |-> SplitCost(t, i, a, mul)]
           values == {cost[a] : a \in 1..(i - 1)}
<1>1. ASSUME NEW a \in 1..(i - 1)
      PROVE  SplitCost(t, i, a, mul) \in Nat
      <2> DEFINE d == i - a
      <2>1. a \in 1..Len(t) /\ d \in 1..Len(t)
            OBVIOUS
      <2>2. t[a].c \in Nat /\ t[d].c \in Nat
            <3> HIDE DEF d
            <3> QED
                BY <2>1, EntryOf
      <2> DEFINE p == a * mul
                 q == (i - a) * EvalCost
      <2>3. p \in Nat /\ q \in Nat
            BY DEF EvalCost
      <2>4. SplitCost(t, i, a, mul) = t[d].c + t[a].c + p + q
            BY DEF SplitCost
      <2> HIDE DEF p, q, d
      <2> QED
          BY <2>2, <2>3, <2>4
<1>2. values \subseteq Nat /\ values # {}
      <2>1. 1 \in 1..(i - 1)
            OBVIOUS
      <2>2. cost[1] \in values
            BY <2>1
      <2> QED
          BY <1>1, <2>2
<1>3. PICK least \in values : \A v \in values : least <= v
      <2> HIDE DEF values
      <2> QED
          BY <1>2, LeastElement
<1> DEFINE where == {a \in 1..(i - 1) : cost[a] = least}
<1>4. where \subseteq Nat /\ where # {}
      BY <1>3
<1>5. PICK b \in where : \A a \in where : b <= a
      <2> HIDE DEF where
      <2> QED
          BY <1>4, LeastElement
<1> DEFINE P(x) == /\ \A a \in 1..(i - 1) : SplitCost(t, i, x, mul) <= SplitCost(t, i, a, mul)
                   /\ \A a \in 1..(x - 1) : SplitCost(t, i, a, mul) > SplitCost(t, i, x, mul)
<1>6. P(b)
      <2>1. b \in 1..(i - 1) /\ SplitCost(t, i, b, mul) = least
            OBVIOUS
      <2>2. ASSUME NEW a \in 1..(i - 1)
            PROVE  SplitCost(t, i, b, mul) <= SplitCost(t, i, a, mul)
            <3>1. cost[a] \in values
                  OBVIOUS
            <3> QED
                BY <1>3, <2>1, <3>1
      <2>3. ASSUME NEW a \in 1..(b - 1)
            PROVE  SplitCost(t, i, a, mul) > SplitCost(t, i, b, mul)
            <3>1. a \in 1..(i - 1) /\ ~(b <= a)
                  BY <2>1
            <3>2. cost[a] # least
                  BY <1>5, <3>1
            <3>3. SplitCost(t, i, a, mul) \in Nat /\ SplitCost(t, i, b, mul) \in Nat
                  BY <1>1, <2>1, <3>1
            <3> QED
                BY <2>1, <2>2, <3>1, <3>2, <3>3
      <2> QED
          BY <2>2, <2>3
<1>7. BestSplit(t, i, mul) = CHOOSE x \in 1..(i - 1) : P(x)
      BY DEF BestSplit
<1>8. BestSplit(t, i, mul) \in 1..(i - 1) /\ P(BestSplit(t, i, mul))
      <2>1. \E x \in 1..(i - 1) : P(x)
            BY <1>6
      <2> HIDE DEF P, where, values, cost
      <2> QED
          BY <1>7, <2>1
<1> QED
    BY <1>1, <1>8

LEMMA EntryType ==
    ASSUME NEW mul \in Nat, NEW t \in Seq(Entries)
    PROVE  BestEntry(t, Len(t) + 1, mul) \in Entries
<1> DEFINE i == Len(t) + 1
           b == BestSplit(t, i, mul)
           a == i - b
<1>0. i \in Nat /\ i = Len(t) + 1
      OBVIOUS
<1>1. CASE i = 1
      <2>1. <<>> \in Seq(Steps)
            OBVIOUS
      <2> QED
          BY <1>1, <2>1 DEF BestEntry, Entries
<1>2. CASE i # 1
      <2>1. b \in 1..(i - 1) /\ SplitCost(t, i, b, mul) \in Nat
            <3> HIDE DEF i
            <3> QED
                BY <1>0, <1>2, SplitFound
      <2>2. a \in 1..Len(t) /\ b \in 1..Len(t)
            BY <2>1
      <2>3. t[a].s \in Seq(Steps) /\ t[b].s \in Seq(Steps)
            <3> HIDE DEF a, b
            <3> QED
                BY <2>2, EntryOf
      <2>4. <<b>> \in Seq(Steps)
            BY <2>1 DEF Steps
      <2>5. <<b>> \o t[a].s \o t[b].s \in Seq(Steps)
            <3> HIDE DEF a, b
            <3> QED
                BY <2>3, <2>4, ConcatProperties
      <2>6. BestEntry(t, i, mul) = [s |-> <<b>> \o t[a].s \o t[b].s, c |-> SplitCost(t, i, b, mul)]
            BY <1>2 DEF BestEntry
      <2> DEFINE x == <<b>> \o t[a].s \o t[b].s
                 v == SplitCost(t, i, b, mul)
      <2>7. BestEntry(t, i, mul) = [s |-> x, c |-> v] /\ x \in Seq(Steps) /\ v \in Nat
            BY <2>1, <2>5, <2>6
      <2> HIDE DEF x, v
      <2> QED
          BY <2>7 DEF Entries
<1> QED
    BY <1>1, <1>2

LEMMA TableGrows ==
    ASSUME NEW mul \in Nat
    PROVE  LET S == StrategyTable(mul)
           IN  /\ Grows(S, Entries)
               /\ \A n \in Nat : S[n + 1] = Append(S[n], BestEntry(S[n], n + 1, mul))
<1> DEFINE next == [t \in Seq(Entries) |-> BestEntry(t, Len(t) + 1, mul)]
<1>1. next \in [Seq(Entries) -> Entries]
      BY EntryType
<1>2. PICK f : /\ f \in [Nat -> Seq(Entries)] /\ Grows(f, Entries)
               /\ \A n \in Nat : f[n + 1] = Append(f[n], next[f[n]])
      <2> HIDE DEF next
      <2> QED
          BY <1>1, GrownExists
<1>3. \A n \in Nat : f[n + 1] = Append(f[n], BestEntry(f[n], n + 1, mul))
      BY <1>2 DEF Grows
<1> HIDE DEF next
<1>4. f = [n \in Nat |-> IF n = 0 THEN <<>> ELSE Append(f[n - 1], BestEntry(f[n - 1], n, mul))]
      <2>1. ASSUME NEW n \in Nat, n # 0
            PROVE  f[n] = Append(f[n - 1], BestEntry(f[n - 1], n, mul))
            <3>1. n - 1 \in Nat /\ (n - 1) + 1 = n
                  BY <2>1
            <3>2. f[(n - 1) + 1] = Append(f[n - 1], BestEntry(f[n - 1], (n - 1) + 1, mul))
                  BY <1>3, <3>1
            <3> QED
                BY <3>1, <3>2
      <2>2. f[0] = <<>>
            BY <1>2 DEF Grows
      <2> QED
          BY <1>2, <2>1, <2>2
<1> DEFINE P(g) == g = [n \in Nat |-> IF n = 0 THEN <<>> ELSE Append(g[n - 1], BestEntry(g[n - 1], n, mul))]
           S == StrategyTable(mul)
<1>5. P(f)
      BY <1>4
<1>6. S = CHOOSE g : P(g)
      BY DEF StrategyTable
<1>7. P(S)
      <2> HIDE DEF P, S
      <2> QED
          BY <1>5, <1>6
<1>8. S = [n \in Nat |-> IF n = 0 THEN <<>> ELSE Append(S[n - 1], BestEntry(S[n - 1], n, mul))]
      BY <1>7
<1> HIDE DEF S, P
<1>9. S[0] = <<>> /\ \A n \in Nat : S[n + 1] = Append(S[n], BestEntry(S[n], n + 1, mul))
      <2>1. S[0] = <<>>
            BY <1>8
      <2>2. ASSUME NEW n \in Nat
            PROVE  S[n + 1] = Append(S[n], BestEntry(S[n], n + 1, mul))
            <3>1. n + 1 \in Nat /\ n + 1 # 0 /\ (n + 1) - 1 = n
                  OBVIOUS
            <3>2. S[n + 1] = Append(S[(n + 1) - 1], BestEntry(S[(n + 1) - 1], n + 1, mul))
                  BY <1>8, <3>1
            <3> QED
                BY <3>1, <3>2
      <2> QED
          BY <2>1, <2>2
<1> DEFINE R == {n \in Nat : S[n] = f[n]}
<1>10. Nat \subseteq R
      <2>1. 0 \in R
            BY <1>2, <1>9 DEF Grows
      <2>2. ASSUME NEW n \in Nat, n \in R
            PROVE  n + 1 \in R
            <3>1. S[n] = f[n] /\ S[n + 1] = Append(S[n], BestEntry(S[n], n + 1, mul))
                  BY <1>9, <2>2
            <3>2. f[n + 1] = Append(f[n], BestEntry(f[n], n + 1, mul))
                  BY <1>3
            <3>3. S[n + 1] = f[n + 1] /\ n + 1 \in Nat
                  BY <3>1, <3>2
            <3> QED
                BY <3>3, Zenon
      <2> HIDE DEF R
      <2> QED
          BY <2>1, <2>2, SimpleInduction
<1>11. S = f
      <2>1. DOMAIN S = Nat /\ S = [n \in DOMAIN S |-> S[n]]
            BY <1>8
      <2> QED
          BY <1>2, <1>10, <2>1
<1>12. Grows(S, Entries) /\ \A n \in Nat : S[n + 1] = Append(S[n], BestEntry(S[n], n + 1, mul))
      BY <1>2, <1>3, <1>11
<1> QED
    BY <1>12 DEF S

\* The optimised strategy of n leaves splits them at least cost, and both
\* halves are optimised.
LEMMA OptimisedMade ==
    ASSUME NEW mul \in Nat
    PROVE  /\ OptimisedStrategy(1, mul) = <<>> /\ OptimalCost(1, mul) = 0
           /\ \A n \in Nat \ {0} : OptimalCost(n, mul) \in Nat
           /\ \A n \in Nat \ {0, 1} : \E b \in 1..(n - 1) :
                 /\ OptimisedStrategy(n, mul) = <<b>> \o OptimisedStrategy(n - b, mul) \o OptimisedStrategy(b, mul)
                 /\ OptimalCost(n, mul) = OptimalCost(n - b, mul) + OptimalCost(b, mul) + b * mul + (n - b) * EvalCost
                 /\ \A a \in 1..(n - 1) :
                       OptimalCost(n, mul) <= OptimalCost(n - a, mul) + OptimalCost(a, mul) + a * mul + (n - a) * EvalCost
<1> DEFINE S == StrategyTable(mul)
<1>0. Grows(S, Entries) /\ \A n \in Nat : S[n + 1] = Append(S[n], BestEntry(S[n], n + 1, mul))
      BY TableGrows
<1>1. ASSUME NEW n \in Nat, NEW i \in 1..n
      PROVE  S[n][i].s = OptimisedStrategy(i, mul) /\ S[n][i].c = OptimalCost(i, mul) /\ S[n][i] \in Entries
      <2>1. S[n][i] = S[i][i] /\ S[i][i] \in Entries
            <3> HIDE DEF S
            <3> QED
                BY <1>0, GrownStays
      <2>2. CASE i = 1
            <3>1. S[1] = Append(S[0], BestEntry(S[0], 1, mul)) /\ S[0] = <<>>
                  <4>1. S[0 + 1] = Append(S[0], BestEntry(S[0], 0 + 1, mul))
                        BY <1>0
                  <4>2. S[0] = <<>>
                        BY <1>0 DEF Grows
                  <4> QED
                      BY <4>1, <4>2
            <3>2. S[1][1] = BestEntry(S[0], 1, mul)
                  BY <3>1
            <3>3. S[1][1] = [s |-> <<>>, c |-> 0]
                  BY <3>2 DEF BestEntry
            <3>4. OptimisedStrategy(1, mul) = <<>> /\ OptimalCost(1, mul) = 0
                  BY DEF OptimisedStrategy, OptimalCost
            <3> QED
                BY <2>1, <2>2, <3>3, <3>4
      <2>3. CASE i # 1
            <3>1. ~(i <= 1)
                  BY <2>3
            <3> QED
                BY <2>1, <3>1 DEF OptimisedStrategy, OptimalCost
      <2> QED
          BY <2>2, <2>3
<1> HIDE DEF S
<1>2. ASSUME NEW n \in Nat \ {0, 1}
      PROVE  \E b \in 1..(n - 1) :
                 /\ OptimisedStrategy(n, mul) = <<b>> \o OptimisedStrategy(n - b, mul) \o OptimisedStrategy(b, mul)
                 /\ OptimalCost(n, mul) = OptimalCost(n - b, mul) + OptimalCost(b, mul) + b * mul + (n - b) * EvalCost
                 /\ \A a \in 1..(n - 1) :
                       OptimalCost(n, mul) <= OptimalCost(n - a, mul) + OptimalCost(a, mul) + a * mul + (n - a) * EvalCost
      <2> DEFINE m == n - 1
                 t == S[m]
                 b == BestSplit(t, n, mul)
      <2>1. m \in Nat /\ m + 1 = n
            OBVIOUS
      <2>2. t \in Seq(Entries) /\ Len(t) = m
            BY <1>0, <2>1 DEF Grows
      <2>3. S[n] = Append(t, BestEntry(t, n, mul))
            <3>1. S[m + 1] = Append(S[m], BestEntry(S[m], m + 1, mul))
                  BY <1>0, <2>1
            <3> QED
                BY <2>1, <3>1
      <2>4. ASSUME NEW a \in 1..(n - 1)
            PROVE  /\ t[a].s = OptimisedStrategy(a, mul) /\ t[n - a].s = OptimisedStrategy(n - a, mul)
                   /\ SplitCost(t, n, a, mul) =
                         OptimalCost(n - a, mul) + OptimalCost(a, mul) + a * mul + (n - a) * EvalCost
            <3> DEFINE d == n - a
            <3>1. a \in 1..m /\ d \in 1..m
                  OBVIOUS
            <3>2. t[a].s = OptimisedStrategy(a, mul) /\ t[a].c = OptimalCost(a, mul)
                  BY <1>1, <2>1, <3>1
            <3>3. t[d].s = OptimisedStrategy(d, mul) /\ t[d].c = OptimalCost(d, mul)
                  <4> HIDE DEF d
                  <4> QED
                      BY <1>1, <2>1, <3>1
            <3> HIDE DEF t
            <3> QED
                BY <3>2, <3>3 DEF SplitCost
      <2>5. /\ b \in 1..(n - 1)
            /\ \A a \in 1..(n - 1) : SplitCost(t, n, b, mul) <= SplitCost(t, n, a, mul)
            <3>1. n \in Nat /\ n = Len(t) + 1 /\ n # 1
                  BY <2>1, <2>2
            <3> HIDE DEF t, m
            <3> QED
                BY <2>2, <3>1, SplitFound
      <2>6. BestEntry(t, n, mul) = [s |-> <<b>> \o t[n - b].s \o t[b].s, c |-> SplitCost(t, n, b, mul)]
            BY DEF BestEntry
      <2>7. S[n][n] = BestEntry(t, n, mul)
            <3>1. BestEntry(t, n, mul) \in Entries
                  <4>1. n = Len(t) + 1
                        BY <2>1, <2>2
                  <4> HIDE DEF t, m
                  <4> QED
                      BY <2>2, <4>1, EntryType
            <3> DEFINE v == BestEntry(t, n, mul)
            <3>2. Append(t, v)[Len(t) + 1] = v
                  <4> HIDE DEF t, v
                  <4> QED
                      BY <2>2, <3>1, AppendProperties DEF v
            <3> QED
                BY <2>1, <2>2, <2>3, <3>2
      <2>8. OptimisedStrategy(n, mul) = S[n][n].s /\ OptimalCost(n, mul) = S[n][n].c
            <3>1. n \in 1..n
                  OBVIOUS
            <3> QED
                BY <1>1, <3>1
      <2> HIDE DEF t, b, m
      <2>9. /\ OptimisedStrategy(n, mul) = <<b>> \o OptimisedStrategy(n - b, mul) \o OptimisedStrategy(b, mul)
            /\ OptimalCost(n, mul) = SplitCost(t, n, b, mul)
            <3>1. /\ OptimisedStrategy(n, mul) = <<b>> \o t[n - b].s \o t[b].s
                  /\ OptimalCost(n, mul) = SplitCost(t, n, b, mul)
                  <4> DEFINE x == <<b>> \o t[n - b].s \o t[b].s
                             v == SplitCost(t, n, b, mul)
                  <4>1. S[n][n] = [s |-> x, c |-> v]
                        BY <2>6, <2>7
                  <4> HIDE DEF x, v
                  <4>2. S[n][n].s = x /\ S[n][n].c = v
                        BY <4>1
                  <4> QED
                      BY <2>8, <4>2 DEF x, v
            <3>2. t[b].s = OptimisedStrategy(b, mul) /\ t[n - b].s = OptimisedStrategy(n - b, mul)
                  BY <2>4, <2>5
            <3> QED
                BY <3>1, <3>2
      <2> QED
          BY <2>4, <2>5, <2>9
<1>3. ASSUME NEW n \in Nat \ {0}
      PROVE  OptimalCost(n, mul) \in Nat
      <2>1. n \in 1..n
            OBVIOUS
      <2> QED
          BY <1>1, <2>1 DEF Entries
<1>4. OptimisedStrategy(1, mul) = <<>> /\ OptimalCost(1, mul) = 0
      BY DEF OptimisedStrategy, OptimalCost
<1> QED
    BY <1>2, <1>3, <1>4

LEMMA OptimisedIsStrategy ==
    ASSUME NEW mul \in Nat
    PROVE  \A n \in Nat \ {0} : OptimisedStrategy(n, mul) \in AllStrategies(n)
<1> DEFINE S == {n \in Nat : n # 0 => OptimisedStrategy(n, mul) \in AllStrategies(n)}
<1>1. ASSUME NEW n \in Nat, \A m \in Nat : m < n => m \in S
      PROVE  n \in S
      <2> SUFFICES ASSUME n # 0 PROVE OptimisedStrategy(n, mul) \in AllStrategies(n)
          OBVIOUS
      <2>1. CASE n = 1
            BY <2>1, OptimisedMade, StrategiesMade
      <2>2. CASE n # 1
            <3>0. n \in Nat \ {0, 1}
                  BY <2>2
            <3>1. PICK b \in 1..(n - 1) :
                     OptimisedStrategy(n, mul) = <<b>> \o OptimisedStrategy(n - b, mul) \o OptimisedStrategy(b, mul)
                  BY <3>0, OptimisedMade
            <3> DEFINE x == OptimisedStrategy(n - b, mul)
                       y == OptimisedStrategy(b, mul)
            <3>2. n - b \in Nat /\ n - b < n /\ n - b # 0 /\ b \in Nat /\ b < n /\ b # 0
                  OBVIOUS
            <3>3. n - b \in S /\ b \in S
                  BY <1>1, <3>2
            <3>4. x \in AllStrategies(n - b) /\ y \in AllStrategies(b)
                  BY <3>2, <3>3
            <3> HIDE DEF x, y
            <3>5. <<b>> \o x \o y \in AllStrategies(n)
                  BY <3>0, <3>4, StrategyMade
            <3> QED
                BY <3>1, <3>5 DEF x, y
      <2> QED
          BY <2>1, <2>2
<1>2. Nat \subseteq S
      <2> HIDE DEF S
      <2> QED
          BY <1>1, StrongInduction
<1> QED
    BY <1>2

LEMMA OptimisedHalves ==
    ASSUME NEW mul \in Nat, NEW n \in Nat \ {0, 1}, NEW s, s = OptimisedStrategy(n, mul)
    PROVE  /\ s[1] \in 1..(n - 1)
           /\ Part(s, 1, n - s[1]) = OptimisedStrategy(n - s[1], mul)
           /\ Part(s, n - s[1], s[1]) = OptimisedStrategy(s[1], mul)
           /\ OptimalCost(n, mul) = OptimalCost(n - s[1], mul) + OptimalCost(s[1], mul)
                                       + s[1] * mul + (n - s[1]) * EvalCost
<1>1. PICK b \in 1..(n - 1) :
         /\ OptimisedStrategy(n, mul) = <<b>> \o OptimisedStrategy(n - b, mul) \o OptimisedStrategy(b, mul)
         /\ OptimalCost(n, mul) = OptimalCost(n - b, mul) + OptimalCost(b, mul) + b * mul + (n - b) * EvalCost
      BY OptimisedMade
<1> DEFINE x == OptimisedStrategy(n - b, mul)
           y == OptimisedStrategy(b, mul)
<1>2. n - b \in Nat \ {0} /\ b \in Nat \ {0}
      OBVIOUS
<1>3. x \in AllStrategies(n - b) /\ y \in AllStrategies(b)
      BY <1>2, OptimisedIsStrategy
<1>4. s = <<b>> \o x \o y
      BY <1>1
<1> HIDE DEF x, y
<1>5. x \in Seq(Steps) /\ Len(x) = n - b - 1 /\ y \in Seq(Steps) /\ Len(y) = b - 1
      BY <1>2, <1>3, StrategyLength
<1>6. s[1] = b /\ Part(s, 1, n - b) = x /\ Part(s, n - b, b) = y
      BY <1>4, <1>5, PartsOf, SMT
<1> QED
    BY <1>1, <1>6 DEF x, y

LEMMA CostLeast ==
    ASSUME NEW mul \in Nat, NEW n \in Nat \ {0, 1}, NEW a \in 1..(n - 1)
    PROVE  OptimalCost(n, mul) <= OptimalCost(n - a, mul) + OptimalCost(a, mul) + a * mul + (n - a) * EvalCost
BY OptimisedMade

LEMMA CostType ==
    ASSUME NEW mul \in Nat, NEW n \in Nat
    PROVE  OptimalCost(n, mul) \in Nat
<1>1. CASE n = 0
      BY <1>1 DEF OptimalCost
<1>2. CASE n # 0
      BY <1>2, OptimisedMade
<1> QED
    BY <1>1, <1>2

---------------------------------------------------------------------------
(* The invariant of the walk.                                              *)
(*                                                                         *)
(* The j-th saved basis is the kernel of a step when the chain has At(j+1) *)
(* - At(j) leaves less to go than when the basis above it is; its part of  *)
(* the strategy is what walks those leaves, and does not move while the    *)
(* bases above come and go.                                                *)

Mul == DoubleCost(driver)

\* The doublings of the j-th saved basis; above the top, the steps to go.
At(j) == IF j <= Len(elements) THEN elements[j][2] ELSE l - k

Leaves(j) == At(j + 1) - At(j)
Walks(j)  == Part(strategy, l - 1 - At(j + 1) + j, Leaves(j))

Saved ==
    /\ Len(level) = Len(elements)
    /\ \A j \in 1..Len(elements) :
          /\ elements[j][1] = cur
          /\ level[j] = elements[j][2] - (IF j = 1 THEN 0 ELSE elements[j - 1][2])

Stack ==
    /\ Len(strategy) = l - 1 /\ idx = k + Len(elements)
    /\ k < l => elements # <<>>
    /\ elements # <<>> => elements[1][2] = 0
    /\ \A j \in 1..Len(elements) : At(j) >= j - 1 /\ At(j) < At(j + 1)

Trees ==
    \A j \in 1..Len(elements) :
        /\ Walks(j) \in AllStrategies(Leaves(j))
        /\ strategy = OptimisedStrategy(l, Mul) => Walks(j) = OptimisedStrategy(Leaves(j), Mul)

\* What the bases up to the j-th will cost: the walk of their own leaves,
\* and their images under the steps until they are the top.
Debts ==
    {debt \in [0..Len(elements) -> Int] :
        /\ debt[0] = 0
        /\ \A j \in 1..Len(elements) :
              debt[j] = debt[j - 1] + OptimalCost(Leaves(j), Mul) + (l - k - At(j + 1)) * EvalCost}

Covers(sum) ==
    /\ sum >= OptimalCost(l, Mul)
    /\ strategy = OptimisedStrategy(l, Mul) => sum = OptimalCost(l, Mul)

Paid == \E debt \in Debts : Covers(spent + debt[Len(elements)])

Walking ==
    /\ result = "" /\ Saved
    /\ l = 0 => spent = 0
    /\ l > 0 => Stack /\ Trees /\ Paid

Delivered ==
    /\ pc = "returned" /\ k = l
    /\ driver = "dim2" => l > 0
    /\ l > 0 => idx = Len(strategy) + 1 /\ elements = <<>>
    /\ Covers(spent)

StratInv ==
    /\ TypeOK
    /\ pc # "panicked"
    /\ pc # "idle" => cur = k /\ Len(nulls) = k + 1 /\ \A j \in 1..(k + 1) : nulls[j] = j - 1
    /\ pc = "walk" => Walking
    /\ pc = "returned" => result \in {"some", "none"}
    /\ result = "some" => Delivered
    /\ result # "some" => back = <<0, -1>>
    /\ back[2] >= 0 => DualInStep /\ back[2] <= l

LEMMA LevelIs ==
    ASSUME TypeOK, Saved, elements # <<>>
    PROVE  LevelSum = elements[Len(elements)][2]
<1> DEFINE e == [j \in 0..Len(level) |-> IF j = 0 THEN 0 ELSE elements[j][2]]
<1>0. elements \in Seq(Nat \X Nat) /\ level \in Seq(Nat)
      BY DEF TypeOK
<1>1. level \in Seq(Int) /\ Len(level) = Len(elements) /\ Len(elements) \in Nat \ {0}
      <2>1. level \in Seq(Int)
            BY <1>0, SeqMonotonic
      <2>2. Len(level) = Len(elements)
            BY DEF Saved
      <2>3. Len(elements) \in Nat \ {0}
            BY <1>0, EmptySeq
      <2> QED
          BY <2>1, <2>2, <2>3
<1>2. e \in [0..Len(level) -> Int] /\ e[0] = 0
      <2>1. ASSUME NEW j \in 1..Len(elements)
            PROVE  elements[j][2] \in Int
            <3>1. elements[j] \in Nat \X Nat
                  BY <1>0, ElementOfSeq
            <3> QED
                BY <3>1
      <2> QED
          BY <1>1, <2>1
<1>3. \A j \in 1..Len(level) : level[j] = e[j] - e[j - 1]
      BY <1>1 DEF Saved
<1>4. e[Len(level)] = elements[Len(elements)][2]
      BY <1>1
<1> HIDE DEF e
<1>5. Sums(level)[Len(level)] = e[Len(level)]
      BY <1>1, <1>2, <1>3, SumsTelescope
<1> QED
    BY <1>4, <1>5 DEF LevelSum

LEMMA WalkingParts ==
    ASSUME StratInv, pc = "walk"
    PROVE  TypeOK /\ Saved /\ cur = k /\ result = "" /\ (l = 0 => spent = 0) /\ (l > 0 => Stack /\ Trees /\ Paid)
<1>1. Walking /\ TypeOK /\ cur = k
      BY DEF StratInv
<1> QED
    BY <1>1 DEF Walking

\* Where a walk stands that is not over.
LEMMA Standing ==
    ASSUME StratInv, pc = "walk", k < l
    PROVE  LET r == Len(elements)
           IN  /\ r \in Nat \ {0} /\ elements # <<>> /\ Last(elements) = elements[r]
               /\ l \in Nat /\ k \in Nat /\ l > 0 /\ cur = k
               /\ \A j \in 1..r : elements[j] = <<k, elements[j][2]>> /\ elements[j][2] \in Nat
               /\ LevelSum = elements[r][2]
               /\ elements[r][2] >= r - 1 /\ elements[r][2] < l - k
               /\ At(r) = elements[r][2] /\ At(r + 1) = l - k
               /\ idx = k + r /\ Len(strategy) = l - 1
<1> DEFINE r == Len(elements)
<1>1. l \in Nat /\ k \in Nat /\ l > 0 /\ cur = k /\ TypeOK /\ Saved /\ Stack
      <2>1. TypeOK /\ Saved /\ cur = k /\ (l > 0 => Stack)
            BY WalkingParts, Zenon
      <2>2. l \in Nat /\ k \in Nat /\ l > 0
            <3>1. l \in 0..MaxLength /\ k \in 0..l
                  BY <2>1 DEF TypeOK
            <3> QED
                BY <3>1, LengthAssumption
      <2> QED
          BY <2>1, <2>2
<1>2. elements # <<>> /\ elements \in Seq(Nat \X Nat)
      BY <1>1 DEF Stack, TypeOK
<1>3. r \in Nat \ {0}
      BY <1>2
<1>4. \A j \in 1..r : elements[j] \in Nat \X Nat
      BY <1>2, ElementOfSeq
<1>5. \A j \in 1..r : elements[j] = <<k, elements[j][2]>> /\ elements[j][2] \in Nat
      BY <1>1, <1>4 DEF Saved
<1>6. LevelSum = elements[r][2]
      BY <1>1, <1>2, LevelIs
<1>7. At(r) = elements[r][2] /\ At(r + 1) = l - k
      BY <1>3 DEF At
<1>8. elements[r][2] >= r - 1 /\ elements[r][2] < l - k
      BY <1>1, <1>3, <1>7 DEF Stack
<1>9. Last(elements) = elements[r]
      BY DEF Last
<1> QED
    BY <1>1, <1>2, <1>3, <1>5, <1>6, <1>7, <1>8, <1>9 DEF Stack

LEMMA UnderWay ==
    ASSUME StratInv, pc = "walk", k < l
    PROVE  TypeOK /\ Saved /\ Stack /\ Trees /\ Paid
<1>1. l > 0
      BY Standing
<1> QED
    BY <1>1, WalkingParts

\* The node the walk meets at the top of its stack, and its halves.
LEMMA NodeMet ==
    ASSUME StratInv, pc = "walk", k < l, LevelSum # Target
    PROVE  LET r == Len(elements)
               n == Leaves(r)
               b == strategy[idx]
           IN  /\ n = l - k - elements[r][2] /\ n \in Nat \ {0, 1} /\ b \in 1..(n - 1)
               /\ idx <= Len(strategy)
               /\ Part(strategy, k + r, n - b) \in AllStrategies(n - b)
               /\ Part(strategy, k + r - 1 + n - b, b) \in AllStrategies(b)
               /\ strategy = OptimisedStrategy(l, Mul) =>
                     /\ Part(strategy, k + r, n - b) = OptimisedStrategy(n - b, Mul)
                     /\ Part(strategy, k + r - 1 + n - b, b) = OptimisedStrategy(b, Mul)
                     /\ OptimalCost(n, Mul) = OptimalCost(n - b, Mul) + OptimalCost(b, Mul) + b * Mul + (n - b) * EvalCost
<1> DEFINE r == Len(elements)
           e == elements[r][2]
           n == Leaves(r)
           a == k + r - 1
           s == Part(strategy, a, n)
<1>1. /\ r \in Nat \ {0} /\ l \in Nat /\ k \in Nat /\ e \in Nat /\ e < l - k /\ e >= r - 1
      /\ LevelSum = e /\ At(r) = e /\ At(r + 1) = l - k /\ idx = k + r /\ Len(strategy) = l - 1
      /\ l > 0
      BY Standing
<1>2. e # l - 1 - k
      BY <1>1 DEF Target
<1>3. n = l - k - e /\ n \in Nat \ {0, 1}
      <2>1. n = (l - k) - e
            BY <1>1 DEF Leaves
      <2>2. l \in Nat /\ k \in Nat /\ e \in Nat /\ e < l - k /\ e # l - 1 - k
            BY <1>1, <1>2
      <2> HIDE DEF n, e
      <2> QED
          BY ONLY <2>1, <2>2
<1>4. Walks(r) = s
      <2>1. l - 1 - At(r + 1) + r = a
            BY <1>1
      <2> QED
          BY <2>1 DEF Walks
<1>5. s \in AllStrategies(n) /\ (strategy = OptimisedStrategy(l, Mul) => s = OptimisedStrategy(n, Mul))
      <2>1. Trees
            BY <1>1, WalkingParts
      <2>2. /\ Walks(r) \in AllStrategies(n)
            /\ strategy = OptimisedStrategy(l, Mul) => Walks(r) = OptimisedStrategy(n, Mul)
            <3>1. r \in 1..Len(elements)
                  BY <1>1
            <3> QED
                BY <2>1, <3>1 DEF Trees
      <2> QED
          BY <1>4, <2>2
<1> HIDE DEF n
<1>6. s[1] = strategy[idx]
      <2>1. 1 \in 1..(n - 1) /\ a + 1 = idx
            BY <1>1, <1>3
      <2> QED
          BY <2>1 DEF Part
<1>7. idx <= Len(strategy)
      BY <1>1, <1>2
<1>8. Mul \in Nat
      BY DEF Mul, DoubleCost
<1> DEFINE b == strategy[idx]
<1> HIDE DEF s, b, a
<1>9. /\ b \in 1..(n - 1)
      /\ Part(s, 1, n - b) \in AllStrategies(n - b) /\ Part(s, n - b, b) \in AllStrategies(b)
      BY <1>3, <1>5, <1>6, StrategyHalves DEF b
<1>10. Part(s, 1, n - b) = Part(strategy, a + 1, n - b) /\ Part(s, n - b, b) = Part(strategy, a + (n - b), b)
       <2>1. a \in Int /\ n \in Int /\ b \in Int /\ n - b \in Nat /\ 1 + (n - b) <= n /\ (n - b) + b <= n
             <3>1. a \in Int /\ n \in Int
                   BY <1>1, <1>3 DEF a
             <3>2. b \in Int /\ n - b \in Nat
                   BY <1>3, <1>9
             <3> QED
                 BY <1>9, <3>1, <3>2
       <2> QED
           BY <2>1, PartOfPart DEF s
<1>11. a + 1 = k + r /\ a + (n - b) = k + r - 1 + n - b
       BY <1>1, <1>3, <1>9 DEF a
<1>12. strategy = OptimisedStrategy(l, Mul) =>
         /\ Part(s, 1, n - b) = OptimisedStrategy(n - b, Mul)
         /\ Part(s, n - b, b) = OptimisedStrategy(b, Mul)
         /\ OptimalCost(n, Mul) = OptimalCost(n - b, Mul) + OptimalCost(b, Mul) + b * Mul + (n - b) * EvalCost
       BY <1>3, <1>5, <1>6, <1>8, OptimisedHalves DEF b
<1> QED
    BY <1>3, <1>7, <1>9, <1>10, <1>11, <1>12 DEF b, n

MulType == Mul \in Nat

LEMMA MulIsNat == MulType
BY DEF MulType, Mul, DoubleCost

---------------------------------------------------------------------------
(* A turn of the inner loop: one more basis on the stack.                  *)

Doubled ==
    /\ pc = "walk" /\ k < l /\ LevelSum # Target
    /\ level' = Append(level, strategy[idx])
    /\ elements' = Append(elements, <<Last(elements)[1], Last(elements)[2] + strategy[idx]>>)
    /\ idx' = idx + 1
    /\ spent' = spent + strategy[idx] * DoubleCost(driver)
    /\ UNCHANGED <<driver, l, strategy, k, cur, ready, kern, nulls, back, pc, result>>

\* The stack with the new top.
LEMMA DoubledStack ==
    ASSUME StratInv, Doubled, NEW CONSTANT r, r = Len(elements), NEW CONSTANT b, b = strategy[idx]
    PROVE  /\ elements' \in Seq(Nat \X Nat) /\ Len(elements') = r + 1
           /\ \A j \in 1..r : elements'[j] = elements[j]
           /\ elements'[r + 1] = <<k, elements[r][2] + b>>
           /\ level' \in Seq(Nat) /\ Len(level') = r + 1
           /\ \A j \in 1..r : level'[j] = level[j]
           /\ level'[r + 1] = b
           /\ \A j \in 1..r : At(j)' = At(j)
           /\ At(r + 1)' = At(r) + b /\ At(r + 2)' = l - k
<1> DEFINE top == <<k, elements[r][2] + b>>
<1>0. pc = "walk" /\ k < l /\ LevelSum # Target
      BY DEF Doubled
<1>1. /\ r \in Nat \ {0} /\ Last(elements) = elements[r] /\ elements[r] = <<k, elements[r][2]>>
      /\ elements[r][2] \in Nat /\ k \in Nat /\ l \in Nat /\ At(r) = elements[r][2]
      BY <1>0, Standing
<1>2. b \in Nat
      <2>1. strategy[idx] \in 1..(Leaves(Len(elements)) - 1)
            BY <1>0, NodeMet
      <2> QED
          BY <2>1
<1>3. elements \in Seq(Nat \X Nat) /\ level \in Seq(Nat) /\ Len(level) = r
      BY <1>0, WalkingParts DEF TypeOK, Saved
<1>4. top \in Nat \X Nat /\ elements' = Append(elements, top)
      <2>1. elements' = Append(elements, <<elements[r][1], elements[r][2] + b>>) /\ elements[r][1] = k
            BY <1>1 DEF Doubled
      <2> QED
          BY <1>1, <1>2, <2>1
<1>5. level' = Append(level, b)
      BY DEF Doubled
<1> HIDE DEF top
<1>6. /\ elements' \in Seq(Nat \X Nat) /\ Len(elements') = r + 1
      /\ \A j \in 1..r : elements'[j] = elements[j]
      /\ elements'[r + 1] = top
      BY <1>3, <1>4, AppendProperties
<1>7. /\ level' \in Seq(Nat) /\ Len(level') = r + 1
      /\ \A j \in 1..r : level'[j] = level[j]
      /\ level'[r + 1] = b
      BY <1>2, <1>3, <1>5, AppendProperties
<1>8. \A j \in 1..r : At(j)' = At(j)
      BY <1>1, <1>6 DEF At
<1>9. At(r + 1)' = At(r) + b
      BY <1>1, <1>6 DEF At, top
<1>10. At(r + 2)' = l - k
       <2>1. l' = l /\ k' = k
             BY DEF Doubled
       <2>2. ~(r + 2 <= Len(elements'))
             BY <1>1, <1>6
       <2> QED
           BY <2>1, <2>2 DEF At
<1> QED
    BY <1>6, <1>7, <1>8, <1>9, <1>10 DEF top

LEMMA DoubledSaved ==
    ASSUME StratInv, Doubled, NEW CONSTANT r, r = Len(elements), NEW CONSTANT b, b = strategy[idx],
           NEW CONSTANT n, n = Leaves(r)
    PROVE  Saved' /\ Stack'
<1>0. pc = "walk" /\ k < l /\ LevelSum # Target
      BY DEF Doubled
<1>1. Saved /\ Stack /\ r \in Nat \ {0} /\ l \in Nat /\ k \in Nat /\ elements[r][2] \in Nat
      /\ elements[r][2] >= r - 1 /\ At(r) = elements[r][2] /\ cur = k
      <2>1. Saved /\ Stack
            BY <1>0, UnderWay
      <2> QED
          BY <1>0, <2>1, Standing
<1>2. n = l - k - elements[r][2] /\ n \in Nat /\ b \in 1..(n - 1)
      BY <1>0, NodeMet
<1>3. /\ Len(elements') = r + 1
      /\ \A j \in 1..r : elements'[j] = elements[j]
      /\ elements'[r + 1] = <<k, elements[r][2] + b>>
      /\ Len(level') = r + 1
      /\ \A j \in 1..r : level'[j] = level[j]
      /\ level'[r + 1] = b
      /\ \A j \in 1..r : At(j)' = At(j)
      /\ At(r + 1)' = At(r) + b /\ At(r + 2)' = l - k
      BY DoubledStack
<1>4. cur' = cur /\ l' = l /\ k' = k /\ idx' = idx + 1 /\ strategy' = strategy
      BY DEF Doubled
<1>5. Saved'
      <2> SUFFICES ASSUME NEW j \in 1..(r + 1)
                   PROVE  /\ elements'[j][1] = cur
                          /\ level'[j] = elements'[j][2] - (IF j = 1 THEN 0 ELSE elements'[j - 1][2])
          BY <1>3, <1>4 DEF Saved
      <2>1. CASE j = r + 1
            <3>1. j # 1 /\ j - 1 = r /\ r \in 1..r
                  BY <1>1, <2>1
            <3> QED
                BY <1>1, <1>2, <1>3, <2>1, <3>1
      <2>2. CASE j # r + 1
            <3>1. j \in 1..r /\ (j # 1 => j - 1 \in 1..r)
                  BY <1>1, <2>2
            <3> QED
                BY <1>1, <1>3, <3>1 DEF Saved
      <2> QED
          BY <2>1, <2>2
<1>6. Stack'
      <2>1. Len(strategy') = l' - 1 /\ idx' = k' + Len(elements')
            BY <1>1, <1>3, <1>4 DEF Stack
      <2>2. elements' # <<>> /\ elements'[1][2] = 0
            BY <1>1, <1>3 DEF Stack
      <2>3. ASSUME NEW j \in 1..(r + 1)
            PROVE  At(j)' >= j - 1 /\ At(j)' < At(j + 1)'
            <3>1. CASE j = r + 1
                  <4>1. At(j)' = elements[r][2] + b /\ At(j + 1)' = l - k
                        BY <1>1, <1>3, <3>1
                  <4> QED
                      BY <1>1, <1>2, <3>1, <4>1
            <3>2. CASE j = r
                  <4>1. At(j)' = elements[r][2] /\ At(j + 1)' = elements[r][2] + b
                        BY <1>1, <1>3, <3>2
                  <4> QED
                      BY <1>1, <1>2, <3>2, <4>1
            <3>3. CASE j < r
                  <4>1. j \in 1..r /\ j + 1 \in 1..r
                        BY <3>3
                  <4>2. At(j)' = At(j) /\ At(j + 1)' = At(j + 1)
                        BY <1>3, <4>1
                  <4> QED
                      BY <1>1, <4>1, <4>2 DEF Stack
            <3> QED
                BY <1>1, <3>1, <3>2, <3>3
      <2> QED
          BY <1>3, <2>1, <2>2, <2>3 DEF Stack
<1> QED
    BY <1>5, <1>6

LEMMA DoubledTrees ==
    ASSUME StratInv, Doubled, NEW CONSTANT r, r = Len(elements), NEW CONSTANT b, b = strategy[idx],
           NEW CONSTANT n, n = Leaves(r)
    PROVE  Trees'
<1>0. pc = "walk" /\ k < l /\ LevelSum # Target
      BY DEF Doubled
<1>1. /\ r \in Nat \ {0} /\ l \in Nat /\ k \in Nat /\ elements[r][2] \in Nat
      /\ At(r) = elements[r][2] /\ Trees
      <2>1. Trees
            BY <1>0, UnderWay
      <2> QED
          BY <1>0, <2>1, Standing
<1>2. /\ n = l - k - elements[r][2] /\ n \in Nat /\ b \in 1..(n - 1)
      /\ Part(strategy, k + r, n - b) \in AllStrategies(n - b)
      /\ Part(strategy, k + r - 1 + n - b, b) \in AllStrategies(b)
      /\ strategy = OptimisedStrategy(l, Mul) =>
            /\ Part(strategy, k + r, n - b) = OptimisedStrategy(n - b, Mul)
            /\ Part(strategy, k + r - 1 + n - b, b) = OptimisedStrategy(b, Mul)
      BY <1>0, NodeMet
<1>3. /\ Len(elements') = r + 1
      /\ \A j \in 1..r : At(j)' = At(j)
      /\ At(r + 1)' = At(r) + b /\ At(r + 2)' = l - k
      BY DoubledStack
<1>4. l' = l /\ strategy' = strategy /\ Mul' = Mul
      BY DEF Doubled, Mul
<1> SUFFICES ASSUME NEW j \in 1..(r + 1)
             PROVE  /\ Walks(j)' \in AllStrategies(Leaves(j)')
                    /\ strategy = OptimisedStrategy(l, Mul) => Walks(j)' = OptimisedStrategy(Leaves(j)', Mul)
    BY <1>3, <1>4, ZenonT(40) DEF Trees
<1>5. CASE j = r + 1
      <2>1. Leaves(j)' = n - b
            <3>1. Leaves(j)' = At(r + 2)' - At(r + 1)'
                  BY <1>1, <1>5 DEF Leaves
            <3> DEFINE e == elements[r][2]
            <3>2. At(r + 2)' = l - k /\ At(r + 1)' = e + b /\ n = l - k - e
                  BY <1>1, <1>2, <1>3
            <3>3. l \in Nat /\ k \in Nat /\ b \in Int /\ e \in Nat
                  BY <1>1, <1>2
            <3> HIDE DEF e
            <3>4. (l - k) - (e + b) = n - b
                  BY ONLY <3>2, <3>3
            <3> QED
                BY <3>1, <3>2, <3>4
      <2>2. Walks(j)' = Part(strategy, k + r, n - b)
            <3>1. l' - 1 - At(j + 1)' + j = k + r
                  BY <1>1, <1>3, <1>4, <1>5
            <3> QED
                BY <1>4, <2>1, <3>1 DEF Walks
      <2> QED
          BY <1>2, <2>1, <2>2
<1>6. CASE j = r
      <2>1. Leaves(j)' = b
            BY <1>1, <1>2, <1>3, <1>6 DEF Leaves
      <2>2. Walks(j)' = Part(strategy, k + r - 1 + n - b, b)
            <3>1. l' - 1 - At(j + 1)' + j = k + r - 1 + n - b
                  <4>1. At(j + 1)' = elements[r][2] + b
                        BY <1>1, <1>3, <1>6
                  <4> DEFINE e == elements[r][2]
                             x == At(j + 1)'
                  <4>2. /\ l \in Nat /\ k \in Nat /\ r \in Nat /\ e \in Nat /\ b \in Int
                        /\ n = l - k - e /\ x = e + b /\ l' = l /\ j = r
                        BY <1>1, <1>2, <1>4, <1>6, <4>1
                  <4> HIDE DEF e, x
                  <4>3. l' - 1 - x + j = k + r - 1 + n - b
                        BY ONLY <4>2
                  <4> QED
                      BY <4>3 DEF x
            <3> QED
                BY <1>4, <2>1, <3>1 DEF Walks
      <2> QED
          BY <1>2, <2>1, <2>2
<1>7. CASE j < r
      <2>1. j \in 1..r /\ j + 1 \in 1..r
            BY <1>7
      <2>2. At(j)' = At(j) /\ At(j + 1)' = At(j + 1)
            BY <1>3, <2>1
      <2>3. Leaves(j)' = Leaves(j)
            BY <2>2 DEF Leaves
      <2>4. Walks(j)' = Walks(j)
            BY <1>4, <2>2, <2>3 DEF Walks
      <2> QED
          BY <1>1, <2>1, <2>3, <2>4 DEF Trees
<1> QED
    BY <1>1, <1>5, <1>6, <1>7

LEMMA DoubledPaid ==
    ASSUME StratInv, Doubled, NEW CONSTANT r, r = Len(elements), NEW CONSTANT b, b = strategy[idx],
           NEW CONSTANT n, n = Leaves(r)
    PROVE  Paid'
<1>0. pc = "walk" /\ k < l /\ LevelSum # Target
      BY DEF Doubled
<1>1. /\ r \in Nat \ {0} /\ l \in Nat /\ k \in Nat /\ elements[r][2] \in Nat
      /\ At(r) = elements[r][2] /\ At(r + 1) = l - k
      BY <1>0, Standing
<1>2. /\ n = l - k - elements[r][2] /\ n \in Nat \ {0, 1} /\ b \in 1..(n - 1)
      /\ strategy = OptimisedStrategy(l, Mul) =>
            OptimalCost(n, Mul) = OptimalCost(n - b, Mul) + OptimalCost(b, Mul) + b * Mul + (n - b) * EvalCost
      BY <1>0, NodeMet
<1>3. /\ Len(elements') = r + 1
      /\ \A j \in 1..r : At(j)' = At(j)
      /\ At(r + 1)' = At(r) + b /\ At(r + 2)' = l - k
      BY DoubledStack
<1>4. l' = l /\ k' = k /\ strategy' = strategy /\ Mul' = Mul /\ spent' = spent + b * Mul
      BY DEF Doubled, Mul
<1>5. Mul \in Nat /\ spent \in Nat
      <2>1. TypeOK
            BY <1>0, UnderWay
      <2> QED
          BY <2>1, MulIsNat DEF MulType, TypeOK
<1>6. PICK debt \in Debts : Covers(spent + debt[r])
      <2>1. Paid
            BY <1>0, UnderWay
      <2> QED
          BY <2>1 DEF Paid
<1>7. /\ debt \in [0..r -> Int] /\ debt[0] = 0
      /\ \A j \in 1..r : debt[j] = debt[j - 1] + OptimalCost(Leaves(j), Mul) + (l - k - At(j + 1)) * EvalCost
      BY <1>6 DEF Debts
<1> DEFINE cn == OptimalCost(n, Mul)
           cb == OptimalCost(b, Mul)
           cd == OptimalCost(n - b, Mul)
           pb == b * Mul
<1>8. /\ cn \in Nat /\ cb \in Nat /\ cd \in Nat /\ pb \in Nat /\ b \in Nat /\ n \in Nat /\ n - b \in Nat
      /\ cn <= cd + cb + pb + (n - b) * 5
      /\ strategy = OptimisedStrategy(l, Mul) => cn = cd + cb + pb + (n - b) * 5
      <2>1. b \in Nat /\ n \in Nat /\ n - b \in Nat
            BY <1>2
      <2>2. cn \in Nat /\ cb \in Nat /\ cd \in Nat
            BY <2>1, <1>5, CostType
      <2>3. cn <= cd + cb + pb + (n - b) * EvalCost
            <3>1. n \in Nat \ {0, 1} /\ b \in 1..(n - 1)
                  BY <1>2
            <3> QED
                BY <1>5, <3>1, CostLeast
      <2>4. strategy = OptimisedStrategy(l, Mul) => cn = cd + cb + pb + (n - b) * EvalCost
            BY <1>2
      <2>5. pb \in Nat
            BY <2>1, <1>5
      <2> HIDE DEF cn, cb, cd, pb
      <2> QED
          BY <2>1, <2>2, <2>3, <2>4, <2>5 DEF EvalCost
<1>9. debt[r] = debt[r - 1] + cn /\ debt[r - 1] \in Int /\ debt[r] \in Int
      <2>1. debt[r] = debt[r - 1] + cn + (l - k - At(r + 1)) * EvalCost
            <3>1. r \in 1..r
                  BY <1>1
            <3>2. debt[r] = debt[r - 1] + OptimalCost(Leaves(r), Mul) + (l - k - At(r + 1)) * EvalCost
                  BY <1>7, <3>1
            <3> QED
                BY <3>2
      <2>2. (l - k - At(r + 1)) * EvalCost = 0
            BY <1>1 DEF EvalCost
      <2>3. debt[r - 1] \in Int /\ debt[r] \in Int
            BY <1>1, <1>7
      <2> DEFINE x == debt[r]
                 y == debt[r - 1]
                 z == (l - k - At(r + 1)) * EvalCost
      <2>4. x = y + cn + z /\ z = 0 /\ x \in Int /\ y \in Int /\ cn \in Int
            BY <1>8, <2>1, <2>2, <2>3
      <2> HIDE DEF cn, x, y, z
      <2>5. x = y + cn
            BY ONLY <2>4
      <2> QED
          BY <2>3, <2>5 DEF x, y
<1> DEFINE first == debt[r - 1] + cb + (n - b) * 5
           next == [j \in 0..(r + 1) |-> IF j < r THEN debt[j] ELSE IF j = r THEN first ELSE first + cd]
<1>10. first \in Int /\ next \in [0..(r + 1) -> Int]
       <2>1. first \in Int
             <3> DEFINE y == debt[r - 1]
             <3>1. y \in Int /\ cb \in Nat /\ n - b \in Nat
                   BY <1>8, <1>9
             <3> HIDE DEF cb, y
             <3>2. y + cb + (n - b) * 5 \in Int
                   BY <3>1
             <3> QED
                 BY <3>2 DEF y
       <2>2. \A j \in 0..(r + 1) : j < r => debt[j] \in Int
             BY <1>1, <1>7
       <2>3. cd \in Nat
             BY <1>8
       <2> HIDE DEF first, cd
       <2>4. first + cd \in Int
             BY <2>1, <2>3
       <2>5. \A j \in 0..(r + 1) : (IF j < r THEN debt[j] ELSE IF j = r THEN first ELSE first + cd) \in Int
             BY ONLY <2>1, <2>2, <2>4
       <2>6. next \in [0..(r + 1) -> Int]
             BY ONLY <2>5, Zenon
       <2> QED
           BY <2>1, <2>6, Zenon
<1> HIDE DEF cn, cb, cd, pb
<1>11. ASSUME NEW j \in 1..(r + 1)
       PROVE  next[j] = next[j - 1] + OptimalCost(Leaves(j)', Mul) + (l - k - At(j + 1)') * EvalCost
       <2>1. CASE j = r + 1
             <3>1. Leaves(j)' = n - b /\ (l - k - At(j + 1)') * EvalCost = 0
                   <4>1. At(j + 1)' = l - k /\ At(j)' = elements[r][2] + b
                         BY <1>1, <1>3, <2>1
                   <4>2. Leaves(j)' = n - b
                         <5> DEFINE e == elements[r][2]
                         <5>1. /\ l \in Nat /\ k \in Nat /\ e \in Nat /\ b \in Nat
                               /\ n = l - k - e /\ At(j + 1)' = l - k /\ At(j)' = e + b
                               BY <1>1, <1>2, <1>8, <4>1
                         <5>2. Leaves(j)' = At(j + 1)' - At(j)'
                               BY DEF Leaves
                         <5> HIDE DEF e
                         <5> QED
                             BY ONLY <5>1, <5>2
                   <4> QED
                       BY <1>1, <4>1, <4>2 DEF EvalCost
             <3>2. next[j] = first + cd /\ next[j - 1] = first
                   <4>1. j \in 0..(r + 1) /\ j - 1 \in 0..(r + 1) /\ ~(j < r) /\ j # r /\ j - 1 = r /\ ~(r < r)
                         BY <1>1, <2>1
                   <4> QED
                       BY <4>1
             <3>3. OptimalCost(Leaves(j)', Mul) = cd
                   BY <3>1 DEF cd
             <3> HIDE DEF first, next
             <3> QED
                 BY <1>8, <1>10, <3>1, <3>2, <3>3
       <2>2. CASE j = r
             <3>1. Leaves(j)' = b /\ (l - k - At(j + 1)') * EvalCost = (n - b) * 5
                   <4>1. At(j + 1)' = elements[r][2] + b /\ At(j)' = elements[r][2]
                         BY <1>1, <1>3, <2>2
                   <4> DEFINE e == elements[r][2]
                   <4>2. /\ l \in Nat /\ k \in Nat /\ e \in Nat /\ b \in Nat
                         /\ n = l - k - e /\ At(j + 1)' = e + b /\ At(j)' = e
                         BY <1>1, <1>2, <1>8, <4>1
                   <4>3. Leaves(j)' = At(j + 1)' - At(j)'
                         BY DEF Leaves
                   <4> HIDE DEF e
                   <4>4. Leaves(j)' = b /\ l - k - At(j + 1)' = n - b
                         BY ONLY <4>2, <4>3
                   <4> QED
                       BY <4>4 DEF EvalCost
             <3>2. next[j] = first /\ next[j - 1] = debt[r - 1]
                   <4>1. j \in 0..(r + 1) /\ j - 1 \in 0..(r + 1) /\ ~(j < r) /\ j - 1 = r - 1 /\ r - 1 < r
                         BY <1>1, <2>2
                   <4> QED
                       BY <2>2, <4>1
             <3>3. OptimalCost(Leaves(j)', Mul) = cb
                   BY <3>1 DEF cb
             <3>4. first = debt[r - 1] + cb + (n - b) * 5
                   OBVIOUS
             <3> HIDE DEF first, next
             <3> QED
                 BY <1>8, <1>9, <3>1, <3>2, <3>3, <3>4
       <2>3. CASE j < r
             <3>1. j \in 1..r /\ j + 1 \in 1..r
                   BY <1>1, <2>3
             <3>2. At(j)' = At(j) /\ At(j + 1)' = At(j + 1)
                   BY <1>3, <3>1
             <3>3. Leaves(j)' = Leaves(j)
                   BY <3>2 DEF Leaves
             <3>4. next[j] = debt[j] /\ next[j - 1] = debt[j - 1]
                   <4>1. j \in 0..(r + 1) /\ j - 1 \in 0..(r + 1) /\ j - 1 < r
                         BY <1>1, <2>3
                   <4> QED
                       BY <2>3, <4>1
             <3> HIDE DEF first, next
             <3> QED
                 BY <1>7, <3>1, <3>2, <3>3, <3>4
       <2> QED
           BY <1>1, <2>1, <2>2, <2>3
<1>12. next[0] = 0
       <2>1. 0 \in 0..(r + 1) /\ 0 < r
             BY <1>1
       <2> QED
           BY <1>7, <2>1
<1>13. next[r + 1] = first + cd
       <2>1. r + 1 \in 0..(r + 1) /\ ~(r + 1 < r) /\ r + 1 # r
             BY <1>1
       <2> QED
           BY <2>1
<1>14. next \in Debts'
       <2> HIDE DEF first, next
       <2> QED
           BY <1>3, <1>4, <1>10, <1>11, <1>12 DEF Debts
<1> DEFINE sum == spent' + next[r + 1]
<1>15. Covers(sum)
       <2>1. spent' = spent + pb
             BY <1>4 DEF pb
       <2>2. first = debt[r - 1] + cb + (n - b) * 5
             OBVIOUS
       <2> DEFINE last == next[r + 1]
                  x == spent'
                  y == spent
                  before == debt[r - 1]
       <2>3. last = first + cd
             BY <1>13
       <2>4. /\ cn <= cd + cb + pb + (n - b) * 5 => sum >= y + (before + cn)
             /\ cn = cd + cb + pb + (n - b) * 5 => sum = y + (before + cn)
             /\ sum \in Int
             <3>1. before \in Int /\ y \in Int /\ x = y + pb /\ first = before + cb + (n - b) * 5 /\ sum = x + last
                   BY <1>5, <1>9, <2>1, <2>2
             <3> HIDE DEF first, next, last, x, y, before, sum
             <3> QED
                 BY ONLY <1>8, <2>3, <3>1
       <2>5. y + (before + cn) = spent + debt[r]
             BY <1>9
       <2>6. sum >= spent + debt[r] /\ (strategy = OptimisedStrategy(l, Mul) => sum = spent + debt[r]) /\ sum \in Int
             <3> HIDE DEF first, next, last, x, y, before, sum
             <3> QED
                 BY <1>8, <2>4, <2>5
       <2> DEFINE full == OptimalCost(l, Mul)
                  old == spent + debt[r]
       <2>7. full \in Int /\ old \in Int
             <3>1. full \in Nat
                   BY <1>1, <1>5, CostType
             <3>2. old \in Int
                   <4> HIDE DEF y, full
                   <4> QED
                       BY <1>5, <1>9
             <3> QED
                 BY <3>1, <3>2
       <2>8. old >= full /\ (strategy = OptimisedStrategy(l, Mul) => old = full)
             BY <1>6, Zenon DEF Covers
       <2> HIDE DEF sum, full, old
       <2>9. sum >= full /\ (strategy = OptimisedStrategy(l, Mul) => sum = full)
             <3>1. sum >= old /\ (strategy = OptimisedStrategy(l, Mul) => sum = old) /\ sum \in Int
                   BY <2>6 DEF old
             <3> QED
                 BY <2>7, <2>8, <3>1
       <2> QED
           BY <2>9 DEF Covers, full
<1> HIDE DEF first, next
<1>16. PICK f \in Debts' : f = next
       BY <1>14
<1>17. Covers(spent' + f[r + 1])
       BY <1>15, <1>16
<1>18. Covers(spent + f[r + 1])'
       BY <1>4, <1>17 DEF Covers
<1>19. Covers(spent + f[Len(elements)])'
       BY <1>3, <1>18
<1> QED
    BY <1>16, <1>19 DEF Paid

\* A chain that gives up keeps what it has.
LEMMA GaveUp ==
    ASSUME StratInv, pc = "walk", pc' = "returned", result' = "none",
           UNCHANGED <<driver, l, strategy, idx, k, level, elements, cur, ready, kern, nulls, spent, back>>
    PROVE  StratInv'
<1>1. TypeOK'
      <2>1. TypeOK
            BY WalkingParts
      <2> QED
          BY <2>1 DEF TypeOK
<1>2. back = <<0, -1>>
      <2>1. result = ""
            BY WalkingParts
      <2> QED
          BY <2>1 DEF StratInv
<1>3. cur = k /\ Len(nulls) = k + 1 /\ \A j \in 1..(k + 1) : nulls[j] = j - 1
      BY DEF StratInv
<1> QED
    BY <1>1, <1>2, <1>3 DEF StratInv

LEMMA DescendKeeps ==
    ASSUME StratInv, Descend
    PROVE  StratInv'
<1>0. pc = "walk" /\ k < l /\ LevelSum # Target
      BY DEF Descend
<1>1. CASE ~ready
      BY <1>0, <1>1, GaveUp DEF Descend, Return
<1>2. CASE ready
      <2>1. idx <= Len(strategy) /\ elements # <<>> /\ idx \in Int /\ Len(strategy) \in Int
            <3>1. idx <= Len(strategy) /\ elements # <<>>
                  BY <1>0, NodeMet, Standing
            <3>2. idx = k + Len(elements) /\ Len(strategy) = l - 1 /\ k \in Int /\ l \in Int /\ Len(elements) \in Int
                  BY <1>0, Standing
            <3> QED
                BY <3>1, <3>2
      <2>2. ~(idx > Len(strategy) \/ elements = <<>>)
            BY <2>1
      <2>3. Doubled
            BY <1>0, <1>2, <2>2 DEF Descend, Doubled
      <2>4. PICK r : r = Len(elements)
            OBVIOUS
      <2>5. PICK b : b = strategy[idx]
            OBVIOUS
      <2>6. PICK n : n = Leaves(r)
            OBVIOUS
      <2>7. Saved' /\ Stack' /\ Trees' /\ Paid'
            BY <2>3, <2>4, <2>5, <2>6, DoubledSaved, DoubledTrees, DoubledPaid
      <2>8. UNCHANGED <<driver, l, strategy, k, cur, ready, kern, nulls, back, pc, result>>
            BY <2>3 DEF Doubled
      <2>9. Walking'
            <3>1. result = "" /\ l # 0
                  <4>1. l \in Nat /\ l > 0
                        BY <1>0, Standing
                  <4>2. result = ""
                        BY <1>0, WalkingParts
                  <4>3. l # 0
                        BY ONLY <4>1
                  <4> QED
                      BY <4>2, <4>3
            <3> QED
                BY <2>7, <2>8, <3>1, Zenon DEF Walking
      <2>10. TypeOK'
             <3>1. TypeOK
                   BY <1>0, UnderWay
             <3>2. elements' \in Seq(Nat \X Nat) /\ level' \in Seq(Nat)
                   BY <2>3, <2>4, <2>5, DoubledStack
             <3>3. idx' = idx + 1 /\ spent' = spent + b * Mul
                   BY <2>3, <2>5 DEF Doubled, Mul
             <3>4. b \in Nat
                   <4>1. strategy[idx] \in 1..(Leaves(Len(elements)) - 1)
                         BY <1>0, NodeMet
                   <4> QED
                       BY <2>5, <4>1
             <3>5. spent' \in Nat
                   <4> DEFINE m == Mul
                              y == spent
                              x == spent'
                   <4>1. y \in Nat /\ m \in Nat /\ x = y + b * m
                         BY <3>1, <3>3, MulIsNat DEF TypeOK, MulType
                   <4> HIDE DEF m, x, y
                   <4>2. b * m \in Nat
                         BY ONLY <3>4, <4>1
                   <4>3. x \in Nat
                         <5> DEFINE z == b * m
                         <5>1. z \in Nat /\ x = y + z
                               BY <4>1, <4>2
                         <5> HIDE DEF z
                         <5> QED
                             BY ONLY <4>1, <5>1
                   <4> QED
                       BY <4>3 DEF x
             <3>6. idx' \in 1..(Len(strategy') + 1)
                   <4> DEFINE m == Len(strategy)
                              x == idx
                              y == idx'
                   <4>1. x \in 1..(m + 1)
                         BY <3>1 DEF TypeOK
                   <4>2. y = x + 1 /\ x <= m /\ m \in Int
                         BY <2>1, <3>3
                   <4>3. Len(strategy') = m
                         BY <2>8
                   <4> HIDE DEF m, x, y
                   <4>4. y \in 1..(m + 1)
                         BY ONLY <4>1, <4>2
                   <4> QED
                       BY <4>3, <4>4 DEF y
             <3> QED
                 BY <2>8, <3>1, <3>2, <3>5, <3>6 DEF TypeOK
      <2>11. result = ""
             BY <1>0, WalkingParts
      <2> QED
          BY <1>0, <2>8, <2>9, <2>10, <2>11 DEF StratInv, DualInStep
<1> QED
    BY <1>1, <1>2

---------------------------------------------------------------------------
(* An isogeny: the top of the stack is used, the rest is pushed.           *)

Advanced ==
    /\ pc = "walk" /\ k < l /\ LevelSum = Target
    /\ kern' = Last(elements)
    /\ level' = Front(level)
    /\ elements' = Pushed(elements)
    /\ spent' = spent + (Len(elements) - 1) * EvalCost
    /\ cur' = cur + 1
    /\ ready' \in BOOLEAN
    /\ nulls' = Append(nulls, cur + 1)
    /\ k' = k + 1
    /\ UNCHANGED <<driver, l, strategy, idx, back, pc, result>>

LEMMA FrontOf ==
    ASSUME NEW S, NEW s \in Seq(S), s # <<>>
    PROVE  /\ Front(s) \in Seq(S) /\ Len(Front(s)) = Len(s) - 1
           /\ \A j \in 1..(Len(s) - 1) : Front(s)[j] = s[j]
<1>1. Len(s) \in Nat \ {0}
      BY EmptySeq
<1>2. \A j \in 1..Len(s) : s[j] \in S
      BY ElementOfSeq
<1>3. Front(s) = [j \in 1..(Len(s) - 1) |-> s[j]]
      BY <1>1 DEF Front
<1> QED
    BY <1>1, <1>2, <1>3

\* The stack without its top.
LEMMA AdvancedStack ==
    ASSUME StratInv, Advanced, NEW CONSTANT r, r = Len(elements)
    PROVE  /\ elements' \in Seq(Nat \X Nat) /\ Len(elements') = r - 1
           /\ \A j \in 1..(r - 1) : elements'[j] = <<k + 1, elements[j][2]>>
           /\ level' \in Seq(Nat) /\ Len(level') = r - 1
           /\ \A j \in 1..(r - 1) : level'[j] = level[j]
           /\ \A j \in 1..r : At(j)' = At(j)
           /\ At(r) = l - 1 - k
<1>0. pc = "walk" /\ k < l /\ LevelSum = Target
      BY DEF Advanced
<1>1. /\ r \in Nat \ {0} /\ elements # <<>> /\ k \in Nat /\ l \in Nat
      /\ \A j \in 1..r : elements[j] = <<k, elements[j][2]>> /\ elements[j][2] \in Nat
      /\ At(r) = elements[r][2] /\ LevelSum = elements[r][2]
      BY <1>0, Standing
<1>2. elements \in Seq(Nat \X Nat) /\ level \in Seq(Nat) /\ Len(level) = r
      BY <1>0, WalkingParts DEF TypeOK, Saved
<1>3. level # <<>>
      BY <1>1, <1>2
<1>4. level' \in Seq(Nat) /\ Len(level') = r - 1 /\ \A j \in 1..(r - 1) : level'[j] = level[j]
      BY <1>2, <1>3, FrontOf DEF Advanced
<1>5. elements' = [j \in 1..(r - 1) |-> <<k + 1, elements[j][2]>>]
      <2>1. elements' = [j \in 1..(r - 1) |-> <<elements[j][1] + 1, elements[j][2]>>]
            BY DEF Advanced, Pushed
      <2>2. \A j \in 1..(r - 1) : elements[j][1] = k
            BY <1>1
      <2> QED
          BY <2>1, <2>2
<1>6. elements' \in Seq(Nat \X Nat) /\ Len(elements') = r - 1
      <2>1. \A j \in 1..(r - 1) : <<k + 1, elements[j][2]>> \in Nat \X Nat
            BY <1>1
      <2>2. r - 1 \in Nat
            BY <1>1
      <2> QED
          BY <1>5, <2>1, <2>2
<1>7. At(r) = l - 1 - k
      BY <1>0, <1>1 DEF Target
<1>8. ASSUME NEW j \in 1..r PROVE At(j)' = At(j)
      <2>1. CASE j = r
            <3>1. ~(j <= Len(elements')) /\ l' = l /\ k' = k + 1
                  BY <1>1, <1>6, <2>1 DEF Advanced
            <3>2. At(j)' = l - (k + 1)
                  BY <3>1 DEF At
            <3> QED
                BY <1>1, <1>7, <2>1, <3>2
      <2>2. CASE j # r
            <3>1. j \in 1..(r - 1) /\ j <= Len(elements') /\ j <= Len(elements)
                  BY <1>1, <1>6, <2>2
            <3>2. At(j)' = elements'[j][2] /\ At(j) = elements[j][2]
                  BY <3>1 DEF At
            <3> QED
                BY <1>5, <3>1, <3>2
      <2> QED
          BY <2>1, <2>2
<1> QED
    BY <1>4, <1>5, <1>6, <1>7, <1>8

LEMMA AdvancedSaved ==
    ASSUME StratInv, Advanced, NEW CONSTANT r, r = Len(elements)
    PROVE  Saved' /\ Stack'
<1>0. pc = "walk" /\ k < l /\ LevelSum = Target
      BY DEF Advanced
<1>1. Saved /\ Stack /\ r \in Nat \ {0} /\ l \in Nat /\ k \in Nat /\ cur = k
      <2>1. Saved /\ Stack
            BY <1>0, UnderWay
      <2> QED
          BY <1>0, <2>1, Standing
<1>2. /\ Len(elements') = r - 1
      /\ \A j \in 1..(r - 1) : elements'[j] = <<k + 1, elements[j][2]>>
      /\ Len(level') = r - 1
      /\ \A j \in 1..(r - 1) : level'[j] = level[j]
      /\ \A j \in 1..r : At(j)' = At(j)
      /\ At(r) = l - 1 - k
      BY AdvancedStack
<1>3. cur' = k + 1 /\ l' = l /\ k' = k + 1 /\ idx' = idx /\ strategy' = strategy
      BY <1>1 DEF Advanced
<1>4. Saved'
      <2> SUFFICES ASSUME NEW j \in 1..(r - 1)
                   PROVE  /\ elements'[j][1] = k + 1
                          /\ level'[j] = elements'[j][2] - (IF j = 1 THEN 0 ELSE elements'[j - 1][2])
          BY <1>2, <1>3 DEF Saved
      <2>1. elements'[j][1] = k + 1 /\ elements'[j][2] = elements[j][2] /\ level'[j] = level[j]
            BY <1>2
      <2>2. j # 1 => elements'[j - 1][2] = elements[j - 1][2]
            <3>1. j # 1 => j - 1 \in 1..(r - 1)
                  BY <1>1
            <3> QED
                BY <1>2, <3>1
      <2>3. level[j] = elements[j][2] - (IF j = 1 THEN 0 ELSE elements[j - 1][2])
            <3>1. j \in 1..Len(elements)
                  BY <1>1
            <3> QED
                BY <1>1, <3>1 DEF Saved
      <2> QED
          BY <2>1, <2>2, <2>3
<1>5. Stack'
      <2>1. Len(strategy') = l' - 1 /\ idx' = k' + Len(elements')
            <3>1. Len(strategy) = l - 1 /\ idx = k + r
                  BY <1>1 DEF Stack
            <3> QED
                BY <1>1, <1>2, <1>3, <3>1
      <2>2. r = 1 => k + 1 = l
            <3>1. r = 1 => At(r) = 0
                  BY <1>0, <1>1 DEF Stack, At
            <3> QED
                BY <1>1, <1>2, <3>1
      <2>3. k' < l' => elements' # <<>>
            <3>1. k + 1 < l => r - 1 # 0
                  BY <1>1, <2>2
            <3> QED
                BY <1>2, <1>3, <3>1
      <2>4. elements' # <<>> => elements'[1][2] = 0
            <3>1. CASE r = 1
                  <4>1. elements' = <<>>
                        <5>1. elements' \in Seq(Nat \X Nat)
                              BY AdvancedStack
                        <5> QED
                            BY <1>2, <3>1, <5>1, EmptySeq
                  <4> QED
                      BY <4>1
            <3>2. CASE r # 1
                  <4>1. 1 \in 1..(r - 1) /\ elements # <<>>
                        BY <1>1, <3>2
                  <4> QED
                      BY <1>1, <1>2, <4>1 DEF Stack
            <3> QED
                BY <3>1, <3>2
      <2>5. ASSUME NEW j \in 1..(r - 1)
            PROVE  At(j)' >= j - 1 /\ At(j)' < At(j + 1)'
            <3>1. j \in 1..r /\ j + 1 \in 1..r
                  BY <1>1
            <3>2. At(j)' = At(j) /\ At(j + 1)' = At(j + 1)
                  BY <1>2, <3>1
            <3>3. At(j) >= j - 1 /\ At(j) < At(j + 1)
                  BY <1>1, <3>1 DEF Stack
            <3> QED
                BY <3>2, <3>3
      <2> QED
          BY <1>2, <2>1, <2>3, <2>4, <2>5 DEF Stack
<1> QED
    BY <1>4, <1>5

LEMMA AdvancedTrees ==
    ASSUME StratInv, Advanced, NEW CONSTANT r, r = Len(elements)
    PROVE  Trees'
<1>0. pc = "walk" /\ k < l /\ LevelSum = Target
      BY DEF Advanced
<1>1. Trees /\ r \in Nat \ {0}
      <2>1. Trees
            BY <1>0, UnderWay
      <2> QED
          BY <1>0, <2>1, Standing
<1>2. Len(elements') = r - 1 /\ \A j \in 1..r : At(j)' = At(j)
      BY AdvancedStack
<1>3. l' = l /\ strategy' = strategy /\ Mul' = Mul
      BY DEF Advanced, Mul
<1> SUFFICES ASSUME NEW j \in 1..(r - 1)
             PROVE  /\ Walks(j)' \in AllStrategies(Leaves(j)')
                    /\ strategy = OptimisedStrategy(l, Mul) => Walks(j)' = OptimisedStrategy(Leaves(j)', Mul)
    BY <1>2, <1>3 DEF Trees
<1>4. j \in 1..r /\ j + 1 \in 1..r
      BY <1>1
<1>5. At(j)' = At(j) /\ At(j + 1)' = At(j + 1)
      BY <1>2, <1>4
<1>6. Leaves(j)' = Leaves(j)
      BY <1>5 DEF Leaves
<1>7. Walks(j)' = Walks(j)
      BY <1>3, <1>5, <1>6 DEF Walks
<1> QED
    BY <1>1, <1>4, <1>6, <1>7 DEF Trees

LEMMA AdvancedPaid ==
    ASSUME StratInv, Advanced, NEW CONSTANT r, r = Len(elements)
    PROVE  Paid'
<1>0. pc = "walk" /\ k < l /\ LevelSum = Target
      BY DEF Advanced
<1>1. r \in Nat \ {0} /\ l \in Nat /\ k \in Nat /\ At(r + 1) = l - k
      BY <1>0, Standing
<1>2. Len(elements') = r - 1 /\ (\A j \in 1..r : At(j)' = At(j)) /\ At(r) = l - 1 - k
      BY AdvancedStack
<1>3. l' = l /\ k' = k + 1 /\ strategy' = strategy /\ Mul' = Mul /\ spent' = spent + (r - 1) * EvalCost
      BY DEF Advanced, Mul
<1>4. Mul \in Nat /\ spent \in Nat
      <2>1. TypeOK
            BY <1>0, UnderWay
      <2> QED
          BY <2>1, MulIsNat DEF MulType, TypeOK
<1>5. PICK debt \in Debts : Covers(spent + debt[r])
      <2>1. Paid
            BY <1>0, UnderWay
      <2> QED
          BY <2>1 DEF Paid
<1>6. /\ debt \in [0..r -> Int] /\ debt[0] = 0
      /\ \A j \in 1..r : debt[j] = debt[j - 1] + OptimalCost(Leaves(j), Mul) + (l - k - At(j + 1)) * EvalCost
      BY <1>5 DEF Debts
<1>7. debt[r] = debt[r - 1]
      <2>1. Leaves(r) = 1
            BY <1>1, <1>2 DEF Leaves
      <2>2. OptimalCost(Leaves(r), Mul) = 0
            BY <2>1 DEF OptimalCost
      <2>3. (l - k - At(r + 1)) * EvalCost = 0
            BY <1>1 DEF EvalCost
      <2>4. r \in 1..r /\ debt[r - 1] \in Int
            BY <1>1, <1>6
      <2>5. debt[r] = debt[r - 1] + OptimalCost(Leaves(r), Mul) + (l - k - At(r + 1)) * EvalCost
            BY <1>6, <2>4
      <2> DEFINE u == debt[r]
                 v == debt[r - 1]
                 w == OptimalCost(Leaves(r), Mul)
                 x == (l - k - At(r + 1)) * EvalCost
      <2>6. w = 0 /\ x = 0 /\ v \in Int /\ u = v + w + x
            BY <2>2, <2>3, <2>4, <2>5
      <2>7. u = v
            <3> HIDE DEF u, v, w, x
            <3> QED
                BY <2>6
      <2> QED
          BY <2>4, <2>7
<1>8. PICK f \in [0..(r - 1) -> Int] : \A j \in 0..(r - 1) : f[j] = debt[j] - j * 5
      <2> DEFINE next == [j \in 0..(r - 1) |-> debt[j] - j * 5]
      <2>1. \A j \in 0..(r - 1) : debt[j] - j * 5 \in Int
            <3> TAKE j \in 0..(r - 1)
            <3> DEFINE x == debt[j]
            <3>1. x \in Int /\ j \in Int
                  BY <1>1, <1>6
            <3> HIDE DEF x
            <3>2. x - j * 5 \in Int
                  BY <3>1
            <3> QED
                BY <3>2 DEF x
      <2>2. next \in [0..(r - 1) -> Int]
            BY <2>1
      <2> QED
          BY <2>2
<1>9. ASSUME NEW j \in 1..(r - 1)
      PROVE  f[j] = f[j - 1] + OptimalCost(Leaves(j)', Mul) + (l - (k + 1) - At(j + 1)') * EvalCost
      <2>1. j \in 1..r /\ j + 1 \in 1..r /\ j \in 0..(r - 1) /\ j - 1 \in 0..(r - 1) /\ j \in 0..r /\ j - 1 \in 0..r
            BY <1>1
      <2>2. At(j)' = At(j) /\ At(j + 1)' = At(j + 1)
            BY <1>2, <2>1
      <2>3. Leaves(j)' = Leaves(j)
            BY <2>2 DEF Leaves
      <2> DEFINE c == OptimalCost(Leaves(j), Mul)
                 a == At(j + 1)
                 x == debt[j]
                 y == debt[j - 1]
      <2>4. x = y + c + (l - k - a) * 5
            BY <1>6, <2>1 DEF EvalCost
      <2>5. f[j] = x - j * 5 /\ f[j - 1] = y - (j - 1) * 5
            BY <1>8, <2>1
      <2>6. x \in Int /\ y \in Int
            BY <1>6, <2>1
      <2>7. a \in Int /\ c \in Int
            <3>1. a \in Int /\ Leaves(j) \in Nat
                  <4>1. elements \in Seq(Nat \X Nat) /\ Stack
                        BY <1>0, UnderWay DEF TypeOK
                  <4>2. elements[j + 1] \in Nat \X Nat /\ elements[j] \in Nat \X Nat
                        BY <2>1, <4>1, ElementOfSeq
                  <4>3. At(j + 1) = elements[j + 1][2] /\ At(j) = elements[j][2]
                        BY <2>1 DEF At
                  <4>4. At(j) < At(j + 1)
                        BY <2>1, <4>1 DEF Stack
                  <4> QED
                      BY <4>2, <4>3, <4>4 DEF Leaves
            <3> QED
                BY <1>4, <3>1, CostType
      <2>8. OptimalCost(Leaves(j)', Mul) = c /\ At(j + 1)' = a
            BY <2>2, <2>3
      <2> HIDE DEF c, a, x, y
      <2>9. f[j] = f[j - 1] + c + (l - (k + 1) - a) * 5
            BY ONLY <1>1, <2>1, <2>4, <2>5, <2>6, <2>7
      <2> QED
          BY <2>8, <2>9 DEF EvalCost
<1>10. f[0] = 0 /\ f[r - 1] = debt[r - 1] - (r - 1) * 5
       <2>1. 0 \in 0..(r - 1) /\ r - 1 \in 0..(r - 1)
             BY <1>1
       <2> QED
           BY <1>6, <1>8, <2>1
<1>11. f \in Debts'
       BY <1>2, <1>3, <1>8, <1>9, <1>10 DEF Debts
<1>12. spent' + f[r - 1] = spent + debt[r]
       <2> DEFINE x == debt[r - 1]
                  y == spent
                  z == spent'
       <2>1. x \in Int
             BY <1>1, <1>6
       <2>2. y \in Nat /\ z = y + (r - 1) * 5 /\ f[r - 1] = x - (r - 1) * 5
             BY <1>3, <1>4, <1>10 DEF EvalCost
       <2> HIDE DEF x, y, z
       <2>3. z + f[r - 1] = y + x
             BY ONLY <1>1, <2>1, <2>2
       <2> QED
           BY <1>7, <2>3 DEF x, y, z
<1>13. Covers(spent + f[Len(elements)])'
       <2>1. Covers(spent' + f[r - 1])
             BY <1>5, <1>12
       <2>2. Covers(spent + f[r - 1])'
             BY <1>3, <2>1 DEF Covers
       <2> QED
           BY <1>2, <2>2
<1> QED
    BY <1>11, <1>13 DEF Paid

LEMMA StepKeeps ==
    ASSUME StratInv, Step
    PROVE  StratInv'
<1>0. pc = "walk" /\ k < l /\ LevelSum = Target
      BY DEF Step
<1>1. elements # <<>>
      BY <1>0, Standing
<1>2. Advanced
      <2>1. ready' \in BOOLEAN
            BY <1>1 DEF Step
      <2> QED
          BY <1>0, <1>1, <2>1 DEF Step, Advanced
<1>3. PICK r : r = Len(elements)
      OBVIOUS
<1>4. /\ r \in Nat \ {0} /\ l \in Nat /\ k \in Nat /\ cur = k
      /\ Last(elements) = elements[r]
      /\ elements[r] = <<k, elements[r][2]>> /\ elements[r][2] \in Nat
      BY <1>0, <1>3, Standing
<1>5. Saved' /\ Stack' /\ Trees' /\ Paid'
      BY <1>2, <1>3, AdvancedSaved, AdvancedTrees, AdvancedPaid
<1>6. UNCHANGED <<driver, l, strategy, idx, back, pc, result>> /\ k' = k + 1 /\ cur' = k + 1
      BY <1>2, <1>4 DEF Advanced
<1>7. result = ""
      BY <1>0, WalkingParts
<1>8. Walking'
      <2>1. l # 0
            BY <1>0, <1>4
      <2> QED
          BY <1>5, <1>6, <1>7, <2>1, Zenon DEF Walking
<1>9. Len(nulls') = k + 2 /\ nulls' \in Seq(Nat) /\ \A j \in 1..(k + 2) : nulls'[j] = j - 1
      <2>1. nulls \in Seq(Nat)
            BY <1>0, UnderWay DEF TypeOK
      <2>2. Len(nulls) = k + 1 /\ \A j \in 1..(k + 1) : nulls[j] = j - 1
            <3>1. pc # "idle"
                  BY <1>0
            <3> QED
                BY <3>1 DEF StratInv
      <2>3. nulls' = Append(nulls, k + 1)
            BY <1>2, <1>4 DEF Advanced
      <2>4. /\ nulls' \in Seq(Nat) /\ Len(nulls') = k + 2
            /\ \A j \in 1..(k + 1) : nulls'[j] = nulls[j]
            /\ nulls'[k + 2] = k + 1
            BY <1>4, <2>1, <2>2, <2>3, AppendProperties
      <2>5. ASSUME NEW j \in 1..(k + 2)
            PROVE  nulls'[j] = j - 1
            <3>1. CASE j = k + 2
                  BY <1>4, <2>4, <3>1
            <3>2. CASE j # k + 2
                  <4>1. j \in 1..(k + 1)
                        BY <1>4, <3>2
                  <4> QED
                      BY <2>2, <2>4, <4>1
            <3> QED
                BY <3>1, <3>2
      <2> QED
          BY <2>4, <2>5
<1>10. TypeOK'
       <2>1. TypeOK
             BY <1>0, UnderWay
       <2>2. elements' \in Seq(Nat \X Nat) /\ level' \in Seq(Nat)
             BY <1>2, <1>3, AdvancedStack
       <2>3. kern' \in Nat \X Nat
             <3>1. kern' = <<k, elements[r][2]>>
                   BY <1>2, <1>4 DEF Advanced
             <3> QED
                 BY <1>4, <3>1
       <2>4. spent' \in Nat
             <3> DEFINE y == spent
                        x == spent'
             <3>1. y \in Nat /\ x = y + (r - 1) * 5
                   BY <1>2, <1>3, <2>1 DEF TypeOK, Advanced, EvalCost
             <3> HIDE DEF x, y
             <3>2. x \in Nat
                   BY ONLY <1>4, <3>1
             <3> QED
                 BY <3>2 DEF x
       <2>5. k' \in 0..l' /\ cur' \in Nat
             BY <1>0, <1>4, <1>6
       <2>6. ready' \in BOOLEAN
             BY <1>2 DEF Advanced
       <2> QED
           BY <1>6, <1>9, <2>1, <2>2, <2>3, <2>4, <2>5, <2>6 DEF TypeOK
<1>11. back = <<0, -1>>
       BY <1>7 DEF StratInv
<1>12. cur' = k' /\ Len(nulls') = k' + 1 /\ \A j \in 1..(k' + 1) : nulls'[j] = j - 1
       BY <1>4, <1>6, <1>9
<1>13. pc' = "walk" /\ result' = "" /\ back' = <<0, -1>>
       BY <1>0, <1>6, <1>7, <1>11
<1>14. ~(back'[2] >= 0)
       <2>1. back'[2] = -1
             BY <1>13
       <2> QED
           BY <2>1
<1> QED
    BY <1>8, <1>10, <1>12, <1>13, <1>14 DEF StratInv

---------------------------------------------------------------------------
(* The beginning and the end of a chain.                                   *)

\* When the steps are taken the stack is empty and the bill is paid.
LEMMA FinishKeeps ==
    ASSUME StratInv, Finish
    PROVE  StratInv'
<1>0. pc = "walk" /\ k = l
      BY DEF Finish
<1>1. UNCHANGED <<driver, l, strategy, idx, k, level, elements, cur, ready, kern, nulls, spent, back>>
      BY DEF Finish
<1>2. CASE driver = "dim2" /\ l = 0
      <2>1. pc' = "returned" /\ result' = "none"
            BY <1>2 DEF Finish, Return
      <2> QED
          BY <1>0, <1>1, <2>1, GaveUp
<1>3. CASE ~(driver = "dim2" /\ l = 0)
      <2>1. pc' = "returned" /\ result' = "some"
            BY <1>3 DEF Finish, Return
      <2>2. TypeOK /\ Saved /\ result = "" /\ (l = 0 => spent = 0) /\ (l > 0 => Stack /\ Trees /\ Paid)
            BY <1>0, WalkingParts
      <2>3. l \in Nat
            <3>1. l \in 0..MaxLength
                  BY <2>2 DEF TypeOK
            <3> QED
                BY <3>1
      <2>4. l > 0 => idx = Len(strategy) + 1 /\ elements = <<>>
            <3> SUFFICES ASSUME l > 0 PROVE idx = Len(strategy) + 1 /\ elements = <<>>
                OBVIOUS
            <3>1. Stack
                  BY <2>2
            <3>2. elements \in Seq(Nat \X Nat)
                  BY <2>2 DEF TypeOK
            <3> DEFINE r == Len(elements)
            <3>3. r \in Nat
                  BY <3>2
            <3>4. r = 0
                  <4> SUFFICES ASSUME r # 0 PROVE FALSE
                      BY <3>3
                  <4>1. r \in 1..Len(elements) /\ r \in 1..r
                        BY <3>3
                  <4>2. At(r) >= r - 1 /\ At(r) < At(r + 1)
                        BY <3>1, <4>1 DEF Stack
                  <4>3. At(r + 1) = 0
                        BY <1>0, <2>3, <3>3 DEF At
                  <4>4. At(r) \in Nat
                        <5>1. elements[r] \in Nat \X Nat
                              BY <3>2, <4>1, ElementOfSeq
                        <5>2. At(r) = elements[r][2]
                              BY <3>3 DEF At
                        <5> QED
                            BY <5>1, <5>2
                  <4> QED
                      BY <4>2, <4>3, <4>4
            <3>5. elements = <<>>
                  BY <3>2, <3>4, EmptySeq
            <3>6. idx = k + r /\ Len(strategy) = l - 1
                  BY <3>1 DEF Stack
            <3> QED
                BY <1>0, <2>3, <3>4, <3>5, <3>6
      <2>5. Covers(spent)
            <3>1. CASE l = 0
                  <4>1. spent = 0
                        BY <2>2, <3>1
                  <4>2. OptimalCost(l, Mul) = 0
                        BY <3>1 DEF OptimalCost
                  <4> QED
                      BY <4>1, <4>2 DEF Covers
            <3>2. CASE l # 0
                  <4>0. l > 0
                        BY ONLY <2>3, <3>2
                  <4>1. elements = <<>> /\ Paid
                        BY <2>2, <2>4, <4>0, Zenon
                  <4>2. PICK debt \in Debts : Covers(spent + debt[Len(elements)])
                        BY <4>1 DEF Paid
                  <4>3. Len(elements) = 0 /\ debt[0] = 0
                        BY <4>1, <4>2 DEF Debts
                  <4>4. spent + debt[Len(elements)] = spent
                        <5>1. spent \in Nat
                              BY <2>2 DEF TypeOK
                        <5> QED
                            BY <4>3, <5>1
                  <4> QED
                      BY <4>2, <4>4
            <3> QED
                BY <3>1, <3>2
      <2>6. Delivered'
            <3>1. driver = "dim2" => l > 0
                  BY <1>3, <2>3
            <3>2. Covers(spent)'
                  BY <1>1, <2>5 DEF Covers, Mul
            <3>3. (l > 0 => idx = Len(strategy) + 1 /\ elements = <<>>)'
                  BY <1>1, <2>4
            <3>4. (driver = "dim2" => l > 0)'
                  BY <1>1, <3>1
            <3>5. k' = l'
                  BY <1>0, <1>1
            <3> QED
                BY <2>1, <3>2, <3>3, <3>4, <3>5, Zenon DEF Delivered
      <2>7. TypeOK'
            BY <1>1, <2>1, <2>2 DEF TypeOK
      <2>8. back = <<0, -1>>
            BY <2>2 DEF StratInv
      <2>9. cur = k /\ Len(nulls) = k + 1 /\ \A j \in 1..(k + 1) : nulls[j] = j - 1
            BY <1>0 DEF StratInv
      <2> QED
          BY <1>1, <2>1, <2>6, <2>7, <2>8, <2>9 DEF StratInv
<1> QED
    BY <1>2, <1>3

\* Whatever strategy a chain starts with, it is one of as many leaves as the
\* chain has steps.
LEMMA StartStrategy ==
    ASSUME NEW d \in Drivers, NEW n \in 0..MaxLength, Start(d, n)
    PROVE  /\ strategy' \in Seq(Nat \ {0})
           /\ n > 0 => strategy' \in AllStrategies(n) /\ Len(strategy') = n - 1
<1>0. n \in Nat
      BY LengthAssumption
<1>1. strategy' = OptimisedStrategy(n, DoubleCost(d)) \/ strategy' \in AllStrategies(n)
      BY DEF Start
<1>2. DoubleCost(d) \in Nat
      BY DEF DoubleCost
<1>3. CASE n = 0
      <2>1. strategy' = <<>>
            BY <1>1, <1>3 DEF OptimisedStrategy, AllStrategies
      <2> QED
          BY <1>3, <2>1
<1>4. CASE n # 0
      <2>1. n \in Nat \ {0}
            BY <1>0, <1>4
      <2>2. strategy' \in AllStrategies(n)
            BY <1>1, <1>2, <2>1, OptimisedIsStrategy
      <2>3. strategy' \in Seq(Steps) /\ Len(strategy') = n - 1
            BY <2>1, <2>2, StrategyLength
      <2> QED
          BY <2>2, <2>3 DEF Steps
<1> QED
    BY <1>3, <1>4

\* Sequences of one element, and the counters of a fresh chain.
LEMMA Single == ASSUME NEW S, NEW x \in S PROVE <<x>> \in Seq(S) /\ Len(<<x>>) = 1 /\ <<x>>[1] = x
OBVIOUS

LEMMA StartValues ==
    ASSUME NEW CONSTANT d \in Drivers, NEW CONSTANT n \in 0..MaxLength, Start(d, n)
    PROVE  /\ l' = n /\ k' = 0 /\ idx' = 1 /\ cur' = 0 /\ spent' = 0 /\ driver' = d
           /\ elements' \in Seq(Nat \X Nat) /\ Len(elements') = 1
           /\ elements'[1] = <<0, 0>> /\ elements'[1][1] = 0 /\ elements'[1][2] = 0 /\ elements' # <<>>
           /\ level' \in Seq(Nat) /\ Len(level') = 1 /\ level'[1] = 0
           /\ nulls' \in Seq(Nat) /\ Len(nulls') = 1 /\ nulls'[1] = 0
           /\ back' = <<0, -1>> /\ kern' = <<0, 0>>
<1>1. l' = n /\ k' = 0 /\ idx' = 1 /\ cur' = 0 /\ spent' = 0 /\ driver' = d
      BY DEF Start
<1>2. back' = <<0, -1>> /\ kern' = <<0, 0>>
      BY DEF Start
<1>3. level' = <<0>> /\ nulls' = <<0>>
      BY DEF Start
<1>4. \E z \in Nat \X Nat : elements' = <<z>> /\ z = <<0, 0>>
      BY DEF Start
<1>5. PICK z \in Nat \X Nat : elements' = <<z>> /\ z = <<0, 0>>
      BY <1>4
<1>6. elements' \in Seq(Nat \X Nat) /\ Len(elements') = 1 /\ elements'[1] = z /\ elements' # <<>>
      <2>1. elements' = <<z>>
            BY <1>5
      <2> QED
          BY <2>1, Single
<1>7. level' \in Seq(Nat) /\ Len(level') = 1 /\ level'[1] = 0
      BY <1>3, Single
<1>8. nulls' \in Seq(Nat) /\ Len(nulls') = 1 /\ nulls'[1] = 0
      BY <1>3, Single
<1>9. z[1] = 0 /\ z[2] = 0
      BY <1>5
<1> QED
    BY <1>1, <1>2, <1>5, <1>6, <1>7, <1>8, <1>9

LEMMA StartWalking ==
    ASSUME NEW CONSTANT d \in Drivers, NEW CONSTANT n \in 0..MaxLength, Start(d, n), TypeOK'
    PROVE  Walking'
<1>0. n \in Nat
      BY LengthAssumption
<1>1. /\ driver' = d /\ l' = n /\ idx' = 1 /\ k' = 0 /\ cur' = 0 /\ spent' = 0 /\ result' = ""
      BY DEF Start
<1>2. Saved'
      <2>1. Len(level') = 1 /\ Len(elements') = 1 /\ elements'[1][1] = 0 /\ elements'[1][2] = 0 /\ level'[1] = 0
            BY StartValues
      <2>2. \A j \in 1..1 : j = 1
            OBVIOUS
      <2>3. level'[1] = elements'[1][2] - 0
            BY <2>1
      <2> QED
          BY <1>1, <2>1, <2>2, <2>3 DEF Saved
<1>3. ASSUME n > 0
      PROVE  Stack' /\ Trees' /\ Paid'
      <2>1. Len(elements') = 1 /\ elements'[1][2] = 0 /\ elements' # <<>>
            BY StartValues
      <2>2. strategy' \in Seq(Nat \ {0}) /\ strategy' \in AllStrategies(n) /\ Len(strategy') = n - 1
            BY <1>3, StartStrategy
      <2>3. At(1)' = 0 /\ At(2)' = n
            <3>1. At(1)' = elements'[1][2]
                  BY <2>1 DEF At
            <3>2. ~(2 <= Len(elements'))
                  BY <2>1
            <3>3. At(2)' = n - 0
                  BY <1>1, <3>2 DEF At
            <3> QED
                BY <1>0, <2>1, <3>1, <3>3
      <2>4. Leaves(1)' = n
            <3>1. Leaves(1)' = At(1 + 1)' - At(1)' /\ 1 + 1 = 2
                  BY DEF Leaves
            <3> QED
                BY <1>0, <2>3, <3>1
      <2>5. Walks(1)' = strategy'
            <3>1. Walks(1)' = Part(strategy', n - 1 - n + 1, n)
                  <4>1. Walks(1)' = Part(strategy', l' - 1 - At(1 + 1)' + 1, Leaves(1)') /\ 1 + 1 = 2
                        BY DEF Walks
                  <4> QED
                      BY <1>1, <2>3, <2>4, <4>1
            <3>2. n - 1 - n + 1 = 0
                  BY <1>0
            <3>3. Part(strategy', 0, n) = strategy'
                  <4> DEFINE s == strategy'
                  <4>1. s \in Seq(Nat \ {0}) /\ Len(s) = n - 1
                        BY <2>2
                  <4> HIDE DEF s
                  <4>2. s = [i \in 1..(n - 1) |-> s[i]]
                        BY <4>1
                  <4>3. \A i \in 1..(n - 1) : s[0 + i] = s[i]
                        BY <1>0
                  <4>4. Part(s, 0, n) = s
                        BY <4>2, <4>3 DEF Part
                  <4> QED
                      BY <4>4 DEF s
            <3> QED
                BY <3>1, <3>2, <3>3
      <2>6. Stack'
            <3>1. Len(strategy') = l' - 1 /\ idx' = k' + Len(elements') /\ elements' # <<>>
                  <4>1. Len(strategy') = l' - 1
                        BY <1>1, <2>2
                  <4>2. idx' = 1 /\ k' = 0 /\ Len(elements') = 1
                        BY <1>1, <2>1
                  <4>3. idx' = k' + Len(elements')
                        BY ONLY <4>2
                  <4> QED
                      BY <2>1, <4>1, <4>3
            <3>2. \A j \in 1..1 : At(j)' >= j - 1 /\ At(j)' < At(j + 1)'
                  <4>1. At(1)' >= 1 - 1 /\ At(1)' < At(1 + 1)'
                        <5>1. At(1 + 1)' = n /\ 1 - 1 = 0
                              BY <2>3
                        <5> QED
                            BY <1>0, <1>3, <2>3, <5>1
                  <4>2. \A j \in 1..1 : j = 1
                        OBVIOUS
                  <4> QED
                      BY <4>1, <4>2
            <3> QED
                BY <2>1, <3>1, <3>2 DEF Stack
      <2>7. Trees'
            <3>1. /\ Walks(1)' \in AllStrategies(Leaves(1)')
                  /\ strategy' = OptimisedStrategy(l', Mul') => Walks(1)' = OptimisedStrategy(Leaves(1)', Mul')
                  BY <1>1, <2>2, <2>4, <2>5
            <3>2. \A j \in 1..Len(elements') : j = 1
                  BY <2>1
            <3> QED
                BY <3>1, <3>2 DEF Trees
      <2>8. Paid'
            <3>1. PICK c : c = OptimalCost(n, Mul')
                  OBVIOUS
            <3>2. c \in Nat
                  <4>1. Mul' \in Nat
                        BY <1>1 DEF Mul, DoubleCost
                  <4> QED
                      BY <1>0, <3>1, <4>1, CostType
            <3>3. PICK f \in [0..1 -> Int] : f[0] = 0 /\ f[1] = c
                  <4> DEFINE g == [j \in 0..1 |-> IF j = 0 THEN 0 ELSE c]
                  <4>1. g \in [0..1 -> Int] /\ g[0] = 0 /\ g[1] = c
                        BY <3>2
                  <4> QED
                      BY <4>1
            <3>4. f[1] = f[0] + OptimalCost(Leaves(1)', Mul') + (l' - k' - At(1 + 1)') * EvalCost
                  <4>1. At(1 + 1)' = n
                        BY <2>3
                  <4>2. (l' - k' - At(1 + 1)') * EvalCost = 0
                        <5>1. l' = n /\ k' = 0
                              BY <1>1
                        <5>2. (n - 0 - n) * 5 = 0
                              BY <1>0
                        <5> QED
                            BY <4>1, <5>1, <5>2 DEF EvalCost
                  <4>3. OptimalCost(Leaves(1)', Mul') = c
                        BY <2>4, <3>1
                  <4> QED
                      BY <3>2, <3>3, <4>2, <4>3
            <3>5. f \in Debts'
                  <4>1. \A j \in 1..1 : f[j] = f[j - 1] + OptimalCost(Leaves(j)', Mul') + (l' - k' - At(j + 1)') * EvalCost
                        <5>1. 1 - 1 = 0 /\ \A j \in 1..1 : j = 1
                              OBVIOUS
                        <5> QED
                            BY <3>4, <5>1
                  <4> QED
                      BY <2>1, <3>3, <4>1 DEF Debts
            <3>6. Covers(spent + f[Len(elements)])'
                  <4>1. spent' + f[Len(elements')] = c
                        <5>1. spent' = 0 /\ f[Len(elements')] = c
                              BY <1>1, <2>1, <3>3
                        <5>2. 0 + c = c
                              BY <3>2
                        <5> QED
                            BY <5>1, <5>2
                  <4>2. c = OptimalCost(l', Mul')
                        BY <1>1, <3>1
                  <4> QED
                      BY <3>2, <4>1, <4>2 DEF Covers
            <3> QED
                BY <3>5, <3>6 DEF Paid
      <2> QED
          BY <2>6, <2>7, <2>8
<1>4. (l > 0 => Stack /\ Trees /\ Paid)'
      BY <1>1, <1>3
<1> QED
    BY <1>1, <1>2, <1>4 DEF Walking

LEMMA StartKeeps ==
    ASSUME StratInv, NEW CONSTANT d \in Drivers, NEW CONSTANT n \in 0..MaxLength, Start(d, n)
    PROVE  StratInv'
<1>0. n \in Nat
      BY LengthAssumption
<1>1. /\ driver' = d /\ l' = n /\ idx' = 1 /\ k' = 0 /\ cur' = 0 /\ spent' = 0
      /\ pc' = "walk" /\ result' = "" /\ ready' \in BOOLEAN
      BY DEF Start
<1>2. TypeOK'
      <2>1. strategy' \in Seq(Nat \ {0})
            BY StartStrategy
      <2>2. idx' \in 1..(Len(strategy') + 1)
            <3> DEFINE m == Len(strategy')
            <3>1. m \in Nat
                  BY <2>1
            <3> HIDE DEF m
            <3>2. 1 \in 1..(m + 1)
                  BY <3>1
            <3> QED
                BY <1>1, <3>2 DEF m
      <2>3. k' \in 0..l' /\ l' \in 0..MaxLength
            <3>1. 0 \in 0..n
                  BY <1>0
            <3> QED
                BY <1>1, <3>1, Zenon
      <2>4. elements' \in Seq(Nat \X Nat) /\ level' \in Seq(Nat) /\ nulls' \in Seq(Nat)
            BY StartValues
      <2>5. back' \in Nat \X Int /\ kern' \in Nat \X Nat /\ cur' \in Nat /\ spent' \in Nat
            <3>1. back' = <<0, -1>> /\ kern' = <<0, 0>>
                  BY StartValues
            <3>2. <<0, -1>> \in Nat \X Int /\ <<0, 0>> \in Nat \X Nat
                  OBVIOUS
            <3>3. cur' \in Nat /\ spent' \in Nat
                  BY <1>1
            <3> QED
                BY <3>1, <3>2, <3>3
      <2> QED
          BY <1>1, <2>1, <2>2, <2>3, <2>4, <2>5 DEF TypeOK
<1>3. Walking'
      BY <1>2, StartWalking
<1>4. cur' = k' /\ Len(nulls') = k' + 1 /\ \A j \in 1..(k' + 1) : nulls'[j] = j - 1
      <2>1. Len(nulls') = 1 /\ nulls'[1] = 0
            BY StartValues
      <2>2. 0 + 1 = 1 /\ \A j \in 1..1 : j = 1 /\ j - 1 = 0
            OBVIOUS
      <2>3. cur' = 0 /\ k' = 0
            BY <1>1
      <2>4. \A j \in 1..1 : nulls'[j] = j - 1
            BY <2>1, <2>2
      <2> QED
          BY <2>1, <2>2, <2>3, <2>4
<1>5. ~(back'[2] >= 0)
      <2>1. back'[2] = -1
            <3>1. back' = <<0, -1>>
                  BY StartValues
            <3> QED
                BY <3>1
      <2> QED
          BY <2>1
<1>6. back' = <<0, -1>>
      BY StartValues
<1> QED
    BY <1>1, <1>2, <1>3, <1>4, <1>5, <1>6 DEF StratInv

---------------------------------------------------------------------------
(* The way back.                                                           *)

LEMMA BackKeeps ==
    ASSUME StratInv, GoBack \/ DualStep \/ DualFails
    PROVE  StratInv'
<1>0. /\ pc = "returned" /\ result = "some"
      /\ UNCHANGED <<driver, l, strategy, idx, k, level, elements, cur, ready, kern, nulls, spent, pc, result>>
      BY DEF GoBack, DualStep, DualFails
<1>1. TypeOK /\ Delivered /\ cur = k /\ Len(nulls) = k + 1 /\ \A j \in 1..(k + 1) : nulls[j] = j - 1
      BY <1>0 DEF StratInv
<1>2. k = l /\ l \in Nat /\ (driver = "dim2" => l > 0) /\ driver \in Drivers /\ back \in Nat \X Int
      <2>1. l \in Nat
            <3>1. l \in 0..MaxLength
                  BY <1>1 DEF TypeOK
            <3> QED
                BY <3>1, LengthAssumption
      <2> QED
          BY <1>1, <2>1 DEF TypeOK, Delivered
<1>3. /\ back' \in Nat \X Int
      /\ back'[2] >= 0 => /\ back'[1] = back'[2] + (IF driver = "dim2" THEN 1 ELSE 0)
                          /\ back'[2] <= l
      <2>1. CASE GoBack
            BY <1>1, <1>2, <2>1 DEF GoBack
      <2>2. CASE DualStep
            <3>1. back[2] > 0 /\ back' = <<DividesBy, back[2] - 1>> /\ back[2] \in Int
                  BY <1>2, <2>2 DEF DualStep
            <3>2. back[1] = back[2] + (IF driver = "dim2" THEN 1 ELSE 0) /\ back[2] <= l
                  <4>1. back[2] >= 0
                        BY <3>1
                  <4> QED
                      BY <4>1 DEF StratInv, DualInStep
            <3>3. DividesBy = IF driver = "dim2" THEN back[2] ELSE back[2] - 1
                  <4>1. CASE driver = "dim2"
                        <5>1. back[2] + 1 \in 1..(k + 1)
                              BY <1>2, <3>1, <3>2
                        <5> DEFINE i == back[2] + 1
                        <5>2. nulls[i] = i - 1
                              <6> HIDE DEF i
                              <6>1. i \in 1..(k + 1)
                                    BY <5>1 DEF i
                              <6> QED
                                  BY <1>1, <6>1
                        <5>3. i - 1 = back[2]
                              BY <3>1
                        <5> QED
                            BY <4>1, <5>2, <5>3 DEF DividesBy
                  <4>2. CASE driver # "dim2"
                        <5>1. back[2] \in 1..(k + 1)
                              BY <1>2, <3>1, <3>2
                        <5>2. nulls[back[2]] = back[2] - 1
                              BY <1>1, <5>1
                        <5> QED
                            BY <4>2, <5>2 DEF DividesBy
                  <4> QED
                      BY <4>1, <4>2
            <3> DEFINE x == back[2]
                       y == DividesBy
            <3>4. x \in Int /\ x > 0 /\ x <= l /\ y = (IF driver = "dim2" THEN x ELSE x - 1) /\ back' = <<y, x - 1>>
                  BY <3>1, <3>2, <3>3
            <3> HIDE DEF x, y
            <3> QED
                BY <1>2, <3>4
      <2>3. CASE DualFails
            BY <2>3 DEF DualFails
      <2> QED
          BY <2>1, <2>2, <2>3
<1>4. TypeOK'
      BY <1>0, <1>1, <1>3 DEF TypeOK
<1>5. Delivered'
      BY <1>0, <1>1 DEF Delivered, Covers, Mul
<1>6. back'[2] >= 0 => DualInStep' /\ back'[2] <= l'
      BY <1>0, <1>3 DEF DualInStep
<1> QED
    BY <1>0, <1>1, <1>4, <1>5, <1>6 DEF StratInv

LEMMA StutterKeeps ==
    ASSUME StratInv, UNCHANGED vars
    PROVE  StratInv'
BY ZenonT(40) DEF StratInv, vars, TypeOK, Walking, Saved, Stack, Trees, Paid, Debts, Covers, Delivered,
       At, Leaves, Walks, Mul, DualInStep

LEMMA InitStrat == Init => StratInv
<1> SUFFICES ASSUME Init PROVE StratInv
    OBVIOUS
<1>1. /\ driver = "dim4" /\ l = 0 /\ idx = 1 /\ k = 0 /\ cur = 0 /\ ready = TRUE /\ spent = 0
      /\ pc = "idle" /\ result = ""
      BY DEF Init
<1>2. strategy = <<>> /\ level = <<>> /\ elements = <<>> /\ nulls = <<>> /\ kern = <<0, 0>> /\ back = <<0, -1>>
      BY DEF Init
<1>3. TypeOK
      <2>1. l \in 0..MaxLength /\ k \in 0..l
            <3>1. 0 \in 0..MaxLength /\ 0 \in 0..0
                  BY LengthAssumption
            <3> QED
                BY <1>1, <3>1
      <2>2. strategy \in Seq(Nat \ {0}) /\ idx \in 1..(Len(strategy) + 1)
            <3>1. Len(strategy) = 0 /\ strategy \in Seq(Nat \ {0})
                  BY <1>2
            <3>2. 1 \in 1..(0 + 1)
                  OBVIOUS
            <3>3. idx \in 1..(Len(strategy) + 1)
                  BY <1>1, <3>1, <3>2, Zenon
            <3> QED
                BY <3>1, <3>3
      <2>3. level \in Seq(Nat) /\ elements \in Seq(Nat \X Nat) /\ nulls \in Seq(Nat)
            BY <1>2
      <2>4. kern \in Nat \X Nat /\ back \in Nat \X Int
            BY <1>2
      <2> QED
          BY <1>1, <2>1, <2>2, <2>3, <2>4 DEF TypeOK, Drivers
<1>4. ~(back[2] >= 0)
      <2>1. back[2] = -1
            BY <1>2
      <2> QED
          BY <2>1
<1> QED
    BY <1>1, <1>2, <1>3, <1>4 DEF StratInv

LEMMA NextStrat == StratInv /\ [Next]_vars => StratInv'
<1> SUFFICES ASSUME StratInv, [Next]_vars PROVE StratInv'
    OBVIOUS
<1>1. ASSUME NEW d \in Drivers, NEW n \in 0..MaxLength, Start(d, n) PROVE StratInv'
      BY <1>1, StartKeeps
<1>2. CASE Descend
      BY <1>2, DescendKeeps
<1>3. CASE StepFails
      BY <1>3, GaveUp DEF StepFails, Return
<1>4. CASE Step
      BY <1>4, StepKeeps
<1>5. CASE Finish
      BY <1>5, FinishKeeps
<1>6. CASE GoBack \/ DualStep \/ DualFails
      BY <1>6, BackKeeps
<1>7. CASE UNCHANGED vars
      BY <1>7, StutterKeeps
<1> QED
    BY <1>1, <1>2, <1>3, <1>4, <1>5, <1>6, <1>7 DEF Next, Run

---------------------------------------------------------------------------
(* What follows.                                                           *)

THEOREM StratCorrect == Spec => []StratInv
BY InitStrat, NextStrat, PTL DEF Spec

\* The walk never leaves its types.
THEOREM TypeCorrect == Spec => []TypeOK
<1>1. StratInv => TypeOK
      BY DEF StratInv
<1> QED
    BY <1>1, StratCorrect, PTL

LEMMA StratWalk == StratInv => WalkInv
<1> SUFFICES ASSUME StratInv PROVE WalkInv
    OBVIOUS
<1>1. ASSUME pc = "walk", k < l
      PROVE  LevelSum <= Target
      <2> DEFINE e == elements[Len(elements)][2]
      <2>1. LevelSum = e /\ e < l - k /\ e \in Nat /\ l \in Nat /\ k \in Nat
            BY <1>1, Standing
      <2> HIDE DEF e
      <2> QED
          BY <2>1 DEF Target
<1>2. ASSUME result = "some", l > 0
      PROVE  idx = Len(strategy) + 1 /\ elements = <<>>
      BY <1>2 DEF StratInv, Delivered
<1>3. InStep
      <2> SUFFICES ASSUME pc = "walk"
                   PROVE  /\ Len(level) = Len(elements)
                          /\ \A j \in DOMAIN elements : elements[j][1] = cur
                          /\ elements # <<>> => LevelSum = Last(elements)[2]
          BY DEF InStep
      <2>1. TypeOK /\ Saved
            BY WalkingParts
      <2>2. DOMAIN elements = 1..Len(elements)
            <3>1. elements \in Seq(Nat \X Nat)
                  BY <2>1 DEF TypeOK
            <3> QED
                BY <3>1
      <2>3. elements # <<>> => LevelSum = Last(elements)[2]
            BY <2>1, LevelIs DEF Last
      <2> QED
          BY <2>1, <2>2, <2>3 DEF Saved
<1>4. DualInStep
      BY DEF StratInv, DualInStep
<1>5. pc # "panicked"
      BY DEF StratInv
<1> QED
    BY <1>1, <1>2, <1>3, <1>4, <1>5 DEF WalkInv

\* For every length and every strategy of that many leaves, no walk indexes
\* past its strategy or pops an empty stack, none overshoots, and a finished
\* chain has used its strategy up.
THEOREM WalkCorrect == Spec => []WalkInv
BY StratWalk, StratCorrect, PTL

LEMMA StratCost == StratInv => CostInv
<1> SUFFICES ASSUME StratInv, result = "some"
             PROVE  /\ spent >= OptimalCost(l, Mul)
                    /\ strategy = OptimisedStrategy(l, Mul) => spent = OptimalCost(l, Mul)
    BY DEF CostInv, Mul
<1> QED
    BY DEF StratInv, Delivered, Covers

\* The cost table and the walk agree, and the optimised strategy is optimal
\* among all strategies, for every chain length.
THEOREM CostCorrect == Spec => []CostInv
BY StratCost, StratCorrect, PTL

---------------------------------------------------------------------------
(* The refinement.                                                         *)

Status == CASE pc = "idle" -> "idle"
            [] pc = "returned" -> result
            [] OTHER -> "running"

LEMMA StatusIs ==
    /\ pc = "idle" => Status = "idle"
    /\ pc = "walk" => Status = "running"
    /\ pc = "returned" => Status = result
BY DEF Status

LEMMA StatusNext ==
    /\ pc' = "walk" => Status' = "running"
    /\ pc' = "returned" => Status' = result'
BY DEF Status

LEMMA RefinesStart ==
    ASSUME StratInv, NEW d \in Drivers, NEW n \in 0..MaxLength, Start(d, n)
    PROVE  Abstract!Begin
<1>1. l' = n /\ cur' = 0 /\ kern' = <<0, 0>> /\ pc' = "walk" /\ n \in Nat
      <2>1. n \in Nat
            BY LengthAssumption
      <2> QED
          BY <2>1 DEF Start
<1>2. Status # "running"
      <2>1. pc = "idle" \/ (pc = "returned" /\ result \in {"some", "none"})
            <3>1. pc \in {"idle", "returned"}
                  BY DEF Start
            <3>2. pc = "returned" => result \in {"some", "none"}
                  BY Zenon DEF StratInv
            <3>3. pc = "idle" \/ pc = "returned"
                  BY <3>1
            <3> QED
                BY <3>2, <3>3, Zenon
      <2> QED
          BY <2>1, StatusIs
<1>3. Status' = "running"
      BY <1>1, StatusNext
<1> QED
    BY <1>1, <1>2, <1>3 DEF Abstract!Begin, Abstract!NoKernel, Status

\* The kernel of a step is the one the abstract chain asks for.
LEMMA RefinesStep ==
    ASSUME StratInv, Step
    PROVE  Abstract!Isogeny
<1>0. pc = "walk" /\ k < l /\ LevelSum = Target
      BY DEF Step
<1>1. PICK r : r = Len(elements)
      OBVIOUS
<1>2. /\ elements # <<>> /\ l \in Nat /\ k \in Nat /\ cur = k /\ Last(elements) = elements[r]
      /\ elements[r] = <<k, elements[r][2]>> /\ LevelSum = elements[r][2] /\ r \in Nat \ {0}
      BY <1>0, <1>1, Standing
<1>3. kern' = Last(elements) /\ cur' = cur + 1 /\ UNCHANGED <<l, pc, result>>
      BY <1>2 DEF Step
<1>4. kern' = <<cur, l - cur - 1>>
      <2>1. elements[r][2] = l - 1 - k
            BY <1>0, <1>2 DEF Target
      <2>2. l - 1 - k = l - k - 1
            BY <1>2
      <2>3. kern' = <<k, l - k - 1>>
            BY <1>2, <1>3, <2>1, <2>2
      <2> QED
          BY <1>2, <2>3
<1>5. Status = "running" /\ Status' = "running"
      BY <1>0, <1>3, StatusIs, StatusNext
<1> QED
    BY <1>0, <1>2, <1>3, <1>4, <1>5 DEF Abstract!Isogeny, Status

LEMMA RefinesRest ==
    ASSUME StratInv,
           Descend \/ StepFails \/ Finish \/ GoBack \/ DualStep \/ DualFails \/ UNCHANGED vars
    PROVE  UNCHANGED Abstract!vars \/ Abstract!GiveUp \/ Abstract!Deliver
<1>1. UNCHANGED <<l, cur, kern>>
      BY DEF Descend, StepFails, Finish, GoBack, DualStep, DualFails, vars
<1>2. \/ UNCHANGED <<pc, result>>
      \/ pc = "walk" /\ pc' = "returned" /\ result' = "none"
      \/ pc = "walk" /\ pc' = "returned" /\ result' = "some" /\ k = l
      <2>1. CASE Descend
            <3>1. StratInv'
                  BY <2>1, DescendKeeps
            <3>2. pc' # "panicked"
                  BY <3>1 DEF StratInv
            <3> QED
                BY <2>1, <3>2 DEF Descend, Return
      <2>2. CASE StepFails
            BY <2>2 DEF StepFails, Return
      <2>3. CASE Finish
            BY <2>3 DEF Finish, Return
      <2>4. CASE GoBack \/ DualStep \/ DualFails \/ UNCHANGED vars
            BY <2>4 DEF GoBack, DualStep, DualFails, vars
      <2> QED
          BY <2>1, <2>2, <2>3, <2>4
<1>3. CASE UNCHANGED <<pc, result>>
      <2>1. Status' = Status
            BY <1>3 DEF Status
      <2> QED
          BY <1>1, <2>1 DEF Abstract!vars, Status
<1>4. CASE pc = "walk" /\ pc' = "returned" /\ result' = "none"
      <2>1. Status = "running" /\ Status' = "none"
            BY <1>4, StatusIs, StatusNext
      <2> QED
          BY <1>1, <2>1 DEF Abstract!GiveUp, Status
<1>5. CASE pc = "walk" /\ pc' = "returned" /\ result' = "some" /\ k = l
      <2>1. Status = "running" /\ Status' = "some"
            BY <1>5, StatusIs, StatusNext
      <2>2. cur = l
            <3>1. pc # "idle"
                  BY <1>5
            <3> QED
                BY <1>5, <3>1 DEF StratInv
      <2> QED
          BY <1>1, <2>1, <2>2 DEF Abstract!Deliver, Status
<1> QED
    BY <1>2, <1>3, <1>4, <1>5

\* Whatever the strategy, the driver computes an isogeny chain, each step from
\* the one kernel that is right for it.
THEOREM StrategyRefinement == Spec => ImplementsIsogenyChain
<1>1. Init => Abstract!Init
      BY DEF Init, Abstract!Init, Abstract!NoKernel
<1>2. StratInv /\ [Next]_vars => [Abstract!Next]_(Abstract!vars)
      <2> SUFFICES ASSUME StratInv, [Next]_vars PROVE [Abstract!Next]_(Abstract!vars)
          OBVIOUS
      <2>1. ASSUME NEW d \in Drivers, NEW n \in 0..MaxLength, Start(d, n)
            PROVE  Abstract!Begin
            BY <2>1, RefinesStart
      <2>2. CASE Step
            BY <2>2, RefinesStep DEF Abstract!Next
      <2>3. CASE Descend \/ StepFails \/ Finish \/ GoBack \/ DualStep \/ DualFails \/ UNCHANGED vars
            BY <2>3, RefinesRest DEF Abstract!Next
      <2> QED
          BY <2>1, <2>2, <2>3 DEF Next, Run, Abstract!Next
<1> QED
    BY <1>1, <1>2, StratCorrect, PTL DEF ImplementsIsogenyChain, Abstract!Spec, Spec
============================================================================
