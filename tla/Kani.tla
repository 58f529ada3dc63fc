-------------------------------- MODULE Kani ------------------------------
(***************************************************************************)
(* The integer algebra of the dimension-4 embedding (crates/verify/src/hd: *)
(* uint.rs and kani.rs): the fixed-width integers of the norm equation     *)
(* 2^e - q = a1^2 + a2^2 and Cornacchia's descent on them, the matrices of *)
(* F and of its dual, the completion of a kernel to a symplectic matrix by *)
(* Gaussian elimination modulo 2^r, the two starting matrices and the      *)
(* change of basis of the dimension-4 gluing.  A vector and a matrix are   *)
(* tuples, column j of the code is entry j + 1 here.                       *)
(***************************************************************************)
EXTENDS Integers, Sequences, FiniteSets, SequencesExt

CONSTANTS
    Embed,        \* e: the response degree is below 2^e
    LimbsWidth,   \* bits of a U4, 256 in the code
    LowWidth,     \* bits of a u128, 128 in the code
    SignedWidth,  \* bits of the gluing's i128, 128 in the code
    RootBases     \* square roots of -1 are sought from the bases below it

ASSUME EmbedAssumption ==
    /\ {Embed, LimbsWidth, LowWidth, SignedWidth, RootBases} \subseteq Nat
    /\ Embed >= 4 /\ Embed < LimbsWidth

Half == (Embed + 1) \div 2        \* E1, the steps of the first half-chain
Rescaled == Half + 2              \* R, the torsion of the half-chains
Torsion2 == 2 ^ Rescaled

None == <<>>

----------------------------------------------------------------------------
(* uint.rs *)
Word == 2 ^ LimbsWidth
BitAt(x, k) == (x \div 2 ^ k) % 2
BitLength(x) == CHOOSE b \in 0..(2 * LimbsWidth) : x < 2 ^ b /\ (b > 0 => x >= 2 ^ (b - 1))
WrappingSub(x, y) == (x - y) % Word
WrappingMul(x, y) == (x * y) % Word

\* Shift and subtract from bit i down: the quotient and the remainder.
shiftSubtract[x \in Nat, d \in Nat, q \in Nat, r \in Nat, i \in Int] ==
    IF i < 0 THEN <<q, r>>
    ELSE LET s == ((2 * r) % Word) + BitAt(x, i)
         IN  IF s < d THEN shiftSubtract[x, d, q, s, i - 1]
             ELSE shiftSubtract[x, d, q + 2 ^ i, s - d, i - 1]
DivRem(x, d) == shiftSubtract[x, d, 0, 0, BitLength(x) - 1]
MulMod(x, y, m) == shiftSubtract[x * y, m, 0, 0, 2 * LimbsWidth - 1][2]

power[r \in Nat, base \in Nat, e \in Nat, m \in Nat, i \in Int] ==
    IF i < 0 THEN r
    ELSE LET s == MulMod(r, r, m)
         IN  power[IF BitAt(e, i) = 1 THEN MulMod(s, base, m) ELSE s, base, e, m, i - 1]
PowMod(x, e, m) == power[1, DivRem(x, m)[2], e, m, BitLength(e) - 1]

\* Newton's iteration from above: it stops where it no longer decreases.
newton[n \in Nat, x \in Nat] ==
    LET next == ((x + DivRem(n, x)[1]) % Word) \div 2
    IN  IF next < x THEN newton[n, next] ELSE x
Isqrt(n) == IF n = 0 THEN 0 ELSE newton[n, 2 ^ ((BitLength(n) + 1) \div 2)]

----------------------------------------------------------------------------
(* The norm equation. *)
IsRoot(t, n) == MulMod(t, t, n) = n - 1
RootOfMinusOne(n) ==
    LET root(b) == PowMod(b, (n - 1) \div 4, n)
        good == {b \in 2..(RootBases - 1) : IsRoot(root(b), n)}
    IN  IF good = {} THEN None ELSE <<root(CHOOSE b \in good : \A c \in good : b <= c)>>

\* The Euclidean descent on n and the root, to the first remainder that is
\* not above the limit.
descent[a \in Nat, b \in Nat, limit \in Nat] ==
    IF limit < b THEN descent[b, DivRem(a, b)[2], limit] ELSE b

OddFirst(x, y) == IF x % 2 = 1 THEN <<x, y>> ELSE <<y, x>>

SumOfTwoSquares(n) ==
    IF n % 4 # 1 THEN None
    ELSE LET root == RootOfMinusOne(n)
         IN  IF root = None THEN None
             ELSE LET x0 == IF n \div 2 < root[1] THEN root[1] ELSE n - root[1]
                      x == descent[n, x0, Isqrt(n)]
                      rest == WrappingSub(n, WrappingMul(x, x))
                      y == Isqrt(rest)
                  IN  IF WrappingMul(y, y) # rest THEN None ELSE OddFirst(x, y)
NormEquation(q) == SumOfTwoSquares(WrappingSub(2 ^ Embed, q))

\* v_2 as trailing_zeros counts it: the whole width for 0.
TrailingZeros(x) ==
    IF x = 0 THEN LowWidth
    ELSE CHOOSE k \in 0..LowWidth : BitAt(x, k) = 1 /\ \A j \in 0..(k - 1) : BitAt(x, j) = 0

----------------------------------------------------------------------------
(* Matrices over Z/M, M a power of two. *)
V4(E(_)) == <<E(1), E(2), E(3), E(4)>>
V8(E(_)) == <<E(1), E(2), E(3), E(4), E(5), E(6), E(7), E(8)>>
V9(E(_)) == <<E(1), E(2), E(3), E(4), E(5), E(6), E(7), E(8), E(9)>>
Square8(E(_, _)) == V8(LAMBDA i : V8(LAMBDA j : E(i, j)))
Square4(E(_, _)) == V4(LAMBDA i : V4(LAMBDA j : E(i, j)))
Sum4(E(_)) == E(1) + E(2) + E(3) + E(4)
Sum8(E(_)) == E(1) + E(2) + E(3) + E(4) + E(5) + E(6) + E(7) + E(8)

MatrixF(a1, a2, q) ==
    <<<<a1, a2, q, 0, 0, 0, 0, 0>>, <<-a2, a1, 0, q, 0, 0, 0, 0>>,
      <<-1, 0, a1, -a2, 0, 0, 0, 0>>, <<0, -1, a2, a1, 0, 0, 0, 0>>,
      <<0, 0, 0, 0, a1, a2, 1, 0>>, <<0, 0, 0, 0, -a2, a1, 0, 1>>,
      <<0, 0, 0, 0, -q, 0, a1, -a2>>, <<0, 0, 0, 0, 0, -q, a2, a1>>>>
MatrixFDual(a1, a2, q) ==
    <<<<a1, -a2, -q, 0, 0, 0, 0, 0>>, <<a2, a1, 0, -q, 0, 0, 0, 0>>,
      <<1, 0, a1, a2, 0, 0, 0, 0>>, <<0, 1, -a2, a1, 0, 0, 0, 0>>,
      <<0, 0, 0, 0, a1, -a2, -1, 0>>, <<0, 0, 0, 0, a2, a1, 0, -1>>,
      <<0, 0, 0, 0, q, 0, a1, a2>>, <<0, 0, 0, 0, 0, q, -a2, a1>>>>

\* The kernel of F1, (C; D) as eight rows of four.
KernelF1(a1, a2, q) ==
    <<<<a1, 0, -a2, 0>>, <<a2, 0, a1, 0>>, <<1, 0, 0, 0>>, <<0, 0, 1, 0>>,
      <<0, a1, 0, -a2>>, <<0, a2, 0, a1>>, <<0, q, 0, 0>>, <<0, 0, 0, q>>>>

\* Hensel doubling: each turn doubles the bits that are right.
HenselTurns == BitLength(LowWidth - 1)
hensel[a \in Int, inv \in Nat, M \in Nat, t \in Nat] ==
    IF t = 0 THEN inv ELSE hensel[a, (inv * ((2 - a * inv) % M)) % M, M, t - 1]
InvPow2(a, M) == hensel[a % M, 1, M, HenselTurns]

\* One pivot: row s is scaled, brought to row top, and cleared from the rest.
cleared[rows \in Seq(Seq(Nat)), piv \in Seq(Nat), top \in Nat, s \in Nat, col \in Nat, M \in Nat] ==
    LET old(i) == rows[IF i = s THEN top ELSE i]
    IN  <<>> \o [i \in 1..Len(rows) |->
                    IF i = top THEN piv
                    ELSE V9(LAMBDA j : (old(i)[j] - old(i)[col] * piv[j]) % M)]
ScaledRow(row, inv, M) == V9(LAMBDA j : (row[j] * inv) % M)

\* The elimination from column col on, the ninth entry of a row being the
\* right-hand side: the rows and the columns that have a pivot, in order.
eliminated[rows \in Seq(Seq(Nat)), pivots \in Seq(Nat), col \in Nat, M \in Nat] ==
    LET top == Len(pivots) + 1
        odd == {i \in top..Len(rows) : rows[i][col] % 2 = 1}
        s == Min(odd)
    IN  IF col > 8 THEN <<rows, pivots>>
        ELSE IF odd = {} THEN eliminated[rows, pivots, col + 1, M]
        ELSE eliminated[cleared[rows, ScaledRow(rows[s], InvPow2(rows[s][col], M), M), top, s, col, M],
                        Append(pivots, col), col + 1, M]

\* The solution with the free variables zero; None unless it checks.
ReadOff(sys) ==
    V8(LAMBDA c : IF Contains(sys[2], c) THEN sys[1][CHOOSE k \in 1..8 : sys[2][k] = c][9] ELSE 0)
Solves(x, rows, rhs, M) ==
    \A i \in 1..Len(rows) : Sum8(LAMBDA j : rows[i][j] * x[j]) % M = rhs[i] % M
SolvePow2(rows, rhs, M) ==
    LET augmented == <<>> \o [i \in 1..Len(rows) |->
                         V9(LAMBDA j : (IF j = 9 THEN rhs[i] ELSE rows[i][j]) % M)]
        x == ReadOff(eliminated[augmented, <<>>, 1, M])
    IN  IF Solves(x, rows, rhs, M) THEN x ELSE None

\* What a vector must be orthogonal to: [D^T | -C^T] and [B^T | -A^T].
Constraint(col) == <<col[5], col[6], col[7], col[8], -col[1], -col[2], -col[3], -col[4]>>
ColumnOf(m, j) == V8(LAMBDA r : m[r][j])

\* The next column of the completion of the kernel, after those in cols.
CompletionColumn(kernel, cols, M) ==
    LET i == Len(cols) + 1
        rows == <<>> \o [t \in 1..(4 + Len(cols)) |->
                            IF t <= 4 THEN Constraint(ColumnOf(kernel, t)) ELSE Constraint(cols[t - 4])]
    IN  SolvePow2(rows, [t \in 1..Len(rows) |-> IF t = i THEN 1 ELSE 0], M)

\* The completion as the left half of the matrix, the kernel as the right.
Completed(cols, kernel, M) ==
    Square8(LAMBDA r, j : (IF j <= 4 THEN cols[j][r] ELSE kernel[r][j - 4]) % M)

\* The first four columns of m times n.
LeftProduct(m, n, M) == V8(LAMBDA i : V4(LAMBDA j : Sum8(LAMBDA k : m[i][k] * n[k][j]) % M))

\* The block conditions of is_symplectic_dim4: with columns u and v,
\* sum u_k v_(4+k) - u_(4+k) v_k is 1 for v four after u and else 0.
Symplectic(m, M) ==
    LET half == Len(m) \div 2
        J(i, j) == IF half = 4
                   THEN Sum4(LAMBDA k : m[k][i] * m[4 + k][j] - m[4 + k][i] * m[k][j])
                   ELSE m[1][i] * m[3][j] - m[3][i] * m[1][j] + m[2][i] * m[4][j] - m[4][i] * m[2][j]
    IN  \A i, j \in 1..Len(m) : i < j => J(i, j) % M = (IF j = i + half THEN 1 ELSE 0)

----------------------------------------------------------------------------
(* The gluing: matrices over Z/4. *)
GluingDim2F1(a1, a2, q) ==
    LET mu == a1
        M == <<<<0, mu, a1, a2>>, <<0, 0, 1, 0>>, <<0, 0, -a2, a1>>, <<-1, -(mu * a2), 0, q>>>>
    IN  Square4(LAMBDA i, j : M[i][j] % 4)
GluingDim2F2(a1, a2, q) ==
    LET mu == a1
        M == <<<<0, mu, a1, -a2>>, <<0, 0, -1, 0>>, <<0, 0, a2, a1>>, <<1, -(mu * a2), 0, -q>>>>
    IN  Square4(LAMBDA i, j : M[i][j] % 4)

\* gluing_bc_dim4 before the last reductions: the scalars modulo 2^(m+2) and
\* the four blocks of numerators, column j of M1 at a time; sign is 1 for F1
\* and -1 for the dual of F2.
GluingScalars(a1, a2, q, m, sign) ==
    LET M == 2 ^ (m + 2)
        t == 2 ^ (m + 1)
        mu == ((1 - sign * t * (q % M)) * InvPow2(a1, M)) % M
    IN  [mu |-> mu,
         bq |-> (-sign - sign * t * (a1 % M)) % M,
         a  |-> (t * (a2 % M) * InvPow2(q, M)) % M,
         dq |-> (-(mu * (a2 % M))) % M]

\* Rows r and r + 1 of the upper blocks from a column's halves, and of the
\* lower blocks.
Upper(u, a1, a2, q, sign) ==
    LET pair(x, y, z, w) == <<-(y * a1) - sign * x * a2 - sign * w,
                              x * a1 - sign * y * a2 + sign * z * q>>
    IN  pair(u[1], u[5], u[3], u[7]) \o pair(u[2], u[6], u[4], u[8])
LowerA(u, s, t) == <<u[7] * s.a - u[1] * t - u[3] * s.bq, u[7] * t + u[5] * s.mu - u[3] * s.dq,
                     u[8] * s.a - u[2] * t - u[4] * s.bq, u[8] * t + u[6] * s.mu - u[4] * s.dq>>

GluingNumerators(a1, a2, q, m, start, sign) ==
    LET M == 2 ^ (m + 2)
        s == GluingScalars(a1, a2, q, m, sign)
        u(j) == V8(LAMBDA r : start[r][j] % M)
        lower(v) == LowerA(v, s, 2 ^ (m + 1))
    IN  V8(LAMBDA j : Upper(u(j), a1 % M, a2 % M, q % M, sign) \o lower(u(j)))

\* Mutated form of UpperRight: the residue modulo 4 is taken first.
ReducedFirst(x, m) == ((x % 4) \div 2 ^ m) % 4

UpperRight(x, m) == ((x % 2 ^ (m + 2)) \div 2 ^ m) % 4

GluingDim4(nums, m) ==
    Square8(LAMBDA r, j : IF r <= 4 /\ j > 4 THEN UpperRight(nums[j][r], m)
                          ELSE IF r > 4 /\ j <= 4 THEN (2 ^ m * nums[j][r]) % 4
                          ELSE nums[j][r] % 4)

\* The kernel of the dimension-2 gluing in the bases P, Q and R, S of the
\* 2^(m+3)-torsion, the scalars reduced modulo 2^(m+2) and then doubled.
KernelDim2(a1, a2, m, sign) ==
    LET s1 == 2 * (a1 % 2 ^ (m + 2))
        s2 == 2 * (a2 % 2 ^ (m + 2))
    IN  <<<<s1, -sign * s2, 2 * sign, 0>>, <<sign * s2, s1, 0, 2 * sign>>>>

\* No product of the gluing leaves a signed word.
Fits(x) == x >= -(2 ^ (SignedWidth - 1)) /\ x < 2 ^ (SignedWidth - 1)
GluingFits(a1, a2, q, m, nums) ==
    LET M == 2 ^ (m + 2)
        t == 2 ^ (m + 1)
        aa == a1 % M
        bb == a2 % M
        qq == q % M
    IN  /\ \A sign \in {1, -1} : Fits((1 - sign * t * qq) * InvPow2(a1, M)) /\ Fits(1 + sign * t * aa)
        /\ Fits(t * bb * InvPow2(q, M))
        /\ \A j, r \in 1..8 : /\ Fits(nums[j][r])
                              /\ (r > 4 /\ j <= 4) => Fits(2 ^ m * nums[j][r])
============================================================================
