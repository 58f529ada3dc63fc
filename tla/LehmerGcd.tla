----------------------------- MODULE LehmerGcd ----------------------------
(***************************************************************************)
(* The Euclidean routines of crates/sqisign-rs/src/mp/gcd.rs: the extended *)
(* gcd and the modular inverse by Lehmer's algorithm, one action for a     *)
(* turn of the loop, and the Jacobi symbol.  Magnitudes are numbers, the   *)
(* cofactors bounded integers.                                             *)
(***************************************************************************)
EXTENDS Integers, Sequences

CONSTANTS
    LimbWidth,   \* width of a limb, 64 in the code
    Container,   \* limbs of an integer
    Operands     \* pairs of integers with bounds, <<a, bits>>

ASSUME LehmerAssumption ==
    /\ LimbWidth \in Nat /\ LimbWidth >= 3 /\ Container \in Nat \ {0}
    /\ \A o \in Operands : o[2] \in 1..(LimbWidth * (Container - 1)) /\ o[1] < 2 ^ (o[2] - 1)

I == INSTANCE BoundedInt WITH W <- LimbWidth, N <- Container

VARIABLES
    job,     \* routine and operands
    u, v,    \* the two magnitudes; for the symbol, two integers
    cof,     \* cofactors of u and v: <<of a in u, of b in u, of a in v, of b in v>>
    sym,     \* sign of the symbol
    ans      \* the answer

gvars == <<job, u, v, cof, sym, ans>>

Base == 2 ^ LimbWidth
Trim(x) == CHOOSE n \in 1..Container : x < Base ^ n /\ (n = 1 \/ x >= Base ^ (n - 1))
Small(x, bits) == I!Fresh(x, bits)
Sign(x) == IF x < 0 THEN -1 ELSE IF x = 0 THEN 0 ELSE 1

---------------------------------------------------------------------------
(* lehmer_inner.                                                           *)

\* Mutated form of Certain: only the first half of the condition.
HalfCertain(yy, rem, nd, d) == rem >= I!Magnitude(nd)

\* The quotient of the leading limbs is that of the numbers themselves.
Certain(yy, rem, nd, d) ==
    /\ rem >= I!Magnitude(nd)
    /\ yy - rem >= I!Magnitude(nd - d)

\* Steps of Euclid's algorithm on the two leading limbs x >= y, as long as
\* the cofactors fit a limb and the quotients are certain.
Inner[m \in Seq(Int), x \in Nat, y \in Nat] ==
    IF y = 0 THEN m
    ELSE LET q  == x \div y
             nc == m[1] - q * m[3]
             nd == m[2] - q * m[4]
         IN  IF \/ q >= Base
                \/ I!Magnitude(nc) > Base \div 4 \/ I!Magnitude(nd) > Base \div 4
                \/ ~Certain(y, x % y, nd, m[4])
             THEN m
             ELSE Inner[<<m[3], m[4], nc, nd>>, y, x % y]

Unit == <<1, 0, 0, 1>>

\* The cofactors of a turn: none when v is two limbs shorter.
Turn ==
    LET ulen == Trim(u)
        lead(x) == IF ulen >= 2 THEN x \div Base ^ (ulen - 2) ELSE x * Base
    IN  IF ulen - Trim(v) >= 2 THEN Unit ELSE Inner[Unit, lead(u), lead(v)]

---------------------------------------------------------------------------
(* xgcd and invmod.                                                        *)

\* A cofactor of one limb times a bounded integer.
TimesLimb(c, x) ==
    IF c = 0 \/ I!Active(x) = 0 THEN Small(0, 1)
    ELSE LET m == I!Active(I!Abs(x)) * I!Magnitude(c)
             k == CHOOSE i \in 1..(LimbWidth + 1) : I!Magnitude(c) < 2 ^ i /\ I!Magnitude(c) >= 2 ^ (i - 1)
         IN  I!CNeg(I!FromBits(m, I!Least(x.bits + k - 1, I!MaxBits - 1)), (c < 0) # I!Negative(x))

Combined(c, x, d, y) == I!Sum(TimesLimb(c, x), TimesLimb(d, y))

\* The inverse reads the limbs of the modulus as they are, those of the
\* other operands by their bound.
Enter(op, a, b) ==
    LET x == I!Magnitude(I!Value(a))
        y == IF op = "invmod" THEN b.limbs ELSE I!Magnitude(I!Value(b))
    IN  /\ job = [op |-> op, a |-> a, b |-> b]
        /\ IF x >= y THEN u = x /\ v = y /\ cof = <<Small(1, 2), Small(0, 2), Small(0, 2), Small(1, 2)>>
                     ELSE u = y /\ v = x /\ cof = <<Small(0, 2), Small(1, 2), Small(1, 2), Small(0, 2)>>
        /\ sym = TRUE /\ ans = <<>>

Euclidean == job.op \in {"xgcd", "invmod"} /\ ans = <<>>

LehmerStep ==
    /\ Euclidean /\ v # 0
    /\ \E m \in {Turn} \ {Unit} :
           /\ u' = m[1] * u + m[2] * v
           /\ v' = m[3] * u + m[4] * v
           /\ cof' = <<Combined(m[1], cof[1], m[2], cof[3]), Combined(m[1], cof[2], m[2], cof[4]),
                       Combined(m[3], cof[1], m[4], cof[3]), Combined(m[3], cof[2], m[4], cof[4])>>
    /\ UNCHANGED <<job, sym, ans>>

DivisionStep ==
    /\ Euclidean /\ v # 0 /\ Turn = Unit
    /\ u' = v /\ v' = u % v
    /\ LET q == I!FromBits(u \div v, LimbWidth * Trim(u \div v))
       IN  cof' = <<cof[3], cof[4], I!Difference(cof[1], I!Product(q, cof[3])),
                                    I!Difference(cof[2], I!Product(q, cof[4]))>>
    /\ UNCHANGED <<job, sym, ans>>

\* The bound of a cofactor goes down to its own length before its sign.
Tightened(x, neg) == I!CNeg([x EXCEPT !.bits = I!BitSize(x) + 1], neg)

Finish ==
    /\ Euclidean /\ v = 0
    /\ LET neg == I!Negative(job.a)
       IN  ans' = IF job.op = "xgcd"
                  THEN <<Small(u, I!Greatest(job.a.bits, job.b.bits)),
                         Tightened(cof[1], neg), Tightened(cof[2], I!Negative(job.b))>>
                  ELSE IF u = 1 THEN <<I!Modulo(I!CNeg(cof[1], neg), job.b)>> ELSE <<"None">>
    /\ UNCHANGED <<job, u, v, cof, sym>>

---------------------------------------------------------------------------
(* legendre.                                                               *)

\* Mutated form of AtOnce: the check for 0 is left out.
Never(a) == FALSE

AtOnce(a) == I!Active(a) = 0

EnterSymbol(a, p) ==
    /\ job = [op |-> "legendre", a |-> a, b |-> p]
    /\ u = a /\ v = p /\ cof = <<>> /\ sym = TRUE
    /\ ans = IF AtOnce(a) THEN <<0>> ELSE <<>>

Low(x, k) == I!Active(x) % k

\* The symbol of 2 is -1.
TwoFlips == Low(v, 8) \in {3, 5}

Symbol == job.op = "legendre" /\ ans = <<>>

SymbolTurn ==
    /\ Symbol /\ I!Value(u) # 1
    /\ CASE Low(u, 4) = 0 -> u' = I!DivPow2(u, 2) /\ UNCHANGED <<v, sym>>
         [] Low(u, 4) = 2 -> u' = I!DivPow2(u, 1) /\ sym' = (sym # TwoFlips) /\ v' = v
         [] Low(u, 2) = 1 /\ I!Value(u) >= I!Value(v) -> u' = I!Difference(u, v) /\ UNCHANGED <<v, sym>>
         [] OTHER -> /\ u' = v /\ v' = u
                     /\ sym' = (sym # (Low(u, 4) = 3 /\ Low(v, 4) = 3))
    /\ UNCHANGED <<job, cof, ans>>

SymbolEnd ==
    /\ Symbol /\ I!Value(u) = 1
    /\ ans' = <<IF sym THEN 1 ELSE -1>>
    /\ UNCHANGED <<job, u, v, cof, sym>>

---------------------------------------------------------------------------
\* gcd and the Jacobi symbol by their definitions.
CommonDivisors(a, b) == {d \in 1..I!Greatest(a, b) : a % d = 0 /\ b % d = 0}
Gcd(a, b) == IF a = 0 /\ b = 0 THEN 0
             ELSE CHOOSE d \in CommonDivisors(a, b) : \A e \in CommonDivisors(a, b) : e <= d

RECURSIVE Jacobi(_, _)
Jacobi(a, n) ==
    IF n = 1 THEN 1
    ELSE LET p == CHOOSE d \in 2..n : n % d = 0 /\ \A e \in 2..(d - 1) : n % e # 0
             l == IF a % p = 0 THEN 0 ELSE IF \E r \in 1..(p - 1) : (r * r - a) % p = 0 THEN 1 ELSE -1
         IN  l * Jacobi(a, n \div p)

\* The symbol is asked for an odd modulus above 1 that has no common factor
\* with a unless a is 0: for another the loop meets 0 and never ends.
GcdInit ==
    \E a, b \in Operands, neg \in BOOLEAN :
        LET s == Small(IF neg THEN -a[1] ELSE a[1], a[2])
            t == Small(b[1], b[2])
        IN  \/ Enter("xgcd", s, t)
            \/ b[1] # 0 /\ Enter("invmod", s, t)
            \/ ~neg /\ b[1] % 2 = 1 /\ b[1] > 1 /\ (a[1] = 0 \/ Gcd(a[1], b[1]) = 1) /\ EnterSymbol(s, t)

GcdNext == LehmerStep \/ DivisionStep \/ Finish \/ SymbolTurn \/ SymbolEnd

---------------------------------------------------------------------------
(* Properties.                                                             *)

\* What the Euclidean routines answer is what their definitions say, and the
\* loop keeps u >= v >= 0: steps that Lehmer's condition lets through on two
\* leading limbs are steps of the numbers, no cofactor is cut by its bound,
\* and the sign of a is put back.
EuclidRight ==
    job.op # "none" =>
    LET a == I!Value(job.a)
        b == I!Value(job.b)
    IN  /\ job.op # "legendre" => v >= 0 /\ u >= v
        /\ ans # <<>> =>
              CASE job.op = "xgcd" ->
                       /\ I!Value(ans[1]) = Gcd(I!Magnitude(a), I!Magnitude(b))
                       /\ I!Value(ans[2]) * a + I!Value(ans[3]) * b = I!Value(ans[1])
                       /\ \A i \in 1..3 : I!Magnitude(I!Value(ans[i])) < 2 ^ (ans[i].bits - 1)
                [] job.op = "invmod" ->
                       IF Gcd(I!Magnitude(a), b) # 1 THEN ans = <<"None">>
                       ELSE I!Value(ans[1]) \in 0..(b - 1) /\ (I!Value(ans[1]) * a) % b = 1 % b
                [] job.op = "legendre" -> ans = <<Jacobi(a, b)>>

\* Every routine answers.
Answers == <>(ans # <<>>)
============================================================================
