----------------------------- MODULE IdealSearch ---------------------------
(***************************************************************************)
(* The searches signing makes among ideals: an element of O0 of a given    *)
(* norm (RepresentInteger, quat/stdorder.rs), a random ideal of any odd    *)
(* norm, an equivalent ideal of odd, prime or coprime norm (quat/ideal.rs) *)
(* and the response, an element of a ball of a product of two ideals       *)
(* (quat/protocol.rs, quat/lattice.rs).  A draw is an existential choice;  *)
(* the bases a search combines are those of the ideals, any basis of the   *)
(* lattice that the code reduces.                                          *)
(***************************************************************************)
EXTENDS QuatIdeals, TLC

CONSTANTS
    Represented,    \* norms asked of RepresentInteger
    Cofactor,       \* the prime cofactor of RandomIdealGivenNorm
    RandomNorms,    \* norms of the random ideals
    Shifts,         \* elements a random ideal is multiplied by
    Challenges,     \* ideals of norm a power of two, with their split parts
    Pairs,          \* norms of the secret and the commitment ideals of a response
    ResponseBits    \* the response has a norm below 2^ResponseBits

VARIABLES goal, left, half, found
wvars == <<goal, left, half, found>>

Failed == [failed |-> TRUE]

RootFloor(n) == CHOOSE r \in 0..n : r * r <= n /\ (r + 1) * (r + 1) > n
IsPrime(n) == n > 1 /\ \A d \in 2..RootFloor(n) : n % d # 0

\* cornacchia_prime: 0 <= x <= y with x^2 + y^2 = q.
SumsOfSquares(q) ==
    IF IsPrime(q) /\ (q = 2 \/ q % 4 = 1)
    THEN {z \in (0..RootFloor(q)) \X (0..RootFloor(q)) : z[1] <= z[2] /\ SumTwoSquares(z) = q}
    ELSE {}

----------------------------------------------------------------------------
\* RepresentInteger: the two last coordinates are drawn, the two first make
\* what remains a sum of two squares.  The second interval is never empty,
\* because the first leaves it one Char.
TargetNorm == IF goal.op = "random" THEN Cofactor * goal.n ELSE goal.n
RepresentDraw ==
    /\ goal.op \in {"represent", "random"} /\ half = Nothing /\ found = Nothing
    /\ left > 0
    /\ left' = left - 1
    /\ \E c \in 1..RootFloor(TargetNorm \div Char - 1) :
       \E d \in 1..RootFloor((TargetNorm - Char * c * c) \div Char) :
          LET sums == SumsOfSquares(TargetNorm - Char * (c * c + d * d))
          IN  \/ sums = {} /\ UNCHANGED half
              \/ \E z \in sums : half' = Elem(1, z[1], z[2], c, d)
    /\ UNCHANGED <<goal, found>>
RepresentFails ==
    /\ goal.op \in {"represent", "random"} /\ half = Nothing /\ found = Nothing
    /\ left = 0
    /\ found' = Failed
    /\ UNCHANGED <<goal, left, half>>
RepresentAnswers ==
    /\ goal.op = "represent" /\ half # Nothing /\ found = Nothing
    /\ found' = half
    /\ UNCHANGED <<goal, left, half>>

\* RandomIdealGivenNorm: the element is moved by an invertible one and by
\* the shift, modulo the norm.
Randomise ==
    /\ goal.op = "random" /\ half # Nothing /\ found = Nothing
    /\ \E v \in (1..goal.n) \X (1..goal.n) \X (1..goal.n) \X (1..goal.n) :
          LET r == Elem(1, v[1], v[2], v[3], v[4])
              g == ModO0(QMul(half, r), goal.n)
              h == ModO0(QMul(g, ModO0(goal.shift, goal.n)), goal.n)
          IN  /\ Gcd(Norm(r)[1], goal.n) = 1
              /\ found' = [gen |-> h] @@ CreateOdd(h, goal.n)
    /\ UNCHANGED <<goal, left, half>>

----------------------------------------------------------------------------
\* small_equivalent_coprime: a combination of the basis whose norm, divided
\* by the ideal's, is odd and, as coprimeTo is 0, 2 or a modulus, prime, no
\* more than odd, or coprime to it; the split part of the new ideal is moved
\* into the element.  An element with an integer factor in common with its
\* norm is left out: the ideals of the program have norms too large for the
\* combinations to reach one.
Suits(n, coprimeTo) ==
    /\ n % 2 = 1
    /\ IF coprimeTo = 0 THEN IsPrime(n) ELSE coprimeTo = 2 \/ Gcd(n, coprimeTo) = 1
Combine(B, v) ==
    [denom |-> 2,
     coord |-> [s \in 1..4 |-> B[1][s] * v[1] + B[2][s] * v[2] + B[3][s] * v[3] + B[4][s] * v[4]]]
Equivalents(I, coprimeTo) ==
    LET Unit == {-1, 0, 1}
        Drawn == {v \in Unit \X Unit \X Unit \X Unit : v # <<0, 0, 0, 0>>}
        elems == {x \in {Combine(Columns(I), v) : v \in Drawn} :
                     /\ Suits(Norm(x)[1] \div I.norm, coprimeTo)
                     /\ Gcd(ContentOf(x), Norm(x)[1] \div I.norm) = 1}
        created == {<<x, CreateOdd(Conj(x), Norm(x)[1] \div I.norm)>> : x \in elems}
        moved == {<<QMul(c[2].split, c[1]), c[2]>> : c \in created}
    IN  {[gen   |-> Normalize([m[1] EXCEPT !.coord = Over(@, Norm(m[2].split)[1])]),
          equiv |-> m[2].ideal] : m \in moved}
Enumerate ==
    /\ goal.op = "equivalent" /\ found = Nothing
    /\ found' \in Equivalents(goal.ideal, goal.coprimeTo)
    /\ UNCHANGED <<goal, left, half>>

----------------------------------------------------------------------------
\* The response: first the ideal of secret key and challenge, made prime,
\* then an element of the ball of its product with the commitment.
SkChall ==
    /\ goal.op = "response" /\ half = Nothing
    /\ half' \in Equivalents(Intersect(goal.chall.ideal, goal.sk, goal.chall.split), 0)
    /\ Gcd(half'.equiv.norm, goal.commit.norm) = 1
    /\ UNCHANGED <<goal, left, found>>

QfEval(G, v) ==
    LET Row(s) == G[s][1] * v[1] + G[s][2] * v[2] + G[s][3] * v[3] + G[s][4] * v[4]
    IN  v[1] * Row(1) + v[2] * Row(2) + v[3] * Row(3) + v[4] * Row(4)
\* Mutated form of Admitted: even norms are let through.
AnyNorm(q, radius) == q <= 2 * radius
\* QfEval is twice the norm, which must be odd.
Admitted(q, radius) == q % 4 # 0 /\ q <= 2 * radius
\* Coordinates of the elements of norm at most radius * n: two of them are
\* bounded by the norm, the other two are residues modulo 2n next to 0.
Ball(B, radius) ==
    LET n2 == B[1][1]
        k == RootFloor((2 * radius * n2) \div Char)
        At(c, d, t) == (c * B[3][t] + d * B[4][t]) \div n2
        Near(c, d) == {<<-At(c, d, 1) - a, -At(c, d, 2) - b, c, d>> : a, b \in {0, 1}}
    IN  {v \in UNION {Near(c, d) : c, d \in -k..k} :
            Admitted(QfEval(ProductGram(B), v), radius)}
SampleFromBall ==
    /\ goal.op = "response" /\ half # Nothing /\ found = Nothing
    /\ LET B == MulO0(half.equiv, goal.commit)
       IN  \E v \in Ball(B, 2 ^ ResponseBits - 1) :
              found' = [resp |-> Normalize(Combine(B, v)), norm |-> QfEval(ProductGram(B), v) \div 2]
    /\ UNCHANGED <<goal, left, half>>

----------------------------------------------------------------------------
Goals ==
    [op : {"represent"}, n : Represented]
    \cup [op : {"random"}, n : RandomNorms, shift : Shifts]
    \cup [op : {"equivalent"}, ideal : UNION {IdealsOf(n) : n \in Norms}, coprimeTo : {0, 2} \cup Norms]
    \cup UNION {[op : {"response"}, sk : IdealsOf(n[1]), commit : IdealsOf(n[2]), chall : Challenges] :
                   n \in Pairs}
DrawsOf(g) == CASE g.op = "represent" -> g.n \div Char
                [] g.op = "random"    -> (Cofactor * g.n) \div Char
                [] OTHER              -> 0

SearchIdle == goal = Nothing /\ left = 0 /\ half = Nothing /\ found = Nothing
SearchInit == goal \in Goals /\ left = DrawsOf(goal) /\ half = Nothing /\ found = Nothing
SearchNext ==
    goal # Nothing /\ (\/ RepresentDraw \/ RepresentFails \/ RepresentAnswers \/ Randomise
                       \/ Enumerate \/ SkChall \/ SampleFromBall)

----------------------------------------------------------------------------
Divided(x, n) == [x EXCEPT !.denom = @ * n]
\* I conj(gen) / n(I) is inside the other ideal.
Moves(I, gen, J) ==
    \A t \in 1..4 : LatticeHas(Columns(J), Divided(QMul(BasisElem(Columns(I), t), Conj(gen)), I.norm))
EquivalentRight(I, e, coprimeTo) ==
    /\ IsIdeal(e.equiv) /\ Suits(e.equiv.norm, coprimeTo)
    /\ LatticeHas(Columns(I), e.gen)
    /\ Norm(e.gen) = <<I.norm * e.equiv.norm, 1>>
    /\ Moves(I, e.gen, e.equiv)
RandomRight ==
    /\ IsIdeal(found.ideal) /\ found.ideal.norm * Norm(found.split)[1] = goal.n
    /\ LatticeHas(Columns(found.ideal),
                QMul(found.gen, [Conj(found.split) EXCEPT !.denom = Norm(found.split)[1]]))
ResponseRight ==
    /\ found.norm % 2 = 1 /\ found.norm < 2 ^ ResponseBits
    /\ Norm(found.resp) = <<found.norm * half.equiv.norm * goal.commit.norm, 1>>
    /\ \A t \in 1..4 : LatticeHas(Columns(goal.commit),
          Divided(QMul(BasisElem(Columns(half.equiv), t), found.resp), half.equiv.norm))

\* A search that answers answers rightly: the element has the norm and no
\* integer factor, the random ideal the norm asked for with its split part,
\* the equivalent ideal is the image of the ideal by its element, and the
\* response maps the challenge's ideal into the commitment's with an odd norm
\* within the bound.
SearchRight ==
    found \notin {Nothing, Failed} =>
        CASE goal.op = "represent"  -> Norm(found) = <<goal.n, 1>> /\ ContentOf(found) = 1
          [] goal.op = "random"     -> RandomRight
          [] goal.op = "equivalent" -> EquivalentRight(goal.ideal, found, goal.coprimeTo)
          [] goal.op = "response"   ->
                /\ ResponseRight
                /\ EquivalentRight(Intersect(goal.chall.ideal, goal.sk, goal.chall.split), half, 0)
============================================================================
