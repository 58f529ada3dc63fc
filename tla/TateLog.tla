------------------------------ MODULE TateLog -----------------------------
(***************************************************************************)
(* ec_dlog_2_tate of crates/verify/src/ec/pairing.rs: the coordinates of a *)
(* basis (R, S) of E[2^e] on a basis (P, Q) of E[2^F].  The points are     *)
(* given up to sign, so every pairing is known up to the sign that the     *)
(* difference it is computed from stands for, and the routine has to keep  *)
(* the four signs equal.                                                   *)
(***************************************************************************)
EXTENDS KummerLine, Sequences

CONSTANTS TateBases,   \* pairs <<P, Q>>, bases of E[2^F]
          Subgroups    \* values of e

Det(u, v) == u[1] * v[2] - u[2] * v[1]

ASSUME TateAssumption ==
    /\ TateBases \subseteq Vectors \X Vectors
    /\ \A b \in TateBases : Det(b[1], b[2]) % 2 = 1
    /\ Subgroups \subseteq 1..F

VARIABLES
    query,    \* P, Q, R, S and e
    diffs,    \* x(P - R), x(P - S), x(R - Q), x(S - Q) as computed
    stage,    \* idle, given, differences, done
    answer    \* r1, r2, s1, s2; or Garbage

tvars == <<query, diffs, stage, answer>>

\* What is left when a batched inversion met a 0: values of no meaning.
Garbage == <<>>

\* (r1, r2) stand for [2^(F-e)] ([r1] P + [r2] Q).
Lift(pq, e, r) == Times(2 ^ (F - e), Plus(Times(r[1], pq[1]), Times(r[2], pq[2])))

\* R and S are a basis of E[2^e].
Queries(e) ==
    LET Coordinates == (0..(2 ^ e - 1)) \X (0..(2 ^ e - 1))
    IN  {q \in [pq : TateBases, e : {e}, r : Coordinates, s : Coordinates] :
            Det(q.r, q.s) % 2 = 1}

PointP == Point(query.pq[1])
PointQ == Point(query.pq[2])
PointR == Point(Lift(query.pq, query.e, query.r))
PointS == Point(Lift(query.pq, query.e, query.s))
DiffPQ == Point(Minus(query.pq[1], query.pq[2]))
DiffRS == Point(Minus(Lift(query.pq, query.e, query.r), Lift(query.pq, query.e, query.s)))

\* Mutated form of Shared: any root of the first biquadratic.
AnyRoot(p1, p2, p1q, p2q) ==
    IF Undefined \in {p1q, p2q} THEN Undefined ELSE CHOOSE d \in Sums(p1, p2) : TRUE

\* The common root of the biquadratics of (P1, P2) and (P1q, P2q); both
\* coordinates are 0 when all roots are common or the common root is x = 0.
Shared(p1, p2, p1q, p2q) ==
    LET a == Sums(p1, p2)
        b == Sums(p1q, p2q)
    IN  IF Undefined \in {p1q, p2q} \/ a = b \/ Origin \in a \cap b \/ a \cap b = {}
        THEN Undefined
        ELSE CHOOSE d \in a \cap b : TRUE

TateInit ==
    /\ \E e \in Subgroups : query \in Queries(e)
    /\ diffs = <<>> /\ stage = "given" /\ answer = Garbage

\* compute_shared_difference_points: which square root sqrt_verify gives
\* decides between P - R and P + R.
Differences ==
    /\ stage = "given"
    /\ \E pmr \in Sums(PointP, PointR) :
          LET rmq == Shared(PointR, PointQ, pmr, DiffPQ)
              pms == Shared(PointP, PointS, pmr, DiffRS)
          IN  diffs' = [pmr |-> pmr, pms |-> pms, rmq |-> rmq, smq |-> Shared(PointS, PointQ, pms, DiffPQ)]
    /\ stage' = "differences"
    /\ UNCHANGED <<query, answer>>

\* cubical_normalization_dlog inverts every Z, and X of P and Q, in a batch.
Inverted == /\ Origin \notin {PointP, PointQ}
            /\ \A d \in {PointP, PointQ, PointR, PointS, DiffPQ, diffs.pmr, diffs.pms, diffs.rmq, diffs.smq} : ~IsZero(d)

\* The logarithm the pairing of u and v gives with their difference d, when
\* it is n for d = u - v: n, or -n for d = u + v.
Signed(u, v, d, n) ==
    IF d = Point(Minus(u, v)) THEN n ELSE (-n) % 2 ^ query.e

\* tate_dlog_partial: t(R, P) gives r2 from P - R, t(R, Q) gives r1 from
\* R - Q, and likewise for S.
Pairings ==
    /\ stage = "differences"
    /\ LET p == query.pq[1]
           q == query.pq[2]
           r == Lift(query.pq, query.e, query.r)
           s == Lift(query.pq, query.e, query.s)
       IN  answer' = IF ~Inverted THEN Garbage
                     ELSE <<Signed(r, q, diffs.rmq, query.r[1]), Signed(p, r, diffs.pmr, query.r[2]),
                            Signed(s, q, diffs.smq, query.s[1]), Signed(p, s, diffs.pms, query.s[2])>>
    /\ stage' = "done"
    /\ UNCHANGED <<query, diffs>>

TateNext == Differences \/ Pairings

TateSpec == TateInit /\ [][TateNext]_tvars

---------------------------------------------------------------------------
(* Properties.                                                             *)

\* The four logarithms are those of (R, S), or all four are those of
\* (-R, -S): one sign for the two points, so that the matrix callers build
\* maps Kummer points to Kummer points.  It is lost to a degenerate
\* difference in the 2-torsion and in the full torsion only.
TateRight ==
    stage = "done" =>
        LET m == <<query.r[1], query.r[2], query.s[1], query.s[2]>>
        IN  \/ answer = m
            \/ answer = [i \in 1..4 |-> (-m[i]) % 2 ^ query.e]
            \/ answer = Garbage /\ query.e \in {1, F}
===========================================================================
