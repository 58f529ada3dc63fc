------------------------------ MODULE E0Ideals -----------------------------
(***************************************************************************)
(* From the kernel of an isogeny of E0 to its ideal (id2iso/mod.rs): the   *)
(* endomorphisms act on a basis of the torsion as matrices, and the ideal  *)
(* of the point v[1] P0 + v[2] Q0 is found by solving for a generator that *)
(* kills it.  A generator divisible by 1 + i has no inert form: the factor *)
(* is taken out and returned beside the ideal.                             *)
(***************************************************************************)
EXTENDS QuatIdeals

CONSTANTS
    Torsion,        \* largest exponent of the torsion
    Actions         \* matrices of i, j and the generators of O0, modulo 2^Torsion

ASSUME TorsionAssumption == Torsion \in Nat \ {0}

VARIABLES point, kernel
kvars == <<point, kernel>>

Eval(M, v) == [r \in 1..2 |-> M[r][1] * v[1] + M[r][2] * v[2]]
Det2(M) == M[1][1] * M[2][2] - M[1][2] * M[2][1]
\* The inverse modulo n, for an invertible determinant.
InvMod(M, n) ==
    LET k == Inverse0(Det2(M) % n, n)
        adjugate == <<<<M[2][2], -M[1][2]>>, <<-M[2][1], M[1][1]>>>>
    IN  [r \in 1..2 |-> [c \in 1..2 |-> (adjugate[r][c] * k) % n]]

\* content * primitive, the generators' matrices combined.
ActionMatrix(theta, f) ==
    LET n == 2 ^ f
        c == Residues(MakePrimitive(theta), n)
        Entry(r, s) == (IF r = s THEN c[1] ELSE 0) + Actions.gen2[r][s] * c[2]
                       + Actions.gen3[r][s] * c[3] + Actions.gen4[r][s] * c[4]
    IN  [r \in 1..2 |-> [s \in 1..2 |-> ((Entry(r, s) % n) * ContentOf(theta)) % n]]

\* Mutated form of KernelMatrix: the wrong generator's matrix is added.
WrongGenerator(v, n) ==
    LET w == Eval(Actions.j, v)
        z == Eval(Actions.gen3, v)
    IN  <<<<v[1], (w[1] + z[1]) % n>>, <<v[2], (w[2] + z[2]) % n>>>>

\* a v + b (j + (1 + k)/2) v = i v, for a generator a - i + b (j + (1 + k)/2).
KernelMatrix(v, n) ==
    LET w == Eval(Actions.j, v)
        z == Eval(Actions.gen4, v)
    IN  <<<<v[1], (w[1] + z[1]) % n>>, <<v[2], (w[2] + z[2]) % n>>>>
KernelGenerator(v, n) ==
    LET ab == Residues(Eval(InvMod(KernelMatrix(v, n), n), Eval(Actions.i, v)), n)
    IN  Elem(2, 2 * ab[1] + ab[2], -2, 2 * ab[2], ab[2])

\* kernel_dlogs_to_ideal_even.
KernelIdeal(v, f) ==
    LET gen == KernelGenerator(v, 2 ^ f)
        turned == QMul(gen, Elem(1, 1, 1, 0, 0))
        m == ContentOf(turned)
    IN  IF ~Invertible(Det2(KernelMatrix(v, 2 ^ f)), 2 ^ f) THEN Nothing
        ELSE IF Even(m)
        THEN [ideal |-> CreatePowTwo([turned EXCEPT !.coord = Over(@, m)], 2 ^ (f - 1)),
              split |-> GaussElem(<<1, -1>>)]
        ELSE [ideal |-> CreatePowTwo(gen, 2 ^ f), split |-> OneElem]

Points == UNION {[f : {f}, v : (0..(2 ^ f - 1)) \X (0..(2 ^ f - 1))] : f \in 1..Torsion}

KernelIdle == point = Nothing /\ kernel = Nothing
KernelInit == point \in Points /\ kernel = Nothing
KernelNext ==
    /\ point # Nothing /\ kernel = Nothing
    /\ kernel' = [answer |-> KernelIdeal(point.v, point.f)]
    /\ UNCHANGED point

----------------------------------------------------------------------------
\* A point of full order has an ideal, any other has none; the ideal times
\* its split part has the norm 2^f, and every element of the product kills
\* the point.
KernelRight ==
    kernel # Nothing =>
        LET n == 2 ^ point.f
            I == kernel.answer.ideal
            s == kernel.answer.split
        IN  IF \A r \in 1..2 : Even(point.v[r])
            THEN kernel.answer = Nothing
            ELSE /\ kernel.answer # Nothing /\ I # Nothing
                 /\ IsIdeal(I) /\ I.norm * Norm(s)[1] = n
                 /\ \A t \in 1..4 :
                       Residues(Eval(ActionMatrix(QMul(BasisElem(Columns(I), t), s), point.f),
                                     point.v), n) = <<0, 0>>
============================================================================
