------------------------------ MODULE HdVerify ----------------------------
(***************************************************************************)
(* One compact signature from the sampler to the verdict.  The signer      *)
(* (sqisign-rs/src/compact.rs) draws a response until its degree is good,  *)
(* reads three scalars off the response's matrix on the 2^f-torsion and    *)
(* sends them with the degree (hd/wire.rs); the verifier                   *)
(* (hd/self_contained.rs) recovers the fourth scalar, solves the norm      *)
(* equation, completes the two starting matrices one column at a time and  *)
(* forms the gluing's.  What the curves answer is a choice, and right for  *)
(* a signature that was not replaced on its way.                           *)
(***************************************************************************)
EXTENDS Kani

CONSTANTS
    Lambda,        \* the challenge isogeny has degree 2^Lambda
    FullTorsion,   \* f
    MaxTries,      \* MAX_RESPONSE_TRIES
    GluingLimit,   \* MAX_GLUING_M
    Scalars,       \* entries of a response's matrix
    Challenges,    \* challenge scalars
    Logarithms,    \* of the commitment's pairing to the challenge's, in a forgery
    WireDegrees,   \* degrees put on the wire by somebody else
    WireScalars    \* scalars put on the wire by somebody else

ASSUME HdAssumption ==
    /\ Lambda \in Nat /\ FullTorsion >= Lambda + Rescaled
    /\ \A w \in Logarithms : w % 2 = 1

VARIABLES
    stage,      \* where the signature is
    stats,      \* samples drawn, primality tests made
    response,   \* what the signer knows: the matrix, the challenge, the logarithm
    sent,       \* q, a, b and c_or_d on the wire
    images,     \* the scalars of both response images, as the verifier has them
    setup,      \* q4, a1, a2 and m
    columns,    \* the columns of the completion under way
    matrices,   \* M1_0, M2, M1 and the two gluings' numerators, as they come
    outcome

hvars == <<stage, stats, response, sent, images, setup, columns, matrices, outcome>>

Forged == response = None
TwoF == 2 ^ FullTorsion

HdInit ==
    /\ stage = "idle" /\ outcome = "none"
    /\ stats = [samples |-> 0, tests |-> 0]
    /\ response = None /\ sent = None /\ images = None /\ setup = None
    /\ columns = <<>> /\ matrices = <<>>

----------------------------------------------------------------------------
(* The signer. *)
IsPrime(n) == n > 1 /\ \A d \in 2..(n - 1) : n % d # 0

\* The seed, the commitment and the challenge ideal, each of which may fail.
Commit ==
    /\ stage = "idle"
    /\ \/ stage' = "sampling" /\ outcome' = outcome
       \/ /\ stage' = "failed"
          /\ outcome' \in {"Entropy", "CommitmentBasis", "Challenge", "NoGoodResponse"}
    /\ UNCHANGED <<stats, response, sent, images, setup, columns, matrices>>

\* Mutated form of Tested: the residue modulo 4 is not looked at.
OddTested(q) == q # 0 /\ q % 2 = 1

Tested(q) == q # 0 /\ q % 2 = 1 /\ q % 4 = 3
GoodDegree(q) == Tested(q) /\ IsPrime(2 ^ Embed - q)

\* One sample of the ball: nothing, or an element of norm q.
Sample ==
    /\ stage = "sampling"
    /\ stats.samples < MaxTries
    /\ \/ /\ stats' = [stats EXCEPT !.samples = @ + 1]
          /\ UNCHANGED <<stage, sent>>
       \/ \E q \in 0..(2 ^ Embed - 1) :
             /\ stats' = [samples |-> stats.samples + 1,
                          tests   |-> stats.tests + (IF Tested(q) THEN 1 ELSE 0)]
             /\ IF GoodDegree(q) THEN stage' = "found" /\ sent' = [q |-> q]
                ELSE UNCHANGED <<stage, sent>>
    /\ UNCHANGED <<response, images, setup, columns, matrices, outcome>>

OutOfSamples ==
    /\ stage = "sampling" /\ stats.samples = MaxTries
    /\ stage' = "failed" /\ outcome' = "NoGoodResponse"
    /\ UNCHANGED <<stats, response, sent, images, setup, columns, matrices>>

\* The matrix of the response composed with the dual of the challenge, whose
\* kernel is P + [k] Q: column by column <<x, k x + 2^Lambda y>>.
Matrix(a, b, c, d, k) ==
    <<<<a % TwoF, c % TwoF>>,
      <<(k * a + 2 ^ Lambda * b) % TwoF, (k * c + 2 ^ Lambda * d) % TwoF>>>>

ExactDiv(x) == IF x % 2 ^ Lambda # 0 THEN None ELSE <<(x \div 2 ^ Lambda) % Torsion2>>

\* The scalar sent of the second column.
Selected(m, a, b, vd) == IF a % 2 = 1 THEN <<m[1][2] % Torsion2>> ELSE ExactDiv(vd)

\* a, b and c_or_d, each None where a division is not exact.
SignedScalars(m, k) ==
    LET a == m[1][1] % Torsion2
        b == ExactDiv((m[2][1] - m[1][1] * k) % TwoF)
    IN  <<<<a>>, b, IF b = None THEN None
                    ELSE Selected(m, a, b[1], (m[2][2] - m[1][2] * k) % TwoF)>>

\* The logarithm is the one that makes the determinant the degree's.
LogOf(det, q) == (det * InvPow2(q, TwoF)) % TwoF

Respond ==
    /\ stage = "found"
    /\ \E a, b, c, d \in Scalars, k \in Challenges :
          LET s == SignedScalars(Matrix(a, b, c, d, k), k)
              exact == None \notin {s[1], s[2], s[3]}
          IN  /\ (a * d - b * c) % 2 = 1
              /\ response' = [entries |-> <<a, b, c, d>>, log |-> LogOf(a * d - b * c, sent.q)]
              /\ stage' = IF exact THEN "wire" ELSE "failed"
              /\ outcome' = IF exact THEN outcome ELSE "NotDivisible"
              /\ sent' = [q |-> sent.q, a |-> s[1], b |-> s[2], cd |-> s[3]]
    /\ stats' = [samples |-> 0, tests |-> 0]
    /\ UNCHANGED <<images, setup, columns, matrices>>

\* Another signature arrives: any bytes of the right length.
Replace ==
    /\ stage = "wire" /\ ~Forged
    /\ response' = None
    /\ \E q \in WireDegrees, a, b, cd \in WireScalars :
          sent' = [q |-> q, a |-> <<a>>, b |-> <<b>>, cd |-> <<cd>>]
    /\ UNCHANGED <<stage, stats, images, setup, columns, matrices, outcome>>

----------------------------------------------------------------------------
(* The verifier. *)
Ends(why) ==
    /\ stage' = "done" /\ outcome' = why
    /\ sent' = None /\ images' = None /\ setup' = None
    /\ columns' = <<>> /\ matrices' = <<>>

\* read_q and read_scalar.
InRange(wire) ==
    /\ wire.q < 2 ^ Embed
    /\ \A x \in {wire.a[1], wire.b[1], wire.cd[1]} : x < Torsion2

Parse ==
    /\ stage = "wire"
    /\ IF InRange(sent)
       THEN stage' = "parsed" /\ UNCHANGED <<sent, images, setup, columns, matrices, outcome>>
       ELSE Ends("MalformedInput")
    /\ UNCHANGED <<stats, response>>

\* inv_2r: from one right bit, doubled until r.
newton2r[a \in Nat, inv \in Nat, prec \in Nat] ==
    IF prec >= Rescaled THEN inv
    ELSE newton2r[a, (inv * ((2 - a * inv) % Torsion2)) % Torsion2, 2 * prec]
Inv2r(a) == newton2r[a % Torsion2, 1, 1]

\* recover_response_cd from a d - b c = log q.
RecoverCD(a, b, cd, q, log) ==
    LET kq == (log * (q % Torsion2)) % Torsion2
    IN  IF a % 2 = 1 THEN <<cd, (Inv2r(a) * ((kq + b * cd) % Torsion2)) % Torsion2>>
        ELSE <<(Inv2r(b) * ((a * cd - kq) % Torsion2)) % Torsion2, cd>>

\* The challenge, the commitment's basis and the logarithm, or a rejection.
RecoverImages ==
    /\ stage = "parsed"
    /\ \/ \E log \in (IF Forged THEN Logarithms ELSE {response.log}) :
             /\ stage' = "recovered"
             /\ images' = <<sent.a[1], sent.b[1]>> \o RecoverCD(sent.a[1], sent.b[1], sent.cd[1], sent.q, log)
             /\ setup' = [log |-> log]
             /\ UNCHANGED <<sent, columns, matrices, outcome>>
       \/ Forged /\ \E why \in {"ChallengeRecovery", "ResponseRecovery"} : Ends(why)
    /\ UNCHANGED <<stats, response>>

\* From here on only the degree matters, and who sent it.
Norm2 ==
    /\ stage = "recovered"
    /\ LET ab == NormEquation(sent.q)
           m == TrailingZeros(ab[2])
       IN  IF ab = None THEN Ends("NormEquation") /\ response' = response
           ELSE IF m > GluingLimit THEN Ends("GluingBound") /\ response' = response
           ELSE /\ stage' = "F1"
                /\ setup' = [q4 |-> sent.q % 2 ^ LowWidth, q |-> sent.q, a1 |-> ab[1], a2 |-> ab[2], m |-> m]
                /\ sent' = None /\ images' = None
                /\ response' = IF Forged THEN None ELSE [signed |-> TRUE]
                /\ UNCHANGED <<columns, matrices, outcome>>
    /\ UNCHANGED stats

Kernel == IF stage = "F1" THEN KernelF1(setup.a1, setup.a2, setup.q4)
          ELSE LeftProduct(MatrixF(setup.a1, setup.a2, setup.q4), matrices[1], Torsion2)

\* complete_symplectic_dim4, one column at a time; `?' ends the chain.
Complete ==
    /\ stage \in {"F1", "F2"} /\ Len(columns) < 4
    /\ LET x == CompletionColumn(Kernel, columns, Torsion2)
       IN  IF x = None THEN Ends("ChainFailed")
           ELSE columns' = Append(columns, x) /\ UNCHANGED <<stage, sent, images, setup, matrices, outcome>>
    /\ UNCHANGED <<stats, response>>

Completion ==
    /\ stage \in {"F1", "F2"} /\ Len(columns) = 4
    /\ matrices' = Append(matrices, Completed(columns, Kernel, Torsion2))
    /\ columns' = <<>>
    /\ stage' = IF stage = "F1" THEN "F2" ELSE "start"
    /\ UNCHANGED <<stats, response, sent, images, setup, outcome>>

\* M1: the left half of M1_0, and minus the dual's image of M2's.
FirstMatrix(m10, br) ==
    Square8(LAMBDA r, j : (IF j <= 4 THEN m10[r][j] ELSE -br[r][j - 4]) % Torsion2)
Start ==
    /\ stage = "start"
    /\ matrices' = Append(matrices, FirstMatrix(matrices[1],
                       LeftProduct(MatrixFDual(setup.a1, setup.a2, setup.q4), matrices[2], Torsion2)))
    /\ stage' = "glue"
    /\ UNCHANGED <<stats, response, sent, images, setup, columns, outcome>>

Glue ==
    /\ stage = "glue" /\ Len(matrices) < 5
    /\ LET first == Len(matrices) = 3
       IN  matrices' = Append(matrices, GluingNumerators(setup.a1, setup.a2, setup.q4, setup.m,
                                            matrices[IF first THEN 3 ELSE 2], IF first THEN 1 ELSE -1))
    /\ UNCHANGED <<stage, stats, response, sent, images, setup, columns, outcome>>

\* The canonical bases, the chains, the middle codomain and the image.
Decide ==
    /\ stage = "glue" /\ Len(matrices) = 5
    /\ \/ Ends("accept")
       \/ /\ Forged
          /\ \E why \in {"BadCurve", "CanonicalCom", "CanonicalChal", "ChainFailed",
                         "MiddleCodomainMismatch", "HdImageMismatch"} : Ends(why)
    /\ UNCHANGED <<stats, response>>

HdNext ==
    \/ Commit \/ Sample \/ OutOfSamples \/ Respond \/ Replace
    \/ Parse \/ RecoverImages \/ Norm2 \/ Complete \/ Completion \/ Start \/ Glue \/ Decide

HdSpec == HdInit /\ [][HdNext]_hvars

----------------------------------------------------------------------------
Entry(t) == response.entries[t] % Torsion2
Honest == ~Forged

\* The recovered scalars: of a signature as signed, the response's own
\* matrix modulo 2^r; of any other with an odd scalar in its first column,
\* a matrix of the determinant the two pairings demand.
ScalarsRight ==
    stage = "recovered" =>
        /\ Honest => images = <<Entry(1), Entry(2), Entry(3), Entry(4)>>
        /\ (images[1] % 2 = 1 \/ images[2] % 2 = 1) =>
               (images[1] * images[4] - images[2] * images[3] - setup.log * sent.q) % Torsion2 = 0

\* The signer's divisions by 2^Lambda are exact, and what it sends is in
\* range; it stops at its budget, never having tested more than it drew.
SignerRight ==
    /\ outcome # "NotDivisible"
    /\ stats.tests <= stats.samples /\ stats.samples <= MaxTries
    /\ stage = "wire" /\ Honest => InRange(sent)

\* The degree the signer took is one the verifier's norm equation answers
\* for: its signature is refused only where a2 is 2^GluingLimit or rarer.
SignedAccepted ==
    stage = "done" /\ Honest => outcome \in {"accept", "GluingBound"}

\* Signer and verifier agree on a response and on the degrees they can use.
ResponseRight == ScalarsRight /\ SignerRight /\ SignedAccepted

\* The two squares, a1 odd, and no count of steps below zero.
NormRight ==
    setup # None /\ stage \notin {"recovered"} =>
        /\ setup.a1 * setup.a1 + setup.a2 * setup.a2 = 2 ^ Embed - setup.q
        /\ setup.a1 % 2 = 1
        /\ setup.a2 % 2 ^ setup.m = 0 /\ (setup.a2 \div 2 ^ setup.m) % 2 = 1
        /\ Rescaled - 3 - setup.m >= 0 /\ Half - setup.m - 1 > 0

\* The matrices found are symplectic modulo 2^r, M1 with the kernel that
\* the dual of F brings back from M2 as well as M1_0 with the kernel of F1.
StartRight == \A t \in 1..Len(matrices) : t <= 3 => Symplectic(matrices[t], Torsion2)

\* The Weil pairing of the dimension-2 kernel's generators vanishes on the
\* 2^(m+3)-torsion, S's pairing with R being the power q4 of Q's with P.
Isotropic(k, q, M) ==
    LET det(c) == k[1][c] * k[2][c + 1] - k[1][c + 1] * k[2][c]
    IN  (det(1) + q * det(3)) % M = 0

\* The gluing: its numerators divide by 2^m, no product leaves an i128, the
\* changes of basis are symplectic modulo 4 and the kernels isotropic.
GluingRight ==
    stage = "glue" =>
        /\ \A sign \in {1, -1} :
               Isotropic(KernelDim2(setup.a1, setup.a2, setup.m, sign), setup.q4, 2 ^ (setup.m + 3))
        /\ Symplectic(GluingDim2F1(setup.a1, setup.a2, setup.q4), 4)
        /\ Symplectic(GluingDim2F2(setup.a1, setup.a2, setup.q4), 4)
        /\ \A t \in 4..Len(matrices) :
               /\ \A j \in 5..8, r \in 1..4 : matrices[t][j][r] % 2 ^ setup.m = 0
               /\ GluingFits(setup.a1, setup.a2, setup.q4, setup.m, matrices[t])
               /\ Symplectic(GluingDim4(matrices[t], setup.m), 4)

\* From any degree the norm equation answers for, the embedding's integer
\* matrices are what Kani's lemma needs.
EmbeddingRight == NormRight /\ StartRight /\ GluingRight
============================================================================
