----------------------------- MODULE Verifier -----------------------------
(***************************************************************************)
(* The verification protocol of crates/verify/src/sqisign.rs, reduced to   *)
(* what its checks tell apart: the basis-change matrix of a signature and  *)
(* the environment that decides every step of curve arithmetic.            *)
(*                                                                         *)
(* The environment of a verification is the record                         *)
(*   key       the public key is valid and its hint gives a basis          *)
(*   state     the challenge curve and both canonical bases are found      *)
(*   pairing   the second pairing is a power of the first                  *)
(*   signed    the matrix the signer computed, for this key, this          *)
(*             auxiliary curve, this challenge and this message            *)
(*   message   whether the verifier holds the message that was signed      *)
(* None of it depends on the matrix under test, which is why the two       *)
(* formats and the prepared key can be compared at all.                    *)
(*                                                                         *)
(* verify_batch is a loop over the items zipped with the caller's verdict  *)
(* slice, which may be shorter or longer than the items and holds whatever *)
(* the caller left in it.                                                  *)
(***************************************************************************)
EXTENDS Integers, Sequences, FiniteSets, SequencesExt

CONSTANTS
    R,         \* RESPONSE_BITS
    Exponents, \* the exponents Pow2 is defined on, 0..n
    Pow2,      \* powers of two
    MaxItems   \* the longest batch and the longest verdict slice

ASSUME PowAssumption ==
    /\ R \in Nat /\ R >= 3
    /\ Exponents \subseteq Nat
    /\ {0, 1, 2, R, R + 1, R + 2} \subseteq Exponents
    /\ \A k \in Exponents : \A j \in 0..k : j \in Exponents
    /\ Pow2 \in [Exponents -> Nat \ {0}]
    /\ Pow2[0] = 1 /\ Pow2[1] = 2
    /\ \A i, j \in Exponents : i + j \in Exponents => Pow2[i + j] = Pow2[i] * Pow2[j]

ASSUME MaxItemsAssumption == MaxItems \in Nat

Extra == 2                    \* HD_EXTRA_TORSION

\* M_00, M_01, M_10, M_11 in the order the code scans and encodes them.
Places   == 1..4
Matrices == [Places -> Nat]

Bit(x, k) == (x \div Pow2[k]) % 2

Det(m)    == m[1] * m[4] - m[2] * m[3]
OddDet(m) == Det(m) % 2 = 1

\* check_canonical_basis_change_matrix: all entries below the bound, and up
\* to the first one that is neither 0 nor mid none is above mid.
Canonical(m) ==
    LET mid == Pow2[R + Extra - 1]
    IN  /\ \A i \in Places : m[i] < Pow2[R + Extra]
        /\ \A i \in Places :
               (\A j \in 1..(i - 1) : m[j] \in {0, mid}) => m[i] <= mid

---------------------------------------------------------------------------
(* What the curve arithmetic decides.                                      *)

Low(m, k) == [i \in Places |-> m[i] % Pow2[k]]

\* The first column scaled by 1 + 2^R: the kernel's other presentation.
Scaled(m) == [i \in Places |-> IF i \in {1, 3} THEN m[i] * (1 + Pow2[R]) ELSE m[i]]

\* The chain to the commitment curve and the comparison of the challenges,
\* finish: of the matrices that agree with the signer's modulo 2^R it takes
\* two, and it never sees the bits above R.
Accepts(env, m) ==
    /\ env.message
    /\ \/ Low(m, R + 1) = Low(env.signed, R + 1)
       \/ Low(m, R + 1) = Low(Scaled(env.signed), R + 1)

\* det M modulo 2^R, as the two pairings give it on good bases.
PairedDet(env) == Det(env.signed) % Pow2[R]

---------------------------------------------------------------------------
(* verify, verify_prepared and their common verify_inner.                  *)

VerifyInner(env, m) == Canonical(m) /\ env.state /\ Accepts(env, m)
Verify(env, m)      == env.key /\ VerifyInner(env, m)

---------------------------------------------------------------------------
(* verify_batch.                                                           *)

VARIABLES
    items,     \* what each item is: a malformed encoding, a bad or a good signature
    given,     \* the verdict slice as the caller handed it in
    out,       \* the verdict slice
    accepted,  \* the count so far
    turn       \* turns of the loop taken, -1 before the call

bvars == <<items, given, out, accepted, turn>>

Kinds == {"malformed", "bad", "good"}

\* signature_from_bytes then verify_prepared on one item.
Verdict(kind) == kind = "good"

BatchInit == items = <<>> /\ given = <<>> /\ out = <<>> /\ accepted = 0 /\ turn = -1

BatchCall(its, slice) ==
    /\ turn = -1
    /\ items' = its
    /\ given' = slice
    /\ out' = slice
    /\ accepted' = 0
    /\ turn' = 0

MinLen(s, t) == IF Len(s) < Len(t) THEN Len(s) ELSE Len(t)

\* Mutated form of Counted: what the slice held before is counted.
CountedBefore(k) == IF out[k] THEN 1 ELSE 0

Counted(k) == IF Verdict(items[k]) THEN 1 ELSE 0

\* The loop ends with the shorter of the two.
BatchTurn ==
    /\ turn >= 0
    /\ turn < MinLen(items, out)
    /\ out' = [out EXCEPT ![turn + 1] = Verdict(items[turn + 1])]
    /\ accepted' = accepted + Counted(turn + 1)
    /\ turn' = turn + 1
    /\ UNCHANGED <<items, given>>

BatchNext ==
    \/ /\ turn = -1
       /\ \E its \in BoundedSeq(Kinds, MaxItems), slice \in BoundedSeq(BOOLEAN, MaxItems) :
              BatchCall(its, slice)
    \/ BatchTurn

BatchSpec == BatchInit /\ [][BatchNext]_bvars

\* Once the loop is done the slice holds the items' verdicts where it has
\* room for them, beyond the items it is as the caller left it, and the count
\* is of the verdicts written: an item that found no room is not counted, and
\* a verdict left over from before never is.
BatchVerdicts ==
    turn >= 0 /\ turn = MinLen(items, out) =>
        /\ Len(out) = Len(given)
        /\ \A k \in 1..Len(out) :
               out[k] = IF k <= Len(items) THEN Verdict(items[k]) ELSE given[k]
        /\ accepted = Cardinality({k \in 1..MinLen(items, out) : out[k]})
===========================================================================
