----------------------- MODULE CompressedSignature ------------------------
(***************************************************************************)
(* The compressed signature of crates/verify/src/compressed.rs and its     *)
(* typed interface in types.rs: a signature is compressed, travels as      *)
(* bytes, is decoded, its matrix recovered from the determinant the two    *)
(* pairings give, and verified.  The inversion modulo 2^R is the code's    *)
(* Newton iteration, one action for a turn of its loop.                    *)
(*                                                                         *)
(* The other fields (curve, challenge, hints) are carried through          *)
(* unchanged by every operation and are part of the environment.  Scalars  *)
(* are the numbers their limbs stand for.                                  *)
(***************************************************************************)
EXTENDS Verifier

CONSTANTS
    Entries,     \* values a matrix entry of a signer takes
    Replaced,    \* values an entry of a received signature takes instead
    WireEntries, \* values a compressed entry takes on the wire
    WireBits     \* values of the byte `bits' on the wire

ASSUME WireAssumption ==
    Entries \subseteq Nat /\ Replaced \subseteq Nat /\ WireEntries \subseteq Nat /\ WireBits \subseteq Nat

VARIABLES
    pc,        \* which operation comes next
    env,       \* the environment of the verification (see Verifier)
    sig,       \* the matrix of the standard signature that is compressed
    comp,      \* the compressed signature
    det,       \* the determinant the pairings gave
    inv,       \* x of inv_mod_2exp
    prec,      \* bits of inv_mod_2exp
    back,      \* the recovered matrix
    verdict    \* of verify_compressed: "none", "accept", "reject"

vars == <<pc, env, sig, comp, det, inv, prec, back, verdict>>

Zeros  == [i \in Places |-> 0]
NoComp == [m00 |-> 0, m01 |-> 0, mvar |-> 0, bits |-> 0]

Signed == {m \in [Places -> Entries] : Canonical(m) /\ OddDet(m)}

Init ==
    /\ pc = "sign"
    /\ env = [key |-> TRUE, state |-> TRUE, pairing |-> TRUE, message |-> TRUE, signed |-> Zeros]
    /\ sig = Zeros /\ comp = NoComp /\ back = Zeros
    /\ det = 0 /\ inv = 0 /\ prec = 0
    /\ verdict = "none"

\* A signer makes a signature; which steps of the verification will succeed
\* is decided with it.
Sign(m, e) ==
    /\ pc = "sign"
    /\ env' = e
    /\ sig' = m
    /\ pc' = "signed"
    /\ UNCHANGED <<comp, det, inv, prec, back, verdict>>

\* Signature::from_bytes takes any entries of the right width: the matrix is
\* checked by the verifier, not by the decoder.
Receive(i, v) ==
    /\ pc = "signed"
    /\ sig' = [sig EXCEPT ![i] = v]
    /\ pc' = "received"
    /\ UNCHANGED <<env, comp, det, inv, prec, back, verdict>>

---------------------------------------------------------------------------
(* Compression.                                                            *)

\* Mutated forms: the four bits are those above the ones the chain reads;
\* the second entry of the pivot's row is sent whatever the pivot.
BitsAbove(m)   == Bit(m[1], R + 1) + 2 * Bit(m[2], R + 1) + 4 * Bit(m[3], R + 1) + 8 * Bit(m[4], R + 1)
AlwaysThird(m) == m[3]

Bits(m)     == Bit(m[1], R) + 2 * Bit(m[2], R) + 4 * Bit(m[3], R) + 8 * Bit(m[4], R)
Variable(m) == IF m[1] % 2 = 1 THEN m[3] ELSE m[4]

Compressed(m) == [m00 |-> m[1] % Pow2[R], m01 |-> m[2] % Pow2[R],
                  mvar |-> Variable(m) % Pow2[R], bits |-> Bits(m)]

\* compress returns None on an even determinant, and Signature::compress
\* takes that None for impossible.
Compress ==
    /\ pc \in {"signed", "received"}
    /\ IF OddDet(sig)
       THEN comp' = Compressed(sig) /\ pc' = "compressed"
       ELSE comp' = comp /\ pc' = "panicked"
    /\ UNCHANGED <<env, sig, det, inv, prec, back, verdict>>

\* One field of the encoding changes on its way.
Fields == {"m00", "m01", "mvar", "bits"}

Change(f, v) ==
    /\ pc = "compressed"
    /\ sig = env.signed
    /\ comp[f] # v
    /\ comp' = [comp EXCEPT ![f] = v]
    /\ pc' = "changed"
    /\ UNCHANGED <<env, sig, det, inv, prec, back, verdict>>

\* compressed_from_bytes: entries reduced, an odd pivot, four bits.
WellFormed(c) == /\ c.m00 < Pow2[R] /\ c.m01 < Pow2[R] /\ c.mvar < Pow2[R]
                 /\ c.m00 % 2 = 1 \/ c.m01 % 2 = 1
                 /\ c.bits < 16

Decode ==
    /\ pc \in {"compressed", "changed"}
    /\ IF WellFormed(comp)
       THEN pc' = "decoded" /\ verdict' = verdict
       ELSE pc' = "done" /\ verdict' = "malformed"
    /\ UNCHANGED <<env, sig, comp, det, inv, prec, back>>

---------------------------------------------------------------------------
(* Verification of a compressed signature.                                 *)

Pivot(c) == IF c.m00 % 2 = 1 THEN c.m00 ELSE c.m01

\* Mutated form of Seed: the inverse starts from 1, right to one bit only.
SeedOne(a) == 1

\* inv_mod_2exp starts from a, which is its own inverse modulo 8.
Seed(a) == a % Pow2[R]

Rejected == pc' = "done" /\ verdict' = "reject"

\* PreparedPublicKey::new, challenge_state and pairing_dlog.
Ready == env.key /\ env.state /\ env.pairing

\* Their early returns; otherwise on to the first lines of inv_mod_2exp.
Recover ==
    /\ pc = "decoded"
    /\ \/ /\ ~Ready
          /\ Rejected
          /\ UNCHANGED <<det, inv, prec>>
       \/ /\ Ready
          /\ det' = PairedDet(env)
          /\ inv' = Seed(Pivot(comp))
          /\ prec' = 3
          /\ pc' = "invert"
          /\ UNCHANGED verdict
    /\ UNCHANGED <<env, sig, comp, back>>

\* Mutated form of Precise: one doubling short.
OneShort == 2 * prec >= R

Precise == prec >= R

\* x <- x (2 - a x): the number of right bits doubles.
Newton ==
    /\ pc = "invert"
    /\ ~Precise
    /\ inv' = (inv * ((2 - ((Pivot(comp) * inv) % Pow2[R])) % Pow2[R])) % Pow2[R]
    /\ prec' = 2 * prec
    /\ UNCHANGED <<pc, env, sig, comp, det, back, verdict>>

\* The entry that was not sent: M_11 = (det + M_01 M_10) / M_00, or
\* M_10 = (M_00 M_11 - det) / M_01.
Fourth(c) == IF c.m00 % 2 = 1
             THEN ((det + c.m01 * c.mvar) * inv) % Pow2[R]
             ELSE ((c.m00 * c.mvar - det) * inv) % Pow2[R]

LowEntries(c) == IF c.m00 % 2 = 1 THEN <<c.m00, c.m01, c.mvar, Fourth(c)>>
                                  ELSE <<c.m00, c.m01, Fourth(c), c.mvar>>

Raised(c) == [i \in Places |-> LowEntries(c)[i] + Pow2[R] * Bit(c.bits, i - 1)]

\* reconstruct, and the check of recover.
Reconstruct ==
    /\ pc = "invert"
    /\ Precise
    /\ back' = Raised(comp)
    /\ IF Canonical(Raised(comp)) THEN pc' = "recovered" /\ verdict' = verdict
                                  ELSE Rejected
    /\ UNCHANGED <<env, sig, comp, det, inv, prec>>

\* finish, on the state recover built.
Finish ==
    /\ pc = "recovered"
    /\ verdict' = IF Accepts(env, back) THEN "accept" ELSE "reject"
    /\ pc' = "done"
    /\ UNCHANGED <<env, sig, comp, det, inv, prec, back>>

---------------------------------------------------------------------------
Steps == {"key", "state", "pairing", "message"}

\* Everything succeeds, or one of the steps does not.
Environments(m) == {e \in [key : BOOLEAN, state : BOOLEAN, pairing : BOOLEAN, message : BOOLEAN, signed : {m}] :
                        \A f, g \in Steps : f # g => e[f] \/ e[g]}

Next ==
    \/ pc = "sign" /\ \E m \in Signed : \E e \in Environments(m) : Sign(m, e)
    \/ \E i \in Places, v \in Replaced : Receive(i, v)
    \/ Compress
    \/ \E f \in Fields : \E v \in IF f = "bits" THEN WireBits ELSE WireEntries : Change(f, v)
    \/ Decode
    \/ Recover
    \/ Newton
    \/ Reconstruct
    \/ Finish

Spec == Init /\ [][Next]_vars

---------------------------------------------------------------------------
(* Properties.                                                             *)

Held == {"decoded", "invert", "recovered"}

\* Types; and after a decoder took it, a compressed signature is reduced and
\* its pivot odd, so inv_mod_2exp has an inverse to find.
TypeOK ==
    /\ pc \in {"sign", "signed", "received", "compressed", "changed", "decoded",
               "invert", "recovered", "done", "panicked"}
    /\ env.signed \in Matrices /\ env \in Environments(env.signed)
    /\ sig \in Matrices
    /\ comp \in [m00 : Nat, m01 : Nat, mvar : Nat, bits : Nat]
    /\ pc \in Held => /\ comp.m00 < Pow2[R] /\ comp.m01 < Pow2[R] /\ comp.mvar < Pow2[R]
                     /\ comp.bits \in 0..15
                     /\ Pivot(comp) % 2 = 1
    /\ det \in 0..(Pow2[R] - 1) /\ inv \in 0..(Pow2[R] - 1) /\ prec \in Nat
    /\ back \in [Places -> 0..(Pow2[R + 1] - 1)]
    /\ verdict \in {"none", "accept", "reject", "malformed"}

\* inv_mod_2exp: every turn of the loop has the inverse right to the bits it
\* claims, whatever the pivot.
NewtonInv ==
    pc = "invert" =>
        (Pivot(comp) * inv - 1) % Pow2[IF prec < R THEN prec ELSE R] = 0

\* decompress after compress gives the signer's matrix back, up to the free
\* top bit of each entry (types.rs, CompressedSignature::decompress): the
\* dropped entry is recovered from the determinant alone.
RoundTrip ==
    pc = "recovered" /\ comp = Compressed(env.signed) => back = Low(env.signed, R + 1)

\* What is recovered from any well-formed compressed signature, changed on
\* its way or not, compresses again without a panic, and to the same bytes.
Recompressed == pc = "recovered" => OddDet(back) /\ Compressed(back) = comp

\* The two formats decide alike: the compressed verifier accepts exactly when
\* the standard one accepts the matrix it recovered, and it accepts the
\* compressed form of whatever the standard one accepts.
SameVerdict ==
    pc = "done" =>
        /\ back # Zeros => (verdict = "accept" <=> Verify(env, back))
        /\ Verify(env, sig) /\ env.pairing /\ comp = Compressed(sig) => verdict = "accept"

Negated(m) == [i \in Places |-> (Pow2[R + Extra] - m[i]) % Pow2[R + Extra]]

\* The canonical form picks one of M and -M, which present the same kernel:
\* never both, never neither.
Representative ==
    (\A i \in Places : sig[i] < Pow2[R + Extra]) /\ Negated(sig) # sig
        => (Canonical(sig) <=> ~Canonical(Negated(sig)))

\* "invariant: a signature's matrix has an odd determinant" (types.rs,
\* Signature::compress): compressing never panics.
NeverPanics == pc # "panicked"
============================================================================
