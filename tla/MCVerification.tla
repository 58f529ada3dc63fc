-------------------------- MODULE MCVerification --------------------------
(* Instances of the verification of compressed signatures, of batches and  *)
(* of compact signatures.  The three share no state: each runs while the   *)
(* other two have not begun.                                               *)
EXTENDS CompressedSignature, HdVerify

MCExponents == 0..14
MCPow2      == [k \in MCExponents |-> 2 ^ k]

\* For R = 7: both sides of 2^7 and of mid = 2^8, even and odd; 600 is above
\* the bound 2^9, 128 and 16 above those of the compressed encoding.
MCEntries     == {0, 1, 90, 256, 301}
MCReplaced    == {127, 256, 600}
MCWireEntries == {0, 85, 128}
MCWireBits    == {0, 6, 16}

\* Degrees on the wire: even, of either residue modulo 4, past the norm
\* equation's range and past 2^e; 1023 leaves 1 to be split, and 999 leaves
\* 25.
MCWireDegrees == {0, 1, 3, 23, 999, 1023, 1024, 4095}
MCHdScalars   == {0, 77, 300}

MCInit == Init /\ BatchInit /\ HdInit
MCNext == \/ turn = -1 /\ stage = "idle" /\ Next /\ UNCHANGED <<bvars, hvars>>
          \/ pc = "sign" /\ stage = "idle" /\ BatchNext /\ UNCHANGED <<vars, hvars>>
          \/ pc = "sign" /\ turn = -1 /\ HdNext /\ UNCHANGED <<vars, bvars>>
MCSpec == MCInit /\ [][MCNext]_<<vars, bvars, hvars>>
============================================================================
