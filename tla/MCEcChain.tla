----------------------------- MODULE MCEcChain -----------------------------
(* Instances of EcChain.  Word and stack are scaled down together, as 2^16 *)
(* and 16 go together in the code.                                         *)
EXTENDS EcChain

MCPow2 == [k \in 0..Stack |-> 2 ^ k]

\* Every length the counter can hold.
MCLengths == 0..(Pow2[Stack] - 1)
============================================================================
