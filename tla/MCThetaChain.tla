--------------------------- MODULE MCThetaChain ---------------------------
(* Instances of ThetaChain.  The stack is scaled down together with the   *)
(* word, as 2^16 and 16 go together in the code; the 16 of start_chain    *)
(* stays.                                                                  *)
EXTENDS ThetaChain

MCPow2 == [k \in 0..Stack |-> 2 ^ k]

\* Lengths up to half the word, past the point where the gluing starts to
\* halve and a generic stack of depth 5 is needed.
MCLengths == 0..20

\* Every value of the u16 counter's small stand-in.
MCAllLengths == 0..(Word - 1)

MCPointCounts == 0..1
============================================================================
