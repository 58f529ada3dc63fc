------------------------------ MODULE EcChain ------------------------------
(***************************************************************************)
(* The chains of 4-isogenies of crates/verify/src/ec/isogeny.rs, by which  *)
(* a verifier reaches the challenge curve: iso_isogeny_2chain_from, and    *)
(* iso_isogeny_2chain_eval, which also pushes points.                      *)
(*                                                                         *)
(* A saved point is [on, dbls]: the image, on the surface after `on'       *)
(* 4-isogenies, of [2^dbls] of the kernel point.  That point is what the   *)
(* checks can tell of it: by how many bits its order misses 2^length, and  *)
(* whether it lies above (0, 0).                                           *)
(***************************************************************************)
EXTENDS Integers

CONSTANTS
    Stack,     \* STACK: slots of the strategy stack
    Pow2,      \* powers of two, 0..Stack; a u16 counts to Pow2[Stack] - 1
    Lengths    \* the lengths asked for

ASSUME StackAssumption == Stack \in Nat /\ Stack >= 1
ASSUME Pow2Assumption  ==
    /\ Pow2 \in [0..Stack -> Nat \ {0}]
    /\ Pow2[0] = 1
    /\ \A k \in 1..Stack : Pow2[k] = 2 * Pow2[k - 1]
ASSUME LengthAssumption == Lengths \subseteq 0..(Pow2[Stack] - 1)

VARIABLES
    call,      \* the arguments
    pc,
    todo,      \* todo[i]: doublings left before split i has order 4, plus two
    splits,    \* the points saved along the strategy
    current,   \* top of the stack
    j,         \* the loop variable, from 0
    curve,     \* a24: its surface and which Montgomery model it is
    points,    \* the points of the caller: where they stand
    last,      \* the kernel of the last 4-isogeny
    result     \* "" while running, then "some" or "none"

vars == <<call, pc, todo, splits, current, j, curve, points, last, result>>

Slots    == 0..(Stack - 1)
Identity == [on |-> 0, dbls |-> 0]
Models   == {"formulas", "canonical"}
NoStep   == [k |-> 0, on |-> 0, dbls |-> 0]

Calls == [push : BOOLEAN, length : Lengths, excess : -1..1, above : BOOLEAN]
NoCall == [push |-> FALSE, length |-> 0, excess |-> 0, above |-> FALSE]

Init ==
    /\ call = NoCall /\ pc = "idle"
    /\ todo = [i \in Slots |-> 0] /\ splits = [i \in Slots |-> Identity]
    /\ current = 0 /\ j = 0
    /\ curve = [on |-> 0, model |-> "formulas"]
    /\ points = [on |-> 0, model |-> "formulas"]
    /\ last = NoStep /\ result = ""

Return(r) == pc' = "returned" /\ result' = r

\* An odd length, or none, is refused.
Call(c) ==
    /\ pc \in {"idle", "returned"}
    /\ call' = c
    /\ todo' = [i \in Slots |-> IF i = 0 THEN c.length ELSE 0]
    /\ splits' = [i \in Slots |-> Identity]
    /\ current' = 0 /\ j' = 0
    /\ curve' = [on |-> 0, model |-> "formulas"]
    /\ points' = [on |-> 0, model |-> "formulas"]
    /\ last' = NoStep
    /\ IF c.length % 2 # 0 \/ c.length = 0 THEN Return("none")
                                           ELSE pc' = "walk" /\ result' = ""

\* 4-isogenies computed.  The two bits of the kernel that are left fix the
\* model of the codomain.
Steps == call.length \div 2 - 1

\* Mutated form of Doublings: half, whether it is even or not.
Half(prev) == prev \div 2

\* An even number of doublings, so that todo stays even.
Doublings(prev) == 2 * (prev \div 4) + (prev % 2)

\* The surface a doubling with the chain's own coefficients is right on.
Doubled(e, k) == [on |-> IF e.on = curve.on THEN e.on ELSE -1, dbls |-> e.dbls + k]

Descend ==
    /\ pc = "walk" /\ j < Steps /\ todo[current] # 2
    /\ IF current + 1 >= Stack
       THEN Return("none") /\ UNCHANGED <<current, splits, todo>>
       ELSE LET num_dbls == Doublings(todo[current])
            IN  /\ current' = current + 1
                /\ splits' = [splits EXCEPT ![current + 1] = Doubled(splits[current], num_dbls)]
                /\ todo' = [todo EXCEPT ![current + 1] = todo[current] - num_dbls]
                /\ UNCHANGED <<pc, result>>
    /\ UNCHANGED <<call, j, curve, points, last>>

\* is_four_torsion: bits of the order of a point that came from the kernel.
OrderBits(e)   == call.length + call.excess - e.dbls - 2 * e.on
OfOrderFour(e) == OrderBits(e) = 2

\* Only the kernel itself can lie above (0, 0): what a 4-isogeny puts there is
\* its own dual's kernel.
Above(e) == call.above /\ e.on = 0

\* The input validation of the first step.
RejectedFirst == j = 0 /\ ~(OfOrderFour(splits[current]) /\ ~Above(splits[current]))

Reject ==
    /\ pc = "walk" /\ j < Steps /\ todo[current] = 2 /\ RejectedFirst
    /\ Return("none")
    /\ UNCHANGED <<call, todo, splits, current, j, curve, points, last>>

\* Mutated form of Pushed: the bottom of the stack is not pushed.
BottomNotPushed == {i \in Slots : 0 < i /\ i < current}

Pushed == {i \in Slots : i < current}

\* One 4-isogeny.  current is a usize: below 0 is a panic.
Isogeny ==
    /\ pc = "walk" /\ j < Steps /\ todo[current] = 2 /\ ~RejectedFirst
    /\ last' = [k |-> j + 1, on |-> splits[current].on, dbls |-> splits[current].dbls]
    /\ curve' = [curve EXCEPT !.on = @ + 1]
    /\ splits' = [i \in Slots |-> IF i \in Pushed THEN [splits[i] EXCEPT !.on = @ + 1]
                                                  ELSE splits[i]]
    /\ todo' = [i \in Slots |-> IF i \in Pushed THEN todo[i] - 2 ELSE todo[i]]
    /\ points' = IF call.push THEN [points EXCEPT !.on = @ + 1] ELSE points
    /\ j' = j + 1
    /\ IF current = 0 THEN pc' = "panicked" /\ UNCHANGED current
                      ELSE current' = current - 1 /\ UNCHANGED pc
    /\ UNCHANGED <<call, result>>

\* Mutated form of LastRejected: checked at the first step only.
LongChains == Steps > 0 /\ ~(OfOrderFour(splits[0]) /\ ~Above(splits[0]))

\* The check at the end, which alone covers a chain of length 2.
LastRejected == ~(OfOrderFour(splits[0]) /\ ~Above(splits[0]))

\* Without points the codomain is put in its canonical model by means of the
\* last order-4 point; pushed points stay in the model of the formulas.
CodomainModel == IF call.push THEN "formulas" ELSE "canonical"

\* The codomain, or None also when the normalisation fails.
Finish ==
    /\ pc = "walk" /\ j >= Steps
    /\ \/ /\ ~LastRejected
          /\ Return("some")
          /\ curve' = [curve EXCEPT !.model = CodomainModel]
       \/ /\ LastRejected \/ ~call.push
          /\ Return("none")
          /\ UNCHANGED curve
    /\ UNCHANGED <<call, todo, splits, current, j, points, last>>

Run  == Descend \/ Reject \/ Isogeny \/ Finish
Next == (\E c \in Calls : Call(c)) \/ Run

Spec == Init /\ [][Next]_vars

---------------------------------------------------------------------------
(* Properties.                                                             *)

Place == [on : Nat, model : Models]

\* Types: todo never wraps below 0, and `current' never does.
TypeOK ==
    /\ call \in Calls \cup {NoCall}
    /\ pc \in {"idle", "walk", "returned"}
    /\ todo \in [Slots -> Nat]
    /\ splits \in [Slots -> [on : Nat, dbls : Nat]]
    /\ current \in Slots /\ j \in Nat
    /\ curve \in Place /\ points \in Place
    /\ last \in [k : Nat, on : Nat, dbls : Nat]
    /\ result \in {"", "some", "none"}

Live == 0..current

\* Each split stands on the curve the chain stands on, and its counter says
\* what is left of it: an even number, or it never has order 4 exactly.  After
\* the loop the kernel's own point is the one left, with order 4: the two debug
\* assertions there.
SplitsInv ==
    pc = "walk" =>
        /\ \A i \in Live :
              /\ splits[i].on = curve.on
              /\ todo[i] = call.length - 2 * curve.on - splits[i].dbls
              /\ todo[i] >= 2 /\ todo[i] % 2 = 0
        /\ j >= Steps => current = 0 /\ todo[0] = 2

\* The stack is deep enough for every length a u16 holds: the return for a
\* full stack is never taken.
DepthInv == pc = "walk" /\ j < Steps /\ todo[current] # 2 => current + 1 < Stack

\* "Returns None if the kernel does not have the claimed order, lies above
\* (0, 0)": no codomain comes of a wrong kernel, at any length; and pushed
\* points are on the codomain, in the model it is returned in.
DeliveredInv ==
    result = "some" => /\ call.excess = 0 /\ ~call.above
                       /\ call.push => points = curve

\* The refinement mapping, with [4] kernel for K and 4-isogenies for steps.
Length     == IF call.length < 2 THEN 0 ELSE Steps
KernelUsed == IF last.k = 0 THEN <<0, 0>> ELSE <<last.on, (last.dbls - 2) \div 2>>
Status     == CASE pc = "idle" -> "idle"
                [] pc = "returned" -> result
                [] OTHER -> "running"

Abstract == INSTANCE IsogenyChain WITH
    len <- Length, done <- curve.on, kern <- KernelUsed, status <- Status

\* The chain is an isogeny chain: which doublings are shared cannot be seen,
\* and the two bits of the kernel beyond the last step are never a step's.
ImplementsIsogenyChain == Abstract!Spec

\* "the codomain, in canonical Montgomery form, of the 2^length-isogeny with
\* kernel <kernel> on curve": as many 4-isogenies as that takes.
DegreeInv == result = "some" => 2 * curve.on = call.length
============================================================================
