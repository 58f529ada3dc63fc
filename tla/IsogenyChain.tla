--------------------------- MODULE IsogenyChain ---------------------------
(***************************************************************************)
(* What every chain driver of the repository promises, whatever strategy   *)
(* it walks: an isogeny of length `len' is computed one step at a time,    *)
(* and the step that leaves surface `done' uses the multiple of the kernel *)
(* generator K it needs, pushed to exactly that surface,                   *)
(*                                                                         *)
(*          [d^(len - done - 1)] phi_done(K),    d the degree of a step,   *)
(*                                                                         *)
(* so which doublings were shared and which were recomputed cannot be seen *)
(* from outside.  A chain may give up at any step, and delivers a codomain *)
(* only after all of its steps.  The module is the common abstraction of   *)
(* crates/verify/src/ec/isogeny.rs (dimension 1, d = 4),                   *)
(* crates/verify/src/theta/chain.rs (dimension 2, d = 2) and               *)
(* crates/verify/src/hd/strategy.rs (dimension 4, d = 2).                  *)
(***************************************************************************)
EXTENDS Naturals

VARIABLES
    len,     \* length of the current chain
    done,    \* isogenies computed so far: the chain stands on surface `done'
    kern,    \* the kernel the last step used: <<surface, power of d>>
    status   \* "idle", "running", "some" (codomain delivered) or "none"

vars == <<len, done, kern, status>>

NoKernel == <<0, 0>>

Init == /\ len = 0
        /\ done = 0
        /\ kern = NoKernel
        /\ status = "idle"

\* A chain of any length is asked for; an earlier one, if any, has returned.
Begin == /\ status # "running"
         /\ status' = "running"
         /\ len' \in Nat
         /\ done' = 0
         /\ kern' = NoKernel

\* One isogeny, from the one kernel that is right for it.
Isogeny == /\ status = "running"
           /\ done < len
           /\ kern' = <<done, len - done - 1>>
           /\ done' = done + 1
           /\ UNCHANGED <<len, status>>

\* The input was no kernel of such a chain, or the request was refused.
GiveUp == /\ status' = "none"
          /\ \/ /\ status = "running"
                /\ UNCHANGED <<len, done, kern>>
             \/ /\ status # "running"
                /\ len' \in Nat
                /\ done' = 0
                /\ kern' = NoKernel

Deliver == /\ status = "running"
           /\ done = len
           /\ status' = "some"
           /\ UNCHANGED <<len, done, kern>>

Next == Begin \/ Isogeny \/ GiveUp \/ Deliver

Spec == Init /\ [][Next]_vars
============================================================================
