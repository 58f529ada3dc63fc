---------------------------- MODULE ThetaChain ----------------------------
(***************************************************************************)
(* The (2^n, 2^n)-isogeny chain driver of crates/verify/src/theta: the     *)
(* entry points of chain.rs, the gluing stage start_chain of gluing.rs,    *)
(* the balanced strategy generic_steps, the recording of the return trip   *)
(* (DualCache) and the walk back through it.                               *)
(*                                                                         *)
(* The data is abstracted to what decides whether a chain is right.  A     *)
(* theta point is the record [on, dbls, coords]: the image, on the surface *)
(* after `on' isogenies, of [2^dbls] of the kernel generator (both kernel  *)
(* generators move together, so one record stands for theta_q1[j] and      *)
(* theta_q2[j]), in regular or dual coordinates.  Arithmetic that mixes    *)
(* two surfaces or two coordinate systems gives a "bad" point.  Whether a  *)
(* kernel passes the arithmetic checks of a step is a free choice, so      *)
(* every malformed input is covered.                                       *)
(***************************************************************************)
EXTENDS Integers, Sequences

CONSTANTS
    Stack,         \* STACK: slots of the strategy stack
    Word,          \* 2^16: the modulus of the u16 loop counter
    Pow2,          \* powers of two, 0..Stack
    HalveFrom,     \* 16: start_chain halves above this, else goes straight down
    MaxPoints,     \* MAX_POINTS: pushed points a chain can take
    MaxRecorded,   \* MAX_RECORDED_STEPS: surfaces a DualCache can hold
    Lengths,       \* the lengths n asked for, some of the u16 values
    PointCounts,   \* how many special and general points are asked for
    ReuseCache     \* whether a caller may hand in a DualCache it used before

ASSUME StackAssumption == Stack \in Nat /\ Stack >= 1
ASSUME Pow2Assumption  ==
    /\ Pow2 \in [0..Stack -> Nat \ {0}]
    /\ Pow2[0] = 1
    /\ \A k \in 1..Stack : Pow2[k] = 2 * Pow2[k - 1]
ASSUME WordAssumption  == Word = Pow2[Stack] /\ Lengths \subseteq 0..(Word - 1)
ASSUME LimitAssumption ==
    /\ HalveFrom \in Nat /\ HalveFrom >= 2
    /\ MaxPoints \in Nat
    /\ MaxRecorded \in Nat
    /\ PointCounts \subseteq Nat
    /\ ReuseCache \in BOOLEAN

VARIABLES
    call,      \* the arguments of the call under way
    pc,        \* where it stands
    space,     \* strategy depth computed so far (saturates above Stack)
    pow,       \* the u16 counter `i' of the depth loop
    todo,      \* todo[j]: doublings left before entry j has order 8, plus one
    ladder,    \* t11, t12, t21, t22: entry j is [2^ladder[j]] K on E1 x E2
    kernels,   \* theta_q1, theta_q2
    current,   \* top of the stack, -1 when it is empty
    step,      \* `i' of generic_steps
    codomain,  \* step.codomain: its surface and the coordinates it works in
    pts,       \* the pushed points
    last,      \* the kernel the last isogeny was computed from
    snapshot,  \* the penultimate stage: its surface and points
    cache,     \* the DualCache: surfaces recorded, in order
    back,      \* a point on its way back: its surface, and how much is left
    progress,  \* what the caller of from_structure can read
    result     \* "" while running, then "some" or "none"

vars == <<call, pc, space, pow, todo, ladder, kernels, current, step, codomain,
          pts, last, snapshot, cache, back, progress, result>>

Apis    == {"eval", "two_stage", "recorded", "general", "structure"}
Modes   == {"Both", "E1", "E2", "Verify"}
Coords  == {"regular", "dual", "none", "bad"}
Checks  == {"verified", "unverified"}
Slots   == 0..(Stack - 1)

\* ThetaPoint::zero(), what fresh arrays are filled with.
Zero    == [on |-> 0, dbls |-> 0, coords |-> "none"]
NoStep  == [k |-> 0, on |-> 0, dbls |-> 0, coords |-> "none", reads |-> "none", check |-> "verified"]
NoStage == [on |-> 0, pts |-> <<>>]

---------------------------------------------------------------------------
(* The entry points.                                                       *)

FromStructure == call.api = "structure"
Staged(c)     == c.api \in {"two_stage", "recorded", "general"}

\* Only compute_and_eval takes a mode, only from_structure the coordinate
\* flag, and only the general variant takes points with two components.
Calls == {c \in [api : Apis, n : Lengths, mode : Modes, special : PointCounts,
                 general : PointCounts, coords : {"regular", "dual"}] :
             /\ c.api # "eval" => c.mode = IF c.api = "structure" THEN "Both" ELSE "Verify"
             /\ c.api # "structure" => c.coords = "regular"
             /\ c.api # "general" => c.general = 0}

NoCall == [api |-> "eval", n |-> 0, mode |-> "Both", special |-> 0,
           general |-> 0, coords |-> "regular"]

\* The early returns of the entry points and of chain_core.
Refused(c) == \/ c.n < 2
              \/ Staged(c) /\ c.n < 3
              \/ c.api = "recorded" /\ c.n - 2 > MaxRecorded
              \/ c.special + c.general > MaxPoints

Points(c) == c.special + c.general

\* Mutated forms of the parameters of generic_steps below: n - 1 steps without
\* a gluing, the last check skipped without a splitting, the snapshot one step
\* late, one surface too many on the way back.
StepsAfterGluing   == call.n - 1
SkipsAlways        == TRUE
SnapshotLate       == IF Staged(call) THEN call.n - 1 ELSE 0
RecordsPenultimate == IF call.n >= 3 THEN call.n - 2 ELSE 0

\* The parameters chain_core and from_structure hand to generic_steps.
Steps         == IF FromStructure THEN call.n ELSE call.n - 1
Verify        == call.api # "eval" \/ call.mode = "Verify"
SkipLastCheck == ~Staged(call)
SnapshotAfter == IF Staged(call) THEN call.n - 2 ELSE 0
RecordUntil   == IF call.n >= 3 THEN call.n - 3 ELSE 0

\* Isogenies computed before the first generic step (the gluing is one).
Glued == call.n - Steps

Init ==
    /\ call = NoCall
    /\ pc = "idle"
    /\ space = 1 /\ pow = 1
    /\ todo = [j \in Slots |-> 0]
    /\ ladder = [j \in Slots |-> 0]
    /\ kernels = [j \in Slots |-> Zero]
    /\ current = 0 /\ step = 1
    /\ codomain = [on |-> 0, coords |-> "none"]
    /\ pts = <<>> /\ last = NoStep /\ snapshot = NoStage
    /\ cache = <<>> /\ back = [on |-> 0, left |-> 0]
    /\ progress = 0 /\ result = ""

\* A caller asks for a chain.  Every local starts afresh; the DualCache
\* belongs to the caller.
Call(c) ==
    /\ pc \in {"idle", "returned"}
    /\ call' = c
    /\ space' = 1 /\ pow' = 1
    /\ todo' = [j \in Slots |-> IF j = 0 THEN c.n ELSE 0]
    /\ ladder' = [j \in Slots |-> 0]
    /\ kernels' = [j \in Slots |-> IF j = 0 /\ c.api = "structure"
                                   THEN [on |-> 0, dbls |-> 0, coords |-> c.coords]
                                   ELSE Zero]
    /\ current' = 0 /\ step' = 1
    /\ codomain' = [on |-> 0, coords |-> IF c.api = "structure" THEN c.coords ELSE "none"]
    /\ pts' = [k \in 1..(IF Refused(c) THEN 0 ELSE Points(c)) |->
                 [on |-> 0, coords |-> codomain'.coords]]
    /\ last' = NoStep /\ snapshot' = NoStage
    /\ cache' \in IF ReuseCache THEN {<<>>, cache} ELSE {<<>>}
    /\ back' = [on |-> 0, left |-> 0]
    /\ progress' = 0
    /\ IF Refused(c) THEN pc' = "returned" /\ result' = "none"
                     ELSE pc' = "space" /\ result' = ""

Return(r) == pc' = "returned" /\ result' = r

---------------------------------------------------------------------------
(* The depth of the strategy, computed with a u16 counter.                 *)

\* Mutated form of Widened: the counter starts at 1 and is squared.
CounterSquared == (pow * pow) % Word

\* i *= 2, in 16 bits.
Widened == (2 * pow) % Word

DepthLoop ==
    /\ pc = "space" /\ pow < call.n
    /\ space' = IF space <= Stack THEN space + 1 ELSE space
    /\ pow' = Widened
    /\ UNCHANGED <<call, pc, todo, ladder, kernels, current, step, codomain, pts,
                   last, snapshot, cache, back, progress, result>>

DepthKnown ==
    /\ pc = "space" /\ pow >= call.n
    /\ IF space > Stack THEN Return("none")
       ELSE /\ pc' = IF FromStructure THEN "steps" ELSE "gluing"
            /\ UNCHANGED result
    /\ UNCHANGED <<call, space, pow, todo, ladder, kernels, current, step, codomain,
                   pts, last, snapshot, cache, back, progress>>

---------------------------------------------------------------------------
(* start_chain: double K down to order 8 on E1 x E2, glue, push the stack. *)

\* Near the end the doublings are recomputed rather than pushed.
GluingDoublings(prev) == IF prev >= HalveFrom THEN prev \div 2 ELSE prev - 1

GluingDescend ==
    /\ pc = "gluing" /\ todo[current] # 1
    /\ IF current + 1 >= Stack
       THEN Return("none") /\ UNCHANGED <<current, ladder, todo>>
       ELSE LET num_dbls == GluingDoublings(todo[current])
            IN  /\ current' = current + 1
                /\ ladder' = [ladder EXCEPT ![current + 1] = ladder[current] + num_dbls]
                /\ todo' = [todo EXCEPT ![current + 1] = todo[current] - num_dbls]
                /\ UNCHANGED <<pc, result>>
    /\ UNCHANGED <<call, space, pow, kernels, step, codomain, pts, last, snapshot,
                   cache, back, progress>>

\* push_null: FALSE when the cache is full.
CacheFull == Len(cache) >= MaxRecorded

\* Mutated form of GluingPushed: the bottom of the stack is left behind.
BottomNotGlued == {j \in Slots : 0 < j /\ j < current}

\* The entry at `current' is consumed; entry 0 and those below it are pushed.
GluingPushed == {j \in Slots : j = 0 \/ j < current}

\* A malformed kernel, or a pushed point of the wrong shape.
GluingFails ==
    /\ pc = "gluing" /\ todo[current] = 1
    /\ Return("none")
    /\ UNCHANGED <<call, space, pow, todo, ladder, kernels, current, step, codomain,
                   pts, last, snapshot, cache, back, progress>>

Gluing ==
    /\ pc = "gluing" /\ todo[current] = 1
    /\ last' = [k |-> 1, on |-> 0, dbls |-> ladder[current],
                coords |-> "none", reads |-> "none", check |-> "verified"]
    /\ codomain' = [on |-> 1, coords |-> "regular"]
    /\ kernels' = [j \in Slots |-> IF j \in GluingPushed
                                   THEN [on |-> 1, dbls |-> ladder[j], coords |-> "regular"]
                                   ELSE Zero]
    /\ todo' = [j \in Slots |-> IF j \in GluingPushed THEN todo[j] - 1 ELSE todo[j]]
    /\ pts' = [k \in DOMAIN pts |-> [on |-> 1, coords |-> "regular"]]
    /\ current' = current - 1
    /\ step' = 1 /\ progress' = 0
    /\ IF call.api = "recorded" /\ CacheFull
       THEN Return("none") /\ UNCHANGED cache
       ELSE /\ cache' = IF call.api = "recorded" THEN Append(cache, 1) ELSE cache
            /\ pc' = "steps" /\ UNCHANGED result
    /\ UNCHANGED <<call, space, pow, ladder, snapshot, back>>

---------------------------------------------------------------------------
(* generic_steps: the balanced strategy.                                   *)

InLoop == current >= 0 /\ todo[current] # 0

\* double_iter on the structure the chain stands on.
Doubled(e, k) ==
    [on |-> e.on, dbls |-> e.dbls + k,
     coords |-> IF e.on = codomain.on /\ e.coords = codomain.coords
                THEN e.coords ELSE "bad"]

\* Mutated form of GenericDoublings: the stack grows one doubling at a time.
OneAtATime(prev) == 1

GenericDoublings(prev) == prev \div 2

Descend ==
    /\ pc = "steps" /\ InLoop /\ todo[current] # 1
    /\ IF current + 1 >= Stack
       THEN Return("none") /\ UNCHANGED <<current, kernels, todo>>
       ELSE LET num_dbls == GenericDoublings(todo[current])
            IN  /\ current' = current + 1
                /\ kernels' = [kernels EXCEPT ![current + 1] = Doubled(kernels[current], num_dbls)]
                /\ todo' = [todo EXCEPT ![current + 1] = todo[current] - num_dbls]
                /\ UNCHANGED <<pc, result>>
    /\ UNCHANGED <<call, space, pow, ladder, step, codomain, pts, last, snapshot,
                   cache, back, progress>>

VerifyStep == Verify /\ ~(SkipLastCheck /\ step = Steps)

\* Mutated form of Reads: every step reads what the first one reads.
ReadsAsFirst == call.coords

\* is_not_step2: every step but the first reads dual coordinates.
Reads == IF step # 1 THEN "dual" ELSE call.coords

\* Whether the step reads p the way p is written.
ReadsWell(p) == p.on = codomain.on /\ p.coords = Reads

\* eval_assign: the image on the next surface, in its dual coordinates.
ImageCoords(p) == IF ReadsWell(p) THEN "dual" ELSE "bad"
Image(p)       == [on |-> p.on + 1, coords |-> ImageCoords(p)]
ImageEntry(e)  == [on |-> e.on + 1, dbls |-> e.dbls, coords |-> ImageCoords(e)]

\* theta_isogeny_compute rejects only when asked to verify.
IsogenyFails ==
    /\ pc = "steps" /\ InLoop /\ todo[current] = 1
    /\ VerifyStep
    /\ Return("none")
    /\ UNCHANGED <<call, space, pow, todo, ladder, kernels, current, step, codomain,
                   pts, last, snapshot, cache, back, progress>>

\* Mutated form of Recorded: the last surface of the way back is left out.
RecordsOneShort == call.api = "recorded" /\ step < RecordUntil

\* `record' is given, and the step is one of the first `until'.
Recorded == call.api = "recorded" /\ step <= RecordUntil

\* Mutated form of StepPushed: the bottom of the stack is not pushed.
BottomNotPushed == {j \in Slots : 0 < j /\ j < current}

\* The entry at `current' is consumed; those below it are pushed.
StepPushed == {j \in Slots : j < current}

Isogeny ==
    /\ pc = "steps" /\ InLoop /\ todo[current] = 1
    /\ last' = [k |-> Glued + step, on |-> kernels[current].on,
                dbls |-> kernels[current].dbls, coords |-> kernels[current].coords,
                reads |-> Reads, check |-> IF VerifyStep THEN "verified" ELSE "unverified"]
    /\ codomain' = [on |-> codomain.on + 1, coords |-> "dual"]
    /\ pts' = [k \in DOMAIN pts |-> Image(pts[k])]
    /\ kernels' = [j \in Slots |-> IF j \in StepPushed THEN ImageEntry(kernels[j]) ELSE kernels[j]]
    /\ todo' = [j \in Slots |-> IF j \in StepPushed THEN todo[j] - 1 ELSE todo[j]]
    /\ current' = current - 1
    /\ progress' = step
    /\ snapshot' = IF Staged(call) /\ step = SnapshotAfter
                   THEN [on |-> codomain'.on, pts |-> pts'] ELSE snapshot
    /\ IF Recorded /\ CacheFull
       THEN Return("none") /\ UNCHANGED <<cache, step>>
       ELSE /\ cache' = IF Recorded THEN Append(cache, codomain'.on) ELSE cache
            /\ step' = step + 1
            /\ UNCHANGED <<pc, result>>
    /\ UNCHANGED <<call, space, pow, ladder, back>>

\* The loop ends: short chains are refused, staged chains return here.
StepsDone ==
    /\ pc = "steps" /\ ~InLoop
    /\ IF step # Steps + 1 THEN Return("none") /\ UNCHANGED progress
       ELSE IF Staged(call) THEN Return("some") /\ UNCHANGED progress
       ELSE /\ pc' = "split"
            /\ progress' = IF FromStructure THEN call.n + 1 ELSE progress
            /\ UNCHANGED result
    /\ UNCHANGED <<call, space, pow, todo, ladder, kernels, current, step, codomain,
                   pts, last, snapshot, cache, back>>

---------------------------------------------------------------------------
(* splitting_to_elliptic_product, and the walk back through a DualCache.   *)

SplitFails ==
    /\ pc = "split"
    /\ Return("none")
    /\ UNCHANGED <<call, space, pow, todo, ladder, kernels, current, step, codomain,
                   pts, last, snapshot, cache, back, progress>>

Split ==
    /\ pc = "split"
    /\ Return("some")
    /\ progress' = IF FromStructure THEN call.n + 2 ELSE progress
    /\ UNCHANGED <<call, space, pow, todo, ladder, kernels, current, step, codomain,
                   pts, last, snapshot, cache, back>>

CanGoBack == pc = "returned" /\ result = "some" /\ call.api = "recorded"

\* A caller with all_nonzero() sends a point of the penultimate surface back.
GoBack ==
    /\ CanGoBack /\ back.on = 0
    /\ back' = [on |-> snapshot.on, left |-> Len(cache)]
    /\ UNCHANGED <<call, pc, space, pow, todo, ladder, kernels, current, step, codomain,
                   pts, last, snapshot, cache, progress, result>>

\* The dual of one step: divides by the null point of the surface it lands on.
PullBack ==
    /\ CanGoBack /\ back.left > 0
    /\ back' = [on |-> cache[back.left], left |-> back.left - 1]
    /\ UNCHANGED <<call, pc, space, pow, todo, ladder, kernels, current, step, codomain,
                   pts, last, snapshot, cache, progress, result>>

---------------------------------------------------------------------------
\* What the driver itself does once called.
Run == \/ DepthLoop \/ DepthKnown
       \/ GluingDescend \/ GluingFails \/ Gluing
       \/ Descend \/ IsogenyFails \/ Isogeny \/ StepsDone
       \/ SplitFails \/ Split

Next == \/ \E c \in Calls : Call(c)
        \/ Run
        \/ GoBack \/ PullBack

Spec == Init /\ [][Next]_vars

\* A called function runs on: it is sequential code that waits for nothing.
FairSpec == Spec /\ WF_vars(Run)

---------------------------------------------------------------------------
(* Properties.                                                             *)

\* A pushed point: the surface it is on and its coordinates.
Placed == [on : Nat, coords : Coords]
IsPointList(p) == \E m \in 0..MaxPoints : p \in [1..m -> Placed]

Entry  == [on : Nat, dbls : Int, coords : Coords]
Kernel == [k : Nat, on : Nat, dbls : Int, coords : Coords, reads : Coords, check : Checks]

ControlType == /\ call \in Calls \cup {NoCall}
               /\ pc \in {"idle", "space", "gluing", "steps", "split", "returned"}
               /\ result \in {"", "some", "none"}
DepthType   == space \in 1..(Stack + 1) /\ pow \in 0..(Word - 1)
StackType   == /\ todo \in [Slots -> Int]
               /\ ladder \in [Slots -> Int]
               /\ kernels \in [Slots -> Entry]
               /\ current \in -1..(Stack - 1)
ChainType   == step \in Nat /\ progress \in Nat /\ codomain \in Placed /\ last \in Kernel
PointsType  == IsPointList(pts) /\ snapshot.on \in Nat /\ IsPointList(snapshot.pts)
ReturnType  == cache \in Seq(Nat) /\ back \in [on : Nat, left : Nat]

\* Types.  That no coordinates are ever "bad" is StackInv's and StagesInv's part.
TypeOK == /\ ControlType /\ DepthType /\ StackType
          /\ ChainType /\ PointsType /\ ReturnType

\* Where the strategy stack is in use: `current' indexes live entries.
Live == 0..current

\* Each live entry of generic_steps stands on the surface the chain stands on,
\* in that surface's coordinates, and its counter is what is left of it.  A
\* push that misses an entry or a counter that drifts shows many steps later.
StackInv ==
    pc = "steps" => \A j \in Live :
        /\ kernels[j].on = codomain.on
        /\ kernels[j].coords = codomain.coords
        /\ todo[j] >= 1
        /\ todo[j] = call.n - codomain.on - kernels[j].dbls

\* The same for the stack start_chain builds before the gluing.
LadderInv ==
    pc = "gluing" => \A j \in Live :
        /\ todo[j] >= 1
        /\ todo[j] = call.n - ladder[j]

\* The two "current >= STACK" returns and the loop counter: the depth the
\* counter loop computed bounds the stack, whatever the two strategies do.
DepthInv ==
    pc \in {"gluing", "steps"} => space <= Stack /\ current < space

\* Every isogeny is computed from [2^(n-k)] phi_(k-1)(K), the order-8 multiple
\* of the kernel on the surface it leaves, read in the coordinates it is in:
\* the strategy only decides which doublings are shared.
KernelInv ==
    last.k > 0 => /\ last.on = last.k - 1
                  /\ last.dbls = call.n - last.k
                  /\ last.coords = last.reads
                  /\ codomain.on = last.k

\* In Verify mode no kernel goes unchecked, except the last of a chain whose
\* splitting does that check: a staged chain (which does not split) has none.
CheckedInv ==
    Verify /\ last.check = "unverified" => last.k = call.n /\ ~Staged(call)

\* The debug assertion at the end of generic_steps, and that the loop ends
\* only when all the steps it was asked for are done.
DrivenInv ==
    pc = "steps" /\ ~InLoop => current = -1 /\ step = Steps + 1

\* The pushed points keep up with the chain, and a delivered staged chain has
\* them one step short of the end in `mid' and at the end in the other stage.
StagesInv ==
    /\ \A k \in DOMAIN pts : pts[k] = [on |-> codomain.on, coords |-> codomain.coords]
    /\ result = "some" => codomain.on = call.n /\ codomain.coords = "dual"
    /\ result = "some" /\ Staged(call) =>
          /\ snapshot.on = call.n - 1
          /\ \A k \in DOMAIN pts : snapshot.pts[k].on = call.n - 1

\* What from_structure reports when it gives up is the number of steps done.
ProgressInv ==
    FromStructure => \/ progress = codomain.on
                     \/ pc \in {"split", "returned"} /\ codomain.on = call.n
                                                     /\ progress \in {call.n + 1, call.n + 2}

\* On the way back every division is by the null point of the surface the point
\* lands on, and the walk ends on the gluing's codomain.
BackInv ==
    back.on > 0 => IF back.left > 0 THEN cache[back.left] = back.on - 1
                                    ELSE back.on = 1

\* debug_assert_eq!(cache.len(), n - 2) of the recorded chain.
CacheInv ==
    call.api = "recorded" /\ result = "some" => Len(cache) = call.n - 2

\* The refinement mapping: the kernel last used, and how the call stands.
KernelUsed == IF last.k = 0 THEN <<0, 0>> ELSE <<last.on, last.dbls>>
Status     == CASE pc = "idle" -> "idle"
                [] pc = "returned" -> result
                [] OTHER -> "running"

Abstract == INSTANCE IsogenyChain WITH
    len <- call.n, done <- codomain.on, kern <- KernelUsed, status <- Status

\* The chain is an isogeny chain: the strategy is invisible from outside.
ImplementsIsogenyChain == Abstract!Spec

\* Every call of a length the u16 loop can reach returns.
Termination == pc = "space" /\ call.n <= Word \div 2 ~> pc = "returned"

\* "if space > STACK { return None; }": a chain too long for the stack is
\* refused, so the depth loop is always left.
DepthDecided == pc = "space" ~> pc # "space"
============================================================================
