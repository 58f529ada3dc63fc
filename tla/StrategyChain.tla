--------------------------- MODULE StrategyChain ---------------------------
(***************************************************************************)
(* The strategy walks of crates/verify/src/hd: optimised_strategy and      *)
(* run_strategy_chain of strategy.rs (dimension 4, after the gluing chain  *)
(* of a half) and IsogenyChainDim2::new of dim2.rs (dimension 2, gluing    *)
(* included), with the walk back that evaluates the dual of such a chain   *)
(* (eval_f2_dual of self_contained.rs, dual_eval of dim2.rs).              *)
(*                                                                         *)
(* A saved kernel basis is <<surface, doublings>>: [2^doublings] of the    *)
(* starting basis, pushed to that surface.  Whether a null point is        *)
(* suitable and whether a step is computable are free choices.             *)
(***************************************************************************)
EXTENDS Integers, SequencesExt

CONSTANTS
    MaxLength,   \* chain lengths 0..MaxLength are walked
    TreeLength   \* up to this length, with every strategy and not just the best

ASSUME LengthAssumption ==
    MaxLength \in Nat /\ TreeLength \in Nat /\ TreeLength <= MaxLength

Drivers == {"dim2", "dim4"}

(* Costs in fifths of an isogeny evaluation, so that STRATEGY_MUL_C = 1.6  *)
(* and the 1.0 of dimension 2 are integers.                                *)
DoubleCost(driver) == IF driver = "dim4" THEN 8 ELSE 5
EvalCost == 5

---------------------------------------------------------------------------
(* optimised_strategy.                                                     *)

\* Mutated form of SplitCost: the two halves exchanged in the weights.
HalvesSwapped(t, i, b, mul) == t[i - b].c + t[b].c + (i - b) * mul + b * EvalCost

\* c[i-b] + c[b] + b * mul_c + (i-b) * eval_c
SplitCost(t, i, b, mul) == t[i - b].c + t[b].c + b * mul + (i - b) * EvalCost

\* The first b of 1..i-1 of least cost.
BestSplit(t, i, mul) ==
    CHOOSE b \in 1..(i - 1) :
        /\ \A a \in 1..(i - 1) : SplitCost(t, i, b, mul) <= SplitCost(t, i, a, mul)
        /\ \A a \in 1..(b - 1) : SplitCost(t, i, a, mul) > SplitCost(t, i, b, mul)

\* The entry for i leaves, from those for fewer.
BestEntry(t, i, mul) ==
    IF i = 1 THEN [s |-> <<>>, c |-> 0]
    ELSE LET b == BestSplit(t, i, mul)
         IN  [s |-> <<b>> \o t[i - b].s \o t[b].s, c |-> SplitCost(t, i, b, mul)]

\* The tables s and c for trees of 1..n leaves, filled in order.
StrategyTable(mul) ==
    LET table[n \in Nat] ==
            IF n = 0 THEN <<>>
            ELSE LET t == table[n - 1] IN Append(t, BestEntry(t, n, mul))
    IN  table

OptimisedStrategy(n, mul) == IF n <= 1 THEN <<>> ELSE StrategyTable(mul)[n][n].s
OptimalCost(n, mul)       == IF n <= 1 THEN 0 ELSE StrategyTable(mul)[n][n].c

\* Every strategy of i leaves, from those of fewer: the preorder of a full
\* binary tree, each node naming the doublings that lead to its left child.
Joined(t, i, b) == {<<b>> \o h[1] \o h[2] : h \in t[i - b] \X t[b]}
Composed(t, i)  == IF i = 1 THEN { <<>> } ELSE UNION {Joined(t, i, b) : b \in 1..(i - 1)}

Strategies[n \in Nat] ==
    IF n = 0 THEN <<>>
    ELSE LET t == Strategies[n - 1] IN Append(t, Composed(t, n))

AllStrategies(n) == IF n = 0 THEN { <<>> } ELSE Strategies[n][n]

---------------------------------------------------------------------------
VARIABLES
    driver,     \* which of the two drivers runs
    l,          \* steps asked for
    strategy,   \* the strategy walked
    idx,        \* strat_idx, from 1
    k,          \* the loop variable, from 0
    level,      \* doublings between consecutive saved bases
    elements,   \* kernel_elements / tuple_stack and theta_stack
    cur,        \* the surface the chain stands on
    ready,      \* cur_ready: doubling formulas available on it
    kern,       \* the kernel the last step used
    nulls,      \* the surfaces whose null points were kept, in order
    spent,      \* cost of the doublings and images so far, in fifths
    back,       \* the dual evaluation: surface of the point and the steps left
                \* (-1: not begun, -2: given up)
    pc, result

vars == <<driver, l, strategy, idx, k, level, elements, cur, ready, kern, nulls,
          spent, back, pc, result>>

\* The sums of the first numbers of s.
Sums(s) == LET sum[j \in 0..Len(s)] == IF j = 0 THEN 0 ELSE sum[j - 1] + s[j] IN sum

LevelSum == Sums(level)[Len(level)]

\* Mutated form of Target: one doubling too many.
TargetPast == l - k

Target == l - 1 - k

Init ==
    /\ driver = "dim4" /\ l = 0 /\ strategy = <<>>
    /\ idx = 1 /\ k = 0 /\ level = <<>> /\ elements = <<>>
    /\ cur = 0 /\ ready = TRUE /\ kern = <<0, 0>> /\ nulls = <<>>
    /\ spent = 0 /\ back = <<0, -1>>
    /\ pc = "idle" /\ result = ""

\* The strategy is the optimised one.  That any other would do is what the
\* module's header in the source claims: TLC tries them all on short chains.
Start(d, n) ==
    /\ pc \in {"idle", "returned"}
    /\ driver' = d /\ l' = n
    /\ strategy' \in {OptimisedStrategy(n, DoubleCost(d))}
                        \cup (IF n <= TreeLength THEN AllStrategies(n) ELSE {})
    /\ idx' = 1 /\ k' = 0 /\ level' = <<0>> /\ elements' = << <<0, 0>> >>
    /\ cur' = 0 /\ ready' \in IF d = "dim4" THEN BOOLEAN ELSE {TRUE}
    /\ kern' = <<0, 0>> /\ nulls' = <<0>>
    /\ spent' = 0 /\ back' = <<0, -1>>
    /\ pc' = "walk" /\ result' = ""

Return(r) == pc' = "returned" /\ result' = r

\* while prev != target: double the top basis once more along the strategy.
\* Running off the strategy or off an empty stack panics.
Descend ==
    /\ pc = "walk" /\ k < l /\ LevelSum # Target
    /\ IF ~ready THEN Return("none") /\ UNCHANGED <<level, elements, idx, spent>>
       ELSE IF idx > Len(strategy) \/ elements = <<>>
       THEN pc' = "panicked" /\ UNCHANGED <<level, elements, idx, spent, result>>
       ELSE LET s == strategy[idx]
                top == Last(elements)
            IN  /\ level' = Append(level, s)
                /\ elements' = Append(elements, <<top[1], top[2] + s>>)
                /\ idx' = idx + 1
                /\ spent' = spent + s * DoubleCost(driver)
                /\ UNCHANGED <<pc, result>>
    /\ UNCHANGED <<driver, l, strategy, k, cur, ready, kern, nulls, back>>

\* In dimension 4 a step may not be computable; in dimension 2 only the gluing.
StepFails ==
    /\ pc = "walk" /\ k < l /\ LevelSum = Target
    /\ driver = "dim4" \/ k = 0
    /\ Return("none")
    /\ UNCHANGED <<driver, l, strategy, idx, k, level, elements, cur, ready, kern,
                   nulls, spent, back>>

\* Mutated form of Pushed: the saved bases stay where they were.
NotPushed(els) == Front(els)

\* The saved bases below the kernel, on the next surface.
Pushed(els) == [j \in 1..(Len(els) - 1) |-> <<els[j][1] + 1, els[j][2]>>]

\* The top basis is the kernel; the others are pushed through the isogeny.
Step ==
    /\ pc = "walk" /\ k < l /\ LevelSum = Target
    /\ IF elements = <<>>
       THEN pc' = "panicked"
            /\ UNCHANGED <<k, level, elements, cur, ready, kern, nulls, spent>>
       ELSE /\ kern' = Last(elements)
            /\ level' = Front(level)
            /\ elements' = Pushed(elements)
            /\ spent' = spent + (Len(elements) - 1) * EvalCost
            /\ cur' = cur + 1
            /\ ready' \in IF driver = "dim4" THEN BOOLEAN ELSE {TRUE}
            /\ nulls' = Append(nulls, cur + 1)
            /\ k' = k + 1
            /\ UNCHANGED pc
    /\ UNCHANGED <<driver, l, strategy, idx, back, result>>

\* The loop is over.  A dimension-2 chain without a step has no gluing.
Finish ==
    /\ pc = "walk" /\ k = l
    /\ Return(IF driver = "dim2" /\ l = 0 THEN "none" ELSE "some")
    /\ UNCHANGED <<driver, l, strategy, idx, k, level, elements, cur, ready, kern,
                   nulls, spent, back>>

\* The dual chain is evaluated on a point of the last codomain: one dual step
\* per plain step, in reverse, each dividing by the null point of the surface
\* it reaches.  The gluing of a dimension-2 chain has a dual of its own.
GoBack ==
    /\ pc = "returned" /\ result = "some" /\ back[2] = -1
    /\ back' = <<cur, IF driver = "dim2" THEN l - 1 ELSE l>>
    /\ UNCHANGED <<driver, l, strategy, idx, k, level, elements, cur, ready, kern,
                   nulls, spent, pc, result>>

\* nulls[j] is the null point of surface j - 1.
DividesBy == IF driver = "dim2" THEN nulls[back[2] + 1] ELSE nulls[back[2]]

DualStep ==
    /\ pc = "returned" /\ result = "some" /\ back[2] > 0
    /\ back' = <<DividesBy, back[2] - 1>>
    /\ UNCHANGED <<driver, l, strategy, idx, k, level, elements, cur, ready, kern,
                   nulls, spent, pc, result>>

\* A coordinate of that null point is zero, or the gluing has no dual there.
DualFails ==
    /\ pc = "returned" /\ result = "some" /\ back[2] >= 0
    /\ back' = <<0, -2>>
    /\ UNCHANGED <<driver, l, strategy, idx, k, level, elements, cur, ready, kern,
                   nulls, spent, pc, result>>

Run  == Descend \/ StepFails \/ Step \/ Finish
Next == \/ \E d \in Drivers, n \in 0..MaxLength : Start(d, n)
        \/ Run \/ GoBack \/ DualStep \/ DualFails

Spec == Init /\ [][Next]_vars

---------------------------------------------------------------------------
(* Properties.                                                             *)

TypeOK ==
    /\ driver \in Drivers /\ l \in 0..MaxLength /\ k \in 0..l
    /\ strategy \in Seq(Nat \ {0}) /\ idx \in 1..(Len(strategy) + 1)
    /\ level \in Seq(Nat) /\ elements \in Seq(Nat \X Nat)
    /\ cur \in Nat /\ ready \in BOOLEAN /\ kern \in Nat \X Nat
    /\ nulls \in Seq(Nat) /\ spent \in Nat /\ back \in Nat \X Int
    /\ pc \in {"idle", "walk", "returned", "panicked"}
    /\ result \in {"", "some", "none"}

\* The saved bases stay in step with their levels and with the chain.
InStep ==
    pc = "walk" => /\ Len(level) = Len(elements)
                   /\ \A j \in DOMAIN elements : elements[j][1] = cur
                   /\ elements # <<>> => LevelSum = Last(elements)[2]

\* Every dual step divides by the null point of the surface one step down.
DualInStep ==
    back[2] >= 0 => back[1] = back[2] + (IF driver = "dim2" THEN 1 ELSE 0)

\* Neither strategy[strat_idx] nor the two expect("non-empty kernel stack")
\* ever panics, the doublings never overshoot the target they are compared
\* with by #, a finished chain has consumed its whole strategy, and the saved
\* bases stay in step with their levels and with the chain all the way, as
\* the way back does with the null points it divides by.
WalkInv ==
    /\ pc # "panicked"
    /\ pc = "walk" /\ k < l => LevelSum <= Target
    /\ result = "some" /\ l > 0 => idx = Len(strategy) + 1 /\ elements = <<>>
    /\ InStep
    /\ DualInStep

\* The cost model and the walk agree: a chain costs what the table says when
\* it walks the optimised strategy, and no strategy is cheaper.
CostInv ==
    result = "some" =>
        LET mul == DoubleCost(driver)
        IN  /\ spent >= OptimalCost(l, mul)
            /\ strategy = OptimisedStrategy(l, mul) => spent = OptimalCost(l, mul)

\* "Any valid optimal strategy reproduces the same per-step kernels".
Abstract == INSTANCE IsogenyChain WITH
    len    <- l,
    done   <- cur,
    kern   <- kern,
    status <- CASE pc = "idle" -> "idle"
                [] pc = "returned" -> result
                [] OTHER -> "running"

ImplementsIsogenyChain == Abstract!Spec
============================================================================
