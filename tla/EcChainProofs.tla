--------------------------- MODULE EcChainProofs ---------------------------
(***************************************************************************)
(* For every stack size and every length its counters hold: a chain of     *)
(* 4-isogenies never fills its stack, never takes a counter below 0, gives *)
(* no codomain of a wrong kernel, and is an isogeny chain.                 *)
(*                                                                         *)
(* A split below the top has at least one 4-isogeny left, and each split   *)
(* has at most half of what the one under it has, rounded up to an even    *)
(* number: split i has at most 2 * Pow2[Stack - 1 - i] left.               *)
(***************************************************************************)
EXTENDS EcChain, TLAPS

Split(i) ==
    /\ splits[i].on = curve.on
    /\ todo[i] = call.length - 2 * curve.on - splits[i].dbls
    /\ todo[i] >= 2 /\ todo[i] % 2 = 0
    /\ todo[i] <= 2 * Pow2[Stack - 1 - i]

StackInv == /\ \A i \in Live : Split(i)
            /\ \A i, k \in Live : i < k => todo[k] < todo[i]
            /\ splits[0].dbls = 0

RunInv == /\ call \in Calls /\ call.length >= 2 /\ call.length % 2 = 0
          /\ j = curve.on /\ j <= Steps
          /\ j > 0 => ~call.above
          /\ points.model = "formulas" /\ curve.model = "formulas"
          /\ call.push => points.on = curve.on
          /\ result = ""

ChainInv == /\ TypeOK /\ DeliveredInv
            /\ pc = "walk" => StackInv /\ RunInv
            /\ pc = "idle" => last = NoStep /\ curve.on = 0 /\ call = NoCall

---------------------------------------------------------------------------
(* Lemmas.                                                                 *)

LEMMA Powers ==
    /\ Stack \in Nat /\ Stack >= 1 /\ 0 \in Slots
    /\ \A i \in 0..Stack : Pow2[i] \in Nat /\ Pow2[i] >= 1
    /\ Pow2[0] = 1
    /\ \A i \in Slots : i + 1 < Stack => Pow2[Stack - 1 - i] = 2 * Pow2[Stack - 1 - (i + 1)]
    /\ Pow2[Stack] = 2 * Pow2[Stack - 1]
<1>1. \A k \in 1..Stack : Pow2[k] = 2 * Pow2[k - 1]
    BY Pow2Assumption
<1>2. \A i \in Slots : i + 1 < Stack => Pow2[Stack - 1 - i] = 2 * Pow2[Stack - 1 - (i + 1)]
    <2> SUFFICES ASSUME NEW i \in Slots, i + 1 < Stack
                 PROVE  Pow2[Stack - 1 - i] = 2 * Pow2[Stack - 1 - (i + 1)]
        OBVIOUS
    <2>1. Stack - 1 - i \in 1..Stack /\ Stack - 1 - (i + 1) = (Stack - 1 - i) - 1
        BY StackAssumption DEF Slots
    <2> QED
        BY <2>1, <1>1
<1>3. Stack \in 1..Stack
    BY StackAssumption
<1> QED
    BY <1>1, <1>2, <1>3, StackAssumption, Pow2Assumption DEF Slots

\* A call's arguments.
LEMMA CallFacts ==
    ASSUME NEW c \in Calls
    PROVE  /\ c.length \in Nat /\ c.length < Pow2[Stack]
           /\ c.excess \in Int /\ c.above \in BOOLEAN /\ c.push \in BOOLEAN
<1>1. c.length \in 0..(Pow2[Stack] - 1)
    BY LengthAssumption DEF Calls
<1> QED
    BY <1>1, Powers DEF Calls

\* Half of an even number, rounded up to an even number.
LEMMA Halving ==
    ASSUME NEW t \in Nat, t > 2, t % 2 = 0
    PROVE  /\ Doublings(t) \in Nat /\ Doublings(t) >= 2
           /\ t - Doublings(t) >= 2 /\ (t - Doublings(t)) % 2 = 0
           /\ \A p \in Nat : t <= 4 * p => t - Doublings(t) <= 2 * p
BY SMT DEF Doublings

\* What the variables are, one by one.
LEMMA Types ==
    ASSUME TypeOK
    PROVE  /\ pc \in {"idle", "walk", "returned"} /\ result \in {"", "some", "none"}
           /\ todo \in [Slots -> Nat] /\ splits \in [Slots -> [on : Nat, dbls : Nat]]
           /\ \A i \in Slots : todo[i] \in Nat /\ splits[i].on \in Nat /\ splits[i].dbls \in Nat
           /\ current \in Slots /\ current \in Nat /\ current < Stack /\ j \in Nat
           /\ curve \in Place /\ curve.on \in Nat
           /\ points \in Place /\ points.on \in Nat
           /\ last \in [k : Nat, on : Nat, dbls : Nat]
<1>1. /\ todo \in [Slots -> Nat] /\ splits \in [Slots -> [on : Nat, dbls : Nat]]
      /\ current \in Slots /\ curve \in Place /\ points \in Place /\ j \in Nat
      /\ last \in [k : Nat, on : Nat, dbls : Nat]
      /\ pc \in {"idle", "walk", "returned"} /\ result \in {"", "some", "none"}
    BY DEF TypeOK
<1>2. current \in Nat /\ current < Stack
    <2>1. current \in 0..(Stack - 1)
        BY <1>1 DEF Slots
    <2> QED
        BY <2>1, StackAssumption
<1>3. curve.on \in Nat /\ points.on \in Nat
    BY <1>1 DEF Place
<1>4. \A i \in Slots : todo[i] \in Nat /\ splits[i].on \in Nat /\ splits[i].dbls \in Nat
    BY <1>1
<1> QED
    BY <1>1, <1>2, <1>3, <1>4

\* The values a call starts from.
LEMMA Starts ==
    /\ [on |-> 0, model |-> "formulas"] \in Place
    /\ Identity \in [on : Nat, dbls : Nat] /\ NoStep \in [k : Nat, on : Nat, dbls : Nat]
    /\ \A n \in Nat : [i \in Slots |-> IF i = 0 THEN n ELSE 0] \in [Slots -> Nat]
    /\ [i \in Slots |-> 0] \in [Slots -> Nat]
    /\ [i \in Slots |-> Identity] \in [Slots -> [on : Nat, dbls : Nat]]
<1>1. Identity \in [on : Nat, dbls : Nat] /\ NoStep \in [k : Nat, on : Nat, dbls : Nat]
    BY DEF Identity, NoStep
<1>2. [i \in Slots |-> Identity] \in [Slots -> [on : Nat, dbls : Nat]]
    BY <1>1
<1> QED
    BY <1>1, <1>2 DEF Place, Models

LEMMA ChainInit == Init => ChainInv
<1> SUFFICES ASSUME Init PROVE ChainInv
    OBVIOUS
<1>1. TypeOK
    BY Starts, Powers DEF Init, TypeOK
<1>2. DeliveredInv /\ pc = "idle" /\ last = NoStep /\ curve.on = 0 /\ call = NoCall
    BY DEF Init, DeliveredInv
<1> QED
    BY <1>1, <1>2 DEF ChainInv

\* A new call, refused or not.
LEMMA ChainCall == ASSUME ChainInv, NEW c \in Calls, Call(c) PROVE ChainInv'
<1>0. c.length \in Nat /\ c.length < Pow2[Stack]
    BY CallFacts
<1>1. TypeOK' /\ DeliveredInv'
    <2>1. /\ todo' \in [Slots -> Nat] /\ splits' \in [Slots -> [on : Nat, dbls : Nat]]
          /\ last' \in [k : Nat, on : Nat, dbls : Nat] /\ curve' \in Place /\ points' \in Place
        BY <1>0, Starts DEF Call
    <2>2. /\ pc' \in {"walk", "returned"} /\ result' \in {"", "none"}
          /\ current' \in Slots /\ j' \in Nat /\ call' \in Calls
        BY Powers DEF Call, Return
    <2> QED
        BY <2>1, <2>2 DEF TypeOK, DeliveredInv
<1>2. ASSUME pc' = "walk" PROVE StackInv' /\ RunInv'
    <2>1. c.length % 2 = 0 /\ c.length # 0 /\ c.length >= 2
        <3>1. ~(c.length % 2 # 0 \/ c.length = 0)
            BY <1>2 DEF Call, Return
        <3> QED
            BY <3>1, <1>0
    <2>2. Live' = {0}
        <3>1. current' = 0
            BY DEF Call
        <3> QED
            BY <3>1 DEF Live
    <2>3. todo'[0] = c.length /\ splits'[0] = Identity /\ curve'.on = 0 /\ call' = c
        BY Powers DEF Call
    <2>4. c.length <= 2 * Pow2[Stack - 1 - 0]
        BY <1>0, Powers
    <2>5. Split(0)'
        BY <2>1, <2>3, <2>4, <1>0 DEF Split, Identity
    <2>6. StackInv'
        BY <2>2, <2>3, <2>5 DEF StackInv, Identity
    <2>7. RunInv'
        <3>1. /\ call' = c /\ j' = 0 /\ curve' = [on |-> 0, model |-> "formulas"]
              /\ points' = curve' /\ result' = ""
            BY <1>2 DEF Call, Return
        <3>2. Steps' \in Nat
            <4>1. call' = c
                BY <3>1
            <4>2. \A n \in Nat : n >= 2 => n \div 2 - 1 \in Nat
                OBVIOUS
            <4>3. c.length \div 2 - 1 \in Nat
                BY <4>2, <2>1, <1>0
            <4> QED
                BY <4>1, <4>3 DEF Steps
        <3>3. j' = curve'.on /\ j' <= Steps' /\ ~(j' > 0)
            <4>1. curve'.on = 0
                BY <3>1
            <4>2. j' = 0
                BY <3>1
            <4> QED
                BY <3>2, <4>1, <4>2
        <3>4. /\ call' \in Calls /\ call'.length >= 2 /\ call'.length % 2 = 0
              /\ points'.model = "formulas" /\ curve'.model = "formulas"
              /\ points'.on = curve'.on
            BY <3>1, <2>1
        <3> QED
            BY <3>1, <3>3, <3>4 DEF RunInv
    <2> QED
        BY <2>6, <2>7
<1>3. pc' # "idle"
    BY DEF Call, Return
<1> QED
    BY <1>1, <1>2, <1>3 DEF ChainInv

\* What holds at every step of a walk.
LEMMA Walking ==
    ASSUME ChainInv, pc = "walk"
    PROVE  /\ Stack \in Nat /\ call.length \in Nat /\ call.length >= 2 /\ call.length % 2 = 0
           /\ current \in Nat /\ current < Stack /\ j \in Nat /\ curve.on = j
           /\ Steps \in Nat /\ 2 * Steps = call.length - 2
           /\ call.excess \in Int /\ call.above \in BOOLEAN
           /\ \A i \in Live : /\ i \in Slots /\ Split(i) /\ todo[i] \in Nat
                              /\ splits[i].on \in Nat /\ splits[i].dbls \in Nat
           /\ todo[0] = call.length - 2 * j
<1>1. call \in Calls /\ call.length >= 2 /\ call.length % 2 = 0 /\ StackInv /\ curve.on = j
    BY DEF ChainInv, RunInv
<1>2. call.length \in Nat /\ call.excess \in Int /\ call.above \in BOOLEAN
    BY <1>1, CallFacts
<1>3. Steps \in Nat /\ 2 * Steps = call.length - 2
    BY <1>1, <1>2 DEF Steps
<1>4. current \in Nat /\ current < Stack /\ j \in Nat
    BY Types DEF ChainInv
<1>5. \A i \in Live : /\ i \in Slots /\ Split(i) /\ todo[i] \in Nat
                      /\ splits[i].on \in Nat /\ splits[i].dbls \in Nat
    <2> SUFFICES ASSUME NEW i \in Live
                 PROVE  /\ i \in Slots /\ Split(i) /\ todo[i] \in Nat
                        /\ splits[i].on \in Nat /\ splits[i].dbls \in Nat
        OBVIOUS
    <2>1. i \in Slots /\ Split(i)
        BY <1>1, <1>4, Powers DEF StackInv, Live, Slots
    <2> QED
        BY <2>1, Types DEF ChainInv
<1>6. todo[0] = call.length - 2 * j
    BY <1>1, <1>2, <1>4, <1>5 DEF StackInv, Live, Split
<1> QED
    BY <1>1, <1>2, <1>3, <1>4, <1>5, <1>6, Powers

\* What holds of one live split.
LEMMA SplitFacts ==
    ASSUME ChainInv, pc = "walk", NEW i \in Live
    PROVE  /\ i \in Slots /\ todo[i] \in Nat /\ splits[i].dbls \in Nat
           /\ splits[i].on = curve.on
           /\ todo[i] = call.length - 2 * curve.on - splits[i].dbls
           /\ todo[i] >= 2 /\ todo[i] % 2 = 0
           /\ todo[i] <= 2 * Pow2[Stack - 1 - i] /\ Pow2[Stack - 1 - i] \in Nat
<1>1. i \in Slots /\ Split(i) /\ todo[i] \in Nat /\ splits[i].dbls \in Nat
    BY Walking
<1>2. Stack - 1 - i \in 0..Stack
    BY <1>1, StackAssumption DEF Slots
<1>3. Pow2[Stack - 1 - i] \in Nat
    BY <1>2, Powers
<1> QED
    BY <1>1, <1>3 DEF Split

\* The stack has room for one more split.
LEMMA Room ==
    ASSUME ChainInv, pc = "walk", todo[current] # 2
    PROVE  current + 1 < Stack
<1>1. current \in Live /\ Split(current) /\ todo[current] \in Nat
    BY Walking DEF Live
<1>2. CASE current = Stack - 1
    <2>1. todo[current] <= 2 * Pow2[0]
        BY <1>1, <1>2, Powers DEF Split
    <2> QED
        BY <2>1, <1>1, Powers DEF Split
<1>3. CASE current # Stack - 1
    BY <1>3, Walking
<1> QED
    BY <1>2, <1>3

\* One more split, doubled down from the top one.
LEMMA ChainDescend == ASSUME ChainInv, Descend PROVE ChainInv'
<1> DEFINE t == todo[current]
           d == Doublings(todo[current])
<1>0. pc = "walk" /\ t # 2 /\ current + 1 < Stack
    BY Room DEF Descend
<1>1. current \in Live /\ current \in Slots /\ Split(current) /\ t \in Nat /\ t > 2 /\ t % 2 = 0
    BY <1>0, Walking DEF Live, Split
<1>2. d \in Nat /\ d >= 2 /\ t - d >= 2 /\ (t - d) % 2 = 0
    BY <1>1, Halving
<1>3. t - d <= 2 * Pow2[Stack - 1 - (current + 1)]
    <2>1. current \in 0..Stack /\ Stack - 1 - (current + 1) \in 0..Stack
        BY <1>0, Walking
    <2>2. t <= 4 * Pow2[Stack - 1 - (current + 1)]
        BY <1>0, <1>1, <2>1, Powers DEF Split
    <2> QED
        BY <2>1, <2>2, <1>1, Halving, Powers
<1>4. /\ current' = current + 1
      /\ splits' = [splits EXCEPT ![current + 1] = Doubled(splits[current], d)]
      /\ todo' = [todo EXCEPT ![current + 1] = t - d]
      /\ UNCHANGED <<call, pc, result, j, curve, points, last>>
    BY <1>0, Walking DEF Descend
<1>5. current + 1 \in Slots /\ current \in Nat /\ Stack \in Nat
    BY <1>0, Walking, Powers DEF Slots
<1>6. Doubled(splits[current], d) = [on |-> curve.on, dbls |-> splits[current].dbls + d]
    BY <1>1 DEF Doubled, Split
<1>7. splits[current].dbls \in Nat /\ curve.on \in Nat
    BY <1>0, <1>1, Walking
<1>8. /\ todo'[current + 1] = t - d
      /\ splits'[current + 1] = [on |-> curve.on, dbls |-> splits[current].dbls + d]
      /\ \A i \in Live : todo'[i] = todo[i] /\ splits'[i] = splits[i]
    <2>1. \A i \in Live : i \in Slots /\ i # current + 1
        BY <1>0, <1>5, Walking DEF Live
    <2>2. todo \in [Slots -> Nat] /\ splits \in [Slots -> [on : Nat, dbls : Nat]]
        BY Types DEF ChainInv
    <2> QED
        BY <2>1, <2>2, <1>4, <1>5, <1>6
<1>9. TypeOK' /\ DeliveredInv'
    <2>1. todo' \in [Slots -> Nat]
        <3>1. t - d \in Nat
            BY <1>1, <1>2
        <3>2. todo \in [Slots -> Nat]
            BY Types DEF ChainInv
        <3> QED
            BY <3>1, <3>2, <1>4, <1>5
    <2>2. splits' \in [Slots -> [on : Nat, dbls : Nat]]
        <3>1. Doubled(splits[current], d) \in [on : Nat, dbls : Nat]
            BY <1>2, <1>6, <1>7
        <3>2. splits \in [Slots -> [on : Nat, dbls : Nat]]
            BY Types DEF ChainInv
        <3> QED
            BY <3>1, <3>2, <1>4, <1>5
    <2> QED
        BY <2>1, <2>2, <1>4, <1>5 DEF ChainInv, TypeOK, DeliveredInv
<1>10. StackInv'
    <2>1. Live' = Live \cup {current + 1}
        BY <1>4, <1>5 DEF Live
    <2>2. \A i : i = current + 1 => Split(i)'
        <3>1. t = call.length - 2 * curve.on - splits[current].dbls
            BY <1>1 DEF Split
        <3>2. call.length \in Nat
            BY <1>0, Walking
        <3>3. t - d = call.length - 2 * curve.on - (splits[current].dbls + d)
            BY <3>1, <3>2, <1>1, <1>2, <1>7
        <3>4. UNCHANGED <<call, curve>>
            BY <1>4
        <3> HIDE DEF t, d
        <3> QED
            BY <3>3, <3>4, <1>2, <1>3, <1>8 DEF Split
    <2>3. \A i \in Live : Split(i)'
        BY <1>0, <1>4, <1>8, Walking DEF Split
    <2>4. \A i, k \in Live' : i < k => todo'[k] < todo'[i]
        <3> SUFFICES ASSUME NEW i \in Live', NEW k \in Live', i < k PROVE todo'[k] < todo'[i]
            OBVIOUS
        <3>0. i \in Live
            BY <2>1, <1>4, <1>5 DEF Live
        <3>1. CASE k \in Live
            BY <3>0, <3>1, <1>0, <1>8 DEF ChainInv, StackInv
        <3>2. CASE k = current + 1
            <4>1. t <= todo[i]
                BY <3>0, <1>0, <1>1, <1>5, Walking DEF ChainInv, StackInv, Live
            <4> QED
                BY <4>1, <3>0, <3>2, <1>0, <1>1, <1>2, <1>8, Walking
        <3> QED
            BY <3>1, <3>2, <2>1
    <2>5. splits'[0].dbls = 0
        BY <1>0, <1>5, <1>8 DEF ChainInv, StackInv, Live
    <2> QED
        <3>1. \A i \in Live' : Split(i)'
            BY <2>1, <2>2, <2>3
        <3> QED
            BY <3>1, <2>4, <2>5 DEF StackInv
<1>11. RunInv'
    BY <1>0, <1>4 DEF ChainInv, RunInv, Steps
<1> QED
    BY <1>0, <1>4, <1>9, <1>10, <1>11 DEF ChainInv

\* A kernel the first step rejects.
LEMMA ChainReject == ASSUME ChainInv, Reject PROVE ChainInv'
<1>1. TypeOK'
    BY DEF ChainInv, TypeOK, Reject, Return
<1>2. result' = "none" /\ pc' = "returned"
    BY DEF Reject, Return
<1> QED
    BY <1>1, <1>2 DEF ChainInv, DeliveredInv

\* One 4-isogeny: there is a split under the top to go on with, because the
\* kernel itself has more than one left.
LEMMA ChainIsogeny == ASSUME ChainInv, Isogeny PROVE ChainInv'
<1>0. pc = "walk" /\ j < Steps /\ todo[current] = 2 /\ ~RejectedFirst
    BY DEF Isogeny
<1>1. current # 0 /\ current - 1 \in Slots /\ current - 1 \in Nat /\ current \in Nat
    <2>1. todo[0] > 2
        BY <1>0, Walking
    <2>2. current # 0
        BY <2>1, <1>0
    <2> QED
        BY <2>2, <1>0, Walking DEF Slots
<1>2. /\ current' = current - 1 /\ j' = j + 1
      /\ last' = [k |-> j + 1, on |-> splits[current].on, dbls |-> splits[current].dbls]
      /\ curve' = [curve EXCEPT !.on = @ + 1]
      /\ splits' = [i \in Slots |-> IF i \in Pushed THEN [splits[i] EXCEPT !.on = @ + 1]
                                                    ELSE splits[i]]
      /\ todo' = [i \in Slots |-> IF i \in Pushed THEN todo[i] - 2 ELSE todo[i]]
      /\ points' = IF call.push THEN [points EXCEPT !.on = @ + 1] ELSE points
      /\ UNCHANGED <<call, pc, result>>
    BY <1>1 DEF Isogeny
<1>3. /\ todo \in [Slots -> Nat] /\ splits \in [Slots -> [on : Nat, dbls : Nat]]
      /\ curve \in Place /\ points \in Place /\ current \in Slots /\ j \in Nat
      /\ \A i \in Slots : todo[i] \in Nat /\ splits[i].on \in Nat /\ splits[i].dbls \in Nat
      /\ curve.on \in Nat /\ points.on \in Nat
    BY Types DEF ChainInv
\* The pushed splits are those still live, and have more than one step left.
<1>4. Live' = Pushed /\ \A i \in Pushed : i \in Live /\ i \in Slots
    <2>1. Live' = 0..(current - 1)
        BY <1>2 DEF Live
    <2>2. Pushed = {i \in Slots : i < current}
        BY DEF Pushed
    <2> QED
        <3>1. \A i : i \in 0..(current - 1) <=> i \in 0..(Stack - 1) /\ i < current
            BY <1>0, <1>1, Walking
        <3>2. \A i : i \in 0..(current - 1) => i \in 0..current
            BY <1>1
        <3> QED
            BY <2>1, <2>2, <3>1, <3>2 DEF Live, Slots
<1>5. \A i \in Pushed : todo[i] >= 4
    <2> SUFFICES ASSUME NEW i \in Pushed PROVE todo[i] >= 4
        OBVIOUS
    <2>1. i \in Live /\ current \in Live /\ i < current
        BY <1>1, <1>4 DEF Pushed, Live
    <2>2. todo[current] < todo[i]
        BY <2>1, <1>0 DEF ChainInv, StackInv
    <2>3. todo[i] \in Nat /\ todo[i] % 2 = 0
        BY <2>1, <1>0, Walking DEF Split
    <2> QED
        BY <2>2, <2>3, <1>0
<1>6. \A i \in Pushed : /\ todo'[i] = todo[i] - 2
                        /\ splits'[i] = [splits[i] EXCEPT !.on = @ + 1]
                        /\ splits'[i].on = splits[i].on + 1 /\ splits'[i].dbls = splits[i].dbls
    <2> SUFFICES ASSUME NEW i \in Pushed
                 PROVE  /\ todo'[i] = todo[i] - 2
                        /\ splits'[i] = [splits[i] EXCEPT !.on = @ + 1]
                        /\ splits'[i].on = splits[i].on + 1 /\ splits'[i].dbls = splits[i].dbls
        OBVIOUS
    <2>1. i \in Slots
        BY <1>4
    <2>2. todo'[i] = todo[i] - 2 /\ splits'[i] = [splits[i] EXCEPT !.on = @ + 1]
        BY <2>1, <1>2
    <2>3. splits[i] \in [on : Nat, dbls : Nat]
        BY <2>1, <1>3
    <2> QED
        BY <2>2, <2>3
<1>7. curve'.on = curve.on + 1 /\ curve'.model = curve.model /\ curve' \in Place
    BY <1>2, <1>3 DEF Place
<1>8. points' \in Place
    BY <1>2, <1>3 DEF Place
<1>9. TypeOK'
    <2>1. todo' \in [Slots -> Nat]
        <3> SUFFICES ASSUME NEW i \in Slots PROVE todo'[i] \in Nat
            BY <1>2
        <3>1. CASE i \in Pushed
            <4>1. todo[i] \in Nat /\ todo[i] >= 4
                BY <3>1, <1>3, <1>5
            <4>2. todo'[i] = todo[i] - 2
                BY <3>1, <1>6
            <4> QED
                BY <4>1, <4>2
        <3>2. CASE i \notin Pushed
            BY <3>2, <1>2, <1>3
        <3> QED
            BY <3>1, <3>2
    <2>2. splits' \in [Slots -> [on : Nat, dbls : Nat]]
        <3> SUFFICES ASSUME NEW i \in Slots PROVE splits'[i] \in [on : Nat, dbls : Nat]
            BY <1>2
        <3>0. splits[i] \in [on : Nat, dbls : Nat]
            BY <1>3
        <3>1. CASE i \in Pushed
            <4>1. splits'[i] = [splits[i] EXCEPT !.on = @ + 1]
                BY <3>1, <1>6
            <4> QED
                BY <3>0, <4>1
        <3>2. CASE i \notin Pushed
            BY <3>0, <3>2, <1>2
        <3> QED
            BY <3>1, <3>2
    <2>3. last' \in [k : Nat, on : Nat, dbls : Nat]
        BY <1>2, <1>3
    <2>4. current' \in Slots /\ j' \in Nat
        BY <1>1, <1>2, <1>3
    <2>5. pc' = pc /\ result' = result /\ call' = call
        BY <1>2
    <2> QED
        BY <2>1, <2>2, <2>3, <2>4, <2>5, <1>7, <1>8 DEF ChainInv, TypeOK
<1>10. StackInv'
    <2>1. \A i \in Pushed : Split(i)'
        <3> SUFFICES ASSUME NEW i \in Pushed PROVE Split(i)'
            OBVIOUS
        <3>0. i \in Live /\ todo[i] >= 4
            BY <1>4, <1>5
        <3>1. /\ i \in Slots /\ todo[i] \in Nat /\ splits[i].dbls \in Nat
              /\ splits[i].on = curve.on
              /\ todo[i] = call.length - 2 * curve.on - splits[i].dbls
              /\ todo[i] % 2 = 0
              /\ todo[i] <= 2 * Pow2[Stack - 1 - i] /\ Pow2[Stack - 1 - i] \in Nat
            BY <3>0, <1>0, SplitFacts
        <3>2. /\ todo'[i] = todo[i] - 2 /\ splits'[i].on = splits[i].on + 1
              /\ splits'[i].dbls = splits[i].dbls /\ curve'.on = curve.on + 1
            BY <1>6, <1>7
        <3>3. call.length \in Nat /\ curve.on \in Nat
            BY <1>0, <1>3, Walking
        <3>4. todo'[i] = call.length - 2 * curve'.on - splits'[i].dbls
            BY <3>1, <3>2, <3>3
        <3>5. todo'[i] >= 2 /\ todo'[i] % 2 = 0
            BY <3>0, <3>1, <3>2
        <3>6. todo'[i] <= 2 * Pow2[Stack - 1 - i]
            BY <3>0, <3>1, <3>2
        <3>7. splits'[i].on = curve'.on /\ call' = call
            BY <3>1, <3>2, <1>2
        <3> QED
            BY <3>4, <3>5, <3>6, <3>7 DEF Split
    <2>2. \A i, k \in Pushed : i < k => todo'[k] < todo'[i]
        <3> SUFFICES ASSUME NEW i \in Pushed, NEW k \in Pushed, i < k
                     PROVE  todo'[k] < todo'[i]
            OBVIOUS
        <3>1. todo[k] < todo[i]
            BY <1>0, <1>4 DEF ChainInv, StackInv
        <3>2. todo[k] \in Nat /\ todo[i] \in Nat
            BY <1>3, <1>4
        <3>3. todo'[k] = todo[k] - 2 /\ todo'[i] = todo[i] - 2
            BY <1>6
        <3> QED
            BY <3>1, <3>2, <3>3
    <2>3. 0 \in Pushed
        BY <1>1, Powers DEF Pushed
    <2>4. splits'[0].dbls = 0
        BY <2>3, <1>0, <1>6 DEF ChainInv, StackInv
    <2> QED
        BY <2>1, <2>2, <2>4, <1>4 DEF StackInv
<1>11. RunInv'
    <2>1. ~call.above
        <3>1. CASE j > 0
            BY <3>1, <1>0 DEF ChainInv, RunInv
        <3>2. CASE j = 0
            <4>1. ~Above(splits[current])
                BY <3>2, <1>0 DEF RejectedFirst
            <4>2. splits[current].on = 0
                <5>1. current \in Live
                    BY <1>3, <1>1 DEF Live
                <5> QED
                    BY <5>1, <3>2, <1>0, SplitFacts, Walking
            <4> QED
                BY <4>1, <4>2 DEF Above
        <3> QED
            BY <3>1, <3>2, <1>3
    <2>2. j' = curve'.on /\ j' <= Steps'
        <3>1. Steps' = Steps
            BY <1>2 DEF Steps
        <3>2. Steps \in Nat /\ curve.on = j
            BY <1>0, Walking
        <3> QED
            BY <3>1, <3>2, <1>0, <1>2, <1>3, <1>7
    <2>3. /\ points'.model = "formulas" /\ curve'.model = "formulas"
          /\ (call.push => points'.on = curve'.on)
        BY <1>0, <1>2, <1>3, <1>7 DEF ChainInv, RunInv, Place
    <2>4. call' = call /\ result' = result
        BY <1>2
    <2> QED
        BY <2>1, <2>2, <2>3, <2>4, <1>0 DEF ChainInv, RunInv
<1>12. DeliveredInv' /\ pc' = "walk"
    <2>1. result' = ""
        BY <1>11 DEF RunInv
    <2> QED
        BY <2>1, <1>0, <1>2 DEF DeliveredInv
<1> QED
    BY <1>9, <1>10, <1>11, <1>12 DEF ChainInv

\* The end of the loop leaves the kernel's own point, and the check on it.
LEMMA LoopEnds ==
    ASSUME ChainInv, pc = "walk", j >= Steps
    PROVE  current = 0 /\ todo[0] = 2 /\ j = Steps
<1>1. j = Steps
    <2>1. j <= Steps
        BY DEF ChainInv, RunInv
    <2> QED
        BY <2>1, Walking
<1>2. todo[0] = 2
    BY <1>1, Walking
<1>3. current = 0
    <2> SUFFICES ASSUME current # 0 PROVE FALSE
        OBVIOUS
    <2>1. 0 \in Live /\ current \in Live /\ 0 < current
        BY Walking DEF Live
    <2>2. todo[current] < todo[0]
        BY <2>1 DEF ChainInv, StackInv
    <2>3. todo[current] >= 2 /\ todo[current] \in Nat
        BY <2>1, Walking DEF Split
    <2> QED
        BY <2>2, <2>3, <1>2
<1> QED
    BY <1>1, <1>2, <1>3

LEMMA ChainFinish == ASSUME ChainInv, Finish PROVE ChainInv'
<1>0. pc = "walk" /\ j >= Steps /\ pc' = "returned" /\ result' \in {"some", "none"}
    BY DEF Finish, Return
<1>1. TypeOK'
    <2>1. curve' \in Place
        BY Types DEF ChainInv, Finish, Place, CodomainModel, Models
    <2>2. UNCHANGED <<call, todo, splits, current, j, points, last>>
        BY DEF Finish
    <2> QED
        BY <1>0, <2>1, <2>2 DEF ChainInv, TypeOK
<1>2. DeliveredInv'
    <2> SUFFICES ASSUME result' = "some"
                 PROVE  call.excess = 0 /\ ~call.above /\ (call.push => points = curve')
        BY DEF DeliveredInv, Finish
    <2>1. ~LastRejected /\ curve' = [curve EXCEPT !.model = CodomainModel]
        BY DEF Finish, Return
    <2>2. OrderBits(splits[0]) = 2 /\ ~Above(splits[0])
        BY <2>1 DEF LastRejected, OfOrderFour
    <2>3. 0 \in Live /\ todo[0] = 2 /\ splits[0].dbls = 0 /\ splits[0].on = curve.on
        <3>1. 0 \in Live
            BY <1>0, LoopEnds DEF Live
        <3> QED
            BY <3>1, <1>0, LoopEnds, SplitFacts DEF ChainInv, StackInv
    <2>4. call.length - 2 * curve.on = 2 /\ call.excess \in Int /\ call.length \in Nat
        <3>1. todo[0] = call.length - 2 * curve.on - splits[0].dbls
            BY <2>3, <1>0, SplitFacts
        <3>2. /\ call.excess \in Int /\ call.length \in Nat /\ curve.on \in Nat
            BY <1>0, Walking
        <3> QED
            BY <2>3, <3>1, <3>2
    <2>5. call.excess = 0
        <3>1. call.length + call.excess - 0 - 2 * curve.on = 2
            BY <2>2, <2>3 DEF OrderBits
        <3>2. curve.on \in Nat
            BY <1>0, Walking
        <3>3. \A a, b \in Nat, e \in Int : a - 2 * b = 2 /\ a + e - 0 - 2 * b = 2 => e = 0
            OBVIOUS
        <3> QED
            BY <2>4, <3>1, <3>2, <3>3
    <2>6. ~call.above
        <3>1. CASE j > 0
            BY <3>1, <1>0 DEF ChainInv, RunInv
        <3>2. CASE j = 0
            BY <3>2, <2>2, <2>3, <1>0, Walking DEF Above
        <3> QED
            BY <3>1, <3>2, <1>0, Walking
    <2>7. ASSUME call.push PROVE points = curve'
        <3>1. curve' = curve
            <4>1. curve \in Place /\ curve.model = "formulas"
                BY <1>0, Types DEF ChainInv, RunInv
            <4> QED
                BY <4>1, <2>1, <2>7 DEF Place, CodomainModel
        <3>2. points \in Place /\ curve \in Place /\ points.on = curve.on /\ points.model = curve.model
            BY <2>7, <1>0, Types DEF ChainInv, RunInv
        <3> QED
            BY <3>1, <3>2 DEF Place
    <2> QED
        BY <2>5, <2>6, <2>7
<1> QED
    BY <1>0, <1>1, <1>2 DEF ChainInv

LEMMA ChainNext == ChainInv /\ [Next]_vars => ChainInv'
<1> SUFFICES ASSUME ChainInv, [Next]_vars PROVE ChainInv'
    OBVIOUS
<1>1. CASE Next
    BY <1>1, ChainCall, ChainDescend, ChainReject, ChainIsogeny, ChainFinish DEF Next, Run
<1>2. CASE UNCHANGED vars
    <2> USE <1>2 DEF vars
    <2>1. TypeOK' /\ DeliveredInv'
        BY DEF ChainInv, TypeOK, DeliveredInv
    <2>2. StackInv => StackInv'
        BY DEF StackInv, Live, Split
    <2>3. RunInv => RunInv'
        BY DEF RunInv, Steps
    <2> QED
        BY <2>1, <2>2, <2>3 DEF ChainInv
<1> QED
    BY <1>1, <1>2

\* The inductive invariant.
THEOREM ChainCorrect == Spec => []ChainInv
<1> QED
    BY ChainInit, ChainNext, PTL DEF Spec

\* Types: no counter falls below 0, the top of the stack neither, and no call
\* ends in a panic.
THEOREM EcTypes == Spec => []TypeOK
<1>1. ChainInv => TypeOK
    BY DEF ChainInv
<1> QED
    BY <1>1, ChainCorrect, PTL

\* The splits keep up with the chain, and the loop leaves the kernel's own
\* point with order 4.
THEOREM SplitsCorrect == Spec => []SplitsInv
<1>1. ChainInv => SplitsInv
    <2> SUFFICES ASSUME ChainInv, pc = "walk"
                 PROVE  /\ \A i \in Live :
                              /\ splits[i].on = curve.on
                              /\ todo[i] = call.length - 2 * curve.on - splits[i].dbls
                              /\ todo[i] >= 2 /\ todo[i] % 2 = 0
                        /\ j >= Steps => current = 0 /\ todo[0] = 2
        BY DEF SplitsInv
    <2> QED
        BY SplitFacts, LoopEnds
<1> QED
    BY <1>1, ChainCorrect, PTL

\* A stack of Stack slots is enough for every length below Pow2[Stack]: with
\* 16 slots, for every length a u16 holds.
THEOREM DepthCorrect == Spec => []DepthInv
<1>1. ChainInv => DepthInv
    BY Room DEF DepthInv
<1> QED
    BY <1>1, ChainCorrect, PTL

\* No codomain is returned for a kernel of another order or above (0, 0).
THEOREM DeliveredCorrect == Spec => []DeliveredInv
<1>1. ChainInv => DeliveredInv
    BY DEF ChainInv
<1> QED
    BY <1>1, ChainCorrect, PTL

---------------------------------------------------------------------------
(* The chain is an isogeny chain.                                          *)

LEMMA RefinesInit == Init => Abstract!Init
<1> SUFFICES ASSUME Init PROVE Abstract!Init
    OBVIOUS
<1>1. call.length = 0 /\ last.k = 0 /\ curve.on = 0 /\ pc = "idle"
    BY DEF Init, NoCall, NoStep
<1> QED
    BY <1>1 DEF Abstract!Init, Abstract!NoKernel, Length, KernelUsed, Status

LEMMA RefinesCall ==
    ASSUME ChainInv, NEW c \in Calls, Call(c)
    PROVE  Abstract!Begin \/ Abstract!GiveUp
<1>1. Status # "running"
    <2>1. pc \in {"idle", "returned"} /\ result \in {"", "some", "none"}
        BY Types DEF ChainInv, Call
    <2> QED
        BY <2>1 DEF Status
<1>2. curve'.on = 0 /\ last'.k = 0 /\ call' = c
    BY DEF Call, NoStep
<1>3. KernelUsed' = <<0, 0>>
    BY <1>2 DEF KernelUsed
<1>4. Length' \in Nat
    <2>1. c.length \in Nat
        BY CallFacts
    <2>2. \A n \in Nat : ~(n < 2) => n \div 2 - 1 \in Nat
        OBVIOUS
    <2> QED
        BY <1>2, <2>1, <2>2 DEF Length, Steps
<1>5. pc' = "walk" \/ (pc' = "returned" /\ result' = "none")
    BY DEF Call, Return
<1>6. Status' = "running" \/ Status' = "none"
    BY <1>5 DEF Status
<1> QED
    BY <1>1, <1>2, <1>3, <1>4, <1>6 DEF Abstract!Begin, Abstract!GiveUp, Abstract!NoKernel

LEMMA RefinesIsogeny == ASSUME ChainInv, Isogeny PROVE Abstract!Isogeny
<1>0. pc = "walk" /\ j < Steps /\ todo[current] = 2 /\ UNCHANGED call
    BY DEF Isogeny
<1>1. pc' = "walk" /\ curve'.on = j + 1
    <2>1. pc' # "panicked"
        BY ChainIsogeny DEF ChainInv, TypeOK
    <2>2. curve' = [curve EXCEPT !.on = @ + 1] /\ curve \in Place
        BY Types DEF ChainInv, Isogeny
    <2> QED
        BY <1>0, <2>1, <2>2, Walking DEF Isogeny, Place
<1>2. current \in Live
    BY <1>0, Walking DEF Live
<1>3. /\ splits[current].on = j /\ splits[current].dbls \in Nat
      /\ 2 = call.length - 2 * j - splits[current].dbls
    BY <1>0, <1>2, SplitFacts, Walking
<1>4. /\ last'.k = j + 1 /\ last'.on = j /\ last'.dbls = splits[current].dbls
    BY <1>3 DEF Isogeny
<1>5. Length = Steps /\ Length' = Steps /\ Steps \in Nat /\ curve.on = j /\ j \in Nat
    BY <1>0, Walking DEF Length, Steps
<1>6. (splits[current].dbls - 2) \div 2 = Steps - j - 1
    <2>1. call.length \in Nat /\ 2 * Steps = call.length - 2 /\ Steps \in Nat /\ j \in Nat
        BY <1>0, Walking
    <2>2. splits[current].dbls - 2 = 2 * (Steps - j - 1)
        BY <2>1, <1>3
    <2>3. \A m \in Int : (2 * m) \div 2 = m
        OBVIOUS
    <2>4. Steps - j - 1 \in Int
        BY <2>1
    <2> QED
        BY <2>2, <2>3, <2>4
<1>7. KernelUsed' = <<j, Steps - j - 1>>
    <2>1. last'.k # 0
        BY <1>4, <1>5
    <2> QED
        BY <2>1, <1>4, <1>6 DEF KernelUsed
<1>8. Status = "running" /\ Status' = "running"
    BY <1>0, <1>1 DEF Status
<1> QED
    BY <1>0, <1>1, <1>5, <1>7, <1>8 DEF Abstract!Isogeny

LEMMA RefinesOther ==
    ASSUME ChainInv, Descend \/ Reject \/ Finish
    PROVE  UNCHANGED Abstract!vars \/ Abstract!GiveUp \/ Abstract!Deliver
<1>1. UNCHANGED <<call, last>> /\ pc = "walk" /\ curve'.on = curve.on
    <2>1. curve' = curve \/ curve' = [curve EXCEPT !.model = CodomainModel]
        BY DEF Descend, Reject, Finish
    <2>2. curve \in Place
        BY Types DEF ChainInv
    <2>3. curve'.on = curve.on
        BY <2>1, <2>2 DEF Place
    <2> QED
        BY <2>3 DEF Descend, Reject, Finish
<1>2. Status = "running" /\ UNCHANGED <<Length, KernelUsed>>
    BY <1>1 DEF Status, Length, Steps, KernelUsed
<1>3. CASE Descend
    <2>1. pc = "walk" /\ todo[current] # 2
        BY <1>3 DEF Descend
    <2>2. ~(current + 1 >= Stack)
        BY <2>1, Room, Walking
    <2>3. pc' = "walk"
        BY <2>1, <2>2, <1>3 DEF Descend
    <2> QED
        BY <2>3, <1>1, <1>2 DEF Status, Abstract!vars
<1>4. CASE pc' = "returned" /\ result' = "none"
    <2>1. Status' = "none"
        BY <1>4 DEF Status
    <2> QED
        BY <2>1, <1>1, <1>2 DEF Abstract!GiveUp
<1>5. CASE Finish /\ pc' = "returned" /\ result' = "some"
    <2>1. Status' = "some"
        BY <1>5 DEF Status
    <2>2. curve.on = Length
        BY <1>1, <1>5, LoopEnds, Walking DEF Finish, Length
    <2> QED
        BY <2>1, <2>2, <1>1, <1>2 DEF Abstract!Deliver
<1> QED
    BY <1>3, <1>4, <1>5 DEF Reject, Finish, Return

\* Whatever the strategy shares or recomputes, the chain computes one 4-isogeny
\* after another, each from the multiple of [4] kernel that is right for it.
THEOREM EcRefinement == Spec => ImplementsIsogenyChain
<1>1. Init => Abstract!Init
    BY RefinesInit
<1>2. ChainInv /\ [Next]_vars => [Abstract!Next]_(Abstract!vars)
    <2>1. UNCHANGED vars => UNCHANGED Abstract!vars
        BY DEF vars, Abstract!vars, Length, Steps, KernelUsed, Status
    <2> QED
        BY <2>1, RefinesCall, RefinesIsogeny, RefinesOther DEF Next, Run, Abstract!Next
<1> QED
    BY <1>1, <1>2, ChainCorrect, PTL DEF ImplementsIsogenyChain, Abstract!Spec, Spec
============================================================================
