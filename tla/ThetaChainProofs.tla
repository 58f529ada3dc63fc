------------------------- MODULE ThetaChainProofs -------------------------
(***************************************************************************)
(* Proofs about ThetaChain, for every depth of the stack, every length a   *)
(* counter of the matching width can hold and every number of points.      *)
(***************************************************************************)
EXTENDS ThetaChain, TLAPS

---------------------------------------------------------------------------
(* Facts about the constants and the arguments.                            *)

\* The bounds as the numbers they are; 2^16 is positive, so % is defined on it.
LEMMA Bounds ==
  /\ Stack \in Nat /\ Stack >= 1
  /\ Word \in Nat /\ Word >= 2
  /\ \A n \in Lengths : n \in Nat /\ n < Word
  /\ HalveFrom \in Nat /\ HalveFrom >= 2
  /\ MaxPoints \in Nat /\ MaxRecorded \in Nat
  /\ \A m \in PointCounts : m \in Nat
  <1>1. Pow2[Stack] = 2 * Pow2[Stack - 1] /\ Pow2[Stack - 1] \in Nat \ {0}
    BY StackAssumption, Pow2Assumption
  <1>2. Word \in Nat /\ Word >= 2
    BY <1>1, StackAssumption, WordAssumption
  <1>3. \A n \in Lengths : n \in Nat /\ n < Word
    BY <1>2, WordAssumption
  <1>. QED  BY <1>2, <1>3, StackAssumption, LimitAssumption

\* What the entry points have made sure of when a chain starts.
LEMMA CallFacts ==
  ASSUME NEW c \in Calls
  PROVE  /\ c.api \in Apis /\ c.n \in Nat /\ c.n < Word /\ c.mode \in Modes
         /\ c.coords \in {"regular", "dual"}
         /\ c.api # "structure" => c.coords = "regular"
         /\ ~Refused(c) => /\ c.n >= 2
                           /\ Staged(c) => c.n >= 3
                           /\ c.api = "recorded" => c.n - 2 <= MaxRecorded
                           /\ Points(c) \in 0..MaxPoints
  <1>1. /\ c.api \in Apis /\ c.n \in Lengths /\ c.mode \in Modes
        /\ c.special \in PointCounts /\ c.general \in PointCounts
        /\ c.coords \in {"regular", "dual"}
        /\ c.api # "structure" => c.coords = "regular"
    BY DEF Calls
  <1>2. c.n \in Nat /\ c.n < Word /\ c.special \in Nat /\ c.general \in Nat
    BY <1>1, Bounds
  <1>3. ASSUME ~Refused(c) PROVE /\ c.n >= 2
                                 /\ Staged(c) => c.n >= 3
                                 /\ c.api = "recorded" => c.n - 2 <= MaxRecorded
                                 /\ Points(c) \in 0..MaxPoints
    BY <1>2, <1>3, Bounds DEF Refused, Points
  <1>. QED  BY <1>1, <1>2, <1>3

---------------------------------------------------------------------------
(* Type correctness.  Two bounds that are not types keep the types alive:  *)
(* the gluing never runs on an empty stack, and a return trip has no more  *)
(* steps left than the cache has surfaces.                                 *)

TInv == /\ TypeOK
        /\ pc \in {"space", "gluing"} => current >= 0
        /\ back.left <= Len(cache)

LEMMA EmptyTypes ==
  /\ Zero \in Entry
  /\ NoStage.on \in Nat /\ IsPointList(NoStage.pts) /\ IsPointList(<<>>)
  /\ NoStep \in Kernel
  /\ <<>> \in Seq(Nat) /\ Len(<<>>) = 0
  <1>1. <<>> \in [1..0 -> Placed]
    OBVIOUS
  <1>2. IsPointList(<<>>)
    BY <1>1, Bounds DEF IsPointList
  <1>. QED  BY <1>2 DEF Zero, Coords, NoStage, NoStep, Entry, Kernel, Checks

\* The arguments under way, be there a call or none yet.
LEMMA CallType ==
  ASSUME ControlType
  PROVE  call.n \in Nat /\ call.n < Word /\ call.coords \in {"regular", "dual"}
  <1>1. CASE call \in Calls
    BY <1>1, CallFacts
  <1>2. CASE call = NoCall
    BY <1>2, Bounds DEF NoCall
  <1>. QED  BY <1>1, <1>2 DEF ControlType

LEMMA TypeInit == Init => TInv
  <1>. SUFFICES ASSUME Init PROVE TInv
    OBVIOUS
  <1>i. /\ space = 1 /\ pow = 1 /\ current = 0 /\ step = 1 /\ progress = 0
        /\ codomain = [on |-> 0, coords |-> "none"] /\ back = [on |-> 0, left |-> 0]
        /\ cache = <<>> /\ pts = <<>> /\ last = NoStep /\ snapshot = NoStage
    BY DEF Init
  <1>1. ControlType
    BY DEF ControlType, Init
  <1>2. DepthType
    BY <1>i, Bounds DEF DepthType
  <1>3. StackType
    <2>1. current \in -1..(Stack - 1)
      BY <1>i, Bounds
    <2>2. kernels \in [Slots -> Entry]
      BY EmptyTypes DEF Init
    <2>3. todo \in [Slots -> Int] /\ ladder \in [Slots -> Int]
      <3>1. todo = [j \in Slots |-> 0] /\ ladder = [j \in Slots |-> 0]
        BY DEF Init
      <3>. QED  BY <3>1
    <2>. QED  BY <2>1, <2>2, <2>3 DEF StackType
  <1>4. ChainType
    BY <1>i, EmptyTypes DEF ChainType, Placed, Coords
  <1>5. PointsType
    BY <1>i, EmptyTypes DEF PointsType
  <1>6. ReturnType /\ back.left <= Len(cache)
    BY <1>i, EmptyTypes DEF ReturnType
  <1>. QED  BY <1>i, <1>1, <1>2, <1>3, <1>4, <1>5, <1>6 DEF TInv, TypeOK

LEMMA TypeCall == ASSUME TInv, NEW c \in Calls, Call(c) PROVE TInv'
  <1>1. c.n \in Nat /\ (~Refused(c) => Points(c) \in 0..MaxPoints)
    BY CallFacts
  <1>2. codomain' \in Placed
    <2>1. codomain'.coords \in Coords /\ codomain' = [on |-> 0, coords |-> codomain'.coords]
      BY CallFacts DEF Call, Coords
    <2>. QED  BY <2>1 DEF Placed
  <1>3. IsPointList(pts')
    <2>. DEFINE m == IF Refused(c) THEN 0 ELSE Points(c)
    <2>1. m \in 0..MaxPoints
      BY <1>1, Bounds
    <2>2. pts' = [k \in 1..m |-> [on |-> 0, coords |-> codomain'.coords]]
      BY DEF Call
    <2>3. \A k \in 1..m : [on |-> 0, coords |-> codomain'.coords] \in Placed
      BY <1>2 DEF Placed
    <2>. HIDE DEF m
    <2>4. pts' \in [1..m -> Placed]
      BY <2>2, <2>3
    <2>. QED  BY <2>1, <2>4 DEF IsPointList
  <1>4. kernels' \in [Slots -> Entry]
    <2>1. kernels' = [j \in Slots |-> IF j = 0 /\ c.api = "structure"
                                      THEN [on |-> 0, dbls |-> 0, coords |-> c.coords]
                                      ELSE Zero]
      BY DEF Call
    <2>2. [on |-> 0, dbls |-> 0, coords |-> c.coords] \in Entry
      BY CallFacts DEF Entry, Coords
    <2>. QED  BY <2>1, <2>2, EmptyTypes
  <1>5. cache' \in Seq(Nat) /\ Len(cache') >= 0
    <2>1. cache' = <<>> \/ cache' = cache
      BY DEF Call
    <2>2. CASE cache' = <<>>
      BY <2>2
    <2>3. CASE cache' = cache
      BY <2>3 DEF TInv, TypeOK, ReturnType
    <2>. QED  BY <2>1, <2>2, <2>3
  <1>6. call' \in Calls /\ space' = 1 /\ pow' = 1 /\ current' = 0 /\ step' = 1
    BY DEF Call
  <1>7. todo' \in [Slots -> Int] /\ ladder' \in [Slots -> Int]
    <2>1. /\ todo' = [j \in Slots |-> IF j = 0 THEN c.n ELSE 0]
          /\ ladder' = [j \in Slots |-> 0]
      BY DEF Call
    <2>. QED  BY <1>1, <2>1
  <1>8. last' = NoStep /\ snapshot' = NoStage /\ back' = [on |-> 0, left |-> 0] /\ progress' = 0
    BY DEF Call
  <1>9. pc' \in {"space", "returned"} /\ result' \in {"", "none"}
    BY DEF Call
  <1>a. ControlType'
    BY <1>6, <1>9 DEF ControlType
  <1>b. DepthType'
    BY <1>6, Bounds DEF DepthType
  <1>c. StackType'
    BY <1>4, <1>6, <1>7, Bounds DEF StackType
  <1>d. ChainType'
    BY <1>2, <1>6, <1>8, EmptyTypes DEF ChainType
  <1>e. PointsType'
    BY <1>3, <1>8, EmptyTypes DEF PointsType
  <1>f. ReturnType' /\ back'.left <= Len(cache')
    BY <1>5, <1>8 DEF ReturnType
  <1>. QED  BY <1>6, <1>a, <1>b, <1>c, <1>d, <1>e, <1>f DEF TInv, TypeOK

LEMMA TypeDepth == ASSUME TInv, DepthLoop \/ DepthKnown PROVE TInv'
  <1>. USE DEF TInv, TypeOK
  <1>1. UNCHANGED <<call, todo, ladder, kernels, current, step, codomain, pts, last,
                    snapshot, cache, back, progress>>
    BY DEF DepthLoop, DepthKnown
  <1>2. pc = "space" /\ current >= 0
    BY DEF DepthLoop, DepthKnown
  <1>3. ControlType' /\ pc' # "idle"
    BY <1>1 DEF DepthLoop, DepthKnown, ControlType, Return
  <1>4. DepthType'
    <2>1. CASE DepthLoop
      <3>1. (2 * pow) % Word \in 0..(Word - 1)
        BY Bounds DEF DepthType
      <3>2. space' \in 1..(Stack + 1)
        BY <2>1, Bounds DEF DepthLoop, DepthType
      <3>. QED  BY <2>1, <3>1, <3>2 DEF DepthLoop, Widened, DepthType
    <2>2. CASE DepthKnown
      BY <2>2 DEF DepthKnown, DepthType
    <2>. QED  BY <2>1, <2>2
  <1>5. StackType' /\ ChainType' /\ PointsType' /\ ReturnType'
    BY <1>1 DEF StackType, ChainType, PointsType, ReturnType
  <1>. QED  BY <1>1, <1>2, <1>3, <1>4, <1>5

LEMMA TypeGluingDescend == ASSUME TInv, GluingDescend PROVE TInv'
  <1>. USE DEF TInv, TypeOK
  <1>1. UNCHANGED <<call, space, pow, kernels, step, codomain, pts, last, snapshot,
                    cache, back, progress>>
    BY DEF GluingDescend
  <1>2. current \in Slots /\ pc = "gluing"
    BY Bounds DEF GluingDescend, Slots, StackType
  <1>3. ControlType'
    BY <1>1 DEF GluingDescend, ControlType, Return
  <1>4. StackType' /\ current' >= 0
    <2>1. CASE UNCHANGED <<current, ladder, todo>>
      BY <1>1, <1>2, <2>1 DEF StackType
    <2>2. CASE ~(current + 1 >= Stack)
      <3>. DEFINE num == GluingDoublings(todo[current])
      <3>1. num \in Int
        <4>1. todo[current] \in Int
          BY <1>2 DEF StackType
        <4>. QED  BY <4>1 DEF GluingDoublings
      <3>2. current + 1 \in Slots
        BY <1>2, <2>2, Bounds DEF Slots
      <3>3. /\ current' = current + 1
            /\ ladder' = [ladder EXCEPT ![current + 1] = ladder[current] + num]
            /\ todo' = [todo EXCEPT ![current + 1] = todo[current] - num]
        BY <2>2 DEF GluingDescend
      <3>. HIDE DEF num
      <3>4. todo' \in [Slots -> Int] /\ ladder' \in [Slots -> Int]
        BY <1>2, <3>1, <3>2, <3>3 DEF StackType
      <3>. QED  BY <1>1, <1>2, <3>2, <3>3, <3>4, Bounds DEF StackType, Slots
    <2>3. current + 1 >= Stack => UNCHANGED <<current, ladder, todo>>
      BY DEF GluingDescend
    <2>. QED  BY <2>1, <2>2, <2>3
  <1>5. DepthType' /\ ChainType' /\ PointsType' /\ ReturnType'
    BY <1>1 DEF DepthType, ChainType, PointsType, ReturnType
  <1>. QED  BY <1>1, <1>3, <1>4, <1>5

\* Recording a surface keeps the cache a sequence of surfaces.
LEMMA CacheAppend ==
  ASSUME NEW c \in Seq(Nat), NEW a \in Nat
  PROVE  Append(c, a) \in Seq(Nat) /\ Len(Append(c, a)) = Len(c) + 1
  OBVIOUS

LEMMA TypeGluing == ASSUME TInv, Gluing PROVE TInv'
  <1>. USE DEF TInv, TypeOK
  <1>1. UNCHANGED <<call, space, pow, ladder, snapshot, back>>
    BY DEF Gluing
  <1>2. current \in Slots /\ pc = "gluing"
    BY Bounds DEF Gluing, Slots, StackType
  <1>3. ControlType' /\ pc' \in {"steps", "returned"}
    BY <1>1 DEF Gluing, ControlType, Return
  <1>4. StackType'
    <2>1. kernels' \in [Slots -> Entry]
      <3>1. kernels' = [j \in Slots |-> IF j \in GluingPushed
                                THEN [on |-> 1, dbls |-> ladder[j], coords |-> "regular"]
                                ELSE Zero]
        BY DEF Gluing
      <3>2. \A j \in Slots : [on |-> 1, dbls |-> ladder[j], coords |-> "regular"] \in Entry
        BY DEF StackType, Entry, Coords
      <3>. QED  BY <3>1, <3>2, EmptyTypes
    <2>2. todo' \in [Slots -> Int]
      <3>1. todo' = [j \in Slots |-> IF j \in GluingPushed THEN todo[j] - 1 ELSE todo[j]]
        BY DEF Gluing
      <3>. QED  BY <3>1 DEF StackType
    <2>3. current' = current - 1
      BY DEF Gluing
    <2>. QED  BY <1>1, <1>2, <2>1, <2>2, <2>3, Bounds DEF StackType, Slots
  <1>5. ChainType'
    <2>1. /\ last' = [k |-> 1, on |-> 0, dbls |-> ladder[current], coords |-> "none",
                      reads |-> "none", check |-> "verified"]
          /\ codomain' = [on |-> 1, coords |-> "regular"]
          /\ step' = 1 /\ progress' = 0
      BY DEF Gluing
    <2>2. ladder[current] \in Int
      BY <1>2 DEF StackType
    <2>. QED  BY <2>1, <2>2 DEF ChainType, Kernel, Placed, Coords, Checks
  <1>6. PointsType'
    <2>1. pts' = [k \in DOMAIN pts |-> [on |-> 1, coords |-> "regular"]]
      BY DEF Gluing
    <2>2. IsPointList(pts)
      BY DEF PointsType
    <2>3. [on |-> 1, coords |-> "regular"] \in Placed
      BY DEF Placed, Coords
    <2>4. PICK m \in 0..MaxPoints : pts \in [1..m -> Placed]
      BY <2>2 DEF IsPointList
    <2>5. pts' \in [1..m -> Placed]
      <3>1. DOMAIN pts = 1..m
        BY <2>4
      <3>2. pts' = [k \in 1..m |-> [on |-> 1, coords |-> "regular"]]
        BY <2>1, <3>1, Zenon
      <3>. QED  BY <2>3, <3>2
    <2>6. IsPointList(pts')
      BY <2>4, <2>5, Zenon DEF IsPointList
    <2>. QED  BY <1>1, <2>6 DEF PointsType, IsPointList
  <1>7. ReturnType' /\ back'.left <= Len(cache')
    <2>1. cache' = cache \/ cache' = Append(cache, 1)
      BY DEF Gluing
    <2>2. cache' \in Seq(Nat) /\ Len(cache') >= Len(cache)
      BY <2>1, CacheAppend DEF ReturnType
    <2>3. back' = back /\ back.left \in Nat /\ back.left <= Len(cache) /\ Len(cache) \in Nat
      BY <1>1 DEF ReturnType
    <2>. QED  BY <2>2, <2>3 DEF ReturnType
  <1>8. DepthType'
    BY <1>1 DEF DepthType
  <1>. QED  BY <1>3, <1>4, <1>5, <1>6, <1>7, <1>8

LEMMA TypeDescend == ASSUME TInv, Descend PROVE TInv'
  <1>. USE DEF TInv, TypeOK
  <1>1. UNCHANGED <<call, space, pow, ladder, step, codomain, pts, last, snapshot,
                    cache, back, progress>>
    BY DEF Descend
  <1>2. current \in Slots /\ pc = "steps"
    BY Bounds DEF Descend, InLoop, Slots, StackType
  <1>3. ControlType' /\ pc' \in {"steps", "returned"}
    BY <1>1, <1>2 DEF Descend, ControlType, Return
  <1>4. StackType'
    <2>1. CASE UNCHANGED <<current, kernels, todo>>
      BY <1>1, <2>1 DEF StackType
    <2>2. CASE ~(current + 1 >= Stack)
      <3>. DEFINE num == GenericDoublings(todo[current])
      <3>1. current + 1 \in Slots
        BY <1>2, <2>2, Bounds DEF Slots
      <3>2. /\ current' = current + 1
            /\ kernels' = [kernels EXCEPT ![current + 1] = Doubled(kernels[current], num)]
            /\ todo' = [todo EXCEPT ![current + 1] = todo[current] - num]
        BY <2>2 DEF Descend
      <3>3. todo[current] \in Int /\ num \in Int
        BY <1>2 DEF StackType, GenericDoublings
      <3>4. Doubled(kernels[current], num) \in Entry
        <4>1. kernels[current] \in Entry
          BY <1>2 DEF StackType
        <4>. QED  BY <3>3, <4>1 DEF Doubled, Entry, Coords
      <3>. HIDE DEF num
      <3>5. todo' \in [Slots -> Int] /\ kernels' \in [Slots -> Entry]
        BY <1>2, <3>1, <3>2, <3>3, <3>4 DEF StackType
      <3>. QED  BY <1>1, <1>2, <3>1, <3>2, <3>5, Bounds DEF StackType, Slots
    <2>3. current + 1 >= Stack => UNCHANGED <<current, kernels, todo>>
      BY DEF Descend
    <2>. QED  BY <2>1, <2>2, <2>3
  <1>5. DepthType' /\ ChainType' /\ PointsType' /\ ReturnType'
    BY <1>1 DEF DepthType, ChainType, PointsType, ReturnType
  <1>. QED  BY <1>1, <1>3, <1>4, <1>5

LEMMA TypeIsogeny == ASSUME TInv, Isogeny PROVE TInv'
  <1>. USE DEF TInv, TypeOK
  <1>1. UNCHANGED <<call, space, pow, ladder, back>>
    BY DEF Isogeny
  <1>2. current \in Slots /\ pc = "steps"
    BY Bounds DEF Isogeny, InLoop, Slots, StackType
  <1>3. ControlType' /\ pc' \in {"steps", "returned"}
    BY <1>1, <1>2 DEF Isogeny, ControlType, Return
  <1>4. StackType'
    <2>1. kernels' \in [Slots -> Entry]
      <3>1. kernels' = [j \in Slots |-> IF j \in StepPushed THEN ImageEntry(kernels[j]) ELSE kernels[j]]
        BY DEF Isogeny
      <3>2. \A e \in Entry : ImageEntry(e) \in Entry
        BY DEF ImageEntry, ImageCoords, Entry, Coords
      <3>. QED  BY <3>1, <3>2 DEF StackType
    <2>2. todo' \in [Slots -> Int]
      <3>1. todo' = [j \in Slots |-> IF j \in StepPushed THEN todo[j] - 1 ELSE todo[j]]
        BY DEF Isogeny
      <3>. QED  BY <3>1 DEF StackType
    <2>3. current' = current - 1
      BY DEF Isogeny
    <2>. QED  BY <1>1, <1>2, <2>1, <2>2, <2>3, Bounds DEF StackType, Slots
  <1>5. ChainType'
    <2>1. codomain' = [on |-> codomain.on + 1, coords |-> "dual"]
      BY DEF Isogeny
    <2>2. codomain' \in Placed
      BY <2>1 DEF ChainType, Placed, Coords
    <2>3. progress' \in Nat /\ step' \in Nat
      BY DEF Isogeny, ChainType
    <2>4. last' \in Kernel
      <3>1. kernels[current] \in Entry
        BY <1>2 DEF StackType
      <3>2. Reads \in Coords
        BY CallType DEF Reads, Coords
      <3>3. Glued + step \in Nat
        BY CallType DEF Glued, Steps, ChainType
      <3>. QED  BY <3>1, <3>2, <3>3 DEF Isogeny, Kernel, Entry, Checks
    <2>. QED  BY <2>2, <2>3, <2>4 DEF ChainType
  <1>6. IsPointList(pts')
    <2>1. pts' = [k \in DOMAIN pts |-> Image(pts[k])]
      BY DEF Isogeny
    <2>2. \A p \in Placed : Image(p) \in Placed
      BY DEF Image, ImageCoords, Placed, Coords
    <2>3. PICK m \in 0..MaxPoints : pts \in [1..m -> Placed]
      BY DEF PointsType, IsPointList
    <2>4. pts' \in [1..m -> Placed]
      BY <2>1, <2>2, <2>3
    <2>. QED  BY <2>3, <2>4 DEF IsPointList
  <1>7. PointsType'
    <2>1. snapshot' = snapshot \/ snapshot' = [on |-> codomain'.on, pts |-> pts']
      BY DEF Isogeny
    <2>2. codomain'.on \in Nat
      BY <1>5 DEF ChainType, Placed
    <2>. QED  BY <1>6, <2>1, <2>2 DEF PointsType
  <1>8. ReturnType' /\ back'.left <= Len(cache')
    <2>1. cache' = cache \/ cache' = Append(cache, codomain'.on)
      BY DEF Isogeny
    <2>2. codomain'.on \in Nat
      BY <1>5 DEF ChainType, Placed
    <2>. QED  BY <1>1, <2>1, <2>2, CacheAppend DEF ReturnType
  <1>9. DepthType'
    BY <1>1 DEF DepthType
  <1>. QED  BY <1>3, <1>4, <1>5, <1>7, <1>8, <1>9

\* The actions that only decide how the call ends.
LEMMA TypeEnd ==
  ASSUME TInv, GluingFails \/ IsogenyFails \/ StepsDone \/ SplitFails \/ Split
  PROVE  TInv'
  <1>. USE DEF TInv, TypeOK
  <1>1. UNCHANGED <<call, space, pow, todo, ladder, kernels, current, step, codomain,
                    pts, last, snapshot, cache, back>>
    BY DEF GluingFails, IsogenyFails, StepsDone, SplitFails, Split
  <1>2. ControlType' /\ pc' \in {"split", "returned"}
    BY <1>1 DEF GluingFails, IsogenyFails, StepsDone, SplitFails, Split, Return, ControlType
  <1>3. progress' \in Nat
    <2>1. progress' \in {progress, call.n + 1, call.n + 2}
      BY DEF GluingFails, IsogenyFails, StepsDone, SplitFails, Split
    <2>. QED  BY <2>1, CallType DEF ChainType
  <1>4. DepthType' /\ StackType' /\ PointsType' /\ ReturnType'
    BY <1>1 DEF DepthType, StackType, PointsType, ReturnType
  <1>5. ChainType'
    BY <1>1, <1>3 DEF ChainType
  <1>. QED  BY <1>1, <1>2, <1>4, <1>5

LEMMA TypeBack == ASSUME TInv, GoBack \/ PullBack PROVE TInv'
  <1>. USE DEF TInv, TypeOK
  <1>1. UNCHANGED <<call, pc, space, pow, todo, ladder, kernels, current, step, codomain,
                    pts, last, snapshot, cache, progress, result>>
    BY DEF GoBack, PullBack
  <1>2. pc = "returned"
    BY DEF GoBack, PullBack, CanGoBack
  <1>3. back' \in [on : Nat, left : Nat] /\ back'.left <= Len(cache)
    <2>1. CASE GoBack
      <3>1. Len(cache) \in Nat /\ snapshot.on \in Nat
        BY DEF ReturnType, PointsType
      <3>2. back' = [on |-> snapshot.on, left |-> Len(cache)]
        BY <2>1 DEF GoBack
      <3>. QED  BY <3>1, <3>2
    <2>2. CASE PullBack
      <3>1. back.left \in 1..Len(cache) /\ back' = [on |-> cache[back.left], left |-> back.left - 1]
        BY <2>2 DEF PullBack, ReturnType
      <3>2. cache[back.left] \in Nat /\ Len(cache) \in Nat
        BY <3>1 DEF ReturnType
      <3>. QED  BY <3>1, <3>2
    <2>. QED  BY <2>1, <2>2
  <1>4. ReturnType'
    BY <1>1, <1>3 DEF ReturnType
  <1>5. ControlType' /\ DepthType' /\ StackType' /\ ChainType' /\ PointsType'
    BY <1>1 DEF ControlType, DepthType, StackType, ChainType, PointsType
  <1>. QED  BY <1>1, <1>2, <1>3, <1>4, <1>5

LEMMA TypeNext == TInv /\ [Next]_vars => TInv'
  <1>1. ASSUME TInv, UNCHANGED vars PROVE TInv'
    BY <1>1 DEF vars, TInv, TypeOK, ControlType, DepthType, StackType, ChainType,
                PointsType, ReturnType
  <1>. QED
    BY <1>1, TypeCall, TypeDepth, TypeGluingDescend, TypeGluing, TypeDescend, TypeIsogeny,
       TypeEnd, TypeBack DEF Next, Run

\* Every variable keeps its type, in particular the stack its shape.
THEOREM TypeCorrect == Spec => []TypeOK
  <1>1. TInv => TypeOK
    BY DEF TInv
  <1>. QED  BY <1>1, TypeInit, TypeNext, PTL DEF Spec

---------------------------------------------------------------------------
(***************************************************************************)
(* The safety invariants, proved from an inductive strengthening.  What it *)
(* adds to the invariants is what the code never writes down: entry j of   *)
(* the stack has at most 2^(depth-1-j) doublings left, the counters fall   *)
(* strictly from entry to entry, and entry 0 is always K itself.           *)
(***************************************************************************)

\* The driver is at work.
Active == pc \in {"space", "gluing", "steps", "split"}

\* The arguments passed the early returns.
ArgsInv ==
    /\ IF pc = "idle" THEN result = "" ELSE call \in Calls
    /\ Active \/ result = "some" => ~Refused(call)

\* Nothing is computed before the gluing.
FreshInv ==
    /\ pc = "space" => /\ current = 0 /\ step = 1
                       /\ todo[0] = call.n /\ kernels[0].dbls = 0
                       /\ codomain.on = kernels[0].on
                       /\ codomain.coords = kernels[0].coords
                       /\ FromStructure => codomain.coords = call.coords
    /\ pc \in {"space", "gluing"} => /\ codomain.on = 0 /\ last.k = 0
                                     /\ ladder[0] = 0
    /\ pc = "gluing" => ~FromStructure

\* The u16 counter is the power of two it should be, or has wrapped to 0.
\* The product keeps it from wrapping to anything else.
CounterInv ==
    pc = "space" => \/ pow = 0
                    \/ /\ space <= Stack
                       /\ pow = Pow2[space - 1]
                       /\ pow * Pow2[Stack + 1 - space] = Word

\* Room on the stack for what is left to double.
RoomInv ==
    pc \in {"gluing", "steps"} =>
        /\ space <= Stack
        /\ \A j \in Live : j < space /\ todo[j] <= Pow2[space - 1 - j]

FallingInv ==
    pc \in {"gluing", "steps"} => \A j \in 1..current : todo[j] < todo[j - 1]

\* The loop variables agree, and entry 0 is K pushed to where the chain is.
StepsInv ==
    pc = "steps" => /\ step >= 1
                    /\ codomain.on = Glued + step - 1
                    /\ codomain.coords = Reads
                    /\ IF current = -1 THEN codomain.on = call.n
                                       ELSE kernels[0].dbls = 0

\* What the loop left behind.
EndInv ==
    pc = "split" \/ result = "some" =>
        codomain.on = call.n /\ codomain.coords = "dual"

CoreInv == /\ TInv /\ ArgsInv /\ FreshInv /\ CounterInv /\ RoomInv
           /\ FallingInv /\ LadderInv /\ StackInv /\ StepsInv /\ EndInv /\ KernelInv

---------------------------------------------------------------------------
(* The numbers.                                                            *)

LEMMA Powers ==
  /\ Pow2[0] = 1 /\ Pow2[Stack] = Word
  /\ \A k \in 0..Stack : Pow2[k] \in Nat /\ Pow2[k] >= 1
  /\ \A k \in 1..Stack : Pow2[k] = 2 * Pow2[k - 1]
  <1>. QED  BY StackAssumption, Pow2Assumption, WordAssumption

\* One step of the counter: it doubles, or wraps to exactly 0.
LEMMA CounterStep ==
  ASSUME NEW p \in Nat, NEW q \in Nat, NEW w \in Nat, w >= 2, q >= 1, p * (2 * q) = w
  PROVE  \/ 2 * p < w /\ (2 * p) % w = 2 * p /\ (2 * p) * q = w
         \/ (2 * p) % w = 0
  <1>. DEFINE d == 2 * p
  <1>1. d \in Nat /\ d * q = w
    OBVIOUS
  <1>. HIDE DEF d
  <1>2. d <= w
    BY <1>1
  <1>3. CASE d < w
    <2>1. d % w = d
      BY <1>1, <1>3
    <2>. QED  BY <1>1, <1>3, <2>1 DEF d
  <1>4. CASE d = w
    <2>1. d % w = 0
      BY <1>4
    <2>. QED  BY <2>1 DEF d
  <1>. QED  BY <1>1, <1>2, <1>3, <1>4

\* What holds of the arguments while the driver runs.
LEMMA ActiveFacts ==
  ASSUME ArgsInv, Active \/ result = "some"
  PROVE  /\ call \in Calls /\ call.n \in Nat /\ call.n >= 2 /\ call.n < Word
         /\ Steps \in Nat /\ Steps >= 1 /\ Glued \in {0, 1} /\ Steps + Glued = call.n
         /\ FromStructure => Glued = 0
         /\ ~FromStructure => Glued = 1 /\ call.coords = "regular"
         /\ Staged(call) => ~FromStructure /\ call.n >= 3
         /\ call.api = "recorded" => Staged(call) /\ call.n - 2 <= MaxRecorded
  <1>1. call \in Calls /\ ~Refused(call)
    BY DEF ArgsInv, Active
  <1>. QED  BY <1>1, CallFacts DEF Steps, Glued, FromStructure, Staged, Apis

LEMMA SameCall ==
  ASSUME UNCHANGED call
  PROVE  UNCHANGED <<Steps, Glued, Verify, SkipLastCheck, SnapshotAfter, RecordUntil, FromStructure>>
  BY DEF Steps, Glued, Verify, SkipLastCheck, SnapshotAfter, RecordUntil, FromStructure

---------------------------------------------------------------------------
(* CoreInv is inductive.                                                   *)

LEMMA CoreInit == Init => CoreInv
  <1>. SUFFICES ASSUME Init PROVE CoreInv
    OBVIOUS
  <1>1. pc = "idle" /\ result = ""
    BY DEF Init
  <1>2. TInv
    BY TypeInit
  <1>3. KernelInv
    <2>1. last.k = 0
      BY DEF Init, NoStep
    <2>. QED  BY <2>1 DEF KernelInv
  <1>4. ArgsInv /\ FreshInv /\ CounterInv /\ RoomInv
    BY <1>1 DEF ArgsInv, Active, FreshInv, CounterInv, RoomInv
  <1>5. FallingInv /\ LadderInv /\ StackInv /\ StepsInv /\ EndInv
    BY <1>1 DEF FallingInv, LadderInv, StackInv, StepsInv, EndInv
  <1>. QED  BY <1>2, <1>3, <1>4, <1>5 DEF CoreInv

LEMMA CoreCall == ASSUME CoreInv, NEW c \in Calls, Call(c) PROVE CoreInv'
  <1>1. TInv'
    BY TypeCall DEF CoreInv
  <1>2. /\ call' = c /\ space' = 1 /\ pow' = 1 /\ current' = 0 /\ step' = 1
        /\ last' = NoStep
        /\ codomain' = [on |-> 0, coords |-> IF c.api = "structure" THEN c.coords ELSE "none"]
        /\ IF Refused(c) THEN pc' = "returned" /\ result' = "none"
                         ELSE pc' = "space" /\ result' = ""
    BY DEF Call
  <1>3. /\ todo' = [j \in Slots |-> IF j = 0 THEN c.n ELSE 0]
        /\ ladder' = [j \in Slots |-> 0]
        /\ kernels' = [j \in Slots |-> IF j = 0 /\ c.api = "structure"
                                       THEN [on |-> 0, dbls |-> 0, coords |-> c.coords]
                                       ELSE Zero]
    BY DEF Call
  <1>4. 0 \in Slots
    BY Bounds DEF Slots
  <1>5. ArgsInv'
    BY <1>2 DEF ArgsInv, Active
  <1>6. FreshInv'
    <2>1. todo'[0] = c.n /\ ladder'[0] = 0
      BY <1>3, <1>4
    <2>2. /\ kernels'[0].on = 0 /\ kernels'[0].dbls = 0
          /\ kernels'[0].coords = IF c.api = "structure" THEN c.coords ELSE "none"
      BY <1>3, <1>4 DEF Zero
    <2>3. last'.k = 0
      BY <1>2 DEF NoStep
    <2>. QED  BY <1>2, <2>1, <2>2, <2>3 DEF FreshInv, FromStructure
  <1>7. CounterInv'
    <2>1. 1 - 1 = 0 /\ Stack + 1 - 1 = Stack
      BY Bounds
    <2>2. Pow2[1 - 1] = 1 /\ 1 * Pow2[Stack + 1 - 1] = Word
      BY <2>1, Powers, Bounds
    <2>3. 1 <= Stack
      BY Bounds
    <2>. QED  BY <1>2, <2>2, <2>3 DEF CounterInv
  <1>8. KernelInv'
    <2>1. last'.k = 0
      BY <1>2 DEF NoStep
    <2>. QED  BY <2>1 DEF KernelInv
  <1>9. pc' \notin {"gluing", "steps", "split"} /\ result' # "some"
    BY <1>2
  <1>. QED  BY <1>1, <1>5, <1>6, <1>7, <1>8, <1>9
            DEF CoreInv, RoomInv, FallingInv, LadderInv, StackInv, StepsInv, EndInv

LEMMA CoreDepthLoop == ASSUME CoreInv, DepthLoop PROVE CoreInv'
  <1>1. TInv'
    BY TypeDepth DEF CoreInv
  <1>2. UNCHANGED <<call, pc, todo, ladder, kernels, current, step, codomain, pts,
                    last, snapshot, cache, back, progress, result>>
    BY DEF DepthLoop
  <1>3. /\ pc = "space" /\ pow' = Widened
        /\ space' = IF space <= Stack THEN space + 1 ELSE space
    BY DEF DepthLoop
  <1>4. space \in 1..(Stack + 1) /\ pow \in Nat
    BY Bounds DEF CoreInv, TInv, TypeOK, DepthType
  <1>5. CounterInv'
    <2>1. CASE pow = 0
      <3>1. pow' = 0
        BY <1>3, <2>1, Bounds DEF Widened
      <3>. QED  BY <3>1 DEF CounterInv
    <2>2. CASE /\ space <= Stack /\ pow = Pow2[space - 1]
               /\ pow * Pow2[Stack + 1 - space] = Word
      <3>. DEFINE q == Pow2[Stack - space]
      <3>1. q \in Nat /\ q >= 1 /\ Pow2[Stack + 1 - space] = 2 * q
        <4>1. Stack - space \in 0..Stack /\ Stack + 1 - space \in 1..Stack
          BY <1>4, <2>2, Bounds
        <4>2. (Stack + 1 - space) - 1 = Stack - space
          BY <1>4, Bounds
        <4>. QED  BY <4>1, <4>2, Powers
      <3>. HIDE DEF q
      <3>2. \/ 2 * pow < Word /\ (2 * pow) % Word = 2 * pow /\ (2 * pow) * q = Word
            \/ (2 * pow) % Word = 0
        BY <1>4, <2>2, <3>1, CounterStep, Bounds
      <3>3. CASE (2 * pow) % Word = 0
        BY <1>3, <3>3 DEF CounterInv, Widened
      <3>4. CASE 2 * pow < Word /\ (2 * pow) % Word = 2 * pow /\ (2 * pow) * q = Word
        <4>1. space' = space + 1 /\ pow' = 2 * pow
          BY <1>3, <2>2, <3>4 DEF Widened
        <4>2. space # Stack
          <5>1. SUFFICES ASSUME space = Stack PROVE FALSE
            OBVIOUS
          <5>2. q = 1
            BY <5>1, Powers, Bounds DEF q
          <5>. QED  BY <1>4, <3>4, <5>2, Bounds
        <4>3. Pow2[space] = 2 * Pow2[space - 1]
          BY <1>4, <2>2, Powers
        <4>4. Pow2[Stack + 1 - (space + 1)] = q
          <5>1. Stack + 1 - (space + 1) = Stack - space
            BY <1>4, Bounds
          <5>. QED  BY <5>1 DEF q
        <4>5. space + 1 <= Stack /\ (space + 1) - 1 = space
          BY <1>4, <2>2, <4>2, Bounds
        <4>6. pow' = Pow2[space' - 1]
          BY <2>2, <4>1, <4>3, <4>5
        <4>7. pow' * Pow2[Stack + 1 - space'] = Word
          BY <3>4, <4>1, <4>4
        <4>. QED  BY <4>1, <4>5, <4>6, <4>7 DEF CounterInv
      <3>. QED  BY <3>2, <3>3, <3>4
    <2>. QED  BY <1>3, <2>1, <2>2 DEF CoreInv, CounterInv
  <1>6. ArgsInv' /\ FreshInv' /\ KernelInv'
    BY <1>2, <1>3, SameCall DEF CoreInv, ArgsInv, Active, FreshInv, KernelInv
  <1>7. pc' = "space" /\ (result' = result)
    BY <1>2, <1>3
  <1>8. EndInv'
    BY <1>2, <1>3 DEF CoreInv, EndInv
  <1>. QED  BY <1>1, <1>5, <1>6, <1>7, <1>8
            DEF CoreInv, RoomInv, FallingInv, LadderInv, StackInv, StepsInv

\* The stack's types, to be cited on their own.
LEMMA StackFacts ==
  ASSUME CoreInv
  PROVE  /\ todo \in [Slots -> Int] /\ ladder \in [Slots -> Int]
         /\ kernels \in [Slots -> Entry] /\ current \in -1..(Stack - 1)
         /\ step \in Nat /\ codomain.on \in Nat /\ space \in 1..(Stack + 1)
         /\ 0 \in Slots
         /\ \A j \in Slots : /\ todo[j] \in Int /\ ladder[j] \in Int
                             /\ kernels[j].on \in Nat /\ kernels[j].dbls \in Int
  <1>1. StackType /\ ChainType /\ DepthType
    BY DEF CoreInv, TInv, TypeOK
  <1>2. \A j \in Slots : todo[j] \in Int /\ ladder[j] \in Int /\ kernels[j] \in Entry
    BY <1>1 DEF StackType
  <1>3. \A e \in Entry : e.on \in Nat /\ e.dbls \in Int
    BY DEF Entry
  <1>. QED  BY <1>1, <1>2, <1>3, Bounds DEF StackType, ChainType, DepthType, Placed, Slots

LEMMA CoreDepthKnown == ASSUME CoreInv, DepthKnown PROVE CoreInv'
  <1>1. TInv'
    BY TypeDepth DEF CoreInv
  <1>2. UNCHANGED <<call, space, pow, todo, ladder, kernels, current, step, codomain,
                    pts, last, snapshot, cache, back, progress>>
    BY DEF DepthKnown
  <1>3. pc = "space" /\ pow >= call.n
    BY DEF DepthKnown
  <1>4. \/ pc' = "returned" /\ result' = "none"
        \/ /\ pc' = (IF FromStructure THEN "steps" ELSE "gluing")
           /\ result' = result /\ space <= Stack
    <2>1. CASE space > Stack
      BY <2>1 DEF DepthKnown, Return
    <2>2. CASE ~(space > Stack)
      <3>1. space <= Stack
        BY <2>2, StackFacts, Bounds
      <3>. QED  BY <2>2, <3>1 DEF DepthKnown
    <2>. QED  BY <2>1, <2>2
  <1>5. /\ call \in Calls /\ ~Refused(call) /\ call.n \in Nat /\ call.n >= 2
        /\ (FromStructure => Glued = 0)
    BY <1>3, ActiveFacts DEF CoreInv, Active, ArgsInv
  <1>6. KernelInv'
    BY <1>2 DEF CoreInv, KernelInv
  <1>7. ArgsInv'
    BY <1>2, <1>4, <1>5 DEF ArgsInv
  <1>8. /\ current = 0 /\ step = 1 /\ todo[0] = call.n /\ kernels[0].dbls = 0
        /\ codomain.on = kernels[0].on /\ codomain.coords = kernels[0].coords
        /\ codomain.on = 0 /\ last.k = 0 /\ ladder[0] = 0
        /\ (FromStructure => codomain.coords = call.coords)
    BY <1>3 DEF CoreInv, FreshInv
  <1>9. FreshInv'
    <2>1. pc' # "space" /\ (pc' = "gluing" => ~FromStructure)
      BY <1>4
    <2>2. codomain'.on = 0 /\ last'.k = 0 /\ ladder'[0] = 0
      BY <1>2, <1>8
    <2>3. FromStructure' = FromStructure
      BY <1>2, SameCall
    <2>. QED  BY <2>1, <2>2, <2>3 DEF FreshInv
  <1>a. CounterInv'
    BY <1>4 DEF CounterInv
  <1>b. RoomInv'
    <2>1. SUFFICES ASSUME pc' \in {"gluing", "steps"} PROVE RoomInv'
      BY DEF RoomInv
    <2>2. space <= Stack
      BY <1>4, <2>1
    <2>3. pow = Pow2[space - 1]
      <3>1. pow # 0
        BY <1>3, <1>5
      <3>. QED  BY <1>3, <3>1 DEF CoreInv, CounterInv
    <2>4. \A j \in 0..0 : j < space /\ todo[j] <= Pow2[space - 1 - j]
      <3>1. 0 < space /\ space - 1 - 0 = space - 1
        BY StackFacts, Bounds
      <3>2. Pow2[space - 1] \in Nat
        <4>1. space - 1 \in 0..Stack
          BY <2>2, StackFacts, Bounds
        <4>. QED  BY <4>1, Powers
      <3>3. todo[0] <= Pow2[space - 1 - 0]
        BY <1>3, <1>5, <1>8, <2>3, <3>1, <3>2
      <3>4. \A j \in 0..0 : j = 0
        OBVIOUS
      <3>. QED  BY <3>1, <3>3, <3>4
    <2>5. Live' = 0..0
      BY <1>2, <1>8 DEF Live
    <2>. QED  BY <1>2, <2>2, <2>4, <2>5 DEF RoomInv
  <1>c. FallingInv'
    BY <1>2, <1>8 DEF FallingInv
  <1>d. LadderInv' /\ StackInv'
    <2>1. \A j \in 0..0 : j = 0
      OBVIOUS
    <2>2. Live' = 0..0
      BY <1>2, <1>8 DEF Live
    <2>3. todo'[0] >= 1 /\ todo'[0] = call'.n - ladder'[0]
      BY <1>2, <1>5, <1>8
    <2>4. todo'[0] = call'.n - codomain'.on - kernels'[0].dbls
      BY <1>2, <1>5, <1>8
    <2>5. kernels'[0].on = codomain'.on /\ kernels'[0].coords = codomain'.coords
      BY <1>2, <1>8
    <2>6. LadderInv'
      BY <2>1, <2>2, <2>3 DEF LadderInv
    <2>7. StackInv'
      BY <2>1, <2>2, <2>3, <2>4, <2>5 DEF StackInv
    <2>. QED  BY <2>6, <2>7
  <1>e. StepsInv'
    <2>1. SUFFICES ASSUME pc' = "steps" PROVE StepsInv'
      BY DEF StepsInv
    <2>2. FromStructure
      BY <1>4, <2>1
    <2>3. Glued' = 0
      BY <1>2, <1>5, <2>2, SameCall
    <2>4. codomain'.coords = Reads'
      BY <1>2, <1>8, <2>2 DEF Reads
    <2>5. codomain'.on = 0 /\ step' = 1 /\ current' = 0 /\ kernels'[0].dbls = 0
      BY <1>2, <1>8
    <2>. QED  BY <2>3, <2>4, <2>5 DEF StepsInv
  <1>f. EndInv'
    <2>1. pc' # "split" /\ result' # "some"
      <3>1. result = "some" => codomain.on = call.n
        BY DEF CoreInv, EndInv
      <3>. QED  BY <1>4, <1>5, <1>8, <3>1
    <2>. QED  BY <2>1 DEF EndInv
  <1>. QED  BY <1>1, <1>6, <1>7, <1>9, <1>a, <1>b, <1>c, <1>d, <1>e, <1>f DEF CoreInv

\* What a descent pushes: at least one doubling, at most half the room.
LEMMA Halving ==
  ASSUME NEW t \in Nat, NEW q \in Nat, t >= 2, q >= 1, t <= 2 * q,
         NEW d \in {GluingDoublings(t), GenericDoublings(t)}
  PROVE  d \in Nat /\ d >= 1 /\ t - d >= 1 /\ t - d <= q
  <1>1. t \div 2 \in Nat /\ t \div 2 >= 1 /\ t - (t \div 2) >= 1 /\ 2 * (t - (t \div 2)) <= t + 1
    OBVIOUS
  <1>2. CASE d = t \div 2
    BY <1>1, <1>2
  <1>3. CASE d = t - 1
    BY <1>3
  <1>. QED  BY <1>2, <1>3 DEF GluingDoublings, GenericDoublings

\* A descent, of either strategy, finds room and leaves room: this is where
\* the two `current >= STACK' returns turn out never to be taken.
LEMMA DescendRoom ==
  ASSUME CoreInv, pc \in {"gluing", "steps"}, current \in Slots,
         todo[current] >= 1, todo[current] # 1,
         NEW num \in {GluingDoublings(todo[current]), GenericDoublings(todo[current])},
         NEW td, td = [todo EXCEPT ![current + 1] = todo[current] - num]
  PROVE  /\ current + 1 \in Slots
         /\ num \in Nat /\ num >= 1 /\ todo[current] - num >= 1
         /\ td \in [Slots -> Int]
         /\ \A j \in Slots : td[j] = IF j = current + 1 THEN todo[current] - num ELSE todo[j]
         /\ \A j \in 0..(current + 1) : j < space /\ td[j] <= Pow2[space - 1 - j]
         /\ \A j \in 1..(current + 1) : td[j] < td[j - 1]
  <1>. DEFINE t == todo[current]
              r == space - 1 - current
  <1>1. t \in Nat /\ t >= 2 /\ current \in Nat /\ current < Stack
    BY StackFacts, Bounds DEF Slots
  <1>2. space <= Stack /\ current < space /\ t <= Pow2[r] /\ space \in Nat
    BY <1>1, StackFacts, Bounds DEF CoreInv, RoomInv, Live
  <1>3. r \in 0..Stack /\ r # 0
    <2>1. r \in 0..Stack
      BY <1>1, <1>2, Bounds
    <2>2. r = 0 => Pow2[r] = 1
      BY Powers
    <2>. QED  BY <1>1, <1>2, <2>1, <2>2
  <1>4. Pow2[r] = 2 * Pow2[r - 1] /\ Pow2[r - 1] \in Nat /\ Pow2[r - 1] >= 1
    <2>1. r \in 1..Stack /\ r - 1 \in 0..Stack
      BY <1>3, Bounds
    <2>. QED  BY <2>1, Powers
  <1>5. num \in Nat /\ num >= 1 /\ t - num >= 1 /\ t - num <= Pow2[r - 1]
    BY <1>1, <1>2, <1>4, Halving
  <1>6. current + 1 \in Slots /\ current + 1 < space
    BY <1>1, <1>2, <1>3, Bounds DEF Slots
  <1>7. \A j \in Slots : td[j] = IF j = current + 1 THEN t - num ELSE todo[j]
    BY StackFacts
  <1>8. td \in [Slots -> Int]
    <2>1. t - num \in Int
      BY <1>1, <1>5
    <2>. QED  BY <2>1, StackFacts
  <1>9. ASSUME NEW j \in 0..(current + 1)
        PROVE  j < space /\ td[j] <= Pow2[space - 1 - j]
    <2>1. CASE j = current + 1
      <3>1. space - 1 - j = r - 1
        BY <1>1, <1>2, <2>1
      <3>2. td[j] = t - num
        BY <1>6, <1>7, <2>1
      <3>. QED  BY <1>5, <1>6, <2>1, <3>1, <3>2
    <2>2. CASE j # current + 1
      <3>1. j \in 0..current /\ j \in Slots
        BY <1>1, <2>2, Bounds DEF Slots
      <3>2. td[j] = todo[j]
        BY <1>7, <2>2, <3>1
      <3>. QED  BY <3>1, <3>2 DEF CoreInv, RoomInv, Live
    <2>. QED  BY <2>1, <2>2
  <1>a. ASSUME NEW j \in 1..(current + 1)
        PROVE  td[j] < td[j - 1]
    <2>1. CASE j = current + 1
      <3>1. td[j] = t - num /\ j - 1 = current
        BY <1>1, <1>6, <1>7, <2>1
      <3>2. td[current] = t
        BY <1>1, <1>7
      <3>. QED  BY <1>1, <1>5, <3>1, <3>2
    <2>2. CASE j # current + 1
      <3>1. j \in 1..current /\ j \in Slots /\ j - 1 \in Slots /\ j - 1 # current + 1
        BY <1>1, <2>2, Bounds DEF Slots
      <3>2. td[j] = todo[j] /\ td[j - 1] = todo[j - 1]
        BY <1>7, <2>2, <3>1
      <3>. QED  BY <3>1, <3>2 DEF CoreInv, FallingInv
    <2>. QED  BY <2>1, <2>2
  <1>. QED  BY <1>5, <1>6, <1>7, <1>8, <1>9, <1>a

LEMMA CoreGluingDescend ==
  ASSUME CoreInv, GluingDescend
  PROVE  CoreInv' /\ pc' = pc
  <1>1. TInv'
    BY TypeGluingDescend DEF CoreInv
  <1>2. UNCHANGED <<call, space, pow, kernels, step, codomain, pts, last, snapshot,
                    cache, back, progress>>
    BY DEF GluingDescend
  <1>3. pc = "gluing" /\ todo[current] # 1
    BY DEF GluingDescend
  <1>4. current \in Slots /\ current \in Live
    BY <1>3, StackFacts, Bounds DEF CoreInv, TInv, Slots, Live
  <1>5. todo[current] >= 1 /\ todo[current] = call.n - ladder[current]
    BY <1>3, <1>4 DEF CoreInv, LadderInv
  <1>. DEFINE num == GluingDoublings(todo[current])
              td  == [todo EXCEPT ![current + 1] = todo[current] - num]
  <1>6. /\ current + 1 \in Slots
        /\ num \in Nat /\ num >= 1 /\ todo[current] - num >= 1
        /\ td \in [Slots -> Int]
        /\ \A j \in Slots : td[j] = IF j = current + 1 THEN todo[current] - num ELSE todo[j]
        /\ \A j \in 0..(current + 1) : j < space /\ td[j] <= Pow2[space - 1 - j]
        /\ \A j \in 1..(current + 1) : td[j] < td[j - 1]
    BY <1>3, <1>4, <1>5, DescendRoom
  <1>7. ~(current + 1 >= Stack)
    BY <1>4, <1>6, Bounds DEF Slots
  <1>8. /\ current' = current + 1 /\ todo' = td
        /\ ladder' = [ladder EXCEPT ![current + 1] = ladder[current] + num]
        /\ pc' = pc /\ result' = result
    BY <1>7 DEF GluingDescend
  <1>. HIDE DEF num, td
  <1>9. ArgsInv' /\ KernelInv' /\ EndInv' /\ CounterInv' /\ StackInv' /\ StepsInv'
    <2>1. ArgsInv'
      BY <1>2, <1>8 DEF CoreInv, ArgsInv, Active
    <2>2. KernelInv' /\ EndInv'
      BY <1>2, <1>8 DEF CoreInv, KernelInv, EndInv
    <2>3. CounterInv' /\ StackInv' /\ StepsInv'
      BY <1>3, <1>8 DEF CounterInv, StackInv, StepsInv
    <2>. QED  BY <2>1, <2>2, <2>3
  <1>a. FreshInv'
    <2>1. codomain'.on = 0 /\ last'.k = 0 /\ ~FromStructure'
      BY <1>2, <1>3, SameCall DEF CoreInv, FreshInv
    <2>2. ladder'[0] = 0
      <3>1. ladder[0] = 0 /\ 0 # current + 1
        BY <1>3, <1>4, Bounds DEF CoreInv, FreshInv, Slots
      <3>. QED  BY <1>8, <3>1, StackFacts
    <2>3. pc' = "gluing"
      BY <1>3, <1>8
    <2>. QED  BY <2>1, <2>2, <2>3 DEF FreshInv
  <1>b. RoomInv' /\ FallingInv'
    <2>1. space <= Stack
      BY <1>3 DEF CoreInv, RoomInv
    <2>. QED  BY <1>2, <1>6, <1>8, <2>1 DEF RoomInv, FallingInv, Live
  <1>c. LadderInv'
    <2>1. SUFFICES ASSUME NEW j \in 0..(current + 1)
                   PROVE  todo'[j] >= 1 /\ todo'[j] = call.n - ladder'[j]
      BY <1>2, <1>8 DEF LadderInv, Live
    <2>2. call.n \in Int
      BY <1>3, ActiveFacts DEF CoreInv, Active
    <2>3. CASE j = current + 1
      <3>1. todo'[j] = todo[current] - num /\ ladder'[j] = ladder[current] + num
        BY <1>6, <1>8, <2>3, StackFacts
      <3>. QED  BY <1>4, <1>5, <1>6, <2>2, <3>1, StackFacts
    <2>4. CASE j # current + 1
      <3>1. j \in Slots /\ j \in Live
        BY <1>4, <2>4, Bounds DEF Slots, Live
      <3>2. todo'[j] = todo[j] /\ ladder'[j] = ladder[j]
        BY <1>6, <1>8, <2>4, <3>1, StackFacts
      <3>. QED  BY <1>3, <3>1, <3>2 DEF CoreInv, LadderInv
    <2>. QED  BY <2>3, <2>4
  <1>. QED  BY <1>1, <1>8, <1>9, <1>a, <1>b, <1>c DEF CoreInv

LEMMA CoreDescend ==
  ASSUME CoreInv, Descend
  PROVE  CoreInv' /\ pc' = pc
  <1>1. TInv'
    BY TypeDescend DEF CoreInv
  <1>2. UNCHANGED <<call, space, pow, ladder, step, codomain, pts, last, snapshot,
                    cache, back, progress>>
    BY DEF Descend
  <1>3. pc = "steps" /\ todo[current] # 1 /\ current >= 0
    BY DEF Descend, InLoop
  <1>4. current \in Slots /\ current \in Live
    BY <1>3, StackFacts, Bounds DEF Slots, Live
  <1>5. /\ kernels[current].on = codomain.on /\ kernels[current].coords = codomain.coords
        /\ todo[current] >= 1
        /\ todo[current] = call.n - codomain.on - kernels[current].dbls
    BY <1>3, <1>4 DEF CoreInv, StackInv
  <1>. DEFINE num == GenericDoublings(todo[current])
              td  == [todo EXCEPT ![current + 1] = todo[current] - num]
              new == Doubled(kernels[current], num)
  <1>6. /\ current + 1 \in Slots
        /\ num \in Nat /\ num >= 1 /\ todo[current] - num >= 1
        /\ td \in [Slots -> Int]
        /\ \A j \in Slots : td[j] = IF j = current + 1 THEN todo[current] - num ELSE todo[j]
        /\ \A j \in 0..(current + 1) : j < space /\ td[j] <= Pow2[space - 1 - j]
        /\ \A j \in 1..(current + 1) : td[j] < td[j - 1]
    BY <1>3, <1>4, <1>5, DescendRoom
  <1>7. ~(current + 1 >= Stack)
    BY <1>4, <1>6, Bounds DEF Slots
  <1>8. /\ current' = current + 1 /\ todo' = td
        /\ kernels' = [kernels EXCEPT ![current + 1] = new]
        /\ pc' = pc /\ result' = result
    BY <1>7 DEF Descend
  <1>9. /\ new.on = codomain.on /\ new.coords = codomain.coords
        /\ new.dbls = kernels[current].dbls + num
    BY <1>5 DEF Doubled
  <1>. HIDE DEF num, td, new
  <1>a. ArgsInv' /\ KernelInv' /\ EndInv' /\ CounterInv' /\ LadderInv' /\ FreshInv'
    <2>1. ArgsInv'
      BY <1>2, <1>8 DEF CoreInv, ArgsInv, Active
    <2>2. KernelInv' /\ EndInv'
      BY <1>2, <1>8 DEF CoreInv, KernelInv, EndInv
    <2>3. CounterInv' /\ LadderInv' /\ FreshInv'
      BY <1>3, <1>8 DEF CounterInv, LadderInv, FreshInv
    <2>. QED  BY <2>1, <2>2, <2>3
  <1>b. RoomInv' /\ FallingInv'
    <2>1. space <= Stack
      BY <1>3 DEF CoreInv, RoomInv
    <2>. QED  BY <1>2, <1>6, <1>8, <2>1 DEF RoomInv, FallingInv, Live
  <1>c. StackInv'
    <2>1. SUFFICES ASSUME NEW j \in 0..(current + 1)
                   PROVE  /\ kernels'[j].on = codomain.on
                          /\ kernels'[j].coords = codomain.coords
                          /\ todo'[j] >= 1
                          /\ todo'[j] = call.n - codomain.on - kernels'[j].dbls
      BY <1>2, <1>8 DEF StackInv, Live
    <2>2. call.n \in Int
      BY <1>3, ActiveFacts DEF CoreInv, Active
    <2>3. CASE j = current + 1
      <3>1. todo'[j] = todo[current] - num /\ kernels'[j] = new
        BY <1>6, <1>8, <2>3, StackFacts
      <3>. QED  BY <1>4, <1>5, <1>6, <1>9, <2>2, <3>1, StackFacts
    <2>4. CASE j # current + 1
      <3>1. j \in Slots /\ j \in Live
        BY <1>4, <2>4, Bounds DEF Slots, Live
      <3>2. todo'[j] = todo[j] /\ kernels'[j] = kernels[j]
        BY <1>6, <1>8, <2>4, <3>1, StackFacts
      <3>. QED  BY <1>3, <3>1, <3>2 DEF CoreInv, StackInv
    <2>. QED  BY <2>3, <2>4
  <1>d. StepsInv'
    <2>1. /\ step >= 1 /\ codomain.on = Glued + step - 1 /\ codomain.coords = Reads
          /\ kernels[0].dbls = 0
      BY <1>3, StackFacts, Bounds DEF CoreInv, StepsInv
    <2>2. Glued' = Glued /\ Reads' = Reads
      BY <1>2, SameCall DEF Reads
    <2>3. kernels'[0] = kernels[0] /\ current' # -1
      <3>1. 0 # current + 1 /\ current + 1 # -1
        BY <1>4, Bounds DEF Slots
      <3>. QED  BY <1>8, <3>1, StackFacts
    <2>. QED  BY <1>2, <2>1, <2>2, <2>3 DEF StepsInv
  <1>. QED  BY <1>1, <1>8, <1>a, <1>b, <1>c, <1>d DEF CoreInv

\* The gluing consumes the top of a stack of at least two entries, so that
\* entry 0, which is K, is among those it pushes.
LEMMA CoreGluing ==
  ASSUME CoreInv, Gluing
  PROVE  /\ CoreInv'
         /\ codomain.on = 0 /\ codomain'.on = 1
         /\ last'.k = 1 /\ last'.on = 0 /\ last'.dbls = call.n - 1
         /\ last'.check = "verified"
  <1>1. TInv'
    BY TypeGluing DEF CoreInv
  <1>2. UNCHANGED <<call, space, pow, ladder, snapshot, back>>
    BY DEF Gluing
  <1>3. pc = "gluing" /\ todo[current] = 1 /\ current' = current - 1 /\ step' = 1
    BY DEF Gluing
  <1>4. codomain.on = 0 /\ last.k = 0 /\ ladder[0] = 0 /\ ~FromStructure
    BY <1>3 DEF CoreInv, FreshInv
  <1>5. /\ call \in Calls /\ ~Refused(call) /\ call.n \in Nat /\ call.n >= 2
        /\ Glued = 1 /\ call.coords = "regular"
    BY <1>3, <1>4, ActiveFacts DEF CoreInv, Active, ArgsInv
  <1>6. current \in Nat /\ current \in Slots /\ \A j \in Live : j \in Slots
    BY <1>3, StackFacts, Bounds DEF CoreInv, TInv, Slots, Live
  <1>7. \A j \in Live : todo[j] >= 1 /\ todo[j] = call.n - ladder[j]
    BY <1>3 DEF CoreInv, LadderInv
  <1>8. current # 0
    <2>1. 0 \in Live
      BY <1>6 DEF Live
    <2>. QED  BY <1>3, <1>4, <1>5, <1>7, <2>1
  <1>9. \A j \in 0..(current - 1) : j \in Slots /\ j \in Live /\ j \in GluingPushed
    BY <1>6, Bounds DEF Live, GluingPushed, Slots
  <1>a. \A j \in 0..(current - 1) :
            /\ todo'[j] = todo[j] - 1
            /\ kernels'[j].on = 1 /\ kernels'[j].coords = "regular"
            /\ kernels'[j].dbls = ladder[j]
    <2>1. kernels' = [j \in Slots |-> IF j \in GluingPushed
                              THEN [on |-> 1, dbls |-> ladder[j], coords |-> "regular"]
                              ELSE Zero]
      BY DEF Gluing
    <2>2. todo' = [j \in Slots |-> IF j \in GluingPushed THEN todo[j] - 1 ELSE todo[j]]
      BY DEF Gluing
    <2>3. \A j \in 0..(current - 1) :
             kernels'[j] = [on |-> 1, dbls |-> ladder[j], coords |-> "regular"]
      BY <1>9, <2>1
    <2>4. \A j \in 0..(current - 1) : todo'[j] = todo[j] - 1
      BY <1>9, <2>2
    <2>5. ASSUME NEW j \in 0..(current - 1)
          PROVE  /\ kernels'[j].on = 1 /\ kernels'[j].coords = "regular"
                 /\ kernels'[j].dbls = ladder[j]
      <3>. DEFINE e == kernels'[j]
      <3>1. e = [on |-> 1, dbls |-> ladder[j], coords |-> "regular"]
        BY <2>3
      <3>. HIDE DEF e
      <3>2. e.on = 1 /\ e.coords = "regular" /\ e.dbls = ladder[j]
        BY <3>1
      <3>. QED  BY <3>2 DEF e
    <2>. QED  BY <2>4, <2>5
  <1>b. /\ last' = [k |-> 1, on |-> 0, dbls |-> ladder[current], coords |-> "none",
                    reads |-> "none", check |-> "verified"]
        /\ codomain' = [on |-> 1, coords |-> "regular"]
    BY DEF Gluing
  <1>c. ladder[current] = call.n - 1
    <2>1. current \in Live
      BY <1>6 DEF Live
    <2>2. 1 = call.n - ladder[current] /\ ladder[current] \in Int
      BY <1>3, <1>6, <1>7, <2>1, StackFacts
    <2>. QED  BY <1>5, <2>2
  <1>d. pc' \in {"steps", "returned"} /\ result' \in {result, "none"}
    BY DEF Gluing, Return
  <1>e. result # "some"
    <2>1. result = "some" => codomain.on = call.n
      BY DEF CoreInv, EndInv
    <2>. QED  BY <1>4, <1>5, <2>1
  <1>f. KernelInv'
    BY <1>2, <1>b, <1>c DEF KernelInv
  <1>g. ArgsInv' /\ EndInv' /\ FreshInv' /\ CounterInv' /\ LadderInv'
    <2>1. ArgsInv'
      BY <1>2, <1>5, <1>d DEF ArgsInv
    <2>. QED  BY <2>1, <1>d, <1>e DEF EndInv, FreshInv, CounterInv, LadderInv
  <1>h. RoomInv' /\ FallingInv'
    <2>1. /\ space <= Stack
          /\ \A j \in Live : j < space /\ todo[j] <= Pow2[space - 1 - j]
      BY <1>3 DEF CoreInv, RoomInv
    <2>2. \A j \in 0..(current - 1) : j < space /\ todo[j] - 1 <= Pow2[space - 1 - j]
      <3>1. SUFFICES ASSUME NEW j \in 0..(current - 1)
                     PROVE  j < space /\ todo[j] - 1 <= Pow2[space - 1 - j]
        OBVIOUS
      <3>2. j < space /\ todo[j] <= Pow2[space - 1 - j] /\ todo[j] \in Int
        BY <1>9, <2>1, StackFacts
      <3>3. Pow2[space - 1 - j] \in Nat
        <4>1. space - 1 - j \in 0..Stack
          BY <1>6, <2>1, <3>2, StackFacts, Bounds
        <4>. QED  BY <4>1, Powers
      <3>. QED  BY <3>2, <3>3
    <2>3. RoomInv'
      BY <1>2, <1>3, <1>a, <2>1, <2>2 DEF RoomInv, Live
    <2>4. \A j \in 1..(current - 1) : todo'[j] < todo'[j - 1]
      <3>1. SUFFICES ASSUME NEW j \in 1..(current - 1) PROVE todo'[j] < todo'[j - 1]
        OBVIOUS
      <3>2. j \in 0..(current - 1) /\ j - 1 \in 0..(current - 1) /\ j \in 1..current
        BY <1>6
      <3>3. todo[j] < todo[j - 1]
        BY <1>3, <3>2 DEF CoreInv, FallingInv
      <3>4. todo'[j] = todo[j] - 1 /\ todo'[j - 1] = todo[j - 1] - 1
        BY <1>a, <3>2
      <3>5. todo[j] \in Int /\ todo[j - 1] \in Int
        BY <1>9, <3>2, StackFacts
      <3>. QED  BY <3>3, <3>4, <3>5
    <2>5. FallingInv'
      BY <1>3, <2>4 DEF FallingInv
    <2>. QED  BY <2>3, <2>5
  <1>i. StackInv'
    <2>1. SUFFICES ASSUME NEW j \in 0..(current - 1)
                   PROVE  /\ kernels'[j].on = codomain'.on
                          /\ kernels'[j].coords = codomain'.coords
                          /\ todo'[j] >= 1
                          /\ todo'[j] = call.n - codomain'.on - kernels'[j].dbls
      BY <1>2, <1>3 DEF StackInv, Live
    <2>2. todo[j] >= 2
      <3>1. j + 1 \in 1..current /\ j + 1 \in Live /\ j \in Slots /\ j + 1 \in Slots
        BY <1>6, <1>9 DEF Live
      <3>2. todo[j + 1] < todo[(j + 1) - 1] /\ (j + 1) - 1 = j
        BY <1>3, <3>1 DEF CoreInv, FallingInv
      <3>. QED  BY <1>7, <3>1, <3>2, StackFacts
    <2>3. todo[j] = call.n - ladder[j] /\ todo[j] \in Int /\ ladder[j] \in Int
      BY <1>7, <1>9, StackFacts
    <2>4. codomain'.on = 1 /\ codomain'.coords = "regular"
      BY <1>b
    <2>. QED  BY <1>5, <1>a, <2>2, <2>3, <2>4
  <1>j. StepsInv'
    <2>1. kernels'[0].dbls = 0
      <3>1. 0 \in 0..(current - 1)
        BY <1>6, <1>8
      <3>. QED  BY <1>4, <1>a, <3>1
    <2>2. current' # -1
      BY <1>3, <1>6, <1>8
    <2>3. codomain'.on = 1 /\ codomain'.coords = "regular" /\ Glued' = 1
      BY <1>2, <1>5, <1>b, SameCall
    <2>5. codomain'.on = Glued' + step' - 1 /\ step' >= 1
      BY <1>3, <2>3
    <2>4. Reads' = "regular"
      BY <1>2, <1>3, <1>5 DEF Reads
    <2>. QED  BY <2>1, <2>2, <2>3, <2>4, <2>5 DEF StepsInv
  <1>. QED  BY <1>1, <1>4, <1>b, <1>c, <1>f, <1>g, <1>h, <1>i, <1>j DEF CoreInv

\* An isogeny consumes the top of the stack and pushes the rest.
LEMMA CoreIsogeny ==
  ASSUME CoreInv, Isogeny
  PROVE  /\ CoreInv'
         /\ codomain.on < call.n /\ codomain'.on = codomain.on + 1
         /\ codomain.on = Glued + step - 1 /\ step >= 1
         /\ codomain.coords = Reads /\ codomain'.coords = "dual"
         /\ last'.k = codomain.on + 1 /\ last'.on = codomain.on
         /\ last'.dbls = call.n - codomain.on - 1
         /\ last'.check = (IF VerifyStep THEN "verified" ELSE "unverified")
  <1>1. TInv'
    BY TypeIsogeny DEF CoreInv
  <1>2. UNCHANGED <<call, space, pow, ladder, back>>
    BY DEF Isogeny
  <1>3. pc = "steps" /\ todo[current] = 1 /\ current >= 0 /\ current' = current - 1
    BY DEF Isogeny, InLoop
  <1>4. /\ call \in Calls /\ ~Refused(call) /\ call.n \in Nat /\ call.n >= 2
        /\ Glued \in {0, 1}
    BY <1>3, ActiveFacts DEF CoreInv, Active, ArgsInv
  <1>5. current \in Nat /\ current \in Slots /\ current \in Live
    BY <1>3, StackFacts, Bounds DEF Slots, Live
  <1>6. /\ step >= 1 /\ step \in Nat /\ codomain.on = Glued + step - 1
        /\ codomain.coords = Reads /\ kernels[0].dbls = 0
    BY <1>3, StackFacts DEF CoreInv, StepsInv
  <1>7. \A j \in Live : /\ kernels[j].on = codomain.on
                        /\ kernels[j].coords = codomain.coords
                        /\ todo[j] >= 1
                        /\ todo[j] = call.n - codomain.on - kernels[j].dbls
    BY <1>3 DEF CoreInv, StackInv
  <1>8. /\ kernels[current].on = codomain.on /\ kernels[current].coords = Reads
        /\ kernels[current].dbls = call.n - codomain.on - 1
    <2>1. 1 = call.n - codomain.on - kernels[current].dbls
      BY <1>3, <1>5, <1>7
    <2>. QED  BY <1>4, <1>5, <1>6, <1>7, <2>1, StackFacts
  <1>9. codomain.on < call.n
    <2>1. 0 \in Live
      BY <1>5 DEF Live
    <2>2. todo[0] >= 1 /\ todo[0] = call.n - codomain.on - kernels[0].dbls
      BY <1>7, <2>1
    <2>. QED  BY <1>4, <1>6, <2>2, StackFacts
  <1>a. \A j \in 0..(current - 1) : j \in Slots /\ j \in Live /\ j \in StepPushed
    BY <1>5, Bounds DEF Live, StepPushed, Slots
  <1>b. /\ codomain' = [on |-> codomain.on + 1, coords |-> "dual"]
        /\ last' = [k |-> Glued + step, on |-> kernels[current].on,
                    dbls |-> kernels[current].dbls, coords |-> kernels[current].coords,
                    reads |-> Reads, check |-> IF VerifyStep THEN "verified" ELSE "unverified"]
    BY DEF Isogeny
  <1>c. codomain'.on = codomain.on + 1 /\ codomain'.coords = "dual"
    BY <1>b
  <1>d. /\ last'.k = codomain.on + 1 /\ last'.on = codomain.on
        /\ last'.dbls = call.n - codomain.on - 1
        /\ last'.coords = last'.reads
    <2>1. /\ last'.k = Glued + step /\ last'.on = kernels[current].on
          /\ last'.dbls = kernels[current].dbls /\ last'.coords = kernels[current].coords
          /\ last'.reads = Reads
      BY <1>b
    <2>2. Glued + step = codomain.on + 1
      BY <1>4, <1>6
    <2>. QED  BY <1>8, <2>1, <2>2
  <1>m. last'.check = (IF VerifyStep THEN "verified" ELSE "unverified")
    BY <1>b
  <1>e. \A j \in 0..(current - 1) :
            /\ todo'[j] = todo[j] - 1
            /\ kernels'[j].on = codomain.on + 1 /\ kernels'[j].coords = "dual"
            /\ kernels'[j].dbls = kernels[j].dbls
    <2>1. kernels' = [j \in Slots |-> IF j \in StepPushed THEN ImageEntry(kernels[j]) ELSE kernels[j]]
      BY DEF Isogeny
    <2>2. todo' = [j \in Slots |-> IF j \in StepPushed THEN todo[j] - 1 ELSE todo[j]]
      BY DEF Isogeny
    <2>3. SUFFICES ASSUME NEW j \in 0..(current - 1)
                   PROVE  /\ todo'[j] = todo[j] - 1
                          /\ kernels'[j].on = codomain.on + 1 /\ kernels'[j].coords = "dual"
                          /\ kernels'[j].dbls = kernels[j].dbls
      OBVIOUS
    <2>4. todo'[j] = todo[j] - 1 /\ kernels'[j] = ImageEntry(kernels[j])
      BY <1>a, <2>1, <2>2
    <2>5. kernels[j].on = codomain.on /\ kernels[j].coords = Reads
      BY <1>6, <1>7, <1>a
    <2>6. ImageCoords(kernels[j]) = "dual"
      BY <2>5 DEF ImageCoords, ReadsWell
    <2>7. /\ ImageEntry(kernels[j]).on = codomain.on + 1
          /\ ImageEntry(kernels[j]).coords = "dual"
          /\ ImageEntry(kernels[j]).dbls = kernels[j].dbls
      BY <2>5, <2>6 DEF ImageEntry
    <2>. QED  BY <2>4, <2>7
  <1>f. KernelInv'
    <2>2. last'.on = last'.k - 1 /\ codomain'.on = last'.k
      BY <1>c, <1>d, StackFacts
    <2>3. last'.dbls = call'.n - last'.k
      BY <1>2, <1>4, <1>d, StackFacts
    <2>. QED  BY <1>d, <2>2, <2>3 DEF KernelInv
  <1>g. pc' \in {"steps", "returned"} /\ result' \in {result, "none"}
        /\ (pc' = "steps" => step' = step + 1)
    BY <1>3 DEF Isogeny, Return
  <1>h. result # "some"
    <2>1. result = "some" => codomain.on = call.n
      BY DEF CoreInv, EndInv
    <2>. QED  BY <1>4, <1>9, <2>1
  <1>i. ArgsInv' /\ EndInv' /\ FreshInv' /\ CounterInv' /\ LadderInv'
    <2>1. ArgsInv'
      BY <1>2, <1>4, <1>g DEF ArgsInv
    <2>. QED  BY <2>1, <1>g, <1>h DEF EndInv, FreshInv, CounterInv, LadderInv
  <1>j. RoomInv' /\ FallingInv'
    <2>1. /\ space <= Stack
          /\ \A j \in Live : j < space /\ todo[j] <= Pow2[space - 1 - j]
      BY <1>3 DEF CoreInv, RoomInv
    <2>2. \A j \in 0..(current - 1) : j < space /\ todo[j] - 1 <= Pow2[space - 1 - j]
      <3>1. SUFFICES ASSUME NEW j \in 0..(current - 1)
                     PROVE  j < space /\ todo[j] - 1 <= Pow2[space - 1 - j]
        OBVIOUS
      <3>2. j < space /\ todo[j] <= Pow2[space - 1 - j] /\ todo[j] \in Int
        BY <1>a, <2>1, StackFacts
      <3>3. Pow2[space - 1 - j] \in Nat
        <4>1. space - 1 - j \in 0..Stack
          BY <1>5, <2>1, <3>2, StackFacts, Bounds
        <4>. QED  BY <4>1, Powers
      <3>. QED  BY <3>2, <3>3
    <2>3. RoomInv'
      BY <1>2, <1>3, <1>e, <2>1, <2>2 DEF RoomInv, Live
    <2>4. \A j \in 1..(current - 1) : todo'[j] < todo'[j - 1]
      <3>1. SUFFICES ASSUME NEW j \in 1..(current - 1) PROVE todo'[j] < todo'[j - 1]
        OBVIOUS
      <3>2. j \in 0..(current - 1) /\ j - 1 \in 0..(current - 1) /\ j \in 1..current
        BY <1>5
      <3>3. todo[j] < todo[j - 1]
        BY <1>3, <3>2 DEF CoreInv, FallingInv
      <3>4. todo'[j] = todo[j] - 1 /\ todo'[j - 1] = todo[j - 1] - 1
        BY <1>e, <3>2
      <3>5. todo[j] \in Int /\ todo[j - 1] \in Int
        BY <1>a, <3>2, StackFacts
      <3>. QED  BY <3>3, <3>4, <3>5
    <2>5. FallingInv'
      BY <1>3, <2>4 DEF FallingInv
    <2>. QED  BY <2>3, <2>5
  <1>k. StackInv'
    <2>1. SUFFICES ASSUME NEW j \in 0..(current - 1)
                   PROVE  /\ kernels'[j].on = codomain'.on
                          /\ kernels'[j].coords = codomain'.coords
                          /\ todo'[j] >= 1
                          /\ todo'[j] = call.n - codomain'.on - kernels'[j].dbls
      BY <1>2, <1>3 DEF StackInv, Live
    <2>2. todo[j] >= 2
      <3>1. j + 1 \in 1..current /\ j + 1 \in Live /\ j \in Slots /\ j + 1 \in Slots
        BY <1>5, <1>a DEF Live, Slots
      <3>2. todo[j + 1] < todo[(j + 1) - 1] /\ (j + 1) - 1 = j
        BY <1>3, <3>1 DEF CoreInv, FallingInv
      <3>. QED  BY <1>7, <3>1, <3>2, StackFacts
    <2>3. /\ todo[j] = call.n - codomain.on - kernels[j].dbls
          /\ todo[j] \in Int /\ kernels[j].dbls \in Int
      BY <1>7, <1>a, StackFacts
    <2>4. todo'[j] >= 1 /\ todo'[j] = call.n - (codomain.on + 1) - kernels'[j].dbls
      BY <1>4, <1>e, <2>2, <2>3, StackFacts
    <2>. QED  BY <1>c, <1>e, <2>4
  <1>l. StepsInv'
    <2>1. SUFFICES ASSUME pc' = "steps" PROVE StepsInv'
      BY DEF StepsInv
    <2>2. step' = step + 1 /\ Glued' = Glued
      BY <1>2, <1>g, <2>1, SameCall
    <2>3. step' >= 1 /\ codomain'.on = Glued' + step' - 1
      BY <1>4, <1>6, <1>c, <2>2
    <2>4. codomain'.coords = Reads'
      <3>1. step' # 1
        BY <1>6, <2>2
      <3>. QED  BY <1>c, <3>1 DEF Reads
    <2>5. CASE current = 0
      <3>1. codomain'.on = call.n
        BY <1>4, <1>6, <1>8, <1>c, <2>5, StackFacts
      <3>2. current' = -1
        BY <1>3, <2>5
      <3>. QED  BY <1>2, <2>3, <2>4, <3>1, <3>2 DEF StepsInv
    <2>6. CASE current # 0
      <3>1. 0 \in 0..(current - 1) /\ current' # -1
        BY <1>3, <1>5, <2>6
      <3>2. kernels'[0].dbls = 0
        BY <1>6, <1>e, <3>1
      <3>. QED  BY <2>3, <2>4, <3>1, <3>2 DEF StepsInv
    <2>. QED  BY <2>5, <2>6
  <1>. QED  BY <1>1, <1>6, <1>9, <1>c, <1>d, <1>f, <1>i, <1>j, <1>k, <1>l, <1>m DEF CoreInv

\* The loop can only end with an empty stack and every step done.
LEMMA LoopEnds ==
  ASSUME CoreInv, pc = "steps", ~InLoop
  PROVE  current = -1 /\ step = Steps + 1 /\ codomain.on = call.n /\ codomain.coords = "dual"
  <1>1. current = -1
    <2>1. SUFFICES ASSUME current # -1 PROVE FALSE
      OBVIOUS
    <2>2. current >= 0 /\ current \in Slots /\ current \in Live
      BY <2>1, StackFacts, Bounds DEF Slots, Live
    <2>3. todo[current] >= 1
      BY <2>2 DEF CoreInv, StackInv
    <2>. QED  BY <2>2, <2>3 DEF InLoop
  <1>2. /\ step \in Nat /\ codomain.on = Glued + step - 1 /\ codomain.coords = Reads
        /\ codomain.on = call.n
    BY <1>1, StackFacts DEF CoreInv, StepsInv
  <1>3. Steps \in Nat /\ Steps >= 1 /\ Glued \in {0, 1} /\ Steps + Glued = call.n
    BY ActiveFacts DEF CoreInv, Active
  <1>4. step = Steps + 1
    BY <1>2, <1>3
  <1>5. codomain.coords = "dual"
    BY <1>2, <1>3, <1>4 DEF Reads
  <1>. QED  BY <1>1, <1>2, <1>4, <1>5

LEMMA CoreEnd ==
  ASSUME CoreInv, GluingFails \/ IsogenyFails \/ StepsDone \/ SplitFails \/ Split
  PROVE  CoreInv'
  <1>1. TInv'
    BY TypeEnd DEF CoreInv
  <1>2. UNCHANGED <<call, space, pow, todo, ladder, kernels, current, step, codomain,
                    pts, last, snapshot, cache, back>>
    BY DEF GluingFails, IsogenyFails, StepsDone, SplitFails, Split
  <1>3. pc \in {"gluing", "steps", "split"} /\ pc' \in {"split", "returned"}
    BY DEF GluingFails, IsogenyFails, StepsDone, SplitFails, Split, Return
  <1>4. pc' = "split" \/ result' = "some" => StepsDone \/ Split
    BY <1>3 DEF GluingFails, IsogenyFails, StepsDone, SplitFails, Split, Return
  <1>5. call \in Calls /\ ~Refused(call)
    BY <1>3 DEF CoreInv, ArgsInv, Active
  <1>6. ArgsInv' /\ KernelInv'
    BY <1>2, <1>3, <1>5 DEF CoreInv, ArgsInv, KernelInv
  <1>7. EndInv'
    <2>1. CASE StepsDone
      <3>1. pc = "steps" /\ ~InLoop
        BY <2>1 DEF StepsDone
      <3>. QED  BY <1>2, <3>1, LoopEnds DEF EndInv
    <2>2. CASE Split
      <3>1. pc = "split"
        BY <2>2 DEF Split
      <3>. QED  BY <1>2, <3>1 DEF CoreInv, EndInv
    <2>. QED  BY <1>4, <2>1, <2>2 DEF EndInv
  <1>8. FreshInv' /\ CounterInv' /\ RoomInv' /\ FallingInv'
    BY <1>3 DEF FreshInv, CounterInv, RoomInv, FallingInv
  <1>9. LadderInv' /\ StackInv' /\ StepsInv'
    BY <1>3 DEF LadderInv, StackInv, StepsInv
  <1>. QED  BY <1>1, <1>6, <1>7, <1>8, <1>9 DEF CoreInv

LEMMA CoreStutter ==
  ASSUME CoreInv, GoBack \/ PullBack \/ UNCHANGED vars
  PROVE  CoreInv'
  <1>1. TInv'
    <2>1. TInv
      BY DEF CoreInv
    <2>. QED  BY <2>1, TypeNext DEF Next
  <1>2. UNCHANGED <<call, pc, space, pow, todo, ladder, kernels, current, step, codomain,
                    last, result>>
    BY DEF GoBack, PullBack, vars
  <1>7. ArgsInv'
    BY <1>2 DEF CoreInv, ArgsInv, Active
  <1>3. KernelInv' /\ EndInv' /\ FreshInv'
    BY <1>2, SameCall DEF CoreInv, KernelInv, EndInv, FreshInv
  <1>4. CounterInv' /\ RoomInv' /\ FallingInv'
    BY <1>2 DEF CoreInv, CounterInv, RoomInv, FallingInv, Live
  <1>5. LadderInv' /\ StackInv'
    BY <1>2 DEF CoreInv, LadderInv, StackInv, Live
  <1>6. StepsInv'
    BY <1>2, SameCall DEF CoreInv, StepsInv, Reads
  <1>. QED  BY <1>1, <1>3, <1>4, <1>5, <1>6, <1>7 DEF CoreInv

LEMMA CoreNext == CoreInv /\ [Next]_vars => CoreInv'
  <1>. SUFFICES ASSUME CoreInv, [Next]_vars PROVE CoreInv'
    OBVIOUS
  <1>1. CASE \E c \in Calls : Call(c)
    BY <1>1, CoreCall
  <1>2. CASE DepthLoop
    BY <1>2, CoreDepthLoop
  <1>3. CASE DepthKnown
    BY <1>3, CoreDepthKnown
  <1>4. CASE GluingDescend
    BY <1>4, CoreGluingDescend
  <1>5. CASE Gluing
    BY <1>5, CoreGluing
  <1>6. CASE Descend
    BY <1>6, CoreDescend
  <1>7. CASE Isogeny
    BY <1>7, CoreIsogeny
  <1>8. CASE GluingFails \/ IsogenyFails \/ StepsDone \/ SplitFails \/ Split
    BY <1>8, CoreEnd
  <1>9. CASE GoBack \/ PullBack \/ UNCHANGED vars
    BY <1>9, CoreStutter
  <1>. QED  BY <1>1, <1>2, <1>3, <1>4, <1>5, <1>6, <1>7, <1>8, <1>9 DEF Next, Run

\* CoreInv holds throughout: everything below is read off it.
THEOREM CoreCorrect == Spec => []CoreInv
  <1>. QED  BY CoreInit, CoreNext, PTL DEF Spec

---------------------------------------------------------------------------
(* The safety invariants the runs check, for every size.                   *)

\* Every isogeny is computed from the order-8 multiple of the kernel pushed to
\* the surface it leaves, read in the coordinates it is written in.
THEOREM KernelCorrect == Spec => []KernelInv
  <1>1. CoreInv => KernelInv
    BY DEF CoreInv
  <1>. QED  BY <1>1, CoreCorrect, PTL

\* The live entries of generic_steps stand where the chain stands and count
\* what is left of them.
THEOREM StackCorrect == Spec => []StackInv
  <1>1. CoreInv => StackInv
    BY DEF CoreInv
  <1>. QED  BY <1>1, CoreCorrect, PTL

\* The entries of start_chain, before the gluing, count what is left of them.
THEOREM LadderCorrect == Spec => []LadderInv
  <1>1. CoreInv => LadderInv
    BY DEF CoreInv
  <1>. QED  BY <1>1, CoreCorrect, PTL

\* The depth the u16 counter finds bounds both strategies: neither of the
\* `current >= STACK' returns is ever taken.
THEOREM DepthCorrect == Spec => []DepthInv
  <1>1. CoreInv => DepthInv
    <2>1. SUFFICES ASSUME CoreInv, pc \in {"gluing", "steps"}
                   PROVE  space <= Stack /\ current < space
      BY DEF DepthInv
    <2>2. space <= Stack /\ \A j \in Live : j < space
      BY <2>1 DEF CoreInv, RoomInv
    <2>3. CASE current = -1
      BY <2>1, <2>2, <2>3, StackFacts
    <2>4. CASE current # -1
      <3>1. current \in Live
        BY <2>1, <2>4, StackFacts, Bounds DEF Live
      <3>. QED  BY <2>2, <3>1
    <2>. QED  BY <2>2, <2>3, <2>4
  <1>. QED  BY <1>1, CoreCorrect, PTL

\* The debug assertion at the end of generic_steps: the loop ends with an
\* empty stack, and only after the steps it was asked for.
THEOREM DrivenCorrect == Spec => []DrivenInv
  <1>1. CoreInv => DrivenInv
    BY LoopEnds DEF DrivenInv
  <1>. QED  BY <1>1, CoreCorrect, PTL

---------------------------------------------------------------------------
(***************************************************************************)
(* What a call delivers: the two stages, the checks made on the way, the   *)
(* progress it reports, the surfaces recorded for the way back; and that   *)
(* it is an isogeny chain, for a caller that hands in a fresh DualCache.   *)
(* Every proof rests on CoreInv.                                           *)
(***************************************************************************)

\* The pushed points stand where the chain stands.
PushedInv ==
    \A k \in DOMAIN pts : pts[k] = [on |-> codomain.on, coords |-> codomain.coords]

\* Once the chain is past its penultimate surface, the snapshot was taken there.
SnapshotInv ==
    (Active \/ result = "some") /\ Staged(call) /\ codomain.on >= call.n - 1 =>
        /\ snapshot.on = call.n - 1
        /\ \A k \in DOMAIN pts : snapshot.pts[k].on = call.n - 1

DeliveryInv == PushedInv /\ SnapshotInv /\ CheckedInv /\ ProgressInv

LEMMA DeliveryInit == Init => DeliveryInv
  <1>. SUFFICES ASSUME Init PROVE DeliveryInv
    OBVIOUS
  <1>1. pc = "idle" /\ result = "" /\ call.api = "eval" /\ DOMAIN pts = {}
    <2>1. call = NoCall /\ pts = <<>> /\ pc = "idle" /\ result = ""
      BY DEF Init
    <2>2. DOMAIN pts = {}
      <3>1. <<>> \in [1..0 -> Placed]
        OBVIOUS
      <3>2. \A k : k \notin 1..0
        OBVIOUS
      <3>. QED  BY <2>1, <3>1, <3>2
    <2>3. call.api = "eval"
      BY <2>1 DEF NoCall
    <2>. QED  BY <2>1, <2>2, <2>3
  <1>2. last.check = "verified"
    BY DEF Init, NoStep
  <1>3. PushedInv /\ SnapshotInv /\ ProgressInv
    BY <1>1 DEF PushedInv, SnapshotInv, ProgressInv, Active, Staged, FromStructure
  <1>4. CheckedInv
    BY <1>2 DEF CheckedInv
  <1>. QED  BY <1>3, <1>4 DEF DeliveryInv

LEMMA DeliveryCall ==
  ASSUME CoreInv, NEW c \in Calls, Call(c)
  PROVE  DeliveryInv'
  <1>1. /\ call' = c /\ progress' = 0
        /\ codomain' = [on |-> 0, coords |-> IF c.api = "structure" THEN c.coords ELSE "none"]
        /\ pts' = [k \in 1..(IF Refused(c) THEN 0 ELSE Points(c)) |->
                     [on |-> 0, coords |-> codomain'.coords]]
        /\ last' = NoStep
        /\ IF Refused(c) THEN pc' = "returned" /\ result' = "none"
                         ELSE pc' = "space" /\ result' = ""
    BY DEF Call
  <1>2. codomain'.on = 0
    BY <1>1
  <1>3. PushedInv'
    BY <1>1, <1>2 DEF PushedInv
  <1>4. SnapshotInv'
    <2>1. CASE Refused(c)
      BY <1>1, <2>1 DEF SnapshotInv, Active
    <2>2. CASE ~Refused(c)
      <3>1. c.n \in Nat /\ c.n >= 2 /\ call' = c
        BY <1>1, <2>2, CallFacts
      <3>2. ~(codomain'.on >= call'.n - 1)
        BY <1>2, <3>1
      <3>. QED  BY <3>2 DEF SnapshotInv
    <2>. QED  BY <2>1, <2>2
  <1>5. CheckedInv'
    <2>1. last'.check = "verified"
      BY <1>1 DEF NoStep
    <2>. QED  BY <2>1 DEF CheckedInv
  <1>6. ProgressInv'
    BY <1>1, <1>2 DEF ProgressInv
  <1>. QED  BY <1>3, <1>4, <1>5, <1>6 DEF DeliveryInv

LEMMA DeliveryGluing ==
  ASSUME CoreInv, DeliveryInv, Gluing
  PROVE  DeliveryInv'
  <1>1. UNCHANGED call
    BY DEF Gluing
  <1>2. /\ codomain' = [on |-> 1, coords |-> "regular"]
        /\ pts' = [k \in DOMAIN pts |-> [on |-> 1, coords |-> "regular"]]
        /\ last'.check = "verified" /\ pc = "gluing"
    BY CoreGluing DEF Gluing
  <1>3. codomain'.on = 1 /\ codomain'.coords = "regular"
    BY <1>2
  <1>4. PushedInv'
    BY <1>2, <1>3 DEF PushedInv
  <1>5. ~FromStructure' /\ (Staged(call) => call.n \in Nat /\ call.n >= 3)
    <2>1. ~FromStructure
      BY <1>2 DEF CoreInv, FreshInv
    <2>. QED  BY <1>1, <1>2, <2>1, SameCall, ActiveFacts DEF CoreInv, Active
  <1>6. SnapshotInv'
    <2>1. Staged(call) => ~(1 >= call.n - 1)
      BY <1>5
    <2>. QED  BY <1>1, <1>3, <2>1 DEF SnapshotInv
  <1>7. CheckedInv'
    BY <1>2 DEF CheckedInv
  <1>8. ProgressInv'
    BY <1>5 DEF ProgressInv
  <1>. QED  BY <1>4, <1>6, <1>7, <1>8 DEF DeliveryInv

LEMMA DeliveryIsogeny ==
  ASSUME CoreInv, DeliveryInv, Isogeny
  PROVE  DeliveryInv'
  <1>1. UNCHANGED call
    BY DEF Isogeny
  <1>2. /\ codomain.on < call.n /\ codomain'.on = codomain.on + 1
        /\ codomain.on = Glued + step - 1
        /\ codomain.coords = Reads /\ codomain'.coords = "dual"
        /\ last'.k = codomain.on + 1
    BY CoreIsogeny
  <1>3. pc = "steps" /\ progress' = step
        /\ pts' = [k \in DOMAIN pts |-> Image(pts[k])]
        /\ snapshot' = IF Staged(call) /\ step = SnapshotAfter
                       THEN [on |-> codomain'.on, pts |-> pts'] ELSE snapshot
    BY DEF Isogeny
  <1>4. /\ step \in Nat /\ codomain.on \in Nat /\ call.n \in Nat
        /\ Glued \in {0, 1} /\ Steps + Glued = call.n /\ Steps \in Nat
        /\ (FromStructure => Glued = 0)
        /\ (Staged(call) => ~FromStructure /\ Glued = 1 /\ call.n >= 3)
    BY <1>3, StackFacts, ActiveFacts DEF CoreInv, Active
  <1>5. PushedInv'
    <2>1. SUFFICES ASSUME NEW k \in DOMAIN pts
                   PROVE  Image(pts[k]) = [on |-> codomain'.on, coords |-> codomain'.coords]
      BY <1>3 DEF PushedInv
    <2>2. pts[k] = [on |-> codomain.on, coords |-> codomain.coords]
      BY DEF DeliveryInv, PushedInv
    <2>3. pts[k].on = codomain.on /\ pts[k].coords = codomain.coords
      BY <2>2
    <2>4. ImageCoords(pts[k]) = "dual"
      BY <1>2, <2>3 DEF ImageCoords, ReadsWell
    <2>. QED  BY <1>2, <2>3, <2>4 DEF Image
  <1>6. DOMAIN pts' = DOMAIN pts
    BY <1>3
  <1>7. SnapshotInv'
    <2>1. SUFFICES ASSUME Staged(call), codomain'.on >= call.n - 1
                   PROVE  /\ snapshot'.on = call.n - 1
                          /\ \A k \in DOMAIN pts : snapshot'.pts[k].on = call.n - 1
      BY <1>1, <1>6 DEF SnapshotInv
    <2>2. SnapshotAfter = call.n - 2
      BY <2>1 DEF SnapshotAfter
    <2>3. CASE step = call.n - 2
      <3>1. codomain'.on = call.n - 1
        BY <1>2, <1>4, <2>1, <2>3
      <3>2. snapshot'.on = codomain'.on /\ snapshot'.pts = pts'
        BY <1>3, <2>1, <2>2, <2>3
      <3>3. ASSUME NEW k \in DOMAIN pts PROVE pts'[k].on = codomain'.on
        <4>1. pts'[k] = [on |-> codomain'.on, coords |-> codomain'.coords]
          BY <1>5, <1>6 DEF PushedInv
        <4>. QED  BY <4>1
      <3>. QED  BY <3>1, <3>2, <3>3
    <2>4. CASE step # call.n - 2
      <3>1. snapshot' = snapshot
        BY <1>3, <2>2, <2>4
      <3>2. codomain.on >= call.n - 1
        BY <1>2, <1>4, <2>1, <2>4
      <3>3. Active
        BY <1>3 DEF Active
      <3>. QED  BY <2>1, <3>1, <3>2, <3>3 DEF DeliveryInv, SnapshotInv
    <2>. QED  BY <2>3, <2>4
  <1>8. CheckedInv'
    <2>1. SUFFICES ASSUME Verify, last'.check = "unverified"
                   PROVE  last'.k = call.n /\ ~Staged(call)
      BY <1>1, SameCall DEF CheckedInv
    <2>2. last'.check = (IF VerifyStep THEN "verified" ELSE "unverified")
      BY CoreIsogeny
    <2>3. ~VerifyStep
      BY <2>1, <2>2
    <2>4. SkipLastCheck /\ step = Steps
      BY <2>1, <2>3 DEF VerifyStep
    <2>. QED  BY <1>2, <1>4, <2>4 DEF SkipLastCheck
  <1>9. ProgressInv'
    <2>1. FromStructure => progress' = codomain'.on
      BY <1>2, <1>3, <1>4
    <2>. QED  BY <1>1, <2>1, SameCall DEF ProgressInv
  <1>. QED  BY <1>5, <1>7, <1>8, <1>9 DEF DeliveryInv

\* The steps that end the call, and those that leave all of this alone.
LEMMA DeliveryEnd ==
  ASSUME CoreInv, DeliveryInv, StepsDone \/ Split
  PROVE  DeliveryInv'
  <1>1. UNCHANGED <<call, codomain, pts, last, snapshot>>
    BY DEF StepsDone, Split
  <1>2. Active
    BY DEF StepsDone, Split, Active
  <1>3. PushedInv' /\ CheckedInv'
    BY <1>1, SameCall DEF DeliveryInv, PushedInv, CheckedInv
  <1>4. SnapshotInv'
    BY <1>1, <1>2 DEF DeliveryInv, SnapshotInv
  <1>5. ProgressInv'
    <2>1. SUFFICES ASSUME FromStructure PROVE ProgressInv'
      BY <1>1, SameCall DEF ProgressInv
    <2>2. codomain.on = call.n \/ progress' = progress
      <3>1. CASE StepsDone
        BY <3>1, LoopEnds DEF StepsDone
      <3>2. CASE Split
        BY <3>2 DEF Split, CoreInv, EndInv
      <3>. QED  BY <3>1, <3>2
    <2>3. progress' \in {progress, call.n + 1, call.n + 2} /\ pc' \in {"split", "returned"}
      BY DEF StepsDone, Split, Return
    <2>4. progress' # progress => progress' \in {call.n + 1, call.n + 2}
      BY <2>3
    <2>5. \/ progress = codomain.on
          \/ codomain.on = call.n /\ progress \in {call.n + 1, call.n + 2}
      BY <2>1 DEF DeliveryInv, ProgressInv
    <2>. QED  BY <1>1, <2>2, <2>3, <2>4, <2>5 DEF ProgressInv
  <1>. QED  BY <1>3, <1>4, <1>5 DEF DeliveryInv

LEMMA DeliveryOther ==
  ASSUME DeliveryInv,
         \/ DepthLoop \/ DepthKnown \/ GluingDescend \/ Descend
         \/ GluingFails \/ IsogenyFails \/ SplitFails
         \/ GoBack \/ PullBack \/ UNCHANGED vars
  PROVE  DeliveryInv'
  <1>1. UNCHANGED <<call, codomain, pts, last, snapshot, progress>>
    BY DEF DepthLoop, DepthKnown, GluingDescend, Descend, GluingFails, IsogenyFails,
           SplitFails, GoBack, PullBack, vars
  <1>2. PushedInv' /\ CheckedInv'
    BY <1>1, SameCall DEF DeliveryInv, PushedInv, CheckedInv
  <1>3. Active' \/ result' = "some" => Active \/ result = "some"
    BY DEF DepthLoop, DepthKnown, GluingDescend, Descend, GluingFails, IsogenyFails,
           SplitFails, GoBack, PullBack, vars, Active, Return
  <1>4. SnapshotInv'
    BY <1>1, <1>3 DEF DeliveryInv, SnapshotInv
  <1>5. pc \in {"split", "returned"} => pc' \in {"split", "returned"}
    BY DEF DepthLoop, DepthKnown, GluingDescend, Descend, GluingFails, IsogenyFails,
           SplitFails, GoBack, PullBack, CanGoBack, vars, Return
  <1>6. ProgressInv'
    BY <1>1, <1>5, SameCall DEF DeliveryInv, ProgressInv
  <1>. QED  BY <1>2, <1>4, <1>6 DEF DeliveryInv

LEMMA DeliveryNext == CoreInv /\ DeliveryInv /\ [Next]_vars => DeliveryInv'
  <1>. QED  BY DeliveryCall, DeliveryGluing, DeliveryIsogeny, DeliveryEnd, DeliveryOther
            DEF Next, Run

LEMMA DeliveryCorrect == Spec => [](CoreInv /\ DeliveryInv)
  <1>1. CoreInv /\ DeliveryInv /\ [Next]_vars => (CoreInv /\ DeliveryInv)'
    BY CoreNext, DeliveryNext
  <1>. QED  BY <1>1, CoreInit, DeliveryInit, PTL DEF Spec

\* In Verify mode only the last kernel of a chain that splits goes unchecked.
THEOREM CheckedCorrect == Spec => []CheckedInv
  <1>1. DeliveryInv => CheckedInv
    BY DEF DeliveryInv
  <1>. QED  BY <1>1, DeliveryCorrect, PTL

\* from_structure reports the steps done when it gives up, and n + 1 or n + 2
\* only of a chain that reached its end.
THEOREM ProgressCorrect == Spec => []ProgressInv
  <1>1. DeliveryInv => ProgressInv
    BY DEF DeliveryInv
  <1>. QED  BY <1>1, DeliveryCorrect, PTL

\* The pushed points keep up with the chain, and both stages of a staged chain
\* are where the caller expects them.
THEOREM StagesCorrect == Spec => []StagesInv
  <1>1. ASSUME CoreInv, DeliveryInv PROVE StagesInv
    <2>1. result = "some" => codomain.on = call.n /\ codomain.coords = "dual"
      BY <1>1 DEF CoreInv, EndInv
    <2>2. ASSUME result = "some", Staged(call)
          PROVE  /\ snapshot.on = call.n - 1
                 /\ \A k \in DOMAIN pts : snapshot.pts[k].on = call.n - 1
      <3>1. pc # "idle"
        BY <1>1, <2>2 DEF CoreInv, ArgsInv
      <3>2. call.n \in Nat
        BY <1>1, <2>2, <3>1, ActiveFacts DEF CoreInv
      <3>3. codomain.on >= call.n - 1
        BY <2>1, <2>2, <3>2
      <3>. QED  BY <1>1, <2>2, <3>3 DEF DeliveryInv, SnapshotInv
    <2>. QED  BY <1>1, <2>1, <2>2 DEF StagesInv, DeliveryInv, PushedInv
  <1>. QED  BY <1>1, DeliveryCorrect, PTL

---------------------------------------------------------------------------
(* The way back, for a caller that hands in a fresh cache.                 *)

\* Surfaces 1, 2, ... are recorded as the chain reaches them, up to n - 2.
RecordInv ==
    (Active \/ result = "some") /\ call.api = "recorded" =>
        /\ Len(cache) = IF codomain.on <= call.n - 2 THEN codomain.on ELSE call.n - 2
        /\ \A i \in 1..Len(cache) : cache[i] = i

\* A return trip runs only after the call, and from a surface that exists.
TripInv ==
    /\ Active => back.on = 0
    /\ back.on = 0 => back.left = 0
    /\ BackInv

WayBackInv == CoreInv /\ DeliveryInv /\ (~ReuseCache => RecordInv /\ TripInv)

\* Recording one more surface keeps those recorded.
LEMMA Recording ==
  ASSUME NEW m \in Nat, cache \in Seq(Nat), Len(cache) = m,
         \A i \in 1..m : cache[i] = i,
         NEW longer, longer = Append(cache, m + 1)
  PROVE  Len(longer) = m + 1 /\ \A i \in 1..(m + 1) : longer[i] = i
  <1>1. Len(longer) = m + 1
    OBVIOUS
  <1>2. ASSUME NEW i \in 1..(m + 1) PROVE longer[i] = i
    <2>1. CASE i = m + 1
      BY <2>1
    <2>2. CASE i # m + 1
      <3>1. i \in 1..m
        BY <2>2
      <3>2. longer[i] = cache[i]
        BY <3>1
      <3>. QED  BY <3>1, <3>2
    <2>. QED  BY <2>1, <2>2
  <1>. QED  BY <1>1, <1>2

LEMMA CacheType == ASSUME CoreInv PROVE cache \in Seq(Nat) /\ back.left \in Nat /\ back.on \in Nat
  <1>1. ReturnType
    BY DEF CoreInv, TInv, TypeOK
  <1>. QED  BY <1>1 DEF ReturnType

\* In a recorded chain the gluing finds an empty cache, with room in it.
LEMMA RecordGluing ==
  ASSUME WayBackInv, ~ReuseCache, Gluing
  PROVE  ~(call.api = "recorded" /\ CacheFull) /\ RecordInv' /\ TripInv'
  <1>1. UNCHANGED <<call, back>> /\ pc = "gluing" /\ codomain'.on = 1 /\ codomain.on = 0
    BY CoreGluing DEF WayBackInv, Gluing
  <1>2. TripInv'
    BY <1>1 DEF WayBackInv, TripInv, Active, BackInv
  <1>3. CASE call.api # "recorded"
    BY <1>1, <1>2, <1>3 DEF RecordInv
  <1>4. CASE call.api = "recorded"
    <2>1. call.n \in Nat /\ call.n >= 3 /\ call.n - 2 <= MaxRecorded
      BY <1>1, <1>4, ActiveFacts DEF WayBackInv, CoreInv, Active
    <2>2. Len(cache) = 0 /\ cache \in Seq(Nat)
      BY <1>1, <1>4, <2>1, CacheType DEF WayBackInv, RecordInv, Active
    <2>3. ~CacheFull
      BY <2>1, <2>2, Bounds DEF CacheFull
    <2>4. cache' = Append(cache, 1)
      BY <1>4, <2>3 DEF Gluing
    <2>5. Len(cache') = 0 + 1 /\ \A i \in 1..(0 + 1) : cache'[i] = i
      BY <2>2, <2>4, Recording
    <2>6. Len(cache') = 1 /\ \A i \in 1..Len(cache') : cache'[i] = i
      BY <2>5
    <2>7. 1 <= call.n - 2
      BY <2>1
    <2>8. RecordInv'
      BY <1>1, <2>6, <2>7 DEF RecordInv
    <2>. QED  BY <1>2, <2>3, <2>8
  <1>. QED  BY <1>3, <1>4

\* Nor is the cache ever full when generic_steps records.
LEMMA RecordIsogeny ==
  ASSUME WayBackInv, ~ReuseCache, Isogeny
  PROVE  ~(Recorded /\ CacheFull) /\ RecordInv' /\ TripInv'
  <1>1. /\ UNCHANGED <<call, back>> /\ pc = "steps"
        /\ codomain'.on = codomain.on + 1 /\ codomain.on = Glued + step - 1
        /\ codomain.on < call.n
    BY CoreIsogeny DEF WayBackInv, Isogeny, InLoop
  <1>2. TripInv'
    BY <1>1 DEF WayBackInv, TripInv, Active, BackInv
  <1>3. CASE call.api # "recorded"
    BY <1>1, <1>2, <1>3 DEF RecordInv, Recorded
  <1>4. CASE call.api = "recorded"
    <2>1. /\ call.n \in Nat /\ call.n >= 3 /\ call.n - 2 <= MaxRecorded /\ Glued = 1
          /\ step \in Nat /\ codomain.on \in Nat /\ RecordUntil = call.n - 3
      BY <1>1, <1>4, ActiveFacts, StackFacts DEF WayBackInv, CoreInv, Active, RecordUntil
    <2>2. step = codomain.on
      BY <1>1, <2>1
    <2>3. /\ Len(cache) = IF codomain.on <= call.n - 2 THEN codomain.on ELSE call.n - 2
          /\ \A i \in 1..Len(cache) : cache[i] = i
          /\ cache \in Seq(Nat)
      BY <1>1, <1>4, CacheType DEF WayBackInv, RecordInv, Active
    <2>4. CASE codomain.on <= call.n - 3
      <3>1. Recorded /\ ~CacheFull
        BY <1>4, <2>1, <2>2, <2>3, <2>4, Bounds DEF Recorded, CacheFull
      <3>2. cache' = Append(cache, codomain.on + 1)
        BY <1>1, <3>1 DEF Isogeny
      <3>3. Len(cache) = codomain.on
        BY <2>1, <2>3, <2>4
      <3>4. Len(cache') = codomain.on + 1 /\ \A i \in 1..(codomain.on + 1) : cache'[i] = i
        BY <2>1, <2>3, <3>2, <3>3, Recording
      <3>5. codomain.on + 1 <= call.n - 2
        BY <2>1, <2>4
      <3>6. RecordInv'
        BY <1>1, <3>4, <3>5 DEF RecordInv
      <3>. QED  BY <1>2, <3>1, <3>6
    <2>5. CASE ~(codomain.on <= call.n - 3)
      <3>1. ~Recorded
        BY <2>1, <2>2, <2>5 DEF Recorded
      <3>2. cache' = cache
        BY <3>1 DEF Isogeny
      <3>3. Len(cache) = call.n - 2 /\ ~(codomain.on + 1 <= call.n - 2)
        BY <2>1, <2>3, <2>5
      <3>4. RecordInv'
        BY <1>1, <2>3, <3>2, <3>3 DEF RecordInv
      <3>. QED  BY <1>2, <3>1, <3>4
    <2>. QED  BY <2>4, <2>5
  <1>. QED  BY <1>3, <1>4

LEMMA RecordCall ==
  ASSUME WayBackInv, ~ReuseCache, NEW c \in Calls, Call(c)
  PROVE  RecordInv' /\ TripInv'
  <1>1. /\ call' = c /\ cache' = <<>> /\ back' = [on |-> 0, left |-> 0]
        /\ IF Refused(c) THEN pc' = "returned" /\ result' = "none"
                         ELSE pc' = "space" /\ result' = ""
    BY DEF Call
  <1>2. codomain'.on = 0 /\ back'.on = 0 /\ back'.left = 0
    <2>1. codomain' = [on |-> 0, coords |-> IF c.api = "structure" THEN c.coords ELSE "none"]
      BY DEF Call
    <2>2. codomain'.on = 0
      BY <2>1
    <2>. QED  BY <1>1, <2>2
  <1>3. TripInv'
    BY <1>2 DEF TripInv, BackInv
  <1>4. RecordInv'
    <2>1. SUFFICES ASSUME ~Refused(c), c.api = "recorded" PROVE RecordInv'
      BY <1>1 DEF RecordInv, Active
    <2>2. c.n \in Nat /\ c.n >= 3
      BY <2>1, CallFacts DEF Staged
    <2>3. Len(cache') = 0
      BY <1>1, EmptyTypes
    <2>4. \A i \in 1..Len(cache') : cache'[i] = i
      BY <2>3
    <2>5. call' = c
      BY <1>1
    <2>6. codomain'.on <= call'.n - 2
      BY <1>2, <2>2, <2>5
    <2>. QED  BY <1>2, <2>3, <2>4, <2>6 DEF RecordInv
  <1>. QED  BY <1>3, <1>4

\* From the penultimate surface down to the gluing's codomain.
LEMMA RecordBack ==
  ASSUME WayBackInv, ~ReuseCache, GoBack \/ PullBack
  PROVE  RecordInv' /\ TripInv'
  <1>1. /\ UNCHANGED <<call, pc, codomain, snapshot, cache, result>>
        /\ pc = "returned" /\ result = "some" /\ call.api = "recorded"
    BY DEF GoBack, PullBack, CanGoBack
  <1>2. /\ call.n \in Nat /\ call.n >= 3 /\ Staged(call)
        /\ codomain.on = call.n
    BY <1>1, ActiveFacts DEF WayBackInv, CoreInv, EndInv
  <1>3. RecordInv' /\ Len(cache) = call.n - 2 /\ \A i \in 1..Len(cache) : cache[i] = i
    <2>1. ~(call.n <= call.n - 2)
      BY <1>2
    <2>. QED  BY <1>1, <1>2, <2>1 DEF WayBackInv, RecordInv, Active
  <1>4. CASE GoBack
    <2>1. snapshot.on = call.n - 1
      <3>1. codomain.on >= call.n - 1
        BY <1>2
      <3>. QED  BY <1>1, <1>2, <3>1 DEF WayBackInv, DeliveryInv, SnapshotInv
    <2>2. back'.on = call.n - 1 /\ back'.left = call.n - 2
      BY <1>3, <1>4, <2>1 DEF GoBack
    <2>3. call.n - 2 \in 1..Len(cache)
      BY <1>2, <1>3
    <2>4. cache[call.n - 2] = call.n - 2
      BY <1>3, <2>3
    <2>5. TripInv'
      <3>1. call.n - 2 = (call.n - 1) - 1 /\ call.n - 1 # 0 /\ call.n - 2 > 0
        BY <1>2
      <3>2. cache'[back'.left] = back'.on - 1 /\ back'.on # 0 /\ back'.left > 0
        BY <1>1, <2>2, <2>4, <3>1
      <3>. QED  BY <1>1, <3>2 DEF TripInv, Active, BackInv
    <2>. QED  BY <1>3, <2>5
  <1>5. CASE PullBack
    <2>. DEFINE m == back.left
    <2>1. m \in 1..Len(cache)
      <3>1. m \in Nat /\ m > 0 /\ m <= Len(cache)
        BY <1>5, CacheType DEF PullBack, WayBackInv, CoreInv, TInv
      <3>. QED  BY <1>2, <1>3, <3>1
    <2>2. back'.on = m /\ back'.left = m - 1
      BY <1>3, <1>5, <2>1 DEF PullBack
    <2>3. m - 1 > 0 => cache[m - 1] = m - 1
      BY <1>2, <1>3, <2>1
    <2>. HIDE DEF m
    <2>4. ~(m - 1 > 0) => m = 1
      BY <1>2, <1>3, <2>1
    <2>5. m # 0
      BY <2>1
    <2>6. TripInv'
      BY <1>1, <2>2, <2>3, <2>4, <2>5 DEF TripInv, Active, BackInv
    <2>. QED  BY <1>3, <2>6
  <1>. QED  BY <1>4, <1>5

LEMMA RecordOther ==
  ASSUME WayBackInv, ~ReuseCache,
         \/ DepthLoop \/ DepthKnown \/ GluingDescend \/ Descend
         \/ GluingFails \/ IsogenyFails \/ StepsDone \/ SplitFails \/ Split
         \/ UNCHANGED vars
  PROVE  RecordInv' /\ TripInv'
  <1>1. UNCHANGED <<call, codomain, cache, back>>
    BY DEF DepthLoop, DepthKnown, GluingDescend, Descend, GluingFails, IsogenyFails,
           StepsDone, SplitFails, Split, vars
  <1>2. /\ Active' \/ result' = "some" => Active \/ result = "some"
        /\ Active' => Active
    BY DEF DepthLoop, DepthKnown, GluingDescend, Descend, GluingFails, IsogenyFails,
           StepsDone, SplitFails, Split, vars, Active, Return
  <1>3. RecordInv'
    BY <1>1, <1>2 DEF WayBackInv, RecordInv
  <1>4. TripInv'
    BY <1>1, <1>2 DEF WayBackInv, TripInv, BackInv
  <1>. QED  BY <1>3, <1>4

LEMMA WayBackInit == Init => WayBackInv
  <1>. SUFFICES ASSUME Init PROVE WayBackInv
    OBVIOUS
  <1>1. /\ pc = "idle" /\ result = "" /\ back = [on |-> 0, left |-> 0]
    BY DEF Init
  <1>2. RecordInv
    BY <1>1 DEF RecordInv, Active
  <1>3. TripInv
    <2>1. back.on = 0 /\ back.left = 0
      BY <1>1
    <2>. QED  BY <2>1 DEF TripInv, BackInv
  <1>. QED  BY <1>2, <1>3, CoreInit, DeliveryInit DEF WayBackInv

LEMMA WayBackNext == WayBackInv /\ [Next]_vars => WayBackInv'
  <1>. SUFFICES ASSUME WayBackInv, [Next]_vars PROVE WayBackInv'
    OBVIOUS
  <1>1. CoreInv' /\ DeliveryInv'
    BY CoreNext, DeliveryNext DEF WayBackInv
  <1>2. ASSUME ~ReuseCache PROVE RecordInv' /\ TripInv'
    BY <1>2, RecordCall, RecordGluing, RecordIsogeny, RecordBack, RecordOther
       DEF Next, Run
  <1>. QED  BY <1>1, <1>2 DEF WayBackInv

LEMMA WayBackCorrect == Spec => []WayBackInv
  <1>. QED  BY WayBackInit, WayBackNext, PTL DEF Spec

\* debug_assert_eq!(cache.len(), n - 2), for a fresh cache.
THEOREM CacheCorrect == ~ReuseCache => (Spec => []CacheInv)
  <1>. SUFFICES ASSUME ~ReuseCache PROVE Spec => []CacheInv
    OBVIOUS
  <1>1. ASSUME WayBackInv PROVE CacheInv
    <2>1. SUFFICES ASSUME call.api = "recorded", result = "some"
                   PROVE  Len(cache) = call.n - 2
      BY DEF CacheInv
    <2>2. call.n \in Nat /\ codomain.on = call.n
      BY <1>1, <2>1, ActiveFacts DEF WayBackInv, CoreInv, EndInv
    <2>3. ~(codomain.on <= call.n - 2)
      BY <2>2
    <2>. QED  BY <1>1, <2>1, <2>3 DEF WayBackInv, RecordInv
  <1>. QED  BY <1>1, WayBackCorrect, PTL

\* Every division of the return trip is by the null point of the surface the
\* point lands on, for a fresh cache.
THEOREM BackCorrect == ~ReuseCache => (Spec => []BackInv)
  <1>. SUFFICES ASSUME ~ReuseCache PROVE Spec => []BackInv
    OBVIOUS
  <1>1. WayBackInv => BackInv
    BY DEF WayBackInv, TripInv
  <1>. QED  BY <1>1, WayBackCorrect, PTL

---------------------------------------------------------------------------
(* The driver is an isogeny chain.                                         *)

LEMMA RefinesInit == Init => Abstract!Init
  <1>. SUFFICES ASSUME Init PROVE Abstract!Init
    OBVIOUS
  <1>1. call = NoCall /\ pc = "idle" /\ last = NoStep /\ codomain = [on |-> 0, coords |-> "none"]
    BY DEF Init
  <1>2. call.n = 0 /\ last.k = 0 /\ codomain.on = 0
    BY <1>1 DEF NoCall, NoStep
  <1>3. KernelUsed = <<0, 0>> /\ Status = "idle"
    BY <1>1, <1>2 DEF KernelUsed, Status
  <1>. QED  BY <1>2, <1>3 DEF Abstract!Init, Abstract!NoKernel

\* While the driver works the abstract chain is running, and else it is not.
LEMMA Statuses ==
  /\ Active => Status = "running"
  /\ pc = "returned" => Status = result
  /\ pc = "idle" => Status = "idle"
  /\ pc = "returned" /\ result \in {"", "some", "none"} => Status # "running"
  BY DEF Active, Status

\* The same after a step.
LEMMA NextStatuses ==
  /\ Active' => Status' = "running"
  /\ pc' = "returned" => Status' = result'
  BY DEF Active, Status

LEMMA SameKernel == ASSUME UNCHANGED last PROVE UNCHANGED KernelUsed
  BY DEF KernelUsed

LEMMA RefinesCall ==
  ASSUME WayBackInv, NEW c \in Calls, Call(c)
  PROVE  Abstract!Begin \/ Abstract!GiveUp
  <1>1. /\ pc \in {"idle", "returned"} /\ call' = c /\ last' = NoStep
        /\ IF Refused(c) THEN pc' = "returned" /\ result' = "none"
                         ELSE pc' = "space" /\ result' = ""
    BY DEF Call
  <1>2. Status # "running"
    <2>1. result \in {"", "some", "none"}
      BY DEF WayBackInv, CoreInv, TInv, TypeOK, ControlType
    <2>. QED  BY <1>1, <2>1, Statuses
  <1>3. codomain'.on = 0
    <2>1. codomain' = [on |-> 0, coords |-> IF c.api = "structure" THEN c.coords ELSE "none"]
      BY DEF Call
    <2>. QED  BY <2>1
  <1>4. KernelUsed' = <<0, 0>>
    <2>1. last'.k = 0
      BY <1>1 DEF NoStep
    <2>. QED  BY <2>1 DEF KernelUsed
  <1>5. call'.n \in Nat
    BY <1>1, CallFacts
  <1>6. CASE Refused(c)
    <2>1. Status' = "none"
      BY <1>1, <1>6, NextStatuses
    <2>. QED  BY <1>2, <1>3, <1>4, <1>5, <2>1 DEF Abstract!GiveUp, Abstract!NoKernel
  <1>7. CASE ~Refused(c)
    <2>1. Status' = "running"
      BY <1>1, <1>7, NextStatuses DEF Active
    <2>. QED  BY <1>2, <1>3, <1>4, <1>5, <2>1 DEF Abstract!Begin, Abstract!NoKernel
  <1>. QED  BY <1>6, <1>7

LEMMA RefinesIsogeny ==
  ASSUME WayBackInv, ~ReuseCache, Gluing \/ Isogeny
  PROVE  Abstract!Isogeny
  <1>1. /\ UNCHANGED call /\ pc \in {"gluing", "steps"}
        /\ pc' = "steps"
    <2>1. CASE Gluing
      BY <2>1, RecordGluing DEF Gluing
    <2>2. CASE Isogeny
      BY <2>2, RecordIsogeny DEF Isogeny, InLoop
    <2>. QED  BY <2>1, <2>2
  <1>2. Status = "running" /\ Status' = "running"
    BY <1>1, Statuses, NextStatuses DEF Active
  <1>3. call.n \in Nat /\ call.n >= 2 /\ codomain.on \in Nat
    BY <1>1, ActiveFacts, StackFacts DEF WayBackInv, CoreInv, Active
  <1>4. /\ codomain.on < call.n /\ codomain'.on = codomain.on + 1
        /\ last'.k = codomain.on + 1 /\ last'.on = codomain.on
        /\ last'.dbls = call.n - codomain.on - 1
    <2>1. CASE Gluing
      <3>1. /\ codomain.on = 0 /\ codomain'.on = 1
            /\ last'.k = 1 /\ last'.on = 0 /\ last'.dbls = call.n - 1
        BY <2>1, CoreGluing DEF WayBackInv
      <3>. QED  BY <1>3, <3>1
    <2>2. CASE Isogeny
      BY <2>2, CoreIsogeny DEF WayBackInv
    <2>. QED  BY <2>1, <2>2
  <1>5. KernelUsed' = <<codomain.on, call.n - codomain.on - 1>>
    <2>1. last'.k # 0
      BY <1>3, <1>4
    <2>. QED  BY <1>4, <2>1 DEF KernelUsed
  <1>. QED  BY <1>1, <1>2, <1>4, <1>5 DEF Abstract!Isogeny

\* Every other step of the driver is invisible, gives up or delivers.
LEMMA RefinesOther ==
  ASSUME WayBackInv,
         \/ DepthLoop \/ DepthKnown \/ GluingDescend \/ Descend
         \/ GluingFails \/ IsogenyFails \/ StepsDone \/ SplitFails \/ Split
  PROVE  UNCHANGED Abstract!vars \/ Abstract!GiveUp \/ Abstract!Deliver
  <1>1. UNCHANGED <<call, codomain, last>> /\ Active
    BY DEF DepthLoop, DepthKnown, GluingDescend, Descend, GluingFails, IsogenyFails,
           StepsDone, SplitFails, Split, Active, InLoop
  <1>2. \/ Active'
        \/ pc' = "returned" /\ result' = "none"
        \/ pc' = "returned" /\ result' = "some" /\ (StepsDone \/ Split)
    BY DEF DepthLoop, DepthKnown, GluingDescend, Descend, GluingFails, IsogenyFails,
           StepsDone, SplitFails, Split, Active, Return
  <1>3. Status = "running" /\ UNCHANGED <<call, codomain, KernelUsed>>
    BY <1>1, Statuses, SameKernel
  <1>4. CASE Active'
    BY <1>3, <1>4, NextStatuses DEF Abstract!vars
  <1>5. CASE pc' = "returned" /\ result' = "none"
    BY <1>3, <1>5, NextStatuses DEF Abstract!GiveUp
  <1>6. CASE pc' = "returned" /\ result' = "some" /\ (StepsDone \/ Split)
    <2>1. codomain.on = call.n
      <3>1. EndInv'
        BY <1>6, CoreEnd DEF WayBackInv, CoreInv
      <3>. QED  BY <1>1, <1>6, <3>1 DEF EndInv
    <2>. QED  BY <1>3, <1>6, <2>1, NextStatuses DEF Abstract!Deliver
  <1>. QED  BY <1>2, <1>4, <1>5, <1>6

LEMMA RefinesStutter ==
  ASSUME GoBack \/ PullBack \/ UNCHANGED vars
  PROVE  UNCHANGED Abstract!vars
  <1>1. UNCHANGED <<call, pc, codomain, last, result>>
    BY DEF GoBack, PullBack, vars
  <1>. QED  BY <1>1, SameKernel DEF Status, Abstract!vars

\* Whatever the strategy shares or recomputes, a call of the driver computes
\* an isogeny chain, one step after another and each from its own kernel.
THEOREM Refinement == ~ReuseCache => (Spec => ImplementsIsogenyChain)
  <1>. SUFFICES ASSUME ~ReuseCache PROVE Spec => ImplementsIsogenyChain
    OBVIOUS
  <1>1. Init => Abstract!Init
    BY RefinesInit
  <1>2. WayBackInv /\ [Next]_vars => [Abstract!Next]_(Abstract!vars)
    BY RefinesCall, RefinesIsogeny, RefinesOther, RefinesStutter DEF Next, Run, Abstract!Next
  <1>. QED
    BY <1>1, <1>2, WayBackCorrect, PTL DEF ImplementsIsogenyChain, Abstract!Spec, Spec
============================================================================
