-------------------------- MODULE BasisHintProofs --------------------------
(***************************************************************************)
(* For every curve and every width: a written hint leads its reader to the *)
(* writer's basis, a search gives up only after all its candidates, and    *)
(* the writer takes the least one that passes.                             *)
(*                                                                         *)
(* The invariant follows the integer the machine counter stands for: every *)
(* candidate before it has failed, and a counter that has wrapped is 0,    *)
(* the hint that asks the reader to search.                                *)
(***************************************************************************)
EXTENDS BasisHint, TLAPS

\* Good(s): the candidates that pass in search s, of the curve asked about.
Good(s)    == IF s = "multiples" THEN curve.multiples ELSE curve.factors
LimitOf(s) == IF s = "multiples" THEN QrCandidates ELSE NqrCandidates
TagOf(s)   == IF s = "multiples" THEN 0 ELSE 1
SearchOf   == IF curve.square THEN "factors" ELSE "multiples"
First      == IF who = "writer" THEN 1 ELSE Half

\* The search under way: candidates first..cand - 1 have failed.  Past Last
\* `cand' stands still, and every candidate fails.
SearchInv ==
    pc = "search" =>
        /\ tried < Limit /\ ~curve.zero
        /\ cand <= First + tried
        /\ cand = First + tried \/ cand > Last
        /\ \A b \in First..(First + tried - 1) : ~Passes(b)

\* The writer's counter holds the candidate, or 0 when it has wrapped.
CounterInv ==
    pc = "search" /\ who = "writer" =>
        /\ search = SearchOf
        /\ n = IF 1 + tried < Word THEN 1 + tried ELSE 0

\* What a writer that has returned a basis off E0 leaves for the reader.
WrittenInv ==
    written.some /\ ~curve.zero =>
        /\ written.cand \in Good(SearchOf) /\ written.cand \in 1..LimitOf(SearchOf)
        /\ \A b \in 1..(written.cand - 1) : b \notin Good(SearchOf)
        /\ written.hint = 2 * (IF written.cand < Half THEN written.cand ELSE 0) + TagOf(SearchOf)
        /\ adjust => written.below

\* A writer that has returned none; whose record it is while a search runs.
RefusedInv ==
    /\ pc = "search" /\ who = "writer" => ~written.some /\ ~read.some
    /\ pc = "search" /\ who = "reader" => ~read.some
    /\ pc = "returned" /\ who = "writer" =>
          /\ search = SearchOf
          /\ ~written.some => \A b \in 1..LimitOf(search) : ~Passes(b)
    /\ curve.zero /\ written.some => written.cand = 0 /\ written.hint = 0

\* The reader's search, and what it has returned.
ReaderInv ==
    who = "reader" /\ pc # "idle" =>
        /\ pc \in {"search", "returned"}
        /\ search = IF read.hint % 2 = 1 THEN "factors" ELSE "multiples"
        /\ pc = "search" => ~curve.zero /\ read.hint \div 2 = 0
        /\ pc = "returned" =>
              /\ curve.zero => read.some /\ read.cand = 0
              /\ ~curve.zero /\ read.hint \div 2 # 0 => read.some /\ read.cand = read.hint \div 2
              /\ ~curve.zero /\ read.hint \div 2 = 0 /\ read.some =>
                    /\ read.cand \in Good(search) /\ read.cand >= Half
                    /\ \A b \in Half..(read.cand - 1) : b \notin Good(search)
              /\ ~read.some => /\ read.hint \div 2 = 0
                               /\ \A b \in Half..(Half + Limit - 1) : ~Passes(b)

IdleInv == pc = "idle" => who = "writer" /\ written = None /\ read = None

HintInv == /\ TypeOK /\ SearchInv /\ CounterInv /\ WrittenInv
           /\ RefusedInv /\ ReaderInv /\ IdleInv

---------------------------------------------------------------------------
(* Lemmas.                                                                 *)

\* A counter of any width, one further.
LEMMA CountOn ==
    ASSUME NEW W \in Nat, W >= 1, NEW a \in 0..(W - 1)
    PROVE  (a + 1) % W = IF a + 1 = W THEN 0 ELSE a + 1
<1>1. CASE a + 1 = W
    <2>1. (a + 1) % W = W % W
        BY <1>1
    <2>2. W % W = 0
        BY SMT
    <2> QED
        BY <2>1, <2>2, <1>1
<1>2. CASE a + 1 # W
    <2>1. a + 1 \in 0..(W - 1)
        BY <1>2
    <2>2. (a + 1) % W = a + 1
        BY <2>1, SMT
    <2> QED
        BY <2>2, <1>2
<1> QED
    BY <1>1, <1>2

\* The constants' arithmetic in one place.
LEMMA Widths ==
    /\ Half \in Nat /\ Half >= 2 /\ QrWord = 2 * Half /\ QrWord \in Nat
    /\ QrCandidates \in Nat /\ 1 <= QrCandidates /\ QrCandidates <= QrWord
    /\ NqrCandidates \in Nat /\ 1 <= NqrCandidates
    /\ NqrWord \in Nat /\ Half + NqrCandidates < NqrWord
    /\ Last \in Nat
    /\ Limit \in Nat /\ Limit >= 1 /\ Word \in Nat /\ Word >= 1 /\ Half < Word
    /\ search = "multiples" => Limit = QrCandidates /\ Word = QrWord
    /\ search # "multiples" => Limit = NqrCandidates /\ Word = NqrWord
BY WidthAssumption DEF Limit, Word

\* A record of the right type, field by field.
LEMMA BasisType ==
    ASSUME NEW r, r \in Basis
    PROVE  /\ r.some \in BOOLEAN /\ r.cand \in Nat /\ r.below \in BOOLEAN
           /\ r.hint \in 0..(2 * Half - 1) /\ r.hint \in Nat
BY Widths DEF Basis

\* The record an operation returns.
LEMMA BasisMade ==
    ASSUME NEW a \in BOOLEAN, NEW c \in Nat, NEW h \in 0..(2 * Half - 1), NEW b \in BOOLEAN
    PROVE  [some |-> a, cand |-> c, hint |-> h, below |-> b] \in Basis
BY DEF Basis

LEMMA NoBasis == None \in Basis
<1>1. 0 \in 0..(2 * Half - 1)
    BY Widths
<1> QED
    BY <1>1 DEF None, Basis

\* The initial state.
LEMMA HintInit == Init => HintInv
<1> SUFFICES ASSUME Init PROVE HintInv
    OBVIOUS
<1>1. TypeOK
    <2>1. n \in 0..(Word - 1)
        BY Widths DEF Init
    <2> QED
        BY <2>1, NoBasis, CurvesAssumption DEF Init, TypeOK
<1>2. SearchInv /\ CounterInv /\ WrittenInv /\ RefusedInv /\ ReaderInv /\ IdleInv
    BY DEF Init, SearchInv, CounterInv, WrittenInv, RefusedInv, ReaderInv, IdleInv, None
<1> QED
    BY <1>1, <1>2 DEF HintInv

\* A write starts, or answers for E0 at once.
LEMMA HintWrite == ASSUME HintInv, NEW e \in BOOLEAN, Write(e) PROVE HintInv'
<1> USE DEF HintInv
<1>1. TypeOK'
    <2>1. n' \in 0..(Word' - 1)
        BY WidthAssumption DEF Write, Word
    <2>2. written' \in Basis /\ read' \in Basis
        <3>1. 0 \in 0..(2 * Half - 1)
            BY Widths
        <3>2. curve.agrees \in BOOLEAN
            BY DEF TypeOK, CurveType
        <3>3. read' \in Basis
            BY NoBasis DEF Write
        <3>4. CASE curve.zero
            <4>1. written' = [some |-> TRUE, cand |-> 0, hint |-> 0, below |-> curve.agrees]
                BY <3>4 DEF Write
            <4> QED
                BY <4>1, <3>1, <3>2, <3>3, BasisMade
        <3>5. CASE ~curve.zero
            BY <3>3, <3>5, NoBasis DEF Write
        <3> QED
            BY <3>4, <3>5
    <2> QED
        BY <2>1, <2>2 DEF TypeOK, Write
<1>2. SearchInv'
    <2>1. Limit' \in Nat /\ Limit' >= 1
        BY WidthAssumption DEF Limit
    <2> QED
        BY <2>1 DEF SearchInv, Write, First
<1>3. CounterInv'
    <2>1. Word' > 1
        BY WidthAssumption DEF Word
    <2> QED
        BY <2>1 DEF CounterInv, Write, SearchOf
<1>4. WrittenInv'
    BY DEF WrittenInv, Write, None
<1>5. RefusedInv'
    BY DEF RefusedInv, Write, None, SearchOf
<1>6. ReaderInv' /\ IdleInv'
    BY DEF ReaderInv, IdleInv, Write
<1> QED
    BY <1>1, <1>2, <1>3, <1>4, <1>5, <1>6

\* A read takes its index from the hint, or starts a search at 128.
LEMMA HintRead == ASSUME HintInv, NEW h \in 0..(2 * Half - 1), Read(h) PROVE HintInv'
<1> USE DEF HintInv
<1>0. h \in Nat /\ h \div 2 \in Nat
    BY Widths
<1>1. TypeOK'
    <2>1. n' \in 0..(Word' - 1)
        BY WidthAssumption DEF Read, Word
    <2>2. read' \in Basis
        <3>1. CASE ~curve.zero /\ h \div 2 = 0
            <4>1. read' = [some |-> FALSE, cand |-> 0, hint |-> h, below |-> FALSE]
                BY <3>1 DEF Read, None
            <4> QED
                BY <4>1, BasisMade
        <3>2. CASE ~(~curve.zero /\ h \div 2 = 0)
            <4>1. read' = [some |-> TRUE, cand |-> IF curve.zero THEN 0 ELSE h \div 2,
                           hint |-> h, below |-> TRUE]
                BY <3>2 DEF Read
            <4>2. (IF curve.zero THEN 0 ELSE h \div 2) \in Nat
                BY <1>0
            <4> QED
                BY <4>1, <4>2, BasisMade
        <3> QED
            BY <3>1, <3>2
    <2> QED
        BY <2>1, <2>2, Widths DEF TypeOK, Read
<1>2. SearchInv'
    <2>1. Limit' \in Nat /\ Limit' >= 1
        BY WidthAssumption DEF Limit
    <2> QED
        BY <2>1, Widths DEF SearchInv, Read, First, None
<1>3. CounterInv' /\ WrittenInv' /\ IdleInv'
    BY DEF CounterInv, WrittenInv, IdleInv, Read, Good, SearchOf, LimitOf, TagOf
<1>4. RefusedInv'
    BY DEF RefusedInv, Read, None
<1>5. ReaderInv'
    BY <1>0 DEF ReaderInv, Read, None
<1> QED
    BY <1>1, <1>2, <1>3, <1>4, <1>5

\* One more candidate has failed.
LEMMA HintTry == ASSUME HintInv, TryNext PROVE HintInv'
<1> USE DEF HintInv
<1>0. /\ Limit' = Limit /\ Word' = Word /\ First' = First /\ SearchOf' = SearchOf
      /\ \A b : Passes(b)' = Passes(b)
    BY DEF TryNext, Limit, Word, First, SearchOf, Passes
<1>a. /\ tried \in Nat /\ cand \in Nat /\ n \in 0..(Word - 1) /\ First \in Nat
      /\ tried' = tried + 1 /\ n' = (n + 1) % Word
      /\ pc' = IF tried + 1 >= Limit THEN "returned" ELSE pc
      /\ cand' = IF cand > Last THEN cand ELSE cand + 1
    BY Widths DEF TypeOK, TryNext, Counted, Ahead, GivesUp, First
<1>b. \A b \in First..(First + tried) : ~Passes(b)
    <2> SUFFICES ASSUME NEW b \in First..(First + tried) PROVE ~Passes(b)
        OBVIOUS
    <2>1. CASE b <= First + tried - 1
        BY <2>1, <1>a DEF SearchInv, TryNext
    <2>2. CASE b = First + tried /\ cand = First + tried
        BY <2>2 DEF TryNext
    <2>3. CASE b = First + tried /\ cand # First + tried
        <3>1. b > Last
            BY <2>3, <1>a, Widths DEF SearchInv, TryNext
        <3> QED
            BY <3>1, <1>a, Widths DEF Passes, TypeOK, CurveType
    <2> QED
        BY <2>1, <2>2, <2>3, <1>a
<1>1. TypeOK'
    <2>1. n' \in 0..(Word' - 1)
        BY <1>0, <1>a, Widths, CountOn
    <2> QED
        BY <2>1, <1>a DEF TypeOK, TryNext
<1>2. SearchInv'
    BY <1>0, <1>a, <1>b, Widths DEF SearchInv, TryNext
<1>3. CounterInv'
    <2> SUFFICES ASSUME pc' = "search", who = "writer"
                 PROVE  search' = SearchOf' /\ n' = IF 1 + tried' < Word' THEN 1 + tried' ELSE 0
        BY DEF CounterInv, TryNext
    <2>1. tried + 1 < Limit /\ Limit <= Word
        BY <1>a, Widths DEF TryNext
    <2>2. n = 1 + tried /\ 1 + tried < Word
        BY <2>1, <1>a, Widths DEF CounterInv, TryNext
    <2> QED
        BY <2>1, <2>2, <1>0, <1>a, Widths, CountOn DEF CounterInv, TryNext
<1>4. WrittenInv' /\ IdleInv'
    BY DEF WrittenInv, IdleInv, TryNext, Good, SearchOf, LimitOf, TagOf
<1>c. pc' = "returned" => First + tried = First + Limit - 1
    BY <1>a, Widths DEF SearchInv, TryNext
<1>5. RefusedInv'
    <2>1. LimitOf(search) = Limit
        BY DEF LimitOf, Limit
    <2>2. who = "writer" /\ pc' = "returned" => \A b \in 1..LimitOf(search) : ~Passes(b)'
        BY <2>1, <1>0, <1>a, <1>b, <1>c, Widths DEF First
    <2> QED
        BY <2>2, <1>0 DEF RefusedInv, TryNext, CounterInv, LimitOf
<1>6. ReaderInv'
    <2>1. who = "reader" /\ pc' = "returned" =>
              \A b \in Half..(Half + Limit' - 1) : ~Passes(b)'
        BY <1>0, <1>a, <1>b, <1>c, Widths DEF First
    <2> QED
        BY <2>1, <1>a DEF ReaderInv, RefusedInv, TryNext, Good
<1> QED
    BY <1>1, <1>2, <1>3, <1>4, <1>5, <1>6

\* A candidate passes.
LEMMA HintFound == ASSUME HintInv, Found PROVE HintInv'
<1> USE DEF HintInv
<1>0. /\ Limit' = Limit /\ Word' = Word /\ First' = First /\ SearchOf' = SearchOf
      /\ \A b : Passes(b)' = Passes(b) /\ (Passes(b) <=> b \in Good(search))
    BY DEF Found, Limit, Word, First, SearchOf, Passes, Good
<1>a. tried \in Nat /\ cand \in Nat /\ First \in Nat /\ n \in 0..(Word - 1)
    BY Widths DEF TypeOK, First
<1>b. cand = First + tried /\ tried < Limit
    <2>1. cand <= Last
        BY <1>a, Widths DEF Found, Passes, TypeOK, CurveType
    <2> QED
        BY <2>1, <1>a, Widths DEF SearchInv, Found
<1>c. \A b \in First..(cand - 1) : b \notin Good(search)
    BY <1>0, <1>a, <1>b DEF SearchInv, Found
<1>d. who = "writer" => SmallHint = IF cand < Half THEN cand ELSE 0
    <2> SUFFICES ASSUME who = "writer" PROVE SmallHint = IF cand < Half THEN cand ELSE 0
        OBVIOUS
    <2>0. cand = 1 + tried /\ n = IF cand < Word THEN cand ELSE 0
        BY <1>b, <1>a DEF First, CounterInv, Found
    <2>1. CASE search = "multiples"
        BY <2>0, <2>1, <1>a, Widths DEF SmallHint
    <2>2. CASE search # "multiples"
        <3>1. n = cand /\ n + 1 < Word
            BY <2>0, <2>2, <1>a, <1>b, Widths
        <3>2. (n + 1) % Word = n + 1
            BY <3>1, <1>a, Widths, CountOn
        <3> QED
            BY <2>2, <3>1, <3>2, <1>a, Widths DEF SmallHint
    <2> QED
        BY <2>1, <2>2
<1>e. Tag = TagOf(search) /\ Tag \in 0..1
    BY DEF Tag, TagOf
<1>1. TypeOK'
    <2>1. who = "writer" => 2 * SmallHint + Tag \in 0..(2 * Half - 1)
        BY <1>d, <1>e, <1>a, Widths
    <2>2. ThirdPoint \in BOOLEAN
        BY DEF ThirdPoint, TypeOK, CurveType
    <2>3. written' \in Basis /\ read' \in Basis
        <3>1. CASE who = "writer"
            <4>1. /\ written' = [some |-> TRUE, cand |-> cand, hint |-> 2 * SmallHint + Tag,
                                  below |-> ThirdPoint]
                  /\ read' = read
                BY <3>1 DEF Found
            <4> QED
                BY <4>1, <3>1, <2>1, <2>2, <1>a, BasisMade DEF TypeOK
        <3>2. CASE who # "writer"
            BY <3>2, <1>a DEF Found, TypeOK, Basis
        <3> QED
            BY <3>1, <3>2
    <2> QED
        BY <2>3, <1>0 DEF TypeOK, Found
<1>2. SearchInv' /\ CounterInv' /\ IdleInv'
    BY DEF SearchInv, CounterInv, IdleInv, Found
<1>3. WrittenInv'
    <2>1. CASE who = "reader"
        BY <2>1 DEF WrittenInv, Found, Good, SearchOf, LimitOf, TagOf
    <2>2. CASE who = "writer"
        <3>1. search = SearchOf
            BY <2>2 DEF CounterInv, Found
        <3>2. cand \in Good(SearchOf) /\ cand \in 1..LimitOf(SearchOf)
            BY <3>1, <2>2, <1>0, <1>a, <1>b, Widths DEF Found, LimitOf, Limit, First
        <3>3. \A b \in 1..(cand - 1) : b \notin Good(SearchOf)
            BY <3>1, <2>2, <1>c DEF First
        <3>4. /\ written' = [some |-> TRUE, cand |-> cand, hint |-> 2 * SmallHint + Tag,
                             below |-> ThirdPoint]
              /\ adjust => ThirdPoint
            BY <2>2 DEF Found, ThirdPoint
        <3>5. UNCHANGED <<curve, adjust>>
            BY DEF Found
        <3> QED
            BY <3>1, <3>2, <3>3, <3>4, <3>5, <2>2, <1>d, <1>e
               DEF WrittenInv, Good, SearchOf, LimitOf, TagOf
    <2> QED
        BY <2>1, <2>2 DEF TypeOK
<1>4. RefusedInv'
    BY DEF RefusedInv, Found, SearchInv, CounterInv, SearchOf, LimitOf, Passes
<1>5. ReaderInv'
    <2> SUFFICES ASSUME who = "reader" PROVE ReaderInv'
        BY DEF ReaderInv, Found
    <2>1. read' = [read EXCEPT !.some = TRUE, !.cand = cand, !.below = TRUE]
        BY DEF Found
    <2>2. read'.some /\ read'.cand = cand /\ read'.hint = read.hint
        BY <2>1 DEF TypeOK, Basis
    <2>3. cand \in Good(search) /\ cand >= Half
        BY <1>0, <1>a, <1>b, Widths DEF Found, First
    <2>4. \A b \in Half..(cand - 1) : b \notin Good(search)
        BY <1>c DEF First
    <2>5. ~curve.zero /\ UNCHANGED <<curve, search>> /\ pc' = "returned"
        BY DEF SearchInv, Found
    <2> QED
        BY <2>2, <2>3, <2>4, <2>5 DEF ReaderInv, Found, Good
<1> QED
    BY <1>1, <1>2, <1>3, <1>4, <1>5

\* Every step, and the steps of other machines.
LEMMA HintNext == HintInv /\ [Next]_vars => HintInv'
<1> SUFFICES ASSUME HintInv, [Next]_vars PROVE HintInv'
    OBVIOUS
<1>1. CASE Next
    BY <1>1, HintWrite, HintRead, HintTry, HintFound DEF Next
<1>2. CASE UNCHANGED vars
    <2> USE <1>2 DEF HintInv, vars
    <2>1. TypeOK'
        BY DEF TypeOK, Word
    <2>2. SearchInv' /\ CounterInv'
        BY DEF SearchInv, CounterInv, First, SearchOf, Limit, Word, Passes
    <2>3. WrittenInv' /\ IdleInv'
        BY DEF WrittenInv, IdleInv, Good, SearchOf, LimitOf, TagOf
    <2>4. RefusedInv'
        BY DEF RefusedInv, SearchOf, LimitOf, Passes
    <2>5. ReaderInv'
        BY DEF ReaderInv, Good, Limit, Passes
    <2> QED
        BY <2>1, <2>2, <2>3, <2>4, <2>5
<1> QED
    BY <1>1, <1>2

LEMMA HintCorrect == Spec => []HintInv
<1> QED
    BY HintInit, HintNext, PTL DEF Spec

---------------------------------------------------------------------------
(* The theorems.                                                           *)

\* Types: a hint always fits in a byte, a counter in its word.
THEOREM HintTypes == Spec => []TypeOK
<1>1. HintInv => TypeOK
    BY DEF HintInv
<1> QED
    BY <1>1, HintCorrect, PTL

\* A written hint leads its reader to the writer's basis, for every curve.
THEOREM RoundTripCorrect == Spec => []RoundTrip
<1>1. HintInv => RoundTrip
    <2> SUFFICES ASSUME HintInv, ReaderDone, written.some, read.hint = written.hint
                 PROVE  /\ read.some /\ read.cand = written.cand
                        /\ adjust /\ ~curve.zero => written.below
        BY DEF RoundTrip
    <2> USE DEF HintInv
    <2>1. CASE curve.zero
        BY <2>1 DEF ReaderDone, ReaderInv, RefusedInv
    <2>2. CASE ~curve.zero
        <3> DEFINE w == written.cand
                   k == IF w < Half THEN w ELSE 0
        <3>1. /\ w \in Nat /\ k \in Nat /\ w \in Good(SearchOf)
              /\ w \in 1..LimitOf(SearchOf) /\ written.hint = 2 * k + TagOf(SearchOf)
              /\ \A b \in 1..(w - 1) : b \notin Good(SearchOf)
            BY <2>2, BasisType DEF WrittenInv, TypeOK
        <3>2. TagOf(SearchOf) \in 0..1 /\ (TagOf(SearchOf) = 1 <=> SearchOf = "factors")
              /\ SearchOf \in {"multiples", "factors"}
            BY DEF TagOf, SearchOf
        <3>3. read.hint \div 2 = k /\ read.hint % 2 = TagOf(SearchOf)
            <4> HIDE DEF k
            <4> QED
                BY <3>1, <3>2
        <3>4. search = SearchOf
            BY <3>2, <3>3 DEF ReaderDone, ReaderInv
        <3>5. CASE k # 0
            BY <3>1, <3>3, <3>5, <2>2 DEF ReaderDone, ReaderInv, WrittenInv
        <3>6. CASE k = 0
            <4>1. w >= Half
                BY <3>1, <3>6, Widths
            <4>2. read.some
                <5> SUFFICES ASSUME ~read.some PROVE FALSE
                    BY DEF TypeOK, Basis
                <5>1. w \in Half..(Half + Limit - 1)
                    BY <4>1, <3>1, <3>4, Widths DEF LimitOf, Limit
                <5> QED
                    BY <5>1, <3>1, <3>4 DEF ReaderDone, ReaderInv, Passes, Good
            <4>3. /\ read.cand \in Nat /\ read.cand \in Good(search) /\ read.cand >= Half
                  /\ \A b \in Half..(read.cand - 1) : b \notin Good(search)
                BY <4>2, <3>3, <3>6, <2>2, BasisType DEF ReaderDone, ReaderInv, TypeOK
            <4>4. read.cand = w
                BY <4>1, <4>3, <3>1, <3>4, Widths
            <4> QED
                BY <4>2, <4>4, <2>2 DEF WrittenInv
        <3> QED
            BY <3>5, <3>6
    <2> QED
        BY <2>1, <2>2
<1> QED
    BY <1>1, HintCorrect, PTL

\* A search gives up only when all its candidates fail.
THEOREM FailsClosedCorrect == Spec => []FailsClosed
<1>1. HintInv => FailsClosed
    <2> SUFFICES ASSUME HintInv, pc = "returned",
                        ~(IF who = "writer" THEN written ELSE read).some
                 PROVE  /\ who = "reader" => read.hint \div 2 = 0
                        /\ LET first == IF who = "writer" THEN 1 ELSE Half
                           IN  \A b \in first..(first + Limit - 1) : ~Passes(b)
        BY DEF FailsClosed
    <2> USE DEF HintInv
    <2>1. CASE who = "writer"
        <3>1. \A b \in 1..Limit : ~Passes(b)
            BY <2>1 DEF RefusedInv, LimitOf, Limit
        <3> QED
            BY <2>1, <3>1, Widths
    <2>2. CASE who = "reader"
        BY <2>2 DEF ReaderInv
    <2> QED
        BY <2>1, <2>2 DEF TypeOK
<1> QED
    BY <1>1, HintCorrect, PTL

\* The writer's basis is the first one its curve admits.
THEOREM LeastFoundCorrect == Spec => []LeastFound
<1>1. HintInv => LeastFound
    BY DEF HintInv, LeastFound, WrittenInv, RefusedInv, Good, Passes
<1> QED
    BY <1>1, HintCorrect, PTL
============================================================================
