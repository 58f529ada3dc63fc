----------------------------- MODULE BasisHint -----------------------------
(***************************************************************************)
(* The deterministic torsion bases of crates/verify/src/ec/basis.rs and    *)
(* the one-byte hints that let a reader rebuild them: the writer           *)
(* ec_curve_to_basis_2f_to_hint, the reader                                *)
(* ec_curve_to_basis_2f_from_hint, and the two bounded searches            *)
(* find_na_x_coord and find_nqr_factor they share.                         *)
(*                                                                         *)
(* A curve is what the searches can see of it: whether A is zero or a      *)
(* square, which multiples of A and which factors 1 + ib give a point.     *)
(* A basis is the candidate its first point comes from, with a flag that   *)
(* says whether its multiple in the smaller torsion is the basis a reader  *)
(* of the smaller torsion builds (each picks P - Q or P + Q by a square    *)
(* root of its own).                                                       *)
(***************************************************************************)
EXTENDS Integers

CONSTANTS
    Curves,           \* the curves that may be asked about
    Half,             \* 128: hints of 7 bits
    QrCandidates,     \* BASIS_SEARCH_QR_CANDIDATES
    NqrCandidates,    \* BASIS_SEARCH_NQR_CANDIDATES
    QrWord,           \* 2^8: the counter of find_na_x_coord
    NqrWord,          \* 2^16: the counter of find_nqr_factor
    Last              \* no candidate above it gives a point (a bound)

CurveType == [zero : BOOLEAN, square : BOOLEAN, multiples : SUBSET (0..Last),
              factors : SUBSET (0..Last), agrees : BOOLEAN]

ASSUME CurvesAssumption == Curves \subseteq CurveType
ASSUME WidthAssumption ==
    /\ Half \in Nat /\ Half >= 2
    /\ QrWord = 2 * Half
    /\ QrCandidates \in Nat /\ 1 <= QrCandidates /\ QrCandidates <= QrWord
    /\ NqrCandidates \in Nat /\ 1 <= NqrCandidates
    /\ NqrWord \in Nat /\ Half + NqrCandidates < NqrWord
    /\ Last \in Nat

VARIABLES
    curve,     \* the curve asked about
    who,       \* "writer" or "reader": whose search it is
    search,    \* "multiples" (A not a square) or "factors"
    adjust,    \* e > 0: the writer's basis must agree with a smaller torsion
    n,         \* the machine counter
    cand,      \* the candidate it stands for, as an integer
    tried,     \* candidates that failed
    pc,
    written,   \* what the writer returned
    read       \* what the reader returned, and for which hint

vars == <<curve, who, search, adjust, n, cand, tried, pc, written, read>>

None == [some |-> FALSE, cand |-> 0, hint |-> 0, below |-> FALSE]

\* Whether a candidate is the x-coordinate of a point, on the curve asked.
Passes(b) == b \in (IF search = "multiples" THEN curve.multiples ELSE curve.factors)

\* Mutated form of Limit: one candidate more.
OneMore == 1 + IF search = "multiples" THEN QrCandidates ELSE NqrCandidates

Limit == IF search = "multiples" THEN QrCandidates ELSE NqrCandidates
Word  == IF search = "multiples" THEN QrWord ELSE NqrWord

\* A hint of 0 says that the index does not fit in 7 bits.  The factor search
\* has moved its counter on: n + 1 <= 128 and the hint is n.
SmallHint == IF search = "multiples" THEN IF n < Half THEN n ELSE 0
             ELSE IF (n + 1) % Word <= Half THEN n ELSE 0

Tag == IF search = "multiples" THEN 0 ELSE 1

Init ==
    /\ curve \in Curves
    /\ who = "writer" /\ search = "multiples" /\ adjust = FALSE
    /\ n = 1 /\ cand = 1 /\ tried = 0
    /\ pc = "idle" /\ written = None /\ read = None

\* ec_curve_to_basis_2f_to_hint(curve, f, e).  E0 has a precomputed basis.
Write(e) ==
    /\ pc # "search"
    /\ who' = "writer" /\ adjust' = e
    /\ search' = IF curve.square THEN "factors" ELSE "multiples"
    /\ n' = 1 /\ cand' = 1 /\ tried' = 0
    /\ read' = None
    /\ IF curve.zero
       THEN /\ pc' = "returned"
            /\ written' = [some |-> TRUE, cand |-> 0, hint |-> 0, below |-> curve.agrees]
       ELSE pc' = "search" /\ written' = None
    /\ UNCHANGED curve

\* ec_curve_to_basis_2f_from_hint(curve, f, hint), any byte a wire may carry.
\* An index is used as it stands; 0 repeats the search from 128.
Read(h) ==
    /\ pc = "returned" /\ who = "writer"
    /\ who' = "reader"
    /\ search' = IF h % 2 = 1 THEN "factors" ELSE "multiples"
    /\ n' = Half /\ cand' = Half /\ tried' = 0
    /\ IF ~curve.zero /\ h \div 2 = 0
       THEN pc' = "search" /\ read' = [None EXCEPT !.hint = h]
       ELSE /\ read' = [some |-> TRUE, cand |-> IF curve.zero THEN 0 ELSE h \div 2,
                        hint |-> h, below |-> TRUE]
            /\ UNCHANGED pc
    /\ UNCHANGED <<curve, adjust, written>>

\* Mutated forms of Counted, GivesUp and Ahead: the attempt is not counted, the
\* last attempt is not made, the counter is moved by both loops.
NotCounted == tried
OneEarly   == tried + 2 >= Limit
Twice      == 2

Counted == tried + 1
GivesUp == Counted >= Limit
Ahead   == 1

\* The candidate fails: the next one, or None after the last one allowed.
TryNext ==
    /\ pc = "search" /\ ~Passes(cand)
    /\ n' = (n + Ahead) % Word
    /\ cand' = IF cand > Last THEN cand ELSE cand + Ahead
    /\ tried' = Counted
    /\ pc' = IF GivesUp THEN "returned" ELSE pc
    /\ UNCHANGED <<curve, who, search, adjust, written, read>>

\* Of the two candidates for the third point, the one whose multiple the
\* smaller torsion's own recomputation picks; without e, always the second.
ThirdPoint == curve.agrees \/ adjust

Found ==
    /\ pc = "search" /\ Passes(cand)
    /\ pc' = "returned"
    /\ IF who = "writer"
       THEN /\ written' = [some |-> TRUE, cand |-> cand,
                           hint |-> 2 * SmallHint + Tag, below |-> ThirdPoint]
            /\ UNCHANGED read
       ELSE /\ read' = [read EXCEPT !.some = TRUE, !.cand = cand, !.below = TRUE]
            /\ UNCHANGED written
    /\ UNCHANGED <<curve, who, search, adjust, n, cand, tried>>

Next == \/ \E e \in BOOLEAN : Write(e)
        \/ \E h \in 0..(2 * Half - 1) : Read(h)
        \/ TryNext
        \/ Found

Spec == Init /\ [][Next]_vars

\* A search runs on: it is sequential code that waits for nothing.
FairSpec == Spec /\ WF_vars(TryNext \/ Found)

---------------------------------------------------------------------------
(* Properties.                                                             *)

Basis == [some : BOOLEAN, cand : Nat, hint : 0..(2 * Half - 1), below : BOOLEAN]

\* Types, with the assertion that a hint fits in 7 bits (and in a byte with
\* its tag).
TypeOK ==
    /\ curve \in CurveType
    /\ who \in {"writer", "reader"} /\ search \in {"multiples", "factors"}
    /\ adjust \in BOOLEAN
    /\ n \in 0..(Word - 1) /\ cand \in Nat /\ tried \in Nat
    /\ pc \in {"idle", "search", "returned"}
    /\ written \in Basis /\ read \in Basis

ReaderDone == pc = "returned" /\ who = "reader"

\* "Always succeeds for a hint produced by ec_curve_to_basis_2f_to_hint on the
\* same curve", with the writer's basis, although the counters wrap and a hint
\* keeps 7 bits of them; adjusted, it is a basis of the smaller torsion as well
\* (E0 has no search and no adjustment: AdjustedAlways).
RoundTrip ==
    ReaderDone /\ written.some /\ read.hint = written.hint =>
        /\ read.some /\ read.cand = written.cand
        /\ adjust /\ ~curve.zero => written.below

\* A search gives up only when the first QrCandidates or NqrCandidates
\* candidates from its start all fail, and a reader only when its hint asks for
\* a search.
FailsClosed ==
    pc = "returned" /\ ~(IF who = "writer" THEN written ELSE read).some =>
        /\ who = "reader" => read.hint \div 2 = 0
        /\ LET first == IF who = "writer" THEN 1 ELSE Half
           IN  \A b \in first..(first + Limit - 1) : ~Passes(b)

\* The writer takes the least candidate that gives a point: the basis depends
\* on the curve alone.
LeastFound ==
    pc = "returned" /\ who = "writer" /\ written.some /\ ~curve.zero =>
        Passes(written.cand) /\ \A b \in 1..(written.cand - 1) : ~Passes(b)

\* Every search ends, on a curve without any candidate too.
Termination == pc = "search" ~> pc = "returned"

\* "When e > 0 (and e < f), the returned basis is adjusted so that its
\* [2^(f-e)] multiple is exactly what ec_curve_to_basis_2f_from_hint(curve, e,
\* hint) returns": whatever the curve.
AdjustedAlways == written.some /\ adjust => written.below
============================================================================
