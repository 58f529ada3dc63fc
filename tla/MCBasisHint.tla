---------------------------- MODULE MCBasisHint ----------------------------
(* Instances of BasisHint: every curve with at most two candidates, in    *)
(* each search, that give a point.                                        *)
EXTENDS BasisHint, FiniteSets

Few == {s \in SUBSET (0..Last) : Cardinality(s) <= 2}

\* The two searches of a curve never meet (a hint names one of them), so one
\* set serves for both.
MCCurves ==
    {[zero |-> FALSE, square |-> q, multiples |-> s, factors |-> s, agrees |-> a]
       : q \in BOOLEAN, s \in Few, a \in BOOLEAN}
    \cup {[zero |-> TRUE, square |-> TRUE, multiples |-> {}, factors |-> {}, agrees |-> a]
            : a \in BOOLEAN}
============================================================================
