----------------------------- MODULE MCAlgebra ----------------------------
(***************************************************************************)
(* The arithmetic below the protocols, one part of it at a time: scalar    *)
(* multiplications, discrete logarithms and the two-dimensional logarithm  *)
(* on the curve; residues, square roots and primality; ideals, the         *)
(* searches among them, the ideal of a kernel and the norm equation in the *)
(* quaternion algebra.  A behaviour chooses one part and leaves the others *)
(* idle.                                                                   *)
(***************************************************************************)
EXTENDS ScalarMul, DiscreteLog, TateLog, Modq, IdealSearch, E0Ideals, Qlapoty

\* Bases of E[2^4] with and without a point over (0, 0), a basis of the
\* 2-torsion, and pairs that are no basis: a point of lower order, two equal
\* points.
MCBases == {<<<<1, 0>>, <<0, 1>>>>, <<<<1, 0>>, <<1, 1>>>>, <<<<1, 0>>, <<15, 8>>>>,
            <<<<8, 0>>, <<8, 8>>>>, <<<<0, 4>>, <<1, 0>>>>, <<<<3, 5>>, <<3, 5>>>>}
MCScalars == 0..(2 ^ F - 1)
MCWidths == {1, F - 1, F}
MCTateBases == {<<<<1, 0>>, <<0, 1>>>>, <<<<1, 0>>, <<1, 1>>>>}

\* Limbs of 5 bits in words of 8.  Moduli of one to three limbs with bounds
\* that are tight and loose, up to a limb more than needed; residues next to
\* 0, p and 2p; primes 1 and 3 mod 4, some with many twos in p - 1; numbers
\* up to 300 and, beyond, strong pseudoprimes to the base 2 (2047, 3277,
\* 4033), strong Lucas pseudoprimes (5459, 5777), a square and primes.
MCSliding == <<4, 6>>
MCJacobiBases == <<2, 3, 5, 7, 11, 13, 17>>
MCSplit   == <<3, 5>>
MCBatches == <<<<7, 11>>, <<13>>>>
MCModuli  == {<<p, BitLength(p) + 1 + k>> :
                 p \in {3, 5, 9, 15, 31, 33, 97, 127, 255, 257, 513, 1023, 2047, 3329, 4093}, k \in {0, 4}}
MCPrimes  == {<<p, BitLength(p) + 1>> : p \in {5, 7, 13, 17, 19, 29, 31, 41, 97, 103, 193, 257}}
MCAsked ==
    UNION {[op : {"sums"}, p : {m}, a : {0, 1, m[1] \div 2, m[1] - 1, m[1], 2 * m[1] - 1},
            b : {0, m[1] \div 2, 2 * m[1] - 1}] : m \in MCModuli}
    \cup UNION {[op : {"power"}, p : {m}, a : {1, 2, m[1] - 1}, b : {0, 1, m[1] \div 2}] : m \in MCModuli}
    \cup UNION {[op : {"root"}, p : {m}, a : {a \in 0..7 \cup {m[1] - 1} : a < m[1]}] : m \in MCPrimes}
    \cup [op : {"minus one"}, p : {m \in MCPrimes : m[1] % 4 = 1}]
    \cup [op : {"verified"}, p : {m \in MCModuli : m[1] % 4 = 1}]
    \cup [op : {"prime"}, p : {<<n, BitLength(n) + 1>> :
             n \in 0..300 \cup {2047, 3277, 4033, 5459, 5777, 3721, 4091, 8191}}, reps : {20}, draws : {{}}]
    \cup [op : {"prime"}, p : {<<n, 14>> : n \in {103, 257, 2047, 4091}}, reps : {25, 26}, draws : {{2, 3, 50, 99}}]

\* Char = 31.  Split parts of norm 1, 2, 5 and 13; the order's own elements 1
\* and 1 + i as shifts; challenge ideals with the factor 1 - i taken out.
MCSplits == {OneElem, GaussElem(<<1, -1>>), GaussElem(<<2, 1>>), GaussElem(<<3, 2>>)}
MCShifts == {OneElem, Elem(1, 1, 1, 0, 0)}
MCChallenges == [ideal : IdealsOf(2), split : {GaussElem(<<1, -1>>)}]
MCPairs == {<<3, 5>>}
\* i, j and the generators of O0 on a basis of E0[2^4]: matrices modulo 16
\* with i^2 = -1, j^2 = -31 and i j = - j i.
MCActions == [i |-> <<<<1, 11>>, <<10, 15>>>>, j |-> <<<<5, 3>>, <<8, 11>>>>,
              gen2 |-> <<<<1, 11>>, <<10, 15>>>>, gen3 |-> <<<<11, 7>>, <<9, 5>>>>,
              gen4 |-> <<<<15, 14>>, <<5, 2>>>>]

\* LargeChar = 3 * 2^18 - 1 and TwoExp = 16: the proportions of the smallest
\* parameter set.  All these ideals are the smallest of their classes, for
\* their norms are below sqrt(LargeChar) / 2.  Those of five norms have too
\* small a norm or a fixed k; the fixed k, 4 + 3i, of MCStuck has a factor in
\* common with n; the others take the branches of a drawn k, of a norm
\* widened by 5 and by 25, of a big interval with a fixed k and of the turns
\* of common Gaussian factors.
MCStuck == {<<74, 17, 185>>, <<76, 12, 190>>, <<114, 107, 285>>}
MCSmalls ==
    MCStuck
    \cup {s \in (0..38) \X (0..76) \X {5, 25, 31, 50, 77} : 2 * s[1] <= s[3] /\ s[2] < s[3] /\ IsSmall(s)}
    \cup {<<116, 32, 290>>, <<20, 31, 250>>, <<42, 221, 253>>, <<31, 15, 359>>, <<31, 42, 145>>,
           <<105, 8, 305>>, <<105, 113, 305>>}

ScalarMulIdle ==
    /\ curve = [e0 |-> FALSE, cached |-> FALSE] /\ call = NoCall
    /\ pc = "none" /\ st = <<>> /\ out = None
TateIdle == query = <<>> /\ diffs = <<>> /\ stage = "idle" /\ answer = Garbage

curveIdle == ScalarMulIdle /\ LogIdle /\ TateIdle /\ ModqIdle
quatIdle == IdealsIdle /\ SearchIdle /\ KernelIdle /\ QlapotyIdle
curveVars == <<svars, lvars, tvars, mvars>>
quatVars == <<qvars, wvars, kvars, qlvars>>
vars == <<curveVars, quatVars>>

MCInit ==
    \/ Init /\ LogIdle /\ TateIdle /\ ModqIdle /\ quatIdle
    \/ ScalarMulIdle /\ LogInit /\ TateIdle /\ ModqIdle /\ quatIdle
    \/ ScalarMulIdle /\ LogIdle /\ TateInit /\ ModqIdle /\ quatIdle
    \/ ScalarMulIdle /\ LogIdle /\ TateIdle /\ ModqInit /\ quatIdle
    \/ curveIdle /\ IdealsInit /\ SearchIdle /\ KernelIdle /\ QlapotyIdle
    \/ curveIdle /\ IdealsIdle /\ SearchInit /\ KernelIdle /\ QlapotyIdle
    \/ curveIdle /\ IdealsIdle /\ SearchIdle /\ KernelInit /\ QlapotyIdle
    \/ curveIdle /\ IdealsIdle /\ SearchIdle /\ KernelIdle /\ QlapotyInit

MCNext ==
    \/ Next /\ UNCHANGED <<lvars, tvars, mvars, quatVars>>
    \/ Solve /\ UNCHANGED <<svars, tvars, mvars, quatVars>>
    \/ TateNext /\ UNCHANGED <<svars, lvars, mvars, quatVars>>
    \/ ModqNext /\ UNCHANGED <<svars, lvars, tvars, quatVars>>
    \/ IdealsNext /\ UNCHANGED <<curveVars, wvars, kvars, qlvars>>
    \/ SearchNext /\ UNCHANGED <<curveVars, qvars, kvars, qlvars>>
    \/ KernelNext /\ UNCHANGED <<curveVars, qvars, wvars, qlvars>>
    \/ QlapotyNext /\ UNCHANGED <<curveVars, qvars, wvars, kvars>>

MCSpec ==
    /\ MCInit /\ [][MCNext]_vars
    /\ WF_vars(pc # "idle" /\ Next /\ UNCHANGED <<lvars, tvars, mvars, quatVars>>)

\* The norm equation alone, with the fairness that a loop that can go on does.
StuckSpec ==
    /\ curveIdle /\ IdealsIdle /\ SearchIdle /\ KernelIdle /\ QlapotyInit
    /\ [][QlapotyNext /\ UNCHANGED <<curveVars, qvars, wvars, kvars>>]_vars
    /\ WF_vars(QlapotyNext /\ UNCHANGED <<curveVars, qvars, wvars, kvars>>)
============================================================================
