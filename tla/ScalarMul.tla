----------------------------- MODULE ScalarMul ----------------------------
(***************************************************************************)
(* The scalar multiplications of crates/verify/src/ec/point.rs, one action *)
(* for a turn of each loop: the Montgomery ladder ec_mul, the three-point  *)
(* ladder ec_ladder3pt, the constant-time ec_biscalar_mul (recoding of the *)
(* scalars, then the ladder on three points) and the variable-time         *)
(* ec_biscalar_mul_verif with the call of ec_mul it ends in.               *)
(*                                                                         *)
(* `st' holds the local variables of the running routine under their names *)
(* in the code.  Scalars are numbers below 2^(LimbBits n), n limbs.        *)
(***************************************************************************)
EXTENDS KummerLine, Sequences

CONSTANTS
    LimbBits,    \* width of a limb, 64 in the code
    Bases,       \* pairs <<P, Q>> of points of E[2^F]
    Scalars,     \* values of a scalar
    Widths,      \* values of kbits
    Long         \* ec_mul caches A24 for scalars longer than this, 50

\* With F = 2, or limbs of 2 bits, a doubling of the reduction of two scalars
\* meets a zero coordinate that longer ones never do.
ASSUME ScalarAssumption ==
    /\ F >= 3
    /\ LimbBits \in Nat /\ LimbBits >= 3 /\ Long \in Nat
    /\ Bases \subseteq Vectors \X Vectors
    /\ Scalars \subseteq Nat /\ Widths \subseteq 1..F

\* Of the powers of two that occur, for no prover here knows their law.
ASSUME PowerAssumption ==
    2 ^ 0 = 1 /\ \A k \in 0..(F + LimbBits) : 2 ^ k \in Nat /\ 2 ^ (k + 1) = 2 * 2 ^ k

VARIABLES
    call,   \* routine, basis, scalars, kbits
    curve,  \* the curve, whose A24 the routines may cache
    pc,     \* the loop that runs
    st,     \* local variables
    out     \* the result: a point, or None

svars == <<call, curve, pc, st, out>>

\* No result: a set no point is.
None   == {<<0, Order>>}
NoCall == [alg |-> "none", p |-> <<0, 0>>, q |-> <<0, 0>>, k |-> 0, l |-> 0, kbits |-> 1]

Bit(x, i) == (x \div 2 ^ i) % 2
Mask(x)   == x % 2 ^ call.kbits
Swapped(c, u) == IF c = 1 THEN <<u[2], u[1]>> ELSE u

\* Limbs are 2^LimbBits, and a scalar of kbits bits has as few as hold it.
Capacity == 2 ^ (LimbBits * ((call.kbits + LimbBits - 1) \div LimbBits))

P   == Point(call.p)
Q   == Point(call.q)
PmQ == Point(Minus(call.p, call.q))

Init ==
    /\ call = NoCall
    /\ curve \in Curves
    /\ pc = "idle" /\ st = <<>> /\ out = None

Return(r) == pc' = "done" /\ out' = r

Call(alg, b, k, l, w) ==
    /\ pc = "idle"
    /\ call' = [alg |-> alg, p |-> b[1], q |-> b[2], k |-> k, l |-> l, kbits |-> w]
    /\ pc' = "called"
    /\ UNCHANGED <<curve, st, out>>

---------------------------------------------------------------------------
(* ec_mul.                                                                 *)

\* The first lines: A24 from the cache or from (A : C), never the stale one.
Ladder(p, k, bits) ==
    /\ curve' = IF bits > Long THEN NormalizeA24(curve) ELSE curve
    /\ st' = [r0 |-> Identity, r1 |-> p, p |-> p, k |-> k, prevbit |-> 0, i |-> bits]
    /\ pc' = "ladder"

LadderEnter ==
    /\ pc = "called" /\ call.alg = "ladder"
    /\ Ladder(P, call.k, call.kbits)
    /\ UNCHANGED <<call, out>>

\* Mutated form of Turned: the swap is decided by the bit and not by its
\* change.
SwapOnBit(bit) == Swapped(bit, <<st.r0, st.r1>>)

Turned(bit) == Swapped((bit + st.prevbit) % 2, <<st.r0, st.r1>>)

LadderTurn ==
    /\ pc = "ladder" /\ st.i > 0
    /\ LET bit == Bit(st.k, st.i - 1)
           r   == Turned(bit)
       IN  st' = [st EXCEPT !.r0 = XDbl(r[1]), !.r1 = XAdd(r[1], r[2], st.p),
                            !.prevbit = bit, !.i = @ - 1]
    /\ UNCHANGED <<call, curve, pc, out>>

LadderEnd ==
    /\ pc = "ladder" /\ st.i = 0
    /\ LET r == Swapped(st.prevbit, <<st.r0, st.r1>>)[1]
       IN  Return(IF call.alg = "verif" /\ HasZeroCoordinate(r) THEN None ELSE r)
    /\ UNCHANGED <<call, curve, st>>

---------------------------------------------------------------------------
(* ec_ladder3pt: the scalar is all the bits of its limbs.                  *)

Ladder3ptEnter ==
    /\ pc = "called" /\ call.alg = "ladder3pt"
    /\ IF ~curve.cached \/ HasZeroCoordinate(PmQ)
       THEN Return(None) /\ st' = st
       ELSE /\ st' = [x0 |-> Q, x1 |-> P, x2 |-> PmQ, i |-> 0]
            /\ pc' = "ladder3pt"
            /\ out' = out
    /\ UNCHANGED <<call, curve>>

\* xdbladd between two swaps of x1 and x2 that a zero bit asks for.
Ladder3ptTurn ==
    /\ pc = "ladder3pt" /\ 2 ^ st.i < Capacity
    /\ st' = IF Bit(call.k, st.i) = 1
             THEN [st EXCEPT !.x0 = XDbl(st.x0), !.x1 = XAdd(st.x0, st.x1, st.x2), !.i = @ + 1]
             ELSE [st EXCEPT !.x0 = XDbl(st.x0), !.x2 = XAdd(st.x0, st.x2, st.x1), !.i = @ + 1]
    /\ UNCHANGED <<call, curve, pc, out>>

Ladder3ptEnd ==
    /\ pc = "ladder3pt" /\ 2 ^ st.i = Capacity
    /\ Return(st.x1)
    /\ UNCHANGED <<call, curve, st>>

---------------------------------------------------------------------------
(* ec_biscalar_mul and xdblmul.                                            *)

\* kbits = 1: a table of the four combinations, for 2-torsion only.
TwoTorsionTable ==
    IF ~(IsTwoTorsion(P) /\ IsTwoTorsion(Q) /\ IsTwoTorsion(PmQ)) THEN None
    ELSE IF call.k % 2 = 1 THEN IF call.l % 2 = 1 THEN PmQ ELSE P
                           ELSE IF call.l % 2 = 1 THEN Q ELSE Identity

Odd(x) == IF x % 2 = 1 THEN x ELSE (x - 1) % 2 ^ call.kbits

BiscalarEnter ==
    /\ pc = "called" /\ call.alg = "biscalar"
    /\ LET k     == Mask(call.k)
           l     == Mask(call.l)
           evens == 2 - ((k % 2) + (l % 2))
       IN  IF IsZero(PmQ) THEN Return(None) /\ UNCHANGED <<curve, st>>
           ELSE IF call.kbits = 1 THEN Return(TwoTorsionTable) /\ UNCHANGED <<curve, st>>
           ELSE IF HasZeroCoordinate(P) \/ HasZeroCoordinate(Q) \/ HasZeroCoordinate(PmQ)
           THEN Return(None) /\ UNCHANGED <<curve, st>>
           ELSE /\ st' = [k |-> Odd(k), l |-> Odd(l), evens |-> evens,
                          both |-> k % 2 = 1 /\ l % 2 = 1,
                          sigma |-> IF evens = 1 THEN <<1 - (k % 2), 1 - (l % 2)>> ELSE <<0, 1>>,
                          pre |-> 0, r |-> <<>>]
                /\ pc' = "recode"
                /\ UNCHANGED <<curve, out>>
    /\ UNCHANGED call

\* One digit of each scalar: the change between neighbouring bits.  The
\* scalars change places when sigma does.
Recode ==
    /\ pc = "recode" /\ Len(st.r) < call.kbits
    /\ LET s     == Swapped((st.sigma[1] + st.pre) % 2, <<st.k, st.l>>)
           last  == Len(st.r) = call.kbits - 1
           kept  == [j \in 1..2 |-> IF last THEN s[j] ELSE s[j] \div 2]
           digit == [j \in 1..2 |-> IF last THEN kept[j] % 2 ELSE (kept[j] + s[j]) % 2]
       IN  st' = [st EXCEPT !.k = kept[1], !.l = kept[2], !.r = Append(@, digit),
                            !.pre = st.sigma[1], !.sigma = Swapped(digit[2], @)]
    /\ UNCHANGED <<call, curve, pc, out>>

RecodeEnd ==
    /\ pc = "recode" /\ Len(st.r) = call.kbits
    /\ LET r1  == Swapped(st.sigma[1], <<P, Q>>)
           sum == XAdd(r1[1], r1[2], PmQ)
       IN  IF HasZeroCoordinate(sum) THEN Return(None) /\ st' = st
           ELSE /\ st' = [r0 |-> Identity, r1 |-> r1[1], r2 |-> sum,
                          diff1 |-> r1, diff2 |-> <<sum, PmQ>>,
                          r |-> st.r, evens |-> st.evens, both |-> st.both, i |-> call.kbits]
                /\ pc' = "biladder" /\ out' = out
    /\ UNCHANGED <<call, curve>>

\* The two differences of (r0, r2): which comes next.
Differences2(d) == Swapped((d[1] + d[2]) % 2, st.diff2)

BiladderTurn ==
    /\ pc = "biladder" /\ st.i > 0
    /\ LET d     == st.r[st.i]
           regs  == <<st.r0, st.r1, st.r2>>
           diff1 == Swapped(d[2], st.diff1)
       IN  st' = [st EXCEPT !.r0 = XDbl(regs[1 + d[1] + d[2]]),
                            !.r1 = XAdd(regs[1 + d[2]], regs[2 + d[2]], diff1[1]),
                            !.r2 = XAdd(st.r0, st.r2, st.diff2[1]),
                            !.diff1 = diff1, !.diff2 = Differences2(d), !.i = @ - 1]
    /\ UNCHANGED <<call, curve, pc, out>>

BiladderEnd ==
    /\ pc = "biladder" /\ st.i = 0
    /\ Return(IF st.both THEN st.r2 ELSE IF st.evens % 2 = 1 THEN st.r1 ELSE st.r0)
    /\ UNCHANGED <<call, curve, st>>

---------------------------------------------------------------------------
(* ec_biscalar_mul_verif.                                                  *)

\* A24 is made from A, unless A = 0.
Prepared == IF curve.e0 THEN curve ELSE NormalizeA24(curve)

VerifEnter ==
    /\ pc = "called" /\ call.alg = "verif"
    /\ LET s0 == Mask(call.k)
           s1 == Mask(call.l)
       IN  IF \/ HasZeroCoordinate(P) \/ HasZeroCoordinate(Q) \/ HasZeroCoordinate(PmQ)
              \/ s0 = 0 /\ s1 = 0
           THEN Return(None) /\ UNCHANGED <<curve, st>>
           ELSE /\ curve' = Prepared
                /\ st' = [s0 |-> s0, s1 |-> s1, x0 |-> P, x1 |-> Q, xdiff |-> PmQ]
                /\ pc' = "euclid"
                /\ out' = out
    /\ UNCHANGED call

\* The smaller scalar first.
Ordered == IF st.s1 < st.s0 THEN [st EXCEPT !.s0 = st.s1, !.s1 = st.s0, !.x0 = st.x1, !.x1 = st.x0]
                            ELSE st

Less(u)       == (u.s1 - u.s0) % Capacity
Subtracted(u) == [u EXCEPT !.s1 = Less(u), !.x0 = XAdd(u.x1, u.x0, u.xdiff), !.xdiff = u.x0]
Halved(u)     == [u EXCEPT !.s1 = Less(u) \div 2, !.x0 = XAdd(u.x1, u.x0, u.xdiff),
                           !.x1 = XDblA24(u.x1, curve)]
Halved1(u)    == [u EXCEPT !.s1 = u.s1 \div 2, !.xdiff = XAdd(u.x1, u.xdiff, u.x0),
                           !.x1 = XDblA24(u.x1, curve)]
Halved0(u)    == [u EXCEPT !.s0 = u.s0 \div 2, !.xdiff = XAdd(u.x0, u.xdiff, u.x1),
                           !.x0 = XDblA24(u.x0, curve)]

Reduced(u) ==
    IF u.s1 < (4 * u.s0) % Capacity THEN Subtracted(u)
    ELSE IF u.s1 % 2 = u.s0 % 2 THEN Halved(u)
    ELSE IF u.s1 % 2 = 0 THEN Halved1(u)
    ELSE Halved0(u)

Euclid ==
    /\ pc = "euclid" /\ st.s0 # 0
    /\ LET v == Reduced(Ordered)
       IN  IF \E p \in {v.x0, v.x1, v.xdiff} : HasZeroCoordinate(p) THEN Return(None) /\ st' = st
           ELSE st' = v /\ UNCHANGED <<pc, out>>
    /\ UNCHANGED <<call, curve>>

\* Mutated form of Stripped: the shift is forgotten.
Unstripped(s) == s

Stripped(s) == s \div 2

Strip ==
    /\ pc = "euclid" /\ st.s0 = 0 /\ st.s1 % 2 = 0
    /\ st' = [st EXCEPT !.s1 = Stripped(@), !.x1 = XDblA24(@, curve)]
    /\ UNCHANGED <<call, curve, pc, out>>

VerifEnd ==
    /\ pc = "euclid" /\ st.s0 = 0 /\ st.s1 % 2 = 1
    /\ IF st.s1 # 1
       THEN Ladder(st.x1, st.s1, call.kbits) /\ out' = out
       ELSE /\ Return(IF HasZeroCoordinate(st.x1) THEN None ELSE st.x1)
            /\ UNCHANGED <<curve, st>>
    /\ UNCHANGED call

---------------------------------------------------------------------------
Next ==
    \/ pc = "idle" /\ \E b \in Bases, k \in Scalars, w \in Widths :
          \/ \E alg \in {"ladder", "ladder3pt"} : Call(alg, b, k, 0, w)
          \/ \E alg \in {"biscalar", "verif"}, l \in Scalars : Call(alg, b, k, l, w)
    \/ LadderEnter \/ LadderTurn \/ LadderEnd
    \/ Ladder3ptEnter \/ Ladder3ptTurn \/ Ladder3ptEnd
    \/ BiscalarEnter \/ Recode \/ RecodeEnd \/ BiladderTurn \/ BiladderEnd
    \/ VerifEnter \/ Euclid \/ Strip \/ VerifEnd

\* A call that was made runs on; nobody has to make one.
Spec == Init /\ [][Next]_svars /\ WF_svars(pc # "idle" /\ Next)

---------------------------------------------------------------------------
(* Properties.                                                             *)

\* No point the routines refuse at once.
Usable == ~(HasZeroCoordinate(P) \/ HasZeroCoordinate(Q) \/ HasZeroCoordinate(PmQ))

\* P and Q generate E[2^F].
FullBasis == (call.p[1] * call.q[2] - call.p[2] * call.q[1]) % 2 = 1

\* [k] P + [l] Q for a k and l that are right modulo 2^kbits.
Combination(k, l) == Point(Plus(Times(k, call.p), Times(l, call.q)))

Expected ==
    CASE call.alg = "ladder"    -> {Combination(Mask(call.k), 0)}
      [] call.alg = "ladder3pt" -> {Combination(1, call.k % Capacity)}
      [] call.alg = "biscalar"  -> {Combination(Mask(call.k) + a, Mask(call.l) + b) :
                                        a \in {0, 2 ^ call.kbits}, b \in {0, 2 ^ call.kbits}}
      [] call.alg = "verif"     -> {Combination(Mask(call.k), Mask(call.l))}

\* One of the scalars is odd, both are below half the order of the points.
ShortColumn == /\ call.k % 2 = 1 \/ call.l % 2 = 1
               /\ 2 * Mask(call.k) < Order /\ 2 * Mask(call.l) < Order

\* The calls each routine may answer with None: points with a zero coordinate;
\* of the constant-time routine, one bit of points that are not of order two;
\* of the variable-time one, a column of a matrix that is not short or a curve
\* without a cached A24 and with A = 0.
Refused ==
    CASE call.alg = "ladder3pt" -> ~curve.cached \/ HasZeroCoordinate(PmQ)
      [] call.alg = "biscalar"  -> \/ ~Usable
                                   \/ HasZeroCoordinate(Point(Plus(call.p, call.q)))
                                   \/ call.kbits = 1 /\ \E p \in {P, Q, PmQ} : ~IsTwoTorsion(p)
      [] call.alg = "verif"     -> \/ ~Usable
                                   \/ curve.e0 /\ ~curve.cached
                                   \/ ~FullBasis \/ ~ShortColumn
      [] OTHER                  -> FALSE

\* Whatever the points and the scalars, a point that is returned is the one
\* asked for: no addition of the loops is given a difference that is not its
\* two points', however the registers and the pairs of differences changed
\* places.  Only points that are no basis can make it (0 : 0).
PointRight ==
    pc = "done" /\ (call.alg = "ladder" => ~HasZeroCoordinate(P)) =>
        out \in Expected \cup {None} \cup IF FullBasis THEN {} ELSE {Undefined}

\* None is only returned for the degenerate calls named above: every other
\* call of the verifier succeeds, so that no valid signature is refused here.
RefusalRight == pc = "done" /\ out = None => Refused

\* A call of one of the routines gives the point asked for, and refuses what
\* it may refuse.
ResultRight == PointRight /\ RefusalRight

\* Every call returns, the reduction of two scalars included: the smaller is
\* 0 in the end whichever of the four steps is taken.
Terminates == pc = "called" ~> pc = "done"
============================================================================
