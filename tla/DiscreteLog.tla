---------------------------- MODULE DiscreteLog ---------------------------
(***************************************************************************)
(* The two-adic discrete logarithms of crates/verify/src/ec/pairing.rs:    *)
(* fp2_dlog_2e, which updates a stack of powers of f and 1/g in place, and *)
(* fp2_dlog_2e_fixed, which divides with the table of DlogTable::new.      *)
(*                                                                         *)
(* The 2^e-th roots of unity are written additively, as Z/2^e, with 0 of   *)
(* the field beside them: every value is 0 once a batched inversion was    *)
(* given a 0.                                                              *)
(***************************************************************************)
EXTENDS Integers, SequencesExt

CONSTANTS
    Exponents,   \* values of e
    LeafBits,    \* bits a leaf of the table's search resolves, 4 in the code
    MaxBits      \* MAX_DLOG_BITS

ASSUME LogAssumption ==
    /\ Exponents \subseteq Nat \ {0}
    /\ LeafBits \in Nat \ {0} /\ MaxBits \in Nat /\ LeafBits <= MaxBits

\* Of the powers that occur, for no prover here knows their law.
ASSUME LogPowers ==
    2 ^ 0 = 1 /\ \A e \in Exponents : \A k \in 0..(e - 1) : 2 ^ k \in Nat /\ 2 ^ (k + 1) = 2 * 2 ^ k

VARIABLES
    input,   \* e, f and g
    log,     \* answer of fp2_dlog_2e
    fixed    \* answer of DlogTable::new and fp2_dlog_2e_fixed

lvars == <<input, log, fixed>>

Zero == -1
Roots(e) == 0..(2 ^ e - 1)
Elements(e) == Roots(e) \cup {Zero}
One == 0

Mul(e, x, y) == IF Zero \in {x, y} THEN Zero ELSE (x + y) % 2 ^ e
Pow(e, x, n) == IF n = 0 THEN One ELSE IF x = Zero THEN Zero ELSE (x * n) % 2 ^ e
Inv(e, x)    == IF x = Zero THEN Zero ELSE (-x) % 2 ^ e

Pending == [ok |-> FALSE, a |-> 0]

---------------------------------------------------------------------------
(* fp2_dlog_2e.                                                            *)

\* Mutated form of Lowered: the powers of f lose the bit, those of 1/g are
\* not moved on.
KeepBase(e, fs, gs, bit) ==
    <<[i \in DOMAIN fs |-> IF i < Len(fs) /\ bit = 1 THEN Mul(e, fs[i], gs[i]) ELSE fs[i]], gs>>

\* The stacks after a bit was found on their top.
Lowered(e, fs, gs, bit) ==
    <<[i \in DOMAIN fs |-> IF i < Len(fs) /\ bit = 1 THEN Mul(e, fs[i], gs[i]) ELSE fs[i]],
      [i \in DOMAIN gs |-> IF i < Len(gs) THEN Pow(e, gs[i], 2) ELSE gs[i]]>>

\* One bit, from the top of the stacks, which is f and 1/g.
LogLeaf(e, fs, gs) ==
    LET bit   == IF Last(fs) = One THEN 0 ELSE 1
        lower == Lowered(e, fs, gs, bit)
    IN  [ok |-> bit = 0 \/ Last(fs) = Last(gs), a |-> bit,
         fs |-> lower[1], gs |-> lower[2], depth |-> Len(fs)]

\* The low half of the bits by the routine low and then the high half by the
\* routine high; entries above the top are dropped.
LogSplit(e, len, low, high, fs, gs) ==
    LET right == len \div 2
        left  == len - right
        lo    == low[<<Append(fs, Pow(e, Last(fs), 2 ^ left)), Append(gs, Pow(e, Last(gs), 2 ^ left))>>]
        hi    == high[<<Front(lo.fs), Front(lo.gs)>>]
    IN  [ok |-> lo.ok /\ hi.ok, a |-> hi.a * 2 ^ right + lo.a, fs |-> hi.fs, gs |-> hi.gs,
         depth |-> IF lo.depth > hi.depth THEN lo.depth ELSE hi.depth]

Stacks(e) == {s \in Seq(Elements(e)) \X Seq(Elements(e)) : Len(s[1]) = Len(s[2]) /\ s[1] # <<>>}

Dlog(e, f, g) ==
    LET rec[len \in 1..e] ==
            IF len = 1 THEN [s \in Stacks(e) |-> LogLeaf(e, s[1], s[2])]
            ELSE [s \in Stacks(e) |-> LogSplit(e, len, rec[len \div 2], rec[len - len \div 2], s[1], s[2])]
    IN  rec[e][<<<<f>>, <<Inv(e, g)>>>>]

\* The levels the stack is dimensioned for: 1 + the halvings of e down to 1.
Levels(e) ==
    LET levels[len \in 1..e] == IF len = 1 THEN 1 ELSE 1 + levels[len \div 2]
    IN  levels[e]

---------------------------------------------------------------------------
(* DlogTable and fp2_dlog_2e_fixed.                                        *)

\* g has a table of pows[k] = (1/g)^(2^k).
HasTable(e, g) == /\ e \in LeafBits..MaxBits
                  /\ Pow(e, Inv(e, g), 2 ^ (e - 1)) = 2 ^ (e - 1)

\* Powers of 1/g of order 2^LeafBits, by index.
RootAt(e, g, j) == Pow(e, Pow(e, Inv(e, g), 2 ^ (e - LeafBits)), j)

\* Where f = (the root of order 2^len)^x is looked up.
RootIndex(x, len) == (-(x * 2 ^ (LeafBits - len))) % 2 ^ LeafBits

FixedLeaf(e, g, len, f) ==
    LET found == {x \in 0..(2 ^ len - 1) : RootAt(e, g, RootIndex(x, len)) = f}
    IN  IF found = {} THEN Pending
        ELSE [ok |-> TRUE, a |-> CHOOSE x \in found : \A y \in found : x <= y]

\* The routines take f and the power of the table the caller is at.
FixedSplit(e, g, len, low, high, f, k) ==
    LET right == len \div 2
        left  == len - right
        lo    == low[<<Pow(e, f, 2 ^ left), k + left>>]
        rest  == Mul(e, f, Pow(e, Inv(e, g), 2 ^ k * lo.a))
        hi    == high[<<rest, k + right>>]
    IN  IF lo.ok /\ hi.ok THEN [ok |-> TRUE, a |-> hi.a * 2 ^ right + lo.a] ELSE Pending

FixedDlog(e, f, g) ==
    LET rec[len \in 1..e] ==
            IF len <= LeafBits THEN [p \in Elements(e) \X (0..(e - len)) |-> FixedLeaf(e, g, len, p[1])]
            ELSE [p \in Elements(e) \X (0..(e - len)) |->
                     FixedSplit(e, g, len, rec[len \div 2], rec[len - len \div 2], p[1], p[2])]
    IN  rec[e][<<f, 0>>]

---------------------------------------------------------------------------
LogIdle == input = [e |-> 0, f |-> One, g |-> One] /\ log = <<>> /\ fixed = <<>>

LogInit ==
    /\ \E e \in Exponents : input \in [e : {e}, f : Elements(e), g : Elements(e)]
    /\ log = <<>> /\ fixed = <<>>

Solve ==
    /\ input.e # 0 /\ log = <<>>
    /\ log' = Dlog(input.e, input.f, input.g)
    /\ fixed' = IF HasTable(input.e, input.g) THEN FixedDlog(input.e, input.f, input.g) ELSE Pending
    /\ UNCHANGED input

LogSpec == LogInit /\ [][Solve]_lvars

---------------------------------------------------------------------------
(* Properties.                                                             *)

\* An exponent the routine returns is below 2^e and f = g^a, whatever f and
\* g are; g of order exactly 2^e has a logarithm for every root of unity f,
\* and a g of smaller order has one for f = 1 only, so that a basis of the
\* wrong order never gets a second answer.  fp2_dlog_2e updates entries of
\* the stack below the one it reads, and no more of them than the levels it
\* dimensions the stack for; the table search agrees with it wherever the
\* table exists.
LogRight ==
    log # <<>> =>
        LET e == input.e
            f == input.f
            g == input.g
        IN  /\ log.ok => log.a \in 0..(2 ^ e - 1) /\ Pow(e, g, log.a) = f
            /\ Zero \notin {f, g} => (log.ok <=> g % 2 = 1 \/ f = One)
            /\ log.depth <= Levels(e)
            /\ HasTable(e, g) <=> e \in LeafBits..MaxBits /\ g # Zero /\ g % 2 = 1
            /\ HasTable(e, g) => fixed.ok = log.ok /\ (log.ok => fixed.a = log.a)
===========================================================================
