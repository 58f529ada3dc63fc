---------------------------- MODULE Progenitor ----------------------------
(***************************************************************************)
(* The exponents of the square-root progenitor w^((p-3)/4), for the three  *)
(* primes c 2^e - 1 of the code at their real size: the windows written    *)
(* out in crates/verify/src/fp/p324_3.rs, p500_27.rs and p664_17.rs        *)
(* (modpro), and the all-ones chain of the x86-64 files (ones, exp3div4).  *)
(* A power of w is the set of the bits of its exponent.                    *)
(***************************************************************************)
EXTENDS Integers, Sequences
LOCAL INSTANCE SequencesExt

VARIABLES
    chain,     \* the prime and the form of the chain, or what is idle
    power,     \* the exponent it has computed so far
    todo       \* the windows still to come

pvars == <<chain, power, todo>>

RECURSIVE BitsOf(_)
BitsOf(n) == IF n = 0 THEN {}
             ELSE {i + 1 : i \in BitsOf(n \div 2)} \cup (IF n % 2 = 1 THEN {0} ELSE {})

\* The bits of n, the most significant first.
RECURSIVE BitList(_)
BitList(n) == IF n = 0 THEN <<>> ELSE Append(BitList(n \div 2), n % 2)

\* n squarings, and a product of powers: the carries run along the bits that
\* either factor has, a distance d and then twice as far.
Shift(a, n) == {i + n : i \in a}
RECURSIVE Carries(_, _, _)
Carries(made, run, d) ==
    IF run = {} THEN made ELSE Carries(made \cup (run \cap Shift(made, d)), run \cap Shift(run, d), 2 * d)
Plus(a, b) == SymDiff(SymDiff(a, b), Shift(Carries(a \cap b, a \cup b, 1), 1))

---------------------------------------------------------------------------
(* The table of odd powers and the windows: squarings, then an entry.      *)

Times(n, w) == [i \in 1..n |-> w]
Odd(j)      == BitsOf(2 * j + 1)

Windows324 == Times(63, <<5, 15>>) \o <<<<4, 7>>>>

Windows500 == <<<<6, 15>>>> \o Times(98, <<5, 15>>) \o <<<<3, 3>>>>
Windows664 == <<<<9, 15>>>> \o Times(131, <<5, 15>>) \o <<<<2, 1>>>>

Primes == {[c |-> 3, e |-> 324, first |-> 11, windows |-> Windows324],
           [c |-> 27, e |-> 500, first |-> 6, windows |-> Windows500],
           [c |-> 17, e |-> 664, first |-> 0, windows |-> Windows664]}

Window(z, w) == Plus(Shift(z, w[1]), Odd(w[2]))

---------------------------------------------------------------------------
(* The all-ones chain.                                                     *)

\* Mutated form of Doubled: the bit of k is counted and not squared in.
SkippedBit(s, bit) == [cur |-> 2 * s.cur + bit, t |-> Plus(Shift(s.t, s.cur), s.t)]

\* 2^cur - 1 to 2^(2 cur) - 1, and one bit more if that bit of k is set.
Doubled(s, bit) ==
    LET twice == Plus(Shift(s.t, s.cur), s.t)
    IN  IF bit = 1 THEN [cur |-> 2 * s.cur + 1, t |-> Plus(Shift(twice, 1), {0})]
                   ELSE [cur |-> 2 * s.cur, t |-> twice]

Ones(k) == FoldLeft(Doubled, [cur |-> 1, t |-> {0}], Tail(BitList(k)))

\* t and t w over the bits of TAIL, then t again.
TailBits(t, TAIL) ==
    FoldLeft(LAMBDA r, bit : IF bit = 1 THEN Plus(Shift(r, 1), Plus(t, {0})) ELSE Shift(r, 1), {}, BitList(TAIL))

OnesThenTail(prime) == LET t == Ones(prime.e - 2).t IN Plus(TailBits(t, prime.c - 1), t)

---------------------------------------------------------------------------

ProgIdle == chain = [form |-> "none"] /\ power = {} /\ todo = <<>>

ProgInit ==
    \E prime \in Primes :
        \/ /\ chain = [form |-> "windows", prime |-> prime]
           /\ power = Odd(prime.first) /\ todo = prime.windows
        \/ /\ chain = [form |-> "ones", prime |-> prime]
           /\ power = {} /\ todo = <<>>

ProgNext ==
    /\ UNCHANGED chain
    /\ \/ todo # <<>> /\ power' = Window(power, Head(todo)) /\ todo' = Tail(todo)
       \/ /\ chain.form = "ones" /\ power = {} /\ UNCHANGED todo
          /\ power' = OnesThenTail(chain.prime)

---------------------------------------------------------------------------
(* Properties.                                                             *)

\* (p - 3) / 4 = c 2^(e-2) - 1, as bits.
Exponent(prime) == Shift(BitsOf(prime.c - 1), prime.e - 2) \cup 0..(prime.e - 3)

\* The chains written out for the three real primes, a hundred windows and
\* more, end in the exponent (p - 3) / 4: with one window or one squaring too
\* many or too few, inverses of 1 and roots of some squares are still right.
\* And `debug_assert_eq!(cur, k)': the all-ones chain counts its bits.
ExponentRight ==
    /\ power # {} /\ todo = <<>> => power = Exponent(chain.prime)
    /\ chain.form = "ones" => Ones(chain.prime.e - 2).cur = chain.prime.e - 2
============================================================================
