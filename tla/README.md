# A TLA+ verification of sqisign-rs

SQIsign signatures rest on chains of isogenies between abelian varieties. The
arithmetic of one step is algebra over fields of 324 to 664 bits, which test
vectors exercise well. What decides *which* step is computed from *which* point,
which limb still holds a carry, which of two square roots was taken or which
half of a matrix was left off the wire is a different kind of code: strategy
stacks with machine-word counters, checks made at some steps and skipped at
others, numbers reduced lazily, pairings known up to a sign, loops that reject
and draw again. An error there is silent (a point of a wrong curve is still a
pair of field elements) and may show only at some lengths, on one curve in a
hundred or in one product in 2^64. This project models that code, model-checks
it on small instances, and proves the main properties of eleven parts of it (three
chains, hints, the two signature formats, scalar multiplication, logarithms of roots
of unity and of the Tate pairing, the bounded integers, their division, the choice of
kernels) for every stack size, word width and length.

All paths below are relative to the repository; `verify/` stands for
`src/crates/verify/src/` and `sign/` for `src/crates/sqisign-rs/src/`.

## 1. The system

| Component | State | Operations | Interacts with |
|---|---|---|---|
| Theta chain, dimension 2: `verify/theta/{chain,gluing,isogeny,splitting,structure,mod}.rs` | strategy stack (`todo`, `theta_q1`, `theta_q2`, `current`), u16 depth counter, codomain, pushed points, penultimate stage, `DualCache` | five entry points, `chain_core`, `start_chain`, `generic_steps`, splitting, recording, `pull_back` | `theta_chain_compute_and_eval` is called by signing, id2iso and verification (`finish`); the other entry points are public and have no caller in the repository |
| Strategy chains: `verify/hd/{strategy,dim2}.rs`, duals in `self_contained.rs` | strategy sequence and index, saved bases with their doublings, steps computed | `optimised_strategy`, `run_strategy_chain`, `IsogenyChainDim2::new`, the dual walks | the HD verifier |
| Elliptic isogeny chains: `verify/ec/isogeny.rs` | stack of 16 splits with u16 counters, `a24`, pushed points | `iso_isogeny_2chain_from`, `iso_isogeny_2chain_eval` | verification (challenge curve), HD challenge |
| Torsion bases and hints: `verify/ec/basis.rs` | u8 and u16 candidate counters, the hint byte | writer `ec_curve_to_basis_2f_to_hint`, reader `ec_curve_to_basis_2f_from_hint`, two bounded searches | the hint travels in keys and signatures |
| Verification: `verify/{sqisign,types,rng}.rs` | prepared key, challenge state, verdict slice | decode, canonicity check, challenge, chain, comparison; batches | all of the above |
| Compressed signatures: `verify/compressed.rs` | three matrix entries and which one was dropped | `compress`, `decompress`, inverse mod 2^t | verification |
| Compact signing and the HD verifier: `sign/compact.rs`, `verify/compact.rs`, `verify/hd/*` | the response's degree and scalars, a challenge and a response recovered from the wire, two half chains | bounded response search, `hd_verify` and its reject codes | dimension-4 strategy chains, the integers of `hd/uint.rs` |
| Key generation and signing: `sign/{sqisign,lib}.rs` | one 48-byte seed, four SHAKE streams, intermediate ideals and curves | `keygen`, `sign`, `generate` | id2iso, quat, theta, bases |
| Ideals, lattices, qlapoty: `sign/quat/*` | ideals in inert form with a split part, rejection-sampling counters | creation, intersection, product, searches, norm equations | the bounded integers |
| Ideal to isogeny: `sign/id2iso/mod.rs` | none of its own | a kernel's ideal, action matrices, a sequence of fallible calls | quat, theta |
| Bounded integers: `sign/mp/*` | limbs and a claimed bit bound | arithmetic, division, gcd, symbol, sampling | everything in quat |
| Curve arithmetic: `verify/ec/{point,curve,jacobian,pairing,normalize,mp}.rs` | ladder registers, swap bits, tables of powers | scalar multiplications, discrete logarithms, coordinates on a basis | everything above |
| Fields: `verify/fp/*` | limbs reduced lazily; one cached mode for the kernels, shared by threads | both backends of three primes, the quadratic extension, the choice of kernel | everything above |
| KATs, benches, generators | | | not part of the library |

Nothing is persisted and no message is sent; the one thing threads share is the
cached choice of kernels (`verify/fp/dispatch.rs`). The hard behaviours are the
following, and `PROJECT.json` lists each of them at the line where it bites.

* **Long sequences of steps with redundant state.** A stack entry, its counter,
  its coordinates and the curve the chain stands on must agree at every step,
  and the strategies make each length a different sequence.
* **Counters and words that are almost always wide enough**: the doubling
  counter of the depth loop, the 8-bit candidate index that wraps within its own
  search, carries between lazily reduced limbs, the bound of a signed integer,
  an i128 that holds a product of three residues.
* **Fixed capacities**: 16 slots, 8 pushed points, 320 recorded surfaces, 7 bits
  of hint, 4096 samples.
* **Choices known up to a sign**: points up to sign, pairings up to the sign of a
  difference, ideals up to a split factor, square roots.
* **A writer and a reader that must make the same choices**: hints, recorded
  surfaces, the scalar that is not sent, the degrees a signer accepts and a
  verifier can use.
* **One step of several failing**: which failure the caller can tell, what a
  delivered result guarantees about the checks made.
* **Loops whose end is not obvious**: three nested loops with shared counters;
  bounded searches; rejection sampling with a fixed candidate.
* **Two implementations that must agree bit for bit**: assembly and portable
  kernels, two representations of a field, two formats of a signature.

What makes each component correct:

* a chain computes n steps, each from the order-8 (order-4) multiple of the
  kernel on the surface it leaves; delivers only after all of them; leaves no
  kernel unchecked that nothing else checks; never overflows its stack;
* the recorded surfaces are those the way back divides by; a strategy is exactly
  used up by its walk, and its cost is what the walk does;
* a hint leads its reader to its writer's basis;
* both formats of a signature decide alike, and a batch writes and counts exactly
  the verdicts that find room;
* a compact response is recovered as it was signed, the verifier can use every
  degree the signer accepts, and the matrices of its embedding are symplectic;
* a scalar multiplication and a logarithm return what they were asked for, and
  refuse no point a valid signature has;
* an ideal routine's answer lies in and generates what its documentation says,
  and an answer of the norm equation solves it;
* after any sequence of operations an integer or a field element stands for the
  number it ought to, and both kernels leave the same words.

## 2. The modules

```
IsogenyChain                     what any chain promises (abstract)
   ^ implemented by
   |-- ThetaChain  <- MCThetaChain           dimension 2, theta coordinates
   |      ^-- ThetaChainProofs
   |-- StrategyChain                         dimensions 2 and 4, precomputed strategy
   |      ^-- StrategyProofs
   |-- EcChain     <- MCEcChain              dimension 1, 4-isogenies
          ^-- EcChainProofs
BasisHint <- MCBasisHint                     writer and reader of the hints
   ^-- BasisHintProofs

MCVerification: Verifier <- CompressedSignature;  Kani <- HdVerify
   CompressedSignature <- VerificationProofs
MCAlgebra:      KummerLine <- ScalarMul, TateLog;  DiscreteLog;  Modq
   ScalarMul, TateLog, DiscreteLog <- KummerProofs
                Quaternions <- QuatIdeals <- IdealSearch, E0Ideals, Qlapoty
MCIntegers:     BoundedInt <- IntegerOps, LehmerGcd;  Division
   IntegerOps, Division, Dispatch <- IntegerProofs
                RadixField, SaturatedField, FieldCalls <- FieldP324, FieldP500, FieldP664
                PrimeField <- FieldCalls;  Progenitor;  Dispatch
NumberFacts     residues and induction, for StrategyProofs, VerificationProofs,
                KummerProofs and IntegerProofs
```

The three MC modules at the bottom put components side by side that share no
state: a behaviour chooses one and leaves the others idle. The project keeps
them in one run each because they ask one question each.

### IsogenyChain: the abstraction

`len`, `done`, the kernel `kern` the last step used and `status`. A step that
leaves surface `done` uses the multiple `[d^(len-done-1)]` of the kernel pushed
to exactly that surface; a chain may give up at any time, and delivers only when
`done = len`. Which doublings were shared and which recomputed is invisible.
The documentation of `verify/hd/strategy.rs` calls this strategy independence.
The three concrete chains are shown to implement it.

### ThetaChain

A theta point is `[on, dbls, coords]`: the image on the surface after `on`
isogenies of `[2^dbls]` of the kernel, in regular or dual coordinates. The two
kernel generators always move together, so one record stands for both.
Combining points of two surfaces, or in the wrong coordinates, gives a `bad`
one. Whether a kernel passes the arithmetic checks of a step is a free choice,
so every malformed input is covered.

| Code | Model |
|---|---|
| five entry points and their refusals | `Call`, `Refused`, `Calls` |
| `while i < n { space += 1; i *= 2 }` on a u16 | `DepthLoop`, `Widened`, `DepthKnown` |
| `start_chain`: ladder of couple points, gluing | `GluingDescend`, `Gluing`, `GluingFails`, `GluingPushed` |
| `generic_steps` | `Descend`, `Isogeny`, `IsogenyFails`, `StepsDone` |
| splitting, or the end of a staged chain | `Split`, `SplitFails` |
| `DualCache`, `pull_back` | `cache`, `CacheFull`, `Recorded`, `GoBack`, `PullBack` |
| `progress` of `theta_chain_from_structure` | `progress` |

### StrategyChain

`StrategyTable` fills the tables `s` and `c` of `optimised_strategy` as the code
does: `BestEntry` is the entry of one length from those of the shorter ones, in
fifths of an isogeny evaluation so that the cost ratios 1.6 and 1.0 are integers.
`Strategies` is, in the same form, the table of *all* strategies of a length, a
strategy being a full binary tree in preorder. Both are recursive functions, and
so is `Sums`, the running total of the doublings that the walk compares with its
target. The walk keeps the strategy, its index, the saved
bases with their doublings and the target of the descent. Up to `TreeLength` it
is started with *every* strategy, not only with the best one. `GoBack`,
`DualStep` and `DualFails` walk back through the steps kept (dimension 2:
`dual_eval`; dimension 4: `eval_f2_dual`), each with its own numbering.

### EcChain

A split is `[on, dbls]`. A call has a kernel whose order misses the claimed one
by -1, 0 or 1 bits and which does or does not lie above (0, 0). That is enough
for the two validations to be computed and not guessed: `OrderBits` says which
order a split has on its curve. `Descend` is one round of the inner `while`,
`Isogeny` one round of the outer `for` after it, `Reject` the validation of the
first step, `Finish` the validation at the end with the normalisation that may
fail. `call.push` tells `iso_isogeny_2chain_eval` from
`iso_isogeny_2chain_from`. Counters are not reduced modulo the word: `TypeOK`
states, and a theorem proves, that they never go below 0, and the stack index
neither.

### BasisHint

A curve is what the searches can see of it: whether A is zero or a square, which
multiples of A and which factors 1 + ib give a point, and whether the third
point of a basis agrees with the one a smaller torsion's own recomputation
picks. `Write(e)` and `Read(h)` are the two entry points (`h` any byte), `TryNext`
and `Found` the two outcomes of a candidate. The counter `n` is the machine's,
modulo its word; `cand` is the integer it stands for.

### Verifier, CompressedSignature

The matrix of a signature against an environment that fixes the outcome of every
step of curve arithmetic (`Verifier`), which is what makes the two formats
comparable; the second part of that module is the loop of a batch over items
zipped with a slice of any length that holds anything. `CompressedSignature` goes from a signer's matrix through
`Compress`, the wire, the strict decoder, `recover` with one action for a turn of
the Newton iteration, and both verifiers; on the wire the fields may be replaced.

### Kani and HdVerify

`Kani` has the integer algebra of the dimension-4 embedding: the fixed-width
integers of `hd/uint.rs`, Cornacchia's descent, the matrices of F and its dual,
the elimination modulo 2^r, the gluing's scalars. `HdVerify` is one compact
signature: `Commit`, `Sample` and `Respond` (`compact_sign_stats`), `Replace`
(somebody else's bytes), `Parse`, `RecoverImages`, `Norm2`, `Complete` and
`Completion` (a column of `complete_symplectic_dim4` at a time), `Start`, `Glue`
and `Decide`. Whether the curves and theta coordinates are what they should be
is a choice for a replaced signature, and right for the signer's own.

### KummerLine, ScalarMul, DiscreteLog, TateLog

A point of the Kummer line is a pair of logarithms up to sign. xADD is defined by
what the products of coordinates give, so that a wrong difference, or one with a
zero coordinate, gives a wrong point or (0 : 0) as in the code. `ScalarMul` has
one action for a turn of each loop of `verify/ec/point.rs`; `st` holds the local
variables under their names. `DiscreteLog` writes roots of unity additively and
updates the stack of powers in place; `TateLog` keeps the sign each pairing is
known up to.

### Quaternions, QuatIdeals, IdealSearch, E0Ideals, Qlapoty

The algebra (-1, -p) with exact integers and denominators as the code keeps them;
ideals as triples (x, y, n) with a split part. Every routine is a step from a
posed task to its outcome; a random draw is an existential choice. `Qlapoty` has
the loops of the norm equation as actions, since which draws are repeated is
what is at stake there.

### BoundedInt, IntegerOps, Division, LehmerGcd

`limbs` are all limbs of the container as one number, stale ones included, and
`bound` is the code's. `IntegerOps` applies sequences of operations and keeps the
integer that ought to result; `Division` has Knuth's and the Burnikel-Ziegler
routines, their loops over digits (`KnuthTurn`) and blocks (`BlockTurn`) and the
recursion by halves (`D2n1n`) as recursive functions; a division is one step.
`LehmerGcd` has one action for a turn of the loop.

### Modq

`mp/modq.rs` with its modular square roots, and the test of primality of
`mp/prime.rs`. A residue is a sequence of limbs, Montgomery, lazily
reduced below 2p; `Context` is the record of a modulus, whose number of limbs
goes with the bound and not with the value. Sums, products by columns, both
powers (fixed windows with the masked look-up, sliding windows), the division
that finds 2^(61 nw) modulo 2p and the Newton iteration of -1/p are recursive
functions; the loops that draw (`DrawNonResidue`, `DrawMinusOne`, `Round`) and
Tonelli-Shanks are actions, and a failing source is `DrawFailed`.

### The fields

`RadixField` and `SaturatedField` describe the generated kernels for any number
of limbs; `FieldP324`, `FieldP500` and `FieldP664` give the sizes and name every
function of the six files; `FieldCalls` has the quadratic extension, generic over
a backend as in the code, and calls the operations in any order with the element of
`PrimeField` beside the stored words. `Progenitor` has the exponent chains at their real
sizes, a power of w as the set of the bits of its exponent; a step is one window
of the written-out chains, `todo` those to come. `Dispatch` has one
action for each atomic access to the cached mode.

## 3. The runs

| Run | Question | Result |
|---|---|---|
| `theta_chain` | are stack, checks, stages, recording and way back right for every length and entry point? | holds |
| `strategy_chain` | is every walk driven exactly by its strategy, with the same kernels whatever the strategy? | holds |
| `ec_chain` | are counters, stack, validations and order of steps right for every length the counter holds? | holds |
| `basis_hint` | does every hint lead its reader to its writer's basis, and does every search end as it should? | holds |
| `verification` | do the two formats decide alike, does a batch report what it found, and do a compact signer and its verifier agree? | holds |
| `algebra` | is what scalar multiplications, logarithms, ideal routines and the norm equation return right? | holds |
| `integers` | does every integer and field element stand for its number, and is every kernel the same? | holds |
| `theta_depth` | is a chain too long for the stack refused? | violated: the loop never ends |
| `ec_degree` | is the degree the documented one? | violated: two bits fewer |
| `basis_adjust` | is an adjusted basis a basis of the smaller torsion on every curve? | violated on E0 |
| `compress_panics` | can every decoded signature be compressed? | violated: a panic |
| `qlapoty_stuck` | does the norm equation fail with `None` where it cannot succeed? | violated: it loops for ever |

### The properties

*ThetaChain.* `StackInv`: live entries stand where the chain stands, with
counters that say what is left of them. `KernelInv`: every step uses
`[2^(n-k)]` of the kernel on the surface it leaves, in the coordinates it reads.
`DepthInv`: the depth found by the counter loop bounds both the stack of the
gluing (which halves only above 16) and that of the generic steps, so neither
overflow return is taken. `CheckedInv`: in `Verify` mode only the last kernel of
a chain that splits is unchecked. `StagesInv`: pushed points keep up, a delivered
chain has n steps, its middle stage n - 1. `CacheInv`: the surfaces recorded.
`Termination`.

*StrategyChain.* `WalkInv`: the descent meets its target exactly, the index never
leaves the strategy, saved bases stand where the chain stands with the doublings
their level says, and each step of the dual divides by its own null point.
`CostInv`: the cost table counts what the walk does, and no strategy does less. That every walk comes to its
end is the absence of deadlock before it.

*EcChain.* `SplitsInv`: the counters are even, at least 2, and say what is left;
after the loop the kernel's own point is left with order 4 (the two debug
assertions). `DeliveredInv`: no codomain for a kernel of another order or above
(0, 0), at any length, including 2, which the reference leaves unchecked; and
pushed points are on the codomain in the model it is returned in.

*BasisHint.* `RoundTrip`: the hint written leads the reader to the writer's
basis, also when the counter has wrapped or the index does not fit 7 bits.
`Termination`.

*Verification.* `NewtonInv`: every turn of `inv_mod_2exp` is right to the bits it
claims. `RoundTrip`: the recovered matrix is the signer's modulo 2^(R+1).
`Recompressed`: whatever well-formed bytes arrive, what is recovered compresses
again, to the same bytes. `SameVerdict`: the compressed verifier accepts exactly
when the standard one accepts the matrix it recovered. `BatchVerdicts`.

*HdVerify.* `ResponseRight`: the verifier recovers the response's own matrix
modulo 2^r from three of its scalars, or, from somebody else's, one whose
determinant is what the pairings demand; the signer's divisions are exact and its
sampler stays within its budget; and a signature is refused only where
m = v_2(a2) exceeds its bound, because every degree the sampler accepts is one
the norm equation answers for. `EmbeddingRight`: the two squares are right and no
step count falls below 0; the three starting matrices are symplectic modulo 2^r;
the dimension-2 kernels are isotropic; the gluing's numerators divide by 2^m, none
of its products leaves an i128, and the changes of basis are symplectic modulo 4.

*Curve.* `ResultRight`: a returned point is the one asked for, whatever changed
places on the way (`PointRight`), and `None` only answers the degenerate inputs
named there (`RefusalRight`). `LogRight`: a logarithm returned is one, is below 2^e, and g of
smaller order never gets a second answer. `TateRight`: the four coordinates carry
one common sign. `Terminates`.

*Quaternions.* `IdealRight`, `SearchRight`, `KernelRight`: answers are in, and
generate, what the documentation says, split parts included, and a kernel of full
order always has an ideal. `QlapotyRight`: an answer solves the equation with an
odd quotient, and the suitability tests leave a k that the second loop can use.

*Residues.* `ResidueRight`: every sum and product is congruent and in the range
the next one counts on, a power is the power, each turn of Tonelli-Shanks keeps
r^2 = a t with t of smaller order, a root squares to its square and is missing
only where there is none, and the test of primality is right unless a draw failed.

*Integers and fields.* `Exact`: no limb above a bound is ever read, after any
sequence of operations. `QuotientRight`, `EuclidRight`, `Answers`. `FieldRight`:
every stored element is in the form and range the next kernel counts on and
stands for the right residue; comparisons, square tests, encodings and decodings
are about the residue. `KernelsAgree`: assembly and portable kernels return the
same words. `ExponentRight`: the six chains end in (p - 3)/4 for the real primes.
`DispatchRight`: no assembly kernel on a CPU without its instructions, whatever
threads do, and none after `force_portable` unless a detection was under way.

### Bounds

* `theta_chain`: 6 slots and a word of 2^6, scaled together as 16 and 2^16 are
  in the code. The splitting threshold 16 is kept. Lengths 0..20 go past it, so
  the gluing both halves and goes straight down, and depth 5 is needed.
  `MaxPoints` is 1 for 8, with 0..1 special and 0..1 general points, so both
  outcomes of the capacity check occur; `MaxRecorded` is 17 for 320, between the
  lengths asked for, for the same reason.
* `theta_depth`: 4 slots, word 16, every length of the word.
* `strategy_chain`: every length to 12 with the best strategy, and every strategy
  (not just an optimal one) up to 6.
* `ec_chain`: 5 slots and *every* length a 5-bit counter holds, so the depth
  bound is tight.
* `basis_hint`: hints of 3 bits for 8 (`Half` = 4 for 128), 8 candidates for
  256 with a counter of 8 for 2^8 (it wraps), 10 for the other search's limit
  with a counter that does not, and every curve with at most two good candidates
  in 0..14: enough for one before and one after any boundary.
* `verification`: R = 7 makes the Newton iteration take two turns (3, 6, 12 bits).
  Compact signatures have e = 10 and so r = 7, e1 = 5, in the proportions of the
  code's 174, 89 and 87; *every* degree below 2^10 is sampled, so every sum of two
  squares occurs, and m reaches 4 with a limit of 2 for 40, so both sides of it.
  The signed word has 3 m + 8 bits for that limit, as 128 = 3 * 40 + 8. Roots of
  -1 are sought from bases below 20 for 1000, and the budget is 2 samples for
  4096. A response's matrix takes its entries from a small set with both parities
  of its first entry, which is what selects the scalar that is sent.
* `algebra`: the 16-torsion of a curve with every scalar, over bases with and
  without a point above (0, 0) and pairs that are no basis; logarithms of every
  root of unity for e up to 6, with tables of 2 bits. Limbs of 5 bits in words of 8
  for 61 in 64, moduli of one to four limbs with tight and loose bounds; numbers up
  to 300 and the strong and Lucas pseudoprimes up to 5777 for the test of
  primality. Ideals of odd norms up to
  25 over p = 31, with split parts of norm 1, 2, 5 and 13 and the kernels of the
  16-torsion of E0. The norm equation over p = 3 * 2^18 - 1 = 786431 with
  2^16 as the sum, so that 2^(e+3)/p is 2/3 as at level I, on the smallest ideals of norms
  5, 25, 31, 50 and 77 and ten more that take each of the branches.
* `qlapoty_stuck`: the same instance.
* `integers`: three limbs of 2 bits, values of both signs with tight and loose
  bounds; operands of up to 6 limbs (`MaxLimbs`), dense near powers of
  the base, where the estimates are off; 4-bit limbs for Lehmer's algorithm, with
  Fibonacci numbers, whose quotients are all 1. Fields: a prime c 2^k - 1 with
  the code's own c for each of the three shapes where it is small enough. p324:
  47 in two radix limbs and 383 in two words, all elements; p500: 27 * 2^14 - 1 in
  three limbs and 27 * 2^10 - 1 in two words, two calls from given elements;
  p664: 127 in three limbs, all elements, and 786431 in three words, two calls.
  The spare bits over p, on which lazy reduction lives, are in the assumptions
  `RadixSizes` and `SaturatedSizes`. The exponent chains have their real
  sizes. Two threads choose kernels on every kind of CPU.

The proofs remove these bounds for `ThetaChain`, `StrategyChain`, `EcChain`,
`BasisHint`, the compressed format, batches, `Dispatch`, `ScalarMul`, `TateLog`,
`DiscreteLog`, `IntegerOps` and `Division`.

### Fairness

`WF_vars(Run)` in the chains, `WF_vars(TryNext \/ Found)` in the searches, and
weak fairness of the running routine in `ScalarMul`, `LehmerGcd` and, for
`qlapoty_stuck`, `Qlapoty`. The code is sequential and waits for nothing, so a
step that can be taken is taken. Nothing is assumed of the caller: a new call need
never come, and no choice of data (a check passing, a step computable, a draw
that suits) is assumed fair: rejection loops end with probability 1 only, so
what is checked of them is what they return, and, where the candidate is fixed and
not drawn, that they do not end. `EcChain` states no liveness: its loop is bounded
by a `for`, and its inner loop by `DepthInv`.

## 4. Where code and documentation disagree

Each with a run:

* **`theta_depth`** (`verify/theta/chain.rs:302`). The loop that computes the
  strategy depth doubles a u16. For a length above 2^15 it wraps to 0 and, in a
  release build, never ends; a debug build panics. The guard after it, which
  refuses chains too long for the stack, is not reached for any length it could
  refuse. No caller asks for more than 664 steps.
* **`ec_degree`** (`verify/ec/isogeny.rs:80`). The documentation says that the
  codomain is that of the 2^length-isogeny, the last step being implicit in the
  normalisation. The chain computes length/2 - 1 4-isogenies and then
  normalises the curve the last point lies *on*: the coefficient
  `NormalizeMontgomery` computes from a point of order 4 is a coefficient of the
  point's own curve, so the isogeny has degree 2^(length-2). The callers know
  (they ask for `challenge_bits + 2`, and one comment says what the two bits are
  for); the documentation is wrong.
* **`basis_adjust`** (`verify/ec/basis.rs:222`). With `e > 0` the basis is
  documented to agree with the one a reader of the smaller torsion builds. On
  E0 the function returns its precomputed basis before it looks at `e`, and the
  two third points are chosen independently. A signer meets E0 with negligible
  probability.
* **`compress_panics`** (`verify/types.rs:300`). `compress` asserts an odd
  determinant, which a signer's matrix has and a decoded one need not.
* **`qlapoty_stuck`** (`sign/quat/qlapoty.rs:286`). For a short interval k is
  fixed to 4 + 3i; if the interval is big and the norm divisible by 5 the same k
  is refused for ever, where the documentation promises `None`. Only ideals
  equivalent to one of a norm of a few hundred get there, a negligible
  probability.

Seen while modelling, and without a run of their own:

* `mp/arith.rs:120` calls `div_2exp` a logical shift; it is a floor division of
  the signed number, and `intersect_o0` may divide a negative one with it. A
  floor can be -2^(b-1). The branch `if i == n` of the normalisation
  (`mp/mod.rs:168`, `:285`) is not reached.
* `legendre` is documented to return -1, 0 or 1; with a modulus that is not prime
  and not coprime it never returns, and legendre(0, 1) is 0. `invmod` reads limbs
  of the modulus above its bound (`mp/gcd.rs:319`).
* `ec_biscalar_mul_verif` returns `None` on E0 without a cached A24
  (`ec/point.rs:480`) and for columns that are not short when the scalar has the
  full width; `ec_ladder3pt` returns (0 : 0) for pairs that are no basis.
* `sqrt_mod_p` is documented to return `None` for a non-square or an even modulus
  (`mp/modq.rs:752`); modulo a prime 1 mod 4 it returns `None` for 0, no power of which is 1. In `probab_prime` a
  random draw that fails makes the answer false, "composite".
* `ec_dlog_2_tate` loses its answer to a degenerate difference when e is 1 or F.
* `quat/dim2.rs:99`: `normalize` turns an entry 0 into 2^e. `rounded_div`
  (`dim2.rs:205`) rounds ties toward zero, documented as away from it.
  `QuatIdeal::init` is documented as the unit ideal of norm 1 and has norm 0
  (`quat/mod.rs:485`).
* `kernel_dlogs_to_ideal_even` returns the split part 1 - i where the
  documentation has 1 + i or i - 1. `small_equivalent_coprime` documents `None`
  as "merely odd" and treats it as prime (`ideal.rs:455`, `:483`); on an ideal
  that is already the smallest it may draw the ideal's own norm and hand
  `create_o0_odd` a generator that is 0 modulo it.
* The recorded theta chain appends to the cache it is given (`chain.rs:331`); its
  documentation does not ask for an empty one. No caller reuses one, and the
  model's runs bring a fresh one.
* `qlapoty`'s loop `for _ in 1..f` squares, so that f >= 3 widens by (2 ± i)^4
  and more.
* The x86 files say that a product's inputs are below 2^(BITS+1); the lazy
  difference in the squaring reaches about 2.5 * 2^BITS. The spare bits hold it.
* `fp/dispatch.rs:44`: a thread that is detecting stores its answer over a
  `force_portable` made meanwhile ("from now on", `:52`). The kernels agree bit
  for bit, so only the choice is lost.
* `hd_verify.rs:93` asserts in debug builds that `inv_2r`'s input is odd; a
  decoded signature with a and b both even reaches it with an even one, and in a
  release build computes a value that the later checks refuse.
* `compact.rs`: `q >= two_e` is not reached, the ball's bound being 2^e - 1; the
  documentation of `compact_sign` says `None` where the function returns an
  error. Comments in `kani.rs` and `self_contained.rs` still give the sizes of an
  earlier parameter set (70 and 136 bits, `67 - m`).

## 5. The proofs

Checked by TLAPS, for every value of the constants that satisfies the named
assumptions in the modules: `Stack >= 1`, `Pow2` the powers of two, lengths
within the word, nonnegative capacities; for the hints, a word twice the 7-bit
half and at most a word of candidates; for the compressed format, R >= 3; for
scalar multiplication, a torsion of at least 2^3 and limbs of at least 3 bits
(with less, a doubling of the reduction of two scalars does meet a zero coordinate:
TLC finds it); for the Tate logarithms, bases, which is an odd determinant; for the
integers, limbs of at least 2 bits, containers of at least 2 limbs (the code has
64 bits and more than 8 limbs) and operands within their bounds; for division,
limbs of at least 1 bit and operands of at most `MaxLimbs` limbs, the divisor not 0;
for discrete logarithms, leaves of at least 1 bit and no more than a table has;
and `PowerAssumption`, `LogPowers`, `IntPowers` and `DivisionPowers`, which say of the powers
that occur that each is a natural number and its base times the one before. That is
what `2 ^ k` is; none of the provers knows it, so it is assumed by name and TLC
evaluates it.

**ThetaChain** (`ThetaChainProofs`).
`TypeOK` is inductive together with two bounds that are not types (`TInv`): the
gluing never runs on an empty stack, and a return trip has no more steps left
than the cache has surfaces. `StackInv` and `DepthInv` are not inductive: that an entry is pushed says
nothing of how many more the strategy will save. `CoreInv` adds

* entry 0 is the kernel itself, and counters fall strictly from entry to entry;
* entry j has at most 2^(depth-1-j) doublings left: halving keeps it, and so
  does going straight down below the threshold;
* the u16 counter is the power of two the depth says and divides the word, so
  that doubling it either doubles the integer or gives exactly 0.

From it follow `KernelCorrect`, `StackCorrect`, `LadderCorrect`,
`DepthCorrect` and `DrivenCorrect`. A second invariant adds which steps were
checked, where points, stage and progress stand, and what the cache holds, from
which `CheckedCorrect`, `ProgressCorrect` and `StagesCorrect` follow and, for a
caller that brings a fresh cache (`~ReuseCache`), `CacheCorrect`, `BackCorrect`
and `Refinement`: the driver implements `IsogenyChain`.

**StrategyChain** (`StrategyProofs`). What `optimised_strategy` and the set of all
strategies are at every length is an induction over data. The library states
induction with an operator for its parameter, which the provers cannot
instantiate; `NumberFacts` states it for a set (`SimpleInduction`,
`StrongInduction`, `Recursion`: a recursive function on the naturals exists and
is the only one), and the set is then the lengths at which the claim holds. So
`SumsDef` and `TableGrows` are proved of `Sums` and of the two tables, then that
every strategy is a first split and the walks of its two halves, that the
optimised one is among them, and that a tree costs at least the table's entry.
The walk itself needs `StratInv`, in named parts:

* `Saved`: levels and bases have the same length, bases stand where the chain
  stands, and a level is the difference of neighbouring bases;
* `Stack`: doublings grow strictly along the stack, the first base has none, and
  `idx = k + Len(elements)`, which is why nothing is read past the strategy;
* `Trees`: the part of the strategy not yet read is cut, base by base, into
  strategies for exactly the `Leaves` between that base and the next. This is
  what no simpler invariant gives: a sequence of numbers that merely has the right
  length leads past the target;
* `Paid`: what was spent and what the trees and the pending images will cost
  (`Debts`) is at least the table's cost of the whole chain, and exactly that
  where the strategy is the optimised one.

A doubling splits the top tree into the two halves of its first node; a step pops
a tree of one leaf, and every base below is pushed one surface on.
From it `TypeCorrect`, `WalkCorrect`, `CostCorrect`, and `StrategyRefinement`:
the walk implements `IsogenyChain`, for every strategy, which is the "strategy
independence" the documentation claims.

**ScalarMul** (`KummerProofs`). A point of the Kummer line is a pair of vectors
modulo 2^F up to sign; the first lemmas turn it into an integer combination
`Comb(a, b)` of P and Q, on which `CombDouble` and `CombAdd` say what xDBL and
xADD give (`CombAdd`: (0 : 0) where the difference has a zero coordinate, the sum
otherwise, whichever of the two signs each point is known by). `MulInv` then says
of three of the loops which combinations their registers hold:

* `Climbs`, the Montgomery ladder: [n] p and [n + 1] p, in the order `prevbit`
  tells, where n is the number the bits read so far make; for a p with a
  zero coordinate `Sinks` instead: the ladder ends in such a point and
  the caller in the variable-time routine refuses it;
* `Ladder3Inv`, the three-point ladder: [2^i] Q, P + [k mod 2^i] Q and their
  difference; a point that is no longer one (`Marks`) only where P and Q are no
  basis, since P + [m] Q has a zero coordinate only if the two are dependent
  modulo 2 (`CombRegular`);
* `Weighs`, the reduction of two scalars: [s0] x0 + [s1] x1 is the point asked
  for and xdiff is x0 - x1, kept by each of the four reductions
  (`SubtractedReaches`, `HalvedReaches`, `Halved1Reaches`, `Halved0Reaches`) as
  the products of matrices they are; `Leads`, once s0 = 0: [s1] x1 is it.

That a short column of a full basis is never refused on the way is `VerifInv`. It
strengthens the last two by `Balanced`: the coefficients (a, b) of x0 and (c, d) of
x1 are natural numbers with a d # b c. Since s0 a + s1 c is the scalar itself, less
than half the order, a register whose weight is positive has small coefficients
(`ColumnBounds`); small and independent vectors of a basis, and their differences,
are never points of order two or zero (`SoundIs`), which is all a zero coordinate
can be. Only a doubling of x1 with no weight left would escape this: there the
order of the reductions keeps (c, d) below a quarter of the order. At the end the
coefficients have an odd entry (`FullBasis`, `ShortColumn`), so neither the last
ladder nor what it gives is refused.

`BiInv` is about `ec_biscalar_mul`, which first recodes both scalars into digits
and then reads these from the top. A digit says whether neighbouring bits of the
odd scalar differ, and the pair of each place is swapped by a type that depends on
every place below; so the invariant has that type as a function `T` of the number
of digits left, which the recoding extends at each turn (`Turns`) and the loop
walks back. The registers hold, for the halves x and y of the two odd scalars
reached so far (`Half`), the combinations of their even neighbours, of their odd
ones, and in the middle the one of each that T[i] names (`Laddered`);
the two pairs of differences are in the order that T[i] and x + y make. `Registers` and
`Neighbours` show that a turn adds exactly two registers whose difference is the
one given to xADD; the parity of the scalars, lost in making them odd, is restored
by the choice of the register at the end, modulo 2^kbits.

`MultiplicationsCorrect` is `ResultRight` for all four routines: the point given is
the one asked for, and nothing is refused but what `Refused` names.

**TateLog** (`KummerProofs`, on the same combinations).
Whichever of P - R and P + R the square root stands for, `Shared` gives the
other three differences with the same sign, or nothing where both roots are
common or the common one is 0 (`TateInv`). For 2 <= e <= F - 1 neither of these
nor a point that is 0 occurs, because the basis (P, Q) is independent modulo 2
and R, S are combinations of it by multiples of 2^(F-e) whose determinant is odd
before that scaling. So no
batched inversion meets 0, and the four pairings stand for (R, S) or for
(-R, -S) together. `TateLogarithmsCorrect` says this for any torsion, basis and
subgroup; for e = 1 and e = F it allows the loss that section 4 names.

**DiscreteLog** (also in `KummerProofs`). As in Division, each recursive function is
first shown to exist and then unfolded; the induction on the two halves of a number is
in `NumberFacts` (`Halving`, `HalvingWithin`, `HalvingStays`). What a call on `len`
bits promises has two parts. `Leaves` is the contract about the stack it shares with
its callers: of the top nothing is said, but every entry below is f h^a and h^(2^len)
for the a just found, whatever the entry was, and the depth grows by no more than the
levels of `len`. That the high half then finds its operand on the top is only this.
`Tells` is what the answer means, for an h whose 2^len-th power is 1: an f that has no
logarithm, or an h of smaller order, must be noticed by one of the leaves, and
an h of smaller order must not give a second answer for f = 1 (`TellsOne` for a
leaf, `TellsHalves` for two halves, `SplitFinds` for both parts). Outside that
condition, for a call that is about to fail anyway, nothing is claimed but the stack
and the range.
For the table, `RootAtIs` says which power of g a lookup stands for,
`FixedLeafFinds` that a leaf finds every f of its order (g, odd, is invertible:
`Invertible`, which is the first half applied to f of exponent 1), `FixedSplitFinds`
adds the halves, and `FixedIsDlog` compares. `LogarithmsCorrect` is `LogRight` for any e and
any `LeafBits` (4 in the code).

**IntegerOps** (`IntegerProofs`). The invariant `OpsInv` is `Holds(x, want)` and
the same of the other operand: the bound is one of the container, and the active limbs, read
as a signed number, are the integer, *strictly* within the bound. The top limb has
spare bits above the bound and the container stale limbs above the active ones;
so the lemmas speak of `limbs` only modulo `Mod(b)`, the modulus of the limbs that b
bits need (`ReadsAs`, `ValueIs`: the value is the only integer of less than half the modulus
with that residue), and each operation gets one: what it leaves in the limbs is
right modulo `Mod` of its result's bound (`FreshIs`, `ProductIs`, `SetBoundIs`, ...),
and the bound it claims holds (`ProductBound`, `ScaledBound`, `FewerIs`, ...). Three
needed more than that:

* `div_pow2` shifts the active limbs as an unsigned number, so a negative number is
  right only while the zeros shifted in stay above the sign bit of the result's
  top limb, which is what the guard `Floors` says and `DivPow2Holds` uses;
* `invmod_2e` lets its products fill the container, where they are no longer
  within a bound. `Stands` is weaker than `Holds` there: right modulo 2^MaxBits.
  Newton's step doubles the precision (`Doubling`), the loop's values exist
  and are right to 2^k bits (`TurnsExist`, `TurnsRight`), the last turn goes to e
  (`LastTurn`), and an inverse is unique (`InverseUnique`);
* `bitsize` looks for the first limb that is not all sign. `TopPlace` says where a
  number ends from its limbs alone, `PlaceFlip` what the complement's limbs are, and
  `RestIs` that the lower limbs are all 0 exactly where adding the 1 of the two's
  complement carries into the top one; `FitsTop` and `FitsOnce` then give that the length
  found is the only right one, -2^k with its extra bit included.

`IntegersExact` is `Exact` under `OpsSpec`: any sequence of the operations, any
operands, any width and size of the container.

**Division** (also in `IntegerProofs`). The step is one evaluation, so the
invariant is the property; the work is what the routines compute, each a lemma
that says of a result <<q, r>> what a Euclidean division is: u = q v + r and r < v
(`Euclid`), which `EuclidIs` shows to be unique.

* *A digit.* An estimate from the divisor's top limb is never too small; lowered
  until two limbs show nothing more it is at most one too large (`EstimateIs`, from
  `SeenTooLarge` and `NotSeenTooLarge`: what two limbs show is so, and what they do
  not show is off by less than a divisor; the top limb has only to be other than 0,
  the shift that sets its top bit is needed by the recursion and the blocks). `CorrectedIs` adds
  the divisor back modulo the width of the window, and `KnuthTurnIs` keeps `Left`:
  what is found so far times the divisor, plus what is left, is the dividend, and
  what is left is less than the divisor at this place. `SchoolbookIs` shifts the
  remainder back (`ShiftBack`).
* *The recursion.* `D3n2nIs` is about any function that divides 2n limbs by n
  (`Halves`): the remainder is negative by at most the quotient times the divisor's
  lower half, so `Restored` ends, at the Euclidean quotient (`RestoredIs`); the
  quotient and the remainder fit the limbs they are cut to. `HalvedIs` puts two of
  them together, and `D2n1nIs` is strong induction over the number of limbs.
* *The blocks.* `LeftBlocks` is the same statement as `Left`, in digits of n limbs,
  from a top block with a quotient of 0 or 1.

A recursive function is a CHOOSE, so each of the three has to be shown to exist
before it can be unfolded: `LoopExists` for a loop of m turns within given sets,
`LevelsExist` and `LevelsAgree` for the recursion, whose argument is halved.
`DivisionCorrect` is `QuotientRight` for any width of a limb and number of limbs.

**Dispatch** (also in `IntegerProofs`). `DispInv`: the cached mode is assembly only on a CPU
that has the instructions, and once portable kernels are forced and nobody is
detecting, the mode stays forced. `DispatchCorrect`, for any set of threads.

**EcChain** (`EcChainProofs`). `ChainInv`: the splits stand where the chain
stands; counters are even and fall strictly; split i has at most
2 * 2^(Stack-1-i) doublings left, since the even half rounded up of at most 4p is
at most 2p; split 0 is the kernel. A top entry in the last slot therefore has
exactly 2 left, so `DepthCorrect` holds with 16 slots for every length a u16
holds (the comment in the code asks for `ceil(log2(length)) + 1`, which at
2^16 - 1 would be 17). Strict descent with counters of at least 2 gives that the
stack index never falls below 0 inside the loop and is 0 at its end
(`EcTypes`, `SplitsCorrect`). `DeliveredCorrect` needs that only the kernel
itself can lie above (0, 0): a chain of more than one step has passed the check
of its first. `EcRefinement`: the chain implements `IsogenyChain`, with
`[4]` of the kernel and 4-isogenies for steps.

**BasisHint** (`BasisHintProofs`). `HintInv`: every candidate between the start
of a search and the integer its counter stands for has failed, and the counter
is that integer modulo its word. When the 8-bit counter of one search wraps to
0, the hint is the 0 that asks the reader to search; a limit no larger than the
word is what makes this right, since otherwise a wrapped counter would be
written as an index. `HintTypes`, `RoundTripCorrect`, `FailsClosedCorrect`,
`LeastFoundCorrect`.

**CompressedSignature and batches** (`VerificationProofs`, on the lemmas of
`NumberFacts` about residues of sums and products, which the solvers do not find
by themselves when the modulus is a variable). The inductive invariant is
`TypeOK /\ NewtonInv /\ StageInv /\ Recompressed /\ SameVerdict`; `StageInv`
says which facts hold at which stage: the signed matrix has an odd determinant,
what is being inverted is odd, the determinant under way is the paired one.
`NewtonInv` is Hensel's argument: an inverse right to t bits gives one right to
2t. From it `InverseRight`, `RoundTripRight` (the recovered entry is the dropped
one, by cancelling the pivot), `RecompressedRight`, `SameVerdictRight`,
`RepresentativeRight` (of M and -M exactly one passes the canonical scan) and,
for batches, `BatchRight`.

**Proved and not in a run.** `TypeOK` of the chains, `BasisHint` and
`CompressedSignature`, `LadderInv`,
`DrivenInv`, `ProgressInv` and `BackInv` of ThetaChain, `DepthInv` of EcChain,
`FailsClosed` and `LeastFound` of BasisHint, `Representative` of Verifier are
stated in their modules and hold for every instance; the runs keep to the
properties that say most.

**Only model-checked.** Liveness everywhere (out of the prover's reach), and:
the rest of the algebra, the Euclidean routines and the fields, most of
whose modules (`LehmerGcd`, `RadixField`, `SaturatedField`,
`PrimeField`, `FieldCalls`, `Progenitor`) are recursive operators, which no theorem
may be about with these provers; `Kani` and `HdVerify`, whose claims are identities of matrices
found by elimination; `Modq`, whose claims are about primes. The five
disagreements are single counterexamples.

## 6. What is not modelled

* The formulas of curves, Jacobian points, normal forms and theta coordinates:
  identities over large fields without control flow, abstracted to which point
  or surface they give, or to the free outcome of a check. A model cannot say
  that a formula is right, only that it is applied to the right operands. For
  the same reason the geometry of the HD verifier (`challenge.rs`,
  `canonical.rs`, `gluing.rs`, `dim4.rs`) is a choice in `HdVerify`.
* The retry loops of `keygen`, `sign` and `generate` around the searches, and
  the split of one seed into four streams. A retry begins afresh, and every draw
  is a free choice, so which stream it came from cannot be told apart; failures of
  the random source are modelled where a routine returns them.
* LLL (`quat/lattice.rs`): the searches combine the bases of the ideals
  unreduced. `IdealSearch` leaves out elements that share an integer factor with
  the norm, which the real sizes never draw.
* `mp/rand.rs` and the integer square root (`mp/sqrt.rs`); `modxpowe`, which
  nothing calls. To the searches, sampling, primality and roots are what they
  return, as `Modq` shows of the last two. The generic field backend over `modq` has
  no code of its own beyond them.
* Registers in the assembly: a row, its two carry chains and its fold are
  modelled, not which register holds what.
* Hashing and byte layout; `kernel_matrix_f2_dual`, which the library does not
  call; `DualCache` accessors and `gluing_dual_equals`, which only read; the basis
  of the odd torsion (`ec_basis_p_plus_one`); lengths above a u16 in `EcChain`
  (the code truncates `todo[0]` but not the loop bound; no caller asks for them).
* Constant-time behaviour, zeroisation, formatting, benches, generators, known
  answers.

## 7. Where to go from here

* The Euclidean routines call the operations of `BoundedInt`; with the lemmas of
  `IntegerProofs` their invariant (`u` and `v` combinations of the operands) is
  within reach once `LehmerGcd`'s recursive operator is a function.
* Every new backend of the generators is a new pair of instances in the style of
  `FieldP324`; the sizes to scale by are in `RadixFits` and `SaturatedFits`.
