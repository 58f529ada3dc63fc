----------------------------- MODULE MCIntegers ---------------------------
(***************************************************************************)
(* Arithmetic on machine words, one part at a time: the bounded integers,  *)
(* the unsigned division, the Euclidean routines, the six field backends,  *)
(* their square-root exponents and the choice of their kernels.  A         *)
(* behaviour chooses one and leaves the others idle.                       *)
(***************************************************************************)
EXTENDS IntegerOps, Division, LehmerGcd, Progenitor, Dispatch

VARIABLES
    field,                    \* the backend, or "none"
    elt, due, agrees, left    \* of FieldCalls

P324 == INSTANCE FieldP324
P500 == INSTANCE FieldP500
P664 == INSTANCE FieldP664

backendVars == <<field, elt, due, agrees, left>>
vars == <<ivars, dvars, gvars, pvars, disp, backendVars>>

\* The parameters of the six instances are like those of the code.
ASSUME RadixSizes     == P324!K!RadixFits /\ P500!K!RadixFits /\ P664!K!RadixFits
ASSUME SaturatedSizes == P324!S!SaturatedFits /\ P500!S!SaturatedFits /\ P664!S!SaturatedFits

MCCpus == [bmi2 : BOOLEAN, adx : BOOLEAN]

\* Integers of one and two limbs of 2 bits, of both signs, with bounds that
\* are tight and loose.
MCValues == {<<0, 1>>, <<1, 2>>, <<-1, 2>>, <<-3, 4>>, <<5, 4>>}

\* Limbs of 2 bits: dividends of four limbs, and of five and six near the
\* powers of the base; divisors of one to four limbs, and some of six.
MCDividends == 64..255 \cup 256..300 \cup 990..1023 \cup 4060..4095
MCDivisors  == 1..66 \cup 124..132 \cup 189..194 \cup 252..255
               \cup {85, 170, 1024, 1025, 2047, 3071, 3072, 4000, 4095}

\* Limbs of 4 bits: Fibonacci numbers, whose quotients are all 1, powers of
\* the base and their neighbours, and numbers with common factors.
MCOperands == {<<0, 1>>, <<1, 2>>, <<3, 3>>, <<8, 5>>, <<15, 5>>, <<16, 6>>, <<21, 6>>,
               <<55, 7>>, <<144, 9>>, <<233, 9>>, <<255, 9>>, <<257, 12>>, <<377, 12>>,
               <<987, 12>>, <<1024, 12>>, <<1155, 12>>, <<1201, 12>>, <<1597, 12>>, <<2047, 12>>}

IntegersIdle == x = Fresh(0, 1) /\ y = Fresh(0, 1) /\ want = 0
GcdIdle      == job = [op |-> "none"] /\ u = 0 /\ v = 0 /\ cof = <<>> /\ sym = TRUE /\ ans = <<"idle">>
BackendIdle  == field = "none" /\ elt = <<>> /\ due = 0 /\ agrees = TRUE /\ left = 0

BackendInit ==
    \/ field = "324 radix"     /\ P324!Radix!FieldInit
    \/ field = "324 saturated" /\ P324!Saturated!FieldInit
    \/ field = "500 radix"     /\ P500!Radix!FieldInit
    \/ field = "500 saturated" /\ P500!Saturated!FieldInit
    \/ field = "664 radix"     /\ P664!Radix!FieldInit
    \/ field = "664 saturated" /\ P664!Saturated!FieldInit

BackendNext ==
    /\ \/ field = "324 radix"     /\ P324!Radix!FieldNext
       \/ field = "324 saturated" /\ P324!Saturated!FieldNext
       \/ field = "500 radix"     /\ P500!Radix!FieldNext
       \/ field = "500 saturated" /\ P500!Saturated!FieldNext
       \/ field = "664 radix"     /\ P664!Radix!FieldNext
       \/ field = "664 saturated" /\ P664!Saturated!FieldNext
    /\ UNCHANGED field

MCInit ==
    \/ OpsInit      /\ DivIdle /\ GcdIdle /\ ProgIdle /\ DispIdle /\ BackendIdle
    \/ IntegersIdle /\ DivInit /\ GcdIdle /\ ProgIdle /\ DispIdle /\ BackendIdle
    \/ IntegersIdle /\ DivIdle /\ GcdInit /\ ProgIdle /\ DispIdle /\ BackendIdle
    \/ IntegersIdle /\ DivIdle /\ GcdIdle /\ ProgInit /\ DispIdle /\ BackendIdle
    \/ IntegersIdle /\ DivIdle /\ GcdIdle /\ ProgIdle /\ DispInit /\ BackendIdle
    \/ IntegersIdle /\ DivIdle /\ GcdIdle /\ ProgIdle /\ DispIdle /\ BackendInit

IntegersChosen ==
    /\ pair = <<>> /\ job.op = "none" /\ chain.form = "none" /\ field = "none"
    /\ \A t \in Threads : pc[t] = "off"

MCNext ==
    \/ IntegersChosen /\ OpsNext /\ UNCHANGED <<dvars, gvars, pvars, disp, backendVars>>
    \/ Divide      /\ UNCHANGED <<ivars, gvars, pvars, disp, backendVars>>
    \/ GcdNext     /\ UNCHANGED <<ivars, dvars, pvars, disp, backendVars>>
    \/ ProgNext    /\ UNCHANGED <<ivars, dvars, gvars, disp, backendVars>>
    \/ DispNext    /\ UNCHANGED <<ivars, dvars, gvars, pvars, backendVars>>
    \/ BackendNext /\ UNCHANGED <<ivars, dvars, gvars, pvars, disp>>

MCSpec ==
    /\ MCInit /\ [][MCNext]_vars
    /\ WF_vars(GcdNext /\ UNCHANGED <<ivars, dvars, pvars, disp, backendVars>>)

---------------------------------------------------------------------------
(* Properties of the backends.                                             *)

\* Whatever is called on the elements of a backend and in whatever order,
\* every result is the residue it should be, in the form and the range the
\* next kernel counts on, and every answer is about the residue and not
\* about the words it is stored in (FieldCalls, FieldRight).
FieldRight ==
    /\ field = "324 radix"     => P324!Radix!FieldRight
    /\ field = "324 saturated" => P324!Saturated!FieldRight
    /\ field = "500 radix"     => P500!Radix!FieldRight
    /\ field = "500 saturated" => P500!Saturated!FieldRight
    /\ field = "664 radix"     => P664!Radix!FieldRight
    /\ field = "664 saturated" => P664!Saturated!FieldRight

\* The kernels may change between two calls on one element: the assembly and
\* the portable form return the same words, the unreduced top included, on
\* anything a call can hand them.
KernelsAgree ==
    /\ field = "324 saturated" => \A s \in {1, 390} : P324!SameProducts(elt, P324!Saturated!Second(s))
    /\ field = "500 saturated" => P500!SameProducts(elt, P500!Saturated!Second(27648))
    /\ field = "664 saturated" => P664!SameProducts(elt, P664!Saturated!Second(786430))
============================================================================
