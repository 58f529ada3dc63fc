----------------------------- MODULE PrimeField ---------------------------
(***************************************************************************)
(* The field of p elements, p = 3 mod 4, and its extension by a square     *)
(* root i of -1: what trait FpBackend of crates/verify/src/fp/mod.rs is    *)
(* about.  Elements are the integers below p, and pairs of them.           *)
(***************************************************************************)
EXTENDS Integers

CONSTANT P   \* a prime, 3 mod 4, of at most 20 bits

Elements == 0..(P - 1)

Plus(a, b)  == (a + b) % P
Minus(a, b) == (a - b) % P

\* In two parts, the second factor being up to 20 bits.
Times(a, b) == ((((a * (b \div 1024)) % P) * 1024) + a * (b % 1024)) % P

RECURSIVE Power(_, _)
Power(a, n) ==
    IF n = 0 THEN 1
    ELSE LET h == Power(a, n \div 2)
         IN  IF n % 2 = 0 THEN Times(h, h) ELSE Times(a, Times(h, h))

Reciprocal(a) == Power(a, P - 2)
Square(a)     == a = 0 \/ Power(a, (P - 1) \div 2) = 1

Complex(re, im) == [re |-> re, im |-> im]
CPlus(a, b)  == Complex(Plus(a.re, b.re), Plus(a.im, b.im))
CMinus(a, b) == Complex(Minus(a.re, b.re), Minus(a.im, b.im))
CTimes(a, b) == Complex(Minus(Times(a.re, b.re), Times(a.im, b.im)),
                        Plus(Times(a.re, b.im), Times(a.im, b.re)))
Norm(a)      == Plus(Times(a.re, a.re), Times(a.im, a.im))
CReciprocal(a) ==
    LET n == Reciprocal(Norm(a)) IN Complex(Times(a.re, n), Minus(0, Times(a.im, n)))
CSquare(a)   == Square(Norm(a))

RECURSIVE CPower(_, _)
CPower(a, n) == IF n = 0 THEN Complex(1, 0) ELSE CTimes(a, CPower(a, n - 1))
=============================================================================
