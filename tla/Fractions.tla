------------------------------ MODULE Fractions ------------------------------
(***************************************************************************)
(* Exact quotients for the code's doubles: a fraction is a record [n, d]   *)
(* with d > 0.                                                             *)
(***************************************************************************)
EXTENDS Integers

Fraction(n, d) == [n |-> n, d |-> d]
Less(a, b) == a.n * b.d < b.n * a.d
AtLeast(a, b) == ~Less(a, b)
Plus(a, b) == Fraction(a.n * b.d + b.n * a.d, a.d * b.d)
=============================================================================
