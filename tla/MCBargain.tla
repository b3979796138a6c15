------------------------------ MODULE MCBargain ------------------------------
(* Instances of Bargain for TLC. *)
EXTENDS Bargain, TLC

CONSTANTS c1, c2, t1, t2, p1

T(base, selling, minVisible) ==
    [base |-> base, selling |-> selling, minVisible |-> minVisible]

\* A bargain from 1 to 2, one at 1 that takes no offer below 2, and prices in
\* disorder.
NarrowTerms == {T(1, 2, 1), T(1, 1, 2), T(2, 1, 1)}

\* A bargain from 2 to 3.
WideTerms == {T(2, 3, 1)}

PlainTerms == {T(1, 1, 1)}

Symmetric == Permutations(Customer) \cup Permutations(Desk)
=============================================================================
