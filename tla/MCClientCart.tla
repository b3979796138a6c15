----------------------------- MODULE MCClientCart -----------------------------
(* Instances of ClientCart for TLC.  The calls of a page are alike. *)
EXTENDS ClientCart, TLC

CONSTANTS p1, c1, c2

Alike == Permutations(Call)
=============================================================================
