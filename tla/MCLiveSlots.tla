----------------------------- MODULE MCLiveSlots -----------------------------
(* Instances of LiveSlots for TLC. *)
EXTENDS LiveSlots

CONSTANTS t1, a1, p1, p2

W(start, end) == [start |-> start, end |-> end]

\* Two that meet, one across them, and one that ends before it starts.
Windows == {W(0, 2), W(2, 4), W(1, 3), W(3, 2)}
=============================================================================
