----------------------------- MODULE MCLiveFloor -----------------------------
(* Instances of LiveFloor for TLC. *)
EXTENDS LiveFloor

CONSTANTS e1, e2, s1, s2, v1, v2, a1

\* One stall in each of two exhibitions; two stalls in one.
Apart == [s \in Stall |-> IF s = s1 THEN e1 ELSE e2]
Together == [s \in Stall |-> e1]
=============================================================================
