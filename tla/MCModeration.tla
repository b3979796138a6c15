----------------------------- MODULE MCModeration -----------------------------
(* Instances of Moderation for TLC. *)
EXTENDS Moderation

CONSTANTS t1, t2, a1, a2
=============================================================================
