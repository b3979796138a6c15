---------------------------- MODULE MCOneTimeCode ----------------------------
(* Instances of OneTimeCode for TLC. *)
EXTENDS OneTimeCode

CONSTANTS t1, t2
=============================================================================
