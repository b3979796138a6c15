------------------------------- MODULE Recency -------------------------------
(***************************************************************************)
(* Rows in the order of a time column, the latest last: a sequence in      *)
(* which each row's index occurs once.  Bargains are ordered by            *)
(* updated_at, live sessions by started_at.                                *)
(***************************************************************************)
EXTENDS Integers, Sequences

\* The order after the time of row b has been set to now.
Touched(s, b) ==
    LET k == CHOOSE i \in DOMAIN s : s[i] = b
    IN  [i \in DOMAIN s |-> IF i < k THEN s[i]
                           ELSE IF i < Len(s) THEN s[i + 1] ELSE b]

Position(s, b) == CHOOSE i \in DOMAIN s : s[i] = b

\* The row that ORDER BY the column DESC returns first.
Latest(s, rows) == CHOOSE b \in rows :
                      \A x \in rows : Position(s, x) <= Position(s, b)
=============================================================================
