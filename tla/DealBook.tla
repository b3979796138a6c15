------------------------------ MODULE DealBook ------------------------------
(* What a one-off bargain price promises its customer and the vendor: it   *)
(* is granted once, the customer holds at most one open deal per product,  *)
(* it may lapse, and one order of that customer redeems it, for good.  A   *)
(* deal that was open when the order was priced may still be redeemed if   *)
(* it lapses before the order is written.                                  *)
CONSTANTS Customer, Product, Price, Deal, Order, None

Terms == [customer : Customer, product : Product, price : Price]

VARIABLES
    state,       \* "absent" -> "open" -> ("lapsed") -> "redeemed"
    terms,       \* what was agreed, None while absent
    redeemedBy   \* the order that used the deal

vars == <<state, terms, redeemedBy>>

Init ==
    /\ state = [d \in Deal |-> "absent"]
    /\ terms = [d \in Deal |-> None]
    /\ redeemedBy = [d \in Deal |-> None]

Grant(d, t) ==
    /\ state[d] = "absent"
    /\ \A e \in Deal : state[e] = "open" =>
          <<terms[e].customer, terms[e].product>> # <<t.customer, t.product>>
    /\ state' = [state EXCEPT ![d] = "open"]
    /\ terms' = [terms EXCEPT ![d] = t]
    /\ UNCHANGED redeemedBy

Lapse(d) ==
    /\ state[d] = "open"
    /\ state' = [state EXCEPT ![d] = "lapsed"]
    /\ UNCHANGED <<terms, redeemedBy>>

Redeem(o, c, D) ==
    /\ \A d \in Deal : redeemedBy[d] # o
    /\ \A d \in D : state[d] \in {"open", "lapsed"} /\ terms[d].customer = c
    /\ state' = [d \in Deal |-> IF d \in D THEN "redeemed" ELSE state[d]]
    /\ redeemedBy' = [d \in Deal |-> IF d \in D THEN o ELSE redeemedBy[d]]
    /\ UNCHANGED terms

Next ==
    \/ \E d \in Deal, t \in Terms : Grant(d, t)
    \/ \E d \in Deal : Lapse(d)
    \/ \E o \in Order, c \in Customer, D \in SUBSET Deal : Redeem(o, c, D)

Spec == Init /\ [][Next]_vars
=============================================================================
