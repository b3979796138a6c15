---------------------------- MODULE StockLedger ----------------------------
(* What product stock promises: a sale takes a basket out of what is on    *)
(* hand and never more than that; a vendor sets what is on hand.           *)
EXTENDS Integers

CONSTANTS Product, InitialStock, StockInput, MaxBasket

VARIABLES onHand, sold

vars == <<onHand, sold>>

Init ==
    /\ onHand = InitialStock
    /\ sold = [p \in Product |-> 0]

Sell(basket) ==
    /\ \A p \in Product : basket[p] <= onHand[p]
    /\ onHand' = [p \in Product |-> onHand[p] - basket[p]]
    /\ sold' = [p \in Product |-> sold[p] + basket[p]]

SetStock(p, n) ==
    /\ onHand' = [onHand EXCEPT ![p] = n]
    /\ UNCHANGED sold

Next ==
    \/ \E basket \in [Product -> 0..MaxBasket] : Sell(basket)
    \/ \E p \in Product, n \in StockInput \cup {0} : SetStock(p, n)

Spec == Init /\ [][Next]_vars
=============================================================================
