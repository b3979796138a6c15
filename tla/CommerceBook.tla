---------------------------- MODULE CommerceBook ----------------------------
(* Commerce against the abstract book of deals, which the handlers         *)
(* implement under every interleaving of requests.                         *)
EXTENDS Commerce

DealState == [d \in Deal |->
    IF deal[d] = None THEN "absent"
    ELSE IF deal[d].status = "used" THEN "redeemed"
    ELSE IF deal[d].fresh THEN "open" ELSE "lapsed"]

DealTerms == [d \in Deal |->
    IF deal[d] = None THEN None
    ELSE [customer |-> deal[d].customer, product |-> deal[d].product,
          price |-> deal[d].price]]

DealOrder == [d \in Deal |-> IF deal[d] = None THEN None ELSE deal[d].order]

Book == INSTANCE DealBook WITH Price <- Agreed, state <- DealState,
                               terms <- DealTerms, redeemedBy <- DealOrder

\* However requests of different users overlap, deals are granted one open
\* deal per customer and product and redeemed once, by one order.
BookSpec == Book!Spec
=============================================================================
