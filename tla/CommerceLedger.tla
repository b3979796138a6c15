--------------------------- MODULE CommerceLedger ---------------------------
(***************************************************************************)
(* Commerce against the abstract stock ledger, which the handlers          *)
(* implement when requests do not overlap, and only then.                  *)
(***************************************************************************)
EXTENDS CommerceBook, FiniteSetsExt

CONSTANT MaxBasket    \* bound: units of a product one order may sell

ASSUME MaxBasketAssumption == MaxBasket \in Nat

PlacedLines == UNION {{<<o, i>> : i \in DOMAIN orders[o].lines} :
                        o \in {x \in Order : orders[x] # None}}

Sold(p) ==
    LET at(x) == orders[x[1]].lines[x[2]]
    IN  MapThenSumSet(LAMBDA x : at(x).quantity,
                      {x \in PlacedLines : at(x).product = p})

SoldNow == [p \in Product |-> Sold(p)]

Ledger == INSTANCE StockLedger WITH onHand <- stock, sold <- SoldNow

\* With one request at a time the handlers implement the ledger: an order's
\* units, summed over all its lines, were on hand and leave the stock; and
\* the stock changes otherwise only by a vendor's edit or delete.
LedgerSpec == Ledger!Spec

\* An order takes what it sells out of the stock it was checked against, so
\* a unit is never sold twice ("{product.title} is out of stock.").
SalesComeOutOfStock ==
    [][\A p \in Product :
          SoldNow'[p] > SoldNow[p]
             => stock'[p] = stock[p] - (SoldNow'[p] - SoldNow[p])]_vars
=============================================================================
