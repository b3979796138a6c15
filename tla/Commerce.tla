------------------------------ MODULE Commerce ------------------------------
(***************************************************************************)
(* The money path of the shop: product stock, carts, one-off bargain deals *)
(* and checkout, as the FastAPI handlers run them.                         *)
(*                                                                         *)
(* Every handler is a plain `def`, so requests run in parallel on a thread *)
(* pool, each with a SQLAlchemy session of its own (autoflush off, READ    *)
(* COMMITTED, no row locks, no version columns).  A request is therefore   *)
(* a few steps: SELECTs, work on the loaded objects, and a COMMIT that     *)
(* writes the changed columns as literals.  `job` holds what a customer's  *)
(* request has loaded so far, `edit` what a vendor's request has loaded.   *)
(* Each customer has one request in flight at a time (the browser awaits   *)
(* each call); different users overlap freely unless SerialRequests holds. *)
(***************************************************************************)
EXTENDS Integers, Sequences

CONSTANTS
    Customer, Vendor, Product, Deal, Order,
    None,             \* a NULL column, an absent row, "nothing loaded"
    VendorOf,         \* [Product -> Vendor]
    InitialTag,       \* [Product -> TagRow]
    TagInput,         \* price tags a vendor may type in
    Rate,             \* [Vendor -> percentage], vendors.commission_rate
    Agreed,           \* prices a bargain may be accepted at
    Quantity,         \* quantities a request may carry
    StockInput,       \* stock values a vendor may type in
    VendorOp,         \* product operations vendors use: "update", "delete"
    Suspendable,      \* vendors whose status an admin changes
    Payload,          \* checkout payloads: non-empty sequences of PayloadLine
    InitialStock,     \* [Product -> Nat]
    MaxInCart,        \* bound: quantity of one cart row
    SerialRequests    \* TRUE: the server runs one request at a time

PayloadLine == [product : Product, quantity : Quantity]

\* products.price and products.courier_charge.
TagRow == [price : Nat, courier : Nat]

ASSUME CommerceAssumption ==
    /\ VendorOf \in [Product -> Vendor]
    /\ InitialTag \in [Product -> TagRow]
    /\ TagInput \subseteq TagRow
    /\ Rate \in [Vendor -> 0..100]
    /\ Agreed \subseteq Nat
    /\ Quantity \subseteq Nat \ {0}
    /\ StockInput \subseteq Nat
    /\ VendorOp \subseteq {"update", "delete"}
    /\ Suspendable \subseteq Vendor
    /\ Payload \subseteq Seq(PayloadLine) \ {<<>>}
    /\ InitialStock \in [Product -> Nat]
    /\ MaxInCart \in Nat
    /\ SerialRequests \in BOOLEAN
    /\ None \notin Deal \cup Order \cup Product \cup Int

VARIABLES
    active,      \* products.status = "active"
    stock,       \* products.stock
    tag,         \* the price tag of a product
    asked,       \* history: the prices a product has been listed at
    approved,    \* vendors.status = "approved"
    offer,       \* price of the accepted, running live bargain on a product
    deal,        \* bargain_deals
    cart,        \* cart_items of the customer's cart
    orders,      \* orders with their order_items
    job,         \* the request each customer has in flight
    edit         \* the product edit in flight, with the row it loaded

store == <<active, stock, tag, asked, approved, offer, deal, cart, orders>>
vars == <<active, stock, tag, asked, approved, offer, deal, cart, orders, job,
          edit>>

-----------------------------------------------------------------------------
Line == [product : Product, quantity : Quantity, price : Nat,
         deal : Deal \cup {None}]

DealRow == [customer : Customer, product : Product, price : Agreed,
            status : {"accepted", "used"}, fresh : BOOLEAN,
            order : Order \cup {None}]

CartRow == [quantity : Nat \ {0}, deal : Deal \cup {None}]

OrderRow == [customer : Customer, lines : Seq(Line), total : Nat,
             courier : Nat, commission : Nat, payout : Int]

JobRow == [at : {"idle", "adding", "priced", "ordering", "clearing"},
           product : Product \cup {None}, quantity : Quantity \cup {None},
           live : BOOLEAN, deal : Deal \cup {None},
           order : Order \cup {None}, todo : Seq(PayloadLine),
           seen : [Product -> Int \cup {None}],
           tags : [Product -> TagRow], lines : Seq(Line),
           total : Nat, courier : Nat, commission : Nat]

EditRow == [op : {"update", "delete"}, active : BOOLEAN, stock : Int,
            tag : TagRow]

ASSUME NoneIsNoRow ==
    /\ None \notin DealRow /\ None \notin CartRow
    /\ None \notin OrderRow /\ None \notin EditRow

Idle == [at |-> "idle", product |-> None, quantity |-> None, live |-> FALSE,
         deal |-> None, order |-> None, todo |-> <<>>,
         seen |-> [p \in Product |-> None], tags |-> InitialTag,
         lines |-> <<>>, total |-> 0, courier |-> 0,
         commission |-> 0]

TypeOK ==
    /\ active \in [Product -> BOOLEAN]
    /\ stock \in [Product -> Int]
    /\ tag \in [Product -> TagRow]
    /\ asked \in [Product -> SUBSET Nat]
    /\ approved \in [Vendor -> BOOLEAN]
    /\ offer \in [Product -> Agreed \cup {None}]
    /\ deal \in [Deal -> DealRow \cup {None}]
    /\ cart \in [Customer -> [Product -> CartRow \cup {None}]]
    /\ orders \in [Order -> OrderRow \cup {None}]
    /\ job \in [Customer -> JobRow]
    /\ \A c \in Customer :
          /\ job[c].at \in {"adding", "priced"} => /\ job[c].product # None
                                                 /\ job[c].quantity # None
          /\ job[c].at = "ordering" => job[c].order # None
    /\ edit \in [Product -> EditRow \cup {None}]

Init ==
    /\ active = [p \in Product |-> TRUE]
    /\ stock = InitialStock
    /\ tag = InitialTag
    /\ asked = [p \in Product |-> {InitialTag[p].price}]
    /\ approved = [v \in Vendor |-> TRUE]
    /\ offer = [p \in Product |-> None]
    /\ deal = [d \in Deal |-> None]
    /\ cart = [c \in Customer |-> [p \in Product |-> None]]
    /\ orders = [o \in Order |-> None]
    /\ job = [c \in Customer |-> Idle]
    /\ edit = [p \in Product |-> None]

\* May the server take another request now?
Admit == SerialRequests => /\ \A c \in Customer : job[c].at = "idle"
                           /\ \A p \in Product : edit[p] = None

Begins(c) == job[c].at = "idle" /\ Admit

-----------------------------------------------------------------------------
(* Deals.  A deal is open while it is accepted and not past expires_at     *)
(* (`fresh`); created on demand when a customer adds a product whose live  *)
(* bargain has been accepted.                                              *)

\* Mutant: a used deal still counts until it expires.
IsOpenEvenUsed(d) == deal[d] # None /\ deal[d].fresh

IsOpen(d) == deal[d] # None /\ deal[d].status = "accepted" /\ deal[d].fresh

\* Mutants: any customer's deal; only a deal at the bargain's present price.
OpenDealsOfAnyone(c, p) == {d \in Deal : IsOpen(d) /\ deal[d].product = p}
OpenDealsAtPrice(c, p) == {d \in Deal : IsOpen(d) /\ deal[d].customer = c
                                                 /\ deal[d].product = p
                                                 /\ deal[d].price = offer[p]}

OpenDeals(c, p) == {d \in Deal : IsOpen(d) /\ deal[d].customer = c
                                           /\ deal[d].product = p}

\* Mutant: the deal is stored under the status of a bargain session.
NewDealOpen(c, p) == [customer |-> c, product |-> p, price |-> offer[p],
                      status |-> "open", fresh |-> TRUE, order |-> None]

NewDeal(c, p) == [customer |-> c, product |-> p, price |-> offer[p],
                  status |-> "accepted", fresh |-> TRUE, order |-> None]

InCatalog(p, q) == active[p] /\ stock[p] >= q

(* add_item: the product checks.                                           *)
AddItem(c, p, q, live) ==
    /\ Begins(c)
    /\ InCatalog(p, q)
    /\ cart[c][p] # None => cart[c][p].quantity + q <= MaxInCart
    /\ job' = [job EXCEPT ![c] = [Idle EXCEPT !.at = "adding", !.product = p,
                                              !.quantity = q, !.live = live]]
    /\ UNCHANGED <<store, edit>>

(* active_deal_for_product: the customer's open deal, or a new one at the  *)
(* price of the live bargain, committed on its own; or none.               *)
FindDeal(c) ==
    LET p == job[c].product
    IN  /\ job[c].at = "adding"
        /\ \/ \E d \in OpenDeals(c, p) :
                /\ job' = [job EXCEPT ![c].at = "priced", ![c].deal = d]
                /\ UNCHANGED deal
           \/ /\ OpenDeals(c, p) = {}
              /\ job[c].live /\ offer[p] # None
              /\ \E d \in Deal :
                   /\ deal[d] = None
                   /\ deal' = [deal EXCEPT ![d] = NewDeal(c, p)]
                   /\ job' = [job EXCEPT ![c].at = "priced", ![c].deal = d]
           \/ /\ OpenDeals(c, p) = {}
              /\ ~(job[c].live /\ offer[p] # None)
              /\ job' = [job EXCEPT ![c].at = "priced"]
              /\ UNCHANGED deal
        /\ UNCHANGED <<active, stock, tag, asked, approved, offer, cart,
                       orders, edit>>

(* add_item: the cart row is inserted or its quantity raised.  The deal of *)
(* an existing row is replaced only when a deal was found.                 *)
SaveRow(c) ==
    LET p == job[c].product
        old == cart[c][p]
    IN  /\ job[c].at = "priced"
        /\ cart' = [cart EXCEPT ![c][p] =
              [quantity |-> job[c].quantity
                              + (IF old = None THEN 0 ELSE old.quantity),
               deal |-> IF old # None /\ job[c].deal = None
                          THEN old.deal ELSE job[c].deal]]
        /\ job' = [job EXCEPT ![c] = Idle]
        /\ UNCHANGED <<active, stock, tag, asked, approved, offer, deal,
                       orders, edit>>

(* update_item and delete_item.  No stock check is made here.              *)
UpdateItem(c, p, q) ==
    /\ Begins(c) /\ cart[c][p] # None /\ q <= MaxInCart
    /\ cart' = [cart EXCEPT ![c][p].quantity = q]
    /\ UNCHANGED <<active, stock, tag, asked, approved, offer, deal, orders,
                   job, edit>>

DeleteItem(c, p) ==
    /\ Begins(c) /\ cart[c][p] # None
    /\ cart' = [cart EXCEPT ![c][p] = None]
    /\ UNCHANGED <<active, stock, tag, asked, approved, offer, deal, orders,
                   job, edit>>

-----------------------------------------------------------------------------
(* Checkout.  The order id is drawn first; each line of the payload loads  *)
(* its product once (the identity map keeps the decremented object), its   *)
(* vendor once, and queries the deal in the database every time.           *)

\* Mutant: an id another request has drawn is drawn again.
FreshOrderWhenPlaced(o) == orders[o] = None

FreshOrder(o) == orders[o] = None /\ \A c \in Customer : job[c].order # o

Checkout(c, payload) ==
    /\ Begins(c)
    /\ \E o \in Order :
         /\ FreshOrder(o)
         /\ job' = [job EXCEPT ![c] = [Idle EXCEPT !.at = "ordering",
                                                   !.order = o,
                                                   !.todo = payload]]
    /\ UNCHANGED <<store, edit>>

Loaded(c, p) == job[c].seen[p] # None

\* Mutant: every line reads the stock column afresh.
OnHandInDatabase(c, p) == stock[p]

OnHand(c, p) == IF Loaded(c, p) THEN job[c].seen[p] ELSE stock[p]

TagOf(c, p) == IF Loaded(c, p) THEN job[c].tags[p] ELSE tag[p]

\* The vendor object of the line just sold is still held by the loop.
VendorOk(c, v) ==
    LET lines == job[c].lines
    IN  \/ approved[v]
        \/ lines # <<>> /\ VendorOf[lines[Len(lines)].product] = v

\* Mutant: stock is checked against the database, not the loaded product.
CanSellFromDatabase(c, l) == /\ Loaded(c, l.product) \/ active[l.product]
                             /\ VendorOk(c, VendorOf[l.product])
                             /\ stock[l.product] >= l.quantity

CanSell(c, l) == /\ Loaded(c, l.product) \/ active[l.product]
                 /\ VendorOk(c, VendorOf[l.product])
                 /\ OnHand(c, l.product) >= l.quantity

Commission(amount, v) == (amount * Rate[v]) \div 100

UnitPrice(c, p, d) == IF d = None THEN TagOf(c, p).price ELSE deal[d].price

\* The request after one more turn of the loop, selling l under deal d.
WithLine(c, l, d) ==
    LET p == l.product
        amount == UnitPrice(c, p, d) * l.quantity
        line == [product |-> p, quantity |-> l.quantity,
                 price |-> UnitPrice(c, p, d), deal |-> d]
    IN  [job[c] EXCEPT
           !.todo = Tail(@),
           !.seen = [@ EXCEPT ![p] = OnHand(c, p) - l.quantity],
           !.tags = [@ EXCEPT ![p] = TagOf(c, p)],
           !.lines = Append(@, line),
           !.total = @ + amount,
           !.courier = @ + TagOf(c, p).courier,
           !.commission = @ + Commission(amount, VendorOf[p])]

\* The deal the loop's query may return for product p.
DealFor(c, p) == IF OpenDeals(c, p) = {} THEN {None} ELSE OpenDeals(c, p)

SellLine(c) ==
    /\ job[c].at = "ordering" /\ job[c].todo # <<>>
    /\ LET l == Head(job[c].todo)
       IN  /\ CanSell(c, l)
           /\ \E d \in DealFor(c, l.product) :
                job' = [job EXCEPT ![c] = WithLine(c, l, d)]
    /\ UNCHANGED <<store, edit>>

\* HTTPException in the loop: the session is closed, nothing was written.
RejectLine(c) ==
    /\ job[c].at = "ordering" /\ job[c].todo # <<>>
    /\ ~CanSell(c, Head(job[c].todo))
    /\ job' = [job EXCEPT ![c] = Idle]
    /\ UNCHANGED <<store, edit>>

\* Mutant: only the deal of the last line is marked used.
DealsInLast(lines) == {lines[Len(lines)].deal} \ {None}

DealsIn(lines) == {lines[i].deal : i \in DOMAIN lines} \ {None}

\* Mutant: the courier charge is paid out to the vendor.
OrderOfPayingCourier(c) ==
    [customer |-> c, lines |-> job[c].lines,
     total |-> job[c].total + job[c].courier, courier |-> job[c].courier,
     commission |-> job[c].commission,
     payout |-> job[c].total + job[c].courier - job[c].commission]

OrderOf(c) ==
    [customer |-> c, lines |-> job[c].lines,
     total |-> job[c].total + job[c].courier, courier |-> job[c].courier,
     commission |-> job[c].commission,
     payout |-> job[c].total - job[c].commission]

(* The first commit: order, lines and payment are inserted, the decremented *)
(* stock is written as a literal and the deals become "used".              *)
PlaceOrder(c) ==
    LET o == job[c].order
    IN  /\ job[c].at = "ordering" /\ job[c].todo = <<>>
        /\ orders' = [orders EXCEPT ![o] = OrderOf(c)]
        /\ stock' = [p \in Product |-> OnHand(c, p)]
        /\ deal' = [d \in Deal |-> IF d \in DealsIn(job[c].lines)
                      THEN [deal[d] EXCEPT !.status = "used", !.order = o]
                      ELSE deal[d]]
        /\ job' = [job EXCEPT ![c] = [Idle EXCEPT !.at = "clearing"]]
        /\ UNCHANGED <<active, tag, asked, approved, offer, cart, edit>>

(* The second commit: every row of the customer's cart is deleted.         *)
ClearCart(c) ==
    /\ job[c].at = "clearing"
    /\ cart' = [cart EXCEPT ![c] = [p \in Product |-> None]]
    /\ job' = [job EXCEPT ![c] = Idle]
    /\ UNCHANGED <<active, stock, tag, asked, approved, offer, deal, orders,
                   edit>>

-----------------------------------------------------------------------------
(* The vendor's side.  A COMMIT writes only columns whose new value        *)
(* differs from the one loaded: Written is the column after it.            *)

Written(new, loaded, current) == IF new = loaded THEN current ELSE new

WrittenTag(new, loaded, current) ==
    [price |-> Written(new.price, loaded.price, current.price),
     courier |-> Written(new.courier, loaded.courier, current.courier)]

LoadProduct(p, op) ==
    /\ Admit /\ edit[p] = None /\ approved[VendorOf[p]]
    /\ edit' = [edit EXCEPT ![p] = [op |-> op, active |-> active[p],
                                    stock |-> stock[p], tag |-> tag[p]]]
    /\ UNCHANGED <<store, job>>

\* Fields left out of the payload keep the loaded value.
UpdateProduct(p) ==
    /\ edit[p] # None /\ edit[p].op = "update"
    /\ \E n \in StockInput \cup {edit[p].stock}, on \in BOOLEAN,
          t \in TagInput \cup {edit[p].tag} :
         /\ stock' = [stock EXCEPT ![p] = Written(n, edit[p].stock, @)]
         /\ active' = [active EXCEPT ![p] = Written(on, edit[p].active, @)]
         /\ tag' = [tag EXCEPT ![p] = WrittenTag(t, edit[p].tag, @)]
    /\ asked' = [asked EXCEPT ![p] = @ \cup {tag'[p].price}]
    /\ edit' = [edit EXCEPT ![p] = None]
    /\ UNCHANGED <<approved, offer, deal, cart, orders, job>>

DeleteProduct(p) ==
    /\ edit[p] # None /\ edit[p].op = "delete"
    /\ cart' = [c \in Customer |-> [cart[c] EXCEPT ![p] = None]]
    /\ stock' = [stock EXCEPT ![p] = Written(0, edit[p].stock, @)]
    /\ active' = [active EXCEPT ![p] = Written(FALSE, edit[p].active, @)]
    /\ edit' = [edit EXCEPT ![p] = None]
    /\ UNCHANGED <<tag, asked, approved, offer, deal, orders, job>>

-----------------------------------------------------------------------------
(* The rest of the system: an admin approves or suspends a vendor, the     *)
(* bargain component accepts, reprices or closes a live bargain, fifteen   *)
(* minutes pass, the server process restarts.                              *)

SetVendorStatus(v) ==
    /\ Admit
    /\ approved' = [approved EXCEPT ![v] = ~@]
    /\ UNCHANGED <<active, stock, tag, asked, offer, deal, cart, orders, job,
                   edit>>

BargainMoves(p) ==
    /\ \E a \in Agreed \cup {None} : offer' = [offer EXCEPT ![p] = a]
    /\ UNCHANGED <<active, stock, tag, asked, approved, deal, cart, orders,
                   job, edit>>

DealExpires(d) ==
    /\ IsOpen(d)
    /\ deal' = [deal EXCEPT ![d].fresh = FALSE]
    /\ UNCHANGED <<active, stock, tag, asked, approved, offer, cart, orders,
                   job, edit>>

Restart ==
    /\ job' = [c \in Customer |-> Idle]
    /\ edit' = [p \in Product |-> None]
    /\ UNCHANGED store

CustomerNext(c) ==
    \/ \E p \in Product, q \in Quantity, live \in BOOLEAN :
          AddItem(c, p, q, live)
    \/ FindDeal(c)
    \/ SaveRow(c)
    \/ \E p \in Product, q \in Quantity : UpdateItem(c, p, q)
    \/ \E p \in Product : DeleteItem(c, p)
    \/ \E payload \in Payload : Checkout(c, payload)
    \/ SellLine(c)
    \/ RejectLine(c)
    \/ PlaceOrder(c)
    \/ ClearCart(c)

VendorNext(p) ==
    \/ \E op \in VendorOp : LoadProduct(p, op)
    \/ UpdateProduct(p)
    \/ DeleteProduct(p)

Environment ==
    \/ \E v \in Suspendable : SetVendorStatus(v)
    \/ \E p \in Product : BargainMoves(p)
    \/ \E d \in Deal : DealExpires(d)
    \/ Restart

Next == \/ \E c \in Customer : CustomerNext(c)
        \/ \E p \in Product : VendorNext(p)
        \/ Environment

Spec == Init /\ [][Next]_vars

-----------------------------------------------------------------------------
(* What a checkout relies on between its steps: the order id it drew is    *)
(* its own and still unused, and every deal it has priced a line with is   *)
(* still unspent, its customer's, and worth that price; the other lines    *)
(* have a price the product was listed at.                                 *)

Covered(c, l) ==
    IF l.deal = None
      THEN l.price \in asked[l.product]
      ELSE /\ deal[l.deal] # None
           /\ deal[l.deal].status = "accepted"
           /\ deal[l.deal].customer = c
           /\ deal[l.deal].product = l.product
           /\ deal[l.deal].price = l.price

\* The parts about the id, the lines, and the price tags it has loaded.
OwnOrderId(c) ==
    /\ job[c].at # "ordering" => job[c].lines = <<>> /\ job[c].order = None
    /\ job[c].order # None =>
          /\ orders[job[c].order] = None
          /\ \A b \in Customer : job[b].order = job[c].order => b = c

LinesCovered(c) == \A i \in DOMAIN job[c].lines : Covered(c, job[c].lines[i])

PricesKnown ==
    \A p \in Product : /\ tag[p].price \in asked[p]
                       /\ \A c \in Customer : job[c].tags[p].price \in asked[p]

CheckoutConsistent ==
    /\ \A c \in Customer : OwnOrderId(c) /\ LinesCovered(c)
    /\ PricesKnown

-----------------------------------------------------------------------------
(* Properties.                                                             *)

\* The stock column never goes below zero: a checkout writes what it loaded
\* minus what it checked against it (order_service.create_order), however
\* many checkouts and product edits overlap.
StockNeverNegative == \A p \in Product : stock[p] >= 0

Settled(d) ==
    IF deal[d].status = "used"
      THEN LET o == deal[d].order
           IN  /\ o # None
               /\ orders[o] # None
               /\ orders[o].customer = deal[d].customer
               /\ \E i \in DOMAIN orders[o].lines :
                    /\ orders[o].lines[i].deal = d
                    /\ orders[o].lines[i].product = deal[d].product
                    /\ orders[o].lines[i].price = deal[d].price
      ELSE deal[d].order = None

\* A deal marked "used" names an order of its own customer that really has a
\* line of its product at the agreed price, although the order row, the line
\* and the deal are written from objects loaded earlier; and a deal that is
\* still "accepted" names no order.
UsedDealsAreSettled == \A d \in Deal : deal[d] # None => Settled(d)

Paid(o, l) ==
    IF l.deal = None
      THEN l.price \in asked[l.product]
      ELSE /\ deal[l.deal] # None
           /\ deal[l.deal].status = "used"
           /\ deal[l.deal].order = o
           /\ deal[l.deal].customer = orders[o].customer
           /\ deal[l.deal].product = l.product
           /\ deal[l.deal].price = l.price

\* Nobody pays another customer's price, another product's price or a price
\* that was already spent: a line at a price the product was never listed at
\* is covered by a deal of the order's customer for that product and price,
\* used by this very order.
LinesPricedFairly ==
    \A o \in Order : orders[o] # None =>
        \A i \in DOMAIN orders[o].lines : Paid(o, orders[o].lines[i])

\* active_deal_for_product hands out the open deal before it creates one, so
\* a customer never holds two open deals on a product.
OneOpenDeal ==
    \A d, e \in Deal :
        (/\ IsOpen(d) /\ IsOpen(e)
         /\ deal[d].customer = deal[e].customer
         /\ deal[d].product = deal[e].product) => d = e

\* The money of an order is conserved: what the customer pays is the
\* vendors' payout, the platform's commission and the courier charge, and
\* the commission never exceeds the goods (create_order adds the four up in
\* running totals, line by line, rounding each commission down).
MoneyConserved ==
    \A o \in Order : orders[o] # None =>
        /\ orders[o].total = orders[o].payout + orders[o].commission
                               + orders[o].courier
        /\ orders[o].payout >= 0

\* A cart row only ever carries a deal of its own customer and product.
CartDealsAreOwn ==
    \A c \in Customer, p \in Product :
        cart[c][p] # None /\ cart[c][p].deal # None =>
            /\ deal[cart[c][p].deal] # None
            /\ deal[cart[c][p].deal].customer = c
            /\ deal[cart[c][p].deal].product = p

\* A deal is spent once: neither its order nor its terms change afterwards,
\* and a placed order is never rewritten by a later checkout.
SpentOnce ==
    [][/\ \A d \in Deal : deal[d] # None /\ deal[d].status = "used"
                             => /\ deal'[d].status = "used"
                                /\ deal'[d].order = deal[d].order
                                /\ deal'[d].price = deal[d].price
       /\ \A o \in Order : orders[o] # None => orders'[o] = orders[o]]_vars
=============================================================================
