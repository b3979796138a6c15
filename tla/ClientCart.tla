------------------------------ MODULE ClientCart ------------------------------
(***************************************************************************)
(* The cart of a customer who is signed in, on a page and on the server:   *)
(* cart-drawer.tsx, the cart page, the buttons that put a product into the *)
(* cart, cart-store.ts, and the statements of cart_service.py.             *)
(*                                                                         *)
(* Commerce has the prices and deals of the rows, for one call at a time;  *)
(* here the calls of a page may overlap, as no button waits for an answer, *)
(* and so may those of two pages that share the store.  A call looks up    *)
(* the cart, or makes it with a COMMIT of its own, looks up the row, and   *)
(* commits; then the cart is looked up again for the answer, which takes   *)
(* the place of what the page shows.  Nothing in the database keeps a      *)
(* second cart of a user, or a second row of a product, from being made.   *)
(***************************************************************************)
EXTENDS Integers

CONSTANTS
    Product,
    Call,          \* calls that can be in flight together
    None,
    MaxQuantity,   \* bound: quantities
    MaxId          \* bound: carts and rows

VARIABLES
    carts,   \* carts, by the order of creation: the table is 1..carts
    row,     \* cart_items
    shown,   \* the cart of the store
    call,    \* what each call does, and where it is
    calm,    \* history: no two calls have overlapped
    asked,   \* history: the quantities the customer clicked together, after a
             \* failure starting from what the page showed next; kept while calm
    lost     \* history: the last change has failed; kept while calm

vars == <<carts, row, shown, call, calm, asked, lost>>

Quantity == 1..MaxQuantity
Row == [id : 1..MaxId, cart : 1..MaxId, product : Product, quantity : Quantity]

ASSUME ClientCartAssumption ==
    /\ MaxQuantity \in Nat \ {0} /\ MaxId \in Nat
    /\ None \notin Product \cup Row \cup Int

Nothing == [p \in Product |-> 0]

Idle == [at |-> "idle", op |-> None, product |-> None, quantity |-> 0,
         cart |-> None, row |-> None, answer |-> {}]

TypeOK ==
    /\ carts \in 0..MaxId
    /\ row \subseteq Row
    /\ shown \subseteq Row
    /\ asked \in [Product -> 0..MaxQuantity]
    /\ \A c \in Call :
          /\ call[c].at \in {"idle", "sent", "making", "found", "saving",
                             "saved", "answered"}
          /\ call[c].answer \subseteq Row
          /\ call[c].row \in Row \cup {None}

Init ==
    /\ carts = 0 /\ row = {} /\ shown = {}
    /\ call = [c \in Call |-> Idle]
    /\ asked = Nothing
    /\ calm = TRUE /\ lost = FALSE

Of(k) == {r \in row : r.cart = k}

\* The rows a query for the product may return one of, None if there is none.
Found(k, p) == LET found == {r \in Of(k) : r.product = p}
               IN  IF found = {} THEN {None} ELSE found

\* An id that no row and no call knows, MaxId + 1 if there is none left.
NewId ==
    LET used == {r.id : r \in row \cup ({call[c].row : c \in Call} \ {None})}
    IN  CHOOSE i \in 1..(MaxId + 1) :
           i \notin used /\ \A j \in 1..(i - 1) : j \in used

\* How many of a product are in a cart that has one row for it at most.
Count(rows, p) == IF \E r \in rows : r.product = p
                    THEN (CHOOSE r \in rows : r.product = p).quantity ELSE 0

Database == <<carts, row>>
Page == <<shown, asked>>
History == <<calm, lost>>

-----------------------------------------------------------------------------
(* The page.                                                               *)

Asks(quantities) == asked' = IF calm' THEN quantities ELSE Nothing

Sends(c, op, p, q) ==
    /\ call[c].at = "idle"
    /\ call' = [call EXCEPT ![c] = [Idle EXCEPT !.at = "sent", !.op = op,
                                       !.product = p, !.quantity = q]]
    /\ calm' = (calm /\ \A d \in Call : call[d].at = "idle")
    /\ lost' = (calm' /\ lost)
    /\ UNCHANGED <<Database, shown>>

\* A cart or checkout page opens: getCart.
Open(c) == Sends(c, "get", None, 0) /\ Asks(asked)

\* "Add to cart" of a product page, a store or a live room.
ClickAdd(c, p, q) ==
    /\ Count(shown, p) + q <= MaxQuantity /\ asked[p] + q <= MaxQuantity
    /\ Sends(c, "add", p, q)
    /\ Asks([asked EXCEPT ![p] = @ + q])

\* "+" and "-" send the quantity shown, changed by one.
ClickStep(c, r, step) ==
    /\ r.quantity + step <= MaxQuantity
    /\ Sends(c, "update", r.product, r.quantity + step)
    /\ Asks([asked EXCEPT ![r.product] = r.quantity + step])

ClickRemove(c, r) ==
    /\ Sends(c, "delete", r.product, 0)
    /\ Asks([asked EXCEPT ![r.product] = 0])

\* Checkout, which ends with cart_service.clear; the order is in Commerce.
ClickPay(c) ==
    /\ shown # {}
    /\ Sends(c, "clear", None, 0)
    /\ Asks(Nothing)

\* The answer of a cart call is what the store has from then on; the page
\* clears the store itself after a checkout.
Receive(c) ==
    /\ call[c].at = "answered"
    /\ shown' = call[c].answer
    /\ call' = [call EXCEPT ![c] = Idle]
    /\ UNCHANGED <<Database, calm>>
    /\ Asks(IF lost THEN [p \in Product |-> Count(call[c].answer, p)]
                    ELSE asked)
    /\ lost' = FALSE

\* A call is refused or dies on the way, or its answer does; a getCart that
\* is answered after its page was left is ignored.  A page shows the error
\* and leaves the cart as it was.
Fail(c) ==
    /\ call[c].at # "idle"
    /\ call' = [call EXCEPT ![c] = Idle]
    /\ lost' = (calm /\ (lost \/ call[c].op # "get"))
    /\ UNCHANGED <<Database, Page, calm>>

-----------------------------------------------------------------------------
(* The server.                                                             *)

\* Mutant: a cart is made for every call.
CartsSeenNever == {}

\* The carts a query for the user's cart may return one of.
CartsSeen == 1..carts

Goes(c, request) == call' = [call EXCEPT ![c] = request]

\* get_or_create_cart.
FindCart(c) ==
    /\ call[c].at = "sent"
    /\ \/ \E k \in CartsSeen : Goes(c, [call[c] EXCEPT !.at = "found",
                                                      !.cart = k])
       \/ CartsSeen = {} /\ Goes(c, [call[c] EXCEPT !.at = "making"])
    /\ UNCHANGED <<Database, Page, History>>

MakeCart(c) ==
    /\ call[c].at = "making" /\ carts < MaxId
    /\ carts' = carts + 1
    /\ Goes(c, [call[c] EXCEPT !.at = "found", !.cart = carts + 1])
    /\ UNCHANGED <<row, Page, History>>

FindRow(c) ==
    /\ call[c].at = "found" /\ call[c].op \in {"add", "update", "delete"}
    /\ \E r \in Found(call[c].cart, call[c].product) :
          Goes(c, [call[c] EXCEPT !.at = "saving", !.row = r])
    /\ UNCHANGED <<Database, Page, History>>

Saves(c, rows) ==
    /\ row' = rows
    /\ Goes(c, [Idle EXCEPT !.at = "saved", !.op = call[c].op])
    /\ UNCHANGED <<carts, Page, History>>

\* A column after a COMMIT that set it to `new` on a row loaded as `loaded`.
Written(new, loaded, now) == IF new = loaded THEN now ELSE new

\* The UPDATE of a row loaded as r fails if that row is gone.
WithQuantity(r, q) ==
    {IF s.id = r.id THEN [s EXCEPT !.quantity = Written(q, r.quantity, @)]
                    ELSE s : s \in row}

IsStill(r) == \E s \in row : s.id = r.id
Without(r) == {s \in row : s.id # r.id}

SaveAdd(c) ==
    LET r == call[c].row
        q == call[c].quantity
    IN  /\ call[c].at = "saving" /\ call[c].op = "add"
        /\ \/ /\ r # None /\ IsStill(r) /\ r.quantity + q <= MaxQuantity
              /\ Saves(c, WithQuantity(r, r.quantity + q))
           \/ /\ r = None /\ NewId <= MaxId
              /\ Saves(c, row \cup
                    {[id |-> NewId, cart |-> call[c].cart,
                      product |-> call[c].product, quantity |-> q]})

\* Mutant: only a negative quantity removes the row.
RemovesBelowZero(q) == q < 0

\* update_item removes a row that is to have nothing in it.
Removes(q) == q <= 0

SaveUpdate(c) ==
    LET r == call[c].row
        q == call[c].quantity
    IN  /\ call[c].at = "saving" /\ call[c].op = "update"
        /\ \/ r = None /\ Saves(c, row)
           \/ r # None /\ Removes(q) /\ Saves(c, Without(r))
           \/ r # None /\ ~Removes(q) /\ IsStill(r)
                 /\ Saves(c, WithQuantity(r, q))

SaveDelete(c) ==
    /\ call[c].at = "saving" /\ call[c].op = "delete"
    /\ Saves(c, IF call[c].row = None THEN row ELSE Without(call[c].row))

\* clear, which loads and deletes the rows of one cart.
SaveClear(c) ==
    /\ call[c].at = "found" /\ call[c].op = "clear"
    /\ row' = row \ Of(call[c].cart)
    /\ Goes(c, [Idle EXCEPT !.at = "answered", !.op = "clear"])
    /\ UNCHANGED <<carts, Page, History>>

\* Mutant: the answer is what was in the cart when it was looked up first.
AnswersUnsaved(c) == call[c].at \in {"found", "saving"} /\ call[c].op # "clear"

\* What is left of a call is its answer.
Answers(c) == \/ call[c].at = "saved"
              \/ call[c].at = "found" /\ call[c].op = "get"

\* list_items; a getCart has looked up the cart already.
List(c) ==
    /\ Answers(c)
    /\ \E k \in IF call[c].op = "get" THEN {call[c].cart} ELSE 1..carts :
          Goes(c, [Idle EXCEPT !.at = "answered", !.op = call[c].op,
                               !.answer = Of(k)])
    /\ UNCHANGED <<Database, Page, History>>

PageNext(c) ==
    \/ Open(c) \/ ClickPay(c) \/ Receive(c) \/ Fail(c)
    \/ \E p \in Product, q \in Quantity : ClickAdd(c, p, q)
    \/ \E r \in shown, step \in {1, -1} : ClickStep(c, r, step)
    \/ \E r \in shown : ClickRemove(c, r)

ServerNext(c) ==
    \/ FindCart(c) \/ MakeCart(c) \/ FindRow(c)
    \/ SaveAdd(c) \/ SaveUpdate(c) \/ SaveDelete(c) \/ SaveClear(c) \/ List(c)

Next == \E c \in Call : PageNext(c) \/ ServerNext(c)

Spec == Init /\ [][Next]_vars

-----------------------------------------------------------------------------
(* Properties.                                                             *)

Quiet == \A c \in Call : call[c].at = "idle"

\* A customer has one cart and a product one row in it, whatever call died
\* between the COMMIT of the cart and the one of the row, as long as no two
\* calls have overlapped.
OneCart ==
    calm => /\ carts <= 1
            /\ \A r, s \in row : r.product = s.product => r = s

\* When every call is over, the page shows what the server has, unless the
\* last change failed on the way, and the next answer puts that right; and the
\* server has what the customer clicked together since then, "-" at one
\* removing the row.  As long as no two calls have overlapped.
PageAgrees ==
    (calm /\ Quiet /\ ~lost) =>
        /\ shown = row
        /\ \A p \in Product : Count(row, p) = asked[p]
=============================================================================
