------------------------------- MODULE Bargain -------------------------------
(***************************************************************************)
(* Bargaining in one live room: the vendor starts a bargain on a product,  *)
(* customers offer, the vendor counters or accepts one shared price, and   *)
(* customers then buy at it.  bargain_service.py and routes/bargains.py.   *)
(*                                                                         *)
(* A handler loads its rows in one step (Read...) and commits in a later   *)
(* one (Save...); its COMMIT writes only the columns whose value differs   *)
(* from the one it loaded.  It answers with state_payload, which is also   *)
(* what every viewer polls for: the Poll step.                             *)
(* Vendor requests may name any bargain of the vendor's: a page that has   *)
(* not refreshed still shows the previous one.                             *)
(***************************************************************************)
EXTENDS Integers, Sequences, Recency

CONSTANTS
    Customer,
    Desk,            \* vendor requests that can be in flight together
    Product,
    Price,           \* prices people type in
    Terms,           \* prices a bargain may be started with
    None,
    Interrupted,     \* bound: whether the broadcast may stop and come back
    MaxBargains      \* bound: bargains started in this room

ASSUME BargainAssumption ==
    /\ Price \subseteq Nat
    /\ Terms \subseteq [base : Nat, selling : Nat, minVisible : Nat]
    /\ MaxBargains \in Nat /\ Interrupted \in BOOLEAN
    /\ Customer \cap Desk = {}
    /\ None \notin Product \cup Int
    /\ None \notin [price : Nat, status : {"active", "accepted", "closed"}]

VARIABLES
    onAir,      \* live_sessions.status = "live"
    bargain,    \* bargain_sessions of the room, by creation time
    recency,    \* their indices by updated_at, latest last
    offer,      \* bargain_offers: by bargain and customer
    held,       \* a customer's open deal on a product, with its bargain
    req,        \* the request each customer and desk has in flight
    shared,     \* history: prices the vendor has accepted for a bargain
    calm        \* history: no two of these requests have overlapped

vars == <<onAir, bargain, recency, offer, held, shared, req, calm>>

Actor == Customer \cup Desk
Id == 1..Len(bargain)

Current == {"open", "countered", "accepted"}

Row == [product : Product, terms : Terms, status : Current \cup {"closed"},
        counter : Nat \cup {None}, accepted : Nat \cup {None},
        over : BOOLEAN]

OfferRow == [price : Nat, status : {"active", "accepted", "closed"}]

Idle == [at |-> "idle", b |-> None, price |-> None, row |-> None,
         offers |-> None, product |-> None]

TypeOK ==
    /\ onAir \in BOOLEAN
    /\ bargain \in Seq(Row) /\ Len(bargain) <= MaxBargains
    /\ recency \in Seq(Id) /\ Len(recency) = Len(bargain)
    /\ offer \in [1..MaxBargains -> [Customer -> OfferRow \cup {None}]]
    /\ held \in [Customer -> [Product -> [b : Id, price : Nat] \cup {None}]]
    /\ shared \in [1..MaxBargains -> SUBSET Nat]
    /\ calm \in BOOLEAN
    /\ \A a \in Actor :
          /\ req[a].at \in {"idle", "offering", "starting", "accepting",
                            "countering", "closing", "buying"}
          /\ req[a].b \in Id \cup {None}

Init ==
    /\ onAir = TRUE
    /\ bargain = <<>>
    /\ recency = <<>>
    /\ offer = [b \in 1..MaxBargains |-> [c \in Customer |-> None]]
    /\ held = [c \in Customer |-> [p \in Product |-> None]]
    /\ shared = [b \in 1..MaxBargains |-> {}]
    /\ req = [a \in Actor |-> Idle]
    /\ calm = TRUE

Begins(a) ==
    /\ req[a].at = "idle"
    /\ calm' = (calm /\ \A x \in Actor : req[x].at = "idle")

Request(a, r) == req' = [req EXCEPT ![a] = r]
Done(a) == req' = [req EXCEPT ![a] = Idle] /\ UNCHANGED calm

\* A column after a COMMIT that set it to `new` on a row loaded as `loaded`.
Written(new, loaded, now) == IF new = loaded THEN now ELSE new

\* The row of b becomes r; updated_at moves only if the UPDATE is emitted.
Put(b, r, dirty) ==
    /\ bargain' = [bargain EXCEPT ![b] = r]
    /\ recency' = IF dirty THEN Touched(recency, b) ELSE recency

-----------------------------------------------------------------------------
(* active_session_for_live: the newest bargain that has not closed; if its *)
(* time is over it is closed on the spot and the room has none.            *)

CurrentIds == {b \in Id : bargain[b].status \in Current}

Newest == CHOOSE b \in CurrentIds : \A x \in CurrentIds : x <= b

\* The bargain it returns.
Active == IF CurrentIds = {} \/ bargain[Newest].over THEN None ELSE Newest

\* Mutant: only a bargain nobody has answered is closed.
NeedsClosingWhenOpen == /\ CurrentIds # {} /\ bargain[Newest].over
                        /\ bargain[Newest].status = "open"

NeedsClosing == CurrentIds # {} /\ bargain[Newest].over

CloseNewest ==
    /\ NeedsClosing
    /\ Put(Newest, [bargain[Newest] EXCEPT !.status = "closed"], TRUE)

\* state_payload, polled by every viewer and ending every handler.  Its load
\* and its commit are one step: it only ever writes "closed" over a bargain
\* whose time is over.
Poll == CloseNewest /\ UNCHANGED <<onAir, offer, held, shared, req, calm>>

-----------------------------------------------------------------------------
(* start_session.                                                          *)

ValidTerms(t) == t.base >= 1 /\ t.selling >= t.base

\* The least offer a bargain takes: min_visible_offer, at least base_price.
LeastOffer(b) == LET t == bargain[b].terms
                 IN  IF t.minVisible > t.base THEN t.minVisible ELSE t.base

ReadForStart(a, p, t) ==
    /\ Begins(a) /\ Len(bargain) < MaxBargains
    /\ onAir /\ ValidTerms(t)
    /\ Request(a, [Idle EXCEPT !.at = "starting", !.b = Active,
                               !.product = p, !.row = t])
    /\ \/ CloseNewest
       \/ ~NeedsClosing /\ UNCHANGED <<bargain, recency>>
    /\ UNCHANGED <<onAir, offer, held, shared>>

\* One COMMIT closes the bargain found and inserts the new one.
SaveStart(a) ==
    LET b == req[a].b
        new == Len(bargain) + 1
        others == IF b = None THEN recency ELSE Touched(recency, b)
    IN  /\ req[a].at = "starting" /\ new <= MaxBargains
        /\ bargain' = Append(IF b = None THEN bargain
                             ELSE [bargain EXCEPT ![b].status = "closed"],
                             [product |-> req[a].product,
                              terms |-> req[a].row, status |-> "open",
                              counter |-> None, accepted |-> None,
                              over |-> FALSE])
        /\ recency' = Append(others, new)
        /\ Done(a)
        /\ UNCHANGED <<onAir, offer, held, shared>>

-----------------------------------------------------------------------------
(* place_offer.                                                            *)

\* Mutant: an offer may exceed the selling price.
OfferAllowedAbove(b, price) == price >= LeastOffer(b)

OfferAllowed(b, price) == /\ price >= LeastOffer(b)
                          /\ price <= bargain[b].terms.selling

\* Mutant: an offer may join a bargain that has its price.
TakesOffersWhileCurrent(b) == bargain[b].status \in Current

TakesOffers(b) == bargain[b].status \in {"open", "countered"}

ReadForOffer(c, b, price) ==
    /\ Begins(c) /\ TakesOffers(b)
    /\ ~bargain[b].over /\ OfferAllowed(b, price)
    /\ Request(c, [Idle EXCEPT !.at = "offering", !.b = b, !.price = price,
                               !.offers = offer[b][c]])
    /\ UNCHANGED <<onAir, bargain, recency, offer, held, shared>>

\* BARGAIN_EXPIRED: the bargain is closed before the offer is refused.
OfferTooLate(c, b) ==
    /\ Begins(c) /\ TakesOffers(b) /\ bargain[b].over
    /\ Put(b, [bargain[b] EXCEPT !.status = "closed"], TRUE)
    /\ UNCHANGED <<onAir, offer, held, shared, req>>

SaveOffer(c) ==
    LET b == req[c].b
        mine == req[c].offers
    IN  /\ req[c].at = "offering"
        /\ offer' = [offer EXCEPT ![b][c] =
              IF mine = None
                THEN [price |-> req[c].price, status |-> "active"]
                ELSE [price |-> Written(req[c].price, mine.price, @.price),
                      status |-> Written("active", mine.status, @.status)]]
        /\ Done(c)
        /\ UNCHANGED <<onAir, bargain, recency, held, shared>>

-----------------------------------------------------------------------------
(* accept_group, counter_group and close.  None looks at the status.       *)

InRange(b, price) == /\ price >= bargain[b].terms.base
                     /\ price <= bargain[b].terms.selling

\* The columns of a loaded row that decide what the COMMIT writes.
Loaded(b) == [status |-> bargain[b].status, counter |-> bargain[b].counter,
              accepted |-> bargain[b].accepted]

ReadForAccept(a, b, price) ==
    /\ Begins(a) /\ InRange(b, price)
    /\ Request(a, [Idle EXCEPT !.at = "accepting", !.b = b, !.price = price,
                               !.row = Loaded(b), !.offers = offer[b]])
    /\ UNCHANGED <<onAir, bargain, recency, offer, held, shared>>

\* Mutant: offers below the accepted price are accepted as well.
VerdictForAll(o, price) == "accepted"

Verdict(o, price) == IF o.price >= price THEN "accepted" ELSE "closed"

SaveAccept(a) ==
    LET b == req[a].b
        old == req[a].row
        loaded == req[a].offers
    IN  /\ req[a].at = "accepting"
        /\ Put(b, [bargain[b] EXCEPT
                     !.status = Written("accepted", old.status, @),
                     !.accepted = Written(req[a].price, old.accepted, @),
                     !.counter = Written(None, old.counter, @)],
               \/ old.status # "accepted" \/ old.accepted # req[a].price
               \/ old.counter # None)
        /\ offer' = [offer EXCEPT ![b] = [c \in Customer |->
              IF loaded[c] # None /\ loaded[c].status = "active"
                THEN [offer[b][c] EXCEPT
                        !.status = Verdict(loaded[c], req[a].price)]
                ELSE offer[b][c]]]
        /\ shared' = [shared EXCEPT ![b] = @ \cup {req[a].price}]
        /\ Done(a)
        /\ UNCHANGED <<onAir, held>>

ReadForCounter(a, b, price) ==
    /\ Begins(a) /\ InRange(b, price)
    /\ Request(a, [Idle EXCEPT !.at = "countering", !.b = b,
                               !.price = price, !.row = Loaded(b)])
    /\ UNCHANGED <<onAir, bargain, recency, offer, held, shared>>

\* accepted_price is left as it is.
SaveCounter(a) ==
    LET b == req[a].b
        old == req[a].row
    IN  /\ req[a].at = "countering"
        /\ Put(b, [bargain[b] EXCEPT
                     !.status = Written("countered", old.status, @),
                     !.counter = Written(req[a].price, old.counter, @)],
               old.status # "countered" \/ old.counter # req[a].price)
        /\ Done(a)
        /\ UNCHANGED <<onAir, offer, held, shared>>

ReadForClose(a, b) ==
    /\ Begins(a)
    /\ Request(a, [Idle EXCEPT !.at = "closing", !.b = b,
                               !.row = Loaded(b)])
    /\ UNCHANGED <<onAir, bargain, recency, offer, held, shared>>

SaveClose(a) ==
    LET b == req[a].b
        old == req[a].row
    IN  /\ req[a].at = "closing"
        /\ Put(b, [bargain[b] EXCEPT !.status = Written("closed", old.status, @)],
               old.status # "closed")
        /\ Done(a)
        /\ UNCHANGED <<onAir, offer, held, shared>>

-----------------------------------------------------------------------------
(* active_deal_for_product with a live session: the bargain a customer     *)
(* without an open deal buys under, and the deal created from it.          *)

\* Mutant: any bargain of the product that once had a price.
PricedAlways(p) == {b \in Id : /\ bargain[b].product = p
                               /\ bargain[b].status # "open"}

Priced(p) == {b \in Id : /\ bargain[b].product = p
                         /\ bargain[b].status = "accepted"
                         /\ bargain[b].accepted # None}

LastPriced(p) == Latest(recency, Priced(p))

\* The latest updated one counts, even when its time is over.
Buyable(p) == IF onAir /\ Priced(p) # {} /\ ~bargain[LastPriced(p)].over
              THEN LastPriced(p) ELSE None

AgreedPrice(b) == bargain[b].accepted

ReadForDeal(c, p) ==
    /\ Begins(c) /\ held[c][p] = None /\ Buyable(p) # None
    /\ Request(c, [Idle EXCEPT !.at = "buying", !.b = Buyable(p),
                               !.price = AgreedPrice(Buyable(p)),
                               !.product = p])
    /\ UNCHANGED <<onAir, bargain, recency, offer, held, shared>>

SaveDeal(c) ==
    /\ req[c].at = "buying"
    /\ held' = [held EXCEPT ![c][req[c].product] =
                   [b |-> req[c].b, price |-> req[c].price]]
    /\ Done(c)
    /\ UNCHANGED <<onAir, bargain, recency, offer, shared>>

\* An order used the deal, or its fifteen minutes are over.
DealEnds(c, p) ==
    /\ held[c][p] # None
    /\ held' = [held EXCEPT ![c][p] = None]
    /\ UNCHANGED <<onAir, bargain, recency, offer, shared, req, calm>>

-----------------------------------------------------------------------------
(* Time, the broadcast, and requests that die before their commit.         *)

TimeIsOver(b) ==
    /\ ~bargain[b].over
    /\ bargain' = [bargain EXCEPT ![b].over = TRUE]
    /\ UNCHANGED <<onAir, recency, offer, held, shared, req, calm>>

Broadcast ==
    /\ Interrupted /\ onAir' = ~onAir
    /\ UNCHANGED <<bargain, recency, offer, held, shared, req, calm>>

Dies(a) ==
    /\ req[a].at # "idle" /\ Done(a)
    /\ UNCHANGED <<onAir, bargain, recency, offer, held, shared>>

VendorNext(a) ==
    \/ \E p \in Product, t \in Terms : ReadForStart(a, p, t)
    \/ \E b \in Id, price \in Price : \/ ReadForAccept(a, b, price)
                                      \/ ReadForCounter(a, b, price)
    \/ \E b \in Id : ReadForClose(a, b)
    \/ SaveStart(a) \/ SaveAccept(a) \/ SaveCounter(a) \/ SaveClose(a)

CustomerNext(c) ==
    \/ \E b \in Id, price \in Price : ReadForOffer(c, b, price)
    \/ \E b \in Id : OfferTooLate(c, b)
    \/ \E p \in Product : ReadForDeal(c, p) \/ DealEnds(c, p)
    \/ SaveOffer(c) \/ SaveDeal(c)

Next ==
    \/ \E a \in Desk : VendorNext(a)
    \/ \E c \in Customer : CustomerNext(c)
    \/ Poll
    \/ \E b \in Id : TimeIsOver(b)
    \/ Broadcast
    \/ \E a \in Actor : Dies(a)

Spec == Init /\ [][Next]_vars

\* Viewers poll every two seconds while the page is open, and time passes.
Fairness == WF_vars(Poll) /\ \A b \in 1..MaxBargains :
                                WF_vars(b \in Id /\ TimeIsOver(b))

FairSpec == Spec /\ Fairness

-----------------------------------------------------------------------------
(* Properties.                                                             *)

\* No handler lets a price out of the range the vendor opened the bargain
\* with: offers, counters, the accepted price and every deal made from it,
\* whatever overlaps between the check of a price and its commit.
PricesInRange ==
    /\ \A b \in Id :
          /\ bargain[b].terms.base <= bargain[b].terms.selling
          /\ bargain[b].accepted # None => InRange(b, bargain[b].accepted)
          /\ bargain[b].counter # None => InRange(b, bargain[b].counter)
          /\ \A c \in Customer : offer[b][c] # None =>
                /\ offer[b][c].price >= bargain[b].terms.minVisible
                /\ InRange(b, offer[b][c].price)
    /\ \A c \in Customer, p \in Product : held[c][p] # None =>
          InRange(held[c][p].b, held[c][p].price)

\* "The vendor must accept one shared live deal price before customers can
\* buy at the bargain price": a deal is at a price the vendor accepted, for
\* that product, even if the vendor has countered or closed since.
DealsAtSharedPrice ==
    \A c \in Customer, p \in Product : held[c][p] # None =>
        /\ held[c][p].price \in shared[held[c][p].b]
        /\ bargain[held[c][p].b].product = p

\* Accepting a price settles the bargain: no offer is left waiting and no
\* counter is left standing, as long as no requests have overlapped.
AcceptanceSettles ==
    calm => \A b \in Id : bargain[b].status = "accepted" =>
        /\ bargain[b].accepted \in shared[b]
        /\ bargain[b].counter = None
        /\ \A c \in Customer : offer[b][c] # None =>
                                  offer[b][c].status # "active"

\* An offer is told "accepted" only if it reaches a price the vendor
\* accepted, as long as no requests have overlapped.
AcceptedOffersReachPrice ==
    calm => \A b \in Id, c \in Customer :
        offer[b][c] # None /\ offer[b][c].status = "accepted" =>
            \E price \in shared[b] : offer[b][c].price >= price

\* Once the vendor leaves the room's bargains alone, each one whose time is
\* over is closed in the end, although nothing but the next request that
\* happens to look at the room closes it, a request from a stale page may
\* have reopened it, and a newer bargain may hide it.
ExpiredBargainsClose ==
    <>[](\A a \in Desk : req[a].at = "idle") =>
        \A b \in 1..MaxBargains :
            (b \in Id /\ bargain[b].over) ~> (b \in Id /\ bargain[b].status = "closed")

\* What state_payload shows customer c as "Your agreed price".
ShownDeal(c) ==
    IF Active = None THEN None
    ELSE LET mine == held[c][bargain[Active].product]
         IN  IF mine # None /\ mine.b = Active THEN mine.price
             ELSE bargain[Active].accepted

\* What adding the product to the cart charges, None for the list price.
CartPrice(c, p) ==
    IF held[c][p] # None THEN held[c][p].price
    ELSE IF Buyable(p) # None THEN AgreedPrice(Buyable(p)) ELSE None

\* The live room offers "Add agreed deal to cart" at "Your agreed price"
\* only when the cart will charge that price, at the least when no requests
\* have overlapped.
ShownDealIsCharged ==
    calm => \A c \in Customer : onAir /\ ShownDeal(c) # None =>
        CartPrice(c, bargain[Active].product) = ShownDeal(c)
=============================================================================
