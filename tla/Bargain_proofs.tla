---------------------------- MODULE Bargain_proofs ----------------------------
(* Theorems about Bargain, for every value of its constants. *)
EXTENDS Bargain, Recency_proofs

-----------------------------------------------------------------------------
(* The invariant.                                                          *)

\* The columns that a vendor's request has loaded, a deal, and the shape of a
\* request.
Columns == [status : Current \cup {"closed"}, counter : Nat \cup {None},
            accepted : Nat \cup {None}]

Deal == [b : Nat, price : Nat]

Offers == [Customer -> OfferRow \cup {None}]

Requests ==
    [at : {"idle", "offering", "starting", "accepting", "countering",
           "closing", "buying"},
     b : Nat \cup {None}, price : Nat \cup {None},
     row : Terms \cup Columns \cup {None},
     offers : OfferRow \cup {None} \cup Offers, product : Product \cup {None}]

TypeInv ==
    /\ onAir \in BOOLEAN /\ calm \in BOOLEAN
    /\ bargain \in Seq(Row) /\ Len(bargain) <= MaxBargains
    /\ Ordered(recency, Len(bargain))
    /\ offer \in [1..MaxBargains -> Offers]
    /\ held \in [Customer -> [Product -> Deal \cup {None}]]
    /\ shared \in [1..MaxBargains -> SUBSET Nat]
    /\ req \in [Actor -> Requests]

\* What the request r of an actor has checked, and that an offer it has loaded
\* is still there.
Fits(a, r) ==
    /\ r.b \in Id \cup {None}
    /\ r.at \notin {"idle", "starting"} => r.b \in Id
    /\ r.at \in {"offering", "accepting", "countering", "buying"} =>
          r.price \in Nat /\ InRange(r.b, r.price)
    /\ r.at = "offering" =>
          /\ a \in Customer /\ r.price >= bargain[r.b].terms.minVisible
          /\ r.offers \in OfferRow \cup {None}
          /\ r.offers # None => offer[r.b][a] \in OfferRow
    /\ r.at = "accepting" =>
          /\ r.offers \in Offers
          /\ \A c \in Customer : r.offers[c] # None =>
                                    offer[r.b][c] \in OfferRow
    /\ r.at \in {"accepting", "countering", "closing"} => r.row \in Columns
    /\ r.at = "starting" =>
          /\ r.product \in Product /\ r.row \in Terms
          /\ r.row.base <= r.row.selling
    /\ r.at = "buying" =>
          /\ a \in Customer /\ r.product \in Product
          /\ bargain[r.b].product = r.product
          /\ r.price \in shared[r.b]

\* Prices of a bargain are in its range, and the vendor accepted the accepted
\* one.
BargainFits(b) ==
    LET r == bargain[b]
    IN  /\ r.terms.base <= r.terms.selling
        /\ r.accepted # None => InRange(b, r.accepted) /\ r.accepted \in shared[b]
        /\ r.counter # None => InRange(b, r.counter)

OfferFits(b, c) ==
    offer[b][c] \in OfferRow =>
        /\ b \in Id /\ offer[b][c].price >= bargain[b].terms.minVisible
        /\ InRange(b, offer[b][c].price)

HeldFits(c, p) ==
    LET d == held[c][p]
    IN  d # None => /\ d.b \in Id /\ InRange(d.b, d.price)
                    /\ d.price \in shared[d.b] /\ bargain[d.b].product = p

Inv == /\ TypeInv
       /\ \A a \in Actor : Fits(a, req[a])
       /\ \A b \in Id : BargainFits(b)
       /\ \A b \in 1..MaxBargains, c \in Customer : OfferFits(b, c)
       /\ \A c \in Customer, p \in Product : HeldFits(c, p)

-----------------------------------------------------------------------------
(* How the rows change.                                                    *)

\* No step changes the terms or the product of a bargain, takes back a price
\* that was accepted, or deletes an offer.
Extends ==
    /\ Id \subseteq Id'
    /\ \A b \in Id : /\ bargain'[b].terms = bargain[b].terms
                     /\ bargain'[b].product = bargain[b].product
                     /\ shared[b] \subseteq shared'[b]
                     /\ \A c \in Customer :
                           offer[b][c] \in OfferRow => offer'[b][c] \in OfferRow

\* The idle request is a request.
LEMMA IdleOK == /\ Idle \in Requests /\ Idle.at = "idle" /\ Idle.b = None
BY DEF Idle, Requests

\* What a row of the table holds: its terms are natural numbers, its id is
\* none of the special values.
LEMMA RowOK ==
    ASSUME TypeInv, NEW b \in Id
    PROVE  /\ bargain[b] \in Row /\ bargain[b].terms \in Terms
           /\ bargain[b].terms.base \in Nat /\ bargain[b].terms.selling \in Nat
           /\ bargain[b].terms.minVisible \in Nat
           /\ b \in 1..MaxBargains /\ b \in Nat /\ b # None
<1>1. bargain[b] \in Row
  BY DEF TypeInv, Id
<1>2. bargain[b].terms \in Terms
  BY <1>1 DEF Row
<1>3. b \in 1..MaxBargains /\ b \in Nat /\ b # None
  BY BargainAssumption DEF TypeInv, Id
<1>4. QED
  BY <1>1, <1>2, <1>3, BargainAssumption

\* An actor that is given a new request leaves the others' alone.
LEMMA Given ==
    ASSUME TypeInv, NEW a \in Actor, NEW r \in Requests,
           req' = [req EXCEPT ![a] = r]
    PROVE  /\ req' \in [Actor -> Requests] /\ req'[a] = r
           /\ \A x \in Actor \ {a} : req'[x] = req[x]
BY DEF TypeInv

\* One row changes.
LEMMA RowChanged ==
    ASSUME TypeInv, NEW b \in Id, NEW r \in Row,
           bargain' = [bargain EXCEPT ![b] = r]
    PROVE  /\ bargain' \in Seq(Row) /\ Len(bargain') = Len(bargain) /\ Id' = Id
           /\ bargain'[b] = r /\ \A x \in Id \ {b} : bargain'[x] = bargain[x]
BY DEF TypeInv, Id

\* A commit of a bargain changes that row, and moves it to the end of the
\* order of updates if a column changed.
LEMMA RowPut ==
    ASSUME TypeInv, NEW b \in Id, NEW r \in Row, NEW dirty \in BOOLEAN,
           Put(b, r, dirty)
    PROVE  /\ bargain' \in Seq(Row) /\ Len(bargain') = Len(bargain) /\ Id' = Id
           /\ bargain'[b] = r /\ \A x \in Id \ {b} : bargain'[x] = bargain[x]
           /\ Ordered(recency', Len(bargain'))
<1>1. /\ bargain' \in Seq(Row) /\ Len(bargain') = Len(bargain) /\ Id' = Id
      /\ bargain'[b] = r /\ \A x \in Id \ {b} : bargain'[x] = bargain[x]
  BY RowChanged DEF Put
<1>2. Len(bargain) \in Nat /\ b \in 1..Len(bargain)
  BY DEF TypeInv, Id
<1>3. Ordered(recency, Len(bargain))
  BY DEF TypeInv
<1>4. Ordered(Touched(recency, b), Len(bargain))
  BY <1>2, <1>3, TouchedOK
<1>5. QED
  BY <1>1, <1>3, <1>4 DEF Put

\* A deal is made or ends.
LEMMA HeldChanged ==
    ASSUME TypeInv, NEW c \in Customer, NEW p \in Product,
           NEW d \in Deal \cup {None}, held' = [held EXCEPT ![c][p] = d]
    PROVE  /\ held' \in [Customer -> [Product -> Deal \cup {None}]]
           /\ held'[c][p] = d
           /\ \A x \in Customer, y \in Product :
                 x # c \/ y # p => held'[x][y] = held[x][y]
<1> DEFINE mine == [held[c] EXCEPT ![p] = d]
<1>1. held[c] \in [Product -> Deal \cup {None}]
  BY DEF TypeInv
<1>2. /\ mine \in [Product -> Deal \cup {None}] /\ mine[p] = d
      /\ \A y \in Product \ {p} : mine[y] = held[c][y]
  BY <1>1
<1>3. held' = [held EXCEPT ![c] = mine]
  OBVIOUS
<1> HIDE DEF mine
<1>4. /\ held' \in [Customer -> [Product -> Deal \cup {None}]] /\ held'[c] = mine
      /\ \A x \in Customer : x # c => held'[x] = held[x]
  BY <1>2, <1>3 DEF TypeInv
<1>5. QED
  BY <1>2, <1>4

\* What a request has checked remains true.
LEMMA FitsKept ==
    ASSUME Inv, Extends, NEW a \in Actor, req'[a] = req[a]
    PROVE  Fits(a, req[a])'
<1>1. Fits(a, req[a])
  BY DEF Inv
<1>2. QED
  BY <1>1 DEF Fits, Extends, InRange

\* A deal a step leaves alone still fits a table that has only grown.
LEMMA HeldKept ==
    ASSUME Inv, Extends, NEW c \in Customer, NEW p \in Product,
           held'[c][p] = held[c][p]
    PROVE  HeldFits(c, p)'
<1>1. HeldFits(c, p)
  BY DEF Inv
<1>2. QED
  BY <1>1 DEF HeldFits, Extends, InRange

\* So does an offer that is left alone,
LEMMA OfferKept ==
    ASSUME Inv, Extends, NEW b \in 1..MaxBargains, NEW c \in Customer,
           offer'[b][c] = offer[b][c]
    PROVE  OfferFits(b, c)'
<1>1. OfferFits(b, c)
  BY DEF Inv
<1>2. QED
  BY <1>1 DEF OfferFits, Extends, InRange

\* and a bargain that is.
LEMMA BargainKept ==
    ASSUME Inv, Extends, NEW b \in Id, bargain'[b] = bargain[b]
    PROVE  BargainFits(b)'
<1>1. BargainFits(b)
  BY DEF Inv
<1>2. QED
  BY <1>1 DEF BargainFits, Extends, InRange

\* A step in which one actor's request becomes another one, and whatever rows
\* it wrote are well-formed.
LEMMA Stepped ==
    ASSUME Inv, Extends, NEW a \in Actor, NEW r \in Requests,
           req' = [req EXCEPT ![a] = r], Fits(a, req[a])',
           onAir' \in BOOLEAN, calm' \in BOOLEAN,
           bargain' \in Seq(Row), Len(bargain') <= MaxBargains,
           Ordered(recency', Len(bargain')),
           offer' \in [1..MaxBargains -> Offers],
           held' \in [Customer -> [Product -> Deal \cup {None}]],
           shared' \in [1..MaxBargains -> SUBSET Nat],
           \A b \in Id' : BargainFits(b)',
           \A b \in 1..MaxBargains, c \in Customer : OfferFits(b, c)',
           \A c \in Customer, p \in Product : HeldFits(c, p)'
    PROVE  Inv'
<1>1. /\ req' \in [Actor -> Requests] /\ req'[a] = r
      /\ \A x \in Actor \ {a} : req'[x] = req[x]
  BY Given DEF Inv
<1>2. TypeInv'
  BY <1>1 DEF TypeInv
<1>3. ASSUME NEW x \in Actor PROVE Fits(x, req[x])'
  BY <1>1, FitsKept
<1>4. QED
  BY <1>2, <1>3 DEF Inv

\* A request that begins, or ends without a commit.
LEMMA Begun ==
    ASSUME Inv, NEW a \in Actor, NEW r \in Requests, Fits(a, r),
           req' = [req EXCEPT ![a] = r], calm' \in BOOLEAN,
           UNCHANGED <<onAir, bargain, recency, offer, held, shared>>
    PROVE  Inv'
<1>1. Id' = Id /\ Extends
  BY DEF Id, Extends
<1>2. req'[a] = r
  BY Given DEF Inv
<1>3. Fits(a, req[a])'
  BY <1>1, <1>2 DEF Fits, InRange
<1>4. \A b \in Id' : BargainFits(b)'
  BY <1>1, BargainKept
<1>5. \A b \in 1..MaxBargains, c \in Customer : OfferFits(b, c)'
  BY <1>1, OfferKept
<1>6. \A c \in Customer, p \in Product : HeldFits(c, p)'
  BY <1>1, HeldKept
<1>7. QED
  BY <1>1, <1>3, <1>4, <1>5, <1>6, Stepped DEF Inv, TypeInv

\* A commit that changes the row of one bargain, and perhaps its offers and
\* the prices the vendor has accepted.
LEMMA RowStep ==
    ASSUME Inv, NEW b \in Id, NEW r \in Row,
           /\ bargain' \in Seq(Row) /\ Len(bargain') = Len(bargain) /\ Id' = Id
           /\ bargain'[b] = r /\ \A x \in Id \ {b} : bargain'[x] = bargain[x],
           r.terms = bargain[b].terms, r.product = bargain[b].product,
           \A x \in Id : shared[x] \subseteq shared'[x],
           \A x \in Id, c \in Customer :
              offer[x][c] \in OfferRow => offer'[x][c] \in OfferRow,
           r.accepted # None =>
              InRange(b, r.accepted) /\ r.accepted \in shared'[b],
           r.counter # None => InRange(b, r.counter)
    PROVE  Extends /\ \A x \in Id' : BargainFits(x)'
<1>1. Extends
  BY DEF Extends
<1>2. BargainFits(b)'
  <2>1. r.terms.base <= r.terms.selling
    BY DEF Inv, BargainFits
  <2>2. QED
    BY <2>1 DEF BargainFits, InRange
<1>3. QED
  BY <1>1, <1>2, BargainKept

\* A row that only gets another status.
Restated(b, status) == [bargain[b] EXCEPT !.status = status]

\* A row whose status alone is set keeps its prices.
LEMMA RestatedOK ==
    ASSUME TypeInv, NEW b \in Id, NEW status \in Current \cup {"closed"}
    PROVE  LET r == Restated(b, status)
           IN  /\ r \in Row /\ r.status = status
               /\ r.terms = bargain[b].terms /\ r.product = bargain[b].product
               /\ r.accepted = bargain[b].accepted
               /\ r.counter = bargain[b].counter /\ r.over = bargain[b].over
BY RowOK DEF Restated, Row

\* Setting the status of a bargain keeps all bargains fitting.
LEMMA RestatedStep ==
    ASSUME Inv, NEW b \in Id, NEW status \in Current \cup {"closed"},
           NEW dirty \in BOOLEAN, Put(b, Restated(b, status), dirty),
           UNCHANGED <<offer, shared>>
    PROVE  /\ bargain' \in Seq(Row) /\ Len(bargain') = Len(bargain) /\ Id' = Id
           /\ bargain'[b] = Restated(b, status)
           /\ \A x \in Id \ {b} : bargain'[x] = bargain[x]
           /\ Ordered(recency', Len(bargain'))
           /\ Extends /\ \A x \in Id' : BargainFits(x)'
<1> DEFINE r == Restated(b, status)
<1>1. /\ r \in Row /\ r.status = status
      /\ r.terms = bargain[b].terms /\ r.product = bargain[b].product
      /\ r.accepted = bargain[b].accepted /\ r.counter = bargain[b].counter
  BY RestatedOK DEF Inv
<1>2. Put(b, r, dirty)
  OBVIOUS
<1> HIDE DEF r
<1>3. /\ bargain' \in Seq(Row) /\ Len(bargain') = Len(bargain) /\ Id' = Id
      /\ bargain'[b] = r /\ \A x \in Id \ {b} : bargain'[x] = bargain[x]
      /\ Ordered(recency', Len(bargain'))
  BY <1>1, <1>2, RowPut DEF Inv
<1>4. BargainFits(b)
  BY DEF Inv
<1>5. /\ r.accepted # None => InRange(b, r.accepted) /\ r.accepted \in shared'[b]
      /\ r.counter # None => InRange(b, r.counter)
  BY <1>1, <1>4 DEF BargainFits
<1>6. Extends /\ \A x \in Id' : BargainFits(x)'
  BY <1>1, <1>3, <1>5, RowStep
<1>7. QED
  BY <1>3, <1>6 DEF r

-----------------------------------------------------------------------------
(* The newest bargain, closed when its time is over.                       *)

\* The newest current bargain exists when there is one at all.
LEMMA NewestOK ==
    ASSUME TypeInv, CurrentIds # {}
    PROVE  Newest \in CurrentIds /\ Newest \in Id
<1>1. CurrentIds \subseteq 0..Len(bargain) /\ Len(bargain) \in Nat
  BY DEF CurrentIds, Id, TypeInv
<1>2. \E x \in CurrentIds : \A y \in CurrentIds : y <= x
  BY <1>1, HasGreatest
<1>3. QED
  BY <1>2 DEF Newest, CurrentIds

\* What active_session_for_live returns is a bargain or nothing.
LEMMA ActiveOK ==
    ASSUME TypeInv
    PROVE  Active \in Id \cup {None}
BY NewestOK DEF Active

\* Closing the newest bargain changes that row only.
LEMMA ClosedNewest ==
    ASSUME Inv, CloseNewest, UNCHANGED <<offer, shared>>
    PROVE  /\ Newest \in Id
           /\ bargain' \in Seq(Row) /\ Len(bargain') = Len(bargain) /\ Id' = Id
           /\ bargain'[Newest] = Restated(Newest, "closed")
           /\ \A x \in Id \ {Newest} : bargain'[x] = bargain[x]
           /\ Ordered(recency', Len(bargain'))
           /\ Extends /\ \A x \in Id' : BargainFits(x)'
<1> DEFINE b == Newest
<1>1. b \in Id
  BY NewestOK DEF Inv, CloseNewest, NeedsClosing
<1>2. Put(b, Restated(b, "closed"), TRUE)
  BY DEF CloseNewest, Restated
<1> HIDE DEF b
<1>3. /\ bargain' \in Seq(Row) /\ Len(bargain') = Len(bargain) /\ Id' = Id
      /\ bargain'[b] = Restated(b, "closed")
      /\ \A x \in Id \ {b} : bargain'[x] = bargain[x]
      /\ Ordered(recency', Len(bargain'))
      /\ Extends /\ \A x \in Id' : BargainFits(x)'
  BY <1>1, <1>2, RestatedStep
<1>4. QED
  BY <1>1, <1>3 DEF b

-----------------------------------------------------------------------------
(* The steps.                                                              *)

\* A step that leaves every request alone.
LEMMA Stood ==
    ASSUME Inv, Extends, UNCHANGED req,
           onAir' \in BOOLEAN, calm' \in BOOLEAN,
           bargain' \in Seq(Row), Len(bargain') <= MaxBargains,
           Ordered(recency', Len(bargain')),
           offer' \in [1..MaxBargains -> Offers],
           held' \in [Customer -> [Product -> Deal \cup {None}]],
           shared' \in [1..MaxBargains -> SUBSET Nat],
           \A b \in Id' : BargainFits(b)',
           \A b \in 1..MaxBargains, c \in Customer : OfferFits(b, c)',
           \A c \in Customer, p \in Product : HeldFits(c, p)'
    PROVE  Inv'
<1>1. TypeInv'
  BY DEF Inv, TypeInv
<1>2. ASSUME NEW x \in Actor PROVE Fits(x, req[x])'
  BY FitsKept
<1>3. QED
  BY <1>1, <1>2 DEF Inv

\* What a step that does not write these tables leaves of them.
LEMMA OffersKept ==
    ASSUME Inv, Extends, UNCHANGED offer
    PROVE  /\ offer' \in [1..MaxBargains -> Offers]
           /\ \A b \in 1..MaxBargains, c \in Customer : OfferFits(b, c)'
BY OfferKept DEF Inv, TypeInv

\* Deals fit on when nobody writes them.
LEMMA DealsKept ==
    ASSUME Inv, Extends, UNCHANGED held
    PROVE  /\ held' \in [Customer -> [Product -> Deal \cup {None}]]
           /\ \A c \in Customer, p \in Product : HeldFits(c, p)'
BY HeldKept DEF Inv, TypeInv

\* A poll of the room keeps the invariant.
LEMMA PollOK == ASSUME Inv, Poll PROVE Inv'
<1>1. /\ bargain' \in Seq(Row) /\ Len(bargain') = Len(bargain) /\ Id' = Id
      /\ Ordered(recency', Len(bargain'))
      /\ Extends /\ \A x \in Id' : BargainFits(x)'
  BY ClosedNewest DEF Poll
<1>2. UNCHANGED <<onAir, offer, held, shared, req, calm>>
  BY DEF Poll
<1>3. QED
  BY <1>1, <1>2, OffersKept, DealsKept, Stood DEF Inv, TypeInv

\* So does the end of a bargain's time,
LEMMA TimeIsOverOK ==
    ASSUME Inv, NEW b \in Id, TimeIsOver(b)
    PROVE  Inv'
<1> DEFINE r == [bargain[b] EXCEPT !.over = TRUE]
<1>1. /\ r \in Row /\ r.terms = bargain[b].terms
      /\ r.product = bargain[b].product
      /\ r.accepted = bargain[b].accepted /\ r.counter = bargain[b].counter
  BY RowOK DEF Row, Inv
<1>2. bargain' = [bargain EXCEPT ![b] = r]
  BY DEF TimeIsOver
<1> HIDE DEF r
<1>3. /\ bargain' \in Seq(Row) /\ Len(bargain') = Len(bargain) /\ Id' = Id
      /\ bargain'[b] = r /\ \A x \in Id \ {b} : bargain'[x] = bargain[x]
  BY <1>1, <1>2, RowChanged DEF Inv
<1>4. UNCHANGED <<onAir, recency, offer, held, shared, req, calm>>
  BY DEF TimeIsOver
<1>5. BargainFits(b)
  BY DEF Inv
<1>6. /\ r.accepted # None => InRange(b, r.accepted) /\ r.accepted \in shared'[b]
      /\ r.counter # None => InRange(b, r.counter)
  BY <1>1, <1>4, <1>5 DEF BargainFits
<1>7. Extends /\ \A x \in Id' : BargainFits(x)'
  BY <1>1, <1>3, <1>4, <1>6, RowStep
<1>8. QED
  BY <1>3, <1>4, <1>7, OffersKept, DealsKept, Stood DEF Inv, TypeInv

\* a broadcast that begins or ends,
LEMMA BroadcastOK == ASSUME Inv, Broadcast PROVE Inv'
<1>1. UNCHANGED <<bargain, recency, offer, held, shared, req, calm>>
  BY DEF Broadcast
<1>2. onAir' \in BOOLEAN
  BY DEF Broadcast
<1>3. Id' = Id /\ Extends
  BY <1>1 DEF Id, Extends
<1>4. \A b \in Id' : BargainFits(b)'
  BY <1>1, <1>3, BargainKept
<1>5. QED
  BY <1>1, <1>2, <1>3, <1>4, OffersKept, DealsKept, Stood DEF Inv, TypeInv

\* a deal that is used or lapses,
LEMMA DealEndsOK ==
    ASSUME Inv, NEW c \in Customer, NEW p \in Product, DealEnds(c, p)
    PROVE  Inv'
<1>1. UNCHANGED <<onAir, bargain, recency, offer, shared, req, calm>>
  BY DEF DealEnds
<1>2. Id' = Id /\ Extends
  BY <1>1 DEF Id, Extends
<1>3. /\ held' \in [Customer -> [Product -> Deal \cup {None}]]
      /\ held'[c][p] = None
      /\ \A x \in Customer, y \in Product :
            x # c \/ y # p => held'[x][y] = held[x][y]
  BY HeldChanged DEF DealEnds, Inv
<1>4. ASSUME NEW x \in Customer, NEW y \in Product PROVE HeldFits(x, y)'
  <2>1. CASE x = c /\ y = p
    BY <1>3, <2>1 DEF HeldFits
  <2>2. CASE x # c \/ y # p
    BY <1>2, <1>3, <2>2, HeldKept
  <2>3. QED
    BY <2>1, <2>2
<1>5. \A b \in Id' : BargainFits(b)'
  BY <1>1, <1>2, BargainKept
<1>6. QED
  BY <1>1, <1>2, <1>3, <1>4, <1>5, OffersKept, Stood DEF Inv, TypeInv

\* and an offer that comes too late and closes its bargain.
LEMMA OfferTooLateOK ==
    ASSUME Inv, NEW c \in Customer, NEW b \in Id, OfferTooLate(c, b)
    PROVE  Inv'
<1>1. UNCHANGED <<onAir, offer, held, shared, req>> /\ calm' \in BOOLEAN
  BY DEF OfferTooLate, Begins
<1>2. Put(b, Restated(b, "closed"), TRUE)
  BY DEF OfferTooLate, Restated
<1>3. /\ bargain' \in Seq(Row) /\ Len(bargain') = Len(bargain)
      /\ Ordered(recency', Len(bargain'))
      /\ Extends /\ \A x \in Id' : BargainFits(x)'
  BY <1>1, <1>2, RestatedStep
<1>4. QED
  BY <1>1, <1>3, OffersKept, DealsKept, Stood DEF Inv, TypeInv

\* Requests that load a bargain.
LEMMA ReadForOfferOK ==
    ASSUME Inv, NEW c \in Customer, NEW b \in Id, NEW price \in Price,
           ReadForOffer(c, b, price)
    PROVE  Inv'
<1> DEFINE r == [Idle EXCEPT !.at = "offering", !.b = b, !.price = price,
                             !.offers = offer[b][c]]
<1>1. /\ c \in Actor /\ price \in Nat /\ b \in 1..MaxBargains /\ b \in Nat
      /\ bargain[b].terms.base \in Nat /\ bargain[b].terms.minVisible \in Nat
  BY BargainAssumption, RowOK DEF Actor, Inv
<1>2. offer[b][c] \in OfferRow \cup {None}
  BY <1>1 DEF Inv, TypeInv, Offers
<1>3. /\ r \in Requests /\ r.at = "offering" /\ r.b = b /\ r.price = price
      /\ r.offers = offer[b][c]
  BY <1>1, <1>2 DEF Requests, Idle
<1>4. InRange(b, price) /\ price >= bargain[b].terms.minVisible
  BY <1>1 DEF ReadForOffer, OfferAllowed, InRange, LeastOffer
<1>5. req' = [req EXCEPT ![c] = r]
  BY DEF ReadForOffer, Request
<1> HIDE DEF r
<1>6. Fits(c, r)
  BY <1>1, <1>2, <1>3, <1>4 DEF Fits
<1>7. /\ calm' \in BOOLEAN
      /\ UNCHANGED <<onAir, bargain, recency, offer, held, shared>>
  BY DEF ReadForOffer, Begins
<1>8. QED
  BY <1>1, <1>3, <1>5, <1>6, <1>7, Begun

\* The columns a handler loads are columns.
LEMMA LoadedOK ==
    ASSUME TypeInv, NEW b \in Id
    PROVE  Loaded(b) \in Columns
BY RowOK DEF Loaded, Columns, Row

\* A handler that has read keeps the invariant: accept_group,
LEMMA ReadForAcceptOK ==
    ASSUME Inv, NEW a \in Desk, NEW b \in Id, NEW price \in Price,
           ReadForAccept(a, b, price)
    PROVE  Inv'
<1> DEFINE r == [Idle EXCEPT !.at = "accepting", !.b = b, !.price = price,
                             !.row = Loaded(b), !.offers = offer[b]]
<1>1. a \in Actor /\ price \in Nat /\ b \in 1..MaxBargains /\ b \in Nat
  BY BargainAssumption, RowOK DEF Actor, Inv
<1>2. offer[b] \in Offers /\ Loaded(b) \in Columns
  BY <1>1, LoadedOK DEF Inv, TypeInv
<1>3. /\ r \in Requests /\ r.at = "accepting" /\ r.b = b /\ r.price = price
      /\ r.row = Loaded(b) /\ r.offers = offer[b]
  BY <1>1, <1>2 DEF Requests, Idle
<1>4. req' = [req EXCEPT ![a] = r]
  BY DEF ReadForAccept, Request
<1> HIDE DEF r
<1>5. Fits(a, r)
  BY <1>1, <1>2, <1>3 DEF Fits, ReadForAccept, Offers
<1>6. /\ calm' \in BOOLEAN
      /\ UNCHANGED <<onAir, bargain, recency, offer, held, shared>>
  BY DEF ReadForAccept, Begins
<1>7. QED
  BY <1>1, <1>3, <1>4, <1>5, <1>6, Begun

\* counter_group,
LEMMA ReadForCounterOK ==
    ASSUME Inv, NEW a \in Desk, NEW b \in Id, NEW price \in Price,
           ReadForCounter(a, b, price)
    PROVE  Inv'
<1> DEFINE r == [Idle EXCEPT !.at = "countering", !.b = b,
                             !.price = price, !.row = Loaded(b)]
<1>1. a \in Actor /\ price \in Nat /\ b \in Nat /\ Loaded(b) \in Columns
  BY BargainAssumption, RowOK, LoadedOK DEF Actor, Inv
<1>2. /\ r \in Requests /\ r.at = "countering" /\ r.b = b /\ r.price = price
      /\ r.row = Loaded(b)
  BY <1>1 DEF Requests, Idle
<1>3. req' = [req EXCEPT ![a] = r]
  BY DEF ReadForCounter, Request
<1> HIDE DEF r
<1>4. Fits(a, r)
  BY <1>1, <1>2 DEF Fits, ReadForCounter
<1>5. /\ calm' \in BOOLEAN
      /\ UNCHANGED <<onAir, bargain, recency, offer, held, shared>>
  BY DEF ReadForCounter, Begins
<1>6. QED
  BY <1>1, <1>2, <1>3, <1>4, <1>5, Begun

\* close,
LEMMA ReadForCloseOK ==
    ASSUME Inv, NEW a \in Desk, NEW b \in Id, ReadForClose(a, b)
    PROVE  Inv'
<1> DEFINE r == [Idle EXCEPT !.at = "closing", !.b = b, !.row = Loaded(b)]
<1>1. a \in Actor /\ b \in Nat /\ Loaded(b) \in Columns
  BY RowOK, LoadedOK DEF Actor, Inv
<1>2. r \in Requests /\ r.at = "closing" /\ r.b = b /\ r.row = Loaded(b)
  BY <1>1 DEF Requests, Idle
<1>3. req' = [req EXCEPT ![a] = r]
  BY DEF ReadForClose, Request
<1> HIDE DEF r
<1>4. Fits(a, r)
  BY <1>1, <1>2 DEF Fits
<1>5. /\ calm' \in BOOLEAN
      /\ UNCHANGED <<onAir, bargain, recency, offer, held, shared>>
  BY DEF ReadForClose, Begins
<1>6. QED
  BY <1>1, <1>2, <1>3, <1>4, <1>5, Begun

\* The bargain a customer buys under has a price the vendor accepted.
LEMMA BuyableOK ==
    ASSUME TypeInv, NEW p \in Product, Buyable(p) # None
    PROVE  Buyable(p) \in Priced(p) /\ Buyable(p) \in Id
<1> DEFINE n == Len(bargain)
<1>1. /\ Priced(p) # {} /\ Buyable(p) = LastPriced(p) /\ Priced(p) \subseteq 1..n
  BY DEF Buyable, Priced, Id
<1>2. n \in Nat /\ Ordered(recency, n)
  BY DEF TypeInv
<1>3. LastPriced(p) \in Priced(p)
  BY <1>1, <1>2, LatestOK DEF LastPriced
<1>4. QED
  BY <1>1, <1>3 DEF Priced

\* active_deal_for_product.
LEMMA ReadForDealOK ==
    ASSUME Inv, NEW c \in Customer, NEW p \in Product, ReadForDeal(c, p)
    PROVE  Inv'
<1> DEFINE b == Buyable(p)
           r == [Idle EXCEPT !.at = "buying", !.b = b,
                             !.price = AgreedPrice(b), !.product = p]
<1>1. b \in Priced(p) /\ b \in Id
  BY BuyableOK DEF ReadForDeal, Inv
<1> HIDE DEF b
<1>2. c \in Actor /\ b \in Nat /\ bargain[b] \in Row
  BY <1>1, RowOK DEF Actor, Inv
<1>3. bargain[b].accepted # None /\ bargain[b].product = p /\ BargainFits(b)
  BY <1>1 DEF Priced, Inv
<1>4. /\ AgreedPrice(b) \in Nat /\ InRange(b, AgreedPrice(b))
      /\ AgreedPrice(b) \in shared[b]
  BY <1>2, <1>3 DEF Row, BargainFits, AgreedPrice
<1>5. /\ r \in Requests /\ r.at = "buying" /\ r.b = b /\ r.product = p
      /\ r.price = AgreedPrice(b)
  BY <1>2, <1>4 DEF Requests, Idle
<1>6. req' = [req EXCEPT ![c] = r]
  BY DEF ReadForDeal, Request, b
<1> HIDE DEF r
<1>7. Fits(c, r)
  BY <1>1, <1>3, <1>4, <1>5 DEF Fits
<1>8. /\ calm' \in BOOLEAN
      /\ UNCHANGED <<onAir, bargain, recency, offer, held, shared>>
  BY DEF ReadForDeal, Begins
<1>9. QED
  BY <1>2, <1>5, <1>6, <1>7, <1>8, Begun

\* A bargain is being started; the newest one may be closed on the way.
LEMMA ReadForStartOK ==
    ASSUME Inv, NEW a \in Desk, NEW p \in Product, NEW t \in Terms,
           ReadForStart(a, p, t)
    PROVE  Inv'
<1> DEFINE b == Active
           r == [Idle EXCEPT !.at = "starting", !.b = b, !.product = p,
                             !.row = t]
<1>1. b \in Id \cup {None} /\ \A x \in Id : x \in Nat
  BY ActiveOK DEF Inv, Id
<1> HIDE DEF b
<1>2. a \in Actor /\ b \in Nat \cup {None} /\ t.base <= t.selling
  BY <1>1, BargainAssumption DEF Actor, ReadForStart, ValidTerms
<1>3. /\ r \in Requests /\ r.at = "starting" /\ r.b = b /\ r.product = p
      /\ r.row = t
  BY <1>2 DEF Requests, Idle
<1>4. req' = [req EXCEPT ![a] = r]
  BY DEF ReadForStart, Request, b
<1> HIDE DEF r
<1>5. UNCHANGED <<onAir, offer, held, shared>> /\ calm' \in BOOLEAN
  BY DEF ReadForStart, Begins
<1>6. /\ bargain' \in Seq(Row) /\ Len(bargain') = Len(bargain) /\ Id' = Id
      /\ Ordered(recency', Len(bargain'))
      /\ Extends /\ \A x \in Id' : BargainFits(x)'
  <2>1. CASE CloseNewest
    BY <1>5, <2>1, ClosedNewest
  <2>2. CASE UNCHANGED <<bargain, recency>>
    <3>1. Id' = Id /\ Extends
      BY <1>5, <2>2 DEF Id, Extends
    <3>2. \A x \in Id' : BargainFits(x)'
      BY <2>2, <3>1, BargainKept
    <3>3. QED
      BY <2>2, <3>1, <3>2 DEF Inv, TypeInv
  <2>3. QED
    BY <2>1, <2>2 DEF ReadForStart
<1>7. req'[a] = r
  BY <1>2, <1>3, <1>4, Given DEF Inv
<1>8. Fits(a, req[a])'
  BY <1>1, <1>2, <1>3, <1>6, <1>7 DEF Fits
<1>9. QED
  BY <1>2, <1>3, <1>4, <1>5, <1>6, <1>8, OffersKept, DealsKept, Stepped
     DEF Inv, TypeInv

\* A request may die at any point.
LEMMA DiesOK == ASSUME Inv, NEW a \in Actor, Dies(a) PROVE Inv'
<1>1. Fits(a, Idle) /\ Idle \in Requests
  BY IdleOK DEF Fits
<1>2. /\ req' = [req EXCEPT ![a] = Idle] /\ calm' \in BOOLEAN
      /\ UNCHANGED <<onAir, bargain, recency, offer, held, shared>>
  BY DEF Dies, Done, Inv, TypeInv
<1>3. QED
  BY <1>1, <1>2, Begun

\* The requests that commit are done with.
LEMMA Ended ==
    ASSUME Inv, Extends, NEW a \in Actor, Done(a), UNCHANGED onAir,
           bargain' \in Seq(Row), Len(bargain') <= MaxBargains,
           Ordered(recency', Len(bargain')),
           offer' \in [1..MaxBargains -> Offers],
           held' \in [Customer -> [Product -> Deal \cup {None}]],
           shared' \in [1..MaxBargains -> SUBSET Nat],
           \A b \in Id' : BargainFits(b)',
           \A b \in 1..MaxBargains, c \in Customer : OfferFits(b, c)',
           \A c \in Customer, p \in Product : HeldFits(c, p)'
    PROVE  Inv'
<1>1. /\ req' = [req EXCEPT ![a] = Idle] /\ calm' \in BOOLEAN
      /\ onAir' \in BOOLEAN
  BY DEF Done, Inv, TypeInv
<1>2. req'[a] = Idle
  BY <1>1, IdleOK, Given DEF Inv
<1>3. Fits(a, req[a])'
  BY <1>2, IdleOK DEF Fits
<1>4. QED
  BY <1>1, <1>3, IdleOK, Stepped

\* The commit of a deal at the accepted price keeps the invariant,
LEMMA SaveDealOK == ASSUME Inv, NEW c \in Customer, SaveDeal(c) PROVE Inv'
<1> DEFINE p == req[c].product
           d == [b |-> req[c].b, price |-> req[c].price]
<1>1. c \in Actor /\ Fits(c, req[c]) /\ req[c].at = "buying"
  BY DEF Actor, Inv, SaveDeal
<1>2. /\ p \in Product /\ req[c].b \in Id /\ req[c].price \in Nat
      /\ InRange(req[c].b, req[c].price) /\ bargain[req[c].b].product = p
      /\ req[c].price \in shared[req[c].b]
  BY <1>1 DEF Fits
<1>3. /\ d \in Deal /\ d.b \in Id /\ InRange(d.b, d.price)
      /\ bargain[d.b].product = p /\ d.price \in shared[d.b]
  BY <1>2, RowOK DEF Deal, Inv
<1>4. held' = [held EXCEPT ![c][p] = d] /\ Done(c)
      /\ UNCHANGED <<onAir, bargain, recency, offer, shared>>
  BY DEF SaveDeal
<1>5. p \in Product
  BY <1>2
<1> HIDE DEF p, d
<1>6. /\ held' \in [Customer -> [Product -> Deal \cup {None}]]
      /\ held'[c][p] = d
      /\ \A x \in Customer, y \in Product :
            x # c \/ y # p => held'[x][y] = held[x][y]
  <2>1. TypeInv /\ d \in Deal \cup {None}
    BY <1>3 DEF Inv
  <2>2. held' = [held EXCEPT ![c][p] = d]
    BY <1>4
  <2>3. QED
    BY <1>5, <2>1, <2>2, HeldChanged
<1>7. Id' = Id /\ Extends
  BY <1>4 DEF Id, Extends
<1>8. ASSUME NEW x \in Customer, NEW y \in Product PROVE HeldFits(x, y)'
  <2>1. CASE x = c /\ y = p
    BY <1>3, <1>4, <1>6, <1>7, <2>1 DEF HeldFits, InRange
  <2>2. CASE x # c \/ y # p
    BY <1>6, <1>7, <2>2, HeldKept
  <2>3. QED
    BY <2>1, <2>2
<1>9. \A b \in Id' : BargainFits(b)'
  BY <1>4, <1>7, BargainKept
<1>10. QED
  BY <1>1, <1>4, <1>6, <1>7, <1>8, <1>9, OffersKept, Ended DEF Inv, TypeInv

\* the commit of close,
LEMMA SaveCloseOK == ASSUME Inv, NEW a \in Desk, SaveClose(a) PROVE Inv'
<1> DEFINE b == req[a].b
           status == Written("closed", req[a].row.status, bargain[b].status)
           dirty == req[a].row.status # "closed"
<1>1. a \in Actor /\ Fits(a, req[a]) /\ req[a].at = "closing"
  BY DEF Actor, Inv, SaveClose
<1>2. b \in Id
  BY <1>1 DEF Fits
<1>3. status \in Current \cup {"closed"} /\ dirty \in BOOLEAN
  BY <1>2, RowOK DEF Written, Inv, Row
<1>4. /\ Put(b, Restated(b, status), dirty) /\ Done(a)
      /\ UNCHANGED <<onAir, offer, held, shared>>
  BY DEF SaveClose, Restated
<1> HIDE DEF b, status, dirty
<1>5. /\ bargain' \in Seq(Row) /\ Len(bargain') = Len(bargain)
      /\ Ordered(recency', Len(bargain'))
      /\ Extends /\ \A x \in Id' : BargainFits(x)'
  BY <1>2, <1>3, <1>4, RestatedStep
<1>6. QED
  BY <1>1, <1>4, <1>5, OffersKept, DealsKept, Ended DEF Inv, TypeInv

\* of counter_group,
LEMMA SaveCounterOK == ASSUME Inv, NEW a \in Desk, SaveCounter(a) PROVE Inv'
<1> DEFINE b == req[a].b
           old == req[a].row
           status == Written("countered", old.status, bargain[b].status)
           counter == Written(req[a].price, old.counter, bargain[b].counter)
           dirty == old.status # "countered" \/ old.counter # req[a].price
           r == [bargain[b] EXCEPT !.status = status, !.counter = counter]
<1>1. a \in Actor /\ Fits(a, req[a]) /\ req[a].at = "countering"
  BY DEF Actor, Inv, SaveCounter
<1>2. b \in Id /\ req[a].price \in Nat /\ InRange(b, req[a].price)
  BY <1>1 DEF Fits
<1>3. BargainFits(b) /\ bargain[b] \in Row
  BY <1>2, RowOK DEF Inv
<1>4. /\ status \in Current \cup {"closed"} /\ dirty \in BOOLEAN
      /\ counter \in Nat \cup {None} /\ (counter # None => InRange(b, counter))
  BY <1>2, <1>3 DEF Written, Row, Current, BargainFits
<1>5. /\ Put(b, r, dirty) /\ Done(a)
      /\ UNCHANGED <<onAir, offer, held, shared>>
  BY DEF SaveCounter
<1> HIDE DEF b, status, counter, dirty
<1>6. /\ r \in Row /\ r.terms = bargain[b].terms
      /\ r.product = bargain[b].product
      /\ r.accepted = bargain[b].accepted /\ r.counter = counter
  BY <1>3, <1>4 DEF Row
<1> HIDE DEF r
<1>7. /\ bargain' \in Seq(Row) /\ Len(bargain') = Len(bargain) /\ Id' = Id
      /\ bargain'[b] = r /\ \A x \in Id \ {b} : bargain'[x] = bargain[x]
      /\ Ordered(recency', Len(bargain'))
  BY <1>2, <1>4, <1>5, <1>6, RowPut DEF Inv
<1>8. /\ r.accepted # None => InRange(b, r.accepted) /\ r.accepted \in shared'[b]
      /\ r.counter # None => InRange(b, r.counter)
  BY <1>3, <1>4, <1>5, <1>6 DEF BargainFits
<1>9. Extends /\ \A x \in Id' : BargainFits(x)'
  BY <1>2, <1>5, <1>6, <1>7, <1>8, RowStep
<1>10. QED
  BY <1>1, <1>5, <1>7, <1>9, OffersKept, DealsKept, Ended DEF Inv, TypeInv

\* of a customer's offer,
LEMMA SaveOfferOK == ASSUME Inv, NEW c \in Customer, SaveOffer(c) PROVE Inv'
<1> DEFINE b == req[c].b
           mine == req[c].offers
           now == offer[b][c]
           o == IF mine = None
                THEN [price |-> req[c].price, status |-> "active"]
                ELSE [price |-> Written(req[c].price, mine.price, now.price),
                      status |-> Written("active", mine.status, now.status)]
<1>1. c \in Actor /\ Fits(c, req[c]) /\ req[c].at = "offering"
  BY DEF Actor, Inv, SaveOffer
<1>2. /\ b \in Id /\ req[c].price \in Nat /\ InRange(b, req[c].price)
      /\ req[c].price >= bargain[b].terms.minVisible
      /\ mine \in OfferRow \cup {None}
      /\ (mine # None => now \in OfferRow)
  BY <1>1 DEF Fits
<1>3. b \in 1..MaxBargains /\ OfferFits(b, c)
  BY <1>2, RowOK DEF Inv
<1>4. /\ o \in OfferRow /\ InRange(b, o.price)
      /\ o.price >= bargain[b].terms.minVisible
  <2>1. CASE mine = None
    BY <1>2, <2>1 DEF OfferRow
  <2>2. CASE mine # None
    <3>1. /\ now \in OfferRow /\ InRange(b, now.price)
          /\ now.price >= bargain[b].terms.minVisible
      BY <1>2, <1>3, <2>2 DEF OfferFits
    <3>2. /\ Written(req[c].price, mine.price, now.price)
                \in {req[c].price, now.price}
          /\ Written("active", mine.status, now.status) \in {"active", now.status}
      BY DEF Written
    <3>3. now.price \in Nat /\ now.status \in {"active", "accepted", "closed"}
      BY <3>1 DEF OfferRow
    <3>4. QED
      BY <1>2, <2>2, <3>1, <3>2, <3>3 DEF OfferRow
  <2>3. QED
    BY <2>1, <2>2
<1>5. /\ offer' = [offer EXCEPT ![b][c] = o] /\ Done(c)
      /\ UNCHANGED <<onAir, bargain, recency, held, shared>>
  BY DEF SaveOffer
<1>6. b \in Id
  BY <1>2
<1> HIDE DEF b, mine, now, o
<1>7. /\ offer' \in [1..MaxBargains -> Offers] /\ offer'[b][c] = o
      /\ \A x \in 1..MaxBargains, y \in Customer :
            x # b \/ y # c => offer'[x][y] = offer[x][y]
  <2> DEFINE told == [offer[b] EXCEPT ![c] = o]
  <2>1. offer[b] \in Offers /\ b \in 1..MaxBargains /\ o \in OfferRow
    BY <1>4, <1>6, RowOK DEF Inv, TypeInv
  <2>2. /\ told \in Offers /\ told[c] = o
        /\ \A y \in Customer \ {c} : told[y] = offer[b][y]
    BY <2>1 DEF Offers
  <2>3. offer' = [offer EXCEPT ![b] = told]
    BY <1>5
  <2> HIDE DEF told
  <2>4. /\ offer' \in [1..MaxBargains -> Offers] /\ offer'[b] = told
        /\ \A x \in 1..MaxBargains : x # b => offer'[x] = offer[x]
    BY <2>1, <2>2, <2>3 DEF Inv, TypeInv
  <2>5. QED
    BY <2>2, <2>4
<1>8. Id' = Id /\ \A x \in Id : x \in 1..MaxBargains
  BY <1>5, RowOK DEF Id, Inv
<1>9. Extends
  BY <1>4, <1>5, <1>7, <1>8 DEF Extends
<1>10. ASSUME NEW x \in 1..MaxBargains, NEW y \in Customer PROVE OfferFits(x, y)'
  <2>1. CASE x = b /\ y = c
    BY <1>4, <1>5, <1>6, <1>7, <1>8, <2>1 DEF OfferFits, InRange
  <2>2. CASE x # b \/ y # c
    BY <1>7, <1>9, <2>2, OfferKept
  <2>3. QED
    BY <2>1, <2>2
<1>11. \A x \in Id' : BargainFits(x)'
  BY <1>5, <1>8, <1>9, BargainKept
<1>12. QED
  BY <1>1, <1>5, <1>7, <1>9, <1>10, <1>11, DealsKept, Ended DEF Inv, TypeInv

\* The COMMIT of a start: one bargain more, the one found before it closed.
LEMMA StartWrites ==
    ASSUME Inv, NEW a \in Desk, SaveStart(a)
    PROVE  LET n == Len(bargain)
           IN  /\ n + 1 \in 1..MaxBargains /\ n + 1 \notin Id
               /\ Id' = Id \cup {n + 1}
               /\ bargain' \in Seq(Row) /\ Len(bargain') = n + 1
               /\ Ordered(recency', n + 1)
               /\ \A x \in Id :
                     /\ bargain'[x].terms = bargain[x].terms
                     /\ bargain'[x].product = bargain[x].product
                     /\ bargain'[x].accepted = bargain[x].accepted
                     /\ bargain'[x].counter = bargain[x].counter
                     /\ bargain'[x].status \in {bargain[x].status, "closed"}
               /\ bargain'[n + 1].terms = req[a].row
               /\ bargain'[n + 1].status = "open"
               /\ bargain'[n + 1].counter = None
               /\ bargain'[n + 1].accepted = None
<1> DEFINE b == req[a].b
           n == Len(bargain)
           before == IF b = None THEN bargain
                     ELSE [bargain EXCEPT ![b] = Restated(b, "closed")]
           others == IF b = None THEN recency ELSE Touched(recency, b)
           row == [product |-> req[a].product, terms |-> req[a].row,
                   status |-> "open", counter |-> None, accepted |-> None,
                   over |-> FALSE]
<1>1. a \in Actor /\ Fits(a, req[a]) /\ req[a].at = "starting"
  BY DEF Actor, Inv, SaveStart
<1>2. /\ b \in Id \cup {None} /\ req[a].product \in Product
      /\ req[a].row \in Terms
  BY <1>1 DEF Fits
<1>3. n \in Nat /\ Id = 1..n /\ bargain \in Seq(Row) /\ Ordered(recency, n)
  BY DEF Inv, TypeInv, Id
<1>4. /\ before \in Seq(Row) /\ Len(before) = n
      /\ \A x \in Id : /\ before[x].terms = bargain[x].terms
                       /\ before[x].product = bargain[x].product
                       /\ before[x].accepted = bargain[x].accepted
                       /\ before[x].counter = bargain[x].counter
                       /\ before[x].status \in {bargain[x].status, "closed"}
  <2>1. CASE b = None
    BY <1>3, <2>1
  <2>2. CASE b # None
    <3>1. b \in Id
      BY <1>2, <2>2
    <3>2. LET r == Restated(b, "closed")
          IN  /\ r \in Row /\ r.status = "closed"
              /\ r.terms = bargain[b].terms /\ r.product = bargain[b].product
              /\ r.accepted = bargain[b].accepted /\ r.counter = bargain[b].counter
      BY <3>1, RestatedOK DEF Inv
    <3> HIDE DEF b
    <3>3. before = [bargain EXCEPT ![b] = Restated(b, "closed")]
      BY <2>2
    <3>4. QED
      BY <1>3, <3>1, <3>2, <3>3
  <2>3. QED
    BY <2>1, <2>2
<1>5. Ordered(others, n)
  BY <1>2, <1>3, TouchedOK
<1>6. row \in Row
  BY <1>2 DEF Row, Current
<1>7. /\ row.terms = req[a].row /\ row.status = "open" /\ row.counter = None
      /\ row.accepted = None
  OBVIOUS
<1>8. /\ bargain' = Append(before, row) /\ recency' = Append(others, n + 1)
      /\ n + 1 <= MaxBargains
  BY DEF SaveStart, Restated
<1> HIDE DEF b, n, before, others, row
<1>9. /\ bargain' \in Seq(Row) /\ Len(bargain') = n + 1
      /\ bargain'[n + 1] = row /\ \A x \in 1..n : bargain'[x] = before[x]
  BY <1>3, <1>4, <1>6, <1>8
<1>10. Id' = 1..(n + 1)
  BY <1>9 DEF Id
<1>11. Id' = Id \cup {n + 1} /\ n + 1 \in 1..MaxBargains /\ n + 1 \notin Id
  BY <1>3, <1>8, <1>10, BargainAssumption
<1>12. Ordered(recency', n + 1)
  BY <1>3, <1>5, <1>8, AppendedOK
<1>13. QED
  BY <1>3, <1>4, <1>7, <1>9, <1>11, <1>12 DEF n

\* and of a new bargain.
LEMMA SaveStartOK == ASSUME Inv, NEW a \in Desk, SaveStart(a) PROVE Inv'
<1> DEFINE n == Len(bargain)
<1>1. a \in Actor /\ Fits(a, req[a]) /\ req[a].at = "starting"
  BY DEF Actor, Inv, SaveStart
<1>2. req[a].row.base <= req[a].row.selling
  BY <1>1 DEF Fits
<1>3. Done(a) /\ UNCHANGED <<onAir, offer, held, shared>>
  BY DEF SaveStart
<1>4. /\ n + 1 \in 1..MaxBargains /\ Id' = Id \cup {n + 1}
      /\ bargain' \in Seq(Row) /\ Len(bargain') = n + 1
      /\ Ordered(recency', n + 1)
      /\ \A x \in Id : /\ bargain'[x].terms = bargain[x].terms
                       /\ bargain'[x].product = bargain[x].product
                       /\ bargain'[x].accepted = bargain[x].accepted
                       /\ bargain'[x].counter = bargain[x].counter
      /\ bargain'[n + 1].terms = req[a].row
      /\ bargain'[n + 1].counter = None /\ bargain'[n + 1].accepted = None
  BY StartWrites
<1> HIDE DEF n
<1>5. Extends
  BY <1>3, <1>4 DEF Extends
<1>6. ASSUME NEW x \in Id' PROVE BargainFits(x)'
  <2>1. CASE x = n + 1
    BY <1>2, <1>4, <2>1 DEF BargainFits
  <2>2. CASE x \in Id
    <3>1. BargainFits(x)
      BY <2>2 DEF Inv
    <3>2. QED
      BY <1>3, <1>4, <2>2, <3>1 DEF BargainFits, InRange
  <2>3. QED
    BY <1>4, <2>1, <2>2
<1>7. QED
  BY <1>1, <1>3, <1>4, <1>5, <1>6, OffersKept, DealsKept, Ended DEF Inv, TypeInv

\* The COMMIT of an acceptance: the row, every offer loaded as waiting, and
\* the price that is shared from now on.
LEMMA SaveAcceptOK == ASSUME Inv, NEW a \in Desk, SaveAccept(a) PROVE Inv'
<1> DEFINE b == req[a].b
           price == req[a].price
           old == req[a].row
           loaded == req[a].offers
           status == Written("accepted", old.status, bargain[b].status)
           accepted == Written(price, old.accepted, bargain[b].accepted)
           counter == Written(None, old.counter, bargain[b].counter)
           dirty == \/ old.status # "accepted" \/ old.accepted # price
                    \/ old.counter # None
           r == [bargain[b] EXCEPT !.status = status, !.accepted = accepted,
                                   !.counter = counter]
           told == [c \in Customer |->
                      IF loaded[c] # None /\ loaded[c].status = "active"
                      THEN [offer[b][c] EXCEPT
                              !.status = Verdict(loaded[c], price)]
                      ELSE offer[b][c]]
<1>1. a \in Actor /\ Fits(a, req[a]) /\ req[a].at = "accepting"
  BY DEF Actor, Inv, SaveAccept
<1>2. /\ b \in Id /\ price \in Nat /\ InRange(b, price)
      /\ \A c \in Customer : loaded[c] # None => offer[b][c] \in OfferRow
  BY <1>1 DEF Fits
<1>3. /\ BargainFits(b) /\ bargain[b] \in Row /\ b \in 1..MaxBargains
      /\ offer[b] \in Offers /\ None \notin Nat
  BY <1>2, RowOK, BargainAssumption DEF Inv, TypeInv
<1>4. /\ status \in Current \cup {"closed"} /\ dirty \in BOOLEAN
      /\ accepted \in Nat \cup {None} /\ counter \in Nat \cup {None}
      /\ (accepted # None => /\ InRange(b, accepted)
                             /\ accepted \in shared[b] \cup {price})
      /\ (counter # None => InRange(b, counter))
  <2>1. /\ status \in {"accepted", bargain[b].status}
        /\ accepted \in {price, bargain[b].accepted}
        /\ counter \in {None, bargain[b].counter} /\ dirty \in BOOLEAN
    BY DEF Written
  <2>2. /\ bargain[b].status \in Current \cup {"closed"}
        /\ bargain[b].accepted \in Nat \cup {None}
        /\ bargain[b].counter \in Nat \cup {None}
    BY <1>3 DEF Row
  <2> HIDE DEF status, accepted, counter, dirty
  <2>3. QED
    BY <1>2, <1>3, <2>1, <2>2 DEF Current, BargainFits
<1>5. \A c \in Customer : /\ told[c] \in OfferRow \cup {None}
                          /\ offer[b][c] \in OfferRow => told[c] \in OfferRow
                          /\ told[c] \in OfferRow =>
                                /\ offer[b][c] \in OfferRow
                                /\ told[c].price = offer[b][c].price
  <2> SUFFICES ASSUME NEW c \in Customer
               PROVE  /\ told[c] \in OfferRow \cup {None}
                      /\ offer[b][c] \in OfferRow => told[c] \in OfferRow
                      /\ told[c] \in OfferRow =>
                            /\ offer[b][c] \in OfferRow
                            /\ told[c].price = offer[b][c].price
    OBVIOUS
  <2>1. offer[b][c] \in OfferRow \cup {None}
    BY <1>3 DEF Offers
  <2>2. CASE loaded[c] # None /\ loaded[c].status = "active"
    <3>1. offer[b][c] \in OfferRow
      BY <1>2, <2>2
    <3>2. told[c] = [offer[b][c] EXCEPT !.status = Verdict(loaded[c], price)]
      BY <2>2
    <3>3. Verdict(loaded[c], price) \in {"accepted", "closed"}
      BY DEF Verdict
    <3>4. QED
      BY <3>1, <3>2, <3>3 DEF OfferRow
  <2>3. CASE ~(loaded[c] # None /\ loaded[c].status = "active")
    BY <2>1, <2>3
  <2>4. QED
    BY <2>2, <2>3
<1>6. told \in Offers
  BY <1>5 DEF Offers
<1>7. /\ Put(b, r, dirty) /\ offer' = [offer EXCEPT ![b] = told]
      /\ shared' = [shared EXCEPT ![b] = shared[b] \cup {price}] /\ Done(a)
      /\ UNCHANGED <<onAir, held>>
  BY DEF SaveAccept
<1>8. b \in Id /\ price \in Nat
  BY <1>2
<1> HIDE DEF b, price, status, accepted, counter, dirty, told
<1>9. /\ r \in Row /\ r.terms = bargain[b].terms
      /\ r.product = bargain[b].product
      /\ r.accepted = accepted /\ r.counter = counter
  BY <1>3, <1>4 DEF Row
<1> HIDE DEF r
<1>10. /\ bargain' \in Seq(Row) /\ Len(bargain') = Len(bargain) /\ Id' = Id
       /\ bargain'[b] = r /\ \A x \in Id \ {b} : bargain'[x] = bargain[x]
       /\ Ordered(recency', Len(bargain'))
  BY <1>4, <1>7, <1>8, <1>9, RowPut DEF Inv
<1>11. /\ shared' \in [1..MaxBargains -> SUBSET Nat]
       /\ shared'[b] = shared[b] \cup {price}
       /\ \A x \in 1..MaxBargains : x # b => shared'[x] = shared[x]
  BY <1>3, <1>7, <1>8 DEF Inv, TypeInv
<1>12. /\ offer' \in [1..MaxBargains -> Offers] /\ offer'[b] = told
       /\ \A x \in 1..MaxBargains : x # b => offer'[x] = offer[x]
  BY <1>3, <1>6, <1>7 DEF Inv, TypeInv
<1>13. \A x \in Id : x \in 1..MaxBargains
  BY RowOK DEF Inv
<1>14. \A x \in Id : shared[x] \subseteq shared'[x]
  BY <1>11, <1>13
<1>15. \A x \in Id, c \in Customer :
          offer[x][c] \in OfferRow => offer'[x][c] \in OfferRow
  BY <1>5, <1>12, <1>13
<1>16. /\ r.accepted # None => InRange(b, r.accepted) /\ r.accepted \in shared'[b]
       /\ r.counter # None => InRange(b, r.counter)
  BY <1>4, <1>9, <1>11
<1>17. Extends /\ \A x \in Id' : BargainFits(x)'
  BY <1>8, <1>9, <1>10, <1>14, <1>15, <1>16, RowStep
<1>18. ASSUME NEW x \in 1..MaxBargains, NEW c \in Customer PROVE OfferFits(x, c)'
  <2>1. CASE x = b
    <3>1. OfferFits(b, c)
      BY <1>3 DEF Inv
    <3>2. QED
      BY <1>5, <1>9, <1>10, <1>12, <2>1, <3>1 DEF OfferFits, InRange
  <2>2. CASE x # b
    BY <1>12, <1>17, <2>2, OfferKept
  <2>3. QED
    BY <2>1, <2>2
<1>19. QED
  BY <1>1, <1>7, <1>10, <1>11, <1>12, <1>17, <1>18, DealsKept, Ended
     DEF Inv, TypeInv

-----------------------------------------------------------------------------
(* The theorems.                                                           *)

\* The invariant holds at the start.
LEMMA InvInit == ASSUME Init PROVE Inv
<1>1. Len(bargain) = 0 /\ Id = {}
  BY DEF Init, Id
<1>2. Ordered(recency, Len(bargain))
  BY <1>1 DEF Init, Ordered
<1>3. TypeInv
  BY <1>1, <1>2, BargainAssumption, IdleOK DEF Init, TypeInv, Offers
<1>4. \A a \in Actor : Fits(a, req[a])
  BY IdleOK DEF Init, Fits
<1>5. \A b \in 1..MaxBargains, c \in Customer : OfferFits(b, c)
  <2>1. None \notin OfferRow
    BY BargainAssumption DEF OfferRow
  <2>2. QED
    BY <2>1 DEF Init, OfferFits
<1>6. QED
  BY <1>1, <1>3, <1>4, <1>5 DEF Inv, Init, HeldFits

\* The steps there are.
LEMMA Steps ==
    ASSUME [Next]_vars
    PROVE  \/ \E a \in Desk, p \in Product, t \in Terms : ReadForStart(a, p, t)
           \/ \E a \in Desk, b \in Id, price \in Price : ReadForAccept(a, b, price)
           \/ \E a \in Desk, b \in Id, price \in Price : ReadForCounter(a, b, price)
           \/ \E a \in Desk, b \in Id : ReadForClose(a, b)
           \/ \E a \in Desk : SaveStart(a)
           \/ \E a \in Desk : SaveAccept(a)
           \/ \E a \in Desk : SaveCounter(a)
           \/ \E a \in Desk : SaveClose(a)
           \/ \E c \in Customer, b \in Id, price \in Price : ReadForOffer(c, b, price)
           \/ \E c \in Customer, b \in Id : OfferTooLate(c, b)
           \/ \E c \in Customer, p \in Product : ReadForDeal(c, p)
           \/ \E c \in Customer, p \in Product : DealEnds(c, p)
           \/ \E c \in Customer : SaveOffer(c)
           \/ \E c \in Customer : SaveDeal(c)
           \/ Poll
           \/ \E b \in Id : TimeIsOver(b)
           \/ Broadcast
           \/ \E a \in Actor : Dies(a)
           \/ UNCHANGED vars
<1> DEFINE
    S1 == \E a \in Desk, p \in Product, t \in Terms : ReadForStart(a, p, t)
    S2 == \E a \in Desk, b \in Id, price \in Price : ReadForAccept(a, b, price)
    S3 == \E a \in Desk, b \in Id, price \in Price : ReadForCounter(a, b, price)
    S4 == \E a \in Desk, b \in Id : ReadForClose(a, b)
    S5 == \E a \in Desk : SaveStart(a)
    S6 == \E a \in Desk : SaveAccept(a)
    S7 == \E a \in Desk : SaveCounter(a)
    S8 == \E a \in Desk : SaveClose(a)
    C1 == \E c \in Customer, b \in Id, price \in Price : ReadForOffer(c, b, price)
    C2 == \E c \in Customer, b \in Id : OfferTooLate(c, b)
    C3 == \E c \in Customer, p \in Product : ReadForDeal(c, p)
    C4 == \E c \in Customer, p \in Product : DealEnds(c, p)
    C5 == \E c \in Customer : SaveOffer(c)
    C6 == \E c \in Customer : SaveDeal(c)
    T1 == \E b \in Id : TimeIsOver(b)
    T2 == \E a \in Actor : Dies(a)
    Vendors == S1 \/ S2 \/ S3 \/ S4 \/ S5 \/ S6 \/ S7 \/ S8
    Customers == C1 \/ C2 \/ C3 \/ C4 \/ C5 \/ C6
<1>1. ASSUME NEW a \in Desk, VendorNext(a) PROVE Vendors
  BY <1>1 DEF VendorNext
<1>2. ASSUME NEW c \in Customer, CustomerNext(c) PROVE Customers
  BY <1>2 DEF CustomerNext
<1> HIDE DEF Vendors, Customers
<1>3. \/ Vendors \/ Customers \/ Poll \/ T1 \/ Broadcast \/ T2 \/ UNCHANGED vars
  BY <1>1, <1>2 DEF Next
<1> HIDE DEF S1, S2, S3, S4, S5, S6, S7, S8, C1, C2, C3, C4, C5, C6, T1, T2
<1>4. \/ S1 \/ S2 \/ S3 \/ S4 \/ S5 \/ S6 \/ S7 \/ S8
      \/ C1 \/ C2 \/ C3 \/ C4 \/ C5 \/ C6
      \/ Poll \/ T1 \/ Broadcast \/ T2 \/ UNCHANGED vars
  BY <1>3 DEF Vendors, Customers
<1>5. QED
  BY <1>4 DEF S1, S2, S3, S4, S5, S6, S7, S8, C1, C2, C3, C4, C5, C6, T1, T2

\* Every step keeps the invariant.
LEMMA InvNext == Inv /\ [Next]_vars => Inv'
<1> SUFFICES ASSUME Inv, [Next]_vars PROVE Inv'
  OBVIOUS
<1>1. CASE UNCHANGED vars
  <2>1. Id' = Id /\ Extends
    BY <1>1 DEF vars, Id, Extends
  <2>2. \A b \in Id' : BargainFits(b)'
    BY <1>1, <2>1, BargainKept DEF vars
  <2>3. QED
    BY <1>1, <2>1, <2>2, OffersKept, DealsKept, Stood DEF vars, Inv, TypeInv
<1>2. QED
  BY <1>1, Steps, ReadForStartOK, ReadForAcceptOK, ReadForCounterOK,
     ReadForCloseOK, SaveStartOK, SaveAcceptOK, SaveCounterOK, SaveCloseOK,
     ReadForOfferOK, OfferTooLateOK, ReadForDealOK, DealEndsOK, SaveOfferOK,
     SaveDealOK, PollOK, TimeIsOverOK, BroadcastOK, DiesOK

\* The invariant holds in every state of the room.
LEMMA Invariance == Spec => []Inv
<1>1. QED
  BY InvInit, InvNext, PTL DEF Spec

\* Tables, requests and histories have their types, and every request and
\* deal names a bargain there is.
THEOREM TypeCorrect == Spec => []TypeOK
<1>1. Inv => TypeOK
  <2> SUFFICES ASSUME Inv PROVE TypeOK
    OBVIOUS
  <2>1. recency \in Seq(Id) /\ Len(recency) = Len(bargain)
    BY DEF Inv, TypeInv, Ordered, Id
  <2>2. \A c \in Customer, p \in Product :
           held[c][p] \in [b : Id, price : Nat] \cup {None}
    BY DEF Inv, TypeInv, HeldFits, Deal
  <2>3. held \in [Customer -> [Product -> [b : Id, price : Nat] \cup {None}]]
    BY <2>2 DEF Inv, TypeInv
  <2>4. \A a \in Actor : req[a] \in Requests /\ req[a].b \in Id \cup {None}
    BY DEF Inv, TypeInv, Fits
  <2>5. \A a \in Actor : req[a].at \in {"idle", "offering", "starting",
                                "accepting", "countering", "closing", "buying"}
    BY <2>4 DEF Requests
  <2>6. QED
    BY <2>1, <2>3, <2>4, <2>5 DEF Inv, TypeInv, TypeOK, Offers
<1>2. QED
  BY <1>1, Invariance, PTL

\* Offers, counters, the accepted price and every deal stay in the range the
\* bargain was opened with, whatever comes between a check and its COMMIT.
THEOREM PricesStayInRange == Spec => []PricesInRange
<1>1. Inv => PricesInRange
  <2> SUFFICES ASSUME Inv PROVE PricesInRange
    OBVIOUS
  <2>1. \A b \in Id : BargainFits(b)
    BY DEF Inv
  <2>2. ASSUME NEW b \in Id, NEW c \in Customer, offer[b][c] # None
        PROVE  /\ offer[b][c].price >= bargain[b].terms.minVisible
               /\ InRange(b, offer[b][c].price)
    <3>1. b \in 1..MaxBargains
      BY RowOK DEF Inv
    <3>2. offer[b][c] \in OfferRow /\ OfferFits(b, c)
      BY <2>2, <3>1 DEF Inv, TypeInv, Offers
    <3>3. QED
      BY <3>2 DEF OfferFits
  <2>3. \A c \in Customer, p \in Product : HeldFits(c, p)
    BY DEF Inv
  <2>4. QED
    BY <2>1, <2>2, <2>3 DEF PricesInRange, BargainFits, HeldFits
<1>2. QED
  BY <1>1, Invariance, PTL

\* "The vendor must accept one shared live deal price before customers can
\* buy at the bargain price": every deal has such a price, for its product.
THEOREM DealsWereShared == Spec => []DealsAtSharedPrice
<1>1. Inv => DealsAtSharedPrice
  BY DEF Inv, HeldFits, DealsAtSharedPrice
<1>2. QED
  BY <1>1, Invariance, PTL

-----------------------------------------------------------------------------
(* Rooms in which no two requests have overlapped.                         *)

Busy(a) == req[a].at # "idle"

Alone == \A a, x \in Actor : Busy(a) /\ Busy(x) => a = x

\* What the request of a loaded is what its COMMIT finds, except that a poll
\* may have closed the bargain.
UpToDate(a) ==
    LET r == req[a]
    IN  /\ r.at \in {"accepting", "countering"} =>
              /\ r.row.counter = bargain[r.b].counter
              /\ r.row.accepted = bargain[r.b].accepted
              /\ bargain[r.b].status \in {r.row.status, "closed"}
        /\ r.at = "accepting" => r.offers = offer[r.b]
        /\ r.at = "offering" =>
              /\ r.offers = offer[r.b][a] /\ bargain[r.b].status # "accepted"

Settled(b) ==
    bargain[b].status = "accepted" =>
        /\ bargain[b].accepted \in shared[b] /\ bargain[b].counter = None
        /\ \A c \in Customer : offer[b][c] \in OfferRow =>
                                  offer[b][c].status # "active"

Reached(b, c) ==
    offer[b][c] \in OfferRow /\ offer[b][c].status = "accepted" =>
        \E price \in shared[b] : offer[b][c].price >= price

CalmInv == calm => /\ Alone
                   /\ \A a \in Actor : UpToDate(a)
                   /\ \A b \in Id : Settled(b)
                   /\ \A b \in Id, c \in Customer : Reached(b, c)

\* Requests that have overlapped have overlapped for good.
LEMMA OnceCalm ==
    ASSUME [Next]_vars, calm'
    PROVE  calm
<1>1. ASSUME NEW a, Begins(a) PROVE calm
  BY <1>1 DEF Begins
<1>2. ASSUME NEW a, Done(a) PROVE calm
  BY <1>2 DEF Done
<1>3. CASE UNCHANGED calm
  BY <1>3
<1>4. QED
  BY <1>1, <1>2, <1>3, Steps DEF vars, ReadForStart, ReadForAccept,
     ReadForCounter, ReadForClose, SaveStart, SaveAccept, SaveCounter,
     SaveClose, ReadForOffer, OfferTooLate, ReadForDeal, DealEnds, SaveOffer,
     SaveDeal, Poll, TimeIsOver, Broadcast, Dies

\* A row is replaced.
LEMMA Replaced ==
    ASSUME TypeInv, TypeInv', NEW b \in Id, NEW r,
           bargain' = [bargain EXCEPT ![b] = r]
    PROVE  /\ Id' = Id /\ bargain'[b] = r
           /\ \A x \in Id \ {b} : bargain'[x] = bargain[x]
<1>1. DOMAIN bargain = Id /\ DOMAIN bargain' = Id'
  BY DEF TypeInv, Id
<1>2. QED
  BY <1>1

\* A step that settles nothing.
LEMMA RowsCalm ==
    ASSUME CalmInv, calm, Id' = Id, UNCHANGED <<offer, shared>>,
           \A b \in Id : /\ bargain'[b].status = "accepted" =>
                               bargain[b].status = "accepted"
                         /\ bargain'[b].accepted = bargain[b].accepted
                         /\ bargain'[b].counter = bargain[b].counter
    PROVE  /\ \A b \in Id' : Settled(b)'
           /\ \A b \in Id', c \in Customer : Reached(b, c)'
BY DEF CalmInv, Settled, Reached

\* The first request of a calm room.
LEMMA CalmBegins ==
    ASSUME TypeInv, NEW a \in Actor, NEW r \in Requests, Begins(a), calm',
           req' = [req EXCEPT ![a] = r]
    PROVE  /\ Alone' /\ req'[a] = r /\ calm
           /\ \A x \in Actor \ {a} : UpToDate(x)'
<1>1. /\ calm /\ \A x \in Actor : req[x].at = "idle"
  BY DEF Begins
<1>2. req'[a] = r /\ \A x \in Actor \ {a} : req'[x] = req[x]
  BY Given
<1>3. \A x \in Actor \ {a} : req'[x].at = "idle"
  BY <1>1, <1>2
<1>4. Alone'
  BY <1>3 DEF Alone, Busy
<1>5. QED
  BY <1>1, <1>2, <1>3, <1>4 DEF UpToDate

\* The one request of a calm room ends.
LEMMA CalmEnds ==
    ASSUME TypeInv, CalmInv, NEW a \in Actor, Busy(a), Done(a), calm'
    PROVE  Alone' /\ \A x \in Actor : UpToDate(x)'
<1>1. calm /\ req' = [req EXCEPT ![a] = Idle]
  BY DEF Done
<1>2. \A x \in Actor \ {a} : req[x].at = "idle"
  BY <1>1 DEF CalmInv, Alone, Busy
<1>3. \A x \in Actor : req'[x].at = "idle"
  BY <1>1, <1>2, IdleOK, Given
<1>4. QED
  BY <1>3 DEF Alone, Busy, UpToDate

\* A request that only loads.
LEMMA CalmReads ==
    ASSUME TypeInv, CalmInv, NEW a \in Actor, NEW r \in Requests, Begins(a),
           calm', req' = [req EXCEPT ![a] = r],
           UNCHANGED <<bargain, offer, shared>>,
           r.at \in {"accepting", "countering"} => r.row = Loaded(r.b),
           r.at = "accepting" => r.offers = offer[r.b],
           r.at = "offering" => /\ r.offers = offer[r.b][a]
                                /\ bargain[r.b].status # "accepted"
    PROVE  CalmInv'
<1>1. /\ Alone' /\ req'[a] = r /\ calm
      /\ \A x \in Actor \ {a} : UpToDate(x)'
  BY CalmBegins
<1>2. r.at \in {"accepting", "countering"} =>
         /\ r.row.counter = bargain[r.b].counter
         /\ r.row.accepted = bargain[r.b].accepted
         /\ r.row.status = bargain[r.b].status
  BY DEF Loaded
<1>3. UpToDate(a)'
  BY <1>1, <1>2 DEF UpToDate
<1>4. Id' = Id
  BY DEF Id
<1>5. QED
  BY <1>1, <1>3, <1>4, RowsCalm DEF CalmInv

\* What a request is given is a request.
LEMMA GivenBack ==
    ASSUME TypeInv, TypeInv', NEW a \in Actor, NEW r,
           req' = [req EXCEPT ![a] = r]
    PROVE  r \in Requests
BY DEF TypeInv

\* Nothing is saved by a handler that reads, so what its actor alone has
\* loaded is up to date: accept_group,
LEMMA CalmReadForAccept ==
    ASSUME Inv, Inv', CalmInv, calm', NEW a \in Desk, NEW b \in Id,
           NEW price \in Price, ReadForAccept(a, b, price)
    PROVE  CalmInv'
<1> DEFINE r == [Idle EXCEPT !.at = "accepting", !.b = b, !.price = price,
                             !.row = Loaded(b), !.offers = offer[b]]
<1>1. /\ r.at = "accepting" /\ r.b = b /\ r.row = Loaded(b)
      /\ r.offers = offer[b]
  BY DEF Idle
<1>2. req' = [req EXCEPT ![a] = r] /\ Begins(a) /\ a \in Actor
  BY DEF ReadForAccept, Request, Actor
<1>3. UNCHANGED <<bargain, offer, shared>>
  BY DEF ReadForAccept
<1> HIDE DEF r
<1>4. r \in Requests
  BY <1>2, GivenBack DEF Inv
<1>5. QED
  BY <1>1, <1>2, <1>3, <1>4, CalmReads DEF Inv

\* counter_group,
LEMMA CalmReadForCounter ==
    ASSUME Inv, Inv', CalmInv, calm', NEW a \in Desk, NEW b \in Id,
           NEW price \in Price, ReadForCounter(a, b, price)
    PROVE  CalmInv'
<1> DEFINE r == [Idle EXCEPT !.at = "countering", !.b = b,
                             !.price = price, !.row = Loaded(b)]
<1>1. r.at = "countering" /\ r.b = b /\ r.row = Loaded(b)
  BY DEF Idle
<1>2. req' = [req EXCEPT ![a] = r] /\ Begins(a) /\ a \in Actor
  BY DEF ReadForCounter, Request, Actor
<1>3. UNCHANGED <<bargain, offer, shared>>
  BY DEF ReadForCounter
<1> HIDE DEF r
<1>4. r \in Requests
  BY <1>2, GivenBack DEF Inv
<1>5. QED
  BY <1>1, <1>2, <1>3, <1>4, CalmReads DEF Inv

\* close,
LEMMA CalmReadForClose ==
    ASSUME Inv, Inv', CalmInv, calm', NEW a \in Desk, NEW b \in Id,
           ReadForClose(a, b)
    PROVE  CalmInv'
<1> DEFINE r == [Idle EXCEPT !.at = "closing", !.b = b, !.row = Loaded(b)]
<1>1. r.at = "closing"
  BY DEF Idle
<1>2. req' = [req EXCEPT ![a] = r] /\ Begins(a) /\ a \in Actor
  BY DEF ReadForClose, Request, Actor
<1>3. UNCHANGED <<bargain, offer, shared>>
  BY DEF ReadForClose
<1> HIDE DEF r
<1>4. r \in Requests
  BY <1>2, GivenBack DEF Inv
<1>5. QED
  BY <1>1, <1>2, <1>3, <1>4, CalmReads DEF Inv

\* an offer,
LEMMA CalmReadForOffer ==
    ASSUME Inv, Inv', CalmInv, calm', NEW c \in Customer, NEW b \in Id,
           NEW price \in Price, ReadForOffer(c, b, price)
    PROVE  CalmInv'
<1> DEFINE r == [Idle EXCEPT !.at = "offering", !.b = b, !.price = price,
                             !.offers = offer[b][c]]
<1>1. r.at = "offering" /\ r.b = b /\ r.offers = offer[b][c]
  BY DEF Idle
<1>2. req' = [req EXCEPT ![c] = r] /\ Begins(c) /\ c \in Actor
  BY DEF ReadForOffer, Request, Actor
<1>3. UNCHANGED <<bargain, offer, shared>> /\ bargain[b].status # "accepted"
  BY DEF ReadForOffer, TakesOffers
<1> HIDE DEF r
<1>4. r \in Requests
  BY <1>2, GivenBack DEF Inv
<1>5. QED
  BY <1>1, <1>2, <1>3, <1>4, CalmReads DEF Inv

\* a deal,
LEMMA CalmReadForDeal ==
    ASSUME Inv, Inv', CalmInv, calm', NEW c \in Customer, NEW p \in Product,
           ReadForDeal(c, p)
    PROVE  CalmInv'
<1> DEFINE r == [Idle EXCEPT !.at = "buying", !.b = Buyable(p),
                             !.price = AgreedPrice(Buyable(p)), !.product = p]
<1>1. r.at = "buying"
  BY DEF Idle
<1>2. req' = [req EXCEPT ![c] = r] /\ Begins(c) /\ c \in Actor
  BY DEF ReadForDeal, Request, Actor
<1>3. UNCHANGED <<bargain, offer, shared>>
  BY DEF ReadForDeal
<1> HIDE DEF r
<1>4. r \in Requests
  BY <1>2, GivenBack DEF Inv
<1>5. QED
  BY <1>1, <1>2, <1>3, <1>4, CalmReads DEF Inv

\* Closing the newest bargain settles nothing.
LEMMA CalmClosesNewest ==
    ASSUME Inv, CalmInv, calm, CloseNewest, UNCHANGED <<offer, shared>>
    PROVE  /\ \A b \in Id' : Settled(b)'
           /\ \A b \in Id', c \in Customer : Reached(b, c)'
           /\ \A a \in Actor : req'[a] = req[a] => UpToDate(a)'
<1>1. /\ Id' = Id
      /\ Newest \in Id /\ bargain'[Newest] = Restated(Newest, "closed")
      /\ \A x \in Id \ {Newest} : bargain'[x] = bargain[x]
  BY ClosedNewest
<1>2. LET r == Restated(Newest, "closed")
      IN  /\ r.status = "closed" /\ r.accepted = bargain[Newest].accepted
          /\ r.counter = bargain[Newest].counter
  BY <1>1, RestatedOK DEF Inv
<1>3. \A b \in Id : /\ bargain'[b].status \in {bargain[b].status, "closed"}
                    /\ bargain'[b].accepted = bargain[b].accepted
                    /\ bargain'[b].counter = bargain[b].counter
  BY <1>1, <1>2
<1>4. ASSUME NEW a \in Actor, req'[a] = req[a] PROVE UpToDate(a)'
  <2>1. Fits(a, req[a]) /\ UpToDate(a)
    BY DEF Inv, CalmInv
  <2>2. req[a].at \in {"accepting", "countering", "offering"} => req[a].b \in Id
    BY <2>1 DEF Fits
  <2>3. QED
    BY <1>3, <1>4, <2>1, <2>2 DEF UpToDate
<1>5. \A b \in Id : bargain'[b].status = "accepted" =>
                       bargain[b].status = "accepted"
  BY <1>3
<1>6. QED
  BY <1>1, <1>3, <1>4, <1>5, RowsCalm

\* and start, which closes the newest bargain if its time is over.
LEMMA CalmReadForStart ==
    ASSUME Inv, Inv', CalmInv, calm', NEW a \in Desk, NEW p \in Product,
           NEW t \in Terms, ReadForStart(a, p, t)
    PROVE  CalmInv'
<1> DEFINE r == [Idle EXCEPT !.at = "starting", !.b = Active, !.product = p,
                             !.row = t]
<1>1. r.at = "starting"
  BY DEF Idle
<1>2. req' = [req EXCEPT ![a] = r] /\ Begins(a) /\ a \in Actor
  BY DEF ReadForStart, Request, Actor
<1>3. UNCHANGED <<offer, shared>>
  BY DEF ReadForStart
<1> HIDE DEF r
<1>4. r \in Requests
  BY <1>2, GivenBack DEF Inv
<1>5. /\ Alone' /\ req'[a] = r /\ calm
      /\ \A x \in Actor \ {a} : UpToDate(x)'
  BY <1>2, <1>4, CalmBegins DEF Inv
<1>6. UpToDate(a)'
  BY <1>1, <1>5 DEF UpToDate
<1>7. /\ \A b \in Id' : Settled(b)'
      /\ \A b \in Id', c \in Customer : Reached(b, c)'
  <2>1. CASE CloseNewest
    BY <1>3, <1>5, <2>1, CalmClosesNewest
  <2>2. CASE UNCHANGED bargain
    BY <1>3, <1>5, <2>2, RowsCalm DEF Id
  <2>3. QED
    BY <2>1, <2>2 DEF ReadForStart
<1>8. QED
  BY <1>5, <1>6, <1>7 DEF CalmInv

\* A poll may close the newest bargain under the one request in flight, which
\* UpToDate allows for.
LEMMA CalmPoll ==
    ASSUME Inv, CalmInv, calm', Poll
    PROVE  CalmInv'
<1>1. calm /\ CloseNewest /\ UNCHANGED <<offer, shared, req>>
  BY DEF Poll
<1>2. /\ \A b \in Id' : Settled(b)'
      /\ \A b \in Id', c \in Customer : Reached(b, c)'
      /\ \A a \in Actor : UpToDate(a)'
  BY <1>1, CalmClosesNewest
<1>3. Alone'
  BY <1>1 DEF CalmInv, Alone, Busy
<1>4. QED
  BY <1>2, <1>3 DEF CalmInv

\* An offer that comes too late only closes its bargain.
LEMMA CalmOfferTooLate ==
    ASSUME Inv, Inv', CalmInv, calm', NEW c \in Customer, NEW b \in Id,
           OfferTooLate(c, b)
    PROVE  CalmInv'
<1>1. /\ calm /\ (\A x \in Actor : req[x].at = "idle")
      /\ bargain' = [bargain EXCEPT ![b] = Restated(b, "closed")]
      /\ UNCHANGED <<offer, shared, req>>
  BY DEF OfferTooLate, Begins, Put, Restated
<1>2. /\ Id' = Id /\ bargain'[b] = Restated(b, "closed")
      /\ \A x \in Id \ {b} : bargain'[x] = bargain[x]
  BY <1>1, Replaced DEF Inv
<1>3. LET r == Restated(b, "closed")
      IN  /\ r.status = "closed" /\ r.accepted = bargain[b].accepted
          /\ r.counter = bargain[b].counter
  BY RestatedOK DEF Inv
<1>4. \A x \in Id : /\ bargain'[x].status = "accepted" =>
                          bargain[x].status = "accepted"
                    /\ bargain'[x].accepted = bargain[x].accepted
                    /\ bargain'[x].counter = bargain[x].counter
  BY <1>2, <1>3
<1>5. /\ \A x \in Id' : Settled(x)'
      /\ \A x \in Id', y \in Customer : Reached(x, y)'
  BY <1>1, <1>2, <1>4, RowsCalm
<1>6. QED
  BY <1>1, <1>5 DEF CalmInv, Alone, Busy, UpToDate

\* The clock changes nothing a calm request relies on.
LEMMA CalmTimeIsOver ==
    ASSUME Inv, Inv', CalmInv, calm', NEW b \in Id, TimeIsOver(b)
    PROVE  CalmInv'
<1> DEFINE r == [bargain[b] EXCEPT !.over = TRUE]
<1>1. /\ calm /\ UNCHANGED <<offer, shared, req>>
      /\ bargain' = [bargain EXCEPT ![b] = r]
  BY DEF TimeIsOver
<1>2. /\ r.status = bargain[b].status /\ r.accepted = bargain[b].accepted
      /\ r.counter = bargain[b].counter
  BY RowOK DEF Inv, Row
<1> HIDE DEF r
<1>3. /\ Id' = Id /\ bargain'[b] = r
      /\ \A x \in Id \ {b} : bargain'[x] = bargain[x]
  BY <1>1, Replaced DEF Inv
<1>4. \A x \in Id : /\ bargain'[x].status = bargain[x].status
                    /\ bargain'[x].accepted = bargain[x].accepted
                    /\ bargain'[x].counter = bargain[x].counter
  BY <1>2, <1>3
<1>5. /\ \A x \in Id' : Settled(x)'
      /\ \A x \in Id', y \in Customer : Reached(x, y)'
  BY <1>1, <1>3, <1>4, RowsCalm
<1>6. ASSUME NEW a \in Actor PROVE UpToDate(a)'
  <2>1. Fits(a, req[a]) /\ UpToDate(a)
    BY <1>1 DEF Inv, CalmInv
  <2>2. req[a].at \in {"accepting", "countering", "offering"} => req[a].b \in Id
    BY <2>1 DEF Fits
  <2>3. QED
    BY <1>1, <1>4, <2>1, <2>2 DEF UpToDate
<1>7. QED
  BY <1>1, <1>5, <1>6 DEF CalmInv, Alone, Busy

\* A step that touches no row and no request keeps the calm invariant.
LEMMA CalmStays ==
    ASSUME CalmInv, calm', UNCHANGED <<bargain, offer, shared, req, calm>>
    PROVE  CalmInv'
BY DEF CalmInv, Alone, Busy, UpToDate, Settled, Reached, Id

\* A request that ends without writing bargains or offers.
LEMMA CalmDrops ==
    ASSUME Inv, CalmInv, calm', NEW a \in Actor, Busy(a), Done(a),
           UNCHANGED <<bargain, offer, shared>>
    PROVE  CalmInv'
<1>1. calm /\ Id' = Id
  BY DEF Done, Id
<1>2. QED
  BY <1>1, CalmEnds, RowsCalm DEF Inv, CalmInv

\* Closing keeps the calm invariant: the row saved is the row that was
\* loaded.
LEMMA CalmSaveClose ==
    ASSUME Inv, Inv', CalmInv, calm', NEW a \in Desk, SaveClose(a)
    PROVE  CalmInv'
<1> DEFINE b == req[a].b
           status == Written("closed", req[a].row.status, bargain[b].status)
<1>1. /\ a \in Actor /\ Fits(a, req[a]) /\ req[a].at = "closing" /\ Done(a)
      /\ calm /\ UNCHANGED <<offer, shared>> /\ Busy(a)
      /\ bargain' = [bargain EXCEPT ![b] = Restated(b, status)]
  BY DEF Actor, Inv, SaveClose, Done, Put, Restated, Busy
<1>2. b \in Id /\ status \in {"closed", bargain[b].status}
  BY <1>1 DEF Fits, Written
<1>3. status \in Current \cup {"closed"}
  BY <1>2, RowOK DEF Inv, Row
<1> HIDE DEF b, status
<1>4. LET r == Restated(b, status)
      IN  /\ r.status = status /\ r.accepted = bargain[b].accepted
          /\ r.counter = bargain[b].counter
  BY <1>2, <1>3, RestatedOK DEF Inv
<1>5. /\ Id' = Id /\ bargain'[b] = Restated(b, status)
      /\ \A x \in Id \ {b} : bargain'[x] = bargain[x]
  BY <1>1, <1>2, Replaced DEF Inv
<1>6. \A x \in Id : /\ bargain'[x].status = "accepted" =>
                          bargain[x].status = "accepted"
                    /\ bargain'[x].accepted = bargain[x].accepted
                    /\ bargain'[x].counter = bargain[x].counter
  BY <1>2, <1>4, <1>5
<1>7. /\ \A x \in Id' : Settled(x)'
      /\ \A x \in Id', y \in Customer : Reached(x, y)'
  BY <1>1, <1>5, <1>6, RowsCalm
<1>8. QED
  BY <1>1, <1>7, CalmEnds DEF Inv, CalmInv

\* A counter never lands on a bargain that is accepted.
LEMMA CalmSaveCounter ==
    ASSUME Inv, Inv', CalmInv, calm', NEW a \in Desk, SaveCounter(a)
    PROVE  CalmInv'
<1> DEFINE b == req[a].b
           old == req[a].row
           status == Written("countered", old.status, bargain[b].status)
           counter == Written(req[a].price, old.counter, bargain[b].counter)
           r == [bargain[b] EXCEPT !.status = status, !.counter = counter]
<1>1. /\ a \in Actor /\ Fits(a, req[a]) /\ req[a].at = "countering" /\ Done(a)
      /\ calm /\ UNCHANGED <<offer, shared>> /\ Busy(a)
      /\ bargain' = [bargain EXCEPT ![b] = r]
  BY DEF Actor, Inv, SaveCounter, Done, Put, Busy
<1>2. b \in Id /\ UpToDate(a)
  BY <1>1 DEF Fits, CalmInv
<1>3. status # "accepted"
  BY <1>1, <1>2 DEF Written, UpToDate
<1>4. r.status = status
  BY <1>2, RowOK DEF Inv, Row
<1>5. b \in Id
  BY <1>2
<1> HIDE DEF b, old, status, counter, r
<1>6. /\ Id' = Id /\ bargain'[b] = r
      /\ \A x \in Id \ {b} : bargain'[x] = bargain[x]
  BY <1>1, <1>5, Replaced DEF Inv
<1>7. ASSUME NEW x \in Id' PROVE Settled(x)'
  BY <1>1, <1>3, <1>4, <1>6 DEF CalmInv, Settled
<1>8. \A x \in Id', y \in Customer : Reached(x, y)'
  BY <1>1, <1>6 DEF CalmInv, Reached
<1>9. QED
  BY <1>1, <1>7, <1>8, CalmEnds DEF Inv, CalmInv

\* A new bargain is open and nobody has an offer in it.
LEMMA CalmSaveStart ==
    ASSUME Inv, Inv', CalmInv, calm', NEW a \in Desk, SaveStart(a)
    PROVE  CalmInv'
<1> DEFINE n == Len(bargain)
<1>1. /\ a \in Actor /\ Done(a) /\ calm /\ UNCHANGED <<offer, shared>> /\ Busy(a)
  BY DEF Actor, SaveStart, Done, Busy
<1>2. /\ n + 1 \in 1..MaxBargains /\ n + 1 \notin Id /\ Id' = Id \cup {n + 1}
      /\ \A x \in Id : /\ bargain'[x].accepted = bargain[x].accepted
                       /\ bargain'[x].counter = bargain[x].counter
                       /\ bargain'[x].status \in {bargain[x].status, "closed"}
      /\ bargain'[n + 1].status = "open"
  BY StartWrites
<1> HIDE DEF n
<1>3. ASSUME NEW x \in Id' PROVE Settled(x)'
  <2>1. CASE x = n + 1
    BY <1>2, <2>1 DEF Settled
  <2>2. CASE x \in Id
    BY <1>1, <1>2, <2>2 DEF CalmInv, Settled
  <2>3. QED
    BY <1>2, <2>1, <2>2
<1>4. \A y \in Customer : offer[n + 1][y] \notin OfferRow
  BY <1>2 DEF Inv, OfferFits
<1>5. ASSUME NEW x \in Id', NEW y \in Customer PROVE Reached(x, y)'
  BY <1>1, <1>2, <1>4 DEF CalmInv, Reached
<1>6. QED
  BY <1>1, <1>3, <1>5, CalmEnds DEF Inv, CalmInv

\* An offer joins a bargain that has no price yet, and waits.
LEMMA CalmSaveOffer ==
    ASSUME Inv, Inv', CalmInv, calm', NEW c \in Customer, SaveOffer(c)
    PROVE  CalmInv'
<1> DEFINE b == req[c].b
           mine == req[c].offers
           now == offer[b][c]
           o == IF mine = None
                THEN [price |-> req[c].price, status |-> "active"]
                ELSE [price |-> Written(req[c].price, mine.price, now.price),
                      status |-> Written("active", mine.status, now.status)]
<1>1. /\ c \in Actor /\ Fits(c, req[c]) /\ req[c].at = "offering" /\ Done(c)
      /\ calm /\ UNCHANGED <<bargain, shared>> /\ Busy(c)
      /\ offer' = [offer EXCEPT ![b][c] = o]
  BY DEF Actor, Inv, SaveOffer, Done, Busy
<1>2. b \in Id /\ UpToDate(c) /\ Id' = Id
  BY <1>1 DEF Fits, CalmInv, Id
<1>3. mine = now /\ bargain[b].status # "accepted"
  BY <1>1, <1>2 DEF UpToDate
<1>4. o.status = "active"
  BY <1>3 DEF Written
<1>5. b \in Id /\ \A x \in Id : x \in 1..MaxBargains
  BY <1>2, RowOK DEF Inv
<1> HIDE DEF b, mine, now, o
<1>6. /\ offer'[b][c] = o
      /\ \A x \in Id, y \in Customer :
            x # b \/ y # c => offer'[x][y] = offer[x][y]
  <2> DEFINE told == [offer[b] EXCEPT ![c] = o]
  <2>1. offer[b] \in Offers
    BY <1>5 DEF Inv, TypeInv
  <2>2. told[c] = o /\ \A y \in Customer \ {c} : told[y] = offer[b][y]
    BY <2>1 DEF Offers
  <2>3. offer' = [offer EXCEPT ![b] = told]
    BY <1>1
  <2> HIDE DEF told
  <2>4. offer'[b] = told /\ \A x \in Id : x # b => offer'[x] = offer[x]
    BY <1>5, <2>3 DEF Inv, TypeInv
  <2>5. QED
    BY <2>2, <2>4
<1>7. ASSUME NEW x \in Id' PROVE Settled(x)'
  BY <1>1, <1>2, <1>3, <1>6 DEF CalmInv, Settled
<1>8. ASSUME NEW x \in Id', NEW y \in Customer PROVE Reached(x, y)'
  <2>1. CASE x = b /\ y = c
    BY <1>4, <1>6, <2>1 DEF Reached
  <2>2. CASE x # b \/ y # c
    BY <1>1, <1>2, <1>6, <2>2 DEF CalmInv, Reached
  <2>3. QED
    BY <2>1, <2>2
<1>9. QED
  BY <1>1, <1>7, <1>8, CalmEnds DEF Inv, CalmInv

\* An acceptance answers every offer there is and leaves no counter.
LEMMA CalmSaveAccept ==
    ASSUME Inv, Inv', CalmInv, calm', NEW a \in Desk, SaveAccept(a)
    PROVE  CalmInv'
<1> DEFINE b == req[a].b
           price == req[a].price
           old == req[a].row
           loaded == req[a].offers
           status == Written("accepted", old.status, bargain[b].status)
           accepted == Written(price, old.accepted, bargain[b].accepted)
           counter == Written(None, old.counter, bargain[b].counter)
           r == [bargain[b] EXCEPT !.status = status, !.accepted = accepted,
                                   !.counter = counter]
           told == [c \in Customer |->
                      IF loaded[c] # None /\ loaded[c].status = "active"
                      THEN [offer[b][c] EXCEPT
                              !.status = Verdict(loaded[c], price)]
                      ELSE offer[b][c]]
<1>1. /\ a \in Actor /\ Fits(a, req[a]) /\ req[a].at = "accepting" /\ Done(a)
      /\ calm /\ Busy(a) /\ bargain' = [bargain EXCEPT ![b] = r]
      /\ offer' = [offer EXCEPT ![b] = told]
      /\ shared' = [shared EXCEPT ![b] = shared[b] \cup {price}]
  BY DEF Actor, Inv, SaveAccept, Done, Put, Busy
<1>2. b \in Id /\ price \in Nat /\ UpToDate(a)
  BY <1>1 DEF Fits, CalmInv
<1>3. /\ loaded = offer[b] /\ old.counter = bargain[b].counter
      /\ old.accepted = bargain[b].accepted
  BY <1>1, <1>2 DEF UpToDate
<1>4. accepted = price /\ counter = None
  BY <1>3 DEF Written
<1>5. r.accepted = accepted /\ r.counter = counter
  BY <1>2, RowOK DEF Inv, Row
<1>6. b \in 1..MaxBargains /\ offer[b] \in Offers /\ None \notin OfferRow
  BY <1>2, RowOK, BargainAssumption DEF Inv, TypeInv, OfferRow
<1>7. ASSUME NEW c \in Customer, told[c] \in OfferRow
      PROVE  /\ told[c].status # "active"
             /\ told[c].status = "accepted" =>
                   \E q \in shared[b] \cup {price} : told[c].price >= q
  <2>1. offer[b][c] \in OfferRow \cup {None}
    BY <1>6 DEF Offers
  <2>2. CASE offer[b][c] # None /\ offer[b][c].status = "active"
    <3>1. offer[b][c] \in OfferRow
      BY <2>1, <2>2
    <3>2. told[c] = [offer[b][c] EXCEPT !.status = Verdict(offer[b][c], price)]
      BY <1>3, <2>2
    <3>3. /\ told[c].status = Verdict(offer[b][c], price)
          /\ told[c].price = offer[b][c].price
      BY <3>1, <3>2 DEF OfferRow
    <3>4. QED
      BY <3>3 DEF Verdict
  <2>3. CASE ~(offer[b][c] # None /\ offer[b][c].status = "active")
    <3>1. told[c] = offer[b][c]
      BY <1>3, <2>3
    <3>2. Reached(b, c)
      BY <1>1, <1>2 DEF CalmInv
    <3>3. QED
      BY <1>6, <1>7, <2>3, <3>1, <3>2 DEF Reached
  <2>4. QED
    BY <2>2, <2>3
<1>8. b \in Id
  BY <1>2
<1> HIDE DEF b, price, old, loaded, status, accepted, counter, r, told
<1>9. /\ Id' = Id /\ bargain'[b] = r
      /\ \A x \in Id \ {b} : bargain'[x] = bargain[x]
  BY <1>1, <1>8, Replaced DEF Inv
<1>10. \A x \in Id : x \in 1..MaxBargains
  BY RowOK DEF Inv
<1>11. /\ offer'[b] = told
       /\ \A x \in Id \ {b} : offer'[x] = offer[x]
  BY <1>1, <1>6, <1>10 DEF Inv, TypeInv
<1>12. /\ shared'[b] = shared[b] \cup {price}
       /\ \A x \in Id \ {b} : shared'[x] = shared[x]
  BY <1>1, <1>6, <1>10 DEF Inv, TypeInv
<1>13. ASSUME NEW x \in Id' PROVE Settled(x)'
  <2>1. CASE x = b
    BY <1>4, <1>5, <1>7, <1>9, <1>11, <1>12, <2>1 DEF Settled
  <2>2. CASE x # b
    <3>1. Settled(x)
      BY <1>1, <1>9 DEF CalmInv
    <3>2. QED
      BY <1>9, <1>11, <1>12, <2>2, <3>1 DEF Settled
  <2>3. QED
    BY <2>1, <2>2
<1>14. ASSUME NEW x \in Id', NEW y \in Customer PROVE Reached(x, y)'
  <2>1. CASE x = b
    BY <1>7, <1>11, <1>12, <2>1 DEF Reached
  <2>2. CASE x # b
    <3>1. Reached(x, y)
      BY <1>1, <1>9 DEF CalmInv
    <3>2. QED
      BY <1>9, <1>11, <1>12, <2>2, <3>1 DEF Reached
  <2>3. QED
    BY <2>1, <2>2
<1>15. QED
  BY <1>1, <1>13, <1>14, CalmEnds DEF Inv, CalmInv

\* The calm invariant holds at the start.
LEMMA CalmInit == Init => CalmInv
<1> SUFFICES ASSUME Init PROVE CalmInv
  OBVIOUS
<1>1. Id = {} /\ \A a \in Actor : req[a].at = "idle"
  BY IdleOK DEF Init, Id
<1>2. QED
  BY <1>1 DEF CalmInv, Alone, Busy, UpToDate

\* Every step keeps the calm invariant.
LEMMA CalmNext == Inv /\ CalmInv /\ [Next]_vars => CalmInv'
<1> SUFFICES ASSUME Inv, CalmInv, [Next]_vars, calm' PROVE CalmInv'
  BY DEF CalmInv
<1>1. Inv'
  BY InvNext
<1>2. CASE UNCHANGED vars
  BY <1>2, CalmStays DEF vars
<1>3. ASSUME NEW c \in Customer, SaveDeal(c) PROVE CalmInv'
  BY <1>3, CalmDrops DEF SaveDeal, Busy, Actor
<1>4. ASSUME NEW a \in Actor, Dies(a) PROVE CalmInv'
  BY <1>4, CalmDrops DEF Dies, Busy
<1>5. ASSUME NEW c \in Customer, NEW p \in Product, DealEnds(c, p)
      PROVE  CalmInv'
  BY <1>5, CalmStays DEF DealEnds
<1>6. CASE Broadcast
  BY <1>6, CalmStays DEF Broadcast
<1>7. QED
  BY <1>1, <1>2, <1>3, <1>4, <1>5, <1>6, Steps, CalmReadForStart,
     CalmReadForAccept, CalmReadForCounter, CalmReadForClose, CalmSaveStart,
     CalmSaveAccept, CalmSaveCounter, CalmSaveClose, CalmReadForOffer,
     CalmOfferTooLate, CalmReadForDeal, CalmSaveOffer, CalmPoll, CalmTimeIsOver

\* Accepting a price leaves no offer waiting and no counter standing, unless
\* requests overlap.
THEOREM SettledByAcceptance == Spec => []AcceptanceSettles
<1>1. Inv /\ CalmInv => AcceptanceSettles
  <2> SUFFICES ASSUME Inv, CalmInv, calm,
                      NEW b \in Id, bargain[b].status = "accepted"
               PROVE  /\ bargain[b].accepted \in shared[b]
                      /\ bargain[b].counter = None
                      /\ \A c \in Customer : offer[b][c] # None =>
                                                offer[b][c].status # "active"
    BY DEF AcceptanceSettles
  <2>1. Settled(b) /\ b \in 1..MaxBargains
    BY RowOK DEF CalmInv, Inv
  <2>2. \A c \in Customer : offer[b][c] \in OfferRow \cup {None}
    BY <2>1 DEF Inv, TypeInv, Offers
  <2>3. QED
    BY <2>1, <2>2 DEF Settled
<1>2. QED
  BY <1>1, InvInit, InvNext, CalmInit, CalmNext, PTL DEF Spec

\* Whoever is told "accepted" has offered a price the vendor accepted, unless
\* requests overlap.
THEOREM AcceptedReached == Spec => []AcceptedOffersReachPrice
<1>1. Inv /\ CalmInv => AcceptedOffersReachPrice
  <2> SUFFICES ASSUME Inv, CalmInv, calm, NEW b \in Id, NEW c \in Customer,
                      offer[b][c] # None, offer[b][c].status = "accepted"
               PROVE  \E price \in shared[b] : offer[b][c].price >= price
    BY DEF AcceptedOffersReachPrice
  <2>1. Reached(b, c) /\ b \in 1..MaxBargains
    BY RowOK DEF CalmInv, Inv
  <2>2. offer[b][c] \in OfferRow
    BY <2>1 DEF Inv, TypeInv, Offers
  <2>3. QED
    BY <2>1, <2>2 DEF Reached
<1>2. QED
  BY <1>1, InvInit, InvNext, CalmInit, CalmNext, PTL DEF Spec
=============================================================================
