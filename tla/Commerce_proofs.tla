--------------------------- MODULE Commerce_proofs ---------------------------
(* Theorems about Commerce, for every value of its constants. *)
EXTENDS CommerceBook, TLAPS

-----------------------------------------------------------------------------
(* Arithmetic and records.                                                 *)

\* An integer percentage of a natural number, rounded down, lies between
\* zero and the number.
LEMMA PercentBounds ==
    ASSUME NEW a \in Nat, NEW r \in 0..100
    PROVE  (a * r) \div 100 \in Nat /\ (a * r) \div 100 <= a
<1>1. PICK k \in Nat : k = 100 - r
  OBVIOUS
<1>2. a * r \in Nat /\ a * k \in Nat
  BY <1>1
<1>3. a * r + a * k = a * 100
  BY <1>1
<1>4. QED
  BY <1>2, <1>3

\* The commission on a line is never negative and never exceeds the line.
LEMMA CommissionBounds ==
    ASSUME NEW amount \in Nat, NEW v \in Vendor
    PROVE  /\ Commission(amount, v) \in Nat
           /\ Commission(amount, v) <= amount
BY PercentBounds, CommerceAssumption DEF Commission

\* Elements of a sequence over S are in S.
LEMMA ElementType ==
    ASSUME NEW S, NEW s \in Seq(S), NEW i \in DOMAIN s
    PROVE  s[i] \in S
OBVIOUS

\* The empty sequence has no elements.
LEMMA NoElements == DOMAIN <<>> = {}
OBVIOUS

\* The lines of a request and of an order name deals, or none.
LEMMA LineDeal ==
    ASSUME NEW s \in Seq(Line), NEW i \in DOMAIN s
    PROVE  s[i].deal \in Deal \cup {None}
<1>1. s[i] \in Line
  BY ElementType
<1>2. QED
  BY <1>1 DEF Line

\* An idle request is a request.
LEMMA IdleType == Idle \in JobRow
BY CommerceAssumption DEF Idle, JobRow

-----------------------------------------------------------------------------
(* Type correctness.                                                       *)

Pending(j) == /\ j.at \in {"adding", "priced"} => j.product # None
                                                  /\ j.quantity # None
              /\ j.at = "ordering" => j.order # None

\* TypeOK, and what a step that changes one request has to show for it.
JobsOK == /\ job \in [Customer -> JobRow]
          /\ \A c \in Customer : Pending(job[c])

\* TypeOK says of the requests what JobsOK says.
LEMMA TypeJobs == TypeOK => JobsOK
BY DEF TypeOK, JobsOK, Pending

\* A step that gives one request a well-formed value keeps JobsOK.
LEMMA JobStep ==
    ASSUME JobsOK, NEW c \in Customer, NEW r \in JobRow, Pending(r),
           job' = [job EXCEPT ![c] = r]
    PROVE  JobsOK'
BY DEF JobsOK

\* An idle request is well-formed.
LEMMA IdleOK == Idle \in JobRow /\ Pending(Idle)
BY IdleType DEF Idle, Pending

\* The initial state is well-typed.
LEMMA TypeInit == Init => TypeOK
<1> SUFFICES ASSUME Init PROVE TypeOK
  OBVIOUS
<1>1. JobsOK
  BY IdleOK DEF Init, JobsOK
<1>2. \A p \in Product : InitialTag[p].price \in Nat
  BY CommerceAssumption DEF TagRow
<1>3. asked \in [Product -> SUBSET Nat]
  BY <1>2 DEF Init
<1>4. QED
  BY <1>1, <1>3, CommerceAssumption DEF Init, TypeOK, JobsOK, Pending

\* add_item's checks keep the types.
LEMMA TypeAddItem ==
    ASSUME TypeOK, NEW c \in Customer, NEW p \in Product,
           NEW q \in Quantity, NEW live \in BOOLEAN, AddItem(c, p, q, live)
    PROVE  TypeOK'
<1> DEFINE r == [Idle EXCEPT !.at = "adding", !.product = p,
                             !.quantity = q, !.live = live]
<1>1. r \in JobRow
  BY IdleType DEF JobRow
<1>2. p # None /\ q # None
  BY CommerceAssumption
<1>3. Pending(r)
  BY <1>2, IdleType DEF Pending, JobRow
<1> HIDE DEF r
<1>4. job' = [job EXCEPT ![c] = r] /\ UNCHANGED <<store, edit>>
  BY DEF AddItem, r
<1>5. JobsOK'
  BY <1>1, <1>3, <1>4, TypeJobs, JobStep
<1>6. QED
  BY <1>4, <1>5 DEF TypeOK, store, JobsOK, Pending

\* Finding or granting a deal keeps the types.
LEMMA TypeFindDeal ==
    ASSUME TypeOK, NEW c \in Customer, FindDeal(c)
    PROVE  TypeOK'
<1> DEFINE p == job[c].product
<1>1. job[c] \in JobRow /\ Pending(job[c]) /\ job[c].at = "adding" /\ JobsOK
  BY TypeJobs DEF FindDeal, JobsOK
<1>2. p \in Product /\ job[c].quantity # None
  BY <1>1 DEF Pending, JobRow
<1>3. ASSUME NEW d \in Deal \cup {None},
             job' = [job EXCEPT ![c].at = "priced", ![c].deal = d]
      PROVE  JobsOK'
  <2> DEFINE r == [job[c] EXCEPT !.at = "priced", !.deal = d]
  <2>1. r \in JobRow /\ Pending(r)
    BY <1>1, <1>2 DEF JobRow, Pending
  <2>2. job' = [job EXCEPT ![c] = r]
    BY <1>3
  <2> HIDE DEF r
  <2>3. QED
    BY <1>1, <2>1, <2>2, JobStep
<1>4. ASSUME job' = [job EXCEPT ![c].at = "priced"]
      PROVE  JobsOK'
  <2> DEFINE r == [job[c] EXCEPT !.at = "priced"]
  <2>1. r \in JobRow /\ Pending(r)
    BY <1>1, <1>2 DEF JobRow, Pending
  <2>2. job' = [job EXCEPT ![c] = r]
    BY <1>4
  <2> HIDE DEF r
  <2>3. QED
    BY <1>1, <2>1, <2>2, JobStep
<1>5. JobsOK'
  BY <1>3, <1>4 DEF FindDeal, OpenDeals
<1>6. deal' \in [Deal -> DealRow \cup {None}]
  <2>1. offer[p] # None => NewDeal(c, p) \in DealRow
    BY <1>2 DEF TypeOK, NewDeal, DealRow
  <2>2. QED
    BY <2>1 DEF FindDeal, TypeOK
<1>7. QED
  BY <1>5, <1>6 DEF TypeOK, FindDeal, JobsOK, Pending

\* Saving the cart row keeps the types: the product and quantity are known.
LEMMA TypeSaveRow ==
    ASSUME TypeOK, NEW c \in Customer, SaveRow(c)
    PROVE  TypeOK'
<1> DEFINE p == job[c].product
<1>1. job[c] \in JobRow /\ Pending(job[c]) /\ job[c].at = "priced" /\ JobsOK
  BY TypeJobs DEF SaveRow, JobsOK
<1>2. /\ p \in Product
      /\ job[c].quantity \in Nat \ {0}
      /\ job[c].deal \in Deal \cup {None}
  BY <1>1, CommerceAssumption DEF Pending, JobRow
<1>3. JobsOK'
  BY <1>1, IdleOK, JobStep DEF SaveRow
<1>4. cart' \in [Customer -> [Product -> CartRow \cup {None}]]
  BY <1>2 DEF SaveRow, TypeOK, CartRow
<1>5. QED
  BY <1>3, <1>4 DEF TypeOK, SaveRow, JobsOK, Pending

\* Drawing an order id keeps the types.
LEMMA TypeCheckout ==
    ASSUME TypeOK, NEW c \in Customer, NEW payload \in Payload,
           Checkout(c, payload)
    PROVE  TypeOK'
<1>1. PICK o \in Order :
         job' = [job EXCEPT ![c] = [Idle EXCEPT !.at = "ordering",
                                                !.order = o,
                                                !.todo = payload]]
  BY DEF Checkout
<1> DEFINE r == [Idle EXCEPT !.at = "ordering", !.order = o,
                             !.todo = payload]
<1>2. r \in JobRow /\ Pending(r)
  <2>1. payload \in Seq(PayloadLine) /\ o # None
    BY CommerceAssumption
  <2>2. QED
    BY <2>1, IdleType DEF JobRow, Pending
<1>3. job' = [job EXCEPT ![c] = r]
  BY <1>1
<1> HIDE DEF r
<1>4. JobsOK'
  BY <1>2, <1>3, TypeJobs, JobStep
<1>5. QED
  BY <1>4 DEF TypeOK, Checkout, store, JobsOK, Pending

\* What a line is charged is a natural number.
LEMMA PricesType ==
    ASSUME TypeOK, NEW c \in Customer, NEW p \in Product,
           NEW d, d = None \/ deal[d] \in DealRow
    PROVE  TagOf(c, p) \in TagRow /\ UnitPrice(c, p, d) \in Nat
<1>1. TagOf(c, p) \in TagRow
  BY DEF TagOf, TypeOK, JobRow
<1>2. d # None => deal[d].price \in Nat
  BY CommerceAssumption DEF DealRow
<1>3. QED
  BY <1>1, <1>2 DEF UnitPrice, TagRow

\* One more line keeps a request well-formed.
LEMMA WithLineType ==
    ASSUME TypeOK, NEW c \in Customer, job[c].todo # <<>>,
           NEW d \in DealFor(c, Head(job[c].todo).product)
    PROVE  /\ WithLine(c, Head(job[c].todo), d) \in JobRow
           /\ WithLine(c, Head(job[c].todo), d).at = job[c].at
           /\ WithLine(c, Head(job[c].todo), d).order = job[c].order
<1> DEFINE l == Head(job[c].todo)
           p == l.product
           amount == UnitPrice(c, p, d) * l.quantity
           line == [product |-> p, quantity |-> l.quantity,
                    price |-> UnitPrice(c, p, d), deal |-> d]
<1>1. job[c] \in JobRow
  BY DEF TypeOK
<1>2. l \in PayloadLine /\ Tail(job[c].todo) \in Seq(PayloadLine)
  BY <1>1 DEF JobRow
<1>3. p \in Product /\ l.quantity \in Quantity /\ l.quantity \in Nat
  BY <1>2, CommerceAssumption DEF PayloadLine
<1>4. d \in Deal \cup {None} /\ (d # None => deal[d] \in DealRow)
  BY DEF DealFor, OpenDeals, IsOpen, TypeOK
<1>5. TagOf(c, p) \in TagRow /\ UnitPrice(c, p, d) \in Nat
  BY <1>3, <1>4, PricesType
<1>6. amount \in Nat
  BY <1>3, <1>5
<1>7. Commission(amount, VendorOf[p]) \in Nat
  BY <1>3, <1>6, CommissionBounds, CommerceAssumption
<1>8. line \in Line
  BY <1>3, <1>4, <1>5 DEF Line
<1> HIDE DEF amount, line
<1>9. OnHand(c, p) - l.quantity \in Int
  BY <1>1, <1>3 DEF OnHand, Loaded, JobRow, TypeOK
<1>10. TagOf(c, p).courier \in Nat
  BY <1>5 DEF TagRow
<1>11. Append(job[c].lines, line) \in Seq(Line)
  BY <1>1, <1>8 DEF JobRow
<1>12. /\ [job[c].seen EXCEPT ![p] = OnHand(c, p) - l.quantity]
             \in [Product -> Int \cup {None}]
       /\ [job[c].tags EXCEPT ![p] = TagOf(c, p)] \in [Product -> TagRow]
  BY <1>1, <1>5, <1>9 DEF JobRow
<1>13. /\ job[c].total + amount \in Nat
       /\ job[c].courier + TagOf(c, p).courier \in Nat
       /\ job[c].commission + Commission(amount, VendorOf[p]) \in Nat
  <2>1. /\ job[c].total \in Nat /\ job[c].courier \in Nat
        /\ job[c].commission \in Nat
    BY <1>1 DEF JobRow
  <2>2. \A x, y \in Nat : x + y \in Nat
    OBVIOUS
  <2>3. QED
    BY <2>1, <2>2, <1>6, <1>7, <1>10
<1>14. WithLine(c, l, d) = [job[c] EXCEPT
          !.todo = Tail(job[c].todo),
          !.seen = [job[c].seen EXCEPT ![p] = OnHand(c, p) - l.quantity],
          !.tags = [job[c].tags EXCEPT ![p] = TagOf(c, p)],
          !.lines = Append(job[c].lines, line),
          !.total = job[c].total + amount,
          !.courier = job[c].courier + TagOf(c, p).courier,
          !.commission = job[c].commission + Commission(amount, VendorOf[p])]
  BY Zenon DEF WithLine, amount, line
<1>15. QED
  BY <1>1, <1>2, <1>11, <1>12, <1>13, <1>14 DEF JobRow

\* One turn of the checkout loop keeps the types.
LEMMA TypeSellLine ==
    ASSUME TypeOK, NEW c \in Customer, SellLine(c)
    PROVE  TypeOK'
<1>1. PICK d \in DealFor(c, Head(job[c].todo).product) :
         job' = [job EXCEPT ![c] = WithLine(c, Head(job[c].todo), d)]
  BY DEF SellLine
<1>2. job[c].todo # <<>> /\ Pending(job[c]) /\ JobsOK
  BY TypeJobs DEF SellLine, JobsOK
<1> DEFINE r == WithLine(c, Head(job[c].todo), d)
<1>3. r \in JobRow /\ r.at = job[c].at /\ r.order = job[c].order
  BY <1>2, WithLineType
<1>4. job[c].at = "ordering"
  BY DEF SellLine
<1> HIDE DEF r
<1>5. Pending(r)
  BY <1>2, <1>3, <1>4 DEF Pending
<1>6. JobsOK'
  BY <1>1, <1>2, <1>3, <1>5, JobStep DEF r
<1>7. QED
  BY <1>6 DEF TypeOK, SellLine, store, JobsOK, Pending

\* Placing the order keeps the types: its id and deals are known.
LEMMA TypePlaceOrder ==
    ASSUME TypeOK, CheckoutConsistent, NEW c \in Customer, PlaceOrder(c)
    PROVE  TypeOK'
<1>1. job[c] \in JobRow /\ JobsOK
  BY TypeJobs DEF JobsOK
<1>2. JobsOK'
  <2> DEFINE r == [Idle EXCEPT !.at = "clearing"]
  <2>1. r \in JobRow /\ Pending(r)
    BY IdleType DEF JobRow, Pending
  <2>2. job' = [job EXCEPT ![c] = r]
    BY DEF PlaceOrder
  <2> HIDE DEF r
  <2>3. QED
    BY <1>1, <2>1, <2>2, JobStep
<1>3. orders' \in [Order -> OrderRow \cup {None}]
  <2>1. OrderOf(c) \in OrderRow
    BY <1>1 DEF OrderOf, OrderRow, JobRow
  <2>2. QED
    BY <2>1 DEF PlaceOrder, TypeOK
<1>4. stock' \in [Product -> Int]
  BY <1>1 DEF PlaceOrder, OnHand, Loaded, JobRow, TypeOK
<1>5. deal' \in [Deal -> DealRow \cup {None}]
  <2>1. \A d \in DealsIn(job[c].lines) : d \in Deal => deal[d] \in DealRow
    BY DEF DealsIn, CheckoutConsistent, LinesCovered, Covered, TypeOK
  <2>2. DealsIn(job[c].lines) # {} => job[c].order \in Order
    BY <1>1, TypeJobs DEF PlaceOrder, JobsOK, Pending, JobRow
  <2>3. QED
    BY <2>1, <2>2 DEF PlaceOrder, TypeOK, DealRow
<1>6. QED
  BY <1>2, <1>3, <1>4, <1>5 DEF TypeOK, PlaceOrder, JobsOK, Pending

\* A step that only puts one request back to idle, or changes no request.
LEMMA JobToIdle ==
    ASSUME TypeOK, NEW c \in Customer, job' = [job EXCEPT ![c] = Idle]
    PROVE  JobsOK'
BY TypeJobs, IdleOK, JobStep

\* Every step keeps the types, given that checkouts are consistent.
LEMMA TypeNext == TypeOK /\ CheckoutConsistent /\ [Next]_vars => TypeOK'
<1> SUFFICES ASSUME TypeOK, CheckoutConsistent, [Next]_vars PROVE TypeOK'
  OBVIOUS
<1>1. ASSUME NEW c \in Customer, CustomerNext(c) PROVE TypeOK'
  <2>1. ASSUME NEW p \in Product, NEW q \in Quantity, UpdateItem(c, p, q)
        PROVE  TypeOK'
    <3>1. cart[c][p] \in CartRow /\ q \in Nat \ {0}
      BY <2>1, CommerceAssumption DEF UpdateItem, TypeOK
    <3>2. [cart[c][p] EXCEPT !.quantity = q] \in CartRow
      BY <3>1 DEF CartRow
    <3>3. cart' \in [Customer -> [Product -> CartRow \cup {None}]]
      BY <2>1, <3>2 DEF UpdateItem, TypeOK
    <3>4. QED
      BY <2>1, <3>3 DEF UpdateItem, TypeOK
  <2>2. ASSUME NEW p \in Product, DeleteItem(c, p) PROVE TypeOK'
    BY <2>2 DEF DeleteItem, TypeOK
  <2>3. CASE RejectLine(c)
    BY <2>3, JobToIdle DEF RejectLine, store, TypeOK, JobsOK, Pending
  <2>4. CASE ClearCart(c)
    BY <2>4, JobToIdle DEF ClearCart, TypeOK, JobsOK, Pending
  <2>5. QED
    BY <1>1, <2>1, <2>2, <2>3, <2>4, TypeAddItem, TypeFindDeal, TypeSaveRow,
       TypeCheckout, TypeSellLine, TypePlaceOrder DEF CustomerNext
<1>2. ASSUME NEW p \in Product, VendorNext(p) PROVE TypeOK'
  <2>1. ASSUME NEW op \in VendorOp, LoadProduct(p, op) PROVE TypeOK'
    BY <2>1, CommerceAssumption DEF LoadProduct, EditRow, store, TypeOK
  <2>2. CASE UpdateProduct(p)
    <3>1. PICK n \in StockInput \cup {edit[p].stock}, on \in BOOLEAN,
               t \in TagInput \cup {edit[p].tag} :
             /\ stock' = [stock EXCEPT ![p] = Written(n, edit[p].stock, @)]
             /\ active' = [active EXCEPT ![p] = Written(on, edit[p].active, @)]
             /\ tag' = [tag EXCEPT ![p] = WrittenTag(t, edit[p].tag, @)]
      BY <2>2 DEF UpdateProduct
    <3>2. edit[p] \in EditRow /\ n \in Int /\ t \in TagRow
      BY <2>2, CommerceAssumption DEF UpdateProduct, EditRow, TypeOK
    <3>3. stock' \in [Product -> Int]
      BY <3>1, <3>2 DEF Written, TypeOK
    <3>4. active' \in [Product -> BOOLEAN]
      BY <3>1 DEF Written, TypeOK
    <3>5. WrittenTag(t, edit[p].tag, tag[p]) \in TagRow
      <4>1. edit[p].tag \in TagRow /\ tag[p] \in TagRow
        BY <3>2 DEF EditRow, TypeOK
      <4>2. QED
        BY <3>2, <4>1 DEF WrittenTag, Written, TagRow
    <3>6. tag' \in [Product -> TagRow]
      BY <3>1, <3>5 DEF TypeOK
    <3>7. asked' \in [Product -> SUBSET Nat]
      <4>1. tag'[p].price \in Nat
        BY <3>6 DEF TagRow
      <4>2. QED
        BY <2>2, <4>1 DEF UpdateProduct, TypeOK
    <3>8. QED
      BY <2>2, <3>3, <3>4, <3>6, <3>7 DEF UpdateProduct, TypeOK
  <2>3. CASE DeleteProduct(p)
    <3>1. cart' \in [Customer -> [Product -> CartRow \cup {None}]]
      BY <2>3 DEF DeleteProduct, TypeOK
    <3>2. stock' \in [Product -> Int]
      BY <2>3 DEF DeleteProduct, Written, TypeOK
    <3>3. active' \in [Product -> BOOLEAN]
      BY <2>3 DEF DeleteProduct, Written, TypeOK
    <3>4. QED
      BY <2>3, <3>1, <3>2, <3>3 DEF DeleteProduct, TypeOK
  <2>4. QED
    BY <1>2, <2>1, <2>2, <2>3 DEF VendorNext
<1>3. CASE Environment
  <2>1. ASSUME NEW v \in Suspendable, SetVendorStatus(v) PROVE TypeOK'
    <3>1. approved' \in [Vendor -> BOOLEAN]
      BY <2>1, Zenon DEF SetVendorStatus, TypeOK
    <3>2. QED
      BY <2>1, <3>1 DEF SetVendorStatus, TypeOK
  <2>2. ASSUME NEW p \in Product, BargainMoves(p) PROVE TypeOK'
    BY <2>2 DEF BargainMoves, TypeOK
  <2>3. ASSUME NEW d \in Deal, DealExpires(d) PROVE TypeOK'
    <3>1. deal[d] \in DealRow
      BY <2>3 DEF DealExpires, IsOpen, TypeOK
    <3>2. [deal[d] EXCEPT !.fresh = FALSE] \in DealRow
      BY <3>1 DEF DealRow
    <3>3. QED
      BY <2>3, <3>2 DEF DealExpires, TypeOK
  <2>4. CASE Restart
    <3>1. JobsOK'
      BY <2>4, IdleOK DEF Restart, JobsOK
    <3>2. QED
      BY <2>4, <3>1 DEF Restart, store, TypeOK, JobsOK, Pending
  <2>5. QED
    BY <1>3, <2>1, <2>2, <2>3, <2>4 DEF Environment
<1>4. CASE UNCHANGED vars
  BY <1>4 DEF vars, TypeOK
<1>5. QED
  BY <1>1, <1>2, <1>3, <1>4 DEF Next

-----------------------------------------------------------------------------
(* What a step may do to a request: restart its totals, sell a line, or    *)
(* leave what it has loaded and added up.                                  *)

Resting(j) == /\ j.total = 0 /\ j.courier = 0 /\ j.commission = 0
              /\ j.seen = [p \in Product |-> None]
              /\ j.tags = InitialTag

Selling(c) ==
    /\ SellLine(c)
    /\ \E d \in DealFor(c, Head(job[c].todo).product) :
          job'[c] = WithLine(c, Head(job[c].todo), d)

Unsold(c) ==
    /\ job'[c].total = job[c].total /\ job'[c].courier = job[c].courier
    /\ job'[c].commission = job[c].commission /\ job'[c].seen = job[c].seen
    /\ job'[c].tags = job[c].tags

\* Every step does one of the three to every request.
LEMMA RequestSteps ==
    ASSUME TypeOK, [Next]_vars, NEW c \in Customer
    PROVE  Resting(job'[c]) \/ Selling(c) \/ Unsold(c)
<1>1. Resting(Idle)
  BY DEF Resting, Idle
<1>2. CASE job' = job
  BY <1>2 DEF Unsold
<1>3. ASSUME NEW b \in Customer, CustomerNext(b)
      PROVE  Resting(job'[c]) \/ Selling(c) \/ Unsold(c)
  <2>1. job[b] \in JobRow
    BY DEF TypeOK
  <2>2. ASSUME NEW r, job' = [job EXCEPT ![b] = r], c # b
        PROVE  Unsold(c)
    BY <2>2 DEF TypeOK, Unsold
  <2>3. CASE c = b
    <3>1. ASSUME NEW p \in Product, NEW q \in Quantity, NEW live \in BOOLEAN,
                 AddItem(b, p, q, live)
          PROVE  Resting(job'[c])
      BY <2>3, <3>1 DEF AddItem, Idle, Resting, TypeOK
    <3>2. CASE FindDeal(b)
      BY <2>1, <2>3, <3>2 DEF FindDeal, Unsold, JobRow, TypeOK
    <3>3. CASE job' = [job EXCEPT ![b] = Idle]
      BY <1>1, <2>3, <3>3 DEF TypeOK
    <3>4. ASSUME NEW payload \in Payload, Checkout(b, payload)
          PROVE  Resting(job'[c])
      BY <2>3, <3>4 DEF Checkout, Idle, Resting, TypeOK
    <3>5. CASE SellLine(b)
      BY <2>3, <3>5 DEF SellLine, Selling, TypeOK
    <3>6. CASE PlaceOrder(b)
      BY <2>3, <3>6 DEF PlaceOrder, Idle, Resting, TypeOK
    <3>7. QED
      BY <1>2, <1>3, <3>1, <3>2, <3>3, <3>4, <3>5, <3>6
         DEF CustomerNext, SaveRow, UpdateItem, DeleteItem, RejectLine,
             ClearCart
  <2>4. CASE c # b
    <3>1. CASE FindDeal(b)
      BY <2>4, <3>1 DEF FindDeal, Unsold, TypeOK
    <3>2. QED
      BY <1>2, <1>3, <2>2, <2>4, <3>1
         DEF CustomerNext, AddItem, SaveRow, UpdateItem, DeleteItem,
             Checkout, SellLine, RejectLine, PlaceOrder, ClearCart
  <2>5. QED
    BY <2>3, <2>4
<1>4. CASE \E p \in Product : VendorNext(p)
  BY <1>2, <1>4 DEF VendorNext, LoadProduct, UpdateProduct, DeleteProduct
<1>5. CASE Environment
  <2>1. CASE Restart
    BY <1>1, <2>1 DEF Restart
  <2>2. QED
    BY <1>2, <1>5, <2>1
       DEF Environment, SetVendorStatus, BargainMoves, DealExpires
<1>6. QED
  BY <1>2, <1>3, <1>4, <1>5 DEF Next, vars

-----------------------------------------------------------------------------
(* Prices: every price tag there is or a request has loaded was asked.     *)

InitialAsked == \A p \in Product : InitialTag[p].price \in asked[p]

AskedGrows == \A p \in Product : asked[p] \subseteq asked'[p]

\* The product of the next payload line is a product.
LEMMA NextLine ==
    ASSUME NEW j \in JobRow, j.todo # <<>>
    PROVE  Head(j.todo).product \in Product
<1>1. Head(j.todo) \in PayloadLine
  BY DEF JobRow
<1>2. QED
  BY <1>1 DEF PayloadLine

\* A line loads a tag the product has, or keeps the one it has loaded.
LEMMA LineTags ==
    ASSUME TypeOK, PricesKnown, NEW c \in Customer, Selling(c),
           NEW p \in Product
    PROVE  job'[c].tags[p].price \in asked[p]
<1> DEFINE l == Head(job[c].todo)
<1>1. job[c] \in JobRow /\ job[c].todo # <<>>
  BY DEF TypeOK, Selling, SellLine
<1>2. PICK d : job'[c] = WithLine(c, l, d)
  BY DEF Selling
<1>3. job'[c].tags = [job[c].tags EXCEPT ![l.product] = TagOf(c, l.product)]
  BY <1>1, <1>2 DEF WithLine, JobRow
<1>4. l.product \in Product
  BY <1>1, NextLine
<1>5. TagOf(c, l.product).price \in asked[l.product]
  BY <1>4 DEF TagOf, PricesKnown
<1>6. job[c].tags \in [Product -> TagRow]
  BY <1>1 DEF JobRow
<1> HIDE DEF l
<1>7. CASE p = l.product
  BY <1>3, <1>4, <1>5, <1>6, <1>7
<1>8. CASE p # l.product
  BY <1>3, <1>6, <1>8 DEF PricesKnown
<1>9. QED
  BY <1>7, <1>8

\* The history of prices only grows, and keeps up with the price tags.
LEMMA PricesStep ==
    ASSUME TypeOK, PricesKnown, InitialAsked, [Next]_vars
    PROVE  AskedGrows /\ PricesKnown' /\ InitialAsked'
<1>1. AskedGrows /\ \A p \in Product : tag'[p].price \in asked'[p]
  <2>1. CASE tag' = tag /\ asked' = asked
    BY <2>1 DEF AskedGrows, PricesKnown
  <2>2. ASSUME NEW x \in Product, UpdateProduct(x)
        PROVE  AskedGrows /\ \A p \in Product : tag'[p].price \in asked'[p]
    <3>1. asked' = [asked EXCEPT ![x] = @ \cup {tag'[x].price}]
      BY <2>2 DEF UpdateProduct
    <3>2. \A p \in Product \ {x} : tag'[p] = tag[p]
      BY <2>2 DEF UpdateProduct, TypeOK
    <3>3. QED
      BY <3>1, <3>2 DEF AskedGrows, PricesKnown, TypeOK
  <2>3. QED
    BY <2>1, <2>2 DEF Next, CustomerNext, VendorNext, Environment, AddItem,
       FindDeal, SaveRow, UpdateItem, DeleteItem, Checkout, SellLine,
       RejectLine, PlaceOrder, ClearCart, LoadProduct, DeleteProduct,
       SetVendorStatus, BargainMoves, DealExpires, Restart, store, vars
<1>2. ASSUME NEW c \in Customer, NEW p \in Product
      PROVE  job'[c].tags[p].price \in asked'[p]
  <2>1. asked[p] \subseteq asked'[p]
    BY <1>1 DEF AskedGrows
  <2>2. CASE Resting(job'[c])
    BY <2>1, <2>2 DEF Resting, InitialAsked
  <2>3. CASE Selling(c)
    BY <2>1, <2>3, LineTags
  <2>4. CASE Unsold(c)
    BY <2>1, <2>4 DEF Unsold, PricesKnown
  <2>5. QED
    BY <2>2, <2>3, <2>4, RequestSteps
<1>3. InitialAsked'
  BY <1>1 DEF InitialAsked, AskedGrows
<1>4. QED
  BY <1>1, <1>2, <1>3 DEF PricesKnown

-----------------------------------------------------------------------------
(* Checkouts and deals: the inductive invariant.                           *)

DealsInv == /\ TypeOK
            /\ CheckoutConsistent
            /\ UsedDealsAreSettled
            /\ LinesPricedFairly
            /\ InitialAsked

\* CheckoutConsistent but for the prices.
CheckoutsHold == \A c \in Customer : OwnOrderId(c) /\ LinesCovered(c)

\* The inductive invariant holds initially.
LEMMA DealsInit == Init => DealsInv
<1> SUFFICES ASSUME Init PROVE DealsInv
  OBVIOUS
<1>1. \A c \in Customer : job[c].lines = <<>> /\ job[c].order = None
  BY DEF Init, Idle
<1>2. CheckoutsHold
  BY <1>1, NoElements DEF CheckoutsHold, OwnOrderId, LinesCovered
<1>3. PricesKnown /\ InitialAsked
  BY DEF PricesKnown, InitialAsked, Init, Idle
<1>4. QED
  BY <1>2, <1>3, TypeInit DEF Init, DealsInv, UsedDealsAreSettled,
        LinesPricedFairly, CheckoutConsistent, CheckoutsHold

\* A step that leaves deal d as it is but for `fresh`.
Unspent(d) ==
    /\ deal'[d] # None
    /\ deal'[d].customer = deal[d].customer
    /\ deal'[d].product = deal[d].product
    /\ deal'[d].price = deal[d].price
    /\ deal'[d].status = deal[d].status
    /\ deal'[d].order = deal[d].order

\* A step that spends no deal, places no order, and forgets no price.
DealsKept ==
    /\ orders' = orders
    /\ AskedGrows
    /\ \A d \in Deal : deal[d] # None => Unspent(d)
    /\ \A d \in Deal : deal[d] = None /\ deal'[d] # None =>
          deal'[d].status = "accepted" /\ deal'[d].order = None

\* A step that spends no deal keeps the used deals settled and the lines paid.
LEMMA SettledKept ==
    ASSUME TypeOK, UsedDealsAreSettled, LinesPricedFairly, DealsKept
    PROVE  UsedDealsAreSettled' /\ LinesPricedFairly'
<1>1. UsedDealsAreSettled'
  <2> SUFFICES ASSUME NEW d \in Deal, deal'[d] # None
               PROVE  Settled(d)'
    BY DEF UsedDealsAreSettled
  <2>1. CASE deal[d] = None
    <3>1. deal'[d].status = "accepted" /\ deal'[d].order = None
      BY <2>1 DEF DealsKept
    <3>2. QED
      BY <3>1 DEF Settled
  <2>2. CASE deal[d] # None
    <3>1. Settled(d) /\ Unspent(d) /\ orders' = orders
      BY <2>2 DEF DealsKept, UsedDealsAreSettled
    <3>2. QED
      BY <3>1 DEF Settled, Unspent
  <2>3. QED
    BY <2>1, <2>2
<1>2. LinesPricedFairly'
  <2> SUFFICES ASSUME NEW o \in Order, orders'[o] # None,
                      NEW i \in DOMAIN orders'[o].lines
               PROVE  Paid(o, orders[o].lines[i])'
    BY DEF LinesPricedFairly
  <2>1. orders[o] \in OrderRow /\ orders' = orders
    BY DEF TypeOK, DealsKept
  <2>2. orders[o].lines[i] \in Line
    BY <2>1, ElementType DEF OrderRow
  <2>3. Paid(o, orders[o].lines[i])
    BY <2>1 DEF LinesPricedFairly
  <2>4. orders[o].lines[i].deal # None => Unspent(orders[o].lines[i].deal)
    BY <2>2, <2>3 DEF DealsKept, Paid, Line
  <2>5. asked[orders[o].lines[i].product]
           \subseteq asked'[orders[o].lines[i].product]
    BY <2>2 DEF DealsKept, AskedGrows, Line
  <2>6. QED
    BY <2>1, <2>3, <2>4, <2>5 DEF Paid, Unspent
<1>3. QED
  BY <1>1, <1>2

\* What a step may do to a request without touching its checkout.
CheckoutKept(c) ==
    \/ /\ job'[c].order = job[c].order /\ job'[c].lines = job[c].lines
       /\ job'[c].at = "ordering" <=> job[c].at = "ordering"
    \/ job'[c].lines = <<>> /\ job'[c].order = None

\* A step that spends no deal and leaves the checkouts alone keeps them covered.
LEMMA ConsistentKept ==
    ASSUME TypeOK, CheckoutConsistent, DealsKept,
           \A c \in Customer : CheckoutKept(c)
    PROVE  CheckoutsHold'
<1> SUFFICES ASSUME NEW c \in Customer
             PROVE  OwnOrderId(c)' /\ LinesCovered(c)'
  BY DEF CheckoutsHold
<1>1. OwnOrderId(c)'
  BY DEF CheckoutConsistent, CheckoutKept, OwnOrderId, DealsKept
<1>2. LinesCovered(c)'
  <2> SUFFICES ASSUME NEW i \in DOMAIN job'[c].lines
               PROVE  Covered(c, job[c].lines[i])'
    BY DEF LinesCovered
  <2>1. job'[c].lines = job[c].lines
    BY DEF CheckoutKept
  <2>2. job[c].lines[i] \in Line
    BY <2>1, ElementType DEF TypeOK, JobRow
  <2>3. Covered(c, job[c].lines[i])
    BY <2>1 DEF CheckoutConsistent, LinesCovered
  <2>4. job[c].lines[i].deal # None => Unspent(job[c].lines[i].deal)
    BY <2>2, <2>3 DEF DealsKept, Covered, Line
  <2>5. asked[job[c].lines[i].product] \subseteq asked'[job[c].lines[i].product]
    BY <2>2 DEF DealsKept, AskedGrows, Line
  <2>6. QED
    BY <2>1, <2>3, <2>4, <2>5 DEF Covered, Unspent
<1>3. QED
  BY <1>1, <1>2

\* Finding or granting a deal spends none and touches no checkout.
LEMMA DealsFindDeal ==
    ASSUME DealsInv, NEW c \in Customer, FindDeal(c)
    PROVE  DealsKept /\ \A b \in Customer : CheckoutKept(b)
<1>1. TypeOK
  BY DEF DealsInv
<1>2. DealsKept
  <2>1. CASE UNCHANGED deal
    BY <2>1 DEF DealsKept, Unspent, FindDeal, AskedGrows
  <2>2. CASE \E d \in Deal : /\ deal[d] = None
                             /\ deal' = [deal EXCEPT ![d] =
                                           NewDeal(c, job[c].product)]
    <3>1. PICK d \in Deal : /\ deal[d] = None
                            /\ deal' = [deal EXCEPT ![d] =
                                           NewDeal(c, job[c].product)]
      BY <2>2
    <3>2. \A e \in Deal \ {d} : deal'[e] = deal[e]
      BY <1>1, <3>1 DEF TypeOK
    <3>3. deal'[d].status = "accepted" /\ deal'[d].order = None
      BY <1>1, <3>1 DEF TypeOK, NewDeal
    <3>4. QED
      BY <3>1, <3>2, <3>3 DEF DealsKept, Unspent, FindDeal, AskedGrows
  <2>3. QED
    BY <2>1, <2>2 DEF FindDeal
<1>3. ASSUME NEW b \in Customer PROVE CheckoutKept(b)
  <2>1. job[b] \in JobRow /\ job[c] \in JobRow
    BY <1>1 DEF TypeOK
  <2>2. CASE b # c
    BY <1>1, <2>2 DEF FindDeal, TypeOK, CheckoutKept
  <2>3. CASE b = c
    <3>1. /\ job'[c].order = job[c].order
          /\ job'[c].lines = job[c].lines
          /\ job'[c].at = "priced" /\ job[c].at = "adding"
      BY <1>1, <2>1 DEF FindDeal, TypeOK, JobRow
    <3>2. QED
      BY <2>3, <3>1 DEF CheckoutKept
  <2>4. QED
    BY <2>2, <2>3
<1>4. QED
  BY <1>2, <1>3

\* A deal that expires is not spent and touches no checkout.
LEMMA DealsExpire ==
    ASSUME DealsInv, NEW d \in Deal, DealExpires(d)
    PROVE  DealsKept /\ \A b \in Customer : CheckoutKept(b)
<1>1. deal[d] \in DealRow /\ deal[d] # None
  BY DEF DealsInv, TypeOK, DealExpires, IsOpen
<1>2. \A e \in Deal \ {d} : deal'[e] = deal[e]
  BY DEF DealsInv, TypeOK, DealExpires
<1>3. deal'[d] = [deal[d] EXCEPT !.fresh = FALSE]
  BY DEF DealsInv, TypeOK, DealExpires
<1>4. deal'[d] \in DealRow
  BY <1>1, <1>3 DEF DealRow
<1>5. Unspent(d)
  BY <1>1, <1>3, <1>4, NoneIsNoRow DEF DealRow, Unspent
<1>6. QED
  BY <1>1, <1>2, <1>5
     DEF DealsKept, Unspent, CheckoutKept, DealExpires, AskedGrows

\* A checkout starts with an order id of its own and no lines.
LEMMA DealsCheckout ==
    ASSUME DealsInv, NEW c \in Customer, NEW payload \in Payload,
           Checkout(c, payload)
    PROVE  CheckoutsHold'
<1>1. PICK o \in Order :
         /\ FreshOrder(o)
         /\ job' = [job EXCEPT ![c] = [Idle EXCEPT !.at = "ordering",
                                                   !.order = o,
                                                   !.todo = payload]]
  BY DEF Checkout
<1>2. /\ job'[c].at = "ordering" /\ job'[c].order = o
      /\ job'[c].lines = <<>>
  BY <1>1 DEF DealsInv, TypeOK, Idle
<1>3. \A b \in Customer \ {c} : job'[b] = job[b]
  BY <1>1 DEF DealsInv, TypeOK
<1>4. orders' = orders /\ deal' = deal /\ asked' = asked
  BY DEF Checkout, store
<1>5. ASSUME NEW b \in Customer PROVE OwnOrderId(b)'
  <2>1. CASE b = c
    BY <2>1, <1>1, <1>2, <1>3, <1>4 DEF OwnOrderId, FreshOrder
  <2>2. CASE b # c
    BY <2>2, <1>1, <1>2, <1>3, <1>4
       DEF OwnOrderId, FreshOrder, DealsInv, CheckoutConsistent
  <2>3. QED
    BY <2>1, <2>2
<1>6. ASSUME NEW b \in Customer PROVE LinesCovered(b)'
  <2>1. CASE b = c
    BY <2>1, <1>2, NoElements DEF LinesCovered
  <2>2. CASE b # c
    BY <2>2, <1>3, <1>4
       DEF LinesCovered, Covered, DealsInv, CheckoutConsistent
  <2>3. QED
    BY <2>1, <2>2
<1>7. QED
  BY <1>5, <1>6 DEF CheckoutsHold

\* Appending to a sequence: the old elements keep their places.
LEMMA AppendElement ==
    ASSUME NEW S, NEW s \in Seq(S), NEW x \in S, NEW i \in DOMAIN Append(s, x)
    PROVE  \/ i \in DOMAIN s /\ Append(s, x)[i] = s[i]
           \/ Append(s, x)[i] = x
OBVIOUS

\* A line is covered by the deal it was priced with.
LEMMA DealsSellLine ==
    ASSUME DealsInv, NEW c \in Customer, SellLine(c)
    PROVE  CheckoutsHold'
<1> DEFINE l == Head(job[c].todo)
           p == l.product
<1>1. TypeOK /\ job[c] \in JobRow /\ job[c].todo # <<>>
  BY DEF DealsInv, TypeOK, SellLine
<1>2. PICK d \in DealFor(c, p) :
         job' = [job EXCEPT ![c] = WithLine(c, l, d)]
  BY DEF SellLine
<1> DEFINE line == [product |-> p, quantity |-> l.quantity,
                    price |-> UnitPrice(c, p, d), deal |-> d]
<1>3. /\ job'[c].at = job[c].at /\ job'[c].order = job[c].order
      /\ job'[c] \in JobRow
  BY <1>1, <1>2, WithLineType DEF TypeOK
<1>4. job'[c].lines = Append(job[c].lines, line)
  BY <1>1, <1>2 DEF WithLine, TypeOK, JobRow
<1>5. \A b \in Customer \ {c} : job'[b] = job[b]
  BY <1>1, <1>2 DEF TypeOK
<1>6. orders' = orders /\ deal' = deal /\ asked' = asked
  BY DEF SellLine, store
<1>7. Covered(c, line)
  <2>1. CASE d = None
    <3>1. p \in Product
      BY <1>1, NextLine
    <3>2. TagOf(c, p).price \in asked[p]
      BY <3>1 DEF TagOf, DealsInv, CheckoutConsistent, PricesKnown
    <3>3. QED
      BY <2>1, <3>2 DEF Covered, UnitPrice
  <2>2. CASE d # None
    <3>1. d \in OpenDeals(c, p)
      BY <2>2 DEF DealFor
    <3>2. QED
      BY <2>2, <3>1 DEF Covered, UnitPrice, OpenDeals, IsOpen
  <2>3. QED
    BY <2>1, <2>2
<1>8. ASSUME NEW b \in Customer PROVE OwnOrderId(b)'
  <2>1. \A e \in Customer : job'[e].order = job[e].order
    BY <1>3, <1>5
  <2>2. job[c].at = "ordering"
    BY DEF SellLine
  <2>3. QED
    BY <2>1, <2>2, <1>3, <1>5, <1>6
       DEF OwnOrderId, DealsInv, CheckoutConsistent
<1>9. ASSUME NEW b \in Customer PROVE LinesCovered(b)'
  <2>1. CASE b = c
    <3> SUFFICES ASSUME NEW i \in DOMAIN job'[c].lines
                 PROVE  Covered(c, job[c].lines[i])'
      BY <2>1 DEF LinesCovered
    <3>1. \A k \in DOMAIN job[c].lines : Covered(c, job[c].lines[k])
      BY DEF DealsInv, CheckoutConsistent, LinesCovered
    <3>2. job[c].lines \in Seq(Line) /\ line \in Line
      <4>1. job'[c].lines[Len(job'[c].lines)] = line
        BY <1>1, <1>4 DEF JobRow
      <4>2. Len(job'[c].lines) \in DOMAIN job'[c].lines
        BY <1>1, <1>4 DEF JobRow
      <4>3. QED
        BY <1>1, <1>3, <4>1, <4>2, ElementType DEF JobRow
    <3> HIDE DEF line
    <3>3. Covered(c, job'[c].lines[i])
      BY <1>4, <1>7, <3>1, <3>2, AppendElement
    <3>4. QED
      BY <3>3, <1>6 DEF Covered
  <2>2. CASE b # c
    BY <2>2, <1>5, <1>6
       DEF LinesCovered, Covered, DealsInv, CheckoutConsistent
  <2>3. QED
    BY <2>1, <2>2
<1>10. QED
  BY <1>8, <1>9 DEF CheckoutsHold

\* PlaceOrder, seen from the deals and the orders.
LEMMA Placing ==
    ASSUME DealsInv, NEW c \in Customer, PlaceOrder(c)
    PROVE  LET o == job[c].order
               D == DealsIn(job[c].lines)
           IN  /\ o \in Order /\ orders[o] = None
               /\ D \subseteq Deal
               /\ orders' = [orders EXCEPT ![o] = OrderOf(c)]
               /\ OrderOf(c) # None
               /\ \A d \in D : /\ deal[d] \in DealRow
                               /\ deal[d].status = "accepted"
                               /\ deal[d].customer = c
               /\ \A d \in D : deal'[d] = [deal[d] EXCEPT !.status = "used",
                                                          !.order = o]
               /\ \A d \in Deal \ D : deal'[d] = deal[d]
<1> DEFINE o == job[c].order
           D == DealsIn(job[c].lines)
<1>1. TypeOK /\ job[c] \in JobRow /\ Pending(job[c])
  BY TypeJobs DEF DealsInv, TypeOK, JobsOK
<1>2. o \in Order /\ orders[o] = None
  BY <1>1 DEF PlaceOrder, Pending, JobRow, DealsInv, CheckoutConsistent,
              OwnOrderId
<1>3. D \subseteq Deal
  BY <1>1, LineDeal DEF DealsIn, JobRow
<1>4. OrderOf(c) # None
  <2>1. OrderOf(c) \in OrderRow
    BY <1>1 DEF OrderOf, OrderRow, JobRow
  <2>2. QED
    BY <2>1, NoneIsNoRow
<1>5. \A d \in D : /\ deal[d] # None /\ deal[d].status = "accepted"
                   /\ deal[d].customer = c
  BY DEF DealsIn, DealsInv, CheckoutConsistent, LinesCovered, Covered
<1>6. \A d \in D : deal[d] \in DealRow
  BY <1>1, <1>3, <1>5 DEF TypeOK
<1>7. QED
  BY <1>2, <1>3, <1>4, <1>5, <1>6 DEF PlaceOrder

\* The deals of a placed order: used by it, otherwise as they were.
LEMMA PlacedDeals ==
    ASSUME DealsInv, NEW c \in Customer, PlaceOrder(c),
           NEW d \in DealsIn(job[c].lines)
    PROVE  /\ deal'[d] # None
           /\ deal'[d].status = "used"
           /\ deal'[d].order = job[c].order
           /\ deal'[d].customer = c
           /\ deal'[d].product = deal[d].product
           /\ deal'[d].price = deal[d].price
<1> DEFINE o == job[c].order
<1>1. /\ deal[d] \in DealRow /\ deal[d].customer = c /\ o \in Order
      /\ deal'[d] = [deal[d] EXCEPT !.status = "used", !.order = o]
  BY Placing
<1> HIDE DEF o
<1>2. ASSUME NEW row \in DealRow
      PROVE  LET new == [row EXCEPT !.status = "used", !.order = o]
             IN  /\ new \in DealRow
                 /\ new.status = "used" /\ new.order = o
                 /\ new.customer = row.customer
                 /\ new.product = row.product /\ new.price = row.price
  BY <1>1 DEF DealRow
<1>3. deal'[d] \in DealRow
  BY <1>1, <1>2
<1>4. deal'[d] # None
  BY <1>3, NoneIsNoRow
<1>5. /\ deal'[d].status = "used" /\ deal'[d].order = o
      /\ deal'[d].customer = deal[d].customer
      /\ deal'[d].product = deal[d].product
      /\ deal'[d].price = deal[d].price
  BY <1>1, <1>2
<1>6. QED
  BY <1>1, <1>4, <1>5 DEF o

\* Placing an order spends the deals of its lines and of no other checkout.
LEMMA DealsPlaceOrder ==
    ASSUME DealsInv, NEW c \in Customer, PlaceOrder(c)
    PROVE  /\ CheckoutsHold'
           /\ UsedDealsAreSettled'
           /\ LinesPricedFairly'
<1> DEFINE o == job[c].order
           D == DealsIn(job[c].lines)
<1>1. TypeOK /\ job[c] \in JobRow
  BY DEF DealsInv, TypeOK
<1>2. o \in Order /\ orders[o] = None /\ D \subseteq Deal
      /\ orders' = [orders EXCEPT ![o] = OrderOf(c)] /\ OrderOf(c) # None
  BY Placing
<1>3. \A d \in D : /\ deal[d] \in DealRow
                   /\ deal[d].status = "accepted"
                   /\ deal[d].customer = c
                   /\ deal'[d] = [deal[d] EXCEPT !.status = "used",
                                                 !.order = o]
  BY Placing
<1>4. \A d \in Deal \ D : deal'[d] = deal[d]
  BY Placing
<1>5. /\ job'[c].at = "clearing" /\ job'[c].order = None
      /\ job'[c].lines = <<>>
      /\ \A b \in Customer \ {c} : job'[b] = job[b]
  BY <1>1 DEF PlaceOrder, Idle, TypeOK
<1>6. /\ orders'[o] = OrderOf(c)
      /\ \A x \in Order \ {o} : orders'[x] = orders[x]
  BY <1>1, <1>2 DEF TypeOK
<1>7. OrderOf(c).lines = job[c].lines /\ OrderOf(c).customer = c
  BY DEF OrderOf
<1>8. \A i \in DOMAIN job[c].lines : Covered(c, job[c].lines[i])
  BY DEF DealsInv, CheckoutConsistent, LinesCovered
<1>9. \A i \in DOMAIN job[c].lines :
          job[c].lines[i].deal # None => job[c].lines[i].deal \in D
  BY DEF DealsIn
<1> HIDE DEF D, o
<1>a. asked' = asked
  BY DEF PlaceOrder
<1>10. \A d \in D : /\ deal'[d] # None
                    /\ deal'[d].status = "used"
                    /\ deal'[d].order = o
                    /\ deal'[d].customer = c
                    /\ deal'[d].product = deal[d].product
                    /\ deal'[d].price = deal[d].price
  BY PlacedDeals DEF D, o
<1>11. ASSUME NEW b \in Customer PROVE OwnOrderId(b)'
  <2>1. OwnOrderId(b) /\ OwnOrderId(c)
    BY DEF DealsInv, CheckoutConsistent
  <2>2. CASE b = c
    BY <2>2, <1>5 DEF OwnOrderId
  <2>3. CASE b # c
    <3>1. job[b].order # None => job[b].order \in Order \ {o}
      BY <1>1, <2>1, <2>3 DEF TypeOK, JobRow, OwnOrderId, o
    <3>2. QED
      BY <2>1, <2>3, <3>1, <1>5, <1>6 DEF OwnOrderId
  <2>4. QED
    BY <2>2, <2>3
<1>12. ASSUME NEW b \in Customer PROVE LinesCovered(b)'
  <2>1. CASE b = c
    BY <2>1, <1>5, NoElements DEF LinesCovered
  <2>2. CASE b # c
    <3> SUFFICES ASSUME NEW i \in DOMAIN job'[b].lines
                 PROVE  Covered(b, job[b].lines[i])'
      BY DEF LinesCovered
    <3>1. job'[b] = job[b] /\ Covered(b, job[b].lines[i])
      BY <2>2, <1>5 DEF DealsInv, CheckoutConsistent, LinesCovered
    <3>2. job[b].lines[i].deal \in Deal \cup {None}
      BY <1>1, <3>1, LineDeal DEF TypeOK, JobRow
    <3>3. job[b].lines[i].deal \notin D
      BY <2>2, <3>1, <1>3, NoneIsNoRow DEF Covered, D, DealsIn
    <3>4. QED
      BY <3>1, <3>2, <3>3, <1>4, <1>a DEF Covered
  <2>3. QED
    BY <2>1, <2>2
<1>13. ASSUME NEW d \in Deal, deal'[d] # None PROVE Settled(d)'
  <2>1. CASE d \in D
    <3>1. PICK i \in DOMAIN job[c].lines : job[c].lines[i].deal = d
      BY <2>1 DEF D, DealsIn
    <3>2. d # None
      BY CommerceAssumption
    <3>3. /\ job[c].lines[i].product = deal[d].product
          /\ job[c].lines[i].price = deal[d].price
      BY <3>1, <3>2, <1>8 DEF Covered
    <3>4. o # None
      BY <1>2, CommerceAssumption
    <3>5. QED
      BY <2>1, <3>1, <3>3, <3>4, <1>2, <1>6, <1>10, <1>7 DEF Settled
  <2>2. CASE d \notin D
    <3>1. deal'[d] = deal[d] /\ Settled(d)
      BY <2>2, <1>4, <1>13 DEF DealsInv, UsedDealsAreSettled
    <3>2. deal[d].order \in Order \cup {None}
      BY <3>1, <1>1, <1>13 DEF TypeOK, DealRow
    <3>3. QED
      BY <3>1, <3>2, <1>2, <1>6 DEF Settled
  <2>3. QED
    BY <2>1, <2>2
<1>14. ASSUME NEW x \in Order, orders'[x] # None,
              NEW i \in DOMAIN orders'[x].lines
       PROVE  Paid(x, orders[x].lines[i])'
  <2>1. CASE x = o
    <3>1. /\ orders'[x].lines = job[c].lines /\ orders'[x].customer = c
          /\ Covered(c, job[c].lines[i])
      BY <2>1, <1>6, <1>7, <1>8
    <3>2. QED
      BY <2>1, <3>1, <1>10, <1>9, <1>14, <1>a DEF Paid, Covered
  <2>2. CASE x # o
    <3>1. orders'[x] = orders[x] /\ Paid(x, orders[x].lines[i])
      BY <2>2, <1>6, <1>14 DEF DealsInv, LinesPricedFairly
    <3>2. orders[x].lines[i].deal \in Deal \cup {None}
      BY <1>1, <1>14, <3>1, LineDeal DEF TypeOK, OrderRow
    <3>3. orders[x].lines[i].deal \notin D \/ orders[x].lines[i].deal = None
      BY <3>1, <1>3 DEF Paid
    <3>4. QED
      BY <3>1, <3>2, <3>3, <1>4, <1>a DEF Paid
  <2>3. QED
    BY <2>1, <2>2
<1>15. QED
  BY <1>11, <1>12, <1>13, <1>14
     DEF CheckoutsHold, UsedDealsAreSettled, LinesPricedFairly

\* Every step keeps the inductive invariant.
LEMMA DealsNext == DealsInv /\ [Next]_vars => DealsInv'
<1> SUFFICES ASSUME DealsInv, [Next]_vars PROVE DealsInv'
  OBVIOUS
<1>1. TypeOK' /\ PricesKnown' /\ InitialAsked' /\ AskedGrows
  BY TypeNext, PricesStep DEF DealsInv, CheckoutConsistent
<1>2. ASSUME DealsKept, \A b \in Customer : CheckoutKept(b) PROVE DealsInv'
  BY <1>1, <1>2, SettledKept, ConsistentKept
     DEF DealsInv, CheckoutConsistent, CheckoutsHold
<1>3. ASSUME deal' = deal, orders' = orders
      PROVE  DealsKept
  BY <1>1, <1>3 DEF DealsKept, Unspent
<1>4. ASSUME CheckoutsHold', deal' = deal, orders' = orders
      PROVE  DealsInv'
  BY <1>1, <1>3, <1>4, SettledKept
     DEF DealsInv, CheckoutConsistent, CheckoutsHold
<1>5. ASSUME deal' = deal, orders' = orders, job' = job PROVE DealsInv'
  BY <1>2, <1>3, <1>5 DEF CheckoutKept
<1>6. ASSUME NEW c \in Customer, deal' = deal, orders' = orders,
             job' = [job EXCEPT ![c] = Idle]
      PROVE  DealsInv'
  BY <1>2, <1>3, <1>6 DEF CheckoutKept, DealsInv, TypeOK, Idle
<1>7. ASSUME NEW c \in Customer, CustomerNext(c) PROVE DealsInv'
  <2>1. ASSUME NEW p \in Product, NEW q \in Quantity, NEW live \in BOOLEAN,
               AddItem(c, p, q, live)
        PROVE  DealsInv'
    <3>1. job[c].at = "idle" /\ job[c].lines = <<>> /\ job[c].order = None
      BY <2>1 DEF AddItem, Begins, DealsInv, CheckoutConsistent, OwnOrderId
    <3>2. /\ job'[c].lines = <<>> /\ job'[c].order = None
          /\ \A b \in Customer \ {c} : job'[b] = job[b]
      BY <2>1 DEF AddItem, DealsInv, TypeOK, Idle
    <3>3. QED
      BY <2>1, <3>2, <1>2, <1>3 DEF CheckoutKept, AddItem, store
  <2>2. CASE FindDeal(c)
    BY <2>2, <1>2, DealsFindDeal
  <2>3. CASE SaveRow(c)
    BY <2>3, <1>6 DEF SaveRow
  <2>4. ASSUME NEW p \in Product, NEW q \in Quantity, UpdateItem(c, p, q)
        PROVE  DealsInv'
    BY <2>4, <1>5 DEF UpdateItem
  <2>5. ASSUME NEW p \in Product, DeleteItem(c, p) PROVE DealsInv'
    BY <2>5, <1>5 DEF DeleteItem
  <2>6. ASSUME NEW payload \in Payload, Checkout(c, payload) PROVE DealsInv'
    BY <2>6, <1>4, DealsCheckout DEF Checkout, store
  <2>7. CASE SellLine(c)
    BY <2>7, <1>4, DealsSellLine DEF SellLine, store
  <2>8. CASE RejectLine(c)
    BY <2>8, <1>6 DEF RejectLine, store
  <2>9. CASE PlaceOrder(c)
    BY <2>9, <1>1, DealsPlaceOrder
       DEF DealsInv, CheckoutConsistent, CheckoutsHold
  <2>10. CASE ClearCart(c)
    BY <2>10, <1>6 DEF ClearCart
  <2>11. QED
    BY <1>7, <2>1, <2>2, <2>3, <2>4, <2>5, <2>6, <2>7, <2>8, <2>9, <2>10
       DEF CustomerNext
<1>8. ASSUME NEW p \in Product, VendorNext(p) PROVE DealsInv'
  BY <1>5, <1>8 DEF VendorNext, LoadProduct, UpdateProduct, DeleteProduct,
                    store
<1>9. CASE Environment
  <2>1. CASE Restart
    <3>1. \A b \in Customer : job'[b] = Idle
      BY <2>1 DEF Restart
    <3>2. QED
      BY <2>1, <3>1, <1>2, <1>3 DEF Restart, store, CheckoutKept, Idle
  <2>2. CASE \E d \in Deal : DealExpires(d)
    BY <2>2, <1>2, DealsExpire
  <2>3. CASE \E v \in Suspendable : SetVendorStatus(v)
    BY <2>3, <1>5 DEF SetVendorStatus
  <2>4. CASE \E p \in Product : BargainMoves(p)
    BY <2>4, <1>5 DEF BargainMoves
  <2>5. QED
    BY <1>9, <2>1, <2>2, <2>3, <2>4 DEF Environment
<1>10. CASE UNCHANGED vars
  BY <1>5, <1>10 DEF vars
<1>11. QED
  BY <1>7, <1>8, <1>9, <1>10 DEF Next

\* The inductive invariant holds of every behaviour.
LEMMA DealsInvariant == Spec => []DealsInv
BY DealsInit, DealsNext, PTL DEF Spec

\* Every variable keeps its type; in particular a request that is adding or
\* ordering always knows its product, quantity and order id.
THEOREM TypeCorrect == Spec => []TypeOK
<1>1. DealsInv => TypeOK
  BY DEF DealsInv
<1>2. QED
  BY <1>1, DealsInvariant, PTL

\* Whatever the other customers, vendors, admins and bargains do between the
\* steps of a checkout, the deals it has priced its lines with stay its own
\* and unspent, and its order id stays free.
THEOREM CheckoutsAreConsistent == Spec => []CheckoutConsistent
<1>1. DealsInv => CheckoutConsistent
  BY DEF DealsInv
<1>2. QED
  BY <1>1, DealsInvariant, PTL

\* A used deal names an order of its customer with a line at its price.
THEOREM DealsSettle == Spec => []UsedDealsAreSettled
<1>1. DealsInv => UsedDealsAreSettled
  BY DEF DealsInv
<1>2. QED
  BY <1>1, DealsInvariant, PTL

\* A line is charged at list price or under a deal this order has used.
THEOREM FairPrices == Spec => []LinesPricedFairly
<1>1. DealsInv => LinesPricedFairly
  BY DEF DealsInv
<1>2. QED
  BY <1>1, DealsInvariant, PTL

-----------------------------------------------------------------------------
(* What a step may do to the deals: grant one, let one lapse, redeem those *)
(* of one checkout, or nothing.                                            *)

Granting(c, d) ==
    /\ job[c].at = "adding" /\ deal[d] = None
    /\ OpenDeals(c, job[c].product) = {}
    /\ offer[job[c].product] # None
    /\ deal' = [deal EXCEPT ![d] = NewDeal(c, job[c].product)]
    /\ orders' = orders

\* The steps that change the deals or the orders.
LEMMA DealSteps ==
    ASSUME [Next]_vars
    PROVE  \/ \E c \in Customer, d \in Deal : Granting(c, d)
           \/ \E d \in Deal : DealExpires(d)
           \/ \E c \in Customer : PlaceOrder(c)
           \/ deal' = deal /\ orders' = orders
<1>1. ASSUME NEW c \in Customer, CustomerNext(c)
      PROVE  \/ \E d \in Deal : Granting(c, d)
             \/ PlaceOrder(c)
             \/ deal' = deal /\ orders' = orders
  <2>1. CASE FindDeal(c)
    BY <2>1 DEF FindDeal, Granting
  <2>2. QED
    BY <1>1, <2>1 DEF CustomerNext, AddItem, SaveRow, UpdateItem, DeleteItem,
          Checkout, SellLine, RejectLine, ClearCart, store
<1>2. ASSUME NEW p \in Product, VendorNext(p)
      PROVE  deal' = deal /\ orders' = orders
  BY <1>2 DEF VendorNext, LoadProduct, UpdateProduct, DeleteProduct, store
<1>3. CASE Environment
  BY <1>3 DEF Environment, SetVendorStatus, BargainMoves, Restart, store
<1>4. CASE UNCHANGED vars
  BY <1>4 DEF vars
<1>5. QED
  BY <1>1, <1>2, <1>3, <1>4 DEF Next

\* A deal being granted is a row of its own, accepted and fresh.
LEMMA GrantedDeal ==
    ASSUME DealsInv, NEW c \in Customer, NEW d \in Deal, Granting(c, d)
    PROVE  /\ job[c].product \in Product
           /\ NewDeal(c, job[c].product) \in DealRow
           /\ deal'[d] = NewDeal(c, job[c].product) /\ deal'[d] # None
           /\ \A e \in Deal \ {d} : deal'[e] = deal[e]
<1>1. TypeOK
  BY DEF DealsInv
<1>2. job[c].product \in Product
  BY <1>1, TypeJobs DEF Granting, JobsOK, Pending, JobRow
<1>3. NewDeal(c, job[c].product) \in DealRow
  BY <1>1, <1>2 DEF NewDeal, DealRow, TypeOK, Granting
<1>4. QED
  BY <1>1, <1>2, <1>3, NoneIsNoRow DEF TypeOK, Granting

\* A deal that expires changes in nothing else.
LEMMA ExpiredDeal ==
    ASSUME DealsInv, NEW d \in Deal, DealExpires(d)
    PROVE  /\ Unspent(d) /\ deal[d] # None
           /\ deal[d].status = "accepted" /\ deal[d].fresh
           /\ deal'[d].fresh = FALSE
           /\ \A e \in Deal \ {d} : deal'[e] = deal[e]
           /\ orders' = orders
<1>1. deal[d] \in DealRow /\ deal[d] # None
  BY DEF DealsInv, TypeOK, DealExpires, IsOpen
<1>2. deal'[d] = [deal[d] EXCEPT !.fresh = FALSE]
  BY DEF DealsInv, TypeOK, DealExpires
<1>3. deal'[d].fresh = FALSE
  BY <1>1, <1>2 DEF DealRow
<1>4. Unspent(d)
  BY DealsExpire, <1>1 DEF DealsKept
<1>5. \A e \in Deal \ {d} : deal'[e] = deal[e]
  BY DEF DealsInv, TypeOK, DealExpires
<1>6. QED
  BY <1>1, <1>3, <1>4, <1>5 DEF DealExpires, IsOpen

\* A customer never holds two open deals on one product.
THEOREM OneDealOpen == Spec => []OneOpenDeal
<1>1. Init => OneOpenDeal
  BY DEF Init, OneOpenDeal, IsOpen
<1>2. DealsInv /\ OneOpenDeal /\ [Next]_vars => OneOpenDeal'
  <2> SUFFICES ASSUME DealsInv, OneOpenDeal, [Next]_vars,
                      NEW d \in Deal, NEW e \in Deal,
                      IsOpen(d)', IsOpen(e)',
                      deal'[d].customer = deal'[e].customer,
                      deal'[d].product = deal'[e].product
               PROVE  d = e
    BY DEF OneOpenDeal
  <2>1. ASSUME NEW c \in Customer, NEW n \in Deal, Granting(c, n)
        PROVE  d = e
    <3>1. /\ deal'[n].customer = c /\ deal'[n].product = job[c].product
          /\ \A x \in Deal \ {n} : deal'[x] = deal[x]
      <4>1. deal'[n] = NewDeal(c, job[c].product)
            /\ \A x \in Deal \ {n} : deal'[x] = deal[x]
        BY <2>1, GrantedDeal
      <4>2. QED
        BY <4>1 DEF NewDeal
    <3>2. \A x \in Deal : IsOpen(x) => \/ deal[x].customer # c
                                      \/ deal[x].product # job[c].product
      BY <2>1 DEF Granting, OpenDeals
    <3>3. CASE d = n
      BY <3>1, <3>2, <3>3 DEF IsOpen
    <3>4. CASE e = n
      BY <3>1, <3>2, <3>4 DEF IsOpen
    <3>5. CASE d # n /\ e # n
      BY <3>1, <3>5 DEF IsOpen, OneOpenDeal
    <3>6. QED
      BY <3>3, <3>4, <3>5
  <2>2. ASSUME NEW x \in Deal, DealExpires(x) PROVE d = e
    <3>1. d # x /\ e # x
      BY <2>2, ExpiredDeal DEF IsOpen
    <3>2. QED
      BY <2>2, <3>1, ExpiredDeal DEF IsOpen, OneOpenDeal
  <2>3. ASSUME NEW c \in Customer, PlaceOrder(c) PROVE d = e
    <3> DEFINE D == DealsIn(job[c].lines)
    <3>1. \A x \in D : deal'[x].status = "used"
      BY <2>3, PlacedDeals
    <3>2. d \notin D /\ e \notin D
      BY <3>1 DEF IsOpen
    <3>3. deal'[d] = deal[d] /\ deal'[e] = deal[e]
      BY <2>3, <3>2, Placing
    <3>4. QED
      BY <3>3 DEF IsOpen, OneOpenDeal
  <2>4. CASE deal' = deal
    BY <2>4 DEF IsOpen, OneOpenDeal
  <2>5. QED
    BY <2>1, <2>2, <2>3, <2>4, DealSteps
<1>3. QED
  BY <1>1, <1>2, DealsInvariant, PTL DEF Spec

\* A used deal and a placed order are final.
THEOREM DealsSpentOnce == Spec => SpentOnce
<1> DEFINE Step ==
      /\ \A d \in Deal : deal[d] # None /\ deal[d].status = "used"
                            => /\ deal'[d].status = "used"
                               /\ deal'[d].order = deal[d].order
                               /\ deal'[d].price = deal[d].price
      /\ \A o \in Order : orders[o] # None => orders'[o] = orders[o]
<1>1. DealsInv /\ [Next]_vars => Step
  <2> SUFFICES ASSUME DealsInv, [Next]_vars PROVE Step
    OBVIOUS
  <2>1. ASSUME NEW c \in Customer, NEW d \in Deal, Granting(c, d) PROVE Step
    BY <2>1, GrantedDeal DEF Granting
  <2>2. ASSUME NEW d \in Deal, DealExpires(d) PROVE Step
    BY <2>2, ExpiredDeal
  <2>3. ASSUME NEW c \in Customer, PlaceOrder(c) PROVE Step
    <3> DEFINE D == DealsIn(job[c].lines)
               o == job[c].order
    <3>1. /\ \A d \in D : deal[d].status = "accepted"
          /\ \A d \in Deal \ D : deal'[d] = deal[d]
          /\ orders[o] = None /\ orders' = [orders EXCEPT ![o] = OrderOf(c)]
      BY <2>3, Placing
    <3> HIDE DEF D, o
    <3>2. \A x \in Order : orders[x] # None => orders'[x] = orders[x]
      BY <3>1 DEF DealsInv, TypeOK
    <3>3. QED
      BY <3>1, <3>2
  <2>4. CASE deal' = deal /\ orders' = orders
    BY <2>4
  <2>5. QED
    BY <2>1, <2>2, <2>3, <2>4, DealSteps
<1>2. DealsInv /\ [Next]_vars => [Step]_vars
  BY <1>1
<1>3. QED
  BY <1>2, DealsInvariant, PTL DEF Spec, SpentOnce

-----------------------------------------------------------------------------
(* Carts.                                                                  *)

\* Deal d is one of customer c's for product p.
Owns(c, p, d) == /\ deal[d] # None
                 /\ deal[d].customer = c /\ deal[d].product = p

\* The deal a request has found is its customer's for its product.
DealFound(c) ==
    /\ job[c].at # "priced" => job[c].deal = None
    /\ job[c].deal # None => Owns(c, job[c].product, job[c].deal)

CartInv == CartDealsAreOwn /\ \A c \in Customer : DealFound(c)

\* Whose a deal is, and for which product, never changes.
LEMMA OwnersKept ==
    ASSUME DealsInv, [Next]_vars, NEW d \in Deal, deal[d] # None
    PROVE  /\ deal'[d] # None
           /\ deal'[d].customer = deal[d].customer
           /\ deal'[d].product = deal[d].product
<1>1. ASSUME NEW c \in Customer, NEW e \in Deal, Granting(c, e)
      PROVE  deal'[d] = deal[d]
  <2>1. d # e
    BY <1>1 DEF Granting
  <2>2. QED
    BY <1>1, <2>1, GrantedDeal
<1>2. ASSUME NEW e \in Deal, DealExpires(e)
      PROVE  deal'[d] = deal[d] \/ Unspent(d)
  BY <1>2, ExpiredDeal
<1>3. ASSUME NEW c \in Customer, PlaceOrder(c)
      PROVE  /\ deal'[d] # None
             /\ deal'[d].customer = deal[d].customer
             /\ deal'[d].product = deal[d].product
  <2>1. CASE d \in DealsIn(job[c].lines)
    <3>1. deal[d].customer = c
      BY <1>3, <2>1, Placing
    <3>2. QED
      BY <1>3, <2>1, <3>1, PlacedDeals
  <2>2. CASE d \notin DealsIn(job[c].lines)
    BY <1>3, <2>2, Placing
  <2>3. QED
    BY <2>1, <2>2
<1>4. QED
  BY <1>1, <1>2, <1>3, DealSteps DEF Unspent

\* A cart row's deal comes from an earlier state of it, or from the request.
LEMMA CartSteps ==
    ASSUME DealsInv, [Next]_vars, NEW c \in Customer, NEW p \in Product,
           cart'[c][p] # None, cart'[c][p].deal # None
    PROVE  \/ cart[c][p] # None /\ cart[c][p].deal = cart'[c][p].deal
           \/ /\ job[c].at = "priced" /\ job[c].product = p
              /\ job[c].deal = cart'[c][p].deal
<1>1. /\ cart \in [Customer -> [Product -> CartRow \cup {None}]]
      /\ job \in [Customer -> JobRow]
  BY DEF DealsInv, TypeOK
<1>2. ASSUME NEW b \in Customer, SaveRow(b)
      PROVE  \/ cart[c][p] # None /\ cart[c][p].deal = cart'[c][p].deal
             \/ /\ job[c].at = "priced" /\ job[c].product = p
                /\ job[c].deal = cart'[c][p].deal
  BY <1>1, <1>2 DEF SaveRow
<1>3. ASSUME NEW b \in Customer, NEW x \in Product, NEW q \in Quantity,
             UpdateItem(b, x, q)
      PROVE  cart[c][p] # None /\ cart[c][p].deal = cart'[c][p].deal
  <2>1. CASE b = c /\ x = p
    <3>1. cart[c][p] \in CartRow /\ cart[c][p] # None
      BY <1>1, <1>3, <2>1 DEF UpdateItem
    <3>2. cart'[c][p] = [cart[c][p] EXCEPT !.quantity = q]
      BY <1>1, <1>3, <2>1 DEF UpdateItem
    <3>3. QED
      BY <3>1, <3>2 DEF CartRow
  <2>2. CASE ~(b = c /\ x = p)
    BY <1>1, <1>3, <2>2 DEF UpdateItem
  <2>3. QED
    BY <2>1, <2>2
<1>4. ASSUME NEW b \in Customer, NEW x \in Product, DeleteItem(b, x)
      PROVE  cart'[c][p] = cart[c][p]
  BY <1>1, <1>4 DEF DeleteItem
<1>5. ASSUME NEW b \in Customer, ClearCart(b)
      PROVE  cart'[c][p] = cart[c][p]
  BY <1>1, <1>5 DEF ClearCart
<1>6. ASSUME NEW x \in Product, DeleteProduct(x)
      PROVE  cart'[c][p] = cart[c][p]
  BY <1>1, <1>6 DEF DeleteProduct
<1>7. CASE cart' = cart
  BY <1>7
<1>8. QED
  BY <1>2, <1>3, <1>4, <1>5, <1>6, <1>7
     DEF Next, CustomerNext, VendorNext, Environment, AddItem, FindDeal,
         Checkout, SellLine, RejectLine, PlaceOrder, LoadProduct,
         UpdateProduct, SetVendorStatus, BargainMoves, DealExpires, Restart,
         store, vars

\* A deal found in a request is its customer's, from the step that finds it
\* until the request ends.
LEMMA FoundStep ==
    ASSUME DealsInv, [Next]_vars, NEW c \in Customer, DealFound(c)
    PROVE  DealFound(c)'
<1>1. TypeOK /\ job[c] \in JobRow
  BY DEF DealsInv, TypeOK
<1>2. CASE job'[c] = job[c]
  <2>1. CASE job[c].deal = None
    BY <1>2, <2>1 DEF DealFound
  <2>2. CASE job[c].deal # None
    <3>1. job[c].deal \in Deal /\ deal[job[c].deal] # None
      BY <1>1, <2>2 DEF DealFound, Owns, JobRow
    <3>2. QED
      BY <1>2, <2>2, <3>1, OwnersKept DEF DealFound, Owns
  <2>3. QED
    BY <2>1, <2>2
<1>3. CASE job'[c].deal = None
  BY <1>3 DEF DealFound
<1>4. CASE FindDeal(c)
  <2> DEFINE p == job[c].product
  <2>1. job[c].at = "adding" /\ job[c].deal = None
    BY <1>4 DEF FindDeal, DealFound
  <2>2. ASSUME NEW d \in OpenDeals(c, p), UNCHANGED deal,
               job' = [job EXCEPT ![c].at = "priced", ![c].deal = d]
        PROVE  DealFound(c)'
    <3>1. /\ job'[c].at = "priced" /\ job'[c].deal = d
          /\ job'[c].product = p
      BY <1>1, <2>2 DEF TypeOK, JobRow
    <3>2. Owns(c, p, d)
      BY DEF OpenDeals, IsOpen, Owns
    <3>3. QED
      BY <2>2, <3>1, <3>2 DEF DealFound, Owns
  <2>3. ASSUME NEW d \in Deal, Granting(c, d),
               job' = [job EXCEPT ![c].at = "priced", ![c].deal = d]
        PROVE  DealFound(c)'
    <3>1. /\ job'[c].at = "priced" /\ job'[c].deal = d
          /\ job'[c].product = p
      BY <1>1, <2>3 DEF TypeOK, JobRow
    <3>2. deal'[d] = NewDeal(c, p) /\ deal'[d] # None
      BY <2>3, GrantedDeal
    <3>3. QED
      BY <3>1, <3>2 DEF DealFound, Owns, NewDeal
  <2>4. ASSUME job' = [job EXCEPT ![c].at = "priced"]
        PROVE  DealFound(c)'
    BY <1>1, <2>1, <2>4, <1>3 DEF TypeOK, JobRow
  <2>5. QED
    BY <1>4, <2>2, <2>3, <2>4 DEF FindDeal, Granting
<1>5. CASE SellLine(c)
  <2>1. Selling(c)
    BY <1>1, <1>5 DEF SellLine, Selling, TypeOK
  <2>2. job[c].at = "ordering" /\ job[c].deal = None
    BY <1>5 DEF SellLine, DealFound
  <2>3. job'[c].deal = job[c].deal
    BY <1>1, <2>1 DEF Selling, WithLine, JobRow
  <2>4. QED
    BY <1>3, <2>2, <2>3
<1>6. ASSUME NEW b \in Customer, CustomerNext(b)
      PROVE  DealFound(c)'
  <2>1. CASE b # c
    <3>1. job'[c] = job[c]
      BY <1>1, <1>6, <2>1
         DEF CustomerNext, AddItem, FindDeal, SaveRow, UpdateItem,
             DeleteItem, Checkout, SellLine, RejectLine, PlaceOrder,
             ClearCart, TypeOK
    <3>2. QED
      BY <1>2, <3>1
  <2>2. CASE b = c
    <3>1. CASE FindDeal(c) \/ SellLine(c)
      BY <3>1, <1>4, <1>5
    <3>2. CASE job' = job
      BY <3>2, <1>2
    <3>3. ASSUME NEW p \in Product, NEW q \in Quantity,
                 NEW live \in BOOLEAN, AddItem(c, p, q, live)
          PROVE  job'[c].deal = None
      BY <1>1, <3>3 DEF AddItem, Idle, TypeOK
    <3>4. ASSUME NEW payload \in Payload, Checkout(c, payload)
          PROVE  job'[c].deal = None
      BY <1>1, <3>4 DEF Checkout, Idle, TypeOK
    <3>5. CASE SaveRow(c) \/ RejectLine(c) \/ PlaceOrder(c) \/ ClearCart(c)
      <4>1. PICK r : job' = [job EXCEPT ![c] = r] /\ r.deal = None
        <5>1. Idle.deal = None /\ [Idle EXCEPT !.at = "clearing"].deal = None
          BY DEF Idle
        <5>2. QED
          BY <3>5, <5>1 DEF SaveRow, RejectLine, PlaceOrder, ClearCart
      <4>2. QED
        BY <1>1, <1>3, <4>1 DEF TypeOK
    <3>6. QED
      BY <1>3, <1>6, <2>2, <3>1, <3>2, <3>3, <3>4, <3>5
         DEF CustomerNext, UpdateItem, DeleteItem
  <2>3. QED
    BY <2>1, <2>2
<1>7. ASSUME NEW p \in Product, VendorNext(p) PROVE job' = job
  BY <1>7 DEF VendorNext, LoadProduct, UpdateProduct, DeleteProduct
<1>8. CASE Environment
  BY <1>2, <1>3, <1>8 DEF Environment, SetVendorStatus, BargainMoves,
                          DealExpires, Restart, Idle
<1>9. CASE UNCHANGED vars
  BY <1>2, <1>9 DEF vars
<1>10. QED
  BY <1>2, <1>6, <1>7, <1>8, <1>9 DEF Next

\* A cart row only ever carries a deal of its own customer and product.
THEOREM CartsHoldOwnDeals == Spec => []CartDealsAreOwn
<1>1. Init => CartInv
  BY DEF Init, CartInv, CartDealsAreOwn, DealFound, Idle
<1>2. DealsInv /\ CartInv /\ [Next]_vars => CartInv'
  <2> SUFFICES ASSUME DealsInv, CartInv, [Next]_vars PROVE CartInv'
    OBVIOUS
  <2>1. ASSUME NEW c \in Customer, NEW p \in Product,
               cart'[c][p] # None, cart'[c][p].deal # None
        PROVE  Owns(c, p, cart[c][p].deal)'
    <3>1. Owns(c, p, cart'[c][p].deal)
      BY <2>1, CartSteps DEF CartInv, CartDealsAreOwn, DealFound, Owns
    <3>2. cart'[c][p].deal \in Deal
      <4>1. cart'[c][p] \in CartRow
        BY <2>1, TypeNext DEF DealsInv, TypeOK
      <4>2. QED
        BY <2>1, <4>1 DEF CartRow
    <3>3. deal[cart'[c][p].deal] # None
      BY <3>1 DEF Owns
    <3>4. QED
      BY <3>1, <3>2, <3>3, OwnersKept DEF Owns
  <2>2. \A c \in Customer : DealFound(c)'
    BY FoundStep DEF CartInv
  <2>3. QED
    BY <2>1, <2>2 DEF CartInv, CartDealsAreOwn, Owns
<1>3. CartInv => CartDealsAreOwn
  BY DEF CartInv
<1>4. QED
  BY <1>1, <1>2, <1>3, DealsInvariant, PTL DEF Spec

-----------------------------------------------------------------------------
(* Commerce implements DealBook.                                           *)

\* The value the refinement mapping gives one deal.
Phase(row) == IF row = None THEN "absent"
              ELSE IF row.status = "used" THEN "redeemed"
              ELSE IF row.fresh THEN "open" ELSE "lapsed"

TermsOf(row) == IF row = None THEN None
                ELSE [customer |-> row.customer, product |-> row.product,
                      price |-> row.price]

OrderIn(row) == IF row = None THEN None ELSE row.order

\* The refinement mapping, deal by deal, before and after a step.
LEMMA Mapping ==
    /\ DealState = [d \in Deal |-> Phase(deal[d])]
    /\ DealTerms = [d \in Deal |-> TermsOf(deal[d])]
    /\ DealOrder = [d \in Deal |-> OrderIn(deal[d])]
    /\ DealState' = [d \in Deal |-> Phase(deal'[d])]
    /\ DealTerms' = [d \in Deal |-> TermsOf(deal'[d])]
    /\ DealOrder' = [d \in Deal |-> OrderIn(deal'[d])]
BY DEF DealState, DealTerms, DealOrder, Phase, TermsOf, OrderIn

\* Granting a deal is the book's Grant.
LEMMA BookGrant ==
    ASSUME DealsInv, NEW c \in Customer, NEW d \in Deal, Granting(c, d)
    PROVE  Book!Next
<1> DEFINE p == job[c].product
           t == [customer |-> c, product |-> p, price |-> offer[p]]
<1>1. /\ p \in Product /\ NewDeal(c, p) \in DealRow
      /\ deal'[d] = NewDeal(c, p) /\ deal'[d] # None
      /\ \A e \in Deal \ {d} : deal'[e] = deal[e]
  BY GrantedDeal
<1>2. deal[d] = None
  BY DEF Granting
<1>3. t \in Book!Terms
  BY <1>1 DEF Book!Terms, NewDeal, DealRow
<1>4. /\ Phase(deal'[d]) = "open" /\ TermsOf(deal'[d]) = t
      /\ OrderIn(deal'[d]) = None
  BY <1>1 DEF Phase, TermsOf, OrderIn, NewDeal
<1>5. /\ DealState[d] = "absent" /\ OrderIn(deal[d]) = None
  BY <1>2, Mapping DEF Phase, OrderIn
<1>6. \A e \in Deal : DealState[e] = "open" =>
         <<DealTerms[e].customer, DealTerms[e].product>> # <<c, p>>
  <2> SUFFICES ASSUME NEW e \in Deal, Phase(deal[e]) = "open"
               PROVE  <<TermsOf(deal[e]).customer, TermsOf(deal[e]).product>>
                        # <<c, p>>
    BY Mapping
  <2>1. deal[e] # None /\ deal[e] \in DealRow
    BY DEF Phase, DealsInv, TypeOK
  <2>2. IsOpen(e)
    BY <2>1 DEF Phase, IsOpen, DealRow
  <2>3. ~(deal[e].customer = c /\ deal[e].product = p)
    BY <2>2 DEF Granting, OpenDeals
  <2>4. QED
    BY <2>1, <2>3 DEF TermsOf
<1> HIDE DEF p, t
<1>7. DealState' = [DealState EXCEPT ![d] = "open"]
  BY <1>1, <1>4, Mapping
<1>8. DealTerms' = [DealTerms EXCEPT ![d] = t]
  BY <1>1, <1>4, Mapping
<1>9. DealOrder' = DealOrder
  BY <1>1, <1>4, <1>5, Mapping
<1>10. t.customer = c /\ t.product = p
  BY DEF t
<1>11. Book!Grant(d, t)
  BY <1>5, <1>6, <1>7, <1>8, <1>9, <1>10 DEF Book!Grant
<1>12. QED
  BY <1>3, <1>11 DEF Book!Next

\* An expiring deal is the book's Lapse.
LEMMA BookLapse ==
    ASSUME DealsInv, NEW d \in Deal, DealExpires(d)
    PROVE  Book!Next
<1>1. /\ Unspent(d) /\ deal[d] # None
      /\ deal[d].status = "accepted" /\ deal[d].fresh
      /\ deal'[d].fresh = FALSE
      /\ \A e \in Deal \ {d} : deal'[e] = deal[e]
  BY ExpiredDeal
<1>2. /\ Phase(deal[d]) = "open" /\ Phase(deal'[d]) = "lapsed"
      /\ TermsOf(deal'[d]) = TermsOf(deal[d])
      /\ OrderIn(deal'[d]) = OrderIn(deal[d])
  BY <1>1 DEF Unspent, Phase, TermsOf, OrderIn
<1>3. DealState[d] = "open"
  BY <1>2, Mapping
<1>4. DealState' = [DealState EXCEPT ![d] = "lapsed"]
  BY <1>1, <1>2, Mapping
<1>5. DealTerms' = DealTerms /\ DealOrder' = DealOrder
  BY <1>1, <1>2, Mapping
<1>6. QED
  BY <1>3, <1>4, <1>5 DEF Book!Lapse, Book!Next

\* Placing an order is the book's Redeem.
LEMMA BookRedeem ==
    ASSUME DealsInv, NEW c \in Customer, PlaceOrder(c)
    PROVE  Book!Next
<1> DEFINE o == job[c].order
           D == DealsIn(job[c].lines)
<1>1. /\ o \in Order /\ orders[o] = None /\ D \subseteq Deal
      /\ \A d \in D : /\ deal[d] \in DealRow
                      /\ deal[d].status = "accepted"
                      /\ deal[d].customer = c
      /\ \A d \in Deal \ D : deal'[d] = deal[d]
  BY Placing
<1>2. \A d \in D : /\ deal'[d] # None
                   /\ deal'[d].status = "used"
                   /\ deal'[d].order = o
                   /\ deal'[d].customer = deal[d].customer
                   /\ deal'[d].product = deal[d].product
                   /\ deal'[d].price = deal[d].price
  BY <1>1, PlacedDeals
<1> HIDE DEF o, D
<1>3. \A d \in Deal : DealOrder[d] # o
  <2> SUFFICES ASSUME NEW d \in Deal, OrderIn(deal[d]) = o PROVE FALSE
    BY Mapping
  <2>1. deal[d] # None /\ deal[d].order = o /\ o # None
    BY <1>1, CommerceAssumption DEF OrderIn
  <2>2. Settled(d)
    BY <2>1 DEF DealsInv, UsedDealsAreSettled
  <2>3. QED
    BY <1>1, <2>1, <2>2 DEF Settled
<1>4. \A d \in D : deal[d] # None
  BY <1>1, NoneIsNoRow
<1>5. \A d \in D : /\ Phase(deal[d]) \in {"open", "lapsed"}
                   /\ TermsOf(deal[d]).customer = c
  BY <1>1, <1>4 DEF Phase, TermsOf
<1>6. \A d \in D : /\ Phase(deal'[d]) = "redeemed"
                   /\ TermsOf(deal'[d]) = TermsOf(deal[d])
                   /\ OrderIn(deal'[d]) = o
  BY <1>2, <1>4 DEF Phase, TermsOf, OrderIn
<1>7. \A d \in D : /\ DealState[d] \in {"open", "lapsed"}
                   /\ DealTerms[d].customer = c
  BY <1>1, <1>5, Mapping
<1>8. DealState' = [d \in Deal |-> IF d \in D THEN "redeemed"
                                   ELSE DealState[d]]
  BY <1>1, <1>6, Mapping
<1>9. DealOrder' = [d \in Deal |-> IF d \in D THEN o ELSE DealOrder[d]]
  BY <1>1, <1>6, Mapping
<1>10. DealTerms' = DealTerms
  BY <1>1, <1>6, Mapping
<1>11. Book!Redeem(o, c, D)
  BY <1>3, <1>7, <1>8, <1>9, <1>10 DEF Book!Redeem
<1>12. QED
  BY <1>1, <1>11 DEF Book!Next

\* Under every interleaving the handlers implement the abstract book of
\* deals: granted once, one open per customer and product, redeemed once.
THEOREM ImplementsBook == Spec => BookSpec
<1>1. Init => Book!Init
  <2> SUFFICES ASSUME Init PROVE Book!Init
    OBVIOUS
  <2>1. \A d \in Deal : deal[d] = None
    BY DEF Init
  <2>2. \A d \in Deal : /\ Phase(deal[d]) = "absent"
                        /\ TermsOf(deal[d]) = None
                        /\ OrderIn(deal[d]) = None
    BY <2>1 DEF Phase, TermsOf, OrderIn
  <2>3. QED
    BY <2>2, Mapping DEF Book!Init
<1>2. DealsInv /\ [Next]_vars => [Book!Next]_(Book!vars)
  <2> SUFFICES ASSUME DealsInv, [Next]_vars
               PROVE  Book!Next \/ UNCHANGED Book!vars
    OBVIOUS
  <2>1. CASE deal' = deal
    <3>1. DealState' = DealState /\ DealTerms' = DealTerms
          /\ DealOrder' = DealOrder
      BY <2>1, Mapping
    <3>2. QED
      BY <3>1 DEF Book!vars
  <2>2. QED
    BY <2>1, DealSteps, BookGrant, BookLapse, BookRedeem
<1>3. QED
  BY <1>1, <1>2, DealsInvariant, PTL DEF Spec, BookSpec, Book!Spec

-----------------------------------------------------------------------------
(* Money and stock.                                                        *)

\* The figures of a request after one more line.
LEMMA LineFigures ==
    ASSUME TypeOK, NEW c \in Customer, Selling(c)
    PROVE  \E amount \in Nat, v \in Vendor :
             /\ job'[c].total = job[c].total + amount
             /\ job'[c].commission = job[c].commission + Commission(amount, v)
<1> DEFINE l == Head(job[c].todo)
           p == l.product
<1>1. job[c] \in JobRow /\ job[c].todo # <<>>
  BY DEF TypeOK, Selling, SellLine
<1>2. PICK d \in DealFor(c, p) : job'[c] = WithLine(c, l, d)
  BY DEF Selling
<1>3. l \in PayloadLine
  BY <1>1 DEF JobRow
<1>4. p \in Product /\ l.quantity \in Nat
  BY <1>3, CommerceAssumption DEF PayloadLine
<1>5. d = None \/ deal[d] \in DealRow
  BY DEF DealFor, OpenDeals, IsOpen, TypeOK
<1>6. UnitPrice(c, p, d) \in Nat
  BY <1>4, <1>5, PricesType
<1> DEFINE amount == UnitPrice(c, p, d) * l.quantity
<1>7. amount \in Nat /\ VendorOf[p] \in Vendor
  BY <1>4, <1>6, CommerceAssumption
<1>8. /\ job'[c].total = job[c].total + amount
      /\ job'[c].commission = job[c].commission
                                + Commission(amount, VendorOf[p])
  BY <1>1, <1>2 DEF WithLine, JobRow
<1> HIDE DEF amount
<1>9. QED
  BY <1>7, <1>8

MoneyInv ==
    /\ \A c \in Customer : job[c].commission <= job[c].total
    /\ MoneyConserved

\* An order's total is the vendors' payout, the commission and the courier
\* charge, and the payout is never negative, for every price, percentage,
\* quantity and number of lines.
THEOREM MoneyIsConserved == Spec => []MoneyConserved
<1>1. Init => MoneyInv
  BY DEF Init, MoneyInv, MoneyConserved, Idle
<1>2. DealsInv /\ MoneyInv /\ [Next]_vars => MoneyInv'
  <2> SUFFICES ASSUME DealsInv, MoneyInv, [Next]_vars PROVE MoneyInv'
    OBVIOUS
  <2>1. TypeOK
    BY DEF DealsInv
  <2>2. ASSUME NEW c \in Customer
        PROVE  job'[c].commission <= job'[c].total
    <3>1. /\ job[c].commission <= job[c].total
          /\ job[c].commission \in Nat /\ job[c].total \in Nat
      BY <2>1 DEF MoneyInv, TypeOK, JobRow
    <3>2. CASE Selling(c)
      BY <2>1, <3>1, <3>2, LineFigures, CommissionBounds
    <3>3. CASE Resting(job'[c])
      BY <3>3 DEF Resting
    <3>4. CASE Unsold(c)
      BY <3>1, <3>4 DEF Unsold
    <3>5. QED
      BY <2>1, <3>2, <3>3, <3>4, RequestSteps
  <2>3. MoneyConserved'
    <3>1. CASE orders' = orders
      BY <3>1 DEF MoneyInv, MoneyConserved
    <3>2. ASSUME NEW c \in Customer, PlaceOrder(c) PROVE MoneyConserved'
      <4>1. /\ orders' = [orders EXCEPT ![job[c].order] = OrderOf(c)]
            /\ job[c].order \in Order
        BY <3>2, Placing
      <4>2. /\ job[c].total \in Nat /\ job[c].commission \in Nat
            /\ job[c].courier \in Nat /\ job[c].commission <= job[c].total
        BY <2>1 DEF TypeOK, JobRow, MoneyInv
      <4>3. /\ OrderOf(c).total = OrderOf(c).payout + OrderOf(c).commission
                                    + OrderOf(c).courier
            /\ OrderOf(c).payout >= 0
        BY <4>2 DEF OrderOf
      <4>4. QED
        BY <2>1, <4>1, <4>3 DEF TypeOK, MoneyInv, MoneyConserved
    <3>3. QED
      BY <3>1, <3>2, DealSteps DEF Granting, DealExpires
  <2>4. QED
    BY <2>2, <2>3 DEF MoneyInv
<1>3. MoneyInv => MoneyConserved
  BY DEF MoneyInv
<1>4. QED
  BY <1>1, <1>2, <1>3, DealsInvariant, PTL DEF Spec

StockInv ==
    /\ StockNeverNegative
    /\ \A c \in Customer, p \in Product :
          job[c].seen[p] # None => job[c].seen[p] >= 0
    /\ \A p \in Product : edit[p] # None => edit[p].stock >= 0

\* No overlap of checkouts and product edits drives a stock below zero.
THEOREM StockStaysNatural == Spec => []StockNeverNegative
<1>1. Init => StockInv
  BY CommerceAssumption DEF Init, StockInv, StockNeverNegative, Idle
<1>2. DealsInv /\ StockInv /\ [Next]_vars => StockInv'
  <2> SUFFICES ASSUME DealsInv, StockInv, [Next]_vars PROVE StockInv'
    OBVIOUS
  <2>1. TypeOK
    BY DEF DealsInv
  <2>2. ASSUME NEW c \in Customer, NEW p \in Product, job'[c].seen[p] # None
        PROVE  job'[c].seen[p] >= 0
    <3>1. job[c].seen \in [Product -> Int \cup {None}]
      BY <2>1 DEF TypeOK, JobRow
    <3>2. CASE Selling(c)
      <4> DEFINE l == Head(job[c].todo)
      <4>1. PICK d : job'[c] = WithLine(c, l, d)
        BY <3>2 DEF Selling
      <4>2. /\ OnHand(c, l.product) >= l.quantity
            /\ job[c].todo # <<>> /\ job[c] \in JobRow
        BY <2>1, <3>2 DEF Selling, SellLine, CanSell, TypeOK
      <4>3. l \in PayloadLine
        BY <4>2 DEF JobRow
      <4>4. l.product \in Product /\ l.quantity \in Nat
        BY <4>3, CommerceAssumption DEF PayloadLine
      <4>5. OnHand(c, l.product) \in Int
        BY <2>1, <3>1, <4>4 DEF OnHand, Loaded, TypeOK
      <4>6. job'[c].seen = [job[c].seen EXCEPT ![l.product] =
                              OnHand(c, l.product) - l.quantity]
        BY <4>1, <4>2 DEF WithLine, JobRow
      <4> HIDE DEF l
      <4>7. QED
        BY <2>2, <3>1, <4>2, <4>4, <4>5, <4>6 DEF StockInv
    <3>3. CASE Resting(job'[c])
      BY <2>2, <3>3 DEF Resting
    <3>4. CASE Unsold(c)
      BY <2>2, <3>4 DEF Unsold, StockInv
    <3>5. QED
      BY <2>1, <3>2, <3>3, <3>4, RequestSteps
  <2>3. ASSUME NEW p \in Product
        PROVE  /\ stock'[p] >= 0
               /\ edit'[p] # None => edit'[p].stock >= 0
    <3>1. /\ stock[p] \in Int /\ stock[p] >= 0
          /\ edit[p] # None => edit[p] \in EditRow /\ edit[p].stock >= 0
      BY <2>1 DEF TypeOK, StockInv, StockNeverNegative
    <3>2. CASE stock' = stock /\ edit' = edit
      BY <3>1, <3>2
    <3>3. ASSUME NEW c \in Customer, PlaceOrder(c)
          PROVE  /\ stock'[p] >= 0
                 /\ edit'[p] # None => edit'[p].stock >= 0
      BY <3>1, <3>3 DEF PlaceOrder, OnHand, Loaded, StockInv
    <3>4. ASSUME NEW x \in Product, VendorNext(x)
          PROVE  /\ stock'[p] >= 0
                 /\ edit'[p] # None => edit'[p].stock >= 0
      <4>1. ASSUME NEW op \in VendorOp, LoadProduct(x, op)
            PROVE  /\ stock'[p] >= 0
                   /\ edit'[p] # None => edit'[p].stock >= 0
        BY <2>1, <3>1, <4>1 DEF LoadProduct, store, TypeOK
      <4>2. CASE UpdateProduct(x)
        <5>1. PICK n \in StockInput \cup {edit[x].stock} :
                stock' = [stock EXCEPT ![x] = Written(n, edit[x].stock, @)]
          BY <4>2 DEF UpdateProduct
        <5>2. n >= 0
          BY <4>2, CommerceAssumption DEF UpdateProduct, StockInv
        <5>3. stock'[p] >= 0
          BY <2>1, <3>1, <5>1, <5>2 DEF Written, TypeOK
        <5>4. QED
          BY <2>1, <3>1, <4>2, <5>3 DEF UpdateProduct, TypeOK
      <4>3. CASE DeleteProduct(x)
        BY <2>1, <3>1, <4>3 DEF DeleteProduct, Written, TypeOK
      <4>4. QED
        BY <3>4, <4>1, <4>2, <4>3 DEF VendorNext
    <3>5. CASE Environment
      BY <3>1, <3>5 DEF Environment, SetVendorStatus, BargainMoves,
                        DealExpires, Restart, store
    <3>6. ASSUME NEW c \in Customer, CustomerNext(c), ~PlaceOrder(c)
          PROVE  stock' = stock /\ edit' = edit
      BY <3>6 DEF CustomerNext, AddItem, FindDeal, SaveRow, UpdateItem,
           DeleteItem, Checkout, SellLine, RejectLine, ClearCart, store
    <3>7. QED
      BY <3>2, <3>3, <3>4, <3>5, <3>6 DEF Next, vars
  <2>4. QED
    BY <2>2, <2>3 DEF StockInv, StockNeverNegative
<1>3. StockInv => StockNeverNegative
  BY DEF StockInv
<1>4. QED
  BY <1>1, <1>2, <1>3, DealsInvariant, PTL DEF Spec
=============================================================================
