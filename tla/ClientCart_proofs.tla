------------------------- MODULE ClientCart_proofs -------------------------
(* Theorems about ClientCart, for every value of its constants. *)
EXTENDS ClientCart, Recency_proofs

-----------------------------------------------------------------------------
(* The invariant.                                                          *)

Change == {"add", "update", "delete"}
Before == {"sent", "making", "found", "saving"}

Calls ==
    [at : {"idle", "saved", "answered"} \cup Before,
     op : {None, "get", "clear"} \cup Change,
     product : Product \cup {None}, quantity : 0..MaxQuantity,
     cart : 1..MaxId \cup {None}, row : Row \cup {None}, answer : SUBSET Row]

\* What a call needs at the place where it is.
Fits(r) ==
    /\ r.at \in Before /\ r.op \in Change => r.product \in Product
    /\ r.at \in Before /\ r.op = "add" => r.quantity >= 1
    /\ r.at \in {"found", "saving"} => r.cart \in 1..MaxId
    /\ r.at \in {"saving", "saved"} => r.op \in Change

TypeInv ==
    /\ carts \in 0..MaxId
    /\ row \subseteq Row
    /\ shown \subseteq Row
    /\ asked \in [Product -> 0..MaxQuantity]
    /\ calm \in BOOLEAN /\ lost \in BOOLEAN
    /\ call \in [Call -> Calls]
    /\ \A c \in Call : Fits(call[c])

Busy(c) == call[c].at # "idle"

Alone == \A c, d \in Call : Busy(c) /\ Busy(d) => c = d

\* One cart at most, every row in it, and every product and id once.
RowsOK ==
    /\ carts <= 1
    /\ \A r \in row : r.cart = 1 /\ carts = 1
    /\ \A r, s \in row : r.product = s.product => r = s
    /\ \A r, s \in row : r.id = s.id => r = s

\* What the call r has read is still so.
UpToDate(r) ==
    /\ r.at = "making" => carts = 0
    /\ r.at \in {"found", "saving"} => r.cart = 1 /\ carts = 1
    /\ r.at = "saved" => carts = 1
    /\ r.at = "saving" =>
          \/ r.row = None /\ \A s \in row : s.product # r.product
          \/ r.row \in row /\ r.row.product = r.product
    /\ r.at = "answered" => r.answer = row

\* What is in the cart is what was asked for.
Agree == \A p \in Product : Count(row, p) = asked[p]

\* What was asked for is what the cart has once the call r has been carried
\* out on it.
Pending(r) ==
    /\ r.op = "get" => Agree
    /\ r.op = "clear" => asked = Nothing
    /\ r.op \in Change =>
          /\ asked[r.product] =
                IF r.op = "add" THEN Count(row, r.product) + r.quantity
                ELSE IF r.op = "update" THEN r.quantity ELSE 0
          /\ \A p \in Product \ {r.product} : Count(row, p) = asked[p]
          /\ r.op = "update" => \E s \in row : s.product = r.product

PageFits(r) ==
    /\ r.at \in Before => shown = row /\ Pending(r)
    /\ r.at \in {"saved", "answered"} => Agree /\ (r.op = "get" => shown = row)

CalmInv ==
    calm => /\ Alone /\ RowsOK
            /\ \A c \in Call : UpToDate(call[c])
            /\ ~lost =>
                  /\ Quiet => shown = row /\ Agree
                  /\ \A c \in Call : PageFits(call[c])

-----------------------------------------------------------------------------
(* The operators.                                                          *)

\* Nobody calls with an empty call.
LEMMA IdleOK ==
    Idle \in Calls /\ Idle.at = "idle" /\ Fits(Idle) /\ Idle.answer = {}
BY ClientCartAssumption DEF Idle, Calls, Fits, Before

\* Quantities are numbers up to the bound.
LEMMA Bounds ==
    /\ MaxQuantity \in Nat /\ MaxQuantity >= 1 /\ MaxId \in Nat
    /\ None \notin Row /\ None \notin Product
BY ClientCartAssumption

\* Count is 0 or the quantity of one of the rows.
LEMMA CountOK ==
    ASSUME NEW rows, rows \subseteq Row, NEW p
    PROVE  /\ Count(rows, p) \in 0..MaxQuantity
           /\ (\A r \in rows : r.product # p) => Count(rows, p) = 0
<1>1. CASE \E r \in rows : r.product = p
  <2> DEFINE x == CHOOSE r \in rows : r.product = p
  <2>1. x \in rows /\ x.product = p
    BY <1>1
  <2>2. Count(rows, p) = x.quantity
    BY <1>1 DEF Count
  <2> HIDE DEF x
  <2>3. x.quantity \in 1..MaxQuantity
    BY <2>1 DEF Row, Quantity
  <2>4. QED
    BY <1>1, <2>2, <2>3, Bounds
<1>2. CASE \A r \in rows : r.product # p
  BY <1>2, Bounds DEF Count
<1>3. QED
  BY <1>1, <1>2

\* Where a product has one row, Count is its quantity.
LEMMA CountIs ==
    ASSUME NEW rows, NEW r \in rows,
           \A s \in rows : s.product = r.product => s = r
    PROVE  Count(rows, r.product) = r.quantity
<1> DEFINE x == CHOOSE s \in rows : s.product = r.product
<1>1. x \in rows /\ x.product = r.product
  OBVIOUS
<1>2. x = r
  BY <1>1
<1>3. QED
  BY <1>2 DEF Count

\* Rows that have the same of a product count the same.
LEMMA CountSame ==
    ASSUME NEW rows, NEW others, NEW p,
           {r \in rows : r.product = p} = {r \in others : r.product = p}
    PROVE  Count(rows, p) = Count(others, p)
<1>1. \A r : r \in rows /\ r.product = p <=> r \in others /\ r.product = p
  <2>1. ASSUME NEW r
        PROVE  r \in {x \in rows : x.product = p}
                  <=> r \in {x \in others : x.product = p}
    OBVIOUS
  <2>2. QED
    BY <2>1
<1>2. (CHOOSE r \in rows : r.product = p)
         = (CHOOSE r \in others : r.product = p)
  BY <1>1
<1>3. QED
  BY <1>1, <1>2 DEF Count

\* The id of a new row is one that no row has.
LEMMA NewIdOK ==
    ASSUME TypeInv
    PROVE  /\ NewId \in 1..(MaxId + 1)
           /\ \A r \in row : r.id # NewId
<1> DEFINE known == row \cup ({call[c].row : c \in Call} \ {None})
           used == {r.id : r \in known}
           free == {i \in 1..(MaxId + 1) : i \notin used}
<1>1. \A c \in Call : call[c].row \in Row \cup {None}
  BY DEF TypeInv, Calls
<1>2. known \subseteq Row
  BY <1>1 DEF TypeInv
<1>3. \A i \in used : i \in 1..MaxId
  BY <1>2 DEF Row
<1> HIDE DEF known
<1>4. MaxId + 1 \in free
  BY <1>3, Bounds
<1>5. free \subseteq Nat
  BY Bounds
<1>6. PICK least \in free : \A y \in free : least <= y
  <2> HIDE DEF free
  <2>1. QED
    BY <1>4, <1>5, HasLeast
<1>7. /\ least \in 1..(MaxId + 1) /\ least \notin used
      /\ \A j \in 1..(least - 1) : j \in used
  <2>1. least \in 1..(MaxId + 1) /\ least \notin used
    BY <1>6
  <2>2. ASSUME NEW j \in 1..(least - 1) PROVE j \in used
    <3>1. j \in 1..(MaxId + 1) /\ j < least
      BY <2>1, Bounds
    <3>2. QED
      BY <1>6, <3>1
  <2>3. QED
    BY <2>1, <2>2
<1>8. NewId = CHOOSE i \in 1..(MaxId + 1) :
                 i \notin used /\ \A j \in 1..(i - 1) : j \in used
  BY DEF NewId, used, known
<1> HIDE DEF used
<1>9. NewId \in 1..(MaxId + 1) /\ NewId \notin used
  BY <1>7, <1>8
<1>10. QED
  BY <1>9 DEF used, known

\* A quantity that is written is a quantity.
LEMMA WithQuantityOK ==
    ASSUME TypeInv, NEW r \in Row, NEW q \in 1..MaxQuantity
    PROVE  WithQuantity(r, q) \subseteq Row
<1>1. ASSUME NEW s \in row
      PROVE  [s EXCEPT !.quantity = Written(q, r.quantity, s.quantity)] \in Row
  <2>1. s \in Row
    BY DEF TypeInv
  <2>2. Written(q, r.quantity, s.quantity) \in Quantity
    BY <2>1 DEF Written, Row, Quantity
  <2>3. QED
    BY <2>1, <2>2 DEF Row
<1>2. QED
  BY <1>1 DEF WithQuantity, TypeInv

-----------------------------------------------------------------------------
(* Every action keeps the types.                                           *)

\* One call becomes another.
LEMMA Given ==
    ASSUME TypeInv, NEW c \in Call, NEW r \in Calls,
           call' = [call EXCEPT ![c] = r]
    PROVE  /\ call' \in [Call -> Calls] /\ call'[c] = r
           /\ \A d \in Call \ {c} : call'[d] = call[d]
BY DEF TypeInv

\* A step of one call that leaves the tables with their types.
LEMMA Stepped ==
    ASSUME TypeInv, NEW c \in Call, NEW r \in Calls, Fits(r), Goes(c, r),
           carts' \in 0..MaxId, row' \subseteq Row, UNCHANGED <<Page, History>>
    PROVE  TypeInv'
<1>1. /\ call' \in [Call -> Calls] /\ call'[c] = r
      /\ \A d \in Call \ {c} : call'[d] = call[d]
  BY Given DEF Goes
<1>2. \A d \in Call : Fits(call'[d])
  BY <1>1 DEF TypeInv
<1>3. QED
  BY <1>1, <1>2 DEF TypeInv, Page, History

\* A click sends a call.
LEMMA SendsOK ==
    ASSUME TypeInv, NEW c \in Call, NEW op \in {"get", "clear"} \cup Change,
           NEW p \in Product \cup {None}, NEW q \in 0..MaxQuantity,
           op \in Change => p \in Product, op = "add" => q >= 1,
           NEW n \in [Product -> 0..MaxQuantity],
           Sends(c, op, p, q), Asks(n)
    PROVE  /\ TypeInv'
           /\ call'[c] = [Idle EXCEPT !.at = "sent", !.op = op,
                                      !.product = p, !.quantity = q]
           /\ call'[c].at = "sent" /\ call'[c].op = op
           /\ call'[c].product = p /\ call'[c].quantity = q
           /\ \A d \in Call \ {c} : call'[d] = call[d]
           /\ calm' => calm /\ \A d \in Call : call[d].at = "idle"
<1> DEFINE r == [Idle EXCEPT !.at = "sent", !.op = op, !.product = p,
                             !.quantity = q]
<1>1. /\ r \in Calls /\ r.at = "sent" /\ r.op = op /\ r.product = p
      /\ r.quantity = q
  BY ClientCartAssumption DEF Idle, Calls, Before
<1>2. call' = [call EXCEPT ![c] = r]
  BY DEF Sends
<1>3. Fits(r)
  BY <1>1 DEF Fits
<1> HIDE DEF r
<1>4. /\ call' \in [Call -> Calls] /\ call'[c] = r
      /\ \A d \in Call \ {c} : call'[d] = call[d]
  BY <1>1, <1>2, Given
<1>5. /\ calm' = (calm /\ \A d \in Call : call[d].at = "idle")
      /\ lost' = (calm' /\ lost) /\ UNCHANGED <<carts, row, shown>>
  BY DEF Sends, Database
<1>6. calm' \in BOOLEAN /\ lost' \in BOOLEAN
  BY <1>5 DEF TypeInv
<1>7. asked' \in [Product -> 0..MaxQuantity]
  BY <1>6, Bounds DEF Asks, Nothing
<1>8. \A d \in Call : Fits(call'[d])
  BY <1>3, <1>4 DEF TypeInv
<1>9. TypeInv'
  BY <1>4, <1>5, <1>6, <1>7, <1>8 DEF TypeInv
<1>10. QED
  BY <1>1, <1>4, <1>5, <1>9 DEF r

\* Looking at the cart asks for nothing new.
LEMMA OpenOK == ASSUME TypeInv, NEW c \in Call, Open(c) PROVE TypeInv'
<1>1. asked \in [Product -> 0..MaxQuantity] /\ 0 \in 0..MaxQuantity
  BY Bounds DEF TypeInv
<1>2. "get" \notin Change
  BY DEF Change
<1>3. QED
  BY <1>1, <1>2, SendsOK DEF Open

\* A product is put into the cart.
LEMMA ClickAddOK ==
    ASSUME TypeInv, NEW c \in Call, NEW p \in Product, NEW q \in Quantity,
           ClickAdd(c, p, q)
    PROVE  TypeInv'
<1> DEFINE n == [asked EXCEPT ![p] = @ + q]
<1>1. q \in 0..MaxQuantity /\ q >= 1 /\ asked[p] + q <= MaxQuantity
  BY Bounds DEF Quantity, ClickAdd
<1>2. n \in [Product -> 0..MaxQuantity]
  BY <1>1, Bounds DEF TypeInv
<1>3. Sends(c, "add", p, q) /\ Asks(n) /\ "add" \in Change
  BY DEF ClickAdd, Change
<1> HIDE DEF n
<1>4. QED
  BY <1>1, <1>2, <1>3, SendsOK

\* "+" or "-" on a row that is shown.
LEMMA ClickStepOK ==
    ASSUME TypeInv, NEW c \in Call, NEW r \in shown, NEW step \in {1, -1},
           ClickStep(c, r, step)
    PROVE  TypeInv'
<1> DEFINE q == r.quantity + step
           p == r.product
           n == [asked EXCEPT ![p] = q]
<1>1. r.quantity \in 1..MaxQuantity /\ p \in Product
  BY DEF TypeInv, Row, Quantity
<1>2. q \in 0..MaxQuantity
  BY <1>1, Bounds DEF ClickStep
<1>3. n \in [Product -> 0..MaxQuantity]
  BY <1>1, <1>2 DEF TypeInv
<1>4. Sends(c, "update", p, q) /\ Asks(n) /\ "update" \in Change
  BY DEF ClickStep, Change
<1> HIDE DEF n, q, p
<1>5. QED
  BY <1>1, <1>2, <1>3, <1>4, SendsOK

\* A row is removed.
LEMMA ClickRemoveOK ==
    ASSUME TypeInv, NEW c \in Call, NEW r \in shown, ClickRemove(c, r)
    PROVE  TypeInv'
<1> DEFINE p == r.product
           n == [asked EXCEPT ![p] = 0]
<1>1. p \in Product /\ 0 \in 0..MaxQuantity
  BY Bounds DEF TypeInv, Row
<1>2. n \in [Product -> 0..MaxQuantity]
  BY <1>1 DEF TypeInv
<1>3. Sends(c, "delete", p, 0) /\ Asks(n) /\ "delete" \in Change
  BY DEF ClickRemove, Change
<1> HIDE DEF n, p
<1>4. QED
  BY <1>1, <1>2, <1>3, SendsOK

\* The checkout clears the cart.
LEMMA ClickPayOK == ASSUME TypeInv, NEW c \in Call, ClickPay(c) PROVE TypeInv'
<1>1. Nothing \in [Product -> 0..MaxQuantity] /\ 0 \in 0..MaxQuantity
  BY Bounds DEF Nothing
<1>2. "clear" \notin Change
  BY DEF Change
<1>3. QED
  BY <1>1, <1>2, SendsOK DEF ClickPay

\* A call is over.
LEMMA Ended ==
    ASSUME TypeInv, NEW c \in Call, call' = [call EXCEPT ![c] = Idle],
           UNCHANGED <<carts, row, calm>>, shown' \subseteq Row,
           asked' \in [Product -> 0..MaxQuantity], lost' \in BOOLEAN
    PROVE  TypeInv'
<1>1. /\ call' \in [Call -> Calls] /\ call'[c] = Idle
      /\ \A d \in Call \ {c} : call'[d] = call[d]
  BY IdleOK, Given
<1>2. \A d \in Call : Fits(call'[d])
  BY <1>1, IdleOK DEF TypeInv
<1>3. QED
  BY <1>1, <1>2 DEF TypeInv

\* The answer is shown.
LEMMA ReceiveOK == ASSUME TypeInv, NEW c \in Call, Receive(c) PROVE TypeInv'
<1> DEFINE n == [p \in Product |-> Count(call[c].answer, p)]
<1>1. call[c].answer \subseteq Row
  BY DEF TypeInv, Calls
<1>2. n \in [Product -> 0..MaxQuantity]
  BY <1>1, CountOK
<1>3. asked' = IF calm' THEN (IF lost THEN n ELSE asked) ELSE Nothing
  BY DEF Receive, Asks
<1> HIDE DEF n
<1>4. asked' \in [Product -> 0..MaxQuantity]
  BY <1>2, <1>3, Bounds DEF TypeInv, Nothing
<1>5. QED
  BY <1>1, <1>4, Ended DEF Receive, Database

\* A call fails.
LEMMA FailOK == ASSUME TypeInv, NEW c \in Call, Fail(c) PROVE TypeInv'
BY Ended DEF Fail, Database, Page, TypeInv

\* A cart is found, or there is none.
LEMMA FindCartOK == ASSUME TypeInv, NEW c \in Call, FindCart(c) PROVE TypeInv'
<1>1. call[c] \in Calls /\ Fits(call[c]) /\ call[c].at = "sent"
      /\ carts' \in 0..MaxId /\ row' \subseteq Row
      /\ UNCHANGED <<Page, History>>
  BY DEF TypeInv, FindCart, Database
<1>2. ASSUME NEW k \in CartsSeen,
             Goes(c, [call[c] EXCEPT !.at = "found", !.cart = k])
      PROVE  TypeInv'
  <2> DEFINE r == [call[c] EXCEPT !.at = "found", !.cart = k]
  <2>1. k \in 1..MaxId
    BY <1>1, Bounds DEF CartsSeen, TypeInv
  <2>2. r \in Calls /\ Fits(r)
    BY <1>1, <2>1 DEF Calls, Fits, Before
  <2> HIDE DEF r
  <2>3. Goes(c, r)
    BY <1>2 DEF r
  <2>4. QED
    BY <1>1, <2>2, <2>3, Stepped
<1>3. ASSUME Goes(c, [call[c] EXCEPT !.at = "making"]) PROVE TypeInv'
  <2> DEFINE r == [call[c] EXCEPT !.at = "making"]
  <2>1. r \in Calls /\ Fits(r)
    BY <1>1 DEF Calls, Fits, Before
  <2> HIDE DEF r
  <2>2. Goes(c, r)
    BY <1>3 DEF r
  <2>3. QED
    BY <1>1, <2>1, <2>2, Stepped
<1>4. QED
  BY <1>2, <1>3 DEF FindCart

\* A cart is made.
LEMMA MakeCartOK == ASSUME TypeInv, NEW c \in Call, MakeCart(c) PROVE TypeInv'
<1> DEFINE r == [call[c] EXCEPT !.at = "found", !.cart = carts + 1]
<1>1. call[c] \in Calls /\ Fits(call[c]) /\ call[c].at = "making"
      /\ row' \subseteq Row /\ Goes(c, r) /\ UNCHANGED <<Page, History>>
  BY DEF TypeInv, MakeCart
<1>2. carts + 1 \in 1..MaxId /\ carts' = carts + 1
  BY Bounds DEF MakeCart, TypeInv
<1>3. r \in Calls /\ Fits(r)
  BY <1>1, <1>2 DEF Calls, Fits, Before
<1> HIDE DEF r
<1>4. carts' \in 0..MaxId
  BY <1>2, Bounds
<1>5. QED
  BY <1>1, <1>3, <1>4, Stepped

\* A row of the product is found, or there is none.
LEMMA FoundOK ==
    ASSUME NEW k, NEW p, NEW r \in Found(k, p)
    PROVE  \/ r = None /\ \A s \in row : s.cart = k => s.product # p
           \/ r \in row /\ r.product = p /\ r.cart = k
BY DEF Found, Of

\* A call that looks for its row keeps the types,
LEMMA FindRowOK == ASSUME TypeInv, NEW c \in Call, FindRow(c) PROVE TypeInv'
<1>1. PICK s \in Found(call[c].cart, call[c].product) :
             Goes(c, [call[c] EXCEPT !.at = "saving", !.row = s])
  BY DEF FindRow
<1> DEFINE r == [call[c] EXCEPT !.at = "saving", !.row = s]
<1>2. call[c] \in Calls /\ Fits(call[c]) /\ call[c].at = "found"
      /\ call[c].op \in Change /\ carts' \in 0..MaxId /\ row' \subseteq Row
      /\ UNCHANGED <<Page, History>>
  BY DEF TypeInv, FindRow, Database, Change
<1>3. s \in Row \cup {None}
  BY <1>1, FoundOK DEF TypeInv
<1>4. r \in Calls /\ Fits(r) /\ Goes(c, r)
  BY <1>1, <1>2, <1>3 DEF Calls, Fits, Before
<1> HIDE DEF r
<1>5. QED
  BY <1>2, <1>4, Stepped

\* A change is committed.
LEMMA SavesOK ==
    ASSUME TypeInv, NEW c \in Call, call[c].op \in Change,
           NEW rows, rows \subseteq Row, Saves(c, rows)
    PROVE  TypeInv'
<1> DEFINE r == [Idle EXCEPT !.at = "saved", !.op = call[c].op]
<1>1. r \in Calls /\ Fits(r)
  BY IdleOK DEF Calls, Fits, Before
<1>2. Goes(c, r) /\ row' = rows /\ carts' \in 0..MaxId
      /\ UNCHANGED <<Page, History>>
  BY DEF Saves, TypeInv
<1> HIDE DEF r
<1>3. QED
  BY <1>1, <1>2, Stepped

\* so does the commit of add_item,
LEMMA SaveAddOK == ASSUME TypeInv, NEW c \in Call, SaveAdd(c) PROVE TypeInv'
<1> DEFINE r == call[c].row
           q == call[c].quantity
<1>1. /\ call[c] \in Calls /\ Fits(call[c]) /\ call[c].at = "saving"
      /\ call[c].op = "add" /\ call[c].op \in Change
  BY DEF TypeInv, SaveAdd, Change
<1>2. /\ q \in 1..MaxQuantity /\ call[c].product \in Product
      /\ call[c].cart \in 1..MaxId /\ r \in Row \cup {None}
  BY <1>1, Bounds DEF Calls, Fits, Before
<1>3. ASSUME r # None, r.quantity + q <= MaxQuantity,
             Saves(c, WithQuantity(r, r.quantity + q))
      PROVE  TypeInv'
  <2>1. r \in Row /\ r.quantity + q \in 1..MaxQuantity
    BY <1>2, <1>3, Bounds DEF Row, Quantity
  <2>2. WithQuantity(r, r.quantity + q) \subseteq Row
    BY <2>1, WithQuantityOK
  <2>3. QED
    BY <1>1, <1>3, <2>2, SavesOK
<1>4. ASSUME NewId <= MaxId,
             Saves(c, row \cup {[id |-> NewId, cart |-> call[c].cart,
                                 product |-> call[c].product,
                                 quantity |-> q]})
      PROVE  TypeInv'
  <2>1. NewId \in 1..MaxId
    BY <1>4, NewIdOK, Bounds
  <2>2. [id |-> NewId, cart |-> call[c].cart,
         product |-> call[c].product, quantity |-> q] \in Row
    BY <1>2, <2>1 DEF Row, Quantity
  <2>3. QED
    BY <1>1, <1>4, <2>2, SavesOK DEF TypeInv
<1>5. QED
  BY <1>3, <1>4 DEF SaveAdd

\* of update_item,
LEMMA SaveUpdateOK ==
    ASSUME TypeInv, NEW c \in Call, SaveUpdate(c) PROVE TypeInv'
<1> DEFINE r == call[c].row
           q == call[c].quantity
<1>1. /\ call[c] \in Calls /\ call[c].op \in Change /\ q \in 0..MaxQuantity
      /\ r \in Row \cup {None} /\ row \subseteq Row
  BY DEF TypeInv, SaveUpdate, Change, Calls
<1>2. CASE r = None /\ Saves(c, row)
  BY <1>1, <1>2, SavesOK
<1>3. CASE r # None /\ Removes(q) /\ Saves(c, Without(r))
  <2>1. Without(r) \subseteq Row
    BY <1>1 DEF Without
  <2>2. QED
    BY <1>1, <1>3, <2>1, SavesOK
<1>4. CASE r # None /\ ~Removes(q) /\ Saves(c, WithQuantity(r, q))
  <2>1. q \in 1..MaxQuantity /\ r \in Row
    BY <1>1, <1>4, Bounds DEF Removes
  <2>2. WithQuantity(r, q) \subseteq Row
    BY <2>1, WithQuantityOK
  <2>3. QED
    BY <1>1, <1>4, <2>2, SavesOK
<1>5. QED
  BY <1>2, <1>3, <1>4 DEF SaveUpdate

\* of delete_item,
LEMMA SaveDeleteOK ==
    ASSUME TypeInv, NEW c \in Call, SaveDelete(c) PROVE TypeInv'
<1> DEFINE rows == IF call[c].row = None THEN row ELSE Without(call[c].row)
<1>1. rows \subseteq Row /\ call[c].op \in Change /\ Saves(c, rows)
  BY DEF TypeInv, SaveDelete, Change, Without
<1> HIDE DEF rows
<1>2. QED
  BY <1>1, SavesOK

\* of clear_cart,
LEMMA SaveClearOK ==
    ASSUME TypeInv, NEW c \in Call, SaveClear(c) PROVE TypeInv'
<1> DEFINE r == [Idle EXCEPT !.at = "answered", !.op = "clear"]
<1>1. r \in Calls /\ Fits(r)
  BY IdleOK DEF Calls, Fits, Before
<1>2. /\ Goes(c, r) /\ row' \subseteq Row /\ carts' \in 0..MaxId
      /\ UNCHANGED <<Page, History>>
  BY DEF SaveClear, TypeInv
<1> HIDE DEF r
<1>3. QED
  BY <1>1, <1>2, Stepped

\* and the answer that lists the cart.
LEMMA ListOK == ASSUME TypeInv, NEW c \in Call, List(c) PROVE TypeInv'
<1>1. PICK k \in IF call[c].op = "get" THEN {call[c].cart} ELSE 1..carts :
             Goes(c, [Idle EXCEPT !.at = "answered", !.op = call[c].op,
                                  !.answer = Of(k)])
  BY DEF List
<1> DEFINE r == [Idle EXCEPT !.at = "answered", !.op = call[c].op,
                             !.answer = Of(k)]
<1>2. Of(k) \subseteq Row /\ call[c] \in Calls
  BY DEF Of, TypeInv
<1>3. r \in Calls /\ Fits(r)
  BY <1>2, IdleOK DEF Calls, Fits, Before
<1>4. /\ Goes(c, r) /\ row' \subseteq Row /\ carts' \in 0..MaxId
      /\ UNCHANGED <<Page, History>>
  BY <1>1 DEF List, TypeInv, Database
<1> HIDE DEF r
<1>5. QED
  BY <1>3, <1>4, Stepped

\* The steps, one by one.
LEMMA Steps ==
    ASSUME [Next]_vars
    PROVE  \/ \E c \in Call : Open(c)
           \/ \E c \in Call : ClickPay(c)
           \/ \E c \in Call : Receive(c)
           \/ \E c \in Call : Fail(c)
           \/ \E c \in Call, p \in Product, q \in Quantity : ClickAdd(c, p, q)
           \/ \E c \in Call, r \in shown, step \in {1, -1} :
                 ClickStep(c, r, step)
           \/ \E c \in Call, r \in shown : ClickRemove(c, r)
           \/ \E c \in Call : FindCart(c)
           \/ \E c \in Call : MakeCart(c)
           \/ \E c \in Call : FindRow(c)
           \/ \E c \in Call : SaveAdd(c)
           \/ \E c \in Call : SaveUpdate(c)
           \/ \E c \in Call : SaveDelete(c)
           \/ \E c \in Call : SaveClear(c)
           \/ \E c \in Call : List(c)
           \/ UNCHANGED vars
<1> DEFINE
    P1 == \E c \in Call : Open(c)
    P2 == \E c \in Call : ClickPay(c)
    P3 == \E c \in Call : Receive(c)
    P4 == \E c \in Call : Fail(c)
    P5 == \E c \in Call, p \in Product, q \in Quantity : ClickAdd(c, p, q)
    P6 == \E c \in Call, r \in shown, step \in {1, -1} : ClickStep(c, r, step)
    P7 == \E c \in Call, r \in shown : ClickRemove(c, r)
    S1 == \E c \in Call : FindCart(c)
    S2 == \E c \in Call : MakeCart(c)
    S3 == \E c \in Call : FindRow(c)
    S4 == \E c \in Call : SaveAdd(c)
    S5 == \E c \in Call : SaveUpdate(c)
    S6 == \E c \in Call : SaveDelete(c)
    S7 == \E c \in Call : SaveClear(c)
    S8 == \E c \in Call : List(c)
    Pages == P1 \/ P2 \/ P3 \/ P4 \/ P5 \/ P6 \/ P7
    Servers == S1 \/ S2 \/ S3 \/ S4 \/ S5 \/ S6 \/ S7 \/ S8
<1>1. ASSUME NEW c \in Call, PageNext(c) PROVE Pages
  BY <1>1 DEF PageNext
<1>2. ASSUME NEW c \in Call, ServerNext(c) PROVE Servers
  BY <1>2 DEF ServerNext
<1> HIDE DEF Pages, Servers
<1>3. Pages \/ Servers \/ UNCHANGED vars
  BY <1>1, <1>2 DEF Next
<1> HIDE DEF P1, P2, P3, P4, P5, P6, P7, S1, S2, S3, S4, S5, S6, S7, S8
<1>4. \/ P1 \/ P2 \/ P3 \/ P4 \/ P5 \/ P6 \/ P7
      \/ S1 \/ S2 \/ S3 \/ S4 \/ S5 \/ S6 \/ S7 \/ S8 \/ UNCHANGED vars
  BY <1>3 DEF Pages, Servers
<1>5. QED
  BY <1>4 DEF P1, P2, P3, P4, P5, P6, P7, S1, S2, S3, S4, S5, S6, S7, S8

\* The invariant holds on an empty database.
LEMMA TypeInit == Init => TypeInv
<1> SUFFICES ASSUME Init PROVE TypeInv
  OBVIOUS
<1>1. call \in [Call -> Calls] /\ \A c \in Call : Fits(call[c])
  BY IdleOK DEF Init
<1>2. asked \in [Product -> 0..MaxQuantity]
  BY Bounds DEF Init, Nothing
<1>3. carts \in 0..MaxId /\ row = {} /\ shown = {}
  BY Bounds DEF Init
<1>4. calm \in BOOLEAN /\ lost \in BOOLEAN
  BY DEF Init
<1>5. QED
  BY <1>1, <1>2, <1>3, <1>4 DEF TypeInv

\* Every step keeps the invariant.
LEMMA TypeNext == TypeInv /\ [Next]_vars => TypeInv'
<1> SUFFICES ASSUME TypeInv, [Next]_vars PROVE TypeInv'
  OBVIOUS
<1>1. CASE UNCHANGED vars
  BY <1>1 DEF vars, TypeInv
<1>2. QED
  BY <1>1, Steps, OpenOK, ClickPayOK, ReceiveOK, FailOK, ClickAddOK,
     ClickStepOK, ClickRemoveOK, FindCartOK, MakeCartOK, FindRowOK, SaveAddOK,
     SaveUpdateOK, SaveDeleteOK, SaveClearOK, ListOK

\* Rows, what is shown and what calls carry are rows of carts there can be,
\* with quantities that are not zero.
THEOREM TypeCorrect == Spec => []TypeOK
<1>1. TypeInv => TypeOK
  <2> SUFFICES ASSUME TypeInv PROVE TypeOK
    OBVIOUS
  <2>1. ASSUME NEW c \in Call
        PROVE  /\ call[c].at \in {"idle", "sent", "making", "found", "saving",
                                  "saved", "answered"}
               /\ call[c].answer \subseteq Row
               /\ call[c].row \in Row \cup {None}
    BY DEF TypeInv, Calls, Before
  <2>2. QED
    BY <2>1 DEF TypeInv, TypeOK
<1>2. QED
  BY <1>1, TypeInit, TypeNext, PTL DEF Spec

-----------------------------------------------------------------------------
(* While calls have not overlapped.                                        *)

\* A call that is not there needs nothing.
LEMMA IdleFits ==
    ASSUME NEW r, r.at = "idle" PROVE UpToDate(r) /\ PageFits(r)
BY DEF UpToDate, PageFits, Before

\* What is known of the call at work.
LEMMA AtWork ==
    ASSUME TypeInv, CalmInv, calm, NEW c \in Call, Busy(c)
    PROVE  /\ RowsOK /\ UpToDate(call[c]) /\ (~lost => PageFits(call[c]))
           /\ \A d \in Call \ {c} : call[d].at = "idle"
           /\ call[c] \in Calls /\ Fits(call[c])
BY DEF CalmInv, Alone, Busy, TypeInv

\* One call is at work, or none is.
LEMMA CalmOne ==
    ASSUME TypeInv, NEW c \in Call, NEW r \in Calls,
           call' = [call EXCEPT ![c] = r],
           \A d \in Call \ {c} : call[d].at = "idle",
           RowsOK', UpToDate(call[c])',
           ~lost' => /\ PageFits(call[c])'
                     /\ r.at = "idle" => shown' = row' /\ Agree'
    PROVE  CalmInv'
<1>1. /\ call'[c] = r /\ \A d \in Call \ {c} : call'[d] = call[d]
  BY Given
<1>2. Alone' /\ (Quiet' => r.at = "idle")
  BY <1>1 DEF Alone, Busy, Quiet
<1>3. ASSUME NEW d \in Call, d # c
      PROVE  UpToDate(call[d])' /\ PageFits(call[d])'
  <2>1. call'[d].at = "idle"
    BY <1>1, <1>3
  <2>2. QED
    BY <2>1 DEF UpToDate, PageFits, Before
<1>4. QED
  BY <1>2, <1>3 DEF CalmInv

\* A step of the server for the call at work.
LEMMA CalmServer ==
    ASSUME TypeInv, CalmInv, calm', NEW c \in Call, Busy(c),
           NEW r \in Calls, Goes(c, r), r.at # "idle",
           UNCHANGED <<Page, History>>, RowsOK', UpToDate(call[c])',
           ~lost => PageFits(call[c])'
    PROVE  CalmInv'
<1>1. /\ calm /\ (~lost' => ~lost) /\ call' = [call EXCEPT ![c] = r]
  BY DEF History, Goes
<1>2. \A d \in Call \ {c} : call[d].at = "idle"
  BY <1>1, AtWork
<1>3. QED
  BY <1>1, <1>2, CalmOne

\* A call that goes on is still to do what it was to do.
LEMMA PendingKept ==
    ASSUME NEW c, Pending(call[c]), UNCHANGED <<row, asked>>,
           call'[c].op = call[c].op, call'[c].product = call[c].product,
           call'[c].quantity = call[c].quantity
    PROVE  Pending(call[c])'
BY DEF Pending, Agree

\* The cart is the first one, or one is to be made.
LEMMA CalmFindCart ==
    ASSUME TypeInv, CalmInv, calm', NEW c \in Call, FindCart(c)
    PROVE  CalmInv'
<1>1. /\ call[c].at = "sent" /\ calm /\ Busy(c)
      /\ UNCHANGED <<carts, row, shown, asked, Page, History>>
  BY DEF FindCart, Database, Page, History, Busy
<1>2. /\ RowsOK /\ UpToDate(call[c]) /\ (~lost => PageFits(call[c]))
      /\ call[c] \in Calls /\ carts \in 0..MaxId
  BY <1>1, AtWork DEF TypeInv
<1>3. RowsOK'
  BY <1>1, <1>2 DEF RowsOK
<1>4. ASSUME NEW k \in CartsSeen,
             Goes(c, [call[c] EXCEPT !.at = "found", !.cart = k])
      PROVE  CalmInv'
  <2> DEFINE r == [call[c] EXCEPT !.at = "found", !.cart = k]
  <2>1. k = 1 /\ carts = 1 /\ k \in 1..MaxId
    BY <1>2, Bounds DEF CartsSeen, RowsOK
  <2>2. /\ r \in Calls /\ r.at = "found" /\ r.cart = k /\ r.op = call[c].op
        /\ r.product = call[c].product /\ r.quantity = call[c].quantity
    BY <1>2, <2>1 DEF Calls, Before
  <2> HIDE DEF r
  <2>3. Goes(c, r) /\ call'[c] = r
    BY <1>4, <2>2, Given DEF r, Goes
  <2>4. UpToDate(call[c])'
    BY <1>1, <2>1, <2>2, <2>3 DEF UpToDate
  <2>5. ~lost => PageFits(call[c])'
    BY <1>1, <1>2, <2>2, <2>3, PendingKept DEF PageFits, Before
  <2>6. QED
    BY <1>1, <1>3, <2>2, <2>3, <2>4, <2>5, CalmServer
<1>5. ASSUME CartsSeen = {}, Goes(c, [call[c] EXCEPT !.at = "making"])
      PROVE  CalmInv'
  <2> DEFINE r == [call[c] EXCEPT !.at = "making"]
  <2>1. carts = 0
    <3>1. 1 \notin 1..carts
      BY <1>5 DEF CartsSeen
    <3>2. QED
      BY <1>2, <3>1, Bounds
  <2>2. /\ r \in Calls /\ r.at = "making" /\ r.op = call[c].op
        /\ r.product = call[c].product /\ r.quantity = call[c].quantity
    BY <1>2 DEF Calls, Before
  <2> HIDE DEF r
  <2>3. Goes(c, r) /\ call'[c] = r
    BY <1>5, <2>2, Given DEF r, Goes
  <2>4. UpToDate(call[c])'
    BY <1>1, <2>1, <2>2, <2>3 DEF UpToDate
  <2>5. ~lost => PageFits(call[c])'
    BY <1>1, <1>2, <2>2, <2>3, PendingKept DEF PageFits, Before
  <2>6. QED
    BY <1>1, <1>3, <2>2, <2>3, <2>4, <2>5, CalmServer
<1>6. QED
  BY <1>4, <1>5 DEF FindCart

\* The cart that is made is the first.
LEMMA CalmMakeCart ==
    ASSUME TypeInv, CalmInv, calm', NEW c \in Call, MakeCart(c)
    PROVE  CalmInv'
<1> DEFINE k == carts + 1
           r == [call[c] EXCEPT !.at = "found", !.cart = k]
<1>1. /\ call[c].at = "making" /\ calm /\ Busy(c) /\ Goes(c, r)
      /\ carts' = carts + 1 /\ carts < MaxId
      /\ UNCHANGED <<row, shown, asked, Page, History>>
  BY DEF MakeCart, Page, History, Busy
<1>2. /\ RowsOK /\ UpToDate(call[c]) /\ (~lost => PageFits(call[c]))
      /\ call[c] \in Calls
  BY <1>1, AtWork
<1>3. carts = 0 /\ row = {}
  BY <1>1, <1>2 DEF UpToDate, RowsOK
<1>4. RowsOK' /\ carts' = 1 /\ k = 1 /\ k \in 1..MaxId
  BY <1>1, <1>3, Bounds DEF RowsOK
<1> HIDE DEF k
<1>5. /\ r \in Calls /\ r.at = "found" /\ r.cart = 1 /\ r.op = call[c].op
      /\ r.product = call[c].product /\ r.quantity = call[c].quantity
  BY <1>2, <1>3, <1>4 DEF Calls, Before
<1> HIDE DEF r
<1>6. call'[c] = r
  BY <1>1, <1>5, Given DEF Goes
<1>7. UpToDate(call[c])'
  BY <1>4, <1>5, <1>6 DEF UpToDate
<1>8. ~lost => PageFits(call[c])'
  BY <1>1, <1>2, <1>5, <1>6, PendingKept DEF PageFits, Before
<1>9. QED
  BY <1>1, <1>4, <1>5, <1>7, <1>8, CalmServer

\* The row that is found is the product's only one.
LEMMA CalmFindRow ==
    ASSUME TypeInv, CalmInv, calm', NEW c \in Call, FindRow(c)
    PROVE  CalmInv'
<1>1. PICK s \in Found(call[c].cart, call[c].product) :
             Goes(c, [call[c] EXCEPT !.at = "saving", !.row = s])
  BY DEF FindRow
<1> DEFINE r == [call[c] EXCEPT !.at = "saving", !.row = s]
<1>2. /\ call[c].at = "found" /\ calm /\ Busy(c) /\ Goes(c, r)
      /\ UNCHANGED <<carts, row, shown, asked, Page, History>>
  BY <1>1 DEF FindRow, Database, Page, History, Busy
<1>3. /\ RowsOK /\ UpToDate(call[c]) /\ (~lost => PageFits(call[c]))
      /\ call[c] \in Calls
  BY <1>2, AtWork
<1>4. call[c].cart = 1 /\ carts = 1 /\ RowsOK'
  BY <1>2, <1>3 DEF UpToDate, RowsOK
<1>5. \/ s = None /\ \A x \in row : x.product # call[c].product
      \/ s \in row /\ s.product = call[c].product
  BY <1>1, <1>3, <1>4, FoundOK DEF RowsOK
<1>6. s \in Row \cup {None}
  BY <1>5 DEF TypeInv
<1>7. /\ r \in Calls /\ r.at = "saving" /\ r.row = s /\ r.op = call[c].op
      /\ r.cart = call[c].cart
      /\ r.product = call[c].product /\ r.quantity = call[c].quantity
  BY <1>3, <1>6 DEF Calls, Before
<1> HIDE DEF r
<1>8. call'[c] = r
  BY <1>2, <1>7, Given DEF Goes
<1>9. UpToDate(call[c])'
  BY <1>2, <1>4, <1>5, <1>7, <1>8 DEF UpToDate
<1>10. ~lost => PageFits(call[c])'
  BY <1>2, <1>3, <1>7, <1>8, PendingKept DEF PageFits, Before
<1>11. QED
  BY <1>2, <1>4, <1>7, <1>9, <1>10, CalmServer

\* Writing a quantity replaces one row, as ids are not shared.
LEMMA WithQuantityIs ==
    ASSUME TypeInv, RowsOK, NEW r \in row, NEW q \in 1..MaxQuantity
    PROVE  LET n == [r EXCEPT !.quantity = q]
           IN  /\ WithQuantity(r, q) = (row \ {r}) \cup {n}
               /\ n.product = r.product /\ n.quantity = q
               /\ n.id = r.id /\ n.cart = r.cart
<1> DEFINE n == [r EXCEPT !.quantity = q]
           f(s) == IF s.id = r.id
                     THEN [s EXCEPT !.quantity =
                                       Written(q, r.quantity, s.quantity)]
                     ELSE s
<1>1. \A s \in row : s.id = r.id => s = r
  BY DEF RowsOK
<1>2. r \in Row
  BY DEF TypeInv
<1>3. Written(q, r.quantity, r.quantity) = q
  BY DEF Written
<1>4. f(r) = n /\ \A s \in row \ {r} : f(s) = s
  BY <1>1, <1>3
<1>5. WithQuantity(r, q) = {f(s) : s \in row}
  BY DEF WithQuantity
<1>6. /\ n.product = r.product /\ n.quantity = q
      /\ n.id = r.id /\ n.cart = r.cart
  BY <1>2 DEF Row
<1> HIDE DEF f, n
<1>7. {f(s) : s \in row} = (row \ {r}) \cup {n}
  BY <1>4
<1>8. QED
  BY <1>5, <1>6, <1>7 DEF n

\* So does taking one away.
LEMMA WithoutIs ==
    ASSUME RowsOK, NEW r \in row PROVE Without(r) = row \ {r}
BY DEF Without, RowsOK

\* A row takes the place of one of the same product.
LEMMA RowReplaced ==
    ASSUME RowsOK, UNCHANGED carts, NEW r \in row, NEW n,
           n.product = r.product, n.id = r.id, n.cart = r.cart,
           row' = (row \ {r}) \cup {n}
    PROVE  /\ RowsOK' /\ Count(row', r.product) = n.quantity
           /\ \A p \in Product \ {r.product} : Count(row', p) = Count(row, p)
<1>1. RowsOK'
  BY DEF RowsOK
<1>2. n \in row' /\ \A s \in row' : s.product = n.product => s = n
  BY DEF RowsOK
<1>3. Count(row', r.product) = n.quantity
  BY <1>2, CountIs
<1>4. ASSUME NEW p \in Product \ {r.product}
      PROVE  Count(row', p) = Count(row, p)
  <2>1. {s \in row' : s.product = p} = {s \in row : s.product = p}
    OBVIOUS
  <2>2. QED
    BY <2>1, CountSame
<1>5. QED
  BY <1>1, <1>3, <1>4

\* A row is taken away.
LEMMA RowRemoved ==
    ASSUME RowsOK, UNCHANGED carts, NEW r \in row, row \subseteq Row,
           row' = row \ {r}
    PROVE  /\ RowsOK' /\ Count(row', r.product) = 0
           /\ \A p \in Product \ {r.product} : Count(row', p) = Count(row, p)
<1>1. RowsOK' /\ row' \subseteq Row /\ \A s \in row' : s.product # r.product
  BY DEF RowsOK
<1>2. Count(row', r.product) = 0
  BY <1>1, CountOK
<1>3. ASSUME NEW p \in Product \ {r.product}
      PROVE  Count(row', p) = Count(row, p)
  <2>1. {s \in row' : s.product = p} = {s \in row : s.product = p}
    OBVIOUS
  <2>2. QED
    BY <2>1, CountSame
<1>4. QED
  BY <1>1, <1>2, <1>3

\* A row is added, of a product that has none.
LEMMA RowAdded ==
    ASSUME RowsOK, carts = 1, UNCHANGED carts, NEW n, n.cart = 1,
           \A s \in row : s.product # n.product /\ s.id # n.id,
           row' = row \cup {n}
    PROVE  /\ RowsOK' /\ Count(row', n.product) = n.quantity
           /\ \A p \in Product \ {n.product} : Count(row', p) = Count(row, p)
<1>1. RowsOK'
  BY DEF RowsOK
<1>2. n \in row' /\ \A s \in row' : s.product = n.product => s = n
  OBVIOUS
<1>3. Count(row', n.product) = n.quantity
  BY <1>2, CountIs
<1>4. ASSUME NEW p \in Product \ {n.product}
      PROVE  Count(row', p) = Count(row, p)
  <2>1. {s \in row' : s.product = p} = {s \in row : s.product = p}
    OBVIOUS
  <2>2. QED
    BY <2>1, CountSame
<1>5. QED
  BY <1>1, <1>3, <1>4

\* A change that is committed leaves what was asked for.
LEMMA CalmSaves ==
    ASSUME TypeInv, CalmInv, calm', NEW c \in Call, call[c].at = "saving",
           Saves(c, row'), call[c].op \in Change, RowsOK',
           ~lost => Agree'
    PROVE  CalmInv'
<1> DEFINE r == [Idle EXCEPT !.at = "saved", !.op = call[c].op]
<1>1. /\ r \in Calls /\ r.at = "saved" /\ r.op = call[c].op
  BY IdleOK DEF Calls
<1>2. /\ Goes(c, r) /\ calm /\ Busy(c) /\ carts' = carts
      /\ UNCHANGED <<Page, History>>
  BY DEF Saves, History, Busy
<1> HIDE DEF r
<1>3. call'[c] = r
  BY <1>1, <1>2, Given DEF Goes
<1>4. carts = 1
  BY <1>2, AtWork DEF UpToDate
<1>5. UpToDate(call[c])'
  BY <1>1, <1>2, <1>3, <1>4 DEF UpToDate
<1>6. r.op # "get"
  BY <1>1 DEF Change
<1>7. ~lost => PageFits(call[c])'
  BY <1>1, <1>3, <1>6 DEF PageFits, Before
<1>8. QED
  BY <1>1, <1>2, <1>5, <1>7, CalmServer

\* What is known of a call whose change is about to be committed.
LEMMA Saving ==
    ASSUME TypeInv, CalmInv, calm, NEW c \in Call, call[c].at = "saving",
           call[c].op \in Change
    PROVE  /\ RowsOK /\ carts = 1 /\ call[c].cart = 1
           /\ row \subseteq Row /\ call[c].product \in Product
           /\ call[c].quantity \in 0..MaxQuantity
           /\ call[c].op = "add" => call[c].quantity >= 1
           /\ \/ /\ call[c].row = None
                 /\ \A s \in row : s.product # call[c].product
              \/ /\ call[c].row # None /\ call[c].row \in row
                 /\ call[c].row.product = call[c].product
           /\ ~lost => Pending(call[c])
<1>1. /\ Busy(c) /\ call[c].at \in Before
  BY DEF Busy, Before
<1>2. /\ RowsOK /\ UpToDate(call[c]) /\ (~lost => PageFits(call[c]))
      /\ call[c] \in Calls /\ Fits(call[c])
  BY <1>1, AtWork
<1>3. /\ carts = 1 /\ call[c].cart = 1
      /\ \/ call[c].row = None /\ \A s \in row : s.product # call[c].product
         \/ call[c].row \in row /\ call[c].row.product = call[c].product
  BY <1>2 DEF UpToDate
<1>4. row \subseteq Row /\ None \notin row
  BY Bounds DEF TypeInv
<1>5. /\ call[c].product \in Product /\ call[c].quantity \in 0..MaxQuantity
      /\ call[c].op = "add" => call[c].quantity >= 1
  BY <1>1, <1>2 DEF Fits, Calls
<1>6. ~lost => Pending(call[c])
  BY <1>1, <1>2 DEF PageFits
<1>7. QED
  BY <1>2, <1>3, <1>4, <1>5, <1>6

\* What is asked for has come true when the change's product is right and the
\* others have stayed.
LEMMA Agreed ==
    ASSUME NEW c, Pending(call[c]), call[c].op \in Change, UNCHANGED asked,
           Count(row', call[c].product) = asked[call[c].product],
           \A p \in Product \ {call[c].product} :
              Count(row', p) = Count(row, p)
    PROVE  Agree'
BY DEF Pending, Agree

\* A product is added to its row, or gets one.
LEMMA CalmSaveAdd ==
    ASSUME TypeInv, CalmInv, calm', NEW c \in Call, SaveAdd(c)
    PROVE  CalmInv'
<1> DEFINE p == call[c].product
           r == call[c].row
           q == call[c].quantity
<1>1. /\ call[c].at = "saving" /\ call[c].op = "add" /\ call[c].op \in Change
      /\ calm /\ UNCHANGED <<carts, asked>> /\ Saves(c, row')
  BY DEF SaveAdd, Saves, Page, History, Change
<1>2. /\ RowsOK /\ carts = 1 /\ call[c].cart = 1 /\ row \subseteq Row
      /\ p \in Product /\ q \in 1..MaxQuantity
      /\ \/ r = None /\ \A s \in row : s.product # p
         \/ r # None /\ r \in row /\ r.product = p
      /\ ~lost => Pending(call[c])
  BY <1>1, Saving, Bounds
<1>3. ~lost => asked[p] = Count(row, p) + q
  BY <1>1, <1>2 DEF Pending
<1>4. ASSUME r # None, r.quantity + q <= MaxQuantity,
             row' = WithQuantity(r, r.quantity + q)
      PROVE  RowsOK' /\ (~lost => Agree')
  <2> DEFINE t == r.quantity + q
             n == [r EXCEPT !.quantity = t]
  <2>1. r \in row /\ r.product = p /\ t \in 1..MaxQuantity
    BY <1>2, <1>4, Bounds DEF Row, Quantity
  <2>2. row' = WithQuantity(r, t)
    BY <1>4
  <2> HIDE DEF p, r, t
  <2>3. /\ row' = (row \ {r}) \cup {n} /\ n.product = r.product
        /\ n.quantity = t /\ n.id = r.id /\ n.cart = r.cart
    BY <1>2, <2>1, <2>2, WithQuantityIs
  <2> HIDE DEF n
  <2>4. /\ RowsOK' /\ Count(row', p) = t
        /\ \A x \in Product \ {p} : Count(row', x) = Count(row, x)
    BY <1>1, <1>2, <2>1, <2>3, RowReplaced
  <2>5. Count(row, p) = r.quantity
    BY <1>2, <2>1, CountIs DEF RowsOK
  <2>6. ~lost => Count(row', p) = asked[p]
    BY <1>3, <2>4, <2>5 DEF t
  <2>7. QED
    BY <1>1, <1>2, <2>4, <2>6, Agreed DEF p
<1>5. ASSUME r = None,
             row' = row \cup {[id |-> NewId, cart |-> call[c].cart,
                               product |-> call[c].product, quantity |-> q]}
      PROVE  RowsOK' /\ (~lost => Agree')
  <2> DEFINE n == [id |-> NewId, cart |-> call[c].cart,
                   product |-> call[c].product, quantity |-> q]
  <2>1. \A s \in row : s.product # p /\ s.id # NewId
    BY <1>2, <1>5, NewIdOK
  <2>2. /\ n.id = NewId /\ n.cart = 1 /\ n.product = p /\ n.quantity = q
        /\ row' = row \cup {n}
    BY <1>2, <1>5
  <2> HIDE DEF n, p, q, r
  <2>3. /\ RowsOK' /\ Count(row', p) = q
        /\ \A x \in Product \ {p} : Count(row', x) = Count(row, x)
    BY <1>1, <1>2, <2>1, <2>2, RowAdded
  <2>4. Count(row, p) = 0
    BY <1>2, <2>1, CountOK
  <2>5. ~lost => Count(row', p) = asked[p]
    BY <1>2, <1>3, <2>3, <2>4, Bounds
  <2>6. QED
    BY <1>1, <1>2, <2>3, <2>5, Agreed DEF p
<1>6. RowsOK' /\ (~lost => Agree')
  BY <1>4, <1>5 DEF SaveAdd, Saves
<1>7. QED
  BY <1>1, <1>6, CalmSaves

\* A row that is taken away leaves none of the product.
LEMMA Emptied ==
    ASSUME TypeInv, CalmInv, calm', NEW c \in Call, call[c].at = "saving",
           call[c].op \in Change, UNCHANGED <<carts, asked>>,
           call[c].row # None, row' = Without(call[c].row), calm,
           ~lost => asked[call[c].product] = 0
    PROVE  RowsOK' /\ (~lost => Agree')
<1> DEFINE p == call[c].product
           r == call[c].row
<1>1. /\ RowsOK /\ row \subseteq Row /\ r \in row /\ r.product = p
      /\ ~lost => Pending(call[c])
  BY Saving
<1>2. row' = row \ {r}
  BY <1>1, WithoutIs
<1> HIDE DEF p, r
<1>3. /\ RowsOK' /\ Count(row', p) = 0
      /\ \A x \in Product \ {p} : Count(row', x) = Count(row, x)
  BY <1>1, <1>2, RowRemoved
<1>4. QED
  BY <1>1, <1>3, Agreed DEF p

\* A quantity is set, zero taking the row away.
LEMMA CalmSaveUpdate ==
    ASSUME TypeInv, CalmInv, calm', NEW c \in Call, SaveUpdate(c)
    PROVE  CalmInv'
<1> DEFINE p == call[c].product
           r == call[c].row
           q == call[c].quantity
<1>1. /\ call[c].at = "saving" /\ call[c].op = "update"
      /\ call[c].op \in Change
      /\ calm /\ UNCHANGED <<carts, asked>> /\ Saves(c, row')
  BY DEF SaveUpdate, Saves, Page, History, Change
<1>2. /\ RowsOK /\ carts = 1 /\ row \subseteq Row
      /\ p \in Product /\ q \in 0..MaxQuantity
      /\ \/ r = None /\ \A s \in row : s.product # p
         \/ r # None /\ r \in row /\ r.product = p
      /\ ~lost => Pending(call[c])
  BY <1>1, Saving
<1>3. ~lost => asked[p] = q /\ \E s \in row : s.product = p
  BY <1>1, <1>2 DEF Pending
<1>4. ASSUME r = None, row' = row PROVE RowsOK' /\ (~lost => Agree')
  BY <1>1, <1>2, <1>3, <1>4 DEF RowsOK
<1>5. ASSUME r # None, Removes(q), row' = Without(r)
      PROVE  RowsOK' /\ (~lost => Agree')
  <2>1. q = 0
    BY <1>2, <1>5, Bounds DEF Removes
  <2>2. QED
    BY <1>1, <1>3, <1>5, <2>1, Emptied
<1>6. ASSUME r # None, ~Removes(q), row' = WithQuantity(r, q)
      PROVE  RowsOK' /\ (~lost => Agree')
  <2> DEFINE n == [r EXCEPT !.quantity = q]
  <2>1. r \in row /\ r.product = p /\ q \in 1..MaxQuantity
    BY <1>2, <1>6, Bounds DEF Removes
  <2>2. row' = WithQuantity(r, q)
    BY <1>6
  <2> HIDE DEF p, r, q
  <2>3. /\ row' = (row \ {r}) \cup {n} /\ n.product = r.product
        /\ n.quantity = q /\ n.id = r.id /\ n.cart = r.cart
    BY <1>2, <2>1, <2>2, WithQuantityIs
  <2> HIDE DEF n
  <2>4. /\ RowsOK' /\ Count(row', p) = q
        /\ \A x \in Product \ {p} : Count(row', x) = Count(row, x)
    BY <1>1, <1>2, <2>1, <2>3, RowReplaced
  <2>5. QED
    BY <1>1, <1>2, <1>3, <2>4, Agreed DEF p
<1>7. RowsOK' /\ (~lost => Agree')
  BY <1>4, <1>5, <1>6 DEF SaveUpdate, Saves
<1>8. QED
  BY <1>1, <1>7, CalmSaves

\* A product is taken out.
LEMMA CalmSaveDelete ==
    ASSUME TypeInv, CalmInv, calm', NEW c \in Call, SaveDelete(c)
    PROVE  CalmInv'
<1> DEFINE p == call[c].product
           r == call[c].row
<1>1. /\ call[c].at = "saving" /\ call[c].op = "delete"
      /\ call[c].op \in Change
      /\ calm /\ UNCHANGED <<carts, asked>> /\ Saves(c, row')
      /\ row' = IF r = None THEN row ELSE Without(r)
  BY DEF SaveDelete, Saves, Page, History, Change
<1>2. /\ RowsOK /\ row \subseteq Row /\ p \in Product
      /\ \/ r = None /\ \A s \in row : s.product # p
         \/ r # None /\ r \in row /\ r.product = p
      /\ ~lost => Pending(call[c])
  BY <1>1, Saving
<1>3. ~lost => asked[p] = 0
  BY <1>1, <1>2 DEF Pending
<1>4. CASE r = None
  <2>1. RowsOK' /\ row' = row
    BY <1>1, <1>2, <1>4 DEF RowsOK
  <2>2. Count(row, p) = 0
    BY <1>2, <1>4, CountOK
  <2>3. QED
    BY <1>1, <1>2, <1>3, <2>1, <2>2, Agreed, CalmSaves
<1>5. CASE r # None
  BY <1>1, <1>3, <1>5, Emptied, CalmSaves
<1>6. QED
  BY <1>4, <1>5

\* The cart that is cleared has every row.
LEMMA CalmSaveClear ==
    ASSUME TypeInv, CalmInv, calm', NEW c \in Call, SaveClear(c)
    PROVE  CalmInv'
<1> DEFINE r == [Idle EXCEPT !.at = "answered", !.op = "clear"]
<1>1. r \in Calls /\ r.at = "answered" /\ r.op = "clear" /\ r.answer = {}
  BY IdleOK DEF Calls
<1>2. /\ call[c].at = "found" /\ call[c].op = "clear" /\ calm /\ Busy(c)
      /\ Goes(c, r) /\ row' = row \ Of(call[c].cart)
      /\ UNCHANGED <<carts, asked, Page, History>>
  BY DEF SaveClear, Page, History, Busy
<1> HIDE DEF r
<1>3. /\ RowsOK /\ call[c].cart = 1 /\ (~lost => PageFits(call[c]))
  BY <1>2, AtWork DEF UpToDate
<1>4. row' = {}
  BY <1>2, <1>3 DEF Of, RowsOK
<1>5. RowsOK'
  BY <1>2, <1>3, <1>4 DEF RowsOK
<1>6. call'[c] = r
  BY <1>1, <1>2, Given DEF Goes
<1>7. UpToDate(call[c])'
  BY <1>1, <1>4, <1>6 DEF UpToDate
<1>8. ~lost => asked = Nothing
  BY <1>2, <1>3 DEF PageFits, Pending, Before
<1>9. \A p \in Product : Count({}, p) = 0
  BY CountOK
<1>10. ~lost => Agree'
  BY <1>2, <1>4, <1>8, <1>9 DEF Agree, Nothing
<1>11. ~lost => PageFits(call[c])'
  BY <1>1, <1>6, <1>10 DEF PageFits, Before
<1>12. QED
  BY <1>1, <1>2, <1>5, <1>7, <1>11, CalmServer

\* The answer is the whole table.
LEMMA CalmList ==
    ASSUME TypeInv, CalmInv, calm', NEW c \in Call, List(c)
    PROVE  CalmInv'
<1>1. PICK k \in IF call[c].op = "get" THEN {call[c].cart} ELSE 1..carts :
             Goes(c, [Idle EXCEPT !.at = "answered", !.op = call[c].op,
                                  !.answer = Of(k)])
  BY DEF List
<1> DEFINE r == [Idle EXCEPT !.at = "answered", !.op = call[c].op,
                             !.answer = Of(k)]
<1>2. /\ calm /\ Busy(c) /\ UNCHANGED <<carts, row, asked, shown, Page, History>>
      /\ \/ call[c].at = "saved"
         \/ call[c].at = "found" /\ call[c].op = "get"
  BY DEF List, Answers, Busy, Database, Page, History
<1>3. /\ RowsOK /\ UpToDate(call[c]) /\ (~lost => PageFits(call[c]))
      /\ call[c] \in Calls /\ Fits(call[c]) /\ carts \in 0..MaxId
  BY <1>2, AtWork DEF TypeInv
<1>4. k = 1 /\ carts = 1
  <2>1. CASE call[c].at = "saved"
    <3>1. call[c].op # "get" /\ carts = 1
      BY <1>3, <2>1 DEF Fits, Change, UpToDate
    <3>2. QED
      BY <1>1, <3>1
  <2>2. CASE call[c].at = "found" /\ call[c].op = "get"
    BY <1>1, <1>3, <2>2 DEF UpToDate
  <2>3. QED
    BY <1>2, <2>1, <2>2
<1>5. Of(k) = row /\ row \subseteq Row
  BY <1>3, <1>4 DEF Of, RowsOK, TypeInv
<1>6. r \in Calls /\ r.at = "answered" /\ r.op = call[c].op /\ r.answer = row
  BY <1>3, <1>5, IdleOK DEF Calls
<1>7. Goes(c, r)
  BY <1>1
<1> HIDE DEF r
<1>8. call'[c] = r
  BY <1>6, <1>7, Given DEF Goes
<1>9. UpToDate(call[c])'
  BY <1>2, <1>6, <1>8 DEF UpToDate
<1>10. ~lost => Agree /\ (call[c].op = "get" => shown = row)
  BY <1>2, <1>3 DEF PageFits, Pending, Before
<1>11. ~lost => PageFits(call[c])'
  BY <1>2, <1>6, <1>8, <1>10 DEF PageFits, Before, Agree
<1>12. RowsOK'
  BY <1>2, <1>3 DEF RowsOK
<1>13. QED
  BY <1>2, <1>6, <1>7, <1>9, <1>11, <1>12, CalmServer

\* A click, nobody being at work.
LEMMA CalmSends ==
    ASSUME TypeInv, CalmInv, calm', NEW c \in Call,
           NEW op \in {"get", "clear"} \cup Change,
           NEW p \in Product \cup {None}, NEW q \in 0..MaxQuantity,
           op \in Change => p \in Product, op = "add" => q >= 1,
           NEW n \in [Product -> 0..MaxQuantity],
           Sends(c, op, p, q), Asks(n),
           ~lost /\ shown = row /\ Agree =>
              /\ op = "get" => n = asked
              /\ op = "clear" => n = Nothing
              /\ op \in Change =>
                    /\ n[p] = IF op = "add" THEN Count(row, p) + q
                              ELSE IF op = "update" THEN q ELSE 0
                    /\ \A x \in Product \ {p} : n[x] = asked[x]
                    /\ op = "update" => \E s \in row : s.product = p
    PROVE  CalmInv'
<1> DEFINE r == [Idle EXCEPT !.at = "sent", !.op = op, !.product = p,
                             !.quantity = q]
<1>1. /\ calm /\ \A d \in Call : call[d].at = "idle"
      /\ UNCHANGED <<carts, row, shown>> /\ asked' = n
      /\ call' = [call EXCEPT ![c] = r]
  BY SendsOK DEF Sends, Asks, Database
<1>2. r \in Calls /\ r.at = "sent" /\ r.op = op /\ r.product = p
      /\ r.quantity = q
  BY IdleOK DEF Calls, Before
<1> HIDE DEF r
<1>3. call'[c] = r
  BY <1>1, <1>2, Given
<1>4. RowsOK /\ (~lost => shown = row /\ Agree)
  BY <1>1 DEF CalmInv, Quiet
<1>5. RowsOK'
  BY <1>1, <1>4 DEF RowsOK
<1>6. UpToDate(call[c])'
  BY <1>2, <1>3 DEF UpToDate
<1>7. ASSUME ~lost PROVE Pending(call[c])'
  BY <1>1, <1>2, <1>3, <1>4, <1>7 DEF Pending, Agree
<1>8. ~lost' => ~lost
  <2>1. lost' = (calm' /\ lost)
    BY DEF Sends
  <2>2. QED
    BY <2>1
<1>9. ~lost' => PageFits(call[c])'
  BY <1>1, <1>2, <1>3, <1>4, <1>7, <1>8 DEF PageFits, Before
<1>10. QED
  BY <1>1, <1>2, <1>5, <1>6, <1>9, CalmOne

\* Looking at the cart asks for nothing new.
LEMMA CalmOpen ==
    ASSUME TypeInv, CalmInv, calm', NEW c \in Call, Open(c) PROVE CalmInv'
<1>1. asked \in [Product -> 0..MaxQuantity] /\ 0 \in 0..MaxQuantity
  BY Bounds DEF TypeInv
<1>2. "get" \notin Change
  BY DEF Change
<1>3. Sends(c, "get", None, 0) /\ Asks(asked)
  BY DEF Open
<1>4. QED
  BY <1>1, <1>2, <1>3, CalmSends

\* A product is put into the cart.
LEMMA CalmClickAdd ==
    ASSUME TypeInv, CalmInv, calm', NEW c \in Call, NEW p \in Product,
           NEW q \in Quantity, ClickAdd(c, p, q)
    PROVE  CalmInv'
<1> DEFINE n == [asked EXCEPT ![p] = @ + q]
<1>1. q \in 0..MaxQuantity /\ q >= 1 /\ asked[p] + q <= MaxQuantity
  BY Bounds DEF Quantity, ClickAdd
<1>2. n \in [Product -> 0..MaxQuantity]
  BY <1>1, Bounds DEF TypeInv
<1>3. Sends(c, "add", p, q) /\ Asks(n) /\ "add" \in Change
  BY DEF ClickAdd, Change
<1>4. n[p] = asked[p] + q /\ \A x \in Product \ {p} : n[x] = asked[x]
  BY DEF TypeInv
<1> HIDE DEF n
<1>5. Agree => n[p] = Count(row, p) + q
  BY <1>4 DEF Agree
<1>6. QED
  BY <1>1, <1>2, <1>3, <1>4, <1>5, CalmSends

\* "+" or "-" on a row that is shown, and then in the cart.
LEMMA CalmClickStep ==
    ASSUME TypeInv, CalmInv, calm', NEW c \in Call, NEW r \in shown,
           NEW step \in {1, -1}, ClickStep(c, r, step)
    PROVE  CalmInv'
<1> DEFINE q == r.quantity + step
           p == r.product
           n == [asked EXCEPT ![p] = q]
<1>1. r.quantity \in 1..MaxQuantity /\ p \in Product
  BY DEF TypeInv, Row, Quantity
<1>2. q \in 0..MaxQuantity
  BY <1>1, Bounds DEF ClickStep
<1>3. n \in [Product -> 0..MaxQuantity]
  BY <1>1, <1>2 DEF TypeInv
<1>4. Sends(c, "update", p, q) /\ Asks(n) /\ "update" \in Change
  BY DEF ClickStep, Change
<1>5. shown = row => \E s \in row : s.product = p
  OBVIOUS
<1>6. n[p] = q /\ \A x \in Product \ {p} : n[x] = asked[x]
  BY <1>1 DEF TypeInv
<1> HIDE DEF n, q, p
<1>7. QED
  BY <1>1, <1>2, <1>3, <1>4, <1>5, <1>6, CalmSends

\* A row is removed.
LEMMA CalmClickRemove ==
    ASSUME TypeInv, CalmInv, calm', NEW c \in Call, NEW r \in shown,
           ClickRemove(c, r)
    PROVE  CalmInv'
<1> DEFINE p == r.product
           n == [asked EXCEPT ![p] = 0]
<1>1. p \in Product /\ 0 \in 0..MaxQuantity
  BY Bounds DEF TypeInv, Row
<1>2. n \in [Product -> 0..MaxQuantity]
  BY <1>1 DEF TypeInv
<1>3. Sends(c, "delete", p, 0) /\ Asks(n) /\ "delete" \in Change
  BY DEF ClickRemove, Change
<1>4. n[p] = 0 /\ \A x \in Product \ {p} : n[x] = asked[x]
  BY <1>1 DEF TypeInv
<1> HIDE DEF n, p
<1>5. QED
  BY <1>1, <1>2, <1>3, <1>4, CalmSends

\* The checkout clears the cart.
LEMMA CalmClickPay ==
    ASSUME TypeInv, CalmInv, calm', NEW c \in Call, ClickPay(c) PROVE CalmInv'
<1>1. Nothing \in [Product -> 0..MaxQuantity] /\ 0 \in 0..MaxQuantity
  BY Bounds DEF Nothing
<1>2. "clear" \notin Change
  BY DEF Change
<1>3. Sends(c, "clear", None, 0) /\ Asks(Nothing)
  BY DEF ClickPay
<1>4. QED
  BY <1>1, <1>2, <1>3, CalmSends

\* The answer puts right what had failed.
LEMMA CalmReceive ==
    ASSUME TypeInv, CalmInv, calm', NEW c \in Call, Receive(c) PROVE CalmInv'
<1>1. /\ call[c].at = "answered" /\ calm /\ Busy(c)
      /\ UNCHANGED <<carts, row>> /\ shown' = call[c].answer
      /\ call' = [call EXCEPT ![c] = Idle]
      /\ asked' = IF lost THEN [p \in Product |-> Count(call[c].answer, p)]
                  ELSE asked
  BY DEF Receive, Asks, Database, Busy
<1>2. /\ RowsOK /\ UpToDate(call[c]) /\ (~lost => PageFits(call[c]))
      /\ \A d \in Call \ {c} : call[d].at = "idle"
  BY <1>1, AtWork
<1>3. call[c].answer = row /\ (~lost => Agree)
  BY <1>1, <1>2 DEF UpToDate, PageFits
<1>4. shown' = row' /\ Agree'
  <2>1. CASE lost
    BY <1>1, <1>3, <2>1 DEF Agree
  <2>2. CASE ~lost
    BY <1>1, <1>3, <2>2 DEF Agree
  <2>3. QED
    BY <1>1, <1>3, <2>1, <2>2
<1>5. RowsOK'
  BY <1>1, <1>2 DEF RowsOK
<1>6. call'[c] = Idle
  BY <1>1, IdleOK, Given
<1>7. UpToDate(call[c])' /\ PageFits(call[c])'
  BY <1>6, IdleOK DEF UpToDate, PageFits, Before
<1>8. QED
  BY <1>1, <1>2, <1>4, <1>5, <1>7, IdleOK, CalmOne

\* Only a change that fails is remembered.
LEMMA CalmFail ==
    ASSUME TypeInv, CalmInv, calm', NEW c \in Call, Fail(c) PROVE CalmInv'
<1>1. /\ call[c].at # "idle" /\ calm /\ Busy(c)
      /\ UNCHANGED <<carts, row, shown, asked>>
      /\ call' = [call EXCEPT ![c] = Idle]
      /\ lost' = (calm /\ (lost \/ call[c].op # "get"))
  BY DEF Fail, Database, Page, Busy
<1>2. /\ RowsOK /\ (~lost => PageFits(call[c])) /\ call[c] \in Calls
      /\ \A d \in Call \ {c} : call[d].at = "idle"
  BY <1>1, AtWork
<1>3. ~lost' => ~lost /\ call[c].op = "get"
  BY <1>1
<1>4. call[c].at \in Before \cup {"saved", "answered"}
  BY <1>1, <1>2 DEF Calls
<1>5. ~lost' => shown = row /\ Agree
  BY <1>2, <1>3, <1>4 DEF PageFits, Pending
<1>6. ~lost' => shown' = row' /\ Agree'
  BY <1>1, <1>5 DEF Agree
<1>7. RowsOK'
  BY <1>1, <1>2 DEF RowsOK
<1>8. call'[c] = Idle
  BY <1>1, IdleOK, Given
<1>9. UpToDate(call[c])' /\ PageFits(call[c])'
  BY <1>8, IdleOK DEF UpToDate, PageFits, Before
<1>10. QED
  BY <1>1, <1>2, <1>6, <1>7, <1>9, IdleOK, CalmOne

\* There is nothing in the cart, and nothing was asked for.
LEMMA CalmInit == Init => CalmInv
<1> SUFFICES ASSUME Init PROVE CalmInv
  OBVIOUS
<1>1. \A c \in Call : call[c].at = "idle"
  BY IdleOK DEF Init
<1>2. /\ Alone
      /\ \A c \in Call : UpToDate(call[c]) /\ PageFits(call[c])
  BY <1>1 DEF Alone, Busy, UpToDate, PageFits, Before
<1>3. carts = 0 /\ row = {} /\ shown = row /\ asked = Nothing
  BY DEF Init
<1>4. RowsOK
  BY <1>3 DEF RowsOK
<1>5. \A p \in Product : Count({}, p) = 0
  BY CountOK
<1>6. Agree
  BY <1>3, <1>5 DEF Agree, Nothing
<1>7. QED
  BY <1>2, <1>3, <1>4, <1>6 DEF CalmInv

\* Every step keeps it as long as it does not make calls overlap.
LEMMA CalmNext == TypeInv /\ CalmInv /\ [Next]_vars => CalmInv'
<1> SUFFICES ASSUME TypeInv, CalmInv, [Next]_vars, calm' PROVE CalmInv'
  BY DEF CalmInv
<1>1. CASE UNCHANGED vars
  <2>1. UNCHANGED <<carts, row, shown, call, calm, asked, lost>>
    BY <1>1 DEF vars
  <2>2. QED
    BY <2>1 DEF CalmInv, Alone, Busy, RowsOK, UpToDate, PageFits, Pending,
                Agree, Quiet
<1>2. QED
  BY <1>1, Steps, CalmOpen, CalmClickPay, CalmReceive, CalmFail, CalmClickAdd,
     CalmClickStep, CalmClickRemove, CalmFindCart, CalmMakeCart, CalmFindRow,
     CalmSaveAdd, CalmSaveUpdate, CalmSaveDelete, CalmSaveClear, CalmList

\* A customer has one cart, and a product one row in it, whatever call died on
\* the way, as long as no two calls have overlapped: the COMMIT that makes the
\* cart and the one that makes the row are found by the next call.
THEOREM OneCartEach == Spec => []OneCart
<1>1. CalmInv => OneCart
  BY DEF CalmInv, RowsOK, OneCart
<1>2. QED
  BY <1>1, TypeInit, TypeNext, CalmInit, CalmNext, PTL DEF Spec

\* When every call is over, the page shows what the server has and the server
\* has what was clicked together, unless the last change has failed and no
\* answer has come since, as long as no two calls have overlapped.
THEOREM PageTellsTheTruth == Spec => []PageAgrees
<1>1. CalmInv => PageAgrees
  BY DEF CalmInv, PageAgrees, Agree
<1>2. QED
  BY <1>1, TypeInit, TypeNext, CalmInit, CalmNext, PTL DEF Spec
=============================================================================
