--------------------------- MODULE LiveSlots_proofs ---------------------------
(* Theorems about LiveSlots, for every value of its constants. *)
EXTENDS LiveSlots, TLAPS

-----------------------------------------------------------------------------
(* Rows.                                                                   *)

Record == Sub \cup Slot

\* What a table looks like after an INSERT.
LEMMA Inserted ==
    ASSUME NEW S, NEW s \in Seq(S), NEW e \in S, NEW t, t = Append(s, e)
    PROVE  /\ t \in Seq(S) /\ Len(t) = Len(s) + 1 /\ t[Len(s) + 1] = e
           /\ \A i \in 1..Len(s) : t[i] = s[i]
OBVIOUS

\* A function on an initial segment of the naturals is a sequence.
LEMMA Updated ==
    ASSUME NEW S, NEW n \in Nat, NEW f \in [1..n -> S]
    PROVE  f \in Seq(S) /\ Len(f) = n
OBVIOUS

\* The words of the two tables.
StatusWords(kind) ==
    IF kind = "sub"
      THEN {"pending_payment", "active", "rejected", "cancelled"}
      ELSE {"requested", "approved", "rejected", "cancelled"}

PayWords(kind) ==
    IF kind = "sub"
      THEN {"unpaid", "submitted", "verified", "rejected"}
      ELSE {"not_required", "unpaid", "submitted", "verified", "rejected"}

Rewritten(r, status, pay) == [r EXCEPT !.status = status, !.pay = pay]

\* A record's words are those of its table, and it may be given others.
LEMMA RecordWords ==
    ASSUME NEW r \in Record
    PROVE  r.status \in StatusWords(r.kind) /\ r.pay \in PayWords(r.kind)
BY DEF Record, Sub, Slot, StatusWords, PayWords

\* A record rewritten with words of its own kind is a record of that kind.
LEMMA RecordColumns ==
    ASSUME NEW r \in Record, NEW s \in StatusWords(r.kind),
           NEW p \in PayWords(r.kind)
    PROVE  LET then == Rewritten(r, s, p)
           IN  /\ then \in Record /\ then.status = s /\ then.pay = p
               /\ then.kind = r.kind /\ then.what = r.what
               /\ then.free = r.free
BY DEF Record, Sub, Slot, StatusWords, PayWords, Rewritten

\* A decision keeps to the words of the table.
LEMMA DecidedWords ==
    ASSUME NEW r \in Record, NEW op \in Op
    PROVE  /\ Decided(op, r).status \in StatusWords(r.kind)
           /\ Decided(op, r).pay \in PayWords(r.kind)
BY DEF Record, Sub, Slot, StatusWords, PayWords, Op, Decided, Granted

\* Cancelling a row keeps it a row of the same request.
LEMMA CancelledType ==
    ASSUME NEW now \in Record
    PROVE  LET then == [now EXCEPT !.status = "cancelled"]
           IN  /\ then \in Record /\ then.status = "cancelled"
               /\ then.kind = now.kind /\ then.what = now.what
               /\ then.free = now.free /\ then.pay = now.pay
BY DEF Record, Sub, Slot

-----------------------------------------------------------------------------
(* Type correctness.                                                       *)

\* What a request that works on a row has loaded, and who may send it.
RequestOK(a, r, rows) ==
    /\ r \in Request
    /\ r.at = "asking" => r.old \in Sub /\ r.old.status = "pending_payment"
    /\ r.at \in Op \cup {"assigning", "assigned"} =>
          /\ r.id \in 1..Len(rows) /\ r.others \subseteq 1..Len(rows)
          /\ r.old \in Record /\ r.old.kind = rows[r.id].kind
    /\ r.at \in {"approve", "assigning", "assigned"} => a \in Admin
    /\ r.at \in {"assigning", "assigned"} => r.old.kind = "slot"

RowsOK == row \in Seq(Record) /\ Len(row) <= MaxRows

TypeInv ==
    /\ RowsOK
    /\ orderly \in BOOLEAN /\ calm \in BOOLEAN
    /\ req \in [Actor -> Request]
    /\ \A a \in Actor : RequestOK(a, req[a], row)

\* Rows are never removed and ask for the same as when they were made.
RowsStay ==
    /\ Len(row) <= Len(row')
    /\ \A i \in Id : /\ row'[i].kind = row[i].kind
                     /\ row'[i].what = row[i].what
                     /\ row'[i].free = row[i].free

\* TypeInv says all that TypeOK does.
LEMMA TypeInvType == TypeInv => TypeOK
BY DEF TypeInv, TypeOK, RowsOK, RequestOK, Record, Working, Id

\* A row that is read is a record.
LEMMA RowType == ASSUME TypeInv, NEW i \in Id PROVE row[i] \in Record
BY DEF TypeInv, RowsOK, Id

\* An idle request is well-formed.
LEMMA IdleOK == ASSUME NEW a, NEW rows PROVE RequestOK(a, Idle, rows)
BY DEF RequestOK, Idle, Request, Op

\* Requests stay well-formed when rows change as they do.
LEMMA RequestStays ==
    ASSUME RowsOK, RowsOK', RowsStay, NEW a, NEW r, RequestOK(a, r, row)
    PROVE  RequestOK(a, r, row')
<1>1. Len(row) \in Nat /\ Len(row') \in Nat /\ Len(row) <= Len(row')
  BY DEF RowsOK, RowsStay
<1>2. 1..Len(row) \subseteq 1..Len(row')
  BY <1>1
<1>3. \A i \in 1..Len(row) : row'[i].kind = row[i].kind
  BY DEF RowsStay, Id
<1>4. QED
  BY <1>2, <1>3 DEF RequestOK

\* A step that keeps the rows and gives one actor a well-formed request
\* keeps TypeInv.
LEMMA TypeStep ==
    ASSUME TypeInv, RowsOK', RowsStay, orderly' \in BOOLEAN, calm' \in BOOLEAN,
           NEW a \in Actor, NEW r, RequestOK(a, r, row'), Goes(a, r)
    PROVE  TypeInv'
<1>1. req' = [req EXCEPT ![a] = r] /\ r \in Request
  BY DEF Goes, RequestOK
<1>2. req' \in [Actor -> Request]
  BY <1>1 DEF TypeInv
<1>3. ASSUME NEW b \in Actor PROVE RequestOK(b, req'[b], row')
  <2>1. CASE b = a
    BY <1>1, <2>1 DEF TypeInv
  <2>2. CASE b # a
    <3>1. req'[b] = req[b] /\ RequestOK(b, req[b], row)
      BY <1>1, <2>2 DEF TypeInv
    <3>2. QED
      BY <3>1, RequestStays DEF TypeInv
  <2>3. QED
    BY <2>1, <2>2
<1>4. QED
  BY <1>2, <1>3 DEF TypeInv

\* The rows stay when nothing is written, and when a row is inserted.
LEMMA NothingWritten ==
    ASSUME TypeInv, row' = row PROVE RowsOK' /\ RowsStay
BY DEF TypeInv, RowsOK, RowsStay

\* An insert adds one record and leaves the others.
LEMMA RowInserted ==
    ASSUME TypeInv, NEW e \in Record, row' = Append(row, e), Len(row) < MaxRows
    PROVE  /\ RowsOK' /\ RowsStay
           /\ Len(row') = Len(row) + 1 /\ row'[Len(row) + 1] = e
           /\ \A i \in Id : row'[i] = row[i]
<1>1. row \in Seq(Record)
  BY DEF TypeInv, RowsOK
<1>2. /\ row' \in Seq(Record) /\ Len(row') = Len(row) + 1
      /\ row'[Len(row) + 1] = e
      /\ \A i \in 1..Len(row) : row'[i] = row[i]
  BY <1>1, Inserted
<1>3. Len(row) \in Nat /\ MaxRows \in Nat
  BY <1>1, LiveSlotsAssumption
<1>4. QED
  BY <1>2, <1>3 DEF RowsOK, RowsStay, Id

\* What a decision leaves of the rows.
LEMMA RowsDecided ==
    ASSUME TypeInv, NEW a \in Actor, SaveDecision(a)
    PROVE  LET new == Decided(req[a].at, req[a].old)
           IN
           /\ RowsOK' /\ RowsStay /\ Len(row') = Len(row)
           /\ req[a].id \in Id
           /\ row'[req[a].id].status =
                Written(new.status, req[a].old.status, row[req[a].id].status)
           /\ row'[req[a].id].pay =
                Written(new.pay, req[a].old.pay, row[req[a].id].pay)
           /\ \A i \in Id \ {req[a].id} :
                 IF i \in req[a].others
                   THEN row'[i].status = "cancelled" /\ row'[i].pay = row[i].pay
                   ELSE row'[i] = row[i]
<1> DEFINE r == req[a]
           new == Decided(r.at, r.old)
           status == Written(new.status, r.old.status, row[r.id].status)
           pay == Written(new.pay, r.old.pay, row[r.id].pay)
           Mine == Rewritten(row[r.id], status, pay)
           Other(i) == [row[i] EXCEPT !.status = "cancelled"]
<1>1. /\ r.at \in Op /\ r.id \in Id /\ r.old \in Record
      /\ r.old.kind = row[r.id].kind
  BY DEF SaveDecision, TypeInv, RequestOK, Id
<1>2. row' = [i \in Id |-> IF i = r.id THEN Mine
                           ELSE IF i \in r.others THEN Other(i) ELSE row[i]]
  BY DEF SaveDecision, Rewritten
<1>3. \A i \in Id : row[i] \in Record
  BY RowType
<1>4. /\ status \in StatusWords(row[r.id].kind)
      /\ pay \in PayWords(row[r.id].kind)
  <2>1. /\ new.status \in StatusWords(r.old.kind)
        /\ new.pay \in PayWords(r.old.kind)
    BY <1>1, DecidedWords
  <2>2. /\ row[r.id].status \in StatusWords(row[r.id].kind)
        /\ row[r.id].pay \in PayWords(row[r.id].kind)
    BY <1>1, <1>3, RecordWords
  <2>3. QED
    BY <1>1, <2>1, <2>2 DEF Written
<1>5. /\ Mine \in Record
      /\ Mine.kind = row[r.id].kind /\ Mine.what = row[r.id].what
      /\ Mine.free = row[r.id].free
      /\ Mine.status = status /\ Mine.pay = pay
  <2>1. row[r.id] \in Record
    BY <1>1, <1>3
  <2> HIDE DEF status, pay
  <2>2. QED
    BY <1>4, <2>1, RecordColumns
<1>6. \A i \in Id : /\ Other(i) \in Record /\ Other(i).status = "cancelled"
                    /\ Other(i).kind = row[i].kind /\ Other(i).what = row[i].what
                    /\ Other(i).free = row[i].free /\ Other(i).pay = row[i].pay
  BY <1>3, CancelledType
<1> HIDE DEF Mine, Other
<1>7. Len(row) \in Nat
  BY DEF TypeInv, RowsOK
<1>8. row' \in [1..Len(row) -> Record]
  BY <1>2, <1>3, <1>5, <1>6 DEF Id
<1>9. row' \in Seq(Record) /\ Len(row') = Len(row)
  BY <1>7, <1>8, Updated
<1>10. row'[r.id] = Mine
  BY <1>1, <1>2
<1>11. \A i \in Id \ {r.id} : row'[i] = IF i \in r.others THEN Other(i) ELSE row[i]
  BY <1>2
<1>12. RowsStay
  BY <1>5, <1>6, <1>7, <1>9, <1>10, <1>11 DEF RowsStay
<1>13. RowsOK'
  BY <1>9 DEF RowsOK, TypeInv
<1>14. QED
  BY <1>1, <1>5, <1>6, <1>9, <1>10, <1>11, <1>12, <1>13

\* The two histories stay booleans.
LEMMA BeginsType ==
    ASSUME TypeInv, NEW a, Begins(a)
    PROVE  calm' \in BOOLEAN /\ orderly' \in BOOLEAN
BY DEF Begins

\* The histories keep their type when they are left alone.
LEMMA HistoryStays ==
    ASSUME TypeInv, UNCHANGED <<orderly, calm>>
    PROVE  calm' \in BOOLEAN /\ orderly' \in BOOLEAN
BY DEF TypeInv

\* A request for a slot is a record.
LEMMA NewSlotType ==
    ASSUME NEW w \in Window, NEW free \in BOOLEAN
    PROVE  NewSlot(w, free) \in Slot /\ NewSlot(w, free) \in Record
BY DEF NewSlot, Slot, Record

\* Each action keeps TypeInv.
LEMMA TypeReadForSubscription ==
    ASSUME TypeInv, NEW t \in Tab, NEW p \in Plan, ReadForSubscription(t, p)
    PROVE  TypeInv'
<1> DEFINE new == [kind |-> "sub", what |-> p, free |-> p \in FreePlan,
                   status |-> "pending_payment",
                   pay |-> IF p \in FreePlan THEN "verified" ELSE "unpaid"]
           r == [Idle EXCEPT !.at = "asking", !.old = new]
<1>1. new \in Sub /\ new.status = "pending_payment"
  BY DEF Sub
<1>2. Goes(t, r)
  BY DEF ReadForSubscription
<1> HIDE DEF new
<1>3. RequestOK(t, r, row')
  BY <1>1 DEF RequestOK, Request, Idle, Op
<1> HIDE DEF r
<1>4. /\ t \in Actor /\ row' = row
      /\ calm' \in BOOLEAN /\ orderly' \in BOOLEAN
  BY BeginsType DEF ReadForSubscription, Actor
<1>5. QED
  BY <1>2, <1>3, <1>4, NothingWritten, TypeStep

\* The types are kept by each action: a saved subscription,
LEMMA TypeSaveSubscription ==
    ASSUME TypeInv, NEW t \in Tab, SaveSubscription(t)
    PROVE  TypeInv'
<1>1. /\ row' = Append(row, req[t].old) /\ Len(row) < MaxRows /\ t \in Actor
      /\ Goes(t, Idle)
  BY DEF SaveSubscription, Done, Goes, Actor
<1>2. req[t].old \in Record
  BY <1>1 DEF SaveSubscription, TypeInv, RequestOK, Record
<1>3. RowsOK' /\ RowsStay
  BY <1>1, <1>2, RowInserted
<1>4. calm' \in BOOLEAN /\ orderly' \in BOOLEAN
  BY HistoryStays DEF SaveSubscription
<1>5. QED
  BY <1>1, <1>3, <1>4, IdleOK, TypeStep

\* a vendor's request for a slot,
LEMMA TypeAskForSlot ==
    ASSUME TypeInv, NEW t \in Tab, NEW w \in Window, NEW free \in BOOLEAN,
           AskForSlot(t, w, free)
    PROVE  TypeInv'
<1>1. RowsOK' /\ RowsStay
  BY RowInserted, NewSlotType DEF AskForSlot
<1>2. calm' \in BOOLEAN /\ orderly' \in BOOLEAN /\ req' = req
  BY BeginsType DEF AskForSlot
<1>3. ASSUME NEW a \in Actor PROVE RequestOK(a, req'[a], row')
  BY <1>1, <1>2, RequestStays DEF TypeInv
<1>4. QED
  BY <1>1, <1>2, <1>3 DEF TypeInv

\* the three commits of an administrator's own slot,
LEMMA TypeCreateSlot ==
    ASSUME TypeInv, NEW a \in Admin, NEW w \in Window, NEW free \in BOOLEAN,
           CreateSlot(a, w, free)
    PROVE  TypeInv'
<1> DEFINE new == NewSlot(w, free)
           r == [Idle EXCEPT !.at = "assigning", !.id = Len(row) + 1,
                             !.old = new]
<1>1. new \in Slot /\ new \in Record
  BY NewSlotType
<1>2. row' = Append(row, new) /\ Len(row) < MaxRows /\ Goes(a, r) /\ a \in Actor
  BY DEF CreateSlot, Actor
<1> HIDE DEF new
<1>3. /\ RowsOK' /\ RowsStay
      /\ Len(row') = Len(row) + 1 /\ row'[Len(row) + 1] = new
  BY <1>1, <1>2, RowInserted
<1>4. Len(row) \in Nat
  BY DEF TypeInv, RowsOK
<1>5. new.kind = "slot"
  BY <1>1 DEF Slot
<1>6. RequestOK(a, r, row')
  <2>1. /\ r.at = "assigning" /\ r.id = Len(row) + 1 /\ r.old = new
        /\ r.others = {} /\ r \in Request
    <3> DEFINE n == Len(row) + 1
    <3>1. n \in Nat
      BY <1>4
    <3> HIDE DEF n
    <3>2. LET q == [Idle EXCEPT !.at = "assigning", !.id = n, !.old = new]
          IN  /\ q.at = "assigning" /\ q.id = n /\ q.old = new
              /\ q.others = {} /\ q \in Request
      BY <1>1, <3>1 DEF Idle, Request
    <3>3. QED
      BY <3>2 DEF n
  <2> HIDE DEF r
  <2>2. r.id \in 1..Len(row') /\ r.old.kind = row'[r.id].kind
    BY <1>3, <1>4, <2>1
  <2>3. QED
    BY <1>1, <1>5, <2>1, <2>2 DEF RequestOK, Op
<1> HIDE DEF r
<1>7. calm' \in BOOLEAN /\ orderly' \in BOOLEAN
  BY BeginsType DEF CreateSlot
<1>8. QED
  BY <1>2, <1>3, <1>6, <1>7, TypeStep

\* Assigning a slot changes the payment of one row at most.
LEMMA SlotAssigned ==
    ASSUME TypeInv, NEW a \in Admin, AssignSlot(a)
    PROVE  /\ RowsOK' /\ RowsStay /\ Len(row') = Len(row) /\ req[a].id \in Id
           /\ row'[req[a].id] \in Record
           /\ row'[req[a].id].kind = "slot"
           /\ \A j \in Id \ {req[a].id} : row'[j] = row[j]
           /\ \A j \in Id : row'[j].status = row[j].status
<1> DEFINE i == req[a].id
           pay == Written("not_required", req[a].old.pay, row[i].pay)
           new == Rewritten(row[i], row[i].status, pay)
<1>1. /\ a \in Actor /\ req[a] \in Request /\ i \in Id /\ row[i] \in Record
      /\ row[i].kind = "slot"
  BY RowType DEF AssignSlot, TypeInv, RequestOK, Actor, Id
<1>2. Len(row) \in Nat /\ row \in Seq(Record)
  BY DEF TypeInv, RowsOK
<1>3. row' = [row EXCEPT ![i].pay = pay]
  BY DEF AssignSlot
<1>4. row[i].status \in StatusWords(row[i].kind) /\ pay \in PayWords(row[i].kind)
  BY <1>1, RecordWords DEF Written, PayWords
<1>5. /\ new \in Record /\ new.kind = row[i].kind /\ new.what = row[i].what
      /\ new.free = row[i].free /\ new.status = row[i].status
  <2> HIDE DEF pay
  <2>1. QED
    BY <1>1, <1>4, RecordColumns
<1>6. new = [row[i] EXCEPT !.pay = pay]
  BY <1>1 DEF Rewritten, Record, Sub, Slot
<1>7. row' = [row EXCEPT ![i] = new]
  BY <1>3, <1>6
<1> HIDE DEF new
<1>8. /\ row' \in Seq(Record) /\ Len(row') = Len(row) /\ row'[i] = new
      /\ \A j \in Id \ {i} : row'[j] = row[j]
  BY <1>1, <1>2, <1>5, <1>7 DEF Id
<1>9. RowsOK' /\ RowsStay
  BY <1>2, <1>5, <1>8 DEF RowsOK, RowsStay, TypeInv
<1>10. \A j \in Id : row'[j].status = row[j].status
  BY <1>5, <1>8
<1>11. QED
  BY <1>1, <1>5, <1>8, <1>9, <1>10

\* the second,
LEMMA TypeAssignSlot ==
    ASSUME TypeInv, NEW a \in Admin, AssignSlot(a)
    PROVE  TypeInv'
<1> DEFINE i == req[a].id
           r == [req[a] EXCEPT !.at = "assigned", !.old = row'[i]]
<1>1. /\ a \in Actor /\ RequestOK(a, req[a], row) /\ req[a].at = "assigning"
      /\ Goes(a, r)
  BY DEF AssignSlot, TypeInv, Actor
<1>2. /\ RowsOK' /\ RowsStay /\ Len(row') = Len(row) /\ i \in Id
      /\ row'[i] \in Record /\ row'[i].kind = "slot"
  BY SlotAssigned
<1>3. RequestOK(a, r, row')
  <2>1. RequestOK(a, req[a], row')
    BY <1>1, <1>2, RequestStays DEF TypeInv
  <2>2. /\ r.at = "assigned" /\ r.id = i /\ r.old = row'[i]
        /\ r.others = req[a].others /\ r \in Request
    BY <1>1, <1>2 DEF RequestOK, Request, Record
  <2> HIDE DEF r
  <2>3. QED
    BY <1>1, <1>2, <2>1, <2>2 DEF RequestOK, Op
<1> HIDE DEF r
<1>4. calm' \in BOOLEAN /\ orderly' \in BOOLEAN
  BY HistoryStays DEF AssignSlot
<1>5. QED
  BY <1>1, <1>2, <1>3, <1>4, TypeStep

\* and the check before the third,
LEMMA TypeReadForAssigned ==
    ASSUME TypeInv, NEW a \in Admin, ReadForAssigned(a)
    PROVE  TypeInv'
<1> DEFINE r == [req[a] EXCEPT !.at = "approve"]
<1>1. a \in Actor /\ RequestOK(a, req[a], row) /\ req[a].at = "assigned"
  BY DEF ReadForAssigned, TypeInv, Actor
<1>2. row' = row /\ (Goes(a, r) \/ Goes(a, Idle))
  BY DEF ReadForAssigned, Goes, Done
<1>3. RequestOK(a, r, row')
  <2>1. /\ r.at = "approve" /\ r.id = req[a].id /\ r.old = req[a].old
        /\ r.others = req[a].others /\ r \in Request
    BY <1>1 DEF RequestOK, Request, Op
  <2> HIDE DEF r
  <2>2. QED
    BY <1>1, <1>2, <2>1 DEF RequestOK, Op
<1> HIDE DEF r
<1>4. calm' \in BOOLEAN /\ orderly' \in BOOLEAN
  BY HistoryStays DEF ReadForAssigned
<1>5. RequestOK(a, Idle, row') /\ RowsOK' /\ RowsStay
  BY <1>2, IdleOK, NothingWritten
<1>6. CASE Goes(a, r)
  BY <1>1, <1>3, <1>4, <1>5, <1>6, TypeStep
<1>7. CASE Goes(a, Idle)
  BY <1>1, <1>4, <1>5, <1>7, TypeStep
<1>8. QED
  BY <1>2, <1>6, <1>7

\* What a request about a row has loaded.
LEMMA DecidingFields ==
    ASSUME TypeInv, NEW op \in Op, NEW i \in Id
    PROVE  LET r == Deciding(op, i)
           IN  /\ r \in Request /\ r.at = op /\ r.id = i /\ r.old = row[i]
               /\ r.others = IF op = "approve" /\ row[i].kind = "sub"
                                THEN OtherActive(i) ELSE {}
               /\ r.others \subseteq Id
<1>1. row[i] \in Record
  BY RowType
<1>2. Id \subseteq Nat
  BY DEF Id
<1>3. OtherActive(i) \subseteq Id
  BY DEF OtherActive
<1>4. OtherActive(i) \subseteq Nat
  BY <1>2, <1>3
<1>5. QED
  BY <1>1, <1>2, <1>3, <1>4 DEF Deciding, Request, Record

\* what a decision reads,
LEMMA TypeReadForDecision ==
    ASSUME TypeInv, NEW a \in Actor, NEW op \in Op, NEW i \in Id,
           ReadForDecision(a, op, i)
    PROVE  TypeInv'
<1> DEFINE r == Deciding(op, i)
<1>1. row' = row /\ Goes(a, r) /\ Allowed(a, op, i)
  BY DEF ReadForDecision
<1>2. /\ r \in Request /\ r.at = op /\ r.id = i /\ r.old = row[i]
      /\ r.others \subseteq Id
  BY DecidingFields
<1>3. op = "approve" => a \in Admin
  BY <1>1 DEF Allowed
<1>4. row[i] \in Record
  BY RowType
<1> HIDE DEF r
<1>5. RequestOK(a, r, row')
  BY <1>1, <1>2, <1>3, <1>4 DEF RequestOK, Op, Id
<1>6. calm' \in BOOLEAN /\ orderly' \in BOOLEAN
  BY BeginsType DEF ReadForDecision
<1>7. QED
  BY <1>1, <1>5, <1>6, NothingWritten, TypeStep

\* what it saves,
LEMMA TypeSaveDecision ==
    ASSUME TypeInv, NEW a \in Actor, SaveDecision(a)
    PROVE  TypeInv'
<1>1. RowsOK' /\ RowsStay
  BY RowsDecided
<1>2. Goes(a, Idle)
  BY DEF SaveDecision, Done, Goes
<1>3. calm' \in BOOLEAN /\ orderly' \in BOOLEAN
  BY HistoryStays DEF SaveDecision
<1>4. QED
  BY <1>1, <1>2, <1>3, IdleOK, TypeStep

\* and a request that dies.
LEMMA TypeDies ==
    ASSUME TypeInv, NEW a \in Actor, Dies(a)
    PROVE  TypeInv'
<1>1. Goes(a, Idle) /\ row' = row
  BY DEF Dies, Done, Goes
<1>2. calm' \in BOOLEAN /\ orderly' \in BOOLEAN
  BY HistoryStays DEF Dies
<1>3. QED
  BY <1>1, <1>2, IdleOK, NothingWritten, TypeStep

\* The type invariant holds at the start.
LEMMA TypeInit == Init => TypeInv
<1> SUFFICES ASSUME Init PROVE TypeInv
  OBVIOUS
<1>1. row \in Seq(Record) /\ Len(row) = 0 /\ 0 <= MaxRows
  BY LiveSlotsAssumption DEF Init
<1>2. Idle \in Request
  BY IdleOK DEF RequestOK
<1>3. req \in [Actor -> Request] /\ \A a \in Actor : req[a] = Idle
  BY <1>2 DEF Init
<1>4. QED
  BY <1>1, <1>3, IdleOK DEF Init, TypeInv, RowsOK

\* Every step keeps the type invariant.
LEMMA TypeNext == TypeInv /\ [Next]_vars => TypeInv'
<1> SUFFICES ASSUME TypeInv, [Next]_vars PROVE TypeInv'
  OBVIOUS
<1>1. ASSUME NEW t \in Tab, TabNext(t) PROVE TypeInv'
  BY <1>1, TypeReadForSubscription, TypeSaveSubscription, TypeAskForSlot
     DEF TabNext
<1>2. ASSUME NEW a \in Admin, AdminNext(a) PROVE TypeInv'
  BY <1>2, TypeCreateSlot, TypeAssignSlot, TypeReadForAssigned DEF AdminNext
<1>3. ASSUME NEW a \in Actor, NEW op \in Op, NEW i \in Id,
             ReadForDecision(a, op, i)
      PROVE  TypeInv'
  BY <1>3, TypeReadForDecision
<1>4. ASSUME NEW a \in Actor, SaveDecision(a) \/ Dies(a) PROVE TypeInv'
  BY <1>4, TypeSaveDecision, TypeDies
<1>5. CASE UNCHANGED vars
  BY <1>5 DEF vars, TypeInv, RowsOK
<1>6. QED
  BY <1>1, <1>2, <1>3, <1>4, <1>5 DEF Next

\* The tables and the requests in flight keep their shape: a request works on
\* a row that exists and of the table it has loaded it from, also when requests
\* overlap.
THEOREM TypeCorrect == Spec => []TypeOK
<1>1. TypeInv => TypeOK
  BY TypeInvType
<1>2. QED
  BY <1>1, TypeInit, TypeNext, PTL DEF Spec

-----------------------------------------------------------------------------
(* Who moves in a step.                                                    *)

\* Actor a begins a request or goes on with the one it has in flight, and all
\* other requests stay as they are.
Moves(a) ==
    /\ \A x \in Actor \ {a} : req'[x] = req[x]
    /\ \/ Begins(a)
       \/ req[a].at # "idle" /\ UNCHANGED <<orderly, calm>>

\* Giving one actor a request leaves the others theirs.
LEMMA OthersStay ==
    ASSUME TypeInv, NEW a \in Actor, NEW r, Goes(a, r)
    PROVE  req'[a] = r /\ \A x \in Actor \ {a} : req'[x] = req[x]
BY DEF TypeInv, Goes

\* A request that ends is idle.
LEMMA DoneGoes == ASSUME NEW a, Done(a) PROVE Goes(a, Idle)
BY DEF Done, Goes

\* Every step of the system is one actor's.
LEMMA SomeoneMoves ==
    ASSUME TypeInv, Next
    PROVE  \E a \in Actor : Moves(a)
<1>1. ASSUME NEW t \in Tab, TabNext(t) PROVE t \in Actor /\ Moves(t)
  <2>1. t \in Actor
    BY DEF Actor
  <2>2. CASE \E p \in Plan : ReadForSubscription(t, p)
    BY <2>1, <2>2, OthersStay DEF ReadForSubscription, Moves
  <2>3. CASE SaveSubscription(t)
    BY <2>1, <2>3, OthersStay, DoneGoes DEF SaveSubscription, Moves
  <2>4. CASE \E w \in Window, free \in BOOLEAN : AskForSlot(t, w, free)
    BY <2>1, <2>4 DEF AskForSlot, Moves
  <2>5. QED
    BY <1>1, <2>1, <2>2, <2>3, <2>4 DEF TabNext
<1>2. ASSUME NEW a \in Admin, AdminNext(a) PROVE a \in Actor /\ Moves(a)
  <2>1. a \in Actor
    BY DEF Actor
  <2>2. CASE \E w \in Window, free \in BOOLEAN : CreateSlot(a, w, free)
    BY <2>1, <2>2, OthersStay DEF CreateSlot, Moves
  <2>3. CASE AssignSlot(a)
    BY <2>1, <2>3, OthersStay DEF AssignSlot, Moves
  <2>4. CASE ReadForAssigned(a)
    BY <2>1, <2>4, OthersStay, DoneGoes DEF ReadForAssigned, Moves
  <2>5. QED
    BY <1>2, <2>1, <2>2, <2>3, <2>4 DEF AdminNext
<1>3. ASSUME NEW a \in Actor, NEW op \in Op, NEW i \in Id,
             ReadForDecision(a, op, i)
      PROVE  Moves(a)
  BY <1>3, OthersStay DEF ReadForDecision, Moves
<1>4. ASSUME NEW a \in Actor, SaveDecision(a) PROVE Moves(a)
  BY <1>4, OthersStay, DoneGoes DEF SaveDecision, Moves, Op
<1>5. ASSUME NEW a \in Actor, Dies(a) PROVE Moves(a)
  BY <1>5, OthersStay, DoneGoes DEF Dies, Moves
<1>6. QED
  BY <1>1, <1>2, <1>3, <1>4, <1>5 DEF Next

-----------------------------------------------------------------------------
(* What administrators grant.                                              *)

OneBusy == \A a, b \in Admin : req[a].at # "idle" /\ req[b].at # "idle" => a = b

Apart == \A i, j \in Id : (/\ row[i].status = "approved"
                          /\ row[j].status = "approved"
                          /\ Overlap(row[i].what, row[j].what)) => i = j

Alone == \A i, j \in Id : (/\ row[i].status = "active"
                          /\ row[j].status = "active") => i = j

\* What an approval in flight has found is still so.
Checked(r) ==
    /\ row[r.id].kind = "slot" => IsFree(r.id)
    /\ row[r.id].kind = "sub" => OtherActive(r.id) \subseteq r.others

GrantInv ==
    orderly => /\ OneBusy /\ Apart /\ Alone
               /\ \A a \in Admin : req[a].at = "approve" => Checked(req[a])

\* As long as administrators take turns, at most one is at work.
LEMMA OneBusyStays ==
    ASSUME TypeInv, Next, orderly => OneBusy, orderly'
    PROVE  orderly /\ OneBusy'
<1>1. PICK a \in Actor : Moves(a)
  BY SomeoneMoves
<1>2. Admin \subseteq Actor
  BY DEF Actor
<1>3. orderly
  BY <1>1 DEF Moves, Begins
<1>4. CASE Begins(a)
  BY <1>1, <1>2, <1>3, <1>4 DEF Moves, Begins, OneBusy
<1>5. CASE req[a].at # "idle"
  BY <1>1, <1>2, <1>3, <1>5 DEF Moves, OneBusy
<1>6. QED
  BY <1>1, <1>3, <1>4, <1>5 DEF Moves

\* Nothing is granted that was not.
NothingGranted ==
    \A i \in Id' : row'[i].status \in {"approved", "active"} =>
                     i \in Id /\ row[i].status = row'[i].status

\* Only a saved approval grants anything.
LEMMA GrantsAreApproved ==
    ASSUME TypeInv, Next, ~NothingGranted
    PROVE  \E a \in Admin : SaveDecision(a) /\ req[a].at = "approve"
<1> SUFFICES ASSUME ~ \E a \in Admin : SaveDecision(a) /\ req[a].at = "approve"
             PROVE  NothingGranted
  OBVIOUS
<1>1. ASSUME row' = row PROVE NothingGranted
  BY <1>1 DEF NothingGranted, Id
<1>2. ASSUME NEW e \in Record, row' = Append(row, e), Len(row) < MaxRows,
             e.status \notin {"approved", "active"}
      PROVE  NothingGranted
  <2>1. /\ Len(row') = Len(row) + 1 /\ row'[Len(row) + 1] = e
        /\ \A i \in Id : row'[i] = row[i]
    BY <1>2, RowInserted
  <2>2. Len(row) \in Nat
    BY DEF TypeInv, RowsOK
  <2>3. \A i \in Id' : i \in Id \/ i = Len(row) + 1
    BY <2>1, <2>2 DEF Id
  <2>4. QED
    BY <1>2, <2>1, <2>3 DEF NothingGranted
<1>3. ASSUME NEW t \in Tab, TabNext(t) PROVE NothingGranted
  <2>1. CASE \E p \in Plan : ReadForSubscription(t, p)
    BY <1>1, <2>1 DEF ReadForSubscription
  <2>2. CASE SaveSubscription(t)
    <3>1. req[t].old \in Record /\ req[t].old.status \notin {"approved", "active"}
      BY <2>2 DEF SaveSubscription, TypeInv, RequestOK, Record, Actor
    <3>2. QED
      BY <1>2, <2>2, <3>1 DEF SaveSubscription
  <2>3. CASE \E w \in Window, free \in BOOLEAN : AskForSlot(t, w, free)
    <3>1. PICK w \in Window, free \in BOOLEAN : AskForSlot(t, w, free)
      BY <2>3
    <3>2. NewSlot(w, free).status = "requested"
      BY DEF NewSlot
    <3>3. QED
      BY <1>2, <3>1, <3>2, NewSlotType DEF AskForSlot
  <2>4. QED
    BY <1>3, <2>1, <2>2, <2>3 DEF TabNext
<1>4. ASSUME NEW a \in Admin, AdminNext(a) PROVE NothingGranted
  <2>1. CASE \E w \in Window, free \in BOOLEAN : CreateSlot(a, w, free)
    <3>1. PICK w \in Window, free \in BOOLEAN : CreateSlot(a, w, free)
      BY <2>1
    <3>2. NewSlot(w, free).status = "requested"
      BY DEF NewSlot
    <3>3. QED
      BY <1>2, <3>1, <3>2, NewSlotType DEF CreateSlot
  <2>2. CASE AssignSlot(a)
    BY <2>2, SlotAssigned DEF NothingGranted, Id
  <2>3. CASE ReadForAssigned(a)
    BY <1>1, <2>3 DEF ReadForAssigned
  <2>4. QED
    BY <1>4, <2>1, <2>2, <2>3 DEF AdminNext
<1>5. ASSUME NEW a \in Actor, NEW op \in Op, NEW i \in Id,
             ReadForDecision(a, op, i)
      PROVE  NothingGranted
  BY <1>1, <1>5 DEF ReadForDecision
<1>6. ASSUME NEW a \in Actor, SaveDecision(a) PROVE NothingGranted
  <2> DEFINE r == req[a]
             new == Decided(r.at, r.old)
  <2>1. /\ r.at \in {"proof", "reject", "cancel"}
        /\ r.old \in Record
    BY <1>6 DEF SaveDecision, TypeInv, RequestOK, Op
  <2>2. \/ new.status = r.old.status
        \/ new.status \in {"rejected", "cancelled"}
    BY <2>1 DEF Decided, Record, Sub, Slot
  <2>3. /\ Len(row') = Len(row) /\ r.id \in Id
        /\ row'[r.id].status = Written(new.status, r.old.status, row[r.id].status)
        /\ \A i \in Id \ {r.id} : \/ row'[i].status = "cancelled"
                                  \/ row'[i] = row[i]
    BY <1>6, RowsDecided
  <2> HIDE DEF new
  <2>4. QED
    BY <2>2, <2>3 DEF NothingGranted, Written, Id
<1>7. ASSUME NEW a \in Actor, Dies(a) PROVE NothingGranted
  BY <1>1, <1>7 DEF Dies
<1>8. QED
  BY <1>3, <1>4, <1>5, <1>6, <1>7 DEF Next

\* Rows stay in every step.
LEMMA RowsStayNext ==
    ASSUME TypeInv, Next
    PROVE  RowsStay /\ RowsOK'
<1>1. ASSUME NEW t \in Tab, TabNext(t) PROVE RowsStay /\ RowsOK'
  <2>1. CASE \E p \in Plan : ReadForSubscription(t, p)
    BY <2>1, NothingWritten DEF ReadForSubscription
  <2>2. CASE SaveSubscription(t)
    <3>1. req[t].old \in Record
      BY <2>2 DEF SaveSubscription, TypeInv, RequestOK, Record, Actor
    <3>2. QED
      BY <2>2, <3>1, RowInserted DEF SaveSubscription
  <2>3. CASE \E w \in Window, free \in BOOLEAN : AskForSlot(t, w, free)
    BY <2>3, RowInserted, NewSlotType DEF AskForSlot
  <2>4. QED
    BY <1>1, <2>1, <2>2, <2>3 DEF TabNext
<1>2. ASSUME NEW a \in Admin, AdminNext(a) PROVE RowsStay /\ RowsOK'
  <2>1. CASE \E w \in Window, free \in BOOLEAN : CreateSlot(a, w, free)
    BY <2>1, RowInserted, NewSlotType DEF CreateSlot
  <2>2. CASE AssignSlot(a)
    BY <2>2, SlotAssigned
  <2>3. CASE ReadForAssigned(a)
    BY <2>3, NothingWritten DEF ReadForAssigned
  <2>4. QED
    BY <1>2, <2>1, <2>2, <2>3 DEF AdminNext
<1>3. ASSUME NEW a \in Actor, NEW op \in Op, NEW i \in Id,
             ReadForDecision(a, op, i)
      PROVE  RowsStay /\ RowsOK'
  BY <1>3, NothingWritten DEF ReadForDecision
<1>4. ASSUME NEW a \in Actor, SaveDecision(a) PROVE RowsStay /\ RowsOK'
  BY <1>4, RowsDecided
<1>5. ASSUME NEW a \in Actor, Dies(a) PROVE RowsStay /\ RowsOK'
  BY <1>5, NothingWritten DEF Dies
<1>6. QED
  BY <1>1, <1>2, <1>3, <1>4, <1>5 DEF Next

\* An approval that begins has looked at the rows as they are.
LEMMA NewApproval ==
    ASSUME TypeInv, Next, NEW b \in Admin,
           req'[b].at = "approve", req'[b] # req[b]
    PROVE  row' = row /\ Checked(req'[b])
<1>1. b \in Actor
  BY DEF Actor
<1>2. ASSUME NEW a \in Actor, NEW r, Goes(a, r), r.at # "approve" PROVE FALSE
  BY <1>1, <1>2, OthersStay
<1>3. Idle.at # "approve"
  BY DEF Idle
<1>4. ~ \E t \in Tab : TabNext(t)
  <2> SUFFICES ASSUME NEW t \in Tab, TabNext(t) PROVE FALSE
    OBVIOUS
  <2>1. t \in Actor
    BY DEF Actor
  <2>2. CASE \E p \in Plan : ReadForSubscription(t, p)
    <3>1. PICK p \in Plan : ReadForSubscription(t, p)
      BY <2>2
    <3> DEFINE r == [Idle EXCEPT !.at = "asking", !.old =
                     [kind |-> "sub", what |-> p, free |-> p \in FreePlan,
                      status |-> "pending_payment",
                      pay |-> IF p \in FreePlan THEN "verified" ELSE "unpaid"]]
    <3>2. Goes(t, r)
      BY <3>1 DEF ReadForSubscription
    <3>3. r.at = "asking"
      BY DEF Idle
    <3> HIDE DEF r
    <3>4. QED
      BY <1>2, <2>1, <3>2, <3>3
  <2>3. CASE SaveSubscription(t)
    BY <1>2, <1>3, <2>1, <2>3, DoneGoes DEF SaveSubscription
  <2>4. CASE \E w \in Window, free \in BOOLEAN : AskForSlot(t, w, free)
    BY <2>4 DEF AskForSlot
  <2>5. QED
    BY <2>2, <2>3, <2>4 DEF TabNext
<1>5. ASSUME NEW a \in Admin, AdminNext(a) PROVE row' = row /\ Checked(req'[b])
  <2>1. a \in Actor
    BY DEF Actor
  <2>2. ~ \E w \in Window, free \in BOOLEAN : CreateSlot(a, w, free)
    <3> SUFFICES ASSUME NEW w \in Window, NEW free \in BOOLEAN,
                        CreateSlot(a, w, free)
                 PROVE  FALSE
      OBVIOUS
    <3> DEFINE new == NewSlot(w, free)
               n == Len(row) + 1
               r == [Idle EXCEPT !.at = "assigning", !.id = n, !.old = new]
    <3>1. Goes(a, r)
      BY DEF CreateSlot
    <3> HIDE DEF new, n
    <3>2. r.at = "assigning"
      BY DEF Idle
    <3> HIDE DEF r
    <3>3. QED
      BY <1>2, <2>1, <3>1, <3>2
  <2>3. ~ AssignSlot(a)
    <3> SUFFICES ASSUME AssignSlot(a) PROVE FALSE
      OBVIOUS
    <3> DEFINE r == [req[a] EXCEPT !.at = "assigned", !.old = row'[req[a].id]]
    <3>1. Goes(a, r) /\ req[a] \in Request
      BY <2>1 DEF AssignSlot, TypeInv
    <3>2. r.at = "assigned"
      BY <3>1 DEF Request
    <3> HIDE DEF r
    <3>3. QED
      BY <1>2, <2>1, <3>1, <3>2
  <2>4. CASE ReadForAssigned(a)
    <3> DEFINE r == [req[a] EXCEPT !.at = "approve"]
    <3>1. ~Done(a)
      BY <1>2, <1>3, <2>1, DoneGoes
    <3>2. row' = row /\ Goes(a, r) /\ IsFree(req[a].id)
      BY <2>4, <3>1 DEF ReadForAssigned, Goes
    <3>3. RequestOK(a, req[a], row) /\ req[a].at = "assigned"
      BY <2>1, <2>4 DEF TypeInv, ReadForAssigned
    <3>4. r.id = req[a].id /\ row[r.id].kind = "slot"
      BY <3>3 DEF RequestOK, Request
    <3>5. req'[b] = r
      <4> HIDE DEF r
      <4>1. QED
        BY <1>1, <2>1, <3>2, OthersStay
    <3> HIDE DEF r
    <3>6. QED
      BY <3>2, <3>4, <3>5 DEF Checked
  <2>5. QED
    BY <1>5, <2>2, <2>3, <2>4 DEF AdminNext
<1>6. ASSUME NEW a \in Actor, NEW op \in Op, NEW i \in Id,
             ReadForDecision(a, op, i)
      PROVE  row' = row /\ Checked(req'[b])
  <2> DEFINE r == Deciding(op, i)
  <2>1. row' = row /\ Goes(a, r) /\ Allowed(a, op, i)
    BY <1>6 DEF ReadForDecision
  <2>2. /\ r.at = op /\ r.id = i
        /\ r.others = IF op = "approve" /\ row[i].kind = "sub"
                        THEN OtherActive(i) ELSE {}
    BY DecidingFields
  <2> HIDE DEF r
  <2>3. req'[b] = r
    BY <1>1, <2>1, OthersStay
  <2>4. op = "approve"
    BY <2>2, <2>3
  <2>5. QED
    BY <2>1, <2>2, <2>3, <2>4 DEF Checked, Allowed
<1>7. ~ \E a \in Actor : SaveDecision(a)
  BY <1>2, <1>3, DoneGoes DEF SaveDecision
<1>8. ~ \E a \in Actor : Dies(a)
  BY <1>2, <1>3, DoneGoes DEF Dies
<1>9. QED
  BY <1>4, <1>5, <1>6, <1>7, <1>8 DEF Next

\* What has been found of the rows stays true while nothing is granted.
LEMMA NothingGrantedKeeps ==
    ASSUME TypeInv, RowsStay, NothingGranted, Apart, Alone
    PROVE  /\ Apart' /\ Alone'
           /\ \A r : r.id \in Id /\ Checked(r)
                      => /\ row'[r.id].kind = "slot" => IsFree(r.id)'
                         /\ row'[r.id].kind = "sub" =>
                                OtherActive(r.id)' \subseteq r.others
<1>1. \A i \in Id' : row'[i].status \in {"approved", "active"} =>
                        /\ i \in Id /\ row[i].status = row'[i].status
                        /\ row'[i].what = row[i].what
  BY DEF NothingGranted, RowsStay
<1>2. Apart'
  BY <1>1 DEF Apart
<1>3. Alone'
  BY <1>1 DEF Alone
<1>4. ASSUME NEW i \in Id PROVE IsFree(i) => IsFree(i)'
  <2>1. row'[i].what = row[i].what
    BY DEF RowsStay
  <2>2. QED
    BY <1>1, <2>1 DEF IsFree
<1>5. ASSUME NEW i \in Id PROVE OtherActive(i)' \subseteq OtherActive(i)
  BY <1>1 DEF OtherActive
<1>6. \A i \in Id : row'[i].kind = row[i].kind
  BY DEF RowsStay
<1>7. QED
  BY <1>2, <1>3, <1>4, <1>5, <1>6 DEF Checked

\* Windows overlap both ways.
LEMMA OverlapSymmetric ==
    ASSUME NEW v \in Window, NEW w \in Window
    PROVE  Overlap(v, w) <=> Overlap(w, v)
BY LiveSlotsAssumption DEF Overlap

\* The tables' words tell a slot from a subscription.
LEMMA WordsTell ==
    ASSUME NEW r \in Record
    PROVE  /\ r.status = "approved" => r.kind = "slot" /\ r.what \in Window
           /\ r.status = "active" => r.kind = "sub"
BY DEF Record, Sub, Slot

\* A saved approval that has found the rows as they are keeps slots apart
\* and leaves one active subscription.
LEMMA ApprovalKeeps ==
    ASSUME TypeInv, Apart, Alone, NEW a \in Admin, SaveDecision(a),
           Checked(req[a])
    PROVE  Apart' /\ Alone'
<1> DEFINE r == req[a]
<1>1. /\ RowsOK' /\ RowsStay /\ Id' = Id /\ r.id \in Id
      /\ \A i \in Id \ {r.id} :
            IF i \in r.others THEN row'[i].status = "cancelled"
                              ELSE row'[i] = row[i]
  BY RowsDecided DEF Actor, Id
<1>2. \A i \in Id : /\ row[i] \in Record /\ row'[i] \in Record
                    /\ row'[i].kind = row[i].kind /\ row'[i].what = row[i].what
  BY <1>1, RowType DEF RowsOK, RowsStay, Id
<1>3. \A i \in Id \ {r.id} : row'[i].status \in {"approved", "active"} =>
                                i \notin r.others /\ row'[i] = row[i]
  BY <1>1
<1>4. Apart'
  <2>1. ASSUME NEW j \in Id \ {r.id}, row'[r.id].status = "approved",
               row'[j].status = "approved"
        PROVE  /\ ~Overlap(row[j].what, row[r.id].what)
               /\ ~Overlap(row[r.id].what, row[j].what)
    <3>1. row[r.id].kind = "slot" /\ row[r.id].what \in Window
      BY <1>1, <1>2, <2>1, WordsTell
    <3>2. row[j].status = "approved" /\ row[j].what \in Window
      BY <1>2, <1>3, <2>1, WordsTell
    <3>3. ~Overlap(row[j].what, row[r.id].what)
      BY <3>1, <3>2 DEF Checked, IsFree
    <3>4. QED
      BY <3>1, <3>2, <3>3, OverlapSymmetric
  <2>2. ASSUME NEW i \in Id, NEW j \in Id, row'[i].status = "approved",
               row'[j].status = "approved", Overlap(row[i].what, row[j].what)
        PROVE  i = j
    BY <1>3, <2>1, <2>2 DEF Apart
  <2>3. QED
    BY <1>1, <1>2, <2>2 DEF Apart
<1>5. Alone'
  <2>1. ASSUME NEW j \in Id \ {r.id}, row'[r.id].status = "active",
               row'[j].status = "active"
        PROVE  FALSE
    <3>1. row[r.id].kind = "sub"
      BY <1>1, <1>2, <2>1, WordsTell
    <3>2. j \in OtherActive(r.id) /\ j \notin r.others
      BY <1>3, <2>1 DEF OtherActive
    <3>3. QED
      BY <3>1, <3>2 DEF Checked
  <2>2. ASSUME NEW i \in Id, NEW j \in Id, row'[i].status = "active",
               row'[j].status = "active"
        PROVE  i = j
    BY <1>3, <2>1, <2>2 DEF Alone
  <2>3. QED
    BY <1>1, <2>2 DEF Alone
<1>6. QED
  BY <1>4, <1>5

\* The grant invariant holds at the start.
LEMMA GrantInit == Init => GrantInv
<1> SUFFICES ASSUME Init PROVE GrantInv
  OBVIOUS
<1>1. Id = {}
  BY DEF Init, Id
<1>2. \A a \in Admin : req[a].at = "idle"
  BY DEF Init, Actor, Idle
<1>3. QED
  BY <1>1, <1>2 DEF GrantInv, OneBusy, Apart, Alone

\* Every step keeps the grant invariant.
LEMMA GrantNext == TypeInv /\ GrantInv /\ [Next]_vars => GrantInv'
<1> SUFFICES ASSUME TypeInv, GrantInv, [Next]_vars PROVE GrantInv'
  OBVIOUS
<1>1. CASE UNCHANGED vars
  BY <1>1 DEF vars, GrantInv, OneBusy, Apart, Alone, Checked, IsFree,
              OtherActive, Id
<1>2. CASE Next
  <2> SUFFICES ASSUME orderly'
               PROVE  /\ OneBusy' /\ Apart' /\ Alone'
                      /\ \A b \in Admin : req'[b].at = "approve" =>
                                              Checked(req[b])'
    BY DEF GrantInv
  <2>1. orderly /\ OneBusy'
    BY <1>2, OneBusyStays DEF GrantInv
  <2>2. /\ OneBusy /\ Apart /\ Alone
        /\ \A b \in Admin : req[b].at = "approve" => Checked(req[b])
    BY <2>1 DEF GrantInv
  <2>3. RowsStay
    BY <1>2, RowsStayNext
  <2>4. CASE NothingGranted
    <3>1. ASSUME NEW b \in Admin, req'[b].at = "approve"
          PROVE  Checked(req[b])'
      <4>1. CASE req'[b] = req[b]
        <5>1. Checked(req[b]) /\ req[b].id \in Id
          BY <2>2, <3>1, <4>1 DEF TypeInv, RequestOK, Actor, Op, Id
        <5>2. QED
          BY <2>2, <2>3, <2>4, <4>1, <5>1, NothingGrantedKeeps DEF Checked
      <4>2. CASE req'[b] # req[b]
        <5>1. row' = row /\ Checked(req'[b])
          BY <1>2, <3>1, <4>2, NewApproval
        <5>2. QED
          BY <5>1 DEF Checked, IsFree, OtherActive, Id
      <4>3. QED
        BY <4>1, <4>2
    <3>2. QED
      BY <2>1, <2>2, <2>3, <2>4, <3>1, NothingGrantedKeeps
  <2>5. CASE ~NothingGranted
    <3>1. PICK a \in Admin : SaveDecision(a) /\ req[a].at = "approve"
      BY <1>2, <2>5, GrantsAreApproved
    <3>2. Apart' /\ Alone'
      BY <2>2, <3>1, ApprovalKeeps
    <3>3. ASSUME NEW b \in Admin PROVE req'[b].at # "approve"
      <4>1. /\ Goes(a, Idle) /\ a \in Actor /\ b \in Actor
            /\ Idle.at = "idle"
        BY <3>1, DoneGoes DEF SaveDecision, Actor, Idle
      <4>2. CASE b = a
        BY <4>1, <4>2, OthersStay
      <4>3. CASE b # a
        <5>1. req'[b] = req[b]
          BY <4>1, <4>3, OthersStay
        <5>2. req[b].at = "idle"
          BY <2>2, <3>1, <4>3 DEF OneBusy
        <5>3. QED
          BY <5>1, <5>2
      <4>4. QED
        BY <4>2, <4>3
    <3>4. QED
      BY <2>1, <3>2, <3>3
  <2>6. QED
    BY <2>4, <2>5
<1>3. QED
  BY <1>1, <1>2

\* Both invariants hold in every state.
LEMMA Granting == Spec => [](TypeInv /\ GrantInv)
<1>1. Init => TypeInv /\ GrantInv
  BY TypeInit, GrantInit
<1>2. TypeInv /\ GrantInv /\ [Next]_vars => (TypeInv /\ GrantInv)'
  BY TypeNext, GrantNext
<1>3. QED
  BY <1>1, <1>2, PTL DEF Spec

\* As long as administrators take turns, approve_live_slot and
\* create_admin_live_slot never approve two slots of a vendor that overlap,
\* whatever the vendor asks, proves or takes back between check and commit.
THEOREM SlotsNeverOverlap == Spec => []SlotsDisjoint
<1>1. GrantInv => SlotsDisjoint
  BY DEF GrantInv, Apart, SlotsDisjoint
<1>2. QED
  BY <1>1, Granting, PTL

\* As long as administrators take turns, approve_vendor_subscription leaves
\* a vendor at most one active subscription.
THEOREM OneSubscription == Spec => []OneActive
<1>1. GrantInv => OneActive
  BY DEF GrantInv, Alone, OneActive
<1>2. QED
  BY <1>1, Granting, PTL

-----------------------------------------------------------------------------
(* Requests that do not overlap.                                           *)

\* At most one request is in flight, and what it has loaded is still so.
OnlyOne == \A a, b \in Actor : req[a].at # "idle" /\ req[b].at # "idle" => a = b

UpToDate(a) ==
    LET r == req[a]
    IN  /\ r.at \in Op \cup {"assigning", "assigned"} => r.old = row[r.id]
        /\ r.at = "proof" => TakesProof(row[r.id])
        /\ r.at = "assigning" => row[r.id].status = "requested"
        /\ r.at = "asking" => MayAsk(r.old.what)

\* What GrantedIsSettled says of one row.
Settled(i) ==
    /\ row[i].status = "active" => row[i].pay = "verified"
    /\ row[i].status = "approved" =>
          row[i].pay = IF row[i].free THEN "not_required" ELSE "verified"

OnePending == \A i, j \in Id : (/\ row[i].status = "pending_payment"
                               /\ row[j].status = "pending_payment"
                               /\ row[i].what = row[j].what) => i = j

CalmInv == calm => /\ OnlyOne /\ OnePending
                   /\ \A a \in Actor : UpToDate(a)
                   /\ \A i \in Id : Settled(i)

\* In a calm step one actor moves and the others are idle.
LEMMA CalmMoves ==
    ASSUME CalmInv, NEW a \in Actor, Moves(a), calm'
    PROVE  /\ calm /\ OnlyOne'
           /\ \A x \in Actor \ {a} : req'[x].at = "idle" /\ UpToDate(x)'
<1>1. calm /\ \A x \in Actor \ {a} : req[x].at = "idle"
  BY DEF Moves, Begins, CalmInv, OnlyOne
<1>2. \A x \in Actor \ {a} : req'[x].at = "idle"
  BY <1>1 DEF Moves
<1>3. QED
  BY <1>1, <1>2 DEF OnlyOne, UpToDate, Op

\* A row that is written is neither granted nor pending, or only the same as
\* before.
LEMMA RowsCalm ==
    ASSUME CalmInv, calm,
           \A i \in Id' : \/ i \in Id /\ row'[i] = row[i]
                          \/ row'[i].status \notin
                                {"active", "approved", "pending_payment"}
    PROVE  OnePending' /\ \A i \in Id' : Settled(i)'
BY DEF CalmInv, OnePending, Settled

\* The rows after an INSERT of one that is only asked for.
LEMMA CalmInsert ==
    ASSUME TypeInv, CalmInv, calm, NEW w \in Window, NEW free \in BOOLEAN,
           row' = Append(row, NewSlot(w, free)), Len(row) < MaxRows
    PROVE  /\ OnePending' /\ \A i \in Id' : Settled(i)'
           /\ row'[Len(row) + 1] = NewSlot(w, free)
           /\ row'[Len(row) + 1].status = "requested"
<1>1. /\ Len(row') = Len(row) + 1 /\ row'[Len(row) + 1] = NewSlot(w, free)
      /\ \A i \in Id : row'[i] = row[i]
  BY NewSlotType, RowInserted
<1>2. Len(row) \in Nat /\ NewSlot(w, free).status = "requested"
  BY DEF TypeInv, RowsOK, NewSlot
<1>3. \A i \in Id' : i \in Id \/ i = Len(row) + 1
  BY <1>1, <1>2 DEF Id
<1>4. QED
  BY <1>1, <1>2, <1>3, RowsCalm

\* The calm invariant is kept by each action: a subscription that is read
\* for,
LEMMA CalmReadForSubscription ==
    ASSUME TypeInv, CalmInv, calm', NEW t \in Tab, NEW p \in Plan,
           ReadForSubscription(t, p)
    PROVE  CalmInv'
<1> DEFINE new == [kind |-> "sub", what |-> p, free |-> p \in FreePlan,
                   status |-> "pending_payment",
                   pay |-> IF p \in FreePlan THEN "verified" ELSE "unpaid"]
           r == [Idle EXCEPT !.at = "asking", !.old = new]
<1>1. r.at = "asking" /\ r.old.what = p
  BY DEF Idle
<1>2. Goes(t, r) /\ t \in Actor /\ row' = row /\ MayAsk(p) /\ Begins(t)
  BY DEF ReadForSubscription, Actor
<1> HIDE DEF new, r
<1>3. req'[t] = r /\ Moves(t)
  BY <1>2, OthersStay DEF Moves
<1>4. UpToDate(t)'
  BY <1>1, <1>2, <1>3 DEF UpToDate, MayAsk, Id, Op
<1>5. QED
  BY <1>2, <1>3, <1>4, CalmMoves, RowsCalm DEF CalmInv, Id

\* No other request for the plan is pending when one is saved.
LEMMA CalmSaveSubscription ==
    ASSUME TypeInv, CalmInv, calm', NEW t \in Tab, SaveSubscription(t)
    PROVE  CalmInv'
<1> DEFINE e == req[t].old
<1>1. /\ row' = Append(row, e) /\ Len(row) < MaxRows /\ t \in Actor
      /\ Goes(t, Idle) /\ req[t].at = "asking" /\ UNCHANGED <<orderly, calm>>
  BY DEF SaveSubscription, Done, Goes, Actor
<1>2. e \in Record /\ e.status = "pending_payment"
  BY <1>1 DEF TypeInv, RequestOK, Record
<1>3. req'[t] = Idle /\ Moves(t)
  BY <1>1, OthersStay DEF Moves
<1>4. calm /\ OnlyOne' /\ \A x \in Actor \ {t} : UpToDate(x)'
  BY <1>1, <1>3, CalmMoves
<1>5. UpToDate(t)'
  BY <1>3 DEF UpToDate, Idle, Op
<1>6. MayAsk(e.what)
  BY <1>1, <1>4 DEF CalmInv, UpToDate
<1> HIDE DEF e
<1>7. /\ Len(row') = Len(row) + 1 /\ row'[Len(row) + 1] = e
      /\ \A i \in Id : row'[i] = row[i]
  BY <1>1, <1>2, RowInserted
<1>8. Len(row) \in Nat
  BY DEF TypeInv, RowsOK
<1>9. \A i \in Id' : i \in Id \/ i = Len(row) + 1
  BY <1>7, <1>8 DEF Id
<1>10. OnePending'
  BY <1>2, <1>4, <1>6, <1>7, <1>9 DEF CalmInv, OnePending, MayAsk
<1>11. \A i \in Id' : Settled(i)'
  BY <1>2, <1>4, <1>7, <1>9 DEF CalmInv, Settled
<1>12. QED
  BY <1>4, <1>5, <1>10, <1>11 DEF CalmInv

\* a vendor's request for a slot,
LEMMA CalmAskForSlot ==
    ASSUME TypeInv, CalmInv, calm', NEW t \in Tab, NEW w \in Window,
           NEW free \in BOOLEAN, AskForSlot(t, w, free)
    PROVE  CalmInv'
<1>1. /\ t \in Actor /\ Begins(t) /\ UNCHANGED req /\ Len(row) < MaxRows
      /\ row' = Append(row, NewSlot(w, free))
  BY DEF AskForSlot, Actor
<1>2. Moves(t) /\ req'[t].at = "idle"
  BY <1>1 DEF Moves, Begins
<1>3. UpToDate(t)'
  BY <1>2 DEF UpToDate, Op
<1>4. QED
  BY <1>1, <1>2, <1>3, CalmMoves, CalmInsert DEF CalmInv

\* the commits of an administrator's own slot,
LEMMA CalmCreateSlot ==
    ASSUME TypeInv, CalmInv, calm', NEW a \in Admin, NEW w \in Window,
           NEW free \in BOOLEAN, CreateSlot(a, w, free)
    PROVE  CalmInv'
<1> DEFINE r == [Idle EXCEPT !.at = "assigning", !.id = Len(row) + 1,
                             !.old = NewSlot(w, free)]
<1>1. r.at = "assigning" /\ r.id = Len(row) + 1 /\ r.old = NewSlot(w, free)
  BY DEF Idle
<1>2. /\ a \in Actor /\ Begins(a) /\ Goes(a, r) /\ Len(row) < MaxRows
      /\ row' = Append(row, NewSlot(w, free))
  BY DEF CreateSlot, Actor
<1> HIDE DEF r
<1>3. Moves(a) /\ req'[a] = r
  BY <1>2, OthersStay DEF Moves
<1>4. calm
  BY <1>2, <1>3, CalmMoves
<1>5. /\ OnePending' /\ \A i \in Id' : Settled(i)'
      /\ row'[Len(row) + 1] = NewSlot(w, free)
      /\ row'[Len(row) + 1].status = "requested"
  BY <1>2, <1>4, CalmInsert
<1>6. UpToDate(a)'
  BY <1>1, <1>3, <1>5 DEF UpToDate, Op
<1>7. QED
  BY <1>2, <1>3, <1>5, <1>6, CalmMoves DEF CalmInv

\* the second,
LEMMA CalmAssignSlot ==
    ASSUME TypeInv, CalmInv, calm', NEW a \in Admin, AssignSlot(a)
    PROVE  CalmInv'
<1> DEFINE i == req[a].id
           r == [req[a] EXCEPT !.at = "assigned", !.old = row'[i]]
<1>1. /\ a \in Actor /\ req[a] \in Request /\ req[a].at = "assigning"
      /\ Goes(a, r) /\ UNCHANGED <<orderly, calm>>
  BY DEF AssignSlot, TypeInv, Actor
<1>2. r.at = "assigned" /\ r.id = i /\ r.old = row'[i]
  BY <1>1 DEF Request
<1> HIDE DEF r
<1>3. Moves(a) /\ req'[a] = r
  BY <1>1, OthersStay DEF Moves
<1>4. calm /\ UpToDate(a)
  BY <1>1, <1>3, CalmMoves DEF CalmInv
<1>5. /\ Len(row') = Len(row) /\ i \in Id
      /\ \A j \in Id \ {i} : row'[j] = row[j]
      /\ \A j \in Id : row'[j].status = row[j].status
  BY SlotAssigned
<1>6. row'[i].status = "requested" /\ Id' = Id
  BY <1>1, <1>4, <1>5 DEF UpToDate, Id
<1> HIDE DEF i
<1>7. OnePending' /\ \A j \in Id' : Settled(j)'
  BY <1>4, <1>5, <1>6, RowsCalm
<1>8. UpToDate(a)'
  BY <1>2, <1>3 DEF UpToDate, Op
<1>9. QED
  BY <1>1, <1>3, <1>7, <1>8, CalmMoves DEF CalmInv

\* and the check before the third,
LEMMA CalmReadForAssigned ==
    ASSUME TypeInv, CalmInv, calm', NEW a \in Admin, ReadForAssigned(a)
    PROVE  CalmInv'
<1> DEFINE r == [req[a] EXCEPT !.at = "approve"]
<1>1. /\ a \in Actor /\ req[a] \in Request /\ req[a].at = "assigned"
      /\ UNCHANGED <<row, orderly, calm>> /\ (Goes(a, r) \/ Goes(a, Idle))
  BY DEF ReadForAssigned, TypeInv, Actor, Goes, Done
<1>2. r.at = "approve" /\ r.id = req[a].id /\ r.old = req[a].old
  BY <1>1 DEF Request
<1> HIDE DEF r
<1>3. Moves(a) /\ (req'[a] = r \/ req'[a] = Idle)
  BY <1>1, OthersStay DEF Moves
<1>4. calm /\ UpToDate(a)
  BY <1>1, <1>3, CalmMoves DEF CalmInv
<1>5. UpToDate(a)'
  BY <1>1, <1>2, <1>3, <1>4 DEF UpToDate, Op, Idle
<1>6. QED
  BY <1>1, <1>3, <1>4, <1>5, CalmMoves, RowsCalm DEF CalmInv, Id

\* a decision that is read for,
LEMMA CalmReadForDecision ==
    ASSUME TypeInv, CalmInv, calm', NEW a \in Actor, NEW op \in Op,
           NEW i \in Id, ReadForDecision(a, op, i)
    PROVE  CalmInv'
<1> DEFINE r == Deciding(op, i)
<1>1. /\ row' = row /\ Goes(a, r) /\ Begins(a)
      /\ (op = "proof" => TakesProof(row[i]))
  BY DEF ReadForDecision, Allowed
<1>2. r.at = op /\ r.id = i /\ r.old = row[i]
  BY DecidingFields
<1> HIDE DEF r
<1>3. Moves(a) /\ req'[a] = r
  BY <1>1, OthersStay DEF Moves
<1>4. UpToDate(a)'
  BY <1>1, <1>2, <1>3 DEF UpToDate, TakesProof, Op
<1>5. QED
  BY <1>1, <1>3, <1>4, CalmMoves, RowsCalm DEF CalmInv, Id

\* A decision on a row that is as it was loaded leaves what the handler made
\* of it.
LEMMA CalmSaveDecision ==
    ASSUME TypeInv, CalmInv, calm', NEW a \in Actor, SaveDecision(a)
    PROVE  CalmInv'
<1> DEFINE r == req[a]
           new == Decided(r.at, r.old)
<1>1. /\ Goes(a, Idle) /\ r.at \in Op /\ UNCHANGED <<orderly, calm>>
      /\ r.old \in Record
  BY DEF SaveDecision, Done, Goes, TypeInv, RequestOK
<1>2. Moves(a) /\ req'[a] = Idle
  BY <1>1, OthersStay DEF Moves, Op
<1>3. /\ calm /\ r.old = row[r.id]
      /\ (r.at = "proof" => TakesProof(row[r.id]))
  BY <1>1, <1>2, CalmMoves DEF CalmInv, UpToDate
<1>4. /\ RowsStay /\ Len(row') = Len(row) /\ r.id \in Id
      /\ row'[r.id].status = Written(new.status, r.old.status, row[r.id].status)
      /\ row'[r.id].pay = Written(new.pay, r.old.pay, row[r.id].pay)
      /\ \A i \in Id \ {r.id} : \/ row'[i].status = "cancelled"
                                \/ row'[i] = row[i]
  BY RowsDecided
<1>5. /\ row'[r.id].status = new.status /\ row'[r.id].pay = new.pay
      /\ row'[r.id].free = row[r.id].free /\ Id' = Id
      /\ \A i \in Id : row'[i].what = row[i].what
  BY <1>3, <1>4 DEF Written, RowsStay, Id
<1>6. /\ new.status = "active" => new.pay = "verified"
      /\ new.status = "approved" =>
            new.pay = IF r.old.free THEN "not_required" ELSE "verified"
      /\ new.status = "pending_payment" => r.old.status = "pending_payment"
  <2>1. CASE r.at = "proof"
    <3>1. r.old.status \in {"pending_payment", "requested", "rejected"}
      BY <1>3, <2>1 DEF TakesProof
    <3>2. new.status = r.old.status
      BY <1>1, <2>1 DEF Decided, Record, Sub, Slot
    <3>3. QED
      BY <3>1, <3>2
  <2>2. CASE r.at = "approve"
    BY <1>1, <2>2 DEF Decided, Granted, Record, Sub, Slot
  <2>3. CASE r.at = "reject"
    BY <1>1, <2>3 DEF Decided, Record, Sub, Slot
  <2>4. CASE r.at = "cancel"
    BY <1>1, <2>4 DEF Decided, Record, Sub, Slot
  <2>5. QED
    BY <1>1, <2>1, <2>2, <2>3, <2>4 DEF Op
<1> HIDE DEF new
<1>7. ASSUME NEW i \in Id' PROVE Settled(i)'
  <2>1. CASE i = r.id
    BY <1>3, <1>5, <1>6, <2>1 DEF Settled
  <2>2. CASE i # r.id
    BY <1>3, <1>4, <1>5, <2>2 DEF Settled, CalmInv
  <2>3. QED
    BY <2>1, <2>2
<1>8. \A i \in Id' : row'[i].status = "pending_payment" =>
                        row[i].status = "pending_payment"
  BY <1>3, <1>4, <1>5, <1>6
<1>9. OnePending'
  BY <1>3, <1>5, <1>8 DEF CalmInv, OnePending
<1>10. UpToDate(a)'
  BY <1>2 DEF UpToDate, Idle, Op
<1>11. QED
  BY <1>2, <1>7, <1>9, <1>10, CalmMoves DEF CalmInv

\* and a request that dies.
LEMMA CalmDies ==
    ASSUME TypeInv, CalmInv, calm', NEW a \in Actor, Dies(a)
    PROVE  CalmInv'
<1>1. Goes(a, Idle) /\ req[a].at # "idle" /\ UNCHANGED <<row, orderly, calm>>
  BY DEF Dies, Done, Goes
<1>2. Moves(a) /\ req'[a] = Idle
  BY <1>1, OthersStay DEF Moves
<1>3. UpToDate(a)'
  BY <1>2 DEF UpToDate, Idle, Op
<1>4. QED
  BY <1>1, <1>2, <1>3, CalmMoves, RowsCalm DEF CalmInv, Id

\* The calm invariant holds at the start.
LEMMA CalmInit == Init => CalmInv
<1> SUFFICES ASSUME Init PROVE CalmInv
  OBVIOUS
<1>1. Id = {} /\ \A a \in Actor : req[a].at = "idle"
  BY DEF Init, Id, Idle
<1>2. QED
  BY <1>1 DEF CalmInv, OnlyOne, OnePending, UpToDate, Op

\* Every step keeps the calm invariant.
LEMMA CalmNext == TypeInv /\ CalmInv /\ [Next]_vars => CalmInv'
<1> SUFFICES ASSUME TypeInv, CalmInv, [Next]_vars, calm' PROVE CalmInv'
  BY DEF CalmInv
<1>1. ASSUME NEW t \in Tab, TabNext(t) PROVE CalmInv'
  BY <1>1, CalmReadForSubscription, CalmSaveSubscription, CalmAskForSlot
     DEF TabNext
<1>2. ASSUME NEW a \in Admin, AdminNext(a) PROVE CalmInv'
  BY <1>2, CalmCreateSlot, CalmAssignSlot, CalmReadForAssigned DEF AdminNext
<1>3. ASSUME NEW a \in Actor, NEW op \in Op, NEW i \in Id,
             ReadForDecision(a, op, i)
      PROVE  CalmInv'
  BY <1>3, CalmReadForDecision
<1>4. ASSUME NEW a \in Actor, SaveDecision(a) \/ Dies(a) PROVE CalmInv'
  BY <1>4, CalmSaveDecision, CalmDies
<1>5. CASE UNCHANGED vars
  BY <1>5 DEF vars, CalmInv, OnlyOne, OnePending, UpToDate, Settled, MayAsk, Id
<1>6. QED
  BY <1>1, <1>2, <1>3, <1>4, <1>5 DEF Next

\* The invariant for requests that do not overlap holds in every state.
LEMMA Calmness == Spec => []CalmInv
<1>1. QED
  BY TypeInit, TypeNext, CalmInit, CalmNext, PTL DEF Spec

\* What get_active_vendor_subscription and get_approved_live_slot_for_now are
\* asked for has its payment settled, unless requests overlap.
THEOREM GrantsAreSettled == Spec => []GrantedIsSettled
<1>1. CalmInv => GrantedIsSettled
  BY DEF CalmInv, Settled, GrantedIsSettled
<1>2. QED
  BY <1>1, Calmness, PTL

\* A vendor who clicks again is answered with the pending request, unless
\* requests overlap.
THEOREM AskedForOnce == Spec => []OnePendingPerPlan
<1>1. CalmInv => OnePendingPerPlan
  BY DEF CalmInv, OnePending, OnePendingPerPlan
<1>2. QED
  BY <1>1, Calmness, PTL
=============================================================================
