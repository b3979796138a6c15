------------------------------ MODULE LiveSlots ------------------------------
(***************************************************************************)
(* What one vendor has asked of the platform: subscriptions to a plan and  *)
(* live slots, with the payment proofs the vendor sends and the decisions  *)
(* admins take.  subscription_service.py and routes/subscriptions.py.      *)
(*                                                                         *)
(* The two tables have the same life, so they are kept in one sequence of  *)
(* rows.  A handler loads its rows in one step (Read...) and commits the   *)
(* columns it changed in a later one (Save...).  Requests of different     *)
(* vendors share nothing.                                                  *)
(***************************************************************************)
EXTENDS Integers, Sequences

CONSTANTS
    Tab,        \* the vendor's requests that can be in flight together
    Admin,      \* the admins' requests that can be in flight together
    Plan,       \* subscription plans
    FreePlan,   \* those that cost nothing
    Window,     \* intervals a slot is asked for
    None,
    MaxRows     \* bound: rows of both tables

ASSUME LiveSlotsAssumption ==
    /\ Window \subseteq [start : Int, end : Int]
    /\ FreePlan \subseteq Plan
    /\ MaxRows \in Nat
    /\ Tab \cap Admin = {} /\ Plan \cap Window = {}
    /\ None \notin Plan \cup Window \cup Int

VARIABLES
    row,      \* vendor_subscriptions and live_slots, by creation
    req,      \* the request each tab and admin has in flight
    orderly,  \* history: no two requests of admins have overlapped
    calm      \* history: no two requests have overlapped

vars == <<row, req, orderly, calm>>

Actor == Tab \cup Admin
Id == 1..Len(row)

Sub == [kind : {"sub"}, what : Plan, free : BOOLEAN,
        status : {"pending_payment", "active", "rejected", "cancelled"},
        pay : {"unpaid", "submitted", "verified", "rejected"}]

Slot == [kind : {"slot"}, what : Window, free : BOOLEAN,
         status : {"requested", "approved", "rejected", "cancelled"},
         pay : {"not_required", "unpaid", "submitted", "verified", "rejected"}]

\* What is decided about a row.
Op == {"proof", "approve", "reject", "cancel"}

\* `old` is the row as loaded, `others` the active subscriptions loaded.
Request == [at : {"idle", "asking", "assigning", "assigned"} \cup Op,
            id : Nat \cup {None}, old : Sub \cup Slot \cup {None},
            others : SUBSET Nat]

Idle == [at |-> "idle", id |-> None, old |-> None, others |-> {}]

Working(a) == req[a].at \in Op \cup {"assigning", "assigned"}

TypeOK ==
    /\ row \in Seq(Sub \cup Slot) /\ Len(row) <= MaxRows
    /\ orderly \in BOOLEAN /\ calm \in BOOLEAN
    /\ req \in [Actor -> Request]
    /\ \A a \in Actor :
          /\ req[a].at = "asking" => req[a].old \in Sub
          /\ Working(a) => /\ req[a].id \in Id /\ req[a].others \subseteq Id
                           /\ req[a].old \in Sub \cup Slot
                           /\ req[a].old.kind = row[req[a].id].kind

Init ==
    /\ row = <<>>
    /\ req = [a \in Actor |-> Idle]
    /\ orderly = TRUE
    /\ calm = TRUE

Begins(a) ==
    /\ req[a].at = "idle"
    /\ calm' = (calm /\ \A x \in Actor : req[x].at = "idle")
    /\ orderly' = (orderly /\ (a \in Admin =>
                                 \A x \in Admin : req[x].at = "idle"))

Goes(a, r) == req' = [req EXCEPT ![a] = r]
Done(a) == req' = [req EXCEPT ![a] = Idle]

\* A column after a COMMIT that set it to `new` on a row loaded as `loaded`.
Written(new, loaded, now) == IF new = loaded THEN now ELSE new

-----------------------------------------------------------------------------
(* Asking.                                                                 *)

\* Mutant: a request whose payment is being looked at is not found.
MayAskOncePaid(p) == \A i \in Id : ~ /\ row[i].what = p
                                     /\ row[i].pay = "unpaid"

\* request_vendor_subscription gives a request back that is still pending.
MayAsk(p) == \A i \in Id : ~ /\ row[i].what = p
                             /\ row[i].status = "pending_payment"

ReadForSubscription(t, p) ==
    /\ Begins(t) /\ MayAsk(p)
    /\ Goes(t, [Idle EXCEPT !.at = "asking", !.old =
                   [kind |-> "sub", what |-> p, free |-> p \in FreePlan,
                    status |-> "pending_payment",
                    pay |-> IF p \in FreePlan THEN "verified" ELSE "unpaid"]])
    /\ UNCHANGED row

SaveSubscription(t) ==
    /\ req[t].at = "asking" /\ Len(row) < MaxRows
    /\ row' = Append(row, req[t].old)
    /\ Done(t)
    /\ UNCHANGED <<orderly, calm>>

NewSlot(w, free) == [kind |-> "slot", what |-> w, free |-> free,
                     status |-> "requested",
                     pay |-> IF free THEN "not_required" ELSE "unpaid"]

\* request_live_slot decides on nothing it reads.
AskForSlot(t, w, free) ==
    /\ Begins(t) /\ Len(row) < MaxRows /\ w.start < w.end
    /\ row' = Append(row, NewSlot(w, free))
    /\ UNCHANGED req

\* create_admin_live_slot: a request of its own commit, a second commit that
\* makes it the admin's, and then the approval, which may be refused.
CreateSlot(a, w, free) ==
    /\ Begins(a) /\ Len(row) < MaxRows /\ w.start < w.end
    /\ row' = Append(row, NewSlot(w, free))
    /\ Goes(a, [Idle EXCEPT !.at = "assigning", !.id = Len(row) + 1,
                            !.old = NewSlot(w, free)])

AssignSlot(a) ==
    LET r == req[a]
    IN  /\ r.at = "assigning"
        /\ row' = [row EXCEPT ![r.id].pay =
                      Written("not_required", r.old.pay, @)]
        /\ Goes(a, [r EXCEPT !.at = "assigned", !.old = row'[r.id]])
        /\ UNCHANGED <<orderly, calm>>

-----------------------------------------------------------------------------
(* Proofs and decisions.                                                   *)

\* Mutant: proof may be sent for a slot that has been approved.
TakesProofAlways(r) == r.status \notin {"active", "cancelled"}

TakesProof(r) ==
    r.status \in IF r.kind = "sub" THEN {"pending_payment"}
                                   ELSE {"requested", "rejected"}

Overlap(v, w) == v.start < w.end /\ v.end > w.start

\* Mutant: only the slots that were asked for earlier are compared.
IsFreeOfEarlier(i) ==
    \A j \in 1..(i - 1) :
        row[j].status = "approved" => ~Overlap(row[j].what, row[i].what)

\* check_slot_overlap with the slot itself excluded.
IsFree(i) == \A j \in Id \ {i} :
                row[j].status = "approved" => ~Overlap(row[j].what, row[i].what)

\* Mutant: the subscription that is renewed counts as the active one.
OtherActiveOfPlan(i) == {j \in Id \ {i} : /\ row[j].status = "active"
                                          /\ row[j].what = row[i].what}

OtherActive(i) == {j \in Id \ {i} : row[j].status = "active"}

\* Whether the endpoint takes op on row i from a vendor or an admin; the
\* admins' endpoints do not look at the status.
Allowed(a, op, i) ==
    LET r == row[i]
    IN  CASE op = "proof"   -> a \in Tab /\ TakesProof(r)
          [] op = "approve" -> a \in Admin /\ (r.kind = "slot" => IsFree(i))
          [] op = "reject"  -> a \in Admin
          [] op = "cancel"  -> \/ a \in Admin
                               \/ /\ r.kind = "slot"
                                  /\ r.status \in {"requested", "rejected"}

Deciding(op, i) == [at |-> op, id |-> i, old |-> row[i],
                    others |-> IF op = "approve" /\ row[i].kind = "sub"
                                 THEN OtherActive(i) ELSE {}]

ReadForDecision(a, op, i) ==
    /\ Begins(a) /\ Allowed(a, op, i)
    /\ Goes(a, Deciding(op, i))
    /\ UNCHANGED row

\* The last part of create_admin_live_slot, on the row it has refreshed.
ReadForAssigned(a) ==
    /\ req[a].at = "assigned"
    /\ IF IsFree(req[a].id) THEN Goes(a, [req[a] EXCEPT !.at = "approve"])
                            ELSE Done(a)
    /\ UNCHANGED <<row, orderly, calm>>

\* Mutant: both tables have the slots' words.
GrantedAlike(r) == "approved"

Granted(r) == IF r.kind = "sub" THEN "active" ELSE "approved"

\* The row the handler makes of the one it has loaded.
Decided(op, r) ==
    CASE op = "proof"   -> [r EXCEPT !.pay = "submitted"]
      [] op = "approve" -> [r EXCEPT !.status = Granted(r), !.pay =
                              IF r.kind = "slot" /\ r.free
                                THEN "not_required" ELSE "verified"]
      [] op = "reject"  -> [r EXCEPT !.status = "rejected", !.pay = "rejected"]
      [] op = "cancel"  -> [r EXCEPT !.status = "cancelled"]

SaveDecision(a) ==
    LET r == req[a]
        new == Decided(r.at, r.old)
    IN  /\ r.at \in Op
        /\ row' = [i \in Id |->
              IF i = r.id
                THEN [row[i] EXCEPT
                        !.status = Written(new.status, r.old.status, @),
                        !.pay = Written(new.pay, r.old.pay, @)]
              ELSE IF i \in r.others THEN [row[i] EXCEPT !.status = "cancelled"]
              ELSE row[i]]
        /\ Done(a)
        /\ UNCHANGED <<orderly, calm>>

\* A request dies before its commit.
Dies(a) ==
    /\ req[a].at # "idle" /\ Done(a)
    /\ UNCHANGED <<row, orderly, calm>>

TabNext(t) ==
    \/ \E p \in Plan : ReadForSubscription(t, p)
    \/ SaveSubscription(t)
    \/ \E w \in Window, free \in BOOLEAN : AskForSlot(t, w, free)

AdminNext(a) ==
    \/ \E w \in Window, free \in BOOLEAN : CreateSlot(a, w, free)
    \/ AssignSlot(a) \/ ReadForAssigned(a)

Next ==
    \/ \E t \in Tab : TabNext(t)
    \/ \E a \in Admin : AdminNext(a)
    \/ \E a \in Actor : \/ \E op \in Op, i \in Id : ReadForDecision(a, op, i)
                        \/ SaveDecision(a) \/ Dies(a)

Spec == Init /\ [][Next]_vars

-----------------------------------------------------------------------------
(* Properties.                                                             *)

\* The vendor never has two approved slots at the same time, whatever the
\* vendor does meanwhile, as long as no two admins' requests have
\* overlapped: approve_live_slot checks and commits apart.
SlotsDisjoint ==
    orderly => \A i, j \in Id : (/\ row[i].status = "approved"
                                 /\ row[j].status = "approved"
                                 /\ Overlap(row[i].what, row[j].what)) => i = j

\* A subscription replaces the one before it: approve_vendor_subscription
\* cancels every other that is active.  With the same proviso.
OneActive ==
    orderly => \A i, j \in Id : (/\ row[i].status = "active"
                                 /\ row[j].status = "active") => i = j

\* What has been granted is paid for: get_active_vendor_subscription and
\* get_approved_live_slot_for_now look at the payment again and would not
\* find it otherwise, and the vendor could send no other proof.  Holds as
\* long as no requests have overlapped: a proof may be saved after the
\* approval.
GrantedIsSettled ==
    calm => \A i \in Id :
        /\ row[i].status = "active" => row[i].pay = "verified"
        /\ row[i].status = "approved" =>
              row[i].pay = IF row[i].free THEN "not_required" ELSE "verified"

\* A plan is asked for once at a time, as long as no requests have
\* overlapped: the vendor's click is answered with the request that is
\* pending.
OnePendingPerPlan ==
    calm => \A i, j \in Id : (/\ row[i].status = "pending_payment"
                              /\ row[j].status = "pending_payment"
                              /\ row[i].what = row[j].what) => i = j
=============================================================================
