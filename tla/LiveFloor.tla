------------------------------ MODULE LiveFloor ------------------------------
(***************************************************************************)
(* The exhibition floor: an exhibition's life from draft to ended, vendors *)
(* who ask to take part and get a stall, and the live sessions they run    *)
(* there.  routes/admin.py, vendor.py, live_sessions.py, and the           *)
(* exhibition helpers of db_data_service.py.                               *)
(*                                                                         *)
(* No scheduler closes anything: an exhibition past its end and a session  *)
(* left on air are put right by the next request that looks at them.       *)
(* A handler reads in one step (Read...) and commits in a later one        *)
(* (Save...); handlers without a decision in between are one step.         *)
(* Times are kept as far as they decide something: an exhibition is        *)
(* before, during or after its schedule, a session is older than           *)
(* live_session_stale_minutes or not.                                      *)
(***************************************************************************)
EXTENDS Integers, Sequences, Recency

CONSTANTS
    Exhibition, Stall, Vendor,
    Admin,            \* admin pages with a request in flight
    ExhibitionOf,     \* [Stall -> Exhibition]
    None,
    LifecycleOp,      \* endpoints admins use: "start", "pause", ...
    PatchStatus,      \* statuses an admin may set with PATCH
    StallOp,          \* "assign", "remove"
    MaxSessions       \* bound: live_sessions rows

Status == {"draft", "scheduled", "live", "paused", "ended", "cancelled"}
Phase == {"before", "during", "after"}
RequestStatus == {"pending", "accepted", "denied", "withdrawn"}

ASSUME LiveFloorAssumption ==
    /\ ExhibitionOf \in [Stall -> Exhibition]
    /\ LifecycleOp \subseteq {"start", "pause", "resume", "end", "cancel"}
    /\ PatchStatus \subseteq Status
    /\ StallOp \subseteq {"assign", "remove"}
    /\ MaxSessions \in Nat
    /\ Vendor \cap Admin = {}
    /\ None \notin Vendor \cup Stall \cup Exhibition \cup Int \cup Status
                   \cup RequestStatus

VARIABLES
    status,    \* exhibitions.status
    phase,     \* now against exhibitions.start_at and end_at
    asked,     \* vendor_exhibition_requests.status, by exhibition and vendor
    holder,    \* stalls.vendor_id
    session,   \* live_sessions, in the order of creation
    started,   \* their indices by started_at, latest last
    req,       \* the request each vendor and admin has in flight
    calm       \* history: no two of these requests have overlapped

vars == <<status, phase, asked, holder, session, started, req, calm>>

Actor == Vendor \cup Admin
Id == 1..Len(session)

\* `old` is over the limit.
Row == [stall : Stall, vendor : Vendor,
        status : {"live", "paused", "ended"}, old : BOOLEAN]

\* `loaded` holds the columns a handler has read, `ids` the sessions.
Idle == [at |-> "idle", e |-> None, s |-> None, v |-> None,
         loaded |-> None, ids |-> {}]

TypeOK ==
    /\ status \in [Exhibition -> Status]
    /\ phase \in [Exhibition -> Phase]
    /\ asked \in [Exhibition -> [Vendor -> RequestStatus \cup {None}]]
    /\ holder \in [Stall -> Vendor \cup {None}]
    /\ session \in Seq(Row) /\ Len(session) <= MaxSessions
    /\ started \in Seq(Id) /\ Len(started) = Len(session)
    /\ calm \in BOOLEAN
    /\ \A a \in Actor :
          /\ req[a].at \in {"idle", "going live", "leaving", "assigning"}
                             \cup LifecycleOp
          /\ req[a].ids \subseteq Id

Init ==
    /\ status = [e \in Exhibition |-> "scheduled"]
    /\ phase = [e \in Exhibition |-> "before"]
    /\ asked = [e \in Exhibition |-> [v \in Vendor |-> None]]
    /\ holder = [s \in Stall |-> None]
    /\ session = <<>>
    /\ started = <<>>
    /\ req = [a \in Actor |-> Idle]
    /\ calm = TRUE

Begins(a) ==
    /\ req[a].at = "idle"
    /\ calm' = (calm /\ \A x \in Actor : req[x].at = "idle")

Request(a, r) == req' = [req EXCEPT ![a] = r]
Done(a) == req' = [req EXCEPT ![a] = Idle] /\ UNCHANGED calm

\* A column after a COMMIT that set it to `new` on a row loaded as `loaded`.
Written(new, loaded, now) == IF new = loaded THEN now ELSE new

StallsOf(e) == {s \in Stall : ExhibitionOf[s] = e}

\* The sessions of an exhibition's stalls with a status in S.
SessionsAt(e, S) == {i \in Id : /\ session[i].stall \in StallsOf(e)
                                /\ session[i].status \in S}

\* Sessions ss with those in ids set to st.
Turned(ss, ids, st) ==
    [i \in DOMAIN ss |-> IF i \in ids THEN [ss[i] EXCEPT !.status = st]
                                      ELSE ss[i]]

-----------------------------------------------------------------------------
(* status_payload and sync_exhibition_completion.                          *)

EffectiveOf(st, ph) ==
    IF st \notin {"draft", "ended", "cancelled"} /\ ph = "after" THEN "ended"
    ELSE IF st = "scheduled" /\ ph = "during" THEN "live"
    ELSE st

Effective(e) == EffectiveOf(status[e], phase[e])

\* Is a stored status overtaken by the end of the schedule?
Overdue(st, ph) == EffectiveOf(st, ph) = "ended"
                     /\ st \notin {"ended", "cancelled", "draft"}

\* Every answer with an exhibition in it syncs: st, ph and ss are the
\* exhibition and the sessions as the handler has left them.
SyncedStatus(st, ph) == IF Overdue(st, ph) THEN "ended" ELSE st

SyncedSessions(e, st, ph, ss) ==
    IF Overdue(st, ph)
      THEN Turned(ss, {i \in DOMAIN ss : /\ ss[i].stall \in StallsOf(e)
                                         /\ ss[i].status = "live"}, "ended")
      ELSE ss

\* A handler leaves exhibition e with status st, and the sessions ss.
Answer(e, st, ss) ==
    /\ status' = [status EXCEPT ![e] = SyncedStatus(st, phase'[e])]
    /\ session' = SyncedSessions(e, st, phase'[e], ss)

\* Anybody reads the exhibition.
Look(e) ==
    /\ Overdue(status[e], phase[e])
    /\ UNCHANGED phase
    /\ Answer(e, status[e], session)
    /\ UNCHANGED <<asked, holder, started, req, calm>>

-----------------------------------------------------------------------------
(* The admin's lifecycle endpoints.                                        *)

From(op) == CASE op = "start"  -> Status \ {"cancelled", "ended", "live"}
              [] op = "pause"  -> {"live"}
              [] op = "resume" -> {"paused"}
              [] op = "end"    -> Status \ {"ended", "cancelled"}
              [] op = "cancel" -> Status \ {"ended"}

To(op) == CASE op \in {"start", "resume"} -> "live"
            [] op = "pause"  -> "paused"
            [] op = "end"    -> "ended"
            [] op = "cancel" -> "cancelled"

\* Which sessions the endpoint loads, and then what becomes of them.
\* Mutant: resume puts every session of the exhibition on air again.
TakesAll(op) == CASE op = "start" -> {}
                  [] op = "pause" -> {"live"}
                  [] op = "resume" -> {"paused", "ended"}
                  [] op \in {"end", "cancel"} -> {"live", "paused"}

Takes(op) == CASE op = "start" -> {}
               [] op = "pause" -> {"live"}
               [] op = "resume" -> {"paused"}
               [] op \in {"end", "cancel"} -> {"live", "paused"}

\* Mutant: sessions get the status of their exhibition.
MakesSame(op) == To(op)

Makes(op) == CASE op = "pause" -> "paused"
               [] op \in {"start", "resume"} -> "live"
               [] op \in {"end", "cancel"} -> "ended"

ReadForLifecycle(a, op, e) ==
    /\ Begins(a) /\ status[e] \in From(op)
    /\ Request(a, [Idle EXCEPT !.at = op, !.e = e, !.loaded = status[e],
                               !.ids = SessionsAt(e, Takes(op))])
    /\ UNCHANGED <<status, phase, asked, holder, session, started>>

SaveLifecycle(a) ==
    LET r == req[a]
    IN  /\ r.at \in LifecycleOp
        /\ Done(a) /\ UNCHANGED phase
        /\ Answer(r.e, Written(To(r.at), r.loaded, status[r.e]),
                  Turned(session, r.ids, Makes(r.at)))
        /\ UNCHANGED <<asked, holder, started>>

\* schedule_admin_exhibition: new dates, whatever the status was.
Schedule(a, e) ==
    /\ Begins(a)
    /\ \E ph \in Phase : phase' = [phase EXCEPT ![e] = ph]
    /\ Answer(e, "scheduled", session)
    /\ UNCHANGED <<asked, holder, started, req>>

\* update_admin_exhibition: a status, dates or both; sessions are not touched.
PatchExhibition(a, e) ==
    /\ Begins(a)
    /\ \E ph \in Phase : phase' = [phase EXCEPT ![e] = ph]
    /\ \E st \in PatchStatus \cup {status[e]} : Answer(e, st, session)
    /\ UNCHANGED <<asked, holder, started, req>>

-----------------------------------------------------------------------------
(* Participation and stalls.                                               *)

\* request_join_vendor_exhibition; the exhibition is synced first.
RequestJoin(v, e) ==
    /\ Begins(v)
    /\ Effective(e) \notin {"ended", "draft", "cancelled"}
    /\ asked[e][v] \notin {"pending", "accepted"}
    /\ asked' = [asked EXCEPT ![e][v] = "pending"]
    /\ UNCHANGED <<status, phase, holder, session, started, req>>

\* Accept or deny; the status the request has is not looked at.
Review(a, e, v) ==
    /\ Begins(a) /\ asked[e][v] # None
    /\ \E verdict \in {"accepted", "denied"} :
          asked' = [asked EXCEPT ![e][v] = verdict]
    /\ UNCHANGED <<status, phase, holder, session, started, req>>

\* Mutant: the vendor's other stalls are not looked at.
AssignableTwice(v, s) == asked[ExhibitionOf[s]][v] = "accepted"

Assignable(v, s) ==
    /\ asked[ExhibitionOf[s]][v] = "accepted"
    /\ \A x \in StallsOf(ExhibitionOf[s]) \ {s} : holder[x] # v

ReadForAssign(a, v, s) ==
    /\ "assign" \in StallOp /\ Begins(a) /\ Assignable(v, s)
    /\ Request(a, [Idle EXCEPT !.at = "assigning", !.s = s, !.v = v,
                               !.loaded = holder[s]])
    /\ UNCHANGED <<status, phase, asked, holder, session, started>>

\* Nothing is done about the previous holder or a session on air.
SaveAssign(a) ==
    LET r == req[a]
    IN  /\ r.at = "assigning"
        /\ holder' = [holder EXCEPT ![r.s] = Written(r.v, r.loaded, @)]
        /\ Done(a)
        /\ UNCHANGED <<status, phase, asked, session, started>>

RemoveVendor(a, s) ==
    /\ "remove" \in StallOp /\ Begins(a)
    /\ holder' = [holder EXCEPT ![s] = None]
    /\ UNCHANGED <<status, phase, asked, session, started, req>>

\* leave_vendor_exhibition: one stall is looked up, and the sessions on it.
ReadForLeave(v, e) ==
    LET mine == {s \in StallsOf(e) : holder[s] = v}
    IN  /\ Begins(v) /\ asked[e][v] \in {"pending", "accepted"}
        /\ \E s \in IF mine = {} THEN {None} ELSE mine :
              Request(v, [Idle EXCEPT !.at = "leaving", !.e = e, !.s = s,
                    !.ids = {i \in SessionsAt(e, {"live"}) :
                                session[i].stall = s}])
        /\ UNCHANGED <<status, phase, asked, holder, session, started>>

SaveLeave(v) ==
    LET r == req[v]
    IN  /\ r.at = "leaving"
        /\ asked' = [asked EXCEPT ![r.e][v] = "withdrawn"]
        /\ holder' = [s \in Stall |-> IF s = r.s THEN None ELSE holder[s]]
        /\ session' = Turned(session, r.ids, "ended")
        /\ Done(v)
        /\ UNCHANGED <<status, phase, started>>

-----------------------------------------------------------------------------
(* Live sessions.                                                          *)

\* The one of ids that started last, None if there is none.
LastOf(ids) == IF ids = {} THEN None ELSE Latest(started, ids)

LiveOn(s) == LastOf({i \in Id : session[i].stall = s
                                  /\ session[i].status = "live"})
LiveOf(v) == LastOf({i \in Id : session[i].vendor = v
                                  /\ session[i].status = "live"})

\* Mutant: only the end of the exhibition closes a session.
HasToCloseAtEnd(i) == \/ session[i].old
                      \/ Effective(ExhibitionOf[session[i].stall]) = "ended"

\* close_session_if_exhibition_not_live, for a session that is live.
HasToClose(i) == \/ session[i].old
                 \/ Effective(ExhibitionOf[session[i].stall]) # "live"

\* A viewer's page reads the room.
Poll(s) ==
    /\ LiveOn(s) # None /\ HasToClose(LiveOn(s))
    /\ session' = Turned(session, {LiveOn(s)}, "ended")
    /\ UNCHANGED <<status, phase, asked, holder, started, req, calm>>

\* get_active_live_session_for_vendor closes what it finds if it has to.
FreeToStart(v, s) ==
    LiveOf(v) # None => \/ HasToClose(LiveOf(v))
                        \/ session[LiveOf(v)].stall = s

\* The start is refused for another reason after that.
StartRefused(v) ==
    /\ Begins(v) /\ \E s \in Stall : holder[s] = v
    /\ LiveOf(v) # None /\ HasToClose(LiveOf(v))
    /\ session' = Turned(session, {LiveOf(v)}, "ended")
    /\ UNCHANGED <<status, phase, asked, holder, started, req>>

\* Mutant: only a session on air is reused.
RowToReuseOnAir(s) ==
    LastOf({i \in Id : session[i].stall = s /\ session[i].status = "live"})

RowToReuse(s) == LastOf({i \in Id : session[i].stall = s})

\* start_vendor_live and start_live_session_for_db up to the assignments.
ReadForStart(v, s) ==
    LET row == RowToReuse(s)
        closing == IF LiveOf(v) # None /\ HasToClose(LiveOf(v))
                     THEN {LiveOf(v)} ELSE {}
    IN  /\ Begins(v) /\ holder[s] = v
        /\ FreeToStart(v, s)
        /\ Effective(ExhibitionOf[s]) = "live"
        /\ row = None => Len(session) < MaxSessions
        /\ session' = Turned(session, closing, "ended")
        /\ Request(v, [Idle EXCEPT !.at = "going live", !.s = s,
              !.ids = IF row = None THEN {} ELSE {row},
              !.loaded = IF row = None THEN None ELSE session'[row]])
        /\ UNCHANGED <<status, phase, asked, holder, started>>

\* The stall's row goes on air for v; `old` is the row as it was loaded.
Restarted(row, v, old) ==
    [row EXCEPT !.status = Written("live", old.status, row.status),
                !.vendor = Written(v, old.vendor, row.vendor), !.old = FALSE]

SaveStart(v) ==
    LET r == req[v]
    IN  /\ r.at = "going live"
        /\ \/ \E i \in r.ids :
                /\ session' = [session EXCEPT ![i] =
                                 Restarted(session[i], v, r.loaded)]
                /\ started' = Touched(started, i)
           \/ /\ r.ids = {} /\ Len(session) < MaxSessions
              /\ session' = Append(session, [stall |-> r.s, vendor |-> v,
                                           status |-> "live", old |-> FALSE])
              /\ started' = Append(started, Len(session) + 1)
        /\ Done(v)
        /\ UNCHANGED <<status, phase, asked, holder>>

\* end_vendor_live finds the vendor's session, and ends the latest row of
\* the stall that one is on.
EndLive(v) ==
    /\ Begins(v) /\ LiveOf(v) # None
    /\ session' = Turned(session, {RowToReuse(session[LiveOf(v)].stall)},
                         "ended")
    /\ UNCHANGED <<status, phase, asked, holder, started, req>>

-----------------------------------------------------------------------------
(* Time, and requests that die before their commit.                        *)

TimePasses(e) ==
    /\ phase[e] # "after"
    /\ phase' = [phase EXCEPT ![e] = IF @ = "before" THEN "during"
                                                     ELSE "after"]
    /\ UNCHANGED <<status, asked, holder, session, started, req, calm>>

GrowsOld(i) ==
    /\ session[i].status # "ended" /\ ~session[i].old
    /\ session' = [session EXCEPT ![i].old = TRUE]
    /\ UNCHANGED <<status, phase, asked, holder, started, req, calm>>

Dies(a) ==
    /\ req[a].at # "idle" /\ Done(a)
    /\ UNCHANGED <<status, phase, asked, holder, session, started>>

AdminNext(a) ==
    \/ \E op \in LifecycleOp, e \in Exhibition : ReadForLifecycle(a, op, e)
    \/ SaveLifecycle(a)
    \/ \E e \in Exhibition : Schedule(a, e) \/ PatchExhibition(a, e)
    \/ \E e \in Exhibition, v \in Vendor : Review(a, e, v)
    \/ \E v \in Vendor, s \in Stall : ReadForAssign(a, v, s)
    \/ SaveAssign(a)
    \/ \E s \in Stall : RemoveVendor(a, s)

VendorNext(v) ==
    \/ \E e \in Exhibition : RequestJoin(v, e) \/ ReadForLeave(v, e)
    \/ SaveLeave(v)
    \/ \E s \in Stall : ReadForStart(v, s)
    \/ StartRefused(v)
    \/ SaveStart(v) \/ EndLive(v)

Next ==
    \/ \E a \in Admin : AdminNext(a)
    \/ \E v \in Vendor : VendorNext(v)
    \/ \E e \in Exhibition : Look(e) \/ TimePasses(e)
    \/ \E s \in Stall : Poll(s)
    \/ \E i \in Id : GrowsOld(i)
    \/ \E a \in Actor : Dies(a)

Spec == Init /\ [][Next]_vars

\* The viewers of a room poll it every two seconds.
FairSpec == Spec /\ \A s \in Stall : WF_vars(Poll(s))

-----------------------------------------------------------------------------
(* Properties.                                                             *)

\* A stall has one broadcast on air: start_live_session_for_db reuses the
\* stall's row, also one that resume could revive, as long as no requests
\* have overlapped.
OneLivePerStall ==
    calm => \A i, j \in Id : (/\ session[i].stall = session[j].stall
                      /\ session[i].status = "live"
                      /\ session[j].status = "live") => i = j

\* Leaving an exhibition gives up the vendor's stall in it (leave looks up
\* one stall, assign_vendor_to_stall sees that there is no other), as long
\* as no requests have overlapped.
LeavingFreesStall ==
    calm => \A s \in Stall, v \in Vendor :
        asked[ExhibitionOf[s]][v] \in {"withdrawn", None} => holder[s] # v

\* A session that has ended comes back on air only by its stall's vendor
\* starting it, never because an exhibition is resumed or patched, as long
\* as no requests have overlapped.
OnlyStartsRevive ==
    [][calm' => \A i \in Id : session[i].status = "ended"
                       /\ session'[i].status = "live"
          => \E v \in Vendor : /\ req[v].at = "going live"
                               /\ req[v].s = session[i].stall
                               /\ req'[v].at = "idle"
                               /\ session'[i].vendor = v]_vars

\* When an exhibition closes for good none of its sessions stays on air,
\* although a session is only ever closed by somebody looking at its room,
\* which shows the latest one, and a start or a resume may still be under
\* way when the exhibition closes.
RoomsCloseEventually ==
    \A e \in Exhibition :
        <>[](Effective(e) # "live") => <>[](SessionsAt(e, {"live"}) = {})

\* "You are already live in another exhibition. End that live session before
\* starting a new one."
VendorLiveOnce ==
    calm => \A i, j \in Id : (/\ session[i].vendor = session[j].vendor
                      /\ session[i].status = "live"
                      /\ session[j].status = "live") => i = j
=============================================================================
