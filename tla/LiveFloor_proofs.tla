--------------------------- MODULE LiveFloor_proofs ---------------------------
(* Theorems about LiveFloor, for every value of its constants. *)
EXTENDS LiveFloor, Recency_proofs

-----------------------------------------------------------------------------
(* The invariant.                                                          *)

SessionStatus == {"live", "paused", "ended"}

Answers == RequestStatus \cup {None}

\* The shape of a request, and of what it has loaded.
Requests ==
    [at : {"idle", "going live", "leaving", "assigning"} \cup LifecycleOp,
     e : Exhibition \cup {None}, s : Stall \cup {None},
     v : Vendor \cup {None},
     loaded : Status \cup Vendor \cup Row \cup {None}, ids : SUBSET Nat]

SessionsOK ==
    /\ session \in Seq(Row) /\ Len(session) <= MaxSessions
    /\ Ordered(started, Len(session))

\* What the request r of an actor works on.
Fits(a, r) ==
    /\ r.ids \subseteq Id
    /\ r.at \in LifecycleOp => r.e \in Exhibition /\ r.loaded \in Status
    /\ r.at = "assigning" =>
          r.s \in Stall /\ r.v \in Vendor /\ r.loaded \in Vendor \cup {None}
    /\ r.at = "leaving" => a \in Vendor /\ r.e \in Exhibition
    /\ r.at = "going live" =>
          /\ a \in Vendor /\ r.s \in Stall
          /\ \A i \in r.ids : r.ids = {i} /\ session[i].stall = r.s
          /\ r.ids # {} => r.loaded \in Row

TypeInv ==
    /\ status \in [Exhibition -> Status]
    /\ phase \in [Exhibition -> Phase]
    /\ asked \in [Exhibition -> [Vendor -> Answers]]
    /\ holder \in [Stall -> Vendor \cup {None}]
    /\ SessionsOK
    /\ calm \in BOOLEAN
    /\ req \in [Actor -> Requests]
    /\ \A a \in Actor : Fits(a, req[a])

\* Sessions are never removed, and stay on their stall.
SessionsStay ==
    /\ Len(session) <= Len(session')
    /\ \A i \in Id : session'[i].stall = session[i].stall

\* The session rows are numbered from 1.
LEMMA IdOK ==
    ASSUME SessionsOK
    PROVE  Len(session) \in Nat /\ Id \subseteq Nat /\ DOMAIN session = Id
           /\ \A i \in Id : session[i] \in Row
BY DEF SessionsOK, Id

\* The idle request is a request and no lifecycle endpoint.
LEMMA IdleOK ==
    /\ Idle \in Requests /\ Idle.at = "idle" /\ Idle.ids = {}
    /\ "idle" \notin LifecycleOp
BY LiveFloorAssumption DEF Idle, Requests

\* A request of an actor is well-formed with an empty hand.
LEMMA IdleFits == ASSUME NEW a PROVE Fits(a, Idle)
BY IdleOK DEF Fits

\* What a request works on stays there.
LEMMA FitsKept ==
    ASSUME TypeInv, SessionsOK', SessionsStay, NEW a \in Actor,
           req'[a] = req[a]
    PROVE  Fits(a, req[a])'
<1>1. Len(session) \in Nat /\ Len(session') \in Nat
  BY DEF SessionsOK, TypeInv
<1>2. Id \subseteq Id'
  BY <1>1 DEF Id, SessionsStay
<1>3. \A i \in Id : session'[i].stall = session[i].stall
  BY DEF SessionsStay
<1>4. Fits(a, req[a])
  BY DEF TypeInv
<1>5. QED
  BY <1>2, <1>3, <1>4 DEF Fits

\* An actor that is given a new request leaves the others' alone.
LEMMA Given ==
    ASSUME TypeInv, NEW a \in Actor, NEW r \in Requests, Request(a, r)
    PROVE  /\ req' \in [Actor -> Requests] /\ req'[a] = r
           /\ \A x \in Actor \ {a} : req'[x] = req[x]
BY DEF TypeInv, Request

\* The columns of the other tables.
Columns ==
    /\ status \in [Exhibition -> Status]
    /\ phase \in [Exhibition -> Phase]
    /\ asked \in [Exhibition -> [Vendor -> Answers]]
    /\ holder \in [Stall -> Vendor \cup {None}]

\* A step in which one actor's request becomes another.
LEMMA Stepped ==
    ASSUME TypeInv, Columns', SessionsOK', SessionsStay, calm' \in BOOLEAN,
           NEW a \in Actor, NEW r \in Requests, Request(a, r), Fits(a, r)
    PROVE  TypeInv'
<1>1. /\ req' \in [Actor -> Requests] /\ req'[a] = r
      /\ \A x \in Actor \ {a} : req'[x] = req[x]
  BY Given
<1>2. Fits(a, req[a])'
  <2>1. Id \subseteq Id'
    BY DEF Id, SessionsStay, SessionsOK, TypeInv
  <2>2. \A i \in Id : session'[i].stall = session[i].stall
    BY DEF SessionsStay
  <2>3. r.at = "going live" =>
           \A i \in r.ids : r.ids = {i} /\ session'[i].stall = r.s
    <3>1. ASSUME r.at = "going live", NEW i \in r.ids
          PROVE  r.ids = {i} /\ session'[i].stall = r.s
      <4>1. i \in Id /\ r.ids = {i} /\ session[i].stall = r.s
        BY <3>1 DEF Fits
      <4>2. QED
        BY <2>2, <4>1
    <3>2. QED
      BY <3>1, Zenon
  <2>4. r.ids \subseteq Id'
    BY <2>1 DEF Fits
  <2>5. QED
    BY <1>1, <2>3, <2>4 DEF Fits
<1>3. ASSUME NEW x \in Actor PROVE Fits(x, req[x])'
  BY <1>1, <1>2, FitsKept
<1>4. QED
  BY <1>1, <1>3 DEF TypeInv, Columns

\* A step that leaves every request alone.
LEMMA Stood ==
    ASSUME TypeInv, Columns', SessionsOK', SessionsStay, calm' \in BOOLEAN,
           UNCHANGED req
    PROVE  TypeInv'
<1>1. ASSUME NEW x \in Actor PROVE Fits(x, req[x])'
  BY FitsKept
<1>2. QED
  BY <1>1 DEF TypeInv, Columns

-----------------------------------------------------------------------------
(* How sessions change.                                                    *)

\* Sessions get another status and stay where and whose they are.
LEMMA TurnedOK ==
    ASSUME NEW ss \in Seq(Row), NEW ids, NEW st \in SessionStatus
    PROVE  LET t == Turned(ss, ids, st)
           IN  /\ t \in Seq(Row) /\ Len(t) = Len(ss)
               /\ \A i \in 1..Len(ss) :
                     /\ t[i].stall = ss[i].stall /\ t[i].vendor = ss[i].vendor
                     /\ t[i].status = IF i \in ids THEN st ELSE ss[i].status
<1> DEFINE t == Turned(ss, ids, st)
<1>1. \A i \in 1..Len(ss) : ss[i] \in Row
  OBVIOUS
<1>2. ASSUME NEW i \in 1..Len(ss)
      PROVE  /\ t[i] = IF i \in ids THEN [ss[i] EXCEPT !.status = st] ELSE ss[i]
             /\ t[i] \in Row
             /\ t[i].stall = ss[i].stall /\ t[i].vendor = ss[i].vendor
             /\ t[i].status = IF i \in ids THEN st ELSE ss[i].status
  <2>1. t[i] = IF i \in ids THEN [ss[i] EXCEPT !.status = st] ELSE ss[i]
    BY DEF Turned
  <2>2. ss[i] \in Row
    BY <1>1
  <2> HIDE DEF t
  <2>3. QED
    BY <2>1, <2>2 DEF Row, SessionStatus
<1>3. t = [i \in 1..Len(ss) |-> t[i]] /\ Len(ss) \in Nat
  BY DEF Turned
<1> HIDE DEF t
<1>4. t \in Seq(Row) /\ Len(t) = Len(ss)
  BY <1>2, <1>3
<1>5. QED
  BY <1>2, <1>4 DEF t

\* What sync_exhibition_completion does to the sessions: it ends some that
\* are live, and nothing else.
LEMMA SyncedOK ==
    ASSUME NEW e, NEW st \in Status, NEW ph, NEW ss \in Seq(Row)
    PROVE  LET t == SyncedSessions(e, st, ph, ss)
           IN  /\ SyncedStatus(st, ph) \in Status
               /\ t \in Seq(Row) /\ Len(t) = Len(ss)
               /\ \A i \in 1..Len(ss) :
                     /\ t[i].stall = ss[i].stall /\ t[i].vendor = ss[i].vendor
                     /\ \/ t[i].status = ss[i].status
                        \/ ss[i].status = "live" /\ t[i].status = "ended"
<1> DEFINE ids == {i \in DOMAIN ss : /\ ss[i].stall \in StallsOf(e)
                                     /\ ss[i].status = "live"}
<1>1. SyncedStatus(st, ph) \in Status
  BY DEF SyncedStatus, Status
<1>2. CASE Overdue(st, ph)
  <2>1. SyncedSessions(e, st, ph, ss) = Turned(ss, ids, "ended")
    BY <1>2 DEF SyncedSessions
  <2>2. \A i \in ids : ss[i].status = "live"
    OBVIOUS
  <2>3. "ended" \in SessionStatus
    BY DEF SessionStatus
  <2> HIDE DEF ids
  <2>4. LET t == Turned(ss, ids, "ended")
        IN  /\ t \in Seq(Row) /\ Len(t) = Len(ss)
            /\ \A i \in 1..Len(ss) :
                  /\ t[i].stall = ss[i].stall /\ t[i].vendor = ss[i].vendor
                  /\ t[i].status = IF i \in ids THEN "ended" ELSE ss[i].status
    BY <2>3, TurnedOK
  <2>5. QED
    BY <1>1, <2>1, <2>2, <2>4
<1>3. CASE ~Overdue(st, ph)
  BY <1>1, <1>3 DEF SyncedSessions
<1>4. QED
  BY <1>2, <1>3

\* The sessions are the same ones, of the same vendors.
Same == /\ Len(session') = Len(session) /\ Id' = Id
        /\ \A i \in Id : /\ session'[i].stall = session[i].stall
                         /\ session'[i].vendor = session[i].vendor

\* A handler that answers with the exhibition.
LEMMA Answered ==
    ASSUME TypeInv, NEW e \in Exhibition, NEW st \in Status,
           NEW ss \in Seq(Row), Len(ss) = Len(session),
           \A i \in Id : /\ ss[i].stall = session[i].stall
                         /\ ss[i].vendor = session[i].vendor,
           Answer(e, st, ss), UNCHANGED started
    PROVE  /\ status' \in [Exhibition -> Status]
           /\ SessionsOK' /\ SessionsStay /\ Same
           /\ \A i \in Id : \/ session'[i].status = ss[i].status
                            \/ /\ ss[i].status = "live"
                               /\ session'[i].status = "ended"
<1>1. /\ SyncedStatus(st, phase'[e]) \in Status
      /\ session' \in Seq(Row) /\ Len(session') = Len(ss)
      /\ \A i \in 1..Len(ss) :
            /\ session'[i].stall = ss[i].stall
            /\ session'[i].vendor = ss[i].vendor
            /\ \/ session'[i].status = ss[i].status
               \/ ss[i].status = "live" /\ session'[i].status = "ended"
  <2> DEFINE ph == phase'[e]
  <2>1. session' = SyncedSessions(e, st, ph, ss)
    BY DEF Answer
  <2> HIDE DEF ph
  <2>2. LET t == SyncedSessions(e, st, ph, ss)
        IN  /\ SyncedStatus(st, ph) \in Status
            /\ t \in Seq(Row) /\ Len(t) = Len(ss)
            /\ \A i \in 1..Len(ss) :
                  /\ t[i].stall = ss[i].stall /\ t[i].vendor = ss[i].vendor
                  /\ \/ t[i].status = ss[i].status
                     \/ ss[i].status = "live" /\ t[i].status = "ended"
    BY SyncedOK
  <2>3. QED
    BY <2>1, <2>2 DEF ph
<1>2. status' = [status EXCEPT ![e] = SyncedStatus(st, phase'[e])]
  BY DEF Answer
<1>3. status' \in [Exhibition -> Status]
  BY <1>1, <1>2 DEF TypeInv
<1>4. Id' = Id /\ Len(session) \in Nat
  BY <1>1 DEF Id, TypeInv, SessionsOK
<1>5. SessionsOK'
  BY <1>1 DEF TypeInv, SessionsOK
<1>6. QED
  BY <1>1, <1>3, <1>4, <1>5 DEF SessionsStay, Same, Id

\* TurnedOK for the sessions of the table.
LEMMA TableTurned ==
    ASSUME TypeInv, NEW ids, NEW st \in SessionStatus,
           NEW ss, ss = Turned(session, ids, st)
    PROVE  /\ ss \in Seq(Row) /\ Len(ss) = Len(session)
           /\ \A i \in Id : /\ ss[i].stall = session[i].stall
                            /\ ss[i].vendor = session[i].vendor
                            /\ ss[i].status = IF i \in ids THEN st
                                              ELSE session[i].status
BY TurnedOK DEF TypeInv, SessionsOK, Id

\* Some sessions get another status and nothing else happens to them.
LEMMA TurnedStep ==
    ASSUME TypeInv, NEW ids, NEW st \in SessionStatus,
           session' = Turned(session, ids, st), UNCHANGED started
    PROVE  /\ SessionsOK' /\ SessionsStay /\ Same
           /\ \A i \in Id : session'[i].status =
                               IF i \in ids THEN st ELSE session[i].status
<1>1. LET t == Turned(session, ids, st)
      IN  /\ t \in Seq(Row) /\ Len(t) = Len(session)
          /\ \A i \in 1..Len(session) :
                /\ t[i].stall = session[i].stall
                /\ t[i].vendor = session[i].vendor
                /\ t[i].status = IF i \in ids THEN st ELSE session[i].status
  BY TurnedOK DEF TypeInv, SessionsOK
<1>2. Len(session) \in Nat /\ Id' = Id
  BY <1>1 DEF TypeInv, SessionsOK, Id
<1>3. QED
  BY <1>1, <1>2 DEF TypeInv, SessionsOK, SessionsStay, Same, Id

\* Nothing happens to the sessions.
LEMMA SessionsKept ==
    ASSUME TypeInv, UNCHANGED <<session, started>>
    PROVE  SessionsOK' /\ SessionsStay /\ Same
BY IdOK DEF TypeInv, SessionsOK, SessionsStay, Same, Id

\* The latest of some sessions is one of them.
LEMMA LastOfOK ==
    ASSUME TypeInv, NEW ids, ids \subseteq Id
    PROVE  /\ ids # {} => LastOf(ids) \in ids
           /\ LastOf(ids) # None <=> ids # {}
<1>1. Ordered(started, Len(session)) /\ Len(session) \in Nat
  BY DEF TypeInv, SessionsOK
<1>2. ids # {} => LastOf(ids) \in ids
  BY <1>1, LatestOK DEF LastOf, Id
<1>3. None \notin Id
  BY LiveFloorAssumption, IdOK DEF TypeInv
<1>4. QED
  BY <1>2, <1>3 DEF LastOf

-----------------------------------------------------------------------------
(* Every action keeps the types.                                           *)

\* An endpoint reads the exhibition and the sessions it will write.
LEMMA ReadForLifecycleOK ==
    ASSUME TypeInv, NEW a \in Admin, NEW op \in LifecycleOp,
           NEW e \in Exhibition, ReadForLifecycle(a, op, e)
    PROVE  TypeInv'
<1> DEFINE ids == SessionsAt(e, Takes(op))
           r == [Idle EXCEPT !.at = op, !.e = e, !.loaded = status[e],
                             !.ids = ids]
<1>1. ids \subseteq Id /\ Id \subseteq Nat
  BY IdOK DEF SessionsAt, TypeInv
<1> HIDE DEF ids
<1>2. r \in Requests /\ r.at = op /\ r.e = e /\ r.loaded = status[e]
      /\ r.ids = ids
  BY <1>1 DEF Idle, Requests, TypeInv
<1> HIDE DEF r
<1>3. /\ Request(a, r) /\ a \in Actor /\ calm' \in BOOLEAN
      /\ UNCHANGED <<status, phase, asked, holder, session, started>>
  BY DEF ReadForLifecycle, Begins, Actor, TypeInv, r, ids
<1>4. SessionsOK' /\ SessionsStay /\ Id' = Id /\ Columns'
  BY <1>3, SessionsKept DEF Same, TypeInv, Columns
<1>5. op \notin {"going live", "leaving", "assigning"}
  BY LiveFloorAssumption
<1>6. Fits(a, r)
  BY <1>1, <1>2, <1>4, <1>5 DEF Fits, TypeInv
<1>7. QED
  BY <1>2, <1>3, <1>4, <1>6, Stepped

\* What an endpoint makes of an exhibition and of its sessions.
LEMMA LifecycleOK ==
    ASSUME NEW op \in LifecycleOp
    PROVE  To(op) \in Status /\ Makes(op) \in SessionStatus
           /\ (Makes(op) = "live" => op \in {"start", "resume"})
BY LiveFloorAssumption DEF To, Makes, Status, SessionStatus

\* The exhibition is written and then answered with.
LEMMA SaveLifecycleOK ==
    ASSUME TypeInv, NEW a \in Admin, SaveLifecycle(a)
    PROVE  TypeInv'
<1> DEFINE e == req[a].e
           st == Written(To(req[a].at), req[a].loaded, status[e])
           ids == req[a].ids
           to == Makes(req[a].at)
           ss == Turned(session, ids, to)
<1>1. /\ a \in Actor /\ req[a].at \in LifecycleOp /\ e \in Exhibition
      /\ Request(a, Idle) /\ calm' \in BOOLEAN
      /\ UNCHANGED <<phase, asked, holder, started>>
      /\ Answer(e, st, ss)
  BY DEF SaveLifecycle, Actor, TypeInv, Fits, Done, Request
<1>2. st \in Status /\ to \in SessionStatus
  BY <1>1, LifecycleOK DEF TypeInv, Written
<1> HIDE DEF e, st, ids, to
<1>3. /\ ss \in Seq(Row) /\ Len(ss) = Len(session)
      /\ \A i \in Id : /\ ss[i].stall = session[i].stall
                       /\ ss[i].vendor = session[i].vendor
  BY <1>2, TableTurned
<1> HIDE DEF ss
<1>4. status' \in [Exhibition -> Status] /\ SessionsOK' /\ SessionsStay
  BY <1>1, <1>2, <1>3, Answered
<1>5. Columns' /\ Fits(a, Idle)
  BY <1>1, <1>4, IdleFits DEF Columns, TypeInv
<1>6. QED
  BY <1>1, <1>4, <1>5, IdleOK, Stepped

\* A handler that answers with the exhibition and touches no session itself.
LEMMA AnswerOK ==
    ASSUME TypeInv, NEW e \in Exhibition, NEW st \in Status,
           Answer(e, st, session), phase' \in [Exhibition -> Phase],
           UNCHANGED <<asked, holder, started, req>>, calm' \in BOOLEAN
    PROVE  TypeInv'
<1>1. /\ session \in Seq(Row) /\ Len(session) = Len(session)
      /\ \A i \in Id : /\ session[i].stall = session[i].stall
                       /\ session[i].vendor = session[i].vendor
  BY DEF TypeInv, SessionsOK
<1>2. status' \in [Exhibition -> Status] /\ SessionsOK' /\ SessionsStay
  BY <1>1, Answered
<1>3. Columns'
  BY <1>2 DEF Columns, TypeInv
<1>4. QED
  BY <1>2, <1>3, Stood

\* Reading an exhibition that is overdue.
LEMMA LookOK ==
    ASSUME TypeInv, NEW e \in Exhibition, Look(e) PROVE TypeInv'
<1>1. status[e] \in Status /\ phase' \in [Exhibition -> Phase]
      /\ calm' \in BOOLEAN
  BY DEF Look, TypeInv
<1>2. QED
  BY <1>1, AnswerOK DEF Look

\* New dates.
LEMMA ScheduleOK ==
    ASSUME TypeInv, NEW a \in Admin, NEW e \in Exhibition, Schedule(a, e)
    PROVE  TypeInv'
<1>1. phase' \in [Exhibition -> Phase] /\ calm' \in BOOLEAN
  BY DEF Schedule, TypeInv, Begins
<1>2. "scheduled" \in Status
  BY DEF Status
<1>3. QED
  BY <1>1, <1>2, AnswerOK DEF Schedule

\* New dates, a new status, or both.
LEMMA PatchExhibitionOK ==
    ASSUME TypeInv, NEW a \in Admin, NEW e \in Exhibition,
           PatchExhibition(a, e)
    PROVE  TypeInv'
<1>1. phase' \in [Exhibition -> Phase] /\ calm' \in BOOLEAN
  BY DEF PatchExhibition, TypeInv, Begins
<1>2. PICK st \in PatchStatus \cup {status[e]} : Answer(e, st, session)
  BY DEF PatchExhibition
<1>3. st \in Status
  BY LiveFloorAssumption DEF TypeInv
<1>4. QED
  BY <1>1, <1>2, <1>3, AnswerOK DEF PatchExhibition

\* A step that leaves sessions alone.
LEMMA TablesOnly ==
    ASSUME TypeInv, UNCHANGED <<session, started>>, Columns',
           calm' \in BOOLEAN
    PROVE  /\ UNCHANGED req => TypeInv'
           /\ \A a \in Actor, r \in Requests :
                 Request(a, r) /\ Fits(a, r) => TypeInv'
<1>1. SessionsOK' /\ SessionsStay
  BY SessionsKept
<1>2. QED
  BY <1>1, Stood, Stepped

\* A request ends.
LEMMA Ended ==
    ASSUME TypeInv, NEW a \in Actor, Done(a), Columns', SessionsOK',
           SessionsStay
    PROVE  TypeInv'
<1>1. Request(a, Idle) /\ calm' \in BOOLEAN
  BY DEF Done, Request, TypeInv
<1>2. QED
  BY <1>1, IdleOK, IdleFits, Stepped

\* A vendor asks to take part.
LEMMA RequestJoinOK ==
    ASSUME TypeInv, NEW v \in Vendor, NEW e \in Exhibition, RequestJoin(v, e)
    PROVE  TypeInv'
<1>1. asked' \in [Exhibition -> [Vendor -> Answers]]
  <2>1. asked' = [asked EXCEPT ![e][v] = "pending"] /\ "pending" \in Answers
    BY DEF RequestJoin, Answers, RequestStatus
  <2>2. QED
    BY <2>1 DEF TypeInv
<1>2. Columns' /\ calm' \in BOOLEAN
  BY <1>1 DEF RequestJoin, TypeInv, Columns, Begins
<1>3. QED
  BY <1>2, TablesOnly DEF RequestJoin

\* An administrator answers.
LEMMA ReviewOK ==
    ASSUME TypeInv, NEW a \in Admin, NEW e \in Exhibition, NEW v \in Vendor,
           Review(a, e, v)
    PROVE  TypeInv'
<1>1. asked' \in [Exhibition -> [Vendor -> Answers]]
  <2>1. PICK verdict \in {"accepted", "denied"} :
               asked' = [asked EXCEPT ![e][v] = verdict]
    BY DEF Review
  <2>2. verdict \in Answers
    BY DEF Answers, RequestStatus
  <2>3. QED
    BY <2>1, <2>2 DEF TypeInv
<1>2. Columns' /\ calm' \in BOOLEAN
  BY <1>1 DEF Review, TypeInv, Columns, Begins
<1>3. QED
  BY <1>2, TablesOnly DEF Review

\* A stall is read to be assigned.
LEMMA ReadForAssignOK ==
    ASSUME TypeInv, NEW a \in Admin, NEW v \in Vendor, NEW s \in Stall,
           ReadForAssign(a, v, s)
    PROVE  TypeInv'
<1> DEFINE r == [Idle EXCEPT !.at = "assigning", !.s = s, !.v = v,
                             !.loaded = holder[s]]
<1>1. holder[s] \in Vendor \cup {None} /\ a \in Actor
  BY DEF TypeInv, Actor
<1>2. /\ r \in Requests /\ r.at = "assigning" /\ r.s = s /\ r.v = v
      /\ r.loaded = holder[s] /\ r.ids = {}
  BY <1>1 DEF Idle, Requests
<1>3. /\ Request(a, r) /\ calm' \in BOOLEAN
      /\ UNCHANGED <<status, phase, asked, holder, session, started>>
  BY DEF ReadForAssign, Begins
<1> HIDE DEF r
<1>4. Fits(a, r)
  BY <1>1, <1>2, LiveFloorAssumption DEF Fits
<1>5. Columns'
  BY <1>3 DEF TypeInv, Columns
<1>6. QED
  BY <1>1, <1>2, <1>3, <1>4, <1>5, TablesOnly

\* A stall is given to a vendor.
LEMMA SaveAssignOK ==
    ASSUME TypeInv, NEW a \in Admin, SaveAssign(a) PROVE TypeInv'
<1> DEFINE s == req[a].s
           h == Written(req[a].v, req[a].loaded, holder[s])
<1>1. /\ a \in Actor /\ s \in Stall /\ req[a].v \in Vendor /\ Done(a)
      /\ holder' = [holder EXCEPT ![s] = h]
      /\ UNCHANGED <<status, phase, asked, session, started>>
  BY DEF SaveAssign, Actor, TypeInv, Fits
<1>2. h \in Vendor \cup {None}
  BY <1>1 DEF Written, TypeInv
<1> HIDE DEF s, h
<1>3. Columns'
  BY <1>1, <1>2 DEF Columns, TypeInv
<1>4. SessionsOK' /\ SessionsStay
  BY <1>1, SessionsKept
<1>5. QED
  BY <1>1, <1>3, <1>4, Ended

\* A stall is taken away.
LEMMA RemoveVendorOK ==
    ASSUME TypeInv, NEW a \in Admin, NEW s \in Stall, RemoveVendor(a, s)
    PROVE  TypeInv'
<1>1. Columns' /\ calm' \in BOOLEAN
  BY DEF RemoveVendor, TypeInv, Columns, Begins
<1>2. QED
  BY <1>1, TablesOnly DEF RemoveVendor

\* One stall of the vendor is read, and what is on air there.
LEMMA ReadForLeaveOK ==
    ASSUME TypeInv, NEW v \in Vendor, NEW e \in Exhibition,
           ReadForLeave(v, e)
    PROVE  TypeInv'
<1> DEFINE mine == {s \in StallsOf(e) : holder[s] = v}
<1>1. PICK s \in IF mine = {} THEN {None} ELSE mine :
             Request(v, [Idle EXCEPT !.at = "leaving", !.e = e, !.s = s,
                           !.ids = {i \in SessionsAt(e, {"live"}) :
                                       session[i].stall = s}])
  BY DEF ReadForLeave
<1> DEFINE ids == {i \in SessionsAt(e, {"live"}) : session[i].stall = s}
           r == [Idle EXCEPT !.at = "leaving", !.e = e, !.s = s, !.ids = ids]
<1>2. ids \subseteq Id /\ Id \subseteq Nat
  BY IdOK DEF SessionsAt, TypeInv
<1>3. s \in Stall \cup {None} /\ v \in Actor
  BY DEF StallsOf, Actor
<1>4. Request(v, r)
  BY <1>1
<1> HIDE DEF ids
<1>5. r \in Requests /\ r.at = "leaving" /\ r.e = e /\ r.s = s /\ r.ids = ids
  BY <1>2, <1>3 DEF Idle, Requests
<1> HIDE DEF r
<1>6. Fits(v, r)
  BY <1>2, <1>5, LiveFloorAssumption DEF Fits
<1>7. /\ calm' \in BOOLEAN /\ Columns'
      /\ UNCHANGED <<status, phase, asked, holder, session, started>>
  BY DEF ReadForLeave, Begins, Columns, TypeInv
<1>8. QED
  BY <1>3, <1>4, <1>5, <1>6, <1>7, TablesOnly

\* A vendor leaves.
LEMMA SaveLeaveOK ==
    ASSUME TypeInv, NEW v \in Vendor, SaveLeave(v) PROVE TypeInv'
<1> DEFINE e == req[v].e
           ids == req[v].ids
<1>1. /\ v \in Actor /\ e \in Exhibition /\ Done(v)
      /\ asked' = [asked EXCEPT ![e][v] = "withdrawn"]
      /\ holder' = [s \in Stall |-> IF s = req[v].s THEN None ELSE holder[s]]
      /\ session' = Turned(session, ids, "ended")
      /\ UNCHANGED <<status, phase, started>>
  BY DEF SaveLeave, Actor, TypeInv, Fits
<1> HIDE DEF e, ids
<1>2. "withdrawn" \in Answers /\ "ended" \in SessionStatus
  BY DEF Answers, RequestStatus, SessionStatus
<1>3. asked' \in [Exhibition -> [Vendor -> Answers]]
  BY <1>1, <1>2 DEF TypeInv
<1>4. holder' \in [Stall -> Vendor \cup {None}]
  BY <1>1 DEF TypeInv
<1>5. Columns'
  BY <1>1, <1>3, <1>4 DEF Columns, TypeInv
<1>6. SessionsOK' /\ SessionsStay
  BY <1>1, <1>2, TurnedStep
<1>7. QED
  BY <1>1, <1>5, <1>6, Ended

\* A step that only turns some sessions.
LEMMA OnlyTurns ==
    ASSUME TypeInv, NEW ids, session' = Turned(session, ids, "ended"),
           UNCHANGED <<status, phase, asked, holder, started>>
    PROVE  Columns' /\ SessionsOK' /\ SessionsStay /\ Same
<1>1. "ended" \in SessionStatus
  BY DEF SessionStatus
<1>2. SessionsOK' /\ SessionsStay /\ Same
  BY <1>1, TurnedStep
<1>3. QED
  BY <1>2 DEF Columns, TypeInv

\* A viewer's page closes the room.
LEMMA PollOK ==
    ASSUME TypeInv, NEW s \in Stall, Poll(s) PROVE TypeInv'
<1>1. calm' \in BOOLEAN /\ UNCHANGED req
  BY DEF Poll, TypeInv
<1>2. QED
  BY <1>1, OnlyTurns, Stood DEF Poll

\* A start is refused and has closed a session.
LEMMA StartRefusedOK ==
    ASSUME TypeInv, NEW v \in Vendor, StartRefused(v) PROVE TypeInv'
<1>1. calm' \in BOOLEAN /\ UNCHANGED req
  BY DEF StartRefused, Begins, TypeInv
<1>2. QED
  BY <1>1, OnlyTurns, Stood DEF StartRefused

\* A vendor ends a broadcast.
LEMMA EndLiveOK ==
    ASSUME TypeInv, NEW v \in Vendor, EndLive(v) PROVE TypeInv'
<1>1. calm' \in BOOLEAN /\ UNCHANGED req
  BY DEF EndLive, Begins, TypeInv
<1>2. QED
  BY <1>1, OnlyTurns, Stood DEF EndLive

\* The row a start reuses is one of the stall's.
LEMMA RowToReuseOK ==
    ASSUME TypeInv, NEW s
    PROVE  /\ RowToReuse(s) # None =>
                 /\ RowToReuse(s) \in Id
                 /\ session[RowToReuse(s)].stall = s
           /\ RowToReuse(s) = None => \A i \in Id : session[i].stall # s
<1> DEFINE ids == {i \in Id : session[i].stall = s}
<1>1. ids \subseteq Id /\ RowToReuse(s) = LastOf(ids)
  BY DEF RowToReuse
<1> HIDE DEF ids
<1>2. /\ ids # {} => RowToReuse(s) \in ids
      /\ RowToReuse(s) # None <=> ids # {}
  BY <1>1, LastOfOK
<1>3. QED
  BY <1>2 DEF ids

\* The session of a vendor, and of a stall, that is on air.
LEMMA OnAirOK ==
    ASSUME TypeInv, NEW v, NEW s
    PROVE  /\ LiveOf(v) # None => /\ LiveOf(v) \in Id
                                  /\ session[LiveOf(v)].vendor = v
                                  /\ session[LiveOf(v)].status = "live"
           /\ LiveOn(s) # None => /\ LiveOn(s) \in Id
                                  /\ session[LiveOn(s)].stall = s
                                  /\ session[LiveOn(s)].status = "live"
<1> DEFINE of == {i \in Id : session[i].vendor = v
                               /\ session[i].status = "live"}
           on == {i \in Id : session[i].stall = s
                               /\ session[i].status = "live"}
<1>1. /\ of \subseteq Id /\ LiveOf(v) = LastOf(of)
      /\ on \subseteq Id /\ LiveOn(s) = LastOf(on)
  BY DEF LiveOf, LiveOn
<1> HIDE DEF of, on
<1>2. /\ LiveOf(v) # None => LiveOf(v) \in of
      /\ LiveOn(s) # None => LiveOn(s) \in on
  BY <1>1, LastOfOK
<1>3. QED
  BY <1>2 DEF of, on

\* A start reads the stall's row, after closing what has to close.
LEMMA ReadForStartOK ==
    ASSUME TypeInv, NEW v \in Vendor, NEW s \in Stall, ReadForStart(v, s)
    PROVE  TypeInv'
<1> DEFINE row == RowToReuse(s)
           closing == IF LiveOf(v) # None /\ HasToClose(LiveOf(v))
                        THEN {LiveOf(v)} ELSE {}
           ids == IF row = None THEN {} ELSE {row}
           loaded == IF row = None THEN None ELSE session'[row]
           r == [Idle EXCEPT !.at = "going live", !.s = s, !.ids = ids,
                             !.loaded = loaded]
<1>1. /\ session' = Turned(session, closing, "ended") /\ Request(v, r)
      /\ calm' \in BOOLEAN /\ v \in Actor
      /\ UNCHANGED <<status, phase, asked, holder, started>>
  BY DEF ReadForStart, Begins, Actor
<1> HIDE DEF closing
<1>2. Columns' /\ SessionsOK' /\ SessionsStay /\ Same
  BY <1>1, OnlyTurns
<1>3. row # None => row \in Id /\ session[row].stall = s
  BY RowToReuseOK
<1>4. row # None => row \in Nat /\ session'[row] \in Row
  BY <1>2, <1>3, IdOK DEF TypeInv, SessionsOK, Same, Id
<1> HIDE DEF row
<1>5. /\ ids \subseteq Id /\ ids \subseteq Nat /\ loaded \in Row \cup {None}
      /\ \A i \in ids : ids = {i} /\ session[i].stall = s
      /\ ids # {} => loaded \in Row
  BY <1>3, <1>4
<1> HIDE DEF ids, loaded
<1>6. /\ r \in Requests /\ r.at = "going live" /\ r.s = s /\ r.ids = ids
      /\ r.loaded = loaded
  BY <1>5 DEF Idle, Requests
<1> HIDE DEF r
<1>7. Fits(v, r)
  BY <1>5, <1>6, LiveFloorAssumption DEF Fits
<1>8. QED
  BY <1>1, <1>2, <1>6, <1>7, Stepped

\* A row that goes on air is a row, on the stall it was.
LEMMA RestartedOK ==
    ASSUME NEW row \in Row, NEW v \in Vendor, NEW old \in Row
    PROVE  LET new == Restarted(row, v, old)
           IN  /\ new \in Row /\ new.stall = row.stall
               /\ new.status = Written("live", old.status, row.status)
               /\ new.vendor = Written(v, old.vendor, row.vendor)
<1>1. /\ Written("live", old.status, row.status) \in {"live", "paused", "ended"}
      /\ Written(v, old.vendor, row.vendor) \in Vendor
  BY DEF Written, Row
<1>2. QED
  BY <1>1 DEF Restarted, Row

\* A row of the table is replaced by one on the same stall.
LEMMA ReplacedOK ==
    ASSUME TypeInv, NEW i \in Id, NEW new \in Row,
           new.stall = session[i].stall,
           session' = [session EXCEPT ![i] = new]
    PROVE  /\ session' \in Seq(Row) /\ Len(session') = Len(session)
           /\ Id' = Id /\ SessionsStay /\ session'[i] = new
           /\ \A j \in Id \ {i} : session'[j] = session[j]
<1>1. session \in Seq(Row) /\ Len(session) \in Nat /\ i \in 1..Len(session)
  BY DEF TypeInv, SessionsOK, Id
<1>2. /\ session' \in Seq(Row) /\ Len(session') = Len(session)
      /\ session'[i] = new
      /\ \A j \in 1..Len(session) \ {i} : session'[j] = session[j]
  BY <1>1
<1>3. QED
  BY <1>1, <1>2 DEF Id, SessionsStay

\* The latest row of the stall goes on air, or a new one does.
LEMMA SaveStartOK ==
    ASSUME TypeInv, NEW v \in Vendor, SaveStart(v) PROVE TypeInv'
<1>1. /\ v \in Actor /\ req[v].at = "going live" /\ Fits(v, req[v]) /\ Done(v)
      /\ UNCHANGED <<status, phase, asked, holder>>
  BY DEF SaveStart, Actor, TypeInv
<1>2. Columns'
  BY <1>1 DEF Columns, TypeInv
<1>3. ASSUME NEW i \in req[v].ids,
             session' = [session EXCEPT ![i] =
                            Restarted(session[i], v, req[v].loaded)],
             started' = Touched(started, i)
      PROVE  SessionsOK' /\ SessionsStay
  <2> DEFINE new == Restarted(session[i], v, req[v].loaded)
  <2>1. i \in Id /\ req[v].loaded \in Row
    BY <1>1 DEF Fits
  <2>2. session[i] \in Row
    BY <2>1, IdOK DEF TypeInv
  <2>3. new \in Row /\ new.stall = session[i].stall
    BY <2>1, <2>2, RestartedOK
  <2>4. session' = [session EXCEPT ![i] = new]
    BY <1>3
  <2> HIDE DEF new
  <2>5. /\ session' \in Seq(Row) /\ Len(session') = Len(session)
        /\ SessionsStay
    BY <2>1, <2>3, <2>4, ReplacedOK
  <2>6. Ordered(started', Len(session))
    BY <1>3, <2>1, TouchedOK DEF TypeInv, SessionsOK, Id
  <2>7. QED
    BY <2>5, <2>6 DEF TypeInv, SessionsOK
<1>4. ASSUME Len(session) < MaxSessions,
             session' = Append(session, [stall |-> req[v].s, vendor |-> v,
                                         status |-> "live", old |-> FALSE]),
             started' = Append(started, Len(session) + 1)
      PROVE  SessionsOK' /\ SessionsStay
  <2> DEFINE new == [stall |-> req[v].s, vendor |-> v,
                     status |-> "live", old |-> FALSE]
  <2>1. new \in Row
    BY <1>1 DEF Fits, Row
  <2>2. session' = Append(session, new)
    BY <1>4
  <2> HIDE DEF new
  <2>3. session \in Seq(Row) /\ Len(session) \in Nat /\ MaxSessions \in Nat
    BY LiveFloorAssumption DEF TypeInv, SessionsOK
  <2>4. /\ session' \in Seq(Row) /\ Len(session') = Len(session) + 1
        /\ \A j \in 1..Len(session) : session'[j] = session[j]
    BY <2>1, <2>2, <2>3
  <2>5. Ordered(started', Len(session) + 1)
    BY <1>4, <2>3, AppendedOK DEF TypeInv, SessionsOK
  <2>6. Len(session') <= MaxSessions /\ Len(session) <= Len(session')
    BY <1>4, <2>3, <2>4
  <2>7. QED
    BY <2>4, <2>5, <2>6 DEF SessionsOK, SessionsStay, Id
<1>5. SessionsOK' /\ SessionsStay
  BY <1>3, <1>4 DEF SaveStart
<1>6. QED
  BY <1>1, <1>2, <1>5, Ended

\* An exhibition's dates come and go.
LEMMA TimePassesOK ==
    ASSUME TypeInv, NEW e \in Exhibition, TimePasses(e) PROVE TypeInv'
<1>1. phase' \in [Exhibition -> Phase]
  BY DEF TimePasses, TypeInv, Phase
<1>2. Columns' /\ calm' \in BOOLEAN
  BY <1>1 DEF TimePasses, TypeInv, Columns
<1>3. QED
  BY <1>2, TablesOnly DEF TimePasses

\* A session is over the limit.
LEMMA GrowsOldOK ==
    ASSUME TypeInv, NEW i \in Id, GrowsOld(i) PROVE TypeInv'
<1> DEFINE new == [session[i] EXCEPT !.old = TRUE]
<1>1. session[i] \in Row
  BY IdOK DEF TypeInv
<1>2. new \in Row /\ new.stall = session[i].stall
  BY <1>1 DEF Row
<1>3. session' = [session EXCEPT ![i] = new]
  BY DEF GrowsOld
<1> HIDE DEF new
<1>4. /\ session' \in Seq(Row) /\ Len(session') = Len(session)
      /\ SessionsStay
  BY <1>2, <1>3, ReplacedOK
<1>5. SessionsOK' /\ Columns' /\ calm' \in BOOLEAN /\ UNCHANGED req
  BY <1>4 DEF GrowsOld, TypeInv, SessionsOK, Columns
<1>6. QED
  BY <1>4, <1>5, Stood

\* A request is lost.
LEMMA DiesOK == ASSUME TypeInv, NEW a \in Actor, Dies(a) PROVE TypeInv'
<1>1. Columns' /\ Done(a) /\ SessionsOK' /\ SessionsStay
  BY SessionsKept DEF Dies, Columns, TypeInv
<1>2. QED
  BY <1>1, Ended

\* The steps, one by one.
LEMMA Steps ==
    ASSUME [Next]_vars
    PROVE  \/ \E a \in Admin, op \in LifecycleOp, e \in Exhibition :
                 ReadForLifecycle(a, op, e)
           \/ \E a \in Admin : SaveLifecycle(a)
           \/ \E a \in Admin, e \in Exhibition : Schedule(a, e)
           \/ \E a \in Admin, e \in Exhibition : PatchExhibition(a, e)
           \/ \E a \in Admin, e \in Exhibition, v \in Vendor : Review(a, e, v)
           \/ \E a \in Admin, v \in Vendor, s \in Stall : ReadForAssign(a, v, s)
           \/ \E a \in Admin : SaveAssign(a)
           \/ \E a \in Admin, s \in Stall : RemoveVendor(a, s)
           \/ \E v \in Vendor, e \in Exhibition : RequestJoin(v, e)
           \/ \E v \in Vendor, e \in Exhibition : ReadForLeave(v, e)
           \/ \E v \in Vendor : SaveLeave(v)
           \/ \E v \in Vendor, s \in Stall : ReadForStart(v, s)
           \/ \E v \in Vendor : StartRefused(v)
           \/ \E v \in Vendor : SaveStart(v)
           \/ \E v \in Vendor : EndLive(v)
           \/ \E e \in Exhibition : Look(e)
           \/ \E e \in Exhibition : TimePasses(e)
           \/ \E s \in Stall : Poll(s)
           \/ \E i \in Id : GrowsOld(i)
           \/ \E a \in Actor : Dies(a)
           \/ UNCHANGED vars
<1> DEFINE
    A1 == \E a \in Admin, op \in LifecycleOp, e \in Exhibition :
             ReadForLifecycle(a, op, e)
    A2 == \E a \in Admin : SaveLifecycle(a)
    A3 == \E a \in Admin, e \in Exhibition : Schedule(a, e)
    A4 == \E a \in Admin, e \in Exhibition : PatchExhibition(a, e)
    A5 == \E a \in Admin, e \in Exhibition, v \in Vendor : Review(a, e, v)
    A6 == \E a \in Admin, v \in Vendor, s \in Stall : ReadForAssign(a, v, s)
    A7 == \E a \in Admin : SaveAssign(a)
    A8 == \E a \in Admin, s \in Stall : RemoveVendor(a, s)
    V1 == \E v \in Vendor, e \in Exhibition : RequestJoin(v, e)
    V2 == \E v \in Vendor, e \in Exhibition : ReadForLeave(v, e)
    V3 == \E v \in Vendor : SaveLeave(v)
    V4 == \E v \in Vendor, s \in Stall : ReadForStart(v, s)
    V5 == \E v \in Vendor : StartRefused(v)
    V6 == \E v \in Vendor : SaveStart(v)
    V7 == \E v \in Vendor : EndLive(v)
    T1 == \E e \in Exhibition : Look(e)
    T2 == \E e \in Exhibition : TimePasses(e)
    T3 == \E s \in Stall : Poll(s)
    T4 == \E i \in Id : GrowsOld(i)
    T5 == \E a \in Actor : Dies(a)
    Admins == A1 \/ A2 \/ A3 \/ A4 \/ A5 \/ A6 \/ A7 \/ A8
    Vendors == V1 \/ V2 \/ V3 \/ V4 \/ V5 \/ V6 \/ V7
<1>1. ASSUME NEW a \in Admin, AdminNext(a) PROVE Admins
  BY <1>1 DEF AdminNext
<1>2. ASSUME NEW v \in Vendor, VendorNext(v) PROVE Vendors
  BY <1>2 DEF VendorNext
<1> HIDE DEF Admins, Vendors
<1>3. \/ Admins \/ Vendors \/ T1 \/ T2 \/ T3 \/ T4 \/ T5 \/ UNCHANGED vars
  BY <1>1, <1>2 DEF Next
<1> HIDE DEF A1, A2, A3, A4, A5, A6, A7, A8, V1, V2, V3, V4, V5, V6, V7,
             T1, T2, T3, T4, T5
<1>4. \/ A1 \/ A2 \/ A3 \/ A4 \/ A5 \/ A6 \/ A7 \/ A8
      \/ V1 \/ V2 \/ V3 \/ V4 \/ V5 \/ V6 \/ V7
      \/ T1 \/ T2 \/ T3 \/ T4 \/ T5 \/ UNCHANGED vars
  BY <1>3 DEF Admins, Vendors
<1>5. QED
  BY <1>4 DEF A1, A2, A3, A4, A5, A6, A7, A8, V1, V2, V3, V4, V5, V6, V7,
              T1, T2, T3, T4, T5

\* The invariant holds before anybody has asked for anything.
LEMMA TypeInit == Init => TypeInv
<1> SUFFICES ASSUME Init PROVE TypeInv
  OBVIOUS
<1>1. /\ status \in [Exhibition -> Status] /\ phase \in [Exhibition -> Phase]
      /\ asked \in [Exhibition -> [Vendor -> Answers]]
      /\ holder \in [Stall -> Vendor \cup {None}] /\ calm \in BOOLEAN
  BY DEF Init, Status, Phase, Answers
<1>2. session = <<>> /\ started = <<>>
  BY DEF Init
<1>3. SessionsOK
  <2>1. Len(session) = 0 /\ session \in Seq(Row) /\ started \in Seq(1..0)
    BY <1>2
  <2>2. Len(started) = 0 /\ \A b \in 1..0 : \E i \in 1..0 : started[i] = b
    BY <1>2
  <2>3. QED
    BY <2>1, <2>2, LiveFloorAssumption DEF SessionsOK, Ordered
<1>4. req = [a \in Actor |-> Idle]
  BY DEF Init
<1>5. req \in [Actor -> Requests] /\ \A a \in Actor : Fits(a, req[a])
  BY <1>4, IdleOK, IdleFits
<1>6. QED
  BY <1>1, <1>3, <1>5 DEF TypeInv

\* Every step keeps the invariant.
LEMMA TypeNext == TypeInv /\ [Next]_vars => TypeInv'
<1> SUFFICES ASSUME TypeInv, [Next]_vars PROVE TypeInv'
  OBVIOUS
<1>1. CASE UNCHANGED vars
  BY <1>1, TablesOnly DEF vars, TypeInv, Columns
<1>2. QED
  BY <1>1, Steps, ReadForLifecycleOK, SaveLifecycleOK, ScheduleOK,
     PatchExhibitionOK, ReviewOK, ReadForAssignOK, SaveAssignOK,
     RemoveVendorOK, RequestJoinOK, ReadForLeaveOK, SaveLeaveOK,
     ReadForStartOK, StartRefusedOK, SaveStartOK, EndLiveOK, LookOK,
     TimePassesOK, PollOK, GrowsOldOK, DiesOK

\* The tables have their types, every request works on sessions there are,
\* and started_at orders all of them.
THEOREM TypeCorrect == Spec => []TypeOK
<1>1. TypeInv => TypeOK
  <2> SUFFICES ASSUME TypeInv PROVE TypeOK
    OBVIOUS
  <2>1. started \in Seq(Id) /\ Len(started) = Len(session)
    BY DEF TypeInv, SessionsOK, Ordered, Id
  <2>2. \A a \in Actor : req[a] \in Requests /\ req[a].ids \subseteq Id
    BY DEF TypeInv, Fits
  <2>3. \A a \in Actor : req[a].at \in {"idle", "going live", "leaving",
                                       "assigning"} \cup LifecycleOp
    BY <2>2 DEF Requests
  <2>4. QED
    BY <2>1, <2>2, <2>3 DEF TypeInv, TypeOK, SessionsOK, Answers
<1>2. QED
  BY <1>1, TypeInit, TypeNext, PTL DEF Spec

-----------------------------------------------------------------------------
(* While requests have not overlapped.                                     *)

Busy(a) == req[a].at # "idle"

Alone == \A a, b \in Actor : Busy(a) /\ Busy(b) => a = b

\* A stall has one row, whose broadcasts follow each other.
OneRow == \A i, j \in Id : session[i].stall = session[j].stall => i = j

\* A vendor has one stall in an exhibition.
OneStall ==
    \A s, t \in Stall : (/\ ExhibitionOf[s] = ExhibitionOf[t]
                         /\ holder[s] = holder[t]
                         /\ holder[s] # None) => s = t

\* Whoever holds a stall is in the exhibition.
LeftFree ==
    \A s \in Stall, v \in Vendor :
        asked[ExhibitionOf[s]][v] \in {"withdrawn", None} => holder[s] # v

\* What a request has read is still so.
UpToDate(a) ==
    LET r == req[a]
    IN  /\ r.at = "going live" =>
              /\ r.ids = {} => \A i \in Id : session[i].stall # r.s
              /\ \A i \in r.ids : r.loaded.vendor = session[i].vendor
        /\ r.at \in {"start", "resume"} =>
              \A i \in r.ids : session[i].status = "paused"
        /\ r.at = "assigning" => Assignable(r.v, r.s) /\ r.loaded = holder[r.s]
        /\ r.at = "leaving" =>
              \/ r.s = None /\ \A s \in StallsOf(r.e) : holder[s] # a
              \/ r.s \in StallsOf(r.e) /\ holder[r.s] = a

CalmInv == calm => /\ Alone /\ OneRow /\ OneStall /\ LeftFree
                   /\ \A a \in Actor : UpToDate(a)

\* Sessions that change their status change it from live to ended.
Closes ==
    \A i \in Id : \/ session'[i].status = session[i].status
                  \/ /\ session[i].status = "live"
                     /\ session'[i].status = "ended"

\* Sessions that change their status end.
Ends == \A i \in Id : session'[i].status \in {session[i].status, "ended"}

\* What OnlyStartsRevive says of a step.
Revival ==
    \A i \in Id : session[i].status = "ended" /\ session'[i].status = "live"
          => \E v \in Vendor : /\ req[v].at = "going live"
                               /\ req[v].s = session[i].stall
                               /\ req'[v].at = "idle"
                               /\ session'[i].vendor = v

\* Closing a session revives none.
LEMMA NoneRevived == (Closes => Ends) /\ (Ends => Revival)
BY DEF Closes, Ends, Revival

\* What requests have read stays so when sessions only close.
LEMMA UpToDateKept ==
    ASSUME TypeInv, Same, Closes, UNCHANGED <<asked, holder>>,
           NEW a \in Actor, req'[a] = req[a], UpToDate(a)
    PROVE  UpToDate(a)'
<1> DEFINE r == req[a]
<1>1. r.ids \subseteq Id
  BY DEF TypeInv, Fits
<1>2. r.at = "going live" =>
         /\ r.ids = {} => \A i \in Id : session[i].stall # r.s
         /\ \A i \in r.ids : r.loaded.vendor = session[i].vendor
  BY DEF UpToDate
<1>3. r.at \in {"start", "resume"} =>
         \A i \in r.ids : session[i].status = "paused"
  BY DEF UpToDate
<1>4. r.at = "assigning" => Assignable(r.v, r.s) /\ r.loaded = holder[r.s]
  BY DEF UpToDate
<1>5. r.at = "leaving" =>
         \/ r.s = None /\ \A s \in StallsOf(r.e) : holder[s] # a
         \/ r.s \in StallsOf(r.e) /\ holder[r.s] = a
  BY DEF UpToDate
<1>6. req'[a] = r
  OBVIOUS
<1> HIDE DEF r
<1>7. r.at = "going live" =>
         /\ r.ids = {} => \A i \in Id' : session'[i].stall # r.s
         /\ \A i \in r.ids : r.loaded.vendor = session'[i].vendor
  BY <1>1, <1>2 DEF Same
<1>8. r.at \in {"start", "resume"} =>
         \A i \in r.ids : session'[i].status = "paused"
  BY <1>1, <1>3 DEF Closes
<1>9. QED
  BY <1>4, <1>5, <1>6, <1>7, <1>8 DEF UpToDate, Assignable

\* A request that is not there has read nothing.
LEMMA UpToDateIdle ==
    ASSUME NEW a, req'[a].at = "idle" PROVE UpToDate(a)'
BY DEF UpToDate

\* The same sessions leave one row to a stall.
LEMMA OneRowKept == ASSUME OneRow, Same PROVE OneRow'
BY DEF OneRow, Same

\* Stalls and participants stay as they are.
LEMMA StallsKept ==
    ASSUME OneStall, LeftFree, UNCHANGED <<asked, holder>>
    PROVE  OneStall' /\ LeftFree'
BY DEF OneStall, LeftFree

\* Nobody has asked for anything.
LEMMA CalmPassive ==
    ASSUME TypeInv, CalmInv, calm', UNCHANGED <<req, calm, asked, holder>>,
           Same, Closes
    PROVE  CalmInv' /\ Revival
<1>1. calm /\ Alone /\ OneRow /\ OneStall /\ LeftFree
      /\ \A a \in Actor : UpToDate(a)
  BY DEF CalmInv
<1>2. ASSUME NEW a \in Actor PROVE UpToDate(a)'
  BY <1>1, UpToDateKept
<1>3. OneRow' /\ OneStall' /\ LeftFree'
  BY <1>1, OneRowKept, StallsKept
<1>4. Alone'
  BY <1>1 DEF Alone, Busy
<1>5. QED
  BY <1>2, <1>3, <1>4, NoneRevived DEF CalmInv

\* A handler without a request to remember, nobody else being at work.
LEMMA CalmAtOnce ==
    ASSUME TypeInv, CalmInv, calm', NEW a \in Actor, Begins(a), UNCHANGED req
    PROVE  /\ OneRow /\ OneStall /\ LeftFree
           /\ OneRow' /\ OneStall' /\ LeftFree' => CalmInv'
<1>1. calm /\ \A x \in Actor : req[x].at = "idle"
  BY DEF Begins, TypeInv
<1>2. Alone' /\ \A x \in Actor : UpToDate(x)'
  BY <1>1, UpToDateIdle DEF Alone, Busy
<1>3. QED
  BY <1>1, <1>2 DEF CalmInv

\* A request that begins, nobody else being at work.
LEMMA CalmBegins ==
    ASSUME TypeInv, CalmInv, calm', NEW a \in Actor, Begins(a),
           NEW r \in Requests, Request(a, r)
    PROVE  /\ OneRow /\ OneStall /\ LeftFree /\ req'[a] = r
           /\ OneRow' /\ OneStall' /\ LeftFree' /\ UpToDate(a)' => CalmInv'
<1>1. calm /\ \A x \in Actor : req[x].at = "idle"
  BY DEF Begins, TypeInv
<1>2. /\ req' \in [Actor -> Requests] /\ req'[a] = r
      /\ \A x \in Actor \ {a} : req'[x] = req[x]
  BY Given
<1>3. Alone' /\ \A x \in Actor \ {a} : UpToDate(x)'
  BY <1>1, <1>2, UpToDateIdle DEF Alone, Busy
<1>4. QED
  BY <1>1, <1>2, <1>3 DEF CalmInv

\* The request that is at work ends.
LEMMA CalmEnds ==
    ASSUME TypeInv, CalmInv, calm', NEW a \in Actor, Busy(a), Done(a)
    PROVE  /\ OneRow /\ OneStall /\ LeftFree /\ UpToDate(a)
           /\ req'[a].at = "idle"
           /\ OneRow' /\ OneStall' /\ LeftFree' => CalmInv'
<1>1. calm /\ Request(a, Idle)
  BY DEF Done, Request
<1>2. /\ req'[a] = Idle /\ \A x \in Actor \ {a} : req'[x] = req[x]
  BY <1>1, IdleOK, Given
<1>3. \A x \in Actor \ {a} : req[x].at = "idle"
  BY <1>1 DEF CalmInv, Alone, Busy
<1>4. \A x \in Actor : req'[x].at = "idle"
  BY <1>2, <1>3, IdleOK
<1>5. Alone' /\ \A x \in Actor : UpToDate(x)'
  BY <1>4, UpToDateIdle DEF Alone, Busy
<1>6. QED
  BY <1>1, <1>4, <1>5 DEF CalmInv

\* An answer only closes sessions that are on air.
LEMMA AnswerCloses ==
    ASSUME TypeInv, NEW e \in Exhibition, NEW st \in Status,
           Answer(e, st, session), UNCHANGED started
    PROVE  Same /\ Closes
<1>1. /\ session \in Seq(Row) /\ Len(session) = Len(session)
      /\ \A i \in Id : /\ session[i].stall = session[i].stall
                       /\ session[i].vendor = session[i].vendor
  BY DEF TypeInv, SessionsOK
<1>2. /\ Same
      /\ \A i \in Id : \/ session'[i].status = session[i].status
                       \/ /\ session[i].status = "live"
                          /\ session'[i].status = "ended"
  BY <1>1, Answered
<1>3. QED
  BY <1>2 DEF Closes

\* So does a step that ends sessions.
LEMMA TurnsEnd ==
    ASSUME TypeInv, NEW ids, session' = Turned(session, ids, "ended"),
           UNCHANGED started
    PROVE  /\ Same /\ Ends
           /\ (\A i \in ids : session[i].status = "live") => Closes
<1>1. "ended" \in SessionStatus
  BY DEF SessionStatus
<1>2. Same /\ \A i \in Id : session'[i].status =
                               IF i \in ids THEN "ended" ELSE session[i].status
  BY <1>1, TurnedStep
<1>3. QED
  BY <1>2 DEF Closes, Ends

\* A step that leaves the sessions.
LEMMA Untouched ==
    ASSUME TypeInv, UNCHANGED <<session, started>>
    PROVE  Same /\ Closes /\ Revival
<1>1. Same
  BY SessionsKept
<1>2. Closes
  BY DEF Closes
<1>3. QED
  BY <1>1, <1>2, NoneRevived

\* An endpoint that resumes has read sessions that are paused.
LEMMA CalmReadForLifecycle ==
    ASSUME TypeInv, CalmInv, calm', NEW a \in Admin, NEW op \in LifecycleOp,
           NEW e \in Exhibition, ReadForLifecycle(a, op, e)
    PROVE  CalmInv' /\ Revival
<1> DEFINE ids == SessionsAt(e, Takes(op))
           r == [Idle EXCEPT !.at = op, !.e = e, !.loaded = status[e],
                             !.ids = ids]
<1>1. /\ ids \subseteq Id /\ Id \subseteq Nat
      /\ op = "start" => ids = {}
      /\ op = "resume" => \A i \in ids : session[i].status = "paused"
  BY IdOK DEF SessionsAt, TypeInv, Takes
<1> HIDE DEF ids
<1>2. r \in Requests /\ r.at = op /\ r.ids = ids
  BY <1>1 DEF Idle, Requests, TypeInv
<1>3. /\ Request(a, r) /\ a \in Actor /\ Begins(a)
      /\ UNCHANGED <<status, phase, asked, holder, session, started>>
  BY DEF ReadForLifecycle, Actor, ids
<1> HIDE DEF r
<1>4. /\ OneRow /\ OneStall /\ LeftFree /\ req'[a] = r
      /\ OneRow' /\ OneStall' /\ LeftFree' /\ UpToDate(a)' => CalmInv'
  BY <1>2, <1>3, CalmBegins
<1>5. Same /\ Revival
  BY <1>3, Untouched
<1>6. OneRow' /\ OneStall' /\ LeftFree'
  BY <1>3, <1>4, <1>5, OneRowKept, StallsKept
<1>7. op \notin {"going live", "assigning", "leaving"}
  BY LiveFloorAssumption
<1>8. UpToDate(a)'
  BY <1>1, <1>2, <1>3, <1>4, <1>7 DEF UpToDate
<1>9. QED
  BY <1>4, <1>5, <1>6, <1>8

\* It puts no session on air that has ended.
LEMMA CalmSaveLifecycle ==
    ASSUME TypeInv, CalmInv, calm', NEW a \in Admin, SaveLifecycle(a)
    PROVE  CalmInv' /\ Revival
<1> DEFINE e == req[a].e
           st == Written(To(req[a].at), req[a].loaded, status[e])
           ids == req[a].ids
           to == Makes(req[a].at)
           ss == Turned(session, ids, to)
<1>1. /\ a \in Actor /\ req[a].at \in LifecycleOp /\ e \in Exhibition
      /\ Done(a) /\ UNCHANGED <<phase, asked, holder, started>>
      /\ Answer(e, st, ss)
  BY DEF SaveLifecycle, Actor, TypeInv, Fits
<1>2. /\ st \in Status /\ to \in SessionStatus
      /\ to = "live" => req[a].at \in {"start", "resume"}
  BY <1>1, LifecycleOK DEF TypeInv, Written
<1>3. Busy(a)
  BY <1>1, IdleOK DEF Busy
<1>4. /\ OneRow /\ OneStall /\ LeftFree /\ UpToDate(a)
      /\ OneRow' /\ OneStall' /\ LeftFree' => CalmInv'
  BY <1>1, <1>3, CalmEnds
<1>5. to = "live" => \A i \in ids : session[i].status = "paused"
  BY <1>2, <1>4 DEF UpToDate
<1> HIDE DEF e, st, ids, to
<1>6. /\ ss \in Seq(Row) /\ Len(ss) = Len(session)
      /\ \A i \in Id : /\ ss[i].stall = session[i].stall
                       /\ ss[i].vendor = session[i].vendor
                       /\ ss[i].status = IF i \in ids THEN to
                                         ELSE session[i].status
  BY <1>2, TableTurned
<1> HIDE DEF ss
<1>7. /\ Same
      /\ \A i \in Id : \/ session'[i].status = ss[i].status
                       \/ /\ ss[i].status = "live"
                          /\ session'[i].status = "ended"
  BY <1>1, <1>2, <1>6, Answered
<1>8. \A i \in Id : session[i].status = "ended" => session'[i].status # "live"
  BY <1>5, <1>6, <1>7
<1>9. QED
  BY <1>1, <1>4, <1>7, <1>8, OneRowKept, StallsKept DEF Revival

\* An answer with the exhibition, after new dates or a new status.
LEMMA CalmAnswers ==
    ASSUME TypeInv, CalmInv, calm', NEW a \in Actor, Begins(a),
           NEW e \in Exhibition, NEW st \in Status, Answer(e, st, session),
           UNCHANGED <<asked, holder, started, req>>
    PROVE  CalmInv' /\ Revival
<1>1. Same /\ Closes
  BY AnswerCloses
<1>2. QED
  BY <1>1, CalmAtOnce, OneRowKept, StallsKept, NoneRevived

\* New dates.
LEMMA CalmSchedule ==
    ASSUME TypeInv, CalmInv, calm', NEW a \in Admin, NEW e \in Exhibition,
           Schedule(a, e)
    PROVE  CalmInv' /\ Revival
BY CalmAnswers DEF Schedule, Actor, Status

\* New dates, a new status, or both.
LEMMA CalmPatchExhibition ==
    ASSUME TypeInv, CalmInv, calm', NEW a \in Admin, NEW e \in Exhibition,
           PatchExhibition(a, e)
    PROVE  CalmInv' /\ Revival
<1>1. PICK st \in PatchStatus \cup {status[e]} : Answer(e, st, session)
  BY DEF PatchExhibition
<1>2. st \in Status
  BY LiveFloorAssumption DEF TypeInv
<1>3. QED
  BY <1>1, <1>2, CalmAnswers DEF PatchExhibition, Actor

\* Reading an exhibition that is overdue.
LEMMA CalmLook ==
    ASSUME TypeInv, CalmInv, calm', NEW e \in Exhibition, Look(e)
    PROVE  CalmInv' /\ Revival
<1>1. status[e] \in Status
  BY DEF TypeInv
<1>2. Same /\ Closes
  BY <1>1, AnswerCloses DEF Look
<1>3. QED
  BY <1>2, CalmPassive DEF Look

\* Asking and answering withdraw nobody who holds a stall.
LEMMA CalmAsked ==
    ASSUME TypeInv, CalmInv, calm', NEW a \in Actor, Begins(a),
           NEW e \in Exhibition, NEW v \in Vendor,
           NEW answer \in {"pending", "accepted", "denied"},
           asked' = [asked EXCEPT ![e][v] = answer],
           UNCHANGED <<holder, session, started, req>>
    PROVE  CalmInv' /\ Revival
<1>1. /\ OneRow /\ OneStall /\ LeftFree
      /\ OneRow' /\ OneStall' /\ LeftFree' => CalmInv'
  BY CalmAtOnce
<1>2. Same /\ Revival
  BY Untouched
<1>3. answer \notin {"withdrawn", None}
  BY LiveFloorAssumption DEF RequestStatus
<1>4. \A x \in Exhibition, y \in Vendor :
         asked'[x][y] \in {asked[x][y], answer}
  BY DEF TypeInv
<1>5. LeftFree'
  BY <1>1, <1>3, <1>4, LiveFloorAssumption DEF LeftFree
<1>6. OneRow' /\ OneStall'
  BY <1>1, <1>2, OneRowKept DEF OneStall
<1>7. QED
  BY <1>1, <1>2, <1>5, <1>6

\* A vendor asks to take part.
LEMMA CalmRequestJoin ==
    ASSUME TypeInv, CalmInv, calm', NEW v \in Vendor, NEW e \in Exhibition,
           RequestJoin(v, e)
    PROVE  CalmInv' /\ Revival
BY CalmAsked DEF RequestJoin, Actor

\* An administrator answers.
LEMMA CalmReview ==
    ASSUME TypeInv, CalmInv, calm', NEW a \in Admin, NEW e \in Exhibition,
           NEW v \in Vendor, Review(a, e, v)
    PROVE  CalmInv' /\ Revival
<1>1. PICK verdict \in {"accepted", "denied"} :
             asked' = [asked EXCEPT ![e][v] = verdict]
  BY DEF Review
<1>2. QED
  BY <1>1, CalmAsked DEF Review, Actor

\* The stall is free for the vendor when it is read.
LEMMA CalmReadForAssign ==
    ASSUME TypeInv, CalmInv, calm', NEW a \in Admin, NEW v \in Vendor,
           NEW s \in Stall, ReadForAssign(a, v, s)
    PROVE  CalmInv' /\ Revival
<1> DEFINE r == [Idle EXCEPT !.at = "assigning", !.s = s, !.v = v,
                             !.loaded = holder[s]]
<1>1. holder[s] \in Vendor \cup {None} /\ a \in Actor
  BY DEF TypeInv, Actor
<1>2. /\ r \in Requests /\ r.at = "assigning" /\ r.s = s /\ r.v = v
      /\ r.loaded = holder[s]
  BY <1>1 DEF Idle, Requests
<1>3. /\ Request(a, r) /\ Begins(a) /\ Assignable(v, s)
      /\ UNCHANGED <<status, phase, asked, holder, session, started>>
  BY DEF ReadForAssign
<1> HIDE DEF r
<1>4. /\ OneRow /\ OneStall /\ LeftFree /\ req'[a] = r
      /\ OneRow' /\ OneStall' /\ LeftFree' /\ UpToDate(a)' => CalmInv'
  BY <1>1, <1>2, <1>3, CalmBegins
<1>5. UpToDate(a)'
  BY <1>2, <1>3, <1>4 DEF UpToDate, Assignable
<1>6. QED
  BY <1>3, <1>4, <1>5, Untouched, OneRowKept, StallsKept

\* It still is when it is given.
LEMMA CalmSaveAssign ==
    ASSUME TypeInv, CalmInv, calm', NEW a \in Admin, SaveAssign(a)
    PROVE  CalmInv' /\ Revival
<1> DEFINE s == req[a].s
           v == req[a].v
           h == Written(v, req[a].loaded, holder[s])
<1>1. /\ a \in Actor /\ req[a].at = "assigning" /\ s \in Stall
      /\ v \in Vendor /\ Done(a) /\ Busy(a)
      /\ holder' = [holder EXCEPT ![s] = h]
      /\ UNCHANGED <<status, phase, asked, session, started>>
  BY DEF SaveAssign, Actor, TypeInv, Fits, Busy
<1>2. /\ OneRow /\ OneStall /\ LeftFree /\ UpToDate(a)
      /\ OneRow' /\ OneStall' /\ LeftFree' => CalmInv'
  BY <1>1, CalmEnds
<1>3. Assignable(v, s) /\ h = v
  BY <1>1, <1>2 DEF UpToDate, Written
<1> HIDE DEF s, v, h
<1>4. /\ holder'[s] = v /\ \A x \in Stall \ {s} : holder'[x] = holder[x]
      /\ v # None
  BY <1>1, <1>3, LiveFloorAssumption DEF TypeInv
<1>5. /\ asked[ExhibitionOf[s]][v] = "accepted"
      /\ \A x \in Stall \ {s} :
            ExhibitionOf[x] = ExhibitionOf[s] => holder[x] # v
  BY <1>3 DEF Assignable, StallsOf
<1>6. OneStall'
  BY <1>2, <1>4, <1>5 DEF OneStall
<1>7. "accepted" \notin {"withdrawn", None}
  BY LiveFloorAssumption DEF RequestStatus
<1>8. LeftFree'
  <2>1. ASSUME NEW x \in Stall, NEW y \in Vendor,
               asked[ExhibitionOf[x]][y] \in {"withdrawn", None}
        PROVE  holder'[x] # y
    <3>1. CASE x = s
      BY <1>4, <1>5, <1>7, <2>1, <3>1
    <3>2. CASE x # s
      BY <1>2, <1>4, <2>1, <3>2 DEF LeftFree
    <3>3. QED
      BY <3>1, <3>2
  <2>2. QED
    BY <1>1, <2>1 DEF LeftFree
<1>9. QED
  BY <1>1, <1>2, <1>6, <1>8, Untouched, OneRowKept

\* Taking a stall away leaves less to hold.
LEMMA CalmRemoveVendor ==
    ASSUME TypeInv, CalmInv, calm', NEW a \in Admin, NEW s \in Stall,
           RemoveVendor(a, s)
    PROVE  CalmInv' /\ Revival
<1>1. /\ a \in Actor /\ Begins(a) /\ holder' = [holder EXCEPT ![s] = None]
      /\ UNCHANGED <<asked, session, started, req>>
  BY DEF RemoveVendor, Actor
<1>2. /\ OneRow /\ OneStall /\ LeftFree
      /\ OneRow' /\ OneStall' /\ LeftFree' => CalmInv'
  BY <1>1, CalmAtOnce
<1>3. \A x \in Stall : holder'[x] \in {holder[x], None}
  BY <1>1 DEF TypeInv
<1>4. OneStall' /\ LeftFree'
  BY <1>1, <1>2, <1>3, LiveFloorAssumption DEF OneStall, LeftFree
<1>5. QED
  BY <1>1, <1>2, <1>4, Untouched, OneRowKept

\* A vendor who leaves reads a stall of theirs if they have one.
LEMMA CalmReadForLeave ==
    ASSUME TypeInv, CalmInv, calm', NEW v \in Vendor, NEW e \in Exhibition,
           ReadForLeave(v, e)
    PROVE  CalmInv' /\ Revival
<1> DEFINE mine == {s \in StallsOf(e) : holder[s] = v}
<1>1. PICK s \in IF mine = {} THEN {None} ELSE mine :
             Request(v, [Idle EXCEPT !.at = "leaving", !.e = e, !.s = s,
                           !.ids = {i \in SessionsAt(e, {"live"}) :
                                       session[i].stall = s}])
  BY DEF ReadForLeave
<1> DEFINE ids == {i \in SessionsAt(e, {"live"}) : session[i].stall = s}
           r == [Idle EXCEPT !.at = "leaving", !.e = e, !.s = s, !.ids = ids]
<1>2. ids \subseteq Nat
  BY IdOK DEF SessionsAt, TypeInv
<1>3. /\ s \in Stall \cup {None} /\ v \in Actor
      /\ \/ s = None /\ \A x \in StallsOf(e) : holder[x] # v
         \/ s \in StallsOf(e) /\ holder[s] = v
  BY DEF StallsOf, Actor
<1>4. Request(v, r)
  BY <1>1
<1> HIDE DEF ids
<1>5. r \in Requests /\ r.at = "leaving" /\ r.e = e /\ r.s = s
  BY <1>2, <1>3 DEF Idle, Requests
<1> HIDE DEF r
<1>6. /\ Begins(v)
      /\ UNCHANGED <<status, phase, asked, holder, session, started>>
  BY DEF ReadForLeave
<1>7. /\ OneRow /\ OneStall /\ LeftFree /\ req'[v] = r
      /\ OneRow' /\ OneStall' /\ LeftFree' /\ UpToDate(v)' => CalmInv'
  BY <1>3, <1>4, <1>5, <1>6, CalmBegins
<1>8. UpToDate(v)'
  BY <1>3, <1>5, <1>6, <1>7 DEF UpToDate
<1>9. QED
  BY <1>6, <1>7, <1>8, Untouched, OneRowKept, StallsKept

\* It is the only one, so that none is left.
LEMMA CalmSaveLeave ==
    ASSUME TypeInv, CalmInv, calm', NEW v \in Vendor, SaveLeave(v)
    PROVE  CalmInv' /\ Revival
<1> DEFINE e == req[v].e
           s == req[v].s
           ids == req[v].ids
<1>1. /\ v \in Actor /\ req[v].at = "leaving" /\ e \in Exhibition
      /\ Done(v) /\ Busy(v)
      /\ asked' = [asked EXCEPT ![e][v] = "withdrawn"]
      /\ holder' = [x \in Stall |-> IF x = s THEN None ELSE holder[x]]
      /\ session' = Turned(session, ids, "ended")
      /\ UNCHANGED <<status, phase, started>>
  BY DEF SaveLeave, Actor, TypeInv, Fits, Busy
<1>2. /\ OneRow /\ OneStall /\ LeftFree /\ UpToDate(v)
      /\ OneRow' /\ OneStall' /\ LeftFree' => CalmInv'
  BY <1>1, CalmEnds
<1>3. \/ s = None /\ \A x \in StallsOf(e) : holder[x] # v
      \/ s \in StallsOf(e) /\ holder[s] = v
  BY <1>1, <1>2 DEF UpToDate
<1> HIDE DEF e, s, ids
<1>4. Same /\ Revival
  BY <1>1, TurnsEnd, NoneRevived
<1>5. \A x \in Stall : ExhibitionOf[x] = e => holder'[x] # v
  BY <1>1, <1>2, <1>3, LiveFloorAssumption DEF OneStall, StallsOf
<1>6. \A x \in Stall : holder'[x] \in {holder[x], None}
  BY <1>1
<1>7. \A x \in Exhibition, y \in Vendor :
         asked'[x][y] # asked[x][y] => x = e /\ y = v
  BY <1>1 DEF TypeInv
<1>8. OneStall'
  BY <1>2, <1>6 DEF OneStall
<1>9. LeftFree'
  <2>1. ASSUME NEW x \in Stall, NEW y \in Vendor,
               asked'[ExhibitionOf[x]][y] \in {"withdrawn", None}
        PROVE  holder'[x] # y
    <3>1. CASE ExhibitionOf[x] = e /\ y = v
      BY <1>5, <3>1
    <3>2. CASE ~(ExhibitionOf[x] = e /\ y = v)
      <4>1. asked[ExhibitionOf[x]][y] \in {"withdrawn", None}
        BY <1>7, <2>1, <3>2, LiveFloorAssumption
      <4>2. holder[x] # y /\ y # None
        BY <1>2, <4>1, LiveFloorAssumption DEF LeftFree
      <4>3. QED
        BY <1>6, <4>2
    <3>3. QED
      BY <3>1, <3>2
  <2>2. QED
    BY <2>1 DEF LeftFree
<1>10. QED
  BY <1>2, <1>4, <1>8, <1>9, OneRowKept

\* A viewer's page closes a session that is on air.
LEMMA CalmPoll ==
    ASSUME TypeInv, CalmInv, calm', NEW s \in Stall, Poll(s)
    PROVE  CalmInv' /\ Revival
<1>1. session[LiveOn(s)].status = "live"
  BY OnAirOK DEF Poll
<1>2. Same /\ Closes
  BY <1>1, TurnsEnd DEF Poll
<1>3. QED
  BY <1>2, CalmPassive DEF Poll

\* A handler that only ends sessions, nobody else being at work.
LEMMA CalmOnlyEnds ==
    ASSUME TypeInv, CalmInv, calm', NEW a \in Actor, Begins(a),
           NEW ids, session' = Turned(session, ids, "ended"),
           UNCHANGED <<asked, holder, started, req>>
    PROVE  CalmInv' /\ Revival
<1>1. Same /\ Ends
  BY TurnsEnd
<1>2. QED
  BY <1>1, CalmAtOnce, OneRowKept, StallsKept, NoneRevived

\* A start is refused and has closed a session.
LEMMA CalmStartRefused ==
    ASSUME TypeInv, CalmInv, calm', NEW v \in Vendor, StartRefused(v)
    PROVE  CalmInv' /\ Revival
BY CalmOnlyEnds DEF StartRefused, Actor

\* A vendor ends a broadcast.
LEMMA CalmEndLive ==
    ASSUME TypeInv, CalmInv, calm', NEW v \in Vendor, EndLive(v)
    PROVE  CalmInv' /\ Revival
BY CalmOnlyEnds DEF EndLive, Actor

\* A start that finds no row finds none on the stall.
LEMMA CalmReadForStart ==
    ASSUME TypeInv, CalmInv, calm', NEW v \in Vendor, NEW s \in Stall,
           ReadForStart(v, s)
    PROVE  CalmInv' /\ Revival
<1> DEFINE row == RowToReuse(s)
           closing == IF LiveOf(v) # None /\ HasToClose(LiveOf(v))
                        THEN {LiveOf(v)} ELSE {}
           ids == IF row = None THEN {} ELSE {row}
           loaded == IF row = None THEN None ELSE session'[row]
           r == [Idle EXCEPT !.at = "going live", !.s = s, !.ids = ids,
                             !.loaded = loaded]
<1>1. /\ session' = Turned(session, closing, "ended") /\ Request(v, r)
      /\ Begins(v) /\ v \in Actor
      /\ UNCHANGED <<status, phase, asked, holder, started>>
  BY DEF ReadForStart, Actor
<1> HIDE DEF closing
<1>2. SessionsOK' /\ Same /\ Ends
  BY <1>1, OnlyTurns, TurnsEnd
<1>3. /\ row # None => row \in Id
      /\ row = None => \A i \in Id : session[i].stall # s
  BY RowToReuseOK
<1>4. row # None => row \in Nat /\ session'[row] \in Row
  BY <1>2, <1>3, IdOK DEF TypeInv, SessionsOK, Same, Id
<1> HIDE DEF row
<1>5. /\ ids \subseteq Nat /\ loaded \in Row \cup {None}
      /\ ids = {} => \A i \in Id : session[i].stall # s
      /\ \A i \in ids : loaded.vendor = session'[i].vendor
  BY <1>3, <1>4
<1> HIDE DEF ids, loaded
<1>6. /\ r \in Requests /\ r.at = "going live" /\ r.s = s /\ r.ids = ids
      /\ r.loaded = loaded
  BY <1>5 DEF Idle, Requests
<1> HIDE DEF r
<1>7. /\ OneRow /\ OneStall /\ LeftFree /\ req'[v] = r
      /\ OneRow' /\ OneStall' /\ LeftFree' /\ UpToDate(v)' => CalmInv'
  BY <1>1, <1>6, CalmBegins
<1>8. ids = {} => \A i \in Id' : session'[i].stall # s
  BY <1>2, <1>5 DEF Same
<1>9. UpToDate(v)'
  BY <1>5, <1>6, <1>7, <1>8 DEF UpToDate
<1>10. QED
  BY <1>1, <1>2, <1>7, <1>9, OneRowKept, StallsKept, NoneRevived

\* The row that goes on air is the stall's only one, and the vendor's.
LEMMA CalmSaveStart ==
    ASSUME TypeInv, CalmInv, calm', NEW v \in Vendor, SaveStart(v)
    PROVE  CalmInv' /\ Revival
<1> DEFINE r == req[v]
<1>1. /\ v \in Actor /\ r.at = "going live" /\ Fits(v, r) /\ Done(v)
      /\ Busy(v) /\ UNCHANGED <<status, phase, asked, holder>>
  BY DEF SaveStart, Actor, TypeInv, Busy
<1>2. /\ OneRow /\ OneStall /\ LeftFree /\ UpToDate(v)
      /\ req'[v].at = "idle"
      /\ OneRow' /\ OneStall' /\ LeftFree' => CalmInv'
  BY <1>1, CalmEnds
<1>3. /\ r.ids = {} => \A i \in Id : session[i].stall # r.s
      /\ \A i \in r.ids : r.loaded.vendor = session[i].vendor
  BY <1>1, <1>2 DEF UpToDate
<1>4. OneStall' /\ LeftFree'
  BY <1>1, <1>2, StallsKept
<1>5. ASSUME NEW i \in r.ids,
             session' = [session EXCEPT ![i] =
                            Restarted(session[i], v, r.loaded)]
      PROVE  OneRow' /\ Revival
  <2> DEFINE new == Restarted(session[i], v, r.loaded)
  <2>1. i \in Id /\ r.loaded \in Row /\ session[i].stall = r.s
    BY <1>1 DEF Fits
  <2>2. session[i] \in Row
    BY <2>1, IdOK DEF TypeInv
  <2>3. /\ new \in Row /\ new.stall = session[i].stall
        /\ new.vendor = Written(v, r.loaded.vendor, session[i].vendor)
    BY <2>1, <2>2, RestartedOK
  <2>4. new.vendor = v
    BY <1>3, <2>3 DEF Written
  <2>5. session' = [session EXCEPT ![i] = new]
    BY <1>5
  <2> HIDE DEF new, r
  <2>6. /\ Id' = Id /\ session'[i] = new
        /\ \A j \in Id \ {i} : session'[j] = session[j]
    BY <2>1, <2>3, <2>5, ReplacedOK
  <2>7. \A j \in Id : session'[j].stall = session[j].stall
    BY <2>3, <2>6
  <2>8. OneRow'
    BY <1>2, <2>6, <2>7 DEF OneRow
  <2>9. \A j \in Id : session[j].status = "ended"
                        /\ session'[j].status = "live" => j = i
    BY <2>6
  <2>10. /\ req[v].at = "going live" /\ req[v].s = session[i].stall
         /\ req'[v].at = "idle" /\ session'[i].vendor = v
    BY <1>1, <1>2, <2>1, <2>4, <2>6 DEF r
  <2>11. Revival
    BY <2>9, <2>10 DEF Revival
  <2>12. QED
    BY <2>8, <2>11
<1>6. ASSUME r.ids = {},
             session' = Append(session, [stall |-> r.s, vendor |-> v,
                                         status |-> "live", old |-> FALSE])
      PROVE  OneRow' /\ Revival
  <2> DEFINE new == [stall |-> r.s, vendor |-> v, status |-> "live",
                     old |-> FALSE]
             n == Len(session)
  <2>1. new \in Row /\ new.stall = r.s
    BY <1>1 DEF Fits, Row
  <2>2. session' = Append(session, new)
    BY <1>6
  <2> HIDE DEF new, r
  <2>3. session \in Seq(Row) /\ n \in Nat
    BY DEF TypeInv, SessionsOK
  <2>4. /\ Len(session') = n + 1 /\ session'[n + 1] = new
        /\ \A j \in 1..n : session'[j] = session[j]
    BY <2>1, <2>2, <2>3
  <2>5. \A j \in 1..n : session[j].stall # r.s
    BY <1>3, <1>6 DEF Id
  <2>6. Id' = 1..(n + 1) /\ Id = 1..n
    BY <2>4 DEF Id
  <2> HIDE DEF n
  <2>7. \A i, j \in 1..n :
           session'[i].stall = session'[j].stall => i = j
    BY <1>2, <2>4, <2>6 DEF OneRow
  <2>8. \A j \in 1..n : session'[j].stall # session'[n + 1].stall
    BY <2>1, <2>4, <2>5
  <2>9. \A i \in Id' : i \in 1..n \/ i = n + 1
    BY <2>3, <2>6
  <2>10. OneRow'
    BY <2>7, <2>8, <2>9 DEF OneRow
  <2>11. Revival
    BY <2>4, <2>6 DEF Revival
  <2>12. QED
    BY <2>10, <2>11
<1>7. OneRow' /\ Revival
  BY <1>5, <1>6 DEF SaveStart
<1>8. QED
  BY <1>2, <1>4, <1>7

\* An exhibition's dates come and go.
LEMMA CalmTimePasses ==
    ASSUME TypeInv, CalmInv, calm', NEW e \in Exhibition, TimePasses(e)
    PROVE  CalmInv' /\ Revival
<1>1. Same /\ Closes
  BY Untouched DEF TimePasses
<1>2. QED
  BY <1>1, CalmPassive DEF TimePasses

\* A session is over the limit.
LEMMA CalmGrowsOld ==
    ASSUME TypeInv, CalmInv, calm', NEW i \in Id, GrowsOld(i)
    PROVE  CalmInv' /\ Revival
<1> DEFINE new == [session[i] EXCEPT !.old = TRUE]
<1>1. session[i] \in Row
  BY IdOK DEF TypeInv
<1>2. /\ new \in Row /\ new.stall = session[i].stall
      /\ new.vendor = session[i].vendor /\ new.status = session[i].status
  BY <1>1 DEF Row
<1>3. session' = [session EXCEPT ![i] = new]
  BY DEF GrowsOld
<1> HIDE DEF new
<1>4. /\ Len(session') = Len(session) /\ Id' = Id /\ session'[i] = new
      /\ \A j \in Id \ {i} : session'[j] = session[j]
  BY <1>2, <1>3, ReplacedOK
<1>5. Same /\ Closes
  BY <1>2, <1>4 DEF Same, Closes
<1>6. QED
  BY <1>5, CalmPassive DEF GrowsOld

\* A request is lost.
LEMMA CalmDies ==
    ASSUME TypeInv, CalmInv, calm', NEW a \in Actor, Dies(a)
    PROVE  CalmInv' /\ Revival
<1>1. /\ Busy(a) /\ Done(a)
      /\ UNCHANGED <<status, phase, asked, holder, session, started>>
  BY DEF Dies, Busy
<1>2. /\ OneRow /\ OneStall /\ LeftFree
      /\ OneRow' /\ OneStall' /\ LeftFree' => CalmInv'
  BY <1>1, CalmEnds
<1>3. QED
  BY <1>1, <1>2, Untouched, OneRowKept, StallsKept

\* There are no sessions, and nobody holds a stall.
LEMMA CalmInit == Init => CalmInv
<1> SUFFICES ASSUME Init PROVE CalmInv
  OBVIOUS
<1>1. TypeInv
  BY TypeInit
<1>2. \A a \in Actor : req[a].at = "idle"
  BY IdleOK DEF Init
<1>3. Alone /\ \A a \in Actor : UpToDate(a)
  BY <1>2 DEF Alone, Busy, UpToDate
<1>4. Id = {}
  BY DEF Init, Id
<1>5. OneRow
  BY <1>4 DEF OneRow
<1>6. \A s \in Stall : holder[s] = None
  BY DEF Init
<1>7. OneStall /\ LeftFree
  BY <1>6, LiveFloorAssumption DEF OneStall, LeftFree
<1>8. QED
  BY <1>3, <1>5, <1>7 DEF CalmInv

\* Every step keeps it as long as it does not make requests overlap, and
\* only a start revives a session.
LEMMA CalmNext ==
    ASSUME TypeInv, CalmInv, [Next]_vars, calm' PROVE CalmInv' /\ Revival
<1>1. CASE UNCHANGED vars
  BY <1>1, Untouched, CalmPassive DEF vars
<1>2. QED
  BY <1>1, Steps, CalmReadForLifecycle, CalmSaveLifecycle, CalmSchedule,
     CalmPatchExhibition, CalmReview, CalmReadForAssign, CalmSaveAssign,
     CalmRemoveVendor, CalmRequestJoin, CalmReadForLeave, CalmSaveLeave,
     CalmReadForStart, CalmStartRefused, CalmSaveStart, CalmEndLive, CalmLook,
     CalmTimePasses, CalmPoll, CalmGrowsOld, CalmDies

\* Once requests have overlapped it says nothing.
LEMMA CalmKept == TypeInv /\ CalmInv /\ [Next]_vars => CalmInv'
BY CalmNext DEF CalmInv

\* A stall has one broadcast on air, as long as no requests have overlapped:
\* start_live_session_for_db reuses the stall's row whatever its status is.
THEOREM OneBroadcast == Spec => []OneLivePerStall
<1>1. CalmInv => OneLivePerStall
  BY DEF CalmInv, OneRow, OneLivePerStall
<1>2. QED
  BY <1>1, TypeInit, TypeNext, CalmInit, CalmKept, PTL DEF Spec

\* Leaving an exhibition gives up the one stall that the vendor has in it, as
\* long as no requests have overlapped.
THEOREM LeavingFrees == Spec => []LeavingFreesStall
<1>1. CalmInv => LeavingFreesStall
  BY DEF CalmInv, LeftFree, LeavingFreesStall
<1>2. QED
  BY <1>1, TypeInit, TypeNext, CalmInit, CalmKept, PTL DEF Spec

\* A session that has ended comes back on air only by its stall's vendor
\* starting it, as long as no requests have overlapped.
THEOREM StartsRevive == Spec => OnlyStartsRevive
<1>1. TypeInv /\ CalmInv /\ [Next]_vars => [calm' => Revival]_vars
  BY CalmNext
<1>2. QED
  BY <1>1, TypeInit, TypeNext, CalmInit, CalmKept, PTL
     DEF Spec, OnlyStartsRevive, Revival
=============================================================================
