--------------------------- MODULE Moderation_proofs ---------------------------
(* Theorems about Moderation, for every value of its constants. *)
EXTENDS Moderation, FiniteSetTheorems, TLAPS

-----------------------------------------------------------------------------
(* Type correctness.                                                       *)

ModerationStatus == {"pending", "approved", "rejected"}
OnApplication == {"resubmit", "correct", "mailed"} \cup Review
OnPost == Write \cup Verdict \cup {"list"}

\* The rows as they may be loaded; revisions are bounded further down.
Applied == [status : {"pending", "changes_requested", "approved", "rejected"},
            revision : Nat \ {0}]

\* What a request in flight has loaded.
Request ==
    [op : {"idle"}] \cup
    [op : OnApplication, application : Applied] \cup
    [op : OnPost, status : PostStatus \cup {"none"},
     was : PostStatus \cup {"none"}, moderation : ModerationStatus,
     profile : BOOLEAN]

\* What the endpoints have checked of what they loaded, and of the payload.
Checked(r) ==
    /\ r.op = "resubmit" => r.application.status = "changes_requested"
    /\ r.op \in {"correct", "mailed"} => r.application.status # "approved"
    /\ r.op \in Write \cup Verdict => r.status \in PostStatus

TypeInv ==
    /\ application \in Applied
    /\ post \in Post
    /\ profile \in BOOLEAN
    /\ mails \in 0..MaxMails
    /\ calm \in BOOLEAN
    /\ req \in [Actor -> Request]
    /\ \A x \in Actor : Checked(req[x])

\* A request of any of the three shapes.
LEMMA Shapes ==
    ASSUME NEW r \in Request
    PROVE  /\ r.op \in {"idle"} \cup OnApplication \cup OnPost
           /\ r.op \in OnApplication => r.application \in Applied
           /\ r.op \in OnPost => /\ r.status \in PostStatus \cup {"none"}
                                 /\ r.was \in PostStatus \cup {"none"}
                                 /\ r.moderation \in ModerationStatus
                                 /\ r.profile \in BOOLEAN
BY DEF Request, OnApplication, OnPost, Review, Write, Verdict

\* What a request has loaded when it begins.
LEMMA WithApplicationOK ==
    ASSUME TypeInv, NEW op \in OnApplication
    PROVE  LET r == WithApplication(op)
           IN  r \in Request /\ r.op = op /\ r.application = application
BY DEF TypeInv, WithApplication, Request

\* A request that has loaded the post carries what the post is.
LEMMA WithPostOK ==
    ASSUME TypeInv, NEW op \in OnPost, NEW status \in PostStatus \cup {"none"}
    PROVE  LET r == WithPost(op, status)
           IN  /\ r \in Request /\ r.op = op /\ r.status = status
               /\ r.was = post.status /\ r.moderation = post.moderation
               /\ r.profile = profile
BY DEF TypeInv, WithPost, Request, Post, ModerationStatus

\* The idle request is a request and writes nothing.
LEMMA IdleOK == Idle \in Request /\ Idle.op = "idle" /\ Checked(Idle)
BY DEF Idle, Request, Checked, Write, Verdict

\* A request that begins, or goes on, with one that is well-formed.
LEMMA RequestGiven ==
    ASSUME TypeInv, NEW x \in Actor, NEW r \in Request, Checked(r),
           req' = [req EXCEPT ![x] = r]
    PROVE  /\ req' \in [Actor -> Request] /\ req'[x] = r
           /\ \A y \in Actor \ {x} : req'[y] = req[y]
           /\ \A y \in Actor : Checked(req'[y])
<1>1. /\ req' \in [Actor -> Request] /\ req'[x] = r
      /\ \A y \in Actor \ {x} : req'[y] = req[y]
  BY DEF TypeInv
<1>2. QED
  BY <1>1 DEF TypeInv

\* A request that begins keeps the types.
LEMMA TypeBegins ==
    ASSUME TypeInv, NEW x \in Actor, NEW r \in Request, Checked(r),
           Begins(x, r)
    PROVE  TypeInv'
<1>1. req' \in [Actor -> Request] /\ \A y \in Actor : Checked(req'[y])
  BY RequestGiven DEF Begins
<1>2. QED
  BY <1>1 DEF Begins, TypeInv

\* A request that ends leaves the others as they are.
LEMMA RequestDone ==
    ASSUME TypeInv, NEW x \in Actor, Done(x)
    PROVE  /\ req' \in [Actor -> Request] /\ req'[x].op = "idle"
           /\ \A y \in Actor \ {x} : req'[y] = req[y]
           /\ \A y \in Actor : Checked(req'[y])
           /\ calm' = calm
BY IdleOK, RequestGiven DEF Done

\* What SendNotice makes of a request.
LEMMA Mailed ==
    ASSUME TypeInv, NEW a \in Actor, SendNotice(a)
    PROVE  LET r == [req[a] EXCEPT !.op = "mailed"]
           IN  /\ r \in Request /\ r.op = "mailed" /\ Checked(r)
               /\ r.application = req[a].application
               /\ req' = [req EXCEPT ![a] = r]
<1> DEFINE r == [req[a] EXCEPT !.op = "mailed"]
<1>1. req[a] \in Request /\ req[a].op = "correct" /\ Checked(req[a])
  BY DEF SendNotice, TypeInv
<1>2. req[a] \in [op : OnApplication, application : Applied]
  BY <1>1 DEF Request, OnPost, Write, Verdict
<1>3. /\ r \in [op : OnApplication, application : Applied]
      /\ r.op = "mailed" /\ r.application = req[a].application
  BY <1>2 DEF OnApplication
<1>4. req' = [req EXCEPT ![a] = r]
  BY DEF SendNotice
<1>5. QED
  BY <1>1, <1>3, <1>4 DEF Request, Checked, Write, Verdict

\* The rows after a commit.
LEMMA ApplicationSaved ==
    ASSUME TypeInv, NEW x \in Actor, SaveApplication(x)
    PROVE  /\ application' \in Applied
           /\ application'.status = Written(StatusOf(req[x].op),
                                            req[x].application.status,
                                            application.status)
           /\ application'.revision = IF req[x].op = "resubmit"
                                        THEN req[x].application.revision + 1
                                        ELSE application.revision
<1>1. /\ req[x].op \in {"resubmit", "approve", "reject", "mailed"}
      /\ req[x] \in Request
  BY DEF SaveApplication, TypeInv
<1>2. req[x].application \in Applied
  BY <1>1, Shapes DEF OnApplication, Review
<1>3. Written(StatusOf(req[x].op), req[x].application.status,
              application.status)
        \in {"pending", "changes_requested", "approved", "rejected"}
  BY <1>1 DEF Written, StatusOf, TypeInv, Applied
<1>4. req[x].application.revision + 1 \in Nat \ {0}
  BY <1>2 DEF Applied
<1>5. QED
  BY <1>3, <1>4 DEF SaveApplication, Applied, TypeInv

\* What a commit of a post leaves behind, column by column.
LEMMA PostSaved ==
    ASSUME TypeInv, NEW x \in Actor, SavePost(x)
    PROVE  /\ post' \in Post
           /\ post'.moderation = Written(Moderation(req[x]), req[x].moderation,
                                         post.moderation)
           /\ post'.reviewed = ((post.reviewed \/ req[x].op = "approve_post")
                                   /\ ~HandsIn(req[x]))
           /\ profile' = (profile \/ Ensures(req[x]))
<1>1. req[x].op \in OnPost /\ req[x] \in Request /\ Checked(req[x])
  BY DEF SavePost, TypeInv, OnPost
<1>2. /\ req[x].moderation \in ModerationStatus
      /\ req[x].op # "list" => req[x].status \in PostStatus
  BY <1>1, Shapes DEF Checked, OnPost
<1>3. Moderation(req[x]) \in ModerationStatus
  BY <1>2 DEF Moderation, ModerationStatus
<1>4. QED
  BY <1>2, <1>3 DEF SavePost, Post, TypeInv, Written, ModerationStatus

\* A request that begins on the application, or on the post.
OpensApplication(x, op) ==
    /\ Begins(x, WithApplication(op))
    /\ op = "resubmit" => MayResubmit
    /\ op = "correct" => MayBeCorrected

OpensPost(x, op, status) ==
    /\ Begins(x, WithPost(op, status))
    /\ op # "list" => status \in PostStatus

Opening == {"resubmit", "correct"} \cup Review

\* Every step is one actor's: it begins a request, has its e-mail sent,
\* commits, or dies.
LEMMA Steps ==
    ASSUME TypeInv, Next
    PROVE  \/ \E x \in Actor, op \in Opening : OpensApplication(x, op)
           \/ \E x \in Actor, op \in OnPost, s \in PostStatus \cup {"none"} :
                 OpensPost(x, op, s)
           \/ \E x \in Actor : SendNotice(x)
           \/ \E x \in Actor : SaveApplication(x)
           \/ \E x \in Actor : SavePost(x)
           \/ \E x \in Actor : Dies(x)
<1> DEFINE OnRow == \E x \in Actor, op \in Opening : OpensApplication(x, op)
           OnThePost == \E x \in Actor, op \in OnPost,
                            s \in PostStatus \cup {"none"} : OpensPost(x, op, s)
<1>1. ASSUME NEW t \in Tab, ReadResubmit(t)
      PROVE  OnRow
  <2>1. t \in Actor /\ OpensApplication(t, "resubmit") /\ "resubmit" \in Opening
    BY <1>1 DEF ReadResubmit, Actor, OpensApplication, Opening
  <2>2. QED
    BY <2>1
<1>2. ASSUME NEW t \in Tab, ReadList(t)
      PROVE  OnThePost
  <2>1. t \in Actor /\ OpensPost(t, "list", "none") /\ "list" \in OnPost
    BY <1>2 DEF ReadList, Actor, OnPost, OpensPost
  <2>2. QED
    BY <2>1
<1>3. ASSUME NEW t \in Tab, NEW op \in Write, NEW s \in PostStatus,
             ReadWrite(t, op, s)
      PROVE  OnThePost
  <2>1. t \in Actor /\ OpensPost(t, op, s) /\ op \in OnPost
    BY <1>3 DEF ReadWrite, Actor, OnPost, OpensPost
  <2>2. QED
    BY <2>1
<1>4. ASSUME NEW a \in Admin, NEW op \in Review, ReadReview(a, op)
      PROVE  OnRow
  <2>1. a \in Actor /\ OpensApplication(a, op) /\ op \in Opening
    BY <1>4 DEF ReadReview, Actor, Review, OpensApplication, Opening
  <2>2. QED
    BY <2>1
<1>5. ASSUME NEW a \in Admin, ReadCorrect(a)
      PROVE  OnRow
  <2>1. a \in Actor /\ OpensApplication(a, "correct") /\ "correct" \in Opening
    BY <1>5 DEF ReadCorrect, Actor, OpensApplication, Opening
  <2>2. QED
    BY <2>1
<1>6. ASSUME NEW a \in Admin, NEW op \in Verdict, ReadVerdict(a, op)
      PROVE  OnThePost
  <2>1. /\ a \in Actor /\ OpensPost(a, op, "published")
        /\ op \in OnPost /\ "published" \in PostStatus
    BY <1>6 DEF ReadVerdict, Actor, OnPost, PostStatus, OpensPost
  <2>2. QED
    BY <2>1
<1>7. \A a \in Admin : a \in Actor
  BY DEF Actor
<1> HIDE DEF OnRow, OnThePost
<1>8. \/ OnRow \/ OnThePost
      \/ \E x \in Actor : SendNotice(x)
      \/ \E x \in Actor : SaveApplication(x)
      \/ \E x \in Actor : SavePost(x)
      \/ \E x \in Actor : Dies(x)
  BY <1>1, <1>2, <1>3, <1>4, <1>5, <1>6, <1>7 DEF Next
<1>9. QED
  BY <1>8 DEF OnRow, OnThePost

\* The type invariant holds at the start.
LEMMA TypeInit == Init => TypeInv
<1> SUFFICES ASSUME Init PROVE TypeInv
  OBVIOUS
<1>1. \A x \in Actor : req[x] = Idle
  BY DEF Init
<1>2. req \in [Actor -> Request] /\ \A x \in Actor : Checked(req[x])
  BY <1>1, IdleOK DEF Init
<1>3. application \in Applied /\ post \in Post
  BY DEF Init, Applied, Post, PostStatus
<1>4. profile \in BOOLEAN /\ calm \in BOOLEAN
  BY DEF Init
<1>5. mails \in 0..MaxMails
  <2>1. mails = 0
    BY DEF Init
  <2>2. QED
    BY <2>1, ModerationAssumption
<1>6. QED
  BY <1>2, <1>3, <1>4, <1>5 DEF TypeInv

\* Every step keeps the type invariant.
LEMMA TypeNext == TypeInv /\ [Next]_vars => TypeInv'
<1> SUFFICES ASSUME TypeInv, [Next]_vars PROVE TypeInv'
  OBVIOUS
<1>1. ASSUME NEW x \in Actor, NEW op \in Opening, OpensApplication(x, op)
      PROVE  TypeInv'
  <2> DEFINE r == WithApplication(op)
  <2>1. r \in Request /\ r.op = op /\ r.application = application
    BY WithApplicationOK DEF OnApplication, Opening
  <2>2. Checked(r)
    BY <1>1, <2>1 DEF Checked, MayResubmit, MayBeCorrected, Write, Verdict,
                      Review, Opening, OpensApplication
  <2>3. Begins(x, r)
    BY <1>1 DEF OpensApplication
  <2> HIDE DEF r
  <2>4. QED
    BY <2>1, <2>2, <2>3, TypeBegins
<1>2. ASSUME NEW x \in Actor, NEW op \in OnPost,
             NEW s \in PostStatus \cup {"none"}, OpensPost(x, op, s)
      PROVE  TypeInv'
  <2> DEFINE r == WithPost(op, s)
  <2>1. r \in Request /\ r.op = op /\ r.status = s
    BY WithPostOK
  <2>2. Checked(r)
    BY <1>2, <2>1 DEF Checked, OnPost, Write, Verdict, OpensPost
  <2>3. Begins(x, r)
    BY <1>2 DEF OpensPost
  <2> HIDE DEF r
  <2>4. QED
    BY <2>1, <2>2, <2>3, TypeBegins
<1>3. ASSUME NEW x \in Actor, SendNotice(x) PROVE TypeInv'
  <2>1. req' \in [Actor -> Request] /\ \A y \in Actor : Checked(req'[y])
    BY <1>3, Mailed, RequestGiven
  <2>2. mails' \in 0..MaxMails
    BY <1>3, ModerationAssumption DEF SendNotice, TypeInv
  <2>3. QED
    BY <1>3, <2>1, <2>2 DEF SendNotice, TypeInv
<1>4. ASSUME NEW x \in Actor, SaveApplication(x) PROVE TypeInv'
  BY <1>4, ApplicationSaved, RequestDone DEF SaveApplication, TypeInv
<1>5. ASSUME NEW x \in Actor, SavePost(x) PROVE TypeInv'
  <2>1. profile' \in BOOLEAN
    BY <1>5, PostSaved
  <2>2. QED
    BY <1>5, <2>1, PostSaved, RequestDone DEF SavePost, TypeInv
<1>6. ASSUME NEW x \in Actor, Dies(x) PROVE TypeInv'
  BY <1>6, RequestDone DEF Dies, TypeInv
<1>7. CASE UNCHANGED vars
  BY <1>7 DEF vars, TypeInv
<1>8. QED
  BY <1>1, <1>2, <1>3, <1>4, <1>5, <1>6, <1>7, Steps

-----------------------------------------------------------------------------
(* Notices.                                                                *)

\* Administrators whose notice was sent and who have not committed it.
Noticed == {x \in Actor : req[x].op = "mailed"}

\* The notices that are still to be answered: one each for those on their
\* way, and one if the application is open for corrections.
Unanswered == Cardinality(Noticed)
                 + IF application.status = "changes_requested" THEN 1 ELSE 0

\* Every new revision has used up a notice that was sent before it, and so
\* will the one of a resubmission in flight.
NoticeInv ==
    /\ IsFiniteSet(Noticed)
    /\ application.revision + Unanswered <= mails + 1
    /\ \A x \in Actor : req[x].op = "resubmit" =>
          req[x].application.revision + Cardinality(Noticed) <= mails

\* Who is noticed after a step that gives one actor another request.
LEMMA NoticedChanges ==
    ASSUME TypeInv, IsFiniteSet(Noticed), NEW x \in Actor,
           \A y \in Actor \ {x} : req'[y] = req[y]
    PROVE  /\ IsFiniteSet(Noticed')
           /\ Cardinality(Noticed) \in Nat /\ Cardinality(Noticed') \in Nat
           /\ req'[x].op = "mailed" /\ req[x].op # "mailed" =>
                 Cardinality(Noticed') = Cardinality(Noticed) + 1
           /\ req'[x].op # "mailed" /\ req[x].op = "mailed" =>
                 Cardinality(Noticed') = Cardinality(Noticed) - 1
           /\ (req'[x].op = "mailed" <=> req[x].op = "mailed") =>
                 Cardinality(Noticed') = Cardinality(Noticed)
<1>1. Cardinality(Noticed) \in Nat
  BY FS_CardinalityType
<1>2. CASE req'[x].op = "mailed" /\ req[x].op # "mailed"
  <2>1. Noticed' = Noticed \cup {x} /\ x \notin Noticed
    BY <1>2 DEF Noticed
  <2>2. /\ IsFiniteSet(Noticed') /\ Cardinality(Noticed') \in Nat
        /\ Cardinality(Noticed') = Cardinality(Noticed) + 1
    BY <2>1, FS_AddElement, FS_CardinalityType
  <2>3. QED
    BY <1>1, <1>2, <2>2
<1>3. CASE req'[x].op # "mailed" /\ req[x].op = "mailed"
  <2>1. Noticed' = Noticed \ {x} /\ x \in Noticed
    BY <1>3 DEF Noticed
  <2>2. /\ IsFiniteSet(Noticed') /\ Cardinality(Noticed') \in Nat
        /\ Cardinality(Noticed') = Cardinality(Noticed) - 1
    BY <2>1, FS_RemoveElement, FS_CardinalityType
  <2>3. QED
    BY <1>1, <1>3, <2>2
<1>4. CASE req'[x].op = "mailed" <=> req[x].op = "mailed"
  <2>1. Noticed' = Noticed
    BY <1>4 DEF Noticed
  <2>2. QED
    BY <1>1, <1>4, <2>1
<1>5. QED
  BY <1>2, <1>3, <1>4

\* A step that leaves the application and the number of notices alone and
\* makes nobody noticed, or a resubmission of what it may not be about.
LEMMA NoticeKept ==
    ASSUME TypeInv, NoticeInv, NEW x \in Actor, UNCHANGED <<application, mails>>,
           \A y \in Actor \ {x} : req'[y] = req[y],
           req'[x].op # "mailed",
           req'[x].op = "resubmit" =>
              /\ req[x].op = "idle" /\ application.status = "changes_requested"
              /\ req'[x].application = application
    PROVE  NoticeInv'
<1> DEFINE n == Cardinality(Noticed)
           m == Cardinality(Noticed')
<1>1. /\ IsFiniteSet(Noticed') /\ n \in Nat /\ m \in Nat /\ m <= n
  BY NoticedChanges DEF NoticeInv
<1>2. mails \in Int /\ application.revision \in Int
  BY DEF TypeInv, Applied
<1>3. application.revision + n <= mails + 1
  BY <1>1, <1>2 DEF NoticeInv, Unanswered
<1>4. application'.revision + Unanswered' <= mails' + 1
  BY <1>1, <1>2 DEF NoticeInv, Unanswered
<1>5. ASSUME NEW y \in Actor, req'[y].op = "resubmit"
      PROVE  req'[y].application.revision + m <= mails'
  <2>1. CASE y = x
    <3>1. req'[y].application.revision + n <= mails
      BY <1>1, <1>2, <1>5, <2>1 DEF NoticeInv, Unanswered
    <3>2. req'[y].application.revision \in Int
      BY <1>2, <1>5, <2>1
    <3>3. QED
      BY <1>1, <1>2, <3>1, <3>2
  <2>2. CASE y # x
    <3>1. req[y].application.revision + n <= mails
      BY <1>5, <2>2 DEF NoticeInv
    <3>2. req[y].application.revision \in Int
      BY <1>5, <2>2, Shapes DEF TypeInv, OnApplication, Applied
    <3>3. QED
      BY <1>1, <1>2, <2>2, <3>1, <3>2
  <2>3. QED
    BY <2>1, <2>2
<1>6. QED
  BY <1>1, <1>4, <1>5 DEF NoticeInv

\* Nothing is in flight at first.
LEMMA NoticeInit == Init => NoticeInv
<1> SUFFICES ASSUME Init PROVE NoticeInv
  OBVIOUS
<1>1. \A x \in Actor : req[x].op = "idle"
  BY IdleOK DEF Init
<1>2. Noticed = {}
  BY <1>1 DEF Noticed
<1>3. IsFiniteSet(Noticed) /\ Cardinality(Noticed) = 0
  BY <1>2, FS_EmptySet
<1>4. /\ application.status = "pending" /\ application.revision = 1
      /\ mails = 0
  BY DEF Init
<1>5. QED
  BY <1>1, <1>3, <1>4 DEF NoticeInv, Unanswered

\* A commit of the application.  A resubmission spends the notice it answers;
\* the correction whose e-mail was sent opens the application for one.
LEMMA NoticeSaved ==
    ASSUME TypeInv, NoticeInv, NEW x \in Actor, SaveApplication(x)
    PROVE  NoticeInv'
<1> DEFINE n == Cardinality(Noticed)
           m == Cardinality(Noticed')
           r == req[x]
<1>1. /\ mails' = mails /\ req'[x].op = "idle"
      /\ \A y \in Actor \ {x} : req'[y] = req[y]
      /\ r \in Request /\ Checked(r)
      /\ r.op \in {"resubmit", "approve", "reject", "mailed"}
  BY RequestDone DEF SaveApplication, TypeInv
<1>2. /\ IsFiniteSet(Noticed') /\ n \in Nat /\ m \in Nat
      /\ m = IF r.op = "mailed" THEN n - 1 ELSE n
  BY <1>1, NoticedChanges DEF NoticeInv
<1>3. r.application \in Applied
  BY <1>1, Shapes DEF OnApplication, Review
<1>4. /\ mails \in Int /\ application.revision \in Int
      /\ r.application.revision \in Int
  BY <1>3 DEF TypeInv, Applied
<1>5. application'.revision + Unanswered' <= mails' + 1
  <2>1. CASE r.op = "resubmit"
    <3>2. application'.status # "changes_requested"
      BY <1>1, <2>1, ApplicationSaved DEF Written, StatusOf, Checked
    <3>3. application'.revision = r.application.revision + 1
      BY <2>1, ApplicationSaved
    <3>4. r.application.revision + n <= mails
      BY <2>1 DEF NoticeInv
    <3>5. Unanswered' = n
      BY <1>2, <2>1, <3>2 DEF Unanswered
    <3>6. QED
      BY <1>1, <1>2, <1>4, <3>3, <3>4, <3>5
  <2>2. CASE r.op = "mailed"
    <3>1. application'.revision = application.revision
      BY <2>2, ApplicationSaved
    <3>2. application.revision + n <= mails + 1
      BY <1>2, <1>4 DEF NoticeInv, Unanswered
    <3>3. Unanswered' <= n
      BY <1>2, <2>2 DEF Unanswered
    <3>4. Unanswered' \in Int
      BY <1>2 DEF Unanswered
    <3>5. QED
      BY <1>1, <1>2, <1>4, <3>1, <3>2, <3>3, <3>4
  <2>3. CASE r.op \in {"approve", "reject"}
    <3>1. application'.revision = application.revision
      BY <2>3, ApplicationSaved
    <3>2. application'.status = "changes_requested"
             => application.status = "changes_requested"
      BY <2>3, ApplicationSaved DEF Written, StatusOf
    <3>3. Unanswered' \in Int /\ Unanswered \in Int /\ Unanswered' <= Unanswered
      BY <1>2, <2>3, <3>2 DEF Unanswered
    <3>4. QED
      BY <1>1, <1>4, <3>1, <3>3 DEF NoticeInv
  <2>4. QED
    BY <1>1, <2>1, <2>2, <2>3
<1>6. ASSUME NEW y \in Actor, req'[y].op = "resubmit"
      PROVE  req'[y].application.revision + m <= mails'
  <2>1. y # x /\ req'[y] = req[y] /\ req[y].op = "resubmit"
    BY <1>1, <1>6
  <2>2. req[y].application.revision + n <= mails
    BY <2>1 DEF NoticeInv
  <2>3. req[y].application.revision \in Int
    BY <2>1, Shapes DEF TypeInv, OnApplication, Applied
  <2>4. QED
    BY <1>1, <1>2, <1>4, <2>1, <2>2, <2>3
<1>7. QED
  BY <1>2, <1>5, <1>6 DEF NoticeInv

\* The e-mail of a correction.
LEMMA NoticeSent ==
    ASSUME TypeInv, NoticeInv, NEW x \in Actor, SendNotice(x)
    PROVE  NoticeInv'
<1> DEFINE n == Cardinality(Noticed)
           m == Cardinality(Noticed')
<1>1. /\ mails' = mails + 1 /\ application' = application
      /\ req[x].op = "correct"
  BY DEF SendNotice
<1>2. req'[x].op = "mailed" /\ \A y \in Actor \ {x} : req'[y] = req[y]
  BY Mailed, RequestGiven
<1>3. IsFiniteSet(Noticed') /\ n \in Nat /\ m \in Nat /\ m = n + 1
  BY <1>1, <1>2, NoticedChanges DEF NoticeInv
<1>4. mails \in Int /\ application.revision \in Int
  BY DEF TypeInv, Applied
<1>5. Unanswered \in Int /\ Unanswered' = Unanswered + 1
  BY <1>1, <1>3 DEF Unanswered
<1>6. application'.revision + Unanswered' <= mails' + 1
  BY <1>1, <1>4, <1>5 DEF NoticeInv
<1>7. ASSUME NEW y \in Actor, req'[y].op = "resubmit"
      PROVE  req'[y].application.revision + m <= mails'
  <2>1. y # x /\ req'[y] = req[y] /\ req[y].op = "resubmit"
    BY <1>2, <1>7
  <2>2. req[y].application.revision + n <= mails
    BY <2>1 DEF NoticeInv
  <2>3. req[y].application.revision \in Int
    BY <2>1, Shapes DEF TypeInv, OnApplication, Applied
  <2>4. QED
    BY <1>1, <1>3, <1>4, <2>1, <2>2, <2>3
<1>8. QED
  BY <1>3, <1>6, <1>7 DEF NoticeInv

\* Every step keeps the notice invariant.
LEMMA NoticeNext == TypeInv /\ NoticeInv /\ [Next]_vars => NoticeInv'
<1> SUFFICES ASSUME TypeInv, NoticeInv, [Next]_vars PROVE NoticeInv'
  OBVIOUS
<1>1. ASSUME NEW x \in Actor, NEW op \in Opening, OpensApplication(x, op)
      PROVE  NoticeInv'
  <2> DEFINE r == WithApplication(op)
  <2>1. r \in Request /\ r.op = op /\ r.application = application
    BY WithApplicationOK DEF OnApplication, Opening
  <2>2. Checked(r)
    BY <1>1, <2>1 DEF Checked, MayResubmit, MayBeCorrected, Write, Verdict,
                      Review, Opening, OpensApplication
  <2>3. /\ Begins(x, r) /\ op # "mailed"
        /\ op = "resubmit" => application.status = "changes_requested"
    BY <1>1 DEF OpensApplication, Opening, Review, MayResubmit
  <2> HIDE DEF r
  <2>4. /\ UNCHANGED <<application, mails>> /\ req[x].op = "idle"
        /\ req'[x] = r /\ \A y \in Actor \ {x} : req'[y] = req[y]
    BY <2>1, <2>2, <2>3, RequestGiven DEF Begins
  <2>5. QED
    BY <2>1, <2>3, <2>4, NoticeKept
<1>2. ASSUME NEW x \in Actor, NEW op \in OnPost,
             NEW s \in PostStatus \cup {"none"}, OpensPost(x, op, s)
      PROVE  NoticeInv'
  <2> DEFINE r == WithPost(op, s)
  <2>1. r \in Request /\ r.op = op /\ r.status = s
    BY WithPostOK
  <2>2. Checked(r)
    BY <1>2, <2>1 DEF Checked, OnPost, Write, Verdict, OpensPost
  <2>3. Begins(x, r) /\ op \notin {"mailed", "resubmit"}
    BY <1>2 DEF OpensPost, OnPost, Write, Verdict
  <2> HIDE DEF r
  <2>4. /\ UNCHANGED <<application, mails>>
        /\ req'[x] = r /\ \A y \in Actor \ {x} : req'[y] = req[y]
    BY <2>1, <2>2, <2>3, RequestGiven DEF Begins
  <2>5. QED
    BY <2>1, <2>3, <2>4, NoticeKept
<1>3. ASSUME NEW x \in Actor, SendNotice(x) PROVE NoticeInv'
  BY <1>3, NoticeSent
<1>4. ASSUME NEW x \in Actor, SaveApplication(x) PROVE NoticeInv'
  BY <1>4, NoticeSaved
<1>5. ASSUME NEW x \in Actor, SavePost(x) \/ Dies(x) PROVE NoticeInv'
  <2>1. UNCHANGED <<application, mails>> /\ Done(x)
    BY <1>5 DEF SavePost, Dies
  <2>2. req'[x].op = "idle" /\ \A y \in Actor \ {x} : req'[y] = req[y]
    BY <2>1, RequestDone
  <2>3. QED
    BY <2>1, <2>2, NoticeKept
<1>6. CASE UNCHANGED vars
  BY <1>6 DEF vars, NoticeInv, Unanswered, Noticed
<1>7. QED
  BY <1>1, <1>2, <1>3, <1>4, <1>5, <1>6, Steps

\* The rows, and what requests in flight carry, are always well-formed: the
\* revision of the application stays within the notices sent, which bounds
\* it whatever requests overlap or die.
THEOREM TypeCorrect == Spec => []TypeOK
<1>1. TypeInv /\ NoticeInv => TypeOK
  <2> SUFFICES ASSUME TypeInv, NoticeInv PROVE TypeOK
    OBVIOUS
  <2>1. Cardinality(Noticed) \in Nat
    BY FS_CardinalityType DEF NoticeInv
  <2>2. mails \in 0..MaxMails /\ application.revision \in Nat \ {0}
    BY DEF TypeInv, Applied
  <2>3. application.revision <= mails + 1
    BY <2>1, <2>2 DEF NoticeInv, Unanswered
  <2>4. application.revision \in 1..(MaxMails + 1)
    BY <2>2, <2>3, ModerationAssumption
  <2>5. application \in Application
    BY <2>4 DEF TypeInv, Applied, Application
  <2>6. ASSUME NEW x \in Actor
        PROVE  req[x].op \in {"idle", "resubmit", "correct", "mailed", "list"}
                               \cup Review \cup Write \cup Verdict
    BY Shapes DEF TypeInv, OnApplication, OnPost
  <2>7. QED
    BY <2>5, <2>6 DEF TypeOK, TypeInv
<1>2. QED
  BY <1>1, TypeInit, TypeNext, NoticeInit, NoticeNext, PTL DEF Spec

\* Each new revision of an application answers a notice of its own: requests
\* that overlap, or die after their e-mail, never number it ahead of the
\* corrections asked for.
THEOREM RevisionsAnswerNotices == Spec => []AnswersNotices
<1>1. TypeInv /\ NoticeInv => AnswersNotices
  <2> SUFFICES ASSUME TypeInv, NoticeInv PROVE AnswersNotices
    OBVIOUS
  <2>1. Cardinality(Noticed) \in Nat
    BY FS_CardinalityType DEF NoticeInv
  <2>2. mails \in Int /\ application.revision \in Int
    BY DEF TypeInv, Applied
  <2>3. QED
    BY <2>1, <2>2 DEF NoticeInv, Unanswered, AnswersNotices
<1>2. QED
  BY <1>1, TypeInit, TypeNext, NoticeInit, NoticeNext, PTL DEF Spec

-----------------------------------------------------------------------------
(* What the public sees.                                                   *)

\* Whoever approves a post makes the profile.
ProfileInv == post.moderation = "approved" => profile

\* The profile invariant holds at the start.
LEMMA ProfileInit == Init => ProfileInv
BY DEF Init, ProfileInv

\* Every step keeps the profile invariant: an approval makes the profile in
\* its own commit.
LEMMA ProfileNext == TypeInv /\ ProfileInv /\ [Next]_vars => ProfileInv'
<1> SUFFICES ASSUME TypeInv, ProfileInv, [Next]_vars PROVE ProfileInv'
  OBVIOUS
<1>1. CASE UNCHANGED <<post, profile>>
  BY <1>1 DEF ProfileInv
<1>2. ASSUME NEW x \in Actor, SavePost(x) PROVE ProfileInv'
  <2> SUFFICES ASSUME post'.moderation = "approved" PROVE profile'
    BY DEF ProfileInv
  <2>1. \/ post'.moderation = post.moderation
        \/ post'.moderation = Moderation(req[x])
             /\ Moderation(req[x]) # req[x].moderation
    BY <1>2, PostSaved DEF Written
  <2>2. CASE post'.moderation = post.moderation
    BY <1>2, <2>2, PostSaved DEF ProfileInv
  <2>3. CASE post'.moderation = Moderation(req[x])
             /\ Moderation(req[x]) # req[x].moderation
    <3>1. req[x].op = "approve_post"
      BY <2>3 DEF Moderation
    <3>2. QED
      BY <1>2, <3>1, PostSaved DEF Ensures
  <2>4. QED
    BY <2>1, <2>2, <2>3
<1>3. \/ UNCHANGED <<post, profile>> \/ \E x \in Actor : SavePost(x)
  BY Steps DEF vars, OpensApplication, OpensPost, Begins, SendNotice,
               SaveApplication, Dies
<1>4. QED
  BY <1>1, <1>2, <1>3

\* An approved and published post of an approved vendor has a profile to be
\* shown under, in whatever order requests load and commit.
THEOREM ApprovedPostAppears == Spec => []ApprovedAppears
<1>1. ProfileInv => ApprovedAppears
  BY DEF ProfileInv, ApprovedAppears, Shown
<1>2. QED
  BY <1>1, TypeInit, TypeNext, ProfileInit, ProfileNext, PTL DEF Spec

-----------------------------------------------------------------------------
(* Requests that do not overlap.                                           *)

Busy(x) == req[x].op # "idle"

\* What a request has loaded is what is in the database.
Current(x) ==
    /\ req[x].op \in OnApplication => req[x].application = application
    /\ req[x].op \in OnPost => req[x].moderation = post.moderation

\* While no two requests have overlapped, one at most is in flight, and it
\* works on the rows as they are.
CalmInv ==
    calm => /\ \A x, y \in Actor : Busy(x) /\ Busy(y) => x = y
            /\ \A x \in Actor : Current(x)

\* The calm invariant holds at the start.
LEMMA CalmInit == Init => CalmInv
<1> SUFFICES ASSUME Init PROVE CalmInv
  OBVIOUS
<1>1. \A x \in Actor : req[x].op = "idle"
  BY IdleOK DEF Init
<1>2. QED
  BY <1>1 DEF CalmInv, Busy, Current, OnApplication, OnPost, Review, Write,
              Verdict

\* A request that begins alone has just loaded its row.
LEMMA CalmBegins ==
    ASSUME TypeInv, CalmInv, NEW x \in Actor, NEW r \in Request, Checked(r),
           Begins(x, r),
           r.op \in OnApplication => r.application = application,
           r.op \in OnPost => r.moderation = post.moderation
    PROVE  CalmInv'
<1> SUFFICES ASSUME calm' PROVE CalmInv'
  BY DEF CalmInv
<1>1. /\ req'[x] = r /\ \A y \in Actor \ {x} : req'[y] = req[y]
      /\ application' = application /\ post' = post
      /\ \A y \in Actor : req[y].op = "idle"
  BY RequestGiven DEF Begins
<1>2. \A y \in Actor : y = x \/ req'[y].op = "idle"
  BY <1>1
<1>3. ASSUME NEW y \in Actor PROVE Current(y)'
  <2>1. "idle" \notin OnApplication /\ "idle" \notin OnPost
    BY DEF OnApplication, OnPost, Review, Write, Verdict
  <2>2. QED
    BY <1>1, <1>2, <2>1 DEF Current
<1>4. QED
  BY <1>2, <1>3 DEF CalmInv, Busy

\* A request that ends was the only one, whatever it wrote.
LEMMA CalmDone ==
    ASSUME TypeInv, CalmInv, NEW x \in Actor, Busy(x), Done(x)
    PROVE  CalmInv'
<1> SUFFICES ASSUME calm' PROVE CalmInv'
  BY DEF CalmInv
<1>1. calm /\ req'[x].op = "idle" /\ \A y \in Actor \ {x} : req'[y] = req[y]
  BY RequestDone
<1>2. \A y \in Actor : req'[y].op = "idle"
  BY <1>1 DEF CalmInv, Busy
<1>3. QED
  BY <1>2 DEF CalmInv, Busy, Current, OnApplication, OnPost, Review, Write,
              Verdict

\* Every step keeps the calm invariant.
LEMMA CalmNext == TypeInv /\ CalmInv /\ [Next]_vars => CalmInv'
<1> SUFFICES ASSUME TypeInv, CalmInv, [Next]_vars PROVE CalmInv'
  OBVIOUS
<1>1. ASSUME NEW x \in Actor, NEW op \in Opening, OpensApplication(x, op)
      PROVE  CalmInv'
  <2> DEFINE r == WithApplication(op)
  <2>1. r \in Request /\ r.op = op /\ r.application = application
    BY WithApplicationOK DEF OnApplication, Opening
  <2>2. Checked(r)
    BY <1>1, <2>1 DEF Checked, MayResubmit, MayBeCorrected, Write, Verdict,
                      Review, Opening, OpensApplication
  <2>3. Begins(x, r) /\ r.op \notin OnPost
    BY <1>1, <2>1 DEF OpensApplication, Opening, OnPost, Review, Write, Verdict
  <2> HIDE DEF r
  <2>4. QED
    BY <2>1, <2>2, <2>3, CalmBegins
<1>2. ASSUME NEW x \in Actor, NEW op \in OnPost,
             NEW s \in PostStatus \cup {"none"}, OpensPost(x, op, s)
      PROVE  CalmInv'
  <2> DEFINE r == WithPost(op, s)
  <2>1. /\ r \in Request /\ r.op = op /\ r.status = s
        /\ r.moderation = post.moderation
    BY WithPostOK
  <2>2. Checked(r)
    BY <1>2, <2>1 DEF Checked, OnPost, Write, Verdict, OpensPost
  <2>3. Begins(x, r) /\ r.op \notin OnApplication
    BY <1>2, <2>1 DEF OpensPost, OnPost, OnApplication, Review, Write, Verdict
  <2> HIDE DEF r
  <2>4. QED
    BY <2>1, <2>2, <2>3, CalmBegins
<1>3. ASSUME NEW x \in Actor, SendNotice(x) PROVE CalmInv'
  <2> DEFINE r == [req[x] EXCEPT !.op = "mailed"]
  <2>1. /\ r \in Request /\ r.op = "mailed" /\ Checked(r)
        /\ r.application = req[x].application /\ req' = [req EXCEPT ![x] = r]
    BY <1>3, Mailed
  <2> HIDE DEF r
  <2>2. req'[x] = r /\ \A y \in Actor \ {x} : req'[y] = req[y]
    BY <2>1, RequestGiven
  <2>3. /\ UNCHANGED <<application, post, calm>> /\ req[x].op = "correct"
        /\ "mailed" \notin OnPost /\ "correct" \in OnApplication
    BY <1>3 DEF SendNotice, OnPost, OnApplication, Write, Verdict
  <2>4. \A y \in Actor : Busy(y)' <=> Busy(y)
    BY <2>1, <2>2, <2>3 DEF Busy
  <2>5. \A y \in Actor : Current(y) => Current(y)'
    BY <2>1, <2>2, <2>3 DEF Current
  <2>6. QED
    BY <2>3, <2>4, <2>5 DEF CalmInv
<1>4. ASSUME NEW x \in Actor, SaveApplication(x) \/ SavePost(x) \/ Dies(x)
      PROVE  CalmInv'
  <2>1. Busy(x) /\ Done(x)
    BY <1>4 DEF SaveApplication, SavePost, Dies, Busy, Write, Verdict
  <2>2. QED
    BY <2>1, CalmDone
<1>5. CASE UNCHANGED vars
  BY <1>5 DEF vars, CalmInv, Busy, Current
<1>6. QED
  BY <1>1, <1>2, <1>3, <1>4, <1>5, Steps

\* "Approved vendors cannot be returned to the application correction
\* queue": only a rejection takes an approval back, unless requests overlap.
THEOREM ApprovalsStand == Spec => ApprovalStands
<1>1. TypeInv /\ CalmInv /\ [Next]_vars
        => [(calm' /\ application.status = "approved")
              => application'.status \in {"approved", "rejected"}]_application
  <2> SUFFICES ASSUME TypeInv, CalmInv, [Next]_vars,
                      application' # application, calm',
                      application.status = "approved"
               PROVE  application'.status \in {"approved", "rejected"}
    OBVIOUS
  <2>1. PICK x \in Actor : SaveApplication(x)
    BY Steps DEF vars, OpensApplication, OpensPost, Begins, SendNotice,
                 SavePost, Dies
  <2>2. /\ req[x].op \in {"resubmit", "approve", "reject", "mailed"}
        /\ Checked(req[x]) /\ calm
    BY <2>1, RequestDone DEF SaveApplication, TypeInv
  <2>3. req[x].application.status = "approved"
    BY <2>2 DEF CalmInv, Current, OnApplication, Review
  <2>4. req[x].op \in {"approve", "reject"}
    BY <2>2, <2>3 DEF Checked
  <2>5. QED
    BY <2>1, <2>3, <2>4, ApplicationSaved DEF Written, StatusOf
<1>2. QED
  BY <1>1, TypeInit, TypeNext, CalmInit, CalmNext, PTL DEF Spec, ApprovalStands

\* An approval of the post is about what was last handed in.
ReviewInv == calm => (post.moderation = "approved" => post.reviewed)

\* Requests that have overlapped have overlapped for good.
LEMMA OnceCalm ==
    ASSUME TypeInv, [Next]_vars, calm'
    PROVE  calm
<1>1. ASSUME NEW x \in Actor, NEW r, Begins(x, r) PROVE calm
  BY <1>1 DEF Begins
<1>2. ASSUME NEW x \in Actor, SendNotice(x) PROVE calm
  BY <1>2 DEF SendNotice
<1>3. ASSUME NEW x \in Actor, Done(x) PROVE calm
  BY <1>3 DEF Done
<1>4. CASE UNCHANGED vars
  BY <1>4 DEF vars
<1>5. QED
  BY <1>1, <1>2, <1>3, <1>4, Steps DEF OpensApplication, OpensPost,
     SaveApplication, SavePost, Dies

\* Every step keeps that an approved post was reviewed as it stands, while calm.
LEMMA ReviewNext ==
    TypeInv /\ CalmInv /\ ReviewInv /\ [Next]_vars => ReviewInv'
<1> SUFFICES ASSUME TypeInv, CalmInv, ReviewInv, [Next]_vars, calm',
                    post'.moderation = "approved"
             PROVE  post'.reviewed
  BY DEF ReviewInv
<1>1. CASE UNCHANGED post
  BY <1>1, OnceCalm DEF ReviewInv
<1>2. ASSUME NEW x \in Actor, SavePost(x) PROVE post'.reviewed
  <2>1. calm /\ req[x].op \in OnPost
    BY <1>2, RequestDone DEF SavePost, OnPost
  <2>2. req[x].moderation = post.moderation
    BY <2>1 DEF CalmInv, Current
  <2>3. Moderation(req[x]) = "approved"
    BY <1>2, <2>2, PostSaved DEF Written
  <2>4. /\ ~HandsIn(req[x])
        /\ req[x].op = "approve_post" \/ post.moderation = "approved"
    BY <2>2, <2>3 DEF Moderation, HandsIn, Write
  <2>5. QED
    BY <1>2, <2>1, <2>4, PostSaved DEF ReviewInv
<1>3. UNCHANGED post \/ \E x \in Actor : SavePost(x)
  BY Steps DEF vars, OpensApplication, OpensPost, Begins, SendNotice,
               SaveApplication, Dies
<1>4. QED
  BY <1>1, <1>2, <1>3

\* The public sees nothing that was handed in after the verdict, unless
\* requests overlap.
THEOREM ShownWasReviewed == Spec => []ShownAsReviewed
<1>1. Init => ReviewInv
  BY DEF Init, ReviewInv
<1>2. ReviewInv => ShownAsReviewed
  BY DEF ReviewInv, ShownAsReviewed, Shown
<1>3. QED
  BY <1>1, <1>2, TypeInit, TypeNext, CalmInit, CalmNext, ReviewNext, PTL
     DEF Spec
=============================================================================
