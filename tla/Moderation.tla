------------------------------ MODULE Moderation ------------------------------
(***************************************************************************)
(* What an administrator lets through: a vendor's application              *)
(* (routes/vendor.py, routes/admin.py) and a post of that vendor           *)
(* (routes/social.py, social_service.py), which the public sees only while *)
(* both are approved.                                                      *)
(*                                                                         *)
(* A request loads the rows it works on when it is read (Read...) and      *)
(* commits the columns it changed (Save...); asking for corrections sends  *)
(* an e-mail between the two.  Posts do not affect each other: the vendor  *)
(* has one, with what decides who sees it.                                 *)
(***************************************************************************)
EXTENDS Integers

CONSTANTS
    Tab,           \* requests of the vendor that can be in flight together
    Admin,         \* and of administrators
    MaxMails       \* bound: correction notices

ASSUME ModerationAssumption == MaxMails \in Nat

VARIABLES
    application,   \* the row of vendors: its status and application_revision
    post,          \* the row of vendor_posts, status "none" before it exists
    profile,       \* whether the vendor has a row in vendor_public_profiles
    req,           \* the request in flight of each tab and administrator
    mails,         \* history: correction notices sent
    calm           \* history: no two requests have overlapped

vars == <<application, post, profile, req, mails, calm>>

Actor == Tab \cup Admin

Application == [status : {"pending", "changes_requested", "approved",
                          "rejected"},
                revision : 1..(MaxMails + 1)]

PostStatus == {"draft", "published", "archived"}

\* `reviewed` is a history: an administrator approved the post after it was
\* last handed in.
Post == [status : PostStatus \cup {"none"},
         moderation : {"pending", "approved", "rejected"},
         reviewed : BOOLEAN]

\* What requests do to the application and to the post.
Review == {"approve", "reject"}
Write == {"create", "edit", "publish", "archive"}
Verdict == {"approve_post", "reject_post"}

\* A request on the application has loaded that row, a request on a post the
\* post and whether there is a profile; `status` is the one in its payload.
Idle == [op |-> "idle"]

WithApplication(op) == [op |-> op, application |-> application]

WithPost(op, status) ==
    [op |-> op, status |-> status, was |-> post.status,
     moderation |-> post.moderation, profile |-> profile]

TypeOK ==
    /\ application \in Application
    /\ post \in Post
    /\ profile \in BOOLEAN
    /\ mails \in 0..MaxMails
    /\ calm \in BOOLEAN
    /\ \A x \in Actor : req[x].op \in {"idle", "resubmit", "correct", "mailed",
                                     "list"} \cup Review \cup Write \cup Verdict

Init ==
    /\ application = [status |-> "pending", revision |-> 1]
    /\ post = [status |-> "none", moderation |-> "pending", reviewed |-> FALSE]
    /\ profile = FALSE
    /\ req = [x \in Actor |-> Idle]
    /\ mails = 0
    /\ calm = TRUE

Begins(x, request) ==
    /\ req[x].op = "idle"
    /\ req' = [req EXCEPT ![x] = request]
    /\ calm' = (calm /\ \A y \in Actor : req[y].op = "idle")
    /\ UNCHANGED <<application, post, profile, mails>>

Done(x) == req' = [req EXCEPT ![x] = Idle] /\ UNCHANGED calm

\* A column after a COMMIT that set it to `new` on a row loaded as `loaded`.
Written(new, loaded, now) == IF new = loaded THEN now ELSE new

-----------------------------------------------------------------------------
(* The application.                                                        *)

\* Mutant: an application is handed in whenever its vendor likes.
MayResubmitAnyTime == application.status # "approved"

MayResubmit == application.status = "changes_requested"

\* Mutant: an approved vendor is sent back.
MayBeCorrectedAlways == TRUE

MayBeCorrected == application.status # "approved"

\* resubmit_vendor_application, approve_vendor, reject_vendor and
\* request_vendor_corrections, up to the e-mail.
ReadResubmit(t) == MayResubmit /\ Begins(t, WithApplication("resubmit"))
ReadReview(a, op) == Begins(a, WithApplication(op))
ReadCorrect(a) == MayBeCorrected /\ Begins(a, WithApplication("correct"))

\* The bound only limits the notices.
SendNotice(a) ==
    /\ req[a].op = "correct" /\ mails < MaxMails
    /\ req' = [req EXCEPT ![a].op = "mailed"]
    /\ mails' = mails + 1
    /\ UNCHANGED <<application, post, profile, calm>>

StatusOf(op) == CASE op = "resubmit" -> "pending"
                  [] op = "approve" -> "approved"
                  [] op = "reject" -> "rejected"
                  [] op = "mailed" -> "changes_requested"

SaveApplication(x) ==
    LET r == req[x]
    IN  /\ r.op \in {"resubmit", "approve", "reject", "mailed"}
        /\ application' =
              [status |-> Written(StatusOf(r.op), r.application.status,
                                  application.status),
               revision |-> IF r.op = "resubmit"
                              THEN r.application.revision + 1
                              ELSE application.revision]
        /\ Done(x) /\ UNCHANGED <<post, profile, mails>>

-----------------------------------------------------------------------------
(* The post.                                                               *)

\* create_vendor_post, update_vendor_post with a status, publish_vendor_post
\* and archive_vendor_post.  An update without a status leaves all of this
\* alone, also what the verdict was about.
ReadWrite(t, op, status) ==
    /\ (post.status = "none") <=> (op = "create")
    /\ op = "create" => \A x \in Tab : req[x].op # "create"
    /\ op = "publish" => status = "published"
    /\ op = "archive" => status = "archived"
    /\ (status = "published" => application.status = "approved")
    /\ Begins(t, WithPost(op, status))

\* approve_admin_post and reject_admin_post, whatever the post's status is.
ReadVerdict(a, op) ==
    post.status # "none" /\ Begins(a, WithPost(op, "published"))

\* get_vendor_posts, which makes the vendor's profile.
ReadList(t) == Begins(t, WithPost("list", "none"))

HandsIn(r) == r.op \in Write /\ r.status = "published"

\* Mutant: only the publish button hands a post in.
ModerationWhenPublished(r) ==
    CASE r.op \in {"create", "publish"} -> "pending"
      [] r.op = "approve_post" -> "approved"
      [] r.op = "reject_post" -> "rejected"
      [] OTHER -> r.moderation

Moderation(r) ==
    CASE HandsIn(r) \/ r.op = "create" -> "pending"
      [] r.op = "approve_post" -> "approved"
      [] r.op = "reject_post" -> "rejected"
      [] OTHER -> r.moderation

\* Mutant: drafts make no profile, and neither does the verdict.
EnsuresWhenHandedIn(r) == HandsIn(r) /\ r.op # "edit"

\* The requests that call ensure_vendor_public_profile.
Ensures(r) == r.op \in {"create", "publish", "approve_post", "list"}

\* The INSERT of a second profile fails, and the request with it.
SavePost(x) ==
    LET r == req[x]
    IN  /\ r.op \in Write \cup Verdict \cup {"list"}
        /\ Ensures(r) /\ ~r.profile => ~profile
        /\ profile' = (profile \/ Ensures(r))
        /\ post' =
              [status |-> IF r.op \in {"reject_post", "list"} THEN post.status
                            ELSE Written(r.status, r.was, post.status),
               moderation |-> Written(Moderation(r), r.moderation,
                                      post.moderation),
               reviewed |-> (post.reviewed \/ r.op = "approve_post")
                               /\ ~HandsIn(r)]
        /\ Done(x) /\ UNCHANGED <<application, mails>>

\* A request dies before its COMMIT, or fails in it; so does one whose e-mail
\* is not accepted.
Dies(x) ==
    /\ req[x].op # "idle" /\ Done(x)
    /\ UNCHANGED <<application, post, profile, mails>>

Next ==
    \/ \E t \in Tab :
          \/ ReadResubmit(t) \/ ReadList(t)
          \/ \E op \in Write, s \in PostStatus : ReadWrite(t, op, s)
    \/ \E a \in Admin :
          \/ \E op \in Review : ReadReview(a, op)
          \/ ReadCorrect(a) \/ SendNotice(a)
          \/ \E op \in Verdict : ReadVerdict(a, op)
    \/ \E x \in Actor : SaveApplication(x) \/ SavePost(x) \/ Dies(x)

Spec == Init /\ [][Next]_vars

-----------------------------------------------------------------------------
(* Properties.                                                             *)

\* visible_post_filters, apart from the vendor's own switch.
Shown == /\ post.status = "published" /\ post.moderation = "approved"
         /\ application.status = "approved" /\ profile

\* An application is opened for corrections, and numbered anew, only as often
\* as its vendor was sent a notice, also if requests overlap or die after the
\* e-mail was sent: each resubmission answers a notice of its own.
AnswersNotices ==
    /\ application.revision <= mails + 1
    /\ application.status = "changes_requested" => application.revision <= mails

\* "Approved vendors cannot be returned to the application correction queue":
\* an approval is only ever withdrawn by a rejection, as long as no two
\* requests have overlapped.
ApprovalStands ==
    [][(calm' /\ application.status = "approved")
          => application'.status \in {"approved", "rejected"}]_application

\* A post the public sees was approved after its vendor last handed it in, as
\* long as no two requests have overlapped: a verdict is about what was handed
\* in, and a post that goes back and forth needs a new one.
ShownAsReviewed == calm /\ Shown => post.reviewed

\* "Approved post appears publicly": an approved and published post of an
\* approved vendor is shown, as its vendor has a profile by then however
\* requests overlap.
ApprovedAppears ==
    (/\ post.status = "published" /\ post.moderation = "approved"
     /\ application.status = "approved") => Shown
=============================================================================
