----------------------------- MODULE OneTimeCode -----------------------------
(***************************************************************************)
(* One person's mobile number and e-mail address: the codes sent to them,  *)
(* and the accounts made with them.  otp_service.py (codes to sign in or   *)
(* register with a number), email_verification_service.py (codes that      *)
(* prove a vendor's e-mail) and register and google_login of               *)
(* routes/auth.py.                                                         *)
(*                                                                         *)
(* A handler reads in one step (Read...) and commits in a later one        *)
(* (Save...), which fails as a whole if it would insert a second user with *)
(* an e-mail: users.email is unique.  A code is committed before it is     *)
(* sent.  Times are kept as far as they decide something, see Age.         *)
(***************************************************************************)
EXTENDS Integers, Sequences

CONSTANTS
    Tab,           \* the person's requests that can be in flight together
    Kind,          \* codes that are asked for, see Kinds
    None,
    MaxAttempts,   \* max_attempts of a challenge
    MaxCodes       \* bound: challenges

Kinds == {"login", "register", "vendor"}

ASSUME OneTimeCodeAssumption ==
    /\ Kind \subseteq Kinds
    /\ MaxAttempts \in Nat \ {0} /\ MaxCodes \in Nat
    /\ None \notin Int \cup {"verified", "consumed"}

VARIABLES
    code,    \* auth_otp_challenges and email_verification_challenges
    user,    \* users, in the order of creation
    req,     \* the request each tab has in flight
    calm     \* history: no two of these requests have overlapped

vars == <<code, user, req, calm>>

Id == 1..Len(code)
UserId == 1..Len(user)

\* 0: within the resend cooldown.  1: the code is valid.  2: it has expired.
\* 3: so has a proof made with it.
Age == 0..3

\* `owner` is the account a login code was asked for, None if there was none
\* yet; `told` that the request for the code was answered, with the id needed
\* to enter it.  `uses` counts, to two, the requests that were answered with
\* an account or a sign-in for the code, and `tries` the codes entered while
\* calm: both are history.
Code == [kind : Kinds, owner : Nat \cup {None}, attempts : 0..MaxAttempts,
         mark : {"sent", "verified", "consumed", "gone"}, age : Age,
         told : BOOLEAN, uses : 0..2, tries : Nat]

\* `mail` says which e-mail the account has, its own or the one made from the
\* number; `phone` that it carries the number; `by` is the code it was made
\* with, a history.
User == [mail : {"own", "number"}, role : {"user", "vendor"},
         phone : BOOLEAN, by : Nat \cup {None}]

Idle == [at |-> "idle", kind |-> None, id |-> None, attempts |-> None,
         right |-> FALSE, account |-> None]

TypeOK ==
    /\ code \in Seq(Code) /\ Len(code) <= MaxCodes
    /\ user \in Seq(User) /\ Len(user) <= 2
    /\ calm \in BOOLEAN
    /\ \A t \in Tab :
          /\ req[t].at \in {"idle", "asking", "sending", "verifying",
                            "registering"}
          /\ req[t].id \in Id \cup {None}
          /\ req[t].account \in UserId \cup {None}

Init ==
    /\ code = <<>>
    /\ user = <<>>
    /\ req = [t \in Tab |-> Idle]
    /\ calm = TRUE

Begins(t) ==
    /\ req[t].at = "idle"
    /\ calm' = (calm /\ \A x \in Tab : req[x].at = "idle")

Request(t, r) == req' = [req EXCEPT ![t] = r]
Done(t) == req' = [req EXCEPT ![t] = Idle] /\ UNCHANGED calm

\* The customers with the number, and the accounts with an e-mail.
OfNumber == {u \in UserId : user[u].role = "user" /\ user[u].phone}
WithMail(m) == {u \in UserId : user[u].mail = m}

\* Mutant: the e-mail of a user is not unique.
MailIsTakenNever(m) == FALSE

\* The unique constraint an INSERT meets.
MailIsTaken(m) == WithMail(m) # {}

Account(mail, role, phone, by) ==
    [mail |-> mail, role |-> role, phone |-> phone, by |-> by]

-----------------------------------------------------------------------------
(* Asking for a code: request_login_otp, request_registration_otp and      *)
(* request_vendor_email_otp.                                               *)

Registered(k) == CASE k = "login" -> FALSE
                   [] k = "register" -> OfNumber # {}
                   [] k = "vendor" -> MailIsTaken("own")

\* Mutant: the cooldown lasts until the code is used.
CooledWhenUsed(k) ==
    \A i \in Id : code[i].kind = k => code[i].mark \in {"consumed", "gone"}

\* The cooldown of the newest code of its kind that was not consumed.
Cooled(k) ==
    \A i \in Id : (/\ code[i].kind = k
                   /\ code[i].mark \in {"sent", "verified"}) => code[i].age > 0

ReadForCode(t, k) ==
    /\ Begins(t) /\ Len(code) < MaxCodes
    /\ ~Registered(k) /\ Cooled(k)
    /\ \E owner \in IF k = "login" /\ OfNumber # {} THEN OfNumber ELSE {None} :
          Request(t, [Idle EXCEPT !.at = "asking", !.kind = k,
                                  !.account = owner])
    /\ UNCHANGED <<code, user>>

SaveCode(t) ==
    /\ req[t].at = "asking" /\ Len(code) < MaxCodes
    /\ code' = Append(code, [kind |-> req[t].kind, owner |-> req[t].account,
                             attempts |-> 0, mark |-> "sent", age |-> 0,
                             told |-> FALSE, uses |-> 0, tries |-> 0])
    /\ Request(t, [Idle EXCEPT !.at = "sending", !.id = Len(code) + 1])
    /\ UNCHANGED <<user, calm>>

Delivered(t) ==
    /\ req[t].at = "sending"
    /\ code' = [code EXCEPT ![req[t].id].told = TRUE]
    /\ Done(t) /\ UNCHANGED user

\* A code that could not be mailed is deleted; one that could not be sent to
\* the number stays, and so does its cooldown.
Undelivered(t) ==
    LET i == req[t].id
    IN  /\ req[t].at = "sending"
        /\ code' = [code EXCEPT ![i].mark =
                       IF code[i].kind = "vendor" THEN "gone" ELSE @]
        /\ Done(t) /\ UNCHANGED user

-----------------------------------------------------------------------------
(* Entering a code.                                                        *)

\* Mutant: a code may be entered again after it was used.
EnterableAgain(i) == /\ code[i].mark # "gone" /\ code[i].age < 2
                     /\ code[i].attempts < MaxAttempts

\* Mutant: one attempt more than there are.
EnterableOnceMore(i) == /\ code[i].mark = "sent" /\ code[i].age < 2
                        /\ code[i].attempts <= MaxAttempts

Enterable(i) == /\ code[i].mark = "sent" /\ code[i].age < 2
                /\ code[i].attempts < MaxAttempts

\* The account a right login code signs in, None if it is to be made: the one
\* it was asked for, a customer with the number, or the owner of the e-mail
\* made from it.
SignsIn(i) ==
    IF code[i].owner # None THEN {code[i].owner}
    ELSE IF OfNumber # {} THEN OfNumber
    ELSE IF WithMail("number") # {} THEN WithMail("number") ELSE {None}

ReadForVerify(t, i, right) ==
    /\ Begins(t) /\ Enterable(i) /\ code[i].told
    /\ (code[i].kind = "register" => OfNumber = {})
    /\ \E u \in IF right /\ code[i].kind = "login" THEN SignsIn(i)
                                                   ELSE {None} :
          Request(t, [Idle EXCEPT !.at = "verifying", !.id = i, !.account = u,
                        !.attempts = code[i].attempts, !.right = right])
    /\ UNCHANGED <<code, user>>

\* The row with the attempt, and with what a right code changes.  verified_at
\* and consumed_at are columns of their own, so that a late answer to a
\* vendor's code leaves a proof that was consumed meanwhile consumed.
Attempted(c, attempts, mark, uses) ==
    [c EXCEPT !.attempts = attempts,
              !.tries = IF calm THEN @ + 1 ELSE @,
              !.mark = IF mark = None \/ @ = "consumed" THEN @ ELSE mark,
              !.uses = IF @ + uses > 2 THEN 2 ELSE @ + uses]

\* Mutant: a wrong code is not counted.
EnteredUncounted(t, mark, uses) ==
    LET i == req[t].id
    IN  [code EXCEPT ![i] = Attempted(code[i], code[i].attempts, mark, uses)]

\* The codes after the commit.
Entered(t, mark, uses) ==
    LET i == req[t].id
    IN  [code EXCEPT ![i] = Attempted(code[i], req[t].attempts + 1, mark, uses)]

SaveWrong(t) ==
    /\ req[t].at = "verifying" /\ ~req[t].right
    /\ code' = Entered(t, None, 0)
    /\ Done(t) /\ UNCHANGED user

SaveProof(t) ==
    /\ req[t].at = "verifying" /\ req[t].right
    /\ code[req[t].id].kind = "vendor"
    /\ code' = Entered(t, "verified", 0)
    /\ Done(t) /\ UNCHANGED user

\* An account is found, or one is made with the e-mail of the number.
SaveSignIn(t) ==
    LET u == req[t].account
    IN  /\ req[t].at = "verifying" /\ req[t].right
        /\ code[req[t].id].kind # "vendor"
        /\ (u = None => ~MailIsTaken("number"))
        /\ code' = Entered(t, "consumed", 1)
        /\ user' = IF u = None
                     THEN Append(user, Account("number", "user", TRUE,
                                               req[t].id))
                     ELSE [user EXCEPT ![u].phone = TRUE]
        /\ Done(t)

-----------------------------------------------------------------------------
(* Registering with an e-mail address.                                     *)

Proof(i) == /\ code[i].kind = "vendor" /\ code[i].age < 3
            /\ code[i].mark = "verified"

\* register as a vendor, with consume_vendor_email_verification.
ReadForRegister(t, i) ==
    /\ Begins(t) /\ ~MailIsTaken("own") /\ Proof(i)
    /\ Request(t, [Idle EXCEPT !.at = "registering", !.id = i])
    /\ UNCHANGED <<code, user>>

Consumed(c) == [c EXCEPT !.mark = "consumed",
                         !.uses = IF @ = 2 THEN 2 ELSE @ + 1]

\* The proof is consumed by the COMMIT that inserts user and vendor.
SaveRegister(t) ==
    LET i == req[t].id
    IN  /\ req[t].at = "registering" /\ ~MailIsTaken("own")
        /\ code' = [code EXCEPT ![i] = Consumed(code[i])]
        /\ user' = Append(user, Account("own", "vendor", FALSE, i))
        /\ Done(t)

\* register as a customer, who may give the number, and google_login, which
\* knows none: an account with the person's e-mail, unless there is one.
RegisterCustomer(t, phone) ==
    /\ Begins(t) /\ ~MailIsTaken("own")
    /\ user' = Append(user, Account("own", "user", phone, None))
    /\ UNCHANGED <<code, req>>

-----------------------------------------------------------------------------
(* Time, and requests that die before a commit or are refused by it.       *)

\* Codes of a kind grow old in the order they were made.
Ages(i) ==
    /\ code[i].age < IF code[i].kind = "vendor" THEN 3 ELSE 2
    /\ code[i].mark # "gone"
    /\ \A j \in 1..(i - 1) : code[j].kind = code[i].kind /\ code[j].mark # "gone"
                                => code[j].age > code[i].age
    /\ code' = [code EXCEPT ![i].age = @ + 1]
    /\ UNCHANGED <<user, req, calm>>

Dies(t) ==
    /\ req[t].at # "idle" /\ Done(t)
    /\ UNCHANGED <<code, user>>

TabNext(t) ==
    \/ \E k \in Kind : ReadForCode(t, k)
    \/ SaveCode(t) \/ Delivered(t) \/ Undelivered(t)
    \/ \E i \in Id, right \in BOOLEAN : ReadForVerify(t, i, right)
    \/ SaveWrong(t) \/ SaveProof(t) \/ SaveSignIn(t)
    \/ \E i \in Id : ReadForRegister(t, i)
    \/ SaveRegister(t)
    \/ \E phone \in BOOLEAN : RegisterCustomer(t, phone)
    \/ Dies(t)

Next == \/ \E t \in Tab : TabNext(t)
        \/ \E i \in Id : Ages(i)

Spec == Init /\ [][Next]_vars

\* Time passes.
FairSpec == Spec /\ \A i \in 1..MaxCodes : WF_vars(i \in Id /\ Ages(i))

-----------------------------------------------------------------------------
(* Properties.                                                             *)

\* A code that makes an account, a registration by number or a vendor's
\* proof, is spent on one account and is consumed exactly when that account
\* exists, however registrations overlap, die or lose against another one:
\* none is lost on a registration that failed, and no vendor has an e-mail
\* that was not proved.
SpentOnAccount ==
    /\ \A i \in Id : code[i].kind \in {"register", "vendor"} =>
          /\ code[i].mark = "consumed" <=> \E u \in UserId : user[u].by = i
          /\ code[i].uses <= 1
    /\ \A u \in UserId :
          /\ user[u].role = "vendor" => /\ user[u].by # None
                                        /\ code[user[u].by].kind = "vendor"
          /\ user[u].by # None => \A v \in UserId :
                                     user[v].by = user[u].by => u = v

\* A code signs in once, as long as no requests have overlapped.
SignsInOnce == calm => \A i \in Id : code[i].uses <= 1

\* Every code entered is counted, so that there are no more than max_attempts
\* of them, as long as no requests have overlapped.
TriesAreCounted ==
    calm => \A i \in Id : /\ code[i].tries = code[i].attempts
                          /\ code[i].tries <= MaxAttempts

\* Nobody is shut out for good: neither a code that never arrived nor one
\* with no attempts left keeps the person from asking for another.
NobodyShutOut == \A k \in Kinds : []<>Cooled(k)
=============================================================================
