-------------------------- MODULE OneTimeCode_proofs --------------------------
(* Theorems about OneTimeCode, for every value of its constants. *)
EXTENDS OneTimeCode, TLAPS

-----------------------------------------------------------------------------
(* The invariant.                                                          *)

\* The shape of a request.
Requests ==
    [at : {"idle", "asking", "sending", "verifying", "registering"},
     kind : Kinds \cup {None}, id : Nat \cup {None},
     attempts : (0..(MaxAttempts - 1)) \cup {None},
     right : BOOLEAN, account : Nat \cup {None}]

TypeInv ==
    /\ code \in Seq(Code) /\ Len(code) <= MaxCodes
    /\ user \in Seq(User)
    /\ calm \in BOOLEAN
    /\ req \in [Tab -> Requests]

\* What a request in flight refers to.  A code is told to its owner only once
\* its request was answered, and nobody enters one that was not told.
Fits(r) ==
    /\ r.id \in Id \cup {None} /\ r.account \in UserId \cup {None}
    /\ r.at = "asking" => r.kind \in Kinds
    /\ r.at \in {"sending", "verifying", "registering"} => r.id # None
    /\ r.at = "sending" => ~code[r.id].told
    /\ r.at = "verifying" =>
          /\ r.attempts # None /\ code[r.id].told
          /\ code[r.id].kind # "login" => r.account = None
    /\ r.at = "registering" =>
          /\ code[r.id].kind = "vendor" /\ code[r.id].told
          /\ code[r.id].mark \in {"verified", "consumed"}

\* An account was made with the code.
Made(i) == \E u \in UserId : user[u].by = i

CodeFits(i) ==
    LET c == code[i]
    IN  /\ c.owner \in UserId \cup {None}
        /\ ~c.told => c.mark \in {"sent", "gone"}
        /\ c.uses > 0 => c.mark = "consumed"
        /\ c.kind \in {"register", "vendor"} =>
              (c.mark = "consumed" <=> Made(i)) /\ c.uses <= 1

\* An account made with a code has the e-mail that goes with its kind.
UserFits(u) ==
    LET a == user[u]
    IN  /\ a.by # None =>
              /\ a.by \in Id
              /\ a.mail = IF code[a.by].kind = "vendor" THEN "own" ELSE "number"
        /\ a.role = "vendor" => a.by # None /\ code[a.by].kind = "vendor"

MailsUnique == \A u, v \in UserId : user[u].mail = user[v].mail => u = v

OneSender == \A x, y \in Tab :
    (req[x].at = "sending" /\ req[y].at = "sending" /\ req[x].id = req[y].id)
       => x = y

Inv == /\ TypeInv
       /\ \A t \in Tab : Fits(req[t])
       /\ OneSender
       /\ \A i \in Id : CodeFits(i)
       /\ \A u \in UserId : UserFits(u)
       /\ MailsUnique

-----------------------------------------------------------------------------
(* How the rows change.                                                    *)

\* The idle request is a request.
LEMMA IdleOK == /\ Idle \in Requests /\ Idle.at = "idle"
                /\ Idle.id = None /\ Idle.account = None
BY DEF Idle, Requests

\* A request that is given another form leaves the others alone.
LEMMA Given ==
    ASSUME TypeInv, NEW t \in Tab, NEW r \in Requests,
           req' = [req EXCEPT ![t] = r]
    PROVE  /\ req' \in [Tab -> Requests] /\ req'[t] = r
           /\ \A x \in Tab \ {t} : req'[x] = req[x]
BY DEF TypeInv

\* One code changes.
LEMMA CodeChanged ==
    ASSUME TypeInv, NEW i \in Id, NEW c \in Code,
           code' = [code EXCEPT ![i] = c]
    PROVE  /\ code' \in Seq(Code) /\ Len(code') = Len(code) /\ Id' = Id
           /\ code'[i] = c /\ \A j \in Id \ {i} : code'[j] = code[j]
BY DEF TypeInv, Id

\* A code is made.
LEMMA CodeAdded ==
    ASSUME TypeInv, NEW c \in Code, code' = Append(code, c)
    PROVE  /\ code' \in Seq(Code) /\ Len(code') = Len(code) + 1
           /\ Id' = Id \cup {Len(code) + 1} /\ Len(code) + 1 \notin Id
           /\ code'[Len(code) + 1] = c /\ \A j \in Id : code'[j] = code[j]
BY DEF TypeInv, Id

\* An account is made.
LEMMA UserAdded ==
    ASSUME TypeInv, NEW a \in User, user' = Append(user, a)
    PROVE  /\ user' \in Seq(User)
           /\ UserId' = UserId \cup {Len(user) + 1}
           /\ Len(user) + 1 \notin UserId
           /\ user'[Len(user) + 1] = a /\ \A u \in UserId : user'[u] = user[u]
           /\ \A i : Made(i)' <=> Made(i) \/ a.by = i
<1>1. /\ user' \in Seq(User)
      /\ UserId' = UserId \cup {Len(user) + 1}
      /\ Len(user) + 1 \notin UserId
      /\ user'[Len(user) + 1] = a /\ \A u \in UserId : user'[u] = user[u]
  BY DEF TypeInv, UserId
<1>2. QED
  BY <1>1 DEF Made

\* Accounts that keep what they were made with.
LEMMA UsersKept ==
    ASSUME TypeInv, UserId' = UserId,
           \A u \in UserId : /\ user'[u].by = user[u].by
                             /\ user'[u].mail = user[u].mail
                             /\ user'[u].role = user[u].role
    PROVE  \A i : Made(i)' <=> Made(i)
BY DEF Made

\* What a request refers to stays as long as codes keep their kind, stay
\* untold or told, and stay proved.
LEMMA FitsKept ==
    ASSUME Inv, NEW t \in Tab, req'[t] = req[t],
           Id \subseteq Id', UserId \subseteq UserId',
           \A i \in Id : /\ code'[i].kind = code[i].kind
                         /\ code[i].told => code'[i].told
                         /\ req[t].at = "sending" /\ req[t].id = i =>
                               code'[i].told = code[i].told
                         /\ code[i].told /\ code[i].mark \in {"verified", "consumed"} =>
                               code'[i].mark \in {"verified", "consumed"}
    PROVE  Fits(req[t])'
<1>1. Fits(req[t])
  BY DEF Inv
<1>2. None \notin Id
  BY OneTimeCodeAssumption DEF Id, Inv, TypeInv
<1>3. QED
  BY <1>1, <1>2 DEF Fits

-----------------------------------------------------------------------------
(* The codes as they are after a commit.                                   *)

\* A code that is entered keeps its kind and its owner and counts the
\* attempt; what was consumed stays consumed.
LEMMA Entering ==
    ASSUME Inv, NEW t \in Tab, req[t].at = "verifying",
           NEW mark \in {None, "verified", "consumed"}, NEW uses \in 0..1,
           code' = Entered(t, mark, uses)
    PROVE  LET i == req[t].id
               c == code'[i]
           IN  /\ i \in Id /\ code[i] \in Code /\ code[i].told
               /\ code' \in Seq(Code) /\ Len(code') = Len(code) /\ Id' = Id
               /\ \A j \in Id \ {i} : code'[j] = code[j]
               /\ c.kind = code[i].kind /\ c.owner = code[i].owner
               /\ c.told = code[i].told
               /\ c.attempts = req[t].attempts + 1
               /\ c.tries = IF calm THEN code[i].tries + 1 ELSE code[i].tries
               /\ c.mark = IF mark = None \/ code[i].mark = "consumed"
                             THEN code[i].mark ELSE mark
               /\ c.uses = IF code[i].uses + uses > 2 THEN 2
                             ELSE code[i].uses + uses
<1> DEFINE i == req[t].id
           r == code[i]
           c == Attempted(r, req[t].attempts + 1, mark, uses)
<1>1. Fits(req[t]) /\ req[t] \in Requests /\ TypeInv
  BY DEF Inv, TypeInv
<1>2. i \in Id /\ r \in Code /\ r.told
  BY <1>1 DEF Fits, TypeInv, Id
<1>3. req[t].attempts + 1 \in 0..MaxAttempts
  BY <1>1, OneTimeCodeAssumption DEF Fits, Requests
<1>4. r.uses \in 0..2 /\ r.tries \in Nat
      /\ r.mark \in {"sent", "verified", "consumed", "gone"}
  BY <1>2 DEF Code
<1>5. /\ (IF r.uses + uses > 2 THEN 2 ELSE r.uses + uses) \in 0..2
      /\ (IF calm THEN r.tries + 1 ELSE r.tries) \in Nat
      /\ (IF mark = None \/ r.mark = "consumed" THEN r.mark ELSE mark)
            \in {"sent", "verified", "consumed", "gone"}
  BY <1>4
<1>6. c \in Code
  BY <1>2, <1>3, <1>5 DEF Code, Attempted
<1>7. /\ c.kind = r.kind /\ c.owner = r.owner /\ c.told = r.told
      /\ c.attempts = req[t].attempts + 1
      /\ c.tries = IF calm THEN r.tries + 1 ELSE r.tries
      /\ c.mark = IF mark = None \/ r.mark = "consumed" THEN r.mark ELSE mark
      /\ c.uses = IF r.uses + uses > 2 THEN 2 ELSE r.uses + uses
  BY <1>2 DEF Code, Attempted
<1>8. code' = [code EXCEPT ![i] = c]
  BY DEF Entered
<1> HIDE DEF c
<1>9. /\ code' \in Seq(Code) /\ Len(code') = Len(code) /\ Id' = Id
      /\ code'[i] = c /\ \A j \in Id \ {i} : code'[j] = code[j]
  BY <1>1, <1>2, <1>6, <1>8, CodeChanged
<1>10. QED
  BY <1>2, <1>7, <1>9

\* A request that begins, or one that ends and changed nothing.
LEMMA Begun ==
    ASSUME Inv, NEW t \in Tab, NEW r \in Requests, Fits(r), r.at # "sending",
           req' = [req EXCEPT ![t] = r], UNCHANGED <<code, user>>,
           calm' \in BOOLEAN
    PROVE  Inv'
<1>1. /\ req' \in [Tab -> Requests] /\ req'[t] = r
      /\ \A x \in Tab \ {t} : req'[x] = req[x]
  BY Given DEF Inv
<1>2. TypeInv'
  BY <1>1 DEF Inv, TypeInv
<1>3. \A x \in Tab : Fits(req[x])'
  BY <1>1 DEF Inv, Fits, Id, UserId
<1>4. OneSender'
  BY <1>1 DEF Inv, OneSender
<1>5. /\ \A i \in Id' : CodeFits(i)'
      /\ \A u \in UserId' : UserFits(u)'
      /\ MailsUnique'
  BY DEF Inv, CodeFits, UserFits, MailsUnique, Made, Id, UserId
<1>6. QED
  BY <1>2, <1>3, <1>4, <1>5 DEF Inv

\* What the handlers find when they have read.
LEMMA BegunForCode ==
    ASSUME Inv, NEW t \in Tab, NEW k \in Kind, ReadForCode(t, k)
    PROVE  Inv'
<1>1. PICK owner \in IF k = "login" /\ OfNumber # {} THEN OfNumber ELSE {None} :
         Request(t, [Idle EXCEPT !.at = "asking", !.kind = k, !.account = owner])
  BY DEF ReadForCode
<1> DEFINE r == [Idle EXCEPT !.at = "asking", !.kind = k, !.account = owner]
<1>2. owner \in UserId \cup {None} /\ k \in Kinds
  BY <1>1, OneTimeCodeAssumption DEF OfNumber
<1>3. owner \in Nat \cup {None}
  BY <1>2 DEF UserId, Inv, TypeInv
<1>4. /\ r \in Requests /\ r.at = "asking" /\ r.kind = k /\ r.id = None
      /\ r.account = owner
  BY <1>2, <1>3 DEF Requests, Idle
<1>5. req' = [req EXCEPT ![t] = r]
  BY <1>1 DEF Request
<1> HIDE DEF r
<1>6. Fits(r)
  BY <1>2, <1>4 DEF Fits
<1>7. UNCHANGED <<code, user>> /\ calm' \in BOOLEAN
  BY DEF ReadForCode, Begins
<1>8. QED
  BY <1>4, <1>5, <1>6, <1>7, Begun

\* The account a code signs in is one that exists, or none.
LEMMA SignsInOK ==
    ASSUME Inv, NEW i \in Id
    PROVE  SignsIn(i) \subseteq UserId \cup {None}
<1>1. code[i].owner \in UserId \cup {None}
  BY DEF Inv, CodeFits
<1>2. QED
  BY <1>1 DEF SignsIn, OfNumber, WithMail

\* A verification that has read keeps the invariant,
LEMMA BegunForVerify ==
    ASSUME Inv, NEW t \in Tab, NEW i \in Id, NEW right \in BOOLEAN,
           ReadForVerify(t, i, right)
    PROVE  Inv'
<1>1. PICK u \in IF right /\ code[i].kind = "login" THEN SignsIn(i)
                                                   ELSE {None} :
          Request(t, [Idle EXCEPT !.at = "verifying", !.id = i, !.account = u,
                        !.attempts = code[i].attempts, !.right = right])
  BY DEF ReadForVerify
<1> DEFINE r == [Idle EXCEPT !.at = "verifying", !.id = i, !.account = u,
                        !.attempts = code[i].attempts, !.right = right]
<1>2. /\ u \in UserId \cup {None}
      /\ code[i].kind # "login" => u = None
  BY <1>1, SignsInOK
<1>3. u \in Nat \cup {None} /\ i \in Nat /\ i # None
  BY <1>2, OneTimeCodeAssumption DEF UserId, Id, Inv, TypeInv
<1>4. code[i].attempts \in 0..(MaxAttempts - 1)
  <2>1. code[i] \in Code
    BY DEF Inv, TypeInv, Id
  <2>2. QED
    BY <2>1, OneTimeCodeAssumption DEF Code, ReadForVerify, Enterable
<1>5. /\ r \in Requests /\ r.at = "verifying" /\ r.id = i /\ r.account = u
      /\ r.attempts = code[i].attempts
  BY <1>3, <1>4 DEF Requests, Idle
<1>6. req' = [req EXCEPT ![t] = r]
  BY <1>1 DEF Request
<1> HIDE DEF r
<1>7. code[i].attempts # None
  BY <1>4, OneTimeCodeAssumption
<1>8. Fits(r)
  BY <1>2, <1>3, <1>5, <1>7 DEF Fits, ReadForVerify
<1>9. UNCHANGED <<code, user>> /\ calm' \in BOOLEAN
  BY DEF ReadForVerify, Begins
<1>10. QED
  BY <1>5, <1>6, <1>8, <1>9, Begun

\* and so does a registration.
LEMMA BegunForRegister ==
    ASSUME Inv, NEW t \in Tab, NEW i \in Id, ReadForRegister(t, i)
    PROVE  Inv'
<1> DEFINE r == [Idle EXCEPT !.at = "registering", !.id = i]
<1>1. i \in Nat /\ i # None
  BY OneTimeCodeAssumption DEF Id, Inv, TypeInv
<1>2. r \in Requests /\ r.at = "registering" /\ r.id = i /\ r.account = None
  BY <1>1 DEF Requests, Idle
<1>3. req' = [req EXCEPT ![t] = r]
  BY DEF Request, ReadForRegister
<1> HIDE DEF r
<1>4. /\ code[i].kind = "vendor" /\ code[i].mark = "verified"
      /\ code[i].told
  BY DEF ReadForRegister, Proof, Inv, CodeFits
<1>5. Fits(r)
  BY <1>1, <1>2, <1>4 DEF Fits
<1>6. UNCHANGED <<code, user>> /\ calm' \in BOOLEAN
  BY DEF ReadForRegister, Begins
<1>7. QED
  BY <1>2, <1>3, <1>5, <1>6, Begun

\* A commit: the codes and accounts are well-formed after it, and the request
\* that made it has ended.
LEMMA Ended ==
    ASSUME Inv, NEW t \in Tab, Done(t),
           code' \in Seq(Code), Len(code') <= MaxCodes, user' \in Seq(User),
           \A x \in Tab \ {t} : req'[x] = req[x] => Fits(req[x])',
           \A i \in Id' : CodeFits(i)',
           \A u \in UserId' : UserFits(u)',
           MailsUnique'
    PROVE  Inv'
<1>1. /\ req' \in [Tab -> Requests] /\ req'[t] = Idle
      /\ \A x \in Tab \ {t} : req'[x] = req[x]
  BY Given, IdleOK DEF Inv, Done
<1>2. TypeInv'
  BY <1>1 DEF Inv, TypeInv, Done
<1>3. Fits(req[t])'
  BY <1>1, IdleOK DEF Fits
<1>4. \A x \in Tab : Fits(req[x])'
  BY <1>1, <1>3
<1>5. OneSender'
  BY <1>1, IdleOK DEF Inv, OneSender
<1>6. QED
  BY <1>2, <1>4, <1>5 DEF Inv

\* Codes keep their kind and accounts their origin, so that the accounts stay
\* well-formed.
LEMMA UserFitsKept ==
    ASSUME Inv, NEW u \in UserId,
           Id \subseteq Id',
           \A i \in Id : code'[i].kind = code[i].kind,
           /\ user'[u].by = user[u].by /\ user'[u].mail = user[u].mail
           /\ user'[u].role = user[u].role
    PROVE  UserFits(u)'
<1>1. UserFits(u)
  BY DEF Inv
<1>2. QED
  BY <1>1 DEF UserFits

\* The code is committed before it is sent.
LEMMA CodeSaved ==
    ASSUME Inv, NEW t \in Tab, SaveCode(t)
    PROVE  Inv'
<1> DEFINE n == Len(code) + 1
           c == [kind |-> req[t].kind, owner |-> req[t].account,
                 attempts |-> 0, mark |-> "sent", age |-> 0,
                 told |-> FALSE, uses |-> 0, tries |-> 0]
           r == [Idle EXCEPT !.at = "sending", !.id = n]
<1>1. /\ TypeInv /\ Fits(req[t]) /\ req[t] \in Requests
      /\ req[t].at = "asking"
  BY DEF Inv, TypeInv, SaveCode
<1>2. Len(code) \in Nat /\ Len(code) < MaxCodes /\ n \in Nat /\ n # None
  BY <1>1, OneTimeCodeAssumption DEF TypeInv, SaveCode
<1>3. /\ req[t].kind \in Kinds /\ req[t].account \in UserId \cup {None}
      /\ req[t].account \in Nat \cup {None}
  BY <1>1 DEF Fits, Requests
<1>4. /\ c \in Code /\ c.kind = req[t].kind /\ c.owner = req[t].account
      /\ c.mark = "sent" /\ c.told = FALSE /\ c.uses = 0
  BY <1>3, OneTimeCodeAssumption DEF Code, Age
<1>5. /\ code' = Append(code, c)
      /\ req' = [req EXCEPT ![t] = r]
      /\ UNCHANGED <<user, calm>>
  <2>1. code' = Append(code, c)
    BY DEF SaveCode
  <2>2. req' = [req EXCEPT ![t] = r]
    BY DEF SaveCode, Request
  <2>3. UNCHANGED <<user, calm>>
    BY DEF SaveCode
  <2>4. QED
    BY <2>1, <2>2, <2>3
<1>6. /\ r \in Requests /\ r.at = "sending" /\ r.id = n /\ r.account = None
  BY <1>2 DEF Requests, Idle
<1> HIDE DEF c, r
<1>7. /\ code' \in Seq(Code) /\ Len(code') = n /\ Id' = Id \cup {n}
      /\ n \notin Id /\ code'[n] = c /\ \A j \in Id : code'[j] = code[j]
  BY <1>1, <1>4, <1>5, CodeAdded
<1>8. /\ req' \in [Tab -> Requests] /\ req'[t] = r
      /\ \A x \in Tab \ {t} : req'[x] = req[x]
  BY <1>1, <1>5, <1>6, Given
<1>9. TypeInv'
  <2>1. Len(code') <= MaxCodes
    BY <1>2, <1>7, OneTimeCodeAssumption
  <2>2. user' \in Seq(User) /\ calm' \in BOOLEAN
    BY <1>1, <1>5 DEF TypeInv
  <2>3. QED
    BY <1>7, <1>8, <2>1, <2>2 DEF TypeInv
<1>10. UserId' = UserId /\ \A u \in UserId : user'[u] = user[u]
  BY <1>5 DEF UserId
<1>11. \A x \in Tab : Fits(req[x])'
  <2>1. Fits(req[t])'
    BY <1>2, <1>4, <1>6, <1>7, <1>8 DEF Fits
  <2>2. ASSUME NEW x \in Tab \ {t} PROVE Fits(req[x])'
    BY <1>7, <1>8, <1>10, FitsKept
  <2>3. QED
    BY <2>1, <2>2
<1>12. OneSender'
  <2>1. ASSUME NEW x \in Tab \ {t}, req[x].at = "sending" PROVE req[x].id # n
    <3>1. Fits(req[x])
      BY DEF Inv
    <3>2. QED
      BY <1>2, <1>7, <2>1, <3>1 DEF Fits
  <2>2. QED
    BY <1>6, <1>8, <2>1 DEF Inv, OneSender
<1>13. ASSUME NEW i \in Id' PROVE CodeFits(i)'
  <2>1. Made(i)' <=> Made(i)
    BY <1>1, <1>10, UsersKept
  <2>2. CASE i \in Id
    <3>1. CodeFits(i) /\ code'[i] = code[i]
      BY <1>7, <2>2 DEF Inv
    <3>2. QED
      BY <1>10, <2>1, <3>1 DEF CodeFits
  <2>3. CASE i = n
    <3>1. ~Made(i)
      BY <1>2, <1>7, <2>3 DEF Inv, UserFits, Made
    <3>2. QED
      BY <1>3, <1>4, <1>7, <1>10, <2>1, <2>3, <3>1 DEF CodeFits
  <2>4. QED
    BY <1>7, <2>2, <2>3
<1>14. \A u \in UserId' : UserFits(u)'
  BY <1>7, <1>10, UserFitsKept
<1>15. MailsUnique'
  BY <1>10 DEF Inv, MailsUnique
<1>16. QED
  BY <1>9, <1>11, <1>12, <1>13, <1>14, <1>15 DEF Inv

\* The answer that tells the code, or the mail that failed: only the one
\* request that made the code is at this point.
LEMMA CodeSent ==
    ASSUME Inv, NEW t \in Tab, Delivered(t) \/ Undelivered(t)
    PROVE  Inv'
<1> DEFINE i == req[t].id
           c == IF Delivered(t) THEN [code[i] EXCEPT !.told = TRUE]
                ELSE [code[i] EXCEPT !.mark =
                        IF code[i].kind = "vendor" THEN "gone" ELSE @]
<1>1. /\ TypeInv /\ Fits(req[t]) /\ req[t].at = "sending" /\ Done(t)
      /\ user' = user
  BY DEF Inv, Delivered, Undelivered
<1>2. i \in Id /\ code[i] \in Code /\ ~code[i].told /\ CodeFits(i)
  BY <1>1 DEF Fits, TypeInv, Id, Inv
<1>3. code[i].mark \in {"sent", "gone"} /\ code[i].uses = 0
  BY <1>2 DEF CodeFits, Code
<1>4. /\ c \in Code /\ c.kind = code[i].kind /\ c.owner = code[i].owner
      /\ c.uses = 0 /\ c.mark \in {"sent", "gone"}
  BY <1>2, <1>3 DEF Code
<1>5. code' = [code EXCEPT ![i] = c]
  BY DEF Delivered, Undelivered
<1> HIDE DEF c
<1>6. /\ code' \in Seq(Code) /\ Len(code') = Len(code) /\ Id' = Id
      /\ code'[i] = c /\ \A j \in Id \ {i} : code'[j] = code[j]
  BY <1>1, <1>2, <1>4, <1>5, CodeChanged
<1>7. UserId' = UserId /\ \A u \in UserId : user'[u] = user[u]
  BY <1>1 DEF UserId
<1>8. ASSUME NEW x \in Tab \ {t}, req'[x] = req[x] PROVE Fits(req[x])'
  <2>1. req[x].at = "sending" => req[x].id # i
    BY <1>1 DEF Inv, OneSender
  <2>2. QED
    BY <1>2, <1>3, <1>4, <1>6, <1>7, <1>8, <2>1, FitsKept
<1>9. ASSUME NEW j \in Id' PROVE CodeFits(j)'
  <2>1. (Made(j)' <=> Made(j)) /\ CodeFits(j)
    BY <1>1, <1>6, <1>7, UsersKept DEF Inv
  <2>2. CASE j # i
    BY <1>6, <1>7, <2>1, <2>2 DEF CodeFits
  <2>3. CASE j = i
    BY <1>2, <1>3, <1>4, <1>6, <1>7, <2>1, <2>3 DEF CodeFits
  <2>4. QED
    BY <2>2, <2>3
<1>10. \A u \in UserId' : UserFits(u)'
  BY <1>4, <1>6, <1>7, UserFitsKept
<1>11. MailsUnique'
  BY <1>7 DEF Inv, MailsUnique
<1>12. Len(code') <= MaxCodes /\ user' \in Seq(User)
  BY <1>1, <1>6 DEF TypeInv
<1>13. QED
  BY <1>1, <1>6, <1>8, <1>9, <1>10, <1>11, <1>12, Ended

\* A code is entered: wrongly, or rightly by a vendor.
LEMMA CodeEntered ==
    ASSUME Inv, NEW t \in Tab, SaveWrong(t) \/ SaveProof(t)
    PROVE  Inv'
<1> DEFINE i == req[t].id
           mark == IF SaveWrong(t) THEN None ELSE "verified"
<1>1. /\ TypeInv /\ req[t].at = "verifying" /\ Done(t) /\ user' = user
  BY DEF Inv, SaveWrong, SaveProof
<1>2. /\ mark \in {None, "verified"} /\ mark # "consumed"
      /\ code' = Entered(t, mark, 0)
      /\ mark # None => code[i].kind = "vendor"
  BY OneTimeCodeAssumption DEF SaveWrong, SaveProof
<1> HIDE DEF mark
<1>3. /\ i \in Id /\ code[i] \in Code /\ code[i].told
      /\ code' \in Seq(Code) /\ Len(code') = Len(code) /\ Id' = Id
      /\ \A j \in Id \ {i} : code'[j] = code[j]
      /\ code'[i].kind = code[i].kind /\ code'[i].owner = code[i].owner
      /\ code'[i].told = code[i].told
      /\ code'[i].mark = IF mark = None \/ code[i].mark = "consumed"
                           THEN code[i].mark ELSE mark
      /\ code'[i].uses = IF code[i].uses + 0 > 2 THEN 2 ELSE code[i].uses + 0
  BY <1>1, <1>2, Entering
<1>4. /\ code'[i].uses = code[i].uses
      /\ code'[i].mark = "consumed" <=> code[i].mark = "consumed"
      /\ code[i].mark \in {"verified", "consumed"} =>
            code'[i].mark \in {"verified", "consumed"}
  <2>1. code[i].uses \in 0..2
    BY <1>3 DEF Code
  <2>2. code'[i].uses = code[i].uses
    BY <1>3, <2>1
  <2>3. code'[i].mark = code[i].mark
          \/ (code'[i].mark = "verified" /\ code[i].mark # "consumed")
    BY <1>2, <1>3
  <2>4. QED
    BY <2>2, <2>3
<1>5. UserId' = UserId /\ \A u \in UserId : user'[u] = user[u]
  BY <1>1 DEF UserId
<1>6. ASSUME NEW x \in Tab \ {t}, req'[x] = req[x] PROVE Fits(req[x])'
  BY <1>3, <1>4, <1>5, <1>6, FitsKept
<1>7. ASSUME NEW j \in Id' PROVE CodeFits(j)'
  <2>1. (Made(j)' <=> Made(j)) /\ CodeFits(j)
    BY <1>1, <1>3, <1>5, UsersKept DEF Inv
  <2>2. CASE j # i
    BY <1>3, <1>5, <2>1, <2>2 DEF CodeFits
  <2>3. CASE j = i
    BY <1>3, <1>4, <1>5, <2>1, <2>3 DEF CodeFits
  <2>4. QED
    BY <2>2, <2>3
<1>8. \A u \in UserId' : UserFits(u)'
  BY <1>3, <1>5, UserFitsKept
<1>9. MailsUnique'
  BY <1>5 DEF Inv, MailsUnique
<1>10. Len(code') <= MaxCodes /\ user' \in Seq(User)
  BY <1>1, <1>3 DEF TypeInv
<1>11. QED
  BY <1>1, <1>3, <1>6, <1>7, <1>8, <1>9, <1>10, Ended

\* The accounts after a sign-in: one more, with the e-mail of the number that
\* nobody had, or the same ones with the number.
LEMMA SignedIn ==
    ASSUME Inv, NEW t \in Tab, SaveSignIn(t)
    PROVE  LET u == req[t].account
               n == Len(user) + 1
           IN  /\ user' \in Seq(User)
               /\ u # None =>
                     /\ UserId' = UserId
                     /\ \A v \in UserId : /\ user'[v].by = user[v].by
                                          /\ user'[v].mail = user[v].mail
                                          /\ user'[v].role = user[v].role
               /\ u = None =>
                     /\ UserId' = UserId \cup {n} /\ n \notin UserId
                     /\ \A v \in UserId : user'[v] = user[v]
                     /\ \A v \in UserId : user[v].mail # "number"
                     /\ user'[n].mail = "number" /\ user'[n].role = "user"
                     /\ user'[n].by = req[t].id
                     /\ \A j : Made(j)' <=> Made(j) \/ req[t].id = j
<1> DEFINE u == req[t].account
           a == Account("number", "user", TRUE, req[t].id)
<1>1. TypeInv /\ Fits(req[t]) /\ req[t] \in Requests /\ req[t].at = "verifying"
  BY DEF Inv, TypeInv, SaveSignIn
<1>2. /\ a \in User /\ a.mail = "number" /\ a.role = "user" /\ a.by = req[t].id
  BY <1>1 DEF Account, User, Requests
<1>3. CASE u = None
  <2>1. user' = Append(user, a)
    BY <1>3 DEF SaveSignIn
  <2>2. \A v \in UserId : user[v].mail # "number"
    BY <1>3 DEF SaveSignIn, MailIsTaken, WithMail
  <2> HIDE DEF a
  <2>3. QED
    BY <1>1, <1>2, <1>3, <2>1, <2>2, UserAdded
<1>4. CASE u # None
  <2>1. u \in UserId /\ user[u] \in User
    BY <1>1, <1>4 DEF Fits, TypeInv, UserId
  <2> DEFINE b == [user[u] EXCEPT !.phone = TRUE]
  <2>2. /\ b \in User /\ b.by = user[u].by /\ b.mail = user[u].mail
        /\ b.role = user[u].role
    BY <2>1 DEF User
  <2>3. user' = [user EXCEPT ![u] = b]
    BY <1>4 DEF SaveSignIn
  <2> HIDE DEF b
  <2>4. /\ user' \in Seq(User) /\ UserId' = UserId
        /\ user'[u] = b /\ \A v \in UserId \ {u} : user'[v] = user[v]
    BY <1>1, <2>1, <2>2, <2>3 DEF TypeInv, UserId
  <2>5. QED
    BY <1>4, <2>2, <2>4
<1>5. QED
  BY <1>3, <1>4

\* A code for the number is entered rightly: it is consumed, and if it makes
\* an account that is the only one it has made.
LEMMA NumberEntered ==
    ASSUME Inv, NEW t \in Tab, SaveSignIn(t)
    PROVE  Inv'
<1> DEFINE i == req[t].id
           u == req[t].account
           n == Len(user) + 1
<1>1. /\ TypeInv /\ req[t].at = "verifying" /\ Done(t) /\ Fits(req[t])
      /\ code[i].kind # "vendor" /\ code' = Entered(t, "consumed", 1)
  BY DEF Inv, SaveSignIn
<1>2. /\ i \in Id /\ code[i] \in Code /\ code[i].told
      /\ code' \in Seq(Code) /\ Len(code') = Len(code) /\ Id' = Id
      /\ \A j \in Id \ {i} : code'[j] = code[j]
      /\ code'[i].kind = code[i].kind /\ code'[i].owner = code[i].owner
      /\ code'[i].told = code[i].told
      /\ code'[i].mark = IF "consumed" = None \/ code[i].mark = "consumed"
                           THEN code[i].mark ELSE "consumed"
      /\ code'[i].uses = IF code[i].uses + 1 > 2 THEN 2 ELSE code[i].uses + 1
  BY <1>1, Entering
<1>3. code'[i].mark = "consumed"
  BY <1>2, OneTimeCodeAssumption
<1>4. /\ user' \in Seq(User)
      /\ u # None =>
            /\ UserId' = UserId
            /\ \A v \in UserId : /\ user'[v].by = user[v].by
                                 /\ user'[v].mail = user[v].mail
                                 /\ user'[v].role = user[v].role
      /\ u = None =>
            /\ UserId' = UserId \cup {n} /\ n \notin UserId
            /\ \A v \in UserId : user'[v] = user[v]
            /\ \A v \in UserId : user[v].mail # "number"
            /\ user'[n].mail = "number" /\ user'[n].role = "user"
            /\ user'[n].by = i
            /\ \A j : Made(j)' <=> Made(j) \/ i = j
  BY SignedIn
<1>5. UserId \subseteq UserId'
  BY <1>4
<1>6. ASSUME NEW x \in Tab \ {t}, req'[x] = req[x] PROVE Fits(req[x])'
  BY <1>2, <1>3, <1>5, <1>6, FitsKept
<1>7. u # None => \A j : Made(j)' <=> Made(j)
  BY <1>1, <1>4, UsersKept
<1>8. code[i].kind = "register" =>
         u = None /\ (u = None => code[i].uses = 0)
  <2> SUFFICES ASSUME code[i].kind = "register" PROVE u = None /\ code[i].uses = 0
    OBVIOUS
  <2>1. u = None
    BY <1>1 DEF Fits
  <2>2. ~Made(i)
    <3>1. ASSUME NEW v \in UserId, user[v].by = i PROVE FALSE
      <4>1. UserFits(v) /\ i # None
        BY <1>1, <1>2 DEF Inv, Fits
      <4>2. user[v].mail = "number"
        BY <3>1, <4>1 DEF UserFits
      <4>3. QED
        BY <1>4, <2>1, <4>2
    <3>2. QED
      BY <3>1 DEF Made
  <2>3. CodeFits(i)
    BY <1>2 DEF Inv
  <2>4. QED
    BY <1>2, <2>1, <2>2, <2>3 DEF CodeFits, Code
<1>9. ASSUME NEW j \in Id' PROVE CodeFits(j)'
  <2>1. CodeFits(j) /\ j \in Id
    BY <1>2 DEF Inv
  <2>2. CASE j # i
    <3>1. Made(j)' <=> Made(j)
      BY <1>4, <1>7, <2>2
    <3>2. code'[j] = code[j]
      BY <1>2, <2>1, <2>2
    <3>3. QED
      BY <1>5, <2>1, <3>1, <3>2 DEF CodeFits
  <2>3. CASE j = i
    <3>1. code'[i].owner \in UserId' \cup {None} /\ code'[i].told
      BY <1>2, <1>5, <2>1, <2>3 DEF CodeFits
    <3>2. code'[i].kind = "register" => Made(j)'
      BY <1>2, <1>4, <1>8, <2>3
    <3>3. code'[i].kind = "register" => code'[i].uses <= 1
      BY <1>2, <1>8
    <3>4. QED
      BY <1>1, <1>2, <1>3, <2>3, <3>1, <3>2, <3>3 DEF CodeFits
  <2>4. QED
    BY <2>2, <2>3
<1>10. ASSUME NEW v \in UserId' PROVE UserFits(v)'
  <2>1. CASE v \in UserId
    <3>1. /\ user'[v].by = user[v].by /\ user'[v].mail = user[v].mail
          /\ user'[v].role = user[v].role
      BY <1>4, <2>1
    <3>2. \A j \in Id : code'[j].kind = code[j].kind
      BY <1>2
    <3>3. QED
      BY <1>2, <2>1, <3>1, <3>2, UserFitsKept
  <2>2. CASE v \notin UserId
    <3>1. u = None /\ v = n
      BY <1>4, <2>2
    <3>2. QED
      BY <1>1, <1>2, <1>4, <3>1 DEF UserFits
  <2>3. QED
    BY <2>1, <2>2
<1>11. MailsUnique'
  BY <1>4 DEF Inv, MailsUnique
<1>12. Len(code') <= MaxCodes
  BY <1>1, <1>2 DEF TypeInv
<1>13. QED
  BY <1>1, <1>2, <1>4, <1>6, <1>9, <1>10, <1>11, <1>12, Ended

\* A proof that is consumed.
LEMMA ConsumedOK ==
    ASSUME NEW r \in Code
    PROVE  LET c == Consumed(r)
           IN  /\ c \in Code /\ c.kind = r.kind /\ c.owner = r.owner
               /\ c.told = r.told /\ c.attempts = r.attempts
               /\ c.tries = r.tries /\ c.mark = "consumed"
               /\ c.uses = IF r.uses = 2 THEN 2 ELSE r.uses + 1
<1>1. (IF r.uses = 2 THEN 2 ELSE r.uses + 1) \in 0..2
  <2>1. r.uses \in 0..2
    BY DEF Code
  <2>2. QED
    BY <2>1
<1>2. QED
  BY <1>1 DEF Code, Consumed

\* A vendor registers: the commit that makes the account consumes the proof,
\* which has made no other.
LEMMA VendorRegistered ==
    ASSUME Inv, NEW t \in Tab, SaveRegister(t)
    PROVE  Inv'
<1> DEFINE i == req[t].id
           n == Len(user) + 1
           a == Account("own", "vendor", FALSE, i)
           c == Consumed(code[i])
<1>1. /\ TypeInv /\ req[t].at = "registering" /\ Done(t) /\ Fits(req[t])
      /\ \A v \in UserId : user[v].mail # "own"
  BY DEF Inv, SaveRegister, MailIsTaken, WithMail
<1>2. /\ i \in Id /\ i # None /\ i \in Nat /\ code[i] \in Code /\ code[i].told
      /\ code[i].kind = "vendor"
  BY <1>1 DEF Fits, Id, TypeInv
<1>3. code[i].uses = 0
  <2>1. ASSUME NEW v \in UserId, user[v].by = i PROVE FALSE
    <3>1. UserFits(v)
      BY DEF Inv
    <3>2. user[v].mail = "own"
      BY <1>2, <2>1, <3>1 DEF UserFits
    <3>3. QED
      BY <1>1, <3>2
  <2>2. CodeFits(i) /\ ~Made(i)
    BY <1>2, <2>1 DEF Inv, Made
  <2>3. code[i].uses \in 0..2
    BY <1>2 DEF Code
  <2>4. QED
    BY <1>2, <2>2, <2>3 DEF CodeFits
<1>4. /\ a \in User /\ a.mail = "own" /\ a.role = "vendor" /\ a.by = i
  BY <1>2 DEF Account, User
<1>5. /\ c \in Code /\ c.kind = "vendor" /\ c.owner = code[i].owner
      /\ c.told = code[i].told /\ c.mark = "consumed" /\ c.uses = 1
  <2>1. /\ c \in Code /\ c.kind = code[i].kind /\ c.owner = code[i].owner
        /\ c.told = code[i].told /\ c.mark = "consumed"
        /\ c.uses = IF code[i].uses = 2 THEN 2 ELSE code[i].uses + 1
    BY <1>2, ConsumedOK
  <2> HIDE DEF c
  <2>2. QED
    BY <1>2, <1>3, <2>1
<1>6. code' = [code EXCEPT ![i] = c] /\ user' = Append(user, a)
  BY DEF SaveRegister
<1> HIDE DEF a, c
<1>7. /\ code' \in Seq(Code) /\ Len(code') = Len(code) /\ Id' = Id
      /\ code'[i] = c /\ \A j \in Id \ {i} : code'[j] = code[j]
  BY <1>1, <1>2, <1>5, <1>6, CodeChanged
<1>8. /\ user' \in Seq(User)
      /\ UserId' = UserId \cup {n} /\ n \notin UserId
      /\ user'[n] = a /\ \A v \in UserId : user'[v] = user[v]
      /\ \A j : Made(j)' <=> Made(j) \/ a.by = j
  BY <1>1, <1>4, <1>6, UserAdded
<1>9. ASSUME NEW x \in Tab \ {t}, req'[x] = req[x] PROVE Fits(req[x])'
  BY <1>2, <1>5, <1>7, <1>8, <1>9, FitsKept
<1>10. ASSUME NEW j \in Id' PROVE CodeFits(j)'
  <2>1. CodeFits(j) /\ j \in Id /\ UserId \subseteq UserId'
    BY <1>7, <1>8 DEF Inv
  <2>2. CASE j # i
    <3>1. (Made(j)' <=> Made(j)) /\ code'[j] = code[j]
      BY <1>4, <1>7, <1>8, <2>1, <2>2
    <3>2. QED
      BY <2>1, <3>1 DEF CodeFits
  <2>3. CASE j = i
    <3>1. Made(j)'
      BY <1>4, <1>8, <2>3
    <3>2. code'[j].owner \in UserId' \cup {None} /\ code'[j].told
      BY <1>2, <1>5, <1>7, <2>1, <2>3 DEF CodeFits
    <3>3. code'[j].mark = "consumed" /\ code'[j].uses = 1
      BY <1>5, <1>7, <2>3
    <3>4. QED
      BY <3>1, <3>2, <3>3 DEF CodeFits
  <2>4. QED
    BY <2>2, <2>3
<1>11. ASSUME NEW v \in UserId' PROVE UserFits(v)'
  <2>1. \A j \in Id : code'[j].kind = code[j].kind
    BY <1>2, <1>5, <1>7
  <2>2. CASE v \in UserId
    BY <1>7, <1>8, <2>1, <2>2, UserFitsKept
  <2>3. CASE v = n
    BY <1>2, <1>4, <1>7, <1>8, <2>1, <2>3 DEF UserFits
  <2>4. QED
    BY <1>8, <2>2, <2>3
<1>12. MailsUnique'
  BY <1>1, <1>4, <1>8 DEF Inv, MailsUnique
<1>13. Len(code') <= MaxCodes
  BY <1>1, <1>7 DEF TypeInv
<1>14. QED
  BY <1>1, <1>7, <1>8, <1>9, <1>10, <1>11, <1>12, <1>13, Ended

\* A customer registers, in one step.
LEMMA CustomerRegistered ==
    ASSUME Inv, NEW t \in Tab, NEW phone \in BOOLEAN, RegisterCustomer(t, phone)
    PROVE  Inv'
<1> DEFINE n == Len(user) + 1
           a == Account("own", "user", phone, None)
<1>1. /\ TypeInv /\ UNCHANGED <<code, req>> /\ calm' \in BOOLEAN
      /\ \A v \in UserId : user[v].mail # "own"
  BY DEF Inv, RegisterCustomer, MailIsTaken, WithMail, Begins
<1>2. /\ a \in User /\ a.mail = "own" /\ a.role = "user" /\ a.by = None
  BY DEF Account, User
<1>3. user' = Append(user, a)
  BY DEF RegisterCustomer
<1> HIDE DEF a
<1>4. /\ user' \in Seq(User)
      /\ UserId' = UserId \cup {n} /\ n \notin UserId
      /\ user'[n] = a /\ \A v \in UserId : user'[v] = user[v]
      /\ \A j : Made(j)' <=> Made(j) \/ a.by = j
  BY <1>1, <1>2, <1>3, UserAdded
<1>5. Id' = Id /\ None \notin Id /\ UserId \subseteq UserId'
  BY <1>1, <1>4, OneTimeCodeAssumption DEF Id, TypeInv
<1>6. \A x \in Tab : Fits(req[x])'
  BY <1>1, <1>5 DEF Inv, Fits
<1>7. OneSender'
  BY <1>1 DEF Inv, OneSender
<1>8. ASSUME NEW j \in Id' PROVE CodeFits(j)'
  <2>1. CodeFits(j) /\ (Made(j)' <=> Made(j))
    BY <1>2, <1>4, <1>5 DEF Inv
  <2>2. QED
    BY <1>1, <1>5, <2>1 DEF CodeFits
<1>9. ASSUME NEW v \in UserId' PROVE UserFits(v)'
  <2>1. CASE v \in UserId
    BY <1>1, <1>4, <1>5, <2>1, UserFitsKept
  <2>2. CASE v = n
    BY <1>2, <1>4, <2>2 DEF UserFits
  <2>3. QED
    BY <1>4, <2>1, <2>2
<1>10. MailsUnique'
  BY <1>1, <1>2, <1>4 DEF Inv, MailsUnique
<1>11. TypeInv'
  BY <1>1, <1>4 DEF TypeInv
<1>12. QED
  BY <1>6, <1>7, <1>8, <1>9, <1>10, <1>11 DEF Inv

\* Time passes for a code.
LEMMA CodeAges ==
    ASSUME Inv, NEW i \in Id, Ages(i)
    PROVE  Inv'
<1> DEFINE c == [code[i] EXCEPT !.age = @ + 1]
<1>1. TypeInv /\ UNCHANGED <<user, req, calm>> /\ code[i] \in Code
  BY DEF Inv, Ages, TypeInv, Id
<1>2. code[i].age + 1 \in Age
  BY <1>1 DEF Ages, Code, Age
<1>3. /\ c \in Code /\ c.kind = code[i].kind /\ c.owner = code[i].owner
      /\ c.told = code[i].told /\ c.mark = code[i].mark /\ c.uses = code[i].uses
  BY <1>1, <1>2 DEF Code
<1>4. code' = [code EXCEPT ![i] = c]
  BY DEF Ages
<1> HIDE DEF c
<1>5. /\ code' \in Seq(Code) /\ Len(code') = Len(code) /\ Id' = Id
      /\ code'[i] = c /\ \A j \in Id \ {i} : code'[j] = code[j]
  BY <1>1, <1>3, <1>4, CodeChanged
<1>6. UserId' = UserId /\ \A u \in UserId : user'[u] = user[u]
  BY <1>1 DEF UserId
<1>7. ASSUME NEW x \in Tab PROVE Fits(req[x])'
  BY <1>1, <1>3, <1>5, <1>6, FitsKept
<1>8. ASSUME NEW j \in Id' PROVE CodeFits(j)'
  <2>1. (Made(j)' <=> Made(j)) /\ CodeFits(j)
    BY <1>1, <1>5, <1>6, UsersKept DEF Inv
  <2>2. QED
    BY <1>3, <1>5, <1>6, <2>1 DEF CodeFits
<1>9. \A u \in UserId' : UserFits(u)'
  BY <1>3, <1>5, <1>6, UserFitsKept
<1>10. OneSender' /\ MailsUnique'
  BY <1>1, <1>6 DEF Inv, OneSender, MailsUnique
<1>11. TypeInv'
  BY <1>1, <1>5 DEF TypeInv
<1>12. QED
  BY <1>7, <1>8, <1>9, <1>10, <1>11 DEF Inv

\* The invariant holds at the start.
LEMMA InvInit == Init => Inv
<1> SUFFICES ASSUME Init PROVE Inv
  OBVIOUS
<1>1. code = <<>> /\ user = <<>> /\ Id = {} /\ UserId = {}
  BY DEF Init, Id, UserId
<1>2. \A t \in Tab : req[t] = Idle
  BY DEF Init
<1>3. \A t \in Tab : Fits(req[t])
  BY <1>2, IdleOK DEF Fits
<1>4. req \in [Tab -> Requests] /\ calm \in BOOLEAN
  BY IdleOK DEF Init
<1>5. Len(code) <= MaxCodes
  BY <1>1, OneTimeCodeAssumption
<1>6. TypeInv
  BY <1>1, <1>4, <1>5 DEF TypeInv
<1>7. OneSender
  BY <1>2, IdleOK DEF OneSender
<1>8. QED
  BY <1>1, <1>3, <1>6, <1>7 DEF Inv, MailsUnique

\* Every step keeps the invariant.
LEMMA InvNext == Inv /\ [Next]_vars => Inv'
<1> SUFFICES ASSUME Inv, [Next]_vars PROVE Inv'
  OBVIOUS
<1>1. ASSUME NEW t \in Tab, Dies(t) PROVE Inv'
  <2>1. Fits(Idle) /\ calm \in BOOLEAN
    BY IdleOK DEF Fits, Inv, TypeInv
  <2>2. QED
    BY <1>1, <2>1, IdleOK, Begun DEF Dies, Done
<1>2. ASSUME NEW t \in Tab, TabNext(t) PROVE Inv'
  BY <1>1, <1>2, BegunForCode, CodeSaved, CodeSent, BegunForVerify, CodeEntered,
     NumberEntered, BegunForRegister, VendorRegistered, CustomerRegistered
     DEF TabNext
<1>3. ASSUME NEW i \in Id, Ages(i) PROVE Inv'
  BY <1>3, CodeAges
<1>4. CASE UNCHANGED vars
  <2>1. UNCHANGED <<code, user, req, calm>>
    BY <1>4 DEF vars
  <2>2. QED
    BY <2>1 DEF Inv, TypeInv, Fits, OneSender, CodeFits, UserFits, MailsUnique,
                Made, Id, UserId
<1>5. QED
  BY <1>2, <1>3, <1>4 DEF Next

\* With its e-mails unique, the person has at most two accounts.
LEMMA TwoAccounts == Inv => Len(user) <= 2
<1> SUFFICES ASSUME Inv, Len(user) > 2 PROVE FALSE
  BY DEF Inv, TypeInv
<1>1. 1 \in UserId /\ 2 \in UserId /\ 3 \in UserId
  BY DEF Inv, TypeInv, UserId
<1>2. ASSUME NEW u \in UserId PROVE user[u].mail \in {"own", "number"}
  <2>1. user[u] \in User
    BY DEF Inv, TypeInv, UserId
  <2>2. QED
    BY <2>1 DEF User
<1>3. QED
  BY <1>1, <1>2 DEF Inv, MailsUnique

\* Codes, accounts and requests are always well-formed; there are no more than
\* two accounts, one for each e-mail.
THEOREM TypeCorrect == Spec => []TypeOK
<1>1. Inv => TypeOK
  BY TwoAccounts DEF Inv, TypeInv, TypeOK, Fits, Requests
<1>2. QED
  BY <1>1, InvInit, InvNext, PTL DEF Spec

\* A code that makes an account is spent on one account, and is consumed
\* exactly when that account exists, however registrations overlap or die.
THEOREM CodeSpentOnAccount == Spec => []SpentOnAccount
<1>1. Inv => SpentOnAccount
  <2> SUFFICES ASSUME Inv PROVE SpentOnAccount
    OBVIOUS
  <2>1. ASSUME NEW i \in Id, code[i].kind \in {"register", "vendor"}
        PROVE  /\ code[i].mark = "consumed" <=> \E u \in UserId : user[u].by = i
               /\ code[i].uses <= 1
    BY <2>1 DEF Inv, CodeFits, Made
  <2>2. ASSUME NEW u \in UserId, user[u].role = "vendor"
        PROVE  user[u].by # None /\ code[user[u].by].kind = "vendor"
    BY <2>2 DEF Inv, UserFits
  <2>3. ASSUME NEW u \in UserId, NEW v \in UserId,
               user[u].by # None, user[v].by = user[u].by
        PROVE  u = v
    <3>1. user[u].mail = user[v].mail
      BY <2>3 DEF Inv, UserFits
    <3>2. QED
      BY <3>1 DEF Inv, MailsUnique
  <2>4. QED
    BY <2>1, <2>2, <2>3 DEF SpentOnAccount
<1>2. QED
  BY <1>1, InvInit, InvNext, PTL DEF Spec

-----------------------------------------------------------------------------
(* Requests that do not overlap.                                           *)

\* While no two requests have overlapped, one at most is in flight, the code
\* it enters is as it was read, and every code entered was counted.
CalmInv ==
    calm => /\ \A x, y \in Tab : req[x].at # "idle" /\ req[y].at # "idle"
                                    => x = y
            /\ \A x \in Tab : req[x].at = "verifying" =>
                  /\ code[req[x].id].mark = "sent"
                  /\ code[req[x].id].attempts = req[x].attempts
            /\ \A i \in Id : /\ code[i].tries = code[i].attempts
                             /\ code[i].uses <= 1

\* The calm invariant holds at the start.
LEMMA CalmInit == Init => CalmInv
<1> SUFFICES ASSUME Init PROVE CalmInv
  OBVIOUS
<1>1. \A x \in Tab : req[x].at = "idle"
  BY IdleOK DEF Init
<1>2. Id = {}
  BY DEF Init, Id
<1>3. QED
  BY <1>1, <1>2 DEF CalmInv

\* A request that begins alone, with the code it enters as it is.
LEMMA CalmBegins ==
    ASSUME Inv, CalmInv, NEW t \in Tab, NEW r \in Requests,
           Begins(t), req' = [req EXCEPT ![t] = r], UNCHANGED code,
           r.at = "verifying" => /\ code[r.id].mark = "sent"
                                 /\ code[r.id].attempts = r.attempts
    PROVE  CalmInv'
<1> SUFFICES ASSUME calm' PROVE CalmInv'
  BY DEF CalmInv
<1>1. req'[t] = r /\ \A x \in Tab \ {t} : req'[x] = req[x]
  BY Given DEF Inv
<1>2. calm /\ \A x \in Tab : req[x].at = "idle"
  BY DEF Begins
<1>3. QED
  BY <1>1, <1>2 DEF CalmInv, Id

\* A request that ends was the only one.
LEMMA CalmEnds ==
    ASSUME Inv, CalmInv, NEW t \in Tab, req[t].at # "idle", Done(t),
           Id' = Id,
           calm => \A i \in Id : /\ code'[i].tries = code'[i].attempts
                                 /\ code'[i].uses <= 1
    PROVE  CalmInv'
<1> SUFFICES ASSUME calm' PROVE CalmInv'
  BY DEF CalmInv
<1>1. req'[t] = Idle /\ \A x \in Tab \ {t} : req'[x] = req[x]
  BY Given, IdleOK DEF Inv, Done
<1>2. calm
  BY DEF Done
<1>3. \A x \in Tab : req'[x].at = "idle"
  BY <1>1, <1>2, IdleOK DEF CalmInv
<1>4. QED
  BY <1>2, <1>3 DEF CalmInv

\* A code is entered by the one request there is.
LEMMA CalmEnters ==
    ASSUME Inv, CalmInv, NEW t \in Tab, req[t].at = "verifying", Done(t),
           NEW mark \in {None, "verified", "consumed"}, NEW uses \in 0..1,
           code' = Entered(t, mark, uses)
    PROVE  CalmInv'
<1> DEFINE i == req[t].id
<1>1. /\ i \in Id /\ code[i] \in Code /\ code[i].told
      /\ code' \in Seq(Code) /\ Len(code') = Len(code) /\ Id' = Id
      /\ \A j \in Id \ {i} : code'[j] = code[j]
      /\ code'[i].attempts = req[t].attempts + 1
      /\ code'[i].tries = IF calm THEN code[i].tries + 1 ELSE code[i].tries
      /\ code'[i].uses = IF code[i].uses + uses > 2 THEN 2
                           ELSE code[i].uses + uses
  BY Entering
<1>2. ASSUME calm PROVE \A j \in Id : /\ code'[j].tries = code'[j].attempts
                                      /\ code'[j].uses <= 1
  <2>1. /\ code[i].mark = "sent" /\ code[i].attempts = req[t].attempts
        /\ code[i].tries = code[i].attempts
    BY <1>1, <1>2 DEF CalmInv
  <2>2. code[i].uses = 0
    <3>1. CodeFits(i) /\ code[i].uses \in 0..2
      BY <1>1 DEF Inv, Code
    <3>2. QED
      BY <2>1, <3>1 DEF CodeFits
  <2>3. code'[i].tries = code'[i].attempts /\ code'[i].uses <= 1
    BY <1>1, <1>2, <2>1, <2>2
  <2>4. QED
    BY <1>1, <1>2, <2>3 DEF CalmInv
<1>3. QED
  BY <1>1, <1>2, CalmEnds

\* Every step keeps the calm invariant.
LEMMA CalmNext == Inv /\ CalmInv /\ [Next]_vars => CalmInv'
<1> SUFFICES ASSUME Inv, CalmInv, [Next]_vars PROVE CalmInv'
  OBVIOUS
<1>1. TypeInv /\ \A x \in Tab : Fits(req[x])
  BY DEF Inv
<1>2. ASSUME NEW t \in Tab, NEW k \in Kind, ReadForCode(t, k) PROVE CalmInv'
  <2>1. PICK owner \in IF k = "login" /\ OfNumber # {} THEN OfNumber ELSE {None} :
           Request(t, [Idle EXCEPT !.at = "asking", !.kind = k, !.account = owner])
    BY <1>2 DEF ReadForCode
  <2> DEFINE r == [Idle EXCEPT !.at = "asking", !.kind = k, !.account = owner]
  <2>2. owner \in Nat \cup {None} /\ k \in Kinds
    BY <1>1, <2>1, OneTimeCodeAssumption DEF OfNumber, UserId, TypeInv
  <2>3. r \in Requests /\ r.at = "asking"
    BY <2>2 DEF Requests, Idle
  <2>4. req' = [req EXCEPT ![t] = r]
    BY <2>1 DEF Request
  <2> HIDE DEF r
  <2>5. QED
    BY <1>2, <2>3, <2>4, CalmBegins DEF ReadForCode
<1>3. ASSUME NEW t \in Tab, SaveCode(t) PROVE CalmInv'
  <2> DEFINE n == Len(code) + 1
             c == [kind |-> req[t].kind, owner |-> req[t].account,
                   attempts |-> 0, mark |-> "sent", age |-> 0,
                   told |-> FALSE, uses |-> 0, tries |-> 0]
             r == [Idle EXCEPT !.at = "sending", !.id = n]
  <2>1. req[t].kind \in Kinds /\ req[t].account \in Nat \cup {None} /\ n \in Nat
    BY <1>1, <1>3 DEF Fits, TypeInv, Requests, SaveCode
  <2>2. c \in Code /\ c.attempts = 0 /\ c.uses = 0 /\ c.tries = 0
    BY <2>1, OneTimeCodeAssumption DEF Code, Age
  <2>3. r \in Requests /\ r.at = "sending"
    BY <2>1 DEF Requests, Idle
  <2>4. code' = Append(code, c)
    BY <1>3 DEF SaveCode
  <2>5. req' = [req EXCEPT ![t] = r]
    BY <1>3 DEF SaveCode, Request
  <2> HIDE DEF c, r
  <2>6. /\ Id' = Id \cup {n} /\ n \notin Id
        /\ code'[n] = c /\ \A j \in Id : code'[j] = code[j]
    BY <1>1, <2>2, <2>4, CodeAdded
  <2>7. req'[t] = r /\ \A x \in Tab \ {t} : req'[x] = req[x]
    BY <1>1, <2>3, <2>5, Given
  <2>8. calm' = calm /\ req[t].at = "asking"
    BY <1>3 DEF SaveCode
  <2>9. calm => \A x \in Tab : req'[x].at = "verifying" => FALSE
    BY <2>3, <2>7, <2>8 DEF CalmInv
  <2>10. calm => \A x, y \in Tab :
            req'[x].at # "idle" /\ req'[y].at # "idle" => x = y
    BY <2>7, <2>8 DEF CalmInv
  <2>11. QED
    BY <2>2, <2>6, <2>8, <2>9, <2>10 DEF CalmInv
<1>4. ASSUME NEW t \in Tab, Delivered(t) \/ Undelivered(t) PROVE CalmInv'
  <2> DEFINE i == req[t].id
             c == IF Delivered(t) THEN [code[i] EXCEPT !.told = TRUE]
                  ELSE [code[i] EXCEPT !.mark =
                          IF code[i].kind = "vendor" THEN "gone" ELSE @]
  <2>1. req[t].at = "sending" /\ Done(t) /\ i \in Id /\ code[i] \in Code
    BY <1>1, <1>4 DEF Delivered, Undelivered, Fits, TypeInv, Id
  <2>2. /\ c \in Code /\ c.attempts = code[i].attempts
        /\ c.tries = code[i].tries /\ c.uses = code[i].uses
    BY <2>1 DEF Code
  <2>3. code' = [code EXCEPT ![i] = c]
    BY <1>4 DEF Delivered, Undelivered
  <2> HIDE DEF c
  <2>4. /\ Id' = Id /\ code'[i] = c /\ \A j \in Id \ {i} : code'[j] = code[j]
    BY <1>1, <2>1, <2>2, <2>3, CodeChanged
  <2>5. QED
    BY <2>1, <2>2, <2>4, CalmEnds DEF CalmInv
<1>5. ASSUME NEW t \in Tab, NEW i \in Id, NEW right \in BOOLEAN,
             ReadForVerify(t, i, right)
      PROVE  CalmInv'
  <2>1. PICK u \in IF right /\ code[i].kind = "login" THEN SignsIn(i)
                                                     ELSE {None} :
            Request(t, [Idle EXCEPT !.at = "verifying", !.id = i, !.account = u,
                          !.attempts = code[i].attempts, !.right = right])
    BY <1>5 DEF ReadForVerify
  <2> DEFINE r == [Idle EXCEPT !.at = "verifying", !.id = i, !.account = u,
                          !.attempts = code[i].attempts, !.right = right]
  <2>2. u \in Nat \cup {None} /\ i \in Nat
    BY <1>1, <2>1, SignsInOK DEF UserId, Id, TypeInv
  <2>3. code[i].attempts \in 0..(MaxAttempts - 1) /\ code[i].mark = "sent"
    <3>1. code[i] \in Code
      BY <1>1 DEF TypeInv, Id
    <3>2. QED
      BY <1>5, <3>1, OneTimeCodeAssumption DEF Code, ReadForVerify, Enterable
  <2>4. /\ r \in Requests /\ r.id = i /\ r.attempts = code[i].attempts
    BY <2>2, <2>3 DEF Requests, Idle
  <2>5. req' = [req EXCEPT ![t] = r]
    BY <2>1 DEF Request
  <2> HIDE DEF r
  <2>6. QED
    BY <1>5, <2>3, <2>4, <2>5, CalmBegins DEF ReadForVerify
<1>6. ASSUME NEW t \in Tab, SaveWrong(t) PROVE CalmInv'
  BY <1>6, CalmEnters DEF SaveWrong
<1>7. ASSUME NEW t \in Tab, SaveProof(t) PROVE CalmInv'
  BY <1>7, CalmEnters DEF SaveProof
<1>8. ASSUME NEW t \in Tab, SaveSignIn(t) PROVE CalmInv'
  <2>1. req[t].at = "verifying" /\ Done(t) /\ code' = Entered(t, "consumed", 1)
    BY <1>8 DEF SaveSignIn
  <2>2. QED
    BY <2>1, CalmEnters
<1>9. ASSUME NEW t \in Tab, NEW i \in Id, ReadForRegister(t, i) PROVE CalmInv'
  <2> DEFINE r == [Idle EXCEPT !.at = "registering", !.id = i]
  <2>1. i \in Nat
    BY DEF Id
  <2>2. r \in Requests /\ r.at = "registering"
    BY <2>1 DEF Requests, Idle
  <2>3. req' = [req EXCEPT ![t] = r]
    BY <1>9 DEF Request, ReadForRegister
  <2> HIDE DEF r
  <2>4. QED
    BY <1>9, <2>2, <2>3, CalmBegins DEF ReadForRegister
<1>10. ASSUME NEW t \in Tab, SaveRegister(t) PROVE CalmInv'
  <2> DEFINE i == req[t].id
             c == Consumed(code[i])
  <2>1. /\ req[t].at = "registering" /\ Done(t) /\ i \in Id
        /\ code[i] \in Code /\ code' = [code EXCEPT ![i] = c]
    BY <1>1, <1>10 DEF SaveRegister, Fits, TypeInv, Id
  <2>2. c \in Code /\ c.attempts = code[i].attempts /\ c.tries = code[i].tries
    BY <2>1, ConsumedOK
  <2> HIDE DEF c
  <2>3. /\ Id' = Id /\ code'[i] = c /\ \A j \in Id \ {i} : code'[j] = code[j]
    BY <1>1, <2>1, <2>2, CodeChanged
  <2>4. c.uses <= 1
    <3>1. \A j : j = i => CodeFits(j)'
      BY <1>10, <2>1, <2>3, VendorRegistered DEF Inv
    <3>2. code'[i].kind = "vendor"
      <4>1. code[i].kind = "vendor"
        BY <1>1, <2>1 DEF Fits
      <4>2. QED
        BY <2>1, <2>3, <4>1, ConsumedOK DEF c
    <3>3. QED
      BY <2>3, <3>1, <3>2 DEF CodeFits
  <2>5. QED
    BY <2>1, <2>2, <2>3, <2>4, CalmEnds DEF CalmInv
<1>11. ASSUME NEW t \in Tab, NEW phone \in BOOLEAN, RegisterCustomer(t, phone)
       PROVE  CalmInv'
  BY <1>11 DEF RegisterCustomer, CalmInv, Begins, Id
<1>12. ASSUME NEW t \in Tab, Dies(t) PROVE CalmInv'
  <2>1. Id' = Id /\ code' = code
    BY <1>12 DEF Dies, Id
  <2>2. QED
    BY <1>12, <2>1, CalmEnds DEF Dies, CalmInv
<1>13. ASSUME NEW i \in Id, Ages(i) PROVE CalmInv'
  <2> DEFINE c == [code[i] EXCEPT !.age = @ + 1]
  <2>1. UNCHANGED <<req, calm>> /\ code[i] \in Code
    BY <1>1, <1>13 DEF Ages, TypeInv, Id
  <2>2. code[i].age + 1 \in Age
    BY <1>13, <2>1 DEF Ages, Code, Age
  <2>3. /\ c \in Code /\ c.mark = code[i].mark /\ c.attempts = code[i].attempts
        /\ c.tries = code[i].tries /\ c.uses = code[i].uses
    BY <2>1, <2>2 DEF Code
  <2>4. code' = [code EXCEPT ![i] = c]
    BY <1>13 DEF Ages
  <2> HIDE DEF c
  <2>5. Id' = Id /\ code'[i] = c /\ \A j \in Id \ {i} : code'[j] = code[j]
    BY <1>1, <2>3, <2>4, CodeChanged
  <2>6. \A x \in Tab : req[x].at = "verifying" => req[x].id \in Id
    BY <1>1 DEF Fits
  <2>7. QED
    BY <2>1, <2>3, <2>5, <2>6 DEF CalmInv
<1>14. CASE UNCHANGED vars
  BY <1>14 DEF vars, CalmInv, Id
<1>15. QED
  BY <1>2, <1>3, <1>4, <1>5, <1>6, <1>7, <1>8, <1>9, <1>10, <1>11, <1>12,
     <1>13, <1>14 DEF Next, TabNext

\* A code signs in once, unless requests overlap.
THEOREM CodeSignsInOnce == Spec => []SignsInOnce
<1>1. CalmInv => SignsInOnce
  BY DEF CalmInv, SignsInOnce
<1>2. QED
  BY <1>1, InvInit, InvNext, CalmInit, CalmNext, PTL DEF Spec

\* Every code entered is counted and there are no more than max_attempts of
\* them, unless requests overlap.
THEOREM EveryTryCounted == Spec => []TriesAreCounted
<1>1. Inv /\ CalmInv => TriesAreCounted
  <2> SUFFICES ASSUME Inv, CalmInv, calm, NEW i \in Id
               PROVE  /\ code[i].tries = code[i].attempts
                      /\ code[i].tries <= MaxAttempts
    BY DEF TriesAreCounted
  <2>1. code[i].attempts \in 0..MaxAttempts
    <3>1. code[i] \in Code
      BY DEF Inv, TypeInv, Id
    <3>2. QED
      BY <3>1 DEF Code
  <2>2. QED
    BY <2>1, OneTimeCodeAssumption DEF CalmInv
<1>2. QED
  BY <1>1, InvInit, InvNext, CalmInit, CalmNext, PTL DEF Spec
=============================================================================
