--------------------------- MODULE AccountsProofs ---------------------------
(***************************************************************************)
(* Theorems about Accounts and MailDelivery, for any sets of workers,      *)
(* couriers, users and codes: types, that only harmed users are left       *)
(* without a code, and that no mail is sent more often than asked for.     *)
(***************************************************************************)
EXTENDS Accounts, FiniteSetTheorems, TLAPS

\* What a request knows at each of its statements.
WellFormed(r) ==
    /\ r \in Requests
    /\ r.pc \in {"insertUser", "createCode", "saveUser"} => r.row \in Rows
    /\ r.pc \in {"createCode", "mailCode", "confirm", "dropCode",
                 "mailAgain", "mailReset", "saveUser"} => r.user \in Users
    /\ r.pc \in {"getUser", "confirm", "dropCode"} => r.code \in CodeRows

TablesTyped ==
    /\ Registered \subseteq Users /\ user \in [Registered -> Rows]
    /\ codes \subseteq CodeRows
    /\ harmed \subseteq Users
    /\ wanted \in 0 .. MaxMails

RequestsTyped ==
    /\ req \in [Workers -> Requests]
    /\ \A w \in Workers : WellFormed(req[w])

CourierTyped(r) ==
    /\ r \in Couriering
    /\ r # Resting => r.mail \in Mails /\ r.pc # "resting"

MailTyped ==
    /\ MailTypeOK
    /\ \A c \in Couriers : CourierTyped(courier[c])

\* The inductive type invariant.
Typed == TablesTyped /\ RequestsTyped /\ MailTyped

-----------------------------------------------------------------------------
(* What the inductive invariant of VerifiableUnlessHarmed says.            *)

UniqueEmails == \A u, v \in Registered : user[u].email = user[v].email => u = v

\* Requests, and rows of codes, refer to users there are.
Refers(r) ==
    /\ r.pc \in {"createCode", "saveUser"} => r.user \in Registered
    /\ r.pc \in {"getUser", "confirm", "dropCode"} => r.code.user \in Registered

Referring ==
    /\ \A c \in codes : c.user \in Registered
    /\ \A w \in Workers : Refers(req[w])

\* The code r works on is one u could confirm its address with.
Confirms(r, u) == r.code.user = u /\ r.code.email = user[u].email

\* What a request has read is true of every user that is not harmed.
Reading(r, u) ==
    /\ r.pc = "createCode" /\ r.user = u => r.row.email = user[u].email
    /\ r.pc = "confirm" /\ Confirms(r, u) => r.user = u
    /\ r.pc = "dropCode" /\ Confirms(r, u) => user[u].confirmed

ReadingsHold == \A w \in Workers, u \in Registered \ harmed : Reading(req[w], u)

IInv == UniqueEmails /\ Referring /\ ReadingsHold /\ VerifiableUnlessHarmed

-----------------------------------------------------------------------------
\* The inductive form implies the types.
LEMMA TypedImplies == Typed => TypeOK
BY DEF Typed, TablesTyped, RequestsTyped, MailTyped, TypeOK

\* A worker at rest.
LEMMA IdleWellFormed == WellFormed(Idle)
BY DEF WellFormed, Idle, Requests

\* Every user can be mailed a code and a token.
LEMMA UsersAreMailed ==
    ASSUME NEW u \in Users
    PROVE  <<"verify", u>> \in Mails /\ <<"reset", u>> \in Mails
BY AccountsAssumption

\* A step that changes one request, to a well-formed one.
LEMMA RequestStep ==
    ASSUME Typed, NEW w \in Workers, NEW r, WellFormed(r), Become(w, r)
    PROVE  /\ RequestsTyped'
           /\ \A v \in Workers : req'[v] = IF v = w THEN r ELSE req[v]
<1>1. r \in Requests
  BY DEF WellFormed
<1>2. req' \in [Workers -> Requests]
  BY <1>1 DEF Typed, RequestsTyped, Become
<1>3. \A v \in Workers : req'[v] = IF v = w THEN r ELSE req[v]
  BY DEF Typed, RequestsTyped, Become
<1> QED
  BY <1>2, <1>3 DEF Typed, RequestsTyped

\* A row that is saved is a row.
LEMMA WriteTyped ==
    ASSUME TablesTyped, NEW u \in Users, NEW r \in Rows, WriteUser(u, r)
    PROVE  /\ Registered' = Registered \cup {u}
           /\ Registered' \subseteq Users
           /\ user' \in [Registered' -> Rows]
           /\ \A v \in Registered' : user'[v] = IF v = u THEN r ELSE user[v]
<1>1. Registered' = Registered \cup {u}
  BY DEF WriteUser, Registered
<1>2. \A v \in Registered \cup {u} : user'[v] = IF v = u THEN r ELSE user[v]
  BY DEF WriteUser
<1>3. user' = [v \in Registered \cup {u} |-> user'[v]]
  BY <1>2 DEF WriteUser
<1>4. \A v \in Registered \cup {u} : user'[v] \in Rows
  BY <1>2 DEF TablesTyped
<1>5. user' \in [Registered \cup {u} -> Rows]
  BY <1>3, <1>4
<1> QED
  BY <1>1, <1>2, <1>5 DEF TablesTyped

-----------------------------------------------------------------------------
(* The mails' types.                                                       *)

\* A courier that is given a typed task.
LEMMA TurnTyped ==
    ASSUME MailTyped, NEW c \in Couriers, NEW r, CourierTyped(r), Turn(c, r)
    PROVE  /\ courier' \in [Couriers -> Couriering]
           /\ \A d \in Couriers : courier'[d] = IF d = c THEN r ELSE courier[d]
           /\ \A d \in Couriers : CourierTyped(courier'[d])
<1>1. \A d \in Couriers : courier'[d] = IF d = c THEN r ELSE courier[d]
  BY DEF MailTyped, MailTypeOK, Turn
<1>2. \A d \in Couriers : CourierTyped(courier'[d])
  BY <1>1 DEF MailTyped
<1>3. courier' \in [Couriers -> Couriering]
  BY DEF MailTyped, MailTypeOK, Turn, CourierTyped
<1> QED
  BY <1>1, <1>2, <1>3

\* A courier at rest, and one that has just been handed a mail.
LEMMA CouriersTyped ==
    /\ CourierTyped(Resting)
    /\ \A m \in Mails :
          CourierTyped([pc |-> "reserved", mail |-> m, depth |-> 0, unacked |-> TRUE])
BY MailAssumption DEF CourierTyped, Resting, Couriering

\* A mail that is asked for.
LEMMA DelayTyped ==
    ASSUME MailTyped, NEW m \in Mails, Delay(m)
    PROVE  MailTyped'
<1>1. mailQueue' \in [Mails -> Nat] /\ owed' \in [Mails -> Int]
  BY DEF MailTyped, MailTypeOK, Delay
<1> QED
  BY <1>1 DEF MailTyped, MailTypeOK, Delay

\* What a courier has in hand.
LEMMA InHand ==
    ASSUME MailTyped, NEW c \in Couriers,
           Reserved(c) \/ Sending(c) \/ courier[c].pc = "acknowledging" \/ courier[c] # Resting
    PROVE  courier[c] \in Couriering /\ courier[c].mail \in Mails
BY DEF MailTyped, CourierTyped, Couriering, Reserved, Sending, Resting

\* The records a courier goes on with: the task starts, is dealt with, waits for
\* the provider, or is handed out again.
Started(r) == [r EXCEPT !.pc = "sending", !.depth = 1]
Done(r) == [r EXCEPT !.pc = "acknowledging", !.depth = 0]
Waiting(r) == [r EXCEPT !.depth = @ + 1]
Restored(r) == [r EXCEPT !.unacked = FALSE]

LEMMA Records ==
    ASSUME NEW r \in Couriering, r.mail \in Mails, r.pc # "resting"
    PROVE  /\ CourierTyped(Started(r)) /\ Started(r).pc = "sending" /\ Started(r).mail = r.mail
           /\ CourierTyped(Done(r)) /\ Done(r).pc = "acknowledging" /\ Done(r).mail = r.mail
           /\ r.depth < MaxDepth => CourierTyped(Waiting(r))
           /\ Waiting(r).pc = r.pc /\ Waiting(r).mail = r.mail
           /\ CourierTyped(Restored(r)) /\ Restored(r).pc = r.pc /\ Restored(r).mail = r.mail
<1>1. MaxDepth \in Nat /\ 0 \in 0 .. MaxDepth /\ 1 \in 0 .. MaxDepth
  BY MailAssumption
<1>2. Started(r) \in Couriering /\ Started(r).pc = "sending" /\ Started(r).mail = r.mail
  BY <1>1 DEF Started, Couriering
<1>3. Done(r) \in Couriering /\ Done(r).pc = "acknowledging" /\ Done(r).mail = r.mail
  BY <1>1 DEF Done, Couriering
<1>4. /\ r.depth < MaxDepth => Waiting(r) \in Couriering
      /\ Waiting(r).pc = r.pc /\ Waiting(r).mail = r.mail
  BY <1>1 DEF Waiting, Couriering
<1>5. Restored(r) \in Couriering /\ Restored(r).pc = r.pc /\ Restored(r).mail = r.mail
  BY DEF Restored, Couriering
<1> QED
  BY <1>2, <1>3, <1>4, <1>5 DEF CourierTyped

\* The record the step of a courier leaves, with what it had before.
LEMMA CourierSteps ==
    ASSUME MailTyped, NEW c \in Couriers
    PROVE  /\ StartSending(c) \/ ProviderAnswers(c) \/ GiveUp(c) \/ ProviderIsBusy(c)
              \/ HandOutAgain(c)
              => /\ courier[c] \in Couriering /\ courier[c].mail \in Mails
                 /\ courier[c].pc \in {"reserved", "sending"}
           /\ StartSending(c) => Turn(c, Started(courier[c]))
           /\ ProviderAnswers(c) \/ GiveUp(c) => Turn(c, Done(courier[c]))
           /\ ProviderIsBusy(c) => /\ Turn(c, Waiting(courier[c]))
                                    /\ courier[c].depth < MaxDepth
           /\ HandOutAgain(c) => Turn(c, Restored(courier[c]))
BY InHand DEF StartSending, ProviderAnswers, GiveUp, ProviderIsBusy, HandOutAgain, Overdue,
              Reserved, Sending, Started, Done, Waiting, Restored

\* Every step of a courier keeps the types.
LEMMA CourierStepTyped ==
    ASSUME MailTyped, NEW c \in Couriers, Deliver(c) \/ HandOutAgain(c) \/ KillCourier(c)
    PROVE  MailTyped'
<1>1. CASE TakeMail(c)
  <2>1. PICK m \in Mails :
           /\ mailQueue[m] > 0
           /\ mailQueue' = [mailQueue EXCEPT ![m] = @ - 1]
           /\ Turn(c, [pc |-> "reserved", mail |-> m, depth |-> 0, unacked |-> TRUE])
    BY <1>1 DEF TakeMail
  <2>2. mailQueue' \in [Mails -> Nat]
    BY <2>1 DEF MailTyped, MailTypeOK
  <2> QED
    BY <1>1, <2>1, <2>2, CouriersTyped, TurnTyped DEF TakeMail, MailTyped, MailTypeOK
<1>2. CASE ProviderAnswers(c) \/ GiveUp(c)
  <2>1. owed' \in [Mails -> Int]
    BY <1>2 DEF ProviderAnswers, GiveUp, DealtWith, MailTyped, MailTypeOK
  <2>2. PICK r : r = Done(courier[c])
    OBVIOUS
  <2>3. CourierTyped(r) /\ Turn(c, r)
    BY <1>2, <2>2, CourierSteps, Records
  <2> QED
    BY <1>2, <2>1, <2>3, TurnTyped DEF ProviderAnswers, GiveUp, MailTyped, MailTypeOK
<1>3. CASE StartSending(c) \/ ProviderIsBusy(c)
  <2>1. PICK r : CourierTyped(r) /\ Turn(c, r)
    BY <1>3, CourierSteps, Records
  <2> QED
    BY <1>3, <2>1, TurnTyped DEF StartSending, ProviderIsBusy, MailTyped, MailTypeOK
<1>4. CASE Acknowledge(c)
  BY <1>4, CouriersTyped, TurnTyped DEF Acknowledge, MailTyped, MailTypeOK
<1>5. CASE HandOutAgain(c)
  <2>1. mailQueue' \in [Mails -> Nat] /\ owed' \in [Mails -> Int]
    <3>1. courier[c].mail \in Mails
      BY <1>5, CourierSteps
    <3>2. /\ mailQueue' = [mailQueue EXCEPT ![courier[c].mail] = @ + 1]
          /\ owed' = [owed EXCEPT ![courier[c].mail] = @ + 1]
      BY <1>5 DEF HandOutAgain
    <3> QED
      BY <3>1, <3>2 DEF MailTyped, MailTypeOK
  <2>2. PICK r : CourierTyped(r) /\ Turn(c, r)
    BY <1>5, CourierSteps, Records
  <2> QED
    BY <1>5, <2>1, <2>2, TurnTyped DEF HandOutAgain, MailTyped, MailTypeOK
<1>6. CASE KillCourier(c)
  <2>1. mailQueue' \in [Mails -> Nat] /\ owed' \in [Mails -> Int]
    BY <1>6 DEF KillCourier, DealtWith, MailTyped, MailTypeOK
  <2>2. kills' \in 0 .. MaxKills
    BY <1>6, MailAssumption DEF KillCourier, MailTyped, MailTypeOK
  <2> QED
    BY <1>6, <2>1, <2>2, CouriersTyped, TurnTyped DEF KillCourier, MailTyped, MailTypeOK
<1> QED
  BY <1>1, <1>2, <1>3, <1>4, <1>5, <1>6 DEF Deliver

-----------------------------------------------------------------------------
(* The types of the users, the codes and the requests.                     *)

\* A step that leaves the mails alone.
LEMMA MailSame ==
    ASSUME MailTyped, UNCHANGED mailVars
    PROVE  MailTyped'
BY DEF MailTyped, MailTypeOK, mailVars

\* A step that leaves the tables alone.
LEMMA TablesSame ==
    ASSUME TablesTyped, UNCHANGED <<user, codes, harmed>>, wanted' \in 0 .. MaxMails
    PROVE  TablesTyped'
BY DEF TablesTyped, Registered

\* Every step of a request keeps the types.
LEMMA HandleTyped ==
    ASSUME Typed, NEW w \in Workers, Handle(w)
    PROVE  Typed'
<1> USE DEF At, Free
<1>0. WellFormed(req[w])
  BY DEF Typed, RequestsTyped
<1>a. TablesTyped /\ MailTyped /\ wanted \in 0 .. MaxMails
  BY DEF Typed, TablesTyped
<1>1. CASE SignUp(w)
  <2>1. PICK e \in Emails, c \in {FALSE} \cup Settable :
           Become(w, [Idle EXCEPT !.pc = "insertUser", !.row = [email |-> e, confirmed |-> c]])
    BY <1>1 DEF SignUp
  <2>2. WellFormed([Idle EXCEPT !.pc = "insertUser", !.row = [email |-> e, confirmed |-> c]])
    BY AccountsAssumption DEF WellFormed, Idle, Requests, Rows
  <2> QED
    BY <1>1, <1>a, <2>1, <2>2, RequestStep, MailSame, TablesSame DEF SignUp, Typed, userVars
<1>2. CASE InsertUser(w)
  <2>1. CASE Reply(w) /\ UNCHANGED user
    BY <1>2, <1>a, <2>1, IdleWellFormed, RequestStep, MailSame, TablesSame
       DEF InsertUser, Typed, Reply
  <2>2. CASE \E u \in Users \ Registered :
                /\ WriteUser(u, req[w].row)
                /\ Become(w, [req[w] EXCEPT !.pc = "createCode", !.user = u])
    <3>1. PICK u \in Users \ Registered :
             /\ WriteUser(u, req[w].row)
             /\ Become(w, [req[w] EXCEPT !.pc = "createCode", !.user = u])
      BY <2>2
    <3>2. req[w].row \in Rows
      BY <1>0, <1>2 DEF InsertUser, WellFormed
    <3>3. WellFormed([req[w] EXCEPT !.pc = "createCode", !.user = u])
      BY <1>0, <3>2 DEF WellFormed, Requests
    <3>4. TablesTyped'
      BY <1>2, <1>a, <3>1, <3>2, WriteTyped DEF InsertUser, TablesTyped
    <3> QED
      BY <1>2, <1>a, <3>1, <3>3, <3>4, RequestStep, MailSame DEF InsertUser, Typed
  <2> QED
    BY <1>2, <2>1, <2>2 DEF InsertUser
<1>3. CASE CreateCode(w)
  <2>1. req[w].user \in Users /\ req[w].row \in Rows /\ req[w] \in Requests
    BY <1>0, <1>3 DEF CreateCode, WellFormed
  <2>2. codes' \subseteq CodeRows
    BY <1>3, <1>a, <2>1 DEF CreateCode, CodeRows, Rows, TablesTyped
  <2>3. WellFormed([req[w] EXCEPT !.pc = "mailCode"])
    BY <2>1 DEF WellFormed, Requests
  <2> QED
    BY <1>3, <1>a, <2>2, <2>3, RequestStep, MailSame
       DEF CreateCode, Goto, Typed, TablesTyped, Registered
<1>4. CASE MailCode(w) \/ SendMail(w)
  <2>1. req[w].user \in Users
    BY <1>0, <1>4 DEF MailCode, SendMail, WellFormed
  <2>2. MailTyped'
    BY <1>4, <1>a, <2>1, UsersAreMailed, DelayTyped DEF MailCode, SendMail
  <2> QED
    BY <1>4, <1>a, <2>2, IdleWellFormed, RequestStep, TablesSame
       DEF MailCode, SendMail, Reply, Typed, userVars
<1>5. CASE GetCode(w)
  <2>1. PICK c \in codes : Become(w, [Idle EXCEPT !.pc = "getUser", !.code = c])
    BY <1>5 DEF GetCode
  <2>2. WellFormed([Idle EXCEPT !.pc = "getUser", !.code = c])
    BY <1>a DEF WellFormed, Idle, Requests, TablesTyped
  <2> QED
    BY <1>5, <1>a, <2>1, <2>2, RequestStep, MailSame, TablesSame DEF GetCode, Typed, userVars
<1>6. CASE GetUser(w)
  <2>0. req[w] \in Requests /\ req[w].code \in CodeRows
    BY <1>0, <1>6 DEF GetUser, WellFormed
  <2>1. CASE Reply(w)
    BY <1>6, <1>a, <2>1, IdleWellFormed, RequestStep, MailSame, TablesSame
       DEF GetUser, Typed, userVars, Reply
  <2>2. CASE \E u \in Registered :
                Become(w, [req[w] EXCEPT !.pc = IF user[u].confirmed THEN "dropCode" ELSE "confirm",
                                         !.user = u])
    <3>1. PICK u \in Registered :
             Become(w, [req[w] EXCEPT !.pc = IF user[u].confirmed THEN "dropCode" ELSE "confirm",
                                      !.user = u])
      BY <2>2
    <3>2. u \in Users
      BY <1>a DEF TablesTyped
    <3>3. WellFormed([req[w] EXCEPT !.pc = IF user[u].confirmed THEN "dropCode" ELSE "confirm",
                                    !.user = u])
      BY <2>0, <3>2 DEF WellFormed, Requests
    <3> QED
      BY <1>6, <1>a, <3>1, <3>3, RequestStep, MailSame, TablesSame DEF GetUser, Typed, userVars
  <2> QED
    BY <1>6, <2>1, <2>2 DEF GetUser
<1>7. CASE Confirm(w)
  <2>1. WellFormed([req[w] EXCEPT !.pc = "dropCode"])
    BY <1>0, <1>7 DEF Confirm, WellFormed, Requests
  <2>2. user' \in [Registered -> Rows] /\ Registered' = Registered
    BY <1>7, <1>a DEF Confirm, TablesTyped, Rows, Registered
  <2> QED
    BY <1>7, <1>a, <2>1, <2>2, RequestStep, MailSame DEF Confirm, Goto, Typed, TablesTyped
<1>8. CASE DropCode(w)
  <2>1. TablesTyped'
    BY <1>8, <1>a DEF DropCode, TablesTyped, Registered
  <2> QED
    BY <1>8, <1>a, <2>1, IdleWellFormed, RequestStep, MailSame DEF DropCode, Reply, Typed
<1>9. CASE Resend(w) \/ RequestReset(w)
  <2>1. PICK u \in Registered, pc \in {"mailAgain", "mailReset"} :
           Become(w, [Idle EXCEPT !.pc = pc, !.user = u])
    BY <1>9 DEF Resend, RequestReset
  <2>2. WellFormed([Idle EXCEPT !.pc = pc, !.user = u])
    BY <1>a DEF WellFormed, Idle, Requests, TablesTyped
  <2>3. wanted' \in 0 .. MaxMails
    <3>1. wanted > 0 /\ wanted' = wanted - 1
      BY <1>9 DEF Resend, RequestReset
    <3>2. MaxMails \in Nat
      BY AccountsAssumption
    <3> QED
      BY <1>a, <3>1, <3>2
  <2>4. TablesTyped'
    BY <1>9, <1>a, <2>3, TablesSame DEF Resend, RequestReset
  <2> QED
    BY <1>9, <1>a, <2>1, <2>2, <2>4, RequestStep, MailSame DEF Resend, RequestReset, Typed
<1>10. CASE LoadUser(w)
  <2>1. PICK u \in Registered :
         \E e \in {user[u].email} \cup {f \in PutEmails : ~Taken(f)},
            c \in {user[u].confirmed} \cup Settable :
               Become(w, [Idle EXCEPT !.pc = "saveUser", !.user = u,
                                      !.row = [email |-> e, confirmed |-> c]])
    BY <1>10 DEF LoadUser
  <2>2. PICK e \in {user[u].email} \cup {f \in PutEmails : ~Taken(f)},
             c \in {user[u].confirmed} \cup Settable :
           Become(w, [Idle EXCEPT !.pc = "saveUser", !.user = u,
                                  !.row = [email |-> e, confirmed |-> c]])
    BY <2>1
  <2>3. u \in Users /\ user[u] \in Rows
    BY <1>a DEF TablesTyped
  <2>4. [email |-> e, confirmed |-> c] \in Rows
    BY <2>3, AccountsAssumption DEF Rows
  <2>5. WellFormed([Idle EXCEPT !.pc = "saveUser", !.user = u,
                                !.row = [email |-> e, confirmed |-> c]])
    BY <2>3, <2>4 DEF WellFormed, Idle, Requests
  <2> QED
    BY <1>10, <1>a, <2>2, <2>5, RequestStep, MailSame, TablesSame DEF LoadUser, Typed, userVars
<1>11. CASE SaveUser(w)
  <2>1. req[w].user \in Users /\ req[w].row \in Rows
    BY <1>0, <1>11 DEF SaveUser, WellFormed
  <2>2. TablesTyped'
    <3>1. CASE UNCHANGED <<user, harmed>>
      BY <1>11, <1>a, <3>1, TablesSame DEF SaveUser
    <3>2. CASE /\ WriteUser(req[w].user, req[w].row)
               /\ harmed' = IF Overwrites(req[w].user, req[w].row)
                            THEN harmed \cup {req[w].user} ELSE harmed
      <4>1. harmed' \subseteq Users
        BY <1>a, <2>1, <3>2 DEF TablesTyped
      <4> QED
        BY <1>11, <1>a, <2>1, <3>2, <4>1, WriteTyped DEF SaveUser, TablesTyped
    <3> QED
      BY <1>11, <3>1, <3>2 DEF SaveUser
  <2> QED
    BY <1>11, <1>a, <2>2, IdleWellFormed, RequestStep, MailSame DEF SaveUser, Reply, Typed
<1>12. CASE Kill(w)
  <2>1. harmed' \subseteq Users
    BY <1>0, <1>12, <1>a DEF Kill, WellFormed, TablesTyped
  <2>2. TablesTyped'
    BY <1>12, <1>a, <2>1 DEF Kill, TablesTyped, Registered
  <2> QED
    BY <1>12, <1>a, <2>2, IdleWellFormed, RequestStep, MailSame DEF Kill, Reply, Typed
<1> QED
  BY <1>1, <1>2, <1>3, <1>4, <1>5, <1>6, <1>7, <1>8, <1>9, <1>10, <1>11, <1>12 DEF Handle

\* Every step keeps the types.
LEMMA TypeStep ==
    ASSUME Typed, [Next]_vars
    PROVE  Typed'
<1>1. ASSUME NEW c \in Couriers, Deliver(c) \/ HandOutAgain(c) \/ KillCourier(c),
             UNCHANGED <<userVars, req>>
      PROVE  Typed'
  BY <1>1, CourierStepTyped
     DEF Typed, TablesTyped, RequestsTyped, Registered, userVars
<1>2. CASE UNCHANGED vars
  BY <1>2, MailSame DEF vars, userVars, Typed, TablesTyped, RequestsTyped, Registered
<1> QED
  BY <1>1, <1>2, HandleTyped DEF Next

\* No users, codes or mails at first.
LEMMA InitTyped == Init => Typed
<1> SUFFICES ASSUME Init PROVE Typed
  OBVIOUS
<1>1. Registered = {} /\ user \in [Registered -> Rows]
  BY DEF Init, Registered
<1>2. req \in [Workers -> Requests] /\ \A w \in Workers : WellFormed(req[w])
  BY IdleWellFormed DEF Init, WellFormed
<1>3. MailTyped
  BY MailAssumption, CouriersTyped DEF Init, MailInit, MailTyped, MailTypeOK, CourierTyped
<1> QED
  BY <1>1, <1>2, <1>3, AccountsAssumption DEF Init, Typed, TablesTyped, RequestsTyped

(* Users, codes, mails, couriers and requests keep their types, for any     *)
(* constants.                                                               *)
THEOREM TypeCorrect == Spec => []TypeOK
<1>1. Typed /\ [Next]_vars => Typed'
  BY TypeStep
<1> QED
  BY <1>1, InitTyped, TypedImplies, PTL DEF Spec

-----------------------------------------------------------------------------
(* The invariant that makes users verifiable.                              *)

\* A request that is answered refers to nothing.
LEMMA IdleRefers == Refers(Idle) /\ \A u : Reading(Idle, u)
BY DEF Refers, Reading, Idle

\* A step of a request that changes no user and no code.
LEMMA QuietStep ==
    ASSUME Typed, IInv, NEW w \in Workers, NEW r, Become(w, r),
           UNCHANGED <<user, codes, harmed>>, ~At(w, "createCode"),
           Refers(r), \A u \in Registered \ harmed : Reading(r, u)
    PROVE  IInv'
<1>1. \A v \in Workers : req'[v] = IF v = w THEN r ELSE req[v]
  BY DEF Typed, RequestsTyped, Become
<1>2. Registered' = Registered
  BY DEF Registered
<1>3. UniqueEmails'
  BY <1>2 DEF IInv, UniqueEmails
<1>4. Referring'
  BY <1>1, <1>2 DEF IInv, Referring, Refers
<1>5. ReadingsHold'
  <2> SUFFICES ASSUME NEW v \in Workers, NEW u \in Registered \ harmed
               PROVE  Reading(req[v], u)'
    BY <1>2 DEF ReadingsHold
  <2>1. Reading(req'[v], u)
    BY <1>1 DEF IInv, ReadingsHold
  <2> QED
    BY <2>1 DEF Reading, Confirms
<1>6. VerifiableUnlessHarmed'
  BY <1>1, <1>2 DEF IInv, VerifiableUnlessHarmed, HasCode, At
<1> QED
  BY <1>3, <1>4, <1>5, <1>6 DEF IInv

\* A new user: nothing refers to it yet, and its request makes its code.
LEMMA InsertStep ==
    ASSUME Typed, IInv, NEW w \in Workers, InsertUser(w), ~UNCHANGED user
    PROVE  IInv'
<1>1. PICK u \in Users \ Registered :
         /\ ~Taken(req[w].row.email)
         /\ WriteUser(u, req[w].row)
         /\ Become(w, [req[w] EXCEPT !.pc = "createCode", !.user = u])
         /\ UNCHANGED <<codes, harmed>>
  BY DEF InsertUser
<1>2. At(w, "insertUser") /\ req[w] \in Requests /\ req[w].row \in Rows
  BY DEF InsertUser, At, Typed, RequestsTyped, WellFormed
<1>3. /\ Registered' = Registered \cup {u}
      /\ \A v \in Registered' : user'[v] = IF v = u THEN req[w].row ELSE user[v]
  BY <1>1, <1>2, WriteTyped DEF Typed
<1>4. \A x \in Workers : req'[x] = IF x = w THEN [req[w] EXCEPT !.pc = "createCode", !.user = u]
                                  ELSE req[x]
  BY <1>1 DEF Typed, RequestsTyped, Become
<1>5. /\ req'[w].pc = "createCode" /\ req'[w].user = u
      /\ req'[w].row = req[w].row
  BY <1>2, <1>4 DEF Requests
<1>6. UniqueEmails'
  BY <1>1, <1>3 DEF IInv, UniqueEmails, Taken
<1>7. Referring'
  <2>1. \A c \in codes' : c.user \in Registered'
    BY <1>1, <1>3 DEF IInv, Referring
  <2>2. ASSUME NEW x \in Workers PROVE Refers(req[x])'
    <3>1. CASE x = w
      BY <1>3, <1>5, <3>1 DEF Refers
    <3>2. CASE x # w
      BY <1>3, <1>4, <3>2 DEF IInv, Referring, Refers
    <3> QED
      BY <3>1, <3>2
  <2> QED
    BY <2>1, <2>2 DEF Referring
<1>8. ReadingsHold'
  <2> SUFFICES ASSUME NEW x \in Workers, NEW v \in Registered' \ harmed'
               PROVE  Reading(req[x], v)'
    BY DEF ReadingsHold
  <2>1. CASE x = w
    BY <1>3, <1>5, <2>1 DEF Reading
  <2>2. CASE x # w /\ v # u
    BY <1>1, <1>3, <1>4, <2>2 DEF IInv, ReadingsHold, Reading, Confirms
  <2>3. CASE x # w /\ v = u
    BY <1>3, <1>4, <2>3 DEF IInv, Referring, Refers, Reading, Confirms
  <2> QED
    BY <2>1, <2>2, <2>3
<1>9. VerifiableUnlessHarmed'
  <2> SUFFICES ASSUME NEW v \in Registered' \ harmed', ~user'[v].confirmed
               PROVE  HasCode(v)'
    BY DEF VerifiableUnlessHarmed
  <2>1. CASE v = u
    BY <1>5, <2>1 DEF HasCode, At
  <2>2. CASE v # u
    <3>1. HasCode(v)
      BY <1>1, <1>3, <2>2 DEF IInv, VerifiableUnlessHarmed
    <3> QED
      BY <1>1, <1>2, <1>3, <1>4, <2>2, <3>1 DEF HasCode, At
  <2> QED
    BY <2>1, <2>2
<1> QED
  BY <1>6, <1>7, <1>8, <1>9 DEF IInv

\* The code is made for the address the user has, unless it was edited.
LEMMA CreateCodeStep ==
    ASSUME Typed, IInv, NEW w \in Workers, CreateCode(w)
    PROVE  IInv'
<1>1. PICK c \in Codes :
         codes' = codes \cup {[user |-> req[w].user, email |-> req[w].row.email, code |-> c]}
  BY DEF CreateCode
<1>2. /\ At(w, "createCode") /\ req[w] \in Requests
      /\ Registered' = Registered /\ UNCHANGED <<user, harmed>>
  BY DEF CreateCode, At, Typed, RequestsTyped, Registered
<1>3. \A x \in Workers : req'[x] = IF x = w THEN [req[w] EXCEPT !.pc = "mailCode"] ELSE req[x]
  BY DEF CreateCode, Goto, Typed, RequestsTyped, Become
<1>4. req'[w].pc = "mailCode"
  BY <1>2, <1>3 DEF Requests
<1>5. UniqueEmails'
  BY <1>2 DEF IInv, UniqueEmails
<1>6. Referring'
  <2>1. req[w].user \in Registered
    BY <1>2 DEF IInv, Referring, Refers, At
  <2> QED
    BY <1>1, <1>2, <1>3, <1>4, <2>1 DEF IInv, Referring, Refers
<1>7. ReadingsHold'
  BY <1>2, <1>3, <1>4 DEF IInv, ReadingsHold, Reading, Confirms
<1>8. VerifiableUnlessHarmed'
  <2> SUFFICES ASSUME NEW u \in Registered \ harmed, ~user[u].confirmed
               PROVE  HasCode(u)'
    BY <1>2 DEF VerifiableUnlessHarmed
  <2>1. HasCode(u)
    BY DEF IInv, VerifiableUnlessHarmed
  <2>2. CASE \E d \in codes : d.user = u /\ d.email = user[u].email
    BY <1>1, <1>2, <2>2 DEF HasCode
  <2>3. CASE \E x \in Workers : At(x, "createCode") /\ req[x].user = u
    <3>1. PICK x \in Workers : At(x, "createCode") /\ req[x].user = u
      BY <2>3
    <3>2. CASE x = w
      <4>1. req[w].row.email = user[u].email
        BY <3>1, <3>2 DEF IInv, ReadingsHold, Reading, At
      <4> QED
        <5> DEFINE d == [user |-> req[w].user, email |-> req[w].row.email, code |-> c]
        <5>1. d \in codes' /\ d.user = u /\ d.email = user'[u].email
          BY <1>1, <1>2, <3>1, <3>2, <4>1
        <5> QED
          BY <5>1 DEF HasCode
    <3>3. CASE x # w
      BY <1>3, <3>1, <3>3 DEF HasCode, At
    <3> QED
      BY <3>2, <3>3
  <2> QED
    BY <2>1, <2>2, <2>3 DEF HasCode
<1> QED
  BY <1>5, <1>6, <1>7, <1>8 DEF IInv

\* The user of the code's address is the one whose code it was, or that one
\* has another address by now.
LEMMA ConfirmStep ==
    ASSUME Typed, IInv, NEW w \in Workers, Confirm(w)
    PROVE  IInv'
<1>1. /\ At(w, "confirm") /\ req[w] \in Requests
      /\ Registered' = Registered /\ UNCHANGED <<codes, harmed>>
  BY DEF Confirm, At, Typed, RequestsTyped, Registered
<1>2. \A x \in Workers : req'[x] = IF x = w THEN [req[w] EXCEPT !.pc = "dropCode"] ELSE req[x]
  BY DEF Confirm, Goto, Typed, RequestsTyped, Become
<1>3. /\ req'[w].pc = "dropCode" /\ req'[w].code = req[w].code /\ req'[w].user = req[w].user
  BY <1>1, <1>2 DEF Requests
<1>4. ASSUME NEW u \in Registered
      PROVE  /\ user'[u].email = user[u].email
             /\ u = req[w].user => user'[u].confirmed
             /\ user[u].confirmed => user'[u].confirmed
  BY DEF Confirm, Typed, TablesTyped, Rows
<1>5. UniqueEmails'
  <2> SUFFICES ASSUME NEW v \in Registered, NEW x \in Registered,
                      user'[v].email = user'[x].email
               PROVE  v = x
    BY <1>1 DEF UniqueEmails
  <2>1. user[v].email = user[x].email
    BY <1>4
  <2> QED
    BY <2>1 DEF IInv, UniqueEmails
<1>6. Referring'
  <2>1. ASSUME NEW x \in Workers PROVE Refers(req[x])'
    BY <1>1, <1>2, <1>3 DEF IInv, Referring, Refers, At
  <2> QED
    BY <1>1, <2>1 DEF IInv, Referring
<1>7. ReadingsHold'
  <2> SUFFICES ASSUME NEW x \in Workers, NEW u \in Registered \ harmed
               PROVE  Reading(req[x], u)'
    BY <1>1 DEF ReadingsHold
  <2>0. /\ user'[u].email = user[u].email
        /\ u = req[w].user => user'[u].confirmed
        /\ user[u].confirmed => user'[u].confirmed
        /\ Reading(req[x], u)
    BY <1>4 DEF IInv, ReadingsHold
  <2>1. CASE x = w
    BY <1>1, <1>3, <2>0, <2>1 DEF Reading, Confirms, At
  <2>2. CASE x # w
    BY <1>2, <2>0, <2>2 DEF Reading, Confirms
  <2> QED
    BY <2>1, <2>2
<1>8. VerifiableUnlessHarmed'
  <2> SUFFICES ASSUME NEW u \in Registered \ harmed, ~user'[u].confirmed
               PROVE  HasCode(u)'
    BY <1>1 DEF VerifiableUnlessHarmed
  <2>1. HasCode(u)
    BY <1>4 DEF IInv, VerifiableUnlessHarmed
  <2> QED
    BY <1>1, <1>2, <1>4, <2>1 DEF HasCode, At
<1> QED
  BY <1>5, <1>6, <1>7, <1>8 DEF IInv

\* Whoever could have used the code is confirmed.
LEMMA DropCodeStep ==
    ASSUME Typed, IInv, NEW w \in Workers, DropCode(w)
    PROVE  IInv'
<1>1. /\ At(w, "dropCode") /\ codes' = codes \ {req[w].code}
      /\ Registered' = Registered /\ UNCHANGED <<user, harmed>>
  BY DEF DropCode, Registered
<1>2. \A x \in Workers : req'[x] = IF x = w THEN Idle ELSE req[x]
  BY DEF DropCode, Reply, Typed, RequestsTyped, Become
<1>3. UniqueEmails'
  BY <1>1 DEF IInv, UniqueEmails
<1>4. Referring'
  BY <1>1, <1>2, IdleRefers DEF IInv, Referring, Refers
<1>5. ReadingsHold'
  BY <1>1, <1>2, IdleRefers DEF IInv, ReadingsHold, Reading, Confirms
<1>6. VerifiableUnlessHarmed'
  <2> SUFFICES ASSUME NEW u \in Registered \ harmed, ~user[u].confirmed
               PROVE  HasCode(u)'
    BY <1>1 DEF VerifiableUnlessHarmed
  <2>1. HasCode(u)
    BY DEF IInv, VerifiableUnlessHarmed
  <2>2. ~Confirms(req[w], u)
    BY <1>1 DEF IInv, ReadingsHold, Reading, At
  <2>3. CASE \E c \in codes : c.user = u /\ c.email = user[u].email
    BY <1>1, <2>2, <2>3 DEF Confirms, HasCode
  <2>4. CASE \E x \in Workers : At(x, "createCode") /\ req[x].user = u
    BY <1>1, <1>2, <2>4 DEF HasCode, At
  <2> QED
    BY <2>1, <2>3, <2>4 DEF HasCode
<1> QED
  BY <1>3, <1>4, <1>5, <1>6 DEF IInv

\* A save of a whole row: a user whose address it changes, or whose
\* confirmation it undoes, is harmed.
LEMMA SaveUserStep ==
    ASSUME Typed, IInv, NEW w \in Workers, SaveUser(w), ~UNCHANGED <<user, harmed>>
    PROVE  IInv'
<1> DEFINE u == req[w].user
           r == req[w].row
<1>1. /\ At(w, "saveUser")
      /\ \A v \in Registered \ {u} : user[v].email # r.email
      /\ WriteUser(u, r)
      /\ harmed' = IF Overwrites(u, r) THEN harmed \cup {u} ELSE harmed
      /\ Reply(w) /\ UNCHANGED codes
  BY DEF SaveUser
<1>2. u \in Registered /\ u \in Users /\ r \in Rows
  BY <1>1 DEF IInv, Referring, Refers, At, Typed, RequestsTyped, WellFormed
<1>3. /\ Registered' = Registered
      /\ \A v \in Registered : user'[v] = IF v = u THEN r ELSE user[v]
  BY <1>1, <1>2, WriteTyped DEF Typed
<1>4. \A x \in Workers : req'[x] = IF x = w THEN Idle ELSE req[x]
  BY <1>1 DEF Reply, Typed, RequestsTyped, Become
<1>5. \A v \in Registered \ harmed' :
         /\ v \in Registered \ harmed
         /\ user'[v].email = user[v].email
         /\ user[v].confirmed => user'[v].confirmed
  BY <1>1, <1>2, <1>3 DEF Overwrites
<1>6. UniqueEmails'
  <2> SUFFICES ASSUME NEW v \in Registered, NEW x \in Registered,
                      user'[v].email = user'[x].email
               PROVE  v = x
    BY <1>3 DEF UniqueEmails
  <2> QED
    BY <1>1, <1>3 DEF IInv, UniqueEmails
<1>7. Referring'
  BY <1>1, <1>3, <1>4, IdleRefers DEF IInv, Referring, Refers
<1>8. ReadingsHold'
  <2> SUFFICES ASSUME NEW x \in Workers, NEW v \in Registered \ harmed'
               PROVE  Reading(req[x], v)'
    BY <1>3 DEF ReadingsHold
  <2>1. CASE x = w
    BY <1>4, <2>1 DEF Reading, Idle
  <2>2. CASE x # w
    BY <1>4, <1>5, <2>2 DEF IInv, ReadingsHold, Reading, Confirms
  <2> QED
    BY <2>1, <2>2
<1>9. VerifiableUnlessHarmed'
  <2> SUFFICES ASSUME NEW v \in Registered \ harmed', ~user'[v].confirmed
               PROVE  HasCode(v)'
    BY <1>3 DEF VerifiableUnlessHarmed
  <2>1. HasCode(v)
    BY <1>5 DEF IInv, VerifiableUnlessHarmed
  <2> QED
    BY <1>1, <1>4, <1>5, <2>1 DEF HasCode, At
<1> QED
  BY <1>6, <1>7, <1>8, <1>9 DEF IInv

\* A request that is killed before it has made the code harms its user.
LEMMA KillStep ==
    ASSUME Typed, IInv, NEW w \in Workers, Kill(w)
    PROVE  IInv'
<1>1. /\ harmed' = IF At(w, "createCode") THEN harmed \cup {req[w].user} ELSE harmed
      /\ Registered' = Registered /\ UNCHANGED <<user, codes>>
  BY DEF Kill, Registered
<1>2. \A x \in Workers : req'[x] = IF x = w THEN Idle ELSE req[x]
  BY DEF Kill, Reply, Typed, RequestsTyped, Become
<1>3. UniqueEmails'
  BY <1>1 DEF IInv, UniqueEmails
<1>4. Referring'
  BY <1>1, <1>2, IdleRefers DEF IInv, Referring, Refers
<1>5. ReadingsHold'
  BY <1>1, <1>2, IdleRefers DEF IInv, ReadingsHold, Reading, Confirms
<1>6. VerifiableUnlessHarmed'
  <2> SUFFICES ASSUME NEW u \in Registered \ harmed', ~user[u].confirmed
               PROVE  HasCode(u)'
    BY <1>1 DEF VerifiableUnlessHarmed
  <2>1. HasCode(u)
    BY <1>1 DEF IInv, VerifiableUnlessHarmed
  <2> QED
    BY <1>1, <1>2, <2>1 DEF HasCode, At
<1> QED
  BY <1>3, <1>4, <1>5, <1>6 DEF IInv

\* Every step of a request keeps the invariant.
LEMMA HandleStep ==
    ASSUME Typed, IInv, NEW w \in Workers, Handle(w)
    PROVE  IInv'
<1> USE DEF At, Free
<1>1. CASE SignUp(w)
  <2>1. PICK e \in Emails, c \in {FALSE} \cup Settable :
           Become(w, [Idle EXCEPT !.pc = "insertUser", !.row = [email |-> e, confirmed |-> c]])
    BY <1>1 DEF SignUp
  <2>2. /\ Refers([Idle EXCEPT !.pc = "insertUser", !.row = [email |-> e, confirmed |-> c]])
        /\ \A u : Reading([Idle EXCEPT !.pc = "insertUser",
                                       !.row = [email |-> e, confirmed |-> c]], u)
    BY DEF Refers, Reading, Idle
  <2> QED
    BY <1>1, <2>1, <2>2, QuietStep DEF SignUp, userVars
<1>2. CASE InsertUser(w)
  <2>1. CASE UNCHANGED user
    <3>1. Reply(w)
      <4>1. ASSUME NEW u \in Users \ Registered, WriteUser(u, req[w].row) PROVE FALSE
        <5>1. u \in DOMAIN user'
          BY <4>1 DEF WriteUser
        <5> QED
          BY <2>1, <5>1 DEF Registered
      <4> QED
        BY <1>2, <4>1 DEF InsertUser
    <3> QED
      BY <1>2, <2>1, <3>1, IdleRefers, QuietStep DEF InsertUser, Reply
  <2> QED
    BY <1>2, <2>1, InsertStep
<1>3. CASE CreateCode(w)
  BY <1>3, CreateCodeStep
<1>4. CASE MailCode(w) \/ SendMail(w)
  BY <1>4, IdleRefers, QuietStep DEF MailCode, SendMail, Reply, userVars
<1>5. CASE GetCode(w)
  <2>1. PICK c \in codes : Become(w, [Idle EXCEPT !.pc = "getUser", !.code = c])
    BY <1>5 DEF GetCode
  <2>2. c.user \in Registered
    BY DEF IInv, Referring
  <2>3. /\ Refers([Idle EXCEPT !.pc = "getUser", !.code = c])
        /\ \A u : Reading([Idle EXCEPT !.pc = "getUser", !.code = c], u)
    BY <2>2 DEF Refers, Reading, Idle
  <2> QED
    BY <1>5, <2>1, <2>3, QuietStep DEF GetCode, userVars
<1>6. CASE GetUser(w)
  <2>0. req[w] \in Requests /\ req[w].code.user \in Registered
    BY <1>6 DEF GetUser, Typed, RequestsTyped, IInv, Referring, Refers
  <2>1. CASE Reply(w)
    BY <1>6, <2>1, IdleRefers, QuietStep DEF GetUser, Reply, userVars
  <2>2. CASE \E u \in Registered :
                /\ user[u].email = req[w].code.email
                /\ Become(w, [req[w] EXCEPT !.pc = IF user[u].confirmed
                                                   THEN "dropCode" ELSE "confirm",
                                            !.user = u])
    <3>1. PICK u \in Registered :
             /\ user[u].email = req[w].code.email
             /\ Become(w, [req[w] EXCEPT !.pc = IF user[u].confirmed
                                                THEN "dropCode" ELSE "confirm",
                                         !.user = u])
      BY <2>2
    <3> DEFINE r == [req[w] EXCEPT !.pc = IF user[u].confirmed THEN "dropCode" ELSE "confirm",
                                   !.user = u]
    <3>2. /\ r.pc = IF user[u].confirmed THEN "dropCode" ELSE "confirm"
          /\ r.user = u /\ r.code = req[w].code
      BY <2>0 DEF Requests
    <3>3. Refers(r)
      BY <2>0, <3>2 DEF Refers
    <3>4. \A v \in Registered \ harmed : Reading(r, v)
      BY <3>1, <3>2 DEF Reading, Confirms, IInv, UniqueEmails
    <3> HIDE DEF r
    <3> QED
      BY <1>6, <3>1, <3>3, <3>4, QuietStep DEF GetUser, userVars, r
  <2> QED
    BY <1>6, <2>1, <2>2 DEF GetUser
<1>7. CASE Confirm(w)
  BY <1>7, ConfirmStep
<1>8. CASE DropCode(w)
  BY <1>8, DropCodeStep
<1>9. CASE Resend(w) \/ RequestReset(w)
  <2>1. PICK u \in Registered, pc \in {"mailAgain", "mailReset"} :
           Become(w, [Idle EXCEPT !.pc = pc, !.user = u])
    BY <1>9 DEF Resend, RequestReset
  <2>2. /\ Refers([Idle EXCEPT !.pc = pc, !.user = u])
        /\ \A v : Reading([Idle EXCEPT !.pc = pc, !.user = u], v)
    BY DEF Refers, Reading, Idle
  <2> QED
    BY <1>9, <2>1, <2>2, QuietStep DEF Resend, RequestReset
<1>10. CASE LoadUser(w)
  <2>1. PICK u \in Registered :
         \E row :
            Become(w, [Idle EXCEPT !.pc = "saveUser", !.user = u, !.row = row])
    BY <1>10 DEF LoadUser
  <2>2. PICK row : Become(w, [Idle EXCEPT !.pc = "saveUser", !.user = u, !.row = row])
    BY <2>1
  <2>3. /\ Refers([Idle EXCEPT !.pc = "saveUser", !.user = u, !.row = row])
        /\ \A v : Reading([Idle EXCEPT !.pc = "saveUser", !.user = u, !.row = row], v)
    BY DEF Refers, Reading, Idle
  <2> QED
    BY <1>10, <2>2, <2>3, QuietStep DEF LoadUser, userVars
<1>11. CASE SaveUser(w)
  <2>1. CASE UNCHANGED <<user, harmed>>
    BY <1>11, <2>1, IdleRefers, QuietStep DEF SaveUser, Reply
  <2> QED
    BY <1>11, <2>1, SaveUserStep
<1>12. CASE Kill(w)
  BY <1>12, KillStep
<1> QED
  BY <1>1, <1>2, <1>3, <1>4, <1>5, <1>6, <1>7, <1>8, <1>9, <1>10, <1>11, <1>12 DEF Handle

(* A user whose address is not confirmed keeps a code row for it, for any   *)
(* number of workers, users and codes, however their requests interleave.   *)
(* Three kinds of users are excepted (`harmed'): those whose sign-up a kill *)
(* cut short before the code, those to whom an edit gave another address,   *)
(* and those whose confirmation the save of an older copy took back, which  *)
(* needs neither a kill nor a shared address.                               *)
THEOREM UsersAreVerifiable == Spec => []VerifiableUnlessHarmed
<1>1. Typed /\ IInv /\ [Next]_vars => Typed' /\ IInv'
  <2> SUFFICES ASSUME Typed, IInv, [Next]_vars PROVE IInv'
    BY TypeStep
  <2>1. ASSUME UNCHANGED <<userVars, req>> PROVE IInv'
    BY <2>1 DEF IInv, UniqueEmails, Referring, Refers, ReadingsHold, Reading, Confirms,
                VerifiableUnlessHarmed, HasCode, At, Registered, userVars
  <2> QED
    BY <2>1, HandleStep DEF Next, vars
<1>2. Init => IInv
  BY IdleRefers DEF Init, IInv, UniqueEmails, Referring, ReadingsHold, VerifiableUnlessHarmed,
                    Registered
<1>3. IInv => VerifiableUnlessHarmed
  BY DEF IInv
<1> QED
  BY <1>1, <1>2, <1>3, InitTyped, PTL DEF Spec

-----------------------------------------------------------------------------
(* The mails.                                                              *)

\* A courier's record has mail m, which the provider has not answered for.
Carries(r, m) == r.pc \in {"reserved", "sending"} /\ r.mail = m

\* There are finitely many couriers.
LEMMA HoldersFinite ==
    ASSUME NEW m
    PROVE  IsFiniteSet(Holders(m)) /\ Cardinality(Holders(m)) \in Nat
<1>1. Holders(m) \subseteq Couriers
  BY DEF Holders
<1> QED
  BY <1>1, MailAssumption, FS_Subset, FS_CardinalityType

\* A courier that gets hold of a mail, one that ends, and one that does neither.
LEMMA HoldersStep ==
    ASSUME MailTyped, NEW c \in Couriers, NEW r, CourierTyped(r), Turn(c, r), NEW m \in Mails
    PROVE  Cardinality(Holders(m)')
              = Cardinality(Holders(m))
                - (IF Carries(courier[c], m) THEN 1 ELSE 0)
                + (IF Carries(r, m) THEN 1 ELSE 0)
<1> DEFINE before == Carries(courier[c], m)
           after == Carries(r, m)
<1>1. \A d \in Couriers : courier'[d] = IF d = c THEN r ELSE courier[d]
  BY TurnTyped
<1>2. before <=> c \in Holders(m)
  BY DEF Holders, Holds, Reserved, Sending, Carries
<1>3. Holders(m)' = IF after THEN Holders(m) \cup {c} ELSE Holders(m) \ {c}
  BY <1>1 DEF Holders, Holds, Reserved, Sending, Carries
<1>4. IsFiniteSet(Holders(m)) /\ Cardinality(Holders(m)) \in Nat
  BY HoldersFinite
<1>5. Cardinality(Holders(m) \cup {c})
         = IF before THEN Cardinality(Holders(m)) ELSE Cardinality(Holders(m)) + 1
  BY <1>2, <1>4, FS_AddElement
<1>6. Cardinality(Holders(m) \ {c})
         = IF before THEN Cardinality(Holders(m)) - 1 ELSE Cardinality(Holders(m))
  BY <1>2, <1>4, FS_RemoveElement
<1> HIDE DEF before, after
<1>7. Cardinality(Holders(m)')
         = Cardinality(Holders(m)) - (IF before THEN 1 ELSE 0) + (IF after THEN 1 ELSE 0)
  BY <1>3, <1>4, <1>5, <1>6
<1> QED
  BY <1>7 DEF before, after

\* Every step of a courier keeps the bound.
LEMMA CourierStepBounded ==
    ASSUME MailTyped, SendsAreOwed, NEW c \in Couriers,
           Deliver(c) \/ HandOutAgain(c) \/ KillCourier(c)
    PROVE  SendsAreOwed'
<1> SUFFICES ASSUME NEW m \in Mails
             PROVE  0 <= owed'[m] + (MaxKills - kills')
                            - (mailQueue'[m] + Cardinality(Holders(m)'))
  BY DEF SendsAreOwed, InTransit
<1> DEFINE n == Cardinality(Holders(m))
           before == IF Carries(courier[c], m) THEN 1 ELSE 0
<1>1. 0 <= owed[m] + (MaxKills - kills) - (mailQueue[m] + n)
  BY DEF SendsAreOwed, InTransit
<1>2. /\ n \in Nat /\ owed[m] \in Int /\ mailQueue[m] \in Nat /\ kills \in Int
      /\ MaxKills \in Int /\ before \in {0, 1}
  BY HoldersFinite, MailAssumption DEF MailTyped, MailTypeOK
<1>3. CASE TakeMail(c)
  <2>1. PICK k \in Mails :
           /\ mailQueue' = [mailQueue EXCEPT ![k] = @ - 1]
           /\ Turn(c, [pc |-> "reserved", mail |-> k, depth |-> 0, unacked |-> TRUE])
           /\ UNCHANGED <<owed, kills>>
    BY <1>3 DEF TakeMail
  <2>2. ~Carries(courier[c], m)
    BY <1>3 DEF TakeMail, Resting, Carries
  <2>3. Cardinality(Holders(m)') = n + (IF k = m THEN 1 ELSE 0)
    <3> DEFINE r == [pc |-> "reserved", mail |-> k, depth |-> 0, unacked |-> TRUE]
    <3>1. CourierTyped(r) /\ (Carries(r, m) <=> k = m)
      BY CouriersTyped DEF Carries
    <3> HIDE DEF r
    <3>2. Turn(c, r)
      BY <2>1 DEF r
    <3> QED
      BY <1>2, <2>2, <3>1, <3>2, HoldersStep
  <2>4. mailQueue'[m] = mailQueue[m] - (IF k = m THEN 1 ELSE 0)
    BY <1>2, <2>1 DEF MailTyped, MailTypeOK
  <2> HIDE DEF n
  <2> QED
    BY <1>1, <1>2, <2>1, <2>3, <2>4
<1>4. CASE ProviderAnswers(c) \/ GiveUp(c)
  <2>1. DealtWith(c) /\ UNCHANGED <<mailQueue, kills>>
    BY <1>4 DEF ProviderAnswers, GiveUp
  <2>2. PICK r : r = Done(courier[c])
    OBVIOUS
  <2>3. CourierTyped(r) /\ Turn(c, r) /\ ~Carries(r, m)
    BY <1>4, <2>2, CourierSteps, Records DEF Carries
  <2>4. Cardinality(Holders(m)') = n - before
    BY <1>2, <2>3, HoldersStep
  <2>5. owed'[m] = owed[m] - before
    <3>1. Carries(courier[c], m) <=> courier[c].mail = m
      BY <1>4, CourierSteps DEF Carries
    <3> QED
      BY <1>2, <2>1, <3>1 DEF DealtWith, MailTyped, MailTypeOK
  <2> HIDE DEF n, before
  <2> QED
    BY <1>1, <1>2, <2>1, <2>4, <2>5
<1>5. CASE StartSending(c) \/ ProviderIsBusy(c)
  <2>1. PICK r : r = IF StartSending(c) THEN Started(courier[c]) ELSE Waiting(courier[c])
    OBVIOUS
  <2>2. CourierTyped(r) /\ Turn(c, r) /\ (Carries(r, m) <=> Carries(courier[c], m))
    BY <1>5, <2>1, CourierSteps, Records DEF Carries
  <2>3. Cardinality(Holders(m)') = n
    BY <1>2, <2>2, HoldersStep
  <2>4. UNCHANGED <<mailQueue, owed, kills>>
    BY <1>5 DEF StartSending, ProviderIsBusy
  <2> HIDE DEF n
  <2> QED
    BY <1>1, <2>3, <2>4
<1>6. CASE Acknowledge(c)
  <2>1. UNCHANGED <<mailQueue, owed, kills>> /\ Turn(c, Resting)
    BY <1>6 DEF Acknowledge
  <2>2. ~Carries(courier[c], m) /\ ~Carries(Resting, m)
    BY <1>6 DEF Acknowledge, Carries, Resting
  <2>3. Cardinality(Holders(m)') = n
    BY <1>2, <2>1, <2>2, CouriersTyped, HoldersStep
  <2> HIDE DEF n
  <2> QED
    BY <1>1, <2>1, <2>3
<1>7. CASE HandOutAgain(c)
  <2>1. PICK r : r = Restored(courier[c])
    OBVIOUS
  <2>2. CourierTyped(r) /\ Turn(c, r) /\ (Carries(r, m) <=> Carries(courier[c], m))
    BY <1>7, <2>1, CourierSteps, Records DEF Carries
  <2>3. Cardinality(Holders(m)') = n
    BY <1>2, <2>2, HoldersStep
  <2>4. /\ mailQueue'[m] = mailQueue[m] + (IF courier[c].mail = m THEN 1 ELSE 0)
        /\ owed'[m] = owed[m] + (IF courier[c].mail = m THEN 1 ELSE 0)
        /\ kills' = kills
    BY <1>2, <1>7 DEF HandOutAgain, MailTyped, MailTypeOK
  <2> HIDE DEF n
  <2> QED
    BY <1>1, <1>2, <2>3, <2>4
<1>8. CASE KillCourier(c)
  <2>1. Turn(c, Resting) /\ kills' = kills - 1 /\ courier[c].mail \in Mails
    BY <1>8, InHand DEF KillCourier
  <2>2. Cardinality(Holders(m)') = n - before
    <3>1. ~Carries(Resting, m)
      BY DEF Carries, Resting
    <3> QED
      BY <1>2, <2>1, <3>1, CouriersTyped, HoldersStep
  <2>3. CASE mailQueue' = [mailQueue EXCEPT ![courier[c].mail] = @ + 1] /\ UNCHANGED owed
    <3>1. mailQueue'[m] = mailQueue[m] + (IF courier[c].mail = m THEN 1 ELSE 0)
      BY <1>2, <2>1, <2>3 DEF MailTyped, MailTypeOK
    <3>2. courier[c].mail # m => before = 0
      BY DEF Carries
    <3> HIDE DEF n, before
    <3> QED
      BY <1>1, <1>2, <2>1, <2>2, <2>3, <3>1, <3>2
  <2>4. CASE /\ IF Holds(c) THEN DealtWith(c) ELSE UNCHANGED owed
             /\ UNCHANGED mailQueue
    <3>1. Carries(courier[c], m) <=> Holds(c) /\ courier[c].mail = m
      BY DEF Carries, Holds, Reserved, Sending
    <3>2. owed'[m] = owed[m] - before
      BY <1>2, <2>4, <3>1 DEF DealtWith, MailTyped, MailTypeOK
    <3> HIDE DEF n, before
    <3> QED
      BY <1>1, <1>2, <2>1, <2>2, <2>4, <3>2
  <2> QED
    BY <1>8, <2>3, <2>4 DEF KillCourier
<1> QED
  BY <1>3, <1>4, <1>5, <1>6, <1>7, <1>8 DEF Deliver

\* A mail that is asked for is owed.
LEMMA DelayBounded ==
    ASSUME MailTyped, SendsAreOwed, NEW k \in Mails, Delay(k)
    PROVE  SendsAreOwed'
<1> SUFFICES ASSUME NEW m \in Mails
             PROVE  0 <= owed'[m] + (MaxKills - kills')
                            - (mailQueue'[m] + Cardinality(Holders(m)'))
  BY DEF SendsAreOwed, InTransit
<1> DEFINE n == Cardinality(Holders(m))
<1>1. 0 <= owed[m] + (MaxKills - kills) - (mailQueue[m] + n)
  BY DEF SendsAreOwed, InTransit
<1>2. n \in Nat /\ owed[m] \in Int /\ mailQueue[m] \in Nat /\ kills \in Int /\ MaxKills \in Int
  BY HoldersFinite, MailAssumption DEF MailTyped, MailTypeOK
<1>3. Holders(m)' = Holders(m) /\ kills' = kills
  BY DEF Delay, Holders, Holds, Reserved, Sending
<1>4. /\ owed'[m] = owed[m] + (IF k = m THEN 1 ELSE 0)
      /\ mailQueue'[m] = mailQueue[m] + (IF k = m THEN 1 ELSE 0)
  BY <1>2 DEF Delay, MailTyped, MailTypeOK
<1> HIDE DEF n
<1>5. Cardinality(Holders(m)') = n
  BY <1>3 DEF n
<1> QED
  BY <1>1, <1>2, <1>3, <1>4, <1>5

\* Requests ask for mails, or leave them alone.
LEMMA HandleMails ==
    ASSUME Typed, NEW w \in Workers, Handle(w)
    PROVE  UNCHANGED mailVars \/ \E m \in Mails : Delay(m)
<1>1. CASE MailCode(w) \/ SendMail(w)
  <2>1. req[w].user \in Users
    BY <1>1 DEF MailCode, SendMail, At, Typed, RequestsTyped, WellFormed
  <2> QED
    BY <1>1, <2>1, UsersAreMailed DEF MailCode, SendMail
<1> QED
  BY <1>1 DEF Handle, SignUp, InsertUser, CreateCode, GetCode, GetUser, Confirm, DropCode,
              Resend, RequestReset, LoadUser, SaveUser, Kill

(* No mail reaches its reader more often than it was asked for, was overdue *)
(* in the eyes of the broker, and couriers were killed: however many        *)
(* couriers there are, and however long the provider is busy.               *)
THEOREM SendsStayOwed == Spec => []SendsAreOwed
<1>1. Typed /\ SendsAreOwed /\ [Next]_vars => Typed' /\ SendsAreOwed'
  <2> SUFFICES ASSUME Typed, SendsAreOwed, [Next]_vars PROVE SendsAreOwed'
    BY TypeStep
  <2>1. ASSUME UNCHANGED mailVars PROVE SendsAreOwed'
    BY <2>1 DEF SendsAreOwed, InTransit, Holders, Holds, Reserved, Sending, mailVars
  <2>2. ASSUME NEW w \in Workers, Handle(w) PROVE SendsAreOwed'
    BY <2>1, <2>2, HandleMails, DelayBounded DEF Typed
  <2> QED
    BY <2>1, <2>2, CourierStepBounded DEF Next, vars, Typed
<1>2. Init => SendsAreOwed
  <2> SUFFICES ASSUME Init, NEW m \in Mails
               PROVE  0 <= owed[m] + (MaxKills - kills) - InTransit(m)
    BY DEF SendsAreOwed
  <2>1. Holders(m) = {}
    BY DEF Init, MailInit, Holders, Holds, Reserved, Sending, Resting
  <2>2. InTransit(m) = 0
    <3>1. Cardinality(Holders(m)) = 0
      BY <2>1, FS_EmptySet
    <3>2. mailQueue[m] = 0
      BY DEF Init, MailInit
    <3> QED
      BY <3>1, <3>2 DEF InTransit
  <2>3. owed[m] = 0 /\ kills = MaxKills /\ MaxKills \in Nat
    BY MailAssumption DEF Init, MailInit
  <2> QED
    BY <2>2, <2>3
<1> QED
  BY <1>1, <1>2, InitTyped, PTL DEF Spec
=============================================================================
