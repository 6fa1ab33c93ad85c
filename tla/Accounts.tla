------------------------------ MODULE Accounts ------------------------------
(***************************************************************************)
(* Users, the codes that confirm their e-mail addresses, and the mails     *)
(* that carry them.                                                        *)
(*                                                                         *)
(* Signing up inserts the user, the code and the message of the mail one   *)
(* after the other.  Following the link sets is_email_confirmed and then   *)
(* deletes the code.  An edit of the user saves the whole row the request  *)
(* was authenticated with, and may undo either.  Requests of the sync      *)
(* workers interleave between database statements, and may be killed.      *)
(***************************************************************************)
EXTENDS MailDelivery

CONSTANTS
    Workers,     \* the worker processes
    Users,       \* the primary keys users can have
    Emails,      \* the e-mail addresses
    Codes,       \* the values verification codes can have
    PutEmails,   \* the values of "email" in the payload of a PUT
    Settable,    \* the values of "is_email_confirmed" in a payload, which may name it
    MaxMails,    \* how many mails the clients ask for by a resend or a reset
    None         \* an absent value

ASSUME AccountsAssumption ==
    /\ PutEmails \subseteq Emails
    /\ Settable \subseteq BOOLEAN
    /\ MaxMails \in Nat
    /\ Mails = {"verify", "reset"} \X Users
    /\ None \notin Users \cup Emails

VARIABLES
    user,     \* the rows of User: a function of their primary keys
    codes,    \* the rows of VerificationCode, each with the user it was made for
    harmed,   \* history: users cut short while signing up, or overwritten by an edit
    wanted,   \* how many more mails clients may ask for
    req       \* what each worker's request holds in memory

userVars == <<user, codes, harmed, wanted>>
vars == <<userVars, mailVars, req>>

Rows == [email : Emails, confirmed : BOOLEAN]
CodeRows == [user : Users, email : Emails, code : Codes]

Registered == DOMAIN user
Taken(e) == \E u \in Registered : user[u].email = e

-----------------------------------------------------------------------------
Idle == [pc |-> "idle", user |-> None, row |-> None, code |-> None]

Requests ==
    [pc : {"idle", "insertUser", "createCode", "mailCode", "getUser", "confirm", "dropCode",
           "mailAgain", "mailReset", "saveUser"},
     user : Users \cup {None},
     row : Rows \cup {None},
     code : CodeRows \cup {None}]

Free(w) == req[w].pc = "idle"
At(w, pc) == req[w].pc = pc
Become(w, r) == req' = [req EXCEPT ![w] = r]
Goto(w, pc) == Become(w, [req[w] EXCEPT !.pc = pc])
Reply(w) == Become(w, Idle)

WriteUser(u, r) == user' = [v \in Registered \cup {u} |-> IF v = u THEN r ELSE user[v]]

-----------------------------------------------------------------------------
(* UsersEndpoint POST.                                                     *)

\* UserSerializer.validate_email.
SignUp(w) ==
    /\ Free(w)
    /\ \E e \in Emails, c \in {FALSE} \cup Settable :
          /\ ~Taken(e)
          /\ Become(w, [Idle EXCEPT !.pc = "insertUser",
                                    !.row = [email |-> e, confirmed |-> c]])
    /\ UNCHANGED <<userVars, mailVars>>

\* Mistake to be caught: the request does not know the user it has made.
InsertUser_Unknown(w) ==
    /\ At(w, "insertUser")
    /\ \/ /\ Taken(req[w].row.email)
          /\ Reply(w) /\ UNCHANGED user
       \/ /\ ~Taken(req[w].row.email)
          /\ \E u \in Users \ Registered : WriteUser(u, req[w].row)
          /\ Goto(w, "createCode")
    /\ UNCHANGED <<codes, harmed, wanted, mailVars>>

\* The column email is unique: the loser of a race fails here.
InsertUser(w) ==
    /\ At(w, "insertUser")
    /\ \/ /\ Taken(req[w].row.email)
          /\ Reply(w) /\ UNCHANGED user
       \/ /\ ~Taken(req[w].row.email)
          /\ \E u \in Users \ Registered :
                /\ WriteUser(u, req[w].row)
                /\ Become(w, [req[w] EXCEPT !.pc = "createCode", !.user = u])
    /\ UNCHANGED <<codes, harmed, wanted, mailVars>>

CreateCode(w) ==
    /\ At(w, "createCode")
    /\ \E c \in Codes :
          codes' = codes \cup {[user |-> req[w].user, email |-> req[w].row.email, code |-> c]}
    /\ Goto(w, "mailCode")
    /\ UNCHANGED <<user, harmed, wanted, mailVars>>

MailCode(w) ==
    /\ At(w, "mailCode")
    /\ Delay(<<"verify", req[w].user>>)
    /\ Reply(w)
    /\ UNCHANGED userVars

(* UserVerify GET and ResentVerificationCodeEndpoint POST.  get() fails     *)
(* unless there is one row; the address must still be somebody's.           *)

GetCode(w) ==
    /\ Free(w)
    /\ \E c \in codes :
          /\ {d \in codes : d.code = c.code} = {c}
          /\ Become(w, [Idle EXCEPT !.pc = "getUser", !.code = c])
    /\ UNCHANGED <<userVars, mailVars>>

\* Mistake to be caught: the code is deleted first.
GetUser_Swapped(w) ==
    /\ At(w, "getUser")
    /\ \/ /\ ~Taken(req[w].code.email)
          /\ Reply(w) /\ UNCHANGED codes
       \/ \E u \in Registered :
             /\ user[u].email = req[w].code.email
             /\ codes' = codes \ {req[w].code}
             /\ Become(w, [req[w] EXCEPT !.pc = "confirm", !.user = u])
    /\ UNCHANGED <<user, harmed, wanted, mailVars>>

GetUser(w) ==
    /\ At(w, "getUser")
    /\ \/ /\ ~Taken(req[w].code.email)
          /\ Reply(w)
       \/ \E u \in Registered :
             /\ user[u].email = req[w].code.email
             /\ Become(w, [req[w] EXCEPT !.pc = IF user[u].confirmed THEN "dropCode" ELSE "confirm",
                                         !.user = u])
    /\ UNCHANGED <<userVars, mailVars>>

\* save(update_fields=["is_email_confirmed"]).
Confirm(w) ==
    /\ At(w, "confirm")
    /\ user' = [user EXCEPT ![req[w].user].confirmed = TRUE]
    /\ Goto(w, "dropCode")
    /\ UNCHANGED <<codes, harmed, wanted, mailVars>>

DropCode(w) ==
    /\ At(w, "dropCode")
    /\ codes' = codes \ {req[w].code}
    /\ Reply(w)
    /\ UNCHANGED <<user, harmed, wanted, mailVars>>

\* The code is looked up by address; then its user, and the mail goes out again.
Resend(w) ==
    /\ Free(w) /\ wanted > 0
    /\ \E u \in Registered :
          /\ Cardinality({d \in codes : d.email = user[u].email}) = 1
          /\ Become(w, [Idle EXCEPT !.pc = "mailAgain", !.user = u])
    /\ wanted' = wanted - 1
    /\ UNCHANGED <<user, codes, harmed, mailVars>>

\* The password-reset application has made a token; the signal mails it.
RequestReset(w) ==
    /\ Free(w) /\ wanted > 0
    /\ \E u \in Registered : Become(w, [Idle EXCEPT !.pc = "mailReset", !.user = u])
    /\ wanted' = wanted - 1
    /\ UNCHANGED <<user, codes, harmed, mailVars>>

SendMail(w) ==
    /\ \/ At(w, "mailAgain") /\ Delay(<<"verify", req[w].user>>)
       \/ At(w, "mailReset") /\ Delay(<<"reset", req[w].user>>)
    /\ Reply(w)
    /\ UNCHANGED userVars

(* UserEndpoint PUT.  The password-reset application, when a new password  *)
(* is confirmed, reads and saves the whole User row as well: it is an edit  *)
(* here that changes neither column.                                        *)

\* The row of request.user, patched; a new address must not be somebody's.
LoadUser(w) ==
    /\ Free(w)
    /\ \E u \in Registered :
       \E e \in {user[u].email} \cup {f \in PutEmails : ~Taken(f)},
          c \in {user[u].confirmed} \cup Settable :
             Become(w, [Idle EXCEPT !.pc = "saveUser", !.user = u,
                                    !.row = [email |-> e, confirmed |-> c]])
    /\ UNCHANGED <<userVars, mailVars>>

\* What a save of this row would undo, or leave without a code.
Overwrites(u, r) == r.email # user[u].email \/ (user[u].confirmed /\ ~r.confirmed)

\* Every column is saved; the address may have been taken in the meantime.
SaveUser(w) ==
    /\ At(w, "saveUser")
    /\ LET u == req[w].user
           r == req[w].row
       IN  \/ /\ \E v \in Registered \ {u} : user[v].email = r.email
              /\ UNCHANGED <<user, harmed>>
           \/ /\ \A v \in Registered \ {u} : user[v].email # r.email
              /\ WriteUser(u, r)
              /\ harmed' = IF Overwrites(u, r) THEN harmed \cup {u} ELSE harmed
    /\ Reply(w)
    /\ UNCHANGED <<codes, wanted, mailVars>>

\* gunicorn's master kills a worker: what its request has written stays.
Kill(w) ==
    /\ ~Free(w)
    /\ harmed' = IF At(w, "createCode") THEN harmed \cup {req[w].user} ELSE harmed
    /\ Reply(w)
    /\ UNCHANGED <<user, codes, wanted, mailVars>>

-----------------------------------------------------------------------------
Init ==
    /\ user = [u \in {} |-> None]
    /\ codes = {} /\ harmed = {}
    /\ wanted = MaxMails
    /\ req = [w \in Workers |-> Idle]
    /\ MailInit

Handle(w) ==
    \/ SignUp(w) \/ InsertUser(w) \/ CreateCode(w) \/ MailCode(w)
    \/ GetCode(w) \/ GetUser(w) \/ Confirm(w) \/ DropCode(w)
    \/ Resend(w) \/ RequestReset(w) \/ SendMail(w)
    \/ LoadUser(w) \/ SaveUser(w)
    \/ Kill(w)

Next ==
    \/ \E w \in Workers : Handle(w)
    \/ \E c \in Couriers :
          /\ Deliver(c) \/ HandOutAgain(c) \/ KillCourier(c)
          /\ UNCHANGED <<userVars, req>>

Spec == Init /\ [][Next]_vars

\* The couriers go on: a call of the provider returns or raises in the end.
Fairness == \A c \in Couriers : WF_vars(Deliver(c) /\ UNCHANGED <<userVars, req>>)

FairSpec == Spec /\ Fairness

-----------------------------------------------------------------------------
TypeOK ==
    /\ Registered \subseteq Users /\ user \in [Registered -> Rows]
    /\ codes \subseteq CodeRows
    /\ harmed \subseteq Users
    /\ wanted \in 0 .. MaxMails
    /\ req \in [Workers -> Requests]
    /\ MailTypeOK

HasCode(u) ==
    \/ \E c \in codes : c.user = u /\ c.email = user[u].email
    \/ \E w \in Workers : At(w, "createCode") /\ req[w].user = u

(* A user whose address is not confirmed has a code for that address, or is *)
(* about to: the links of concurrent mails, resends and colliding codes     *)
(* never use a code up in vain.  (Two users whose codes have the same value *)
(* keep each other's link from working as long as both have them.)  The     *)
(* users this does not hold for are those whose sign-up was cut short       *)
(* before the code, whose address was edited, or whose confirmation an edit *)
(* has overwritten; no endpoint makes a new code for them, and the address  *)
(* stays taken.                                                             *)
VerifiableUnlessHarmed ==
    \A u \in Registered \ harmed : user[u].confirmed \/ HasCode(u)
=============================================================================
