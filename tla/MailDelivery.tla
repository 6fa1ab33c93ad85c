---------------------------- MODULE MailDelivery ----------------------------
(***************************************************************************)
(* The queue send_email and the celery workers that hand its mails to the  *)
(* provider.                                                               *)
(*                                                                         *)
(* A provider that is busy is asked again after a minute, by a call of     *)
(* send() from within send(), until Python's stack is full.  Any other     *)
(* error ends the task: its retry options are never used, as nothing calls *)
(* retry() and autoretry_for is not given.  Tasks acknowledge late, and the *)
(* broker is Redis: a message that nobody has acknowledged after the        *)
(* visibility timeout, an hour, goes back into the queue, while its courier *)
(* waits on.  A worker that is killed loses its message, or the broker      *)
(* hands it out again, be the mail sent or not.                             *)
(***************************************************************************)
EXTENDS Integers, FiniteSets

CONSTANTS
    Couriers,  \* the places of celery workers for a message: processes, and prefetch
    Mails,     \* what can be mailed
    MaxDepth,  \* how many calls of send() Python's stack has room for
    Patience,  \* how many calls of send() the visibility timeout has time for
    MaxKills,  \* how many times a courier may be killed
    NoMail     \* an absent mail

ASSUME MailAssumption ==
    /\ IsFiniteSet(Couriers)
    /\ MaxDepth \in Nat \ {0} /\ Patience \in Nat \ {0} /\ MaxKills \in Nat
    /\ NoMail \notin Mails

VARIABLES
    mailQueue,  \* how many messages of each mail the queue holds
    owed,       \* history: how often a mail was asked for, or found overdue by the
                \* broker, less how often it was dealt with
    courier,    \* what each celery worker is doing
    kills       \* how many more couriers may be killed

mailVars == <<mailQueue, owed, courier, kills>>

\* "unacked": the broker still keeps the message, to hand it out again.
Resting == [pc |-> "resting", mail |-> NoMail, depth |-> 0, unacked |-> FALSE]

Couriering == [pc : {"resting", "reserved", "sending", "acknowledging"},
               mail : Mails \cup {NoMail},
               depth : 0 .. MaxDepth,
               unacked : BOOLEAN]

MailInit ==
    /\ mailQueue = [m \in Mails |-> 0]
    /\ owed = [m \in Mails |-> 0]
    /\ courier = [c \in Couriers |-> Resting]
    /\ kills = MaxKills

\* send_email_async.delay(...), by a request.
Delay(m) ==
    /\ mailQueue' = [mailQueue EXCEPT ![m] = @ + 1]
    /\ owed' = [owed EXCEPT ![m] = @ + 1]
    /\ UNCHANGED <<courier, kills>>

-----------------------------------------------------------------------------
Reserved(c) == courier[c].pc = "reserved"
Sending(c) == courier[c].pc = "sending"
Holds(c) == Reserved(c) \/ Sending(c)

Turn(c, r) == courier' = [courier EXCEPT ![c] = r]

\* The provider took or refused the mail, or send() gave up.
DealtWith(c) == owed' = [owed EXCEPT ![courier[c].mail] = @ - 1]

\* The broker delivers the message, and keeps it until it is acknowledged.
TakeMail(c) ==
    /\ courier[c] = Resting
    /\ \E m \in Mails :
          /\ mailQueue[m] > 0
          /\ mailQueue' = [mailQueue EXCEPT ![m] = @ - 1]
          /\ Turn(c, [pc |-> "reserved", mail |-> m, depth |-> 0, unacked |-> TRUE])
    /\ UNCHANGED <<owed, kills>>

\* A process is free for the task: the first call of send().
StartSending(c) ==
    /\ Reserved(c)
    /\ Turn(c, [courier[c] EXCEPT !.pc = "sending", !.depth = 1])
    /\ UNCHANGED <<mailQueue, owed, kills>>

\* The provider takes the mail; the message is acknowledged after the task.  So
\* it is when an error ends the task: a bad request, or no connection.
ProviderAnswers(c) ==
    /\ Sending(c)
    /\ DealtWith(c)
    /\ Turn(c, [courier[c] EXCEPT !.pc = "acknowledging", !.depth = 0])
    /\ UNCHANGED <<mailQueue, kills>>

\* Mistake to be caught: the mail is asked for again as well.
ProviderIsBusy_Requeued(c) ==
    /\ Sending(c)
    /\ courier[c].depth < MaxDepth
    /\ Turn(c, [courier[c] EXCEPT !.depth = @ + 1])
    /\ mailQueue' = [mailQueue EXCEPT ![courier[c].mail] = @ + 1]
    /\ UNCHANGED <<owed, kills>>

\* Mistake to be caught: a loop in place of the calls that nest, which no full
\* stack ends.
ProviderIsBusy_Loop(c) ==
    /\ Sending(c)
    /\ Turn(c, [courier[c] EXCEPT !.depth = 3 - @])
    /\ UNCHANGED <<mailQueue, owed, kills>>

\* Internal error, service unavailable, too many requests: wait and call send()
\* again, from within.
ProviderIsBusy(c) ==
    /\ Sending(c)
    /\ courier[c].depth < MaxDepth
    /\ Turn(c, [courier[c] EXCEPT !.depth = @ + 1])
    /\ UNCHANGED <<mailQueue, owed, kills>>

\* The stack is full: RecursionError ends the task.
GiveUp(c) ==
    /\ Sending(c)
    /\ courier[c].depth = MaxDepth
    /\ DealtWith(c)
    /\ Turn(c, [courier[c] EXCEPT !.pc = "acknowledging", !.depth = 0])
    /\ UNCHANGED <<mailQueue, kills>>

Acknowledge(c) ==
    /\ courier[c].pc = "acknowledging"
    /\ Turn(c, Resting)
    /\ UNCHANGED <<mailQueue, owed, kills>>

\* Nobody has acknowledged the message for the whole visibility timeout: its
\* task waits for the provider, or for the tasks before it.
Overdue(c) ==
    /\ courier[c].unacked
    /\ \/ Sending(c) /\ courier[c].depth > Patience
       \/ Reserved(c) /\ \E d \in Couriers : Sending(d)

\* The broker restores the message, once for each time it was delivered; the
\* courier does not notice.
HandOutAgain(c) ==
    /\ Overdue(c)
    /\ mailQueue' = [mailQueue EXCEPT ![courier[c].mail] = @ + 1]
    /\ owed' = [owed EXCEPT ![courier[c].mail] = @ + 1]
    /\ Turn(c, [courier[c] EXCEPT !.unacked = FALSE])
    /\ UNCHANGED kills

\* A message in hand is handed out again or lost, be the mail sent or not.
KillCourier(c) ==
    /\ kills > 0 /\ courier[c] # Resting
    /\ kills' = kills - 1
    /\ Turn(c, Resting)
    /\ \/ /\ mailQueue' = [mailQueue EXCEPT ![courier[c].mail] = @ + 1]
          /\ UNCHANGED owed
       \/ /\ IF Holds(c) THEN DealtWith(c) ELSE UNCHANGED owed
          /\ UNCHANGED mailQueue

Deliver(c) ==
    \/ TakeMail(c) \/ StartSending(c)
    \/ ProviderAnswers(c) \/ ProviderIsBusy(c) \/ GiveUp(c) \/ Acknowledge(c)

-----------------------------------------------------------------------------
MailTypeOK ==
    /\ mailQueue \in [Mails -> Nat] /\ owed \in [Mails -> Int]
    /\ courier \in [Couriers -> Couriering]
    /\ kills \in 0 .. MaxKills

Holders(m) == {c \in Couriers : Holds(c) /\ courier[c].mail = m}
InTransit(m) == mailQueue[m] + Cardinality(Holders(m))

(* A mail reaches its reader at most as often as requests asked for it,     *)
(* once more for every time the broker found it overdue, and once more for  *)
(* every courier that was killed with a message in hand: waiting for a busy *)
(* provider alone never sends a mail twice, waiting for more than the       *)
(* visibility timeout does.  With each answer of the provider owed goes     *)
(* down, so that it bounds what may be sent yet.                            *)
SendsAreOwed ==
    \A m \in Mails : 0 <= owed[m] + (MaxKills - kills) - InTransit(m)

(* Every mail ends up accepted, refused or lost, however long the provider  *)
(* is busy: none stays in the queue or in the hands of a courier for good,  *)
(* unless the broker goes on handing out messages that are overdue.  That   *)
(* it does while the provider is busy for longer than the timeout: each     *)
(* copy waits, is overdue, and leaves a copy of its own.                    *)
MailSettles ==
    \/ \A m \in Mails : []<>(InTransit(m) = 0)
    \/ []<><<\E c \in Couriers : HandOutAgain(c)>>_mailVars
=============================================================================
