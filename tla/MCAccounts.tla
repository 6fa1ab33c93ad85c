----------------------------- MODULE MCAccounts -----------------------------
(***************************************************************************)
(* Small instances of Accounts.  In a behaviour there is either one user,  *)
(* whose requests follow each other and whose mails the couriers deliver,  *)
(* or there are all users and workers, whose mails stay in the queue: what *)
(* couriers do never changes a user or a code.                             *)
(***************************************************************************)
EXTENDS Accounts

CONSTANTS w1, u1, c1

VARIABLE alone

AllMails == {"verify", "reset"} \X Users

MCInit == Init /\ alone \in BOOLEAN

MCNext ==
    /\ UNCHANGED alone
    /\ \/ /\ alone
          /\ Next
          /\ \A w \in Workers \ {w1} : req'[w] = Idle
          /\ Registered' \subseteq {u1} /\ \A c \in codes' : c.code = c1
       \/ /\ ~alone
          /\ \E w \in Workers : Handle(w)
          /\ UNCHANGED wanted

MCSpec == MCInit /\ [][MCNext]_<<vars, alone>> /\ Fairness
=============================================================================
