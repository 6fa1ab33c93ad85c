------------------------------ MODULE Admission ------------------------------
(***************************************************************************)
(* What a check before an INSERT or an UPDATE promises when the check and  *)
(* the write are separate statements: workers admit keys to groups that    *)
(* have a limit, each after having counted the keys of the group, and      *)
(* write them later.  A worker may also remember a membership it has read  *)
(* and write it back.                                                      *)
(*                                                                         *)
(* The limit of products of a subscription plan (module Catalogue) and the *)
(* e-mail address of a customer (module Customers) are guarded in this way.*)
(***************************************************************************)
EXTENDS Integers, FiniteSets

CONSTANTS
    Workers,   \* the worker processes
    Groups,    \* what is limited: a store, or an address in a store
    Keys,      \* what is admitted: a product, or a customer
    Limit,     \* how many keys the check lets into each group
    None       \* an absent value

VARIABLES
    present,   \* the memberships that are stored, as pairs of a group and a key
    held       \* the membership each worker is about to store, or None

vars == <<present, held>>

Memberships == Groups \X Keys

\* The keys a set of memberships puts into a group.
KeysOf(g, M) == {k \in Keys : <<g, k>> \in M}

Pending == {held[w] : w \in Workers} \cap Memberships

Init ==
    /\ present = {}
    /\ held = [w \in Workers |-> None]

\* Memberships end without a check.
Leave ==
    /\ present' \in SUBSET present
    /\ UNCHANGED held

\* A worker reads a membership it will write back.
Remember(w) ==
    /\ \E m \in present : held' = [held EXCEPT ![w] = m]
    /\ UNCHANGED present

\* The check: a group that is not full, not counting the key itself.
Admit(w) ==
    /\ \E g \in Groups, k \in Keys :
          /\ Cardinality(KeysOf(g, present) \ {k}) < Limit[g]
          /\ held' = [held EXCEPT ![w] = <<g, k>>]
    /\ UNCHANGED present

\* The write, of what was checked or remembered, in place of other memberships
\* or of none; or its failure.
Settle(w) ==
    /\ present' \in SUBSET (present \cup ({held[w]} \cap Memberships))
    /\ held' = [held EXCEPT ![w] = None]

Next ==
    \/ Leave
    \/ \E w \in Workers : Remember(w) \/ Admit(w) \/ Settle(w)

Spec == Init /\ [][Next]_vars

-----------------------------------------------------------------------------
(* A group exceeds its limit by one less than there are workers, at most:  *)
(* each of them may have counted before any of the others has written.     *)
Bounded ==
    \A g \in Groups :
       Cardinality(KeysOf(g, present)) <= Limit[g] + Cardinality(Workers) - 1

\* The inductive form: what is about to be written counts as well.
BoundedWithPending ==
    \A g \in Groups :
       Cardinality(KeysOf(g, present \cup Pending))
          <= Limit[g] + Cardinality(Workers) - 1
=============================================================================
