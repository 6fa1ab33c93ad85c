---------------------------- MODULE MCCustomers ----------------------------
(***************************************************************************)
(* Small instances of Customers.                                           *)
(***************************************************************************)
EXTENDS Customers, TLC

Symmetry ==
    Permutations(Workers) \cup Permutations(Stores)
        \cup Permutations(CustomerIds) \cup Permutations(Emails)
=============================================================================
