-------------------------- MODULE MCOrderLifecycle --------------------------
(***************************************************************************)
(* Small instances of OrderLifecycle.  Killable names no worker or all, so *)
(* that workers, like payments, orders and codes, are interchangeable.     *)
(***************************************************************************)
EXTENDS OrderLifecycle, TLC

Symmetry ==
    Permutations(Workers) \cup Permutations(PaymentIds)
        \cup Permutations(OrderIds) \cup Permutations(Codes)
=============================================================================
