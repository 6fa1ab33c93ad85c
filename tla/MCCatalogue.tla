---------------------------- MODULE MCCatalogue ----------------------------
(***************************************************************************)
(* Small instances of Catalogue.  Killable names no worker or all, so that *)
(* workers, like users, stores and products, are interchangeable.          *)
(***************************************************************************)
EXTENDS Catalogue, TLC

Symmetry ==
    Permutations(Workers) \cup Permutations(Users)
        \cup Permutations(ProductIds) \cup Permutations(Stores)
=============================================================================
