---------------------------- MODULE MCOrderStock ----------------------------
(***************************************************************************)
(* Small instances of OrderStock.  Workers and items are interchangeable   *)
(* in all of them; stocks are too, since Reassign names none.              *)
(***************************************************************************)
EXTENDS OrderStock, TLC

Symmetry == Permutations(Workers) \cup Permutations(ItemIds) \cup Permutations(StockIds)
=============================================================================
