------------------------------- MODULE MCCashier -------------------------------
(***************************************************************************)
(* Cashier on small instances.  Orders are interchangeable, and terminals. *)
(***************************************************************************)
EXTENDS Cashier, TLC

Symmetry == Permutations(Orders) \cup Permutations(Terminals)
=============================================================================
