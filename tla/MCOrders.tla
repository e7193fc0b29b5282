------------------------------- MODULE MCOrders -------------------------------
(***************************************************************************)
(* Orders on small instances.  Order identifiers are interchangeable.      *)
(***************************************************************************)
EXTENDS Orders, TLC

OrderSymmetry == Permutations(Orders)
=============================================================================
