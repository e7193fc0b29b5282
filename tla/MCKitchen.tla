------------------------------ MODULE MCKitchen ------------------------------
(***************************************************************************)
(* Kitchen on small instances.  Items are interchangeable.                 *)
(***************************************************************************)
EXTENDS Kitchen, TLC

ItemSymmetry == Permutations(Items)
=============================================================================
