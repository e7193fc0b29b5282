------------------------------- MODULE MCCounter -------------------------------
(***************************************************************************)
(* Counter on small instances.  Orders are interchangeable.                *)
(***************************************************************************)
EXTENDS Counter, TLC

OrderSymmetry == Permutations(Orders)
=============================================================================
