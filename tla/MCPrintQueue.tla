----------------------------- MODULE MCPrintQueue -----------------------------
(***************************************************************************)
(* PrintQueue on small instances.  Calls are interchangeable.              *)
(***************************************************************************)
EXTENDS PrintQueue, TLC

CallSymmetry == Permutations(Calls)
=============================================================================
