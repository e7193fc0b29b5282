-------------------------------- MODULE MCAccess --------------------------------
(***************************************************************************)
(* Access on small instances.                                              *)
(***************************************************************************)
EXTENDS Access
=============================================================================
