------------------------------ MODULE MCChild ------------------------------
(***************************************************************************)
(* Child on small instances.                                               *)
(***************************************************************************)
EXTENDS Child
=============================================================================
