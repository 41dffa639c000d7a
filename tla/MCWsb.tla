------------------------------- MODULE MCWsb --------------------------------
(***************************************************************************)
(* Wsb on small instances.                                                 *)
(***************************************************************************)
EXTENDS Wsb
=============================================================================
