------------------------------ MODULE MCProxy ------------------------------
(***************************************************************************)
(* Proxy on small instances.                                               *)
(***************************************************************************)
EXTENDS Proxy, TLC

\* Requests, and the children they create, are interchangeable.
RequestSymmetry == Permutations(Requests)
=============================================================================
