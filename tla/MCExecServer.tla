---------------------------- MODULE MCExecServer ----------------------------
(***************************************************************************)
(* ExecServer on small instances.                                          *)
(***************************************************************************)
EXTENDS ExecServer
=============================================================================
