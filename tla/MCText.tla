------------------------------- MODULE MCText -------------------------------
(***************************************************************************)
(* The pure functions on small inputs: the names of Namespace, the command *)
(* lines of ShellQuote and the mounts of Sandbox.  One of the three grows. *)
(***************************************************************************)
EXTENDS Namespace, ShellQuote, Sandbox

Root == <<>>
VarHome == <<"var", "home">>
User == <<"var", "home", "u">>
Work == <<"var", "home", "u", "w">>
Service == <<"usr", "u">>

\* A host whose /home is a link, with a workspace in the home, and with a user
\* whose home is below /usr.
HostDirs == {Root, VarHome, User, Work, <<"usr">>, Service, <<"etc">>, <<"dev">>,
             <<"bin">>, <<"tmp">>}
HostLinks == (<<"home">> :> VarHome)
HostHomes == {User, <<"home", "u">>, Service}

TextInit == Init /\ ShellInit /\ CliInit

GrowName == args = <<>> /\ cli = Default /\ Next /\ UNCHANGED <<args, cli>>

GrowArgs == server = <<>> /\ tool = <<>> /\ cli = Default /\ ShellNext /\ UNCHANGED <<vars, cli>>

GrowCli == server = <<>> /\ tool = <<>> /\ args = <<>> /\ CliNext /\ UNCHANGED <<vars, args>>

TextSpec == TextInit /\ [][GrowName \/ GrowArgs \/ GrowCli]_<<vars, args, cli>>
=============================================================================
