--------------------------- MODULE ChildLifecycle ---------------------------
(***************************************************************************)
(* What a child server of mcpmux promises whoever looks at it from outside *)
(* (the comments of src/mcpmux/internal/mcpmux/child.go, and the section   *)
(* on its states of src/mcpmux/README.md): no goroutines, no session, no   *)
(* locks.  The status only moves forward; a child has at most one process, *)
(* ever; a crash is reported when the process is gone; and when no Start   *)
(* and no Stop is under way only a running child has a process.            *)
(*                                                                         *)
(* Child implements this.                                                  *)
(***************************************************************************)
CONSTANT Children

VARIABLES
    status,      \* as Status() tells it
    life,        \* of the process: none, alive or dead
    working      \* is a Start or a Stop of the child under way?

lifecycleVars == <<status, life, working>>

LifecycleInit ==
    /\ status  = [c \in Children |-> "new"]
    /\ life    = [c \in Children |-> "none"]
    /\ working = [c \in Children |-> FALSE]

SetStatus(c, s)  == status'  = [status EXCEPT ![c] = s]
SetLife(c, l)    == life'    = [life EXCEPT ![c] = l]
SetWorking(c, w) == working' = [working EXCEPT ![c] = w]

Begin(c) ==
    /\ status[c] = "new"
    /\ SetStatus(c, "starting") /\ SetWorking(c, TRUE)
    /\ UNCHANGED life

\* The command starts, maybe when the child has been told to stop already.
Launch(c) ==
    /\ working[c] /\ status[c] \in {"starting", "stopped"} /\ life[c] = "none"
    /\ SetLife(c, "alive")
    /\ UNCHANGED <<status, working>>

Run(c) ==
    /\ working[c] /\ status[c] = "starting" /\ life[c] # "none"
    /\ SetStatus(c, "running")
    /\ UNCHANGED <<life, working>>

\* Start ends with an error that nobody asked for.
Fail(c) ==
    /\ working[c] /\ status[c] = "starting" /\ life[c] # "alive"
    /\ SetStatus(c, "crashed") /\ SetWorking(c, FALSE)
    /\ UNCHANGED life

Crash(c) ==
    /\ status[c] = "running" /\ life[c] = "dead"
    /\ SetStatus(c, "crashed")
    /\ UNCHANGED <<life, working>>

\* A crashed child stays crashed.
Stop(c) ==
    /\ SetStatus(c, IF status[c] = "crashed" THEN "crashed" ELSE "stopped")
    /\ SetWorking(c, TRUE)
    /\ UNCHANGED life

\* The process ends, by itself or by the hand of a Start or a Stop.
Die(c) ==
    /\ life[c] = "alive"
    /\ SetLife(c, "dead")
    /\ UNCHANGED <<status, working>>

\* The last Start or Stop returns, and leaves a process only if it runs.
Settle(c) ==
    /\ working[c] /\ SetWorking(c, FALSE)
    /\ \/ (status[c] = "running" \/ life[c] # "alive") /\ UNCHANGED life
       \/ life[c] = "alive" /\ SetLife(c, "dead")
    /\ UNCHANGED status

LifecycleStep(c) ==
    \/ Begin(c) \/ Launch(c) \/ Run(c) \/ Fail(c) \/ Crash(c)
    \/ Stop(c) \/ Die(c) \/ Settle(c)

LifecycleSpec == LifecycleInit /\ [][\E c \in Children : LifecycleStep(c)]_lifecycleVars
=============================================================================
