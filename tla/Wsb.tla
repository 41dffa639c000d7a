-------------------------------- MODULE Wsb --------------------------------
(***************************************************************************)
(* wsb (src/wsb/main.rs): launchers of one workspace, each of which        *)
(* removes what a dead predecessor left, claims the workspace by a PID     *)
(* file, starts a sandbox with a daemon (Execd), waits for its socket, and *)
(* cleans up when the sandbox has ended.  Every system call on the shared  *)
(* directory is a step.  A launcher may be killed; its sandbox lives on.   *)
(***************************************************************************)
EXTENDS Execd

CONSTANTS
    Overlap,     \* may launches and cleanups of two launchers overlap?
    LateKill     \* may a launcher be killed before it has recorded its sandbox?

ASSUME WsbAssumption == {Overlap, LateKill} \subseteq BOOLEAN

\* A launcher and its sandbox have the same name.
Launchers == Daemons

VARIABLES
    pc,          \* where each launcher is; done or killed in the end
    pidFile,     \* <<what it says, whose it is>>: none, empty, launcher, sandbox
    seen,        \* what a launcher has read from it
    reaped       \* the sandboxes whose launcher has waited for them

launchVars == <<pc, pidFile, seen, reaped>>
vars == <<runVars, daemonVars, clientVars, launchVars>>

NoFile == <<"none", No>>
Files == {NoFile} \cup {"empty", "launcher", "sandbox"} \X Launchers

Init ==
    /\ ExecdInit
    /\ pc = [l \in Launchers |-> "idle"]
    /\ pidFile = NoFile
    /\ seen = [l \in Launchers |-> NoFile]
    /\ reaped = {}

\* Between these points a launcher makes or removes what others rely on.
Launching == {"probe", "rmpid", "rmsocket", "create", "claim", "spawn", "record", "rewrite"}
Cleaning  == {"unlinkSocket", "unlinkPid"}

Enter(l) == Overlap \/ \A k \in Launchers \ {l} : pc[k] \notin Launching \cup Cleaning

Goto(l, p) == pc' = [pc EXCEPT ![l] = p]

(***************************************************************************)
(* check_stale                                                             *)
(***************************************************************************)
\* A process that has exited and was not waited for still has its number.
SandboxPid(d) ==
    daemon[d] # "none" /\ (Up(d) \/ (d \notin reaped /\ pc[d] # "killed"))

\* kill(pid, 0)
Alive(file) == \/ file[1] = "launcher" /\ pc[file[2]] \notin {"done", "killed"}
               \/ file[1] = "sandbox" /\ SandboxPid(file[2])

ReadPid(l) ==
    /\ pc[l] = "idle" /\ Enter(l)
    /\ seen' = [seen EXCEPT ![l] = pidFile]
    /\ Goto(l, CASE pidFile[1] = "none"  -> "rmsocket"
                 [] pidFile[1] = "empty" -> "rmpid"
                 [] OTHER                -> "probe")
    /\ UNCHANGED <<runVars, daemonVars, clientVars, pidFile, reaped>>

\* MUTANT: every PID file is taken for a stale one.
StaleAlways(l) == TRUE

Stale(l) == ~Alive(seen[l])

ProbeStale(l) ==
    /\ pc[l] = "probe" /\ Stale(l)
    /\ Goto(l, "rmpid")
    /\ UNCHANGED <<runVars, daemonVars, clientVars, pidFile, seen, reaped>>

\* The process is alive, or another has its number by now.
ProbeAlive(l) ==
    /\ pc[l] = "probe"
    /\ Goto(l, "done")
    /\ UNCHANGED <<runVars, daemonVars, clientVars, pidFile, seen, reaped>>

RemovePid(l) ==
    /\ pc[l] = "rmpid"
    /\ pidFile' = NoFile /\ Goto(l, "rmsocket")
    /\ UNCHANGED <<runVars, daemonVars, clientVars, seen, reaped>>

\* MUTANT: the socket of a predecessor is left.
LeaveSocket == UNCHANGED socket

RemoveStaleSocket == socket' = No

RemoveSocket(l) ==
    /\ pc[l] = "rmsocket"
    /\ RemoveStaleSocket /\ Goto(l, "create")
    /\ UNCHANGED <<runVars, daemon, clientVars, pidFile, seen, reaped>>

(***************************************************************************)
(* The claim and the sandbox                                               *)
(***************************************************************************)
\* create_new; a failure is no reason to clean up.
Create(l) ==
    /\ pc[l] = "create"
    /\ IF pidFile = NoFile
       THEN pidFile' = <<"empty", l>> /\ Goto(l, "claim")
       ELSE UNCHANGED pidFile /\ Goto(l, "done")
    /\ UNCHANGED <<runVars, daemonVars, clientVars, seen, reaped>>

\* A write to the file that was opened, which may have been removed since.
WritePid(l, what) ==
    pidFile' = IF pidFile = <<"empty", l>> THEN <<what, l>> ELSE pidFile

Claim(l) ==
    /\ pc[l] = "claim"
    /\ WritePid(l, "launcher") /\ Goto(l, "spawn")
    /\ UNCHANGED <<runVars, daemonVars, clientVars, seen, reaped>>

Spawn(l) ==
    /\ pc[l] = "spawn"
    /\ daemon' = [daemon EXCEPT ![l] = "booting"] /\ Goto(l, "record")
    /\ UNCHANGED <<runVars, socket, clientVars, pidFile, seen, reaped>>

\* A binary is missing or cannot be started.
SpawnFails(l) ==
    /\ pc[l] = "spawn"
    /\ Goto(l, "unlinkSocket")
    /\ UNCHANGED <<runVars, daemonVars, clientVars, pidFile, seen, reaped>>

\* fs::write opens and truncates the file, creating it if need be ...
Truncate(l) ==
    /\ pc[l] = "record"
    /\ pidFile' = <<"empty", l>> /\ Goto(l, "rewrite")
    /\ UNCHANGED <<runVars, daemonVars, clientVars, seen, reaped>>

\* ... and writes the number of the sandbox.
Record(l) ==
    /\ pc[l] = "rewrite"
    /\ WritePid(l, "sandbox") /\ Goto(l, "poll")
    /\ UNCHANGED <<runVars, daemonVars, clientVars, seen, reaped>>

\* child.kill and child.wait
KillChild(l) ==
    /\ Kill(l) \/ (~Up(l) /\ UNCHANGED <<runVars, daemonVars, clientVars>>)
    /\ reaped' = reaped \cup {l}

RecordFails(l) ==
    /\ pc[l] \in {"record", "rewrite"}
    /\ KillChild(l) /\ Goto(l, "unlinkSocket")
    /\ UNCHANGED <<pidFile, seen>>

(***************************************************************************)
(* wait_for_socket, wait_for_child, cleanup                                *)
(***************************************************************************)
Poll(l) ==
    /\ pc[l] = "poll"
    /\ Goto(l, IF socket # No THEN "ready" ELSE "missed")
    /\ UNCHANGED <<runVars, daemonVars, clientVars, pidFile, seen, reaped>>

\* MUTANT: a sandbox that is too slow is left alone.
AbandonChild(l) ==
    UNCHANGED <<runVars, daemonVars, clientVars>> /\ reaped' = reaped \cup {l}

StopChild(l) == KillChild(l)

\* MUTANT: when its time has run out a poll starts anew.
PollForever(l) ==
    /\ pc[l] = "missed" /\ Enter(l)
    /\ Goto(l, "poll")
    /\ UNCHANGED <<runVars, daemonVars, clientVars, pidFile, seen, reaped>>

PollExpires(l) ==
    /\ pc[l] = "missed" /\ Enter(l)
    /\ StopChild(l) /\ Goto(l, "unlinkSocket")
    /\ UNCHANGED <<pidFile, seen>>

\* try_wait: the child is running, so sleep and look again.
PollAgain(l) ==
    /\ pc[l] = "missed" /\ Up(l)
    /\ Goto(l, "poll")
    /\ UNCHANGED <<runVars, daemonVars, clientVars, pidFile, seen, reaped>>

\* The child has exited: early, or after it was ready.
ChildEnds(l) ==
    /\ pc[l] \in {"missed", "ready"} /\ ~Up(l) /\ Enter(l)
    /\ reaped' = reaped \cup {l} /\ Goto(l, "unlinkSocket")
    /\ UNCHANGED <<runVars, daemonVars, clientVars, pidFile, seen>>

UnlinkSocket(l) ==
    /\ pc[l] = "unlinkSocket"
    /\ socket' = No /\ Goto(l, "unlinkPid")
    /\ UNCHANGED <<runVars, daemon, clientVars, pidFile, seen, reaped>>

RemoveOwnPid == pidFile' = NoFile

UnlinkPid(l) ==
    /\ pc[l] = "unlinkPid"
    /\ RemoveOwnPid /\ Goto(l, "done")
    /\ UNCHANGED <<runVars, daemonVars, clientVars, seen, reaped>>

\* SIGKILL to the launcher.
KillLauncher(l) ==
    /\ pc[l] \notin {"idle", "done", "killed"}
    /\ LateKill \/ pc[l] \notin {"record", "rewrite"}
    /\ Goto(l, "killed")
    /\ UNCHANGED <<runVars, daemonVars, clientVars, pidFile, seen, reaped>>

(***************************************************************************)
(* The specification                                                       *)
(***************************************************************************)
LaunchStep(l) ==
    \/ ProbeStale(l) \/ ProbeAlive(l) \/ RemovePid(l) \/ RemoveSocket(l)
    \/ Create(l) \/ Claim(l) \/ Spawn(l) \/ SpawnFails(l)
    \/ Truncate(l) \/ Record(l) \/ RecordFails(l)
    \/ Poll(l) \/ PollAgain(l) \/ ChildEnds(l)
    \/ UnlinkSocket(l) \/ UnlinkPid(l)

Next ==
    \/ ExecdStep /\ UNCHANGED launchVars
    \/ \E l \in Launchers :
          ReadPid(l) \/ LaunchStep(l) \/ PollExpires(l) \/ KillLauncher(l)

Spec == Init /\ [][Next]_vars

\* Processes run and the time of a poll runs out; whether a launcher is
\* started, a command ends or anything is killed is up to the environment.
Fairness ==
    /\ \A l \in Launchers : WF_vars(LaunchStep(l)) /\ SF_vars(PollExpires(l))
    /\ \A d \in Daemons : WF_vars(DaemonStep(d) /\ UNCHANGED launchVars)
    /\ \A c \in Calls :
          /\ WF_vars(HandlerStep(c) /\ UNCHANGED launchVars)
          /\ WF_vars(CommandKilled(c) /\ UNCHANGED launchVars)
          /\ WF_vars(ClientStep(c) /\ UNCHANGED launchVars)

FairSpec == Spec /\ Fairness

(***************************************************************************)
(* Properties                                                              *)
(***************************************************************************)
\* A launcher between its claim and the end of its sandbox.
Claimed(l) == pc[l] \in {"claim", "spawn", "record", "rewrite", "poll", "missed", "ready"}

\* The variables range over what the code can put there.
TypeOK ==
    /\ ExecdTypeOK
    /\ pc \in [Launchers -> {"idle"} \cup Launching \cup {"poll", "missed", "ready"}
                            \cup Cleaning \cup {"done", "killed"}]
    /\ pidFile \in Files /\ seen \in [Launchers -> Files]
    /\ reaped \subseteq Launchers

\* Where a launcher is tells what has become of its sandbox and its files.
SandboxOK(l) ==
    /\ pc[l] \in {"idle", "probe", "rmpid", "rmsocket", "create", "claim", "spawn"} =>
          daemon[l] = "none" /\ l \notin reaped
    /\ pc[l] \in {"record", "rewrite", "poll", "missed", "ready"} =>
          daemon[l] # "none" /\ l \notin reaped
    /\ pc[l] \in Cleaning \cup {"done"} => ~Up(l)
    /\ l \in reaped => ~Up(l)
    /\ daemon[l] \in {"none", "booting"} => socket # l
    /\ pc[l] \in {"idle", "probe", "rmpid", "rmsocket", "create", "done"} =>
          pidFile[2] # l /\ socket # l
    /\ pc[l] = "unlinkPid" => socket # l

\* Of the launchers that make or remove files there is one at a time, ...
Exclusive == \A k, l \in Launchers :
    pc[k] \in Launching \cup Cleaning /\ pc[l] \in Launching \cup Cleaning => k = l

\* ... which knows what the PID file says, ...
FileOK(l) ==
    /\ pc[l] \in {"probe", "rmpid"} => pidFile = seen[l]
    /\ pc[l] = "rmpid" => ~Alive(pidFile)
    /\ pc[l] \in {"rmsocket", "create"} => pidFile = NoFile
    /\ pc[l] \in {"claim", "rewrite"} => pidFile = <<"empty", l>>
    /\ pc[l] \in {"spawn", "record"} => pidFile = <<"launcher", l>>
    /\ pc[l] \in {"poll", "missed", "ready"} => pidFile = <<"sandbox", l>>
    /\ pc[l] \in Cleaning => pidFile[2] = l

\* ... and whether there is a socket.
SocketOK(l) ==
    /\ pc[l] = "create" => socket = No
    /\ Claimed(l) => socket \in {No, l}
    /\ Listening(l) => socket = l

\* A sandbox that runs is in the PID file, or about to be.
Recorded == \A d \in Daemons :
    Up(d) => pidFile = <<"sandbox", d>> \/ pc[d] \in {"record", "rewrite"}

\* The inductive invariant: what a client concludes from the end of a call,
\* and, when launches do not overlap, what a launcher may conclude from the
\* PID file (grpc_exec main.go:100-122, wsb main.rs:166-191, 299-312, 360-380).
WsbInv ==
    /\ TypeOK
    /\ CallsOK
    /\ \A l \in Launchers : SandboxOK(l)
    /\ ~Overlap /\ ~LateKill =>
          /\ Exclusive /\ Recorded
          /\ \A l \in Launchers : FileOK(l) /\ SocketOK(l)

\* At most one sandbox runs for the workspace, whoever was killed before.
OneSandbox == \A d, e \in Daemons : Up(d) /\ Up(e) => d = e

\* A daemon that takes connections can be reached: no launcher removes the
\* socket of a live daemon (main.rs:188-189, 285).
AcceptingIsReachable == \A d \in Daemons : Listening(d) => socket = d

\* "ready" is printed for the launcher's own socket, never for one that a
\* predecessor left behind (main.rs:188-189, 251-253, 369-373).
ReadyIsOwn == \A l \in Launchers : pc[l] = "ready" /\ socket # No => socket = l

\* A launcher that exits after its claim leaves neither a running sandbox nor
\* its socket or PID file, whichever step failed (main.rs:306-312, 376-379).
CleanExit == \A l \in Launchers : pc[l] = "done" =>
    ~Up(l) /\ pidFile[2] # l /\ socket # l

\* A launch ends: ready, refused, failed, or killed (main.rs:246-267).
LaunchSettles == \A l \in Launchers :
    pc[l] # "idle" ~> pc[l] \in {"ready", "done", "killed"}

\* "If two launchers race, only one will succeed at create_new()": between
\* its claim and its exit a launcher is the only one (main.rs:299-300).
ClaimIsExclusive == \A k, l \in Launchers : Claimed(k) /\ Claimed(l) => k = l
=============================================================================
