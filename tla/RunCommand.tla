----------------------------- MODULE RunCommand -----------------------------
(***************************************************************************)
(* What RunCommand promises its callers (src/grpc_exec/grpc_exec.proto and *)
(* the comments of src/grpc_exec/server/server.go), for any number of      *)
(* calls: no goroutines, no pipe, no signals.  A call runs one command;    *)
(* the end of the command ends the call; an exit status is the command's   *)
(* own and comes after all of its output; an error is only for a client    *)
(* that went away or broke the protocol; and nothing of the command is     *)
(* alive once the call has returned.                                       *)
(*                                                                         *)
(* ExecServer implements this for one call; Execd builds on it.            *)
(***************************************************************************)
EXTENDS Naturals

CONSTANTS
    Calls,
    MaxWrites    \* chunks a command writes

ASSUME RunAssumption == MaxWrites \in Nat

VARIABLES
    phase,       \* idle (no start request yet), open or returned
    command,     \* none, alive, or its exit status: ok or failed
    broken,      \* the client has gone away or broken the protocol
    verdict,     \* what the client is told: none, ok, failed or error
    written, delivered   \* output of the command, and what was sent of it

runVars == <<phase, command, broken, verdict, written, delivered>>

ExitStatus == {"ok", "failed"}

RunInit ==
    /\ phase = [c \in Calls |-> "idle"]
    /\ command = [c \in Calls |-> "none"]
    /\ broken = [c \in Calls |-> FALSE]
    /\ verdict = [c \in Calls |-> "none"]
    /\ written = [c \in Calls |-> 0]
    /\ delivered = [c \in Calls |-> 0]

Return(c, v) ==
    /\ phase' = [phase EXCEPT ![c] = "returned"]
    /\ verdict' = [verdict EXCEPT ![c] = v]

\* The start request arrives.
Open(c) ==
    /\ phase[c] = "idle" /\ ~broken[c]
    /\ phase' = [phase EXCEPT ![c] = "open"]
    /\ UNCHANGED <<command, broken, verdict, written, delivered>>

\* The first message is something else, or does not come.
Reject(c) ==
    /\ phase[c] = "idle"
    /\ Return(c, "error")
    /\ broken' = [broken EXCEPT ![c] = TRUE]
    /\ UNCHANGED <<command, written, delivered>>

Launch(c) ==
    /\ phase[c] = "open" /\ command[c] = "none"
    /\ command' = [command EXCEPT ![c] = "alive"]
    /\ UNCHANGED <<phase, broken, verdict, written, delivered>>

\* The command cannot be started, which is reported as an exit.
LaunchFails(c) ==
    /\ phase[c] = "open" /\ command[c] = "none"
    /\ Return(c, "failed")
    /\ UNCHANGED <<command, broken, written, delivered>>

Produce(c) ==
    /\ command[c] = "alive" /\ written[c] < MaxWrites
    /\ written' = [written EXCEPT ![c] = @ + 1]
    /\ UNCHANGED <<phase, command, broken, verdict, delivered>>

Deliver(c) ==
    /\ phase[c] = "open" /\ delivered[c] < written[c]
    /\ delivered' = [delivered EXCEPT ![c] = @ + 1]
    /\ UNCHANGED <<phase, command, broken, verdict, written>>

\* The command and what it left in its process group are gone.
Exit(c) ==
    /\ command[c] = "alive"
    /\ \E s \in ExitStatus : command' = [command EXCEPT ![c] = s]
    /\ UNCHANGED <<phase, broken, verdict, written, delivered>>

\* The client goes away, or sends what it must not, which may kill at once.
Break(c) ==
    /\ phase[c] # "returned" /\ ~broken[c]
    /\ broken' = [broken EXCEPT ![c] = TRUE]
    /\ \/ UNCHANGED command
       \/ command[c] = "alive" /\ \E s \in ExitStatus : command' = [command EXCEPT ![c] = s]
    /\ UNCHANGED <<phase, verdict, written, delivered>>

\* The exit event.
Answer(c) ==
    /\ phase[c] = "open" /\ command[c] \in ExitStatus
    /\ delivered[c] = written[c]
    /\ Return(c, command[c])
    /\ UNCHANGED <<command, broken, written, delivered>>

Fail(c) ==
    /\ phase[c] = "open" /\ broken[c] /\ command[c] # "alive"
    /\ Return(c, "error")
    /\ UNCHANGED <<command, broken, written, delivered>>

RunNext == \E c \in Calls :
    \/ Open(c) \/ Reject(c) \/ Launch(c) \/ LaunchFails(c) \/ Produce(c)
    \/ Deliver(c) \/ Exit(c) \/ Break(c) \/ Answer(c) \/ Fail(c)

RunSpec == RunInit /\ [][RunNext]_runVars
=============================================================================
