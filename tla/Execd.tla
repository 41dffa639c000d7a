------------------------------- MODULE Execd -------------------------------
(***************************************************************************)
(* grpc_execd (src/grpc_exec/cmd/grpc_execd/main.go): daemons that serve   *)
(* RunCommand on one Unix socket path, one after the other, and the        *)
(* grpc_exec clients that call them (src/grpc_exec/cmd/grpc_exec/main.go). *)
(* What happens inside a call is RunCommand, which ExecServer implements.  *)
(*                                                                         *)
(* A daemon is the process that nsjail's init runs in a sandbox.  The      *)
(* sandbox ends with it: when it exits, or when the sandbox gets SIGKILL,  *)
(* its commands end too.                                                   *)
(***************************************************************************)
EXTENDS RunCommand

CONSTANTS
    Daemons,
    No           \* no daemon

ASSUME DaemonAssumption == No \notin Daemons

VARIABLES
    daemon,      \* none (not started), booting, bound, serving, draining,
                 \* drained (has exited) or dead
    socket,      \* the daemon whose socket the path names, or No
    client,      \* start, stream, the exit code (zero, nonzero) or killed
    conn,        \* the daemon a client is connected to, or No
    printed      \* chunks of output a client has written to its stdout

daemonVars == <<daemon, socket>>
clientVars == <<client, conn, printed>>

ExecdInit ==
    /\ RunInit
    /\ daemon = [d \in Daemons |-> "none"]
    /\ socket = No
    /\ client = [c \in Calls |-> "start"]
    /\ conn = [c \in Calls |-> No]
    /\ printed = [c \in Calls |-> 0]

Up(d) == daemon[d] \in {"booting", "bound", "serving", "draining"}

\* A connection is accepted by the kernel from the moment the socket listens.
Listening(d) == daemon[d] \in {"bound", "serving"}

Accepting == socket # No /\ Listening(socket)

CallsOf(d) == {c \in Calls : conn[c] = d}

(***************************************************************************)
(* The daemon                                                              *)
(***************************************************************************)
\* net.Listen, which fails if the path exists.
Listen(d) ==
    /\ daemon[d] = "booting"
    /\ IF socket = No
       THEN daemon' = [daemon EXCEPT ![d] = "bound"] /\ socket' = d
       ELSE daemon' = [daemon EXCEPT ![d] = "dead"] /\ UNCHANGED socket
    /\ UNCHANGED <<runVars, clientVars>>

\* The signal goroutine is running and Serve accepts connections.
Serve(d) ==
    /\ daemon[d] = "bound"
    /\ daemon' = [daemon EXCEPT ![d] = "serving"]
    /\ UNCHANGED <<runVars, socket, clientVars>>

\* SIGTERM before signal.Notify ends the process; between Notify and Serve
\* it makes Serve fail, which closes the listener.
TerminateEarly(d) ==
    /\ daemon[d] \in {"booting", "bound"}
    /\ daemon' = [daemon EXCEPT ![d] = "dead"]
    /\ UNCHANGED socket \/ (daemon[d] = "bound" /\ socket' = No)
    /\ UNCHANGED <<runVars, clientVars>>

\* GracefulStop closes the listener, which removes the path, whatever it names.
Terminate(d) ==
    /\ daemon[d] = "serving"
    /\ daemon' = [daemon EXCEPT ![d] = "draining"] /\ socket' = No
    /\ UNCHANGED <<runVars, clientVars>>

\* MUTANT: the server stops at once.
AlwaysDrained(d) == TRUE

\* No RPC is active.  One that is only about to start may be turned away.
Drained(d) == \A c \in CallsOf(d) : phase[c] # "open"

DrainEnds(d) ==
    /\ daemon[d] = "draining" /\ Drained(d)
    /\ daemon' = [daemon EXCEPT ![d] = "drained"]
    /\ UNCHANGED <<runVars, socket, clientVars>>

\* SIGKILL to the sandbox: nothing is cleaned up, the commands die.
Kill(d) ==
    /\ Up(d)
    /\ daemon' = [daemon EXCEPT ![d] = "dead"]
    /\ command' = [c \in Calls |->
           IF c \in CallsOf(d) /\ command[c] = "alive" THEN "failed" ELSE command[c]]
    /\ UNCHANGED <<phase, broken, verdict, written, delivered, socket, clientVars>>

(***************************************************************************)
(* A call, as its daemon runs it                                           *)
(***************************************************************************)
Served(c) == conn[c] # No /\ daemon[conn[c]] \in {"serving", "draining"}

\* The handler.  A grpc_exec client sends a start request or goes away.
HandlerStep(c) ==
    /\ Served(c)
    /\ \/ client[c] = "stream" /\ Open(c)
       \/ client[c] = "killed" /\ Reject(c)
       \/ Launch(c) \/ LaunchFails(c) \/ Deliver(c) \/ Answer(c) \/ Fail(c)
    /\ UNCHANGED <<daemonVars, clientVars>>

CommandStep(c) ==
    /\ Served(c)
    /\ Produce(c) \/ Exit(c)
    /\ UNCHANGED <<daemonVars, clientVars>>

\* The call's context is done: its command is killed.
CommandKilled(c) == broken[c] /\ CommandStep(c) /\ Exit(c)

(***************************************************************************)
(* grpc_exec                                                               *)
(***************************************************************************)
Leave(c, code) == client' = [client EXCEPT ![c] = code]

Connect(c) ==
    /\ client[c] = "start" /\ Accepting
    /\ Leave(c, "stream") /\ conn' = [conn EXCEPT ![c] = socket]
    /\ UNCHANGED <<runVars, daemonVars, printed>>

\* Nothing listens on the path, or it does not exist.
GiveUp(c) ==
    /\ client[c] = "start" /\ ~Accepting
    /\ Leave(c, "nonzero")
    /\ UNCHANGED <<runVars, daemonVars, conn, printed>>

Receive(c) ==
    /\ client[c] = "stream" /\ printed[c] < delivered[c]
    /\ printed' = [printed EXCEPT ![c] = @ + 1]
    /\ UNCHANGED <<runVars, daemonVars, client, conn>>

\* MUTANT: every end of the stream is taken for success.
ZeroAlways == [ok |-> "zero", failed |-> "zero", error |-> "zero", none |-> "zero"]

\* The exit status, or 0 if the stream ends without one.
ReturnCode == [ok |-> "zero", failed |-> "nonzero", error |-> "nonzero", none |-> "zero"]

ReceiveExit(c) ==
    /\ client[c] = "stream" /\ phase[c] = "returned" /\ printed[c] = delivered[c]
    /\ Leave(c, ReturnCode[verdict[c]])
    /\ UNCHANGED <<runVars, daemonVars, conn, printed>>

\* MUTANT: a broken connection is not an error.
ReceiveRefusal(c) ==
    /\ client[c] = "stream"
    /\ daemon[conn[c]] \in {"draining", "drained"} /\ phase[c] = "idle"
    /\ Leave(c, "nonzero")
    /\ UNCHANGED <<runVars, daemonVars, conn, printed>>

\* The connection breaks: with the daemon, or with a call it has not answered
\* when it exits; or the daemon turns the call away as it drains.
ReceiveError(c) ==
    /\ client[c] = "stream"
    /\ \/ daemon[conn[c]] = "dead"
       \/ daemon[conn[c]] = "drained" /\ phase[c] # "returned"
       \/ daemon[conn[c]] = "draining" /\ phase[c] = "idle"
    /\ Leave(c, "nonzero")
    /\ UNCHANGED <<runVars, daemonVars, conn, printed>>

\* The client is killed, which its daemon notices.
Interrupt(c) ==
    /\ client[c] = "stream"
    /\ Leave(c, "killed")
    /\ IF Up(conn[c]) /\ phase[c] # "returned" THEN Break(c) ELSE UNCHANGED runVars
    /\ UNCHANGED <<daemonVars, conn, printed>>

ClientStep(c) == Connect(c) \/ GiveUp(c) \/ Receive(c) \/ ReceiveExit(c) \/ ReceiveError(c)

DaemonStep(d) == Listen(d) \/ Serve(d) \/ DrainEnds(d)

ExecdStep ==
    \/ \E d \in Daemons : DaemonStep(d) \/ TerminateEarly(d) \/ Terminate(d) \/ Kill(d)
    \/ \E c \in Calls : HandlerStep(c) \/ CommandStep(c) \/ ClientStep(c) \/ Interrupt(c)

(***************************************************************************)
(* Properties                                                              *)
(***************************************************************************)
\* The variables range over what the code can put there.
ExecdTypeOK ==
    /\ phase \in [Calls -> {"idle", "open", "returned"}]
    /\ command \in [Calls -> {"none", "alive", "ok", "failed"}]
    /\ broken \in [Calls -> BOOLEAN]
    /\ verdict \in [Calls -> {"none", "ok", "failed", "error"}]
    /\ written \in [Calls -> Nat] /\ delivered \in [Calls -> Nat]
    /\ printed \in [Calls -> Nat]
    /\ client \in [Calls -> {"start", "stream", "zero", "nonzero", "killed"}]
    /\ conn \in [Calls -> Daemons \cup {No}]
    /\ daemon \in [Daemons -> {"none", "booting", "bound", "serving", "draining",
                               "drained", "dead"}]
    /\ socket \in Daemons \cup {No}

\* What a call has come to, in itself, ...
ProgressOK(c) ==
    /\ phase[c] = "idle" => command[c] = "none"
    /\ command[c] = "none" => written[c] = 0
    /\ command[c] = "alive" => phase[c] = "open"
    /\ phase[c] = "returned" <=> verdict[c] # "none"
    /\ verdict[c] = "error" => broken[c]
    /\ verdict[c] \in {"ok", "failed"} =>
          delivered[c] = written[c] /\ command[c] \in {verdict[c], "none"}
    /\ verdict[c] = "ok" => command[c] = "ok"
    /\ printed[c] <= delivered[c] /\ delivered[c] <= written[c]

\* ... and what its client and its daemon have made of it.
ClientOK(c) ==
    /\ broken[c] => client[c] = "killed"
    /\ client[c] = "start" => conn[c] = No
    /\ client[c] = "stream" => conn[c] # No
    /\ client[c] = "zero" => verdict[c] = "ok" /\ printed[c] = delivered[c]
    /\ client[c] = "nonzero" =>
          \/ phase[c] = "idle"
          \/ conn[c] # No /\ daemon[conn[c]] = "dead"
          \/ verdict[c] = "failed" /\ printed[c] = delivered[c]
    /\ conn[c] = No => phase[c] = "idle"
    /\ conn[c] # No => daemon[conn[c]] \notin {"none", "booting"}
    /\ phase[c] = "open" => daemon[conn[c]] \in {"serving", "draining", "dead"}

CallsOK == ExecdTypeOK /\ \A c \in Calls : ProgressOK(c) /\ ClientOK(c)

\* A client that exits with 0 has run its command to success and printed all
\* of its output; what broke on the way is never taken for success (main.go
\* of grpc_exec, 101-122: a stream that ends without an exit event gives 0).
ExitCodeIsTrue == \A c \in Calls : client[c] = "zero" =>
    command[c] = "ok" /\ printed[c] = written[c]

\* A graceful stop waits for the calls it is serving: a client whose command
\* was started gets its own exit code and output from a daemon that drained
\* (main.go of grpc_execd, 47-55).
DrainedCallsAnswered == \A d \in Daemons : daemon[d] = "drained" =>
    \A c \in CallsOf(d) : command[c] # "none" /\ client[c] \in {"zero", "nonzero"} =>
        /\ printed[c] = written[c]
        /\ (client[c] = "zero") <=> (command[c] = "ok")

\* A client does not hang on a daemon that is gone or a command that is over.
ClientReturns == \A c \in Calls :
    client[c] = "stream" /\ (~Up(conn[c]) \/ command[c] \in ExitStatus)
        ~> client[c] # "stream"
=============================================================================
