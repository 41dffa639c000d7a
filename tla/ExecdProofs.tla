----------------------------- MODULE ExecdProofs ----------------------------
(***************************************************************************)
(* What the steps of the daemons, their calls and their clients preserve,  *)
(* for any number of each and any amount of output.                        *)
(***************************************************************************)
EXTENDS Execd, TLAPS

LEMMA ExecdInitOK == ExecdInit => CallsOK
BY DEF ExecdInit, RunInit, CallsOK, ExecdTypeOK, ProgressOK, ClientOK

USE DEF runVars, daemonVars, clientVars

\* Each step of a call keeps the types ...
LEMMA HandlerTypes ==
    ASSUME CallsOK, NEW c \in Calls, HandlerStep(c)
    PROVE  ExecdTypeOK'
<1> USE DEF CallsOK, ExecdTypeOK
<1>1. CASE Open(c)
  BY <1>1 DEF HandlerStep, Open
<1>2. CASE Reject(c)
  BY <1>2 DEF HandlerStep, Reject, Return
<1>3. CASE Launch(c)
  BY <1>3 DEF HandlerStep, Launch
<1>4. CASE LaunchFails(c)
  BY <1>4 DEF HandlerStep, LaunchFails, Return
<1>5. CASE Deliver(c)
  BY <1>5 DEF HandlerStep, Deliver
<1>6. CASE Answer(c)
  BY <1>6 DEF HandlerStep, Answer, Return, ExitStatus
<1>7. CASE Fail(c)
  BY <1>7 DEF HandlerStep, Fail, Return
<1>8. QED
  BY <1>1, <1>2, <1>3, <1>4, <1>5, <1>6, <1>7 DEF HandlerStep

LEMMA HandlerKeeps ==
    ASSUME CallsOK, NEW c \in Calls, HandlerStep(c), NEW k \in Calls
    PROVE  ProgressOK(k)' /\ ClientOK(k)'
<1> USE DEF CallsOK, ExecdTypeOK, ProgressOK, ClientOK, Served
<1>1. CASE client[c] = "stream" /\ Open(c)
  BY <1>1 DEF HandlerStep, Open
<1>2. CASE client[c] = "killed" /\ Reject(c)
  BY <1>2 DEF HandlerStep, Reject, Return
<1>3. CASE Launch(c)
  BY <1>3 DEF HandlerStep, Launch
<1>4. CASE LaunchFails(c)
  BY <1>4 DEF HandlerStep, LaunchFails, Return
<1>5. CASE Deliver(c)
  BY <1>5 DEF HandlerStep, Deliver
<1>6. CASE Answer(c)
  BY <1>6 DEF HandlerStep, Answer, Return, ExitStatus
<1>7. CASE Fail(c)
  BY <1>7 DEF HandlerStep, Fail, Return
<1>8. QED
  BY <1>1, <1>2, <1>3, <1>4, <1>5, <1>6, <1>7 DEF HandlerStep

\* ... and so do those of its command ...
LEMMA CommandKeeps ==
    ASSUME CallsOK, NEW c \in Calls, CommandStep(c)
    PROVE  CallsOK'
<1> USE DEF CallsOK, Served
<1>1. CASE Produce(c)
  <2>1. ExecdTypeOK'
    BY <1>1 DEF CommandStep, Produce, ExecdTypeOK
  <2>2. ASSUME NEW k \in Calls PROVE ProgressOK(k)' /\ ClientOK(k)'
    BY <1>1 DEF CommandStep, Produce, ExecdTypeOK, ProgressOK, ClientOK
  <2>3. QED
    BY <2>1, <2>2
<1>2. CASE Exit(c)
  <2>1. ExecdTypeOK'
    BY <1>2 DEF CommandStep, Exit, ExitStatus, ExecdTypeOK
  <2>2. ASSUME NEW k \in Calls PROVE ProgressOK(k)' /\ ClientOK(k)'
    BY <1>2 DEF CommandStep, Exit, ExitStatus, ExecdTypeOK, ProgressOK, ClientOK
  <2>3. QED
    BY <2>1, <2>2
<1>3. QED
  BY <1>1, <1>2 DEF CommandStep

\* ... and of its client.
LEMMA ClientKeeps ==
    ASSUME CallsOK, NEW c \in Calls, ClientStep(c) \/ Interrupt(c)
    PROVE  CallsOK'
<1> USE DEF CallsOK
<1>1. CASE Connect(c)
  <2>1. ExecdTypeOK'
    BY <1>1 DEF Connect, Leave, Accepting, Listening, ExecdTypeOK
  <2>2. ASSUME NEW k \in Calls PROVE ProgressOK(k)' /\ ClientOK(k)'
    BY <1>1 DEF Connect, Leave, Accepting, Listening, ExecdTypeOK, ProgressOK, ClientOK
  <2>3. QED
    BY <2>1, <2>2
<1>2. CASE GiveUp(c)
  <2>1. ExecdTypeOK'
    BY <1>2 DEF GiveUp, Leave, ExecdTypeOK
  <2>2. ASSUME NEW k \in Calls PROVE ProgressOK(k)' /\ ClientOK(k)'
    BY <1>2 DEF GiveUp, Leave, ExecdTypeOK, ProgressOK, ClientOK
  <2>3. QED
    BY <2>1, <2>2
<1>3. CASE Receive(c)
  <2>1. ExecdTypeOK'
    BY <1>3 DEF Receive, ExecdTypeOK
  <2>2. ASSUME NEW k \in Calls PROVE ProgressOK(k)' /\ ClientOK(k)'
    BY <1>3 DEF Receive, ExecdTypeOK, ProgressOK, ClientOK
  <2>3. QED
    BY <2>1, <2>2
<1>4. CASE ReceiveExit(c)
  <2>1. ExecdTypeOK'
    BY <1>4 DEF ReceiveExit, Leave, ReturnCode, ExecdTypeOK
  <2>2. ASSUME NEW k \in Calls PROVE ProgressOK(k)' /\ ClientOK(k)'
    BY <1>4 DEF ReceiveExit, Leave, ReturnCode, ExecdTypeOK, ProgressOK, ClientOK
  <2>3. QED
    BY <2>1, <2>2
<1>5. CASE ReceiveError(c)
  <2>1. ExecdTypeOK'
    BY <1>5 DEF ReceiveError, Leave, ExecdTypeOK
  <2>2. ASSUME NEW k \in Calls PROVE ProgressOK(k)' /\ ClientOK(k)'
    BY <1>5 DEF ReceiveError, Leave, ExecdTypeOK, ProgressOK, ClientOK
  <2>3. QED
    BY <2>1, <2>2
<1>6. CASE Interrupt(c)
  <2>1. CASE Up(conn[c]) /\ phase[c] # "returned" /\ Break(c)
    <3>1. ExecdTypeOK'
      BY <1>6, <2>1 DEF Interrupt, Leave, Break, ExitStatus, ExecdTypeOK
    <3>2. ASSUME NEW k \in Calls PROVE ProgressOK(k)' /\ ClientOK(k)'
      BY <1>6, <2>1 DEF Interrupt, Leave, Break, ExitStatus, ExecdTypeOK, ProgressOK,
                        ClientOK
    <3>3. QED
      BY <3>1, <3>2
  <2>2. CASE UNCHANGED runVars
    <3>1. ExecdTypeOK'
      BY <1>6, <2>2 DEF Interrupt, Leave, ExecdTypeOK
    <3>2. ASSUME NEW k \in Calls PROVE ProgressOK(k)' /\ ClientOK(k)'
      BY <1>6, <2>2 DEF Interrupt, Leave, ExecdTypeOK, ProgressOK, ClientOK
    <3>3. QED
      BY <3>1, <3>2
  <2>3. QED
    BY <1>6, <2>1, <2>2 DEF Interrupt
<1>7. QED
  BY <1>1, <1>2, <1>3, <1>4, <1>5, <1>6 DEF ClientStep

\* A SIGKILL to a sandbox ends the commands of its calls, and no others.
LEMMA KillKeeps ==
    ASSUME CallsOK, NEW d \in Daemons, Kill(d)
    PROVE  CallsOK'
<1> USE DEF CallsOK
<1>1. ExecdTypeOK'
  BY DEF Kill, Up, CallsOf, ExecdTypeOK
<1>2. ASSUME NEW k \in Calls PROVE ProgressOK(k)' /\ ClientOK(k)'
  BY DEF Kill, Up, CallsOf, ExecdTypeOK, ProgressOK, ClientOK
<1>3. QED
  BY <1>1, <1>2

\* The daemons' own steps; a drained one has no open call.
LEMMA DaemonKeeps ==
    ASSUME CallsOK, NEW d \in Daemons,
           DaemonStep(d) \/ TerminateEarly(d) \/ Terminate(d)
    PROVE  CallsOK'
<1> USE DEF CallsOK
<1>1. CASE Listen(d)
  <2>1. ExecdTypeOK'
    BY <1>1 DEF Listen, ExecdTypeOK
  <2>2. ASSUME NEW k \in Calls PROVE ProgressOK(k)' /\ ClientOK(k)'
    BY <1>1 DEF Listen, ExecdTypeOK, ProgressOK, ClientOK
  <2>3. QED
    BY <2>1, <2>2
<1>2. CASE Serve(d)
  <2>1. ExecdTypeOK'
    BY <1>2 DEF Serve, ExecdTypeOK
  <2>2. ASSUME NEW k \in Calls PROVE ProgressOK(k)' /\ ClientOK(k)'
    BY <1>2 DEF Serve, ExecdTypeOK, ProgressOK, ClientOK
  <2>3. QED
    BY <2>1, <2>2
<1>3. CASE DrainEnds(d)
  <2>1. ExecdTypeOK'
    BY <1>3 DEF DrainEnds, Drained, CallsOf, ExecdTypeOK
  <2>2. ASSUME NEW k \in Calls PROVE ProgressOK(k)' /\ ClientOK(k)'
    BY <1>3 DEF DrainEnds, Drained, CallsOf, ExecdTypeOK, ProgressOK, ClientOK
  <2>3. QED
    BY <2>1, <2>2
<1>4. CASE TerminateEarly(d)
  <2>1. ExecdTypeOK'
    BY <1>4 DEF TerminateEarly, ExecdTypeOK
  <2>2. ASSUME NEW k \in Calls PROVE ProgressOK(k)' /\ ClientOK(k)'
    BY <1>4 DEF TerminateEarly, ExecdTypeOK, ProgressOK, ClientOK
  <2>3. QED
    BY <2>1, <2>2
<1>5. CASE Terminate(d)
  <2>1. ExecdTypeOK'
    BY <1>5 DEF Terminate, ExecdTypeOK
  <2>2. ASSUME NEW k \in Calls PROVE ProgressOK(k)' /\ ClientOK(k)'
    BY <1>5 DEF Terminate, ExecdTypeOK, ProgressOK, ClientOK
  <2>3. QED
    BY <2>1, <2>2
<1>6. QED
  BY <1>1, <1>2, <1>3, <1>4, <1>5 DEF DaemonStep

\* A sandbox starts.
LEMMA BootKeeps ==
    ASSUME CallsOK, NEW d \in Daemons, daemon[d] = "none",
           daemon' = [daemon EXCEPT ![d] = "booting"],
           UNCHANGED <<runVars, socket, clientVars>>
    PROVE  CallsOK'
<1>1. ExecdTypeOK'
  BY DEF CallsOK, ExecdTypeOK
<1>2. ASSUME NEW k \in Calls PROVE ProgressOK(k)' /\ ClientOK(k)'
  BY DEF CallsOK, ExecdTypeOK, ProgressOK, ClientOK
<1>3. QED
  BY <1>1, <1>2 DEF CallsOK

\* No client, daemon or command breaks what the parties know of each other.
LEMMA ExecdKeeps == CallsOK /\ ExecdStep => CallsOK'
<1> SUFFICES ASSUME CallsOK, ExecdStep
             PROVE  CallsOK'
  OBVIOUS
<1>1. ASSUME NEW c \in Calls, HandlerStep(c) PROVE CallsOK'
  BY <1>1, HandlerTypes, HandlerKeeps DEF CallsOK
<1>2. QED
  BY <1>1, CommandKeeps, ClientKeeps, DaemonKeeps, KillKeeps DEF ExecdStep

\* Exit code 0 means success and all of the output.
LEMMA CallsExitCode == CallsOK => ExitCodeIsTrue
BY DEF CallsOK, ExecdTypeOK, ProgressOK, ClientOK, ExitCodeIsTrue

\* A daemon that drained has given each client its exit code.
LEMMA CallsDrained == CallsOK => DrainedCallsAnswered
<1> SUFFICES ASSUME CallsOK, NEW d \in Daemons, daemon[d] = "drained",
                    NEW c \in CallsOf(d), command[c] # "none",
                    client[c] \in {"zero", "nonzero"}
             PROVE  printed[c] = written[c] /\ ((client[c] = "zero") <=> (command[c] = "ok"))
  BY DEF DrainedCallsAnswered
<1>1. c \in Calls /\ conn[c] = d /\ d # No
  BY DaemonAssumption DEF CallsOf
<1>2. CASE client[c] = "zero"
  BY <1>1, <1>2 DEF CallsOK, ExecdTypeOK, ProgressOK, ClientOK
<1>3. CASE client[c] = "nonzero"
  BY <1>1, <1>3 DEF CallsOK, ExecdTypeOK, ProgressOK, ClientOK
<1>4. QED
  BY <1>2, <1>3
=============================================================================
