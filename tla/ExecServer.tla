----------------------------- MODULE ExecServer -----------------------------
(***************************************************************************)
(* One RunCommand call of grpc_execd (src/grpc_exec/server/server.go): the *)
(* handler goroutine that reads the pipe and sends events, the goroutine   *)
(* that waits for the command, the one that receives client events, the    *)
(* one that watches the stream's context, the timer of a graceful          *)
(* termination, and the processes the command consists of.  Calls share    *)
(* nothing, so one is enough.                                              *)
(*                                                                         *)
(* The command is a shell (the leader of a process group of its own), at   *)
(* most one background process in the group, and at most one process that  *)
(* left the group (setsid); each of them holds the write end of the pipe.  *)
(* A SIGTERM changes nothing here: a process may exit or stay, as ever.    *)
(***************************************************************************)
EXTENDS Naturals, Sequences

CONSTANTS
    MaxWrites,   \* chunks the shell writes
    PipeCap,     \* chunks the pipe holds
    SlowClient   \* may sending what the pipe holds take longer than 100 ms?

ASSUME ExecAssumption ==
    MaxWrites \in Nat /\ PipeCap \in Nat \ {0} /\ SlowClient \in BOOLEAN

VARIABLES
    mainPC,      \* the handler goroutine
    verdict,     \* what the client was told: none, ok, failed or error
    waitPC,      \* the goroutine in cmd.Wait; "done" when waitCh is filled
    recvPC,      \* the goroutine in stream.Recv
    ctxPC,       \* the goroutine that waits for stream.Context().Done()
    grace,       \* a timer of a graceful termination is armed
    ctxDone,     \* the client has disconnected
    procDone,    \* the channel procDone is closed
    protoErr,    \* the channel protoErr holds an error
    deadline,    \* of reads from the pipe: none, set or passed
    leader, member, escaped,   \* the processes
    status,      \* exit status of the leader: none, ok or failed
    pipe,        \* the chunks in the pipe; the shell's are numbered, others 0
    chunk,       \* what the last Read returned and Send has not sent, or 0
    written, sent   \* chunks the shell has written, and of them those sent

mainVars == <<mainPC, verdict>>
goVars   == <<waitPC, recvPC, ctxPC, grace>>
chanVars == <<ctxDone, procDone, protoErr, deadline>>
procVars == <<leader, member, escaped, status>>
dataVars == <<pipe, chunk, written, sent>>
vars     == <<mainVars, goVars, chanVars, procVars, dataVars>>

Init ==
    /\ mainPC = "first" /\ verdict = "none"
    /\ waitPC = "none" /\ recvPC = "none" /\ ctxPC = "none" /\ grace = FALSE
    /\ ctxDone = FALSE /\ procDone = FALSE /\ protoErr = FALSE
    /\ deadline = "none"
    /\ leader = "none" /\ member = "none" /\ escaped = "none" /\ status = "none"
    /\ pipe = <<>> /\ chunk = 0 /\ written = 0 /\ sent = 0

\* killPG: SIGKILL to the process group; a dead leader waits to be reaped.
KillGroup ==
    /\ leader' = IF leader = "alive" THEN "zombie" ELSE leader
    /\ status' = IF leader = "alive" THEN "failed" ELSE status
    /\ member' = IF member = "alive" THEN "dead" ELSE member
    /\ UNCHANGED escaped

(***************************************************************************)
(* The handler goroutine                                                   *)
(***************************************************************************)
Goto(pc) == mainPC' = pc /\ UNCHANGED verdict

\* The RPC returns; nothing reaches a client that has disconnected.
Return(v) == mainPC' = "returned" /\ verdict' = IF ctxDone THEN "error" ELSE v

\* The first message: a start request, or anything else.
ReceiveFirst ==
    /\ mainPC = "first"
    /\ (~ctxDone /\ Goto("spawn")) \/ Return("error")
    /\ UNCHANGED <<goVars, chanVars, procVars, dataVars>>

\* os.Pipe and cmd.Start; their failure is reported as an exit.
StartCommand ==
    /\ mainPC = "spawn"
    /\ \/ leader' = "alive" /\ Goto("announce")
       \/ Return("failed") /\ UNCHANGED leader
    /\ UNCHANGED <<goVars, chanVars, member, escaped, status, dataVars>>

\* Send CommandStarted and start the other goroutines.
SendStarted ==
    /\ mainPC = "announce" /\ ~ctxDone
    /\ Goto("read") /\ waitPC' = "wait" /\ recvPC' = "recv" /\ ctxPC' = "watch"
    /\ UNCHANGED <<grace, chanVars, procVars, dataVars>>

\* CommandStarted cannot be sent: kill the group, then reap the shell.
SendStartedFails ==
    /\ mainPC = "announce" /\ ctxDone
    /\ KillGroup /\ Goto("reap")
    /\ UNCHANGED <<goVars, chanVars, dataVars>>

ReapAndReturn ==
    /\ mainPC = "reap" /\ leader = "zombie"
    /\ leader' = "reaped" /\ Return("error")
    /\ UNCHANGED <<goVars, chanVars, member, escaped, status, dataVars>>

\* pr.Read returns data.
ReadChunk ==
    /\ mainPC = "read" /\ deadline # "passed" /\ pipe # <<>>
    /\ chunk' = Head(pipe) /\ pipe' = Tail(pipe)
    /\ Goto("send")
    /\ UNCHANGED <<goVars, chanVars, procVars, written, sent>>

PipeOpen == "alive" \in {leader, member, escaped}

\* pr.Read returns an error: end of file, or the deadline, whatever is left.
ReadEnd ==
    /\ mainPC = "read"
    /\ deadline = "passed" \/ (pipe = <<>> /\ ~PipeOpen)
    /\ Goto("exit")
    /\ UNCHANGED <<goVars, chanVars, procVars, dataVars>>

\* MUTANT: a buffer is sent twice.
AppendTwice == IF chunk # 0 THEN sent + 2 ELSE sent

\* What the client has of the shell's output once the chunk is sent.
AppendChunk == IF chunk # 0 THEN sent + 1 ELSE sent

\* stream.Send of what was read.
SendChunk ==
    /\ mainPC = "send" /\ ~ctxDone
    /\ sent' = AppendChunk /\ chunk' = 0
    /\ Goto("read")
    /\ UNCHANGED <<goVars, chanVars, procVars, pipe, written>>

SendChunkFails ==
    /\ mainPC = "send" /\ ctxDone
    /\ KillGroup /\ Goto("fail")
    /\ UNCHANGED <<goVars, chanVars, dataVars>>

FailReturn ==
    /\ mainPC = "fail" /\ waitPC = "done"
    /\ Return("error")
    /\ UNCHANGED <<goVars, chanVars, procVars, dataVars>>

\* The exit status has come; is there a protocol error?
TakeStatus ==
    /\ mainPC = "exit" /\ waitPC = "done"
    /\ IF protoErr THEN Return("error") ELSE Goto("report")
    /\ UNCHANGED <<goVars, chanVars, procVars, dataVars>>

\* MUTANT: the exit status is not looked at.
ReportOk == "ok"

\* The exit code of the shell, -1 when a signal killed it.
ReportStatus == status

SendExited ==
    /\ mainPC = "report"
    /\ Return(ReportStatus)
    /\ UNCHANGED <<goVars, chanVars, procVars, dataVars>>

(***************************************************************************)
(* The goroutine in cmd.Wait                                               *)
(***************************************************************************)
Reap ==
    /\ waitPC = "wait" /\ leader = "zombie"
    /\ leader' = "reaped" /\ waitPC' = "announce"
    /\ UNCHANGED <<mainVars, recvPC, ctxPC, grace, chanVars, member, escaped,
                   status, dataVars>>

CloseProcDone ==
    /\ waitPC = "announce"
    /\ procDone' = TRUE /\ waitPC' = "cleanup"
    /\ UNCHANGED <<mainVars, recvPC, ctxPC, grace, ctxDone, protoErr, deadline,
                   procVars, dataVars>>

\* MUTANT: the background processes are left alone.
LeaveRest == UNCHANGED procVars

\* Kill what is left of the process group.
KillRest == KillGroup

CleanUp ==
    /\ waitPC = "cleanup"
    /\ KillRest /\ waitPC' = "deadline"
    /\ UNCHANGED <<mainVars, recvPC, ctxPC, grace, chanVars, dataVars>>

\* MUTANT: no read deadline.
NoDeadline == "none"

\* MUTANT: the deadline is now.
DeadlineNow == "passed"

\* In 100 ms.
SoonDeadline == "set"

\* Give the read loop another 100 ms, then hand over the exit status.
SetDeadline ==
    /\ waitPC = "deadline"
    /\ deadline' = SoonDeadline /\ waitPC' = "done"
    /\ UNCHANGED <<mainVars, recvPC, ctxPC, grace, ctxDone, procDone, protoErr,
                   procVars, dataVars>>

ShellOutput(p) == {p[i] : i \in 1..Len(p)} \ {0}

\* The 100 ms are over; a prompt client has taken what the shell wrote by then.
DeadlinePasses ==
    /\ deadline = "set"
    /\ SlowClient \/ ShellOutput(pipe) = {}
    /\ deadline' = "passed"
    /\ UNCHANGED <<mainVars, goVars, ctxDone, procDone, protoErr, procVars,
                   dataVars>>

(***************************************************************************)
(* The goroutine in stream.Recv, and the timer                             *)
(***************************************************************************)
\* A forced termination, with a grace period or at once.  The check of
\* procDone comes first; what follows may come after the process was reaped.
ReceiveTerminate(kind) ==
    /\ recvPC = "recv" /\ ~procDone
    /\ recvPC' = kind
    /\ UNCHANGED <<mainVars, waitPC, ctxPC, grace, chanVars, procVars, dataVars>>

\* MUTANT: the grace period is taken for a request to send SIGTERM only.
NoTimer == UNCHANGED grace

StartTimer == grace' = TRUE

\* SIGTERM, and a timer.
ArmTimer ==
    /\ recvPC = "grace"
    /\ StartTimer /\ recvPC' = "recv"
    /\ UNCHANGED <<mainVars, waitPC, ctxPC, chanVars, procVars, dataVars>>

\* The grace period is over, or the process is: select takes what is ready.
TimerFires ==
    /\ grace
    /\ grace' = FALSE
    /\ KillGroup \/ (procDone /\ UNCHANGED procVars)
    /\ UNCHANGED <<mainVars, waitPC, recvPC, ctxPC, chanVars, dataVars>>

KillNow ==
    /\ recvPC = "now"
    /\ KillGroup /\ recvPC' = "recv"
    /\ UNCHANGED <<mainVars, waitPC, ctxPC, grace, chanVars, dataVars>>

\* Anything but a TerminateCommand: kill the group ...
ReceiveOther ==
    /\ recvPC = "recv" /\ mainPC # "returned"
    /\ KillGroup /\ recvPC' = "violation"
    /\ UNCHANGED <<mainVars, waitPC, ctxPC, grace, chanVars, dataVars>>

\* ... then leave the error for the handler.
ReportViolation ==
    /\ recvPC = "violation"
    /\ protoErr' = TRUE /\ recvPC' = "done"
    /\ UNCHANGED <<mainVars, waitPC, ctxPC, grace, ctxDone, procDone, deadline,
                   procVars, dataVars>>

\* The client closes its side: the command goes on.
ReceiveEOF ==
    /\ recvPC = "recv"
    /\ recvPC' = "done"
    /\ UNCHANGED <<mainVars, waitPC, ctxPC, grace, chanVars, procVars, dataVars>>

\* The stream is broken, or over.
ReceiveBroken ==
    /\ recvPC = "recv" /\ (ctxDone \/ mainPC = "returned")
    /\ recvPC' = IF procDone THEN "done" ELSE "broken"
    /\ UNCHANGED <<mainVars, waitPC, ctxPC, grace, chanVars, procVars, dataVars>>

KillBroken ==
    /\ recvPC = "broken"
    /\ KillGroup /\ recvPC' = "done"
    /\ UNCHANGED <<mainVars, waitPC, ctxPC, grace, chanVars, dataVars>>

\* MUTANT: the disconnect is noticed but nothing is killed.
WatchIdly ==
    /\ ctxPC = "watch" /\ (ctxDone \/ procDone)
    /\ ctxPC' = "done"
    /\ UNCHANGED <<mainVars, waitPC, recvPC, grace, chanVars, procVars, dataVars>>

\* The goroutine that waits for a disconnect (the stream's context is also
\* done once the call has returned) or for the end of the process.
Watch ==
    /\ ctxPC = "watch"
    /\ \/ (ctxDone \/ mainPC = "returned") /\ KillGroup
       \/ procDone /\ UNCHANGED procVars
    /\ ctxPC' = "done"
    /\ UNCHANGED <<mainVars, waitPC, recvPC, grace, chanVars, dataVars>>

(***************************************************************************)
(* The client and the processes                                            *)
(***************************************************************************)
Disconnect ==
    /\ ~ctxDone /\ mainPC # "returned"
    /\ ctxDone' = TRUE
    /\ UNCHANGED <<mainVars, goVars, procDone, protoErr, deadline, procVars,
                   dataVars>>

LeaderExits == leader = "alive" /\ leader' = "zombie" /\ status' \in {"ok", "failed"}
                 /\ UNCHANGED <<member, escaped>>
Forks       == leader = "alive" /\ member = "none" /\ member' = "alive"
                 /\ UNCHANGED <<leader, escaped, status>>
MemberExits == member = "alive" /\ member' = "dead" /\ UNCHANGED <<leader, escaped, status>>
Escapes     == "alive" \in {leader, member} /\ escaped = "none" /\ escaped' = "alive"
                 /\ UNCHANGED <<leader, member, status>>
EscapedExits == escaped = "alive" /\ escaped' = "dead" /\ UNCHANGED <<leader, member, status>>

ProcessStep ==
    /\ LeaderExits \/ Forks \/ MemberExits \/ Escapes \/ EscapedExits
    /\ UNCHANGED <<mainVars, goVars, chanVars, dataVars>>

\* A process writes to the pipe, which blocks when it is full.
ShellWrites ==
    /\ leader = "alive" /\ written < MaxWrites /\ Len(pipe) < PipeCap
    /\ pipe' = Append(pipe, written + 1) /\ written' = written + 1
    /\ UNCHANGED <<mainVars, goVars, chanVars, procVars, chunk, sent>>

OtherWrites ==
    /\ "alive" \in {member, escaped} /\ Len(pipe) < PipeCap
    /\ pipe' = Append(pipe, 0)
    /\ UNCHANGED <<mainVars, goVars, chanVars, procVars, chunk, written, sent>>

(***************************************************************************)
(* The specification                                                       *)
(***************************************************************************)
MainStep ==
    \/ StartCommand \/ SendStarted \/ SendStartedFails \/ ReapAndReturn
    \/ ReadChunk \/ ReadEnd \/ SendChunk \/ SendChunkFails \/ FailReturn
    \/ TakeStatus \/ SendExited

WaitStep == Reap \/ CloseProcDone \/ CleanUp \/ SetDeadline

\* What the receiving goroutine does of its own accord.
RecvStep == ArmTimer \/ KillNow \/ ReportViolation \/ ReceiveBroken \/ KillBroken

ClientStep ==
    \/ ReceiveTerminate("grace") \/ ReceiveTerminate("now")
    \/ ReceiveOther \/ ReceiveEOF \/ Disconnect

\* The call has returned and its goroutines are gone.
Finished == mainPC = "returned" /\ UNCHANGED vars

Next ==
    \/ ReceiveFirst \/ MainStep \/ WaitStep \/ DeadlinePasses
    \/ RecvStep \/ TimerFires \/ Watch
    \/ ClientStep \/ ProcessStep \/ ShellWrites \/ OtherWrites
    \/ Finished

Spec == Init /\ [][Next]_vars

\* Goroutines and timers run; a client takes what is sent to it or
\* disconnects; the command may run for ever and the client need not act.
Fairness ==
    /\ WF_vars(MainStep) /\ WF_vars(WaitStep) /\ WF_vars(DeadlinePasses)
    /\ WF_vars(RecvStep) /\ WF_vars(TimerFires) /\ WF_vars(Watch)

FairSpec == Spec /\ Fairness

(***************************************************************************)
(* Properties                                                              *)
(***************************************************************************)
\* The variables range over what the code can put there.
TypeOK ==
    /\ mainPC \in {"first", "spawn", "announce", "reap", "read", "send", "fail",
                   "exit", "report", "returned"}
    /\ verdict \in {"none", "ok", "failed", "error"}
    /\ waitPC \in {"none", "wait", "announce", "cleanup", "deadline", "done"}
    /\ recvPC \in {"none", "recv", "grace", "now", "violation", "broken", "done"}
    /\ ctxPC \in {"none", "watch", "done"}
    /\ grace \in BOOLEAN /\ ctxDone \in BOOLEAN
    /\ procDone \in BOOLEAN /\ protoErr \in BOOLEAN
    /\ deadline \in {"none", "set", "passed"}
    /\ leader \in {"none", "alive", "zombie", "reaped"}
    /\ member \in {"none", "alive", "dead"} /\ escaped \in {"none", "alive", "dead"}
    /\ status \in {"none", "ok", "failed"}
    /\ pipe \in Seq(Nat) /\ chunk \in Nat /\ written \in Nat /\ sent \in Nat

\* Where the goroutines are, and what has become of the processes by then.
ControlInv ==
    /\ leader = "none" => mainPC \in {"first", "spawn", "returned"}
                          /\ member = "none" /\ written = 0
    /\ mainPC \in {"first", "spawn"} => leader = "none"
    /\ mainPC \in {"first", "spawn", "announce", "reap"} => waitPC = "none"
    /\ mainPC \in {"read", "send", "fail", "exit", "report"} => waitPC # "none"
    /\ mainPC = "announce" => leader \in {"alive", "zombie"}
    /\ mainPC = "reap" => leader = "zombie" /\ member # "alive"
    /\ mainPC \in {"reap", "fail"} => ctxDone
    /\ mainPC = "report" => waitPC = "done"
    /\ mainPC = "returned" => leader \in {"none", "reaped"} /\ member # "alive"
    /\ waitPC = "none" => recvPC = "none" /\ ~protoErr
    /\ waitPC = "wait" => leader \in {"alive", "zombie"}
    /\ waitPC \in {"announce", "cleanup", "deadline", "done"} => leader = "reaped"
    /\ waitPC \in {"deadline", "done"} => member # "alive"
    /\ deadline # "none" => waitPC = "done"
    /\ status # "none" <=> leader \in {"zombie", "reaped"}
    /\ verdict # "none" <=> mainPC = "returned"

\* The number of the last chunk that was read.
LastRead == IF chunk # 0 THEN chunk ELSE sent

\* What the shell wrote is sent, or in the hands of the handler, or in the
\* pipe, in the order in which it was written.
DataInv ==
    /\ chunk # 0 => chunk = sent + 1 /\ mainPC \in {"send", "fail", "returned"}
    /\ LastRead <= written
    /\ \A i \in 1..Len(pipe) : pipe[i] # 0 => LastRead < pipe[i] /\ pipe[i] <= written
    /\ \A i, j \in 1..Len(pipe) :
          i < j /\ pipe[i] # 0 /\ pipe[j] # 0 => pipe[i] < pipe[j]
    /\ \A n \in LastRead + 1 .. written : \E i \in 1..Len(pipe) : pipe[i] = n

\* With a prompt client the handler leaves the loop when all has been sent.
PromptInv ==
    /\ deadline = "passed" => \A i \in 1..Len(pipe) : pipe[i] = 0
    /\ mainPC \in {"exit", "report"} => leader # "alive" /\ sent = written
    /\ verdict \in {"ok", "failed"} => sent = written

\* The inductive invariant of a call: where each goroutine is tells what the
\* others have done, and no chunk is lost, repeated or out of order
\* (server.go:93-107, 167-182).
ExecInv == TypeOK /\ ControlInv /\ DataInv /\ (~SlowClient => PromptInv)

\* When RunCommand returns the shell has been reaped and nothing of its
\* process group is alive, whichever way it ended (server.go:88-89, 93-107,
\* 174-175).
GroupIsDead == mainPC = "returned" =>
    leader \in {"none", "reaped"} /\ member # "alive"

\* An exit event means that all the shell wrote was sent before it: the call
\* "streams output until completion" (grpc_exec.proto:24-25, server.go:93-98).
OutputComplete == verdict \in {"ok", "failed"} => sent = written

\* The end of the shell ends the call, even if a process that left the group
\* keeps the pipe open and writes to it (server.go:93-107).
ExitReturns == leader = "zombie" ~> mainPC = "returned"

\* A forced termination kills the shell, at once or after the grace period
\* (server.go:127-148, grpc_exec.proto:50-53).
ForceKills == recvPC \in {"grace", "now"} ~> leader # "alive"

\* A client that goes away ends the command and the call, even if it had
\* closed its sending side before (server.go:111-125, 158-165).
DisconnectEnds == (ctxDone /\ mainPC # "first") ~> mainPC = "returned"

(***************************************************************************)
(* The call implements RunCommand                                          *)
(***************************************************************************)
This == {"this"}

CallPhase ==
    CASE mainPC = "first" -> "idle" [] mainPC = "returned" -> "returned" [] OTHER -> "open"

\* The command is alive as long as something of its process group is.
CallCommand ==
    IF leader = "none" THEN "none"
    ELSE IF "alive" \in {leader, member} THEN "alive" ELSE status

CallBroken ==
    \/ ctxDone \/ protoErr \/ recvPC = "violation"
    \/ verdict = "error" /\ leader = "none"

Abstract == INSTANCE RunCommand WITH
    Calls     <- This,
    phase     <- [c \in This |-> CallPhase],
    command   <- [c \in This |-> CallCommand],
    broken    <- [c \in This |-> CallBroken],
    verdict   <- [c \in This |-> verdict],
    written   <- [c \in This |-> written],
    delivered <- [c \in This |-> sent]

\* A call does what RunCommand promises, whatever its goroutines, its client
\* and its processes do: the exit status is the shell's own, comes after all
\* its output and when its group is dead; an error is only for a client that
\* went away or broke the protocol (server.go:39-212, grpc_exec.proto:20-27).
ImplementsRunCommand == Abstract!RunSpec
=============================================================================
