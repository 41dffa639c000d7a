------------------------------- MODULE Child -------------------------------
(***************************************************************************)
(* One child MCP server of mcpmux (src/mcpmux/internal/mcpmux/child.go):   *)
(* the goroutine inside Start, the monitor goroutine, the goroutines that  *)
(* call Stop, the goroutines that use the session for tool calls, and the  *)
(* operating-system process with its stdio connection.  A step is what one *)
(* goroutine does between two points where another one can run: a critical *)
(* section of c.mu, or a blocking call.  Every variable is indexed by the  *)
(* Child object, so a registry of children (Proxy) extends this module.    *)
(*                                                                         *)
(* External, taken from how child.go relies on the MCP SDK:                *)
(*   - session.Close waits for calls in flight, then ends the process and  *)
(*     reaps it; session.Wait returns when the connection is gone, which   *)
(*     is after the process was reaped;                                    *)
(*   - Connect and ListTools return when their context is cancelled or the *)
(*     connection breaks; a call on a closing session fails at once.       *)
(***************************************************************************)
CONSTANTS
    Children,    \* Child objects; each is started at most once
    Tools,       \* tool names a child may advertise
    Stoppers,    \* goroutines that call Stop, one call at a time each
    Callers,     \* goroutines that call tools through Session()
    NoChild,     \* the nil *Child
    EarlyCalls   \* may a caller take the session before start() committed?

ASSUME ChildAssumption == NoChild \notin Children /\ EarlyCalls \in BOOLEAN

VARIABLES
    \* fields of Child, guarded by c.mu
    status,      \* c.status
    session,     \* c.session # nil; c.process is set and cleared with it
    tools,       \* c.tools, set by the commit of start()
    stopCancel,  \* c.stopCancel # nil
    startDone,   \* c.startDone: nil, an open or a closed channel
    \* the goroutine running Start
    startPC,     \* where it is
    startErr,    \* err, once it is known
    cancelled,   \* ctx.Err() # nil for the context derived in Start
    \* the monitor goroutine
    monitorPC,
    \* the process, and the connection held by the session
    proc, conn,
    \* goroutines in Stop and their local variables
    stopPC, stopTarget, stopSession, stopCancelFn, stopWait,
    \* goroutines in a tool call
    callPC, callTarget

fields    == <<status, session, tools, stopCancel, startDone>>
startVars == <<startPC, startErr, cancelled>>
osVars    == <<proc, conn>>
stopVars  == <<stopPC, stopTarget, stopSession, stopCancelFn, stopWait>>
callVars  == <<callPC, callTarget>>
childVars == <<fields, startVars, monitorPC, osVars, stopVars, callVars>>

Statuses == {"new", "starting", "running", "stopped", "crashed"}

\* Control points of Start and start(), in source order.
StartPoints == {"idle", "spawn", "handshake", "kill", "publish", "discover",
                "unpublish", "commit", "close", "finish", "returned"}

ChildInit ==
    /\ status     = [c \in Children |-> "new"]
    /\ session    = [c \in Children |-> FALSE]
    /\ tools      = [c \in Children |-> {}]
    /\ stopCancel = [c \in Children |-> FALSE]
    /\ startDone  = [c \in Children |-> "nil"]
    /\ startPC    = [c \in Children |-> "idle"]
    /\ startErr   = [c \in Children |-> FALSE]
    /\ cancelled  = [c \in Children |-> FALSE]
    /\ monitorPC  = [c \in Children |-> "none"]
    /\ proc       = [c \in Children |-> "none"]
    /\ conn       = [c \in Children |-> "none"]
    /\ stopPC       = [k \in Stoppers |-> "idle"]
    /\ stopTarget   = [k \in Stoppers |-> NoChild]
    /\ stopSession  = [k \in Stoppers |-> FALSE]
    /\ stopCancelFn = [k \in Stoppers |-> FALSE]
    /\ stopWait     = [k \in Stoppers |-> FALSE]
    /\ callPC     = [u \in Callers |-> "idle"]
    /\ callTarget = [u \in Callers |-> NoChild]

(***************************************************************************)
(* What the SDK does with a session.                                       *)
(***************************************************************************)
\* Stopper k is inside Stop of child c.
Stopping(k, c) == stopPC[k] # "idle" /\ stopTarget[k] = c

\* Some goroutine has entered session.Close on c's session.
Closing(c) ==
    \/ startPC[c] = "close"
    \/ \E k \in Stoppers : Stopping(k, c) /\ stopPC[k] \in {"close", "killed"}

InFlight(c) == \E u \in Callers : callPC[u] = "calling" /\ callTarget[u] = c

\* The end of a session.Close: no call is in flight, the process is reaped.
SessionClosed(c) ==
    /\ ~InFlight(c)
    /\ proc' = [proc EXCEPT ![c] = "dead"]
    /\ conn' = [conn EXCEPT ![c] = "closed"]

(***************************************************************************)
(* Start                                                                   *)
(***************************************************************************)
\* The first critical section of Start: New -> Starting, and the handles
\* through which Stop can interrupt it.
BeginStart(c) ==
    /\ startPC[c] = "idle"
    /\ status[c] = "new"
    /\ status'     = [status EXCEPT ![c] = "starting"]
    /\ stopCancel' = [stopCancel EXCEPT ![c] = TRUE]
    /\ startDone'  = [startDone EXCEPT ![c] = "open"]
    /\ startPC'    = [startPC EXCEPT ![c] = "spawn"]
    /\ UNCHANGED <<session, tools, startErr, cancelled, monitorPC,
                   osVars, stopVars, callVars>>

\* Start on a child that was stopped before it started.
RejectStart(c) ==
    /\ startPC[c] = "idle"
    /\ status[c] # "new"
    /\ startPC'  = [startPC EXCEPT ![c] = "returned"]
    /\ startErr' = [startErr EXCEPT ![c] = TRUE]
    /\ UNCHANGED <<fields, cancelled, monitorPC, osVars, stopVars, callVars>>

\* client.Connect starts the command ...
Spawn(c) ==
    /\ startPC[c] = "spawn"
    /\ proc'    = [proc EXCEPT ![c] = "alive"]
    /\ startPC' = [startPC EXCEPT ![c] = "handshake"]
    /\ UNCHANGED <<fields, startErr, cancelled, monitorPC, conn, stopVars,
                   callVars>>

\* ... or cannot: cmd.Process is nil and there is nothing to kill.
SpawnFail(c) ==
    /\ startPC[c] = "spawn"
    /\ startPC'  = [startPC EXCEPT ![c] = "finish"]
    /\ startErr' = [startErr EXCEPT ![c] = TRUE]
    /\ UNCHANGED <<fields, cancelled, monitorPC, osVars, stopVars, callVars>>

\* The MCP handshake succeeds; a cancellation may come too late to stop it.
HandshakeOk(c) ==
    /\ startPC[c] = "handshake"
    /\ proc[c] = "alive"
    /\ conn'    = [conn EXCEPT ![c] = "open"]
    /\ startPC' = [startPC EXCEPT ![c] = "publish"]
    /\ UNCHANGED <<fields, startErr, cancelled, monitorPC, proc, stopVars,
                   callVars>>

\* MUTANT: the error path of Connect forgets the process it spawned.
HandshakeFailLeaks(c) ==
    /\ startPC[c] = "handshake"
    /\ startPC'  = [startPC EXCEPT ![c] = "finish"]
    /\ startErr' = [startErr EXCEPT ![c] = TRUE]
    /\ UNCHANGED <<fields, cancelled, monitorPC, osVars, stopVars, callVars>>

\* The handshake fails: refused by the child, cut short by the death of the
\* process, or cancelled.
HandshakeFail(c) ==
    /\ startPC[c] = "handshake"
    /\ startPC'  = [startPC EXCEPT ![c] = "kill"]
    /\ startErr' = [startErr EXCEPT ![c] = TRUE]
    /\ UNCHANGED <<fields, cancelled, monitorPC, osVars, stopVars, callVars>>

\* MUTANT: a failed handshake is followed by cmd.Wait alone.
KillFailedWaits(c) ==
    /\ startPC[c] = "kill"
    /\ proc[c] = "dead"
    /\ startPC' = [startPC EXCEPT ![c] = "finish"]
    /\ UNCHANGED <<fields, startErr, cancelled, monitorPC, osVars, stopVars,
                   callVars>>

\* cmd.Process.Kill and cmd.Wait after a failed handshake.
KillFailed(c) ==
    /\ startPC[c] = "kill"
    /\ proc'    = [proc EXCEPT ![c] = "dead"]
    /\ startPC' = [startPC EXCEPT ![c] = "finish"]
    /\ UNCHANGED <<fields, startErr, cancelled, monitorPC, conn, stopVars,
                   callVars>>

\* Publish session and process for Stop, unless Stop has already been here.
Publish(c) ==
    /\ startPC[c] = "publish"
    /\ IF status[c] = "starting"
         THEN /\ session' = [session EXCEPT ![c] = TRUE]
              /\ startPC' = [startPC EXCEPT ![c] = "discover"]
              /\ UNCHANGED startErr
         ELSE /\ startErr' = [startErr EXCEPT ![c] = TRUE]
              /\ startPC'  = [startPC EXCEPT ![c] = "close"]
              /\ UNCHANGED session
    /\ UNCHANGED <<status, tools, stopCancel, startDone, cancelled, monitorPC,
                   osVars, stopVars, callVars>>

\* discoverTools reads every page of tools/list.
DiscoverOk(c) ==
    /\ startPC[c] = "discover"
    /\ conn[c] = "open"
    /\ startPC' = [startPC EXCEPT ![c] = "commit"]
    /\ UNCHANGED <<fields, startErr, cancelled, monitorPC, osVars, stopVars,
                   callVars>>

DiscoverFail(c) ==
    /\ startPC[c] = "discover"
    /\ startPC'  = [startPC EXCEPT ![c] = "unpublish"]
    /\ startErr' = [startErr EXCEPT ![c] = TRUE]
    /\ UNCHANGED <<fields, cancelled, monitorPC, osVars, stopVars, callVars>>

\* Take the session back if Stop has not taken it, then close it anyway.
Unpublish(c) ==
    /\ startPC[c] = "unpublish"
    /\ session' = [session EXCEPT ![c] = FALSE]
    /\ startPC' = [startPC EXCEPT ![c] = "close"]
    /\ UNCHANGED <<status, tools, stopCancel, startDone, startErr, cancelled,
                   monitorPC, osVars, stopVars, callVars>>

\* session.Close on the error paths of start(): it has no timeout.
CloseInStart(c) ==
    /\ startPC[c] = "close"
    /\ SessionClosed(c)
    /\ startPC' = [startPC EXCEPT ![c] = "finish"]
    /\ UNCHANGED <<fields, startErr, cancelled, monitorPC, stopVars, callVars>>

\* MUTANT: the commit of start() does not look at the status.
CommitBlindly(c) ==
    /\ startPC[c] = "commit"
    /\ tools'     \in {[tools EXCEPT ![c] = ts] : ts \in SUBSET Tools}
    /\ status'    = [status EXCEPT ![c] = "running"]
    /\ monitorPC' = [monitorPC EXCEPT ![c] = "read"]
    /\ startPC'   = [startPC EXCEPT ![c] = "finish"]
    /\ UNCHANGED <<session, stopCancel, startDone, startErr, cancelled,
                   osVars, stopVars, callVars>>

\* MUTANT: nobody monitors a child that started well.
CommitUnmonitored(c) ==
    /\ startPC[c] = "commit"
    /\ IF status[c] = "starting"
         THEN /\ tools'  \in {[tools EXCEPT ![c] = ts] : ts \in SUBSET Tools}
              /\ status' = [status EXCEPT ![c] = "running"]
              /\ UNCHANGED startErr
         ELSE /\ startErr' = [startErr EXCEPT ![c] = TRUE]
              /\ UNCHANGED <<tools, status>>
    /\ startPC' = [startPC EXCEPT ![c] = "finish"]
    /\ UNCHANGED <<session, stopCancel, startDone, cancelled, monitorPC, osVars,
                   stopVars, callVars>>

\* The commit of start(): Starting -> Running, the tools become visible and
\* the monitor starts, unless Stop came in between; then Stop owns the session.
Commit(c) ==
    /\ startPC[c] = "commit"
    /\ IF status[c] = "starting"
         THEN /\ tools'     \in {[tools EXCEPT ![c] = ts] : ts \in SUBSET Tools}
              /\ status'    = [status EXCEPT ![c] = "running"]
              /\ monitorPC' = [monitorPC EXCEPT ![c] = "read"]
              /\ UNCHANGED startErr
         ELSE /\ startErr' = [startErr EXCEPT ![c] = TRUE]
              /\ UNCHANGED <<tools, status, monitorPC>>
    /\ startPC' = [startPC EXCEPT ![c] = "finish"]
    /\ UNCHANGED <<session, stopCancel, startDone, cancelled, osVars,
                   stopVars, callVars>>

\* MUTANT: startDone is closed on the error path only.
FinishForgetsDone(c) ==
    /\ startPC[c] = "finish"
    /\ status' = [status EXCEPT ![c] =
           IF startErr[c] /\ @ = "starting" /\ ~cancelled[c]
             THEN "crashed" ELSE @]
    /\ stopCancel' = [stopCancel EXCEPT ![c] = FALSE]
    /\ startDone'  = [startDone EXCEPT ![c] = IF startErr[c] THEN "closed" ELSE @]
    /\ startPC'    = [startPC EXCEPT ![c] = "returned"]
    /\ cancelled'  = [cancelled EXCEPT ![c] = TRUE]
    /\ UNCHANGED <<session, tools, startErr, monitorPC, osVars, stopVars,
                   callVars>>

\* The last critical section of Start; cancellation is not a crash.  The
\* context is cancelled in any case when Start returns.
Finish(c) ==
    /\ startPC[c] = "finish"
    /\ status' = [status EXCEPT ![c] =
           IF startErr[c] /\ @ = "starting" /\ ~cancelled[c]
             THEN "crashed" ELSE @]
    /\ stopCancel' = [stopCancel EXCEPT ![c] = FALSE]
    /\ startDone'  = [startDone EXCEPT ![c] = "closed"]
    /\ startPC'    = [startPC EXCEPT ![c] = "returned"]
    /\ cancelled'  = [cancelled EXCEPT ![c] = TRUE]
    /\ UNCHANGED <<session, tools, startErr, monitorPC, osVars, stopVars,
                   callVars>>

\* The context the caller passed to Start is cancelled while Start runs.
CallerCancel(c) ==
    /\ startPC[c] \notin {"idle", "returned"}
    /\ cancelled' = [cancelled EXCEPT ![c] = TRUE]
    /\ UNCHANGED <<fields, startPC, startErr, monitorPC, osVars, stopVars,
                   callVars>>

(***************************************************************************)
(* The process and the monitor                                             *)
(***************************************************************************)
ProcExit(c) ==
    /\ proc[c] = "alive"
    /\ proc' = [proc EXCEPT ![c] = "dead"]
    /\ UNCHANGED <<fields, startVars, monitorPC, conn, stopVars, callVars>>

\* The SDK reads the end of file of a dead process.
ConnLost(c) ==
    /\ proc[c] = "dead"
    /\ conn[c] = "open"
    /\ conn' = [conn EXCEPT ![c] = "closed"]
    /\ UNCHANGED <<fields, startVars, monitorPC, proc, stopVars, callVars>>

\* The monitor copies the session; a nil session means Stop was faster.
MonitorRead(c) ==
    /\ monitorPC[c] = "read"
    /\ monitorPC' = [monitorPC EXCEPT ![c] = IF session[c] THEN "wait" ELSE "done"]
    /\ UNCHANGED <<fields, startVars, osVars, stopVars, callVars>>

\* MUTANT: the monitor records a crash whatever the status is.
MonitorWakeBlindly(c) ==
    /\ monitorPC[c] = "wait"
    /\ conn[c] = "closed"
    /\ status'    = [status EXCEPT ![c] = "crashed"]
    /\ monitorPC' = [monitorPC EXCEPT ![c] = "notify"]
    /\ UNCHANGED <<session, tools, stopCancel, startDone, startVars, osVars,
                   stopVars, callVars>>

\* session.Wait has returned: a crash only if nobody stopped the child.
MonitorWake(c) ==
    /\ monitorPC[c] = "wait"
    /\ conn[c] = "closed"
    /\ IF status[c] = "running"
         THEN /\ status'    = [status EXCEPT ![c] = "crashed"]
              /\ monitorPC' = [monitorPC EXCEPT ![c] = "notify"]
         ELSE /\ monitorPC' = [monitorPC EXCEPT ![c] = "done"]
              /\ UNCHANGED status
    /\ UNCHANGED <<session, tools, stopCancel, startDone, startVars, osVars,
                   stopVars, callVars>>

\* c.onCrash() has returned.
Notify(c) ==
    /\ monitorPC[c] = "notify"
    /\ monitorPC' = [monitorPC EXCEPT ![c] = "done"]
    /\ UNCHANGED <<fields, startVars, osVars, stopVars, callVars>>

(***************************************************************************)
(* Stop                                                                    *)
(***************************************************************************)
\* The first critical section of Stop: take the session and the handles of a
\* Start in progress, and mark the child stopped unless it has crashed.
StopBegin(k, c) ==
    /\ stopPC[k] = "idle"
    /\ stopPC'       = [stopPC EXCEPT ![k] = "cancel"]
    /\ stopTarget'   = [stopTarget EXCEPT ![k] = c]
    /\ stopSession'  = [stopSession EXCEPT ![k] = session[c]]
    /\ stopCancelFn' = [stopCancelFn EXCEPT ![k] = stopCancel[c]]
    /\ stopWait'     = [stopWait EXCEPT ![k] = startDone[c] # "nil"]
    /\ session'      = [session EXCEPT ![c] = FALSE]
    /\ stopCancel'   = [stopCancel EXCEPT ![c] = FALSE]
    /\ status'       = [status EXCEPT ![c] = IF @ = "crashed" THEN @ ELSE "stopped"]
    /\ UNCHANGED <<tools, startDone, startVars, monitorPC, osVars, callVars>>

\* MUTANT: Stop does not cancel the Start in progress.
StopCancelForgotten(k) ==
    /\ stopPC[k] = "cancel"
    /\ stopPC' = [stopPC EXCEPT ![k] = "await"]
    /\ UNCHANGED <<fields, startVars, monitorPC, osVars, stopTarget,
                   stopSession, stopCancelFn, stopWait, callVars>>

\* Cancel the context of a Start in progress.
StopCancel(k) ==
    /\ stopPC[k] = "cancel"
    /\ stopPC' = [stopPC EXCEPT ![k] = "await"]
    /\ cancelled' = [cancelled EXCEPT ![stopTarget[k]] = @ \/ stopCancelFn[k]]
    /\ UNCHANGED <<fields, startPC, startErr, monitorPC, osVars, stopTarget,
                   stopSession, stopCancelFn, stopWait, callVars>>

\* MUTANT: Stop does not wait for the Start in progress.
StopAwaitNothing(k) ==
    /\ stopPC[k] = "await"
    /\ stopPC' = [stopPC EXCEPT ![k] = IF stopSession[k] THEN "close" ELSE "reread"]
    /\ UNCHANGED <<fields, startVars, monitorPC, osVars, stopTarget,
                   stopSession, stopCancelFn, stopWait, callVars>>

\* Wait for Start to return: <-startDone.
StopAwait(k) ==
    /\ stopPC[k] = "await"
    /\ stopWait[k] => startDone[stopTarget[k]] = "closed"
    /\ stopPC' = [stopPC EXCEPT ![k] = IF stopSession[k] THEN "close" ELSE "reread"]
    /\ UNCHANGED <<fields, startVars, monitorPC, osVars, stopTarget,
                   stopSession, stopCancelFn, stopWait, callVars>>

\* Stop returns; its locals are gone.
StopReturn(k) ==
    /\ stopPC'       = [stopPC EXCEPT ![k] = "idle"]
    /\ stopTarget'   = [stopTarget EXCEPT ![k] = NoChild]
    /\ stopSession'  = [stopSession EXCEPT ![k] = FALSE]
    /\ stopCancelFn' = [stopCancelFn EXCEPT ![k] = FALSE]
    /\ stopWait'     = [stopWait EXCEPT ![k] = FALSE]

\* No session was there at first: look again, and return if there is none.
StopReread(k) ==
    /\ stopPC[k] = "reread"
    /\ session' = [session EXCEPT ![stopTarget[k]] = FALSE]
    /\ IF session[stopTarget[k]]
         THEN /\ stopPC'      = [stopPC EXCEPT ![k] = "close"]
              /\ stopSession' = [stopSession EXCEPT ![k] = TRUE]
              /\ UNCHANGED <<stopTarget, stopCancelFn, stopWait>>
         ELSE StopReturn(k)
    /\ UNCHANGED <<status, tools, stopCancel, startDone, startVars, monitorPC,
                   osVars, callVars>>

\* session.Close returns, before the timeout or after the kill.
CloseReturns(k) ==
    /\ stopPC[k] \in {"close", "killed"}
    /\ SessionClosed(stopTarget[k])
    /\ StopReturn(k)
    /\ UNCHANGED <<fields, startVars, monitorPC, callVars>>

\* MUTANT: on a timeout Stop waits on without killing the process.
CloseTimeoutNoKill(k) ==
    /\ stopPC[k] = "close"
    /\ stopPC' = [stopPC EXCEPT ![k] = "killed"]
    /\ UNCHANGED <<fields, startVars, monitorPC, osVars, stopTarget,
                   stopSession, stopCancelFn, stopWait, callVars>>

\* stopTimeout has passed: kill the process, then wait for session.Close.
CloseTimeout(k) ==
    /\ stopPC[k] = "close"
    /\ stopPC' = [stopPC EXCEPT ![k] = "killed"]
    /\ proc'   = [proc EXCEPT ![stopTarget[k]] = "dead"]
    /\ UNCHANGED <<fields, startVars, monitorPC, conn, stopTarget,
                   stopSession, stopCancelFn, stopWait, callVars>>

(***************************************************************************)
(* Tool calls                                                              *)
(***************************************************************************)
\* A caller copies the session; from now on it does not look at c.mu again.
GetSession(u, c) ==
    /\ callPC[u] = "idle"
    /\ session[c]
    /\ EarlyCalls \/ status[c] # "starting"
    /\ callPC'     = [callPC EXCEPT ![u] = "got"]
    /\ callTarget' = [callTarget EXCEPT ![u] = c]
    /\ UNCHANGED <<fields, startVars, monitorPC, osVars, stopVars>>

CallIssue(u) ==
    /\ callPC[u] = "got"
    /\ conn[callTarget[u]] = "open"
    /\ ~Closing(callTarget[u])
    /\ callPC' = [callPC EXCEPT ![u] = "calling"]
    /\ UNCHANGED <<fields, startVars, monitorPC, osVars, stopVars, callTarget>>

\* The call ends: refused by a closing or closed session, answered, broken
\* off by the loss of the connection, or cancelled by the client.
CallEnd(u) ==
    /\ callPC'     = [callPC EXCEPT ![u] = "idle"]
    /\ callTarget' = [callTarget EXCEPT ![u] = NoChild]
    /\ UNCHANGED <<fields, startVars, monitorPC, osVars, stopVars>>

CallRefused(u) ==
    /\ callPC[u] = "got"
    /\ conn[callTarget[u]] = "closed" \/ Closing(callTarget[u])
    /\ CallEnd(u)

CallAnswered(u) ==
    /\ callPC[u] = "calling"
    /\ CallEnd(u)

CallBroken(u) ==
    /\ callPC[u] = "calling"
    /\ conn[callTarget[u]] = "closed"
    /\ CallEnd(u)

(***************************************************************************)
(* The specification                                                       *)
(***************************************************************************)
StartStep(c) ==
    \/ Spawn(c) \/ SpawnFail(c)
    \/ HandshakeOk(c) \/ HandshakeFail(c) \/ KillFailed(c)
    \/ Publish(c)
    \/ DiscoverOk(c) \/ DiscoverFail(c) \/ Unpublish(c) \/ CloseInStart(c)
    \/ Commit(c) \/ Finish(c)

MonitorStep(c) == MonitorRead(c) \/ MonitorWake(c) \/ Notify(c)

EnvironmentStep(c) == ProcExit(c) \/ ConnLost(c) \/ CallerCancel(c)

StopStep(k) ==
    \/ StopCancel(k) \/ StopAwait(k) \/ StopReread(k)
    \/ CloseReturns(k) \/ CloseTimeout(k)

CallStep(u) ==
    \/ CallIssue(u) \/ CallRefused(u) \/ CallAnswered(u) \/ CallBroken(u)

ChildNext ==
    \/ \E c \in Children :
          \/ BeginStart(c) \/ RejectStart(c)
          \/ StartStep(c) \/ MonitorStep(c) \/ EnvironmentStep(c)
    \/ \E k \in Stoppers : StopStep(k) \/ \E c \in Children : StopBegin(k, c)
    \/ \E u \in Callers : CallStep(u) \/ \E c \in Children : GetSession(u, c)

ChildSpec == ChildInit /\ [][ChildNext]_childVars

(***************************************************************************)
(* Fairness.  Goroutines that can run do run.  The child program promises  *)
(* nothing: it may never answer the handshake, tools/list or a call, so    *)
(* those calls are only sure to return once their context is cancelled or  *)
(* the process is dead.  Nobody is obliged to call Start, Stop or a tool,  *)
(* and nothing is assumed of the crash callback.                           *)
(***************************************************************************)
HandshakeAborted(c) == (cancelled[c] \/ proc[c] = "dead") /\ HandshakeFail(c)
DiscoverAborted(c)  == (cancelled[c] \/ conn[c] = "closed") /\ DiscoverFail(c)

StartFairness(c) ==
    /\ WF_childVars(Spawn(c) \/ SpawnFail(c))
    /\ WF_childVars(HandshakeAborted(c))
    /\ WF_childVars(DiscoverAborted(c))
    /\ WF_childVars(KillFailed(c) \/ Publish(c) \/ Unpublish(c)
                    \/ CloseInStart(c) \/ Commit(c) \/ Finish(c))

StopFairness(k) ==
    /\ WF_childVars(StopCancel(k) \/ StopAwait(k) \/ StopReread(k))
    /\ WF_childVars(CloseTimeout(k))
    /\ WF_childVars(CloseReturns(k))

CallFairness(u) ==
    /\ WF_childVars(CallIssue(u) \/ CallRefused(u))
    /\ WF_childVars(CallBroken(u))

ChildFairness ==
    /\ \A c \in Children : StartFairness(c) /\ WF_childVars(ConnLost(c))
    /\ \A c \in Children : WF_childVars(MonitorRead(c) \/ MonitorWake(c))
    /\ \A k \in Stoppers : StopFairness(k)
    /\ \A u \in Callers : CallFairness(u)

FairChildSpec == ChildSpec /\ ChildFairness

(***************************************************************************)
(* Properties                                                              *)
(***************************************************************************)
\* The types of the variables; an idle goroutine has no target.
TypeOK ==
    /\ status     \in [Children -> Statuses]
    /\ session    \in [Children -> BOOLEAN]
    /\ tools      \in [Children -> SUBSET Tools]
    /\ stopCancel \in [Children -> BOOLEAN]
    /\ startDone  \in [Children -> {"nil", "open", "closed"}]
    /\ startPC    \in [Children -> StartPoints]
    /\ startErr   \in [Children -> BOOLEAN]
    /\ cancelled  \in [Children -> BOOLEAN]
    /\ monitorPC  \in [Children -> {"none", "read", "wait", "notify", "done"}]
    /\ proc       \in [Children -> {"none", "alive", "dead"}]
    /\ conn       \in [Children -> {"none", "open", "closed"}]
    /\ stopPC \in [Stoppers -> {"idle", "cancel", "await", "reread", "close", "killed"}]
    /\ stopTarget   \in [Stoppers -> Children \cup {NoChild}]
    /\ stopSession  \in [Stoppers -> BOOLEAN]
    /\ stopCancelFn \in [Stoppers -> BOOLEAN]
    /\ stopWait     \in [Stoppers -> BOOLEAN]
    /\ callPC       \in [Callers -> {"idle", "got", "calling"}]
    /\ callTarget   \in [Callers -> Children \cup {NoChild}]
    /\ \A k \in Stoppers : stopPC[k] = "idle" <=> stopTarget[k] = NoChild
    /\ \A u \in Callers : callPC[u] = "idle" <=> callTarget[u] = NoChild

StartActive(c) == startPC[c] \notin {"idle", "returned"}

\* Stopper k is inside Stop of child c and took its session.
Holds(k, c) == Stopping(k, c) /\ stopSession[k]

Owned(c) == proc[c] = "alive" =>
    \/ startPC[c] \in {"handshake", "kill", "publish", "close"}
    \/ session[c]
    \/ \E k \in Stoppers : Holds(k, c)

\* A live process is always in somebody's hands: the goroutine that is
\* starting it, the Child (so a later Stop finds it) or a Stop that took it.
\* Whatever way Start and Stop interleave, no process is forgotten
\* (child.go:161-185, 275-283).
OwnedProcess == \A c \in Children : Owned(c)

\* When the Stop calls of a child have returned, its process is gone, even if
\* they raced with Start or with each other (child.go:249-252).
StoppedIsDead == \A c \in Children :
    (status[c] = "stopped" /\ \A k \in Stoppers : ~Stopping(k, c))
        => proc[c] # "alive"

\* When Start returns an error, its process is gone, or a Stop is at hand
\* that will end it (child.go:152-157, 163-167, 175-184, 187-191).
FailedStartIsDead == \A c \in Children :
    (startPC[c] = "returned" /\ startErr[c] /\ proc[c] = "alive")
        => \E k \in Stoppers : Holds(k, c)

\* A child reported as crashed has no live process (child.go:120-122, 230-236).
CrashedIsDead == \A c \in Children : status[c] = "crashed" => proc[c] # "alive"

\* A running child can be called and stopped: it has a session, and its Start
\* is past every error (child.go:163-195).
RunningHasSession == \A c \in Children : status[c] = "running" =>
    session[c] /\ ~startErr[c] /\ startPC[c] \in {"finish", "returned"}

\* The second look of Stop at the session never finds one: start() does not
\* publish a session once the status is Stopped (child.go:275-283).
RereadFindsNothing == \A k \in Stoppers :
    stopPC[k] = "reread" => ~session[stopTarget[k]]

\* Two goroutines never are in session.Close of one child at a time, neither
\* two Stops nor a Stop and the error path of start() (child.go:166, 183, 291).
CloseIsExclusive == \A c \in Children :
    LET closers == {k \in Stoppers : Stopping(k, c) /\ stopPC[k] \in {"close", "killed"}}
    IN  /\ \A k1, k2 \in closers : k1 = k2
        /\ startPC[c] = "close" => closers = {}

\* The status only moves forward: New -> Starting -> Running -> Stopped or
\* Crashed, and Stopped and Crashed are final (child.go:39-48, mcpmux/README.md:95).
StatusFlow == [][\A c \in Children :
    status'[c] # status[c] => <<status[c], status'[c]>> \in
        { <<"new", "starting">>, <<"new", "stopped">>,
          <<"starting", "running">>, <<"starting", "stopped">>,
          <<"starting", "crashed">>,
          <<"running", "stopped">>, <<"running", "crashed">> }]_childVars

\* Stop returns: a Start in progress is cancelled, and a close that hangs on
\* calls in flight is ended by killing the process (child.go:249-252).
StopReturns == \A k \in Stoppers : stopPC[k] # "idle" ~> stopPC[k] = "idle"

\* The death of a running child's process is noticed (child.go:221-243).
CrashDetected == \A c \in Children :
    (status[c] = "running" /\ proc[c] = "dead") ~> status[c] # "running"

\* A cancelled Start returns, whatever the child program does (child.go:107-131).
CancelledStartReturns == \A c \in Children :
    (StartActive(c) /\ cancelled[c]) ~> startPC[c] = "returned"

(***************************************************************************)
(* The inductive invariant                                                 *)
(***************************************************************************)
\* How far Start has come fixes what it has made so far.
StartShape(c) ==
    /\ status[c] = "new" => startPC[c] = "idle"
    /\ startPC[c] = "idle" =>
          /\ status[c] \in {"new", "stopped"}
          /\ proc[c] = "none" /\ conn[c] = "none" /\ startDone[c] = "nil"
          /\ monitorPC[c] = "none"
    /\ startPC[c] = "spawn" => proc[c] = "none"
    /\ startPC[c] \in {"handshake", "kill"} => proc[c] # "none"
    /\ startPC[c] \in {"spawn", "handshake", "kill"} => conn[c] = "none"
    /\ startPC[c] \in {"publish", "discover", "commit", "unpublish", "close"}
          => conn[c] # "none"
    /\ StartActive(c) <=> startDone[c] = "open"
    /\ startPC[c] \in {"kill", "unpublish", "close"} => startErr[c]
    /\ startPC[c] \in {"idle", "spawn", "handshake", "publish", "discover", "commit"}
          => ~startErr[c]
    /\ (StartActive(c) /\ startPC[c] # "finish") => status[c] \in {"starting", "stopped"}
    /\ startPC[c] = "finish" =>
          status[c] \in IF startErr[c] THEN {"starting", "stopped"}
                                      ELSE {"running", "stopped", "crashed"}
    /\ (startPC[c] = "finish" /\ status[c] = "starting") => proc[c] # "alive"
    /\ (startPC[c] = "returned" /\ status[c] = "starting") => startErr[c]

\* Where the session is published, and that it is once the child runs.
SessionShape(c) ==
    /\ session[c] =>
          /\ conn[c] # "none"
          /\ status[c] \in {"starting", "running", "crashed"}
          /\ startPC[c] \in {"discover", "commit", "unpublish", "finish", "returned"}
          /\ startPC[c] \in {"finish", "returned"} => ~startErr[c]
    /\ (status[c] = "starting" /\ startPC[c] \in {"discover", "commit", "unpublish"})
          => session[c]
    /\ status[c] = "running" =>
          session[c] /\ ~startErr[c] /\ startPC[c] \in {"finish", "returned"}

\* What the process and the connection say about each other and the status.
ProcShape(c) ==
    /\ conn[c] = "closed" => proc[c] = "dead"
    /\ conn[c] # "none" => proc[c] # "none"
    /\ status[c] = "crashed" => proc[c] # "alive"
    /\ monitorPC[c] = "notify" => status[c] = "crashed"

\* What a Stop in progress knows of its child.
StopShape(k, c) == Stopping(k, c) =>
    /\ status[c] \in {"stopped", "crashed"}
    /\ ~session[c]
    /\ ~stopWait[k] => startDone[c] = "nil"
    /\ stopPC[k] \in {"reread", "close", "killed"} => startDone[c] # "open"
    /\ stopPC[k] \in {"close", "killed"} => stopSession[k]
    /\ stopPC[k] = "reread" => ~stopSession[k]
    /\ stopSession[k] => conn[c] # "none"

\* Two Stops never hold the same session.
OneHolder(c) == \A k1, k2 \in Stoppers : Holds(k1, c) /\ Holds(k2, c) => k1 = k2

\* Start outlives the decision to stop only while that Stop waits for it.
StopAwaitsStart(c) == (status[c] = "stopped" /\ StartActive(c)) =>
    \E k \in Stoppers : Stopping(k, c) /\ stopPC[k] \in {"cancel", "await"}

\* The strengthening of the safety invariants that every step preserves.
IInv ==
    /\ TypeOK
    /\ \A c \in Children :
          /\ StartShape(c) /\ SessionShape(c) /\ ProcShape(c)
          /\ OneHolder(c) /\ StopAwaitsStart(c)
    /\ \A k \in Stoppers : \A c \in Children : StopShape(k, c)
    /\ OwnedProcess
(***************************************************************************)
(* The child implements ChildLifecycle                                     *)
(***************************************************************************)
Working(c) == StartActive(c) \/ \E k \in Stoppers : Stopping(k, c)

Lifecycle == INSTANCE ChildLifecycle WITH
    life <- proc, working <- [c \in Children |-> Working(c)]

\* To whoever looks at it from outside a child has the life it is documented
\* to have, whatever its Start, its Stops, its monitor and its process do at
\* the same time: the status only moves forward, a crash is reported of a dead
\* process only, and when neither a Start nor a Stop is under way a process is
\* alive only if the child is running (child.go:39-48, 249-252,
\* mcpmux/README.md:95).
ImplementsLifecycle == Lifecycle!LifecycleSpec
=============================================================================
