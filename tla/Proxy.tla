------------------------------- MODULE Proxy -------------------------------
(***************************************************************************)
(* The mcpmux proxy (src/mcpmux/internal/mcpmux/proxy.go): the handlers of *)
(* add_server, remove_server, reload_server, list_servers and of a proxied *)
(* tool call, the crash callback, and Shutdown, over the children of       *)
(* module Child.  The MCP server runs every request in a goroutine of its  *)
(* own, so handlers interleave at every point where p.mu is not held.      *)
(*                                                                         *)
(* A request is used once.  The Child object an add or a reload creates is *)
(* named by the request that creates it, and so is the configuration an    *)
(* add brings.                                                             *)
(*                                                                         *)
(* External: mcp.Server dispatches a tool call only to a registered tool,  *)
(* AddTool and RemoveTools are atomic, and Server.Run returns after the    *)
(* handlers it started have returned.                                      *)
(***************************************************************************)
EXTENDS Child, FiniteSets, Naturals

CONSTANTS
    Requests,     \* requests a client may send
    Names,        \* server names that pass ValidateServerName
    NoName,
    Ops,          \* the operations the client of this instance uses
    Main,         \* the main goroutine, which runs Shutdown
    MaxInFlight,  \* requests a client has in flight at a time
    MaxCreators,  \* requests that may create a child (add and reload)
    OnePerServer  \* the client waits for the answer of a remove or a reload
                  \* before it sends another change of the same server, and of
                  \* its adds before it sends a remove or a reload

ASSUME ProxyAssumption ==
    /\ Children = Requests /\ Callers = Requests
    /\ Stoppers = Requests \cup {Main} /\ Main \notin Requests
    /\ NoName \notin Names
    /\ Ops \subseteq {"add", "remove", "reload", "list", "call"}
    /\ MaxInFlight \in Nat \ {0} /\ MaxCreators \in Nat \ {0}
    /\ OnePerServer \in BOOLEAN

VARIABLES
    children,    \* p.children: Names -> child or NoChild
    registered,  \* <<name, tool>> pairs known to the MCP server
    op, name,    \* the request: operation and server name
    hpc,         \* control point of the handler
    target,      \* the child a handler works on
    cfg,         \* whose configuration the handler's child gets
    todo,        \* what is left of a loop: tools to register, children to list
    reply,       \* none, ok or error
    crashSaw,    \* children whose handleCrash found current == crashed
    phase,       \* serving, stopping (Shutdown) or down
    toStop       \* children Shutdown has yet to stop

handlerVars == <<op, name, hpc, target, cfg, todo, reply>>
proxyVars   == <<children, registered, handlerVars, crashSaw, phase, toStop>>
vars        == <<childVars, proxyVars>>

Init ==
    /\ ChildInit
    /\ children   = [n \in Names |-> NoChild]
    /\ registered = {}
    /\ op     = [r \in Requests |-> "none"]
    /\ name   = [r \in Requests |-> NoName]
    /\ hpc    = [r \in Requests |-> "idle"]
    /\ target = [r \in Requests |-> NoChild]
    /\ cfg    = [r \in Requests |-> NoChild]
    /\ todo   = [r \in Requests |-> {}]
    /\ reply  = [r \in Requests |-> "none"]
    /\ crashSaw = {}
    /\ phase  = "serving"
    /\ toStop = {}

Goto(r, pc) == hpc' = [hpc EXCEPT ![r] = pc]

\* The handler returns its result.
Reply(r, result) == Goto(r, "done") /\ reply' = [reply EXCEPT ![r] = result]

InHandler(r) == hpc[r] \notin {"idle", "done"}

\* handleListServers holds p.mu for reading until it returns; the other
\* critical sections of p.mu are single steps.
Listing == \E r \in Requests : hpc[r] \in {"status", "detail"}

\* A critical section that writes p.children.
SetChild(n, c) == ~Listing /\ children' = [children EXCEPT ![n] = c]

\* removeToolsForChild: c.tools is written once, by the commit of start().
RemoveToolsForChild(c) == registered' = registered \ ({name[c]} \X tools[c])

FirstPoint == [add |-> "insert", remove |-> "take", reload |-> "config",
               list |-> "list", call |-> "lookup"]

Creating == {"add", "reload"}

\* The handler of an add, a remove or a reload is under way.
Changing(r) ==
    InHandler(r) /\ hpc[r] \notin {"list", "status", "detail", "lookup", "session", "call"}

\* Changes of a server that a client sends one after the other: any but adds.
Exclusive(o1, o2) == o1 \in {"add", "remove", "reload"} /\ {o1, o2} # {"add"}

\* The server dispatches a request; a tool call only to a registered tool.  An
\* add of an invalid name, which is refused before anything changes, is left
\* out: Names are the valid ones.
Arrive(r, o, n) ==
    /\ phase = "serving"
    /\ hpc[r] = "idle"
    /\ Cardinality({q \in Requests : InHandler(q)}) < MaxInFlight
    /\ OnePerServer => \A q \in Requests :
          ~(Changing(q) /\ name[q] = n /\ Exclusive(o, op[q]))
    /\ o \in Creating => Cardinality({q \in Requests : op[q] \in Creating}) < MaxCreators
    /\ o = "call" => \E t \in Tools : <<n, t>> \in registered
    /\ op'   = [op EXCEPT ![r] = o]
    /\ name' = [name EXCEPT ![r] = n]
    /\ cfg'  = [cfg EXCEPT ![r] = IF o = "add" THEN r ELSE NoChild]
    /\ Goto(r, FirstPoint[o])
    /\ UNCHANGED <<childVars, children, registered, target, todo, reply,
                   crashSaw, phase, toStop>>

(***************************************************************************)
(* add_server                                                              *)
(***************************************************************************)
\* MUTANT: the name may be taken already.
AddInsertBlindly(r) ==
    /\ hpc[r] = "insert"
    /\ ~Listing
    /\ SetChild(name[r], r) /\ Goto(r, "start")
    /\ UNCHANGED <<childVars, registered, op, name, target, cfg, todo, reply,
                   crashSaw, phase, toStop>>

\* Put a new child into the map, unless the name is taken.
AddInsert(r) ==
    /\ hpc[r] = "insert"
    /\ ~Listing
    /\ IF children[name[r]] # NoChild
         THEN Reply(r, "error") /\ UNCHANGED children
         ELSE SetChild(name[r], r) /\ Goto(r, "start") /\ UNCHANGED reply
    /\ UNCHANGED <<childVars, registered, op, name, target, cfg, todo,
                   crashSaw, phase, toStop>>

\* Call child.Start, which may find the child stopped already.
AddStart(r) ==
    /\ hpc[r] = "start"
    /\ BeginStart(r) \/ RejectStart(r)
    /\ Goto(r, "starting")
    /\ UNCHANGED <<children, registered, op, name, target, cfg, todo, reply,
                   crashSaw, phase, toStop>>

\* child.Start has returned; on an error the name is deleted from the map,
\* whatever child it maps to by now.
AddStarted(r) ==
    /\ hpc[r] = "starting"
    /\ startPC[r] = "returned"
    /\ IF startErr[r]
         THEN SetChild(name[r], NoChild) /\ Reply(r, "error")
         ELSE Goto(r, "check") /\ UNCHANGED <<children, reply>>
    /\ UNCHANGED <<childVars, registered, op, name, target, cfg, todo,
                   crashSaw, phase, toStop>>

\* The child may have crashed, or been stopped, since Start returned.
AddCheck(r) ==
    /\ hpc[r] = "check"
    /\ IF status[r] = "running"
         THEN todo' = [todo EXCEPT ![r] = tools[r]] /\ Goto(r, "register")
         ELSE Goto(r, "drop") /\ UNCHANGED todo
    /\ UNCHANGED <<childVars, children, registered, op, name, target, cfg,
                   reply, crashSaw, phase, toStop>>

AddDrop(r) ==
    /\ hpc[r] = "drop"
    /\ SetChild(name[r], NoChild)
    /\ Reply(r, "error")
    /\ UNCHANGED <<childVars, registered, op, name, target, cfg, todo,
                   crashSaw, phase, toStop>>

\* The registration loop, one server.AddTool at a time.
RegisterTool(r) ==
    /\ hpc[r] = "register"
    /\ IF todo[r] # {}
         THEN \E t \in todo[r] :
                 /\ registered' = registered \cup {<<name[r], t>>}
                 /\ todo' = [todo EXCEPT ![r] = @ \ {t}]
                 /\ UNCHANGED <<hpc, reply>>
         ELSE Reply(r, "ok") /\ UNCHANGED <<registered, todo>>
    /\ UNCHANGED <<childVars, children, op, name, target, cfg, crashSaw,
                   phase, toStop>>

(***************************************************************************)
(* remove_server and reload_server                                         *)
(***************************************************************************)
\* MUTANT: the configuration is the one that reload_server came with.
ReloadConfigLost(r) ==
    /\ hpc[r] = "config"
    /\ IF children[name[r]] = NoChild
         THEN Reply(r, "error") /\ UNCHANGED cfg
         ELSE /\ cfg' = [cfg EXCEPT ![r] = r]
              /\ Goto(r, "take") /\ UNCHANGED reply
    /\ UNCHANGED <<childVars, children, registered, op, name, target, todo,
                   crashSaw, phase, toStop>>

\* reload_server reads the configuration of the child it is going to replace.
ReloadConfig(r) ==
    /\ hpc[r] = "config"
    /\ LET old == children[name[r]] IN
         IF old = NoChild
           THEN Reply(r, "error") /\ UNCHANGED cfg
           ELSE /\ cfg' = [cfg EXCEPT ![r] = cfg[old]]
                /\ Goto(r, "take") /\ UNCHANGED reply
    /\ UNCHANGED <<childVars, children, registered, op, name, target, todo,
                   crashSaw, phase, toStop>>

\* MUTANT: the child is looked up but stays in the map.
RemoveTakeKeeps(r) ==
    /\ hpc[r] = "take"
    /\ ~Listing
    /\ IF children[name[r]] = NoChild
         THEN Reply(r, "error") /\ UNCHANGED target
         ELSE /\ target' = [target EXCEPT ![r] = children[name[r]]]
              /\ Goto(r, "untool") /\ UNCHANGED reply
    /\ UNCHANGED <<childVars, children, registered, op, name, cfg, todo,
                   crashSaw, phase, toStop>>

\* Take the child out of the map: from now on it is this handler's to stop.
RemoveTake(r) ==
    /\ hpc[r] = "take"
    /\ ~Listing
    /\ IF children[name[r]] = NoChild
         THEN Reply(r, "error") /\ UNCHANGED <<children, target>>
         ELSE /\ target' = [target EXCEPT ![r] = children[name[r]]]
              /\ SetChild(name[r], NoChild)
              /\ Goto(r, "untool") /\ UNCHANGED reply
    /\ UNCHANGED <<childVars, registered, op, name, cfg, todo, crashSaw,
                   phase, toStop>>

\* MUTANT: the tools of the removed child stay registered.
RemoveToolsForgotten(r) ==
    /\ hpc[r] = "untool"
    /\ Goto(r, "stop")
    /\ UNCHANGED <<childVars, children, registered, op, name, target, cfg,
                   todo, reply, crashSaw, phase, toStop>>

RemoveTools(r) ==
    /\ hpc[r] = "untool"
    /\ RemoveToolsForChild(target[r])
    /\ Goto(r, "stop")
    /\ UNCHANGED <<childVars, children, op, name, target, cfg, todo, reply,
                   crashSaw, phase, toStop>>

RemoveStop(r) ==
    /\ hpc[r] = "stop"
    /\ StopBegin(r, target[r])
    /\ Goto(r, "stopping")
    /\ UNCHANGED <<children, registered, op, name, target, cfg, todo, reply,
                   crashSaw, phase, toStop>>

\* MUTANT: the handler does not wait for child.Stop to return.
RemovedEarly(r) ==
    /\ hpc[r] = "stopping"
    /\ IF op[r] = "reload" THEN Goto(r, "insert") /\ UNCHANGED reply
                           ELSE Reply(r, "ok")
    /\ UNCHANGED <<childVars, children, registered, op, name, target, cfg,
                   todo, crashSaw, phase, toStop>>

\* child.Stop has returned; reload_server goes on to add_server.
Removed(r) ==
    /\ hpc[r] = "stopping"
    /\ stopPC[r] = "idle"
    /\ IF op[r] = "reload" THEN Goto(r, "insert") /\ UNCHANGED reply
                           ELSE Reply(r, "ok")
    /\ UNCHANGED <<childVars, children, registered, op, name, target, cfg,
                   todo, crashSaw, phase, toStop>>

(***************************************************************************)
(* list_servers: under p.mu.RLock, child by child                          *)
(***************************************************************************)
\* Take the read lock; the loop visits the children in any order.
ListBegin(r) ==
    /\ hpc[r] = "list"
    /\ todo' = [todo EXCEPT ![r] = {children[n] : n \in Names} \ {NoChild}]
    /\ Goto(r, "status")
    /\ UNCHANGED <<childVars, children, registered, op, name, target, cfg,
                   reply, crashSaw, phase, toStop>>

\* child.Status() and child.Tools(), or the end of the loop.
ListStatus(r) ==
    /\ hpc[r] = "status"
    /\ IF todo[r] = {}
         THEN Reply(r, "ok") /\ UNCHANGED target
         ELSE /\ \E c \in todo[r] : target' = [target EXCEPT ![r] = c]
              /\ Goto(r, "detail") /\ UNCHANGED reply
    /\ UNCHANGED <<childVars, children, registered, op, name, cfg, todo,
                   crashSaw, phase, toStop>>

\* child.StartTime (read without child.mu), child.Status() once more and
\* child.PID().
ListDetail(r) ==
    /\ hpc[r] = "detail"
    /\ todo'   = [todo EXCEPT ![r] = @ \ {target[r]}]
    /\ target' = [target EXCEPT ![r] = NoChild]
    /\ Goto(r, "status")
    /\ UNCHANGED <<childVars, children, registered, op, name, cfg, reply,
                   crashSaw, phase, toStop>>

(***************************************************************************)
(* A proxied tool call                                                     *)
(***************************************************************************)
CallLookup(r) ==
    /\ hpc[r] = "lookup"
    /\ IF children[name[r]] = NoChild
         THEN Reply(r, "error") /\ UNCHANGED target
         ELSE /\ target' = [target EXCEPT ![r] = children[name[r]]]
              /\ Goto(r, "session") /\ UNCHANGED reply
    /\ UNCHANGED <<childVars, children, registered, op, name, cfg, todo,
                   crashSaw, phase, toStop>>

\* child.Session(): nil when the child is not connected.
CallSession(r) ==
    /\ hpc[r] = "session"
    /\ IF session[target[r]]
         THEN GetSession(r, target[r]) /\ Goto(r, "call") /\ UNCHANGED reply
         ELSE Reply(r, "error") /\ UNCHANGED childVars
    /\ UNCHANGED <<children, registered, op, name, target, cfg, todo,
                   crashSaw, phase, toStop>>

\* session.CallTool returns with an answer, or because the client gave up.
CallDone(r) ==
    /\ hpc[r] = "call"
    /\ CallAnswered(r)
    /\ Reply(r, "ok") \/ Reply(r, "error")
    /\ UNCHANGED <<children, registered, op, name, target, cfg, todo,
                   crashSaw, phase, toStop>>

\* MUTANT: a failed call is tried again.
CallFailedRetries(r) ==
    /\ hpc[r] = "call"
    /\ CallRefused(r) \/ CallBroken(r)
    /\ Goto(r, "session")
    /\ UNCHANGED <<children, registered, op, name, target, cfg, todo, reply,
                   crashSaw, phase, toStop>>

\* session.CallTool fails: the session is closing or the child is dead.
CallFailed(r) ==
    /\ hpc[r] = "call"
    /\ CallRefused(r) \/ CallBroken(r)
    /\ Reply(r, "error")
    /\ UNCHANGED <<children, registered, op, name, target, cfg, todo,
                   crashSaw, phase, toStop>>

(***************************************************************************)
(* The crash callback, in the monitor goroutine of the child               *)
(***************************************************************************)
\* handleCrash: is the crashed child still the one in the map?
CrashLookup(c) ==
    /\ monitorPC[c] = "notify"
    /\ c \notin crashSaw
    /\ IF children[name[c]] = c
         THEN crashSaw' = crashSaw \cup {c} /\ UNCHANGED childVars
         ELSE Notify(c) /\ UNCHANGED crashSaw
    /\ UNCHANGED <<children, registered, handlerVars, phase, toStop>>

\* MUTANT: the callback removes no tools.
CrashRemoveForgets(c) ==
    /\ c \in crashSaw
    /\ Notify(c)
    /\ crashSaw' = crashSaw \ {c}
    /\ UNCHANGED <<children, registered, handlerVars, phase, toStop>>

\* Remove its tools, by then perhaps those of its successor.
CrashRemove(c) ==
    /\ c \in crashSaw
    /\ RemoveToolsForChild(c)
    /\ Notify(c)
    /\ crashSaw' = crashSaw \ {c}
    /\ UNCHANGED <<children, handlerVars, phase, toStop>>

(***************************************************************************)
(* Shutdown, called by main after Server.Run has returned                  *)
(***************************************************************************)
Shutdown ==
    /\ phase = "serving"
    /\ \A r \in Requests : ~InHandler(r)
    /\ phase'    = "stopping"
    /\ toStop'   = {children[n] : n \in Names} \ {NoChild}
    /\ children' = [n \in Names |-> NoChild]
    /\ UNCHANGED <<childVars, registered, handlerVars, crashSaw>>

ShutdownStop ==
    /\ phase = "stopping"
    /\ \E c \in toStop : StopBegin(Main, c) /\ toStop' = toStop \ {c}
    /\ UNCHANGED <<children, registered, handlerVars, crashSaw, phase>>

\* MUTANT: main exits while the last child is being stopped.
ShutdownDoneEarly ==
    /\ phase = "stopping"
    /\ toStop = {}
    /\ phase' = "down"
    /\ UNCHANGED <<childVars, children, registered, handlerVars, crashSaw, toStop>>

ShutdownDone ==
    /\ phase = "stopping"
    /\ toStop = {} /\ stopPC[Main] = "idle"
    /\ phase' = "down"
    /\ UNCHANGED <<childVars, children, registered, handlerVars, crashSaw, toStop>>

(***************************************************************************)
(* The specification                                                       *)
(***************************************************************************)
AddStep(r) ==
    \/ AddInsert(r) \/ AddStart(r) \/ AddStarted(r) \/ AddCheck(r) \/ AddDrop(r)
    \/ RegisterTool(r)

RemoveStep(r) ==
    ReloadConfig(r) \/ RemoveTake(r) \/ RemoveTools(r) \/ RemoveStop(r) \/ Removed(r)

ListStep(r) == ListBegin(r) \/ ListStatus(r) \/ ListDetail(r)

ToolCallStep(r) == CallLookup(r) \/ CallSession(r) \/ CallFailed(r)

CrashStep(c) == CrashLookup(c) \/ CrashRemove(c)

ShutdownStep == Shutdown \/ ShutdownStop \/ ShutdownDone

\* A step of a child that changes nothing in the proxy.
ChildStep ==
    /\ \/ \E c \in Children : StartStep(c) \/ MonitorRead(c) \/ MonitorWake(c)
                              \/ EnvironmentStep(c)
       \/ \E k \in Stoppers : StopStep(k)
       \/ \E u \in Callers : CallIssue(u)
    /\ UNCHANGED proxyVars

\* The program has ended.
Finished == phase = "down" /\ UNCHANGED vars

Next ==
    \/ \E r \in Requests :
          \/ \E o \in Ops, n \in Names : Arrive(r, o, n)
          \/ AddStep(r) \/ RemoveStep(r) \/ ListStep(r) \/ ToolCallStep(r)
          \/ CallDone(r) \/ CrashStep(r)
    \/ ShutdownStep
    \/ ChildStep
    \/ Finished

Spec == Init /\ [][Next]_vars

\* Handlers, callbacks and main run when they can; a client need not send,
\* and a child need not answer a call.
Fairness ==
    /\ ChildFairness
    /\ \A r \in Requests :
          /\ WF_vars(AddStep(r) \/ RemoveStep(r) \/ ListStep(r) \/ ToolCallStep(r))
          /\ WF_vars(CrashStep(r))
    /\ WF_vars(ShutdownStop \/ ShutdownDone)

FairSpec == Spec /\ Fairness

(***************************************************************************)
(* Properties of every interleaving                                        *)
(***************************************************************************)
HandlerPoints == {"idle", "insert", "start", "starting", "check", "drop",
                  "register", "config", "take", "untool", "stop", "stopping",
                  "list", "status", "detail", "lookup", "session",
                  "call", "done"}

\* The types of the proxy's variables.
ProxyTypeOK ==
    /\ children   \in [Names -> Requests \cup {NoChild}]
    /\ registered \subseteq Names \X Tools
    /\ op     \in [Requests -> Ops \cup {"none"}]
    /\ name   \in [Requests -> Names \cup {NoName}]
    /\ hpc    \in [Requests -> HandlerPoints]
    /\ target \in [Requests -> Requests \cup {NoChild}]
    /\ cfg    \in [Requests -> Requests \cup {NoChild}]
    /\ todo   \in [Requests -> SUBSET (Tools \cup Requests)]
    /\ reply  \in [Requests -> {"none", "ok", "error"}]
    /\ crashSaw \subseteq Requests
    /\ phase  \in {"serving", "stopping", "down"}
    /\ toStop \subseteq Requests

Removing(r, c) == target[r] = c /\ hpc[r] \in {"untool", "stop", "stopping"}

\* When remove_server answers, or reload_server goes on to start the new
\* child, the process of the old one is gone, whatever else is in flight
\* (proxy.go:180-195, 208-214).
RemovedIsDead == \A r \in Requests :
    (op[r] \in {"remove", "reload"} /\ target[r] # NoChild /\ ~Removing(r, target[r]))
        => proc[target[r]] # "alive"

\* An add_server or reload_server that failed leaves no process behind, except
\* to a remove_server that is still busy with it (proxy.go:138-152).
FailedAddIsDead == \A r \in Requests :
    (reply[r] = "error" /\ proc[r] = "alive") => \E k \in Stoppers : Stopping(k, r)

\* Taking a child out of the map is what gives the right to stop it: no child
\* has two goroutines in Stop, and none in the map is being stopped or has
\* been (proxy.go:60-73, 180-195).
StopIsClaimed ==
    /\ \A c \in Children : \A k1, k2 \in Stoppers :
          Stopping(k1, c) /\ Stopping(k2, c) => k1 = k2
    /\ \A n \in Names : children[n] # NoChild =>
          /\ status[children[n]] # "stopped"
          /\ \A k \in Stoppers : ~Stopping(k, children[n])
          /\ \A r \in Requests : ~Removing(r, children[n])

\* The children list_servers goes through stay in the map until it is done:
\* the read lock keeps every writer out (proxy.go:233-262).
ListedStayMapped == \A r \in Requests : hpc[r] \in {"status", "detail"} =>
    todo[r] \subseteq {children[n] : n \in Names}

(***************************************************************************)
(* Properties that need a client whose removes and reloads of a server     *)
(* overlap with no other change of it (OnePerServer)                       *)
(***************************************************************************)
\* The child whose tools the tools of server n are.
Shows(n, c) ==
    children[n] = c \/ \E r \in Requests : hpc[r] = "untool" /\ target[r] = c /\ name[r] = n

Quiescent == \A r \in Requests : ~InHandler(r) /\ monitorPC[r] # "notify"

\* No process outlives the proxy (SPEC.md:150, main.go:30-42).
NoOrphan == phase = "down" => \A c \in Children : proc[c] # "alive"

\* A tool is registered only for the child of its server that is in the map, or
\* that a remove has taken out of it and not got to the tools of, whatever
\* crashes; and a client sees a part of a server's tools only until add_server
\* has answered: from then on they are all there, and the child runs, until a
\* child of that server crashes (proxy.go:155-171, 190-191, 308-316).
ToolsMatchChildren == phase = "serving" => \A n \in Names :
    /\ \A t \in Tools : <<n, t>> \in registered =>
          \E c \in Children : Shows(n, c) /\ t \in tools[c]
    /\ (children[n] # NoChild /\ hpc[children[n]] = "done"
           /\ \A c \in Children : name[c] = n => status[c] # "crashed") =>
          {n} \X tools[children[n]] \subseteq registered /\ status[children[n]] = "running"

\* The children a remove_server or reload_server of n has taken out of the map
\* and not answered for yet.
Replaced(n) ==
    {target[r] : r \in {q \in Requests : /\ InHandler(q) /\ name[q] = n
                                        /\ op[q] \in {"remove", "reload"}}} \ {NoChild}

\* The configuration of the server n as long as no request in flight has been
\* answered.
Entry(n) ==
    IF Replaced(n) # {} THEN cfg[CHOOSE c \in Replaced(n) : TRUE]
    ELSE IF children[n] = NoChild \/ InHandler(children[n]) THEN NoChild
    ELSE cfg[children[n]]

Entries == [n \in Names |-> Entry(n)]

\* The tool calls that have looked up their child.
Served == {r \in Requests : op[r] = "call" /\ target[r] # NoChild}

Table == INSTANCE Registry WITH
    NoServer <- NoChild, open <- (phase = "serving"), answer <- reply,
    served <- Served, table <- Entries

\* add_server, remove_server and reload_server do what SPEC.md:57-106 says, each
\* at once, whatever its steps and the children's: a request that fails leaves
\* no server behind, and "reload" is a remove and an add "with the same config".
\* A tool call succeeds only if it has found its server.
ImplementsRegistry == Table!RegistrySpec

(***************************************************************************)
(* What the documentation says and the code does not keep                  *)
(***************************************************************************)
\* When a child has crashed the proxy must "remove its tools" (SPEC.md:145-147):
\* once the callback is over, none of them is registered.
CrashedToolsGone == Quiescent => \A n \in Names :
    (children[n] # NoChild /\ status[children[n]] = "crashed") =>
        registered \cap ({n} \X Tools) = {}

\* handleCrash only removes tools "if the crashed child is still the current
\* one (not replaced by a reload)" (proxy.go:301-302): between requests the
\* tools of a running child are registered.
SuccessorKeepsTools == Quiescent => \A n \in Names :
    (children[n] # NoChild /\ status[children[n]] = "running") =>
        {n} \X tools[children[n]] \subseteq registered

\* reload_server "preserves the original spawn configuration" (SPEC.md:104-105):
\* the new child has the configuration of the child it replaced.
ReloadKeepsConfig == \A r \in Requests :
    (op[r] = "reload" /\ reply[r] = "ok") => cfg[r] = cfg[target[r]]

(***************************************************************************)
(* Liveness                                                                *)
(***************************************************************************)
\* remove_server answers, with tool calls of the child in flight and a child
\* program that answers nothing (proxy.go:180-195, child.go:249-252).
RemoveAnswers == \A r \in Requests :
    (op[r] = "remove" /\ InHandler(r)) ~> hpc[r] = "done"

\* A tool call returns once the process of its child is dead (SPEC.md:134).
DeadCallReturns == \A r \in Requests :
    (hpc[r] = "call" /\ proc[target[r]] = "dead") ~> hpc[r] = "done"

\* Shutdown comes to an end (proxy.go:60-73).
ShutdownEnds == phase = "stopping" ~> phase = "down"

\* When the process of an added server dies its tools go ("Remove its tools from
\* the proxy", SPEC.md:145-147), whoever takes them away: the crash callback, or
\* a remove_server that takes the child out of the map in the meantime, so that
\* the callback leaves it alone (proxy.go:180-191, 294-316).  A process that the
\* monitor found dead before add_server answered is the one of CrashedToolsGone.
CrashedToolsGo == \A c \in Requests :
    (/\ reply[c] = "ok" /\ children[name[c]] = c
     /\ status[c] = "running" /\ proc[c] = "dead")
        ~> (registered \cap ({name[c]} \X tools[c]) = {} \/ phase # "serving")

(***************************************************************************)
(* The inductive invariant                                                 *)
(***************************************************************************)
Over(c) == status[c] \in {"stopped", "crashed"}

Mapped(c) == \E n \in Names : children[n] = c

\* Nobody has the right to stop c, nor is anybody doing so.
Unclaimed(c) ==
    /\ c \notin toStop
    /\ \A r \in Requests : ~Removing(r, c)
    /\ \A k \in Stoppers : ~Stopping(k, c)

\* Control points of a request before its handler inserts a child, if ever.
EarlyPoints == HandlerPoints \ {"start", "starting", "check", "drop", "register", "done"}

\* What the control point of a handler says of its locals and its child.
HandlerShape(r) ==
    /\ hpc[r] # "idle" => name[r] \in Names
    /\ hpc[r] = "config" => op[r] = "reload"
    /\ hpc[r] \in {"take", "untool", "stop", "stopping"} => op[r] \in {"remove", "reload"}
    /\ hpc[r] \in {"list", "status", "detail"} => op[r] = "list"
    /\ hpc[r] \in {"lookup", "session", "call"} => op[r] = "call"
    /\ hpc[r] \in {"untool", "stop", "stopping", "session", "call"} => target[r] \in Requests
    /\ hpc[r] \in {"idle", "config", "take"} => target[r] = NoChild
    /\ (hpc[r] = "insert" /\ op[r] \notin {"remove", "reload"}) => target[r] = NoChild
    /\ hpc[r] \in {"status", "detail"} => todo[r] \subseteq Requests
    /\ hpc[r] = "register" => todo[r] \subseteq Tools
    /\ reply[r] # "none" => hpc[r] = "done"
    /\ hpc[r] \in {"check", "drop", "register"} => startPC[r] = "returned" /\ ~startErr[r]
    /\ hpc[r] = "drop" => Over(r)
    /\ hpc[r] = "stopping" => Over(target[r])

\* A child nobody has inserted yet is new, and unknown to all the others.
FreshShape(r) == hpc[r] \in EarlyPoints =>
    /\ status[r] = "new" /\ startPC[r] = "idle"
    /\ ~Mapped(r) /\ Unclaimed(r)
    /\ \A q \in Requests : target[q] # r

\* A child that a handler has stopped stays stopped, and nobody returns to it.
RetiredShape(r) ==
    (op[r] \in {"remove", "reload"} /\ target[r] # NoChild /\ ~Removing(r, target[r]))
        => Over(target[r]) /\ ~Mapped(target[r]) /\ Unclaimed(target[r])

\* After an error the child was never started, is over, or failed to start.
ErrorShape(r) == reply[r] = "error" =>
    startPC[r] = "idle" \/ Over(r) \/ (startPC[r] = "returned" /\ startErr[r])

\* A child in the map is there under its own name, and nobody's to stop.
MapShape == \A n \in Names : children[n] # NoChild =>
    /\ name[children[n]] = n
    /\ status[children[n]] # "stopped"
    /\ Unclaimed(children[n])

\* Who may stop a child: the one handler that took it out of the map, or main.
ClaimShape ==
    /\ \A c \in Children : \A r, q \in Requests : Removing(r, c) /\ Removing(q, c) => r = q
    /\ \A c \in Children : \A r \in Requests :
          Stopping(r, c) => hpc[r] = "stopping" /\ target[r] = c
    /\ \A c \in Children : Stopping(Main, c) => phase # "serving" /\ c \notin toStop
    /\ phase # "serving" => \A r \in Requests : ~InHandler(r)
    /\ phase # "serving" => \A n \in Names : children[n] = NoChild
    /\ phase = "serving" => toStop = {}

\* The strengthening of the invariants that hold under every interleaving.
ProxyInv ==
    /\ ProxyTypeOK
    /\ \A r \in Requests :
          HandlerShape(r) /\ FreshShape(r) /\ RetiredShape(r) /\ ErrorShape(r)
    /\ MapShape /\ ClaimShape /\ ListedStayMapped

(***************************************************************************)
(* With removes and reloads that overlap with no other change of a server  *)
(***************************************************************************)
\* Of two changes of a server both are adds, and one has yet to look at the map.
Apart == \A r, q \in Requests : Changing(r) /\ Changing(q) /\ name[r] = name[q] =>
    \/ r = q
    \/ op[r] = "add" /\ op[q] = "add" /\ (hpc[r] = "insert" \/ hpc[q] = "insert")

\* Until add_server is over its child is in the map; what remove_server takes
\* out is not replaced before its tools are gone.
EntryShape(r) ==
    /\ hpc[r] \in {"start", "starting", "check", "drop", "register"} => children[name[r]] = r
    /\ hpc[r] = "untool" => children[name[r]] = NoChild /\ name[target[r]] = name[r]
    /\ hpc[r] = "register" => todo[r] \subseteq tools[r]

\* Start runs in its handler, and a child whose handler went on started well.
StartedShape(c) ==
    /\ startPC[c] \notin {"idle", "returned"} => hpc[c] = "starting"
    /\ (Mapped(c) /\ hpc[c] \notin {"start", "starting"}) =>
          startPC[c] = "returned" /\ ~startErr[c]

\* A child out of the map was never started, is over, failed to start, or is
\* in the hands of a remove_server or of Shutdown.
Accounted(c) ==
    \/ Mapped(c) \/ c \in toStop \/ status[c] = "new" \/ Over(c)
    \/ startPC[c] = "returned" /\ startErr[c]
    \/ \E r \in Requests : Removing(r, c)

\* The tools of c that are registered, while it is in the map or being removed.
Shown(c) == {t \in tools[c] :
    hpc[c] \in {"register", "done"} /\ (hpc[c] = "register" => t \notin todo[c])}

\* What is registered is what a child shows, and all of it unless one crashed.
ToolsShown == phase = "serving" => \A n \in Names, t \in Tools :
    /\ <<n, t>> \in registered => \E c \in Children : Shows(n, c) /\ t \in Shown(c)
    /\ ((\A c \in Children : name[c] = n => status[c] # "crashed")
           /\ \E c \in Children : Shows(n, c) /\ t \in Shown(c)) => <<n, t>> \in registered

\* Once the proxy is down nobody is stopping a child.
DownShape == phase = "down" => toStop = {} /\ \A c \in Children : ~Stopping(Main, c)

\* The strengthening of the invariants that need OnePerServer.
SerialInv ==
    /\ Apart /\ ToolsShown /\ DownShape
    /\ \A r \in Requests : EntryShape(r) /\ StartedShape(r) /\ Accounted(r)

\* Whose configuration a child gets; what a handler knows of the map.
ConfigShape(r) ==
    /\ hpc[r] = "idle" <=> op[r] = "none"
    /\ hpc[r] \in {"insert", "start", "starting", "check", "drop", "register"} =>
          op[r] \in Creating /\ cfg[r] \in Requests
    /\ op[r] = "add" => cfg[r] = r
    /\ Mapped(r) => cfg[r] \in Requests
    /\ op[r] \in {"remove", "reload"} /\ target[r] \in Requests => cfg[target[r]] \in Requests
    /\ op[r] = "reload" =>
          /\ hpc[r] = "take" => cfg[r] \in Requests
          /\ hpc[r] = "take" /\ children[name[r]] # NoChild => cfg[r] = cfg[children[name[r]]]
          /\ target[r] \in Requests => cfg[r] = cfg[target[r]]
          /\ hpc[r] \notin {"config", "take"} /\ reply[r] # "error" => target[r] \in Requests
          /\ hpc[r] = "insert" => children[name[r]] = NoChild
    /\ hpc[r] \in {"stop", "stopping"} => children[name[r]] = NoChild

ConfigInv == \A r \in Requests : ConfigShape(r)
=============================================================================
