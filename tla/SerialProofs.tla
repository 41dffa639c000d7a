---------------------------- MODULE SerialProofs ----------------------------
(***************************************************************************)
(* The proxy whose client's removes and reloads overlap with no other      *)
(* change of their server (OnePerServer): SerialInv of Proxy is inductive  *)
(* together with IInv and ProxyInv, and it implies the invariants that the *)
(* run of ProxySerial.cfg checks.                                          *)
(***************************************************************************)
EXTENDS ProxyProofs, FiniteSetTheorems

\* What every step leaves of a child: the tools of one whose Start has
\* returned, its result, and the end of its life.
Lasting(c) ==
    /\ startPC[c] # "commit" => tools'[c] = tools[c]
    /\ startPC[c] = "returned" => startPC'[c] = "returned" /\ startErr'[c] = startErr[c]
    /\ Over(c) => Over(c)'
    /\ status[c] = "crashed" => status'[c] = "crashed"

\* A step of Start, of the monitor or of the process is lasting (child.go:113-243).
LEMMA StartLasts ==
  ASSUME IInv, NEW c \in Children, StartStep(c), NEW d \in Children
  PROVE  Lasting(d)
<1> USE DEF IInv, TypeOK, StartPoints, Statuses, Lasting, Over
<1>1. CASE Commit(c)
  BY <1>1 DEF Commit, StartShape
<1>2. CASE Finish(c)
  BY <1>2 DEF Finish
<1> QED BY <1>1, <1>2 DEF StartStep, Spawn, SpawnFail, HandshakeOk, HandshakeFail,
        KillFailed, Publish, DiscoverOk, DiscoverFail, Unpublish, CloseInStart, fields

\* So is every other step of a child.
LEMMA ChildLasts ==
  ASSUME IInv, [ChildNext]_childVars, NEW d \in Children
  PROVE  Lasting(d)
<1> USE DEF IInv, TypeOK, StartPoints, Statuses, Lasting, Over
<1>1. CASE UNCHANGED childVars
  BY <1>1 DEF childVars, fields, startVars
<1>2. ASSUME NEW c \in Children, BeginStart(c) \/ RejectStart(c) PROVE Lasting(d)
  BY <1>2 DEF BeginStart, RejectStart, fields
<1>3. ASSUME NEW c \in Children, MonitorStep(c) \/ EnvironmentStep(c) PROVE Lasting(d)
  <2>1. CASE MonitorWake(c)
    BY <2>1 DEF MonitorWake, startVars
  <2> QED BY <1>3, <2>1 DEF MonitorStep, MonitorRead, Notify, EnvironmentStep, ProcExit,
          ConnLost, CallerCancel, fields, startVars
<1>4. ASSUME NEW k \in Stoppers, NEW c \in Children, StopBegin(k, c) PROVE Lasting(d)
  BY <1>4 DEF StopBegin, startVars
<1>5. ASSUME NEW k \in Stoppers, StopStep(k) PROVE Lasting(d)
  BY <1>5 DEF StopStep, StopCancel, StopAwait, StopReread, CloseReturns, CloseTimeout,
     fields, startVars
<1>6. ASSUME NEW u \in Callers, CallStep(u) \/ \E c \in Children : GetSession(u, c)
      PROVE  Lasting(d)
  BY <1>6 DEF CallStep, CallIssue, CallRefused, CallAnswered, CallBroken, CallEnd,
     GetSession, fields, startVars
<1> QED BY <1>1, <1>2, <1>3, <1>4, <1>5, <1>6, StartLasts DEF ChildNext

(***************************************************************************)
(* The step of one handler among others                                    *)
(***************************************************************************)
HandlerMove(r) ==
    AddStep(r) \/ RemoveStep(r) \/ ListStep(r) \/ ToolCallStep(r) \/ CallDone(r)

\* The other requests while r takes a step.
OthersRest(r) ==
    /\ InHandler(r) /\ phase = "serving"
    /\ \A q \in Requests \ {r} :
          hpc'[q] = hpc[q] /\ target'[q] = target[q] /\ todo'[q] = todo[q]
    /\ name' = name /\ op' = op /\ phase' = phase /\ toStop' = toStop
    /\ Changing(r)' => Changing(r)
    /\ Changing(r)' /\ hpc[r] = "insert" => children[name[r]] = NoChild

\* A handler takes its steps without the others, and does not begin to change
\* its server on the way (proxy.go:113-262).
LEMMA MoveIsOwn ==
  ASSUME ProxyInv, NEW r \in Requests, HandlerMove(r)
  PROVE  OthersRest(r)
<1> USE DEF ProxyInv, ProxyTypeOK
<1>1. InHandler(r)
  BY DEF InHandler, HandlerMove, AddStep, AddInsert, AddStart, AddStarted, AddCheck,
     AddDrop, RegisterTool, RemoveStep, ReloadConfig, RemoveTake, RemoveTools, RemoveStop,
     Removed, ListStep, ListBegin, ListStatus, ListDetail, ToolCallStep, CallLookup,
     CallSession, CallFailed, CallDone
<1>2. phase = "serving"
  BY <1>1 DEF ClaimShape
<1>3. /\ \A q \in Requests \ {r} :
            hpc'[q] = hpc[q] /\ target'[q] = target[q] /\ todo'[q] = todo[q]
      /\ name' = name /\ op' = op /\ phase' = phase /\ toStop' = toStop
      /\ Changing(r)' => Changing(r)
      /\ Changing(r)' /\ hpc[r] = "insert" => children[name[r]] = NoChild
  <2>1. CASE AddStep(r)
    BY <2>1 DEF AddStep, AddInsert, AddStart, AddStarted, AddCheck, AddDrop,
       RegisterTool, Goto, Reply, Changing, InHandler
  <2>2. CASE RemoveStep(r)
    BY <2>2 DEF RemoveStep, ReloadConfig, RemoveTake, RemoveTools, RemoveStop, Removed,
       Goto, Reply, Changing, InHandler
  <2>3. CASE ListStep(r)
    BY <2>3 DEF ListStep, ListBegin, ListStatus, ListDetail, Goto, Reply, Changing, InHandler
  <2>4. CASE ToolCallStep(r) \/ CallDone(r)
    BY <2>4 DEF ToolCallStep, CallLookup, CallSession, CallFailed, CallDone, Goto, Reply,
       Changing, InHandler
  <2> QED BY <2>1, <2>2, <2>3, <2>4 DEF HandlerMove
<1> QED BY <1>1, <1>2, <1>3 DEF OthersRest

\* So two handlers that change one server stay apart: of two adds only one gets
\* past the map (proxy.go:120-136).
LEMMA MoveKeepsApart ==
  ASSUME ProxyInv, SerialInv, NEW r \in Requests, OthersRest(r)
  PROVE  Apart'
<1> USE ProxyAssumption, ChildAssumption DEF ProxyInv, ProxyTypeOK
<1>1. \A q \in Requests : Changing(q)' => Changing(q)
  BY DEF OthersRest, Changing, InHandler
<1>2. name' = name /\ op' = op /\ \A q \in Requests \ {r} : hpc'[q] = hpc[q]
  BY DEF OthersRest
<1>3. ASSUME NEW q \in Requests \ {r}, Changing(r)', Changing(q), name[q] = name[r]
      PROVE  op[r] = "add" /\ op[q] = "add" /\ (hpc'[r] = "insert" \/ hpc[q] = "insert")
  <2>1. op[r] = "add" /\ op[q] = "add" /\ (hpc[r] = "insert" \/ hpc[q] = "insert")
    BY <1>1, <1>3 DEF SerialInv, Apart
  <2>2. CASE hpc[r] = "insert" /\ hpc[q] # "insert"
    <3>1. children[name[r]] = NoChild
      BY <1>3, <2>2 DEF OthersRest
    <3>2. hpc[q] \in {"start", "starting", "check", "drop", "register"}
      BY <1>3, <2>1, <2>2 DEF Changing, InHandler, HandlerShape, HandlerPoints
    <3> QED BY <1>3, <3>1, <3>2 DEF SerialInv, EntryShape
  <2> QED BY <2>1, <2>2
<1> QED BY <1>1, <1>2, <1>3 DEF SerialInv, Apart

(***************************************************************************)
(* The steps of a handler that do not touch the map, the tools or a  *)
(* child: the parts of list_servers and of a tool call, and early errors.  *)
(***************************************************************************)
\* What ToolsShown says of one tool.
ToolShown(n, t) ==
    /\ <<n, t>> \in registered => \E c \in Children : Shows(n, c) /\ t \in Shown(c)
    /\ ((\A c \in Children : name[c] = n => status[c] # "crashed")
           /\ \E c \in Children : Shows(n, c) /\ t \in Shown(c)) => <<n, t>> \in registered

\* It is so again after a step that keeps what is shown and what is registered,
\* of servers none of whose children recovers from a crash.
LEMMA ToolStaysShown ==
  ASSUME NEW n \in Names, NEW t \in Tools, ToolShown(n, t),
         \A c \in Children :
            /\ Shows(n, c)' /\ t \in Shown(c)' <=> Shows(n, c) /\ t \in Shown(c)
            /\ name[c] = n /\ status[c] = "crashed" => name'[c] = n /\ status'[c] = "crashed",
         \/ <<n, t>> \in registered' <=> <<n, t>> \in registered
         \/ /\ <<n, t>> \in registered' => <<n, t>> \in registered
            /\ \E c \in Children : name'[c] = n /\ status'[c] = "crashed"
  PROVE  ToolShown(n, t)'
BY DEF ToolShown

\* What such a step leaves of the children.
ChildrenRest ==
    /\ tools' = tools /\ startPC' = startPC /\ startErr' = startErr
    /\ \A c \in Children :
          /\ status'[c] = "new" <=> status[c] = "new"
          /\ Over(c) => Over(c)'
          /\ status[c] = "crashed" => status'[c] = "crashed"

\* Where a handler has a child in its hands.
LateOrTaking == {"start", "starting", "check", "drop", "register", "untool", "stop", "stopping"}

\* They keep SerialInv.
LEMMA BlandKeepsSerial ==
  ASSUME IInv, ProxyInv, SerialInv, NEW r \in Requests, OthersRest(r), ChildrenRest,
         hpc[r] \notin LateOrTaking, hpc'[r] \in HandlerPoints \ LateOrTaking,
         children' = children, registered' = registered
  PROVE  SerialInv'
<1> USE ProxyAssumption, ChildAssumption
    DEF ProxyInv, ProxyTypeOK, SerialInv, OthersRest, ChildrenRest, LateOrTaking
<1>0. hpc[r] \in EarlyPoints
  BY DEF EarlyPoints, InHandler
<1>1. Apart' /\ DownShape'
  BY MoveKeepsApart DEF DownShape
<1>2. \A q \in Requests : EntryShape(q)'
  BY DEF EntryShape, Apart, Changing, InHandler, HandlerShape
<1>3. \A q \in Requests : StartedShape(q)'
  BY <1>0 DEF StartedShape, FreshShape, Mapped
<1>4. \A q \in Requests : Accounted(q)'
  BY DEF Accounted, Mapped, Removing
<1>5. ToolsShown'
  <2> SUFFICES ASSUME NEW n \in Names, NEW t \in Tools
               PROVE  ToolShown(n, t)'
    BY DEF ToolsShown, ToolShown
  <2>1. \A c \in Children : Shows(n, c)' <=> Shows(n, c)
    BY DEF Shows
  <2>2. \A c \in Children : Shows(n, c) => c # r
    BY <1>0 DEF Shows, FreshShape, Mapped
  <2>3. \A c \in Children \ {r} : Shown(c)' = Shown(c)
    BY DEF Shown
  <2>4. ToolShown(n, t)
    BY DEF ToolsShown, ToolShown
  <2> QED BY <2>1, <2>2, <2>3, <2>4, ToolStaysShown
<1> QED BY <1>1, <1>2, <1>3, <1>4, <1>5

(***************************************************************************)
(* The other steps of a handler                                            *)
(***************************************************************************)

\* The insertion of a new child (proxy.go:120-136): nothing of its name is shown.
LEMMA AddInsertKeepsSerial ==
  ASSUME IInv, ProxyInv, SerialInv, NEW r \in Requests, OthersRest(r), ChildrenRest,
         AddInsert(r), children[name[r]] = NoChild
  PROVE  SerialInv'
<1> USE ProxyAssumption, ChildAssumption
    DEF ProxyInv, ProxyTypeOK, SerialInv, OthersRest, ChildrenRest, Goto, Reply, SetChild,
        AddInsert
<1>1. Apart' /\ DownShape'
  BY MoveKeepsApart DEF DownShape
<1>2. \A q \in Requests : EntryShape(q)'
  BY DEF EntryShape, Apart, Changing, InHandler, HandlerShape
<1>3. \A q \in Requests : StartedShape(q)'
  BY DEF StartedShape, EntryShape, Mapped, MapShape
<1>4. \A q \in Requests : Accounted(q)'
  BY DEF Accounted, Mapped, Removing, EntryShape, HandlerShape
<1>5. ToolsShown'
  <2> SUFFICES ASSUME NEW n \in Names, NEW t \in Tools
               PROVE  ToolShown(n, t)'
    BY DEF ToolsShown, ToolShown
  <2>0. ToolShown(n, t)
    BY DEF ToolsShown, ToolShown
  <2> QED BY <2>0 DEF ToolShown, Shows, Shown, EntryShape, MapShape, HandlerShape
<1> QED BY <1>1, <1>2, <1>3, <1>4, <1>5

\* The return of Start (proxy.go:138-144): on an error the child failed to start.
LEMMA AddStartedKeepsSerial ==
  ASSUME IInv, ProxyInv, SerialInv, NEW r \in Requests, OthersRest(r), ChildrenRest,
         AddStarted(r)
  PROVE  SerialInv'
<1> USE ProxyAssumption, ChildAssumption
    DEF ProxyInv, ProxyTypeOK, SerialInv, OthersRest, ChildrenRest, Goto, Reply, SetChild,
        AddStarted
<1>1. Apart' /\ DownShape'
  BY MoveKeepsApart DEF DownShape
<1>2. \A q \in Requests : EntryShape(q)'
  BY DEF EntryShape, Apart, Changing, InHandler, HandlerShape
<1>3. \A q \in Requests : StartedShape(q)'
  BY DEF StartedShape, EntryShape, Mapped, MapShape
<1>4. \A q \in Requests : Accounted(q)'
  BY DEF Accounted, Mapped, Removing, EntryShape, HandlerShape
<1>5. ToolsShown'
  <2> SUFFICES ASSUME NEW n \in Names, NEW t \in Tools
               PROVE  ToolShown(n, t)'
    BY DEF ToolsShown, ToolShown
  <2>0. ToolShown(n, t)
    BY DEF ToolsShown, ToolShown
  <2> QED BY <2>0 DEF ToolShown, Shows, Shown, EntryShape, MapShape, HandlerShape
<1> QED BY <1>1, <1>2, <1>3, <1>4, <1>5

\* The check of the status (proxy.go:146-147).
LEMMA AddCheckKeepsSerial ==
  ASSUME IInv, ProxyInv, SerialInv, NEW r \in Requests, OthersRest(r), ChildrenRest,
         AddCheck(r)
  PROVE  SerialInv'
<1> USE ProxyAssumption, ChildAssumption
    DEF ProxyInv, ProxyTypeOK, SerialInv, OthersRest, ChildrenRest, Goto, Reply, SetChild,
        AddCheck
<1>1. Apart' /\ DownShape'
  BY MoveKeepsApart DEF DownShape
<1>2. \A q \in Requests : EntryShape(q)'
  BY DEF EntryShape, Apart, Changing, InHandler, HandlerShape
<1>3. \A q \in Requests : StartedShape(q)'
  BY DEF StartedShape, EntryShape, Mapped, MapShape
<1>4. \A q \in Requests : Accounted(q)'
  BY DEF Accounted, Mapped, Removing, EntryShape, HandlerShape
<1>5. ToolsShown'
  <2> SUFFICES ASSUME NEW n \in Names, NEW t \in Tools
               PROVE  ToolShown(n, t)'
    BY DEF ToolsShown, ToolShown
  <2>0. ToolShown(n, t)
    BY DEF ToolsShown, ToolShown
  <2> QED BY <2>0 DEF ToolShown, Shows, Shown, EntryShape, MapShape, HandlerShape
<1> QED BY <1>1, <1>2, <1>3, <1>4, <1>5

\* The deletion of a child that ended early (proxy.go:148-152): it is over.
LEMMA AddDropKeepsSerial ==
  ASSUME IInv, ProxyInv, SerialInv, NEW r \in Requests, OthersRest(r), ChildrenRest,
         AddDrop(r)
  PROVE  SerialInv'
<1> USE ProxyAssumption, ChildAssumption
    DEF ProxyInv, ProxyTypeOK, SerialInv, OthersRest, ChildrenRest, Goto, Reply, SetChild,
        AddDrop
<1>1. Apart' /\ DownShape'
  BY MoveKeepsApart DEF DownShape
<1>2. \A q \in Requests : EntryShape(q)'
  BY DEF EntryShape, Apart, Changing, InHandler, HandlerShape
<1>3. \A q \in Requests : StartedShape(q)'
  BY DEF StartedShape, EntryShape, Mapped, MapShape
<1>4. \A q \in Requests : Accounted(q)'
  BY DEF Accounted, Mapped, Removing, EntryShape, HandlerShape
<1>5. ToolsShown'
  <2> SUFFICES ASSUME NEW n \in Names, NEW t \in Tools
               PROVE  ToolShown(n, t)'
    BY DEF ToolsShown, ToolShown
  <2>0. ToolShown(n, t)
    BY DEF ToolsShown, ToolShown
  <2> QED BY <2>0 DEF ToolShown, Shows, Shown, EntryShape, MapShape, HandlerShape
<1> QED BY <1>1, <1>2, <1>3, <1>4, <1>5

\* The registration loop (proxy.go:154-178): a tool at a time is shown.
LEMMA RegisterToolKeepsSerial ==
  ASSUME IInv, ProxyInv, SerialInv, NEW r \in Requests, OthersRest(r), ChildrenRest,
         RegisterTool(r)
  PROVE  SerialInv'
<1> USE ProxyAssumption, ChildAssumption
    DEF ProxyInv, ProxyTypeOK, SerialInv, OthersRest, ChildrenRest, Goto, Reply, SetChild,
        RegisterTool
<1>1. Apart' /\ DownShape'
  BY MoveKeepsApart DEF DownShape
<1>2. \A q \in Requests : EntryShape(q)'
  BY DEF EntryShape, Apart, Changing, InHandler, HandlerShape
<1>3. \A q \in Requests : StartedShape(q)'
  BY DEF StartedShape, EntryShape, Mapped, MapShape
<1>4. \A q \in Requests : Accounted(q)'
  BY DEF Accounted, Mapped, Removing, EntryShape, HandlerShape
<1>5. ToolsShown'
  <2> SUFFICES ASSUME NEW n \in Names, NEW t \in Tools
               PROVE  ToolShown(n, t)'
    BY DEF ToolsShown, ToolShown
  <2>0. ToolShown(n, t)
    BY DEF ToolsShown, ToolShown
  <2> QED BY <2>0 DEF ToolShown, Shows, Shown, EntryShape, MapShape, HandlerShape
<1> QED BY <1>1, <1>2, <1>3, <1>4, <1>5

\* Taking a child out of the map (proxy.go:180-188): its tools stay shown.
LEMMA RemoveTakeKeepsSerial ==
  ASSUME IInv, ProxyInv, SerialInv, NEW r \in Requests, OthersRest(r), ChildrenRest,
         RemoveTake(r), children[name[r]] # NoChild
  PROVE  SerialInv'
<1> USE ProxyAssumption, ChildAssumption
    DEF ProxyInv, ProxyTypeOK, SerialInv, OthersRest, ChildrenRest, Goto, Reply, SetChild,
        RemoveTake
<1>1. Apart' /\ DownShape'
  BY MoveKeepsApart DEF DownShape
<1>2. \A q \in Requests : EntryShape(q)'
  BY DEF EntryShape, Apart, Changing, InHandler, HandlerShape, MapShape
<1>3. \A q \in Requests : StartedShape(q)'
  BY DEF StartedShape, EntryShape, Mapped, MapShape
<1>4. \A q \in Requests : Accounted(q)'
  BY DEF Accounted, Mapped, Removing, EntryShape, HandlerShape
<1>5. ToolsShown'
  <2> SUFFICES ASSUME NEW n \in Names, NEW t \in Tools
               PROVE  ToolShown(n, t)'
    BY DEF ToolsShown, ToolShown
  <2>0. ToolShown(n, t)
    BY DEF ToolsShown, ToolShown
  <2> QED BY <2>0 DEF ToolShown, Shows, Shown, EntryShape, MapShape, HandlerShape
<1> QED BY <1>1, <1>2, <1>3, <1>4, <1>5

\* Removing its tools (proxy.go:190-191): all of them, and of no other child.
LEMMA RemoveToolsKeepsSerial ==
  ASSUME IInv, ProxyInv, SerialInv, NEW r \in Requests, OthersRest(r), ChildrenRest,
         RemoveTools(r)
  PROVE  SerialInv'
<1> USE ProxyAssumption, ChildAssumption
    DEF ProxyInv, ProxyTypeOK, SerialInv, OthersRest, ChildrenRest, Goto, Reply, SetChild,
        RemoveTools
<1>1. Apart' /\ DownShape'
  BY MoveKeepsApart DEF DownShape
<1>2. \A q \in Requests : EntryShape(q)'
  BY DEF EntryShape, Apart, Changing, InHandler, HandlerShape
<1>3. \A q \in Requests : StartedShape(q)'
  BY DEF StartedShape, EntryShape, Mapped, MapShape
<1>4. \A q \in Requests : Accounted(q)'
  BY DEF Accounted, Mapped, Removing, EntryShape, HandlerShape
<1>5. ToolsShown'
  <2> SUFFICES ASSUME NEW n \in Names, NEW t \in Tools
               PROVE  ToolShown(n, t)'
    BY DEF ToolsShown, ToolShown
  <2>0. ToolShown(n, t)
    BY DEF ToolsShown, ToolShown
  <2>1. /\ hpc[r] = "untool" /\ hpc' = [hpc EXCEPT ![r] = "stop"]
        /\ target[r] \in Requests /\ name[target[r]] = name[r] /\ children[name[r]] = NoChild
    BY DEF EntryShape, HandlerShape
  <2>2. \A c \in Children : Shown(c)' = Shown(c)
    BY <2>1 DEF Shown
  <2>3. CASE n = name[r]
    <3>1. \A c \in Children : Shows(n, c) => c = target[r]
      BY <2>1, <2>3 DEF Shows, Apart, Changing, InHandler, HandlerShape
    <3>2. \A c \in Children : ~Shows(n, c)'
      BY <2>1, <2>3 DEF Shows, Apart, Changing, InHandler, HandlerShape
    <3>3. <<n, t>> \notin registered'
      BY <2>0, <2>1, <2>3, <3>1 DEF ToolShown, Shown, RemoveToolsForChild
    <3> QED BY <3>2, <3>3 DEF ToolShown
  <2>4. CASE n # name[r]
    <3>1. \A c \in Children : Shows(n, c)' <=> Shows(n, c)
      BY <2>1, <2>4 DEF Shows
    <3>2. <<n, t>> \in registered' <=> <<n, t>> \in registered
      BY <2>1, <2>4 DEF RemoveToolsForChild
    <3> QED BY <2>0, <2>2, <3>1, <3>2, ToolStaysShown
  <2> QED BY <2>3, <2>4
<1> QED BY <1>1, <1>2, <1>3, <1>4, <1>5

\* The return of Stop (proxy.go:193-194, 208-214): the child is over.
LEMMA RemovedKeepsSerial ==
  ASSUME IInv, ProxyInv, SerialInv, NEW r \in Requests, OthersRest(r), ChildrenRest,
         Removed(r)
  PROVE  SerialInv'
<1> USE ProxyAssumption, ChildAssumption
    DEF ProxyInv, ProxyTypeOK, SerialInv, OthersRest, ChildrenRest, Goto, Reply, SetChild,
        Removed
<1>1. Apart' /\ DownShape'
  BY MoveKeepsApart DEF DownShape
<1>2. \A q \in Requests : EntryShape(q)'
  BY DEF EntryShape, Apart, Changing, InHandler, HandlerShape
<1>3. \A q \in Requests : StartedShape(q)'
  BY DEF StartedShape, EntryShape, Mapped, MapShape
<1>4. \A q \in Requests : Accounted(q)'
  BY DEF Accounted, Mapped, Removing, EntryShape, HandlerShape
<1>5. ToolsShown'
  <2> SUFFICES ASSUME NEW n \in Names, NEW t \in Tools
               PROVE  ToolShown(n, t)'
    BY DEF ToolsShown, ToolShown
  <2>0. ToolShown(n, t)
    BY DEF ToolsShown, ToolShown
  <2>1. \A c \in Children : Shows(n, c)' <=> Shows(n, c)
    BY DEF Shows
  <2>2. \A c \in Children : Shows(n, c) => c # r
    BY DEF Shows, FreshShape, Mapped, EarlyPoints, HandlerPoints
  <2>3. \A c \in Children \ {r} : Shown(c)' = Shown(c)
    BY DEF Shown
  <2> QED BY <2>0, <2>1, <2>2, <2>3, ToolStaysShown
<1> QED BY <1>1, <1>2, <1>3, <1>4, <1>5

\* The call of Start (proxy.go:138, child.go:100-111).
LEMMA AddStartKeepsSerial ==
  ASSUME IInv, ProxyInv, SerialInv, NEW r \in Requests, OthersRest(r), AddStart(r)
  PROVE  SerialInv'
<1> USE ProxyAssumption, ChildAssumption
    DEF ProxyInv, ProxyTypeOK, SerialInv, OthersRest, Goto, AddStart
<1>0. /\ tools' = tools /\ startPC'[r] \in {"spawn", "returned"}
      /\ \A c \in Children \ {r} :
            status'[c] = status[c] /\ startPC'[c] = startPC[c] /\ startErr'[c] = startErr[c]
      /\ status[r] = "crashed" => status'[r] = "crashed"
  BY DEF IInv, TypeOK, BeginStart, RejectStart, fields
<1>a. hpc[r] = "start" /\ hpc' = [hpc EXCEPT ![r] = "starting"]
      /\ children' = children /\ registered' = registered /\ children[name[r]] = r
      /\ name[r] \in Names
  BY DEF EntryShape, HandlerShape
<1>1. Apart' /\ DownShape'
  <2>1. Apart'
    BY MoveKeepsApart
  <2> QED BY <2>1 DEF DownShape
<1>2. \A q \in Requests : EntryShape(q)'
  BY <1>0, <1>a DEF EntryShape
<1>3. \A q \in Requests : StartedShape(q)'
  BY <1>0, <1>a DEF StartedShape, Mapped
<1>4. \A q \in Requests : Accounted(q)'
  <2>1. Accounted(r)'
    BY <1>a DEF Accounted, Mapped
  <2>2. ASSUME NEW q \in Requests, q # r PROVE Accounted(q)'
    <3>1. Accounted(q)
      OBVIOUS
    <3>2. \A p \in Requests : Removing(p, q) => Removing(p, q)'
      BY <1>a DEF Removing
    <3> QED BY <1>0, <1>a, <2>2, <3>1, <3>2 DEF Accounted, Mapped, Over
  <2> QED BY <2>1, <2>2
<1>5. ToolsShown'
  <2> SUFFICES ASSUME phase' = "serving", NEW n \in Names, NEW t \in Tools
               PROVE  ToolShown(n, t)'
    BY DEF ToolsShown, ToolShown
  <2>1. ToolShown(n, t)
    BY DEF ToolsShown, ToolShown
  <2>2. \A c \in Children : Shows(n, c)' <=> Shows(n, c)
    BY <1>a DEF Shows
  <2>3. \A c \in Children : Shown(c)' = Shown(c)
    BY <1>0, <1>a DEF Shown
  <2> QED BY <1>0, <1>a, <2>1, <2>2, <2>3, ToolStaysShown
<1> QED BY <1>1, <1>2, <1>3, <1>4, <1>5

\* The call of Stop (proxy.go:193, child.go:253-266).
LEMMA RemoveStopKeepsSerial ==
  ASSUME IInv, ProxyInv, SerialInv, NEW r \in Requests, OthersRest(r), RemoveStop(r)
  PROVE  SerialInv'
<1> USE ProxyAssumption, ChildAssumption
    DEF ProxyInv, ProxyTypeOK, SerialInv, OthersRest, Goto, RemoveStop
<1>0. /\ tools' = tools /\ startPC' = startPC /\ startErr' = startErr
      /\ \A c \in Children : c # target[r] => status'[c] = status[c]
      /\ \A c \in Children : status[c] = "crashed" => status'[c] = "crashed"
  BY DEF IInv, TypeOK, StopBegin, startVars
<1>a. hpc[r] = "stop" /\ hpc' = [hpc EXCEPT ![r] = "stopping"]
      /\ children' = children /\ registered' = registered /\ target' = target
  OBVIOUS
<1>b. hpc[r] \in EarlyPoints
  BY <1>a DEF EarlyPoints, HandlerPoints
<1>1. Apart' /\ DownShape'
  <2>1. Apart'
    BY MoveKeepsApart
  <2> QED BY <2>1 DEF DownShape
<1>2. \A q \in Requests : EntryShape(q)'
  BY <1>0, <1>a DEF EntryShape
<1>3. \A q \in Requests : StartedShape(q)'
  BY <1>0, <1>a, <1>b DEF StartedShape, FreshShape, Mapped
<1>4. \A q \in Requests : Accounted(q)'
  <2>1. Accounted(target[r])'
    BY <1>a DEF Accounted, Removing
  <2>2. ASSUME NEW q \in Requests, q # target[r] PROVE Accounted(q)'
    <3>1. Accounted(q)
      OBVIOUS
    <3>2. \A p \in Requests : Removing(p, q) => Removing(p, q)'
      BY <1>a DEF Removing
    <3> QED BY <1>0, <1>a, <2>2, <3>1, <3>2 DEF Accounted, Mapped, Over
  <2> QED BY <2>1, <2>2
<1>5. ToolsShown'
  <2> SUFFICES ASSUME phase' = "serving", NEW n \in Names, NEW t \in Tools
               PROVE  ToolShown(n, t)'
    BY DEF ToolsShown, ToolShown
  <2>1. ToolShown(n, t)
    BY DEF ToolsShown, ToolShown
  <2>2. \A c \in Children : Shows(n, c)' <=> Shows(n, c)
    BY <1>a DEF Shows
  <2>3. \A c \in Children : Shown(c)' = Shown(c)
    BY <1>0, <1>a DEF Shown
  <2> QED BY <1>0, <1>a, <2>1, <2>2, <2>3, ToolStaysShown
<1> QED BY <1>1, <1>2, <1>3, <1>4, <1>5

(***************************************************************************)
(* Steps outside the handlers                                              *)
(***************************************************************************)
\* The arrival of a request (proxy.go:91-118).
LEMMA ArriveKeepsSerial ==
  ASSUME IInv, ProxyInv, SerialInv, OnePerServer,
         NEW r \in Requests, NEW o \in Ops, NEW n \in Names, Arrive(r, o, n)
  PROVE  SerialInv'
<1> USE ProxyAssumption, ChildAssumption
    DEF ProxyInv, ProxyTypeOK, SerialInv, Arrive, Goto
<1>a. /\ status' = status /\ tools' = tools /\ startPC' = startPC /\ startErr' = startErr
      /\ stopPC' = stopPC /\ stopTarget' = stopTarget
      /\ children' = children /\ registered' = registered /\ target' = target /\ todo' = todo
      /\ phase = "serving" /\ phase' = phase /\ toStop' = toStop
  BY DEF childVars, fields, startVars, stopVars
<1>b. /\ hpc[r] = "idle" /\ \A q \in Requests \ {r} : hpc'[q] = hpc[q] /\ name'[q] = name[q]
      /\ hpc'[r] \in {"insert", "take", "config", "list", "lookup"} /\ name'[r] = n
      /\ hpc'[r] \in {"insert", "take", "config"} <=> o \in {"add", "remove", "reload"}
  BY DEF FirstPoint
<1>c. ~Mapped(r) /\ startPC[r] = "idle" /\ \A q \in Requests : target[q] # r
  BY <1>b DEF FreshShape, EarlyPoints, HandlerPoints
<1>1. Apart' /\ DownShape'
  <2>1. \A q \in Requests \ {r} : Changing(q)' <=> Changing(q)
    BY <1>b DEF Changing, InHandler
  <2>2. Changing(r)' => \A q \in Requests : Changing(q) /\ name[q] = n =>
                            o = "add" /\ op[q] = "add" /\ hpc'[r] = "insert"
    <3> SUFFICES ASSUME Changing(r)', NEW q \in Requests, Changing(q), name[q] = n
                 PROVE  o = "add" /\ op[q] = "add" /\ hpc'[r] = "insert"
      OBVIOUS
    <3>1. o \in {"add", "remove", "reload"}
      BY <1>b DEF Changing, InHandler
    <3>2. o = "add" /\ op[q] = "add"
      BY <3>1 DEF Exclusive
    <3> QED BY <1>b, <3>2 DEF FirstPoint
  <2>3. Apart'
    BY <1>b, <2>1, <2>2 DEF Apart
  <2> QED BY <1>a, <2>3 DEF DownShape
<1>2. \A q \in Requests : EntryShape(q)'
  BY <1>a, <1>b, <1>c DEF EntryShape
<1>3. \A q \in Requests : StartedShape(q)'
  BY <1>a, <1>b, <1>c DEF StartedShape, Mapped
<1>4. \A q \in Requests : Accounted(q)'
  <2>1. \A p, q \in Requests : Removing(p, q) => Removing(p, q)'
    BY <1>a, <1>b DEF Removing
  <2> QED BY <1>a, <2>1 DEF Accounted, Mapped, Over
<1>5. ToolsShown'
  <2> SUFFICES ASSUME NEW m \in Names, NEW t \in Tools
               PROVE  ToolShown(m, t)'
    BY DEF ToolsShown, ToolShown
  <2>1. \A c \in Children : Shows(m, c)' <=> Shows(m, c)
    BY <1>a, <1>b DEF Shows
  <2>2. \A c \in Children \ {r} : Shown(c)' = Shown(c)
    BY <1>a, <1>b DEF Shown
  <2>3. ~Shows(m, r) /\ status[r] # "crashed"
    BY <1>b, <1>c DEF Shows, Mapped, FreshShape, EarlyPoints, HandlerPoints
  <2>4. ToolShown(m, t)
    BY <1>a DEF ToolsShown, ToolShown
  <2> QED BY <1>a, <1>b, <2>1, <2>2, <2>3, <2>4, ToolStaysShown
<1> QED BY <1>1, <1>2, <1>3, <1>4, <1>5

\* A step of a child, and one of its crash callback, after which a crash is on
\* record (proxy.go:294-316).
LEMMA ChildKeepsSerial ==
  ASSUME IInv, ProxyInv, SerialInv, Quiet, \A c \in Children : Lasting(c),
         UNCHANGED <<children, handlerVars, phase, toStop>>,
         \/ registered' = registered
         \/ \E c \in Children : status'[c] = "crashed" /\ RemoveToolsForChild(c)
  PROVE  SerialInv'
<1> USE ProxyAssumption, ChildAssumption
    DEF ProxyInv, ProxyTypeOK, SerialInv, handlerVars
<1>1. Apart' /\ DownShape'
  BY DEF Apart, Changing, DownShape, InHandler, Quiet, NoNewStop
<1>2. \A q \in Requests : EntryShape(q)'
  <2> SUFFICES ASSUME NEW q \in Requests, hpc[q] = "register" PROVE tools'[q] = tools[q]
    BY DEF EntryShape
  <2> QED BY DEF StartedShape, Lasting
<1>3. \A q \in Requests : StartedShape(q)'
  BY DEF StartedShape, Lasting, Quiet, QuietFor, Mapped
<1>4. \A q \in Requests : Accounted(q)'
  BY DEF Accounted, Lasting, Quiet, QuietFor, Mapped, Removing
<1>5. ToolsShown'
  <2> SUFFICES ASSUME phase' = "serving", NEW n \in Names, NEW t \in Tools
               PROVE  ToolShown(n, t)'
    BY DEF ToolsShown, ToolShown
  <2>1. \A c \in Children : Shown(c)' = Shown(c)
    BY DEF Shown, StartedShape, Lasting
  <2>2. \A c \in Children : Shows(n, c)' <=> Shows(n, c)
    BY DEF Shows
  <2>3. \/ <<n, t>> \in registered' <=> <<n, t>> \in registered
        \/ /\ <<n, t>> \in registered' => <<n, t>> \in registered
           /\ \E c \in Children : name'[c] = n /\ status'[c] = "crashed"
    BY DEF RemoveToolsForChild
  <2>4. ToolShown(n, t)
    BY DEF ToolsShown, ToolShown
  <2> QED BY <2>1, <2>2, <2>3, <2>4, ToolStaysShown DEF Lasting
<1> QED BY <1>1, <1>2, <1>3, <1>4, <1>5

\* Shutdown takes all children out of the map (proxy.go:60-68).
LEMMA ShutdownKeepsSerial ==
  ASSUME IInv, ProxyInv, SerialInv, Shutdown
  PROVE  SerialInv'
<1> USE ProxyAssumption, ChildAssumption
    DEF ProxyInv, ProxyTypeOK, SerialInv, Shutdown, handlerVars
<1>a. /\ status' = status /\ tools' = tools /\ startPC' = startPC /\ startErr' = startErr
  BY DEF childVars, fields, startVars
<1>1. Apart' /\ DownShape'
  BY DEF Apart, Changing, DownShape, InHandler
<1>2. \A q \in Requests : EntryShape(q)'
  BY DEF EntryShape, InHandler
<1>3. \A q \in Requests : StartedShape(q)'
  BY <1>a DEF StartedShape, Mapped
<1>4. \A q \in Requests : Accounted(q)'
  <2> SUFFICES ASSUME NEW q \in Requests PROVE Accounted(q)'
    OBVIOUS
  <2>1. Mapped(q) => q \in toStop'
    BY DEF Mapped
  <2>2. \A p \in Requests : ~Removing(p, q)
    BY DEF Removing, InHandler
  <2>3. toStop = {} /\ (Over(q) => Over(q)')
    BY <1>a DEF ClaimShape, Over
  <2> QED BY <1>a, <2>1, <2>2, <2>3 DEF Accounted
<1>5. ToolsShown'
  BY DEF ToolsShown
<1> QED BY <1>1, <1>2, <1>3, <1>4, <1>5

\* The call of Stop in Shutdown (proxy.go:69-73).
LEMMA ShutdownStopKeepsSerial ==
  ASSUME IInv, ProxyInv, SerialInv, ShutdownStop
  PROVE  SerialInv'
<1> USE ProxyAssumption, ChildAssumption
    DEF ProxyInv, ProxyTypeOK, SerialInv, ShutdownStop, handlerVars
<1>0. PICK d \in toStop : StopBegin(Main, d) /\ toStop' = toStop \ {d}
  OBVIOUS
<1>a. /\ tools' = tools /\ startPC' = startPC /\ startErr' = startErr
      /\ \A c \in Children \ {d} : status'[c] = status[c]
      /\ Over(d)'
  BY <1>0 DEF IInv, TypeOK, StopBegin, startVars, Over
<1>1. Apart' /\ DownShape'
  BY DEF Apart, Changing, DownShape, InHandler
<1>2. \A q \in Requests : EntryShape(q)'
  BY <1>a DEF EntryShape
<1>3. \A q \in Requests : StartedShape(q)'
  BY <1>a DEF StartedShape, Mapped
<1>4. \A q \in Requests : Accounted(q)'
  <2>1. Accounted(d)'
    BY <1>a DEF Accounted
  <2>2. ASSUME NEW q \in Requests, q # d PROVE Accounted(q)'
    <3>1. Accounted(q)
      OBVIOUS
    <3> QED BY <1>0, <1>a, <2>2, <3>1 DEF Accounted, Mapped, Removing, Over
  <2> QED BY <2>1, <2>2
<1>5. ToolsShown'
  BY DEF ToolsShown
<1> QED BY <1>1, <1>2, <1>3, <1>4, <1>5

\* Shutdown is over once the last Stop has returned.
LEMMA ShutdownDoneKeepsSerial ==
  ASSUME IInv, ProxyInv, SerialInv, ShutdownDone
  PROVE  SerialInv'
<1> USE ProxyAssumption, ChildAssumption
    DEF ProxyInv, ProxyTypeOK, SerialInv, ShutdownDone, handlerVars
<1>a. /\ status' = status /\ tools' = tools /\ startPC' = startPC /\ startErr' = startErr
      /\ stopPC' = stopPC
  BY DEF childVars, fields, startVars, stopVars
<1>1. Apart' /\ DownShape'
  BY <1>a DEF Apart, Changing, DownShape, InHandler, Stopping
<1>2. \A q \in Requests : EntryShape(q)'
  BY <1>a DEF EntryShape
<1>3. \A q \in Requests : StartedShape(q)'
  BY <1>a DEF StartedShape, Mapped
<1>4. \A q \in Requests : Accounted(q)'
  BY <1>a DEF Accounted, Mapped, Removing, Over
<1>5. ToolsShown'
  BY DEF ToolsShown
<1> QED BY <1>1, <1>2, <1>3, <1>4, <1>5

(***************************************************************************)
(* The invariant                                                           *)
(***************************************************************************)
\* A step of the handler that neither starts nor stops a child leaves the
\* children as they are, or is part of a call.
LEMMA MoveLeavesChildren ==
  ASSUME IInv, ProxyInv, NEW r \in Requests, HandlerMove(r), ~AddStart(r), ~RemoveStop(r)
  PROVE  ChildrenRest
<1> USE ProxyAssumption
<1>1. CASE UNCHANGED childVars
  BY <1>1 DEF ChildrenRest, Over, childVars, fields, startVars
<1>2. CASE CallSession(r) \/ CallDone(r) \/ CallFailed(r)
  BY <1>2 DEF ChildrenRest, Over, CallSession, CallDone, CallFailed, GetSession,
     CallAnswered, CallRefused, CallBroken, CallEnd, childVars, fields, startVars
<1> QED BY <1>1, <1>2 DEF HandlerMove, AddStep, AddInsert, AddStarted, AddCheck, AddDrop,
        RegisterTool, RemoveStep, ReloadConfig, RemoveTake, RemoveTools, Removed, ListStep,
        ListBegin, ListStatus, ListDetail, ToolCallStep, CallLookup

\* Every step of a handler keeps SerialInv.
LEMMA MoveKeepsSerial ==
  ASSUME IInv, ProxyInv, SerialInv, NEW r \in Requests, HandlerMove(r)
  PROVE  SerialInv'
<1>1. OthersRest(r)
  BY MoveIsOwn DEF SerialInv
<1>2. CASE AddStart(r)
  BY <1>1, <1>2, AddStartKeepsSerial
<1>3. CASE RemoveStop(r)
  BY <1>1, <1>3, RemoveStopKeepsSerial
<1>4. CASE ~AddStart(r) /\ ~RemoveStop(r)
  <2>1. ChildrenRest
    BY <1>4, MoveLeavesChildren
  <2>2. r \in DOMAIN hpc
    BY DEF ProxyInv, ProxyTypeOK
  <2>3. ASSUME hpc[r] \notin LateOrTaking, hpc'[r] \in HandlerPoints \ LateOrTaking,
               children' = children, registered' = registered
        PROVE  SerialInv'
    BY <1>1, <2>1, <2>3, BlandKeepsSerial
  <2>4. CASE AddInsert(r)
    <3>1. CASE children[name[r]] = NoChild
      BY <1>1, <2>1, <2>4, <3>1, AddInsertKeepsSerial
    <3>2. CASE children[name[r]] # NoChild
      BY <2>2, <2>3, <2>4, <3>2 DEF AddInsert, Reply, Goto, LateOrTaking, HandlerPoints
    <3> QED BY <3>1, <3>2
  <2>5. CASE AddStarted(r)    BY <1>1, <2>1, <2>5, AddStartedKeepsSerial
  <2>6. CASE AddCheck(r)      BY <1>1, <2>1, <2>6, AddCheckKeepsSerial
  <2>7. CASE AddDrop(r)       BY <1>1, <2>1, <2>7, AddDropKeepsSerial
  <2>8. CASE RegisterTool(r)  BY <1>1, <2>1, <2>8, RegisterToolKeepsSerial
  <2>9. CASE RemoveTake(r)
    <3>1. CASE children[name[r]] # NoChild
      BY <1>1, <2>1, <2>9, <3>1, RemoveTakeKeepsSerial
    <3>2. CASE children[name[r]] = NoChild
      BY <2>2, <2>3, <2>9, <3>2 DEF RemoveTake, Reply, Goto, LateOrTaking, HandlerPoints
    <3> QED BY <3>1, <3>2
  <2>10. CASE RemoveTools(r)  BY <1>1, <2>1, <2>10, RemoveToolsKeepsSerial
  <2>11. CASE Removed(r)      BY <1>1, <2>1, <2>11, RemovedKeepsSerial
  <2>12. CASE ReloadConfig(r)
    BY <2>2, <2>3, <2>12 DEF ReloadConfig, Reply, Goto, LateOrTaking, HandlerPoints
  <2>13. CASE ListStep(r)
    BY <2>2, <2>3, <2>13 DEF ListStep, ListBegin, ListStatus, ListDetail, Reply, Goto,
       LateOrTaking, HandlerPoints
  <2>14. CASE ToolCallStep(r) \/ CallDone(r)
    BY <2>2, <2>3, <2>14 DEF ToolCallStep, CallLookup, CallSession, CallDone, CallFailed,
       Reply, Goto, LateOrTaking, HandlerPoints
  <2> QED BY <1>4, <2>4, <2>5, <2>6, <2>7, <2>8, <2>9, <2>10, <2>11, <2>12, <2>13, <2>14
          DEF HandlerMove, AddStep, RemoveStep
<1> QED BY <1>2, <1>3, <1>4

\* A stutter, a step of a child and one of a crash callback are quiet.
LEMMA ChildMoveKeepsSerial ==
  ASSUME IInv, ProxyInv, SerialInv,
         UNCHANGED vars \/ ChildStep \/ \E c \in Requests : CrashStep(c)
  PROVE  SerialInv'
<1> USE ProxyAssumption
<1>1. \A c \in Children : Lasting(c)
  <2>1. [Next]_vars
    BY DEF Next
  <2> QED BY <2>1, StepRefinesChild, ChildLasts
<1>2. CASE UNCHANGED vars
  BY <1>1, <1>2, StutterIsQuiet, ChildKeepsSerial DEF vars, proxyVars
<1>3. CASE ChildStep
  <2>1. Quiet
    BY <1>3, StartIsQuiet, MonitorIsQuiet, StopIsQuiet, CallIsQuiet
       DEF ChildStep, MonitorStep, CallStep
  <2> QED BY <1>1, <1>3, <2>1, ChildKeepsSerial DEF ChildStep, proxyVars
<1>4. ASSUME NEW c \in Requests, CrashStep(c) PROVE SerialInv'
  <2>1. Quiet
    BY <1>4, StutterIsQuiet, MonitorIsQuiet DEF CrashStep, CrashLookup, CrashRemove, MonitorStep
  <2>2. status'[c] = "crashed"
    BY <1>4 DEF IInv, ProcShape, CrashStep, CrashLookup, CrashRemove, Notify, childVars, fields
  <2>3. /\ UNCHANGED <<children, handlerVars, phase, toStop>>
        /\ registered' = registered \/ RemoveToolsForChild(c)
    BY <1>4 DEF CrashStep, CrashLookup, CrashRemove
  <2> QED BY <1>1, <2>1, <2>2, <2>3, ChildKeepsSerial
<1> QED BY <1>2, <1>3, <1>4

\* So every step keeps it, if no remove or reload overlaps with another change
\* of its server.
LEMMA NextSerialInv ==
  ASSUME OnePerServer, IInv, ProxyInv, SerialInv, [Next]_vars
  PROVE  SerialInv'
<1>1. ASSUME NEW r \in Requests, NEW o \in Ops, NEW n \in Names, Arrive(r, o, n)
      PROVE  SerialInv'
  BY <1>1, ArriveKeepsSerial
<1>2. ASSUME NEW r \in Requests, HandlerMove(r) PROVE SerialInv'
  BY <1>2, MoveKeepsSerial
<1>3. CASE ShutdownStep
  BY <1>3, ShutdownKeepsSerial, ShutdownStopKeepsSerial, ShutdownDoneKeepsSerial
     DEF ShutdownStep
<1>4. CASE UNCHANGED vars \/ ChildStep \/ \E c \in Requests : CrashStep(c)
  BY <1>4, ChildMoveKeepsSerial
<1> QED BY <1>1, <1>2, <1>3, <1>4 DEF Next, HandlerMove, Finished

\* Nothing is in the map and nothing is registered when the proxy begins.
LEMMA InitSerialInv == Init => SerialInv
BY ProxyAssumption, ChildAssumption
   DEF Init, ChildInit, SerialInv, Apart, Changing, InHandler, EntryShape, StartedShape, Accounted,
       Mapped, ToolsShown, Shows, DownShape

\* With removes and reloads that overlap with no other change of their server, and
\* any number of adds, tool calls, listings and changes of others, every child is
\* accounted for: it is in the map, in the hands of a handler or of Shutdown, or
\* has no process.
THEOREM SerialInvariant == OnePerServer => (Spec => [](IInv /\ ProxyInv /\ SerialInv))
<1> SUFFICES ASSUME OnePerServer PROVE Spec => [](IInv /\ ProxyInv /\ SerialInv)
  OBVIOUS
<1>1. Init => SerialInv
  BY InitSerialInv
<1>2. IInv /\ ProxyInv /\ SerialInv /\ [Next]_vars => SerialInv'
  BY NextSerialInv
<1> QED BY <1>1, <1>2, ProxyInvariant, PTL DEF Spec

\* No process outlives the proxy when its client's removes and reloads overlap
\* with no other change of their server (SPEC.md:150, main.go:30-42).
THEOREM SerialNoOrphan == OnePerServer => (Spec => []NoOrphan)
<1> SUFFICES ASSUME OnePerServer PROVE Spec => []NoOrphan
  OBVIOUS
<1>1. ASSUME IInv, ProxyInv, SerialInv, StoppedIsDead, CrashedIsDead, FailedStartIsDead
      PROVE  NoOrphan
  <2> SUFFICES ASSUME phase = "down", NEW c \in Children PROVE proc[c] # "alive"
    BY DEF NoOrphan
  <2> USE ProxyAssumption, ChildAssumption
  <2>1. /\ \A r \in Requests : ~InHandler(r)
        /\ \A n \in Names : children[n] = NoChild
    BY <1>1 DEF ProxyInv, ClaimShape
  <2>2. \A k \in Stoppers : ~Stopping(k, c)
    <3>1. ~Stopping(Main, c)
      BY <1>1 DEF SerialInv, DownShape
    <3>2. \A r \in Requests : ~Stopping(r, c)
      BY <1>1, <2>1 DEF ProxyInv, ClaimShape, InHandler
    <3> QED BY <3>1, <3>2
  <2>3. CASE status[c] = "new"
    BY <1>1, <2>3 DEF IInv, StartShape
  <2>4. CASE Over(c)
    BY <1>1, <2>2, <2>4 DEF Over, StoppedIsDead, CrashedIsDead
  <2>5. CASE startPC[c] = "returned" /\ startErr[c]
    BY <1>1, <2>2, <2>5 DEF FailedStartIsDead, Holds
  <2>6. ~Mapped(c) /\ c \notin toStop /\ \A r \in Requests : ~Removing(r, c)
    BY <1>1, <2>1 DEF Mapped, SerialInv, DownShape, Removing, InHandler
  <2> QED BY <1>1, <2>3, <2>4, <2>5, <2>6 DEF SerialInv, Accounted
<1> QED BY <1>1, SerialInvariant, ProxyImplementsChild, StopEndsProcess,
        StatusTellsTheTruth, FailedStartEndsProcess, PTL

\* A tool is registered only for a child in the map or one that is being removed,
\* and the tools of an added child are all there, and it runs, until a child of
\* its server crashes (proxy.go:155-171, 190-191, 308-316), whatever the client
\* does but let a remove or a reload overlap with another change of the server.
THEOREM SerialTools == OnePerServer => (Spec => []ToolsMatchChildren)
<1> SUFFICES ASSUME OnePerServer PROVE Spec => []ToolsMatchChildren
  OBVIOUS
<1>1. ASSUME IInv, ProxyInv, SerialInv PROVE ToolsMatchChildren
  <2> USE ProxyAssumption, ChildAssumption
  <2>1. ASSUME phase = "serving", NEW n \in Names, NEW t \in Tools, <<n, t>> \in registered
        PROVE  \E c \in Children : Shows(n, c) /\ t \in tools[c]
    BY <1>1, <2>1 DEF SerialInv, ToolsShown, Shown
  <2>2. ASSUME phase = "serving", NEW n \in Names, children[n] # NoChild,
               hpc[children[n]] = "done",
               \A c \in Children : name[c] = n => status[c] # "crashed"
        PROVE  {n} \X tools[children[n]] \subseteq registered /\ status[children[n]] = "running"
    <3>1. PICK c \in Children : c = children[n] /\ name[c] = n /\ status[c] # "stopped"
      BY <1>1, <2>2 DEF ProxyInv, ProxyTypeOK, MapShape
    <3>2. startPC[c] = "returned" /\ ~startErr[c]
      BY <1>1, <2>2, <3>1 DEF SerialInv, StartedShape, Mapped
    <3>3. status[c] = "running"
      BY <1>1, <2>2, <3>1, <3>2 DEF IInv, TypeOK, StartShape, Statuses
    <3>4. tools[c] \subseteq Tools /\ Shows(n, c) /\ Shown(c) = tools[c]
      BY <1>1, <2>2, <3>1 DEF IInv, TypeOK, Shows, Shown
    <3>5. \A t \in tools[c] : <<n, t>> \in registered
      BY <1>1, <2>2, <3>4 DEF SerialInv, ToolsShown
    <3> QED BY <3>1, <3>3, <3>5
  <2> QED BY <2>1, <2>2 DEF ToolsMatchChildren
<1> QED BY <1>1, SerialInvariant, PTL

(***************************************************************************)
(* The registry: ConfigInv is inductive with the other invariants, ...     *)
(***************************************************************************)
\* What a step of r's handler leaves of the requests and the map.
RequestsRest(r) ==
    /\ op' = op
    /\ \A q \in Requests \ {r} : reply'[q] = reply[q] /\ cfg'[q] = cfg[q]
    /\ \A n \in Names : children'[n] \in {children[n], r, NoChild}
    /\ \A n \in Names : children'[n] = children[n] \/ (n = name[r] /\ Changing(r))
    /\ cfg' = cfg \/ hpc[r] \in EarlyPoints

\* A handler writes its own results and, into the map, its own child or none
\* (proxy.go:113-262).
LEMMA MoveLeavesRequests ==
  ASSUME IInv, ProxyInv, NEW r \in Requests, HandlerMove(r)
  PROVE  RequestsRest(r)
<1> USE ProxyAssumption DEF ProxyInv, ProxyTypeOK, RequestsRest
<1>1. CASE AddStep(r)
  BY <1>1 DEF AddStep, AddInsert, AddStart, AddStarted, AddCheck, AddDrop, RegisterTool,
     Goto, Reply, SetChild, Changing, InHandler
<1>2. CASE RemoveStep(r)
  BY <1>2 DEF RemoveStep, ReloadConfig, RemoveTake, RemoveTools, RemoveStop, Removed, Goto,
     Reply, SetChild, Changing, InHandler, EarlyPoints, HandlerPoints
<1>3. CASE ListStep(r)
  BY <1>3 DEF ListStep, ListBegin, ListStatus, ListDetail, Goto, Reply
<1>4. CASE ToolCallStep(r) \/ CallDone(r)
  BY <1>4 DEF ToolCallStep, CallLookup, CallSession, CallFailed, CallDone, Goto, Reply
<1> QED BY <1>1, <1>2, <1>3, <1>4 DEF HandlerMove

\* What it leaves keeps the shape of the other requests ...
LEMMA OthersKeepConfig ==
  ASSUME ProxyInv, SerialInv, ConfigInv, NEW r \in Requests, OthersRest(r), RequestsRest(r),
         NEW q \in Requests \ {r}
  PROVE  ConfigShape(q)'
<1> USE ProxyAssumption, ChildAssumption DEF ProxyInv, ProxyTypeOK, ConfigInv, OthersRest, RequestsRest
<1>1. ConfigShape(q) /\ hpc'[q] = hpc[q] /\ name'[q] = name[q] /\ target'[q] = target[q]
      /\ op'[q] = op[q] /\ reply'[q] = reply[q] /\ cfg'[q] = cfg[q]
  OBVIOUS
<1>2. Mapped(q)' => Mapped(q)
  BY DEF Mapped
<1>3. target[q] \in Requests => cfg'[target[q]] = cfg[target[q]]
  BY DEF FreshShape
<1>4. ASSUME hpc[q] \in {"take", "stop", "stopping"} \/ (hpc[q] = "insert" /\ op[q] = "reload")
      PROVE  /\ name[q] \in Names /\ children'[name[q]] = children[name[q]]
             /\ children[name[q]] \in Requests =>
                   cfg'[children[name[q]]] = cfg[children[name[q]]]
  <2>1. name[q] \in Names /\ Changing(q) /\ op[q] # "add" /\ HandlerShape(q)
    BY <1>4 DEF HandlerShape, Changing, InHandler
  <2>2. children'[name[q]] # children[name[q]] => Changing(r) /\ name[r] = name[q]
    BY <2>1
  <2>3. children'[name[q]] = children[name[q]]
    BY <2>1, <2>2 DEF SerialInv, Apart
  <2>4. ASSUME children[name[q]] \in Requests
        PROVE  cfg'[children[name[q]]] = cfg[children[name[q]]]
    BY <2>1, <2>4 DEF FreshShape, Mapped
  <2> QED BY <2>1, <2>3, <2>4
<1> QED BY <1>1, <1>2, <1>3, <1>4 DEF ConfigShape

\* ... and each step the shape of its own.
LEMMA MoveKeepsOwnConfig ==
  ASSUME IInv, ProxyInv, SerialInv, ConfigInv, NEW r \in Requests, HandlerMove(r),
         RequestsRest(r)
  PROVE  ConfigShape(r)'
<1> USE ProxyAssumption, ChildAssumption DEF ProxyInv, ProxyTypeOK, ConfigInv, ConfigShape,
        RequestsRest
<1>0. ConfigShape(r) /\ HandlerShape(r) /\ FreshShape(r)
  OBVIOUS
<1>1. CASE AddInsert(r)
  BY <1>0, <1>1 DEF AddInsert, Reply, Goto, SetChild, Mapped, HandlerShape, Creating
<1>2. CASE AddStart(r)
  BY <1>0, <1>2 DEF AddStart, Goto, Mapped, HandlerShape
<1>3. CASE AddStarted(r)
  BY <1>0, <1>3 DEF AddStarted, Reply, Goto, SetChild, Mapped, HandlerShape
<1>4. CASE AddCheck(r)
  BY <1>0, <1>4 DEF AddCheck, Goto, Mapped, HandlerShape
<1>5. CASE AddDrop(r)
  BY <1>0, <1>5 DEF AddDrop, Reply, Goto, SetChild, Mapped, HandlerShape
<1>6. CASE RegisterTool(r)
  BY <1>0, <1>6 DEF RegisterTool, Reply, Goto, Mapped, HandlerShape
<1>7. CASE ReloadConfig(r)
  <2>1. name[r] \in Names /\ op[r] = "reload" /\ target[r] = NoChild /\ ~Mapped(r)
    BY <1>0, <1>7 DEF ReloadConfig, HandlerShape, FreshShape, EarlyPoints, HandlerPoints
  <2>2. children[name[r]] # NoChild => cfg[children[name[r]]] \in Requests
    BY <2>1 DEF Mapped
  <2>3. children[name[r]] # r
    BY <2>1 DEF Mapped
  <2> QED BY <1>0, <1>7, <2>1, <2>2, <2>3 DEF ReloadConfig, Reply, Goto, Mapped
<1>8. CASE RemoveTake(r)
  <2>1. name[r] \in Names /\ op[r] \in {"remove", "reload"} /\ ~Mapped(r)
    BY <1>0, <1>8 DEF RemoveTake, HandlerShape, FreshShape, EarlyPoints, HandlerPoints
  <2>2. children[name[r]] # NoChild => cfg[children[name[r]]] \in Requests
    BY <2>1 DEF Mapped
  <2> QED BY <1>0, <1>8, <2>1, <2>2 DEF RemoveTake, Reply, Goto, SetChild, Mapped
<1>9. CASE RemoveTools(r)
  BY <1>0, <1>9 DEF RemoveTools, Goto, Mapped, HandlerShape, SerialInv, EntryShape
<1>10. CASE RemoveStop(r)
  BY <1>0, <1>10 DEF RemoveStop, Goto, Mapped, HandlerShape
<1>11. CASE Removed(r)
  BY <1>0, <1>11 DEF Removed, Reply, Goto, Mapped, HandlerShape, Creating
<1>12. CASE ListStep(r)
  BY <1>0, <1>12 DEF ListStep, ListBegin, ListStatus, ListDetail, Reply, Goto, Mapped,
     HandlerShape
<1>13. CASE ToolCallStep(r) \/ CallDone(r)
  BY <1>0, <1>13 DEF ToolCallStep, CallLookup, CallSession, CallFailed, CallDone, Reply,
     Goto, Mapped, HandlerShape
<1> QED BY <1>1, <1>2, <1>3, <1>4, <1>5, <1>6, <1>7, <1>8, <1>9, <1>10, <1>11, <1>12, <1>13
        DEF HandlerMove, AddStep, RemoveStep

\* So every step of a handler keeps ConfigInv.
LEMMA MoveKeepsConfig ==
  ASSUME IInv, ProxyInv, SerialInv, ConfigInv, NEW r \in Requests, HandlerMove(r)
  PROVE  ConfigInv'
<1>1. OthersRest(r) /\ RequestsRest(r)
  BY MoveIsOwn, MoveLeavesRequests DEF SerialInv
<1>2. ConfigShape(r)'
  BY <1>1, MoveKeepsOwnConfig
<1>3. \A q \in Requests \ {r} : ConfigShape(q)'
  BY <1>1, OthersKeepConfig
<1> QED BY <1>2, <1>3 DEF ConfigInv

\* A request that arrives is nobody's child and nobody's target yet (proxy.go:91-118).
LEMMA ArriveKeepsConfig ==
  ASSUME IInv, ProxyInv, SerialInv, ConfigInv,
         NEW r \in Requests, NEW o \in Ops, NEW n \in Names, Arrive(r, o, n)
  PROVE  ConfigInv'
<1> USE ProxyAssumption, ChildAssumption
    DEF ProxyInv, ProxyTypeOK, SerialInv, ConfigInv, Arrive, Goto
<1>1. ~Mapped(r) /\ target[r] = NoChild /\ reply[r] = "none" /\ \A q \in Requests : target[q] # r
  BY DEF FreshShape, HandlerShape, EarlyPoints, HandlerPoints
<1>2. o \in {"add", "remove", "reload", "list", "call"}
  OBVIOUS
<1>3. ConfigShape(r)'
  BY <1>1, <1>2 DEF ConfigShape, Mapped, FirstPoint, Creating
<1>4. ASSUME NEW q \in Requests \ {r} PROVE ConfigShape(q)'
  <2>1. ConfigShape(q) /\ hpc'[q] = hpc[q] /\ name'[q] = name[q] /\ cfg'[q] = cfg[q]
        /\ op'[q] = op[q] /\ (hpc[q] # "idle" => name[q] \in Names)
    BY DEF HandlerShape
  <2>2. target[q] \in Requests => cfg'[target[q]] = cfg[target[q]]
    BY <1>1
  <2>3. \A m \in Names : children[m] # r
    BY <1>1 DEF Mapped
  <2> QED BY <2>1, <2>2, <2>3 DEF ConfigShape, Mapped
<1> QED BY <1>3, <1>4

\* Nothing else writes a configuration or an operation, and Shutdown finds no
\* handler at work (proxy.go:60-73, 294-316).
LEMMA QuietKeepsConfig ==
  ASSUME ProxyInv, ConfigInv, UNCHANGED handlerVars,
         \/ children' = children
         \/ children' = [n \in Names |-> NoChild] /\ \A r \in Requests : ~InHandler(r)
  PROVE  ConfigInv'
<1> USE ProxyAssumption, ChildAssumption
    DEF ProxyInv, ProxyTypeOK, ConfigInv, ConfigShape, Mapped, handlerVars
<1>1. CASE children' = children
  BY <1>1
<1>2. CASE children' = [n \in Names |-> NoChild] /\ \A r \in Requests : ~InHandler(r)
  BY <1>2 DEF InHandler
<1> QED BY <1>1, <1>2

\* So every step keeps it.
LEMMA NextConfigInv ==
  ASSUME IInv, ProxyInv, SerialInv, ConfigInv, [Next]_vars
  PROVE  ConfigInv'
<1>1. ASSUME NEW r \in Requests, NEW o \in Ops, NEW n \in Names, Arrive(r, o, n)
      PROVE  ConfigInv'
  BY <1>1, ArriveKeepsConfig
<1>2. ASSUME NEW r \in Requests, HandlerMove(r) PROVE ConfigInv'
  BY <1>2, MoveKeepsConfig
<1>3. CASE ShutdownStep
  BY <1>3, QuietKeepsConfig DEF ShutdownStep, Shutdown, ShutdownStop, ShutdownDone
<1>4. CASE UNCHANGED vars \/ ChildStep \/ \E c \in Requests : CrashStep(c)
  BY <1>4, QuietKeepsConfig DEF vars, proxyVars, ChildStep, CrashStep, CrashLookup, CrashRemove
<1> QED BY <1>1, <1>2, <1>3, <1>4 DEF Next, HandlerMove, Finished

\* No request has been sent when the proxy begins.
LEMMA InitConfigInv == Init => ConfigInv
BY ProxyAssumption, ChildAssumption DEF Init, ConfigInv, ConfigShape, Mapped, Creating

\* With the same client the configuration of a child is that of the add_server
\* its line of reloads began with.
THEOREM SerialConfig == OnePerServer => (Spec => [](ProxyInv /\ SerialInv /\ ConfigInv))
<1> SUFFICES ASSUME OnePerServer PROVE Spec => [](ProxyInv /\ SerialInv /\ ConfigInv)
  OBVIOUS
<1>1. Init => ConfigInv
  BY InitConfigInv
<1>2. IInv /\ ProxyInv /\ SerialInv /\ ConfigInv /\ [Next]_vars => ConfigInv'
  BY NextConfigInv
<1> QED BY <1>1, <1>2, SerialInvariant, PTL DEF Spec

\* reload_server "preserves the original spawn configuration" (SPEC.md:104-105)
\* when no other change of the server overlaps with it.
THEOREM SerialReload == OnePerServer => (Spec => []ReloadKeepsConfig)
<1> SUFFICES ASSUME OnePerServer PROVE Spec => []ReloadKeepsConfig
  OBVIOUS
<1>1. ProxyInv /\ ConfigInv => ReloadKeepsConfig
  BY DEF ProxyInv, HandlerShape, ConfigInv, ConfigShape, ReloadKeepsConfig
<1> QED BY <1>1, SerialConfig, PTL

(***************************************************************************)
(* ... and with it every step is one of the registry, or none.             *)
(***************************************************************************)
\* The configuration of the server n when only adds work on it.
Settled(n) ==
    IF children[n] = NoChild \/ InHandler(children[n]) THEN NoChild ELSE cfg[children[n]]

\* The same while r works on it.
Worked(r) ==
    IF op[r] \in {"remove", "reload"} /\ target[r] # NoChild THEN cfg[target[r]]
    ELSE Settled(name[r])

\* What the table of the registry is: where nobody takes a server out, and where
\* a handler changes it.
EntriesAre == \A n \in Names :
    /\ (\A q \in Requests : Changing(q) /\ name[q] = n => op[q] = "add") => Entry(n) = Settled(n)
    /\ \A r \in Requests : Changing(r) /\ name[r] = n => Entry(n) = Worked(r)

\* Which handlers change a server is seen from their operation (proxy.go:113-262).
LEMMA ChangingIsAnOp ==
  ASSUME ProxyInv, ConfigInv, NEW r \in Requests
  PROVE  Changing(r) <=> InHandler(r) /\ op[r] \in {"add", "remove", "reload"}
<1>1. HandlerShape(r) /\ ConfigShape(r) /\ hpc[r] \in HandlerPoints
  BY DEF ProxyInv, ProxyTypeOK, ConfigInv
<1> QED BY <1>1 DEF HandlerShape, ConfigShape, HandlerPoints, Changing, InHandler, Creating

\* The same in the state after a step.
LEMMA ChangingIsAnOpThen ==
  ASSUME ProxyInv', ConfigInv', NEW r \in Requests
  PROVE  Changing(r)' <=> InHandler(r)' /\ op'[r] \in {"add", "remove", "reload"}
<1>1. HandlerShape(r)' /\ ConfigShape(r)' /\ hpc'[r] \in HandlerPoints
  BY DEF ProxyInv, ProxyTypeOK, ConfigInv
<1> QED BY <1>1 DEF HandlerShape, ConfigShape, HandlerPoints, Changing, InHandler, Creating

\* The child in the map whose handler is under way is one that is being added.
LEMMA MappedIsChanging ==
  ASSUME ProxyInv, NEW n \in Names, children[n] # NoChild
  PROVE  /\ children[n] \in Requests /\ name[children[n]] = n
         /\ InHandler(children[n]) => Changing(children[n])
<1>1. children[n] \in Requests /\ name[children[n]] = n
  BY DEF ProxyInv, ProxyTypeOK, MapShape
<1>2. hpc[children[n]] \notin EarlyPoints /\ hpc[children[n]] \in HandlerPoints
  BY <1>1 DEF ProxyInv, ProxyTypeOK, FreshShape, Mapped
<1> QED BY <1>1, <1>2 DEF EarlyPoints, HandlerPoints, InHandler, Changing

\* A handler works on the server it was asked for, and on no other; a remove or a
\* reload is the only one that changes it (SPEC.md:57-106).
LEMMA EntriesUnderInv == ProxyInv /\ SerialInv /\ ConfigInv => EntriesAre
<1> SUFFICES ASSUME ProxyInv, SerialInv, ConfigInv, NEW n \in Names
             PROVE  /\ (\A q \in Requests : Changing(q) /\ name[q] = n => op[q] = "add")
                          => Entry(n) = Settled(n)
                    /\ \A r \in Requests : Changing(r) /\ name[r] = n => Entry(n) = Worked(r)
  BY DEF EntriesAre
<1> USE ProxyAssumption, ChildAssumption
<1>1. \A q \in Requests : Changing(q) <=> InHandler(q) /\ op[q] \in {"add", "remove", "reload"}
  BY ChangingIsAnOp
<1>2. Replaced(n) = {} => Entry(n) = Settled(n)
  BY DEF Entry, Settled
<1>3. ASSUME \A q \in Requests : Changing(q) /\ name[q] = n => op[q] = "add"
      PROVE  Entry(n) = Settled(n)
  <2>1. Replaced(n) = {}
    BY <1>1, <1>3 DEF Replaced
  <2> QED BY <1>2, <2>1
<1>4. ASSUME NEW r \in Requests, Changing(r), name[r] = n
      PROVE  Entry(n) = Worked(r)
  <2>1. CASE op[r] = "add"
    <3>1. \A q \in Requests : Changing(q) /\ name[q] = n => op[q] = "add"
      BY <1>4, <2>1 DEF SerialInv, Apart
    <3> QED BY <1>3, <1>4, <2>1, <3>1 DEF Worked
  <2>2. CASE op[r] # "add"
    <3>1. \A q \in Requests : Changing(q) /\ name[q] = n => q = r
      BY <1>4, <2>2 DEF SerialInv, Apart
    <3>2. CASE op[r] \in {"remove", "reload"} /\ target[r] # NoChild
      <4>1. Replaced(n) = {target[r]}
        BY <1>1, <1>4, <3>1, <3>2 DEF Replaced
      <4>2. (CHOOSE c \in Replaced(n) : TRUE) = target[r]
        BY <4>1
      <4> QED BY <3>2, <4>1, <4>2 DEF Entry, Worked
    <3>3. CASE ~(op[r] \in {"remove", "reload"} /\ target[r] # NoChild)
      <4>1. Replaced(n) = {}
        BY <1>1, <3>1, <3>3 DEF Replaced
      <4> QED BY <1>2, <1>4, <3>3, <4>1 DEF Worked
    <3> QED BY <3>2, <3>3
  <2> QED BY <2>1, <2>2
<1> QED BY <1>3, <1>4

\* The same in the state after a step.
LEMMA EntriesAfterStep == ProxyInv' /\ SerialInv' /\ ConfigInv' => EntriesAre'
BY EntriesUnderInv, PTL

\* A step of r's handler leaves the entries of the servers it does not work on
\* (proxy.go:113-262).
LEMMA MoveLeavesOthers ==
  ASSUME IInv, ProxyInv, NEW r \in Requests, HandlerMove(r)
  PROVE  \A n \in Names :
            (\/ n # name[r]
             \/ op[r] \notin {"add", "remove", "reload"} /\ ~Mapped(r) /\ children' = children)
            => Entry(n)' = Entry(n)
<1> SUFFICES ASSUME NEW n \in Names,
                    \/ n # name[r]
                    \/ op[r] \notin {"add", "remove", "reload"} /\ ~Mapped(r) /\ children' = children
             PROVE  Entry(n)' = Entry(n)
  OBVIOUS
<1> USE ProxyAssumption, ChildAssumption
<1>1. OthersRest(r) /\ RequestsRest(r)
  BY MoveIsOwn, MoveLeavesRequests
<1>2. children'[n] = children[n] /\ children[n] # r
  BY <1>1 DEF RequestsRest, ProxyInv, ProxyTypeOK, MapShape, Mapped
<1>3. Replaced(n)' = Replaced(n)
  BY <1>1 DEF Replaced, OthersRest, RequestsRest, InHandler
<1>4. \A c \in Requests : c \in Replaced(n) \/ c = children[n] => cfg'[c] = cfg[c]
  BY <1>1, <1>2 DEF RequestsRest, Replaced, ProxyInv, FreshShape
<1>5. Replaced(n) # {} => (CHOOSE c \in Replaced(n) : TRUE) \in Replaced(n) \cap Requests
  <2>1. Replaced(n) \subseteq Requests
    BY DEF Replaced, ProxyInv, ProxyTypeOK
  <2> QED BY <2>1
<1>6. children[n] # NoChild => children[n] \in Requests /\ (InHandler(children[n])' <=> InHandler(children[n]))
  BY <1>1, <1>2 DEF ProxyInv, ProxyTypeOK, OthersRest, InHandler
<1> QED BY <1>2, <1>3, <1>4, <1>5, <1>6 DEF Entry

\* A step of a handler that changes a server leaves the table but for the entry
\* of that server.
LEMMA MoveLeavesEntries ==
  ASSUME IInv, ProxyInv, ProxyInv', SerialInv, SerialInv', ConfigInv, ConfigInv',
         NEW r \in Requests, AddStep(r) \/ RemoveStep(r)
  PROVE  /\ name[r] \in Names /\ InHandler(r) /\ reply[r] = "none"
         /\ UNCHANGED <<op, name, phase, Served>> /\ phase = "serving"
         /\ Entry(name[r]) = Worked(r)
         /\ Entry(name[r])' = IF InHandler(r)' THEN Worked(r)' ELSE Settled(name[r])'
         /\ Entries' = [Entries EXCEPT ![name[r]] = Entry(name[r])']
<1> USE ProxyAssumption, ChildAssumption
<1>1. OthersRest(r) /\ RequestsRest(r) /\ HandlerMove(r)
  BY MoveIsOwn, MoveLeavesRequests DEF HandlerMove
<1>2. name[r] \in Names /\ InHandler(r) /\ reply[r] = "none"
  <2>1. InHandler(r) /\ HandlerShape(r)
    BY <1>1 DEF OthersRest, ProxyInv
  <2> QED BY <2>1 DEF InHandler, HandlerShape
<1>3. UNCHANGED <<op, name, phase>> /\ phase = "serving"
  BY <1>1 DEF OthersRest, RequestsRest
<1>4. Changing(r) /\ op[r] \in {"add", "remove", "reload"} /\ (Changing(r)' <=> InHandler(r)')
  <2>1. Changing(r)
    BY <1>2 DEF AddStep, AddInsert, AddStart, AddStarted, AddCheck, AddDrop, RegisterTool,
       RemoveStep, ReloadConfig, RemoveTake, RemoveTools, RemoveStop, Removed, Changing
  <2>2. /\ Changing(r) <=> InHandler(r) /\ op[r] \in {"add", "remove", "reload"}
        /\ Changing(r)' <=> InHandler(r)' /\ op'[r] \in {"add", "remove", "reload"}
    BY ChangingIsAnOp, ChangingIsAnOpThen
  <2> QED BY <1>3, <2>1, <2>2
<1>5. UNCHANGED Served
  BY <1>1, <1>3, <1>4 DEF Served, OthersRest
<1>6. /\ Entry(name[r]) = Worked(r)
      /\ Entry(name[r])' = IF InHandler(r)' THEN Worked(r)' ELSE Settled(name[r])'
  <2>1. PICK m \in Names : m = name[r]
    BY <1>2
  <2>2. EntriesAre /\ EntriesAre'
    BY EntriesUnderInv, EntriesAfterStep
  <2>3. Entry(m) = Worked(r) /\ (InHandler(r)' => Entry(m)' = Worked(r)')
    BY <1>3, <1>4, <2>1, <2>2 DEF EntriesAre
  <2>4. ~InHandler(r)' =>
           \A q \in Requests : Changing(q)' /\ name'[q] = m => op'[q] = "add"
    BY <1>1, <1>3, <1>4, <2>1 DEF SerialInv, Apart, OthersRest, Changing, InHandler
  <2>5. ~InHandler(r)' => Entry(m)' = Settled(m)'
    BY <2>2, <2>4 DEF EntriesAre
  <2>6. Entry(name[r])' = Entry(m)' /\ Settled(name[r])' = Settled(m)'
    BY <1>3, <2>1 DEF Entry, Replaced, Settled
  <2> QED BY <2>1, <2>3, <2>5, <2>6
<1>7. Entries' = [Entries EXCEPT ![name[r]] = Entry(name[r])']
  <2>1. PICK m \in Names : m = name[r]
    BY <1>2
  <2>2. Entry(name[r])' = Entry(m)'
    BY <1>3, <2>1 DEF Entry, Replaced
  <2>3. ASSUME NEW n \in Names, n # m PROVE Entry(n)' = Entry(n)
    <3>1. n # name[r]
      BY <2>1, <2>3
    <3>2. IInv /\ ProxyInv /\ HandlerMove(r)
      BY <1>1
    <3> QED BY <3>1, <3>2, MoveLeavesOthers
  <2>4. Entries = [n \in Names |-> Entry(n)] /\ Entries' = [n \in Names |-> Entry(n)']
    BY DEF Entries
  <2>5. Entries' = [Entries EXCEPT ![m] = Entry(m)']
    BY <2>3, <2>4
  <2> QED BY <2>1, <2>2, <2>5
<1> QED BY <1>2, <1>3, <1>5, <1>6, <1>7

\* A step after which r's handler goes on is none of the registry, if its
\* server keeps its entry.
LEMMA GoingOn ==
  ASSUME IInv, ProxyInv, ProxyInv', SerialInv, SerialInv', ConfigInv, ConfigInv',
         NEW r \in Requests, AddStep(r) \/ RemoveStep(r),
         InHandler(r)', reply' = reply, Worked(r)' = Worked(r)
  PROVE  UNCHANGED Table!registryVars
<1>1. /\ UNCHANGED <<op, name, phase, Served>> /\ name[r] \in Names
      /\ Entry(name[r])' = Entry(name[r])
      /\ Entries' = [Entries EXCEPT ![name[r]] = Entry(name[r])']
  BY MoveLeavesEntries
<1>2. Entries[name[r]] = Entry(name[r]) /\ Entries = [n \in Names |-> Entries[n]]
  BY <1>1 DEF Entries
<1>3. Entries' = Entries
  BY <1>1, <1>2
<1> QED BY <1>1, <1>3 DEF Table!registryVars

\* One with which it answers is a step of the registry, on the entry of its server.
LEMMA Answering ==
  ASSUME IInv, ProxyInv, ProxyInv', SerialInv, SerialInv', ConfigInv, ConfigInv',
         NEW r \in Requests, AddStep(r) \/ RemoveStep(r),
         NEW result \in {"ok", "error"}, Reply(r, result)
  PROVE  /\ \A o \in Table!Asked : op[r] = o => Table!Answer(r, o, result)
         /\ Table!Has(name[r]) <=> Worked(r) # NoChild
         /\ Settled(name[r])' = Worked(r) => UNCHANGED Entries
         /\ \A c \in Requests \cup {NoChild} :
               Settled(name[r])' = c => Table!SetTable(name[r], c)
<1>1. /\ name[r] \in Names /\ reply[r] = "none" /\ UNCHANGED <<op, name, phase, Served>>
      /\ phase = "serving" /\ Entry(name[r]) = Worked(r)
      /\ Entry(name[r])' = IF InHandler(r)' THEN Worked(r)' ELSE Settled(name[r])'
      /\ Entries' = [Entries EXCEPT ![name[r]] = Entry(name[r])']
  BY MoveLeavesEntries
<1>2. ~InHandler(r)'
  BY DEF Reply, Goto, InHandler, ProxyInv, ProxyTypeOK
<1>3. Entries' = [Entries EXCEPT ![name[r]] = Settled(name[r])']
  BY <1>1, <1>2
<1>4. Entries[name[r]] = Worked(r) /\ Entries = [n \in Names |-> Entries[n]]
  BY <1>1 DEF Entries
<1>5. \A o \in Table!Asked : op[r] = o => Table!Answer(r, o, result)
  BY <1>1 DEF Table!Answer, Reply
<1>6. Table!Has(name[r]) <=> Worked(r) # NoChild
  BY <1>4 DEF Table!Has
<1>7. Settled(name[r])' = Worked(r) => UNCHANGED Entries
  BY <1>3, <1>4
<1>8. \A c \in Requests \cup {NoChild} : Settled(name[r])' = c => Table!SetTable(name[r], c)
  BY <1>3 DEF Table!SetTable
<1> QED BY <1>5, <1>6, <1>7, <1>8

\* Which handlers are under way changes with a step only for r's own; so does
\* what is settled, if the map stays.
LEMMA SettledStays ==
  ASSUME IInv, ProxyInv, NEW r \in Requests, HandlerMove(r)
  PROVE  /\ InHandler(r) /\ \A q \in Requests \ {r} : InHandler(q)' <=> InHandler(q)
         /\ children' = children /\ (~Mapped(r) \/ (cfg' = cfg /\ InHandler(r)')) =>
               \A n \in Names : n = name[r] => Settled(n)' = Settled(n)
<1> USE ProxyAssumption, ChildAssumption DEF ProxyInv, ProxyTypeOK
<1>1. InHandler(r) /\ \A q \in Requests \ {r} : InHandler(q)' <=> InHandler(q)
  BY MoveIsOwn DEF OthersRest, InHandler
<1>2. \A q \in Requests \ {r} : cfg'[q] = cfg[q]
  BY MoveLeavesRequests DEF RequestsRest
<1>3. ASSUME children' = children, ~Mapped(r) \/ (cfg' = cfg /\ InHandler(r)'),
             NEW n \in Names, n = name[r]
      PROVE  Settled(n)' = Settled(n)
  <2>1. CASE children[n] = NoChild
    BY <1>3, <2>1 DEF Settled
  <2>2. CASE children[n] # NoChild
    <3>1. PICK q \in Requests : q = children[n]
      BY <2>2
    <3>2. cfg'[q] = cfg[q] /\ (InHandler(q)' <=> InHandler(q))
      BY <1>1, <1>2, <1>3, <3>1 DEF Mapped
    <3>3. InHandler(children[n])' <=> InHandler(q)'
      BY <1>3, <3>1 DEF InHandler
    <3> QED BY <1>3, <2>2, <3>1, <3>2, <3>3 DEF Settled
  <2> QED BY <2>1, <2>2
<1> QED BY <1>1, <1>3

\* add_server and the second half of reload_server (proxy.go:113-178): the entry
\* appears, or the one of a reload disappears, when the handler answers.
LEMMA AddRefines ==
  ASSUME IInv, ProxyInv, ProxyInv', SerialInv, SerialInv', ConfigInv, ConfigInv',
         NEW r \in Requests, AddStep(r)
  PROVE  [Table!RegistryNext]_(Table!registryVars)
<1> USE ProxyAssumption, ChildAssumption DEF ProxyInv, ProxyTypeOK
<1>0. /\ HandlerMove(r) /\ name' = name /\ op' = op /\ name[r] \in Names
      /\ HandlerShape(r) /\ FreshShape(r) /\ EntryShape(r) /\ ConfigShape(r)
  BY MoveLeavesEntries DEF HandlerMove, SerialInv, ConfigInv
<1>1. op[r] \in {"add", "reload"} /\ cfg' = cfg
  BY <1>0 DEF AddStep, AddInsert, AddStart, AddStarted, AddCheck, AddDrop, RegisterTool,
     ConfigShape, Creating
<1>a. ASSUME InHandler(r)', reply' = reply, Worked(r)' = Worked(r)
      PROVE  [Table!RegistryNext]_(Table!registryVars)
  BY <1>0, <1>a, GoingOn
<1>c. /\ InHandler(r)
      /\ children' = children /\ (~Mapped(r) \/ (cfg' = cfg /\ InHandler(r)')) =>
            Settled(name[r])' = Settled(name[r])
  <2>1. PICK n \in Names : n = name[r]
    BY <1>0
  <2>2. Settled(name[r])' = Settled(n)' /\ Settled(name[r]) = Settled(n)
    BY <1>0, <2>1 DEF Settled
  <2> QED BY <1>0, <2>1, <2>2, SettledStays
<1>b. ASSUME Reply(r, "error"), op[r] = "add" => Settled(name[r])' = Worked(r),
             op[r] = "reload" => Settled(name[r])' = NoChild
      PROVE  [Table!RegistryNext]_(Table!registryVars)
  <2>1. CASE op[r] = "add"
    <3>1. Table!AddFails(r)
      BY <1>0, <1>b, <2>1, Answering DEF Table!AddFails, Table!Asked
    <3> QED BY <3>1 DEF Table!RegistryNext
  <2>2. CASE op[r] = "reload"
    <3>1. Table!ReloadFails(r)
      BY <1>0, <1>b, <2>2, Answering DEF Table!ReloadFails, Table!Asked
    <3> QED BY <3>1 DEF Table!RegistryNext
  <2> QED BY <1>1, <2>1, <2>2
<1>2. CASE AddInsert(r)
  <2>1. hpc[r] = "insert" /\ ~Mapped(r)
    BY <1>0, <1>2 DEF AddInsert, FreshShape, EarlyPoints, HandlerPoints
  <2>2. CASE children[name[r]] # NoChild
    <3>1. Reply(r, "error") /\ children' = children /\ op[r] = "add"
      BY <1>0, <1>1, <1>2, <2>1, <2>2 DEF AddInsert, ConfigShape
    <3>2. Settled(name[r])' = Worked(r)
      <4>1. Settled(name[r])' = Settled(name[r])
        BY <1>c, <2>1, <3>1
      <4>2. Worked(r) = Settled(name[r])
        BY <3>1 DEF Worked
      <4> QED BY <4>1, <4>2
    <3> QED BY <1>b, <3>1, <3>2
  <2>3. CASE children[name[r]] = NoChild
    <3>1. /\ reply' = reply /\ target' = target /\ InHandler(r)'
          /\ children' = [children EXCEPT ![name[r]] = r]
      BY <1>2, <2>3 DEF AddInsert, SetChild, Goto, InHandler
    <3>2. Worked(r)' = Worked(r)
      BY <1>0, <1>1, <2>3, <3>1 DEF Worked, Settled, InHandler
    <3> QED BY <1>a, <3>1, <3>2
  <2> QED BY <2>2, <2>3
<1>3. ASSUME UNCHANGED <<children, target, reply>>, InHandler(r)'
      PROVE  [Table!RegistryNext]_(Table!registryVars)
  <2>1. Worked(r)' = Worked(r)
    BY <1>0, <1>1, <1>3, <1>c DEF Worked
  <2> QED BY <1>3, <1>a, <2>1
<1>4. CASE AddStart(r) \/ AddCheck(r)
  BY <1>3, <1>4 DEF AddStart, AddCheck, Goto, InHandler
<1>5. ASSUME hpc[r] \in {"starting", "drop"}, children' = [children EXCEPT ![name[r]] = NoChild],
             Reply(r, "error")
      PROVE  [Table!RegistryNext]_(Table!registryVars)
  <2>1. Settled(name[r])' = NoChild
    BY <1>0, <1>5 DEF Settled
  <2>2. op[r] = "add" => Worked(r) = NoChild
    BY <1>0, <1>5, <1>c DEF Worked, Settled, EntryShape
  <2> QED BY <1>5, <1>b, <2>1, <2>2
<1>6. CASE AddStarted(r)
  BY <1>3, <1>5, <1>6 DEF AddStarted, SetChild, Goto, InHandler
<1>7. CASE AddDrop(r)
  BY <1>5, <1>7 DEF AddDrop, SetChild
<1>8. CASE RegisterTool(r)
  <2>1. CASE todo[r] # {}
    BY <1>3, <1>8, <2>1 DEF RegisterTool, InHandler
  <2>2. CASE todo[r] = {}
    <3>1. Reply(r, "ok") /\ children' = children /\ hpc[r] = "register"
      BY <1>8, <2>2 DEF RegisterTool
    <3>2. children[name[r]] = r /\ cfg[r] \in Requests
      BY <1>0, <3>1 DEF EntryShape, ConfigShape
    <3>3. Settled(name[r])' = cfg[r]
      BY <1>0, <1>1, <3>1, <3>2 DEF Settled, InHandler, Reply, Goto
    <3>4. CASE op[r] = "add"
      <4>1. cfg[r] = r /\ Worked(r) = NoChild
        BY <1>0, <1>c, <3>2, <3>4 DEF ConfigShape, Worked, Settled
      <4>2. Table!Add(r)
        BY <1>0, <3>1, <3>3, <3>4, <4>1, Answering DEF Table!Add, Table!Asked
      <4> QED BY <4>2 DEF Table!RegistryNext
    <3>5. CASE op[r] = "reload"
      <4>1. target[r] \in Requests /\ cfg[r] = cfg[target[r]]
        BY <1>0, <3>1, <3>5 DEF ConfigShape, HandlerShape
      <4>2. Worked(r) = cfg[r]
        BY <3>5, <4>1 DEF Worked
      <4>3. Table!Reload(r)
        BY <1>0, <3>1, <3>2, <3>3, <3>5, <4>2, Answering DEF Table!Reload, Table!Asked
      <4> QED BY <4>3 DEF Table!RegistryNext
    <3> QED BY <1>1, <3>4, <3>5
  <2> QED BY <2>1, <2>2
<1> QED BY <1>2, <1>4, <1>6, <1>7, <1>8 DEF AddStep

\* remove_server and the first half of reload_server (proxy.go:180-218): the entry
\* disappears when remove_server answers; reload_server keeps it.
LEMMA RemoveRefines ==
  ASSUME IInv, ProxyInv, ProxyInv', SerialInv, SerialInv', ConfigInv, ConfigInv',
         NEW r \in Requests, RemoveStep(r)
  PROVE  [Table!RegistryNext]_(Table!registryVars)
<1> USE ProxyAssumption, ChildAssumption DEF ProxyInv, ProxyTypeOK
<1>0. /\ HandlerMove(r) /\ name' = name /\ op' = op /\ name[r] \in Names
      /\ HandlerShape(r) /\ FreshShape(r) /\ ConfigShape(r)
  BY MoveLeavesEntries DEF HandlerMove, ConfigInv
<1>1. op[r] \in {"remove", "reload"}
  BY <1>0 DEF RemoveStep, ReloadConfig, RemoveTake, RemoveTools, RemoveStop, Removed, HandlerShape
<1>a. ASSUME InHandler(r)', reply' = reply, Worked(r)' = Worked(r)
      PROVE  [Table!RegistryNext]_(Table!registryVars)
  BY <1>0, <1>a, GoingOn
<1>c. /\ InHandler(r)
      /\ children' = children /\ (~Mapped(r) \/ (cfg' = cfg /\ InHandler(r)')) =>
            Settled(name[r])' = Settled(name[r])
  <2>1. PICK n \in Names : n = name[r]
    BY <1>0
  <2>2. Settled(name[r])' = Settled(n)' /\ Settled(name[r]) = Settled(n)
    BY <1>0, <2>1 DEF Settled
  <2> QED BY <1>0, <2>1, <2>2, SettledStays
<1>2. ASSUME hpc[r] \in {"config", "take"}
      PROVE  Worked(r) = IF children[name[r]] = NoChild THEN NoChild
                         ELSE cfg[children[name[r]]]
  <2>1. target[r] = NoChild /\ ~Mapped(r)
    BY <1>0, <1>2 DEF HandlerShape, FreshShape, EarlyPoints, HandlerPoints
  <2>2. ASSUME children[name[r]] # NoChild PROVE ~InHandler(children[name[r]])
    <3>1. /\ children[name[r]] \in Requests \ {r} /\ name[children[name[r]]] = name[r]
          /\ InHandler(children[name[r]]) => Changing(children[name[r]])
      BY <1>0, <2>1, <2>2, MappedIsChanging DEF Mapped
    <3>2. Changing(r)
      BY <1>2, <1>c DEF Changing
    <3> QED BY <1>1, <3>1, <3>2 DEF SerialInv, Apart
  <2> QED BY <1>0, <2>1, <2>2 DEF Worked, Settled
\* There is no such server.
<1>3. ASSUME hpc[r] \in {"config", "take"}, children[name[r]] = NoChild, Reply(r, "error"),
             UNCHANGED <<children, cfg>>
      PROVE  [Table!RegistryNext]_(Table!registryVars)
  <2>1. Worked(r) = NoChild /\ Settled(name[r])' = NoChild
    BY <1>0, <1>2, <1>3 DEF Settled
  <2>2. CASE op[r] = "remove"
    <3>1. Table!RemoveFails(r)
      BY <1>0, <1>3, <2>1, <2>2, Answering DEF Table!RemoveFails, Table!Asked
    <3> QED BY <3>1 DEF Table!RegistryNext
  <2>3. CASE op[r] = "reload"
    <3>1. Table!ReloadFails(r)
      BY <1>0, <1>3, <2>1, <2>3, Answering DEF Table!ReloadFails, Table!Asked
    <3> QED BY <3>1 DEF Table!RegistryNext
  <2> QED BY <1>1, <2>2, <2>3
<1>4. CASE ReloadConfig(r)
  <2>1. CASE children[name[r]] = NoChild
    BY <1>3, <1>4, <2>1 DEF ReloadConfig
  <2>2. CASE children[name[r]] # NoChild
    <3>1. /\ hpc[r] = "config" /\ target[r] = NoChild /\ ~Mapped(r)
          /\ UNCHANGED <<children, target, reply>> /\ InHandler(r)'
          /\ \A q \in Requests \ {r} : cfg'[q] = cfg[q]
      BY <1>0, <1>4, <2>2 DEF ReloadConfig, Goto, InHandler, HandlerShape, FreshShape,
         EarlyPoints, HandlerPoints
    <3>2. Worked(r)' = Worked(r)
      BY <1>0, <1>c, <3>1 DEF Worked
    <3> QED BY <1>a, <3>1, <3>2
  <2> QED BY <2>1, <2>2
<1>5. CASE RemoveTake(r)
  <2>1. CASE children[name[r]] = NoChild
    BY <1>3, <1>5, <2>1 DEF RemoveTake
  <2>2. CASE children[name[r]] # NoChild
    <3>1. /\ hpc[r] = "take" /\ target' = [target EXCEPT ![r] = children[name[r]]]
          /\ UNCHANGED <<cfg, reply>> /\ InHandler(r)'
      BY <1>5, <2>2 DEF RemoveTake, Goto, InHandler
    <3>2. Worked(r)' = cfg[children[name[r]]]
      BY <1>0, <1>1, <2>2, <3>1 DEF Worked
    <3> QED BY <1>2, <1>a, <2>2, <3>1, <3>2
  <2> QED BY <2>1, <2>2
<1>6. ASSUME UNCHANGED <<children, cfg, target, reply>>, InHandler(r)'
      PROVE  [Table!RegistryNext]_(Table!registryVars)
  <2>1. Worked(r)' = Worked(r)
    BY <1>0, <1>6, <1>c DEF Worked
  <2> QED BY <1>6, <1>a, <2>1
<1>7. CASE RemoveTools(r) \/ RemoveStop(r)
  BY <1>6, <1>7 DEF RemoveTools, RemoveStop, Goto, InHandler
<1>8. CASE Removed(r)
  <2>1. CASE op[r] = "reload"
    BY <1>6, <1>8, <2>1 DEF Removed, Goto, InHandler
  <2>2. CASE op[r] = "remove"
    <3>1. Reply(r, "ok") /\ UNCHANGED <<children, cfg>> /\ hpc[r] = "stopping"
      BY <1>8, <2>2 DEF Removed
    <3>2. target[r] \in Requests /\ cfg[target[r]] \in Requests /\ children[name[r]] = NoChild
      BY <1>0, <2>2, <3>1 DEF HandlerShape, ConfigShape
    <3>3. Worked(r) # NoChild /\ Settled(name[r])' = NoChild
      BY <1>0, <2>2, <3>1, <3>2 DEF Worked, Settled
    <3>4. Table!Remove(r)
      BY <1>0, <2>2, <3>1, <3>3, Answering DEF Table!Remove, Table!Asked
    <3> QED BY <3>4 DEF Table!RegistryNext
  <2> QED BY <1>1, <2>1, <2>2
<1> QED BY <1>4, <1>5, <1>7, <1>8 DEF RemoveStep

\* The step of a handler that does not change a server leaves the table, and
\* only the lookup of a tool call finds a server (proxy.go:166-177, 220-262).
LEMMA ReadLeavesEntries ==
  ASSUME IInv, ProxyInv, ConfigInv, NEW r \in Requests,
         ListStep(r) \/ ToolCallStep(r) \/ CallDone(r)
  PROVE  /\ UNCHANGED <<op, name, phase, Entries>> /\ phase = "serving"
         /\ HandlerShape(r) /\ op[r] \in {"list", "call"} /\ reply[r] = "none"
         /\ target'[r] = target[r] \/ op[r] = "list" => UNCHANGED Served
<1> USE ProxyAssumption, ChildAssumption
<1>1. HandlerMove(r) /\ OthersRest(r) /\ RequestsRest(r)
  BY MoveIsOwn, MoveLeavesRequests DEF HandlerMove
<1>2. UNCHANGED <<op, name, phase, children>> /\ phase = "serving"
  BY <1>1 DEF OthersRest, RequestsRest, ListStep, ListBegin, ListStatus, ListDetail,
     ToolCallStep, CallLookup, CallSession, CallFailed, CallDone
<1>3. HandlerShape(r) /\ FreshShape(r) /\ InHandler(r)
  BY <1>1 DEF ProxyInv, OthersRest
<1>4. hpc[r] \in {"list", "status", "detail", "lookup", "session", "call"}
  BY DEF ListStep, ListBegin, ListStatus, ListDetail, ToolCallStep, CallLookup,
     CallSession, CallFailed, CallDone
<1>5. op[r] \in {"list", "call"} /\ reply[r] = "none" /\ ~Mapped(r)
  BY <1>3, <1>4 DEF HandlerShape, FreshShape, EarlyPoints, HandlerPoints
<1>6. UNCHANGED Entries
  <2>1. \A n \in Names : Entry(n)' = Entry(n)
    BY <1>1, <1>2, <1>5, MoveLeavesOthers
  <2> QED BY <2>1 DEF Entries
<1>7. target'[r] = target[r] \/ op[r] = "list" => UNCHANGED Served
  BY <1>1, <1>2 DEF Served, OthersRest
<1> QED BY <1>2, <1>3, <1>5, <1>6, <1>7

\* A tool call finds a child of the server it names, or of one that is being
\* added (proxy.go:166-177).
LEMMA LookupServes ==
  ASSUME IInv, ProxyInv, SerialInv, ConfigInv, NEW r \in Requests, CallLookup(r),
         children[name[r]] # NoChild
  PROVE  Table!Serve(r)
<1> USE ProxyAssumption, ChildAssumption
<1>1. /\ UNCHANGED <<op, name, phase, Entries, reply>> /\ phase = "serving"
      /\ op[r] = "call" /\ reply[r] = "none" /\ name[r] \in Names
      /\ target' = [target EXCEPT ![r] = children[name[r]]]
  BY ReadLeavesEntries DEF ToolCallStep, CallLookup, HandlerShape
<1>2. Served' = Served \cup {r}
  <2>1. r \in DOMAIN target
    BY DEF ProxyInv, ProxyTypeOK
  <2> QED BY <1>1, <2>1 DEF Served
<1> DEFINE n == name[r]
<1>3. /\ children[n] \in Requests /\ name[children[n]] = n /\ cfg[children[n]] \in Requests
      /\ InHandler(children[n]) => Changing(children[n])
  BY <1>1, MappedIsChanging DEF ConfigInv, ConfigShape, Mapped
<1>4. Entry(n) = NoChild => \E q \in Requests : op[q] = "add" /\ name[q] = n /\ reply[q] = "none"
  <2> SUFFICES ASSUME Entry(n) = NoChild
               PROVE  /\ op[children[n]] = "add" /\ reply[children[n]] = "none"
    BY <1>3
  <2>1. \A q \in Requests : Changing(q) /\ name[q] = n => Worked(q) = NoChild
    BY <1>1, EntriesUnderInv DEF EntriesAre
  <2>2. ASSUME NEW q \in Requests, Changing(q), name[q] = n PROVE Settled(n) = NoChild
    <3>1. ConfigShape(q) /\ HandlerShape(q) /\ InHandler(q) /\ op[q] \in {"add", "remove", "reload"}
      BY <2>2, ChangingIsAnOp DEF ConfigInv, ProxyInv
    <3>2. op[q] \in {"remove", "reload"} => target[q] = NoChild
      BY <2>1, <2>2, <3>1 DEF Worked, ConfigShape, ProxyInv, ProxyTypeOK
    <3> QED BY <2>1, <2>2, <3>1, <3>2 DEF Worked
  <2>3. Settled(n) = NoChild
    BY <1>1, <2>2, EntriesUnderInv DEF EntriesAre
  <2>4. PICK q \in Requests : q = children[n] /\ Changing(q) /\ name[q] = n
    BY <1>3, <2>3 DEF Settled
  <2>5. /\ ConfigShape(q) /\ HandlerShape(q) /\ FreshShape(q) /\ InHandler(q)
        /\ op[q] \in {"remove", "reload"} => target[q] = NoChild
    <3>1. ConfigShape(q) /\ HandlerShape(q) /\ FreshShape(q) /\ InHandler(q)
      BY <2>4, ChangingIsAnOp DEF ConfigInv, ProxyInv
    <3> QED BY <2>1, <2>4, <3>1 DEF Worked, ConfigShape, ProxyInv, ProxyTypeOK
  <2>6. hpc[q] \in {"start", "starting", "check", "drop", "register"} /\ reply[q] = "none"
    BY <1>1, <2>4, <2>5 DEF FreshShape, Mapped, EarlyPoints, HandlerPoints, InHandler, HandlerShape,
       ProxyInv, ProxyTypeOK
  <2>7. op[q] = "add"
    BY <2>5, <2>6 DEF ConfigShape, Creating
  <2> QED BY <2>4, <2>6, <2>7
<1>5. Table!Has(n) <=> Entry(n) # NoChild
  BY <1>1 DEF Table!Has, Entries
<1> QED BY <1>1, <1>2, <1>4, <1>5 DEF Table!Serve

\* list_servers and a tool call (proxy.go:220-262, 166-177): the table stays.
LEMMA ReadRefines ==
  ASSUME IInv, ProxyInv, SerialInv, ConfigInv, NEW r \in Requests,
         ListStep(r) \/ ToolCallStep(r) \/ CallDone(r)
  PROVE  [Table!RegistryNext]_(Table!registryVars)
<1> USE ProxyAssumption, ChildAssumption
<1>1. /\ UNCHANGED <<op, name, phase, Entries>> /\ phase = "serving"
      /\ HandlerShape(r) /\ op[r] \in {"list", "call"} /\ reply[r] = "none"
      /\ target'[r] = target[r] \/ op[r] = "list" => UNCHANGED Served
  BY ReadLeavesEntries
<1>2. ASSUME target'[r] = target[r] \/ op[r] = "list", reply' = reply
      PROVE  [Table!RegistryNext]_(Table!registryVars)
  BY <1>1, <1>2 DEF Table!registryVars
<1>3. ASSUME op[r] = "call", target' = target, Reply(r, "error")
      PROVE  Table!RegistryNext
  <2>1. Table!CallFails(r)
    BY <1>1, <1>3 DEF Table!CallFails, Table!Answer, Reply
  <2> QED BY <2>1 DEF Table!RegistryNext
<1>4. CASE ListStep(r)
  <2>1. op[r] = "list"
    BY <1>1, <1>4 DEF ListStep, ListBegin, ListStatus, ListDetail, HandlerShape
  <2>2. CASE ListStatus(r) /\ todo[r] = {}
    <3>1. Table!List(r)
      BY <1>1, <2>1, <2>2 DEF ListStatus, Table!List, Table!Answer, Reply
    <3> QED BY <3>1 DEF Table!RegistryNext
  <2>3. CASE ~(ListStatus(r) /\ todo[r] = {})
    BY <1>2, <1>4, <2>1, <2>3 DEF ListStep, ListBegin, ListStatus, ListDetail
  <2> QED BY <2>2, <2>3
<1>5. CASE CallLookup(r)
  <2>1. CASE children[name[r]] # NoChild
    <3>1. Table!Serve(r)
      BY <1>5, <2>1, LookupServes
    <3> QED BY <3>1 DEF Table!RegistryNext
  <2>2. CASE children[name[r]] = NoChild
    BY <1>1, <1>3, <1>5, <2>2 DEF CallLookup, HandlerShape
  <2> QED BY <2>1, <2>2
<1>6. CASE CallSession(r) \/ CallFailed(r)
  BY <1>1, <1>2, <1>3, <1>6 DEF CallSession, CallFailed, HandlerShape
<1>7. CASE CallDone(r)
  <2>1. op[r] = "call" /\ target' = target /\ r \in Served
    BY <1>1, <1>7 DEF CallDone, HandlerShape, Served
  <2>2. CASE Reply(r, "ok")
    <3>1. Table!Call(r)
      BY <1>1, <2>1, <2>2 DEF Table!Call, Table!Answer, Reply
    <3> QED BY <3>1 DEF Table!RegistryNext
  <2>3. CASE Reply(r, "error")
    BY <1>3, <2>1, <2>3
  <2> QED BY <1>7, <2>2, <2>3 DEF CallDone
<1> QED BY <1>4, <1>5, <1>6, <1>7 DEF ToolCallStep

\* The arrival of a request (proxy.go:91-118): it is one of the registry, and
\* nothing is done for it yet.
LEMMA ArriveRefines ==
  ASSUME ProxyInv, ConfigInv, NEW r \in Requests, NEW o \in Ops, NEW n \in Names, Arrive(r, o, n)
  PROVE  Table!Ask(r)
<1> USE ProxyAssumption, ChildAssumption DEF ProxyInv, ProxyTypeOK
<1>1. /\ phase = "serving" /\ hpc[r] = "idle" /\ o \in Table!Asked
      /\ op' = [op EXCEPT ![r] = o] /\ name' = [name EXCEPT ![r] = n]
      /\ UNCHANGED <<children, target, reply, phase>>
      /\ \A q \in Requests \ {r} : hpc'[q] = hpc[q] /\ cfg'[q] = cfg[q]
  BY DEF Arrive, Goto, Table!Asked
<1>2. /\ op[r] = "none" /\ target[r] = NoChild /\ ~Mapped(r)
      /\ \A q \in Requests : target[q] # r
  BY <1>1 DEF ConfigInv, ConfigShape, HandlerShape, FreshShape, EarlyPoints, HandlerPoints
<1>3. ASSUME NEW m \in Names PROVE Entry(m)' = Entry(m)
  <2>1. Replaced(m)' = Replaced(m)
    BY <1>1, <1>2 DEF Replaced, InHandler
  <2>2. \A c \in Requests : c \in Replaced(m) \/ c = children[m] => cfg'[c] = cfg[c]
    BY <1>1, <1>2 DEF Replaced, Mapped
  <2>3. Replaced(m) # {} => (CHOOSE c \in Replaced(m) : TRUE) \in Replaced(m) \cap Requests
    <3>1. Replaced(m) \subseteq Requests
      BY DEF Replaced
    <3> QED BY <3>1
  <2>4. children[m] # NoChild =>
           children[m] \in Requests /\ (InHandler(children[m])' <=> InHandler(children[m]))
    BY <1>1, <1>2 DEF Mapped, InHandler
  <2> QED BY <1>1, <2>1, <2>2, <2>3, <2>4 DEF Entry
<1>4. Entries' = Entries
  BY <1>3 DEF Entries
<1>5. Served' = Served
  BY <1>1, <1>2 DEF Served
<1> QED BY <1>1, <1>2, <1>4, <1>5 DEF Table!Ask

\* Shutdown closes the registry (proxy.go:60-68).
LEMMA ShutdownRefines ==
  ASSUME ProxyInv, Shutdown
  PROVE  Table!Close
<1> USE ProxyAssumption, ChildAssumption DEF ProxyInv, ProxyTypeOK
<1>1. /\ phase = "serving" /\ phase' = "stopping"
      /\ \A n \in Names : children'[n] = NoChild
      /\ \A r \in Requests : ~InHandler(r)
      /\ UNCHANGED <<op, name, hpc, target, cfg, reply>>
  BY DEF Shutdown, handlerVars
<1>2. \A n \in Names : Entry(n)' = NoChild
  <2>1. \A n \in Names : Replaced(n)' = {}
    BY <1>1 DEF Replaced, InHandler
  <2> QED BY <1>1, <2>1 DEF Entry
<1>3. Entries' = [n \in Names |-> NoChild] /\ Served' = Served
  BY <1>1, <1>2 DEF Entries, Served
<1> QED BY <1>1, <1>3 DEF Table!Close

\* The rest of Shutdown, the children and the crash callbacks leave it alone.
LEMMA RestRefines ==
  ASSUME UNCHANGED children, UNCHANGED handlerVars,
         phase' = "serving" <=> phase = "serving"
  PROVE  [Table!RegistryNext]_(Table!registryVars)
<1>1. UNCHANGED <<op, name, reply, children, hpc, target, cfg>>
  BY DEF handlerVars
<1>2. UNCHANGED Entries
  BY <1>1 DEF Entries, Entry, Replaced, InHandler
<1>3. UNCHANGED Table!registryVars
  BY <1>1, <1>2 DEF Table!registryVars, Served
<1> QED BY <1>3

\* Every step of the proxy with this client is one of the registry, or none.
LEMMA NextRefinesRegistry ==
  ASSUME IInv, ProxyInv, ProxyInv', SerialInv, SerialInv', ConfigInv, ConfigInv', [Next]_vars
  PROVE  [Table!RegistryNext]_(Table!registryVars)
<1>1. ASSUME NEW r \in Requests, NEW o \in Ops, NEW n \in Names, Arrive(r, o, n)
      PROVE  [Table!RegistryNext]_(Table!registryVars)
  BY <1>1, ArriveRefines DEF Table!RegistryNext
<1>2. ASSUME NEW r \in Requests, HandlerMove(r)
      PROVE  [Table!RegistryNext]_(Table!registryVars)
  BY <1>2, AddRefines, RemoveRefines, ReadRefines DEF HandlerMove
<1>3. CASE Shutdown
  BY <1>3, ShutdownRefines DEF Table!RegistryNext
<1>4. CASE ShutdownStop \/ ShutdownDone
  <2>1. UNCHANGED children /\ UNCHANGED handlerVars
    BY <1>4 DEF ShutdownStop, ShutdownDone
  <2>2. phase' = "serving" <=> phase = "serving"
    BY <1>4 DEF ShutdownStop, ShutdownDone
  <2> QED BY <2>1, <2>2, RestRefines
<1>5. CASE UNCHANGED vars \/ ChildStep \/ \E c \in Requests : CrashStep(c)
  <2>1. UNCHANGED children /\ UNCHANGED handlerVars /\ UNCHANGED phase
    BY <1>5 DEF vars, proxyVars, ChildStep, CrashStep, CrashLookup, CrashRemove
  <2> QED BY <2>1, RestRefines
<1> QED BY <1>1, <1>2, <1>3, <1>4, <1>5 DEF Next, HandlerMove, ShutdownStep, Finished

\* The registry is empty and no request has been sent when the proxy begins.
LEMMA InitRefinesRegistry == Init => Table!RegistryInit
<1> SUFFICES ASSUME Init PROVE Table!RegistryInit
  OBVIOUS
<1>1. /\ op = [r \in Requests |-> "none"] /\ name = [r \in Requests |-> NoName]
      /\ reply = [r \in Requests |-> "none"] /\ phase = "serving"
      /\ \A n \in Names : children[n] = NoChild
      /\ \A r \in Requests : ~InHandler(r)
  BY DEF Init, InHandler
<1>2. \A n \in Names : Entry(n) = NoChild
  BY <1>1 DEF Entry, Replaced
<1>3. Entries = [n \in Names |-> NoChild] /\ Served = {}
  BY <1>1, <1>2 DEF Entries, Served
<1> QED BY <1>1, <1>3 DEF Table!RegistryInit

\* When removes and reloads overlap with no other change of their server the
\* management tools are the table that SPEC.md:57-106 describes, changed at once
\* by each answer.
THEOREM SerialImplementsRegistry == OnePerServer => (Spec => ImplementsRegistry)
<1> SUFFICES ASSUME OnePerServer PROVE Spec => ImplementsRegistry
  OBVIOUS
<1>1. IInv /\ ProxyInv /\ ProxyInv' /\ SerialInv /\ SerialInv' /\ ConfigInv /\ ConfigInv' /\ [Next]_vars
         => [Table!RegistryNext]_(Table!registryVars)
  BY NextRefinesRegistry
<1> QED BY <1>1, InitRefinesRegistry, SerialInvariant, SerialConfig, PTL
        DEF Spec, ImplementsRegistry, Table!RegistrySpec
=============================================================================
