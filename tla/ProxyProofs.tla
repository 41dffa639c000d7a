---------------------------- MODULE ProxyProofs ----------------------------
(***************************************************************************)
(* Safety of the proxy under every interleaving of its handlers, proved    *)
(* for any number of requests, names and tools: ProxyInv of Proxy is       *)
(* inductive together with IInv of Child, and it implies the invariants    *)
(* that the run of ProxyConcurrent.cfg checks on a small instance.  On     *)
(* the way, the proxy is shown to use its children as Child specifies.     *)
(***************************************************************************)
EXTENDS Proxy, ChildProofs

(***************************************************************************)
(* What a step of a child leaves true, unless it begins a Start or a Stop. *)
(***************************************************************************)
QuietFor(c) ==
    /\ status'[c] = "new" <=> status[c] = "new"
    /\ status'[c] = "stopped" => status[c] = "stopped"
    /\ Over(c) => Over(c)'
    /\ startPC'[c] = "idle" <=> startPC[c] = "idle"
    /\ startPC[c] = "returned" => startPC'[c] = "returned" /\ startErr'[c] = startErr[c]

NoNewStop == \A c \in Children : \A k \in Stoppers : Stopping(k, c)' => Stopping(k, c)

Quiet == NoNewStop /\ \A c \in Children : QuietFor(c)

\* The steps of Start and start() (child.go:113-202) are quiet.
LEMMA StartIsQuiet == ASSUME IInv, NEW c \in Children, StartStep(c) PROVE Quiet
<1> USE DEF IInv, TypeOK, StartPoints, Statuses
<1>1. NoNewStop
  BY DEF NoNewStop, Stopping, StartStep, Spawn, SpawnFail, HandshakeOk, HandshakeFail,
     KillFailed, Publish, DiscoverOk, DiscoverFail, Unpublish, CloseInStart, Commit,
     Finish, stopVars
<1>2. ASSUME NEW d \in Children, d # c PROVE QuietFor(d)
  BY <1>2 DEF QuietFor, Over, StartStep, Spawn, SpawnFail, HandshakeOk, HandshakeFail,
     KillFailed, Publish, DiscoverOk, DiscoverFail, Unpublish, CloseInStart, Commit,
     Finish, fields
<1>3. startPC[c] \notin {"idle", "returned"} /\ startPC'[c] # "idle"
  BY DEF StartStep, Spawn, SpawnFail, HandshakeOk, HandshakeFail, KillFailed, Publish,
     DiscoverOk, DiscoverFail, Unpublish, CloseInStart, Commit, Finish
<1>4. status[c] # "new"
  BY <1>3 DEF StartShape
<1>5. \/ status'[c] = status[c]
      \/ status[c] = "starting" /\ status'[c] \in {"running", "crashed"}
  <2>1. CASE Commit(c)
    BY <2>1 DEF Commit
  <2>2. CASE Finish(c)
    BY <2>2 DEF Finish
  <2> QED BY <2>1, <2>2 DEF StartStep, Spawn, SpawnFail, HandshakeOk, HandshakeFail,
          KillFailed, Publish, DiscoverOk, DiscoverFail, Unpublish, CloseInStart, fields
<1>6. QuietFor(c)
  BY <1>3, <1>4, <1>5 DEF QuietFor, Over
<1> QED BY <1>1, <1>2, <1>6 DEF Quiet

\* So are those of the monitor, the process and the connection
\* (child.go:221-243).
LEMMA MonitorIsQuiet ==
  ASSUME IInv, NEW c \in Children, MonitorStep(c) \/ EnvironmentStep(c) PROVE Quiet
<1> USE DEF IInv, TypeOK, StartPoints, Statuses
<1>1. NoNewStop
  BY DEF NoNewStop, Stopping, MonitorStep, MonitorRead, MonitorWake, Notify,
     EnvironmentStep, ProcExit, ConnLost, CallerCancel, stopVars
<1>2. startPC' = startPC /\ startErr' = startErr
  BY DEF MonitorStep, MonitorRead, MonitorWake, Notify, EnvironmentStep, ProcExit,
     ConnLost, CallerCancel, startVars
<1>3. ASSUME NEW d \in Children
      PROVE  status'[d] = status[d] \/ (status[d] = "running" /\ status'[d] = "crashed")
  <2>1. CASE MonitorWake(c)
    BY <2>1 DEF MonitorWake
  <2> QED BY <2>1 DEF MonitorStep, MonitorRead, Notify, EnvironmentStep, ProcExit,
          ConnLost, CallerCancel, fields
<1> QED BY <1>1, <1>2, <1>3 DEF Quiet, QuietFor, Over

\* So are the later steps of a Stop (child.go:268-304), and those of the
\* callers (child.go:328-333).
LEMMA StopIsQuiet == ASSUME IInv, NEW k \in Stoppers, StopStep(k) PROVE Quiet
<1> USE DEF IInv, TypeOK, StartPoints, Statuses
<1>1. ASSUME NEW c \in Children, NEW j \in Stoppers, Stopping(j, c)'
      PROVE  Stopping(j, c)
  BY <1>1, ChildAssumption DEF Stopping, StopStep, StopCancel, StopAwait, StopReread,
     StopReturn, CloseReturns, CloseTimeout
<1>2. status' = status /\ startPC' = startPC /\ startErr' = startErr
  BY DEF StopStep, StopCancel, StopAwait, StopReread, CloseReturns, CloseTimeout,
     fields, startVars
<1> QED BY <1>1, <1>2 DEF Quiet, NoNewStop, QuietFor, Over

LEMMA CallIsQuiet ==
  ASSUME IInv, NEW u \in Callers,
         CallStep(u) \/ \E c \in Children : GetSession(u, c)
  PROVE  Quiet
<1>1. /\ status' = status /\ startPC' = startPC /\ startErr' = startErr
      /\ stopPC' = stopPC /\ stopTarget' = stopTarget
  BY DEF CallStep, CallIssue, CallRefused, CallAnswered, CallBroken, CallEnd,
     GetSession, fields, startVars, stopVars
<1> QED BY <1>1 DEF Quiet, NoNewStop, QuietFor, Over, Stopping

\* And a step without any change of the children.
LEMMA StutterIsQuiet == ASSUME UNCHANGED childVars PROVE Quiet
BY DEF Quiet, NoNewStop, QuietFor, Over, Stopping, childVars, fields, startVars, stopVars

\* The first critical section of Stop (child.go:253-266) ends its child and
\* leaves the others alone.
LEMMA StopBeginEffect ==
  ASSUME IInv, NEW k \in Stoppers, NEW c \in Children, StopBegin(k, c)
  PROVE  /\ \A j \in Stoppers, d \in Children :
               Stopping(j, d)' => Stopping(j, d) \/ (j = k /\ d = c)
         /\ \A d \in Children \ {c} : QuietFor(d)
         /\ Over(c)'
         /\ startPC' = startPC /\ startErr' = startErr
BY DEF IInv, TypeOK, Statuses, StartPoints, StopBegin, Stopping, QuietFor, Over, startVars

(***************************************************************************)
(* A step of a handler that is not stopping a child, before or after it.   *)
(***************************************************************************)
Bystander(r) ==
    /\ InHandler(r)
    /\ {hpc[r], hpc'[r]} \cap {"untool", "stop", "stopping"} = {}
    /\ \A q \in Requests \ {r} : hpc'[q] = hpc[q] /\ target'[q] = target[q]
    /\ UNCHANGED <<phase, toStop>>

\* Such a step does not touch the claims of the others.
LEMMA BystanderKeepsClaims ==
  ASSUME ClaimShape, NoNewStop, NEW r \in Requests, Bystander(r)
  PROVE  ClaimShape'
<1> USE ProxyAssumption DEF Bystander, ClaimShape
<1>1. phase = "serving" /\ phase' = "serving" /\ toStop' = {}
  OBVIOUS
<1>2. \A c \in Children, q \in Requests : Removing(q, c)' <=> Removing(q, c)
  BY DEF Removing
<1>3. \A c \in Children, q \in Requests :
         Stopping(q, c)' => hpc'[q] = "stopping" /\ target'[q] = c
  <2> SUFFICES ASSUME NEW c \in Children, NEW q \in Requests, Stopping(q, c)'
               PROVE  hpc'[q] = "stopping" /\ target'[q] = c
    OBVIOUS
  <2>1. Stopping(q, c)
    BY DEF NoNewStop
  <2>2. hpc[q] = "stopping" /\ target[q] = c
    BY <2>1
  <2> QED BY <2>2
<1>4. \A c \in Children : ~Stopping(Main, c)'
  BY <1>1 DEF NoNewStop
<1> QED BY <1>1, <1>2, <1>3, <1>4


\* A new request (proxy.go:91-118) keeps ProxyInv.
LEMMA ArrivePreserves ==
  ASSUME IInv, ProxyInv, Quiet, NEW r \in Requests, NEW o \in Ops, NEW n \in Names,
         Arrive(r, o, n)
  PROVE  ProxyInv'
<1> USE ProxyAssumption, ChildAssumption DEF ProxyInv, ProxyTypeOK,
   HandlerShape, QuietFor, Quiet, NoNewStop, Arrive, Goto, FirstPoint,
   Creating
<1>1. ProxyTypeOK'
  BY DEF HandlerPoints
<1>2. \A q \in Requests : HandlerShape(q)'
  BY DEF Over
<1>3. \A q \in Requests : FreshShape(q)'
  BY DEF FreshShape, EarlyPoints, HandlerPoints, Mapped, Unclaimed, Removing
<1>4. \A q \in Requests : RetiredShape(q)'
  BY DEF RetiredShape, Removing, Mapped, Unclaimed, MapShape, ClaimShape
<1>5. \A q \in Requests : ErrorShape(q)'
  BY DEF ErrorShape, FreshShape, EarlyPoints, HandlerPoints
<1>6. MapShape'
  BY DEF MapShape, Mapped, Unclaimed, Removing, FreshShape, EarlyPoints,
     HandlerPoints
<1>7. ClaimShape'
  BY DEF ClaimShape, Removing, InHandler
<1>8. ListedStayMapped'
  BY DEF ListedStayMapped, Listing
<1> QED BY <1>1, <1>2, <1>3, <1>4, <1>5, <1>6, <1>7, <1>8

\* The insertion of a new child (proxy.go:120-136) keeps ProxyInv.
LEMMA AddInsertPreserves ==
  ASSUME IInv, ProxyInv, Quiet, NEW r \in Requests,
         AddInsert(r)
  PROVE  ProxyInv'
<1> USE ProxyAssumption, ChildAssumption DEF ProxyInv, ProxyTypeOK,
   HandlerShape, QuietFor, Quiet, NoNewStop, AddInsert, Goto, Reply, SetChild
<1>1. ProxyTypeOK'
  BY DEF HandlerPoints
<1>2. \A q \in Requests : HandlerShape(q)'
  BY DEF Over
<1>3. \A q \in Requests : FreshShape(q)'
  BY DEF FreshShape, EarlyPoints, HandlerPoints, Mapped, Unclaimed, Removing
<1>4. \A q \in Requests : RetiredShape(q)'
  BY DEF RetiredShape, Removing, Mapped, Unclaimed, MapShape, ClaimShape,
     FreshShape, EarlyPoints, HandlerPoints
<1>5. \A q \in Requests : ErrorShape(q)'
  BY DEF ErrorShape, FreshShape, EarlyPoints, HandlerPoints
<1>6. MapShape'
  BY DEF MapShape, Unclaimed, Removing, FreshShape, EarlyPoints,
     HandlerPoints
<1>7. ClaimShape'
  <2>1. Bystander(r)
    BY DEF Bystander, InHandler
  <2> QED BY <2>1, BystanderKeepsClaims
<1>8. ListedStayMapped'
  BY DEF ListedStayMapped, Listing
<1> QED BY <1>1, <1>2, <1>3, <1>4, <1>5, <1>6, <1>7, <1>8

\* The return of Start (proxy.go:138-144) keeps ProxyInv.
LEMMA AddStartedPreserves ==
  ASSUME IInv, ProxyInv, Quiet, NEW r \in Requests,
         AddStarted(r)
  PROVE  ProxyInv'
<1> USE ProxyAssumption, ChildAssumption DEF ProxyInv, ProxyTypeOK,
   HandlerShape, QuietFor, Quiet, NoNewStop, AddStarted, Goto, Reply,
   SetChild
<1>1. ProxyTypeOK'
  BY DEF HandlerPoints
<1>2. \A q \in Requests : HandlerShape(q)'
  BY DEF Over
<1>3. \A q \in Requests : FreshShape(q)'
  BY DEF FreshShape, EarlyPoints, HandlerPoints, Mapped, Unclaimed, Removing
<1>4. \A q \in Requests : RetiredShape(q)'
  BY DEF RetiredShape, Removing, Mapped, Unclaimed, MapShape, ClaimShape
<1>5. \A q \in Requests : ErrorShape(q)'
  BY DEF ErrorShape, FreshShape, EarlyPoints, HandlerPoints
<1>6. MapShape'
  BY DEF MapShape, Unclaimed, Removing
<1>7. ClaimShape'
  <2>1. Bystander(r)
    BY DEF Bystander, InHandler
  <2> QED BY <2>1, BystanderKeepsClaims
<1>8. ListedStayMapped'
  BY DEF ListedStayMapped, Listing
<1> QED BY <1>1, <1>2, <1>3, <1>4, <1>5, <1>6, <1>7, <1>8

\* The check of the status (proxy.go:146-147) keeps ProxyInv.
LEMMA AddCheckPreserves ==
  ASSUME IInv, ProxyInv, Quiet, NEW r \in Requests,
         AddCheck(r)
  PROVE  ProxyInv'
<1> USE ProxyAssumption, ChildAssumption DEF ProxyInv, ProxyTypeOK,
   HandlerShape, QuietFor, Quiet, NoNewStop, AddCheck, Goto
<1>1. ProxyTypeOK'
  <2>1. tools[r] \in SUBSET (Tools \cup Requests)
    BY DEF IInv, TypeOK
  <2>2. todo' \in [Requests -> SUBSET (Tools \cup Requests)]
    BY <2>1
  <2>3. hpc' \in [Requests -> HandlerPoints]
    BY DEF HandlerPoints
  <2> QED BY <2>2, <2>3
<1>2. \A q \in Requests : HandlerShape(q)'
  BY DEF Over, IInv, TypeOK, StartShape, Statuses
<1>3. \A q \in Requests : FreshShape(q)'
  BY DEF FreshShape, EarlyPoints, HandlerPoints, Mapped, Unclaimed, Removing
<1>4. \A q \in Requests : RetiredShape(q)'
  BY DEF RetiredShape, Removing, Mapped, Unclaimed, MapShape, ClaimShape
<1>5. \A q \in Requests : ErrorShape(q)'
  BY DEF ErrorShape, FreshShape, EarlyPoints, HandlerPoints
<1>6. MapShape'
  BY DEF MapShape, Unclaimed, Removing
<1>7. ClaimShape'
  <2>1. Bystander(r)
    BY DEF Bystander, InHandler
  <2> QED BY <2>1, BystanderKeepsClaims
<1>8. ListedStayMapped'
  BY DEF ListedStayMapped, Listing
<1> QED BY <1>1, <1>2, <1>3, <1>4, <1>5, <1>6, <1>7, <1>8

\* The deletion of a child that ended early (proxy.go:148-152) keeps ProxyInv.
LEMMA AddDropPreserves ==
  ASSUME IInv, ProxyInv, Quiet, NEW r \in Requests,
         AddDrop(r)
  PROVE  ProxyInv'
<1> USE ProxyAssumption, ChildAssumption DEF ProxyInv, ProxyTypeOK,
   HandlerShape, QuietFor, Quiet, NoNewStop, AddDrop, Goto, Reply, SetChild
<1>1. ProxyTypeOK'
  BY DEF HandlerPoints
<1>2. \A q \in Requests : HandlerShape(q)'
  BY DEF Over
<1>3. \A q \in Requests : FreshShape(q)'
  BY DEF FreshShape, EarlyPoints, HandlerPoints, Mapped, Unclaimed, Removing
<1>4. \A q \in Requests : RetiredShape(q)'
  BY DEF RetiredShape, Removing, Mapped, Unclaimed, MapShape, ClaimShape
<1>5. \A q \in Requests : ErrorShape(q)'
  BY DEF ErrorShape, FreshShape, EarlyPoints, HandlerPoints
<1>6. MapShape'
  BY DEF MapShape, Unclaimed, Removing
<1>7. ClaimShape'
  <2>1. Bystander(r)
    BY DEF Bystander, InHandler
  <2> QED BY <2>1, BystanderKeepsClaims
<1>8. ListedStayMapped'
  BY DEF ListedStayMapped, Listing
<1> QED BY <1>1, <1>2, <1>3, <1>4, <1>5, <1>6, <1>7, <1>8

\* The registration loop (proxy.go:154-178) keeps ProxyInv.
LEMMA RegisterToolPreserves ==
  ASSUME IInv, ProxyInv, Quiet, NEW r \in Requests,
         RegisterTool(r)
  PROVE  ProxyInv'
<1> USE ProxyAssumption, ChildAssumption DEF ProxyInv, ProxyTypeOK,
   HandlerShape, QuietFor, Quiet, NoNewStop, RegisterTool, Goto, Reply
<1>1. ProxyTypeOK'
  BY DEF HandlerPoints
<1>2. \A q \in Requests : HandlerShape(q)'
  BY DEF Over
<1>3. \A q \in Requests : FreshShape(q)'
  BY DEF FreshShape, EarlyPoints, HandlerPoints, Mapped, Unclaimed, Removing
<1>4. \A q \in Requests : RetiredShape(q)'
  BY DEF RetiredShape, Removing, Mapped, Unclaimed, MapShape, ClaimShape
<1>5. \A q \in Requests : ErrorShape(q)'
  BY DEF ErrorShape, FreshShape, EarlyPoints, HandlerPoints
<1>6. MapShape'
  BY DEF MapShape, Unclaimed, Removing
<1>7. ClaimShape'
  <2>1. Bystander(r)
    BY DEF Bystander, InHandler
  <2> QED BY <2>1, BystanderKeepsClaims
<1>8. ListedStayMapped'
  BY DEF ListedStayMapped, Listing
<1> QED BY <1>1, <1>2, <1>3, <1>4, <1>5, <1>6, <1>7, <1>8

\* The first half of reload_server (proxy.go:197-208) keeps ProxyInv.
LEMMA ReloadConfigPreserves ==
  ASSUME IInv, ProxyInv, Quiet, NEW r \in Requests,
         ReloadConfig(r)
  PROVE  ProxyInv'
<1> USE ProxyAssumption, ChildAssumption DEF ProxyInv, ProxyTypeOK,
   HandlerShape, QuietFor, Quiet, NoNewStop, ReloadConfig, Goto, Reply
<1>1. ProxyTypeOK'
  BY DEF HandlerPoints
<1>2. \A q \in Requests : HandlerShape(q)'
  BY DEF Over
<1>3. \A q \in Requests : FreshShape(q)'
  BY DEF FreshShape, EarlyPoints, HandlerPoints, Mapped, Unclaimed, Removing
<1>4. \A q \in Requests : RetiredShape(q)'
  BY DEF RetiredShape, Removing, Mapped, Unclaimed, MapShape, ClaimShape
<1>5. \A q \in Requests : ErrorShape(q)'
  BY DEF ErrorShape, FreshShape, EarlyPoints, HandlerPoints
<1>6. MapShape'
  BY DEF MapShape, Unclaimed, Removing
<1>7. ClaimShape'
  <2>1. Bystander(r)
    BY DEF Bystander, InHandler
  <2> QED BY <2>1, BystanderKeepsClaims
<1>8. ListedStayMapped'
  BY DEF ListedStayMapped, Listing
<1> QED BY <1>1, <1>2, <1>3, <1>4, <1>5, <1>6, <1>7, <1>8

\* Taking a child out of the map (proxy.go:180-188) keeps ProxyInv.
LEMMA RemoveTakePreserves ==
  ASSUME IInv, ProxyInv, Quiet, NEW r \in Requests,
         RemoveTake(r)
  PROVE  ProxyInv'
<1> USE ProxyAssumption, ChildAssumption DEF ProxyInv, ProxyTypeOK,
   HandlerShape, QuietFor, Quiet, NoNewStop, RemoveTake, Goto, Reply,
   SetChild
<1>1. ProxyTypeOK'
  BY DEF HandlerPoints
<1>2. \A q \in Requests : HandlerShape(q)'
  BY DEF Over
<1>3. \A q \in Requests : FreshShape(q)'
  BY DEF FreshShape, EarlyPoints, HandlerPoints, Mapped, Unclaimed, Removing
<1>4. \A q \in Requests : RetiredShape(q)'
  <2>1. ASSUME NEW q \in Requests, q # r PROVE RetiredShape(q)'
    BY <2>1 DEF RetiredShape, Removing, Mapped, Unclaimed
  <2>2. RetiredShape(r)'
    BY DEF RetiredShape, Removing
  <2> QED BY <2>1, <2>2
<1>5. \A q \in Requests : ErrorShape(q)'
  BY DEF ErrorShape, FreshShape, EarlyPoints, HandlerPoints
<1>6. MapShape'
  BY DEF MapShape, Unclaimed, Removing
<1>7. ClaimShape'
  <2>1. \A c \in Children : \A p, q \in Requests :
         Removing(p, c)' /\ Removing(q, c)' => p = q
    BY DEF Removing, MapShape, Unclaimed, ClaimShape
  <2>2. \A c \in Children : \A q \in Requests :
         Stopping(q, c)' => hpc'[q] = "stopping" /\ target'[q] = c
    BY DEF ClaimShape
  <2>3. \A c \in Children : Stopping(Main, c)' => phase' # "serving" /\ c \notin toStop'
    BY DEF ClaimShape, MapShape, Unclaimed
  <2>4. phase' # "serving" => \A q \in Requests : ~InHandler(q)'
    BY DEF ClaimShape, InHandler
  <2>5. phase' # "serving" => \A n \in Names : children'[n] = NoChild
    BY DEF ClaimShape, InHandler
  <2>6. phase' = "serving" => toStop' = {}
    BY DEF ClaimShape
  <2> QED BY <2>1, <2>2, <2>3, <2>4, <2>5, <2>6 DEF ClaimShape
<1>8. ListedStayMapped'
  BY DEF ListedStayMapped, Listing
<1> QED BY <1>1, <1>2, <1>3, <1>4, <1>5, <1>6, <1>7, <1>8

\* Removing its tools (proxy.go:190-191) keeps ProxyInv.
LEMMA RemoveToolsPreserves ==
  ASSUME IInv, ProxyInv, Quiet, NEW r \in Requests,
         RemoveTools(r)
  PROVE  ProxyInv'
<1> USE ProxyAssumption, ChildAssumption DEF ProxyInv, ProxyTypeOK,
   HandlerShape, QuietFor, Quiet, NoNewStop, RemoveTools, Goto,
   RemoveToolsForChild
<1>1. ProxyTypeOK'
  BY DEF HandlerPoints
<1>2. \A q \in Requests : HandlerShape(q)'
  BY DEF Over
<1>3. \A q \in Requests : FreshShape(q)'
  BY DEF FreshShape, EarlyPoints, HandlerPoints, Mapped, Unclaimed, Removing
<1>4. \A q \in Requests : RetiredShape(q)'
  BY DEF RetiredShape, Removing, Mapped, Unclaimed, MapShape, ClaimShape
<1>5. \A q \in Requests : ErrorShape(q)'
  BY DEF ErrorShape, FreshShape, EarlyPoints, HandlerPoints
<1>6. MapShape'
  BY DEF MapShape, Unclaimed, Removing
<1>7. ClaimShape'
  BY DEF ClaimShape, Removing, InHandler
<1>8. ListedStayMapped'
  BY DEF ListedStayMapped, Listing
<1> QED BY <1>1, <1>2, <1>3, <1>4, <1>5, <1>6, <1>7, <1>8

\* The return of Stop (proxy.go:193-194, 208-214) keeps ProxyInv.
LEMMA RemovedPreserves ==
  ASSUME IInv, ProxyInv, Quiet, NEW r \in Requests,
         Removed(r)
  PROVE  ProxyInv'
<1> USE ProxyAssumption, ChildAssumption DEF ProxyInv, ProxyTypeOK,
   HandlerShape, QuietFor, Quiet, NoNewStop, Removed, Goto, Reply
<1>1. ProxyTypeOK'
  BY DEF HandlerPoints
<1>2. \A q \in Requests : HandlerShape(q)'
  BY DEF Over
<1>3. \A q \in Requests : FreshShape(q)'
  BY DEF FreshShape, EarlyPoints, HandlerPoints, Mapped, Unclaimed, Removing
<1>4. \A q \in Requests : RetiredShape(q)'
  <2>1. ASSUME NEW q \in Requests, q # r PROVE RetiredShape(q)'
    BY <2>1 DEF RetiredShape, Removing, Mapped, Unclaimed, ClaimShape
  <2>2. /\ Over(target[r])' /\ ~Mapped(target[r])'
        /\ \A q \in Requests : Removing(q, target[r]) => q = r
        /\ target[r] \notin toStop' /\ Removing(r, target[r])
    BY DEF Removing, Mapped, Unclaimed, MapShape, ClaimShape, InHandler
  <2>3. \A k \in Stoppers : ~Stopping(k, target[r])'
    <3>1. ~Stopping(r, target[r])'
      BY DEF Stopping, childVars, stopVars
    <3>2. ~Stopping(Main, target[r])'
      BY DEF ClaimShape, InHandler
    <3>3. \A q \in Requests \ {r} : ~Stopping(q, target[r])'
      BY <2>2 DEF ClaimShape, Removing
    <3> QED BY <3>1, <3>2, <3>3
  <2>4. RetiredShape(r)'
    BY <2>2, <2>3 DEF RetiredShape, Unclaimed, Removing
  <2> QED BY <2>1, <2>4
<1>5. \A q \in Requests : ErrorShape(q)'
  BY DEF ErrorShape, FreshShape, EarlyPoints, HandlerPoints
<1>6. MapShape'
  BY DEF MapShape, Unclaimed, Removing
<1>7. ClaimShape'
  <2>1. \A c \in Children : \A p, q \in Requests :
         Removing(p, c)' /\ Removing(q, c)' => p = q
    BY DEF Removing, MapShape, Unclaimed, ClaimShape
  <2>2. \A c \in Children : \A q \in Requests :
         Stopping(q, c)' => hpc'[q] = "stopping" /\ target'[q] = c
    <3>1. ASSUME NEW c \in Children PROVE ~Stopping(r, c)'
      BY DEF Stopping, childVars, stopVars
    <3> QED BY <3>1 DEF ClaimShape
  <2>3. \A c \in Children : Stopping(Main, c)' => phase' # "serving" /\ c \notin toStop'
    BY DEF ClaimShape, MapShape, Unclaimed
  <2>4. phase' # "serving" => \A q \in Requests : ~InHandler(q)'
    BY DEF ClaimShape, InHandler
  <2>5. phase' # "serving" => \A n \in Names : children'[n] = NoChild
    BY DEF ClaimShape, InHandler
  <2>6. phase' = "serving" => toStop' = {}
    BY DEF ClaimShape
  <2> QED BY <2>1, <2>2, <2>3, <2>4, <2>5, <2>6 DEF ClaimShape
<1>8. ListedStayMapped'
  BY DEF ListedStayMapped, Listing
<1> QED BY <1>1, <1>2, <1>3, <1>4, <1>5, <1>6, <1>7, <1>8

\* Taking the read lock (proxy.go:233-238) keeps ProxyInv.
LEMMA ListBeginPreserves ==
  ASSUME IInv, ProxyInv, Quiet, NEW r \in Requests,
         ListBegin(r)
  PROVE  ProxyInv'
<1> USE ProxyAssumption, ChildAssumption DEF ProxyInv, ProxyTypeOK,
   HandlerShape, QuietFor, Quiet, NoNewStop, ListBegin, Goto
<1>1. ProxyTypeOK'
  BY DEF HandlerPoints
<1>2. \A q \in Requests : HandlerShape(q)'
  BY DEF Over
<1>3. \A q \in Requests : FreshShape(q)'
  BY DEF FreshShape, EarlyPoints, HandlerPoints, Mapped, Unclaimed, Removing
<1>4. \A q \in Requests : RetiredShape(q)'
  BY DEF RetiredShape, Removing, Mapped, Unclaimed, MapShape, ClaimShape
<1>5. \A q \in Requests : ErrorShape(q)'
  BY DEF ErrorShape, FreshShape, EarlyPoints, HandlerPoints
<1>6. MapShape'
  BY DEF MapShape, Unclaimed, Removing
<1>7. ClaimShape'
  <2>1. Bystander(r)
    BY DEF Bystander, InHandler
  <2> QED BY <2>1, BystanderKeepsClaims
<1>8. ListedStayMapped'
  BY DEF ListedStayMapped, Listing
<1> QED BY <1>1, <1>2, <1>3, <1>4, <1>5, <1>6, <1>7, <1>8

\* The next child of the listing (proxy.go:238-244) keeps ProxyInv.
LEMMA ListStatusPreserves ==
  ASSUME IInv, ProxyInv, Quiet, NEW r \in Requests,
         ListStatus(r)
  PROVE  ProxyInv'
<1> USE ProxyAssumption, ChildAssumption DEF ProxyInv, ProxyTypeOK,
   HandlerShape, QuietFor, Quiet, NoNewStop, ListStatus, Goto, Reply
<1>1. ProxyTypeOK'
  BY DEF HandlerPoints
<1>2. \A q \in Requests : HandlerShape(q)'
  BY DEF Over
<1>3. \A q \in Requests : FreshShape(q)'
  BY DEF FreshShape, EarlyPoints, HandlerPoints, Mapped, Unclaimed, Removing,
     ListedStayMapped
<1>4. \A q \in Requests : RetiredShape(q)'
  BY DEF RetiredShape, Removing, Mapped, Unclaimed, MapShape, ClaimShape
<1>5. \A q \in Requests : ErrorShape(q)'
  BY DEF ErrorShape, FreshShape, EarlyPoints, HandlerPoints
<1>6. MapShape'
  BY DEF MapShape, Unclaimed, Removing
<1>7. ClaimShape'
  <2>1. Bystander(r)
    BY DEF Bystander, InHandler
  <2> QED BY <2>1, BystanderKeepsClaims
<1>8. ListedStayMapped'
  BY DEF ListedStayMapped, Listing
<1> QED BY <1>1, <1>2, <1>3, <1>4, <1>5, <1>6, <1>7, <1>8

\* The rest of its entry (proxy.go:245-258) keeps ProxyInv.
LEMMA ListDetailPreserves ==
  ASSUME IInv, ProxyInv, Quiet, NEW r \in Requests,
         ListDetail(r)
  PROVE  ProxyInv'
<1> USE ProxyAssumption, ChildAssumption DEF ProxyInv, ProxyTypeOK,
   HandlerShape, QuietFor, Quiet, NoNewStop, ListDetail, Goto
<1>1. ProxyTypeOK'
  BY DEF HandlerPoints
<1>2. \A q \in Requests : HandlerShape(q)'
  BY DEF Over
<1>3. \A q \in Requests : FreshShape(q)'
  BY DEF FreshShape, EarlyPoints, HandlerPoints, Mapped, Unclaimed, Removing
<1>4. \A q \in Requests : RetiredShape(q)'
  BY DEF RetiredShape, Removing, Mapped, Unclaimed, MapShape, ClaimShape
<1>5. \A q \in Requests : ErrorShape(q)'
  BY DEF ErrorShape, FreshShape, EarlyPoints, HandlerPoints
<1>6. MapShape'
  BY DEF MapShape, Unclaimed, Removing
<1>7. ClaimShape'
  <2>1. Bystander(r)
    BY DEF Bystander, InHandler
  <2> QED BY <2>1, BystanderKeepsClaims
<1>8. ListedStayMapped'
  BY DEF ListedStayMapped, Listing
<1> QED BY <1>1, <1>2, <1>3, <1>4, <1>5, <1>6, <1>7, <1>8

\* The lookup of a proxied call (proxy.go:266-274) keeps ProxyInv.
LEMMA CallLookupPreserves ==
  ASSUME IInv, ProxyInv, Quiet, NEW r \in Requests,
         CallLookup(r)
  PROVE  ProxyInv'
<1> USE ProxyAssumption, ChildAssumption DEF ProxyInv, ProxyTypeOK,
   HandlerShape, QuietFor, Quiet, NoNewStop, CallLookup, Goto, Reply
<1>1. ProxyTypeOK'
  BY DEF HandlerPoints
<1>2. \A q \in Requests : HandlerShape(q)'
  BY DEF Over
<1>3. \A q \in Requests : FreshShape(q)'
  BY DEF FreshShape, EarlyPoints, HandlerPoints, Mapped, Unclaimed, Removing
<1>4. \A q \in Requests : RetiredShape(q)'
  BY DEF RetiredShape, Removing, Mapped, Unclaimed, MapShape, ClaimShape
<1>5. \A q \in Requests : ErrorShape(q)'
  BY DEF ErrorShape, FreshShape, EarlyPoints, HandlerPoints
<1>6. MapShape'
  BY DEF MapShape, Unclaimed, Removing
<1>7. ClaimShape'
  <2>1. Bystander(r)
    BY DEF Bystander, InHandler
  <2> QED BY <2>1, BystanderKeepsClaims
<1>8. ListedStayMapped'
  BY DEF ListedStayMapped, Listing
<1> QED BY <1>1, <1>2, <1>3, <1>4, <1>5, <1>6, <1>7, <1>8

\* Taking the session (proxy.go:276-281) keeps ProxyInv.
LEMMA CallSessionPreserves ==
  ASSUME IInv, ProxyInv, Quiet, NEW r \in Requests,
         CallSession(r)
  PROVE  ProxyInv'
<1> USE ProxyAssumption, ChildAssumption DEF ProxyInv, ProxyTypeOK,
   HandlerShape, QuietFor, Quiet, NoNewStop, CallSession, Goto, Reply
<1>1. ProxyTypeOK'
  BY DEF HandlerPoints
<1>2. \A q \in Requests : HandlerShape(q)'
  BY DEF Over
<1>3. \A q \in Requests : FreshShape(q)'
  BY DEF FreshShape, EarlyPoints, HandlerPoints, Mapped, Unclaimed, Removing
<1>4. \A q \in Requests : RetiredShape(q)'
  BY DEF RetiredShape, Removing, Mapped, Unclaimed, MapShape, ClaimShape
<1>5. \A q \in Requests : ErrorShape(q)'
  BY DEF ErrorShape, FreshShape, EarlyPoints, HandlerPoints
<1>6. MapShape'
  BY DEF MapShape, Unclaimed, Removing
<1>7. ClaimShape'
  <2>1. Bystander(r)
    BY DEF Bystander, InHandler
  <2> QED BY <2>1, BystanderKeepsClaims
<1>8. ListedStayMapped'
  BY DEF ListedStayMapped, Listing
<1> QED BY <1>1, <1>2, <1>3, <1>4, <1>5, <1>6, <1>7, <1>8

\* The answer of a call (proxy.go:281-288) keeps ProxyInv.
LEMMA CallDonePreserves ==
  ASSUME IInv, ProxyInv, Quiet, NEW r \in Requests,
         CallDone(r)
  PROVE  ProxyInv'
<1> USE ProxyAssumption, ChildAssumption DEF ProxyInv, ProxyTypeOK,
   HandlerShape, QuietFor, Quiet, NoNewStop, CallDone, Goto, Reply
<1>1. ProxyTypeOK'
  BY DEF HandlerPoints
<1>2. \A q \in Requests : HandlerShape(q)'
  BY DEF Over
<1>3. \A q \in Requests : FreshShape(q)'
  BY DEF FreshShape, EarlyPoints, HandlerPoints, Mapped, Unclaimed, Removing
<1>4. \A q \in Requests : RetiredShape(q)'
  BY DEF RetiredShape, Removing, Mapped, Unclaimed, MapShape, ClaimShape
<1>5. \A q \in Requests : ErrorShape(q)'
  BY DEF ErrorShape, FreshShape, EarlyPoints, HandlerPoints
<1>6. MapShape'
  BY DEF MapShape, Unclaimed, Removing
<1>7. ClaimShape'
  <2>1. Bystander(r)
    BY DEF Bystander, InHandler
  <2> QED BY <2>1, BystanderKeepsClaims
<1>8. ListedStayMapped'
  BY DEF ListedStayMapped, Listing
<1> QED BY <1>1, <1>2, <1>3, <1>4, <1>5, <1>6, <1>7, <1>8

\* The failure of a call (proxy.go:281-287) keeps ProxyInv.
LEMMA CallFailedPreserves ==
  ASSUME IInv, ProxyInv, Quiet, NEW r \in Requests,
         CallFailed(r)
  PROVE  ProxyInv'
<1> USE ProxyAssumption, ChildAssumption DEF ProxyInv, ProxyTypeOK,
   HandlerShape, QuietFor, Quiet, NoNewStop, CallFailed, Goto, Reply
<1>1. ProxyTypeOK'
  BY DEF HandlerPoints
<1>2. \A q \in Requests : HandlerShape(q)'
  BY DEF Over
<1>3. \A q \in Requests : FreshShape(q)'
  BY DEF FreshShape, EarlyPoints, HandlerPoints, Mapped, Unclaimed, Removing
<1>4. \A q \in Requests : RetiredShape(q)'
  BY DEF RetiredShape, Removing, Mapped, Unclaimed, MapShape, ClaimShape
<1>5. \A q \in Requests : ErrorShape(q)'
  BY DEF ErrorShape, FreshShape, EarlyPoints, HandlerPoints
<1>6. MapShape'
  BY DEF MapShape, Unclaimed, Removing
<1>7. ClaimShape'
  <2>1. Bystander(r)
    BY DEF Bystander, InHandler
  <2> QED BY <2>1, BystanderKeepsClaims
<1>8. ListedStayMapped'
  BY DEF ListedStayMapped, Listing
<1> QED BY <1>1, <1>2, <1>3, <1>4, <1>5, <1>6, <1>7, <1>8

\* The lookup of the crash callback (proxy.go:294-303) keeps ProxyInv.
LEMMA CrashLookupPreserves ==
  ASSUME IInv, ProxyInv, Quiet, NEW r \in Requests,
         CrashLookup(r)
  PROVE  ProxyInv'
<1> USE ProxyAssumption, ChildAssumption DEF ProxyInv, ProxyTypeOK,
   HandlerShape, QuietFor, Quiet, NoNewStop, CrashLookup, handlerVars
<1>1. ProxyTypeOK'
  BY DEF HandlerPoints
<1>2. \A q \in Requests : HandlerShape(q)'
  BY DEF Over
<1>3. \A q \in Requests : FreshShape(q)'
  BY DEF FreshShape, EarlyPoints, HandlerPoints, Mapped, Unclaimed, Removing
<1>4. \A q \in Requests : RetiredShape(q)'
  BY DEF RetiredShape, Removing, Mapped, Unclaimed, MapShape, ClaimShape
<1>5. \A q \in Requests : ErrorShape(q)'
  BY DEF ErrorShape, FreshShape, EarlyPoints, HandlerPoints
<1>6. MapShape'
  BY DEF MapShape, Unclaimed, Removing
<1>7. ClaimShape'
  BY DEF ClaimShape, Removing, InHandler
<1>8. ListedStayMapped'
  BY DEF ListedStayMapped, Listing
<1> QED BY <1>1, <1>2, <1>3, <1>4, <1>5, <1>6, <1>7, <1>8

\* Its removal of tools (proxy.go:303-316) keeps ProxyInv.
LEMMA CrashRemovePreserves ==
  ASSUME IInv, ProxyInv, Quiet, NEW r \in Requests,
         CrashRemove(r)
  PROVE  ProxyInv'
<1> USE ProxyAssumption, ChildAssumption DEF ProxyInv, ProxyTypeOK,
   HandlerShape, QuietFor, Quiet, NoNewStop, CrashRemove, handlerVars,
   RemoveToolsForChild
<1>1. ProxyTypeOK'
  BY DEF HandlerPoints
<1>2. \A q \in Requests : HandlerShape(q)'
  BY DEF Over
<1>3. \A q \in Requests : FreshShape(q)'
  BY DEF FreshShape, EarlyPoints, HandlerPoints, Mapped, Unclaimed, Removing
<1>4. \A q \in Requests : RetiredShape(q)'
  BY DEF RetiredShape, Removing, Mapped, Unclaimed, MapShape, ClaimShape
<1>5. \A q \in Requests : ErrorShape(q)'
  BY DEF ErrorShape, FreshShape, EarlyPoints, HandlerPoints
<1>6. MapShape'
  BY DEF MapShape, Unclaimed, Removing
<1>7. ClaimShape'
  BY DEF ClaimShape, Removing, InHandler
<1>8. ListedStayMapped'
  BY DEF ListedStayMapped, Listing
<1> QED BY <1>1, <1>2, <1>3, <1>4, <1>5, <1>6, <1>7, <1>8

\* The snapshot of Shutdown (proxy.go:60-67) keeps ProxyInv.
LEMMA ShutdownPreserves ==
  ASSUME IInv, ProxyInv, Quiet,
         Shutdown
  PROVE  ProxyInv'
<1> USE ProxyAssumption, ChildAssumption DEF ProxyInv, ProxyTypeOK,
   HandlerShape, QuietFor, Quiet, NoNewStop, Shutdown, handlerVars
<1>1. ProxyTypeOK'
  BY DEF HandlerPoints
<1>2. \A q \in Requests : HandlerShape(q)'
  BY DEF Over
<1>3. \A q \in Requests : FreshShape(q)'
  BY DEF FreshShape, EarlyPoints, HandlerPoints, Mapped, Unclaimed, Removing
<1>4. \A q \in Requests : RetiredShape(q)'
  BY DEF RetiredShape, Removing, Mapped, Unclaimed, MapShape, ClaimShape
<1>5. \A q \in Requests : ErrorShape(q)'
  BY DEF ErrorShape, FreshShape, EarlyPoints, HandlerPoints
<1>6. MapShape'
  BY DEF MapShape, Unclaimed, Removing
<1>7. ClaimShape'
  <2>1. \A c \in Children : \A p, q \in Requests :
         Removing(p, c)' /\ Removing(q, c)' => p = q
    BY DEF Removing, MapShape, Unclaimed, ClaimShape
  <2>2. \A c \in Children : \A q \in Requests :
         Stopping(q, c)' => hpc'[q] = "stopping" /\ target'[q] = c
    BY DEF ClaimShape
  <2>3. \A c \in Children : Stopping(Main, c)' => phase' # "serving" /\ c \notin toStop'
    BY DEF ClaimShape, MapShape, Unclaimed
  <2>4. phase' # "serving" => \A q \in Requests : ~InHandler(q)'
    BY DEF ClaimShape, InHandler
  <2>5. phase' # "serving" => \A n \in Names : children'[n] = NoChild
    BY DEF ClaimShape, InHandler
  <2>6. phase' = "serving" => toStop' = {}
    BY DEF ClaimShape
  <2> QED BY <2>1, <2>2, <2>3, <2>4, <2>5, <2>6 DEF ClaimShape
<1>8. ListedStayMapped'
  BY DEF ListedStayMapped, InHandler
<1> QED BY <1>1, <1>2, <1>3, <1>4, <1>5, <1>6, <1>7, <1>8

\* The end of Shutdown (main.go:37-42) keeps ProxyInv.
LEMMA ShutdownDonePreserves ==
  ASSUME IInv, ProxyInv, Quiet,
         ShutdownDone
  PROVE  ProxyInv'
<1> USE ProxyAssumption, ChildAssumption DEF ProxyInv, ProxyTypeOK,
   HandlerShape, QuietFor, Quiet, NoNewStop, ShutdownDone, handlerVars
<1>1. ProxyTypeOK'
  BY DEF HandlerPoints
<1>2. \A q \in Requests : HandlerShape(q)'
  BY DEF Over
<1>3. \A q \in Requests : FreshShape(q)'
  BY DEF FreshShape, EarlyPoints, HandlerPoints, Mapped, Unclaimed, Removing
<1>4. \A q \in Requests : RetiredShape(q)'
  BY DEF RetiredShape, Removing, Mapped, Unclaimed, MapShape, ClaimShape
<1>5. \A q \in Requests : ErrorShape(q)'
  BY DEF ErrorShape, FreshShape, EarlyPoints, HandlerPoints
<1>6. MapShape'
  BY DEF MapShape, Unclaimed, Removing
<1>7. ClaimShape'
  BY DEF ClaimShape, Removing, InHandler
<1>8. ListedStayMapped'
  BY DEF ListedStayMapped, Listing
<1> QED BY <1>1, <1>2, <1>3, <1>4, <1>5, <1>6, <1>7, <1>8

\* A quiet step of a child keeps ProxyInv.
LEMMA ChildQuietPreserves ==
  ASSUME IInv, ProxyInv, Quiet,
         UNCHANGED proxyVars
  PROVE  ProxyInv'
<1> USE ProxyAssumption, ChildAssumption DEF ProxyInv, ProxyTypeOK,
   HandlerShape, QuietFor, Quiet, NoNewStop, proxyVars, handlerVars
<1>1. ProxyTypeOK'
  BY DEF HandlerPoints
<1>2. \A q \in Requests : HandlerShape(q)'
  BY DEF Over
<1>3. \A q \in Requests : FreshShape(q)'
  BY DEF FreshShape, EarlyPoints, HandlerPoints, Mapped, Unclaimed, Removing
<1>4. \A q \in Requests : RetiredShape(q)'
  BY DEF RetiredShape, Removing, Mapped, Unclaimed, MapShape, ClaimShape
<1>5. \A q \in Requests : ErrorShape(q)'
  BY DEF ErrorShape, FreshShape, EarlyPoints, HandlerPoints
<1>6. MapShape'
  BY DEF MapShape, Unclaimed, Removing
<1>7. ClaimShape'
  BY DEF ClaimShape, Removing, InHandler
<1>8. ListedStayMapped'
  BY DEF ListedStayMapped, Listing
<1> QED BY <1>1, <1>2, <1>3, <1>4, <1>5, <1>6, <1>7, <1>8

\* The call of Start (proxy.go:138, child.go:100-111) keeps ProxyInv.
LEMMA AddStartPreserves ==
  ASSUME IInv, ProxyInv, NEW r \in Requests,
         AddStart(r)
  PROVE  ProxyInv'
<1> USE ProxyAssumption, ChildAssumption DEF ProxyInv, ProxyTypeOK,
   HandlerShape, QuietFor, AddStart, Goto, NoNewStop
<1>0. /\ NoNewStop
      /\ \A c \in Children \ {r} : QuietFor(c)
      /\ status'[r] = "stopped" => status[r] = "stopped"
      /\ Over(r) => Over(r)'
      /\ startPC[r] = "idle"
  BY DEF IInv, TypeOK, Statuses, StartPoints, NoNewStop, Stopping, Over, BeginStart,
     RejectStart, fields, stopVars
<1>1. ProxyTypeOK'
  BY <1>0 DEF HandlerPoints
<1>2. \A q \in Requests : HandlerShape(q)'
  BY <1>0 DEF Over
<1>3. \A q \in Requests : FreshShape(q)'
  BY <1>0 DEF FreshShape, EarlyPoints, HandlerPoints, Mapped, Unclaimed,
     Removing
<1>4. \A q \in Requests : RetiredShape(q)'
  BY <1>0 DEF RetiredShape, Removing, Mapped, Unclaimed, MapShape, ClaimShape
<1>5. \A q \in Requests : ErrorShape(q)'
  BY <1>0 DEF ErrorShape, FreshShape, EarlyPoints, HandlerPoints
<1>6. MapShape'
  BY <1>0 DEF MapShape, Unclaimed, Removing
<1>7. ClaimShape'
  BY <1>0 DEF ClaimShape, Removing, InHandler
<1>8. ListedStayMapped'
  BY <1>0 DEF ListedStayMapped, Listing
<1> QED BY <1>1, <1>2, <1>3, <1>4, <1>5, <1>6, <1>7, <1>8

\* The call of Stop (proxy.go:193, child.go:253-266) keeps ProxyInv.
LEMMA RemoveStopPreserves ==
  ASSUME IInv, ProxyInv, NEW r \in Requests,
         RemoveStop(r)
  PROVE  ProxyInv'
<1> USE ProxyAssumption, ChildAssumption DEF ProxyInv, ProxyTypeOK,
   HandlerShape, QuietFor, RemoveStop, Goto
<1>0. /\ \A j \in Stoppers, c \in Children :
            Stopping(j, c)' => Stopping(j, c) \/ (j = r /\ c = target[r])
      /\ \A c \in Children \ {target[r]} : QuietFor(c)
      /\ Over(target[r])'
      /\ startPC' = startPC /\ startErr' = startErr
      /\ Removing(r, target[r])
  <2>1. target[r] \in Children /\ r \in Stoppers /\ Removing(r, target[r])
    BY DEF Removing
  <2> QED BY <2>1, StopBeginEffect
<1>1. ProxyTypeOK'
  BY <1>0 DEF HandlerPoints
<1>2. \A q \in Requests : HandlerShape(q)'
  BY <1>0 DEF Over
<1>3. \A q \in Requests : FreshShape(q)'
  BY <1>0 DEF FreshShape, EarlyPoints, HandlerPoints, Mapped, Unclaimed,
     Removing
<1>4. \A q \in Requests : RetiredShape(q)'
  BY <1>0 DEF RetiredShape, Removing, Mapped, Unclaimed, MapShape, ClaimShape
<1>5. \A q \in Requests : ErrorShape(q)'
  BY <1>0 DEF ErrorShape, FreshShape, EarlyPoints, HandlerPoints
<1>6. MapShape'
  BY <1>0 DEF MapShape, Unclaimed, Removing
<1>7. ClaimShape'
  BY <1>0 DEF ClaimShape, Removing, InHandler
<1>8. ListedStayMapped'
  BY <1>0 DEF ListedStayMapped, Listing
<1> QED BY <1>1, <1>2, <1>3, <1>4, <1>5, <1>6, <1>7, <1>8

\* The call of Stop in Shutdown (proxy.go:69-73) keeps ProxyInv.
LEMMA ShutdownStopPreserves ==
  ASSUME IInv, ProxyInv, NEW d \in toStop, phase = "stopping", toStop' = toStop \ {d},
         UNCHANGED <<children, registered, handlerVars, crashSaw, phase>>,
         StopBegin(Main, d)
  PROVE  ProxyInv'
<1> USE ProxyAssumption, ChildAssumption DEF ProxyInv, ProxyTypeOK,
   HandlerShape, QuietFor, handlerVars
<1>0. /\ \A j \in Stoppers, c \in Children :
            Stopping(j, c)' => Stopping(j, c) \/ (j = Main /\ c = d)
      /\ \A c \in Children \ {d} : QuietFor(c)
      /\ Over(d)'
      /\ startPC' = startPC /\ startErr' = startErr
  BY StopBeginEffect
<1>1. ProxyTypeOK'
  BY <1>0 DEF HandlerPoints
<1>2. \A q \in Requests : HandlerShape(q)'
  BY <1>0 DEF Over
<1>3. \A q \in Requests : FreshShape(q)'
  BY <1>0 DEF FreshShape, EarlyPoints, HandlerPoints, Mapped, Unclaimed,
     Removing
<1>4. \A q \in Requests : RetiredShape(q)'
  BY <1>0 DEF RetiredShape, Removing, Mapped, Unclaimed, MapShape, ClaimShape
<1>5. \A q \in Requests : ErrorShape(q)'
  BY <1>0 DEF ErrorShape, FreshShape, EarlyPoints, HandlerPoints
<1>6. MapShape'
  BY <1>0 DEF MapShape, Unclaimed, Removing
<1>7. ClaimShape'
  BY <1>0 DEF ClaimShape, Removing, InHandler
<1>8. ListedStayMapped'
  BY <1>0 DEF ListedStayMapped, Listing
<1> QED BY <1>1, <1>2, <1>3, <1>4, <1>5, <1>6, <1>7, <1>8

\* A step of a child that changes nothing in the proxy keeps ProxyInv.
LEMMA ChildStepPreserves ==
  ASSUME IInv, ProxyInv, ChildStep
  PROVE  ProxyInv'
<1>1. Quiet
  BY StartIsQuiet, MonitorIsQuiet, StopIsQuiet, CallIsQuiet
     DEF ChildStep, MonitorStep, CallStep
<1> QED BY <1>1, ChildQuietPreserves DEF ChildStep

\* So does every step of the proxy.
LEMMA NextProxyInv ==
  ASSUME IInv, ProxyInv, [Next]_vars
  PROVE  ProxyInv'
<1> USE ProxyAssumption
<1>1. UNCHANGED childVars => Quiet
  BY StutterIsQuiet
<1>2. CASE UNCHANGED vars
  BY <1>1, <1>2, ChildQuietPreserves DEF vars
<1>3. ASSUME NEW r \in Requests, NEW o \in Ops, NEW n \in Names, Arrive(r, o, n)
      PROVE  ProxyInv'
  BY <1>1, <1>3, ArrivePreserves DEF Arrive
<1>4. ASSUME NEW r \in Requests, AddStep(r) PROVE ProxyInv'
  <2>1. CASE AddInsert(r)   BY <1>1, <2>1, AddInsertPreserves DEF AddInsert
  <2>2. CASE AddStart(r)    BY <2>2, AddStartPreserves
  <2>3. CASE AddStarted(r)  BY <1>1, <2>3, AddStartedPreserves DEF AddStarted
  <2>4. CASE AddCheck(r)    BY <1>1, <2>4, AddCheckPreserves DEF AddCheck
  <2>5. CASE AddDrop(r)     BY <1>1, <2>5, AddDropPreserves DEF AddDrop
  <2>6. CASE RegisterTool(r)  BY <1>1, <2>6, RegisterToolPreserves DEF RegisterTool
  <2> QED BY <1>4, <2>1, <2>2, <2>3, <2>4, <2>5, <2>6 DEF AddStep
<1>5. ASSUME NEW r \in Requests, RemoveStep(r) PROVE ProxyInv'
  <2>1. CASE ReloadConfig(r)  BY <1>1, <2>1, ReloadConfigPreserves DEF ReloadConfig
  <2>2. CASE RemoveTake(r)    BY <1>1, <2>2, RemoveTakePreserves DEF RemoveTake
  <2>3. CASE RemoveTools(r)   BY <1>1, <2>3, RemoveToolsPreserves DEF RemoveTools
  <2>4. CASE RemoveStop(r)    BY <2>4, RemoveStopPreserves
  <2>5. CASE Removed(r)       BY <1>1, <2>5, RemovedPreserves DEF Removed
  <2> QED BY <1>5, <2>1, <2>2, <2>3, <2>4, <2>5 DEF RemoveStep
<1>6. ASSUME NEW r \in Requests, ListStep(r) PROVE ProxyInv'
  <2>1. CASE ListBegin(r)   BY <1>1, <2>1, ListBeginPreserves DEF ListBegin
  <2>2. CASE ListStatus(r)  BY <1>1, <2>2, ListStatusPreserves DEF ListStatus
  <2>3. CASE ListDetail(r)  BY <1>1, <2>3, ListDetailPreserves DEF ListDetail
  <2> QED BY <1>6, <2>1, <2>2, <2>3 DEF ListStep
<1>7. ASSUME NEW r \in Requests, ToolCallStep(r) \/ CallDone(r) PROVE ProxyInv'
  <2>1. CASE CallLookup(r)  BY <1>1, <2>1, CallLookupPreserves DEF CallLookup
  <2>2. CASE CallSession(r)
    <3>1. ASSUME GetSession(r, target[r]) PROVE Quiet
      <4>1. target[r] \in Children
        BY <2>2 DEF CallSession, ProxyInv, HandlerShape
      <4> QED BY <3>1, <4>1, CallIsQuiet
    <3> QED BY <1>1, <2>2, <3>1, CallSessionPreserves DEF CallSession
  <2>3. CASE CallDone(r)
    BY <2>3, CallIsQuiet, CallDonePreserves DEF CallDone, CallStep
  <2>4. CASE CallFailed(r)
    BY <2>4, CallIsQuiet, CallFailedPreserves DEF CallFailed, CallStep
  <2> QED BY <1>7, <2>1, <2>2, <2>3, <2>4 DEF ToolCallStep
<1>8. ASSUME NEW r \in Requests, CrashStep(r) PROVE ProxyInv'
  <2>1. CASE CrashLookup(r)
    BY <1>1, <2>1, MonitorIsQuiet, CrashLookupPreserves DEF CrashLookup, MonitorStep
  <2>2. CASE CrashRemove(r)
    BY <2>2, MonitorIsQuiet, CrashRemovePreserves DEF CrashRemove, MonitorStep
  <2> QED BY <1>8, <2>1, <2>2 DEF CrashStep
<1>9. CASE ShutdownStep
  <2>1. CASE Shutdown      BY <1>1, <2>1, ShutdownPreserves DEF Shutdown
  <2>2. CASE ShutdownStop  BY <2>2, ShutdownStopPreserves DEF ShutdownStop
  <2>3. CASE ShutdownDone  BY <1>1, <2>3, ShutdownDonePreserves DEF ShutdownDone
  <2> QED BY <1>9, <2>1, <2>2, <2>3 DEF ShutdownStep
<1> QED BY <1>2, <1>3, <1>4, <1>5, <1>6, <1>7, <1>8, <1>9, ChildStepPreserves
        DEF Next, Finished

\* The proxy begins without children and without requests.
LEMMA InitProxyInv == Init => ProxyInv
BY ProxyAssumption, ChildAssumption
   DEF Init, ChildInit, ProxyInv, ProxyTypeOK, HandlerPoints, HandlerShape, FreshShape,
       EarlyPoints, RetiredShape, ErrorShape, MapShape, ClaimShape, ListedStayMapped,
       Mapped, Unclaimed, Removing, Stopping, InHandler

\* Whatever the proxy does to a child is a step that Child allows: it stops
\* and calls only children it has, and starts each at most once.
LEMMA StepRefinesChild ==
  ASSUME ProxyInv, [Next]_vars
  PROVE  [ChildNext]_childVars
<1> USE ProxyAssumption
<1>1. CASE UNCHANGED vars
  BY <1>1 DEF vars
<1>2. ASSUME NEW r \in Requests, AddStep(r) PROVE [ChildNext]_childVars
  BY <1>2 DEF AddStep, AddInsert, AddStart, AddStarted, AddCheck, AddDrop, RegisterTool,
     ChildNext
<1>3. ASSUME NEW r \in Requests, RemoveStep(r) PROVE [ChildNext]_childVars
  <2>1. CASE RemoveStop(r)
    <3>1. target[r] \in Children
      BY <2>1 DEF RemoveStop, ProxyInv, HandlerShape
    <3> QED BY <2>1, <3>1 DEF RemoveStop, ChildNext
  <2> QED BY <1>3, <2>1 DEF RemoveStep, ReloadConfig, RemoveTake, RemoveTools, Removed
<1>4. ASSUME NEW r \in Requests, ToolCallStep(r) \/ CallDone(r)
      PROVE  [ChildNext]_childVars
  <2>1. CASE CallSession(r)
    <3>1. target[r] \in Children
      BY <2>1 DEF CallSession, ProxyInv, HandlerShape
    <3> QED BY <2>1, <3>1 DEF CallSession, ChildNext
  <2> QED BY <1>4, <2>1 DEF ToolCallStep, CallLookup, CallDone, CallFailed, CallStep,
          ChildNext
<1>5. ASSUME NEW r \in Requests, CrashStep(r) PROVE [ChildNext]_childVars
  BY <1>5 DEF CrashStep, CrashLookup, CrashRemove, MonitorStep, ChildNext
<1>6. CASE ShutdownStep
  <2>1. toStop \subseteq Children /\ Main \in Stoppers
    BY DEF ProxyInv, ProxyTypeOK
  <2> QED BY <1>6, <2>1 DEF ShutdownStep, Shutdown, ShutdownStop, ShutdownDone, ChildNext
<1>7. CASE ChildStep
  BY <1>7 DEF ChildStep, MonitorStep, CallStep, ChildNext
<1> QED BY <1>1, <1>2, <1>3, <1>4, <1>5, <1>6, <1>7
        DEF Next, Arrive, ListStep, ListBegin, ListStatus, ListDetail, Finished, vars

\* The invariants of the children and of the proxy carry each other: handlers
\* keep to the protocol of Child, and children keep the proxy's promises.
THEOREM ProxyInvariant == Spec => [](IInv /\ ProxyInv)
<1>1. Init => IInv /\ ProxyInv
  BY InitIInv, InitProxyInv DEF Init
<1>2. IInv /\ ProxyInv /\ [Next]_vars => (IInv /\ ProxyInv)'
  BY NextIInv, NextProxyInv, StepRefinesChild
<1> QED BY <1>1, <1>2, PTL DEF Spec

\* The proxy implements Child: every theorem about a child holds in it
\* (proxy.go calls Start, Stop and Session as child.go expects).
THEOREM ProxyImplementsChild == Spec => ChildSpec
<1>1. Init => ChildInit
  BY DEF Init
<1>2. ProxyInv /\ [Next]_vars => [ChildNext]_childVars
  BY StepRefinesChild
<1> QED BY <1>1, <1>2, ProxyInvariant, PTL DEF Spec, ChildSpec

\* So every child of the proxy has the life it is documented to have, whatever
\* the handlers, the crash callback and the shutdown do to it at the same time
\* (child.go:39-48, 249-252, mcpmux/README.md:95).
THEOREM ProxyImplementsLifecycle == Spec => ImplementsLifecycle
BY ProxyImplementsChild, ChildImplementsLifecycle

\* The variables of the proxy keep their types.
THEOREM ProxyTypes == Spec => []ProxyTypeOK
<1>1. ProxyInv => ProxyTypeOK  BY DEF ProxyInv
<1> QED BY <1>1, ProxyInvariant, PTL

\* When remove_server answers the process is dead, for any number of requests
\* in flight (proxy.go:180-195, 208-214).
THEOREM RemoveEndsProcess == Spec => []RemovedIsDead
<1>1. ASSUME ProxyInv, StoppedIsDead, CrashedIsDead PROVE RemovedIsDead
  <2> SUFFICES ASSUME NEW r \in Requests, op[r] \in {"remove", "reload"},
                      target[r] # NoChild, ~Removing(r, target[r])
               PROVE  proc[target[r]] # "alive"
    BY DEF RemovedIsDead
  <2>1. Over(target[r]) /\ Unclaimed(target[r])
    BY <1>1 DEF ProxyInv, RetiredShape
  <2>2. target[r] \in Children
    BY <1>1, ProxyAssumption DEF ProxyInv, ProxyTypeOK
  <2> QED BY <1>1, <2>1, <2>2 DEF Over, Unclaimed, StoppedIsDead, CrashedIsDead
<1> QED BY <1>1, ProxyInvariant, ProxyImplementsChild, StopEndsProcess,
        StatusTellsTheTruth, PTL

\* An add_server or reload_server that failed leaves no process that nobody
\* is stopping (proxy.go:138-152).
THEOREM FailedAddEndsProcess == Spec => []FailedAddIsDead
<1>1. ASSUME IInv, ProxyInv, StoppedIsDead, CrashedIsDead, FailedStartIsDead
      PROVE  FailedAddIsDead
  <2> SUFFICES ASSUME NEW r \in Requests, reply[r] = "error", proc[r] = "alive"
               PROVE  \E k \in Stoppers : Stopping(k, r)
    BY DEF FailedAddIsDead
  <2>1. r \in Children
    BY ProxyAssumption
  <2>2. CASE startPC[r] = "idle"
    BY <1>1, <2>1, <2>2 DEF IInv, StartShape
  <2>3. CASE Over(r)
    BY <1>1, <2>1, <2>3 DEF Over, StoppedIsDead, CrashedIsDead
  <2>4. CASE startPC[r] = "returned" /\ startErr[r]
    BY <1>1, <2>1, <2>4 DEF FailedStartIsDead, Holds
  <2> QED BY <1>1, <2>2, <2>3, <2>4 DEF ProxyInv, ErrorShape
<1> QED BY <1>1, ProxyInvariant, ProxyImplementsChild, StopEndsProcess,
        StatusTellsTheTruth, FailedStartEndsProcess, PTL

\* Only the handler that took a child out of the map, or main, stops it
\* (proxy.go:60-73, 180-195).
THEOREM StopsAreClaimed == Spec => []StopIsClaimed
<1>1. ASSUME ProxyInv PROVE StopIsClaimed
  <2>1. ASSUME NEW c \in Children, NEW k1 \in Stoppers, NEW k2 \in Stoppers,
               Stopping(k1, c), Stopping(k2, c)
        PROVE  k1 = k2
    <3>1. CASE k1 \in Requests /\ k2 \in Requests
      BY <1>1, <2>1, <3>1 DEF ProxyInv, ClaimShape, Removing
    <3>2. CASE k1 = Main \/ k2 = Main
      BY <1>1, <2>1, <3>2, ProxyAssumption DEF ProxyInv, ClaimShape, InHandler
    <3> QED BY <3>1, <3>2, ProxyAssumption
  <2>2. ASSUME NEW n \in Names, children[n] # NoChild
        PROVE  /\ status[children[n]] # "stopped"
               /\ Unclaimed(children[n])
    BY <1>1, <2>2 DEF ProxyInv, MapShape
  <2> QED BY <2>1, <2>2 DEF StopIsClaimed, Unclaimed
<1> QED BY <1>1, ProxyInvariant, PTL

\* What list_servers iterates over stays in the map (proxy.go:233-262).
THEOREM ListIsStable == Spec => []ListedStayMapped
<1>1. ProxyInv => ListedStayMapped  BY DEF ProxyInv
<1> QED BY <1>1, ProxyInvariant, PTL
=============================================================================
