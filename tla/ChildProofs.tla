---------------------------- MODULE ChildProofs ----------------------------
(***************************************************************************)
(* Safety of one child server, proved for any number of children, tools,   *)
(* stoppers and callers: IInv of Child is inductive, and it implies the    *)
(* invariants that the runs of MCChild check on small instances.           *)
(***************************************************************************)
EXTENDS Child, TLAPS

\* The initial states satisfy the invariant: nothing has been started.
LEMMA InitIInv == ChildInit => IInv
BY ChildAssumption
   DEF ChildInit, IInv, TypeOK, Statuses, StartPoints, StartActive, Stopping,
       Holds, StartShape, SessionShape, ProcShape, OneHolder, StopAwaitsStart,
       StopShape, Owned, OwnedProcess

\* The first critical section of Start (child.go:101-111) keeps IInv: it only
\* fires on a new child, which has no process and no Stop.
LEMMA BeginStartStep ==
  ASSUME IInv, NEW c \in Children, BeginStart(c)
  PROVE  IInv'
<1> USE ChildAssumption DEF IInv, OwnedProcess
<1>1. TypeOK'
  BY DEF TypeOK, BeginStart, osVars, stopVars, callVars, StartPoints,
       Statuses
<1>2. ASSUME NEW d \in Children PROVE StartShape(d)'
  BY DEF TypeOK, BeginStart, osVars, stopVars, callVars, StartShape,
       StartActive
<1>3. ASSUME NEW d \in Children PROVE SessionShape(d)'
  BY DEF TypeOK, BeginStart, osVars, stopVars, callVars, SessionShape
<1>4. ASSUME NEW d \in Children PROVE ProcShape(d)'
  BY DEF TypeOK, BeginStart, osVars, stopVars, callVars, ProcShape
<1>5. ASSUME NEW d \in Children PROVE StopAwaitsStart(d)'
  BY DEF TypeOK, BeginStart, osVars, stopVars, callVars, StopAwaitsStart,
       StartActive, Stopping
<1>6. ASSUME NEW d \in Children PROVE Owned(d)'
  BY DEF TypeOK, BeginStart, osVars, stopVars, callVars, Owned, Holds,
       Stopping
<1>7. ASSUME NEW d \in Children
      PROVE  OneHolder(d)'
  BY DEF TypeOK, BeginStart, osVars, stopVars, callVars, OneHolder, Holds,
       Stopping
<1>8. ASSUME NEW d \in Children, NEW j \in Stoppers PROVE StopShape(j, d)'
  BY DEF TypeOK, BeginStart, osVars, stopVars, callVars, StopShape, Stopping
<1> QED BY <1>1, <1>2, <1>3, <1>4, <1>5, <1>6, <1>7, <1>8

\* A Start refused because the child was stopped (child.go:102-105) keeps IInv.
LEMMA RejectStartStep ==
  ASSUME IInv, NEW c \in Children, RejectStart(c)
  PROVE  IInv'
<1> USE ChildAssumption DEF IInv, OwnedProcess
<1>1. TypeOK'
  BY DEF TypeOK, RejectStart, fields, osVars, stopVars, callVars,
       StartPoints, Statuses
<1>2. ASSUME NEW d \in Children PROVE StartShape(d)'
  BY DEF TypeOK, RejectStart, fields, osVars, stopVars, callVars, StartShape,
       StartActive
<1>3. ASSUME NEW d \in Children PROVE SessionShape(d)'
  BY DEF TypeOK, RejectStart, fields, osVars, stopVars, callVars,
       SessionShape
<1>4. ASSUME NEW d \in Children PROVE StopAwaitsStart(d)'
  BY DEF TypeOK, RejectStart, fields, osVars, stopVars, callVars,
       StopAwaitsStart, StartActive, Stopping
<1>5. ASSUME NEW d \in Children PROVE Owned(d)'
  BY DEF TypeOK, RejectStart, fields, osVars, stopVars, callVars, Owned,
       Holds, Stopping
<1>6. ASSUME NEW d \in Children
      PROVE  ProcShape(d)' /\ OneHolder(d)'
  BY DEF TypeOK, RejectStart, fields, osVars, stopVars, callVars, ProcShape,
       OneHolder, Holds, Stopping
<1>7. ASSUME NEW d \in Children, NEW j \in Stoppers PROVE StopShape(j, d)'
  BY DEF TypeOK, RejectStart, fields, osVars, stopVars, callVars, StopShape,
       Stopping
<1> QED BY <1>1, <1>2, <1>3, <1>4, <1>5, <1>6, <1>7

\* Starting the command (child.go:150) keeps IInv: the process belongs to Start.
LEMMA SpawnStep ==
  ASSUME IInv, NEW c \in Children, Spawn(c)
  PROVE  IInv'
<1> USE ChildAssumption DEF IInv, OwnedProcess
<1>1. TypeOK'
  BY DEF TypeOK, Spawn, fields, stopVars, callVars, StartPoints, Statuses
<1>2. ASSUME NEW d \in Children PROVE StartShape(d)'
  BY DEF TypeOK, Spawn, fields, stopVars, callVars, StartShape, StartActive
<1>3. ASSUME NEW d \in Children PROVE SessionShape(d)'
  BY DEF TypeOK, Spawn, fields, stopVars, callVars, SessionShape
<1>4. ASSUME NEW d \in Children PROVE ProcShape(d)'
  BY DEF TypeOK, Spawn, fields, stopVars, callVars, ProcShape, StartShape,
       StartActive
<1>5. ASSUME NEW d \in Children PROVE StopAwaitsStart(d)'
  BY DEF TypeOK, Spawn, fields, stopVars, callVars, StopAwaitsStart,
       StartActive, Stopping
<1>6. ASSUME NEW d \in Children PROVE Owned(d)'
  BY DEF TypeOK, Spawn, fields, stopVars, callVars, Owned, Holds, Stopping
<1>7. ASSUME NEW d \in Children
      PROVE  OneHolder(d)'
  BY DEF TypeOK, Spawn, fields, stopVars, callVars, OneHolder, Holds,
       Stopping
<1>8. ASSUME NEW d \in Children, NEW j \in Stoppers PROVE StopShape(j, d)'
  BY DEF TypeOK, Spawn, fields, stopVars, callVars, StopShape, Stopping
<1> QED BY <1>1, <1>2, <1>3, <1>4, <1>5, <1>6, <1>7, <1>8

\* A command that cannot be started (child.go:150-158) keeps IInv.
LEMMA SpawnFailStep ==
  ASSUME IInv, NEW c \in Children, SpawnFail(c)
  PROVE  IInv'
<1> USE ChildAssumption DEF IInv, OwnedProcess
<1>1. TypeOK'
  BY DEF TypeOK, SpawnFail, fields, osVars, stopVars, callVars, StartPoints,
       Statuses
<1>2. ASSUME NEW d \in Children PROVE StartShape(d)'
  BY DEF TypeOK, SpawnFail, fields, osVars, stopVars, callVars, StartShape,
       StartActive
<1>3. ASSUME NEW d \in Children PROVE SessionShape(d)'
  BY DEF TypeOK, SpawnFail, fields, osVars, stopVars, callVars, SessionShape
<1>4. ASSUME NEW d \in Children PROVE StopAwaitsStart(d)'
  BY DEF TypeOK, SpawnFail, fields, osVars, stopVars, callVars,
       StopAwaitsStart, StartActive, Stopping
<1>5. ASSUME NEW d \in Children PROVE Owned(d)'
  BY DEF TypeOK, SpawnFail, fields, osVars, stopVars, callVars, Owned, Holds,
       Stopping
<1>6. ASSUME NEW d \in Children
      PROVE  ProcShape(d)' /\ OneHolder(d)'
  BY DEF TypeOK, SpawnFail, fields, osVars, stopVars, callVars, ProcShape,
       OneHolder, Holds, Stopping
<1>7. ASSUME NEW d \in Children, NEW j \in Stoppers PROVE StopShape(j, d)'
  BY DEF TypeOK, SpawnFail, fields, osVars, stopVars, callVars, StopShape,
       Stopping
<1> QED BY <1>1, <1>2, <1>3, <1>4, <1>5, <1>6, <1>7

\* A successful handshake (child.go:150) keeps IInv.
LEMMA HandshakeOkStep ==
  ASSUME IInv, NEW c \in Children, HandshakeOk(c)
  PROVE  IInv'
<1> USE ChildAssumption DEF IInv, OwnedProcess
<1>1. TypeOK'
  BY DEF TypeOK, HandshakeOk, fields, stopVars, callVars, StartPoints,
       Statuses
<1>2. ASSUME NEW d \in Children PROVE StartShape(d)'
  BY DEF TypeOK, HandshakeOk, fields, stopVars, callVars, StartShape,
       StartActive
<1>3. ASSUME NEW d \in Children PROVE SessionShape(d)'
  BY DEF TypeOK, HandshakeOk, fields, stopVars, callVars, SessionShape
<1>4. ASSUME NEW d \in Children PROVE ProcShape(d)'
  BY DEF TypeOK, HandshakeOk, fields, stopVars, callVars, ProcShape
<1>5. ASSUME NEW d \in Children PROVE StopAwaitsStart(d)'
  BY DEF TypeOK, HandshakeOk, fields, stopVars, callVars, StopAwaitsStart,
       StartActive, Stopping
<1>6. ASSUME NEW d \in Children PROVE Owned(d)'
  BY DEF TypeOK, HandshakeOk, fields, stopVars, callVars, Owned, Holds,
       Stopping
<1>7. ASSUME NEW d \in Children
      PROVE  OneHolder(d)'
  BY DEF TypeOK, HandshakeOk, fields, stopVars, callVars, OneHolder, Holds,
       Stopping
<1>8. ASSUME NEW d \in Children, NEW j \in Stoppers PROVE StopShape(j, d)'
  BY DEF TypeOK, HandshakeOk, fields, stopVars, callVars, StopShape, Stopping
<1> QED BY <1>1, <1>2, <1>3, <1>4, <1>5, <1>6, <1>7, <1>8

\* A failed handshake (child.go:151) keeps IInv: the process is still Start's.
LEMMA HandshakeFailStep ==
  ASSUME IInv, NEW c \in Children, HandshakeFail(c)
  PROVE  IInv'
<1> USE ChildAssumption DEF IInv, OwnedProcess
<1>1. TypeOK'
  BY DEF TypeOK, HandshakeFail, fields, osVars, stopVars, callVars,
       StartPoints, Statuses
<1>2. ASSUME NEW d \in Children PROVE StartShape(d)'
  BY DEF TypeOK, HandshakeFail, fields, osVars, stopVars, callVars,
       StartShape, StartActive
<1>3. ASSUME NEW d \in Children PROVE SessionShape(d)'
  BY DEF TypeOK, HandshakeFail, fields, osVars, stopVars, callVars,
       SessionShape
<1>4. ASSUME NEW d \in Children PROVE StopAwaitsStart(d)'
  BY DEF TypeOK, HandshakeFail, fields, osVars, stopVars, callVars,
       StopAwaitsStart, StartActive, Stopping
<1>5. ASSUME NEW d \in Children PROVE Owned(d)'
  BY DEF TypeOK, HandshakeFail, fields, osVars, stopVars, callVars, Owned,
       Holds, Stopping
<1>6. ASSUME NEW d \in Children
      PROVE  ProcShape(d)' /\ OneHolder(d)'
  BY DEF TypeOK, HandshakeFail, fields, osVars, stopVars, callVars,
       ProcShape, OneHolder, Holds, Stopping
<1>7. ASSUME NEW d \in Children, NEW j \in Stoppers PROVE StopShape(j, d)'
  BY DEF TypeOK, HandshakeFail, fields, osVars, stopVars, callVars,
       StopShape, Stopping
<1> QED BY <1>1, <1>2, <1>3, <1>4, <1>5, <1>6, <1>7

\* Killing the process of a failed handshake (child.go:154-157) keeps IInv.
LEMMA KillFailedStep ==
  ASSUME IInv, NEW c \in Children, KillFailed(c)
  PROVE  IInv'
<1> USE ChildAssumption DEF IInv, OwnedProcess
<1>1. TypeOK'
  BY DEF TypeOK, KillFailed, fields, stopVars, callVars, StartPoints,
       Statuses
<1>2. ASSUME NEW d \in Children PROVE StartShape(d)'
  BY DEF TypeOK, KillFailed, fields, stopVars, callVars, StartShape,
       StartActive
<1>3. ASSUME NEW d \in Children PROVE SessionShape(d)'
  BY DEF TypeOK, KillFailed, fields, stopVars, callVars, SessionShape
<1>4. ASSUME NEW d \in Children PROVE ProcShape(d)'
  BY DEF TypeOK, KillFailed, fields, stopVars, callVars, ProcShape
<1>5. ASSUME NEW d \in Children PROVE StopAwaitsStart(d)'
  BY DEF TypeOK, KillFailed, fields, stopVars, callVars, StopAwaitsStart,
       StartActive, Stopping
<1>6. ASSUME NEW d \in Children PROVE Owned(d)'
  BY DEF TypeOK, KillFailed, fields, stopVars, callVars, Owned, Holds,
       Stopping
<1>7. ASSUME NEW d \in Children
      PROVE  OneHolder(d)'
  BY DEF TypeOK, KillFailed, fields, stopVars, callVars, OneHolder, Holds,
       Stopping
<1>8. ASSUME NEW d \in Children, NEW j \in Stoppers PROVE StopShape(j, d)'
  BY DEF TypeOK, KillFailed, fields, stopVars, callVars, StopShape, Stopping
<1> QED BY <1>1, <1>2, <1>3, <1>4, <1>5, <1>6, <1>7, <1>8

\* Publishing the session (child.go:163-172) keeps IInv: it is given to the
\* Child only while no Stop has been here.
LEMMA PublishStep ==
  ASSUME IInv, NEW c \in Children, Publish(c)
  PROVE  IInv'
<1> USE ChildAssumption DEF IInv, OwnedProcess
<1>1. TypeOK'
  <2>1. /\ session \in [Children -> BOOLEAN] /\ startErr \in [Children -> BOOLEAN]
        /\ startPC \in [Children -> StartPoints]
    BY DEF TypeOK
  <2>2. /\ session' = session \/ session' = [session EXCEPT ![c] = TRUE]
        /\ startErr' = startErr \/ startErr' = [startErr EXCEPT ![c] = TRUE]
        /\ \/ startPC' = [startPC EXCEPT ![c] = "discover"]
           \/ startPC' = [startPC EXCEPT ![c] = "close"]
    BY Zenon DEF Publish
  <2>3. session' \in [Children -> BOOLEAN] /\ startErr' \in [Children -> BOOLEAN]
    BY <2>1, <2>2
  <2>4. startPC' \in [Children -> StartPoints]
    BY <2>1, <2>2 DEF StartPoints
  <2> QED BY <2>3, <2>4 DEF TypeOK, Publish, osVars, stopVars, callVars
<1>2. ASSUME NEW d \in Children PROVE StartShape(d)'
  BY DEF TypeOK, Publish, osVars, stopVars, callVars, StartShape, StartActive
<1>3. ASSUME NEW d \in Children PROVE SessionShape(d)'
  <2>1. CASE status[c] = "starting"
    BY <2>1 DEF TypeOK, Publish, osVars, stopVars, callVars, SessionShape,
         StartShape, StartActive
  <2>2. CASE ~(status[c] = "starting")
    BY <2>2 DEF TypeOK, Publish, osVars, stopVars, callVars, SessionShape,
         StartShape, StartActive
  <2> QED BY <2>1, <2>2
<1>4. ASSUME NEW d \in Children PROVE StopAwaitsStart(d)'
  BY DEF TypeOK, Publish, osVars, stopVars, callVars, StopAwaitsStart,
       StartActive, Stopping
<1>5. ASSUME NEW d \in Children PROVE Owned(d)'
  BY DEF TypeOK, Publish, osVars, stopVars, callVars, Owned, Holds, Stopping
<1>6. ASSUME NEW d \in Children
      PROVE  ProcShape(d)' /\ OneHolder(d)'
  BY DEF TypeOK, Publish, osVars, stopVars, callVars, ProcShape, OneHolder,
       Holds, Stopping
<1>7. ASSUME NEW d \in Children, NEW j \in Stoppers PROVE StopShape(j, d)'
  BY DEF TypeOK, Publish, osVars, stopVars, callVars, StopShape, Stopping
<1> QED BY <1>1, <1>2, <1>3, <1>4, <1>5, <1>6, <1>7

\* Reading the tool list (child.go:174) keeps IInv.
LEMMA DiscoverOkStep ==
  ASSUME IInv, NEW c \in Children, DiscoverOk(c)
  PROVE  IInv'
<1> USE ChildAssumption DEF IInv, OwnedProcess
<1>1. TypeOK'
  BY DEF TypeOK, DiscoverOk, fields, osVars, stopVars, callVars, StartPoints,
       Statuses
<1>2. ASSUME NEW d \in Children PROVE StartShape(d)'
  BY DEF TypeOK, DiscoverOk, fields, osVars, stopVars, callVars, StartShape,
       StartActive
<1>3. ASSUME NEW d \in Children PROVE SessionShape(d)'
  BY DEF TypeOK, DiscoverOk, fields, osVars, stopVars, callVars, SessionShape
<1>4. ASSUME NEW d \in Children PROVE StopAwaitsStart(d)'
  BY DEF TypeOK, DiscoverOk, fields, osVars, stopVars, callVars,
       StopAwaitsStart, StartActive, Stopping
<1>5. ASSUME NEW d \in Children PROVE Owned(d)'
  BY DEF TypeOK, DiscoverOk, fields, osVars, stopVars, callVars, Owned,
       Holds, Stopping
<1>6. ASSUME NEW d \in Children
      PROVE  ProcShape(d)' /\ OneHolder(d)'
  BY DEF TypeOK, DiscoverOk, fields, osVars, stopVars, callVars, ProcShape,
       OneHolder, Holds, Stopping
<1>7. ASSUME NEW d \in Children, NEW j \in Stoppers PROVE StopShape(j, d)'
  BY DEF TypeOK, DiscoverOk, fields, osVars, stopVars, callVars, StopShape,
       Stopping
<1> QED BY <1>1, <1>2, <1>3, <1>4, <1>5, <1>6, <1>7

\* A failed tools/list (child.go:174-175) keeps IInv.
LEMMA DiscoverFailStep ==
  ASSUME IInv, NEW c \in Children, DiscoverFail(c)
  PROVE  IInv'
<1> USE ChildAssumption DEF IInv, OwnedProcess
<1>1. TypeOK'
  BY DEF TypeOK, DiscoverFail, fields, osVars, stopVars, callVars,
       StartPoints, Statuses
<1>2. ASSUME NEW d \in Children PROVE StartShape(d)'
  BY DEF TypeOK, DiscoverFail, fields, osVars, stopVars, callVars,
       StartShape, StartActive
<1>3. ASSUME NEW d \in Children PROVE SessionShape(d)'
  BY DEF TypeOK, DiscoverFail, fields, osVars, stopVars, callVars,
       SessionShape
<1>4. ASSUME NEW d \in Children PROVE StopAwaitsStart(d)'
  BY DEF TypeOK, DiscoverFail, fields, osVars, stopVars, callVars,
       StopAwaitsStart, StartActive, Stopping
<1>5. ASSUME NEW d \in Children PROVE Owned(d)'
  BY DEF TypeOK, DiscoverFail, fields, osVars, stopVars, callVars, Owned,
       Holds, Stopping
<1>6. ASSUME NEW d \in Children
      PROVE  ProcShape(d)' /\ OneHolder(d)'
  BY DEF TypeOK, DiscoverFail, fields, osVars, stopVars, callVars, ProcShape,
       OneHolder, Holds, Stopping
<1>7. ASSUME NEW d \in Children, NEW j \in Stoppers PROVE StopShape(j, d)'
  BY DEF TypeOK, DiscoverFail, fields, osVars, stopVars, callVars, StopShape,
       Stopping
<1> QED BY <1>1, <1>2, <1>3, <1>4, <1>5, <1>6, <1>7

\* Taking the session back (child.go:177-182) keeps IInv: Start owns the
\* process until its Close has returned.
LEMMA UnpublishStep ==
  ASSUME IInv, NEW c \in Children, Unpublish(c)
  PROVE  IInv'
<1> USE ChildAssumption DEF IInv, OwnedProcess
<1>1. TypeOK'
  BY DEF TypeOK, Unpublish, osVars, stopVars, callVars, StartPoints, Statuses
<1>2. ASSUME NEW d \in Children PROVE StartShape(d)'
  BY DEF TypeOK, Unpublish, osVars, stopVars, callVars, StartShape,
       StartActive
<1>3. ASSUME NEW d \in Children PROVE SessionShape(d)'
  BY DEF TypeOK, Unpublish, osVars, stopVars, callVars, SessionShape
<1>4. ASSUME NEW d \in Children PROVE StopAwaitsStart(d)'
  BY DEF TypeOK, Unpublish, osVars, stopVars, callVars, StopAwaitsStart,
       StartActive, Stopping
<1>5. ASSUME NEW d \in Children PROVE Owned(d)'
  BY DEF TypeOK, Unpublish, osVars, stopVars, callVars, Owned, Holds,
       Stopping
<1>6. ASSUME NEW d \in Children
      PROVE  ProcShape(d)' /\ OneHolder(d)'
  BY DEF TypeOK, Unpublish, osVars, stopVars, callVars, ProcShape, OneHolder,
       Holds, Stopping
<1>7. ASSUME NEW d \in Children, NEW j \in Stoppers PROVE StopShape(j, d)'
  BY DEF TypeOK, Unpublish, osVars, stopVars, callVars, StopShape, Stopping
<1> QED BY <1>1, <1>2, <1>3, <1>4, <1>5, <1>6, <1>7

\* The Close on the error paths of start() (child.go:166, 183) keeps IInv.
LEMMA CloseInStartStep ==
  ASSUME IInv, NEW c \in Children, CloseInStart(c)
  PROVE  IInv'
<1> USE ChildAssumption DEF IInv, OwnedProcess
<1>1. TypeOK'
  BY DEF TypeOK, CloseInStart, SessionClosed, fields, stopVars, callVars,
       InFlight, StartPoints, Statuses
<1>2. ASSUME NEW d \in Children PROVE StartShape(d)'
  BY DEF TypeOK, CloseInStart, SessionClosed, fields, stopVars, callVars,
       InFlight, StartShape, StartActive
<1>3. ASSUME NEW d \in Children PROVE SessionShape(d)'
  BY DEF TypeOK, CloseInStart, SessionClosed, fields, stopVars, callVars,
       InFlight, SessionShape
<1>4. ASSUME NEW d \in Children PROVE ProcShape(d)'
  BY DEF TypeOK, CloseInStart, SessionClosed, fields, stopVars, callVars,
       InFlight, ProcShape
<1>5. ASSUME NEW d \in Children PROVE StopAwaitsStart(d)'
  BY DEF TypeOK, CloseInStart, SessionClosed, fields, stopVars, callVars,
       InFlight, StopAwaitsStart, StartActive, Stopping
<1>6. ASSUME NEW d \in Children PROVE Owned(d)'
  BY DEF TypeOK, CloseInStart, SessionClosed, fields, stopVars, callVars,
       InFlight, Owned, Holds, Stopping
<1>7. ASSUME NEW d \in Children
      PROVE  OneHolder(d)'
  BY DEF TypeOK, CloseInStart, SessionClosed, fields, stopVars, callVars,
       InFlight, OneHolder, Holds, Stopping
<1>8. ASSUME NEW d \in Children, NEW j \in Stoppers PROVE StopShape(j, d)'
  BY DEF TypeOK, CloseInStart, SessionClosed, fields, stopVars, callVars,
       InFlight, StopShape, Stopping
<1> QED BY <1>1, <1>2, <1>3, <1>4, <1>5, <1>6, <1>7, <1>8

\* The commit of start() (child.go:187-199) keeps IInv: when it gives up, the
\* Stop that took the session still waits for Start.
LEMMA CommitStep ==
  ASSUME IInv, NEW c \in Children, Commit(c)
  PROVE  IInv'
<1> USE ChildAssumption DEF IInv, OwnedProcess
<1>1. TypeOK'
  <2>1. /\ startErr \in [Children -> BOOLEAN] /\ status \in [Children -> Statuses]
        /\ startPC \in [Children -> StartPoints] /\ tools \in [Children -> SUBSET Tools]
        /\ monitorPC \in [Children -> {"none", "read", "wait", "notify", "done"}]
    BY DEF TypeOK
  <2>2. /\ startErr' = startErr \/ startErr' = [startErr EXCEPT ![c] = TRUE]
        /\ status' = status \/ status' = [status EXCEPT ![c] = "running"]
        /\ monitorPC' = monitorPC \/ monitorPC' = [monitorPC EXCEPT ![c] = "read"]
        /\ startPC' = [startPC EXCEPT ![c] = "finish"]
        /\ tools' = tools \/ \E ts \in SUBSET Tools : tools' = [tools EXCEPT ![c] = ts]
    BY Zenon DEF Commit
  <2>3. startErr' \in [Children -> BOOLEAN]
    BY <2>1, <2>2
  <2>4. tools' \in [Children -> SUBSET Tools]
    <3>1. ASSUME NEW ts \in SUBSET Tools, tools' = [tools EXCEPT ![c] = ts]
          PROVE  tools' \in [Children -> SUBSET Tools]
      BY <2>1, <3>1, Zenon
    <3> QED BY <2>1, <2>2, <3>1, Zenon
  <2>5. status' \in [Children -> Statuses] /\ startPC' \in [Children -> StartPoints]
    BY <2>1, <2>2 DEF Statuses, StartPoints
  <2>6. monitorPC' \in [Children -> {"none", "read", "wait", "notify", "done"}]
    BY <2>1, <2>2
  <2> QED BY <2>3, <2>4, <2>5, <2>6 DEF TypeOK, Commit, osVars, stopVars, callVars
<1>2. ASSUME NEW d \in Children PROVE StartShape(d)'
  BY DEF TypeOK, Commit, osVars, stopVars, callVars, StartShape, StartActive
<1>3. ASSUME NEW d \in Children PROVE SessionShape(d)'
  <2>1. CASE status[c] = "starting"
    BY <2>1 DEF TypeOK, Commit, osVars, stopVars, callVars, SessionShape,
         StartShape, StartActive
  <2>2. CASE ~(status[c] = "starting")
    BY <2>2 DEF TypeOK, Commit, osVars, stopVars, callVars, SessionShape,
         StartShape, StartActive
  <2> QED BY <2>1, <2>2
<1>4. ASSUME NEW d \in Children PROVE ProcShape(d)'
  BY DEF TypeOK, Commit, osVars, stopVars, callVars, ProcShape
<1>5. ASSUME NEW d \in Children PROVE StopAwaitsStart(d)'
  BY DEF TypeOK, Commit, osVars, stopVars, callVars, StopAwaitsStart,
       StartActive, Stopping
<1>6. ASSUME NEW d \in Children PROVE Owned(d)'
  BY DEF TypeOK, Commit, osVars, stopVars, callVars, Owned, Holds, Stopping
<1>7. ASSUME NEW d \in Children
      PROVE  OneHolder(d)'
  BY DEF TypeOK, Commit, osVars, stopVars, callVars, OneHolder, Holds,
       Stopping
<1>8. ASSUME NEW d \in Children, NEW j \in Stoppers PROVE StopShape(j, d)'
  BY DEF TypeOK, Commit, osVars, stopVars, callVars, StopShape, Stopping
<1> QED BY <1>1, <1>2, <1>3, <1>4, <1>5, <1>6, <1>7, <1>8

\* The last critical section of Start (child.go:115-126) keeps IInv.
LEMMA FinishStep ==
  ASSUME IInv, NEW c \in Children, Finish(c)
  PROVE  IInv'
<1> USE ChildAssumption DEF IInv, OwnedProcess
<1>1. TypeOK'
  BY DEF TypeOK, Finish, osVars, stopVars, callVars, StartPoints, Statuses
<1>2. ASSUME NEW d \in Children PROVE StartShape(d)'
  BY DEF TypeOK, Finish, osVars, stopVars, callVars, StartShape, StartActive
<1>3. ASSUME NEW d \in Children PROVE SessionShape(d)'
  BY DEF TypeOK, Finish, osVars, stopVars, callVars, SessionShape
<1>4. ASSUME NEW d \in Children PROVE ProcShape(d)'
  BY DEF TypeOK, Finish, osVars, stopVars, callVars, ProcShape, StartShape,
       StartActive
<1>5. ASSUME NEW d \in Children PROVE StopAwaitsStart(d)'
  BY DEF TypeOK, Finish, osVars, stopVars, callVars, StopAwaitsStart,
       StartActive, Stopping
<1>6. ASSUME NEW d \in Children PROVE Owned(d)'
  BY DEF TypeOK, Finish, osVars, stopVars, callVars, Owned, Holds, Stopping
<1>7. ASSUME NEW d \in Children
      PROVE  OneHolder(d)'
  BY DEF TypeOK, Finish, osVars, stopVars, callVars, OneHolder, Holds,
       Stopping
<1>8. ASSUME NEW d \in Children, NEW j \in Stoppers PROVE StopShape(j, d)'
  BY DEF TypeOK, Finish, osVars, stopVars, callVars, StopShape, Stopping,
       StartShape, StartActive
<1> QED BY <1>1, <1>2, <1>3, <1>4, <1>5, <1>6, <1>7, <1>8

\* The monitor's copy of the session (child.go:223-228) keeps IInv.
LEMMA MonitorReadStep ==
  ASSUME IInv, NEW c \in Children, MonitorRead(c)
  PROVE  IInv'
<1> USE ChildAssumption DEF IInv, OwnedProcess
<1>1. TypeOK'
  BY DEF TypeOK, MonitorRead, fields, startVars, osVars, stopVars, callVars,
       StartPoints, Statuses
<1>2. ASSUME NEW d \in Children PROVE StartShape(d)'
  BY DEF TypeOK, MonitorRead, fields, startVars, osVars, stopVars, callVars,
       StartShape, StartActive
<1>3. ASSUME NEW d \in Children PROVE ProcShape(d)'
  BY DEF TypeOK, MonitorRead, fields, startVars, osVars, stopVars, callVars,
       ProcShape
<1>4. ASSUME NEW d \in Children
      PROVE  SessionShape(d)' /\ OneHolder(d)' /\ StopAwaitsStart(d)' /\ Owned(d)'
  BY DEF TypeOK, MonitorRead, fields, startVars, osVars, stopVars, callVars,
       SessionShape, OneHolder, Holds, Stopping, StopAwaitsStart,
       StartActive, Owned
<1>5. ASSUME NEW d \in Children, NEW j \in Stoppers PROVE StopShape(j, d)'
  BY DEF TypeOK, MonitorRead, fields, startVars, osVars, stopVars, callVars,
       StopShape, Stopping
<1> QED BY <1>1, <1>2, <1>3, <1>4, <1>5

\* The monitor's verdict (child.go:230-238) keeps IInv.
LEMMA MonitorWakeStep ==
  ASSUME IInv, NEW c \in Children, MonitorWake(c)
  PROVE  IInv'
<1> USE ChildAssumption DEF IInv, OwnedProcess
<1>1. TypeOK'
  <2>1. CASE status[c] = "running"
    BY <2>1 DEF TypeOK, MonitorWake, startVars, osVars, stopVars, callVars, Statuses
  <2>2. CASE status[c] # "running"
    BY <2>2 DEF TypeOK, MonitorWake, startVars, osVars, stopVars, callVars
  <2> QED BY <2>1, <2>2
<1>2. ASSUME NEW d \in Children PROVE StartShape(d)'
  BY DEF TypeOK, MonitorWake, startVars, osVars, stopVars, callVars,
       StartShape, StartActive
<1>3. ASSUME NEW d \in Children PROVE SessionShape(d)'
  BY DEF TypeOK, MonitorWake, startVars, osVars, stopVars, callVars,
       SessionShape
<1>4. ASSUME NEW d \in Children PROVE ProcShape(d)'
  BY DEF TypeOK, MonitorWake, startVars, osVars, stopVars, callVars,
       ProcShape
<1>5. ASSUME NEW d \in Children PROVE StopAwaitsStart(d)'
  BY DEF TypeOK, MonitorWake, startVars, osVars, stopVars, callVars,
       StopAwaitsStart, StartActive, Stopping
<1>6. ASSUME NEW d \in Children
      PROVE  OneHolder(d)' /\ Owned(d)'
  BY DEF TypeOK, MonitorWake, startVars, osVars, stopVars, callVars,
       OneHolder, Holds, Stopping, Owned
<1>7. ASSUME NEW d \in Children, NEW j \in Stoppers PROVE StopShape(j, d)'
  BY DEF TypeOK, MonitorWake, startVars, osVars, stopVars, callVars,
       StopShape, Stopping
<1> QED BY <1>1, <1>2, <1>3, <1>4, <1>5, <1>6, <1>7

\* The crash callback of one child (child.go:240-242) keeps IInv.
LEMMA NotifyStep ==
  ASSUME IInv, NEW c \in Children, Notify(c)
  PROVE  IInv'
<1> USE ChildAssumption DEF IInv, OwnedProcess
<1>1. TypeOK'
  BY DEF TypeOK, Notify, fields, startVars, osVars, stopVars, callVars,
       StartPoints, Statuses
<1>2. ASSUME NEW d \in Children PROVE StartShape(d)'
  BY DEF TypeOK, Notify, fields, startVars, osVars, stopVars, callVars,
       StartShape, StartActive
<1>3. ASSUME NEW d \in Children PROVE ProcShape(d)'
  BY DEF TypeOK, Notify, fields, startVars, osVars, stopVars, callVars,
       ProcShape
<1>4. ASSUME NEW d \in Children
      PROVE  SessionShape(d)' /\ OneHolder(d)' /\ StopAwaitsStart(d)' /\ Owned(d)'
  BY DEF TypeOK, Notify, fields, startVars, osVars, stopVars, callVars,
       SessionShape, OneHolder, Holds, Stopping, StopAwaitsStart,
       StartActive, Owned
<1>5. ASSUME NEW d \in Children, NEW j \in Stoppers PROVE StopShape(j, d)'
  BY DEF TypeOK, Notify, fields, startVars, osVars, stopVars, callVars,
       StopShape, Stopping
<1> QED BY <1>1, <1>2, <1>3, <1>4, <1>5

\* The death of the process keeps IInv.
LEMMA ProcExitStep ==
  ASSUME IInv, NEW c \in Children, ProcExit(c)
  PROVE  IInv'
<1> USE ChildAssumption DEF IInv, OwnedProcess
<1>1. TypeOK'
  BY DEF TypeOK, ProcExit, fields, startVars, stopVars, callVars,
       StartPoints, Statuses
<1>2. ASSUME NEW d \in Children PROVE StartShape(d)'
  BY DEF TypeOK, ProcExit, fields, startVars, stopVars, callVars, StartShape,
       StartActive
<1>3. ASSUME NEW d \in Children PROVE ProcShape(d)'
  BY DEF TypeOK, ProcExit, fields, startVars, stopVars, callVars, ProcShape
<1>4. ASSUME NEW d \in Children PROVE Owned(d)'
  BY DEF TypeOK, ProcExit, fields, startVars, stopVars, callVars, Owned,
       Holds, Stopping
<1>5. ASSUME NEW d \in Children
      PROVE  SessionShape(d)' /\ OneHolder(d)' /\ StopAwaitsStart(d)'
  BY DEF TypeOK, ProcExit, fields, startVars, stopVars, callVars,
       SessionShape, OneHolder, Holds, Stopping, StopAwaitsStart, StartActive
<1>6. ASSUME NEW d \in Children, NEW j \in Stoppers PROVE StopShape(j, d)'
  BY DEF TypeOK, ProcExit, fields, startVars, stopVars, callVars, StopShape,
       Stopping
<1> QED BY <1>1, <1>2, <1>3, <1>4, <1>5, <1>6

\* The loss of the connection to a dead process keeps IInv.
LEMMA ConnLostStep ==
  ASSUME IInv, NEW c \in Children, ConnLost(c)
  PROVE  IInv'
<1> USE ChildAssumption DEF IInv, OwnedProcess
<1>1. TypeOK'
  BY DEF TypeOK, ConnLost, fields, startVars, stopVars, callVars,
       StartPoints, Statuses
<1>2. ASSUME NEW d \in Children PROVE StartShape(d)'
  BY DEF TypeOK, ConnLost, fields, startVars, stopVars, callVars, StartShape,
       StartActive
<1>3. ASSUME NEW d \in Children PROVE SessionShape(d)'
  BY DEF TypeOK, ConnLost, fields, startVars, stopVars, callVars,
       SessionShape
<1>4. ASSUME NEW d \in Children PROVE ProcShape(d)'
  BY DEF TypeOK, ConnLost, fields, startVars, stopVars, callVars, ProcShape
<1>5. ASSUME NEW d \in Children
      PROVE  OneHolder(d)' /\ StopAwaitsStart(d)' /\ Owned(d)'
  BY DEF TypeOK, ConnLost, fields, startVars, stopVars, callVars, OneHolder,
       Holds, Stopping, StopAwaitsStart, StartActive, Owned
<1>6. ASSUME NEW d \in Children, NEW j \in Stoppers PROVE StopShape(j, d)'
  BY DEF TypeOK, ConnLost, fields, startVars, stopVars, callVars, StopShape,
       Stopping
<1> QED BY <1>1, <1>2, <1>3, <1>4, <1>5, <1>6

\* Cancelling the caller's context (child.go:108) keeps IInv.
LEMMA CallerCancelStep ==
  ASSUME IInv, NEW c \in Children, CallerCancel(c)
  PROVE  IInv'
<1> USE ChildAssumption DEF IInv, OwnedProcess
<1>1. TypeOK'
  BY DEF TypeOK, CallerCancel, fields, osVars, stopVars, callVars,
       StartPoints, Statuses
<1>2. ASSUME NEW d \in Children
      PROVE  StartShape(d)' /\ SessionShape(d)' /\ ProcShape(d)' /\ OneHolder(d)' /\ StopAwaitsStart(d)' /\ Owned(d)'
  BY DEF TypeOK, CallerCancel, fields, osVars, stopVars, callVars,
       StartShape, StartActive, SessionShape, ProcShape, OneHolder, Holds,
       Stopping, StopAwaitsStart, Owned
<1>3. ASSUME NEW d \in Children, NEW j \in Stoppers PROVE StopShape(j, d)'
  BY DEF TypeOK, CallerCancel, fields, osVars, stopVars, callVars, StopShape,
       Stopping
<1> QED BY <1>1, <1>2, <1>3

\* The first critical section of Stop (child.go:254-266) keeps IInv: the session
\* changes hands from the Child to this Stop.
LEMMA StopBeginStep ==
  ASSUME IInv, NEW k \in Stoppers, NEW c \in Children, StopBegin(k, c)
  PROVE  IInv'
<1> USE ChildAssumption DEF IInv, OwnedProcess
<1>1. TypeOK'
  BY DEF TypeOK, StopBegin, startVars, osVars, callVars, StartPoints,
       Statuses
<1>2. ASSUME NEW d \in Children PROVE StartShape(d)'
  BY DEF TypeOK, StopBegin, startVars, osVars, callVars, StartShape,
       StartActive
<1>3. ASSUME NEW d \in Children PROVE SessionShape(d)'
  BY DEF TypeOK, StopBegin, startVars, osVars, callVars, SessionShape
<1>4. ASSUME NEW d \in Children PROVE ProcShape(d)'
  BY DEF TypeOK, StopBegin, startVars, osVars, callVars, ProcShape
<1>5. ASSUME NEW d \in Children PROVE OneHolder(d)'
  BY DEF TypeOK, StopBegin, startVars, osVars, callVars, OneHolder, Holds,
       Stopping, StopShape
<1>6. ASSUME NEW d \in Children PROVE StopAwaitsStart(d)'
  BY DEF TypeOK, StopBegin, startVars, osVars, callVars, StopAwaitsStart,
       StartActive, Stopping
<1>7. ASSUME NEW d \in Children PROVE Owned(d)'
  BY DEF TypeOK, StopBegin, startVars, osVars, callVars, Owned, Holds,
       Stopping
<1>8. ASSUME NEW d \in Children, NEW j \in Stoppers PROVE StopShape(j, d)'
  <2>1. CASE j = k /\ d = c
    <3>1. ~session'[c] /\ status'[c] \in {"stopped", "crashed"} /\ stopPC'[k] = "cancel"
      BY DEF TypeOK, StopBegin
    <3>2. ~stopWait'[k] => startDone'[c] = "nil"
      BY DEF TypeOK, StopBegin
    <3>3. stopSession'[k] => conn'[c] # "none"
      BY DEF TypeOK, StopBegin, osVars, SessionShape
    <3> QED BY <2>1, <3>1, <3>2, <3>3 DEF StopShape
  <2>2. CASE j = k /\ d # c
    BY <2>2 DEF TypeOK, StopBegin, StopShape, Stopping
  <2>3. CASE j # k
    BY <2>3 DEF TypeOK, StopBegin, startVars, osVars, StopShape, Stopping
  <2> QED BY <2>1, <2>2, <2>3
<1> QED BY <1>1, <1>2, <1>3, <1>4, <1>5, <1>6, <1>7, <1>8

\* Cancelling a Start in progress (child.go:269-271) keeps IInv.
LEMMA StopCancelStep ==
  ASSUME IInv, NEW k \in Stoppers, StopCancel(k)
  PROVE  IInv'
<1> USE ChildAssumption DEF IInv, OwnedProcess
<1>1. TypeOK'
  BY DEF TypeOK, StopCancel, fields, osVars, callVars, StartPoints, Statuses
<1>2. ASSUME NEW d \in Children PROVE OneHolder(d)'
  BY DEF TypeOK, StopCancel, fields, osVars, callVars, OneHolder, Holds,
       Stopping
<1>3. ASSUME NEW d \in Children PROVE StopAwaitsStart(d)'
  BY DEF TypeOK, StopCancel, fields, osVars, callVars, StopAwaitsStart,
       StartActive, Stopping
<1>4. ASSUME NEW d \in Children PROVE Owned(d)'
  BY DEF TypeOK, StopCancel, fields, osVars, callVars, Owned, Holds, Stopping
<1>5. ASSUME NEW d \in Children
      PROVE  StartShape(d)' /\ SessionShape(d)' /\ ProcShape(d)'
  BY DEF TypeOK, StopCancel, fields, osVars, callVars, StartShape,
       StartActive, SessionShape, ProcShape
<1>6. ASSUME NEW d \in Children, NEW j \in Stoppers PROVE StopShape(j, d)'
  BY DEF TypeOK, StopCancel, fields, osVars, callVars, StopShape, Stopping
<1> QED BY <1>1, <1>2, <1>3, <1>4, <1>5, <1>6

\* The end of the wait for Start (child.go:272-274) keeps IInv: Start is over,
\* so nobody needs to wait for it any more.
LEMMA StopAwaitStep ==
  ASSUME IInv, NEW k \in Stoppers, StopAwait(k)
  PROVE  IInv'
<1> USE ChildAssumption DEF IInv, OwnedProcess
<1>1. TypeOK'
  BY DEF TypeOK, StopAwait, fields, startVars, osVars, callVars, StartPoints,
       Statuses
<1>2. ASSUME NEW d \in Children PROVE OneHolder(d)'
  BY DEF TypeOK, StopAwait, fields, startVars, osVars, callVars, OneHolder,
       Holds, Stopping
<1>3. ASSUME NEW d \in Children PROVE StopAwaitsStart(d)'
  BY DEF TypeOK, StopAwait, fields, startVars, osVars, callVars,
       StopAwaitsStart, StartActive, Stopping, StartShape, StopShape
<1>4. ASSUME NEW d \in Children PROVE Owned(d)'
  BY DEF TypeOK, StopAwait, fields, startVars, osVars, callVars, Owned,
       Holds, Stopping
<1>5. ASSUME NEW d \in Children
      PROVE  StartShape(d)' /\ SessionShape(d)' /\ ProcShape(d)'
  BY DEF TypeOK, StopAwait, fields, startVars, osVars, callVars, StartShape,
       StartActive, SessionShape, ProcShape
<1>6. ASSUME NEW d \in Children, NEW j \in Stoppers PROVE StopShape(j, d)'
  BY DEF TypeOK, StopAwait, fields, startVars, osVars, callVars, StopShape,
       Stopping
<1> QED BY <1>1, <1>2, <1>3, <1>4, <1>5, <1>6

\* The second look at the session (child.go:275-286) keeps IInv.
LEMMA StopRereadStep ==
  ASSUME IInv, NEW k \in Stoppers, StopReread(k)
  PROVE  IInv'
<1> USE ChildAssumption DEF IInv, OwnedProcess
<1>1. TypeOK'
  <2>1. stopTarget[k] \in Children
    BY DEF TypeOK, StopReread
  <2>2. session' \in [Children -> BOOLEAN]
    BY <2>1 DEF TypeOK, StopReread
  <2>3. CASE session[stopTarget[k]]
    <3>1. /\ stopPC' = [stopPC EXCEPT ![k] = "close"]
          /\ stopSession' = [stopSession EXCEPT ![k] = TRUE]
          /\ UNCHANGED <<stopTarget, stopCancelFn, stopWait>>
      BY <2>3 DEF StopReread
    <3> QED BY <2>1, <2>2, <3>1 DEF TypeOK, StopReread, startVars, osVars, callVars
  <2>4. CASE ~session[stopTarget[k]]
    <3>1. StopReturn(k)
      BY <2>4 DEF StopReread
    <3> QED BY <2>2, <3>1 DEF TypeOK, StopReturn, StopReread, startVars, osVars, callVars
  <2> QED BY <2>3, <2>4
<1>2. ASSUME NEW d \in Children PROVE SessionShape(d)'
  <2>1. CASE session[stopTarget[k]]
    BY <2>1 DEF TypeOK, StopReread, StopReturn, startVars, osVars, callVars,
         SessionShape, StartShape, StopShape, StartActive, Stopping
  <2>2. CASE ~(session[stopTarget[k]])
    BY <2>2 DEF TypeOK, StopReread, StopReturn, startVars, osVars, callVars,
         SessionShape, StartShape, StopShape, StartActive, Stopping
  <2> QED BY <2>1, <2>2
<1>3. ASSUME NEW d \in Children PROVE OneHolder(d)'
  <2>1. CASE session[stopTarget[k]]
    BY <2>1 DEF TypeOK, StopReread, StopReturn, startVars, osVars, callVars,
         OneHolder, Holds, Stopping, StopShape
  <2>2. CASE ~(session[stopTarget[k]])
    BY <2>2 DEF TypeOK, StopReread, StopReturn, startVars, osVars, callVars,
         OneHolder, Holds, Stopping, StopShape
  <2> QED BY <2>1, <2>2
<1>4. ASSUME NEW d \in Children PROVE StopAwaitsStart(d)'
  BY DEF TypeOK, StopReread, StopReturn, startVars, osVars, callVars,
       StopAwaitsStart, StartActive, Stopping
<1>5. ASSUME NEW d \in Children PROVE Owned(d)'
  <2>1. CASE session[stopTarget[k]]
    BY <2>1 DEF TypeOK, StopReread, StopReturn, startVars, osVars, callVars,
         Owned, Holds, Stopping, StartShape, SessionShape, StopShape,
         StartActive
  <2>2. CASE ~(session[stopTarget[k]])
    BY <2>2 DEF TypeOK, StopReread, StopReturn, startVars, osVars, callVars,
         Owned, Holds, Stopping, StartShape, SessionShape, StopShape,
         StartActive
  <2> QED BY <2>1, <2>2
<1>6. ASSUME NEW d \in Children
      PROVE  StartShape(d)' /\ ProcShape(d)'
  BY DEF TypeOK, StopReread, StopReturn, startVars, osVars, callVars,
       StartShape, StartActive, ProcShape
<1>7. ASSUME NEW d \in Children, NEW j \in Stoppers PROVE StopShape(j, d)'
  BY DEF TypeOK, StopReread, StopReturn, startVars, osVars, callVars,
       StopShape, Stopping
<1> QED BY <1>1, <1>2, <1>3, <1>4, <1>5, <1>6, <1>7

\* The return of session.Close in Stop (child.go:293-303) keeps IInv.
LEMMA CloseReturnsStep ==
  ASSUME IInv, NEW k \in Stoppers, CloseReturns(k)
  PROVE  IInv'
<1> USE ChildAssumption DEF IInv, OwnedProcess
<1>1. TypeOK'
  BY DEF TypeOK, CloseReturns, SessionClosed, StopReturn, fields, startVars,
       callVars, InFlight, StartPoints, Statuses
<1>2. ASSUME NEW d \in Children PROVE StartShape(d)'
  BY DEF TypeOK, CloseReturns, SessionClosed, StopReturn, fields, startVars,
       callVars, InFlight, StartShape, StartActive, SessionShape, ProcShape,
       StopShape, Stopping
<1>3. ASSUME NEW d \in Children PROVE SessionShape(d)'
  BY DEF TypeOK, CloseReturns, SessionClosed, StopReturn, fields, startVars,
       callVars, InFlight, SessionShape
<1>4. ASSUME NEW d \in Children PROVE ProcShape(d)'
  BY DEF TypeOK, CloseReturns, SessionClosed, StopReturn, fields, startVars,
       callVars, InFlight, ProcShape
<1>5. ASSUME NEW d \in Children PROVE OneHolder(d)'
  BY DEF TypeOK, CloseReturns, SessionClosed, StopReturn, fields, startVars,
       callVars, InFlight, OneHolder, Holds, Stopping
<1>6. ASSUME NEW d \in Children PROVE StopAwaitsStart(d)'
  BY DEF TypeOK, CloseReturns, SessionClosed, StopReturn, fields, startVars,
       callVars, InFlight, StopAwaitsStart, StartActive, Stopping
<1>7. ASSUME NEW d \in Children PROVE Owned(d)'
  BY DEF TypeOK, CloseReturns, SessionClosed, StopReturn, fields, startVars,
       callVars, InFlight, Owned, Holds, Stopping
<1>8. ASSUME NEW d \in Children, NEW j \in Stoppers PROVE StopShape(j, d)'
  BY DEF TypeOK, CloseReturns, SessionClosed, StopReturn, fields, startVars,
       callVars, InFlight, StopShape, Stopping
<1> QED BY <1>1, <1>2, <1>3, <1>4, <1>5, <1>6, <1>7, <1>8

\* Killing the process after the timeout (child.go:296-300) keeps IInv.
LEMMA CloseTimeoutStep ==
  ASSUME IInv, NEW k \in Stoppers, CloseTimeout(k)
  PROVE  IInv'
<1> USE ChildAssumption DEF IInv, OwnedProcess
<1>1. TypeOK'
  BY DEF TypeOK, CloseTimeout, fields, startVars, callVars, StartPoints,
       Statuses
<1>2. ASSUME NEW d \in Children PROVE StartShape(d)'
  BY DEF TypeOK, CloseTimeout, fields, startVars, callVars, StartShape,
       StartActive, SessionShape, ProcShape, StopShape, Stopping
<1>3. ASSUME NEW d \in Children PROVE ProcShape(d)'
  BY DEF TypeOK, CloseTimeout, fields, startVars, callVars, ProcShape
<1>4. ASSUME NEW d \in Children PROVE OneHolder(d)'
  BY DEF TypeOK, CloseTimeout, fields, startVars, callVars, OneHolder, Holds,
       Stopping
<1>5. ASSUME NEW d \in Children PROVE StopAwaitsStart(d)'
  BY DEF TypeOK, CloseTimeout, fields, startVars, callVars, StopAwaitsStart,
       StartActive, Stopping
<1>6. ASSUME NEW d \in Children PROVE Owned(d)'
  BY DEF TypeOK, CloseTimeout, fields, startVars, callVars, Owned, Holds,
       Stopping
<1>7. ASSUME NEW d \in Children
      PROVE  SessionShape(d)'
  BY DEF TypeOK, CloseTimeout, fields, startVars, callVars, SessionShape
<1>8. ASSUME NEW d \in Children, NEW j \in Stoppers PROVE StopShape(j, d)'
  BY DEF TypeOK, CloseTimeout, fields, startVars, callVars, StopShape,
       Stopping
<1> QED BY <1>1, <1>2, <1>3, <1>4, <1>5, <1>6, <1>7, <1>8

\* Copying the session for a tool call (child.go:329-333) keeps IInv.
LEMMA GetSessionStep ==
  ASSUME IInv, NEW u \in Callers, NEW c \in Children, GetSession(u, c)
  PROVE  IInv'
<1> USE ChildAssumption DEF IInv, OwnedProcess
<1>1. TypeOK'
  BY DEF TypeOK, GetSession, fields, startVars, osVars, stopVars,
       StartPoints, Statuses
<1>2. ASSUME NEW d \in Children
      PROVE  StartShape(d)' /\ SessionShape(d)' /\ ProcShape(d)' /\ OneHolder(d)' /\ StopAwaitsStart(d)' /\ Owned(d)'
  BY DEF TypeOK, GetSession, fields, startVars, osVars, stopVars, StartShape,
       StartActive, SessionShape, ProcShape, OneHolder, Holds, Stopping,
       StopAwaitsStart, Owned
<1>3. ASSUME NEW d \in Children, NEW j \in Stoppers PROVE StopShape(j, d)'
  BY DEF TypeOK, GetSession, fields, startVars, osVars, stopVars, StopShape,
       Stopping
<1> QED BY <1>1, <1>2, <1>3

\* Sending a tool call (proxy.go:281) keeps IInv.
LEMMA CallIssueStep ==
  ASSUME IInv, NEW u \in Callers, CallIssue(u)
  PROVE  IInv'
<1> USE ChildAssumption DEF IInv, OwnedProcess
<1>1. TypeOK'
  BY DEF TypeOK, CallIssue, Closing, fields, startVars, osVars, stopVars,
       Stopping, StartPoints, Statuses
<1>2. ASSUME NEW d \in Children
      PROVE  StartShape(d)' /\ SessionShape(d)' /\ ProcShape(d)' /\ OneHolder(d)' /\ StopAwaitsStart(d)' /\ Owned(d)'
  BY DEF TypeOK, CallIssue, Closing, fields, startVars, osVars, stopVars,
       Stopping, StartShape, StartActive, SessionShape, ProcShape, OneHolder,
       Holds, StopAwaitsStart, Owned
<1>3. ASSUME NEW d \in Children, NEW j \in Stoppers PROVE StopShape(j, d)'
  BY DEF TypeOK, CallIssue, Closing, fields, startVars, osVars, stopVars,
       Stopping, StopShape
<1> QED BY <1>1, <1>2, <1>3

\* A tool call on a closing session (proxy.go:281-287) keeps IInv.
LEMMA CallRefusedStep ==
  ASSUME IInv, NEW u \in Callers, CallRefused(u)
  PROVE  IInv'
<1> USE ChildAssumption DEF IInv, OwnedProcess
<1>1. TypeOK'
  BY DEF TypeOK, CallRefused, Closing, CallEnd, Stopping, fields, startVars,
       osVars, stopVars, StartPoints, Statuses
<1>2. ASSUME NEW d \in Children
      PROVE  StartShape(d)' /\ SessionShape(d)' /\ ProcShape(d)' /\ OneHolder(d)' /\ StopAwaitsStart(d)' /\ Owned(d)'
  BY DEF TypeOK, CallRefused, Closing, CallEnd, Stopping, fields, startVars,
       osVars, stopVars, StartShape, StartActive, SessionShape, ProcShape,
       OneHolder, Holds, StopAwaitsStart, Owned
<1>3. ASSUME NEW d \in Children, NEW j \in Stoppers PROVE StopShape(j, d)'
  BY DEF TypeOK, CallRefused, Closing, CallEnd, Stopping, fields, startVars,
       osVars, stopVars, StopShape
<1> QED BY <1>1, <1>2, <1>3

\* An answered tool call (proxy.go:281-288) keeps IInv.
LEMMA CallAnsweredStep ==
  ASSUME IInv, NEW u \in Callers, CallAnswered(u)
  PROVE  IInv'
<1> USE ChildAssumption DEF IInv, OwnedProcess
<1>1. TypeOK'
  BY DEF TypeOK, CallAnswered, CallEnd, fields, startVars, osVars, stopVars,
       StartPoints, Statuses
<1>2. ASSUME NEW d \in Children
      PROVE  StartShape(d)' /\ SessionShape(d)' /\ ProcShape(d)' /\ OneHolder(d)' /\ StopAwaitsStart(d)' /\ Owned(d)'
  BY DEF TypeOK, CallAnswered, CallEnd, fields, startVars, osVars, stopVars,
       StartShape, StartActive, SessionShape, ProcShape, OneHolder, Holds,
       Stopping, StopAwaitsStart, Owned
<1>3. ASSUME NEW d \in Children, NEW j \in Stoppers PROVE StopShape(j, d)'
  BY DEF TypeOK, CallAnswered, CallEnd, fields, startVars, osVars, stopVars,
       StopShape, Stopping
<1> QED BY <1>1, <1>2, <1>3

\* A tool call broken off by the death of the process (proxy.go:285-287)
\* keeps IInv.
LEMMA CallBrokenStep ==
  ASSUME IInv, NEW u \in Callers, CallBroken(u)
  PROVE  IInv'
<1> USE ChildAssumption DEF IInv, OwnedProcess
<1>1. TypeOK'
  BY DEF TypeOK, CallBroken, CallEnd, fields, startVars, osVars, stopVars,
       StartPoints, Statuses
<1>2. ASSUME NEW d \in Children
      PROVE  StartShape(d)' /\ SessionShape(d)' /\ ProcShape(d)' /\ OneHolder(d)' /\ StopAwaitsStart(d)' /\ Owned(d)'
  BY DEF TypeOK, CallBroken, CallEnd, fields, startVars, osVars, stopVars,
       StartShape, StartActive, SessionShape, ProcShape, OneHolder, Holds,
       Stopping, StopAwaitsStart, Owned
<1>3. ASSUME NEW d \in Children, NEW j \in Stoppers PROVE StopShape(j, d)'
  BY DEF TypeOK, CallBroken, CallEnd, fields, startVars, osVars, stopVars,
       StopShape, Stopping
<1> QED BY <1>1, <1>2, <1>3

\* Every step of a child server, and every stutter, preserves the invariant.
LEMMA NextIInv == ASSUME IInv, [ChildNext]_childVars PROVE IInv'
<1>1. ASSUME NEW c \in Children, BeginStart(c) \/ RejectStart(c) PROVE IInv'
  BY <1>1, BeginStartStep, RejectStartStep
<1>2. ASSUME NEW c \in Children, StartStep(c) PROVE IInv'
  BY <1>2, SpawnStep, SpawnFailStep, HandshakeOkStep, HandshakeFailStep,
     KillFailedStep, PublishStep, DiscoverOkStep, DiscoverFailStep,
     UnpublishStep, CloseInStartStep, CommitStep, FinishStep DEF StartStep
<1>3. ASSUME NEW c \in Children, MonitorStep(c) PROVE IInv'
  BY <1>3, MonitorReadStep, MonitorWakeStep, NotifyStep DEF MonitorStep
<1>4. ASSUME NEW c \in Children, EnvironmentStep(c) PROVE IInv'
  BY <1>4, ProcExitStep, ConnLostStep, CallerCancelStep DEF EnvironmentStep
<1>5. ASSUME NEW k \in Stoppers, NEW c \in Children, StopBegin(k, c) PROVE IInv'
  BY <1>5, StopBeginStep
<1>6. ASSUME NEW k \in Stoppers, StopStep(k) PROVE IInv'
  BY <1>6, StopCancelStep, StopAwaitStep, StopRereadStep, CloseReturnsStep,
     CloseTimeoutStep DEF StopStep
<1>7. ASSUME NEW u \in Callers, NEW c \in Children, GetSession(u, c) PROVE IInv'
  BY <1>7, GetSessionStep
<1>8. ASSUME NEW u \in Callers, CallStep(u) PROVE IInv'
  BY <1>8, CallIssueStep, CallRefusedStep, CallAnsweredStep, CallBrokenStep
     DEF CallStep
<1>9. CASE UNCHANGED childVars
  BY <1>9 DEF childVars, fields, startVars, osVars, stopVars, callVars, IInv,
     TypeOK, StartShape, StartActive, SessionShape, ProcShape, OneHolder,
     Holds, Stopping, StopAwaitsStart, StopShape, OwnedProcess, Owned
<1> QED BY <1>1, <1>2, <1>3, <1>4, <1>5, <1>6, <1>7, <1>8, <1>9 DEF ChildNext

\* IInv holds in every reachable state of a child server.
THEOREM ChildInvariant == ChildSpec => []IInv
<1>1. ChildInit => IInv  BY InitIInv
<1>2. IInv /\ [ChildNext]_childVars => IInv'  BY NextIInv
<1> QED BY <1>1, <1>2, PTL DEF ChildSpec

\* The variables keep their types for every value of the constants.
THEOREM ChildTypeOK == ChildSpec => []TypeOK
<1>1. IInv => TypeOK  BY DEF IInv
<1> QED BY <1>1, ChildInvariant, PTL

\* However Start and any number of Stops interleave, a live process is always
\* in the hands of Start, of the Child or of a Stop (child.go:161-185, 275-283).
THEOREM NoForgottenProcess == ChildSpec => []OwnedProcess
<1>1. IInv => OwnedProcess  BY DEF IInv
<1> QED BY <1>1, ChildInvariant, PTL

\* After its Stops have returned a stopped child has no live process
\* (child.go:249-252).
THEOREM StopEndsProcess == ChildSpec => []StoppedIsDead
<1>1. IInv => StoppedIsDead
  <2> SUFFICES ASSUME IInv, NEW c \in Children, status[c] = "stopped",
                      \A k \in Stoppers : ~Stopping(k, c)
               PROVE  proc[c] # "alive"
    BY DEF StoppedIsDead
  <2>1. ~StartActive(c)
    BY DEF IInv, StopAwaitsStart
  <2>2. ~session[c]
    BY DEF IInv, SessionShape
  <2> QED BY <2>1, <2>2 DEF IInv, OwnedProcess, Owned, Holds, StartActive
<1> QED BY <1>1, ChildInvariant, PTL

\* A Start that returned an error leaves no process, except to a Stop that
\* holds it (child.go:152-157, 163-167, 175-184, 187-191).
THEOREM FailedStartEndsProcess == ChildSpec => []FailedStartIsDead
<1>1. IInv => FailedStartIsDead
  <2> SUFFICES ASSUME IInv, NEW c \in Children, startPC[c] = "returned",
                      startErr[c], proc[c] = "alive"
               PROVE  \E k \in Stoppers : Holds(k, c)
    BY DEF FailedStartIsDead
  <2>1. ~session[c]
    BY DEF IInv, SessionShape
  <2> QED BY <2>1 DEF IInv, OwnedProcess, Owned
<1> QED BY <1>1, ChildInvariant, PTL

\* A child reported as crashed has no live process (child.go:120-122, 230-236),
\* and a running one can be called and stopped (child.go:163-195).
THEOREM StatusTellsTheTruth == ChildSpec => [](CrashedIsDead /\ RunningHasSession)
<1>1. IInv => CrashedIsDead /\ RunningHasSession
  BY DEF IInv, ProcShape, SessionShape, CrashedIsDead, RunningHasSession
<1> QED BY <1>1, ChildInvariant, PTL

\* The second look of Stop at the session is not needed: it finds nothing
\* (child.go:275-283).
THEOREM RereadIsDeadCode == ChildSpec => []RereadFindsNothing
<1>1. IInv => RereadFindsNothing
  <2> SUFFICES ASSUME IInv, NEW k \in Stoppers, stopPC[k] = "reread"
               PROVE  ~session[stopTarget[k]]
    BY DEF RereadFindsNothing
  <2>1. stopTarget[k] \in Children
    BY DEF IInv, TypeOK
  <2> QED BY <2>1 DEF IInv, StopShape, Stopping
<1> QED BY <1>1, ChildInvariant, PTL

\* session.Close of a child is never entered twice at a time
\* (child.go:166, 183, 291).
THEOREM CloseNeverOverlaps == ChildSpec => []CloseIsExclusive
<1>1. IInv => CloseIsExclusive
  <2> SUFFICES ASSUME IInv, NEW c \in Children
               PROVE  LET closers == {k \in Stoppers : Stopping(k, c)
                                        /\ stopPC[k] \in {"close", "killed"}}
                      IN  /\ \A k1, k2 \in closers : k1 = k2
                          /\ startPC[c] = "close" => closers = {}
    BY DEF CloseIsExclusive
  <2>1. \A k \in Stoppers : (Stopping(k, c) /\ stopPC[k] \in {"close", "killed"})
            => Holds(k, c) /\ startPC[c] # "close"
    BY DEF IInv, StopShape, StartShape, StartActive, Holds
  <2> QED BY <2>1 DEF IInv, OneHolder
<1> QED BY <1>1, ChildInvariant, PTL

\* The status only moves forward, and Stopped and Crashed are final
\* (child.go:39-48, mcpmux/README.md:95).
THEOREM StatusMovesForward == ChildSpec => StatusFlow
<1> DEFINE Forward == \A c \in Children :
        status'[c] # status[c] => <<status[c], status'[c]>> \in
            { <<"new", "starting">>, <<"new", "stopped">>,
              <<"starting", "running">>, <<"starting", "stopped">>,
              <<"starting", "crashed">>,
              <<"running", "stopped">>, <<"running", "crashed">> }
<1>1. ASSUME IInv, [ChildNext]_childVars PROVE [Forward]_childVars
  <2> SUFFICES ASSUME ChildNext PROVE Forward
    BY <1>1
  <2> USE <1>1 DEF IInv, TypeOK, Statuses
  <2>1. ASSUME NEW c \in Children,
               BeginStart(c) \/ RejectStart(c) \/ StartStep(c)
               \/ MonitorStep(c) \/ EnvironmentStep(c)
        PROVE  Forward
    <3>1. CASE status' = status
      BY <3>1
    <3>2. CASE BeginStart(c)
      BY <3>2 DEF BeginStart
    <3>3. CASE Commit(c) /\ status' # status
      BY <3>3 DEF Commit
    <3>4. CASE Finish(c)
      BY <3>4 DEF Finish
    <3>5. CASE MonitorWake(c) /\ status' # status
      BY <3>5 DEF MonitorWake
    <3> QED BY <2>1, <3>1, <3>2, <3>3, <3>4, <3>5
          DEF StartStep, MonitorStep, EnvironmentStep, RejectStart, Spawn,
              SpawnFail, HandshakeOk, HandshakeFail, KillFailed, Publish,
              DiscoverOk, DiscoverFail, Unpublish, CloseInStart, MonitorRead,
              Notify, ProcExit, ConnLost, CallerCancel, fields
  <2>2. ASSUME NEW k \in Stoppers, NEW c \in Children, StopBegin(k, c) PROVE Forward
    BY <2>2 DEF StopBegin
  <2>3. ASSUME NEW k \in Stoppers, StopStep(k) PROVE Forward
    BY <2>3 DEF StopStep, StopCancel, StopAwait, StopReread, CloseReturns,
       CloseTimeout, fields
  <2>4. ASSUME NEW u \in Callers, NEW c \in Children, GetSession(u, c) PROVE Forward
    BY <2>4 DEF GetSession, fields
  <2>5. ASSUME NEW u \in Callers, CallStep(u) PROVE Forward
    BY <2>5 DEF CallStep, CallIssue, CallRefused, CallAnswered, CallBroken,
       CallEnd, fields
  <2> QED BY <2>1, <2>2, <2>3, <2>4, <2>5 DEF ChildNext
<1> QED BY <1>1, ChildInvariant, PTL DEF ChildSpec, StatusFlow

(***************************************************************************)
(* The refinement: to ChildLifecycle a child is its status, its process    *)
(* and whether a Start or a Stop of it is under way.                       *)
(***************************************************************************)
Refines == \/ \E c \in Children : Lifecycle!LifecycleStep(c)
           \/ UNCHANGED Lifecycle!lifecycleVars

\* The same children are worked on.
LEMMA LiftSame ==
  ASSUME \A d \in Children : Working(d)' <=> Working(d)
  PROVE  [d \in Children |-> Working(d)]' = [d \in Children |-> Working(d)]
<1>1. ASSUME NEW d \in Children PROVE Working(d)' = Working(d)
  BY DEF Working
<1> QED BY <1>1

\* Nothing that ChildLifecycle looks at has changed.
LEMMA LiftStutter ==
  ASSUME UNCHANGED <<status, proc>>,
         \A d \in Children : Working(d)' <=> Working(d)
  PROVE  Refines
<1>1. [d \in Children |-> Working(d)]' = [d \in Children |-> Working(d)]
  BY LiftSame
<1> QED BY <1>1 DEF Refines, Lifecycle!lifecycleVars

\* A Start or a Stop of c begins, or the last one ends.
LEMMA LiftWorking ==
  ASSUME NEW c \in Children, NEW w \in BOOLEAN, Working(c)' <=> w,
         \A d \in Children \ {c} : Working(d)' <=> Working(d)
  PROVE  [d \in Children |-> Working(d)]'
            = [[d \in Children |-> Working(d)] EXCEPT ![c] = w]
<1>1. ASSUME NEW d \in Children \ {c} PROVE Working(d)' = Working(d)
  BY DEF Working
<1>2. Working(c)' = w
  BY DEF Working
<1> QED BY <1>1, <1>2

\* A step of ChildLifecycle that leaves the status and the work alone.
LEMMA LiftDie ==
  ASSUME TypeOK, NEW c \in Children, UNCHANGED status,
         proc[c] # "none", proc' = [proc EXCEPT ![c] = "dead"],
         \A d \in Children : Working(d)' <=> Working(d)
  PROVE  Refines
<1>1. [d \in Children |-> Working(d)]' = [d \in Children |-> Working(d)]
  BY LiftSame
<1>2. CASE proc[c] = "dead"
  <2>1. proc' = proc
    BY <1>2 DEF TypeOK
  <2> QED BY <2>1, LiftStutter
<1>3. CASE proc[c] = "alive"
  BY <1>1, <1>3 DEF Refines, Lifecycle!LifecycleStep, Lifecycle!Die, Lifecycle!SetLife
<1> QED BY <1>2, <1>3 DEF TypeOK

\* The last Start or Stop of c ends, and maybe its process with it.
LEMMA LiftSettle ==
  ASSUME TypeOK, NEW c \in Children, UNCHANGED status,
         Working(c), ~Working(c)',
         \A d \in Children \ {c} : Working(d)' <=> Working(d),
         \/ UNCHANGED proc /\ (status[c] = "running" \/ proc[c] # "alive")
         \/ proc[c] # "none" /\ proc' = [proc EXCEPT ![c] = "dead"]
  PROVE  Refines
<1>1. [d \in Children |-> Working(d)]'
         = [[d \in Children |-> Working(d)] EXCEPT ![c] = FALSE]
  BY LiftWorking
<1>2. [d \in Children |-> Working(d)][c]
  OBVIOUS
<1>3. \/ UNCHANGED proc /\ (status[c] = "running" \/ proc[c] # "alive")
      \/ proc[c] = "alive" /\ proc' = [proc EXCEPT ![c] = "dead"]
  <2>1. ASSUME proc[c] = "dead" PROVE [proc EXCEPT ![c] = "dead"] = proc
    BY <2>1 DEF TypeOK
  <2>2. proc[c] \in {"none", "alive", "dead"}
    BY DEF TypeOK
  <2> QED BY <2>1, <2>2
<1>4. Lifecycle!Settle(c)
  BY <1>1, <1>2, <1>3
     DEF Lifecycle!Settle, Lifecycle!SetWorking, Lifecycle!SetLife
<1> QED BY <1>4 DEF Refines, Lifecycle!LifecycleStep

\* A step of Start changes whether Start is under way when it begins or ends
\* it, and no step of it changes who is in Stop.
LEMMA WorkingSame ==
  ASSUME \A d \in Children : StartActive(d)' <=> StartActive(d),
         UNCHANGED <<stopPC, stopTarget>>
  PROVE  \A d \in Children : Working(d)' <=> Working(d)
BY DEF Working, Stopping

LEMMA BeginRefines ==
  ASSUME IInv, NEW c \in Children, BeginStart(c)
  PROVE  Refines
<1> USE DEF IInv, TypeOK, BeginStart, stopVars, osVars
<1>1. Working(c)' /\ \A d \in Children \ {c} : Working(d)' <=> Working(d)
  BY DEF Working, StartActive, Stopping
<1>2. [d \in Children |-> Working(d)]'
         = [[d \in Children |-> Working(d)] EXCEPT ![c] = TRUE]
  BY <1>1, LiftWorking
<1>3. Lifecycle!Begin(c)
  BY <1>2 DEF Lifecycle!Begin, Lifecycle!SetStatus, Lifecycle!SetWorking
<1> QED BY <1>3 DEF Refines, Lifecycle!LifecycleStep

LEMMA SpawnRefines ==
  ASSUME IInv, NEW c \in Children, Spawn(c)
  PROVE  Refines
<1> USE DEF IInv, TypeOK, Spawn, fields, stopVars
<1>1. \A d \in Children : Working(d)' <=> Working(d)
  BY WorkingSame DEF StartActive
<1>2. [d \in Children |-> Working(d)]' = [d \in Children |-> Working(d)]
  BY <1>1, LiftSame
<1>3. Working(c) /\ status[c] \in {"starting", "stopped"} /\ proc[c] = "none"
  BY DEF Working, StartActive, StartShape
<1>4. Lifecycle!Launch(c)
  BY <1>2, <1>3 DEF Lifecycle!Launch, Lifecycle!SetLife
<1> QED BY <1>4 DEF Refines, Lifecycle!LifecycleStep

LEMMA CommitRefines ==
  ASSUME IInv, NEW c \in Children, Commit(c)
  PROVE  Refines
<1> USE DEF IInv, TypeOK, Commit, osVars, stopVars
<1>1. \A d \in Children : Working(d)' <=> Working(d)
  BY WorkingSame DEF StartActive
<1>2. [d \in Children |-> Working(d)]' = [d \in Children |-> Working(d)]
  BY <1>1, LiftSame
<1>3. CASE status[c] = "starting"
  <2>1. Working(c) /\ proc[c] # "none"
    BY DEF Working, StartActive, StartShape, ProcShape
  <2>2. Lifecycle!Run(c)
    BY <1>2, <1>3, <2>1 DEF Lifecycle!Run, Lifecycle!SetStatus
  <2> QED BY <2>2 DEF Refines, Lifecycle!LifecycleStep
<1>4. CASE status[c] # "starting"
  BY <1>1, <1>4, LiftStutter
<1> QED BY <1>3, <1>4

\* Start returns: as a failure of its own, as the last one at work on the
\* child, or while a Stop goes on.
LEMMA FinishRefines ==
  ASSUME IInv, NEW c \in Children, Finish(c)
  PROVE  Refines
<1> USE DEF IInv, TypeOK, Finish, osVars, stopVars
<1>1. Working(c) /\ \A d \in Children \ {c} : Working(d)' <=> Working(d)
  BY DEF Working, StartActive, Stopping
<1>2. Working(c)' <=> \E k \in Stoppers : Stopping(k, c)
  BY DEF Working, StartActive, Stopping
<1>3. CASE startErr[c] /\ status[c] = "starting" /\ ~cancelled[c]
  <2>1. ~Working(c)' /\ proc[c] # "alive"
    BY <1>2, <1>3 DEF StopShape, StartShape
  <2>2. [d \in Children |-> Working(d)]'
           = [[d \in Children |-> Working(d)] EXCEPT ![c] = FALSE]
    BY <1>1, <2>1, LiftWorking
  <2>3. Lifecycle!Fail(c)
    BY <1>1, <1>3, <2>1, <2>2
       DEF Lifecycle!Fail, Lifecycle!SetStatus, Lifecycle!SetWorking
  <2> QED BY <2>3 DEF Refines, Lifecycle!LifecycleStep
<1>4. CASE ~(startErr[c] /\ status[c] = "starting" /\ ~cancelled[c])
  <2>1. UNCHANGED <<status, proc>>
    BY <1>4
  <2>2. CASE \E k \in Stoppers : Stopping(k, c)
    BY <1>1, <1>2, <2>1, <2>2, LiftStutter
  <2>3. CASE ~\E k \in Stoppers : Stopping(k, c)
    <3>1. status[c] = "running" \/ proc[c] # "alive"
      BY <2>3 DEF StartShape, StartActive, ProcShape, StopAwaitsStart
    <3> QED BY <1>1, <1>2, <2>1, <2>3, <3>1, LiftSettle
  <2> QED BY <2>2, <2>3
<1> QED BY <1>3, <1>4

LEMMA KillFailedRefines ==
  ASSUME IInv, NEW c \in Children, KillFailed(c)
  PROVE  Refines
<1> USE DEF IInv, TypeOK, KillFailed, fields, stopVars
<1>1. \A d \in Children : Working(d)' <=> Working(d)
  BY WorkingSame DEF StartActive
<1>2. proc[c] # "none"
  BY DEF StartShape
<1> QED BY <1>1, <1>2, LiftDie

LEMMA CloseInStartRefines ==
  ASSUME IInv, NEW c \in Children, CloseInStart(c)
  PROVE  Refines
<1> USE DEF IInv, TypeOK, CloseInStart, SessionClosed, fields, stopVars
<1>1. \A d \in Children : Working(d)' <=> Working(d)
  BY WorkingSame DEF StartActive
<1>2. proc[c] # "none"
  BY DEF StartShape, ProcShape
<1> QED BY <1>1, <1>2, LiftDie

LEMMA ProcExitRefines ==
  ASSUME IInv, NEW c \in Children, ProcExit(c)
  PROVE  Refines
<1> USE DEF IInv, ProcExit, fields, startVars, stopVars
<1>1. \A d \in Children : Working(d)' <=> Working(d)
  BY WorkingSame DEF StartActive
<1> QED BY <1>1, LiftDie

LEMMA MonitorWakeRefines ==
  ASSUME IInv, NEW c \in Children, MonitorWake(c)
  PROVE  Refines
<1> USE DEF IInv, TypeOK, MonitorWake, startVars, osVars, stopVars
<1>1. \A d \in Children : Working(d)' <=> Working(d)
  BY WorkingSame DEF StartActive
<1>2. [d \in Children |-> Working(d)]' = [d \in Children |-> Working(d)]
  BY <1>1, LiftSame
<1>3. CASE status[c] = "running"
  <2>1. Lifecycle!Crash(c)
    BY <1>2, <1>3 DEF Lifecycle!Crash, Lifecycle!SetStatus, ProcShape
  <2> QED BY <2>1 DEF Refines, Lifecycle!LifecycleStep
<1>4. CASE status[c] # "running"
  BY <1>1, <1>4, LiftStutter
<1> QED BY <1>3, <1>4

\* Any step of Start, the monitor or the environment that is not one of these
\* changes neither the status nor the process nor who is at work.
LEMMA QuietRefines ==
  ASSUME NEW c \in Children,
         \/ RejectStart(c) \/ SpawnFail(c) \/ HandshakeOk(c) \/ HandshakeFail(c)
         \/ Publish(c) \/ DiscoverOk(c) \/ DiscoverFail(c) \/ Unpublish(c)
         \/ MonitorRead(c) \/ Notify(c) \/ ConnLost(c) \/ CallerCancel(c),
         TypeOK
  PROVE  Refines
<1> USE DEF RejectStart, SpawnFail, HandshakeOk, HandshakeFail, Publish,
            DiscoverOk, DiscoverFail, Unpublish, MonitorRead, Notify, ConnLost,
            CallerCancel
<1>1. UNCHANGED <<status, proc, stopPC, stopTarget>>
  BY DEF fields, osVars, stopVars
<1>2. ASSUME NEW d \in Children PROVE StartActive(d)' <=> StartActive(d)
  BY DEF TypeOK, StartActive, startVars
<1>3. \A d \in Children : Working(d)' <=> Working(d)
  BY <1>1, <1>2, WorkingSame
<1> QED BY <1>1, <1>3, LiftStutter

LEMMA StopBeginRefines ==
  ASSUME IInv, NEW k \in Stoppers, NEW c \in Children, StopBegin(k, c)
  PROVE  Refines
<1> USE DEF IInv, TypeOK, StopBegin, startVars, osVars
<1>1. Working(c)'
  BY DEF Working, Stopping
<1>2. ASSUME NEW d \in Children \ {c} PROVE Working(d)' <=> Working(d)
  <2>1. StartActive(d)' <=> StartActive(d)
    BY DEF StartActive
  <2>2. \A j \in Stoppers : Stopping(j, d)' <=> Stopping(j, d)
    BY DEF Stopping
  <2> QED BY <2>1, <2>2 DEF Working
<1>3. [d \in Children |-> Working(d)]'
         = [[d \in Children |-> Working(d)] EXCEPT ![c] = TRUE]
  BY <1>1, <1>2, LiftWorking
<1>4. Lifecycle!Stop(c)
  BY <1>3 DEF Lifecycle!Stop, Lifecycle!SetStatus, Lifecycle!SetWorking
<1> QED BY <1>4 DEF Refines, Lifecycle!LifecycleStep

\* What a Stop does before it returns.
LEMMA StopGoesOn ==
  ASSUME TypeOK, NEW k \in Stoppers, stopPC[k] # "idle",
         NEW pc, pc # "idle", stopPC' = [stopPC EXCEPT ![k] = pc],
         UNCHANGED <<stopTarget, startPC>>
  PROVE  \A d \in Children : Working(d)' <=> Working(d)
<1>1. \A d \in Children, j \in Stoppers : Stopping(j, d)' <=> Stopping(j, d)
  BY DEF TypeOK, Stopping
<1> QED BY <1>1 DEF Working, StartActive

LEMMA StopGoesOnRefines ==
  ASSUME TypeOK, NEW k \in Stoppers, StopCancel(k) \/ StopAwait(k)
  PROVE  Refines
<1> USE DEF StopCancel, StopAwait, fields, startVars, osVars
<1>1. \A d \in Children : Working(d)' <=> Working(d)
  <2>1. CASE StopCancel(k)
    BY <2>1, StopGoesOn
  <2>2. CASE StopAwait(k)
    <3>1. PICK pc \in {"close", "reread"} : stopPC' = [stopPC EXCEPT ![k] = pc]
      BY <2>2
    <3> QED BY <2>2, <3>1, StopGoesOn
  <2> QED BY <2>1, <2>2
<1> QED BY <1>1, LiftStutter

LEMMA CloseTimeoutRefines ==
  ASSUME IInv, NEW k \in Stoppers, CloseTimeout(k)
  PROVE  Refines
<1> USE DEF IInv, CloseTimeout, fields, startVars
<1>1. \A d \in Children : Working(d)' <=> Working(d)
  BY StopGoesOn
<1>2. stopTarget[k] \in Children /\ proc[stopTarget[k]] # "none"
  BY DEF TypeOK, StopShape, Stopping, ProcShape
<1> QED BY <1>1, <1>2, LiftDie

\* A Stop that returns leaves the other Stops and Start where they are.
LEMMA StopReturnWorking ==
  ASSUME TypeOK, NEW k \in Stoppers, NEW c \in Children, Stopping(k, c),
         StopReturn(k), UNCHANGED startPC
  PROVE  /\ Working(c)
         /\ Working(c)' <=> \/ StartActive(c)
                            \/ \E j \in Stoppers \ {k} : Stopping(j, c)
         /\ \A d \in Children \ {c} : Working(d)' <=> Working(d)
<1>1. \A d \in Children : StartActive(d)' <=> StartActive(d)
  BY DEF StartActive
<1>2. \A j \in Stoppers \ {k}, d \in Children : Stopping(j, d)' <=> Stopping(j, d)
  BY DEF TypeOK, StopReturn, Stopping
<1>3. \A d \in Children : ~Stopping(k, d)'
  BY DEF TypeOK, StopReturn, Stopping
<1>4. \A d \in Children \ {c} : ~Stopping(k, d)
  BY DEF Stopping
<1> QED BY <1>1, <1>2, <1>3, <1>4 DEF Working

\* The second look at the session finds nothing, and the Stop returns: if it
\* is the last one at work, the process is in nobody's hands, so it is gone.
LEMMA StopRereadRefines ==
  ASSUME IInv, NEW k \in Stoppers, StopReread(k)
  PROVE  Refines
<1> USE DEF IInv, StopReread
<1>1. PICK c \in Children : c = stopTarget[k] /\ Stopping(k, c)
  BY DEF TypeOK, Stopping
<1>2. /\ ~session[c] /\ ~stopSession[k] /\ startDone[c] # "open"
      /\ status[c] \in {"stopped", "crashed"}
  BY <1>1 DEF StopShape
<1>3. StopReturn(k) /\ UNCHANGED <<status, proc, startPC>>
  BY <1>1, <1>2 DEF startVars, osVars
<1>4. ~StartActive(c)
  BY <1>1, <1>2 DEF StartShape
<1>5. /\ Working(c)
      /\ Working(c)' <=> \E j \in Stoppers \ {k} : Stopping(j, c)
      /\ \A d \in Children \ {c} : Working(d)' <=> Working(d)
  BY <1>1, <1>3, <1>4, StopReturnWorking
<1>6. CASE \E j \in Stoppers \ {k} : Stopping(j, c)
  BY <1>3, <1>5, <1>6, LiftStutter
<1>7. CASE ~\E j \in Stoppers \ {k} : Stopping(j, c)
  <2>1. proc[c] # "alive"
    BY <1>1, <1>2, <1>4, <1>7 DEF OwnedProcess, Owned, Holds, StartActive
  <2> QED BY <1>1, <1>3, <1>5, <1>7, <2>1, LiftSettle
<1> QED BY <1>6, <1>7

LEMMA CloseReturnsRefines ==
  ASSUME IInv, NEW k \in Stoppers, CloseReturns(k)
  PROVE  Refines
<1> USE DEF IInv, CloseReturns
<1>1. PICK c \in Children : c = stopTarget[k] /\ Stopping(k, c)
  BY DEF TypeOK, Stopping
<1>2. StopReturn(k) /\ UNCHANGED <<status, startPC>>
  BY DEF fields, startVars
<1>3. proc[c] # "none" /\ proc' = [proc EXCEPT ![c] = "dead"]
  BY <1>1 DEF StopShape, ProcShape, SessionClosed
<1>4. /\ Working(c)
      /\ \A d \in Children \ {c} : Working(d)' <=> Working(d)
  BY <1>1, <1>2, StopReturnWorking
<1>5. CASE Working(c)'
  BY <1>1, <1>2, <1>3, <1>4, <1>5, LiftDie
<1>6. CASE ~Working(c)'
  BY <1>1, <1>2, <1>3, <1>4, <1>6, LiftSettle
<1> QED BY <1>5, <1>6

\* No tool call is seen in the life of a child.
LEMMA CallRefines ==
  ASSUME NEW u \in Callers,
         CallStep(u) \/ \E c \in Children : GetSession(u, c)
  PROVE  Refines
<1>1. UNCHANGED <<fields, startVars, osVars, stopVars>>
  BY DEF CallStep, CallIssue, CallRefused, CallAnswered, CallBroken, CallEnd,
         GetSession
<1>2. \A d \in Children : Working(d)' <=> Working(d)
  BY <1>1, WorkingSame DEF startVars, stopVars, StartActive
<1> QED BY <1>1, <1>2, LiftStutter DEF fields, osVars

LEMMA StepRefines ==
  ASSUME IInv, [ChildNext]_childVars
  PROVE  Refines
<1>1. TypeOK
  BY DEF IInv
<1>2. ASSUME NEW c \in Children,
             BeginStart(c) \/ RejectStart(c) \/ StartStep(c)
             \/ MonitorStep(c) \/ EnvironmentStep(c)
      PROVE  Refines
  BY <1>1, <1>2, BeginRefines, SpawnRefines, CommitRefines, FinishRefines,
     KillFailedRefines, CloseInStartRefines, ProcExitRefines,
     MonitorWakeRefines, QuietRefines
     DEF StartStep, MonitorStep, EnvironmentStep
<1>3. ASSUME NEW k \in Stoppers,
             StopStep(k) \/ \E c \in Children : StopBegin(k, c)
      PROVE  Refines
  BY <1>1, <1>3, StopBeginRefines, StopGoesOnRefines, CloseTimeoutRefines,
     StopRereadRefines, CloseReturnsRefines DEF StopStep
<1>4. ASSUME UNCHANGED childVars PROVE Refines
  <2>1. UNCHANGED <<fields, startVars, osVars, stopVars>>
    BY <1>4 DEF childVars
  <2>2. \A d \in Children : Working(d)' <=> Working(d)
    BY <2>1, WorkingSame DEF startVars, stopVars, StartActive
  <2> QED BY <2>1, <2>2, LiftStutter DEF fields, osVars
<1> QED BY <1>2, <1>3, <1>4, CallRefines DEF ChildNext

\* A child has the life it is documented to have, for any numbers of children,
\* stoppers and callers (child.go:39-48, 249-252, mcpmux/README.md:95).
THEOREM ChildImplementsLifecycle == ChildSpec => ImplementsLifecycle
<1>1. ChildInit => Lifecycle!LifecycleInit
  <2> SUFFICES ASSUME ChildInit PROVE Lifecycle!LifecycleInit
    OBVIOUS
  <2>1. ASSUME NEW c \in Children PROVE Working(c) = FALSE
    BY DEF ChildInit, Working, StartActive, Stopping
  <2> QED BY <2>1 DEF ChildInit, Lifecycle!LifecycleInit
<1>2. IInv /\ [ChildNext]_childVars =>
          [\E c \in Children : Lifecycle!LifecycleStep(c)]_(Lifecycle!lifecycleVars)
  BY StepRefines DEF Refines
<1> QED BY <1>1, <1>2, ChildInvariant, PTL
        DEF ChildSpec, ImplementsLifecycle, Lifecycle!LifecycleSpec
=============================================================================
