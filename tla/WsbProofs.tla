----------------------------- MODULE WsbProofs ------------------------------
(***************************************************************************)
(* Theorems about Wsb, for any number of launchers, calls and clients: at  *)
(* any time one sandbox runs for the workspace, its socket is its own, and *)
(* what a client or a launcher concludes at the end is true.               *)
(***************************************************************************)
EXTENDS Wsb, ExecdProofs

USE DEF runVars, daemonVars, clientVars, launchVars, vars

\* A step is one of a launcher, one of a daemon, or none that they see.
LEMMA NextCases ==
    ASSUME [Next]_vars
    PROVE  \/ UNCHANGED <<daemon, socket, launchVars>>
           \/ \E d \in Daemons :
                 /\ UNCHANGED launchVars
                 /\ \/ Listen(d) \/ Serve(d) \/ TerminateEarly(d) \/ Terminate(d)
                    \/ DrainEnds(d) \/ Kill(d)
           \/ \E m \in Launchers :
                 \/ ReadPid(m) \/ ProbeStale(m) \/ ProbeAlive(m) \/ RemovePid(m)
                 \/ RemoveSocket(m) \/ Create(m) \/ Claim(m) \/ Spawn(m)
                 \/ SpawnFails(m) \/ Truncate(m) \/ Record(m) \/ RecordFails(m)
                 \/ Poll(m) \/ PollExpires(m) \/ PollAgain(m) \/ ChildEnds(m)
                 \/ UnlinkSocket(m) \/ UnlinkPid(m) \/ KillLauncher(m)
<1>1. CASE UNCHANGED vars
  BY <1>1
<1>2. CASE ExecdStep /\ UNCHANGED launchVars
  <2>1. ASSUME NEW c \in Calls,
               HandlerStep(c) \/ CommandStep(c) \/ ClientStep(c) \/ Interrupt(c)
        PROVE  UNCHANGED <<daemon, socket>>
    BY <2>1 DEF HandlerStep, CommandStep, ClientStep, Connect, GiveUp, Receive,
                ReceiveExit, ReceiveError, Interrupt
  <2>2. QED
    BY <1>2, <2>1 DEF ExecdStep, DaemonStep
<1>3. CASE \E l \in Launchers :
               ReadPid(l) \/ LaunchStep(l) \/ PollExpires(l) \/ KillLauncher(l)
  BY <1>3 DEF LaunchStep
<1>4. QED
  BY <1>1, <1>2, <1>3 DEF Next

\* A step of a launcher that starts or kills no sandbox is nothing to a call.
LEMMA QuietCalls ==
    ASSUME CallsOK, UNCHANGED <<runVars, daemon, clientVars>>,
           socket' \in Daemons \cup {No}
    PROVE  CallsOK'
BY DEF CallsOK, ExecdTypeOK, ProgressOK, ClientOK

\* The calls.
LEMMA CallsStep ==
    ASSUME TypeOK, CallsOK, \A l \in Launchers : SandboxOK(l), [Next]_vars
    PROVE  CallsOK'
<1> USE DEF Launchers
<1>1. CASE UNCHANGED vars
  BY <1>1, QuietCalls DEF CallsOK, ExecdTypeOK
<1>2. CASE ExecdStep
  BY <1>2, ExecdKeeps
<1>3. ASSUME NEW m \in Launchers, ReadPid(m) PROVE CallsOK'
  BY <1>3, QuietCalls DEF ReadPid, CallsOK, ExecdTypeOK
<1>4. ASSUME NEW m \in Launchers, ProbeStale(m) PROVE CallsOK'
  BY <1>4, QuietCalls DEF ProbeStale, CallsOK, ExecdTypeOK
<1>5. ASSUME NEW m \in Launchers, ProbeAlive(m) PROVE CallsOK'
  BY <1>5, QuietCalls DEF ProbeAlive, CallsOK, ExecdTypeOK
<1>6. ASSUME NEW m \in Launchers, RemovePid(m) PROVE CallsOK'
  BY <1>6, QuietCalls DEF RemovePid, CallsOK, ExecdTypeOK
<1>7. ASSUME NEW m \in Launchers, RemoveSocket(m) PROVE CallsOK'
  BY <1>7, QuietCalls DEF RemoveSocket, RemoveStaleSocket, CallsOK, ExecdTypeOK
<1>8. ASSUME NEW m \in Launchers, Create(m) PROVE CallsOK'
  BY <1>8, QuietCalls DEF Create, CallsOK, ExecdTypeOK
<1>9. ASSUME NEW m \in Launchers, Claim(m) PROVE CallsOK'
  BY <1>9, QuietCalls DEF Claim, CallsOK, ExecdTypeOK
<1>10. ASSUME NEW m \in Launchers, Spawn(m) PROVE CallsOK'
  BY <1>10, BootKeeps DEF Spawn, SandboxOK
<1>11. ASSUME NEW m \in Launchers, SpawnFails(m) PROVE CallsOK'
  BY <1>11, QuietCalls DEF SpawnFails, CallsOK, ExecdTypeOK
<1>12. ASSUME NEW m \in Launchers, Truncate(m) PROVE CallsOK'
  BY <1>12, QuietCalls DEF Truncate, CallsOK, ExecdTypeOK
<1>13. ASSUME NEW m \in Launchers, Record(m) PROVE CallsOK'
  BY <1>13, QuietCalls DEF Record, CallsOK, ExecdTypeOK
<1>14. ASSUME NEW m \in Launchers, RecordFails(m) PROVE CallsOK'
  <2>1. CASE Kill(m)
    BY <2>1, KillKeeps
  <2>2. CASE UNCHANGED <<runVars, daemonVars, clientVars>>
    BY <2>2, QuietCalls DEF CallsOK, ExecdTypeOK
  <2>3. QED
    BY <1>14, <2>1, <2>2 DEF RecordFails, KillChild
<1>15. ASSUME NEW m \in Launchers, Poll(m) PROVE CallsOK'
  BY <1>15, QuietCalls DEF Poll, CallsOK, ExecdTypeOK
<1>16. ASSUME NEW m \in Launchers, PollExpires(m) PROVE CallsOK'
  <2>1. CASE Kill(m)
    BY <2>1, KillKeeps
  <2>2. CASE UNCHANGED <<runVars, daemonVars, clientVars>>
    BY <2>2, QuietCalls DEF CallsOK, ExecdTypeOK
  <2>3. QED
    BY <1>16, <2>1, <2>2 DEF PollExpires, StopChild, KillChild
<1>17. ASSUME NEW m \in Launchers, PollAgain(m) PROVE CallsOK'
  BY <1>17, QuietCalls DEF PollAgain, CallsOK, ExecdTypeOK
<1>18. ASSUME NEW m \in Launchers, ChildEnds(m) PROVE CallsOK'
  BY <1>18, QuietCalls DEF ChildEnds, CallsOK, ExecdTypeOK
<1>19. ASSUME NEW m \in Launchers, UnlinkSocket(m) PROVE CallsOK'
  BY <1>19, QuietCalls DEF UnlinkSocket, CallsOK, ExecdTypeOK
<1>20. ASSUME NEW m \in Launchers, UnlinkPid(m) PROVE CallsOK'
  BY <1>20, QuietCalls DEF UnlinkPid, CallsOK, ExecdTypeOK
<1>21. ASSUME NEW m \in Launchers, KillLauncher(m) PROVE CallsOK'
  BY <1>21, QuietCalls DEF KillLauncher, CallsOK, ExecdTypeOK
<1>22. QED
  BY <1>1, <1>2, <1>3, <1>4, <1>5, <1>6, <1>7, <1>8, <1>9, <1>10, <1>11, <1>12,
     <1>13, <1>14, <1>15, <1>16, <1>17, <1>18, <1>19, <1>20, <1>21 DEF Next,
     LaunchStep

\* Types: of the launchers and the files.
LEMMA TypeStep ==
    ASSUME TypeOK, CallsOK, CallsOK', [Next]_vars
    PROVE  TypeOK'
<1> USE DEF Launchers
<1>1. CASE UNCHANGED <<daemon, socket, launchVars>>
  BY <1>1 DEF TypeOK, CallsOK, Files, NoFile, Launching, Cleaning
<1>2. ASSUME NEW d \in Daemons, Listen(d), UNCHANGED launchVars PROVE TypeOK'
  BY <1>2 DEF Listen, TypeOK, CallsOK, Files, NoFile, Launching, Cleaning
<1>3. ASSUME NEW d \in Daemons, Serve(d), UNCHANGED launchVars PROVE TypeOK'
  BY <1>3 DEF Serve, TypeOK, CallsOK, Files, NoFile, Launching, Cleaning
<1>4. ASSUME NEW d \in Daemons, TerminateEarly(d), UNCHANGED launchVars PROVE TypeOK'
  BY <1>4 DEF TerminateEarly, TypeOK, CallsOK, Files, NoFile, Launching,
     Cleaning
<1>5. ASSUME NEW d \in Daemons, Terminate(d), UNCHANGED launchVars PROVE TypeOK'
  BY <1>5 DEF Terminate, TypeOK, CallsOK, Files, NoFile, Launching, Cleaning
<1>6. ASSUME NEW d \in Daemons, DrainEnds(d), UNCHANGED launchVars PROVE TypeOK'
  BY <1>6 DEF DrainEnds, TypeOK, CallsOK, Files, NoFile, Launching, Cleaning
<1>7. ASSUME NEW d \in Daemons, Kill(d), UNCHANGED launchVars PROVE TypeOK'
  BY <1>7 DEF Kill, TypeOK, CallsOK, Files, NoFile, Launching, Cleaning
<1>8. ASSUME NEW m \in Launchers, ReadPid(m) PROVE TypeOK'
  BY <1>8 DEF ReadPid, Enter, Goto, TypeOK, CallsOK, Files, NoFile, Launching,
     Cleaning
<1>9. ASSUME NEW m \in Launchers, ProbeStale(m) PROVE TypeOK'
  BY <1>9 DEF ProbeStale, Stale, Goto, TypeOK, CallsOK, Files, NoFile,
     Launching, Cleaning
<1>10. ASSUME NEW m \in Launchers, ProbeAlive(m) PROVE TypeOK'
  BY <1>10 DEF ProbeAlive, Goto, TypeOK, CallsOK, Files, NoFile, Launching,
     Cleaning
<1>11. ASSUME NEW m \in Launchers, RemovePid(m) PROVE TypeOK'
  BY <1>11 DEF RemovePid, Goto, TypeOK, CallsOK, Files, NoFile, Launching,
     Cleaning
<1>12. ASSUME NEW m \in Launchers, RemoveSocket(m) PROVE TypeOK'
  BY <1>12 DEF RemoveSocket, RemoveStaleSocket, Goto, TypeOK, CallsOK, Files,
     NoFile, Launching, Cleaning
<1>13. ASSUME NEW m \in Launchers, Create(m) PROVE TypeOK'
  BY <1>13 DEF Create, Goto, TypeOK, CallsOK, Files, NoFile, Launching,
     Cleaning
<1>14. ASSUME NEW m \in Launchers, Claim(m) PROVE TypeOK'
  BY <1>14 DEF Claim, WritePid, Goto, TypeOK, CallsOK, Files, NoFile,
     Launching, Cleaning
<1>15. ASSUME NEW m \in Launchers, Spawn(m) PROVE TypeOK'
  BY <1>15 DEF Spawn, Goto, TypeOK, CallsOK, Files, NoFile, Launching, Cleaning
<1>16. ASSUME NEW m \in Launchers, SpawnFails(m) PROVE TypeOK'
  BY <1>16 DEF SpawnFails, Goto, TypeOK, CallsOK, Files, NoFile, Launching,
     Cleaning
<1>17. ASSUME NEW m \in Launchers, Truncate(m) PROVE TypeOK'
  BY <1>17 DEF Truncate, Goto, TypeOK, CallsOK, Files, NoFile, Launching,
     Cleaning
<1>18. ASSUME NEW m \in Launchers, Record(m) PROVE TypeOK'
  BY <1>18 DEF Record, WritePid, Goto, TypeOK, CallsOK, Files, NoFile,
     Launching, Cleaning
<1>19. ASSUME NEW m \in Launchers, RecordFails(m) PROVE TypeOK'
  BY <1>19 DEF RecordFails, KillChild, Kill, Goto, TypeOK, CallsOK, Files,
     NoFile, Launching, Cleaning
<1>20. ASSUME NEW m \in Launchers, Poll(m) PROVE TypeOK'
  BY <1>20 DEF Poll, Goto, TypeOK, CallsOK, Files, NoFile, Launching, Cleaning
<1>21. ASSUME NEW m \in Launchers, PollExpires(m) PROVE TypeOK'
  BY <1>21 DEF PollExpires, Enter, StopChild, KillChild, Kill, Goto, TypeOK,
     CallsOK, Files, NoFile, Launching, Cleaning
<1>22. ASSUME NEW m \in Launchers, PollAgain(m) PROVE TypeOK'
  BY <1>22 DEF PollAgain, Goto, TypeOK, CallsOK, Files, NoFile, Launching,
     Cleaning
<1>23. ASSUME NEW m \in Launchers, ChildEnds(m) PROVE TypeOK'
  BY <1>23 DEF ChildEnds, Enter, Goto, TypeOK, CallsOK, Files, NoFile,
     Launching, Cleaning
<1>24. ASSUME NEW m \in Launchers, UnlinkSocket(m) PROVE TypeOK'
  BY <1>24 DEF UnlinkSocket, Goto, TypeOK, CallsOK, Files, NoFile, Launching,
     Cleaning
<1>25. ASSUME NEW m \in Launchers, UnlinkPid(m) PROVE TypeOK'
  BY <1>25 DEF UnlinkPid, RemoveOwnPid, Goto, TypeOK, CallsOK, Files, NoFile,
     Launching, Cleaning
<1>26. ASSUME NEW m \in Launchers, KillLauncher(m) PROVE TypeOK'
  BY <1>26 DEF KillLauncher, Goto, TypeOK, CallsOK, Files, NoFile, Launching,
     Cleaning
<1>27. QED
  BY <1>1, <1>2, <1>3, <1>4, <1>5, <1>6, <1>7, <1>8, <1>9, <1>10, <1>11, <1>12,
     <1>13, <1>14, <1>15, <1>16, <1>17, <1>18, <1>19, <1>20, <1>21, <1>22,
     <1>23, <1>24, <1>25, <1>26, NextCases

\* Where a launcher is tells what has become of its sandbox.
LEMMA SandboxStep ==
    ASSUME TypeOK, CallsOK, \A l \in Launchers : SandboxOK(l), [Next]_vars
    PROVE  \A l \in Launchers : SandboxOK(l)'
<1> SUFFICES ASSUME NEW l \in Launchers
             PROVE  SandboxOK(l)'
  OBVIOUS
<1> USE DEF Launchers
<1>1. CASE UNCHANGED <<daemon, socket, launchVars>>
  BY <1>1, DaemonAssumption DEF TypeOK, ExecdTypeOK, SandboxOK, Up, Cleaning, Files, NoFile
<1>2. ASSUME NEW d \in Daemons, Listen(d), UNCHANGED launchVars PROVE SandboxOK(l)'
  BY <1>2, DaemonAssumption DEF Listen, TypeOK, ExecdTypeOK, SandboxOK, Up,
     Cleaning, Files, NoFile
<1>3. ASSUME NEW d \in Daemons, Serve(d), UNCHANGED launchVars PROVE SandboxOK(l)'
  BY <1>3, DaemonAssumption DEF Serve, TypeOK, ExecdTypeOK, SandboxOK, Up,
     Cleaning, Files, NoFile
<1>4. ASSUME NEW d \in Daemons, TerminateEarly(d), UNCHANGED launchVars PROVE SandboxOK(l)'
  BY <1>4, DaemonAssumption DEF TerminateEarly, TypeOK, ExecdTypeOK, SandboxOK,
     Up, Cleaning, Files, NoFile
<1>5. ASSUME NEW d \in Daemons, Terminate(d), UNCHANGED launchVars PROVE SandboxOK(l)'
  BY <1>5, DaemonAssumption DEF Terminate, TypeOK, ExecdTypeOK, SandboxOK, Up,
     Cleaning, Files, NoFile
<1>6. ASSUME NEW d \in Daemons, DrainEnds(d), UNCHANGED launchVars PROVE SandboxOK(l)'
  BY <1>6, DaemonAssumption DEF DrainEnds, TypeOK, ExecdTypeOK, SandboxOK, Up,
     Cleaning, Files, NoFile
<1>7. ASSUME NEW d \in Daemons, Kill(d), UNCHANGED launchVars PROVE SandboxOK(l)'
  BY <1>7, DaemonAssumption DEF Kill, TypeOK, ExecdTypeOK, SandboxOK, Up,
     Cleaning, Files, NoFile
<1>8. ASSUME NEW m \in Launchers, ReadPid(m) PROVE SandboxOK(l)'
  BY <1>8, DaemonAssumption DEF ReadPid, Enter, Goto, TypeOK, ExecdTypeOK,
     SandboxOK, Up, Cleaning, Files, NoFile
<1>9. ASSUME NEW m \in Launchers, ProbeStale(m) PROVE SandboxOK(l)'
  BY <1>9, DaemonAssumption DEF ProbeStale, Stale, Goto, TypeOK, ExecdTypeOK,
     SandboxOK, Up, Cleaning, Files, NoFile
<1>10. ASSUME NEW m \in Launchers, ProbeAlive(m) PROVE SandboxOK(l)'
  BY <1>10, DaemonAssumption DEF ProbeAlive, Goto, TypeOK, ExecdTypeOK,
     SandboxOK, Up, Cleaning, Files, NoFile
<1>11. ASSUME NEW m \in Launchers, RemovePid(m) PROVE SandboxOK(l)'
  BY <1>11, DaemonAssumption DEF RemovePid, Goto, TypeOK, ExecdTypeOK,
     SandboxOK, Up, Cleaning, Files, NoFile
<1>12. ASSUME NEW m \in Launchers, RemoveSocket(m) PROVE SandboxOK(l)'
  BY <1>12, DaemonAssumption DEF RemoveSocket, RemoveStaleSocket, Goto, TypeOK,
     ExecdTypeOK, SandboxOK, Up, Cleaning, Files, NoFile
<1>13. ASSUME NEW m \in Launchers, Create(m) PROVE SandboxOK(l)'
  BY <1>13, DaemonAssumption DEF Create, Goto, TypeOK, ExecdTypeOK, SandboxOK,
     Up, Cleaning, Files, NoFile
<1>14. ASSUME NEW m \in Launchers, Claim(m) PROVE SandboxOK(l)'
  BY <1>14, DaemonAssumption DEF Claim, WritePid, Goto, TypeOK, ExecdTypeOK,
     SandboxOK, Up, Cleaning, Files, NoFile
<1>15. ASSUME NEW m \in Launchers, Spawn(m) PROVE SandboxOK(l)'
  BY <1>15, DaemonAssumption DEF Spawn, Goto, TypeOK, ExecdTypeOK, SandboxOK,
     Up, Cleaning, Files, NoFile
<1>16. ASSUME NEW m \in Launchers, SpawnFails(m) PROVE SandboxOK(l)'
  BY <1>16, DaemonAssumption DEF SpawnFails, Goto, TypeOK, ExecdTypeOK,
     SandboxOK, Up, Cleaning, Files, NoFile
<1>17. ASSUME NEW m \in Launchers, Truncate(m) PROVE SandboxOK(l)'
  BY <1>17, DaemonAssumption DEF Truncate, Goto, TypeOK, ExecdTypeOK,
     SandboxOK, Up, Cleaning, Files, NoFile
<1>18. ASSUME NEW m \in Launchers, Record(m) PROVE SandboxOK(l)'
  BY <1>18, DaemonAssumption DEF Record, WritePid, Goto, TypeOK, ExecdTypeOK,
     SandboxOK, Up, Cleaning, Files, NoFile
<1>19. ASSUME NEW m \in Launchers, RecordFails(m) PROVE SandboxOK(l)'
  BY <1>19, DaemonAssumption DEF RecordFails, KillChild, Kill, Goto, TypeOK,
     ExecdTypeOK, SandboxOK, Up, Cleaning, Files, NoFile
<1>20. ASSUME NEW m \in Launchers, Poll(m) PROVE SandboxOK(l)'
  BY <1>20, DaemonAssumption DEF Poll, Goto, TypeOK, ExecdTypeOK, SandboxOK,
     Up, Cleaning, Files, NoFile
<1>21. ASSUME NEW m \in Launchers, PollExpires(m) PROVE SandboxOK(l)'
  BY <1>21, DaemonAssumption DEF PollExpires, Enter, StopChild, KillChild,
     Kill, Goto, TypeOK, ExecdTypeOK, SandboxOK, Up, Cleaning, Files, NoFile
<1>22. ASSUME NEW m \in Launchers, PollAgain(m) PROVE SandboxOK(l)'
  BY <1>22, DaemonAssumption DEF PollAgain, Goto, TypeOK, ExecdTypeOK,
     SandboxOK, Up, Cleaning, Files, NoFile
<1>23. ASSUME NEW m \in Launchers, ChildEnds(m) PROVE SandboxOK(l)'
  BY <1>23, DaemonAssumption DEF ChildEnds, Enter, Goto, TypeOK, ExecdTypeOK,
     SandboxOK, Up, Cleaning, Files, NoFile
<1>24. ASSUME NEW m \in Launchers, UnlinkSocket(m) PROVE SandboxOK(l)'
  BY <1>24, DaemonAssumption DEF UnlinkSocket, Goto, TypeOK, ExecdTypeOK,
     SandboxOK, Up, Cleaning, Files, NoFile
<1>25. ASSUME NEW m \in Launchers, UnlinkPid(m) PROVE SandboxOK(l)'
  BY <1>25, DaemonAssumption DEF UnlinkPid, RemoveOwnPid, Goto, TypeOK,
     ExecdTypeOK, SandboxOK, Up, Cleaning, Files, NoFile
<1>26. ASSUME NEW m \in Launchers, KillLauncher(m) PROVE SandboxOK(l)'
  BY <1>26, DaemonAssumption DEF KillLauncher, Goto, TypeOK, ExecdTypeOK,
     SandboxOK, Up, Cleaning, Files, NoFile
<1>27. QED
  BY <1>1, <1>2, <1>3, <1>4, <1>5, <1>6, <1>7, <1>8, <1>9, <1>10, <1>11, <1>12,
     <1>13, <1>14, <1>15, <1>16, <1>17, <1>18, <1>19, <1>20, <1>21, <1>22,
     <1>23, <1>24, <1>25, <1>26, NextCases

\* One launcher at a time makes or removes files.
LEMMA ExclusiveStep ==
    ASSUME TypeOK, \A k \in Launchers : SandboxOK(k), Exclusive, Recorded,
           \A k \in Launchers : FileOK(k) /\ SocketOK(k), ~Overlap, ~LateKill, [Next]_vars
    PROVE  Exclusive'
<1> SUFFICES ASSUME NEW k \in Launchers, NEW l \in Launchers,
                    pc'[k] \in Launching \cup Cleaning, pc'[l] \in Launching \cup Cleaning
             PROVE  k = l
  BY DEF Exclusive
<1> USE DEF Launchers
<1>1. CASE UNCHANGED <<daemon, socket, launchVars>>
  BY <1>1 DEF TypeOK, Exclusive, Launching, Cleaning
<1>2. ASSUME NEW d \in Daemons, Listen(d), UNCHANGED launchVars PROVE k = l
  BY <1>2 DEF Listen, TypeOK, Exclusive, Launching, Cleaning
<1>3. ASSUME NEW d \in Daemons, Serve(d), UNCHANGED launchVars PROVE k = l
  BY <1>3 DEF Serve, TypeOK, Exclusive, Launching, Cleaning
<1>4. ASSUME NEW d \in Daemons, TerminateEarly(d), UNCHANGED launchVars PROVE k = l
  BY <1>4 DEF TerminateEarly, TypeOK, Exclusive, Launching, Cleaning
<1>5. ASSUME NEW d \in Daemons, Terminate(d), UNCHANGED launchVars PROVE k = l
  BY <1>5 DEF Terminate, TypeOK, Exclusive, Launching, Cleaning
<1>6. ASSUME NEW d \in Daemons, DrainEnds(d), UNCHANGED launchVars PROVE k = l
  BY <1>6 DEF DrainEnds, TypeOK, Exclusive, Launching, Cleaning
<1>7. ASSUME NEW d \in Daemons, Kill(d), UNCHANGED launchVars PROVE k = l
  BY <1>7 DEF Kill, TypeOK, Exclusive, Launching, Cleaning
<1>8. ASSUME NEW m \in Launchers, ReadPid(m) PROVE k = l
  BY <1>8 DEF ReadPid, Enter, Goto, TypeOK, Exclusive, Launching, Cleaning
<1>9. ASSUME NEW m \in Launchers, ProbeStale(m) PROVE k = l
  BY <1>9 DEF ProbeStale, Stale, Goto, TypeOK, Exclusive, Launching, Cleaning
<1>10. ASSUME NEW m \in Launchers, ProbeAlive(m) PROVE k = l
  BY <1>10 DEF ProbeAlive, Goto, TypeOK, Exclusive, Launching, Cleaning
<1>11. ASSUME NEW m \in Launchers, RemovePid(m) PROVE k = l
  BY <1>11 DEF RemovePid, Goto, TypeOK, Exclusive, Launching, Cleaning
<1>12. ASSUME NEW m \in Launchers, RemoveSocket(m) PROVE k = l
  BY <1>12 DEF RemoveSocket, RemoveStaleSocket, Goto, TypeOK, Exclusive,
     Launching, Cleaning
<1>13. ASSUME NEW m \in Launchers, Create(m) PROVE k = l
  BY <1>13 DEF Create, Goto, TypeOK, Exclusive, Launching, Cleaning
<1>14. ASSUME NEW m \in Launchers, Claim(m) PROVE k = l
  BY <1>14 DEF Claim, WritePid, Goto, TypeOK, Exclusive, Launching, Cleaning
<1>15. ASSUME NEW m \in Launchers, Spawn(m) PROVE k = l
  BY <1>15 DEF Spawn, Goto, TypeOK, Exclusive, Launching, Cleaning
<1>16. ASSUME NEW m \in Launchers, SpawnFails(m) PROVE k = l
  BY <1>16 DEF SpawnFails, Goto, TypeOK, Exclusive, Launching, Cleaning
<1>17. ASSUME NEW m \in Launchers, Truncate(m) PROVE k = l
  BY <1>17 DEF Truncate, Goto, TypeOK, Exclusive, Launching, Cleaning
<1>18. ASSUME NEW m \in Launchers, Record(m) PROVE k = l
  BY <1>18 DEF Record, WritePid, Goto, TypeOK, Exclusive, Launching, Cleaning
<1>19. ASSUME NEW m \in Launchers, RecordFails(m) PROVE k = l
  BY <1>19 DEF RecordFails, KillChild, Kill, Goto, TypeOK, Exclusive,
     Launching, Cleaning
<1>20. ASSUME NEW m \in Launchers, Poll(m) PROVE k = l
  BY <1>20 DEF Poll, Goto, TypeOK, Exclusive, Launching, Cleaning
<1>21. ASSUME NEW m \in Launchers, PollExpires(m) PROVE k = l
  BY <1>21 DEF PollExpires, Enter, StopChild, KillChild, Kill, Goto, TypeOK,
     Exclusive, Launching, Cleaning
<1>22. ASSUME NEW m \in Launchers, PollAgain(m) PROVE k = l
  BY <1>22 DEF PollAgain, Goto, TypeOK, Exclusive, Launching, Cleaning
<1>23. ASSUME NEW m \in Launchers, ChildEnds(m) PROVE k = l
  BY <1>23 DEF ChildEnds, Enter, Goto, TypeOK, Exclusive, Launching, Cleaning
<1>24. ASSUME NEW m \in Launchers, UnlinkSocket(m) PROVE k = l
  BY <1>24 DEF UnlinkSocket, Goto, TypeOK, Exclusive, Launching, Cleaning
<1>25. ASSUME NEW m \in Launchers, UnlinkPid(m) PROVE k = l
  BY <1>25 DEF UnlinkPid, RemoveOwnPid, Goto, TypeOK, Exclusive, Launching,
     Cleaning
<1>26. ASSUME NEW m \in Launchers, KillLauncher(m) PROVE k = l
  BY <1>26 DEF KillLauncher, Goto, TypeOK, Exclusive, Launching, Cleaning
<1>27. QED
  BY <1>1, <1>2, <1>3, <1>4, <1>5, <1>6, <1>7, <1>8, <1>9, <1>10, <1>11, <1>12,
     <1>13, <1>14, <1>15, <1>16, <1>17, <1>18, <1>19, <1>20, <1>21, <1>22,
     <1>23, <1>24, <1>25, <1>26, NextCases

\* A sandbox that runs is in the PID file, or about to be.
LEMMA RecordedStep ==
    ASSUME TypeOK, \A k \in Launchers : SandboxOK(k), Exclusive, Recorded,
           \A k \in Launchers : FileOK(k) /\ SocketOK(k), ~Overlap, ~LateKill, [Next]_vars
    PROVE  Recorded'
<1> SUFFICES ASSUME NEW e \in Daemons, Up(e)'
             PROVE  pidFile' = <<"sandbox", e>> \/ pc'[e] \in {"record", "rewrite"}
  BY DEF Recorded
<1> USE DEF Launchers
<1>1. CASE UNCHANGED <<daemon, socket, launchVars>>
  BY <1>1, DaemonAssumption DEF TypeOK, ExecdTypeOK, SandboxOK, Exclusive,
     Recorded, FileOK, SocketOK, Up, Listening, Claimed, Launching, Cleaning,
     Files, NoFile, Alive, SandboxPid
<1>2. ASSUME NEW d \in Daemons, Listen(d), UNCHANGED launchVars PROVE pidFile' = <<"sandbox", e>> \/ pc'[e] \in {"record", "rewrite"}
  BY <1>2, DaemonAssumption DEF Listen, TypeOK, ExecdTypeOK, SandboxOK,
     Exclusive, Recorded, FileOK, SocketOK, Up, Listening, Claimed, Launching,
     Cleaning, Files, NoFile, Alive, SandboxPid
<1>3. ASSUME NEW d \in Daemons, Serve(d), UNCHANGED launchVars PROVE pidFile' = <<"sandbox", e>> \/ pc'[e] \in {"record", "rewrite"}
  BY <1>3, DaemonAssumption DEF Serve, TypeOK, ExecdTypeOK, SandboxOK,
     Exclusive, Recorded, FileOK, SocketOK, Up, Listening, Claimed, Launching,
     Cleaning, Files, NoFile, Alive, SandboxPid
<1>4. ASSUME NEW d \in Daemons, TerminateEarly(d), UNCHANGED launchVars PROVE pidFile' = <<"sandbox", e>> \/ pc'[e] \in {"record", "rewrite"}
  BY <1>4, DaemonAssumption DEF TerminateEarly, TypeOK, ExecdTypeOK, SandboxOK,
     Exclusive, Recorded, FileOK, SocketOK, Up, Listening, Claimed, Launching,
     Cleaning, Files, NoFile, Alive, SandboxPid
<1>5. ASSUME NEW d \in Daemons, Terminate(d), UNCHANGED launchVars PROVE pidFile' = <<"sandbox", e>> \/ pc'[e] \in {"record", "rewrite"}
  BY <1>5, DaemonAssumption DEF Terminate, TypeOK, ExecdTypeOK, SandboxOK,
     Exclusive, Recorded, FileOK, SocketOK, Up, Listening, Claimed, Launching,
     Cleaning, Files, NoFile, Alive, SandboxPid
<1>6. ASSUME NEW d \in Daemons, DrainEnds(d), UNCHANGED launchVars PROVE pidFile' = <<"sandbox", e>> \/ pc'[e] \in {"record", "rewrite"}
  BY <1>6, DaemonAssumption DEF DrainEnds, TypeOK, ExecdTypeOK, SandboxOK,
     Exclusive, Recorded, FileOK, SocketOK, Up, Listening, Claimed, Launching,
     Cleaning, Files, NoFile, Alive, SandboxPid
<1>7. ASSUME NEW d \in Daemons, Kill(d), UNCHANGED launchVars PROVE pidFile' = <<"sandbox", e>> \/ pc'[e] \in {"record", "rewrite"}
  BY <1>7, DaemonAssumption DEF Kill, TypeOK, ExecdTypeOK, SandboxOK,
     Exclusive, Recorded, FileOK, SocketOK, Up, Listening, Claimed, Launching,
     Cleaning, Files, NoFile, Alive, SandboxPid
<1>8. ASSUME NEW m \in Launchers, ReadPid(m) PROVE pidFile' = <<"sandbox", e>> \/ pc'[e] \in {"record", "rewrite"}
  BY <1>8, DaemonAssumption DEF ReadPid, Enter, Goto, TypeOK, ExecdTypeOK,
     SandboxOK, Exclusive, Recorded, FileOK, SocketOK, Up, Listening, Claimed,
     Launching, Cleaning, Files, NoFile, Alive, SandboxPid
<1>9. ASSUME NEW m \in Launchers, ProbeStale(m) PROVE pidFile' = <<"sandbox", e>> \/ pc'[e] \in {"record", "rewrite"}
  BY <1>9, DaemonAssumption DEF ProbeStale, Stale, Goto, TypeOK, ExecdTypeOK,
     SandboxOK, Exclusive, Recorded, FileOK, SocketOK, Up, Listening, Claimed,
     Launching, Cleaning, Files, NoFile, Alive, SandboxPid
<1>10. ASSUME NEW m \in Launchers, ProbeAlive(m) PROVE pidFile' = <<"sandbox", e>> \/ pc'[e] \in {"record", "rewrite"}
  BY <1>10, DaemonAssumption DEF ProbeAlive, Goto, TypeOK, ExecdTypeOK,
     SandboxOK, Exclusive, Recorded, FileOK, SocketOK, Up, Listening, Claimed,
     Launching, Cleaning, Files, NoFile, Alive, SandboxPid
<1>11. ASSUME NEW m \in Launchers, RemovePid(m) PROVE pidFile' = <<"sandbox", e>> \/ pc'[e] \in {"record", "rewrite"}
  BY <1>11, DaemonAssumption DEF RemovePid, Goto, TypeOK, ExecdTypeOK,
     SandboxOK, Exclusive, Recorded, FileOK, SocketOK, Up, Listening, Claimed,
     Launching, Cleaning, Files, NoFile, Alive, SandboxPid
<1>12. ASSUME NEW m \in Launchers, RemoveSocket(m) PROVE pidFile' = <<"sandbox", e>> \/ pc'[e] \in {"record", "rewrite"}
  BY <1>12, DaemonAssumption DEF RemoveSocket, RemoveStaleSocket, Goto, TypeOK,
     ExecdTypeOK, SandboxOK, Exclusive, Recorded, FileOK, SocketOK, Up,
     Listening, Claimed, Launching, Cleaning, Files, NoFile, Alive, SandboxPid
<1>13. ASSUME NEW m \in Launchers, Create(m) PROVE pidFile' = <<"sandbox", e>> \/ pc'[e] \in {"record", "rewrite"}
  BY <1>13, DaemonAssumption DEF Create, Goto, TypeOK, ExecdTypeOK, SandboxOK,
     Exclusive, Recorded, FileOK, SocketOK, Up, Listening, Claimed, Launching,
     Cleaning, Files, NoFile, Alive, SandboxPid
<1>14. ASSUME NEW m \in Launchers, Claim(m) PROVE pidFile' = <<"sandbox", e>> \/ pc'[e] \in {"record", "rewrite"}
  BY <1>14, DaemonAssumption DEF Claim, WritePid, Goto, TypeOK, ExecdTypeOK,
     SandboxOK, Exclusive, Recorded, FileOK, SocketOK, Up, Listening, Claimed,
     Launching, Cleaning, Files, NoFile, Alive, SandboxPid
<1>15. ASSUME NEW m \in Launchers, Spawn(m) PROVE pidFile' = <<"sandbox", e>> \/ pc'[e] \in {"record", "rewrite"}
  BY <1>15, DaemonAssumption DEF Spawn, Goto, TypeOK, ExecdTypeOK, SandboxOK,
     Exclusive, Recorded, FileOK, SocketOK, Up, Listening, Claimed, Launching,
     Cleaning, Files, NoFile, Alive, SandboxPid
<1>16. ASSUME NEW m \in Launchers, SpawnFails(m) PROVE pidFile' = <<"sandbox", e>> \/ pc'[e] \in {"record", "rewrite"}
  BY <1>16, DaemonAssumption DEF SpawnFails, Goto, TypeOK, ExecdTypeOK,
     SandboxOK, Exclusive, Recorded, FileOK, SocketOK, Up, Listening, Claimed,
     Launching, Cleaning, Files, NoFile, Alive, SandboxPid
<1>17. ASSUME NEW m \in Launchers, Truncate(m) PROVE pidFile' = <<"sandbox", e>> \/ pc'[e] \in {"record", "rewrite"}
  BY <1>17, DaemonAssumption DEF Truncate, Goto, TypeOK, ExecdTypeOK,
     SandboxOK, Exclusive, Recorded, FileOK, SocketOK, Up, Listening, Claimed,
     Launching, Cleaning, Files, NoFile, Alive, SandboxPid
<1>18. ASSUME NEW m \in Launchers, Record(m) PROVE pidFile' = <<"sandbox", e>> \/ pc'[e] \in {"record", "rewrite"}
  BY <1>18, DaemonAssumption DEF Record, WritePid, Goto, TypeOK, ExecdTypeOK,
     SandboxOK, Exclusive, Recorded, FileOK, SocketOK, Up, Listening, Claimed,
     Launching, Cleaning, Files, NoFile, Alive, SandboxPid
<1>19. ASSUME NEW m \in Launchers, RecordFails(m) PROVE pidFile' = <<"sandbox", e>> \/ pc'[e] \in {"record", "rewrite"}
  BY <1>19, DaemonAssumption DEF RecordFails, KillChild, Kill, Goto, TypeOK,
     ExecdTypeOK, SandboxOK, Exclusive, Recorded, FileOK, SocketOK, Up,
     Listening, Claimed, Launching, Cleaning, Files, NoFile, Alive, SandboxPid
<1>20. ASSUME NEW m \in Launchers, Poll(m) PROVE pidFile' = <<"sandbox", e>> \/ pc'[e] \in {"record", "rewrite"}
  BY <1>20, DaemonAssumption DEF Poll, Goto, TypeOK, ExecdTypeOK, SandboxOK,
     Exclusive, Recorded, FileOK, SocketOK, Up, Listening, Claimed, Launching,
     Cleaning, Files, NoFile, Alive, SandboxPid
<1>21. ASSUME NEW m \in Launchers, PollExpires(m) PROVE pidFile' = <<"sandbox", e>> \/ pc'[e] \in {"record", "rewrite"}
  BY <1>21, DaemonAssumption DEF PollExpires, Enter, StopChild, KillChild,
     Kill, Goto, TypeOK, ExecdTypeOK, SandboxOK, Exclusive, Recorded, FileOK,
     SocketOK, Up, Listening, Claimed, Launching, Cleaning, Files, NoFile,
     Alive, SandboxPid
<1>22. ASSUME NEW m \in Launchers, PollAgain(m) PROVE pidFile' = <<"sandbox", e>> \/ pc'[e] \in {"record", "rewrite"}
  BY <1>22, DaemonAssumption DEF PollAgain, Goto, TypeOK, ExecdTypeOK,
     SandboxOK, Exclusive, Recorded, FileOK, SocketOK, Up, Listening, Claimed,
     Launching, Cleaning, Files, NoFile, Alive, SandboxPid
<1>23. ASSUME NEW m \in Launchers, ChildEnds(m) PROVE pidFile' = <<"sandbox", e>> \/ pc'[e] \in {"record", "rewrite"}
  BY <1>23, DaemonAssumption DEF ChildEnds, Enter, Goto, TypeOK, ExecdTypeOK,
     SandboxOK, Exclusive, Recorded, FileOK, SocketOK, Up, Listening, Claimed,
     Launching, Cleaning, Files, NoFile, Alive, SandboxPid
<1>24. ASSUME NEW m \in Launchers, UnlinkSocket(m) PROVE pidFile' = <<"sandbox", e>> \/ pc'[e] \in {"record", "rewrite"}
  BY <1>24, DaemonAssumption DEF UnlinkSocket, Goto, TypeOK, ExecdTypeOK,
     SandboxOK, Exclusive, Recorded, FileOK, SocketOK, Up, Listening, Claimed,
     Launching, Cleaning, Files, NoFile, Alive, SandboxPid
<1>25. ASSUME NEW m \in Launchers, UnlinkPid(m) PROVE pidFile' = <<"sandbox", e>> \/ pc'[e] \in {"record", "rewrite"}
  BY <1>25, DaemonAssumption DEF UnlinkPid, RemoveOwnPid, Goto, TypeOK,
     ExecdTypeOK, SandboxOK, Exclusive, Recorded, FileOK, SocketOK, Up,
     Listening, Claimed, Launching, Cleaning, Files, NoFile, Alive, SandboxPid
<1>26. ASSUME NEW m \in Launchers, KillLauncher(m) PROVE pidFile' = <<"sandbox", e>> \/ pc'[e] \in {"record", "rewrite"}
  BY <1>26, DaemonAssumption DEF KillLauncher, Goto, TypeOK, ExecdTypeOK,
     SandboxOK, Exclusive, Recorded, FileOK, SocketOK, Up, Listening, Claimed,
     Launching, Cleaning, Files, NoFile, Alive, SandboxPid
<1>27. QED
  BY <1>1, <1>2, <1>3, <1>4, <1>5, <1>6, <1>7, <1>8, <1>9, <1>10, <1>11, <1>12,
     <1>13, <1>14, <1>15, <1>16, <1>17, <1>18, <1>19, <1>20, <1>21, <1>22,
     <1>23, <1>24, <1>25, <1>26, NextCases

\* What a launcher at work knows of the PID file.
LEMMA FileStep ==
    ASSUME TypeOK, \A k \in Launchers : SandboxOK(k), Exclusive, Recorded,
           \A k \in Launchers : FileOK(k) /\ SocketOK(k), ~Overlap, ~LateKill, [Next]_vars
    PROVE  \A l \in Launchers : FileOK(l)'
<1> SUFFICES ASSUME NEW l \in Launchers
             PROVE  FileOK(l)'
  OBVIOUS
<1> USE DEF Launchers
<1>1. CASE UNCHANGED <<daemon, socket, launchVars>>
  BY <1>1, DaemonAssumption DEF TypeOK, ExecdTypeOK, SandboxOK, Exclusive,
     Recorded, FileOK, SocketOK, Up, Listening, Claimed, Launching, Cleaning,
     Files, NoFile, Alive, SandboxPid
<1>2. ASSUME NEW d \in Daemons, Listen(d), UNCHANGED launchVars PROVE FileOK(l)'
  BY <1>2, DaemonAssumption DEF Listen, TypeOK, ExecdTypeOK, SandboxOK,
     Exclusive, Recorded, FileOK, SocketOK, Up, Listening, Claimed, Launching,
     Cleaning, Files, NoFile, Alive, SandboxPid
<1>3. ASSUME NEW d \in Daemons, Serve(d), UNCHANGED launchVars PROVE FileOK(l)'
  BY <1>3, DaemonAssumption DEF Serve, TypeOK, ExecdTypeOK, SandboxOK,
     Exclusive, Recorded, FileOK, SocketOK, Up, Listening, Claimed, Launching,
     Cleaning, Files, NoFile, Alive, SandboxPid
<1>4. ASSUME NEW d \in Daemons, TerminateEarly(d), UNCHANGED launchVars PROVE FileOK(l)'
  BY <1>4, DaemonAssumption DEF TerminateEarly, TypeOK, ExecdTypeOK, SandboxOK,
     Exclusive, Recorded, FileOK, SocketOK, Up, Listening, Claimed, Launching,
     Cleaning, Files, NoFile, Alive, SandboxPid
<1>5. ASSUME NEW d \in Daemons, Terminate(d), UNCHANGED launchVars PROVE FileOK(l)'
  BY <1>5, DaemonAssumption DEF Terminate, TypeOK, ExecdTypeOK, SandboxOK,
     Exclusive, Recorded, FileOK, SocketOK, Up, Listening, Claimed, Launching,
     Cleaning, Files, NoFile, Alive, SandboxPid
<1>6. ASSUME NEW d \in Daemons, DrainEnds(d), UNCHANGED launchVars PROVE FileOK(l)'
  BY <1>6, DaemonAssumption DEF DrainEnds, TypeOK, ExecdTypeOK, SandboxOK,
     Exclusive, Recorded, FileOK, SocketOK, Up, Listening, Claimed, Launching,
     Cleaning, Files, NoFile, Alive, SandboxPid
<1>7. ASSUME NEW d \in Daemons, Kill(d), UNCHANGED launchVars PROVE FileOK(l)'
  BY <1>7, DaemonAssumption DEF Kill, TypeOK, ExecdTypeOK, SandboxOK,
     Exclusive, Recorded, FileOK, SocketOK, Up, Listening, Claimed, Launching,
     Cleaning, Files, NoFile, Alive, SandboxPid
<1>8. ASSUME NEW m \in Launchers, ReadPid(m) PROVE FileOK(l)'
  BY <1>8, DaemonAssumption DEF ReadPid, Enter, Goto, TypeOK, ExecdTypeOK,
     SandboxOK, Exclusive, Recorded, FileOK, SocketOK, Up, Listening, Claimed,
     Launching, Cleaning, Files, NoFile, Alive, SandboxPid
<1>9. ASSUME NEW m \in Launchers, ProbeStale(m) PROVE FileOK(l)'
  BY <1>9, DaemonAssumption DEF ProbeStale, Stale, Goto, TypeOK, ExecdTypeOK,
     SandboxOK, Exclusive, Recorded, FileOK, SocketOK, Up, Listening, Claimed,
     Launching, Cleaning, Files, NoFile, Alive, SandboxPid
<1>10. ASSUME NEW m \in Launchers, ProbeAlive(m) PROVE FileOK(l)'
  BY <1>10, DaemonAssumption DEF ProbeAlive, Goto, TypeOK, ExecdTypeOK,
     SandboxOK, Exclusive, Recorded, FileOK, SocketOK, Up, Listening, Claimed,
     Launching, Cleaning, Files, NoFile, Alive, SandboxPid
<1>11. ASSUME NEW m \in Launchers, RemovePid(m) PROVE FileOK(l)'
  BY <1>11, DaemonAssumption DEF RemovePid, Goto, TypeOK, ExecdTypeOK,
     SandboxOK, Exclusive, Recorded, FileOK, SocketOK, Up, Listening, Claimed,
     Launching, Cleaning, Files, NoFile, Alive, SandboxPid
<1>12. ASSUME NEW m \in Launchers, RemoveSocket(m) PROVE FileOK(l)'
  BY <1>12, DaemonAssumption DEF RemoveSocket, RemoveStaleSocket, Goto, TypeOK,
     ExecdTypeOK, SandboxOK, Exclusive, Recorded, FileOK, SocketOK, Up,
     Listening, Claimed, Launching, Cleaning, Files, NoFile, Alive, SandboxPid
<1>13. ASSUME NEW m \in Launchers, Create(m) PROVE FileOK(l)'
  BY <1>13, DaemonAssumption DEF Create, Goto, TypeOK, ExecdTypeOK, SandboxOK,
     Exclusive, Recorded, FileOK, SocketOK, Up, Listening, Claimed, Launching,
     Cleaning, Files, NoFile, Alive, SandboxPid
<1>14. ASSUME NEW m \in Launchers, Claim(m) PROVE FileOK(l)'
  BY <1>14, DaemonAssumption DEF Claim, WritePid, Goto, TypeOK, ExecdTypeOK,
     SandboxOK, Exclusive, Recorded, FileOK, SocketOK, Up, Listening, Claimed,
     Launching, Cleaning, Files, NoFile, Alive, SandboxPid
<1>15. ASSUME NEW m \in Launchers, Spawn(m) PROVE FileOK(l)'
  BY <1>15, DaemonAssumption DEF Spawn, Goto, TypeOK, ExecdTypeOK, SandboxOK,
     Exclusive, Recorded, FileOK, SocketOK, Up, Listening, Claimed, Launching,
     Cleaning, Files, NoFile, Alive, SandboxPid
<1>16. ASSUME NEW m \in Launchers, SpawnFails(m) PROVE FileOK(l)'
  BY <1>16, DaemonAssumption DEF SpawnFails, Goto, TypeOK, ExecdTypeOK,
     SandboxOK, Exclusive, Recorded, FileOK, SocketOK, Up, Listening, Claimed,
     Launching, Cleaning, Files, NoFile, Alive, SandboxPid
<1>17. ASSUME NEW m \in Launchers, Truncate(m) PROVE FileOK(l)'
  BY <1>17, DaemonAssumption DEF Truncate, Goto, TypeOK, ExecdTypeOK,
     SandboxOK, Exclusive, Recorded, FileOK, SocketOK, Up, Listening, Claimed,
     Launching, Cleaning, Files, NoFile, Alive, SandboxPid
<1>18. ASSUME NEW m \in Launchers, Record(m) PROVE FileOK(l)'
  BY <1>18, DaemonAssumption DEF Record, WritePid, Goto, TypeOK, ExecdTypeOK,
     SandboxOK, Exclusive, Recorded, FileOK, SocketOK, Up, Listening, Claimed,
     Launching, Cleaning, Files, NoFile, Alive, SandboxPid
<1>19. ASSUME NEW m \in Launchers, RecordFails(m) PROVE FileOK(l)'
  BY <1>19, DaemonAssumption DEF RecordFails, KillChild, Kill, Goto, TypeOK,
     ExecdTypeOK, SandboxOK, Exclusive, Recorded, FileOK, SocketOK, Up,
     Listening, Claimed, Launching, Cleaning, Files, NoFile, Alive, SandboxPid
<1>20. ASSUME NEW m \in Launchers, Poll(m) PROVE FileOK(l)'
  BY <1>20, DaemonAssumption DEF Poll, Goto, TypeOK, ExecdTypeOK, SandboxOK,
     Exclusive, Recorded, FileOK, SocketOK, Up, Listening, Claimed, Launching,
     Cleaning, Files, NoFile, Alive, SandboxPid
<1>21. ASSUME NEW m \in Launchers, PollExpires(m) PROVE FileOK(l)'
  BY <1>21, DaemonAssumption DEF PollExpires, Enter, StopChild, KillChild,
     Kill, Goto, TypeOK, ExecdTypeOK, SandboxOK, Exclusive, Recorded, FileOK,
     SocketOK, Up, Listening, Claimed, Launching, Cleaning, Files, NoFile,
     Alive, SandboxPid
<1>22. ASSUME NEW m \in Launchers, PollAgain(m) PROVE FileOK(l)'
  BY <1>22, DaemonAssumption DEF PollAgain, Goto, TypeOK, ExecdTypeOK,
     SandboxOK, Exclusive, Recorded, FileOK, SocketOK, Up, Listening, Claimed,
     Launching, Cleaning, Files, NoFile, Alive, SandboxPid
<1>23. ASSUME NEW m \in Launchers, ChildEnds(m) PROVE FileOK(l)'
  BY <1>23, DaemonAssumption DEF ChildEnds, Enter, Goto, TypeOK, ExecdTypeOK,
     SandboxOK, Exclusive, Recorded, FileOK, SocketOK, Up, Listening, Claimed,
     Launching, Cleaning, Files, NoFile, Alive, SandboxPid
<1>24. ASSUME NEW m \in Launchers, UnlinkSocket(m) PROVE FileOK(l)'
  BY <1>24, DaemonAssumption DEF UnlinkSocket, Goto, TypeOK, ExecdTypeOK,
     SandboxOK, Exclusive, Recorded, FileOK, SocketOK, Up, Listening, Claimed,
     Launching, Cleaning, Files, NoFile, Alive, SandboxPid
<1>25. ASSUME NEW m \in Launchers, UnlinkPid(m) PROVE FileOK(l)'
  BY <1>25, DaemonAssumption DEF UnlinkPid, RemoveOwnPid, Goto, TypeOK,
     ExecdTypeOK, SandboxOK, Exclusive, Recorded, FileOK, SocketOK, Up,
     Listening, Claimed, Launching, Cleaning, Files, NoFile, Alive, SandboxPid
<1>26. ASSUME NEW m \in Launchers, KillLauncher(m) PROVE FileOK(l)'
  BY <1>26, DaemonAssumption DEF KillLauncher, Goto, TypeOK, ExecdTypeOK,
     SandboxOK, Exclusive, Recorded, FileOK, SocketOK, Up, Listening, Claimed,
     Launching, Cleaning, Files, NoFile, Alive, SandboxPid
<1>27. QED
  BY <1>1, <1>2, <1>3, <1>4, <1>5, <1>6, <1>7, <1>8, <1>9, <1>10, <1>11, <1>12,
     <1>13, <1>14, <1>15, <1>16, <1>17, <1>18, <1>19, <1>20, <1>21, <1>22,
     <1>23, <1>24, <1>25, <1>26, NextCases

\* What a launcher at work knows of the socket.
LEMMA SocketStep ==
    ASSUME TypeOK, \A k \in Launchers : SandboxOK(k), Exclusive, Recorded,
           \A k \in Launchers : FileOK(k) /\ SocketOK(k), ~Overlap, ~LateKill, [Next]_vars
    PROVE  \A l \in Launchers : SocketOK(l)'
<1> SUFFICES ASSUME NEW l \in Launchers
             PROVE  SocketOK(l)'
  OBVIOUS
<1> USE DEF Launchers
<1>1. CASE UNCHANGED <<daemon, socket, launchVars>>
  BY <1>1, DaemonAssumption DEF TypeOK, ExecdTypeOK, SandboxOK, Exclusive,
     Recorded, FileOK, SocketOK, Up, Listening, Claimed, Launching, Cleaning,
     Files, NoFile, Alive, SandboxPid
<1>2. ASSUME NEW d \in Daemons, Listen(d), UNCHANGED launchVars PROVE SocketOK(l)'
  BY <1>2, DaemonAssumption DEF Listen, TypeOK, ExecdTypeOK, SandboxOK,
     Exclusive, Recorded, FileOK, SocketOK, Up, Listening, Claimed, Launching,
     Cleaning, Files, NoFile, Alive, SandboxPid
<1>3. ASSUME NEW d \in Daemons, Serve(d), UNCHANGED launchVars PROVE SocketOK(l)'
  BY <1>3, DaemonAssumption DEF Serve, TypeOK, ExecdTypeOK, SandboxOK,
     Exclusive, Recorded, FileOK, SocketOK, Up, Listening, Claimed, Launching,
     Cleaning, Files, NoFile, Alive, SandboxPid
<1>4. ASSUME NEW d \in Daemons, TerminateEarly(d), UNCHANGED launchVars PROVE SocketOK(l)'
  BY <1>4, DaemonAssumption DEF TerminateEarly, TypeOK, ExecdTypeOK, SandboxOK,
     Exclusive, Recorded, FileOK, SocketOK, Up, Listening, Claimed, Launching,
     Cleaning, Files, NoFile, Alive, SandboxPid
<1>5. ASSUME NEW d \in Daemons, Terminate(d), UNCHANGED launchVars PROVE SocketOK(l)'
  BY <1>5, DaemonAssumption DEF Terminate, TypeOK, ExecdTypeOK, SandboxOK,
     Exclusive, Recorded, FileOK, SocketOK, Up, Listening, Claimed, Launching,
     Cleaning, Files, NoFile, Alive, SandboxPid
<1>6. ASSUME NEW d \in Daemons, DrainEnds(d), UNCHANGED launchVars PROVE SocketOK(l)'
  BY <1>6, DaemonAssumption DEF DrainEnds, TypeOK, ExecdTypeOK, SandboxOK,
     Exclusive, Recorded, FileOK, SocketOK, Up, Listening, Claimed, Launching,
     Cleaning, Files, NoFile, Alive, SandboxPid
<1>7. ASSUME NEW d \in Daemons, Kill(d), UNCHANGED launchVars PROVE SocketOK(l)'
  BY <1>7, DaemonAssumption DEF Kill, TypeOK, ExecdTypeOK, SandboxOK,
     Exclusive, Recorded, FileOK, SocketOK, Up, Listening, Claimed, Launching,
     Cleaning, Files, NoFile, Alive, SandboxPid
<1>8. ASSUME NEW m \in Launchers, ReadPid(m) PROVE SocketOK(l)'
  BY <1>8, DaemonAssumption DEF ReadPid, Enter, Goto, TypeOK, ExecdTypeOK,
     SandboxOK, Exclusive, Recorded, FileOK, SocketOK, Up, Listening, Claimed,
     Launching, Cleaning, Files, NoFile, Alive, SandboxPid
<1>9. ASSUME NEW m \in Launchers, ProbeStale(m) PROVE SocketOK(l)'
  BY <1>9, DaemonAssumption DEF ProbeStale, Stale, Goto, TypeOK, ExecdTypeOK,
     SandboxOK, Exclusive, Recorded, FileOK, SocketOK, Up, Listening, Claimed,
     Launching, Cleaning, Files, NoFile, Alive, SandboxPid
<1>10. ASSUME NEW m \in Launchers, ProbeAlive(m) PROVE SocketOK(l)'
  BY <1>10, DaemonAssumption DEF ProbeAlive, Goto, TypeOK, ExecdTypeOK,
     SandboxOK, Exclusive, Recorded, FileOK, SocketOK, Up, Listening, Claimed,
     Launching, Cleaning, Files, NoFile, Alive, SandboxPid
<1>11. ASSUME NEW m \in Launchers, RemovePid(m) PROVE SocketOK(l)'
  BY <1>11, DaemonAssumption DEF RemovePid, Goto, TypeOK, ExecdTypeOK,
     SandboxOK, Exclusive, Recorded, FileOK, SocketOK, Up, Listening, Claimed,
     Launching, Cleaning, Files, NoFile, Alive, SandboxPid
<1>12. ASSUME NEW m \in Launchers, RemoveSocket(m) PROVE SocketOK(l)'
  BY <1>12, DaemonAssumption DEF RemoveSocket, RemoveStaleSocket, Goto, TypeOK,
     ExecdTypeOK, SandboxOK, Exclusive, Recorded, FileOK, SocketOK, Up,
     Listening, Claimed, Launching, Cleaning, Files, NoFile, Alive, SandboxPid
<1>13. ASSUME NEW m \in Launchers, Create(m) PROVE SocketOK(l)'
  BY <1>13, DaemonAssumption DEF Create, Goto, TypeOK, ExecdTypeOK, SandboxOK,
     Exclusive, Recorded, FileOK, SocketOK, Up, Listening, Claimed, Launching,
     Cleaning, Files, NoFile, Alive, SandboxPid
<1>14. ASSUME NEW m \in Launchers, Claim(m) PROVE SocketOK(l)'
  BY <1>14, DaemonAssumption DEF Claim, WritePid, Goto, TypeOK, ExecdTypeOK,
     SandboxOK, Exclusive, Recorded, FileOK, SocketOK, Up, Listening, Claimed,
     Launching, Cleaning, Files, NoFile, Alive, SandboxPid
<1>15. ASSUME NEW m \in Launchers, Spawn(m) PROVE SocketOK(l)'
  BY <1>15, DaemonAssumption DEF Spawn, Goto, TypeOK, ExecdTypeOK, SandboxOK,
     Exclusive, Recorded, FileOK, SocketOK, Up, Listening, Claimed, Launching,
     Cleaning, Files, NoFile, Alive, SandboxPid
<1>16. ASSUME NEW m \in Launchers, SpawnFails(m) PROVE SocketOK(l)'
  BY <1>16, DaemonAssumption DEF SpawnFails, Goto, TypeOK, ExecdTypeOK,
     SandboxOK, Exclusive, Recorded, FileOK, SocketOK, Up, Listening, Claimed,
     Launching, Cleaning, Files, NoFile, Alive, SandboxPid
<1>17. ASSUME NEW m \in Launchers, Truncate(m) PROVE SocketOK(l)'
  BY <1>17, DaemonAssumption DEF Truncate, Goto, TypeOK, ExecdTypeOK,
     SandboxOK, Exclusive, Recorded, FileOK, SocketOK, Up, Listening, Claimed,
     Launching, Cleaning, Files, NoFile, Alive, SandboxPid
<1>18. ASSUME NEW m \in Launchers, Record(m) PROVE SocketOK(l)'
  BY <1>18, DaemonAssumption DEF Record, WritePid, Goto, TypeOK, ExecdTypeOK,
     SandboxOK, Exclusive, Recorded, FileOK, SocketOK, Up, Listening, Claimed,
     Launching, Cleaning, Files, NoFile, Alive, SandboxPid
<1>19. ASSUME NEW m \in Launchers, RecordFails(m) PROVE SocketOK(l)'
  BY <1>19, DaemonAssumption DEF RecordFails, KillChild, Kill, Goto, TypeOK,
     ExecdTypeOK, SandboxOK, Exclusive, Recorded, FileOK, SocketOK, Up,
     Listening, Claimed, Launching, Cleaning, Files, NoFile, Alive, SandboxPid
<1>20. ASSUME NEW m \in Launchers, Poll(m) PROVE SocketOK(l)'
  BY <1>20, DaemonAssumption DEF Poll, Goto, TypeOK, ExecdTypeOK, SandboxOK,
     Exclusive, Recorded, FileOK, SocketOK, Up, Listening, Claimed, Launching,
     Cleaning, Files, NoFile, Alive, SandboxPid
<1>21. ASSUME NEW m \in Launchers, PollExpires(m) PROVE SocketOK(l)'
  BY <1>21, DaemonAssumption DEF PollExpires, Enter, StopChild, KillChild,
     Kill, Goto, TypeOK, ExecdTypeOK, SandboxOK, Exclusive, Recorded, FileOK,
     SocketOK, Up, Listening, Claimed, Launching, Cleaning, Files, NoFile,
     Alive, SandboxPid
<1>22. ASSUME NEW m \in Launchers, PollAgain(m) PROVE SocketOK(l)'
  BY <1>22, DaemonAssumption DEF PollAgain, Goto, TypeOK, ExecdTypeOK,
     SandboxOK, Exclusive, Recorded, FileOK, SocketOK, Up, Listening, Claimed,
     Launching, Cleaning, Files, NoFile, Alive, SandboxPid
<1>23. ASSUME NEW m \in Launchers, ChildEnds(m) PROVE SocketOK(l)'
  BY <1>23, DaemonAssumption DEF ChildEnds, Enter, Goto, TypeOK, ExecdTypeOK,
     SandboxOK, Exclusive, Recorded, FileOK, SocketOK, Up, Listening, Claimed,
     Launching, Cleaning, Files, NoFile, Alive, SandboxPid
<1>24. ASSUME NEW m \in Launchers, UnlinkSocket(m) PROVE SocketOK(l)'
  BY <1>24, DaemonAssumption DEF UnlinkSocket, Goto, TypeOK, ExecdTypeOK,
     SandboxOK, Exclusive, Recorded, FileOK, SocketOK, Up, Listening, Claimed,
     Launching, Cleaning, Files, NoFile, Alive, SandboxPid
<1>25. ASSUME NEW m \in Launchers, UnlinkPid(m) PROVE SocketOK(l)'
  BY <1>25, DaemonAssumption DEF UnlinkPid, RemoveOwnPid, Goto, TypeOK,
     ExecdTypeOK, SandboxOK, Exclusive, Recorded, FileOK, SocketOK, Up,
     Listening, Claimed, Launching, Cleaning, Files, NoFile, Alive, SandboxPid
<1>26. ASSUME NEW m \in Launchers, KillLauncher(m) PROVE SocketOK(l)'
  BY <1>26, DaemonAssumption DEF KillLauncher, Goto, TypeOK, ExecdTypeOK,
     SandboxOK, Exclusive, Recorded, FileOK, SocketOK, Up, Listening, Claimed,
     Launching, Cleaning, Files, NoFile, Alive, SandboxPid
<1>27. QED
  BY <1>1, <1>2, <1>3, <1>4, <1>5, <1>6, <1>7, <1>8, <1>9, <1>10, <1>11, <1>12,
     <1>13, <1>14, <1>15, <1>16, <1>17, <1>18, <1>19, <1>20, <1>21, <1>22,
     <1>23, <1>24, <1>25, <1>26, NextCases

\* Every state satisfies the inductive invariant.
THEOREM WsbInvariant == Spec => []WsbInv
<1>1. Init => WsbInv
  <2> SUFFICES ASSUME Init
               PROVE  WsbInv
    OBVIOUS
  <2>1. CallsOK
    BY ExecdInitOK DEF Init
  <2>2. TypeOK
    BY <2>1 DEF Init, TypeOK, CallsOK, Files, NoFile, Launching, Cleaning
  <2>3. \A l \in Launchers : SandboxOK(l)
    BY DaemonAssumption DEF Init, ExecdInit, SandboxOK, Launchers, Cleaning, NoFile
  <2>4. Exclusive /\ Recorded
    BY DEF Init, ExecdInit, Exclusive, Recorded, Launchers, Launching, Cleaning, Up
  <2>5. \A l \in Launchers : FileOK(l) /\ SocketOK(l)
    BY DaemonAssumption DEF Init, ExecdInit, FileOK, SocketOK, Launchers, NoFile,
       Cleaning, Claimed, Listening
  <2>6. QED
    BY <2>1, <2>2, <2>3, <2>4, <2>5 DEF WsbInv
<1>2. WsbInv /\ [Next]_vars => WsbInv'
  <2> SUFFICES ASSUME WsbInv, [Next]_vars
               PROVE  WsbInv'
    OBVIOUS
  <2>1. CallsOK' /\ TypeOK' /\ \A l \in Launchers : SandboxOK(l)'
    BY CallsStep, TypeStep, SandboxStep DEF WsbInv
  <2>2. ASSUME ~Overlap, ~LateKill
        PROVE  /\ Exclusive' /\ Recorded'
               /\ \A l \in Launchers : FileOK(l)' /\ SocketOK(l)'
    BY <2>2, ExclusiveStep, RecordedStep, FileStep, SocketStep DEF WsbInv
  <2>3. QED
    BY <2>1, <2>2 DEF WsbInv
<1>3. QED
  BY <1>1, <1>2, PTL DEF Spec

\* A client's exit code 0 means that its command succeeded and that all of
\* its output was printed, whoever was killed and however launches overlap.
THEOREM WsbExitCode == Spec => []ExitCodeIsTrue
<1>1. WsbInv => ExitCodeIsTrue
  BY CallsExitCode DEF WsbInv
<1>2. QED
  BY <1>1, WsbInvariant, PTL

\* A daemon that drains gives every client whose command it started the
\* command's own result.
THEOREM WsbDrained == Spec => []DrainedCallsAnswered
<1>1. WsbInv => DrainedCallsAnswered
  BY CallsDrained DEF WsbInv
<1>2. QED
  BY <1>1, WsbInvariant, PTL

\* If launches and cleanups do not overlap and no launcher is killed between
\* the start of its sandbox and the record of its number, at most one sandbox
\* runs for the workspace.
THEOREM WsbOneSandbox == ~Overlap /\ ~LateKill => (Spec => []OneSandbox)
<1> SUFFICES ASSUME ~Overlap, ~LateKill
             PROVE  Spec => []OneSandbox
  OBVIOUS
<1>1. WsbInv => OneSandbox
  BY DEF WsbInv, Exclusive, Recorded, FileOK, OneSandbox, Launchers, Launching
<1>2. QED
  BY <1>1, WsbInvariant, PTL

\* Then, too, a daemon that accepts connections has its socket on the path, ...
THEOREM WsbReachable == ~Overlap /\ ~LateKill => (Spec => []AcceptingIsReachable)
<1> SUFFICES ASSUME ~Overlap, ~LateKill
             PROVE  Spec => []AcceptingIsReachable
  OBVIOUS
<1>1. WsbInv => AcceptingIsReachable
  BY DEF WsbInv, SocketOK, AcceptingIsReachable, Launchers
<1>2. QED
  BY <1>1, WsbInvariant, PTL

\* ... and a launcher is ready with its own socket only.
THEOREM WsbReady == ~Overlap /\ ~LateKill => (Spec => []ReadyIsOwn)
<1> SUFFICES ASSUME ~Overlap, ~LateKill
             PROVE  Spec => []ReadyIsOwn
  OBVIOUS
<1>1. WsbInv => ReadyIsOwn
  BY DEF WsbInv, SocketOK, Claimed, ReadyIsOwn, Launchers
<1>2. QED
  BY <1>1, WsbInvariant, PTL

\* A launcher that exits leaves nothing of its own behind, however launches
\* overlap and whoever is killed.
THEOREM WsbCleanExit == Spec => []CleanExit
<1>1. WsbInv => CleanExit
  BY DEF WsbInv, SandboxOK, CleanExit, Launchers
<1>2. QED
  BY <1>1, WsbInvariant, PTL
=============================================================================
