----------------------------- MODULE ExecProofs -----------------------------
(***************************************************************************)
(* Theorems about ExecServer, for every size of the pipe and any amount of *)
(* output: the inductive invariant, what it implies, and that a call       *)
(* implements RunCommand.                                                  *)
(***************************************************************************)
EXTENDS ExecServer, TLAPS

\* Types and control: one step of any goroutine, process or client keeps them.
LEMMA ControlStep ==
    TypeOK /\ ControlInv /\ [Next]_vars => TypeOK' /\ ControlInv'
<1> SUFFICES ASSUME TypeOK, ControlInv, [Next]_vars
             PROVE  TypeOK' /\ ControlInv'
  OBVIOUS
<1> USE DEF mainVars, goVars, chanVars, procVars, dataVars
<1>1. CASE ReceiveFirst
  BY <1>1 DEF TypeOK, ControlInv, ReceiveFirst, Goto, Return
<1>2. CASE StartCommand
  BY <1>2 DEF TypeOK, ControlInv, StartCommand, Goto, Return
<1>3. CASE SendStarted
  BY <1>3 DEF TypeOK, ControlInv, SendStarted, Goto
<1>4. CASE SendStartedFails
  BY <1>4 DEF TypeOK, ControlInv, SendStartedFails, Goto, KillGroup
<1>5. CASE ReapAndReturn
  BY <1>5 DEF TypeOK, ControlInv, ReapAndReturn, Return
<1>6. CASE ReadChunk
  BY <1>6 DEF TypeOK, ControlInv, ReadChunk, Goto
<1>7. CASE ReadEnd
  BY <1>7 DEF TypeOK, ControlInv, ReadEnd, Goto, PipeOpen
<1>8. CASE SendChunk
  BY <1>8 DEF TypeOK, ControlInv, SendChunk, Goto, AppendChunk
<1>9. CASE SendChunkFails
  BY <1>9 DEF TypeOK, ControlInv, SendChunkFails, Goto, KillGroup
<1>10. CASE FailReturn
  BY <1>10 DEF TypeOK, ControlInv, FailReturn, Return
<1>11. CASE TakeStatus
  BY <1>11 DEF TypeOK, ControlInv, TakeStatus, Goto, Return
<1>12. CASE SendExited
  BY <1>12 DEF TypeOK, ControlInv, SendExited, Return, ReportStatus
<1>13. CASE Reap
  BY <1>13 DEF TypeOK, ControlInv, Reap
<1>14. CASE CloseProcDone
  BY <1>14 DEF TypeOK, ControlInv, CloseProcDone
<1>15. CASE CleanUp
  BY <1>15 DEF TypeOK, ControlInv, CleanUp, KillRest, KillGroup
<1>16. CASE SetDeadline
  BY <1>16 DEF TypeOK, ControlInv, SetDeadline, SoonDeadline
<1>17. CASE DeadlinePasses
  BY <1>17 DEF TypeOK, ControlInv, DeadlinePasses, ShellOutput
<1>18. CASE ArmTimer
  BY <1>18 DEF TypeOK, ControlInv, ArmTimer, StartTimer
<1>19. CASE KillNow
  BY <1>19 DEF TypeOK, ControlInv, KillNow, KillGroup
<1>20. CASE ReportViolation
  BY <1>20 DEF TypeOK, ControlInv, ReportViolation
<1>21. CASE ReceiveBroken
  BY <1>21 DEF TypeOK, ControlInv, ReceiveBroken
<1>22. CASE KillBroken
  BY <1>22 DEF TypeOK, ControlInv, KillBroken, KillGroup
<1>23. CASE TimerFires
  <2>0. grace' \in BOOLEAN
    BY <1>23 DEF TimerFires
  <2>1. CASE KillGroup
    BY <1>23, <2>1, <2>0 DEF TypeOK, ControlInv, TimerFires, KillGroup
  <2>2. CASE procDone /\ UNCHANGED procVars
    BY <1>23, <2>2, <2>0 DEF TypeOK, ControlInv, TimerFires, KillGroup
  <2>3. QED
    BY <1>23, <2>1, <2>2 DEF TimerFires
<1>24. CASE Watch
  BY <1>24 DEF TypeOK, ControlInv, Watch, KillGroup
<1>25. CASE ReceiveTerminate("grace")
  BY <1>25 DEF TypeOK, ControlInv, ReceiveTerminate
<1>26. CASE ReceiveTerminate("now")
  BY <1>26 DEF TypeOK, ControlInv, ReceiveTerminate
<1>27. CASE ReceiveOther
  BY <1>27 DEF TypeOK, ControlInv, ReceiveOther, KillGroup
<1>28. CASE ReceiveEOF
  BY <1>28 DEF TypeOK, ControlInv, ReceiveEOF
<1>29. CASE Disconnect
  BY <1>29 DEF TypeOK, ControlInv, Disconnect
<1>30. CASE LeaderExits /\ UNCHANGED <<mainVars, goVars, chanVars, dataVars>>
  BY <1>30 DEF TypeOK, ControlInv, LeaderExits
<1>31. CASE Forks /\ UNCHANGED <<mainVars, goVars, chanVars, dataVars>>
  BY <1>31 DEF TypeOK, ControlInv, Forks
<1>32. CASE MemberExits /\ UNCHANGED <<mainVars, goVars, chanVars, dataVars>>
  BY <1>32 DEF TypeOK, ControlInv, MemberExits
<1>33. CASE Escapes /\ UNCHANGED <<mainVars, goVars, chanVars, dataVars>>
  BY <1>33 DEF TypeOK, ControlInv, Escapes
<1>34. CASE EscapedExits /\ UNCHANGED <<mainVars, goVars, chanVars, dataVars>>
  BY <1>34 DEF TypeOK, ControlInv, EscapedExits
<1>35. CASE ShellWrites
  BY <1>35 DEF TypeOK, ControlInv, ShellWrites
<1>36. CASE OtherWrites
  BY <1>36 DEF TypeOK, ControlInv, OtherWrites
<1>37. CASE UNCHANGED vars
  BY <1>37 DEF TypeOK, ControlInv, vars
<1>38. QED
  BY <1>1, <1>2, <1>3, <1>4, <1>5, <1>6, <1>7, <1>8, <1>9, <1>10, <1>11, <1>12,
     <1>13, <1>14, <1>15, <1>16, <1>17, <1>18, <1>19, <1>20, <1>21, <1>22,
     <1>23, <1>24, <1>25, <1>26, <1>27, <1>28, <1>29, <1>30, <1>31, <1>32,
     <1>33, <1>34, <1>35, <1>36, <1>37 DEF Next, MainStep, WaitStep, RecvStep,
     ClientStep, ProcessStep, Finished

\* The output: nothing is lost, repeated or reordered on its way.
LEMMA DataStep ==
    TypeOK /\ ControlInv /\ DataInv /\ [Next]_vars => DataInv'
<1> SUFFICES ASSUME TypeOK, ControlInv, DataInv, [Next]_vars
             PROVE  DataInv'
  OBVIOUS
<1> USE DEF mainVars, goVars, chanVars, procVars, dataVars
<1>1. CASE ReceiveFirst
  BY <1>1 DEF TypeOK, ControlInv, DataInv, LastRead, ReceiveFirst, Goto, Return
<1>2. CASE StartCommand
  BY <1>2 DEF TypeOK, ControlInv, DataInv, LastRead, StartCommand, Goto, Return
<1>3. CASE SendStarted
  BY <1>3 DEF TypeOK, ControlInv, DataInv, LastRead, SendStarted, Goto
<1>4. CASE SendStartedFails
  BY <1>4 DEF TypeOK, ControlInv, DataInv, LastRead, SendStartedFails, Goto,
     KillGroup
<1>5. CASE ReapAndReturn
  BY <1>5 DEF TypeOK, ControlInv, DataInv, LastRead, ReapAndReturn, Return
<1>6. CASE ReadChunk
  <2>1. pipe \in Seq(Nat) /\ Len(pipe) \in Nat /\ Len(pipe) > 0 /\ pipe[1] \in Nat
    BY <1>6 DEF ReadChunk, TypeOK
  <2>2. Len(pipe') = Len(pipe) - 1 /\ \A i \in 1..Len(pipe') : pipe'[i] = pipe[i + 1]
    BY <1>6, <2>1 DEF ReadChunk
  <2>3. chunk = 0 /\ chunk' = pipe[1] /\ mainPC' = "send"
    BY <1>6, <2>1 DEF ReadChunk, Goto, DataInv
  <2>4. pipe[1] # 0 => pipe[1] = sent + 1
    <3>1. ASSUME pipe[1] # 0, pipe[1] # sent + 1 PROVE FALSE
      <4>1. PICK i \in 1..Len(pipe) : pipe[i] = sent + 1
        BY <2>1, <2>3, <3>1 DEF DataInv, LastRead, TypeOK
      <4>2. 1 < i => pipe[1] < pipe[i]
        BY <2>1, <3>1, <4>1 DEF DataInv, TypeOK
      <4>3. QED
        BY <2>1, <2>3, <3>1, <4>1, <4>2 DEF DataInv, LastRead, TypeOK
    <3>2. QED
      BY <3>1
  <2>5. written' = written /\ sent' = sent
    BY <1>6 DEF ReadChunk
  <2>6. LastRead' <= written' /\ (chunk' # 0 => chunk' = sent' + 1)
    BY <2>1, <2>3, <2>4, <2>5 DEF DataInv, LastRead, TypeOK
  <2>7. LastRead' = IF pipe[1] # 0 THEN pipe[1] ELSE LastRead
    BY <2>3, <2>5 DEF LastRead
  <2>8. \A i \in 1..Len(pipe') :
             pipe'[i] # 0 => LastRead' < pipe'[i] /\ pipe'[i] <= written'
    <3> SUFFICES ASSUME NEW i \in 1..Len(pipe'), pipe'[i] # 0
                 PROVE  LastRead' < pipe'[i] /\ pipe'[i] <= written'
      OBVIOUS
    <3>1. i + 1 \in 1..Len(pipe) /\ pipe'[i] = pipe[i + 1]
      BY <2>1, <2>2
    <3>2. LastRead < pipe[i + 1] /\ pipe[i + 1] <= written
      BY <3>1 DEF DataInv
    <3>3. pipe[1] # 0 => pipe[1] < pipe[i + 1]
      BY <2>1, <3>1 DEF DataInv
    <3>4. QED
      BY <2>5, <2>7, <3>1, <3>2, <3>3
  <2>9. \A i, j \in 1..Len(pipe') :
             i < j /\ pipe'[i] # 0 /\ pipe'[j] # 0 => pipe'[i] < pipe'[j]
    <3> SUFFICES ASSUME NEW i \in 1..Len(pipe'), NEW j \in 1..Len(pipe'),
                        i < j, pipe'[i] # 0, pipe'[j] # 0
                 PROVE  pipe'[i] < pipe'[j]
      OBVIOUS
    <3>1. i + 1 \in 1..Len(pipe) /\ j + 1 \in 1..Len(pipe) /\ i + 1 < j + 1
      BY <2>1, <2>2
    <3>2. pipe'[i] = pipe[i + 1] /\ pipe'[j] = pipe[j + 1]
      BY <2>2
    <3>3. QED
      BY <3>1, <3>2 DEF DataInv
  <2>10. \A n \in LastRead' + 1 .. written' : \E i \in 1..Len(pipe') : pipe'[i] = n
    <3> SUFFICES ASSUME NEW n \in LastRead' + 1 .. written'
                 PROVE  \E i \in 1..Len(pipe') : pipe'[i] = n
      OBVIOUS
    <3>1. n \in LastRead + 1 .. written /\ n # pipe[1]
      BY <2>1, <2>3, <2>4, <2>5, <2>7 DEF LastRead, TypeOK
    <3>2. PICK i \in 1..Len(pipe) : pipe[i] = n
      BY <3>1 DEF DataInv
    <3>3. i - 1 \in 1..Len(pipe') /\ pipe'[i - 1] = n
      BY <2>1, <2>2, <3>1, <3>2
    <3>4. QED
      BY <3>3
  <2>11. QED
    BY <2>3, <2>6, <2>8, <2>9, <2>10 DEF DataInv
<1>7. CASE ReadEnd
  BY <1>7 DEF TypeOK, ControlInv, DataInv, LastRead, ReadEnd, Goto, PipeOpen
<1>8. CASE SendChunk
  BY <1>8 DEF TypeOK, ControlInv, DataInv, LastRead, SendChunk, Goto,
     AppendChunk
<1>9. CASE SendChunkFails
  BY <1>9 DEF TypeOK, ControlInv, DataInv, LastRead, SendChunkFails, Goto,
     KillGroup
<1>10. CASE FailReturn
  BY <1>10 DEF TypeOK, ControlInv, DataInv, LastRead, FailReturn, Return
<1>11. CASE TakeStatus
  BY <1>11 DEF TypeOK, ControlInv, DataInv, LastRead, TakeStatus, Goto, Return
<1>12. CASE SendExited
  BY <1>12 DEF TypeOK, ControlInv, DataInv, LastRead, SendExited, Return,
     ReportStatus
<1>13. CASE Reap
  BY <1>13 DEF TypeOK, ControlInv, DataInv, LastRead, Reap
<1>14. CASE CloseProcDone
  BY <1>14 DEF TypeOK, ControlInv, DataInv, LastRead, CloseProcDone
<1>15. CASE CleanUp
  BY <1>15 DEF TypeOK, ControlInv, DataInv, LastRead, CleanUp, KillRest,
     KillGroup
<1>16. CASE SetDeadline
  BY <1>16 DEF TypeOK, ControlInv, DataInv, LastRead, SetDeadline, SoonDeadline
<1>17. CASE DeadlinePasses
  BY <1>17 DEF TypeOK, ControlInv, DataInv, LastRead, DeadlinePasses,
     ShellOutput
<1>18. CASE ArmTimer
  BY <1>18 DEF TypeOK, ControlInv, DataInv, LastRead, ArmTimer, StartTimer
<1>19. CASE KillNow
  BY <1>19 DEF TypeOK, ControlInv, DataInv, LastRead, KillNow, KillGroup
<1>20. CASE ReportViolation
  BY <1>20 DEF TypeOK, ControlInv, DataInv, LastRead, ReportViolation
<1>21. CASE ReceiveBroken
  BY <1>21 DEF TypeOK, ControlInv, DataInv, LastRead, ReceiveBroken
<1>22. CASE KillBroken
  BY <1>22 DEF TypeOK, ControlInv, DataInv, LastRead, KillBroken, KillGroup
<1>23. CASE TimerFires
  <2>1. CASE KillGroup
    BY <1>23, <2>1 DEF TypeOK, ControlInv, DataInv, LastRead, TimerFires,
       KillGroup
  <2>2. CASE procDone /\ UNCHANGED procVars
    BY <1>23, <2>2 DEF TypeOK, ControlInv, DataInv, LastRead, TimerFires,
       KillGroup
  <2>3. QED
    BY <1>23, <2>1, <2>2 DEF TimerFires
<1>24. CASE Watch
  BY <1>24 DEF TypeOK, ControlInv, DataInv, LastRead, Watch, KillGroup
<1>25. CASE ReceiveTerminate("grace")
  BY <1>25 DEF TypeOK, ControlInv, DataInv, LastRead, ReceiveTerminate
<1>26. CASE ReceiveTerminate("now")
  BY <1>26 DEF TypeOK, ControlInv, DataInv, LastRead, ReceiveTerminate
<1>27. CASE ReceiveOther
  BY <1>27 DEF TypeOK, ControlInv, DataInv, LastRead, ReceiveOther, KillGroup
<1>28. CASE ReceiveEOF
  BY <1>28 DEF TypeOK, ControlInv, DataInv, LastRead, ReceiveEOF
<1>29. CASE Disconnect
  BY <1>29 DEF TypeOK, ControlInv, DataInv, LastRead, Disconnect
<1>30. CASE LeaderExits /\ UNCHANGED <<mainVars, goVars, chanVars, dataVars>>
  BY <1>30 DEF TypeOK, ControlInv, DataInv, LastRead, LeaderExits
<1>31. CASE Forks /\ UNCHANGED <<mainVars, goVars, chanVars, dataVars>>
  BY <1>31 DEF TypeOK, ControlInv, DataInv, LastRead, Forks
<1>32. CASE MemberExits /\ UNCHANGED <<mainVars, goVars, chanVars, dataVars>>
  BY <1>32 DEF TypeOK, ControlInv, DataInv, LastRead, MemberExits
<1>33. CASE Escapes /\ UNCHANGED <<mainVars, goVars, chanVars, dataVars>>
  BY <1>33 DEF TypeOK, ControlInv, DataInv, LastRead, Escapes
<1>34. CASE EscapedExits /\ UNCHANGED <<mainVars, goVars, chanVars, dataVars>>
  BY <1>34 DEF TypeOK, ControlInv, DataInv, LastRead, EscapedExits
<1>35. CASE ShellWrites
  BY <1>35 DEF TypeOK, ControlInv, DataInv, LastRead, ShellWrites
<1>36. CASE OtherWrites
  BY <1>36 DEF TypeOK, ControlInv, DataInv, LastRead, OtherWrites
<1>37. CASE UNCHANGED vars
  BY <1>37 DEF TypeOK, ControlInv, DataInv, LastRead, vars
<1>38. QED
  BY <1>1, <1>2, <1>3, <1>4, <1>5, <1>6, <1>7, <1>8, <1>9, <1>10, <1>11, <1>12,
     <1>13, <1>14, <1>15, <1>16, <1>17, <1>18, <1>19, <1>20, <1>21, <1>22,
     <1>23, <1>24, <1>25, <1>26, <1>27, <1>28, <1>29, <1>30, <1>31, <1>32,
     <1>33, <1>34, <1>35, <1>36, <1>37 DEF Next, MainStep, WaitStep, RecvStep,
     ClientStep, ProcessStep, Finished

\* A prompt client has all of the output when the handler leaves the loop.
LEMMA PromptStep ==
    ~SlowClient /\ TypeOK /\ ControlInv /\ DataInv /\ PromptInv /\ [Next]_vars => PromptInv'
<1> SUFFICES ASSUME ~SlowClient, TypeOK, ControlInv, DataInv, PromptInv, [Next]_vars
             PROVE  PromptInv'
  OBVIOUS
<1> USE DEF mainVars, goVars, chanVars, procVars, dataVars
<1>1. CASE ReceiveFirst
  BY <1>1 DEF TypeOK, ControlInv, DataInv, PromptInv, LastRead, ReceiveFirst,
     Goto, Return
<1>2. CASE StartCommand
  BY <1>2 DEF TypeOK, ControlInv, DataInv, PromptInv, LastRead, StartCommand,
     Goto, Return
<1>3. CASE SendStarted
  BY <1>3 DEF TypeOK, ControlInv, DataInv, PromptInv, LastRead, SendStarted,
     Goto
<1>4. CASE SendStartedFails
  BY <1>4 DEF TypeOK, ControlInv, DataInv, PromptInv, LastRead,
     SendStartedFails, Goto, KillGroup
<1>5. CASE ReapAndReturn
  BY <1>5 DEF TypeOK, ControlInv, DataInv, PromptInv, LastRead, ReapAndReturn,
     Return
<1>6. CASE ReadChunk
  BY <1>6 DEF TypeOK, ControlInv, DataInv, PromptInv, LastRead, ReadChunk, Goto
<1>7. CASE ReadEnd
  BY <1>7 DEF TypeOK, ControlInv, DataInv, PromptInv, LastRead, ReadEnd, Goto,
     PipeOpen
<1>8. CASE SendChunk
  BY <1>8 DEF TypeOK, ControlInv, DataInv, PromptInv, LastRead, SendChunk, Goto,
     AppendChunk
<1>9. CASE SendChunkFails
  BY <1>9 DEF TypeOK, ControlInv, DataInv, PromptInv, LastRead, SendChunkFails,
     Goto, KillGroup
<1>10. CASE FailReturn
  BY <1>10 DEF TypeOK, ControlInv, DataInv, PromptInv, LastRead, FailReturn,
     Return
<1>11. CASE TakeStatus
  BY <1>11 DEF TypeOK, ControlInv, DataInv, PromptInv, LastRead, TakeStatus,
     Goto, Return
<1>12. CASE SendExited
  BY <1>12 DEF TypeOK, ControlInv, DataInv, PromptInv, LastRead, SendExited,
     Return, ReportStatus
<1>13. CASE Reap
  BY <1>13 DEF TypeOK, ControlInv, DataInv, PromptInv, LastRead, Reap
<1>14. CASE CloseProcDone
  BY <1>14 DEF TypeOK, ControlInv, DataInv, PromptInv, LastRead, CloseProcDone
<1>15. CASE CleanUp
  BY <1>15 DEF TypeOK, ControlInv, DataInv, PromptInv, LastRead, CleanUp,
     KillRest, KillGroup
<1>16. CASE SetDeadline
  BY <1>16 DEF TypeOK, ControlInv, DataInv, PromptInv, LastRead, SetDeadline,
     SoonDeadline
<1>17. CASE DeadlinePasses
  BY <1>17 DEF TypeOK, ControlInv, DataInv, PromptInv, LastRead, DeadlinePasses,
     ShellOutput
<1>18. CASE ArmTimer
  BY <1>18 DEF TypeOK, ControlInv, DataInv, PromptInv, LastRead, ArmTimer,
     StartTimer
<1>19. CASE KillNow
  BY <1>19 DEF TypeOK, ControlInv, DataInv, PromptInv, LastRead, KillNow,
     KillGroup
<1>20. CASE ReportViolation
  BY <1>20 DEF TypeOK, ControlInv, DataInv, PromptInv, LastRead, ReportViolation
<1>21. CASE ReceiveBroken
  BY <1>21 DEF TypeOK, ControlInv, DataInv, PromptInv, LastRead, ReceiveBroken
<1>22. CASE KillBroken
  BY <1>22 DEF TypeOK, ControlInv, DataInv, PromptInv, LastRead, KillBroken,
     KillGroup
<1>23. CASE TimerFires
  <2>1. CASE KillGroup
    BY <1>23, <2>1 DEF TypeOK, ControlInv, DataInv, PromptInv, LastRead,
       TimerFires, KillGroup
  <2>2. CASE procDone /\ UNCHANGED procVars
    BY <1>23, <2>2 DEF TypeOK, ControlInv, DataInv, PromptInv, LastRead,
       TimerFires, KillGroup
  <2>3. QED
    BY <1>23, <2>1, <2>2 DEF TimerFires
<1>24. CASE Watch
  BY <1>24 DEF TypeOK, ControlInv, DataInv, PromptInv, LastRead, Watch,
     KillGroup
<1>25. CASE ReceiveTerminate("grace")
  BY <1>25 DEF TypeOK, ControlInv, DataInv, PromptInv, LastRead,
     ReceiveTerminate
<1>26. CASE ReceiveTerminate("now")
  BY <1>26 DEF TypeOK, ControlInv, DataInv, PromptInv, LastRead,
     ReceiveTerminate
<1>27. CASE ReceiveOther
  BY <1>27 DEF TypeOK, ControlInv, DataInv, PromptInv, LastRead, ReceiveOther,
     KillGroup
<1>28. CASE ReceiveEOF
  BY <1>28 DEF TypeOK, ControlInv, DataInv, PromptInv, LastRead, ReceiveEOF
<1>29. CASE Disconnect
  BY <1>29 DEF TypeOK, ControlInv, DataInv, PromptInv, LastRead, Disconnect
<1>30. CASE LeaderExits /\ UNCHANGED <<mainVars, goVars, chanVars, dataVars>>
  BY <1>30 DEF TypeOK, ControlInv, DataInv, PromptInv, LastRead, LeaderExits
<1>31. CASE Forks /\ UNCHANGED <<mainVars, goVars, chanVars, dataVars>>
  BY <1>31 DEF TypeOK, ControlInv, DataInv, PromptInv, LastRead, Forks
<1>32. CASE MemberExits /\ UNCHANGED <<mainVars, goVars, chanVars, dataVars>>
  BY <1>32 DEF TypeOK, ControlInv, DataInv, PromptInv, LastRead, MemberExits
<1>33. CASE Escapes /\ UNCHANGED <<mainVars, goVars, chanVars, dataVars>>
  BY <1>33 DEF TypeOK, ControlInv, DataInv, PromptInv, LastRead, Escapes
<1>34. CASE EscapedExits /\ UNCHANGED <<mainVars, goVars, chanVars, dataVars>>
  BY <1>34 DEF TypeOK, ControlInv, DataInv, PromptInv, LastRead, EscapedExits
<1>35. CASE ShellWrites
  BY <1>35 DEF TypeOK, ControlInv, DataInv, PromptInv, LastRead, ShellWrites
<1>36. CASE OtherWrites
  BY <1>36 DEF TypeOK, ControlInv, DataInv, PromptInv, LastRead, OtherWrites
<1>37. CASE UNCHANGED vars
  BY <1>37 DEF TypeOK, ControlInv, DataInv, PromptInv, LastRead, vars
<1>38. QED
  BY <1>1, <1>2, <1>3, <1>4, <1>5, <1>6, <1>7, <1>8, <1>9, <1>10, <1>11, <1>12,
     <1>13, <1>14, <1>15, <1>16, <1>17, <1>18, <1>19, <1>20, <1>21, <1>22,
     <1>23, <1>24, <1>25, <1>26, <1>27, <1>28, <1>29, <1>30, <1>31, <1>32,
     <1>33, <1>34, <1>35, <1>36, <1>37 DEF Next, MainStep, WaitStep, RecvStep,
     ClientStep, ProcessStep, Finished

\* Every state of a call satisfies the inductive invariant.
THEOREM ExecInvariant == Spec => []ExecInv
<1>1. Init => ExecInv
  <2> SUFFICES ASSUME Init
               PROVE  ExecInv
    OBVIOUS
  <2>1. TypeOK
    <3>1. pipe \in Seq(Nat) /\ chunk \in Nat /\ written \in Nat /\ sent \in Nat
      BY DEF Init
    <3>2. grace \in BOOLEAN /\ ctxDone \in BOOLEAN /\ procDone \in BOOLEAN
          /\ protoErr \in BOOLEAN
      BY DEF Init
    <3>3. QED
      BY <3>1, <3>2 DEF Init, TypeOK
  <2>2. ControlInv
    BY DEF Init, ControlInv
  <2>3. 1..Len(pipe) = {} /\ LastRead + 1 .. written = {}
    BY DEF Init, LastRead
  <2>4. DataInv /\ PromptInv
    BY <2>3 DEF Init, DataInv, LastRead, PromptInv
  <2>5. QED
    BY <2>1, <2>2, <2>4 DEF ExecInv
<1>2. ExecInv /\ [Next]_vars => ExecInv'
  BY ControlStep, DataStep, PromptStep DEF ExecInv
<1>3. QED
  BY <1>1, <1>2, PTL DEF Spec

\* However a call ends, nothing of its command is left in the process group.
THEOREM ExecGroupIsDead == Spec => []GroupIsDead
<1>1. ExecInv => GroupIsDead
  BY DEF ExecInv, ControlInv, GroupIsDead
<1>2. QED
  BY <1>1, ExecInvariant, PTL

\* With a client that takes what the pipe holds in time, an exit event comes
\* after all that the shell wrote.
THEOREM ExecOutputComplete == SlowClient = FALSE => (Spec => []OutputComplete)
<1> SUFFICES ASSUME SlowClient = FALSE
             PROVE  Spec => []OutputComplete
  OBVIOUS
<1>1. ExecInv => OutputComplete
  BY DEF ExecInv, PromptInv, OutputComplete
<1>2. QED
  BY <1>1, ExecInvariant, PTL

-----------------------------------------------------------------------------
(***************************************************************************)
(* The refinement.  What a step does is first stated of the expressions    *)
(* the variables of RunCommand stand for, then lifted to its functions.    *)
(***************************************************************************)
SameView == UNCHANGED <<CallPhase, CallCommand, CallBroken, verdict, written, sent>>

LEMMA LiftStutter == SameView => UNCHANGED Abstract!runVars
BY DEF SameView, Abstract!runVars

LEMMA LiftOpen ==
    ASSUME CallPhase = "idle",
           ~CallBroken,
           CallPhase' = "open",
           UNCHANGED <<CallCommand, CallBroken, verdict, written, sent>>
    PROVE  Abstract!RunNext
<1>1. Abstract!Open("this")
  BY DEF Abstract!Open, This
<1>2. QED
  BY <1>1 DEF Abstract!RunNext, This

LEMMA LiftReject ==
    ASSUME CallPhase = "idle",
           CallPhase' = "returned",
           verdict' = "error",
           CallBroken' = TRUE,
           UNCHANGED <<CallCommand, written, sent>>
    PROVE  Abstract!RunNext
<1>1. Abstract!Reject("this")
  BY DEF Abstract!Reject, This, Abstract!Return
<1>2. QED
  BY <1>1 DEF Abstract!RunNext, This

LEMMA LiftLaunch ==
    ASSUME CallPhase = "open",
           CallCommand = "none",
           CallCommand' = "alive",
           UNCHANGED <<CallPhase, CallBroken, verdict, written, sent>>
    PROVE  Abstract!RunNext
<1>1. Abstract!Launch("this")
  BY DEF Abstract!Launch, This
<1>2. QED
  BY <1>1 DEF Abstract!RunNext, This

LEMMA LiftLaunchFails ==
    ASSUME CallPhase = "open",
           CallCommand = "none",
           CallPhase' = "returned",
           verdict' = "failed",
           UNCHANGED <<CallCommand, CallBroken, written, sent>>
    PROVE  Abstract!RunNext
<1>1. Abstract!LaunchFails("this")
  BY DEF Abstract!LaunchFails, This, Abstract!Return
<1>2. QED
  BY <1>1 DEF Abstract!RunNext, This

LEMMA LiftProduce ==
    ASSUME CallCommand = "alive",
           written < MaxWrites,
           written' = written + 1,
           UNCHANGED <<CallPhase, CallCommand, CallBroken, verdict, sent>>
    PROVE  Abstract!RunNext
<1>1. Abstract!Produce("this")
  BY DEF Abstract!Produce, This
<1>2. QED
  BY <1>1 DEF Abstract!RunNext, This

LEMMA LiftDeliver ==
    ASSUME CallPhase = "open",
           sent < written,
           sent' = sent + 1,
           UNCHANGED <<CallPhase, CallCommand, CallBroken, verdict, written>>
    PROVE  Abstract!RunNext
<1>1. Abstract!Deliver("this")
  BY DEF Abstract!Deliver, This
<1>2. QED
  BY <1>1 DEF Abstract!RunNext, This

LEMMA LiftExit ==
    ASSUME CallCommand = "alive",
           CallCommand' \in {"ok", "failed"},
           UNCHANGED <<CallPhase, CallBroken, verdict, written, sent>>
    PROVE  Abstract!RunNext
<1>1. Abstract!Exit("this")
  BY DEF Abstract!Exit, This, Abstract!ExitStatus
<1>2. QED
  BY <1>1 DEF Abstract!RunNext, This

LEMMA LiftBreak ==
    ASSUME CallPhase # "returned",
           ~CallBroken,
           CallBroken' = TRUE,
           UNCHANGED CallCommand \/ (CallCommand = "alive" /\ CallCommand' \in {"ok", "failed"}),
           UNCHANGED <<CallPhase, verdict, written, sent>>
    PROVE  Abstract!RunNext
<1>1. Abstract!Break("this")
  BY DEF Abstract!Break, This, Abstract!ExitStatus
<1>2. QED
  BY <1>1 DEF Abstract!RunNext, This

LEMMA LiftAnswer ==
    ASSUME CallPhase = "open",
           CallCommand \in {"ok", "failed"},
           sent = written,
           CallPhase' = "returned",
           verdict' = CallCommand,
           UNCHANGED <<CallCommand, CallBroken, written, sent>>
    PROVE  Abstract!RunNext
<1>1. Abstract!Answer("this")
  BY DEF Abstract!Answer, This, Abstract!Return, Abstract!ExitStatus
<1>2. QED
  BY <1>1 DEF Abstract!RunNext, This

LEMMA LiftFail ==
    ASSUME CallPhase = "open",
           CallBroken,
           CallCommand # "alive",
           CallPhase' = "returned",
           verdict' = "error",
           UNCHANGED <<CallCommand, CallBroken, written, sent>>
    PROVE  Abstract!RunNext
<1>1. Abstract!Fail("this")
  BY DEF Abstract!Fail, This, Abstract!Return
<1>2. QED
  BY <1>1 DEF Abstract!RunNext, This

LEMMA InitRefines == Init => Abstract!RunInit
BY DEF Init, Abstract!RunInit, This, CallPhase, CallCommand, CallBroken

\* A SIGKILL to the group ends the command, if it was alive.
LEMMA KillView ==
    ASSUME TypeOK, ControlInv, KillGroup
    PROVE  \/ UNCHANGED CallCommand
           \/ CallCommand = "alive" /\ CallCommand' \in {"ok", "failed"}
BY DEF TypeOK, ControlInv, KillGroup, CallCommand

\* Every step of a call whose client is prompt is a step of RunCommand, or
\* none that RunCommand sees.
LEMMA StepRefines ==
    ~SlowClient /\ ExecInv /\ [Next]_vars => [Abstract!RunNext]_(Abstract!runVars)
<1> SUFFICES ASSUME ~SlowClient, TypeOK, ControlInv, DataInv, PromptInv, [Next]_vars
             PROVE  Abstract!RunNext \/ SameView
  BY LiftStutter DEF ExecInv
<1> USE DEF mainVars, goVars, chanVars, procVars, dataVars
<1>1. CASE ReceiveFirst
  <2>1. UNCHANGED <<CallCommand, written, sent>> /\ CallPhase = "idle"
    BY <1>1 DEF TypeOK, ControlInv, SameView, CallPhase, CallCommand, CallBroken,
       ReceiveFirst, Goto, Return
  <2>2. CASE ~ctxDone /\ Goto("spawn")
    <3>1. ~CallBroken /\ CallPhase' = "open" /\ UNCHANGED <<CallBroken, verdict>>
      BY <1>1, <2>2 DEF TypeOK, ControlInv, SameView, CallPhase, CallCommand,
         CallBroken, ReceiveFirst, Goto, Return
    <3>2. QED
      BY <2>1, <3>1, LiftOpen
  <2>3. CASE Return("error")
    <3>1. CallPhase' = "returned" /\ verdict' = "error" /\ CallBroken' = TRUE
      BY <1>1, <2>3 DEF TypeOK, ControlInv, SameView, CallPhase, CallCommand,
         CallBroken, ReceiveFirst, Goto, Return
    <3>2. QED
      BY <2>1, <3>1, LiftReject
  <2>4. QED
    BY <1>1, <2>2, <2>3 DEF ReceiveFirst
<1>2. CASE StartCommand
  <2>1. UNCHANGED <<written, sent>> /\ CallPhase = "open" /\ CallCommand = "none"
    BY <1>2 DEF TypeOK, ControlInv, SameView, CallPhase, CallCommand, CallBroken,
       StartCommand, Goto, Return
  <2>2. CASE leader' = "alive" /\ Goto("announce")
    <3>1. CallCommand' = "alive" /\ UNCHANGED <<CallPhase, CallBroken, verdict>>
      BY <1>2, <2>2 DEF TypeOK, ControlInv, SameView, CallPhase, CallCommand,
         CallBroken, StartCommand, Goto, Return
    <3>2. QED
      BY <2>1, <3>1, LiftLaunch
  <2>3. CASE Return("failed") /\ UNCHANGED leader
    <3>1. CallPhase' = "returned" /\ UNCHANGED <<CallCommand, CallBroken>>
      BY <1>2, <2>3 DEF TypeOK, ControlInv, SameView, CallPhase, CallCommand,
         CallBroken, StartCommand, Goto, Return
    <3>2. (~ctxDone /\ verdict' = "failed") \/ (CallBroken /\ verdict' = "error")
      BY <1>2, <2>3 DEF TypeOK, ControlInv, SameView, CallPhase, CallCommand,
         CallBroken, StartCommand, Goto, Return
    <3>3. QED
      BY <2>1, <3>1, <3>2, LiftLaunchFails, LiftFail
  <2>4. QED
    BY <1>2, <2>2, <2>3 DEF StartCommand
<1>3. CASE SendStarted
  BY <1>3 DEF TypeOK, ControlInv, SameView, CallPhase, CallCommand, CallBroken,
     SendStarted, Goto
<1>4. CASE SendStartedFails
  <2>1. UNCHANGED <<CallPhase, CallBroken, verdict, written, sent>>
    BY <1>4 DEF TypeOK, ControlInv, SameView, CallPhase, CallCommand, CallBroken,
       SendStartedFails, Goto, KillGroup
  <2>2. UNCHANGED CallCommand \/ (CallCommand = "alive" /\ CallCommand' \in {"ok", "failed"})
    BY <1>4, KillView DEF SendStartedFails
  <2>3. QED
    BY <2>1, <2>2, LiftExit DEF SameView
<1>5. CASE ReapAndReturn
  <2>1. CallPhase = "open" /\ CallBroken /\ CallCommand # "alive"
    BY <1>5 DEF TypeOK, ControlInv, SameView, CallPhase, CallCommand, CallBroken,
       ReapAndReturn, Return
  <2>2. CallPhase' = "returned" /\ verdict' = "error"
        /\ UNCHANGED <<CallCommand, CallBroken, written, sent>>
    BY <1>5 DEF TypeOK, ControlInv, SameView, CallPhase, CallCommand, CallBroken,
       ReapAndReturn, Return
  <2>3. QED
    BY <2>1, <2>2, LiftFail
<1>6. CASE ReadChunk
  BY <1>6 DEF TypeOK, ControlInv, SameView, CallPhase, CallCommand, CallBroken,
     ReadChunk, Goto
<1>7. CASE ReadEnd
  BY <1>7 DEF TypeOK, ControlInv, SameView, CallPhase, CallCommand, CallBroken,
     ReadEnd, Goto, PipeOpen
<1>8. CASE SendChunk
  <2>1. UNCHANGED <<CallPhase, CallCommand, CallBroken, verdict, written>>
        /\ CallPhase = "open"
    BY <1>8 DEF TypeOK, ControlInv, SameView, CallPhase, CallCommand, CallBroken,
       SendChunk, Goto, AppendChunk
  <2>2. CASE chunk # 0
    <3>1. sent < written /\ sent' = sent + 1
      BY <1>8, <2>2 DEF TypeOK, DataInv, LastRead, SendChunk, AppendChunk
    <3>2. QED
      BY <2>1, <3>1, LiftDeliver
  <2>3. CASE chunk = 0
    BY <1>8, <2>1, <2>3 DEF SendChunk, AppendChunk, SameView
  <2>4. QED
    BY <2>2, <2>3
<1>9. CASE SendChunkFails
  <2>1. UNCHANGED <<CallPhase, CallBroken, verdict, written, sent>>
    BY <1>9 DEF TypeOK, ControlInv, SameView, CallPhase, CallCommand, CallBroken,
       SendChunkFails, Goto, KillGroup
  <2>2. UNCHANGED CallCommand \/ (CallCommand = "alive" /\ CallCommand' \in {"ok", "failed"})
    BY <1>9, KillView DEF SendChunkFails
  <2>3. QED
    BY <2>1, <2>2, LiftExit DEF SameView
<1>10. CASE FailReturn
  <2>1. CallPhase = "open" /\ CallBroken /\ CallCommand # "alive"
    BY <1>10 DEF TypeOK, ControlInv, SameView, CallPhase, CallCommand, CallBroken,
       FailReturn, Return
  <2>2. CallPhase' = "returned" /\ verdict' = "error"
        /\ UNCHANGED <<CallCommand, CallBroken, written, sent>>
    BY <1>10 DEF TypeOK, ControlInv, SameView, CallPhase, CallCommand, CallBroken,
       FailReturn, Return
  <2>3. QED
    BY <2>1, <2>2, LiftFail
<1>11. CASE TakeStatus
  <2>1. CASE protoErr
    <3>1. CallPhase = "open" /\ CallBroken /\ CallCommand # "alive"
      BY <1>11, <2>1 DEF TypeOK, ControlInv, SameView, CallPhase, CallCommand,
         CallBroken, TakeStatus, Goto, Return
    <3>2. CallPhase' = "returned" /\ verdict' = "error"
          /\ UNCHANGED <<CallCommand, CallBroken, written, sent>>
      BY <1>11, <2>1 DEF TypeOK, ControlInv, SameView, CallPhase, CallCommand,
         CallBroken, TakeStatus, Goto, Return
    <3>3. QED
      BY <3>1, <3>2, LiftFail
  <2>2. CASE ~protoErr
    BY <1>11, <2>2 DEF TypeOK, ControlInv, SameView, CallPhase, CallCommand,
       CallBroken, TakeStatus, Goto, Return
  <2>3. QED
    BY <2>1, <2>2
<1>12. CASE SendExited
  <2>1. CallPhase = "open" /\ CallCommand = status /\ status \in {"ok", "failed"}
    BY <1>12 DEF TypeOK, ControlInv, SameView, CallPhase, CallCommand, CallBroken,
       SendExited, Return, ReportStatus
  <2>2. CallPhase' = "returned" /\ UNCHANGED <<CallCommand, CallBroken, written, sent>>
    BY <1>12 DEF TypeOK, ControlInv, SameView, CallPhase, CallCommand, CallBroken,
       SendExited, Return, ReportStatus
  <2>3. (verdict' = status /\ sent = written) \/ (CallBroken /\ verdict' = "error")
    BY <1>12 DEF TypeOK, ControlInv, SameView, CallPhase, CallCommand, CallBroken,
       SendExited, Return, ReportStatus, PromptInv
  <2>4. QED
    BY <2>1, <2>2, <2>3, LiftAnswer, LiftFail
<1>13. CASE Reap
  BY <1>13 DEF TypeOK, ControlInv, SameView, CallPhase, CallCommand, CallBroken,
     Reap
<1>14. CASE CloseProcDone
  BY <1>14 DEF TypeOK, ControlInv, SameView, CallPhase, CallCommand, CallBroken,
     CloseProcDone
<1>15. CASE CleanUp
  <2>1. UNCHANGED <<CallPhase, CallBroken, verdict, written, sent>>
    BY <1>15 DEF TypeOK, ControlInv, SameView, CallPhase, CallCommand, CallBroken,
       CleanUp, KillRest, KillGroup
  <2>2. UNCHANGED CallCommand \/ (CallCommand = "alive" /\ CallCommand' \in {"ok", "failed"})
    BY <1>15, KillView DEF CleanUp, KillRest
  <2>3. QED
    BY <2>1, <2>2, LiftExit DEF SameView
<1>16. CASE SetDeadline
  BY <1>16 DEF TypeOK, ControlInv, SameView, CallPhase, CallCommand, CallBroken,
     SetDeadline, SoonDeadline
<1>17. CASE DeadlinePasses
  BY <1>17 DEF TypeOK, ControlInv, SameView, CallPhase, CallCommand, CallBroken,
     DeadlinePasses, ShellOutput
<1>18. CASE ArmTimer
  BY <1>18 DEF TypeOK, ControlInv, SameView, CallPhase, CallCommand, CallBroken,
     ArmTimer, StartTimer
<1>19. CASE KillNow
  <2>1. UNCHANGED <<CallPhase, CallBroken, verdict, written, sent>>
    BY <1>19 DEF TypeOK, ControlInv, SameView, CallPhase, CallCommand, CallBroken,
       KillNow, KillGroup
  <2>2. UNCHANGED CallCommand \/ (CallCommand = "alive" /\ CallCommand' \in {"ok", "failed"})
    BY <1>19, KillView DEF KillNow
  <2>3. QED
    BY <2>1, <2>2, LiftExit DEF SameView
<1>20. CASE ReportViolation
  BY <1>20 DEF TypeOK, ControlInv, SameView, CallPhase, CallCommand, CallBroken,
     ReportViolation
<1>21. CASE ReceiveBroken
  BY <1>21 DEF TypeOK, ControlInv, SameView, CallPhase, CallCommand, CallBroken,
     ReceiveBroken
<1>22. CASE KillBroken
  <2>1. UNCHANGED <<CallPhase, CallBroken, verdict, written, sent>>
    BY <1>22 DEF TypeOK, ControlInv, SameView, CallPhase, CallCommand, CallBroken,
       KillBroken, KillGroup
  <2>2. UNCHANGED CallCommand \/ (CallCommand = "alive" /\ CallCommand' \in {"ok", "failed"})
    BY <1>22, KillView DEF KillBroken
  <2>3. QED
    BY <2>1, <2>2, LiftExit DEF SameView
<1>23. CASE TimerFires
  <2>1. UNCHANGED <<CallPhase, CallBroken, verdict, written, sent>>
    BY <1>23 DEF TypeOK, ControlInv, SameView, CallPhase, CallCommand, CallBroken,
       TimerFires, KillGroup
  <2>2. UNCHANGED CallCommand \/ (CallCommand = "alive" /\ CallCommand' \in {"ok", "failed"})
    BY <1>23, KillView DEF TimerFires, CallCommand
  <2>3. QED
    BY <2>1, <2>2, LiftExit DEF SameView
<1>24. CASE Watch
  <2>1. UNCHANGED <<CallPhase, CallBroken, verdict, written, sent>>
    BY <1>24 DEF TypeOK, ControlInv, SameView, CallPhase, CallCommand, CallBroken,
       Watch, KillGroup
  <2>2. UNCHANGED CallCommand \/ (CallCommand = "alive" /\ CallCommand' \in {"ok", "failed"})
    BY <1>24, KillView DEF Watch, CallCommand
  <2>3. QED
    BY <2>1, <2>2, LiftExit DEF SameView
<1>25. CASE ReceiveTerminate("grace")
  BY <1>25 DEF TypeOK, ControlInv, SameView, CallPhase, CallCommand, CallBroken,
     ReceiveTerminate
<1>26. CASE ReceiveTerminate("now")
  BY <1>26 DEF TypeOK, ControlInv, SameView, CallPhase, CallCommand, CallBroken,
     ReceiveTerminate
<1>27. CASE ReceiveOther
  <2>1. UNCHANGED <<CallPhase, verdict, written, sent>> /\ CallPhase # "returned"
        /\ CallBroken' = TRUE
    BY <1>27 DEF TypeOK, ControlInv, SameView, CallPhase, CallCommand, CallBroken,
       ReceiveOther, KillGroup
  <2>2. UNCHANGED CallCommand \/ (CallCommand = "alive" /\ CallCommand' \in {"ok", "failed"})
    BY <1>27, KillView DEF ReceiveOther
  <2>3. CASE ~CallBroken
    <3>1. CallBroken' = TRUE
      BY <2>1
    <3>2. QED
      BY <2>1, <2>2, <2>3, <3>1, LiftBreak, Zenon
  <2>4. CASE CallBroken
    <3>1. UNCHANGED CallBroken
      BY <2>1, <2>4 DEF CallBroken
    <3>2. QED
      BY <2>1, <2>2, <3>1, LiftExit DEF SameView
  <2>5. QED
    BY <2>3, <2>4
<1>28. CASE ReceiveEOF
  BY <1>28 DEF TypeOK, ControlInv, SameView, CallPhase, CallCommand, CallBroken,
     ReceiveEOF
<1>29. CASE Disconnect
  <2>1. UNCHANGED <<CallPhase, CallCommand, verdict, written, sent>>
        /\ CallPhase # "returned" /\ CallBroken' = TRUE
    BY <1>29 DEF TypeOK, ControlInv, SameView, CallPhase, CallCommand, CallBroken,
       Disconnect
  <2>2. CASE ~CallBroken
    <3>1. UNCHANGED <<CallPhase, verdict, written, sent>> /\ UNCHANGED CallCommand
      BY <2>1
    <3>2. QED
      BY <2>1, <2>2, <3>1, LiftBreak, Zenon
  <2>3. CASE CallBroken
    BY <2>1, <2>3 DEF CallBroken, SameView
  <2>4. QED
    BY <2>2, <2>3
<1>30. CASE LeaderExits /\ UNCHANGED <<mainVars, goVars, chanVars, dataVars>>
  <2>1. UNCHANGED <<CallPhase, CallBroken, verdict, written, sent>>
    BY <1>30 DEF TypeOK, ControlInv, SameView, CallPhase, CallCommand, CallBroken,
       LeaderExits
  <2>2. UNCHANGED CallCommand \/ (CallCommand = "alive" /\ CallCommand' \in {"ok", "failed"})
    BY <1>30 DEF TypeOK, ControlInv, SameView, CallPhase, CallCommand, CallBroken,
       LeaderExits
  <2>3. QED
    BY <2>1, <2>2, LiftExit DEF SameView
<1>31. CASE Forks /\ UNCHANGED <<mainVars, goVars, chanVars, dataVars>>
  BY <1>31 DEF TypeOK, ControlInv, SameView, CallPhase, CallCommand, CallBroken,
     Forks
<1>32. CASE MemberExits /\ UNCHANGED <<mainVars, goVars, chanVars, dataVars>>
  <2>1. UNCHANGED <<CallPhase, CallBroken, verdict, written, sent>>
    BY <1>32 DEF TypeOK, ControlInv, SameView, CallPhase, CallCommand, CallBroken,
       MemberExits
  <2>2. UNCHANGED CallCommand \/ (CallCommand = "alive" /\ CallCommand' \in {"ok", "failed"})
    BY <1>32 DEF TypeOK, ControlInv, SameView, CallPhase, CallCommand, CallBroken,
       MemberExits
  <2>3. QED
    BY <2>1, <2>2, LiftExit DEF SameView
<1>33. CASE Escapes /\ UNCHANGED <<mainVars, goVars, chanVars, dataVars>>
  BY <1>33 DEF TypeOK, ControlInv, SameView, CallPhase, CallCommand, CallBroken,
     Escapes
<1>34. CASE EscapedExits /\ UNCHANGED <<mainVars, goVars, chanVars, dataVars>>
  BY <1>34 DEF TypeOK, ControlInv, SameView, CallPhase, CallCommand, CallBroken,
     EscapedExits
<1>35. CASE ShellWrites
  <2>1. CallCommand = "alive" /\ written < MaxWrites /\ written' = written + 1
        /\ UNCHANGED <<CallPhase, CallCommand, CallBroken, verdict, sent>>
    BY <1>35 DEF TypeOK, ControlInv, SameView, CallPhase, CallCommand, CallBroken,
       ShellWrites
  <2>2. QED
    BY <2>1, LiftProduce
<1>36. CASE OtherWrites
  BY <1>36 DEF TypeOK, ControlInv, SameView, CallPhase, CallCommand, CallBroken,
     OtherWrites
<1>37. CASE UNCHANGED vars
  BY <1>37 DEF SameView, CallPhase, CallCommand, CallBroken, vars
<1>38. QED
  BY <1>1, <1>2, <1>3, <1>4, <1>5, <1>6, <1>7, <1>8, <1>9, <1>10, <1>11, <1>12,
     <1>13, <1>14, <1>15, <1>16, <1>17, <1>18, <1>19, <1>20, <1>21, <1>22,
     <1>23, <1>24, <1>25, <1>26, <1>27, <1>28, <1>29, <1>30, <1>31, <1>32,
     <1>33, <1>34, <1>35, <1>36, <1>37 DEF Next, MainStep, WaitStep, RecvStep,
     ClientStep, ProcessStep, Finished

\* A call with a prompt client does what RunCommand promises: its exit status
\* is the shell's own, comes after all of its output and when its group is
\* dead, and an error is only for a client that left or broke the protocol.
THEOREM ExecImplementsRunCommand == SlowClient = FALSE => (Spec => ImplementsRunCommand)
<1> SUFFICES ASSUME SlowClient = FALSE
             PROVE  Spec => ImplementsRunCommand
  OBVIOUS
<1>1. ExecInv /\ [Next]_vars => [Abstract!RunNext]_(Abstract!runVars)
  BY StepRefines
<1>2. QED
  BY <1>1, InitRefines, ExecInvariant, PTL DEF Spec, ImplementsRunCommand,
     Abstract!RunSpec
=============================================================================
