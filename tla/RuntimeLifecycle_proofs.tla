----------------------- MODULE RuntimeLifecycle_proofs -----------------------
(* What RuntimeLifecycle guarantees for every number of calls and attempts. *)
EXTENDS RuntimeLifecycle, TLAPS

USE CallsAssumption, BoundAssumption, ModeAssumption
USE DEF Attempts, MaybeAttempt, None

-----------------------------------------------------------------------------
(* Types. *)

\* The part of the type invariant about what Goto and Return assign.
CallTypes ==
  /\ pc \in [Calls -> Labels]
  /\ attempt \in [Calls -> MaybeAttempt]
  /\ attempts \in MaybeAttempt
  /\ answer \in [Calls -> Answers]

\* An answer without an artifact is an answer.
LEMMA SaidType == \A s \in Statuses : Said(s) \in Answers
BY DEF Said, Answers

\* Moving a call to another label keeps the types.
LEMMA GotoType ==
  ASSUME CallTypes, NEW c \in Calls, NEW l \in Labels, Goto(c, l)
  PROVE  CallTypes'
BY DEF CallTypes, Goto

\* Answering a call keeps the types.
LEMMA ReturnType ==
  ASSUME CallTypes, startMu \in Calls \cup {NoCall},
         NEW c \in Calls, NEW a \in Answers, Return(c, a)
  PROVE  CallTypes' /\ startMu' \in Calls \cup {NoCall}
<1>1. "idle" \in Labels
  BY DEF Labels
<1> QED
  BY <1>1 DEF CallTypes, Return

\* The labels and the statuses the handlers use.
LEMMA Vocabulary ==
  /\ {"idle", "lock", "checkRunner", "checkCancel", "callCancel", "clearCancel", "stopOld",
      "clearRunner", "build", "endpoints", "getRunner", "launch", "supervise", "report",
      "respond", "stopWatcher", "init", "initStopWatcher", "initSetup"} \subseteq Labels
  /\ {"none", "STARTED", "STOPPED", "INITIALIZED", "ERROR", "PANIC"} \subseteq Statuses
BY DEF Labels, StartLabels, StopLabels, InitLabels, TeardownLabels, Statuses

LEMMA TypeInit == Init => TypeOK
<1> SUFFICES ASSUME Init PROVE TypeOK
  OBVIOUS
<1>1. Said("none") \in Answers
  BY SaidType, Vocabulary
<1>2. CallTypes
  BY <1>1, Vocabulary DEF Init, CallTypes
<1> QED
  BY <1>2 DEF Init, TypeOK, CallTypes

\* An abandoned attempt keeps the types.
LEMMA AbandonType ==
  ASSUME TypeOK, NEW c \in Calls, NEW a \in Answers, Abandon(c, a)
  PROVE  /\ CallTypes' /\ startMu' \in Calls \cup {NoCall}
         /\ cancelled' \in [Attempts -> BOOLEAN] /\ runnerCancel' \in MaybeAttempt
<1>1. CallTypes' /\ startMu' \in Calls \cup {NoCall}
  BY ReturnType DEF Abandon, TypeOK, CallTypes
<1>2. cancelled' = [cancelled EXCEPT ![attempt[c]] = TRUE]
  BY DEF Abandon
<1>3. cancelled \in [Attempts -> BOOLEAN]
  BY DEF TypeOK
<1>4. cancelled' \in [Attempts -> BOOLEAN]
  BY <1>2, <1>3, Zenon
<1>5. runnerCancel' \in MaybeAttempt
  BY DEF Abandon
<1> QED
  BY <1>1, <1>4, <1>5

LEMMA TypeStep == TypeOK /\ [Next]_vars => TypeOK'
<1> SUFFICES ASSUME TypeOK, [Next]_vars PROVE TypeOK'
  OBVIOUS
<1>a. CallTypes
  BY DEF TypeOK, CallTypes
<1>b. \A s \in Statuses : Said(s) \in Answers
  BY SaidType
<1>c. \A c \in Calls, l \in Labels : Goto(c, l) => CallTypes'
  BY <1>a, GotoType
<1>d. \A c \in Calls, a \in Answers : Return(c, a) => CallTypes' /\ startMu' \in Calls \cup {NoCall}
  BY <1>a, ReturnType DEF TypeOK
<1> USE <1>a, <1>b, <1>c, <1>d, Vocabulary
    DEF TypeOK, CallTypes, fields, artifact, supervision, world, watching, call
<1>1. ASSUME NEW c \in Calls, CallStart(c) PROVE TypeOK'
  <2>1. attempts + 1 \in MaybeAttempt
    BY <1>1 DEF CallStart
  <2> QED
    BY <1>1, <2>1 DEF CallStart
<1>2. ASSUME NEW c \in Calls, CallStop(c) PROVE TypeOK'
  BY <1>2 DEF CallStop, CallOther
<1>3. ASSUME NEW c \in Calls, CallInit(c) PROVE TypeOK'
  BY <1>3 DEF CallInit, CallOther
<1>4. ASSUME NEW c \in Calls, CheckRunner(c) PROVE TypeOK'
  BY <1>4 DEF CheckRunner, AfterTeardown
<1>5. ASSUME NEW c \in Calls, CheckCancel(c) PROVE TypeOK'
  BY <1>5 DEF CheckCancel
<1>6. ASSUME NEW c \in Calls, CallCancel(c) PROVE TypeOK'
  BY <1>6 DEF CallCancel, Panic
<1>7. ASSUME NEW c \in Calls, ClearCancel(c) PROVE TypeOK'
  BY <1>7 DEF ClearCancel
<1>8. ASSUME NEW c \in Calls, StopOld(c) PROVE TypeOK'
  BY <1>8 DEF StopOld, Killed, Panic
<1>9. ASSUME NEW c \in Calls, ClearRunner(c) PROVE TypeOK'
  BY <1>9 DEF ClearRunner, AfterTeardown
<1>10. ASSUME NEW c \in Calls, Lock(c) PROVE TypeOK'
  BY <1>10 DEF Lock, LockFree
<1>11. ASSUME NEW c \in Calls, BuildBinary(c) PROVE TypeOK'
  BY <1>11 DEF BuildBinary
<1>12. ASSUME NEW c \in Calls, AddEndpoints(c) PROVE TypeOK'
  BY <1>12 DEF AddEndpoints
<1>13. ASSUME NEW c \in Calls, GetRunner(c) PROVE TypeOK'
  <2>1. CASE runner' = attempt[c] /\ Goto(c, "launch") /\ UNCHANGED <<startMu, runnerCancel, cancelled>>
    BY <1>13, <2>1 DEF GetRunner
  <2>2. CASE Abandon(c, Said("ERROR")) /\ UNCHANGED runner
    <3>1. /\ CallTypes' /\ startMu' \in Calls \cup {NoCall}
          /\ cancelled' \in [Attempts -> BOOLEAN] /\ runnerCancel' \in MaybeAttempt
      BY <2>2, AbandonType
    <3>3. UNCHANGED <<runner, process, image, artifact, supervision, watching>>
      BY <1>13, <2>2 DEF GetRunner
    <3> QED
      BY <3>1, <3>3
  <2> QED
    BY <1>13, <2>1, <2>2 DEF GetRunner
<1>14. ASSUME NEW c \in Calls, Launch(c) PROVE TypeOK'
  <2>1. CASE Abandon(c, Said("PANIC")) \/ Abandon(c, Said("ERROR"))
    <3>1. /\ CallTypes' /\ startMu' \in Calls \cup {NoCall}
          /\ cancelled' \in [Attempts -> BOOLEAN] /\ runnerCancel' \in MaybeAttempt
      BY <2>1, AbandonType
    <3>2. pc'[c] = "idle"
      BY <2>1 DEF Abandon, Return
    <3>3. ~Goto(c, "supervise")
      BY <3>2 DEF Goto
    <3>5. runner' \in MaybeAttempt /\ UNCHANGED <<process, image>>
      BY <1>14, <3>3 DEF Launch
    <3>4. UNCHANGED <<artifact, supervision, watching>>
      BY <1>14 DEF Launch
    <3> QED
      BY <3>1, <3>4, <3>5
  <2>2. CASE /\ runner # None
             /\ process' = [process EXCEPT ![runner] = "running"]
             /\ image' = [image EXCEPT ![runner] = binary]
             /\ Goto(c, "supervise")
             /\ UNCHANGED <<startMu, fields, cancelled>>
    <3>1. CallTypes'
      BY <2>2
    <3>2. UNCHANGED <<artifact, supervision, watching>>
      BY <1>14 DEF Launch
    <3> QED
      BY <2>2, <3>1, <3>2
  <2> QED
    BY <1>14, <2>1, <2>2 DEF Launch
<1>15. ASSUME NEW c \in Calls, Supervise(c) PROVE TypeOK'
  BY <1>15 DEF Supervise
<1>16. ASSUME NEW c \in Calls, ReportStartedArtifact(c) PROVE TypeOK'
  BY <1>16 DEF ReportStartedArtifact
<1>17. ASSUME NEW c \in Calls, StartResponse(c) PROVE TypeOK'
  <2>1. [status |-> "STARTED", build |-> report] \in Answers
    BY DEF Answers
  <2> QED
    BY <1>17, <2>1 DEF StartResponse
<1>18. ASSUME NEW c \in Calls, StopWatcher(c) PROVE TypeOK'
  BY <1>18 DEF StopWatcher
<1>19. ASSUME NEW c \in Calls, InitEnvironment(c) PROVE TypeOK'
  BY <1>19 DEF InitEnvironment
<1>20. ASSUME NEW c \in Calls, InitStopWatcher(c) PROVE TypeOK'
  BY <1>20 DEF InitStopWatcher
<1>21. ASSUME NEW c \in Calls, SetupWatcher(c) PROVE TypeOK'
  BY <1>21 DEF SetupWatcher
<1>22. ASSUME NEW p \in Attempts, WaitReturns(p) PROVE TypeOK'
  BY <1>22 DEF WaitReturns
<1>23. ASSUME NEW p \in Attempts, CheckContext(p) PROVE TypeOK'
  BY <1>23 DEF CheckContext
<1>24. ASSUME NEW p \in Attempts, MarkRunnerExited(p) PROVE TypeOK'
  BY <1>24 DEF MarkRunnerExited
<1>25. ASSUME NEW p \in Attempts, ProcessExits(p) PROVE TypeOK'
  BY <1>25 DEF ProcessExits
<1>26. CASE EventHandler \/ Poll
  BY <1>26 DEF EventHandler, Poll
<1>27. CASE UNCHANGED vars
  BY <1>27 DEF vars
<1> QED
  BY <1>1, <1>2, <1>3, <1>4, <1>5, <1>6, <1>7, <1>8, <1>9, <1>10, <1>11,
     <1>12, <1>13, <1>14, <1>15, <1>16, <1>17, <1>18, <1>19, <1>20, <1>21,
     <1>22, <1>23, <1>24, <1>25, <1>26, <1>27 DEF Next, Proceed, Teardown,
     Start, InitRuntime, Supervisor

-----------------------------------------------------------------------------
(* The lock, the label of its holder, the build at the path and the report. *)

LEMMA LockStep == TypeOK /\ LockInv /\ ReportInv /\ [Next]_vars => LockInv' /\ ReportInv'
<1> SUFFICES ASSUME TypeOK, LockInv, ReportInv, [Next]_vars PROVE LockInv' /\ ReportInv'
  OBVIOUS
<1> USE DEF TypeOK, LockInv, ReportInv, StartLabels, TeardownLabels, Linked, InStart, At, Goto,
            Return, Idle, InFlight, fields, artifact, supervision, world, watching, call
<1>1. ASSUME NEW c \in Calls, CallStart(c) PROVE LockInv' /\ ReportInv'
  BY <1>1 DEF CallStart
<1>2. ASSUME NEW c \in Calls, CallStop(c) PROVE LockInv' /\ ReportInv'
  BY <1>2 DEF CallStop, CallOther
<1>3. ASSUME NEW c \in Calls, CallInit(c) PROVE LockInv' /\ ReportInv'
  BY <1>3 DEF CallInit, CallOther
<1>4. ASSUME NEW c \in Calls, CheckRunner(c) PROVE LockInv' /\ ReportInv'
  BY <1>4 DEF CheckRunner, AfterTeardown
<1>5. ASSUME NEW c \in Calls, CheckCancel(c) PROVE LockInv' /\ ReportInv'
  BY <1>5 DEF CheckCancel
<1>6. ASSUME NEW c \in Calls, CallCancel(c) PROVE LockInv' /\ ReportInv'
  BY <1>6 DEF CallCancel, Panic
<1>7. ASSUME NEW c \in Calls, ClearCancel(c) PROVE LockInv' /\ ReportInv'
  BY <1>7 DEF ClearCancel
<1>8. ASSUME NEW c \in Calls, StopOld(c) PROVE LockInv' /\ ReportInv'
  BY <1>8 DEF StopOld, Killed, Panic
<1>9. ASSUME NEW c \in Calls, ClearRunner(c) PROVE LockInv' /\ ReportInv'
  BY <1>9 DEF ClearRunner, AfterTeardown
<1>10. ASSUME NEW c \in Calls, Lock(c) PROVE LockInv' /\ ReportInv'
  <2>1. \A d \in Calls : pc[d] \notin Linked
    BY <1>10 DEF Lock, LockFree
  <2>2. LockInv'
    <3> SUFFICES ASSUME NEW d \in Calls PROVE LockInv!(d)'
      OBVIOUS
    <3>1. CASE d = c
      BY <1>10, <2>1, <3>1 DEF Lock, LockFree
    <3>2. CASE d # c
      BY <1>10, <2>1, <3>2 DEF Lock, LockFree
    <3> QED
      BY <3>1, <3>2
  <2>3. ReportInv'
    BY <1>10, <2>1 DEF Lock
  <2> QED
    BY <2>2, <2>3
<1>11. ASSUME NEW c \in Calls, BuildBinary(c) PROVE LockInv' /\ ReportInv'
  BY <1>11 DEF BuildBinary
<1>12. ASSUME NEW c \in Calls, AddEndpoints(c) PROVE LockInv' /\ ReportInv'
  BY <1>12 DEF AddEndpoints
<1>13. ASSUME NEW c \in Calls, GetRunner(c) PROVE LockInv' /\ ReportInv'
  BY <1>13 DEF GetRunner, Abandon
<1>14. ASSUME NEW c \in Calls, Launch(c) PROVE LockInv' /\ ReportInv'
  BY <1>14 DEF Launch, Abandon
<1>15. ASSUME NEW c \in Calls, Supervise(c) PROVE LockInv' /\ ReportInv'
  BY <1>15 DEF Supervise
<1>16. ASSUME NEW c \in Calls, ReportStartedArtifact(c) PROVE LockInv' /\ ReportInv'
  BY <1>16 DEF ReportStartedArtifact
<1>17. ASSUME NEW c \in Calls, StartResponse(c) PROVE LockInv' /\ ReportInv'
  BY <1>17 DEF StartResponse
<1>18. ASSUME NEW c \in Calls, StopWatcher(c) PROVE LockInv' /\ ReportInv'
  BY <1>18 DEF StopWatcher
<1>19. ASSUME NEW c \in Calls, InitEnvironment(c) PROVE LockInv' /\ ReportInv'
  <2>1. ~InStart(c) /\ startMu # c
    BY <1>19 DEF InitEnvironment
  <2>2. \A d \in Calls : d # c => pc'[d] = pc[d] /\ attempt'[d] = attempt[d]
    BY <1>19 DEF InitEnvironment
  <2>3. pc'[c] \in {"idle", "initStopWatcher", "initSetup"} /\ attempt'[c] = None /\ startMu' = startMu
    BY <1>19, <2>1 DEF InitEnvironment
  <2>4. ~At(c, "respond") /\ UNCHANGED <<runner, binary, report, image>>
    BY <1>19 DEF InitEnvironment
  <2>5. LockInv'
    <3> SUFFICES ASSUME NEW d \in Calls PROVE LockInv!(d)'
      OBVIOUS
    <3>1. CASE d = c
      BY <2>1, <2>3, <2>4, <3>1
    <3>2. CASE d # c
      BY <2>2, <2>3, <2>4, <3>2
    <3> QED
      BY <3>1, <3>2
  <2>6. ReportInv'
    BY <2>2, <2>4
  <2> QED
    BY <2>5, <2>6
<1>20. ASSUME NEW c \in Calls, InitStopWatcher(c) PROVE LockInv' /\ ReportInv'
  <2>1. ~InStart(c) /\ startMu # c
    BY <1>20 DEF InitStopWatcher
  <2>2. \A d \in Calls : d # c => pc'[d] = pc[d] /\ attempt'[d] = attempt[d]
    BY <1>20 DEF InitStopWatcher
  <2>3. pc'[c] \in {"idle", "initStopWatcher", "initSetup"} /\ attempt'[c] = None /\ startMu' = startMu
    BY <1>20, <2>1 DEF InitStopWatcher
  <2>4. ~At(c, "respond") /\ UNCHANGED <<runner, binary, report, image>>
    BY <1>20 DEF InitStopWatcher
  <2>5. LockInv'
    <3> SUFFICES ASSUME NEW d \in Calls PROVE LockInv!(d)'
      OBVIOUS
    <3>1. CASE d = c
      BY <2>1, <2>3, <2>4, <3>1
    <3>2. CASE d # c
      BY <2>2, <2>3, <2>4, <3>2
    <3> QED
      BY <3>1, <3>2
  <2>6. ReportInv'
    BY <2>2, <2>4
  <2> QED
    BY <2>5, <2>6
<1>21. ASSUME NEW c \in Calls, SetupWatcher(c) PROVE LockInv' /\ ReportInv'
  BY <1>21 DEF SetupWatcher
<1>22. ASSUME NEW p \in Attempts, WaitReturns(p) PROVE LockInv' /\ ReportInv'
  BY <1>22 DEF WaitReturns
<1>23. ASSUME NEW p \in Attempts, CheckContext(p) PROVE LockInv' /\ ReportInv'
  BY <1>23 DEF CheckContext
<1>24. ASSUME NEW p \in Attempts, MarkRunnerExited(p) PROVE LockInv' /\ ReportInv'
  BY <1>24 DEF MarkRunnerExited
<1>25. ASSUME NEW p \in Attempts, ProcessExits(p) PROVE LockInv' /\ ReportInv'
  BY <1>25 DEF ProcessExits
<1>26. CASE EventHandler \/ Poll
  BY <1>26 DEF EventHandler, Poll
<1>27. CASE UNCHANGED vars
  BY <1>27 DEF vars
<1> QED
  BY <1>1, <1>2, <1>3, <1>4, <1>5, <1>6, <1>7, <1>8, <1>9, <1>10, <1>11,
     <1>12, <1>13, <1>14, <1>15, <1>16, <1>17, <1>18, <1>19, <1>20, <1>21,
     <1>22, <1>23, <1>24, <1>25, <1>26, <1>27 DEF Next, Proceed, Teardown,
     Start, InitRuntime, Supervisor

LEMMA ConsistentInit == Init => Consistent
<1> SUFFICES ASSUME Init PROVE Consistent
  OBVIOUS
<1>1. LockInv /\ ReportInv
  BY DEF Init, LockInv, ReportInv, StartLabels, TeardownLabels, Linked, InStart, At
<1> QED
  BY <1>1, TypeInit DEF Consistent

LEMMA ConsistentStep == Consistent /\ [Next]_vars => Consistent'
BY TypeStep, LockStep DEF Consistent

\* Between two steps the lock, the label of its holder, the build at the path
\* and the pending report always agree, Stop and Init overlapping or not.
THEOREM Consistency == Spec => []Consistent
BY ConsistentInit, ConsistentStep, PTL DEF Spec
-----------------------------------------------------------------------------
(* What is stamped on an answer. *)

\* An answer without an artifact says nothing about builds.
LEMMA PlainAnswer ==
  ASSUME TypeOK, NEW c \in Calls, NEW s \in Statuses \ {"STARTED"}, Return(c, Said(s))
  PROVE  \A d \in Calls : answer'[d] # answer[d] => AnswerFits(d)
<1>1. \A d \in Calls : d # c => answer'[d] = answer[d]
  BY DEF Return, TypeOK
<1>2. answer'[c] = Said(s)
  BY DEF Return, TypeOK
<1>3. AnswerFits(c)
  BY <1>2 DEF AnswerFits, Said
<1> QED
  BY <1>1, <1>3

LEMMA ReportStep ==
  Consistent /\ [Next]_vars => \A d \in Calls : answer'[d] # answer[d] => AnswerFits(d)
<1> DEFINE Fits == \A d \in Calls : answer'[d] # answer[d] => AnswerFits(d)
<1> SUFFICES ASSUME TypeOK, LockInv, [Next]_vars PROVE Fits
  BY DEF Consistent
<1>a. \A c \in Calls, s \in Statuses \ {"STARTED"} : Return(c, Said(s)) => Fits
  BY PlainAnswer
<1>b. \A c \in Calls : \A l : Goto(c, l) => Fits
  BY DEF Goto
<1>c. \A s \in {"none", "STOPPED", "INITIALIZED", "ERROR", "PANIC"} : s \in Statuses \ {"STARTED"}
  BY DEF Statuses
<1>d. \A c \in Calls : answer' = [answer EXCEPT ![c] = Said("none")] => Fits
  BY DEF AnswerFits, Said, TypeOK
<1>e. call' = call => Fits
  BY DEF call
<1> HIDE DEF Fits
<1>1. ASSUME NEW c \in Calls, CallStart(c) PROVE Fits
  BY <1>1, <1>d DEF CallStart
<1>2. ASSUME NEW c \in Calls, CallStop(c) PROVE Fits
  BY <1>2, <1>d DEF CallStop, CallOther
<1>3. ASSUME NEW c \in Calls, CallInit(c) PROVE Fits
  BY <1>3, <1>d DEF CallInit, CallOther
<1>4. ASSUME NEW c \in Calls, CheckRunner(c) PROVE Fits
  BY <1>4, <1>a, <1>b, <1>c DEF CheckRunner, AfterTeardown
<1>5. ASSUME NEW c \in Calls, CheckCancel(c) PROVE Fits
  BY <1>5, <1>a, <1>b, <1>c DEF CheckCancel
<1>6. ASSUME NEW c \in Calls, CallCancel(c) PROVE Fits
  BY <1>6, <1>a, <1>b, <1>c DEF CallCancel, Panic
<1>7. ASSUME NEW c \in Calls, ClearCancel(c) PROVE Fits
  BY <1>7, <1>a, <1>b, <1>c DEF ClearCancel
<1>8. ASSUME NEW c \in Calls, StopOld(c) PROVE Fits
  BY <1>8, <1>a, <1>b, <1>c DEF StopOld, Killed, Panic
<1>9. ASSUME NEW c \in Calls, ClearRunner(c) PROVE Fits
  BY <1>9, <1>a, <1>b, <1>c DEF ClearRunner, AfterTeardown
<1>10. ASSUME NEW c \in Calls, Lock(c) PROVE Fits
  BY <1>10, <1>a, <1>b, <1>c DEF Lock, LockFree
<1>11. ASSUME NEW c \in Calls, BuildBinary(c) PROVE Fits
  BY <1>11, <1>a, <1>b, <1>c DEF BuildBinary
<1>12. ASSUME NEW c \in Calls, AddEndpoints(c) PROVE Fits
  BY <1>12, <1>a, <1>b, <1>c DEF AddEndpoints
<1>13. ASSUME NEW c \in Calls, GetRunner(c) PROVE Fits
  BY <1>13, <1>a, <1>b, <1>c DEF GetRunner, Abandon
<1>14. ASSUME NEW c \in Calls, Launch(c) PROVE Fits
  BY <1>14, <1>a, <1>b, <1>c DEF Launch, Abandon
<1>15. ASSUME NEW c \in Calls, Supervise(c) PROVE Fits
  BY <1>15, <1>a, <1>b, <1>c DEF Supervise
<1>16. ASSUME NEW c \in Calls, ReportStartedArtifact(c) PROVE Fits
  BY <1>16, <1>a, <1>b, <1>c DEF ReportStartedArtifact
<1>17. ASSUME NEW c \in Calls, StartResponse(c) PROVE Fits
  <2>1. /\ InStart(c) /\ binary = attempt[c] /\ image[attempt[c]] = attempt[c]
        /\ report = IF Native THEN binary ELSE None
    BY <1>17 DEF StartResponse, LockInv, At, StartLabels, TeardownLabels, Linked
  <2>2. answer' = [answer EXCEPT ![c] = [status |-> "STARTED", build |-> report]] /\ binary' = binary
    BY <1>17 DEF StartResponse, Return
  <2>3. \A d \in Calls : d # c => answer'[d] = answer[d]
    BY <2>2 DEF TypeOK
  <2>4. answer'[c].build = report /\ answer'[c].status = "STARTED"
    BY <2>2 DEF TypeOK
  <2>5. AnswerFits(c)
    BY <2>1, <2>2, <2>4 DEF AnswerFits
  <2> QED
    BY <2>3, <2>5 DEF Fits
<1>18. ASSUME NEW c \in Calls, StopWatcher(c) PROVE Fits
  BY <1>18, <1>a, <1>b, <1>c DEF StopWatcher
<1>19. ASSUME NEW c \in Calls, InitEnvironment(c) PROVE Fits
  BY <1>19, <1>a, <1>b, <1>c DEF InitEnvironment
<1>20. ASSUME NEW c \in Calls, InitStopWatcher(c) PROVE Fits
  BY <1>20, <1>a, <1>b, <1>c DEF InitStopWatcher
<1>21. ASSUME NEW c \in Calls, SetupWatcher(c) PROVE Fits
  BY <1>21, <1>a, <1>b, <1>c DEF SetupWatcher
<1>22. ASSUME NEW p \in Attempts, WaitReturns(p) PROVE Fits
  BY <1>22, <1>e DEF WaitReturns
<1>23. ASSUME NEW p \in Attempts, CheckContext(p) PROVE Fits
  BY <1>23, <1>e DEF CheckContext
<1>24. ASSUME NEW p \in Attempts, MarkRunnerExited(p) PROVE Fits
  BY <1>24, <1>e DEF MarkRunnerExited
<1>25. ASSUME NEW p \in Attempts, ProcessExits(p) PROVE Fits
  BY <1>25, <1>e DEF ProcessExits
<1>26. CASE EventHandler \/ Poll
  BY <1>26, <1>e DEF EventHandler, Poll
<1>27. CASE UNCHANGED vars
  BY <1>27, <1>e DEF vars
<1>28. Fits
  BY <1>1, <1>2, <1>3, <1>4, <1>5, <1>6, <1>7, <1>8, <1>9, <1>10, <1>11,
     <1>12, <1>13, <1>14, <1>15, <1>16, <1>17, <1>18, <1>19, <1>20, <1>21,
     <1>22, <1>23, <1>24, <1>25, <1>26, <1>27 DEF Next, Proceed, Teardown,
     Start, InitRuntime, Supervisor
<1> QED
  BY <1>28 DEF Fits

\* A STARTED answer names the build of the process its own attempt launched and
\* every other answer names none, for any number of overlapping calls.
THEOREM ReportsAreTrue == Spec => ReportedIsLaunched
<1>1. Consistent /\ [Next]_vars =>
        [\A c \in Calls : answer'[c] # answer[c] => AnswerFits(c)]_vars
  BY ReportStep
<1> QED
  BY <1>1, Consistency, PTL DEF Spec, ReportedIsLaunched
-----------------------------------------------------------------------------
(* Somebody waits for every process. *)

\* Whatever became of a process once launched, it is accounted for.
Attending ==
  \A p \in Attempts : process[p] # "none" => p \in marked \/ cancelled[p] \/ Attended(p)

\* A step that launches nothing, moves no supervisor and revives no context.
LEMMA AttendingFrame ==
  ASSUME Attending, UNCHANGED supervision,
         \A p \in Attempts : process'[p] # "none" => process[p] # "none",
         \A p \in Attempts : cancelled[p] => cancelled'[p],
         \A c \in Calls : At(c, "supervise") => At(c, "supervise")' /\ attempt'[c] = attempt[c]
  PROVE  Attending'
BY DEF Attending, Attended, supervision

\* A call that is not about to leave a supervisor moves on or returns.
LEMMA MovesOn ==
  ASSUME TypeOK, NEW c \in Calls, ~At(c, "supervise"),
         (\E l : Goto(c, l)) \/ (\E a : Return(c, a))
  PROVE  \A d \in Calls : At(d, "supervise") => At(d, "supervise")' /\ attempt'[d] = attempt[d]
BY DEF TypeOK, Goto, Return, At

LEMMA AttendingCancel ==
  ASSUME TypeOK, NEW q \in Attempts, cancelled' = [cancelled EXCEPT ![q] = TRUE]
  PROVE  \A p \in Attempts : cancelled[p] => cancelled'[p]
<1>1. cancelled \in [Attempts -> BOOLEAN]
  BY DEF TypeOK
<1> QED
  BY <1>1

LEMMA AttendingTeardown ==
  ASSUME TypeOK, Attending, NEW c \in Calls, Teardown(c)
  PROVE  Attending'
<1>1. ~At(c, "supervise") /\ UNCHANGED supervision /\ ((\E l : Goto(c, l)) \/ (\E a : Return(c, a)))
  BY DEF Teardown, CheckRunner, CheckCancel, CallCancel, ClearCancel, StopOld, ClearRunner, At,
     AfterTeardown, Panic, supervision
<1>2. cancelled' = cancelled \/ \E q \in Attempts : cancelled' = [cancelled EXCEPT ![q] = TRUE]
  BY DEF Teardown, CheckRunner, CheckCancel, CallCancel, ClearCancel, StopOld, ClearRunner, world,
     TypeOK
<1>3. \A p \in Attempts : cancelled[p] => cancelled'[p]
  BY <1>2, AttendingCancel
<1>4. \A p \in Attempts : process'[p] # "none" => process[p] # "none"
  BY DEF Teardown, CheckRunner, CheckCancel, CallCancel, ClearCancel, StopOld, ClearRunner, Killed,
     world, TypeOK
<1> QED
  BY <1>1, <1>3, <1>4, MovesOn, AttendingFrame

\* The one step that launches a process is followed by Supervise of the same call.
LEMMA AttendingLaunch ==
  ASSUME TypeOK, LockInv, Attending, NEW c \in Calls, Launch(c)
  PROVE  Attending'
<1>1. /\ ~At(c, "supervise") /\ UNCHANGED supervision /\ attempt[c] \in Attempts
      /\ runner \in {None, attempt[c]}
  <2>1. pc[c] = "launch" /\ UNCHANGED supervision
    BY DEF Launch, At
  <2>2. InStart(c) /\ runner \in {None, attempt[c]}
    BY <2>1 DEF LockInv, At, StartLabels, TeardownLabels
  <2>3. attempt[c] \in MaybeAttempt
    BY DEF TypeOK
  <2> QED
    BY <2>1, <2>2, <2>3 DEF InStart, At
<1>2. CASE Abandon(c, Said("PANIC")) /\ UNCHANGED process
  <2>1. \A p \in Attempts : cancelled[p] => cancelled'[p]
    BY <1>1, <1>2, AttendingCancel DEF Abandon
  <2> QED
    BY <1>1, <1>2, <2>1, MovesOn, AttendingFrame DEF Abandon
<1>3. CASE Abandon(c, Said("ERROR")) /\ UNCHANGED process
  <2>1. \A p \in Attempts : cancelled[p] => cancelled'[p]
    BY <1>1, <1>3, AttendingCancel DEF Abandon
  <2> QED
    BY <1>1, <1>3, <2>1, MovesOn, AttendingFrame DEF Abandon
<1>4. CASE /\ runner # None /\ process' = [process EXCEPT ![runner] = "running"]
           /\ Goto(c, "supervise") /\ UNCHANGED cancelled
  <2>1. At(c, "supervise")' /\ attempt' = attempt
    BY <1>4 DEF Goto, At, TypeOK
  <2>2. \A p \in Attempts : p # attempt[c] => process'[p] = process[p]
    BY <1>1, <1>4 DEF TypeOK
  <2>3. \A d \in Calls : At(d, "supervise") => At(d, "supervise")' /\ attempt'[d] = attempt[d]
    BY <1>1, <1>4, MovesOn
  <2>4. \A p \in Attempts : Attended(p) => Attended(p)'
    BY <1>1, <2>3 DEF Attended, supervision
  <2> SUFFICES ASSUME NEW p \in Attempts, process'[p] # "none"
               PROVE  p \in marked' \/ cancelled'[p] \/ Attended(p)'
    BY DEF Attending
  <2>5. CASE p = attempt[c]
    BY <2>1, <2>5 DEF Attended
  <2>6. CASE p # attempt[c]
    <3>1. p \in marked \/ cancelled[p] \/ Attended(p)
      BY <2>2, <2>6 DEF Attending
    <3>2. marked' = marked /\ cancelled' = cancelled
      BY <1>1, <1>4 DEF supervision
    <3> QED
      BY <2>4, <3>1, <3>2
  <2> QED
    BY <2>5, <2>6
<1> QED
  BY <1>2, <1>3, <1>4 DEF Launch

\* A Start past the lock has an attempt.
LEMMA HasAttempt ==
  ASSUME TypeOK, LockInv, NEW c \in Calls, pc[c] \in {"getRunner", "supervise"}
  PROVE  attempt[c] \in Attempts
<1>1. pc[c] \in ({"lock"} \cup StartLabels) \ TeardownLabels
  BY DEF StartLabels, TeardownLabels
<1>2. attempt[c] # None
  BY <1>1 DEF LockInv, InStart
<1>3. attempt[c] \in MaybeAttempt
  BY DEF TypeOK
<1> QED
  BY <1>2, <1>3

LEMMA AttendingStart ==
  ASSUME TypeOK, LockInv, Attending, NEW c \in Calls, Start(c)
  PROVE  Attending'
<1>1. CASE Lock(c) \/ BuildBinary(c) \/ AddEndpoints(c) \/ ReportStartedArtifact(c) \/ StartResponse(c)
  <2>1. /\ ~At(c, "supervise") /\ UNCHANGED <<supervision, process, cancelled>>
        /\ (\E l : Goto(c, l)) \/ (\E a : Return(c, a))
    BY <1>1 DEF Lock, BuildBinary, AddEndpoints, ReportStartedArtifact, StartResponse, At, supervision,
       world
  <2> QED
    BY <2>1, MovesOn, AttendingFrame
<1>2. CASE GetRunner(c)
  <2>1. /\ ~At(c, "supervise") /\ UNCHANGED <<supervision, process>>
        /\ (\E l : Goto(c, l)) \/ (\E a : Return(c, a))
        /\ cancelled' = cancelled \/ cancelled' = [cancelled EXCEPT ![attempt[c]] = TRUE]
    BY <1>2 DEF GetRunner, Abandon, At, supervision
  <2>2. attempt[c] \in Attempts
    BY <1>2, HasAttempt DEF GetRunner, At
  <2>3. \A p \in Attempts : cancelled[p] => cancelled'[p]
    BY <2>1, <2>2, AttendingCancel
  <2> QED
    BY <2>1, <2>3, MovesOn, AttendingFrame
<1>3. CASE Launch(c)
  BY <1>3, AttendingLaunch
<1>4. CASE Supervise(c)
  <2>1. /\ supervisor' = [supervisor EXCEPT ![attempt[c]] = "waiting"] /\ UNCHANGED <<marked, world>>
        /\ Goto(c, "report") /\ attempt[c] \in Attempts
    BY <1>4, HasAttempt DEF Supervise, At
  <2>2. \A d \in Calls : d # c => pc'[d] = pc[d] /\ attempt'[d] = attempt[d]
    BY <2>1 DEF Goto, TypeOK
  <2>3. supervisor'[attempt[c]] = "waiting" /\ \A p \in Attempts : p # attempt[c] => supervisor'[p] = supervisor[p]
    BY <2>1 DEF TypeOK
  <2>4. \A p \in Attempts : Attended(p) => Attended(p)'
    BY <2>2, <2>3 DEF Attended, At
  <2> QED
    BY <2>1, <2>4 DEF Attending, world
<1> QED
  BY <1>1, <1>2, <1>3, <1>4 DEF Start

\* A supervisor ends when it has marked its process or seen its context cancelled.
LEMMA AttendingSupervisor ==
  ASSUME TypeOK, Attending, NEW q \in Attempts, Supervisor(q)
  PROVE  Attending'
<1>1. UNCHANGED <<pc, attempt, process, cancelled>> /\ marked \subseteq marked'
  BY DEF Supervisor, WaitReturns, CheckContext, MarkRunnerExited, call, world
<1>2. \A p \in Attempts : p # q => supervisor'[p] = supervisor[p]
  BY DEF Supervisor, WaitReturns, CheckContext, MarkRunnerExited, TypeOK
<1>3. supervisor'[q] \in {"woken", "marking"} \/ cancelled[q] \/ q \in marked'
  BY DEF Supervisor, WaitReturns, CheckContext, MarkRunnerExited, TypeOK
<1>4. ASSUME NEW p \in Attempts, p # q, Attended(p) PROVE Attended(p)'
  BY <1>1, <1>2, <1>4 DEF Attended, At
<1>5. supervisor'[q] \in {"woken", "marking"} => Attended(q)'
  BY DEF Attended
<1> QED
  BY <1>1, <1>3, <1>4, <1>5 DEF Attending

LEMMA AttendingStep == Consistent /\ Attending /\ [Next]_vars => Attending'
<1> SUFFICES ASSUME TypeOK, LockInv, Attending, [Next]_vars PROVE Attending'
  BY DEF Consistent
<1>1. ASSUME NEW c \in Calls, CallStart(c) \/ CallStop(c) \/ CallInit(c) PROVE Attending'
  <2>1. UNCHANGED <<supervision, world>> /\ \A d \in Calls : At(d, "supervise") => At(d, "supervise")' /\ attempt'[d] = attempt[d]
    BY <1>1 DEF CallStart, CallStop, CallInit, CallOther, Idle, At, TypeOK
  <2> QED
    BY <2>1, AttendingFrame DEF world
<1>2. ASSUME NEW c \in Calls, StopWatcher(c) \/ InitRuntime(c) PROVE Attending'
  <2>1. /\ ~At(c, "supervise") /\ UNCHANGED <<supervision, process, cancelled>>
        /\ (\E l : Goto(c, l)) \/ (\E a : Return(c, a))
    BY <1>2 DEF StopWatcher, InitRuntime, InitEnvironment, InitStopWatcher, SetupWatcher, At,
       supervision, world
  <2> QED
    BY <2>1, MovesOn, AttendingFrame
<1>3. ASSUME NEW c \in Calls, Teardown(c) PROVE Attending'
  BY <1>3, AttendingTeardown
<1>4. ASSUME NEW c \in Calls, Start(c) PROVE Attending'
  BY <1>4, AttendingStart
<1>5. ASSUME NEW p \in Attempts, Supervisor(p) PROVE Attending'
  BY <1>5, AttendingSupervisor
<1>6. ASSUME NEW p \in Attempts, ProcessExits(p) PROVE Attending'
  BY <1>6, AttendingFrame DEF ProcessExits, call, At, TypeOK
<1>7. CASE EventHandler \/ Poll \/ UNCHANGED vars
  BY <1>7, AttendingFrame DEF EventHandler, Poll, vars, call, world, At
<1> QED
  BY <1>1, <1>2, <1>3, <1>4, <1>5, <1>6, <1>7 DEF Next, Proceed

\* However calls overlap and wherever a Start fails, a process that ended alone
\* is reported, or its context is cancelled, or somebody is still there to look.
THEOREM CrashesAreAttended == Spec => []NoCrashLost
<1>1. Init => Attending
  BY DEF Init, Attending
<1>2. Attending => NoCrashLost
  BY DEF Attending, NoCrashLost
<1> QED
  BY <1>1, <1>2, AttendingStep, Consistency, PTL DEF Spec
=============================================================================
