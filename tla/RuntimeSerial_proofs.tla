----------------------- MODULE RuntimeSerial_proofs -----------------------
(***************************************************************************)
(* What the agent guarantees about the user's processes when a Stop and    *)
(* every other call wait for each other: for every number of calls and     *)
(* attempts, no orphan, no false blame, and the promise of                 *)
(* SupervisedProcess.  Starts and Inits may overlap as they like.          *)
(***************************************************************************)
EXTENDS RuntimeLifecycle_proofs

\* No attempt has number None; a field that is not None holds an attempt.
LEMMA Numbers ==
  /\ \A p \in Attempts : p # None
  /\ \A p \in MaybeAttempt : p # None => p \in Attempts
  /\ MaybeAttempt \subseteq Nat /\ Attempts \subseteq Nat
BY BoundAssumption DEF Attempts, MaybeAttempt, None

\* With nothing in `runner`, nothing runs.
LEMMA Quiet == NoOrphan /\ runner = None => \A p \in Attempts : process[p] # "running"
BY Numbers DEF NoOrphan

\* A new Start call takes a number nobody had.
LEMMA NewNumber ==
  ASSUME TypeOK, NEW c \in Calls, CallStart(c)
  PROVE  /\ attempts + 1 \in Attempts /\ attempts' = attempts + 1
         /\ pc'[c] = "lock" /\ attempt'[c] = attempts + 1 /\ attempt'[c] # None
         /\ \A d \in Calls : d # c => pc'[d] = pc[d] /\ attempt'[d] = attempt[d]
         /\ process' = process
BY BoundAssumption DEF TypeOK, CallStart, world, Attempts, MaybeAttempt, None

LEMMA NewNumberFresh ==
  ASSUME TypeOK, FreshAttempts, NEW c \in Calls, CallStart(c)
  PROVE  FreshAttempts'
<1>0. attempts \in Nat /\ attempt \in [Calls -> MaybeAttempt] /\ MaybeAttempt \subseteq Nat
      /\ Attempts \subseteq Nat
  BY Numbers DEF TypeOK
<1>1. \A d \in Calls : attempt[d] <= attempts
  BY DEF FreshAttempts
<1>2. \A d \in Calls : attempt'[d] <= attempts'
  <2> SUFFICES ASSUME NEW d \in Calls PROVE attempt'[d] <= attempts + 1
    BY NewNumber
  <2>1. CASE d = c
    BY <1>0, <2>1, NewNumber
  <2>2. CASE d # c
    <3>1. attempt'[d] = attempt[d] /\ attempt[d] \in Nat /\ attempt[d] <= attempts
      BY <1>0, <1>1, <2>2, NewNumber
    <3> QED
      BY <1>0, <3>1
  <2> QED
    BY <2>1, <2>2
<1>3. \A d, e \in Calls : d # e /\ InStart(d)' => attempt'[d] # attempt'[e]
  <2>1. \A d \in Calls : d # c => attempt'[d] # attempt'[c]
    BY <1>0, <1>1, NewNumber
  <2> QED
    BY <2>1, NewNumber DEF FreshAttempts, InStart
<1>4. \A p \in Attempts : p > attempts' => process'[p] = "none"
  BY <1>0, NewNumber DEF FreshAttempts
<1>5. process[attempts + 1] = "none"
  BY <1>0, NewNumber DEF FreshAttempts
<1>6. \A d \in Calls : InStart(d)' /\ pc'[d] \notin {"supervise", "report", "respond"}
                         => process'[attempt'[d]] = "none"
  BY <1>5, NewNumber DEF FreshAttempts, InStart
<1> QED
  BY <1>2, <1>3, <1>4, <1>6 DEF FreshAttempts

\* Cancelling one context cancels it and revives none.
LEMMA CancelMonotone ==
  ASSUME cancelled \in [Attempts -> BOOLEAN], NEW p \in Attempts, NEW q \in Attempts,
         cancelled' = [cancelled EXCEPT ![q] = TRUE], cancelled[p] \/ q = p
  PROVE  cancelled'[p]
OBVIOUS

\* Stopping a process changes nothing but a running process into a stopped one.
LEMMA StopKills ==
  ASSUME TypeOK, NEW p \in Attempts, Killed(p)
  PROVE  /\ process'[p] # "running"
         /\ \A q \in Attempts : process[q] = "none" => process'[q] = "none"
BY DEF TypeOK, Killed

\* A step of one call that takes no new number and starts at most its own process.
Launched == {"supervise", "report", "respond"}
LEMMA FreshFrame ==
  ASSUME TypeOK, FreshAttempts, NEW c \in Calls,
         attempts' = attempts, attempt'[c] = attempt[c] \/ attempt'[c] = None,
         \A d \in Calls : d # c => pc'[d] = pc[d] /\ attempt'[d] = attempt[d],
         attempt'[c] = None \/ pc'[c] \in Launched \/ pc[c] \notin Launched,
         \A p \in Attempts : process[p] = "none" =>
            \/ process'[p] = "none"
            \/ InStart(c) /\ p = attempt[c] /\ (attempt'[c] = None \/ pc'[c] \in Launched)
  PROVE  FreshAttempts'
<1>0. attempts \in Nat /\ attempt \in [Calls -> MaybeAttempt] /\ Attempts \subseteq Nat
  BY Numbers DEF TypeOK
<1>1. \A d \in Calls : attempt'[d] <= attempts'
  <2> SUFFICES ASSUME NEW d \in Calls PROVE attempt'[d] <= attempts
    OBVIOUS
  <2>1. attempt'[d] = attempt[d] \/ attempt'[d] = None
    OBVIOUS
  <2> QED
    BY <1>0, <2>1 DEF FreshAttempts, None
<1>2. \A d, e \in Calls : d # e /\ InStart(d)' => attempt'[d] # attempt'[e]
  BY DEF FreshAttempts, InStart
<1>3. \A p \in Attempts : p > attempts' => process'[p] = "none"
  <2> SUFFICES ASSUME NEW p \in Attempts, p > attempts PROVE process'[p] = "none"
    OBVIOUS
  <2>1. process[p] = "none"
    BY DEF FreshAttempts
  <2>2. p # attempt[c]
    <3>1. attempt[c] <= attempts /\ attempt[c] \in Nat
      BY <1>0, Numbers DEF FreshAttempts
    <3> QED
      BY <1>0, <3>1
  <2> QED
    BY <2>1, <2>2
<1>4. \A d \in Calls : InStart(d)' /\ pc'[d] \notin Launched => process'[attempt'[d]] = "none"
  <2> SUFFICES ASSUME NEW d \in Calls, InStart(d)', pc'[d] \notin Launched
               PROVE  process'[attempt'[d]] = "none"
    OBVIOUS
  <2>1. attempt'[d] = attempt[d] /\ InStart(d) /\ pc[d] \notin Launched
    BY DEF InStart
  <2>2. attempt[d] \in Attempts /\ process[attempt[d]] = "none"
    BY <1>0, <2>1, Numbers DEF FreshAttempts, InStart, Launched
  <2>3. d # c => attempt[d] # attempt[c]
    BY <2>1 DEF FreshAttempts
  <2> QED
    BY <2>1, <2>2, <2>3 DEF InStart
<1> QED
  BY <1>1, <1>2, <1>3, <1>4 DEF FreshAttempts, Launched

\* While one call works with the fields, the others wait, are idle or Inits.
LEMMA Others ==
  ASSUME TypeOK, Alone, NEW c \in Calls, NEW d \in Calls, c # d, Active(c)
  PROVE  pc[d] \in {"idle", "lock"} \cup InitLabels
<1>1. ~Active(d) /\ pc[d] \in Labels
  BY DEF Alone, TypeOK
<1> QED
  BY <1>1 DEF Active, Labels

\* A step of one call that does not enter a Stop or take the lock.
LEMMA AloneFrame ==
  ASSUME Alone, NEW c \in Calls,
         \A d \in Calls : d # c => pc'[d] = pc[d] /\ attempt'[d] = attempt[d],
         Active(c)' => Active(c), Stopping(c)' => Stopping(c),
         ~Idle(c) \/ NoStopInFlight
  PROVE  Alone'
BY DEF Alone, Active, Stopping, InStart, Idle, At, NoStopInFlight

LEMMA AloneStep ==
  ~Overlap /\ Consistent /\ Serial /\ [Next]_vars => Alone'
<1> SUFFICES ASSUME ~Overlap, TypeOK, LockInv, Alone, FreshAttempts, FieldsFollow, ExitsFollow,
                    NoOrphan, MarkedExitedAlone, [Next]_vars
             PROVE  Alone'
  BY DEF Consistent, Serial
<1> USE DEF TypeOK, LockInv, Alone, Active, Stopping, StopLabels, InitLabels, StartLabels, TeardownLabels, InStart, At, Goto, Return, Idle, InFlight, fields, artifact, supervision, world, watching, call
<1>1. ASSUME NEW c \in Calls, CallStart(c) PROVE Alone'
  <2> HIDE DEF Alone, LockInv
  <2>1. pc'[c] = "lock" /\ attempt'[c] # None
    BY <1>1, NewNumber
  <2>2. \A d \in Calls : d # c => pc'[d] = pc[d] /\ attempt'[d] = attempt[d]
    BY <1>1, NewNumber
  <2>3. NoStopInFlight
    BY <1>1 DEF CallStart
  <2> QED
    BY <2>1, <2>2, <2>3, AloneFrame
<1>2. ASSUME NEW c \in Calls, CallStop(c) PROVE Alone'
  BY <1>2 DEF CallStop, CallOther
<1>3. ASSUME NEW c \in Calls, CallInit(c) PROVE Alone'
  <2> HIDE DEF Alone, LockInv
  <2>1. pc'[c] = "init" /\ NoStopInFlight
    BY <1>3 DEF CallInit, CallOther
  <2>2. \A d \in Calls : d # c => pc'[d] = pc[d] /\ attempt'[d] = attempt[d]
    BY <1>3 DEF CallInit, CallOther
  <2> QED
    BY <2>1, <2>2, AloneFrame
<1>4. ASSUME NEW c \in Calls, CheckRunner(c) PROVE Alone'
  BY <1>4 DEF CheckRunner, AfterTeardown
<1>5. ASSUME NEW c \in Calls, CheckCancel(c) PROVE Alone'
  BY <1>5 DEF CheckCancel
<1>6. ASSUME NEW c \in Calls, CallCancel(c) PROVE Alone'
  BY <1>6 DEF CallCancel, Panic
<1>7. ASSUME NEW c \in Calls, ClearCancel(c) PROVE Alone'
  BY <1>7 DEF ClearCancel
<1>8. ASSUME NEW c \in Calls, StopOld(c) PROVE Alone'
  BY <1>8 DEF StopOld, Killed, Panic
<1>9. ASSUME NEW c \in Calls, ClearRunner(c) PROVE Alone'
  BY <1>9 DEF ClearRunner, AfterTeardown
<1>10. ASSUME NEW c \in Calls, Lock(c) PROVE Alone'
  <2>1. pc'[c] = "checkRunner" /\ attempt' = attempt /\ InStart(c) /\ ~Idle(c)
    BY <1>10 DEF Lock
  <2>2. \A d \in Calls : d # c => pc'[d] = pc[d]
    BY <1>10 DEF Lock
  <2>3. \A d \in Calls : ~Stopping(d)
    BY <2>1
  <2>4. \A d \in Calls : ~Active(d)
    <3> SUFFICES ASSUME NEW d \in Calls, Active(d) PROVE FALSE
      OBVIOUS
    <3>1. startMu # d
      BY <1>10, CallsAssumption DEF Lock, LockFree
    <3>2. ~InStart(d)
      BY <3>1
    <3> QED
      BY <2>3, <3>2
  <2> HIDE DEF Alone, LockInv
  <2> QED
    BY <2>1, <2>2, <2>3, <2>4 DEF Alone
<1>11. ASSUME NEW c \in Calls, BuildBinary(c) PROVE Alone'
  BY <1>11 DEF BuildBinary
<1>12. ASSUME NEW c \in Calls, AddEndpoints(c) PROVE Alone'
  BY <1>12 DEF AddEndpoints
<1>13. ASSUME NEW c \in Calls, GetRunner(c) PROVE Alone'
  BY <1>13 DEF GetRunner, Abandon
<1>14. ASSUME NEW c \in Calls, Launch(c) PROVE Alone'
  BY <1>14 DEF Launch, Abandon
<1>15. ASSUME NEW c \in Calls, Supervise(c) PROVE Alone'
  BY <1>15 DEF Supervise
<1>16. ASSUME NEW c \in Calls, ReportStartedArtifact(c) PROVE Alone'
  BY <1>16 DEF ReportStartedArtifact
<1>17. ASSUME NEW c \in Calls, StartResponse(c) PROVE Alone'
  BY <1>17 DEF StartResponse
<1>18. ASSUME NEW c \in Calls, StopWatcher(c) PROVE Alone'
  BY <1>18 DEF StopWatcher
<1>19. ASSUME NEW c \in Calls, InitEnvironment(c) PROVE Alone'
  <2>1. pc[c] = "init" /\ pc'[c] \in {"idle", "initStopWatcher"}
    BY <1>19 DEF InitEnvironment
  <2>2. \A d \in Calls : d # c => pc'[d] = pc[d] /\ attempt'[d] = attempt[d]
    BY <1>19 DEF InitEnvironment
  <2> HIDE DEF Alone, LockInv
  <2> QED
    BY <2>1, <2>2, AloneFrame
<1>20. ASSUME NEW c \in Calls, InitStopWatcher(c) PROVE Alone'
  BY <1>20 DEF InitStopWatcher
<1>21. ASSUME NEW c \in Calls, SetupWatcher(c) PROVE Alone'
  BY <1>21 DEF SetupWatcher
<1>22. ASSUME NEW p \in Attempts, WaitReturns(p) PROVE Alone'
  BY <1>22 DEF WaitReturns
<1>23. ASSUME NEW p \in Attempts, CheckContext(p) PROVE Alone'
  BY <1>23 DEF CheckContext
<1>24. ASSUME NEW p \in Attempts, MarkRunnerExited(p) PROVE Alone'
  BY <1>24 DEF MarkRunnerExited
<1>25. ASSUME NEW p \in Attempts, ProcessExits(p) PROVE Alone'
  BY <1>25 DEF ProcessExits
<1>26. CASE EventHandler \/ Poll
  BY <1>26 DEF EventHandler, Poll
<1>27. CASE UNCHANGED vars
  BY <1>27 DEF vars
<1> QED
  BY <1>1, <1>2, <1>3, <1>4, <1>5, <1>6, <1>7, <1>8, <1>9, <1>10, <1>11,
     <1>12, <1>13, <1>14, <1>15, <1>16, <1>17, <1>18, <1>19, <1>20, <1>21,
     <1>22, <1>23, <1>24, <1>25, <1>26, <1>27 DEF Next, Proceed, Teardown,
     Start, InitRuntime, Supervisor

LEMMA FreshStep ==
  ~Overlap /\ Consistent /\ Serial /\ [Next]_vars => FreshAttempts'
<1> SUFFICES ASSUME ~Overlap, TypeOK, LockInv, Alone, FreshAttempts, FieldsFollow, ExitsFollow,
                    NoOrphan, MarkedExitedAlone, [Next]_vars
             PROVE  FreshAttempts'
  BY DEF Consistent, Serial
<1> USE DEF TypeOK, LockInv, Alone, Active, Stopping, StopLabels, InitLabels, FreshAttempts, FieldsFollow, StartLabels, TeardownLabels, InStart, At, Goto, Return, Idle, InFlight, fields, artifact, supervision, world, watching, call
<1>1. ASSUME NEW c \in Calls, CallStart(c) PROVE FreshAttempts'
  <2> HIDE DEF FreshAttempts
  <2> QED
    BY <1>1, NewNumberFresh
<1>2. ASSUME NEW c \in Calls, CallStop(c) PROVE FreshAttempts'
  BY <1>2 DEF CallStop, CallOther
<1>3. ASSUME NEW c \in Calls, CallInit(c) PROVE FreshAttempts'
  BY <1>3 DEF CallInit, CallOther
<1>4. ASSUME NEW c \in Calls, CheckRunner(c) PROVE FreshAttempts'
  BY <1>4 DEF CheckRunner, AfterTeardown
<1>5. ASSUME NEW c \in Calls, CheckCancel(c) PROVE FreshAttempts'
  BY <1>5 DEF CheckCancel
<1>6. ASSUME NEW c \in Calls, CallCancel(c) PROVE FreshAttempts'
  BY <1>6 DEF CallCancel, Panic
<1>7. ASSUME NEW c \in Calls, ClearCancel(c) PROVE FreshAttempts'
  BY <1>7 DEF ClearCancel
<1>8. ASSUME NEW c \in Calls, StopOld(c) PROVE FreshAttempts'
  <2> HIDE DEF FreshAttempts, FieldsFollow, LockInv, Alone
  <2>1. \A d \in Calls : d # c => pc'[d] = pc[d] /\ attempt'[d] = attempt[d]
    BY <1>8 DEF StopOld, Killed, Panic
  <2>2. attempts' = attempts /\ (attempt'[c] = attempt[c] \/ attempt'[c] = None)
    BY <1>8 DEF StopOld, Killed, Panic
  <2>3. \A p \in Attempts : process[p] = "none" => process'[p] = "none"
    <3>1. process' = process \/ (runner \in Attempts /\ Killed(runner))
      BY <1>8, Numbers DEF StopOld
    <3> QED
      BY <3>1, StopKills
  <2>4. attempt'[c] = None \/ pc'[c] \in Launched \/ pc[c] \notin Launched
    BY <1>8 DEF StopOld, Killed, Panic, Launched
  <2> QED
    BY <2>1, <2>2, <2>3, <2>4, FreshFrame
<1>9. ASSUME NEW c \in Calls, ClearRunner(c) PROVE FreshAttempts'
  BY <1>9 DEF ClearRunner, AfterTeardown
<1>10. ASSUME NEW c \in Calls, Lock(c) PROVE FreshAttempts'
  BY <1>10 DEF Lock, LockFree
<1>11. ASSUME NEW c \in Calls, BuildBinary(c) PROVE FreshAttempts'
  <2> HIDE DEF FreshAttempts, FieldsFollow, LockInv, Alone
  <2>1. \A d \in Calls : d # c => pc'[d] = pc[d] /\ attempt'[d] = attempt[d]
    BY <1>11 DEF BuildBinary
  <2>2. attempts' = attempts /\ (attempt'[c] = attempt[c] \/ attempt'[c] = None)
    BY <1>11 DEF BuildBinary
  <2>3. process' = process
    BY <1>11 DEF BuildBinary
  <2>4. attempt'[c] = None \/ pc'[c] \in Launched \/ pc[c] \notin Launched
    BY <1>11 DEF BuildBinary, Launched
  <2> QED
    BY <2>1, <2>2, <2>3, <2>4, FreshFrame
<1>12. ASSUME NEW c \in Calls, AddEndpoints(c) PROVE FreshAttempts'
  <2> HIDE DEF FreshAttempts, FieldsFollow, LockInv, Alone
  <2>1. \A d \in Calls : d # c => pc'[d] = pc[d] /\ attempt'[d] = attempt[d]
    BY <1>12 DEF AddEndpoints
  <2>2. attempts' = attempts /\ (attempt'[c] = attempt[c] \/ attempt'[c] = None)
    BY <1>12 DEF AddEndpoints
  <2>3. process' = process
    BY <1>12 DEF AddEndpoints
  <2>4. attempt'[c] = None \/ pc'[c] \in Launched \/ pc[c] \notin Launched
    BY <1>12 DEF AddEndpoints, Launched
  <2> QED
    BY <2>1, <2>2, <2>3, <2>4, FreshFrame
<1>13. ASSUME NEW c \in Calls, GetRunner(c) PROVE FreshAttempts'
  <2> HIDE DEF FreshAttempts, FieldsFollow, LockInv, Alone
  <2>1. \A d \in Calls : d # c => pc'[d] = pc[d] /\ attempt'[d] = attempt[d]
    BY <1>13 DEF GetRunner, Abandon
  <2>2. attempts' = attempts /\ (attempt'[c] = attempt[c] \/ attempt'[c] = None)
    BY <1>13 DEF GetRunner, Abandon
  <2>3. process' = process
    BY <1>13 DEF GetRunner, Abandon
  <2>4. attempt'[c] = None \/ pc'[c] \in Launched \/ pc[c] \notin Launched
    BY <1>13 DEF GetRunner, Abandon, Launched
  <2> QED
    BY <2>1, <2>2, <2>3, <2>4, FreshFrame
<1>14. ASSUME NEW c \in Calls, Launch(c) PROVE FreshAttempts'
  <2>0. InStart(c) /\ runner = attempt[c]
    BY <1>14 DEF Launch
  <2> HIDE DEF FreshAttempts, FieldsFollow, LockInv, Alone
  <2>1. \A d \in Calls : d # c => pc'[d] = pc[d] /\ attempt'[d] = attempt[d]
    BY <1>14 DEF Launch, Abandon
  <2>2. attempts' = attempts /\ (attempt'[c] = attempt[c] \/ attempt'[c] = None)
    BY <1>14 DEF Launch, Abandon
  <2>3. pc'[c] = "supervise" \/ attempt'[c] = None
    BY <1>14 DEF Launch, Abandon
  <2>5. \A p \in Attempts : p # attempt[c] => process'[p] = process[p]
    BY <1>14, <2>0 DEF Launch
  <2>4. attempt'[c] = None \/ pc'[c] \in Launched \/ pc[c] \notin Launched
    BY <1>14 DEF Launch, Abandon, Launched
  <2> QED
    BY <2>1, <2>2, <2>3, <2>4, <2>5, <2>0, FreshFrame DEF Launched
<1>15. ASSUME NEW c \in Calls, Supervise(c) PROVE FreshAttempts'
  BY <1>15 DEF Supervise
<1>16. ASSUME NEW c \in Calls, ReportStartedArtifact(c) PROVE FreshAttempts'
  BY <1>16 DEF ReportStartedArtifact
<1>17. ASSUME NEW c \in Calls, StartResponse(c) PROVE FreshAttempts'
  <2> HIDE DEF FreshAttempts, FieldsFollow, LockInv, Alone
  <2>1. \A d \in Calls : d # c => pc'[d] = pc[d] /\ attempt'[d] = attempt[d]
    BY <1>17 DEF StartResponse
  <2>2. attempts' = attempts /\ (attempt'[c] = attempt[c] \/ attempt'[c] = None)
    BY <1>17 DEF StartResponse
  <2>3. process' = process
    BY <1>17 DEF StartResponse
  <2>4. attempt'[c] = None \/ pc'[c] \in Launched \/ pc[c] \notin Launched
    BY <1>17 DEF StartResponse, Launched
  <2> QED
    BY <2>1, <2>2, <2>3, <2>4, FreshFrame
<1>18. ASSUME NEW c \in Calls, StopWatcher(c) PROVE FreshAttempts'
  BY <1>18 DEF StopWatcher
<1>19. ASSUME NEW c \in Calls, InitEnvironment(c) PROVE FreshAttempts'
  <2> HIDE DEF FreshAttempts, FieldsFollow, LockInv, Alone
  <2>1. \A d \in Calls : d # c => pc'[d] = pc[d] /\ attempt'[d] = attempt[d]
    BY <1>19 DEF InitEnvironment
  <2>2. attempts' = attempts /\ (attempt'[c] = attempt[c] \/ attempt'[c] = None)
    BY <1>19 DEF InitEnvironment
  <2>3. process' = process
    BY <1>19 DEF InitEnvironment
  <2>4. attempt'[c] = None \/ pc'[c] \in Launched \/ pc[c] \notin Launched
    BY <1>19 DEF InitEnvironment, Launched
  <2> QED
    BY <2>1, <2>2, <2>3, <2>4, FreshFrame
<1>20. ASSUME NEW c \in Calls, InitStopWatcher(c) PROVE FreshAttempts'
  BY <1>20 DEF InitStopWatcher
<1>21. ASSUME NEW c \in Calls, SetupWatcher(c) PROVE FreshAttempts'
  BY <1>21 DEF SetupWatcher
<1>22. ASSUME NEW p \in Attempts, WaitReturns(p) PROVE FreshAttempts'
  BY <1>22 DEF WaitReturns
<1>23. ASSUME NEW p \in Attempts, CheckContext(p) PROVE FreshAttempts'
  BY <1>23 DEF CheckContext
<1>24. ASSUME NEW p \in Attempts, MarkRunnerExited(p) PROVE FreshAttempts'
  BY <1>24 DEF MarkRunnerExited
<1>25. ASSUME NEW p \in Attempts, ProcessExits(p) PROVE FreshAttempts'
  BY <1>25 DEF ProcessExits
<1>26. CASE EventHandler \/ Poll
  BY <1>26 DEF EventHandler, Poll
<1>27. CASE UNCHANGED vars
  BY <1>27 DEF vars
<1> QED
  BY <1>1, <1>2, <1>3, <1>4, <1>5, <1>6, <1>7, <1>8, <1>9, <1>10, <1>11,
     <1>12, <1>13, <1>14, <1>15, <1>16, <1>17, <1>18, <1>19, <1>20, <1>21,
     <1>22, <1>23, <1>24, <1>25, <1>26, <1>27 DEF Next, Proceed, Teardown,
     Start, InitRuntime, Supervisor

LEMMA FieldsStep ==
  ~Overlap /\ Consistent /\ Serial /\ [Next]_vars => FieldsFollow'
<1> SUFFICES ASSUME ~Overlap, TypeOK, LockInv, Alone, FreshAttempts, FieldsFollow, ExitsFollow,
                    NoOrphan, MarkedExitedAlone, [Next]_vars
             PROVE  FieldsFollow'
  BY DEF Consistent, Serial
<1> USE DEF TypeOK, LockInv, Alone, Active, Stopping, StopLabels, InitLabels, FreshAttempts, FieldsFollow, NoOrphan, StartLabels, TeardownLabels, InStart, At, Goto, Return, Idle, InFlight, fields, artifact, supervision, world, watching, call
<1>1. ASSUME NEW c \in Calls, CallStart(c) PROVE FieldsFollow'
  BY <1>1 DEF CallStart
<1>2. ASSUME NEW c \in Calls, CallStop(c) PROVE FieldsFollow'
  BY <1>2 DEF CallStop, CallOther
<1>3. ASSUME NEW c \in Calls, CallInit(c) PROVE FieldsFollow'
  BY <1>3 DEF CallInit, CallOther
<1>4. ASSUME NEW c \in Calls, CheckRunner(c) PROVE FieldsFollow'
  BY <1>4 DEF CheckRunner, AfterTeardown
<1>5. ASSUME NEW c \in Calls, CheckCancel(c) PROVE FieldsFollow'
  BY <1>5 DEF CheckCancel
<1>6. ASSUME NEW c \in Calls, CallCancel(c) PROVE FieldsFollow'
  <2>a. Active(c) /\ \A d \in Calls : d # c => pc'[d] = pc[d]
    BY <1>6 DEF CallCancel, Panic
  <2>0. \A d \in Calls : d # c => pc'[d] = pc[d] /\ pc[d] \in {"idle", "lock"} \cup InitLabels
    BY <2>a, Others
  <2>1. runner # None /\ runnerCancel # None
    BY <1>6 DEF CallCancel
  <2>2. /\ cancelled' = [cancelled EXCEPT ![runnerCancel] = TRUE] /\ pc'[c] = "clearCancel"
        /\ UNCHANGED <<runner, runnerCancel, attempt, process>>
    BY <1>6, <2>1 DEF CallCancel
  <2>3. runner \in Attempts /\ runnerCancel \in Attempts /\ cancelled \in [Attempts -> BOOLEAN]
    BY <2>1, Numbers
  <2>4. cancelled[runner] \/ runnerCancel = runner
    BY <2>1
  <2>5. cancelled'[runner]
    BY <2>2, <2>3, <2>4, CancelMonotone
  <2> QED
    BY <2>0, <2>1, <2>2, <2>5
<1>7. ASSUME NEW c \in Calls, ClearCancel(c) PROVE FieldsFollow'
  BY <1>7 DEF ClearCancel
<1>8. ASSUME NEW c \in Calls, StopOld(c) PROVE FieldsFollow'
  <2>a. Active(c) /\ \A d \in Calls : d # c => pc'[d] = pc[d]
    BY <1>8 DEF StopOld, Panic
  <2>0. \A d \in Calls : d # c => pc'[d] = pc[d] /\ pc[d] \in {"idle", "lock"} \cup InitLabels
    BY <2>a, Others
  <2>1. runner # None /\ cancelled[runner] /\ UNCHANGED <<fields, cancelled>>
    BY <1>8 DEF StopOld
  <2>2. CASE Return(c, Said("ERROR"))
    BY <2>0, <2>1, <2>2
  <2>3. CASE Killed(runner) /\ Goto(c, "clearRunner")
    <3>1. pc'[c] = "clearRunner" /\ process'[runner] # "running"
      BY <2>1, <2>3, StopKills, Numbers
    <3> QED
      BY <2>0, <2>1, <3>1
  <2> QED
    BY <1>8, <2>1, <2>2, <2>3 DEF StopOld
<1>9. ASSUME NEW c \in Calls, ClearRunner(c) PROVE FieldsFollow'
  BY <1>9 DEF ClearRunner, AfterTeardown
<1>10. ASSUME NEW c \in Calls, Lock(c) PROVE FieldsFollow'
  BY <1>10 DEF Lock, LockFree
<1>11. ASSUME NEW c \in Calls, BuildBinary(c) PROVE FieldsFollow'
  BY <1>11 DEF BuildBinary
<1>12. ASSUME NEW c \in Calls, AddEndpoints(c) PROVE FieldsFollow'
  BY <1>12 DEF AddEndpoints
<1>13. ASSUME NEW c \in Calls, GetRunner(c) PROVE FieldsFollow'
  <2>a. Active(c) /\ \A d \in Calls : d # c => pc'[d] = pc[d]
    BY <1>13 DEF GetRunner, Abandon
  <2>0. \A d \in Calls : d # c => pc'[d] = pc[d] /\ pc[d] \in {"idle", "lock"} \cup InitLabels
    BY <2>a, Others
  <2>1. runner = None /\ process' = process /\ runnerCancel = attempt[c] /\ attempt[c] # None
    BY <1>13 DEF GetRunner
  <2>2. \A p \in Attempts : process[p] # "running"
    BY <2>1, Quiet
  <2>3. CASE runner' = attempt[c] /\ Goto(c, "launch") /\ UNCHANGED <<startMu, runnerCancel, cancelled>>
    BY <2>0, <2>1, <2>2, <2>3
  <2>4. CASE Abandon(c, Said("ERROR")) /\ UNCHANGED runner
    BY <2>0, <2>1, <2>4 DEF Abandon
  <2> QED
    BY <1>13, <2>3, <2>4 DEF GetRunner
<1>14. ASSUME NEW c \in Calls, Launch(c) PROVE FieldsFollow'
  BY <1>14 DEF Launch, Abandon
<1>15. ASSUME NEW c \in Calls, Supervise(c) PROVE FieldsFollow'
  BY <1>15 DEF Supervise
<1>16. ASSUME NEW c \in Calls, ReportStartedArtifact(c) PROVE FieldsFollow'
  BY <1>16 DEF ReportStartedArtifact
<1>17. ASSUME NEW c \in Calls, StartResponse(c) PROVE FieldsFollow'
  BY <1>17 DEF StartResponse
<1>18. ASSUME NEW c \in Calls, StopWatcher(c) PROVE FieldsFollow'
  BY <1>18 DEF StopWatcher
<1>19. ASSUME NEW c \in Calls, InitEnvironment(c) PROVE FieldsFollow'
  <2>0. \A d \in Calls : d # c => pc'[d] = pc[d] /\ attempt'[d] = attempt[d]
    BY <1>19 DEF InitEnvironment
  <2>1. pc'[c] \in {"idle", "initStopWatcher"} /\ UNCHANGED <<fields, world>>
    BY <1>19 DEF InitEnvironment
  <2> QED
    BY <2>0, <2>1
<1>20. ASSUME NEW c \in Calls, InitStopWatcher(c) PROVE FieldsFollow'
  BY <1>20 DEF InitStopWatcher
<1>21. ASSUME NEW c \in Calls, SetupWatcher(c) PROVE FieldsFollow'
  BY <1>21 DEF SetupWatcher
<1>22. ASSUME NEW p \in Attempts, WaitReturns(p) PROVE FieldsFollow'
  BY <1>22 DEF WaitReturns
<1>23. ASSUME NEW p \in Attempts, CheckContext(p) PROVE FieldsFollow'
  BY <1>23 DEF CheckContext
<1>24. ASSUME NEW p \in Attempts, MarkRunnerExited(p) PROVE FieldsFollow'
  BY <1>24 DEF MarkRunnerExited
<1>25. ASSUME NEW p \in Attempts, ProcessExits(p) PROVE FieldsFollow'
  BY <1>25 DEF ProcessExits
<1>26. CASE EventHandler \/ Poll
  BY <1>26 DEF EventHandler, Poll
<1>27. CASE UNCHANGED vars
  BY <1>27 DEF vars
<1> QED
  BY <1>1, <1>2, <1>3, <1>4, <1>5, <1>6, <1>7, <1>8, <1>9, <1>10, <1>11,
     <1>12, <1>13, <1>14, <1>15, <1>16, <1>17, <1>18, <1>19, <1>20, <1>21,
     <1>22, <1>23, <1>24, <1>25, <1>26, <1>27 DEF Next, Proceed, Teardown,
     Start, InitRuntime, Supervisor

LEMMA ExitsStep ==
  ~Overlap /\ Consistent /\ Serial /\ [Next]_vars => ExitsFollow' /\ MarkedExitedAlone'
<1> SUFFICES ASSUME ~Overlap, TypeOK, LockInv, Alone, FreshAttempts, FieldsFollow, ExitsFollow,
                    NoOrphan, MarkedExitedAlone, [Next]_vars
             PROVE  ExitsFollow' /\ MarkedExitedAlone'
  BY DEF Consistent, Serial
<1> USE DEF TypeOK, FreshAttempts, FieldsFollow, ExitsFollow, MarkedExitedAlone, InStart, At, fields, artifact, supervision, world, watching, call
<1>1. ASSUME NEW c \in Calls, CallStart(c) PROVE ExitsFollow' /\ MarkedExitedAlone'
  BY <1>1 DEF CallStart
<1>2. ASSUME NEW c \in Calls, CallStop(c) PROVE ExitsFollow' /\ MarkedExitedAlone'
  BY <1>2 DEF CallStop, CallOther
<1>3. ASSUME NEW c \in Calls, CallInit(c) PROVE ExitsFollow' /\ MarkedExitedAlone'
  BY <1>3 DEF CallInit, CallOther
<1>4. ASSUME NEW c \in Calls, CheckRunner(c) PROVE ExitsFollow' /\ MarkedExitedAlone'
  BY <1>4 DEF CheckRunner, AfterTeardown
<1>5. ASSUME NEW c \in Calls, CheckCancel(c) PROVE ExitsFollow' /\ MarkedExitedAlone'
  BY <1>5 DEF CheckCancel
<1>6. ASSUME NEW c \in Calls, CallCancel(c) PROVE ExitsFollow' /\ MarkedExitedAlone'
  BY <1>6 DEF CallCancel, Panic
<1>7. ASSUME NEW c \in Calls, ClearCancel(c) PROVE ExitsFollow' /\ MarkedExitedAlone'
  BY <1>7 DEF ClearCancel
<1>8. ASSUME NEW c \in Calls, StopOld(c) PROVE ExitsFollow' /\ MarkedExitedAlone'
  BY <1>8 DEF StopOld, Killed, Panic
<1>9. ASSUME NEW c \in Calls, ClearRunner(c) PROVE ExitsFollow' /\ MarkedExitedAlone'
  BY <1>9 DEF ClearRunner, AfterTeardown
<1>10. ASSUME NEW c \in Calls, Lock(c) PROVE ExitsFollow' /\ MarkedExitedAlone'
  BY <1>10 DEF Lock, LockFree
<1>11. ASSUME NEW c \in Calls, BuildBinary(c) PROVE ExitsFollow' /\ MarkedExitedAlone'
  BY <1>11 DEF BuildBinary
<1>12. ASSUME NEW c \in Calls, AddEndpoints(c) PROVE ExitsFollow' /\ MarkedExitedAlone'
  BY <1>12 DEF AddEndpoints
<1>13. ASSUME NEW c \in Calls, GetRunner(c) PROVE ExitsFollow' /\ MarkedExitedAlone'
  BY <1>13 DEF GetRunner, Abandon
<1>14. ASSUME NEW c \in Calls, Launch(c) PROVE ExitsFollow' /\ MarkedExitedAlone'
  BY <1>14 DEF Launch, Abandon
<1>15. ASSUME NEW c \in Calls, Supervise(c) PROVE ExitsFollow' /\ MarkedExitedAlone'
  BY <1>15 DEF Supervise
<1>16. ASSUME NEW c \in Calls, ReportStartedArtifact(c) PROVE ExitsFollow' /\ MarkedExitedAlone'
  BY <1>16 DEF ReportStartedArtifact
<1>17. ASSUME NEW c \in Calls, StartResponse(c) PROVE ExitsFollow' /\ MarkedExitedAlone'
  BY <1>17 DEF StartResponse
<1>18. ASSUME NEW c \in Calls, StopWatcher(c) PROVE ExitsFollow' /\ MarkedExitedAlone'
  BY <1>18 DEF StopWatcher
<1>19. ASSUME NEW c \in Calls, InitEnvironment(c) PROVE ExitsFollow' /\ MarkedExitedAlone'
  BY <1>19 DEF InitEnvironment
<1>20. ASSUME NEW c \in Calls, InitStopWatcher(c) PROVE ExitsFollow' /\ MarkedExitedAlone'
  BY <1>20 DEF InitStopWatcher
<1>21. ASSUME NEW c \in Calls, SetupWatcher(c) PROVE ExitsFollow' /\ MarkedExitedAlone'
  BY <1>21 DEF SetupWatcher
<1>22. ASSUME NEW p \in Attempts, WaitReturns(p) PROVE ExitsFollow' /\ MarkedExitedAlone'
  BY <1>22 DEF WaitReturns
<1>23. ASSUME NEW p \in Attempts, CheckContext(p) PROVE ExitsFollow' /\ MarkedExitedAlone'
  BY <1>23 DEF CheckContext
<1>24. ASSUME NEW p \in Attempts, MarkRunnerExited(p) PROVE ExitsFollow' /\ MarkedExitedAlone'
  BY <1>24 DEF MarkRunnerExited
<1>25. ASSUME NEW p \in Attempts, ProcessExits(p) PROVE ExitsFollow' /\ MarkedExitedAlone'
  BY <1>25 DEF ProcessExits
<1>26. CASE EventHandler \/ Poll
  BY <1>26 DEF EventHandler, Poll
<1>27. CASE UNCHANGED vars
  BY <1>27 DEF vars
<1> QED
  BY <1>1, <1>2, <1>3, <1>4, <1>5, <1>6, <1>7, <1>8, <1>9, <1>10, <1>11,
     <1>12, <1>13, <1>14, <1>15, <1>16, <1>17, <1>18, <1>19, <1>20, <1>21,
     <1>22, <1>23, <1>24, <1>25, <1>26, <1>27 DEF Next, Proceed, Teardown,
     Start, InitRuntime, Supervisor

LEMMA OrphanStep ==
  ~Overlap /\ Consistent /\ Serial /\ [Next]_vars => NoOrphan'
<1> SUFFICES ASSUME ~Overlap, TypeOK, LockInv, Alone, FreshAttempts, FieldsFollow, ExitsFollow,
                    NoOrphan, MarkedExitedAlone, [Next]_vars
             PROVE  NoOrphan'
  BY DEF Consistent, Serial
<1> USE DEF TypeOK, FieldsFollow, NoOrphan, InStart, At, fields, artifact, supervision, world, watching, call
<1>1. ASSUME NEW c \in Calls, CallStart(c) PROVE NoOrphan'
  BY <1>1 DEF CallStart
<1>2. ASSUME NEW c \in Calls, CallStop(c) PROVE NoOrphan'
  BY <1>2 DEF CallStop, CallOther
<1>3. ASSUME NEW c \in Calls, CallInit(c) PROVE NoOrphan'
  BY <1>3 DEF CallInit, CallOther
<1>4. ASSUME NEW c \in Calls, CheckRunner(c) PROVE NoOrphan'
  BY <1>4 DEF CheckRunner, AfterTeardown
<1>5. ASSUME NEW c \in Calls, CheckCancel(c) PROVE NoOrphan'
  BY <1>5 DEF CheckCancel
<1>6. ASSUME NEW c \in Calls, CallCancel(c) PROVE NoOrphan'
  BY <1>6 DEF CallCancel, Panic
<1>7. ASSUME NEW c \in Calls, ClearCancel(c) PROVE NoOrphan'
  BY <1>7 DEF ClearCancel
<1>8. ASSUME NEW c \in Calls, StopOld(c) PROVE NoOrphan'
  BY <1>8 DEF StopOld, Killed, Panic
<1>9. ASSUME NEW c \in Calls, ClearRunner(c) PROVE NoOrphan'
  BY <1>9 DEF ClearRunner, AfterTeardown
<1>10. ASSUME NEW c \in Calls, Lock(c) PROVE NoOrphan'
  BY <1>10 DEF Lock, LockFree
<1>11. ASSUME NEW c \in Calls, BuildBinary(c) PROVE NoOrphan'
  BY <1>11 DEF BuildBinary
<1>12. ASSUME NEW c \in Calls, AddEndpoints(c) PROVE NoOrphan'
  BY <1>12 DEF AddEndpoints
<1>13. ASSUME NEW c \in Calls, GetRunner(c) PROVE NoOrphan'
  <2>1. runner = None /\ process' = process
    BY <1>13 DEF GetRunner
  <2>2. \A p \in Attempts : process[p] # "running"
    BY <2>1, Quiet
  <2> QED
    BY <2>1, <2>2
<1>14. ASSUME NEW c \in Calls, Launch(c) PROVE NoOrphan'
  BY <1>14 DEF Launch, Abandon
<1>15. ASSUME NEW c \in Calls, Supervise(c) PROVE NoOrphan'
  BY <1>15 DEF Supervise
<1>16. ASSUME NEW c \in Calls, ReportStartedArtifact(c) PROVE NoOrphan'
  BY <1>16 DEF ReportStartedArtifact
<1>17. ASSUME NEW c \in Calls, StartResponse(c) PROVE NoOrphan'
  BY <1>17 DEF StartResponse
<1>18. ASSUME NEW c \in Calls, StopWatcher(c) PROVE NoOrphan'
  BY <1>18 DEF StopWatcher
<1>19. ASSUME NEW c \in Calls, InitEnvironment(c) PROVE NoOrphan'
  BY <1>19 DEF InitEnvironment
<1>20. ASSUME NEW c \in Calls, InitStopWatcher(c) PROVE NoOrphan'
  BY <1>20 DEF InitStopWatcher
<1>21. ASSUME NEW c \in Calls, SetupWatcher(c) PROVE NoOrphan'
  BY <1>21 DEF SetupWatcher
<1>22. ASSUME NEW p \in Attempts, WaitReturns(p) PROVE NoOrphan'
  BY <1>22 DEF WaitReturns
<1>23. ASSUME NEW p \in Attempts, CheckContext(p) PROVE NoOrphan'
  BY <1>23 DEF CheckContext
<1>24. ASSUME NEW p \in Attempts, MarkRunnerExited(p) PROVE NoOrphan'
  BY <1>24 DEF MarkRunnerExited
<1>25. ASSUME NEW p \in Attempts, ProcessExits(p) PROVE NoOrphan'
  BY <1>25 DEF ProcessExits
<1>26. CASE EventHandler \/ Poll
  BY <1>26 DEF EventHandler, Poll
<1>27. CASE UNCHANGED vars
  BY <1>27 DEF vars
<1> QED
  BY <1>1, <1>2, <1>3, <1>4, <1>5, <1>6, <1>7, <1>8, <1>9, <1>10, <1>11,
     <1>12, <1>13, <1>14, <1>15, <1>16, <1>17, <1>18, <1>19, <1>20, <1>21,
     <1>22, <1>23, <1>24, <1>25, <1>26, <1>27 DEF Next, Proceed, Teardown,
     Start, InitRuntime, Supervisor

LEMMA SerialInit == Init => Serial
<1> SUFFICES ASSUME Init PROVE Serial
  OBVIOUS
<1>1. \A p \in Attempts : process[p] = "none" /\ supervisor[p] = "none"
  BY DEF Init
<1>2. Alone /\ FieldsFollow
  BY DEF Init, Alone, Active, Stopping, StopLabels, StartLabels, TeardownLabels, Idle, FieldsFollow, At
<1>3. FreshAttempts
  BY <1>1 DEF Init, FreshAttempts, InStart, None
<1>4. ExitsFollow /\ NoOrphan /\ MarkedExitedAlone
  BY <1>1 DEF Init, ExitsFollow, NoOrphan, MarkedExitedAlone
<1> QED
  BY <1>2, <1>3, <1>4 DEF Serial

LEMMA SerialStep == ~Overlap /\ Consistent /\ Serial /\ [Next]_vars => Serial'
BY AloneStep, FreshStep, FieldsStep, ExitsStep, OrphanStep DEF Serial

\* Where a Stop is kept apart, everything NoOrphan and MarkedExitedAlone rest on holds always.
THEOREM SerialInvariant == ASSUME ~Overlap PROVE Spec => []Serial
<1>1. Consistent /\ Serial /\ [Next]_vars => Serial'
  BY SerialStep
<1> QED
  BY <1>1, SerialInit, Consistency, PTL DEF Spec

\* Where a Stop is kept apart, whatever Starts and Inits overlap, every live
\* process is the one `runner` holds, so Stop and the next Start can reach it.
THEOREM NeverOrphaned == ASSUME ~Overlap PROVE Spec => []NoOrphan
<1>1. Serial => NoOrphan
  BY DEF Serial
<1> QED
  BY <1>1, SerialInvariant, PTL

\* Where a Stop is kept apart the agent never reports as exited unexpectedly a process that
\* it stopped itself, or that is still running.
THEOREM NeverBlamed == ASSUME ~Overlap PROVE Spec => []MarkedExitedAlone
<1>1. Serial => MarkedExitedAlone
  BY DEF Serial
<1> QED
  BY <1>1, SerialInvariant, PTL
-----------------------------------------------------------------------------
(* The detailed runtime implements SupervisedProcess. *)

\* A step that touches neither the processes nor the blame is a stutter.
LEMMA Unseen == UNCHANGED <<process, marked>> => UNCHANGED Promised!vars
BY DEF Promised!vars

LEMMA RetireStep ==
  ASSUME TypeOK, NEW p \in Attempts, Killed(p), marked' = marked
  PROVE  [Promised!Next]_(Promised!vars)
<1>1. CASE process[p] = "running"
  <2>1. process' = [process EXCEPT ![p] = "stopped"]
    BY <1>1 DEF Killed
  <2>2. /\ {q \in Attempts : process'[q] = "running"} = {q \in Attempts : process[q] = "running"} \ {p}
        /\ {q \in Attempts : process'[q] = "stopped"} = {q \in Attempts : process[q] = "stopped"} \cup {p}
        /\ {q \in Attempts : process'[q] = "exited"} = {q \in Attempts : process[q] = "exited"}
    BY <1>1, <2>1 DEF TypeOK
  <2>3. Promised!Retire(p)
    BY <1>1, <2>2 DEF Promised!Retire
  <2> QED
    BY <2>3 DEF Promised!Next
<1>2. CASE process[p] # "running"
  <2>1. process' = process
    BY <1>2 DEF Killed, TypeOK
  <2> QED
    BY <2>1, Unseen
<1> QED
  BY <1>1, <1>2

LEMMA LaunchStep ==
  ASSUME TypeOK, NEW p \in Attempts, marked' = marked, process[p] = "none",
         \A q \in Attempts : process[q] # "running",
         process' = [process EXCEPT ![p] = "running"]
  PROVE  [Promised!Next]_(Promised!vars)
<1>1. /\ {q \in Attempts : process[q] = "running"} = {}
      /\ {q \in Attempts : process'[q] = "running"} = {p}
      /\ {q \in Attempts : process'[q] = "stopped"} = {q \in Attempts : process[q] = "stopped"}
      /\ {q \in Attempts : process'[q] = "exited"} = {q \in Attempts : process[q] = "exited"}
  BY DEF TypeOK
<1>2. Promised!Launch(p)
  BY <1>1 DEF Promised!Launch
<1> QED
  BY <1>2 DEF Promised!Next

LEMMA ExitStep ==
  ASSUME TypeOK, NEW p \in Attempts, ProcessExits(p)
  PROVE  [Promised!Next]_(Promised!vars)
<1>1. /\ {q \in Attempts : process'[q] = "running"} = {q \in Attempts : process[q] = "running"} \ {p}
      /\ {q \in Attempts : process'[q] = "stopped"} = {q \in Attempts : process[q] = "stopped"}
      /\ {q \in Attempts : process'[q] = "exited"} = {q \in Attempts : process[q] = "exited"} \cup {p}
  BY DEF TypeOK, ProcessExits
<1>2. Promised!ExitAlone(p)
  BY <1>1 DEF Promised!ExitAlone, ProcessExits, supervision
<1> QED
  BY <1>2 DEF Promised!Next

LEMMA BlameStep ==
  ASSUME ExitsFollow, NEW p \in Attempts, MarkRunnerExited(p)
  PROVE  [Promised!Next]_(Promised!vars)
<1>1. Promised!Blame(p)
  BY DEF Promised!Blame, MarkRunnerExited, ExitsFollow, world
<1> QED
  BY <1>1 DEF Promised!Next

LEMMA SupervisedStep ==
  Consistent /\ Serial /\ [Next]_vars => [Promised!Next]_(Promised!vars)
<1> DEFINE Kept == [Promised!Next]_(Promised!vars)
<1> SUFFICES ASSUME TypeOK, LockInv, FreshAttempts, FieldsFollow, ExitsFollow, [Next]_vars
             PROVE  Kept
  BY DEF Consistent, Serial
<1>u. UNCHANGED <<process, marked>> => Kept
  BY Unseen
<1> HIDE DEF Kept
<1>1. ASSUME NEW c \in Calls, CallStart(c) PROVE Kept
  BY <1>1, <1>u DEF CallStart, world, supervision
<1>2. ASSUME NEW c \in Calls, CallStop(c) PROVE Kept
  BY <1>2, <1>u DEF CallStop, CallOther, world, supervision
<1>3. ASSUME NEW c \in Calls, CallInit(c) PROVE Kept
  BY <1>3, <1>u DEF CallInit, CallOther, world, supervision
<1>4. ASSUME NEW c \in Calls, CheckRunner(c) PROVE Kept
  BY <1>4, <1>u DEF CheckRunner, AfterTeardown, world, supervision
<1>5. ASSUME NEW c \in Calls, CheckCancel(c) PROVE Kept
  BY <1>5, <1>u DEF CheckCancel, world, supervision
<1>6. ASSUME NEW c \in Calls, CallCancel(c) PROVE Kept
  BY <1>6, <1>u DEF CallCancel, Panic, world, supervision
<1>7. ASSUME NEW c \in Calls, ClearCancel(c) PROVE Kept
  BY <1>7, <1>u DEF ClearCancel, world, supervision
<1>8. ASSUME NEW c \in Calls, StopOld(c) PROVE Kept
  <2>1. UNCHANGED <<process, marked>> \/ (runner \in Attempts /\ Killed(runner) /\ marked' = marked)
    BY <1>8, Numbers DEF StopOld, supervision, TypeOK
  <2> QED
    BY <2>1, <1>u, RetireStep DEF Kept
<1>9. ASSUME NEW c \in Calls, ClearRunner(c) PROVE Kept
  BY <1>9, <1>u DEF ClearRunner, AfterTeardown, world, supervision
<1>10. ASSUME NEW c \in Calls, Lock(c) PROVE Kept
  BY <1>10, <1>u DEF Lock, LockFree, world, supervision
<1>11. ASSUME NEW c \in Calls, BuildBinary(c) PROVE Kept
  BY <1>11, <1>u DEF BuildBinary, world, supervision
<1>12. ASSUME NEW c \in Calls, AddEndpoints(c) PROVE Kept
  BY <1>12, <1>u DEF AddEndpoints, world, supervision
<1>13. ASSUME NEW c \in Calls, GetRunner(c) PROVE Kept
  BY <1>13, <1>u DEF GetRunner, Abandon, world, supervision
<1>14. ASSUME NEW c \in Calls, Launch(c) PROVE Kept
  <2>1. /\ runner = attempt[c] /\ InStart(c) /\ pc[c] = "launch"
        /\ \A q \in Attempts : process[q] # "running"
    BY <1>14 DEF Launch, FieldsFollow, LockInv, At, StartLabels, TeardownLabels
  <2>2. runner \in Attempts /\ process[runner] = "none"
    BY <2>1, Numbers DEF FreshAttempts, InStart, TypeOK
  <2>3. UNCHANGED <<process, marked>>
        \/ (process' = [process EXCEPT ![runner] = "running"] /\ marked' = marked)
    BY <1>14 DEF Launch, supervision
  <2> QED
    BY <2>1, <2>2, <2>3, <1>u, LaunchStep DEF Kept
<1>15. ASSUME NEW c \in Calls, Supervise(c) PROVE Kept
  BY <1>15, <1>u DEF Supervise, world, supervision
<1>16. ASSUME NEW c \in Calls, ReportStartedArtifact(c) PROVE Kept
  BY <1>16, <1>u DEF ReportStartedArtifact, world, supervision
<1>17. ASSUME NEW c \in Calls, StartResponse(c) PROVE Kept
  BY <1>17, <1>u DEF StartResponse, world, supervision
<1>18. ASSUME NEW c \in Calls, StopWatcher(c) PROVE Kept
  BY <1>18, <1>u DEF StopWatcher, world, supervision
<1>19. ASSUME NEW c \in Calls, InitEnvironment(c) PROVE Kept
  BY <1>19, <1>u DEF InitEnvironment, world, supervision
<1>20. ASSUME NEW c \in Calls, InitStopWatcher(c) PROVE Kept
  BY <1>20, <1>u DEF InitStopWatcher, world, supervision
<1>21. ASSUME NEW c \in Calls, SetupWatcher(c) PROVE Kept
  BY <1>21, <1>u DEF SetupWatcher, world, supervision
<1>22. ASSUME NEW p \in Attempts, WaitReturns(p) PROVE Kept
  BY <1>22, <1>u DEF WaitReturns, world, supervision
<1>23. ASSUME NEW p \in Attempts, CheckContext(p) PROVE Kept
  BY <1>23, <1>u DEF CheckContext, world, supervision
<1>24. ASSUME NEW p \in Attempts, MarkRunnerExited(p) PROVE Kept
  BY <1>24, BlameStep DEF Kept
<1>25. ASSUME NEW p \in Attempts, ProcessExits(p) PROVE Kept
  BY <1>25, ExitStep DEF Kept
<1>26. CASE EventHandler \/ Poll
  BY <1>26, <1>u DEF EventHandler, Poll, world, supervision
<1>27. CASE UNCHANGED vars
  BY <1>27, <1>u DEF vars, world, supervision
<1>28. Kept
  BY <1>1, <1>2, <1>3, <1>4, <1>5, <1>6, <1>7, <1>8, <1>9, <1>10, <1>11,
     <1>12, <1>13, <1>14, <1>15, <1>16, <1>17, <1>18, <1>19, <1>20, <1>21,
     <1>22, <1>23, <1>24, <1>25, <1>26, <1>27 DEF Next, Proceed, Teardown,
     Start, InitRuntime, Supervisor
<1> QED
  BY <1>28 DEF Kept

LEMMA SupervisedInit == Init => Promised!Init
BY DEF Init, Promised!Init

\* A host that lets a Stop and other calls wait for each other sees exactly the
\* SupervisedProcess behaviour: one process at a time, ended processes stay
\* ended, blame only for those that ended alone.
THEOREM RuntimeSupervises == ASSUME ~Overlap PROVE Spec => Supervised
<1>1. Consistent /\ Serial /\ [Next]_vars => [Promised!Next]_(Promised!vars)
  BY SupervisedStep
<1> QED
  BY <1>1, SupervisedInit, Consistency, SerialInvariant, PTL DEF Spec, Supervised, Promised!Spec

-----------------------------------------------------------------------------
(* Stop tears down with the watcher stopped. *)

Watched == \A c \in Calls : InTeardown(c) => ~watcher

LEMMA WatchFrame ==
  ASSUME Watched, NEW c \in Calls,
         \A d \in Calls : d # c => pc'[d] = pc[d] /\ attempt'[d] = attempt[d],
         watcher' = watcher \/ watcher' = FALSE,
         InTeardown(c)' => InTeardown(c) \/ watcher' = FALSE
  PROVE  Watched'
BY DEF Watched, InTeardown, InStart

\* A call returns, or goes on without entering a teardown of its own.
LEMMA WatchReturns ==
  ASSUME TypeOK, Watched, NEW c \in Calls, NEW a, Return(c, a),
         watcher' = watcher \/ watcher' = FALSE
  PROVE  Watched'
<1>1. pc'[c] = "idle" /\ \A d \in Calls : d # c => pc'[d] = pc[d] /\ attempt'[d] = attempt[d]
  BY DEF Return, TypeOK
<1> QED
  BY <1>1, WatchFrame DEF InTeardown, TeardownLabels

LEMMA WatchGoes ==
  ASSUME TypeOK, Watched, NEW c \in Calls, NEW label, Goto(c, label),
         watcher' = watcher \/ watcher' = FALSE,
         \/ InTeardown(c) \/ InStart(c)
         \/ label \notin TeardownLabels \/ watcher' = FALSE
  PROVE  Watched'
<1>1. pc'[c] = label /\ attempt' = attempt /\ \A d \in Calls : d # c => pc'[d] = pc[d]
  BY DEF Goto, TypeOK
<1> QED
  BY <1>1, WatchFrame DEF InTeardown, InStart

LEMMA WatchTeardown ==
  ASSUME TypeOK, Watched, NEW c \in Calls, Teardown(c)
  PROVE  Watched'
<1>1. watcher' = watcher /\ pc[c] \in TeardownLabels
  BY DEF Teardown, CheckRunner, CheckCancel, CallCancel, ClearCancel, StopOld, ClearRunner, At,
     TeardownLabels, watching
<1>2. InTeardown(c) \/ InStart(c)
  BY <1>1 DEF InTeardown
<1>3. (\E label : Goto(c, label)) \/ (\E a : Return(c, a))
  BY DEF Teardown, CheckRunner, CheckCancel, CallCancel, ClearCancel, StopOld, ClearRunner,
     AfterTeardown, Panic
<1> QED
  BY <1>1, <1>2, <1>3, WatchReturns, WatchGoes

LEMMA WatchStart ==
  ASSUME TypeOK, LockInv, Watched, NEW c \in Calls, Start(c)
  PROVE  Watched'
<1>1. watcher' = watcher /\ InStart(c)
  BY DEF Start, Lock, BuildBinary, AddEndpoints, GetRunner, Launch, Supervise, ReportStartedArtifact,
     StartResponse, LockInv, At, StartLabels, TeardownLabels, watching, InStart
<1>2. (\E label : Goto(c, label)) \/ (\E a : Return(c, a))
  BY DEF Start, Lock, BuildBinary, AddEndpoints, GetRunner, Launch, Supervise, ReportStartedArtifact,
     StartResponse, Abandon, Panic
<1> QED
  BY <1>1, <1>2, WatchReturns, WatchGoes

\* SetupWatcher is a step of Init, which no Stop overlaps.
LEMMA WatchInit ==
  ASSUME TypeOK, LockInv, Alone, Watched, NEW c \in Calls, StopWatcher(c) \/ InitRuntime(c)
  PROVE  Watched'
<1>1. CASE StopWatcher(c)
  BY <1>1, WatchGoes DEF StopWatcher
<1>2. CASE InitEnvironment(c)
  BY <1>2, WatchReturns, WatchGoes DEF InitEnvironment, TeardownLabels
<1>3. CASE InitStopWatcher(c)
  BY <1>3, WatchReturns, WatchGoes DEF InitStopWatcher
<1>4. CASE SetupWatcher(c)
  <2>1. pc[c] = "initSetup" /\ \A d \in Calls : d # c => ~Stopping(d)
    BY <1>4 DEF SetupWatcher, At, Alone, Idle
  <2>2. pc'[c] = "idle" /\ \A d \in Calls : d # c => pc'[d] = pc[d] /\ attempt'[d] = attempt[d]
    BY <1>4 DEF SetupWatcher, Return, TypeOK
  <2>3. \A d \in Calls : ~InTeardown(d)'
    BY <2>1, <2>2 DEF InTeardown, TeardownLabels, StopLabels, Stopping, InStart
  <2> QED
    BY <2>3 DEF Watched
<1> QED
  BY <1>1, <1>2, <1>3, <1>4 DEF InitRuntime

LEMMA WatchStep ==
  Consistent /\ Serial /\ Watched /\ [Next]_vars => Watched'
<1> SUFFICES ASSUME TypeOK, LockInv, Alone, Watched, [Next]_vars PROVE Watched'
  BY DEF Consistent, Serial
<1>1. ASSUME NEW c \in Calls, CallStart(c) PROVE Watched'
  <2>1. /\ watcher' = watcher /\ pc'[c] = "lock"
        /\ \A d \in Calls : d # c => pc'[d] = pc[d] /\ attempt'[d] = attempt[d]
    BY <1>1 DEF CallStart, TypeOK, watching
  <2> QED
    BY <2>1, WatchFrame DEF InTeardown, TeardownLabels
<1>2. ASSUME NEW c \in Calls, CallStop(c) \/ CallInit(c) PROVE Watched'
  <2>1. /\ watcher' = watcher /\ pc'[c] \notin TeardownLabels
        /\ \A d \in Calls : d # c => pc'[d] = pc[d] /\ attempt'[d] = attempt[d]
    BY <1>2 DEF CallStop, CallInit, CallOther, TypeOK, watching, TeardownLabels
  <2> QED
    BY <2>1, WatchFrame DEF InTeardown
<1>3. ASSUME NEW c \in Calls, Proceed(c) PROVE Watched'
  BY <1>3, WatchTeardown, WatchStart, WatchInit DEF Proceed
<1>4. ASSUME UNCHANGED <<call, watcher>> PROVE Watched'
  BY <1>4 DEF call, Watched, InTeardown, InStart
<1>5. ASSUME NEW p \in Attempts, Supervisor(p) \/ ProcessExits(p) PROVE Watched'
  BY <1>4, <1>5 DEF Supervisor, WaitReturns, CheckContext, MarkRunnerExited, ProcessExits, watching
<1>6. CASE EventHandler \/ Poll \/ UNCHANGED vars
  BY <1>4, <1>6 DEF EventHandler, Poll, vars, watching
<1> QED
  BY <1>1, <1>2, <1>3, <1>5, <1>6 DEF Next

\* Only the watcher asks for a rebuild.
LEMMA AsksWatching ==
  [Next]_vars /\ desired' \notin {desired, "noop"} => watcher
<1> SUFFICES ASSUME [Next]_vars, ~watcher PROVE desired' \in {desired, "noop"}
  OBVIOUS
<1>1. ASSUME NEW c \in Calls, CallStart(c) \/ CallStop(c) \/ CallInit(c) \/ Teardown(c) \/ Start(c)
      PROVE  desired' = desired
  BY <1>1 DEF CallStart, CallStop, CallInit, CallOther, Teardown, CheckRunner, CheckCancel, CallCancel,
     ClearCancel, StopOld, ClearRunner, Start, Lock, BuildBinary, AddEndpoints, GetRunner, Launch,
     Supervise, ReportStartedArtifact, StartResponse, watching
<1>2. ASSUME NEW c \in Calls, StopWatcher(c) \/ InitRuntime(c)
      PROVE  desired' = desired
  BY <1>2 DEF StopWatcher, InitRuntime, InitEnvironment, InitStopWatcher, SetupWatcher
<1>3. ASSUME NEW p \in Attempts, Supervisor(p) \/ ProcessExits(p)
      PROVE  desired' = desired
  BY <1>3 DEF Supervisor, WaitReturns, CheckContext, MarkRunnerExited, ProcessExits, watching
<1>4. CASE EventHandler \/ Poll
  BY <1>4 DEF EventHandler, Poll
<1>5. CASE UNCHANGED vars
  BY <1>5 DEF vars, watching
<1> QED
  BY <1>1, <1>2, <1>3, <1>4, <1>5 DEF Next, Proceed

\* Where a Stop is kept apart, the watcher asks for no rebuild once it has begun
\* its teardown; a request made before may still be in the slot.
THEOREM NoRebuildDuringStop == ASSUME ~Overlap PROVE Spec => NoRequestDuringTeardown
<1>1. Init => Watched
  BY DEF Init, Watched, InTeardown, TeardownLabels
<1>2. Watched /\ [Next]_vars =>
        [desired' \notin {desired, "noop"} => \A c \in Calls : ~InTeardown(c)]_vars
  BY AsksWatching DEF Watched
<1> QED
  BY <1>1, <1>2, WatchStep, Consistency, SerialInvariant, PTL DEF Spec, NoRequestDuringTeardown
=============================================================================
