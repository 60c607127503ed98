-------------------------- MODULE RuntimeLifecycle --------------------------
(***************************************************************************)
(* The Start, Stop and Init handlers of pkg/runtime/runtime.go and the     *)
(* supervisor goroutine Start leaves behind.                               *)
(*                                                                         *)
(* gRPC runs every call on a goroutine of its own.  A call is a member of  *)
(* Calls with a program counter; each action is one access of the code to  *)
(* state another goroutine can reach, so a value tested in one action may  *)
(* have changed by the next.  Start holds startMu from its first action to *)
(* its answer; Stop and Init take no lock.                                 *)
(*                                                                         *)
(* A start attempt is a number.  It also names what the attempt creates:   *)
(* the running context, the process and the build it links.                *)
(***************************************************************************)
EXTENDS Naturals

CONSTANTS
  Calls,        \* goroutines on which the host's RPCs are dispatched
  NoCall,       \* "nobody holds startMu"
  MaxAttempts,  \* bound on the number of Start calls of a behaviour
  Overlap,      \* may a Stop be in flight together with another call?
  HotReload,    \* Settings.HotReload
  Native        \* HostExecutable answers true (not a container runtime)

None == 0
Attempts == 1..MaxAttempts
MaybeAttempt == 0..MaxAttempts

ASSUME CallsAssumption == NoCall \notin Calls
ASSUME BoundAssumption == MaxAttempts \in Nat
ASSUME ModeAssumption == Overlap \in BOOLEAN /\ HotReload \in BOOLEAN /\ Native \in BOOLEAN

VARIABLES
  pc,            \* where each call is; "idle" between two calls
  attempt,       \* the attempt a Start call runs; None in Stop and Init
  attempts,      \* Start calls issued so far
  startMu,       \* Runtime.startMu: the call that holds it
  runner,        \* Runtime.runner: the process it points to
  runnerCancel,  \* Runtime.runnerCancel: the context it cancels
  environment,   \* Runtime.RunnerEnvironment # nil
  binary,        \* the attempt whose build is at the runner's constant path
  report,        \* the started artifact filed and not yet stamped: its build
  cancelled,     \* which running contexts are cancelled
  process,       \* the life of each attempt's process
  image,         \* the build each process was launched from
  supervisor,    \* the goroutine that waits for each process
  marked,        \* processes MarkRunnerExited reported as exited unexpectedly
  watcher,       \* is the source watcher delivering changes?
  desired,       \* the desired-state slot the orchestrator polls
  answer         \* the last answer of each call: its status and artifact

call == <<pc, attempt, attempts, answer>>
fields == <<runner, runnerCancel>>
artifact == <<binary, report>>
supervision == <<supervisor, marked>>
world == <<cancelled, process, image>>
watching == <<environment, watcher, desired>>
vars == <<call, startMu, fields, artifact, supervision, world, watching>>

StartLabels == {"checkRunner", "checkCancel", "callCancel", "clearCancel",
                "stopOld", "clearRunner", "build", "endpoints", "getRunner",
                "launch", "supervise", "report", "respond"}
TeardownLabels == {"checkRunner", "checkCancel", "callCancel", "clearCancel",
                   "stopOld", "clearRunner"}
StopLabels == TeardownLabels \cup {"stopWatcher"}
InitLabels == {"init", "initStopWatcher", "initSetup"}
Labels == {"idle", "lock"} \cup StartLabels \cup StopLabels \cup InitLabels

Statuses == {"none", "STARTED", "STOPPED", "INITIALIZED", "ERROR", "PANIC"}
Answers == [status : Statuses, build : MaybeAttempt]
Said(status) == [status |-> status, build |-> None]

TypeOK ==
  /\ pc \in [Calls -> Labels]
  /\ attempt \in [Calls -> MaybeAttempt]
  /\ attempts \in MaybeAttempt
  /\ startMu \in Calls \cup {NoCall}
  /\ runner \in MaybeAttempt
  /\ runnerCancel \in MaybeAttempt
  /\ environment \in BOOLEAN
  /\ binary \in MaybeAttempt
  /\ report \in MaybeAttempt
  /\ cancelled \in [Attempts -> BOOLEAN]
  /\ process \in [Attempts -> {"none", "running", "exited", "stopped"}]
  /\ image \in [Attempts -> MaybeAttempt]
  /\ supervisor \in [Attempts -> {"none", "waiting", "woken", "marking", "done"}]
  /\ marked \in SUBSET Attempts
  /\ watcher \in BOOLEAN
  /\ desired \in {"noop", "load", "start"}
  /\ answer \in [Calls -> Answers]

Init ==
  /\ pc = [c \in Calls |-> "idle"]
  /\ attempt = [c \in Calls |-> None]
  /\ attempts = 0
  /\ startMu = NoCall
  /\ runner = None
  /\ runnerCancel = None
  /\ environment = FALSE
  /\ binary = None
  /\ report = None
  /\ cancelled = [p \in Attempts |-> FALSE]
  /\ process = [p \in Attempts |-> "none"]
  /\ image = [p \in Attempts |-> None]
  /\ supervisor = [p \in Attempts |-> "none"]
  /\ marked = {}
  /\ watcher = FALSE
  /\ desired = "noop"
  /\ answer = [c \in Calls |-> Said("none")]

-----------------------------------------------------------------------------
(* Control. *)

InStart(c) == attempt[c] # None

At(c, l) == pc[c] = l

Goto(c, l) ==
  /\ pc' = [pc EXCEPT ![c] = l]
  /\ UNCHANGED <<attempt, attempts, answer>>

\* A mutant: an answer that keeps startMu.
ReturnHoldingLock(c, a) ==
  /\ pc' = [pc EXCEPT ![c] = "idle"]
  /\ attempt' = [attempt EXCEPT ![c] = None]
  /\ answer' = [answer EXCEPT ![c] = a]
  /\ UNCHANGED <<attempts, startMu>>

\* The handler returns: its deferred functions have run, startMu included.
Return(c, a) ==
  /\ pc' = [pc EXCEPT ![c] = "idle"]
  /\ attempt' = [attempt EXCEPT ![c] = None]
  /\ answer' = [answer EXCEPT ![c] = a]
  /\ startMu' = IF startMu = c THEN NoCall ELSE startMu
  /\ UNCHANGED attempts

\* `defer s.Wool.Catch()` recovers a nil dereference; the caller gets no response.
Panic(c) == Return(c, Said("PANIC"))

Idle(c) == At(c, "idle")
InFlight == {d \in Calls : ~Idle(d)}
Stopping(c) == ~InStart(c) /\ pc[c] \in StopLabels

-----------------------------------------------------------------------------
(* The host's calls.  Nothing upstream promises one Start at a time, or     *)
(* that an Init waits for a Start; a Stop may be kept apart from the rest.  *)

NoStopInFlight == \A d \in Calls : ~Stopping(d)

CallStart(c) ==
  /\ Idle(c)
  /\ environment
  /\ Overlap \/ NoStopInFlight
  /\ attempts < MaxAttempts
  /\ attempts' = attempts + 1
  /\ pc' = [pc EXCEPT ![c] = "lock"]
  /\ attempt' = [attempt EXCEPT ![c] = attempts + 1]
  /\ answer' = [answer EXCEPT ![c] = Said("none")]
  /\ UNCHANGED <<startMu, fields, artifact, supervision, world, watching>>

CallOther(c, entry) ==
  /\ Idle(c)
  /\ pc' = [pc EXCEPT ![c] = entry]
  /\ answer' = [answer EXCEPT ![c] = Said("none")]
  /\ UNCHANGED <<attempt, attempts, startMu, fields, artifact, supervision, world, watching>>

CallStop(c) == (Overlap \/ InFlight = {}) /\ CallOther(c, "stopWatcher")
CallInit(c) == (Overlap \/ NoStopInFlight) /\ CallOther(c, "init")

-----------------------------------------------------------------------------
(* Teardown of the current process: the same statements in Start, where    *)
(* they make room for the replacement, and in Stop.                        *)

AfterTeardown(c) ==
  IF InStart(c) THEN Goto(c, "build") /\ UNCHANGED startMu
                ELSE Return(c, Said("STOPPED"))

CheckRunner(c) ==
  /\ At(c, "checkRunner")
  /\ IF runner # None THEN Goto(c, "checkCancel") /\ UNCHANGED startMu
                      ELSE AfterTeardown(c)
  /\ UNCHANGED <<fields, artifact, supervision, world, watching>>

CheckCancel(c) ==
  /\ At(c, "checkCancel")
  /\ Goto(c, IF runnerCancel # None THEN "callCancel" ELSE "stopOld")
  /\ UNCHANGED <<startMu, fields, artifact, supervision, world, watching>>

\* The field is read again for the call: another goroutine may have cleared it.
CallCancel(c) ==
  /\ At(c, "callCancel")
  /\ IF runnerCancel = None
     THEN Panic(c) /\ UNCHANGED cancelled
     ELSE /\ cancelled' = [cancelled EXCEPT ![runnerCancel] = TRUE]
          /\ Goto(c, "clearCancel") /\ UNCHANGED startMu
  /\ UNCHANGED <<process, image, fields, artifact, supervision, watching>>

ClearCancel(c) ==
  /\ At(c, "clearCancel")
  /\ runnerCancel' = None
  /\ Goto(c, "stopOld")
  /\ UNCHANGED <<startMu, runner, artifact, supervision, world, watching>>

\* Proc.Stop succeeded: the process is gone, by this call or on its own.
Killed(p) == process' = [process EXCEPT ![p] = IF @ = "running" THEN "stopped" ELSE @]

\* A mutant: the error of Proc.Stop is dropped.
StopOldIgnoringErrors(c) ==
  /\ At(c, "stopOld")
  /\ \/ runner = None /\ Panic(c) /\ UNCHANGED process
     \/ runner # None /\ Killed(runner) /\ Goto(c, "clearRunner") /\ UNCHANGED startMu
     \/ runner # None /\ Goto(c, "clearRunner") /\ UNCHANGED <<startMu, process>>
  /\ UNCHANGED <<cancelled, image, fields, artifact, supervision, watching>>

StopOld(c) ==
  /\ At(c, "stopOld")
  /\ \/ runner = None /\ Panic(c) /\ UNCHANGED process
     \/ runner # None /\ Killed(runner) /\ Goto(c, "clearRunner") /\ UNCHANGED startMu
     \/ runner # None /\ Return(c, Said("ERROR")) /\ UNCHANGED process
  /\ UNCHANGED <<cancelled, image, fields, artifact, supervision, watching>>

ClearRunner(c) ==
  /\ At(c, "clearRunner")
  /\ runner' = None
  /\ AfterTeardown(c)
  /\ UNCHANGED <<runnerCancel, artifact, supervision, world, watching>>

Teardown(c) ==
  \/ CheckRunner(c) \/ CheckCancel(c) \/ CallCancel(c)
  \/ ClearCancel(c) \/ StopOld(c) \/ ClearRunner(c)

-----------------------------------------------------------------------------
(* Start. *)

\* A mutant: startMu is not taken.
LockIgnored == TRUE

LockFree == startMu = NoCall

Lock(c) ==
  /\ At(c, "lock")
  /\ LockFree
  /\ startMu' = c
  /\ Goto(c, "checkRunner")
  /\ UNCHANGED <<fields, artifact, supervision, world, watching>>

\* A failed build leaves the executable of the previous one in place and is a
\* failed start, hot reload or not.
BuildBinary(c) ==
  /\ At(c, "build")
  /\ \/ binary' = attempt[c] /\ Goto(c, "endpoints") /\ UNCHANGED startMu
     \/ Return(c, Said("ERROR")) /\ UNCHANGED binary
  /\ UNCHANGED <<report, fields, supervision, world, watching>>

AddEndpoints(c) ==
  /\ At(c, "endpoints")
  /\ \/ runnerCancel' = attempt[c] /\ Goto(c, "getRunner") /\ UNCHANGED startMu
     \/ Return(c, Said("ERROR")) /\ UNCHANGED runnerCancel
  /\ UNCHANGED <<runner, artifact, supervision, world, watching>>

\* The deferred function of an attempt that started no supervisor.
Abandon(c, a) ==
  /\ cancelled' = [cancelled EXCEPT ![attempt[c]] = TRUE]
  /\ runnerCancel' = None
  /\ Return(c, a)

GetRunner(c) ==
  /\ At(c, "getRunner")
  /\ \/ runner' = attempt[c] /\ Goto(c, "launch") /\ UNCHANGED <<startMu, runnerCancel, cancelled>>
     \/ Abandon(c, Said("ERROR")) /\ UNCHANGED runner
  /\ UNCHANGED <<process, image, artifact, supervision, watching>>

\* `s.runner.Start`: the field is read again.
Launch(c) ==
  /\ At(c, "launch")
  /\ \/ /\ runner = None
        /\ Abandon(c, Said("PANIC"))
        /\ UNCHANGED <<runner, process, image>>
     \/ /\ runner # None
        /\ process' = [process EXCEPT ![runner] = "running"]
        /\ image' = [image EXCEPT ![runner] = binary]
        /\ Goto(c, "supervise")
        /\ UNCHANGED <<startMu, fields, cancelled>>
     \/ /\ runner # None
        /\ runner' = None
        /\ Abandon(c, Said("ERROR"))
        /\ UNCHANGED <<process, image>>
  /\ UNCHANGED <<artifact, supervision, watching>>

\* A mutant: no goroutine waits for the process.
ForgetToSupervise(c) ==
  /\ At(c, "supervise")
  /\ Goto(c, "report")
  /\ UNCHANGED <<startMu, fields, artifact, supervision, world, watching>>

Supervise(c) ==
  /\ At(c, "supervise")
  /\ supervisor' = [supervisor EXCEPT ![attempt[c]] = "waiting"]
  /\ Goto(c, "report")
  /\ UNCHANGED <<marked, startMu, fields, artifact, world, watching>>

ReportStartedArtifact(c) ==
  /\ At(c, "report")
  /\ report' = IF Native THEN binary ELSE report
  /\ Goto(c, "respond")
  /\ UNCHANGED <<binary, startMu, fields, supervision, world, watching>>

\* core stamps the pending report on the response and consumes it.
StartResponse(c) ==
  /\ At(c, "respond")
  /\ report' = None
  /\ Return(c, [status |-> "STARTED", build |-> report])
  /\ UNCHANGED <<binary, fields, supervision, world, watching>>

Start(c) ==
  \/ Lock(c)
  \/ BuildBinary(c) \/ AddEndpoints(c) \/ GetRunner(c) \/ Launch(c)
  \/ Supervise(c) \/ ReportStartedArtifact(c) \/ StartResponse(c)

-----------------------------------------------------------------------------
(* Stop (before its teardown) and Init. *)

\* A mutant: Stop leaves the watcher to the teardown's end.
LeaveWatcher(c) ==
  /\ At(c, "stopWatcher")
  /\ Goto(c, "checkRunner")
  /\ UNCHANGED <<startMu, fields, artifact, supervision, world, watching>>

StopWatcher(c) ==
  /\ At(c, "stopWatcher")
  /\ watcher' = FALSE
  /\ Goto(c, "checkRunner")
  /\ UNCHANGED <<environment, desired, startMu, fields, artifact, supervision, world>>

\* Everything before the watcher: request configuration, which changes none of
\* this state when it fails, then the runner environment, created once.
InitEnvironment(c) ==
  /\ At(c, "init")
  /\ \/ environment' = TRUE /\ Goto(c, "initStopWatcher") /\ UNCHANGED startMu
     \/ environment' = TRUE /\ Return(c, Said("ERROR"))
     \/ UNCHANGED environment /\ Return(c, Said("ERROR"))
  /\ UNCHANGED <<watcher, desired, fields, artifact, supervision, world>>

InitStopWatcher(c) ==
  /\ At(c, "initStopWatcher")
  /\ watcher' = FALSE
  /\ IF HotReload THEN Goto(c, "initSetup") /\ UNCHANGED startMu
                  ELSE Return(c, Said("INITIALIZED"))
  /\ UNCHANGED <<environment, desired, fields, artifact, supervision, world>>

SetupWatcher(c) ==
  /\ At(c, "initSetup")
  /\ \/ watcher' = TRUE /\ Return(c, Said("INITIALIZED"))
     \/ watcher' = watcher /\ Return(c, Said("ERROR"))
  /\ UNCHANGED <<environment, desired, fields, artifact, supervision, world>>

InitRuntime(c) == InitEnvironment(c) \/ InitStopWatcher(c) \/ SetupWatcher(c)

-----------------------------------------------------------------------------
(* The supervisor goroutine of process p.  The context is tested once, when *)
(* Wait returns; marking is a later step.                                   *)

WaitReturns(p) ==
  /\ supervisor[p] = "waiting"
  /\ process[p] \in {"exited", "stopped"} \/ cancelled[p]
  /\ supervisor' = [supervisor EXCEPT ![p] = "woken"]
  /\ UNCHANGED <<marked, call, startMu, fields, artifact, world, watching>>

\* A mutant: the context is not looked at.
MarkEveryExit(p) ==
  /\ supervisor[p] = "woken"
  /\ supervisor' = [supervisor EXCEPT ![p] = "marking"]
  /\ UNCHANGED <<marked, call, startMu, fields, artifact, world, watching>>

CheckContext(p) ==
  /\ supervisor[p] = "woken"
  /\ supervisor' = [supervisor EXCEPT ![p] = IF cancelled[p] THEN "done" ELSE "marking"]
  /\ UNCHANGED <<marked, call, startMu, fields, artifact, world, watching>>

MarkRunnerExited(p) ==
  /\ supervisor[p] = "marking"
  /\ marked' = marked \cup {p}
  /\ supervisor' = [supervisor EXCEPT ![p] = "done"]
  /\ UNCHANGED <<call, startMu, fields, artifact, world, watching>>

Supervisor(p) == WaitReturns(p) \/ CheckContext(p) \/ MarkRunnerExited(p)

-----------------------------------------------------------------------------
(* The environment: the user's process, the files being edited, the host's *)
(* poll of the desired state.                                              *)

ProcessExits(p) ==
  /\ process[p] = "running"
  /\ process' = [process EXCEPT ![p] = "exited"]
  /\ UNCHANGED <<cancelled, image, call, startMu, fields, artifact, supervision, watching>>

EventHandler ==
  /\ watcher
  /\ desired' \in {"load", "start"}
  /\ UNCHANGED <<environment, watcher, call, startMu, fields, artifact, supervision, world>>

Poll ==
  /\ desired # "noop"
  /\ desired' = "noop"
  /\ UNCHANGED <<environment, watcher, call, startMu, fields, artifact, supervision, world>>

-----------------------------------------------------------------------------
Proceed(c) == Teardown(c) \/ Start(c) \/ StopWatcher(c) \/ InitRuntime(c)

Next ==
  \/ \E c \in Calls : CallStart(c) \/ CallStop(c) \/ CallInit(c) \/ Proceed(c)
  \/ \E p \in Attempts : Supervisor(p) \/ ProcessExits(p)
  \/ EventHandler
  \/ Poll

Spec == Init /\ [][Next]_vars

\* A goroutine that can step does; Go's mutex hands itself to a waiter within
\* a bounded time; Proc.Stop, BuildBinary and Proc.Start return.
Fairness ==
  /\ \A c \in Calls : WF_vars(Proceed(c)) /\ SF_vars(Lock(c))
  /\ \A p \in Attempts : WF_vars(Supervisor(p))

FairSpec == Spec /\ Fairness

-----------------------------------------------------------------------------
(* Properties. *)

\* What startMu is for (runtime.go:74-81): from the lock to the answer a Start
\* is alone, the path holds its own build once linked, the process it launched
\* runs that build, and nothing but its own report is pending.
Linked == {"endpoints", "getRunner", "launch", "supervise", "report", "respond"}
LockInv ==
  \A c \in Calls :
    /\ InStart(c) /\ ~At(c, "lock") <=> startMu = c
    /\ InStart(c) => pc[c] \in StartLabels \cup {"lock"}
    /\ pc[c] \in ({"lock"} \cup StartLabels) \ TeardownLabels => InStart(c)
    /\ pc[c] \in Linked => binary = attempt[c]
    /\ pc[c] \in {"supervise", "report", "respond"} => image[attempt[c]] = attempt[c]
    /\ At(c, "launch") => runner \in {None, attempt[c]}
    /\ At(c, "respond") => report = IF Native THEN binary ELSE None
ReportInv == report # None => \E c \in Calls : At(c, "respond")

Consistent == TypeOK /\ LockInv /\ ReportInv

\* The artifact stamped on a STARTED answer is the build of the process this
\* very attempt launched, whatever other Starts do meanwhile, and any other
\* answer carries none (package comment, "What a start reports").
AnswerFits(c) ==
  IF answer'[c].status = "STARTED"
  THEN /\ answer'[c].build = IF Native THEN image[attempt[c]] ELSE None
       /\ binary' = image[attempt[c]]
       /\ image[attempt[c]] = attempt[c]
  ELSE answer'[c].build = None
ReportedIsLaunched ==
  [][\A c \in Calls : answer'[c] # answer[c] => AnswerFits(c)]_vars

\* A process outside `runner` can no longer be stopped by anyone.
NoOrphan == \A p \in Attempts : process[p] = "running" => runner = p

\* MarkRunnerExited is only ever said of a process that ended on its own.
MarkedExitedAlone == \A p \in marked : process[p] = "exited"

\* Stop takes no rebuild request once its teardown has begun (runtime.go:560).
InTeardown(c) == ~InStart(c) /\ pc[c] \in TeardownLabels
NoRequestDuringTeardown ==
  [][desired' \notin {desired, "noop"} => \A c \in Calls : ~InTeardown(c)]_vars

\* A process that ended alone, its context alive, is never left without somebody
\* who will report it: its supervisor, or the Start about to leave one behind.
Attended(p) ==
  \/ supervisor[p] \in {"waiting", "woken", "marking"}
  \/ \E c \in Calls : At(c, "supervise") /\ attempt[c] = p
NoCrashLost ==
  \A p \in Attempts :
    process[p] = "exited" => p \in marked \/ cancelled[p] \/ Attended(p)

\* It is reported, unless a teardown came first.
CrashNoticed ==
  \A p \in Attempts : process[p] = "exited" ~> p \in marked \/ cancelled[p]

\* Every call is answered: no path out of Start keeps startMu.
EveryCallAnswered == \A c \in Calls : ~Idle(c) ~> Idle(c)

\* Why NoOrphan and MarkedExitedAlone hold without overlap: a Stop is alone, a
\* Start past the lock has the fields to itself, either gives up a process only
\* after cancelling its context and stopping it, and attempt numbers are never
\* reused.  An Init may come at any time but a Stop's.
Active(c) == pc[c] \in StartLabels \cup StopLabels
Alone ==
  /\ \A c, d \in Calls : c # d /\ Stopping(c) => Idle(d)
  /\ \A c, d \in Calls : c # d /\ Active(c) => ~Active(d)
FreshAttempts ==
  /\ \A c \in Calls : attempt[c] <= attempts
  /\ \A c, d \in Calls : c # d /\ InStart(c) => attempt[c] # attempt[d]
  /\ \A p \in Attempts : p > attempts => process[p] = "none"
  /\ \A c \in Calls : InStart(c) /\ pc[c] \notin {"supervise", "report", "respond"}
                        => process[attempt[c]] = "none"
FieldsFollow ==
  /\ runner # None => cancelled[runner] \/ runnerCancel = runner
  /\ \A c \in Calls :
       /\ pc[c] \in {"build", "endpoints", "getRunner"} => runner = None
       /\ pc[c] \in {"getRunner", "launch"} => runnerCancel = attempt[c]
       /\ At(c, "launch") => /\ runner = attempt[c]
                             /\ \A p \in Attempts : process[p] # "running"
       /\ pc[c] \in {"checkCancel", "callCancel", "clearCancel", "stopOld", "clearRunner"} =>
            runner # None
       /\ At(c, "callCancel") => runnerCancel # None
       /\ pc[c] \in {"clearCancel", "stopOld", "clearRunner"} => cancelled[runner]
       /\ At(c, "clearRunner") => process[runner] # "running"
ExitsFollow ==
  \A p \in Attempts :
    /\ process[p] = "stopped" => cancelled[p]
    /\ supervisor[p] = "woken" => process[p] = "exited" \/ cancelled[p]
    /\ supervisor[p] = "marking" => process[p] = "exited"
Serial ==
  Alone /\ FreshAttempts /\ FieldsFollow /\ ExitsFollow /\ NoOrphan /\ MarkedExitedAlone

\* What a host sees that lets a Stop and every other call wait for each other.
Promised == INSTANCE SupervisedProcess WITH
  running <- {p \in Attempts : process[p] = "running"},
  exited <- {p \in Attempts : process[p] = "exited"},
  stopped <- {p \in Attempts : process[p] = "stopped"},
  blamed <- marked,
  Processes <- Attempts
Supervised == Promised!Spec

=============================================================================
