--------------------------- MODULE AgentOperations ---------------------------
(***************************************************************************)
(* The four servers of the agent at work on one Service: Runtime.Init and  *)
(* the runner environment it creates (pkg/runtime/runtime.go:147-271), the *)
(* operations that run in that environment and in the shared source root   *)
(* (Build, Test, Lint, the discovery of effective inputs, `go get`), and   *)
(* Tooling (pkg/tooling/tooling.go), which forwards its callers to Code    *)
(* and Runtime.                                                            *)
(*                                                                         *)
(* The source root and the Code server are those of SourceBinding; here    *)
(* its goroutines also serve the checks.  One host drives Load, Init and   *)
(* Start, one call after the other.  Init k gives the k-th set of values,  *)
(* and an environment is named by the Init that created it; what Start     *)
(* does besides taking these values is RuntimeLifecycle.                   *)
(***************************************************************************)
EXTENDS SourceBinding, FiniteSets

CONSTANT MaxInits  \* bound on the Inits of a behaviour

ASSUME InitsAssumption == MaxInits \in Nat \ {0}

VARIABLES
  inits,      \* Inits so far: the values of the last one are the current ones
  initPc,     \* where the running Init is
  initOk,     \* did the last Init that ended succeed?
  values,     \* RuntimeContext, fixture and overrides (selection), configurations
              \* and endpoints: the Init that recorded them last
  runner,     \* Runtime.RunnerEnvironment
  active,     \* Service.ActiveEnv
  madeFrom,   \* the values each environment was created with
  ready,      \* environments whose Init succeeded
  job,        \* the check each goroutine serves
  answer      \* what Tooling answers to the caller of each goroutine: a result, or a
              \* refusal that does not say why (one that does ends the request)

Inits == 1..MaxInits
NoEnv == 0    \* a nil environment
Envs  == 0..MaxInits

Values == [selection : Envs, configurations : Envs]
None   == [selection |-> 0, configurations |-> 0]

Kinds == {"code", "build", "test", "lint", "discover"}
NoJob == [kind |-> "none", reads |-> 0, dirs |-> {}, envs |-> {}, began |-> NoEnv,
          failed |-> FALSE, moved |-> FALSE]

\* A request: the shared reads it still has to make, what the ones it made gave
\* it, the environment published when it began, whether a part failed, and
\* (history) whether a Load moved the root between two of its reads.
Jobs == [kind : Kinds \cup {"none"}, reads : 0..3, dirs : SUBSET (Dirs \cup {NoDir}),
         envs : SUBSET Envs, began : Envs, failed : BOOLEAN, moved : BOOLEAN]

host   == <<inits, initPc, initOk, values, runner, active, madeFrom, ready>>
served == <<job, answer>>
agentVars == <<vars, host, served>>

AgentTypeOK ==
  /\ TypeOK
  /\ inits \in Envs
  /\ initPc \in {"idle", "selection", "configurations", "check", "create",
                 "assign", "publish", "initialize", "watch"}
  /\ initOk \in BOOLEAN
  /\ values \in Values
  /\ runner \in Envs
  /\ active \in Envs
  /\ madeFrom \in [Inits -> Values]
  /\ ready \in SUBSET Inits
  /\ job \in [Calls -> Jobs]
  /\ answer \in [Calls -> {"none", "done", "unexplained"}]

AgentInit ==
  /\ Init
  /\ inits = 0 /\ initPc = "idle" /\ initOk = FALSE
  /\ values = None
  /\ runner = NoEnv /\ active = NoEnv
  /\ madeFrom = [e \in Inits |-> None]
  /\ ready = {}
  /\ job = [c \in Calls |-> NoJob]
  /\ answer = [c \in Calls |-> "none"]

-----------------------------------------------------------------------------
(* Runtime.Init.  A failure leaves everything the steps before it changed. *)

GotoInit(l) == initPc' = l /\ UNCHANGED initOk
InitEnds(ok) == initPc' = "idle" /\ initOk' = ok

\* The host has loaded the service.
InitCall ==
  /\ initPc = "idle" /\ loadPc = "idle"
  /\ loads > 0 /\ inits < MaxInits
  /\ inits' = inits + 1
  /\ GotoInit("selection")
  /\ UNCHANGED <<vars, values, runner, active, madeFrom, ready, served>>

\* RuntimeContext, fixture and overrides.
RecordSelection ==
  /\ initPc = "selection"
  /\ values' = [values EXCEPT !.selection = inits]
  /\ GotoInit("configurations")
  /\ UNCHANGED <<vars, inits, runner, active, madeFrom, ready, served>>

\* A mutant: a configuration that cannot be added is skipped.
RecordWhatCanBe ==
  /\ initPc = "configurations"
  /\ values' = [values EXCEPT !.configurations = inits] \/ UNCHANGED values
  /\ GotoInit("check")
  /\ UNCHANGED <<vars, inits, runner, active, madeFrom, ready, served>>

\* The configurations of the service, the workspace and the dependencies, and
\* the endpoints; any of them may fail, after others were recorded.
RecordConfigurations ==
  /\ initPc = "configurations"
  /\ \/ values' = [values EXCEPT !.configurations = inits] /\ GotoInit("check")
     \/ /\ values' = [values EXCEPT !.configurations = inits] \/ UNCHANGED values
        /\ InitEnds(FALSE)
  /\ UNCHANGED <<vars, inits, runner, active, madeFrom, ready, served>>

\* A mutant: every Init makes an environment.
MakeAnother ==
  /\ initPc = "check"
  /\ GotoInit("create")
  /\ UNCHANGED <<vars, inits, values, runner, active, madeFrom, ready, served>>

\* An environment is made once; a later Init finds it and keeps it.
CheckRunner ==
  /\ initPc = "check"
  /\ GotoInit(IF runner = NoEnv THEN "create" ELSE "initialize")
  /\ UNCHANGED <<vars, inits, values, runner, active, madeFrom, ready, served>>

\* A mutant: the runner is assigned before its variables are collected.
CreateAssigned ==
  /\ initPc = "create"
  /\ runner' = inits
  /\ \/ madeFrom' = [madeFrom EXCEPT ![inits] = values] /\ GotoInit("assign")
     \/ UNCHANGED madeFrom /\ InitEnds(FALSE)
  /\ UNCHANGED <<vars, inits, values, active, ready, served>>

\* CreateRunner, then the variables given to the environment for good; an
\* environment whose variables cannot be collected is dropped.
CreateRunner ==
  /\ initPc = "create"
  /\ \/ madeFrom' = [madeFrom EXCEPT ![inits] = values] /\ GotoInit("assign")
     \/ UNCHANGED madeFrom /\ InitEnds(FALSE)
  /\ UNCHANGED <<vars, inits, values, runner, active, ready, served>>

AssignRunner ==
  /\ initPc = "assign"
  /\ runner' = inits
  /\ GotoInit("publish")
  /\ UNCHANGED <<vars, inits, values, active, madeFrom, ready, served>>

\* Service.SetRunnerEnvironment.
SetRunnerEnvironment ==
  /\ initPc = "publish"
  /\ active' = inits
  /\ GotoInit("initialize")
  /\ UNCHANGED <<vars, inits, values, runner, madeFrom, ready, served>>

\* RunnerEnvironment.Init, on every Init.
InitializeRunner ==
  /\ initPc = "initialize"
  /\ \/ ready' = ready \cup {runner} /\ GotoInit("watch")
     \/ ready' = ready \ {runner} /\ InitEnds(FALSE)
  /\ UNCHANGED <<vars, inits, values, runner, active, madeFrom, served>>

\* StopWatcher and, with hot reload, a new watcher on the source directory.
SetupWatcher ==
  /\ initPc = "watch"
  /\ \E ok \in BOOLEAN : InitEnds(ok)
  /\ UNCHANGED <<vars, inits, values, runner, active, madeFrom, ready, served>>

RuntimeInit ==
  \/ InitCall \/ RecordSelection \/ RecordConfigurations \/ CheckRunner \/ CreateRunner
  \/ AssignRunner \/ SetRunnerEnvironment \/ InitializeRunner \/ SetupWatcher

-----------------------------------------------------------------------------
(* Requests.  A goroutine serves one at a time, to its answer. *)

Free(c) == pc[c] = "idle" /\ job[c] = NoJob /\ answer[c] = "none"

\* The reads of the shared state a request makes: each of the root, the
\* environment, or both.
Reads(kind) ==
  CASE kind = "lint" -> 2 [] kind = "discover" -> 3 [] kind = "code" -> 0 [] OTHER -> 1

Begun(kind) == [kind |-> kind, reads |-> Reads(kind), dirs |-> {}, envs |-> {},
                began |-> active, failed |-> FALSE, moved |-> FALSE]

Deliver(c) ==
  /\ answer[c] # "none"
  /\ answer' = [answer EXCEPT ![c] = "none"]
  /\ job' = [job EXCEPT ![c] = NoJob]
  /\ UNCHANGED <<vars, host>>

\* The request ends as served, unless it is refused: with a gRPC error or a
\* typed failure.
Ends(c, as, outcomes) ==
  \E outcome \in outcomes :
    IF outcome = "refused"
    THEN job' = [job EXCEPT ![c] = NoJob] /\ UNCHANGED answer
    ELSE job' = [job EXCEPT ![c] = as] /\ answer' = [answer EXCEPT ![c] = outcome]

CodeRequest(c) ==
  /\ Free(c)
  /\ Request(c)
  /\ job' = IF op'[c] = "ensureInit" THEN job ELSE [job EXCEPT ![c] = Begun("code")]
  /\ UNCHANGED <<host, answer>>

CodeEnters(c) ==
  /\ Enter(c)
  /\ UNCHANGED <<host, served>>

\* Execute returns the error of the resolution as its own.
CodeResolves(c) ==
  /\ ResolveSourceLocation(c)
  /\ IF pc'[c] = "idle" THEN Ends(c, NoJob, {"refused"}) ELSE UNCHANGED served
  /\ UNCHANGED host

CodeInitializes(c) ==
  /\ initServer(c)
  /\ UNCHANGED <<host, served>>

\* A mutant: the refusal carries no failure.
BareResponse == [result |-> TRUE, success |-> FALSE, failure |-> FALSE]

\* handleAddDependency and handleRemoveDependency explain a tool that failed.
failedResponse == [result |-> TRUE, success |-> FALSE, failure |-> TRUE]
succeeded      == [result |-> TRUE, success |-> TRUE, failure |-> FALSE]

\* The operations of the core server either succeed, say why they failed, or
\* come back with no result of the kind that was asked for.
CoreResponses ==
  {succeeded, failedResponse} \cup [result : {FALSE}, success : {FALSE}, failure : BOOLEAN]

\* Tooling: a missing result is an internal failure, a failure is passed on.
Forwarded(response) ==
  IF response.result /\ response.success THEN "done"
  ELSE IF ~response.result \/ response.failure THEN "refused" ELSE "unexplained"

\* Code.runTool: the environment published last, or one of its own.
RanTool(c) == [job[c] EXCEPT !.envs = IF op[c] = "fix" THEN @ ELSE @ \cup {active}]

\* `go get`, `go mod edit` or the core server's own work; a module edit that
\* succeeded goes on to the tidy, whose outcome is ignored.
Responses(o) ==
  CASE o = "fix" -> CoreResponses
    [] o = "addDependency" -> {succeeded, failedResponse}
    [] o = "removeDependency" -> {failedResponse}

CodeRuns(c) ==
  /\ RunTool(c)
  /\ IF pc'[c] = "tidy" THEN job' = [job EXCEPT ![c] = RanTool(c)] /\ UNCHANGED answer
                        ELSE Ends(c, RanTool(c), {Forwarded(r) : r \in Responses(op[c])})
  /\ UNCHANGED host

CodeTidies(c) ==
  /\ Tidy(c)
  /\ Ends(c, RanTool(c), {Forwarded(succeeded)})
  /\ UNCHANGED host

ServeCode(c) ==
  CodeRequest(c) \/ CodeEnters(c) \/ CodeResolves(c) \/ CodeInitializes(c)
    \/ CodeRuns(c) \/ CodeTidies(c)

\* Build is refused without a runner, and runs in the one it finds.
BeginCheck(c) ==
  /\ Free(c)
  /\ \E kind \in Kinds \ {"code"} :
       /\ kind = "build" => runner # NoEnv
       /\ job' = [job EXCEPT ![c] = [Begun(kind) EXCEPT !.envs = IF kind = "build" THEN {runner} ELSE {}]]
  /\ UNCHANGED <<vars, host, answer>>

\* What a read gave, and the answer once nothing is left to read.  A check may
\* always fail; it succeeds only if none of its parts failed.
Seen(c, dirs, envs, failed) ==
  LET now == [job[c] EXCEPT !.reads = @ - 1, !.dirs = @ \cup dirs, !.envs = @ \cup envs,
                            !.failed = @ \/ failed]
  IN  IF now.reads > 0
      THEN job' = [job EXCEPT ![c] = now] /\ UNCHANGED answer
      ELSE Ends(c, now, {"refused"} \cup (IF now.failed THEN {} ELSE {"done"}))

Reading(c, kinds) == job[c].kind \in kinds /\ job[c].reads > 0

\* A discovery resolves the root, then makes a listing without the tests and one
\* with them.
Listing(c) == job[c].kind = "discover" /\ job[c].reads < 3

\* Build, the discovery of inputs and each of its two listings resolve the root;
\* a listing runs in the published environment, or one of its own.
ResolvingRead(c) ==
  /\ Reading(c, {"build", "discover"})
  /\ ResolveOutside
  /\ Seen(c, {source'}, IF Listing(c) THEN {active} ELSE {}, FALSE)
  /\ UNCHANGED host

\* A root that cannot be resolved is an error of Build; a discovery then answers,
\* without an error, that its inputs are unresolved.
ResolutionFails(c) ==
  /\ Reading(c, {"build", "discover"})
  /\ FailOutside
  /\ Ends(c, NoJob, IF job[c].kind = "build" THEN {"refused"} ELSE {"done"})
  /\ UNCHANGED host

\* A listing that has no environment or no variables is noted as unresolved, and
\* the discovery goes on.
ListingFails(c) ==
  /\ Reading(c, {"discover"}) /\ Listing(c)
  /\ ResolveOutside
  /\ Seen(c, {}, {}, FALSE)
  /\ UNCHANGED host

\* Test runs in the environment, or a formula in none.
ReadForTest(c) ==
  /\ Reading(c, {"test"})
  /\ \E envs \in {{runner}, {}} : Seen(c, {source}, envs, FALSE)
  /\ UNCHANGED <<vars, host>>

\* A mutant: a formatting check of no directory is a pass.
ReadForLintLeniently(c) ==
  /\ Reading(c, {"lint"})
  /\ Seen(c, {source}, IF job[c].reads = 1 THEN {runner} ELSE {}, FALSE)
  /\ UNCHANGED <<vars, host>>

\* The formatting check, then the vet, of a request that names no target (what
\* Tooling makes): the check of no directory is an error.
ReadForLint(c) ==
  /\ Reading(c, {"lint"})
  /\ IF job[c].reads = 2 THEN Seen(c, {source}, {}, source = NoDir)
                         ELSE Seen(c, {source}, {runner}, FALSE)
  /\ UNCHANGED <<vars, host>>

ServeCheck(c) ==
  \/ BeginCheck(c) \/ ResolvingRead(c) \/ ResolutionFails(c) \/ ListingFails(c)
  \/ ReadForTest(c) \/ ReadForLint(c)

\* A check that has read the root and will read it again.
Between(c) == job[c].reads > 0 /\ job[c].dirs # {}

\* The checks under which the root moves are marked; one that was not bound yet
\* does not move.
MarkMoved ==
  job' = [c \in Calls |->
            [job[c] EXCEPT !.moved = @ \/ (Between(c) /\ source \notin {NoDir, source'})]]

Loads ==
  /\ initPc = "idle"
  /\ RuntimeLoad \/ BuilderLoad
  /\ MarkMoved
  /\ UNCHANGED <<host, answer>>

Edits == Edit /\ UNCHANGED <<host, served>>

AgentNext ==
  \/ RuntimeInit \/ Loads \/ Edits
  \/ \E c \in Calls : ServeCode(c) \/ ServeCheck(c) \/ Deliver(c)

AgentSpec == AgentInit /\ [][AgentNext]_agentVars

-----------------------------------------------------------------------------
(* Properties. *)

\* Between two Inits Code, the discovery of inputs and the Runtime run in one
\* environment, whichever step of an Init failed ("so every spawn routes through
\* the same mode", service.go:47-50); and when the Init succeeded it is one that
\* is initialised (what effective_input_plans.go:63 asks of Build's runner).
OneEnvironment ==
  /\ initPc = "idle" => runner = active
  /\ initPc = "idle" /\ initOk => runner \in ready

\* A successful Init has recorded its own values, all of them, whatever an
\* earlier one that failed left half recorded; and an environment is never made
\* from a half-recorded Init.
ValuesOfOneInit ==
  /\ initPc = "idle" /\ initOk => values = [selection |-> inits, configurations |-> inits]
  /\ runner # NoEnv => madeFrom[runner] = [selection |-> runner, configurations |-> runner]

\* A request that found a published environment runs all its commands in that
\* one, however many Inits pass meanwhile (runtime.go:234).
OneEnvironmentPerRequest ==
  \A c \in Calls : job[c].began # NoEnv => job[c].envs \subseteq {job[c].began}

\* The parts of a successful check, the formatting and the vet of a Lint or the
\* listings of a discovery, look at one module, unless a Load moves the root
\* between them (runtime.go:541-542, effective_inputs.go:75, 141): they read it
\* apart, and nothing but a Load tells them apart, whoever bound it and whatever
\* was edited.
OneModulePerCheck ==
  \A c \in Calls : answer[c] = "done" /\ ~job[c].moved => Cardinality(job[c].dirs) <= 1

\* Tooling never refuses without saying why (tooling.go, code.go:181-204).
RefusalsAreExplained ==
  /\ AgentTypeOK
  /\ \A c \in Calls : answer[c] # "unexplained"

\* What Start gives a process: the variables of the environment it runs in, and
\* the current ones.
Launched == {madeFrom[runner], values}

\* What runtime_test.go:151-153 says of Init: once it has answered, a process is
\* given its values, and no longer those of an earlier one.
InitIsAuthoritative ==
  initPc = "idle" /\ initOk => Launched = {[selection |-> inits, configurations |-> inits]}
=============================================================================
