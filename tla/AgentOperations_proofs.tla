----------------------- MODULE AgentOperations_proofs -----------------------
(***************************************************************************)
(* The agent under any number of requests, Inits, Loads and edits: one     *)
(* runner environment, made once from the values of one Init, and one      *)
(* source root for every request under which no Load moves it.             *)
(***************************************************************************)
EXTENDS AgentOperations, SourceBinding_proofs, FiniteSetTheorems, TLAPS

\* In the agent the root and the Code server take the steps of SourceBinding, or
\* none, so what is shown there of Spec holds here.
LEMMA AgentBinding == AgentSpec => Spec
<1>1. AgentInit => Init
  BY DEF AgentInit
<1>2. [AgentNext]_agentVars => [Next]_vars
  <2> SUFFICES ASSUME AgentNext PROVE [Next]_vars
    BY DEF agentVars
  <2>1. CASE RuntimeInit
    BY <2>1 DEF RuntimeInit, InitCall, RecordSelection, RecordConfigurations, CheckRunner,
                CreateRunner, AssignRunner, SetRunnerEnvironment, InitializeRunner, SetupWatcher
  <2>2. CASE Loads \/ Edits
    BY <2>2 DEF Loads, Edits, Next
  <2>3. ASSUME NEW c \in Calls, ServeCode(c) PROVE [Next]_vars
    BY <2>3 DEF ServeCode, CodeRequest, CodeEnters, CodeResolves, CodeInitializes, CodeRuns,
                CodeTidies, Next, Execute
  <2>4. ASSUME NEW c \in Calls, ServeCheck(c) \/ Deliver(c) PROVE [Next]_vars
    BY <2>4 DEF ServeCheck, BeginCheck, ResolvingRead, ResolutionFails, ListingFails, ReadForTest,
                ReadForLint, Deliver, Next
  <2> QED
    BY <2>1, <2>2, <2>3, <2>4 DEF AgentNext
<1> QED
  BY <1>1, <1>2, PTL DEF AgentSpec, Spec

LEMMA AgentBound == AgentSpec => []Binding
BY AgentBinding, CodeBinding, PTL

Whole(k) == [selection |-> k, configurations |-> k]

\* Runtime.Init: where each step leaves the runner, the published environment
\* and the values.
HostInv ==
  /\ inits \in Envs /\ runner \in Envs /\ active \in Envs
  /\ initPc \in {"idle", "selection", "configurations", "check", "create",
                 "assign", "publish", "initialize", "watch"}
  /\ values \in Values
  /\ madeFrom \in [Inits -> Values]
  /\ initPc # "idle" => inits \in Inits
  /\ IF initPc = "publish" THEN active = NoEnv ELSE runner = active
  /\ initPc \in {"create", "assign"} => runner = NoEnv
  /\ initPc \in {"publish", "initialize", "watch"} => runner # NoEnv
  /\ initPc \in {"assign", "publish"} => madeFrom[inits] = Whole(inits)
  /\ initPc = "publish" => runner = inits
  /\ initPc = "configurations" => values.selection = inits
  /\ initPc \in {"check", "create", "assign", "publish", "initialize", "watch"} => values = Whole(inits)
  /\ initPc = "watch" => runner \in ready
  /\ initPc = "idle" /\ initOk => values = Whole(inits) /\ runner \in ready
  /\ runner # NoEnv => madeFrom[runner] = Whole(runner)

LEMMA HostInvInit == AgentInit => HostInv
BY InitsAssumption DEF AgentInit, HostInv, Envs, Inits, Values, None, NoEnv

LEMMA HostInvStep ==
  ASSUME HostInv, RuntimeInit
  PROVE  HostInv' /\ (active = NoEnv \/ active' = active) /\ UNCHANGED <<vars, served>>
<1> USE InitsAssumption DEF HostInv, Envs, Inits, Values, NoEnv, Whole, GotoInit, InitEnds
<1>1. CASE InitCall
  BY <1>1 DEF InitCall
<1>2. CASE RecordSelection
  BY <1>2 DEF RecordSelection
<1>3. CASE RecordConfigurations
  BY <1>3 DEF RecordConfigurations
<1>4. CASE CheckRunner
  BY <1>4 DEF CheckRunner
<1>5. CASE CreateRunner
  BY <1>5 DEF CreateRunner
<1>6. CASE AssignRunner
  BY <1>6 DEF AssignRunner
<1>7. CASE SetRunnerEnvironment
  BY <1>7 DEF SetRunnerEnvironment
<1>8. CASE InitializeRunner
  BY <1>8 DEF InitializeRunner
<1>9. CASE SetupWatcher
  BY <1>9 DEF SetupWatcher
<1> QED
  BY <1>1, <1>2, <1>3, <1>4, <1>5, <1>6, <1>7, <1>8, <1>9 DEF RuntimeInit

\* The reads of a request agree, as long as none of them failed: what it saw is
\* the root of now, if it will read again, or all there was to see.
SeesOne(j, root) ==
  \/ j.failed
  \/ j.dirs = {}
  \/ root # NoDir /\ j.dirs = {root}
  \/ j.reads = 0 /\ \E dir : j.dirs = {dir}

Labels == {"idle", "lock", "resolve", "init", "tool", "tidy"}

\* What is kept of one request.
Served(j, label, said, root) ==
  /\ j.began # NoEnv => j.began = active /\ j.envs \subseteq {active}
  /\ ~j.moved => SeesOne(j, root)
  /\ label # "idle" => j.kind \in {"code", "none"}
  /\ j.kind \in {"code", "none"} => j.dirs = {} /\ ~j.failed /\ j.reads = 0
  /\ j.kind = "test" => j.reads <= 1
  /\ j.kind = "lint" => j.reads <= 2
  /\ said # "none" => label = "idle" /\ j.reads = 0
  /\ said = "done" => ~j.failed

RequestInv ==
  /\ source \in Dirs \cup {NoDir}
  /\ job \in [Calls -> Jobs]
  /\ answer \in [Calls -> {"none", "done", "unexplained"}]
  /\ pc \in [Calls -> Labels]
  /\ \A c \in Calls : Served(job[c], pc[c], answer[c], source)

LEMMA NoJobType == NoJob \in Jobs
BY InitsAssumption DEF NoJob, Jobs, Envs, NoEnv

LEMMA BegunType ==
  ASSUME active \in Envs, NEW kind \in Kinds
  PROVE  Begun(kind) \in Jobs /\ Begun(kind).kind = kind /\ Begun(kind).began = active
         /\ Begun(kind).dirs = {} /\ Begun(kind).envs = {}
         /\ ~Begun(kind).failed /\ ~Begun(kind).moved
         /\ Begun(kind).reads = Reads(kind)
<1>1. Reads(kind) \in 0..3
  BY DEF Kinds, Reads
<1> QED
  BY <1>1 DEF Begun, Jobs

LEMMA RequestInvInit == AgentInit => RequestInv
<1> SUFFICES ASSUME AgentInit PROVE RequestInv
  OBVIOUS
<1>1. job \in [Calls -> Jobs] /\ \A c \in Calls : Served(job[c], pc[c], answer[c], source)
  BY NoJobType DEF AgentInit, Init, NoJob, Served, SeesOne
<1> QED
  BY <1>1 DEF AgentInit, Init, RequestInv, Labels

\* The frame of a request's step, and what it makes of the request.
Serves(c) ==
  /\ UNCHANGED host
  /\ source' = source \/ source = NoDir
  /\ \E j \in Jobs, label \in Labels, said \in {"none", "done", "unexplained"} :
       /\ job' = [job EXCEPT ![c] = j]
       /\ pc' = [pc EXCEPT ![c] = label]
       /\ answer' = [answer EXCEPT ![c] = said]
       /\ Served(j, label, said, source')

LEMMA ServesKeeps ==
  ASSUME HostInv, RequestInv, source' \in Dirs \cup {NoDir}, NEW c \in Calls, Serves(c)
  PROVE  HostInv' /\ RequestInv' /\ active' = active
<1> USE DEF RequestInv
<1>1. UNCHANGED host /\ active' = active
  BY DEF Serves, host
<1>2. HostInv'
  BY <1>1 DEF HostInv, host
<1>4. source' = source \/ source = NoDir
  BY DEF Serves
<1>5. PICK j \in Jobs, label \in Labels, said \in {"none", "done", "unexplained"} :
        /\ job' = [job EXCEPT ![c] = j]
        /\ pc' = [pc EXCEPT ![c] = label]
        /\ answer' = [answer EXCEPT ![c] = said]
        /\ Served(j, label, said, source')
  BY DEF Serves
<1>6. ASSUME NEW d \in Calls PROVE Served(job[d], pc[d], answer[d], source)' 
  <2>1. CASE d = c
    BY <1>1, <1>5, <2>1 DEF Served
  <2>2. CASE d # c
    <3>1. job'[d] = job[d] /\ pc'[d] = pc[d] /\ answer'[d] = answer[d]
      BY <1>5, <2>2
    <3> QED
      BY <1>1, <1>4, <3>1 DEF Served, SeesOne
  <2> QED
    BY <2>1, <2>2
<1>7. job' \in [Calls -> Jobs]
  BY <1>5
<1>8. answer' \in [Calls -> {"none", "done", "unexplained"}]
  BY <1>5
<1>9. pc' \in [Calls -> Labels]
  BY <1>5
<1> QED
  BY <1>1, <1>2, <1>6, <1>7, <1>8, <1>9 DEF Dirs, Labels

\* The end of a request.
LEMMA EndsAs ==
  ASSUME RequestInv, NEW c \in Calls, NEW as \in Jobs, NEW outcomes,
         outcomes \subseteq {"done", "refused", "unexplained"}, Ends(c, as, outcomes),
         answer[c] = "none"
  PROVE  \E j \in {NoJob, as}, said \in {"none", "done", "unexplained"} :
           /\ job' = [job EXCEPT ![c] = j]
           /\ answer' = [answer EXCEPT ![c] = said]
           /\ said = "done" => j = as /\ "done" \in outcomes
<1> PICK outcome \in outcomes :
      IF outcome = "refused"
      THEN job' = [job EXCEPT ![c] = NoJob] /\ UNCHANGED answer
      ELSE job' = [job EXCEPT ![c] = as] /\ answer' = [answer EXCEPT ![c] = outcome]
  BY DEF Ends
<1>1. CASE outcome = "refused"
  <2>1. answer' = [answer EXCEPT ![c] = "none"]
    BY <1>1 DEF RequestInv
  <2> QED
    BY <1>1, <2>1
<1>2. CASE outcome # "refused"
  BY <1>2
<1> QED
  BY <1>1, <1>2

LEMMA NoJobServed ==
  ASSUME NEW label \in Labels, NEW root
  PROVE  Served(NoJob, label, "none", root) /\ Served(NoJob, "idle", "unexplained", root)
BY DEF Served, NoJob, SeesOne

\* The steps of a Code request that leave the request as it is.
LEMMA CodeLabelStep ==
  ASSUME HostInv, RequestInv, NEW c \in Calls, CodeRequest(c) \/ CodeEnters(c) \/ CodeInitializes(c)
  PROVE  Serves(c)
<1> USE DEF RequestInv
<1>1. CASE CodeRequest(c)
  <2> DEFINE j == IF op'[c] = "ensureInit" THEN job[c] ELSE Begun("code")
  <2>1. Free(c) /\ pc' = [pc EXCEPT ![c] = "lock"] /\ UNCHANGED <<source, host, answer>>
    BY <1>1 DEF CodeRequest, Request, Goto, binding
  <2>2. "code" \in Kinds /\ active \in Envs /\ Reads("code") = 0
    BY DEF Kinds, HostInv, Reads
  <2>3. job' = [job EXCEPT ![c] = j] /\ answer' = [answer EXCEPT ![c] = "none"]
    BY <1>1, <2>1 DEF CodeRequest, Free
  <2>4. j \in Jobs /\ Served(j, "lock", "none", source')
    <3>1. CASE op'[c] = "ensureInit"
      BY <2>1, <3>1, NoJobType, NoJobServed DEF Free, Labels
    <3>2. CASE op'[c] # "ensureInit"
      BY <2>2, <3>2, BegunType DEF Served, SeesOne
    <3> QED
      BY <3>1, <3>2
  <2> QED
    BY <2>1, <2>3, <2>4 DEF Serves, Labels
<1>2. CASE CodeEnters(c) \/ CodeInitializes(c)
  <2>1. /\ UNCHANGED <<source, host, served>> /\ pc[c] # "idle"
        /\ \E label \in Labels : pc' = [pc EXCEPT ![c] = label]
    BY <1>2 DEF CodeEnters, Enter, CodeInitializes, initServer, Leave, Goto, Labels, binding
  <2>2. PICK label \in Labels : pc' = [pc EXCEPT ![c] = label]
    BY <2>1
  <2>3. job' = [job EXCEPT ![c] = job[c]] /\ answer' = [answer EXCEPT ![c] = answer[c]]
    BY <2>1 DEF served
  <2>4. Served(job[c], label, answer[c], source')
    BY <2>1 DEF Served
  <2> QED
    BY <2>1, <2>2, <2>3, <2>4 DEF Serves
<1> QED
  BY <1>1, <1>2

\* A Code request resolves the root, or ends.
LEMMA CodeResolveStep ==
  ASSUME HostInv, RequestInv, NEW c \in Calls, CodeResolves(c)
  PROVE  Serves(c)
<1> USE DEF RequestInv
<1>1. UNCHANGED host /\ pc[c] = "resolve"
  BY DEF CodeResolves, ResolveSourceLocation
<1>2. answer[c] = "none" /\ Served(job[c], pc[c], answer[c], source)
  BY <1>1 DEF Served
<1>0. source' = source \/ source = NoDir
  BY DEF CodeResolves, ResolveSourceLocation, Resolve, ResolveFails, binding
<1>3. CASE Resolve /\ Goto(c, "init")
  <2>1. UNCHANGED served /\ pc' = [pc EXCEPT ![c] = "init"]
    BY <1>3 DEF CodeResolves, Goto
  <2>2. job' = [job EXCEPT ![c] = job[c]] /\ answer' = [answer EXCEPT ![c] = "none"]
    BY <1>2, <2>1 DEF served
  <2>3. Served(job[c], "init", "none", source')
    BY <1>1, <1>2 DEF Served, SeesOne
  <2> QED
    BY <1>0, <1>1, <2>1, <2>2, <2>3 DEF Serves, Labels
<1>4. CASE Leave(c) /\ ResolveFails
  <2>1. pc' = [pc EXCEPT ![c] = "idle"] /\ Ends(c, NoJob, {"refused"})
    BY <1>4 DEF CodeResolves, Leave, Goto
  <2>2. job' = [job EXCEPT ![c] = NoJob] /\ answer' = [answer EXCEPT ![c] = "none"]
    BY <1>2, <2>1 DEF Ends
  <2> QED
    BY <1>0, <1>1, <2>1, <2>2, NoJobType, NoJobServed DEF Serves, Labels
<1> QED
  BY <1>3, <1>4 DEF CodeResolves, ResolveSourceLocation

\* The command of a Code request runs in the environment published now, which is
\* the one that was published when the request began, if there was one.
LEMMA RanToolServed ==
  ASSUME HostInv, RequestInv, NEW c \in Calls, pc[c] # "idle", NEW label \in Labels,
         NEW said \in {"none", "done", "unexplained"}, said # "none" => label = "idle"
  PROVE  RanTool(c) \in Jobs /\ Served(RanTool(c), label, said, source)
<1>1. job[c] \in Jobs /\ Served(job[c], pc[c], answer[c], source) /\ active \in Envs
  BY DEF RequestInv, HostInv
<1>2. RanTool(c) \in Jobs
  BY <1>1 DEF RanTool, Jobs
<1>3. /\ RanTool(c).kind = job[c].kind /\ RanTool(c).began = job[c].began
      /\ RanTool(c).dirs = job[c].dirs /\ RanTool(c).failed = job[c].failed
      /\ RanTool(c).reads = job[c].reads /\ RanTool(c).moved = job[c].moved
      /\ RanTool(c).envs \subseteq job[c].envs \cup {active}
  BY <1>1 DEF RanTool, Jobs
<1> QED
  BY <1>1, <1>2, <1>3 DEF Served, SeesOne

LEMMA CodeToolStep ==
  ASSUME HostInv, RequestInv, NEW c \in Calls, CodeRuns(c) \/ CodeTidies(c)
  PROVE  Serves(c)
<1> USE DEF RequestInv
<1>1. /\ UNCHANGED <<source, host>> /\ pc[c] # "idle"
      /\ pc' = [pc EXCEPT ![c] = "idle"] \/ pc' = [pc EXCEPT ![c] = "tidy"]
  BY DEF CodeRuns, RunTool, CodeTidies, Tidy, ToolEnds, Leave, Goto
<1>2. answer[c] = "none"
  BY <1>1 DEF Served
<1>3. CASE pc' = [pc EXCEPT ![c] = "tidy"]
  <2>1. job' = [job EXCEPT ![c] = RanTool(c)] /\ answer' = [answer EXCEPT ![c] = "none"]
    BY <1>2, <1>3 DEF CodeRuns, CodeTidies, Tidy, ToolEnds, Leave, Goto
  <2> QED
    BY <1>1, <1>3, <2>1, RanToolServed DEF Serves, Labels
<1>4. CASE pc' = [pc EXCEPT ![c] = "idle"]
  <2>1. RanTool(c) \in Jobs
    BY <1>1, RanToolServed DEF Labels
  <2>2. \E outcomes \in SUBSET {"done", "refused", "unexplained"} : Ends(c, RanTool(c), outcomes)
    <3>1. \A response : Forwarded(response) \in {"done", "refused", "unexplained"}
      BY DEF Forwarded
    <3>2. {Forwarded(r) : r \in Responses(op[c])} \subseteq {"done", "refused", "unexplained"}
      BY <3>1
    <3> QED
      BY <1>4, <3>1, <3>2 DEF CodeRuns, CodeTidies
  <2>3. PICK j \in {NoJob, RanTool(c)}, said \in {"none", "done", "unexplained"} :
          /\ job' = [job EXCEPT ![c] = j]
          /\ answer' = [answer EXCEPT ![c] = said]
          /\ said = "done" => j = RanTool(c)
    BY <1>2, <2>1, <2>2, EndsAs
  <2>4. j \in Jobs /\ Served(j, "idle", said, source)
    BY <1>1, <2>3, RanToolServed, NoJobServed, NoJobType DEF Labels
  <2> QED
    BY <1>1, <1>4, <2>3, <2>4 DEF Serves, Labels
<1> QED
  BY <1>1, <1>3, <1>4

\* A check begins with nothing seen; a Build has its environment already.
LEMMA BeginStep ==
  ASSUME HostInv, RequestInv, NEW c \in Calls, BeginCheck(c)
  PROVE  Serves(c)
<1> USE DEF RequestInv
<1>1. Free(c) /\ UNCHANGED <<vars, host, answer>>
  BY DEF BeginCheck
<1>2. PICK kind \in Kinds \ {"code"} :
        job' = [job EXCEPT ![c] = [Begun(kind) EXCEPT !.envs = IF kind = "build" THEN {runner} ELSE {}]]
  BY DEF BeginCheck
<1> DEFINE j == [Begun(kind) EXCEPT !.envs = IF kind = "build" THEN {runner} ELSE {}]
<1>3. active \in Envs /\ runner \in Envs /\ (active # NoEnv => runner = active)
  BY DEF HostInv
<1>4. j \in Jobs /\ j.kind = kind /\ j.began = active /\ j.dirs = {} /\ j.envs \subseteq {runner}
      /\ ~j.failed
  BY <1>3, BegunType DEF Jobs
<1>5. j.reads = Reads(kind)
  BY <1>3, BegunType DEF Begun
<1>6. Reads(kind) \in 0..3 /\ (kind = "test" => Reads(kind) = 1) /\ (kind = "lint" => Reads(kind) = 2)
  BY DEF Reads, Kinds
<1>7. Served(j, "idle", "none", source)
  BY <1>3, <1>4, <1>5, <1>6 DEF Served, SeesOne, Kinds
<1>8. pc' = [pc EXCEPT ![c] = "idle"] /\ answer' = [answer EXCEPT ![c] = "none"]
  BY <1>1 DEF Free, vars, requests
<1> QED
  BY <1>1, <1>2, <1>4, <1>7, <1>8 DEF Serves, vars, binding, Labels

LEMMA DeliverStep ==
  ASSUME HostInv, RequestInv, NEW c \in Calls, Deliver(c)
  PROVE  Serves(c)
<1>1. pc' = [pc EXCEPT ![c] = pc[c]] /\ pc[c] \in Labels
  BY DEF Deliver, vars, requests, RequestInv
<1> QED
  BY <1>1, NoJobType, NoJobServed DEF Serves, Deliver, vars, binding

\* One more read, of a root the earlier ones saw as well, a last one, or none.
LEMMA SeenServes ==
  ASSUME HostInv, RequestInv, NEW c \in Calls, NEW kinds, Reading(c, kinds), "code" \notin kinds,
         "none" \notin kinds, source' \in Dirs \cup {NoDir},
         NEW dirs \in {{}, {source'}}, NEW envs \in SUBSET {runner, active},
         NEW failed \in BOOLEAN, Seen(c, dirs, envs, failed),
         UNCHANGED <<host, pc>>,
         source' = source \/ source = NoDir,
         NoDir \in dirs => failed \/ job[c].reads = 1
  PROVE  Serves(c)
<1> USE DEF RequestInv
<1> DEFINE now == [job[c] EXCEPT !.reads = @ - 1, !.dirs = @ \cup dirs, !.envs = @ \cup envs,
                                 !.failed = @ \/ failed]
<1>1. /\ job[c] \in Jobs /\ Served(job[c], pc[c], answer[c], source)
      /\ job[c].reads > 0 /\ job[c].kind \in kinds /\ pc[c] = "idle" /\ answer[c] = "none"
  BY DEF Reading, Served, Labels
<1>2. active \in Envs /\ runner \in Envs /\ (active # NoEnv => runner = active)
  BY DEF HostInv
<1>3. /\ now \in Jobs
      /\ now.kind = job[c].kind /\ now.reads = job[c].reads - 1 /\ now.began = job[c].began
      /\ now.dirs = job[c].dirs \cup dirs /\ now.envs = job[c].envs \cup envs
      /\ now.failed = (job[c].failed \/ failed) /\ now.moved = job[c].moved
  <2>1. job[c].reads - 1 \in 0..3
    BY <1>1 DEF Jobs
  <2>2. /\ job[c].dirs \cup dirs \in SUBSET (Dirs \cup {NoDir})
        /\ job[c].envs \cup envs \in SUBSET Envs
        /\ (job[c].failed \/ failed) \in BOOLEAN
    BY <1>1, <1>2 DEF Jobs
  <2> DEFINE r == job[c].reads - 1
             ds == job[c].dirs \cup dirs
             es == job[c].envs \cup envs
             f == job[c].failed \/ failed
  <2>3. r \in 0..3 /\ ds \in SUBSET (Dirs \cup {NoDir}) /\ es \in SUBSET Envs /\ f \in BOOLEAN
    BY <2>1, <2>2
  <2>4. now = [job[c] EXCEPT !.reads = r, !.dirs = ds, !.envs = es, !.failed = f]
    OBVIOUS
  <2> HIDE DEF now, r, ds, es, f
  <2>5. /\ now \in Jobs
        /\ now.kind = job[c].kind /\ now.reads = r /\ now.began = job[c].began
        /\ now.dirs = ds /\ now.envs = es /\ now.failed = f /\ now.moved = job[c].moved
    BY <1>1, <2>3, <2>4 DEF Jobs
  <2> QED
    BY <2>5 DEF r, ds, es, f
<1> HIDE DEF now
<1>5. now.began # NoEnv => now.began = active /\ now.envs \subseteq {active}
  BY <1>1, <1>2, <1>3 DEF Served
<1>6. ~now.moved => SeesOne(now, source')
  <2>1. CASE job[c].failed \/ failed
    BY <1>3, <2>1 DEF SeesOne
  <2>2. CASE ~job[c].moved /\ ~job[c].failed /\ ~failed
    <3>1. job[c].dirs = {} \/ (source # NoDir /\ job[c].dirs = {source})
      BY <1>1, <2>2 DEF Served, SeesOne
    <3>2. now.dirs \in {{}, {source'}}
      BY <1>3, <3>1
    <3>3. now.dirs = {source'} /\ source' = NoDir => now.reads = 0
      BY <1>3, <2>2, <3>1
    <3> QED
      BY <3>2, <3>3 DEF SeesOne
  <2> QED
    BY <1>3, <2>1, <2>2
<1>7. ASSUME NEW said \in {"none", "done", "unexplained"},
             said # "none" => now.reads = 0, said = "done" => ~now.failed
      PROVE  Served(now, "idle", said, source')
  <2>1. job[c].reads \in 0..3
    BY <1>1 DEF Jobs
  <2>2. (now.kind = "test" => now.reads <= 1) /\ (now.kind = "lint" => now.reads <= 2)
    BY <1>1, <1>3, <2>1 DEF Served
  <2> QED
    BY <1>1, <1>3, <1>5, <1>6, <1>7, <2>2 DEF Served
<1>8. pc' = [pc EXCEPT ![c] = "idle"]
  BY <1>1
<1>9. CASE now.reads > 0
  <2>1. job' = [job EXCEPT ![c] = now] /\ answer' = [answer EXCEPT ![c] = "none"]
    BY <1>1, <1>9 DEF Seen, now
  <2> QED
    BY <1>3, <1>7, <1>8, <2>1 DEF Serves, Labels
<1>10. CASE ~(now.reads > 0)
  <2>1. now.reads = 0
    BY <1>1, <1>3, <1>10 DEF Jobs
  <2>2. Ends(c, now, {"refused"} \cup (IF now.failed THEN {} ELSE {"done"}))
    BY <1>10 DEF Seen, now
  <2>3. PICK j \in {NoJob, now}, said \in {"none", "done", "unexplained"} :
          /\ job' = [job EXCEPT ![c] = j]
          /\ answer' = [answer EXCEPT ![c] = said]
          /\ said = "done" => j = now /\ ~now.failed
    BY <1>1, <1>3, <2>2, EndsAs
  <2>4. j \in Jobs /\ Served(j, "idle", said, source')
    BY <1>3, <1>7, <2>1, <2>3, NoJobServed, NoJobType DEF Labels
  <2> QED
    BY <1>8, <2>3, <2>4 DEF Serves, Labels
<1> QED
  BY <1>9, <1>10

LEMMA CheckStep ==
  ASSUME Binding, Binding', HostInv, RequestInv, NEW c \in Calls, ServeCheck(c)
  PROVE  Serves(c)
<1> USE DEF RequestInv
<1>0. source' \in Dirs \cup {NoDir}
  BY DEF Binding, TypeOK
<1>1. CASE BeginCheck(c)
  BY <1>1, BeginStep
<1>2. CASE ResolvingRead(c) \/ ListingFails(c)
  <2>1. UNCHANGED <<host, pc>> /\ ResolveOutside /\ Reading(c, {"build", "discover"})
    BY <1>2 DEF ResolvingRead, ListingFails, ResolveOutside, requests, Reading
  <2>2. PICK dirs \in {{}, {source'}}, envs \in SUBSET {runner, active} : Seen(c, dirs, envs, FALSE)
    BY <1>2 DEF ResolvingRead, ListingFails
  <2>3. source' = source \/ source = NoDir
    BY <2>1 DEF ResolveOutside, Resolve, binding
  <2>4. source' # NoDir
    BY <2>1, FallbackType, DirsAssumption DEF ResolveOutside, Resolve, binding, Binding, TypeOK, Dirs
  <2> HIDE DEF RequestInv
  <2> QED
    BY <1>0, <2>1, <2>2, <2>3, <2>4, SeenServes
<1>3. CASE ResolutionFails(c)
  <2>1. UNCHANGED <<host, pc, source>> /\ Reading(c, {"build", "discover"})
    BY <1>3 DEF ResolutionFails, FailOutside, ResolveFails, requests
  <2>2. pc[c] = "idle" /\ answer[c] = "none"
    <3>1. Served(job[c], pc[c], answer[c], source) /\ answer[c] \in {"none", "done", "unexplained"}
      OBVIOUS
    <3> HIDE DEF RequestInv
    <3> QED
      BY <2>1, <3>1 DEF Reading, Served
  <2>3. PICK said \in {"none", "done"} :
          job' = [job EXCEPT ![c] = NoJob] /\ answer' = [answer EXCEPT ![c] = said]
    <3>1. PICK outcome \in {"refused", "done"} :
            IF outcome = "refused"
            THEN job' = [job EXCEPT ![c] = NoJob] /\ UNCHANGED answer
            ELSE job' = [job EXCEPT ![c] = NoJob] /\ answer' = [answer EXCEPT ![c] = outcome]
      BY <1>3 DEF ResolutionFails, Ends
    <3> QED
      BY <2>2, <3>1
  <2>4. pc' = [pc EXCEPT ![c] = "idle"]
    BY <2>1, <2>2
  <2>5. Served(NoJob, "idle", said, source')
    BY DEF Served, NoJob, SeesOne
  <2> QED
    BY <2>1, <2>3, <2>4, <2>5, NoJobType DEF Serves, Labels
<1>4. CASE ReadForTest(c)
  <2>1. /\ UNCHANGED <<host, pc, source>> /\ Reading(c, {"test"})
        /\ job[c].reads = 1
    BY <1>4 DEF ReadForTest, Reading, vars, requests, binding, Served, Jobs
  <2>2. PICK envs \in SUBSET {runner, active} : Seen(c, {source'}, envs, FALSE)
    BY <1>4, <2>1 DEF ReadForTest
  <2> HIDE DEF RequestInv
  <2> QED
    BY <1>0, <2>1, <2>2, SeenServes
<1>5. CASE ReadForLint(c)
  <2>1. /\ UNCHANGED <<host, pc, source>> /\ Reading(c, {"lint"})
        /\ job[c].reads \in {1, 2}
    BY <1>5 DEF ReadForLint, Reading, vars, requests, binding, Served, Jobs
  <2>2. PICK envs \in SUBSET {runner, active}, failed \in BOOLEAN :
          /\ Seen(c, {source'}, envs, failed)
          /\ source' = NoDir => failed \/ job[c].reads = 1
    <3>1. CASE job[c].reads = 2
      BY <1>5, <2>1, <3>1 DEF ReadForLint
    <3>2. CASE job[c].reads = 1
      BY <1>5, <2>1, <3>2 DEF ReadForLint
    <3> QED
      BY <2>1, <3>1, <3>2
  <2> HIDE DEF RequestInv
  <2> QED
    BY <1>0, <2>1, <2>2, SeenServes
<1> QED
  BY <1>1, <1>2, <1>3, <1>4, <1>5 DEF ServeCheck

\* A Load marks the checks it moves the root under, and no other changes.
LEMMA LoadsStep ==
  ASSUME Binding', HostInv, RequestInv, Loads
  PROVE  HostInv' /\ RequestInv'
<1> USE DEF RequestInv
<1>1. UNCHANGED <<host, answer, pc>> /\ active' = active /\ source' \in Dirs \cup {NoDir}
  BY DEF Loads, RuntimeLoad, BuilderLoad, LoadSettings, LocateSource, BindSource, RebindSource,
         SetSourceLocation, requests, host, Binding, TypeOK
<1>2. HostInv'
  BY <1>1 DEF HostInv, host
<1>3. ASSUME NEW c \in Calls
      PROVE  job'[c] \in Jobs /\ Served(job'[c], pc[c], answer[c], source')
  <2> DEFINE mark == job[c].moved \/ (Between(c) /\ source \notin {NoDir, source'})
  <2>1. job'[c] = [job[c] EXCEPT !.moved = mark] /\ job[c] \in Jobs
        /\ Served(job[c], pc[c], answer[c], source) /\ mark \in BOOLEAN
    BY DEF Loads, MarkMoved, Jobs
  <2>2. ~mark => ~job[c].moved /\ (Between(c) => source \in {NoDir, source'})
    OBVIOUS
  <2> HIDE DEF mark
  <2>3. /\ job'[c] \in Jobs /\ job'[c].moved = mark /\ job'[c].kind = job[c].kind
        /\ job'[c].reads = job[c].reads /\ job'[c].dirs = job[c].dirs /\ job'[c].envs = job[c].envs
        /\ job'[c].began = job[c].began /\ job'[c].failed = job[c].failed
    BY <2>1 DEF Jobs
  <2>4. ~mark => SeesOne(job'[c], source')
    <3>1. job[c].reads \in 0..3
      BY <2>1 DEF Jobs
    <3> HIDE DEF RequestInv
    <3> SUFFICES ASSUME ~mark PROVE SeesOne(job'[c], source')
      OBVIOUS
    <3>2. SeesOne(job[c], source) /\ (Between(c) => source \in {NoDir, source'})
      BY <2>1, <2>2 DEF Served
    <3>3. CASE job[c].failed \/ job[c].dirs = {}
      BY <2>3, <3>3 DEF SeesOne
    <3>4. CASE job[c].reads = 0 /\ \E dir : job[c].dirs = {dir}
      BY <2>3, <3>4 DEF SeesOne
    <3>5. CASE source # NoDir /\ job[c].dirs = {source} /\ job[c].reads # 0
      <4>1. Between(c)
        BY <3>1, <3>5 DEF Between
      <4>2. source' = source
        BY <3>2, <3>5, <4>1
      <4> QED
        BY <2>3, <3>5, <4>2 DEF SeesOne
    <3> QED
      BY <3>2, <3>3, <3>4, <3>5 DEF SeesOne
  <2> HIDE DEF RequestInv
  <2> QED
    BY <1>1, <2>1, <2>3, <2>4 DEF Served
<1>4. job' \in [Calls -> Jobs]
  BY <1>3 DEF Loads, MarkMoved
<1>5. /\ answer \in [Calls -> {"none", "done", "unexplained"}] /\ pc \in [Calls -> Labels]
      /\ UNCHANGED <<answer, pc>>
  BY <1>1
<1>6. \A c \in Calls : Served(job[c], pc[c], answer[c], source)'
  BY <1>1, <1>3 DEF Served
<1> QED
  BY <1>1, <1>2, <1>4, <1>5, <1>6 DEF Dirs

LEMMA InvStep ==
  Binding /\ Binding' /\ HostInv /\ RequestInv /\ [AgentNext]_agentVars => HostInv' /\ RequestInv'
<1> SUFFICES ASSUME Binding, Binding', HostInv, RequestInv, [AgentNext]_agentVars
             PROVE  HostInv' /\ RequestInv'
  OBVIOUS
<1>0. source' \in Dirs \cup {NoDir}
  BY DEF Binding, TypeOK
<1>1. CASE RuntimeInit
  <2>1. HostInv' /\ (active = NoEnv \/ active' = active) /\ UNCHANGED <<vars, served>>
    BY <1>1, HostInvStep
  <2>2. ASSUME NEW c \in Calls PROVE Served(job[c], pc[c], answer[c], source)'
    <3>1. /\ UNCHANGED <<job, pc, answer, source>>
          /\ Served(job[c], pc[c], answer[c], source)
      BY <2>1 DEF RequestInv, vars, requests, binding, served
    <3> QED
      BY <2>1, <3>1 DEF Served, SeesOne
  <2> QED
    BY <1>0, <2>1, <2>2 DEF RequestInv, vars, requests, binding, served, Dirs
<1>2. CASE Loads
  BY <1>2, LoadsStep
<1>3. ASSUME NEW c \in Calls, ServeCode(c) \/ ServeCheck(c) \/ Deliver(c)
      PROVE  HostInv' /\ RequestInv'
  <2>1. Serves(c)
    BY <1>3, CodeLabelStep, CodeResolveStep, CodeToolStep, CheckStep, DeliverStep DEF ServeCode
  <2> QED
    BY <1>0, <2>1, ServesKeeps
<1>4. CASE Edits \/ UNCHANGED agentVars
  <2>1. UNCHANGED <<host, served, source, pc>> /\ active' = active
    BY <1>4 DEF Edits, Edit, requests, agentVars, vars, binding, host
  <2>2. HostInv'
    BY <2>1 DEF HostInv, host
  <2>3. RequestInv'
    BY <2>1 DEF RequestInv, served, Served, SeesOne, Dirs
  <2> QED
    BY <2>2, <2>3
<1> QED
  BY <1>1, <1>2, <1>3, <1>4 DEF AgentNext

LEMMA Inv == AgentSpec => [](HostInv /\ RequestInv)
BY HostInvInit, RequestInvInit, InvStep, AgentBound, PTL DEF AgentSpec

\* Between two Inits, failed or not, the runtime's environment is the one that
\* Code and the discovery of inputs run in; after a successful one it is ready.
THEOREM EnvironmentShared == AgentSpec => []OneEnvironment
<1>1. HostInv => OneEnvironment
  BY DEF HostInv, OneEnvironment
<1> QED
  BY <1>1, Inv, PTL

\* No environment is made from the values of an Init that could not record them
\* all, and a successful Init has recorded its own.
THEOREM ValuesWhole == AgentSpec => []ValuesOfOneInit
<1>1. HostInv => ValuesOfOneInit
  BY DEF HostInv, ValuesOfOneInit, Whole
<1> QED
  BY <1>1, Inv, PTL

\* A request that found an environment runs in no other.
THEOREM RequestsKeepEnvironment == AgentSpec => []OneEnvironmentPerRequest
<1>1. RequestInv => OneEnvironmentPerRequest
  BY DEF RequestInv, Served, OneEnvironmentPerRequest
<1> QED
  BY <1>1, Inv, PTL

\* And the parts of a check that succeeds saw one module, unless a Load moved the
\* root between two of them.
THEOREM ChecksSeeOneModule == AgentSpec => []OneModulePerCheck
<1>1. RequestInv => OneModulePerCheck
  <2> SUFFICES ASSUME RequestInv, NEW c \in Calls, answer[c] = "done", ~job[c].moved
               PROVE  Cardinality(job[c].dirs) <= 1
    BY DEF OneModulePerCheck
  <2>1. job[c].dirs = {} \/ \E dir : job[c].dirs = {dir}
    BY DEF RequestInv, Served, SeesOne
  <2>2. CASE job[c].dirs = {}
    <3>1. Cardinality({}) = 0
      BY FS_EmptySet
    <3> QED
      BY <2>2, <3>1
  <2>3. CASE \E dir : job[c].dirs = {dir}
    <3> PICK dir : job[c].dirs = {dir}
      BY <2>3
    <3>1. Cardinality({dir}) = 1
      BY FS_Singleton
    <3> QED
      BY <3>1
  <2> QED
    BY <2>1, <2>2, <2>3
<1> QED
  BY <1>1, Inv, PTL

\* A command is run only for an operation whose outcome Tooling can explain.
Explained ==
  \A c \in Calls :
    /\ answer[c] # "unexplained"
    /\ pc[c] = "tool" => op[c] \in {"fix", "addDependency", "removeDependency"}

LEMMA ResponsesExplained ==
  ASSUME NEW o \in {"fix", "addDependency", "removeDependency"}
  PROVE  \A r \in Responses(o) : Forwarded(r) \in {"done", "refused"}
<1>1. /\ succeeded.result /\ succeeded.success
      /\ failedResponse.result /\ ~failedResponse.success /\ failedResponse.failure
  BY DEF succeeded, failedResponse
<1>2. \A r \in [result : {FALSE}, success : {FALSE}, failure : BOOLEAN] : ~r.result
  OBVIOUS
<1>3. \A r \in CoreResponses : r = succeeded \/ r = failedResponse \/ ~r.result
  BY <1>2 DEF CoreResponses
<1>4. \A r \in Responses(o) : r = succeeded \/ r = failedResponse \/ ~r.result
  BY <1>3 DEF Responses
<1> QED
  BY <1>1, <1>4 DEF Forwarded

\* Where a request ends, it ends with one of the outcomes.
LEMMA EndsExplained ==
  ASSUME answer \in [Calls -> {"none", "done", "unexplained"}], NEW c \in Calls, answer[c] # "unexplained",
         NEW as, NEW outcomes, outcomes \subseteq {"done", "refused"}, Ends(c, as, outcomes)
  PROVE  answer'[c] # "unexplained" /\ \A d \in Calls : d # c => answer'[d] = answer[d]
BY DEF Ends

LEMMA ExplainedStep == Binding /\ RequestInv /\ Explained /\ [AgentNext]_agentVars => Explained'
<1> SUFFICES ASSUME Binding, RequestInv, Explained, [AgentNext]_agentVars PROVE Explained'
  OBVIOUS
<1>0. /\ answer \in [Calls -> {"none", "done", "unexplained"}]
      /\ pc \in [Calls -> Labels] /\ op \in [Calls -> Ops]
  BY DEF Binding, TypeOK, RequestInv
<1>1. ASSUME UNCHANGED <<answer, pc, op>> PROVE Explained'
  BY <1>1 DEF Explained
<1>2. CASE RuntimeInit \/ Loads \/ Edits \/ UNCHANGED agentVars
  <2>1. UNCHANGED <<answer, requests>>
    BY <1>2 DEF RuntimeInit, InitCall, RecordSelection, RecordConfigurations, CheckRunner, CreateRunner,
       AssignRunner, SetRunnerEnvironment, InitializeRunner, SetupWatcher, Loads, RuntimeLoad, BuilderLoad,
       LoadSettings, LocateSource, BindSource, RebindSource, SetSourceLocation, Edits, Edit,
       agentVars, vars, served
  <2> QED
    BY <1>1, <2>1 DEF requests
\* A step of one request: the others keep their answers and stay where they are.
<1>3. ASSUME NEW c \in Calls,
             answer'[c] # "unexplained" /\ \A d \in Calls : d # c => answer'[d] = answer[d],
             pc'[c] = "tool" => op'[c] \in {"fix", "addDependency", "removeDependency"},
             \A d \in Calls : d # c => pc'[d] = pc[d] /\ op'[d] = op[d]
      PROVE  Explained'
  BY <1>3 DEF Explained
<1>4. ASSUME NEW c \in Calls, CodeRequest(c) \/ CodeEnters(c) \/ CodeInitializes(c) PROVE Explained'
  <2>1. answer' = answer
    BY <1>4 DEF CodeRequest, CodeEnters, CodeInitializes, served
  <2>2. /\ pc'[c] = "tool" => op'[c] \in {"fix", "addDependency", "removeDependency"}
        /\ \A d \in Calls : d # c => pc'[d] = pc[d] /\ op'[d] = op[d]
    BY <1>0, <1>4 DEF CodeRequest, CodeEnters, CodeInitializes, Request, Enter, initServer, Leave, Goto, Ops
  <2> QED
    BY <1>3, <2>1, <2>2 DEF Explained
<1>5. ASSUME NEW c \in Calls, CodeResolves(c) PROVE Explained'
  <2>1. /\ pc'[c] \in {"idle", "init"} /\ \A d \in Calls : d # c => pc'[d] = pc[d] /\ op'[d] = op[d]
    BY <1>0, <1>5 DEF CodeResolves, ResolveSourceLocation, Leave, Goto
  <2>2. UNCHANGED served \/ Ends(c, NoJob, {"refused"})
    BY <1>5 DEF CodeResolves
  <2>3. answer'[c] # "unexplained" /\ \A d \in Calls : d # c => answer'[d] = answer[d]
    BY <1>0, <2>2, EndsExplained DEF Explained, served
  <2> QED
    BY <1>3, <2>1, <2>3
<1>6. ASSUME NEW c \in Calls, CodeRuns(c) \/ CodeTidies(c) PROVE Explained'
  <2>1. /\ pc'[c] \in {"idle", "tidy"} /\ \A d \in Calls : d # c => pc'[d] = pc[d] /\ op'[d] = op[d]
    BY <1>0, <1>6 DEF CodeRuns, RunTool, CodeTidies, Tidy, ToolEnds, Leave, Goto
  <2>2. CASE CodeRuns(c)
    <3>1. \A r \in Responses(op[c]) : Forwarded(r) \in {"done", "refused"}
      BY <2>2, ResponsesExplained DEF CodeRuns, RunTool, Explained
    <3>2. {Forwarded(r) : r \in Responses(op[c])} \subseteq {"done", "refused"}
      BY <3>1
    <3>3. answer' = answer \/ Ends(c, RanTool(c), {Forwarded(r) : r \in Responses(op[c])})
      BY <2>2 DEF CodeRuns
    <3>4. answer'[c] # "unexplained" /\ \A d \in Calls : d # c => answer'[d] = answer[d]
      BY <1>0, <3>2, <3>3, EndsExplained DEF Explained
    <3> QED
      BY <1>3, <2>1, <3>4
  <2>3. CASE CodeTidies(c)
    <3>1. {Forwarded(succeeded)} \subseteq {"done", "refused"} /\ Ends(c, RanTool(c), {Forwarded(succeeded)})
      BY <2>3 DEF Forwarded, succeeded, CodeTidies
    <3>2. answer'[c] # "unexplained" /\ \A d \in Calls : d # c => answer'[d] = answer[d]
      BY <1>0, <3>1, EndsExplained DEF Explained
    <3> QED
      BY <1>3, <2>1, <3>2
  <2> QED
    BY <1>6, <2>2, <2>3
<1>7. ASSUME NEW c \in Calls, ServeCheck(c) \/ Deliver(c) PROVE Explained'
  <2>1. UNCHANGED <<pc, op>>
    BY <1>7 DEF ServeCheck, BeginCheck, ResolvingRead, ResolutionFails, ListingFails, ResolveOutside,
                FailOutside, ReadForTest, ReadForLint, Deliver, vars, requests
  <2>2. answer'[c] # "unexplained" /\ \A d \in Calls : d # c => answer'[d] = answer[d]
    <3>1. CASE answer' = answer \/ Deliver(c)
      BY <1>0, <3>1 DEF Explained, Deliver
    <3>2. ASSUME NEW as, NEW outcomes, outcomes \subseteq {"done", "refused"}, Ends(c, as, outcomes)
          PROVE  answer'[c] # "unexplained" /\ \A d \in Calls : d # c => answer'[d] = answer[d]
      BY <1>0, <3>2, EndsExplained DEF Explained
    <3>3. ASSUME NEW dir, NEW envs, NEW failed, Seen(c, dir, envs, failed)
          PROVE  answer'[c] # "unexplained" /\ \A d \in Calls : d # c => answer'[d] = answer[d]
      BY <3>1, <3>2, <3>3 DEF Seen
    <3> QED
      BY <1>7, <3>1, <3>2, <3>3
         DEF ServeCheck, BeginCheck, ResolvingRead, ResolutionFails, ListingFails, ReadForTest, ReadForLint
  <2> QED
    BY <1>3, <2>1, <2>2 DEF Explained
<1> QED
  BY <1>2, <1>4, <1>5, <1>6, <1>7 DEF AgentNext, ServeCode

\* Every other variable keeps its type.
HostTypes == initOk \in BOOLEAN /\ ready \in SUBSET Inits

LEMMA HostTypesStep == HostInv /\ HostTypes /\ [AgentNext]_agentVars => HostTypes'
<1> SUFFICES ASSUME HostInv, HostTypes, [AgentNext]_agentVars PROVE HostTypes'
  OBVIOUS
<1>1. CASE UNCHANGED <<initOk, ready>>
  BY <1>1 DEF HostTypes
<1>2. CASE RuntimeInit
  <2>1. initOk' \in BOOLEAN
    <3>1. initOk' = initOk \/ initOk' = TRUE \/ initOk' = FALSE
      BY <1>2 DEF RuntimeInit, InitCall, RecordSelection, RecordConfigurations, CheckRunner, CreateRunner,
         AssignRunner, SetRunnerEnvironment, InitializeRunner, SetupWatcher, GotoInit, InitEnds
    <3> QED
      BY <3>1 DEF HostTypes
  <2>2. ready' = ready \/ ready' = ready \ {runner} \/ (ready' = ready \cup {runner} /\ initPc = "initialize")
    BY <1>2 DEF RuntimeInit, InitCall, RecordSelection, RecordConfigurations, CheckRunner, CreateRunner,
       AssignRunner, SetRunnerEnvironment, InitializeRunner, SetupWatcher
  <2>3. initPc = "initialize" => runner \in Inits
    BY DEF HostInv, Envs, Inits, NoEnv
  <2> QED
    BY <2>1, <2>2, <2>3 DEF HostTypes
<1>3. CASE Loads \/ Edits \/ UNCHANGED agentVars
  BY <1>1, <1>3 DEF Loads, Edits, host, agentVars
<1>4. ASSUME NEW c \in Calls, ServeCode(c) \/ ServeCheck(c) \/ Deliver(c)
      PROVE  HostTypes'
  BY <1>1, <1>4 DEF ServeCode, CodeRequest, CodeEnters, CodeResolves, CodeInitializes, CodeRuns, CodeTidies,
     ServeCheck, BeginCheck, ResolvingRead, ResolutionFails, ListingFails, ReadForTest, ReadForLint,
     Deliver, host
<1> QED
  BY <1>2, <1>3, <1>4 DEF AgentNext

\* Whatever a layer refuses, the caller of Tooling is told why: an operation comes
\* back with what was asked for, with a typed failure or with a gRPC error.
THEOREM RefusalsExplained == AgentSpec => []RefusalsAreExplained
<1>1. AgentInit => Explained
  BY DEF AgentInit, Init, Explained
<1>2. AgentInit => HostTypes
  BY DEF AgentInit, HostTypes
<1>3. Binding /\ HostInv /\ HostTypes /\ RequestInv /\ Explained => RefusalsAreExplained
  BY DEF Binding, HostInv, HostTypes, RequestInv, Explained, RefusalsAreExplained, AgentTypeOK
<1> QED
  BY <1>1, <1>2, <1>3, Inv, AgentBound, ExplainedStep, HostTypesStep, PTL DEF AgentSpec
=============================================================================
