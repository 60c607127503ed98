# TLA+ models of service-go

service-go is the codefly agent for Go services: one process that serves the
gRPC interfaces Runtime, Builder, Code and Tooling for one service. `core`
dispatches each RPC on a goroutine of its own and nothing in this repository
orders the calls. All paths below are relative to `src/`.

This directory holds TLA+ modules for the parts that keep state, TLC
configurations that check them on small instances, and TLAPS proofs about each
of them for every value of the constants: the runtime lifecycle, the Code server
and the agent that composes them, the image recipe, Package, the effective
inputs and the links they follow.

    tlc -config MCRuntimeSerial.cfg MCRuntimeLifecycle
    tlapm RuntimeSerial_proofs.tla

## The system

| Component | State | Operations | Hard to get right |
|---|---|---|---|
| Runtime (`pkg/runtime/runtime.go`) | `runner`, `runnerCancel`, `RunnerEnvironment`, the executable at a constant path, the pending started artifact, the watcher, the desired-state slot | Load, Init, Start, Stop, Build, Test, Lint, Destroy; a supervisor goroutine per process; `EventHandler` | Starts race each other under `startMu`; Stop and Init take no lock; supervisors outlive the call that made them; each step of a Start can fail |
| Shared source root (`pkg/service/service.go`) | `SourceLocation`, guarded by `sourceMu`; the settings as read last | `ResolveSourceLocation`; Runtime.Load and Builder.Load | bound lazily by whoever comes first; each Load reads settings and `go.mod` again and rebinds, in the middle of requests |
| Code server (`pkg/code/code.go`) | `GoCodeServer`, `initializedSource`, `serverMu` | `Execute`, `EnsureInit`, overrides for fix and dependencies | the server is replaced and closed when the root moves, possibly during a request |
| Builder, image recipe (`pkg/builder/builder.go`, `replace.go`) | the output directory, reused between emissions | `Build`: templates, copy of the module, carry of filesystem replacements | what an earlier, perhaps failed, emission left; edits in between; order of directives |
| Builder, Package (`builder.go`, `package_source.go`) | destination files, temporary files, containers | `Package`: native and cross builds, digests, CycloneDX evidence | each step can fail, container shutdown may time out, requests may share a directory |
| Effective inputs (`pkg/service/effective_inputs.go`, `effective_input_plans.go`) | the observations of one request | `DiscoverEffectiveInputs` | partial observation, cancellation, one file under several kinds, supplied identities, links |
| Runner environment (`runtime.go:142-271`, `service.go:47-71`) | the values recorded for the process, `RunnerEnvironment`, `ActiveEnv` | Init; read by Start, Build, Test, Lint, `go get`, discovery | each step of an Init may fail and the next one starts from what it left; readers take no lock across two reads |
| Tooling (`pkg/tooling`) | none | forwards to Code and Runtime, converts answers | a refusal must keep its reason through two conversions |
| Call graph, format check, image lock, `main.go`, templates | none, or one file validated | see PROJECT.json | nothing a unit test would not reach |

They meet at five places. Runtime, Builder and Code share one
`*service.Service`, hence one `SourceLocation` and one `ActiveEnv`, which Init
publishes for Code and discovery. Tooling calls Code and Runtime. The runtime and its supervisors
share `runner`, `runnerCancel` and the answers core reads. Builder shares its
output directory with its own earlier runs and with other requests. Discovery
shares the file system with whatever the operation it describes will read.

What makes each part correct:

- Runtime: no process the agent can no longer stop; only a process that ended
  on its own is reported as having exited; the artifact on a STARTED answer is
  the build that very attempt launched; every crash is noticed; every call is
  answered.
- Source root and Code: the root holds the module if there is one; a request is
  served by an open server; all tools of a request work in one module unless a
  Load moves it meanwhile.
- Environment: Runtime and Service name the same one, initialised when Init
  succeeded and made from the values of one Init; a request that found it uses
  no other; a check that succeeds looked at one module unless a Load moved it; Tooling never refuses
  without saying why.
- Recipe: a built context resolves what the host resolves, file for file,
  whatever was there before; a replacement outside the repository is refused, never dropped.
- Package: a destination never holds part of a build; nothing temporary stays;
  digests and documents are those of the files; a container that outlives its
  request is reported.
- Effective inputs: protected content is not hashed; an answer that claims to
  be complete is; a short answer says so; what was observed wins over what was
  supplied; the file named is the file the kernel opens.

PROJECT.json lists the places where each of these could fail (`hazards`) and,
under `map`, the lines every definition stands for.

## The modules

| Module | Models | Checked by |
|---|---|---|
| `RuntimeLifecycle` | Start, Stop, Init, supervisor, watcher | `MCRuntime*.cfg`, `RuntimeLifecycle_proofs`, `RuntimeSerial_proofs` |
| `SupervisedProcess` | the promise about the user's processes; abstract | refined by `RuntimeLifecycle` (`Supervised`) |
| `SourceBinding` | `SourceLocation`, Runtime.Load, Builder.Load, `Code.Execute` | `MCSourceRebind.cfg`, through `AgentOperations`, `SourceBinding_proofs` |
| `AgentOperations` | Init and its environment, Code requests through Tooling, Build, Test, Lint, discovery; EXTENDS `SourceBinding` | `MCAgent.cfg`, `MCInitAuthoritative.cfg`, `AgentOperations_proofs` |
| `RecipeContext` | `buildRecipe`'s copy and `carryLocalReplacements` | `MCRecipe*.cfg`, `RecipeContext_proofs` |
| `PackageArtifacts` | `Builder.Package` | `MCPackage.cfg`, `PackageArtifacts_proofs` |
| `Publication` | the promise about the directory `Package` is given; abstract | refined by `PackageArtifacts` (`Publishes`) |
| `EffectiveInputs` | `DiscoverEffectiveInputs` | `MCInputs.cfg`, `EffectiveInputs_proofs` |
| `FollowLinks` | `inputFiles.follow` against the kernel's path resolution | `MCFollow*.cfg`, `FollowLinks_proofs` |

### RuntimeLifecycle

A call is a goroutine with a program counter. One action is one access to state
another goroutine can reach, so `if s.runner != nil`, `if s.runnerCancel != nil`,
the call of it, its reset, `Proc.Stop` and `s.runner = nil` are six actions, the
same six for Start and Stop, and a value tested in one may be gone in the next
(that is where `Panic`, the nil dereference `Wool.Catch` recovers, comes from).
`startMu` is taken in `Lock` and released by every `Return`. An attempt number
names the context, the process and the build an attempt creates; `binary` is the
number of the build at the constant path, `image[p]` the one process p was
launched from. A supervisor wakes, tests its context, and marks, in three
actions. `ProcessExits`, the watcher's events and the poll are the environment.

`Overlap` says whether a Stop may be in flight together with another call;
Starts and Inits may always race. `CallStart` requires a runner environment, which
Init creates: Start without it fails before it touches anything modelled here.

### SourceBinding

The project on disk changes at any moment (`Edit`): `declared` is the
`source-dir` of `service.codefly.yaml`, `mods` the directories that hold a
`go.mod`, any subset of the directories `source-dir` may name and the service
root. `configured` is the setting as core read it last. A Load reads the settings
(`LoadSettings`), and then Runtime.Load looks for the module (`LocateSource`) and
binds what it found (`BindSource`), while Builder.Load binds the configured
directory (`RebindSource`); edits and requests come between these steps. A Load
may fail at any of them before it binds. Loads come one after the other, from one
host.

Servers are numbered; `closed` is history, and `using` is the server a request
entered. A request takes `serverMu`, resolves the root, which may fail (or, for
EnsureInit, does not resolve), swaps the server if the root differs, then runs one
tool, or `go mod edit` and then `tidy`. The Loads do not take `serverMu`.
`ResolveOutside` and `FailOutside` are the resolution by Build and by the discovery
of inputs, which takes `sourceMu` but not `serverMu`.

Four variables are history. `rootFresh` says that the root was bound from the
settings and the `go.mod` files as they are; `loadFresh` that nothing was edited
since the running Load read the settings; `rebound` that Builder.Load bound the
root last; `moved` under which running requests a Load moved it.

### AgentOperations

The composition. Its goroutines serve Code requests (the actions of
`SourceBinding`, each conjoined with what it does to the request) and checks:
Build, Test, Lint and the discovery of effective inputs. `job[c]` collects what
a request read, root by root and environment by environment; `answer[c]` is what
Tooling says to its caller, where only a refusal without a reason is told apart
from one with it. Init k brings the k-th values; `values` is which Init recorded
the selection (context, fixture, overrides) and the configurations (and
endpoints) last, `madeFrom[e]` what environment e was given when it was made.
`runner` and `active` are assigned in two steps, as in the code, and every step
that returns an error in the code may end the Init. One host sends its Inits and
its Loads one after the other, the first Init once the service is loaded; edits,
requests and checks come at any time. How Start uses the environment is
`RuntimeLifecycle`.

A root that cannot be resolved is an error of Build and of a Code request. A
discovery then answers, without an error, that its inputs are unresolved
(`ResolutionFails`), and goes on when one of its listings has nothing to run in
(`ListingFails`). `job[c].moved` marks a check whose root a Load moved between two
of its reads.

### RecipeContext

Every file has a version number, or `Nothing` when it is not there, so "copied as
it is now" is an equality; in the context it may also be `Torn`, a copy that broke
off. A directory is there when a file under it is. `Copy` is `copyGoContext`: it
overwrites file by file with what exists at the source and removes nothing, so
that a file deleted from a directory that goes on existing stays in the context.
Between emissions the developer edits, creates and deletes files, one by one, and
edits `go.mod`, a sequence of directives. `CopyModule`, `ClearCarry`,
`CarryDirective` and `WriteGoMod` may each fail after any part of their work, with
one file torn, and the next emission starts from that; the loop's variables are
locals and end with it. `AddReplace` is what `modfile.AddReplace` does to the list
the loop walks: it overwrites the first match and blanks the others, which stay in
the list as `Wiped` and apply to no module.

`ResolvesAsHost` compares what Go would pick for each module and version on the
host and in the context, and then the files: those of a carried directory one for
one, those of a directory inside the module as far as the module still has them
(what the copy leaves of deleted ones is said below). It needs two hypotheses
about the go.mod files, stated in the module: `DistinctReplaces` and `OuterFirst`;
`RefusesOutside` needs the former. `NoStaleCarry` and `SourceCurrent` need none:
the one speaks of a `go.mod` that replaces something by path, since `ParseGoMod`
returns early for any other, the other of every file the module has.

### PackageArtifacts

A binary is the edit of the source it was compiled from; reading a file back
gives that number, which is its digest. Each target goes through temporary file,
compilation, rename, digest; a cross build adds toolchain, runner, Init,
process and the deferred Shutdown. `Fails` is any other error return. Which
targets have no cross toolchain is chosen in `Init`. `asked[p]` is the edit the
source held when p was called, or that another request overlapped it; what an
overlapped request produced is forgotten when it returns, since no property
speaks of it. A root that moves while a request runs is an edit.
`os.Remove` may fail, and its error is ignored: the temporary file stays, `Stuck`.
A container that survived a cancelled build and a failed shutdown may write the
request's temporary file again (`WriteLate`, as long as `OutlivesItsRequest`).
`NothingLeftBehind` excepts these two.

`Publication` knows nothing of temporary files, containers or program counters.
A request under way owes executables and documents; a destination changes to one
whole file of a target still owed; documents wait for all executables; an answer
without an error waits for everything, and an error forgives what is left but
takes back nothing published. `PackageArtifacts` maps what is owed to the targets
still to do and the one in hand (`Unbuilt`, `Undocumented`).

### EffectiveInputs and FollowLinks

`object` holds the inputs by who created them, because the sets cloned from the
metadata share them (`maps.Clone` copies the map, not what it points to).
`sensitive` is one map for all sets. A file is what a name leads to; a link on the
way is an input of its own, whose text is hashed at once unless the link was met
as sensitive, and which the last observation under a key replaces. Each listing
observes any part of what it should, and says so unless the context is
cancelled. A request registers at most one plan. A supplied input that equals
the observed one is accepted, any other under its key is a contradiction. Links and
`Libraries` (modules of other repositories, known by version and sum) get their
identity when they are observed (`AtOnce`) or never: `Unsummed` are the modules
"go list" reports without a sum, which are added without one, the set staying
complete (`effective_inputs.go:304-310`). `CompleteIsObserved` excepts these.

`FollowLinks` runs `follow` on a workspace chosen in `Init`, of any depth;
`Kernel` is written independently as the operating system resolves paths, one
directory at a time. Both `Clean` and `Kernel` repeat one step (`Iterate`), a
component of a name at a time. `Odd` are the names no answer can carry: a walk whose
name holds one ends before any component is looked at (`NoName`), and `MeetsOdd`
says that the kernel comes by one too. `MaxSteps` stands for the kernel's own limit on
links (ELOOP); it lies above what a name and every link of the workspace once
amount to, so that it never cuts off a resolution that would have succeeded
without a cycle.

## The runs

| Run | Instance | What it shows |
|---|---|---|
| `runtime_serial` | 2 calls, 3 attempts, no overlap, hot reload; symmetric; 2.1M states | `NoOrphan`, `MarkedExitedAlone`, `NoRequestDuringTeardown`; the lifecycle implements `SupervisedProcess` (`Supervised`); `Serial`, the inductive invariant of the proofs |
| `runtime_overlap` | 2 calls, 2 attempts, overlap, fairness | `Consistent`, `ReportedIsLaunched`; a process that ended alone always has somebody left to report it (`NoCrashLost`), every crash is noticed (`CrashNoticed`), every call is answered (`EveryCallAnswered`) |
| `agent` | 2 goroutines; one Load and 2 Inits, or 2 Loads and 1 edit of the settings or of a `go.mod`; symmetric; 4.7M states | `OneEnvironment`, `ValuesOfOneInit`, `OneEnvironmentPerRequest`, `RefusalsAreExplained`; `OneModulePerRequest` and `OneModulePerCheck` unless a Load moves the root meanwhile; `RuntimeBindsModule` unless Builder.Load bound it; what a Load may move (`Reaffirms`); `ServesOpenServer` and `Binding` |
| `recipe` | repository of five directories and one outside, ten go.mod files; three files (in the module, in a directory beside it and in one nested there) take 2 versions or are deleted; 2.07M states | `ResolvesAsHost`, `NoStaleCarry`, `RefusesOutside`, `SourceCurrent` |
| `package` | 2 requests, 2 targets (one native, one cross, with or without toolchain), 1 edit; symmetric; 1.7M states | `PublishedComplete`, `NothingLeftBehind`, `LeaksAreReported`; `AnswerMatchesDisk` of a request nothing overlaps; every request, overlapped or not, implements `Publication` (`Publishes`) |
| `follow` | every workspace over six places, eight link texts, one name no answer can carry; 0.88M states | `IdentifiesConsumed`, `MissesNothing`; every step leaves less of the walk (`NearsItsEnd`), which ends (`WalkEnds`) |
| `inputs` | a file, a link to it, a module with a sum and one without; 3 kinds, every part of every listing, up to two supplied inputs; 1.5M states | `SecretsUnhashed`, `CompleteIsObserved`, `GapsAreVisible`, `ObservedWins` |
| `runtime_blame` | as `runtime_overlap` | a Stop overlapping a Start makes `MarkedExitedAlone` fail |
| `source_rebind` | Code requests and Loads alone | Builder.Load makes `BoundAtModule` fail |
| `recipe_nested` | one go.mod naming an inner replacement before the outer one | `ResolvesAsHost` fails |
| `follow_dotdot` | link texts with `..` after a name | `IdentifiesTarget` fails |
| `init_authoritative` | 1 goroutine, 2 Inits | `InitIsAuthoritative` fails |

Why the bounds are enough:

- Two calls are every pair of handlers against each other; three attempts let a
  Start replace a process that itself replaced one, with an older supervisor
  still to run. The theorems below remove both bounds.
- Two Loads let the root be bound and moved away within one request or check,
  with a server created for each, and the edit may fall before the first,
  between the two, or between any two steps of either. The second Init finds
  what the first one left, at whichever step it failed. Inits and what moves the
  root touch different variables, so `MCNext` keeps several of the one apart from
  several of the other; at first `source-dir` is the default, and one directory
  at most holds a `go.mod`. Two goroutines are every pair of
  operations. The theorems remove all these bounds.
- Two versions per file tell "current" from "left by an earlier emission", and a
  deleted file may come back as either.
  The ten go.mod files hold each accepted and refused kind of target, alone and
  in pairs.
- Two targets are one of each kind, the second with and without a toolchain;
  two requests into them meet in every pair of steps; one edit tells a build or
  a scan made before it from one made after; in the run it is not made while
  both requests are to write documents (`MCNext`).
- Six places hold a directory with links in it, chains, cycles and links that
  grow the name. `MaxSteps` = 30 is above 3 * (6 + 1), a name of `MaxParts` = 3
  components and six links of as many. The theorems remove these bounds.
- A link and its file are met under one kind and under two, the link as
  sensitive and later as ordinary, the file as ordinary in one graph and as
  sensitive in another; a plan uses a module with a sum and one without. Two supplied inputs are
  two of the caller's, two of a plan's, or one of each, equal or not, under one
  key or under two. The theorems remove these bounds.

CHECK_DEADLOCK is off for `inputs` and the `follow` runs: one request ends.

Preconditions of an instance. The go.mod files of the `recipe` run satisfy
`DistinctReplaces` and `OuterFirst` (an ASSUME of `MCRecipeContext`); what happens
otherwise is below. The link texts of `follow` satisfy `TextsClimbFirst`: they
climb, if at all, before they name anything (an ASSUME of `MCFollowLinks`).
`AnswerMatchesDisk` speaks of requests that no other one overlaps: with two into
one directory a file may be replaced after the answer, whatever the code does. A
Lint names no target, as Tooling's does. `OneModulePerRequest` and
`OneModulePerCheck` except the requests under which a Load moves the root: the
code gives those one answer about two modules (below). Nothing else moves it, and
a request that begins after the Load is in the new module.

## Fairness

Only `runtime_overlap` and `follow` need it. Weak fairness of `Proceed(c)` and
`Supervisor(p)` says that a goroutine that can step does, and that `Proc.Stop`,
`BuildBinary` and `Proc.Start` return; the code passes them contexts and relies
on that. Strong fairness of `Lock(c)` is Go's mutex, which hands itself to a
waiter that has waited a millisecond. Nothing is assumed of the host, of the
user's process or of the watcher. `FollowLinks` has weak fairness of its next
step: one recursion without blocking.

## Proofs

`RuntimeLifecycle_proofs`, for any `Calls`, any `MaxAttempts`, either mode and
with or without overlap:

- `Consistency`: `Spec => []Consistent`. `TypeOK` and `LockInv` and `ReportInv`
  together are inductive: a Start past the lock is the holder of `startMu`, so
  from linking to answering no other attempt touches `binary` or `report`. Stop
  and Init touch neither, which is why it survives overlap.
- `ReportsAreTrue`: `Spec => ReportedIsLaunched`, from `Consistent` and a look
  at every step that sets an answer.
- `CrashesAreAttended`: `Spec => []NoCrashLost`, the safety half of
  `CrashNoticed`. It is not inductive: that somebody is left to look must be
  known of a process before it ends. `Attending` says so of every process that
  runs or ended alone, from the step that launches it to the mark of its
  supervisor, through overlap and every failing path.

`RuntimeSerial_proofs`, assuming `~Overlap`:

- `SerialInvariant`: `Spec => []Serial`. `NoOrphan` and `MarkedExitedAlone` are
  not inductive. `Serial` adds that a Stop is alone and at most one Start is past
  the lock (`Alone`; an Init may be anywhere beside it), that attempt numbers are
  fresh (`FreshAttempts`), that `runner` and `runnerCancel` belong to the attempt
  at hand and a process is stopped only after its context is cancelled
  (`FieldsFollow`), and that a supervisor past its test waits for a process that
  ended by itself (`ExitsFollow`).
- `NeverOrphaned` and `NeverBlamed` follow, and `RuntimeSupervises`:
  `Spec => Supervised`, each step being a step of `SupervisedProcess` or a
  stutter.
- `NoRebuildDuringStop`: `Spec => NoRequestDuringTeardown`. In a Stop's teardown
  no watcher runs (`Watched`): Stop has stopped it, and the one action that
  starts another belongs to an Init, which `Alone` keeps away from a Stop.

`SourceBinding_proofs`, for any `Calls` and `Sources`, any number of Loads and of
edits, at any moment:

- `CodeBinding`: `Spec => []Binding`. Inductive as it stands: whoever is past
  the lock holds `serverMu`, and a server is created and the last one closed in
  one step of that holder.
- `NeverClosedUnderneath`: `Spec => []ServesOpenServer`, since a running
  request's server is the last one and the closed ones are those before it.
- `RootHoldsModule`: `Spec => []RuntimeBindsModule`. An edit withdraws
  `rootFresh` and `loadFresh`, so what is to be shown is that nothing read before
  an edit passes for fresh: `Rests` says that the settings of a Load that is
  still fresh are the declared ones, that what such a Load found is
  `WithModuleFallback` of them, and that a fresh root is too unless Builder.Load
  bound it.
- `RootReaffirmed`: `Spec => Reaffirms`. A fresh Load over a fresh root writes, by
  `Rests`, the value that is there.
- `RequestsSeeOneModule`: `Spec => []OneModulePerRequest`. `Settled` carries it
  from the step that enters the server: the server was created for the root as
  it was then, a bound root is not resolved again, and a Load that moves it
  marks every request that runs.

`AgentOperations_proofs`, for any `Calls`, `MaxLoads` and `MaxInits`:

- Each step of the agent is a step of `SourceBinding` or leaves its variables
  alone, so that `Binding` holds here too (`AgentBound`). This is a matter of how
  the module is composed and only a lemma.
- `EnvironmentShared` and `ValuesWhole` rest on `HostInv`, which says for each
  place in Init what the steps before it have set: `runner` and `active` differ
  only between their assignments, an environment is made from the values of one
  Init, and those of the running Init are whole from `check` on.
- `RequestsKeepEnvironment`: an environment once published stays published, so
  what a request saw at its start is what every later read finds.
- `ChecksSeeOneModule`: unless a Load has moved the root between two of its
  reads, what a check has read is the root, or it has failed, or it was one read
  of an unbound root with nothing left to read (`SeesOne`). No hypothesis on
  who bound the root or what was edited.
- `RefusalsExplained`: `RefusalsAreExplained`. A tool is only run for an
  operation whose outcomes Tooling has a reason for (`Explained`), and every
  other refusal is an error of the agent's own.

`PackageArtifacts_proofs`, for any `Packagers`, `Platforms` and `MaxEdits`:

- `PublicationIsAtomic`, `TidiesUp` and `NoSilentLeak`: `PublishedComplete`,
  `NothingLeftBehind` and `LeaksAreReported`. None is inductive. `Held` says what
  a request's temporary file is at each step, so that what is renamed is whole
  whatever the deferred shutdown did, and that after the return it is gone,
  stuck, or written by a container the answer tells of; `Accounted` that a container is the one in
  use or one already reported; `Progress` that a document is only written for a
  target whose executable was produced. `Frame` says what a step of one request
  leaves to the others.
- `PackagePublishes`: `Spec => Publishes`, the refinement of `Publication`. A
  rename is `Publish` or `Document`, because `Progress` keeps the target in hand
  apart from those still to do and `Held` says that what is renamed is whole;
  every error path is `Fail`, both successful returns are `Succeed`, and the
  remaining steps change neither what is published nor what is owed.
- `AnswersDescribeDisk`: `Spec => []AnswerMatchesDisk`. A request nothing
  overlaps is the only writer of the directory (`Unshared`). `Listed` says that
  the digests taken so far are those of the files as they are, of targets that
  are done; `InHand` what is known of the target being built or documented;
  `Done` that the others are delivered, and documented by a scan no older than
  their executable. An edit only makes the source newer, so it disturbs none of
  them, and the overlap of another request withdraws the promise.

`RecipeContext_proofs`, for any directories, any nesting, any go.mod files and
any number of versions:

- `SourceIsCurrent` and `NothingOutlives`, with no hypothesis, file for file.
  Both from `Basic`: past the copy every file the module has is current, the list
  in memory comes from `go.mod`, and what is carried past the clearing is asked
  for and inside the repository.
- `OutsideIsRefused`, assuming `DistinctReplaces`, and `ContextResolvesAsHost`,
  assuming `OuterFirst` too. `Walked` describes the list in memory when the loop
  is at n: each earlier directive that leaves the module was accepted and
  rewritten, each later one is as written; `DistinctReplaces` is what keeps
  AddReplace from touching another one. `Carries` says that the trees of the
  earlier ones' targets are carried file for file, none torn, none missing and
  none left over; one that exists already is so because a directory that
  contains it was carried, which is where `OuterFirst` comes in.

`EffectiveInputs_proofs`, for any files, links, listings and supplied inputs:

- `SecretsStayUnhashed`: `Spec => []SecretsUnhashed`. Before the sets are
  resolved only the text of links carries a hash (`Hashing`), and by then the
  classification is complete.
- `CompletenessIsEarned`, `GapsAreReported` and `ObservationsStand`:
  `CompleteIsObserved`, `GapsAreVisible` and `ObservedWins`. `Coverage` says that
  a set holds all of a list, or is incomplete, or the request is cancelled;
  `ResolvedSets` and `HeldLinks` that what a set holds is hashed unless it is
  sensitive or a module without a sum, or the set is incomplete. An answer that is assembled meets a
  context that is not cancelled, and merging without a contradiction leaves all
  that true (`MergedFits`).

`FollowLinks_proofs`, for any workspace of any depth, any names and link texts:

- `FollowIdentifiesConsumed` and `FollowMissesNothing`: `IdentifiesConsumed` and
  `MissesNothing`, both assuming `TextsClimbFirst`. The code cleans a name and starts again at the root after
  every link, the kernel climbs and goes on from where it is, so the two meet at
  no step of their own. `Beside` says that there is a step of the kernel from
  which what it has still to go is, cleaned, the name the code walks, and that
  the links behind it are those the code has met, each once; `Level` that the
  code has come no further than the kernel, or to a file in the kernel's way, so
  that with `WellFormed` both take the same link next. After a link the kernel
  may have climbs left that `Clean` has already made: `CatchesUp` lets it climb.
  Steps taken and components still to go are at most `MaxParts` for the start
  and for each link met, which is why the kernel has ended by `MaxSteps` where
  the code identifies a file. Where the code meets an odd name, the kernel comes
  by it too (`OddToBoth`).
- `FollowNearsItsEnd`: `NearsItsEnd`, the safety half of `WalkEnds`, with no
  hypothesis on the texts. `Left` is the number of links not met yet times the
  longest name and two more, plus what is left of the name. `Clean` adds no
  parts, so a name is never longer than what the start and each link met have
  brought (`Short`); following a link may lengthen the name, and pays for it
  with the link.
- `Iterate` is a recursive function. That it repeats its step (`Iterating`) and
  that `Clean` is a walk (`CleanIs`) are shown by `Induction`: a set of numbers
  that holds 0 and every successor of its own is `Nat`, from the well-foundedness
  of `<`.

The assumptions are the named ASSUMEs of `RuntimeLifecycle`: `NoCall` is no
call, the bound is a natural number, the modes are Booleans; and of
`SourceBinding`: the marks are no directories and the bounds are natural numbers;
of `AgentOperations`: there may be an Init; of `PackageArtifacts`: there is a
target, the host's is one, and the three marks of a file are no builds; of
`RecipeContext`: `Under` is the nesting of directories and files, the module is in
the repository, a `go.mod` is in its directory, and the go.mod files are sequences
of directives; of `EffectiveInputs`: listings are of files, a link leads to a file
that is neither a link nor a module of another repository, links are no such
modules, and names that mark a secret are those of files; and of `FollowLinks`:
".." names no entry, the workspace is finite, names and texts have at most
`MaxParts` components, odd names are names, and `MaxSteps` is large enough.
`TextsClimbFirst` is a hypothesis of the first two theorems of `FollowLinks_proofs`, and
`follow_dotdot` shows that it is needed.
`~Overlap` is a hypothesis of each theorem of `RuntimeSerial_proofs`, and
`runtime_blame` shows that it is needed.

Only model-checked: liveness (`CrashNoticed`, `EveryCallAnswered`, `WalkEnds`),
which rests on fairness and so on ENABLED, out of the prover's reach. What
`CrashNoticed` and `WalkEnds` need besides fairness is proved, as `NoCrashLost`
and `NearsItsEnd`.

## Where code and words differ

Shown by a run:

- `runtime_blame`. Stop sees `runner` set and then `runnerCancel` cleared by a
  Start that failed to launch; it skips the cancellation and stops whatever the
  next Start has put in `runner`. That process ends with its context alive and
  is reported as having exited unexpectedly (`pkg/runtime/runtime.go:85-86` says
  the context tells the two apart).
- `source_rebind`. Builder.Load binds `<service>/<source-dir>` even when the
  `go.mod` is at the service root (`pkg/builder/builder.go:89`;
  `pkg/service/service.go:39-43` promises the fallback).
- `init_authoritative`. The environment is made by the first Init and given that
  Init's variables for good (`pkg/runtime/runtime.go:171-175`, 234); later Inits
  update the recorded variables only, and a process gets both.
  `pkg/runtime/runtime_test.go:151-153` says a second Init must not keep serving
  the first one's values, and tests the recorded ones. The run takes from core
  that variables given to an environment reach its processes.
- `recipe_nested`. A replacement inside another one and named first makes the
  outer one's destination exist as a parent directory; the outer copy is then
  skipped (`pkg/builder/replace.go:128`, against 38-40).
- `follow_dotdot`. `b/../c` is cleaned to `c` although `b` is a link to another
  directory: another file is hashed than the one opened
  (`pkg/service/effective_inputs.go:461`, against `EFFECTIVE_INPUTS.md:53-54`).

Met while reading, without a run of their own:

- `pkg/runtime/runtime.go:74-75` gives one start attempt "exclusive ownership of
  runner, runnerCancel and the binary"; Stop writes the first two without
  `startMu` (566-575).
- `runtime.go:379-380` still describes a started response while waiting for an
  edit under hot reload; a failed build answers an error (315).
- A file deleted from the module stays in a context that an earlier emission made
  and is compiled there, also when its directory is the target of a replacement,
  since the copy only adds (`builder.go:232-257`, against `replace.go:36-40`);
  `SourceCurrent` says that nothing else of the module differs.
- A Runtime.Load after a change of `source-dir` (`runtime.go:97`, 116) moves the
  root between `go mod edit` and the tidy of one request (`code.go:195`), or between
  the two parts of one Lint (541-542): one answer about two modules.
  `service.go:37-38` speaks of reaffirming "the same configured root". `Reaffirms`
  says when a Load does not.
- A Runtime.Load that read the settings, or looked for the module, before an edit
  (`runtime.go:97`, 120) binds what it found (125) over what a request resolved
  after the edit.
- A module "go list" reports without a sum is added without an identity and leaves
  its task complete (`effective_inputs.go:304-310`).
- A link met as sensitive and later as ordinary is recorded with the hash of its
  text (`effective_inputs.go:448-458`); the file behind it stays protected.
- With the last filesystem replacement dropped, `replace.go:71` returns before
  the old `_replace` tree is removed, which 83-87 says must not outlive its
  directive; `NoStaleCarry` speaks of the other go.mod files.
- `replace.go:133`: `replace foo => x` makes AddReplace blank
  `replace foo v1 => y`, which 45-46 says must not be dropped silently.
- Two Inits that overlapped could leave `RunnerEnvironment` and `ActiveEnv`
  naming different environments (`runtime.go:234`, `service.go:47-50`); the host
  sends one after the other.
- An Init with another RuntimeContext keeps the environment of the first one,
  while endpoints and configurations are filtered for the new one
  (`runtime.go:219`, 229, 234). Destroy (584) takes the last context and the
  current settings, not those the environment was made with; the environment
  keeps the settings of its creation (156-163) while the watcher follows new
  ones (249-252).
- A failed Init leaves an environment that is not initialised; Build then runs
  in it, although `effective_input_plans.go:63` names "an initialized Go runner"
  as what it requires.
- Test and Lint before any Load read the root as "" (`runtime.go:452`, 496,
  541); only Build and discovery resolve it.
- `unpinnedImageSubject` (`builder.go:322`) takes a digest of "sha256:" and
  nothing else for a pin.
- Builder.Create uses the answers of the last Communicate, however old
  (`builder.go:685`).

## Not modelled

The content of templates, generated Dockerfiles and diagnostics; core itself
(runners, file operations, git, the code index, gRPC), which appears only as
what its callers rely on, as does `GetSemanticIndex`, which core serves by
calling Execute. Builder.Init, Update, Sync, Create, Communicate, Deploy, Audit
and SBOM run one tool or render one template and keep no state but the answers
of Communicate. Runtime.Destroy removes containers and caches through core. The
call graph keeps no state; the formatting of one file and the image lock are
sequential validations of one document. An unlocked read of the string
`SourceLocation` or of a configuration that another goroutine is writing is
modelled as an atomic access: that it may be torn is not in any model. Overlapping
Loads are not in `SourceBinding`: one host sends one after the other. Overlapping
Inits are not in `AgentOperations`; they are in `RuntimeLifecycle`, which keeps
no environments.

## Plan

Done: the modules above, in the order runtime, source root and Code, the agent
that composes them with Init and Tooling, recipe, Package, effective inputs.

Next, models: several plans in one request; `unpinnedImageSubject` and the image
lock as pure operators; several hosts that Init at the same time.

Next, proofs: every safety property that a passing run checks is proved. Part of
`RuntimeSerial_proofs` may hold under less than `~Overlap`: an Init beside a Stop
can break `NoRequestDuringTeardown`, but touches no process.
