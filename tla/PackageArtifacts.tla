-------------------------- MODULE PackageArtifacts --------------------------
(***************************************************************************)
(* Builder.Package (src/pkg/builder/builder.go:338-657): executables for a *)
(* list of platforms, each built into a temporary file and renamed over    *)
(* its destination, then hashed by reading the destination back; and, on   *)
(* request, a CycloneDX document beside each executable that names the     *)
(* digest reported for it.  A platform other than the host's is compiled   *)
(* in a container that is shut down whatever became of the build.  Nothing *)
(* serialises two requests, and developers edit the source meanwhile.      *)
(*                                                                         *)
(* A build is identified by the edit of the source it was made from; the   *)
(* digest of a file is its contents.                                       *)
(***************************************************************************)
EXTENDS Integers

CONSTANTS
  Packagers,    \* concurrent Package requests
  Platforms,    \* number of targets: 1..Platforms, numbered in sorted order
  Host,         \* the target the plugin itself runs on
  MaxEdits,     \* bound: edits of the source
  NoFile,       \* the file does not exist
  Partial,      \* a file with a part of a build in it
  Stuck         \* a temporary file os.Remove could not remove

Targets == 1..Platforms

ASSUME PlatformsAssumption ==
  /\ Platforms \in Nat \ {0}
  /\ Host \in Targets
ASSUME EditsAssumption == MaxEdits \in Nat
ASSUME FilesAssumption ==
  /\ NoFile \notin Int
  /\ Partial \notin Int
  /\ NoFile # Partial
  /\ Stuck \notin Int \cup {NoFile, Partial}

VARIABLES
  unsupported, \* targets no CGO cross toolchain exists for
  source,      \* the edit the source directory holds
  executable,  \* destination of each target's binary
  evidence,    \* the .cdx.json beside it
  pc,          \* where each request is in Package
  todo,        \* its targets still to build, or to write evidence for
  target,      \* the target it is working on
  wanted,      \* its normalised targets
  sbom,        \* include_sbom
  temp,        \* its temporary file
  scan,        \* the edit the dependency scan saw
  artifacts,   \* what it has produced so far
  running,     \* targets of this request whose container still exists
  warned,      \* targets whose slow shutdown was logged
  errors,      \* what failed: "build", "shutdown", "other"
  answer,      \* its last answer
  asked        \* history: the edit the source held when it was called, or
               \* Overlapped once another request was under way meanwhile

files == <<executable, evidence>>
plan  == <<todo, target, wanted, sbom>>
work  == <<temp, scan, artifacts>>
tool  == <<running, warned>>
reply == <<errors, answer, asked>>
vars  == <<unsupported, source, files, pc, plan, work, tool, reply>>

NoAnswer == [ok |-> FALSE, artifacts |-> {}, errors |-> {}]

Edits  == 0..MaxEdits
Overlapped == -1
Sbom   == [sha : Edits, scan : Edits]
Artifact ==
  [kind : {"executable"}, target : Targets, sha : Edits] \cup
  [kind : {"sbom"}, target : Targets, document : Sbom]

Init ==
  /\ unsupported \in SUBSET (Targets \ {Host})
  /\ source = 0
  /\ executable = [t \in Targets |-> NoFile]
  /\ evidence   = [t \in Targets |-> NoFile]
  /\ pc     = [p \in Packagers |-> "idle"]
  /\ todo   = [p \in Packagers |-> {}]
  /\ target = [p \in Packagers |-> Host]
  /\ wanted = [p \in Packagers |-> {}]
  /\ sbom   = [p \in Packagers |-> FALSE]
  /\ temp   = [p \in Packagers |-> NoFile]
  /\ scan   = [p \in Packagers |-> 0]
  /\ artifacts = [p \in Packagers |-> {}]
  /\ running = [p \in Packagers |-> {}]
  /\ warned  = [p \in Packagers |-> {}]
  /\ errors  = [p \in Packagers |-> {}]
  /\ answer  = [p \in Packagers |-> NoAnswer]
  /\ asked   = [p \in Packagers |-> 0]

At(p, label) == pc[p] = label
Goto(p, label) == pc' = [pc EXCEPT ![p] = label]

Edit ==
  /\ source < MaxEdits
  /\ source' = source + 1
  /\ UNCHANGED <<unsupported, files, pc, plan, work, tool, reply>>

(***************************************************************************)
(* Answers.  An error discards the artifacts produced so far, though not   *)
(* the files already renamed into place; the deferred os.Remove takes the  *)
(* temporary file away on every path, unless it fails, and nobody looks.   *)
(***************************************************************************)
RemoveTemp(p) ==
  \E left \in {NoFile, Stuck} :
    /\ left = Stuck => temp[p] # NoFile
    /\ temp' = [temp EXCEPT ![p] = left]

\* The request's own variables end with it.  What it produced is remembered if
\* no other request was under way.
Return(p, a) ==
  LET remembered == asked[p] # Overlapped IN
  /\ answer' = [answer EXCEPT ![p] = [a EXCEPT !.artifacts = IF remembered THEN @ ELSE {}]]
  /\ wanted' = [wanted EXCEPT ![p] = IF remembered THEN @ ELSE {}]
  /\ sbom'   = [sbom EXCEPT ![p] = remembered /\ @]
  /\ errors' = [errors EXCEPT ![p] = {}]
  /\ todo' = [todo EXCEPT ![p] = {}]
  /\ target' = [target EXCEPT ![p] = Host]
  /\ scan' = [scan EXCEPT ![p] = 0]
  /\ artifacts' = [artifacts EXCEPT ![p] = {}]
  /\ Goto(p, "idle")
  /\ UNCHANGED <<unsupported, source, files, asked>>

Failed(failed) == [ok |-> FALSE, artifacts |-> {}, errors |-> failed]

\* A mutant: an error path forgets the temporary file.
ErrorKeepingTemp(p, failed) == Return(p, Failed(failed)) /\ UNCHANGED temp

PackageError(p, failed) == Return(p, Failed(failed)) /\ RemoveTemp(p)

\* Steps that can fail for a reason outside the model: the file system, the
\* go command, the container daemon before a container exists.
Fails(p) ==
  /\ pc[p] \in {"target", "toolchain", "publish", "digest", "scan", "attach",
                "evidence", "evidenceDigest"}
  /\ pc[p] \in {"target", "attach"} => todo[p] # {}
  /\ PackageError(p, {"other"})
  /\ UNCHANGED tool

(***************************************************************************)
(* The request.  No targets means the host's; duplicates collapse.         *)
(***************************************************************************)
Normalized(requested) == IF requested = {} THEN {Host} ELSE requested

\* A request that is over is forgotten when another one begins; one that is not
\* is no longer alone.
Begins(p, history, first, none) ==
  [q \in Packagers |-> IF q = p THEN first ELSE IF At(q, "idle") THEN none ELSE history[q]]

Package(p) ==
  /\ At(p, "idle")
  /\ \E requested \in SUBSET Targets, include \in BOOLEAN :
       /\ wanted' = Begins(p, wanted, Normalized(requested), {})
       /\ todo'   = [todo EXCEPT ![p] = Normalized(requested)]
       /\ sbom'   = Begins(p, sbom, include, FALSE)
  /\ running'   = Begins(p, running, {}, {})
  /\ warned'    = Begins(p, warned, {}, {})
  /\ answer'    = Begins(p, answer, NoAnswer, NoAnswer)
  /\ temp'      = Begins(p, temp, NoFile, NoFile)
  /\ asked'     = [q \in Packagers |->
                    IF q = p /\ \A o \in Packagers : At(o, "idle") THEN source ELSE Overlapped]
  /\ Goto(p, "target")
  /\ UNCHANGED <<unsupported, source, files, target, scan, artifacts, errors>>

\* The output directory, the artifact name or a target is not acceptable.
Reject(p) ==
  /\ At(p, "idle")
  /\ answer'  = [answer EXCEPT ![p] = Failed({"other"})]
  /\ running' = [running EXCEPT ![p] = {}]
  /\ warned'  = [warned EXCEPT ![p] = {}]
  /\ temp'    = [temp EXCEPT ![p] = NoFile]
  /\ UNCHANGED <<unsupported, source, files, pc, plan, scan, artifacts, errors, asked>>

First(t, S) == t \in S /\ \A u \in S : t <= u

(***************************************************************************)
(* packageGoBinary: resolve the main package, create the temporary file    *)
(* beside the destination, compile into it, rename it.                     *)
(***************************************************************************)
NextTarget(p) ==
  /\ At(p, "target")
  /\ \E t \in Targets :
       /\ First(t, todo[p])
       /\ target' = [target EXCEPT ![p] = t]
       /\ todo'   = [todo EXCEPT ![p] = @ \ {t}]
       /\ Goto(p, IF t = Host THEN "native" ELSE "toolchain")
  /\ temp' = [temp EXCEPT ![p] = Partial]
  /\ UNCHANGED <<unsupported, source, files, wanted, sbom, scan, artifacts, tool, reply>>

Compiled(p) == temp' = [temp EXCEPT ![p] = source]

NativeBuild(p) ==
  /\ At(p, "native")
  /\ \/ /\ Compiled(p)
        /\ Goto(p, "publish")
        /\ UNCHANGED <<unsupported, source, files, plan, scan, artifacts, tool, reply>>
     \/ PackageError(p, {"build"}) /\ UNCHANGED tool

(***************************************************************************)
(* packageCrossGoBinaryWithRunner.  The deferred function runs on every    *)
(* return after the runner exists; its Shutdown has a context of its own.  *)
(***************************************************************************)
NoToolchain(p) ==
  /\ At(p, "toolchain")
  /\ target[p] \in unsupported
  /\ PackageError(p, {"other"})
  /\ UNCHANGED tool

NewRunner(p) ==
  /\ At(p, "toolchain")
  /\ target[p] \notin unsupported
  /\ running' = [running EXCEPT ![p] = @ \cup {target[p]}]
  /\ Goto(p, "init")
  /\ UNCHANGED <<unsupported, source, files, plan, work, warned, reply>>

\* A mutant: Shutdown deferred only once Init has succeeded.
InitBeforeDefer(p) ==
  /\ At(p, "init")
  /\ \/ /\ Goto(p, "run")
        /\ UNCHANGED <<unsupported, source, files, plan, work, tool, reply>>
     \/ PackageError(p, {"other"}) /\ UNCHANGED tool

\* runner.Init, then NewProcess: a failure of either returns through the defer.
InitRunner(p) ==
  /\ At(p, "init")
  /\ \/ /\ Goto(p, "run")
        /\ UNCHANGED errors
     \/ /\ errors' = [errors EXCEPT ![p] = {"other"}]
        /\ Goto(p, "shutdown")
  /\ UNCHANGED <<unsupported, source, files, plan, work, tool, answer, asked>>

\* A mutant: the error of the build is lost when the deferred function runs.
BuildErrorLost(p) ==
  /\ At(p, "run")
  /\ \/ Compiled(p)
     \/ UNCHANGED temp
  /\ Goto(p, "shutdown")
  /\ UNCHANGED <<unsupported, source, files, plan, scan, artifacts, tool, reply>>

CrossBuild(p) ==
  /\ At(p, "run")
  /\ \/ /\ Compiled(p)
        /\ UNCHANGED errors
     \/ /\ errors' = [errors EXCEPT ![p] = {"build"}]
        /\ UNCHANGED temp
  /\ Goto(p, "shutdown")
  /\ UNCHANGED <<unsupported, source, files, plan, scan, artifacts, tool, answer, asked>>

\* A mutant: a target whose build failed is skipped.
SkipFailed(p, failed) ==
  /\ Goto(p, IF failed = {} THEN "publish" ELSE "target")
  /\ IF failed = {} THEN UNCHANGED temp ELSE RemoveTemp(p)
  /\ errors' = [errors EXCEPT ![p] = {}]
  /\ UNCHANGED <<unsupported, source, files, plan, scan, artifacts, answer, asked>>

\* What returning from the deferred function leads to.
AfterShutdown(p, failed) ==
  IF failed = {}
    THEN /\ Goto(p, "publish")
         /\ UNCHANGED <<unsupported, source, files, plan, work, reply>>
    ELSE PackageError(p, failed)

RemoveContainer(p) == running' = [running EXCEPT ![p] = @ \ {target[p]}]

ShutdownOk(p) ==
  /\ At(p, "shutdown")
  /\ RemoveContainer(p)
  /\ UNCHANGED warned
  /\ AfterShutdown(p, errors[p])

\* The daemon did not answer in time: it may or may not have removed the
\* container.  A finished build is kept, with a warning.
ShutdownTimeout(p) ==
  /\ At(p, "shutdown")
  /\ RemoveContainer(p) \/ UNCHANGED running
  /\ IF errors[p] = {}
       THEN /\ warned' = [warned EXCEPT ![p] = @ \cup {target[p]}]
            /\ AfterShutdown(p, {})
       ELSE /\ UNCHANGED warned
            /\ AfterShutdown(p, errors[p] \cup {"shutdown"})

ShutdownFails(p) ==
  /\ At(p, "shutdown")
  /\ RemoveContainer(p) \/ UNCHANGED running
  /\ UNCHANGED warned
  /\ AfterShutdown(p, errors[p] \cup {"shutdown"})

\* A build that was cancelled may go on in a container that outlives the request,
\* and write the file the request has just removed.
OutlivesItsRequest(p) == {"build", "shutdown"} \subseteq answer[p].errors
WriteLate(p) ==
  /\ At(p, "idle")
  /\ OutlivesItsRequest(p)
  /\ running[p] \ warned[p] # {}
  /\ temp' = [temp EXCEPT ![p] = Partial]
  /\ UNCHANGED <<unsupported, source, files, pc, plan, scan, artifacts, tool, reply>>

(***************************************************************************)
(* chmod and rename, then packageFileSHA256 reads the destination back:    *)
(* between the two, another request may have renamed its own build there.  *)
(* The rename takes the temporary file, so its removal finds nothing.      *)
(***************************************************************************)
Renamed(p) == temp' = [temp EXCEPT ![p] = NoFile]

Publish(p) ==
  /\ At(p, "publish")
  /\ executable' = [executable EXCEPT ![target[p]] = temp[p]]
  /\ Renamed(p)
  /\ Goto(p, "digest")
  /\ UNCHANGED <<unsupported, source, evidence, plan, scan, artifacts, tool, reply>>

Produced(p, artifact) == artifacts' = [artifacts EXCEPT ![p] = @ \cup {artifact}]

Executable(t) == [kind |-> "executable", target |-> t, sha |-> executable[t]]
Document(t)   == [kind |-> "sbom", target |-> t, document |-> evidence[t]]

Digest(p) ==
  /\ At(p, "digest")
  /\ Produced(p, Executable(target[p]))
  /\ Goto(p, "target")
  /\ UNCHANGED <<unsupported, source, files, plan, temp, scan, tool, reply>>

(***************************************************************************)
(* All binaries are there: scan the dependencies once, then write one      *)
(* document per executable.                                                *)
(***************************************************************************)
Finish(p) ==
  /\ Return(p, [ok |-> TRUE, artifacts |-> artifacts[p], errors |-> {}])
  /\ UNCHANGED <<temp, tool>>

AllBuilt(p) ==
  /\ At(p, "target")
  /\ todo[p] = {}
  /\ IF sbom[p]
       THEN /\ Goto(p, "scan")
            /\ UNCHANGED <<unsupported, source, files, plan, work, tool, reply>>
       ELSE Finish(p)

Scan(p) ==
  /\ At(p, "scan")
  /\ scan' = [scan EXCEPT ![p] = source]
  /\ todo' = [todo EXCEPT ![p] = wanted[p]]
  /\ Goto(p, "attach")
  /\ UNCHANGED <<unsupported, source, files, target, wanted, sbom, temp, artifacts, tool, reply>>

\* A mutant: every document names the digest of the first executable.
ReportedFirst(p, t) ==
  (CHOOSE a \in artifacts[p] : a.kind = "executable" /\ \A b \in artifacts[p] : a.target <= b.target).sha

\* The digest the document names is the one reported for the executable.
Reported(p, t) ==
  (CHOOSE a \in artifacts[p] : a.kind = "executable" /\ a.target = t).sha

AttachArtifact(p) ==
  /\ At(p, "attach")
  /\ \E t \in Targets :
       /\ First(t, todo[p])
       /\ target' = [target EXCEPT ![p] = t]
       /\ todo'   = [todo EXCEPT ![p] = @ \ {t}]
       /\ temp'   = [temp EXCEPT ![p] = [sha |-> Reported(p, t), scan |-> scan[p]]]
  /\ Goto(p, "evidence")
  /\ UNCHANGED <<unsupported, source, files, wanted, sbom, scan, artifacts, tool, reply>>

WritePackageFile(p) ==
  /\ At(p, "evidence")
  /\ evidence' = [evidence EXCEPT ![target[p]] = temp[p]]
  /\ Renamed(p)
  /\ Goto(p, "evidenceDigest")
  /\ UNCHANGED <<unsupported, source, executable, plan, scan, artifacts, tool, reply>>

EvidenceDigest(p) ==
  /\ At(p, "evidenceDigest")
  /\ Produced(p, Document(target[p]))
  /\ Goto(p, "attach")
  /\ UNCHANGED <<unsupported, source, files, plan, temp, scan, tool, reply>>

AllAttached(p) ==
  /\ At(p, "attach")
  /\ todo[p] = {}
  /\ Finish(p)

Next ==
  \/ Edit
  \/ \E p \in Packagers :
       \/ Package(p) \/ Reject(p) \/ Fails(p)
       \/ NextTarget(p) \/ NativeBuild(p)
       \/ NoToolchain(p) \/ NewRunner(p) \/ InitRunner(p) \/ CrossBuild(p)
       \/ ShutdownOk(p) \/ ShutdownTimeout(p) \/ ShutdownFails(p)
       \/ WriteLate(p)
       \/ Publish(p) \/ Digest(p) \/ AllBuilt(p)
       \/ Scan(p) \/ AttachArtifact(p) \/ WritePackageFile(p)
       \/ EvidenceDigest(p) \/ AllAttached(p)

Spec == Init /\ [][Next]_vars

-----------------------------------------------------------------------------
Labels ==
  {"idle", "target", "native", "toolchain", "init", "run", "shutdown", "publish",
   "digest", "scan", "attach", "evidence", "evidenceDigest"}

Temporary == Edits \cup {NoFile, Partial, Stuck}

TypeOK ==
  /\ unsupported \in SUBSET (Targets \ {Host})
  /\ source \in Edits
  /\ executable \in [Targets -> Edits \cup {NoFile, Partial}]
  /\ evidence \in [Targets -> {NoFile} \cup Sbom]
  /\ pc \in [Packagers -> Labels]
  /\ todo \in [Packagers -> SUBSET Targets]
  /\ target \in [Packagers -> Targets]
  /\ wanted \in [Packagers -> SUBSET Targets]
  /\ sbom \in [Packagers -> BOOLEAN]
  /\ \A p \in Packagers :
       temp[p] \in IF pc[p] = "evidence" THEN Sbom ELSE Temporary
  /\ scan \in [Packagers -> Edits]
  /\ artifacts \in [Packagers -> SUBSET Artifact]
  /\ running \in [Packagers -> SUBSET Targets]
  /\ warned \in [Packagers -> SUBSET Targets]
  /\ errors \in [Packagers -> SUBSET {"build", "shutdown", "other"}]
  /\ \A p \in Packagers :
       answer[p] \in [ok : BOOLEAN, artifacts : SUBSET Artifact,
                      errors : SUBSET {"build", "shutdown", "other"}]
  /\ asked \in [Packagers -> Edits \cup {Overlapped}]

\* Whatever fails and whoever else packages into the same directory, a
\* destination never holds a part of a build: it keeps the last complete one
\* until a complete one replaces it, and no digest is ever taken of a part
\* (builder.go:477-506: compile into a temporary file, rename on success).
PublishedComplete ==
  /\ TypeOK
  /\ \A t \in Targets : executable[t] # Partial

\* A request that is over leaves no temporary file in the directory it hands to
\* its caller, whichever of its steps failed (builder.go:491, 644), but one that
\* os.Remove could not remove or a container outliving the request wrote again,
\* and then the answer says that both the build and the shutdown failed.
NothingLeftBehind ==
  \A p \in Packagers : At(p, "idle") =>
    \/ temp[p] \in {NoFile, Stuck}
    \/ OutlivesItsRequest(p)

\* A container that outlives its request is never a silent leak: the request
\* logged it, or its answer carries the failed shutdown (builder.go:574-586,
\* docs/PACKAGING.md).
LeaksAreReported ==
  \A p \in Packagers : At(p, "idle") =>
    \A t \in running[p] : t \in warned[p] \/ "shutdown" \in answer[p].errors

\* A successful answer describes the directory it leaves behind: an executable
\* for each requested target, made from a source no older than the request, and,
\* if asked for, a document beside it that names that very executable and lists
\* the dependencies of a source no older than it; every digest is that of the
\* file.  It is promised to a request that no other one overlaps, until the next.
AnswerMatchesDisk ==
  \A p \in Packagers : (asked[p] # Overlapped /\ At(p, "idle") /\ answer[p].ok) =>
    /\ \A t \in wanted[p] :
         /\ Executable(t) \in answer[p].artifacts
         /\ executable[t] >= asked[p]
         /\ sbom[p] =>
              /\ Document(t) \in answer[p].artifacts
              /\ evidence[t].sha = executable[t]
              /\ evidence[t].scan >= executable[t]
    /\ \A a \in answer[p].artifacts : a.target \in wanted[p]

\* What a request still owes its caller.
Compiling   == {"native", "toolchain", "init", "run", "shutdown", "publish"}
Building    == {"target", "native", "toolchain", "init", "run", "shutdown", "publish", "digest"}
Documenting == {"scan", "attach", "evidence", "evidenceDigest"}
When(condition, S) == IF condition THEN S ELSE {}
Unbuilt(p) == When(pc[p] \in Building, todo[p]) \cup When(pc[p] \in Compiling, {target[p]})
Undocumented(p) ==
  When(sbom[p], When(pc[p] \in Building \cup {"scan"}, wanted[p]) \cup
                When(pc[p] \in Documenting \ {"scan"}, todo[p]) \cup
                When(pc[p] = "evidence", {target[p]}))
Open      == {p \in Packagers : pc[p] # "idle"}
Succeeded == {p \in Packagers : pc[p] = "idle" /\ answer[p].ok}

Promised == INSTANCE Publication WITH
  Builds <- Edits,
  Documents <- Sbom,
  open <- Open,
  unbuilt <- [p \in Packagers |-> Unbuilt(p)],
  undocumented <- [p \in Packagers |-> Undocumented(p)],
  succeeded <- Succeeded

\* A request that overlaps others keeps its word as well: it answers without an
\* error only once it has itself published every target, and every document after
\* every executable; one that fails publishes nothing more (builder.go:363-432).
Publishes == Promised!Spec
=============================================================================
