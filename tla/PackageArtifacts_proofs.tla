---------------------- MODULE PackageArtifacts_proofs ----------------------
(***************************************************************************)
(* Package under any number of requests, targets and edits: what is in the *)
(* destinations, in the directory and in the container daemon, whichever   *)
(* step of whichever request failed.                                       *)
(***************************************************************************)
EXTENDS PackageArtifacts, TLAPS

Failures == {"build", "shutdown", "other"}
Answers  == [ok : BOOLEAN, artifacts : SUBSET Artifact, errors : SUBSET Failures]

\* A request holds a temporary file from NextTarget to its rename, and from
\* AttachArtifact to the rename of the document.
Clean == {"target", "digest", "scan", "attach", "evidenceDigest"}

\* The file a request is about to rename, or to read back, is complete.
Held(p) ==
  /\ pc[p] = "idle" => temp[p] \in {NoFile, Stuck} \/ OutlivesItsRequest(p)
  /\ pc[p] \in Clean => temp[p] = NoFile
  /\ pc[p] = "publish" => temp[p] \in Edits
  /\ pc[p] = "shutdown" /\ errors[p] = {} => temp[p] \in Edits
  /\ pc[p] = "digest" => executable[target[p]] \in Edits
  /\ pc[p] = "evidenceDigest" => evidence[target[p]] \in Sbom

\* A container is the one in use, or one whose shutdown was reported.
Accounted(p) ==
  \A t \in running[p] :
    \/ t \in warned[p]
    \/ pc[p] \in {"init", "run", "shutdown"} /\ t = target[p]
    \/ pc[p] = "idle" /\ "shutdown" \in answer[p].errors

\* Executables come before documents.
HasExecutable(p, t) == \E a \in artifacts[p] : a.kind = "executable" /\ a.target = t
Progress(p) ==
  /\ pc[p] = "idle" => artifacts[p] = {}
  /\ pc[p] \in Compiling \cup {"digest", "evidence"} => target[p] \notin todo[p]
  /\ pc[p] \in Building =>
       /\ todo[p] \subseteq wanted[p]
       /\ \A t \in wanted[p] \ todo[p] :
            HasExecutable(p, t) \/ (pc[p] # "target" /\ t = target[p])
  /\ pc[p] \in Documenting =>
       /\ sbom[p]
       /\ todo[p] \subseteq wanted[p]
       /\ \A t \in wanted[p] : HasExecutable(p, t)

Types ==
  /\ TypeOK
  /\ temp = [p \in Packagers |-> temp[p]]
  /\ answer \in [Packagers -> Answers]

IInv ==
  /\ Types
  /\ \A t \in Targets : executable[t] # Partial
  /\ \A p \in Packagers : Held(p) /\ Accounted(p) /\ Progress(p)

-----------------------------------------------------------------------------
\* What a step of p leaves to the others.
Local(q) ==
  <<todo[q], target[q], wanted[q], sbom[q], artifacts[q], running[q], warned[q], errors[q], answer[q], temp[q]>>
Frame(p) ==
  /\ \A t \in Targets :
       /\ executable'[t] = executable[t] \/ executable'[t] \in Edits
       /\ evidence'[t] = evidence[t] \/ evidence'[t] \in Sbom
  /\ \A q \in Packagers \ {p} :
       /\ pc'[q] = pc[q]
       /\ \/ pc[q] = "idle" /\ running'[q] = {} /\ artifacts'[q] = artifacts[q] /\ temp'[q] = NoFile
          \/ Local(q)' = Local(q)

Mine(p) == Held(p) /\ Accounted(p) /\ Progress(p)

LEMMA EditsAreFiles == NoFile \notin Edits /\ Partial \notin Edits /\ Edits \subseteq Int
BY EditsAssumption, FilesAssumption DEF Edits

LEMMA FrameKeeps ==
  ASSUME IInv, NEW p \in Packagers, Frame(p), Types', Mine(p)'
  PROVE  IInv'
<1>1. \A t \in Targets : executable'[t] # Partial
  BY EditsAreFiles DEF IInv, Frame
<1>2. ASSUME NEW q \in Packagers PROVE Mine(q)'
  <2>1. CASE q = p
    BY <2>1
  <2>2. CASE q # p
    <3>1. pc'[q] = pc[q]
      BY <2>2 DEF Frame
    <3>2. Held(q) /\ Accounted(q) /\ Progress(q) /\ target[q] \in Targets
      BY DEF IInv, Types, TypeOK
    <3>3. CASE pc[q] = "idle" /\ running'[q] = {} /\ artifacts'[q] = artifacts[q] /\ temp'[q] = NoFile
      BY <3>1, <3>2, <3>3 DEF Mine, Clean, Held, Accounted, Progress, Compiling, Building, Documenting
    <3>4. CASE Local(q)' = Local(q)
      <4>1. /\ todo'[q] = todo[q] /\ target'[q] = target[q] /\ wanted'[q] = wanted[q]
            /\ sbom'[q] = sbom[q] /\ artifacts'[q] = artifacts[q] /\ running'[q] = running[q]
            /\ warned'[q] = warned[q] /\ errors'[q] = errors[q] /\ answer'[q] = answer[q]
            /\ temp'[q] = temp[q]
        BY <3>4 DEF Local
      <4>2. Held(q)'
        BY <3>1, <3>2, <4>1 DEF Frame, Held, OutlivesItsRequest
      <4>3. Accounted(q)'
        BY <3>1, <3>2, <4>1 DEF Accounted
      <4>4. Progress(q)'
        BY <3>1, <3>2, <4>1 DEF Progress, HasExecutable
      <4> QED
        BY <4>2, <4>3, <4>4 DEF Mine
    <3> QED
      BY <2>2, <3>3, <3>4 DEF Frame
  <2> QED
    BY <2>1, <2>2
<1> QED
  BY <1>1, <1>2 DEF IInv, Mine

LEMMA IInvInit == Init => IInv
<1> SUFFICES ASSUME Init PROVE IInv
  OBVIOUS
<1> USE EditsAreFiles, PlatformsAssumption DEF Init
<1>1. Types
  BY EditsAssumption DEF Types, TypeOK, Answers, NoAnswer, Artifact, Failures, Edits, Labels, Temporary
<1>2. \A p \in Packagers : Mine(p)
  BY DEF Mine, Held, Accounted, Progress, Clean, Compiling, Building, Documenting
<1>3. \A t \in Targets : executable[t] # Partial
  BY FilesAssumption
<1> QED
  BY <1>1, <1>2, <1>3 DEF IInv, Mine

LEMMA EditKeeps == ASSUME IInv, Edit PROVE IInv'
<1>1. Types'
  BY EditsAssumption DEF Edit, IInv, Types, TypeOK, Edits, files, plan, work, tool, reply
<1>2. /\ UNCHANGED <<executable, evidence, pc, todo, target, wanted, sbom, temp, artifacts, running, warned, errors, answer>>
  BY DEF Edit, files, plan, work, tool, reply
<1> QED
  BY <1>1, <1>2 DEF IInv, Held, OutlivesItsRequest, Accounted, Progress, HasExecutable

\* Answering: the request's own variables are reset, and the answer says what
\* failed.  The containers left are those reported.
LEMMA ReturnKeeps ==
  ASSUME IInv, NEW p \in Packagers, NEW a \in Answers, Return(p, a),
         NEW left \in {NoFile, Stuck}, temp' = [temp EXCEPT ![p] = left],
         running' \in [Packagers -> SUBSET Targets], warned' \in [Packagers -> SUBSET Targets],
         \A q \in Packagers \ {p} : running'[q] = running[q] /\ warned'[q] = warned[q],
         \A t \in running'[p] : t \in warned'[p] \/ "shutdown" \in a.errors
  PROVE  IInv'
<1> USE DEF Return
<1> DEFINE told == [a EXCEPT !.artifacts = IF asked[p] # Overlapped THEN @ ELSE {}]
<1>1. told \in Answers /\ told.errors = a.errors
  BY DEF Answers
<1>2. answer' = [answer EXCEPT ![p] = told]
  OBVIOUS
<1>3. /\ pc' = [pc EXCEPT ![p] = "idle"] /\ todo' = [todo EXCEPT ![p] = {}]
      /\ target' = [target EXCEPT ![p] = Host] /\ scan' = [scan EXCEPT ![p] = 0]
      /\ artifacts' = [artifacts EXCEPT ![p] = {}] /\ errors' = [errors EXCEPT ![p] = {}]
      /\ UNCHANGED <<unsupported, source, executable, evidence, asked>>
  BY DEF Goto, files
<1>4. Types'
  <2>1. answer' \in [Packagers -> Answers]
    BY <1>1, <1>2 DEF IInv, Types
  <2>2. temp' = [q \in Packagers |-> temp'[q]]
    BY DEF IInv, Types
  <2>3. wanted' \in [Packagers -> SUBSET Targets] /\ sbom' \in [Packagers -> BOOLEAN]
    BY DEF IInv, Types, TypeOK
  <2>4. \A q \in Packagers : temp'[q] \in IF pc'[q] = "evidence" THEN Sbom ELSE Temporary
    BY <1>3 DEF IInv, Types, TypeOK, Temporary
  <2>5. 0 \in Edits /\ Host \in Targets /\ "idle" \in Labels
    BY EditsAssumption, PlatformsAssumption DEF Edits, Labels
  <2>6. /\ pc' \in [Packagers -> Labels] /\ todo' \in [Packagers -> SUBSET Targets]
        /\ target' \in [Packagers -> Targets] /\ scan' \in [Packagers -> Edits]
        /\ artifacts' \in [Packagers -> SUBSET Artifact]
        /\ errors' \in [Packagers -> SUBSET {"build", "shutdown", "other"}]
    BY <1>3, <2>5 DEF IInv, Types, TypeOK
  <2> QED
    BY <1>3, <2>1, <2>2, <2>3, <2>4, <2>6 DEF IInv, Types, TypeOK, Answers, Failures, Edits, Targets, Sbom, Artifact
<1>5. Frame(p)
  BY <1>2, <1>3 DEF Frame, Local, IInv, Types, TypeOK
<1>6. /\ pc'[p] = "idle" /\ temp'[p] \in {NoFile, Stuck} /\ answer'[p] = told /\ artifacts'[p] = {}
  BY <1>2, <1>3 DEF IInv, Types, TypeOK
<1>7. Mine(p)'
  BY <1>1, <1>6 DEF Mine, Held, Clean, Accounted, Progress, Compiling, Building, Documenting
<1> QED
  BY <1>4, <1>5, <1>7, FrameKeeps

LEMMA FailureKeeps ==
  ASSUME IInv, NEW p \in Packagers, NEW failed \in SUBSET Failures, PackageError(p, failed),
         running' \in [Packagers -> SUBSET Targets], warned' \in [Packagers -> SUBSET Targets],
         \A q \in Packagers \ {p} : running'[q] = running[q] /\ warned'[q] = warned[q],
         \A t \in running'[p] : t \in warned'[p] \/ "shutdown" \in failed
  PROVE  IInv'
<1>1. Failed(failed) \in Answers /\ Failed(failed).errors = failed
  BY DEF Failed, Answers
<1> QED
  BY <1>1, ReturnKeeps DEF PackageError, RemoveTemp

\* A failure that leaves the containers alone, while none is in use.
LEMMA PlainFailureKeeps ==
  ASSUME IInv, NEW p \in Packagers, NEW failed \in SUBSET Failures, PackageError(p, failed), UNCHANGED tool,
         pc[p] \notin {"idle", "init", "run", "shutdown"}
  PROVE  IInv'
<1>1. running' = running /\ warned' = warned
  BY DEF tool
<1>2. /\ running' \in [Packagers -> SUBSET Targets]
      /\ warned' \in [Packagers -> SUBSET Targets]
      /\ \A t \in running[p] : t \in warned[p]
  BY <1>1 DEF IInv, Types, TypeOK, Accounted
<1> QED
  BY <1>1, <1>2, FailureKeeps

LEMMA FinishKeeps ==
  ASSUME IInv, NEW p \in Packagers, Finish(p), pc[p] \in {"target", "attach"}
  PROVE  IInv'
<1> DEFINE a == [ok |-> TRUE, artifacts |-> artifacts[p], errors |-> {}]
<1>1. running' = running /\ warned' = warned /\ temp' = temp
  BY DEF Finish, tool
<1>2. temp[p] = NoFile /\ temp = [q \in Packagers |-> temp[q]]
  BY DEF IInv, Types, Held, Clean
<1>3. temp' = [temp EXCEPT ![p] = NoFile]
  BY <1>1, <1>2
<1>4. /\ running' \in [Packagers -> SUBSET Targets]
      /\ warned' \in [Packagers -> SUBSET Targets]
      /\ \A t \in running[p] : t \in warned[p]
      /\ artifacts[p] \in SUBSET Artifact
  BY <1>1 DEF IInv, Types, TypeOK, Accounted
<1>5. a \in Answers
  BY <1>4 DEF Answers
<1>6. Return(p, a)
  BY DEF Finish
<1> QED
  BY <1>1, <1>3, <1>4, <1>5, <1>6, ReturnKeeps

\* A step inside a request: it changes the label, and of the rest what its
\* arguments say.
LEMMA StepTypes ==
  ASSUME IInv, NEW p \in Packagers, UNCHANGED <<unsupported, source, wanted, sbom, answer, asked>>,
         NEW label \in Labels, pc' = [pc EXCEPT ![p] = label],
         executable' \in [Targets -> Edits \cup {NoFile, Partial}],
         evidence' \in [Targets -> {NoFile} \cup Sbom],
         todo' \in [Packagers -> SUBSET Targets], target' \in [Packagers -> Targets],
         NEW held, temp' = [temp EXCEPT ![p] = held],
         held \in IF label = "evidence" THEN Sbom ELSE Temporary,
         scan' \in [Packagers -> Edits], artifacts' \in [Packagers -> SUBSET Artifact],
         running' \in [Packagers -> SUBSET Targets], warned' \in [Packagers -> SUBSET Targets],
         errors' \in [Packagers -> SUBSET {"build", "shutdown", "other"}]
  PROVE  Types'
<1>1. \A q \in Packagers : temp'[q] \in IF pc'[q] = "evidence" THEN Sbom ELSE Temporary
  BY DEF IInv, Types, TypeOK
<1>2. temp' = [q \in Packagers |-> temp'[q]]
  BY DEF IInv, Types
<1>3. pc' \in [Packagers -> Labels]
  BY DEF IInv, Types, TypeOK
<1>4. answer' \in [Packagers -> Answers]
  BY DEF IInv, Types
<1> QED
  BY <1>1, <1>2, <1>3, <1>4 DEF IInv, Types, TypeOK, Answers, Failures, Edits, Targets, Sbom, Artifact

-----------------------------------------------------------------------------
\* The steps, one by one.

LEMMA BeginsKeeps ==
  ASSUME IInv, NEW p \in Packagers, Package(p)
  PROVE  IInv'
<1> USE DEF Package, At, Goto, files, plan, work, tool, reply
<1>1. PICK requested \in SUBSET Targets, include \in BOOLEAN :
        /\ wanted' = Begins(p, wanted, Normalized(requested), {})
        /\ todo'   = [todo EXCEPT ![p] = Normalized(requested)]
        /\ sbom'   = Begins(p, sbom, include, FALSE)
  OBVIOUS
<1>2. Normalized(requested) \in SUBSET Targets
  BY PlatformsAssumption DEF Normalized
<1>3. /\ pc' = [pc EXCEPT ![p] = "target"] /\ pc[p] = "idle"
      /\ temp' = Begins(p, temp, NoFile, NoFile)
      /\ running' = Begins(p, running, {}, {}) /\ warned' = Begins(p, warned, {}, {})
      /\ answer' = Begins(p, answer, NoAnswer, NoAnswer)
      /\ UNCHANGED <<unsupported, source, executable, evidence, target, scan, artifacts, errors>>
  OBVIOUS
<1>4. Types'
  <2>1. /\ wanted' \in [Packagers -> SUBSET Targets] /\ todo' \in [Packagers -> SUBSET Targets]
        /\ running' \in [Packagers -> SUBSET Targets] /\ warned' \in [Packagers -> SUBSET Targets]
        /\ sbom' \in [Packagers -> BOOLEAN]
    BY <1>1, <1>2, <1>3 DEF Begins, IInv, Types, TypeOK
  <2>2. answer' \in [Packagers -> Answers]
    <3>1. NoAnswer \in Answers
      BY DEF NoAnswer, Answers
    <3> QED
      BY <1>3, <3>1 DEF Begins, IInv, Types
  <2>3. pc' \in [Packagers -> Labels]
    BY <1>3 DEF IInv, Types, TypeOK, Labels
  <2>4. \A q \in Packagers : temp'[q] \in IF pc'[q] = "evidence" THEN Sbom ELSE Temporary
    <3>1. NoFile \in Temporary
      BY DEF Temporary
    <3> QED
      BY <1>3, <3>1 DEF Begins, IInv, Types, TypeOK
  <2>5. asked' \in [Packagers -> Edits \cup {Overlapped}]
    BY DEF IInv, Types, TypeOK
  <2>6. /\ unsupported' \in SUBSET (Targets \ {Host}) /\ source' \in Edits
        /\ executable' \in [Targets -> Edits \cup {NoFile, Partial}]
        /\ evidence' \in [Targets -> {NoFile} \cup Sbom]
        /\ target' \in [Packagers -> Targets] /\ scan' \in [Packagers -> Edits]
        /\ artifacts' \in [Packagers -> SUBSET Artifact]
        /\ errors' \in [Packagers -> SUBSET {"build", "shutdown", "other"}]
        /\ temp' = [q \in Packagers |-> temp'[q]]
    BY <1>3 DEF Begins, IInv, Types, TypeOK
  <2> QED
    BY <2>1, <2>2, <2>3, <2>4, <2>5, <2>6 DEF Types, TypeOK, Answers, Failures
<1>5. Frame(p)
  <2>1. ASSUME NEW q \in Packagers \ {p}
        PROVE  /\ pc'[q] = pc[q]
               /\ \/ pc[q] = "idle" /\ running'[q] = {} /\ artifacts'[q] = artifacts[q] /\ temp'[q] = NoFile
                  \/ Local(q)' = Local(q)
    <3>1. /\ q # p /\ q \in Packagers /\ pc'[q] = pc[q] /\ todo'[q] = todo[q]
          /\ target'[q] = target[q] /\ artifacts'[q] = artifacts[q] /\ errors'[q] = errors[q]
      BY <1>1, <1>3 DEF IInv, Types, TypeOK
    <3>2. CASE pc[q] = "idle"
      BY <1>3, <3>1, <3>2 DEF Begins
    <3>3. CASE pc[q] # "idle"
      <4>1. /\ wanted'[q] = wanted[q] /\ sbom'[q] = sbom[q] /\ running'[q] = running[q]
            /\ warned'[q] = warned[q] /\ answer'[q] = answer[q] /\ temp'[q] = temp[q]
        BY <1>1, <1>3, <3>1, <3>3 DEF Begins
      <4> QED
        BY <3>1, <4>1 DEF Local
    <3> QED
      BY <3>2, <3>3
  <2> QED
    BY <1>3, <2>1 DEF Frame
<1>6. /\ pc'[p] = "target" /\ temp'[p] = NoFile /\ running'[p] = {}
      /\ wanted'[p] = todo'[p]
  BY <1>1, <1>3 DEF Begins, IInv, Types, TypeOK, Held, Clean
<1>7. Mine(p)'
  BY <1>6 DEF Mine, Held, Accounted, Progress, Compiling, Documenting
<1> QED
  BY <1>4, <1>5, <1>7, FrameKeeps

LEMMA RejectKeeps ==
  ASSUME IInv, NEW p \in Packagers, Reject(p)
  PROVE  IInv'
<1> USE DEF Reject, At, files, plan, work
<1>1. Failed({"other"}) \in Answers
  BY DEF Failed, Answers, Failures
<1>2. /\ answer' \in [Packagers -> Answers] /\ running' \in [Packagers -> SUBSET Targets]
      /\ warned' \in [Packagers -> SUBSET Targets]
  BY <1>1 DEF IInv, Types, TypeOK
<1>3. Types'
  BY <1>2 DEF IInv, Types, TypeOK, Temporary, Answers, Failures, Edits, Targets, Sbom, Artifact
<1>4. Frame(p)
  BY DEF Frame, Local
<1>5. pc'[p] = "idle" /\ temp'[p] = NoFile /\ running'[p] = {}
  BY DEF IInv, Types, TypeOK
<1>6. Mine(p)'
  BY <1>5 DEF IInv, Mine, Held, Clean, Accounted, Progress, Compiling, Building, Documenting
<1> QED
  BY <1>3, <1>4, <1>6, FrameKeeps

LEMMA WriteLateKeeps ==
  ASSUME IInv, NEW p \in Packagers, WriteLate(p)
  PROVE  IInv'
<1> USE DEF WriteLate, At, files, plan, tool, reply
<1>1. Types'
  BY DEF IInv, Types, TypeOK, Temporary, Answers, Failures, Edits, Targets, Sbom, Artifact
<1>2. Frame(p)
  BY DEF Frame, Local
<1>3. Mine(p)'
  BY DEF IInv, Mine, Held, Clean, OutlivesItsRequest, Accounted, Progress, HasExecutable
<1> QED
  BY <1>1, <1>2, <1>3, FrameKeeps

LEMMA FailsKeeps ==
  ASSUME IInv, NEW p \in Packagers, Fails(p)
  PROVE  IInv'
BY PlainFailureKeeps DEF Fails, Failures

LEMMA NextTargetKeeps ==
  ASSUME IInv, NEW p \in Packagers, NextTarget(p)
  PROVE  IInv'
<1> USE DEF NextTarget, At, Goto, files, work, tool, reply
<1>1. PICK t \in Targets :
        /\ First(t, todo[p])
        /\ target' = [target EXCEPT ![p] = t]
        /\ todo'   = [todo EXCEPT ![p] = @ \ {t}]
        /\ pc' = [pc EXCEPT ![p] = IF t = Host THEN "native" ELSE "toolchain"]
  OBVIOUS
<1>2. todo' \in [Packagers -> SUBSET Targets] /\ target' \in [Packagers -> Targets]
  BY <1>1 DEF IInv, Types, TypeOK
<1>3. Types'
  <2>1. (IF t = Host THEN "native" ELSE "toolchain") \in Labels
    BY DEF Labels
  <2> QED
    BY <1>1, <1>2, <2>1, StepTypes DEF IInv, Types, TypeOK, Temporary
<1>4. Frame(p)
  BY <1>1 DEF Frame, Local, IInv, Types, TypeOK
<1>5. /\ pc'[p] \in {"native", "toolchain"} /\ target'[p] = t /\ todo'[p] = todo[p] \ {t}
      /\ wanted'[p] = wanted[p] /\ artifacts'[p] = artifacts[p]
      /\ running'[p] = running[p] /\ warned'[p] = warned[p]
  BY <1>1 DEF IInv, Types, TypeOK
<1>6. Held(p)'
  BY <1>5 DEF Held, Clean
<1>7. Accounted(p)'
  BY <1>5 DEF IInv, Accounted
<1>8. Progress(p)'
  BY <1>5 DEF IInv, Progress, HasExecutable, Compiling, Building, Documenting
<1> QED
  BY <1>3, <1>4, <1>6, <1>7, <1>8, FrameKeeps DEF Mine

LEMMA NativeBuildKeeps ==
  ASSUME IInv, NEW p \in Packagers, NativeBuild(p)
  PROVE  IInv'
<1> USE DEF NativeBuild, At
<1>1. CASE PackageError(p, {"build"}) /\ UNCHANGED tool
  BY <1>1, PlainFailureKeeps DEF Failures
<1>2. CASE /\ Compiled(p) /\ Goto(p, "publish")
           /\ UNCHANGED <<unsupported, source, files, plan, scan, artifacts, tool, reply>>
  <2> USE <1>2 DEF Compiled, Goto, files, plan, tool, reply
  <2>1. "publish" \in Labels /\ source \in Edits
    BY DEF Labels, IInv, Types, TypeOK
  <2>2. Types'
    BY <2>1, StepTypes DEF IInv, Types, TypeOK, Temporary
  <2>3. Frame(p)
    BY DEF Frame, Local, IInv, Types, TypeOK
  <2>4. pc'[p] = "publish" /\ temp'[p] = source
    BY DEF IInv, Types, TypeOK
  <2>5. Mine(p)'
    BY <2>1, <2>4 DEF IInv, Mine, Held, Accounted, Progress, HasExecutable, Clean, Compiling, Building, Documenting
  <2> QED
    BY <2>2, <2>3, <2>5, FrameKeeps
<1> QED
  BY <1>1, <1>2

LEMMA NoToolchainKeeps ==
  ASSUME IInv, NEW p \in Packagers, NoToolchain(p)
  PROVE  IInv'
BY PlainFailureKeeps DEF NoToolchain, At, Failures

LEMMA NewRunnerKeeps ==
  ASSUME IInv, NEW p \in Packagers, NewRunner(p)
  PROVE  IInv'
<1> USE DEF NewRunner, At, Goto, files, plan, work, reply
<1>1. "init" \in Labels /\ temp = [q \in Packagers |-> temp[q]] /\ temp[p] \in Temporary
  BY DEF Labels, IInv, Types, TypeOK
<1>2. running' \in [Packagers -> SUBSET Targets]
  BY DEF IInv, Types, TypeOK
<1>3. Types'
  BY <1>1, <1>2, StepTypes DEF IInv, Types, TypeOK
<1>4. Frame(p)
  BY DEF Frame, Local, IInv, Types, TypeOK
<1>5. /\ pc'[p] = "init" /\ running'[p] = running[p] \cup {target[p]}
  BY DEF IInv, Types, TypeOK
<1>6. Mine(p)'
  BY <1>5 DEF IInv, Mine, Held, Accounted, Progress, HasExecutable, Clean, Compiling, Building, Documenting
<1> QED
  BY <1>3, <1>4, <1>6, FrameKeeps

LEMMA InitRunnerKeeps ==
  ASSUME IInv, NEW p \in Packagers, InitRunner(p)
  PROVE  IInv'
<1> USE DEF InitRunner, At, Goto, files, plan, work, tool
<1>1. PICK label \in {"run", "shutdown"} : pc' = [pc EXCEPT ![p] = label]
  OBVIOUS
<1>2. temp = [q \in Packagers |-> temp[q]] /\ temp[p] \in Temporary /\ label \in Labels
  BY DEF Labels, IInv, Types, TypeOK
<1>3. errors' \in [Packagers -> SUBSET {"build", "shutdown", "other"}]
  <2>1. errors \in [Packagers -> SUBSET {"build", "shutdown", "other"}]
    BY DEF IInv, Types, TypeOK
  <2>2. errors' = errors \/ errors' = [errors EXCEPT ![p] = {"other"}]
    OBVIOUS
  <2> QED
    BY <2>1, <2>2
<1>4. Types'
  BY <1>1, <1>2, <1>3, StepTypes DEF IInv, Types, TypeOK
<1>5. Frame(p)
  BY <1>1 DEF Frame, Local, IInv, Types, TypeOK
<1>6. /\ pc'[p] = label
      /\ label = "shutdown" => errors'[p] # {}
  <2>1. DOMAIN pc = Packagers /\ DOMAIN errors = Packagers
    BY DEF IInv, Types, TypeOK
  <2>2. label = "shutdown" => errors' = [errors EXCEPT ![p] = {"other"}]
    BY <1>1, <2>1
  <2> QED
    BY <1>1, <2>1, <2>2
<1>7. Mine(p)'
  BY <1>6 DEF IInv, Mine, Held, Accounted, Progress, HasExecutable, Clean, Compiling, Building, Documenting
<1> QED
  BY <1>4, <1>5, <1>7, FrameKeeps

LEMMA CrossBuildKeeps ==
  ASSUME IInv, NEW p \in Packagers, CrossBuild(p)
  PROVE  IInv'
<1> USE DEF CrossBuild, At, Goto, Compiled, files, plan, tool
<1>0. temp = [q \in Packagers |-> temp[q]] /\ temp[p] \in Temporary /\ source \in Edits
  BY DEF IInv, Types, TypeOK
<1>1. PICK held \in Temporary :
        /\ temp' = [temp EXCEPT ![p] = held]
        /\ errors'[p] = {} => held \in Edits
  <2>1. CASE temp' = [temp EXCEPT ![p] = source]
    BY <1>0, <2>1 DEF Temporary
  <2>2. CASE errors' = [errors EXCEPT ![p] = {"build"}] /\ UNCHANGED temp
    <3>1. errors'[p] # {} /\ temp' = [temp EXCEPT ![p] = temp[p]]
      BY <1>0, <2>2 DEF IInv, Types, TypeOK
    <3> QED
      BY <1>0, <3>1
  <2> QED
    BY <2>1, <2>2
<1>2. errors' \in [Packagers -> SUBSET {"build", "shutdown", "other"}] /\ "shutdown" \in Labels
  <2>1. errors \in [Packagers -> SUBSET {"build", "shutdown", "other"}]
    BY DEF IInv, Types, TypeOK
  <2>2. errors' = errors \/ errors' = [errors EXCEPT ![p] = {"build"}]
    OBVIOUS
  <2> QED
    BY <2>1, <2>2 DEF Labels
<1>3. Types'
  BY <1>1, <1>2, StepTypes DEF IInv, Types, TypeOK
<1>4. Frame(p)
  BY <1>1 DEF Frame, Local, IInv, Types, TypeOK
<1>5. pc'[p] = "shutdown" /\ temp'[p] = held
  BY <1>1 DEF IInv, Types, TypeOK
<1>6. Mine(p)'
  BY <1>1, <1>5 DEF IInv, Mine, Held, Accounted, Progress, HasExecutable, Clean, Compiling, Building, Documenting
<1> QED
  BY <1>3, <1>4, <1>6, FrameKeeps

\* The deferred function returns: to the rename, or with what failed.
LEMMA ShutdownKeeps ==
  ASSUME IInv, NEW p \in Packagers, At(p, "shutdown"), NEW failed \in SUBSET Failures, AfterShutdown(p, failed),
         failed = {} => errors[p] = {},
         RemoveContainer(p) \/ UNCHANGED running,
         warned' = warned \/ (failed = {} /\ warned' = [warned EXCEPT ![p] = @ \cup {target[p]}]),
         target[p] \in running'[p] => target[p] \in warned'[p] \/ "shutdown" \in failed
  PROVE  IInv'
<1> USE DEF At, AfterShutdown
<1>1. /\ running' \in [Packagers -> SUBSET Targets] /\ warned' \in [Packagers -> SUBSET Targets]
      /\ \A q \in Packagers \ {p} : running'[q] = running[q] /\ warned'[q] = warned[q]
      /\ running'[p] \subseteq running[p] /\ warned[p] \subseteq warned'[p]
  <2>1. /\ running \in [Packagers -> SUBSET Targets] /\ warned \in [Packagers -> SUBSET Targets]
        /\ target[p] \in Targets
    BY DEF IInv, Types, TypeOK
  <2>2. /\ running' \in [Packagers -> SUBSET Targets] /\ running'[p] \subseteq running[p]
        /\ \A q \in Packagers \ {p} : running'[q] = running[q]
    BY <2>1 DEF RemoveContainer
  <2>3. /\ warned' \in [Packagers -> SUBSET Targets] /\ warned[p] \subseteq warned'[p]
        /\ \A q \in Packagers \ {p} : warned'[q] = warned[q]
    BY <2>1
  <2> QED
    BY <2>2, <2>3
<1>2. \A t \in running'[p] : t \in warned'[p] \/ "shutdown" \in failed
  BY <1>1 DEF IInv, Accounted
<1>3. CASE failed # {}
  BY <1>1, <1>2, <1>3, FailureKeeps
<1>4. CASE failed = {}
  <2> USE DEF Goto, files, plan, work, reply
  <2>0. /\ temp = [q \in Packagers |-> temp[q]] /\ temp' = temp
        /\ pc' = [pc EXCEPT ![p] = "publish"] /\ temp[p] \in Edits
    BY <1>4 DEF IInv, Types, Held
  <2>1. /\ "publish" \in Labels /\ temp' = [temp EXCEPT ![p] = temp[p]]
        /\ pc' = [pc EXCEPT ![p] = "publish"] /\ temp[p] \in Edits
    BY <2>0 DEF Labels
  <2>2. UNCHANGED <<unsupported, source, executable, evidence, todo, target, wanted, sbom, scan, artifacts, errors, answer, asked>>
    BY <1>4
  <2>3. Types'
    BY <1>1, <2>1, <2>2, StepTypes DEF IInv, Types, TypeOK
  <2>4. Frame(p)
    BY <1>1, <2>1, <2>2 DEF Frame, Local, IInv, Types, TypeOK
  <2>5. pc'[p] = "publish" /\ temp'[p] \in Edits
    BY <2>1 DEF IInv, Types, TypeOK
  <2>6. Accounted(p)'
    BY <1>2, <1>4 DEF Accounted
  <2>7. Held(p)' /\ Progress(p)'
    BY <2>2, <2>5 DEF IInv, Held, Progress, HasExecutable, Clean, Compiling, Building, Documenting
  <2> QED
    BY <2>3, <2>4, <2>6, <2>7, FrameKeeps DEF Mine
<1> QED
  BY <1>3, <1>4

LEMMA ShutdownsKeep ==
  ASSUME IInv, NEW p \in Packagers, ShutdownOk(p) \/ ShutdownTimeout(p) \/ ShutdownFails(p)
  PROVE  IInv'
<1>1. /\ errors[p] \in SUBSET Failures /\ errors[p] \cup {"shutdown"} \in SUBSET Failures
      /\ running \in [Packagers -> SUBSET Targets] /\ warned \in [Packagers -> SUBSET Targets]
  BY DEF IInv, Types, TypeOK, Failures
<1>2. CASE ShutdownOk(p)
  <2>1. target[p] \notin running'[p]
    BY <1>1, <1>2 DEF ShutdownOk, RemoveContainer
  <2> QED
    BY <1>1, <1>2, <2>1, ShutdownKeeps DEF ShutdownOk
<1>3. CASE ShutdownTimeout(p)
  <2>1. CASE errors[p] = {}
    <3>1. target[p] \in warned'[p]
      BY <1>1, <1>3, <2>1 DEF ShutdownTimeout
    <3> QED
      BY <1>1, <1>3, <2>1, <3>1, ShutdownKeeps DEF ShutdownTimeout
  <2>2. CASE errors[p] # {}
    BY <1>1, <1>3, <2>2, ShutdownKeeps DEF ShutdownTimeout
  <2> QED
    BY <2>1, <2>2
<1>4. CASE ShutdownFails(p)
  BY <1>1, <1>4, ShutdownKeeps DEF ShutdownFails
<1> QED
  BY <1>2, <1>3, <1>4

LEMMA PublishKeeps ==
  ASSUME IInv, NEW p \in Packagers, Publish(p)
  PROVE  IInv'
<1> USE DEF Publish, At, Goto, Renamed, plan, tool, reply
<1>1. "digest" \in Labels /\ temp[p] \in Edits /\ target[p] \in Targets
  BY DEF Labels, IInv, Types, TypeOK, Held
<1>2. executable' \in [Targets -> Edits \cup {NoFile, Partial}] /\ executable'[target[p]] = temp[p]
  BY <1>1 DEF IInv, Types, TypeOK
<1>3. Types'
  BY <1>1, <1>2, StepTypes DEF IInv, Types, TypeOK, Temporary
<1>4. Frame(p)
  BY <1>1 DEF Frame, Local, IInv, Types, TypeOK
<1>5. pc'[p] = "digest" /\ temp'[p] = NoFile
  BY DEF IInv, Types, TypeOK
<1>6. Mine(p)'
  BY <1>1, <1>2, <1>5 DEF IInv, Mine, Held, Accounted, Progress, HasExecutable, Clean, Compiling, Building, Documenting
<1> QED
  BY <1>3, <1>4, <1>6, FrameKeeps

LEMMA DigestKeeps ==
  ASSUME IInv, NEW p \in Packagers, Digest(p)
  PROVE  IInv'
<1> USE DEF Digest, At, Goto, files, plan, tool, reply
<1> DEFINE new == Executable(target[p])
<1>1. /\ "target" \in Labels /\ temp[p] = NoFile /\ target[p] \in Targets
      /\ executable[target[p]] \in Edits /\ temp' = [temp EXCEPT ![p] = NoFile]
  BY DEF Labels, IInv, Types, TypeOK, Held, Clean
<1>2. new \in Artifact /\ new.kind = "executable" /\ new.target = target[p]
  BY <1>1 DEF Executable, Artifact
<1>3. artifacts' = [artifacts EXCEPT ![p] = @ \cup {new}] /\ artifacts \in [Packagers -> SUBSET Artifact]
  BY DEF Produced, IInv, Types, TypeOK
<1> HIDE DEF new
<1>4. artifacts' \in [Packagers -> SUBSET Artifact] /\ artifacts'[p] = artifacts[p] \cup {new}
  BY <1>2, <1>3
<1>5. Types'
  BY <1>1, <1>4, StepTypes DEF IInv, Types, TypeOK, Temporary
<1>6. Frame(p)
  BY <1>3 DEF Frame, Local, IInv, Types, TypeOK
<1>7. pc'[p] = "target" /\ temp'[p] = NoFile
  BY <1>1 DEF IInv, Types, TypeOK
<1>8. Progress(p)'
  BY <1>2, <1>4, <1>7 DEF IInv, Progress, HasExecutable, Compiling, Building, Documenting
<1>9. Held(p)' /\ Accounted(p)'
  BY <1>7 DEF IInv, Held, Accounted
<1> QED
  BY <1>5, <1>6, <1>8, <1>9, FrameKeeps DEF Mine

LEMMA AllBuiltKeeps ==
  ASSUME IInv, NEW p \in Packagers, AllBuilt(p)
  PROVE  IInv'
<1> USE DEF AllBuilt, At
<1>1. CASE ~sbom[p]
  BY <1>1, FinishKeeps
<1>2. CASE sbom[p]
  <2> USE <1>2 DEF Goto, files, plan, work, tool, reply
  <2>0. temp[p] = NoFile /\ temp = [q \in Packagers |-> temp[q]] /\ temp' = temp
    BY DEF IInv, Types, Held, Clean
  <2>1. "scan" \in Labels /\ temp[p] = NoFile /\ temp' = [temp EXCEPT ![p] = NoFile]
    BY <2>0 DEF Labels
  <2>a. /\ pc' = [pc EXCEPT ![p] = "scan"]
        /\ UNCHANGED <<unsupported, source, executable, evidence, todo, target, wanted, sbom, scan, artifacts,
                       running, warned, errors, answer, asked>>
    OBVIOUS
  <2>b. /\ executable' \in [Targets -> Edits \cup {NoFile, Partial}]
        /\ evidence' \in [Targets -> {NoFile} \cup Sbom]
        /\ todo' \in [Packagers -> SUBSET Targets] /\ target' \in [Packagers -> Targets]
        /\ scan' \in [Packagers -> Edits] /\ artifacts' \in [Packagers -> SUBSET Artifact]
        /\ running' \in [Packagers -> SUBSET Targets] /\ warned' \in [Packagers -> SUBSET Targets]
        /\ errors' \in [Packagers -> SUBSET {"build", "shutdown", "other"}]
    BY <2>a DEF IInv, Types, TypeOK
  <2>c. NoFile \in IF "scan" = "evidence" THEN Sbom ELSE Temporary
    BY DEF Temporary
  <2>2. Types'
    BY <2>1, <2>a, <2>b, <2>c, StepTypes
  <2>3. Frame(p)
    BY DEF Frame, Local, IInv, Types, TypeOK
  <2>4. pc'[p] = "scan" /\ temp'[p] = NoFile
    BY <2>1 DEF IInv, Types, TypeOK
  <2>5. Mine(p)'
    BY <2>4 DEF IInv, Mine, Held, Accounted, Progress, HasExecutable, Clean, Compiling, Building, Documenting
  <2> QED
    BY <2>2, <2>3, <2>5, FrameKeeps
<1> QED
  BY <1>1, <1>2

LEMMA ScanKeeps ==
  ASSUME IInv, NEW p \in Packagers, Scan(p)
  PROVE  IInv'
<1> USE DEF Scan, At, Goto, files, tool, reply
<1>1. temp[p] = NoFile /\ temp = [q \in Packagers |-> temp[q]] /\ temp' = temp
  BY DEF IInv, Types, Held, Clean
<1>2. "attach" \in Labels /\ temp' = [temp EXCEPT ![p] = NoFile]
  BY <1>1 DEF Labels
<1>3. scan' \in [Packagers -> Edits] /\ todo' \in [Packagers -> SUBSET Targets] /\ todo'[p] = wanted[p]
  BY DEF IInv, Types, TypeOK
<1>4. Types'
  BY <1>2, <1>3, StepTypes DEF IInv, Types, TypeOK, Temporary
<1>5. Frame(p)
  BY <1>1 DEF Frame, Local, IInv, Types, TypeOK
<1>6. pc'[p] = "attach" /\ temp'[p] = NoFile
  BY <1>1 DEF IInv, Types, TypeOK
<1>7. Mine(p)'
  BY <1>3, <1>6 DEF IInv, Mine, Held, Accounted, Progress, HasExecutable, Clean, Compiling, Building, Documenting
<1> QED
  BY <1>4, <1>5, <1>7, FrameKeeps

\* The digest a document names is that of an executable this request produced.
LEMMA ReportedIsEdit ==
  ASSUME IInv, NEW p \in Packagers, NEW t \in Targets, HasExecutable(p, t)
  PROVE  Reported(p, t) \in Edits
<1>1. PICK a \in artifacts[p] : a.kind = "executable" /\ a.target = t
  BY DEF HasExecutable
<1> DEFINE b == CHOOSE x \in artifacts[p] : x.kind = "executable" /\ x.target = t
<1>2. b \in artifacts[p] /\ b.kind = "executable"
  BY <1>1
<1>3. b \in Artifact
  BY <1>2 DEF IInv, Types, TypeOK
<1>4. b.sha \in Edits
  BY <1>2, <1>3 DEF Artifact
<1> QED
  BY <1>4 DEF Reported

LEMMA AttachKeeps ==
  ASSUME IInv, NEW p \in Packagers, AttachArtifact(p)
  PROVE  IInv'
<1> USE DEF AttachArtifact, At, Goto, files, tool, reply
<1>1. PICK t \in Targets :
        /\ First(t, todo[p])
        /\ target' = [target EXCEPT ![p] = t]
        /\ todo'   = [todo EXCEPT ![p] = @ \ {t}]
        /\ temp'   = [temp EXCEPT ![p] = [sha |-> Reported(p, t), scan |-> scan[p]]]
  OBVIOUS
<1>2. HasExecutable(p, t)
  BY <1>1 DEF First, IInv, Progress, Documenting
<1>3. scan[p] \in Edits /\ "evidence" \in Labels
  BY DEF IInv, Types, TypeOK, Labels
<1>4. [sha |-> Reported(p, t), scan |-> scan[p]] \in Sbom
  BY <1>2, <1>3, ReportedIsEdit DEF Sbom
<1>5. todo' \in [Packagers -> SUBSET Targets] /\ target' \in [Packagers -> Targets]
  BY <1>1 DEF IInv, Types, TypeOK
<1>6. Types'
  BY <1>1, <1>3, <1>4, <1>5, StepTypes DEF IInv, Types, TypeOK
<1>7. Frame(p)
  BY <1>1 DEF Frame, Local, IInv, Types, TypeOK
<1>8. pc'[p] = "evidence" /\ todo'[p] \subseteq todo[p] /\ target'[p] \notin todo'[p]
  BY <1>1 DEF IInv, Types, TypeOK
<1>9. Mine(p)'
  BY <1>8 DEF IInv, Mine, Held, Accounted, Progress, HasExecutable, Clean, Compiling, Building, Documenting
<1> QED
  BY <1>6, <1>7, <1>9, FrameKeeps

LEMMA WriteKeeps ==
  ASSUME IInv, NEW p \in Packagers, WritePackageFile(p)
  PROVE  IInv'
<1> USE DEF WritePackageFile, At, Goto, Renamed, plan, tool, reply
<1>1. "evidenceDigest" \in Labels /\ temp[p] \in Sbom /\ target[p] \in Targets
  BY DEF Labels, IInv, Types, TypeOK
<1>2. evidence' \in [Targets -> {NoFile} \cup Sbom] /\ evidence'[target[p]] = temp[p]
  BY <1>1 DEF IInv, Types, TypeOK
<1>3. Types'
  BY <1>1, <1>2, StepTypes DEF IInv, Types, TypeOK, Temporary
<1>4. Frame(p)
  BY <1>1 DEF Frame, Local, IInv, Types, TypeOK
<1>5. pc'[p] = "evidenceDigest" /\ temp'[p] = NoFile
  BY DEF IInv, Types, TypeOK
<1>6. Mine(p)'
  BY <1>1, <1>2, <1>5 DEF IInv, Mine, Held, Accounted, Progress, HasExecutable, Clean, Compiling, Building, Documenting
<1> QED
  BY <1>3, <1>4, <1>6, FrameKeeps

LEMMA EvidenceDigestKeeps ==
  ASSUME IInv, NEW p \in Packagers, EvidenceDigest(p)
  PROVE  IInv'
<1> USE DEF EvidenceDigest, At, Goto, files, plan, tool, reply
<1> DEFINE new == Document(target[p])
<1>1. /\ temp[p] = NoFile /\ temp = [q \in Packagers |-> temp[q]] /\ temp' = temp
      /\ target[p] \in Targets /\ evidence[target[p]] \in Sbom
  BY DEF IInv, Types, TypeOK, Held, Clean
<1>2. "attach" \in Labels /\ temp' = [temp EXCEPT ![p] = NoFile]
  BY <1>1 DEF Labels
<1>3. new \in Artifact
  BY <1>1 DEF Document, Artifact
<1>4. artifacts' = [artifacts EXCEPT ![p] = @ \cup {new}] /\ artifacts \in [Packagers -> SUBSET Artifact]
  BY DEF Produced, IInv, Types, TypeOK
<1> HIDE DEF new
<1>5. artifacts' \in [Packagers -> SUBSET Artifact] /\ artifacts'[p] = artifacts[p] \cup {new}
  BY <1>3, <1>4
<1>6. Types'
  BY <1>2, <1>5, StepTypes DEF IInv, Types, TypeOK, Temporary
<1>7. Frame(p)
  BY <1>4 DEF Frame, Local, IInv, Types, TypeOK
<1>8. pc'[p] = "attach" /\ temp'[p] = NoFile
  BY <1>1 DEF IInv, Types, TypeOK
<1>9. Mine(p)'
  BY <1>5, <1>8 DEF IInv, Mine, Held, Accounted, Progress, HasExecutable, Compiling, Building, Documenting
<1> QED
  BY <1>6, <1>7, <1>9, FrameKeeps

LEMMA AllAttachedKeeps ==
  ASSUME IInv, NEW p \in Packagers, AllAttached(p)
  PROVE  IInv'
BY FinishKeeps DEF AllAttached, At

LEMMA IInvStep == IInv /\ [Next]_vars => IInv'
<1> SUFFICES ASSUME IInv, [Next]_vars PROVE IInv'
  OBVIOUS
<1>1. CASE Edit
  BY <1>1, EditKeeps
<1>2. ASSUME NEW p \in Packagers,
             \/ Package(p) \/ Reject(p) \/ WriteLate(p) \/ Fails(p)
             \/ NextTarget(p) \/ NativeBuild(p)
             \/ NoToolchain(p) \/ NewRunner(p) \/ InitRunner(p) \/ CrossBuild(p)
             \/ ShutdownOk(p) \/ ShutdownTimeout(p) \/ ShutdownFails(p)
             \/ Publish(p) \/ Digest(p) \/ AllBuilt(p)
             \/ Scan(p) \/ AttachArtifact(p) \/ WritePackageFile(p)
             \/ EvidenceDigest(p) \/ AllAttached(p)
      PROVE  IInv'
  BY <1>2, BeginsKeeps, RejectKeeps, WriteLateKeeps, FailsKeeps, NextTargetKeeps, NativeBuildKeeps, NoToolchainKeeps,
     NewRunnerKeeps, InitRunnerKeeps, CrossBuildKeeps, ShutdownsKeep, PublishKeeps, DigestKeeps,
     AllBuiltKeeps, ScanKeeps, AttachKeeps, WriteKeeps, EvidenceDigestKeeps, AllAttachedKeeps
<1>3. CASE UNCHANGED vars
  <2>1. UNCHANGED <<unsupported, source, executable, evidence, pc, todo, target, wanted, sbom, temp, scan,
                    artifacts, running, warned, errors, answer, asked>>
    BY <1>3 DEF vars, files, plan, work, tool, reply
  <2> QED
    BY <2>1 DEF IInv, Types, TypeOK, Answers, Failures, Held, OutlivesItsRequest,
       Accounted, Progress, HasExecutable
<1> QED
  BY <1>1, <1>2, <1>3 DEF Next

LEMMA IInvAlways == Spec => []IInv
BY IInvInit, IInvStep, PTL DEF Spec

-----------------------------------------------------------------------------
\* Whatever fails and however many requests share the directory, a destination
\* never holds a part of a build (packageGoBinary).
THEOREM PublicationIsAtomic == Spec => []PublishedComplete
<1>1. IInv => PublishedComplete
  BY DEF IInv, Types, PublishedComplete
<1> QED
  BY <1>1, IInvAlways, PTL

\* On every path out of Package the temporary file is gone, renamed or removed by
\* the deferred os.Remove, unless that failed, or a container that outlives the
\* request writes it again; the answer names both failures then.
THEOREM TidiesUp == Spec => []NothingLeftBehind
<1>1. IInv => NothingLeftBehind
  BY DEF IInv, Held, NothingLeftBehind, At
<1> QED
  BY <1>1, IInvAlways, PTL

\* A container left behind was logged, or is an error of the answer.
THEOREM NoSilentLeak == Spec => []LeaksAreReported
<1>1. IInv => LeaksAreReported
  BY DEF IInv, Accounted, LeaksAreReported, At
<1> QED
  BY <1>1, IInvAlways, PTL

-----------------------------------------------------------------------------
(* Package keeps the promise of Publication. *)

Owed == [p \in Packagers |-> Unbuilt(p)]
OwedDocuments == [p \in Packagers |-> Undocumented(p)]

\* A step of p leaves the others at their work.
Apart(p) ==
  \A q \in Packagers \ {p} :
    /\ pc'[q] = pc[q]
    /\ pc[q] = "idle" \/ UNCHANGED <<todo[q], target[q], wanted[q], sbom[q]>>

LEMMA IdleOwesNothing ==
  ASSUME NEW p, pc[p] = "idle"
  PROVE  Unbuilt(p) = {} /\ Undocumented(p) = {}
BY DEF Unbuilt, Undocumented, When, Building, Compiling, Documenting

LEMMA OthersOwe ==
  ASSUME NEW p \in Packagers, Apart(p)
  PROVE  /\ Owed' = [Owed EXCEPT ![p] = Unbuilt(p)']
         /\ OwedDocuments' = [OwedDocuments EXCEPT ![p] = Undocumented(p)']
<1>1. ASSUME NEW q \in Packagers \ {p}
      PROVE  Unbuilt(q)' = Unbuilt(q) /\ Undocumented(q)' = Undocumented(q)
  <2>1. CASE pc[q] = "idle"
    <3>1. pc'[q] = "idle"
      BY <2>1 DEF Apart
    <3>2. Unbuilt(q)' = {} /\ Undocumented(q)' = {}
      BY <3>1 DEF Unbuilt, Undocumented, When, Building, Compiling, Documenting
    <3> QED
      BY <2>1, <3>2, IdleOwesNothing
  <2>2. CASE pc[q] # "idle"
    BY <2>2 DEF Apart, Unbuilt, Undocumented, When
  <2> QED
    BY <2>1, <2>2
<1> QED
  BY <1>1 DEF Owed, OwedDocuments

Answered(p) == \A q \in Packagers \ {p} : answer'[q] = answer[q]

\* A step inside a request that publishes nothing.
LEMMA InsideMaps ==
  ASSUME NEW p \in Packagers, Apart(p), UNCHANGED <<executable, evidence, answer>>,
         pc[p] # "idle", pc'[p] # "idle",
         Unbuilt(p)' = Unbuilt(p), Undocumented(p)' = Undocumented(p)
  PROVE  UNCHANGED Promised!vars
<1>1. Owed' = Owed /\ OwedDocuments' = OwedDocuments
  BY OthersOwe DEF Owed, OwedDocuments
<1>2. Open' = Open
  BY DEF Apart, Open
<1>3. Succeeded' = Succeeded
  BY DEF Apart, Succeeded
<1> QED
  BY <1>1, <1>2, <1>3 DEF Promised!vars, Owed, OwedDocuments

LEMMA ReturnApart ==
  ASSUME IInv, NEW p \in Packagers, NEW a, Return(p, a)
  PROVE  /\ Apart(p) /\ Answered(p) /\ pc'[p] = "idle" /\ answer'[p].ok = a.ok
         /\ UNCHANGED <<executable, evidence>>
         /\ Unbuilt(p)' = {} /\ Undocumented(p)' = {}
<1>1. pc'[p] = "idle" /\ Apart(p) /\ UNCHANGED <<executable, evidence>>
  BY DEF Return, Goto, Apart, files, IInv, Types, TypeOK
<1>2. Unbuilt(p)' = {} /\ Undocumented(p)' = {}
  BY <1>1 DEF Unbuilt, Undocumented, When, Building, Compiling, Documenting
<1>3. Answered(p) /\ answer'[p].ok = a.ok
  <2> DEFINE told == [a EXCEPT !.artifacts = IF asked[p] # Overlapped THEN @ ELSE {}]
  <2>1. answer' = [answer EXCEPT ![p] = told]
    BY DEF Return
  <2>2. told.ok = a.ok
    OBVIOUS
  <2> HIDE DEF told
  <2> QED
    BY <2>1, <2>2 DEF Answered, IInv, Types
<1> QED
  BY <1>1, <1>2, <1>3

LEMMA ErrorMaps ==
  ASSUME IInv, NEW p \in Packagers, NEW failed, PackageError(p, failed), pc[p] # "idle"
  PROVE  Promised!Fail(p)
<1>1. /\ Apart(p) /\ Answered(p) /\ pc'[p] = "idle" /\ ~answer'[p].ok
      /\ UNCHANGED <<executable, evidence>>
      /\ Unbuilt(p)' = {} /\ Undocumented(p)' = {}
  <2>1. Return(p, Failed(failed)) /\ Failed(failed).ok = FALSE
    BY DEF PackageError, Failed
  <2> QED
    BY <2>1, ReturnApart
<1>2. Owed' = [Owed EXCEPT ![p] = {}] /\ OwedDocuments' = [OwedDocuments EXCEPT ![p] = {}]
  BY <1>1, OthersOwe
<1>3. Open' = Open \ {p} /\ p \in Open
  BY <1>1 DEF Apart, Open
<1>4. Succeeded' = Succeeded
  BY <1>1 DEF Apart, Answered, Succeeded
<1> QED
  BY <1>1, <1>2, <1>3, <1>4 DEF Promised!Fail, Owed, OwedDocuments

LEMMA FinishMaps ==
  ASSUME IInv, NEW p \in Packagers, Finish(p), pc[p] # "idle", Unbuilt(p) = {}, Undocumented(p) = {}
  PROVE  Promised!Succeed(p)
<1> DEFINE a == [ok |-> TRUE, artifacts |-> artifacts[p], errors |-> {}]
<1>1. /\ Apart(p) /\ Answered(p) /\ pc'[p] = "idle" /\ answer'[p].ok
      /\ UNCHANGED <<executable, evidence>>
      /\ Unbuilt(p)' = {} /\ Undocumented(p)' = {}
  <2>1. Return(p, a) /\ a.ok = TRUE
    BY DEF Finish
  <2> QED
    BY <2>1, ReturnApart
<1>2. Owed' = Owed /\ OwedDocuments' = OwedDocuments /\ Owed[p] = {} /\ OwedDocuments[p] = {}
  BY <1>1, OthersOwe DEF Owed, OwedDocuments
<1>3. Open' = Open \ {p} /\ p \in Open
  BY <1>1 DEF Apart, Open
<1>4. Succeeded' = Succeeded \cup {p}
  BY <1>1 DEF Apart, Answered, Succeeded
<1> QED
  BY <1>1, <1>2, <1>3, <1>4 DEF Promised!Succeed, Owed, OwedDocuments

LEMMA CallMaps == ASSUME IInv, NEW p \in Packagers, Package(p) PROVE Promised!Call(p)
<1>1. PICK requested \in SUBSET Targets, include \in BOOLEAN :
        /\ wanted' = Begins(p, wanted, Normalized(requested), {})
        /\ todo'   = [todo EXCEPT ![p] = Normalized(requested)]
        /\ sbom'   = Begins(p, sbom, include, FALSE)
  BY DEF Package
<1> DEFINE S == Normalized(requested)
<1>2. S \in (SUBSET Targets) \ {{}}
  BY PlatformsAssumption DEF Normalized
<1>3. /\ pc[p] = "idle" /\ pc' = [pc EXCEPT ![p] = "target"]
      /\ answer' = Begins(p, answer, NoAnswer, NoAnswer) /\ UNCHANGED <<executable, evidence, target>>
  BY DEF Package, At, Goto, files
<1>4. /\ pc'[p] = "target" /\ todo'[p] = S /\ wanted'[p] = S /\ (sbom'[p] <=> include)
      /\ Apart(p)
  BY <1>1, <1>3 DEF Apart, Begins, At, IInv, Types, TypeOK
<1>5. Unbuilt(p)' = S /\ Undocumented(p)' = IF include THEN S ELSE {}
  BY <1>4 DEF Unbuilt, Undocumented, When, Building, Compiling, Documenting
<1>6. Owed' = [Owed EXCEPT ![p] = S]
  BY <1>4, <1>5, OthersOwe
<1>7. OwedDocuments' \in {OwedDocuments, [OwedDocuments EXCEPT ![p] = S]}
  <2>1. CASE include
    BY <1>4, <1>5, <2>1, OthersOwe
  <2>2. CASE ~include
    <3>1. OwedDocuments[p] = {}
      BY <1>3, IdleOwesNothing DEF OwedDocuments
    <3>2. OwedDocuments' = [OwedDocuments EXCEPT ![p] = {}]
      BY <1>4, <1>5, <2>2, OthersOwe
    <3> QED
      BY <3>1, <3>2 DEF OwedDocuments
  <2> QED
    BY <2>1, <2>2
<1>8. Open' = Open \cup {p} /\ p \notin Open
  BY <1>3, <1>4 DEF Apart, Open
<1>9. Succeeded' = {}
  <2> SUFFICES ASSUME NEW q \in Packagers, pc'[q] = "idle" PROVE ~answer'[q].ok
    BY DEF Succeeded
  <2>1. q # p /\ pc[q] = "idle"
    BY <1>4 DEF Apart
  <2>2. answer'[q] = NoAnswer
    BY <1>3, <2>1 DEF Begins, At
  <2> QED
    BY <2>2 DEF NoAnswer
<1> QED
  BY <1>2, <1>3, <1>6, <1>7, <1>8, <1>9 DEF Promised!Call, Owed, OwedDocuments

LEMMA RefuseMaps == ASSUME IInv, NEW p \in Packagers, Reject(p) PROVE Promised!Refuse(p)
<1>1. /\ pc[p] = "idle" /\ answer' = [answer EXCEPT ![p] = Failed({"other"})]
      /\ UNCHANGED <<executable, evidence, pc, todo, target, wanted, sbom>>
  BY DEF Reject, At, files, plan
<1>2. Owed' = Owed /\ OwedDocuments' = OwedDocuments /\ Open' = Open /\ p \notin Open
  BY <1>1 DEF Owed, OwedDocuments, Open, Unbuilt, Undocumented, When
<1>3. Succeeded' = Succeeded \ {p}
  BY <1>1 DEF Succeeded, Failed, IInv, Types
<1> QED
  BY <1>1, <1>2, <1>3 DEF Promised!Refuse, Owed, OwedDocuments

LEMMA PublishMaps ==
  ASSUME IInv, NEW p \in Packagers, Publish(p)
  PROVE  target[p] \in Targets /\ Promised!Publish(p, target[p])
<1>1. /\ pc[p] = "publish" /\ pc'[p] = "digest"
      /\ executable' = [executable EXCEPT ![target[p]] = temp[p]]
      /\ UNCHANGED <<source, evidence, todo, target, wanted, sbom, answer>>
      /\ Apart(p)
  BY DEF Publish, At, Goto, plan, reply, Apart, IInv, Types, TypeOK
<1>2. temp[p] \in Edits /\ target[p] \in Targets /\ target[p] \notin todo[p]
  BY <1>1 DEF IInv, Types, TypeOK, Held, Progress, Compiling
<1>3. /\ Unbuilt(p) = todo[p] \cup {target[p]} /\ Unbuilt(p)' = todo[p]
      /\ Undocumented(p)' = Undocumented(p)
  BY <1>1 DEF Unbuilt, Undocumented, When, Building, Compiling, Documenting
<1>4. /\ Owed' = [Owed EXCEPT ![p] = @ \ {target[p]}] /\ target[p] \in Owed[p]
      /\ OwedDocuments' = OwedDocuments
  <2>1. Owed' = [Owed EXCEPT ![p] = todo[p]] /\ Owed[p] = todo[p] \cup {target[p]}
    BY <1>1, <1>3, OthersOwe DEF Owed
  <2>2. OwedDocuments' = OwedDocuments
    BY <1>1, <1>3, OthersOwe DEF OwedDocuments
  <2>3. todo[p] = (todo[p] \cup {target[p]}) \ {target[p]}
    BY <1>2
  <2> QED
    BY <2>1, <2>2, <2>3
<1>5. Open' = Open /\ p \in Open /\ Succeeded' = Succeeded
  BY <1>1 DEF Apart, Open, Succeeded
<1> QED
  BY <1>1, <1>2, <1>4, <1>5 DEF Promised!Publish, Owed, OwedDocuments

LEMMA WriteMaps ==
  ASSUME IInv, NEW p \in Packagers, WritePackageFile(p)
  PROVE  target[p] \in Targets /\ Promised!Document(p, target[p])
<1>1. /\ pc[p] = "evidence" /\ pc'[p] = "evidenceDigest"
      /\ evidence' = [evidence EXCEPT ![target[p]] = temp[p]]
      /\ UNCHANGED <<source, executable, todo, target, wanted, sbom, answer>>
      /\ Apart(p)
  BY DEF WritePackageFile, At, Goto, plan, reply, Apart, IInv, Types, TypeOK
<1>2. temp[p] \in Sbom /\ target[p] \in Targets /\ target[p] \notin todo[p] /\ sbom[p]
  BY <1>1 DEF IInv, Types, TypeOK, Progress, Documenting
<1>3. /\ Unbuilt(p) = {} /\ Unbuilt(p)' = {}
      /\ Undocumented(p) = todo[p] \cup {target[p]} /\ Undocumented(p)' = todo[p]
  BY <1>1, <1>2 DEF Unbuilt, Undocumented, When, Building, Compiling, Documenting
<1>4. /\ OwedDocuments' = [OwedDocuments EXCEPT ![p] = @ \ {target[p]}]
      /\ target[p] \in OwedDocuments[p] /\ Owed[p] = {} /\ Owed' = Owed
  <2>1. OwedDocuments' = [OwedDocuments EXCEPT ![p] = todo[p]] /\ OwedDocuments[p] = todo[p] \cup {target[p]}
    BY <1>1, <1>3, OthersOwe DEF OwedDocuments
  <2>2. Owed' = Owed /\ Owed[p] = {}
    BY <1>1, <1>3, OthersOwe DEF Owed
  <2>3. todo[p] = (todo[p] \cup {target[p]}) \ {target[p]}
    BY <1>2
  <2> QED
    BY <2>1, <2>2, <2>3
<1>5. Open' = Open /\ p \in Open /\ Succeeded' = Succeeded
  BY <1>1 DEF Apart, Open, Succeeded
<1> QED
  BY <1>1, <1>2, <1>4, <1>5 DEF Promised!Document, Owed, OwedDocuments

\* The step to the next target or document moves it from todo to target.
LEMMA MovingOwesTheSame ==
  ASSUME NEW S, NEW t \in S
  PROVE  S = (S \ {t}) \cup {t}
OBVIOUS

LEMMA NextTargetMaps ==
  ASSUME IInv, NEW p \in Packagers, NextTarget(p)
  PROVE  UNCHANGED Promised!vars
<1>1. PICK t \in Targets :
        /\ First(t, todo[p])
        /\ target' = [target EXCEPT ![p] = t]
        /\ todo'   = [todo EXCEPT ![p] = @ \ {t}]
        /\ pc' = [pc EXCEPT ![p] = IF t = Host THEN "native" ELSE "toolchain"]
  BY DEF NextTarget, Goto
<1>2. pc[p] = "target" /\ UNCHANGED <<executable, evidence, wanted, sbom, answer>>
  BY DEF NextTarget, At, files, reply
<1>3. /\ t \in todo[p] /\ target'[p] = t /\ todo'[p] = todo[p] \ {t}
      /\ pc'[p] \in {"native", "toolchain"} /\ Apart(p)
  BY <1>1, <1>2 DEF First, Apart, IInv, Types, TypeOK
<1>4. Unbuilt(p) = todo[p] /\ Unbuilt(p)' = (todo[p] \ {t}) \cup {t}
  BY <1>2, <1>3 DEF Unbuilt, When, Building, Compiling
<1>5. Undocumented(p)' = Undocumented(p)
  BY <1>2, <1>3 DEF Undocumented, When, Building, Documenting
<1> QED
  BY <1>2, <1>3, <1>4, <1>5, MovingOwesTheSame, InsideMaps

LEMMA AttachMaps ==
  ASSUME IInv, NEW p \in Packagers, AttachArtifact(p)
  PROVE  UNCHANGED Promised!vars
<1>1. PICK t \in Targets :
        /\ First(t, todo[p])
        /\ target' = [target EXCEPT ![p] = t]
        /\ todo'   = [todo EXCEPT ![p] = @ \ {t}]
  BY DEF AttachArtifact
<1>2. /\ pc[p] = "attach" /\ pc' = [pc EXCEPT ![p] = "evidence"]
      /\ UNCHANGED <<executable, evidence, wanted, sbom, answer>>
  BY DEF AttachArtifact, At, Goto, files, reply
<1>3. /\ t \in todo[p] /\ target'[p] = t /\ todo'[p] = todo[p] \ {t}
      /\ pc'[p] = "evidence" /\ Apart(p) /\ sbom[p]
  BY <1>1, <1>2 DEF First, Apart, IInv, Types, TypeOK, Progress, Documenting
<1>4. Unbuilt(p) = {} /\ Unbuilt(p)' = {}
  BY <1>2, <1>3 DEF Unbuilt, When, Building, Compiling
<1>5. Undocumented(p) = todo[p] /\ Undocumented(p)' = (todo[p] \ {t}) \cup {t}
  BY <1>2, <1>3 DEF Undocumented, When, Building, Documenting
<1> QED
  BY <1>2, <1>3, <1>4, <1>5, MovingOwesTheSame, InsideMaps

LEMMA ScanMaps ==
  ASSUME IInv, NEW p \in Packagers, Scan(p)
  PROVE  UNCHANGED Promised!vars
<1>1. /\ pc[p] = "scan" /\ pc' = [pc EXCEPT ![p] = "attach"]
      /\ todo' = [todo EXCEPT ![p] = wanted[p]]
      /\ UNCHANGED <<executable, evidence, target, wanted, sbom, answer>>
  BY DEF Scan, At, Goto, files, reply
<1>2. pc'[p] = "attach" /\ todo'[p] = wanted[p] /\ Apart(p)
  BY <1>1 DEF Apart, IInv, Types, TypeOK
<1>3. Unbuilt(p)' = Unbuilt(p) /\ Undocumented(p)' = Undocumented(p)
  BY <1>1, <1>2 DEF Unbuilt, Undocumented, When, Building, Compiling, Documenting
<1> QED
  BY <1>1, <1>2, <1>3, InsideMaps

\* A step that only moves p from one label to another, where it owes the same.
LEMMA MoveMaps ==
  ASSUME IInv, NEW p \in Packagers, NEW label, pc' = [pc EXCEPT ![p] = label],
         UNCHANGED <<executable, evidence, todo, target, wanted, sbom, answer>>,
         \/ pc[p] \in Compiling /\ label \in Compiling
         \/ pc[p] = "digest" /\ label = "target"
         \/ pc[p] = "target" /\ label = "scan" /\ todo[p] = {}
         \/ pc[p] = "evidenceDigest" /\ label = "attach"
  PROVE  UNCHANGED Promised!vars
<1>1. pc'[p] = label /\ Apart(p)
  BY DEF Apart, IInv, Types, TypeOK
<1>2. pc[p] # "idle" /\ pc'[p] # "idle"
  BY <1>1 DEF Compiling
<1>3. Unbuilt(p)' = Unbuilt(p)
  BY <1>1 DEF Unbuilt, When, Building, Compiling
<1>4. Undocumented(p)' = Undocumented(p)
  BY <1>1 DEF Undocumented, When, Building, Compiling, Documenting
<1> QED
  BY <1>1, <1>2, <1>3, <1>4, InsideMaps

\* The compilation of one target, until its executable is about to be renamed.
LEMMA CompilingMaps ==
  ASSUME IInv, NEW p \in Packagers,
         NativeBuild(p) \/ NoToolchain(p) \/ NewRunner(p) \/ InitRunner(p) \/ CrossBuild(p)
  PROVE  Promised!Fail(p) \/ UNCHANGED Promised!vars
<1> USE DEF At, Goto, files, plan, reply
<1>1. CASE NativeBuild(p)
  <2>1. CASE PackageError(p, {"build"})
    BY <1>1, <2>1, ErrorMaps DEF NativeBuild
  <2>2. CASE pc' = [pc EXCEPT ![p] = "publish"] /\ UNCHANGED <<files, plan, reply>>
    BY <1>1, <2>2, MoveMaps DEF NativeBuild, Compiling
  <2> QED
    BY <1>1, <2>1, <2>2 DEF NativeBuild
<1>2. CASE NoToolchain(p)
  BY <1>2, ErrorMaps DEF NoToolchain
<1>3. CASE NewRunner(p)
  BY <1>3, MoveMaps DEF NewRunner, Compiling
<1>4. CASE InitRunner(p)
  BY <1>4, MoveMaps DEF InitRunner, Compiling
<1>5. CASE CrossBuild(p)
  BY <1>5, MoveMaps DEF CrossBuild, Compiling
<1> QED
  BY <1>1, <1>2, <1>3, <1>4, <1>5

LEMMA ShutdownMaps ==
  ASSUME IInv, NEW p \in Packagers, ShutdownOk(p) \/ ShutdownTimeout(p) \/ ShutdownFails(p)
  PROVE  Promised!Fail(p) \/ UNCHANGED Promised!vars
<1>1. pc[p] = "shutdown" /\ \E failed : AfterShutdown(p, failed)
  BY DEF ShutdownOk, ShutdownTimeout, ShutdownFails, At
<1>2. PICK failed : AfterShutdown(p, failed)
  BY <1>1
<1>3. CASE failed = {}
  BY <1>1, <1>2, <1>3, MoveMaps DEF AfterShutdown, Goto, Compiling, files, plan, reply
<1>4. CASE failed # {}
  BY <1>1, <1>2, <1>4, ErrorMaps DEF AfterShutdown
<1> QED
  BY <1>3, <1>4

\* With an executable for every target, and a document if one was asked for, the
\* request owes nothing.
LEMMA AllBuiltMaps ==
  ASSUME IInv, NEW p \in Packagers, AllBuilt(p)
  PROVE  Promised!Succeed(p) \/ UNCHANGED Promised!vars
<1>1. pc[p] = "target" /\ todo[p] = {}
  BY DEF AllBuilt, At
<1>2. CASE sbom[p]
  BY <1>1, <1>2, MoveMaps DEF AllBuilt, Goto, files, plan, reply
<1>3. CASE ~sbom[p]
  <2>1. Unbuilt(p) = {} /\ Undocumented(p) = {}
    BY <1>1, <1>3 DEF Unbuilt, Undocumented, When, Building, Compiling
  <2> QED
    BY <1>1, <1>3, <2>1, FinishMaps DEF AllBuilt
<1> QED
  BY <1>2, <1>3

LEMMA AllAttachedMaps ==
  ASSUME IInv, NEW p \in Packagers, AllAttached(p)
  PROVE  Promised!Succeed(p)
<1>1. pc[p] = "attach" /\ todo[p] = {} /\ Finish(p)
  BY DEF AllAttached, At
<1>2. Unbuilt(p) = {} /\ Undocumented(p) = {}
  BY <1>1 DEF Unbuilt, Undocumented, When, Building, Compiling, Documenting
<1> QED
  BY <1>1, <1>2, FinishMaps

LEMMA DigestsMap ==
  ASSUME IInv, NEW p \in Packagers, Digest(p) \/ EvidenceDigest(p)
  PROVE  UNCHANGED Promised!vars
BY MoveMaps DEF Digest, EvidenceDigest, At, Goto, files, plan, reply

LEMMA StandingStillMaps ==
  ASSUME UNCHANGED <<executable, evidence, pc, todo, target, wanted, sbom, answer>>
  PROVE  UNCHANGED Promised!vars
BY DEF Promised!vars, Open, Succeeded, Unbuilt, Undocumented, When

LEMMA InitMaps == Init => Promised!Init
<1> SUFFICES ASSUME Init PROVE Promised!Init
  OBVIOUS
<1>1. \A p \in Packagers : pc[p] = "idle" /\ answer[p].ok = FALSE
  BY DEF Init, NoAnswer
<1>2. Open = {} /\ Succeeded = {}
  BY <1>1 DEF Open, Succeeded
<1>3. \A p \in Packagers : Unbuilt(p) = {} /\ Undocumented(p) = {}
  BY <1>1, IdleOwesNothing
<1> QED
  BY <1>2, <1>3 DEF Promised!Init, Init

LEMMA StepMaps == IInv /\ [Next]_vars => [Promised!Next]_(Promised!vars)
<1> SUFFICES ASSUME IInv, [Next]_vars PROVE Promised!Next \/ UNCHANGED Promised!vars
  OBVIOUS
<1>1. ASSUME Edit \/ UNCHANGED vars \/ \E p \in Packagers : WriteLate(p) PROVE UNCHANGED Promised!vars
  BY <1>1, StandingStillMaps DEF Edit, WriteLate, vars, files, plan, reply
<1>2. ASSUME NEW p \in Packagers, Package(p) \/ Reject(p)
      PROVE  Promised!Next
  BY <1>2, CallMaps, RefuseMaps DEF Promised!Next
<1>3. ASSUME NEW p \in Packagers, Fails(p)
      PROVE  Promised!Next
  BY <1>3, ErrorMaps DEF Fails, Promised!Next
<1>4. ASSUME NEW p \in Packagers, Publish(p) \/ WritePackageFile(p)
      PROVE  Promised!Next
  BY <1>4, PublishMaps, WriteMaps DEF Promised!Next
<1>5. ASSUME NEW p \in Packagers,
             \/ NativeBuild(p) \/ NoToolchain(p) \/ NewRunner(p) \/ InitRunner(p) \/ CrossBuild(p)
             \/ ShutdownOk(p) \/ ShutdownTimeout(p) \/ ShutdownFails(p)
      PROVE  Promised!Next \/ UNCHANGED Promised!vars
  BY <1>5, CompilingMaps, ShutdownMaps DEF Promised!Next
<1>6. ASSUME NEW p \in Packagers, AllBuilt(p) \/ AllAttached(p)
      PROVE  Promised!Next \/ UNCHANGED Promised!vars
  BY <1>6, AllBuiltMaps, AllAttachedMaps DEF Promised!Next
<1>7. ASSUME NEW p \in Packagers,
             NextTarget(p) \/ Scan(p) \/ AttachArtifact(p) \/ Digest(p) \/ EvidenceDigest(p)
      PROVE  UNCHANGED Promised!vars
  BY <1>7, NextTargetMaps, ScanMaps, AttachMaps, DigestsMap
<1> QED
  BY <1>1, <1>2, <1>3, <1>4, <1>5, <1>6, <1>7 DEF Next

\* However many requests overlap and wherever they fail, Package keeps the promise
\* of Publication: whole files only, documents after executables, and no answer
\* without an error while something is owed.
THEOREM PackagePublishes == Spec => Publishes
<1>1. Init => Promised!Init
  BY InitMaps
<1>2. IInv /\ [Next]_vars => [Promised!Next]_(Promised!vars)
  BY StepMaps
<1> QED
  BY <1>1, <1>2, IInvAlways, PTL DEF Spec, Publishes, Promised!Spec

-----------------------------------------------------------------------------
(***************************************************************************)
(* What a successful answer of Package says is what the directory holds,   *)
(* for any number of targets, of requests and of edits of the source.      *)
(*                                                                         *)
(* A request that no other one overlaps is the only writer of the          *)
(* directory, so each executable and each document stays as it was when    *)
(* its digest was taken, and the source only grows newer.                  *)
(***************************************************************************)

\* An edit made since p was called.
Fresh(p, edit) == edit \in Edits /\ asked[p] <= edit /\ edit <= source

\* The executable of t is out and reported; so is its document.
Delivered(p, t) == Executable(t) \in artifacts[p] /\ Fresh(p, executable[t])
Documented(p, t) ==
  /\ Document(t) \in artifacts[p]
  /\ evidence[t].sha = executable[t]
  /\ evidence[t].scan >= executable[t]

Unshared(p) ==
  /\ \A q \in Packagers \ {p} : pc[q] = "idle"
  /\ asked[p] \in Edits /\ asked[p] <= source

\* The list so far: digests of the files as they are, of targets that are done.
Listed(p) ==
  /\ \A a \in artifacts[p] :
       /\ a.target \in wanted[p]
       /\ a.kind = "executable" => a.sha = executable[a.target]
  /\ pc[p] \in Building =>
       \A a \in artifacts[p] : a.target \notin todo[p] /\ (pc[p] # "target" => a.target # target[p])

\* The target in hand.
InHand(p) ==
  /\ pc[p] \in (Building \ {"target"}) \cup {"evidence", "evidenceDigest"} => target[p] \in wanted[p]
  /\ pc[p] = "publish" \/ (pc[p] = "shutdown" /\ errors[p] = {}) => Fresh(p, temp[p])
  /\ pc[p] = "digest" => Fresh(p, executable[target[p]])
  /\ pc[p] = "evidence" => temp[p] = [sha |-> executable[target[p]], scan |-> scan[p]]
  /\ pc[p] = "evidenceDigest" => evidence[target[p]] = [sha |-> executable[target[p]], scan |-> scan[p]]

\* The targets that are done.
Done(p) ==
  /\ pc[p] \in Building =>
       \A t \in wanted[p] \ todo[p] : Delivered(p, t) \/ (pc[p] # "target" /\ t = target[p])
  /\ pc[p] \in Documenting => \A t \in wanted[p] : Delivered(p, t)
  /\ pc[p] \in Documenting \ {"scan"} =>
       \A t \in wanted[p] :
         /\ executable[t] <= scan[p]
         /\ t \in todo[p] \/ Documented(p, t) \/ (pc[p] # "attach" /\ t = target[p])

\* AnswerMatchesDisk, of p.
Described(p) ==
  pc[p] = "idle" /\ answer[p].ok =>
    /\ \A t \in wanted[p] :
         /\ Executable(t) \in answer[p].artifacts
         /\ executable[t] >= asked[p]
         /\ sbom[p] =>
              /\ Document(t) \in answer[p].artifacts
              /\ evidence[t].sha = executable[t]
              /\ evidence[t].scan >= executable[t]
    /\ \A a \in answer[p].artifacts : a.target \in wanted[p]

Lone(p) ==
  asked[p] # Overlapped =>
    /\ Unshared(p)
    /\ pc[p] # "idle" => Listed(p) /\ InHand(p) /\ Done(p)
    /\ Described(p)

AllLone == \A p \in Packagers : Lone(p)

-----------------------------------------------------------------------------
LEMMA EditsAreNumbers == Edits \subseteq Int /\ Overlapped \notin Edits
BY EditsAssumption DEF Edits, Overlapped

LEMMA LoneInit == Init => AllLone
BY EditsAssumption DEF Init, AllLone, Lone, Unshared, Described, NoAnswer, Edits

LEMMA LoneStands ==
  ASSUME NEW p \in Packagers, Lone(p),
         \A q \in Packagers \ {p} : pc[q] = "idle" => pc'[q] = "idle",
         UNCHANGED <<source, executable, evidence, pc[p], todo[p], target[p], wanted[p], sbom[p],
                     scan[p], artifacts[p], errors[p], answer[p], asked[p]>>,
         pc[p] # "idle" => temp'[p] = temp[p]
  PROVE  Lone(p)'
<1>1. Unshared(p) => Unshared(p)'
  BY DEF Unshared
<1>2. Listed(p) => Listed(p)'
  BY DEF Listed
<1>3. InHand(p) /\ pc[p] # "idle" => InHand(p)'
  BY DEF InHand, Fresh
<1>4. Done(p) => Done(p)'
  BY DEF Done, Delivered, Documented, Executable, Document, Fresh
<1>5. Described(p) => Described(p)'
  BY DEF Described, Executable, Document
<1> QED
  BY <1>1, <1>2, <1>3, <1>4, <1>5 DEF Lone

\* A younger source makes nothing stale.
LEMMA EditLone == ASSUME IInv, Edit, NEW p \in Packagers, Lone(p) PROVE Lone(p)'
<1>1. /\ source' = source + 1 /\ source \in Int
      /\ UNCHANGED <<executable, evidence, pc, todo, target, wanted, sbom, temp, scan,
                     artifacts, errors, answer, asked>>
  BY EditsAreNumbers DEF Edit, files, plan, work, tool, reply, IInv, Types, TypeOK
<1>2. \A e : Fresh(p, e) => Fresh(p, e)'
  BY <1>1, EditsAreNumbers DEF Fresh
<1>3. Unshared(p) => Unshared(p)'
  <2> SUFFICES ASSUME Unshared(p) PROVE Unshared(p)'
    OBVIOUS
  <2>1. asked[p] \in Int /\ asked[p] <= source /\ asked'[p] = asked[p]
    BY <1>1, EditsAreNumbers DEF Unshared
  <2>2. asked'[p] <= source'
    BY <1>1, <2>1
  <2> QED
    BY <1>1, <2>2 DEF Unshared
<1>4. Listed(p) => Listed(p)'
  BY <1>1 DEF Listed
<1>5. InHand(p) => InHand(p)'
  BY <1>1, <1>2 DEF InHand
<1>6. Done(p) => Done(p)'
  BY <1>1, <1>2 DEF Done, Delivered, Documented, Executable, Document
<1>7. Described(p) => Described(p)'
  BY <1>1 DEF Described, Executable, Document
<1> QED
  BY <1>1, <1>3, <1>4, <1>5, <1>6, <1>7 DEF Lone

-----------------------------------------------------------------------------
\* The steps of the request that is alone.

Own(p) == IInv /\ Lone(p) /\ asked[p] # Overlapped

\* What is to show of a step that does not answer.
LEMMA Inside ==
  ASSUME NEW p \in Packagers, Own(p), pc[p] # "idle",
         NEW label, label # "idle", pc' = [pc EXCEPT ![p] = label], UNCHANGED <<source, asked>>,
         Listed(p)', InHand(p)', Done(p)'
  PROVE  Lone(p)'
<1>1. pc'[p] = label /\ \A q \in Packagers \ {p} : pc'[q] = pc[q]
  BY DEF Own, IInv, Types, TypeOK
<1>2. Unshared(p)'
  BY <1>1 DEF Own, Lone, Unshared
<1> QED
  BY <1>1, <1>2 DEF Lone, Described

LEMMA AnswersLone ==
  ASSUME NEW p \in Packagers, Own(p), NEW a, Return(p, a), a.ok => Described(p)'
  PROVE  Lone(p)'
<1>1. pc'[p] = "idle" /\ answer'[p].ok = a.ok /\ Apart(p)
  BY ReturnApart DEF Own
<1>2. UNCHANGED <<source, asked>>
  BY DEF Return
<1>3. Unshared(p)'
  BY <1>1, <1>2 DEF Own, Lone, Unshared, Apart
<1> QED
  BY <1>1, <1>3 DEF Lone, Described

LEMMA ErrorLone ==
  ASSUME NEW p \in Packagers, Own(p), NEW failed, PackageError(p, failed)
  PROVE  Lone(p)'
<1>1. Return(p, Failed(failed)) /\ Failed(failed).ok = FALSE
  BY DEF PackageError, Failed
<1> QED
  BY <1>1, AnswersLone

\* From the toolchain to the rename.
LEMMA CompilingLone ==
  ASSUME NEW p \in Packagers, Own(p), pc[p] \in Compiling,
         NEW label \in Compiling, pc' = [pc EXCEPT ![p] = label],
         UNCHANGED <<source, executable, evidence, todo, target, wanted, sbom, scan, artifacts, asked>>,
         label = "publish" \/ (label = "shutdown" /\ errors'[p] = {}) => Fresh(p, temp'[p])
  PROVE  Lone(p)'
<1>1. pc'[p] = label /\ pc[p] # "idle" /\ label # "idle"
  BY DEF Own, IInv, Types, TypeOK, Compiling
<1>2. Listed(p) /\ InHand(p) /\ Done(p)
  BY <1>1 DEF Own, Lone
<1>3. Listed(p)'
  BY <1>1, <1>2 DEF Listed, Building, Compiling
<1>4. InHand(p)'
  BY <1>1, <1>2 DEF InHand, Building, Compiling, Fresh
<1>5. Done(p)'
  BY <1>1, <1>2 DEF Done, Delivered, Fresh, Executable, Building, Compiling, Documenting
<1> QED
  BY <1>1, <1>3, <1>4, <1>5, Inside

\* What a compiler reads now is as young as the source.
LEMMA SourceIsFresh ==
  ASSUME NEW p \in Packagers, Own(p)
  PROVE  Fresh(p, source)
BY EditsAreNumbers DEF Own, Lone, Unshared, Fresh, IInv, Types, TypeOK

LEMMA NextTargetLone ==
  ASSUME NEW p \in Packagers, Own(p), NextTarget(p)
  PROVE  Lone(p)'
<1>1. PICK t \in Targets :
        /\ First(t, todo[p])
        /\ target' = [target EXCEPT ![p] = t]
        /\ todo'   = [todo EXCEPT ![p] = @ \ {t}]
        /\ pc' = [pc EXCEPT ![p] = IF t = Host THEN "native" ELSE "toolchain"]
  BY DEF NextTarget, Goto
<1>2. /\ pc[p] = "target"
      /\ UNCHANGED <<source, executable, evidence, wanted, sbom, scan, artifacts, errors, asked>>
  BY DEF NextTarget, At, files, reply
<1>3. /\ t \in todo[p] /\ target'[p] = t /\ todo'[p] = todo[p] \ {t}
      /\ pc'[p] \in {"native", "toolchain"} /\ todo[p] \subseteq wanted[p]
  BY <1>1, <1>2 DEF First, Own, IInv, Types, TypeOK, Progress, Building
<1>4. Listed(p) /\ InHand(p) /\ Done(p)
  BY <1>2 DEF Own, Lone
<1>5. Listed(p)'
  BY <1>2, <1>3, <1>4 DEF Listed, Building
<1>6. InHand(p)'
  BY <1>2, <1>3 DEF InHand, Building
<1>7. Done(p)'
  BY <1>2, <1>3, <1>4 DEF Done, Delivered, Fresh, Executable, Building, Documenting
<1> QED
  BY <1>1, <1>2, <1>5, <1>6, <1>7, Inside

LEMMA BuildLone ==
  ASSUME NEW p \in Packagers, Own(p),
         NativeBuild(p) \/ NoToolchain(p) \/ NewRunner(p) \/ InitRunner(p) \/ CrossBuild(p)
  PROVE  Lone(p)'
<1> USE DEF At, Goto, files, plan, work, reply
<1>0. IInv /\ Fresh(p, source)
  BY SourceIsFresh DEF Own
<1>1. CASE NativeBuild(p)
  <2>1. CASE PackageError(p, {"build"})
    BY <2>1, ErrorLone
  <2>2. CASE /\ Compiled(p) /\ pc' = [pc EXCEPT ![p] = "publish"]
             /\ UNCHANGED <<unsupported, source, files, plan, scan, artifacts, tool, reply>>
    <3>1. temp'[p] = source
      BY <1>0, <2>2 DEF Compiled, IInv, Types
    <3> QED
      BY <1>0, <1>1, <2>2, <3>1, CompilingLone DEF NativeBuild, Compiling
  <2> QED
    BY <1>1, <2>1, <2>2 DEF NativeBuild
<1>2. CASE NoToolchain(p)
  BY <1>2, ErrorLone DEF NoToolchain
<1>3. CASE NewRunner(p)
  BY <1>3, CompilingLone DEF NewRunner, Compiling
<1>4. CASE InitRunner(p)
  <2>1. CASE pc' = [pc EXCEPT ![p] = "run"]
    BY <1>4, <2>1, CompilingLone DEF InitRunner, Compiling
  <2>2. CASE pc' = [pc EXCEPT ![p] = "shutdown"] /\ errors' = [errors EXCEPT ![p] = {"other"}]
    <3>1. errors'[p] # {}
      BY <1>0, <2>2 DEF IInv, Types, TypeOK
    <3> QED
      BY <1>4, <2>2, <3>1, CompilingLone DEF InitRunner, Compiling
  <2> QED
    BY <1>4, <2>1, <2>2 DEF InitRunner
<1>5. CASE CrossBuild(p)
  <2>1. errors'[p] = {} => temp'[p] = source
    <3>1. CASE Compiled(p)
      BY <1>0, <3>1 DEF Compiled, IInv, Types
    <3>2. CASE errors' = [errors EXCEPT ![p] = {"build"}]
      BY <1>0, <3>2 DEF IInv, Types, TypeOK
    <3> QED
      BY <1>5, <3>1, <3>2 DEF CrossBuild
  <2> QED
    BY <1>0, <1>5, <2>1, CompilingLone DEF CrossBuild, Compiling
<1> QED
  BY <1>1, <1>2, <1>3, <1>4, <1>5

LEMMA ShutdownLone ==
  ASSUME NEW p \in Packagers, Own(p), ShutdownOk(p) \/ ShutdownTimeout(p) \/ ShutdownFails(p)
  PROVE  Lone(p)'
<1>1. PICK failed : AfterShutdown(p, failed) /\ (failed = {} => errors[p] = {})
  BY DEF ShutdownOk, ShutdownTimeout, ShutdownFails
<1>2. pc[p] = "shutdown"
  BY DEF ShutdownOk, ShutdownTimeout, ShutdownFails, At
<1>3. CASE failed = {}
  <2>1. Fresh(p, temp[p])
    BY <1>1, <1>2, <1>3 DEF Own, Lone, InHand
  <2> QED
    BY <1>1, <1>2, <1>3, <2>1, CompilingLone DEF AfterShutdown, Goto, files, plan, work, reply, Compiling
<1>4. CASE failed # {}
  BY <1>1, <1>4, ErrorLone DEF AfterShutdown
<1> QED
  BY <1>3, <1>4

LEMMA PublishLone ==
  ASSUME NEW p \in Packagers, Own(p), Publish(p)
  PROVE  Lone(p)'
<1> DEFINE t == target[p]
<1>1. /\ pc[p] = "publish" /\ pc' = [pc EXCEPT ![p] = "digest"]
      /\ executable' = [executable EXCEPT ![t] = temp[p]]
      /\ UNCHANGED <<source, evidence, todo, target, wanted, sbom, scan, artifacts, errors, asked>>
  BY DEF Publish, At, Goto, plan, reply
<1>2. /\ Listed(p) /\ InHand(p) /\ Done(p)
      /\ t \in wanted[p] /\ Fresh(p, temp[p])
  BY <1>1 DEF Own, Lone, InHand, Building
<1>3. /\ t \in Targets /\ executable'[t] = temp[p] /\ pc'[p] = "digest"
      /\ \A u \in Targets \ {t} : executable'[u] = executable[u]
      /\ wanted[p] \subseteq Targets
  BY <1>1 DEF Own, IInv, Types, TypeOK
<1>4. \A a \in artifacts[p] : a.target \in Targets \ {t}
  BY <1>1, <1>2, <1>3 DEF Listed, Building
<1>5. Listed(p)'
  BY <1>1, <1>2, <1>3, <1>4 DEF Listed, Building
<1>6. InHand(p)'
  BY <1>1, <1>2, <1>3 DEF InHand, Building, Fresh
<1>7. Done(p)'
  BY <1>1, <1>2, <1>3 DEF Done, Delivered, Fresh, Executable, Building, Documenting
<1> QED
  BY <1>1, <1>5, <1>6, <1>7, Inside

LEMMA DigestLone ==
  ASSUME NEW p \in Packagers, Own(p), Digest(p)
  PROVE  Lone(p)'
<1> DEFINE t == target[p]
           new == Executable(t)
<1>1. /\ pc[p] = "digest" /\ pc' = [pc EXCEPT ![p] = "target"]
      /\ artifacts' = [artifacts EXCEPT ![p] = @ \cup {new}]
      /\ UNCHANGED <<source, executable, evidence, todo, target, wanted, sbom, scan, errors, asked>>
  BY DEF Digest, Produced, At, Goto, files, plan, reply
<1>2. /\ Listed(p) /\ InHand(p) /\ Done(p)
      /\ t \in wanted[p] /\ Fresh(p, executable[t])
  BY <1>1 DEF Own, Lone, InHand, Building
<1>3. /\ artifacts'[p] = artifacts[p] \cup {new} /\ pc'[p] = "target"
  BY <1>1 DEF Own, IInv, Types, TypeOK
<1>4. new.target = t /\ new.sha = executable[t]
  BY DEF Executable
<1>5. t \notin todo[p]
  BY <1>1 DEF Own, IInv, Progress
<1>6. Listed(p)'
  BY <1>1, <1>2, <1>3, <1>4, <1>5 DEF Listed, Building
<1>7. InHand(p)'
  BY <1>3 DEF InHand, Building
<1>8. Done(p)'
  BY <1>1, <1>2, <1>3 DEF Done, Delivered, Fresh, Executable, Building, Documenting
<1> QED
  BY <1>1, <1>6, <1>7, <1>8, Inside

\* The answer repeats what was produced, and the request is still what it was.
LEMMA FinishLone ==
  ASSUME NEW p \in Packagers, Own(p), Finish(p), Listed(p),
         \A t \in wanted[p] : Delivered(p, t) /\ (sbom[p] => Documented(p, t))
  PROVE  Lone(p)'
<1> DEFINE a == [ok |-> TRUE, artifacts |-> artifacts[p], errors |-> {}]
<1>1. Return(p, a)
  BY DEF Finish
<1>2. /\ answer'[p].artifacts = artifacts[p] /\ wanted'[p] = wanted[p] /\ (sbom'[p] <=> sbom[p])
      /\ UNCHANGED <<executable, evidence, asked>>
  BY <1>1 DEF Return, files, Own, IInv, Types, TypeOK
<1>3. \A t \in wanted[p] : executable[t] >= asked[p]
  BY EditsAreNumbers DEF Own, Lone, Unshared, Delivered, Fresh
<1>4. Described(p)'
  BY <1>2, <1>3 DEF Described, Delivered, Documented, Listed, Executable, Document
<1> QED
  BY <1>1, <1>4, AnswersLone

LEMMA AllBuiltLone ==
  ASSUME NEW p \in Packagers, Own(p), AllBuilt(p)
  PROVE  Lone(p)'
<1>1. pc[p] = "target" /\ todo[p] = {}
  BY DEF AllBuilt, At
<1>2. Listed(p) /\ InHand(p) /\ Done(p)
  BY <1>1 DEF Own, Lone
<1>3. \A t \in wanted[p] : Delivered(p, t)
  BY <1>1, <1>2 DEF Done, Building
<1>4. CASE sbom[p]
  <2>1. /\ pc' = [pc EXCEPT ![p] = "scan"]
        /\ UNCHANGED <<source, executable, evidence, todo, target, wanted, sbom, scan, artifacts, errors, asked>>
    BY <1>4 DEF AllBuilt, Goto, files, plan, work, reply
  <2>2. pc'[p] = "scan"
    BY <2>1 DEF Own, IInv, Types, TypeOK
  <2>3. Listed(p)'
    BY <1>2, <2>1, <2>2 DEF Listed, Building
  <2>4. InHand(p)'
    BY <2>2 DEF InHand, Building
  <2>5. Done(p)'
    BY <1>3, <2>1, <2>2 DEF Done, Delivered, Fresh, Executable, Building, Documenting
  <2> QED
    BY <1>1, <2>1, <2>3, <2>4, <2>5, Inside
<1>5. CASE ~sbom[p]
  BY <1>2, <1>3, <1>5, FinishLone DEF AllBuilt
<1> QED
  BY <1>4, <1>5

LEMMA ScanLone ==
  ASSUME NEW p \in Packagers, Own(p), Scan(p)
  PROVE  Lone(p)'
<1>1. /\ pc[p] = "scan" /\ pc' = [pc EXCEPT ![p] = "attach"]
      /\ scan' = [scan EXCEPT ![p] = source]
      /\ todo' = [todo EXCEPT ![p] = wanted[p]]
      /\ UNCHANGED <<source, executable, evidence, target, wanted, sbom, artifacts, errors, asked>>
  BY DEF Scan, At, Goto, files, reply
<1>2. Listed(p) /\ InHand(p) /\ Done(p)
  BY <1>1 DEF Own, Lone
<1>3. pc'[p] = "attach" /\ scan'[p] = source /\ todo'[p] = wanted[p]
  BY <1>1 DEF Own, IInv, Types, TypeOK
<1>4. Listed(p)'
  BY <1>1, <1>2, <1>3 DEF Listed, Building
<1>5. InHand(p)'
  BY <1>3 DEF InHand, Building
<1>6. Done(p)'
  BY <1>1, <1>2, <1>3 DEF Done, Delivered, Fresh, Executable, Building, Documenting
<1> QED
  BY <1>1, <1>4, <1>5, <1>6, Inside

\* The digest a document names is that of the file: every executable of the list is.
LEMMA ReportedIsFile ==
  ASSUME NEW p \in Packagers, NEW t, Listed(p), Delivered(p, t)
  PROVE  Reported(p, t) = executable[t]
<1> DEFINE b == CHOOSE x \in artifacts[p] : x.kind = "executable" /\ x.target = t
<1>1. Executable(t).kind = "executable" /\ Executable(t).target = t
  BY DEF Executable
<1>2. b \in artifacts[p] /\ b.kind = "executable" /\ b.target = t
  BY <1>1 DEF Delivered
<1>3. b.sha = executable[t]
  BY <1>2 DEF Listed
<1> QED
  BY <1>3 DEF Reported

LEMMA AttachLone ==
  ASSUME NEW p \in Packagers, Own(p), AttachArtifact(p)
  PROVE  Lone(p)'
<1>1. PICK t \in Targets :
        /\ First(t, todo[p])
        /\ target' = [target EXCEPT ![p] = t]
        /\ todo'   = [todo EXCEPT ![p] = @ \ {t}]
        /\ temp'   = [temp EXCEPT ![p] = [sha |-> Reported(p, t), scan |-> scan[p]]]
  BY DEF AttachArtifact
<1>2. /\ pc[p] = "attach" /\ pc' = [pc EXCEPT ![p] = "evidence"]
      /\ UNCHANGED <<source, executable, evidence, wanted, sbom, scan, artifacts, errors, asked>>
  BY DEF AttachArtifact, At, Goto, files, reply
<1>3. Listed(p) /\ InHand(p) /\ Done(p)
  BY <1>2 DEF Own, Lone
<1>4. /\ t \in todo[p] /\ target'[p] = t /\ todo'[p] = todo[p] \ {t}
      /\ pc'[p] = "evidence" /\ t \in wanted[p]
  BY <1>1, <1>2 DEF First, Own, IInv, Types, TypeOK, Progress, Documenting
<1>5. Delivered(p, t)
  BY <1>2, <1>3, <1>4 DEF Done, Documenting
<1>6. temp'[p] = [sha |-> executable[t], scan |-> scan[p]]
  BY <1>1, <1>3, <1>5, ReportedIsFile DEF Own, IInv, Types
<1>7. Listed(p)'
  BY <1>2, <1>3, <1>4 DEF Listed, Building
<1>8. InHand(p)'
  BY <1>2, <1>4, <1>6 DEF InHand, Building
<1>9. Done(p)'
  BY <1>2, <1>3, <1>4 DEF Done, Delivered, Documented, Fresh, Executable, Document, Building, Documenting
<1> QED
  BY <1>2, <1>7, <1>8, <1>9, Inside

LEMMA WriteLone ==
  ASSUME NEW p \in Packagers, Own(p), WritePackageFile(p)
  PROVE  Lone(p)'
<1> DEFINE t == target[p]
<1>1. /\ pc[p] = "evidence" /\ pc' = [pc EXCEPT ![p] = "evidenceDigest"]
      /\ evidence' = [evidence EXCEPT ![t] = temp[p]]
      /\ UNCHANGED <<source, executable, todo, target, wanted, sbom, scan, artifacts, errors, asked>>
  BY DEF WritePackageFile, At, Goto, plan, reply
<1>2. /\ Listed(p) /\ InHand(p) /\ Done(p)
      /\ t \in wanted[p] /\ temp[p] = [sha |-> executable[t], scan |-> scan[p]]
  BY <1>1 DEF Own, Lone, InHand, Building
<1>3. /\ t \in Targets /\ evidence'[t] = temp[p] /\ pc'[p] = "evidenceDigest"
      /\ \A u \in Targets \ {t} : evidence'[u] = evidence[u]
      /\ wanted[p] \subseteq Targets
  BY <1>1 DEF Own, IInv, Types, TypeOK
<1>4. Listed(p)'
  BY <1>1, <1>2, <1>3 DEF Listed, Building
<1>5. InHand(p)'
  BY <1>1, <1>2, <1>3 DEF InHand, Building
<1>6. Done(p)'
  BY <1>1, <1>2, <1>3 DEF Done, Delivered, Documented, Fresh, Executable, Document, Building, Documenting
<1> QED
  BY <1>1, <1>4, <1>5, <1>6, Inside

LEMMA EvidenceDigestLone ==
  ASSUME NEW p \in Packagers, Own(p), EvidenceDigest(p)
  PROVE  Lone(p)'
<1> DEFINE t == target[p]
           new == Document(t)
<1>1. /\ pc[p] = "evidenceDigest" /\ pc' = [pc EXCEPT ![p] = "attach"]
      /\ artifacts' = [artifacts EXCEPT ![p] = @ \cup {new}]
      /\ UNCHANGED <<source, executable, evidence, todo, target, wanted, sbom, scan, errors, asked>>
  BY DEF EvidenceDigest, Produced, At, Goto, files, plan, reply
<1>2. /\ Listed(p) /\ InHand(p) /\ Done(p)
      /\ t \in wanted[p] /\ evidence[t] = [sha |-> executable[t], scan |-> scan[p]]
  BY <1>1 DEF Own, Lone, InHand, Building
<1>3. /\ artifacts'[p] = artifacts[p] \cup {new} /\ pc'[p] = "attach"
      /\ new.kind = "sbom" /\ new.target = t
  BY <1>1 DEF Own, IInv, Types, TypeOK, Document
<1>4. executable[t] <= scan[p]
  BY <1>1, <1>2 DEF Done, Documenting
<1>5. evidence[t].sha = executable[t] /\ evidence[t].scan >= executable[t]
  <2>1. executable[t] \in Int /\ scan[p] \in Int
    <3>1. Delivered(p, t) /\ scan[p] \in Edits
      BY <1>1, <1>2 DEF Done, Documenting, Own, IInv, Types, TypeOK
    <3> QED
      BY <3>1, EditsAreNumbers DEF Delivered, Fresh
  <2> QED
    BY <1>2, <1>4, <2>1
<1>6. Listed(p)'
  BY <1>1, <1>2, <1>3 DEF Listed, Building
<1>7. InHand(p)'
  BY <1>3 DEF InHand, Building
<1>8. Done(p)'
  BY <1>1, <1>2, <1>3, <1>5 DEF Done, Delivered, Documented, Fresh, Executable, Document, Building, Documenting
<1> QED
  BY <1>1, <1>6, <1>7, <1>8, Inside

LEMMA AllAttachedLone ==
  ASSUME NEW p \in Packagers, Own(p), AllAttached(p)
  PROVE  Lone(p)'
<1>1. pc[p] = "attach" /\ todo[p] = {} /\ Finish(p)
  BY DEF AllAttached, At
<1>2. Listed(p) /\ Done(p)
  BY <1>1 DEF Own, Lone
<1>3. \A t \in wanted[p] : Delivered(p, t) /\ Documented(p, t)
  BY <1>1, <1>2 DEF Done, Documenting
<1> QED
  BY <1>1, <1>2, <1>3, FinishLone

-----------------------------------------------------------------------------
\* A request begins: it is alone if no other one is under way, and the others
\* are not alone any more.
LEMMA PackageLone ==
  ASSUME IInv, NEW p \in Packagers, Package(p), NEW q \in Packagers
  PROVE  Lone(q)'
<1>1. /\ asked' = [r \in Packagers |->
                    IF r = p /\ \A o \in Packagers : pc[o] = "idle" THEN source ELSE Overlapped]
      /\ pc' = [pc EXCEPT ![p] = "target"] /\ UNCHANGED <<source, artifacts>>
  BY DEF Package, At, Goto
<1>2. PICK requested \in SUBSET Targets :
        /\ wanted' = Begins(p, wanted, Normalized(requested), {})
        /\ todo'   = [todo EXCEPT ![p] = Normalized(requested)]
  BY DEF Package
<1>3. CASE asked'[q] = Overlapped
  BY <1>3 DEF Lone
<1>4. CASE asked'[q] # Overlapped
  <2>1. /\ q = p /\ asked'[p] = source /\ source' = source /\ source \in Edits
        /\ \A o \in Packagers \ {p} : pc'[o] = "idle"
    BY <1>1, <1>4 DEF IInv, Types, TypeOK
  <2>2. pc'[p] = "target" /\ todo'[p] = wanted'[p]
    BY <1>1, <1>2 DEF Begins, IInv, Types, TypeOK
  <2>3. Unshared(p)'
    BY <2>1, EditsAreNumbers DEF Unshared
  <2>4. artifacts'[p] = {}
    <3>1. pc[p] = "idle"
      BY DEF Package, At
    <3> QED
      BY <1>1, <3>1 DEF IInv, Progress
  <2>5. Listed(p)' /\ InHand(p)' /\ Done(p)'
    BY <2>2, <2>4 DEF Listed, InHand, Done, Building, Documenting
  <2> QED
    BY <2>1, <2>2, <2>3, <2>5 DEF Lone, Described
<1> QED
  BY <1>3, <1>4

LEMMA RejectLone ==
  ASSUME IInv, NEW p \in Packagers, Reject(p), NEW q \in Packagers, Lone(q)
  PROVE  Lone(q)'
<1>1. /\ pc[p] = "idle" /\ answer' = [answer EXCEPT ![p] = Failed({"other"})]
      /\ UNCHANGED <<source, executable, evidence, pc, todo, target, wanted, sbom, scan, artifacts, errors, asked>>
      /\ temp' = [temp EXCEPT ![p] = NoFile]
  BY DEF Reject, At, files, plan
<1>2. CASE q # p
  <2>1. answer'[q] = answer[q] /\ temp'[q] = temp[q]
    BY <1>1, <1>2 DEF IInv, Types
  <2> QED
    BY <1>1, <2>1, LoneStands
<1>3. CASE q = p
  <2>1. ~answer'[p].ok
    BY <1>1 DEF Failed, IInv, Types
  <2>2. Unshared(p) => Unshared(p)'
    BY <1>1 DEF Unshared
  <2> QED
    BY <1>1, <1>3, <2>1, <2>2 DEF Lone, Described
<1> QED
  BY <1>2, <1>3

\* What is written into the directory by a container nobody waits for any more is
\* no destination.
LEMMA WriteLateLone ==
  ASSUME IInv, NEW p \in Packagers, WriteLate(p), NEW q \in Packagers, Lone(q)
  PROVE  Lone(q)'
<1>1. /\ pc[p] = "idle" /\ temp' = [temp EXCEPT ![p] = Partial]
      /\ UNCHANGED <<source, executable, evidence, pc, todo, target, wanted, sbom, scan, artifacts,
                     errors, answer, asked>>
  BY DEF WriteLate, At, files, plan, reply
<1>2. pc[q] # "idle" => temp'[q] = temp[q]
  BY <1>1 DEF IInv, Types
<1> QED
  BY <1>1, <1>2, LoneStands

LEMMA OwnStep ==
  ASSUME NEW p \in Packagers, Own(p),
         \/ Fails(p) \/ NextTarget(p) \/ NativeBuild(p)
         \/ NoToolchain(p) \/ NewRunner(p) \/ InitRunner(p) \/ CrossBuild(p)
         \/ ShutdownOk(p) \/ ShutdownTimeout(p) \/ ShutdownFails(p)
         \/ Publish(p) \/ Digest(p) \/ AllBuilt(p)
         \/ Scan(p) \/ AttachArtifact(p) \/ WritePackageFile(p)
         \/ EvidenceDigest(p) \/ AllAttached(p)
  PROVE  Lone(p)'
<1>1. CASE Fails(p)
  BY <1>1, ErrorLone DEF Fails
<1> QED
  BY <1>1, NextTargetLone, BuildLone, ShutdownLone, PublishLone, DigestLone, AllBuiltLone, ScanLone,
     AttachLone, WriteLone, EvidenceDigestLone, AllAttachedLone

\* None of these steps is one of an idle request, or changes who is alone.
LEMMA OthersAtWork ==
  ASSUME NEW p \in Packagers,
         \/ Fails(p) \/ NextTarget(p) \/ NativeBuild(p)
         \/ NoToolchain(p) \/ NewRunner(p) \/ InitRunner(p) \/ CrossBuild(p)
         \/ ShutdownOk(p) \/ ShutdownTimeout(p) \/ ShutdownFails(p)
         \/ Publish(p) \/ Digest(p) \/ AllBuilt(p)
         \/ Scan(p) \/ AttachArtifact(p) \/ WritePackageFile(p)
         \/ EvidenceDigest(p) \/ AllAttached(p)
  PROVE  pc[p] # "idle" /\ asked' = asked
<1>1. pc[p] # "idle"
  BY DEF Fails, NextTarget, NativeBuild, NoToolchain, NewRunner, InitRunner, CrossBuild, ShutdownOk,
     ShutdownTimeout, ShutdownFails, Publish, Digest, AllBuilt, Scan, AttachArtifact, WritePackageFile,
     EvidenceDigest, AllAttached, At
<1>2. asked' = asked
  <2>1. ASSUME NEW a, Return(p, a) PROVE asked' = asked
    BY <2>1 DEF Return
  <2>2. ASSUME NEW failed, PackageError(p, failed) PROVE asked' = asked
    BY <2>1, <2>2 DEF PackageError
  <2>3. ASSUME NEW failed, AfterShutdown(p, failed) PROVE asked' = asked
    BY <2>2, <2>3 DEF AfterShutdown, reply
  <2>4. CASE Fails(p) \/ NoToolchain(p) \/ ShutdownOk(p) \/ ShutdownTimeout(p) \/ ShutdownFails(p)
    BY <2>2, <2>3, <2>4 DEF Fails, NoToolchain, ShutdownOk, ShutdownTimeout, ShutdownFails
  <2>5. CASE NativeBuild(p)
    BY <2>2, <2>5 DEF NativeBuild, reply
  <2>6. CASE AllBuilt(p) \/ AllAttached(p)
    BY <2>1, <2>6 DEF AllBuilt, AllAttached, Finish, reply
  <2>7. CASE \/ NextTarget(p) \/ NewRunner(p) \/ InitRunner(p) \/ CrossBuild(p)
             \/ Publish(p) \/ Digest(p) \/ Scan(p) \/ AttachArtifact(p) \/ WritePackageFile(p)
             \/ EvidenceDigest(p)
    BY <2>7 DEF NextTarget, NewRunner, InitRunner, CrossBuild, Publish, Digest, Scan, AttachArtifact,
       WritePackageFile, EvidenceDigest, reply
  <2> QED
    BY <2>4, <2>5, <2>6, <2>7
<1> QED
  BY <1>1, <1>2

LEMMA LoneStep == IInv /\ AllLone /\ [Next]_vars => AllLone'
<1> SUFFICES ASSUME IInv, \A q \in Packagers : Lone(q), [Next]_vars, NEW q \in Packagers
             PROVE  Lone(q)'
  BY DEF AllLone
<1>1. CASE Edit
  BY <1>1, EditLone
<1>2. ASSUME NEW p \in Packagers, Package(p)
      PROVE  Lone(q)'
  BY <1>2, PackageLone
<1>3. ASSUME NEW p \in Packagers, Reject(p) \/ WriteLate(p)
      PROVE  Lone(q)'
  BY <1>3, RejectLone, WriteLateLone
<1>4. ASSUME NEW p \in Packagers,
             \/ Fails(p) \/ NextTarget(p) \/ NativeBuild(p)
             \/ NoToolchain(p) \/ NewRunner(p) \/ InitRunner(p) \/ CrossBuild(p)
             \/ ShutdownOk(p) \/ ShutdownTimeout(p) \/ ShutdownFails(p)
             \/ Publish(p) \/ Digest(p) \/ AllBuilt(p)
             \/ Scan(p) \/ AttachArtifact(p) \/ WritePackageFile(p)
             \/ EvidenceDigest(p) \/ AllAttached(p)
      PROVE  Lone(q)'
  <2>1. pc[p] # "idle" /\ asked' = asked
    BY <1>4, OthersAtWork
  <2>2. CASE asked[q] = Overlapped
    BY <2>1, <2>2 DEF Lone
  <2>3. CASE asked[q] # Overlapped
    <3>1. p = q
      BY <2>1, <2>3 DEF Lone, Unshared
    <3> QED
      BY <1>4, <2>3, <3>1, OwnStep DEF Own
  <2> QED
    BY <2>2, <2>3
<1>5. CASE UNCHANGED vars
  <2>1. UNCHANGED <<source, executable, evidence, pc, todo, target, wanted, sbom, temp, scan,
                    artifacts, errors, answer, asked>>
    BY <1>5 DEF vars, files, plan, work, tool, reply
  <2> QED
    BY <2>1, LoneStands
<1> QED
  BY <1>1, <1>2, <1>3, <1>4, <1>5 DEF Next

\* A successful answer to a request nothing overlapped names, for each target it was
\* asked for, the executable that is there, made from a source no older than the
\* request, and the document that describes it; until another request begins.
THEOREM AnswersDescribeDisk == Spec => []AnswerMatchesDisk
<1>1. AllLone => AnswerMatchesDisk
  BY DEF AllLone, Lone, Described, AnswerMatchesDisk, At
<1> QED
  BY <1>1, LoneInit, LoneStep, IInvAlways, PTL DEF Spec
=============================================================================
