--------------------------- MODULE EffectiveInputs ---------------------------
(***************************************************************************)
(* Service.DiscoverEffectiveInputs (src/pkg/service/effective_inputs.go):  *)
(* which files decide the outcome of each validation task, and under which *)
(* identity.  Discovery collects observations into several sets, then      *)
(* classifies and hashes each set, then assembles one answer per task from *)
(* a set, the plan of the operation's owner and the caller's context.      *)
(*                                                                         *)
(* A file is what FollowLinks ends at, or a link it goes through, which is *)
(* an input of its own; or a module of another repository, which is known  *)
(* by its version and sum.  An identity is the one discovery finds (the    *)
(* hash of the content or of the link's text, the module's sum), another   *)
(* one supplied from outside, or none.  The unresolved                     *)
(* entries every task without a plan gets are not modelled one by one: all *)
(* such a task says of itself is that it is not complete.                  *)
(***************************************************************************)
EXTENDS Naturals, Sequences

CONSTANTS
  Kinds, Files,    \* kinds of inputs, physical files
  Links,           \* those of the files that are symbolic links
  Libraries,       \* those that are modules of other repositories
  Unsummed,        \* the modules "go list" reports without a sum
  LinkEnd,         \* the file a link leads to
  SecretNames,     \* files under /configurations/, or *.env
  MetadataList,    \* what the module, workspace and configuration files yield
  ProductionList,  \* what "go list -deps" yields
  TestList,        \* what "go list -deps -test" yields
  PlanList,        \* what a plan's own invocation yields
  PlannedTasks,    \* tasks whose owner may register a plan
  Supplied         \* inputs a caller or a plan may supply

Keys == Kinds \X Files
Observation == [key : Keys, sensitive : BOOLEAN]

\* Links and modules get their identity when they are observed, or never.
AtOnce     == Links \cup Libraries
Identified == AtOnce \ Unsummed

\* Sets of files.  "shared" owns the inputs that the clones of the metadata
\* point to: maps.Clone copies the map, not the inputs.
Sets    == {"production", "tests", "metadata", "plan"}
Origins == Sets \cup {"shared"}
NoInput == "none"

None == "none"
Hash == "hash"
Given == "given"
Identities == {None, Hash, Given}
Input == [sensitive : BOOLEAN, identity : Identities]
Supplies == [key : Keys, sensitive : BOOLEAN, identity : {Given, Hash}]

Tasks  == {"compile", "test", "package", "sync"}
Plans ==
  [task : PlannedTasks \cup {"nothing"}, invocation : BOOLEAN, complete : BOOLEAN, inputs : SUBSET Supplied]

ASSUME ListsAssumption ==
  /\ MetadataList \in Seq(Observation) /\ ProductionList \in Seq(Observation)
  /\ TestList \in Seq(Observation) /\ PlanList \in Seq(Observation)
ASSUME SuppliedAssumption ==
  /\ Supplied \subseteq Supplies
  /\ AtOnce \subseteq Files /\ LinkEnd \in [Links -> Files \ AtOnce]
  /\ Links \cap Libraries = {} /\ Unsummed \subseteq Libraries
  /\ SecretNames \subseteq Files \ AtOnce
  /\ PlannedTasks \subseteq Tasks

VARIABLES
  pc,         \* "request", "metadata", "list", "resolve", "assemble", "done"
  cancelled,  \* the context of the request
  plan,       \* the one plan of this request
  given,      \* the caller's context
  object,     \* inputs, by who created them
  inputs,     \* each set's map: whose input it holds under a key
  sensitive,  \* files classified sensitive: one map for all sets
  incomplete, \* sets that could not observe everything
  queue,      \* sets still to list, or to resolve
  answer      \* per task, or "error"

request == <<plan, given>>
found   == <<object, inputs, sensitive, incomplete>>
vars    == <<pc, cancelled, request, found, queue, answer>>

Error == [status |-> "error", tasks |-> [t \in {} |-> {}]]
Unanswered == [status |-> "none", tasks |-> [t \in {} |-> {}]]

Fresh == [sensitive |-> FALSE, identity |-> None]

Init ==
  /\ pc = "request"
  /\ cancelled = FALSE
  /\ plan \in {p \in Plans : p.task = "nothing" => ~p.invocation /\ ~p.complete /\ p.inputs = {}}
  /\ given \in SUBSET Supplied
  /\ object = [o \in Origins |-> [k \in Keys |-> Fresh]]
  /\ inputs = [s \in Sets |-> [k \in Keys |-> NoInput]]
  /\ sensitive = {}
  /\ incomplete = {}
  /\ queue = <<>>
  /\ answer = Unanswered

Cancel ==
  /\ pc # "done"
  /\ cancelled' = TRUE
  /\ UNCHANGED <<pc, request, found, queue, answer>>

Answer(a) ==
  /\ answer' = a
  /\ pc' = "done"
  /\ UNCHANGED <<cancelled, request, found, queue>>

Declined == [has |-> {}, inputs |-> [k \in Keys |-> Fresh], gaps |-> TRUE, complete |-> FALSE]

\* A historical revision, or no source: every task is declined.
Decline == pc = "request" /\ Answer([status |-> "ok", tasks |-> [t \in Tasks |-> Declined]])

\* An invalid request, inventory or plan; no workspace.
Refuse == pc = "request" /\ Answer(Error)

\* A file the caller or the plan calls sensitive is so before anything is read;
\* a link stands for the file it leads to (EvalSymlinks).
End(file) == IF file \in Links THEN LinkEnd[file] ELSE file
Declared == {End(i.key[2]) : i \in {j \in given \cup plan.inputs : j.sensitive /\ j.key[2] \notin Libraries}}

Begin ==
  /\ pc = "request"
  /\ sensitive' = Declared
  /\ pc' = "metadata"
  /\ UNCHANGED <<cancelled, request, object, inputs, incomplete, queue, answer>>

(***************************************************************************)
(* Observing.  seen is the part of a listing that was observed: a file may *)
(* be missing, external or unrepresentable, or "go list" may fail, and the *)
(* set is incomplete; but once the context is cancelled, follow returns    *)
(* without a word.                                                         *)
(***************************************************************************)
All(list) == {list[i] : i \in DOMAIN list}
Sensitive(seen) == {o.key[2] : o \in {p \in seen : p.sensitive /\ p.key[2] \notin AtOnce}}

Named(seen) == {o.key : o \in seen}

\* The last observation of a key replaces the ones before, whatever they said.
\* The text of a link is hashed at once unless the link is sensitive; a module
\* with a sum has an identity, one without has none, and no gap is noted.
LastIsSensitive(list, seen, k) ==
  \E i \in DOMAIN list :
    /\ list[i] \in seen /\ list[i].key = k /\ list[i].sensitive
    /\ \A j \in DOMAIN list : j > i => ~(list[j] \in seen /\ list[j].key = k)
Noted(list, seen, k) ==
  IF LastIsSensitive(list, seen, k) THEN [sensitive |-> TRUE, identity |-> None]
  ELSE [sensitive |-> FALSE, identity |-> IF k[2] \in Identified THEN Hash ELSE None]
Added(list, seen, old) ==
  [k \in Keys |-> IF k \in Named(seen) THEN Noted(list, seen, k) ELSE old[k]]

\* Production and tests observe the metadata separately; the clone for the
\* other tasks is taken from production.
CollectMetadata ==
  /\ pc = "metadata"
  /\ \E one, two \in SUBSET All(MetadataList) :
       LET all == All(MetadataList)
       IN /\ object' = [object EXCEPT !["shared"] = Added(MetadataList, one, @),
                                      !["tests"]  = Added(MetadataList, two, @)]
          /\ inputs' = [inputs EXCEPT
               !["production"] = [k \in Keys |-> IF k \in Named(one) THEN "shared" ELSE NoInput],
               !["metadata"]   = [k \in Keys |-> IF k \in Named(one) THEN "shared" ELSE NoInput],
               !["tests"]      = [k \in Keys |-> IF k \in Named(two) THEN "tests" ELSE NoInput]]
          /\ sensitive' = sensitive \cup Sensitive(one \cup two)
          /\ incomplete' =
               IF cancelled THEN incomplete
               ELSE (IF one # all THEN {"production", "metadata"} ELSE {}) \cup
                    (IF two # all THEN {"tests"} ELSE {})
  /\ queue' = IF plan.invocation THEN <<"production", "tests", "plan">> ELSE <<"production", "tests">>
  /\ pc' = "list"
  /\ UNCHANGED <<cancelled, request, answer>>

Listing(set) ==
  CASE set = "production" -> ProductionList
    [] set = "tests" -> TestList
    [] set = "plan" -> PlanList

\* A mutant: the plan's set does not inherit the gaps of the metadata.
NoGaps(set) == {}

\* A set a plan invokes for starts from the metadata, gaps included.
InheritedGaps(set) == IF set = "plan" /\ "metadata" \in incomplete THEN {"plan"} ELSE {}

ListInputs ==
  /\ pc = "list"
  /\ queue # <<>>
  /\ LET set  == Head(queue)
         list == Listing(set)
         base == IF set = "plan" THEN inputs["metadata"] ELSE inputs[set]
     IN \E seen \in SUBSET All(list) :
          /\ object' = [object EXCEPT ![set] = Added(list, seen, @)]
          /\ inputs' = [inputs EXCEPT ![set] = [k \in Keys |-> IF k \in Named(seen) THEN set ELSE base[k]]]
          /\ sensitive' = sensitive \cup Sensitive(seen)
          /\ incomplete' =
               incomplete \cup InheritedGaps(set) \cup
               (IF seen # All(list) /\ ~cancelled THEN {set} ELSE {})
  /\ queue' = Tail(queue)
  /\ UNCHANGED <<pc, cancelled, request, answer>>

Holds(set) == {k \in Keys : inputs[set][k] # NoInput}
HasContent(set) == {k \in Holds(set) : k[2] \notin AtOnce}

AllListed ==
  /\ pc = "list"
  /\ queue = <<>>
  /\ queue' = <<"production", "tests", "metadata", "plan">>
  /\ pc' = "resolve"
  /\ UNCHANGED <<cancelled, request, found, answer>>

(***************************************************************************)
(* resolve: classify by every observation made, then hash.                 *)
(***************************************************************************)
\* A mutant: an input is as sensitive as the set's own observation of it.
OwnClass(set, k) == object[inputs[set][k]][k].sensitive \/ k[2] \in SecretNames

IsSensitive(set, k) ==
  \/ object[inputs[set][k]][k].sensitive
  \/ k[2] \in sensitive
  \/ k[2] \in SecretNames

\* A mutant: nobody looks at the context.
NeverAborted == FALSE

Aborted == cancelled

\* One set; the classification is complete by now, and no file of the set
\* depends on another, so the order of the map does not matter.
Resolve ==
  /\ pc = "resolve"
  /\ ~Aborted
  /\ LET set    == Head(queue)
         secret == {k \in HasContent(set) : IsSensitive(set, k)}
     IN \E failed \in SUBSET (HasContent(set) \ secret) :
          /\ object' = [o \in Origins |-> [k \in Keys |->
               IF inputs[set][k] # o \/ k[2] \in AtOnce \/ k \in failed THEN object[o][k]
               ELSE IF k \in secret THEN [sensitive |-> TRUE, identity |-> None]
               ELSE [sensitive |-> FALSE, identity |-> Hash]]]
          /\ incomplete' = incomplete \cup (IF failed # {} THEN {set} ELSE {})
  /\ queue' = Tail(queue)
  /\ pc' = IF Len(queue) = 1 THEN "assemble" ELSE pc
  /\ UNCHANGED <<cancelled, request, inputs, sensitive, answer>>

Abort ==
  /\ pc \in {"resolve", "assemble"}
  /\ Aborted
  /\ Answer(Error)

(***************************************************************************)
(* mergeInputContext: a supplied input resolves one that has no identity   *)
(* and is otherwise the same, may repeat one, and contradicts the others.  *)
(* A plan's inputs are added when they are new; the caller's are not.      *)
(***************************************************************************)
Supply(i) == [sensitive |-> i.sensitive, identity |-> i.identity]

\* A mutant: a supplied identity replaces the one observed.
MatchesAny(task, i) == task.inputs[i.key].sensitive = i.sensitive

Matches(task, i) ==
  task.inputs[i.key].identity = None /\ task.inputs[i.key].sensitive = i.sensitive

Applies(task, i, includeNew) == includeNew \/ i.key \in task.has

Contradiction(task, supplied, includeNew) ==
  \E i \in supplied :
    \/ i.key \in task.has /\ ~Matches(task, i) /\ task.inputs[i.key] # Supply(i)
    \/ \E j \in supplied : j # i /\ j.key = i.key /\ Applies(task, i, includeNew)

Merged(task, supplied, includeNew) ==
  LET applied == {i \in supplied : Applies(task, i, includeNew)}
  IN [has |-> task.has \cup {i.key : i \in applied},
      inputs |-> [k \in Keys |->
        IF \E i \in applied : i.key = k THEN Supply(CHOOSE i \in applied : i.key = k) ELSE task.inputs[k]],
      gaps |-> task.gaps,
      complete |-> task.complete]

(***************************************************************************)
(* The answer of a task: the set of its phase, or the plan's set with the  *)
(* plan's inputs; then the caller's context.                               *)
(***************************************************************************)
SetOf(task) ==
  IF plan.task = task THEN "plan"
  ELSE CASE task = "compile" -> "production" [] task = "test" -> "tests" [] OTHER -> "metadata"

Observed(task) ==
  LET set == SetOf(task)
      has == IF task = "sync" /\ set # "plan" THEN {} ELSE Holds(set)
  IN [has |-> has,
      inputs |-> [k \in Keys |-> IF k \in has THEN object[inputs[set][k]][k] ELSE Fresh],
      gaps |-> set \in incomplete,
      complete |-> plan.task = task /\ plan.complete /\ set \notin incomplete]

Planned(task) ==
  IF plan.task = task THEN Merged(Observed(task), plan.inputs, TRUE) ELSE Observed(task)

Conflict ==
  \E task \in Tasks :
    \/ plan.task = task /\ Contradiction(Observed(task), plan.inputs, TRUE)
    \/ Contradiction(Planned(task), given, FALSE)

\* The response as a whole is evaluated once more and may be refused.
Assemble ==
  /\ pc = "assemble"
  /\ ~Aborted
  /\ \/ Answer(Error)
     \/ /\ ~Conflict
        /\ Answer([status |-> "ok", tasks |-> [t \in Tasks |-> Merged(Planned(t), given, FALSE)]])

Next ==
  \/ Cancel \/ Decline \/ Refuse \/ Begin
  \/ CollectMetadata \/ ListInputs \/ AllListed
  \/ Resolve \/ Abort \/ Assemble

Spec == Init /\ [][Next]_vars

-----------------------------------------------------------------------------
TypeOK ==
  /\ pc \in {"request", "metadata", "list", "resolve", "assemble", "done"}
  /\ cancelled \in BOOLEAN
  /\ object \in [Origins -> [Keys -> Input]]
  /\ inputs \in [Sets -> [Keys -> Origins \cup {NoInput}]]
  /\ sensitive \subseteq Files \ AtOnce
  /\ incomplete \subseteq Sets
  /\ queue \in Seq(Sets)
  /\ answer.status \in {"none", "error", "ok"}

Answered == answer.status = "ok"

\* The content of a file anybody classified sensitive is never hashed, however
\* the file was reached: through a link of another kind, in the graph of another
\* task, or before the listing that classified it ("aliases cannot downgrade a
\* sensitive target", effective_inputs.go:485; EFFECTIVE_INPUTS.md:56-61).  And
\* nothing, link or file, carries a hash while it is called sensitive.
SecretsUnhashed ==
  /\ TypeOK
  /\ \A o \in Origins, k \in Keys : object[o][k].identity = Hash =>
       /\ ~object[o][k].sensitive
       /\ k[2] \notin SecretNames \cup sensitive

\* A task that calls itself complete has named everything its plan's invocation
\* consumes, and knows the identity of all of it that is not protected, modules
\* that come without a sum apart (nothing marks the set for one): no failed step, not even one of the metadata collected before the plan's own discovery,
\* leaves the assertion standing (EFFECTIVE_INPUTS.md:31-37).
CompleteIsObserved ==
  Answered => \A t \in Tasks : answer.tasks[t].complete =>
    /\ plan.task = t /\ plan.complete
    /\ plan.invocation => \A o \in All(MetadataList) \cup All(PlanList) :
         /\ o.key \in answer.tasks[t].has
         /\ answer.tasks[t].inputs[o.key].identity = None =>
              answer.tasks[t].inputs[o.key].sensitive \/ o.key[2] \in Unsummed

Consumed(set) ==
  All(MetadataList) \cup (CASE set = "metadata" -> {} [] OTHER -> All(Listing(set)))

\* No answer is silently short: where a task's set lacks a file, the task says
\* so, even if the request was cancelled and the walk stopped without a word
\* ("Collection, hashing and context merging honor cancellation",
\* EFFECTIVE_INPUTS.md:65-66).
GapsAreVisible ==
  Answered => \A t \in Tasks \ {"sync"} :
    \/ answer.tasks[t].gaps
    \/ plan.task = t /\ ~plan.invocation
    \/ \A o \in Consumed(SetOf(t)) : o.key \in answer.tasks[t].has

\* Nothing supplied replaces an identity that was observed: the caller's context
\* resolves what discovery left open and nothing else.
ObservedWins ==
  Answered => \A t \in Tasks : \A k \in answer.tasks[t].has :
    LET origin == inputs[SetOf(t)][k]
    IN (origin # NoInput /\ object[origin][k].identity = Hash) =>
         answer.tasks[t].inputs[k].identity = Hash
=============================================================================
