------------------------ MODULE EffectiveInputs_proofs ------------------------
(***************************************************************************)
(* Discovery over any files, links, listings, plans and supplied contexts, *)
(* whatever part of each listing is observed and wherever it is cancelled. *)
(***************************************************************************)
EXTENDS EffectiveInputs, TLAPS

ListQueues ==
  IF plan.invocation
    THEN {<<"production", "tests", "plan">>, <<"tests", "plan">>, <<"plan">>, <<>>}
    ELSE {<<"production", "tests">>, <<"tests">>, <<>>}
ResolveQueues ==
  {<<"production", "tests", "metadata", "plan">>, <<"tests", "metadata", "plan">>,
   <<"metadata", "plan">>, <<"plan">>}
Pending == All(queue)

Shape ==
  /\ TypeOK
  /\ plan \in Plans /\ given \in SUBSET Supplied
  /\ pc = "list" => queue \in ListQueues
  /\ pc = "resolve" => queue \in ResolveQueues
  /\ pc # "done" => answer = Unanswered

\* Only links and modules have an identity before everything is classified.
Unclassified == {"request", "metadata", "list"}
Hashing ==
  \A o \in Origins, k \in Keys : object[o][k].identity = Hash =>
    /\ ~object[o][k].sensitive
    /\ k[2] \in Identified \/ (pc \notin Unclassified /\ k[2] \notin SecretNames \cup sensitive)

LEMMA InputCases ==
  ASSUME NEW list, NEW seen, NEW k
  PROVE  /\ Noted(list, seen, k) \in Input
         /\ Noted(list, seen, k).identity = None => Noted(list, seen, k).sensitive \/ k[2] \notin Identified
         /\ Noted(list, seen, k).identity = Hash => ~Noted(list, seen, k).sensitive /\ k[2] \in Identified
<1>1. CASE LastIsSensitive(list, seen, k)
  <2>1. Noted(list, seen, k) = [sensitive |-> TRUE, identity |-> None]
    BY <1>1 DEF Noted
  <2> QED
    BY <2>1 DEF Input, Identities, None, Hash, Given
<1>2. CASE ~LastIsSensitive(list, seen, k) /\ k[2] \in Identified
  <2>1. Noted(list, seen, k) = [sensitive |-> FALSE, identity |-> Hash]
    BY <1>2 DEF Noted
  <2> QED
    BY <1>2, <2>1 DEF Input, Identities, None, Hash, Given
<1>3. CASE ~LastIsSensitive(list, seen, k) /\ k[2] \notin Identified
  <2>1. Noted(list, seen, k) = [sensitive |-> FALSE, identity |-> None]
    BY <1>3 DEF Noted
  <2> QED
    BY <1>3, <2>1 DEF Input, Identities, None, Hash, Given
<1> QED
  BY <1>1, <1>2, <1>3

LEMMA FreshIsInput == Fresh \in Input /\ Fresh.identity = None
BY DEF Fresh, Input, Identities, None

LEMMA AddedTypes ==
  ASSUME NEW list, NEW seen, NEW old \in [Keys -> Input]
  PROVE  Added(list, seen, old) \in [Keys -> Input]
BY InputCases DEF Added

\* Observations are of files.
LEMMA ListTypes ==
  /\ All(MetadataList) \subseteq Observation /\ All(PlanList) \subseteq Observation
  /\ All(ProductionList) \subseteq Observation /\ All(TestList) \subseteq Observation
<1>1. ASSUME NEW list \in Seq(Observation) PROVE All(list) \subseteq Observation
  BY DEF All
<1> QED
  BY <1>1, ListsAssumption

LEMMA ObservationTypes ==
  ASSUME NEW seen \in SUBSET Observation
  PROVE  Sensitive(seen) \subseteq Files \ AtOnce /\ Named(seen) \subseteq Keys
BY DEF Observation, Sensitive, Named, Keys

LEMMA QueueTypes == \A q \in ListQueues \cup ResolveQueues : q \in Seq(Sets)
<1>1. <<"production", "tests", "plan">> \in Seq(Sets)
  BY DEF Sets
<1>2. <<"tests", "plan">> \in Seq(Sets)
  BY DEF Sets
<1>3. <<"plan">> \in Seq(Sets)
  BY DEF Sets
<1>4. <<>> \in Seq(Sets)
  BY DEF Sets
<1>5. <<"production", "tests">> \in Seq(Sets)
  BY DEF Sets
<1>6. <<"tests">> \in Seq(Sets)
  BY DEF Sets
<1>7. <<"production", "tests", "metadata", "plan">> \in Seq(Sets)
  BY DEF Sets
<1>8. <<"tests", "metadata", "plan">> \in Seq(Sets)
  BY DEF Sets
<1>9. <<"metadata", "plan">> \in Seq(Sets)
  BY DEF Sets
<1> QED
  BY <1>1, <1>2, <1>3, <1>4, <1>5, <1>6, <1>7, <1>8, <1>9 DEF ListQueues, ResolveQueues

LEMMA Init1 == Init => Shape /\ Hashing
<1> SUFFICES ASSUME Init PROVE Shape /\ Hashing
  OBVIOUS
<1>1. object \in [Origins -> [Keys -> Input]]
  BY FreshIsInput DEF Init
<1>2. inputs \in [Sets -> [Keys -> Origins \cup {NoInput}]]
  BY DEF Init
<1>3. cancelled \in BOOLEAN
  BY Zenon DEF Init
<1>4. queue \in Seq(Sets)
  BY DEF Init
<1>5. answer = Unanswered /\ answer.status = "none"
  BY DEF Init, Unanswered
<1>6. pc = "request" /\ sensitive = {} /\ incomplete = {} /\ plan \in Plans /\ given \in SUBSET Supplied
  BY DEF Init
<1>7. TypeOK
  BY <1>1, <1>2, <1>3, <1>4, <1>5, <1>6 DEF TypeOK
<1>8. Hashing
  BY FreshIsInput DEF Init, Hashing, None, Hash
<1> QED
  BY <1>5, <1>6, <1>7, <1>8 DEF Shape

-----------------------------------------------------------------------------
(* The queues. *)

LEMMA Queued ==
  /\ All(<<"production", "tests", "plan">>) = {"production", "tests", "plan"}
  /\ All(<<"tests", "plan">>) = {"tests", "plan"}
  /\ All(<<"plan">>) = {"plan"}
  /\ All(<<>>) = {}
  /\ All(<<"production", "tests">>) = {"production", "tests"}
  /\ All(<<"tests">>) = {"tests"}
  /\ All(<<"production", "tests", "metadata", "plan">>) = Sets
  /\ All(<<"tests", "metadata", "plan">>) = {"tests", "metadata", "plan"}
  /\ All(<<"metadata", "plan">>) = {"metadata", "plan"}
<1>1. All(<<"production", "tests", "plan">>) = {"production", "tests", "plan"}
  BY DEF All
<1>2. All(<<"tests", "plan">>) = {"tests", "plan"}
  BY DEF All
<1>3. All(<<"plan">>) = {"plan"}
  BY DEF All
<1>4. All(<<>>) = {}
  BY DEF All
<1>5. All(<<"production", "tests">>) = {"production", "tests"}
  BY DEF All
<1>6. All(<<"tests">>) = {"tests"}
  BY DEF All
<1>7. All(<<"production", "tests", "metadata", "plan">>) = Sets
  BY DEF All, Sets
<1>8. All(<<"tests", "metadata", "plan">>) = {"tests", "metadata", "plan"}
  BY DEF All
<1>9. All(<<"metadata", "plan">>) = {"metadata", "plan"}
  BY DEF All
<1> QED
  BY <1>1, <1>2, <1>3, <1>4, <1>5, <1>6, <1>7, <1>8, <1>9

\* What is left once the head was served.
Served(first, rest) ==
  /\ first \in All(queue) /\ All(rest) = All(queue) \ {first}
  /\ Head(queue) = first /\ Tail(queue) = rest

LEMMA ListHead ==
  ASSUME queue \in ListQueues, queue # <<>>
  PROVE  /\ Served(Head(queue), Tail(queue)) /\ Tail(queue) \in ListQueues
         /\ Head(queue) \in {"production", "tests", "plan"}
         /\ Head(queue) = "plan" => plan.invocation
<1>1. CASE queue = <<"production", "tests", "plan">> /\ plan.invocation
  BY <1>1, Queued DEF Served, ListQueues
<1>2. CASE queue = <<"tests", "plan">> /\ plan.invocation
  BY <1>2, Queued DEF Served, ListQueues
<1>3. CASE queue = <<"plan">> /\ plan.invocation
  BY <1>3, Queued DEF Served, ListQueues
<1>4. CASE queue = <<"production", "tests">> /\ ~plan.invocation
  BY <1>4, Queued DEF Served, ListQueues
<1>5. CASE queue = <<"tests">> /\ ~plan.invocation
  BY <1>5, Queued DEF Served, ListQueues
<1> QED
  BY <1>1, <1>2, <1>3, <1>4, <1>5 DEF ListQueues

LEMMA ResolveHead ==
  ASSUME queue \in ResolveQueues
  PROVE  /\ Served(Head(queue), Tail(queue)) /\ Head(queue) \in Sets /\ Tail(queue) \in Seq(Sets)
         /\ Len(queue) = 1 => All(queue) = {Head(queue)}
         /\ Len(queue) # 1 => Tail(queue) \in ResolveQueues
<1>1. CASE queue = <<"production", "tests", "metadata", "plan">>
  BY <1>1, Queued, QueueTypes DEF Served, ResolveQueues, Sets
<1>2. CASE queue = <<"tests", "metadata", "plan">>
  BY <1>2, Queued, QueueTypes DEF Served, ResolveQueues, Sets
<1>3. CASE queue = <<"metadata", "plan">>
  BY <1>3, Queued, QueueTypes DEF Served, ResolveQueues, Sets
<1>4. CASE queue = <<"plan">>
  <2>1. Tail(queue) = <<>> /\ Head(queue) = "plan" /\ Len(queue) = 1
    BY <1>4
  <2> QED
    BY <1>4, <2>1, Queued DEF Served, Sets
<1> QED
  BY <1>1, <1>2, <1>3, <1>4 DEF ResolveQueues

-----------------------------------------------------------------------------
(* Types, and what may carry a hash. *)

Safe == Shape /\ Hashing

LEMMA CancelSafe == ASSUME Safe, Cancel PROVE Safe'
<1>1. cancelled' \in BOOLEAN
  BY Zenon DEF Cancel
<1>2. UNCHANGED <<pc, plan, given, object, inputs, sensitive, incomplete, queue, answer>>
  BY DEF Cancel, request, found
<1>3. TypeOK'
  BY <1>1, <1>2 DEF Safe, Shape, TypeOK
<1> QED
  BY <1>2, <1>3 DEF Safe, Shape, Hashing, ListQueues

\* An answer changes nothing but the answer.
LEMMA AnswerSafe ==
  ASSUME Safe, NEW a, a.status \in {"error", "ok"}, Answer(a)
  PROVE  Safe'
<1>1. /\ pc' = "done" /\ answer' = a
      /\ UNCHANGED <<cancelled, plan, given, object, inputs, sensitive, incomplete, queue>>
  BY DEF Answer, request, found
<1>2. TypeOK'
  BY <1>1 DEF Safe, Shape, TypeOK
<1> QED
  BY <1>1, <1>2 DEF Safe, Shape, Hashing, Unclassified

LEMMA ErrorSafe == ASSUME Safe, Answer(Error) PROVE Safe'
<1>1. Error.status = "error"
  BY DEF Error
<1> QED
  BY <1>1, AnswerSafe

LEMMA DeclareTypes == ASSUME Shape PROVE Declared \subseteq Files \ AtOnce
<1>1. given \cup plan.inputs \subseteq Supplies
  BY SuppliedAssumption DEF Shape, Plans
<1>2. \A i \in given \cup plan.inputs : i.key[2] \in Files
  BY <1>1 DEF Supplies, Keys
<1>3. \A file \in Files \ Libraries : End(file) \in Files \ AtOnce
  BY SuppliedAssumption DEF End, AtOnce
<1> QED
  BY <1>2, <1>3 DEF Declared

LEMMA BeginSafe == ASSUME Safe, Begin PROVE Safe'
<1>1. /\ pc = "request" /\ pc' = "metadata" /\ sensitive' \subseteq Files \ AtOnce
      /\ UNCHANGED <<cancelled, plan, given, object, inputs, incomplete, queue, answer>>
  BY DeclareTypes DEF Begin, request, Safe
<1>2. TypeOK'
  BY <1>1 DEF Safe, Shape, TypeOK
<1> QED
  BY <1>1, <1>2 DEF Safe, Shape, Hashing, Unclassified

\* Collecting and listing note what they see, and note nothing else.
NotedOrSame ==
  \A o \in Origins, k \in Keys :
    \/ object'[o][k] = object[o][k]
    \/ /\ object'[o][k].identity = Hash => ~object'[o][k].sensitive /\ k[2] \in Identified
       /\ object'[o][k].identity = None => object'[o][k].sensitive \/ k[2] \notin Identified

LEMMA ObservingHashes ==
  ASSUME Hashing, NotedOrSame, pc \in Unclassified
  PROVE  Hashing'
BY DEF Hashing, NotedOrSame, Unclassified

LEMMA AddedNotes ==
  ASSUME NEW list, NEW seen, NEW old, NEW k \in Keys
  PROVE  LET new == Added(list, seen, old)[k]
         IN \/ new = old[k] /\ k \notin Named(seen)
            \/ /\ k \in Named(seen)
               /\ new.identity = Hash => ~new.sensitive /\ k[2] \in Identified
               /\ new.identity = None => new.sensitive \/ k[2] \notin Identified
<1>1. CASE k \in Named(seen)
  <2>1. Added(list, seen, old)[k] = Noted(list, seen, k)
    BY <1>1 DEF Added
  <2> QED
    BY <1>1, <2>1, InputCases
<1>2. CASE k \notin Named(seen)
  BY <1>2 DEF Added
<1> QED
  BY <1>1, <1>2

\* What a walk saw: one for production, two for the tests.
CollectStep(one, two) ==
  /\ pc = "metadata" /\ pc' = "list"
  /\ object' = [object EXCEPT !["shared"] = Added(MetadataList, one, @),
                              !["tests"]  = Added(MetadataList, two, @)]
  /\ inputs' = [inputs EXCEPT
       !["production"] = [k \in Keys |-> IF k \in Named(one) THEN "shared" ELSE NoInput],
       !["metadata"]   = [k \in Keys |-> IF k \in Named(one) THEN "shared" ELSE NoInput],
       !["tests"]      = [k \in Keys |-> IF k \in Named(two) THEN "tests" ELSE NoInput]]
  /\ sensitive' = sensitive \cup Sensitive(one \cup two)
  /\ one # All(MetadataList) => cancelled \/ {"production", "metadata"} \subseteq incomplete'
  /\ two # All(MetadataList) => cancelled \/ "tests" \in incomplete'
  /\ incomplete' \subseteq Sets
  /\ queue' = IF plan.invocation THEN <<"production", "tests", "plan">> ELSE <<"production", "tests">>
  /\ UNCHANGED <<cancelled, plan, given, answer>>

LEMMA Collected ==
  ASSUME Shape, CollectMetadata
  PROVE  \E one, two \in SUBSET All(MetadataList) : CollectStep(one, two)
<1>1. PICK one, two \in SUBSET All(MetadataList) :
        /\ object' = [object EXCEPT !["shared"] = Added(MetadataList, one, @),
                                    !["tests"]  = Added(MetadataList, two, @)]
        /\ inputs' = [inputs EXCEPT
             !["production"] = [k \in Keys |-> IF k \in Named(one) THEN "shared" ELSE NoInput],
             !["metadata"]   = [k \in Keys |-> IF k \in Named(one) THEN "shared" ELSE NoInput],
             !["tests"]      = [k \in Keys |-> IF k \in Named(two) THEN "tests" ELSE NoInput]]
        /\ sensitive' = sensitive \cup Sensitive(one \cup two)
        /\ incomplete' =
             IF cancelled THEN incomplete
             ELSE (IF one # All(MetadataList) THEN {"production", "metadata"} ELSE {}) \cup
                  (IF two # All(MetadataList) THEN {"tests"} ELSE {})
  BY DEF CollectMetadata
<1>2. /\ pc = "metadata" /\ pc' = "list" /\ UNCHANGED <<cancelled, plan, given, answer>>
      /\ queue' = IF plan.invocation THEN <<"production", "tests", "plan">> ELSE <<"production", "tests">>
  BY DEF CollectMetadata, request
<1>3. incomplete' \subseteq Sets
  BY <1>1 DEF Shape, TypeOK, Sets
<1>4. /\ one # All(MetadataList) => cancelled \/ {"production", "metadata"} \subseteq incomplete'
      /\ two # All(MetadataList) => cancelled \/ "tests" \in incomplete'
  BY <1>1
<1> QED
  BY <1>1, <1>2, <1>3, <1>4 DEF CollectStep

LEMMA CollectSafe ==
  ASSUME Safe, NEW one \in SUBSET All(MetadataList), NEW two \in SUBSET All(MetadataList),
         CollectStep(one, two)
  PROVE  Safe' /\ NotedOrSame
<1>2. object \in [Origins -> [Keys -> Input]] /\ inputs \in [Sets -> [Keys -> Origins \cup {NoInput}]]
  BY DEF Safe, Shape, TypeOK
<1>3. object' \in [Origins -> [Keys -> Input]]
  BY <1>2, AddedTypes DEF Origins, CollectStep
<1>4. inputs' \in [Sets -> [Keys -> Origins \cup {NoInput}]]
  BY <1>2 DEF Origins, Sets, CollectStep
<1>5. sensitive' \subseteq Files \ AtOnce
  BY ListTypes, ObservationTypes DEF Safe, Shape, TypeOK, CollectStep
<1>6. queue' \in ListQueues /\ queue' \in ListQueues'
  BY DEF ListQueues, CollectStep
<1>7. queue' \in Seq(Sets)
  BY <1>6, QueueTypes
<1>8. TypeOK'
  BY <1>3, <1>4, <1>5, <1>7 DEF Safe, Shape, TypeOK, CollectStep
<1>9. NotedOrSame
  <2> SUFFICES ASSUME NEW o \in Origins, NEW k \in Keys
               PROVE  \/ object'[o][k] = object[o][k]
                      \/ /\ object'[o][k].identity = Hash => ~object'[o][k].sensitive /\ k[2] \in Identified
                         /\ object'[o][k].identity = None => object'[o][k].sensitive \/ k[2] \notin Identified
    BY DEF NotedOrSame
  <2>1. CASE o = "shared"
    <3>1. object'[o] = Added(MetadataList, one, object[o])
      BY <1>2, <2>1 DEF Origins, CollectStep
    <3> QED
      BY <3>1, AddedNotes
  <2>2. CASE o = "tests"
    <3>1. object'[o] = Added(MetadataList, two, object[o])
      BY <1>2, <2>2 DEF Origins, CollectStep
    <3> QED
      BY <3>1, AddedNotes
  <2>3. CASE o \notin {"shared", "tests"}
    BY <1>2, <2>3 DEF CollectStep
  <2> QED
    BY <2>1, <2>2, <2>3
<1>10. Hashing'
  BY <1>9, ObservingHashes DEF Safe, Unclassified, CollectStep
<1> QED
  BY <1>6, <1>8, <1>9, <1>10 DEF Safe, Shape, CollectStep

\* What a listing of one set saw.
ListStep(set, seen) ==
  /\ pc = "list" /\ Served(set, queue') /\ queue' \in ListQueues
  /\ object' = [object EXCEPT ![set] = Added(Listing(set), seen, @)]
  /\ inputs' = [inputs EXCEPT ![set] = [k \in Keys |->
       IF k \in Named(seen) THEN set
       ELSE IF set = "plan" THEN inputs["metadata"][k] ELSE inputs[set][k]]]
  /\ sensitive' = sensitive \cup Sensitive(seen)
  /\ incomplete' \subseteq Sets /\ incomplete \subseteq incomplete'
  /\ set = "plan" /\ "metadata" \in incomplete => "plan" \in incomplete'
  /\ seen # All(Listing(set)) => cancelled \/ set \in incomplete'
  /\ UNCHANGED <<pc, cancelled, plan, given, answer>>

LEMMA Listed ==
  ASSUME Shape, ListInputs
  PROVE  \E set \in {"production", "tests", "plan"} :
           \E seen \in SUBSET All(Listing(set)) : ListStep(set, seen)
<1> DEFINE set == Head(queue)
           base == IF set = "plan" THEN inputs["metadata"] ELSE inputs[set]
<1>1. pc = "list" /\ queue # <<>> /\ queue' = Tail(queue) /\ UNCHANGED <<pc, cancelled, plan, given, answer>>
  BY DEF ListInputs, request
<1>2. queue \in ListQueues
  BY <1>1 DEF Shape
<1>3. Served(set, queue') /\ queue' \in ListQueues /\ set \in {"production", "tests", "plan"}
  BY <1>1, <1>2, ListHead
<1>4. PICK seen \in SUBSET All(Listing(set)) :
        /\ object' = [object EXCEPT ![set] = Added(Listing(set), seen, @)]
        /\ inputs' = [inputs EXCEPT ![set] = [k \in Keys |-> IF k \in Named(seen) THEN set ELSE base[k]]]
        /\ sensitive' = sensitive \cup Sensitive(seen)
        /\ incomplete' =
             incomplete \cup InheritedGaps(set) \cup
             (IF seen # All(Listing(set)) /\ ~cancelled THEN {set} ELSE {})
  BY DEF ListInputs
<1>5. inputs' = [inputs EXCEPT ![set] = [k \in Keys |->
         IF k \in Named(seen) THEN set
         ELSE IF set = "plan" THEN inputs["metadata"][k] ELSE inputs[set][k]]]
  <2>1. [k \in Keys |-> IF k \in Named(seen) THEN set ELSE base[k]]
        = [k \in Keys |-> IF k \in Named(seen) THEN set
             ELSE IF set = "plan" THEN inputs["metadata"][k] ELSE inputs[set][k]]
    OBVIOUS
  <2> QED
    BY <1>4, <2>1
<1>6. incomplete' \subseteq Sets /\ incomplete \subseteq incomplete'
  BY <1>3, <1>4 DEF InheritedGaps, Sets, Shape, TypeOK
<1>7. set = "plan" /\ "metadata" \in incomplete => "plan" \in incomplete'
  BY <1>4 DEF InheritedGaps
<1>8. seen # All(Listing(set)) => cancelled \/ set \in incomplete'
  BY <1>4
<1>9. ListStep(set, seen)
  BY <1>1, <1>3, <1>4, <1>5, <1>6, <1>7, <1>8 DEF ListStep
<1> QED
  BY <1>3, <1>9

LEMMA ListSafe ==
  ASSUME Safe, NEW set \in {"production", "tests", "plan"}, NEW seen \in SUBSET All(Listing(set)),
         ListStep(set, seen)
  PROVE  Safe' /\ NotedOrSame
<1>1. object \in [Origins -> [Keys -> Input]] /\ inputs \in [Sets -> [Keys -> Origins \cup {NoInput}]]
  BY DEF Safe, Shape, TypeOK
<1>2. set \in Sets /\ set \in Origins
  BY DEF Sets, Origins
<1>3. object' \in [Origins -> [Keys -> Input]]
  BY <1>1, <1>2, AddedTypes DEF ListStep
<1>4. inputs' \in [Sets -> [Keys -> Origins \cup {NoInput}]]
  BY <1>1, <1>2 DEF ListStep, Sets
<1>5. seen \in SUBSET Observation
  BY ListTypes DEF Listing
<1>6. sensitive' \subseteq Files \ AtOnce
  BY <1>5, ObservationTypes DEF Safe, Shape, TypeOK, ListStep
<1>7. queue' \in Seq(Sets) /\ queue' \in ListQueues'
  BY QueueTypes DEF ListStep, ListQueues
<1>8. TypeOK'
  BY <1>3, <1>4, <1>6, <1>7 DEF Safe, Shape, TypeOK, ListStep
<1>9. NotedOrSame
  <2> SUFFICES ASSUME NEW o \in Origins, NEW k \in Keys
               PROVE  \/ object'[o][k] = object[o][k]
                      \/ /\ object'[o][k].identity = Hash => ~object'[o][k].sensitive /\ k[2] \in Identified
                         /\ object'[o][k].identity = None => object'[o][k].sensitive \/ k[2] \notin Identified
    BY DEF NotedOrSame
  <2>1. CASE o = set
    <3>1. object'[o] = Added(Listing(set), seen, object[o])
      BY <1>1, <2>1 DEF ListStep
    <3> QED
      BY <3>1, AddedNotes
  <2>2. CASE o # set
    BY <1>1, <2>2 DEF ListStep
  <2> QED
    BY <2>1, <2>2
<1>10. Hashing'
  BY <1>9, ObservingHashes DEF Safe, Unclassified, ListStep
<1> QED
  BY <1>7, <1>8, <1>9, <1>10 DEF Safe, Shape, ListStep

LEMMA AllListedSafe == ASSUME Safe, AllListed PROVE Safe'
<1>1. /\ pc = "list" /\ pc' = "resolve"
      /\ queue' = <<"production", "tests", "metadata", "plan">>
      /\ UNCHANGED <<cancelled, plan, given, object, inputs, sensitive, incomplete, answer>>
  BY DEF AllListed, request, found
<1>2. queue' \in ResolveQueues' /\ queue' \in Seq(Sets)
  BY <1>1, QueueTypes DEF ResolveQueues
<1>3. TypeOK'
  BY <1>1, <1>2 DEF Safe, Shape, TypeOK
<1>4. Hashing'
  BY <1>1 DEF Safe, Hashing, Unclassified
<1> QED
  BY <1>1, <1>2, <1>3, <1>4 DEF Safe, Shape

\* What resolving one set does.
Secret(set) == {k \in HasContent(set) : IsSensitive(set, k)}
Resolved(set, failed) ==
  [o \in Origins |-> [k \in Keys |->
     IF inputs[set][k] # o \/ k[2] \in AtOnce \/ k \in failed THEN object[o][k]
     ELSE IF k \in Secret(set) THEN [sensitive |-> TRUE, identity |-> None]
     ELSE [sensitive |-> FALSE, identity |-> Hash]]]
ResolveStep(set, failed) ==
  /\ pc = "resolve" /\ set \in Sets /\ Served(set, queue') /\ queue' \in Seq(Sets)
  /\ \/ pc' = "resolve" /\ queue' \in ResolveQueues
     \/ pc' = "assemble" /\ All(queue) = {set}
  /\ object' = Resolved(set, failed)
  /\ incomplete \subseteq incomplete' /\ incomplete' \subseteq Sets
  /\ failed # {} => set \in incomplete'
  /\ UNCHANGED <<cancelled, plan, given, inputs, sensitive, answer>>

LEMMA Resolving ==
  ASSUME Shape, Resolve
  PROVE  \E set \in Sets : \E failed \in SUBSET (HasContent(set) \ Secret(set)) : ResolveStep(set, failed)
<1> DEFINE set == Head(queue)
<1>1. /\ pc = "resolve" /\ queue' = Tail(queue) /\ pc' = IF Len(queue) = 1 THEN "assemble" ELSE pc
      /\ UNCHANGED <<cancelled, plan, given, inputs, sensitive, answer>>
  BY DEF Resolve, request
<1>2. queue \in ResolveQueues
  BY <1>1 DEF Shape
<1>3. PICK failed \in SUBSET (HasContent(set) \ Secret(set)) :
        /\ object' = Resolved(set, failed)
        /\ incomplete' = incomplete \cup (IF failed # {} THEN {set} ELSE {})
  BY DEF Resolve, Secret, Resolved
<1>4. set \in Sets /\ Served(set, queue') /\ queue' \in Seq(Sets)
  BY <1>1, <1>2, ResolveHead
<1>5. \/ pc' = "resolve" /\ queue' \in ResolveQueues
      \/ pc' = "assemble" /\ All(queue) = {set}
  BY <1>1, <1>2, ResolveHead
<1>6. incomplete \subseteq incomplete' /\ incomplete' \subseteq Sets /\ (failed # {} => set \in incomplete')
  BY <1>3, <1>4 DEF Shape, TypeOK
<1>7. ResolveStep(set, failed)
  BY <1>1, <1>3, <1>4, <1>5, <1>6 DEF ResolveStep
<1> QED
  BY <1>4, <1>7

LEMMA ResolveCases ==
  ASSUME NEW set, NEW failed, NEW o \in Origins, NEW k \in Keys, object' = Resolved(set, failed)
  PROVE  \/ object'[o][k] = object[o][k] /\ (inputs[set][k] # o \/ k[2] \in AtOnce \/ k \in failed)
         \/ /\ k \in Secret(set)
            /\ object'[o][k] = [sensitive |-> TRUE, identity |-> None]
         \/ /\ inputs[set][k] = o /\ k \notin Secret(set) /\ k[2] \notin AtOnce
            /\ object'[o][k] = [sensitive |-> FALSE, identity |-> Hash]
BY DEF Resolved

LEMMA ResolveSafe ==
  ASSUME Safe, NEW set, NEW failed, ResolveStep(set, failed)
  PROVE  Safe'
<1>1. object \in [Origins -> [Keys -> Input]]
  BY DEF Safe, Shape, TypeOK
<1>2. object' \in [Origins -> [Keys -> Input]]
  <2>1. /\ [sensitive |-> TRUE, identity |-> None] \in Input
        /\ [sensitive |-> FALSE, identity |-> Hash] \in Input
    BY DEF Input, Identities
  <2> QED
    BY <1>1, <2>1 DEF ResolveStep, Resolved
<1>3. TypeOK'
  BY <1>2 DEF Safe, Shape, TypeOK, ResolveStep
<1>4. Hashing'
  <2> SUFFICES ASSUME NEW o \in Origins, NEW k \in Keys, object'[o][k].identity = Hash
               PROVE  /\ ~object'[o][k].sensitive
                      /\ k[2] \in Identified \/ (pc' \notin Unclassified /\ k[2] \notin SecretNames \cup sensitive)
    BY DEF Hashing, ResolveStep
  <2>1. pc \notin Unclassified /\ pc' \notin Unclassified
    BY DEF ResolveStep, Unclassified
  <2>2. CASE object'[o][k] = object[o][k]
    BY <2>1, <2>2 DEF Safe, Hashing
  <2>3. CASE object'[o][k] = [sensitive |-> TRUE, identity |-> None]
    BY <2>3 DEF None, Hash
  <2>4. CASE /\ inputs[set][k] = o /\ k \notin Secret(set) /\ k[2] \notin AtOnce
             /\ object'[o][k] = [sensitive |-> FALSE, identity |-> Hash]
    <3>1. NoInput \notin Origins
      BY DEF NoInput, Origins, Sets
    <3>2. k \in HasContent(set)
      BY <2>4, <3>1 DEF HasContent, Holds
    <3>3. ~IsSensitive(set, k)
      BY <2>4, <3>2 DEF Secret
    <3> QED
      BY <2>1, <2>4, <3>3 DEF IsSensitive
  <2> QED
    <3>1. object' = Resolved(set, failed)
      BY DEF ResolveStep
    <3>2. \/ object'[o][k] = object[o][k]
          \/ object'[o][k] = [sensitive |-> TRUE, identity |-> None]
          \/ /\ inputs[set][k] = o /\ k \notin Secret(set) /\ k[2] \notin AtOnce
             /\ object'[o][k] = [sensitive |-> FALSE, identity |-> Hash]
      BY <3>1, ResolveCases
    <3> QED
      BY <2>2, <2>3, <2>4, <3>2
<1>5. (pc' = "list" => queue' \in ListQueues') /\ (pc' = "resolve" => queue' \in ResolveQueues')
  BY DEF ResolveStep, ResolveQueues
<1> QED
  BY <1>3, <1>4, <1>5 DEF Safe, Shape, ResolveStep

LEMMA AssembleSafe == ASSUME Safe, Assemble PROVE Safe'
<1>1. CASE Answer(Error)
  BY <1>1, ErrorSafe
<1>2. CASE Answer([status |-> "ok", tasks |-> [t \in Tasks |-> Merged(Planned(t), given, FALSE)]])
  <2>1. [status |-> "ok", tasks |-> [t \in Tasks |-> Merged(Planned(t), given, FALSE)]].status = "ok"
    OBVIOUS
  <2> QED
    BY <1>2, <2>1, AnswerSafe
<1> QED
  BY <1>1, <1>2 DEF Assemble

LEMMA DeclineSafe == ASSUME Safe, Decline PROVE Safe'
<1>1. [status |-> "ok", tasks |-> [t \in Tasks |-> Declined]].status = "ok"
  OBVIOUS
<1> QED
  BY <1>1, AnswerSafe DEF Decline

LEMMA SafeStep == ASSUME Safe, [Next]_vars PROVE Safe'
<1>1. CASE Cancel
  BY <1>1, CancelSafe
<1>2. CASE Decline
  BY <1>2, DeclineSafe
<1>3. CASE Refuse
  BY <1>3, ErrorSafe DEF Refuse
<1>4. CASE Begin
  BY <1>4, BeginSafe
<1>5. CASE CollectMetadata
  BY <1>5, Collected, CollectSafe DEF Safe
<1>6. CASE ListInputs
  BY <1>6, Listed, ListSafe DEF Safe
<1>7. CASE AllListed
  BY <1>7, AllListedSafe
<1>8. CASE Resolve
  BY <1>8, Resolving, ResolveSafe DEF Safe
<1>9. CASE Abort
  BY <1>9, ErrorSafe DEF Abort
<1>10. CASE Assemble
  BY <1>10, AssembleSafe
<1>11. CASE UNCHANGED vars
  <2>1. UNCHANGED <<pc, cancelled, plan, given, object, inputs, sensitive, incomplete, queue, answer>>
    BY <1>11 DEF vars, request, found
  <2>2. TypeOK'
    BY <2>1 DEF Safe, Shape, TypeOK
  <2> QED
    BY <2>1, <2>2 DEF Safe, Shape, Hashing, ListQueues, ResolveQueues
<1> QED
  BY <1>1, <1>2, <1>3, <1>4, <1>5, <1>6, <1>7, <1>8, <1>9, <1>10, <1>11 DEF Next

\* No hash beside the sensitive label, and no hash of the content of a file that
\* anybody classified, or whose name does, for any listings and any links.
THEOREM SecretsStayUnhashed == Spec => []SecretsUnhashed
<1>1. Init => Safe
  BY Init1 DEF Safe
<1>2. Safe => SecretsUnhashed
  <2> SUFFICES ASSUME Safe, NEW o \in Origins, NEW k \in Keys, object[o][k].identity = Hash
               PROVE  ~object[o][k].sensitive /\ k[2] \notin SecretNames \cup sensitive
    BY DEF Safe, Shape, SecretsUnhashed
  <2>1. sensitive \cap Identified = {} /\ SecretNames \cap Identified = {}
    BY SuppliedAssumption DEF Safe, Shape, TypeOK, Identified
  <2> QED
    BY <2>1 DEF Safe, Hashing
<1> QED
  BY <1>1, <1>2, SafeStep, PTL DEF Spec

-----------------------------------------------------------------------------
(* What a set knows of what it holds. *)

\* A link or a module with a sum that a set holds was noted, so its identity is
\* known unless it is sensitive.
HeldLinks ==
  \A set \in Sets, k \in Keys :
    inputs[set][k] # NoInput /\ k[2] \in Identified
      => LET i == object[inputs[set][k]][k] IN i.identity = None => i.sensitive

\* So is the content a set holds, once the set is resolved, or the set says so.
IsResolved(set) == pc = "assemble" \/ (pc = "resolve" /\ set \notin Pending)
ResolvedSets ==
  \A set \in Sets : IsResolved(set) /\ set \notin incomplete =>
    \A k \in HasContent(set) :
      LET i == object[inputs[set][k]][k] IN i.identity = None => i.sensitive

\* A set holds all of a list, or says so, or the request is cancelled.
Covers(set, list) ==
  \/ cancelled
  \/ set \in incomplete
  \/ \A o \in All(list) : o.key \in Keys /\ inputs[set][o.key] # NoInput
HasListed(set) == pc # "list" \/ set \notin Pending
Coverage ==
  pc \in {"list", "resolve", "assemble"} =>
    /\ \A set \in {"production", "tests", "metadata"} : Covers(set, MetadataList)
    /\ \A set \in {"production", "tests"} : HasListed(set) => Covers(set, Listing(set))
    /\ plan.invocation /\ HasListed("plan") =>
         Covers("plan", MetadataList) /\ Covers("plan", PlanList)

Known == HeldLinks /\ ResolvedSets /\ Coverage

\* An input is held where it was before, or just noted.
HeldOrNoted ==
  \A set \in Sets, k \in Keys :
    LET o == inputs'[set][k]
    IN o # NoInput =>
         \/ \E s \in Sets : inputs[s][k] = o
         \/ object'[o][k].identity = None => object'[o][k].sensitive \/ k[2] \notin Identified

LEMMA ObservingLinks ==
  ASSUME Safe, Safe', HeldLinks, NotedOrSame, HeldOrNoted
  PROVE  HeldLinks'
<1> SUFFICES ASSUME NEW set \in Sets, NEW k \in Keys, inputs'[set][k] # NoInput, k[2] \in Identified
             PROVE  LET i == object'[inputs'[set][k]][k] IN i.identity = None => i.sensitive
  BY DEF HeldLinks
<1> DEFINE o == inputs'[set][k]
<1>1. o \in Origins
  BY DEF Safe, Shape, TypeOK
<1>2. CASE object'[o][k].identity = None => object'[o][k].sensitive \/ k[2] \notin Identified
  BY <1>2
<1>3. CASE object'[o][k] = object[o][k] /\ \E s \in Sets : inputs[s][k] = o
  BY <1>3 DEF HeldLinks
<1> QED
  BY <1>1, <1>2, <1>3 DEF NotedOrSame, HeldOrNoted

LEMMA CollectKnows ==
  ASSUME Safe, Known, NEW one \in SUBSET All(MetadataList), NEW two \in SUBSET All(MetadataList),
         CollectStep(one, two)
  PROVE  Known'
<1>1. Safe' /\ NotedOrSame
  BY CollectSafe
<1>2. object \in [Origins -> [Keys -> Input]] /\ inputs \in [Sets -> [Keys -> Origins \cup {NoInput}]]
  BY DEF Safe, Shape, TypeOK
<1>3. /\ inputs'["production"] = [k \in Keys |-> IF k \in Named(one) THEN "shared" ELSE NoInput]
      /\ inputs'["metadata"] = [k \in Keys |-> IF k \in Named(one) THEN "shared" ELSE NoInput]
      /\ inputs'["tests"] = [k \in Keys |-> IF k \in Named(two) THEN "tests" ELSE NoInput]
      /\ inputs'["plan"] = inputs["plan"]
  BY <1>2 DEF CollectStep, Sets
<1>4. /\ object'["shared"] = Added(MetadataList, one, object["shared"])
      /\ object'["tests"] = Added(MetadataList, two, object["tests"])
  BY <1>2 DEF CollectStep, Origins, Sets
<1>5. HeldOrNoted
  <2> SUFFICES ASSUME NEW set \in Sets, NEW k \in Keys, inputs'[set][k] # NoInput
               PROVE  LET o == inputs'[set][k]
                      IN \/ \E s \in Sets : inputs[s][k] = o
                         \/ object'[o][k].identity = None => object'[o][k].sensitive \/ k[2] \notin Identified
    BY DEF HeldOrNoted
  <2>1. CASE set \in {"production", "metadata"}
    <3>1. k \in Named(one) /\ inputs'[set][k] = "shared"
      BY <1>3, <2>1
    <3> QED
      BY <1>4, <3>1, AddedNotes
  <2>2. CASE set = "tests"
    <3>1. k \in Named(two) /\ inputs'[set][k] = "tests"
      BY <1>3, <2>2
    <3> QED
      BY <1>4, <3>1, AddedNotes
  <2>3. CASE set = "plan"
    BY <1>3, <2>3
  <2> QED
    BY <2>1, <2>2, <2>3 DEF Sets
<1>6. HeldLinks'
  BY <1>1, <1>5, ObservingLinks DEF Known
<1>7. ResolvedSets'
  BY DEF CollectStep, ResolvedSets, IsResolved
<1>8. Coverage'
  <2>1. ASSUME NEW seen \in SUBSET All(MetadataList), NEW o \in All(MetadataList), seen = All(MetadataList)
        PROVE  o.key \in Keys /\ o.key \in Named(seen)
    BY <2>1, ListTypes DEF Observation, Named
  <2>2. NoInput # "shared" /\ NoInput # "tests"
    BY DEF NoInput
  <2>3. Covers("production", MetadataList)' /\ Covers("metadata", MetadataList)'
    <3>1. CASE one = All(MetadataList)
      BY <1>3, <2>1, <2>2, <3>1 DEF Covers
    <3>2. CASE one # All(MetadataList)
      BY <3>2 DEF Covers, CollectStep
    <3> QED
      BY <3>1, <3>2
  <2>4. Covers("tests", MetadataList)'
    <3>1. CASE two = All(MetadataList)
      BY <1>3, <2>1, <2>2, <3>1 DEF Covers
    <3>2. CASE two # All(MetadataList)
      BY <3>2 DEF Covers, CollectStep
    <3> QED
      BY <3>1, <3>2
  <2>5. ~HasListed("production")' /\ ~HasListed("tests")' /\ (plan'.invocation => ~HasListed("plan")')
    BY Queued DEF CollectStep, HasListed, Pending
  <2> QED
    BY <2>3, <2>4, <2>5 DEF Coverage
<1> QED
  BY <1>6, <1>7, <1>8 DEF Known

LEMMA ListKnows ==
  ASSUME Safe, Known, NEW set \in {"production", "tests", "plan"}, NEW seen \in SUBSET All(Listing(set)),
         ListStep(set, seen)
  PROVE  Known'
<1>1. Safe' /\ NotedOrSame
  BY ListSafe
<1>2. /\ object \in [Origins -> [Keys -> Input]] /\ inputs \in [Sets -> [Keys -> Origins \cup {NoInput}]]
      /\ set \in Sets /\ set \in Origins /\ set # NoInput /\ set # "metadata"
  BY DEF Safe, Shape, TypeOK, Sets, Origins, NoInput
<1>3. \A k \in Keys : inputs'[set][k] =
        IF k \in Named(seen) THEN set ELSE IF set = "plan" THEN inputs["metadata"][k] ELSE inputs[set][k]
  BY <1>2 DEF ListStep
<1>4. \A s \in Sets \ {set} : inputs'[s] = inputs[s]
  BY <1>2 DEF ListStep
<1>5. object'[set] = Added(Listing(set), seen, object[set])
  BY <1>2 DEF ListStep
<1>6. HeldOrNoted
  <2> SUFFICES ASSUME NEW s \in Sets, NEW k \in Keys, inputs'[s][k] # NoInput
               PROVE  LET o == inputs'[s][k]
                      IN \/ \E r \in Sets : inputs[r][k] = o
                         \/ object'[o][k].identity = None => object'[o][k].sensitive \/ k[2] \notin Identified
    BY DEF HeldOrNoted
  <2>1. CASE s # set
    BY <1>4, <2>1
  <2>2. CASE s = set /\ k \in Named(seen)
    <3>1. inputs'[s][k] = set
      BY <1>3, <2>2
    <3> QED
      BY <1>5, <2>2, <3>1, AddedNotes
  <2>3. CASE s = set /\ k \notin Named(seen)
    <3>1. "metadata" \in Sets
      BY DEF Sets
    <3> QED
      BY <1>3, <2>3, <3>1
  <2> QED
    BY <2>1, <2>2, <2>3
<1>7. HeldLinks'
  BY <1>1, <1>6, ObservingLinks DEF Known
<1>8. ResolvedSets'
  BY DEF ListStep, ResolvedSets, IsResolved
<1>9. /\ pc = "list" /\ pc' = "list" /\ cancelled' = cancelled /\ plan' = plan /\ incomplete \subseteq incomplete'
      /\ Pending' = Pending \ {set} /\ set \in Pending
  BY DEF ListStep, Served, Pending
<1>10. ASSUME NEW s \in Sets, NEW list, Covers(s, list), s # "plan" \/ s # set
       PROVE  Covers(s, list)'
  <2>1. \A k \in Keys : inputs[s][k] # NoInput => inputs'[s][k] # NoInput
    BY <1>2, <1>3, <1>4, <1>10
  <2> QED
    BY <1>9, <1>10, <2>1 DEF Covers
<1>11. Covers(set, Listing(set))'
  <2>1. CASE seen = All(Listing(set))
    <3>1. \A o \in All(Listing(set)) : o.key \in Keys /\ o.key \in Named(seen)
      BY <2>1, ListTypes DEF Listing, Observation, Named
    <3> QED
      BY <1>2, <1>3, <3>1 DEF Covers
  <2>2. CASE seen # All(Listing(set))
    BY <1>9, <2>2 DEF Covers, ListStep
  <2> QED
    BY <2>1, <2>2
<1>12. \A s \in {"production", "tests", "metadata"} : Covers(s, MetadataList)
  BY <1>9 DEF Known, Coverage
<1>13. set = "plan" => Covers("plan", MetadataList)'
  <2> SUFFICES ASSUME set = "plan" PROVE Covers("plan", MetadataList)'
    OBVIOUS
  <2>1. Covers("metadata", MetadataList)
    BY <1>12
  <2>2. CASE cancelled
    BY <1>9, <2>2 DEF Covers
  <2>3. CASE "metadata" \in incomplete
    BY <2>3 DEF Covers, ListStep
  <2>4. CASE \A o \in All(MetadataList) : o.key \in Keys /\ inputs["metadata"][o.key] # NoInput
    BY <1>2, <1>3, <2>4 DEF Covers
  <2> QED
    BY <2>1, <2>2, <2>3, <2>4 DEF Covers
<1>14. \A s \in {"production", "tests", "metadata"} : Covers(s, MetadataList)'
  BY <1>10, <1>12 DEF Sets
<1>15. ASSUME NEW s \in {"production", "tests"}, HasListed(s)' PROVE Covers(s, Listing(s))'
  <2>1. CASE s = set
    BY <1>11, <2>1
  <2>2. CASE s # set
    <3>1. HasListed(s)
      BY <1>9, <1>15, <2>2 DEF HasListed
    <3>2. Covers(s, Listing(s))
      BY <1>9, <3>1 DEF Known, Coverage
    <3>3. Covers(s, Listing(s))'
      <4> DEFINE list == Listing(s)
      <4> HIDE DEF list
      <4>1. Covers(s, list) => Covers(s, list)'
        <5>1. s \in Sets /\ s # "plan"
          BY DEF Sets
        <5>2. \A k \in Keys : inputs[s][k] # NoInput => inputs'[s][k] # NoInput
          BY <1>4, <2>2, <5>1
        <5> QED
          BY <1>9, <5>2 DEF Covers, list, Listing
      <4> QED
        BY <3>2, <4>1 DEF list
    <3> QED
      BY <3>3
  <2> QED
    BY <2>1, <2>2
<1>16. ASSUME plan'.invocation, HasListed("plan")'
       PROVE  Covers("plan", MetadataList)' /\ Covers("plan", PlanList)'
  <2>1. CASE set = "plan"
    BY <1>11, <1>13, <2>1 DEF Listing
  <2>2. CASE set # "plan"
    <3>1. HasListed("plan") /\ plan.invocation
      BY <1>9, <1>16, <2>2 DEF HasListed
    <3>2. Covers("plan", MetadataList) /\ Covers("plan", PlanList)
      BY <1>9, <3>1 DEF Known, Coverage
    <3> QED
      BY <1>10, <2>2, <3>2 DEF Sets
  <2> QED
    BY <2>1, <2>2
<1>17. Coverage'
  BY <1>14, <1>15, <1>16 DEF Coverage
<1> QED
  BY <1>7, <1>8, <1>17 DEF Known

LEMMA ResolveKnows ==
  ASSUME Safe, Known, NEW set \in Sets, NEW failed \in SUBSET (HasContent(set) \ Secret(set)),
         ResolveStep(set, failed)
  PROVE  Known'
<1>1. /\ pc = "resolve" /\ inputs' = inputs /\ cancelled' = cancelled /\ plan' = plan
      /\ pc' \in {"resolve", "assemble"} /\ incomplete \subseteq incomplete'
  BY DEF ResolveStep
<1>2. inputs \in [Sets -> [Keys -> Origins \cup {NoInput}]]
  BY DEF Safe, Shape, TypeOK
\* A step leaves an input as it was, or knows or protects it.
<1>3. ASSUME NEW s \in Sets, NEW k \in Keys, inputs[s][k] # NoInput
      PROVE  LET o == inputs[s][k]
             IN \/ object'[o][k] = object[o][k] /\ (s = set => k[2] \in AtOnce \/ k \in failed)
                \/ object'[o][k].identity = None => object'[o][k].sensitive
  <2> DEFINE o == inputs[s][k]
  <2>1. o \in Origins
    BY <1>2, <1>3
  <2>2. CASE object'[o][k] = object[o][k] /\ (inputs[set][k] # o \/ k[2] \in AtOnce \/ k \in failed)
    BY <2>2
  <2>3. CASE object'[o][k] = [sensitive |-> TRUE, identity |-> None]
    BY <2>3
  <2>4. CASE object'[o][k] = [sensitive |-> FALSE, identity |-> Hash]
    BY <2>4 DEF None, Hash
  <2>5. \/ object'[o][k] = object[o][k] /\ (inputs[set][k] # o \/ k[2] \in AtOnce \/ k \in failed)
        \/ object'[o][k] = [sensitive |-> TRUE, identity |-> None]
        \/ object'[o][k] = [sensitive |-> FALSE, identity |-> Hash]
    <3>1. object' = Resolved(set, failed)
      BY DEF ResolveStep
    <3> QED
      BY <2>1, <3>1 DEF Resolved
  <2> QED
    BY <2>2, <2>3, <2>4, <2>5
<1>4. HeldLinks'
  BY <1>1, <1>3 DEF Known, HeldLinks
<1>5. ResolvedSets'
  <2> SUFFICES ASSUME NEW s \in Sets, IsResolved(s)', s \notin incomplete', NEW k \in HasContent(s)'
               PROVE  LET i == object'[inputs'[s][k]][k] IN i.identity = None => i.sensitive
    BY DEF ResolvedSets
  <2>1. k \in Keys /\ inputs[s][k] # NoInput /\ k[2] \notin AtOnce /\ k \in HasContent(s)
    BY <1>1 DEF HasContent, Holds
  <2>2. CASE s = set
    <3>1. failed = {}
      BY <2>2 DEF ResolveStep
    <3> QED
      BY <1>1, <1>3, <2>1, <2>2, <3>1
  <2>3. CASE s # set
    <3>1. s \notin Pending
      BY <2>3 DEF ResolveStep, IsResolved, Served, Pending
    <3>2. IsResolved(s) /\ s \notin incomplete
      BY <1>1, <3>1 DEF IsResolved
    <3>3. LET i == object[inputs[s][k]][k] IN i.identity = None => i.sensitive
      BY <2>1, <3>2 DEF Known, ResolvedSets
    <3> QED
      BY <1>1, <1>3, <2>1, <3>3
  <2> QED
    BY <2>2, <2>3
<1>6. Coverage'
  <2>1. ASSUME NEW s, NEW list, Covers(s, list) PROVE Covers(s, list)'
    BY <1>1, <2>1 DEF Covers
  <2>2. HasListed("production") /\ HasListed("tests") /\ HasListed("plan")
    BY <1>1 DEF HasListed
  <2>3. /\ \A s \in {"production", "tests", "metadata"} : Covers(s, MetadataList)
        /\ Covers("production", ProductionList) /\ Covers("tests", TestList)
        /\ plan.invocation => Covers("plan", MetadataList) /\ Covers("plan", PlanList)
    BY <1>1, <2>2 DEF Known, Coverage, Listing
  <2>4. /\ \A s \in {"production", "tests", "metadata"} : Covers(s, MetadataList)'
        /\ Covers("production", ProductionList)' /\ Covers("tests", TestList)'
        /\ plan'.invocation => Covers("plan", MetadataList)' /\ Covers("plan", PlanList)'
    BY <1>1, <2>1, <2>3
  <2> QED
    BY <2>4 DEF Coverage, Listing
<1> QED
  BY <1>4, <1>5, <1>6 DEF Known

\* A step that observes and resolves nothing.
LEMMA IdleKnows ==
  ASSUME Known, UNCHANGED <<plan, object, inputs, incomplete>>,
         cancelled => cancelled',
         \/ UNCHANGED <<pc, queue>>
         \/ pc' \in {"metadata", "done"}
         \/ pc = "list" /\ pc' = "resolve" /\ queue = <<>> /\ All(queue') = Sets
  PROVE  Known'
<1>1. HeldLinks'
  BY DEF Known, HeldLinks
<1>2. ResolvedSets'
  <2> SUFFICES ASSUME NEW set \in Sets, IsResolved(set)' PROVE IsResolved(set)
    BY DEF Known, ResolvedSets, HasContent, Holds
  <2> QED
    BY DEF IsResolved, Pending
<1>3. Coverage'
  <2>1. ASSUME NEW s, NEW list, Covers(s, list) PROVE Covers(s, list)'
    BY <2>1 DEF Covers
  <2>2. ASSUME NEW s, HasListed(s)', pc' \in {"list", "resolve", "assemble"} PROVE HasListed(s)
    BY <2>2, Queued DEF HasListed, Pending
  <2> SUFFICES ASSUME pc' \in {"list", "resolve", "assemble"} PROVE Coverage'
    BY DEF Coverage
  <2>3. pc \in {"list", "resolve", "assemble"}
    OBVIOUS
  <2>4. \A s \in {"production", "tests", "metadata"} : Covers(s, MetadataList)'
    BY <2>1, <2>3 DEF Known, Coverage
  <2>5. HasListed("production")' => Covers("production", ProductionList)'
    BY <2>1, <2>2, <2>3 DEF Known, Coverage, Listing
  <2>6. HasListed("tests")' => Covers("tests", TestList)'
    BY <2>1, <2>2, <2>3 DEF Known, Coverage, Listing
  <2>7. plan'.invocation /\ HasListed("plan")' => Covers("plan", MetadataList)' /\ Covers("plan", PlanList)'
    BY <2>1, <2>2, <2>3 DEF Known, Coverage
  <2> QED
    BY <2>4, <2>5, <2>6, <2>7 DEF Coverage, Listing
<1> QED
  BY <1>1, <1>2, <1>3 DEF Known

LEMMA InitKnows == Init => Known
<1> SUFFICES ASSUME Init PROVE Known
  OBVIOUS
<1>1. pc = "request" /\ \A set \in Sets, k \in Keys : inputs[set][k] = NoInput
  BY DEF Init
<1> QED
  BY <1>1 DEF Known, HeldLinks, ResolvedSets, IsResolved, Coverage

LEMMA KnownStep == ASSUME Safe, Known, [Next]_vars PROVE Known'
<1> USE DEF request, found
<1>1. CASE Cancel
  BY <1>1, IdleKnows DEF Cancel
<1>2. ASSUME NEW a, Answer(a) PROVE Known'
  BY <1>2, IdleKnows DEF Answer
<1>3. CASE Decline \/ Refuse \/ Abort \/ Assemble
  BY <1>2, <1>3 DEF Decline, Refuse, Abort, Assemble
<1>4. CASE Begin
  BY <1>4, IdleKnows DEF Begin
<1>5. CASE CollectMetadata
  BY <1>5, Collected, CollectKnows DEF Safe
<1>6. CASE ListInputs
  BY <1>6, Listed, ListKnows DEF Safe
<1>7. CASE AllListed
  <2>1. All(queue') = Sets
    BY <1>7, Queued DEF AllListed
  <2> QED
    BY <1>7, <2>1, IdleKnows DEF AllListed
<1>8. CASE Resolve
  BY <1>8, Resolving, ResolveKnows DEF Safe
<1>9. CASE UNCHANGED vars
  BY <1>9, IdleKnows DEF vars
<1> QED
  BY <1>1, <1>3, <1>4, <1>5, <1>6, <1>7, <1>8, <1>9 DEF Next

-----------------------------------------------------------------------------
(* The answer. *)

Results == CompleteIsObserved /\ GapsAreVisible /\ ObservedWins

\* What the answer to one task must be, from what its set holds.
Fits(t, a) ==
  /\ a.complete =>
       /\ plan.task = t /\ plan.complete
       /\ plan.invocation => \A o \in All(MetadataList) \cup All(PlanList) :
            o.key \in a.has /\ (a.inputs[o.key].identity = None => a.inputs[o.key].sensitive \/ o.key[2] \in Unsummed)
  /\ \/ t = "sync" \/ a.gaps
     \/ plan.task = t /\ ~plan.invocation
     \/ \A o \in Consumed(SetOf(t)) : o.key \in a.has
  /\ \A k \in a.has :
       LET origin == inputs[SetOf(t)][k]
       IN (origin # NoInput /\ object[origin][k].identity = Hash) => a.inputs[k].identity = Hash

LEMMA SetsOfTasks == ASSUME NEW t \in Tasks PROVE SetOf(t) \in Sets
BY DEF Tasks, SetOf, Sets

\* A task whose set was resolved in full, before anything is supplied.
LEMMA ObservedFits ==
  ASSUME Safe, Known, pc = "assemble", ~cancelled, NEW t \in Tasks
  PROVE  /\ Fits(t, Observed(t))
         /\ Observed(t).has \subseteq Keys
         /\ plan.task = t => \A k \in Keys : inputs[SetOf(t)][k] # NoInput => k \in Observed(t).has
<1> DEFINE set == SetOf(t)
           a == Observed(t)
           has == IF t = "sync" /\ set # "plan" THEN {} ELSE Holds(set)
<1>1. /\ a.has = has /\ a.gaps = (set \in incomplete)
      /\ a.complete = (plan.task = t /\ plan.complete /\ set \notin incomplete)
      /\ a.inputs = [k \in Keys |-> IF k \in has THEN object[inputs[set][k]][k] ELSE Fresh]
  BY DEF Observed
<1>2. set \in Sets
  BY SetsOfTasks
<1>3. \A s, list : Covers(s, list) /\ s \notin incomplete => \A o \in All(list) : o.key \in Holds(s)
  BY DEF Covers, Holds
<1>4. /\ \A s \in {"production", "tests", "metadata"} : Covers(s, MetadataList)
      /\ Covers("production", ProductionList) /\ Covers("tests", TestList)
      /\ plan.invocation => Covers("plan", MetadataList) /\ Covers("plan", PlanList)
  BY DEF Known, Coverage, HasListed, Listing
<1>5. plan.task = t <=> set = "plan"
  BY DEF SetOf, Tasks
<1>6. a.complete =>
        /\ plan.task = t /\ plan.complete
        /\ plan.invocation => \A o \in All(MetadataList) \cup All(PlanList) :
             o.key \in a.has /\ (a.inputs[o.key].identity = None => a.inputs[o.key].sensitive \/ o.key[2] \in Unsummed)
  <2> SUFFICES ASSUME plan.task = t, plan.complete, set \notin incomplete, plan.invocation,
                      NEW o \in All(MetadataList) \cup All(PlanList)
               PROVE  o.key \in a.has /\ (a.inputs[o.key].identity = None => a.inputs[o.key].sensitive \/ o.key[2] \in Unsummed)
    BY <1>1
  <2>1. set = "plan" /\ has = Holds("plan")
    BY <1>5
  <2>2. o.key \in Holds("plan")
    BY <1>3, <1>4, <2>1
  <2>3. LET i == object[inputs["plan"][o.key]][o.key]
        IN i.identity = None => i.sensitive \/ o.key[2] \in Unsummed
    <3>1. CASE o.key[2] \in Identified
      BY <1>2, <2>1, <2>2, <3>1 DEF Known, HeldLinks, Holds
    <3>2. CASE o.key[2] \notin AtOnce
      <4>1. IsResolved("plan") /\ o.key \in HasContent("plan")
        BY <2>2, <3>2 DEF IsResolved, HasContent
      <4> QED
        BY <1>2, <2>1, <4>1 DEF Known, ResolvedSets
    <3> QED
      BY <3>1, <3>2 DEF Identified
  <2>4. o.key \in Keys
    BY <2>2 DEF Holds
  <2> QED
    BY <1>1, <2>1, <2>2, <2>3, <2>4
<1>7. \/ t = "sync" \/ a.gaps
      \/ plan.task = t /\ ~plan.invocation
      \/ \A o \in Consumed(SetOf(t)) : o.key \in a.has
  <2> SUFFICES ASSUME t # "sync", set \notin incomplete, plan.task = t => plan.invocation,
                      NEW o \in Consumed(set)
               PROVE  o.key \in Holds(set)
    BY <1>1, Zenon
  <2>1. CASE set = "plan"
    BY <1>3, <1>4, <1>5, <2>1 DEF Consumed, Listing
  <2>2. CASE set = "production"
    BY <1>3, <1>4, <2>2 DEF Consumed, Listing
  <2>3. CASE set = "tests"
    BY <1>3, <1>4, <2>3 DEF Consumed, Listing
  <2>4. CASE set = "metadata"
    BY <1>3, <1>4, <2>4 DEF Consumed
  <2> QED
    BY <1>2, <2>1, <2>2, <2>3, <2>4 DEF Sets
<1>8. has \subseteq Keys
  BY DEF Holds
<1>9. \A k \in a.has :
        LET origin == inputs[SetOf(t)][k]
        IN (origin # NoInput /\ object[origin][k].identity = Hash) => a.inputs[k].identity = Hash
  BY <1>1, <1>8
<1>10. plan.task = t => \A k \in Keys : inputs[set][k] # NoInput => k \in a.has
  BY <1>1, <1>5 DEF Holds
<1> QED
  BY <1>1, <1>6, <1>7, <1>8, <1>9, <1>10 DEF Fits

\* Supplying inputs without a contradiction keeps that.
LEMMA MergedFits ==
  ASSUME NEW t \in Tasks, NEW a, Fits(t, a), a.has \subseteq Keys,
         NEW supplied \in SUBSET Supplied, NEW new \in BOOLEAN, ~Contradiction(a, supplied, new),
         new => \A k \in Keys : inputs[SetOf(t)][k] # NoInput => k \in a.has
  PROVE  /\ Fits(t, Merged(a, supplied, new)) /\ Merged(a, supplied, new).has \subseteq Keys
<1> DEFINE b == Merged(a, supplied, new)
           applied == {i \in supplied : Applies(a, i, new)}
           inputsOf == [k \in Keys |->
             IF \E i \in applied : i.key = k THEN Supply(CHOOSE i \in applied : i.key = k) ELSE a.inputs[k]]
<1>1. b = [has |-> a.has \cup {i.key : i \in applied}, inputs |-> inputsOf,
           gaps |-> a.gaps, complete |-> a.complete]
  BY DEF Merged
<1>2. b.has \subseteq Keys
  BY <1>1, SuppliedAssumption DEF Supplies
<1>3. ASSUME NEW k \in a.has, a.inputs[k].identity = Hash
      PROVE  b.inputs[k].identity = Hash
  <2>1. ASSUME NEW i \in supplied, i.key = k PROVE Supply(i).identity = Hash
    BY <1>3, <2>1 DEF Contradiction, Matches, Supply, None, Hash
  <2>2. CASE \E i \in applied : i.key = k
    <3> DEFINE i == CHOOSE j \in applied : j.key = k
    <3>1. i \in supplied /\ i.key = k
      BY <2>2
    <3> QED
      BY <1>1, <1>3, <2>1, <2>2, <3>1
  <2>3. CASE ~\E i \in applied : i.key = k
    BY <1>1, <1>3, <2>3
  <2> QED
    BY <2>2, <2>3
<1>4. ASSUME NEW k \in a.has, a.inputs[k].identity = None => a.inputs[k].sensitive \/ k[2] \in Unsummed
      PROVE  k \in b.has /\ (b.inputs[k].identity = None => b.inputs[k].sensitive \/ k[2] \in Unsummed)
  <2>1. \A i \in applied : Supply(i).identity # None
    BY SuppliedAssumption DEF Supplies, Supply, Given, Hash, None
  <2>2. CASE \E i \in applied : i.key = k
    <3> DEFINE i == CHOOSE j \in applied : j.key = k
    <3>1. i \in applied
      BY <2>2
    <3> QED
      BY <1>1, <1>4, <2>1, <2>2, <3>1
  <2>3. CASE ~\E i \in applied : i.key = k
    BY <1>1, <1>4, <2>3
  <2> QED
    BY <2>2, <2>3
<1>5. ASSUME NEW k \in b.has, LET origin == inputs[SetOf(t)][k]
                              IN origin # NoInput /\ object[origin][k].identity = Hash
      PROVE  b.inputs[k].identity = Hash
  <2>1. CASE k \in a.has
    BY <1>3, <1>5, <2>1 DEF Fits
  <2>2. CASE k \notin a.has
    <3>1. new
      BY <1>1, <2>2 DEF Applies
    <3> QED
      BY <1>2, <1>5, <2>2, <3>1
  <2> QED
    BY <2>1, <2>2
<1>6. b.complete = a.complete /\ b.gaps = a.gaps /\ a.has \subseteq b.has
  BY <1>1
<1>7. b.complete =>
        /\ plan.task = t /\ plan.complete
        /\ plan.invocation => \A o \in All(MetadataList) \cup All(PlanList) :
             o.key \in b.has /\ (b.inputs[o.key].identity = None => b.inputs[o.key].sensitive \/ o.key[2] \in Unsummed)
  BY <1>4, <1>6 DEF Fits
<1>8. \/ t = "sync" \/ b.gaps
      \/ plan.task = t /\ ~plan.invocation
      \/ \A o \in Consumed(SetOf(t)) : o.key \in b.has
  BY <1>6 DEF Fits
<1>9. Fits(t, b)
  BY <1>5, <1>7, <1>8 DEF Fits
<1> QED
  BY <1>2, <1>9

LEMMA PlannedFits ==
  ASSUME Safe, Known, pc = "assemble", ~cancelled, ~Conflict, NEW t \in Tasks
  PROVE  Fits(t, Merged(Planned(t), given, FALSE))
<1>1. plan.inputs \in SUBSET Supplied /\ given \in SUBSET Supplied
  BY DEF Safe, Shape, Plans
<1>2. Fits(t, Planned(t)) /\ Planned(t).has \subseteq Keys
  <2>1. CASE plan.task = t
    <3>1. ~Contradiction(Observed(t), plan.inputs, TRUE) /\ Planned(t) = Merged(Observed(t), plan.inputs, TRUE)
      BY <2>1 DEF Conflict, Planned
    <3> QED
      BY <1>1, <2>1, <3>1, ObservedFits, MergedFits
  <2>2. CASE plan.task # t
    <3>1. Planned(t) = Observed(t)
      BY <2>2 DEF Planned
    <3> QED
      BY <3>1, ObservedFits
  <2> QED
    BY <2>1, <2>2
<1>3. ~Contradiction(Planned(t), given, FALSE)
  BY DEF Conflict
<1> QED
  BY <1>1, <1>2, <1>3, MergedFits

LEMMA ResultsStep == ASSUME Safe, Known, Results, [Next]_vars PROVE Results'
<1> USE DEF request, found
<1>1. ASSUME answer'.status # "ok" PROVE Results'
  BY <1>1 DEF Results, CompleteIsObserved, GapsAreVisible, ObservedWins, Answered
<1>2. ASSUME pc # "done", answer' = answer PROVE Results'
  BY <1>1, <1>2 DEF Safe, Shape, Unanswered
<1>3. ASSUME Answer(Error) PROVE Results'
  BY <1>1, <1>3 DEF Answer, Error
<1>4. ASSUME Answer([status |-> "ok", tasks |-> [t \in Tasks |-> Declined]]) PROVE Results'
  <2>1. \A t \in Tasks : answer'.tasks[t] = Declined
    BY <1>4 DEF Answer
  <2>2. \A t \in Tasks : Fits(t, Declined)'
    BY DEF Fits, Declined
  <2> QED
    BY <2>1, <2>2 DEF Results, Fits, CompleteIsObserved, GapsAreVisible, ObservedWins, Declined
<1>5. ASSUME pc = "assemble", ~cancelled, ~Conflict,
             Answer([status |-> "ok", tasks |-> [t \in Tasks |-> Merged(Planned(t), given, FALSE)]])
      PROVE  Results'
  <2>1. \A t \in Tasks : answer'.tasks[t] = Merged(Planned(t), given, FALSE)
    BY <1>5 DEF Answer
  <2>2. UNCHANGED <<plan, object, inputs>>
    BY <1>5 DEF Answer
  <2>3. \A t \in Tasks : Fits(t, answer'.tasks[t])
    BY <1>5, <2>1, PlannedFits
  <2>4. \A t \in Tasks : SetOf(t)' = SetOf(t)
    BY <2>2 DEF SetOf
  <2> QED
    BY <2>2, <2>3, <2>4 DEF Results, Fits, CompleteIsObserved, GapsAreVisible, ObservedWins
<1>6. CASE Cancel \/ Begin \/ CollectMetadata \/ ListInputs \/ AllListed \/ Resolve
  BY <1>2, <1>6 DEF Cancel, Begin, CollectMetadata, ListInputs, AllListed, Resolve
<1>7. CASE Decline
  BY <1>4, <1>7 DEF Decline
<1>8. CASE Refuse \/ Abort
  BY <1>3, <1>8 DEF Refuse, Abort
<1>9. CASE Assemble
  BY <1>3, <1>5, <1>9 DEF Assemble, Aborted
<1>10. CASE UNCHANGED vars
  BY <1>10 DEF vars, Results, CompleteIsObserved, GapsAreVisible, ObservedWins, Answered, SetOf
<1> QED
  BY <1>6, <1>7, <1>8, <1>9, <1>10 DEF Next

LEMMA Answers == Spec => []Results
<1>1. Init => Safe /\ Known /\ Results
  <2>1. Init => answer.status = "none"
    BY DEF Init, Unanswered
  <2> QED
    BY <2>1, Init1, InitKnows
       DEF Safe, Results, CompleteIsObserved, GapsAreVisible, ObservedWins, Answered
<1> QED
  BY <1>1, SafeStep, KnownStep, ResultsStep, PTL DEF Spec

\* A task that calls itself complete names all its plan's invocation consumes, and
\* knows every identity that is not protected, for any listings and any gaps.
THEOREM CompletenessIsEarned == Spec => []CompleteIsObserved
BY Answers, PTL DEF Results

\* No answer is short without saying so, wherever the request is cancelled.
THEOREM GapsAreReported == Spec => []GapsAreVisible
BY Answers, PTL DEF Results

\* Nothing a plan or a caller supplies replaces an identity that was observed.
THEOREM ObservationsStand == Spec => []ObservedWins
BY Answers, PTL DEF Results
=============================================================================
