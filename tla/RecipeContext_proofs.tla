------------------------- MODULE RecipeContext_proofs -------------------------
(***************************************************************************)
(* The recipe's context for any checkout, any go.mod files and any number  *)
(* of emissions, edits and failures in between.                            *)
(***************************************************************************)
EXTENDS RecipeContext, TLAPS

Copied == {"parse", "clear", "carry", "write", "done"}
Looping == {"carry", "write"}
Loop    == {"clear", "carry", "write"}

\* What the copy brought stays until the next edit.
Current == pc \in Copied => CopyCurrent(Module)

\* AddReplace leaves a directive as it was, removes it, or has it name a carry;
\* so a local one is as the developer wrote it, and only its target is carried.
FromGoMod ==
  pc \in Loop =>
    /\ Len(parsed) = Len(gomod)
    /\ \A i \in DOMAIN gomod : Local(parsed[i]) => parsed[i] = gomod[i]

IsAsked(d) == \E i \in DOMAIN gomod : gomod[i].target # Missing /\ Within(d, gomod[i].target)
Asked ==
  pc \in Looping \/ (pc = "done" /\ Replacing) =>
    \A f \in Files : carried[f] # Nothing => IsAsked(f)

Contains == \A f \in Files : carried[f] # Nothing => Within(f, Repository)

Basic == TypeOK /\ Current /\ FromGoMod /\ Asked /\ Contains

LEMMA GoModTypes == \A m \in GoMods : m \in Seq(Replacement) /\ m \in Seq(Directives)
<1>1. Directives \subseteq Replacement
  BY DEF Directives, Replacement
<1> QED
  BY <1>1, GoModsAssumption

LEMMA Constants ==
  /\ Nothing \notin Versions /\ Nothing \in Content /\ Versions \subseteq Content /\ 1 \in Versions
  /\ Content \subseteq Copies /\ Torn \in Copies /\ Torn # Nothing
  /\ Wiped \in Replacement
BY GoModsAssumption, PlacesAssumption DEF Nothing, Versions, Torn, Content, Copies, Wiped, Replacement

LEMMA BasicInit == Init => Basic
<1> SUFFICES ASSUME Init PROVE Basic
  OBVIOUS
<1>1. TypeOK
  <2>1. parsed \in Seq(Replacement) /\ contextMod \in Seq(Replacement)
    BY DEF Init
  <2>2. tree \in [Files -> Content]
    BY Constants DEF Init
  <2>3. code \in [Tree(Module) -> Copies] /\ carried \in [Files -> Copies]
    BY Constants DEF Init
  <2>4. next \in Nat \ {0} /\ gomod \in GoMods
    BY DEF Init
  <2>6. rewrite \in BOOLEAN
    BY Zenon DEF Init
  <2>5. pc \in Labels
    BY DEF Init, Labels
  <2> QED
    BY <2>1, <2>2, <2>3, <2>4, <2>5, <2>6 DEF TypeOK
<1> QED
  BY <1>1 DEF Init, Basic, Current, CopyCurrent, FromGoMod, Asked, Contains, Copied, Loop, Looping

\* The directive at hand.
LEMMA AtHand ==
  ASSUME Basic, InCarry, Local(parsed[next])
  PROVE  /\ next \in DOMAIN gomod /\ next \in DOMAIN parsed
         /\ parsed[next] = gomod[next] /\ Target = gomod[next].target
         /\ gomod[next] \in Directives
         /\ IsModule => Target \in Dirs /\ Target # Missing
<1>1. gomod \in Seq(Directives) /\ parsed \in Seq(Replacement) /\ next \in Nat \ {0}
  BY GoModTypes DEF Basic, TypeOK
<1>2. Len(parsed) = Len(gomod) /\ next <= Len(parsed)
  BY DEF Basic, FromGoMod, InCarry, Loop
<1>3. next \in DOMAIN gomod /\ next \in DOMAIN parsed
  BY <1>1, <1>2
<1>4. parsed[next] = gomod[next]
  BY <1>3 DEF Basic, FromGoMod, InCarry, Loop
<1> QED
  BY <1>1, <1>3, <1>4, PlacesAssumption DEF Target, IsModule

LEMMA AddReplaceResult ==
  ASSUME Basic, InCarry, Local(parsed[next])
  PROVE  LET new == AddReplace(parsed[next])
         IN  /\ new \in Seq(Replacement) /\ Len(new) = Len(parsed)
             /\ \A i \in DOMAIN gomod : Local(new[i]) => Local(parsed[i]) /\ new[i] = parsed[i]
<1> DEFINE d == parsed[next]
           new == AddReplace(d)
<1>1. parsed \in Seq(Replacement) /\ d \in Replacement /\ next \in DOMAIN parsed
  BY AtHand DEF Basic, TypeOK
<1>2. [d EXCEPT !.at = "carried"] \in Replacement /\ [d EXCEPT !.at = "carried"].at = "carried"
  BY <1>1 DEF Replacement
<1>3. DOMAIN parsed = 1..Len(parsed) /\ Len(parsed) \in Nat
  BY <1>1
<1>4. \A i \in DOMAIN parsed : parsed[i] \in Replacement
  BY <1>1
<1>5. /\ new = [i \in 1..Len(parsed) |-> new[i]]
      /\ \A i \in 1..Len(parsed) : new[i] \in {parsed[i], Wiped, [d EXCEPT !.at = "carried"]}
  BY <1>3 DEF AddReplace
<1>6. \A i \in 1..Len(parsed) : new[i] \in Replacement
  BY <1>2, <1>3, <1>4, <1>5, Constants
<1>7. new \in Seq(Replacement) /\ Len(new) = Len(parsed)
  BY <1>3, <1>5, <1>6
<1>8. DOMAIN gomod = 1..Len(parsed)
  BY <1>3, GoModTypes DEF Basic, TypeOK, FromGoMod, InCarry, Loop
<1> QED
  BY <1>2, <1>5, <1>7, <1>8 DEF Local

\* A copy, whole or broken off, writes the files it is asked for and no other.
LEMMA CopyType ==
  ASSUME NEW files, files \subseteq Files, NEW onto \in [files -> Copies],
         tree \in [Files -> Content], NEW copied
  PROVE  Copy(onto, copied) \in [files -> Copies]
BY Constants DEF Copy

LEMMA PartTypes ==
  ASSUME NEW files, files \subseteq Files, NEW onto \in [files -> Copies],
         tree \in [Files -> Content], NEW asked \in SUBSET files, NEW part \in PartsOf(onto, asked)
  PROVE  /\ part \in [files -> Copies]
         /\ \A f \in files : part[f] = onto[f] \/ f \in asked
<1>1. PICK copied \in SUBSET asked :
        \/ part = Copy(onto, copied)
        \/ \E f \in asked : part = [Copy(onto, copied) EXCEPT ![f] = Torn]
  BY DEF PartsOf
<1>2. Copy(onto, copied) \in [files -> Copies]
  BY CopyType
<1>3. \A f \in files : Copy(onto, copied)[f] = onto[f] \/ f \in asked
  BY <1>1 DEF Copy
<1> QED
  BY <1>1, <1>2, <1>3, Constants

-----------------------------------------------------------------------------
\* Outside the copy and the loop there is nothing to say but what is carried.
LEMMA RestingKeeps == ASSUME TypeOK', Contains', pc' = "idle" PROVE Basic'
BY DEF Basic, Current, CopyCurrent, FromGoMod, Asked, Copied, Loop, Looping

LEMMA DeveloperKeeps ==
  ASSUME Basic, (\E f \in Edited : Edit(f)) \/ EditGoMod
  PROVE  Basic'
<1>1. tree' \in [Files -> Content]
  <2>1. CASE EditGoMod
    BY <2>1 DEF EditGoMod, Basic, TypeOK
  <2>2. ASSUME NEW f \in Files, Edit(f) PROVE tree' \in [Files -> Content]
    BY <2>2 DEF Edit, Basic, TypeOK
  <2> QED
    BY <2>1, <2>2, GoModsAssumption
<1>2. gomod' \in GoMods /\ UNCHANGED <<loop, context>> /\ pc' = "idle"
  BY DEF Edit, EditGoMod, Basic, TypeOK
<1>3. UNCHANGED <<next, parsed, rewrite, code, carried, contextMod>>
  BY <1>2 DEF loop, context
<1>4. TypeOK'
  BY <1>1, <1>2, <1>3 DEF Basic, TypeOK, Labels
<1>5. Contains'
  BY <1>3 DEF Basic, Contains
<1> QED
  BY <1>2, <1>4, <1>5, RestingKeeps

\* A step of the emission keeps the source; what it writes has its types.
LEMMA EmissionTypes ==
  ASSUME TypeOK, UNCHANGED source, pc' \in Labels,
         next' \in Nat \ {0}, parsed' \in Seq(Replacement), rewrite' \in BOOLEAN,
         code' \in [Tree(Module) -> Copies], carried' \in [Files -> Copies],
         contextMod' \in Seq(Replacement)
  PROVE  TypeOK'
BY DEF TypeOK, source

\* The loop's variables after a return.
LEMMA Returned ==
  ASSUME NEW label \in Labels, Return(label)
  PROVE  /\ pc' = label /\ pc' \in Labels
         /\ next' \in Nat \ {0} /\ parsed' \in Seq(Replacement) /\ rewrite' \in BOOLEAN
<1>1. next' \in Nat \ {0} /\ parsed' \in Seq(Replacement)
  BY DEF Return
<1>2. rewrite' \in BOOLEAN
  BY Zenon DEF Return
<1> QED
  BY <1>1, <1>2 DEF Return

LEMMA Went ==
  ASSUME TypeOK, NEW label \in Labels, Goto(label)
  PROVE  /\ pc' = label /\ pc' \in Labels
         /\ next' \in Nat \ {0} /\ parsed' \in Seq(Replacement) /\ rewrite' \in BOOLEAN
BY DEF Goto, loop, TypeOK

LEMMA BuildKeeps == ASSUME Basic, Build PROVE Basic'
<1>1. "copy" \in Labels
  BY DEF Labels
<1>2. TypeOK'
  BY <1>1, Went, EmissionTypes DEF Build, Basic, TypeOK, context
<1> QED
  BY <1>2 DEF Build, Goto, Basic, Current, CopyCurrent, FromGoMod, Asked, Contains, Copied, Loop, Looping, context

LEMMA CopyKeeps == ASSUME Basic, CopyModule PROVE Basic'
<1>1. Tree(Module) \subseteq Files /\ code \in [Tree(Module) -> Copies] /\ tree \in [Files -> Content]
  BY DEF Basic, TypeOK, Tree
<1>2. /\ UNCHANGED <<source, carried>> /\ code' \in [Tree(Module) -> Copies]
      /\ contextMod' \in Seq(Replacement)
  <2>1. code' \in [Tree(Module) -> Copies]
    <3>1. CASE code' = Copy(code, Tree(Module))
      BY <1>1, <3>1, CopyType
    <3>2. CASE code' \in PartsOf(code, Tree(Module))
      <4>1. Tree(Module) \in SUBSET Tree(Module)
        OBVIOUS
      <4> QED
        BY <1>1, <3>2, <4>1, PartTypes
    <3> QED
      BY <3>1, <3>2 DEF CopyModule
  <2>2. <<>> \in Seq(Replacement) /\ gomod \in Seq(Replacement) /\ contextMod \in Seq(Replacement)
    BY GoModTypes DEF Basic, TypeOK
  <2> QED
    BY <2>1, <2>2 DEF CopyModule
<1>3. {"parse", "idle"} \subseteq Labels
  BY DEF Labels
<1>4. CASE Fail
  <2>1. TypeOK'
    BY <1>2, <1>3, <1>4, Returned, EmissionTypes DEF Fail, Basic, TypeOK
  <2> QED
    BY <1>2, <1>4, <2>1, RestingKeeps DEF Fail, Return, Basic, Contains
<1>5. CASE code' = Copy(code, Tree(Module)) /\ Goto("parse")
  <2>1. TypeOK'
    BY <1>2, <1>3, <1>5, Went, EmissionTypes DEF Basic, TypeOK
  <2>2. Current'
    BY <1>1, <1>2, <1>5 DEF Copy, Current, CopyCurrent, source
  <2> QED
    BY <1>2, <1>5, <2>1, <2>2 DEF Goto, Basic, FromGoMod, Asked, Contains, Loop, Looping
<1> QED
  BY <1>4, <1>5 DEF CopyModule

LEMMA ParseKeeps == ASSUME Basic, ParseGoMod PROVE Basic'
<1>1. {"clear", "done"} \subseteq Labels
  BY DEF Labels
<1>2. UNCHANGED <<tree, gomod, code, carried, contextMod>>
  BY DEF ParseGoMod, source, context
<1>3. CASE pc' = "clear" /\ parsed' = gomod /\ UNCHANGED <<next, rewrite>>
  <2>1. TypeOK'
    BY <1>1, <1>2, <1>3, GoModTypes DEF Basic, TypeOK
  <2>2. Current'
    BY <1>2, <1>3 DEF ParseGoMod, Basic, Current, CopyCurrent, Copied
  <2> QED
    BY <1>2, <1>3, <2>1, <2>2 DEF Basic, FromGoMod, Asked, Contains, Looping
<1>4. CASE Return("done")
  <2>1. TypeOK'
    BY <1>1, <1>2, <1>4, Returned, EmissionTypes DEF Basic, TypeOK, source
  <2>2. Current'
    BY <1>2, <1>4 DEF ParseGoMod, Return, Basic, Current, CopyCurrent, Copied
  <2>3. ~Replacing \/ pc' = "clear"
    BY DEF ParseGoMod, Replacing
  <2> QED
    BY <1>2, <1>4, <2>1, <2>2, <2>3 DEF Return, Basic, FromGoMod, Asked, Contains, Looping, Loop, Replacing
<1> QED
  BY <1>3, <1>4 DEF ParseGoMod

LEMMA ClearKeeps == ASSUME Basic, ClearCarry PROVE Basic'
<1>1. {"carry", "idle"} \subseteq Labels
  BY DEF Labels
<1>2. /\ UNCHANGED <<tree, gomod, code, contextMod>>
      /\ carried' \in [Files -> Copies]
      /\ \A f \in Files : carried'[f] \in {Nothing, carried[f]}
  BY Constants DEF ClearCarry, source, Basic, TypeOK
<1>3. Contains'
  BY <1>2 DEF Basic, Contains
<1>4. CASE Fail
  <2>1. TypeOK'
    BY <1>1, <1>2, <1>4, Returned, EmissionTypes DEF Fail, Basic, TypeOK, source
  <2> QED
    BY <1>3, <1>4, <2>1, RestingKeeps DEF Fail, Return
<1>5. CASE carried' = [f \in Files |-> Nothing] /\ Goto("carry")
  <2>1. TypeOK'
    BY <1>1, <1>2, <1>5, Went, EmissionTypes DEF Basic, TypeOK, source
  <2>2. Current' /\ FromGoMod'
    BY <1>2, <1>5 DEF ClearCarry, Goto, loop, Basic, Current, CopyCurrent, FromGoMod, Copied, Loop
  <2>3. Asked'
    BY <1>5 DEF Asked
  <2> QED
    BY <1>3, <2>1, <2>2, <2>3 DEF Basic
<1> QED
  BY <1>4, <1>5 DEF ClearCarry

LEMMA SkipKeeps == ASSUME Basic, SkipDirective PROVE Basic'
<1>1. next' \in Nat \ {0} /\ UNCHANGED <<tree, gomod, pc, parsed, rewrite, code, carried, contextMod>>
  BY DEF SkipDirective, Advance, Basic, TypeOK, source, context
<1> QED
  BY <1>1 DEF Basic, TypeOK, Current, CopyCurrent, FromGoMod, Asked, Contains, IsAsked, Replacing

LEMMA RefuseKeeps == ASSUME Basic, RefuseDirective PROVE Basic'
<1>1. "idle" \in Labels
  BY DEF Labels
<1>2. Contains'
  BY DEF RefuseDirective, Basic, Contains, context
<1>3. TypeOK'
  BY <1>1, Returned, EmissionTypes DEF RefuseDirective, Fail, Basic, TypeOK, context
<1> QED
  BY <1>2, <1>3, RestingKeeps DEF RefuseDirective, Fail, Return

\* What a carry writes lies in its target, hence in the repository; and one that
\* succeeds, where nothing was, leaves what is in the target, and no more.
LEMMA CarriesTarget ==
  ASSUME Basic, CarryDirective
  PROVE  /\ carried' \in [Files -> Copies]
         /\ Target \in Dirs /\ Within(Target, Repository)
         /\ \A f \in Files : carried'[f] = carried[f] \/ Within(f, Target)
<1>1. Target \in Dirs /\ Within(Target, Repository)
  BY AtHand DEF CarryDirective, Contained
<1>2. /\ carried \in [Files -> Copies] /\ tree \in [Files -> Content]
      /\ Tree(Target) \subseteq Files /\ \A f \in Tree(Target) : Within(f, Target)
  BY DEF Basic, TypeOK, Tree
<1>3. CASE carried' = carried
  BY <1>1, <1>2, <1>3
<1>4. CASE carried' = Copy(carried, Tree(Target))
  <2>1. carried' \in [Files -> Copies]
    BY <1>2, <1>4, CopyType
  <2>2. \A f \in Files : carried'[f] = carried[f] \/ f \in Tree(Target)
    BY <1>2, <1>4 DEF Copy
  <2> QED
    BY <1>1, <1>2, <2>1, <2>2
<1>5. CASE carried' \in PartsOf(carried, Tree(Target))
  <2>1. Tree(Target) \in SUBSET Files
    BY <1>2
  <2>2. /\ carried' \in [Files -> Copies]
        /\ \A f \in Files : carried'[f] = carried[f] \/ f \in Tree(Target)
    BY <1>2, <1>5, <2>1, PartTypes
  <2> QED
    BY <1>1, <1>2, <2>2
<1> QED
  BY <1>3, <1>4, <1>5 DEF CarryDirective

LEMMA CarriesWhole ==
  ASSUME Basic, ~Exists(Target), carried' = Copy(carried, Tree(Target))
  PROVE  /\ \A f \in Tree(Target) : carried'[f] = tree[f]
         /\ \A f \in Files : f \notin Tree(Target) => carried'[f] = carried[f]
<1>1. carried \in [Files -> Copies] /\ Tree(Target) \subseteq Files
  BY DEF Basic, TypeOK, Tree
<1>2. \A f \in Tree(Target) : carried[f] = Nothing
  BY DEF Exists
<1> QED
  BY <1>1, <1>2 DEF Copy

LEMMA CarryKeeps == ASSUME Basic, CarryDirective PROVE Basic'
<1>1. "idle" \in Labels
  BY DEF Labels
<1>2. UNCHANGED <<tree, gomod, code, contextMod>>
  BY DEF CarryDirective, source
<1>3. Contains'
  <2> SUFFICES ASSUME NEW d \in Files, carried'[d] # Nothing PROVE Within(d, Repository)
    BY DEF Contains
  <2>1. CASE carried'[d] = carried[d]
    BY <2>1 DEF Basic, Contains
  <2>2. CASE Within(d, Target)
    BY <2>2, CarriesTarget, UnderAssumption, PlacesAssumption DEF Places
  <2> QED
    BY <2>1, <2>2, CarriesTarget
<1>4. CASE Fail
  <2>1. TypeOK'
    BY <1>1, <1>2, <1>4, CarriesTarget, Returned, EmissionTypes DEF Fail, Basic, TypeOK, source
  <2> QED
    BY <1>3, <1>4, <2>1, RestingKeeps DEF Fail, Return
<1>5. CASE /\ parsed' = AddReplace(parsed[next]) /\ rewrite' = TRUE
           /\ Advance /\ UNCHANGED pc
  <2>1. InCarry /\ Local(parsed[next]) /\ pc = "carry" /\ IsModule
    BY DEF CarryDirective, InCarry
  <2>2. next' \in Nat \ {0} /\ parsed' \in Seq(Replacement)
    BY <1>5, <2>1, AddReplaceResult DEF Advance, Basic, TypeOK
  <2>3. rewrite' \in BOOLEAN
    BY <1>5, Zenon
  <2>4. TypeOK'
    BY <1>2, <1>5, <2>2, <2>3, CarriesTarget, EmissionTypes DEF Basic, TypeOK, source
  <2>5. Current'
    BY <1>2, <1>5 DEF Basic, Current, CopyCurrent
  <2>6. FromGoMod'
    BY <1>2, <1>5, <2>1, AddReplaceResult DEF Basic, FromGoMod, Loop
  <2>7. Asked'
    <3> SUFFICES ASSUME NEW d \in Files, carried'[d] # Nothing PROVE IsAsked(d)
      BY <1>2 DEF Asked, IsAsked
    <3>1. CASE carried'[d] = carried[d]
      BY <2>1, <3>1 DEF Basic, Asked, Looping
    <3>2. CASE Within(d, Target)
      BY <2>1, <3>2, AtHand DEF IsAsked
    <3> QED
      BY <3>1, <3>2, CarriesTarget
  <2> QED
    BY <1>3, <2>4, <2>5, <2>6, <2>7 DEF Basic
<1> QED
  BY <1>4, <1>5 DEF CarryDirective

LEMMA LeaveKeeps == ASSUME Basic, LeaveLoop PROVE Basic'
<1>1. {"write", "done"} \subseteq Labels
  BY DEF Labels
<1>2. UNCHANGED <<tree, gomod, code, carried, contextMod>> /\ pc = "carry"
  BY DEF LeaveLoop, source, context
<1>3. CASE Goto("write")
  <2>1. TypeOK'
    BY <1>1, <1>2, <1>3, Went, EmissionTypes DEF Basic, TypeOK, source
  <2> QED
    BY <1>2, <1>3, <2>1 DEF Goto, loop, Basic, Current, CopyCurrent, FromGoMod, Asked, Contains, IsAsked, Copied, Loop, Looping
<1>4. CASE Return("done")
  <2>1. TypeOK'
    BY <1>1, <1>2, <1>4, Returned, EmissionTypes DEF Basic, TypeOK, source
  <2> QED
    BY <1>2, <1>4, <2>1 DEF Return, Basic, Current, CopyCurrent, FromGoMod, Asked, Contains, IsAsked, Copied, Loop, Looping
<1> QED
  BY <1>3, <1>4 DEF LeaveLoop

LEMMA WriteKeeps == ASSUME Basic, WriteGoMod PROVE Basic'
<1>1. {"idle", "done"} \subseteq Labels
  BY DEF Labels
<1>2. UNCHANGED <<tree, gomod, code, carried>> /\ pc = "write" /\ contextMod' \in Seq(Replacement)
  <2>1. <<>> \in Seq(Replacement) /\ parsed \in Seq(Replacement) /\ contextMod \in Seq(Replacement)
    BY DEF Basic, TypeOK
  <2> QED
    BY <2>1 DEF WriteGoMod, source
<1>3. \E label \in {"idle", "done"} : Return(label)
  BY DEF WriteGoMod, Fail
<1>4. TypeOK'
  BY <1>1, <1>2, <1>3, Returned, EmissionTypes DEF Basic, TypeOK, source
<1> QED
  BY <1>2, <1>3, <1>4 DEF Return, Basic, Current, CopyCurrent, FromGoMod, Asked, Contains, IsAsked, Copied, Loop, Looping

LEMMA BasicStep == Basic /\ [Next]_vars => Basic'
<1> SUFFICES ASSUME Basic, [Next]_vars PROVE Basic'
  OBVIOUS
<1>1. CASE UNCHANGED vars
  BY <1>1 DEF vars, source, loop, context, Basic, TypeOK, Current, CopyCurrent, FromGoMod, Asked, Contains, IsAsked, Replacing
<1> QED
  BY <1>1, DeveloperKeeps, BuildKeeps, CopyKeeps, ParseKeeps, ClearKeeps, SkipKeeps, RefuseKeeps, CarryKeeps,
     LeaveKeeps, WriteKeeps DEF Next, CarryLocalReplacements

LEMMA BasicAlways == Spec => []Basic
BY BasicInit, BasicStep, PTL DEF Spec

\* After a build every file the module has is in the context as it is now, whatever
\* failed or was torn before (copyGoContext); one it no longer has may remain.
THEOREM SourceIsCurrent == Spec => []SourceCurrent
<1>1. Basic => SourceCurrent
  BY DEF Basic, Current, CopyCurrent, Copied, SourceCurrent, Built
<1> QED
  BY <1>1, BasicAlways, PTL

\* While go.mod keeps a filesystem replacement, nothing carried outlives the
\* directive that asked for it: os.RemoveAll comes first (replace.go:91).
THEOREM NothingOutlives == Spec => []NoStaleCarry
<1>1. Basic => NoStaleCarry
  BY DEF Basic, Asked, IsAsked, NoStaleCarry, Built
<1> QED
  BY <1>1, BasicAlways, PTL

-----------------------------------------------------------------------------
(* No directive shadows another one: the loop's effect on each is known. *)

Taken(d) == Local(d) /\ ~Within(d.target, Module)
Final(i, n) ==
  IF i < n /\ Taken(gomod[i]) THEN [gomod[i] EXCEPT !.at = "carried"] ELSE gomod[i]
Agrees(m, n) == DOMAIN m = DOMAIN gomod /\ \A i \in DOMAIN gomod : m[i] = Final(i, n)

Accepted(d) == d.target \in Dirs /\ Within(d.target, Repository)
AcceptedBelow(n) == \A i \in DOMAIN gomod : i < n /\ Local(gomod[i]) => Accepted(gomod[i])

Walked ==
  /\ pc \in {"parse"} \cup Loop => contextMod = gomod
  /\ pc \notin Looping => next = 1 /\ ~rewrite
  /\ pc = "write" => next = Len(gomod) + 1
  /\ pc \in Loop =>
       /\ next <= Len(gomod) + 1
       /\ Agrees(parsed, next)
       /\ rewrite \/ \A i \in DOMAIN gomod : i < next => ~Taken(gomod[i])
       /\ AcceptedBelow(next)
  /\ pc = "done" => Agrees(contextMod, Len(gomod) + 1) /\ AcceptedBelow(Len(gomod) + 1)

LEMMA GoModShape ==
  ASSUME TypeOK
  PROVE  /\ Len(gomod) \in Nat /\ DOMAIN gomod = 1..Len(gomod)
         /\ \A i \in DOMAIN gomod : gomod[i] \in Directives
BY GoModTypes DEF TypeOK

LEMMA WalkedInit == Init => Walked
BY DEF Init, Walked, Loop, Looping

\* The three ways through an iteration, one directive further.
LEMMA FurtherKept ==
  ASSUME TypeOK, UNCHANGED <<tree, gomod, pc, contextMod>>, next \in DOMAIN gomod, next' = next + 1,
         pc = "carry", Walked, Agrees(parsed, next)',
         rewrite' \/ (~rewrite /\ ~Taken(gomod[next])),
         Local(gomod[next]) => Accepted(gomod[next])
  PROVE  Walked'
<1>1. next \in 1..Len(gomod) /\ Len(gomod) \in Nat /\ next \in Nat
  BY GoModShape
<1>2. next' <= Len(gomod) + 1 /\ DOMAIN gomod = 1..Len(gomod)
  BY <1>1, GoModShape
<1>3. AcceptedBelow(next)'
  <2> SUFFICES ASSUME NEW i \in DOMAIN gomod, i < next', Local(gomod[i]) PROVE Accepted(gomod[i])
    BY DEF AcceptedBelow, Accepted
  <2>1. i < next \/ i = next
    BY <1>1, <1>2
  <2> QED
    BY <2>1 DEF Walked, Loop, AcceptedBelow
<1>4. rewrite' \/ \A i \in DOMAIN gomod : i < next' => ~Taken(gomod[i])
  <2> SUFFICES ASSUME ~rewrite', NEW i \in DOMAIN gomod, i < next' PROVE ~Taken(gomod[i])
    OBVIOUS
  <2>1. i < next \/ i = next
    BY <1>1, <1>2
  <2> QED
    BY <2>1 DEF Walked, Loop
<1> QED
  BY <1>2, <1>3, <1>4 DEF Walked, Loop, Looping, Taken

LEMMA SkipWalks == ASSUME Basic, Walked, SkipDirective PROVE Walked'
<1>1. UNCHANGED <<tree, gomod, pc, parsed, rewrite, contextMod>> /\ next' = next + 1 /\ pc = "carry"
  BY DEF SkipDirective, Advance, InCarry, source, context
<1>2. next \in DOMAIN gomod /\ next \in Nat /\ parsed[next] = gomod[next]
  BY GoModShape DEF SkipDirective, InCarry, Basic, FromGoMod, TypeOK, Walked, Agrees, Final, Loop
<1>3. ~Taken(gomod[next]) /\ (Local(gomod[next]) => Accepted(gomod[next]))
  <2>1. CASE ~Local(gomod[next])
    BY <2>1 DEF Taken
  <2>2. CASE Local(gomod[next])
    <3>1. IsModule /\ Inside
      BY <1>2, <2>2 DEF SkipDirective
    <3>2. Target \in Dirs /\ Target = gomod[next].target
      BY <1>2, <2>2, <3>1, AtHand DEF SkipDirective
    <3> QED
      BY <3>1, <3>2, UnderAssumption, PlacesAssumption DEF Inside, Taken, Accepted, Places
  <2> QED
    BY <2>1, <2>2
<1>4. Agrees(parsed, next)'
  <2>1. \A i \in DOMAIN gomod : i < next + 1 <=> i < next \/ i = next
    BY <1>2, GoModShape DEF Basic
  <2>2. \A i \in DOMAIN gomod : Final(i, next + 1) = Final(i, next)
    BY <1>3, <2>1 DEF Final
  <2>3. Agrees(parsed, next)
    BY <1>1 DEF Walked, Loop
  <2>4. Agrees(parsed, next + 1)
    BY <2>2, <2>3 DEF Agrees
  <2> QED
    BY <1>1, <2>4 DEF Agrees, Final, Taken
<1> QED
  BY <1>1, <1>2, <1>3, <1>4, FurtherKept DEF Basic

\* AddReplace rewrites the directive at hand and no other.
LEMMA OnlyThisDirective ==
  ASSUME DistinctReplaces, Basic, Walked, InCarry, Local(parsed[next])
  PROVE  /\ DOMAIN AddReplace(parsed[next]) = DOMAIN gomod
         /\ \A i \in DOMAIN gomod :
              AddReplace(parsed[next])[i] =
                IF i = next THEN [gomod[next] EXCEPT !.at = "carried"] ELSE parsed[i]
<1> DEFINE d == parsed[next]
<1>1. d = gomod[next] /\ next \in DOMAIN gomod
  BY AtHand
<1>2. DOMAIN parsed = DOMAIN gomod /\ \A i \in DOMAIN gomod : parsed[i] = Final(i, next)
  BY DEF Walked, Loop, InCarry, Agrees
<1>3. \A i \in DOMAIN gomod : parsed[i].name = gomod[i].name /\ parsed[i].version = gomod[i].version
  <2> SUFFICES ASSUME NEW i \in DOMAIN gomod
               PROVE  parsed[i].name = gomod[i].name /\ parsed[i].version = gomod[i].version
    OBVIOUS
  <2>1. gomod[i] \in Directives
    BY GoModShape DEF Basic
  <2> QED
    BY <1>2, <2>1 DEF Final, Directives
<1>4. \A i \in DOMAIN gomod : Matches(parsed[i], d) <=> i = next
  BY <1>1, <1>3 DEF DistinctReplaces, Matches, Basic, TypeOK
<1>5. next \in 1..Len(gomod) /\ DOMAIN gomod = 1..Len(gomod) /\ Len(gomod) \in Nat
  BY <1>1, GoModShape DEF Basic
<1>6. ~\E j \in 1..(next - 1) : Matches(parsed[j], d)
  BY <1>4, <1>5
<1> QED
  BY <1>1, <1>2, <1>4, <1>6 DEF AddReplace

LEMMA CarryWalks == ASSUME DistinctReplaces, Basic, Walked, CarryDirective PROVE Walked'
<1>1. CASE Fail
  BY <1>1 DEF Fail, Return, Walked, Loop, Looping
<1>2. CASE /\ parsed' = AddReplace(parsed[next]) /\ rewrite' = TRUE
           /\ Advance /\ UNCHANGED pc
  <2>1. /\ InCarry /\ Local(parsed[next]) /\ IsModule /\ ~Inside /\ Contained
        /\ UNCHANGED <<tree, gomod, pc, contextMod>> /\ next' = next + 1 /\ pc = "carry"
    BY <1>2 DEF CarryDirective, InCarry, Advance, source
  <2>2. next \in DOMAIN gomod /\ next \in Nat /\ parsed[next] = gomod[next] /\ Target = gomod[next].target
    BY <2>1, AtHand DEF Basic, TypeOK
  <2>3. Taken(gomod[next]) /\ Accepted(gomod[next])
    BY <2>1, <2>2, AtHand DEF Taken, Accepted, Inside, Contained, IsModule
  <2>4. Agrees(parsed, next)'
    <3>1. \A i \in DOMAIN gomod : i < next + 1 <=> i < next \/ i = next
      BY <2>2, GoModShape DEF Basic
    <3>2. /\ DOMAIN parsed' = DOMAIN gomod
          /\ \A i \in DOMAIN gomod :
               parsed'[i] = IF i = next THEN [gomod[next] EXCEPT !.at = "carried"] ELSE Final(i, next)
      BY <1>2, <2>1, OnlyThisDirective DEF Walked, Loop, Agrees
    <3>3. \A i \in DOMAIN gomod : parsed'[i] = Final(i, next + 1)
      BY <2>3, <3>1, <3>2 DEF Final
    <3> QED
      BY <2>1, <3>2, <3>3 DEF Agrees, Final, Taken
  <2> QED
    BY <1>2, <2>1, <2>2, <2>3, <2>4, FurtherKept DEF Basic
<1> QED
  BY <1>1, <1>2 DEF CarryDirective

\* The loop ends behind the last directive.
LEMMA LeaveWalks == ASSUME Basic, Walked, LeaveLoop PROVE Walked'
<1>1. /\ pc = "carry" /\ next > Len(parsed) /\ UNCHANGED <<tree, gomod, contextMod>>
  BY DEF LeaveLoop, source, context
<1>2. next = Len(gomod) + 1
  BY <1>1, GoModShape DEF Basic, TypeOK, FromGoMod, Loop, Walked
<1>3. CASE rewrite /\ Goto("write")
  BY <1>1, <1>2, <1>3 DEF Goto, loop, Walked, Loop, Looping, Agrees, Final, Taken, AcceptedBelow, Accepted
<1>4. CASE ~rewrite /\ Return("done")
  <2>1. contextMod = gomod /\ \A i \in DOMAIN gomod : i < next => ~Taken(gomod[i])
    BY <1>1, <1>4 DEF Walked, Loop
  <2>2. Agrees(contextMod, Len(gomod) + 1)
    BY <1>2, <2>1 DEF Agrees, Final
  <2>3. AcceptedBelow(Len(gomod) + 1)
    BY <1>1, <1>2 DEF Walked, Loop
  <2>4. Agrees(contextMod, Len(gomod) + 1)' /\ AcceptedBelow(Len(gomod) + 1)'
    BY <1>1, <2>2, <2>3 DEF Agrees, Final, Taken, AcceptedBelow, Accepted
  <2> QED
    BY <1>4, <2>4 DEF Return, Walked, Loop, Looping
<1> QED
  BY <1>3, <1>4 DEF LeaveLoop

LEMMA WriteWalks == ASSUME Basic, Walked, WriteGoMod PROVE Walked'
<1>1. pc = "write" /\ UNCHANGED <<tree, gomod>>
  BY DEF WriteGoMod, source
<1>2. CASE Fail
  BY <1>2 DEF Fail, Return, Walked, Loop, Looping
<1>3. CASE contextMod' = parsed /\ Return("done")
  <2>1. Agrees(parsed, Len(gomod) + 1) /\ AcceptedBelow(Len(gomod) + 1)
    BY <1>1 DEF Walked, Loop
  <2>2. Agrees(contextMod, Len(gomod) + 1)' /\ AcceptedBelow(Len(gomod) + 1)'
    BY <1>1, <1>3, <2>1 DEF Agrees, Final, Taken, AcceptedBelow, Accepted
  <2> QED
    BY <1>3, <2>2 DEF Return, Walked, Loop, Looping
<1> QED
  BY <1>2, <1>3 DEF WriteGoMod

LEMMA ParseWalks == ASSUME Basic, Walked, ParseGoMod PROVE Walked'
<1>1. pc = "parse" /\ contextMod = gomod /\ UNCHANGED <<tree, gomod, contextMod>>
  BY DEF ParseGoMod, source, context, Walked
<1>2. CASE pc' = "clear" /\ parsed' = gomod /\ UNCHANGED <<next, rewrite>>
  <2>1. next = 1 /\ ~rewrite /\ Len(gomod) \in Nat /\ DOMAIN gomod = 1..Len(gomod)
    BY <1>1, GoModShape DEF Walked, Looping, Basic
  <2>2. ~\E i \in DOMAIN gomod : i < 1
    BY <2>1
  <2>3. Agrees(gomod, 1) /\ AcceptedBelow(1) /\ 1 <= Len(gomod) + 1
    BY <2>1, <2>2 DEF Agrees, Final, AcceptedBelow
  <2>4. Agrees(parsed, next)' /\ AcceptedBelow(next)'
    BY <1>1, <1>2, <2>1, <2>3 DEF Agrees, Final, Taken, AcceptedBelow, Accepted
  <2> QED
    BY <1>1, <1>2, <2>1, <2>2, <2>3, <2>4 DEF Walked, Loop, Looping
<1>3. CASE ~Replacing /\ Return("done")
  <2>1. Agrees(gomod, Len(gomod) + 1) /\ AcceptedBelow(Len(gomod) + 1)
    BY <1>3 DEF Replacing, Agrees, Final, Taken, AcceptedBelow
  <2>2. Agrees(contextMod, Len(gomod) + 1)' /\ AcceptedBelow(Len(gomod) + 1)'
    BY <1>1, <2>1 DEF Agrees, Final, Taken, AcceptedBelow, Accepted
  <2> QED
    BY <1>3, <2>2 DEF Return, Walked, Loop, Looping
<1> QED
  BY <1>2, <1>3 DEF ParseGoMod, Replacing

LEMMA WalkedStep == ASSUME DistinctReplaces PROVE Basic /\ Walked /\ [Next]_vars => Walked'
<1> SUFFICES ASSUME Basic, Walked, [Next]_vars PROVE Walked'
  OBVIOUS
<1>1. ASSUME (\E f \in Edited : Edit(f)) \/ EditGoMod PROVE Walked'
  <2>1. pc' = "idle" /\ pc \notin Looping /\ UNCHANGED loop
    BY <1>1 DEF Edit, EditGoMod, Resting, Looping
  <2> QED
    BY <2>1 DEF loop, Walked, Loop, Looping
<1>2. ASSUME Build PROVE Walked'
  BY <1>2 DEF Build, Resting, Goto, loop, Walked, Loop, Looping
<1>3. ASSUME CopyModule PROVE Walked'
  <2>1. pc = "copy"
    BY <1>3 DEF CopyModule
  <2>2. CASE Fail
    BY <2>2 DEF Fail, Return, Walked, Loop, Looping
  <2>3. CASE contextMod' = gomod /\ UNCHANGED gomod /\ Goto("parse")
    BY <2>1, <2>3 DEF Goto, loop, Walked, Loop, Looping
  <2> QED
    BY <1>3, <2>2, <2>3 DEF CopyModule, source
<1>4. ASSUME ClearCarry PROVE Walked'
  <2>1. pc = "clear" /\ UNCHANGED <<tree, gomod, contextMod>>
    BY <1>4 DEF ClearCarry, source
  <2>2. CASE Fail
    BY <2>2 DEF Fail, Return, Walked, Loop, Looping
  <2>3. CASE Goto("carry")
    BY <2>1, <2>3 DEF Goto, loop, Walked, Loop, Looping, Agrees, Final, Taken, AcceptedBelow, Accepted
  <2> QED
    BY <1>4, <2>2, <2>3 DEF ClearCarry
<1>5. ASSUME RefuseDirective PROVE Walked'
  BY <1>5 DEF RefuseDirective, Fail, Return, Walked, Loop, Looping
<1>6. CASE UNCHANGED vars
  BY <1>6 DEF vars, source, loop, context, Walked, Agrees, Final, Taken, AcceptedBelow, Accepted
<1> QED
  BY <1>1, <1>2, <1>3, <1>4, <1>5, <1>6, ParseWalks, SkipWalks, CarryWalks, LeaveWalks, WriteWalks
  DEF Next, CarryLocalReplacements

LEMMA WalkedAlways == ASSUME DistinctReplaces PROVE Spec => []Walked
BY WalkedInit, WalkedStep, BasicAlways, PTL DEF Spec

\* However many emissions ran or failed, nothing outside the repository is ever
\* carried, and no build succeeds over a directive that points there
\* (replace.go:113-118), if no directive shadows another.
THEOREM OutsideIsRefused == ASSUME DistinctReplaces PROVE Spec => []RefusesOutside
<1>1. Basic /\ Walked => RefusesOutside
  <2> SUFFICES ASSUME Basic, Walked, Built, NEW i \in DOMAIN gomod, Local(gomod[i])
               PROVE  gomod[i].target # Missing /\ Within(gomod[i].target, Repository)
    BY DEF RefusesOutside, Basic, Contains
  <2>1. i < Len(gomod) + 1
    BY GoModShape DEF Basic
  <2>2. Accepted(gomod[i])
    BY <2>1 DEF Walked, Built, AcceptedBelow
  <2> QED
    BY <2>2, PlacesAssumption DEF Accepted
<1> QED
  BY <1>1, BasicAlways, WalkedAlways, PTL

-----------------------------------------------------------------------------
(* Outer directories come first: what exists at a destination is whole. *)

Whole(d) == \A e \in Tree(d.target) : carried[e] = tree[e]
TakenBelow(n) == {i \in DOMAIN gomod : i < n /\ Taken(gomod[i])}
Carries ==
  /\ pc \in Looping =>
       /\ \A i \in TakenBelow(next) : Whole(gomod[i])
       /\ \A e \in Files : carried[e] # Nothing =>
            \E i \in TakenBelow(next) : Within(e, gomod[i].target)
  /\ pc = "done" => \A i \in TakenBelow(Len(gomod) + 1) : Whole(gomod[i])

LEMMA CarriesInit == Init => Carries
BY DEF Init, Carries, Looping

\* What is at the destination was carried with a directory that contains it.
LEMMA ExistingIsWhole ==
  ASSUME OuterFirst, Basic, Carries, CarryDirective, Exists(Target)
  PROVE  \A e \in Tree(Target) : carried[e] = tree[e]
<1>1. /\ pc \in Looping /\ next \in DOMAIN gomod /\ Target = gomod[next].target /\ Target \in Dirs
  BY AtHand DEF CarryDirective, InCarry, Looping
<1>2. PICK e \in Tree(Target) : carried[e] # Nothing
  BY DEF Exists
<1>3. e \in Files /\ Within(e, Target)
  BY <1>2 DEF Tree
<1>4. PICK i \in TakenBelow(next) : Within(e, gomod[i].target)
  BY <1>1, <1>2, <1>3 DEF Carries
<1>5. i \in DOMAIN gomod /\ i < next /\ gomod[i].target \in Dirs
  BY <1>4, UnderAssumption DEF TakenBelow, Within
<1>6. Within(Target, gomod[i].target)
  <2>1. CASE Within(gomod[i].target, Target)
    <3>1. gomod[i].target = gomod[next].target
      BY <1>1, <1>5, <2>1 DEF OuterFirst, Basic, TypeOK
    <3> QED
      BY <1>1, <3>1, UnderAssumption
  <2> QED
    BY <1>1, <1>3, <1>4, <1>5, <2>1, UnderAssumption DEF Places
<1>7. Tree(Target) \subseteq Tree(gomod[i].target)
  BY <1>1, <1>5, <1>6, UnderAssumption DEF Tree, Places
<1> QED
  BY <1>1, <1>4, <1>7 DEF Carries, Whole

LEMMA CarryCarries ==
  ASSUME OuterFirst, Basic, Walked, Carries, CarryDirective
  PROVE  Carries'
<1>1. CASE Fail
  BY <1>1 DEF Fail, Return, Carries, Looping
<1>2. CASE /\ carried' = IF Exists(Target) THEN carried ELSE Copy(carried, Tree(Target))
           /\ Advance /\ UNCHANGED pc
  <2>1. /\ UNCHANGED <<tree, gomod>> /\ next' = next + 1 /\ pc = "carry" /\ pc' = "carry"
        /\ next \in DOMAIN gomod /\ Target = gomod[next].target /\ Target \in Dirs
    BY <1>2, AtHand DEF CarryDirective, InCarry, Advance, source
  <2>2. \A i \in DOMAIN gomod : i < next + 1 <=> i < next \/ i = next
    BY <2>1, GoModShape DEF Basic
  <2>3. Taken(gomod[next])
    BY <2>1, AtHand DEF CarryDirective, Taken, Inside
  <2>4. TakenBelow(next)' = TakenBelow(next) \cup {next}
    BY <2>1, <2>2, <2>3 DEF TakenBelow, Taken
  <2>5. \A e \in Tree(Target) : carried'[e] = tree[e]
    BY <1>2, ExistingIsWhole, CarriesWhole
  <2>6. \A e \in Files : carried'[e] = carried[e] \/ (Within(e, Target) /\ carried'[e] = tree[e])
    <3>1. \A e \in Files : carried'[e] = carried[e] \/ Within(e, Target)
      BY CarriesTarget
    <3> QED
      BY <2>5, <3>1 DEF Tree
  <2>7. ASSUME NEW i \in TakenBelow(next)', NEW e \in Tree(gomod[i].target) PROVE carried'[e] = tree[e]
    <3>1. CASE i = next
      BY <2>1, <2>5, <2>7, <3>1
    <3>2. CASE i \in TakenBelow(next)
      BY <2>1, <2>6, <2>7, <3>2 DEF Carries, Looping, Whole, Tree
    <3> QED
      BY <2>4, <3>1, <3>2
  <2>8. ASSUME NEW e \in Files, carried'[e] # Nothing
        PROVE  \E i \in TakenBelow(next)' : Within(e, gomod[i].target)
    BY <2>1, <2>4, <2>6, <2>8 DEF Carries, Looping
  <2> QED
    BY <2>1, <2>7, <2>8 DEF Carries, Looping, Whole
<1> QED
  BY <1>1, <1>2 DEF CarryDirective

LEMMA CarriesStep ==
  ASSUME OuterFirst PROVE Basic /\ Walked /\ Carries /\ [Next]_vars => Carries'
<1> SUFFICES ASSUME Basic, Walked, Carries, [Next]_vars PROVE Carries'
  OBVIOUS
<1> USE DEF Carries, Looping
<1>1. ASSUME pc' \notin {"carry", "write", "done"} PROVE Carries'
  BY <1>1
<1>2. ASSUME (\E f \in Edited : Edit(f)) \/ EditGoMod \/ Build PROVE Carries'
  BY <1>1, <1>2 DEF Edit, EditGoMod, Build, Goto
<1>3. ASSUME CopyModule PROVE Carries'
  BY <1>1, <1>3 DEF CopyModule, Fail, Return, Goto
<1>4. ASSUME ParseGoMod PROVE Carries'
  <2>1. CASE pc' = "clear"
    BY <1>1, <2>1
  <2>2. CASE ~Replacing /\ UNCHANGED gomod /\ pc' = "done"
    BY <2>2 DEF Replacing, TakenBelow, Taken
  <2> QED
    BY <1>4, <2>1, <2>2 DEF ParseGoMod, Return, Replacing, source
<1>5. ASSUME ClearCarry PROVE Carries'
  <2>1. CASE Fail
    BY <1>1, <2>1 DEF Fail, Return
  <2>2. CASE carried' = [f \in Files |-> Nothing] /\ Goto("carry")
    <3>1. next' = 1 /\ UNCHANGED gomod /\ pc' = "carry"
      BY <1>5, <2>2 DEF ClearCarry, Goto, loop, Walked, source
    <3>2. TakenBelow(next)' = {}
      BY <3>1, GoModShape DEF TakenBelow, Basic
    <3> QED
      BY <2>2, <3>1, <3>2
  <2> QED
    BY <1>5, <2>1, <2>2 DEF ClearCarry
<1>6. ASSUME SkipDirective PROVE Carries'
  <2>1. /\ UNCHANGED <<tree, gomod, carried, pc>> /\ next' = next + 1 /\ pc = "carry"
        /\ next \in DOMAIN gomod
    BY <1>6, GoModShape DEF SkipDirective, InCarry, Advance, source, context, Basic, TypeOK, FromGoMod, Loop
  <2>2. \A i \in DOMAIN gomod : i < next + 1 <=> i < next \/ i = next
    BY <2>1, GoModShape DEF Basic
  <2>3. ~Taken(gomod[next])
    <3>1. parsed[next] = gomod[next]
      BY <2>1, GoModShape DEF Walked, Agrees, Final, Loop, Basic
    <3> QED
      BY <1>6, <3>1 DEF SkipDirective, Taken, Inside, Target
  <2>4. TakenBelow(next)' = TakenBelow(next)
    BY <2>1, <2>2, <2>3 DEF TakenBelow, Taken
  <2> QED
    BY <2>1, <2>4 DEF Whole
<1>7. ASSUME RefuseDirective PROVE Carries'
  BY <1>1, <1>7 DEF RefuseDirective, Fail, Return
<1>8. ASSUME CarryDirective PROVE Carries'
  BY <1>8, CarryCarries
<1>9. ASSUME LeaveLoop PROVE Carries'
  <2>1. pc = "carry" /\ UNCHANGED <<tree, gomod, carried>>
    BY <1>9 DEF LeaveLoop, source, context
  <2>2. next = Len(gomod) + 1
    BY <1>9, <2>1, GoModShape DEF LeaveLoop, Basic, TypeOK, FromGoMod, Loop, Walked
  <2> QED
    BY <1>9, <2>1, <2>2 DEF LeaveLoop, Goto, Return, loop, Whole, TakenBelow, Taken
<1>10. ASSUME WriteGoMod PROVE Carries'
  <2>1. pc = "write" /\ UNCHANGED <<tree, gomod, carried>> /\ next = Len(gomod) + 1
    BY <1>10 DEF WriteGoMod, source, Walked
  <2> QED
    BY <1>10, <2>1 DEF WriteGoMod, Fail, Return, Whole, TakenBelow, Taken
<1>11. CASE UNCHANGED vars
  BY <1>11 DEF vars, source, loop, context, Whole, TakenBelow, Taken
<1> QED
  BY <1>2, <1>3, <1>4, <1>5, <1>6, <1>7, <1>8, <1>9, <1>10, <1>11 DEF Next, CarryLocalReplacements

\* A built context resolves what the host resolves (replace.go:36-40), file for
\* file, for every checkout and whatever was there before, when no directive
\* shadows another and none names a directory before one that contains it; only
\* inside the module may a file remain that the host has deleted.
THEOREM ContextResolvesAsHost ==
  ASSUME DistinctReplaces, OuterFirst PROVE Spec => []ResolvesAsHost
<1>1. Basic /\ Walked /\ Carries => ResolvesAsHost
  <2> SUFFICES ASSUME Basic, Walked, Carries, Built, NEW n \in Names, NEW v \in Releases
               PROVE  /\ {contextMod[i].target : i \in Applied(contextMod, n, v)}
                           = {gomod[i].target : i \in Applied(gomod, n, v)}
                      /\ \A i \in Applied(contextMod, n, v) : Faithful(contextMod[i])
    BY DEF ResolvesAsHost
  <2>1. \A i \in DOMAIN gomod : i < Len(gomod) + 1 /\ gomod[i] \in Directives
    BY GoModShape DEF Basic
  <2>2. /\ DOMAIN contextMod = DOMAIN gomod
        /\ \A i \in DOMAIN gomod :
             contextMod[i] = IF Taken(gomod[i]) THEN [gomod[i] EXCEPT !.at = "carried"] ELSE gomod[i]
    BY <2>1 DEF Walked, Built, Agrees, Final
  <2>3. \A i \in DOMAIN gomod :
          /\ contextMod[i].name = gomod[i].name /\ contextMod[i].version = gomod[i].version
          /\ contextMod[i].target = gomod[i].target
    BY <2>1, <2>2 DEF Directives
  <2>4. Applied(contextMod, n, v) = Applied(gomod, n, v)
    BY <2>2, <2>3 DEF Applied, Replaces
  <2>5. ASSUME NEW i \in DOMAIN gomod PROVE Faithful(contextMod[i])
    <3>1. CASE Taken(gomod[i])
      <4>1. contextMod[i].at = "carried"
        BY <2>1, <2>2, <3>1 DEF Directives
      <4>2. Whole(gomod[i])
        BY <2>1, <3>1 DEF Carries, TakenBelow, Built
      <4> QED
        BY <2>3, <4>1, <4>2 DEF Faithful, Whole
    <3>2. CASE ~Taken(gomod[i])
      <4>1. contextMod[i] = gomod[i] /\ gomod[i].at # "carried"
        BY <2>1, <2>2, <3>2 DEF Directives
      <4>2. CASE Local(gomod[i])
        <5>1. Within(gomod[i].target, Module)
          BY <3>2, <4>2 DEF Taken
        <5>2. gomod[i].target \in Dirs
          BY <2>1, <4>2 DEF Walked, Built, AcceptedBelow, Accepted
        <5>3. Tree(gomod[i].target) \subseteq Tree(Module)
          BY <5>1, <5>2, UnderAssumption, PlacesAssumption DEF Tree, Places
        <5>4. CopyCurrent(gomod[i].target)
          BY <5>3 DEF Basic, Current, CopyCurrent, Copied, Built
        <5> QED
          BY <4>1, <5>1, <5>4 DEF Faithful
      <4> QED
        BY <4>1, <4>2 DEF Faithful
    <3> QED
      BY <3>1, <3>2
  <2> QED
    BY <2>3, <2>4, <2>5 DEF Applied
<1>2. Spec => []Carries
  BY CarriesInit, CarriesStep, BasicAlways, WalkedAlways, PTL DEF Spec
<1> QED
  BY <1>1, <1>2, BasicAlways, WalkedAlways, PTL
=============================================================================
