------------------------ MODULE SourceBinding_proofs ------------------------
(***************************************************************************)
(* The shared root and the Code server under any number of requests, Loads *)
(* and edits: serverMu, the server and the requests agree at every step,   *)
(* so no request runs in a server that another one has closed; a root      *)
(* bound from what is on disk is the directory of the go.mod; and only a   *)
(* Load that moves the root can show a request two modules.                *)
(***************************************************************************)
EXTENDS SourceBinding, TLAPS

LEMMA BindingInit == Init => Binding
<1> SUFFICES ASSUME Init PROVE Binding
  OBVIOUS
<1>1. dirOf \in Seq(Dirs \cup {Cwd}) /\ Len(dirOf) = 1
  BY DEF Init
<1>2. TypeOK
  BY <1>1, BindingBounds, DirsAssumption DEF Init, TypeOK, Ops
<1>3. closed = 1..(server - 1)
  BY <1>1 DEF Init, server
<1> QED
  BY <1>1, <1>2, <1>3, DirsAssumption DEF Init, Binding, Running, server

\* What moves the root, or the project under it, leaves the requests alone.
LEMMA AroundRequests ==
  ASSUME Binding, TypeOK', UNCHANGED requests
  PROVE  Binding'
BY DEF Binding, requests, codeServer, Running, server

LEMMA FallbackType ==
  ASSUME NEW dir \in Sources
  PROVE  WithModuleFallback(dir) \in Dirs
BY DEF WithModuleFallback, Dirs

\* The parts of the type that the requests own.
RequestType ==
  /\ serverMu \in Calls \cup {NoCall}
  /\ dirOf \in Seq(Dirs \cup {Cwd})
  /\ initialized \in Dirs \cup {NoDir}
  /\ closed \in SUBSET Nat
  /\ pc \in [Calls -> {"idle", "lock", "resolve", "init", "tool", "tidy"}]
  /\ op \in [Calls -> Ops]
  /\ using \in [Calls -> Nat]

LEMMA RequestTypeKept == RequestType /\ UNCHANGED requests => RequestType'
BY DEF RequestType, requests, codeServer, Dirs, Ops

LEMMA EditType == TypeOK /\ Edit => TypeOK'
<1> SUFFICES ASSUME TypeOK, Edit PROVE TypeOK'
  OBVIOUS
<1>1. RequestType'
  BY RequestTypeKept DEF TypeOK, RequestType, Edit
<1>2. UNCHANGED <<configured, source, rebound, moved, loadPc, found, loads>>
  BY DEF Edit
<1>3. rootFresh' \in BOOLEAN /\ loadFresh' \in BOOLEAN
  BY Zenon DEF Edit
<1>4. declared' \in Sources /\ mods' \in SUBSET Dirs /\ edits' \in Nat
  BY DEF Edit, TypeOK
<1> QED
  BY <1>1, <1>2, <1>3, <1>4 DEF TypeOK, RequestType

LEMMA LoadType == TypeOK /\ (RuntimeLoad \/ BuilderLoad) => TypeOK'
<1> SUFFICES ASSUME TypeOK, RuntimeLoad \/ BuilderLoad PROVE TypeOK'
  OBVIOUS
<1> USE DEF project, binding, requests, codeServer, Ops, Dirs
<1>1. CASE \E next \in {"locate", "rebind"} : LoadSettings(next)
  BY <1>1 DEF TypeOK, LoadSettings
<1>2. CASE LocateSource
  BY <1>2, FallbackType DEF TypeOK, LocateSource
<1>3. ASSUME NEW dir \in Dirs \cup {NoDir}, SetSourceLocation(dir), rebound' \in BOOLEAN
      PROVE  TypeOK'
  <2>1. rootFresh' \in BOOLEAN /\ loadFresh' \in BOOLEAN
    BY <1>3, Zenon DEF SetSourceLocation, TypeOK
  <2>2. loads' \in Nat
    BY <1>3 DEF SetSourceLocation, TypeOK
  <2>3. moved' \in SUBSET Calls
    BY <1>3 DEF SetSourceLocation, TypeOK
  <2> QED
    BY <1>3, <2>1, <2>2, <2>3 DEF TypeOK, SetSourceLocation
<1>4. CASE BindSource
  BY <1>3, <1>4 DEF BindSource, TypeOK
<1>5. CASE RebindSource
  BY <1>3, <1>5 DEF RebindSource, TypeOK, Dirs
<1> QED
  BY <1>1, <1>2, <1>4, <1>5 DEF RuntimeLoad, BuilderLoad

LEMMA ResolveType ==
  ASSUME TypeOK, Resolve \/ ResolveFails
  PROVE  /\ configured' \in Sources /\ source' \in Dirs \cup {NoDir}
         /\ rootFresh' \in BOOLEAN /\ rebound' \in BOOLEAN /\ moved' \in SUBSET Calls
<1>1. CASE ResolveFails \/ source # NoDir
  BY <1>1 DEF TypeOK, ResolveFails, Resolve, binding
<1>2. CASE Resolve /\ source = NoDir
  <2>1. PICK dir \in {configured, declared} :
           /\ configured' = dir /\ source' = WithModuleFallback(dir)
           /\ rootFresh' = (dir = declared) /\ UNCHANGED <<rebound, moved>>
    BY <1>2 DEF Resolve
  <2>2. dir \in Sources
    BY <2>1 DEF TypeOK
  <2>3. source' \in Dirs
    BY <2>1, <2>2, FallbackType
  <2>4. rootFresh' \in BOOLEAN
    BY <2>1
  <2> QED
    BY <2>1, <2>2, <2>3, <2>4 DEF TypeOK
<1> QED
  BY <1>1, <1>2

\* A request that ends gives serverMu up and leaves the server alone.
LEMMA LeaveStep ==
  ASSUME Binding, NEW c \in Calls, serverMu = c, Leave(c), UNCHANGED <<project, load, codeServer>>,
         configured' \in Sources, source' \in Dirs \cup {NoDir},
         rootFresh' \in BOOLEAN, rebound' \in BOOLEAN, moved' \in SUBSET Calls
  PROVE  Binding'
<1> USE DirsAssumption
<1>1. /\ serverMu' = NoCall /\ using' = [using EXCEPT ![c] = 0]
      /\ op' = [op EXCEPT ![c] = "fix"] /\ pc' = [pc EXCEPT ![c] = "idle"]
      /\ UNCHANGED <<declared, mods, edits, loadPc, found, loads, loadFresh, dirOf, initialized, closed>>
  BY DEF Leave, Goto, project, load, codeServer
<1>2. TypeOK'
  <2>1. op' \in [Calls -> Ops]
    BY <1>1 DEF Binding, TypeOK, Ops
  <2>2. using' \in [Calls -> Nat] /\ pc' \in [Calls -> {"idle", "lock", "resolve", "init", "tool", "tidy"}]
    BY <1>1 DEF Binding, TypeOK
  <2> QED
    BY <1>1, <2>1, <2>2 DEF Binding, TypeOK, Dirs, Ops
<1>3. \A d \in Calls : /\ pc'[d] \notin {"idle", "lock"} <=> serverMu' = d
                       /\ pc'[d] \in {"tool", "tidy"} => using'[d] = server
  BY <1>1 DEF Binding, TypeOK, Running
<1> QED
  BY <1>1, <1>2, <1>3 DEF Binding, Running, server

\* Labels of one request change, the server does not.
LEMMA RequestStep ==
  ASSUME Binding, NEW c \in Calls, Request(c) \/ Enter(c) \/ RunTool(c) \/ Tidy(c)
  PROVE  Binding'
<1> USE DirsAssumption
    DEF Binding, TypeOK, Running, project, binding, load, codeServer, server, Goto, Dirs, Ops
<1>1. CASE Request(c)
  BY <1>1 DEF Request
<1>2. CASE Enter(c)
  BY <1>2 DEF Enter, MayEnter
<1>3. CASE ToolEnds(c) /\ pc[c] \in {"tool", "tidy"}
           /\ UNCHANGED <<project, configured, source, rootFresh, rebound, load, codeServer>>
  BY <1>3, LeaveStep DEF ToolEnds
<1>4. CASE RunTool(c)
  <2>1. CASE ToolEnds(c)
    BY <1>3, <1>4, <2>1 DEF RunTool
  <2>2. CASE ~ToolEnds(c)
    BY <1>4, <2>2 DEF RunTool
  <2> QED
    BY <2>1, <2>2
<1>5. CASE Tidy(c)
  BY <1>3, <1>5 DEF Tidy
<1> QED
  BY <1>1, <1>2, <1>4, <1>5

LEMMA ResolveStep ==
  ASSUME Binding, NEW c \in Calls, ResolveSourceLocation(c)
  PROVE  Binding'
<1> USE DirsAssumption, ResolveType
<1>1. TypeOK /\ serverMu = c /\ pc[c] = "resolve"
  BY DEF Binding, ResolveSourceLocation
<1>2. CASE ResolveFails /\ Leave(c)
  BY <1>1, <1>2, LeaveStep DEF ResolveSourceLocation
<1>3. CASE Resolve /\ Goto(c, "init") /\ UNCHANGED <<serverMu, using, op>>
  <2>1. UNCHANGED <<declared, mods, edits, loadPc, found, loads, loadFresh,
                    dirOf, initialized, closed, serverMu, using, op>>
        /\ pc' = [pc EXCEPT ![c] = "init"]
    BY <1>3 DEF ResolveSourceLocation, project, load, codeServer, Goto
  <2>2. TypeOK'
    BY <1>1, <1>3, <2>1 DEF TypeOK, Dirs, Ops
  <2> QED
    BY <1>1, <2>1, <2>2 DEF Binding, TypeOK, Running, server
<1> QED
  BY <1>2, <1>3 DEF ResolveSourceLocation

LEMMA OutsideStep ==
  ASSUME Binding, ResolveOutside \/ FailOutside
  PROVE  Binding'
<1>1. TypeOK /\ UNCHANGED <<project, load, requests>>
  BY DEF Binding, ResolveOutside, FailOutside
<1>2. TypeOK'
  BY <1>1, ResolveType DEF TypeOK, ResolveOutside, FailOutside, project, load, requests, codeServer, Dirs, Ops
<1> QED
  BY <1>1, <1>2, AroundRequests

LEMMA InitServerStep ==
  ASSUME Binding, NEW c \in Calls, initServer(c)
  PROVE  Binding'
<1> USE DirsAssumption DEF codeServer, Dirs
<1>1. TypeOK /\ serverMu = c /\ pc[c] = "init" /\ SourceDir \in Dirs
      /\ \A d \in Calls : d # c => pc[d] \in {"idle", "lock"}
  BY DEF initServer, Binding, SourceDir, TypeOK
<1>2. UNCHANGED <<declared, mods, edits, configured, source, rootFresh, rebound, moved,
                  loadPc, found, loads, loadFresh>>
  BY DEF initServer, project, binding, load
<1>3. \/ op[c] = "ensureInit" /\ serverMu' = NoCall /\ using' = [using EXCEPT ![c] = 0]
         /\ pc' = [pc EXCEPT ![c] = "idle"] /\ op' = [op EXCEPT ![c] = "fix"]
      \/ serverMu' = serverMu /\ using' = [using EXCEPT ![c] = server']
         /\ pc' = [pc EXCEPT ![c] = "tool"] /\ op' = op
  BY DEF initServer, Leave, Goto
<1>4. dirOf' \in Seq(Dirs \cup {Cwd}) /\ Len(dirOf') > 0
      /\ initialized' \in Dirs \cup {NoDir} /\ closed' \in SUBSET Nat
      /\ (initialized' = NoDir <=> Len(dirOf') = 1)
      /\ (Len(dirOf') # 1 => dirOf'[Len(dirOf')] = initialized')
      /\ closed' = 1..(Len(dirOf') - 1)
  <2>1. CASE UpToDate
    BY <2>1 DEF initServer, Binding, server, TypeOK
  <2>2. CASE ~UpToDate
    <3>1. /\ dirOf' = Append(dirOf, SourceDir) /\ initialized' = SourceDir
          /\ closed' = closed \cup {Len(dirOf)}
      BY <2>2 DEF initServer, server
    <3>2. dirOf' \in Seq(Dirs \cup {Cwd}) /\ Len(dirOf') = Len(dirOf) + 1
          /\ dirOf'[Len(dirOf) + 1] = SourceDir /\ Len(dirOf) \in Nat
      BY <1>1, <3>1 DEF TypeOK
    <3>3. closed' = 1..Len(dirOf) /\ Len(dirOf) > 0
      BY <3>1, <3>2 DEF Binding, server
    <3>4. Len(dirOf') - 1 = Len(dirOf)
      BY <3>2
    <3>5. initialized' \in Dirs /\ initialized' # NoDir
      BY <1>1, <3>1
    <3>6. closed' \in SUBSET Nat
      BY <3>2, <3>3
    <3> QED
      BY <3>1, <3>2, <3>3, <3>4, <3>5, <3>6
  <2> QED
    BY <2>1, <2>2
<1>5. TypeOK'
  <2>0. op' \in [Calls -> Ops]
    BY <1>1, <1>3 DEF TypeOK, Ops
  <2>1. Len(dirOf') \in Nat
    BY <1>4
  <2>2. serverMu' \in Calls \cup {NoCall}
        /\ pc' \in [Calls -> {"idle", "lock", "resolve", "init", "tool", "tidy"}]
    BY <1>1, <1>3 DEF TypeOK
  <2>3. using' \in [Calls -> Nat]
    <3>1. using \in [Calls -> Nat] /\ server' \in Nat
      BY <1>1, <2>1 DEF TypeOK, server
    <3> QED
      BY <1>3, <3>1
  <2> QED
    BY <1>1, <1>2, <1>4, <2>0, <2>2, <2>3 DEF TypeOK, Ops
<1>6. \A d \in Calls : /\ pc'[d] \notin {"idle", "lock"} <=> serverMu' = d
                       /\ pc'[d] \in {"tool", "tidy"} => using'[d] = server'
  BY <1>1, <1>3 DEF TypeOK
<1> QED
  BY <1>4, <1>5, <1>6 DEF Binding, Running, server

LEMMA BindingStep == Binding /\ [Next]_vars => Binding'
<1> SUFFICES ASSUME Binding, [Next]_vars PROVE Binding'
  OBVIOUS
<1>1. CASE Edit
  BY <1>1, EditType, AroundRequests DEF Binding, Edit
<1>2. CASE RuntimeLoad \/ BuilderLoad
  <2>1. UNCHANGED requests
    BY <1>2 DEF RuntimeLoad, BuilderLoad, LoadSettings, LocateSource, BindSource, RebindSource,
                SetSourceLocation
  <2> QED
    BY <1>2, <2>1, LoadType, AroundRequests DEF Binding
<1>3. ASSUME NEW c \in Calls, Request(c) \/ Execute(c) PROVE Binding'
  BY <1>3, RequestStep, ResolveStep, InitServerStep DEF Execute
<1>4. CASE UNCHANGED vars
  BY <1>4 DEF vars, project, binding, load, requests, codeServer, Binding, TypeOK, Running,
              server, Dirs, Ops
<1> QED
  BY <1>1, <1>2, <1>3, <1>4, OutsideStep DEF Next

\* For every number of requests, Loads and edits, one request is inside serverMu
\* at a time, and it runs in the only server that is open.
THEOREM CodeBinding == Spec => []Binding
BY BindingInit, BindingStep, PTL DEF Spec

\* No request ever runs in a server that another one has closed, however often
\* the root moves meanwhile.
THEOREM NeverClosedUnderneath == Spec => []ServesOpenServer
<1>1. Binding => ServesOpenServer
  BY DEF Binding, ServesOpenServer, TypeOK, server
<1> QED
  BY <1>1, CodeBinding, PTL

-----------------------------------------------------------------------------
(* The root and what it rests on. *)

\* A Load works with what is on disk until it is edited, and so does the root; and
\* every way to bind it but Builder.Load then agrees on the value.
Rests ==
  /\ loadFresh => loadPc # "idle" /\ configured = declared
  /\ loadPc = "bind" => found \in Dirs
  /\ loadFresh /\ loadPc = "bind" => found = WithModuleFallback(configured)
  /\ rootFresh => source # NoDir /\ configured = declared
  /\ rootFresh /\ ~rebound => source = WithModuleFallback(configured)

LEMMA RestsInit == Init => Rests
BY DEF Init, Rests

LEMMA RestsStep == Binding /\ Rests /\ [Next]_vars => Rests'
<1> SUFFICES ASSUME Binding, Rests, [Next]_vars PROVE Rests'
  OBVIOUS
<1> USE DirsAssumption DEF Rests, WithModuleFallback, project, binding, load
<1>1. CASE Edit
  BY <1>1 DEF Edit
<1>2. CASE \E next \in {"locate", "rebind"} : LoadSettings(next)
  BY <1>2 DEF LoadSettings
<1>3. CASE LocateSource
  BY <1>3, FallbackType DEF LocateSource, Binding, TypeOK, Dirs
<1>4. CASE BindSource
  BY <1>4, FallbackType DEF BindSource, SetSourceLocation, Binding, TypeOK, Dirs
<1>5. CASE RebindSource
  BY <1>5 DEF RebindSource, SetSourceLocation, Binding, TypeOK, Dirs
<1>6. CASE Resolve /\ UNCHANGED <<project, load>>
  BY <1>6 DEF Resolve, Binding, TypeOK, Dirs
<1>7. CASE ResolveFails /\ UNCHANGED <<project, load>>
  BY <1>7 DEF ResolveFails
<1>8. ASSUME NEW c \in Calls, Request(c) \/ Execute(c) PROVE Rests'
  <2>1. CASE ResolveSourceLocation(c)
    BY <1>6, <1>7, <2>1 DEF ResolveSourceLocation
  <2>2. CASE ~ResolveSourceLocation(c)
    <3>1. UNCHANGED <<declared, mods, configured, source, rootFresh, rebound,
                      loadPc, found, loadFresh>>
      BY <1>8, <2>2 DEF Request, Execute, Enter, initServer, RunTool, Tidy
    <3> QED
      BY <3>1
  <2> QED
    BY <2>1, <2>2
<1>9. CASE UNCHANGED vars
  BY <1>9 DEF vars
<1> QED
  BY <1>1, <1>2, <1>3, <1>4, <1>5, <1>6, <1>7, <1>8, <1>9
     DEF Next, RuntimeLoad, BuilderLoad, ResolveOutside, FailOutside

LEMMA RestsAlways == Spec => []Rests
BY RestsInit, RestsStep, CodeBinding, PTL DEF Spec

\* A root bound from what is on disk is the directory of the go.mod whenever the
\* declared directory or the service root has one, unless Builder.Load bound it:
\* whichever of the Loads and the requests came first, failed, or overlapped.
THEOREM RootHoldsModule == Spec => []RuntimeBindsModule
<1>1. Binding /\ Rests => RuntimeBindsModule
  BY DEF Binding, TypeOK, Rests, RuntimeBindsModule, BoundAtModule, WithModuleFallback, Dirs
<1> QED
  BY <1>1, CodeBinding, RestsAlways, PTL

\* A bound root is moved by Loads only; and by one of the Runtime, when nobody has
\* edited anything that it or the root does not rest on, never.
THEOREM RootReaffirmed == Spec => Reaffirms
<1> DEFINE Moves == source # NoDir /\ source' # source
           Allowed == loadPc \in {"bind", "rebind"} /\ (~rootFresh \/ ~loadFresh \/ rebound \/ rebound')
<1>1. Rests /\ [Next]_vars => [Moves => Allowed]_vars
  <2> SUFFICES ASSUME Rests, Next, Moves PROVE Allowed
    OBVIOUS
  <2>1. CASE BindSource
    BY <2>1 DEF BindSource, SetSourceLocation, Rests
  <2>2. CASE RebindSource
    BY <2>2 DEF RebindSource
  <2>3. CASE ~BindSource /\ ~RebindSource
    <3>1. source' = source
      BY <2>3 DEF Next, Edit, RuntimeLoad, BuilderLoad, LoadSettings, LocateSource, ResolveOutside, FailOutside,
                  Request, Execute, Enter, ResolveSourceLocation, initServer, RunTool, Tidy,
                  Resolve, ResolveFails, binding
    <3> QED
      BY <3>1
  <2> QED
    BY <2>1, <2>2, <2>3
<1> QED
  BY <1>1, RestsAlways, PTL DEF Spec, Reaffirms

-----------------------------------------------------------------------------
(* The root a request works in. *)

\* A request past the resolution has a root, and one in a server looks where the
\* server does, unless a Load has moved the root since.
Settled ==
  \A c \in Calls :
    /\ pc[c] = "init" /\ op[c] # "ensureInit" => source # NoDir
    /\ Running(c) => source # NoDir /\ (c \in moved \/ source = dirOf[using[c]])

LEMMA SettledInit == Init => Settled
BY DEF Init, Settled, Running

\* Whoever moves the root leaves the requests alone and marks those it finds.
LEMMA SettledAround ==
  ASSUME Binding, Settled, UNCHANGED requests,
         \/ UNCHANGED <<source, moved>>
         \/ source = NoDir /\ source' # NoDir /\ moved' = moved
         \/ /\ source' # NoDir
            /\ moved' = IF source \in {NoDir, source'} THEN moved
                        ELSE moved \cup {c \in Calls : Running(c)}
  PROVE  Settled'
<1>1. UNCHANGED <<dirOf, pc, op, using>>
  BY DEF requests, codeServer
<1> QED
  BY <1>1 DEF Settled, Running

\* The first resolution finds nobody in a server; a later one changes nothing.
LEMMA SettledResolve ==
  ASSUME Binding, Settled, NEW c \in Calls, ResolveSourceLocation(c)
  PROVE  Settled'
<1>1. TypeOK /\ moved' = moved /\ dirOf' = dirOf /\ pc' = [pc EXCEPT ![c] = pc'[c]]
      /\ pc'[c] \in {"idle", "init"} /\ \A d \in Calls : d # c => op'[d] = op[d] /\ using'[d] = using[d]
  BY DEF ResolveSourceLocation, Leave, Goto, Binding, TypeOK, codeServer, Resolve, ResolveFails, binding
<1>2. pc'[c] = "init" => source' # NoDir
  BY <1>1, FallbackType, DirsAssumption
     DEF ResolveSourceLocation, Leave, Goto, Resolve, binding, TypeOK, Dirs
<1>3. source # NoDir => source' = source
  BY DEF ResolveSourceLocation, Resolve, ResolveFails, binding
<1>4. ASSUME NEW d \in Calls
      PROVE  /\ pc'[d] = "init" /\ op'[d] # "ensureInit" => source' # NoDir
             /\ pc'[d] \in {"tool", "tidy"}
                  => source' # NoDir /\ (d \in moved \/ source' = dirOf[using'[d]])
  <2>1. CASE d = c
    BY <1>1, <1>2, <2>1
  <2>2. CASE d # c
    <3>1. pc'[d] = pc[d] /\ op'[d] = op[d] /\ using'[d] = using[d]
      BY <1>1, <2>2 DEF TypeOK
    <3> QED
      BY <1>3, <3>1 DEF Settled, Running
  <2> QED
    BY <2>1, <2>2
<1> QED
  BY <1>1, <1>4 DEF Settled, Running

\* A server is made for the root, and the request that made it is alone.
LEMMA SettledServer ==
  ASSUME Binding, Binding', Settled, NEW c \in Calls, initServer(c)
  PROVE  Settled'
<1>1. TypeOK /\ UNCHANGED <<source, moved>> /\ pc[c] = "init"
      /\ \A d \in Calls : d # c => pc[d] \in {"idle", "lock"} /\ pc'[d] = pc[d]
  <2>1. TypeOK /\ serverMu = c /\ pc[c] = "init" /\ UNCHANGED <<source, moved>>
    BY DEF initServer, Binding, binding
  <2>2. \A d \in Calls : d # c => pc[d] \in {"idle", "lock"}
    BY <2>1 DEF Binding
  <2>3. pc' = [pc EXCEPT ![c] = "idle"] \/ pc' = [pc EXCEPT ![c] = "tool"]
    BY DEF initServer, Leave, Goto
  <2> QED
    BY <2>1, <2>2, <2>3 DEF TypeOK
<1>2. CASE op[c] = "ensureInit"
  <2>1. pc'[c] = "idle"
    BY <1>1, <1>2 DEF initServer, Leave, Goto, TypeOK
  <2> QED
    BY <1>1, <2>1 DEF Settled, Running
<1>3. CASE op[c] # "ensureInit"
  <2>1. pc'[c] = "tool" /\ using'[c] = server' /\ source # NoDir
    BY <1>1, <1>3 DEF initServer, Goto, TypeOK, Settled
  <2>2. dirOf'[server'] = source
    <3>1. SourceDir = source
      BY <2>1 DEF SourceDir
    <3>2. CASE UpToDate
      BY <2>1, <3>1, <3>2 DEF initServer, UpToDate, codeServer, Binding, server
    <3>3. CASE ~UpToDate
      BY <1>1, <3>1, <3>3 DEF initServer, server, TypeOK
    <3> QED
      BY <3>2, <3>3
  <2> QED
    BY <1>1, <2>1, <2>2 DEF Settled, Running
<1> QED
  BY <1>2, <1>3

LEMMA SettledStep == Binding /\ Binding' /\ Rests /\ Settled /\ [Next]_vars => Settled'
<1> SUFFICES ASSUME Binding, Binding', Rests, Settled, [Next]_vars PROVE Settled'
  OBVIOUS
<1>1. CASE Edit \/ \E next \in {"locate", "rebind"} : LoadSettings(next)
  BY <1>1, SettledAround DEF Edit, LoadSettings
<1>2. CASE LocateSource
  BY <1>2, SettledAround DEF LocateSource, binding
<1>3. CASE BindSource \/ RebindSource
  <2>1. PICK dir \in Dirs : SetSourceLocation(dir)
    BY <1>3 DEF BindSource, RebindSource, Rests, Binding, TypeOK, Dirs
  <2>2. source' # NoDir
    BY <2>1, DirsAssumption DEF SetSourceLocation
  <2> QED
    BY <2>1, <2>2, SettledAround DEF SetSourceLocation
<1>4. CASE ResolveOutside
  <2>1. source = NoDir => source' # NoDir /\ moved' = moved
    BY <1>4, FallbackType, DirsAssumption DEF ResolveOutside, Resolve, Binding, TypeOK, Dirs
  <2>2. source # NoDir => UNCHANGED <<source, moved>>
    BY <1>4 DEF ResolveOutside, Resolve, binding
  <2> QED
    BY <1>4, <2>1, <2>2, SettledAround DEF ResolveOutside
<1>7. CASE FailOutside
  BY <1>7, SettledAround DEF FailOutside, ResolveFails
<1>5. ASSUME NEW c \in Calls, Request(c) \/ Enter(c) \/ RunTool(c) \/ Tidy(c) PROVE Settled'
  <2> USE DEF Settled, Running, binding, codeServer, Goto, Binding, TypeOK
  <2>1. CASE Request(c)
    BY <2>1 DEF Request
  <2>2. CASE Enter(c)
    BY <2>2 DEF Enter
  <2>3. CASE RunTool(c)
    BY <2>3 DEF RunTool, ToolEnds, Leave
  <2>4. CASE Tidy(c)
    BY <2>4 DEF Tidy, ToolEnds, Leave
  <2> QED
    BY <1>5, <2>1, <2>2, <2>3, <2>4
<1>6. CASE UNCHANGED vars
  BY <1>6, SettledAround DEF vars, binding
<1> QED
  BY <1>1, <1>2, <1>3, <1>4, <1>5, <1>6, <1>7, SettledResolve, SettledServer
     DEF Next, Execute, RuntimeLoad, BuilderLoad

LEMMA SettledAlways == Spec => []Settled
BY SettledInit, SettledStep, CodeBinding, RestsAlways, PTL DEF Spec

\* The commands of a request run in the module its server serves, unless a Load
\* moved the root under it: a request that begins afterwards is in the new one.
THEOREM RequestsSeeOneModule == Spec => []OneModulePerRequest
<1>1. Settled => OneModulePerRequest
  BY DEF Settled, OneModulePerRequest, SourceDir
<1> QED
  BY <1>1, SettledAlways, PTL
=============================================================================
