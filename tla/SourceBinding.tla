---------------------------- MODULE SourceBinding ----------------------------
(***************************************************************************)
(* The source root shared by Code, Tooling, Runtime and Builder            *)
(* (Service.SourceLocation, pkg/service/service.go) and the Code server    *)
(* bound to it (pkg/code/code.go).                                         *)
(*                                                                         *)
(* The developer edits service.codefly.yaml and creates, removes or moves  *)
(* go.mod at any moment.  Runtime.Load and Builder.Load read both again    *)
(* and bind the root anew, one Load at a time, at any moment of the        *)
(* requests; read-only traffic may arrive before any Load, so Execute      *)
(* resolves the root itself.  Execute holds serverMu to its end, Load does *)
(* not take it.                                                            *)
(***************************************************************************)
EXTENDS Naturals, Sequences

CONSTANTS
  Calls,        \* goroutines that serve Code requests
  NoCall,
  Sources,      \* the directories source-dir may name, <service>/<source-dir>
  Default,      \* the one of settings that were never read
  Root,         \* the service root
  Cwd,          \* ".": the server New builds before anything is resolved
  NoDir,        \* SourceLocation == ""
  MaxLoads,     \* bound on the Loads of a behaviour that bind the root
  MaxEdits      \* bound on the edits of a behaviour

Dirs == Sources \cup {Root}

ASSUME DirsAssumption ==
  /\ Default \in Sources /\ Cwd \notin Dirs /\ NoDir \notin Dirs \cup {Cwd}
  /\ NoCall \notin Calls
ASSUME BindingBounds == MaxLoads \in Nat /\ MaxEdits \in Nat

VARIABLES
  declared,    \* source-dir of service.codefly.yaml
  mods,        \* the directories that hold a go.mod
  configured,  \* Settings.GoSourceDir(), the settings as they were read last
  source,      \* Service.SourceLocation
  loadPc,      \* where the running Load is
  found,       \* its local sourceLocation
  serverMu,    \* Code.serverMu: the call that holds it
  dirOf,       \* the root each server was created with, in creation order
  initialized, \* Code.initializedSource
  closed,      \* servers whose Close was called
  pc,          \* where each Code request is
  op,          \* what it asks for
  using,       \* the server it runs in, once initServer has returned
  loads,       \* Loads that bound the root
  edits,       \* edits so far
  rootFresh,   \* history: was the root bound from source-dir and go.mod as they are?
  loadFresh,   \* history: has nothing been edited since the running Load read the settings?
  rebound,     \* history: was it Builder.Load that bound the root last?
  moved        \* history: running requests under which a Load moved the root

codeServer == <<dirOf, initialized, closed>>
requests   == <<serverMu, codeServer, pc, op, using>>
settings   == <<declared, mods, configured>>
binding    == <<configured, source, rootFresh, rebound, moved>>
project    == <<declared, mods, edits>>
load       == <<loadPc, found, loads, loadFresh>>
vars == <<project, binding, load, requests>>

server == Len(dirOf)    \* Code.GoCodeServer: the last one created

Ops == {"fix", "addDependency", "removeDependency", "ensureInit"}
TypeOK ==
  /\ declared \in Sources /\ configured \in Sources
  /\ mods \in SUBSET Dirs
  /\ source \in Dirs \cup {NoDir}
  /\ loadPc \in {"idle", "locate", "bind", "rebind"}
  /\ found \in Dirs \cup {NoDir}
  /\ serverMu \in Calls \cup {NoCall}
  /\ dirOf \in Seq(Dirs \cup {Cwd})
  /\ initialized \in Dirs \cup {NoDir}
  /\ closed \in SUBSET Nat
  /\ pc \in [Calls -> {"idle", "lock", "resolve", "init", "tool", "tidy"}]
  /\ op \in [Calls -> Ops]
  /\ using \in [Calls -> Nat]
  /\ loads \in Nat /\ edits \in Nat
  /\ rootFresh \in BOOLEAN /\ loadFresh \in BOOLEAN /\ rebound \in BOOLEAN
  /\ moved \in SUBSET Calls

Init ==
  /\ declared \in Sources /\ mods \in SUBSET Dirs /\ edits = 0
  /\ configured = Default
  /\ source = NoDir /\ rootFresh = FALSE /\ rebound = FALSE /\ moved = {}
  /\ loadPc = "idle" /\ found = NoDir /\ loads = 0 /\ loadFresh = FALSE
  /\ serverMu = NoCall
  /\ dirOf = <<Cwd>> /\ initialized = NoDir /\ closed = {}
  /\ pc = [c \in Calls |-> "idle"]
  /\ op = [c \in Calls |-> "fix"]
  /\ using = [c \in Calls |-> 0]

Goto(c, l) == pc' = [pc EXCEPT ![c] = l]
Running(c) == pc[c] \in {"tool", "tidy"}

-----------------------------------------------------------------------------
(* The project on disk. *)

\* The developer changes source-dir, or a go.mod appears, disappears or moves.
Edit ==
  /\ edits < MaxEdits
  /\ edits' = edits + 1
  /\ \/ declared' \in Sources \ {declared} /\ UNCHANGED mods
     \/ mods' \in (SUBSET Dirs) \ {mods} /\ UNCHANGED declared
  /\ rootFresh' = FALSE /\ loadFresh' = FALSE
  /\ UNCHANGED <<configured, source, rebound, moved, loadPc, found, loads, requests>>

-----------------------------------------------------------------------------
(* Service: the shared root. *)

\* A mutant: the fallback is forgotten.
ConfiguredOnly(dir) == dir

\* A directory, unless only the service root declares a module.
WithModuleFallback(dir) == IF dir \notin mods /\ Root \in mods THEN Root ELSE dir

\* Base.Load reads the settings; reading them, or validating what was read, may
\* fail.
LoadSettings(next) ==
  /\ loadPc = "idle" /\ loads < MaxLoads
  /\ \/ configured' = declared /\ loadPc' = next /\ loadFresh' = TRUE
     \/ configured' \in {configured, declared} /\ UNCHANGED <<loadPc, loadFresh>>
  /\ UNCHANGED <<project, source, rootFresh, rebound, moved, found, loads, requests>>

\* A mutant: Load does not look for the module at the service root.
LocateConfigured ==
  /\ loadPc = "locate" /\ loadPc' = "bind"
  /\ found' = configured
  /\ UNCHANGED <<project, binding, loads, loadFresh, requests>>

\* Runtime.Load creates the configured directory, which may fail, and looks for
\* the go.mod there, then at the service root.
LocateSource ==
  /\ loadPc = "locate"
  /\ \/ found' = WithModuleFallback(configured) /\ loadPc' = "bind" /\ UNCHANGED loadFresh
     \/ loadPc' = "idle" /\ loadFresh' = FALSE /\ UNCHANGED found
  /\ UNCHANGED <<project, binding, loads, requests>>

\* A Load binds the root; what follows in it leaves the root alone, failing or not.
SetSourceLocation(dir) ==
  /\ source' = dir
  /\ loadPc' = "idle" /\ found' = NoDir /\ loads' = loads + 1
  /\ rootFresh' = loadFresh /\ loadFresh' = FALSE
  /\ moved' = IF source \in {NoDir, dir} THEN moved ELSE moved \cup {c \in Calls : Running(c)}
  /\ UNCHANGED <<project, configured, requests>>

BindSource == loadPc = "bind" /\ SetSourceLocation(found) /\ rebound' = FALSE
RuntimeLoad == LoadSettings("locate") \/ LocateSource \/ BindSource

\* Builder.Load binds the configured directory whatever it holds.
RebindSource == loadPc = "rebind" /\ SetSourceLocation(configured) /\ rebound' = TRUE
BuilderLoad == LoadSettings("rebind") \/ RebindSource

\* ResolveSourceLocation keeps a root that is already bound.  Core reads the
\* settings, if it has not before.
Resolve ==
  IF source # NoDir THEN UNCHANGED binding
  ELSE \E dir \in {configured, declared} :
         /\ configured' = dir
         /\ source' = WithModuleFallback(dir)
         /\ rootFresh' = (dir = declared)
         /\ UNCHANGED <<rebound, moved>>

\* It fails in core, the settings read or not.
ResolveFails ==
  /\ source = NoDir
  /\ configured' \in {configured, declared}
  /\ UNCHANGED <<source, rootFresh, rebound, moved>>

\* Build and the discovery of inputs resolve the root too, without serverMu.
ResolveOutside == Resolve /\ UNCHANGED <<project, load, requests>>
FailOutside    == ResolveFails /\ UNCHANGED <<project, load, requests>>

\* Code.SourceDir: unbound, it answers the configured directory.
SourceDir == IF source # NoDir THEN source ELSE configured

-----------------------------------------------------------------------------
(* Code. *)

Request(c) ==
  /\ pc[c] = "idle"
  /\ \E o \in Ops : op' = [op EXCEPT ![c] = o]
  /\ Goto(c, "lock")
  /\ UNCHANGED <<project, binding, load, serverMu, codeServer, using>>

\* A mutant: serverMu is not taken.
LockIgnored(c) == TRUE

MayEnter(c) == serverMu = NoCall

Enter(c) ==
  /\ pc[c] = "lock"
  /\ MayEnter(c)
  /\ serverMu' = c
  /\ Goto(c, IF op[c] = "ensureInit" THEN "init" ELSE "resolve")
  /\ UNCHANGED <<project, binding, load, codeServer, op, using>>

\* The request is over, and with it its own variables.
Leave(c) ==
  /\ serverMu' = NoCall
  /\ using' = [using EXCEPT ![c] = 0]
  /\ op' = [op EXCEPT ![c] = "fix"]
  /\ Goto(c, "idle")

\* Resolving may fail, and with it the request.
ResolveSourceLocation(c) ==
  /\ pc[c] = "resolve"
  /\ \/ Resolve /\ Goto(c, "init") /\ UNCHANGED <<serverMu, using, op>>
     \/ ResolveFails /\ Leave(c)
  /\ UNCHANGED <<project, load, codeServer>>

\* A mutant: the first server is kept for good.
OnceOnly == initialized # NoDir

UpToDate == initialized = SourceDir

\* A new server for a new root; the previous one is closed.
initServer(c) ==
  /\ pc[c] = "init"
  /\ IF UpToDate
     THEN UNCHANGED codeServer
     ELSE /\ dirOf' = Append(dirOf, SourceDir)
          /\ initialized' = SourceDir
          /\ closed' = closed \cup {server}
  /\ IF op[c] = "ensureInit"
     THEN Leave(c)
     ELSE /\ using' = [using EXCEPT ![c] = server']
          /\ Goto(c, "tool") /\ UNCHANGED <<serverMu, op>>
  /\ UNCHANGED <<project, binding, load>>

\* The request and the history of its moves end.
ToolEnds(c) == Leave(c) /\ moved' = moved \ {c}

\* The request runs in the server; the overrides ask SourceDir again for their
\* toolchain directory.  remove_dependency goes on to `go mod tidy` when its
\* edit succeeded.
RunTool(c) ==
  /\ pc[c] = "tool"
  /\ \/ /\ op[c] = "removeDependency" /\ Goto(c, "tidy")
        /\ UNCHANGED <<serverMu, using, op, moved>>
     \/ ToolEnds(c)
  /\ UNCHANGED <<project, configured, source, rootFresh, rebound, load, codeServer>>

Tidy(c) ==
  /\ pc[c] = "tidy"
  /\ ToolEnds(c)
  /\ UNCHANGED <<project, configured, source, rootFresh, rebound, load, codeServer>>

Execute(c) ==
  Enter(c) \/ ResolveSourceLocation(c) \/ initServer(c) \/ RunTool(c) \/ Tidy(c)

Next ==
  \/ Edit \/ RuntimeLoad \/ BuilderLoad \/ ResolveOutside \/ FailOutside
  \/ \E c \in Calls : Request(c) \/ Execute(c)

Spec == Init /\ [][Next]_vars

-----------------------------------------------------------------------------
(* Properties. *)

\* A root bound from what was read since the last edit is the directory of the go.mod,
\* whenever the declared directory or the service root has one: what
\* service.go:39-43 says of every Load, and what holds unless Builder.Load bound
\* the root, whether Runtime.Load read the settings again or a request came first.
BoundAtModule ==
  source # NoDir /\ rootFresh /\ mods \cap {declared, Root} # {} => source \in mods
RuntimeBindsModule == ~rebound => BoundAtModule

\* "Runtime and Builder may later reaffirm the same configured root"
\* (service.go:37-38): once bound, the root is moved by Loads only, and from and to
\* a value of Builder.Load or because of an edit: one since the root was bound, or
\* one the Load is too early to see.
Reaffirms ==
  [][source # NoDir /\ source' # source
       => loadPc \in {"bind", "rebind"} /\ (~rootFresh \/ ~loadFresh \/ rebound \/ rebound')]_vars

\* A request never runs in a server another request has closed.
ServesOpenServer == \A c \in Calls : Running(c) => using[c] \notin closed

\* The toolchain runs where the server that serves the request looks: fixing
\* imports, `go get`, `go mod edit` and the tidy after it see one module, unless
\* a Load moves the root between them.
OneModulePerRequest ==
  \A c \in Calls : Running(c) /\ c \notin moved => SourceDir = dirOf[using[c]]

\* One request is inside serverMu at a time, and it is served by the last server
\* created, the only one open.
Binding ==
  /\ TypeOK
  /\ \A c \in Calls : /\ pc[c] \notin {"idle", "lock"} <=> serverMu = c
                      /\ Running(c) => using[c] = server
  /\ server > 0
  /\ initialized = NoDir <=> server = 1
  /\ server # 1 => dirOf[server] = initialized
  /\ closed = 1..(server - 1)
=============================================================================
