---------------------------- MODULE RecipeContext ----------------------------
(***************************************************************************)
(* Builder.Build: the recipe's code context (pkg/builder/builder.go) and   *)
(* the filesystem replacements carried into it (pkg/builder/replace.go).   *)
(*                                                                         *)
(* The recipe directory is reused between emissions and every step can     *)
(* fail, so an emission starts from whatever the previous ones left.  Each *)
(* file has a version, or nothing when it is not there; a directory is     *)
(* there if a file under it is.  The go.mod of the service's module is the *)
(* sequence of its replace directives.  Files are edited, created and      *)
(* deleted, one by one, between emissions.                                 *)
(***************************************************************************)
EXTENDS Naturals, Sequences

CONSTANTS
  Dirs,        \* directories of the checkout and beyond
  Files,       \* regular files in them, the go.mod of Module apart
  Under,       \* <<p, d>> : file or directory p sits under directory d, or is d
  Module,      \* the service's module
  Repository,  \* the repository that owns it
  ModFile,     \* the go.mod of each directory that may have one
  Missing,     \* a target that never exists
  Names,       \* names of replaced modules
  Releases,    \* versions a directive may replace
  Unversioned, \* the one of a directive that names none
  NoName,      \* the name of a directive that was removed
  GoMods,      \* the go.mod files the developer writes
  Edited,      \* bound: the files that change
  MaxVersion   \* bound: the versions of a file

Places == Dirs \cup Files
Within(p, d) == <<p, d>> \in Under
Tree(d) == {f \in Files : Within(f, d)}

Nothing  == 0
Versions == 1..MaxVersion
Torn     == MaxVersion + 1   \* a file whose copy broke off
Content  == Versions \cup {Nothing}
Copies   == Content \cup {Torn}

\* A directive: module name, version it replaces, target, and whether the target
\* is a directory the developer wrote, one under _replace, or a module of a proxy.
Directives ==
  [name : Names, version : Releases, target : Dirs \cup {Missing}, at : {"written", "proxy"}]

ASSUME UnderAssumption ==
  /\ Under \subseteq Places \X Dirs
  /\ \A d \in Dirs : Within(d, d)
  /\ \A p \in Places, d, e \in Dirs : Within(p, d) /\ Within(d, e) => Within(p, e)
  /\ \A p \in Places, d, e \in Dirs : Within(p, d) /\ Within(p, e) => Within(d, e) \/ Within(e, d)
ASSUME PlacesAssumption ==
  /\ {Module, Repository} \subseteq Dirs /\ Within(Module, Repository)
  /\ DOMAIN ModFile \subseteq Dirs /\ Missing \notin Dirs
  /\ \A d \in DOMAIN ModFile : ModFile[d] \in Tree(d)
ASSUME GoModsAssumption ==
  /\ GoMods \subseteq Seq(Directives)
  /\ NoName \notin Names /\ Unversioned \in Releases
  /\ Edited \subseteq Files /\ MaxVersion \in Nat \ {0}

VARIABLES
  tree,      \* the content of each source file
  gomod,     \* the replace directives of the module's go.mod
  pc,        \* where the emission is
  next,      \* index of the next local directive
  parsed,    \* the directives in memory, as AddReplace leaves them
  rewrite,   \* was something carried, so go.mod must be rewritten?
  code,      \* the context's copy of the module: file -> content
  carried,   \* the context's _replace tree: file -> content
  contextMod \* the directives of the context's go.mod

source == <<tree, gomod>>
loop == <<next, parsed, rewrite>>
context == <<code, carried, contextMod>>
vars == <<source, pc, loop, context>>

\* What AddReplace leaves of a directive it removes.
Wiped == [name |-> NoName, version |-> Unversioned, target |-> Module, at |-> "written"]
Local(d) == d.at = "written" /\ d # Wiped
Replacement ==
  [name : Names \cup {NoName}, version : Releases, target : Dirs \cup {Missing},
   at : {"written", "proxy", "carried"}]

Labels == {"idle", "copy", "parse", "clear", "carry", "write", "done"}
TypeOK ==
  /\ tree \in [Files -> Content]
  /\ gomod \in GoMods
  /\ pc \in Labels
  /\ next \in Nat \ {0}
  /\ parsed \in Seq(Replacement)
  /\ rewrite \in BOOLEAN
  /\ code \in [Tree(Module) -> Copies]
  /\ carried \in [Files -> Copies]
  /\ contextMod \in Seq(Replacement)

Init ==
  /\ tree = [f \in Files |-> 1]
  /\ gomod \in GoMods
  /\ pc = "idle"
  /\ next = 1
  /\ parsed = <<>>
  /\ rewrite = FALSE
  /\ code = [f \in Tree(Module) |-> Nothing]
  /\ carried = [f \in Files |-> Nothing]
  /\ contextMod = <<>>

-----------------------------------------------------------------------------
(* The developer, between emissions. *)

Resting == pc \in {"idle", "done"}

\* A file is changed, created or deleted.
Edit(f) ==
  /\ Resting
  /\ \E content \in Content \ {tree[f]} : tree' = [tree EXCEPT ![f] = content]
  /\ pc' = "idle"
  /\ UNCHANGED <<gomod, loop, context>>

EditGoMod ==
  /\ Resting
  /\ gomod' \in GoMods \ {gomod}
  /\ pc' = "idle"
  /\ UNCHANGED <<tree, loop, context>>

-----------------------------------------------------------------------------
(* buildRecipe. *)

Goto(label) == pc' = label /\ UNCHANGED loop
\* The loop's variables are locals.
Return(label) == pc' = label /\ next' = 1 /\ parsed' = <<>> /\ rewrite' = FALSE
Fail == Return("idle")

\* Rendering the templates precedes the copy and touches none of this state.
Build ==
  /\ Resting
  /\ Goto("copy")
  /\ UNCHANGED <<source, context>>

\* copyGoContext writes what exists at the source over what is there, file by
\* file, and removes nothing.  It stops at the first file it cannot copy, which
\* may be left torn.
Copy(onto, copied) ==
  [f \in DOMAIN onto |-> IF f \in copied /\ tree[f] # Nothing THEN tree[f] ELSE onto[f]]
PartsOf(onto, files) ==
  {Copy(onto, copied) : copied \in SUBSET files}
    \cup {[Copy(onto, copied) EXCEPT ![f] = Torn] :
             copied \in SUBSET files, f \in {g \in files : tree[g] # Nothing}}

\* A mutant: a file that is already in the context is kept.
CopyNewOnly ==
  /\ pc = "copy"
  /\ code' = [f \in Tree(Module) |-> IF code[f] = Nothing THEN tree[f] ELSE code[f]]
  /\ contextMod' = gomod
  /\ Goto("parse")
  /\ UNCHANGED <<source, carried>>

\* The go.mod of the module is one of the files; a torn one has no directive.
CopyModule ==
  /\ pc = "copy"
  /\ \/ /\ code' = Copy(code, Tree(Module))
        /\ contextMod' = gomod
        /\ Goto("parse")
     \/ /\ code' \in PartsOf(code, Tree(Module))
        /\ contextMod' \in {contextMod, gomod, <<>>}
        /\ Fail
  /\ UNCHANGED <<source, carried>>

Replacing == \E i \in DOMAIN gomod : Local(gomod[i])

\* No filesystem replacement: the copy is left as it is, _replace included.
ParseGoMod ==
  /\ pc = "parse"
  /\ IF Replacing
       THEN pc' = "clear" /\ parsed' = gomod /\ UNCHANGED <<next, rewrite>>
       ELSE Return("done")
  /\ UNCHANGED <<source, context>>

\* A mutant: the carry of an earlier emission stays.
ClearNothing ==
  /\ pc = "clear"
  /\ Goto("carry")
  /\ UNCHANGED <<source, context>>

\* RemoveAll(_replace): what an earlier emission left would outlive its directive.
\* Failing with nothing gone also stands for the two refusals before it: a module
\* no repository owns, and a module whose own tree occupies _replace.
ClearCarry ==
  /\ pc = "clear"
  /\ \/ carried' = [f \in Files |-> Nothing] /\ Goto("carry")
     \/ /\ \E gone \in SUBSET Files :
             carried' = [f \in Files |-> IF f \in gone THEN Nothing ELSE carried[f]]
        /\ Fail
  /\ UNCHANGED <<source, code, contextMod>>

InCarry == pc = "carry" /\ next <= Len(parsed)
Target == parsed[next].target
Advance == next' = next + 1

IsModule == Target \in DOMAIN ModFile /\ tree[ModFile[Target]] # Nothing
Inside == Within(Target, Module)
\* A mutant: the repository does not bound a replacement.
AnywhereButAround == ~Within(Module, Target)
Contained == ~Within(Module, Target) /\ Within(Target, Repository)

\* A proxy replacement, a wiped one, or a directory the module's copy already holds.
SkipDirective ==
  /\ InCarry
  /\ ~Local(parsed[next]) \/ (IsModule /\ Inside)
  /\ Advance
  /\ UNCHANGED <<source, pc, parsed, rewrite, context>>

RefuseDirective ==
  /\ InCarry
  /\ Local(parsed[next])
  /\ ~IsModule \/ (~Inside /\ ~Contained)
  /\ Fail
  /\ UNCHANGED <<source, context>>

\* Something is at destination once it or anything beneath it was carried.
Exists(d) == \E f \in Tree(d) : carried[f] # Nothing

\* modfile.AddReplace: the first directive it matches becomes the new one, the
\* others it matches are dropped; a directive without version matches all of a name.
Matches(r, d) == r.name = d.name /\ (d.version = Unversioned \/ r.version = d.version)
AddReplace(d) ==
  [i \in DOMAIN parsed |->
     IF ~Matches(parsed[i], d) THEN parsed[i]
     ELSE IF \E j \in 1..(i - 1) : Matches(parsed[j], d) THEN Wiped
     ELSE [d EXCEPT !.at = "carried"]]

CarryDirective ==
  /\ InCarry
  /\ Local(parsed[next]) /\ IsModule /\ ~Inside /\ Contained
  /\ \/ /\ carried' = IF Exists(Target) THEN carried ELSE Copy(carried, Tree(Target))
        /\ parsed' = AddReplace(parsed[next])
        /\ rewrite' = TRUE
        /\ Advance
        /\ UNCHANGED pc
     \/ /\ ~Exists(Target)
        /\ carried' \in PartsOf(carried, Tree(Target))
        /\ Fail
  /\ UNCHANGED <<source, code, contextMod>>

LeaveLoop ==
  /\ pc = "carry"
  /\ next > Len(parsed)
  /\ IF rewrite THEN Goto("write") ELSE Return("done")
  /\ UNCHANGED <<source, context>>

\* Cleanup drops the removed directives; here they stay and apply to no module.
WriteGoMod ==
  /\ pc = "write"
  /\ \/ contextMod' = parsed /\ Return("done")
     \/ contextMod' \in {contextMod, <<>>} /\ Fail
  /\ UNCHANGED <<source, code, carried>>

CarryLocalReplacements ==
  \/ ParseGoMod \/ ClearCarry \/ SkipDirective \/ RefuseDirective \/ CarryDirective
  \/ LeaveLoop \/ WriteGoMod

Next ==
  \/ (\E f \in Edited : Edit(f)) \/ EditGoMod
  \/ Build \/ CopyModule \/ CarryLocalReplacements

Spec == Init /\ [][Next]_vars

-----------------------------------------------------------------------------
(* Properties of a context that was reported built. *)

Built == pc = "done"

\* The directives Go applies to a version of a module: the exact one, else the
\* one without version.
Replaces(d, n, v) == d.name = n /\ d.version = v
Applied(m, n, v) ==
  {i \in DOMAIN m :
     Replaces(m[i], n, IF \E j \in DOMAIN m : Replaces(m[j], n, v) THEN v ELSE Unversioned)}

\* Every file the module has is in the context as it is now, whatever an earlier
\* emission left.  Of a file deleted since, the old one stays: the copy only adds.
CopyCurrent(d) == \A f \in Tree(d) : tree[f] # Nothing => code[f] = tree[f]
SourceCurrent == Built => CopyCurrent(Module)

\* The builder stage resolves what the host resolves (replace.go:36-40): the same
\* directories, file for file as they are now, the torn and the stale ones of
\* earlier emissions replaced.  A directory inside the module has all its files;
\* one that was carried has no other.
Faithful(d) ==
  IF d.at = "carried" THEN \A f \in Tree(d.target) : carried[f] = tree[f]
  ELSE ~Local(d) \/ (Within(d.target, Module) /\ CopyCurrent(d.target))
ResolvesAsHost ==
  Built => \A n \in Names, v \in Releases :
    /\ {contextMod[i].target : i \in Applied(contextMod, n, v)}
         = {gomod[i].target : i \in Applied(gomod, n, v)}
    /\ \A i \in Applied(contextMod, n, v) : Faithful(contextMod[i])

\* While go.mod replaces something by path, nothing is carried that no directive
\* asks for (replace.go:83-87); once it replaces nothing, the last carry stays.
NoStaleCarry ==
  Built /\ Replacing => \A f \in Files : carried[f] # Nothing =>
    \E i \in DOMAIN gomod : gomod[i].target # Missing /\ Within(f, gomod[i].target)

\* A replacement outside the repository is refused (replace.go:42-46): it is never
\* carried, not by a failed emission either, and never silently dropped.
RefusesOutside ==
  /\ TypeOK
  /\ \A f \in Files : carried[f] # Nothing => Within(f, Repository)
  /\ Built => \A i \in DOMAIN gomod :
       Local(gomod[i]) => gomod[i].target # Missing /\ Within(gomod[i].target, Repository)

\* What these need of the go.mod files.  No directive replaces what another one
\* of its module replaces, or AddReplace drops one of them.
DistinctReplaces ==
  \A m \in GoMods : \A i, j \in DOMAIN m : Matches(m[i], m[j]) => i = j
\* A directory is not named before one that contains it.
OuterFirst ==
  \A m \in GoMods : \A i, j \in DOMAIN m :
    i < j /\ Within(m[i].target, m[j].target) => m[i].target = m[j].target
=============================================================================
