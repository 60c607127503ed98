-------------------------- MODULE MCRecipeContext --------------------------
(* A checkout for RecipeContext: a repository with the service's module, a   *)
(* module inside it, a shared library with a nested module, and a module     *)
(* outside the repository.                                                   *)
EXTENDS RecipeContext

CONSTANTS repo, app, inner, lib, sub, outside, AnyVersion, v1, v2, foo, bar,
          repoMod, innerMod, innerGo, libMod, libGo, subMod, outsideMod

MCModFile == [d \in {repo, inner, lib, sub, outside} |->
  CASE d = repo -> repoMod [] d = inner -> innerMod [] d = lib -> libMod
    [] d = sub -> subMod [] d = outside -> outsideMod]

InnerTree == {inner, innerMod, innerGo}
SubTree   == {sub, subMod}
LibTree   == {lib, libMod, libGo} \cup SubTree
AppTree   == {app} \cup InnerTree
MCUnder ==
  (InnerTree \X {inner}) \cup (SubTree \X {sub}) \cup (LibTree \X {lib}) \cup (AppTree \X {app})
    \cup (({repo, repoMod} \cup LibTree \cup AppTree) \X {repo})
    \cup ({outside, outsideMod} \X {outside})

To(n, v, d) == [name |-> n, version |-> v, target |-> d, at |-> "written"]
Proxy(n) == [name |-> n, version |-> AnyVersion, target |-> Missing, at |-> "proxy"]

\* Every accepted and refused kind of target, alone and in pairs, outer
\* directories named before the ones they contain; and no filesystem replacement.
MCGoMods ==
  {<<To(foo, AnyVersion, d)>> : d \in {inner, sub, outside, repo, Missing}}
    \cup {<<To(foo, AnyVersion, lib), To(bar, AnyVersion, d)>> : d \in {lib, sub, inner}}
    \cup {<<To(foo, v1, lib), To(foo, v2, lib), Proxy(bar)>>, <<Proxy(bar)>>}

\* What the properties and the theorems need of the go.mod files holds of these.
ASSUME GoMods = MCGoMods => DistinctReplaces /\ OuterFirst

\* A nested module named before the one that contains it.
MCNested == {<<To(foo, AnyVersion, sub), To(bar, AnyVersion, lib)>>}
=============================================================================
