SPECIFICATION Spec
CONSTANTS
  repo = repo
  app = app
  inner = inner
  lib = lib
  sub = sub
  outside = outside
  foo = foo
  bar = bar
  v1 = v1
  v2 = v2
  AnyVersion = AnyVersion
  Missing = Missing
  repoMod = repoMod
  innerMod = innerMod
  innerGo = innerGo
  libMod = libMod
  libGo = libGo
  subMod = subMod
  outsideMod = outsideMod
  Dirs = {repo, app, inner, lib, sub, outside}
  Files = {repoMod, innerMod, innerGo, libMod, libGo, subMod, outsideMod}
  Under <- MCUnder
  Module = app
  Repository = repo
  ModFile <- MCModFile
  Names = {foo, bar}
  Releases = {AnyVersion, v1, v2}
  Unversioned = AnyVersion
  NoName = NoName
  GoMods <- MCGoMods
  Edited = {innerGo, libGo, subMod}
  MaxVersion = 2
INVARIANT ResolvesAsHost
INVARIANT NoStaleCarry
INVARIANT RefusesOutside
INVARIANT SourceCurrent
