SPECIFICATION MCSpec
CONSTANTS
  c1 = c1
  c2 = c2
  code = code
  src = src
  Calls = {c1, c2}
  NoCall = NoCall
  Sources = {code, src}
  Default = code
  Root = Root
  Cwd = Cwd
  NoDir = NoDir
  MaxLoads = 2
  MaxEdits = 1
  MaxInits = 2
SYMMETRY Symmetric
INVARIANT OneEnvironment
INVARIANT ValuesOfOneInit
INVARIANT OneEnvironmentPerRequest
INVARIANT OneModulePerCheck
INVARIANT RefusalsAreExplained
INVARIANT RuntimeBindsModule
INVARIANT OneModulePerRequest
INVARIANT ServesOpenServer
INVARIANT Binding
PROPERTY Reaffirms
