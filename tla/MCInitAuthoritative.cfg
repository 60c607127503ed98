SPECIFICATION AgentSpec
CONSTANTS
  c1 = c1
  c2 = c2
  Calls = {c1}
  NoCall = NoCall
  code = code
  src = src
  Sources = {code, src}
  Default = code
  Root = Root
  Cwd = Cwd
  NoDir = NoDir
  MaxLoads = 1
  MaxEdits = 0
  MaxInits = 2
INVARIANT InitIsAuthoritative
