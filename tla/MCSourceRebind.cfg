SPECIFICATION Spec
CONSTANTS
  c1 = c1
  c2 = c2
  c3 = c3
  Calls = {c1, c2, c3}
  NoCall = NoCall
  code = code
  src = src
  Sources = {code, src}
  Default = code
  Root = Root
  Cwd = Cwd
  NoDir = NoDir
  MaxLoads = 3
  MaxEdits = 1
SYMMETRY Symmetric
INVARIANT BoundAtModule
