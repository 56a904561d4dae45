SPECIFICATION Spec
CONSTANTS
  a = a
  b = b
  c = c
  shared = shared
  other = other
  Paths = {shared, other}
  Authors = {a, b}
  Branch = {main, docs}
  Default = main
  Target = docs
  Nobody = Nobody
  NoRun = NoRun
  Docs <- Documents
  MaxAttempts = 2
  InitialBudget <- Everything
CHECK_DEADLOCK FALSE
INVARIANTS TypeOK  
PROPERTIES  WorkspaceIsKept
