SPECIFICATION Spec
CONSTANTS
  p1 = p1
  p2 = p2
  p3 = p3
  p4 = p4
  sh = sh
  dash = dash
  c1 = c1
  c2 = c2
  Outside = Outside
  Pids <- MCPids
  Parents <- AnyParent
  Paths <- MCPaths
  EvalSymlinks <- MCEvalSymlinks
  Calls <- MCCalls
  ProcessEntries = 3
  maxAncestorDepth = 2
SYMMETRY Symmetric
INVARIANTS
  TableCoherent
PROPERTIES
  OnlyExecReplaces
  AncestorsStayWarm
