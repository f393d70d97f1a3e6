SPECIFICATION Spec
CONSTANTS
  p1 = p1
  p2 = p2
  p3 = p3
  p4 = p4
  sh = sh
  dash = dash
  c1 = c1
  c2 = c2
  Outside = Outside
  Pids <- MCPids
  Parents <- FixedParent
  Paths <- MCPaths
  EvalSymlinks <- MCEvalSymlinks
  Calls <- OneCall
  ProcessEntries = 2
  maxAncestorDepth = 2
PROPERTIES
  ParentSurvivesExec
