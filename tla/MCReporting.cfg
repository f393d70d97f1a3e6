SPECIFICATION Spec
CONSTANTS
  h1 = h1
  h2 = h2
  h3 = h3
  c1 = c1
  none = none
  Handlers <- MCHandlers
  Denied <- MCDenied
  Action <- MCAction
  Levels <- MCLevels
  Conns <- MCConns
  NoRecord <- none
  NoConn <- none
  queueSize = 1
  maxRecent = 2
  MaxRefused = 1
INVARIANTS
  FlushedAtExit
  RecentIsNewest
  CountsComplete
PROPERTIES
  RefinesLossyLog
  OverflowReported
  StartedCallsAnswered
  ShutdownCompletes
CHECK_DEADLOCK FALSE
