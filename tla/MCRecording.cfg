SPECIFICATION Spec
CONSTANTS
  none = none
  notyet = notyet
  NoPolicy <- notyet
  NoName <- none
  Requests <- MCRequests
  Dirs <- MCDirs
  Links <- MCLinks
  OwnPids <- MCOwnPids
  NoDir = NoDir
  Width = 8
  AtFdcwd <- MCAtFdcwd
  Cwd <- MCCwd
  FdTable <- MCFdTable
  Other <- MCOther
  MaxAddr = 30
  HomeDir <- Home
  WorkDir <- Work
  Rest <- MCRest
  OddNames <- MCOddNames
  ProbeNames <- MCProbeNames
  PidNames <- MCPidNames
  BaseRead <- MCBaseRead
  BaseWrite <- MCBaseWrite
  Granted <- MCGranted
  Unconditional <- MCUnconditional
  siblingThreshold = 2
  MaxRecords = 3
INVARIANTS
  FilterRoutes
  TrueToTarget
  FailsClosed
  PolicySeesKernelPath
  RecordedIsAllowed
CHECK_DEADLOCK FALSE
