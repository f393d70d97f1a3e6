SPECIFICATION Spec
CONSTANTS
  d1 = d1
  d2 = d2
  d3 = d3
  cmd = cmd
  Daemons <- MCDaemons
  Direct <- cmd
  Statuses <- MCStatuses
PROPERTIES
  SignalForwarded
CHECK_DEADLOCK FALSE
