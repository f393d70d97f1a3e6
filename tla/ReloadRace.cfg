SPECIFICATION Spec
CONSTANTS
  n1 = n1
  n2 = n2
  a = a
  b = b
  none = none
  git = git
  sh = sh
  blank = blank
  r1 = r1
  Notifs <- MCNotifs
  Requests <- OneRequest
  Targets <- MCTargets
  None <- none
  Actions <- MCActions
  Contexts <- MCContexts
  Blank <- blank
  MaxVersion = 1
  Reloads <- MCReloads
  DecisionEntries = 1
  Decide <- MCDecide
  Cacheable <- MCCacheable
  NeedsContext <- MCNeedsContext
  Unconditional <- MCUnconditional
PROPERTIES
  DecidedByCurrentRules
CHECK_DEADLOCK FALSE
