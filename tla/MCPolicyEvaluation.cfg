SPECIFICATION Spec
CONSTANTS
  ax = ax
  axy = axy
  az = az
  none = none
  c1 = c1
  c2 = c2
  nokey = nokey
  None <- none
  Targets <- MCTargets
  Patterns <- MCPatterns
  Covers <- MCCovers
  Admits <- MCAdmits
  Score <- MCScore
  MaxScore = 4
  Contexts <- MCContexts
  Unreadable <- MCUnreadable
  Rules <- MCRules
  Events <- MCEvents
  MaxRules = 3
  Pending = Pending
INVARIANTS
  TypeOK
  MostSpecificWins
  GateIsRequired
  FastPathAgrees
  UnconditionalIsAllowed
  CacheableIsSound
  ContextNotMissed
CHECK_DEADLOCK FALSE
