SPECIFICATION Spec
CONSTANTS
  ax = ax
  axy = axy
  az = az
  none = none
  c1 = c1
  c2 = c2
  nokey = nokey
  None <- none
  Targets <- MCTargets
  Patterns <- MCPatterns
  Covers <- MCCovers
  Admits <- MCAdmits
  Score <- MCScore
  MaxScore = 4
  Contexts <- MCContexts
  Unreadable <- MCUnreadable
  Rules <- FamilyRules
  Events <- FamilyEvents
  MaxRules = 2
  Pending = Pending
INVARIANTS
  CacheableIsSound
CHECK_DEADLOCK FALSE
