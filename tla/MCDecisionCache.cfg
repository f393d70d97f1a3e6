SPECIFICATION Spec
CONSTANTS
  k1 = k1
  k2 = k2
  k3 = k3
  k4 = k4
  d1 = d1
  d2 = d2
  Keys <- MCKeys
  Decisions <- MCDecisions
  DecisionEntries = 2
INVARIANTS
  IInv
  KeepsMostRecent
  HitsAreLatest
