SPECIFICATION Spec
CONSTANTS
  Names = {n1}
  Ops = {o1, o2}
  HasCache = TRUE
  MaxDeploys = 2
  MaxRequests = 3
  MaxFaults = 1
INVARIANTS TypeOK CacheIsFresh JobIsCurrent
PROPERTY CachesConverge
