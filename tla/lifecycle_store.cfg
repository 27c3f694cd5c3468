SPECIFICATION Spec
CONSTANTS
  Runs = {r1}
  NoRun = NoRun
  Attributed = {r1}
  NSteps = 2
  HasRedis = TRUE
  Clients = {c}
  MaxStops = 2
  MaxAsks = 1
  MaxFaults = 2
INVARIANTS TypeOK SuccessIsEarned NothingClaimedEarly RunningIsOwned CallsBounded
PROPERTY ImplementsContract
