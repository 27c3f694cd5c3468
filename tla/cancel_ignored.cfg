SPECIFICATION Spec
CONSTANTS
  Runs = {r1}
  NoRun = NoRun
  Attributed = {}
  NSteps = 2
  HasRedis = TRUE
  Clients = {c}
  MaxStops = 0
  MaxAsks = 1
  MaxFaults = 0
PROPERTY CancelledStops
