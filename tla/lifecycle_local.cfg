SPECIFICATION Spec
CONSTANTS
  Runs = {r1, r2}
  NoRun = NoRun
  Attributed = {r1, r2}
  NSteps = 2
  HasRedis = FALSE
  Clients = {}
  MaxStops = 2
  MaxAsks = 0
  MaxFaults = 0
INVARIANT AnnouncementIsTrue
PROPERTIES CommittedNotRedone EndedNotReopened RunsEnd
