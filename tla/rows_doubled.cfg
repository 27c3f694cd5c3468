SPECIFICATION Spec
CONSTANTS
  Steps = {s1, s2}
  Main = Main
  MaxRounds = 1
  MaxStops = 0
INVARIANT OneRowPerStep
