SPECIFICATION Spec
CONSTANTS
  Steps = {s1, s2}
  Main = Main
  MaxRounds = 2
  MaxStops = 1
SYMMETRY Branches
INVARIANTS TypeOK SuccessIsWhole DoubledOnlyByOverlap StuckHasCause
