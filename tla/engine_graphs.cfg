SPECIFICATION Spec
CONSTANTS
  Steps <- StepIds
  Missing = Missing
  END = END
  None = None
  Workflows <- Graphs
  MaxItems = 3
  MaxStops = 0
INVARIANTS NoReentry CyclesHaveCause ForksFinish OthersStillTried
PROPERTY EveryWalkerEnds
