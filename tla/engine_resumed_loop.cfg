SPECIFICATION Spec
CONSTANTS
  Steps <- StepIds
  Missing = Missing
  END = END
  None = None
  Workflows <- LoopThenAction
  MaxItems = 3
  MaxStops = 1
INVARIANT ForksFinish
