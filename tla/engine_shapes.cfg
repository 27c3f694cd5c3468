SPECIFICATION Spec
CONSTANTS
  Steps <- StepIds
  Missing = Missing
  END = END
  None = None
  Workflows <- Shapes
  MaxItems = 3
  MaxStops = 2
INVARIANTS TypeOK FailureIsRouted ItemIsOwn
PROPERTY EveryRunEnds
