SPECIFICATION Spec
CONSTANTS
  Ids <- StepIds
  Instances <- InstanceIds
  Inputs <- InputIds
  None = None
  Definitions <- Shapes
  Ops = {o1, o2}
  MaxCreates = 3
  MaxDeletes = 2
  MaxCuts = 1
SYMMETRY Alike
INVARIANTS TypeOK ExpansionKeepsFlow RegistrationsHold
