SPECIFICATION StepSpec
CONSTANTS
  Codes <- ErrorCodes
  Policies <- SmallPolicies
  NoPolicy = NoPolicy
  MaxTime = 8
  Values <- Operand
  Things <- Nodes
  Contexts <- Trees
  Words <- SomeWords
  Paths <- SomePaths
  Attributes = {"__class__"}
INVARIANTS RetriesFollowPolicy ComparesLikeWithLike FindsTheValue
