CONSTANTS
  START <- MCStart
  END <- MCEnd
  Names <- PlusNames
  Reserved = {}
  Order <- PlusOrder
  Keys <- MCKeys
  StateChannels = {"value"}
  EdgeCalls <- PlusEdgeCalls
  PointCalls = {"a"}
  BranchCalls = {}
  SequenceCalls = {}
  StateKinds <- MCStateKinds
  Values <- MCValues
  Rejected = {}
  Place <- MCPlace
  Outcomes <- MCOutcomes
  Path <- MCPath
  NoKey = "none"
  Null = "null"
  RecursionLimit = 3
SPECIFICATION Spec
INVARIANTS JoinCompiled
