CONSTANTS
  START <- MCStart
  END <- MCEnd
  Names <- MCNames
  Reserved = {"x:y"}
  Order <- MCOrder
  Keys <- MCKeys
  StateChannels = {"value"}
  EdgeCalls <- MCEdgeCalls
  PointCalls <- MCPointCalls
  BranchCalls <- MCBranchCalls
  SequenceCalls <- MCSequenceCalls
  StateKinds <- MCStateKinds
  Values <- MCValues
  Rejected = {}
  Place <- MCPlace
  Outcomes <- MCOutcomes
  Path <- MCPath
  NoKey = "none"
  Null = "null"
  RecursionLimit = 3
SPECIFICATION Spec
INVARIANTS GTypeOK CompileRefusals JoinCompiled SignalsArrive CompiledRuns
