CONSTANTS
  Nodes <- MCNodes
  Channels <- MCChannels
  Values = {"null", "x", "odd", "bad", "good"}
  Kind <- MCKind
  Members <- MCMembers
  Rejected = {"odd"}
  Triggers <- MCTriggers
  Outputs <- MCOutputs
  Inputs <- MCInputs
  Faulty = {"a", "b"}
  Panicky = {"b"}
  Rank <- MCRank
  RecursionLimit = 3
  StreamChannels <- MCStreamChannels
  Mode = "values"
  Capacity = 2
  Invoke = TRUE
  StateChannels = {"log", "val"}
  Signals <- MCSignals
  Arrivals <- MCArrivals
  Routes <- MCRoutes
  Path <- MCPath
  NoKey = "none"
  Null = "null"
  Reads <- MCReads
  NodeOutcomes <- MCOutcomes
  Returns <- MCReturns
SPECIFICATION GFairSpec
INVARIANTS ShortRunFinal InvokeReportsError StreamedIsApplied
PROPERTIES InvokeReturns RoutesFollowState
