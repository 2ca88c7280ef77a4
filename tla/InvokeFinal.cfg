CONSTANTS
  N = 20
  Nodes <- MCNodes
  Channels <- MCChannels
  Values <- MCValues
  Kind <- MCKind
  Members <- MCMembers
  Rejected = {}
  Triggers <- MCTriggers
  Outputs <- MCOutputs
  Inputs <- MCInputs
  Faulty = {}
  Panicky = {}
  Rank <- MCRank
  RecursionLimit = 25
  StreamChannels <- MCStreamChannels
  Mode = "values"
  Capacity = 16
  Invoke = TRUE
  StateChannels = {"value"}
  Signals <- MCSignals
  Arrivals <- MCArrivals
  Routes <- MCRoutes
  Path <- MCPath
  NoKey = "none"
  Null = "null"
  Reads <- MCReads
  NodeOutcomes <- ChainReturns
  Returns <- MCReturns
SPECIFICATION GSpec
INVARIANTS ResultIsFinal
