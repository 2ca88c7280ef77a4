CONSTANTS
  Nodes <- MCNodes
  Channels <- MCChannels
  Values = {"null", "1", "2"}
  Kind <- MCKind
  Members <- MCMembers
  Rejected = {}
  Triggers <- MCTriggers
  Outputs <- MCOutputs
  Inputs <- MCInputs
  Faulty = {}
  Panicky = {}
  Rank <- MCRank
  RecursionLimit = 25
  StreamChannels <- MCStreamChannels
  Mode = "values"
  Capacity = 16
  Invoke = TRUE
  StateChannels = {"counter"}
  Signals <- MCSignals
  Arrivals <- MCArrivals
  Routes <- MCRoutes
  Path <- MCPath
  NoKey = "none"
  Null = "null"
  Reads <- MCReads
  NodeOutcomes <- MCOutcomes
  Returns <- MCReturns
SPECIFICATION GSpec
INVARIANTS OutputIsObject
