CONSTANTS
  Nodes <- MCNodes
  Channels <- MCChannels
  Values <- MCValues
  Kind <- ChannelKind
  Members <- MCMembers
  Rejected = {}
  Triggers <- MCTriggers
  Outputs <- MCOutputs
  Inputs <- MCInputs
  Faulty = {}
  Panicky = {}
  Rank <- MCRank
  RecursionLimit = 25
  StreamChannels <- MCStreamChannels
  Mode = "updates"
  Capacity = 16
  Invoke = FALSE
  StateChannels = {"pr_content", "report", "findings"}
  Signals <- MCSignals
  Arrivals <- MCArrivals
  Routes <- MCRoutes
  Path <- MCPath
  NoKey = "none"
  Null = "null"
  Reads <- MCReads
  NodeOutcomes <- NodeReturns
  Returns <- MCReturns
SPECIFICATION CFairSpec
INVARIANTS ReportSeesAll TotalsAddUp SuperstepItems
PROPERTIES ReviewCompletes
