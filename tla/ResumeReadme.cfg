CONSTANTS
  Nodes <- MCNodes
  Channels <- MCChannels
  Values <- MCValues
  Kind <- MCKind
  Members <- MCMembers
  Rejected = {"odd"}
  Triggers <- MCTriggers
  Outputs <- MCOutputs
  Inputs <- MCInputs
  Faulty = {}
  Panicky = {}
  Rank <- MCRank
  RecursionLimit = 2
  Given <- MCGiven
  Refill = FALSE
  MaxRuns = 2
SPECIFICATION CSpec
INVARIANTS LatestIsLast
