CONSTANTS
  Nodes <- MCNodes
  Channels <- MCChannels
  Values <- MCValues
  Kind <- MCKind
  Members <- MCMembers
  Rejected = {"odd"}
  Triggers <- MCTriggers
  Outputs <- MCOutputs
  Inputs <- MCInputs
  Faulty = {}
  Panicky = {}
  Rank <- MCRank
  RecursionLimit = 2
  Given <- MCGiven
  Refill = TRUE
  MaxRuns = 2
SPECIFICATION CSpec
PROPERTIES BarrierRestored
