CONSTANTS
  Nodes <- MCNodes
  Channels <- MCChannels
  Values <- MCValues
  Kind <- MCKind
  Members <- MCMembers
  Rejected = {"odd"}
  Triggers <- MCTriggers
  Outputs <- MCOutputs
  Inputs <- MCInputs
  Faulty = {"a"}
  Panicky = {"c"}
  Rank <- MCRank
  RecursionLimit = 2
  Given <- MCGiven
  Refill = TRUE
  MaxRuns = 3
SPECIFICATION CSpec
INVARIANTS CTypeOK LatestIsLast NoTriggerLost InputDecides
PROPERTIES StateRestored VersionsKept
