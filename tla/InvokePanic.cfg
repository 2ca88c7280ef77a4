CONSTANTS
  Nodes <- MCNodes
  Channels <- MCChannels
  Values <- MCValues
  Kind <- MCKind
  Members <- MCMembers
  Rejected = {}
  Triggers <- MCTriggers
  Outputs <- MCCounting
  Inputs <- MCValidInputs
  Faulty = {}
  Panicky = {"a"}
  Rank <- MCRank
  RecursionLimit = 2
  StreamChannels = {"log"}
  Mode = "values"
  Capacity = 16
  Invoke = TRUE
SPECIFICATION SSpec
INVARIANTS InvokeOkMeansDone
