CONSTANTS
  Nodes <- MCNodes
  Channels <- MCChannels
  Values <- MCValues
  Kind <- MCKind
  Members <- MCMembers
  Rejected = {"odd"}
  Triggers <- MCTriggers
  Outputs <- MCOutputs
  Inputs <- MCInputs
  Faulty = {"a"}
  Panicky = {"b"}
  Rank <- MCRank
  RecursionLimit = 3
  StreamChannels = {"log"}
  Mode = "updates"
  Capacity = 2
  Invoke = FALSE
SPECIFICATION SFairSpec
INVARIANTS STypeOK UpdatesReplay ErrorIsLast AbandonedStopsSoon
PROPERTIES EveryItemCounts AbandonedTaskEnds
