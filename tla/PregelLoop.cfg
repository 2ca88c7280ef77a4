CONSTANTS
  Nodes <- MCNodes
  Channels <- MCChannels
  Values <- MCValues
  Kind <- MCKind
  Members <- MCMembers
  Rejected = {"odd"}
  Triggers <- MCTriggers
  Outputs <- MCOutputs
  Inputs <- MCInputs
  Faulty = {"a", "b"}
  Panicky = {"b", "c"}
  Rank <- MCRank
  RecursionLimit = 6
SPECIFICATION FairSpec
INVARIANTS TypeOK JoinNotStranded NoTriggerLost FirstErrorReported StepsBounded
PROPERTIES AllOrNothing MergedInPathOrder RefinesSuperstep RefinesAtomic
           EveryStepCounts Termination
