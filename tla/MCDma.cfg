CONSTANTS
  NumDesc = 5
  NumChannels = 2
  MaxLength = 4
  Width = 2
  Loads <- MCLoads
  Results <- MCResults
  NULL = NULL
  PreemptAt <- AnyRelease
SPECIFICATION FairSpec
INVARIANTS ChainsSound FirstTwoReturned BusyWhileCarrying
PROPERTIES LostByStoreOnly ChannelFound
CHECK_DEADLOCK FALSE
