CONSTANTS
  NumChannels = 8
  Heads = {64, 192}
  Outcomes <- MCOutcomes
  CommonOutcomes <- MCCommonOutcomes
  MaxFaults = 2
  MaxInFlight = 2
  Common = Common
  NULL = NULL
SPECIFICATION FairSpec
INVARIANTS TypeOK 
PROPERTIES ErrorsBeforeDone EveryCauseServed
CHECK_DEADLOCK FALSE
