CONSTANTS
  A = A
  B = B
  C = C
  D = D
  E = E
  b1 = b1
  b2 = b2
  b3 = b3
  Host = Host
  NULL = NULL
  Actors <- Demo2Actors
  ActorOrder <- Demo2Order
  Edges <- Demo2Edges
  Blocks = {b1, b2}
  NumChannels = 2
  NUM_PACKET = 2
  MAX_BUFFER = 2
  RATEMATCH_NUM = 4
  MaxIdle = 1
  RepeatIdle = FALSE
  PreemptAt = {"poll", "select", "free"}
SPECIFICATION FairSpec
INVARIANTS Ownership FireListAccounts TokenConservation RefCountExact TransfersPure InputsMatch
PROPERTIES InFlightBindingFixed ImplementsDataflow HandlersReturn AllPacketsProcessed
CHECK_DEADLOCK FALSE
