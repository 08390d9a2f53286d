CONSTANTS
  A = A
  B = B
  C = C
  D = D
  E = E
  b1 = b1
  b2 = b2
  b3 = b3
  Host = Host
  NULL = NULL
  Actors <- OneActors
  ActorOrder <- OneOrder
  Edges <- OneEdges
  Blocks = {b1, b2, b3}
  NumChannels = 3
  NUM_PACKET = 3
  MAX_BUFFER = 3
  RATEMATCH_NUM = 4
  MaxIdle = 1
  RepeatIdle = FALSE
  PreemptAt = {"poll"}
SPECIFICATION FairSpec
PROPERTIES HandlersReturn
CHECK_DEADLOCK FALSE
