CONSTANTS
  A = A
  B = B
  C = C
  D = D
  E = E
  b1 = b1
  b2 = b2
  b3 = b3
  Host = Host
  NULL = NULL
  Actors <- PairActors
  ActorOrder <- PairOrder
  Edges <- PairEdges
  Blocks = {b1, b2}
  NumChannels = 2
  NUM_PACKET = 2
  MAX_BUFFER = 2
  RATEMATCH_NUM = 4
  MaxIdle = 2
  RepeatIdle = TRUE
  PreemptAt = {"poll", "select", "fire", "link", "free"}
SPECIFICATION Spec
INVARIANTS TypeOK
PROPERTIES LostByOverwriteOnly
CHECK_DEADLOCK FALSE
