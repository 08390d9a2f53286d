CONSTANTS
  A = A
  B = B
  C = C
  D = D
  E = E
  b1 = b1
  b2 = b2
  b3 = b3
  Host = Host
  NULL = NULL
  Actors <- SkipActors
  ActorOrder <- SkipOrder
  Edges <- SkipEdges
  Blocks = {b1, b2, b3}
  NumChannels = 3
  NUM_PACKET = 2
  MAX_BUFFER = 2
  RATEMATCH_NUM = 1
  MaxIdle = 1
  RepeatIdle = FALSE
  PreemptAt = {"poll"}
SPECIFICATION Spec
INVARIANTS NoReadyActorMissed
PROPERTIES ImplementsDataflow
CHECK_DEADLOCK FALSE
