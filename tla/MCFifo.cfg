CONSTANTS
  t1 = t1
  t2 = t2
  NoToken = NoToken
  Tokens <- MCTokens
  MAX_BUFFER = 3
  MaxPuts = 9
SPECIFICATION Spec
INVARIANTS TypeOK
PROPERTIES OnlyOverrunLoses
CHECK_DEADLOCK FALSE
