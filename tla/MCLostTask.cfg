CONSTANTS
  n1 = n1
  n2 = n2
  n3 = n3
  n4 = n4
  n5 = n5
  n6 = n6
  NULL = NULL
  Nodes = {n1, n2, n3, n4}
  Contended = {"insert"}
SYMMETRY NodeSymmetry
SPECIFICATION Spec
INVARIANTS EntriesFound
CHECK_DEADLOCK FALSE
