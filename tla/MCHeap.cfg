CONSTANTS
  alloc_start = 32
  alloc_end = 152
  Requests <- MCRequests
  Preemptive = FALSE
SPECIFICATION Spec
INVARIANTS BoundaryTagsAgree Coalesced FreeListExact NoBlockLost PayloadIntact RefusalJustified
PROPERTIES ImplementsAllocator
CHECK_DEADLOCK FALSE
