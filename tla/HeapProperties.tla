--------------------------- MODULE HeapProperties ---------------------------
(* What malloc, free, malloc_LLI and free_LLI keep true of the heap. *)
EXTENDS Heap

Abstract == INSTANCE Allocator WITH First <- alloc_start, Last <- alloc_end

(* The blocks, walked from the first header by their sizes. *)
Beyond(a) == IF a >= get_epilogue THEN a ELSE get_nextheader(heap, a)
Walk == LET b[i \in 0..((alloc_end - alloc_start) \div MIN_BLOCKSIZE)] ==
              IF i = 0 THEN get_firstblock ELSE Beyond(b[i - 1])
        IN  {b[i] : i \in DOMAIN b}
HeapBlocks == Walk \ {get_epilogue}
FreeBlocks == {b \in HeapBlocks : get_allocated(heap, b) = FREE}
UsedBlocks == HeapBlocks \ FreeBlocks

(* Headers are 4 bytes below a multiple of 8, and so are the list head and *)
(* the block a malloc under way has taken.                                 *)
Header == {a \in Words : a % 8 = 4}
TypeOK == /\ DOMAIN heap.mem = Words
          /\ \A a \in Words : heap.mem[a] \in 0..alloc_end
          /\ heap.head \in {0} \cup Header
          /\ heap.counter \in Nat
          /\ taken.block \in {0} \cup Header
          /\ taken.old % 8 = 0
          /\ taken.req \in Requests \cup {NoRequest}
          /\ refused \in Requests \cup {NoRequest}

(* The blocks tile the heap from the prologue to the epilogue, and the     *)
(* footer of each says what its header says, so that the walk of free to   *)
(* both neighbours finds blocks (split and merge write both, in order).    *)
BoundaryTagsAgree ==
  /\ TypeOK
  /\ get_epilogue \in Walk
  /\ \A b \in HeapBlocks :
       /\ b < get_epilogue /\ get_blocksize(heap, b) >= MIN_BLOCKSIZE
       /\ get_blocksize(heap, get_footer(heap, b)) = get_blocksize(heap, b)
       /\ get_allocated(heap, get_footer(heap, b)) = get_allocated(heap, b)

(* free leaves no two free blocks side by side, whatever the order of the  *)
(* calls: the four cases of free cover each neighbour.                     *)
Coalesced == \A b \in FreeBlocks : get_nextheader(heap, b) \notin FreeBlocks

(* Between two calls the ring holds exactly the free blocks, each once: it *)
(* closes after free_list_counter steps, and prev is the inverse of next.  *)
FreeListExact ==
  taken = NoBlock =>
    LET v == Visited(heap) IN
    /\ {v[i] : i \in 0..(heap.counter - 1)} = FreeBlocks
    /\ heap.counter = Cardinality(FreeBlocks)
    /\ v[heap.counter] = heap.head
    /\ \A i \in 1..heap.counter : get_prevfree(heap, v[i]) = v[i - 1]

(* Every allocated block holds one region of the program, or is the one a  *)
(* malloc is about to return: no block is lost, none is given out twice.   *)
Holds(b, r) == b + 4 <= r.ptr /\ r.ptr + r.used <= get_footer(heap, b)
NoBlockLost ==
  /\ \A b \in UsedBlocks \ {taken.block} : \E r \in live : Holds(b, r)
  /\ \A r \in live : \E b \in UsedBlocks : Holds(b, r)
  /\ Cardinality(UsedBlocks \ {taken.block}) = Cardinality(live)

(* The allocator never writes into a region the program holds: neither the *)
(* tags and links of other blocks, nor the hidden word of malloc_LLI.      *)
PayloadIntact ==
  \A r \in live : \A a \in Words : r.ptr <= a /\ a < r.ptr + r.used => heap.mem[a] = Junk

(* When a call returns NULL no free block could have served it and left a  *)
(* free block behind: the search misses no block of the ring.  (A free     *)
(* block that would be used up to less than MIN_BLOCKSIZE does not serve.) *)
RefusalJustified ==
  refused # NoRequest =>
    \A b \in FreeBlocks :
      get_blocksize(heap, b) < Want(refused, b) + MIN_BLOCKSIZE

(* Regions lie inside the heap, are aligned (to LLI_SIZE for a descriptor) *)
(* and overlap no other region: the heap implements Allocator.             *)
ImplementsAllocator == Abstract!Spec

=============================================================================
