-------------------------------- MODULE Heap --------------------------------
(***************************************************************************)
(* The allocator of tokens, list nodes and DMA descriptors:                *)
(* src/mem_alloc.c, src/mem_free.c and src/mem_block.c, word by word.      *)
(*                                                                         *)
(* A block of the heap is a header, a payload and a footer; header and     *)
(* footer hold the size of the block and, in bit 0, whether it is          *)
(* allocated.  Free blocks are chained in a ring through two words of      *)
(* their payload.  The program owns the payload of what it allocated and   *)
(* writes all of it.                                                       *)
(*                                                                         *)
(* The polling loop and the handlers call the allocator, and nothing       *)
(* guards it: malloc is two steps, between which a handler may call free   *)
(* when Preemptive is TRUE.                                                *)
(***************************************************************************)
EXTENDS Integers, FiniteSets

CONSTANTS alloc_start, alloc_end, \* the heap, from heap_init
          Requests,     \* what the program asks for: [size, used, lli]
          Preemptive    \* may a handler free during a malloc of the loop?

FREE == 0
ALLOCATED == 1
MIN_BLOCKSIZE == 16
BOUNDART_SIZE == 8
LLI_SIZE == 64

(* used may exceed size: task_callback.c asks for sizeof(data), the size   *)
(* of a pointer, and writes a whole data_t.                                *)
ASSUME HeapAssumption ==
  /\ alloc_start \in Nat \ {0} /\ alloc_start % 8 = 0
  /\ alloc_end \in Nat /\ alloc_end % 8 = 0
  /\ alloc_end - alloc_start - 16 >= MIN_BLOCKSIZE
  /\ Requests \subseteq [size : Nat, used : Nat, lli : BOOLEAN]
  /\ \A q \in Requests : q.lli => q.used = LLI_SIZE
  /\ Preemptive \in BOOLEAN

VARIABLES heap,     \* [mem, head, counter]: the words, and the free list
          live,     \* what the program holds: [ptr, used, lli]
          taken,    \* the block a malloc under way has split off
          refused   \* the request the last call returned NULL for

vars == <<heap, live, taken, refused>>

NoBlock == [block |-> 0, old |-> 0, req |-> [size |-> 0, used |-> 0, lli |-> FALSE]]
NoRequest == NoBlock.req

-----------------------------------------------------------------------------
(* Words.  A definition X_w is X with the mistake w.                       *)

Words == {a \in alloc_start..(alloc_end - 4) : a % 4 = 0}
Junk  == 2    \* what the program writes: neither a header nor a link

Load(h, a)     == IF a \in Words THEN h.mem[a] ELSE 0
Store(h, a, v) == IF a \in Words THEN [h EXCEPT !.mem = [@ EXCEPT ![a] = v]] ELSE h

align_up(x, n) == n * ((x + n - 1) \div n)

(* The program writes no more than malloc reserves: a data_t or a token_t  *)
(* is 8 bytes, which is what a request for 4 is rounded up to.             *)
ASSUME RequestsFit == \A q \in Requests : ~q.lli => q.used <= align_up(q.size, 8)

get_prologue   == alloc_start + 4
get_epilogue   == alloc_end - 4
get_firstblock == get_prologue + 8

get_blocksize(h, a)    == Load(h, a) - (Load(h, a) % 8)
set_blocksize(h, a, s) == Store(h, a, (Load(h, a) % 8) + s)
get_allocated(h, a)    == Load(h, a) % 2
set_allocated(h, a, x) == Store(h, a, Load(h, a) - (Load(h, a) % 2) + x)
Mark(h, a, s, x)       == set_blocksize(set_allocated(h, a, x), a, s)

get_payload(a) == align_up(a, 8)
get_header(a)  == align_up(a, 8) - 4
get_footer(h, a)     == get_header(a) + get_blocksize(h, get_header(a)) - 4
get_nextheader(h, a) == get_header(a) + get_blocksize(h, get_header(a))
get_prevheader(h, a) == get_header(a) - get_blocksize(h, get_header(a) - 4)

get_prevfree(h, b) == IF b = 0 THEN 0 ELSE Load(h, b + 4)
get_nextfree(h, b) == IF b = 0 THEN 0 ELSE Load(h, b + 8)
set_prevfree(h, b, p) == Store(h, b + 4, p)
set_nextfree(h, b, n) == Store(h, b + 8, n)

-----------------------------------------------------------------------------
(* The ring of free blocks, src/mem_free.c. *)

EmptyList(h) == h.head = 0 \/ h.counter = 0

free_list_insert(h, b) ==
  IF EmptyList(h)
  THEN [set_nextfree(set_prevfree(h, b, b), b, b) EXCEPT !.head = b, !.counter = 1]
  ELSE LET tail == get_prevfree(h, h.head)
           h1   == set_prevfree(set_nextfree(h, b, h.head), h.head, b)
           h2   == set_prevfree(set_nextfree(h1, tail, b), b, tail)
       IN  [h2 EXCEPT !.head = b, !.counter = @ + 1]

free_list_delete_keepsHead(h, b) ==
  IF EmptyList(h) THEN h
  ELSE IF h.counter = 1 THEN [h EXCEPT !.head = 0, !.counter = 0]
  ELSE LET prev == get_prevfree(h, b)
           next == get_nextfree(h, b)
       IN  [set_nextfree(set_prevfree(h, next, prev), prev, next)
              EXCEPT !.counter = @ - 1]

free_list_delete(h, b) ==
  IF EmptyList(h) THEN h
  ELSE IF h.counter = 1 THEN [h EXCEPT !.head = 0, !.counter = 0]
  ELSE LET prev == get_prevfree(h, b)
           next == get_nextfree(h, b)
       IN  [set_nextfree(set_prevfree(h, next, prev), prev, next)
              EXCEPT !.head = IF b = @ THEN next ELSE @, !.counter = @ - 1]

merge_free_blocks_sizeOnly(h, low, high) ==
  LET size == get_blocksize(h, low) + get_blocksize(h, high)
      h1   == set_blocksize(h, low, size)
  IN  set_blocksize(h1, get_footer(h1, high), size)

merge_free_blocks(h, low, high) ==
  LET size == get_blocksize(h, low) + get_blocksize(h, high)
      h1   == Mark(h, low, size, FREE)
  IN  Mark(h1, get_footer(h1, high), size, FREE)

-----------------------------------------------------------------------------
(* malloc and malloc_LLI: first fit along the ring, and split. *)

unaligned_size(b) == get_payload(b) % LLI_SIZE

Want(q, b) ==
  IF ~q.lli
  THEN LET n == align_up(q.size, 8) + BOUNDART_SIZE
       IN  IF n < MIN_BLOCKSIZE THEN MIN_BLOCKSIZE ELSE n
  ELSE IF unaligned_size(b) = 0 THEN LLI_SIZE + BOUNDART_SIZE
  ELSE LLI_SIZE * 2 - unaligned_size(b) + BOUNDART_SIZE

(* A fit that leaves less than a whole free block is refused. *)
Takes(h, b, n) == /\ n >= MIN_BLOCKSIZE
                  /\ get_allocated(h, b) = FREE
                  /\ get_blocksize(h, b) - n >= MIN_BLOCKSIZE

Split_oldFooter(h, b, n) ==
  LET left == get_blocksize(h, b) - n
      h1   == Mark(h, b, n, ALLOCATED)
      h2   == Mark(h1, get_footer(h1, b), n, ALLOCATED)
  IN  Mark(h2, get_nextheader(h2, b), left, FREE)

Split(h, b, n) ==
  LET left == get_blocksize(h, b) - n
      h1   == Mark(set_blocksize(h, get_footer(h, b), left), b, n, ALLOCATED)
      h2   == Mark(h1, get_footer(h1, b), n, ALLOCATED)
  IN  Mark(h2, get_nextheader(h2, b), left, FREE)

(* The blocks the search looks at: free_list_counter of them. *)
Visited(h) == LET b[i \in 0..h.counter] ==
                    IF i = 0 THEN h.head ELSE get_nextfree(h, b[i - 1])
              IN  b

Fits_butLast(h, q) ==
  {i \in 0..(h.counter - 2) : Takes(h, Visited(h)[i], Want(q, Visited(h)[i]))}
Fits(h, q) ==
  {i \in 0..(h.counter - 1) : Takes(h, Visited(h)[i], Want(q, Visited(h)[i]))}

malloc_take(q) ==
  /\ taken = NoBlock
  /\ 0 < q.size /\ q.size < alloc_end - alloc_start - 4 - 8 - 4
  /\ \/ /\ Fits(heap, q) = {}
        /\ refused' = q
        /\ UNCHANGED <<heap, taken>>
     \/ \E i \in Fits(heap, q) :
          LET b == Visited(heap)[i] IN
          /\ \A j \in Fits(heap, q) : i <= j
          /\ heap' = Split(heap, b, Want(q, b))
          /\ taken' = [block |-> b, old |-> get_blocksize(heap, b), req |-> q]
          /\ refused' = NoRequest
  /\ UNCHANGED live

Relist(h, b, old) ==
  LET h1 == free_list_delete(h, b)
  IN  IF old > get_blocksize(h1, b) THEN free_list_insert(h1, get_nextheader(h1, b))
      ELSE h1

(* malloc_LLI moves the pointer up to a multiple of LLI_SIZE and leaves    *)
(* the payload's own address in the word before it.                        *)
Shift_back(b, q) == IF q.lli THEN unaligned_size(b) ELSE 0
Shift(b, q) == IF q.lli /\ unaligned_size(b) # 0 THEN LLI_SIZE - unaligned_size(b) ELSE 0

Fill(h, p, n) == [h EXCEPT !.mem = [a \in Words |->
                    IF p <= a /\ a < p + n THEN Junk ELSE @[a]]]

malloc_return ==
  /\ taken # NoBlock
  /\ LET q    == taken.req
         real == get_payload(taken.block)
         ptr  == real + Shift(taken.block, q)
         h    == Relist(heap, taken.block, taken.old)
         h1   == IF ptr # real THEN Store(h, ptr - 4, real) ELSE h
     IN  /\ heap' = Fill(h1, ptr, q.used)
         /\ live' = live \cup {[ptr |-> ptr, used |-> q.used, lli |-> q.lli]}
  /\ taken' = NoBlock
  /\ UNCHANGED refused

-----------------------------------------------------------------------------
(* free and free_LLI: merge with the free neighbours.  The assertions of   *)
(* free halt the program.                                                  *)

PrevFree_ignored(h, b) == FALSE
PrevFree(h, b) == get_allocated(h, get_prevheader(h, b)) = FREE
NextFree(h, b) == get_allocated(h, get_nextheader(h, b)) = FREE

free(h, b) ==
  LET next == get_nextheader(h, b)
      prev == get_prevheader(h, b)
      low  == IF PrevFree(h, b) THEN prev ELSE b
      h1   == IF NextFree(h, b) THEN free_list_delete(h, next) ELSE h
      h2   == IF PrevFree(h, b) THEN merge_free_blocks(free_list_delete(h1, prev), prev, b)
              ELSE IF NextFree(h, b) THEN h1
              ELSE set_allocated(set_allocated(h1, b, FREE), get_footer(h1, b), FREE)
      h3   == IF NextFree(h, b) THEN merge_free_blocks(h2, low, next) ELSE h2
  IN  free_list_insert(h3, low)

(* free_LLI: an odd word before the pointer is a header. *)
RealPayload(r) == IF r.lli /\ Load(heap, r.ptr - 4) % 2 = 0
                  THEN Load(heap, r.ptr - 4) ELSE r.ptr

release(r) ==
  /\ taken = NoBlock \/ Preemptive
  /\ LET b == get_header(RealPayload(r)) IN
     /\ get_allocated(heap, b) = ALLOCATED
     /\ get_blocksize(heap, b) >= MIN_BLOCKSIZE
     /\ heap' = free(heap, b)
  /\ live' = live \ {r}
  /\ refused' = NoRequest
  /\ UNCHANGED taken

-----------------------------------------------------------------------------
(* init_sentinel and heap_init; the emulated memory is zero. *)
Sentinels ==
  LET size == alloc_end - alloc_start - 4 - 8 - 4
      h0 == [mem |-> [a \in Words |-> 0], head |-> 0, counter |-> 0]
      h1 == Mark(h0, get_prologue, 8, ALLOCATED)
      h2 == Mark(h1, get_prologue + 4, 8, ALLOCATED)
      h3 == Mark(h2, get_epilogue, 0, ALLOCATED)
      h4 == Mark(h3, get_firstblock, size, FREE)
  IN  Mark(h4, get_footer(h4, get_firstblock), size, FREE)

heap_init == /\ heap = free_list_insert(Sentinels, get_firstblock)
             /\ live = {}
             /\ taken = NoBlock
             /\ refused = NoRequest

Next == \/ \E q \in Requests : malloc_take(q)
        \/ malloc_return
        \/ \E r \in live : release(r)

Spec == heap_init /\ [][Next]_vars

=============================================================================
