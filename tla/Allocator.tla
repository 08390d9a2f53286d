----------------------------- MODULE Allocator -----------------------------
(***************************************************************************)
(* What an allocator promises: a region it hands out lies inside the heap, *)
(* is aligned as asked, and overlaps no region that is in use.             *)
(***************************************************************************)
EXTENDS Integers

CONSTANTS First, Last,  \* the addresses it manages: First <= a < Last
          Requests,     \* [size, used, lli]
          LLI_SIZE      \* alignment of a region with lli = TRUE

VARIABLE live           \* the regions in use: [ptr, used, lli]

Apart(r, s) == r.ptr + r.used <= s.ptr \/ s.ptr + s.used <= r.ptr

Aligned(r) == r.ptr % (IF r.lli THEN LLI_SIZE ELSE 8) = 0

Init == live = {}

Allocate(r) == /\ First <= r.ptr /\ r.ptr + r.used <= Last
               /\ Aligned(r)
               /\ \A s \in live : Apart(r, s)
               /\ live' = live \cup {r}

Free(r) == live' = live \ {r}

Next == \/ \E p \in {a \in First..Last : a % 8 = 0}, q \in Requests :
             Allocate([ptr |-> p, used |-> q.used, lli |-> q.lli])
        \/ \E r \in live : Free(r)

Spec == Init /\ [][Next]_live

=============================================================================
