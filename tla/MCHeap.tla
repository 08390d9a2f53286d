------------------------------- MODULE MCHeap -------------------------------
(***************************************************************************)
(* The heap with two kinds of requests: a data_t or token_t, asked for as  *)
(* a pointer (task_callback.c), and a DMA descriptor.  The descriptor at   *)
(* the first block is shifted, the one after a token is aligned already.   *)
(***************************************************************************)
EXTENDS HeapProperties

Data       == [size |-> 4, used |-> 8, lli |-> FALSE]
Descriptor == [size |-> LLI_SIZE, used |-> LLI_SIZE, lli |-> TRUE]

MCRequests == {Data, Descriptor}
=============================================================================
