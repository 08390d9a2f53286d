-------------------------------- MODULE Dma --------------------------------
(***************************************************************************)
(* The emulated DMA controller and its users: dma_transfer_link builds a   *)
(* chain of descriptors (dma/dma.c), dma_transfer_channel gives the chain  *)
(* to a free channel (dma/phy_interface.c), and the handler of the channel *)
(* returns the descriptors (dma/transfer_callback.c).                      *)
(*                                                                         *)
(* The polling loop sends the code and inputs of a task, one call of       *)
(* dma_transfer_link after the other; the block's handler sends results,   *)
(* uninterrupted.  What a transfer means to the scheduler (block,          *)
(* token_list) is the subject of module Scheduler.                         *)
(***************************************************************************)
EXTENDS Integers, SequencesExt, FiniteSetsExt

CONSTANTS
  NumDesc,       \* descriptors malloc_LLI can provide
  NumChannels,   \* DMAC_NUMBER_OF_CHANNELS
  MaxLength,     \* DMA_MAX_TRANSFER_LENGTH, in bytes
  Width,         \* bytes moved at a time: 2^source_transfer_width
  Loads,         \* the lengths of the copies a firing asks for
  Results,       \* the lengths of the copies alloc_result asks for
  NULL,
  PreemptAt      \* <<interrupt, point of the loop>> that may coincide

ASSUME DmaAssumption ==
  /\ NumDesc \in Nat \ {0} /\ NumChannels \in Nat \ {0}
  /\ Width \in Nat \ {0} /\ MaxLength \in Nat \ {0} /\ MaxLength % Width = 0
  /\ Loads \cup Results \subseteq Seq(Nat) \ {<<>>}
  /\ NULL \notin Nat

Desc     == 1..NumDesc
Channels == 0..(NumChannels - 1)

(* lli_t.  req and pos are ghosts: the copy it belongs to, and its place   *)
(* in the chain.  Addresses are offsets from those of the copy.            *)
NoLLI == [llp |-> NULL, from |-> 0, to |-> 0, ts |-> 0, last |-> FALSE, req |-> 0, pos |-> 0]

VARIABLES
  lli,        \* the descriptors
  used,       \* those allocated
  head_lli, last_lli,
  status,     \* channel_status: the busy channels
  msg,        \* msg_array[c]->lli
  carry,      \* ghost: the transfer on a channel: its chain and copies asked
  pc,         \* the loop's position
  work,       \* the copies of the loop's chain, and how many are linked
  index,      \* get_free_channel's index
  reg,        \* channel_status as loaded by set_channel_busy
  iwork       \* the running handler's copies, or NoWork

chainVars == <<lli, used, head_lli, last_lli>>
chanVars  == <<status, msg, carry>>
loopVars  == <<pc, work, index, reg>>
vars      == <<chainVars, chanVars, loopVars, iwork>>

NoWork  == [asked |-> <<>>, linked |-> 0]
NoCarry == [lli |-> NULL, asked |-> <<>>]

-----------------------------------------------------------------------------
(* The descriptors met from h on: a chain ends in one that links to itself.*)
Chain(h) ==
  LET upTo[i \in Desc] ==
        IF i = 1 THEN <<h>>
        ELSE LET s == upTo[i - 1]
                 n == lli[Last(s)].llp
             IN IF n \in {NULL, Last(s)} THEN s ELSE Append(s, n)
  IN IF h = NULL THEN <<>> ELSE upTo[NumDesc]

(* dma_transfer_link, lli_setup.  A copy takes one chunk more than it has  *)
(* full ones.  The source advances by 4 * MaxLength, the destination not   *)
(* at all, and the controller is told the length in units of Width.        *)
Chunks(len) == len \div MaxLength + 1

LengthOf(len, i) == IF i < Chunks(len) THEN MaxLength ELSE len - MaxLength * (i - 1)

malloc_LLI(n) == [i \in 1..n |->
  CHOOSE d \in Desc \ used : Cardinality({e \in Desc \ used : e < d}) = i - 1]

NextLink_open(fresh, i) == IF i < Len(fresh) THEN fresh[i + 1] ELSE NULL
NextLink(fresh, i) == IF i < Len(fresh) THEN fresh[i + 1] ELSE fresh[i]

lli_setup(len, fresh, i, r, atEnd) ==
  [llp  |-> NextLink(fresh, i),
   from |-> 4 * MaxLength * (i - 1),
   to   |-> 0,
   ts   |-> LengthOf(len, i) \div Width,
   last |-> atEnd /\ i = Len(fresh),
   req  |-> r,
   pos  |-> Len(Chain(head_lli)) + i]

(* w.asked[r] is copied; atEnd: the call carries the block.                *)
dma_transfer_link(w) ==
  LET r     == w.linked + 1
      n     == Chunks(w.asked[r])
      fresh == malloc_LLI(n)
      atEnd == r = Len(w.asked)
  IN /\ Cardinality(Desc \ used) >= n
     /\ lli' = [d \in Desc |->
          IF d \in ToSet(fresh)
          THEN LET i == CHOOSE i \in 1..n : fresh[i] = d
               IN lli_setup(w.asked[r], fresh, i, r, atEnd)
          ELSE IF head_lli # NULL /\ d = last_lli
               THEN [lli[d] EXCEPT !.llp = fresh[1]] ELSE lli[d]]
     /\ used' = used \cup ToSet(fresh)
     /\ head_lli' = IF head_lli = NULL THEN fresh[1] ELSE head_lli
     /\ last_lli' = IF atEnd THEN last_lli ELSE fresh[n]

-----------------------------------------------------------------------------
(* The polling loop, inform_dma, up to its last call. *)
Loop(p) == iwork = NoWork /\ pc = p

StartLoad == /\ Loop("idle")
             /\ \E asked \in Loads : work' = [asked |-> asked, linked |-> 0]
             /\ pc' = "link"
             /\ UNCHANGED <<chainVars, chanVars, index, reg, iwork>>

Link == /\ Loop("link")
        /\ dma_transfer_link(work)
        /\ work' = [work EXCEPT !.linked = @ + 1]
        /\ IF work.linked + 1 = Len(work.asked) THEN pc' = "find" /\ index' = 0
                                                ELSE UNCHANGED <<pc, index>>
        /\ UNCHANGED <<chanVars, reg, iwork>>

(* channel_status |= (1 << index) and channel_status &= ~(1 << index). *)
set_channel_busy_only(s, i) == {i}
set_channel_busy(s, i) == s \cup {i}
set_channel_idle_not(s, i) == s
set_channel_idle(s, i) == s \ {i}

(* get_free_channel reads channel_status anew for every index;             *)
(* dma_transfer_channel calls it until a channel is free.                  *)
NextIndex_noWrap == IF index + 1 < NumChannels THEN index + 1 ELSE index
NextIndex == (index + 1) % NumChannels

Find == /\ Loop("find")
        /\ IF index \in status
           THEN index' = NextIndex /\ UNCHANGED pc
           ELSE pc' = "load" /\ UNCHANGED index
        /\ UNCHANGED <<chainVars, chanVars, work, reg, iwork>>

(* set_channel_busy: a load and a store. *)
Load == /\ Loop("load")
        /\ reg' = status
        /\ pc' = "store"
        /\ UNCHANGED <<chainVars, chanVars, work, index, iwork>>

Store == /\ Loop("store")
         /\ status' = set_channel_busy(reg, index)
         /\ carry' = [carry EXCEPT ![index] = [lli |-> head_lli, asked |-> work.asked]]
         /\ reg' = {}
         /\ pc' = "record"
         /\ UNCHANGED <<chainVars, msg, work, index, iwork>>

Record == /\ Loop("record")
          /\ msg' = [msg EXCEPT ![index] = head_lli]
          /\ head_lli' = NULL
          /\ work' = NoWork
          /\ pc' = "idle"
          /\ UNCHANGED <<lli, used, last_lli, status, carry, index, reg, iwork>>

Main == StartLoad \/ Link \/ Find \/ Load \/ Store \/ Record

-----------------------------------------------------------------------------
(* The handlers. *)
Taken(interrupt) == iwork = NoWork /\ <<interrupt, pc>> \in PreemptAt

(* block_handler, alloc_result: the chain is built and launched at once.   *)
(* With no channel free the handler polls for ever (see Scheduler).        *)
StartResults == /\ Taken("result")
                /\ \E asked \in Results : iwork' = [asked |-> asked, linked |-> 0]
                /\ UNCHANGED <<chainVars, chanVars, loopVars>>

LinkResult == /\ iwork.linked < Len(iwork.asked)
              /\ dma_transfer_link(iwork)
              /\ iwork' = [iwork EXCEPT !.linked = @ + 1]
              /\ UNCHANGED <<chanVars, loopVars>>

get_free_channel(c) == c \in Channels \ status /\ \A d \in Channels \ status : c <= d

LaunchResults ==
  /\ iwork # NoWork /\ iwork.linked = Len(iwork.asked)
  /\ \E c \in Channels :
       /\ get_free_channel(c)
       /\ status' = set_channel_busy(status, c)
       /\ carry' = [carry EXCEPT ![c] = [lli |-> head_lli, asked |-> iwork.asked]]
       /\ msg' = [msg EXCEPT ![c] = head_lli]
  /\ head_lli' = NULL
  /\ iwork' = NoWork
  /\ UNCHANGED <<lli, used, last_lli, loopVars>>

(* dma_transfer_done_handler of a busy channel.  The walk compares with    *)
(* msg->lli->CHx_LLP again after its first step, and so ends at the second *)
(* descriptor.  A freed one keeps its link; nothing else reads it.         *)
Returned_first(h) == {h}
Returned(h) == {h, lli[h].llp}

Interrupt(c) == IF pc = "record" /\ index = c THEN "early" ELSE "done"

TransferDone(c) ==
  /\ c \in status /\ carry[c] # NoCarry /\ msg[c] # NULL
  /\ Taken(Interrupt(c))
  /\ status' = set_channel_idle(status, c)
  /\ used' = used \ Returned(msg[c])
  /\ lli' = [d \in Desc |-> IF d \in Returned(msg[c]) THEN NoLLI ELSE lli[d]]
  /\ carry' = [carry EXCEPT ![c] = NoCarry]
  /\ UNCHANGED <<head_lli, last_lli, msg, loopVars, iwork>>

Handler == LinkResult \/ LaunchResults

-----------------------------------------------------------------------------
(* dma_init: DMAC_free_channel_init, msg_array_init. *)
Init == /\ lli = [d \in Desc |-> NoLLI]
        /\ used = {}
        /\ head_lli = NULL /\ last_lli = NULL
        /\ status = {}
        /\ msg = [c \in Channels |-> NULL]
        /\ carry = [c \in Channels |-> NoCarry]
        /\ pc = "idle" /\ work = NoWork /\ index = 0 /\ reg = {}
        /\ iwork = NoWork

Next == Main \/ StartResults \/ Handler \/ \E c \in Channels : TransferDone(c)

(* The processor runs, and a started transfer comes to its end. *)
Fairness == /\ WF_vars(Main) /\ WF_vars(Handler)
            /\ \A c \in Channels : WF_vars(TransferDone(c))

Spec     == Init /\ [][Next]_vars
FairSpec == Spec /\ Fairness
=============================================================================
