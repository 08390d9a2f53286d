----------------------------- MODULE Scheduler -----------------------------
(***************************************************************************)
(* The VENUS scheduler: a dataflow graph of actors (src/dag.c) is fired on *)
(* a set of blocks (cores).  One processor runs the polling loop           *)
(* actor_check (src/fire_check.c) and, with interrupts disabled, the       *)
(* handlers block_handler (src/task_callback.c) and                        *)
(* dma_transfer_done_handler (dma/transfer_callback.c).                    *)
(*                                                                         *)
(* A handler is a sequence of steps during which isr # "none": neither the *)
(* loop nor another handler runs meanwhile.  The loop is preempted only at *)
(* the points PreemptAt.                                                   *)
(***************************************************************************)
EXTENDS Integers, Sequences, FiniteSets

CONSTANTS
  Actors,         \* the tasks of the graph
  ActorOrder,     \* actor_l from tail to head: the order of actor_create
  Edges,          \* the token fifos: [src, res, snk, inp]
  Host,           \* src of the root's input fifo, snk of the sink's output
  Blocks,         \* the VENUS blocks
  NULL,           \* no block, no actor
  NumChannels,    \* DMAC_NUMBER_OF_CHANNELS
  NUM_PACKET,     \* packets put into the root's fifo by DAG_depict
  MAX_BUFFER,     \* tokens a fifo holds
  RATEMATCH_NUM,  \* results a block returns (block_ret_num)
  MaxIdle,        \* environment: idle blocks announced and not yet taken
  RepeatIdle,     \* environment: may a loading block interrupt again?
  PreemptAt       \* points of the loop at which interrupts are taken

In(a)        == {e \in Edges : e.snk = a}
Out(a)       == {e \in Edges : e.src = a}
Results(a)   == {e.res : e \in Out(a)}
Fanout(a, r) == {e \in Out(a) : e.res = r}
In0(a)       == CHOOSE e \in In(a) : e.inp = 0

Edge == [src : Actors \cup {Host}, res : Nat, snk : Actors \cup {Host}, inp : Nat]

ASSUME DagAssumption ==
  /\ Host \notin Actors /\ NULL \notin Actors
  /\ ActorOrder \in Seq(Actors) \ {<<>>}
  /\ Actors = {ActorOrder[i] : i \in DOMAIN ActorOrder}
  /\ Edges \subseteq Edge /\ IsFiniteSet(Edges)
  /\ \A e \in Edges : e.src = Host => e.res = 0
  /\ \A a \in Actors :
       /\ \E e \in In(a) : e.inp = 0
       /\ \A e, f \in In(a) : e.inp = f.inp => e = f
       /\ Out(a) # {}
       /\ Results(a) = 0..(Cardinality(Results(a)) - 1)

ASSUME SizeAssumption ==
  /\ NULL \notin Blocks
  /\ NumChannels \in Nat \ {0}
  /\ MAX_BUFFER \in Nat \ {0}
  /\ NUM_PACKET \in 1..MAX_BUFFER
  /\ RATEMATCH_NUM \in Nat \ {0}
  /\ MaxIdle \in 1..MAX_BUFFER
  /\ RepeatIdle \in BOOLEAN

Channels == 0..(NumChannels - 1)
Rounds   == 1..NUM_PACKET
ResultIds == {0} \cup {e.res : e \in Edges}

(* A token names the result it carries.  rnd is a ghost: the packet it     *)
(* derives from.  A token with real = FALSE is PSEUDO_TOKEN_LABEL.         *)
Token == [src : Actors \cup {Host}, res : ResultIds, rnd : Rounds, real : BOOLEAN]
Data  == {t \in Token : t.real}

Real(a, r, n)   == [src |-> a, res |-> r, rnd |-> n, real |-> TRUE]
Pseudo(a, r, n) == [src |-> a, res |-> r, rnd |-> n, real |-> FALSE]

VARIABLES
  fifo,     \* tokens waiting on each edge, oldest first
  cnt,      \* lifecycle of a datum: fifos still to consume it; 0: freed
  ready,    \* ready_l from tail to head: [actor, deps]
  fire,     \* fire_list of an actor from tail to head: blocks, oldest first
  linger,   \* linger_list of an actor from head to tail: [blk, toks]
  done,     \* ghost: the packets whose results an actor has passed on
  flags,    \* BLOCK_INFLIGHT, BLOCK_INFIFO, BLOCK_RESULT of a block
  bactor,   \* block->actor
  rnd,      \* ghost: the packet a block works on
  hw,       \* what the block itself does
  qaddr,    \* block_q.addr: the one cell of the idle queue
  qn,       \* entries of the idle queue: wptr - rptr
  link,     \* the chain dma_transfer_link is building: head_lli, token_list
  chan,     \* channel_status and msg_array
  pc,       \* the loop's position in actor_check
  block,    \* fire_check.c's block
  actor,    \* fire_check.c's actor, shared with ready_search
  sel,      \* ready_node, as a position in ready
  todo,     \* dependencies inform_dma has not linked yet
  isr,      \* the running handler's position, or "none"
  iblk,     \* the block the handler serves
  ideal,    \* ideal_block
  rest,     \* linger entries traverse has still to visit
  idx       \* the actor ready_search looks at, as a position in ActorOrder

dagVars  == <<fifo, cnt, ready, fire, linger, done>>
blkVars  == <<flags, bactor, rnd, hw>>
qVars    == <<qaddr, qn>>
dmaVars  == <<link, chan>>
mainVars == <<pc, block, sel, todo>>
isrVars  == <<isr, iblk, ideal, rest, idx>>
vars == <<dagVars, blkVars, qVars, dmaVars, mainVars, actor, isrVars>>

-----------------------------------------------------------------------------
(* src/fifo.c.  At most NUM_PACKET <= MAX_BUFFER tokens ever enter a fifo, *)
(* so its ring does not wrap before it is full (module Fifo).              *)

(* A definition X_w is X with the mistake w: the runs must tell them apart. *)
fifo_full(e)  == Len(fifo[e]) = MAX_BUFFER
fifo_empty(e) == fifo[e] = <<>>
put_token_early(q, t) == IF Len(q) + 1 = MAX_BUFFER THEN q ELSE Append(q, t)
put_token(q, t) == IF Len(q) = MAX_BUFFER THEN q ELSE Append(q, t)

(* src/fire_check.c: the firing rule. *)
actor_ready(a)    == \A e \in In(a) : ~fifo_empty(e)
successor_full(a) == \A e \in Out(a) : fifo_full(e)
fire_check(a)     == actor_ready(a) /\ ~successor_full(a)

(* dma/dma.c, dma/phy_interface.c: appending to the chain under            *)
(* construction, and moving it to the first free channel.                  *)
NoLink   == [open |-> FALSE, toks |-> <<>>]
FreeChan == [blk |-> NULL, toks |-> <<>>]
FreeChannels_butLast == {c \in Channels : chan[c].blk = NULL /\ c + 1 < NumChannels}
FreeChannels == {c \in Channels : chan[c].blk = NULL}

Chained(toks) == (IF link.open THEN link.toks ELSE <<>>) \o toks

dma_transfer_channel_open(b, toks) ==
  /\ \E c \in FreeChannels :
       /\ \A d \in FreeChannels : c <= d
       /\ chan' = [chan EXCEPT ![c] = [blk |-> b, toks |-> toks]]
  /\ link' = [open |-> TRUE, toks |-> toks]

dma_transfer_channel(b, toks) ==
  /\ \E c \in FreeChannels :
       /\ \A d \in FreeChannels : c <= d
       /\ chan' = [chan EXCEPT ![c] = [blk |-> b, toks |-> toks]]
  /\ link' = NoLink

Copies(toks, d) == Cardinality({i \in DOMAIN toks : toks[i] = d})
Monus_keeps(m, n) == IF n < m THEN m - n ELSE m
Monus(m, n) == IF n < m THEN m - n ELSE 0

-----------------------------------------------------------------------------
(* The polling loop, actor_check. *)

Loop(p) == isr = "none" /\ pc = p

(* queue_size(&block_q) >= 1 && !is_list_empty(ready_l); get_queue. *)
Poll == /\ Loop("poll")
        /\ qn > 0
        /\ ready # <<>>
        /\ block' = qaddr
        /\ qn' = qn - 1
        /\ pc' = "select"
        /\ UNCHANGED <<dagVars, blkVars, qaddr, dmaVars, sel, todo, actor, isrVars>>

(* ready_select: the oldest entry of the actor the block ran last, or else *)
(* the oldest entry.                                                       *)
Affine == {i \in DOMAIN ready : ready[i].actor = bactor[block]}
ready_select(i) == IF Affine = {} THEN i = 1
                   ELSE i \in Affine /\ \A j \in Affine : i <= j

Select == /\ Loop("select")
          /\ \E i \in DOMAIN ready :
               /\ ready_select(i)
               /\ sel' = i
               /\ actor' = ready[i].actor
          /\ pc' = "fire"
          /\ UNCHANGED <<dagVars, blkVars, qVars, dmaVars, block, todo, isrVars>>

(* actor_fire: BLOCK_INFLIGHT, add_firelist, task_bind and the transfer of *)
(* the task's code, which opens a chain if none is open.                   *)
Task == ready[sel]

actor_fire ==
  /\ Loop("fire")
  /\ flags'  = [flags EXCEPT ![block] = @ \cup {"INFLIGHT"}]
  /\ fire'   = [fire EXCEPT ![actor] = Append(@, block)]
  /\ bactor' = [bactor EXCEPT ![block] = actor]
  /\ rnd'    = [rnd EXCEPT ![block] =
                  (CHOOSE d \in Task.deps : d.inp = 0).tok.rnd]
  /\ link'   = [open |-> TRUE, toks |-> Chained(<<>>)]
  /\ todo'   = Task.deps
  /\ pc'     = "link"
  /\ UNCHANGED <<fifo, cnt, ready, linger, done, hw, qVars, chan, block, sel,
                 actor, isrVars>>

(* inform_dma: the dependencies from the first input to the last; the last *)
(* one carries the block and launches the transfer.                        *)
First(d) == \A f \in todo : d.inp <= f.inp
Last(d)  == todo = {d}

inform_dma == /\ Loop("link")
              /\ \E d \in todo :
                   /\ First(d) /\ ~Last(d)
                   /\ link' = [open |-> TRUE, toks |-> Chained(<<d.tok>>)]
                   /\ todo' = todo \ {d}
              /\ UNCHANGED <<dagVars, blkVars, qVars, chan, pc, block, sel, actor, isrVars>>

inform_dma_last == /\ Loop("link")
                   /\ \E d \in todo :
                        /\ Last(d)
                        /\ dma_transfer_channel(block, Chained(<<d.tok>>))
                   /\ todo' = {}
                   /\ pc' = "free"
                   /\ UNCHANGED <<dagVars, blkVars, qVars, block, sel, actor, isrVars>>

RemoveEntry_oldest(s, i) == Tail(s)
RemoveEntry(s, i) == SubSeq(s, 1, i - 1) \o SubSeq(s, i + 1, Len(s))

ready_free == /\ Loop("free")
              /\ ready' = RemoveEntry(ready, sel)
              /\ pc' = "poll"
              /\ block' = NULL
              /\ sel' = 0
              /\ UNCHANGED <<fifo, cnt, fire, linger, done, blkVars, qVars, dmaVars,
                             todo, actor, isrVars>>

Main == Poll \/ Select \/ actor_fire \/ inform_dma \/ inform_dma_last \/ ready_free

-----------------------------------------------------------------------------
(* Interrupts, and what raises them.  An idle block announces itself, a    *)
(* computing block reports the end of its task, and a DMA channel reports  *)
(* the end of its transfer.                                                *)

(* The loop is also preempted while it polls for a free channel.           *)
Waiting == pc = "link" /\ (\E d \in todo : Last(d)) /\ FreeChannels = {}
Interruptible == isr = "none" /\ (pc \in PreemptAt \/ Waiting)

(* The second half of block_handler: put_queue unless BLOCK_INFIFO.  The   *)
(* queue has one cell, which every put overwrites.                         *)
Announce_again(b) == qaddr' = b /\ qn' = qn + 1
Announce(b) == IF "INFIFO" \in flags[b] THEN UNCHANGED qVars
               ELSE qaddr' = b /\ qn' = qn + 1

(* block_handler of a block that is not in flight.  Repeating it while the *)
(* block is queued changes nothing.                                        *)
BlockIdle(b) == /\ Interruptible
                /\ hw[b] = "idle"
                /\ flags[b] \cap {"INFLIGHT", "INFIFO"} = {}
                /\ qn < MaxIdle
                /\ Announce(b)
                /\ flags' = [flags EXCEPT ![b] = @ \cup {"INFIFO"}]
                /\ UNCHANGED <<dagVars, bactor, rnd, hw, dmaVars, mainVars, actor, isrVars>>

(* block_handler of a block in flight: alloc_result creates the data of    *)
(* the first RATEMATCH_NUM results and links their transfer.               *)
Returned(b) == {r \in Results(bactor[b]) : r < RATEMATCH_NUM}

alloc_result(b) ==
  [i \in 1..Cardinality(Returned(b)) |-> Real(bactor[b], i - 1, rnd[b])]

Reporting == IF RepeatIdle THEN {"computing", "idle"} ELSE {"computing"}

BlockDone(b) ==
  /\ Interruptible
  /\ "INFLIGHT" \in flags[b]
  /\ hw[b] \in Reporting
  /\ hw' = [hw EXCEPT ![b] = "finished"]
  /\ flags' = [flags EXCEPT ![b] = @ \cup {"RESULT"}]
  /\ cnt' = [d \in Data |->
               IF d \in {Real(bactor[b], r, rnd[b]) : r \in Returned(b)}
               THEN Cardinality(Fanout(d.src, d.res)) ELSE cnt[d]]
  /\ link' = [open |-> TRUE, toks |-> Chained(alloc_result(b))]
  /\ isr' = "launch"
  /\ iblk' = b
  /\ UNCHANGED <<fifo, ready, fire, linger, done, bactor, rnd, qVars, chan,
                 mainVars, actor, ideal, rest, idx>>

(* The last dma_transfer_link of alloc_result.  With no channel free the   *)
(* handler polls for one for ever: no other handler can release it.        *)
BlockLaunch == /\ isr = "launch"
               /\ dma_transfer_channel(iblk, link.toks)
               /\ Announce(iblk)
               /\ flags' = [flags EXCEPT ![iblk] = @ \cup {"INFIFO"}]
               /\ isr' = "none"
               /\ iblk' = NULL
               /\ UNCHANGED <<dagVars, bactor, rnd, hw, mainVars, actor, ideal, rest, idx>>

(* dma_transfer_done_handler for code and input data: recycle_garbage, and *)
(* the block starts computing.  The interrupt of a free channel is ignored.*)
Carries(c, b) == b # NULL /\ chan[c].blk = b

LoadDone(c) ==
  LET b == chan[c].blk IN
  /\ Interruptible
  /\ b # NULL
  /\ "RESULT" \notin flags[b]
  /\ cnt' = [d \in Data |-> Monus(cnt[d], Copies(chan[c].toks, d))]
  /\ chan' = [chan EXCEPT ![c] = FreeChan]
  /\ hw' = [hw EXCEPT ![b] = "computing"]
  /\ UNCHANGED <<fifo, ready, fire, linger, done, flags, bactor, rnd, qVars, link,
                 mainVars, actor, isrVars>>

(* scheduler_pass_result: one token for every fifo of every result, pseudo *)
(* tokens once token_list is used up; then the oldest firing is forgotten. *)
ResultToken(a, toks, r) ==
  IF r < Len(toks) THEN toks[r + 1] ELSE Pseudo(a, r, Head(toks).rnd)

scheduler_pass_result(a, toks) ==
  /\ fifo' = [e \in Edges |-> IF e.src = a
                              THEN put_token(fifo[e], ResultToken(a, toks, e.res))
                              ELSE fifo[e]]
  /\ fire' = [fire EXCEPT ![a] = Tail(@)]
  /\ done' = [done EXCEPT ![a] = Append(@, Head(toks).rnd)]
  /\ ideal' = IF Tail(fire[a]) = <<>> THEN Head(fire[a]) ELSE Head(Tail(fire[a]))

(* dma_transfer_done_handler for results, result_deliver.  The results of  *)
(* a firing that is not the actor's oldest linger, and the block is free.  *)
Arrives(c, b) == /\ Interruptible
                 /\ Carries(c, b)
                 /\ "RESULT" \in flags[b]
                 /\ chan' = [chan EXCEPT ![c] = FreeChan]

Release_queued(b) == /\ flags' = [flags EXCEPT ![b] = {"INFIFO"}]
                     /\ hw' = [hw EXCEPT ![b] = "idle"]

Release_inflight(b) == /\ flags' = [flags EXCEPT ![b] = {"INFLIGHT"}]
                       /\ hw' = [hw EXCEPT ![b] = "idle"]

Release(b) == /\ flags' = [flags EXCEPT ![b] = {}]
              /\ hw' = [hw EXCEPT ![b] = "idle"]

Oldest_newest(a) == fire[a][Len(fire[a])]
Oldest(a) == Head(fire[a])

ResultLate(c) ==
  LET b == chan[c].blk
      a == bactor[b]
  IN /\ Arrives(c, b)
     /\ fire[a] # <<>> /\ Oldest(a) # b
     /\ linger' = [linger EXCEPT ![a] = <<[blk |-> b, toks |-> chan[c].toks]>> \o @]
     /\ Release(b)
     /\ UNCHANGED <<fifo, cnt, ready, fire, done, bactor, rnd, qVars, link, mainVars,
                    actor, isrVars>>

(* Otherwise they are passed on.  linger_insert and the removal of the     *)
(* first linger node in scheduler_pass_result cancel out.                  *)
ResultNext(c) ==
  LET b == chan[c].blk
      a == bactor[b]
  IN /\ Arrives(c, b)
     /\ fire[a] # <<>> /\ Oldest(a) = b
     /\ scheduler_pass_result(a, chan[c].toks)
     /\ isr' = "scan"
     /\ iblk' = b
     /\ rest' = linger[a]
     /\ UNCHANGED <<cnt, ready, linger, blkVars, qVars, link, mainVars, actor, idx>>

(* while (!is_list_empty(linger_list)) traverse(check_if_done).  A match   *)
(* removes the first node of the list, whichever node matched.  At the end *)
(* of a traversal another one starts, unless the list is empty.            *)
ScanVisit ==
  LET a == bactor[iblk]
      p == Head(rest)
  IN /\ isr = "scan"
     /\ rest # <<>>
     /\ IF p.blk = ideal
        THEN /\ fire[a] # <<>>
             /\ scheduler_pass_result(a, p.toks)
             /\ linger' = [linger EXCEPT ![a] = Tail(@)]
        ELSE UNCHANGED <<fifo, fire, done, linger, ideal>>
     /\ rest' = IF Tail(rest) = <<>> THEN linger'[a] ELSE Tail(rest)
     /\ UNCHANGED <<cnt, ready, blkVars, qVars, dmaVars, mainVars, actor, isr, iblk, idx>>

ScanEnd == /\ isr = "scan"
           /\ rest = <<>>
           /\ Release(iblk)
           /\ isr' = "search"
           /\ idx' = 1
           /\ iblk' = NULL
           /\ ideal' = NULL
           /\ UNCHANGED <<dagVars, bactor, rnd, qVars, dmaVars, mainVars, actor, rest>>

(* ready_search: every actor in creation order, as long as it may fire.    *)
Found_backwards == ActorOrder[Len(ActorOrder) + 1 - idx]
Found == ActorOrder[idx]
Searching == isr = "search" /\ actor' = Found

SearchNext ==
  /\ Searching
  /\ ~fire_check(Found)
  /\ IF idx < Len(ActorOrder) THEN idx' = idx + 1 /\ UNCHANGED isr
                              ELSE idx' = 1 /\ isr' = "none"
  /\ UNCHANGED <<dagVars, blkVars, qVars, dmaVars, mainVars, iblk, ideal, rest>>

(* ready_create takes one token from every input and keeps the real ones.  *)
Inputs_fromOne(a) == {[inp |-> e.inp + 1, tok |-> Head(fifo[e])] : e \in In(a)}
Inputs(a) == {[inp |-> e.inp, tok |-> Head(fifo[e])] : e \in In(a)}
Pop_first(a, q) == [e \in Edges |-> IF e = In0(a) THEN Tail(q[e]) ELSE q[e]]
Pop(a, q) == [e \in Edges |-> IF e.snk = a THEN Tail(q[e]) ELSE q[e]]

SearchTask ==
  /\ Searching
  /\ fire_check(Found)
  /\ Head(fifo[In0(Found)]).real
  /\ ready' = Append(ready, [actor |-> Found,
                             deps  |-> {d \in Inputs(Found) : d.tok.real}])
  /\ fifo' = Pop(Found, fifo)
  /\ UNCHANGED <<cnt, fire, linger, done, blkVars, qVars, dmaVars, mainVars, isr, iblk,
                 ideal, rest, idx>>

(* A pseudo task skips the block: its successors get pseudo tokens.        *)
SearchPseudo ==
  LET n == Head(fifo[In0(Found)]).rnd IN
  /\ Searching
  /\ fire_check(Found)
  /\ ~Head(fifo[In0(Found)]).real
  /\ fifo' = [e \in Edges |->
                IF e.src = Found
                THEN put_token(Pop(Found, fifo)[e], Pseudo(Found, e.res, n))
                ELSE Pop(Found, fifo)[e]]
  /\ done' = [done EXCEPT ![Found] = Append(@, n)]
  /\ UNCHANGED <<cnt, ready, fire, linger, blkVars, qVars, dmaVars, mainVars, isr, iblk,
                 ideal, rest, idx>>

Isr == \/ BlockLaunch
       \/ ScanVisit \/ ScanEnd
       \/ SearchNext \/ SearchTask \/ SearchPseudo

DmaDone(c) == LoadDone(c) \/ ResultLate(c) \/ ResultNext(c)

-----------------------------------------------------------------------------
(* actor_launch: the graph is built, the packets wait in the root's fifo   *)
(* (packet_input) and schedule_init is about to search for ready actors.   *)
Packet(n) == Real(Host, 0, n)

Init ==
  /\ fifo = [e \in Edges |-> IF e.src = Host THEN [n \in Rounds |-> Packet(n)] ELSE <<>>]
  /\ cnt = [d \in Data |-> IF d \in {Packet(n) : n \in Rounds} THEN 1 ELSE 0]
  /\ ready = <<>>
  /\ fire = [a \in Actors |-> <<>>]
  /\ linger = [a \in Actors |-> <<>>]
  /\ done = [a \in Actors |-> <<>>]
  /\ flags = [b \in Blocks |-> {}]
  /\ bactor = [b \in Blocks |-> NULL]
  /\ rnd = [b \in Blocks |-> 1]
  /\ hw = [b \in Blocks |-> "idle"]
  /\ qaddr = NULL /\ qn = 0
  /\ link = NoLink
  /\ chan = [c \in Channels |-> FreeChan]
  /\ pc = "poll" /\ block = NULL /\ actor = NULL /\ sel = 0 /\ todo = {}
  /\ isr = "search" /\ idx = 1 /\ iblk = NULL /\ ideal = NULL /\ rest = <<>>

Next == \/ Main
        \/ Isr
        \/ \E b \in Blocks : BlockIdle(b) \/ BlockDone(b)
        \/ \E c \in Channels : DmaDone(c)

(* The processor keeps running, and an interrupt line stays raised until   *)
(* its handler has run.                                                    *)
Fairness == /\ WF_vars(Main)
            /\ WF_vars(Isr)
            /\ \A b \in Blocks : WF_vars(BlockIdle(b)) /\ WF_vars(BlockDone(b))
            /\ \A c \in Channels : WF_vars(DmaDone(c))

Spec     == Init /\ [][Next]_vars
FairSpec == Spec /\ Fairness
-----------------------------------------------------------------------------
(* Types. *)
Flag       == {"INFLIGHT", "INFIFO", "RESULT"}
Dependency == [inp : Nat, tok : Token]
ReadyTask  == {t \in [actor : Actors, deps : SUBSET Dependency] :
                \E d \in t.deps : d.inp = 0}
Tokens     == Seq(Token) \ {<<>>}
Parcel     == [blk : Blocks, toks : Tokens]

(* Every variable stays within the values the C declarations and the code  *)
(* that assigns them allow.                                                *)
TypeOK ==
  /\ fifo \in [Edges -> Seq(Token)]
  /\ cnt \in [Data -> Nat]
  /\ ready \in Seq(ReadyTask)
  /\ fire \in [Actors -> Seq(Blocks)]
  /\ linger \in [Actors -> Seq(Parcel)]
  /\ done \in [Actors -> Seq(Rounds)]
  /\ flags \in [Blocks -> SUBSET Flag]
  /\ bactor \in [Blocks -> Actors \cup {NULL}]
  /\ rnd \in [Blocks -> Rounds]
  /\ hw \in [Blocks -> {"idle", "computing", "finished"}]
  /\ qaddr \in Blocks \cup {NULL}
  /\ qn \in Nat
  /\ link \in [open : BOOLEAN, toks : Seq(Token)]
  /\ chan \in [Channels -> Parcel \cup {FreeChan}]
  /\ pc \in {"poll", "select", "fire", "link", "free"}
  /\ block \in Blocks \cup {NULL}
  /\ actor \in Actors \cup {NULL}
  /\ sel \in Nat
  /\ todo \in SUBSET Dependency
  /\ isr \in {"none", "launch", "scan", "search"}
  /\ iblk \in Blocks \cup {NULL}
  /\ ideal \in Blocks \cup {NULL}
  /\ rest \in Seq(Parcel)
  /\ idx \in 1..Len(ActorOrder)

(* What the loop and a handler rely on between two of their steps. *)
LoopState ==
  /\ pc # "poll" => block \in Blocks
  /\ pc = "fire" => actor \in Actors
  /\ pc \in {"fire", "link", "free"} => sel \in DOMAIN ready

HandlerState ==
  /\ qn > 0 => qaddr \in Blocks
  /\ \A b \in Blocks : "RESULT" \in flags[b] => "INFLIGHT" \in flags[b]
  /\ \A b \in Blocks : "INFLIGHT" \in flags[b] => bactor[b] \in Actors
  /\ isr \in {"launch", "scan"} => iblk \in Blocks /\ bactor[iblk] \in Actors
  /\ isr = "launch" => link.toks # <<>>
  /\ isr = "scan" => Len(rest) <= Len(linger[bactor[iblk]])

-----------------------------------------------------------------------------
(* Blocks and the idle queue. *)

(* A block that is marked as queued and has no task yet can still be given *)
(* one: it is what the next get_queue returns, or the loop holds it.       *)
(* Otherwise it is lost, because BLOCK_INFIFO keeps it from being queued   *)
(* again (block_handler, src/task_callback.c).                             *)
IdleBlockReachable ==
  \A b \in Blocks :
    "INFIFO" \in flags[b] /\ "INFLIGHT" \notin flags[b] =>
      \/ qn > 0 /\ qaddr = b
      \/ pc \in {"select", "fire"} /\ block = b

(* Two DMA channels never serve the same block: dma_transfer_done_handler  *)
(* tells the kinds of transfer apart by the block's flags alone.           *)
OneTransferPerBlock ==
  \A c, d \in Channels : chan[c].blk # NULL /\ chan[c].blk = chan[d].blk => c = d

(* A task is bound to a block only while the block is idle (task_bind):    *)
(* the actor of a block in flight never changes.                           *)
InFlightBindingFixed ==
  [][\A b \in Blocks : "INFLIGHT" \in flags[b] => bactor'[b] = bactor[b]]_vars

(* The loop binds the block to the actor whose ready entry it selected     *)
(* ("bind in-flight actor with current block", task_bind of                *)
(* src/fire_check.c).  The static actor is also what ready_search walks    *)
(* with, so this needs that no result arrives between the two steps.       *)
SelectedActorBound ==
  pc \in {"link", "free"} => bactor[block] = ready[sel].actor

Queued(b)  == qn > 0 /\ qaddr = b
Held(b)    == pc \in {"select", "fire"} /\ block = b
Serving(b) == \E c \in Channels : chan[c].blk = b

(* Marked as queued, but neither in the queue nor with the loop.           *)
Lost(b) == /\ "INFIFO" \in flags[b] /\ "INFLIGHT" \notin flags[b]
           /\ ~Queued(b) /\ ~Held(b)

(* How an idle block is lost, and the only way (put_queue, src/fifo.c;     *)
(* block_handler): another block announces itself while this one is in the *)
(* single cell of the queue.  It is then lost for ever: BLOCK_INFIFO stays *)
(* set and no handler queues it again.  Nothing else strands a block, in   *)
(* whatever order interrupts arrive, however many blocks wait, and even if *)
(* a block has been handed out twice.                                      *)
LostByOverwriteOnly ==
  [][\A b \in Blocks :
       IF Lost(b) THEN Lost(b)'
       ELSE Lost(b)' => Queued(b) /\ qaddr' # b /\ qn' = qn + 1]_vars

(* Where a block stands: what its flags, the queue, the loop, the channels *)
(* and the running handler say of it agree.  No two of them claim it, and  *)
(* the flags tell which one does (flags of include/block.h).               *)
Ownership ==
  \A b \in Blocks :
    /\ flags[b] \in {{}, {"INFIFO"}, {"INFIFO", "INFLIGHT"}, Flag}
    /\ flags[b] = {"INFIFO"} <=> Queued(b) \/ Held(b)
    /\ Held(b) => ~Queued(b)
    /\ "RESULT" \in flags[b] <=> hw[b] = "finished"
    /\ hw[b] = "computing" => "INFLIGHT" \in flags[b] /\ ~Serving(b)
    /\ Serving(b) => "INFLIGHT" \in flags[b]
    /\ pc = "link" /\ block = b =>
         /\ flags[b] = {"INFIFO", "INFLIGHT"}
         /\ hw[b] = "idle"
         /\ ~Serving(b)
    /\ isr \in {"launch", "scan"} /\ iblk = b =>
         "RESULT" \in flags[b] /\ ~Serving(b)
=============================================================================
