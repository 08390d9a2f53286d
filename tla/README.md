# The VENUS scheduler in TLA+

TLA+ modules, TLC runs and TLAPS proofs for the scheduler in `src/`. The
scheduler runs a dataflow graph of *actors* on a set of *blocks* (vector
cores). An actor may fire when every one of its input fifos holds a token; a
firing is sent to an idle block by DMA, and when the block has finished, its
results come back by DMA and become tokens of the successors. One RISC-V
processor runs a polling loop, which interrupts preempt.

## 1. The system

| Component | State | Operations | Interacts with |
|---|---|---|---|
| Token fifo (`src/fifo.c`) | `token[]`, `wptr`, `rptr` | `put_token`, `get_token`, `read_token`, size predicates | filled by the DMA handler, emptied by `ready_search` |
| Idle queue (`src/fifo.c`) | `block_q.addr`, `wptr`, `rptr` | `put_queue`, `get_queue` | filled by `block_handler`, emptied by the loop |
| Polling loop (`src/fire_check.c`) | `ready_l`, static `actor`, `ready`, `block` | `actor_check`, `ready_select`, `actor_fire`, `inform_dma`, `ready_free` | shares all of it with the handlers, without any lock |
| Search (`src/fire_check.c`) | the same `actor`, `ready_l` | `ready_search`, `ready_create`, `ready_insert` | called at start-up and at the end of the DMA handler |
| Block interrupt (`src/task_callback.c`) | block flags, `cur_block` | `block_handler`, `alloc_result` | extends the DMA chain, puts the block into the idle queue |
| DMA done interrupt (`dma/transfer_callback.c`) | `linger_list`, `fire_list`, `data->cnt` | `dma_transfer_done_handler`, `result_deliver`, `scheduler_pass_result`, `recycle_garbage` | reads block flags to tell loads from results |
| DMA chain (`dma/dma.c`) | `head_lli`, `last_lli`, `token_list`, `msg_array` | `dma_transfer_link`, `dma_transfer_channel` | called from the loop and from `alloc_result` |
| Channel status (`dma/phy_interface.c`, with `SIMULATE_QEMU`) | `channel_status` | `get_free_channel`, `set_channel_idle` | polled by `dma_transfer_channel` |
| DMA controller driver (`dma/phy_interface.c`, `dma/chx_cfg.c`, without `SIMULATE_QEMU`) | the controller's registers | `DMAC_reset`, `DMAC_config`, `DMAC_get_free_channel`, `DMAC_CHx_*`, `DMAC_interrupt_handler` | takes the place of the channel status |
| Heap (`src/mem_*.c`) | the words, `free_list_head`, `free_list_counter` | `malloc`, `free`, `malloc_LLI`, `free_LLI` | called from the loop and from handlers |
| Graph API (`src/actor_create.c`, `src/dag.c`, `src/actor_init.c`) | `actor_l`, the fifos | `actor_create`, `edge_make`, `packet_input`, `actor_launch` | before interrupts matter |
| Lists (`src/linked_list.c`) | nodes | `insert`, `delete_node`, `traverse`, ... | everywhere |
| Dispatch (`src/trap.c`, `src/external_irq.c`) | none | `trap_handler`, `external_interrupt_handler` | one handler at a time, interrupts disabled |

What is hard here: the loop and the handlers share static variables and lists
(`actor`, `head_lli`, `token_list`, `ready_l`, the heap) with no protection;
results of overlapping firings arrive in any order and have to be reordered by
`linger_list`; a block's flags decide what its next interrupt means; data are
reference counted across fifos, ready tasks and transfers; a handler contains two
loops whose exit depends on other code. `PROJECT.json` lists each hazard at
its line with the properties that cover it, or why none does.

What makes each part correct:

* fifo: it behaves as a bounded queue;
* idle queue and flags: every idle block can still be given a task, a block has
  one owner at a time, and its binding does not change while it works;
* loop: the task that was selected is the one that is bound and transferred;
* delivery: every actor processes every packet once and in order, no token is
  lost or duplicated, all inputs of a task belong to the same packet;
* lifecycle: `data->cnt` is exactly the number of consumers to come;
* search: nothing that could fire is overlooked;
* heap: regions do not overlap and are aligned, the boundary tags and the free
  ring describe the same free blocks, and no block is lost;
* lists: both read as the sequence of what was inserted, and no node is lost or
  used after it was freed;
* chains: the descriptors of a transfer copy what was asked, belong to it alone
  and are returned when it ends; a channel is busy exactly while it carries one;
* controller: a running channel is not programmed again, and every interrupt
  cause is served;
* graph: the scheduler's loops see the graph that was declared;
* handlers return, and all packets are eventually processed.

## 2. The modules

| Module | What it is |
|---|---|
| `BoundedQueue` | what a fifo promises |
| `Fifo` | `fifo_t` with its byte arithmetic |
| `FifoProofs` | theorems about `Fifo` |
| `Dataflow` | what the scheduler promises: per actor, the packets it has processed, in order, after its predecessors |
| `Scheduler` | the loop, the handlers, blocks, DMA channels and fifos together; its type invariant and the invariants about blocks |
| `SchedulerProperties` | the properties of tokens, data and delivery; the refinement of `Dataflow` |
| `SchedulerProofs` | theorems about `Scheduler`: types, the ownership of blocks and tokens, and the lemmas about transfers that the next module needs |
| `SchedulerOrderProofs` | theorems about the order of packets, the refinement of `Dataflow`, and reference counts; extends `SchedulerProofs` |
| `Allocator` | what an allocator promises |
| `Heap`, `HeapProperties` | the allocator word by word; its properties and the refinement of `Allocator` |
| `HeapProofs` | theorems about `Heap` and the refinement of `Allocator` |
| `ListOrder` | what `ready_l` and `fire_list` promise: sequences, entered at one end |
| `LinkedList` | the same lists as pointers, one step per load and store of the loop; the refinement of `ListOrder` |
| `LinkedListProofs` | theorems about `LinkedList` and the refinement of `ListOrder` |
| `Dma`, `DmaProperties` | descriptor chains and the emulated channels; their properties |
| `DmaProofs` | theorems about `Dma` |
| `Dmac` | the driver of the real controller, with the controller as its environment |
| `DmacProofs` | theorems about `Dmac` |
| `Graph` | the graph interface, `dag.c`, and what the scheduler's loops see of the result |
| `GraphProofs` | theorems about `Graph` |
| `MCFifo`, `MCScheduler`, `MCHeap`, `MCLinkedList`, `MCDma`, `MCDmac`, `MCGraph` | values of the constants for TLC |

`Scheduler` composes the components on the level of tokens and blocks;
`LinkedList`, `Dma` and `Graph` are the levels below it, each for the part of
the state that `Scheduler` takes as a sequence (`ready`, `fire`), as one step
(building and launching a chain, `channel_status`) or as a constant (the graph).
They are tied to it by what they show: `ListOrder` is how `Scheduler` uses its
sequences, `BusyWhileCarrying` is its `chan` (a channel in use has one transfer
and that transfer's message; that a release may also be lost is beyond
`Scheduler`, whose releases are one step), and `SchedulerAssumption` is what it
assumes of its graph.

A definition named `X_w` beside a definition `X` is `X` with the mistake `w`:
the runs are expected to tell the two apart, and `PROJECT.json` says which
property does.

### Scheduler

Each variable is a variable or field of the code (`fifo`, `cnt`, `ready`,
`fire`, `linger`, `flags`, `bactor`, `qaddr`/`qn`, `link`, `chan`, `block`,
`actor`), a program counter (`pc` of the loop, `isr` of the running handler)
or a ghost (`rnd`, `done`, and `rnd` in tokens: the packet a token derives
from). `hw` is what a block itself is doing; it only constrains when a block
may interrupt.

* The loop is five steps: `Poll`, `Select`, `actor_fire`, `inform_dma` (one step
  for each dependency), `ready_free`. `PreemptAt` says between which of them
  interrupts are taken; the machine allows all of them. `actor_fire` is one
  step: the flag, the fire list and the binding are not separated (what an
  interrupt inside `insert` does is in `LinkedList`). While the loop waits for
  a free channel it can always be interrupted.
* A handler is a sequence of steps with `isr # "none"`; nothing else runs
  meanwhile. `BlockIdle`, `BlockDone` + `BlockLaunch` are `block_handler`;
  `LoadDone`, `ResultLate` and `ResultNext` + `ScanVisit`* + `ScanEnd` + search
  are `dma_transfer_done_handler`. The linger loop is one step per visited
  node, with the node list as the traversal sees it (`rest`), because it may
  not end.
* `SearchNext`, `SearchTask`, `SearchPseudo` are the iterations of
  `ready_search`, which also runs once at start-up (`Init`).
* `alloc_result` returns the first `RATEMATCH_NUM` results of an actor;
  `scheduler_pass_result` fills up the rest with pseudo tokens.

Simplifications. Fifos are sequences: at most `NUM_PACKET <= MAX_BUFFER` tokens
ever enter one, so its ring does not come to the state in which `Fifo` shows
the size to be wrong. Lists are sequences too: the use of a node after `free`
in `traverse` reads an unchanged `next` pointer, and what a preemption in the
middle of `insert` or `delete_node` does is the subject of `LinkedList`. A
handler that would call `read_last` on an empty fire list stops in the model
(`fire[a] # <<>>`); the runs that check delivery never get there. All packets
are put in at the start, as `DAG_depict` does.

### Fifo

`put_token` and `get_token` on one ring. `puts` counts the calls of
`put_token` up to `MaxPuts`. `Spec` lets callers put whenever they like, wrapped
and full rings included; `CarefulSpec` is the callers that never put into a ring
that is full and has wrapped. The scheduler's are: a fifo gets at most
`NUM_PACKET <= MAX_BUFFER` tokens.

### Heap

`heap` holds the words, `free_list_head` and `free_list_counter`; headers,
footers and links are words with the code's encoding (size and bit 0). The
program's payload is written with one value that is no header and no link.
`live` is a ghost: the regions handed out. `malloc` is two steps: take a block
(search and split), then relink the free list and return. `release` is `free`
or `free_LLI`. With `Preemptive` a release may happen between the two steps of
a `malloc`; the run has it FALSE. Loads outside the heap give 0 and stores outside it are ignored;
this happens only with `Preemptive`, when the ring is broken already.

### LinkedList

`prev` and `next` of every node and of the sentinels of two lists. The loop's
`ready_select`, `add_firelist` and `ready_free` take one step for every load of
a shared pointer and every store (the build gives no `-O` flag, so each C
access is one); `ready_insert` and the destruction of the oldest entry of
`fire_list` are the handlers' and run undisturbed. One firing at a time is
added, and its entry is not destroyed before it has been launched. A
handler that is not in `Contended` does not run while it and the loop are about to
write the same end of a list. Nothing in the code keeps them apart: the passing run
and the theorems (`Contended = {}`) are about everything outside these two windows,
`lost_task` and the line about `Contended` in section 3 about what happens inside each.

### Dma

`lli` is the memory of descriptors, `used` those that `malloc_LLI` has handed
out. A descriptor keeps its link, the offsets of its source and destination
from those of the copy, its length in units of `Width`, and its mark as the
last; `req` and `pos` are ghosts. The loop makes a chain in several calls of
`dma_transfer_link`, which interrupts may separate, then searches a channel bit
by bit and stores the new status in two steps. A handler does the same at once.
`carry` is the ghost that says which transfer a channel carries.
`PreemptAt` is a set of pairs: which interrupt may come at which point.

### Dmac

One variable for each group of registers. Software steps are the driver's
functions; they happen only while no interrupt is raised, for the line is
level-triggered. `ResetDone`, `ChannelStops` and `CommonFault` are the
controller: it ends a reset, ends a transfer with any of a given set of causes,
and reports failing register accesses. The decode order (common causes before
channels, the highest channel first, the highest bit first) is that of the
`else if` chains, and only one cause is cleared in a pass. The shipped build defines
`SIMULATE_QEMU` and nothing calls `DMAC_interrupt_handler` yet: the module takes it
as the handler of the controller's line, and its causes as the controller's.

### Graph

An actor is the array of words it occupies, because the scheduler's loops end
at a NULL word and not at the end of an array: `in[]`, the rows of `out[][]`,
`task_addr`, `task_len`, `fire_list`. A plan is a function of `dag.c` as a
sequence of calls; `Free` builds a graph by any other calls, and may go on to
the packets if it `KeepsRules`, the rules `dag.c` keeps to. `edges` is a ghost:
the calls, that is the graph as declared.

## 3. What is checked

| Run | Instance | States | Shows |
|---|---|---|---|
| `fifo` | ring of 3, 9 puts, 2 tokens | 1 393 | every put and get is that of a bounded queue, on wrapped rings too, but for the put that meets a full wrapped ring: everything in it is gone |
| `demo2` | `basic_DAG_demo_2`, 2 blocks, 2 channels, 2 packets, preempted at poll, select, free; fair | 51 744 | flags, queue, channels and bindings agree; fire lists, tokens, transfers and reference counts are exact; inputs of different packets never meet, `Dataflow` is implemented although results arrive out of order, handlers return and all packets are processed |
| `skipped` | graph with a skipped actor, 3 blocks, 2 packets, 1 of 2 results | 11 368 | the search overlooks nothing when actors are created in graph order; skipped firings keep the order of packets |
| `idle_blocks` | two actors, 2 blocks, both waiting at once, repeated interrupts, 2 packets, preempted between all five steps of the loop (`actor_fire` being one) | 1 568 357 | a block is lost only when another one overwrites its address in the idle queue, and stays lost |
| `heap` | 104 usable bytes, tokens and one descriptor | 70 420 | boundary tags, coalescing, free ring, no lost block, payloads intact, justified refusals; `Allocator` is implemented |
| `lists` | 6 nodes, two lists, interrupted between all loads and stores except where both write one end | 654 (up to renaming of nodes) | both lists remain sequences in order of insertion, agree in both directions, and every node is accounted for; `ListOrder` is implemented |
| `dma` | 5 descriptors, 2 channels, firings of two copies, results of one, lengths below, at and above the maximum; releases everywhere, results between two transfers and while a chain is being linked; fair | 403 741 | chains are whole and disjoint, a channel with a transfer is busy with its own message, a release is lost only to the store of an older status, at most what lies behind the second descriptor leaks, and the search for a channel ends unless all channels have been lost in that one way |
| `dmac` | 8 channels, 2 chains, 2 transfers at a time, 5 ways for a transfer to end, 2 failing accesses; fair | 5 737 | a running channel stays configured and able to interrupt even if it is programmed again; all causes are served, errors before completion |
| `graph` | the three graphs of `dag.c`; all graphs of two actors and five fifos | 839 995 | the loops see the declared graph, and it is what `Scheduler` assumes |

### Where the code does not do what it says

Each of these runs checks one property and TLC finds the counterexample.
`PROJECT.json` quotes the comment that the code does not keep. The shipped
configuration (`NUM_PACKET` 1, keys pressed by hand) hardly meets them, but
nothing in the code excludes them.

| Run | Property | What happens |
|---|---|---|
| `two_idle` | `IdleBlockReachable` | two blocks become idle before the loop polls: the queue's one cell keeps the second, and `BLOCK_INFIFO` keeps the first from coming back |
| `linger_hang` | `HandlersReturn` | three firings of one actor: the newest two linger, the oldest is passed on, and a linger that is visited while it does not match makes the loop at `transfer_callback.c:110` endless |
| `lost_task` | `EntriesFound` | a task that a handler inserts while the loop unlinks the newest entry of `ready_l` is lost (`src/linked_list.c:57`) |

Some passing runs include what goes wrong and say that it goes wrong in one
way only:

* `OnlyOverrunLoses`: `fifo_size` (`src/fifo.c:15`) is a byte, so a full ring
  that has wrapped reports almost 256; the next put is written, the indices meet,
  and the ring reads as empty, against the "write failed" of `put_token`. A fifo
  of the scheduler never holds that many tokens while `NUM_PACKET <= MAX_BUFFER`.
* `LostByOverwriteOnly`: blocks are lost to the one-cell queue and to nothing else.
* `LostByStoreOnly`: a channel released between the load and the store of
  `channel_status` (`dma/phy_interface.c:8`) stays busy for ever, and no channel
  is lost in another way. `ChannelFound` excepts the state in which all are.
* `FirstTwoReturned`: the walk at `transfer_callback.c:161` takes every next link
  from the first descriptor and ends at the second, so the third one of a
  firing with one input is never freed.
* `RefusalJustified`: a free block as large as the request is refused when less than
  `MIN_BLOCKSIZE` would remain (`src/mem_alloc.c:116`).
* `RunningConfigured`: `DMAC_get_free_channel` reads `DMAC_CfgReg` and not
  `DMAC_ChEnReg` (`dma/phy_interface.c:52`), always finds channel 2 and programs it
  while it runs; what the property says holds nevertheless.

Two defects of `dma_transfer_link` do not depend on the order of events and no
property is about them; the model has them as the code does (`lli_setup`). After a
chunk the source advances by four times its length and the destination not at
all (`dma/dma.c:151`), so of a copy of several chunks only the first is in its place;
and a length is divided by the width without remainder (`dma/lli_create.c:29`), so
a scalar of 4 bytes at a width of 8 is a transfer of no units.

The other windows that the code leaves open and a run or a theorem leaves out.
Each line changes constants of a run and names what TLC then finds violated;
where the property is not among those of the run, it is one of its module.

| Change | Violated | What happens |
|---|---|---|
| `demo2`, `PreemptAt` with `"fire"` | `SelectedActorBound` | a DMA interrupt between the selection of a task and its binding runs `ready_search`, which overwrites the static `actor` (`src/fire_check.c:108`) |
| `demo2`, `PreemptAt` with `"link"` | `TransfersPure` | a block interrupt during `inform_dma` appends results to the inputs of another block's task (`dma/dma.c:117`) |
| `demo2`, `RepeatIdle = TRUE` | `Ownership`, `OneTransferPerBlock` | a second interrupt of a block that is still loading is taken for the end of its task (`src/task_callback.c:125`) |
| `linger_hang`, 2 blocks, 2 channels | `ImplementsDataflow` | a block whose result lingers is given another firing of the same actor: the linger is taken for the new firing (`dma/transfer_callback.c:72`) |
| `skipped` | `RefCountExact` | a skipped task drops real tokens but not their references (`src/fire_check.c:53`) |
| `skipped`, `SkipOrder` reversed | `NoReadyActorMissed` | a pseudo token reaches an actor that the pass has already visited (`src/fire_check.c:106`); the graphs of `dag.c` are created in order |
| `lists`, `Contended = {"destroy"}` | `EntriesFound` | a handler destroys the only entry of `fire_list` while the loop inserts before it, and the new firing cannot be found (`src/fire_check.c:201`) |
| `heap`, `Preemptive = TRUE` | `FreeListExact` | `free` in a handler between the split and the relinking of a `malloc` of the loop leaves a ring that is not the set of free blocks (`src/mem_alloc.c:147`) |
| `dma` with `<<"result", "find">>` | `ChainsSound`, `FirstTwoReturned` | results are appended to a complete chain that waits for a channel (`dma/dma.c:117`) |
| `dma` with `<<"result", "load">>` | `BusyWhileCarrying`, `ChainsSound` | results launched between the choice of a channel and its store use that channel, which is then used again (`dma/phy_interface.c:16`) |
| `dma` with `<<"early", "record">>` | `FirstTwoReturned`, later `ChainsSound` | a channel that is done before its message is recorded returns the chain of the transfer before it (`dma/dma.c:97`) |
| `dma` | `ChunksAddUp` | results linked between two calls of the loop become part of a firing's chain |
| `graph` with `MAXIN = 9`, `MAXRES = 9` or `MAXOUT = 3` | `LoopsSeeGraph` | a full array or row has no NULL at its end, and the loops run on into the next field (`src/fire_check.c:19`, `src/fire_check.c:31`) |

### Bounds

* Two blocks are the least with which firings of one actor overlap and the
  newer one finishes first; with three, firings of several actors and a waiting
  result do (`skipped`). Two packets are the least that can be confused; the
  runs on one actor use three because the hang needs three firings in flight.
* As many channels as blocks. (A block holds at most one channel, so no handler
  has to wait; with fewer the one in `BlockLaunch` polls for ever.)
* `MaxIdle` = 1 in the runs about tokens and ownership: at most one idle block waits
  in the queue. This is the condition under which the one-cell queue is right;
  nothing in the code enforces it. `RepeatIdle` = FALSE says that a block
  interrupts once per task. `idle_blocks` lifts both, with both blocks
  waiting; `two_idle` and the table above show what each costs.
* `PreemptAt` leaves out, in `demo2`, the points `fire` and `link`, which the first
  two lines of the table are about; `idle_blocks` and the theorems about blocks
  (`Ownership` among them) allow all five points.
* 104 bytes of heap hold six blocks, enough for all four cases of `free`, for a
  descriptor that has to be shifted and for one that does not.
* Lists: six nodes let each list hold three at a time, with one entry on either
  side of the one being inserted or unlinked.
* DMA: lengths 2, 3, 4 and 5 with a maximum of 4 and a width of 2 lie on both
  sides of the maximum and of a multiple of the width, and a firing of two
  copies makes chains of up to three descriptors, the least that leak. Five
  descriptors are one such chain and one of two for results; when they have run
  out, only releases go on. Two channels make the loop search. `PreemptAt` names the
  pairs that may coincide; each pair left out has a line in the table above.
* Controller: all eight channels and the real bit positions; two chains are
  the least that can be exchanged, and `MaxInFlight = 2` transfers the least of which
  one can be programmed over the other.
* Graph: `MAXIN`, `MAXRES` are 10 and `MAXOUT` 4 instead of 11, one more than
  the graphs of `dag.c` use, to keep an actor small. The free graphs have two
  actors, two results and two inputs each: a row and an array with none, one
  and several entries. `NUM_PACKET` exceeds `MAX_BUFFER` by one.
* Fifo: nine puts go round a ring of four slots twice and once more into a wrapped
  ring; the size of the ring (3 for 8) plays no part.

`CHECK_DEADLOCK FALSE` everywhere: once all packets are processed and the
idle block is queued, nothing has to happen any more; a heap is full at some
point; the fifo's puts are bounded.

### Fairness

`FairSpec` assumes that the processor executes the loop and the running
handler (weak fairness of `Main` and `Isr`) and that each interrupt that stays
raised is served (weak fairness for each block and channel): the interrupts are
level-triggered and enabled throughout `actor_check`. Nothing is assumed about
the order of interrupts.

`Dma` assumes the same of the loop and the handlers, and that a transfer on a
channel ends. `Dmac` assumes that the controller ends a reset and every transfer
it was given, with or without an error; it need not raise common causes.

## 4. What is proved

Each theorem holds for all values of the constants of its module that satisfy
the assumptions stated there (`DagAssumption` and `SizeAssumption`,
`DmaAssumption`, `ListAssumption`, ...), so for every graph, number of blocks,
channels, packets, nodes and descriptors, and for every `PreemptAt`, except for
what its `ASSUME` says. `DagAssumption` is what `Graph` shows of the graphs
that the interface builds (`LoopsSeeGraph`, `SchedulerAssumption`), and besides
that the edges are a finite set and no actor is the host or NULL.

`FifoProofs`
* `TypeCorrect`: `Spec => []TypeOK`.
* `LossOnlyByOverrun`: `Spec => OnlyOverrunLoses`, for any number of puts, if
  `2 * MAX_BUFFER < 256` (`SmallRing`; `src/include/task.h:8` has 8): on a longer ring
  the byte that `fifo_size` returns for a wrapped ring could be mistaken for a full
  one. The proof is about the byte (`SizeIsByte`) and about what the slots between
  the indices become when one of them moves past the end of the array.
* `Implements`: `CarefulSpec => ImplementsQueue`, under the same assumption: callers
  that avoid the one put get the bounded queue `BoundedQueue`, however often the
  indices wrap.

`SchedulerProofs`
* `TypeCorrect`: `Spec => []TypeOK`. `TypeOK` alone is not inductive: taking the
  head of `fire[a]` or reading `bactor[block]` is in type only because of where
  the loop and the handler stand. `TypeInv` adds `LoopState` (what the loop
  relies on between its steps, e.g. `sel \in DOMAIN ready`) and `HandlerState`
  (a block with results is bound to an actor, the entries left to visit are no
  more than the lingers). One lemma per action shows that it is preserved.
* `OwnershipHolds`, `OneTransfer`, `BindingFixed`: with
  `OneIdleBlock` (`MaxIdle = 1` and no repeated interrupt), for every preemption,
  `Ownership` and what follows from it. The inductive invariant `OwnInv` is
  `TypeInv`, `Ownership` and the exclusion of two channels for one block; the
  point is that a block is bound only when it is held by the loop, and is held
  only while it is neither queued, loading, computing nor returning. `two_idle`
  shows that the first assumption is needed, and `demo2` with `RepeatIdle =
  TRUE` that the second is. `IdleBlockReachable` is part of `Ownership`, and TLC
  checks these at three points of the loop, the theorems at all five.
* `LossOnlyByOverwrite`: `Spec => LostByOverwriteOnly`, with no assumption on the
  constants: any number of idle blocks, repeated interrupts, every preemption. Since
  a block may then be handed out twice, `Ownership` is of no use; the invariant
  `StrandInv` says only that the block a handler attends to is in flight or returning
  (`Attending`), so that no step but a put strands one.

`DmacProofs`
* `TypeCorrect`: `Spec => []TypeOK`, for every number of channels and every set
  of causes. `SoftState` adds where `index` and `head_lli` are set; that the
  address written to `CHx_LLP` is the descriptor's needs its alignment
  (`LocExact`).
* `ChannelConfigured`: `Spec => []RunningConfigured`, for any number of transfers in
  flight. The invariant `RunInv` adds that the configuration made by `dma_init` stays
  (`Configured`: no reset comes after it) and what has been written of the channel being
  programmed (`Prepared`). A running channel may be programmed again (section 3);
  the theorem says that it is never left without its chain, configuration or signals.
* `ErrorsReadFirst`: `Spec => ErrorsBeforeDone`, if the controller raises only
  causes for which `DMAC_CHx_interrupt_handler` has a case (`KnownCauses`). The
  handler clears one cause at each interrupt, the highest (`HighestIs`); that a
  channel is not taken for finished before its errors have been read is then a
  matter of where the bits lie.

`GraphProofs` assumes `ProperCalls`: the host is no actor, and a function of
`dag.c` is a sequence of calls of the interface with indices that are numbers.
* `LoopsAlwaysSee`: `[](KeepsRules /\ Fits => LoopsSeeGraph)`, for every sequence of
  calls, any sizes and any number of actors. `Fits` says that an actor has fewer
  than `MAXIN` inputs, fewer than `MAXRES` results and fewer than `MAXOUT` consumers
  of each; the changes with one place less (section 3) show that each is needed. The
  graphs of `dag.c` keep both (with `MAXIN` and `MAXRES` at 10, TLC finds
  `KeepsRules /\ Fits` whenever they are launched). The invariant `Built` follows the
  words: an input that was declared is at its index (`InPlace`), and the
  consumers of a result fill its row from the left until it is full (`InRow`). It
  holds whether or not the calls keep to the rules, with two exceptions that
  the rules exclude: an index beyond `in[]` (`Small`), and `assign_sink`, which
  writes over a consumer (`Plain`). A loop that meets words until the first
  NULL then meets what was declared (`RowSeenIs`, `InsSeen`, `OutsSeen`).
* `GraphAlwaysFits`: `[](KeepsRules /\ Fits => SchedulerAssumption)`. Every fifo is
  made by one call (`EdgesAre`), so the loops meet it once at each end, and
  `packet_input` fills the one that the root's first word names (`RootWord`).

`SchedulerProofs`, on tokens
* `TokensConserved`: `[]TokenConservation`, if the loop is not preempted before
  `actor_fire`. The property counts what is given against what is in a fifo, a
  task, a firing or done. It cannot be carried through a step by itself: that
  `ready_search` finds the tokens it takes, and that `put_token` finds room,
  depend on how far actors are ahead of each other. `TokenInv` adds that no
  actor takes more than `NUM_PACKET` packets (`NeverAhead`) and that a fifo
  holds no more than its source has passed on (`OutputsFit`). The tasks that
  are taken but not fired are a set of positions in `ready`, and each action
  says what it does to the number of them.
* `SearchIsComplete`: `[]NoReadyActorMissed`, if `ActorOrder` follows the edges
  (`InGraphOrder`). The invariant says that the actors already visited may not
  fire, which a pseudo token to a visited actor would break, as it does in
  `skipped` with the order reversed. `dag.c` creates its actors in that order.

`SchedulerOrderProofs` assumes `UndisturbedFiring`: `OneIdleBlock`, no
preemption at `fire` or `link`, and as many channels as blocks; and
`FewPackets`: `NUM_PACKET <= 2` (`src/include/task.h:5` has 1). Each is needed: for
the first three see `two_idle` and the table of section 3; with three packets two results can linger
in an order in which the traversal misses the older one, and `linger_hang`
shows where that ends.
* `InputsAlwaysMatch`, `FireListsAccount`, `TransfersStayPure`:
  `[]InputsMatch`, `[]FireListAccounts`, `[]TransfersPure`.
* `SchedulerImplementsDataflow`: `Spec => ImplementsDataflow`. A result that is
  passed on and a skipped task are steps of `Dataflow` (a handler's step can be one
  for one actor only), everything else is a stutter.

The inductive invariant `OrderInv` is a conjunction of parts that lean on each
other: `BaseInv` (ownership and tokens); `ChainInv` (an open transfer holds what
was begun, and is empty when nothing is); `LabelInv` (a token's `res` is that of
the edge it lies on, so `alloc_result` and `scheduler_pass_result` meet every
edge once); `PacketInv` (the i-th token of a fifo is of the i-th packet its sink
has not taken, and the tasks of an actor are of consecutive packets in order of
position); `OldestSelected` (the loop fires the oldest of them); and `FiringInv`
(the k-th entry of `fire[a]` works on the k-th open packet, or, if it is the
last, its result may linger, and a traversal looks for the oldest). `FiringInv` is where two packets are used:
of at most two firings, one that lingers is the newer one, and there is one
result to visit.

The last section, on reference counts, assumes besides that one input comes from the host
(`OneRoot`, as in `dag.c`) and that every input of a skipped actor is a pseudo
token (`PureSkips`): `ready_search` drops a skipped task's real tokens without
counting them (`src/fire_check.c:53`).
* `ReferencesExact`: `[]RefCountExact`. What the property sums over places (fifos,
  tasks, transfers, `linger_list`) cannot be followed step by step: between two
  handlers a datum's tokens move without a count, and within a handler they
  are in no place at all. The invariant `CountsExact` says instead that `cnt[d]`
  is the number of fifos of the result whose sinks have not loaded that packet,
  from the moment it has been made. That only `BlockDone` and `LoadDone` change this, and by what
  they write to `cnt`, needs a transfer of inputs to hold a copy for each input
  that carries a datum (`LoadsComplete`, and before it `DepsComplete` and
  `LinkComplete`). Between two handlers (`ReferencesAre`) each of these edges has
  its token in exactly one place: in the fifo if the sink has not taken the packet
  (`FifoCount`), in a task if it has not begun it (`TaskCount`), in a transfer
  otherwise (`LoadCount`); and a result that has not been passed on is in one
  channel or lingers (`ReturnCount`). Each is a bijection between edges and
  places. `Attended` (a block in flight that does not compute has a transfer or
  a handler) is what makes the places exist.

`LinkedListProofs` assumes `Contended = {}`: a handler does not run while it and the
loop are about to write the same end. `lost_task`, and the same with `"destroy"`, show
that the theorems do not hold inside either window.
* `DirectionsAlwaysAgree`, `NodesAlwaysAccounted`, `ListsImplementOrder`:
  `[]DirectionsAgree`, `[]NodesAccounted`, `Spec => ImplementsOrder`, for any
  number of nodes. The inductive invariant `ListInv` says that there are two
  sequences of nodes to which the pointers correspond, link by link, except for
  the links that the running `insert` or `delete_node` has yet to store; it
  names these for every program counter (`Addition`, `Removal`). What the
  properties define by following pointers is then the sequence itself, which
  is an induction over its length (`WalkIs`).

`DmaProofs` assumes that some interrupts do not come at some points. The pair
that an assumption adds is there because TLC finds the property violated with it.
* `LossOnlyByStore`: `Spec => LostByStoreOnly`, for every `PreemptAt`. The invariant
  `StuckInv` says that a channel the loop has found is not lost, and that what is lost
  was busy in the status loaded.
* `CarryingIsBusy`: `[]BusyWhileCarrying`, under `NoLateResult` (no result from the
  moment a channel has been found until the message is recorded).
  Releases may come at every point. `ChannelInv` says that the status loaded is out of
  date only by releases, and that the channel found stays free, which no test after
  `get_free_channel` makes sure of.
* `ChainsAlwaysSound`, `TwoAlwaysReturned`: `[]ChainsSound` and
  `[]FirstTwoReturned`, for any number of descriptors and any lengths, under
  `NoLateChain`, which besides excludes results while a complete chain waits for a
  channel and a channel that is done before its message is recorded.
  Results may come between two calls of `dma_transfer_link` and become part of
  the chain, which is still whole (only what it copies is wrong). The invariant `ChainsAre` gives every channel,
  and whoever is building, a sequence of descriptors: linked in this order,
  disjoint, marked at the end and nowhere before; what is used and in none of
  them lies behind a second descriptor. That one call of `dma_transfer_link` makes
  such a sequence longer (`LinkAppends`, `GrownChain`) rests on what `malloc_LLI`
  returns, and that following the links meets exactly the sequence
  (`ChainIs`) is an induction.
* `ChunksAlwaysAddUp`: `[]ChunksAddUp`, for any lengths, under `NoLateCopy`:
  `NoLateChain`, and no results while the loop links its chain. It is about the
  number and order of units, not about the addresses of several chunks. The invariant
  `CopyInv` says that the chain of a channel, or of whoever is building, is the
  concatenation of what each copy was linked as (`Copied`, with the place where
  each copy ends). The property looks at the chain by its links and adds up
  the block sizes from one copy's source to the next. The chain is the only
  one with these links (`LinkedUnique`); the sum over a copy's descriptors
  (`SumOfPieces`) is an induction; and that whole units of the width come to
  what was asked is arithmetic with division (`WholeUnits`).

`HeapProofs` assumes `Preemptive = FALSE`: no handler frees during a `malloc` of
the loop; with `Preemptive = TRUE` TLC finds `FreeListExact` violated. `RequestsFit`, an assumption
of `Heap` that its run evaluates, says that the program writes no more than
`malloc` reserves: the code asks for `sizeof(data)`, a pointer, and fills a
`data_t` of 8 bytes, which the rounding of the size makes up for.
* `BoundaryTagsAlwaysAgree`, `AlwaysCoalesced`, `FreeListAlwaysExact`,
  `NeverBlockLost`, `PayloadAlwaysIntact`, `RefusalAlwaysJustified`: the six
  invariants of the `heap` run, for every size of the heap, every set of
  requests and every sequence of calls.
* `HeapImplementsAllocator`: `Spec => ImplementsAllocator`. `malloc_return`
  allocates, `release` frees, `malloc_take` is a stutter.

The properties walk the heap and the ring by what the words hold, so none of
them can be carried through a step. The inductive invariant `HeapInv` says that
there are a function `s` from headers to sizes that tiles the heap (`Tiles`), a set
`F` of free blocks of which no two are adjacent (`Separate`), and a map `own` from
regions to blocks, such that the words are what these three make them: the tags
(`Tagged`), the links of a ring with the members of `F` (`List`), and the regions
with the hidden word of `malloc_LLI` (`InBlock`). Between the two steps of `malloc`
the ring holds the block that was split where it should hold the rest
(`Underway`, `Listed`). The proof is in layers: what one store does to a tag; what
`free_list_insert` and `free_list_delete` do to a ring of any length, the cases in
which the neighbours coincide included; how cutting and joining change a tiling;
that links, payloads and tags are different words, so that each operation
leaves the others' words alone; and then the actions. `free` is one lemma for
its four cases (`FreeHalf`, `FreeKeeps`). What the properties define by walking is
`s`, `F` and the ring again (`WalkIs`, `VisitedIs`), by induction.

`LinkedListProofs`, `DmaProofs` and `HeapProofs` use `SetInduction`: a fact
about all numbers is stated as a set that is shown to be `Nat`, for the library's
own theorem takes a predicate as a parameter, which the provers cannot
instantiate.

`OneTransfer`, `Implements` and `ChunksAlwaysAddUp` state properties that no run
checks: the first follows from `Ownership` and the second from `OnlyOverrunLoses`, which
runs do check; the third needs results kept apart from linking, which `dma` does not do. `TokenInvariant`, `OrderInvariant`, `ListInvariant`,
`ChainInvariant`, `CopyInvariant`, `HeapInvariant` and `GraphInvariant` say that the
inductive invariants are invariants; the theorems follow from them.

### Only model-checked

The theorems state every invariant, action property and refinement of the runs that
pass, under the assumptions named above. Where an assumption removes a window that
the code leaves open, a violation run or a line of the table in section 3 shows what
happens in it; the theorems are no statement that the code closes it. Left to TLC are
* that `dag.c` builds its graphs as they are declared, which the `graph` run does by
  making the calls; the theorem takes from it that they keep to the rules;
* liveness (`HandlersReturn`, `AllPacketsProcessed`, `ChannelFound`,
  `EveryCauseServed`), which rests on fairness and ENABLED, and these the prover
  does not treat.

## 5. What is not modelled

* `destroy_list` on lists that have one owner (`dep_list`, `token_list`). It frees
  neither sentinel, and the token list of a result transfer is not destroyed
  at all, so the heap shrinks with every firing; the heap and the scheduler are
  not composed, so no run counts this.
* `malloc` returning NULL to the scheduler, which no caller checks.
* The fields of `CHx_CTL` and `CHx_CFG` (`dma/chx_ctl.c`, `include/dma/*.h`): constants
  without behaviour of their own.
* Packets that arrive while the graph runs: nothing in `src/` puts one in then.
* Decoding of keys (`src/external_irq.c`) beyond which handler runs; exceptions
  (`src/trap.c`), which print and stop.
* The page allocator `src/falloc.c` (not built), boot code, console, and the
  Python tools in `task/`.

## 6. Plan

1. Done: `Fifo`, `Scheduler` and `Heap`; `LinkedList`, `Dma`, `Dmac` and `Graph`;
   their runs; the theorems of section 4.
2. Done: tokens, order, reference counts and the refinement of `Dataflow`; lists
   and the refinement of `ListOrder`; channels, chains and what they copy; the heap
   and the refinement of `Allocator`; errors of the controller; the graph
   (section 4).
3. Left: the heap and the scheduler composed, to count what the firings leak.
