------------------------ MODULE SchedulerProperties ------------------------
(* What the dataflow of Scheduler has to satisfy. *)
EXTENDS Scheduler

(* Between two handlers and two rounds of the loop. *)
AtRest == isr = "none" /\ pc = "poll"

Interior == {e \in Edges : e.src # Host /\ e.snk # Host}

Number(s, P(_)) == Cardinality({i \in DOMAIN s : P(s[i])})

(* The fire list of an actor holds exactly the blocks that work for it and *)
(* those whose results linger: scheduler_pass_result removes the entry of  *)
(* the results it passes on, and no other.                                 *)
FireListAccounts ==
  AtRest => \A a \in Actors, b \in Blocks :
    LET IsB(x)    == x = b
        FromB(p)  == p.blk = b
        InFlight  == IF "INFLIGHT" \in flags[b] /\ bactor[b] = a THEN 1 ELSE 0
    IN Number(fire[a], IsB) = Number(linger[a], FromB) + InFlight

(* No token is lost or duplicated on an edge between two actors: whatever  *)
(* the source passed on waits in the fifo, or belongs to a firing of the   *)
(* sink that is ready, in flight or done (ready_search, put_token).        *)
TokenConservation ==
  AtRest => \A e \in Interior :
    LET OfSink(t) == t.actor = e.snk IN
    Len(done[e.src]) = Len(fifo[e]) + Number(ready, OfSink)
                         + Len(fire[e.snk]) + Len(done[e.snk])

(* All inputs of a ready task derive from the same packet: the i-th tokens *)
(* of the fifos belong together (ready_create).                            *)
InputsMatch == \A i \in DOMAIN ready : \A d, f \in ready[i].deps : d.tok.rnd = f.tok.rnd

(* data->cnt counts the consumers a datum still has: tokens in fifos, in   *)
(* ready tasks and in input transfers, and all the fifos its token will be *)
(* put into once its transfer has been delivered.  So recycle_garbage      *)
(* frees a datum with its last token, never before, and leaks none.        *)
At(s, d)  == {i \in DOMAIN s : s[i] = d}
Busy      == {c \in Channels : chan[c].blk # NULL}
Returning == {c \in Busy : "RESULT" \in flags[chan[c].blk]}
Loading   == Busy \ Returning

InFifos(d)     == UNION {{e} \X At(fifo[e], d) : e \in Edges}
InTasks(d)     == UNION {{i} \X {f \in ready[i].deps : f.tok = d} : i \in DOMAIN ready}
InLoads(d)     == UNION {{c} \X At(chan[c].toks, d) : c \in Loading}
InResults(d)   == UNION {{c} \X At(chan[c].toks, d) : c \in Returning}
LateOf(a, d)   == UNION {{i} \X At(linger[a][i].toks, d) : i \in DOMAIN linger[a]}
InLingers(d)   == UNION {{a} \X LateOf(a, d) : a \in Actors}

References(d) ==
  Cardinality(InFifos(d)) + Cardinality(InTasks(d)) + Cardinality(InLoads(d))
    + Cardinality(Fanout(d.src, d.res))
        * (Cardinality(InResults(d)) + Cardinality(InLingers(d)))

RefCountExact == AtRest => \A d \in Data : cnt[d] = References(d)

(* A transfer holds either inputs of the block's task or its results, all  *)
(* of the packet the block works on (dma_transfer_link, head_lli).         *)
TransfersPure ==
  \A c \in Channels :
    LET b == chan[c].blk IN
    b # NULL =>
      \A i \in DOMAIN chan[c].toks :
        LET t == chan[c].toks[i] IN
        /\ t.rnd = rnd[b]
        /\ IF "RESULT" \in flags[b]
           THEN t.src = bactor[b]
           ELSE \E e \in In(bactor[b]) : e.src = t.src /\ e.res = t.res

(* When ready_search has returned, no actor is left that may fire: nothing *)
(* would look at it again before some other result arrives.                *)
NoReadyActorMissed == AtRest => \A a \in Actors : ~fire_check(a)

(* The scheduler implements the dataflow machine of module Dataflow.       *)
Flow == INSTANCE Dataflow WITH
          Precedes <- {<<e.src, e.snk>> : e \in Interior},
          Packets  <- NUM_PACKET
ImplementsDataflow == Flow!Spec

(* Every handler returns (result_deliver, dma_transfer_channel).           *)
HandlersReturn == (isr # "none") ~> (isr = "none")

(* Every actor eventually processes every packet.                          *)
AllPacketsProcessed == <>(\A a \in Actors : Len(done[a]) = NUM_PACKET)
=============================================================================
