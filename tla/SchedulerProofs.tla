--------------------------- MODULE SchedulerProofs ---------------------------
(***************************************************************************)
(* Theorems about Scheduler, for every graph, every number of packets,     *)
(* blocks and channels: types, the ownership of blocks, and the tokens,    *)
(* none of which is lost or duplicated; and the lemmas on what the tokens  *)
(* and their transfers carry, from which SchedulerOrderProofs goes on.     *)
(***************************************************************************)
EXTENDS SchedulerProperties, FiniteSetTheorems, SequenceTheorems, TLAPS

(* What a step relies on besides the types. *)
TypeInv == TypeOK /\ LoopState /\ HandlerState

-----------------------------------------------------------------------------
(* The operators of the model. *)

LEMMA TokenTypes ==
  ASSUME NEW a \in Actors \cup {Host}, NEW r \in ResultIds, NEW n \in Rounds
  PROVE  Real(a, r, n) \in Token /\ Pseudo(a, r, n) \in Token
  BY DEF Real, Pseudo, Token

LEMMA EdgeTypes ==
  ASSUME NEW e \in Edges
  PROVE  /\ e.src \in Actors \cup {Host} /\ e.snk \in Actors \cup {Host}
         /\ e.res \in Nat /\ e.inp \in Nat
         /\ e.res \in ResultIds
  BY DagAssumption DEF Edge, ResultIds

LEMMA FanoutIsCount ==
  ASSUME NEW a, NEW r
  PROVE  Cardinality(Fanout(a, r)) \in Nat
<1>1. Fanout(a, r) \subseteq Edges
  BY DEF Fanout, Out
<1>2. IsFiniteSet(Edges)
  BY DagAssumption
<1> QED
  BY <1>1, <1>2, FS_Subset, FS_CardinalityType

(* The results of an actor are numbered from 0, so those below             *)
(* RATEMATCH_NUM are too, and there is at least one.                       *)
ReturnedOf(a) == {r \in Results(a) : r < RATEMATCH_NUM}

LEMMA ReturnedOfActor ==
  ASSUME NEW a \in Actors
  PROVE  LET m == Cardinality(ReturnedOf(a))
         IN  /\ m \in Nat \ {0} /\ ReturnedOf(a) = 0..(m - 1)
             /\ m <= RATEMATCH_NUM
             /\ \A i \in 1..m : i - 1 \in ResultIds
<1> DEFINE n == Cardinality(Results(a))
           m == IF n < RATEMATCH_NUM THEN n ELSE RATEMATCH_NUM
<1>1. Results(a) = 0..(n - 1) /\ Out(a) # {} /\ RATEMATCH_NUM \in Nat \ {0}
  BY DagAssumption, SizeAssumption
<1>2. IsFiniteSet(Results(a))
  <2>1. IsFiniteSet(Out(a))
    BY DagAssumption, FS_Subset DEF Out
  <2> DEFINE f == [e \in Out(a) |-> e.res]
  <2>2. f \in Surjection(Out(a), Results(a))
    BY DEF Surjection, Results
  <2> QED
    BY <2>1, <2>2, FS_Surjection
<1>3. n \in Nat
  BY <1>2, FS_CardinalityType
<1>4. n # 0
  <2>1. Results(a) # {}
    BY <1>1 DEF Results
  <2> QED
    BY <1>2, <2>1, FS_EmptySet
<1>5. m \in Nat \ {0} /\ m <= n /\ m <= RATEMATCH_NUM
  BY <1>1, <1>3, <1>4
<1>6. ReturnedOf(a) = 0..(m - 1)
  BY <1>1, <1>3, <1>5 DEF ReturnedOf
<1>7. Cardinality(ReturnedOf(a)) = m
  BY <1>5, <1>6, FS_Interval
<1>8. \A i \in 1..m : i - 1 \in Results(a)
  BY <1>1, <1>3, <1>5
<1>9. Results(a) \subseteq ResultIds
  BY DEF Results, ResultIds, Out
<1> QED
  BY <1>5, <1>6, <1>7, <1>8, <1>9

LEMMA ReturnedIsInterval ==
  ASSUME NEW b, bactor[b] \in Actors
  PROVE  /\ Cardinality(Returned(b)) \in Nat \ {0}
         /\ \A i \in 1..Cardinality(Returned(b)) : i - 1 \in ResultIds
<1>1. Returned(b) = ReturnedOf(bactor[b])
  BY DEF Returned, ReturnedOf
<1> QED
  BY <1>1, ReturnedOfActor

LEMMA AllocResultType ==
  ASSUME NEW b, bactor[b] \in Actors, rnd[b] \in Rounds
  PROVE  alloc_result(b) \in Tokens
<1> DEFINE k == Cardinality(Returned(b))
<1>1. k \in Nat \ {0} /\ \A i \in 1..k : i - 1 \in ResultIds
  BY ReturnedIsInterval
<1> HIDE DEF k
<1>2. \A i \in 1..k : Real(bactor[b], i - 1, rnd[b]) \in Token
  BY <1>1, TokenTypes
<1>3. alloc_result(b) = [i \in 1..k |-> Real(bactor[b], i - 1, rnd[b])]
  BY DEF alloc_result, k
<1>4. alloc_result(b) \in Seq(Token) /\ Len(alloc_result(b)) = k
  BY <1>1, <1>2, <1>3
<1> QED
  BY <1>1, <1>4, EmptySeq DEF Tokens

LEMMA ChainedType ==
  ASSUME link.toks \in Seq(Token), NEW toks \in Seq(Token)
  PROVE  /\ Chained(toks) \in Seq(Token)
         /\ toks # <<>> => Chained(toks) # <<>>
<1>1. Chained(toks) \in Seq(Token) /\ Len(Chained(toks)) >= Len(toks)
  BY DEF Chained
<1> QED
  BY <1>1

LEMMA ResultTokenType ==
  ASSUME NEW a \in Actors, NEW toks \in Tokens, NEW r \in ResultIds
  PROVE  ResultToken(a, toks, r) \in Token
<1>1. Head(toks) \in Token
  BY DEF Tokens
<1>2. Head(toks).rnd \in Rounds
  BY <1>1 DEF Token
<1>3. Pseudo(a, r, Head(toks).rnd) \in Token
  BY <1>2, TokenTypes
<1>4. r \in Nat
  BY EdgeTypes DEF ResultIds
<1>5. r < Len(toks) => toks[r + 1] \in Token
  BY <1>4 DEF Tokens
<1> QED
  BY <1>3, <1>5 DEF ResultToken

LEMMA PutTokenType ==
  ASSUME NEW q \in Seq(Token), NEW t \in Token
  PROVE  put_token(q, t) \in Seq(Token)
  BY DEF put_token

LEMMA PassResultType ==
  ASSUME TypeOK, NEW a \in Actors, NEW toks \in Tokens, fire[a] # <<>>,
         scheduler_pass_result(a, toks)
  PROVE  /\ fifo' \in [Edges -> Seq(Token)]
         /\ fire' \in [Actors -> Seq(Blocks)]
         /\ done' \in [Actors -> Seq(Rounds)]
         /\ ideal' \in Blocks
<1>1. fifo' \in [Edges -> Seq(Token)]
  <2>1. \A e \in Edges : ResultToken(a, toks, e.res) \in Token
    BY EdgeTypes, ResultTokenType
  <2>2. \A e \in Edges : put_token(fifo[e], ResultToken(a, toks, e.res)) \in Seq(Token)
    BY <2>1, PutTokenType DEF TypeOK
  <2> QED
    BY <2>2 DEF scheduler_pass_result, TypeOK
<1>2. fire[a] \in Seq(Blocks) /\ Tail(fire[a]) \in Seq(Blocks) /\ Head(fire[a]) \in Blocks
  BY DEF TypeOK
<1>3. fire' \in [Actors -> Seq(Blocks)]
  BY <1>2 DEF scheduler_pass_result, TypeOK
<1>4. Head(toks).rnd \in Rounds
  <2>1. Head(toks) \in Token
    BY DEF Tokens
  <2> QED
    BY <2>1 DEF Token
<1>5. done' \in [Actors -> Seq(Rounds)]
  BY <1>4 DEF scheduler_pass_result, TypeOK
<1>6. Tail(fire[a]) # <<>> => Head(Tail(fire[a])) \in Blocks
  BY <1>2
<1>7. ideal' \in Blocks
  BY <1>2, <1>6 DEF scheduler_pass_result
<1> QED
  BY <1>1, <1>3, <1>5, <1>7

-----------------------------------------------------------------------------
(* Initially. *)
LEMMA InitTypeInv == Init => TypeInv
<1> SUFFICES ASSUME Init PROVE TypeInv
  OBVIOUS
<1>1. 1 \in 1..Len(ActorOrder)
  BY DagAssumption
<1>2. TypeOK
  <2>1. 0 \in ResultIds
    BY DEF ResultIds
  <2>2. \A n \in Rounds : Packet(n) \in Token
    BY <2>1, TokenTypes DEF Packet
  <2>3. [n \in Rounds |-> Packet(n)] \in Seq(Token)
    BY <2>2, SizeAssumption DEF Rounds
  <2>4. fifo \in [Edges -> Seq(Token)]
    BY <2>3 DEF Init
  <2>5. 1 \in Rounds
    BY SizeAssumption DEF Rounds
  <2>6. NoLink \in [open : BOOLEAN, toks : Seq(Token)]
    BY DEF NoLink
  <2>7. cnt \in [Data -> Nat] /\ flags \in [Blocks -> SUBSET Flag]
    BY DEF Init
  <2>8. /\ fire \in [Actors -> Seq(Blocks)]
        /\ linger \in [Actors -> Seq(Parcel)]
        /\ done \in [Actors -> Seq(Rounds)]
        /\ ready \in Seq(ReadyTask)
        /\ rest \in Seq(Parcel)
    BY DEF Init
  <2> QED
    BY <1>1, <2>4, <2>5, <2>6, <2>7, <2>8 DEF Init, TypeOK
<1>3. LoopState
  BY DEF Init, LoopState
<1>4. HandlerState
  BY DEF Init, HandlerState
<1> QED
  BY <1>2, <1>3, <1>4 DEF TypeInv

-----------------------------------------------------------------------------
(* The steps of the loop. *)
LEMMA PollTypeInv == TypeInv /\ Poll => TypeInv'
<1> SUFFICES ASSUME TypeInv, Poll PROVE TypeInv'
  OBVIOUS
<1> USE DEF TypeInv, Poll, dagVars, blkVars, dmaVars, isrVars
<1>1. TypeOK'
  BY DEF TypeOK, HandlerState
<1>2. LoopState'
  BY DEF TypeOK, LoopState, HandlerState
<1>3. HandlerState'
  BY DEF TypeOK, HandlerState
<1> QED
  BY <1>1, <1>2, <1>3

LEMMA SelectTypeInv == TypeInv /\ Select => TypeInv'
<1> SUFFICES ASSUME TypeInv, Select PROVE TypeInv'
  OBVIOUS
<1> USE DEF TypeInv, Select, Loop, dagVars, blkVars, qVars, dmaVars, isrVars
<1>1. sel' \in DOMAIN ready /\ actor' \in Actors /\ sel' \in Nat
  <2>1. ready \in Seq(ReadyTask)
    BY DEF TypeOK
  <2>2. PICK i \in DOMAIN ready : sel' = i /\ actor' = ready[i].actor
    OBVIOUS
  <2> QED
    BY <2>1, <2>2 DEF ReadyTask
<1>2. TypeOK'
  BY <1>1 DEF TypeOK
<1>3. LoopState'
  BY <1>1 DEF LoopState
<1>4. HandlerState'
  BY DEF HandlerState
<1> QED
  BY <1>2, <1>3, <1>4

LEMMA FireTypeInv == TypeInv /\ actor_fire => TypeInv'
<1> SUFFICES ASSUME TypeInv, actor_fire PROVE TypeInv'
  OBVIOUS
<1> USE DEF TypeInv, actor_fire, Loop, qVars, isrVars
<1>1. block \in Blocks /\ actor \in Actors /\ sel \in DOMAIN ready
  BY DEF LoopState
<1>2. Task \in ReadyTask
  BY <1>1 DEF TypeOK, Task
<1>3. Task.deps \in SUBSET Dependency /\ \E d \in Task.deps : d.inp = 0
  BY <1>2 DEF ReadyTask
<1>4. (CHOOSE d \in Task.deps : d.inp = 0).tok.rnd \in Rounds
  BY <1>3 DEF Dependency, Token
<1>5. link' \in [open : BOOLEAN, toks : Seq(Token)]
  <2>1. link.toks \in Seq(Token) /\ <<>> \in Seq(Token)
    BY DEF TypeOK
  <2>2. Chained(<<>>) \in Seq(Token)
    BY <2>1, ChainedType
  <2> QED
    BY <2>2
<1>6. /\ flags' \in [Blocks -> SUBSET Flag]
      /\ fire' \in [Actors -> Seq(Blocks)]
      /\ bactor' \in [Blocks -> Actors \cup {NULL}]
      /\ rnd' \in [Blocks -> Rounds]
      /\ todo' \in SUBSET Dependency
  BY <1>1, <1>3, <1>4 DEF TypeOK, Flag
<1>7. TypeOK'
  BY <1>5, <1>6 DEF TypeOK
<1>8. LoopState'
  BY <1>1 DEF LoopState
<1>9. HandlerState'
  BY <1>1 DEF TypeOK, HandlerState
<1> QED
  BY <1>7, <1>8, <1>9

LEMMA InformTypeInv == TypeInv /\ inform_dma => TypeInv'
<1> SUFFICES ASSUME TypeInv, inform_dma PROVE TypeInv'
  OBVIOUS
<1> USE DEF TypeInv, inform_dma, Loop, dagVars, blkVars, qVars, isrVars
<1>1. \A d \in todo : <<d.tok>> \in Seq(Token)
  BY DEF TypeOK, Dependency
<1>2. link' \in [open : BOOLEAN, toks : Seq(Token)] /\ todo' \in SUBSET Dependency
  <2>1. link.toks \in Seq(Token) /\ todo \subseteq Dependency
    BY DEF TypeOK
  <2>2. \A d \in todo : Chained(<<d.tok>>) \in Seq(Token)
    BY <1>1, <2>1, ChainedType
  <2> QED
    BY <2>1, <2>2
<1>3. TypeOK'
  BY <1>2 DEF TypeOK
<1>4. LoopState'
  BY DEF LoopState
<1>5. HandlerState'
  BY DEF HandlerState
<1> QED
  BY <1>3, <1>4, <1>5

LEMMA LaunchType ==
  ASSUME TypeOK, NEW b \in Blocks, NEW toks \in Tokens, dma_transfer_channel(b, toks)
  PROVE  /\ chan' \in [Channels -> Parcel \cup {FreeChan}]
         /\ link' = NoLink
<1>1. PICK c \in FreeChannels : chan' = [chan EXCEPT ![c] = [blk |-> b, toks |-> toks]]
  BY DEF dma_transfer_channel
<1>2. [blk |-> b, toks |-> toks] \in Parcel
  BY DEF Parcel
<1>3. chan' \in [Channels -> Parcel \cup {FreeChan}]
  BY <1>1, <1>2 DEF TypeOK
<1> QED
  BY <1>3 DEF dma_transfer_channel

LEMMA InformLastTypeInv == TypeInv /\ inform_dma_last => TypeInv'
<1> SUFFICES ASSUME TypeInv, inform_dma_last PROVE TypeInv'
  OBVIOUS
<1> USE DEF TypeInv, inform_dma_last, Loop, dagVars, blkVars, qVars, isrVars
<1>1. \A d \in todo : <<d.tok>> \in Seq(Token) /\ <<d.tok>> # <<>>
  BY DEF TypeOK, Dependency
<1>2. \A d \in todo : Chained(<<d.tok>>) \in Tokens
  BY <1>1, ChainedType DEF TypeOK, Tokens
<1>3. block \in Blocks
  BY DEF LoopState
<1>4. chan' \in [Channels -> Parcel \cup {FreeChan}] /\ link' = NoLink
  <2>1. PICK d \in todo : dma_transfer_channel(block, Chained(<<d.tok>>))
    OBVIOUS
  <2>2. Chained(<<d.tok>>) \in Tokens
    BY <1>2
  <2> QED
    BY <1>3, <2>1, <2>2, LaunchType
<1>5. TypeOK'
  BY <1>4 DEF TypeOK, NoLink
<1>6. LoopState'
  BY DEF LoopState
<1>7. HandlerState'
  BY DEF HandlerState
<1> QED
  BY <1>5, <1>6, <1>7

LEMMA FreeTypeInv == TypeInv /\ ready_free => TypeInv'
<1> SUFFICES ASSUME TypeInv, ready_free PROVE TypeInv'
  OBVIOUS
<1> USE DEF TypeInv, ready_free, Loop, blkVars, qVars, dmaVars, isrVars
<1>1. sel \in 1..Len(ready) /\ ready \in Seq(ReadyTask)
  BY DEF TypeOK, LoopState
<1>2. RemoveEntry(ready, sel) \in Seq(ReadyTask)
  BY <1>1 DEF RemoveEntry
<1>3. TypeOK'
  BY <1>2 DEF TypeOK
<1>4. LoopState'
  BY DEF LoopState
<1>5. HandlerState'
  BY DEF HandlerState
<1> QED
  BY <1>3, <1>4, <1>5
-----------------------------------------------------------------------------
(* The interrupts. *)
LEMMA IdleTypeInv == ASSUME NEW b \in Blocks PROVE TypeInv /\ BlockIdle(b) => TypeInv'
<1> SUFFICES ASSUME TypeInv, BlockIdle(b) PROVE TypeInv'
  OBVIOUS
<1> USE DEF TypeInv, BlockIdle, Interruptible, dagVars, dmaVars, mainVars, isrVars
<1>1. /\ qaddr' = b
      /\ qn' = qn + 1
      /\ flags' \in [Blocks -> SUBSET Flag]
  BY DEF TypeOK, Announce, Flag
<1>2. TypeOK'
  BY <1>1 DEF TypeOK
<1>3. LoopState'
  BY DEF LoopState
<1>4. HandlerState'
  BY <1>1 DEF TypeOK, HandlerState
<1> QED
  BY <1>2, <1>3, <1>4

LEMMA DoneTypeInv == ASSUME NEW b \in Blocks PROVE TypeInv /\ BlockDone(b) => TypeInv'
<1> SUFFICES ASSUME TypeInv, BlockDone(b) PROVE TypeInv'
  OBVIOUS
<1> USE DEF TypeInv, BlockDone, qVars, mainVars
<1>1. bactor[b] \in Actors /\ rnd[b] \in Rounds
  BY DEF TypeOK, HandlerState
<1>2. alloc_result(b) \in Seq(Token) /\ alloc_result(b) # <<>>
  BY <1>1, AllocResultType DEF Tokens
<1>3. link' \in [open : BOOLEAN, toks : Seq(Token)] /\ link'.toks # <<>>
  <2>1. link.toks \in Seq(Token)
    BY DEF TypeOK
  <2>2. Chained(alloc_result(b)) \in Seq(Token) /\ Chained(alloc_result(b)) # <<>>
    BY <1>2, <2>1, ChainedType
  <2> QED
    BY <2>2
<1>4. cnt' \in [Data -> Nat]
  BY FanoutIsCount DEF TypeOK
<1>5. flags' \in [Blocks -> SUBSET Flag] /\ hw' \in [Blocks -> {"idle", "computing", "finished"}]
  BY DEF TypeOK, Flag
<1>6. TypeOK'
  BY <1>3, <1>4, <1>5 DEF TypeOK
<1>7. LoopState'
  BY DEF LoopState
<1>8. HandlerState'
  BY <1>1, <1>3 DEF TypeOK, HandlerState
<1> QED
  BY <1>6, <1>7, <1>8

LEMMA LaunchTypeInv == TypeInv /\ BlockLaunch => TypeInv'
<1> SUFFICES ASSUME TypeInv, BlockLaunch PROVE TypeInv'
  OBVIOUS
<1> USE DEF TypeInv, BlockLaunch, dagVars, mainVars
<1>1. iblk \in Blocks /\ link.toks \in Tokens
  BY DEF TypeOK, HandlerState, Tokens
<1>2. chan' \in [Channels -> Parcel \cup {FreeChan}] /\ link' = NoLink
  BY <1>1, LaunchType
<1>3. /\ qaddr' \in Blocks \cup {NULL} /\ qn' \in Nat
      /\ qn' > 0 => qaddr' \in Blocks
  BY <1>1 DEF Announce, qVars, TypeOK, HandlerState
<1>4. flags' \in [Blocks -> SUBSET Flag]
  BY DEF TypeOK, Flag
<1>5. TypeOK'
  BY <1>2, <1>3, <1>4 DEF TypeOK, NoLink
<1>6. LoopState'
  BY DEF LoopState
<1>7. HandlerState'
  BY <1>1, <1>3 DEF TypeOK, HandlerState
<1> QED
  BY <1>5, <1>6, <1>7

LEMMA LoadTypeInv == ASSUME NEW c \in Channels PROVE TypeInv /\ LoadDone(c) => TypeInv'
<1> SUFFICES ASSUME TypeInv, LoadDone(c) PROVE TypeInv'
  OBVIOUS
<1> USE DEF TypeInv, LoadDone, qVars, mainVars, isrVars
<1>1. \A m \in Nat : \A d : Monus(m, Copies(chan[c].toks, d)) \in Nat
  <2>1. chan[c].toks \in Seq(Token)
    BY DEF TypeOK, Parcel, FreeChan, Tokens
  <2>2. \A d : Copies(chan[c].toks, d) \in Nat
    <3> TAKE d
    <3>1. {i \in DOMAIN chan[c].toks : chan[c].toks[i] = d} \subseteq 1..Len(chan[c].toks)
      BY <2>1
    <3>2. IsFiniteSet(1..Len(chan[c].toks))
      BY <2>1, FS_Interval
    <3> QED
      BY <3>1, <3>2, FS_Subset, FS_CardinalityType DEF Copies
  <2> QED
    BY <2>2 DEF Monus
<1>2. cnt' \in [Data -> Nat]
  BY <1>1 DEF TypeOK
<1>3. chan' \in [Channels -> Parcel \cup {FreeChan}]
  BY DEF TypeOK
<1>4. hw' \in [Blocks -> {"idle", "computing", "finished"}]
  BY DEF TypeOK
<1>5. TypeOK'
  BY <1>2, <1>3, <1>4 DEF TypeOK
<1>6. LoopState'
  BY DEF LoopState
<1>7. HandlerState'
  BY DEF HandlerState
<1> QED
  BY <1>5, <1>6, <1>7

(* A transfer of results comes from a block that is bound to an actor. *)
LEMMA ResultsOfActor ==
  ASSUME TypeInv, NEW c \in Channels, NEW b, Arrives(c, b)
  PROVE  /\ b \in Blocks /\ bactor[b] \in Actors
         /\ chan[c].toks \in Tokens
         /\ chan[c] \in Parcel
<1>1. chan[c].blk = b /\ b # NULL
  BY DEF Arrives, Carries
<1>2. chan[c] \in Parcel
  BY <1>1 DEF TypeInv, TypeOK, FreeChan
<1> QED
  BY <1>1, <1>2 DEF TypeInv, HandlerState, Arrives, Parcel

LEMMA LateTypeInv == ASSUME NEW c \in Channels PROVE TypeInv /\ ResultLate(c) => TypeInv'
<1> SUFFICES ASSUME TypeInv, ResultLate(c) PROVE TypeInv'
  OBVIOUS
<1> DEFINE b == chan[c].blk
           a == bactor[b]
<1> USE DEF TypeInv, ResultLate, Arrives, Interruptible, qVars, mainVars, isrVars
<1>1. /\ b \in Blocks /\ a \in Actors
      /\ chan[c].toks \in Tokens
  BY ResultsOfActor
<1>2. [blk |-> b, toks |-> chan[c].toks] \in Parcel
  BY <1>1 DEF Parcel
<1>3. linger' \in [Actors -> Seq(Parcel)]
  BY <1>1, <1>2 DEF TypeOK
<1>4. chan' \in [Channels -> Parcel \cup {FreeChan}]
  BY DEF TypeOK
<1>5. /\ flags' \in [Blocks -> SUBSET Flag]
      /\ hw' \in [Blocks -> {"idle", "computing", "finished"}]
      /\ flags'[b] = {} /\ \A x \in Blocks \ {b} : flags'[x] = flags[x]
  BY <1>1 DEF TypeOK, Release
<1>6. TypeOK'
  BY <1>3, <1>4, <1>5 DEF TypeOK
<1>7. LoopState'
  BY DEF LoopState
<1>8. HandlerState'
  BY <1>5 DEF TypeOK, HandlerState
<1> QED
  BY <1>6, <1>7, <1>8

LEMMA NextResultTypeInv == ASSUME NEW c \in Channels PROVE TypeInv /\ ResultNext(c) => TypeInv'
<1> SUFFICES ASSUME TypeInv, ResultNext(c) PROVE TypeInv'
  OBVIOUS
<1> DEFINE b == chan[c].blk
           a == bactor[b]
<1> USE DEF TypeInv, ResultNext, Arrives, blkVars, qVars, mainVars
<1>1. /\ b \in Blocks /\ a \in Actors
      /\ chan[c].toks \in Tokens
  BY ResultsOfActor
<1>2. /\ fifo' \in [Edges -> Seq(Token)]
      /\ fire' \in [Actors -> Seq(Blocks)]
      /\ done' \in [Actors -> Seq(Rounds)]
      /\ ideal' \in Blocks
  BY <1>1, PassResultType
<1>3. chan' \in [Channels -> Parcel \cup {FreeChan}]
  BY DEF TypeOK
<1>4. rest' \in Seq(Parcel) /\ Len(rest') <= Len(linger'[bactor'[iblk']])
  BY <1>1 DEF TypeOK
<1>5. TypeOK'
  BY <1>1, <1>2, <1>3, <1>4 DEF TypeOK
<1>6. LoopState'
  BY DEF LoopState
<1>7. HandlerState'
  BY <1>1, <1>4 DEF HandlerState
<1> QED
  BY <1>5, <1>6, <1>7

-----------------------------------------------------------------------------
(* The rest of dma_transfer_done_handler. *)
LEMMA VisitTypeInv == TypeInv /\ ScanVisit => TypeInv'
<1> SUFFICES ASSUME TypeInv, ScanVisit PROVE TypeInv'
  OBVIOUS
<1> DEFINE a == bactor[iblk]
           p == Head(rest)
<1> USE DEF TypeInv, ScanVisit, blkVars, qVars, dmaVars, mainVars
<1>1. /\ a \in Actors
      /\ rest \in Seq(Parcel) /\ linger[a] \in Seq(Parcel)
      /\ 0 < Len(rest) /\ Len(rest) <= Len(linger[a])
  BY DEF TypeOK, HandlerState
<1>2. p \in Parcel /\ Tail(rest) \in Seq(Parcel) /\ Len(Tail(rest)) = Len(rest) - 1
  BY <1>1
<1>3. /\ fifo' \in [Edges -> Seq(Token)]
      /\ fire' \in [Actors -> Seq(Blocks)]
      /\ done' \in [Actors -> Seq(Rounds)]
      /\ ideal' \in Blocks \cup {NULL}
  <2>1. CASE p.blk = ideal
    BY <1>1, <1>2, <2>1, PassResultType DEF Parcel
  <2>2. CASE p.blk # ideal
    BY <2>2 DEF TypeOK
  <2> QED
    BY <2>1, <2>2
<1>4. /\ linger' \in [Actors -> Seq(Parcel)]
      /\ Len(linger'[a]) >= Len(linger[a]) - 1
  <2>1. CASE p.blk = ideal
    <3>1. linger' = [linger EXCEPT ![a] = Tail(@)]
      BY <2>1
    <3>2. Tail(linger[a]) \in Seq(Parcel) /\ Len(Tail(linger[a])) = Len(linger[a]) - 1
      BY <1>1
    <3> QED
      BY <1>1, <3>1, <3>2 DEF TypeOK
  <2>2. CASE p.blk # ideal
    BY <1>1, <2>2 DEF TypeOK
  <2> QED
    BY <2>1, <2>2
<1>5. rest' \in Seq(Parcel) /\ Len(rest') <= Len(linger'[a])
  BY <1>1, <1>2, <1>4
<1>6. TypeOK'
  BY <1>3, <1>4, <1>5 DEF TypeOK
<1>7. LoopState'
  BY DEF LoopState
<1>8. HandlerState'
  BY <1>5 DEF HandlerState
<1> QED
  BY <1>6, <1>7, <1>8

LEMMA EndTypeInv == TypeInv /\ ScanEnd => TypeInv'
<1> SUFFICES ASSUME TypeInv, ScanEnd PROVE TypeInv'
  OBVIOUS
<1> USE DEF TypeInv, ScanEnd, dagVars, qVars, dmaVars, mainVars
<1>1. /\ flags' \in [Blocks -> SUBSET Flag]
      /\ hw' \in [Blocks -> {"idle", "computing", "finished"}]
      /\ flags'[iblk] = {} /\ \A x \in Blocks \ {iblk} : flags'[x] = flags[x]
  BY DEF TypeOK, HandlerState, Release
<1>2. 1 \in 1..Len(ActorOrder)
  BY DagAssumption
<1>3. TypeOK'
  BY <1>1, <1>2 DEF TypeOK
<1>4. LoopState'
  BY DEF LoopState
<1>5. HandlerState'
  BY <1>1 DEF TypeOK, HandlerState
<1> QED
  BY <1>3, <1>4, <1>5

-----------------------------------------------------------------------------
(* ready_search. *)
LEMMA FoundIsActor ==
  ASSUME TypeOK
  PROVE  /\ Found \in Actors
         /\ In0(Found) \in In(Found) /\ In0(Found).inp = 0
         /\ In(Found) \subseteq Edges
<1>1. Found \in Actors
  BY DagAssumption DEF TypeOK, Found
<1>2. \E e \in In(Found) : e.inp = 0
  BY <1>1, DagAssumption
<1> QED
  BY <1>1, <1>2 DEF In0, In

LEMMA PopType ==
  ASSUME TypeOK, NEW a, actor_ready(a)
  PROVE  /\ Pop(a, fifo) \in [Edges -> Seq(Token)]
         /\ \A e \in In(a) : Head(fifo[e]) \in Token
<1>1. \A e \in In(a) : e \in Edges /\ e.snk = a /\ fifo[e] \in Seq(Token) /\ fifo[e] # <<>>
  BY DEF TypeOK, In, actor_ready, fifo_empty
<1>2. \A e \in Edges : e.snk = a => e \in In(a)
  BY DEF In
<1>3. \A e \in In(a) : Tail(fifo[e]) \in Seq(Token) /\ Head(fifo[e]) \in Token
  BY <1>1
<1> QED
  BY <1>2, <1>3 DEF Pop, TypeOK

LEMMA SearchNextTypeInv == TypeInv /\ SearchNext => TypeInv'
<1> SUFFICES ASSUME TypeInv, SearchNext PROVE TypeInv'
  OBVIOUS
<1> USE DEF TypeInv, SearchNext, Searching, dagVars, blkVars, qVars, dmaVars, mainVars
<1>1. actor' \in Actors
  BY FoundIsActor
<1>2. idx' \in 1..Len(ActorOrder) /\ isr' \in {"none", "search"}
  <2>1. idx \in 1..Len(ActorOrder) /\ Len(ActorOrder) \in Nat \ {0} /\ isr = "search"
    BY DagAssumption DEF TypeOK
  <2>2. CASE idx < Len(ActorOrder)
    BY <2>1, <2>2
  <2>3. CASE ~(idx < Len(ActorOrder))
    BY <2>1, <2>3
  <2> QED
    BY <2>2, <2>3
<1>3. TypeOK'
  BY <1>1, <1>2 DEF TypeOK
<1>4. LoopState'
  BY <1>1 DEF LoopState
<1>5. HandlerState'
  BY <1>2 DEF HandlerState
<1> QED
  BY <1>3, <1>4, <1>5

LEMMA SearchTaskTypeInv == TypeInv /\ SearchTask => TypeInv'
<1> SUFFICES ASSUME TypeInv, SearchTask PROVE TypeInv'
  OBVIOUS
<1> DEFINE deps == {d \in Inputs(Found) : d.tok.real}
           task == [actor |-> Found, deps |-> deps]
<1> USE DEF TypeInv, SearchTask, Searching, blkVars, qVars, dmaVars, mainVars
<1>1. actor_ready(Found) /\ Found \in Actors
  BY FoundIsActor DEF fire_check
<1>2. fifo' \in [Edges -> Seq(Token)]
  BY <1>1, PopType
<1>3. Inputs(Found) \subseteq Dependency
  <2>1. \A e \in In(Found) : e.inp \in Nat /\ Head(fifo[e]) \in Token
    BY <1>1, PopType, EdgeTypes, FoundIsActor
  <2> QED
    BY <2>1 DEF Inputs, Dependency
<1>4. \E d \in deps : d.inp = 0
  <2>1. [inp |-> In0(Found).inp, tok |-> Head(fifo[In0(Found)])] \in Inputs(Found)
    BY FoundIsActor DEF Inputs
  <2> QED
    BY <2>1, FoundIsActor
<1>5. task \in ReadyTask
  BY <1>1, <1>3, <1>4 DEF ReadyTask
<1>6. ready \in Seq(ReadyTask) /\ ready' = Append(ready, task)
  BY DEF TypeOK
<1>7. ready' \in Seq(ReadyTask) /\ Len(ready') = Len(ready) + 1
  BY <1>5, <1>6
<1>8. TypeOK'
  BY <1>1, <1>2, <1>7 DEF TypeOK
<1>9. LoopState'
  BY <1>1, <1>6, <1>7 DEF LoopState
<1>10. HandlerState'
  BY DEF HandlerState
<1> QED
  BY <1>8, <1>9, <1>10

LEMMA SearchPseudoTypeInv == TypeInv /\ SearchPseudo => TypeInv'
<1> SUFFICES ASSUME TypeInv, SearchPseudo PROVE TypeInv'
  OBVIOUS
<1> DEFINE n == Head(fifo[In0(Found)]).rnd
<1> USE DEF TypeInv, SearchPseudo, Searching, blkVars, qVars, dmaVars, mainVars
<1>1. actor_ready(Found) /\ Found \in Actors
  BY FoundIsActor DEF fire_check
<1>2. Pop(Found, fifo) \in [Edges -> Seq(Token)]
  BY <1>1, PopType
<1>3. n \in Rounds
  <2>1. Head(fifo[In0(Found)]) \in Token
    BY <1>1, PopType, FoundIsActor
  <2> QED
    BY <2>1 DEF Token
<1>4. \A e \in Edges : Pseudo(Found, e.res, n) \in Token
  BY <1>1, <1>3, EdgeTypes, TokenTypes
<1>5. \A e \in Edges : put_token(Pop(Found, fifo)[e], Pseudo(Found, e.res, n)) \in Seq(Token)
  BY <1>2, <1>4, PutTokenType
<1>6. fifo' \in [Edges -> Seq(Token)]
  BY <1>2, <1>5
<1>7. done' \in [Actors -> Seq(Rounds)]
  BY <1>1, <1>3 DEF TypeOK
<1>8. TypeOK'
  BY <1>1, <1>6, <1>7 DEF TypeOK
<1>9. LoopState'
  BY <1>1 DEF LoopState
<1>10. HandlerState'
  BY DEF HandlerState
<1> QED
  BY <1>8, <1>9, <1>10

-----------------------------------------------------------------------------
LEMMA StepTypeInv == TypeInv /\ [Next]_vars => TypeInv'
<1> SUFFICES ASSUME TypeInv, [Next]_vars PROVE TypeInv'
  OBVIOUS
<1>1. CASE Main
  BY <1>1, PollTypeInv, SelectTypeInv, FireTypeInv, InformTypeInv, InformLastTypeInv,
     FreeTypeInv DEF Main
<1>2. CASE Isr
  BY <1>2, LaunchTypeInv, VisitTypeInv, EndTypeInv, SearchNextTypeInv, SearchTaskTypeInv,
     SearchPseudoTypeInv DEF Isr
<1>3. ASSUME NEW b \in Blocks, BlockIdle(b) \/ BlockDone(b) PROVE TypeInv'
  BY <1>3, IdleTypeInv, DoneTypeInv
<1>4. ASSUME NEW c \in Channels, DmaDone(c) PROVE TypeInv'
  BY <1>4, LoadTypeInv, LateTypeInv, NextResultTypeInv DEF DmaDone
<1>5. CASE UNCHANGED vars
  BY <1>5 DEF vars, dagVars, blkVars, qVars, dmaVars, mainVars, isrVars, TypeInv, TypeOK,
              LoopState, HandlerState
<1> QED
  BY <1>1, <1>2, <1>3, <1>4, <1>5 DEF Next

THEOREM TypeInvariant == Spec => []TypeInv
<1> QED
  BY InitTypeInv, StepTypeInv, PTL DEF Spec

(* Type correctness, for every graph, every number of blocks and channels, *)
(* and every choice of preemption points and interrupt behaviour.          *)
THEOREM TypeCorrect == Spec => []TypeOK
<1>1. TypeInv => TypeOK
  BY DEF TypeInv
<1> QED
  BY <1>1, TypeInvariant, PTL
-----------------------------------------------------------------------------
(* The idle queue has one cell.  It is enough if at most one idle block is *)
(* announced at a time and no block reports twice.                         *)
OneIdleBlock == MaxIdle = 1 /\ RepeatIdle = FALSE

OwnInv == TypeInv /\ qn <= 1 /\ Ownership /\ OneTransferPerBlock

LEMMA OwnInvInit == Init => OwnInv
<1> SUFFICES ASSUME Init PROVE OwnInv
  OBVIOUS
<1>1. Ownership
  <2>1. \A b \in Blocks : ~Queued(b) /\ ~Held(b) /\ ~Serving(b)
    BY SizeAssumption DEF Init, Queued, Held, Serving, FreeChan
  <2>2. \A b \in Blocks : flags[b] = {} /\ hw[b] = "idle"
    BY DEF Init
  <2> QED
    BY <2>1, <2>2 DEF Init, Ownership
<1>2. OneTransferPerBlock
  BY DEF Init, OneTransferPerBlock, FreeChan
<1>3. qn <= 1
  BY DEF Init
<1> QED
  BY <1>1, <1>2, <1>3, InitTypeInv DEF OwnInv

LEMMA LaunchOwns ==
  ASSUME TypeOK, OneTransferPerBlock, NEW b \in Blocks, ~Serving(b), NEW toks \in Tokens,
         dma_transfer_channel(b, toks)
  PROVE  /\ OneTransferPerBlock'
         /\ \A x \in Blocks : Serving(x)' <=> Serving(x) \/ x = b
<1>1. PICK c \in FreeChannels : chan' = [chan EXCEPT ![c] = [blk |-> b, toks |-> toks]]
  BY DEF dma_transfer_channel
<1>2. c \in Channels /\ chan[c].blk = NULL
  BY <1>1 DEF FreeChannels
<1>3. chan'[c].blk = b /\ \A d \in Channels \ {c} : chan'[d] = chan[d]
  BY <1>1, <1>2 DEF TypeOK
<1>4. b # NULL
  BY SizeAssumption
<1>5. OneTransferPerBlock'
  BY <1>2, <1>3, <1>4 DEF OneTransferPerBlock, Serving
<1>6. \A x \in Blocks : Serving(x)' <=> Serving(x) \/ x = b
  BY <1>2, <1>3, SizeAssumption DEF Serving
<1> QED
  BY <1>5, <1>6

LEMMA ReturnOwns ==
  ASSUME TypeOK, OneTransferPerBlock, NEW c \in Channels, chan[c].blk # NULL,
         chan' = [chan EXCEPT ![c] = FreeChan]
  PROVE  /\ OneTransferPerBlock'
         /\ \A x \in Blocks : Serving(x)' <=> Serving(x) /\ x # chan[c].blk
<1>1. chan'[c].blk = NULL /\ \A d \in Channels \ {c} : chan'[d] = chan[d]
  BY DEF TypeOK, FreeChan
<1>2. OneTransferPerBlock'
  BY <1>1 DEF OneTransferPerBlock
<1>3. \A x \in Blocks : Serving(x)' <=> Serving(x) /\ x # chan[c].blk
  BY <1>1, SizeAssumption DEF OneTransferPerBlock, Serving
<1> QED
  BY <1>2, <1>3

LEMMA MainOwnInv == OwnInv /\ Main => OwnInv'
<1> SUFFICES ASSUME OwnInv, Main PROVE OwnInv'
  OBVIOUS
<1> USE DEF OwnInv
<1>0. TypeInv'
  BY StepTypeInv DEF Next
<1>1. TypeOK /\ LoopState /\ HandlerState
  BY DEF TypeInv
<1>2. CASE Poll
  <2>1. qn = 1 /\ qn' = 0 /\ block' = qaddr /\ pc = "poll" /\ pc' = "select"
    BY <1>1, <1>2 DEF Poll, Loop, TypeOK
  <2>2. UNCHANGED <<flags, hw, chan, isr, iblk>>
    BY <1>2 DEF Poll, blkVars, dmaVars, isrVars
  <2>3. Ownership'
    BY <2>1, <2>2 DEF Ownership, Queued, Held, Serving
  <2> QED
    BY <1>0, <2>1, <2>2, <2>3 DEF OneTransferPerBlock
<1>3. CASE Select
  <2>1. UNCHANGED <<flags, hw, chan, isr, iblk, qn, qaddr, block>>
    BY <1>3 DEF Select, blkVars, qVars, dmaVars, isrVars
  <2>2. Ownership'
    BY <1>3, <2>1 DEF Select, Loop, Ownership, Queued, Held, Serving
  <2> QED
    BY <1>0, <2>1, <2>2 DEF OneTransferPerBlock
<1>4. CASE actor_fire
  <2>1. /\ UNCHANGED <<hw, chan, isr, iblk, qn, qaddr, block>>
        /\ pc = "fire" /\ pc' = "link" /\ isr = "none"
        /\ block \in Blocks
        /\ flags' = [flags EXCEPT ![block] = @ \cup {"INFLIGHT"}]
    BY <1>1, <1>4 DEF actor_fire, Loop, qVars, isrVars, LoopState
  <2>2. Held(block) /\ ~Queued(block) /\ flags[block] = {"INFIFO"}
    BY <2>1 DEF Ownership, Held
  <2>3. /\ flags'[block] = {"INFIFO", "INFLIGHT"}
        /\ \A x \in Blocks \ {block} : flags'[x] = flags[x]
    BY <1>1, <2>1, <2>2 DEF TypeOK
  <2>4. hw[block] = "idle" /\ ~Serving(block)
    BY <1>1, <2>1, <2>2 DEF TypeOK, Ownership
  <2>5. Ownership'
    BY <2>1, <2>2, <2>3, <2>4 DEF Ownership, Queued, Held, Serving
  <2> QED
    BY <1>0, <2>1, <2>5 DEF OneTransferPerBlock
<1>5. CASE inform_dma
  <2>1. UNCHANGED <<flags, hw, chan, isr, iblk, qn, qaddr, block, pc>>
    BY <1>5 DEF inform_dma, blkVars, qVars, isrVars
  <2>2. Ownership'
    BY <2>1 DEF Ownership, Queued, Held, Serving
  <2> QED
    BY <1>0, <2>1, <2>2 DEF OneTransferPerBlock
<1>6. CASE inform_dma_last
  <2>1. /\ UNCHANGED <<flags, hw, isr, iblk, qn, qaddr, block>>
        /\ pc = "link" /\ pc' = "free" /\ isr = "none"
        /\ block \in Blocks
    BY <1>1, <1>6 DEF inform_dma_last, Loop, blkVars, qVars, isrVars, LoopState
  <2>2. /\ flags[block] = {"INFIFO", "INFLIGHT"} /\ hw[block] = "idle"
        /\ ~Serving(block)
    BY <2>1 DEF Ownership
  <2>3. PICK d \in todo : dma_transfer_channel(block, Chained(<<d.tok>>))
    BY <1>6 DEF inform_dma_last
  <2>4. Chained(<<d.tok>>) \in Tokens
    <3>1. <<d.tok>> \in Seq(Token) /\ <<d.tok>> # <<>> /\ link.toks \in Seq(Token)
      BY <1>1 DEF TypeOK, Dependency
    <3> QED
      BY <3>1, ChainedType DEF Tokens
  <2>5. /\ OneTransferPerBlock'
        /\ \A x \in Blocks : Serving(x)' <=> Serving(x) \/ x = block
    BY <1>1, <2>1, <2>2, <2>3, <2>4, LaunchOwns
  <2>6. Ownership'
    BY <2>1, <2>2, <2>5 DEF Ownership, Queued, Held
  <2> QED
    BY <1>0, <2>1, <2>5, <2>6
<1>7. CASE ready_free
  <2>1. /\ UNCHANGED <<flags, hw, chan, isr, iblk, qn, qaddr>>
        /\ pc = "free" /\ pc' = "poll"
    BY <1>7 DEF ready_free, Loop, blkVars, qVars, dmaVars, isrVars
  <2>2. Ownership'
    BY <2>1 DEF Ownership, Queued, Held, Serving
  <2> QED
    BY <1>0, <2>1, <2>2 DEF OneTransferPerBlock
<1> QED
  BY <1>2, <1>3, <1>4, <1>5, <1>6, <1>7 DEF Main

LEMMA IsrOwnInv == OwnInv /\ Isr => OwnInv'
<1> SUFFICES ASSUME OwnInv, Isr PROVE OwnInv'
  OBVIOUS
<1> USE DEF OwnInv
<1>0. TypeInv'
  BY StepTypeInv DEF Next
<1>1. TypeOK /\ HandlerState
  BY DEF TypeInv
<1>2. CASE BlockLaunch
  <2>1. /\ UNCHANGED <<hw, pc, block>>
        /\ isr = "launch" /\ isr' = "none"
        /\ iblk \in Blocks /\ link.toks \in Tokens
    BY <1>1, <1>2 DEF BlockLaunch, mainVars, TypeOK, HandlerState, Tokens
  <2>2. flags[iblk] = Flag /\ ~Serving(iblk) /\ hw[iblk] = "finished"
    BY <2>1 DEF Ownership
  <2>3. UNCHANGED <<flags, qn, qaddr>>
    BY <1>1, <1>2, <2>2 DEF BlockLaunch, Announce, qVars, Flag, TypeOK
  <2>4. /\ OneTransferPerBlock'
        /\ \A x \in Blocks : Serving(x)' <=> Serving(x) \/ x = iblk
    BY <1>1, <1>2, <2>1, <2>2, LaunchOwns DEF BlockLaunch
  <2>5. Ownership'
    BY <2>1, <2>2, <2>3, <2>4 DEF Ownership, Queued, Held, Flag
  <2> QED
    BY <1>0, <2>3, <2>4, <2>5
<1>3. CASE ScanVisit
  <2>1. UNCHANGED <<flags, hw, chan, isr, iblk, qn, qaddr, block, pc>>
    BY <1>3 DEF ScanVisit, blkVars, qVars, dmaVars, mainVars
  <2>2. Ownership'
    BY <2>1 DEF Ownership, Queued, Held, Serving
  <2> QED
    BY <1>0, <2>1, <2>2 DEF OneTransferPerBlock
<1>4. CASE ScanEnd
  <2>1. /\ UNCHANGED <<chan, qn, qaddr, block, pc>>
        /\ isr = "scan" /\ isr' = "search"
        /\ iblk \in Blocks
    BY <1>1, <1>4 DEF ScanEnd, qVars, dmaVars, mainVars, HandlerState
  <2>2. flags[iblk] = Flag /\ ~Serving(iblk)
    BY <2>1 DEF Ownership
  <2>3. /\ flags'[iblk] = {} /\ hw'[iblk] = "idle"
        /\ \A x \in Blocks \ {iblk} : flags'[x] = flags[x] /\ hw'[x] = hw[x]
    BY <1>1, <1>4, <2>1 DEF ScanEnd, Release, TypeOK
  <2>4. Ownership'
    BY <2>1, <2>2, <2>3 DEF Ownership, Queued, Held, Serving, Flag
  <2> QED
    BY <1>0, <2>1, <2>4 DEF OneTransferPerBlock
<1>5. CASE SearchNext \/ SearchTask \/ SearchPseudo
  <2>1. /\ UNCHANGED <<flags, hw, chan, iblk, qn, qaddr, block, pc>>
        /\ isr = "search" /\ isr' \in {"search", "none"}
    BY <1>5 DEF SearchNext, SearchTask, SearchPseudo, Searching, blkVars, qVars, dmaVars,
                mainVars
  <2>2. Ownership'
    BY <2>1 DEF Ownership, Queued, Held, Serving
  <2> QED
    BY <1>0, <2>1, <2>2 DEF OneTransferPerBlock
<1> QED
  BY <1>2, <1>3, <1>4, <1>5 DEF Isr
LEMMA InterruptOwnInv ==
  ASSUME OneIdleBlock
  PROVE  OwnInv /\ (\E b \in Blocks : BlockIdle(b) \/ BlockDone(b)) => OwnInv'
<1> SUFFICES ASSUME OwnInv, NEW b \in Blocks, BlockIdle(b) \/ BlockDone(b) PROVE OwnInv'
  OBVIOUS
<1> USE DEF OwnInv
<1>0. TypeInv'
  BY StepTypeInv DEF Next
<1>1. TypeOK /\ HandlerState
  BY DEF TypeInv
<1>2. CASE BlockIdle(b)
  <2>1. /\ UNCHANGED <<hw, chan, isr, iblk, pc, block>>
        /\ qn = 0 /\ qn' = 1 /\ qaddr' = b
        /\ hw[b] = "idle" /\ flags[b] \cap {"INFLIGHT", "INFIFO"} = {}
    BY <1>1, <1>2 DEF BlockIdle, OneIdleBlock, Announce, dmaVars, mainVars, isrVars, TypeOK
  <2>2. flags[b] = {} /\ ~Held(b)
    BY <2>1 DEF Ownership, Flag
  <2>3. flags'[b] = {"INFIFO"} /\ \A x \in Blocks \ {b} : flags'[x] = flags[x]
    BY <1>1, <1>2, <2>2 DEF BlockIdle, TypeOK
  <2>4. Ownership'
    BY <2>1, <2>2, <2>3 DEF Ownership, Queued, Held, Serving
  <2> QED
    BY <1>0, <2>1, <2>4 DEF OneTransferPerBlock
<1>3. CASE BlockDone(b)
  <2>1. /\ UNCHANGED <<chan, qn, qaddr, pc, block>>
        /\ isr' = "launch" /\ iblk' = b
        /\ hw[b] = "computing"
    BY <1>3 DEF BlockDone, Reporting, OneIdleBlock, qVars, mainVars
  <2>2. flags[b] = {"INFIFO", "INFLIGHT"} /\ ~Serving(b)
    BY <2>1 DEF Ownership, Flag
  <2>3. /\ flags'[b] = Flag /\ hw'[b] = "finished"
        /\ \A x \in Blocks \ {b} : flags'[x] = flags[x] /\ hw'[x] = hw[x]
    BY <1>1, <1>3, <2>2 DEF BlockDone, Flag, TypeOK
  <2>4. Ownership'
    BY <2>1, <2>2, <2>3 DEF Ownership, Queued, Held, Serving, Flag
  <2> QED
    BY <1>0, <2>1, <2>4 DEF OneTransferPerBlock
<1> QED
  BY <1>2, <1>3

LEMMA DmaOwnInv == OwnInv /\ (\E c \in Channels : DmaDone(c)) => OwnInv'
<1> SUFFICES ASSUME OwnInv, NEW c \in Channels, DmaDone(c) PROVE OwnInv'
  OBVIOUS
<1> DEFINE b == chan[c].blk
<1> USE DEF OwnInv
<1>0. TypeInv'
  BY StepTypeInv DEF Next
<1>1. TypeOK /\ HandlerState
  BY DEF TypeInv
<1>2. /\ UNCHANGED <<qn, qaddr, pc, block>>
      /\ b # NULL
      /\ chan' = [chan EXCEPT ![c] = FreeChan]
  BY DEF DmaDone, LoadDone, ResultLate, ResultNext, Arrives, Carries, qVars, mainVars
<1>3. /\ OneTransferPerBlock'
      /\ \A x \in Blocks : Serving(x)' <=> Serving(x) /\ x # b
  BY <1>1, <1>2, ReturnOwns
<1>4. b \in Blocks /\ Serving(b) /\ "INFLIGHT" \in flags[b]
  BY <1>1, <1>2 DEF TypeOK, Parcel, FreeChan, Serving, Ownership
<1>5. Ownership'
  <2>1. CASE LoadDone(c)
    <3>1. /\ UNCHANGED <<flags, isr, iblk>>
          /\ isr = "none" /\ flags[b] = {"INFIFO", "INFLIGHT"}
      BY <1>4, <2>1 DEF LoadDone, Interruptible, isrVars, Ownership, Flag
    <3>2. /\ hw'[b] = "computing"
          /\ \A x \in Blocks \ {b} : hw'[x] = hw[x]
      BY <1>1, <1>4, <2>1 DEF LoadDone, TypeOK
    <3> QED
      BY <1>2, <1>3, <1>4, <3>1, <3>2 DEF Ownership, Queued, Held
  <2>2. CASE ResultLate(c)
    <3>1. /\ UNCHANGED <<isr, iblk>>
          /\ isr = "none" /\ flags[b] = Flag
      BY <1>4, <2>2 DEF ResultLate, Arrives, Interruptible, isrVars, Ownership, Flag
    <3>2. /\ flags'[b] = {} /\ hw'[b] = "idle"
          /\ \A x \in Blocks \ {b} : flags'[x] = flags[x] /\ hw'[x] = hw[x]
      BY <1>1, <1>4, <2>2 DEF ResultLate, Release, TypeOK
    <3> QED
      BY <1>2, <1>3, <1>4, <3>1, <3>2 DEF Ownership, Queued, Held, Flag
  <2>3. CASE ResultNext(c)
    <3>1. /\ UNCHANGED <<flags, hw>>
          /\ isr' = "scan" /\ iblk' = b /\ flags[b] = Flag
      BY <1>4, <2>3 DEF ResultNext, Arrives, blkVars, Ownership, Flag
    <3> QED
      BY <1>2, <1>3, <1>4, <3>1 DEF Ownership, Queued, Held, Flag
  <2> QED
    BY <2>1, <2>2, <2>3 DEF DmaDone
<1> QED
  BY <1>0, <1>2, <1>3, <1>5

LEMMA StepOwnInv == ASSUME OneIdleBlock PROVE OwnInv /\ [Next]_vars => OwnInv'
<1> SUFFICES ASSUME OwnInv, [Next]_vars PROVE OwnInv'
  OBVIOUS
<1>1. CASE UNCHANGED vars
  <2>1. UNCHANGED <<flags, hw, chan, isr, iblk, qn, qaddr, block, pc>>
    BY <1>1 DEF vars, blkVars, qVars, dmaVars, mainVars, isrVars
  <2>2. Ownership' /\ OneTransferPerBlock'
    BY <2>1 DEF OwnInv, Ownership, OneTransferPerBlock, Queued, Held, Serving
  <2> QED
    BY <2>1, <2>2, StepTypeInv DEF OwnInv
<1> QED
  BY <1>1, MainOwnInv, IsrOwnInv, InterruptOwnInv, DmaOwnInv DEF Next

(* The queue, the loop, the channels and the flags agree on every block.   *)
THEOREM OwnershipInvariant == ASSUME OneIdleBlock PROVE Spec => []OwnInv
<1> QED
  BY OwnInvInit, StepOwnInv, PTL DEF Spec

(* The same, as the property the runs check. *)
THEOREM OwnershipHolds == ASSUME OneIdleBlock PROVE Spec => []Ownership
<1>1. OwnInv => Ownership
  BY DEF OwnInv
<1> QED
  BY <1>1, OwnershipInvariant, PTL

(* A block is never the subject of two transfers at once.                  *)
THEOREM OneTransfer == ASSUME OneIdleBlock PROVE Spec => []OneTransferPerBlock
<1>1. OwnInv => OneTransferPerBlock
  BY DEF OwnInv
<1> QED
  BY <1>1, OwnershipInvariant, PTL

(* task_bind never rebinds a block that is working on a task.              *)
THEOREM BindingFixed == ASSUME OneIdleBlock PROVE Spec => InFlightBindingFixed
<1> DEFINE Fixed == \A b \in Blocks : "INFLIGHT" \in flags[b] => bactor'[b] = bactor[b]
<1>1. OwnInv /\ [Next]_vars => [Fixed]_vars
  <2> SUFFICES ASSUME OwnInv, Next PROVE Fixed
    BY DEF vars
  <2>1. CASE actor_fire
    <3>1. Held(block) /\ block \in Blocks
      BY <2>1 DEF actor_fire, Loop, Held, OwnInv, TypeInv, LoopState
    <3>2. flags[block] = {"INFIFO"}
      BY <3>1 DEF OwnInv, Ownership
    <3> QED
      BY <2>1, <3>2 DEF actor_fire, OwnInv, TypeInv, TypeOK
  <2>2. CASE ~actor_fire
    <3>1. bactor' = bactor
      BY <2>2 DEF Next, Main, Isr, DmaDone, Poll, Select, inform_dma, inform_dma_last, ready_free,
                  BlockIdle, BlockDone, BlockLaunch, LoadDone, ResultLate, ResultNext, ScanVisit,
                  ScanEnd, SearchNext, SearchTask, SearchPseudo, blkVars
    <3> QED
      BY <3>1
  <2> QED
    BY <2>1, <2>2
<1> QED
  BY <1>1, OwnershipInvariant, PTL DEF Spec, InFlightBindingFixed

-----------------------------------------------------------------------------
(* How idle blocks are lost.  Nothing is assumed of the constants: any     *)
(* number of blocks may wait, interrupts may be repeated, and the loop may *)
(* be preempted anywhere.  The handler's block keeps BLOCK_RESULT until    *)
(* the handler releases it, which is why a release strands nobody.         *)
Attending == isr \in {"launch", "scan"} => "RESULT" \in flags[iblk]

StrandInv == TypeInv /\ Attending

StrandsNobody ==
  \A b \in Blocks :
    IF Lost(b) THEN Lost(b)'
    ELSE Lost(b)' => Queued(b) /\ qaddr' # b /\ qn' = qn + 1

LEMMA MainStrands == ASSUME StrandInv, Main PROVE Attending' /\ StrandsNobody
<1>0. TypeOK /\ LoopState
  BY DEF StrandInv, TypeInv
<1>1. Attending'
  BY DEF Main, Poll, Select, actor_fire, inform_dma, inform_dma_last, ready_free, Loop,
         isrVars, Attending
<1>2. CASE Poll
  <2>1. /\ UNCHANGED <<flags, qaddr>> /\ block' = qaddr /\ qn > 0 /\ qn' = qn - 1
        /\ pc = "poll" /\ pc' = "select"
    BY <1>2 DEF Poll, Loop, blkVars
  <2> QED
    BY <1>0, <1>1, <2>1 DEF StrandsNobody, Lost, Queued, Held, TypeOK
<1>3. CASE Select
  <2>1. UNCHANGED <<flags, qaddr, qn, block>> /\ pc = "select" /\ pc' = "fire"
    BY <1>3 DEF Select, Loop, blkVars, qVars
  <2> QED
    BY <1>1, <2>1 DEF StrandsNobody, Lost, Queued, Held
<1>4. CASE actor_fire
  <2>1. /\ UNCHANGED <<qaddr, qn, block>> /\ pc = "fire" /\ pc' = "link"
        /\ flags' = [flags EXCEPT ![block] = @ \cup {"INFLIGHT"}]
        /\ block \in Blocks
    BY <1>0, <1>4 DEF actor_fire, Loop, qVars, LoopState
  <2>2. \A b \in Blocks : b # block => flags'[b] = flags[b]
    BY <1>0, <2>1 DEF TypeOK
  <2>3. "INFLIGHT" \in flags'[block]
    BY <1>0, <2>1 DEF TypeOK
  <2> QED
    BY <1>1, <2>1, <2>2, <2>3 DEF StrandsNobody, Lost, Queued, Held
<1>5. CASE inform_dma \/ inform_dma_last \/ ready_free
  <2>1. /\ UNCHANGED <<flags, qaddr, qn>>
        /\ pc \notin {"select", "fire"} /\ pc' \notin {"select", "fire"}
    BY <1>5 DEF inform_dma, inform_dma_last, ready_free, Loop, blkVars, qVars
  <2> QED
    BY <1>1, <2>1 DEF StrandsNobody, Lost, Queued, Held
<1> QED
  BY <1>2, <1>3, <1>4, <1>5 DEF Main

(* put_queue by the handler of b: only the block in the cell can be lost.  *)
LEMMA AnnounceStrands ==
  ASSUME StrandInv, NEW b \in Blocks, Announce(b), UNCHANGED <<pc, block>>,
         flags' = [flags EXCEPT ![b] = @ \cup {"INFIFO"}],
         "INFLIGHT" \in flags[b] \/ flags[b] \cap {"INFLIGHT", "INFIFO"} = {}
  PROVE  StrandsNobody
<1>0. TypeOK
  BY DEF StrandInv, TypeInv
<1>1. \A d \in Blocks : flags'[d] = IF d = b THEN flags[d] \cup {"INFIFO"} ELSE flags[d]
  BY <1>0 DEF TypeOK
<1>2. CASE "INFIFO" \in flags[b]
  <2>1. UNCHANGED <<qaddr, qn>>
    BY <1>2 DEF Announce, qVars
  <2>2. \A d \in Blocks : flags'[d] = flags[d]
    BY <1>1, <1>2
  <2> QED
    BY <2>1, <2>2 DEF StrandsNobody, Lost, Queued, Held
<1>3. CASE "INFIFO" \notin flags[b]
  <2>1. qaddr' = b /\ qn' = qn + 1 /\ qn \in Nat
    BY <1>0, <1>3 DEF Announce, TypeOK
  <2>2. ~Lost(b) /\ ~Lost(b)'
    BY <1>3, <2>1 DEF Lost, Queued
  <2>3. ASSUME NEW d \in Blocks, d # b
        PROVE  IF Lost(d) THEN Lost(d)'
               ELSE Lost(d)' => Queued(d) /\ qaddr' # d /\ qn' = qn + 1
    <3>1. flags'[d] = flags[d] /\ qaddr' # d /\ qn' = qn + 1
      BY <1>1, <2>1, <2>3
    <3> QED
      BY <3>1 DEF Lost, Queued, Held
  <2> QED
    BY <2>2, <2>3 DEF StrandsNobody
<1> QED
  BY <1>2, <1>3

(* _clear_block_flag is only called for a block with BLOCK_RESULT.         *)
LEMMA ReleaseStrands ==
  ASSUME StrandInv, NEW b \in Blocks, "RESULT" \in flags[b], Release(b),
         UNCHANGED <<pc, block, qaddr, qn>>
  PROVE  StrandsNobody
<1>1. "INFLIGHT" \in flags[b]
  BY DEF StrandInv, TypeInv, HandlerState
<1>2. \A d \in Blocks : flags'[d] = IF d = b THEN {} ELSE flags[d]
  BY DEF StrandInv, TypeInv, TypeOK, Release
<1> QED
  BY <1>1, <1>2 DEF StrandsNobody, Lost, Queued, Held

LEMMA QuietStrands ==
  ASSUME UNCHANGED <<flags, pc, block, qaddr, qn>> PROVE StrandsNobody
<1> QED
  BY DEF StrandsNobody, Lost, Queued, Held

LEMMA IsrStrands == ASSUME StrandInv, Isr PROVE Attending' /\ StrandsNobody
<1>0. TypeOK /\ (isr \in {"launch", "scan"} => iblk \in Blocks /\ "RESULT" \in flags[iblk])
  BY DEF StrandInv, TypeInv, HandlerState, Attending
<1>1. CASE BlockLaunch
  <2>1. /\ iblk \in Blocks /\ "INFLIGHT" \in flags[iblk]
        /\ isr' = "none"
        /\ Announce(iblk) /\ UNCHANGED <<pc, block>>
        /\ flags' = [flags EXCEPT ![iblk] = @ \cup {"INFIFO"}]
    BY <1>0, <1>1 DEF BlockLaunch, mainVars, StrandInv, TypeInv, HandlerState
  <2> QED
    BY <2>1, AnnounceStrands DEF Attending
<1>2. CASE ScanEnd
  <2>1. /\ iblk \in Blocks /\ "RESULT" \in flags[iblk] /\ Release(iblk)
        /\ UNCHANGED <<pc, block, qaddr, qn>> /\ isr' = "search"
    BY <1>0, <1>2 DEF ScanEnd, mainVars, qVars
  <2> QED
    BY <2>1, ReleaseStrands DEF Attending
<1>3. CASE ScanVisit
  <2>1. UNCHANGED <<flags, pc, block, qaddr, qn, isr, iblk>>
    BY <1>3 DEF ScanVisit, blkVars, mainVars, qVars
  <2> QED
    BY <2>1, QuietStrands DEF Attending, StrandInv
<1>4. CASE SearchNext \/ SearchTask \/ SearchPseudo
  <2>1. UNCHANGED <<flags, pc, block, qaddr, qn>> /\ isr' \notin {"launch", "scan"}
    BY <1>4 DEF SearchNext, SearchTask, SearchPseudo, Searching, blkVars, mainVars, qVars
  <2> QED
    BY <2>1, QuietStrands DEF Attending
<1> QED
  BY <1>1, <1>2, <1>3, <1>4 DEF Isr

LEMMA InterruptStrands ==
  ASSUME StrandInv,
         (\E b \in Blocks : BlockIdle(b) \/ BlockDone(b)) \/ (\E c \in Channels : DmaDone(c))
  PROVE  Attending' /\ StrandsNobody
<1>0. TypeOK
  BY DEF StrandInv, TypeInv
<1>1. CASE \E b \in Blocks : BlockIdle(b)
  <2>1. PICK b \in Blocks : BlockIdle(b)
    BY <1>1
  <2>2. /\ Announce(b) /\ UNCHANGED <<pc, block, isr, iblk>> /\ isr = "none"
        /\ flags[b] \cap {"INFLIGHT", "INFIFO"} = {}
        /\ flags' = [flags EXCEPT ![b] = @ \cup {"INFIFO"}]
    BY <2>1 DEF BlockIdle, Interruptible, mainVars, isrVars
  <2> QED
    BY <2>2, AnnounceStrands DEF Attending
<1>2. CASE \E b \in Blocks : BlockDone(b)
  <2>1. PICK b \in Blocks : BlockDone(b)
    BY <1>2
  <2>2. /\ UNCHANGED <<pc, block, qaddr, qn>> /\ iblk' = b
        /\ "INFLIGHT" \in flags[b]
        /\ flags' = [flags EXCEPT ![b] = @ \cup {"RESULT"}]
    BY <2>1 DEF BlockDone, mainVars, qVars
  <2>3. \A d \in Blocks : flags'[d] = IF d = b THEN flags[d] \cup {"RESULT"} ELSE flags[d]
    BY <1>0, <2>2 DEF TypeOK
  <2> QED
    BY <2>2, <2>3 DEF Attending, StrandsNobody, Lost, Queued, Held
<1>3. CASE \E c \in Channels : LoadDone(c)
  <2>1. UNCHANGED <<flags, pc, block, qaddr, qn, isr, iblk>>
    BY <1>3 DEF LoadDone, mainVars, qVars, isrVars
  <2> QED
    BY <2>1, QuietStrands DEF Attending, StrandInv
<1>4. CASE \E c \in Channels : ResultNext(c)
  <2>1. /\ UNCHANGED <<flags, pc, block, qaddr, qn>>
        /\ "RESULT" \in flags[iblk']
    BY <1>4 DEF ResultNext, Arrives, blkVars, mainVars, qVars
  <2> QED
    BY <2>1, QuietStrands DEF Attending
<1>5. CASE \E c \in Channels : ResultLate(c)
  <2>1. PICK c \in Channels : ResultLate(c)
    BY <1>5
  <2>2. chan[c].blk \in Blocks
    BY <1>0, <2>1 DEF ResultLate, Arrives, Carries, TypeOK, Parcel, FreeChan
  <2>3. /\ "RESULT" \in flags[chan[c].blk] /\ Release(chan[c].blk)
        /\ UNCHANGED <<pc, block, qaddr, qn, isr, iblk>> /\ isr = "none"
    BY <2>1 DEF ResultLate, Arrives, Interruptible, mainVars, qVars, isrVars
  <2> QED
    BY <2>2, <2>3, ReleaseStrands DEF Attending
<1> QED
  BY <1>1, <1>2, <1>3, <1>4, <1>5 DEF DmaDone

(* An idle block is lost only by the put of another block into the queue's *)
(* single cell, and then for ever (put_queue, block_handler).              *)
THEOREM LossOnlyByOverwrite == Spec => LostByOverwriteOnly
<1>1. Init => StrandInv
  BY InitTypeInv DEF Init, StrandInv, Attending
<1>2. ASSUME StrandInv, Next PROVE Attending' /\ StrandsNobody
  BY <1>2, MainStrands, IsrStrands, InterruptStrands DEF Next
<1>3. StrandInv /\ [Next]_vars => StrandInv'
  <2> SUFFICES ASSUME StrandInv, [Next]_vars PROVE StrandInv'
    OBVIOUS
  <2>1. TypeInv'
    BY StepTypeInv DEF StrandInv
  <2>2. CASE UNCHANGED vars
    BY <2>1, <2>2 DEF StrandInv, Attending, vars, blkVars, isrVars
  <2> QED
    BY <1>2, <2>1, <2>2 DEF StrandInv
<1>4. StrandInv /\ [Next]_vars => [StrandsNobody]_vars
  BY <1>2
<1> QED
  BY <1>1, <1>3, <1>4, PTL DEF Spec, LostByOverwriteOnly, StrandsNobody

-----------------------------------------------------------------------------
(* The static actor.  It survives from ready_select to task_bind if no     *)
(* interrupt is taken between the two.                                     *)
SelectInv ==
  /\ TypeInv
  /\ pc = "fire" => isr = "none" /\ actor = ready[sel].actor
  /\ SelectedActorBound

LEMMA StepSelectInv ==
  ASSUME "fire" \notin PreemptAt
  PROVE  SelectInv /\ [Next]_vars => SelectInv'
<1> SUFFICES ASSUME SelectInv, [Next]_vars PROVE SelectInv'
  OBVIOUS
<1> USE DEF SelectInv
<1>0. TypeInv'
  BY StepTypeInv
<1>1. /\ TypeOK /\ LoopState
      /\ pc \in {"fire", "link", "free"} => sel \in 1..Len(ready)
      /\ ready \in Seq(ReadyTask)
  BY DEF TypeInv, LoopState, TypeOK
<1>2. CASE Poll \/ Select \/ ready_free
  <2>1. /\ pc' \in {"select", "poll", "fire"}
        /\ pc' = "fire" => isr' = "none" /\ actor' = ready'[sel'].actor
    BY <1>2 DEF Poll, Select, ready_free, Loop, dagVars, isrVars
  <2> QED
    BY <1>0, <2>1 DEF SelectedActorBound
<1>3. CASE actor_fire
  <2>1. /\ pc = "fire" /\ pc' = "link" /\ block \in Blocks
        /\ UNCHANGED <<ready, sel, block>>
        /\ bactor'[block] = actor
    BY <1>1, <1>3 DEF actor_fire, Loop, LoopState, TypeOK
  <2> QED
    BY <1>0, <2>1 DEF SelectedActorBound
<1>4. CASE inform_dma \/ inform_dma_last
  <2>1. /\ pc = "link" /\ pc' \in {"link", "free"}
        /\ UNCHANGED <<ready, sel, block, bactor>>
    BY <1>4 DEF inform_dma, inform_dma_last, Loop, dagVars, blkVars
  <2> QED
    BY <1>0, <2>1 DEF SelectedActorBound
<1>5. ASSUME UNCHANGED <<pc, sel, block, bactor>>,
             pc = "fire" => FALSE,
             \A i \in 1..Len(ready) : ready'[i] = ready[i]
      PROVE  SelectInv'
  BY <1>0, <1>1, <1>5 DEF SelectedActorBound
<1>6. CASE Isr
  <2>1. UNCHANGED <<pc, sel, block, bactor>> /\ isr # "none"
    BY <1>6 DEF Isr, BlockLaunch, ScanVisit, ScanEnd, SearchNext, SearchTask, SearchPseudo,
                Searching, mainVars, blkVars
  <2>2. \A i \in 1..Len(ready) : ready'[i] = ready[i]
    <3>1. ready' = ready \/ \E t : ready' = Append(ready, t)
      BY <1>6 DEF Isr, BlockLaunch, ScanVisit, ScanEnd, SearchNext, SearchTask, SearchPseudo,
                  dagVars
    <3> QED
      BY <1>1, <3>1
  <2> QED
    BY <1>5, <2>1, <2>2
<1>7. CASE (\E b \in Blocks : BlockIdle(b) \/ BlockDone(b)) \/ (\E c \in Channels : DmaDone(c))
  <2>1. UNCHANGED <<pc, sel, block, bactor, ready>> /\ Interruptible
    BY <1>7 DEF BlockIdle, BlockDone, DmaDone, LoadDone, ResultLate, ResultNext, Arrives,
                mainVars, blkVars, dagVars
  <2>2. pc # "fire"
    BY <2>1 DEF Interruptible, Waiting
  <2> QED
    BY <1>5, <2>1, <2>2
<1>8. CASE UNCHANGED vars
  BY <1>0, <1>8 DEF vars, dagVars, blkVars, mainVars, isrVars, SelectedActorBound
<1> QED
  BY <1>2, <1>3, <1>4, <1>6, <1>7, <1>8 DEF Next, Main

-----------------------------------------------------------------------------
(* Tokens. *)

(* The entries of ready that have not become firings: actor_fire enters    *)
(* the block into fire_list, ready_free removes the entry some steps later.*)
Fired(i)   == pc \in {"link", "free"} /\ i = sel
Pending(a) == {i \in DOMAIN ready : ready[i].actor = a /\ ~Fired(i)}

(* The packets whose tokens ready_search has taken from the inputs of a.   *)
Taken(a) == Cardinality(Pending(a)) + Len(fire[a]) + Len(done[a])

(* What entered the fifo of an edge.                                       *)
Given(e) == IF e.src = Host THEN NUM_PACKET ELSE Len(done[e.src])

(* Everything that entered a fifo is still in it or was taken, and no      *)
(* actor has taken more than there are packets, so no fifo overflows.      *)
Conserved  == \A e \in Edges : e.snk \in Actors => Given(e) = Len(fifo[e]) + Taken(e.snk)
NeverAhead == \A a \in Actors : Taken(a) <= NUM_PACKET
OutputsFit == \A e \in Edges : e.src \in Actors => Len(fifo[e]) <= Len(done[e.src])

TokenInv == SelectInv /\ Conserved /\ NeverAhead /\ OutputsFit

-----------------------------------------------------------------------------
(* Counting.                                                               *)
LEMMA PendingIsFinite ==
  ASSUME TypeOK, NEW a
  PROVE  IsFiniteSet(Pending(a)) /\ Cardinality(Pending(a)) \in Nat
<1>1. Pending(a) \subseteq 1..Len(ready) /\ Len(ready) \in Nat
  BY DEF Pending, TypeOK
<1>2. IsFiniteSet(1..Len(ready))
  BY <1>1, FS_Interval
<1> QED
  BY <1>1, <1>2, FS_Subset, FS_CardinalityType

LEMMA TakenType ==
  ASSUME TypeOK, NEW a \in Actors
  PROVE  /\ Taken(a) \in Nat /\ Len(fire[a]) \in Nat /\ Len(done[a]) \in Nat
         /\ Len(fire[a]) + Len(done[a]) <= Taken(a)
<1>1. fire[a] \in Seq(Blocks) /\ done[a] \in Seq(Rounds)
  BY DEF TypeOK
<1>2. Len(fire[a]) \in Nat /\ Len(done[a]) \in Nat
  BY <1>1
<1>3. Cardinality(Pending(a)) \in Nat
  BY PendingIsFinite
<1> DEFINE p == Cardinality(Pending(a))
           f == Len(fire[a])
           d == Len(done[a])
<1>4. Taken(a) = p + f + d
  BY DEF Taken
<1>5. p \in Nat /\ f \in Nat /\ d \in Nat
  BY <1>2, <1>3
<1> HIDE DEF p, f, d
<1>6. Taken(a) \in Nat /\ f + d <= Taken(a)
  BY <1>4, <1>5
<1> QED
  BY <1>5, <1>6 DEF f, d

LEMMA Concatenated ==
  ASSUME NEW S, NEW p \in Seq(S), NEW q \in Seq(S)
  PROVE  /\ p \o q \in Seq(S) /\ Len(p \o q) = Len(p) + Len(q)
         /\ \A i \in 1..(Len(p) + Len(q)) :
              (p \o q)[i] = IF i <= Len(p) THEN p[i] ELSE q[i - Len(p)]
  OBVIOUS

LEMMA RemoveEntryIs ==
  ASSUME NEW s \in Seq(ReadyTask), NEW k \in DOMAIN s
  PROVE  /\ RemoveEntry(s, k) \in Seq(ReadyTask)
         /\ DOMAIN RemoveEntry(s, k) = 1..(Len(s) - 1)
         /\ \A i \in 1..(Len(s) - 1) :
              RemoveEntry(s, k)[i] = IF i < k THEN s[i] ELSE s[i + 1]
<1> DEFINE p == SubSeq(s, 1, k - 1)
           q == SubSeq(s, k + 1, Len(s))
<1>1. Len(s) \in Nat /\ k \in 1..Len(s)
  OBVIOUS
<1>2. /\ p \in Seq(ReadyTask) /\ Len(p) = k - 1
      /\ \A i \in 1..(k - 1) : p[i] = s[i]
  BY <1>1
<1>3. /\ q \in Seq(ReadyTask) /\ Len(q) = Len(s) - k
      /\ \A i \in 1..(Len(s) - k) : q[i] = s[i + k]
  BY <1>1
<1> HIDE DEF p, q
<1>4. p \o q \in Seq(ReadyTask) /\ Len(p \o q) = Len(s) - 1
  BY <1>1, <1>2, <1>3
<1>5. \A i \in 1..(Len(s) - 1) : (p \o q)[i] = IF i < k THEN p[i] ELSE q[i - (k - 1)]
  <2>1. \A i \in 1..(Len(p) + Len(q)) :
          (p \o q)[i] = IF i <= Len(p) THEN p[i] ELSE q[i - Len(p)]
    BY <1>2, <1>3, Concatenated
  <2>2. Len(p) + Len(q) = Len(s) - 1 /\ \A i \in Nat : i <= k - 1 <=> i < k
    BY <1>1, <1>2, <1>3
  <2>3. \A i \in 1..(Len(s) - 1) : (p \o q)[i] = IF i <= k - 1 THEN p[i] ELSE q[i - (k - 1)]
    BY <1>2, <2>1, <2>2
  <2> QED
    BY <1>1, <2>2, <2>3
<1>6. \A i \in k..(Len(s) - 1) : q[i - (k - 1)] = s[i + 1]
  <2> TAKE i \in k..(Len(s) - 1)
  <2>1. i - (k - 1) \in 1..(Len(s) - k) /\ (i - (k - 1)) + k = i + 1
    BY <1>1
  <2> QED
    BY <1>3, <2>1
<1>7. \A i \in 1..(Len(s) - 1) : (p \o q)[i] = IF i < k THEN s[i] ELSE s[i + 1]
  <2> TAKE i \in 1..(Len(s) - 1)
  <2>1. CASE i < k
    <3>1. i \in 1..(k - 1)
      BY <1>1, <2>1
    <3> QED
      BY <1>2, <1>5, <2>1, <3>1
  <2>2. CASE ~(i < k)
    <3>1. i \in k..(Len(s) - 1)
      BY <1>1, <2>2
    <3> QED
      BY <1>5, <1>6, <2>2, <3>1
  <2> QED
    BY <2>1, <2>2
<1>8. DOMAIN (p \o q) = 1..(Len(s) - 1)
  BY <1>4
<1>9. RemoveEntry(s, k) = p \o q
  BY DEF RemoveEntry, p, q
<1> QED
  BY <1>4, <1>7, <1>8, <1>9

(* Removing an entry that is not counted does not change the count.        *)
EntriesOf(s, a)       == {i \in DOMAIN s : s[i].actor = a}
OtherEntries(s, k, a) == {i \in DOMAIN s : s[i].actor = a /\ i # k}

LEMMA RemoveKeepsCount ==
  ASSUME NEW s \in Seq(ReadyTask), NEW k \in DOMAIN s, NEW a
  PROVE  Cardinality(EntriesOf(RemoveEntry(s, k), a)) = Cardinality(OtherEntries(s, k, a))
<1> DEFINE r == RemoveEntry(s, k)
           n == Len(s)
           S == OtherEntries(s, k, a)
           T == EntriesOf(r, a)
           f == [i \in S |-> IF i < k THEN i ELSE i - 1]
<1> USE DEF OtherEntries, EntriesOf
<1>1. n \in Nat /\ DOMAIN s = 1..n /\ k \in 1..n
  OBVIOUS
<1>2. /\ SubSeq(s, 1, k - 1) \in Seq(ReadyTask) /\ Len(SubSeq(s, 1, k - 1)) = k - 1
      /\ SubSeq(s, k + 1, n) \in Seq(ReadyTask) /\ Len(SubSeq(s, k + 1, n)) = n - k
  BY <1>1
<1>3. /\ r \in Seq(ReadyTask)
      /\ DOMAIN r = 1..(n - 1)
      /\ \A i \in 1..(n - 1) : r[i] = IF i < k THEN s[i] ELSE s[i + 1]
  BY RemoveEntryIs
<1> HIDE DEF r
<1>4. f \in [S -> T]
  BY <1>1, <1>3
<1>5. \A x, y \in S : f[x] = f[y] => x = y
  BY <1>1
<1>6. \A t \in T : \E x \in S : f[x] = t
  <2> TAKE t \in T
  <2> DEFINE x == IF t < k THEN t ELSE t + 1
  <2>1. t \in 1..(n - 1) /\ r[t].actor = a
    BY <1>3
  <2>2. x \in 1..n /\ x # k /\ s[x] = r[t]
    BY <1>1, <1>3, <2>1
  <2>3. x \in S
    BY <1>1, <2>1, <2>2
  <2>4. f[x] = t
    BY <1>1, <2>1, <2>3
  <2> QED
    BY <2>3, <2>4
<1>7. f \in Bijection(S, T)
  BY <1>4, <1>5, <1>6 DEF Bijection, Injection, Surjection, IsInjective
<1>8. IsFiniteSet(1..n) /\ S \subseteq 1..n
  BY <1>1, FS_Interval
<1>9. IsFiniteSet(S)
  BY <1>8, FS_Subset
<1> QED
  BY <1>7, <1>9, FS_Bijection DEF ExistsBijection, r

(* The lengths of a fifo that a token enters, leaves, or both. *)
LEMMA PutLength ==
  ASSUME NEW q \in Seq(Token), NEW t \in Token
  PROVE  /\ put_token(q, t) \in Seq(Token)
         /\ Len(put_token(q, t)) <= Len(q) + 1
         /\ Len(q) < MAX_BUFFER => Len(put_token(q, t)) = Len(q) + 1
  BY DEF put_token

LEMMA PopLength ==
  ASSUME TypeOK, NEW a \in Actors, actor_ready(a), NEW e \in Edges
  PROVE  /\ Pop(a, fifo)[e] \in Seq(Token)
         /\ Len(Pop(a, fifo)[e]) = IF e.snk = a THEN Len(fifo[e]) - 1 ELSE Len(fifo[e])
<1>1. fifo[e] \in Seq(Token)
  BY DEF TypeOK
<1>2. CASE e.snk = a
  <2>1. fifo[e] # <<>>
    BY <1>2 DEF actor_ready, In, fifo_empty
  <2> QED
    BY <1>1, <1>2, <2>1 DEF Pop
<1>3. CASE e.snk # a
  BY <1>1, <1>3 DEF Pop
<1> QED
  BY <1>2, <1>3

(* What is counted changes with ready, fire and done only, and when the    *)
(* loop passes one of the two steps at which a task leaves ready.          *)
LEMMA TakenSame ==
  ASSUME UNCHANGED <<ready, fire, done>>, \A i : Fired(i)' <=> Fired(i), NEW a
  PROVE  Taken(a)' = Taken(a)
<1>1. Pending(a)' = Pending(a)
  BY DEF Pending
<1> QED
  BY <1>1 DEF Taken

(* actor_fire: the task leaves ready and the block enters fire_list. *)
LEMMA TakenByFire ==
  ASSUME SelectInv, actor_fire, NEW a \in Actors
  PROVE  Taken(a)' = Taken(a)
<1> USE DEF SelectInv, TypeInv
<1>1. /\ pc = "fire" /\ pc' = "link" /\ UNCHANGED <<ready, sel, done>>
      /\ sel \in DOMAIN ready /\ ready[sel].actor = actor /\ actor \in Actors
      /\ fire' = [fire EXCEPT ![actor] = Append(@, block)]
      /\ block \in Blocks
  BY DEF actor_fire, Loop, LoopState
<1>2. fire \in [Actors -> Seq(Blocks)] /\ fire[a] \in Seq(Blocks)
  BY DEF TypeOK
<1>3. CASE a = actor
  <2>1. Pending(a)' = Pending(a) \ {sel} /\ sel \in Pending(a)
    BY <1>1, <1>3 DEF Pending, Fired
  <2>2. Cardinality(Pending(a)') = Cardinality(Pending(a)) - 1
    BY <2>1, PendingIsFinite, FS_RemoveElement
  <2>3. Len(fire'[a]) = Len(fire[a]) + 1
    BY <1>1, <1>2, <1>3
  <2> DEFINE p == Cardinality(Pending(a))
             f == Len(fire[a])
             d == Len(done[a])
  <2>4. p \in Nat /\ f \in Nat /\ d \in Nat
    BY <1>2, PendingIsFinite DEF TypeOK
  <2>5. Taken(a) = p + f + d /\ Taken(a)' = (p - 1) + (f + 1) + d
    BY <1>1, <2>2, <2>3 DEF Taken
  <2> HIDE DEF p, f, d
  <2> QED
    BY <2>4, <2>5
<1>4. CASE a # actor
  <2>1. Pending(a)' = Pending(a)
    BY <1>1, <1>4 DEF Pending, Fired
  <2>2. fire'[a] = fire[a]
    BY <1>1, <1>2, <1>4
  <2> QED
    BY <1>1, <2>1, <2>2 DEF Taken
<1> QED
  BY <1>3, <1>4

(* ready_free: the entry that was fired goes. *)
LEMMA TakenByFree ==
  ASSUME TypeInv, ready_free, NEW a
  PROVE  Taken(a)' = Taken(a)
<1>1. /\ pc = "free" /\ pc' = "poll" /\ ready' = RemoveEntry(ready, sel)
      /\ UNCHANGED <<fire, done>>
      /\ sel \in DOMAIN ready /\ ready \in Seq(ReadyTask)
  BY DEF ready_free, Loop, TypeInv, LoopState, TypeOK
<1>2. Pending(a) = OtherEntries(ready, sel, a)
  BY <1>1 DEF Pending, Fired, OtherEntries
<1>3. Pending(a)' = EntriesOf(RemoveEntry(ready, sel), a)
  BY <1>1 DEF Pending, Fired, EntriesOf
<1>4. Cardinality(Pending(a)') = Cardinality(Pending(a))
  BY <1>1, <1>2, <1>3, RemoveKeepsCount
<1> QED
  BY <1>1, <1>4 DEF Taken

(* Passing results on: the oldest firing of a is done, and every fifo of a *)
(* result gets a token.                                                    *)
LEMMA PassCounts ==
  ASSUME TokenInv, NEW a \in Actors, NEW toks \in Tokens, fire[a] # <<>>,
         scheduler_pass_result(a, toks), UNCHANGED <<ready, pc, sel>>
  PROVE  /\ \A x \in Actors : Taken(x)' = Taken(x)
         /\ Conserved' /\ NeverAhead' /\ OutputsFit'
<1> USE DEF TokenInv, SelectInv, TypeInv
<1>1. /\ fire \in [Actors -> Seq(Blocks)] /\ done \in [Actors -> Seq(Rounds)]
      /\ fifo \in [Edges -> Seq(Token)]
      /\ \A x \in Actors : fire[x] \in Seq(Blocks) /\ done[x] \in Seq(Rounds)
      /\ Head(toks).rnd \in Rounds
  <2>1. Head(toks) \in Token
    BY DEF Tokens
  <2> QED
    BY <2>1 DEF TypeOK, Token
<1>2. /\ Len(fire'[a]) = Len(fire[a]) - 1 /\ Len(done'[a]) = Len(done[a]) + 1
      /\ Len(fire[a]) \in Nat \ {0} /\ Len(done[a]) \in Nat
      /\ \A x \in Actors \ {a} : fire'[x] = fire[x] /\ done'[x] = done[x]
  BY <1>1 DEF scheduler_pass_result
<1>3. ASSUME NEW x \in Actors PROVE Taken(x)' = Taken(x)
  <2>1. Pending(x)' = Pending(x)
    BY DEF Pending, Fired
  <2>2. CASE x = a
    <3> DEFINE p == Cardinality(Pending(x))
               f == Len(fire[x])
               d == Len(done[x])
    <3>1. p \in Nat /\ f \in Nat /\ d \in Nat
      BY <1>1, PendingIsFinite
    <3>2. Taken(x) = p + f + d /\ Taken(x)' = p + (f - 1) + (d + 1)
      BY <1>2, <2>1, <2>2 DEF Taken
    <3> HIDE DEF p, f, d
    <3> QED
      BY <3>1, <3>2
  <2>3. CASE x # a
    BY <1>2, <2>1, <2>3 DEF Taken
  <2> QED
    BY <2>2, <2>3
<1>4. Len(done[a]) < NUM_PACKET /\ NUM_PACKET \in Nat /\ MAX_BUFFER \in Nat /\ NUM_PACKET <= MAX_BUFFER
  <2> DEFINE f == Len(fire[a])
             d == Len(done[a])
  <2>1. f + d <= Taken(a) /\ Taken(a) <= NUM_PACKET /\ Taken(a) \in Nat
    BY TakenType DEF NeverAhead
  <2>2. f \in Nat \ {0} /\ d \in Nat
    BY <1>2
  <2> HIDE DEF f, d
  <2>3. d < NUM_PACKET /\ NUM_PACKET \in Nat /\ MAX_BUFFER \in Nat /\ NUM_PACKET <= MAX_BUFFER
    BY <2>1, <2>2, SizeAssumption
  <2> QED
    BY <2>3 DEF d
<1>5. ASSUME NEW e \in Edges
      PROVE  /\ fifo[e] \in Seq(Token)
             /\ e.src # a => fifo'[e] = fifo[e]
             /\ e.src = a => Len(fifo'[e]) = Len(fifo[e]) + 1 /\ Len(fifo[e]) <= Len(done[a])
  <2>1. fifo[e] \in Seq(Token) /\ ResultToken(a, toks, e.res) \in Token
    BY <1>1, EdgeTypes, ResultTokenType
  <2>2. ASSUME e.src = a PROVE Len(fifo[e]) <= Len(done[a]) /\ Len(fifo[e]) < MAX_BUFFER
    <3>1. Len(fifo[e]) <= Len(done[a])
      BY <2>2 DEF OutputsFit
    <3>2. Len(fifo[e]) \in Nat
      BY <2>1
    <3> QED
      BY <1>2, <1>4, <3>1, <3>2
  <2> QED
    BY <2>1, <2>2, PutLength DEF scheduler_pass_result
<1>6. Conserved'
  <2> SUFFICES ASSUME NEW e \in Edges, e.snk \in Actors
               PROVE  Given(e)' = Len(fifo'[e]) + Taken(e.snk)
    BY <1>3 DEF Conserved
  <2>1. Given(e) = Len(fifo[e]) + Taken(e.snk)
    BY DEF Conserved
  <2>2. Len(fifo[e]) \in Nat
    BY <1>1
  <2>3. Taken(e.snk) \in Nat
    BY TakenType
  <2>4. CASE e.src = a
    <3>1. Given(e) = Len(done[a]) /\ Given(e)' = Len(done'[a])
      BY <2>4, DagAssumption DEF Given
    <3>2. Len(fifo'[e]) = Len(fifo[e]) + 1
      BY <1>5, <2>4
    <3>3. Given(e)' = Given(e) + 1
      BY <1>2, <3>1
    <3> QED
      BY <2>1, <2>2, <2>3, <3>2, <3>3
  <2>5. CASE e.src # a
    <3>1. Given(e)' = Given(e)
      BY <1>2, <2>5, EdgeTypes DEF Given
    <3> QED
      BY <1>5, <2>1, <2>5, <3>1
  <2> QED
    BY <2>4, <2>5
<1>7. NeverAhead'
  BY <1>3 DEF NeverAhead
<1>8. OutputsFit'
  <2> SUFFICES ASSUME NEW e \in Edges, e.src \in Actors
               PROVE  Len(fifo'[e]) <= Len(done'[e.src])
    BY DEF OutputsFit
  <2>1. Len(fifo[e]) <= Len(done[e.src]) /\ Len(fifo[e]) \in Nat
    BY <1>5 DEF OutputsFit
  <2> QED
    BY <1>2, <1>5, <2>1
<1> QED
  BY <1>3, <1>6, <1>7, <1>8

(* An actor whose inputs are ready has not taken every packet yet, so none *)
(* of its output fifos is full: successor_full never holds it back.        *)
LEMMA ReadyIsBehind ==
  ASSUME TokenInv, NEW a \in Actors, actor_ready(a)
  PROVE  Taken(a) < NUM_PACKET
<1> USE DEF TokenInv, SelectInv, TypeInv
<1> DEFINE e == In0(a)
<1>1. e \in Edges /\ e.snk = a /\ e \in In(a)
  <2>1. \E f \in In(a) : f.inp = 0
    BY DagAssumption
  <2> QED
    BY <2>1 DEF In0, In
<1>2. fifo[e] \in Seq(Token) /\ fifo[e] # <<>>
  BY <1>1 DEF actor_ready, fifo_empty, TypeOK
<1> HIDE DEF e
<1>3. Len(fifo[e]) \in Nat \ {0}
  BY <1>2
<1>4. Taken(a) \in Nat
  BY TakenType
<1>5. Given(e) = Len(fifo[e]) + Taken(a)
  BY <1>1 DEF Conserved
<1>6. Given(e) <= NUM_PACKET /\ NUM_PACKET \in Nat
  <2>1. CASE e.src = Host
    BY <2>1, SizeAssumption DEF Given
  <2>2. CASE e.src # Host
    <3>1. e.src \in Actors
      BY <1>1, <2>2, EdgeTypes
    <3> DEFINE f == Len(fire[e.src])
               d == Len(done[e.src])
    <3>2. /\ Taken(e.src) \in Nat /\ f \in Nat /\ d \in Nat
          /\ f + d <= Taken(e.src) /\ Taken(e.src) <= NUM_PACKET
      BY <3>1, TakenType DEF NeverAhead
    <3>3. Given(e) = d
      BY <2>2 DEF Given
    <3> HIDE DEF f, d
    <3> QED
      BY <3>2, <3>3, SizeAssumption
  <2> QED
    BY <2>1, <2>2
<1>7. Given(e) \in Nat
  BY <1>3, <1>4, <1>5
<1> QED
  BY <1>3, <1>4, <1>5, <1>6

LEMMA OutputsBelow ==
  ASSUME TokenInv, NEW a \in Actors, actor_ready(a), NEW e \in Out(a)
  PROVE  /\ e \in Edges /\ e.src = a /\ Len(fifo[e]) \in Nat
         /\ Len(fifo[e]) <= Len(done[a]) /\ Len(fifo[e]) < MAX_BUFFER
<1> USE DEF TokenInv, SelectInv, TypeInv
<1> DEFINE q == Len(fifo[e])
           f == Len(fire[a])
           d == Len(done[a])
<1>1. e \in Edges /\ e.src = a
  BY DEF Out
<1>2. fifo[e] \in Seq(Token)
  BY <1>1 DEF TypeOK
<1>3. q \in Nat /\ q <= d
  BY <1>1, <1>2 DEF OutputsFit
<1>4. /\ Taken(a) \in Nat /\ f \in Nat /\ d \in Nat /\ f + d <= Taken(a)
      /\ Taken(a) < NUM_PACKET
  BY TakenType, ReadyIsBehind
<1> HIDE DEF q, f, d
<1>5. q < MAX_BUFFER
  BY <1>3, <1>4, SizeAssumption
<1> QED
  BY <1>1, <1>3, <1>5 DEF q, d

LEMMA NoBackPressure ==
  ASSUME TokenInv, NEW a \in Actors
  PROVE  fire_check(a) <=> actor_ready(a)
<1>1. ASSUME actor_ready(a) PROVE ~successor_full(a)
  <2>1. PICK e \in Out(a) : TRUE
    BY DagAssumption
  <2>2. Len(fifo[e]) \in Nat /\ Len(fifo[e]) < MAX_BUFFER
    BY <1>1, OutputsBelow
  <2>3. Len(fifo[e]) # MAX_BUFFER
    BY <2>2, SizeAssumption
  <2> QED
    BY <2>3 DEF successor_full, fifo_full
<1> QED
  BY <1>1 DEF fire_check

(* ready_search takes one token from every input of an actor: as a task or *)
(* as a skipped firing, one more packet is taken.                          *)
LEMMA SearchTakes ==
  ASSUME TokenInv, SearchTask \/ SearchPseudo, NEW a, a = Found
  PROVE  /\ a \in Actors /\ actor_ready(a)
         /\ Taken(a)' = Taken(a) + 1
         /\ \A x \in Actors \ {a} : Taken(x)' = Taken(x)
<1> USE DEF TokenInv, SelectInv, TypeInv
<1>1. a \in Actors /\ actor_ready(a) /\ UNCHANGED <<fire, pc, sel>>
  BY FoundIsActor DEF SearchTask, SearchPseudo, Searching, fire_check, mainVars
<1>2. /\ ready \in Seq(ReadyTask) /\ done \in [Actors -> Seq(Rounds)]
      /\ pc \in {"link", "free"} => sel \in DOMAIN ready
      /\ Len(fire[a]) \in Nat /\ Len(done[a]) \in Nat
  BY <1>1, TakenType DEF TypeOK, LoopState
<1> DEFINE p == Cardinality(Pending(a))
           f == Len(fire[a])
           d == Len(done[a])
<1>3. p \in Nat /\ f \in Nat /\ d \in Nat
  BY <1>2, PendingIsFinite
<1>4. CASE SearchTask
  <2>1. PICK t : ready' = Append(ready, t) /\ t.actor = a
    BY <1>4 DEF SearchTask
  <2>2. /\ Len(ready) \in Nat /\ DOMAIN ready = 1..Len(ready)
        /\ DOMAIN ready' = 1..(Len(ready) + 1)
        /\ \A i \in 1..Len(ready) : ready'[i] = ready[i]
        /\ ready'[Len(ready) + 1] = t
    BY <1>2, <2>1
  <2>3. Fired(Len(ready) + 1) = FALSE
    BY <1>2, <2>2 DEF Fired
  <2>4. Pending(a)' = Pending(a) \cup {Len(ready) + 1} /\ Len(ready) + 1 \notin Pending(a)
    BY <1>1, <2>1, <2>2, <2>3 DEF Pending, Fired
  <2>5. Cardinality(Pending(a)') = p + 1
    BY <2>4, PendingIsFinite, FS_AddElement
  <2>6. done' = done
    BY <1>4 DEF SearchTask
  <2>7. Taken(a) = p + f + d /\ Taken(a)' = (p + 1) + f + d
    BY <1>1, <2>5, <2>6 DEF Taken
  <2>8. ASSUME NEW x \in Actors \ {a} PROVE Taken(x)' = Taken(x)
    <3>1. Pending(x)' = Pending(x)
      BY <1>1, <2>1, <2>2, <2>3, <2>8 DEF Pending, Fired
    <3> QED
      BY <1>1, <2>6, <3>1 DEF Taken
  <2> HIDE DEF p, f, d
  <2>9. Taken(a)' = Taken(a) + 1
    BY <1>3, <2>7
  <2> QED
    BY <1>1, <2>8, <2>9
<1>5. CASE SearchPseudo
  <2>1. /\ ready' = ready
        /\ \E n : done' = [done EXCEPT ![a] = Append(@, n)]
    BY <1>5 DEF SearchPseudo
  <2>2. Len(done'[a]) = d + 1 /\ \A x \in Actors \ {a} : done'[x] = done[x]
    BY <1>1, <1>2, <2>1
  <2>3. ASSUME NEW x \in Actors PROVE Pending(x)' = Pending(x)
    BY <1>1, <2>1 DEF Pending, Fired
  <2>4. Taken(a) = p + f + d /\ Taken(a)' = p + f + (d + 1)
    BY <1>1, <2>2, <2>3 DEF Taken
  <2>5. \A x \in Actors \ {a} : Taken(x)' = Taken(x)
    BY <1>1, <2>2, <2>3 DEF Taken
  <2> HIDE DEF p, f, d
  <2>6. Taken(a)' = Taken(a) + 1
    BY <1>3, <2>4
  <2> QED
    BY <1>1, <2>5, <2>6
<1> QED
  BY <1>4, <1>5

(* On every edge it takes got tokens and puts in as many as its source has *)
(* passed on, put.                                                         *)
LEMMA SearchFifos ==
  ASSUME TokenInv, SearchTask \/ SearchPseudo, NEW a, a = Found, NEW e \in Edges
  PROVE  \E got, put \in 0..1 :
           /\ got = 1 <=> e.snk = a
           /\ Len(fifo[e]) \in Nat
           /\ Len(fifo'[e]) = Len(fifo[e]) - got + put
           /\ e.src \in Actors => Len(done'[e.src]) = Len(done[e.src]) + put
           /\ e.src = Host => put = 0
<1> USE DEF TokenInv, SelectInv, TypeInv
<1>1. a \in Actors /\ actor_ready(a) /\ done \in [Actors -> Seq(Rounds)]
  BY SearchTakes DEF TypeOK
<1>2. PICK got \in 0..1 : got = 1 <=> e.snk = a
  <2>1. CASE e.snk = a
    BY <2>1
  <2>2. CASE e.snk # a
    BY <2>2
  <2> QED
    BY <2>1, <2>2
<1>3. /\ Pop(a, fifo)[e] \in Seq(Token) /\ Len(fifo[e]) \in Nat
      /\ Len(Pop(a, fifo)[e]) = Len(fifo[e]) - got
  <2>1. fifo[e] \in Seq(Token)
    BY DEF TypeOK
  <2>2. Len(Pop(a, fifo)[e]) = IF e.snk = a THEN Len(fifo[e]) - 1 ELSE Len(fifo[e])
    BY <1>1, PopLength
  <2>3. Len(Pop(a, fifo)[e]) = Len(fifo[e]) - got
    <3>1. CASE e.snk = a
      BY <1>2, <2>2, <3>1
    <3>2. CASE e.snk # a
      <4>1. got = 0
        BY <1>2, <3>2
      <4> QED
        BY <2>1, <2>2, <3>2, <4>1
    <3> QED
      BY <3>1, <3>2
  <2> QED
    BY <1>1, <2>1, <2>3, PopLength
<1>4. e.src \in Actors => Len(done[e.src]) \in Nat
  BY TakenType
<1>5. CASE SearchTask
  <2>1. fifo' = Pop(a, fifo) /\ done' = done
    BY <1>5 DEF SearchTask
  <2>2. Len(fifo'[e]) = Len(fifo[e]) - got + 0
    BY <1>3, <2>1
  <2>3. e.src \in Actors => Len(done'[e.src]) = Len(done[e.src]) + 0
    BY <1>4, <2>1
  <2> QED
    BY <1>2, <1>3, <2>2, <2>3
<1>6. CASE SearchPseudo
  <2> DEFINE n == Head(fifo[In0(a)]).rnd
             q == Pop(a, fifo)[e]
  <2>1. /\ fifo'[e] = IF e.src = a THEN put_token(q, Pseudo(a, e.res, n)) ELSE q
        /\ done' = [done EXCEPT ![a] = Append(@, n)]
    BY <1>6 DEF SearchPseudo
  <2>2. n \in Rounds
    <3>1. \E f \in In(a) : f.inp = 0
      BY <1>1, DagAssumption
    <3>2. In0(a) \in In(a) /\ In(a) \subseteq Edges
      BY <3>1 DEF In0, In
    <3>3. Head(fifo[In0(a)]) \in Token
      BY <1>1, <3>2, PopType
    <3> QED
      BY <3>3 DEF Token
  <2>3. Pseudo(a, e.res, n) \in Token
    BY <1>1, <2>2, EdgeTypes, TokenTypes
  <2>4. CASE e.src = a
    <3>1. Len(fifo[e]) < MAX_BUFFER
      BY <1>1, <2>4, OutputsBelow DEF Out
    <3>2. Len(q) < MAX_BUFFER
      BY <1>2, <1>3, <3>1, SizeAssumption
    <3>3. Len(fifo'[e]) = Len(q) + 1
      BY <1>3, <2>1, <2>3, <2>4, <3>2, PutLength
    <3>4. Len(fifo'[e]) = Len(fifo[e]) - got + 1
      BY <1>3, <3>3
    <3>5. Len(done'[a]) = Len(done[a]) + 1
      BY <1>1, <2>1
    <3>6. e.src # Host
      BY <1>1, <2>4, DagAssumption
    <3> QED
      BY <1>2, <1>3, <2>4, <3>4, <3>5, <3>6
  <2>5. CASE e.src # a
    <3>1. Len(fifo'[e]) = Len(fifo[e]) - got + 0
      BY <1>3, <2>1, <2>5
    <3>2. e.src \in Actors => done'[e.src] = done[e.src]
      BY <1>1, <2>1, <2>5
    <3>3. e.src \in Actors => Len(done'[e.src]) = Len(done[e.src]) + 0
      BY <1>4, <3>2
    <3> QED
      BY <1>2, <1>3, <3>1, <3>3
  <2> QED
    BY <2>4, <2>5
<1> QED
  BY <1>5, <1>6

LEMMA SearchCounts ==
  ASSUME TokenInv, SearchTask \/ SearchPseudo
  PROVE  Conserved' /\ NeverAhead' /\ OutputsFit'
<1> USE DEF TokenInv, SelectInv, TypeInv
<1> PICK a : a = Found
  OBVIOUS
<1>1. /\ a \in Actors /\ actor_ready(a)
      /\ Taken(a)' = Taken(a) + 1
      /\ \A x \in Actors \ {a} : Taken(x)' = Taken(x)
  BY SearchTakes
<1>2. ASSUME NEW x \in Actors
      PROVE  Taken(x) \in Nat /\ Len(done[x]) \in Nat /\ Taken(x) <= NUM_PACKET
  BY TakenType DEF NeverAhead
<1>3. Taken(a) < NUM_PACKET /\ NUM_PACKET \in Nat
  BY <1>1, ReadyIsBehind, SizeAssumption
<1>4. NeverAhead'
  BY <1>1, <1>2, <1>3 DEF NeverAhead
<1>5. ASSUME NEW e \in Edges
      PROVE  /\ e.snk \in Actors => (Given(e) = Len(fifo[e]) + Taken(e.snk))'
             /\ e.src \in Actors => (Len(fifo[e]) <= Len(done[e.src]))'
  <2>1. PICK got \in 0..1, put \in 0..1 :
          /\ got = 1 <=> e.snk = a
          /\ Len(fifo[e]) \in Nat
          /\ Len(fifo'[e]) = Len(fifo[e]) - got + put
          /\ e.src \in Actors => Len(done'[e.src]) = Len(done[e.src]) + put
          /\ e.src = Host => put = 0
    BY SearchFifos
  <2>2. ASSUME e.snk \in Actors PROVE (Given(e) = Len(fifo[e]) + Taken(e.snk))'
    <3>1. Given(e) = Len(fifo[e]) + Taken(e.snk) /\ Taken(e.snk) \in Nat
      BY <1>2, <2>2 DEF Conserved
    <3>2. Taken(e.snk)' = Taken(e.snk) + got
      <4>1. CASE e.snk = a
        BY <1>1, <2>1, <4>1
      <4>2. CASE e.snk # a
        BY <1>1, <2>1, <2>2, <3>1, <4>2
      <4> QED
        BY <4>1, <4>2
    <3>3. Given(e)' = Given(e) + put
      <4>1. CASE e.src = Host
        BY <2>1, <4>1, SizeAssumption DEF Given
      <4>2. CASE e.src # Host
        BY <2>1, <4>2, EdgeTypes DEF Given
      <4> QED
        BY <4>1, <4>2
    <3>4. Given(e)' = Len(fifo'[e]) + Taken(e.snk)'
      BY <2>1, <3>1, <3>2, <3>3
    <3> QED
      BY <3>4
  <2>3. ASSUME e.src \in Actors PROVE Len(fifo'[e]) <= Len(done'[e.src])
    BY <1>2, <2>1, <2>3 DEF OutputsFit
  <2> QED
    BY <2>2, <2>3
<1> QED
  BY <1>4, <1>5 DEF Conserved, OutputsFit

-----------------------------------------------------------------------------
(* All other steps leave what is counted alone. *)
LEMMA TokenFrame ==
  ASSUME TokenInv, UNCHANGED <<fifo, done>>, \A a \in Actors : Taken(a)' = Taken(a)
  PROVE  Conserved' /\ NeverAhead' /\ OutputsFit'
  BY DEF TokenInv, Conserved, NeverAhead, OutputsFit, Given

LEMMA QuietSteps ==
  ASSUME TokenInv,
         \/ Poll \/ Select \/ inform_dma \/ inform_dma_last
         \/ BlockLaunch \/ ScanEnd \/ SearchNext
         \/ \E b \in Blocks : BlockIdle(b) \/ BlockDone(b)
         \/ \E c \in Channels : LoadDone(c) \/ ResultLate(c)
         \/ UNCHANGED vars
  PROVE  Conserved' /\ NeverAhead' /\ OutputsFit'
<1>1. UNCHANGED <<fifo, ready, fire, done>> /\ (\A i : Fired(i)' <=> Fired(i))
  <2>1. CASE Poll \/ Select
    BY <2>1 DEF Poll, Select, Loop, dagVars, Fired
  <2>2. CASE inform_dma \/ inform_dma_last
    BY <2>2 DEF inform_dma, inform_dma_last, Loop, dagVars, Fired
  <2>3. CASE BlockLaunch \/ ScanEnd \/ SearchNext
    BY <2>3 DEF BlockLaunch, ScanEnd, SearchNext, dagVars, mainVars, Fired
  <2>4. CASE \E b \in Blocks : BlockIdle(b) \/ BlockDone(b)
    BY <2>4 DEF BlockIdle, BlockDone, dagVars, mainVars, Fired
  <2>5. CASE \E c \in Channels : LoadDone(c) \/ ResultLate(c)
    BY <2>5 DEF LoadDone, ResultLate, mainVars, Fired
  <2>6. CASE UNCHANGED vars
    BY <2>6 DEF vars, dagVars, mainVars, Fired
  <2> QED
    BY <2>1, <2>2, <2>3, <2>4, <2>5, <2>6
<1>2. \A a \in Actors : Taken(a)' = Taken(a)
  BY <1>1, TakenSame
<1> QED
  BY <1>1, <1>2, TokenFrame

LEMMA StepTokenInv ==
  ASSUME "fire" \notin PreemptAt
  PROVE  TokenInv /\ [Next]_vars => TokenInv'
<1> SUFFICES ASSUME TokenInv, [Next]_vars PROVE Conserved' /\ NeverAhead' /\ OutputsFit'
  BY StepSelectInv DEF TokenInv
<1> USE DEF TokenInv
<1>1. CASE actor_fire
  <2>1. \A a \in Actors : Taken(a)' = Taken(a)
    BY <1>1, TakenByFire
  <2> QED
    BY <1>1, <2>1, TokenFrame DEF actor_fire
<1>2. CASE ready_free
  <2>1. \A a \in Actors : Taken(a)' = Taken(a)
    BY <1>2, TakenByFree DEF SelectInv
  <2> QED
    BY <1>2, <2>1, TokenFrame DEF ready_free
<1>3. CASE ScanVisit
  <2> DEFINE a == bactor[iblk]
             p == Head(rest)
  <2>1. /\ a \in Actors /\ p \in Parcel /\ UNCHANGED <<ready, pc, sel>>
    <3>1. rest \in Seq(Parcel) /\ rest # <<>>
      BY <1>3 DEF ScanVisit, SelectInv, TypeInv, TypeOK
    <3> QED
      BY <1>3, <3>1 DEF ScanVisit, SelectInv, TypeInv, HandlerState, mainVars
  <2>2. CASE p.blk = ideal
    <3>1. fire[a] # <<>> /\ scheduler_pass_result(a, p.toks) /\ p.toks \in Tokens
      BY <1>3, <2>1, <2>2 DEF ScanVisit, Parcel
    <3> QED
      BY <2>1, <3>1, PassCounts
  <2>3. CASE p.blk # ideal
    <3>1. UNCHANGED <<fifo, ready, fire, done>> /\ (\A i : Fired(i)' <=> Fired(i))
      BY <1>3, <2>3 DEF ScanVisit, mainVars, Fired
    <3>2. \A x \in Actors : Taken(x)' = Taken(x)
      BY <3>1, TakenSame
    <3> QED
      BY <3>1, <3>2, TokenFrame
  <2> QED
    BY <2>2, <2>3
<1>4. ASSUME NEW c \in Channels, ResultNext(c) PROVE Conserved' /\ NeverAhead' /\ OutputsFit'
  <2> DEFINE b == chan[c].blk
             a == bactor[b]
  <2>1. /\ a \in Actors /\ chan[c].toks \in Tokens
        /\ fire[a] # <<>> /\ scheduler_pass_result(a, chan[c].toks)
        /\ UNCHANGED <<ready, pc, sel>>
    <3>1. Arrives(c, b)
      BY <1>4 DEF ResultNext
    <3>2. a \in Actors /\ chan[c].toks \in Tokens
      BY <3>1, ResultsOfActor DEF SelectInv
    <3> QED
      BY <1>4, <3>2 DEF ResultNext, mainVars
  <2> QED
    BY <2>1, PassCounts
<1>5. CASE SearchTask \/ SearchPseudo
  BY <1>5, SearchCounts
<1> QED
  BY <1>1, <1>2, <1>3, <1>4, <1>5, QuietSteps DEF Next, Main, Isr, DmaDone

LEMMA InitTokenInv == Init => TokenInv
<1> SUFFICES ASSUME Init PROVE TokenInv
  OBVIOUS
<1>1. SelectInv
  BY InitTypeInv DEF Init, SelectInv, SelectedActorBound
<1>2. \A a : Pending(a) = {}
  BY DEF Init, Pending
<1>3. \A a \in Actors : Taken(a) = 0 /\ Len(done[a]) = 0
  <2> TAKE a \in Actors
  <2>1. Cardinality(Pending(a)) = 0
    BY <1>2, FS_EmptySet
  <2>2. fire[a] = <<>> /\ done[a] = <<>>
    BY DEF Init
  <2>3. Len(fire[a]) = 0 /\ Len(done[a]) = 0
    BY <2>2
  <2> QED
    BY <2>1, <2>3 DEF Taken
<1>4. ASSUME NEW e \in Edges PROVE Given(e) = Len(fifo[e])
  <2>1. CASE e.src = Host
    <3>1. fifo[e] = [n \in 1..NUM_PACKET |-> Packet(n)]
      BY <2>1 DEF Init, Rounds
    <3>2. Len(fifo[e]) = NUM_PACKET
      BY <3>1, SizeAssumption
    <3> QED
      BY <2>1, <3>2 DEF Given
  <2>2. CASE e.src # Host
    BY <1>3, <2>2, EdgeTypes DEF Init, Given
  <2> QED
    BY <2>1, <2>2
<1>5. Conserved
  <2> SUFFICES ASSUME NEW e \in Edges, e.snk \in Actors
               PROVE  Given(e) = Len(fifo[e]) + Taken(e.snk)
    BY DEF Conserved
  <2>1. Len(fifo[e]) \in Nat
    BY <1>1 DEF SelectInv, TypeInv, TypeOK
  <2> QED
    BY <1>3, <1>4, <2>1
<1>6. NeverAhead
  BY <1>3, SizeAssumption DEF NeverAhead
<1>7. OutputsFit
  <2> SUFFICES ASSUME NEW e \in Edges, e.src \in Actors PROVE Len(fifo[e]) <= Len(done[e.src])
    BY DEF OutputsFit
  <2>1. Len(fifo[e]) = 0 /\ Len(done[e.src]) = 0
    BY <1>3, DagAssumption DEF Init
  <2> QED
    BY <2>1
<1> QED
  BY <1>1, <1>5, <1>6, <1>7 DEF TokenInv

(* put_token never finds a fifo full and ready_search never takes a token  *)
(* that was not given, whatever the interrupts do.                         *)
THEOREM TokenInvariant == ASSUME "fire" \notin PreemptAt PROVE Spec => []TokenInv
<1> QED
  BY InitTokenInv, StepTokenInv, PTL DEF Spec

(* No token is lost or duplicated between two actors (ready_search,        *)
(* put_token, scheduler_pass_result), however the results of overlapping   *)
(* firings arrive, as long as the loop binds the task it selected.         *)
THEOREM TokensConserved == ASSUME "fire" \notin PreemptAt PROVE Spec => []TokenConservation
<1>1. TokenInv => TokenConservation
  <2> SUFFICES ASSUME TokenInv, AtRest, NEW e \in Interior
               PROVE  LET OfSink(t) == t.actor = e.snk IN
                      Len(done[e.src]) = Len(fifo[e]) + Number(ready, OfSink)
                                           + Len(fire[e.snk]) + Len(done[e.snk])
    BY DEF TokenConservation
  <2> USE DEF TokenInv, SelectInv, TypeInv
  <2> DEFINE p == Cardinality(Pending(e.snk))
             f == Len(fire[e.snk])
             d == Len(done[e.snk])
             q == Len(fifo[e])
  <2>1. e \in Edges /\ e.src \in Actors /\ e.snk \in Actors /\ e.src # Host
    BY EdgeTypes DEF Interior
  <2>2. p \in Nat /\ f \in Nat /\ d \in Nat /\ q \in Nat
    <3>1. p \in Nat
      BY PendingIsFinite
    <3>2. f \in Nat /\ d \in Nat
      BY <2>1, TakenType
    <3>3. fifo[e] \in Seq(Token)
      BY <2>1 DEF TypeOK
    <3> QED
      BY <3>1, <3>2, <3>3
  <2>3. Len(done[e.src]) = q + Taken(e.snk) /\ Taken(e.snk) = p + f + d
    BY <2>1 DEF Conserved, Given, Taken
  <2>4. Pending(e.snk) = {i \in DOMAIN ready : ready[i].actor = e.snk}
    BY DEF AtRest, Pending, Fired
  <2>5. p = Cardinality({i \in DOMAIN ready : ready[i].actor = e.snk})
    BY <2>4
  <2> HIDE DEF p, f, d, q
  <2>6. Len(done[e.src]) = q + p + f + d
    BY <2>2, <2>3
  <2> QED
    BY <2>5, <2>6 DEF Number, f, d, q
<1> QED
  BY <1>1, TokenInvariant, PTL

-----------------------------------------------------------------------------
(* Nothing is overlooked if the actors have been created in an order in    *)
(* which every result goes to a later actor, as dag.c does: one pass of    *)
(* ready_search over actor_l is then enough.                               *)
InGraphOrder ==
  \A i, j \in DOMAIN ActorOrder :
    (\E e \in Edges : e.src = ActorOrder[i] /\ e.snk = ActorOrder[j]) => i < j

Visited == IF isr = "search" THEN 1..(idx - 1)
           ELSE IF isr = "scan" THEN {} ELSE DOMAIN ActorOrder

SearchInv == TokenInv /\ \A i \in Visited : ~actor_ready(ActorOrder[i])

LEMMA StepSearchInv ==
  ASSUME "fire" \notin PreemptAt, InGraphOrder
  PROVE  SearchInv /\ [Next]_vars => SearchInv'
<1> SUFFICES ASSUME SearchInv, [Next]_vars, NEW i \in Visited' PROVE ~actor_ready(ActorOrder[i])'
  BY StepTokenInv DEF SearchInv
<1> USE DEF SearchInv
<1>1. /\ ActorOrder \in Seq(Actors) /\ DOMAIN ActorOrder = 1..Len(ActorOrder)
      /\ Len(ActorOrder) \in Nat /\ idx \in 1..Len(ActorOrder)
      /\ TokenInv /\ TypeInv /\ TypeOK
  <2>1. ActorOrder \in Seq(Actors)
    BY DagAssumption
  <2>2. TokenInv /\ TypeInv /\ TypeOK
    BY DEF TokenInv, SelectInv, TypeInv
  <2>3. idx \in 1..Len(ActorOrder)
    BY <2>2 DEF TypeOK
  <2> QED
    BY <2>1, <2>2, <2>3
<1>2. ASSUME UNCHANGED fifo, i \in Visited PROVE ~actor_ready(ActorOrder[i])'
  BY <1>2 DEF actor_ready, fifo_empty
<1>3. CASE Main \/ UNCHANGED vars
  <2>1. UNCHANGED <<fifo, isr, idx>>
    BY <1>3 DEF Main, Poll, Select, actor_fire, inform_dma, inform_dma_last, ready_free,
                vars, dagVars, isrVars
  <2> QED
    BY <1>2, <2>1 DEF Visited
<1>4. CASE \E b \in Blocks : BlockIdle(b) \/ BlockDone(b)
  <2>1. UNCHANGED fifo /\ isr = "none" /\ isr' \in {"none", "launch"}
    BY <1>4 DEF BlockIdle, BlockDone, Interruptible, dagVars, isrVars
  <2> QED
    BY <1>2, <2>1 DEF Visited
<1>5. CASE \E c \in Channels : DmaDone(c)
  <2>1. CASE \E c \in Channels : LoadDone(c) \/ ResultLate(c)
    <3>1. UNCHANGED <<fifo, isr, idx>>
      BY <2>1 DEF LoadDone, ResultLate, isrVars
    <3> QED
      BY <1>2, <3>1 DEF Visited
  <2>2. CASE \E c \in Channels : ResultNext(c)
    BY <2>2 DEF ResultNext, Visited
  <2> QED
    BY <1>5, <2>1, <2>2 DEF DmaDone
<1>6. CASE BlockLaunch \/ ScanVisit \/ ScanEnd
  <2>1. CASE BlockLaunch
    BY <1>2, <2>1 DEF BlockLaunch, dagVars, Visited
  <2>2. CASE ScanVisit \/ ScanEnd
    <3>1. Visited' = {}
      BY <2>2 DEF ScanVisit, ScanEnd, Visited
    <3> QED
      BY <3>1
  <2> QED
    BY <1>6, <2>1, <2>2
<1>7. CASE SearchNext
  <2>1. UNCHANGED fifo /\ isr = "search" /\ ~actor_ready(ActorOrder[idx])
    <3>1. Found \in Actors
      BY <1>1, FoundIsActor
    <3> QED
      BY <1>1, <1>7, <3>1, NoBackPressure DEF SearchNext, Searching, dagVars, Found
  <2>2. i \in Visited \/ i = idx
    <3>1. CASE idx < Len(ActorOrder)
      BY <1>1, <1>7, <2>1, <3>1 DEF SearchNext, Visited
    <3>2. CASE ~(idx < Len(ActorOrder))
      BY <1>1, <1>7, <2>1, <3>2 DEF SearchNext, Visited
    <3> QED
      BY <3>1, <3>2
  <2> QED
    BY <1>2, <2>1, <2>2 DEF actor_ready, fifo_empty
<1>8. CASE SearchTask \/ SearchPseudo
  <2>1. /\ isr = "search" /\ UNCHANGED <<isr, idx>> /\ i \in 1..(idx - 1)
        /\ actor_ready(Found) /\ ~actor_ready(ActorOrder[i])
    BY <1>8 DEF SearchTask, SearchPseudo, Searching, Visited, fire_check
  <2>2. PICK e \in In(ActorOrder[i]) : fifo[e] = <<>>
    BY <2>1 DEF actor_ready, fifo_empty
  <2>3. e \in Edges /\ e.snk = ActorOrder[i] /\ e.snk # Found
    BY <2>1, <2>2 DEF In, actor_ready, fifo_empty
  <2>4. e.src # Found
    <3>1. i \in DOMAIN ActorOrder /\ idx \in DOMAIN ActorOrder /\ ~(idx < i)
      BY <1>1, <2>1
    <3> QED
      BY <2>3, <3>1 DEF InGraphOrder, Found
  <2>5. fifo'[e] = fifo[e]
    BY <1>8, <2>3, <2>4 DEF SearchTask, SearchPseudo, Pop
  <2> QED
    BY <2>2, <2>5 DEF actor_ready, fifo_empty
<1> QED
  BY <1>3, <1>4, <1>5, <1>6, <1>7, <1>8 DEF Next, Isr

(* When ready_search has returned, no actor is left that may fire.         *)
THEOREM SearchIsComplete ==
  ASSUME "fire" \notin PreemptAt, InGraphOrder PROVE Spec => []NoReadyActorMissed
<1>1. Init => SearchInv
  BY InitTokenInv DEF Init, SearchInv, Visited
<1>2. SearchInv => NoReadyActorMissed
  <2> SUFFICES ASSUME SearchInv, AtRest, NEW a \in Actors PROVE ~fire_check(a)
    BY DEF NoReadyActorMissed
  <2>1. PICK i \in DOMAIN ActorOrder : a = ActorOrder[i]
    BY DagAssumption
  <2>2. ~actor_ready(a)
    BY <2>1 DEF SearchInv, Visited, AtRest
  <2> QED
    BY <2>2 DEF fire_check
<1> QED
  BY <1>1, <1>2, StepSearchInv, PTL DEF Spec

-----------------------------------------------------------------------------
(* What is delivered: the chains the transfers carry, and the labels of    *)
(* the tokens, which tell the actors that run from those the scheduler     *)
(* skips, while the loop's firing of a task is undisturbed.                *)

(* The loop is not interrupted from ready_select to the last               *)
(* dma_transfer_link of a task, and never has to wait for a channel.       *)
UndisturbedFiring ==
  /\ OneIdleBlock
  /\ {"fire", "link"} \cap PreemptAt = {}
  /\ IsFiniteSet(Blocks) /\ Cardinality(Blocks) <= NumChannels

(* What alloc_result makes of packet n. *)
Sent(a, n) == [i \in 1..Cardinality(ReturnedOf(a)) |-> Real(a, i - 1, n)]

LEMMA AllocIsSent == ASSUME NEW b PROVE alloc_result(b) = Sent(bactor[b], rnd[b])
  BY DEF alloc_result, Sent, Returned, ReturnedOf

-----------------------------------------------------------------------------
(* Chains.  dma_transfer_link appends to whatever chain is open, so what a *)
(* channel carries is right only if the chain is empty when a task or its  *)
(* results begin, and nobody else appends before it is launched.           *)
BaseInv == OwnInv /\ TokenInv

ChainInv ==
  /\ pc = "link" => isr = "none" /\ link.open
  /\ pc # "link" /\ isr # "launch" => link = NoLink
  /\ isr = "launch" => link = [open |-> TRUE, toks |-> Sent(bactor[iblk], rnd[iblk])]
  /\ \A c \in Channels, b \in Blocks :
       chan[c].blk = b /\ "RESULT" \in flags[b] => chan[c].toks = Sent(bactor[b], rnd[b])

LEMMA BaseTypes ==
  ASSUME BaseInv
  PROVE  TypeOK /\ TypeInv /\ LoopState /\ HandlerState /\ Ownership /\ OneTransferPerBlock
  BY DEF BaseInv, OwnInv, TypeInv

(* Every other block holds at most one channel, so one is free. *)
LEMMA ChannelIsFree ==
  ASSUME UndisturbedFiring, BaseInv, pc = "link" PROVE FreeChannels # {}
<1> SUFFICES ASSUME FreeChannels = {} PROVE FALSE
  OBVIOUS
<1> DEFINE others == Blocks \ {block}
           f == [c \in Channels |-> chan[c].blk]
<1>1. block \in Blocks /\ ~Serving(block)
  BY BaseTypes DEF LoopState, Ownership
<1>2. ASSUME NEW c \in Channels PROVE chan[c].blk \in others
  <2>1. chan[c].blk # NULL
    BY DEF FreeChannels
  <2>2. chan[c].blk \in Blocks
    BY <2>1, BaseTypes DEF TypeOK, Parcel, FreeChan
  <2> QED
    BY <1>1, <2>2 DEF Serving
<1>3. \A c, d \in Channels : f[c] = f[d] => c = d
  <2> TAKE c, d \in Channels
  <2>1. chan[c].blk # NULL
    BY DEF FreeChannels
  <2> QED
    BY <2>1, BaseTypes DEF OneTransferPerBlock
<1>4. f \in Injection(Channels, others)
  BY <1>2, <1>3 DEF Injection, IsInjective
<1>5. IsFiniteSet(others) /\ Cardinality(others) = Cardinality(Blocks) - 1
  BY <1>1, FS_RemoveElement DEF UndisturbedFiring
<1>6. Cardinality(Channels) <= Cardinality(others)
  BY <1>4, <1>5, FS_Injection
<1>7. Cardinality(Channels) = NumChannels /\ NumChannels \in Nat
  <2>1. NumChannels \in Nat \ {0}
    BY SizeAssumption
  <2> QED
    BY <2>1, FS_Interval DEF Channels
<1>8. Cardinality(Blocks) \in Nat /\ Cardinality(Blocks) <= NumChannels
  BY FS_CardinalityType DEF UndisturbedFiring
<1> QED
  BY <1>5, <1>6, <1>7, <1>8

LEMMA NotWhileLinking ==
  ASSUME UndisturbedFiring, BaseInv, Interruptible
  PROVE  pc \notin {"fire", "link"} /\ isr = "none"
<1>1. ~Waiting
  BY ChannelIsFree DEF Waiting
<1> QED
  BY <1>1 DEF Interruptible, UndisturbedFiring

LEMMA MainChainInv ==
  ASSUME UndisturbedFiring, BaseInv, ChainInv, Main PROVE ChainInv'
<1> USE DEF ChainInv
<1>0. TypeOK /\ LoopState /\ Ownership
  BY BaseTypes
<1>1. CASE Poll \/ Select \/ ready_free
  <2>1. /\ UNCHANGED <<link, chan, flags, bactor, rnd, isr, iblk>>
        /\ pc # "link" /\ pc' # "link"
    BY <1>1 DEF Poll, Select, ready_free, Loop, blkVars, dmaVars, isrVars
  <2> QED
    BY <2>1
<1>2. CASE actor_fire
  <2>1. /\ isr = "none" /\ pc' = "link" /\ UNCHANGED <<isr, iblk, chan>>
        /\ link' = [open |-> TRUE, toks |-> Chained(<<>>)]
        /\ block \in Blocks /\ Held(block)
    BY <1>0, <1>2 DEF actor_fire, Loop, LoopState, Held, isrVars
  <2>2. \A b \in Blocks \ {block} : flags'[b] = flags[b] /\ bactor'[b] = bactor[b] /\ rnd'[b] = rnd[b]
    BY <1>0, <1>2 DEF actor_fire, TypeOK
  <2>3. ~Serving(block)
    BY <1>0, <2>1 DEF Ownership
  <2>4. ASSUME NEW c \in Channels, NEW b \in Blocks, chan[c].blk = b PROVE b # block
    BY <2>3, <2>4 DEF Serving
  <2> QED
    BY <2>1, <2>2, <2>4
<1>3. CASE inform_dma
  <2>1. /\ pc = "link" /\ isr = "none" /\ link'.open
        /\ UNCHANGED <<pc, chan, flags, bactor, rnd, isr, iblk>>
    BY <1>3 DEF inform_dma, Loop, blkVars, isrVars
  <2> QED
    BY <2>1
<1>4. CASE inform_dma_last
  <2>1. PICK d \in todo : dma_transfer_channel(block, Chained(<<d.tok>>))
    BY <1>4 DEF inform_dma_last
  <2>2. /\ pc = "link" /\ pc' = "free" /\ isr = "none"
        /\ UNCHANGED <<flags, bactor, rnd, isr, iblk>>
        /\ block \in Blocks
    BY <1>0, <1>4 DEF inform_dma_last, Loop, blkVars, isrVars, LoopState
  <2>3. PICK c \in Channels : chan' = [chan EXCEPT ![c] = [blk |-> block, toks |-> Chained(<<d.tok>>)]]
    BY <2>1 DEF dma_transfer_channel, FreeChannels
  <2>4. link' = NoLink
    BY <2>1 DEF dma_transfer_channel
  <2>5. "RESULT" \notin flags[block]
    BY <1>0, <2>2 DEF Ownership
  <2>6. \A x \in Channels : x # c => chan'[x] = chan[x]
    BY <1>0, <2>3 DEF TypeOK
  <2>7. chan'[c].blk = block
    BY <1>0, <2>3 DEF TypeOK
  <2> QED
    BY <2>2, <2>4, <2>5, <2>6, <2>7
<1> QED
  BY <1>1, <1>2, <1>3, <1>4 DEF Main

LEMMA HandlerChainInv ==
  ASSUME UndisturbedFiring, BaseInv, ChainInv, Isr PROVE ChainInv'
<1> USE DEF ChainInv
<1>0. TypeOK /\ HandlerState /\ Ownership
  BY BaseTypes
<1>1. CASE BlockLaunch
  <2>1. /\ isr = "launch" /\ isr' = "none" /\ UNCHANGED <<pc, bactor, rnd>>
        /\ pc # "link" /\ iblk \in Blocks
        /\ dma_transfer_channel(iblk, link.toks)
    BY <1>0, <1>1 DEF BlockLaunch, HandlerState, mainVars
  <2>2. PICK c \in Channels : chan' = [chan EXCEPT ![c] = [blk |-> iblk, toks |-> link.toks]]
    BY <2>1 DEF dma_transfer_channel, FreeChannels
  <2>3. link' = NoLink
    BY <2>1 DEF dma_transfer_channel
  <2>4. \A b \in Blocks : "RESULT" \in flags'[b] => "RESULT" \in flags[b]
    BY <1>0, <1>1, <2>1 DEF BlockLaunch, TypeOK
  <2>5. \A x \in Channels : x # c => chan'[x] = chan[x]
    BY <1>0, <2>2 DEF TypeOK
  <2>6. chan'[c].blk = iblk /\ chan'[c].toks = Sent(bactor[iblk], rnd[iblk])
    BY <1>0, <2>1, <2>2 DEF TypeOK
  <2> QED
    BY <2>1, <2>3, <2>4, <2>5, <2>6
<1>2. CASE ScanEnd
  <2>1. /\ isr = "scan" /\ isr' = "search" /\ UNCHANGED <<pc, bactor, rnd, link, chan>>
        /\ iblk \in Blocks
    BY <1>0, <1>2 DEF ScanEnd, HandlerState, mainVars, dmaVars
  <2>2. \A b \in Blocks : "RESULT" \in flags'[b] => "RESULT" \in flags[b]
    BY <1>0, <1>2, <2>1 DEF ScanEnd, Release, TypeOK
  <2> QED
    BY <2>1, <2>2
<1>3. CASE ScanVisit \/ SearchNext \/ SearchTask \/ SearchPseudo
  <2>1. /\ UNCHANGED <<pc, bactor, rnd, link, chan, flags>>
        /\ isr \notin {"none", "launch"} /\ isr' # "launch"
    BY <1>3 DEF ScanVisit, SearchNext, SearchTask, SearchPseudo, Searching, mainVars, dmaVars, blkVars
  <2> QED
    BY <2>1
<1> QED
  BY <1>1, <1>2, <1>3 DEF Isr

LEMMA InterruptChainInv ==
  ASSUME UndisturbedFiring, BaseInv, ChainInv,
         \/ \E b \in Blocks : BlockIdle(b) \/ BlockDone(b)
         \/ \E c \in Channels : DmaDone(c)
  PROVE  ChainInv'
<1> USE DEF ChainInv
<1>0. TypeOK /\ HandlerState /\ Ownership /\ OneTransferPerBlock
  BY BaseTypes
<1>1. pc \notin {"fire", "link"} /\ isr = "none" /\ pc' = pc /\ link = NoLink
  <2>1. Interruptible /\ pc' = pc
    BY DEF BlockIdle, BlockDone, DmaDone, LoadDone, ResultLate, ResultNext, Arrives, mainVars
  <2> QED
    BY <2>1, NotWhileLinking
<1>2. ASSUME NEW b \in Blocks, BlockIdle(b) PROVE ChainInv'
  <2>1. UNCHANGED <<bactor, rnd, link, chan, isr, iblk>>
    BY <1>2 DEF BlockIdle, dmaVars, isrVars
  <2>2. \A x \in Blocks : "RESULT" \in flags'[x] => "RESULT" \in flags[x]
    BY <1>0, <1>2 DEF BlockIdle, TypeOK
  <2> QED
    BY <1>1, <2>1, <2>2
<1>3. ASSUME NEW b \in Blocks, BlockDone(b) PROVE ChainInv'
  <2>1. /\ isr' = "launch" /\ iblk' = b /\ UNCHANGED <<bactor, rnd, chan>>
        /\ link' = [open |-> TRUE, toks |-> Chained(alloc_result(b))]
    BY <1>3 DEF BlockDone
  <2>2. bactor[b] \in Actors /\ rnd[b] \in Rounds
    BY <1>0, <1>3 DEF BlockDone, HandlerState, TypeOK
  <2>3. Chained(alloc_result(b)) = alloc_result(b)
    <3>1. alloc_result(b) \in Seq(Token)
      BY <2>2, AllocResultType DEF Tokens
    <3> QED
      BY <1>1, <3>1 DEF Chained, NoLink
  <2>4. ~Serving(b)
    BY <1>0, <1>3 DEF BlockDone, Reporting, UndisturbedFiring, OneIdleBlock, Ownership
  <2>5. \A x \in Blocks : x # b => flags'[x] = flags[x]
    BY <1>0, <1>3 DEF BlockDone, TypeOK
  <2> QED
    BY <1>1, <2>1, <2>3, <2>4, <2>5, AllocIsSent DEF Serving
<1>4. ASSUME NEW c \in Channels, DmaDone(c) PROVE ChainInv'
  <2>1. /\ UNCHANGED <<bactor, rnd, link>> /\ isr' # "launch"
        /\ chan' = [chan EXCEPT ![c] = FreeChan]
    BY <1>1, <1>4 DEF DmaDone, LoadDone, ResultLate, ResultNext, Arrives, blkVars, isrVars
  <2>2. \A x \in Channels, b \in Blocks : chan'[x].blk = b => x # c /\ chan'[x] = chan[x]
    BY <1>0, <2>1, SizeAssumption DEF TypeOK, FreeChan
  <2>3. \A b \in Blocks : "RESULT" \in flags'[b] => "RESULT" \in flags[b]
    BY <1>0, <1>4 DEF DmaDone, LoadDone, ResultLate, ResultNext, Release, blkVars, TypeOK
  <2> QED
    BY <1>1, <2>1, <2>2, <2>3
<1> QED
  BY <1>2, <1>3, <1>4

LEMMA StepChainInv ==
  ASSUME UndisturbedFiring
  PROVE  BaseInv /\ ChainInv /\ [Next]_vars => ChainInv'
<1>1. ASSUME ChainInv, UNCHANGED vars PROVE ChainInv'
  BY <1>1 DEF vars, blkVars, dmaVars, mainVars, isrVars, ChainInv
<1> QED
  BY <1>1, MainChainInv, HandlerChainInv, InterruptChainInv DEF Next

LEMMA StepBaseInv ==
  ASSUME UndisturbedFiring PROVE BaseInv /\ [Next]_vars => BaseInv'
  BY StepOwnInv, StepTokenInv DEF BaseInv, UndisturbedFiring

-----------------------------------------------------------------------------
(* Labels.  A result that a block does not return becomes a pseudo token,  *)
(* and an actor whose first input is a pseudo token is skipped.  Whether a *)
(* fifo carries pseudo tokens depends on the graph alone, so an actor is   *)
(* either always skipped or never.                                         *)
Mute(S, e) == e.src # Host /\ (e.src \in S \/ ~(e.res < RATEMATCH_NUM))
Skipped    == UNION {S \in SUBSET Actors : \A a \in S : Mute(S, In0(a))}

LEMMA SkippedIs ==
  ASSUME NEW a \in Actors PROVE a \in Skipped <=> Mute(Skipped, In0(a))
<1>1. ASSUME NEW x \in Skipped PROVE x \in Actors /\ Mute(Skipped, In0(x))
  <2>1. PICK S \in SUBSET Actors : x \in S /\ \A y \in S : Mute(S, In0(y))
    BY DEF Skipped
  <2>2. S \subseteq Skipped
    BY <2>1 DEF Skipped
  <2> QED
    BY <2>1, <2>2 DEF Mute
<1>2. ASSUME Mute(Skipped, In0(a)) PROVE a \in Skipped
  <2> DEFINE S == Skipped \cup {a}
  <2>1. S \in SUBSET Actors
    BY <1>1
  <2>2. \A x \in S : Mute(S, In0(x))
    BY <1>1, <1>2 DEF Mute
  <2> HIDE DEF S
  <2>3. S \subseteq Skipped
    BY <2>1, <2>2 DEF Skipped
  <2> QED
    BY <2>3 DEF S
<1> QED
  BY <1>1, <1>2

(* What ready_search and scheduler_pass_result do to a fifo, by position.  *)
LEMMA PutAt ==
  ASSUME NEW q \in Seq(Token), NEW t \in Token, NEW i \in DOMAIN put_token(q, t)
  PROVE  \/ i \in DOMAIN q /\ put_token(q, t)[i] = q[i]
         \/ i = Len(q) + 1 /\ put_token(q, t)[i] = t
  BY DEF put_token

LEMMA PopAt ==
  ASSUME TypeOK, NEW a, actor_ready(a), NEW e \in Edges, NEW i \in DOMAIN Pop(a, fifo)[e]
  PROVE  /\ e.snk = a => i + 1 \in DOMAIN fifo[e] /\ Pop(a, fifo)[e][i] = fifo[e][i + 1]
         /\ e.snk # a => i \in DOMAIN fifo[e] /\ Pop(a, fifo)[e][i] = fifo[e][i]
<1>1. fifo[e] \in Seq(Token)
  BY DEF TypeOK
<1>2. CASE e.snk = a
  <2>1. fifo[e] # <<>> /\ Pop(a, fifo)[e] = Tail(fifo[e])
    BY <1>2 DEF actor_ready, In, fifo_empty, Pop
  <2> QED
    BY <1>1, <1>2, <2>1
<1>3. CASE e.snk # a
  BY <1>3 DEF Pop
<1> QED
  BY <1>2, <1>3

(* The token of a result: real if the block returned it. *)
LEMMA SentToken ==
  ASSUME NEW a \in Actors, NEW n \in Rounds, NEW e \in Out(a)
  PROVE  /\ Sent(a, n) \in Tokens /\ Head(Sent(a, n)).rnd = n
         /\ ResultToken(a, Sent(a, n), e.res) \in Token
         /\ ResultToken(a, Sent(a, n), e.res) =
              IF e.res < RATEMATCH_NUM THEN Real(a, e.res, n) ELSE Pseudo(a, e.res, n)
<1> DEFINE m == Cardinality(ReturnedOf(a))
           toks == Sent(a, n)
<1>1. /\ m \in Nat \ {0} /\ ReturnedOf(a) = 0..(m - 1) /\ m <= RATEMATCH_NUM
      /\ \A i \in 1..m : i - 1 \in ResultIds
  BY ReturnedOfActor
<1> HIDE DEF m
<1>2. toks = [i \in 1..m |-> Real(a, i - 1, n)]
  BY DEF Sent, m
<1>3. \A i \in 1..m : Real(a, i - 1, n) \in Token
  BY <1>1, TokenTypes
<1>4. toks \in Seq(Token) /\ Len(toks) = m /\ \A i \in 1..m : toks[i] = Real(a, i - 1, n)
  BY <1>1, <1>2, <1>3
<1>5. toks \in Tokens
  BY <1>1, <1>4, EmptySeq DEF Tokens
<1>6. Head(toks).rnd = n
  <2>1. Head(toks) = Real(a, 1 - 1, n)
    BY <1>1, <1>4
  <2> QED
    BY <2>1 DEF Real
<1>7. e \in Edges /\ e.src = a /\ e.res \in Nat /\ e.res \in Results(a)
  BY EdgeTypes DEF Out, Results
<1>8. e.res < RATEMATCH_NUM <=> e.res < m
  <2>1. e.res < RATEMATCH_NUM <=> e.res \in ReturnedOf(a)
    BY <1>7 DEF ReturnedOf
  <2> QED
    BY <1>1, <1>7, <2>1
<1>9. e.res < m => toks[e.res + 1] = Real(a, e.res, n)
  <2>1. e.res < m => e.res + 1 \in 1..m /\ (e.res + 1) - 1 = e.res
    BY <1>1, <1>7
  <2> QED
    BY <1>4, <2>1
<1>10. ResultToken(a, toks, e.res) = IF e.res < RATEMATCH_NUM THEN Real(a, e.res, n) ELSE Pseudo(a, e.res, n)
  BY <1>4, <1>6, <1>8, <1>9 DEF ResultToken
<1>11. ResultToken(a, toks, e.res) \in Token
  BY <1>5, <1>7, EdgeTypes, ResultTokenType
<1> QED
  BY <1>5, <1>6, <1>10, <1>11

Fits(e, t)     == t.src = e.src /\ t.res = e.res /\ (t.real <=> ~Mute(Skipped, e))
TaskFits(t)    == /\ t.actor \notin Skipped
                  /\ \A d \in t.deps : \E e \in In(t.actor) : e.inp = d.inp /\ Fits(e, d.tok)
IsSent(a, p)   == \E n \in Rounds : p.toks = Sent(a, n)

FifosFit   == \A e \in Edges : \A i \in DOMAIN fifo[e] : Fits(e, fifo[e][i])
ReadyFits  == \A i \in DOMAIN ready : TaskFits(ready[i])
FiresFit   == \A a \in Actors : fire[a] # <<>> => a \notin Skipped
LingersFit == \A a \in Actors : \A i \in DOMAIN linger[a] : IsSent(a, linger[a][i])
RestFits   == isr = "scan" => \A i \in DOMAIN rest : IsSent(bactor[iblk], rest[i])

LabelInv == FifosFit /\ ReadyFits /\ FiresFit /\ LingersFit /\ RestFits

LEMMA PassFits ==
  ASSUME TypeOK, FifosFit, FiresFit, NEW a \in Actors, fire[a] # <<>>,
         NEW p, IsSent(a, p), scheduler_pass_result(a, p.toks)
  PROVE  FifosFit' /\ FiresFit'
<1>1. PICK n \in Rounds : p.toks = Sent(a, n)
  BY DEF IsSent
<1>2. ASSUME NEW e \in Edges, NEW i \in DOMAIN fifo'[e] PROVE Fits(e, fifo'[e][i])
  <2>0. fifo[e] \in Seq(Token)
    BY DEF TypeOK
  <2>1. CASE e.src = a
    <3> DEFINE t == ResultToken(a, p.toks, e.res)
    <3>1. fifo'[e] = put_token(fifo[e], t)
      BY <2>1 DEF scheduler_pass_result
    <3>2. /\ t \in Token
          /\ t = IF e.res < RATEMATCH_NUM THEN Real(a, e.res, n) ELSE Pseudo(a, e.res, n)
      BY <1>1, <2>1, SentToken DEF Out
    <3>3. Fits(e, t)
      <4>1. a # Host /\ a \notin Skipped
        BY DagAssumption DEF FiresFit
      <4> QED
        BY <2>1, <3>2, <4>1 DEF Fits, Mute, Real, Pseudo
    <3> HIDE DEF t
    <3>4. (i \in DOMAIN fifo[e] /\ fifo'[e][i] = fifo[e][i]) \/ fifo'[e][i] = t
      BY <1>2, <2>0, <3>1, <3>2, PutAt
    <3> QED
      BY <3>3, <3>4 DEF FifosFit
  <2>2. CASE e.src # a
    BY <1>2, <2>2 DEF scheduler_pass_result, FifosFit
  <2> QED
    BY <2>1, <2>2
<1>3. FiresFit'
  BY DEF scheduler_pass_result, FiresFit, TypeOK
<1> QED
  BY <1>2, <1>3 DEF FifosFit

(* Which variables the labels depend on. *)
LEMMA LabelFrame ==
  ASSUME LabelInv, UNCHANGED <<fifo, ready, fire, linger>>,
         isr' = "scan" => UNCHANGED <<isr, rest, iblk, bactor>>
  PROVE  LabelInv'
  BY DEF LabelInv, FifosFit, ReadyFits, FiresFit, LingersFit, RestFits, TaskFits

LEMMA MainLabelInv == ASSUME BaseInv, LabelInv, Main PROVE LabelInv'
<1>0. TypeOK /\ LoopState
  BY BaseTypes
<1>1. CASE Poll \/ Select \/ inform_dma \/ inform_dma_last
  BY <1>1, LabelFrame DEF Poll, Select, inform_dma, inform_dma_last, Loop, dagVars, isrVars
<1>2. CASE actor_fire
  <2>1. /\ isr = "none" /\ isr' = isr /\ UNCHANGED <<fifo, ready, linger>>
        /\ actor \in Actors /\ sel \in DOMAIN ready /\ ready[sel].actor = actor
        /\ fire' = [fire EXCEPT ![actor] = Append(@, block)]
    BY <1>0, <1>2 DEF actor_fire, Loop, LoopState, BaseInv, TokenInv, SelectInv, isrVars
  <2>2. actor \notin Skipped
    BY <2>1 DEF LabelInv, ReadyFits, TaskFits
  <2>3. FiresFit'
    BY <1>0, <2>1, <2>2 DEF LabelInv, FiresFit, TypeOK
  <2> QED
    BY <2>1, <2>3 DEF LabelInv, FifosFit, ReadyFits, LingersFit, RestFits
<1>3. CASE ready_free
  <2>1. /\ isr = "none" /\ isr' = isr /\ UNCHANGED <<fifo, fire, linger>>
        /\ sel \in DOMAIN ready /\ ready' = RemoveEntry(ready, sel)
        /\ ready \in Seq(ReadyTask)
    BY <1>0, <1>3 DEF ready_free, Loop, LoopState, isrVars, TypeOK
  <2>2. \A i \in DOMAIN ready' : \E j \in DOMAIN ready : ready'[i] = ready[j]
    <3>1. /\ DOMAIN ready' = 1..(Len(ready) - 1)
          /\ \A i \in 1..(Len(ready) - 1) : ready'[i] = IF i < sel THEN ready[i] ELSE ready[i + 1]
      BY <2>1, RemoveEntryIs
    <3>2. DOMAIN ready = 1..Len(ready) /\ Len(ready) \in Nat
      BY <2>1
    <3>3. \A i \in 1..(Len(ready) - 1) : i \in 1..Len(ready) /\ i + 1 \in 1..Len(ready)
      BY <3>2
    <3> QED
      BY <3>1, <3>2, <3>3
  <2>3. ReadyFits'
    BY <2>2 DEF LabelInv, ReadyFits
  <2> QED
    BY <2>1, <2>3 DEF LabelInv, FifosFit, FiresFit, LingersFit, RestFits
<1> QED
  BY <1>1, <1>2, <1>3 DEF Main

LEMMA SearchLabelInv ==
  ASSUME BaseInv, LabelInv, SearchTask \/ SearchPseudo PROVE LabelInv'
<1>0. TypeOK /\ TypeInv
  BY BaseTypes
<1> PICK a : a = Found
  OBVIOUS
<1> DEFINE e0 == In0(a)
<1>1. /\ a \in Actors /\ actor_ready(a) /\ a # Host
      /\ UNCHANGED <<fire, linger, isr>> /\ isr = "search"
  BY <1>0, SearchTakes, DagAssumption DEF BaseInv, SearchTask, SearchPseudo, Searching
<1>2. e0 \in In(a) /\ e0 \in Edges /\ e0.snk = a /\ In(a) \subseteq Edges
  BY <1>0, FoundIsActor DEF In
<1>3. \A e \in In(a) : Head(fifo[e]) \in Token /\ Fits(e, Head(fifo[e]))
  <2> TAKE e \in In(a)
  <2>1. fifo[e] \in Seq(Token) /\ fifo[e] # <<>>
    BY <1>0, <1>1, <1>2 DEF TypeOK, actor_ready, fifo_empty
  <2>2. Head(fifo[e]) = fifo[e][1] /\ 1 \in DOMAIN fifo[e] /\ Head(fifo[e]) \in Token
    BY <2>1
  <2> QED
    BY <1>2, <2>2 DEF LabelInv, FifosFit
<1>4. Head(fifo[e0]).real <=> a \notin Skipped
  BY <1>1, <1>2, <1>3, SkippedIs DEF Fits
<1>5. \A e \in Edges : \A i \in DOMAIN Pop(a, fifo)[e] : Fits(e, Pop(a, fifo)[e][i])
  <2> TAKE e \in Edges
  <2> TAKE i \in DOMAIN Pop(a, fifo)[e]
  <2>1. \E j \in DOMAIN fifo[e] : Pop(a, fifo)[e][i] = fifo[e][j]
    BY <1>0, <1>1, PopAt
  <2> QED
    BY <2>1 DEF LabelInv, FifosFit
<1>6. CASE SearchTask
  <2> DEFINE t == [actor |-> a, deps |-> {d \in Inputs(a) : d.tok.real}]
  <2>1. fifo' = Pop(a, fifo) /\ ready' = Append(ready, t) /\ Head(fifo[e0]).real
    BY <1>6 DEF SearchTask
  <2>2. TaskFits(t)
    <3>1. \A d \in t.deps : \E e \in In(a) : e.inp = d.inp /\ Fits(e, d.tok)
      BY <1>3 DEF Inputs
    <3> QED
      BY <1>4, <2>1, <3>1 DEF TaskFits
  <2> HIDE DEF t
  <2>3. ReadyFits'
    <3>1. ready \in Seq(ReadyTask)
      BY <1>0 DEF TypeOK
    <3>2. \A i \in DOMAIN ready' : ready'[i] = t \/ (i \in DOMAIN ready /\ ready'[i] = ready[i])
      BY <2>1, <3>1
    <3> QED
      BY <2>2, <3>2 DEF LabelInv, ReadyFits
  <2>4. FifosFit'
    BY <1>5, <2>1 DEF FifosFit
  <2> QED
    BY <1>1, <2>3, <2>4 DEF LabelInv, FiresFit, LingersFit, RestFits
<1>7. CASE SearchPseudo
  <2> DEFINE n == Head(fifo[e0]).rnd
  <2>1. /\ ready' = ready /\ ~Head(fifo[e0]).real
        /\ fifo' = [e \in Edges |->
                      IF e.src = a THEN put_token(Pop(a, fifo)[e], Pseudo(a, e.res, n))
                      ELSE Pop(a, fifo)[e]]
    BY <1>7 DEF SearchPseudo
  <2>2. n \in Rounds
    <3>1. Head(fifo[e0]) \in Token
      BY <1>2, <1>3
    <3> QED
      BY <3>1 DEF Token
  <2> HIDE DEF n
  <2>3. ASSUME NEW e \in Edges, NEW i \in DOMAIN fifo'[e] PROVE Fits(e, fifo'[e][i])
    <3>1. CASE e.src = a
      <4> DEFINE t == Pseudo(a, e.res, n)
                 q == Pop(a, fifo)[e]
      <4>1. t \in Token /\ q \in Seq(Token)
        BY <1>0, <1>1, <2>2, EdgeTypes, TokenTypes, PopLength
      <4>2. Fits(e, t)
        BY <1>1, <1>4, <2>1, <3>1 DEF Fits, Mute, Pseudo
      <4>3. fifo'[e] = put_token(q, t)
        BY <2>1, <3>1
      <4>4. \A j \in DOMAIN q : Fits(e, q[j])
        BY <1>5
      <4> HIDE DEF t, q
      <4>5. fifo'[e][i] = t \/ \E j \in DOMAIN q : fifo'[e][i] = q[j]
        BY <2>3, <4>1, <4>3, PutAt
      <4> QED
        BY <4>2, <4>4, <4>5
    <3>2. CASE e.src # a
      BY <1>5, <2>1, <2>3, <3>2
    <3> QED
      BY <3>1, <3>2
  <2>4. FifosFit'
    BY <2>3 DEF FifosFit
  <2> QED
    BY <1>1, <2>1, <2>4 DEF LabelInv, ReadyFits, FiresFit, LingersFit, RestFits
<1> QED
  BY <1>6, <1>7

LEMMA HandlerLabelInv == ASSUME BaseInv, LabelInv, Isr PROVE LabelInv'
<1>0. TypeOK /\ HandlerState
  BY BaseTypes
<1>1. CASE BlockLaunch \/ ScanEnd \/ SearchNext
  BY <1>1, LabelFrame DEF BlockLaunch, ScanEnd, SearchNext, Searching, dagVars
<1>2. CASE ScanVisit
  <2> PICK a : a = bactor[iblk]
    OBVIOUS
  <2> PICK p : p = Head(rest)
    OBVIOUS
  <2>1. /\ isr = "scan" /\ UNCHANGED <<isr, iblk, bactor, ready>>
        /\ rest # <<>> /\ rest \in Seq(Parcel) /\ a \in Actors
        /\ linger[a] \in Seq(Parcel) /\ Len(rest) <= Len(linger[a])
    BY <1>0, <1>2 DEF ScanVisit, HandlerState, TypeOK, blkVars
  <2>2. linger[a] # <<>>
    BY <2>1
  <2>3. IsSent(a, p)
    <3>1. p = rest[1] /\ 1 \in DOMAIN rest
      BY <2>1
    <3> QED
      BY <2>1, <3>1 DEF LabelInv, RestFits
  <2>4. FifosFit' /\ FiresFit'
    <3>1. CASE p.blk = ideal
      BY <1>0, <1>2, <2>1, <2>3, <3>1, PassFits DEF ScanVisit, LabelInv
    <3>2. CASE p.blk # ideal
      BY <1>2, <3>2 DEF ScanVisit, LabelInv, FifosFit, FiresFit
    <3> QED
      BY <3>1, <3>2
  <2>5. linger' = linger \/ linger' = [linger EXCEPT ![a] = Tail(@)]
    BY <1>2 DEF ScanVisit
  <2>6. \A x \in Actors : linger'[x] = linger[x] \/ (x = a /\ linger'[x] = Tail(linger[a]))
    BY <1>0, <2>1, <2>5 DEF TypeOK
  <2>7. LingersFit'
    <3>1. \A i \in DOMAIN Tail(linger[a]) : i + 1 \in DOMAIN linger[a] /\ Tail(linger[a])[i] = linger[a][i + 1]
      BY <2>1, <2>2
    <3> QED
      BY <2>1, <2>6, <3>1 DEF LabelInv, LingersFit
  <2>8. RestFits'
    <3>1. \A i \in DOMAIN Tail(rest) : i + 1 \in DOMAIN rest /\ Tail(rest)[i] = rest[i + 1]
      BY <2>1
    <3>2. rest' = linger'[a] \/ rest' = Tail(rest)
      BY <1>2 DEF ScanVisit
    <3> QED
      BY <2>1, <2>7, <3>1, <3>2 DEF LabelInv, LingersFit, RestFits
  <2> QED
    BY <2>1, <2>4, <2>7, <2>8 DEF LabelInv, ReadyFits
<1> QED
  BY <1>1, <1>2, SearchLabelInv DEF Isr

LEMMA InterruptLabelInv ==
  ASSUME BaseInv, ChainInv, LabelInv,
         \/ \E b \in Blocks : BlockIdle(b) \/ BlockDone(b)
         \/ \E c \in Channels : DmaDone(c)
  PROVE  LabelInv'
<1>0. TypeOK /\ TypeInv
  BY BaseTypes
<1>1. CASE \E b \in Blocks : BlockIdle(b) \/ BlockDone(b)
  BY <1>1, LabelFrame DEF BlockIdle, BlockDone, Interruptible, dagVars, isrVars
<1>2. ASSUME NEW c \in Channels, LoadDone(c) PROVE LabelInv'
  BY <1>2, LabelFrame DEF LoadDone, Interruptible, isrVars
<1>3. ASSUME NEW c \in Channels, ResultLate(c) \/ ResultNext(c) PROVE LabelInv'
  <2> PICK b : b = chan[c].blk
    OBVIOUS
  <2> PICK a : a = bactor[b]
    OBVIOUS
  <2> DEFINE p == [blk |-> b, toks |-> chan[c].toks]
  <2>1. /\ Interruptible /\ Arrives(c, b) /\ b \in Blocks /\ a \in Actors
        /\ "RESULT" \in flags[b] /\ fire[a] # <<>>
    BY <1>0, <1>3, ResultsOfActor DEF ResultLate, ResultNext, Arrives
  <2>2. IsSent(a, p)
    <3>1. p.toks = Sent(a, rnd[b]) /\ rnd[b] \in Rounds
      BY <1>0, <2>1 DEF ChainInv, TypeOK
    <3> QED
      BY <3>1 DEF IsSent
  <2>3. CASE ResultLate(c)
    <3>1. /\ linger' = [linger EXCEPT ![a] = <<p>> \o @]
          /\ UNCHANGED <<fifo, ready, fire, isr>> /\ isr = "none"
      BY <2>1, <2>3 DEF ResultLate, Interruptible, isrVars
    <3> HIDE DEF p
    <3>2. linger[a] \in Seq(Parcel)
      BY <1>0, <2>1 DEF TypeOK
    <3>3. linger'[a] = <<p>> \o linger[a] /\ \A x \in Actors \ {a} : linger'[x] = linger[x]
      BY <1>0, <2>1, <3>1 DEF TypeOK
    <3>4. \A i \in DOMAIN linger'[a] :
            linger'[a][i] = p \/ \E j \in DOMAIN linger[a] : linger'[a][i] = linger[a][j]
      <4> TAKE i \in DOMAIN linger'[a]
      <4>1. i = 1 \/ (i - 1 \in DOMAIN linger[a] /\ linger'[a][i] = linger[a][i - 1])
        BY <3>2, <3>3
      <4>2. i = 1 => linger'[a][i] = p
        BY <3>2, <3>3
      <4> QED
        BY <4>1, <4>2
    <3>5. ASSUME NEW x \in Actors, NEW i \in DOMAIN linger'[x] PROVE IsSent(x, linger'[x][i])
      <4>1. CASE x = a
        <5>1. linger'[a][i] = p \/ \E j \in DOMAIN linger[a] : linger'[a][i] = linger[a][j]
          BY <3>4, <3>5, <4>1
        <5>2. \A j \in DOMAIN linger[a] : IsSent(a, linger[a][j])
          BY <2>1 DEF LabelInv, LingersFit
        <5> QED
          BY <2>2, <4>1, <5>1, <5>2
      <4>2. CASE x # a
        BY <3>3, <3>5, <4>2 DEF LabelInv, LingersFit
      <4> QED
        BY <4>1, <4>2
    <3>6. LingersFit'
      <4>1. \A x \in Actors : \A i \in DOMAIN linger'[x] : IsSent(x, linger'[x][i])
        BY <3>5
      <4> QED
        BY <4>1 DEF LingersFit, IsSent
    <3> QED
      BY <3>1, <3>6 DEF LabelInv, FifosFit, ReadyFits, FiresFit, RestFits
  <2>4. CASE ResultNext(c)
    <3>1. /\ scheduler_pass_result(a, p.toks) /\ rest' = linger[a] /\ iblk' = b
          /\ UNCHANGED <<ready, linger, bactor>>
      BY <2>4 DEF ResultNext, blkVars
    <3> HIDE DEF p
    <3>2. FifosFit' /\ FiresFit'
      BY <1>0, <2>1, <2>2, <3>1, PassFits DEF LabelInv
    <3> QED
      BY <2>1, <3>1, <3>2 DEF LabelInv, ReadyFits, LingersFit, RestFits
  <2> QED
    BY <1>3, <2>3, <2>4
<1> QED
  BY <1>1, <1>2, <1>3 DEF DmaDone

LEMMA StepLabelInv == BaseInv /\ ChainInv /\ LabelInv /\ [Next]_vars => LabelInv'
<1>1. ASSUME LabelInv, UNCHANGED vars PROVE LabelInv'
  BY <1>1, LabelFrame DEF vars, dagVars, blkVars, isrVars
<1> QED
  BY <1>1, MainLabelInv, HandlerLabelInv, InterruptLabelInv DEF Next
=============================================================================
