------------------------ MODULE SchedulerOrderProofs ------------------------
(***************************************************************************)
(* Theorems about the order of packets in Scheduler: tokens wait, tasks    *)
(* are fired and results are passed on in the order of their packets, so   *)
(* that inputs match, the scheduler implements Dataflow, and, at the end,  *)
(* reference counts are exact.  For every graph and every number of        *)
(* blocks, with at most two packets.                                       *)
(***************************************************************************)
EXTENDS SchedulerProofs

(* A third packet could leave two results in a linger_list, which          *)
(* check_if_done may then remove in the wrong order.                       *)
FewPackets == NUM_PACKET <= 2

(* The packet of a task, as actor_fire takes it. *)
Packetof(t) == (CHOOSE d \in t.deps : d.inp = 0).tok.rnd

(* The packets an actor has started to work on. *)
Begun(a) == Len(done[a]) + Len(fire[a])

DoneInOrder  == \A a \in Actors : \A i \in DOMAIN done[a] : done[a][i] = i
FifosInOrder == \A e \in Edges : e.snk \in Actors =>
                  \A i \in DOMAIN fifo[e] : fifo[e][i].rnd = Taken(e.snk) + i
TasksMatch   == \A i \in DOMAIN ready : \A d \in ready[i].deps : d.tok.rnd = Packetof(ready[i])
TasksInOrder(a) ==
  /\ \A i \in Pending(a) : Packetof(ready[i]) \in (Begun(a) + 1)..Taken(a)
  /\ \A i, j \in Pending(a) : i < j => Packetof(ready[i]) < Packetof(ready[j])
  /\ \A n \in (Begun(a) + 1)..Taken(a) : \E i \in Pending(a) : Packetof(ready[i]) = n

PacketInv == DoneInOrder /\ FifosInOrder /\ TasksMatch /\ \A a \in Actors : TasksInOrder(a)

(* The loop fires the oldest task of the actor it selected. *)
OldestSelected == pc = "fire" => \A i \in DOMAIN ready : ready[i].actor = actor => sel <= i

-----------------------------------------------------------------------------
LEMMA PacketFrame ==
  ASSUME PacketInv, UNCHANGED <<fifo, ready, fire, done>>, \A i : Fired(i)' <=> Fired(i)
  PROVE  PacketInv'
<1>1. \A a : Pending(a)' = Pending(a)
  BY DEF Pending
<1>2. \A a : Taken(a)' = Taken(a) /\ Begun(a)' = Begun(a)
  BY <1>1 DEF Taken, Begun
<1>3. DoneInOrder' /\ TasksMatch'
  BY DEF PacketInv, DoneInOrder, TasksMatch
<1>4. FifosInOrder'
  BY <1>2 DEF PacketInv, FifosInOrder
<1>5. ASSUME NEW a \in Actors PROVE TasksInOrder(a)'
  BY <1>1, <1>2 DEF PacketInv, TasksInOrder
<1> QED
  BY <1>3, <1>4, <1>5 DEF PacketInv

LEMMA BegunType ==
  ASSUME TypeOK, NEW a \in Actors
  PROVE  Begun(a) \in Nat /\ Taken(a) \in Nat /\ Begun(a) <= Taken(a)
<1> DEFINE f == Len(fire[a])
           d == Len(done[a])
<1>1. Taken(a) \in Nat /\ f \in Nat /\ d \in Nat /\ f + d <= Taken(a)
  BY TakenType
<1>2. Begun(a) = d + f
  BY DEF Begun
<1> HIDE DEF f, d
<1> QED
  BY <1>1, <1>2

(* A firing begins, a begun one is passed on, an actor is skipped. *)
LEMMA BegunBy ==
  ASSUME TypeOK, NEW a \in Actors
  PROVE  /\ Len(fire'[a]) = Len(fire[a]) + 1 /\ done'[a] = done[a] => Begun(a)' = Begun(a) + 1
         /\ Len(fire'[a]) = Len(fire[a]) - 1 /\ Len(done'[a]) = Len(done[a]) + 1
              => Begun(a)' = Begun(a)
         /\ fire'[a] = fire[a] /\ Len(done'[a]) = Len(done[a]) + 1 => Begun(a)' = Begun(a) + 1
<1> DEFINE lf == Len(fire[a])
           ld == Len(done[a])
           mf == Len(fire'[a])
           md == Len(done'[a])
<1>1. lf \in Nat /\ ld \in Nat
  BY TakenType
<1>2. Begun(a) = ld + lf /\ Begun(a)' = md + mf
  BY DEF Begun
<1>3. (fire'[a] = fire[a] => mf = lf) /\ (done'[a] = done[a] => md = ld)
  OBVIOUS
<1> HIDE DEF lf, ld, mf, md
<1>4. /\ mf = lf + 1 /\ md = ld => Begun(a)' = Begun(a) + 1
      /\ mf = lf - 1 /\ md = ld + 1 => Begun(a)' = Begun(a)
      /\ mf = lf /\ md = ld + 1 => Begun(a)' = Begun(a) + 1
  BY <1>1, <1>2
<1> QED
  BY <1>3, <1>4 DEF lf, ld, mf, md

(* The order of the packets of an actor's tasks depends on little. *)
LEMMA TasksFrame ==
  ASSUME NEW a \in Actors, TasksInOrder(a), UNCHANGED ready,
         Pending(a)' = Pending(a), Taken(a)' = Taken(a), Begun(a)' = Begun(a)
  PROVE  TasksInOrder(a)'
  BY DEF TasksInOrder

(* Results are passed on in the order of their packets if each pass is for *)
(* the next one.                                                           *)
LEMMA PassInOrder ==
  ASSUME TokenInv, PacketInv, NEW a \in Actors, fire[a] # <<>>,
         NEW n \in Rounds, n = Len(done[a]) + 1,
         scheduler_pass_result(a, Sent(a, n)), UNCHANGED <<ready, pc, sel>>
  PROVE  PacketInv'
<1> DEFINE toks == Sent(a, n)
<1>1. toks \in Tokens /\ Head(toks).rnd = n
  <2>1. PICK e \in Out(a) : TRUE
    BY DagAssumption
  <2> QED
    BY <2>1, SentToken
<1>2. TypeOK
  BY DEF TokenInv, SelectInv, TypeInv
<1>3. \A x \in Actors : Taken(x)' = Taken(x)
  BY <1>1, PassCounts
<1>4. /\ done' = [done EXCEPT ![a] = Append(@, n)]
      /\ fire' = [fire EXCEPT ![a] = Tail(@)]
      /\ \A x \in Actors : done[x] \in Seq(Rounds) /\ fire[x] \in Seq(Blocks)
  BY <1>1, <1>2 DEF scheduler_pass_result, TypeOK
<1>5. DoneInOrder'
  <2> SUFFICES ASSUME NEW x \in Actors, NEW i \in DOMAIN done'[x] PROVE done'[x][i] = i
    BY DEF DoneInOrder
  <2>1. CASE x = a
    <3>1. done'[x] = Append(done[a], n) /\ done[a] \in Seq(Rounds)
      BY <1>2, <1>4, <2>1 DEF TypeOK
    <3>2. \/ i \in DOMAIN done[a] /\ done'[x][i] = done[a][i]
          \/ i = n /\ done'[x][i] = n
      BY <3>1
    <3> QED
      BY <3>2 DEF PacketInv, DoneInOrder
  <2>2. CASE x # a
    BY <1>2, <1>4, <2>2 DEF TypeOK, PacketInv, DoneInOrder
  <2> QED
    BY <2>1, <2>2
<1>6. FifosInOrder'
  <2> SUFFICES ASSUME NEW e \in Edges, e.snk \in Actors, NEW i \in DOMAIN fifo'[e]
               PROVE  fifo'[e][i].rnd = Taken(e.snk) + i
    BY <1>3 DEF FifosInOrder
  <2>1. \A j \in DOMAIN fifo[e] : fifo[e][j].rnd = Taken(e.snk) + j
    BY DEF PacketInv, FifosInOrder
  <2>2. CASE e.src = a
    <3> DEFINE t == ResultToken(a, toks, e.res)
    <3>1. fifo'[e] = put_token(fifo[e], t)
      BY <2>2 DEF scheduler_pass_result
    <3>2. t \in Token /\ t.rnd = n
      <4>1. /\ t \in Token
            /\ t = IF e.res < RATEMATCH_NUM THEN Real(a, e.res, n) ELSE Pseudo(a, e.res, n)
        BY <2>2, SentToken DEF Out
      <4> HIDE DEF t
      <4> QED
        BY <4>1 DEF Real, Pseudo
    <3> HIDE DEF t
    <3>3. n = Taken(e.snk) + (Len(fifo[e]) + 1)
      <4>1. Given(e) = Len(done[a])
        BY <2>2, DagAssumption DEF Given
      <4>2. Given(e) = Len(fifo[e]) + Taken(e.snk)
        BY DEF TokenInv, Conserved
      <4>3. Taken(e.snk) \in Nat
        BY <1>2, TakenType
      <4>4. fifo[e] \in Seq(Token)
        BY <1>2 DEF TypeOK
      <4> QED
        BY <4>1, <4>2, <4>3, <4>4
    <3>4. fifo[e] \in Seq(Token)
      BY <1>2 DEF TypeOK
    <3>5. \/ i \in DOMAIN fifo[e] /\ fifo'[e][i] = fifo[e][i]
          \/ i = Len(fifo[e]) + 1 /\ fifo'[e][i] = t
      BY <3>1, <3>2, <3>4, PutAt
    <3> QED
      BY <2>1, <3>2, <3>3, <3>5
  <2>3. CASE e.src # a
    BY <2>1, <2>3 DEF scheduler_pass_result
  <2> QED
    BY <2>2, <2>3
<1>7. TasksMatch'
  BY DEF PacketInv, TasksMatch
<1>8. ASSUME NEW x \in Actors PROVE TasksInOrder(x)'
  <2>1. Pending(x)' = Pending(x)
    BY DEF Pending, Fired
  <2>2. Begun(x)' = Begun(x)
    <3>1. CASE x = a
      <4>1. fire'[x] = Tail(fire[a]) /\ done'[x] = Append(done[a], n)
        BY <1>2, <1>4, <3>1 DEF TypeOK
      <4>2. fire[a] \in Seq(Blocks) /\ fire[a] # <<>> /\ done[a] \in Seq(Rounds)
        BY <1>4
      <4>3. Len(fire'[x]) = Len(fire[x]) - 1 /\ Len(done'[x]) = Len(done[x]) + 1
        BY <3>1, <4>1, <4>2
      <4> QED
        BY <1>2, <4>3, BegunBy
    <3>2. CASE x # a
      BY <1>2, <1>4, <3>2 DEF TypeOK, Begun
    <3> QED
      BY <3>1, <3>2
  <2> QED
    BY <1>3, <2>1, <2>2, TasksFrame DEF PacketInv
<1> QED
  BY <1>5, <1>6, <1>7, <1>8 DEF PacketInv

(* actor_fire takes the next packet of the actor. *)
LEMMA FireInOrder ==
  ASSUME TokenInv, PacketInv, OldestSelected, actor_fire
  PROVE  /\ PacketInv'
         /\ actor \in Actors /\ sel \in Pending(actor) /\ ready[sel].actor = actor
         /\ Packetof(ready[sel]) = Begun(actor) + 1
         /\ Begun(actor) + 1 <= Taken(actor)
<1> PICK a : a = actor
  OBVIOUS
<1>1. /\ pc = "fire" /\ pc' = "link" /\ UNCHANGED <<ready, sel, done, fifo>>
      /\ sel \in DOMAIN ready /\ ready[sel].actor = a /\ a \in Actors
      /\ fire' = [fire EXCEPT ![a] = Append(@, block)]
      /\ block \in Blocks /\ TypeOK
  BY DEF actor_fire, Loop, LoopState, TokenInv, SelectInv, TypeInv
<1>2. sel \in Pending(a) /\ \A i \in Pending(a) : sel <= i
  BY <1>1 DEF OldestSelected, Pending, Fired
<1>3. Begun(a) \in Nat /\ Taken(a) \in Nat
  BY <1>1, BegunType
<1>4. TasksInOrder(a)
  BY <1>1 DEF PacketInv
<1>5. Packetof(ready[sel]) = Begun(a) + 1 /\ Begun(a) + 1 <= Taken(a)
  <2>1. Packetof(ready[sel]) \in (Begun(a) + 1)..Taken(a)
    BY <1>2, <1>4 DEF TasksInOrder
  <2>2. Begun(a) + 1 \in (Begun(a) + 1)..Taken(a)
    BY <1>3, <2>1
  <2>3. PICK i \in Pending(a) : Packetof(ready[i]) = Begun(a) + 1
    BY <1>4, <2>2 DEF TasksInOrder
  <2>4. sel < i => Packetof(ready[sel]) < Packetof(ready[i])
    BY <1>2, <1>4 DEF TasksInOrder
  <2>5. sel = i \/ sel < i
    <3>1. sel \in Nat /\ i \in Nat
      BY <1>1 DEF Pending, TypeOK
    <3> QED
      BY <1>2, <3>1
  <2> QED
    BY <1>3, <2>1, <2>3, <2>4, <2>5
<1>6. \A x \in Actors : Taken(x)' = Taken(x)
  BY TakenByFire DEF TokenInv
<1>7. DoneInOrder' /\ TasksMatch' /\ FifosInOrder'
  BY <1>1, <1>6 DEF PacketInv, DoneInOrder, TasksMatch, FifosInOrder
<1>8. ASSUME NEW x \in Actors PROVE TasksInOrder(x)'
  <2>1. CASE x = a
    <3>1. Pending(a)' = Pending(a) \ {sel}
      BY <1>1, <2>1 DEF Pending, Fired
    <3>2. Begun(a)' = Begun(a) + 1
      <4>1. fire[a] \in Seq(Blocks) /\ done[a] \in Seq(Rounds) /\ fire'[a] = Append(fire[a], block)
        BY <1>1 DEF TypeOK
      <4>2. Len(fire'[a]) = Len(fire[a]) + 1 /\ done'[a] = done[a]
        BY <1>1, <4>1
      <4> QED
        BY <1>1, <4>2, BegunBy
    <3>3. Taken(a)' = Taken(a)
      BY <1>1, <1>6
    <3>4. ASSUME NEW i \in Pending(a) \ {sel}
          PROVE  Packetof(ready[i]) \in (Begun(a) + 1 + 1)..Taken(a)
      <4>1. Packetof(ready[i]) \in (Begun(a) + 1)..Taken(a)
        BY <1>4 DEF TasksInOrder
      <4>2. sel < i
        <5>1. sel \in Nat /\ i \in Nat
          BY <1>1 DEF Pending, TypeOK
        <5> QED
          BY <1>2, <5>1
      <4>3. Packetof(ready[sel]) < Packetof(ready[i])
        BY <1>2, <1>4, <4>2 DEF TasksInOrder
      <4> QED
        BY <1>3, <1>5, <4>1, <4>3
    <3>5. ASSUME NEW n \in (Begun(a) + 1 + 1)..Taken(a)
          PROVE  \E i \in Pending(a) \ {sel} : Packetof(ready[i]) = n
      <4>1. n \in (Begun(a) + 1)..Taken(a) /\ n # Begun(a) + 1
        BY <1>3
      <4>2. PICK i \in Pending(a) : Packetof(ready[i]) = n
        BY <1>4, <4>1 DEF TasksInOrder
      <4> QED
        BY <1>5, <4>1, <4>2
    <3>6. \A i, j \in Pending(a) : i < j => Packetof(ready[i]) < Packetof(ready[j])
      BY <1>4 DEF TasksInOrder
    <3> QED
      BY <1>1, <2>1, <3>1, <3>2, <3>3, <3>4, <3>5, <3>6 DEF TasksInOrder
  <2>2. CASE x # a
    <3>1. Pending(x)' = Pending(x)
      BY <1>1, <2>2 DEF Pending, Fired
    <3>2. Begun(x)' = Begun(x)
      BY <1>1, <2>2 DEF Begun, TypeOK
    <3> QED
      BY <1>1, <1>6, <3>1, <3>2, TasksFrame DEF PacketInv
  <2> QED
    BY <2>1, <2>2
<1> QED
  BY <1>1, <1>2, <1>5, <1>7, <1>8 DEF PacketInv

(* ready_free moves the entries behind the fired one; their order stays.   *)
LEMMA FreeInOrder == ASSUME TokenInv, PacketInv, ready_free PROVE PacketInv'
<1>1. /\ pc = "free" /\ pc' = "poll" /\ ready' = RemoveEntry(ready, sel)
      /\ UNCHANGED <<fifo, fire, done>>
      /\ sel \in DOMAIN ready /\ ready \in Seq(ReadyTask) /\ sel \in Nat /\ Len(ready) \in Nat
      /\ DOMAIN ready = 1..Len(ready)
  BY DEF ready_free, Loop, LoopState, TokenInv, SelectInv, TypeInv, TypeOK
<1> DEFINE old(i) == IF i < sel THEN i ELSE i + 1
<1>2. /\ DOMAIN ready' = 1..(Len(ready) - 1)
      /\ \A i \in 1..(Len(ready) - 1) : ready'[i] = ready[old(i)]
  <2>1. \A i \in 1..(Len(ready) - 1) : ready'[i] = IF i < sel THEN ready[i] ELSE ready[i + 1]
    BY <1>1, RemoveEntryIs
  <2> QED
    BY <1>1, <2>1, RemoveEntryIs
<1>3. \A i \in DOMAIN ready' : old(i) \in DOMAIN ready /\ old(i) # sel /\ ready'[i] = ready[old(i)]
  BY <1>1, <1>2
<1>4. \A j \in DOMAIN ready : j # sel => \E i \in DOMAIN ready' : old(i) = j
  <2> SUFFICES ASSUME NEW j \in DOMAIN ready, j # sel PROVE \E i \in DOMAIN ready' : old(i) = j
    OBVIOUS
  <2>1. CASE j < sel
    <3>1. j \in DOMAIN ready' /\ old(j) = j
      BY <1>1, <1>2, <2>1
    <3> QED
      BY <3>1
  <2>2. CASE ~(j < sel)
    <3>1. j - 1 \in DOMAIN ready' /\ old(j - 1) = j
      BY <1>1, <1>2, <2>2
    <3> QED
      BY <3>1
  <2> QED
    BY <2>1, <2>2
<1>5. \A i, j \in DOMAIN ready' : i < j => old(i) < old(j)
  BY <1>1, <1>2
<1> HIDE DEF old
<1>6. \A a \in Actors : Taken(a)' = Taken(a) /\ Begun(a)' = Begun(a)
  BY <1>1, TakenByFree DEF TokenInv, SelectInv, Begun
<1>7. DoneInOrder' /\ FifosInOrder'
  BY <1>1, <1>6 DEF PacketInv, DoneInOrder, FifosInOrder
<1>8. TasksMatch'
  BY <1>3 DEF PacketInv, TasksMatch
<1>9. ASSUME NEW a \in Actors PROVE TasksInOrder(a)'
  <2>1. TasksInOrder(a)
    BY DEF PacketInv
  <2>2. \A i \in Pending(a)' : i \in DOMAIN ready' /\ old(i) \in Pending(a) /\ ready'[i] = ready[old(i)]
    BY <1>1, <1>3 DEF Pending, Fired
  <2>3. \A j \in Pending(a) : \E i \in Pending(a)' : old(i) = j
    <3> TAKE j \in Pending(a)
    <3>1. j \in DOMAIN ready /\ j # sel /\ ready[j].actor = a
      BY <1>1 DEF Pending, Fired
    <3>2. PICK i \in DOMAIN ready' : old(i) = j
      BY <1>4, <3>1
    <3>3. i \in Pending(a)'
      BY <1>1, <1>3, <3>1, <3>2 DEF Pending, Fired
    <3> QED
      BY <3>2, <3>3
  <2>4. ASSUME NEW i \in Pending(a)' PROVE (Packetof(ready[i]))' \in (Begun(a) + 1)..Taken(a)
    BY <2>1, <2>2 DEF TasksInOrder
  <2>5. ASSUME NEW i \in Pending(a)', NEW j \in Pending(a)', i < j
        PROVE  (Packetof(ready[i]))' < (Packetof(ready[j]))'
    BY <1>5, <2>1, <2>2, <2>5 DEF TasksInOrder
  <2>6. ASSUME NEW n \in (Begun(a) + 1)..Taken(a)
        PROVE  \E i \in Pending(a)' : (Packetof(ready[i]))' = n
    <3>1. PICK j \in Pending(a) : Packetof(ready[j]) = n
      BY <2>1 DEF TasksInOrder
    <3>2. PICK i \in Pending(a)' : old(i) = j
      BY <2>3
    <3> QED
      BY <2>2, <3>1, <3>2
  <2> QED
    BY <1>6, <2>4, <2>5, <2>6 DEF TasksInOrder
<1> QED
  BY <1>7, <1>8, <1>9 DEF PacketInv

LEMMA PacketofTask ==
  ASSUME NEW t, NEW n, \E d \in t.deps : d.inp = 0, \A d \in t.deps : d.tok.rnd = n
  PROVE  Packetof(t) = n
<1> DEFINE d == CHOOSE d \in t.deps : d.inp = 0
<1>1. d \in t.deps
  OBVIOUS
<1> QED
  BY <1>1 DEF Packetof

(* The tokens at the heads of an actor's fifos are the next packet's.      *)
LEMMA HeadsMatch ==
  ASSUME TypeOK, FifosInOrder, NEW a \in Actors, actor_ready(a), NEW e \in In(a)
  PROVE  /\ Head(fifo[e]) \in Token /\ Head(fifo[e]).rnd = Taken(a) + 1
         /\ \A i \in DOMAIN Pop(a, fifo)[e] : Pop(a, fifo)[e][i].rnd = (Taken(a) + 1) + i
<1>1. e \in Edges /\ e.snk = a /\ fifo[e] \in Seq(Token) /\ fifo[e] # <<>>
  BY DEF In, TypeOK, actor_ready, fifo_empty
<1>2. \A i \in DOMAIN fifo[e] : fifo[e][i].rnd = Taken(a) + i
  BY <1>1 DEF FifosInOrder
<1>3. 1 \in DOMAIN fifo[e] /\ Head(fifo[e]) = fifo[e][1] /\ fifo[e][1] \in Token
  BY <1>1
<1>4. Taken(a) \in Nat
  BY TakenType
<1>5. ASSUME NEW i \in DOMAIN Pop(a, fifo)[e] PROVE Pop(a, fifo)[e][i].rnd = (Taken(a) + 1) + i
  <2>1. i + 1 \in DOMAIN fifo[e] /\ Pop(a, fifo)[e][i] = fifo[e][i + 1]
    BY <1>1, PopAt
  <2>2. i \in Nat
    <3>1. Pop(a, fifo)[e] \in Seq(Token)
      BY <1>1, PopLength
    <3> QED
      BY <3>1
  <2>3. (Taken(a) + 1) + i = Taken(a) + (i + 1)
    BY <1>4, <2>2
  <2> QED
    BY <1>2, <2>1, <2>3
<1> QED
  BY <1>2, <1>3, <1>5

(* ready_search appends the actor's next packet to ready. *)
LEMMA TaskInOrder ==
  ASSUME TokenInv, PacketInv, SearchTask PROVE PacketInv'
<1> PICK a : a = Found
  OBVIOUS
<1> DEFINE t == [actor |-> a, deps |-> {d \in Inputs(a) : d.tok.real}]
           n == Taken(a) + 1
           k == Len(ready) + 1
<1>1. /\ TypeOK /\ TypeInv /\ a \in Actors /\ actor_ready(a)
      /\ Taken(a)' = n /\ \A x \in Actors \ {a} : Taken(x)' = Taken(x)
  BY SearchTakes DEF TokenInv, SelectInv, TypeInv
<1>2. /\ ready' = Append(ready, t) /\ fifo' = Pop(a, fifo) /\ Head(fifo[In0(a)]).real
      /\ UNCHANGED <<fire, done, pc, sel>>
  BY DEF SearchTask, mainVars
<1>3. ready \in Seq(ReadyTask) /\ Taken(a) \in Nat /\ n \in Nat
  BY <1>1, TakenType DEF TypeOK
<1>4. In0(a) \in In(a) /\ In0(a).inp = 0 /\ In(a) \subseteq Edges
  BY <1>1, DagAssumption DEF In0, In
<1>5. (\A d \in t.deps : d.tok.rnd = n) /\ Packetof(t) = n
  <2>1. \A d \in t.deps : d.tok.rnd = n
    BY <1>1, HeadsMatch DEF PacketInv, Inputs
  <2>2. \E d \in t.deps : d.inp = 0
    <3>1. [inp |-> In0(a).inp, tok |-> Head(fifo[In0(a)])] \in t.deps
      BY <1>2, <1>4 DEF Inputs
    <3> QED
      BY <1>4, <3>1
  <2> HIDE DEF t
  <2> QED
    BY <2>1, <2>2, PacketofTask
<1>6. t.actor = a
  OBVIOUS
<1> HIDE DEF t, n
<1>7. /\ k \in Nat /\ k \notin DOMAIN ready /\ DOMAIN ready' = DOMAIN ready \cup {k}
      /\ \A i \in DOMAIN ready : ready'[i] = ready[i] /\ i \in Nat /\ i < k
      /\ ready'[k] = t
  BY <1>2, <1>3
<1>8. ~Fired(k)
  <2>1. pc \in {"link", "free"} => sel \in DOMAIN ready
    BY <1>1 DEF TypeInv, LoopState
  <2> QED
    BY <1>7, <2>1 DEF Fired
<1>9. /\ Pending(a)' = Pending(a) \cup {k}
      /\ \A x \in Actors \ {a} : Pending(x)' = Pending(x)
      /\ \A x : Pending(x) \subseteq DOMAIN ready
  BY <1>2, <1>6, <1>7, <1>8 DEF Pending, Fired
<1>10. \A x \in Actors : Begun(x)' = Begun(x)
  BY <1>2 DEF Begun
<1>11. DoneInOrder' /\ TasksMatch'
  BY <1>2, <1>5, <1>7 DEF PacketInv, DoneInOrder, TasksMatch
<1>12. FifosInOrder'
  <2> SUFFICES ASSUME NEW e \in Edges, e.snk \in Actors, NEW i \in DOMAIN fifo'[e]
               PROVE  fifo'[e][i].rnd = Taken(e.snk)' + i
    BY DEF FifosInOrder
  <2>1. CASE e.snk = a
    <3>1. e \in In(a)
      BY <2>1 DEF In
    <3> QED
      BY <1>1, <1>2, <2>1, <3>1, HeadsMatch DEF PacketInv, n
  <2>2. CASE e.snk # a
    <3>1. i \in DOMAIN fifo[e] /\ fifo'[e][i] = fifo[e][i]
      BY <1>1, <1>2, <2>2, PopAt
    <3> QED
      BY <1>1, <2>2, <3>1 DEF PacketInv, FifosInOrder
  <2> QED
    BY <2>1, <2>2
<1>13. TasksInOrder(a)'
  <2>1. TasksInOrder(a) /\ Begun(a) \in Nat /\ Begun(a) <= Taken(a)
    BY <1>1, BegunType DEF PacketInv
  <2>2. n \in (Begun(a) + 1)..n
    BY <1>3, <2>1 DEF n
  <2>3. \A m \in (Begun(a) + 1)..Taken(a) : m \in (Begun(a) + 1)..n /\ m < n
    BY <1>3, <2>1 DEF n
  <2>4. \A m \in (Begun(a) + 1)..n : m = n \/ m \in (Begun(a) + 1)..Taken(a)
    BY <1>3, <2>1 DEF n
  <2>5. \A i \in Pending(a) : ready'[i] = ready[i] /\ i < k /\ ~(k < i)
    BY <1>7, <1>9
  <2>6. ~(k < k)
    BY <1>7
  <2> HIDE DEF k
  <2>7. ASSUME NEW i \in Pending(a)' PROVE (Packetof(ready[i]))' \in (Begun(a) + 1)..n
    BY <1>5, <1>7, <1>9, <2>1, <2>2, <2>3, <2>5 DEF TasksInOrder
  <2>8. ASSUME NEW i \in Pending(a)', NEW j \in Pending(a)', i < j
        PROVE  (Packetof(ready[i]))' < (Packetof(ready[j]))'
    <3>1. i \in Pending(a)
      BY <1>9, <2>5, <2>6, <2>8
    <3>2. CASE j \in Pending(a)
      BY <2>1, <2>5, <2>8, <3>1, <3>2 DEF TasksInOrder
    <3>3. CASE j = k
      BY <1>5, <1>7, <2>1, <2>3, <2>5, <3>1, <3>3 DEF TasksInOrder
    <3> QED
      BY <1>9, <3>2, <3>3
  <2>9. ASSUME NEW m \in (Begun(a) + 1)..n
        PROVE  \E i \in Pending(a)' : (Packetof(ready[i]))' = m
    <3>1. CASE m = n
      BY <1>5, <1>7, <1>9, <3>1
    <3>2. CASE m \in (Begun(a) + 1)..Taken(a)
      BY <1>9, <2>1, <2>5, <3>2 DEF TasksInOrder
    <3> QED
      BY <2>4, <3>1, <3>2
  <2> QED
    BY <1>1, <1>10, <2>7, <2>8, <2>9 DEF TasksInOrder
<1>14. ASSUME NEW x \in Actors \ {a} PROVE TasksInOrder(x)'
  <2>1. /\ TasksInOrder(x) /\ Pending(x)' = Pending(x)
        /\ Taken(x)' = Taken(x) /\ Begun(x)' = Begun(x)
        /\ \A i \in Pending(x) : ready'[i] = ready[i]
    BY <1>1, <1>7, <1>9, <1>10 DEF PacketInv
  <2> QED
    BY <2>1 DEF TasksInOrder
<1> QED
  BY <1>11, <1>12, <1>13, <1>14 DEF PacketInv

(* An actor that is skipped has no task: its skipped firings overtake none. *)
LEMMA SkippedHasNoTask ==
  ASSUME TypeOK, LabelInv, NEW a \in Actors, a \in Skipped
  PROVE  Pending(a) = {} /\ fire[a] = <<>> /\ Taken(a) = Len(done[a]) /\ Begun(a) = Len(done[a])
<1>1. Pending(a) = {}
  BY DEF Pending, LabelInv, ReadyFits, TaskFits
<1>2. fire[a] = <<>>
  BY DEF LabelInv, FiresFit
<1>3. Cardinality(Pending(a)) = 0 /\ Len(fire[a]) = 0
  BY <1>1, <1>2, FS_EmptySet
<1> DEFINE d == Len(done[a])
           f == Len(fire[a])
           p == Cardinality(Pending(a))
<1>4. d \in Nat
  BY TakenType
<1>5. Taken(a) = p + f + d /\ Begun(a) = d + f
  BY DEF Taken, Begun
<1> HIDE DEF d, f, p
<1>6. Taken(a) = d /\ Begun(a) = d
  BY <1>3, <1>4, <1>5 DEF f, p
<1> QED
  BY <1>1, <1>2, <1>6 DEF d

LEMMA SkipIsNext ==
  ASSUME TokenInv, LabelInv, PacketInv, SearchPseudo, NEW a, a = Found
  PROVE  /\ a \in Actors /\ a \in Skipped /\ actor_ready(a)
         /\ Head(fifo[In0(a)]).rnd = Len(done[a]) + 1
         /\ Len(done[a]) + 1 \in Rounds
<1>1. TypeOK /\ a \in Actors /\ actor_ready(a)
  BY SearchTakes DEF TokenInv, SelectInv, TypeInv
<1>2. In0(a) \in In(a) /\ In(a) \subseteq Edges
  BY <1>1, DagAssumption DEF In0, In
<1>3. Head(fifo[In0(a)]) \in Token /\ Head(fifo[In0(a)]).rnd = Taken(a) + 1
  BY <1>1, <1>2, HeadsMatch DEF PacketInv
<1>4. Fits(In0(a), Head(fifo[In0(a)]))
  <2>1. fifo[In0(a)] \in Seq(Token) /\ fifo[In0(a)] # <<>>
    BY <1>1, <1>2 DEF TypeOK, actor_ready, fifo_empty
  <2>2. 1 \in DOMAIN fifo[In0(a)] /\ Head(fifo[In0(a)]) = fifo[In0(a)][1]
    BY <2>1
  <2> QED
    BY <1>2, <2>2 DEF LabelInv, FifosFit
<1>5. a \in Skipped
  <2>1. ~Head(fifo[In0(a)]).real
    BY DEF SearchPseudo
  <2> QED
    BY <1>1, <1>4, <2>1, SkippedIs DEF Fits
<1>6. Taken(a) = Len(done[a])
  BY <1>1, <1>5, SkippedHasNoTask
<1>7. Head(fifo[In0(a)]).rnd \in Rounds
  BY <1>3 DEF Token
<1> QED
  BY <1>1, <1>3, <1>5, <1>6, <1>7

LEMMA SkipInOrder ==
  ASSUME TokenInv, LabelInv, PacketInv, SearchPseudo PROVE PacketInv'
<1> PICK a : a = Found
  OBVIOUS
<1> PICK n : n = Len(done[a]) + 1
  OBVIOUS
<1>1. /\ TypeOK /\ a \in Actors /\ a \in Skipped /\ actor_ready(a)
      /\ Head(fifo[In0(a)]).rnd = n /\ n \in Rounds
      /\ Taken(a)' = Taken(a) + 1 /\ \A x \in Actors \ {a} : Taken(x)' = Taken(x)
  BY SkipIsNext, SearchTakes DEF TokenInv, SelectInv, TypeInv
<1>2. /\ UNCHANGED <<ready, fire, pc, sel>>
      /\ done' = [done EXCEPT ![a] = Append(@, n)]
      /\ fifo' = [e \in Edges |->
                    IF e.src = a THEN put_token(Pop(a, fifo)[e], Pseudo(a, e.res, n))
                    ELSE Pop(a, fifo)[e]]
  BY <1>1 DEF SearchPseudo, mainVars
<1>3. /\ Pending(a) = {} /\ Taken(a) = Len(done[a]) /\ Begun(a) = Len(done[a])
      /\ Taken(a) \in Nat
  BY <1>1, SkippedHasNoTask, TakenType
<1>4. done[a] \in Seq(Rounds) /\ done'[a] = Append(done[a], n)
      /\ \A x \in Actors \ {a} : done'[x] = done[x]
  BY <1>1, <1>2 DEF TypeOK
<1>5. Len(done'[a]) = Len(done[a]) + 1
  BY <1>4
<1>6. \A x : Pending(x)' = Pending(x)
  BY <1>2 DEF Pending, Fired
<1>7. DoneInOrder'
  <2> SUFFICES ASSUME NEW x \in Actors, NEW i \in DOMAIN done'[x] PROVE done'[x][i] = i
    BY DEF DoneInOrder
  <2>1. CASE x = a
    <3>1. \/ i \in DOMAIN done[a] /\ done'[a][i] = done[a][i]
          \/ i = Len(done[a]) + 1 /\ done'[a][i] = n
      BY <1>4, <2>1
    <3> QED
      BY <1>1, <2>1, <3>1 DEF PacketInv, DoneInOrder
  <2>2. CASE x # a
    BY <1>4, <2>2 DEF PacketInv, DoneInOrder
  <2> QED
    BY <2>1, <2>2
<1>8. TasksMatch'
  BY <1>2 DEF PacketInv, TasksMatch
<1>9. ASSUME NEW x \in Actors PROVE TasksInOrder(x)'
  <2>1. CASE x = a
    <3>1. Begun(a)' = Begun(a) + 1
      BY <1>1, <1>2, <1>5, BegunBy
    <3>2. (Begun(a)' + 1)..Taken(a)' = {}
      BY <1>1, <1>3, <3>1
    <3>3. Pending(a)' = {}
      BY <1>3, <1>6
    <3> HIDE DEF Pending
    <3> QED
      BY <2>1, <3>2, <3>3 DEF TasksInOrder
  <2>2. CASE x # a
    BY <1>1, <1>2, <1>4, <1>6, <2>2, TasksFrame DEF PacketInv, Begun
  <2> QED
    BY <2>1, <2>2
<1>10. ASSUME NEW e \in Edges, e.snk \in Actors
       PROVE  \A i \in DOMAIN Pop(a, fifo)[e] : Pop(a, fifo)[e][i].rnd = Taken(e.snk)' + i
  <2>1. CASE e.snk = a
    <3>1. e \in In(a)
      BY <2>1 DEF In
    <3> QED
      BY <1>1, <2>1, <3>1, HeadsMatch DEF PacketInv
  <2>2. CASE e.snk # a
    <3> TAKE i \in DOMAIN Pop(a, fifo)[e]
    <3>1. i \in DOMAIN fifo[e] /\ Pop(a, fifo)[e][i] = fifo[e][i]
      BY <1>1, <2>2, PopAt
    <3> QED
      BY <1>1, <1>10, <2>2, <3>1 DEF PacketInv, FifosInOrder
  <2> QED
    BY <2>1, <2>2
<1>11. FifosInOrder'
  <2> SUFFICES ASSUME NEW e \in Edges, e.snk \in Actors, NEW i \in DOMAIN fifo'[e]
               PROVE  fifo'[e][i].rnd = Taken(e.snk)' + i
    BY DEF FifosInOrder
  <2>1. CASE e.src = a
    <3> DEFINE q == Pop(a, fifo)[e]
               t == Pseudo(a, e.res, n)
    <3>1. fifo'[e] = put_token(q, t)
      BY <1>2, <2>1
    <3>2. q \in Seq(Token) /\ Len(q) = IF e.snk = a THEN Len(fifo[e]) - 1 ELSE Len(fifo[e])
      BY <1>1, PopLength
    <3>3. t \in Token /\ t.rnd = n
      <4>1. t \in Token
        BY <1>1, EdgeTypes, TokenTypes
      <4> QED
        BY <4>1 DEF Pseudo
    <3>4. n = Taken(e.snk)' + (Len(q) + 1)
      <4>1. Given(e) = Len(done[a])
        BY <1>1, <2>1, DagAssumption DEF Given
      <4>2. Given(e) = Len(fifo[e]) + Taken(e.snk)
        BY DEF TokenInv, Conserved
      <4>3. Len(fifo[e]) \in Nat /\ Taken(e.snk) \in Nat
        <5>1. fifo[e] \in Seq(Token)
          BY <1>1 DEF TypeOK
        <5>2. TypeOK
          BY <1>1
        <5>3. Taken(e.snk) \in Nat
          BY <5>2, TakenType
        <5> QED
          BY <5>1, <5>3
      <4> DEFINE l == Len(fifo[e])
                 m == Len(q)
      <4>4. m = IF e.snk = a THEN l - 1 ELSE l
        BY <3>2
      <4>5. n = l + Taken(e.snk) + 1 /\ l \in Nat /\ Taken(e.snk) \in Nat
        BY <4>1, <4>2, <4>3
      <4> HIDE DEF l, m
      <4>6. ASSUME e.snk = a PROVE n = Taken(e.snk)' + (m + 1)
        <5>1. Taken(e.snk)' = Taken(e.snk) + 1
          BY <1>1, <4>6
        <5> QED
          BY <4>6, <4>4, <4>5, <5>1
      <4>7. ASSUME e.snk # a PROVE n = Taken(e.snk)' + (m + 1)
        <5>1. Taken(e.snk)' = Taken(e.snk)
          BY <1>1, <4>7
        <5> QED
          BY <4>7, <4>4, <4>5, <5>1
      <4> QED
        BY <4>6, <4>7 DEF m
    <3>5. \A j \in DOMAIN q : q[j].rnd = Taken(e.snk)' + j
      BY <1>10
    <3> HIDE DEF q, t
    <3>6. \/ i \in DOMAIN q /\ fifo'[e][i] = q[i]
          \/ i = Len(q) + 1 /\ fifo'[e][i] = t
      BY <3>1, <3>2, <3>3, PutAt
    <3> QED
      BY <3>3, <3>4, <3>5, <3>6
  <2>2. CASE e.src # a
    BY <1>2, <1>10, <2>2
  <2> QED
    BY <2>1, <2>2
<1> QED
  BY <1>7, <1>8, <1>9, <1>11 DEF PacketInv

(* ready_select: every entry of the selected actor is behind the one it    *)
(* takes.                                                                  *)
LEMMA SelectsOldest ==
  ASSUME SelectInv, OldestSelected, [Next]_vars PROVE OldestSelected'
<1> SUFFICES ASSUME pc' = "fire" PROVE \A i \in DOMAIN ready' : ready'[i].actor = actor' => sel' <= i
  BY DEF OldestSelected
<1>1. CASE Select
  <2>1. PICK i \in DOMAIN ready : ready_select(i) /\ sel' = i /\ actor' = ready[i].actor
    BY <1>1 DEF Select
  <2>2. UNCHANGED ready /\ ready \in Seq(ReadyTask)
    BY <1>1 DEF Select, dagVars, SelectInv, TypeInv, TypeOK
  <2>3. \A j \in DOMAIN ready : ready[j].actor = ready[i].actor => i <= j
    <3>1. CASE Affine = {}
      <4>1. i = 1
        BY <2>1, <3>1 DEF ready_select
      <4> QED
        BY <2>2, <4>1
    <3>2. CASE Affine # {}
      BY <2>1, <3>2 DEF ready_select, Affine
    <3> QED
      BY <3>1, <3>2
  <2> QED
    BY <2>1, <2>2, <2>3
<1>2. CASE ~Select
  <2>1. ~Main
    BY <1>2 DEF Main, Poll, actor_fire, inform_dma, inform_dma_last, ready_free, Loop
  <2>2. CASE BlockLaunch \/ ScanVisit \/ ScanEnd \/ SearchNext \/ SearchTask \/ SearchPseudo
    BY <2>2 DEF BlockLaunch, ScanVisit, ScanEnd, SearchNext, SearchTask, SearchPseudo, Searching,
                mainVars, SelectInv
  <2>3. CASE \/ \E b \in Blocks : BlockIdle(b) \/ BlockDone(b)
             \/ \E c \in Channels : DmaDone(c)
             \/ UNCHANGED vars
    <3>1. UNCHANGED <<pc, ready, sel, actor>>
      BY <2>3 DEF BlockIdle, BlockDone, DmaDone, LoadDone, ResultLate, ResultNext, vars, dagVars, mainVars
    <3> QED
      BY <3>1 DEF OldestSelected
  <2> QED
    BY <2>1, <2>2, <2>3 DEF Next, Isr
<1> QED
  BY <1>1, <1>2

-----------------------------------------------------------------------------
(* Firings.  The fire_list of an actor names, oldest first, the blocks     *)
(* that work for it.  With two packets at most the second of two firings   *)
(* can linger; it is passed on with the first one.                         *)
Working(a, b) == "INFLIGHT" \in flags[b] /\ bactor[b] = a /\ ~(isr = "scan" /\ iblk = b)
Passing(a)    == isr = "scan" /\ bactor[iblk] = a
Lingers(a, i) == linger[a] # <<>> /\ i = Len(fire[a])

FiringsInOrder(a) ==
  /\ \A i \in DOMAIN fire[a] :
       Lingers(a, i) \/ (Working(a, fire[a][i]) /\ rnd[fire[a][i]] = Len(done[a]) + i)
  /\ \A b \in Blocks : Working(a, b) => \E i \in DOMAIN fire[a] : fire[a][i] = b /\ ~Lingers(a, i)

LingersInOrder(a) ==
  linger[a] # <<>> =>
    /\ Len(linger[a]) = 1 /\ Len(fire[a]) = (IF Passing(a) THEN 1 ELSE 2)
    /\ linger[a][1].blk = fire[a][Len(fire[a])]
    /\ linger[a][1].toks = Sent(a, Begun(a))

(* The traversal of linger_list looks for the firing that is now oldest. *)
ScanInOrder ==
  isr = "scan" =>
    /\ rest = linger[bactor[iblk]] /\ Len(fire[bactor[iblk]]) <= 1
    /\ fire[bactor[iblk]] # <<>> => ideal = Head(fire[bactor[iblk]])

FiringInv == ScanInOrder /\ \A a \in Actors : FiringsInOrder(a) /\ LingersInOrder(a)

LEMMA FewFirings ==
  ASSUME TokenInv, FewPackets, NEW a \in Actors
  PROVE  /\ fire[a] \in Seq(Blocks) /\ linger[a] \in Seq(Parcel) /\ done[a] \in Seq(Rounds)
         /\ Len(fire[a]) \in 0..2 /\ Len(done[a]) \in Nat
         /\ Begun(a) \in Nat /\ Begun(a) <= NUM_PACKET
         /\ Begun(a) = Len(done[a]) + Len(fire[a])
         /\ Begun(a) <= Taken(a) /\ Taken(a) \in 0..2
<1>1. TypeOK
  BY DEF TokenInv, SelectInv, TypeInv
<1>2. Taken(a) <= NUM_PACKET /\ NUM_PACKET <= 2 /\ NUM_PACKET \in Nat
  BY SizeAssumption DEF TokenInv, NeverAhead, FewPackets
<1> DEFINE f == Len(fire[a])
           d == Len(done[a])
<1>3. Taken(a) \in Nat /\ f \in Nat /\ d \in Nat /\ Begun(a) <= Taken(a) /\ Begun(a) = d + f
  BY <1>1, TakenType, BegunType DEF Begun
<1> HIDE DEF f, d
<1>4. f \in 0..2 /\ d \in Nat /\ Begun(a) \in Nat /\ Begun(a) <= NUM_PACKET /\ Begun(a) = d + f /\ Taken(a) \in 0..2
  BY <1>2, <1>3
<1> QED
  BY <1>1, <1>3, <1>4 DEF f, d, TypeOK

(* A step that does not concern an actor's firings. *)
LEMMA FiringFrame ==
  ASSUME TypeOK, NEW a \in Actors, FiringsInOrder(a), LingersInOrder(a),
         fire'[a] = fire[a], linger'[a] = linger[a], done'[a] = done[a],
         \A b \in Blocks : (Working(a, b)' <=> Working(a, b)) /\ (Working(a, b) => rnd'[b] = rnd[b]),
         linger[a] # <<>> => (Passing(a)' <=> Passing(a))
  PROVE  FiringsInOrder(a)' /\ LingersInOrder(a)'
<1>1. \A i : Lingers(a, i)' <=> Lingers(a, i)
  BY DEF Lingers
<1>2. \A i \in DOMAIN fire[a] : fire[a][i] \in Blocks
  BY DEF TypeOK
<1>3. FiringsInOrder(a)'
  BY <1>1, <1>2 DEF FiringsInOrder
<1>4. Begun(a)' = Begun(a)
  BY DEF Begun
<1>5. LingersInOrder(a)'
  BY <1>4 DEF LingersInOrder
<1> QED
  BY <1>3, <1>5

LEMMA QuietFirings ==
  ASSUME TypeOK, FiringInv, isr # "scan", isr' # "scan", UNCHANGED <<fire, linger, done, bactor, rnd>>,
         \A b \in Blocks : "INFLIGHT" \in flags'[b] <=> "INFLIGHT" \in flags[b]
  PROVE  FiringInv'
<1>1. ScanInOrder'
  BY DEF ScanInOrder
<1>2. ASSUME NEW a \in Actors PROVE FiringsInOrder(a)' /\ LingersInOrder(a)'
  <2>1. Passing(a)' <=> Passing(a)
    BY DEF Passing
  <2>2. \A b \in Blocks : Working(a, b)' <=> Working(a, b)
    BY DEF Working
  <2> QED
    BY <2>1, <2>2, FiringFrame DEF FiringInv
<1> QED
  BY <1>1, <1>2 DEF FiringInv

LEMMA FiringsByQuietSteps ==
  ASSUME BaseInv, FiringInv,
         \/ Poll \/ Select \/ inform_dma \/ inform_dma_last \/ ready_free
         \/ BlockLaunch \/ SearchNext \/ SearchTask
         \/ \E b \in Blocks : BlockIdle(b) \/ BlockDone(b)
         \/ \E c \in Channels : LoadDone(c)
  PROVE  FiringInv'
<1>1. TypeOK
  BY BaseTypes
<1>2. CASE Poll \/ Select \/ inform_dma \/ inform_dma_last \/ ready_free
  <2>1. isr # "scan" /\ isr' # "scan" /\ UNCHANGED <<fire, linger, done, bactor, rnd, flags>>
    BY <1>2 DEF Poll, Select, inform_dma, inform_dma_last, ready_free, Loop, dagVars, blkVars, isrVars
  <2> QED
    BY <1>1, <2>1, QuietFirings
<1>3. CASE SearchNext \/ SearchTask
  <2>1. isr # "scan" /\ isr' # "scan" /\ UNCHANGED <<fire, linger, done, bactor, rnd, flags>>
    BY <1>3 DEF SearchNext, SearchTask, Searching, dagVars, blkVars
  <2> QED
    BY <1>1, <2>1, QuietFirings
<1>4. CASE BlockLaunch \/ (\E b \in Blocks : BlockIdle(b) \/ BlockDone(b)) \/ (\E c \in Channels : LoadDone(c))
  <2>1. isr # "scan" /\ isr' # "scan" /\ UNCHANGED <<fire, linger, done, bactor, rnd>>
    BY <1>4 DEF BlockLaunch, BlockIdle, BlockDone, LoadDone, Interruptible, dagVars, isrVars
  <2>2. \A b \in Blocks : "INFLIGHT" \in flags'[b] <=> "INFLIGHT" \in flags[b]
    <3> SUFFICES ASSUME NEW x \in Blocks PROVE "INFLIGHT" \in flags'[x] <=> "INFLIGHT" \in flags[x]
      OBVIOUS
    <3>1. CASE BlockLaunch
      BY <1>1, <3>1 DEF BlockLaunch, TypeOK
    <3>2. ASSUME NEW b \in Blocks, BlockIdle(b) \/ BlockDone(b)
          PROVE  "INFLIGHT" \in flags'[x] <=> "INFLIGHT" \in flags[x]
      <4>1. \E f \in {"INFIFO", "RESULT"} : flags' = [flags EXCEPT ![b] = @ \cup {f}]
        BY <3>2 DEF BlockIdle, BlockDone
      <4> QED
        BY <1>1, <4>1 DEF TypeOK
    <3>3. CASE \E c \in Channels : LoadDone(c)
      BY <3>3 DEF LoadDone
    <3> QED
      BY <1>4, <3>1, <3>2, <3>3
  <2> QED
    BY <1>1, <2>1, <2>2, QuietFirings
<1> QED
  BY <1>2, <1>3, <1>4

LEMMA FiringsBySkip ==
  ASSUME TokenInv, LabelInv, PacketInv, FewPackets, FiringInv, SearchPseudo PROVE FiringInv'
<1> PICK a : a = Found
  OBVIOUS
<1>1. TypeOK /\ a \in Actors /\ a \in Skipped
  BY SkipIsNext DEF TokenInv, SelectInv, TypeInv
<1>2. /\ isr = "search" /\ UNCHANGED <<fire, linger, flags, bactor, rnd, isr, iblk>>
      /\ \E n : done' = [done EXCEPT ![a] = Append(@, n)]
  BY DEF SearchPseudo, Searching, blkVars
<1>3. \A x : (Passing(x)' <=> Passing(x)) /\ \A b : Working(x, b)' <=> Working(x, b)
  BY <1>2 DEF Passing, Working
<1>4. ScanInOrder'
  BY <1>2 DEF ScanInOrder
<1>5. ASSUME NEW x \in Actors PROVE FiringsInOrder(x)' /\ LingersInOrder(x)'
  <2>1. FiringsInOrder(x) /\ LingersInOrder(x)
    BY DEF FiringInv
  <2>2. CASE x = a
    <3>1. fire[a] = <<>> /\ Len(fire[a]) = 0
      BY <1>1, SkippedHasNoTask
    <3>2. linger[a] = <<>>
      BY <2>1, <2>2, <3>1 DEF LingersInOrder
    <3>3. DOMAIN fire[a] = {}
      BY <3>1
    <3> QED
      BY <1>2, <1>3, <2>1, <2>2, <3>2, <3>3 DEF FiringsInOrder, LingersInOrder, Lingers
  <2>3. CASE x # a
    <3>1. done'[x] = done[x]
      BY <1>1, <1>2, <2>3 DEF TypeOK
    <3> QED
      BY <1>1, <1>2, <1>3, <2>1, <3>1, FiringFrame
  <2> QED
    BY <2>2, <2>3
<1> QED
  BY <1>4, <1>5 DEF FiringInv

(* actor_fire: the block joins the end of the list.  Nothing lingers, for  *)
(* else the actor would already have two firings.                          *)
LEMMA FiringsByFire ==
  ASSUME BaseInv, PacketInv, OldestSelected, FewPackets, FiringInv, actor_fire PROVE FiringInv'
<1> PICK a : a = actor
  OBVIOUS
<1> PICK k : k = block
  OBVIOUS
<1> PICK n : n = Begun(a) + 1
  OBVIOUS
<1> PICK m : m = Len(fire[a]) + 1
  OBVIOUS
<1>0. TokenInv
  BY DEF BaseInv
<1>1. /\ a \in Actors /\ Packetof(ready[sel]) = n /\ n <= Taken(a)
  BY FireInOrder DEF BaseInv
<1>2. /\ TypeOK /\ k \in Blocks /\ isr = "none" /\ UNCHANGED <<isr, linger, done>>
      /\ fire' = [fire EXCEPT ![a] = Append(@, k)]
      /\ flags' = [flags EXCEPT ![k] = @ \cup {"INFLIGHT"}]
      /\ bactor' = [bactor EXCEPT ![k] = a]
      /\ rnd' = [rnd EXCEPT ![k] = n]
      /\ Held(k)
  BY <1>1, BaseTypes DEF actor_fire, Loop, LoopState, isrVars, Held, Task, Packetof
<1>3. "INFLIGHT" \notin flags[k]
  <2>1. flags[k] = {"INFIFO"}
    BY <1>2, BaseTypes DEF Ownership
  <2> QED
    BY <2>1
<1>4. /\ \A b \in Blocks \ {k} : flags'[b] = flags[b] /\ bactor'[b] = bactor[b] /\ rnd'[b] = rnd[b]
      /\ "INFLIGHT" \in flags'[k] /\ bactor'[k] = a /\ rnd'[k] = n
  BY <1>2 DEF TypeOK
<1>5. ASSUME NEW x \in Actors
      PROVE  /\ \A b \in Blocks \ {k} : Working(x, b)' <=> Working(x, b)
             /\ Working(x, k)' <=> (x = a)
             /\ ~Working(x, k)
  <2>1. \A b \in Blocks \ {k} : Working(x, b)' <=> Working(x, b)
    BY <1>2, <1>4 DEF Working
  <2>2. Working(x, k)' <=> (x = a)
    BY <1>2, <1>4 DEF Working
  <2>3. ~Working(x, k)
    BY <1>3 DEF Working
  <2> QED
    BY <2>1, <2>2, <2>3
<1>6. \A x : ~Passing(x) /\ ~Passing(x)'
  BY <1>2 DEF Passing
<1>7. linger[a] = <<>>
  <2> SUFFICES ASSUME linger[a] # <<>> PROVE FALSE
    OBVIOUS
  <2>1. Len(fire[a]) = 2
    BY <1>1, <1>6 DEF FiringInv, LingersInOrder
  <2>2. /\ Begun(a) = Len(done[a]) + Len(fire[a]) /\ Len(done[a]) \in Nat /\ Taken(a) \in 0..2
        /\ Begun(a) \in Nat
    BY <1>0, <1>1, FewFirings
  <2> QED
    BY <1>1, <2>1, <2>2
<1>8. /\ DOMAIN fire'[a] = DOMAIN fire[a] \cup {m} /\ m \notin DOMAIN fire[a]
      /\ fire'[a][m] = k /\ \A i \in DOMAIN fire[a] : fire'[a][i] = fire[a][i] /\ fire[a][i] \in Blocks
  BY <1>1, <1>2 DEF TypeOK
<1>9. n = Len(done[a]) + m
  <2> DEFINE f == Len(fire[a])
             d == Len(done[a])
  <2>1. Begun(a) = d + f /\ d \in Nat /\ f \in 0..2
    BY <1>0, <1>1, FewFirings
  <2>2. m = f + 1
    OBVIOUS
  <2> HIDE DEF f, d
  <2>3. n = d + m
    BY <2>1, <2>2
  <2> QED
    BY <2>3 DEF d
<1>10. ScanInOrder'
  BY <1>2 DEF ScanInOrder
<1>11. FiringsInOrder(a)' /\ LingersInOrder(a)'
  <2>1. FiringsInOrder(a) /\ (\A i : ~Lingers(a, i)) /\ (\A i : ~Lingers(a, i)') /\ linger'[a] = <<>>
    BY <1>1, <1>2, <1>7 DEF FiringInv, Lingers
  <2>2. ASSUME NEW i \in DOMAIN fire'[a]
        PROVE  Working(a, fire[a][i])' /\ rnd'[fire'[a][i]] = Len(done[a]) + i
    <3>1. CASE i = m
      <4>1. fire'[a][i] = k
        BY <1>8, <3>1
      <4>2. Working(a, k)'
        BY <1>1, <1>5
      <4> QED
        BY <1>4, <1>9, <3>1, <4>1, <4>2 DEF Working
    <3>2. CASE i \in DOMAIN fire[a]
      <4>1. Working(a, fire[a][i]) /\ rnd[fire[a][i]] = Len(done[a]) + i /\ fire[a][i] \in Blocks
        BY <1>8, <2>1, <3>2 DEF FiringsInOrder
      <4>2. fire[a][i] # k
        BY <1>1, <1>5, <4>1
      <4> QED
        BY <1>1, <1>4, <1>5, <1>8, <3>2, <4>1, <4>2 DEF Working
    <3> QED
      BY <1>8, <3>1, <3>2
  <2>3. ASSUME NEW b \in Blocks, Working(a, b)' PROVE \E i \in DOMAIN fire'[a] : fire'[a][i] = b
    <3>1. CASE b = k
      BY <1>8, <3>1
    <3>2. CASE b # k
      <4>1. Working(a, b)
        BY <1>1, <1>5, <2>3, <3>2
      <4> QED
        BY <1>8, <2>1, <4>1 DEF FiringsInOrder
    <3> QED
      BY <3>1, <3>2
  <2>4. FiringsInOrder(a)'
    <3>1. done'[a] = done[a]
      BY <1>2
    <3> QED
      BY <2>1, <2>2, <2>3, <3>1 DEF FiringsInOrder
  <2>5. LingersInOrder(a)'
    BY <2>1 DEF LingersInOrder
  <2> QED
    BY <2>4, <2>5
<1>12. ASSUME NEW x \in Actors \ {a} PROVE FiringsInOrder(x)' /\ LingersInOrder(x)'
  <2>1. FiringsInOrder(x) /\ LingersInOrder(x) /\ fire'[x] = fire[x] /\ linger'[x] = linger[x] /\ done'[x] = done[x]
    BY <1>2 DEF FiringInv, TypeOK
  <2>2. \A b \in Blocks : (Working(x, b)' <=> Working(x, b)) /\ (Working(x, b) => rnd'[b] = rnd[b])
    <3> SUFFICES ASSUME NEW b \in Blocks
                 PROVE  (Working(x, b)' <=> Working(x, b)) /\ (Working(x, b) => rnd'[b] = rnd[b])
      OBVIOUS
    <3>1. CASE b = k
      BY <1>5, <3>1
    <3>2. CASE b # k
      BY <1>4, <1>5, <3>2
    <3> QED
      BY <3>1, <3>2
  <2> QED
    BY <1>2, <1>6, <2>1, <2>2, FiringFrame
<1> QED
  BY <1>10, <1>11, <1>12 DEF FiringInv

(* The results of a firing arrive: it works for its actor, at a position   *)
(* of fire_list that tells which packet the results derive from.           *)
LEMMA ArrivalPosition ==
  ASSUME UndisturbedFiring, FewPackets, BaseInv, ChainInv, FiringInv,
         NEW c \in Channels, NEW b, NEW a, b = chan[c].blk, a = bactor[b],
         Arrives(c, b), fire[a] # <<>>
  PROVE  /\ isr = "none" /\ b \in Blocks /\ a \in Actors /\ Working(a, b)
         /\ chan[c].toks = Sent(a, rnd[b])
         /\ \E i \in DOMAIN fire[a] :
              /\ fire[a][i] = b /\ ~Lingers(a, i) /\ rnd[b] = Len(done[a]) + i /\ i \in 1..2
              /\ fire[a][1] = b => i = 1
<1>1. isr = "none" /\ Carries(c, b) /\ "RESULT" \in flags[b]
  BY DEF Arrives, Interruptible
<1>2. b \in Blocks /\ a \in Actors /\ TypeOK
  BY BaseTypes, ResultsOfActor
<1>3. Working(a, b)
  BY <1>1, <1>2, BaseTypes DEF HandlerState, Working
<1>4. chan[c].toks = Sent(a, rnd[b])
  BY <1>1, <1>2 DEF ChainInv
<1>5. FiringsInOrder(a) /\ LingersInOrder(a)
  BY <1>2 DEF FiringInv
<1>6. PICK i \in DOMAIN fire[a] : fire[a][i] = b /\ ~Lingers(a, i)
  BY <1>2, <1>3, <1>5 DEF FiringsInOrder
<1>7. rnd[b] = Len(done[a]) + i
  BY <1>5, <1>6 DEF FiringsInOrder
<1>8. /\ fire[a] \in Seq(Blocks) /\ Len(fire[a]) \in 0..2 /\ Len(done[a]) \in Nat
  BY <1>2, FewFirings DEF BaseInv
<1>9. i \in 1..2 /\ 1 \in DOMAIN fire[a]
  BY <1>6, <1>8
<1>10. fire[a][1] = b => i = 1
  <2>1. ~Lingers(a, 1)
    <3>1. ~Passing(a)
      BY <1>1 DEF Passing
    <3>2. linger[a] # <<>> => Len(fire[a]) = 2
      BY <1>5, <3>1 DEF LingersInOrder
    <3> QED
      BY <3>2 DEF Lingers
  <2>2. rnd[fire[a][1]] = Len(done[a]) + 1
    BY <1>5, <1>9, <2>1 DEF FiringsInOrder
  <2> DEFINE d == Len(done[a])
  <2>3. d \in Nat /\ rnd[b] = d + i /\ (fire[a][1] = b => rnd[b] = d + 1)
    BY <1>7, <1>8, <2>2
  <2> HIDE DEF d
  <2> QED
    BY <1>9, <2>3
<1> QED
  BY <1>1, <1>2, <1>3, <1>4, <1>6, <1>7, <1>9, <1>10

(* Results that are not the oldest firing's are the second firing's, and   *)
(* nothing lingers yet.                                                    *)
LEMMA FiringsByLate ==
  ASSUME UndisturbedFiring, FewPackets, BaseInv, ChainInv, FiringInv,
         NEW c \in Channels, ResultLate(c)
  PROVE  FiringInv'
<1> PICK b : b = chan[c].blk
  OBVIOUS
<1> PICK a : a = bactor[b]
  OBVIOUS
<1> DEFINE p == [blk |-> b, toks |-> chan[c].toks]
<1>1. /\ Arrives(c, b) /\ fire[a] # <<>> /\ Head(fire[a]) # b /\ Release(b)
      /\ linger' = [linger EXCEPT ![a] = <<p>> \o @]
      /\ UNCHANGED <<fire, done, bactor, rnd, isr, iblk>>
  BY DEF ResultLate, Oldest, isrVars
<1>2. /\ isr = "none" /\ b \in Blocks /\ a \in Actors /\ Working(a, b) /\ TypeOK
      /\ chan[c].toks = Sent(a, rnd[b])
  BY <1>1, ArrivalPosition, BaseTypes
<1>3. PICK i \in DOMAIN fire[a] : /\ fire[a][i] = b /\ ~Lingers(a, i) /\ i \in 1..2
                                  /\ rnd[b] = Len(done[a]) + i
  BY <1>1, ArrivalPosition
<1>4. /\ fire[a] \in Seq(Blocks) /\ linger[a] \in Seq(Parcel) /\ Len(fire[a]) \in 0..2
      /\ Begun(a) = Len(done[a]) + Len(fire[a])
  BY <1>2, FewFirings DEF BaseInv
<1>5. i = 2 /\ Len(fire[a]) = 2 /\ fire[a][1] # b
  <2>1. i # 1
    BY <1>1, <1>3, <1>4
  <2> QED
    BY <1>1, <1>3, <1>4, <2>1
<1>6. linger[a] = <<>>
  BY <1>3, <1>5 DEF Lingers
<1>7. p.blk = b /\ p.toks = Sent(a, Begun(a))
  BY <1>2, <1>3, <1>4, <1>5
<1> HIDE DEF p
<1>8. linger'[a] = <<p>> /\ \A x \in Actors \ {a} : linger'[x] = linger[x]
  <2>1. linger'[a] = <<p>> \o <<>>
    BY <1>1, <1>2, <1>6 DEF TypeOK
  <2>2. <<p>> \o <<>> = <<p>>
    OBVIOUS
  <2> QED
    BY <1>1, <1>2, <2>1, <2>2 DEF TypeOK
<1>9. flags'[b] = {} /\ \A x \in Blocks \ {b} : flags'[x] = flags[x]
  BY <1>1, <1>2 DEF Release, TypeOK
<1>10. /\ \A y : ~Working(y, b)'
       /\ \A y : ~Passing(y) /\ ~Passing(y)'
  BY <1>1, <1>2, <1>9 DEF Working, Passing
<1>11. \A y, x : x \in Blocks \ {b} => (Working(y, x)' <=> Working(y, x))
  BY <1>1, <1>2, <1>9 DEF Working
<1>12. ScanInOrder'
  BY <1>1, <1>2 DEF ScanInOrder
<1>13. FiringsInOrder(a) /\ LingersInOrder(a) /\ UNCHANGED <<fire, done, rnd>>
  BY <1>1, <1>2 DEF FiringInv
<1>14. FiringsInOrder(a)'
  <2>1. Lingers(a, 2)' /\ ~Lingers(a, 1)' /\ ~Lingers(a, 1) /\ ~Lingers(a, 2)
    BY <1>5, <1>6, <1>8, <1>13 DEF Lingers
  <2>2. DOMAIN fire[a] = {1, 2} /\ fire[a][2] = b /\ fire[a][1] \in Blocks \ {b}
    BY <1>3, <1>4, <1>5
  <2>3. Working(a, fire[a][1]) /\ rnd[fire[a][1]] = Len(done[a]) + 1
    BY <1>13, <2>1, <2>2 DEF FiringsInOrder
  <2>4. (Working(a, fire[a][1]))'
    BY <1>1, <1>11, <1>13, <2>2, <2>3 DEF Working
  <2>5. ASSUME NEW x \in Blocks, Working(a, x)' PROVE x = fire[a][1]
    <3>1. x # b
      BY <1>10, <2>5
    <3>2. Working(a, x)
      BY <1>11, <2>5, <3>1
    <3>3. PICK j \in DOMAIN fire[a] : fire[a][j] = x
      BY <1>13, <3>2 DEF FiringsInOrder
    <3> QED
      BY <2>2, <3>1, <3>3
  <2> QED
    BY <1>13, <2>1, <2>2, <2>3, <2>4, <2>5 DEF FiringsInOrder
<1>15. LingersInOrder(a)'
  <2>1. Begun(a)' = Begun(a)
    BY <1>13 DEF Begun
  <2>2. Len(linger'[a]) = 1 /\ linger'[a][1] = p
    BY <1>8
  <2> QED
    BY <1>3, <1>5, <1>7, <1>10, <1>13, <2>1, <2>2 DEF LingersInOrder
<1>16. ASSUME NEW x \in Actors \ {a} PROVE FiringsInOrder(x)' /\ LingersInOrder(x)'
  <2>1. FiringsInOrder(x) /\ LingersInOrder(x) /\ linger'[x] = linger[x]
    BY <1>8 DEF FiringInv
  <2>2. ~Working(x, b)
    BY DEF Working
  <2>3. \A y \in Blocks : Working(x, y)' <=> Working(x, y)
    BY <1>10, <1>11, <2>2
  <2> QED
    BY <1>2, <1>10, <1>13, <2>1, <2>3, FiringFrame
<1> QED
  BY <1>12, <1>14, <1>15, <1>16 DEF FiringInv

(* The results of the oldest firing are those of the actor's next packet.  *)
LEMMA NextArrival ==
  ASSUME UndisturbedFiring, FewPackets, BaseInv, ChainInv, FiringInv,
         NEW c \in Channels, ResultNext(c),
         NEW b, NEW a, NEW n, b = chan[c].blk, a = bactor[b], n = Len(done[a])
  PROVE  /\ b \in Blocks /\ a \in Actors /\ Working(a, b) /\ isr = "none"
         /\ fire[a] # <<>> /\ Head(fire[a]) = b /\ ~Lingers(a, 1)
         /\ rnd[b] = n + 1
         /\ scheduler_pass_result(a, Sent(a, n + 1))
<1>1. /\ Arrives(c, b) /\ fire[a] # <<>> /\ Head(fire[a]) = b
  BY DEF ResultNext, Oldest
<1>2. /\ isr = "none" /\ b \in Blocks /\ a \in Actors /\ Working(a, b)
      /\ chan[c].toks = Sent(a, rnd[b])
  BY <1>1, ArrivalPosition
<1>3. PICK i \in DOMAIN fire[a] : /\ ~Lingers(a, i) /\ rnd[b] = Len(done[a]) + i
                                  /\ fire[a][1] = b => i = 1
  BY <1>1, ArrivalPosition
<1>4. fire[a][1] = b
  BY <1>1
<1>5. rnd[b] = n + 1 /\ chan[c].toks = Sent(a, n + 1)
  BY <1>2, <1>3, <1>4
<1>6. scheduler_pass_result(a, Sent(a, n + 1))
  BY <1>5 DEF ResultNext, scheduler_pass_result
<1> QED
  BY <1>1, <1>2, <1>3, <1>4, <1>5, <1>6

LEMMA OneOrTwo ==
  ASSUME NEW l \in 1..2
  PROVE  l - 1 \in 0..1 /\ \A i \in 1..(l - 1) : i = 1 /\ l = 2 /\ i + 1 = 2
<1>1. CASE l = 1
  BY <1>1
<1>2. CASE l = 2
  BY <1>2
<1> QED
  BY <1>1, <1>2

(* They are passed on: the second firing, if there is one, is now the      *)
(* oldest, and the traversal of linger_list starts looking for it.         *)
LEMMA FiringsByNext ==
  ASSUME UndisturbedFiring, FewPackets, BaseInv, ChainInv, FiringInv,
         NEW c \in Channels, ResultNext(c)
  PROVE  FiringInv'
<1> PICK b : b = chan[c].blk
  OBVIOUS
<1> PICK a : a = bactor[b]
  OBVIOUS
<1> PICK n : n = Len(done[a])
  OBVIOUS
<1>1. /\ b \in Blocks /\ a \in Actors /\ Working(a, b) /\ isr = "none" /\ TypeOK /\ TokenInv
      /\ fire[a] # <<>> /\ Head(fire[a]) = b /\ ~Lingers(a, 1)
      /\ rnd[b] = n + 1
      /\ scheduler_pass_result(a, Sent(a, n + 1))
  <2>1. TypeOK /\ TokenInv
    BY BaseTypes DEF BaseInv
  <2> QED
    BY <2>1, NextArrival
<1>2. /\ isr' = "scan" /\ iblk' = b /\ rest' = linger[a]
      /\ UNCHANGED <<linger, flags, bactor, rnd>>
  BY DEF ResultNext, blkVars
<1>3. /\ fire' = [fire EXCEPT ![a] = Tail(@)]
      /\ done' = [done EXCEPT ![a] = Append(@, Head(Sent(a, n + 1)).rnd)]
      /\ ideal' = IF Tail(fire[a]) = <<>> THEN Head(fire[a]) ELSE Head(Tail(fire[a]))
  BY <1>1 DEF scheduler_pass_result
<1>4. /\ fire[a] \in Seq(Blocks) /\ done[a] \in Seq(Rounds) /\ Len(fire[a]) \in 0..2 /\ n \in Nat
      /\ Begun(a) = n + Len(fire[a])
  BY <1>1, FewFirings
<1>5. /\ fire'[a] = Tail(fire[a]) /\ Len(fire'[a]) = Len(fire[a]) - 1
      /\ Len(fire[a]) \in 1..2 /\ fire[a][1] = b /\ Len(fire'[a]) \in 0..1
      /\ \A i \in DOMAIN fire'[a] : i = 1 /\ Len(fire[a]) = 2 /\ fire'[a][i] = fire[a][2]
  <2>1. fire'[a] = Tail(fire[a])
    BY <1>1, <1>3 DEF TypeOK
  <2>2. Len(fire[a]) \in 1..2 /\ fire[a][1] = b
    BY <1>1, <1>4
  <2>3. /\ Tail(fire[a]) \in Seq(Blocks) /\ Len(Tail(fire[a])) = Len(fire[a]) - 1
        /\ \A i \in DOMAIN Tail(fire[a]) : Tail(fire[a])[i] = fire[a][i + 1]
    BY <1>1, <1>4
  <2>4. DOMAIN Tail(fire[a]) = 1..(Len(fire[a]) - 1)
    BY <2>3
  <2>5. /\ Len(fire[a]) - 1 \in 0..1
        /\ \A i \in 1..(Len(fire[a]) - 1) : i = 1 /\ Len(fire[a]) = 2 /\ i + 1 = 2
    BY <2>2, OneOrTwo
  <2>6. \A i \in DOMAIN fire'[a] : i = 1 /\ Len(fire[a]) = 2 /\ fire'[a][i] = fire[a][2]
    BY <2>1, <2>3, <2>4, <2>5
  <2> QED
    BY <2>1, <2>2, <2>3, <2>5, <2>6
<1>6. Len(done'[a]) = n + 1
  BY <1>1, <1>3, <1>4 DEF TypeOK
<1>7. \A x \in Actors \ {a} : fire'[x] = fire[x] /\ done'[x] = done[x]
  BY <1>1, <1>3 DEF TypeOK
<1>8. \A y, x : Working(y, x)' <=> Working(y, x) /\ x # b
  BY <1>1, <1>2 DEF Working
<1>9. \A y : (Passing(y)' <=> y = a) /\ ~Passing(y)
  BY <1>1, <1>2 DEF Passing
<1>10. FiringsInOrder(a) /\ LingersInOrder(a)
  BY <1>1 DEF FiringInv
<1>11. ScanInOrder'
  <2>1. bactor'[iblk'] = a
    BY <1>2
  <2> DEFINE l == Len(fire'[a])
  <2>2. l <= 1
    <3>1. l \in 0..1
      BY <1>5
    <3> HIDE DEF l
    <3> QED
      BY <3>1
  <2>3. fire'[a] # <<>> => ideal' = Head(fire'[a])
    BY <1>3, <1>5
  <2> QED
    BY <1>2, <2>1, <2>2, <2>3 DEF ScanInOrder
<1>12. \A i \in DOMAIN fire'[a] : Lingers(a, i)' <=> Lingers(a, 2)
  <2> TAKE i \in DOMAIN fire'[a]
  <2>1. i = 1 /\ Len(fire[a]) = 2 /\ Len(fire'[a]) = 1
    BY <1>5
  <2> QED
    BY <1>2, <2>1 DEF Lingers
<1>13. FiringsInOrder(a)'
  <2> PICK y : y = fire[a][2]
    OBVIOUS
  <2>1. ASSUME NEW i \in DOMAIN fire'[a], ~Lingers(a, i)'
        PROVE  Working(a, y)' /\ rnd[y] = (n + 1) + i
    <3>1. i = 1 /\ 2 \in DOMAIN fire[a] /\ ~Lingers(a, 2)
      BY <1>4, <1>5, <1>12, <2>1
    <3>2. Working(a, y) /\ rnd[y] = n + 2
      BY <1>10, <3>1 DEF FiringsInOrder
    <3>3. y # b
      BY <1>1, <1>4, <3>2
    <3>4. (n + 1) + i = n + 2
      BY <1>4, <3>1
    <3> QED
      BY <1>8, <3>2, <3>3, <3>4
  <2>2. ASSUME NEW x \in Blocks, Working(a, x)'
        PROVE  \E i \in DOMAIN fire'[a] : fire'[a][i] = x /\ ~Lingers(a, i)'
    <3>1. Working(a, x) /\ x # b
      BY <1>8, <2>2
    <3>2. PICK j \in DOMAIN fire[a] : fire[a][j] = x /\ ~Lingers(a, j)
      BY <1>10, <3>1 DEF FiringsInOrder
    <3>3. j = 2 /\ Len(fire[a]) = 2
      BY <1>4, <1>5, <3>1, <3>2
    <3>4. 1 \in DOMAIN fire'[a]
      BY <1>4, <1>5, <3>3
    <3> QED
      BY <1>5, <1>12, <3>2, <3>3, <3>4
  <2> QED
    <3>1. ASSUME NEW i \in DOMAIN fire'[a]
          PROVE  Lingers(a, i)' \/ (Working(a, fire[a][i])' /\ rnd'[fire'[a][i]] = Len(done'[a]) + i)
      BY <1>2, <1>5, <1>6, <2>1 DEF Working
    <3> QED
      BY <2>2, <3>1 DEF FiringsInOrder
<1>14. LingersInOrder(a)'
  <2> SUFFICES ASSUME linger[a] # <<>>
               PROVE  /\ Len(linger[a]) = 1 /\ Len(fire'[a]) = 1
                      /\ linger[a][1].blk = fire'[a][1]
                      /\ linger[a][1].toks = Sent(a, Begun(a)')
    BY <1>2, <1>9 DEF LingersInOrder
  <2>1. /\ Len(linger[a]) = 1 /\ Len(fire[a]) = 2
        /\ linger[a][1].blk = fire[a][2] /\ linger[a][1].toks = Sent(a, Begun(a))
    BY <1>9, <1>10 DEF LingersInOrder
  <2>2. Begun(a)' = Begun(a)
    BY <1>1, <1>4, <1>5, <1>6, BegunBy
  <2>3. Len(fire'[a]) = 1 /\ 1 \in DOMAIN fire'[a]
    BY <1>4, <1>5, <2>1
  <2> QED
    BY <1>5, <2>1, <2>2, <2>3
<1>15. ASSUME NEW x \in Actors \ {a} PROVE FiringsInOrder(x)' /\ LingersInOrder(x)'
  <2>1. FiringsInOrder(x) /\ LingersInOrder(x) /\ (Passing(x)' <=> Passing(x))
    BY <1>9 DEF FiringInv
  <2>2. ~Working(x, b)
    BY DEF Working
  <2>3. \A y \in Blocks : (Working(x, y)' <=> Working(x, y)) /\ rnd'[y] = rnd[y]
    BY <1>2, <1>8, <2>2
  <2> QED
    BY <1>1, <1>2, <1>7, <2>1, <2>3, FiringFrame
<1> QED
  BY <1>11, <1>13, <1>14, <1>15 DEF FiringInv

(* What lingers while the oldest firing is passed on is the next one.      *)
LEMMA NextVisit ==
  ASSUME FewPackets, BaseInv, FiringInv, ScanVisit,
         NEW a, NEW n, a = bactor[iblk], n = Len(done[a])
  PROVE  /\ isr = "scan" /\ a \in Actors
         /\ Len(fire[a]) = 1 /\ Len(linger[a]) = 1 /\ rest = linger[a] /\ Passing(a)
         /\ scheduler_pass_result(a, Sent(a, n + 1))
         /\ linger' = [linger EXCEPT ![a] = Tail(@)]
<1>1. isr = "scan" /\ rest # <<>> /\ a \in Actors
  BY BaseTypes DEF ScanVisit, HandlerState
<1>2. Passing(a) /\ rest = linger[a] /\ linger[a] # <<>>
  BY <1>1 DEF Passing, FiringInv, ScanInOrder
<1>3. /\ Len(linger[a]) = 1 /\ Len(fire[a]) = 1
      /\ linger[a][1].blk = fire[a][1] /\ linger[a][1].toks = Sent(a, Begun(a))
  BY <1>1, <1>2 DEF FiringInv, LingersInOrder
<1>4. /\ fire[a] \in Seq(Blocks) /\ linger[a] \in Seq(Parcel) /\ n \in Nat
      /\ Begun(a) = n + Len(fire[a])
  BY <1>1, FewFirings DEF BaseInv
<1>5. Begun(a) = n + 1
  BY <1>3, <1>4
<1>6. Head(rest) = linger[a][1] /\ fire[a] # <<>> /\ Head(fire[a]) = fire[a][1]
  BY <1>2, <1>3, <1>4
<1>7. ideal = Head(fire[a])
  BY <1>1, <1>6 DEF FiringInv, ScanInOrder
<1>8. Head(rest).blk = ideal /\ Head(rest).toks = Sent(a, n + 1)
  BY <1>3, <1>5, <1>6, <1>7
<1>9. scheduler_pass_result(a, Sent(a, n + 1))
  BY <1>8 DEF ScanVisit, scheduler_pass_result
<1>10. linger' = [linger EXCEPT ![a] = Tail(@)]
  BY <1>8 DEF ScanVisit
<1> QED
  BY <1>1, <1>2, <1>3, <1>9, <1>10

LEMMA OfLengthOne ==
  ASSUME NEW S, NEW s \in Seq(S), Len(s) = 1
  PROVE  Tail(s) = <<>> /\ s # <<>> /\ DOMAIN s = {1}
<1>1. s # <<>> /\ DOMAIN s = {1}
  OBVIOUS
<1>2. Tail(s) \in Seq(S) /\ Len(Tail(s)) = 0
  BY <1>1
<1>3. Tail(s) = <<>>
  BY <1>2, EmptySeq
<1> QED
  BY <1>1, <1>3

LEMMA FiringsByVisit ==
  ASSUME FewPackets, BaseInv, FiringInv, ScanVisit PROVE FiringInv'
<1> PICK a : a = bactor[iblk]
  OBVIOUS
<1> PICK n : n = Len(done[a])
  OBVIOUS
<1>1. /\ isr = "scan" /\ a \in Actors /\ TypeOK
      /\ Len(fire[a]) = 1 /\ Len(linger[a]) = 1 /\ rest = linger[a] /\ Passing(a)
      /\ scheduler_pass_result(a, Sent(a, n + 1))
      /\ linger' = [linger EXCEPT ![a] = Tail(@)]
  <2>1. TypeOK
    BY BaseTypes
  <2> QED
    BY <2>1, NextVisit
<1>2. /\ UNCHANGED <<flags, bactor, rnd, isr, iblk>>
      /\ rest' = IF Tail(rest) = <<>> THEN linger'[a] ELSE Tail(rest)
  BY DEF ScanVisit, blkVars
<1>3. /\ fire' = [fire EXCEPT ![a] = Tail(@)]
      /\ done' = [done EXCEPT ![a] = Append(@, Head(Sent(a, n + 1)).rnd)]
  BY <1>1 DEF scheduler_pass_result
<1>4. /\ linger'[a] = <<>> /\ fire'[a] = <<>> /\ rest' = <<>>
      /\ \A x \in Actors \ {a} : linger'[x] = linger[x] /\ fire'[x] = fire[x] /\ done'[x] = done[x]
  <2>1. linger[a] \in Seq(Parcel) /\ fire[a] \in Seq(Blocks)
    BY <1>1 DEF TypeOK
  <2>2. Tail(linger[a]) = <<>> /\ Tail(fire[a]) = <<>>
    BY <1>1, <2>1, OfLengthOne
  <2> QED
    BY <1>1, <1>2, <1>3, <2>2 DEF TypeOK
<1>5. \A y : (Passing(y)' <=> Passing(y)) /\ \A x : Working(y, x)' <=> Working(y, x)
  BY <1>2 DEF Passing, Working
<1>6. ScanInOrder'
  <2>1. bactor'[iblk'] = a /\ Len(fire'[a]) = 0
    BY <1>2, <1>4
  <2> QED
    BY <1>4, <2>1 DEF ScanInOrder
<1>7. FiringsInOrder(a)' /\ LingersInOrder(a)'
  <2>1. FiringsInOrder(a) /\ LingersInOrder(a)
    BY <1>1 DEF FiringInv
  <2>2. Lingers(a, 1) /\ DOMAIN fire[a] = {1}
    <3>1. fire[a] \in Seq(Blocks) /\ linger[a] \in Seq(Parcel)
      BY <1>1 DEF TypeOK
    <3>2. linger[a] # <<>> /\ DOMAIN fire[a] = {1}
      BY <1>1, <3>1, OfLengthOne
    <3> QED
      BY <1>1, <3>2 DEF Lingers
  <2>3. \A b \in Blocks : ~Working(a, b)
    BY <2>1, <2>2 DEF FiringsInOrder
  <2>4. DOMAIN fire'[a] = {}
    BY <1>4
  <2> QED
    BY <1>4, <1>5, <2>3, <2>4 DEF FiringsInOrder, LingersInOrder
<1>8. ASSUME NEW x \in Actors \ {a} PROVE FiringsInOrder(x)' /\ LingersInOrder(x)'
  BY <1>1, <1>2, <1>4, <1>5, FiringFrame DEF FiringInv
<1> QED
  BY <1>6, <1>7, <1>8 DEF FiringInv

(* The traversal has ended: nothing of the actor lingers any more. *)
LEMMA FiringsByEnd ==
  ASSUME BaseInv, FiringInv, ScanEnd PROVE FiringInv'
<1> PICK b : b = iblk
  OBVIOUS
<1> PICK a : a = bactor[b]
  OBVIOUS
<1>1. /\ isr = "scan" /\ rest = <<>> /\ isr' = "search" /\ Release(b)
      /\ UNCHANGED <<fire, linger, done, bactor, rnd>>
      /\ TypeOK /\ b \in Blocks /\ a \in Actors
  BY BaseTypes DEF ScanEnd, HandlerState, dagVars
<1>2. linger[a] = <<>>
  BY <1>1 DEF FiringInv, ScanInOrder
<1>3. flags'[b] = {} /\ \A x \in Blocks \ {b} : flags'[x] = flags[x]
  BY <1>1 DEF Release, TypeOK
<1>4. \A y : \A x \in Blocks : Working(y, x)' <=> Working(y, x)
  BY <1>1, <1>3 DEF Working
<1>5. \A y : ~Passing(y)' /\ (y # a => ~Passing(y))
  BY <1>1 DEF Passing
<1>6. ScanInOrder'
  BY <1>1 DEF ScanInOrder
<1>7. ASSUME NEW x \in Actors PROVE FiringsInOrder(x)' /\ LingersInOrder(x)'
  BY <1>1, <1>2, <1>4, <1>5, FiringFrame DEF FiringInv
<1> QED
  BY <1>6, <1>7 DEF FiringInv

-----------------------------------------------------------------------------
(* The whole invariant. *)
OrderInv == BaseInv /\ ChainInv /\ LabelInv /\ PacketInv /\ OldestSelected /\ FiringInv

LEMMA StepFiringInv ==
  ASSUME UndisturbedFiring, FewPackets, OrderInv, [Next]_vars PROVE FiringInv'
<1> USE DEF OrderInv
<1>1. CASE UNCHANGED vars
  <2>1. UNCHANGED <<isr, rest, ideal, iblk, fire, linger, done, bactor, rnd, flags>>
    BY <1>1 DEF vars, dagVars, blkVars, isrVars
  <2>2. \A y : (Passing(y)' <=> Passing(y)) /\ \A x : Working(y, x)' <=> Working(y, x)
    BY <2>1 DEF Passing, Working
  <2>3. \A a \in Actors : FiringsInOrder(a)' /\ LingersInOrder(a)'
    BY <2>1, <2>2, BaseTypes, FiringFrame DEF FiringInv
  <2> QED
    BY <2>1, <2>3 DEF FiringInv, ScanInOrder
<1>2. TokenInv
  BY DEF BaseInv
<1>3. CASE Main
  BY <1>3, FiringsByFire, FiringsByQuietSteps DEF Main
<1>4. CASE Isr
  BY <1>2, <1>4, FiringsByVisit, FiringsByEnd, FiringsBySkip, FiringsByQuietSteps DEF Isr
<1>5. CASE \/ \E b \in Blocks : BlockIdle(b) \/ BlockDone(b)
           \/ \E c \in Channels : DmaDone(c)
  BY <1>5, FiringsByLate, FiringsByNext, FiringsByQuietSteps DEF DmaDone
<1> QED
  BY <1>1, <1>3, <1>4, <1>5 DEF Next

(* Every pass of results is for the actor's next packet. *)
LEMMA EveryPassIsNext ==
  ASSUME UndisturbedFiring, FewPackets, OrderInv, ScanVisit \/ \E c \in Channels : ResultNext(c)
  PROVE  /\ UNCHANGED <<ready, pc, sel>>
         /\ \E a \in Actors, n \in Rounds :
              /\ fire[a] # <<>> /\ n = Len(done[a]) + 1
              /\ scheduler_pass_result(a, Sent(a, n))
<1>1. UNCHANGED <<ready, pc, sel>>
  BY DEF ScanVisit, ResultNext, mainVars
<1>2. ASSUME NEW a \in Actors, fire[a] # <<>> PROVE Len(done[a]) + 1 \in Rounds
  <2>1. /\ fire[a] \in Seq(Blocks) /\ Len(done[a]) \in Nat /\ Begun(a) = Len(done[a]) + Len(fire[a])
        /\ Begun(a) <= NUM_PACKET
    BY FewFirings DEF OrderInv, BaseInv
  <2> DEFINE f == Len(fire[a])
             d == Len(done[a])
  <2>2. f \in Nat \ {0} /\ d \in Nat /\ d + f <= NUM_PACKET
    <3>1. f # 0
      BY <1>2, <2>1, EmptySeq
    <3>2. f \in Nat
      BY <2>1
    <3> HIDE DEF f, d
    <3> QED
      BY <2>1, <3>1, <3>2 DEF f, d
  <2> HIDE DEF f, d
  <2>3. d + 1 \in 1..NUM_PACKET
    BY <2>2, SizeAssumption
  <2> QED
    BY <2>3 DEF Rounds, d
<1>3. CASE ScanVisit
  <2> PICK a : a = bactor[iblk]
    OBVIOUS
  <2> PICK n : n = Len(done[a])
    OBVIOUS
  <2>1. a \in Actors /\ Len(fire[a]) = 1 /\ scheduler_pass_result(a, Sent(a, n + 1))
    BY <1>3, NextVisit DEF OrderInv
  <2>2. fire[a] # <<>>
    <3>1. fire[a] \in Seq(Blocks)
      BY <2>1, FewFirings DEF OrderInv, BaseInv
    <3> QED
      BY <2>1, <3>1, OfLengthOne
  <2> QED
    BY <1>1, <1>2, <2>1, <2>2
<1>4. ASSUME NEW c \in Channels, ResultNext(c)
      PROVE  \E a \in Actors, n \in Rounds :
               /\ fire[a] # <<>> /\ n = Len(done[a]) + 1
               /\ scheduler_pass_result(a, Sent(a, n))
  <2> PICK b : b = chan[c].blk
    OBVIOUS
  <2> PICK a : a = bactor[b]
    OBVIOUS
  <2> PICK n : n = Len(done[a])
    OBVIOUS
  <2>1. a \in Actors /\ fire[a] # <<>> /\ scheduler_pass_result(a, Sent(a, n + 1))
    BY <1>4, NextArrival DEF OrderInv
  <2> QED
    BY <1>2, <2>1
<1> QED
  BY <1>1, <1>3, <1>4

LEMMA StepPacketInv ==
  ASSUME UndisturbedFiring, FewPackets, OrderInv, [Next]_vars PROVE PacketInv'
<1>1. TokenInv /\ PacketInv /\ LabelInv /\ OldestSelected
  BY DEF OrderInv, BaseInv
<1>2. CASE ScanVisit \/ \E c \in Channels : ResultNext(c)
  BY <1>1, <1>2, EveryPassIsNext, PassInOrder
<1>3. CASE actor_fire \/ ready_free \/ SearchTask \/ SearchPseudo
  BY <1>1, <1>3, FireInOrder, FreeInOrder, TaskInOrder, SkipInOrder
<1>4. ASSUME UNCHANGED <<fifo, ready, fire, done>>, \A i : Fired(i)' <=> Fired(i) PROVE PacketInv'
  BY <1>1, <1>4, PacketFrame
<1>5. CASE Poll \/ Select \/ inform_dma \/ inform_dma_last \/ BlockLaunch \/ ScanEnd \/ SearchNext
  <2>1. UNCHANGED <<fifo, ready, fire, done>>
    BY <1>5 DEF Poll, Select, inform_dma, inform_dma_last, BlockLaunch, ScanEnd, SearchNext, dagVars
  <2>2. ASSUME NEW i PROVE Fired(i)' <=> Fired(i)
    BY <1>5 DEF Poll, Select, inform_dma, inform_dma_last, BlockLaunch, ScanEnd, SearchNext, Loop,
                mainVars, Fired
  <2> QED
    BY <1>4, <2>1, <2>2
<1>6. CASE \/ \E b \in Blocks : BlockIdle(b) \/ BlockDone(b)
           \/ \E c \in Channels : LoadDone(c) \/ ResultLate(c)
           \/ UNCHANGED vars
  <2>1. UNCHANGED <<fifo, ready, fire, done, pc, sel>>
    BY <1>6 DEF BlockIdle, BlockDone, LoadDone, ResultLate, vars, dagVars, mainVars
  <2>2. \A i : Fired(i)' <=> Fired(i)
    BY <2>1 DEF Fired
  <2> QED
    BY <1>4, <2>1, <2>2
<1> QED
  BY <1>2, <1>3, <1>5, <1>6 DEF Next, Main, Isr, DmaDone

LEMMA StepOrderInv ==
  ASSUME UndisturbedFiring, FewPackets PROVE OrderInv /\ [Next]_vars => OrderInv'
<1> SUFFICES ASSUME OrderInv, [Next]_vars PROVE OrderInv'
  OBVIOUS
<1>1. BaseInv' /\ ChainInv' /\ LabelInv'
  BY StepBaseInv, StepChainInv, StepLabelInv DEF OrderInv
<1>2. OldestSelected'
  BY SelectsOldest DEF OrderInv, BaseInv, TokenInv
<1> QED
  BY <1>1, <1>2, StepPacketInv, StepFiringInv DEF OrderInv

LEMMA InitOrderInv == Init => OrderInv
<1> SUFFICES ASSUME Init PROVE OrderInv
  OBVIOUS
<1>1. OwnInv /\ TokenInv
  BY OwnInvInit, InitTokenInv
<1>2. ChainInv
  <2>1. \A c \in Channels : chan[c].blk = NULL
    BY DEF Init, FreeChan
  <2> QED
    BY <2>1, SizeAssumption DEF Init, ChainInv
<1>3. ASSUME NEW e \in Edges, NEW i \in DOMAIN fifo[e]
      PROVE  e.src = Host /\ i \in Rounds /\ fifo[e][i] = Packet(i)
  BY <1>3 DEF Init
<1>4. LabelInv
  <2>1. FifosFit
    <3> SUFFICES ASSUME NEW e \in Edges, NEW i \in DOMAIN fifo[e] PROVE Fits(e, fifo[e][i])
      BY DEF FifosFit
    <3>1. e.src = Host /\ e.res = 0 /\ fifo[e][i] = Packet(i)
      BY <1>3, DagAssumption
    <3> QED
      BY <3>1 DEF Fits, Mute, Packet, Real
  <2> QED
    BY <2>1 DEF Init, LabelInv, ReadyFits, FiresFit, LingersFit, RestFits
<1>5. PacketInv
  <2>1. \A a \in Actors : Pending(a) = {} /\ Taken(a) = 0 /\ Begun(a) = 0
    <3> TAKE a \in Actors
    <3>1. Pending(a) = {} /\ fire[a] = <<>> /\ done[a] = <<>>
      BY DEF Init, Pending
    <3>2. Cardinality(Pending(a)) = 0 /\ Len(fire[a]) = 0 /\ Len(done[a]) = 0
      BY <3>1, FS_EmptySet
    <3> QED
      BY <3>1, <3>2 DEF Taken, Begun
  <2>2. DoneInOrder /\ TasksMatch
    BY DEF Init, DoneInOrder, TasksMatch
  <2>3. FifosInOrder
    <3> SUFFICES ASSUME NEW e \in Edges, e.snk \in Actors, NEW i \in DOMAIN fifo[e]
                 PROVE  fifo[e][i].rnd = Taken(e.snk) + i
      BY DEF FifosInOrder
    <3>1. i \in Nat /\ fifo[e][i].rnd = i
      <4>1. i \in 1..NUM_PACKET /\ fifo[e][i] = Real(Host, 0, i)
        BY <1>3 DEF Packet, Rounds
      <4>2. i \in Nat
        BY <4>1, SizeAssumption
      <4> QED
        BY <4>1, <4>2 DEF Real
    <3> QED
      BY <2>1, <3>1
  <2>4. \A a \in Actors : TasksInOrder(a)
    BY <2>1 DEF TasksInOrder
  <2> QED
    BY <2>2, <2>3, <2>4 DEF PacketInv
<1>6. OldestSelected /\ ScanInOrder
  BY DEF Init, OldestSelected, ScanInOrder
<1>7. ASSUME NEW a \in Actors PROVE FiringsInOrder(a) /\ LingersInOrder(a)
  BY DEF Init, FiringsInOrder, LingersInOrder, Working
<1> QED
  BY <1>1, <1>2, <1>4, <1>5, <1>6, <1>7 DEF OrderInv, BaseInv, FiringInv

(* Tokens, tasks and firings stay in the order of their packets between    *)
(* packet_input and scheduler_pass_result, whatever the interrupts do.     *)
THEOREM OrderInvariant == ASSUME UndisturbedFiring, FewPackets PROVE Spec => []OrderInv
<1> QED
  BY InitOrderInv, StepOrderInv, PTL DEF Spec

-----------------------------------------------------------------------------
(* All inputs of a task derive from the same packet (ready_create).        *)
THEOREM InputsAlwaysMatch ==
  ASSUME UndisturbedFiring, FewPackets PROVE Spec => []InputsMatch
<1>1. OrderInv => InputsMatch
  BY DEF OrderInv, PacketInv, TasksMatch, InputsMatch
<1> QED
  BY <1>1, OrderInvariant, PTL

(* A block's entries in a fire list, counted by what they stand for. *)
LEMMA FiringsCounted ==
  ASSUME OrderInv, FewPackets, AtRest, NEW a \in Actors, NEW b \in Blocks
  PROVE  Cardinality({i \in DOMAIN fire[a] : fire[a][i] = b}) =
           Cardinality({i \in DOMAIN linger[a] : linger[a][i].blk = b})
             + (IF "INFLIGHT" \in flags[b] /\ bactor[b] = a THEN 1 ELSE 0)
<1> DEFINE F == {i \in DOMAIN fire[a] : fire[a][i] = b}
           L == {i \in DOMAIN linger[a] : linger[a][i].blk = b}
           W == {i \in F : ~Lingers(a, i)}
           M == {i \in F : Lingers(a, i)}
           w == IF Working(a, b) THEN 1 ELSE 0
<1>1. /\ fire[a] \in Seq(Blocks) /\ linger[a] \in Seq(Parcel)
      /\ Len(fire[a]) \in 0..2 /\ Len(done[a]) \in Nat
  BY FewFirings DEF OrderInv, BaseInv
<1>2. FiringsInOrder(a) /\ LingersInOrder(a) /\ ~Passing(a)
  BY DEF OrderInv, FiringInv, AtRest, Passing
<1>3. Working(a, b) <=> "INFLIGHT" \in flags[b] /\ bactor[b] = a
  BY DEF Working, AtRest
<1>4. /\ DOMAIN fire[a] = 1..Len(fire[a]) /\ IsFiniteSet(1..Len(fire[a]))
  <2>1. DOMAIN fire[a] = 1..Len(fire[a]) /\ Len(fire[a]) \in Int
    BY <1>1
  <2> QED
    BY <2>1, FS_Interval
<1>5. F = W \cup M /\ W \cap M = {} /\ IsFiniteSet(W) /\ IsFiniteSet(M)
  <2>1. W \subseteq 1..Len(fire[a]) /\ M \subseteq 1..Len(fire[a])
    BY <1>4
  <2> QED
    BY <1>4, <2>1, FS_Subset
<1>6. Cardinality(F) = Cardinality(W) + Cardinality(M)
  <2>1. Cardinality(F) = Cardinality(W) + Cardinality(M) - Cardinality({})
    BY <1>5, FS_Union
  <2>2. Cardinality({}) = 0 /\ Cardinality(W) \in Nat /\ Cardinality(M) \in Nat
    BY <1>5, FS_EmptySet, FS_CardinalityType
  <2> HIDE DEF F, W, M
  <2> QED
    BY <2>1, <2>2
<1>7. Cardinality(W) = w
  <2>1. CASE Working(a, b)
    <3>1. PICK i \in DOMAIN fire[a] : fire[a][i] = b /\ ~Lingers(a, i)
      BY <1>2, <2>1 DEF FiringsInOrder
    <3>2. ASSUME NEW j \in W PROVE j = i
      <4> DEFINE d == Len(done[a])
      <4>1. d \in Nat /\ rnd[b] = d + i /\ rnd[b] = d + j /\ i \in Nat /\ j \in Nat
        BY <1>1, <1>2, <1>4, <3>1, <3>2 DEF FiringsInOrder
      <4> HIDE DEF d
      <4> QED
        BY <4>1
    <3>3. W = {i}
      BY <3>1, <3>2
    <3> QED
      BY <2>1, <3>3, FS_Singleton
  <2>2. CASE ~Working(a, b)
    <3>1. W = {}
      BY <1>2, <2>2 DEF FiringsInOrder
    <3> QED
      BY <2>2, <3>1, FS_EmptySet
  <2> QED
    BY <2>1, <2>2
<1>8. Cardinality(M) = Cardinality(L)
  <2>1. CASE linger[a] = <<>>
    <3>1. M = {} /\ L = {}
      BY <2>1 DEF Lingers
    <3> QED
      BY <3>1
  <2>2. CASE linger[a] # <<>>
    <3>1. /\ Len(linger[a]) = 1 /\ Len(fire[a]) = 2
          /\ linger[a][1].blk = fire[a][Len(fire[a])]
      BY <1>2, <2>2 DEF LingersInOrder
    <3>2. DOMAIN linger[a] = {1} /\ DOMAIN fire[a] = {1, 2}
      BY <1>1, <3>1
    <3>3. CASE fire[a][2] = b
      <4>1. M = {2} /\ L = {1}
        BY <2>2, <3>1, <3>2, <3>3 DEF Lingers
      <4> QED
        BY <4>1, FS_Singleton
    <3>4. CASE fire[a][2] # b
      <4>1. M = {} /\ L = {}
        BY <2>2, <3>1, <3>2, <3>4 DEF Lingers
      <4> QED
        BY <4>1
    <3> QED
      BY <3>3, <3>4
  <2> QED
    BY <2>1, <2>2
<1>9. Cardinality(M) \in Nat /\ w \in 0..1
  BY <1>5, FS_CardinalityType
<1> HIDE DEF F, L, W, M
<1>10. Cardinality(F) = Cardinality(L) + w
  BY <1>6, <1>7, <1>8, <1>9
<1> QED
  BY <1>3, <1>10 DEF F, L

(* The fire list of an actor holds exactly the blocks that work for it and *)
(* those whose results linger (add_firelist, scheduler_pass_result).       *)
THEOREM FireListsAccount ==
  ASSUME UndisturbedFiring, FewPackets PROVE Spec => []FireListAccounts
<1>1. OrderInv => FireListAccounts
  BY FiringsCounted DEF FireListAccounts, Number
<1> QED
  BY <1>1, OrderInvariant, PTL

(* Passing on the next packet is a step of Dataflow if some predecessor's  *)
(* tokens for it have been taken, or wait in the fifos.                    *)
LEMMA ProcessStep ==
  ASSUME TypeOK, NEW a \in Actors, Len(done[a]) + 1 <= NUM_PACKET,
         \A e \in Edges : e.snk = a => Given(e) >= Len(done[a]) + 1,
         done' = [done EXCEPT ![a] = Append(@, Len(done[a]) + 1)]
  PROVE  Flow!Next
<1>1. ASSUME NEW p \in Actors, <<p, a>> \in {<<e.src, e.snk>> : e \in Interior}
      PROVE  Len(done[p]) >= Len(done[a]) + 1
  <2>1. PICK e \in Interior : e.src = p /\ e.snk = a
    BY <1>1
  <2> QED
    BY <2>1 DEF Interior, Given
<1>2. Flow!Process(a)
  BY <1>1 DEF Flow!Process
<1> QED
  BY <1>2 DEF Flow!Next

(* What an actor in fire has taken, its predecessors have passed on. *)
LEMMA TakenWasGiven ==
  ASSUME TokenInv, NEW a \in Actors, Len(done[a]) + 1 <= Taken(a)
  PROVE  /\ Len(done[a]) + 1 <= NUM_PACKET
         /\ \A e \in Edges : e.snk = a => Given(e) >= Len(done[a]) + 1
<1> DEFINE d == Len(done[a])
<1>0. TypeOK
  BY DEF TokenInv, SelectInv, TypeInv
<1>1. d \in Nat /\ Taken(a) \in Nat /\ Taken(a) <= NUM_PACKET /\ d + 1 <= Taken(a)
  BY <1>0, TakenType DEF TokenInv, NeverAhead
<1>2. ASSUME NEW e \in Edges, e.snk = a
      PROVE  Len(fifo[e]) \in Nat /\ Given(e) = Len(fifo[e]) + Taken(a)
  <2>1. fifo[e] \in Seq(Token)
    BY <1>0 DEF TypeOK
  <2> QED
    BY <1>2, <2>1 DEF TokenInv, Conserved
<1> HIDE DEF d
<1>3. d + 1 <= NUM_PACKET
  BY <1>1, SizeAssumption
<1>4. ASSUME NEW e \in Edges, e.snk = a PROVE Given(e) >= d + 1
  <2> DEFINE q == Len(fifo[e])
  <2>1. q \in Nat /\ Given(e) = q + Taken(a)
    BY <1>2, <1>4
  <2> HIDE DEF q
  <2> QED
    BY <1>1, <2>1
<1> QED
  BY <1>3, <1>4 DEF d

(* A skipped actor has taken what it has passed on, and each of its inputs *)
(* waits with one token more.                                              *)
LEMMA SkipWasGiven ==
  ASSUME TokenInv, NEW a \in Actors, actor_ready(a), Taken(a) = Len(done[a])
  PROVE  /\ Len(done[a]) + 1 <= NUM_PACKET
         /\ \A e \in Edges : e.snk = a => Given(e) >= Len(done[a]) + 1
<1> DEFINE d == Len(done[a])
<1>0. TypeOK
  BY DEF TokenInv, SelectInv, TypeInv
<1>1. d \in Nat /\ Taken(a) = d /\ Taken(a) < NUM_PACKET
  BY <1>0, TakenType, ReadyIsBehind
<1>2. ASSUME NEW e \in Edges, e.snk = a
      PROVE  Len(fifo[e]) \in Nat \ {0} /\ Given(e) = Len(fifo[e]) + Taken(a)
  <2>1. fifo[e] \in Seq(Token) /\ fifo[e] # <<>>
    BY <1>0, <1>2 DEF TypeOK, actor_ready, fifo_empty, In
  <2>2. Len(fifo[e]) \in Nat \ {0}
    BY <2>1, EmptySeq
  <2> QED
    BY <1>2, <2>2 DEF TokenInv, Conserved
<1> HIDE DEF d
<1>3. d + 1 <= NUM_PACKET
  BY <1>1, SizeAssumption
<1>4. ASSUME NEW e \in Edges, e.snk = a PROVE Given(e) >= d + 1
  <2> DEFINE q == Len(fifo[e])
  <2>1. q \in Nat \ {0} /\ Given(e) = q + Taken(a)
    BY <1>2, <1>4
  <2> HIDE DEF q
  <2> QED
    BY <1>1, <2>1
<1> QED
  BY <1>3, <1>4 DEF d

(* The scheduler implements Dataflow: each pass of scheduler_pass_result   *)
(* and each skip of ready_search is one actor's processing of its next     *)
(* packet, after all its predecessors, and every other step is a stutter.  *)
THEOREM SchedulerImplementsDataflow ==
  ASSUME UndisturbedFiring, FewPackets PROVE Spec => ImplementsDataflow
<1>1. Init => Flow!Init
  BY DEF Init, Flow!Init
<1>2. ASSUME OrderInv, [Next]_vars PROVE [Flow!Next]_done
  <2>0. TokenInv /\ TypeOK
    BY <1>2, BaseTypes DEF OrderInv, BaseInv
  <2>1. CASE ScanVisit \/ \E c \in Channels : ResultNext(c)
    <3>1. PICK a \in Actors, n \in Rounds :
            /\ fire[a] # <<>> /\ n = Len(done[a]) + 1
            /\ scheduler_pass_result(a, Sent(a, n))
      BY <1>2, <2>1, EveryPassIsNext
    <3>2. Head(Sent(a, n)).rnd = n
      <4>1. PICK e \in Out(a) : TRUE
        BY DagAssumption
      <4> QED
        BY <4>1, SentToken
    <3>3. done' = [done EXCEPT ![a] = Append(@, n)]
      BY <3>1, <3>2 DEF scheduler_pass_result
    <3>4. Len(done[a]) + 1 <= Taken(a)
      <4> DEFINE f == Len(fire[a])
                 d == Len(done[a])
      <4>1. Taken(a) \in Nat /\ f \in Nat /\ d \in Nat /\ f + d <= Taken(a)
        BY <2>0, TakenType
      <4>2. f # 0
        <5>1. fire[a] \in Seq(Blocks)
          BY <2>0 DEF TypeOK
        <5> QED
          BY <3>1, <5>1, EmptySeq
      <4> HIDE DEF f, d
      <4>3. d + 1 <= Taken(a)
        BY <4>1, <4>2
      <4> QED
        BY <4>3 DEF d
    <3> QED
      BY <2>0, <3>1, <3>3, <3>4, TakenWasGiven, ProcessStep
  <2>2. CASE SearchPseudo
    <3> PICK a : a = Found
      OBVIOUS
    <3>1. /\ a \in Actors /\ a \in Skipped /\ actor_ready(a)
          /\ Head(fifo[In0(a)]).rnd = Len(done[a]) + 1
      BY <1>2, <2>0, <2>2, SkipIsNext DEF OrderInv
    <3>2. done' = [done EXCEPT ![a] = Append(@, Len(done[a]) + 1)]
      BY <2>2, <3>1 DEF SearchPseudo
    <3>3. Taken(a) = Len(done[a])
      BY <1>2, <2>0, <3>1, SkippedHasNoTask DEF OrderInv
    <3> QED
      BY <2>0, <3>1, <3>2, <3>3, SkipWasGiven, ProcessStep
  <2>3. CASE ~ScanVisit /\ ~SearchPseudo /\ ~(\E c \in Channels : ResultNext(c))
    <3>1. UNCHANGED done
      BY <1>2, <2>3 DEF Next, Main, Poll, Select, actor_fire, inform_dma, inform_dma_last, ready_free,
                 Isr, BlockLaunch, ScanEnd, SearchNext, SearchTask, BlockIdle, BlockDone,
                 DmaDone, LoadDone, ResultLate, vars, dagVars
    <3> QED
      BY <3>1
  <2> QED
    BY <2>1, <2>2, <2>3
<1>3. Spec => []OrderInv
  BY OrderInvariant
<1> QED
  BY <1>1, <1>2, <1>3, PTL DEF Spec, ImplementsDataflow, Flow!Spec

-----------------------------------------------------------------------------
(* Transfers.  From actor_fire to the last dma_transfer_link, the chain    *)
(* under construction holds inputs of the task the block was bound to, and *)
(* so does the channel until its transfer is done.                         *)
InputsOf(b, toks) ==
  \A i \in DOMAIN toks : /\ toks[i].rnd = rnd[b]
                         /\ \E e \in In(bactor[b]) : e.src = toks[i].src /\ e.res = toks[i].res

LinkingInputs ==
  pc = "link" => /\ InputsOf(block, link.toks)
                 /\ todo \subseteq ready[sel].deps
                 /\ rnd[block] = Packetof(ready[sel])

InputInv == /\ LinkingInputs
            /\ \A c \in Channels, b \in Blocks :
                 chan[c].blk = b /\ "RESULT" \notin flags[b] => InputsOf(b, chan[c].toks)

(* A dependency of the task at hand is an input of its actor's.            *)
LEMMA NextInput ==
  ASSUME OrderInv, LinkingInputs, pc = "link", NEW d \in todo
  PROVE  /\ link.toks \in Seq(Token)
         /\ Chained(<<d.tok>>) = link.toks \o <<d.tok>>
         /\ InputsOf(block, Chained(<<d.tok>>))
<1>1. TypeOK /\ block \in Blocks /\ sel \in DOMAIN ready /\ ready \in Seq(ReadyTask)
  BY BaseTypes DEF OrderInv, LoopState, TypeOK
<1>2. bactor[block] = ready[sel].actor
  BY DEF OrderInv, BaseInv, TokenInv, SelectInv, SelectedActorBound
<1>3. d \in ready[sel].deps
  BY DEF LinkingInputs
<1>4. d.tok.rnd = rnd[block]
  BY <1>1, <1>3 DEF OrderInv, PacketInv, TasksMatch, LinkingInputs
<1>5. \E e \in In(bactor[block]) : e.src = d.tok.src /\ e.res = d.tok.res
  BY <1>1, <1>2, <1>3 DEF OrderInv, LabelInv, ReadyFits, TaskFits, Fits
<1>6. link.toks \in Seq(Token) /\ Chained(<<d.tok>>) = link.toks \o <<d.tok>>
  BY <1>1 DEF TypeOK, Chained, OrderInv, ChainInv
<1> DEFINE toks == link.toks
<1>7. ASSUME NEW i \in DOMAIN (toks \o <<d.tok>>)
      PROVE  \/ i \in DOMAIN toks /\ (toks \o <<d.tok>>)[i] = toks[i]
             \/ (toks \o <<d.tok>>)[i] = d.tok
  <2>1. toks \in Seq(Token)
    BY <1>6
  <2>2. d.tok \in Token
    BY <1>1 DEF TypeOK, Dependency
  <2> HIDE DEF toks
  <2> QED
    BY <2>1, <2>2
<1>8. InputsOf(block, toks \o <<d.tok>>)
  BY <1>4, <1>5, <1>7 DEF InputsOf, LinkingInputs
<1> QED
  BY <1>6, <1>8

(* Nothing that a channel loads for a block has changed. *)
LoadsKept ==
  /\ pc' # "link"
  /\ \A c \in Channels, b \in Blocks :
       chan'[c].blk = b /\ "RESULT" \notin flags'[b] =>
         /\ chan'[c] = chan[c] /\ "RESULT" \notin flags[b]
         /\ bactor'[b] = bactor[b] /\ rnd'[b] = rnd[b]

LEMMA InputFrame == ASSUME InputInv, LoadsKept PROVE InputInv'
BY DEF InputInv, LinkingInputs, InputsOf, LoadsKept

LEMMA MainInputInv ==
  ASSUME UndisturbedFiring, OrderInv, InputInv, Main PROVE InputInv'
<1>0. TypeOK /\ LoopState /\ Ownership
  BY BaseTypes DEF OrderInv
<1>1. CASE Poll \/ Select \/ ready_free
  <2>1. UNCHANGED <<chan, flags, bactor, rnd>> /\ pc' # "link"
    BY <1>1 DEF Poll, Select, ready_free, blkVars, dmaVars
  <2> QED
    BY <2>1, InputFrame DEF LoadsKept
<1>2. CASE actor_fire
  <2>1. /\ isr = "none" /\ pc = "fire" /\ UNCHANGED <<chan, ready, sel, block>>
        /\ link' = [open |-> TRUE, toks |-> Chained(<<>>)]
        /\ todo' = ready[sel].deps
        /\ rnd' = [rnd EXCEPT ![block] = Packetof(ready[sel])]
        /\ block \in Blocks /\ Held(block)
    BY <1>0, <1>2 DEF actor_fire, Loop, LoopState, Held, Task, Packetof
  <2>2. \A b \in Blocks \ {block} : flags'[b] = flags[b] /\ bactor'[b] = bactor[b] /\ rnd'[b] = rnd[b]
    BY <1>0, <1>2 DEF actor_fire, TypeOK
  <2>3. \A c \in Channels, b \in Blocks : chan[c].blk = b => b # block
    BY <1>0, <2>1 DEF Ownership, Serving
  <2>4. link'.toks = <<>>
    BY <2>1 DEF OrderInv, ChainInv, NoLink, Chained
  <2>5. rnd'[block] = Packetof(ready[sel])
    BY <1>0, <2>1 DEF TypeOK
  <2>6. InputsOf(block, link.toks)'
    BY <2>4 DEF InputsOf
  <2>7. LinkingInputs'
    BY <2>1, <2>5, <2>6 DEF LinkingInputs, Packetof
  <2> QED
    BY <2>1, <2>2, <2>3, <2>7 DEF InputInv, InputsOf
<1>3. CASE inform_dma
  <2>1. PICK d \in todo :
          /\ link' = [open |-> TRUE, toks |-> Chained(<<d.tok>>)]
          /\ todo' = todo \ {d}
    BY <1>3 DEF inform_dma
  <2>2. pc = "link" /\ UNCHANGED <<pc, chan, flags, bactor, rnd, ready, sel, block>>
    BY <1>3 DEF inform_dma, Loop, blkVars, dagVars
  <2>3. InputsOf(block, Chained(<<d.tok>>))
    BY <2>2, NextInput DEF InputInv
  <2> PICK toks : toks = Chained(<<d.tok>>)
    OBVIOUS
  <2>4. link'.toks = toks /\ InputsOf(block, toks)
    BY <2>1, <2>3
  <2>5. InputsOf(block, link.toks)'
    BY <2>2, <2>4 DEF InputsOf
  <2> QED
    BY <2>1, <2>2, <2>5 DEF InputInv, LinkingInputs, InputsOf, Packetof
<1>4. CASE inform_dma_last
  <2>1. PICK d \in todo : dma_transfer_channel(block, Chained(<<d.tok>>))
    BY <1>4 DEF inform_dma_last
  <2>2. /\ pc = "link" /\ pc' = "free" /\ UNCHANGED <<flags, bactor, rnd, block>>
        /\ block \in Blocks
    BY <1>0, <1>4 DEF inform_dma_last, Loop, blkVars, LoopState
  <2> PICK toks : toks = Chained(<<d.tok>>)
    OBVIOUS
  <2>3. InputsOf(block, toks)
    BY <2>2, NextInput DEF InputInv
  <2>4. PICK c \in Channels : chan' = [chan EXCEPT ![c] = [blk |-> block, toks |-> toks]]
    BY <2>1 DEF dma_transfer_channel, FreeChannels
  <2>5. /\ chan'[c].blk = block /\ chan'[c].toks = toks
        /\ \A x \in Channels : x # c => chan'[x] = chan[x]
    BY <1>0, <2>4 DEF TypeOK
  <2>6. \A b, t : InputsOf(b, t)' <=> InputsOf(b, t)
    BY <2>2 DEF InputsOf
  <2> QED
    BY <2>2, <2>3, <2>5, <2>6 DEF InputInv, LinkingInputs, InputsOf
<1> QED
  BY <1>1, <1>2, <1>3, <1>4 DEF Main

LEMMA HandlerLoads ==
  ASSUME OrderInv, Isr PROVE LoadsKept
<1>0. TypeOK /\ HandlerState /\ Ownership /\ pc # "link"
  BY BaseTypes DEF OrderInv, ChainInv, Isr, BlockLaunch, ScanVisit, ScanEnd, SearchNext, SearchTask,
                   SearchPseudo, Searching
<1>1. CASE BlockLaunch
  <2>1. /\ isr = "launch" /\ UNCHANGED <<pc, bactor, rnd>> /\ iblk \in Blocks
        /\ flags' = [flags EXCEPT ![iblk] = @ \cup {"INFIFO"}]
        /\ dma_transfer_channel(iblk, link.toks)
    BY <1>0, <1>1 DEF BlockLaunch, HandlerState, mainVars
  <2>2. PICK c \in Channels : chan' = [chan EXCEPT ![c] = [blk |-> iblk, toks |-> link.toks]]
    BY <2>1 DEF dma_transfer_channel, FreeChannels
  <2>3. chan'[c].blk = iblk /\ \A x \in Channels : x # c => chan'[x] = chan[x]
    BY <1>0, <2>2 DEF TypeOK
  <2>4. \A b \in Blocks : "RESULT" \in flags'[b] <=> "RESULT" \in flags[b]
    BY <1>0, <2>1 DEF TypeOK
  <2>5. "RESULT" \in flags[iblk]
    BY <1>0, <2>1 DEF Ownership
  <2> QED
    BY <1>0, <2>1, <2>3, <2>4, <2>5 DEF LoadsKept
<1>2. CASE ScanEnd
  <2>1. isr = "scan" /\ UNCHANGED <<pc, bactor, rnd, chan>> /\ iblk \in Blocks
    BY <1>0, <1>2 DEF ScanEnd, HandlerState, mainVars, dmaVars
  <2>2. \A c \in Channels, b \in Blocks : chan[c].blk = b => b # iblk
    BY <1>0, <2>1 DEF Ownership, Serving
  <2>3. \A b \in Blocks \ {iblk} : flags'[b] = flags[b]
    BY <1>0, <1>2 DEF ScanEnd, Release, TypeOK
  <2> QED
    BY <1>0, <2>1, <2>2, <2>3 DEF LoadsKept
<1>3. CASE ScanVisit \/ SearchNext \/ SearchTask \/ SearchPseudo
  <2>1. UNCHANGED <<pc, bactor, rnd, chan, flags>>
    BY <1>3 DEF ScanVisit, SearchNext, SearchTask, SearchPseudo, mainVars, dmaVars, blkVars
  <2> QED
    BY <1>0, <2>1 DEF LoadsKept
<1> QED
  BY <1>1, <1>2, <1>3 DEF Isr

LEMMA InterruptLoads ==
  ASSUME UndisturbedFiring, OrderInv,
         \/ \E b \in Blocks : BlockIdle(b) \/ BlockDone(b)
         \/ \E c \in Channels : DmaDone(c)
  PROVE  LoadsKept
<1>0. TypeOK /\ OneTransferPerBlock
  BY BaseTypes DEF OrderInv
<1>1. pc' # "link" /\ UNCHANGED <<bactor, rnd>>
  <2>1. Interruptible /\ pc' = pc /\ UNCHANGED <<bactor, rnd>>
    BY DEF BlockIdle, BlockDone, DmaDone, LoadDone, ResultLate, ResultNext, Arrives, mainVars, blkVars
  <2> QED
    BY <2>1, NotWhileLinking DEF OrderInv
<1>2. ASSUME NEW b \in Blocks, BlockIdle(b) \/ BlockDone(b) PROVE LoadsKept
  <2>1. UNCHANGED chan
    BY <1>2 DEF BlockIdle, BlockDone, dmaVars
  <2>2. \/ flags' = [flags EXCEPT ![b] = @ \cup {"INFIFO"}]
        \/ flags' = [flags EXCEPT ![b] = @ \cup {"RESULT"}]
    BY <1>2 DEF BlockIdle, BlockDone
  <2>3. \A x \in Blocks : "RESULT" \in flags[x] => "RESULT" \in flags'[x]
    <3>1. DOMAIN flags = Blocks
      BY <1>0 DEF TypeOK
    <3> QED
      BY <2>2, <3>1
  <2> QED
    BY <1>1, <2>1, <2>3 DEF LoadsKept
<1>3. ASSUME NEW c \in Channels, DmaDone(c) PROVE LoadsKept
  <2>1. chan' = [chan EXCEPT ![c] = FreeChan]
    BY <1>3 DEF DmaDone, LoadDone, ResultLate, ResultNext, Arrives
  <2>2. \A x \in Channels, b \in Blocks : chan'[x].blk = b => x # c /\ chan'[x] = chan[x]
    BY <1>0, <2>1, SizeAssumption DEF TypeOK, FreeChan
  <2>3. \A b \in Blocks : b # chan[c].blk => flags'[b] = flags[b]
    BY <1>0, <1>3 DEF DmaDone, LoadDone, ResultLate, ResultNext, Release, blkVars, TypeOK
  <2>4. \A x \in Channels, b \in Blocks : chan'[x].blk = b => b # chan[c].blk
    BY <1>0, <2>2, SizeAssumption DEF OneTransferPerBlock
  <2> QED
    BY <1>1, <2>2, <2>3, <2>4 DEF LoadsKept
<1> QED
  BY <1>2, <1>3

LEMMA StepInputInv ==
  ASSUME UndisturbedFiring, FewPackets
  PROVE  OrderInv /\ InputInv /\ [Next]_vars => (OrderInv /\ InputInv)'
<1>1. ASSUME InputInv, UNCHANGED vars PROVE InputInv'
  BY <1>1 DEF vars, dagVars, blkVars, dmaVars, mainVars, InputInv, LinkingInputs, InputsOf, Packetof
<1> QED
  BY <1>1, StepOrderInv, InputFrame, MainInputInv, HandlerLoads, InterruptLoads DEF Next

(* A transfer carries either inputs of the block's task or its results,    *)
(* all of the packet the block works on: dma_transfer_link never mixes two *)
(* transfers in one chain (head_lli, token_list).                          *)
THEOREM TransfersStayPure ==
  ASSUME UndisturbedFiring, FewPackets PROVE Spec => []TransfersPure
<1>1. Init => OrderInv /\ InputInv
  <2>1. Init => InputInv
    BY SizeAssumption DEF Init, InputInv, LinkingInputs, FreeChan
  <2> QED
    BY <2>1, InitOrderInv
<1>2. OrderInv /\ InputInv => TransfersPure
  <2> SUFFICES ASSUME OrderInv, InputInv, NEW c \in Channels, chan[c].blk # NULL,
                      NEW i \in DOMAIN chan[c].toks
               PROVE  LET b == chan[c].blk
                          t == chan[c].toks[i]
                      IN  /\ t.rnd = rnd[b]
                          /\ IF "RESULT" \in flags[b] THEN t.src = bactor[b]
                             ELSE \E e \in In(bactor[b]) : e.src = t.src /\ e.res = t.res
    BY DEF TransfersPure
  <2> DEFINE b == chan[c].blk
  <2>1. b \in Blocks
    BY BaseTypes DEF OrderInv, TypeOK, Parcel, FreeChan
  <2>2. CASE "RESULT" \in flags[b]
    <3>1. chan[c].toks = Sent(bactor[b], rnd[b])
      BY <2>1, <2>2 DEF OrderInv, ChainInv
    <3>2. chan[c].toks[i].src = bactor[b] /\ chan[c].toks[i].rnd = rnd[b]
      BY <3>1 DEF Sent, Real
    <3> QED
      BY <2>2, <3>2
  <2>3. CASE "RESULT" \notin flags[b]
    BY <2>1, <2>3 DEF InputInv, InputsOf
  <2> QED
    BY <2>2, <2>3
<1> QED
  BY <1>1, <1>2, StepInputInv, PTL DEF Spec
-----------------------------------------------------------------------------
(* Reference counts: data->cnt is exactly the number of consumers a datum  *)
(* still has.  The count is first tied to how far the firings of its       *)
(* source and its sinks have come, step by step (CountsExact), and then,   *)
(* between two handlers, to the places where its tokens are.               *)

(* Reference counts.  The packets go into the fifo of one input from the   *)
(* host, the root's.                                                       *)
OneRoot == Cardinality(Fanout(Host, 0)) = 1

(* ready_search drops the tokens of a skipped task without giving up their *)
(* references: counts are exact if these are all pseudo tokens.            *)
PureSkips == \A a \in Skipped : \A e \in In(a) : Mute(Skipped, e)

(* The blocks at work on a packet, from actor_fire on; their inputs have   *)
(* been copied unless they are idle still, and their results exist when    *)
(* they are finished.                                                      *)
AtWork(a, n) == {b \in Blocks : Working(a, b) /\ rnd[b] = n}
Loaded(a, n) == n <= Begun(a) /\ \A b \in AtWork(a, n) : hw[b] # "idle"
Made(a, n)   == n <= Begun(a) /\ \A b \in AtWork(a, n) : hw[b] = "finished"

(* A datum exists once alloc_result has created it, and each of its        *)
(* consumers refers to it until recycle_garbage has done with its input.   *)
Returns(d)  == d.src # Host => d.src \notin Skipped /\ d.res < RATEMATCH_NUM
Produced(d) == Returns(d) /\ (d.src # Host => Made(d.src, d.rnd))
Unloaded(d) == {e \in Fanout(d.src, d.res) : e.snk \in Actors => ~Loaded(e.snk, d.rnd)}

CountsExact == \A d \in Data :
  cnt[d] = IF Produced(d) THEN Cardinality(Unloaded(d)) ELSE 0

(* Whether an input has been copied, or a result made, changes when its    *)
(* block is bound, interrupts at its end, or its transfer is done.         *)
LEMMA WorkFrame ==
  ASSUME NEW a, NEW n, n <= Begun(a) <=> (n <= Begun(a))',
         \A b \in AtWork(a, n)' : b \in AtWork(a, n) /\ hw'[b] = hw[b],
         \A b \in AtWork(a, n) : hw[b] # "finished" => b \in AtWork(a, n)'
  PROVE  (Loaded(a, n)' <=> Loaded(a, n)) /\ (Made(a, n)' <=> Made(a, n))
<1>1. Loaded(a, n)' <=> Loaded(a, n)
  <2>1. \A b \in AtWork(a, n) : hw[b] = "finished" => hw[b] # "idle"
    OBVIOUS
  <2> QED
    BY <2>1 DEF Loaded
<1> QED
  BY <1>1 DEF Made

(* A step that changes no count and nothing of this keeps them exact.      *)
LEMMA CountsFrame ==
  ASSUME PureSkips, CountsExact, cnt' = cnt,
         \A a \in Actors \ Skipped, n \in Rounds :
           (Loaded(a, n)' <=> Loaded(a, n)) /\ (Made(a, n)' <=> Made(a, n))
  PROVE  CountsExact'
<1> SUFFICES ASSUME NEW d \in Data
             PROVE  cnt'[d] = IF Produced(d)' THEN Cardinality(Unloaded(d)') ELSE 0
  BY DEF CountsExact
<1>1. d.src \in Actors \cup {Host} /\ d.rnd \in Rounds
  BY DEF Data, Token
<1>2. Produced(d)' <=> Produced(d)
  BY <1>1 DEF Produced, Returns
<1>3. CASE Returns(d)
  <2>1. ASSUME NEW e \in Fanout(d.src, d.res), e.snk \in Actors PROVE e.snk \notin Skipped
    <3>1. e \in In(e.snk) /\ e.src = d.src /\ e.res = d.res
      BY DEF Fanout, Out, In
    <3>2. ~Mute(Skipped, e)
      BY <1>3, <3>1 DEF Mute, Returns
    <3> QED
      BY <3>1, <3>2 DEF PureSkips
  <2>2. Unloaded(d)' = Unloaded(d)
    BY <1>1, <2>1 DEF Unloaded
  <2> QED
    BY <1>2, <2>2 DEF CountsExact
<1>4. CASE ~Returns(d)
  BY <1>4 DEF CountsExact, Produced, Returns
<1> QED
  BY <1>3, <1>4

(* A block is at work for an actor at one packet: a fire list names each   *)
(* packet once.                                                            *)
LEMMA OneAtWork ==
  ASSUME OrderInv, NEW a \in Actors, NEW n, NEW b \in AtWork(a, n), NEW x \in AtWork(a, n)
  PROVE  b = x /\ n \in Nat /\ Len(done[a]) < n /\ n <= Begun(a)
<1>1. FiringsInOrder(a) /\ TypeOK
  BY BaseTypes DEF OrderInv, FiringInv
<1>2. PICK i \in DOMAIN fire[a] : fire[a][i] = b /\ ~Lingers(a, i)
  BY <1>1 DEF FiringsInOrder, AtWork
<1>3. PICK j \in DOMAIN fire[a] : fire[a][j] = x /\ ~Lingers(a, j)
  BY <1>1 DEF FiringsInOrder, AtWork
<1>4. rnd[b] = n /\ rnd[x] = n /\ rnd[b] = Len(done[a]) + i /\ rnd[x] = Len(done[a]) + j
  BY <1>1, <1>2, <1>3 DEF FiringsInOrder, AtWork
<1>5. Len(done[a]) \in Nat /\ Len(fire[a]) \in Nat /\ i \in 1..Len(fire[a]) /\ j \in 1..Len(fire[a])
  BY <1>1 DEF TypeOK
<1> HIDE DEF OrderInv
<1> DEFINE k == Len(done[a])
           f == Len(fire[a])
<1>6. Begun(a) = k + f
  BY DEF Begun
<1> HIDE DEF k, f
<1>7. i = j /\ n \in Nat /\ k < n /\ n <= k + f
  <2>1. n = k + i /\ n = k + j /\ k \in Nat /\ f \in Nat /\ i \in 1..f /\ j \in 1..f
    BY <1>4, <1>5 DEF k, f
  <2> QED
    BY <2>1
<1> QED
  BY <1>2, <1>3, <1>6, <1>7 DEF k

(* The steps that change neither a count nor what has been copied or made. *)
LEMMA QuietWork ==
  ASSUME OrderInv, NEW a \in Actors, NEW n,
         \/ Poll \/ Select \/ inform_dma \/ inform_dma_last \/ ready_free
         \/ BlockLaunch \/ SearchNext \/ SearchTask
         \/ \E b \in Blocks : BlockIdle(b)
  PROVE  (Loaded(a, n)' <=> Loaded(a, n)) /\ (Made(a, n)' <=> Made(a, n))
<1>0. TypeOK
  BY BaseTypes DEF OrderInv
<1>1. UNCHANGED <<fire, done, bactor, rnd, hw>> /\ isr # "scan" /\ isr' # "scan"
  BY DEF Poll, Select, inform_dma, inform_dma_last, ready_free, BlockLaunch, SearchNext, SearchTask,
         BlockIdle, dagVars, blkVars, isrVars, Loop, Searching, Interruptible
<1>2. \A b \in Blocks : "INFLIGHT" \in flags'[b] <=> "INFLIGHT" \in flags[b]
  <2>1. DOMAIN flags = Blocks
    BY <1>0 DEF TypeOK
  <2>2. \/ flags' = flags
        \/ \E b \in Blocks \cup {iblk} : flags' = [flags EXCEPT ![b] = @ \cup {"INFIFO"}]
    BY DEF Poll, Select, inform_dma, inform_dma_last, ready_free, BlockLaunch, SearchNext, SearchTask,
           BlockIdle, blkVars
  <2> QED
    BY <2>1, <2>2
<1>3. \A b \in Blocks : Working(a, b)' <=> Working(a, b)
  BY <1>1, <1>2 DEF Working
<1>4. AtWork(a, n)' = AtWork(a, n) /\ Begun(a)' = Begun(a)
  BY <1>1, <1>3 DEF AtWork, Begun
<1> QED
  BY <1>1, <1>4, WorkFrame

(* actor_fire begins the actor's next packet, with an idle block. *)
LEMMA FireWork ==
  ASSUME OrderInv, FewPackets, actor_fire, NEW a \in Actors, NEW n \in Rounds
  PROVE  (Loaded(a, n)' <=> Loaded(a, n)) /\ (Made(a, n)' <=> Made(a, n))
<1> PICK k : k = block
  OBVIOUS
<1>0. /\ TypeOK /\ Ownership /\ LoopState
      /\ k = block /\ k \in Blocks /\ Held(k) /\ UNCHANGED <<hw, done, isr>> /\ isr = "none"
  BY BaseTypes DEF OrderInv, actor_fire, Loop, LoopState, Held, blkVars, isrVars
<1>1. flags[k] = {"INFIFO"} /\ hw[k] = "idle"
  <2>1. flags[k] = {"INFIFO"}
    BY <1>0 DEF Ownership
  <2>2. hw[k] \in {"idle", "computing", "finished"}
    BY <1>0 DEF TypeOK
  <2> QED
    BY <1>0, <2>1, <2>2 DEF Ownership
<1>2. /\ actor \in Actors
      /\ Packetof(ready[sel]) = Begun(actor) + 1
      /\ Begun(actor) \in Nat
  BY FireInOrder, BegunType, <1>0 DEF OrderInv, BaseInv
<1>3. /\ flags' = [flags EXCEPT ![k] = @ \cup {"INFLIGHT"}]
      /\ fire' = [fire EXCEPT ![actor] = Append(@, k)]
      /\ bactor' = [bactor EXCEPT ![k] = actor]
      /\ rnd' = [rnd EXCEPT ![k] = Packetof(ready[sel])]
  BY DEF actor_fire, Task, Packetof
<1>4. ASSUME NEW b \in Blocks, b # k
      PROVE  (Working(a, b)' <=> Working(a, b)) /\ rnd'[b] = rnd[b] /\ hw'[b] = hw[b]
  BY <1>0, <1>3, <1>4 DEF Working, TypeOK
<1>5. /\ Working(a, k)' <=> a = actor
      /\ ~Working(a, k)
      /\ rnd'[k] = Begun(actor) + 1
  <2>1. /\ "INFLIGHT" \in flags'[k] /\ bactor'[k] = actor
        /\ "INFLIGHT" \notin flags[k]
        /\ rnd'[k] = Packetof(ready[sel])
    BY <1>0, <1>1, <1>3 DEF TypeOK
  <2>2. isr' # "scan"
    BY <1>0
  <2>3. Working(a, k)' <=> a = actor
    BY <2>1, <2>2 DEF Working
  <2>4. ~Working(a, k)
    BY <2>1 DEF Working
  <2>5. rnd'[k] = Begun(actor) + 1
    BY <1>2, <2>1
  <2> QED
    BY <2>3, <2>4, <2>5
<1>6. CASE a # actor
  <2>1. \A b \in Blocks : Working(a, b)' /\ rnd'[b] = n <=> Working(a, b) /\ rnd[b] = n
    BY <1>4, <1>5, <1>6
  <2>2. AtWork(a, n)' = AtWork(a, n)
    BY <2>1 DEF AtWork
  <2>3. Begun(a)' = Begun(a)
    BY <1>0, <1>3, <1>6 DEF Begun, TypeOK
  <2> QED
    BY <1>0, <2>2, <2>3, WorkFrame
<1>7. CASE a = actor
  <2>1. Begun(a)' = Begun(a) + 1
    <3>1. Len(fire'[a]) = Len(fire[a]) + 1
      BY <1>0, <1>2, <1>3, <1>7 DEF TypeOK
    <3> QED
      BY <1>0, <1>2, <1>7, <3>1, BegunBy
  <2>2. n \in Nat
    BY SizeAssumption DEF Rounds
  <2>3. CASE n = Begun(a) + 1
    <3>1. k \in AtWork(a, n)'
      BY <1>0, <1>2, <1>5, <1>7, <2>3 DEF AtWork
    <3>2. ~Loaded(a, n)' /\ ~Made(a, n)'
      BY <1>0, <1>1, <3>1 DEF Loaded, Made
    <3>3. ~(n <= Begun(a))
      BY <1>2, <1>7, <2>3
    <3> QED
      BY <3>2, <3>3 DEF Loaded, Made
  <2>4. CASE n # Begun(a) + 1
    <3>1. AtWork(a, n)' = AtWork(a, n)
      BY <1>2, <1>4, <1>5, <1>7, <2>4 DEF AtWork
    <3>2. (n <= Begun(a))' <=> n <= Begun(a)
      BY <1>2, <1>7, <2>1, <2>2, <2>4
    <3> QED
      BY <1>0, <3>1, <3>2, WorkFrame
  <2> QED
    BY <2>3, <2>4
<1> QED
  BY <1>6, <1>7

(* Passing results on does not change how many packets have been begun.    *)
LEMMA PassBegun ==
  ASSUME TypeOK, NEW x \in Actors, NEW toks, fire[x] # <<>>, scheduler_pass_result(x, toks),
         NEW a \in Actors
  PROVE  Begun(a)' = Begun(a)
<1>1. /\ fire' = [fire EXCEPT ![x] = Tail(@)]
      /\ done' = [done EXCEPT ![x] = Append(@, Head(toks).rnd)]
  BY DEF scheduler_pass_result
<1>2. CASE a = x
  <2>1. fire'[a] = Tail(fire[a]) /\ done'[a] = Append(done[a], Head(toks).rnd)
    BY <1>1, <1>2 DEF TypeOK
  <2>2. fire[a] \in Seq(Blocks) /\ fire[a] # <<>> /\ done[a] \in Seq(Rounds)
    BY <1>2 DEF TypeOK
  <2>3. Len(fire'[a]) = Len(fire[a]) - 1 /\ Len(done'[a]) = Len(done[a]) + 1
    BY <2>1, <2>2
  <2> QED
    BY <2>3, BegunBy
<1>3. CASE a # x
  BY <1>1, <1>3 DEF Begun, TypeOK
<1> QED
  BY <1>2, <1>3

(* Results are delivered and the block is free: what it has copied and     *)
(* made stays.                                                             *)
LEMMA DeliverWork ==
  ASSUME UndisturbedFiring, FewPackets, OrderInv, NEW a \in Actors, NEW n \in Rounds,
         ScanVisit \/ ScanEnd \/ \E c \in Channels : ResultLate(c) \/ ResultNext(c)
  PROVE  (Loaded(a, n)' <=> Loaded(a, n)) /\ (Made(a, n)' <=> Made(a, n))
<1>0. TypeOK /\ Ownership /\ HandlerState
  BY BaseTypes DEF OrderInv
<1>1. CASE ScanVisit
  <2>1. PICK x : x = bactor[iblk]
    OBVIOUS
  <2>2. PICK toks : toks = Sent(x, Len(done[x]) + 1)
    OBVIOUS
  <2>3. /\ x \in Actors /\ Len(fire[x]) = 1 /\ scheduler_pass_result(x, toks)
        /\ UNCHANGED <<flags, bactor, rnd, hw, isr, iblk>>
    BY <1>1, <2>1, <2>2, NextVisit DEF OrderInv, ScanVisit, blkVars
  <2>4. fire[x] # <<>>
    <3>1. fire[x] \in Seq(Blocks) /\ Len(fire[x]) = 1
      BY <1>0, <2>3 DEF TypeOK
    <3> QED
      BY <3>1, OfLengthOne
  <2>5. Begun(a)' = Begun(a)
    BY <1>0, <2>3, <2>4, PassBegun
  <2>6. AtWork(a, n)' = AtWork(a, n)
    BY <2>3 DEF AtWork, Working
  <2> QED
    BY <2>3, <2>5, <2>6, WorkFrame
<1>2. CASE ScanEnd
  <2> PICK k : k = iblk
    OBVIOUS
  <2>1. /\ isr = "scan" /\ isr' = "search" /\ k \in Blocks /\ UNCHANGED <<fire, done, bactor, rnd>>
        /\ flags' = [flags EXCEPT ![k] = {}] /\ hw' = [hw EXCEPT ![k] = "idle"]
    BY <1>0, <1>2 DEF ScanEnd, HandlerState, Release, dagVars
  <2>2. /\ flags'[k] = {}
        /\ \A x \in Blocks \ {k} : flags'[x] = flags[x] /\ hw'[x] = hw[x]
    BY <1>0, <2>1 DEF TypeOK
  <2>3. ~Working(a, k)' /\ ~Working(a, k)
    BY <2>1, <2>2 DEF Working
  <2>4. \A x \in Blocks \ {k} : Working(a, x)' <=> Working(a, x)
    BY <2>1, <2>2 DEF Working
  <2>5. AtWork(a, n)' = AtWork(a, n) /\ Begun(a)' = Begun(a)
    BY <2>1, <2>3, <2>4 DEF AtWork, Begun
  <2>6. \A x \in AtWork(a, n) : x # k /\ x \in Blocks
    BY <2>3 DEF AtWork
  <2> QED
    BY <2>2, <2>5, <2>6, WorkFrame
<1>3. ASSUME NEW c \in Channels, ResultLate(c) \/ ResultNext(c)
      PROVE  (Loaded(a, n)' <=> Loaded(a, n)) /\ (Made(a, n)' <=> Made(a, n))
  <2> PICK k : k = chan[c].blk
    OBVIOUS
  <2>1. isr = "none" /\ "RESULT" \in flags[k] /\ k \in Blocks /\ UNCHANGED <<bactor, rnd>>
    <3>1. Arrives(c, k) /\ UNCHANGED <<bactor, rnd>>
      BY <1>3 DEF ResultLate, ResultNext, blkVars
    <3>2. isr = "none" /\ "RESULT" \in flags[k] /\ k # NULL
      BY <3>1 DEF Arrives, Carries, Interruptible
    <3>3. k \in Blocks
      BY <1>0, <3>2 DEF TypeOK, Parcel, FreeChan
    <3> QED
      BY <3>1, <3>2, <3>3
  <2>2. hw[k] = "finished"
    BY <1>0, <2>1 DEF Ownership
  <2>3. CASE ResultLate(c)
    <3>1. /\ flags' = [flags EXCEPT ![k] = {}] /\ hw' = [hw EXCEPT ![k] = "idle"]
          /\ isr' = isr /\ UNCHANGED <<fire, done>>
      BY <2>3 DEF ResultLate, Release, isrVars
    <3>2. /\ flags'[k] = {}
          /\ \A x \in Blocks \ {k} : flags'[x] = flags[x] /\ hw'[x] = hw[x]
      BY <1>0, <2>1, <3>1 DEF TypeOK
    <3>3. ~Working(a, k)' /\ \A x \in Blocks \ {k} : Working(a, x)' <=> Working(a, x)
      BY <2>1, <3>1, <3>2 DEF Working
    <3>4. /\ \A x \in AtWork(a, n)' : x \in Blocks /\ x # k /\ x \in AtWork(a, n)
          /\ \A x \in AtWork(a, n) : x \in Blocks /\ (x # k => x \in AtWork(a, n)')
      BY <2>1, <3>3 DEF AtWork
    <3>5. Begun(a)' = Begun(a)
      BY <3>1 DEF Begun
    <3> QED
      BY <2>2, <3>2, <3>4, <3>5, WorkFrame
  <2>4. CASE ResultNext(c)
    <3> PICK x : x = bactor[k]
      OBVIOUS
    <3> PICK toks : toks = chan[c].toks
      OBVIOUS
    <3>1. /\ scheduler_pass_result(x, toks) /\ fire[x] # <<>>
          /\ isr' = "scan" /\ iblk' = k /\ UNCHANGED <<flags, hw>>
      BY <2>4 DEF ResultNext, blkVars
    <3>2. x \in Actors
      BY <1>0, <2>1 DEF HandlerState
    <3>3. Begun(a)' = Begun(a)
      BY <1>0, <3>1, <3>2, PassBegun
    <3>4. ~Working(a, k)' /\ \A y \in Blocks \ {k} : Working(a, y)' <=> Working(a, y)
      BY <2>1, <3>1 DEF Working
    <3>5. /\ \A y \in AtWork(a, n)' : y \in Blocks /\ y # k /\ y \in AtWork(a, n)
          /\ \A y \in AtWork(a, n) : y \in Blocks /\ (y # k => y \in AtWork(a, n)')
      BY <2>1, <3>4 DEF AtWork
    <3> QED
      BY <2>2, <3>1, <3>3, <3>5, WorkFrame
  <2> QED
    BY <1>3, <2>3, <2>4
<1> QED
  BY <1>1, <1>2, <1>3

(* A skip is one more packet for a skipped actor, and for no other. *)
LEMMA SkipWork ==
  ASSUME OrderInv, SearchPseudo, NEW a \in Actors \ Skipped, NEW n
  PROVE  (Loaded(a, n)' <=> Loaded(a, n)) /\ (Made(a, n)' <=> Made(a, n))
<1> PICK x : x = Found
  OBVIOUS
<1>0. TypeOK /\ TokenInv /\ LabelInv /\ PacketInv
  BY BaseTypes DEF OrderInv, BaseInv
<1>1. x # a
  BY <1>0, SkipIsNext
<1>2. /\ done' = [done EXCEPT ![x] = Append(@, Head(fifo[In0(x)]).rnd)]
      /\ isr = "search" /\ isr' = isr /\ UNCHANGED <<fire, flags, bactor, rnd, hw>>
  BY DEF SearchPseudo, Searching, blkVars
<1>3. done'[a] = done[a]
  BY <1>0, <1>1, <1>2 DEF TypeOK
<1>4. AtWork(a, n)' = AtWork(a, n) /\ Begun(a)' = Begun(a)
  BY <1>2, <1>3 DEF AtWork, Working, Begun
<1> QED
  BY <1>2, <1>4, WorkFrame

(* A computing block has made its results when it interrupts; a transfer   *)
(* of inputs that is done has copied them.                                 *)
LEMMA DoneWork ==
  ASSUME UndisturbedFiring, OrderInv, NEW b \in Blocks, BlockDone(b),
         NEW a \in Actors, NEW n \in Rounds
  PROVE  /\ Loaded(a, n)' <=> Loaded(a, n)
         /\ a # bactor[b] \/ n # rnd[b] => (Made(a, n)' <=> Made(a, n))
         /\ a = bactor[b] /\ n = rnd[b] => ~Made(a, n) /\ Made(a, n)' /\ Len(done[a]) < n
<1>0. TypeOK /\ Ownership
  BY BaseTypes DEF OrderInv
<1>1. /\ isr = "none" /\ isr' = "launch" /\ UNCHANGED <<bactor, rnd, fire, done>>
      /\ "INFLIGHT" \in flags[b] /\ hw[b] = "computing"
      /\ flags' = [flags EXCEPT ![b] = @ \cup {"RESULT"}]
      /\ hw' = [hw EXCEPT ![b] = "finished"]
  BY DEF BlockDone, Interruptible, Reporting, UndisturbedFiring, OneIdleBlock
<1>2. /\ hw'[b] = "finished" /\ \A x \in Blocks \ {b} : hw'[x] = hw[x]
      /\ \A x \in Blocks : "INFLIGHT" \in flags'[x] <=> "INFLIGHT" \in flags[x]
  BY <1>0, <1>1 DEF TypeOK
<1>3. AtWork(a, n)' = AtWork(a, n) /\ Begun(a)' = Begun(a) /\ AtWork(a, n) \subseteq Blocks
  BY <1>1, <1>2 DEF AtWork, Working, Begun
<1>4. \A x \in AtWork(a, n) : hw'[x] # "idle" <=> hw[x] # "idle"
  BY <1>1, <1>2, <1>3
<1>5. b \in AtWork(a, n) <=> a = bactor[b] /\ n = rnd[b]
  BY <1>1 DEF AtWork, Working
<1>6. CASE b \notin AtWork(a, n)
  BY <1>2, <1>3, <1>4, <1>5, <1>6 DEF Loaded, Made
<1>7. CASE b \in AtWork(a, n)
  <2>1. \A x \in AtWork(a, n) : x = b
    BY <1>7, OneAtWork
  <2>2. Len(done[a]) < n /\ n <= Begun(a)
    BY <1>7, OneAtWork
  <2> QED
    BY <1>1, <1>2, <1>3, <1>4, <1>5, <1>7, <2>1, <2>2 DEF Loaded, Made
<1> QED
  BY <1>6, <1>7

(* A transfer that is done and carries no results is the one that loads an *)
(* idle block at work, the only one for its packet.                        *)
LEMMA LoadingBlock ==
  ASSUME OrderInv, NEW c \in Channels, LoadDone(c), NEW b, b = chan[c].blk
  PROVE  /\ TypeOK /\ b \in Blocks /\ bactor[b] \in Actors /\ rnd[b] \in Rounds
         /\ "RESULT" \notin flags[b] /\ "INFLIGHT" \in flags[b] /\ hw[b] = "idle"
         /\ chan[c].toks \in Seq(Token)
         /\ isr = "none" /\ isr' = isr /\ UNCHANGED <<bactor, rnd, fire, done, flags>>
         /\ hw' = [hw EXCEPT ![b] = "computing"]
<1>0. TypeOK /\ Ownership /\ HandlerState
  BY BaseTypes DEF OrderInv
<1>1. /\ isr = "none" /\ isr' = isr /\ UNCHANGED <<bactor, rnd, fire, done, flags>>
      /\ "RESULT" \notin flags[b] /\ b \in Blocks
      /\ hw' = [hw EXCEPT ![b] = "computing"]
  BY <1>0 DEF LoadDone, Interruptible, TypeOK, Parcel, FreeChan, isrVars
<1>2. Serving(b)
  BY <1>1 DEF Serving
<1>3. "INFLIGHT" \in flags[b] /\ hw[b] = "idle"
  <2>1. hw[b] \in {"idle", "computing", "finished"}
    BY <1>0, <1>1 DEF TypeOK
  <2> QED
    BY <1>0, <1>1, <1>2, <2>1 DEF Ownership
<1>4. bactor[b] \in Actors
  BY <1>0, <1>1, <1>3 DEF HandlerState
<1>5. rnd[b] \in Rounds /\ chan[c].toks \in Seq(Token)
  <2>1. chan[c] \in Parcel
    BY <1>0, <1>1, SizeAssumption DEF TypeOK, FreeChan
  <2> QED
    BY <1>0, <1>1, <2>1 DEF TypeOK, Parcel, Tokens
<1> QED
  BY <1>0, <1>1, <1>3, <1>4, <1>5

(* It loads that packet, and nothing else changes.                         *)
LEMMA LoadWork ==
  ASSUME UndisturbedFiring, OrderInv, NEW c \in Channels, LoadDone(c), NEW b, b = chan[c].blk,
         NEW a \in Actors, NEW n \in Rounds
  PROVE  /\ Made(a, n)' <=> Made(a, n)
         /\ a # bactor[b] \/ n # rnd[b] => (Loaded(a, n)' <=> Loaded(a, n))
         /\ a = bactor[b] /\ n = rnd[b] => ~Loaded(a, n) /\ Loaded(a, n)'
<1>1. /\ TypeOK /\ b \in Blocks /\ bactor[b] \in Actors
      /\ "INFLIGHT" \in flags[b] /\ hw[b] = "idle"
      /\ isr = "none" /\ isr' = isr /\ UNCHANGED <<bactor, rnd, fire, done, flags>>
      /\ hw' = [hw EXCEPT ![b] = "computing"]
  BY LoadingBlock
<1>2. hw'[b] = "computing" /\ \A x \in Blocks \ {b} : hw'[x] = hw[x]
  BY <1>1 DEF TypeOK
<1>3. AtWork(a, n)' = AtWork(a, n) /\ Begun(a)' = Begun(a) /\ AtWork(a, n) \subseteq Blocks
  BY <1>1 DEF AtWork, Working, Begun
<1>4. \A x \in AtWork(a, n) : hw'[x] = "finished" <=> hw[x] = "finished"
  BY <1>1, <1>2, <1>3
<1>5. b \in AtWork(a, n) <=> a = bactor[b] /\ n = rnd[b]
  BY <1>1 DEF AtWork, Working
<1>6. CASE b \notin AtWork(a, n)
  BY <1>1, <1>2, <1>3, <1>4, <1>5, <1>6 DEF Loaded, Made
<1>7. CASE b \in AtWork(a, n)
  <2>1. \A x \in AtWork(a, n) : x = b
    BY <1>7, OneAtWork
  <2>2. n <= Begun(a)
    BY <1>7, OneAtWork
  <2> QED
    BY <1>1, <1>2, <1>3, <1>4, <1>5, <1>7, <2>1, <2>2 DEF Loaded, Made
<1> QED
  BY <1>6, <1>7

-----------------------------------------------------------------------------
(* The inputs that carry a datum to an actor, and the dependencies a set   *)
(* of them asks for it with.                                               *)
Carriers(a, d) == {e \in In(a) : ~Mute(Skipped, e) /\ e.src = d.src /\ e.res = d.res}
Asking(S, d)   == {f \in S : f.tok = d}

(* A ready task has a dependency for every input whose token is real, and  *)
(* no other; a transfer of inputs holds a copy for each of them.           *)
DepsComplete == \A i \in DOMAIN ready :
  /\ \A f \in ready[i].deps : f.tok.real
  /\ \A e \in In(ready[i].actor) : ~Mute(Skipped, e) => \E f \in ready[i].deps : f.inp = e.inp

LinkComplete == pc = "link" => \A d \in Data : d.rnd = rnd[block] =>
  Copies(link.toks, d) + Cardinality(Asking(todo, d)) = Cardinality(Carriers(bactor[block], d))

LoadsComplete == \A c \in Channels, b \in Blocks : chan[c].blk = b /\ "RESULT" \notin flags[b] =>
  \A d \in Data : d.rnd = rnd[b] => Copies(chan[c].toks, d) = Cardinality(Carriers(bactor[b], d))

(* Counting by a bijection.                                                *)
LEMMA SameSize ==
  ASSUME NEW S, NEW T, IsFiniteSet(S), NEW F \in [S -> T],
         \A x, y \in S : F[x] = F[y] => x = y, \A t \in T : \E s \in S : F[s] = t
  PROVE  IsFiniteSet(T) /\ Cardinality(T) = Cardinality(S)
<1>1. F \in Bijection(S, T)
  BY DEF Bijection, Injection, Surjection, IsInjective
<1> QED
  BY <1>1, FS_Bijection DEF ExistsBijection

(* The copies of a datum in a chain, and in a chain one longer.            *)
LEMMA CopiesType ==
  ASSUME NEW p \in Seq(Token), NEW d
  PROVE  Copies(p, d) \in Nat
<1>1. IsFiniteSet(1..Len(p)) /\ {i \in DOMAIN p : p[i] = d} \in SUBSET (1..Len(p))
  BY FS_Interval
<1> QED
  BY <1>1, FS_Subset, FS_CardinalityType DEF Copies

LEMMA CopiesAppend ==
  ASSUME NEW p \in Seq(Token), NEW t \in Token, NEW d
  PROVE  /\ Copies(p, d) \in Nat
         /\ Copies(p \o <<t>>, d) = Copies(p, d) + (IF t = d THEN 1 ELSE 0)
<1> DEFINE q == p \o <<t>>
           n == Len(p)
           P == {i \in DOMAIN p : p[i] = d}
           Q == {i \in DOMAIN q : q[i] = d}
<1>1. /\ n \in Nat /\ DOMAIN p = 1..n /\ DOMAIN q = 1..(n + 1)
      /\ q[n + 1] = t /\ \A i \in 1..n : q[i] = p[i]
  OBVIOUS
<1>2. IsFiniteSet(P) /\ Cardinality(P) \in Nat /\ n + 1 \notin P
  <2>1. P \in SUBSET (1..n) /\ IsFiniteSet(1..n) /\ n + 1 \notin 1..n
    BY <1>1, FS_Interval
  <2> HIDE DEF P, n
  <2> QED
    BY <2>1, FS_Subset, FS_CardinalityType
<1>3. Q = IF t = d THEN P \cup {n + 1} ELSE P
  <2> HIDE DEF q, n
  <2> QED
    BY <1>1
<1> HIDE DEF P, Q, n
<1>4. Cardinality(Q) = Cardinality(P) + (IF t = d THEN 1 ELSE 0)
  <2>1. CASE t = d
    BY <1>2, <1>3, <2>1, FS_AddElement
  <2>2. CASE t # d
    BY <1>2, <1>3, <2>2
  <2> QED
    BY <2>1, <2>2
<1> QED
  BY <1>2, <1>4 DEF Copies, P, Q

(* ready_create: the dependencies of a task are the real tokens of its     *)
(* packet, one for each input that carries one.                            *)
Carrying(a) == {e \in In(a) : ~Mute(Skipped, e)}

LEMMA DepsAre ==
  ASSUME OrderInv, DepsComplete, NEW i \in DOMAIN ready, NEW a, a = ready[i].actor,
         NEW n, n = Packetof(ready[i])
  PROVE  /\ a \in Actors
         /\ ready[i].deps = {[inp |-> e.inp, tok |-> Real(e.src, e.res, n)] : e \in Carrying(a)}
<1>1. /\ ready[i] \in ReadyTask /\ a \in Actors /\ ready[i].deps \in SUBSET Dependency
  <2>1. ready \in Seq(ReadyTask)
    BY BaseTypes DEF OrderInv, TypeOK
  <2>2. ready[i] \in ReadyTask
    BY <2>1
  <2> QED
    BY <2>2 DEF ReadyTask
<1> PICK D : D = ready[i].deps
  OBVIOUS
<1>2. \A f \in D : /\ f \in Dependency /\ f.tok.real /\ f.tok.rnd = n
                   /\ \E e \in In(a) : e.inp = f.inp /\ Fits(e, f.tok)
  BY <1>1 DEF OrderInv, PacketInv, TasksMatch, LabelInv, ReadyFits, TaskFits, DepsComplete
<1>3. \A e, g \in In(a) : e.inp = g.inp => e = g
  BY <1>1, DagAssumption
<1>4. ASSUME NEW f \in D, NEW e \in In(a), e.inp = f.inp, Fits(e, f.tok)
      PROVE  e \in Carrying(a) /\ f = [inp |-> e.inp, tok |-> Real(e.src, e.res, n)]
  <2>1. f.tok \in Token /\ f = [inp |-> f.inp, tok |-> f.tok]
    BY <1>2 DEF Dependency
  <2>2. f.tok = [src |-> f.tok.src, res |-> f.tok.res, rnd |-> f.tok.rnd, real |-> f.tok.real]
    BY <2>1 DEF Token
  <2>3. f.tok.src = e.src /\ f.tok.res = e.res /\ f.tok.real = TRUE /\ f.tok.rnd = n
    BY <1>2, <1>4, <2>1 DEF Fits, Token
  <2>4. ~Mute(Skipped, e)
    BY <1>4, <2>3 DEF Fits
  <2> QED
    BY <1>4, <2>1, <2>2, <2>3, <2>4 DEF Carrying, Real
<1>5. ASSUME NEW f \in D
      PROVE  \E e \in Carrying(a) : f = [inp |-> e.inp, tok |-> Real(e.src, e.res, n)]
  BY <1>2, <1>4
<1>6. ASSUME NEW e \in Carrying(a)
      PROVE  [inp |-> e.inp, tok |-> Real(e.src, e.res, n)] \in D
  <2>1. e \in In(a) /\ ~Mute(Skipped, e)
    BY DEF Carrying
  <2>2. PICK f \in D : f.inp = e.inp
    BY <2>1 DEF DepsComplete
  <2>3. Fits(e, f.tok)
    BY <1>2, <1>3, <2>1, <2>2
  <2> QED
    BY <1>4, <2>1, <2>2, <2>3
<1> QED
  BY <1>1, <1>5, <1>6

(* They ask for what the inputs carry. *)
LEMMA AskedFor ==
  ASSUME OrderInv, DepsComplete, NEW i \in DOMAIN ready, NEW a, a = ready[i].actor,
         NEW d \in Data, d.rnd = Packetof(ready[i])
  PROVE  /\ IsFiniteSet(Asking(ready[i].deps, d))
         /\ Cardinality(Asking(ready[i].deps, d)) = Cardinality(Carriers(a, d))
<1> PICK D, n : D = ready[i].deps /\ n = Packetof(ready[i])
  OBVIOUS
<1>1. a \in Actors /\ D = {[inp |-> e.inp, tok |-> Real(e.src, e.res, n)] : e \in Carrying(a)}
  BY DepsAre
<1>2. d = Real(d.src, d.res, n)
  BY DEF Data, Token, Real
<1> DEFINE C == Carriers(a, d)
           A == Asking(D, d)
           F == [e \in C |-> [inp |-> e.inp, tok |-> d]]
<1>3. ASSUME NEW e \in C PROVE F[e] \in A
  <2>1. e \in Carrying(a) /\ e.src = d.src /\ e.res = d.res
    BY <1>3 DEF Carriers, Carrying
  <2> QED
    BY <1>1, <1>2, <2>1 DEF Asking
<1>4. ASSUME NEW f \in A PROVE \E e \in C : F[e] = f
  <2>1. f \in D /\ f.tok = d
    BY <1>4 DEF Asking
  <2>2. PICK e \in Carrying(a) : f = [inp |-> e.inp, tok |-> Real(e.src, e.res, n)]
    BY <1>1, <2>1
  <2>3. Real(e.src, e.res, n) = d
    BY <2>1, <2>2
  <2>4. e \in C
    BY <1>2, <2>2, <2>3 DEF Carriers, Carrying, Real
  <2> QED
    BY <2>2, <2>3, <2>4
<1>5. \A x, y \in C : F[x] = F[y] => x = y
  BY <1>1, DagAssumption DEF Carriers
<1>6. IsFiniteSet(C)
  <2>1. C \in SUBSET Edges
    BY DEF Carriers, In
  <2> QED
    BY <2>1, DagAssumption, FS_Subset
<1>7. F \in [C -> A]
  BY <1>3
<1> HIDE DEF C, A, F
<1>8. IsFiniteSet(A) /\ Cardinality(A) = Cardinality(C)
  BY <1>4, <1>5, <1>6, <1>7, SameSize
<1> QED
  BY <1>8 DEF A, C

(* dma_transfer_link of one more input keeps count. *)
LEMMA LinkCounts ==
  ASSUME OrderInv, LinkingInputs, DepsComplete, LinkComplete, pc = "link", NEW f \in todo,
         NEW d \in Data, d.rnd = rnd[block]
  PROVE  Copies(Chained(<<f.tok>>), d) + Cardinality(Asking(todo \ {f}, d))
           = Cardinality(Carriers(bactor[block], d))
<1>1. /\ link.toks \in Seq(Token) /\ Chained(<<f.tok>>) = link.toks \o <<f.tok>>
  BY NextInput
<1>2. sel \in DOMAIN ready /\ f.tok \in Token
  BY BaseTypes DEF OrderInv, LoopState, TypeOK, Dependency
<1>3. todo \subseteq ready[sel].deps /\ d.rnd = Packetof(ready[sel])
  BY DEF LinkingInputs
<1> DEFINE A == Asking(todo, d)
           B == Asking(todo \ {f}, d)
           k == Copies(link.toks, d)
           m == Cardinality(Carriers(bactor[block], d))
<1>4. IsFiniteSet(A)
  <2>1. A \in SUBSET Asking(ready[sel].deps, d)
    BY <1>3 DEF Asking
  <2>2. IsFiniteSet(Asking(ready[sel].deps, d))
    BY <1>2, <1>3, AskedFor
  <2> QED
    BY <2>1, <2>2, FS_Subset
<1>5. A = IF f.tok = d THEN B \cup {f} ELSE B
  BY DEF Asking
<1>6. f \notin B
  BY DEF Asking
<1>7. B \in SUBSET A
  BY <1>5
<1>8. k + Cardinality(A) = m
  BY DEF LinkComplete
<1>9. k \in Nat /\ Copies(Chained(<<f.tok>>), d) = k + (IF f.tok = d THEN 1 ELSE 0)
  <2> PICK p, t : p = link.toks /\ t = f.tok
    OBVIOUS
  <2>1. p \in Seq(Token) /\ t \in Token
    BY <1>1, <1>2
  <2>2. Copies(p, d) \in Nat /\ Copies(p \o <<t>>, d) = Copies(p, d) + (IF t = d THEN 1 ELSE 0)
    BY <2>1, CopiesAppend
  <2> QED
    BY <1>1, <2>2
<1> HIDE DEF A, B, k, m
<1>10. IsFiniteSet(B) /\ Cardinality(B) \in Nat
  BY <1>4, <1>7, FS_Subset, FS_CardinalityType
<1>11. Cardinality(A) = Cardinality(B) + (IF f.tok = d THEN 1 ELSE 0)
  <2>1. CASE f.tok = d
    BY <1>5, <1>6, <1>10, <2>1, FS_AddElement
  <2>2. CASE f.tok # d
    BY <1>5, <1>10, <2>2
  <2> QED
    BY <2>1, <2>2
<1> QED
  BY <1>8, <1>9, <1>10, <1>11 DEF B, m

(* ready_search makes such a task of an actor that is not skipped.         *)
LEMMA DepsByTask ==
  ASSUME OrderInv, DepsComplete, SearchTask PROVE DepsComplete'
<1> PICK a : a = Found
  OBVIOUS
<1> PICK t : t = [actor |-> a, deps |-> {f \in Inputs(a) : f.tok.real}]
  OBVIOUS
<1>0. TypeOK /\ ready \in Seq(ReadyTask)
  BY BaseTypes DEF OrderInv, TypeOK
<1>1. a \in Actors /\ actor_ready(a) /\ In(a) \subseteq Edges /\ ready' = Append(ready, t)
  BY <1>0, FoundIsActor DEF SearchTask, fire_check
<1>2. ASSUME NEW e \in In(a), ~Mute(Skipped, e) PROVE \E f \in t.deps : f.inp = e.inp
  <2>1. fifo[e] \in Seq(Token) /\ fifo[e] # <<>>
    BY <1>0, <1>1 DEF TypeOK, actor_ready, fifo_empty
  <2>2. Head(fifo[e]) = fifo[e][1] /\ 1 \in DOMAIN fifo[e]
    BY <2>1
  <2>3. Fits(e, Head(fifo[e]))
    BY <1>1, <2>2 DEF OrderInv, LabelInv, FifosFit
  <2>4. [inp |-> e.inp, tok |-> Head(fifo[e])] \in t.deps
    BY <1>2, <2>3 DEF Inputs, Fits
  <2> QED
    BY <2>4
<1>3. t.actor = a /\ \A f \in t.deps : f.tok.real
  OBVIOUS
<1>4. \A i \in DOMAIN ready' : ready'[i] = t \/ (i \in DOMAIN ready /\ ready'[i] = ready[i])
  BY <1>0, <1>1
<1> QED
  BY <1>2, <1>3, <1>4 DEF DepsComplete

(* Tasks stay as they were made, wherever they move in ready_l.            *)
LEMMA StepDepsComplete ==
  ASSUME OrderInv, DepsComplete, [Next]_vars PROVE DepsComplete'
<1>1. CASE SearchTask
  BY <1>1, DepsByTask
<1>2. CASE ready_free
  <2>1. ready \in Seq(ReadyTask) /\ sel \in DOMAIN ready /\ ready' = RemoveEntry(ready, sel)
    BY <1>2, BaseTypes DEF OrderInv, TypeOK, LoopState, ready_free, Loop
  <2>2. \A i \in DOMAIN ready' : \E j \in DOMAIN ready : ready'[i] = ready[j]
    <3>1. /\ DOMAIN ready' = 1..(Len(ready) - 1)
          /\ \A i \in 1..(Len(ready) - 1) : ready'[i] = IF i < sel THEN ready[i] ELSE ready[i + 1]
      BY <2>1, RemoveEntryIs
    <3>2. \A i \in 1..(Len(ready) - 1) : i \in DOMAIN ready /\ i + 1 \in DOMAIN ready
      BY <2>1
    <3> QED
      BY <3>1, <3>2
  <2> QED
    BY <2>2 DEF DepsComplete
<1>3. CASE ~SearchTask /\ ~ready_free
  <2>1. ready' = ready
    BY <1>3 DEF Next, Main, Isr, Poll, Select, actor_fire, inform_dma, inform_dma_last,
                BlockLaunch, ScanVisit, ScanEnd, SearchNext, SearchPseudo, BlockIdle, BlockDone,
                DmaDone, LoadDone, ResultLate, ResultNext, vars, dagVars
  <2> QED
    BY <2>1 DEF DepsComplete
<1> QED
  BY <1>1, <1>2, <1>3

(* Nothing that a channel loads has changed.                               *)
LEMMA LoadsFrame ==
  ASSUME LoadsComplete, LoadsKept PROVE (LinkComplete /\ LoadsComplete)'
<1>1. LinkComplete'
  BY DEF LinkComplete, LoadsKept
<1> QED
  BY <1>1 DEF LoadsComplete, LoadsKept

(* The loop links every dependency of its task and then launches the       *)
(* chain.                                                                  *)
LEMMA MainLoads ==
  ASSUME UndisturbedFiring, OrderInv, InputInv, DepsComplete, LinkComplete, LoadsComplete, Main
  PROVE  (LinkComplete /\ LoadsComplete)'
<1>0. TypeOK /\ LoopState /\ Ownership
  BY BaseTypes DEF OrderInv
<1>1. CASE Poll \/ Select \/ ready_free
  <2>1. UNCHANGED <<chan, flags, bactor, rnd>> /\ pc' # "link"
    BY <1>1 DEF Poll, Select, ready_free, blkVars, dmaVars
  <2> QED
    BY <2>1, LoadsFrame DEF LoadsKept
<1>2. CASE actor_fire
  <2> PICK k, p : k = block /\ p = Packetof(ready[sel])
    OBVIOUS
  <2>1. /\ isr = "none" /\ pc = "fire" /\ k \in Blocks /\ Held(k) /\ block' = k
        /\ UNCHANGED <<chan, ready, sel>>
        /\ link' = [open |-> TRUE, toks |-> Chained(<<>>)]
        /\ todo' = ready[sel].deps
        /\ rnd' = [rnd EXCEPT ![k] = p]
        /\ bactor' = [bactor EXCEPT ![k] = actor]
        /\ flags' = [flags EXCEPT ![k] = @ \cup {"INFLIGHT"}]
        /\ sel \in DOMAIN ready
    BY <1>0, <1>2 DEF actor_fire, Loop, LoopState, Held, Task, Packetof
  <2>2. \A b \in Blocks \ {k} : flags'[b] = flags[b] /\ bactor'[b] = bactor[b] /\ rnd'[b] = rnd[b]
    BY <1>0, <2>1 DEF TypeOK
  <2>3. \A c \in Channels, b \in Blocks : chan[c].blk = b => b # k
    BY <1>0, <2>1 DEF Ownership, Serving
  <2>4. LoadsComplete'
    BY <2>1, <2>2, <2>3 DEF LoadsComplete
  <2>5. link'.toks = <<>>
    BY <2>1 DEF OrderInv, ChainInv, NoLink, Chained
  <2>6. rnd'[k] = p /\ bactor'[k] = ready[sel].actor
    BY <1>0, <2>1 DEF TypeOK, OrderInv, BaseInv, TokenInv, SelectInv
  <2>7. ASSUME NEW d \in Data, d.rnd = p
        PROVE  Copies(<<>>, d) + Cardinality(Asking(ready[sel].deps, d))
                 = Cardinality(Carriers(ready[sel].actor, d))
    <3> PICK a : a = ready[sel].actor
      OBVIOUS
    <3>1. /\ IsFiniteSet(Asking(ready[sel].deps, d))
          /\ Cardinality(Asking(ready[sel].deps, d)) = Cardinality(Carriers(a, d))
      BY <2>1, <2>7, AskedFor
    <3>2. Cardinality(Asking(ready[sel].deps, d)) \in Nat
      BY <3>1, FS_CardinalityType
    <3>3. Copies(<<>>, d) = 0
      <4>1. {i \in DOMAIN <<>> : <<>>[i] = d} = {}
        OBVIOUS
      <4> QED
        BY <4>1, FS_EmptySet DEF Copies
    <3> QED
      BY <3>1, <3>2, <3>3
  <2>8. LinkComplete'
    BY <2>1, <2>5, <2>6, <2>7 DEF LinkComplete
  <2> QED
    BY <2>4, <2>8
<1>3. CASE inform_dma
  <2>1. PICK f \in todo :
          /\ link' = [open |-> TRUE, toks |-> Chained(<<f.tok>>)]
          /\ todo' = todo \ {f}
    BY <1>3 DEF inform_dma
  <2>2. pc = "link" /\ UNCHANGED <<pc, chan, flags, bactor, rnd, block>>
    BY <1>3 DEF inform_dma, Loop, blkVars
  <2>3. \A d \in Data : d.rnd = rnd[block] =>
          Copies(Chained(<<f.tok>>), d) + Cardinality(Asking(todo \ {f}, d))
            = Cardinality(Carriers(bactor[block], d))
    BY <2>2, LinkCounts DEF InputInv
  <2> PICK toks, T : toks = Chained(<<f.tok>>) /\ T = todo \ {f}
    OBVIOUS
  <2>4. link'.toks = toks /\ todo' = T
    BY <2>1
  <2>5. LinkComplete'
    BY <2>2, <2>3, <2>4 DEF LinkComplete
  <2> QED
    BY <2>2, <2>5 DEF LoadsComplete
<1>4. CASE inform_dma_last
  <2>1. PICK f \in todo : todo = {f} /\ dma_transfer_channel(block, Chained(<<f.tok>>))
    BY <1>4 DEF inform_dma_last, Last
  <2> PICK toks, k : toks = Chained(<<f.tok>>) /\ k = block
    OBVIOUS
  <2>2. /\ pc = "link" /\ pc' = "free" /\ UNCHANGED <<flags, bactor, rnd>>
        /\ k \in Blocks
    BY <1>0, <1>4 DEF inform_dma_last, Loop, blkVars, LoopState
  <2>3. ASSUME NEW d \in Data, d.rnd = rnd[k]
        PROVE  Copies(toks, d) = Cardinality(Carriers(bactor[k], d))
    <3>1. Copies(toks, d) + Cardinality(Asking(todo \ {f}, d)) = Cardinality(Carriers(bactor[k], d))
      BY <2>2, <2>3, LinkCounts DEF InputInv
    <3>2. Asking(todo \ {f}, d) = {}
      BY <2>1 DEF Asking
    <3>3. Copies(toks, d) \in Nat
      <4>1. link.toks \in Seq(Token) /\ Chained(<<f.tok>>) = link.toks \o <<f.tok>>
        BY <2>2, NextInput DEF InputInv
      <4>2. f.tok \in Token
        BY <1>0 DEF TypeOK, Dependency
      <4>3. toks \in Seq(Token)
        BY <4>1, <4>2
      <4> QED
        BY <4>3, CopiesType
    <3> QED
      BY <3>1, <3>2, <3>3, FS_EmptySet
  <2>4. PICK c \in Channels : chan' = [chan EXCEPT ![c] = [blk |-> k, toks |-> toks]]
    BY <2>1 DEF dma_transfer_channel, FreeChannels
  <2>5. /\ chan'[c].blk = k /\ chan'[c].toks = toks
        /\ \A x \in Channels : x # c => chan'[x] = chan[x]
    BY <1>0, <2>4 DEF TypeOK
  <2>6. LoadsComplete'
    <3> SUFFICES ASSUME NEW x \in Channels, NEW b \in Blocks, chan'[x].blk = b, "RESULT" \notin flags[b],
                        NEW d \in Data, d.rnd = rnd[b]
                 PROVE  Copies(chan'[x].toks, d) = Cardinality(Carriers(bactor[b], d))
      BY <2>2 DEF LoadsComplete
    <3>1. CASE x = c
      BY <2>3, <2>5, <3>1
    <3>2. CASE x # c
      BY <2>5, <3>2 DEF LoadsComplete
    <3> QED
      BY <3>1, <3>2
  <2> QED
    BY <2>2, <2>6 DEF LinkComplete
<1> QED
  BY <1>1, <1>2, <1>3, <1>4 DEF Main

-----------------------------------------------------------------------------
(* A block in flight that does not compute is being served: a transfer is  *)
(* under way for it, or a transfer or a handler is about to begin or end.  *)
Attended == \A b \in Blocks : "INFLIGHT" \in flags[b] /\ hw[b] # "computing" =>
  \/ Serving(b)
  \/ pc = "link" /\ block = b
  \/ isr \in {"launch", "scan"} /\ iblk = b

(* So it is at each step of the loop, of a handler and of an interrupt.    *)
LEMMA MainAttended == ASSUME OrderInv, Attended, Main PROVE Attended'
<1>0. TypeOK /\ LoopState /\ Ownership /\ OneTransferPerBlock /\ OwnInv
  BY BaseTypes DEF OrderInv, BaseInv
<1>1. isr = "none" /\ isr' = isr /\ hw' = hw
  BY DEF Main, Poll, Select, actor_fire, inform_dma, inform_dma_last, ready_free, Loop, blkVars, isrVars
<1>2. CASE Poll \/ Select \/ ready_free
  <2>1. pc # "link" /\ UNCHANGED <<flags, chan>>
    BY <1>2 DEF Poll, Select, ready_free, Loop, blkVars, dmaVars
  <2> QED
    BY <1>1, <2>1 DEF Attended, Serving
<1>3. CASE actor_fire
  <2> PICK k : k = block
    OBVIOUS
  <2>1. /\ pc = "fire" /\ pc' = "link" /\ block' = k /\ chan' = chan
        /\ flags' = [flags EXCEPT ![k] = @ \cup {"INFLIGHT"}]
    BY <1>3 DEF actor_fire, Loop
  <2>2. \A b \in Blocks \ {k} : flags'[b] = flags[b]
    BY <1>0, <2>1 DEF TypeOK
  <2> QED
    BY <1>1, <2>1, <2>2 DEF Attended, Serving
<1>4. CASE inform_dma
  <2>1. UNCHANGED <<flags, chan, pc, block>>
    BY <1>4 DEF inform_dma, blkVars
  <2> QED
    BY <1>1, <2>1 DEF Attended, Serving
<1>5. CASE inform_dma_last
  <2> PICK k : k = block
    OBVIOUS
  <2>1. PICK f \in todo : dma_transfer_channel(k, Chained(<<f.tok>>))
    BY <1>5 DEF inform_dma_last
  <2> PICK toks : toks = Chained(<<f.tok>>)
    OBVIOUS
  <2>2. pc = "link" /\ k \in Blocks /\ UNCHANGED flags /\ ~Serving(k)
    BY <1>0, <1>5 DEF inform_dma_last, Loop, blkVars, LoopState, Ownership
  <2>3. toks \in Tokens
    <3>1. f.tok \in Token /\ link.toks \in Seq(Token)
      BY <1>0 DEF TypeOK, Dependency
    <3>2. <<f.tok>> \in Seq(Token) /\ <<f.tok>> # <<>>
      BY <3>1
    <3> QED
      BY <3>1, <3>2, ChainedType DEF Tokens
  <2>4. \A x \in Blocks : Serving(x)' <=> Serving(x) \/ x = k
    BY <1>0, <2>1, <2>2, <2>3, LaunchOwns
  <2> QED
    BY <1>1, <2>2, <2>4 DEF Attended
<1> QED
  BY <1>2, <1>3, <1>4, <1>5 DEF Main

LEMMA HandlerAttended == ASSUME OrderInv, Attended, Isr PROVE Attended'
<1>0. TypeOK /\ HandlerState /\ Ownership /\ OneTransferPerBlock
  BY BaseTypes DEF OrderInv
<1>1. CASE BlockLaunch
  <2> PICK k, toks : k = iblk /\ toks = link.toks
    OBVIOUS
  <2>1. /\ isr = "launch" /\ k \in Blocks /\ ~Serving(k) /\ toks \in Tokens
        /\ dma_transfer_channel(k, toks)
        /\ flags' = [flags EXCEPT ![k] = @ \cup {"INFIFO"}]
        /\ UNCHANGED <<hw, pc, block>>
    BY <1>0, <1>1 DEF BlockLaunch, HandlerState, Ownership, TypeOK, Tokens, mainVars
  <2>2. \A x \in Blocks : Serving(x)' <=> Serving(x) \/ x = k
    BY <1>0, <2>1, LaunchOwns
  <2>3. \A b \in Blocks : "INFLIGHT" \in flags'[b] <=> "INFLIGHT" \in flags[b]
    BY <1>0, <2>1 DEF TypeOK
  <2> QED
    BY <2>1, <2>2, <2>3 DEF Attended
<1>2. CASE ScanVisit
  BY <1>2 DEF ScanVisit, blkVars, dmaVars, mainVars, Attended, Serving
<1>3. CASE ScanEnd
  <2> PICK k : k = iblk
    OBVIOUS
  <2>1. /\ flags' = [flags EXCEPT ![k] = {}] /\ hw' = [hw EXCEPT ![k] = "idle"]
        /\ UNCHANGED <<chan, pc, block>>
    BY <1>3 DEF ScanEnd, Release, dmaVars, mainVars
  <2>2. \A b \in Blocks : IF b = k THEN flags'[b] = {} ELSE flags'[b] = flags[b] /\ hw'[b] = hw[b]
    BY <1>0, <2>1 DEF TypeOK
  <2> QED
    BY <2>1, <2>2 DEF Attended, Serving
<1>4. CASE SearchNext \/ SearchTask \/ SearchPseudo
  BY <1>4 DEF SearchNext, SearchTask, SearchPseudo, Searching, blkVars, dmaVars, mainVars,
              Attended, Serving
<1> QED
  BY <1>1, <1>2, <1>3, <1>4 DEF Isr

LEMMA InterruptAttended ==
  ASSUME OrderInv, Attended,
         \/ \E b \in Blocks : BlockIdle(b) \/ BlockDone(b)
         \/ \E c \in Channels : DmaDone(c)
  PROVE  Attended'
<1>0. TypeOK /\ OneTransferPerBlock
  BY BaseTypes DEF OrderInv
<1>1. isr = "none" /\ UNCHANGED <<pc, block>>
  BY DEF BlockIdle, BlockDone, DmaDone, LoadDone, ResultLate, ResultNext, Arrives, Interruptible, mainVars
<1>2. ASSUME NEW k \in Blocks, BlockIdle(k) PROVE Attended'
  <2>1. flags' = [flags EXCEPT ![k] = @ \cup {"INFIFO"}] /\ UNCHANGED <<hw, chan, isr, iblk>>
    BY <1>2 DEF BlockIdle, dmaVars, isrVars
  <2>2. \A b \in Blocks : "INFLIGHT" \in flags'[b] <=> "INFLIGHT" \in flags[b]
    BY <1>0, <2>1 DEF TypeOK
  <2> QED
    BY <1>1, <2>1, <2>2 DEF Attended, Serving
<1>3. ASSUME NEW k \in Blocks, BlockDone(k) PROVE Attended'
  <2>1. /\ flags' = [flags EXCEPT ![k] = @ \cup {"RESULT"}] /\ hw' = [hw EXCEPT ![k] = "finished"]
        /\ isr' = "launch" /\ iblk' = k /\ chan' = chan
    BY <1>3 DEF BlockDone
  <2>2. \A b \in Blocks : b # k => flags'[b] = flags[b] /\ hw'[b] = hw[b]
    BY <1>0, <2>1 DEF TypeOK
  <2> QED
    BY <1>1, <2>1, <2>2 DEF Attended, Serving
<1>4. ASSUME NEW c \in Channels, DmaDone(c) PROVE Attended'
  <2> PICK k : k = chan[c].blk
    OBVIOUS
  <2>1. chan' = [chan EXCEPT ![c] = FreeChan] /\ k # NULL
    BY <1>4 DEF DmaDone, LoadDone, ResultLate, ResultNext, Arrives, Carries
  <2>2. \A x \in Blocks : Serving(x)' <=> Serving(x) /\ x # k
    BY <1>0, <2>1, ReturnOwns
  <2>3. k \in Blocks
    BY <1>0, <2>1 DEF TypeOK, Parcel, FreeChan
  <2>4. CASE LoadDone(c)
    <3>1. hw' = [hw EXCEPT ![k] = "computing"] /\ UNCHANGED flags
      BY <2>4 DEF LoadDone
    <3>2. \A b \in Blocks : IF b = k THEN hw'[b] = "computing" ELSE hw'[b] = hw[b]
      BY <1>0, <3>1 DEF TypeOK
    <3> QED
      BY <1>1, <2>2, <3>1, <3>2 DEF Attended
  <2>5. CASE ResultLate(c)
    <3>1. flags' = [flags EXCEPT ![k] = {}] /\ hw' = [hw EXCEPT ![k] = "idle"]
      BY <2>5 DEF ResultLate, Release
    <3>2. \A b \in Blocks : IF b = k THEN flags'[b] = {} ELSE flags'[b] = flags[b] /\ hw'[b] = hw[b]
      BY <1>0, <3>1 DEF TypeOK
    <3> QED
      BY <1>1, <2>2, <3>2 DEF Attended
  <2>6. CASE ResultNext(c)
    <3>1. isr' = "scan" /\ iblk' = k /\ UNCHANGED <<flags, hw>>
      BY <2>6 DEF ResultNext, blkVars
    <3> QED
      BY <1>1, <2>2, <3>1 DEF Attended
  <2> QED
    BY <1>4, <2>4, <2>5, <2>6 DEF DmaDone
<1> QED
  BY <1>2, <1>3, <1>4
-----------------------------------------------------------------------------
(* The output fifos of the graph hold everything that was put into them.   *)
HostFifos == \A e \in Edges : e.snk \notin Actors =>
  Len(fifo[e]) = Given(e) /\ \A i \in DOMAIN fifo[e] : fifo[e][i].rnd = i

(* put_token into an output fifo of the graph.                             *)
LEMMA HostPut ==
  ASSUME TypeOK, HostFifos, NEW e \in Edges, e.snk \notin Actors, e.src \in Actors,
         NEW n \in Rounds, n = Len(done[e.src]) + 1, NEW t \in Token, t.rnd = n,
         fifo'[e] = put_token(fifo[e], t), Len(done'[e.src]) = n
  PROVE  Len(fifo'[e]) = Given(e)' /\ \A i \in DOMAIN fifo'[e] : fifo'[e][i].rnd = i
<1>1. fifo[e] \in Seq(Token) /\ done[e.src] \in Seq(Rounds)
  BY DEF TypeOK
<1>2. e.src # Host
  BY DagAssumption
<1>3. Given(e) = Len(done[e.src]) /\ Given(e)' = n
  BY <1>2 DEF Given
<1> PICK q : q = fifo[e]
  OBVIOUS
<1>4. q \in Seq(Token) /\ Len(q) = n - 1 /\ \A i \in DOMAIN q : q[i].rnd = i
  <2>1. Len(done[e.src]) \in Nat
    BY <1>1
  <2> QED
    BY <1>1, <1>3, <2>1 DEF HostFifos
<1>5. n \in Nat /\ n <= MAX_BUFFER /\ MAX_BUFFER \in Nat
  BY SizeAssumption DEF Rounds
<1>6. Len(put_token(q, t)) = n
  <2>1. Len(q) < MAX_BUFFER
    BY <1>4, <1>5
  <2> QED
    <3>1. Len(put_token(q, t)) = Len(q) + 1
      BY <1>4, <2>1, PutLength
    <3> QED
      BY <1>4, <1>5, <3>1
<1>7. ASSUME NEW i \in DOMAIN put_token(q, t) PROVE put_token(q, t)[i].rnd = i
  <2>1. \/ i \in DOMAIN q /\ put_token(q, t)[i] = q[i]
        \/ i = Len(q) + 1 /\ put_token(q, t)[i] = t
    BY <1>4, <1>7, PutAt
  <2>2. Len(q) + 1 = n
    BY <1>4, <1>5
  <2> QED
    BY <1>4, <2>1, <2>2
<1> QED
  BY <1>3, <1>6, <1>7

(* Only scheduler_pass_result and ready_search put tokens, in order.       *)
LEMMA StepHostFifos ==
  ASSUME UndisturbedFiring, FewPackets, OrderInv, HostFifos, [Next]_vars PROVE HostFifos'
<1>0. TypeOK
  BY BaseTypes DEF OrderInv
<1>1. CASE ScanVisit \/ \E c \in Channels : ResultNext(c)
  <2>1. PICK a \in Actors, n \in Rounds :
          /\ fire[a] # <<>> /\ n = Len(done[a]) + 1
          /\ scheduler_pass_result(a, Sent(a, n))
    BY <1>1, EveryPassIsNext
  <2> PICK toks : toks = Sent(a, n)
    OBVIOUS
  <2>2. /\ fifo' = [e \in Edges |-> IF e.src = a THEN put_token(fifo[e], ResultToken(a, toks, e.res))
                                    ELSE fifo[e]]
        /\ done' = [done EXCEPT ![a] = Append(@, Head(toks).rnd)]
    BY <2>1 DEF scheduler_pass_result
  <2>3. Len(done'[a]) = n /\ \A x \in Actors : x # a => done'[x] = done[x]
    <3>1. done[a] \in Seq(Rounds) /\ done'[a] = Append(done[a], Head(toks).rnd)
      BY <1>0, <2>2 DEF TypeOK
    <3> QED
      BY <1>0, <2>1, <2>2, <3>1 DEF TypeOK
  <2> SUFFICES ASSUME NEW e \in Edges, e.snk \notin Actors
               PROVE  Len(fifo'[e]) = Given(e)' /\ \A i \in DOMAIN fifo'[e] : fifo'[e][i].rnd = i
    BY DEF HostFifos
  <2>4. CASE e.src = a
    <3> PICK t : t = ResultToken(a, toks, e.res)
      OBVIOUS
    <3>1. e \in Out(a)
      BY <2>4 DEF Out
    <3>2. t \in Token /\ (t = Real(a, e.res, n) \/ t = Pseudo(a, e.res, n))
      BY <3>1, SentToken
    <3>3. t.rnd = n
      BY <3>2 DEF Real, Pseudo
    <3> QED
      BY <1>0, <2>1, <2>2, <2>3, <2>4, <3>2, <3>3, HostPut
  <2>5. CASE e.src # a
    BY <2>2, <2>3, <2>5, EdgeTypes DEF HostFifos, Given
  <2> QED
    BY <2>4, <2>5
<1>2. CASE SearchTask
  <2>1. Found \in Actors /\ fifo' = Pop(Found, fifo) /\ done' = done
    BY <1>0, <1>2, FoundIsActor DEF SearchTask
  <2> QED
    BY <2>1 DEF HostFifos, Pop, Given
<1>3. CASE SearchPseudo
  <2> PICK a, n : a = Found /\ n = Head(fifo[In0(a)]).rnd
    OBVIOUS
  <2>1. a \in Actors /\ n = Len(done[a]) + 1 /\ n \in Rounds
    BY <1>3, SkipIsNext DEF OrderInv, BaseInv
  <2>2. /\ fifo' = [e \in Edges |-> IF e.src = a THEN put_token(Pop(a, fifo)[e], Pseudo(a, e.res, n))
                                    ELSE Pop(a, fifo)[e]]
        /\ done' = [done EXCEPT ![a] = Append(@, n)]
    BY <1>3 DEF SearchPseudo
  <2>3. Len(done'[a]) = n /\ \A x \in Actors : x # a => done'[x] = done[x]
    <3>1. done[a] \in Seq(Rounds) /\ done'[a] = Append(done[a], n)
      BY <1>0, <2>1, <2>2 DEF TypeOK
    <3> QED
      BY <1>0, <2>1, <2>2, <3>1 DEF TypeOK
  <2> SUFFICES ASSUME NEW e \in Edges, e.snk \notin Actors
               PROVE  Len(fifo'[e]) = Given(e)' /\ \A i \in DOMAIN fifo'[e] : fifo'[e][i].rnd = i
    BY DEF HostFifos
  <2>4. Pop(a, fifo)[e] = fifo[e]
    BY <2>1 DEF Pop
  <2>5. CASE e.src = a
    <3> PICK t : t = Pseudo(a, e.res, n)
      OBVIOUS
    <3>1. t \in Token /\ t.rnd = n
      BY <2>1, EdgeTypes, TokenTypes DEF Pseudo
    <3> QED
      BY <1>0, <2>1, <2>2, <2>3, <2>4, <2>5, <3>1, HostPut
  <2>6. CASE e.src # a
    BY <2>2, <2>3, <2>4, <2>6, EdgeTypes DEF HostFifos, Given
  <2> QED
    BY <2>5, <2>6
<1>4. CASE ~(ScanVisit \/ SearchTask \/ SearchPseudo \/ \E c \in Channels : ResultNext(c))
  <2>1. UNCHANGED <<fifo, done>>
    BY <1>4 DEF Next, Main, Isr, Poll, Select, actor_fire, inform_dma, inform_dma_last, ready_free,
                BlockLaunch, ScanEnd, SearchNext, BlockIdle, BlockDone,
                DmaDone, LoadDone, ResultLate, vars, dagVars
  <2> QED
    BY <2>1 DEF HostFifos, Given
<1> QED
  BY <1>1, <1>2, <1>3, <1>4

-----------------------------------------------------------------------------
(* alloc_result counts the fifos of a result; none of the tokens for them  *)
(* has been taken yet.                                                     *)
LEMMA NotTakenYet ==
  ASSUME OrderInv, NEW e \in Edges, e.src \in Actors, e.snk \in Actors,
         NEW n \in Nat, Len(done[e.src]) < n
  PROVE  ~Loaded(e.snk, n)
<1>1. TypeOK /\ TokenInv /\ e.src # Host
  BY BaseTypes, DagAssumption DEF OrderInv, BaseInv
<1>2. Len(done[e.src]) = Len(fifo[e]) + Taken(e.snk)
  BY <1>1 DEF TokenInv, Conserved, Given
<1>3. Len(fifo[e]) \in Nat /\ Len(done[e.src]) \in Nat
  BY <1>1 DEF TypeOK
<1>4. Begun(e.snk) \in Nat /\ Taken(e.snk) \in Nat /\ Begun(e.snk) <= Taken(e.snk)
  BY <1>1, BegunType
<1> PICK x, y, z, w : x = Begun(e.snk) /\ y = Taken(e.snk) /\ z = Len(fifo[e]) /\ w = Len(done[e.src])
  OBVIOUS
<1>5. ~(n <= x)
  BY <1>2, <1>3, <1>4
<1> QED
  BY <1>5 DEF Loaded

(* alloc_result counts the fifos of each result: the consumers to come.    *)
LEMMA CountsByDone ==
  ASSUME UndisturbedFiring, OrderInv, CountsExact, NEW b \in Blocks, BlockDone(b)
  PROVE  CountsExact'
<1> PICK a, n : a = bactor[b] /\ n = rnd[b]
  OBVIOUS
<1>0. TypeOK /\ HandlerState
  BY BaseTypes DEF OrderInv
<1>1. /\ a \in Actors /\ n \in Rounds /\ n \in Nat /\ Working(a, b) /\ a # Host
  <2>1. "INFLIGHT" \in flags[b] /\ isr = "none"
    BY DEF BlockDone, Interruptible
  <2>2. a \in Actors /\ n \in Rounds
    BY <1>0, <2>1 DEF HandlerState, TypeOK
  <2> QED
    BY <2>1, <2>2, DagAssumption, SizeAssumption DEF Working, Rounds
<1>2. a \notin Skipped
  <2>1. FiringsInOrder(a) /\ FiresFit
    BY <1>1 DEF OrderInv, FiringInv, LabelInv
  <2>2. PICK i \in DOMAIN fire[a] : fire[a][i] = b
    BY <1>1, <2>1 DEF FiringsInOrder
  <2>3. fire[a] # <<>>
    BY <2>2
  <2> QED
    BY <1>1, <2>1, <2>3 DEF FiresFit
<1>3. \A x \in Actors, m \in Rounds : Loaded(x, m)' <=> Loaded(x, m)
  BY DoneWork
<1>4. Made(a, n)' /\ Len(done[a]) < n
  BY <1>1, DoneWork
<1>5. \A x \in Actors, m \in Rounds : x # a \/ m # n => (Made(x, m)' <=> Made(x, m))
  BY DoneWork
<1> DEFINE New == {Real(a, r, n) : r \in Returned(b)}
<1>6. cnt' = [d \in Data |-> IF d \in New THEN Cardinality(Fanout(d.src, d.res)) ELSE cnt[d]]
  BY DEF BlockDone
<1> SUFFICES ASSUME NEW d \in Data
             PROVE  cnt'[d] = IF Produced(d)' THEN Cardinality(Unloaded(d)') ELSE 0
  BY DEF CountsExact
<1>7. d.src \in Actors \cup {Host} /\ d.rnd \in Rounds /\ d.real
      /\ d = [src |-> d.src, res |-> d.res, rnd |-> d.rnd, real |-> d.real]
  BY DEF Data, Token
<1>8. Unloaded(d)' = Unloaded(d)
  BY <1>3, <1>7 DEF Unloaded
<1>9. d \in New <=> d.src = a /\ d.rnd = n /\ d.res \in Returned(b)
  BY <1>7 DEF Real
<1> HIDE DEF New
<1>10. CASE d \in New
  <2>1. d.res < RATEMATCH_NUM
    BY <1>9, <1>10 DEF Returned
  <2>2. Produced(d)'
    BY <1>2, <1>4, <1>9, <1>10, <2>1 DEF Produced, Returns
  <2>3. ASSUME NEW e \in Fanout(d.src, d.res), e.snk \in Actors PROVE ~Loaded(e.snk, d.rnd)
    <3>1. e \in Edges /\ e.src = a
      BY <1>9, <1>10 DEF Fanout, Out
    <3> QED
      BY <1>1, <1>4, <1>9, <1>10, <2>3, <3>1, NotTakenYet
  <2>4. Unloaded(d) = Fanout(d.src, d.res)
    BY <2>3 DEF Unloaded
  <2> QED
    BY <1>6, <1>8, <1>10, <2>2, <2>4
<1>11. CASE d \notin New
  <2>1. cnt'[d] = IF Produced(d) THEN Cardinality(Unloaded(d)) ELSE 0
    BY <1>6, <1>11 DEF CountsExact
  <2>2. CASE d.src = a /\ d.rnd = n
    <3>1. CASE d.res < RATEMATCH_NUM
      <4>1. d.res \notin Results(a)
        BY <1>9, <1>11, <2>2, <3>1 DEF Returned
      <4>2. Fanout(d.src, d.res) = {}
        BY <2>2, <4>1 DEF Fanout, Results
      <4>3. Unloaded(d) = {} /\ Cardinality({}) = 0
        BY <4>2, FS_EmptySet DEF Unloaded
      <4> QED
        BY <1>8, <2>1, <4>3
    <3>2. CASE ~(d.res < RATEMATCH_NUM)
      BY <1>1, <2>1, <2>2, <3>2 DEF Produced, Returns
    <3> QED
      BY <3>1, <3>2
  <2>3. CASE ~(d.src = a /\ d.rnd = n)
    <3>1. Produced(d)' <=> Produced(d)
      BY <1>5, <1>7, <2>3 DEF Produced, Returns
    <3> QED
      BY <1>8, <2>1, <3>1
  <2> QED
    BY <2>2, <2>3
<1> QED
  BY <1>10, <1>11

(* Subtraction of what is contained.                                       *)
LEMMA WithoutSubset ==
  ASSUME NEW S, IsFiniteSet(S), NEW T \in SUBSET S
  PROVE  /\ Cardinality(S) \in Nat /\ Cardinality(T) \in Nat
         /\ Cardinality(S \ T) = Cardinality(S) - Cardinality(T)
         /\ Cardinality(S \ T) \in Nat
<1>1. IsFiniteSet(T) /\ IsFiniteSet(S \ T)
  BY FS_Subset
<1>2. (S \ T) \cup T = S /\ (S \ T) \cap T = {}
  OBVIOUS
<1>3. Cardinality(S) = Cardinality(S \ T) + Cardinality(T) - Cardinality((S \ T) \cap T)
  BY <1>1, <1>2, FS_Union
<1>4. Cardinality((S \ T) \cap T) = 0
  BY <1>2, FS_EmptySet
<1> QED
  BY <1>1, <1>3, <1>4, FS_CardinalityType

(* recycle_garbage gives up the references that the actor's inputs held. *)
LEMMA CountsByLoad ==
  ASSUME UndisturbedFiring, OrderInv, InputInv, LoadsComplete, CountsExact,
         NEW c \in Channels, LoadDone(c)
  PROVE  CountsExact'
<1> PICK b : b = chan[c].blk
  OBVIOUS
<1> PICK a, n, toks : a = bactor[b] /\ n = rnd[b] /\ toks = chan[c].toks
  OBVIOUS
<1>1. b \in Blocks /\ a \in Actors /\ "RESULT" \notin flags[b] /\ toks \in Seq(Token) /\ n \in Rounds
  BY LoadingBlock
<1>2. \A x \in Actors, m \in Rounds :
        /\ Made(x, m)' <=> Made(x, m)
        /\ x # a \/ m # n => (Loaded(x, m)' <=> Loaded(x, m))
  BY LoadWork
<1>3. ~Loaded(a, n) /\ Loaded(a, n)'
  BY <1>1, LoadWork
<1>4. cnt' = [d \in Data |-> Monus(cnt[d], Copies(toks, d))]
  BY DEF LoadDone
<1> SUFFICES ASSUME NEW d \in Data
             PROVE  cnt'[d] = IF Produced(d)' THEN Cardinality(Unloaded(d)') ELSE 0
  BY DEF CountsExact
<1>5. d.src \in Actors \cup {Host} /\ d.rnd \in Rounds
  BY DEF Data, Token
<1>6. Produced(d)' <=> Produced(d)
  BY <1>2, <1>5 DEF Produced, Returns
<1>7. cnt'[d] = Monus(cnt[d], Copies(toks, d))
  BY <1>4
<1>8. IsFiniteSet(Unloaded(d)) /\ Cardinality(Unloaded(d)) \in Nat
  <2>1. Unloaded(d) \in SUBSET Edges
    BY DEF Unloaded, Fanout, Out
  <2> QED
    BY <2>1, DagAssumption, FS_Subset, FS_CardinalityType
<1>9. Copies(toks, d) \in Nat
  BY <1>1, CopiesType
<1>10. CASE ~Produced(d)
  <2>1. cnt[d] = 0
    BY <1>10 DEF CountsExact
  <2> QED
    BY <1>6, <1>7, <1>9, <1>10, <2>1 DEF Monus
<1>11. CASE Produced(d) /\ d.rnd # n
  <2>1. Unloaded(d)' = Unloaded(d)
    BY <1>2, <1>5, <1>11 DEF Unloaded
  <2>2. Copies(toks, d) = 0
    <3>1. InputsOf(b, toks)
      BY <1>1 DEF InputInv
    <3>2. {i \in DOMAIN toks : toks[i] = d} = {}
      BY <1>11, <3>1 DEF InputsOf
    <3> QED
      BY <3>2, FS_EmptySet DEF Copies
  <2>3. cnt[d] = Cardinality(Unloaded(d))
    BY <1>11 DEF CountsExact
  <2> QED
    BY <1>6, <1>7, <1>8, <1>11, <2>1, <2>2, <2>3 DEF Monus
<1>12. CASE Produced(d) /\ d.rnd = n
  <2> DEFINE C == Carriers(a, d)
             U == Unloaded(d)
  <2>1. Copies(toks, d) = Cardinality(C)
    BY <1>1, <1>12 DEF LoadsComplete
  <2>2. \A e \in Fanout(d.src, d.res) : ~Mute(Skipped, e) /\ e \in Edges /\ e.src = d.src /\ e.res = d.res
    BY <1>12 DEF Produced, Returns, Mute, Fanout, Out
  <2>3. C = {e \in Fanout(d.src, d.res) : e.snk = a}
    BY <2>2 DEF Carriers, In, Fanout, Out
  <2>4. C \in SUBSET U
    BY <1>1, <1>3, <1>12, <2>3 DEF Unloaded
  <2>5. Unloaded(d)' = U \ C
    BY <1>1, <1>2, <1>3, <1>5, <1>12, <2>3 DEF Unloaded
  <2>6. cnt[d] = Cardinality(U)
    BY <1>12 DEF CountsExact
  <2> HIDE DEF C, U
  <2>7. /\ Cardinality(U) \in Nat /\ Cardinality(C) \in Nat
        /\ Cardinality(U \ C) = Cardinality(U) - Cardinality(C) /\ Cardinality(U \ C) \in Nat
    BY <1>8, <2>4, WithoutSubset DEF U
  <2>8. Monus(Cardinality(U), Cardinality(C)) = Cardinality(U \ C)
    BY <2>7 DEF Monus
  <2> QED
    BY <1>6, <1>7, <1>12, <2>1, <2>5, <2>6, <2>8
<1> QED
  BY <1>10, <1>11, <1>12

RefInv == /\ OrderInv /\ InputInv
          /\ DepsComplete /\ LinkComplete /\ LoadsComplete
          /\ Attended /\ HostFifos /\ CountsExact

(* Counts change when results are made and when inputs have been loaded.   *)
LEMMA StepCountsExact ==
  ASSUME UndisturbedFiring, FewPackets, PureSkips, RefInv, [Next]_vars PROVE CountsExact'
<1>0. OrderInv /\ InputInv /\ LoadsComplete /\ CountsExact
  BY DEF RefInv
<1>1. CASE \/ Poll \/ Select \/ inform_dma \/ inform_dma_last \/ ready_free
           \/ BlockLaunch \/ SearchNext \/ SearchTask
           \/ \E b \in Blocks : BlockIdle(b)
  <2>1. cnt' = cnt
    BY <1>1 DEF Poll, Select, inform_dma, inform_dma_last, ready_free, BlockLaunch, SearchNext,
                SearchTask, BlockIdle, dagVars
  <2> QED
    BY <1>0, <1>1, <2>1, QuietWork, CountsFrame
<1>2. CASE actor_fire
  <2>1. cnt' = cnt
    BY <1>2 DEF actor_fire
  <2> QED
    BY <1>0, <1>2, <2>1, FireWork, CountsFrame
<1>3. CASE ScanVisit \/ ScanEnd \/ \E c \in Channels : ResultLate(c) \/ ResultNext(c)
  <2>1. cnt' = cnt
    BY <1>3 DEF ScanVisit, ScanEnd, ResultLate, ResultNext, dagVars
  <2> QED
    BY <1>0, <1>3, <2>1, DeliverWork, CountsFrame
<1>4. CASE SearchPseudo
  <2>1. cnt' = cnt
    BY <1>4 DEF SearchPseudo
  <2> QED
    BY <1>0, <1>4, <2>1, SkipWork, CountsFrame
<1>5. CASE \E b \in Blocks : BlockDone(b)
  BY <1>0, <1>5, CountsByDone
<1>6. CASE \E c \in Channels : LoadDone(c)
  BY <1>0, <1>6, CountsByLoad
<1>7. CASE UNCHANGED vars
  <2>1. \A a \in Actors, n \in Rounds :
          (Loaded(a, n)' <=> Loaded(a, n)) /\ (Made(a, n)' <=> Made(a, n))
    BY <1>7 DEF Loaded, Made, AtWork, Working, Begun, vars, dagVars, blkVars, isrVars
  <2> QED
    BY <1>0, <1>7, <2>1, CountsFrame DEF vars, dagVars
<1> QED
  BY <1>1, <1>2, <1>3, <1>4, <1>5, <1>6, <1>7 DEF Next, Main, Isr, DmaDone

(* The whole invariant.                                                    *)
LEMMA StepRefInv ==
  ASSUME UndisturbedFiring, FewPackets, PureSkips PROVE RefInv /\ [Next]_vars => RefInv'
<1> SUFFICES ASSUME RefInv, [Next]_vars PROVE RefInv'
  OBVIOUS
<1>1. (OrderInv /\ InputInv)'
  BY StepInputInv DEF RefInv
<1>2. DepsComplete' /\ HostFifos' /\ CountsExact'
  BY StepDepsComplete, StepHostFifos, StepCountsExact DEF RefInv
<1>3. CASE Main
  BY <1>1, <1>2, <1>3, MainLoads, MainAttended DEF RefInv
<1>4. CASE Isr
  BY <1>1, <1>2, <1>4, HandlerLoads, LoadsFrame, HandlerAttended DEF RefInv
<1>5. CASE \/ \E b \in Blocks : BlockIdle(b) \/ BlockDone(b)
           \/ \E c \in Channels : DmaDone(c)
  BY <1>1, <1>2, <1>5, InterruptLoads, LoadsFrame, InterruptAttended DEF RefInv
<1>6. CASE UNCHANGED vars
  <2>1. (LinkComplete /\ LoadsComplete /\ Attended)'
    BY <1>6 DEF RefInv, LinkComplete, LoadsComplete, Attended, Serving,
                vars, dagVars, blkVars, dmaVars, mainVars, isrVars
  <2> QED
    BY <1>1, <1>2, <2>1 DEF RefInv
<1> QED
  BY <1>3, <1>4, <1>5, <1>6 DEF Next

LEMMA InitRefInv == ASSUME OneRoot PROVE Init => RefInv
<1> SUFFICES ASSUME Init PROVE RefInv
  OBVIOUS
<1>1. OrderInv /\ InputInv
  <2>1. InputInv
    BY SizeAssumption DEF Init, InputInv, LinkingInputs, FreeChan
  <2> QED
    BY <2>1, InitOrderInv
<1>2. DepsComplete /\ LinkComplete /\ LoadsComplete /\ Attended
  BY SizeAssumption DEF Init, DepsComplete, LinkComplete, LoadsComplete, Attended, FreeChan
<1>3. HostFifos
  <2> SUFFICES ASSUME NEW e \in Edges, e.snk \notin Actors
               PROVE  Len(fifo[e]) = Given(e) /\ \A i \in DOMAIN fifo[e] : fifo[e][i].rnd = i
    BY DEF HostFifos
  <2>1. CASE e.src = Host
    <3>1. fifo[e] = [n \in 1..NUM_PACKET |-> Packet(n)] /\ Given(e) = NUM_PACKET /\ NUM_PACKET \in Nat
      BY <2>1, SizeAssumption DEF Init, Given, Rounds
    <3> QED
      BY <3>1 DEF Packet, Real
  <2>2. CASE e.src # Host
    <3>1. fifo[e] = <<>> /\ e.src \in Actors /\ Given(e) = Len(<<>>)
      BY <2>2, EdgeTypes DEF Init, Given
    <3> QED
      BY <3>1
  <2> QED
    BY <2>1, <2>2
<1>4. CountsExact
  <2>1. \A a \in Actors, n \in Rounds : ~Loaded(a, n) /\ ~Made(a, n)
    <3>1. \A a \in Actors : Begun(a) = 0
      BY DEF Init, Begun
    <3>2. \A n \in Rounds : ~(n <= 0)
      BY DEF Rounds
    <3> QED
      BY <3>1, <3>2 DEF Loaded, Made
  <2> SUFFICES ASSUME NEW d \in Data
               PROVE  cnt[d] = IF Produced(d) THEN Cardinality(Unloaded(d)) ELSE 0
    BY DEF CountsExact
  <2>2. /\ d.src \in Actors \cup {Host} /\ d.rnd \in Rounds
        /\ d = [src |-> d.src, res |-> d.res, rnd |-> d.rnd, real |-> TRUE]
    BY DEF Data, Token
  <2>3. Unloaded(d) = Fanout(d.src, d.res)
    BY <2>1, <2>2 DEF Unloaded
  <2>4. cnt[d] = IF d \in {Packet(n) : n \in Rounds} THEN 1 ELSE 0
    BY DEF Init
  <2>5. d \in {Packet(n) : n \in Rounds} <=> d.src = Host /\ d.res = 0
    BY <2>2 DEF Packet, Real
  <2>6. CASE d.src # Host
    BY <2>1, <2>2, <2>4, <2>5, <2>6 DEF Produced
  <2>7. CASE d.src = Host /\ d.res = 0
    BY <2>3, <2>4, <2>5, <2>7 DEF Produced, Returns, OneRoot
  <2>8. CASE d.src = Host /\ d.res # 0
    <3>1. Fanout(d.src, d.res) = {}
      BY <2>8, DagAssumption DEF Fanout, Out
    <3> QED
      BY <2>3, <2>4, <2>5, <2>8, <3>1, FS_EmptySet
  <2> QED
    BY <2>6, <2>7, <2>8
<1> QED
  BY <1>1, <1>2, <1>3, <1>4 DEF RefInv

-----------------------------------------------------------------------------
(* Where the tokens of a datum are at rest, as the edges they are for: an  *)
(* edge whose sink has taken the packet no token waits on, one whose sink  *)
(* has begun it is not asked for by a task, one whose sink has loaded it   *)
(* is not in a transfer.                                                   *)
TakenFrom(e) == IF e.snk \in Actors THEN Taken(e.snk) ELSE 0

FifoEdges(d) == {e \in Fanout(d.src, d.res) : TakenFrom(e) < d.rnd}
TaskEdges(d) == {e \in Fanout(d.src, d.res) :
                   e.snk \in Actors /\ Begun(e.snk) < d.rnd /\ d.rnd <= Taken(e.snk)}
LoadEdges(d) == {e \in Fanout(d.src, d.res) :
                   e.snk \in Actors /\ d.rnd <= Begun(e.snk) /\ ~Loaded(e.snk, d.rnd)}

(* The packets whose datum has been delivered into the fifos. *)
Passed(d) == d.src # Host => d.rnd <= Len(done[d.src])

(* A datum is named by its source, its result and its packet.              *)
LEMMA DatumIs ==
  ASSUME NEW d \in Data
  PROVE  /\ d.src \in Actors \cup {Host} /\ d.rnd \in Rounds /\ d.rnd \in Nat /\ d.real
         /\ d = Real(d.src, d.res, d.rnd) /\ d \in Token
BY SizeAssumption DEF Data, Token, Real, Rounds

(* What waits in a fifo: the next packets its sink will take. *)
LEMMA FifoHolds ==
  ASSUME RefInv, NEW e \in Edges
  PROVE  /\ fifo[e] \in Seq(Token) /\ TakenFrom(e) \in Nat /\ Given(e) \in Nat
         /\ Len(fifo[e]) + TakenFrom(e) = Given(e)
         /\ \A i \in DOMAIN fifo[e] : fifo[e][i].rnd = TakenFrom(e) + i /\ Fits(e, fifo[e][i])
<1>0. TypeOK /\ TokenInv
  BY BaseTypes DEF RefInv, OrderInv, BaseInv
<1>1. fifo[e] \in Seq(Token) /\ Len(fifo[e]) \in Nat /\ \A i \in DOMAIN fifo[e] : i \in Nat
  BY <1>0 DEF TypeOK
<1>2. \A i \in DOMAIN fifo[e] : Fits(e, fifo[e][i])
  BY DEF RefInv, OrderInv, LabelInv, FifosFit
<1>3. CASE e.snk \in Actors
  <2>1. Taken(e.snk) \in Nat
    BY <1>0, <1>3, TakenType
  <2>2. Given(e) = Len(fifo[e]) + Taken(e.snk)
    BY <1>0, <1>3 DEF TokenInv, Conserved
  <2>3. \A i \in DOMAIN fifo[e] : fifo[e][i].rnd = Taken(e.snk) + i
    BY <1>3 DEF RefInv, OrderInv, PacketInv, FifosInOrder
  <2> PICK t, l : t = Taken(e.snk) /\ l = Len(fifo[e])
    OBVIOUS
  <2>4. t \in Nat /\ l \in Nat /\ TakenFrom(e) = t /\ Given(e) = l + t
    BY <1>1, <1>3, <2>1, <2>2 DEF TakenFrom
  <2> QED
    BY <1>1, <1>2, <2>3, <2>4
<1>4. CASE e.snk \notin Actors
  <2>1. Len(fifo[e]) = Given(e) /\ \A i \in DOMAIN fifo[e] : fifo[e][i].rnd = i
    BY <1>4 DEF RefInv, HostFifos
  <2>2. TakenFrom(e) = 0
    BY <1>4 DEF TakenFrom
  <2> QED
    BY <1>1, <1>2, <2>1, <2>2
<1> QED
  BY <1>3, <1>4

(* The fifos hold the datum once for each of these edges.                  *)
LEMMA FifoCount ==
  ASSUME RefInv, NEW d \in Data
  PROVE  IF Returns(d) /\ Passed(d) THEN Cardinality(InFifos(d)) = Cardinality(FifoEdges(d))
         ELSE InFifos(d) = {}
<1> PICK n : n = d.rnd
  OBVIOUS
<1>1. ASSUME NEW e \in Edges, NEW i \in DOMAIN fifo[e]
      PROVE  fifo[e][i] = d <=> e \in Fanout(d.src, d.res) /\ Returns(d) /\ n = TakenFrom(e) + i
  <2>1. fifo[e][i] \in Token /\ fifo[e][i].rnd = TakenFrom(e) + i /\ Fits(e, fifo[e][i])
    BY <1>1, FifoHolds
  <2> PICK t : t = fifo[e][i]
    OBVIOUS
  <2>2. /\ t = [src |-> t.src, res |-> t.res, rnd |-> t.rnd, real |-> t.real]
        /\ t.src = e.src /\ t.res = e.res /\ (t.real <=> ~Mute(Skipped, e))
        /\ t.real \in BOOLEAN
    BY <2>1 DEF Token, Fits
  <2>3. e \in Fanout(d.src, d.res) <=> e.src = d.src /\ e.res = d.res
    BY DEF Fanout, Out
  <2>4. e \in Fanout(d.src, d.res) => (Returns(d) <=> ~Mute(Skipped, e))
    BY <2>3 DEF Returns, Mute
  <2>5. d = [src |-> d.src, res |-> d.res, rnd |-> n, real |-> TRUE]
    BY DatumIs DEF Real
  <2>6. t = d <=> t.src = d.src /\ t.res = d.res /\ t.rnd = n /\ t.real
    <3>1. ASSUME t.src = d.src, t.res = d.res, t.rnd = n, t.real PROVE t = d
      <4>1. t.real = TRUE
        BY <2>2, <3>1
      <4> QED
        BY <2>2, <2>5, <3>1, <4>1
    <3>2. ASSUME t = d PROVE t.src = d.src /\ t.res = d.res /\ t.rnd = n /\ t.real
      BY <2>5, <3>2
    <3> QED
      BY <3>1, <3>2
  <2>7. t.src = d.src /\ t.res = d.res <=> e \in Fanout(d.src, d.res)
    BY <2>2, <2>3
  <2>8. e \in Fanout(d.src, d.res) => (t.real <=> Returns(d))
    BY <2>2, <2>4
  <2>9. t.rnd = n <=> n = TakenFrom(e) + i
    BY <2>1
  <2> HIDE DEF Returns, Fanout
  <2> QED
    BY <2>6, <2>7, <2>8, <2>9
<1>2. \A e \in Fanout(d.src, d.res) :
        e \in Edges /\ (Passed(d) <=> n <= Given(e))
    <2> TAKE e \in Fanout(d.src, d.res)
    <2>1. e \in Edges /\ e.src = d.src
      BY DEF Fanout, Out
    <2>2. n <= NUM_PACKET
      BY DatumIs, SizeAssumption DEF Rounds
    <2> QED
      BY <2>1, <2>2 DEF Passed, Given
<1>3. CASE Returns(d) /\ Passed(d)
  <2> DEFINE S == FifoEdges(d)
             F == [e \in S |-> <<e, n - TakenFrom(e)>>]
  <2>1. ASSUME NEW e \in S PROVE F[e] \in InFifos(d)
    <3>1. e \in Edges /\ e \in Fanout(d.src, d.res) /\ TakenFrom(e) < n /\ n <= Given(e)
      BY <1>2, <1>3 DEF FifoEdges
    <3>2. n - TakenFrom(e) \in DOMAIN fifo[e] /\ n = TakenFrom(e) + (n - TakenFrom(e))
      BY <3>1, FifoHolds, DatumIs
    <3>3. fifo[e][n - TakenFrom(e)] = d
      BY <1>1, <1>3, <3>1, <3>2
    <3> QED
      BY <3>1, <3>2, <3>3 DEF InFifos, At
  <2>2. ASSUME NEW p \in InFifos(d) PROVE \E e \in S : F[e] = p
    <3> PICK e \in Edges : p \in {e} \X At(fifo[e], d)
      BY <2>2 DEF InFifos
    <3>1. PICK i \in DOMAIN fifo[e] : p = <<e, i>> /\ fifo[e][i] = d
      BY DEF At
    <3>2. e \in Fanout(d.src, d.res) /\ n = TakenFrom(e) + i
      BY <1>1, <3>1
    <3>3. TakenFrom(e) < n /\ i = n - TakenFrom(e)
      BY <3>1, <3>2, FifoHolds
    <3>4. e \in S
      BY <3>2, <3>3 DEF FifoEdges
    <3> QED
      BY <3>1, <3>3, <3>4
  <2>3. F \in [S -> InFifos(d)] /\ \A x, y \in S : F[x] = F[y] => x = y
    BY <2>1
  <2>4. IsFiniteSet(S)
    BY FS_Subset, DagAssumption DEF FifoEdges, Fanout, Out
  <2> HIDE DEF S, F
  <2>5. Cardinality(InFifos(d)) = Cardinality(S)
    BY <2>2, <2>3, <2>4, SameSize
  <2> QED
    BY <1>3, <2>5 DEF S
<1>4. CASE ~(Returns(d) /\ Passed(d))
  <2> SUFFICES ASSUME NEW p \in InFifos(d) PROVE FALSE
    BY <1>4
  <2> PICK e \in Edges : p \in {e} \X At(fifo[e], d)
    BY DEF InFifos
  <2>1. PICK i \in DOMAIN fifo[e] : p = <<e, i>> /\ fifo[e][i] = d
    BY DEF At
  <2>2. e \in Fanout(d.src, d.res) /\ n = TakenFrom(e) + i /\ Returns(d)
    BY <1>1, <2>1
  <2>3. n <= Given(e)
    BY <2>1, <2>2, FifoHolds
  <2> QED
    BY <1>2, <1>4, <2>2, <2>3
<1> QED
  BY <1>3, <1>4

(* What carries a datum to an actor carries a token of it. *)
LEMMA CarriersAre ==
  ASSUME NEW d \in Data, NEW a
  PROVE  Carriers(a, d) = IF Returns(d) THEN {e \in Fanout(d.src, d.res) : e.snk = a} ELSE {}
BY DEF Carriers, Returns, Mute, Fanout, Out, In

(* The tasks that are ready ask for the data their packets derive. *)
LEMMA TaskCount ==
  ASSUME RefInv, AtRest, NEW d \in Data
  PROVE  IF Returns(d) THEN Cardinality(InTasks(d)) = Cardinality(TaskEdges(d))
         ELSE InTasks(d) = {}
<1> PICK n : n = d.rnd
  OBVIOUS
<1>0. TypeOK /\ OrderInv /\ DepsComplete /\ n \in Nat
  BY BaseTypes, DatumIs DEF RefInv, OrderInv
<1>1. \A i \in DOMAIN ready : i \in Nat /\ ready[i].actor \in Actors /\ i \in Pending(ready[i].actor)
  <2>1. ready \in Seq(ReadyTask)
    BY <1>0 DEF TypeOK
  <2>2. \A i \in DOMAIN ready : i \in Nat /\ ready[i] \in ReadyTask
    BY <2>1
  <2> QED
    BY <2>2 DEF AtRest, Pending, Fired, ReadyTask
<1>2. \A a \in Actors : \A i, j \in Pending(a) :
        /\ i \in DOMAIN ready /\ ready[i].actor = a
        /\ Packetof(ready[i]) \in (Begun(a) + 1)..Taken(a)
        /\ Packetof(ready[i]) = Packetof(ready[j]) => i = j
  <2> TAKE a \in Actors
  <2> TAKE i, j \in Pending(a)
  <2>1. i \in DOMAIN ready /\ j \in DOMAIN ready /\ ready[i].actor = a /\ ready[j].actor = a
    BY DEF Pending
  <2>2. i \in Nat /\ j \in Nat
    BY <1>1, <2>1
  <2>3. TasksInOrder(a) /\ Begun(a) \in Nat /\ Taken(a) \in Nat
    BY <1>0, BegunType DEF OrderInv, PacketInv
  <2>4. Packetof(ready[i]) \in (Begun(a) + 1)..Taken(a) /\ Packetof(ready[j]) \in (Begun(a) + 1)..Taken(a)
    BY <2>3 DEF TasksInOrder
  <2>5. i < j => Packetof(ready[i]) < Packetof(ready[j])
    BY <2>3 DEF TasksInOrder
  <2>6. j < i => Packetof(ready[j]) < Packetof(ready[i])
    BY <2>3 DEF TasksInOrder
  <2> HIDE DEF Pending, Packetof, Begun, Taken
  <2> QED
    BY <2>1, <2>2, <2>3, <2>4, <2>5, <2>6
<1>3. ASSUME NEW i \in DOMAIN ready, NEW f \in ready[i].deps, f.tok = d
      PROVE  \E e \in Carriers(ready[i].actor, d) :
               f = [inp |-> e.inp, tok |-> d] /\ Packetof(ready[i]) = n
  <2> PICK a, m : a = ready[i].actor /\ m = Packetof(ready[i])
    OBVIOUS
  <2>1. PICK e \in Carrying(a) : f = [inp |-> e.inp, tok |-> Real(e.src, e.res, m)]
    BY <1>0, <1>3, DepsAre
  <2>2. d = Real(e.src, e.res, m)
    BY <1>3, <2>1
  <2>3. e.src = d.src /\ e.res = d.res /\ m = n
    BY <2>2 DEF Real
  <2> QED
    BY <2>1, <2>2, <2>3 DEF Carriers, Carrying
<1>4. ASSUME NEW i \in DOMAIN ready, NEW e \in Carriers(ready[i].actor, d), Packetof(ready[i]) = n
      PROVE  [inp |-> e.inp, tok |-> d] \in ready[i].deps
  <2>1. e \in Carrying(ready[i].actor) /\ e.src = d.src /\ e.res = d.res
    BY <1>4 DEF Carriers, Carrying
  <2>2. [inp |-> e.inp, tok |-> Real(e.src, e.res, n)] \in ready[i].deps
    BY <1>0, <1>4, <2>1, DepsAre
  <2> QED
    BY <2>1, <2>2, DatumIs
<1>5. CASE Returns(d)
  <2> DEFINE S == TaskEdges(d)
             I(e) == CHOOSE i \in Pending(e.snk) : Packetof(ready[i]) = n
             F == [e \in S |-> <<I(e), [inp |-> e.inp, tok |-> d]>>]
  <2>1. ASSUME NEW e \in S
        PROVE  /\ e \in Fanout(d.src, d.res) /\ e.snk \in Actors
               /\ n \in (Begun(e.snk) + 1)..Taken(e.snk)
    <3>1. e \in Fanout(d.src, d.res) /\ e.snk \in Actors /\ Begun(e.snk) < n /\ n <= Taken(e.snk)
      BY DEF TaskEdges
    <3>2. Begun(e.snk) \in Nat /\ Taken(e.snk) \in Nat
      BY <1>0, <3>1, BegunType
    <3> QED
      BY <1>0, <3>1, <3>2
  <2>2. ASSUME NEW e \in S PROVE I(e) \in Pending(e.snk) /\ Packetof(ready[I(e)]) = n
    <3>1. \E i \in Pending(e.snk) : Packetof(ready[i]) = n
      BY <1>0, <2>1 DEF OrderInv, PacketInv, TasksInOrder
    <3> QED
      BY <3>1
  <2>3. ASSUME NEW e \in S PROVE F[e] \in InTasks(d)
    <3>1. e \in Carriers(e.snk, d)
      BY <1>5, <2>1, CarriersAre
    <3> PICK i : i = I(e)
      OBVIOUS
    <3>2. i \in DOMAIN ready /\ ready[i].actor = e.snk /\ Packetof(ready[i]) = n
      BY <1>2, <2>1, <2>2
    <3>3. [inp |-> e.inp, tok |-> d] \in ready[i].deps
      BY <1>4, <3>1, <3>2
    <3>4. <<i, [inp |-> e.inp, tok |-> d]>> \in InTasks(d)
      <4> PICK g : g = [inp |-> e.inp, tok |-> d]
        OBVIOUS
      <4>1. g \in {f \in ready[i].deps : f.tok = d}
        BY <3>3
      <4>2. <<i, g>> \in {i} \X {f \in ready[i].deps : f.tok = d}
        BY <4>1
      <4> QED
        BY <3>2, <4>2 DEF InTasks
    <3>5. F[e] = <<i, [inp |-> e.inp, tok |-> d]>>
      BY <2>3
    <3> QED
      BY <3>4, <3>5
  <2>4. ASSUME NEW p \in InTasks(d) PROVE \E e \in S : F[e] = p
    <3> PICK i \in DOMAIN ready : p \in {i} \X {f \in ready[i].deps : f.tok = d}
      BY <2>4 DEF InTasks
    <3>1. PICK f \in ready[i].deps : p = <<i, f>> /\ f.tok = d
      OBVIOUS
    <3> PICK a : a = ready[i].actor
      OBVIOUS
    <3>2. PICK e \in Carriers(a, d) : f = [inp |-> e.inp, tok |-> d] /\ Packetof(ready[i]) = n
      BY <1>3, <3>1
    <3>3. e \in Fanout(d.src, d.res) /\ e.snk = a
      BY <1>5, <3>2, CarriersAre
    <3>4. a \in Actors /\ i \in Pending(a)
      BY <1>1
    <3>5. n \in (Begun(a) + 1)..Taken(a) /\ Begun(a) \in Nat /\ Taken(a) \in Nat
      BY <1>0, <1>2, <3>2, <3>4, BegunType
    <3>6. e \in S
      BY <3>3, <3>4, <3>5 DEF TaskEdges
    <3>7. I(e) = i
      BY <1>2, <2>2, <3>2, <3>3, <3>4, <3>6
    <3> QED
      BY <3>1, <3>2, <3>6, <3>7
  <2>5. ASSUME NEW x \in S, NEW y \in S, F[x] = F[y] PROVE x = y
    <3> PICK i, j : i = I(x) /\ j = I(y)
      OBVIOUS
    <3> PICK f, g : f = [inp |-> x.inp, tok |-> d] /\ g = [inp |-> y.inp, tok |-> d]
      OBVIOUS
    <3>0. F[x] = <<i, f>> /\ F[y] = <<j, g>>
      OBVIOUS
    <3> HIDE DEF F
    <3>1. <<i, f>> = <<j, g>>
      BY <2>5, <3>0
    <3>3. i = j /\ f = g
      BY <3>1
    <3>4. I(x) = I(y)
      BY <3>3
    <3>5. x.inp = y.inp
      <4>1. f.inp = x.inp /\ g.inp = y.inp
        OBVIOUS
      <4> QED
        BY <3>3, <4>1
    <3>2. x.snk = y.snk
      BY <1>2, <2>1, <2>2, <3>4
    <3>6. x \in In(x.snk) /\ y \in In(x.snk) /\ x.snk \in Actors
      BY <2>1, <3>2 DEF Fanout, Out, In
    <3> QED
      BY <3>5, <3>6, DagAssumption
  <2>6. IsFiniteSet(S)
    BY FS_Subset, DagAssumption DEF TaskEdges, Fanout, Out
  <2>7. F \in [S -> InTasks(d)]
    BY <2>3
  <2> HIDE DEF S, F
  <2>8. Cardinality(InTasks(d)) = Cardinality(S)
    BY <2>4, <2>5, <2>6, <2>7, SameSize
  <2> QED
    BY <1>5, <2>8 DEF S
<1>6. CASE ~Returns(d)
  <2> SUFFICES ASSUME NEW p \in InTasks(d) PROVE FALSE
    BY <1>6
  <2> PICK i \in DOMAIN ready : p \in {i} \X {f \in ready[i].deps : f.tok = d}
    BY DEF InTasks
  <2>1. PICK f \in ready[i].deps : f.tok = d
    OBVIOUS
  <2> QED
    BY <1>3, <1>6, <2>1, CarriersAre
<1> QED
  BY <1>5, <1>6

(* Where the inputs of a firing that has begun are, until they are loaded: *)
(* in the one transfer of its block.                                       *)
Loaders(a, n) == {c \in Loading : chan[c].blk \in AtWork(a, n)}

(* A busy channel without results loads a block at work.                   *)
LEMMA LoaderIs ==
  ASSUME RefInv, AtRest, NEW c \in Loading, NEW b, b = chan[c].blk
  PROVE  /\ c \in Channels /\ b \in Blocks /\ bactor[b] \in Actors /\ rnd[b] \in Rounds
         /\ b \in AtWork(bactor[b], rnd[b]) /\ "RESULT" \notin flags[b]
         /\ ~Loaded(bactor[b], rnd[b]) /\ rnd[b] <= Begun(bactor[b])
         /\ chan[c].toks \in Seq(Token)
<1>0. TypeOK /\ OrderInv /\ HandlerState /\ Ownership
  BY BaseTypes DEF RefInv, OrderInv
<1>1. c \in Channels /\ b # NULL /\ "RESULT" \notin flags[b]
  BY DEF Loading, Returning, Busy
<1>2. chan[c] \in Parcel
  BY <1>0, <1>1 DEF TypeOK, FreeChan
<1>3. b \in Blocks /\ chan[c].toks \in Seq(Token) /\ Serving(b)
  BY <1>1, <1>2 DEF Parcel, Tokens, Serving
<1>4. "INFLIGHT" \in flags[b] /\ hw[b] = "idle"
  <2>1. "INFLIGHT" \in flags[b] /\ hw[b] # "computing" /\ hw[b] # "finished"
    BY <1>0, <1>1, <1>3 DEF Ownership
  <2> QED
    BY <1>0, <1>3, <2>1 DEF TypeOK
<1>5. bactor[b] \in Actors /\ rnd[b] \in Rounds
  BY <1>0, <1>3, <1>4 DEF HandlerState, TypeOK
<1>6. b \in AtWork(bactor[b], rnd[b])
  BY <1>3, <1>4 DEF AtWork, Working, AtRest
<1>7. rnd[b] <= Begun(bactor[b])
  BY <1>0, <1>5, <1>6, OneAtWork
<1> QED
  BY <1>1, <1>3, <1>4, <1>5, <1>6, <1>7 DEF Loaded

(* There is exactly one such channel while the inputs are being loaded.    *)
LEMMA OneLoader ==
  ASSUME RefInv, AtRest, NEW a \in Actors, NEW n
  PROVE  /\ \A c, x \in Loaders(a, n) : c = x
         /\ n <= Begun(a) /\ ~Loaded(a, n) => Loaders(a, n) # {}
<1>0. TypeOK /\ OrderInv /\ Ownership /\ OneTransferPerBlock
  BY BaseTypes DEF RefInv, OrderInv
<1>1. ASSUME NEW c \in Loaders(a, n), NEW x \in Loaders(a, n) PROVE c = x
  <2>1. c \in Channels /\ x \in Channels /\ chan[c].blk # NULL
    BY DEF Loaders, Loading, Busy
  <2>2. chan[c].blk = chan[x].blk
    BY <1>0, OneAtWork DEF Loaders
  <2> QED
    BY <1>0, <2>1, <2>2 DEF OneTransferPerBlock
<1>2. ASSUME n <= Begun(a), ~Loaded(a, n) PROVE Loaders(a, n) # {}
  <2>1. PICK b \in AtWork(a, n) : hw[b] = "idle"
    BY <1>2 DEF Loaded
  <2>2. b \in Blocks /\ "INFLIGHT" \in flags[b]
    BY DEF AtWork, Working
  <2>3. Serving(b)
    BY <2>1, <2>2 DEF RefInv, Attended, AtRest
  <2>4. "RESULT" \notin flags[b]
    BY <1>0, <2>1, <2>2 DEF Ownership
  <2>5. PICK c \in Channels : chan[c].blk = b
    BY <2>3 DEF Serving
  <2>6. c \in Loaders(a, n)
    BY <2>2, <2>4, <2>5, SizeAssumption DEF Loaders, Loading, Returning, Busy
  <2> QED
    BY <2>6
<1> QED
  BY <1>1, <1>2

(* It holds a token for every input that carries one. *)
LEMMA LoaderHolds ==
  ASSUME RefInv, AtRest, NEW c \in Loading, NEW b, b = chan[c].blk, NEW d \in Data
  PROVE  IF d.rnd = rnd[b] THEN \E g : g \in Bijection(Carriers(bactor[b], d), At(chan[c].toks, d))
         ELSE At(chan[c].toks, d) = {}
<1>1. /\ c \in Channels /\ b \in Blocks /\ "RESULT" \notin flags[b] /\ chan[c].toks \in Seq(Token)
  BY LoaderIs
<1>2. CASE d.rnd = rnd[b]
  <2> PICK p, C : p = chan[c].toks /\ C = Carriers(bactor[b], d)
    OBVIOUS
  <2>1. Copies(p, d) = Cardinality(C)
    BY <1>1, <1>2 DEF RefInv, LoadsComplete
  <2>2. IsFiniteSet(C)
    BY DagAssumption, FS_Subset DEF Carriers, In
  <2>3. IsFiniteSet(At(p, d))
    <3>1. DOMAIN p = 1..Len(p) /\ Len(p) \in Nat
      BY <1>1
    <3> QED
      BY <3>1, FS_Interval, FS_Subset DEF At
  <2>4. Cardinality(At(p, d)) = Cardinality(C)
    BY <2>1 DEF Copies, At
  <2>5. ExistsBijection(C, At(p, d))
    BY <2>2, <2>3, <2>4, FS_SameCardinalityBij
  <2> QED
    BY <1>2, <2>5 DEF ExistsBijection
<1>3. CASE d.rnd # rnd[b]
  BY <1>1, <1>3 DEF RefInv, InputInv, InputsOf, At
<1> QED
  BY <1>2, <1>3

(* The transfers hold the datum once for each input that is being loaded.  *)
LEMMA LoadCount ==
  ASSUME RefInv, AtRest, NEW d \in Data
  PROVE  IF Returns(d) THEN Cardinality(InLoads(d)) = Cardinality(LoadEdges(d))
         ELSE InLoads(d) = {}
<1> PICK n : n = d.rnd
  OBVIOUS
<1>1. ASSUME NEW c \in Loading, NEW i \in At(chan[c].toks, d), NEW b, b = chan[c].blk
      PROVE  /\ rnd[b] = n /\ bactor[b] \in Actors /\ c \in Loaders(bactor[b], n)
             /\ n <= Begun(bactor[b]) /\ ~Loaded(bactor[b], n)
             /\ Carriers(bactor[b], d) # {}
  <2>1. rnd[b] = n
    BY <1>1, LoaderHolds
  <2>2. \E g : g \in Bijection(Carriers(bactor[b], d), At(chan[c].toks, d))
    BY <1>1, <2>1, LoaderHolds
  <2>3. Carriers(bactor[b], d) # {}
    BY <2>2 DEF Bijection, Surjection
  <2> QED
    BY <1>1, <2>1, <2>3, LoaderIs DEF Loaders
<1>2. CASE Returns(d)
  <2> DEFINE S == LoadEdges(d)
             C(a) == CHOOSE c \in Loaders(a, n) : TRUE
             T(a) == At(chan[C(a)].toks, d)
             G(a) == CHOOSE g : g \in Bijection(Carriers(a, d), T(a))
             F == [e \in S |-> <<C(e.snk), G(e.snk)[e]>>]
  <2>1. ASSUME NEW a \in Actors, n <= Begun(a), ~Loaded(a, n)
        PROVE  /\ C(a) \in Loading /\ C(a) \in Loaders(a, n) /\ bactor[chan[C(a)].blk] = a
               /\ G(a) \in Bijection(Carriers(a, d), T(a))
    <3>1. C(a) \in Loaders(a, n)
      BY <2>1, OneLoader
    <3> PICK c, b : c = C(a) /\ b = chan[c].blk
      OBVIOUS
    <3>2. c \in Loading /\ b \in AtWork(a, n)
      BY <3>1 DEF Loaders
    <3>3. bactor[b] = a /\ rnd[b] = n
      BY <3>2 DEF AtWork, Working
    <3>4. \E g : g \in Bijection(Carriers(a, d), At(chan[c].toks, d))
      BY <3>2, <3>3, LoaderHolds
    <3> QED
      BY <3>1, <3>2, <3>3, <3>4
  <2>2. ASSUME NEW e \in S
        PROVE  /\ e \in Edges /\ e.snk \in Actors /\ n <= Begun(e.snk) /\ ~Loaded(e.snk, n)
               /\ e \in Carriers(e.snk, d)
    <3>1. e \in Fanout(d.src, d.res) /\ e.snk \in Actors /\ n <= Begun(e.snk) /\ ~Loaded(e.snk, n)
      BY DEF LoadEdges
    <3> QED
      BY <1>2, <3>1, CarriersAre DEF Fanout, Out
  <2>3. \A e \in S : F[e] = <<C(e.snk), G(e.snk)[e]>>
    OBVIOUS
  <2>4. IsFiniteSet(S)
    BY FS_Subset, DagAssumption DEF LoadEdges, Fanout, Out
  <2>5. ASSUME NEW X, \A e \in S : F[e] \in X PROVE F \in [S -> X]
    <3>1. \A e \in S : <<C(e.snk), G(e.snk)[e]>> \in X
      BY <2>3, <2>5
    <3> HIDE DEF S, C, G
    <3> QED
      BY <3>1
  <2>6. \A c \in Loading : \A i \in At(chan[c].toks, d) : <<c, i>> \in InLoads(d)
    <3> TAKE c \in Loading
    <3> TAKE i \in At(chan[c].toks, d)
    <3>1. <<c, i>> \in {c} \X At(chan[c].toks, d)
      OBVIOUS
    <3> QED
      BY <3>1 DEF InLoads
  <2> HIDE DEF S, C, F
  <2>7. ASSUME NEW e \in S PROVE F[e] \in InLoads(d)
    <3> PICK a : a = e.snk
      OBVIOUS
    <3>1. C(a) \in Loading /\ G(a) \in Bijection(Carriers(a, d), T(a)) /\ e \in Carriers(a, d)
      BY <2>1, <2>2
    <3> HIDE DEF G
    <3>2. G(a)[e] \in T(a)
      BY <3>1 DEF Bijection, Injection
    <3> QED
      BY <2>3, <2>6, <3>1, <3>2
  <2>8. ASSUME NEW p \in InLoads(d) PROVE \E e \in S : F[e] = p
    <3> PICK c \in Loading : p \in {c} \X At(chan[c].toks, d)
      BY <2>8 DEF InLoads
    <3> PICK b, a : b = chan[c].blk /\ a = bactor[b]
      OBVIOUS
    <3>1. PICK i \in At(chan[c].toks, d) : p = <<c, i>>
      OBVIOUS
    <3>2. a \in Actors /\ c \in Loaders(a, n) /\ n <= Begun(a) /\ ~Loaded(a, n)
      BY <1>1, <3>1
    <3>3. C(a) \in Loaders(a, n) /\ G(a) \in Bijection(Carriers(a, d), T(a))
      BY <2>1, <3>2
    <3>4. C(a) = c
      BY <3>2, <3>3, OneLoader
    <3> HIDE DEF G
    <3>5. PICK e \in Carriers(a, d) : G(a)[e] = i
      BY <3>1, <3>3, <3>4 DEF Bijection, Surjection
    <3>6. e \in Fanout(d.src, d.res) /\ e.snk = a
      BY <1>2, <3>5, CarriersAre
    <3>7. e \in S
      BY <3>2, <3>6 DEF S, LoadEdges
    <3> QED
      BY <2>3, <3>1, <3>4, <3>5, <3>6, <3>7
  <2>9. ASSUME NEW x \in S, NEW y \in S, F[x] = F[y] PROVE x = y
    <3> PICK a, k : a = x.snk /\ k = y.snk
      OBVIOUS
    <3>1. /\ a \in Actors /\ n <= Begun(a) /\ ~Loaded(a, n) /\ x \in Carriers(a, d)
          /\ k \in Actors /\ n <= Begun(k) /\ ~Loaded(k, n) /\ y \in Carriers(k, d)
      BY <2>2
    <3>2. /\ bactor[chan[C(a)].blk] = a /\ bactor[chan[C(k)].blk] = k
          /\ G(a) \in Bijection(Carriers(a, d), T(a))
      BY <2>1, <3>1
    <3> HIDE DEF G
    <3> PICK i, j, v, w : i = C(a) /\ j = C(k) /\ v = G(a)[x] /\ w = G(k)[y]
      OBVIOUS
    <3>3. <<i, v>> = <<j, w>>
      BY <2>3, <2>9
    <3>4. i = j /\ v = w
      BY <3>3
    <3>5. a = k
      BY <3>2, <3>4
    <3>6. G(a)[x] = G(a)[y] /\ y \in Carriers(a, d)
      BY <3>1, <3>4, <3>5
    <3> QED
      BY <3>1, <3>2, <3>6 DEF Bijection, Injection, IsInjective
  <2>10. F \in [S -> InLoads(d)]
    BY <2>5, <2>7
  <2>11. Cardinality(InLoads(d)) = Cardinality(S)
    BY <2>4, <2>8, <2>9, <2>10, SameSize
  <2> QED
    BY <1>2, <2>11 DEF S
<1>3. CASE ~Returns(d)
  <2> SUFFICES ASSUME NEW p \in InLoads(d) PROVE FALSE
    BY <1>3
  <2> PICK c \in Loading : p \in {c} \X At(chan[c].toks, d)
    BY DEF InLoads
  <2>1. \E i \in At(chan[c].toks, d) : TRUE
    OBVIOUS
  <2> QED
    BY <1>1, <1>3, <2>1, CarriersAre
<1> QED
  BY <1>2, <1>3

(* Results on their way back: in the one transfer of the block that made   *)
(* them, or, if they are not the actor's oldest, in its linger_list.       *)
Returners(a, n) == {c \in Returning : chan[c].blk \in AtWork(a, n)}
Late(a, n)      == linger[a] # <<>> /\ n = Begun(a)

(* A result is in what alloc_result has made of its packet, and there      *)
(* once.                                                                   *)
LEMMA SentHolds ==
  ASSUME NEW a \in Actors, NEW m, NEW d \in Data
  PROVE  At(Sent(a, m), d) = IF d.src = a /\ d.rnd = m /\ d.res \in ReturnedOf(a)
                             THEN {d.res + 1} ELSE {}
<1> PICK k : k = Cardinality(ReturnedOf(a))
  OBVIOUS
<1>1. k \in Nat /\ ReturnedOf(a) = 0..(k - 1)
  BY ReturnedOfActor
<1>2. d = [src |-> d.src, res |-> d.res, rnd |-> d.rnd, real |-> TRUE] /\ d.res \in Int
  <2>1. d.res \in {0} \cup {e.res : e \in Edges}
    BY DEF Data, Token, ResultIds
  <2> QED
    BY <2>1, DatumIs, EdgeTypes DEF Real
<1>3. DOMAIN Sent(a, m) = 1..k
  BY DEF Sent
<1>4. ASSUME NEW i \in 1..k
      PROVE  Sent(a, m)[i] = d <=> d.src = a /\ d.rnd = m /\ i = d.res + 1
  <2>1. Sent(a, m)[i] = [src |-> a, res |-> i - 1, rnd |-> m, real |-> TRUE]
    BY DEF Sent, Real
  <2> QED
    BY <1>1, <1>2, <2>1
<1>5. d.res \in ReturnedOf(a) <=> d.res + 1 \in 1..k
  <2> PICK r : r = d.res
    OBVIOUS
  <2>1. r \in Int /\ (r \in 0..(k - 1) <=> r + 1 \in 1..k)
    BY <1>1, <1>2
  <2> QED
    BY <1>1, <2>1
<1> QED
  BY <1>3, <1>4, <1>5 DEF At

(* A busy channel with results carries those of a finished block.          *)
LEMMA ReturnerIs ==
  ASSUME RefInv, AtRest, NEW c \in Returning, NEW b, b = chan[c].blk
  PROVE  /\ c \in Channels /\ b \in Blocks /\ bactor[b] \in Actors
         /\ b \in AtWork(bactor[b], rnd[b]) /\ hw[b] = "finished"
         /\ chan[c].toks = Sent(bactor[b], rnd[b])
<1>0. TypeOK /\ OrderInv /\ HandlerState /\ Ownership
  BY BaseTypes DEF RefInv, OrderInv
<1>1. c \in Channels /\ b # NULL /\ "RESULT" \in flags[b]
  BY DEF Returning, Busy
<1>2. chan[c] \in Parcel
  BY <1>0, <1>1 DEF TypeOK, FreeChan
<1>3. b \in Blocks /\ hw[b] = "finished"
  BY <1>0, <1>1, <1>2 DEF Parcel, Ownership
<1>4. "INFLIGHT" \in flags[b] /\ bactor[b] \in Actors
  BY <1>0, <1>1, <1>3 DEF HandlerState
<1>5. b \in AtWork(bactor[b], rnd[b])
  BY <1>3, <1>4 DEF AtWork, Working, AtRest
<1> QED
  BY <1>0, <1>1, <1>3, <1>4, <1>5 DEF OrderInv, ChainInv

(* A block at work holds the position of its packet in the fire list. *)
LEMMA NotLate ==
  ASSUME OrderInv, NEW a \in Actors, NEW n, NEW b \in AtWork(a, n) PROVE ~Late(a, n)
<1>1. FiringsInOrder(a) /\ TypeOK
  BY BaseTypes DEF OrderInv, FiringInv
<1>2. PICK i \in DOMAIN fire[a] : fire[a][i] = b /\ ~Lingers(a, i)
  BY <1>1 DEF FiringsInOrder, AtWork
<1>3. n = Len(done[a]) + i
  BY <1>1, <1>2 DEF FiringsInOrder, AtWork
<1>4. Len(done[a]) \in Nat /\ Len(fire[a]) \in Nat /\ i \in 1..Len(fire[a])
  BY <1>1 DEF TypeOK
<1> SUFFICES ASSUME Late(a, n) PROVE FALSE
  OBVIOUS
<1>5. i = Len(fire[a])
  BY <1>3, <1>4 DEF Late, Begun
<1> QED
  BY <1>2, <1>5 DEF Late, Lingers

(* Results that linger have been made and not been passed on.              *)
LEMMA LateIs ==
  ASSUME OrderInv, NEW a \in Actors, NEW n, Late(a, n)
  PROVE  Made(a, n) /\ Len(done[a]) < n /\ n <= Begun(a) /\ a \notin Skipped
<1>1. LingersInOrder(a) /\ TypeOK
  BY BaseTypes DEF OrderInv, FiringInv
<1>2. Len(done[a]) \in Nat /\ Len(fire[a]) \in Nat /\ Len(fire[a]) \in 1..2
  BY <1>1 DEF Late, LingersInOrder, TypeOK
<1> PICK f, k : f = Len(fire[a]) /\ k = Len(done[a])
  OBVIOUS
<1>3. fire[a] # <<>>
  <2> SUFFICES ASSUME fire[a] = <<>> PROVE FALSE
    OBVIOUS
  <2>1. Len(fire[a]) = 0
    OBVIOUS
  <2> QED
    BY <1>2, <2>1
<1>4. Len(done[a]) < n /\ n <= Begun(a)
  <2>1. k \in Nat /\ f \in 1..2 /\ n = k + f /\ Begun(a) = n
    BY <1>2 DEF Late, Begun
  <2>2. \A x \in Nat, y \in 1..2 : x < x + y /\ x + y <= x + y
    OBVIOUS
  <2> QED
    BY <2>1, <2>2
<1>5. Made(a, n)
  BY <1>4, NotLate DEF Made
<1> QED
  BY <1>3, <1>4, <1>5 DEF OrderInv, LabelInv, FiresFit

(* Results that have been made are under way in one channel or linger.     *)
LEMMA OneReturner ==
  ASSUME RefInv, AtRest, NEW a \in Actors, NEW n \in Rounds
  PROVE  /\ \A c, x \in Returners(a, n) : c = x
         /\ Returners(a, n) # {} =>
              /\ Made(a, n) /\ Len(done[a]) < n /\ n <= Begun(a)
              /\ a \notin Skipped /\ ~Late(a, n)
         /\ Made(a, n) /\ Len(done[a]) < n => Late(a, n) \/ Returners(a, n) # {}
<1>0. TypeOK /\ OrderInv /\ Ownership /\ OneTransferPerBlock /\ n \in Nat
  BY BaseTypes, SizeAssumption DEF RefInv, OrderInv, Rounds
<1>1. ASSUME NEW c \in Returners(a, n), NEW x \in Returners(a, n) PROVE c = x
  <2>1. c \in Channels /\ x \in Channels /\ chan[c].blk # NULL
    BY DEF Returners, Returning, Busy
  <2>2. chan[c].blk = chan[x].blk
    BY <1>0, OneAtWork DEF Returners
  <2> QED
    BY <1>0, <2>1, <2>2 DEF OneTransferPerBlock
<1>2. ASSUME NEW c \in Returners(a, n)
      PROVE  /\ Made(a, n) /\ Len(done[a]) < n /\ n <= Begun(a)
             /\ a \notin Skipped /\ ~Late(a, n)
  <2> PICK b : b = chan[c].blk
    OBVIOUS
  <2>1. b \in AtWork(a, n) /\ hw[b] = "finished"
    BY ReturnerIs DEF Returners
  <2>2. Len(done[a]) < n /\ n <= Begun(a) /\ \A x \in AtWork(a, n) : x = b
    BY <1>0, <2>1, OneAtWork
  <2>3. Made(a, n)
    BY <2>1, <2>2 DEF Made
  <2>4. fire[a] # <<>>
    BY <1>0, <2>2 DEF Begun, TypeOK
  <2> QED
    BY <1>0, <2>1, <2>2, <2>3, <2>4, NotLate DEF OrderInv, LabelInv, FiresFit
<1>3. ASSUME Made(a, n), Len(done[a]) < n, ~Late(a, n) PROVE Returners(a, n) # {}
  <2>1. FiringsInOrder(a) /\ n <= Begun(a) /\ Len(done[a]) \in Nat /\ Len(fire[a]) \in Nat
    BY <1>0, <1>3 DEF OrderInv, FiringInv, Made, TypeOK
  <2> PICK i : i = n - Len(done[a])
    OBVIOUS
  <2>2. i \in DOMAIN fire[a] /\ n = Len(done[a]) + i
    BY <1>0, <1>3, <2>1 DEF Begun, TypeOK
  <2>3. ~Lingers(a, i)
    BY <1>3, <2>1, <2>2 DEF Lingers, Late, Begun
  <2> PICK b : b = fire[a][i]
    OBVIOUS
  <2>4. Working(a, b) /\ rnd[b] = n /\ b \in Blocks
    BY <1>0, <2>1, <2>2, <2>3 DEF FiringsInOrder, TypeOK
  <2>5. b \in AtWork(a, n) /\ hw[b] = "finished" /\ "INFLIGHT" \in flags[b]
    BY <1>3, <2>4 DEF AtWork, Made, Working
  <2>6. Serving(b) /\ "RESULT" \in flags[b]
    BY <1>0, <2>4, <2>5 DEF RefInv, Attended, AtRest, Ownership
  <2>7. PICK c \in Channels : chan[c].blk = b
    BY <2>6 DEF Serving
  <2>8. c \in Returners(a, n)
    BY <2>4, <2>5, <2>6, <2>7, SizeAssumption DEF Returners, Returning, Busy
  <2> QED
    BY <2>8
<1> QED
  BY <1>1, <1>2, <1>3

(* So a datum is in one channel of results, or in one linger_list, or in   *)
(* neither.                                                                *)
LEMMA InResultsIs ==
  ASSUME RefInv, AtRest, NEW d \in Data, NEW a, a = d.src, NEW n, n = d.rnd
  PROVE  InResults(d) = IF a \in Actors /\ d.res \in ReturnedOf(a)
                        THEN Returners(a, n) \X {d.res + 1} ELSE {}
<1>1. ASSUME NEW c \in Returning
      PROVE  At(chan[c].toks, d) = IF c \in Returners(a, n) /\ a \in Actors /\ d.res \in ReturnedOf(a)
                                   THEN {d.res + 1} ELSE {}
  <2> PICK b, x, m : b = chan[c].blk /\ x = bactor[b] /\ m = rnd[b]
    OBVIOUS
  <2>1. x \in Actors /\ b \in AtWork(x, m) /\ chan[c].toks = Sent(x, m)
    BY ReturnerIs
  <2>2. c \in Returners(a, n) <=> x = a /\ m = n
    BY <2>1 DEF Returners, AtWork, Working
  <2> QED
    BY <2>1, <2>2, SentHolds
<1>2. Returners(a, n) \subseteq Returning
  BY DEF Returners
<1>3. CASE a \in Actors /\ d.res \in ReturnedOf(a)
  <2>1. ASSUME NEW p \in InResults(d) PROVE p \in Returners(a, n) \X {d.res + 1}
    <3> PICK c \in Returning : p \in {c} \X At(chan[c].toks, d)
      BY DEF InResults
    <3> QED
      BY <1>1, <1>3
  <2>2. ASSUME NEW p \in Returners(a, n) \X {d.res + 1} PROVE p \in InResults(d)
    <3> PICK c \in Returners(a, n) : p = <<c, d.res + 1>>
      OBVIOUS
    <3>1. c \in Returning /\ p \in {c} \X At(chan[c].toks, d)
      BY <1>1, <1>2, <1>3
    <3> QED
      BY <3>1 DEF InResults
  <2> QED
    BY <1>3, <2>1, <2>2
<1>4. CASE ~(a \in Actors /\ d.res \in ReturnedOf(a))
  BY <1>1, <1>4 DEF InResults
<1> QED
  BY <1>3, <1>4

LEMMA InLingersIs ==
  ASSUME RefInv, NEW d \in Data, NEW a, a = d.src, NEW n, n = d.rnd
  PROVE  InLingers(d) = IF a \in Actors /\ d.res \in ReturnedOf(a) /\ Late(a, n)
                        THEN {<<a, <<1, d.res + 1>>>>} ELSE {}
<1>1. ASSUME NEW x \in Actors
      PROVE  LateOf(x, d) = IF x = a /\ d.res \in ReturnedOf(a) /\ Late(a, n)
                            THEN {<<1, d.res + 1>>} ELSE {}
  <2>1. TypeOK /\ LingersInOrder(x)
    BY BaseTypes DEF RefInv, OrderInv, FiringInv
  <2>2. CASE linger[x] = <<>>
    BY <2>2 DEF LateOf, Late
  <2>3. CASE linger[x] # <<>>
    <3>1. Len(linger[x]) = 1 /\ linger[x][1].toks = Sent(x, Begun(x))
      BY <2>1, <2>3 DEF LingersInOrder
    <3>2. DOMAIN linger[x] = {1}
      <4>1. linger[x] \in Seq(Parcel)
        BY <2>1 DEF TypeOK
      <4> QED
        BY <3>1, <4>1
    <3>3. LateOf(x, d) = {1} \X At(Sent(x, Begun(x)), d)
      BY <3>1, <3>2 DEF LateOf
    <3>4. At(Sent(x, Begun(x)), d) = IF x = a /\ d.res \in ReturnedOf(a) /\ Late(a, n)
                                     THEN {d.res + 1} ELSE {}
      BY <2>3, SentHolds DEF Late
    <3> QED
      BY <3>3, <3>4
  <2> QED
    BY <2>2, <2>3
<1> QED
  BY <1>1 DEF InLingers

(* Results that have not been passed on are in one of the two places. *)
LEMMA ReturnCount ==
  ASSUME RefInv, AtRest, NEW d \in Data
  PROVE  Cardinality(Fanout(d.src, d.res)) * (Cardinality(InResults(d)) + Cardinality(InLingers(d)))
           = IF Produced(d) /\ ~Passed(d) THEN Cardinality(Fanout(d.src, d.res)) ELSE 0
<1> PICK a, n, k : a = d.src /\ n = d.rnd /\ k = Cardinality(Fanout(d.src, d.res))
  OBVIOUS
<1>0. k \in Nat /\ n \in Rounds /\ n \in Nat /\ a \in Actors \cup {Host} /\ Host \notin Actors
  BY FanoutIsCount, DatumIs, DagAssumption
<1>1. a \in Actors => Len(done[a]) \in Nat
  BY BaseTypes DEF RefInv, OrderInv, TypeOK
<1>2. Cardinality({}) = 0
  BY FS_EmptySet
<1>3. CASE a \notin Actors
  <2>1. InResults(d) = {} /\ InLingers(d) = {} /\ Passed(d)
    BY <1>0, <1>3, InResultsIs, InLingersIs DEF Passed
  <2> QED
    BY <1>0, <1>2, <2>1
<1>4. CASE a \in Actors /\ d.res \notin ReturnedOf(a)
  <2>1. InResults(d) = {} /\ InLingers(d) = {}
    BY <1>4, InResultsIs, InLingersIs
  <2>2. Produced(d) => Fanout(d.src, d.res) = {}
    BY <1>0, <1>4 DEF Produced, Returns, ReturnedOf, Results, Fanout
  <2> QED
    BY <1>0, <1>2, <2>1, <2>2
<1>5. CASE a \in Actors /\ d.res \in ReturnedOf(a)
  <2>1. /\ InResults(d) = Returners(a, n) \X {d.res + 1}
        /\ InLingers(d) = IF Late(a, n) THEN {<<a, <<1, d.res + 1>>>>} ELSE {}
    BY <1>5, InResultsIs, InLingersIs
  <2>2. Produced(d) /\ ~Passed(d) <=> a \notin Skipped /\ Made(a, n) /\ Len(done[a]) < n
    BY <1>0, <1>1, <1>5 DEF Produced, Returns, Passed, ReturnedOf
  <2>3. OrderInv
    BY DEF RefInv
  <2>4. \A x : Cardinality({x}) = 1
    BY FS_Singleton
  <2>5. CASE Late(a, n)
    <3>1. Returners(a, n) = {}
      BY <1>0, <1>5, <2>5, OneReturner
    <3>2. Produced(d) /\ ~Passed(d)
      BY <1>5, <2>2, <2>3, <2>5, LateIs
    <3>3. InResults(d) = {}
      BY <2>1, <3>1
    <3>4. Cardinality(InLingers(d)) = 1
      BY <2>1, <2>4, <2>5
    <3> QED
      BY <1>0, <1>2, <3>2, <3>3, <3>4
  <2>6. CASE Returners(a, n) # {}
    <3> PICK c : c \in Returners(a, n)
      BY <2>6
    <3>1. Returners(a, n) = {c}
      BY <1>0, <1>5, OneReturner
    <3>2. Produced(d) /\ ~Passed(d) /\ ~Late(a, n)
      BY <1>0, <1>5, <2>2, <2>6, OneReturner
    <3>3. InResults(d) = {<<c, d.res + 1>>}
      BY <2>1, <3>1
    <3>4. Cardinality(InResults(d)) = 1 /\ InLingers(d) = {}
      BY <2>1, <2>4, <3>2, <3>3
    <3> QED
      BY <1>0, <1>2, <3>2, <3>4
  <2>7. CASE ~Late(a, n) /\ Returners(a, n) = {}
    <3>1. ~(Produced(d) /\ ~Passed(d))
      BY <1>0, <1>5, <2>2, <2>7, OneReturner
    <3>2. InResults(d) = {} /\ InLingers(d) = {}
      BY <2>1, <2>7
    <3> QED
      BY <1>0, <1>2, <3>1, <3>2
  <2> QED
    BY <2>5, <2>6, <2>7
<1> QED
  BY <1>3, <1>4, <1>5

(* Before a datum has been passed on no consumer has taken a token of it;  *)
(* afterwards each fifo's token is at rest in one place, until the input   *)
(* has been loaded.                                                        *)
LEMMA NotPassedYet ==
  ASSUME RefInv, NEW d \in Data, ~Passed(d)
  PROVE  TaskEdges(d) = {} /\ LoadEdges(d) = {} /\ Unloaded(d) = Fanout(d.src, d.res)
<1> PICK a, n : a = d.src /\ n = d.rnd
  OBVIOUS
<1>0. /\ OrderInv /\ TypeOK /\ TokenInv /\ a \in Actors /\ n \in Nat /\ Host \notin Actors
  BY BaseTypes, DatumIs, DagAssumption DEF RefInv, OrderInv, BaseInv, Passed
<1>1. Len(done[a]) < n /\ Len(done[a]) \in Nat
  <2>1. Len(done[a]) \in Nat
    BY <1>0 DEF TypeOK
  <2> QED
    BY <1>0, <2>1 DEF Passed
<1>2. ASSUME NEW e \in Fanout(a, d.res), e.snk \in Actors
      PROVE  ~Loaded(e.snk, n) /\ ~(n <= Taken(e.snk)) /\ ~(n <= Begun(e.snk))
  <2>1. e \in Edges /\ e.src = a
    BY DEF Fanout, Out
  <2>2. Len(done[a]) = Len(fifo[e]) + Taken(e.snk)
    BY <1>0, <1>2, <2>1 DEF TokenInv, Conserved, Given
  <2>3. Len(fifo[e]) \in Nat /\ Begun(e.snk) \in Nat /\ Taken(e.snk) \in Nat /\ Begun(e.snk) <= Taken(e.snk)
    <3>1. Len(fifo[e]) \in Nat
      BY <1>0, <2>1 DEF TypeOK
    <3> QED
      BY <1>0, <1>2, <3>1, BegunType
  <2> PICK w, x, y, z : w = Len(done[a]) /\ x = Len(fifo[e]) /\ y = Taken(e.snk) /\ z = Begun(e.snk)
    OBVIOUS
  <2>4. ~(n <= y) /\ ~(n <= z)
    BY <1>0, <1>1, <2>2, <2>3
  <2> QED
    BY <2>4 DEF Loaded
<1> QED
  BY <1>2 DEF TaskEdges, LoadEdges, Unloaded

(* The three kinds of edges are those that have not been loaded.           *)
LEMMA PassedEdges ==
  ASSUME RefInv, NEW d \in Data
  PROVE  /\ Cardinality(FifoEdges(d)) \in Nat /\ Cardinality(TaskEdges(d)) \in Nat
         /\ Cardinality(LoadEdges(d)) \in Nat
         /\ Cardinality(Unloaded(d)) = Cardinality(FifoEdges(d)) + Cardinality(TaskEdges(d))
                                         + Cardinality(LoadEdges(d))
<1> PICK n : n = d.rnd
  OBVIOUS
<1>0. TypeOK /\ n \in Nat /\ n > 0
  BY BaseTypes, DatumIs, SizeAssumption DEF RefInv, OrderInv, Rounds
<1>1. ASSUME NEW e \in Fanout(d.src, d.res), e.snk \in Actors
      PROVE  /\ Begun(e.snk) \in Nat /\ Taken(e.snk) \in Nat /\ Begun(e.snk) <= Taken(e.snk)
             /\ TakenFrom(e) = Taken(e.snk)
  BY <1>0, <1>1, BegunType DEF TakenFrom
<1>2. ASSUME NEW e \in Fanout(d.src, d.res), e.snk \notin Actors PROVE TakenFrom(e) = 0
  BY <1>2 DEF TakenFrom
<1> DEFINE F == FifoEdges(d)
           T == TaskEdges(d)
           L == LoadEdges(d)
<1>3. IsFiniteSet(F) /\ IsFiniteSet(T) /\ IsFiniteSet(L)
  <2>1. F \in SUBSET Edges /\ T \in SUBSET Edges /\ L \in SUBSET Edges
    BY DEF FifoEdges, TaskEdges, LoadEdges, Fanout, Out
  <2> QED
    BY <2>1, DagAssumption, FS_Subset
<1>4. F \cap T = {} /\ (F \cup T) \cap L = {}
  <2>1. ASSUME NEW e \in Fanout(d.src, d.res)
        PROVE  /\ ~(e \in F /\ e \in T) /\ ~(e \in F /\ e \in L) /\ ~(e \in T /\ e \in L)
    <3>1. CASE e.snk \in Actors
      <4> PICK x, y : x = Begun(e.snk) /\ y = Taken(e.snk)
        OBVIOUS
      <4>1. x \in Nat /\ y \in Nat /\ x <= y /\ TakenFrom(e) = y
        BY <1>1, <3>1
      <4>2. (e \in F => y < n) /\ (e \in T => x < n /\ n <= y) /\ (e \in L => n <= x)
        BY <4>1 DEF FifoEdges, TaskEdges, LoadEdges
      <4> HIDE DEF F, T, L
      <4> QED
        BY <1>0, <4>1, <4>2
    <3>2. CASE e.snk \notin Actors
      BY <3>2 DEF TaskEdges, LoadEdges
    <3> QED
      BY <3>1, <3>2
  <2> QED
    BY <2>1 DEF FifoEdges, TaskEdges, LoadEdges
<1>5. Unloaded(d) = (F \cup T) \cup L
  <2>1. ASSUME NEW e \in Fanout(d.src, d.res)
        PROVE  e \in Unloaded(d) <=> e \in F \/ e \in T \/ e \in L
    <3>1. CASE e.snk \in Actors
      <4> PICK x, y : x = Begun(e.snk) /\ y = Taken(e.snk)
        OBVIOUS
      <4>1. x \in Nat /\ y \in Nat /\ x <= y /\ TakenFrom(e) = y
        BY <1>1, <3>1
      <4>2. /\ e \in F <=> y < n
            /\ e \in T <=> x < n /\ n <= y
            /\ e \in L <=> n <= x /\ ~Loaded(e.snk, n)
            /\ e \in Unloaded(d) <=> ~Loaded(e.snk, n)
        BY <3>1, <4>1 DEF FifoEdges, TaskEdges, LoadEdges, Unloaded
      <4>3. Loaded(e.snk, n) => n <= x
        BY DEF Loaded
      <4> HIDE DEF F, T, L
      <4> QED
        BY <1>0, <4>1, <4>2, <4>3
    <3>2. CASE e.snk \notin Actors
      BY <1>0, <1>2, <3>2 DEF FifoEdges, TaskEdges, LoadEdges, Unloaded
    <3> QED
      BY <3>1, <3>2
  <2> QED
    BY <2>1 DEF FifoEdges, TaskEdges, LoadEdges, Unloaded
<1> HIDE DEF F, T, L
<1>6. Cardinality(F) \in Nat /\ Cardinality(T) \in Nat /\ Cardinality(L) \in Nat
  BY <1>3, FS_CardinalityType
<1>7. Cardinality(F \cap T) = 0 /\ Cardinality((F \cup T) \cap L) = 0
  BY <1>4, FS_EmptySet
<1>8. IsFiniteSet(F \cup T) /\ Cardinality(F \cup T) = Cardinality(F) + Cardinality(T)
  <2>1. IsFiniteSet(F \cup T)
    BY <1>3, FS_Union
  <2>2. Cardinality(F \cup T) = Cardinality(F) + Cardinality(T) - Cardinality(F \cap T)
    BY <1>3, FS_Union
  <2> QED
    BY <1>6, <1>7, <2>1, <2>2
<1>9. Cardinality((F \cup T) \cup L) = Cardinality(F \cup T) + Cardinality(L)
  <2> PICK U : U = F \cup T
    OBVIOUS
  <2>1. Cardinality(U \cup L) = Cardinality(U) + Cardinality(L) - Cardinality(U \cap L)
    BY <1>3, <1>8, FS_Union
  <2> QED
    BY <1>6, <1>7, <1>8, <2>1
<1> QED
  BY <1>5, <1>6, <1>8, <1>9 DEF F, T, L

(* What was passed on had been made.                                       *)
LEMMA PassedWasProduced ==
  ASSUME OrderInv, NEW d \in Data, Returns(d), Passed(d) PROVE Produced(d)
<1> PICK a, n : a = d.src /\ n = d.rnd
  OBVIOUS
<1>1. SUFFICES ASSUME a # Host PROVE Made(a, n)
  BY DEF Produced
<1>2. a \in Actors /\ n \in Nat /\ TypeOK /\ n <= Len(done[a])
  BY <1>1, DatumIs, BaseTypes DEF OrderInv, Passed
<1>3. Len(done[a]) \in Nat /\ Len(fire[a]) \in Nat
  BY <1>2 DEF TypeOK
<1>4. n <= Begun(a)
  <2> PICK f, k : f = Len(fire[a]) /\ k = Len(done[a])
    OBVIOUS
  <2>1. Begun(a) = k + f /\ k \in Nat /\ f \in Nat /\ n \in Nat /\ n <= k
    BY <1>2, <1>3 DEF Begun
  <2>2. \A x, y, z \in Nat : x <= y => x <= y + z
    OBVIOUS
  <2> QED
    BY <2>1, <2>2
<1>5. \A b \in AtWork(a, n) : FALSE
  BY <1>2, <1>3, OneAtWork
<1> QED
  BY <1>4, <1>5 DEF Made

(* At rest every reference is counted where it is.                         *)
LEMMA ReferencesAre ==
  ASSUME RefInv, AtRest, NEW d \in Data PROVE cnt[d] = References(d)
<1> DEFINE f == Cardinality(InFifos(d))
           t == Cardinality(InTasks(d))
           l == Cardinality(InLoads(d))
           r == Cardinality(Fanout(d.src, d.res)) * (Cardinality(InResults(d)) + Cardinality(InLingers(d)))
           k == Cardinality(Fanout(d.src, d.res))
<1>1. References(d) = f + t + l + r
  BY DEF References
<1>2. cnt[d] = IF Produced(d) THEN Cardinality(Unloaded(d)) ELSE 0
  BY DEF RefInv, CountsExact
<1>3. r = IF Produced(d) /\ ~Passed(d) THEN k ELSE 0
  BY ReturnCount
<1>4. Cardinality({}) = 0 /\ k \in Nat
  BY FS_EmptySet, FanoutIsCount
<1>5. CASE Returns(d) /\ Passed(d)
  <2>1. Produced(d)
    BY <1>5, PassedWasProduced DEF RefInv
  <2>2. /\ f = Cardinality(FifoEdges(d)) /\ t = Cardinality(TaskEdges(d))
        /\ l = Cardinality(LoadEdges(d))
    BY <1>5, FifoCount, TaskCount, LoadCount
  <2> HIDE DEF f, t, l, r
  <2> QED
    BY <1>1, <1>2, <1>3, <1>5, <2>1, <2>2, PassedEdges
<1>6. CASE Returns(d) /\ ~Passed(d)
  <2>1. f = 0 /\ t = 0 /\ l = 0
    BY <1>4, <1>6, FifoCount, TaskCount, LoadCount, NotPassedYet
  <2>2. Cardinality(Unloaded(d)) = k
    BY <1>6, NotPassedYet
  <2> HIDE DEF f, t, l, r, k
  <2> QED
    BY <1>1, <1>2, <1>3, <1>4, <1>6, <2>1, <2>2
<1>7. CASE ~Returns(d)
  <2>1. f = 0 /\ t = 0 /\ l = 0
    BY <1>4, <1>7, FifoCount, TaskCount, LoadCount
  <2>2. ~Produced(d)
    BY <1>7 DEF Produced
  <2> HIDE DEF f, t, l, r, k
  <2> QED
    BY <1>1, <1>2, <1>3, <2>1, <2>2
<1> QED
  BY <1>5, <1>6, <1>7

(* data->cnt is the number of consumers a datum still has: recycle_garbage *)
(* frees each datum with its last token, neither earlier nor never.        *)
THEOREM ReferencesExact ==
  ASSUME UndisturbedFiring, FewPackets, OneRoot, PureSkips PROVE Spec => []RefCountExact
<1>1. Init => RefInv
  BY InitRefInv
<1>2. RefInv /\ [Next]_vars => RefInv'
  BY StepRefInv
<1>3. RefInv => RefCountExact
  BY ReferencesAre DEF RefCountExact
<1> QED
  BY <1>1, <1>2, <1>3, PTL DEF Spec
=============================================================================
