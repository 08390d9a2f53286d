------------------------------- MODULE Graph -------------------------------
(***************************************************************************)
(* Building a dataflow graph (src/actor_create.c) and handing it to the    *)
(* scheduler (src/actor_init.c).  A graph is built by one of the functions *)
(* of src/dag.c, or by any other sequence of calls of the interface that   *)
(* keeps to the rules those functions follow.                              *)
(*                                                                         *)
(* An actor_t is kept as the words it consists of, because the scheduler's *)
(* loops over in[] and out[][] end at a NULL word, not at the array's end. *)
(***************************************************************************)
EXTENDS Integers, Sequences, FiniteSets

CONSTANTS
  MAXIN, MAXRES, MAXOUT,    \* include/task.h
  NUM_PACKET, MAX_BUFFER,
  Programs,                 \* the functions of dag.c that may be called
  FreeActors, FreeEdges,    \* bounds of a graph built otherwise: its actors,
  FreeRes, FreeInp,         \* the number of its edges, results and inputs
  Host, NULL, CODE          \* CODE: a word that is not NULL and no fifo

ASSUME GraphAssumption ==
  /\ {MAXIN, MAXRES, MAXOUT, NUM_PACKET, MAX_BUFFER} \subseteq Nat \ {0}
  /\ {FreeEdges, FreeRes, FreeInp} \subseteq Nat
  /\ NULL # CODE /\ NULL \notin Nat /\ CODE \notin Nat

(* Calls of the interface. *)
Create(a)           == [op |-> "create", src |-> a, res |-> 0, snk |-> a, inp |-> 0]
Edge(s, r, k, i)    == [op |-> "edge", src |-> s, res |-> r, snk |-> k, inp |-> i]
Root(a)             == [op |-> "root", src |-> Host, res |-> 0, snk |-> a, inp |-> 0]
Sink(a)             == [op |-> "sink", src |-> a, res |-> 0, snk |-> Host, inp |-> 0]

(* src/dag.c. *)
basic_DAG_demo_1 ==
  <<Create("A"), Create("B"), Create("C"), Create("D"),
    Edge("A", 0, "B", 0), Edge("A", 0, "C", 0), Edge("A", 0, "D", 1), Edge("A", 1, "C", 1),
    Edge("B", 0, "D", 0), Edge("C", 0, "D", 2), Edge("C", 1, "D", 3),
    Root("A"), Sink("D")>>

basic_DAG_demo_2 ==
  <<Create("A"), Create("B"), Create("C"), Create("D"), Create("E"),
    Edge("A", 0, "B", 0), Edge("A", 3, "B", 1), Edge("A", 0, "C", 0), Edge("A", 1, "C", 1),
    Edge("A", 2, "C", 2), Edge("A", 3, "D", 0),
    Edge("B", 0, "E", 0), Edge("C", 0, "E", 1), Edge("D", 0, "E", 2),
    Root("A"), Sink("E")>>

Rs == <<"R1", "R2", "R3", "R4", "R5", "R6", "R7", "R8", "R9">>

dynamic_DAG_demo ==
  <<Create("A")>> \o [k \in 1..9 |-> Create(Rs[k])] \o <<Create("I")>>
  \o [k \in 1..9 |-> Edge("A", k - 1, Rs[k], 0)]
  \o [k \in 1..9 |-> Edge(Rs[k], 0, "I", k - 1)]
  \o <<Root("A"), Sink("I")>>

VARIABLES
  actor_l,   \* the actors, oldest first
  word,      \* of each actor: in, out, task_addr, task_len, fire_list
  size,      \* tokens in each fifo; a fifo is named by a number
  edges,     \* ghost: the calls made for fifos, with the fifo made
  plan,      \* calls to come, if the graph is built by a function of dag.c
  free,      \* is it built otherwise?
  packets,   \* packets put in so far
  pc

vars == <<actor_l, word, size, edges, plan, free, packets, pc>>

-----------------------------------------------------------------------------
(* actor_t (include/actor.h): the index of in[i] is i. *)
OutIndex(r, j) == MAXIN + r * MAXOUT + j
TaskAddr  == MAXIN + MAXRES * MAXOUT
FireList  == TaskAddr + 2
Words     == 0..FireList

Known    == {actor_l[i] : i \in DOMAIN actor_l}
NewFifo  == Len(size) + 1
malloc_fifo == size' = Append(size, 0)

(* A definition X_w is X with the mistake w: the runs must tell them apart.*)
actor_create_uncleared(a) ==
  /\ a \notin Known
  /\ actor_l' = Append(actor_l, a)
  /\ word' = [b \in Known \cup {a} |->
       IF b # a THEN word[b]
       ELSE [k \in Words |-> IF k \in {MAXIN - 1, TaskAddr, TaskAddr + 1} THEN CODE ELSE NULL]]
  /\ UNCHANGED <<size, edges>>

actor_create(a) ==
  /\ a \notin Known
  /\ actor_l' = Append(actor_l, a)
  /\ word' = [b \in Known \cup {a} |->
       IF b # a THEN word[b]
       ELSE [k \in Words |-> IF k \in {TaskAddr, TaskAddr + 1} THEN CODE ELSE NULL]]
  /\ UNCHANGED <<size, edges>>

(* node_make_out: the first unused slot of the result, if there is one.    *)
FreeSlots(s, r) == {j \in 0..(MAXOUT - 1) : word[s][OutIndex(r, j)] = NULL}

WithOut_firstSlot(s, r) == [word EXCEPT ![s][OutIndex(r, 0)] = NewFifo]
WithOut(s, r) ==
  IF FreeSlots(s, r) = {} THEN word
  ELSE [word EXCEPT ![s][OutIndex(r, CHOOSE j \in FreeSlots(s, r) :
                                       \A k \in FreeSlots(s, r) : j <= k)] = NewFifo]

(* edge_make; the failing assertion of node_make_in stops the program.     *)
edge_make(s, r, k, i) ==
  /\ {s, k} \subseteq Known
  /\ r < MAXRES
  /\ word[k][i] = NULL
  /\ word' = [WithOut(s, r) EXCEPT ![k][i] = NewFifo]
  /\ malloc_fifo
  /\ edges' = edges \cup {[call |-> Edge(s, r, k, i), fifo |-> NewFifo]}
  /\ UNCHANGED actor_l

assign_root(a) == /\ a \in Known
                  /\ word' = [word EXCEPT ![a][0] = NewFifo]
                  /\ malloc_fifo
                  /\ edges' = edges \cup {[call |-> Root(a), fifo |-> NewFifo]}
                  /\ UNCHANGED actor_l

assign_sink(a) == /\ a \in Known
                  /\ word' = [word EXCEPT ![a][OutIndex(0, 0)] = NewFifo]
                  /\ malloc_fifo
                  /\ edges' = edges \cup {[call |-> Sink(a), fifo |-> NewFifo]}
                  /\ UNCHANGED actor_l

Call(c) == \/ c.op = "create" /\ actor_create(c.src)
           \/ c.op = "edge" /\ edge_make(c.src, c.res, c.snk, c.inp)
           \/ c.op = "root" /\ assign_root(c.snk)
           \/ c.op = "sink" /\ assign_sink(c.src)

Planned == /\ pc = "depict" /\ plan # <<>>
           /\ Call(Head(plan))
           /\ plan' = Tail(plan)
           /\ UNCHANGED <<free, packets, pc>>

FreeCalls == {Create(a) : a \in FreeActors}
             \cup {Edge(s, r, k, i) : s \in FreeActors, r \in 0..(FreeRes - 1),
                                      k \in FreeActors, i \in 0..(FreeInp - 1)}
             \cup {Root(a) : a \in FreeActors} \cup {Sink(a) : a \in FreeActors}

Free == /\ pc = "depict" /\ free
        /\ \E c \in FreeCalls :
             /\ c.op # "create" => Cardinality(edges) < FreeEdges
             /\ Call(c)
        /\ UNCHANGED <<plan, free, packets, pc>>

-----------------------------------------------------------------------------
(* The rules dag.c keeps to: the actor created first is the root, one      *)
(* actor is the sink, the root has no predecessor and the sink no          *)
(* successor, and inputs and results are numbered without gaps.            *)
Calls      == {e.call : e \in edges}
Into(a)    == {e \in edges : e.call.snk = a}
OutOf(a)   == {e \in edges : e.call.src = a}
Numbers(n) == n = 0..(Cardinality(n) - 1)

KeepsRules ==
  /\ actor_l # <<>>
  /\ {c \in Calls : c.op = "root"} = {Root(actor_l[1])}
  /\ Cardinality({c \in Calls : c.op = "sink"}) = 1
  /\ \A a \in Known :
       /\ Into(a) # {} /\ OutOf(a) # {}
       /\ Numbers({e.call.inp : e \in Into(a)})
       /\ Cardinality({e.call.inp : e \in Into(a)}) = Cardinality(Into(a))
       /\ Numbers({e.call.res : e \in OutOf(a)})
       /\ Sink(a) \in Calls => Cardinality(OutOf(a)) = 1

Depicted == /\ pc = "depict" /\ plan = <<>>
            /\ free => KeepsRules
            /\ pc' = "packets"
            /\ UNCHANGED <<actor_l, word, size, edges, plan, free, packets>>

(* DAG_depict, packet_input: into the first input of the oldest actor,     *)
(* the last node of the list; a full fifo drops the packet.                *)
PacketActor == actor_l[1]
AfterPut(n) == IF n = MAX_BUFFER THEN n ELSE n + 1

packet_input == /\ pc = "packets" /\ packets < NUM_PACKET
                /\ size' = [size EXCEPT ![word[PacketActor][0]] = AfterPut(@)]
                /\ packets' = packets + 1
                /\ UNCHANGED <<actor_l, word, edges, plan, free, pc>>

schedule_init == /\ pc = "packets" /\ packets = NUM_PACKET
                 /\ pc' = "launched"
                 /\ UNCHANGED <<actor_l, word, size, edges, plan, free, packets>>

-----------------------------------------------------------------------------
(* list_init. *)
Init == /\ actor_l = <<>> /\ size = <<>> /\ edges = {}
        /\ word = [a \in {} |-> <<>>]
        /\ \/ plan \in Programs /\ free = FALSE
           \/ plan = <<>> /\ free = TRUE
        /\ packets = 0 /\ pc = "depict"

Next == Planned \/ Free \/ Depicted \/ packet_input \/ schedule_init

Spec == Init /\ [][Next]_vars
-----------------------------------------------------------------------------
(* What the scheduler's loops see: for (i = 0; in[i] != NULL; i++), and    *)
(* for (i = 0; out[i][0] != NULL; i++) for (j = 0; out[i][j] != NULL; j++) *)
(* (actor_ready, successor_full, ready_create in src/fire_check.c).        *)
FirstNull(a, k) == CHOOSE n \in Words : /\ n >= k /\ word[a][n] = NULL
                                        /\ \A m \in k..(n - 1) : word[a][m] # NULL
InSeen(a) == {<<i, word[a][i]>> : i \in 0..(FirstNull(a, 0) - 1)}

RowSeen(a, r) == \A q \in 0..r : word[a][OutIndex(q, 0)] # NULL
OutSeen(a) == UNION {{<<r, word[a][k]>> :
                        k \in OutIndex(r, 0)..(FirstNull(a, OutIndex(r, 0)) - 1)} :
                     r \in {r \in 0..MAXRES : RowSeen(a, r)}}

(* Types of the state. *)
TypeOK == /\ Known \subseteq FreeActors \cup UNION {{c.src : c \in {p[i] : i \in DOMAIN p}} :
                                                    p \in Programs} \cup {Host}
          /\ word \in [Known -> [Words -> 1..Len(size) \cup {NULL, CODE}]]
          /\ size \in Seq(0..MAX_BUFFER)
          /\ packets \in 0..NUM_PACKET
          /\ pc \in {"depict", "packets", "launched"}

(* The loops of the scheduler see the graph that was declared: every input *)
(* and every consumer of every result, and nothing else (include/actor.h). *)
LoopsSeeGraph ==
  pc = "launched" =>
    \A a \in Known :
      /\ InSeen(a)  = {<<e.call.inp, e.fifo>> : e \in Into(a)}
      /\ OutSeen(a) = {<<e.call.res, e.fifo>> : e \in OutOf(a)}

(* All the packets the fifo of the root holds wait there (DAG_depict). *)
PacketsAtRoot ==
  \A e \in edges :
    size[e.fifo] = IF e.call.op # "root" THEN 0
                   ELSE IF NUM_PACKET < MAX_BUFFER THEN NUM_PACKET ELSE MAX_BUFFER

(* The launched graph is one the scheduler can run: what module Scheduler  *)
(* assumes holds of what its loops see; every fifo has one producer and    *)
(* one consumer; and the packets wait at the root, as many as its fifo     *)
(* holds, and nothing elsewhere (edge_make, DAG_depict).                   *)
SchedulerAssumption ==
  pc = "launched" =>
    /\ TypeOK /\ PacketsAtRoot
    /\ \A a \in Known : /\ \E f \in 1..Len(size) : <<0, f>> \in InSeen(a)
                        /\ OutSeen(a) # {}
    /\ \A f \in 1..Len(size) :
         /\ Cardinality({p \in Known \X (0..(MAXIN - 1)) : <<p[2], f>> \in InSeen(p[1])})
              + Cardinality({a \in Known : [call |-> Sink(a), fifo |-> f] \in edges}) = 1
         /\ Cardinality({p \in Known \X (0..(MAXRES - 1)) : <<p[2], f>> \in OutSeen(p[1])})
              + Cardinality({a \in Known : [call |-> Root(a), fifo |-> f] \in edges}) = 1
=============================================================================
