---------------------------- MODULE GraphProofs -----------------------------
(***************************************************************************)
(* Theorems about Graph: whatever calls of the interface build a graph,    *)
(* the scheduler's loops see the graph that was declared if it keeps to    *)
(* the rules of dag.c and leaves a NULL word at the end of every array.    *)
(***************************************************************************)
EXTENDS Graph, FiniteSetTheorems, TLAPS

(* The calls of the interface for the actors of A; the indices are bytes.  *)
CallsOf(A) == {Create(a) : a \in A}
              \cup {Edge(s, r, k, i) : s \in A, r \in Nat, k \in A, i \in Nat}
              \cup {Root(a) : a \in A} \cup {Sink(a) : a \in A}

(* The host is no actor, and a function of dag.c makes such calls. *)
ProperCalls == \E A : /\ Host \notin A /\ FreeActors \subseteq A
                      /\ Programs \subseteq Seq(CallsOf(A))

(* The declared graph leaves the last place of every array unused: in[],   *)
(* out[], and each out[r] of an actor.                                     *)
Row(a, r) == {e \in OutOf(a) : e.call.res = r}
Fits == \A a \in Known :
          /\ \A e \in Into(a) : e.call.inp < MAXIN - 1
          /\ \A e \in OutOf(a) : /\ e.call.res < MAXRES - 1
                                 /\ Cardinality(Row(a, e.call.res)) < MAXOUT

(* A fifo is made by one call, for actors that exist. *)
Fifos == 1..Len(size)
EdgesAre(A) ==
  /\ actor_l \in Seq(A) /\ Known \subseteq A /\ size \in Seq(0..MAX_BUFFER)
  /\ IsFiniteSet(edges)
  /\ \A e \in edges : /\ e = [call |-> e.call, fifo |-> e.fifo]
                      /\ e.call \in CallsOf(Known) /\ e.call.op # "create"
                      /\ e.fifo \in Fifos
  /\ \A e, f \in edges : e.fifo = f.fifo => e = f
  /\ \A f \in Fifos : \E e \in edges : e.fifo = f

WordsType == word \in [Known -> [Words -> Fifos \cup {NULL, CODE}]]

(* An input that was declared is in its place; if twice, the last one is.  *)
Small == \A e \in edges : e.call.inp < MAXIN
InPlace(a, i) == IF \E e \in Into(a) : e.call.inp = i
                 THEN \E e \in Into(a) : e.call.inp = i /\ word[a][i] = e.fifo
                 ELSE word[a][i] = NULL

(* The consumers of a result fill its row from the left until it is full,  *)
(* unless assign_sink writes over one.                                     *)
Slot(a, r, j) == word[a][OutIndex(r, j)]
Plain(a)   == \A e, f \in OutOf(a) : e.call.op = "sink" => e = f
Used(a, r) == IF Cardinality(Row(a, r)) <= MAXOUT THEN Cardinality(Row(a, r)) ELSE MAXOUT
InRow(a, r) ==
  /\ \A j \in 0..(MAXOUT - 1) : Slot(a, r, j) = NULL <=> Used(a, r) <= j
  /\ \A j \in 0..(Used(a, r) - 1) : \E e \in Row(a, r) : Slot(a, r, j) = e.fifo
  /\ Cardinality(Row(a, r)) <= MAXOUT =>
       \A e \in Row(a, r) : \E j \in 0..(Used(a, r) - 1) : Slot(a, r, j) = e.fifo

InsAre  == Small => \A a \in Known : \A i \in 0..(MAXIN - 1) : InPlace(a, i)
OutsAre == Small => \A a \in Known : Plain(a) =>
                      \A r \in 0..(MAXRES - 1) : InRow(a, r)

(* What is still to be called, and that the packets come after it. *)
PlanIs == /\ free \in BOOLEAN
          /\ plan = <<>> \/ \E p \in Programs : plan \in Seq({p[i] : i \in DOMAIN p})
          /\ Known \subseteq FreeActors \cup UNION {{c.src : c \in {p[i] : i \in DOMAIN p}} :
                                                    p \in Programs}
          /\ pc \in {"depict", "packets", "launched"}
          /\ packets \in 0..NUM_PACKET
          /\ pc = "depict" => packets = 0
          /\ pc = "launched" => packets = NUM_PACKET

(* The packets are in the fifo of the root. *)
Held == IF packets < MAX_BUFFER THEN packets ELSE MAX_BUFFER
PacketsAre == /\ pc = "depict" => \A f \in Fifos : size[f] = 0
              /\ KeepsRules /\ Small =>
                   \A e \in edges : size[e.fifo] = IF e.call.op = "root" THEN Held ELSE 0

Built(A) == EdgesAre(A) /\ WordsType /\ InsAre /\ OutsAre
GraphInv(A) == Built(A) /\ PlanIs /\ PacketsAre

-----------------------------------------------------------------------------
(* The places of an actor_t. *)
LEMMA Products == \A u, v \in Nat : u * v \in Nat
  OBVIOUS

LEMMA SizesAre ==
  /\ MAXIN \in Nat \ {0} /\ MAXRES \in Nat \ {0} /\ MAXOUT \in Nat \ {0}
  /\ NUM_PACKET \in Nat \ {0} /\ MAX_BUFFER \in Nat \ {0}
  /\ NULL # CODE /\ NULL \notin Nat /\ CODE \notin Nat
BY GraphAssumption

LEMMA RowsApart ==
  ASSUME NEW r \in Nat, NEW q \in Nat, r < q
  PROVE  r * MAXOUT + MAXOUT <= q * MAXOUT
<1> PICK d \in Nat : q = r + 1 + d
  <2>1. q - r - 1 \in Nat /\ q = r + 1 + (q - r - 1)
    OBVIOUS
  <2> QED
    BY <2>1
<1>1. q * MAXOUT = r * MAXOUT + MAXOUT + d * MAXOUT
  BY SizesAre
<1>2. d * MAXOUT \in Nat /\ r * MAXOUT \in Nat
  BY Products, SizesAre
<1> QED
  BY <1>1, <1>2, SizesAre

LEMMA Places ==
  /\ TaskAddr \in Nat /\ MAXIN <= TaskAddr /\ Words = 0..(TaskAddr + 2)
  /\ \A r \in 0..(MAXRES - 1), j \in 0..(MAXOUT - 1) :
       /\ OutIndex(r, j) \in Words /\ OutIndex(r, j) < TaskAddr
       /\ OutIndex(r, j) >= MAXIN
       /\ OutIndex(r, j) = OutIndex(r, 0) + j
  /\ \A r, q \in 0..(MAXRES - 1), j, k \in 0..(MAXOUT - 1) :
       OutIndex(r, j) = OutIndex(q, k) => r = q /\ j = k
<1>1. TaskAddr \in Nat /\ MAXIN <= TaskAddr
  BY Products, SizesAre DEF TaskAddr
<1>2. Words = 0..(TaskAddr + 2)
  BY DEF Words, FireList
<1>3. ASSUME NEW r \in 0..(MAXRES - 1), NEW j \in 0..(MAXOUT - 1)
      PROVE  /\ OutIndex(r, j) \in Words /\ OutIndex(r, j) < TaskAddr
             /\ OutIndex(r, j) >= MAXIN
             /\ OutIndex(r, j) = OutIndex(r, 0) + j
  <2>1. r * MAXOUT \in Nat /\ MAXRES * MAXOUT \in Nat
    BY Products, SizesAre
  <2>2. r * MAXOUT + MAXOUT <= MAXRES * MAXOUT
    BY RowsApart, SizesAre
  <2> QED
    BY <1>1, <1>2, <2>1, <2>2, SizesAre DEF OutIndex, TaskAddr
<1>4. ASSUME NEW r \in 0..(MAXRES - 1), NEW q \in 0..(MAXRES - 1),
             NEW j \in 0..(MAXOUT - 1), NEW k \in 0..(MAXOUT - 1),
             OutIndex(r, j) = OutIndex(q, k)
      PROVE  r = q /\ j = k
  <2>1. r * MAXOUT \in Nat /\ q * MAXOUT \in Nat
    BY Products, SizesAre
  <2>2. r * MAXOUT + j = q * MAXOUT + k
    BY <1>4, <2>1, SizesAre DEF OutIndex
  <2>3. ~(r < q)
    BY <2>1, <2>2, RowsApart, SizesAre
  <2>4. ~(q < r)
    BY <2>1, <2>2, RowsApart, SizesAre
  <2> QED
    BY <2>2, <2>3, <2>4, SizesAre
<1> QED
  BY <1>1, <1>2, <1>3, <1>4

(* A nonempty set of numbers has a smallest one. *)
LEMMA SmallestNumber ==
  ASSUME NEW T \in SUBSET Nat, T # {}
  PROVE  \E x \in T : \A y \in T : ~(y < x)
<1> DEFINE R == OpToRel(<, Nat)
<1>1. IsWellFoundedOn(R, Nat)
  BY NatLessThanWellFounded
<1>2. PICK x \in T : \A y \in T : ~(<<y, x>> \in R)
  <2> HIDE DEF R
  <2> QED
    BY <1>1, WFMin
<1>3. \A y \in T : <<y, x>> \in Nat \X Nat => ~(y < x)
  BY <1>2 DEF OpToRel
<1> HIDE DEF R
<1> QED
  BY <1>3

(* What a call says. *)
LEMMA CallIs ==
  ASSUME NEW S, NEW c \in CallsOf(S)
  PROVE  \/ c.src \in S /\ c = Create(c.src) /\ c.op = "create"
         \/ /\ c.src \in S /\ c.snk \in S /\ c.res \in Nat /\ c.inp \in Nat
            /\ c = Edge(c.src, c.res, c.snk, c.inp) /\ c.op = "edge"
         \/ /\ c.snk \in S /\ c.src = Host /\ c.res = 0 /\ c.inp = 0
            /\ c = Root(c.snk) /\ c.op = "root"
         \/ /\ c.src \in S /\ c.snk = Host /\ c.res = 0 /\ c.inp = 0
            /\ c = Sink(c.src) /\ c.op = "sink"
BY DEF CallsOf, Create, Edge, Root, Sink

LEMMA CallsGrow ==
  ASSUME NEW S, NEW T, S \subseteq T
  PROVE  CallsOf(S) \subseteq CallsOf(T)
BY DEF CallsOf
-----------------------------------------------------------------------------
(* A call for a fifo: there is one more edge, and its fifo has become the  *)
(* input's and the first unused slot's of the result.                      *)
Made(c) ==
  /\ size' = Append(size, 0) /\ actor_l' = actor_l
  /\ edges' = edges \cup {[call |-> c, fifo |-> NewFifo]}

Placed(c) ==
  /\ word' \in [Known -> [Words -> Fifos \cup {NewFifo, NULL, CODE}]]
  /\ c.inp < MAXIN =>
       /\ \A a \in Known : \A i \in 0..(MAXIN - 1) :
            word'[a][i] = IF a = c.snk /\ i = c.inp THEN NewFifo ELSE word[a][i]
       /\ \A a \in Known : Small' /\ Plain(a)' =>
            \A r \in 0..(MAXRES - 1), j \in 0..(MAXOUT - 1) :
              Slot(a, r, j)' = IF a = c.src /\ r = c.res /\ j = Used(a, r)
                               THEN NewFifo ELSE Slot(a, r, j)

LEMMA NewEdge ==
  ASSUME NEW A, EdgesAre(A), NEW c \in CallsOf(Known), c.op # "create", Made(c)
  PROVE  EdgesAre(A)' /\ Known' = Known /\ Fifos' = Fifos \cup {NewFifo} /\ NewFifo \notin Fifos
<1> DEFINE n == [call |-> c, fifo |-> NewFifo]
<1>1. Known' = Known
  BY DEF Made, Known
<1>2. size \in Seq(0..MAX_BUFFER) /\ Len(size) \in Nat
  BY DEF EdgesAre
<1>3. size' \in Seq(0..MAX_BUFFER) /\ Len(size') = Len(size) + 1
  BY <1>2, SizesAre DEF Made
<1>4. Fifos' = Fifos \cup {NewFifo} /\ NewFifo \notin Fifos
  BY <1>2, <1>3 DEF Fifos, NewFifo
<1>5. IsFiniteSet(edges')
  BY FS_AddElement DEF Made, EdgesAre
<1>6. n = [call |-> n.call, fifo |-> n.fifo] /\ n.call = c /\ n.fifo = NewFifo
  OBVIOUS
<1>7. edges' = edges \cup {n}
  BY DEF Made
<1> HIDE DEF n
<1>8. \A e \in edges' : /\ e = [call |-> e.call, fifo |-> e.fifo]
                        /\ e.call \in CallsOf(Known) /\ e.call.op # "create"
                        /\ e.fifo \in Fifos'
  BY <1>4, <1>6, <1>7 DEF EdgesAre
<1>9. \A e, f \in edges' : e.fifo = f.fifo => e = f
  BY <1>4, <1>6, <1>7 DEF EdgesAre
<1>10. \A f \in Fifos' : \E e \in edges' : e.fifo = f
  BY <1>4, <1>6, <1>7 DEF EdgesAre
<1> QED
  BY <1>1, <1>3, <1>4, <1>5, <1>8, <1>9, <1>10 DEF EdgesAre, Made

(* The inputs after such a call. *)
LEMMA InsGrow ==
  ASSUME NEW A, Host \notin A, EdgesAre(A), InsAre,
         NEW c \in CallsOf(Known), c.op # "create", Made(c), Placed(c)
  PROVE  InsAre'
<1> DEFINE n == [call |-> c, fifo |-> NewFifo]
<1> SUFFICES ASSUME Small', NEW a \in Known, NEW i \in 0..(MAXIN - 1)
             PROVE  InPlace(a, i)'
  BY NewEdge DEF InsAre
<1>1. n.call = c /\ n.fifo = NewFifo /\ edges' = edges \cup {n}
  BY DEF Made
<1> HIDE DEF n
<1>2. c.inp < MAXIN /\ Small
  BY <1>1 DEF Small
<1>3. word'[a][i] = IF a = c.snk /\ i = c.inp THEN NewFifo ELSE word[a][i]
  BY <1>2 DEF Placed
<1>4. Into(a)' = Into(a) \cup (IF c.snk = a THEN {n} ELSE {})
  BY <1>1 DEF Into
<1>5. InPlace(a, i)
  BY <1>2 DEF InsAre
<1>6. CASE c.snk = a /\ c.inp = i
  BY <1>1, <1>3, <1>4, <1>6 DEF InPlace
<1>7. CASE ~(c.snk = a /\ c.inp = i)
  <2>1. \A e \in Into(a)' : e.call.inp = i => e \in Into(a)
    BY <1>1, <1>4, <1>7
  <2>2. Into(a) \subseteq Into(a)' /\ word'[a][i] = word[a][i]
    BY <1>3, <1>4, <1>7
  <2> QED
    BY <1>5, <2>1, <2>2 DEF InPlace
<1> QED
  BY <1>6, <1>7

(* One more consumer. *)
LEMMA RowGrows ==
  ASSUME NEW A, EdgesAre(A), NEW c, Made(c), NEW a, NEW r
  PROVE  /\ IsFiniteSet(Row(a, r)) /\ Cardinality(Row(a, r)) \in Nat
         /\ c.src = a /\ c.res = r =>
              /\ Row(a, r)' = Row(a, r) \cup {[call |-> c, fifo |-> NewFifo]}
              /\ Cardinality(Row(a, r)') = Cardinality(Row(a, r)) + 1
         /\ ~(c.src = a /\ c.res = r) => Row(a, r)' = Row(a, r)
<1> DEFINE n == [call |-> c, fifo |-> NewFifo]
<1>1. n.call = c /\ n.fifo = NewFifo /\ edges' = edges \cup {n}
  BY DEF Made
<1>2. n \notin edges
  <2>1. NewFifo \notin Fifos
    BY DEF EdgesAre, Fifos, NewFifo
  <2> QED
    BY <1>1, <2>1 DEF EdgesAre
<1> HIDE DEF n
<1>3. Row(a, r) \subseteq edges /\ n \notin Row(a, r)
  BY <1>2 DEF Row, OutOf
<1>4. IsFiniteSet(Row(a, r)) /\ Cardinality(Row(a, r)) \in Nat
  BY <1>3, FS_Subset, FS_CardinalityType DEF EdgesAre
<1>5. c.src = a /\ c.res = r => Row(a, r)' = Row(a, r) \cup {n}
  BY <1>1 DEF Row, OutOf
<1>6. ~(c.src = a /\ c.res = r) => Row(a, r)' = Row(a, r)
  BY <1>1 DEF Row, OutOf
<1> QED
  BY <1>3, <1>4, <1>5, <1>6, FS_AddElement DEF n

LEMMA OutsGrow ==
  ASSUME NEW A, Host \notin A, EdgesAre(A), OutsAre,
         NEW c \in CallsOf(Known), c.op # "create", Made(c), Placed(c)
  PROVE  OutsAre'
<1> DEFINE n == [call |-> c, fifo |-> NewFifo]
<1> SUFFICES ASSUME Small', NEW a \in Known, Plain(a)', NEW r \in 0..(MAXRES - 1)
             PROVE  InRow(a, r)'
  BY NewEdge DEF OutsAre
<1>1. n.call = c /\ n.fifo = NewFifo /\ edges' = edges \cup {n}
  BY DEF Made
<1> HIDE DEF n
<1>2. c.inp < MAXIN /\ Small /\ Plain(a)
  BY <1>1 DEF Small, Plain, OutOf
<1>3. \A j \in 0..(MAXOUT - 1) :
        Slot(a, r, j)' = IF a = c.src /\ r = c.res /\ j = Used(a, r)
                         THEN NewFifo ELSE Slot(a, r, j)
  BY <1>2 DEF Placed
<1>4. InRow(a, r)
  BY <1>2 DEF OutsAre
<1>5. CASE ~(c.src = a /\ c.res = r)
  <2>1. Row(a, r)' = Row(a, r)
    BY <1>5, RowGrows
  <2>2. Used(a, r)' = Used(a, r) /\ Used(a, r) \in 0..MAXOUT
    BY <2>1, RowGrows, SizesAre DEF Used
  <2>3. \A j \in 0..(MAXOUT - 1) : Slot(a, r, j)' = Slot(a, r, j)
    BY <1>3, <1>5
  <2> QED
    BY <1>4, <2>1, <2>2, <2>3, SizesAre DEF InRow
<1>6. CASE c.src = a /\ c.res = r
  <2> DEFINE u == Used(a, r)
  <2>1. /\ Row(a, r)' = Row(a, r) \cup {n} /\ Cardinality(Row(a, r)) \in Nat
        /\ Cardinality(Row(a, r)') = Cardinality(Row(a, r)) + 1
    BY <1>6, RowGrows DEF n
  <2>2. /\ u \in 0..MAXOUT
        /\ u < MAXOUT => /\ Used(a, r)' = u + 1 /\ u = Cardinality(Row(a, r))
                         /\ Cardinality(Row(a, r)') <= MAXOUT
        /\ u = MAXOUT => Used(a, r)' = u /\ ~(Cardinality(Row(a, r)') <= MAXOUT)
    BY <2>1, SizesAre DEF Used
  <2>3. NewFifo # NULL
    BY SizesAre DEF EdgesAre, NewFifo
  <2>4. \A j \in 0..(MAXOUT - 1) : Slot(a, r, j)' = IF j = u THEN NewFifo ELSE Slot(a, r, j)
    BY <1>3, <1>6
  <2> HIDE DEF u
  <2>5. /\ \A j \in 0..(MAXOUT - 1) : Slot(a, r, j) = NULL <=> u <= j
        /\ \A j \in 0..(u - 1) : \E e \in Row(a, r) : Slot(a, r, j) = e.fifo
        /\ Cardinality(Row(a, r)) <= MAXOUT =>
             \A e \in Row(a, r) : \E j \in 0..(u - 1) : Slot(a, r, j) = e.fifo
    BY <1>4 DEF InRow, u
  <2>6. CASE u < MAXOUT
    <3> DEFINE U == Used(a, r)'
    <3>1. U = u + 1
      BY <2>2, <2>6
    <3>2. \A j \in 0..(MAXOUT - 1) : Slot(a, r, j)' = NULL <=> u + 1 <= j
      BY <2>2, <2>3, <2>4, <2>5, SizesAre
    <3>3. \A j \in 0..u : \E e \in Row(a, r)' : Slot(a, r, j)' = e.fifo
      BY <1>1, <2>1, <2>2, <2>4, <2>5, <2>6, SizesAre
    <3>4. \A e \in Row(a, r)' : \E j \in 0..u : Slot(a, r, j)' = e.fifo
      BY <1>1, <2>1, <2>2, <2>4, <2>5, <2>6, SizesAre
    <3>5. (u + 1) - 1 = u
      BY <2>2
    <3> QED
      BY <3>1, <3>2, <3>3, <3>4, <3>5 DEF InRow
  <2>7. CASE u = MAXOUT
    <3>1. \A j \in 0..(MAXOUT - 1) : Slot(a, r, j)' = Slot(a, r, j)
      BY <2>4, <2>7, SizesAre
    <3> QED
      BY <2>1, <2>2, <2>5, <2>7, <3>1, SizesAre DEF InRow
  <2> QED
    BY <2>2, <2>6, <2>7, SizesAre
<1> QED
  BY <1>5, <1>6

LEMMA BuiltGrows ==
  ASSUME NEW A, Host \notin A, Built(A),
         NEW c \in CallsOf(Known), c.op # "create", Made(c), Placed(c)
  PROVE  Built(A)'
<1>1. EdgesAre(A)' /\ Known' = Known /\ Fifos' = Fifos \cup {NewFifo}
  BY NewEdge DEF Built
<1>2. word' \in [Known' -> [Words -> Fifos' \cup {NULL, CODE}]]
  <2>1. Fifos' \cup {NULL, CODE} = Fifos \cup {NewFifo, NULL, CODE}
    BY <1>1
  <2> QED
    BY <1>1, <2>1 DEF Placed
<1> QED
  BY <1>1, <1>2, InsGrow, OutsGrow DEF Built, WordsType
-----------------------------------------------------------------------------
(* Each call. *)
LEMMA CreateBuilt ==
  ASSUME NEW A, Host \notin A, Built(A), NEW a \in A, actor_create(a)
  PROVE  Built(A)' /\ Known' = Known \cup {a} /\ Fifos' = Fifos
<1> USE DEF Built
<1>1. Known' = Known \cup {a}
  <2> DEFINE n == Len(actor_l)
  <2>1. actor_l' = Append(actor_l, a) /\ a \notin Known
    BY DEF actor_create
  <2>2. /\ DOMAIN actor_l' = DOMAIN actor_l \cup {n + 1} /\ actor_l'[n + 1] = a
        /\ \A i \in DOMAIN actor_l : actor_l'[i] = actor_l[i]
    BY <2>1 DEF EdgesAre
  <2> QED
    BY <2>2 DEF Known
<1>2. EdgesAre(A)'
  <2>1. \A e \in edges : e.call \in CallsOf(Known)'
    BY <1>1, CallsGrow DEF EdgesAre, CallsOf
  <2>2. actor_l' \in Seq(A) /\ Known' \subseteq A
    BY <1>1 DEF EdgesAre, actor_create
  <2>3. size' = size /\ edges' = edges /\ Fifos' = Fifos
    BY DEF actor_create, Fifos
  <2> QED
    BY <2>1, <2>2, <2>3 DEF EdgesAre
<1>3. Fifos' = Fifos /\ edges' = edges
  BY DEF actor_create, Fifos
<1> DEFINE new == [k \in Words |-> IF k \in {TaskAddr, TaskAddr + 1} THEN CODE ELSE NULL]
<1>4. /\ word' \in [Known' -> [Words -> Fifos' \cup {NULL, CODE}]]
      /\ \A b \in Known : word'[b] = word[b]
      /\ word'[a] = new
  BY <1>1, <1>3 DEF WordsType, actor_create
<1>5. Into(a)' = {} /\ OutOf(a)' = {}
  <2>1. \A e \in edges : e.call.snk # a /\ e.call.src # a
    <3> TAKE e \in edges
    <3>1. e.call \in CallsOf(Known) /\ e.call.op # "create" /\ a \notin Known /\ a # Host
      BY DEF EdgesAre, actor_create
    <3> QED
      BY <3>1, CallIs
  <2> QED
    BY <1>3, <2>1 DEF Into, OutOf
<1>6. InsAre'
  <2> SUFFICES ASSUME Small', NEW b \in Known', NEW i \in 0..(MAXIN - 1) PROVE InPlace(b, i)'
    BY DEF InsAre
  <2>1. CASE b = a
    <3>1. i \in Words /\ i # TaskAddr /\ i # TaskAddr + 1
      BY Places, SizesAre
    <3> QED
      BY <1>4, <1>5, <2>1, <3>1 DEF InPlace
  <2>2. CASE b \in Known
    <3>1. Small /\ Into(b)' = Into(b) /\ word'[b][i] = word[b][i]
      BY <1>3, <1>4, <2>2 DEF Small, Into
    <3> QED
      BY <2>2, <3>1 DEF InsAre, InPlace
  <2> QED
    BY <1>1, <2>1, <2>2
<1>7. OutsAre'
  <2> SUFFICES ASSUME Small', NEW b \in Known', Plain(b)', NEW r \in 0..(MAXRES - 1)
               PROVE  InRow(b, r)'
    BY DEF OutsAre
  <2>1. CASE b = a
    <3>1. Row(a, r)' = {} /\ Used(a, r)' = 0 /\ Cardinality(Row(a, r)') = 0
      BY <1>5, FS_EmptySet, SizesAre DEF Row, Used
    <3>2. \A j \in 0..(MAXOUT - 1) : Slot(a, r, j)' = NULL
      BY <1>4, Places DEF Slot
    <3>3. 0..(0 - 1) = {}
      OBVIOUS
    <3> QED
      BY <2>1, <3>1, <3>2, <3>3, SizesAre DEF InRow
  <2>2. CASE b \in Known
    <3>1. Small /\ Plain(b) /\ Row(b, r)' = Row(b, r) /\ Used(b, r)' = Used(b, r)
      BY <1>3, <2>2 DEF Small, Plain, OutOf, Row, Used
    <3>2. \A j : Slot(b, r, j)' = Slot(b, r, j)
      BY <1>4, <2>2 DEF Slot
    <3>3. InRow(b, r)
      BY <2>2, <3>1 DEF OutsAre
    <3> QED
      BY <3>1, <3>2, <3>3 DEF InRow
  <2> QED
    BY <1>1, <2>1, <2>2
<1> QED
  BY <1>1, <1>2, <1>3, <1>4, <1>6, <1>7 DEF WordsType

(* Where the words lie that a call writes. *)
LEMMA SlotOf ==
  ASSUME NEW A, Built(A), NEW a \in Known, NEW r \in 0..(MAXRES - 1), InRow(a, r)
  PROVE  /\ Used(a, r) \in 0..MAXOUT
         /\ \A j \in 0..(MAXOUT - 1) : j \in FreeSlots(a, r) <=> Used(a, r) <= j
<1>1. IsFiniteSet(Row(a, r))
  <2>1. Row(a, r) \subseteq edges
    BY DEF Row, OutOf
  <2> QED
    BY <2>1, FS_Subset DEF Built, EdgesAre
<1>2. Cardinality(Row(a, r)) \in Nat
  BY <1>1, FS_CardinalityType
<1> QED
  BY <1>2, SizesAre DEF Used, InRow, FreeSlots, Slot

LEMMA EdgePlaced ==
  ASSUME NEW A, Host \notin A, Built(A), NEW s, NEW k, NEW r \in Nat, NEW i \in Nat,
         edge_make(s, r, k, i)
  PROVE  /\ Edge(s, r, k, i) \in CallsOf(Known) /\ Edge(s, r, k, i).op # "create"
         /\ Made(Edge(s, r, k, i)) /\ Placed(Edge(s, r, k, i))
<1> DEFINE c == Edge(s, r, k, i)
           with == WithOut(s, r)
<1>1. c.op = "edge" /\ c.src = s /\ c.res = r /\ c.snk = k /\ c.inp = i
  BY DEF Edge
<1>2. s \in Known /\ k \in Known /\ r \in 0..(MAXRES - 1)
  BY SizesAre DEF edge_make
<1>3. c \in CallsOf(Known)
  BY <1>2 DEF CallsOf
<1>4. Made(c)
  BY DEF edge_make, malloc_fifo, Made
<1>5. NewFifo # NULL
  BY SizesAre DEF Built, EdgesAre, NewFifo
<1>6. word \in [Known -> [Words -> Fifos \cup {NULL, CODE}]]
  BY DEF Built, WordsType
<1> DEFINE put == CHOOSE j \in FreeSlots(s, r) : \A l \in FreeSlots(s, r) : j <= l
<1>7. with \in [Known -> [Words -> Fifos \cup {NewFifo, NULL, CODE}]]
  BY <1>6 DEF WithOut
<1>8. word' = [with EXCEPT ![k][i] = NewFifo]
  BY DEF edge_make
<1>9. word' \in [Known -> [Words -> Fifos \cup {NewFifo, NULL, CODE}]]
  <2> HIDE DEF with
  <2> QED
    BY <1>7, <1>8
<1> SUFFICES Placed(c)
  BY <1>1, <1>3, <1>4
<1> HIDE DEF c
<1> SUFFICES ASSUME i < MAXIN
    PROVE  /\ \A a \in Known : \A l \in 0..(MAXIN - 1) :
                word'[a][l] = IF a = k /\ l = i THEN NewFifo ELSE word[a][l]
           /\ \A a \in Known : Small' /\ Plain(a)' =>
                \A q \in 0..(MAXRES - 1), j \in 0..(MAXOUT - 1) :
                  Slot(a, q, j)' = IF a = s /\ q = r /\ j = Used(a, q)
                                   THEN NewFifo ELSE Slot(a, q, j)
  BY <1>1, <1>9 DEF Placed
<1>10. i \in Words
  BY Places, SizesAre
<1>11. FreeSlots(s, r) # {} =>
         /\ put \in 0..(MAXOUT - 1) /\ \A l \in FreeSlots(s, r) : put <= l
         /\ put \in FreeSlots(s, r)
         /\ \A a \in Known, l \in Words :
              with[a][l] = IF a = s /\ l = OutIndex(r, put) THEN NewFifo ELSE word[a][l]
  <2> SUFFICES ASSUME FreeSlots(s, r) # {}
               PROVE  /\ put \in FreeSlots(s, r) /\ \A l \in FreeSlots(s, r) : put <= l
                      /\ \A a \in Known, l \in Words :
                           with[a][l] = IF a = s /\ l = OutIndex(r, put) THEN NewFifo
                                                                        ELSE word[a][l]
    BY DEF FreeSlots
  <2>1. FreeSlots(s, r) \in SUBSET Nat
    BY DEF FreeSlots
  <2>2. PICK x \in FreeSlots(s, r) : \A y \in FreeSlots(s, r) : ~(y < x)
    BY <2>1, SmallestNumber
  <2>3. \A y \in FreeSlots(s, r) : x <= y
    BY <2>1, <2>2
  <2>4. put \in FreeSlots(s, r) /\ \A l \in FreeSlots(s, r) : put <= l
    BY <2>3
  <2>5. with = [word EXCEPT ![s][OutIndex(r, put)] = NewFifo]
    BY DEF WithOut
  <2> HIDE DEF put, with
  <2> QED
    BY <1>2, <1>6, <2>4, <2>5
<1>12. FreeSlots(s, r) = {} => with = word
  BY DEF WithOut
<1> HIDE DEF with, put
<1>13. \A a \in Known, l \in Words : word'[a][l] = IF a = k /\ l = i THEN NewFifo ELSE with[a][l]
  BY <1>2, <1>7, <1>8, <1>10
<1>14. \A a \in Known, l \in 0..(MAXIN - 1) : l \in Words /\ with[a][l] = word[a][l]
  <2>1. put \in 0..(MAXOUT - 1) => \A l \in 0..(MAXIN - 1) : l # OutIndex(r, put)
    BY <1>2, Places, SizesAre
  <2>2. \A l \in 0..(MAXIN - 1) : l \in Words
    BY Places, SizesAre
  <2> QED
    BY <1>11, <1>12, <2>1, <2>2
<1>15. ASSUME NEW a \in Known, Small', Plain(a)',
              NEW q \in 0..(MAXRES - 1), NEW j \in 0..(MAXOUT - 1)
       PROVE  Slot(a, q, j)' = IF a = s /\ q = r /\ j = Used(a, q)
                               THEN NewFifo ELSE Slot(a, q, j)
  <2> DEFINE l == OutIndex(q, j)
  <2>1. l \in Words /\ l # i
    BY Places, SizesAre
  <2>2. Slot(a, q, j)' = with[a][l] /\ Slot(a, q, j) = word[a][l]
    BY <1>13, <2>1 DEF Slot, OutIndex
  <2>3. CASE ~(a = s /\ q = r)
    <3>1. put \in 0..(MAXOUT - 1) /\ a = s => l # OutIndex(r, put)
      BY <1>2, <2>3, Places
    <3> QED
      BY <1>11, <1>12, <2>1, <2>2, <2>3, <3>1
  <2>4. CASE a = s /\ q = r
    <3>1. Small /\ Plain(s)
      BY <1>4, <1>15, <2>4 DEF Made, Small, Plain, OutOf
    <3>2. InRow(s, r)
      BY <1>2, <3>1 DEF Built, OutsAre
    <3>3. /\ Used(s, r) \in 0..MAXOUT
          /\ \A x \in 0..(MAXOUT - 1) : x \in FreeSlots(s, r) <=> Used(s, r) <= x
      BY <1>2, <3>2, SlotOf
    <3>4. CASE FreeSlots(s, r) = {}
      <4>1. j # Used(s, r)
        BY <3>3, <3>4
      <4> QED
        BY <1>12, <2>2, <2>4, <3>4, <4>1
    <3>5. CASE FreeSlots(s, r) # {}
      <4>1. put = Used(s, r)
        BY <1>11, <3>3, <3>5, SizesAre
      <4>2. l = OutIndex(r, put) <=> j = put
        BY <1>2, <1>11, <2>4, <3>5, Places
      <4> QED
        BY <1>11, <2>1, <2>2, <2>4, <3>5, <4>1, <4>2
    <3> QED
      BY <3>4, <3>5
  <2> QED
    BY <2>3, <2>4
<1> QED
  BY <1>13, <1>14, <1>15

LEMMA RootPlaced ==
  ASSUME NEW A, Host \notin A, Built(A), NEW a, assign_root(a)
  PROVE  /\ Root(a) \in CallsOf(Known) /\ Root(a).op # "create"
         /\ Made(Root(a)) /\ Placed(Root(a))
<1> DEFINE c == Root(a)
<1>1. c.op = "root" /\ c.src = Host /\ c.res = 0 /\ c.snk = a /\ c.inp = 0
  BY DEF Root
<1>2. a \in Known /\ c \in CallsOf(Known)
  BY DEF CallsOf, assign_root
<1>3. Made(c)
  BY DEF assign_root, malloc_fifo, Made
<1> HIDE DEF c
<1>4. word \in [Known -> [Words -> Fifos \cup {NULL, CODE}]] /\ Host \notin Known
  BY DEF Built, WordsType, EdgesAre
<1>5. word' = [word EXCEPT ![a][0] = NewFifo]
  BY DEF assign_root
<1>6. word' \in [Known -> [Words -> Fifos \cup {NewFifo, NULL, CODE}]]
  BY <1>4, <1>5
<1>7. \A b \in Known, l \in Words : word'[b][l] = IF b = a /\ l = 0 THEN NewFifo ELSE word[b][l]
  BY <1>2, <1>4, <1>5
<1>8. \A l \in 0..(MAXIN - 1) : l \in Words
  BY Places, SizesAre
<1>9. \A b \in Known, r \in 0..(MAXRES - 1), j \in 0..(MAXOUT - 1) : Slot(b, r, j)' = Slot(b, r, j)
  BY <1>7, Places, SizesAre DEF Slot, OutIndex
<1>10. Placed(c)
  BY <1>1, <1>4, <1>6, <1>7, <1>8, <1>9 DEF Placed
<1> QED
  BY <1>1, <1>2, <1>3, <1>10 DEF c

LEMMA SinkPlaced ==
  ASSUME NEW A, Host \notin A, Built(A), NEW a, assign_sink(a)
  PROVE  /\ Sink(a) \in CallsOf(Known) /\ Sink(a).op # "create"
         /\ Made(Sink(a)) /\ Placed(Sink(a))
<1> DEFINE c == Sink(a)
<1>1. c.op = "sink" /\ c.src = a /\ c.res = 0 /\ c.snk = Host /\ c.inp = 0
  BY DEF Sink
<1>2. a \in Known /\ c \in CallsOf(Known)
  BY DEF CallsOf, assign_sink
<1>3. Made(c)
  BY DEF assign_sink, malloc_fifo, Made
<1> HIDE DEF c
<1>4. word \in [Known -> [Words -> Fifos \cup {NULL, CODE}]] /\ Host \notin Known
  BY DEF Built, WordsType, EdgesAre
<1>5. word' = [word EXCEPT ![a][OutIndex(0, 0)] = NewFifo]
  BY DEF assign_sink
<1>6. word' \in [Known -> [Words -> Fifos \cup {NewFifo, NULL, CODE}]]
  BY <1>4, <1>5
<1>7. \A b \in Known, l \in Words :
        word'[b][l] = IF b = a /\ l = OutIndex(0, 0) THEN NewFifo ELSE word[b][l]
  BY <1>2, <1>4, <1>5
<1>8. \A l \in 0..(MAXIN - 1) : l \in Words /\ l # OutIndex(0, 0)
  BY Places, SizesAre
<1>9. ASSUME NEW b \in Known, Small', Plain(b)',
             NEW r \in 0..(MAXRES - 1), NEW j \in 0..(MAXOUT - 1)
      PROVE  Slot(b, r, j)' = IF b = a /\ r = 0 /\ j = Used(b, r) THEN NewFifo ELSE Slot(b, r, j)
  <2>1. /\ OutIndex(r, j) \in Words
        /\ OutIndex(r, j) = OutIndex(0, 0) <=> r = 0 /\ j = 0
    BY Places, SizesAre
  <2>2. Slot(b, r, j)' = IF b = a /\ r = 0 /\ j = 0 THEN NewFifo ELSE Slot(b, r, j)
    BY <1>7, <2>1 DEF Slot, OutIndex
  <2>3. b = a /\ r = 0 => Used(a, 0) = 0
    <3>0. ASSUME Row(a, 0) = {} PROVE Used(a, 0) = 0
      <4>1. Cardinality(Row(a, 0)) = 0 /\ 0 <= MAXOUT
        BY <3>0, FS_EmptySet, SizesAre
      <4> QED
        BY <4>1 DEF Used
    <3> SUFFICES ASSUME b = a PROVE Row(a, 0) = {}
      BY <3>0
    <3>1. NewFifo \notin Fifos /\ \A e \in edges : e.fifo \in Fifos
      BY DEF NewFifo, Fifos, Built, EdgesAre
    <3> DEFINE n == [call |-> c, fifo |-> NewFifo]
    <3>2. n \in edges' /\ n.call.op = "sink" /\ n.call.src = a /\ n.fifo = NewFifo
      BY <1>1, <1>3 DEF Made
    <3>3. \A e \in OutOf(a) : e \in edges' /\ e.call.src = a /\ e # n
      BY <1>3, <3>1 DEF OutOf, Made
    <3> QED
      BY <1>9, <3>2, <3>3 DEF Plain, OutOf, Row
  <2> QED
    BY <2>2, <2>3
<1>10. Placed(c)
  BY <1>1, <1>4, <1>6, <1>7, <1>8, <1>9 DEF Placed
<1> QED
  BY <1>1, <1>2, <1>3, <1>10 DEF c

LEMMA CallBuilds ==
  ASSUME NEW A, Host \notin A, Built(A), NEW c \in CallsOf(A), Call(c)
  PROVE  /\ Built(A)' /\ Known' \subseteq Known \cup (IF c.op = "create" THEN {c.src} ELSE {})
         /\ \A f \in Fifos' : (f \in Fifos /\ size'[f] = size[f]) \/ size'[f] = 0
<1>1. CASE c.op = "create" /\ actor_create(c.src)
  <2>1. c.src \in A
    BY <1>1, CallIs
  <2>2. Built(A)' /\ Known' = Known \cup {c.src} /\ Fifos' = Fifos
    BY <1>1, <2>1, CreateBuilt
  <2>3. size' = size
    BY <1>1 DEF actor_create
  <2> QED
    BY <1>1, <2>2, <2>3
<1>2. ASSUME NEW d \in CallsOf(Known), d.op # "create", Made(d), Placed(d)
      PROVE  /\ Built(A)' /\ Known' \subseteq Known \cup (IF c.op = "create" THEN {c.src} ELSE {})
             /\ \A f \in Fifos' : (f \in Fifos /\ size'[f] = size[f]) \/ size'[f] = 0
  <2>1. Built(A)'
    BY <1>2, BuiltGrows
  <2>2. Known' = Known /\ size' = Append(size, 0) /\ size \in Seq(0..MAX_BUFFER)
    BY <1>2, NewEdge DEF Made, Built, EdgesAre
  <2>3. \A f \in Fifos' : (f \in Fifos /\ size'[f] = size[f]) \/ size'[f] = 0
    BY <2>2, SizesAre DEF Fifos
  <2> QED
    BY <2>1, <2>2, <2>3
<1>3. CASE c.op = "edge" /\ edge_make(c.src, c.res, c.snk, c.inp)
  <2>1. c.res \in Nat /\ c.inp \in Nat
    BY <1>3, CallIs
  <2> QED
    BY <1>2, <1>3, <2>1, EdgePlaced
<1>4. CASE c.op = "root" /\ assign_root(c.snk)
  BY <1>2, <1>4, RootPlaced
<1>5. CASE c.op = "sink" /\ assign_sink(c.src)
  BY <1>2, <1>5, SinkPlaced
<1> QED
  BY <1>1, <1>3, <1>4, <1>5 DEF Call

-----------------------------------------------------------------------------
(* In a graph that keeps to the rules. *)
LEMMA InputsDistinct ==
  ASSUME NEW A, EdgesAre(A), KeepsRules, NEW a \in Known,
         NEW e \in Into(a), NEW f \in Into(a), e.call.inp = f.call.inp
  PROVE  e = f
<1> DEFINE S == Into(a)
           T == {x.call.inp : x \in S}
           g == [x \in S |-> x.call.inp]
<1>1. IsFiniteSet(S)
  <2>1. S \subseteq edges
    BY DEF Into
  <2> QED
    BY <2>1, FS_Subset DEF EdgesAre
<1>2. g \in Surjection(S, T)
  BY DEF Surjection
<1>3. Cardinality(T) = Cardinality(S)
  BY DEF KeepsRules
<1>4. g \in Injection(S, T)
  <2> HIDE DEF S, T, g
  <2> QED
    BY <1>1, <1>2, <1>3, FS_Surjection
<1>5. \A x, y \in S : g[x] = g[y] => x = y
  <2> HIDE DEF S, T, g
  <2> QED
    BY <1>4 DEF Injection, IsInjective
<1> QED
  BY <1>5

LEMMA InputWord ==
  ASSUME NEW A, EdgesAre(A), InsAre, Small, KeepsRules, NEW a \in Known, NEW e \in Into(a),
         e.call.inp \in Nat
  PROVE  word[a][e.call.inp] = e.fifo
<1>1. e.call.inp \in 0..(MAXIN - 1)
  BY SizesAre DEF Small, Into
<1>2. InPlace(a, e.call.inp)
  BY <1>1 DEF InsAre
<1> QED
  BY <1>2, InputsDistinct DEF InPlace

(* The only call for the root, and its fifo. *)
LEMMA RootWord ==
  ASSUME NEW A, EdgesAre(A), InsAre, Small, KeepsRules, NEW e \in edges
  PROVE  /\ word[PacketActor][0] \in Fifos
         /\ e.call.op = "root" <=> e.fifo = word[PacketActor][0]
<1> DEFINE a == actor_l[1]
<1>1. a \in Known
  BY DEF KeepsRules, EdgesAre, Known
<1>2. PICK x \in edges : x.call = Root(a)
  <2>1. Root(a) \in Calls
    BY DEF KeepsRules
  <2> QED
    BY <2>1 DEF Calls
<1>3. x.call.snk = a /\ x.call.inp = 0 /\ x.call.op = "root"
  BY <1>2 DEF Root
<1>4. word[a][0] = x.fifo
  BY <1>1, <1>3, InputWord DEF Into
<1>5. e.call.op = "root" => e = x
  <2> SUFFICES ASSUME e.call.op = "root" PROVE e = x
    OBVIOUS
  <2>1. e.call = Root(a)
    BY DEF KeepsRules, Calls
  <2> QED
    BY <1>1, <1>2, <1>3, <2>1, InputsDistinct DEF Into
<1> QED
  BY <1>3, <1>4, <1>5 DEF PacketActor, EdgesAre

-----------------------------------------------------------------------------
LEMMA GraphInit ==
  ASSUME NEW A, ProperCalls, Init
  PROVE  GraphInv(A)
<1>1. Known = {} /\ size = <<>> /\ actor_l = <<>> /\ edges = {} /\ Fifos = {}
  BY DEF Init, Known, Fifos
<1>2. EdgesAre(A)
  BY <1>1, FS_EmptySet DEF EdgesAre
<1>3. WordsType
  BY <1>1 DEF Init, WordsType
<1>4. InsAre /\ OutsAre
  BY <1>1 DEF InsAre, OutsAre
<1>5. PlanIs
  <2>1. \A p \in Programs : p \in Seq({p[i] : i \in DOMAIN p})
    BY DEF ProperCalls
  <2> QED
    <3>1. plan = <<>> \/ \E p \in Programs : plan \in Seq({p[i] : i \in DOMAIN p})
      BY <2>1 DEF Init
    <3>2. packets = 0 /\ pc = "depict" /\ 0 \in 0..NUM_PACKET
      BY SizesAre DEF Init
    <3>3. free \in BOOLEAN
      BY DEF Init
    <3> QED
      BY <1>1, <3>1, <3>2, <3>3 DEF PlanIs
<1>6. PacketsAre
  BY <1>1 DEF PacketsAre
<1> QED
  BY <1>2, <1>3, <1>4, <1>5, <1>6 DEF GraphInv, Built

(* Packets are put in after the last call. *)
LEMMA CallInv ==
  ASSUME NEW A, Host \notin A, GraphInv(A), NEW c \in CallsOf(A), Call(c), pc = "depict",
         c.op = "create" =>
           c.src \in FreeActors \cup UNION {{d.src : d \in {p[i] : i \in DOMAIN p}} : p \in Programs},
         UNCHANGED <<free, packets, pc>>,
         plan' = <<>> \/ \E p \in Programs : plan' \in Seq({p[i] : i \in DOMAIN p})
  PROVE  GraphInv(A)'
<1>1. /\ Built(A)' /\ Known' \subseteq Known \cup (IF c.op = "create" THEN {c.src} ELSE {})
      /\ \A f \in Fifos' : (f \in Fifos /\ size'[f] = size[f]) \/ size'[f] = 0
  BY CallBuilds DEF GraphInv
<1>2. PlanIs'
  BY <1>1 DEF GraphInv, PlanIs
<1>3. PacketsAre'
  <2>1. \A f \in Fifos' : size'[f] = 0
    BY <1>1 DEF GraphInv, PacketsAre
  <2>2. Held' = 0
    BY SizesAre DEF GraphInv, PlanIs, Held
  <2> QED
    BY <1>1, <2>1, <2>2 DEF PacketsAre, Built, EdgesAre
<1> QED
  BY <1>1, <1>2, <1>3 DEF GraphInv

LEMMA PacketInv ==
  ASSUME NEW A, GraphInv(A), packet_input
  PROVE  GraphInv(A)'
<1> DEFINE w == word[PacketActor][0]
<1>1. size \in Seq(0..MAX_BUFFER) /\ \A n \in 0..MAX_BUFFER : AfterPut(n) \in 0..MAX_BUFFER
  BY SizesAre DEF GraphInv, Built, EdgesAre, AfterPut
<1>2. size' = [size EXCEPT ![w] = AfterPut(@)]
  BY DEF packet_input
<1> HIDE DEF w
<1>3. /\ size' \in Seq(0..MAX_BUFFER) /\ Len(size') = Len(size)
      /\ \A f \in Fifos : size'[f] = IF f = w THEN AfterPut(size[f]) ELSE size[f]
  <2>1. CASE w \in DOMAIN size
    BY <1>1, <1>2, <2>1, SizesAre DEF Fifos
  <2>2. CASE w \notin DOMAIN size
    <3>1. size' = size
      BY <1>1, <1>2, <2>2
    <3> QED
      BY <1>1, <2>2, <3>1 DEF Fifos
  <2> QED
    BY <2>1, <2>2
<1>4. Fifos' = Fifos /\ Known' = Known /\ edges' = edges /\ word' = word /\ actor_l' = actor_l
  BY <1>3 DEF Fifos, Known, packet_input
<1>5. Built(A)'
  <2>1. EdgesAre(A)'
    BY <1>3, <1>4 DEF GraphInv, Built, EdgesAre
  <2>2. WordsType'
    BY <1>4 DEF GraphInv, Built, WordsType
  <2>3. \A a, i : Into(a)' = Into(a) /\ OutOf(a)' = OutOf(a) /\ Row(a, i)' = Row(a, i)
    BY <1>4 DEF Into, OutOf, Row
  <2>4. InsAre'
    BY <1>4, <2>3 DEF GraphInv, Built, InsAre, Small, InPlace
  <2>5. OutsAre'
    BY <1>4, <2>3 DEF GraphInv, Built, OutsAre, Small, Plain, InRow, Used, Slot
  <2> QED
    BY <2>1, <2>2, <2>4, <2>5 DEF Built
<1>6. PlanIs'
  <2>1. pc' = "packets" /\ packets' \in 0..NUM_PACKET
    BY SizesAre DEF GraphInv, PlanIs, packet_input
  <2>2. free' = free /\ plan' = plan
    BY DEF packet_input
  <2> QED
    BY <1>4, <2>1, <2>2 DEF GraphInv, PlanIs
<1>7. PacketsAre'
  <2>1. KeepsRules' => KeepsRules
    BY <1>4 DEF KeepsRules, Calls, Into, OutOf
  <2> SUFFICES ASSUME KeepsRules, Small, NEW e \in edges
               PROVE  size'[e.fifo] = IF e.call.op = "root" THEN Held' ELSE 0
    BY <1>4, <2>1 DEF PacketsAre, Small, packet_input
  <2>2. e.call.op = "root" <=> e.fifo = w
    BY RootWord DEF GraphInv, Built, w
  <2>3. size[e.fifo] = IF e.call.op = "root" THEN Held ELSE 0
    BY DEF GraphInv, PacketsAre
  <2>4. e.fifo \in Fifos
    BY DEF GraphInv, Built, EdgesAre
  <2>5. Held' = AfterPut(Held)
    BY SizesAre DEF GraphInv, PlanIs, Held, AfterPut, packet_input
  <2> QED
    BY <1>3, <2>2, <2>3, <2>4, <2>5
<1> QED
  BY <1>5, <1>6, <1>7 DEF GraphInv

LEMMA GraphStep ==
  ASSUME NEW A, Host \notin A, FreeActors \subseteq A, Programs \subseteq Seq(CallsOf(A)),
         GraphInv(A), [Next]_vars
  PROVE  GraphInv(A)'
<1>1. CASE Planned
  <2>1. PICK p \in Programs : plan \in Seq({p[i] : i \in DOMAIN p})
    BY <1>1 DEF Planned, GraphInv, PlanIs
  <2>2. Head(plan) \in {p[i] : i \in DOMAIN p} /\ Tail(plan) \in Seq({p[i] : i \in DOMAIN p})
    BY <1>1, <2>1 DEF Planned
  <2>3. Head(plan) \in CallsOf(A)
    BY <2>2
  <2>4. Head(plan).src \in UNION {{d.src : d \in {q[i] : i \in DOMAIN q}} : q \in Programs}
    BY <2>2
  <2> QED
    BY <1>1, <2>2, <2>3, <2>4, CallInv DEF Planned
<1>2. CASE Free
  <2>1. PICK c \in FreeCalls : Call(c)
    BY <1>2 DEF Free
  <2>2. c \in CallsOf(A)
    BY GraphAssumption DEF FreeCalls, CallsOf
  <2>3. c.op = "create" => c.src \in FreeActors
    BY DEF FreeCalls, Create, Edge, Root, Sink
  <2>4. plan' = plan /\ pc = "depict" /\ UNCHANGED <<free, packets, pc>>
    BY <1>2 DEF Free
  <2>5. plan' = <<>> \/ \E p \in Programs : plan' \in Seq({p[i] : i \in DOMAIN p})
    BY <2>4 DEF GraphInv, PlanIs
  <2> QED
    BY <2>1, <2>2, <2>3, <2>4, <2>5, CallInv
<1>3. CASE Depicted \/ schedule_init \/ UNCHANGED vars
  <2>1. UNCHANGED <<actor_l, word, size, edges, plan, free, packets>>
    BY <1>3 DEF Depicted, schedule_init, vars
  <2>2. /\ Fifos' = Fifos /\ Known' = Known
        /\ \A a, i : Into(a)' = Into(a) /\ OutOf(a)' = OutOf(a) /\ Row(a, i)' = Row(a, i)
    BY <2>1 DEF Fifos, Known, Into, OutOf, Row
  <2>3. Built(A)'
    <3>1. EdgesAre(A)' /\ WordsType'
      BY <2>1, <2>2 DEF GraphInv, Built, EdgesAre, WordsType
    <3>2. InsAre'
      BY <2>1, <2>2 DEF GraphInv, Built, InsAre, Small, InPlace
    <3>3. OutsAre'
      BY <2>1, <2>2 DEF GraphInv, Built, OutsAre, Small, Plain, InRow, Used, Slot
    <3> QED
      BY <3>1, <3>2, <3>3 DEF Built
  <2>4. PlanIs'
    BY <1>3, <2>1, <2>2 DEF GraphInv, PlanIs, Depicted, schedule_init, vars
  <2>5. PacketsAre'
    <3>1. KeepsRules' = KeepsRules /\ Small' = Small /\ Held' = Held
      BY <2>1, <2>2 DEF KeepsRules, Calls, Small, Held
    <3>2. pc' = "depict" => pc = "depict"
      BY <1>3 DEF Depicted, schedule_init, vars
    <3> QED
      BY <2>1, <2>2, <3>1, <3>2 DEF GraphInv, PacketsAre
  <2> QED
    BY <2>3, <2>4, <2>5 DEF GraphInv
<1> QED
  BY <1>1, <1>2, <1>3, PacketInv DEF Next

LEMMA GraphInvariant ==
  ASSUME NEW A, Host \notin A, FreeActors \subseteq A, Programs \subseteq Seq(CallsOf(A))
  PROVE  Spec => []GraphInv(A)
<1>1. Init => GraphInv(A)
  BY GraphInit DEF ProperCalls
<1>2. GraphInv(A) /\ [Next]_vars => GraphInv(A)'
  BY GraphStep
<1> QED
  BY <1>1, <1>2, PTL DEF Spec

-----------------------------------------------------------------------------
(* A loop that starts at k stops at the first NULL word.                   *)
LEMMA FirstNullIs ==
  ASSUME NEW a, NEW k \in Nat, NEW n \in Words, k <= n, word[a][n] = NULL,
         \A m \in k..(n - 1) : word[a][m] # NULL
  PROVE  FirstNull(a, k) = n
<1>1. Words \subseteq Nat
  BY DEF Words
<1>2. \A x \in Words : (/\ x >= k /\ word[a][x] = NULL
                        /\ \A m \in k..(x - 1) : word[a][m] # NULL) => x = n
  <2> TAKE x \in Words
  <2> SUFFICES ASSUME x >= k, word[a][x] = NULL, \A m \in k..(x - 1) : word[a][m] # NULL
               PROVE  x = n
    OBVIOUS
  <2>1. ~(x < n)
    BY <1>1
  <2>2. ~(n < x)
    BY <1>1
  <2> QED
    BY <1>1, <2>1, <2>2
<1> QED
  BY <1>1, <1>2 DEF FirstNull

(* What an edge says. *)
LEMMA EdgeIs ==
  ASSUME NEW A, Host \notin A, EdgesAre(A), NEW e \in edges
  PROVE  /\ e = [call |-> e.call, fifo |-> e.fifo] /\ e.fifo \in Fifos /\ e.fifo \in Nat
         /\ e.call.res \in Nat /\ e.call.inp \in Nat
         /\ e.call.src \in Known \cup {Host} /\ e.call.snk \in Known \cup {Host}
         /\ e.call.src = Host <=> e.call.op = "root"
         /\ e.call.snk = Host <=> e.call.op = "sink"
         /\ e.call.op = "root" => e.call = Root(e.call.snk)
         /\ e.call.op = "sink" => e.call = Sink(e.call.src)
<1>1. e.call \in CallsOf(Known) /\ e.call.op # "create" /\ Host \notin Known
  BY DEF EdgesAre
<1>2. e = [call |-> e.call, fifo |-> e.fifo] /\ e.fifo \in Fifos /\ e.fifo \in Nat
  BY DEF EdgesAre, Fifos
<1> QED
  BY <1>1, <1>2, CallIs

LEMMA Finite ==
  ASSUME NEW A, EdgesAre(A), NEW S \in SUBSET edges
  PROVE  IsFiniteSet(S) /\ Cardinality(S) \in Nat
BY FS_Subset, FS_CardinalityType DEF EdgesAre

LEMMA SmallFits ==
  ASSUME NEW A, Host \notin A, EdgesAre(A), Fits
  PROVE  Small
<1> SUFFICES ASSUME NEW e \in edges PROVE e.call.inp < MAXIN
  BY DEF Small
<1>1. CASE e.call.snk \in Known
  <2>1. e \in Into(e.call.snk)
    BY DEF Into
  <2> QED
    BY <1>1, <2>1, EdgeIs, SizesAre DEF Fits
<1>2. CASE e.call.snk = Host
  <2>1. e.call = Sink(e.call.src)
    BY <1>2, EdgeIs
  <2>2. e.call.inp = 0
    BY <2>1 DEF Sink
  <2> QED
    BY <2>2, SizesAre
<1> QED
  BY <1>1, <1>2, EdgeIs

(* A set of numbers without gaps. *)
LEMMA NoGap ==
  ASSUME NEW S, NEW F, IsFiniteSet(F), NEW f \in [F -> Nat], S = {f[x] : x \in F}, Numbers(S)
  PROVE  \E m \in Nat : S = 0..(m - 1)
<1>1. f \in Surjection(F, S)
  BY DEF Surjection
<1>2. IsFiniteSet(S)
  BY <1>1, FS_Surjection
<1>3. Cardinality(S) \in Nat
  BY <1>2, FS_CardinalityType
<1> QED
  BY <1>3 DEF Numbers

-----------------------------------------------------------------------------
LEMMA InsSeen ==
  ASSUME NEW A, Host \notin A, Built(A), KeepsRules, Fits, NEW a \in Known
  PROVE  InSeen(a) = {<<e.call.inp, e.fifo>> : e \in Into(a)}
<1> USE DEF Built
<1> DEFINE S == {e.call.inp : e \in Into(a)}
           f == [e \in Into(a) |-> e.call.inp]
<1>1. Into(a) \subseteq edges /\ Small
  BY SmallFits DEF Into
<1>2. \A e \in Into(a) : /\ e.call.inp \in Nat /\ e.call.inp < MAXIN - 1
                         /\ word[a][e.call.inp] = e.fifo /\ e.fifo # NULL
  BY <1>1, EdgeIs, InputWord, SizesAre DEF Fits
<1>3. PICK m \in Nat : S = 0..(m - 1)
  <2>1. f \in [Into(a) -> Nat] /\ S = {f[e] : e \in Into(a)}
    BY <1>2
  <2>2. Numbers(S)
    BY DEF KeepsRules
  <2>3. IsFiniteSet(Into(a))
    BY <1>1, Finite
  <2> HIDE DEF f, S
  <2> QED
    BY <2>1, <2>2, <2>3, NoGap
<1>4. m \in 0..(MAXIN - 1)
  <2>1. CASE m = 0
    BY <2>1, SizesAre
  <2>2. CASE m # 0
    <3>1. m - 1 \in S
      BY <1>3, <2>2
    <3> QED
      BY <1>2, <3>1, SizesAre
  <2> QED
    BY <2>1, <2>2
<1>5. m \in Words
  BY <1>4, Places, SizesAre
<1>6. word[a][m] = NULL
  <2>1. m \notin S
    BY <1>3
  <2> QED
    BY <1>1, <1>4, <2>1 DEF InsAre, InPlace
<1>7. \A l \in 0..(m - 1) : word[a][l] # NULL
  BY <1>2, <1>3
<1>8. FirstNull(a, 0) = m
  BY <1>5, <1>6, <1>7, FirstNullIs
<1>9. InSeen(a) = {<<i, word[a][i]>> : i \in S}
  BY <1>3, <1>8 DEF InSeen
<1> HIDE DEF S
<1>10. InSeen(a) \subseteq {<<e.call.inp, e.fifo>> : e \in Into(a)}
  BY <1>2, <1>9 DEF S
<1>11. {<<e.call.inp, e.fifo>> : e \in Into(a)} \subseteq InSeen(a)
  BY <1>2, <1>9 DEF S
<1> QED
  BY <1>10, <1>11

(* One result's consumers. *)
LEMMA RowSeenIs ==
  ASSUME NEW A, Host \notin A, Built(A), Fits, NEW a \in Known,
         NEW r \in 0..(MAXRES - 1), InRow(a, r)
  PROVE  /\ Slot(a, r, 0) # NULL <=> Row(a, r) # {}
         /\ Row(a, r) # {} =>
              {word[a][k] : k \in OutIndex(r, 0)..(FirstNull(a, OutIndex(r, 0)) - 1)}
                = {e.fifo : e \in Row(a, r)}
<1> DEFINE u == Used(a, r)
<1>1. Row(a, r) \subseteq edges /\ Row(a, r) \subseteq OutOf(a)
  BY DEF Row, OutOf
<1>2. IsFiniteSet(Row(a, r)) /\ Cardinality(Row(a, r)) \in Nat
  BY <1>1, Finite DEF Built
<1>3. Cardinality(Row(a, r)) = 0 <=> Row(a, r) = {}
  BY <1>2, FS_EmptySet
<1>4. Cardinality(Row(a, r)) < MAXOUT
  <2>1. CASE Row(a, r) = {}
    BY <1>3, <2>1, SizesAre
  <2>2. ASSUME NEW e \in Row(a, r) PROVE Cardinality(Row(a, r)) < MAXOUT
    <3>1. e \in OutOf(a) /\ e.call.res = r
      BY <2>2 DEF Row
    <3> QED
      BY <3>1 DEF Fits
  <2> QED
    BY <2>1, <2>2
<1>5. u = Cardinality(Row(a, r)) /\ u \in 0..(MAXOUT - 1)
  BY <1>2, <1>4, SizesAre DEF Used
<1> HIDE DEF u
<1>6. /\ \A j \in 0..(MAXOUT - 1) : Slot(a, r, j) = NULL <=> u <= j
      /\ \A j \in 0..(u - 1) : \E e \in Row(a, r) : Slot(a, r, j) = e.fifo
      /\ \A e \in Row(a, r) : \E j \in 0..(u - 1) : Slot(a, r, j) = e.fifo
  BY <1>4, <1>5, SizesAre DEF InRow, u
<1>7. Slot(a, r, 0) # NULL <=> Row(a, r) # {}
  BY <1>3, <1>5, <1>6, SizesAre
<1> DEFINE b == OutIndex(r, 0)
<1>8. b \in Nat /\ \A j \in 0..(MAXOUT - 1) : OutIndex(r, j) = b + j /\ b + j \in Words
  BY Places, SizesAre
<1> HIDE DEF b
<1>9. FirstNull(a, b) = b + u
  <2>1. b + u \in Words /\ word[a][b + u] = NULL
    BY <1>5, <1>6, <1>8 DEF Slot
  <2>2. ASSUME NEW m \in b..((b + u) - 1) PROVE word[a][m] # NULL
    <3>1. m - b \in 0..(MAXOUT - 1) /\ ~(u <= m - b) /\ b + (m - b) = m
      BY <1>5, <1>8, SizesAre
    <3>2. Slot(a, r, m - b) # NULL
      BY <1>6, <3>1
    <3> QED
      BY <1>8, <3>1, <3>2 DEF Slot
  <2>3. b <= b + u
    BY <1>5, <1>8
  <2> QED
    BY <1>8, <2>1, <2>2, <2>3, FirstNullIs
<1>10. {word[a][k] : k \in b..((b + u) - 1)} = {Slot(a, r, j) : j \in 0..(u - 1)}
  <2>1. \A j \in 0..(u - 1) : b + j \in b..((b + u) - 1) /\ Slot(a, r, j) = word[a][b + j]
    BY <1>5, <1>8, SizesAre DEF Slot
  <2>2. \A k \in b..((b + u) - 1) : k - b \in 0..(u - 1) /\ Slot(a, r, k - b) = word[a][k]
    <3> TAKE k \in b..((b + u) - 1)
    <3>1. k - b \in 0..(u - 1) /\ b + (k - b) = k
      BY <1>5, <1>8
    <3> QED
      BY <2>1, <3>1
  <2> QED
    BY <2>1, <2>2
<1>11. {Slot(a, r, j) : j \in 0..(u - 1)} = {e.fifo : e \in Row(a, r)}
  BY <1>6
<1> QED
  BY <1>7, <1>9, <1>10, <1>11 DEF b

LEMMA OutsSeen ==
  ASSUME NEW A, Host \notin A, Built(A), KeepsRules, Fits, NEW a \in Known
  PROVE  OutSeen(a) = {<<e.call.res, e.fifo>> : e \in OutOf(a)}
<1>0. EdgesAre(A) /\ OutsAre
  BY DEF Built
<1> DEFINE S == {e.call.res : e \in OutOf(a)}
           f == [e \in OutOf(a) |-> e.call.res]
<1>1. OutOf(a) \subseteq edges /\ Small /\ IsFiniteSet(OutOf(a))
  BY <1>0, SmallFits, Finite DEF OutOf
<1>2. \A e \in OutOf(a) : e.call.res \in Nat /\ e.call.res < MAXRES - 1
  BY <1>0, <1>1, EdgeIs DEF Fits
<1>3. PICK m \in Nat : S = 0..(m - 1)
  <2>1. f \in [OutOf(a) -> Nat] /\ S = {f[e] : e \in OutOf(a)}
    BY <1>2
  <2>2. Numbers(S)
    BY DEF KeepsRules
  <2> HIDE DEF f, S
  <2> QED
    BY <1>1, <2>1, <2>2, NoGap
<1>31. \A r : r \in S <=> Row(a, r) # {}
  BY DEF Row
<1>32. \A r \in S : r \in Nat /\ r < MAXRES - 1
  BY <1>2
<1> HIDE DEF S
<1>4. m \in 0..(MAXRES - 1)
  <2>1. CASE m = 0
    BY <2>1, SizesAre
  <2>2. CASE m # 0
    <3>1. m - 1 \in S
      BY <1>3, <2>2
    <3> QED
      BY <1>32, <3>1, SizesAre
  <2> QED
    BY <2>1, <2>2
<1>5. Plain(a)
  <2> SUFFICES ASSUME NEW e \in OutOf(a), NEW g \in OutOf(a), e.call.op = "sink" PROVE e = g
    BY DEF Plain
  <2>1. e.call = Sink(a)
    BY <1>0, <1>1, EdgeIs DEF OutOf
  <2>2. Sink(a) \in Calls
    BY <1>1, <2>1 DEF Calls
  <2>3. Cardinality(OutOf(a)) = 1
    BY <2>2 DEF KeepsRules
  <2>4. PICK x : OutOf(a) = {x}
    BY <1>1, <2>3, FS_Singleton
  <2> QED
    BY <2>4
<1>6. \A r \in 0..(MAXRES - 1) : /\ InRow(a, r)
                                 /\ Slot(a, r, 0) # NULL <=> Row(a, r) # {}
                                 /\ Row(a, r) # {} <=> r \in S
  <2> TAKE r \in 0..(MAXRES - 1)
  <2>1. InRow(a, r)
    BY <1>0, <1>1, <1>5 DEF OutsAre
  <2>2. Slot(a, r, 0) # NULL <=> Row(a, r) # {}
    BY <2>1, RowSeenIs
  <2> QED
    BY <1>31, <2>1, <2>2
<1>7. \A r \in 0..MAXRES : RowSeen(a, r) <=> r \in S
  <2> TAKE r \in 0..MAXRES
  <2>1. ASSUME r \in S PROVE RowSeen(a, r)
    <3>1. \A q \in 0..r : q \in 0..(MAXRES - 1) /\ q \in S
      BY <1>3, <1>4, <2>1, SizesAre
    <3> QED
      BY <1>6, <3>1 DEF RowSeen, Slot, OutIndex
  <2>2. ASSUME r \notin S PROVE ~RowSeen(a, r)
    <3>1. m \in 0..r /\ m \notin S
      BY <1>3, <2>2
    <3> QED
      BY <1>4, <1>6, <3>1 DEF RowSeen, Slot, OutIndex
  <2> QED
    BY <2>1, <2>2
<1>8. {r \in 0..MAXRES : RowSeen(a, r)} = S
  BY <1>3, <1>4, <1>7, SizesAre
<1>9. OutSeen(a) = UNION {{<<r, word[a][k]>> :
                            k \in OutIndex(r, 0)..(FirstNull(a, OutIndex(r, 0)) - 1)} : r \in S}
  BY <1>8 DEF OutSeen
<1>10. ASSUME NEW r \in S
       PROVE  {<<r, word[a][k]>> : k \in OutIndex(r, 0)..(FirstNull(a, OutIndex(r, 0)) - 1)}
                = {<<e.call.res, e.fifo>> : e \in Row(a, r)}
  <2> DEFINE K == OutIndex(r, 0)..(FirstNull(a, OutIndex(r, 0)) - 1)
  <2>1. r \in 0..(MAXRES - 1)
    BY <1>10, <1>32, SizesAre
  <2>2. {word[a][k] : k \in K} = {e.fifo : e \in Row(a, r)}
    <3>1. InRow(a, r) /\ Row(a, r) # {}
      BY <1>6, <1>10, <2>1
    <3> QED
      BY <2>1, <3>1, RowSeenIs
  <2>3. \A e \in Row(a, r) : e.call.res = r
    BY DEF Row
  <2> HIDE DEF K
  <2>4. \A k \in K : \E e \in Row(a, r) : word[a][k] = e.fifo
    BY <2>2
  <2>5. \A e \in Row(a, r) : \E k \in K : word[a][k] = e.fifo
    BY <2>2
  <2>6. {<<r, word[a][k]>> : k \in K} = {<<e.call.res, e.fifo>> : e \in Row(a, r)}
    BY <2>3, <2>4, <2>5
  <2> QED
    BY <2>6 DEF K
<1>11. OutSeen(a) = UNION {{<<e.call.res, e.fifo>> : e \in Row(a, r)} : r \in S}
  BY <1>9, <1>10
<1>12. \A e \in OutOf(a) : e.call.res \in S /\ e \in Row(a, e.call.res)
  BY DEF Row, S
<1>13. \A r : Row(a, r) \subseteq OutOf(a)
  BY DEF Row
<1> QED
  BY <1>11, <1>12, <1>13

LEMMA GraphSeen ==
  ASSUME NEW A, Host \notin A, Built(A), KeepsRules, Fits
  PROVE  LoopsSeeGraph
BY InsSeen, OutsSeen DEF LoopsSeeGraph

-----------------------------------------------------------------------------
(* What module Scheduler assumes. *)
LEMMA EachSeen ==
  ASSUME NEW A, Host \notin A, Built(A), KeepsRules, Fits, NEW a \in Known
  PROVE  (\E f \in Fifos : <<0, f>> \in InSeen(a)) /\ OutSeen(a) # {}
<1> DEFINE S == {e.call.inp : e \in Into(a)}
           g == [e \in Into(a) |-> e.call.inp]
<1>1. EdgesAre(A) /\ Into(a) \subseteq edges
  BY DEF Built, Into
<1>2. PICK m \in Nat : S = 0..(m - 1)
  <2>1. g \in [Into(a) -> Nat] /\ S = {g[e] : e \in Into(a)}
    BY <1>1, EdgeIs
  <2>2. Numbers(S) /\ IsFiniteSet(Into(a))
    BY <1>1, Finite DEF KeepsRules
  <2> HIDE DEF g, S
  <2> QED
    BY <2>1, <2>2, NoGap
<1>3. S # {}
  BY DEF KeepsRules
<1>4. 0 \in S
  <2> HIDE DEF S
  <2> QED
    BY <1>2, <1>3
<1>5. PICK e \in Into(a) : e.call.inp = 0
  BY <1>4
<1>6. <<0, e.fifo>> \in InSeen(a) /\ e.fifo \in Fifos
  BY <1>1, <1>5, InsSeen, EdgeIs
<1>7. OutSeen(a) # {}
  <2>1. PICK o \in OutOf(a) : TRUE
    BY DEF KeepsRules
  <2>2. <<o.call.res, o.fifo>> \in OutSeen(a)
    BY <2>1, OutsSeen
  <2> QED
    BY <2>2
<1> QED
  BY <1>6, <1>7

LEMMA OneEnd ==
  ASSUME NEW S, NEW T, NEW x, (S = {x} /\ T = {}) \/ (S = {} /\ T = {x})
  PROVE  Cardinality(S) + Cardinality(T) = 1
BY FS_Singleton, FS_EmptySet

LEMMA EndsSeen ==
  ASSUME NEW A, Host \notin A, Built(A), KeepsRules, Fits, NEW f \in Fifos
  PROVE  /\ Cardinality({p \in Known \X (0..(MAXIN - 1)) : <<p[2], f>> \in InSeen(p[1])})
              + Cardinality({a \in Known : [call |-> Sink(a), fifo |-> f] \in edges}) = 1
         /\ Cardinality({p \in Known \X (0..(MAXRES - 1)) : <<p[2], f>> \in OutSeen(p[1])})
              + Cardinality({a \in Known : [call |-> Root(a), fifo |-> f] \in edges}) = 1
<1> DEFINE In    == {p \in Known \X (0..(MAXIN - 1)) : <<p[2], f>> \in InSeen(p[1])}
           Out   == {p \in Known \X (0..(MAXRES - 1)) : <<p[2], f>> \in OutSeen(p[1])}
           Sinks == {a \in Known : [call |-> Sink(a), fifo |-> f] \in edges}
           Roots == {a \in Known : [call |-> Root(a), fifo |-> f] \in edges}
<1>1. EdgesAre(A) /\ Small
  BY SmallFits DEF Built
<1>2. PICK e \in edges : e.fifo = f
  BY <1>1 DEF EdgesAre
<1>3. \A d \in edges : d.fifo = f <=> d = e
  BY <1>1, <1>2 DEF EdgesAre
<1>4. /\ e = [call |-> e.call, fifo |-> f]
      /\ e.call.res \in Nat /\ e.call.inp \in Nat
      /\ e.call.src \in Known \cup {Host} /\ e.call.snk \in Known \cup {Host}
      /\ e.call.src = Host <=> e.call.op = "root"
      /\ e.call.snk = Host <=> e.call.op = "sink"
      /\ e.call.op = "root" => e.call = Root(e.call.snk)
      /\ e.call.op = "sink" => e.call = Sink(e.call.src)
  BY <1>1, <1>2, EdgeIs
<1>5. Host \notin Known
  BY <1>1 DEF EdgesAre
<1>6. \A a, i : a \in Known => (<<i, f>> \in InSeen(a) <=> a = e.call.snk /\ i = e.call.inp)
  <2> TAKE a, i
  <2> HAVE a \in Known
  <2>1. <<i, f>> \in InSeen(a) <=> \E d \in Into(a) : i = d.call.inp /\ f = d.fifo
    BY InsSeen
  <2> QED
    BY <1>2, <1>3, <2>1 DEF Into
<1>7. \A a, r : a \in Known => (<<r, f>> \in OutSeen(a) <=> a = e.call.src /\ r = e.call.res)
  <2> TAKE a, r
  <2> HAVE a \in Known
  <2>1. <<r, f>> \in OutSeen(a) <=> \E d \in OutOf(a) : r = d.call.res /\ f = d.fifo
    BY OutsSeen
  <2> QED
    BY <1>2, <1>3, <2>1 DEF OutOf
<1>8. \A a : [call |-> Sink(a), fifo |-> f] \in edges <=> e.call = Sink(a)
  BY <1>3, <1>4
<1>9. \A a : [call |-> Root(a), fifo |-> f] \in edges <=> e.call = Root(a)
  BY <1>3, <1>4
<1>10. /\ \A a : Sink(a).op = "sink" /\ Sink(a).src = a /\ Sink(a).snk = Host
       /\ \A a : Root(a).op = "root" /\ Root(a).snk = a /\ Root(a).src = Host
  BY DEF Sink, Root
<1>11. Cardinality(In) + Cardinality(Sinks) = 1
  <2>1. CASE e.call.snk = Host
    <3>1. Sinks = {e.call.src}
      BY <1>4, <1>5, <1>8, <1>10, <2>1
    <3>2. In = {}
      BY <1>5, <1>6, <2>1
    <3> HIDE DEF In, Sinks
    <3> QED
      BY <3>1, <3>2, OneEnd
  <2>2. CASE e.call.snk # Host
    <3>1. Sinks = {}
      BY <1>8, <1>10, <2>2
    <3>2. e.call.snk \in Known /\ e.call.inp \in 0..(MAXIN - 1)
      BY <1>1, <1>4, <2>2, SizesAre DEF Small
    <3>3. \A p \in Known \X (0..(MAXIN - 1)) : p \in In <=> p = <<e.call.snk, e.call.inp>>
      BY <1>6
    <3>4. In = {<<e.call.snk, e.call.inp>>}
      BY <3>2, <3>3
    <3> HIDE DEF In, Sinks
    <3> QED
      BY <3>1, <3>4, OneEnd
  <2> QED
    BY <2>1, <2>2
<1>12. Cardinality(Out) + Cardinality(Roots) = 1
  <2>1. CASE e.call.src = Host
    <3>1. Roots = {e.call.snk}
      BY <1>4, <1>5, <1>9, <1>10, <2>1
    <3>2. Out = {}
      BY <1>5, <1>7, <2>1
    <3> HIDE DEF Out, Roots
    <3> QED
      BY <3>1, <3>2, OneEnd
  <2>2. CASE e.call.src # Host
    <3>1. Roots = {}
      BY <1>9, <1>10, <2>2
    <3>2. e.call.src \in Known /\ e.call.res \in 0..(MAXRES - 1)
      <4>1. e.call.src \in Known /\ e \in OutOf(e.call.src)
        BY <1>4, <2>2 DEF OutOf
      <4> QED
        BY <1>4, <4>1, SizesAre DEF Fits
    <3>3. \A p \in Known \X (0..(MAXRES - 1)) : p \in Out <=> p = <<e.call.src, e.call.res>>
      BY <1>7
    <3>4. Out = {<<e.call.src, e.call.res>>}
      BY <3>2, <3>3
    <3> HIDE DEF Out, Roots
    <3> QED
      BY <3>1, <3>4, OneEnd
  <2> QED
    BY <2>1, <2>2
<1> QED
  BY <1>11, <1>12

LEMMA GraphFit ==
  ASSUME NEW A, Host \notin A, GraphInv(A), KeepsRules, Fits
  PROVE  SchedulerAssumption
<1> SUFFICES ASSUME pc = "launched" PROVE SchedulerAssumption
  BY DEF SchedulerAssumption
<1>1. TypeOK
  BY DEF TypeOK, GraphInv, Built, EdgesAre, WordsType, PlanIs, Fifos
<1>2. PacketsAtRoot
  <2>1. Small
    BY SmallFits DEF GraphInv, Built
  <2>2. Held = IF NUM_PACKET < MAX_BUFFER THEN NUM_PACKET ELSE MAX_BUFFER
    BY DEF GraphInv, PlanIs, Held
  <2> QED
    BY <2>1, <2>2 DEF GraphInv, PacketsAre, PacketsAtRoot
<1>3. Built(A) /\ Fifos = 1..Len(size)
  BY DEF GraphInv, Fifos
<1> QED
  BY <1>1, <1>2, <1>3, EachSeen, EndsSeen DEF SchedulerAssumption

-----------------------------------------------------------------------------
(* Whatever calls are made, in whatever order: the loops of the scheduler  *)
(* see the graph that was declared, if it keeps to the rules of dag.c and  *)
(* every array has a place to spare (src/fire_check.c, include/actor.h).   *)
THEOREM LoopsAlwaysSee ==
  ASSUME ProperCalls PROVE Spec => [](KeepsRules /\ Fits => LoopsSeeGraph)
<1>1. PICK A : Host \notin A /\ FreeActors \subseteq A /\ Programs \subseteq Seq(CallsOf(A))
  BY DEF ProperCalls
<1>2. GraphInv(A) => (KeepsRules /\ Fits => LoopsSeeGraph)
  BY <1>1, GraphSeen DEF GraphInv
<1>3. Spec => []GraphInv(A)
  BY <1>1, GraphInvariant
<1> QED
  BY <1>2, <1>3, PTL

(* And such a graph is one that module Scheduler is about: every fifo has  *)
(* one producer and one consumer, and the packets wait at the root alone   *)
(* (edge_make, DAG_depict).                                                *)
THEOREM GraphAlwaysFits ==
  ASSUME ProperCalls PROVE Spec => [](KeepsRules /\ Fits => SchedulerAssumption)
<1>1. PICK A : Host \notin A /\ FreeActors \subseteq A /\ Programs \subseteq Seq(CallsOf(A))
  BY DEF ProperCalls
<1>2. GraphInv(A) => (KeepsRules /\ Fits => SchedulerAssumption)
  BY <1>1, GraphFit
<1>3. Spec => []GraphInv(A)
  BY <1>1, GraphInvariant
<1> QED
  BY <1>2, <1>3, PTL
=============================================================================
