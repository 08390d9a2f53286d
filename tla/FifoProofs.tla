----------------------------- MODULE FifoProofs -----------------------------
(***************************************************************************)
(* Theorems about Fifo, for every set of tokens, any number of puts and    *)
(* every ring of which the byte of fifo_size does not mistake the size.    *)
(***************************************************************************)
EXTENDS Fifo, SequenceTheorems, TLAPS

(* On a longer ring the byte of a wrapped ring can be MAX_BUFFER although  *)
(* there is room: include/task.h has MAX_BUFFER = 8.                       *)
SmallRing == 2 * MAX_BUFFER < BYTE

(* (i + 1) % MAXFIFO without the division. *)
LEMMA Next1Wraps ==
  ASSUME NEW i \in 0..MAX_BUFFER
  PROVE  Next1(i) = IF i = MAX_BUFFER THEN 0 ELSE i + 1
  BY FifoAssumption DEF Next1, MAXFIFO

(* The byte of fifo_size: exact unless the ring has wrapped. *)
LEMMA SizeIsByte ==
  ASSUME wptr \in 0..MAX_BUFFER, rptr \in 0..MAX_BUFFER
  PROVE  fifo_size = IF rptr <= wptr THEN wptr - rptr ELSE wptr - rptr + BYTE
  BY FifoAssumption DEF fifo_size, BYTE, MAXFIFO

(* Every index, slot and counter keeps its type. *)
THEOREM TypeCorrect == Spec => []TypeOK
<1>1. init_fifo => TypeOK
  BY FifoAssumption DEF init_fifo, TypeOK
<1>2. TypeOK /\ [Next]_vars => TypeOK'
  <2> SUFFICES ASSUME TypeOK, [Next]_vars PROVE TypeOK'
    OBVIOUS
  <2>1. ASSUME NEW t \in Tokens, put_token(t) PROVE TypeOK'
    BY <2>1, FifoAssumption, Next1Wraps DEF put_token, Accept, Refuse, TypeOK
  <2>2. CASE get_token
    BY <2>2, FifoAssumption, Next1Wraps DEF get_token, TypeOK
  <2>3. CASE UNCHANGED vars
    BY <2>3 DEF vars, TypeOK
  <2> QED
    BY <2>1, <2>2, <2>3 DEF Next
<1> QED
  BY <1>1, <1>2, PTL DEF Spec

(* What put_token takes for full: the full rings that have not wrapped.    *)
LEMMA FullIsUnwrapped ==
  ASSUME TypeOK, SmallRing
  PROVE  fifo_full <=> rptr <= wptr /\ Occupancy = MAX_BUFFER
  BY FifoAssumption, SizeIsByte
  DEF SmallRing, TypeOK, fifo_full, Occupancy, MAXFIFO, BYTE

-----------------------------------------------------------------------------
(* The refinement. *)

Slot(r, i) == IF r + i <= MAXFIFO THEN r + i - 1 ELSE r + i - 1 - MAXFIFO

LEMMA SlotIsIndex ==
  ASSUME NEW r \in 0..MAX_BUFFER, NEW i \in 1..MAX_BUFFER
  PROVE  Slot(r, i) \in 0..MAX_BUFFER
BY FifoAssumption DEF MAXFIFO, Slot

LEMMA SlotShift ==
  ASSUME NEW r \in 0..MAX_BUFFER, NEW i \in 1..MAX_BUFFER, i < MAX_BUFFER
  PROVE  Slot(IF r = MAX_BUFFER THEN 0 ELSE r + 1, i) = Slot(r, i + 1)
BY FifoAssumption DEF MAXFIFO, Slot

LEMMA ContentsIsSeq ==
  ASSUME TypeOK
  PROVE  /\ Occupancy \in 0..MAX_BUFFER
         /\ Contents \in Seq(Tokens \cup {NoToken})
         /\ Len(Contents) = Occupancy
<1>1. Occupancy \in 0..MAX_BUFFER
  BY FifoAssumption DEF TypeOK, Occupancy, MAXFIFO
<1>2. Contents = [i \in 1..Occupancy |-> token[Slot(rptr, i)]]
  BY DEF Contents, Slot
<1>3. \A i \in 1..Occupancy : Slot(rptr, i) \in 0..MAX_BUFFER
  BY <1>1, FifoAssumption, SlotIsIndex DEF TypeOK
<1>4. Contents \in [1..Occupancy -> Tokens \cup {NoToken}]
  BY <1>2, <1>3 DEF TypeOK
<1> QED
  BY <1>1, <1>4

(* A put with room stores the token behind all others, on every lap.       *)
LEMMA PutAppends ==
  ASSUME TypeOK, TypeOK', SmallRing, NEW t \in Tokens, put_token(t),
         Occupancy < MAX_BUFFER
  PROVE  Queue!Put(t)
<1> USE FifoAssumption
<1>1. Accept(t) /\ rptr' = rptr
  BY FullIsUnwrapped DEF put_token, Refuse
<1>2. Occupancy' = Occupancy + 1
  BY <1>1, Next1Wraps DEF Accept, TypeOK, Occupancy, MAXFIFO
<1>3. Contents' \in Seq(Tokens \cup {NoToken}) /\ Len(Contents') = Occupancy + 1
  <2>1. Occupancy + 1 \in 1..MAX_BUFFER
    BY ContentsIsSeq
  <2>2. Contents' = [i \in 1..(Occupancy + 1) |-> token'[Slot(rptr, i)]]
    BY <1>1, <1>2 DEF Contents, Slot
  <2>3. \A i \in 1..(Occupancy + 1) : Slot(rptr, i) \in 0..MAX_BUFFER
    <3>1. \A i \in 1..(Occupancy + 1) : i \in 1..MAX_BUFFER
      BY <2>1
    <3> QED
      BY <3>1, SlotIsIndex DEF TypeOK
  <2>4. Contents' \in [1..(Occupancy + 1) -> Tokens \cup {NoToken}]
    BY <2>2, <2>3 DEF TypeOK
  <2> QED
    BY <2>1, <2>4
<1>4. ASSUME NEW i \in 1..(Occupancy + 1)
      PROVE  Contents'[i] = IF i <= Occupancy THEN Contents[i] ELSE t
  <2>1. Occupancy \in 0..MAX_BUFFER /\ i \in 1..MAX_BUFFER
    BY ContentsIsSeq
  <2>2. Contents'[i] = token'[Slot(rptr, i)]
    BY <1>1, <1>2 DEF Contents, Slot
  <2>3. token' = [token EXCEPT ![wptr] = t] /\ Slot(rptr, i) \in 0..MAX_BUFFER
    BY <1>1, <2>1, SlotIsIndex DEF Accept, TypeOK
  <2>4. Slot(rptr, i) = wptr <=> i = Occupancy + 1
    BY <2>1 DEF TypeOK, Slot, Occupancy, MAXFIFO
  <2>5. i <= Occupancy => Contents[i] = token[Slot(rptr, i)]
    BY <2>1 DEF Contents, Slot
  <2> QED
    BY <2>1, <2>2, <2>3, <2>4, <2>5 DEF TypeOK
<1>5. Contents' = Append(Contents, t)
  <2>1. Len(Append(Contents, t)) = Occupancy + 1
        /\ Append(Contents, t) \in Seq(Tokens \cup {NoToken})
    BY ContentsIsSeq
  <2>2. \A i \in 1..(Occupancy + 1) : Contents'[i] = Append(Contents, t)[i]
    BY <1>4, ContentsIsSeq
  <2> QED
    BY <1>3, <2>1, <2>2, SeqEqual
<1> QED
  BY <1>5, ContentsIsSeq DEF Queue!Put

(* A put on a full ring: refused on the first lap, else all is lost.       *)
LEMMA PutOnFull ==
  ASSUME TypeOK, SmallRing, NEW t \in Tokens, put_token(t),
         Occupancy = MAX_BUFFER
  PROVE  Contents' = IF wptr < rptr THEN <<>> ELSE Contents
<1> USE FifoAssumption
<1>1. CASE wptr < rptr
  <2>1. Accept(t) /\ rptr' = rptr
    BY <1>1, FullIsUnwrapped DEF put_token, Refuse, TypeOK
  <2>2. Occupancy' = 0
    BY <1>1, <2>1, Next1Wraps DEF Accept, TypeOK, Occupancy, MAXFIFO
  <2> QED
    BY <1>1, <2>2 DEF Contents
<1>2. CASE ~(wptr < rptr)
  <2>1. UNCHANGED <<token, wptr, rptr>>
    BY <1>2, FullIsUnwrapped DEF put_token, Accept, Refuse, TypeOK
  <2> QED
    BY <1>2, <2>1 DEF Contents, Occupancy
<1> QED
  BY <1>1, <1>2

(* A get takes the first token, on every lap.                              *)
LEMMA GetTakesFirst ==
  ASSUME TypeOK, get_token
  PROVE  Queue!Get
<1> USE FifoAssumption
<1>1. /\ Occupancy > 0
      /\ Occupancy' = Occupancy - 1
  BY Next1Wraps DEF get_token, TypeOK, fifo_empty, Occupancy, MAXFIFO
<1>2. Contents # <<>>
  BY <1>1, ContentsIsSeq
<1>3. Contents' = Tail(Contents)
  <2>1. /\ Tail(Contents) \in Seq(Tokens \cup {NoToken})
        /\ Len(Tail(Contents)) = Occupancy - 1
        /\ \A i \in 1..(Occupancy - 1) : Tail(Contents)[i] = Contents[i + 1]
    BY <1>2, ContentsIsSeq, HeadTailProperties
  <2>2. /\ token' = token
        /\ rptr' = IF rptr = MAX_BUFFER THEN 0 ELSE rptr + 1
        /\ rptr' \in 0..MAX_BUFFER
    BY Next1Wraps DEF get_token, TypeOK
  <2>3. Contents' = [i \in 1..(Occupancy - 1) |-> token[Slot(rptr', i)]]
    BY <1>1, <2>2 DEF Contents, Slot
  <2>4. Occupancy \in 0..MAX_BUFFER /\ MAX_BUFFER \in Nat
    BY ContentsIsSeq
  <2>5. ASSUME NEW i \in 1..(Occupancy - 1)
        PROVE  /\ i \in 1..MAX_BUFFER /\ i < MAX_BUFFER
               /\ i + 1 \in 1..Occupancy
               /\ Slot(rptr', i) = Slot(rptr, i + 1)
    <3>1. i \in 1..MAX_BUFFER /\ i < MAX_BUFFER /\ i + 1 \in 1..Occupancy
      BY <2>4
    <3> QED
      BY <2>2, <3>1, SlotShift DEF TypeOK
  <2>6. /\ Contents' \in Seq(Tokens \cup {NoToken})
        /\ Len(Contents') = Occupancy - 1
    <3>1. \A i \in 1..(Occupancy - 1) : Slot(rptr', i) \in 0..MAX_BUFFER
      BY <2>2, <2>5, SlotIsIndex
    <3>2. Contents' \in [1..(Occupancy - 1) -> Tokens \cup {NoToken}]
      BY <2>3, <3>1 DEF TypeOK
    <3> QED
      BY <1>1, <2>4, <3>2
  <2>7. ASSUME NEW i \in 1..(Occupancy - 1)
        PROVE  Contents'[i] = Contents[i + 1]
    BY <2>3, <2>5 DEF Contents, Slot
  <2> QED
    BY <2>1, <2>6, <2>7, SeqEqual
<1> QED
  BY <1>2, <1>3 DEF Queue!Get

(* Every put and get of a ring does what the property says, for any number *)
(* of puts: nothing is lost before a put meets a full ring that has        *)
(* wrapped (src/fifo.c).                                                   *)
THEOREM LossOnlyByOverrun == ASSUME SmallRing PROVE Spec => OnlyOverrunLoses
<1>1. TypeOK /\ TypeOK' /\ [Next]_vars
        => [/\ puts' = puts => Queue!Get
            /\ puts' # puts =>
                 IF Occupancy < MAX_BUFFER THEN \E t \in Tokens : Queue!Put(t)
                 ELSE Contents' = IF wptr < rptr THEN <<>> ELSE Contents]_vars
  <2> SUFFICES ASSUME TypeOK, TypeOK', Next
               PROVE  /\ puts' = puts => Queue!Get
                      /\ puts' # puts =>
                           IF Occupancy < MAX_BUFFER
                           THEN \E t \in Tokens : Queue!Put(t)
                           ELSE Contents' = IF wptr < rptr THEN <<>> ELSE Contents
    OBVIOUS
  <2>1. ASSUME NEW t \in Tokens, put_token(t)
        PROVE  /\ puts' # puts
               /\ IF Occupancy < MAX_BUFFER THEN Queue!Put(t)
                  ELSE Contents' = IF wptr < rptr THEN <<>> ELSE Contents
    BY <2>1, PutAppends, PutOnFull, ContentsIsSeq, FifoAssumption DEF put_token, TypeOK
  <2>2. CASE get_token
    BY <2>2, GetTakesFirst DEF get_token
  <2> QED
    BY <2>1, <2>2 DEF Next
<1> QED
  BY <1>1, TypeCorrect, PTL DEF Spec, OnlyOverrunLoses

(* For careful callers the fifo is a bounded queue: every step puts one    *)
(* token at the end, takes the first one, or changes nothing.              *)
THEOREM Implements == ASSUME SmallRing PROVE CarefulSpec => ImplementsQueue
<1>1. init_fifo => Queue!Init
  BY DEF init_fifo, Queue!Init, Contents, Occupancy
<1>2. TypeOK /\ TypeOK' /\ [CarefulNext]_vars => [Queue!Next]_Contents
  <2> SUFFICES ASSUME TypeOK, TypeOK', [CarefulNext]_vars PROVE [Queue!Next]_Contents
    OBVIOUS
  <2>1. ASSUME NEW t \in Tokens, put_token(t), CarefulNext
        PROVE  [Queue!Next]_Contents
    <3>1. CASE Occupancy < MAX_BUFFER
      BY <2>1, <3>1, PutAppends DEF Queue!Next
    <3>2. CASE ~(Occupancy < MAX_BUFFER)
      <4>1. Occupancy = MAX_BUFFER /\ puts' # puts
        BY <2>1, <3>2, ContentsIsSeq, FifoAssumption DEF put_token, TypeOK
      <4>2. ~(wptr < rptr)
        BY <2>1, <4>1 DEF CarefulNext
      <4> QED
        BY <2>1, <4>1, <4>2, PutOnFull
    <3> QED
      BY <3>1, <3>2
  <2>2. CASE get_token
    BY <2>2, GetTakesFirst DEF Queue!Next
  <2>3. CASE UNCHANGED vars
    BY <2>3 DEF vars, Contents, Occupancy
  <2> QED
    BY <2>1, <2>2, <2>3 DEF CarefulNext, Next
<1>3. CarefulSpec => Spec
  BY PTL DEF CarefulSpec, Spec, CarefulNext
<1> QED
  BY <1>1, <1>2, <1>3, TypeCorrect, PTL DEF CarefulSpec, ImplementsQueue, Queue!Spec
=============================================================================
