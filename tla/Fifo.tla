-------------------------------- MODULE Fifo --------------------------------
(***************************************************************************)
(* The ring buffer between two actors: fifo_t of include/fifo.h and its    *)
(* operations in src/fifo.c.  Indices and the size are uint8_t.            *)
(*                                                                         *)
(* The size of a wrapped ring (wptr < rptr) is computed modulo 256, not    *)
(* modulo MAXFIFO: the correction under `if (size < 0)` is dead code       *)
(* because size is unsigned.  A wrapped ring is therefore never recognised *)
(* as full, and a put on it makes wptr catch up with rptr.                 *)
(***************************************************************************)
EXTENDS Integers, Sequences

CONSTANTS Tokens,       \* token pointers
          NoToken,      \* the content of a slot never written
          MAX_BUFFER,   \* how many tokens a fifo is meant to hold
          MaxPuts       \* bound: calls of put_token in one execution

BYTE == 256             \* values of a uint8_t
MAXFIFO == MAX_BUFFER + 1

ASSUME FifoAssumption == /\ MAX_BUFFER \in Nat \ {0}
                         /\ MAXFIFO < BYTE
                         /\ MaxPuts \in Nat
                         /\ NoToken \notin Tokens

VARIABLES token,        \* the array of pointers
          wptr, rptr,   \* the next slot to write, the next slot to read
          puts          \* calls of put_token so far (bounds the model)

vars == <<token, wptr, rptr, puts>>

(* A definition X_w is X with the mistake w: the runs must tell them apart. *)
Next1_noWrap(i) == i + 1
Next1(i) == (i + 1) % MAXFIFO

fifo_size  == (wptr - rptr) % BYTE
fifo_full_late == fifo_size = MAXFIFO
fifo_full  == fifo_size = MAXFIFO - 1
fifo_empty == wptr = rptr

(* The heap is not cleared, but QEMU's memory is zero: both indices are 0. *)
init_fifo == /\ token = [i \in 0..MAX_BUFFER |-> NoToken]
             /\ wptr = 0
             /\ rptr = 0
             /\ puts = 0

Accept(t) == /\ ~fifo_full
             /\ token' = [token EXCEPT ![wptr] = t]
             /\ wptr' = Next1(wptr)

(* "Fifo is full! ... write failed": the caller is not told. *)
Refuse == /\ fifo_full
          /\ UNCHANGED <<token, wptr>>

put_token(t) == /\ puts < MaxPuts
                /\ puts' = puts + 1
                /\ Accept(t) \/ Refuse
                /\ UNCHANGED rptr

get_token == /\ ~fifo_empty
             /\ rptr' = Next1(rptr)
             /\ UNCHANGED <<token, wptr, puts>>

Next == get_token \/ \E t \in Tokens : put_token(t)

Spec == init_fifo /\ [][Next]_vars

-----------------------------------------------------------------------------
(* The tokens between the two indices, read the way get_token reads them. *)
Occupancy == IF rptr <= wptr THEN wptr - rptr ELSE wptr + MAXFIFO - rptr

Contents == [i \in 1..Occupancy |->
               token[IF rptr + i <= MAXFIFO THEN rptr + i - 1
                                            ELSE rptr + i - 1 - MAXFIFO]]

TypeOK == /\ token \in [0..MAX_BUFFER -> Tokens \cup {NoToken}]
          /\ wptr \in 0..MAX_BUFFER
          /\ rptr \in 0..MAX_BUFFER
          /\ puts \in 0..MaxPuts

Queue == INSTANCE BoundedQueue WITH Capacity <- MAX_BUFFER, contents <- Contents

(* The one way in which a ring loses tokens, after any number of puts: a   *)
(* put with room is appended and a get takes the oldest token, however     *)
(* often the indices have wrapped; a full ring refuses a put if it has not *)
(* wrapped, and if it has, put_token makes wptr catch up with rptr and     *)
(* everything in the ring is gone (src/fifo.c, put_token and fifo_size).   *)
OnlyOverrunLoses ==
  [][/\ puts' = puts => Queue!Get
     /\ puts' # puts =>
          IF Occupancy < MAX_BUFFER THEN \E t \in Tokens : Queue!Put(t)
          ELSE Contents' = IF wptr < rptr THEN <<>> ELSE Contents]_vars

(* Callers that never put a token into a full ring that has wrapped.  The  *)
(* scheduler is one: a fifo gets at most NUM_PACKET <= MAX_BUFFER tokens.  *)
CarefulNext == /\ Next
               /\ puts' # puts => ~(Occupancy = MAX_BUFFER /\ wptr < rptr)

CarefulSpec == init_fifo /\ [][CarefulNext]_vars

(* For careful callers the ring is the bounded queue its comments describe *)
(* for any number of puts: no token is lost, duplicated or reordered       *)
(* (src/fifo.c, put_token and get_token).                                  *)
ImplementsQueue == Queue!Spec
=============================================================================
