------------------------------ MODULE Dataflow ------------------------------
(***************************************************************************)
(* What the scheduler promises to whoever describes a graph with the API   *)
(* of src/actor_create.c: every actor processes every packet exactly once, *)
(* in the order in which the packets were put in, and only after all its   *)
(* predecessors have processed it.  Blocks, DMA channels and interrupts do *)
(* not appear.                                                             *)
(***************************************************************************)
EXTENDS Naturals, Sequences

CONSTANTS Actors,     \* the tasks of the graph
          Precedes,   \* <<a, b>>: a result of a is an input of b
          Packets     \* how many packets the root has been given

VARIABLE done         \* the packets each actor has processed, in order

Init == done = [a \in Actors |-> <<>>]

Process(a) ==
  LET n == Len(done[a]) + 1 IN
  /\ n <= Packets
  /\ \A p \in Actors : <<p, a>> \in Precedes => Len(done[p]) >= n
  /\ done' = [done EXCEPT ![a] = Append(@, n)]

Next == \E a \in Actors : Process(a)

Spec == Init /\ [][Next]_done
=============================================================================
