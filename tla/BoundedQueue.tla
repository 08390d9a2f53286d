---------------------------- MODULE BoundedQueue ----------------------------
(***************************************************************************)
(* What a token fifo promises to the actors on both of its ends            *)
(* (include/task.h: "to differentiate fifo-full and fifo-empty"): tokens   *)
(* leave in the order in which they entered, each exactly once, and a put  *)
(* on a full fifo is refused and changes nothing.                          *)
(***************************************************************************)
EXTENDS Naturals, Sequences

CONSTANTS Tokens,     \* the token pointers that may be stored
          Capacity    \* how many of them fit

VARIABLE contents     \* the tokens inside, oldest first

Init == contents = <<>>

Put(t) == /\ Len(contents) < Capacity
          /\ contents' = Append(contents, t)

Get == /\ contents # <<>>
       /\ contents' = Tail(contents)

Next == Get \/ \E t \in Tokens : Put(t)

Spec == Init /\ [][Next]_contents
=============================================================================
