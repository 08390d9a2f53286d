---------------------------- MODULE MCScheduler ----------------------------
(* Scheduler on the graphs of src/dag.c and on smaller ones. *)
EXTENDS SchedulerProperties

CONSTANTS A, B, C, D, E     \* actors, named as in src/dag.c
CONSTANTS b1, b2, b3        \* blocks

edge(s, r, k, i) == [src |-> s, res |-> r, snk |-> k, inp |-> i]

(* One actor, fed by the host: its firings overlap on several blocks. *)
OneActors == {A}
OneOrder  == <<A>>
OneEdges  == {edge(Host, 0, A, 0), edge(A, 0, Host, 0)}

(* basic_DAG_demo_2 *)
Demo2Actors == {A, B, C, D, E}
Demo2Order  == <<A, B, C, D, E>>
Demo2Edges  ==
  { edge(Host, 0, A, 0),
    edge(A, 0, B, 0), edge(A, 3, B, 1),
    edge(A, 0, C, 0), edge(A, 1, C, 1), edge(A, 2, C, 2),
    edge(A, 3, D, 0),
    edge(B, 0, E, 0), edge(C, 0, E, 1), edge(D, 0, E, 2),
    edge(E, 0, Host, 0) }

(* Two actors in a row, with a result that two inputs of B share. *)
PairActors == {A, B}
PairOrder  == <<A, B>>
PairEdges  ==
  { edge(Host, 0, A, 0),
    edge(A, 0, B, 0), edge(A, 0, B, 1), edge(A, 1, B, 2),
    edge(B, 0, Host, 0) }

(* The second result of A goes straight to C, the first one through B.      *)
(* With RATEMATCH_NUM = 1 the input of C that comes from A is a pseudo      *)
(* token, and C is skipped.                                                *)
SkipActors == {A, B, C, D}
SkipOrder  == <<A, B, C, D>>
SkipEdges  ==
  { edge(Host, 0, A, 0),
    edge(A, 0, B, 0), edge(A, 1, C, 0), edge(B, 0, C, 1),
    edge(C, 0, D, 0),
    edge(D, 0, Host, 0) }
=============================================================================
