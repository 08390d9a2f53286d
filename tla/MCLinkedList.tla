---------------------------- MODULE MCLinkedList ----------------------------
(* Nodes are interchangeable: malloc may return any free one. *)
EXTENDS LinkedList, TLC

CONSTANTS n1, n2, n3, n4, n5, n6
NodeSymmetry == Permutations(Nodes)
=============================================================================
