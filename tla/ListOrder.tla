----------------------------- MODULE ListOrder -----------------------------
(***************************************************************************)
(* What the lists of src/linked_list.c promise their users: a list is a    *)
(* sequence of entries in the order of their insertion.  An entry joins    *)
(* behind the newest one, any entry may leave, and neither changes the     *)
(* order of the others.  An entry is in one list at a time.                *)
(***************************************************************************)
EXTENDS SequencesExt

CONSTANTS Lists, Nodes

VARIABLE order   \* of each list, oldest entry first

Init == order = [l \in Lists |-> <<>>]

Join(l, n) == /\ \A k \in Lists : n \notin ToSet(order[k])
              /\ order' = [order EXCEPT ![l] = Append(@, n)]

Leave(l, i) == order' = [order EXCEPT ![l] = RemoveAt(@, i)]

Next == \E l \in Lists : \/ \E n \in Nodes : Join(l, n)
                         \/ \E i \in DOMAIN order[l] : Leave(l, i)

Spec == Init /\ [][Next]_order
=============================================================================
