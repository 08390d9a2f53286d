----------------------------- MODULE LinkedList -----------------------------
(***************************************************************************)
(* The doubly linked lists of src/linked_list.c, pointer by pointer, as    *)
(* the polling loop and the interrupt handlers use them.                   *)
(*                                                                         *)
(*   ready_l    the handler inserts (ready_insert), the loop searches it   *)
(*              backwards (ready_select) and unlinks an entry (ready_free) *)
(*   fire_list  the loop inserts (add_firelist), the handler destroys the  *)
(*              oldest entry (scheduler_pass_result)                       *)
(*                                                                         *)
(* The loop is interrupted between any two of its loads and stores, the    *)
(* handlers are not.  A handler that is not in Contended never runs while  *)
(* both it and the loop are about to write the same end of a list.  In the *)
(* code nothing keeps them apart: what holds with Contended = {} is what   *)
(* the lists do outside these windows, and each handler in Contended alone *)
(* is enough to break them.                                                *)
(***************************************************************************)
EXTENDS Integers, SequencesExt

CONSTANTS
  Nodes,      \* node_t's the heap can provide
  NULL,
  Contended   \* the handlers that may run while the loop changes the same end

Lists   == {"ready", "fire"}
head(l) == <<l, "head">>
tail(l) == <<l, "tail">>

(* The sentinels of a list are no nodes (create_list). *)
ASSUME ListAssumption ==
  /\ IsFiniteSet(Nodes) /\ NULL \notin Nodes /\ Contended \subseteq {"insert", "destroy"}
  /\ \A l \in Lists : {head(l), tail(l)} \cap (Nodes \cup {NULL}) = {}

Cells   == Nodes \cup {head(l) : l \in Lists} \cup {tail(l) : l \in Lists}

VARIABLES
  prev, next,   \* the pointers of every node and sentinel
  used,         \* nodes that are allocated
  pc,           \* the loop's position
  cur,          \* ready_select's p, then ready_node
  new,          \* the node add_firelist inserts
  reg           \* pointers loaded and not yet stored: <<where, what>>

ptrs == <<prev, next>>
vars == <<ptrs, used, pc, cur, new, reg>>

-----------------------------------------------------------------------------
(* src/linked_list.c, run without interruption.  A definition X_w is X     *)
(* with the mistake w: the runs must tell them apart.                      *)

create_list(p, n) ==
  /\ p = [c \in Cells |-> IF \E l \in Lists : c = tail(l) THEN head(c[1]) ELSE NULL]
  /\ n = [c \in Cells |-> IF \E l \in Lists : c = head(l) THEN tail(c[1]) ELSE NULL]

insert_last(l, p) ==
  /\ next' = [next EXCEPT ![prev[tail(l)]] = p, ![p] = tail(l)]
  /\ prev' = [prev EXCEPT ![p] = prev[tail(l)], ![tail(l)] = p]

insert_forward(l, p) ==
  /\ next' = [next EXCEPT ![p] = next[head(l)], ![head(l)] = p]
  /\ prev' = [prev EXCEPT ![p] = head(l)]

insert(l, p) ==
  /\ next' = [next EXCEPT ![p] = next[head(l)], ![head(l)] = p]
  /\ prev' = [prev EXCEPT ![next[head(l)]] = p, ![p] = head(l)]

destroy_node_forward(p) ==
  /\ next' = [next EXCEPT ![prev[p]] = next[p], ![p] = NULL]
  /\ prev' = [prev EXCEPT ![p] = NULL]
  /\ used' = used \ {p}

(* free leaves the fields of a node to the heap; NULL stands for that. *)
destroy_node(p) ==
  /\ next' = [next EXCEPT ![prev[p]] = next[p], ![p] = NULL]
  /\ prev' = [prev EXCEPT ![next[p]] = prev[p], ![p] = NULL]
  /\ used' = used \ {p}

is_list_empty(l) == prev[tail(l)] = head(l)
read_last(l)     == prev[tail(l)]

-----------------------------------------------------------------------------
(* The loop: one step for every load of a shared pointer and every store. *)
At(p)   == pc = p
To(p)   == pc' = p
NoReg   == [where |-> NULL, what |-> NULL]

(* actor_check, ready_select: from the oldest entry on, p = p->prev until  *)
(* one suits; if none does, the oldest one at that time.                   *)
Poll == /\ At("poll") /\ ~is_list_empty("ready")
        /\ cur' = read_last("ready")
        /\ To("select")
        /\ UNCHANGED <<ptrs, used, new, reg>>

SelectThis == /\ At("select")
              /\ To("create")
              /\ UNCHANGED <<ptrs, used, cur, new, reg>>

SelectNext == /\ At("select")
              /\ IF prev[cur] # head("ready")
                 THEN cur' = prev[cur] /\ UNCHANGED pc
                 ELSE cur' = read_last("ready") /\ To("create")
              /\ UNCHANGED <<ptrs, used, new, reg>>

(* add_firelist: create_node, then the four statements of insert. *)
Create == /\ At("create")
          /\ \E p \in Nodes \ used : new' = p /\ used' = used \cup {p}
          /\ To("insert 1")
          /\ UNCHANGED <<ptrs, cur, reg>>

Insert1 == /\ At("insert 1")
           /\ next' = [next EXCEPT ![new] = next[head("fire")]]
           /\ To("insert 2 load")
           /\ UNCHANGED <<prev, used, cur, new, reg>>

Insert2Load == /\ At("insert 2 load")
               /\ reg' = [where |-> next[head("fire")], what |-> new]
               /\ To("insert 2")
               /\ UNCHANGED <<ptrs, used, cur, new>>

Insert2 == /\ At("insert 2")
           /\ prev' = [prev EXCEPT ![reg.where] = reg.what]
           /\ reg' = NoReg
           /\ To("insert 3")
           /\ UNCHANGED <<next, used, cur, new>>

Insert3 == /\ At("insert 3")
           /\ next' = [next EXCEPT ![head("fire")] = new]
           /\ To("insert 4")
           /\ UNCHANGED <<prev, used, cur, new, reg>>

Insert4 == /\ At("insert 4")
           /\ prev' = [prev EXCEPT ![new] = head("fire")]
           /\ new' = NULL
           /\ To("delete 1 load")
           /\ UNCHANGED <<next, used, cur, reg>>

(* ready_free: the two statements of delete_node, then free_node. *)
Delete1Load == /\ At("delete 1 load")
               /\ reg' = [where |-> prev[cur], what |-> next[cur]]
               /\ To("delete 1")
               /\ UNCHANGED <<ptrs, used, cur, new>>

Delete1 == /\ At("delete 1")
           /\ next' = [next EXCEPT ![reg.where] = reg.what]
           /\ reg' = NoReg
           /\ To("delete 2 load")
           /\ UNCHANGED <<prev, used, cur, new>>

Delete2Load == /\ At("delete 2 load")
               /\ reg' = [where |-> next[cur], what |-> prev[cur]]
               /\ To("delete 2")
               /\ UNCHANGED <<ptrs, used, cur, new>>

Delete2 == /\ At("delete 2")
           /\ prev' = [prev EXCEPT ![reg.where] = reg.what]
           /\ reg' = NoReg
           /\ To("free")
           /\ UNCHANGED <<next, used, cur, new>>

Free == /\ At("free")
        /\ prev' = [prev EXCEPT ![cur] = NULL]
        /\ next' = [next EXCEPT ![cur] = NULL]
        /\ used' = used \ {cur}
        /\ cur' = NULL
        /\ To("poll")
        /\ UNCHANGED <<new, reg>>

Loop == \/ Poll \/ SelectThis \/ SelectNext
        \/ Create \/ Insert1 \/ Insert2Load \/ Insert2 \/ Insert3 \/ Insert4
        \/ Delete1Load \/ Delete1 \/ Delete2Load \/ Delete2 \/ Free

-----------------------------------------------------------------------------
(* The handlers, and when they contend with the loop: it unlinks the entry *)
(* at the end where ready_insert adds one, or it adds one before the only  *)
(* entry of fire_list, which the handler destroys.                         *)
Unlinking == pc \in {"delete 1", "delete 2 load", "delete 2"}
Adding    == pc \in {"insert 2 load", "insert 2"}

InsertContends  == Unlinking /\ prev[cur] = head("ready")
DestroyContends == Adding /\ next[new] = read_last("fire")

ready_insert == /\ "insert" \in Contended \/ ~InsertContends
                /\ \E p \in Nodes \ used : insert("ready", p) /\ used' = used \cup {p}
                /\ UNCHANGED <<pc, cur, new, reg>>

(* The firing being added has not been launched: it is not the one whose   *)
(* results arrive.                                                         *)
fire_destroy == /\ "destroy" \in Contended \/ ~DestroyContends
                /\ ~is_list_empty("fire") /\ read_last("fire") # new
                /\ destroy_node(read_last("fire"))
                /\ UNCHANGED <<pc, cur, new, reg>>

-----------------------------------------------------------------------------
Init == /\ create_list(prev, next)
        /\ used = {}
        /\ pc = "poll" /\ cur = NULL /\ new = NULL /\ reg = NoReg

Next == Loop \/ ready_insert \/ fire_destroy

Spec == Init /\ [][Next]_vars
-----------------------------------------------------------------------------
(* Types: a pointer is NULL or leads to a node or a sentinel. *)
Points == {"poll", "select", "create", "insert 1", "insert 2 load", "insert 2",
           "insert 3", "insert 4", "delete 1 load", "delete 1", "delete 2 load",
           "delete 2", "free"}

TypeOK == /\ prev \in [Cells -> Cells \cup {NULL}]
          /\ next \in [Cells -> Cells \cup {NULL}]
          /\ used \in SUBSET Nodes
          /\ pc \in Points
          /\ cur \in Nodes \cup {NULL}
          /\ new \in Nodes \cup {NULL}
          /\ reg \in [where : Cells \cup {NULL}, what : Cells \cup {NULL}]

(* The nodes met by following the pointers f from c on. *)
Walk(f, c) ==
  LET met[i \in 0..Cardinality(Nodes)] ==
        IF i = 0 THEN <<>>
        ELSE LET s == met[i - 1]
                 d == IF s = <<>> THEN c ELSE Last(s)
             IN IF f[d] \in Nodes THEN Append(s, f[d]) ELSE s
  IN met[Cardinality(Nodes)]

Backward(l) == Walk(prev, tail(l))
Forward(l)  == Walk(next, head(l))

(* Seen through prev, the direction in which ready_select and read_last go,*)
(* both lists are sequences in order of insertion: no ready task is lost   *)
(* and none comes back.  This is promised (insert puts "a node follow the  *)
(* head") and kept as long as no handler in Contended runs in its window;  *)
(* the handler may still run between any other two stores of the loop.     *)
L == INSTANCE ListOrder WITH order <- [l \in Lists |-> Backward(l)]
ImplementsOrder == L!Spec

(* A list the loop is not changing reads the same in both directions       *)
(* (insert and delete_node, src/linked_list.c).                            *)
Changing == IF pc \in {"insert 2", "insert 3", "insert 4"} THEN {"fire"}
            ELSE IF pc \in {"delete 1", "delete 2 load", "delete 2"} THEN {"ready"} ELSE {}

DirectionsAgree ==
  \A l \in Lists \ Changing : Forward(l) = Reverse(Backward(l))

(* Every allocated node is in exactly one list or in the loop's hands, and *)
(* none that has been freed is reachable or held (ready_free, destroy_node)*)
(* and no pointer leads elsewhere.                                         *)
NodesAccounted ==
  LET Held == {new} \cup IF pc = "free" THEN {cur} ELSE {} IN
  /\ TypeOK
  /\ used = ToSet(Backward("ready")) \cup ToSet(Backward("fire")) \cup (Held \ {NULL})
  /\ ToSet(Backward("ready")) \cap ToSet(Backward("fire")) = {}
  /\ cur # NULL => cur \in used /\ (pc # "free" => cur \in ToSet(Backward("ready")))

(* When the loop polls again, every task that was scheduled (ready_insert) *)
(* and every firing that was recorded (add_firelist) and has not been freed*)
(* can be found in its list.                                               *)
EntriesFound ==
  At("poll") => used = ToSet(Backward("ready")) \cup ToSet(Backward("fire"))
=============================================================================
