-------------------------- MODULE LinkedListProofs --------------------------
(***************************************************************************)
(* Theorems about LinkedList: for any number of nodes, the two lists stay  *)
(* what ListOrder says they are, in both directions, as long as no handler *)
(* runs while it and the loop are about to write the same end of a list.   *)
(***************************************************************************)
EXTENDS LinkedList, FiniteSetTheorems, TLAPS

-----------------------------------------------------------------------------
(* Numbers. *)

(* A nonempty set of numbers has a smallest one. *)
LEMMA SmallestNumber ==
  ASSUME NEW T \in SUBSET Nat, T # {}
  PROVE  \E x \in T : \A y \in T : ~(y < x)
<1> DEFINE R == OpToRel(<, Nat)
<1>1. IsWellFoundedOn(R, Nat)
  BY NatLessThanWellFounded
<1>2. PICK x \in T : \A y \in T : ~(<<y, x>> \in R)
  <2> HIDE DEF R
  <2> QED
    BY <1>1, WFMin
<1>3. \A y \in T : <<y, x>> \in Nat \X Nat => ~(y < x)
  BY <1>2 DEF OpToRel
<1> HIDE DEF R
<1> QED
  BY <1>3

(* Induction, for the set of the numbers that have a property. *)
LEMMA SetInduction ==
  ASSUME NEW S \in SUBSET Nat, 0 \in S, \A n \in S : n + 1 \in S
  PROVE  S = Nat
<1> SUFFICES ASSUME Nat \ S # {} PROVE FALSE
  OBVIOUS
<1>1. PICK x \in Nat \ S : \A y \in Nat \ S : ~(y < x)
  BY SmallestNumber
<1>2. x - 1 \in Nat /\ x - 1 < x
  BY <1>1
<1>3. x - 1 \in S
  BY <1>1, <1>2
<1> QED
  BY <1>1, <1>2, <1>3

-----------------------------------------------------------------------------
(* What a walk meets.  The pointers f lead from c through the entries of s *)
(* to e, which is no node.                                                 *)
Path(f, c, s, e) ==
  /\ s \in Seq(Nodes) /\ IsInjective(s)
  /\ f[c] = IF Len(s) = 0 THEN e ELSE s[1]
  /\ \A i \in 1..Len(s) : f[s[i]] = IF i = Len(s) THEN e ELSE s[i + 1]

LEMMA PathIsShort ==
  ASSUME NEW s \in Seq(Nodes), IsInjective(s)
  PROVE  Len(s) \in 0..Cardinality(Nodes) /\ Cardinality(Nodes) \in Nat
<1>1. s \in Injection(1..Len(s), Nodes)
  BY DEF Injection, IsInjective
<1>2. IsFiniteSet(Nodes)
  BY ListAssumption
<1>3. Cardinality(1..Len(s)) <= Cardinality(Nodes)
  BY <1>1, <1>2, FS_Injection
<1>4. Cardinality(1..Len(s)) = Len(s) /\ Len(s) \in Nat
  BY FS_Interval
<1>5. Cardinality(Nodes) \in Nat
  BY <1>2, FS_CardinalityType
<1> QED
  BY <1>3, <1>4, <1>5

LEMMA WalkIs ==
  ASSUME NEW f, NEW c, NEW s, NEW e, Path(f, c, s, e), e \notin Nodes
  PROVE  Walk(f, c) = s
<1> DEFINE N == Cardinality(Nodes)
           n == Len(s)
           upTo(i) == IF i < n THEN SubSeq(s, 1, i) ELSE s
           step(q) == LET d == IF q = <<>> THEN c ELSE Last(q)
                      IN IF f[d] \in Nodes THEN Append(q, f[d]) ELSE q
           met[i \in 0..N] == IF i = 0 THEN <<>> ELSE step(met[i - 1])
           g == [i \in 0..N |-> upTo(i)]
<1>1. s \in Seq(Nodes) /\ n \in 0..N /\ N \in Nat
  BY PathIsShort DEF Path
<1>2. step(s) = s
  <2>1. f[IF s = <<>> THEN c ELSE Last(s)] = e
    BY <1>1 DEF Path, Last
  <2> QED
    BY <2>1
<1>3. ASSUME NEW i \in 1..n PROVE step(SubSeq(s, 1, i - 1)) = SubSeq(s, 1, i)
  <2> PICK q : q = SubSeq(s, 1, i - 1)
    OBVIOUS
  <2>1. q \in Seq(Nodes) /\ Len(q) = i - 1 /\ \A j \in 1..(i - 1) : q[j] = s[j]
    BY <1>1
  <2>2. f[IF q = <<>> THEN c ELSE Last(q)] = s[i] /\ s[i] \in Nodes
    <3>1. CASE i = 1
      BY <1>1, <2>1, <3>1 DEF Path
    <3>2. CASE i # 1
      <4>1. q # <<>> /\ Last(q) = s[i - 1] /\ i - 1 \in 1..n /\ i - 1 # n
        BY <1>1, <2>1, <3>2 DEF Last
      <4> QED
        BY <1>1, <4>1 DEF Path
    <3> QED
      BY <3>1, <3>2
  <2>3. Append(q, s[i]) = SubSeq(s, 1, i)
    BY <1>1
  <2>4. step(q) = Append(q, s[i])
    BY <2>2
  <2> QED
    BY <2>3, <2>4
<1>4. SubSeq(s, 1, 0) = <<>> /\ SubSeq(s, 1, n) = s
  BY <1>1
<1> HIDE DEF step
<1>5. ASSUME NEW i \in 0..N, i # 0 PROVE upTo(i) = step(upTo(i - 1))
  <2>1. CASE i <= n
    <3>1. i \in 1..n /\ upTo(i) = SubSeq(s, 1, i) /\ upTo(i - 1) = SubSeq(s, 1, i - 1)
      BY <1>1, <1>4, <1>5, <2>1
    <3> QED
      BY <1>3, <3>1
  <2>2. CASE ~(i <= n)
    <3>1. upTo(i) = s /\ upTo(i - 1) = s
      BY <1>1, <1>5, <2>2
    <3> QED
      BY <1>2, <3>1
  <2> QED
    BY <2>1, <2>2
<1>6. upTo(0) = <<>>
  BY <1>1
<1> HIDE DEF upTo
<1>7. g = [i \in 0..N |-> IF i = 0 THEN <<>> ELSE step(g[i - 1])]
  BY <1>1, <1>5, <1>6
<1>8. met = [i \in 0..N |-> IF i = 0 THEN <<>> ELSE step(met[i - 1])]
  <2> HIDE DEF g
  <2> QED
    BY <1>7 DEF met
<1> HIDE DEF met
<1>9. \A i \in 0..N : met[i] = upTo(i)
  <2> DEFINE S == {i \in Nat : i <= N => met[i] = upTo(i)}
  <2>1. 0 \in S
    BY <1>1, <1>6, <1>8
  <2>2. ASSUME NEW i \in S PROVE i + 1 \in S
    <3> SUFFICES ASSUME i + 1 <= N PROVE met[i + 1] = upTo(i + 1)
      OBVIOUS
    <3>1. i \in Nat /\ i + 1 \in 0..N /\ i + 1 # 0 /\ met[i] = upTo(i) /\ (i + 1) - 1 = i
      BY <1>1
    <3>2. met[i + 1] = step(met[(i + 1) - 1])
      BY <1>8, <3>1
    <3> QED
      BY <1>5, <3>1, <3>2
  <2>3. S = Nat
    <3>1. S \in SUBSET Nat
      OBVIOUS
    <3> HIDE DEF S
    <3> QED
      BY <2>1, <2>2, <3>1, SetInduction
  <2> QED
    BY <1>1, <2>3
<1>10. met[N] = s
  BY <1>1, <1>9 DEF upTo
<1> QED
  BY <1>10 DEF Walk, met, step

-----------------------------------------------------------------------------
(* The pointers of a list whose entries are s, the oldest first.  Cell 0   *)
(* is the tail, and the cell behind the newest entry is the head.          *)
Cell(l, s, i) == IF i = 0 THEN tail(l) ELSE IF i \in DOMAIN s THEN s[i] ELSE head(l)

(* In the middle of insert the newest entry has no prev yet, and the head  *)
(* does not lead to it; in the middle of delete_node next skips the entry. *)
Half  == pc \in {"insert 3", "insert 4"}
Short == pc \in {"delete 2 load", "delete 2"}

Entries(s) == s \in Seq(Nodes) /\ IsInjective(s)

ReadyLinks(s) ==
  /\ Entries(s)
  /\ \A i \in 0..Len(s) : prev[Cell("ready", s, i)] = Cell("ready", s, i + 1)
  /\ \A i \in 0..Len(s) :
       next[Cell("ready", s, i + 1)] =
         IF Short /\ Cell("ready", s, i) = cur THEN next[cur] ELSE Cell("ready", s, i)

FireLinks(s) ==
  /\ Entries(s)
  /\ \A i \in 0..Len(s) : prev[Cell("fire", s, i)] =
                            IF Half /\ i = Len(s) THEN NULL ELSE Cell("fire", s, i + 1)
  /\ \A i \in 0..Len(s) : \/ next[Cell("fire", s, i + 1)] = Cell("fire", s, i)
                          \/ pc = "insert 3" /\ i = Len(s)

(* What the loop knows of the entry it removes, cur, and of the one it     *)
(* adds, new; reg is not stale when it is stored.                          *)
Searching == {"select", "create", "insert 1", "insert 2 load", "insert 2", "insert 3",
              "insert 4", "delete 1 load", "delete 1", "delete 2 load", "delete 2"}
Inserting == {"insert 1", "insert 2 load", "insert 2"}

Removal(r, f) ==
  /\ pc \in Searching => cur \in ToSet(r)
  /\ pc = "free" => cur \in Nodes /\ cur \notin ToSet(r) \cup ToSet(f)
  /\ pc = "poll" => cur = NULL
  /\ pc = "delete 1" => reg = [where |-> prev[cur], what |-> next[cur]]
  /\ pc = "delete 2" => reg = [where |-> next[cur], what |-> prev[cur]]

Addition(r, f) ==
  /\ pc \in Inserting => new \in Nodes /\ new \notin ToSet(r) \cup ToSet(f) /\ prev[new] = NULL
  /\ Half => f # <<>> /\ f[Len(f)] = new
  /\ ~Half /\ pc \notin Inserting => new = NULL
  /\ pc \in {"insert 2 load", "insert 2"} => next[new] = Cell("fire", f, Len(f))
  /\ pc = "insert 2" => reg = [where |-> Cell("fire", f, Len(f)), what |-> new]

Memory(r, f) ==
  /\ used = ToSet(r) \cup ToSet(f) \cup (({new} \cup IF pc = "free" THEN {cur} ELSE {}) \ {NULL})
  /\ ToSet(r) \cap ToSet(f) = {}
  /\ \A n \in Nodes \ used : prev[n] = NULL

ListsAre(r, f) ==
  /\ TypeOK /\ ReadyLinks(r) /\ FireLinks(f)
  /\ Removal(r, f) /\ Addition(r, f) /\ Memory(r, f)

ListInv == \E r, f : ListsAre(r, f)

-----------------------------------------------------------------------------
(* Cells. *)
LEMMA Sentinels ==
  /\ \A l, k \in Lists : /\ head(l) # tail(k)
                         /\ head(l) = head(k) => l = k
                         /\ tail(l) = tail(k) => l = k
  /\ \A l \in Lists : /\ head(l) \notin Nodes /\ head(l) # NULL /\ head(l) \in Cells
                      /\ tail(l) \notin Nodes /\ tail(l) # NULL /\ tail(l) \in Cells
  /\ "ready" \in Lists /\ "fire" \in Lists /\ NULL \notin Nodes /\ NULL \notin Cells
<1>1. \A l, k \in Lists : /\ head(l) # tail(k)
                          /\ head(l) = head(k) => l = k
                          /\ tail(l) = tail(k) => l = k
  BY DEF head, tail
<1>2. \A l \in Lists : /\ head(l) \notin Nodes /\ head(l) # NULL
                       /\ tail(l) \notin Nodes /\ tail(l) # NULL
  BY ListAssumption
<1>3. NULL \notin Nodes
  BY ListAssumption
<1>4. \A l \in Lists : head(l) \in Cells /\ tail(l) \in Cells
  BY DEF Cells
<1>5. NULL \notin Cells
  BY <1>2, <1>3 DEF Cells
<1> QED
  BY <1>1, <1>2, <1>3, <1>4, <1>5 DEF Lists

LEMMA CellIs ==
  ASSUME NEW l \in Lists, NEW s, Entries(s)
  PROVE  /\ Len(s) \in Nat /\ DOMAIN s = 1..Len(s)
         /\ Cell(l, s, 0) = tail(l) /\ Cell(l, s, Len(s) + 1) = head(l)
         /\ \A i \in 1..Len(s) : Cell(l, s, i) = s[i] /\ s[i] \in Nodes
         /\ \A i \in 0..(Len(s) + 1) : Cell(l, s, i) \in Cells /\ Cell(l, s, i) # NULL
<1>1. s \in Seq(Nodes) /\ Len(s) \in Nat /\ DOMAIN s = 1..Len(s)
  BY DEF Entries
<1>2. Cell(l, s, 0) = tail(l) /\ Cell(l, s, Len(s) + 1) = head(l)
  BY <1>1 DEF Cell
<1>3. \A i \in 1..Len(s) : Cell(l, s, i) = s[i] /\ s[i] \in Nodes
  BY <1>1 DEF Cell
<1>4. ASSUME NEW i \in 0..(Len(s) + 1) PROVE Cell(l, s, i) \in Cells /\ Cell(l, s, i) # NULL
  <2>1. i = 0 \/ i = Len(s) + 1 \/ i \in 1..Len(s)
    BY <1>1
  <2> QED
    BY <1>2, <1>3, <2>1, Sentinels DEF Cells
<1> QED
  BY <1>1, <1>2, <1>3, <1>4

LEMMA CellsDiffer ==
  ASSUME NEW l \in Lists, NEW s, Entries(s),
         NEW i \in 0..(Len(s) + 1), NEW j \in 0..(Len(s) + 1), Cell(l, s, i) = Cell(l, s, j)
  PROVE  i = j
<1>1. /\ i = 0 \/ i = Len(s) + 1 \/ i \in 1..Len(s)
      /\ j = 0 \/ j = Len(s) + 1 \/ j \in 1..Len(s)
  BY CellIs
<1>2. tail(l) # head(l) /\ tail(l) \notin Nodes /\ head(l) \notin Nodes
  BY Sentinels
<1>3. CASE i \in 1..Len(s) /\ j \in 1..Len(s)
  <2>1. s[i] = s[j] /\ i \in DOMAIN s /\ j \in DOMAIN s
    BY <1>3, CellIs
  <2> QED
    BY <2>1 DEF Entries, IsInjective
<1>4. CASE ~(i \in 1..Len(s) /\ j \in 1..Len(s))
  BY <1>1, <1>2, <1>4, CellIs
<1> QED
  BY <1>3, <1>4

LEMMA CellIsEntry ==
  ASSUME NEW l \in Lists, NEW s, Entries(s), NEW i \in 0..(Len(s) + 1)
  PROVE  \/ Cell(l, s, i) \in ToSet(s) /\ i \in 1..Len(s)
         \/ Cell(l, s, i) = tail(l) /\ i = 0
         \/ Cell(l, s, i) = head(l) /\ i = Len(s) + 1
<1>1. i = 0 \/ i = Len(s) + 1 \/ i \in 1..Len(s)
  BY CellIs
<1> QED
  BY <1>1, CellIs DEF ToSet

LEMMA EntryIsCell ==
  ASSUME NEW l \in Lists, NEW s, Entries(s), NEW n \in ToSet(s)
  PROVE  \E k \in 1..Len(s) : n = s[k] /\ n = Cell(l, s, k) /\ n \in Nodes
  BY CellIs DEF ToSet

LEMMA CellsApart ==
  ASSUME NEW r, NEW f, Entries(r), Entries(f), ToSet(r) \cap ToSet(f) = {},
         NEW i \in 0..(Len(r) + 1), NEW j \in 0..(Len(f) + 1)
  PROVE  Cell("ready", r, i) # Cell("fire", f, j)
<1> PICK c, d : c = Cell("ready", r, i) /\ d = Cell("fire", f, j)
  OBVIOUS
<1>1. c \in ToSet(r) \/ c = tail("ready") \/ c = head("ready")
  BY CellIsEntry, Sentinels
<1>2. d \in ToSet(f) \/ d = tail("fire") \/ d = head("fire")
  BY CellIsEntry, Sentinels
<1>3. ToSet(r) \subseteq Nodes /\ ToSet(f) \subseteq Nodes
  BY EntryIsCell, Sentinels
<1>4. "ready" # "fire" /\ "ready" \in Lists /\ "fire" \in Lists
  BY DEF Lists
<1>5. c # d
  BY <1>1, <1>2, <1>3, <1>4, Sentinels
<1> QED
  BY <1>5

(* A node outside of a list is none of its cells. *)
LEMMA NotACell ==
  ASSUME NEW l \in Lists, NEW s, Entries(s), NEW n \in Nodes, n \notin ToSet(s)
  PROVE  \A i \in 0..(Len(s) + 1) : Cell(l, s, i) # n
  BY CellIsEntry, Sentinels

(* A list that an entry joins or leaves. *)
LEMMA Joined ==
  ASSUME NEW l \in Lists, NEW s, Entries(s), NEW n \in Nodes, n \notin ToSet(s)
  PROVE  /\ Entries(Append(s, n)) /\ Len(Append(s, n)) = Len(s) + 1
         /\ ToSet(Append(s, n)) = ToSet(s) \cup {n}
         /\ \A i \in 0..Len(s) : Cell(l, Append(s, n), i) = Cell(l, s, i)
         /\ Cell(l, Append(s, n), Len(s) + 1) = n
         /\ Cell(l, Append(s, n), Len(s) + 2) = head(l)
<1> PICK t : t = Append(s, n)
  OBVIOUS
<1>1. s \in Seq(Nodes) /\ Len(s) \in Nat /\ DOMAIN s = 1..Len(s)
  BY DEF Entries
<1>2. t \in Seq(Nodes) /\ Len(t) = Len(s) + 1 /\ DOMAIN t = 1..(Len(s) + 1)
  BY <1>1
<1>3. \A i \in 1..Len(s) : t[i] = s[i] /\ s[i] \in ToSet(s)
  BY <1>1 DEF ToSet
<1>4. t[Len(s) + 1] = n
  BY <1>1
<1>5. \A i \in DOMAIN t : i \in 1..Len(s) \/ i = Len(s) + 1
  BY <1>1, <1>2
<1>6. Entries(t)
  BY <1>1, <1>2, <1>3, <1>4, <1>5 DEF Entries, IsInjective
<1>7. ToSet(t) = ToSet(s) \cup {n}
  BY <1>1, <1>2, <1>3, <1>4, <1>5 DEF ToSet
<1>8. \A i \in 0..Len(s) : Cell(l, t, i) = Cell(l, s, i)
  BY <1>1, <1>2, <1>3 DEF Cell
<1>9. Cell(l, t, Len(s) + 1) = n /\ Cell(l, t, Len(s) + 2) = head(l)
  BY <1>1, <1>2, <1>4 DEF Cell
<1> QED
  BY <1>2, <1>6, <1>7, <1>8, <1>9

LEMMA RemoveAtIs ==
  ASSUME NEW s \in Seq(Nodes), NEW k \in 1..Len(s)
  PROVE  /\ RemoveAt(s, k) \in Seq(Nodes) /\ Len(RemoveAt(s, k)) = Len(s) - 1
         /\ \A i \in 1..(Len(s) - 1) : RemoveAt(s, k)[i] = IF i < k THEN s[i] ELSE s[i + 1]
<1> DEFINE p == SubSeq(s, 1, k - 1)
           q == SubSeq(s, k + 1, Len(s))
<1>1. Len(s) \in Nat /\ k \in 1..Len(s)
  OBVIOUS
<1>2. /\ p \in Seq(Nodes) /\ Len(p) = k - 1
      /\ \A i \in 1..(k - 1) : p[i] = s[i]
  BY <1>1
<1>3. /\ q \in Seq(Nodes) /\ Len(q) = Len(s) - k
      /\ \A i \in 1..(Len(s) - k) : q[i] = s[i + k]
  BY <1>1
<1> HIDE DEF p, q
<1>4. p \o q \in Seq(Nodes) /\ Len(p \o q) = Len(s) - 1
  <2>1. p \in Seq(Nodes) /\ q \in Seq(Nodes)
    BY <1>2, <1>3
  <2>2. p \o q \in Seq(Nodes) /\ Len(p \o q) = Len(p) + Len(q)
    BY <2>1
  <2> QED
    BY <1>1, <1>2, <1>3, <2>2
<1>5. \A i \in 1..(Len(s) - 1) : (p \o q)[i] = IF i < k THEN p[i] ELSE q[i - (k - 1)]
  BY <1>1, <1>2, <1>3
<1>6. \A i \in k..(Len(s) - 1) : q[i - (k - 1)] = s[i + 1]
  <2> TAKE i \in k..(Len(s) - 1)
  <2>1. i - (k - 1) \in 1..(Len(s) - k) /\ (i - (k - 1)) + k = i + 1
    BY <1>1
  <2> QED
    BY <1>3, <2>1
<1>7. \A i \in 1..(Len(s) - 1) : (p \o q)[i] = IF i < k THEN s[i] ELSE s[i + 1]
  <2> TAKE i \in 1..(Len(s) - 1)
  <2>1. CASE i < k
    <3>1. i \in 1..(k - 1)
      BY <1>1, <2>1
    <3> QED
      BY <1>2, <1>5, <2>1, <3>1
  <2>2. CASE ~(i < k)
    <3>1. i \in k..(Len(s) - 1)
      BY <1>1, <2>2
    <3> QED
      BY <1>5, <1>6, <2>2, <3>1
  <2> QED
    BY <2>1, <2>2
<1>8. RemoveAt(s, k) = p \o q
  BY DEF RemoveAt, p, q
<1> QED
  BY <1>4, <1>7, <1>8

LEMMA Left ==
  ASSUME NEW l \in Lists, NEW s, Entries(s), NEW k \in 1..Len(s)
  PROVE  /\ Entries(RemoveAt(s, k)) /\ Len(RemoveAt(s, k)) = Len(s) - 1
         /\ ToSet(RemoveAt(s, k)) = ToSet(s) \ {s[k]}
         /\ \A i \in 0..Len(s) :
              Cell(l, RemoveAt(s, k), i) = IF i < k THEN Cell(l, s, i) ELSE Cell(l, s, i + 1)
<1> PICK t : t = RemoveAt(s, k)
  OBVIOUS
<1>1. s \in Seq(Nodes) /\ Len(s) \in Nat /\ DOMAIN s = 1..Len(s) /\ k \in 1..Len(s)
  BY DEF Entries
<1>2. /\ t \in Seq(Nodes) /\ Len(t) = Len(s) - 1 /\ DOMAIN t = 1..(Len(s) - 1)
      /\ \A i \in 1..(Len(s) - 1) : t[i] = IF i < k THEN s[i] ELSE s[i + 1]
  <2>1. t \in Seq(Nodes) /\ Len(t) = Len(s) - 1
    BY <1>1, RemoveAtIs
  <2>2. \A i \in 1..(Len(s) - 1) : t[i] = IF i < k THEN s[i] ELSE s[i + 1]
    BY <1>1, RemoveAtIs
  <2> QED
    BY <2>1, <2>2
<1>3. \A i, j \in DOMAIN s : s[i] = s[j] => i = j
  BY DEF Entries, IsInjective
<1>4. \A i, j \in DOMAIN t : t[i] = t[j] => i = j
  <2> DEFINE old(i) == IF i < k THEN i ELSE i + 1
  <2>1. \A i \in DOMAIN t : old(i) \in DOMAIN s /\ t[i] = s[old(i)]
    BY <1>1, <1>2
  <2>2. \A i, j \in DOMAIN t : old(i) = old(j) => i = j
    BY <1>1, <1>2
  <2> HIDE DEF old
  <2> QED
    BY <1>3, <2>1, <2>2
<1>5. Entries(t)
  BY <1>2, <1>4 DEF Entries, IsInjective
<1>6. ToSet(t) = ToSet(s) \ {s[k]}
  <2>1. ASSUME NEW i \in DOMAIN t PROVE \E j \in DOMAIN s : j # k /\ t[i] = s[j]
    <3>1. CASE i < k
      BY <1>1, <1>2, <3>1
    <3>2. CASE ~(i < k)
      <4>1. i + 1 \in DOMAIN s /\ i + 1 # k /\ t[i] = s[i + 1]
        BY <1>1, <1>2, <3>2
      <4> QED
        BY <4>1
    <3> QED
      BY <3>1, <3>2
  <2>2. ASSUME NEW j \in DOMAIN s, j # k PROVE \E i \in DOMAIN t : t[i] = s[j]
    <3>1. CASE j < k
      BY <1>1, <1>2, <3>1
    <3>2. CASE ~(j < k)
      <4>1. j - 1 \in DOMAIN t /\ ~(j - 1 < k) /\ (j - 1) + 1 = j
        BY <1>1, <1>2, <2>2, <3>2
      <4> QED
        BY <1>2, <4>1
    <3> QED
      BY <3>1, <3>2
  <2>3. ASSUME NEW j \in DOMAIN s, j # k PROVE s[j] # s[k]
    BY <1>1, <1>3, <2>3
  <2> QED
    BY <1>1, <2>1, <2>2, <2>3 DEF ToSet
<1>7. ASSUME NEW i \in 0..Len(s)
      PROVE  Cell(l, t, i) = IF i < k THEN Cell(l, s, i) ELSE Cell(l, s, i + 1)
  <2>1. CASE i = 0
    BY <1>1, <2>1 DEF Cell
  <2>2. CASE i = Len(s)
    <3>1. i \notin DOMAIN t /\ i # 0 /\ ~(i < k) /\ i + 1 \notin DOMAIN s /\ i + 1 # 0
      BY <1>1, <1>2, <2>2
    <3> QED
      BY <3>1 DEF Cell
  <2>3. CASE i \in 1..(Len(s) - 1)
    <3>1. i \in DOMAIN t /\ i \in DOMAIN s /\ i + 1 \in DOMAIN s /\ i # 0 /\ i + 1 # 0
      BY <1>1, <1>2, <2>3
    <3> QED
      BY <1>2, <2>3, <3>1 DEF Cell
  <2>4. i = 0 \/ i = Len(s) \/ i \in 1..(Len(s) - 1)
    <3> PICK n : n = Len(s)
      OBVIOUS
    <3>1. n \in Nat /\ i \in 0..n
      BY <1>1
    <3> QED
      BY <3>1
  <2> QED
    BY <2>1, <2>2, <2>3, <2>4
<1> QED
  BY <1>2, <1>5, <1>6, <1>7

-----------------------------------------------------------------------------
(* Links that no step touches. *)
LEMMA Bounds ==
  ASSUME NEW n \in Nat PROVE \A i \in 0..n : i \in 0..(n + 1) /\ i + 1 \in 0..(n + 1)
  OBVIOUS

LEMMA ReadyFrame ==
  ASSUME NEW r, ReadyLinks(r), Short' <=> Short, Short => cur' = cur /\ cur \in ToSet(r),
         \A i \in 0..(Len(r) + 1) : /\ prev'[Cell("ready", r, i)] = prev[Cell("ready", r, i)]
                                    /\ next'[Cell("ready", r, i)] = next[Cell("ready", r, i)]
  PROVE  ReadyLinks(r)'
<1>1. Entries(r) /\ Len(r) \in Nat
  BY CellIs, Sentinels DEF ReadyLinks
<1>2. \A i \in 0..Len(r) : i \in 0..(Len(r) + 1) /\ i + 1 \in 0..(Len(r) + 1)
  BY <1>1, Bounds
<1>3. Short => next'[cur] = next[cur]
  <2> SUFFICES ASSUME Short PROVE next'[cur] = next[cur]
    OBVIOUS
  <2>1. PICK k \in 1..Len(r) : cur = Cell("ready", r, k)
    BY <1>1, EntryIsCell, Sentinels
  <2>2. k \in 0..(Len(r) + 1)
    BY <1>1
  <2> QED
    BY <2>1, <2>2
<1>4. \A i \in 0..Len(r) : prev'[Cell("ready", r, i)] = Cell("ready", r, i + 1)
  BY <1>2 DEF ReadyLinks
<1>5. ASSUME NEW i \in 0..Len(r)
      PROVE  next'[Cell("ready", r, i + 1)] =
               IF Short' /\ Cell("ready", r, i) = cur' THEN next'[cur'] ELSE Cell("ready", r, i)
  <2>1. next'[Cell("ready", r, i + 1)] =
          IF Short /\ Cell("ready", r, i) = cur THEN next[cur] ELSE Cell("ready", r, i)
    BY <1>2 DEF ReadyLinks
  <2>2. CASE Short
    <3>1. cur' = cur /\ next'[cur] = next[cur] /\ Short'
      BY <1>3, <2>2
    <3> QED
      BY <2>1, <2>2, <3>1
  <2>3. CASE ~Short
    BY <2>1, <2>3
  <2> QED
    BY <2>2, <2>3
<1> QED
  BY <1>1, <1>4, <1>5 DEF ReadyLinks

LEMMA FireFrame ==
  ASSUME NEW f, FireLinks(f), Half' <=> Half, pc' = "insert 3" <=> pc = "insert 3",
         \A i \in 0..(Len(f) + 1) : /\ prev'[Cell("fire", f, i)] = prev[Cell("fire", f, i)]
                                    /\ next'[Cell("fire", f, i)] = next[Cell("fire", f, i)]
  PROVE  FireLinks(f)'
<1>1. Entries(f) /\ Len(f) \in Nat
  BY CellIs, Sentinels DEF FireLinks
<1>2. \A i \in 0..Len(f) : i \in 0..(Len(f) + 1) /\ i + 1 \in 0..(Len(f) + 1)
  BY <1>1, Bounds
<1>3. \A i \in 0..Len(f) :
        prev'[Cell("fire", f, i)] = IF Half /\ i = Len(f) THEN NULL ELSE Cell("fire", f, i + 1)
  BY <1>2 DEF FireLinks
<1>4. \A i \in 0..Len(f) : \/ next'[Cell("fire", f, i + 1)] = Cell("fire", f, i)
                           \/ pc' = "insert 3" /\ i = Len(f)
  BY <1>2 DEF FireLinks
<1> QED
  BY <1>1, <1>3, <1>4 DEF FireLinks

LEMMA CellsOf ==
  ASSUME NEW r, NEW f, ListsAre(r, f)
  PROVE  /\ Entries(r) /\ Len(r) \in Nat /\ \A i \in 0..(Len(r) + 1) : Cell("ready", r, i) \in Cells
         /\ Entries(f) /\ Len(f) \in Nat /\ \A i \in 0..(Len(f) + 1) : Cell("fire", f, i) \in Cells
         /\ \A i \in 0..(Len(r) + 1), j \in 0..(Len(f) + 1) : Cell("ready", r, i) # Cell("fire", f, j)
<1>1. Entries(r) /\ Entries(f) /\ ToSet(r) \cap ToSet(f) = {}
  BY DEF ListsAre, ReadyLinks, FireLinks, Memory
<1> QED
  BY <1>1, CellIs, CellsApart, Sentinels

(* A step of the loop that changes no pointer. *)
LEMMA QuietLinks ==
  ASSUME NEW r, NEW f, ListsAre(r, f), UNCHANGED ptrs, Short' <=> Short, Half' <=> Half,
         pc' = "insert 3" <=> pc = "insert 3", Short => cur' = cur
  PROVE  ReadyLinks(r)' /\ FireLinks(f)'
<1>1. prev' = prev /\ next' = next /\ ReadyLinks(r) /\ FireLinks(f)
  BY DEF ptrs, ListsAre
<1>2. Short => cur \in ToSet(r)
  BY DEF Short, ListsAre, Removal, Searching
<1> QED
  BY <1>1, <1>2, ReadyFrame, FireFrame

-----------------------------------------------------------------------------
(* The search of the loop. *)
LEMMA OldestReady ==
  ASSUME NEW r, NEW f, ListsAre(r, f), prev[tail("ready")] # head("ready")
  PROVE  prev[tail("ready")] \in ToSet(r)
<1>1. Entries(r) /\ Len(r) \in Nat /\ Cell("ready", r, 0) = tail("ready")
      /\ Cell("ready", r, Len(r) + 1) = head("ready") /\ 0 \in 0..Len(r)
      /\ prev[Cell("ready", r, 0)] = Cell("ready", r, 0 + 1)
  BY CellIs, Sentinels DEF ListsAre, ReadyLinks
<1>2. Len(r) # 0
  BY <1>1
<1>3. 1 \in 1..Len(r) /\ Cell("ready", r, 1) = r[1] /\ DOMAIN r = 1..Len(r)
  BY <1>1, <1>2, CellIs, Sentinels
<1> QED
  BY <1>1, <1>3 DEF ToSet

LEMMA NextReady ==
  ASSUME NEW r, NEW f, ListsAre(r, f), cur \in ToSet(r), prev[cur] # head("ready")
  PROVE  prev[cur] \in ToSet(r)
<1>1. Entries(r) /\ Len(r) \in Nat /\ Cell("ready", r, Len(r) + 1) = head("ready")
  BY CellIs, Sentinels DEF ListsAre, ReadyLinks
<1>2. PICK k \in 1..Len(r) : cur = Cell("ready", r, k)
  BY <1>1, EntryIsCell, Sentinels
<1>3. prev[cur] = Cell("ready", r, k + 1)
  BY <1>1, <1>2 DEF ListsAre, ReadyLinks
<1>4. k # Len(r)
  BY <1>1, <1>3
<1>5. k + 1 \in 1..Len(r) /\ DOMAIN r = 1..Len(r) /\ Cell("ready", r, k + 1) = r[k + 1]
  BY <1>1, <1>2, <1>4, CellIs, Sentinels
<1> QED
  BY <1>3, <1>5 DEF ToSet

(* The list is not empty while the loop has an entry of it. *)
LEMMA NotEmptied ==
  ASSUME NEW r, NEW f, ListsAre(r, f), cur \in ToSet(r)
  PROVE  prev[tail("ready")] # head("ready")
<1>1. Entries(r) /\ Len(r) \in Nat /\ Cell("ready", r, 0) = tail("ready")
      /\ Cell("ready", r, Len(r) + 1) = head("ready") /\ 0 \in 0..Len(r)
      /\ prev[Cell("ready", r, 0)] = Cell("ready", r, 0 + 1)
  BY CellIs, Sentinels DEF ListsAre, ReadyLinks
<1>2. PICK k \in 1..Len(r) : cur = Cell("ready", r, k)
  BY <1>1, EntryIsCell, Sentinels
<1>3. 1 # Len(r) + 1 /\ 1 \in 0..(Len(r) + 1) /\ Len(r) + 1 \in 0..(Len(r) + 1)
  BY <1>1, <1>2
<1>4. Cell("ready", r, 1) # Cell("ready", r, Len(r) + 1)
  BY <1>1, <1>3, CellsDiffer, Sentinels
<1> QED
  BY <1>1, <1>4

LEMMA EntriesAreNodes ==
  ASSUME NEW r, NEW f, ListsAre(r, f)
  PROVE  ToSet(r) \subseteq Nodes /\ ToSet(f) \subseteq Nodes
  BY EntryIsCell, Sentinels DEF ListsAre, ReadyLinks, FireLinks

LEMMA SearchStep ==
  ASSUME NEW r, NEW f, ListsAre(r, f), Poll \/ SelectThis \/ SelectNext
  PROVE  ListsAre(r, f)'
<1>1. /\ UNCHANGED <<prev, next, used, new, reg>> /\ pc \in {"poll", "select"}
      /\ pc' \in {"select", "create"}
  BY DEF Poll, SelectThis, SelectNext, At, To, ptrs
<1>2. cur' \in ToSet(r)
  <2>1. CASE Poll
    BY <2>1, OldestReady DEF Poll, is_list_empty, read_last
  <2>2. CASE SelectThis
    BY <2>2 DEF SelectThis, At, ListsAre, Removal, Searching
  <2>3. CASE SelectNext
    <3>1. cur \in ToSet(r)
      BY <2>3 DEF SelectNext, At, ListsAre, Removal, Searching
    <3> QED
      BY <2>3, <3>1, NextReady, NotEmptied, OldestReady DEF SelectNext, read_last
  <2> QED
    BY <2>1, <2>2, <2>3
<1>3. ReadyLinks(r)' /\ FireLinks(f)'
  BY <1>1, QuietLinks DEF Short, Half, ptrs
<1>4. TypeOK'
  BY <1>1, <1>2, EntriesAreNodes DEF ListsAre, TypeOK, Points
<1>5. Removal(r, f)'
  BY <1>1, <1>2 DEF Removal
<1>6. Addition(r, f)'
  BY <1>1 DEF ListsAre, Addition, Inserting, Half
<1>7. Memory(r, f)'
  BY <1>1 DEF ListsAre, Memory
<1> QED
  BY <1>3, <1>4, <1>5, <1>6, <1>7 DEF ListsAre

-----------------------------------------------------------------------------
(* add_firelist, statement by statement. *)
LEMMA FireHead ==
  ASSUME NEW r, NEW f, ListsAre(r, f)
  PROVE  /\ Entries(f) /\ Len(f) \in Nat
         /\ head("fire") = Cell("fire", f, Len(f) + 1) /\ tail("fire") = Cell("fire", f, 0)
         /\ pc # "insert 3" => next[head("fire")] = Cell("fire", f, Len(f))
<1>1. Entries(f) /\ Len(f) \in Nat
      /\ head("fire") = Cell("fire", f, Len(f) + 1) /\ tail("fire") = Cell("fire", f, 0)
  BY CellIs, Sentinels DEF ListsAre, FireLinks
<1>2. Len(f) \in 0..Len(f)
  BY <1>1
<1>3. pc # "insert 3" => next[Cell("fire", f, Len(f) + 1)] = Cell("fire", f, Len(f))
  BY <1>2 DEF ListsAre, FireLinks
<1> QED
  BY <1>1, <1>3

LEMMA CreateStep ==
  ASSUME NEW r, NEW f, ListsAre(r, f), Create PROVE ListsAre(r, f)'
<1>1. /\ UNCHANGED <<prev, next, cur, reg>> /\ pc = "create" /\ pc' = "insert 1"
      /\ new' \in Nodes \ used /\ used' = used \cup {new'}
  BY DEF Create, At, To, ptrs
<1>2. /\ ReadyLinks(r)' /\ FireLinks(f)'
  BY <1>1, QuietLinks DEF Short, Half, ptrs
<1>3. new = NULL /\ new' # NULL
  BY <1>1, Sentinels DEF ListsAre, Addition, Half, Inserting
<1>4. TypeOK'
  BY <1>1 DEF ListsAre, TypeOK, Points
<1>5. Removal(r, f)'
  BY <1>1 DEF ListsAre, Removal, Searching
<1>6. used = ToSet(r) \cup ToSet(f)
  BY <1>1, <1>3 DEF ListsAre, Memory
<1>7. Addition(r, f)'
  BY <1>1, <1>6 DEF ListsAre, Memory, Addition, Inserting, Half
<1>8. Memory(r, f)'
  <2>1. used' = ToSet(r) \cup ToSet(f) \cup (({new'} \cup {}) \ {NULL})
    BY <1>1, <1>3, <1>6
  <2> QED
    BY <1>1, <2>1 DEF ListsAre, Memory
<1> QED
  BY <1>2, <1>4, <1>5, <1>7, <1>8 DEF ListsAre

(* While new is in no list, its own pointers are nobody's concern. *)
LEMMA NewApart ==
  ASSUME NEW r, NEW f, ListsAre(r, f), pc \in Inserting
  PROVE  /\ new \in Nodes /\ new # NULL /\ new \in Cells
         /\ \A i \in 0..(Len(r) + 1) : Cell("ready", r, i) # new
         /\ \A i \in 0..(Len(f) + 1) : Cell("fire", f, i) # new
<1>1. new \in Nodes /\ new \notin ToSet(r) /\ new \notin ToSet(f)
  BY DEF ListsAre, Addition
<1>2. Entries(r) /\ Entries(f)
  BY DEF ListsAre, ReadyLinks, FireLinks
<1> QED
  BY <1>1, <1>2, NotACell, Sentinels DEF Cells

LEMMA Insert1Step ==
  ASSUME NEW r, NEW f, ListsAre(r, f), Insert1 PROVE ListsAre(r, f)'
<1>1. /\ UNCHANGED <<prev, used, cur, new, reg>> /\ pc = "insert 1" /\ pc' = "insert 2 load"
      /\ next' = [next EXCEPT ![new] = next[head("fire")]]
  BY DEF Insert1, At, To
<1>2. /\ new \in Nodes /\ new # NULL /\ new \in Cells
      /\ \A i \in 0..(Len(r) + 1) : Cell("ready", r, i) # new
      /\ \A i \in 0..(Len(f) + 1) : Cell("fire", f, i) # new
  BY <1>1, NewApart DEF Inserting
<1>3. next \in [Cells -> Cells \cup {NULL}] /\ head("fire") \in Cells
  BY Sentinels DEF ListsAre, TypeOK
<1>4. next'[new] = next[head("fire")] /\ \A c \in Cells : c # new => next'[c] = next[c]
  BY <1>1, <1>2, <1>3
<1>5. ReadyLinks(r)'
  BY <1>1, <1>2, <1>4, CellsOf, ReadyFrame DEF ListsAre, Short
<1>6. FireLinks(f)'
  BY <1>1, <1>2, <1>4, CellsOf, FireFrame DEF ListsAre, Half
<1>7. TypeOK'
  BY <1>1, <1>2, <1>3 DEF ListsAre, TypeOK, Points
<1>8. Removal(r, f)' /\ Memory(r, f)'
  BY <1>1 DEF ListsAre, Removal, Memory, Searching
<1>9. Addition(r, f)'
  BY <1>1, <1>4, FireHead DEF ListsAre, Addition, Inserting, Half
<1> QED
  BY <1>5, <1>6, <1>7, <1>8, <1>9 DEF ListsAre

LEMMA Insert2LoadStep ==
  ASSUME NEW r, NEW f, ListsAre(r, f), Insert2Load PROVE ListsAre(r, f)'
<1>1. /\ UNCHANGED <<prev, next, used, cur, new>> /\ pc = "insert 2 load" /\ pc' = "insert 2"
      /\ reg' = [where |-> next[head("fire")], what |-> new]
  BY DEF Insert2Load, At, To, ptrs
<1>2. /\ ReadyLinks(r)' /\ FireLinks(f)'
  BY <1>1, QuietLinks DEF Short, Half, ptrs
<1>3. next[head("fire")] = Cell("fire", f, Len(f))
  BY <1>1, FireHead
<1>4. TypeOK'
  <2>1. next[head("fire")] \in Cells \cup {NULL} /\ new \in Cells \cup {NULL}
    BY Sentinels DEF ListsAre, TypeOK, Cells
  <2> QED
    BY <1>1, <2>1 DEF ListsAre, TypeOK, Points
<1>5. Removal(r, f)' /\ Memory(r, f)'
  BY <1>1 DEF ListsAre, Removal, Memory, Searching
<1>6. Addition(r, f)'
  BY <1>1, <1>3 DEF ListsAre, Addition, Inserting, Half
<1> QED
  BY <1>2, <1>4, <1>5, <1>6 DEF ListsAre

(* The store that makes the new entry visible to the walks through prev.   *)
LEMMA Insert2Step ==
  ASSUME NEW r, NEW f, NEW n, ListsAre(r, f), Insert2, n = new PROVE ListsAre(r, Append(f, n))'
<1> PICK g : g = Append(f, n)
  OBVIOUS
<1>0. pc = "insert 2" /\ reg = [where |-> Cell("fire", f, Len(f)), what |-> n]
  BY DEF Insert2, At, ListsAre, Addition
<1>1. /\ UNCHANGED <<next, used, cur, new>> /\ pc = "insert 2" /\ pc' = "insert 3"
      /\ prev' = [prev EXCEPT ![Cell("fire", f, Len(f))] = n]
      /\ reg' = NoReg
  BY <1>0 DEF Insert2, To
<1>2. /\ n \in Nodes /\ n # NULL /\ n \in Cells
      /\ \A i \in 0..(Len(r) + 1) : Cell("ready", r, i) # n
      /\ \A i \in 0..(Len(f) + 1) : Cell("fire", f, i) # n
      /\ n \notin ToSet(r) /\ n \notin ToSet(f) /\ prev[n] = NULL
      /\ next[n] = Cell("fire", f, Len(f))
  BY <1>1, NewApart DEF Inserting, ListsAre, Addition
<1>3. /\ Entries(f) /\ Len(f) \in Nat /\ Len(f) \in 0..(Len(f) + 1)
      /\ Cell("fire", f, Len(f)) \in Cells /\ Entries(r)
  <2>1. Entries(f) /\ Len(f) \in Nat /\ Len(f) \in 0..(Len(f) + 1) /\ Entries(r)
    <3> PICK m : m = Len(f)
      OBVIOUS
    <3>1. m \in Nat /\ Entries(f) /\ Entries(r)
      BY CellsOf
    <3> QED
      BY <3>1
  <2> QED
    BY <2>1, CellIs, Sentinels
<1>4. /\ Entries(g) /\ Len(g) = Len(f) + 1 /\ ToSet(g) = ToSet(f) \cup {n}
      /\ \A i \in 0..Len(f) : Cell("fire", g, i) = Cell("fire", f, i)
      /\ Cell("fire", g, Len(f) + 1) = n /\ Cell("fire", g, Len(f) + 2) = head("fire")
  BY <1>2, <1>3, Joined, Sentinels
<1>5. prev \in [Cells -> Cells \cup {NULL}]
  BY DEF ListsAre, TypeOK
<1>6. /\ prev'[Cell("fire", f, Len(f))] = n
      /\ \A c \in Cells : c # Cell("fire", f, Len(f)) => prev'[c] = prev[c]
  BY <1>1, <1>3, <1>5
<1>7. ReadyLinks(r)'
  <2>1. \A i \in 0..(Len(r) + 1) : Cell("ready", r, i) # Cell("fire", f, Len(f))
    BY <1>3, CellsOf
  <2> QED
    BY <1>1, <1>6, <2>1, CellsOf, ReadyFrame DEF ListsAre, Short
<1>8. FireLinks(g)'
  <2>1. ASSUME NEW i \in 0..Len(g)
        PROVE  prev'[Cell("fire", g, i)] = IF i = Len(g) THEN NULL ELSE Cell("fire", g, i + 1)
    <3>1. CASE i = Len(g)
      BY <1>2, <1>3, <1>4, <1>6, <3>1
    <3>2. CASE i = Len(f)
      BY <1>3, <1>4, <1>6, <3>2
    <3>3. CASE i # Len(g) /\ i # Len(f)
      <4>1. i \in 0..Len(f) /\ i + 1 \in 0..Len(f) /\ i \in 0..(Len(f) + 1)
        BY <1>3, <1>4, <3>3
      <4>2. Cell("fire", f, i) # Cell("fire", f, Len(f))
        BY <1>3, <3>3, <4>1, CellsDiffer, Sentinels
      <4>3. prev[Cell("fire", f, i)] = Cell("fire", f, i + 1)
        BY <1>1, <3>3, <4>1 DEF ListsAre, FireLinks, Half
      <4> QED
        BY <1>4, <1>6, <3>3, <4>1, <4>2, <4>3, CellsOf
    <3> QED
      BY <3>1, <3>2, <3>3
  <2>2. ASSUME NEW i \in 0..Len(g), i # Len(g)
        PROVE  next[Cell("fire", g, i + 1)] = Cell("fire", g, i)
    <3>1. CASE i = Len(f)
      BY <1>2, <1>3, <1>4, <3>1
    <3>2. CASE i # Len(f)
      <4>1. i \in 0..Len(f) /\ i + 1 \in 0..Len(f)
        BY <1>3, <1>4, <2>2, <3>2
      <4>2. next[Cell("fire", f, i + 1)] = Cell("fire", f, i)
        BY <1>1, <4>1 DEF ListsAre, FireLinks
      <4> QED
        BY <1>4, <4>1, <4>2
    <3> QED
      BY <3>1, <3>2
  <2>3. Half' /\ next' = next
    BY <1>1 DEF Half
  <2>4. pc' = "insert 3" /\ Entries(g)
    BY <1>1, <1>4
  <2>5. \A i \in 0..Len(g) : prev'[Cell("fire", g, i)] =
                            IF Half' /\ i = Len(g) THEN NULL ELSE Cell("fire", g, i + 1)
    BY <2>1, <2>3
  <2>6. \A i \in 0..Len(g) : \/ next'[Cell("fire", g, i + 1)] = Cell("fire", g, i)
                             \/ pc' = "insert 3" /\ i = Len(g)
    BY <2>2, <2>3, <2>4
  <2> QED
    BY <2>4, <2>5, <2>6 DEF FireLinks
<1>9. TypeOK'
  BY <1>1, <1>2, <1>3, <1>5 DEF ListsAre, TypeOK, Points, NoReg
<1>10. Removal(r, g)'
  BY <1>1 DEF ListsAre, Removal, Searching
<1>11. Addition(r, g)'
  <2>1. g # <<>> /\ g[Len(g)] = n
    <3>1. g \in Seq(Nodes) /\ Len(g) # 0
      BY <1>3, <1>4 DEF Entries
    <3>2. g[Len(f) + 1] = n
      BY <1>3 DEF Entries
    <3> QED
      BY <1>4, <3>1, <3>2
  <2> QED
    BY <1>1, <2>1 DEF Addition, Inserting, Half
<1>12. Memory(r, g)'
  <2>1. \A m \in Nodes \ used : m # Cell("fire", f, Len(f)) /\ prev[m] = NULL
    <3>1. Cell("fire", f, Len(f)) \in ToSet(f) \/ Cell("fire", f, Len(f)) \notin Nodes
      BY <1>3, CellIsEntry, Sentinels
    <3> QED
      BY <3>1 DEF ListsAre, Memory
  <2>2. \A m \in Nodes \ used : prev'[m] = NULL
    BY <1>6, <2>1 DEF Cells
  <2> QED
    BY <1>1, <1>2, <1>4, <2>2 DEF ListsAre, Memory
<1> QED
  BY <1>7, <1>8, <1>9, <1>10, <1>11, <1>12 DEF ListsAre

(* Once new can be seen, it is the newest entry. *)
LEMMA NewIsLast ==
  ASSUME NEW r, NEW f, ListsAre(r, f), Half
  PROVE  /\ Entries(r) /\ Entries(f) /\ Len(f) \in Nat /\ Len(f) # 0
         /\ head("fire") = Cell("fire", f, Len(f) + 1) /\ head("fire") \in Cells
         /\ Cell("fire", f, Len(f)) = new /\ new \in Nodes /\ new \in ToSet(f) /\ new \in Cells
<1>1. f # <<>> /\ f[Len(f)] = new
  BY DEF ListsAre, Addition
<1>2. f \in Seq(Nodes) /\ Entries(f) /\ Entries(r)
  BY CellsOf DEF Entries
<1>3. Len(f) \in Nat /\ Len(f) # 0
  BY <1>1, <1>2
<1>4. Len(f) \in 1..Len(f) /\ DOMAIN f = 1..Len(f)
  BY <1>2, <1>3
<1>5. Cell("fire", f, Len(f)) = f[Len(f)] /\ f[Len(f)] \in Nodes
  BY <1>2, <1>4, CellIs, Sentinels
<1> QED
  BY <1>1, <1>2, <1>3, <1>4, <1>5, FireHead, Sentinels DEF ToSet, Cells

LEMMA Insert3Step ==
  ASSUME NEW r, NEW f, ListsAre(r, f), Insert3 PROVE ListsAre(r, f)'
<1>1. /\ UNCHANGED <<prev, used, cur, new, reg>> /\ pc = "insert 3" /\ pc' = "insert 4"
      /\ next' = [next EXCEPT ![head("fire")] = new]
  BY DEF Insert3, At, To
<1>2. /\ Entries(r) /\ Entries(f) /\ Len(f) \in Nat /\ Len(f) # 0
      /\ head("fire") = Cell("fire", f, Len(f) + 1) /\ head("fire") \in Cells
  BY <1>1, NewIsLast DEF Half
<1>3. Cell("fire", f, Len(f)) = new /\ new \in Nodes /\ new \in ToSet(f) /\ new \in Cells
  BY <1>1, NewIsLast DEF Half
<1>4. next \in [Cells -> Cells \cup {NULL}]
  BY DEF ListsAre, TypeOK
<1>5. next'[head("fire")] = new /\ \A c \in Cells : c # head("fire") => next'[c] = next[c]
  BY <1>1, <1>2, <1>4
<1>6. ReadyLinks(r)'
  <2>1. \A i \in 0..(Len(r) + 1) : Cell("ready", r, i) # head("fire")
    <3>1. Len(f) + 1 \in 0..(Len(f) + 1)
      BY <1>2
    <3> QED
      BY <1>2, <3>1, CellsOf
  <2> QED
    BY <1>1, <1>5, <2>1, CellsOf, ReadyFrame DEF ListsAre, Short
<1>7. FireLinks(f)'
  <2>1. \A i \in 0..Len(f) :
          prev'[Cell("fire", f, i)] = IF Half' /\ i = Len(f) THEN NULL ELSE Cell("fire", f, i + 1)
    BY <1>1 DEF ListsAre, FireLinks, Half
  <2>2. ASSUME NEW i \in 0..Len(f) PROVE next'[Cell("fire", f, i + 1)] = Cell("fire", f, i)
    <3>1. CASE i = Len(f)
      BY <1>2, <1>3, <1>5, <3>1
    <3>2. CASE i # Len(f)
      <4>1. i + 1 \in 0..(Len(f) + 1) /\ i + 1 # Len(f) + 1 /\ Len(f) + 1 \in 0..(Len(f) + 1)
        BY <1>2, <3>2
      <4>2. Cell("fire", f, i + 1) # head("fire")
        BY <1>2, <4>1, CellsDiffer, Sentinels
      <4>3. next[Cell("fire", f, i + 1)] = Cell("fire", f, i)
        BY <3>2 DEF ListsAre, FireLinks
      <4> QED
        BY <1>5, <4>1, <4>2, <4>3, CellsOf
    <3> QED
      BY <3>1, <3>2
  <2> QED
    BY <1>2, <2>1, <2>2 DEF FireLinks
<1>8. TypeOK'
  BY <1>1, <1>2, <1>3, <1>4 DEF ListsAre, TypeOK, Points, Cells
<1>9. Removal(r, f)' /\ Memory(r, f)'
  BY <1>1 DEF ListsAre, Removal, Memory, Searching
<1>10. Addition(r, f)'
  BY <1>1 DEF ListsAre, Addition, Inserting, Half
<1> QED
  BY <1>6, <1>7, <1>8, <1>9, <1>10 DEF ListsAre

LEMMA Insert4Step ==
  ASSUME NEW r, NEW f, ListsAre(r, f), Insert4 PROVE ListsAre(r, f)'
<1>1. /\ UNCHANGED <<next, used, cur, reg>> /\ pc = "insert 4" /\ pc' = "delete 1 load"
      /\ prev' = [prev EXCEPT ![new] = head("fire")] /\ new' = NULL
  BY DEF Insert4, At, To
<1>2. /\ Entries(r) /\ Entries(f) /\ Len(f) \in Nat /\ Len(f) # 0
      /\ head("fire") = Cell("fire", f, Len(f) + 1) /\ head("fire") \in Cells
  BY <1>1, NewIsLast DEF Half
<1>3. Cell("fire", f, Len(f)) = new /\ new \in Nodes /\ new \in ToSet(f) /\ new \in Cells
  BY <1>1, NewIsLast DEF Half
<1>4. prev \in [Cells -> Cells \cup {NULL}]
  BY DEF ListsAre, TypeOK
<1>5. prev'[new] = head("fire") /\ \A c \in Cells : c # new => prev'[c] = prev[c]
  BY <1>1, <1>3, <1>4
<1>6. ReadyLinks(r)'
  <2>1. \A i \in 0..(Len(r) + 1) : Cell("ready", r, i) # new
    <3>1. Len(f) \in 0..(Len(f) + 1)
      BY <1>2
    <3> QED
      BY <1>3, <3>1, CellsOf
  <2> QED
    BY <1>1, <1>5, <2>1, CellsOf, ReadyFrame DEF ListsAre, Short
<1>7. FireLinks(f)'
  <2>1. ASSUME NEW i \in 0..Len(f) PROVE prev'[Cell("fire", f, i)] = Cell("fire", f, i + 1)
    <3>1. CASE i = Len(f)
      BY <1>2, <1>3, <1>5, <3>1
    <3>2. CASE i # Len(f)
      <4>1. i \in 0..(Len(f) + 1) /\ Len(f) \in 0..(Len(f) + 1)
        BY <1>2
      <4>2. Cell("fire", f, i) # new
        BY <1>2, <1>3, <3>2, <4>1, CellsDiffer, Sentinels
      <4>3. prev[Cell("fire", f, i)] = Cell("fire", f, i + 1)
        BY <3>2 DEF ListsAre, FireLinks
      <4> QED
        BY <1>5, <4>1, <4>2, <4>3, CellsOf
    <3> QED
      BY <3>1, <3>2
  <2>2. \A i \in 0..Len(f) : next'[Cell("fire", f, i + 1)] = Cell("fire", f, i)
    BY <1>1 DEF ListsAre, FireLinks
  <2> QED
    BY <1>1, <1>2, <2>1, <2>2 DEF FireLinks, Half
<1>8. TypeOK'
  BY <1>1, <1>2, <1>3, <1>4 DEF ListsAre, TypeOK, Points
<1>9. Removal(r, f)'
  BY <1>1 DEF ListsAre, Removal, Searching
<1>10. Memory(r, f)'
  <2>1. new \in used /\ \A n \in Nodes \ used : n \in Cells /\ n # new
    BY <1>3 DEF ListsAre, Memory, Cells
  <2> QED
    BY <1>1, <1>3, <1>5, <2>1 DEF ListsAre, Memory
<1>11. Addition(r, f)'
  BY <1>1 DEF ListsAre, Addition, Inserting, Half
<1> QED
  BY <1>6, <1>7, <1>8, <1>9, <1>10, <1>11 DEF ListsAre

-----------------------------------------------------------------------------
(* ready_free, statement by statement. *)
LEMMA CurAt ==
  ASSUME NEW r, NEW f, ListsAre(r, f), cur \in ToSet(r)
  PROVE  \E k \in 1..Len(r) :
           /\ r[k] = cur /\ Cell("ready", r, k) = cur /\ cur \in Nodes /\ cur \in Cells
           /\ prev[cur] = Cell("ready", r, k + 1) /\ next[cur] = Cell("ready", r, k - 1)
           /\ \A i \in 0..(Len(r) + 1) : i # k => Cell("ready", r, i) # cur
<1> PICK m : m = Len(r)
  OBVIOUS
<1>1. Entries(r) /\ m \in Nat
  BY CellsOf
<1>2. PICK k \in 1..m : cur = r[k] /\ cur = Cell("ready", r, k) /\ cur \in Nodes
  BY <1>1, EntryIsCell, Sentinels
<1>3. /\ k \in 0..m /\ k - 1 \in 0..m /\ (k - 1) + 1 = k /\ k - 1 # k
      /\ k \in 0..(m + 1) /\ k - 1 \in 0..(m + 1)
  BY <1>1
<1>4. \A i \in 0..(m + 1) : i # k => Cell("ready", r, i) # cur
  BY <1>1, <1>2, <1>3, CellsDiffer, Sentinels
<1>5. prev[cur] = Cell("ready", r, k + 1)
  BY <1>2, <1>3 DEF ListsAre, ReadyLinks
<1>6. next[Cell("ready", r, (k - 1) + 1)] =
        IF Short /\ Cell("ready", r, k - 1) = cur THEN next[cur] ELSE Cell("ready", r, k - 1)
  BY <1>3 DEF ListsAre, ReadyLinks
<1>7. next[cur] = Cell("ready", r, k - 1)
  BY <1>2, <1>3, <1>4, <1>6
<1> QED
  BY <1>2, <1>4, <1>5, <1>7 DEF Cells

LEMMA DeleteLoadStep ==
  ASSUME NEW r, NEW f, ListsAre(r, f), Delete1Load \/ Delete2Load PROVE ListsAre(r, f)'
<1>1. /\ UNCHANGED <<prev, next, used, cur, new>>
      /\ \/ /\ pc = "delete 1 load" /\ pc' = "delete 1"
            /\ reg' = [where |-> prev[cur], what |-> next[cur]]
         \/ /\ pc = "delete 2 load" /\ pc' = "delete 2"
            /\ reg' = [where |-> next[cur], what |-> prev[cur]]
  BY DEF Delete1Load, Delete2Load, At, To, ptrs
<1>2. /\ ReadyLinks(r)' /\ FireLinks(f)'
  BY <1>1, QuietLinks DEF Short, Half, ptrs
<1>3. cur \in ToSet(r)
  BY <1>1 DEF ListsAre, Removal, Searching
<1>4. TypeOK'
  <2>1. next[cur] \in Cells \cup {NULL} /\ prev[cur] \in Cells \cup {NULL}
    BY <1>3, CurAt DEF ListsAre, TypeOK
  <2>2. reg' \in [where : Cells \cup {NULL}, what : Cells \cup {NULL}]
    <3> PICK a, b : a = prev[cur] /\ b = next[cur]
      OBVIOUS
    <3>1. a \in Cells \cup {NULL} /\ b \in Cells \cup {NULL}
      BY <2>1
    <3>2. reg' = [where |-> a, what |-> b] \/ reg' = [where |-> b, what |-> a]
      BY <1>1
    <3> QED
      BY <3>1, <3>2
  <2>3. pc' \in Points
    BY <1>1 DEF Points
  <2> QED
    BY <1>1, <2>2, <2>3 DEF ListsAre, TypeOK
<1>5. Removal(r, f)' /\ Memory(r, f)'
  BY <1>1, <1>3 DEF ListsAre, Removal, Memory, Searching
<1>6. Addition(r, f)'
  BY <1>1 DEF ListsAre, Addition, Inserting, Half
<1> QED
  BY <1>2, <1>4, <1>5, <1>6 DEF ListsAre

LEMMA Delete1Step ==
  ASSUME NEW r, NEW f, ListsAre(r, f), Delete1 PROVE ListsAre(r, f)'
<1>0. cur \in ToSet(r) /\ reg = [where |-> prev[cur], what |-> next[cur]]
  BY DEF Delete1, At, ListsAre, Removal, Searching
<1> PICK m : m = Len(r)
  OBVIOUS
<1>1. PICK k \in 1..m :
        /\ r[k] = cur /\ Cell("ready", r, k) = cur /\ cur \in Nodes /\ cur \in Cells
        /\ prev[cur] = Cell("ready", r, k + 1) /\ next[cur] = Cell("ready", r, k - 1)
        /\ \A i \in 0..(m + 1) : i # k => Cell("ready", r, i) # cur
  BY <1>0, CurAt
<1>2. /\ UNCHANGED <<prev, used, cur, new>> /\ pc = "delete 1" /\ pc' = "delete 2 load"
      /\ next' = [next EXCEPT ![Cell("ready", r, k + 1)] = Cell("ready", r, k - 1)]
      /\ reg' = NoReg
  BY <1>0, <1>1 DEF Delete1, At, To
<1>3. /\ Entries(r) /\ m \in Nat
      /\ k \in 0..m /\ k - 1 \in 0..(m + 1) /\ k + 1 \in 0..(m + 1) /\ k + 1 # k
      /\ \A i \in 0..m : i \in 0..(m + 1) /\ i + 1 \in 0..(m + 1) /\ (i + 1 = k + 1 => i = k)
  BY CellsOf
<1>4. /\ next \in [Cells -> Cells \cup {NULL}]
      /\ \A i \in 0..(m + 1) : Cell("ready", r, i) \in Cells
  BY CellsOf DEF ListsAre, TypeOK
<1>5. /\ next'[Cell("ready", r, k + 1)] = Cell("ready", r, k - 1)
      /\ \A c \in Cells : c # Cell("ready", r, k + 1) => next'[c] = next[c]
  BY <1>2, <1>3, <1>4
<1>6. next'[cur] = Cell("ready", r, k - 1) /\ cur' = cur
  BY <1>1, <1>2, <1>3, <1>5
<1>7. ReadyLinks(r)'
  <2>1. \A i \in 0..m : prev'[Cell("ready", r, i)] = Cell("ready", r, i + 1)
    BY <1>2 DEF ListsAre, ReadyLinks
  <2>2. ASSUME NEW i \in 0..m
        PROVE  next'[Cell("ready", r, i + 1)] =
                 IF Short' /\ Cell("ready", r, i) = cur' THEN next'[cur'] ELSE Cell("ready", r, i)
    <3>1. Short'
      BY <1>2 DEF Short
    <3>2. CASE i = k
      BY <1>1, <1>5, <1>6, <3>1, <3>2
    <3>3. CASE i # k
      <4>1. Cell("ready", r, i) # cur
        BY <1>1, <1>3, <3>3
      <4>2. Cell("ready", r, i + 1) # Cell("ready", r, k + 1)
        BY <1>3, <3>3, CellsDiffer, Sentinels
      <4>3. next[Cell("ready", r, i + 1)] = Cell("ready", r, i)
        BY <1>2 DEF ListsAre, ReadyLinks, Short
      <4> QED
        BY <1>3, <1>4, <1>5, <1>6, <4>1, <4>2, <4>3
    <3> QED
      BY <3>2, <3>3
  <2> QED
    BY <1>3, <2>1, <2>2 DEF ReadyLinks
<1>8. FireLinks(f)'
  BY <1>2, <1>3, <1>5, CellsOf, FireFrame DEF ListsAre, Half
<1>9. TypeOK'
  BY <1>2, <1>3, <1>4 DEF ListsAre, TypeOK, Points, NoReg
<1>10. Removal(r, f)' /\ Memory(r, f)'
  BY <1>0, <1>2 DEF ListsAre, Removal, Memory, Searching
<1>11. Addition(r, f)'
  BY <1>2 DEF ListsAre, Addition, Inserting, Half
<1> QED
  BY <1>7, <1>8, <1>9, <1>10, <1>11 DEF ListsAre

(* The store that takes the entry out of the walks through prev. *)
LEMMA Delete2Step ==
  ASSUME NEW r, NEW f, ListsAre(r, f), Delete2
  PROVE  \E k \in 1..Len(r) : ListsAre(RemoveAt(r, k), f)'
<1>0. cur \in ToSet(r) /\ reg = [where |-> next[cur], what |-> prev[cur]]
  BY DEF Delete2, At, ListsAre, Removal, Searching
<1> PICK m : m = Len(r)
  OBVIOUS
<1>1. PICK k \in 1..m :
        /\ r[k] = cur /\ Cell("ready", r, k) = cur /\ cur \in Nodes /\ cur \in Cells
        /\ prev[cur] = Cell("ready", r, k + 1) /\ next[cur] = Cell("ready", r, k - 1)
        /\ \A i \in 0..(m + 1) : i # k => Cell("ready", r, i) # cur
  BY <1>0, CurAt
<1> PICK t : t = RemoveAt(r, k)
  OBVIOUS
<1>2. /\ UNCHANGED <<next, used, cur, new>> /\ pc = "delete 2" /\ pc' = "free"
      /\ prev' = [prev EXCEPT ![Cell("ready", r, k - 1)] = Cell("ready", r, k + 1)]
      /\ reg' = NoReg
  BY <1>0, <1>1 DEF Delete2, At, To
<1>3. /\ Entries(r) /\ m \in Nat
      /\ k \in 0..m /\ k - 1 \in 0..(m + 1) /\ k + 1 \in 0..(m + 1)
      /\ \A i \in 0..m : i \in 0..(m + 1) /\ i + 1 \in 0..(m + 1)
  BY CellsOf
<1>4. /\ Entries(t) /\ Len(t) = m - 1 /\ ToSet(t) = ToSet(r) \ {cur}
      /\ \A i \in 0..m :
           Cell("ready", t, i) = IF i < k THEN Cell("ready", r, i) ELSE Cell("ready", r, i + 1)
  BY <1>1, <1>3, Left, Sentinels
<1>5. /\ prev \in [Cells -> Cells \cup {NULL}]
      /\ \A i \in 0..(m + 1) : Cell("ready", r, i) \in Cells
  BY CellsOf DEF ListsAre, TypeOK
<1>6. /\ prev'[Cell("ready", r, k - 1)] = Cell("ready", r, k + 1)
      /\ \A c \in Cells : c # Cell("ready", r, k - 1) => prev'[c] = prev[c]
  BY <1>2, <1>3, <1>5
<1>7. ASSUME NEW i \in 0..(m - 1)
      PROVE  /\ prev'[Cell("ready", t, i)] = Cell("ready", t, i + 1)
             /\ next'[Cell("ready", t, i + 1)] = Cell("ready", t, i)
  <2>1. CASE i = k - 1
    <3>1. i < k /\ ~(i + 1 < k) /\ i \in 0..m /\ i + 1 \in 0..m /\ (i + 1) + 1 = k + 1
      BY <1>3, <2>1
    <3>2. Cell("ready", t, i) = Cell("ready", r, k - 1)
          /\ Cell("ready", t, i + 1) = Cell("ready", r, k + 1)
      BY <1>4, <2>1, <3>1
    <3>3. next[Cell("ready", r, k + 1)] = next[cur]
      BY <1>1, <1>2, <1>3 DEF ListsAre, ReadyLinks, Short
    <3> QED
      BY <1>1, <1>2, <1>6, <3>2, <3>3
  <2>2. CASE i < k - 1
    <3>1. i < k /\ i + 1 < k /\ i \in 0..m /\ i + 1 \in 0..m /\ i # k /\ i # k - 1
          /\ i \in 0..(m + 1)
      BY <1>3, <2>2
    <3>2. Cell("ready", t, i) = Cell("ready", r, i)
          /\ Cell("ready", t, i + 1) = Cell("ready", r, i + 1)
      BY <1>4, <3>1
    <3>3. Cell("ready", r, i) # cur /\ Cell("ready", r, i) # Cell("ready", r, k - 1)
      BY <1>1, <1>3, <3>1, CellsDiffer, Sentinels
    <3>4. prev[Cell("ready", r, i)] = Cell("ready", r, i + 1)
          /\ next[Cell("ready", r, i + 1)] = Cell("ready", r, i)
      BY <3>1, <3>3 DEF ListsAre, ReadyLinks
    <3> QED
      BY <1>2, <1>5, <1>6, <3>1, <3>2, <3>3, <3>4
  <2>3. CASE ~(i < k - 1) /\ i # k - 1
    <3>1. ~(i < k) /\ ~(i + 1 < k) /\ i \in 0..m /\ i + 1 \in 0..m /\ i + 1 # k /\ i + 1 # k - 1
          /\ i + 1 \in 0..(m + 1)
      BY <1>3, <2>3
    <3>2. Cell("ready", t, i) = Cell("ready", r, i + 1)
          /\ Cell("ready", t, i + 1) = Cell("ready", r, (i + 1) + 1)
      BY <1>4, <3>1
    <3>3. Cell("ready", r, i + 1) # cur /\ Cell("ready", r, i + 1) # Cell("ready", r, k - 1)
      BY <1>1, <1>3, <3>1, CellsDiffer, Sentinels
    <3>4. prev[Cell("ready", r, i + 1)] = Cell("ready", r, (i + 1) + 1)
          /\ next[Cell("ready", r, (i + 1) + 1)] = Cell("ready", r, i + 1)
      BY <3>1, <3>3 DEF ListsAre, ReadyLinks
    <3> QED
      BY <1>2, <1>5, <1>6, <3>1, <3>2, <3>3, <3>4
  <2> QED
    BY <2>1, <2>2, <2>3
<1>8. ReadyLinks(t)'
  BY <1>2, <1>4, <1>7 DEF ReadyLinks, Short
<1>9. FireLinks(f)'
  BY <1>2, <1>3, <1>6, CellsOf, FireFrame DEF ListsAre, Half
<1>10. TypeOK'
  BY <1>2, <1>3, <1>5 DEF ListsAre, TypeOK, Points, NoReg
<1>11. Removal(t, f)'
  BY <1>0, <1>1, <1>2, <1>4 DEF ListsAre, Memory, Removal, Searching
<1>12. Addition(t, f)'
  BY <1>2 DEF ListsAre, Addition, Inserting, Half
<1>13. Memory(t, f)'
  <2>1. \A n \in Nodes \ used : n # Cell("ready", r, k - 1) /\ n \in Cells
    <3>1. Cell("ready", r, k - 1) \in ToSet(r) \/ Cell("ready", r, k - 1) \notin Nodes
      BY <1>3, CellIsEntry, Sentinels
    <3> QED
      BY <3>1 DEF ListsAre, Memory, Cells
  <2>2. new = NULL /\ cur # NULL
    BY <1>1, <1>2, Sentinels DEF ListsAre, Addition, Half, Inserting
  <2>3. used = ToSet(r) \cup ToSet(f)
    BY <1>2, <2>2 DEF ListsAre, Memory
  <2>4. used' = ToSet(t) \cup ToSet(f) \cup ({new', cur'} \ {NULL})
    BY <1>0, <1>2, <1>4, <2>2, <2>3
  <2> QED
    BY <1>2, <1>4, <1>6, <2>1, <2>4 DEF ListsAre, Memory
<1> QED
  BY <1>8, <1>9, <1>10, <1>11, <1>12, <1>13 DEF ListsAre

LEMMA FreeStep ==
  ASSUME NEW r, NEW f, ListsAre(r, f), Free PROVE ListsAre(r, f)'
<1>1. /\ UNCHANGED <<new, reg>> /\ pc = "free" /\ pc' = "poll" /\ cur' = NULL
      /\ prev' = [prev EXCEPT ![cur] = NULL] /\ next' = [next EXCEPT ![cur] = NULL]
      /\ used' = used \ {cur}
  BY DEF Free, At, To
<1>2. cur \in Nodes /\ cur \notin ToSet(r) /\ cur \notin ToSet(f) /\ cur \in Cells /\ cur # NULL
  BY <1>1, Sentinels DEF ListsAre, Removal, Cells
<1>3. prev \in [Cells -> Cells \cup {NULL}] /\ next \in [Cells -> Cells \cup {NULL}]
  BY DEF ListsAre, TypeOK
<1>4. prev'[cur] = NULL /\ \A c \in Cells : c # cur => prev'[c] = prev[c] /\ next'[c] = next[c]
  BY <1>1, <1>2, <1>3
<1>5. /\ \A i \in 0..(Len(r) + 1) : Cell("ready", r, i) # cur
      /\ \A i \in 0..(Len(f) + 1) : Cell("fire", f, i) # cur
  BY <1>2, CellsOf, NotACell, Sentinels
<1>6. ReadyLinks(r)'
  BY <1>1, <1>4, <1>5, CellsOf, ReadyFrame DEF ListsAre, Short
<1>7. FireLinks(f)'
  BY <1>1, <1>4, <1>5, CellsOf, FireFrame DEF ListsAre, Half
<1>8. TypeOK'
  BY <1>1, <1>3 DEF ListsAre, TypeOK, Points
<1>9. Removal(r, f)'
  BY <1>1 DEF Removal, Searching
<1>10. Addition(r, f)'
  BY <1>1 DEF ListsAre, Addition, Inserting, Half
<1>11. Memory(r, f)'
  <2>1. new = NULL
    BY <1>1 DEF ListsAre, Addition, Inserting, Half
  <2>2. used = ToSet(r) \cup ToSet(f) \cup {cur}
    BY <1>1, <1>2, <2>1 DEF ListsAre, Memory
  <2>3. used' = ToSet(r) \cup ToSet(f) \cup (({new'} \cup {}) \ {NULL})
    BY <1>1, <1>2, <2>1, <2>2
  <2>4. \A n \in Nodes \ used' : prev'[n] = NULL
    BY <1>1, <1>4 DEF ListsAre, Memory, Cells
  <2> QED
    BY <1>1, <2>3, <2>4 DEF ListsAre, Memory
<1> QED
  BY <1>6, <1>7, <1>8, <1>9, <1>10, <1>11 DEF ListsAre

-----------------------------------------------------------------------------
(* The handlers, between any two stores of the loop. *)
LEMMA ReadyInsertStep ==
  ASSUME NEW r, NEW f, ListsAre(r, f), ready_insert, Contended = {}
  PROVE  \E n \in Nodes : n \notin ToSet(r) \cup ToSet(f) /\ ListsAre(Append(r, n), f)'
<1> PICK m : m = Len(r)
  OBVIOUS
<1>1. PICK n \in Nodes \ used : insert("ready", n) /\ used' = used \cup {n}
  BY DEF ready_insert
<1> PICK g : g = Append(r, n)
  OBVIOUS
<1>2. /\ Entries(r) /\ m \in Nat /\ m \in 0..m /\ m \in 0..(m + 1) /\ m + 1 \in 0..(m + 1)
      /\ \A i \in 0..m : i \in 0..(m + 1) /\ i + 1 \in 0..(m + 1)
      /\ head("ready") = Cell("ready", r, m + 1) /\ head("ready") \in Cells
  BY CellsOf, CellIs, Sentinels
<1>3. /\ n \notin ToSet(r) /\ n \notin ToSet(f) /\ n # new /\ n # NULL /\ n \in Cells /\ n # head("ready")
      /\ pc = "free" => n # cur
  <2>1. ToSet(r) \subseteq used /\ ToSet(f) \subseteq used /\ (new = NULL \/ new \in used)
        /\ (pc = "free" => cur \in used \/ cur = NULL)
    BY DEF ListsAre, Memory
  <2> QED
    BY <2>1, Sentinels DEF Cells
<1>4. /\ Entries(g) /\ Len(g) = m + 1 /\ ToSet(g) = ToSet(r) \cup {n}
      /\ \A i \in 0..m : Cell("ready", g, i) = Cell("ready", r, i)
      /\ Cell("ready", g, m + 1) = n /\ Cell("ready", g, m + 2) = head("ready")
  BY <1>2, <1>3, Joined, Sentinels
<1>5. /\ prev \in [Cells -> Cells \cup {NULL}] /\ next \in [Cells -> Cells \cup {NULL}]
      /\ \A i \in 0..(m + 1) : Cell("ready", r, i) \in Cells /\ Cell("ready", r, i) # n
  BY <1>2, <1>3, CellsOf, NotACell, Sentinels DEF ListsAre, TypeOK
(* The loop is not unlinking the newest entry. *)
<1>6. pc \in {"delete 1", "delete 2 load", "delete 2"} => Cell("ready", r, m) # cur
  <2> SUFFICES ASSUME pc \in {"delete 1", "delete 2 load", "delete 2"}
               PROVE  Cell("ready", r, m) # cur
    OBVIOUS
  <2>1. prev[cur] # head("ready")
    BY DEF ready_insert, InsertContends, Unlinking
  <2>2. prev[Cell("ready", r, m)] = head("ready")
    BY <1>2 DEF ListsAre, ReadyLinks
  <2> QED
    BY <2>1, <2>2
<1>7. next[head("ready")] = Cell("ready", r, m)
  <2>1. next[Cell("ready", r, m + 1)] =
          IF Short /\ Cell("ready", r, m) = cur THEN next[cur] ELSE Cell("ready", r, m)
    BY <1>2 DEF ListsAre, ReadyLinks
  <2> QED
    BY <1>2, <1>6, <2>1 DEF Short
<1>8. /\ UNCHANGED <<pc, cur, new, reg>> /\ used' = used \cup {n}
      /\ next' = [next EXCEPT ![n] = Cell("ready", r, m), ![head("ready")] = n]
      /\ prev' = [prev EXCEPT ![Cell("ready", r, m)] = n, ![n] = head("ready")]
  BY <1>1, <1>7 DEF ready_insert, insert
<1>9. /\ next'[n] = Cell("ready", r, m) /\ next'[head("ready")] = n
      /\ prev'[n] = head("ready") /\ prev'[Cell("ready", r, m)] = n
      /\ \A c \in Cells : c # n /\ c # head("ready") => next'[c] = next[c]
      /\ \A c \in Cells : c # n /\ c # Cell("ready", r, m) => prev'[c] = prev[c]
  BY <1>2, <1>3, <1>5, <1>8
(* What the loop has loaded from cur is still there. *)
<1>10. /\ Short => next'[cur] = next[cur] /\ cur # n
       /\ pc \in {"delete 1", "delete 2"} => prev'[cur] = prev[cur] /\ next'[cur] = next[cur]
  <2> SUFFICES ASSUME pc \in {"delete 1", "delete 2 load", "delete 2"}
               PROVE  next'[cur] = next[cur] /\ prev'[cur] = prev[cur] /\ cur # n
    BY DEF Short
  <2>1. cur \in ToSet(r)
    BY DEF ListsAre, Removal, Searching
  <2>2. cur \in Cells /\ cur \in Nodes /\ cur # n /\ cur # head("ready") /\ cur # Cell("ready", r, m)
    BY <1>3, <1>6, <2>1, CurAt, Sentinels
  <2> QED
    BY <1>9, <2>2
<1>11. ReadyLinks(g)'
  <2>1. ASSUME NEW i \in 0..(m + 1)
        PROVE  /\ prev'[Cell("ready", g, i)] = Cell("ready", g, i + 1)
               /\ next'[Cell("ready", g, i + 1)] =
                    IF Short /\ Cell("ready", g, i) = cur THEN next'[cur] ELSE Cell("ready", g, i)
    <3>1. CASE i = m + 1
      <4>1. i + 1 = m + 2
        BY <1>2, <3>1
      <4> QED
        BY <1>4, <1>9, <1>10, <3>1, <4>1
    <3>2. CASE i = m
      <4>1. Short => Cell("ready", g, m) # cur
        BY <1>2, <1>4, <1>6 DEF Short
      <4> QED
        BY <1>2, <1>4, <1>9, <3>2, <4>1
    <3>3. CASE i # m /\ i # m + 1
      <4>1. /\ i \in 0..m /\ i + 1 \in 0..m /\ i \in 0..(m + 1) /\ i + 1 \in 0..(m + 1)
            /\ i + 1 # m + 1
        BY <1>2, <3>3
      <4>2. Cell("ready", r, i) # Cell("ready", r, m) /\ Cell("ready", r, i + 1) # head("ready")
        BY <1>2, <3>3, <4>1, CellsDiffer, Sentinels
      <4>3. /\ prev[Cell("ready", r, i)] = Cell("ready", r, i + 1)
            /\ next[Cell("ready", r, i + 1)] =
                 IF Short /\ Cell("ready", r, i) = cur THEN next[cur] ELSE Cell("ready", r, i)
        BY <4>1 DEF ListsAre, ReadyLinks
      <4>4. prev'[Cell("ready", r, i)] = Cell("ready", r, i + 1)
            /\ next'[Cell("ready", r, i + 1)] = next[Cell("ready", r, i + 1)]
        BY <1>5, <1>9, <4>1, <4>2, <4>3
      <4>5. Cell("ready", g, i) = Cell("ready", r, i)
            /\ Cell("ready", g, i + 1) = Cell("ready", r, i + 1)
        BY <1>4, <4>1
      <4> QED
        BY <1>10, <4>3, <4>4, <4>5
    <3> QED
      BY <3>1, <3>2, <3>3
  <2>2. (Short' <=> Short) /\ cur' = cur
    BY <1>8 DEF Short
  <2>3. \A i \in 0..Len(g) : prev'[Cell("ready", g, i)] = Cell("ready", g, i + 1)
    BY <1>4, <2>1
  <2>4. \A i \in 0..Len(g) :
          next'[Cell("ready", g, i + 1)] =
            IF Short' /\ Cell("ready", g, i) = cur' THEN next'[cur'] ELSE Cell("ready", g, i)
    BY <1>4, <2>1, <2>2
  <2> QED
    BY <1>4, <2>3, <2>4 DEF ReadyLinks
<1>12. FireLinks(f)'
  <2>1. \A i \in 0..(Len(f) + 1) : /\ Cell("fire", f, i) # n /\ Cell("fire", f, i) # head("ready")
                                   /\ Cell("fire", f, i) # Cell("ready", r, m)
                                   /\ Cell("fire", f, i) \in Cells
    BY <1>2, <1>3, CellsOf, NotACell, Sentinels
  <2> QED
    BY <1>8, <1>9, <2>1, FireFrame DEF ListsAre, Half
<1>13. TypeOK'
  BY <1>2, <1>3, <1>5, <1>8 DEF ListsAre, TypeOK
<1>14. Removal(g, f)'
  BY <1>3, <1>4, <1>8, <1>10 DEF ListsAre, Removal, Searching
<1>15. Addition(g, f)'
  <2>1. pc \in Inserting => prev'[new] = prev[new] /\ next'[new] = next[new]
    <3>1. pc \in Inserting => new \in Cells /\ new # head("ready") /\ new # Cell("ready", r, m)
      BY <1>2, NewApart
    <3> QED
      BY <1>3, <1>9, <3>1
  <2> QED
    BY <1>3, <1>4, <1>8, <2>1 DEF ListsAre, Addition, Inserting, Half
<1>16. Memory(g, f)'
  <2>1. used' = ToSet(g) \cup ToSet(f) \cup (({new'} \cup IF pc' = "free" THEN {cur'} ELSE {}) \ {NULL})
    BY <1>3, <1>4, <1>8 DEF ListsAre, Memory
  <2>2. \A c \in Nodes \ used : c # Cell("ready", r, m) /\ c \in Cells
    <3>1. Cell("ready", r, m) \in ToSet(r) \/ Cell("ready", r, m) \notin Nodes
      BY <1>2, CellIsEntry, Sentinels
    <3> QED
      BY <3>1 DEF ListsAre, Memory, Cells
  <2>3. \A c \in Nodes \ used' : prev'[c] = NULL
    BY <1>8, <1>9, <2>2 DEF ListsAre, Memory
  <2>4. ToSet(g) \cap ToSet(f) = {}
    BY <1>3, <1>4 DEF ListsAre, Memory
  <2> QED
    BY <2>1, <2>3, <2>4 DEF Memory
<1>17. ListsAre(g, f)'
  BY <1>11, <1>12, <1>13, <1>14, <1>15, <1>16 DEF ListsAre
<1> QED
  BY <1>3, <1>17

LEMMA OldestFiring ==
  ASSUME NEW r, NEW f, ListsAre(r, f), prev[tail("fire")] # head("fire"),
         prev[tail("fire")] # new
  PROVE  /\ 1 \in 1..Len(f) /\ Cell("fire", f, 1) = f[1] /\ f[1] \in Nodes /\ f[1] \in ToSet(f)
         /\ prev[tail("fire")] = f[1] /\ next[f[1]] = tail("fire")
         /\ prev[f[1]] = Cell("fire", f, 2)
         /\ Half => Len(f) # 1
<1> PICK m : m = Len(f)
  OBVIOUS
<1>1. /\ Entries(f) /\ m \in Nat /\ 0 \in 0..m
      /\ tail("fire") = Cell("fire", f, 0) /\ head("fire") = Cell("fire", f, m + 1)
  <2>1. m \in Nat
    BY CellsOf
  <2>2. 0 \in 0..m
    BY <2>1
  <2> QED
    BY <2>1, <2>2, FireHead
<1>2. Half => m # 0
  BY NewIsLast
<1>3. prev[tail("fire")] = Cell("fire", f, 0 + 1)
  BY <1>1, <1>2 DEF ListsAre, FireLinks
<1>4. m # 0
  BY <1>1, <1>3
<1>5. 1 \in 1..m /\ 1 \in 0..m /\ DOMAIN f = 1..m
  BY <1>1, <1>4 DEF Entries
<1>6. Cell("fire", f, 1) = f[1] /\ f[1] \in Nodes /\ f[1] \in ToSet(f)
  BY <1>1, <1>5, CellIs, Sentinels DEF ToSet
<1>7. Half => m # 1
  BY <1>3, <1>6, NewIsLast
<1>8. prev[f[1]] = Cell("fire", f, 1 + 1)
  BY <1>5, <1>6, <1>7 DEF ListsAre, FireLinks
<1>9. next[Cell("fire", f, 0 + 1)] = Cell("fire", f, 0) \/ (pc = "insert 3" /\ 0 = m)
  BY <1>1 DEF ListsAre, FireLinks
<1>10. 0 + 1 = 1 /\ 1 + 1 = 2
  OBVIOUS
<1>11. prev[tail("fire")] = f[1] /\ next[f[1]] = tail("fire")
  BY <1>1, <1>3, <1>4, <1>6, <1>9, <1>10
<1> QED
  BY <1>5, <1>6, <1>7, <1>8, <1>10, <1>11

LEMMA Positions ==
  ASSUME NEW m \in Nat, 1 \in 1..m
  PROVE  /\ 0 \in 0..(m + 1) /\ 1 \in 0..(m + 1) /\ 2 \in 0..(m + 1)
         /\ \A i \in 0..(m - 1) : i \in 0..m /\ i + 1 \in 0..m /\ i + 1 \in 0..(m + 1)
                                  /\ (i + 1) + 1 \in 0..(m + 1)
         /\ m # 1 => m - 1 \in 1..m /\ (m - 1) + 1 = m
  OBVIOUS

LEMMA FireDestroyStep ==
  ASSUME NEW r, NEW f, ListsAre(r, f), fire_destroy, Contended = {}
  PROVE  1 \in 1..Len(f) /\ ListsAre(r, RemoveAt(f, 1))'
<1> PICK m : m = Len(f)
  OBVIOUS
<1> PICK q : q = f[1]
  OBVIOUS
<1> PICK t : t = RemoveAt(f, 1)
  OBVIOUS
<1>1. /\ 1 \in 1..m /\ Cell("fire", f, 1) = q /\ q \in Nodes /\ q \in ToSet(f)
      /\ prev[tail("fire")] = q /\ next[q] = tail("fire")
      /\ prev[q] = Cell("fire", f, 2) /\ (Half => m # 1) /\ q # new
  BY OldestFiring DEF fire_destroy, is_list_empty, read_last
<1>2. /\ Entries(f) /\ m \in Nat /\ 0 \in 0..(m + 1) /\ 1 \in 0..(m + 1) /\ 2 \in 0..(m + 1)
      /\ \A i \in 0..(m - 1) : i \in 0..m /\ i + 1 \in 0..m /\ i + 1 \in 0..(m + 1)
                               /\ (i + 1) + 1 \in 0..(m + 1)
      /\ tail("fire") = Cell("fire", f, 0) /\ tail("fire") \in Cells
  <2>1. m \in Nat
    BY CellsOf
  <2> QED
    BY <1>1, <2>1, Positions, FireHead, Sentinels
<1>3. /\ Entries(t) /\ Len(t) = m - 1 /\ ToSet(t) = ToSet(f) \ {q}
      /\ \A i \in 0..m :
           Cell("fire", t, i) = IF i < 1 THEN Cell("fire", f, i) ELSE Cell("fire", f, i + 1)
  BY <1>1, <1>2, Left, Sentinels
<1>4. /\ Cell("fire", t, 0) = tail("fire")
      /\ \A i \in 1..m : Cell("fire", t, i) = Cell("fire", f, i + 1)
  BY <1>2, <1>3
<1>5. /\ prev \in [Cells -> Cells \cup {NULL}] /\ next \in [Cells -> Cells \cup {NULL}]
      /\ \A i \in 0..(m + 1) : Cell("fire", f, i) \in Cells
  BY CellsOf DEF ListsAre, TypeOK
<1>6. /\ UNCHANGED <<pc, cur, new, reg>> /\ used' = used \ {q}
      /\ next' = [next EXCEPT ![Cell("fire", f, 2)] = tail("fire"), ![q] = NULL]
      /\ prev' = [prev EXCEPT ![tail("fire")] = Cell("fire", f, 2), ![q] = NULL]
  BY <1>1 DEF fire_destroy, destroy_node, read_last
<1>7. q # Cell("fire", f, 2) /\ q # tail("fire") /\ q \in Cells /\ q # NULL
  <2>1. q # Cell("fire", f, 2)
    BY <1>1, <1>2, CellsDiffer, Sentinels
  <2> QED
    BY <1>1, <2>1, Sentinels DEF Cells
<1>8. /\ next'[Cell("fire", f, 2)] = tail("fire") /\ prev'[q] = NULL
      /\ prev'[tail("fire")] = Cell("fire", f, 2)
      /\ \A c \in Cells : c # q /\ c # Cell("fire", f, 2) => next'[c] = next[c]
      /\ \A c \in Cells : c # q /\ c # tail("fire") => prev'[c] = prev[c]
  BY <1>2, <1>5, <1>6, <1>7
<1>9. ReadyLinks(r)'
  <2>1. \A i \in 0..(Len(r) + 1) :
          /\ Cell("ready", r, i) # q /\ Cell("ready", r, i) # tail("fire")
          /\ Cell("ready", r, i) # Cell("fire", f, 2) /\ Cell("ready", r, i) \in Cells
    BY <1>1, <1>2, CellsOf
  <2>2. Short => cur \in ToSet(r)
    BY DEF Short, ListsAre, Removal, Searching
  <2> QED
    BY <1>6, <1>8, <2>1, <2>2, ReadyFrame DEF ListsAre, Short
<1>10. ASSUME NEW i \in 0..(m - 1)
       PROVE  /\ prev'[Cell("fire", t, i)] =
                   IF Half /\ i = m - 1 THEN NULL ELSE Cell("fire", t, i + 1)
              /\ \/ next'[Cell("fire", t, i + 1)] = Cell("fire", t, i)
                 \/ pc = "insert 3" /\ i = m - 1
  <2>1. CASE i = 0
    <3>1. 1 \in 1..m /\ 1 + 1 = 2 /\ i + 1 = 1
      BY <1>1, <2>1
    <3>2. Cell("fire", t, 1) = Cell("fire", f, 2)
      BY <1>4, <3>1
    <3>3. ~(Half /\ i = m - 1)
      BY <1>1, <1>2, <2>1
    <3> QED
      BY <1>4, <1>8, <2>1, <3>1, <3>2, <3>3
  <2>2. CASE i # 0
    <3>1. /\ i \in 1..m /\ i + 1 \in 1..m /\ i + 1 # 0 /\ i + 1 # 1
          /\ (i + 1) + 1 # 1 /\ (i + 1) + 1 # 2
          /\ i + 1 \in 0..m /\ i + 1 \in 0..(m + 1) /\ (i + 1) + 1 \in 0..(m + 1)
          /\ (i + 1 = m <=> i = m - 1)
      BY <1>2, <2>2
    <3>2. Cell("fire", t, i) = Cell("fire", f, i + 1)
          /\ Cell("fire", t, i + 1) = Cell("fire", f, (i + 1) + 1)
      BY <1>4, <3>1
    <3>3. /\ Cell("fire", f, i + 1) # q /\ Cell("fire", f, i + 1) # tail("fire")
          /\ Cell("fire", f, (i + 1) + 1) # q
          /\ Cell("fire", f, (i + 1) + 1) # Cell("fire", f, 2)
      BY <1>1, <1>2, <3>1, CellsDiffer, Sentinels
    <3>4. prev[Cell("fire", f, i + 1)] =
            IF Half /\ i + 1 = m THEN NULL ELSE Cell("fire", f, (i + 1) + 1)
      BY <3>1 DEF ListsAre, FireLinks
    <3>5. \/ next[Cell("fire", f, (i + 1) + 1)] = Cell("fire", f, i + 1)
          \/ pc = "insert 3" /\ i + 1 = m
      BY <3>1 DEF ListsAre, FireLinks
    <3>6. prev'[Cell("fire", f, i + 1)] = prev[Cell("fire", f, i + 1)]
          /\ next'[Cell("fire", f, (i + 1) + 1)] = next[Cell("fire", f, (i + 1) + 1)]
      BY <1>5, <1>8, <3>1, <3>3
    <3> QED
      BY <3>1, <3>2, <3>4, <3>5, <3>6
  <2> QED
    BY <2>1, <2>2
<1>11. FireLinks(t)'
  <2>1. (Half' <=> Half) /\ pc' = pc
    BY <1>6 DEF Half
  <2> QED
    BY <1>3, <1>10, <2>1 DEF FireLinks
<1>12. TypeOK'
  BY <1>2, <1>5, <1>6 DEF ListsAre, TypeOK
<1>13. q \notin ToSet(r)
  BY <1>1 DEF ListsAre, Memory
<1>14. Removal(r, t)'
  <2>1. pc \in Searching => prev'[cur] = prev[cur] /\ next'[cur] = next[cur]
    <3> SUFFICES ASSUME pc \in Searching PROVE prev'[cur] = prev[cur] /\ next'[cur] = next[cur]
      OBVIOUS
    <3>1. cur \in ToSet(r)
      BY DEF ListsAre, Removal
    <3>2. PICK k \in 1..Len(r) : Cell("ready", r, k) = cur /\ cur \in Cells
      BY <3>1, CurAt
    <3>3. k \in 0..(Len(r) + 1)
      BY CellsOf
    <3>4. cur # tail("fire") /\ cur # Cell("fire", f, 2) /\ cur # q
      BY <1>2, <1>13, <3>1, <3>2, <3>3, CellsOf
    <3> QED
      BY <1>8, <3>2, <3>4
  <2> QED
    BY <1>3, <1>6, <2>1 DEF ListsAre, Removal, Searching
(* The entry that is being added stays the newest one, and the one before  *)
(* it is only destroyed before add_firelist has looked at it.              *)
<1>15. Addition(r, t)'
  <2>1. pc \in Inserting => /\ new \in Nodes /\ new \notin ToSet(r) \cup ToSet(t)
                            /\ prev'[new] = NULL
    <3>1. pc \in Inserting => /\ new \in Nodes /\ new \notin ToSet(r) \cup ToSet(f)
                              /\ prev[new] = NULL /\ new \in Cells /\ new # tail("fire")
      BY <1>2, NewApart DEF ListsAre, Addition
    <3> QED
      BY <1>1, <1>3, <1>8, <3>1
  <2>2. Half => t # <<>> /\ t[Len(t)] = new
    <3> SUFFICES ASSUME Half PROVE t # <<>> /\ t[Len(t)] = new
      OBVIOUS
    <3>1. m # 1 /\ m # 0 /\ Cell("fire", f, m) = new
      BY <1>1, NewIsLast
    <3>2. m - 1 \in 1..m /\ (m - 1) + 1 = m /\ m - 1 \in 1..Len(t) /\ Len(t) # 0
      BY <1>2, <1>3, <3>1
    <3>3. Cell("fire", t, m - 1) = new
      BY <1>4, <3>1, <3>2
    <3> QED
      BY <1>3, <3>2, <3>3, CellIs, Sentinels
  <2>3. pc \in {"insert 2 load", "insert 2"} =>
          /\ next'[new] = next[new]
          /\ Cell("fire", t, Len(t)) = Cell("fire", f, m)
    <3> SUFFICES ASSUME pc \in {"insert 2 load", "insert 2"}
                 PROVE  /\ next'[new] = next[new]
                        /\ Cell("fire", t, Len(t)) = Cell("fire", f, m)
      OBVIOUS
    <3>1. next[new] # q
      BY <1>1 DEF fire_destroy, DestroyContends, Adding, read_last
    <3>2. next[new] = Cell("fire", f, m)
      BY DEF ListsAre, Addition
    <3>3. m # 1
      BY <1>1, <3>1, <3>2
    <3>4. m - 1 \in 1..m /\ (m - 1) + 1 = m
      BY <1>1, <1>2, <3>3, Positions
    <3>5. new \in Cells /\ new # Cell("fire", f, 2)
      BY <1>2, NewApart DEF Inserting
    <3> QED
      BY <1>1, <1>3, <1>4, <1>8, <3>4, <3>5
  <2> QED
    BY <1>6, <2>1, <2>2, <2>3 DEF ListsAre, Addition, Inserting, Half
<1>16. Memory(r, t)'
  <2>1. pc = "free" => cur # q
    BY <1>1 DEF ListsAre, Removal
  <2>2. used' = ToSet(r) \cup ToSet(t) \cup (({new'} \cup IF pc' = "free" THEN {cur'} ELSE {}) \ {NULL})
    BY <1>1, <1>3, <1>6, <1>13, <2>1 DEF ListsAre, Memory
  <2>3. \A c \in Nodes \ used' : prev'[c] = NULL
    <3>1. \A c \in Nodes : c \in Cells /\ c # tail("fire")
      BY Sentinels DEF Cells
    <3> QED
      BY <1>6, <1>8, <3>1 DEF ListsAre, Memory
  <2>4. ToSet(r) \cap ToSet(t) = {}
    BY <1>3 DEF ListsAre, Memory
  <2> QED
    BY <2>2, <2>3, <2>4 DEF Memory
<1> QED
  BY <1>1, <1>9, <1>11, <1>12, <1>14, <1>15, <1>16 DEF ListsAre

-----------------------------------------------------------------------------
(* The inductive invariant. *)
LEMMA Empty ==
  Init => ListsAre(<<>>, <<>>)
<1> SUFFICES ASSUME Init PROVE ListsAre(<<>>, <<>>)
  OBVIOUS
<1> PICK s : s = <<>>
  OBVIOUS
<1>1. Entries(s) /\ Len(s) = 0 /\ ToSet(s) = {} /\ s = <<>>
  BY DEF Entries, IsInjective, ToSet
<1>2. \A l \in Lists : Cell(l, s, 0) = tail(l) /\ Cell(l, s, 1) = head(l)
  BY <1>1, CellIs
<1>3. pc = "poll" /\ cur = NULL /\ new = NULL /\ used = {} /\ reg = NoReg
  BY DEF Init
<1>4. \A l \in Lists : prev[tail(l)] = head(l) /\ next[head(l)] = tail(l)
  <2> TAKE l \in Lists
  <2>1. tail(l)[1] = l /\ head(l)[1] = l
    BY DEF tail, head
  <2> QED
    BY <2>1, Sentinels DEF Init, create_list
<1>5. \A n \in Nodes : prev[n] = NULL
  BY Sentinels DEF Init, create_list, Cells
<1>6. TypeOK
  <2>1. \A l \in Lists : tail(l)[1] = l /\ head(l)[1] = l
    BY DEF tail, head
  <2>2. prev \in [Cells -> Cells \cup {NULL}]
    BY <2>1, Sentinels DEF Init, create_list
  <2>3. next \in [Cells -> Cells \cup {NULL}]
    BY <2>1, Sentinels DEF Init, create_list
  <2> QED
    BY <1>3, <2>2, <2>3 DEF TypeOK, Points, NoReg
<1>7. ReadyLinks(s)
  BY <1>1, <1>2, <1>3, <1>4, Sentinels DEF ReadyLinks, Short
<1>8. FireLinks(s)
  BY <1>1, <1>2, <1>3, <1>4, Sentinels DEF FireLinks, Half
<1>9. Removal(s, s) /\ Addition(s, s)
  BY <1>3 DEF Removal, Addition, Searching, Inserting, Half
<1>10. Memory(s, s)
  BY <1>1, <1>3, <1>5 DEF Memory
<1> QED
  BY <1>1, <1>6, <1>7, <1>8, <1>9, <1>10 DEF ListsAre

(* What one step does to the two sequences. *)
Joining(r, f, n) == n \in Nodes /\ n \notin ToSet(r) \cup ToSet(f)

LEMMA Step ==
  ASSUME Contended = {}, NEW r, NEW f, ListsAre(r, f), [Next]_vars
  PROVE  \/ ListsAre(r, f)'
         \/ \E n : Joining(r, f, n) /\ (ListsAre(Append(r, n), f)' \/ ListsAre(r, Append(f, n))')
         \/ \E k \in 1..Len(r) : ListsAre(RemoveAt(r, k), f)'
         \/ \E k \in 1..Len(f) : ListsAre(r, RemoveAt(f, k))'
<1>1. CASE Poll \/ SelectThis \/ SelectNext
  BY <1>1, SearchStep
<1>2. CASE Create
  BY <1>2, CreateStep
<1>3. CASE Insert1
  BY <1>3, Insert1Step
<1>4. CASE Insert2Load
  BY <1>4, Insert2LoadStep
<1>5. CASE Insert2
  <2> PICK n : n = new
    OBVIOUS
  <2>1. Joining(r, f, n)
    BY <1>5 DEF Insert2, At, Joining, ListsAre, Addition, Inserting
  <2>2. ListsAre(r, Append(f, n))'
    BY <1>5, Insert2Step
  <2> QED
    BY <2>1, <2>2
<1>6. CASE Insert3
  BY <1>6, Insert3Step
<1>7. CASE Insert4
  BY <1>7, Insert4Step
<1>8. CASE Delete1Load \/ Delete2Load
  BY <1>8, DeleteLoadStep
<1>9. CASE Delete1
  BY <1>9, Delete1Step
<1>10. CASE Delete2
  BY <1>10, Delete2Step
<1>11. CASE Free
  BY <1>11, FreeStep
<1>12. CASE ready_insert
  BY <1>12, ReadyInsertStep DEF Joining
<1>13. CASE fire_destroy
  BY <1>13, FireDestroyStep
<1>14. CASE UNCHANGED vars
  <2>1. UNCHANGED <<prev, next, used, pc, cur, new, reg>> /\ UNCHANGED ptrs
    BY <1>14 DEF vars, ptrs
  <2>2. ReadyLinks(r)' /\ FireLinks(f)'
    BY <2>1, QuietLinks DEF Short, Half
  <2>3. TypeOK'
    BY <2>1 DEF ListsAre, TypeOK
  <2>4. Removal(r, f)' /\ Addition(r, f)'
    BY <2>1 DEF ListsAre, Removal, Addition, Half
  <2>5. Memory(r, f)'
    BY <2>1 DEF ListsAre, Memory
  <2> QED
    BY <2>2, <2>3, <2>4, <2>5 DEF ListsAre
<1> QED
  BY <1>1, <1>2, <1>3, <1>4, <1>5, <1>6, <1>7, <1>8, <1>9, <1>10, <1>11, <1>12, <1>13, <1>14
  DEF Next, Loop

(* In every state the pointers form two lists, up to the one statement of  *)
(* insert or delete_node that the loop has not executed yet                *)
(* (src/linked_list.c).                                                    *)
THEOREM ListInvariant ==
  ASSUME Contended = {}
  PROVE  Spec => []ListInv
<1>1. Init => ListInv
  BY Empty DEF ListInv
<1>2. ListInv /\ [Next]_vars => ListInv'
  <2> SUFFICES ASSUME ListInv, [Next]_vars PROVE ListInv'
    OBVIOUS
  <2> PICK r, f : ListsAre(r, f)
    BY DEF ListInv
  <2> QED
    BY Step DEF ListInv
<1> QED
  BY <1>1, <1>2, PTL DEF Spec

-----------------------------------------------------------------------------
(* What the walks see. *)
LEMMA WalkBack ==
  ASSUME NEW p, NEW l \in Lists, NEW s, Entries(s), NEW e, e \notin Nodes,
         \A i \in 0..Len(s) : p[Cell(l, s, i)] = IF i = Len(s) THEN e ELSE Cell(l, s, i + 1)
  PROVE  Walk(p, tail(l)) = s
<1>1. s \in Seq(Nodes) /\ IsInjective(s) /\ Len(s) \in Nat
  BY DEF Entries
<1>2. 0 \in 0..Len(s) /\ 0 + 1 = 1 /\ (Len(s) # 0 => 1 \in 1..Len(s))
      /\ \A i \in 1..Len(s) : i \in 0..Len(s) /\ (i # Len(s) => i + 1 \in 1..Len(s))
  <2> PICK m : m = Len(s)
    OBVIOUS
  <2>1. m \in Nat
    BY <1>1
  <2> QED
    BY <2>1
<1>3. Cell(l, s, 0) = tail(l) /\ \A i \in 1..Len(s) : Cell(l, s, i) = s[i]
  BY CellIs
<1>4. p[tail(l)] = IF Len(s) = 0 THEN e ELSE s[1]
  BY <1>2, <1>3
<1>5. \A i \in 1..Len(s) : p[s[i]] = IF i = Len(s) THEN e ELSE s[i + 1]
  BY <1>2, <1>3
<1>6. Path(p, tail(l), s, e)
  BY <1>1, <1>4, <1>5 DEF Path
<1> QED
  BY <1>6, WalkIs

LEMMA WalkForth ==
  ASSUME NEW p, NEW l \in Lists, NEW s, Entries(s),
         \A i \in 0..Len(s) : p[Cell(l, s, i + 1)] = Cell(l, s, i)
  PROVE  Walk(p, head(l)) = Reverse(s)
<1> PICK m : m = Len(s)
  OBVIOUS
<1> PICK t : t = Reverse(s)
  OBVIOUS
<1>1. s \in Seq(Nodes) /\ m \in Nat /\ DOMAIN s = 1..m
      /\ \A i, j \in 1..m : s[i] = s[j] => i = j
  BY DEF Entries, IsInjective
<1>2. /\ m \in 0..m /\ 0 \in 0..m
      /\ \A i \in 1..m : /\ (m - i) + 1 \in 1..m /\ m - i \in 0..m
                         /\ (i = m <=> m - i = 0)
                         /\ (i # m => i + 1 \in 1..m /\ m - i \in 1..m /\ (m - (i + 1)) + 1 = m - i)
      /\ \A i, j \in 1..m : (m - i) + 1 = (m - j) + 1 => i = j
      /\ m # 0 => 1 \in 1..m /\ m \in 1..m /\ (m - 1) + 1 = m
  BY <1>1
<1>3. t = [i \in 1..m |-> s[(m - i) + 1]]
  BY DEF Reverse
<1>4. \A i \in 1..m : t[i] = s[(m - i) + 1] /\ t[i] \in Nodes
  BY <1>1, <1>2, <1>3
<1>5. t \in Seq(Nodes) /\ Len(t) = m /\ DOMAIN t = 1..m
  BY <1>1, <1>3, <1>4
<1>6. IsInjective(t)
  <2> DEFINE from(i) == (m - i) + 1
  <2>1. \A i \in 1..m : from(i) \in 1..m /\ t[i] = s[from(i)]
    BY <1>2, <1>4
  <2>2. \A i, j \in 1..m : from(i) = from(j) => i = j
    BY <1>2
  <2> HIDE DEF from
  <2>3. ASSUME NEW i \in 1..m, NEW j \in 1..m, t[i] = t[j] PROVE i = j
    <3>1. s[from(i)] = s[from(j)]
      BY <2>1, <2>3
    <3>2. from(i) = from(j)
      BY <1>1, <2>1, <3>1
    <3> QED
      BY <2>2, <3>2
  <2> QED
    BY <1>5, <2>3 DEF IsInjective
<1>7. /\ Cell(l, s, 0) = tail(l) /\ Cell(l, s, m + 1) = head(l)
      /\ \A i \in 1..m : Cell(l, s, i) = s[i]
  BY CellIs
<1>8. p[head(l)] = IF Len(t) = 0 THEN tail(l) ELSE t[1]
  <2>1. p[head(l)] = Cell(l, s, m)
    BY <1>2, <1>7
  <2> QED
    BY <1>2, <1>4, <1>5, <1>7, <2>1
<1>9. ASSUME NEW i \in 1..m PROVE p[t[i]] = IF i = m THEN tail(l) ELSE t[i + 1]
  <2>1. p[t[i]] = Cell(l, s, m - i)
    BY <1>2, <1>4, <1>7
  <2>2. CASE i = m
    BY <1>2, <1>7, <2>1, <2>2
  <2>3. CASE i # m
    <3> PICK j : j = i + 1
      OBVIOUS
    <3>1. j \in 1..m /\ (m - j) + 1 = m - i /\ m - i \in 1..m
      BY <1>2, <2>3
    <3>2. t[j] = s[m - i] /\ Cell(l, s, m - i) = s[m - i]
      BY <1>4, <1>7, <3>1
    <3> QED
      BY <2>1, <2>3, <3>2
  <2> QED
    BY <2>2, <2>3
<1>10. Path(p, head(l), t, tail(l))
  BY <1>5, <1>6, <1>8, <1>9 DEF Path
<1> QED
  BY <1>10, WalkIs, Sentinels

LEMMA WalksAre ==
  ASSUME NEW r, NEW f, ListsAre(r, f)
  PROVE  Backward("ready") = r /\ Backward("fire") = f
<1>1. Entries(r) /\ Entries(f)
  BY CellsOf
<1>2. Walk(prev, tail("ready")) = r
  <2>1. Cell("ready", r, Len(r) + 1) = head("ready") /\ head("ready") \notin Nodes
    BY <1>1, CellIs, Sentinels
  <2>2. \A i \in 0..Len(r) :
          prev[Cell("ready", r, i)] = IF i = Len(r) THEN head("ready") ELSE Cell("ready", r, i + 1)
    BY <2>1 DEF ListsAre, ReadyLinks
  <2> QED
    BY <1>1, <2>1, <2>2, WalkBack, Sentinels
<1>3. Walk(prev, tail("fire")) = f
  <2> DEFINE e == IF Half THEN NULL ELSE head("fire")
  <2>1. Cell("fire", f, Len(f) + 1) = head("fire") /\ e \notin Nodes
    BY <1>1, CellIs, Sentinels
  <2>2. \A i \in 0..Len(f) :
          prev[Cell("fire", f, i)] = IF i = Len(f) THEN e ELSE Cell("fire", f, i + 1)
    BY <2>1 DEF ListsAre, FireLinks
  <2> HIDE DEF e
  <2> QED
    BY <1>1, <2>1, <2>2, WalkBack, Sentinels
<1> QED
  BY <1>2, <1>3 DEF Backward

(* A list the loop is not changing reads the same in both directions: the  *)
(* four statements of insert and the two of delete_node                    *)
(* (src/linked_list.c), with the handlers in between.                      *)
THEOREM DirectionsAlwaysAgree ==
  ASSUME Contended = {}
  PROVE  Spec => []DirectionsAgree
<1>1. ListInv => DirectionsAgree
  <2> SUFFICES ASSUME ListInv, NEW l \in Lists \ Changing PROVE Forward(l) = Reverse(Backward(l))
    BY DEF DirectionsAgree
  <2> PICK r, f : ListsAre(r, f)
    BY DEF ListInv
  <2>1. CASE l = "ready"
    <3>1. ~Short
      BY <2>1 DEF Changing, Short
    <3>2. \A i \in 0..Len(r) : next[Cell("ready", r, i + 1)] = Cell("ready", r, i)
      BY <3>1 DEF ListsAre, ReadyLinks
    <3> QED
      BY <2>1, <3>2, CellsOf, WalkForth, WalksAre, Sentinels DEF Forward
  <2>2. CASE l = "fire"
    <3>1. pc # "insert 3"
      BY <2>2 DEF Changing
    <3>2. \A i \in 0..Len(f) : next[Cell("fire", f, i + 1)] = Cell("fire", f, i)
      BY <3>1 DEF ListsAre, FireLinks
    <3> QED
      BY <2>2, <3>2, CellsOf, WalkForth, WalksAre, Sentinels DEF Forward
  <2> QED
    BY <2>1, <2>2 DEF Lists
<1> QED
  BY <1>1, ListInvariant, PTL

(* No node is lost, in two lists or reachable after its release            *)
(* (ready_free and destroy_node, src/linked_list.c), and no pointer leads  *)
(* anywhere else.                                                          *)
THEOREM NodesAlwaysAccounted ==
  ASSUME Contended = {}
  PROVE  Spec => []NodesAccounted
<1>1. ListInv => NodesAccounted
  <2> SUFFICES ASSUME ListInv PROVE NodesAccounted
    OBVIOUS
  <2> PICK r, f : ListsAre(r, f)
    BY DEF ListInv
  <2>1. Backward("ready") = r /\ Backward("fire") = f
    BY WalksAre
  <2>2. /\ TypeOK /\ ToSet(r) \cap ToSet(f) = {}
        /\ used = ToSet(r) \cup ToSet(f) \cup (({new} \cup IF pc = "free" THEN {cur} ELSE {}) \ {NULL})
    BY DEF ListsAre, Memory
  <2>3. cur # NULL => cur \in used /\ (pc # "free" => cur \in ToSet(r))
    <3>1. pc \in Searching \/ pc = "poll" \/ pc = "free"
      BY <2>2 DEF TypeOK, Points, Searching
    <3> QED
      BY <2>2, <3>1 DEF ListsAre, Removal
  <2> QED
    BY <2>1, <2>2, <2>3 DEF NodesAccounted
<1> QED
  BY <1>1, ListInvariant, PTL

(* Seen through prev, the way ready_select and read_last go, both lists    *)
(* are sequences in order of insertion (src/linked_list.c): a store of     *)
(* insert or delete_node either changes no sequence or is the moment an    *)
(* entry joins or leaves.                                                  *)
THEOREM ListsImplementOrder ==
  ASSUME Contended = {}
  PROVE  Spec => ImplementsOrder
<1> DEFINE order == [l \in Lists |-> Backward(l)]
           seqs(r, f) == [l \in Lists |-> IF l = "ready" THEN r ELSE f]
<1>1. \A r, f : ListsAre(r, f) => order = seqs(r, f)
  <2> SUFFICES ASSUME NEW r, NEW f, ListsAre(r, f) PROVE order = seqs(r, f)
    OBVIOUS
  <2>1. Backward("ready") = r /\ Backward("fire") = f
    BY WalksAre
  <2> QED
    BY <2>1 DEF Lists
<1>2. Init => L!Init
  <2> SUFFICES ASSUME Init PROVE L!Init
    OBVIOUS
  <2>1. order = seqs(<<>>, <<>>)
    BY <1>1, Empty
  <2> QED
    BY <2>1 DEF L!Init
<1>3. (\A r, f : ListsAre(r, f) => order = seqs(r, f))'
  BY <1>1, PTL
<1>4. ListInv /\ [Next]_vars => [L!Next]_order
  <2> SUFFICES ASSUME ListInv, [Next]_vars PROVE [L!Next]_order
    OBVIOUS
  <2> PICK r, f : ListsAre(r, f)
    BY DEF ListInv
  <2>1. order = seqs(r, f)
    BY <1>1
  <2>2. CASE ListsAre(r, f)'
    <3>1. order' = seqs(r, f)
      BY <1>3, <2>2
    <3> QED
      BY <2>1, <3>1
  <2>3. ASSUME NEW n, Joining(r, f, n),
               ListsAre(Append(r, n), f)' \/ ListsAre(r, Append(f, n))'
        PROVE  L!Next
    <3>1. n \in Nodes /\ \A k \in Lists : n \notin ToSet(order[k])
      BY <2>1, <2>3 DEF Joining
    <3>2. CASE ListsAre(Append(r, n), f)'
      <4>1. order' = seqs(Append(r, n), f)
        BY <1>3, <3>2
      <4>2. order' = [order EXCEPT !["ready"] = Append(@, n)]
        BY <2>1, <4>1, Sentinels DEF Lists
      <4>3. L!Join("ready", n)
        BY <3>1, <4>2 DEF L!Join, L!ToSet, ToSet
      <4> QED
        BY <3>1, <4>3, Sentinels DEF L!Next
    <3>3. CASE ListsAre(r, Append(f, n))'
      <4>1. order' = seqs(r, Append(f, n))
        BY <1>3, <3>3
      <4>2. order' = [order EXCEPT !["fire"] = Append(@, n)]
        BY <2>1, <4>1, Sentinels DEF Lists
      <4>3. L!Join("fire", n)
        BY <3>1, <4>2 DEF L!Join, L!ToSet, ToSet
      <4> QED
        BY <3>1, <4>3, Sentinels DEF L!Next
    <3> QED
      BY <2>3, <3>2, <3>3
  <2>4. ASSUME NEW k \in 1..Len(r), ListsAre(RemoveAt(r, k), f)' PROVE L!Next
    <3>1. order' = seqs(RemoveAt(r, k), f)
      BY <1>3, <2>4
    <3>2. order' = [order EXCEPT !["ready"] = RemoveAt(@, k)]
      BY <2>1, <3>1, Sentinels DEF Lists
    <3>3. k \in DOMAIN order["ready"]
      BY <2>1, CellsOf, Sentinels DEF Entries
    <3>4. L!Leave("ready", k)
      BY <3>2 DEF L!Leave, L!RemoveAt, RemoveAt
    <3> QED
      BY <3>3, <3>4, Sentinels DEF L!Next
  <2>5. ASSUME NEW k \in 1..Len(f), ListsAre(r, RemoveAt(f, k))' PROVE L!Next
    <3>1. order' = seqs(r, RemoveAt(f, k))
      BY <1>3, <2>5
    <3>2. order' = [order EXCEPT !["fire"] = RemoveAt(@, k)]
      BY <2>1, <3>1, Sentinels DEF Lists
    <3>3. k \in DOMAIN order["fire"]
      BY <2>1, CellsOf, Sentinels DEF Entries
    <3>4. L!Leave("fire", k)
      BY <3>2 DEF L!Leave, L!RemoveAt, RemoveAt
    <3> QED
      BY <3>3, <3>4, Sentinels DEF L!Next
  <2> QED
    BY <2>2, <2>3, <2>4, <2>5, Step
<1> QED
  BY <1>2, <1>4, ListInvariant, PTL DEF Spec, ImplementsOrder, L!Spec
=============================================================================
