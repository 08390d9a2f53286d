----------------------------- MODULE HeapProofs -----------------------------
(***************************************************************************)
(* Theorems about Heap, for every heap and every set of requests, when no  *)
(* handler frees during a malloc.                                          *)
(***************************************************************************)
EXTENDS HeapProperties, FiniteSetTheorems, Sequences, TLAPS

First == get_firstblock
End   == get_epilogue

(* A tag is a word that says the size of a block and whether it is         *)
(* allocated; bits 1 and 2 are whatever the word held before.              *)
Tag(v, n, x) == /\ v \in Nat
                /\ v - (v % 8) = n
                /\ v % 2 = x

(* s gives the size of every block.  The blocks tile the heap. *)
Tiles(s) ==
  /\ DOMAIN s \subseteq Header /\ First \in DOMAIN s
  /\ \A b \in DOMAIN s : /\ s[b] \in Nat /\ s[b] >= MIN_BLOCKSIZE /\ s[b] % 8 = 0
                         /\ First <= b /\ b + s[b] <= End
                         /\ b + s[b] \in DOMAIN s \cup {End}
  /\ \A b, c \in DOMAIN s : b < c => b + s[b] <= c
  /\ \A b \in DOMAIN s \cup {End} : b # First => \E c \in DOMAIN s : c + s[c] = b

Status(F, b) == IF b \in F THEN FREE ELSE ALLOCATED

(* The words mem tag the blocks of s, those of F as free. *)
Tagged(mem, s, F) ==
  /\ Tag(mem[First - 8], 8, ALLOCATED)
  /\ Tag(mem[First - 4], 8, ALLOCATED)
  /\ Tag(mem[End], 0, ALLOCATED)
  /\ \A b \in DOMAIN s : /\ Tag(mem[b], s[b], Status(F, b))
                         /\ Tag(mem[b + s[b] - 4], s[b], Status(F, b))

(* The words of a block between its tags. *)
Inside(s, b) == {a \in Words : b < a /\ a < b + s[b] - 4}

(* What a word holds: a tag, a link, a payload address or Junk. *)
Value  == 0..(alloc_end - 1)
Memory == [mem : [Words -> Value], head : Nat, counter : Nat]

(* g is h with nothing but words of A written. *)
Wrote(h, g, A) == /\ g \in Memory /\ g.head = h.head /\ g.counter = h.counter
                  /\ \A a \in Words \ A : g.mem[a] = h.mem[a]

(* The ring of h is r: the list head first, each block linked to the next  *)
(* and to the one before.                                                  *)
After(r, i)  == IF i = Len(r) THEN r[1] ELSE r[i + 1]
Before(r, i) == IF i = 1 THEN r[Len(r)] ELSE r[i - 1]
Links(r) == UNION {{r[i] + 4, r[i] + 8} : i \in 1..Len(r)}
Members(r) == {r[i] : i \in 1..Len(r)}
Ring(h, r) ==
  /\ r \in Seq(Header)
  /\ \A i, j \in 1..Len(r) : r[i] = r[j] => i = j
  /\ \A i \in 1..Len(r) : r[i] + 8 \in Words
  /\ h.counter = Len(r)
  /\ h.head = IF Len(r) = 0 THEN 0 ELSE r[1]
  /\ \A i \in 1..Len(r) : /\ h.mem[r[i] + 8] = After(r, i)
                          /\ h.mem[r[i] + 4] = Before(r, i)

(* The list of h holds exactly the blocks of M. *)
List(h, M) == \E r : Ring(h, r) /\ M = Members(r)
LinksOf(M) == UNION {{b + 4, b + 8} : b \in M}

(* In the memory of h, s and F are the blocks and the free ones. *)
Blocks(h, s, F) == h \in Memory /\ Tiles(s) /\ F \subseteq DOMAIN s /\ Tagged(h.mem, s, F)

Separate(s, F) == \A b \in F : b + s[b] \notin F

(* Region r is held in block b: at its payload, or further up, with the    *)
(* address of the payload in the word before.                              *)
Region == [ptr : Nat, used : Nat, lli : BOOLEAN]
InBlock(mem, s, r, b) ==
  /\ r.ptr % 8 = 0 /\ b + 4 <= r.ptr /\ r.ptr + r.used <= b + s[b] - 4
  /\ r.lli => r.ptr % LLI_SIZE = 0
  /\ r.ptr # b + 4 => r.lli /\ mem[r.ptr - 4] = b + 4
  /\ \A a \in Words : r.ptr <= a /\ a < r.ptr + r.used => mem[a] = Junk

(* own gives each region its block, and each block of U its region. *)
Holding(mem, s, own, U) ==
  /\ live \subseteq Region
  /\ own \in [live -> U]
  /\ \A r, q \in live : own[r] = own[q] => r = q
  /\ \A b \in U : \E r \in live : own[r] = b
  /\ \A r \in live : InBlock(mem, s, r, own[r])

(* A malloc under way has split its block off a free one, but the list     *)
(* still has the block itself where it should have the rest.               *)
Underway(s, F) ==
  taken # NoBlock =>
    /\ taken.block \in DOMAIN s \ F /\ taken.block + s[taken.block] \in F
    /\ taken.req \in Requests /\ taken.req.size > 0
    /\ s[taken.block] = Want(taken.req, taken.block)
    /\ taken.old = s[taken.block] + s[taken.block + s[taken.block]]
    /\ refused = NoRequest

Listed(s, F) == IF taken = NoBlock THEN F
                ELSE (F \ {taken.block + s[taken.block]}) \cup {taken.block}

Refusal(s, F) ==
  /\ refused \in Requests \cup {NoRequest}
  /\ refused # NoRequest => \A b \in F : s[b] < Want(refused, b) + MIN_BLOCKSIZE

HeapIs(s, F, own) ==
  /\ Blocks(heap, s, F)
  /\ Separate(s, F)
  /\ Underway(s, F)
  /\ List(heap, Listed(s, F))
  /\ Holding(heap.mem, s, own, (DOMAIN s \ F) \ {taken.block})
  /\ Refusal(s, F)

HeapInv == \E s, F, own : HeapIs(s, F, own)

-----------------------------------------------------------------------------
(* Numbers. *)

(* A nonempty set of numbers has a smallest one. *)
LEMMA SmallestNumber ==
  ASSUME NEW T \in SUBSET Nat, T # {}
  PROVE  \E x \in T : \A y \in T : ~(y < x)
<1> DEFINE R == OpToRel(<, Nat)
<1>1. IsWellFoundedOn(R, Nat)
  BY NatLessThanWellFounded
<1>2. PICK x \in T : \A y \in T : ~(<<y, x>> \in R)
  <2> HIDE DEF R
  <2> QED
    BY <1>1, WFMin
<1>3. \A y \in T : <<y, x>> \in Nat \X Nat => ~(y < x)
  BY <1>2 DEF OpToRel
<1> HIDE DEF R
<1> QED
  BY <1>3

(* Induction, for the set of the numbers that have a property. *)
LEMMA SetInduction ==
  ASSUME NEW S \in SUBSET Nat, 0 \in S, \A n \in S : n + 1 \in S
  PROVE  S = Nat
<1> SUFFICES ASSUME Nat \ S # {} PROVE FALSE
  OBVIOUS
<1>1. PICK x \in Nat \ S : \A y \in Nat \ S : ~(y < x)
  BY SmallestNumber
<1>2. x - 1 \in Nat /\ x - 1 < x
  BY <1>1
<1>3. x - 1 \in S
  BY <1>1, <1>2
<1> QED
  BY <1>1, <1>2, <1>3

-----------------------------------------------------------------------------
(* Tags and words. *)

(* set_allocated and then set_blocksize make a tag of any word.            *)
LEMMA TagMade ==
  ASSUME NEW v \in Nat, NEW n \in Nat, n % 8 = 0, NEW x \in {0, 1}
  PROVE  LET w == v - (v % 2) + x
         IN  w \in Nat /\ Tag((w % 8) + n, n, x)
<1> DEFINE w == v - (v % 2) + x
<1>1. w \in Nat /\ w % 2 = x
  OBVIOUS
<1> HIDE DEF w
<1>2. w % 8 \in 0..7 /\ (w % 8) % 2 = x
  BY <1>1
<1>3. \A y \in 0..7 : (y + n) % 8 = y /\ (y + n) % 2 = y % 2 /\ y + n \in Nat
  OBVIOUS
<1> QED
  BY <1>1, <1>2, <1>3 DEF Tag, w

(* set_allocated keeps the size of a tag.                                  *)
LEMMA TagFlipped ==
  ASSUME NEW v, NEW n, NEW y, Tag(v, n, y), NEW x \in {0, 1}
  PROVE  Tag(v - (v % 2) + x, n, x)
<1>1. v \in Nat /\ v - (v % 2) + x \in Nat
  BY DEF Tag
<1>2. (v - (v % 2) + x) % 2 = x
  BY <1>1
<1>3. (v - (v % 2) + x) - ((v - (v % 2) + x) % 8) = v - (v % 8)
  BY <1>1
<1> QED
  BY <1>1, <1>2, <1>3 DEF Tag

(* set_blocksize keeps whether a tag says allocated.                       *)
LEMMA TagSized ==
  ASSUME NEW v \in Nat, NEW n \in Nat, n % 8 = 0
  PROVE  Tag((v % 8) + n, n, v % 2)
<1>1. v % 8 \in 0..7 /\ (v % 8) % 2 = v % 2
  OBVIOUS
<1>2. \A y \in 0..7 : (y + n) % 8 = y /\ (y + n) % 2 = y % 2 /\ y + n \in Nat
  OBVIOUS
<1> QED
  BY <1>1, <1>2 DEF Tag

(* Where the heap begins and ends, and what is a word of it.               *)
LEMMA WordsAre ==
  /\ alloc_start \in Nat \ {0} /\ alloc_start % 8 = 0 /\ alloc_end \in Nat /\ alloc_end % 8 = 0
  /\ First = alloc_start + 12 /\ End = alloc_end - 4 /\ First + 16 <= End
  /\ First \in Header /\ First % 8 = 4 /\ End % 8 = 4 /\ End \in Words /\ First - 4 \in Words /\ First - 8 \in Words
  /\ Words \subseteq Nat /\ 0 \notin Words /\ Header \subseteq Words
  /\ \A a \in Nat : a % 4 = 0 /\ First <= a /\ a <= End => a \in Words
<1>1. /\ alloc_start \in Nat \ {0} /\ alloc_start % 8 = 0 /\ alloc_end \in Nat /\ alloc_end % 8 = 0
      /\ alloc_end - alloc_start - 16 >= 16
  BY HeapAssumption DEF MIN_BLOCKSIZE
<1>2. First = alloc_start + 12 /\ End = alloc_end - 4 /\ First + 16 <= End
  BY <1>1 DEF First, End, get_firstblock, get_epilogue, get_prologue
<1> QED
  BY <1>1, <1>2 DEF Words, Header

(* A store changes one word.                                               *)
LEMMA Stored ==
  ASSUME NEW h \in Memory, NEW a \in Words, NEW v \in Value
  PROVE  Store(h, a, v).mem[a] = v /\ Wrote(h, Store(h, a, v), {a})
BY DEF Memory, Store, Wrote

(* A load finds what the word holds.                                       *)
LEMMA Loaded ==
  ASSUME NEW h \in Memory, NEW a \in Words
  PROVE  Load(h, a) = h.mem[a] /\ h.mem[a] \in Value /\ h.mem[a] \in Nat
BY WordsAre DEF Memory, Load, Value

(* Mark writes one word, and what it writes is the tag. *)
LEMMA Marked ==
  ASSUME NEW h \in Memory, NEW a \in Words, NEW n \in Nat, n % 8 = 0, n + 7 \in Value,
         NEW x \in {0, 1}
  PROVE  LET g == Mark(h, a, n, x) IN Tag(g.mem[a], n, x) /\ Wrote(h, g, {a})
<1> DEFINE v == h.mem[a]
           w == v - (v % 2) + x
           f == Store(h, a, w)
<1>1. v \in Nat /\ w \in Value /\ Tag((w % 8) + n, n, x) /\ (w % 8) + n \in Value
  <2>1. v \in Nat /\ v \in Value /\ alloc_end \in Nat /\ alloc_end % 8 = 0
    BY Loaded, WordsAre
  <2> HIDE DEF v
  <2>2. w \in Nat /\ Tag((w % 8) + n, n, x)
    BY <2>1, TagMade
  <2>3. w \in Value
    BY <2>1 DEF Value
  <2>4. (w % 8) + n \in Value
    <3> HIDE DEF w
    <3> QED
      BY <2>1, <2>2 DEF Value
  <2> QED
    BY <2>1, <2>2, <2>3, <2>4
<1>2. set_allocated(h, a, x) = f
  BY Loaded DEF set_allocated
<1> HIDE DEF w
<1>3. f \in Memory /\ f.mem[a] = w /\ Wrote(h, f, {a})
  BY <1>1, Stored DEF Wrote
<1> HIDE DEF f
<1>4. set_blocksize(f, a, n) = Store(f, a, (w % 8) + n)
  BY <1>3, Loaded DEF set_blocksize
<1>5. /\ Store(f, a, (w % 8) + n) \in Memory
      /\ Store(f, a, (w % 8) + n).mem[a] = (w % 8) + n
      /\ Wrote(f, Store(f, a, (w % 8) + n), {a})
  BY <1>1, <1>3, Stored DEF Wrote
<1>6. Wrote(h, Store(f, a, (w % 8) + n), {a})
  BY <1>3, <1>5 DEF Wrote
<1> QED
  BY <1>1, <1>2, <1>4, <1>5, <1>6 DEF Mark

(* set_blocksize writes one word, and keeps its allocation bit.            *)
LEMMA SizeWritten ==
  ASSUME NEW h \in Memory, NEW a \in Words, NEW n \in Nat, n % 8 = 0, n + 7 \in Value
  PROVE  LET g == set_blocksize(h, a, n)
         IN  Tag(g.mem[a], n, h.mem[a] % 2) /\ Wrote(h, g, {a})
<1> DEFINE v == h.mem[a]
<1>1. v \in Nat /\ v % 8 \in 0..7 /\ alloc_end \in Nat
  <2>1. v \in Nat
    BY Loaded
  <2> QED
    BY <2>1, WordsAre
<1>2. set_blocksize(h, a, n) = Store(h, a, (v % 8) + n)
  BY Loaded DEF set_blocksize
<1>3. Tag((v % 8) + n, n, v % 2)
  BY <1>1, TagSized
<1> HIDE DEF v
<1>4. (v % 8) + n \in Value
  BY <1>1 DEF Value
<1> HIDE <1>2
<1>5. /\ Store(h, a, (v % 8) + n).mem[a] = (v % 8) + n
      /\ Wrote(h, Store(h, a, (v % 8) + n), {a})
  BY <1>4, Stored
<1> QED
  BY <1>2, <1>3, <1>5 DEF v

(* set_allocated writes one word, and keeps the size in it.                *)
LEMMA FlagWritten ==
  ASSUME NEW h \in Memory, NEW a \in Words, NEW n, NEW y, Tag(h.mem[a], n, y), NEW x \in {0, 1}
  PROVE  LET g == set_allocated(h, a, x) IN Tag(g.mem[a], n, x) /\ Wrote(h, g, {a})
<1> DEFINE v == h.mem[a]
           w == v - (v % 2) + x
<1>1. v \in Nat /\ w \in Value /\ Tag(w, n, x)
  <2>1. v \in Nat /\ v \in Value /\ alloc_end \in Nat /\ alloc_end % 8 = 0
    BY Loaded, WordsAre
  <2>2. w \in Value
    BY <2>1 DEF Value
  <2> QED
    BY <2>1, <2>2, TagFlipped
<1>2. set_allocated(h, a, x) = Store(h, a, w)
  BY Loaded DEF set_allocated
<1> HIDE DEF w
<1>3. Store(h, a, w).mem[a] = w /\ Wrote(h, Store(h, a, w), {a})
  BY <1>1, Stored
<1> QED
  BY <1>1, <1>2, <1>3

-----------------------------------------------------------------------------
(* The ring. *)
LEMMA HeaderFacts ==
  ASSUME NEW b \in Header
  PROVE  /\ b \in Nat /\ b # 0 /\ b % 8 = 4 /\ b + 4 \in Nat /\ b + 8 \in Nat
         /\ b + 8 \in Words => b + 4 \in Words
         /\ b \in Value
<1>1. b \in Nat /\ b # 0 /\ b % 8 = 4
  BY WordsAre DEF Header
<1>2. b \in Value
  BY <1>1, WordsAre DEF Words, Header, Value
<1> QED
  BY <1>1, <1>2, WordsAre DEF Words

(* The links of two blocks are different words.                            *)
LEMMA HeadersApart ==
  ASSUME NEW b \in Header, NEW c \in Header
  PROVE  b + 4 # c + 8 /\ (b + 4 = c + 4 => b = c) /\ (b + 8 = c + 8 => b = c)
<1>1. b \in Nat /\ b % 8 = 4 /\ c \in Nat /\ c % 8 = 4
  BY HeaderFacts
<1> QED
  BY <1>1

(* The list is empty exactly when the ring is.                             *)
LEMMA RingEmpty ==
  ASSUME NEW h, NEW r, Ring(h, r)
  PROVE  EmptyList(h) <=> Len(r) = 0
<1>1. Len(r) # 0 => r[1] \in Header
  BY DEF Ring
<1> QED
  BY <1>1, HeaderFacts DEF Ring, EmptyList

(* A write to words that are no link of the ring leaves it as it was. *)
LEMMA RingKept ==
  ASSUME NEW h, NEW g, NEW r, Ring(h, r), NEW A, Wrote(h, g, A), Links(r) \cap A = {}
  PROVE  Ring(g, r)
<1>1. ASSUME NEW i \in 1..Len(r)
      PROVE  g.mem[r[i] + 8] = h.mem[r[i] + 8] /\ g.mem[r[i] + 4] = h.mem[r[i] + 4]
  <2>1. r[i] \in Header /\ r[i] + 8 \in Words
    BY DEF Ring
  <2>2. r[i] + 8 \in Links(r) /\ r[i] + 4 \in Links(r) /\ r[i] + 4 \in Words
    BY <2>1, HeaderFacts DEF Links
  <2> QED
    BY <2>1, <2>2 DEF Wrote
<1> QED
  BY <1>1 DEF Ring, Wrote

(* free_list_insert makes a ring of one block.                             *)
LEMMA RingInsertEmpty ==
  ASSUME NEW h \in Memory, NEW r, Ring(h, r), Len(r) = 0, NEW b \in Header, b + 8 \in Words
  PROVE  LET g == free_list_insert(h, b)
         IN  /\ g \in Memory /\ Ring(g, <<b>>)
             /\ \A a \in Words : a # b + 4 /\ a # b + 8 => g.mem[a] = h.mem[a]
<1> DEFINE h1 == Store(h, b + 4, b)
           h2 == Store(h1, b + 8, b)
           g  == [h2 EXCEPT !.head = b, !.counter = 1]
<1>1. b \in Value /\ b \in Nat /\ b # 0 /\ b + 4 \in Words /\ b + 4 # b + 8
  BY HeaderFacts
<1>2. h1 \in Memory /\ h1.mem[b + 4] = b /\ \A a \in Words : a # b + 4 => h1.mem[a] = h.mem[a]
  BY <1>1, Stored DEF Wrote
<1> HIDE DEF h1
<1>3. h2 \in Memory /\ h2.mem[b + 8] = b /\ \A a \in Words : a # b + 8 => h2.mem[a] = h1.mem[a]
  BY <1>1, <1>2, Stored DEF Wrote
<1> HIDE DEF h2
<1>4. g \in Memory /\ g.mem = h2.mem /\ g.head = b /\ g.counter = 1
  BY <1>1, <1>3 DEF Memory
<1>5. free_list_insert(h, b) = g
  BY <1>1, RingEmpty DEF free_list_insert, set_prevfree, set_nextfree, h1, h2
<1> HIDE DEF g
<1>6. Ring(g, <<b>>)
  BY <1>1, <1>2, <1>3, <1>4 DEF Ring, After, Before
<1> QED
  BY <1>2, <1>3, <1>4, <1>5, <1>6

(* Inserting before the head f of a ring whose last block is l. *)
LEMMA Spliced ==
  ASSUME NEW h \in Memory, ~EmptyList(h), NEW b \in Header, b + 8 \in Words,
         NEW f \in Header, f + 8 \in Words, h.head = f,
         NEW l \in Header, l + 8 \in Words, h.mem[f + 4] = l, b # f, b # l
  PROVE  LET g == free_list_insert(h, b)
         IN  /\ g \in Memory /\ g.head = b /\ g.counter = h.counter + 1
             /\ g.mem[b + 8] = f /\ g.mem[f + 4] = b /\ g.mem[l + 8] = b /\ g.mem[b + 4] = l
             /\ \A a \in Words : a \notin {b + 8, f + 4, l + 8, b + 4} => g.mem[a] = h.mem[a]
<1> DEFINE h1 == Store(h, b + 8, f)
           h2 == Store(h1, f + 4, b)
           h3 == Store(h2, l + 8, b)
           h4 == Store(h3, b + 4, l)
           g  == [h4 EXCEPT !.head = b, !.counter = h4.counter + 1]
<1>1. /\ b \in Value /\ f \in Value /\ l \in Value
      /\ b \in Nat /\ b # 0 /\ b + 4 \in Words
      /\ f \in Nat /\ f # 0 /\ f + 4 \in Words /\ l \in Nat /\ l # 0
  BY HeaderFacts
<1>2. get_prevfree(h, h.head) = l
  BY <1>1, Loaded DEF get_prevfree
<1>3. h1 \in Memory /\ Wrote(h, h1, {b + 8}) /\ h1.mem[b + 8] = f
  <2>1. Wrote(h, h1, {b + 8}) /\ h1.mem[b + 8] = f
    BY <1>1, Stored
  <2> QED
    BY <2>1 DEF Wrote
<1>4. h2 \in Memory /\ Wrote(h1, h2, {f + 4}) /\ h2.mem[f + 4] = b
  BY <1>1, <1>3, Stored DEF Wrote
<1>5. h3 \in Memory /\ Wrote(h2, h3, {l + 8}) /\ h3.mem[l + 8] = b
  BY <1>1, <1>4, Stored DEF Wrote
<1>6. h4 \in Memory /\ Wrote(h3, h4, {b + 4}) /\ h4.mem[b + 4] = l
  BY <1>1, <1>5, Stored DEF Wrote
<1>7. free_list_insert(h, b) = g
  BY <1>1, <1>2 DEF free_list_insert, set_prevfree, set_nextfree
<1> HIDE DEF h1, h2, h3, h4
<1>8. h4.counter = h.counter /\ h.counter \in Nat
  BY <1>3, <1>4, <1>5, <1>6 DEF Wrote, Memory
<1>9. g \in Memory /\ g.mem = h4.mem /\ g.head = b /\ g.counter = h.counter + 1
  <2>1. h4.counter + 1 \in Nat
    BY <1>8
  <2>2. g \in Memory /\ g.mem = h4.mem /\ g.head = b /\ g.counter = h4.counter + 1
    BY <1>1, <1>6, <2>1 DEF Memory
  <2> QED
    BY <1>8, <2>2
<1> HIDE DEF g
<1>10. /\ b + 8 # f + 4 /\ b + 8 # l + 8 /\ b + 8 # b + 4
       /\ f + 4 # l + 8 /\ f + 4 # b + 4 /\ l + 8 # b + 4
  BY HeadersApart
<1> QED
  BY <1>1, <1>3, <1>4, <1>5, <1>6, <1>7, <1>9, <1>10 DEF Wrote

(* free_list_insert puts the block in front of a ring that has some.       *)
LEMMA RingInsertMore ==
  ASSUME NEW h \in Memory, NEW r, Ring(h, r), Len(r) # 0,
         NEW b \in Header, b + 8 \in Words, b \notin Members(r)
  PROVE  LET g == free_list_insert(h, b)
             q == [i \in 1..(Len(r) + 1) |-> IF i = 1 THEN b ELSE r[i - 1]]
         IN  /\ g \in Memory /\ Ring(g, q)
             /\ \A a \in Words : a # b + 4 /\ a # b + 8 /\ a \notin Links(r) => g.mem[a] = h.mem[a]
<1> DEFINE n == Len(r)
           q == [i \in 1..(n + 1) |-> IF i = 1 THEN b ELSE r[i - 1]]
<1> PICK g : g = free_list_insert(h, b)
  OBVIOUS
<1>1. /\ n \in Nat /\ n >= 1 /\ r \in Seq(Header)
      /\ \A i \in 1..n : r[i] \in Header /\ r[i] + 8 \in Words
      /\ \A i, j \in 1..n : r[i] = r[j] => i = j
      /\ \A i \in 1..n : r[i] # b
  BY DEF Ring, Members
<1>2. r[1] \in Header /\ r[n] \in Header /\ r[1] + 8 \in Words /\ r[n] + 8 \in Words
  BY <1>1
<1>3. h.head = r[1] /\ h.counter = n /\ h.mem[r[1] + 4] = r[n]
  BY <1>1 DEF Ring, Before
<1>4. /\ g \in Memory /\ g.head = b /\ g.counter = n + 1
      /\ g.mem[b + 8] = r[1] /\ g.mem[r[1] + 4] = b /\ g.mem[r[n] + 8] = b /\ g.mem[b + 4] = r[n]
      /\ \A a \in Words : a \notin {b + 8, r[1] + 4, r[n] + 8, b + 4} => g.mem[a] = h.mem[a]
  <2> PICK f \in Header, l \in Header : f = r[1] /\ l = r[n]
    BY <1>2
  <2>1. ~EmptyList(h) /\ b # f /\ b # l
    BY <1>1, RingEmpty
  <2> QED
    BY <1>2, <1>3, <2>1, Spliced
<1>5. ASSUME NEW i \in 1..n
      PROVE  /\ g.mem[r[i] + 8] = IF i = n THEN b ELSE r[i + 1]
             /\ g.mem[r[i] + 4] = IF i = 1 THEN b ELSE r[i - 1]
  <2>1. /\ r[i] + 8 # b + 8 /\ r[i] + 8 # b + 4 /\ r[i] + 8 # r[1] + 4
        /\ r[i] + 4 # b + 8 /\ r[i] + 4 # b + 4 /\ r[i] + 4 # r[n] + 8
        /\ i # n => r[i] + 8 # r[n] + 8
        /\ i # 1 => r[i] + 4 # r[1] + 4
    BY <1>1, <1>2, HeadersApart
  <2>2. /\ h.mem[r[i] + 8] = IF i = n THEN r[1] ELSE r[i + 1]
        /\ h.mem[r[i] + 4] = IF i = 1 THEN r[n] ELSE r[i - 1]
    BY DEF Ring, After, Before
  <2>3. r[i] + 8 \in Words /\ r[i] + 4 \in Words
    BY <1>1, HeaderFacts
  <2>4. i # n => g.mem[r[i] + 8] = h.mem[r[i] + 8]
    BY <1>4, <2>1, <2>3
  <2>5. i # 1 => g.mem[r[i] + 4] = h.mem[r[i] + 4]
    BY <1>4, <2>1, <2>3
  <2> QED
    BY <1>4, <2>2, <2>4, <2>5
<1>6. Ring(g, q)
  <2>1. q \in Seq(Header) /\ Len(q) = n + 1 /\ q[1] = b
    BY <1>1
  <2>2. \A i \in 1..n : q[i + 1] = r[i]
    BY <1>1
  <2>3. \A i \in 1..(n + 1) : i = 1 \/ (i - 1 \in 1..n /\ q[i] = r[i - 1] /\ i = (i - 1) + 1)
    BY <1>1
  <2> HIDE DEF q
  <2>4. \A i, j \in 1..(n + 1) : q[i] = q[j] => i = j
    <3> SUFFICES ASSUME NEW i \in 1..(n + 1), NEW j \in 1..(n + 1), q[i] = q[j] PROVE i = j
      OBVIOUS
    <3>1. CASE i # 1 /\ j # 1
      BY <1>1, <2>3, <3>1
    <3>2. CASE i = 1 \/ j = 1
      BY <1>1, <2>1, <2>3, <3>2
    <3> QED
      BY <3>1, <3>2
  <2>5. ASSUME NEW i \in 1..(n + 1)
        PROVE  /\ q[i] + 8 \in Words
               /\ g.mem[q[i] + 8] = After(q, i) /\ g.mem[q[i] + 4] = Before(q, i)
    <3>1. CASE i = 1
      <4>1. q[1 + 1] = r[1] /\ q[n + 1] = r[n] /\ 1 # n + 1
        BY <1>1, <2>2
      <4> QED
        BY <1>4, <2>1, <3>1, <4>1 DEF After, Before
    <3>2. CASE i # 1
      <4> PICK j \in 1..n : j = i - 1
        BY <1>1, <3>2
      <4>1. i = j + 1 /\ q[i] = r[j]
        BY <1>1, <2>2
      <4>2. j # n => j + 1 \in 1..n /\ q[i + 1] = r[j + 1]
        BY <1>1, <2>2, <4>1
      <4>3. j # 1 => j - 1 \in 1..n /\ q[i - 1] = r[j - 1]
        BY <1>1, <2>2, <4>1
      <4>4. j = 1 => q[i - 1] = b
        BY <2>1, <4>1
      <4>5. g.mem[q[i] + 8] = After(q, i)
        <5>1. q[i] \in Header /\ j \in 1..n
          BY <1>1, <4>1
        <5> QED
          BY <1>1, <1>5, <2>1, <4>1, <4>2 DEF After
      <4>6. g.mem[q[i] + 4] = Before(q, i)
        BY <1>1, <1>5, <2>1, <3>2, <4>1, <4>3, <4>4 DEF Before
      <4> QED
        BY <1>1, <4>1, <4>5, <4>6
    <3> QED
      BY <3>1, <3>2
  <2> QED
    BY <1>1, <1>4, <2>1, <2>4, <2>5 DEF Ring
<1>7. r[1] + 4 \in Links(r) /\ r[n] + 8 \in Links(r)
  BY <1>1 DEF Links
<1> QED
  BY <1>4, <1>6, <1>7

(* Taking the block b with neighbours p and x out of a longer ring. *)
LEMMA Unlinked ==
  ASSUME NEW h \in Memory, ~EmptyList(h), h.counter # 1, NEW b \in Header, b + 8 \in Words,
         NEW p \in Header, p + 8 \in Words, h.mem[b + 4] = p,
         NEW x \in Header, x + 8 \in Words, h.mem[b + 8] = x
  PROVE  LET g == free_list_delete(h, b)
         IN  /\ g \in Memory /\ g.head = (IF b = h.head THEN x ELSE h.head)
             /\ g.counter = h.counter - 1
             /\ g.mem[x + 4] = p /\ g.mem[p + 8] = x
             /\ \A a \in Words : a \notin {x + 4, p + 8} => g.mem[a] = h.mem[a]
<1> DEFINE h1 == Store(h, x + 4, p)
           h2 == Store(h1, p + 8, x)
           g  == [h2 EXCEPT !.head = IF b = h2.head THEN x ELSE h2.head, !.counter = h2.counter - 1]
<1>1. /\ p \in Value /\ x \in Value /\ b \in Nat /\ b # 0 /\ b + 4 \in Words
      /\ p \in Nat /\ p # 0 /\ x \in Nat /\ x # 0 /\ x + 4 \in Words
  BY HeaderFacts
<1>2. get_prevfree(h, b) = p /\ get_nextfree(h, b) = x
  BY <1>1, Loaded DEF get_prevfree, get_nextfree
<1>3. h1 \in Memory /\ Wrote(h, h1, {x + 4}) /\ h1.mem[x + 4] = p
  <2>1. Wrote(h, h1, {x + 4}) /\ h1.mem[x + 4] = p
    BY <1>1, Stored
  <2> QED
    BY <2>1 DEF Wrote
<1>4. h2 \in Memory /\ Wrote(h1, h2, {p + 8}) /\ h2.mem[p + 8] = x
  BY <1>1, <1>3, Stored DEF Wrote
<1>5. free_list_delete(h, b) = g
  BY <1>1, <1>2 DEF free_list_delete, set_prevfree, set_nextfree
<1> HIDE DEF h1, h2
<1>6. h2.counter = h.counter /\ h.counter \in Nat /\ h.counter # 0 /\ h2.head = h.head /\ h.head \in Nat
  BY <1>3, <1>4 DEF Wrote, Memory, EmptyList
<1>7. g \in Memory /\ g.mem = h2.mem /\ g.head = (IF b = h.head THEN x ELSE h.head)
      /\ g.counter = h.counter - 1
  <2>1. h2.counter - 1 \in Nat
    BY <1>6
  <2>2. (IF b = h2.head THEN x ELSE h2.head) \in Nat
    BY <1>1, <1>6
  <2>3. g \in Memory /\ g.mem = h2.mem /\ g.counter = h2.counter - 1
        /\ g.head = IF b = h2.head THEN x ELSE h2.head
    BY <1>4, <2>1, <2>2 DEF Memory
  <2> QED
    BY <1>6, <2>3
<1> HIDE DEF g
<1>8. x + 4 # p + 8
  BY HeadersApart
<1> QED
  BY <1>1, <1>3, <1>4, <1>5, <1>7, <1>8 DEF Wrote

Without(r, k) == [i \in 1..(Len(r) - 1) |-> IF i < k THEN r[i] ELSE r[i + 1]]

(* free_list_delete leaves the ring without the block.                     *)
LEMMA RingDelete ==
  ASSUME NEW h \in Memory, NEW r, Ring(h, r), NEW k \in 1..Len(r)
  PROVE  LET g == free_list_delete(h, r[k])
         IN  /\ g \in Memory /\ Ring(g, Without(r, k))
             /\ \A a \in Words : a \notin Links(r) => g.mem[a] = h.mem[a]
<1> DEFINE n == Len(r)
           q == Without(r, k)
<1> PICK g : g = free_list_delete(h, r[k])
  OBVIOUS
<1>1. /\ n \in Nat /\ n >= 1 /\ r \in Seq(Header)
      /\ \A i \in 1..n : r[i] \in Header /\ r[i] + 8 \in Words
      /\ \A i, j \in 1..n : r[i] = r[j] => i = j
  BY DEF Ring
<1>2. /\ h.head = r[1] /\ h.counter = n
      /\ \A i \in 1..n : h.mem[r[i] + 8] = After(r, i) /\ h.mem[r[i] + 4] = Before(r, i)
  BY <1>1 DEF Ring
<1>3. /\ q \in Seq(Header) /\ Len(q) = n - 1
      /\ \A i \in 1..(n - 1) : q[i] = IF i < k THEN r[i] ELSE r[i + 1]
  BY <1>1 DEF Without
<1> HIDE DEF q
<1>4. ~EmptyList(h)
  BY <1>1, RingEmpty
<1>5. CASE n = 1
  <2>1. g = [h EXCEPT !.head = 0, !.counter = 0]
    BY <1>2, <1>4, <1>5 DEF free_list_delete
  <2>2. g \in Memory /\ g.mem = h.mem /\ g.head = 0 /\ g.counter = 0
    <3> DEFINE f == [h EXCEPT !.head = 0, !.counter = 0]
    <3>1. f \in Memory /\ f.mem = h.mem /\ f.head = 0 /\ f.counter = 0
      BY DEF Memory
    <3> QED
      BY <2>1, <3>1
  <2>3. Ring(g, q)
    BY <1>3, <1>5, <2>2 DEF Ring
  <2> QED
    BY <2>2, <2>3 DEF q
<1>6. CASE n # 1
  <2> DEFINE p == Before(r, k)
             x == After(r, k)
             at(i) == IF i < k THEN i ELSE i + 1
  <2>1. /\ p = r[IF k = 1 THEN n ELSE k - 1] /\ x = r[IF k = n THEN 1 ELSE k + 1]
        /\ p \in Header /\ p + 8 \in Words /\ x \in Header /\ x + 8 \in Words
    BY <1>1 DEF Before, After
  <2>2. /\ g \in Memory /\ g.head = (IF r[k] = r[1] THEN x ELSE r[1]) /\ g.counter = n - 1
        /\ g.mem[x + 4] = p /\ g.mem[p + 8] = x
        /\ \A a \in Words : a \notin {x + 4, p + 8} => g.mem[a] = h.mem[a]
    <3> PICK b \in Header, y \in Header, z \in Header : b = r[k] /\ y = p /\ z = x
      BY <1>1, <2>1
    <3>1. h.mem[b + 4] = y /\ h.mem[b + 8] = z /\ b + 8 \in Words
      BY <1>1, <1>2
    <3>2. y + 8 \in Words /\ z + 8 \in Words /\ h.counter # 1
      BY <1>2, <1>6, <2>1
    <3>3. /\ g \in Memory /\ g.head = (IF b = h.head THEN z ELSE h.head)
          /\ g.counter = h.counter - 1 /\ g.mem[z + 4] = y /\ g.mem[y + 8] = z
          /\ \A a \in Words : a \notin {z + 4, y + 8} => g.mem[a] = h.mem[a]
      BY <1>4, <3>1, <3>2, Unlinked
    <3> HIDE DEF p, x
    <3> QED
      BY <1>2, <3>3
  <2>3. \A i \in 1..(n - 1) : at(i) \in 1..n /\ at(i) # k /\ q[i] = r[at(i)]
    BY <1>1, <1>3
  <2>4. \A i, j \in 1..(n - 1) : at(i) = at(j) => i = j
    BY <1>1
  <2> HIDE DEF p, x
  <2>5. ASSUME NEW j \in 1..n
        PROVE  /\ g.mem[r[j] + 8] = IF r[j] = p THEN x ELSE After(r, j)
               /\ g.mem[r[j] + 4] = IF r[j] = x THEN p ELSE Before(r, j)
    <3>1. r[j] \in Header /\ r[j] + 8 \in Words /\ r[j] + 4 \in Words
      BY <1>1, HeaderFacts
    <3>2. /\ r[j] + 8 # x + 4 /\ r[j] + 4 # p + 8
          /\ r[j] # p => r[j] + 8 # p + 8
          /\ r[j] # x => r[j] + 4 # x + 4
      BY <2>1, <3>1, HeadersApart
    <3> QED
      BY <1>2, <2>2, <3>1, <3>2
  <2>6. ASSUME NEW i \in 1..(n - 1)
        PROVE  /\ q[i] + 8 \in Words
               /\ g.mem[q[i] + 8] = After(q, i) /\ g.mem[q[i] + 4] = Before(q, i)
    <3>1. q[i] + 8 \in Words
      BY <1>1, <2>3
    <3>2. g.mem[q[i] + 8] = After(q, i)
      <4>1. CASE i = n - 1
        <5>1. After(q, i) = q[1] /\ q[1] = IF k = 1 THEN r[2] ELSE r[1]
          BY <1>1, <1>3, <1>6, <4>1 DEF After
        <5>2. CASE k = n
          <6>1. q[i] = r[n - 1] /\ p = r[n - 1] /\ x = r[1] /\ n - 1 \in 1..n
            BY <1>1, <1>3, <1>6, <2>1, <4>1, <5>2
          <6> QED
            BY <1>6, <2>5, <5>1, <5>2, <6>1
        <5>3. CASE k # n
          <6>1. q[i] = r[n] /\ n \in 1..n /\ After(r, n) = r[1]
            BY <1>1, <1>3, <2>1, <4>1, <5>3 DEF After
          <6>2. k = 1 => p = r[n] /\ x = r[2]
            BY <1>1, <1>6, <2>1, <5>3
          <6>3. k # 1 => p # r[n]
            BY <1>1, <2>1, <5>3
          <6> QED
            BY <2>5, <5>1, <6>1, <6>2, <6>3
        <5> QED
          BY <5>2, <5>3
      <4>2. CASE i # n - 1
        <5>1. After(q, i) = q[i + 1] /\ i + 1 \in 1..(n - 1)
          BY <1>1, <1>3, <4>2 DEF After
        <5>2. CASE i < k - 1
          <6>1. q[i] = r[i] /\ q[i + 1] = r[i + 1] /\ After(r, i) = r[i + 1] /\ i \in 1..n
            BY <1>1, <1>3, <4>2, <5>1, <5>2 DEF After
          <6>2. p # r[i]
            BY <1>1, <2>1, <5>2
          <6> QED
            BY <2>5, <5>1, <6>1, <6>2
        <5>3. CASE i = k - 1
          <6>1. q[i] = p /\ q[i] = r[i] /\ q[i + 1] = r[k + 1] /\ x = r[k + 1] /\ i \in 1..n
            BY <1>1, <1>3, <2>1, <4>2, <5>1, <5>3
          <6> QED
            BY <2>5, <5>1, <6>1
        <5>4. CASE i >= k
          <6>1. q[i] = r[i + 1] /\ q[i + 1] = r[(i + 1) + 1] /\ i + 1 \in 1..n
                /\ After(r, i + 1) = r[(i + 1) + 1]
            BY <1>1, <1>3, <4>2, <5>1, <5>4 DEF After
          <6>2. p # r[i + 1]
            BY <1>1, <2>1, <4>2, <5>4
          <6> QED
            BY <2>5, <5>1, <6>1, <6>2
        <5> QED
          BY <1>1, <5>2, <5>3, <5>4
      <4> QED
        BY <4>1, <4>2
    <3>3. g.mem[q[i] + 4] = Before(q, i)
      <4>1. CASE i = 1
        <5>1. Before(q, i) = q[n - 1] /\ q[n - 1] = IF k = n THEN r[n - 1] ELSE r[n]
          <6>1. n - 1 \in 1..(n - 1) /\ (n - 1) + 1 = n /\ (n - 1 < k <=> k = n)
            BY <1>1, <1>6
          <6> QED
            BY <1>3, <4>1, <6>1 DEF Before
        <5>2. CASE k = 1
          <6>1. q[i] = r[2] /\ x = r[2] /\ p = r[n] /\ 2 \in 1..n
            BY <1>1, <1>3, <1>6, <2>1, <4>1, <5>2
          <6> QED
            BY <1>6, <2>5, <5>1, <5>2, <6>1
        <5>3. CASE k # 1
          <6>1. q[i] = r[1] /\ 1 \in 1..n /\ Before(r, 1) = r[n]
            BY <1>1, <1>3, <1>6, <4>1, <5>3 DEF Before
          <6>2. k = n => x = r[1] /\ p = r[n - 1]
            BY <1>1, <1>6, <2>1, <5>3
          <6>3. k # n => x # r[1]
            BY <1>1, <2>1, <5>3
          <6> QED
            BY <2>5, <5>1, <6>1, <6>2, <6>3
        <5> QED
          BY <5>2, <5>3
      <4>2. CASE i # 1
        <5>1. Before(q, i) = q[i - 1] /\ i - 1 \in 1..(n - 1)
          BY <1>1, <1>3, <4>2 DEF Before
        <5>2. CASE i < k
          <6>1. q[i] = r[i] /\ q[i - 1] = r[i - 1] /\ Before(r, i) = r[i - 1] /\ i \in 1..n
            BY <1>1, <1>3, <4>2, <5>1, <5>2 DEF Before
          <6>2. x # r[i]
            BY <1>1, <2>1, <4>2, <5>2
          <6> QED
            BY <2>5, <5>1, <6>1, <6>2
        <5>3. CASE i = k
          <6>1. q[i] = r[k + 1] /\ x = r[k + 1] /\ q[i - 1] = r[k - 1] /\ p = r[k - 1] /\ k + 1 \in 1..n
            BY <1>1, <1>3, <2>1, <4>2, <5>1, <5>3
          <6> QED
            BY <2>5, <5>1, <6>1
        <5>4. CASE i > k
          <6>1. /\ q[i] = r[i + 1] /\ q[i - 1] = r[i] /\ i + 1 \in 1..n
                /\ Before(r, i + 1) = r[i]
            <7>1. (i - 1) + 1 = i /\ ~(i - 1 < k) /\ ~(i < k) /\ (i + 1) - 1 = i /\ i + 1 # 1
                  /\ i + 1 \in 1..n
              BY <1>1, <5>4
            <7> QED
              BY <1>3, <5>1, <7>1 DEF Before
          <6>2. x # r[i + 1]
            BY <1>1, <2>1, <4>2, <5>4
          <6> QED
            BY <2>5, <5>1, <6>1, <6>2
        <5> QED
          BY <1>1, <5>2, <5>3, <5>4
      <4> QED
        BY <4>1, <4>2
    <3> QED
      BY <3>1, <3>2, <3>3
  <2>7. \A i, j \in 1..(n - 1) : q[i] = q[j] => i = j
    <3> HIDE DEF at
    <3> QED
      BY <1>1, <2>3, <2>4
  <2>8. n - 1 # 0 /\ g.head = q[1]
    <3>1. CASE k = 1
      BY <1>1, <1>3, <1>6, <2>1, <2>2, <3>1
    <3>2. CASE k # 1
      BY <1>1, <1>3, <1>6, <2>1, <2>2, <3>2
    <3> QED
      BY <3>1, <3>2
  <2>9. Ring(g, q)
    BY <1>3, <2>2, <2>6, <2>7, <2>8 DEF Ring
  <2>10. x + 4 \in Links(r) /\ p + 8 \in Links(r)
    BY <1>1, <2>1 DEF Links
  <2> QED
    BY <2>2, <2>9, <2>10 DEF q
<1> QED
  BY <1>5, <1>6

(* A write to other words than the links keeps the list.                   *)
LEMMA ListKept ==
  ASSUME NEW h, NEW g, NEW M, List(h, M), NEW A, Wrote(h, g, A), LinksOf(M) \cap A = {}
  PROVE  List(g, M)
<1> PICK r : Ring(h, r) /\ M = Members(r)
  BY DEF List
<1>1. Links(r) = LinksOf(M)
  BY DEF Links, LinksOf, Members
<1> QED
  BY <1>1, RingKept DEF List

(* free_list_insert adds the block to the list, and writes only links.     *)
LEMMA ListInsert ==
  ASSUME NEW h \in Memory, NEW M, List(h, M), NEW b \in Header, b + 8 \in Words, b \notin M
  PROVE  LET g == free_list_insert(h, b)
         IN  /\ g \in Memory /\ List(g, M \cup {b})
             /\ \A a \in Words : a \notin LinksOf(M \cup {b}) => g.mem[a] = h.mem[a]
<1> PICK r : Ring(h, r) /\ M = Members(r)
  BY DEF List
<1> DEFINE n == Len(r)
           q == [i \in 1..(n + 1) |-> IF i = 1 THEN b ELSE r[i - 1]]
<1>1. Links(r) \subseteq LinksOf(M \cup {b}) /\ b + 4 \in LinksOf(M \cup {b}) /\ b + 8 \in LinksOf(M \cup {b})
  BY DEF Links, LinksOf, Members
<1>2. n \in Nat /\ r \in Seq(Header)
  BY DEF Ring
<1>3. CASE n = 0
  <2>1. Members(<<b>>) = M \cup {b}
    BY <1>3 DEF Members
  <2> QED
    BY <1>1, <1>3, <2>1, RingInsertEmpty DEF List
<1>4. CASE n # 0
  <2>1. Members(q) = M \cup {b}
    <3>1. Len(q) = n + 1 /\ q[1] = b
      BY <1>2
    <3>2. \A i \in 1..n : i + 1 \in 1..(n + 1) /\ q[i + 1] = r[i]
      BY <1>2
    <3>3. \A i \in 1..(n + 1) : i = 1 \/ (i - 1 \in 1..n /\ q[i] = r[i - 1])
      BY <1>2
    <3>4. 1 \in 1..(n + 1)
      BY <1>2
    <3> HIDE DEF q
    <3> QED
      BY <3>1, <3>2, <3>3, <3>4 DEF Members
  <2> QED
    <3> PICK g : g = free_list_insert(h, b)
      OBVIOUS
    <3>1. /\ g \in Memory /\ Ring(g, q)
          /\ \A a \in Words : a # b + 4 /\ a # b + 8 /\ a \notin Links(r) => g.mem[a] = h.mem[a]
      BY <1>4, RingInsertMore
    <3> HIDE DEF q
    <3> QED
      BY <1>1, <2>1, <3>1 DEF List
<1> QED
  BY <1>3, <1>4

(* free_list_delete takes the block out of the list, and writes only       *)
(* links.                                                                  *)
LEMMA ListDelete ==
  ASSUME NEW h \in Memory, NEW M, List(h, M), NEW b \in M
  PROVE  LET g == free_list_delete(h, b)
         IN  /\ g \in Memory /\ List(g, M \ {b})
             /\ \A a \in Words : a \notin LinksOf(M) => g.mem[a] = h.mem[a]
<1> PICK r : Ring(h, r) /\ M = Members(r)
  BY DEF List
<1> PICK k \in 1..Len(r) : b = r[k]
  BY DEF Members
<1>1. Links(r) = LinksOf(M)
  BY DEF Links, LinksOf, Members
<1> DEFINE n == Len(r)
           q == Without(r, k)
<1>2. n \in Nat /\ r \in Seq(Header) /\ \A i, j \in 1..n : r[i] = r[j] => i = j
  BY DEF Ring
<1>3. Len(q) = n - 1 /\ \A i \in 1..(n - 1) : q[i] = IF i < k THEN r[i] ELSE r[i + 1]
  BY <1>2 DEF Without
<1> HIDE DEF q
<1>4. Members(q) = M \ {b}
  <2>1. ASSUME NEW i \in 1..(n - 1) PROVE q[i] \in M \ {b}
    <3>1. CASE i < k
      BY <1>2, <1>3, <3>1 DEF Members
    <3>2. CASE ~(i < k)
      <4>1. i + 1 \in 1..n /\ i + 1 # k /\ q[i] = r[i + 1]
        BY <1>2, <1>3, <3>2
      <4> QED
        BY <1>2, <4>1 DEF Members
    <3> QED
      BY <3>1, <3>2
  <2>2. ASSUME NEW j \in 1..n, j # k PROVE \E i \in 1..(n - 1) : q[i] = r[j]
    <3>1. CASE j < k
      <4>1. j \in 1..(n - 1) /\ q[j] = r[j]
        BY <1>2, <1>3, <3>1
      <4> QED
        BY <4>1
    <3>2. CASE ~(j < k)
      <4>1. j - 1 \in 1..(n - 1) /\ ~(j - 1 < k) /\ (j - 1) + 1 = j
        BY <1>2, <2>2, <3>2
      <4> QED
        BY <1>3, <4>1
    <3> QED
      BY <3>1, <3>2
  <2>3. Members(q) \subseteq M \ {b}
    BY <1>3, <2>1 DEF Members
  <2>4. M \ {b} \subseteq Members(q)
    <3> SUFFICES ASSUME NEW j \in 1..n, r[j] # b PROVE r[j] \in Members(q)
      BY DEF Members
    <3> QED
      BY <1>3, <2>2 DEF Members
  <2> QED
    BY <2>3, <2>4
<1> QED
  BY <1>1, <1>4, RingDelete DEF List, q

-----------------------------------------------------------------------------
(* The blocks. *)

(* What align_up makes of an address. *)
LEMMA Rounded ==
  ASSUME NEW b \in Nat
  PROVE  /\ b % 8 = 4 => align_up(b, 8) = b + 4
         /\ b % 8 = 0 => align_up(b, 8) = b
         /\ align_up(b, 8) \in Nat /\ align_up(b, 8) % 8 = 0 /\ b <= align_up(b, 8)
BY DEF align_up

(* The words of a block are words of the heap.                             *)
LEMMA TileFacts ==
  ASSUME NEW s, Tiles(s), NEW b \in DOMAIN s
  PROVE  /\ b \in Header /\ b \in Nat /\ b % 8 = 4 /\ b \in Words
         /\ s[b] \in Nat /\ s[b] >= 16 /\ s[b] % 8 = 0
         /\ b + s[b] \in Nat /\ (b + s[b]) % 8 = 4 /\ b + s[b] <= End
         /\ b + s[b] # End => b + s[b] \in DOMAIN s
         /\ b + s[b] - 4 \in Words /\ b + 4 \in Words /\ b + 8 \in Words /\ b + s[b] \in Words
         /\ First <= b /\ b # End /\ s[b] + 7 \in Value
<1>1. b \in Header /\ b \in Nat /\ b % 8 = 4 /\ b \in Words
  BY WordsAre, HeaderFacts DEF Tiles
<1>2. /\ s[b] \in Nat /\ s[b] >= 16 /\ s[b] % 8 = 0 /\ First <= b /\ b + s[b] <= End
      /\ b + s[b] \in DOMAIN s \cup {End}
  BY DEF Tiles, MIN_BLOCKSIZE
<1>3. (b + s[b]) % 8 = 4 /\ (b + s[b] - 4) % 4 = 0 /\ (b + 4) % 4 = 0 /\ (b + 8) % 4 = 0
      /\ (b + s[b]) % 4 = 0
  BY <1>1, <1>2
<1>4. /\ First \in Nat /\ End \in Nat /\ First <= b + s[b] - 4 /\ b + s[b] - 4 <= End
      /\ First <= b + 4 /\ b + 4 <= End /\ First <= b + 8 /\ b + 8 <= End
      /\ b + s[b] - 4 \in Nat
  BY <1>1, <1>2, WordsAre
<1>5. s[b] + 7 \in Value
  BY <1>1, <1>2, WordsAre DEF Value
<1> QED
  BY <1>1, <1>2, <1>3, <1>4, <1>5, WordsAre

(* The tags lie between the blocks' insides, and no two insides meet. *)
LEMMA TagsOutside ==
  ASSUME NEW s, Tiles(s), NEW b \in DOMAIN s, NEW c \in DOMAIN s
  PROVE  /\ b \notin Inside(s, c) /\ b + s[b] - 4 \notin Inside(s, c)
         /\ First - 4 \notin Inside(s, c) /\ First - 8 \notin Inside(s, c) /\ End \notin Inside(s, c)
         /\ b # c => Inside(s, b) \cap Inside(s, c) = {}
         /\ b + 4 \in Inside(s, b) /\ b + 8 \in Inside(s, b)
<1>1. /\ b \in Nat /\ c \in Nat /\ s[b] \in Nat /\ s[c] \in Nat /\ s[b] >= 16 /\ s[c] >= 16
      /\ First <= c /\ c + s[c] <= End /\ b + 4 \in Words /\ b + 8 \in Words
      /\ First \in Nat /\ End \in Nat
  <2>1. First \in Nat /\ End \in Nat
    BY WordsAre
  <2>2. /\ b \in Nat /\ s[b] \in Nat /\ s[b] >= 16 /\ b + 4 \in Words /\ b + 8 \in Words
    BY TileFacts
  <2>3. c \in Nat /\ s[c] \in Nat /\ s[c] >= 16 /\ First <= c /\ c + s[c] <= End
    BY TileFacts
  <2> QED
    BY <2>1, <2>2, <2>3
<1>2. (b < c => b + s[b] <= c) /\ (c < b => c + s[c] <= b)
  BY DEF Tiles
<1>3. Words \subseteq Nat
  BY WordsAre
<1>4. b \notin Inside(s, c) /\ b + s[b] - 4 \notin Inside(s, c)
  BY <1>1, <1>2 DEF Inside
<1>5. First - 4 \notin Inside(s, c) /\ First - 8 \notin Inside(s, c) /\ End \notin Inside(s, c)
  BY <1>1 DEF Inside
<1>6. ASSUME b # c, NEW a \in Inside(s, b), a \in Inside(s, c) PROVE FALSE
  <2>1. a \in Nat /\ b < a /\ a < b + s[b] - 4 /\ c < a /\ a < c + s[c] - 4
    BY <1>3, <1>6 DEF Inside
  <2>2. b < c \/ c < b
    BY <1>1, <1>6
  <2> QED
    BY <1>1, <1>2, <2>1, <2>2
<1>7. b + 4 \in Inside(s, b) /\ b + 8 \in Inside(s, b)
  BY <1>1 DEF Inside
<1> QED
  BY <1>4, <1>5, <1>6, <1>7

(* What is written inside blocks changes no tag. *)
LEMMA TagsKept ==
  ASSUME NEW s, Tiles(s), NEW m, NEW k, NEW F, Tagged(m, s, F), NEW A,
         \A a \in Words \ A : k[a] = m[a],
         \A a \in A : \E c \in DOMAIN s : a \in Inside(s, c)
  PROVE  Tagged(k, s, F)
<1>1. First - 4 \in Words \ A /\ First - 8 \in Words \ A /\ End \in Words \ A
  BY WordsAre, TagsOutside
<1>2. ASSUME NEW b \in DOMAIN s PROVE b \in Words \ A /\ b + s[b] - 4 \in Words \ A
  BY TileFacts, TagsOutside
<1> QED
  BY <1>1, <1>2 DEF Tagged

(* What the code reads in a tag.                                           *)
LEMMA TagRead ==
  ASSUME NEW h \in Memory, NEW a \in Words, NEW n, NEW x, Tag(h.mem[a], n, x)
  PROVE  get_blocksize(h, a) = n /\ get_allocated(h, a) = x
BY Loaded DEF Tag, get_blocksize, get_allocated

(* Rounding an address finds the header and the payload.                   *)
LEMMA AtHeader ==
  ASSUME NEW b \in Header
  PROVE  get_header(b) = b /\ get_payload(b) = b + 4
<1>1. align_up(b, 8) = b + 4 /\ b \in Nat
  BY HeaderFacts, Rounded
<1> QED
  BY <1>1 DEF get_header, get_payload

(* What the code reads in a block, and how it finds its neighbour above.   *)
LEMMA BlockRead ==
  ASSUME NEW h, NEW s, NEW F, Blocks(h, s, F), NEW b \in DOMAIN s
  PROVE  /\ get_header(b) = b /\ get_payload(b) = b + 4
         /\ get_blocksize(h, b) = s[b] /\ get_allocated(h, b) = Status(F, b)
         /\ get_footer(h, b) = b + s[b] - 4 /\ get_nextheader(h, b) = b + s[b]
         /\ get_blocksize(h, b + s[b] - 4) = s[b] /\ get_allocated(h, b + s[b] - 4) = Status(F, b)
         /\ get_allocated(h, b + s[b]) = Status(F, b + s[b])
<1>1. /\ b \in Header /\ b \in Words /\ b + s[b] - 4 \in Words /\ b + s[b] \in Words
      /\ b + s[b] # End => b + s[b] \in DOMAIN s
  BY TileFacts DEF Blocks
<1>2. get_header(b) = b /\ get_payload(b) = b + 4
  BY <1>1, AtHeader
<1>3. Tag(h.mem[b], s[b], Status(F, b)) /\ Tag(h.mem[b + s[b] - 4], s[b], Status(F, b))
  BY DEF Blocks, Tagged
<1>4. get_blocksize(h, b) = s[b] /\ get_allocated(h, b) = Status(F, b)
  BY <1>1, <1>3, TagRead DEF Blocks
<1>5. get_blocksize(h, b + s[b] - 4) = s[b] /\ get_allocated(h, b + s[b] - 4) = Status(F, b)
  BY <1>1, <1>3, TagRead DEF Blocks
<1>6. get_allocated(h, b + s[b]) = Status(F, b + s[b])
  <2>1. CASE b + s[b] = End
    <3>1. End \in Words /\ Tag(h.mem[End], 0, ALLOCATED)
      BY WordsAre DEF Blocks, Tagged
    <3>2. get_allocated(h, End) = ALLOCATED
      BY <3>1, TagRead DEF Blocks
    <3>3. End \notin F
      BY TileFacts DEF Blocks
    <3> QED
      BY <2>1, <3>2, <3>3 DEF Status
  <2>2. CASE b + s[b] # End
    <3> PICK c \in DOMAIN s : c = b + s[b]
      BY <1>1, <2>2
    <3>1. c \in Words /\ Tag(h.mem[c], s[c], Status(F, c))
      BY <1>1 DEF Blocks, Tagged
    <3>2. get_allocated(h, c) = Status(F, c)
      BY <3>1, TagRead DEF Blocks
    <3> QED
      BY <3>2
  <2> QED
    BY <2>1, <2>2
<1> QED
  BY <1>2, <1>4, <1>5, <1>6 DEF get_footer, get_nextheader

(* free finds the block below, or the prologue. *)
LEMMA PrevRead ==
  ASSUME NEW h, NEW s, NEW F, Blocks(h, s, F), NEW b \in DOMAIN s
  PROVE  \/ \E c \in DOMAIN s : /\ c + s[c] = b /\ get_prevheader(h, b) = c
                                /\ PrevFree(h, b) <=> c \in F
         \/ b = First /\ ~PrevFree(h, b)
<1>1. get_header(b) = b /\ b \in Nat
  BY BlockRead, TileFacts DEF Blocks
<1>2. CASE b = First
  <2>1. /\ First - 4 \in Words /\ First - 8 \in Words /\ First \in Nat
        /\ Tag(h.mem[First - 4], 8, ALLOCATED) /\ Tag(h.mem[First - 8], 8, ALLOCATED)
    BY WordsAre DEF Blocks, Tagged
  <2>2. get_blocksize(h, First - 4) = 8 /\ get_allocated(h, First - 8) = ALLOCATED
    BY <2>1, TagRead DEF Blocks
  <2> QED
    BY <1>1, <1>2, <2>1, <2>2 DEF PrevFree, get_prevheader, FREE, ALLOCATED
<1>3. CASE b # First
  <2> PICK c \in DOMAIN s : c + s[c] = b
    BY <1>3 DEF Blocks, Tiles
  <2>1. get_blocksize(h, b - 4) = s[c] /\ get_allocated(h, c) = Status(F, c)
    <3>1. get_blocksize(h, c + s[c] - 4) = s[c] /\ get_allocated(h, c) = Status(F, c)
      BY BlockRead
    <3>2. c + s[c] - 4 = b - 4
      BY TileFacts DEF Blocks
    <3> QED
      BY <3>1, <3>2, Zenon
  <2>2. c \in Nat /\ s[c] \in Nat
    BY TileFacts DEF Blocks
  <2>3. get_prevheader(h, b) = c
    BY <1>1, <2>1, <2>2 DEF get_prevheader
  <2> QED
    BY <2>1, <2>3 DEF PrevFree, Status, FREE, ALLOCATED
<1> QED
  BY <1>2, <1>3

-----------------------------------------------------------------------------
(* Splitting a block. *)
Cut(s, b, n) == [c \in DOMAIN s \cup {b + n} |->
                   IF c = b THEN n ELSE IF c = b + n THEN s[b] - n ELSE s[c]]

(* Both parts are large enough to be free blocks. *)
CanCut(s, b, n) == n \in Nat /\ n % 8 = 0 /\ n >= MIN_BLOCKSIZE /\ s[b] - n >= MIN_BLOCKSIZE

IsCut(s, b, n, t) == /\ Tiles(t) /\ b + n \notin DOMAIN s /\ b + n \in Inside(s, b)
                     /\ b + n - 4 \in Inside(s, b)
                     /\ DOMAIN t = DOMAIN s \cup {b + n}
                     /\ t[b] = n /\ t[b + n] = s[b] - n
                     /\ \A c \in DOMAIN s : c # b => t[c] = s[c]

(* Cutting a block in two leaves a tiling.                                 *)
LEMMA CutTiles ==
  ASSUME NEW s, Tiles(s), NEW b \in DOMAIN s, NEW n, CanCut(s, b, n)
  PROVE  IsCut(s, b, n, Cut(s, b, n))
<1> DEFINE t == Cut(s, b, n)
<1>1. /\ b \in Nat /\ b % 8 = 4 /\ s[b] \in Nat /\ s[b] % 8 = 0 /\ First <= b /\ b + s[b] <= End
      /\ First \in Nat /\ End \in Nat
      /\ n \in Nat /\ n % 8 = 0 /\ n >= 16 /\ s[b] - n >= 16
  BY TileFacts, WordsAre DEF CanCut, MIN_BLOCKSIZE
<1>2. /\ b + n \in Nat /\ (b + n) % 8 = 4 /\ (b + n) % 4 = 0 /\ (b + n - 4) % 4 = 0
      /\ First <= b + n - 4 /\ b + n <= End /\ b + n - 4 \in Nat /\ First <= b + n /\ b + n - 4 <= End
      /\ s[b] - n \in Nat /\ (s[b] - n) % 8 = 0
  BY <1>1
<1>3. b + n \in Words /\ b + n - 4 \in Words
  BY <1>2, WordsAre
<1>4. b + n \in Inside(s, b) /\ b + n - 4 \in Inside(s, b) /\ b + n \in Header
  BY <1>1, <1>2, <1>3 DEF Inside, Header
<1>5. b + n \notin DOMAIN s /\ b + n # b
  BY <1>1, <1>4, TagsOutside
<1>6. /\ DOMAIN t = DOMAIN s \cup {b + n} /\ t[b] = n /\ t[b + n] = s[b] - n
      /\ \A c \in DOMAIN s : c # b => t[c] = s[c]
  BY <1>5 DEF Cut
<1> HIDE DEF t
<1>7. ASSUME NEW c \in DOMAIN t
      PROVE  /\ t[c] \in Nat /\ t[c] >= MIN_BLOCKSIZE /\ t[c] % 8 = 0
             /\ First <= c /\ c + t[c] <= End
             /\ c + t[c] \in DOMAIN t \cup {End}
  <2>1. CASE c = b
    BY <1>1, <1>2, <1>6, <2>1 DEF MIN_BLOCKSIZE
  <2>2. CASE c = b + n
    <3>1. c + t[c] = b + s[b]
      <4>1. (b + n) + t[b + n] = b + s[b]
        BY <1>1, <1>6
      <4> QED
        BY <2>2, <4>1
    <3>2. b + s[b] \in DOMAIN s \cup {End}
      BY DEF Tiles
    <3> QED
      BY <1>1, <1>2, <1>6, <2>2, <3>1, <3>2 DEF MIN_BLOCKSIZE
  <2>3. CASE c # b /\ c # b + n
    <3>1. c \in DOMAIN s /\ t[c] = s[c]
      BY <1>6, <2>3
    <3> QED
      BY <1>6, <3>1 DEF Tiles
  <2> QED
    BY <2>1, <2>2, <2>3
<1>8. ASSUME NEW c \in DOMAIN t, NEW d \in DOMAIN t, c < d PROVE c + t[c] <= d
  <2>1. /\ \A x \in DOMAIN s : x \in Nat /\ s[x] \in Nat
        /\ \A x, y \in DOMAIN s : x < y => x + s[x] <= y
    BY TileFacts DEF Tiles
  <2>2. CASE c \in DOMAIN s /\ d \in DOMAIN s
    <3>1. t[c] = s[c] \/ (c = b /\ t[c] = n)
      BY <1>6, <2>2
    <3> QED
      BY <1>1, <1>8, <2>1, <2>2, <3>1
  <2>3. CASE c = b + n
    <3>1. d \in DOMAIN s /\ d # b /\ ~(d < b)
      <4>1. d # b + n
        BY <1>2, <1>8, <2>3
      <4>2. d \in DOMAIN s /\ d \in Nat
        BY <1>6, <2>1, <4>1
      <4> QED
        BY <1>1, <1>8, <2>3, <4>2
    <3>2. b + s[b] <= d /\ d \in Nat
      BY <1>1, <2>1, <3>1
    <3>3. (b + n) + t[b + n] = b + s[b]
      BY <1>1, <1>6
    <3> QED
      BY <2>3, <3>2, <3>3
  <2>4. CASE d = b + n /\ c \in DOMAIN s
    <3>1. CASE c = b
      BY <1>1, <1>2, <1>6, <2>4, <3>1
    <3>2. CASE c # b
      <4>1. ~(b < c)
        BY <1>1, <1>8, <2>1, <2>4
      <4>2. c < b /\ t[c] = s[c]
        BY <1>1, <1>6, <2>1, <2>4, <3>2, <4>1
      <4> QED
        BY <1>1, <2>1, <2>4, <4>2
    <3> QED
      BY <3>1, <3>2
  <2> QED
    BY <1>6, <2>2, <2>3, <2>4
<1>9. ASSUME NEW c \in DOMAIN t \cup {End}, c # First PROVE \E d \in DOMAIN t : d + t[d] = c
  <2>1. CASE c = b + n
    BY <1>6, <2>1
  <2>2. CASE c # b + n
    <3> PICK d \in DOMAIN s : d + s[d] = c
      BY <1>6, <1>9, <2>2 DEF Tiles
    <3>1. CASE d = b
      <4>1. (b + n) + t[b + n] = c
        BY <1>1, <1>6, <3>1
      <4> QED
        BY <1>6, <4>1
    <3>2. CASE d # b
      BY <1>6, <3>2
    <3> QED
      BY <3>1, <3>2
  <2> QED
    BY <2>1, <2>2
<1>10. DOMAIN t \subseteq Header /\ First \in DOMAIN t
  BY <1>4, <1>6 DEF Tiles
<1>11. Tiles(t)
  BY <1>7, <1>8, <1>9, <1>10 DEF Tiles
<1> QED
  BY <1>4, <1>5, <1>6, <1>11 DEF t, IsCut

(* Merging a block with the one that follows it. *)
Joined(s, b, c) == [d \in DOMAIN s \ {c} |-> IF d = b THEN s[b] + s[c] ELSE s[d]]

(* Joining two blocks leaves a tiling.                                     *)
LEMMA JoinedTiles ==
  ASSUME NEW s, Tiles(s), NEW b \in DOMAIN s, NEW c \in DOMAIN s, b + s[b] = c
  PROVE  /\ Tiles(Joined(s, b, c))
         /\ DOMAIN Joined(s, b, c) = DOMAIN s \ {c} /\ b # c
         /\ Joined(s, b, c)[b] = s[b] + s[c]
         /\ \A d \in DOMAIN s : d # b /\ d # c => Joined(s, b, c)[d] = s[d]
<1> DEFINE t == Joined(s, b, c)
<1>1. /\ b \in Nat /\ s[b] \in Nat /\ s[b] >= 16 /\ s[b] % 8 = 0 /\ First <= b
      /\ c \in Nat /\ s[c] \in Nat /\ s[c] >= 16 /\ s[c] % 8 = 0 /\ c + s[c] <= End
      /\ First \in Nat /\ End \in Nat
  <2>1. b \in Nat /\ s[b] \in Nat /\ s[b] >= 16 /\ s[b] % 8 = 0 /\ First <= b
    BY TileFacts
  <2>2. c \in Nat /\ s[c] \in Nat /\ s[c] >= 16 /\ s[c] % 8 = 0 /\ c + s[c] <= End
    BY TileFacts
  <2> QED
    BY <2>1, <2>2, WordsAre
<1>2. /\ b # c /\ b < c /\ First # c /\ b + (s[b] + s[c]) = c + s[c]
      /\ s[b] + s[c] \in Nat /\ s[b] + s[c] >= 16 /\ (s[b] + s[c]) % 8 = 0
  BY <1>1
<1>3. /\ DOMAIN t = DOMAIN s \ {c} /\ t[b] = s[b] + s[c]
      /\ \A d \in DOMAIN s : d # b /\ d # c => t[d] = s[d]
  BY <1>2 DEF Joined
<1> HIDE DEF t
<1>4. /\ \A x \in DOMAIN s : x \in Nat /\ s[x] \in Nat /\ s[x] >= 16
      /\ \A x, y \in DOMAIN s : x < y => x + s[x] <= y
  BY TileFacts DEF Tiles
(* Only b ends where c begins. *)
<1>5. ASSUME NEW d \in DOMAIN s, d + s[d] = c PROVE d = b
  BY <1>1, <1>2, <1>4, <1>5
<1>6. ASSUME NEW d \in DOMAIN t
      PROVE  /\ t[d] \in Nat /\ t[d] >= MIN_BLOCKSIZE /\ t[d] % 8 = 0
             /\ First <= d /\ d + t[d] <= End
             /\ d + t[d] \in DOMAIN t \cup {End}
  <2>1. CASE d = b
    <3>1. c + s[c] \in DOMAIN s \cup {End} /\ c + s[c] # c
      BY <1>1 DEF Tiles
    <3> QED
      BY <1>1, <1>2, <1>3, <2>1, <3>1 DEF MIN_BLOCKSIZE
  <2>2. CASE d # b
    <3>1. d \in DOMAIN s /\ t[d] = s[d] /\ d + s[d] # c
      BY <1>3, <1>5, <2>2
    <3> QED
      BY <1>3, <3>1 DEF Tiles
  <2> QED
    BY <2>1, <2>2
<1>7. ASSUME NEW d \in DOMAIN t, NEW e \in DOMAIN t, d < e PROVE d + t[d] <= e
  <2>1. d \in DOMAIN s /\ e \in DOMAIN s /\ e # c /\ d # c
    BY <1>3
  <2>2. CASE d = b
    <3>1. ~(e < c)
      BY <1>1, <1>4, <1>7, <2>1, <2>2
    <3>2. c + s[c] <= e
      BY <1>1, <1>4, <2>1, <3>1
    <3> QED
      BY <1>2, <1>3, <2>2, <3>2
  <2>3. CASE d # b
    BY <1>3, <1>4, <1>7, <2>1, <2>3
  <2> QED
    BY <2>2, <2>3
<1>8. ASSUME NEW e \in DOMAIN t \cup {End}, e # First PROVE \E d \in DOMAIN t : d + t[d] = e
  <2> PICK d \in DOMAIN s : d + s[d] = e
    BY <1>3, <1>8 DEF Tiles
  <2>1. CASE d = c
    <3>1. b + t[b] = e
      BY <1>2, <1>3, <2>1
    <3> QED
      BY <1>2, <1>3, <3>1
  <2>2. CASE d = b
    <3>1. e = c
      BY <2>2
    <3>2. c = End
      BY <1>3, <3>1
    <3> QED
      BY <1>1, <3>2
  <2>3. CASE d # b /\ d # c
    BY <1>3, <2>3
  <2> QED
    BY <2>1, <2>2, <2>3
<1>9. DOMAIN t \subseteq Header /\ First \in DOMAIN t
  BY <1>2, <1>3 DEF Tiles
<1>10. Tiles(t)
  BY <1>6, <1>7, <1>8, <1>9 DEF Tiles
<1> QED
  BY <1>2, <1>3, <1>10 DEF t

(* All words of a block. *)
Extent(s, b) == {a \in Words : b <= a /\ a < b + s[b]}

(* The words of different blocks are different, and the sentinels' are     *)
(* none.                                                                   *)
LEMMA ExtentFacts ==
  ASSUME NEW s, Tiles(s), NEW b \in DOMAIN s
  PROVE  /\ b \in Extent(s, b) /\ b + s[b] - 4 \in Extent(s, b) /\ Inside(s, b) \subseteq Extent(s, b)
         /\ First - 4 \notin Extent(s, b) /\ First - 8 \notin Extent(s, b) /\ End \notin Extent(s, b)
         /\ \A c \in DOMAIN s : c # b => Extent(s, b) \cap Extent(s, c) = {}
<1>1. First \in Nat /\ End \in Nat /\ Words \subseteq Nat
  BY WordsAre
<1>2. /\ b \in Nat /\ s[b] \in Nat /\ s[b] >= 16 /\ First <= b /\ b + s[b] <= End
      /\ b \in Words /\ b + s[b] - 4 \in Words
  BY TileFacts
<1>3. /\ b \in Extent(s, b) /\ b + s[b] - 4 \in Extent(s, b) /\ Inside(s, b) \subseteq Extent(s, b)
      /\ First - 4 \notin Extent(s, b) /\ First - 8 \notin Extent(s, b) /\ End \notin Extent(s, b)
  <2>1. b \in Extent(s, b) /\ b + s[b] - 4 \in Extent(s, b)
    BY <1>2 DEF Extent
  <2>2. ASSUME NEW a \in Inside(s, b) PROVE a \in Extent(s, b)
    <3>1. a \in Words /\ a \in Nat /\ b < a /\ a < b + s[b] - 4
      BY <1>1 DEF Inside
    <3> QED
      BY <1>2, <3>1 DEF Extent
  <2>3. First - 4 \notin Extent(s, b) /\ First - 8 \notin Extent(s, b) /\ End \notin Extent(s, b)
    BY <1>1, <1>2 DEF Extent
  <2> QED
    BY <2>1, <2>2, <2>3
<1>4. ASSUME NEW c \in DOMAIN s, c # b, NEW a \in Extent(s, b), a \in Extent(s, c) PROVE FALSE
  <2>1. a \in Nat /\ b <= a /\ a < b + s[b] /\ c <= a /\ a < c + s[c]
    BY <1>1, <1>4 DEF Extent
  <2>2. c \in Nat /\ s[c] \in Nat
    BY TileFacts
  <2>3. b < c \/ c < b
    BY <1>2, <1>4, <2>2
  <2> QED
    BY <1>2, <2>1, <2>2, <2>3 DEF Tiles
<1> QED
  BY <1>3, <1>4

(* Blocks none of whose words is written keep their tags. *)
LEMMA TagsElsewhere ==
  ASSUME NEW h, NEW g, NEW s, NEW F, Blocks(h, s, F), NEW A, Wrote(h, g, A),
         NEW B \in SUBSET DOMAIN s, \A a \in A : \E b \in B : a \in Extent(s, b)
  PROVE  /\ Tag(g.mem[First - 8], 8, ALLOCATED)
         /\ Tag(g.mem[First - 4], 8, ALLOCATED)
         /\ Tag(g.mem[End], 0, ALLOCATED)
         /\ \A c \in DOMAIN s \ B : /\ Tag(g.mem[c], s[c], Status(F, c))
                                    /\ Tag(g.mem[c + s[c] - 4], s[c], Status(F, c))
<1>1. Tiles(s) /\ Tagged(h.mem, s, F)
  BY DEF Blocks
<1>2. First - 4 \in Words \ A /\ First - 8 \in Words \ A /\ End \in Words \ A
  BY <1>1, WordsAre, ExtentFacts
<1>3. ASSUME NEW c \in DOMAIN s \ B PROVE c \in Words \ A /\ c + s[c] - 4 \in Words \ A
  <2>1. c \in Words /\ c + s[c] - 4 \in Words /\ c \in Extent(s, c) /\ c + s[c] - 4 \in Extent(s, c)
    BY <1>1, TileFacts, ExtentFacts
  <2>2. \A b \in B : Extent(s, b) \cap Extent(s, c) = {}
    BY <1>1, ExtentFacts
  <2> QED
    BY <2>1, <2>2
<1> QED
  BY <1>1, <1>2, <1>3 DEF Tagged, Wrote

(* Two writes change the words of both.                                    *)
LEMMA WroteTwice ==
  ASSUME NEW h, NEW g, NEW f, NEW A, NEW B, Wrote(h, g, A), Wrote(g, f, B)
  PROVE  Wrote(h, f, A \cup B)
BY DEF Wrote

(* The split of malloc cuts the block and tags both parts.                 *)
LEMMA SplitBlocks ==
  ASSUME NEW h, NEW s, NEW F, Blocks(h, s, F), NEW b \in F, NEW n, CanCut(s, b, n)
  PROVE  LET g == Split(h, b, n)
         IN  /\ Blocks(g, Cut(s, b, n), (F \ {b}) \cup {b + n})
             /\ Wrote(h, g, {b + s[b] - 4, b, b + n - 4, b + n})
<1> DEFINE t == Cut(s, b, n)
           G == (F \ {b}) \cup {b + n}
           left == s[b] - n
           h0 == set_blocksize(h, b + s[b] - 4, left)
           h1 == Mark(h0, b, n, ALLOCATED)
           h2 == Mark(h1, b + n - 4, n, ALLOCATED)
           g  == Mark(h2, b + n, left, FREE)
           A == {b + s[b] - 4, b, b + n - 4, b + n}
<1>1. /\ Tiles(s) /\ h \in Memory /\ F \subseteq DOMAIN s /\ b \in DOMAIN s /\ b \in Header
      /\ b \in Words /\ b + s[b] - 4 \in Words /\ b \in Nat /\ s[b] \in Nat /\ s[b] % 8 = 0
      /\ n \in Nat /\ n % 8 = 0 /\ n >= 16 /\ s[b] - n >= 16
  BY TileFacts DEF Blocks, CanCut, MIN_BLOCKSIZE
<1>2. /\ Tiles(t) /\ b + n \notin DOMAIN s /\ b + n \in Inside(s, b) /\ b + n - 4 \in Inside(s, b)
      /\ DOMAIN t = DOMAIN s \cup {b + n} /\ t[b] = n /\ t[b + n] = left
      /\ \A c \in DOMAIN s : c # b => t[c] = s[c]
  <2>1. IsCut(s, b, n, t)
    BY <1>1, CutTiles
  <2> HIDE DEF t
  <2> QED
    BY <2>1 DEF IsCut
<1>3. left \in Nat /\ left % 8 = 0 /\ left >= 16 /\ left + 7 \in Value /\ n + 7 \in Value
  <2>1. s[b] + 7 \in Value /\ alloc_end \in Nat
    BY <1>1, TileFacts, WordsAre
  <2> QED
    BY <1>1, <2>1 DEF Value
<1>4. get_footer(h, b) = b + s[b] - 4 /\ get_blocksize(h, b) = s[b] /\ get_header(b) = b
      /\ h.mem[b + s[b] - 4] % 2 = FREE
  <2>1. get_allocated(h, b + s[b] - 4) = FREE
    BY <1>1, BlockRead DEF Status
  <2> QED
    BY <1>1, <2>1, BlockRead, Loaded DEF get_allocated
<1> HIDE DEF t, left
<1>5. Wrote(h, h0, {b + s[b] - 4}) /\ Tag(h0.mem[b + s[b] - 4], left, FREE) /\ h0 \in Memory
  BY <1>1, <1>3, <1>4, SizeWritten DEF Wrote
<1> HIDE DEF h0
<1>6. Wrote(h0, h1, {b}) /\ Tag(h1.mem[b], n, ALLOCATED) /\ h1 \in Memory
  BY <1>1, <1>3, <1>5, Marked DEF Wrote, ALLOCATED
<1> HIDE DEF h1
<1>7. b + n - 4 \in Words /\ b + n \in Words
  BY <1>2 DEF Inside
<1>8. Wrote(h1, h2, {b + n - 4}) /\ Tag(h2.mem[b + n - 4], n, ALLOCATED) /\ h2 \in Memory
  <2> PICK a \in Words : a = b + n - 4
    BY <1>7
  <2>1. Wrote(h1, Mark(h1, a, n, ALLOCATED), {a}) /\ Tag(Mark(h1, a, n, ALLOCATED).mem[a], n, ALLOCATED)
    BY <1>1, <1>3, <1>6, Marked DEF ALLOCATED
  <2> QED
    BY <2>1 DEF Wrote
<1> HIDE DEF h2
<1>9. Wrote(h2, g, {b + n}) /\ Tag(g.mem[b + n], left, FREE) /\ g \in Memory
  BY <1>3, <1>7, <1>8, Marked DEF Wrote, FREE
<1> HIDE DEF g
<1>10. /\ b # b + n - 4 /\ b # b + n /\ b # b + s[b] - 4 /\ b + n # b + n - 4
       /\ b + s[b] - 4 # b + n - 4 /\ b + s[b] - 4 # b + n
  BY <1>1, <1>3 DEF left
<1>11. /\ Tag(h2.mem[b], n, ALLOCATED) /\ Tag(g.mem[b], n, ALLOCATED)
       /\ Tag(g.mem[b + n - 4], n, ALLOCATED)
       /\ Tag(g.mem[b + s[b] - 4], left, FREE)
  BY <1>1, <1>5, <1>6, <1>7, <1>8, <1>9, <1>10 DEF Wrote
<1>12. Split(h, b, n) = g
  <2>1. get_footer(h1, b) = b + n - 4 /\ get_nextheader(h2, b) = b + n
    <3>1. get_blocksize(h1, b) = n /\ get_blocksize(h2, b) = n
      BY <1>1, <1>6, <1>8, <1>11, TagRead
    <3> QED
      BY <1>4, <3>1 DEF get_footer, get_nextheader
  <2> QED
    BY <1>4, <2>1 DEF Split, g, h2, h1, h0, left
<1>13. Wrote(h, g, A)
  <2>1. Wrote(h, h1, {b + s[b] - 4} \cup {b})
    BY <1>5, <1>6, WroteTwice
  <2>2. Wrote(h, h2, ({b + s[b] - 4} \cup {b}) \cup {b + n - 4})
    BY <1>8, <2>1, WroteTwice
  <2>3. Wrote(h, g, (({b + s[b] - 4} \cup {b}) \cup {b + n - 4}) \cup {b + n})
    BY <1>9, <2>2, WroteTwice
  <2>4. A = (({b + s[b] - 4} \cup {b}) \cup {b + n - 4}) \cup {b + n}
    OBVIOUS
  <2> QED
    BY <2>3, <2>4
<1>14. \A a \in A : a \in Extent(s, b)
  BY <1>1, <1>2, ExtentFacts
<1> HIDE DEF A
<1>15. /\ Tag(g.mem[First - 8], 8, ALLOCATED)
       /\ Tag(g.mem[First - 4], 8, ALLOCATED)
       /\ Tag(g.mem[End], 0, ALLOCATED)
       /\ \A c \in DOMAIN s \ {b} : /\ Tag(g.mem[c], s[c], Status(F, c))
                                    /\ Tag(g.mem[c + s[c] - 4], s[c], Status(F, c))
  BY <1>1, <1>13, <1>14, TagsElsewhere
<1>16. ASSUME NEW c \in DOMAIN t
       PROVE  Tag(g.mem[c], t[c], Status(G, c)) /\ Tag(g.mem[c + t[c] - 4], t[c], Status(G, c))
  <2>1. CASE c = b
    BY <1>2, <1>10, <1>11, <2>1 DEF Status
  <2>2. CASE c = b + n
    <3>1. c + t[c] - 4 = b + s[b] - 4
      BY <1>1, <1>2, <2>2 DEF left
    <3> QED
      BY <1>2, <1>9, <1>11, <2>2, <3>1 DEF Status
  <2>3. CASE c # b /\ c # b + n
    <3>1. c \in DOMAIN s \ {b} /\ t[c] = s[c]
      BY <1>2, <2>3
    <3>2. Status(G, c) = Status(F, c)
      BY <2>3 DEF Status
    <3> QED
      BY <1>15, <3>1, <3>2
  <2> QED
    BY <2>1, <2>2, <2>3
<1>17. G \subseteq DOMAIN t
  BY <1>1, <1>2
<1>18. Blocks(g, t, G)
  BY <1>2, <1>9, <1>15, <1>16, <1>17 DEF Blocks, Tagged
<1> QED
  BY <1>12, <1>13, <1>18 DEF A, t

(* merge_free_blocks joins the blocks and tags the result.                 *)
LEMMA MergeBlocks ==
  ASSUME NEW h, NEW s, NEW F, Blocks(h, s, F), NEW b \in DOMAIN s, NEW c \in DOMAIN s, b + s[b] = c
  PROVE  LET g == merge_free_blocks(h, b, c)
         IN  /\ Blocks(g, Joined(s, b, c), (F \ {c}) \cup {b})
             /\ Wrote(h, g, {b, c + s[c] - 4})
<1> DEFINE t == Joined(s, b, c)
           G == (F \ {c}) \cup {b}
           size == s[b] + s[c]
           h1 == Mark(h, b, size, FREE)
           g  == Mark(h1, c + s[c] - 4, size, FREE)
           A == {b, c + s[c] - 4}
<1>1. /\ Tiles(s) /\ h \in Memory /\ F \subseteq DOMAIN s
  BY DEF Blocks
<1>2. b \in Words /\ b \in Nat /\ s[b] \in Nat /\ s[b] % 8 = 0 /\ s[b] >= 16
  BY <1>1, TileFacts
<1>3. /\ c \in Words /\ c + s[c] - 4 \in Words /\ c \in Nat /\ s[c] \in Nat /\ s[c] % 8 = 0
      /\ s[c] >= 16
  BY <1>1, TileFacts
<1>4. /\ Tiles(t) /\ DOMAIN t = DOMAIN s \ {c} /\ b # c /\ t[b] = size
      /\ \A d \in DOMAIN s : d # b /\ d # c => t[d] = s[d]
  BY <1>1, JoinedTiles
<1>5. get_blocksize(h, b) = s[b] /\ get_blocksize(h, c) = s[c] /\ get_header(c) = c
  BY BlockRead
<1>6. /\ size \in Nat /\ size % 8 = 0 /\ b # c + s[c] - 4 /\ b + size - 4 = c + s[c] - 4
      /\ size + 7 \in Value
  <2>1. First <= b
    BY <1>1, TileFacts
  <2>2. c + s[c] <= End
    BY <1>1, TileFacts
  <2> QED
    BY <1>2, <1>3, <2>1, <2>2, WordsAre DEF Value
<1> HIDE DEF t, size
<1>7. Wrote(h, h1, {b}) /\ Tag(h1.mem[b], size, FREE) /\ h1 \in Memory
  BY <1>1, <1>2, <1>6, Marked DEF Wrote, FREE
<1> HIDE DEF h1
<1>8. Wrote(h1, g, {c + s[c] - 4}) /\ Tag(g.mem[c + s[c] - 4], size, FREE) /\ g \in Memory
  <2> PICK a \in Words : a = c + s[c] - 4
    BY <1>3
  <2>1. Wrote(h1, Mark(h1, a, size, FREE), {a}) /\ Tag(Mark(h1, a, size, FREE).mem[a], size, FREE)
    BY <1>6, <1>7, Marked DEF FREE
  <2> QED
    BY <2>1 DEF Wrote
<1> HIDE DEF g
<1>9. Tag(g.mem[b], size, FREE)
  BY <1>2, <1>6, <1>7, <1>8 DEF Wrote
<1>10. merge_free_blocks(h, b, c) = g
  <2>1. h1.mem[c] = h.mem[c]
    BY <1>3, <1>4, <1>7 DEF Wrote
  <2>2. get_blocksize(h1, c) = s[c]
    BY <1>1, <1>3, <1>5, <1>7, <2>1, Loaded DEF get_blocksize
  <2>3. get_footer(h1, c) = c + s[c] - 4
    BY <1>5, <2>2 DEF get_footer
  <2> QED
    BY <1>5, <2>3 DEF merge_free_blocks, g, h1, size
<1>11. Wrote(h, g, A)
  <2>1. A = {b} \cup {c + s[c] - 4}
    OBVIOUS
  <2> QED
    BY <1>7, <1>8, <2>1, WroteTwice
<1>12. \A a \in A : \E d \in {b, c} : a \in Extent(s, d)
  BY <1>1, ExtentFacts
<1> HIDE DEF A
<1>13. /\ Tag(g.mem[First - 8], 8, ALLOCATED)
       /\ Tag(g.mem[First - 4], 8, ALLOCATED)
       /\ Tag(g.mem[End], 0, ALLOCATED)
       /\ \A d \in DOMAIN s \ {b, c} : /\ Tag(g.mem[d], s[d], Status(F, d))
                                       /\ Tag(g.mem[d + s[d] - 4], s[d], Status(F, d))
  <2>1. {b, c} \in SUBSET DOMAIN s
    OBVIOUS
  <2> QED
    BY <1>11, <1>12, <2>1, TagsElsewhere
<1>14. ASSUME NEW d \in DOMAIN t
       PROVE  Tag(g.mem[d], t[d], Status(G, d)) /\ Tag(g.mem[d + t[d] - 4], t[d], Status(G, d))
  <2>1. CASE d = b
    BY <1>4, <1>6, <1>8, <1>9, <2>1 DEF Status
  <2>2. CASE d # b
    <3>1. d \in DOMAIN s \ {b, c} /\ t[d] = s[d] /\ Status(G, d) = Status(F, d)
      BY <1>4, <2>2 DEF Status
    <3> QED
      BY <1>13, <3>1
  <2> QED
    BY <2>1, <2>2
<1>15. G \subseteq DOMAIN t
  BY <1>1, <1>4
<1>16. Blocks(g, t, G)
  BY <1>4, <1>8, <1>13, <1>14, <1>15 DEF Blocks, Tagged
<1> QED
  BY <1>10, <1>11, <1>16 DEF A, t

(* A block that has no free neighbour is only marked. *)
LEMMA MarkBlock ==
  ASSUME NEW h, NEW s, NEW F, Blocks(h, s, F), NEW b \in DOMAIN s
  PROVE  LET g == set_allocated(set_allocated(h, b, FREE), get_footer(h, b), FREE)
         IN  /\ Blocks(g, s, F \cup {b})
             /\ Wrote(h, g, {b, b + s[b] - 4})
<1> DEFINE h1 == set_allocated(h, b, FREE)
           g  == set_allocated(h1, b + s[b] - 4, FREE)
           A == {b, b + s[b] - 4}
<1>1. /\ Tiles(s) /\ h \in Memory /\ F \subseteq DOMAIN s
  BY DEF Blocks
<1>2. /\ b \in Words /\ b \in Nat /\ s[b] \in Nat /\ s[b] >= 16 /\ b + s[b] - 4 \in Words
      /\ b # b + s[b] - 4
  <2>1. b \in Words /\ b \in Nat /\ s[b] \in Nat /\ s[b] >= 16 /\ b + s[b] - 4 \in Words
    BY <1>1, TileFacts
  <2> QED
    BY <2>1
<1>3. /\ Tag(h.mem[b], s[b], Status(F, b)) /\ Tag(h.mem[b + s[b] - 4], s[b], Status(F, b))
      /\ get_header(b) = b
  BY BlockRead DEF Blocks, Tagged
<1>4. Wrote(h, h1, {b}) /\ Tag(h1.mem[b], s[b], FREE) /\ h1 \in Memory
  BY <1>1, <1>2, <1>3, FlagWritten DEF Wrote, FREE
<1> HIDE DEF h1
<1>5. Tag(h1.mem[b + s[b] - 4], s[b], Status(F, b))
  BY <1>2, <1>3, <1>4 DEF Wrote
<1>6. Wrote(h1, g, {b + s[b] - 4}) /\ Tag(g.mem[b + s[b] - 4], s[b], FREE) /\ g \in Memory
  BY <1>2, <1>4, <1>5, FlagWritten DEF Wrote, FREE
<1> HIDE DEF g
<1>7. Tag(g.mem[b], s[b], FREE)
  BY <1>2, <1>4, <1>6 DEF Wrote
<1>8. set_allocated(h1, get_footer(h, b), FREE) = g
  <2>1. get_footer(h, b) = b + s[b] - 4
    BY BlockRead
  <2> QED
    BY <2>1 DEF g
<1>9. Wrote(h, g, A)
  <2>1. A = {b} \cup {b + s[b] - 4}
    OBVIOUS
  <2> QED
    BY <1>4, <1>6, <2>1, WroteTwice
<1>10. \A a \in A : a \in Extent(s, b)
  BY <1>1, ExtentFacts
<1> HIDE DEF A
<1>11. /\ Tag(g.mem[First - 8], 8, ALLOCATED)
       /\ Tag(g.mem[First - 4], 8, ALLOCATED)
       /\ Tag(g.mem[End], 0, ALLOCATED)
       /\ \A d \in DOMAIN s \ {b} : /\ Tag(g.mem[d], s[d], Status(F, d))
                                    /\ Tag(g.mem[d + s[d] - 4], s[d], Status(F, d))
  BY <1>9, <1>10, TagsElsewhere
<1>12. ASSUME NEW d \in DOMAIN s
       PROVE  /\ Tag(g.mem[d], s[d], Status(F \cup {b}, d))
              /\ Tag(g.mem[d + s[d] - 4], s[d], Status(F \cup {b}, d))
  <2>1. CASE d = b
    BY <1>6, <1>7, <2>1 DEF Status
  <2>2. CASE d # b
    <3>1. Status(F \cup {b}, d) = Status(F, d)
      BY <2>2 DEF Status
    <3> QED
      BY <1>11, <2>2, <3>1
  <2> QED
    BY <2>1, <2>2
<1>13. Blocks(g, s, F \cup {b})
  BY <1>1, <1>6, <1>11, <1>12 DEF Blocks, Tagged
<1> QED
  BY <1>8, <1>9, <1>13 DEF A, h1

-----------------------------------------------------------------------------
(* Requests and regions. *)
LEMMA WantFacts ==
  ASSUME NEW q \in Requests, q.size > 0, NEW b \in Header
  PROVE  /\ Want(q, b) \in Nat /\ Want(q, b) % 8 = 0 /\ Want(q, b) >= 16
         /\ Shift(b, q) \in Nat /\ Shift(b, q) % 8 = 0
         /\ Shift(b, q) + q.used + 8 <= Want(q, b)
         /\ q.lli => (b + 4 + Shift(b, q)) % LLI_SIZE = 0
         /\ ~q.lli => Shift(b, q) = 0
<1>1. /\ q.size \in Nat /\ q.used \in Nat /\ q.lli \in BOOLEAN
      /\ q.lli => q.used = 64
  BY HeapAssumption DEF LLI_SIZE
<1>2. b \in Nat /\ b % 8 = 4 /\ get_payload(b) = b + 4
  BY HeaderFacts, AtHeader
<1>3. CASE ~q.lli
  <2>1. align_up(q.size, 8) \in Nat /\ align_up(q.size, 8) % 8 = 0 /\ q.size <= align_up(q.size, 8)
    BY <1>1, Rounded
  <2>2. q.used <= align_up(q.size, 8)
    BY <1>3, RequestsFit
  <2> PICK n \in Nat : n = align_up(q.size, 8)
    BY <2>1
  <2>3. n >= 8 /\ n + 8 >= 16 /\ (n + 8) % 8 = 0 /\ q.used <= n
    BY <1>1, <2>1, <2>2
  <2>4. Want(q, b) = n + 8 /\ Shift(b, q) = 0
    BY <1>3, <2>3 DEF Want, Shift, BOUNDART_SIZE, MIN_BLOCKSIZE
  <2> QED
    BY <1>1, <1>3, <2>3, <2>4
<1>4. CASE q.lli
  <2> PICK u \in 0..63 : u = (b + 4) % 64
    BY <1>2
  <2>1. unaligned_size(b) = u /\ u % 8 = 0
    BY <1>2 DEF unaligned_size, LLI_SIZE
  <2>2. CASE u = 0
    <3>1. Want(q, b) = 72 /\ Shift(b, q) = 0
      BY <1>4, <2>1, <2>2 DEF Want, Shift, LLI_SIZE, BOUNDART_SIZE
    <3>2. (b + 4 + 0) % 64 = 0
      BY <1>2, <2>2
    <3> QED
      BY <1>1, <1>4, <3>1, <3>2 DEF LLI_SIZE
  <2>3. CASE u # 0
    <3>1. Want(q, b) = 136 - u /\ Shift(b, q) = 64 - u
      BY <1>4, <2>1, <2>3 DEF Want, Shift, LLI_SIZE, BOUNDART_SIZE
    <3>2. (b + 4 + (64 - u)) % 64 = 0
      BY <1>2
    <3>3. 136 - u \in Nat /\ (136 - u) % 8 = 0 /\ 136 - u >= 16 /\ 64 - u \in Nat /\ (64 - u) % 8 = 0
          /\ (64 - u) + 64 + 8 <= 136 - u
      <4>1. \A x \in 0..63 : x % 8 = 0 => /\ 136 - x \in Nat /\ (136 - x) % 8 = 0 /\ 136 - x >= 16
                                         /\ 64 - x \in Nat /\ (64 - x) % 8 = 0
                                         /\ (64 - x) + 64 + 8 <= 136 - x
        OBVIOUS
      <4> QED
        BY <2>1, <4>1
    <3> QED
      BY <1>1, <1>4, <3>1, <3>2, <3>3 DEF LLI_SIZE
  <2> QED
    BY <2>2, <2>3
<1> QED
  BY <1>3, <1>4

(* A region and the word before it lie between the tags of its block.      *)
LEMMA RegionInside ==
  ASSUME NEW s, Tiles(s), NEW b \in DOMAIN s, NEW r \in Region, NEW m, InBlock(m, s, r, b)
  PROVE  /\ \A a \in Words : r.ptr <= a /\ a < r.ptr + r.used => a \in Inside(s, b)
         /\ r.ptr # b + 4 => r.ptr - 4 \in Inside(s, b)
<1>1. /\ b \in Nat /\ b % 8 = 4 /\ s[b] \in Nat /\ First <= b /\ b + s[b] <= End
      /\ First \in Nat /\ End \in Nat /\ Words \subseteq Nat
  BY TileFacts, WordsAre
<1>2. /\ r.ptr \in Nat /\ r.used \in Nat /\ r.ptr % 8 = 0 /\ b + 4 <= r.ptr
      /\ r.ptr + r.used <= b + s[b] - 4
  BY DEF Region, InBlock
<1>3. ASSUME NEW a \in Words, r.ptr <= a, a < r.ptr + r.used PROVE a \in Inside(s, b)
  BY <1>1, <1>2, <1>3 DEF Inside
<1>4. ASSUME r.ptr # b + 4 PROVE r.ptr - 4 \in Inside(s, b)
  <2>1. r.ptr - 4 \in Nat /\ (r.ptr - 4) % 4 = 0 /\ First <= r.ptr - 4 /\ r.ptr - 4 <= End
    BY <1>1, <1>2
  <2>2. r.ptr - 4 \in Words
    BY <2>1, WordsAre
  <2>3. b < r.ptr - 4 /\ r.ptr - 4 < b + s[b] - 4
    BY <1>1, <1>2, <1>4
  <2> QED
    BY <2>2, <2>3 DEF Inside
<1> QED
  BY <1>3, <1>4

(* A region stays in its block when the inside of the block stays. *)
LEMMA InBlockKept ==
  ASSUME NEW s, Tiles(s), NEW b \in DOMAIN s, NEW r \in Region, NEW m, InBlock(m, s, r, b),
         NEW k, NEW t, t[b] = s[b], \A a \in Inside(s, b) : k[a] = m[a]
  PROVE  InBlock(k, t, r, b)
BY RegionInside DEF InBlock

-----------------------------------------------------------------------------
(* The actions. *)

(* heap_init makes one free block between the sentinels.                   *)
LEMMA SentinelBlocks ==
  LET t == [b \in {First} |-> End - First]
  IN  Blocks(Sentinels, t, {First}) /\ Sentinels.head = 0 /\ Sentinels.counter = 0
<1> DEFINE t == [b \in {First} |-> End - First]
           h0 == [mem |-> [a \in Words |-> 0], head |-> 0, counter |-> 0]
           h1 == Mark(h0, First - 8, 8, ALLOCATED)
           h2 == Mark(h1, First - 4, 8, ALLOCATED)
           h3 == Mark(h2, End, 0, ALLOCATED)
           h4 == Mark(h3, First, End - First, FREE)
           g  == Mark(h4, End - 4, End - First, FREE)
<1>1. /\ First \in Nat /\ End \in Nat /\ First % 8 = 4 /\ End % 8 = 4 /\ First + 16 <= End
      /\ First - 8 \in Words /\ First - 4 \in Words /\ First \in Words /\ End \in Words
      /\ First \in Header /\ alloc_end \in Nat /\ End = alloc_end - 4 /\ First >= 12
  BY WordsAre
<1>2. /\ End - First \in Nat /\ (End - First) % 8 = 0 /\ End - First >= 16
      /\ End - First + 7 \in Value /\ 8 + 7 \in Value /\ 0 + 7 \in Value /\ 0 \in Value
      /\ End - 4 \in Words
  <2>1. End - 4 \in Nat /\ First <= End - 4 /\ (End - 4) % 4 = 0 /\ End - 4 <= End
    BY <1>1
  <2>2. End - 4 \in Words
    BY <2>1, WordsAre
  <2>3. /\ End - First \in Nat /\ (End - First) % 8 = 0 /\ End - First >= 16
        /\ End - First + 7 \in Value /\ 8 + 7 \in Value /\ 0 + 7 \in Value /\ 0 \in Value
    BY <1>1 DEF Value
  <2> QED
    BY <2>2, <2>3
<1>3. h0 \in Memory /\ h0.head = 0 /\ h0.counter = 0
  BY <1>2 DEF Memory
<1> HIDE DEF h0
<1>4. Wrote(h0, h1, {First - 8}) /\ h1 \in Memory /\ Tag(h1.mem[First - 8], 8, ALLOCATED)
  <2>1. Wrote(h0, h1, {First - 8}) /\ Tag(h1.mem[First - 8], 8, ALLOCATED)
    BY <1>1, <1>2, <1>3, Marked DEF ALLOCATED
  <2> QED
    BY <2>1 DEF Wrote
<1> HIDE DEF h1
<1>5. Wrote(h1, h2, {First - 4}) /\ h2 \in Memory /\ Tag(h2.mem[First - 4], 8, ALLOCATED)
  <2>1. Wrote(h1, h2, {First - 4}) /\ Tag(h2.mem[First - 4], 8, ALLOCATED)
    BY <1>1, <1>2, <1>4, Marked DEF ALLOCATED
  <2> QED
    BY <2>1 DEF Wrote
<1> HIDE DEF h2
<1>6. Wrote(h2, h3, {End}) /\ h3 \in Memory /\ Tag(h3.mem[End], 0, ALLOCATED)
  <2>1. Wrote(h2, h3, {End}) /\ Tag(h3.mem[End], 0, ALLOCATED)
    BY <1>1, <1>2, <1>5, Marked DEF ALLOCATED
  <2> QED
    BY <2>1 DEF Wrote
<1> HIDE DEF h3
<1>7. Wrote(h3, h4, {First}) /\ h4 \in Memory /\ Tag(h4.mem[First], End - First, FREE)
  <2>1. Wrote(h3, h4, {First}) /\ Tag(h4.mem[First], End - First, FREE)
    BY <1>1, <1>2, <1>6, Marked DEF FREE
  <2> QED
    BY <2>1 DEF Wrote
<1> HIDE DEF h4
<1>8. Wrote(h4, g, {End - 4}) /\ g \in Memory /\ Tag(g.mem[End - 4], End - First, FREE)
  BY <1>1, <1>2, <1>7, Marked DEF Wrote, FREE
<1> HIDE DEF g
<1>9. Sentinels = g
  <2>1. /\ get_prologue = First - 8 /\ get_prologue + 4 = First - 4
        /\ alloc_end - alloc_start - 4 - 8 - 4 = End - First
    BY WordsAre DEF First, get_firstblock, get_prologue
  <2>2. get_footer(h4, First) = End - 4
    <3>1. get_header(First) = First /\ get_blocksize(h4, First) = End - First
      BY <1>1, <1>7, AtHeader, TagRead
    <3>2. First + (End - First) - 4 = End - 4
      BY <1>1
    <3> QED
      BY <3>1, <3>2 DEF get_footer
  <2> QED
    BY <2>1, <2>2 DEF Sentinels, h0, h1, h2, h3, h4, g, First, End
<1>10. /\ Tag(g.mem[First - 8], 8, ALLOCATED) /\ Tag(g.mem[First - 4], 8, ALLOCATED)
       /\ Tag(g.mem[End], 0, ALLOCATED) /\ Tag(g.mem[First], End - First, FREE)
       /\ g.head = 0 /\ g.counter = 0
  <2>1. /\ First - 8 # First - 4 /\ First - 8 # End /\ First - 8 # First /\ First - 8 # End - 4
        /\ First - 4 # End /\ First - 4 # First /\ First - 4 # End - 4
        /\ End # First /\ End # End - 4 /\ First # End - 4
    BY <1>1
  <2> QED
    BY <1>1, <1>3, <1>4, <1>5, <1>6, <1>7, <1>8, <2>1 DEF Wrote
<1>11. /\ DOMAIN t = {First} /\ t[First] = End - First /\ First + t[First] = End
       /\ First + t[First] - 4 = End - 4
  BY <1>1
<1> HIDE DEF t
<1>12. Tiles(t)
  BY <1>1, <1>2, <1>11 DEF Tiles, MIN_BLOCKSIZE
<1>13. Tagged(g.mem, t, {First})
  BY <1>8, <1>10, <1>11 DEF Tagged, Status
<1> QED
  BY <1>8, <1>9, <1>10, <1>11, <1>12, <1>13 DEF Blocks, t

(* The invariant holds once that block is in the list.                     *)
LEMMA HeapInit ==
  ASSUME heap_init
  PROVE  HeapInv
<1> DEFINE t == [b \in {First} |-> End - First]
           own == [r \in {} |-> 0]
<1>1. Blocks(Sentinels, t, {First}) /\ Sentinels.head = 0 /\ Sentinels.counter = 0
  BY SentinelBlocks
<1>2. DOMAIN t = {First} /\ t[First] = End - First
  OBVIOUS
<1> HIDE DEF t
<1>3. Sentinels \in Memory /\ Tiles(t) /\ Tagged(Sentinels.mem, t, {First})
  BY <1>1 DEF Blocks
<1>4. List(Sentinels, {})
  <2>1. Ring(Sentinels, << >>)
    BY <1>1 DEF Ring
  <2>2. Members(<< >>) = {}
    BY DEF Members
  <2> QED
    BY <2>1, <2>2 DEF List
<1>5. First \in Header /\ First + 8 \in Words
  BY <1>2, <1>3, TileFacts
<1>6. /\ heap \in Memory /\ List(heap, {} \cup {First})
      /\ \A a \in Words : a \notin LinksOf({} \cup {First}) => heap.mem[a] = Sentinels.mem[a]
  BY <1>3, <1>4, <1>5, ListInsert DEF heap_init, First
<1>7. Tagged(heap.mem, t, {First})
  <2>1. \A a \in LinksOf({} \cup {First}) : \E c \in DOMAIN t : a \in Inside(t, c)
    BY <1>2, <1>3, TagsOutside DEF LinksOf
  <2> QED
    BY <1>3, <1>6, <2>1, TagsKept
<1>8. Blocks(heap, t, {First})
  BY <1>2, <1>3, <1>6, <1>7 DEF Blocks
<1>9. Separate(t, {First})
  BY <1>2, WordsAre DEF Separate
<1>10. taken = NoBlock /\ live = {} /\ refused = NoRequest /\ taken.block = 0
  BY DEF heap_init, NoBlock
<1>11. List(heap, Listed(t, {First}))
  BY <1>6, <1>10 DEF Listed
<1>12. Holding(heap.mem, t, own, (DOMAIN t \ {First}) \ {taken.block})
  BY <1>2, <1>10 DEF Holding
<1>13. Underway(t, {First}) /\ Refusal(t, {First})
  BY <1>10 DEF Underway, Refusal
<1> QED
  BY <1>8, <1>9, <1>11, <1>12, <1>13 DEF HeapInv, HeapIs

(* The search of malloc goes once round the ring. *)
LEMMA VisitedIs ==
  ASSUME NEW h \in Memory, NEW r, Ring(h, r)
  PROVE  \A i \in 0..Len(r) : Visited(h)[i] = IF i = Len(r) THEN h.head ELSE r[i + 1]
<1> DEFINE n == Len(r)
           at(i) == IF i = n THEN h.head ELSE r[i + 1]
           g == [i \in 0..n |-> at(i)]
           b[i \in 0..h.counter] == IF i = 0 THEN h.head ELSE get_nextfree(h, b[i - 1])
<1>1. /\ n \in Nat /\ r \in Seq(Header) /\ h.counter = n
      /\ h.head = IF n = 0 THEN 0 ELSE r[1]
      /\ \A i \in 1..n : r[i] \in Header /\ r[i] + 8 \in Words /\ h.mem[r[i] + 8] = After(r, i)
  BY DEF Ring
<1>2. at(0) = h.head
  BY <1>1
<1>3. ASSUME NEW i \in 1..n PROVE at(i) = get_nextfree(h, at(i - 1))
  <2>1. at(i - 1) = r[i]
    BY <1>1
  <2>2. get_nextfree(h, r[i]) = After(r, i)
    BY <1>1, HeaderFacts, Loaded DEF get_nextfree
  <2>3. at(i) = After(r, i)
    BY <1>1 DEF After
  <2> QED
    BY <2>1, <2>2, <2>3
<1> HIDE DEF at
<1>4. g = [i \in 0..h.counter |-> IF i = 0 THEN h.head ELSE get_nextfree(h, g[i - 1])]
  <2>1. \A i \in 0..n : i # 0 => i - 1 \in 0..n /\ i \in 1..n
    BY <1>1
  <2> QED
    BY <1>1, <1>2, <1>3, <2>1
<1>5. b = [i \in 0..h.counter |-> IF i = 0 THEN h.head ELSE get_nextfree(h, b[i - 1])]
  <2> HIDE DEF g
  <2> QED
    BY <1>4 DEF b
<1>6. Visited(h) = b
  BY DEF Visited
<1> HIDE DEF b, g
<1>7. \A i \in 0..n : b[i] = at(i)
  <2> DEFINE S == {i \in Nat : i <= n => b[i] = at(i)}
  <2>1. 0 \in S
    BY <1>1, <1>2, <1>5
  <2>2. ASSUME NEW i \in S PROVE i + 1 \in S
    <3> SUFFICES ASSUME i + 1 <= n PROVE b[i + 1] = at(i + 1)
      OBVIOUS
    <3>1. i + 1 \in 0..n /\ i + 1 # 0 /\ (i + 1) - 1 = i /\ i <= n /\ i + 1 \in 1..n
      BY <1>1
    <3>2. b[i + 1] = get_nextfree(h, b[(i + 1) - 1])
      BY <1>1, <1>5, <3>1
    <3>3. b[i] = at(i)
      BY <3>1
    <3>4. at(i + 1) = get_nextfree(h, at((i + 1) - 1))
      BY <1>3, <3>1
    <3> QED
      BY <3>1, <3>2, <3>3, <3>4
  <2>3. S \in SUBSET Nat
    OBVIOUS
  <2> HIDE DEF S
  <2>4. S = Nat
    BY <2>1, <2>2, <2>3, SetInduction
  <2> QED
    BY <1>1, <2>4 DEF S
<1> QED
  BY <1>6, <1>7 DEF at

(* malloc keeps the invariant up to the split, or when it returns NULL.    *)
LEMMA TakeKeeps ==
  ASSUME HeapInv, NEW q \in Requests, malloc_take(q)
  PROVE  HeapInv'
<1> PICK s, F, own : HeapIs(s, F, own)
  BY DEF HeapInv
<1>1. /\ taken = NoBlock /\ taken.block = 0 /\ q.size > 0 /\ q.size \in Nat /\ live' = live
  BY HeapAssumption DEF malloc_take, NoBlock
<1>2. /\ Blocks(heap, s, F) /\ Separate(s, F) /\ List(heap, F)
      /\ Holding(heap.mem, s, own, (DOMAIN s \ F) \ {0}) /\ Refusal(s, F)
  BY <1>1 DEF HeapIs, Listed
<1>3. heap \in Memory /\ Tiles(s) /\ F \subseteq DOMAIN s /\ Tagged(heap.mem, s, F)
  BY <1>2 DEF Blocks
<1> PICK r : Ring(heap, r) /\ F = Members(r)
  BY <1>2 DEF List
<1>4. heap.counter = Len(r) /\ Len(r) \in Nat
  BY DEF Ring
<1>5. ASSUME NEW i \in 0..(heap.counter - 1)
      PROVE  i + 1 \in 1..Len(r) /\ Visited(heap)[i] = r[i + 1] /\ r[i + 1] \in F
  <2>1. i \in 0..Len(r) /\ i # Len(r) /\ i + 1 \in 1..Len(r)
    BY <1>4
  <2> QED
    BY <1>3, <2>1, VisitedIs DEF Members
<1>6. ASSUME NEW b \in F
      PROVE  /\ Takes(heap, b, Want(q, b)) <=> s[b] - Want(q, b) >= 16
             /\ Want(q, b) \in Nat /\ Want(q, b) % 8 = 0 /\ Want(q, b) >= 16 /\ b \in DOMAIN s
  <2>1. b \in DOMAIN s /\ b \in Header
    BY <1>3, TileFacts
  <2>2. Want(q, b) \in Nat /\ Want(q, b) % 8 = 0 /\ Want(q, b) >= 16
    BY <1>1, <2>1, WantFacts
  <2>3. get_allocated(heap, b) = FREE /\ get_blocksize(heap, b) = s[b]
    BY <1>2, <2>1, BlockRead DEF Status
  <2> QED
    BY <2>1, <2>2, <2>3 DEF Takes, MIN_BLOCKSIZE
<1>7. CASE Fits(heap, q) = {} /\ refused' = q /\ UNCHANGED <<heap, taken>>
  <2>1. ASSUME NEW b \in F PROVE s[b] < Want(q, b) + MIN_BLOCKSIZE
    <3> PICK k \in 1..Len(r) : b = r[k]
      BY DEF Members
    <3>1. k - 1 \in 0..(heap.counter - 1) /\ (k - 1) + 1 = k
      BY <1>4
    <3>2. Visited(heap)[k - 1] = b
      BY <1>5, <3>1
    <3>3. ~Takes(heap, b, Want(q, b))
      BY <1>7, <3>1, <3>2 DEF Fits
    <3>4. s[b] \in Nat
      BY <1>3, <1>6, TileFacts
    <3> QED
      BY <1>6, <3>3, <3>4 DEF MIN_BLOCKSIZE
  <2>2. Refusal(s, F)'
    BY <1>7, <2>1 DEF Refusal
  <2>3. HeapIs(s, F, own)'
    BY <1>1, <1>2, <1>7, <2>2 DEF HeapIs, Underway, Listed, Holding
  <2> QED
    BY <2>3 DEF HeapInv
<1>8. ASSUME NEW i \in Fits(heap, q), refused' = NoRequest,
             heap' = Split(heap, Visited(heap)[i], Want(q, Visited(heap)[i])),
             taken' = [block |-> Visited(heap)[i], old |-> get_blocksize(heap, Visited(heap)[i]),
                       req |-> q]
      PROVE  HeapInv'
  <2> PICK b : b = Visited(heap)[i]
    OBVIOUS
  <2> DEFINE n == Want(q, b)
             t == Cut(s, b, n)
             G == (F \ {b}) \cup {b + n}
  <2>1. b \in F /\ Takes(heap, b, n) /\ heap' = Split(heap, b, n)
    BY <1>5, <1>8 DEF Fits
  <2>2. b \in DOMAIN s /\ CanCut(s, b, n) /\ n \in Nat
    BY <1>6, <2>1 DEF CanCut, MIN_BLOCKSIZE
  <2>3. IsCut(s, b, n, t)
    BY <1>3, <2>2, CutTiles
  <2>4. Blocks(heap', t, G) /\ Wrote(heap, heap', {b + s[b] - 4, b, b + n - 4, b + n})
    BY <1>2, <2>1, <2>2, SplitBlocks
  <2>5. taken'.block = b /\ taken'.old = s[b] /\ taken'.req = q /\ taken' # NoBlock
    <3>1. get_blocksize(heap, b) = s[b] /\ b \in Header
      BY <1>2, <1>3, <2>2, BlockRead, TileFacts
    <3> QED
      BY <1>8, <3>1, HeaderFacts DEF NoBlock
  <2> HIDE DEF n, t
  <2>6. /\ Tiles(t) /\ b + n \notin DOMAIN s /\ b + n \in Inside(s, b) /\ b + n - 4 \in Inside(s, b)
        /\ DOMAIN t = DOMAIN s \cup {b + n} /\ t[b] = n /\ t[b + n] = s[b] - n
        /\ \A c \in DOMAIN s : c # b => t[c] = s[c]
    BY <2>3 DEF IsCut
  <2>7. /\ b \in Nat /\ s[b] \in Nat /\ n \in Nat /\ b + n \in Nat /\ b + n # b
        /\ (b + n) + t[b + n] = b + s[b] /\ s[b] >= 16
    <3>1. b \in Nat /\ s[b] \in Nat /\ s[b] >= 16
      BY <1>3, <2>2, TileFacts
    <3> QED
      BY <2>2, <2>6, <3>1
  <2>8. Separate(t, G)
    <3> SUFFICES ASSUME NEW c \in G, c + t[c] \in G PROVE FALSE
      BY DEF Separate
    <3>1. CASE c = b + n
      <4>1. b + s[b] \in F \/ b + s[b] = b + n
        BY <2>7, <3>1
      <4>2. b + s[b] # b + n
        BY <2>1, <2>2, <2>7 DEF CanCut, MIN_BLOCKSIZE, n
      <4> QED
        BY <1>2, <2>1, <4>1, <4>2 DEF Separate
    <3>2. CASE c # b + n
      <4>1. c \in F /\ c # b /\ c \in DOMAIN s /\ t[c] = s[c]
        BY <1>3, <2>6, <3>2
      <4>2. c + s[c] # b + n
        BY <1>3, <2>6, <4>1, TileFacts DEF Tiles
      <4> QED
        BY <1>2, <4>1, <4>2 DEF Separate
    <3> QED
      BY <3>1, <3>2
  <2>9. List(heap', Listed(t, G)')
    <3>1. Listed(t, G)' = F
      <4>1. b + n \notin F
        BY <1>3, <2>6
      <4> QED
        BY <2>1, <2>5, <2>6, <4>1 DEF Listed
    <3>2. LinksOf(F) \cap {b + s[b] - 4, b, b + n - 4, b + n} = {}
      <4> SUFFICES ASSUME NEW c \in F, NEW a \in {c + 4, c + 8}
                   PROVE  a \notin {b + s[b] - 4, b, b + n - 4, b + n}
        BY DEF LinksOf
      <4>1. c \in DOMAIN t
        BY <1>3, <2>6
      <4>2. a \in Inside(t, c)
        BY <2>6, <4>1, TagsOutside
      <4>3. b \in DOMAIN t /\ b + n \in DOMAIN t /\ b + n - 4 = b + t[b] - 4
            /\ b + s[b] - 4 = (b + n) + t[b + n] - 4
        BY <2>2, <2>6, <2>7
      <4> QED
        BY <2>6, <4>1, <4>2, <4>3, TagsOutside
    <3> QED
      BY <1>2, <2>4, <3>1, <3>2, ListKept
  <2>10. (DOMAIN t \ G) \ {b} = (DOMAIN s \ F) \ {0}
    <3>1. 0 \notin DOMAIN s
      BY <1>3, TileFacts, HeaderFacts
    <3> QED
      BY <2>1, <2>6, <3>1
  <2>11. Holding(heap'.mem, t, own, (DOMAIN s \ F) \ {0})
    <3>1. ASSUME NEW x \in live PROVE InBlock(heap'.mem, t, x, own[x])
      <4> PICK c : c = own[x]
        OBVIOUS
      <4>1. x \in Region /\ c \in DOMAIN s /\ c # b /\ InBlock(heap.mem, s, x, c)
        BY <1>2, <2>1 DEF Holding
      <4>2. ASSUME NEW a \in Inside(s, c) PROVE heap'.mem[a] = heap.mem[a]
        <5>1. a \in Words /\ a \notin Inside(s, b)
          BY <1>3, <2>2, <4>1, TagsOutside DEF Inside
        <5>2. a # b /\ a # b + s[b] - 4
          BY <1>3, <2>2, <4>1, TagsOutside
        <5> QED
          BY <2>4, <2>6, <5>1, <5>2 DEF Wrote
      <4>3. t[c] = s[c]
        BY <2>6, <4>1
      <4> QED
        BY <1>3, <4>1, <4>2, <4>3, InBlockKept
    <3> QED
      BY <1>2, <3>1 DEF Holding
  <2>12. Underway(t, G)'
    <3>1. Underway(t, G)' <=>
            /\ b \in DOMAIN t \ G /\ b + t[b] \in G
            /\ q \in Requests /\ q.size > 0 /\ t[b] = Want(q, b)
            /\ s[b] = t[b] + t[b + t[b]]
      BY <1>8, <2>5 DEF Underway
    <3> QED
      BY <1>1, <2>2, <2>6, <2>7, <3>1 DEF n
  <2>13. Refusal(t, G)'
    BY <1>8 DEF Refusal
  <2>14. HeapIs(t, G, own)'
    BY <1>1, <2>4, <2>5, <2>8, <2>9, <2>10, <2>11, <2>12, <2>13 DEF HeapIs, Holding
  <2> QED
    BY <2>14 DEF HeapInv
<1> QED
  BY <1>7, <1>8 DEF malloc_take

(* g is h with nothing written but words inside blocks of M. *)
InsideOf(s, M) == UNION {Inside(s, c) : c \in M}
Only(h, g, s, M) == \A a \in Words : a \notin InsideOf(s, M) => g.mem[a] = h.mem[a]

(* The list operations leave the blocks as they are. *)
LEMMA BlocksDelete ==
  ASSUME NEW h, NEW s, NEW F, Blocks(h, s, F), NEW M \in SUBSET DOMAIN s, List(h, M), NEW b \in M
  PROVE  LET g == free_list_delete(h, b)
         IN  Blocks(g, s, F) /\ List(g, M \ {b}) /\ Only(h, g, s, M)
<1> DEFINE g == free_list_delete(h, b)
<1>1. /\ g \in Memory /\ List(g, M \ {b})
      /\ \A a \in Words : a \notin LinksOf(M) => g.mem[a] = h.mem[a]
  BY ListDelete DEF Blocks
<1> HIDE DEF g
<1>2. \A a \in LinksOf(M) : \E c \in M : a \in Inside(s, c)
  BY TagsOutside DEF LinksOf, Blocks
<1>3. Only(h, g, s, M)
  BY <1>1, <1>2 DEF Only, InsideOf
<1>4. Tagged(g.mem, s, F)
  BY <1>1, <1>2, TagsKept DEF Blocks
<1> QED
  BY <1>1, <1>3, <1>4 DEF Blocks, g

(* So does putting a block in.                                             *)
LEMMA BlocksInsert ==
  ASSUME NEW h, NEW s, NEW F, Blocks(h, s, F), NEW M \in SUBSET DOMAIN s, List(h, M),
         NEW b \in DOMAIN s, b \notin M
  PROVE  LET g == free_list_insert(h, b)
         IN  Blocks(g, s, F) /\ List(g, M \cup {b}) /\ Only(h, g, s, M \cup {b})
<1> DEFINE g == free_list_insert(h, b)
           K == M \cup {b}
<1>0. h \in Memory /\ Tiles(s) /\ b \in Header /\ b + 8 \in Words /\ K \subseteq DOMAIN s
  BY TileFacts DEF Blocks
<1>1. /\ g \in Memory /\ List(g, M \cup {b})
      /\ \A a \in Words : a \notin LinksOf(K) => g.mem[a] = h.mem[a]
  BY <1>0, ListInsert
<1> HIDE DEF g, K
<1>2. \A a \in LinksOf(K) : \E c \in K : a \in Inside(s, c)
  BY <1>0, TagsOutside DEF LinksOf
<1>3. Only(h, g, s, K)
  BY <1>1, <1>2 DEF Only, InsideOf
<1>4. Tagged(g.mem, s, F)
  BY <1>0, <1>1, <1>2, TagsKept DEF Blocks
<1> QED
  BY <1>1, <1>3, <1>4 DEF Blocks, g, K

(* Writing inside a block that is not in the list keeps blocks and list. *)
LEMMA BlocksFilled ==
  ASSUME NEW h, NEW s, NEW F, Blocks(h, s, F), NEW M \in SUBSET DOMAIN s, List(h, M),
         NEW b \in DOMAIN s, b \notin M, NEW g, NEW A \in SUBSET Inside(s, b), Wrote(h, g, A)
  PROVE  Blocks(g, s, F) /\ List(g, M)
<1>1. Tagged(g.mem, s, F) /\ g \in Memory
  BY TagsKept DEF Blocks, Wrote
<1>2. LinksOf(M) \cap A = {}
  BY TagsOutside DEF LinksOf, Blocks
<1>3. List(g, M)
  BY <1>2, ListKept
<1> QED
  BY <1>1, <1>3 DEF Blocks

(* The program fills its region and writes nothing else.                   *)
LEMMA Filled ==
  ASSUME NEW h \in Memory, NEW p \in Nat, NEW n \in Nat
  PROVE  LET A == {a \in Words : p <= a /\ a < p + n}
         IN  Wrote(h, Fill(h, p, n), A) /\ \A a \in A : Fill(h, p, n).mem[a] = Junk
<1>1. Junk \in Value
  BY WordsAre DEF Junk, Value
<1> QED
  BY <1>1 DEF Fill, Wrote, Memory

(* The end of malloc puts the rest in the list, in place of the block. *)
LEMMA Relisted ==
  ASSUME NEW h, NEW s, NEW F, Blocks(h, s, F), NEW b \in DOMAIN s \ F, b + s[b] \in F,
         List(h, (F \ {b + s[b]}) \cup {b}), NEW old \in Nat, old > s[b]
  PROVE  LET g == Relist(h, b, old)
         IN  Blocks(g, s, F) /\ List(g, F) /\ Only(h, g, s, F \cup {b})
<1> PICK c \in F : c = b + s[b]
  OBVIOUS
<1> DEFINE M == (F \ {c}) \cup {b}
           h1 == free_list_delete(h, b)
           g == free_list_insert(h1, c)
<1>1. F \subseteq DOMAIN s /\ M \in SUBSET DOMAIN s /\ b \in M /\ M \ {b} = F \ {c}
  BY DEF Blocks
<1>2. Blocks(h1, s, F) /\ List(h1, F \ {c}) /\ Only(h, h1, s, M)
  BY <1>1, BlocksDelete
<1> HIDE DEF h1
<1>3. Blocks(g, s, F) /\ List(g, (F \ {c}) \cup {c}) /\ Only(h1, g, s, (F \ {c}) \cup {c})
  BY <1>1, <1>2, BlocksInsert
<1>4. (F \ {c}) \cup {c} = F
  OBVIOUS
<1>5. get_nextheader(h1, b) = c /\ get_blocksize(h1, b) = s[b]
  BY <1>2, BlockRead
<1>6. Relist(h, b, old) = g
  BY <1>5 DEF Relist, h1
<1>7. Only(h, g, s, F \cup {b})
  BY <1>2, <1>3 DEF Only, InsideOf
<1> QED
  BY <1>3, <1>4, <1>6, <1>7

(* The end of malloc and malloc_LLI keeps the invariant.                   *)
LEMMA ReturnKeeps ==
  ASSUME HeapInv, malloc_return
  PROVE  HeapInv'
<1> PICK s, F, own : HeapIs(s, F, own)
  BY DEF HeapInv
<1> DEFINE b == taken.block
           q == taken.req
           ptr == b + 4 + Shift(b, q)
           new == [ptr |-> ptr, used |-> q.used, lli |-> q.lli]
           U == (DOMAIN s \ F) \ {b}
           h == Relist(heap, b, taken.old)
           h1 == IF ptr # b + 4 THEN Store(h, ptr - 4, b + 4) ELSE h
           A1 == IF ptr # b + 4 THEN {ptr - 4} ELSE {}
           A2 == {a \in Words : ptr <= a /\ a < ptr + q.used}
           g == Fill(h1, ptr, q.used)
           own1 == [x \in live \cup {new} |-> IF x = new THEN b ELSE own[x]]
<1>1. /\ Blocks(heap, s, F) /\ Separate(s, F) /\ Holding(heap.mem, s, own, U)
      /\ b \in DOMAIN s \ F /\ b + s[b] \in F /\ q \in Requests /\ q.size > 0
      /\ s[b] = Want(q, b) /\ taken.old = s[b] + s[b + s[b]] /\ refused = NoRequest
      /\ List(heap, (F \ {b + s[b]}) \cup {b})
  BY DEF HeapIs, Underway, Listed, malloc_return
<1>2. Tiles(s) /\ F \subseteq DOMAIN s /\ F \in SUBSET DOMAIN s
  BY <1>1 DEF Blocks
<1>3. /\ b \in Header /\ b \in Nat /\ b % 8 = 4 /\ s[b] \in Nat /\ First <= b /\ b + s[b] <= End
      /\ First \in Nat /\ End \in Nat /\ alloc_end \in Nat /\ End = alloc_end - 4
      /\ get_payload(b) = b + 4
  BY <1>1, <1>2, TileFacts, WordsAre, AtHeader
<1>4. taken.old \in Nat /\ taken.old > s[b]
  <2> PICK c \in DOMAIN s : c = b + s[b]
    BY <1>1, <1>2
  <2>1. s[c] \in Nat /\ s[c] >= 16
    BY <1>2, TileFacts
  <2> QED
    BY <1>1, <1>3, <2>1
<1>5. /\ q.used \in Nat /\ q.lli \in BOOLEAN
      /\ Shift(b, q) \in Nat /\ Shift(b, q) % 8 = 0 /\ Shift(b, q) + q.used + 8 <= s[b]
      /\ q.lli => (b + 4 + Shift(b, q)) % LLI_SIZE = 0
      /\ ~q.lli => Shift(b, q) = 0
  BY <1>1, <1>3, WantFacts, HeapAssumption
<1>6. /\ ptr \in Nat /\ ptr % 8 = 0 /\ b + 4 <= ptr /\ ptr + q.used <= b + s[b] - 4
      /\ q.lli => ptr % LLI_SIZE = 0
      /\ ptr # b + 4 => q.lli
      /\ new \in Region /\ b + 4 \in Value
  <2> PICK e \in Nat : e = Shift(b, q)
    BY <1>5
  <2>1. ptr = b + 4 + e /\ e % 8 = 0 /\ e + q.used + 8 <= s[b] /\ q.used \in Nat
    BY <1>5
  <2>2. ptr \in Nat /\ ptr % 8 = 0 /\ b + 4 <= ptr /\ ptr + q.used <= b + s[b] - 4
    <3> HIDE DEF ptr, b, q
    <3> QED
      BY <1>3, <2>1
  <2>3. ptr # b + 4 => q.lli
    BY <1>3, <1>5
  <2>4. b + 4 \in Value
    BY <1>3, <1>5 DEF Value
  <2> QED
    BY <1>5, <2>2, <2>3, <2>4 DEF Region
<1>7. heap' = g /\ live' = live \cup {new} /\ taken' = NoBlock /\ refused' = NoRequest
  BY <1>1, <1>3 DEF malloc_return
<1> HIDE DEF b, q
<1>8. /\ A1 \in SUBSET Inside(s, b) /\ A2 \in SUBSET Inside(s, b) /\ A1 \cap A2 = {}
      /\ ptr # b + 4 => ptr - 4 \in Words
  <2>1. ASSUME NEW a \in Nat, a % 4 = 0, b < a, a < b + s[b] - 4
        PROVE  a \in Inside(s, b)
    <3>1. First <= a /\ a <= End
      BY <1>3, <2>1
    <3> QED
      BY <2>1, <3>1, WordsAre DEF Inside
  <2>2. ptr # b + 4 => ptr - 4 \in Nat /\ (ptr - 4) % 4 = 0 /\ b < ptr - 4 /\ ptr - 4 < b + s[b] - 4
    <3> HIDE DEF ptr
    <3> QED
      BY <1>3, <1>5, <1>6
  <2>3. ptr # b + 4 => ptr - 4 \in Inside(s, b)
    BY <2>1, <2>2
  <2>4. ASSUME NEW a \in A2 PROVE a \in Inside(s, b) /\ a # ptr - 4
    <3>1. a \in Nat /\ a % 4 = 0 /\ a \in Words
      BY WordsAre DEF Words
    <3>2. b < a /\ a < b + s[b] - 4
      <4> HIDE DEF ptr
      <4> QED
        BY <1>3, <1>5, <1>6, <3>1
    <3> QED
      BY <1>6, <2>1, <3>1, <3>2
  <2> QED
    BY <2>3, <2>4 DEF Inside
<1>9. Blocks(h, s, F) /\ List(h, F) /\ Only(heap, h, s, F \cup {b})
  <2> HIDE DEF h
  <2> QED
    BY <1>1, <1>4, Relisted DEF h, b
<1> HIDE DEF h
<1>10. h \in Memory
  BY <1>9 DEF Blocks
<1>11. Wrote(h, h1, A1) /\ (ptr # b + 4 => h1.mem[ptr - 4] = b + 4)
  <2>1. CASE ptr = b + 4
    BY <1>10, <2>1 DEF Wrote
  <2>2. CASE ptr # b + 4
    BY <1>6, <1>8, <1>10, <2>2, Stored
  <2> QED
    BY <2>1, <2>2
<1> HIDE DEF h1
<1>12. Wrote(h1, g, A2) /\ \A a \in A2 : g.mem[a] = Junk
  <2>1. h1 \in Memory
    BY <1>11 DEF Wrote
  <2> QED
    BY <1>5, <1>6, <2>1, Filled
<1> HIDE DEF g, A1, A2
<1>13. Wrote(h, g, A1 \cup A2)
  BY <1>11, <1>12, WroteTwice
<1>14. Blocks(g, s, F) /\ List(g, F)
  <2>1. b \in DOMAIN s /\ b \notin F /\ A1 \cup A2 \in SUBSET Inside(s, b)
    BY <1>1, <1>8 DEF b
  <2> QED
    BY <1>2, <1>9, <1>13, <2>1, BlocksFilled
<1> HIDE DEF ptr
<1>15. InBlock(g.mem, s, new, b)
  <2>1. ptr # b + 4 => g.mem[ptr - 4] = b + 4
    <3> SUFFICES ASSUME ptr # b + 4 PROVE g.mem[ptr - 4] = b + 4
      OBVIOUS
    <3>1. ptr - 4 \in A1 /\ ptr - 4 \notin A2 /\ ptr - 4 \in Words
      BY <1>8 DEF A1
    <3> QED
      BY <1>11, <1>12, <3>1 DEF Wrote
  <2>2. \A a \in Words : ptr <= a /\ a < ptr + q.used => g.mem[a] = Junk
    BY <1>12 DEF A2
  <2> QED
    BY <1>6, <2>1, <2>2 DEF InBlock
<1>16. ASSUME NEW x \in live
       PROVE  own[x] \in U /\ InBlock(g.mem, s, x, own[x]) /\ x # new
  <2> PICK c : c = own[x]
    OBVIOUS
  <2>1. x \in Region /\ c \in U /\ InBlock(heap.mem, s, x, c)
    BY <1>1 DEF Holding
  <2>2. c \in DOMAIN s /\ c \notin F /\ c # b
    BY <2>1 DEF U
  <2>3. ASSUME NEW a \in Inside(s, c) PROVE g.mem[a] = heap.mem[a]
    <3>1. a \in Words /\ \A d \in F \cup {b} : a \notin Inside(s, d)
      BY <1>1, <1>2, <2>2, TagsOutside DEF Inside, b
    <3>2. h.mem[a] = heap.mem[a]
      BY <1>9, <3>1 DEF Only, InsideOf
    <3>3. a \notin A1 \cup A2
      BY <1>8, <3>1
    <3> QED
      BY <1>13, <3>1, <3>2, <3>3 DEF Wrote
  <2>4. InBlock(g.mem, s, x, c)
    BY <1>2, <2>1, <2>2, <2>3, InBlockKept
  <2>5. x # new
    <3> SUFFICES ASSUME x = new PROVE FALSE
      OBVIOUS
    <3>1. /\ c + 4 <= ptr /\ ptr + q.used <= c + s[c] - 4
          /\ b + 4 <= ptr /\ ptr + q.used <= b + s[b] - 4
      BY <2>1, <1>15 DEF InBlock
    <3>2. c \in Nat /\ s[c] \in Nat /\ (c < b => c + s[c] <= b) /\ (b < c => b + s[b] <= c)
      BY <1>1, <1>2, <2>2, TileFacts DEF Tiles, b
    <3> QED
      BY <1>3, <1>5, <1>6, <2>2, <3>1, <3>2 DEF b
  <2> QED
    BY <2>1, <2>4, <2>5
<1>17. Holding(g.mem, s, own, U)
  BY <1>1, <1>16 DEF Holding
<1> PICK o : o = own1
  OBVIOUS
<1>18. Holding(heap.mem, s, o, DOMAIN s \ F)'
  <2>1. b \in DOMAIN s \ F /\ DOMAIN s \ F = U \cup {b} /\ b \notin U
    BY <1>1 DEF b, U
  <2>2. o \in [live' -> DOMAIN s \ F]
    BY <1>7, <1>16, <2>1
  <2>3. \A x \in live : o[x] = own[x] /\ o[x] # b
    BY <1>16, <2>1
  <2>4. o[new] = b
    OBVIOUS
  <2>5. live' \subseteq Region
    BY <1>1, <1>6, <1>7 DEF Holding
  <2> HIDE DEF own1, new, U
  <2>6. \A x, y \in live' : o[x] = o[y] => x = y
    BY <1>1, <1>7, <2>3, <2>4 DEF Holding
  <2>7. \A c \in DOMAIN s \ F : \E x \in live' : o[x] = c
    BY <1>1, <1>7, <2>1, <2>3, <2>4 DEF Holding
  <2>8. \A x \in live' : InBlock(heap'.mem, s, x, o[x])
    BY <1>7, <1>15, <1>16, <2>3, <2>4
  <2> QED
    BY <2>2, <2>5, <2>6, <2>7, <2>8 DEF Holding
<1>19. /\ taken'.block = 0 /\ 0 \notin DOMAIN s
  BY <1>2, <1>7, TileFacts, HeaderFacts DEF NoBlock
<1>20. HeapIs(s, F, o)'
  <2>1. Holding(heap.mem, s, o, (DOMAIN s \ F) \ {taken.block})'
    <3>1. (DOMAIN s \ F) \ {taken'.block} = DOMAIN s \ F
      BY <1>19
    <3> QED
      BY <1>18, <3>1
  <2>2. Listed(s, F)' = F
    BY <1>7 DEF Listed
  <2> QED
    BY <1>1, <1>7, <1>14, <2>1, <2>2 DEF HeapIs, Underway, Refusal
<1> QED
  BY <1>20 DEF HeapInv

(* The inside of the blocks of V is the same in g as in h. *)
Same(h, g, s, V) == \A c \in V : \A a \in Inside(s, c) : g.mem[a] = h.mem[a]

(* Writing inside other blocks keeps the inside of those of V.             *)
LEMMA SameOnly ==
  ASSUME NEW h, NEW g, NEW s, Tiles(s), NEW M \in SUBSET DOMAIN s, Only(h, g, s, M),
         NEW V \in SUBSET DOMAIN s, V \cap M = {}
  PROVE  Same(h, g, s, V)
<1> SUFFICES ASSUME NEW c \in V, NEW a \in Inside(s, c) PROVE g.mem[a] = h.mem[a]
  BY DEF Same
<1>1. a \in Words
  BY DEF Inside
<1>2. \A d \in M : a \notin Inside(s, d)
  BY TagsOutside
<1> QED
  BY <1>1, <1>2 DEF Only, InsideOf

(* Writing tags changes the inside of no block.                            *)
LEMMA SameTags ==
  ASSUME NEW h, NEW g, NEW s, Tiles(s), NEW b \in DOMAIN s, NEW c \in DOMAIN s,
         Wrote(h, g, {b, c + s[c] - 4}), NEW V \in SUBSET DOMAIN s
  PROVE  Same(h, g, s, V)
<1> SUFFICES ASSUME NEW d \in V, NEW a \in Inside(s, d) PROVE g.mem[a] = h.mem[a]
  BY DEF Same
<1>1. a \in Words
  BY DEF Inside
<1>2. a # b /\ a # c + s[c] - 4
  BY TagsOutside
<1> QED
  BY <1>1, <1>2 DEF Wrote

(* What two writes leave alone is as it was.                               *)
LEMMA SameTwice ==
  ASSUME NEW h, NEW g, NEW k, NEW s, NEW t, NEW V, \A c \in V : t[c] = s[c],
         Same(h, g, s, V), Same(g, k, t, V)
  PROVE  Same(h, k, s, V)
BY DEF Same, Inside

(* The tags of blocks are not links. *)
LEMMA ListTags ==
  ASSUME NEW h, NEW g, NEW s, Tiles(s), NEW b \in DOMAIN s, NEW c \in DOMAIN s,
         Wrote(h, g, {b, c + s[c] - 4}), NEW M \in SUBSET DOMAIN s, List(h, M)
  PROVE  List(g, M)
<1>1. LinksOf(M) \cap {b, c + s[c] - 4} = {}
  <2> SUFFICES ASSUME NEW d \in M, NEW a \in {d + 4, d + 8} PROVE a # b /\ a # c + s[c] - 4
    BY DEF LinksOf
  <2>1. a \in Inside(s, d)
    BY TagsOutside
  <2> QED
    BY <2>1, TagsOutside
<1> QED
  BY <1>1, ListKept

(* free_LLI finds the header from the region, shifted or not. *)
LEMMA HeaderFound ==
  ASSUME NEW s, NEW F, Blocks(heap, s, F), NEW b \in DOMAIN s \ F,
         NEW r \in Region, InBlock(heap.mem, s, r, b)
  PROVE  get_header(RealPayload(r)) = b
<1>1. heap \in Memory /\ Tiles(s) /\ Tag(heap.mem[b], s[b], ALLOCATED)
  BY DEF Blocks, Tagged, Status
<1>2. b \in Nat /\ b % 8 = 4 /\ b \in Words
  BY <1>1, TileFacts
<1>3. get_header(b + 4) = b
  <2>1. b + 4 \in Nat /\ (b + 4) % 8 = 0
    BY <1>2
  <2>2. align_up(b + 4, 8) = b + 4
    BY <2>1, Rounded
  <2> QED
    BY <1>2, <2>2 DEF get_header
<1>4. CASE r.ptr = b + 4
  <2>1. r.ptr - 4 = b
    BY <1>2, <1>4
  <2>2. Load(heap, r.ptr - 4) % 2 = 1
    BY <1>1, <1>2, <2>1, Loaded DEF Tag, ALLOCATED
  <2> QED
    BY <1>3, <1>4, <2>2 DEF RealPayload
<1>5. CASE r.ptr # b + 4
  <2>1. r.lli /\ heap.mem[r.ptr - 4] = b + 4 /\ r.ptr - 4 \in Words
    BY <1>1, <1>5, RegionInside DEF InBlock, Inside
  <2>2. Load(heap, r.ptr - 4) = b + 4 /\ (b + 4) % 2 = 0
    BY <1>1, <1>2, <2>1, Loaded
  <2> QED
    BY <1>3, <2>1, <2>2 DEF RealPayload
<1> QED
  BY <1>4, <1>5

(* Freeing b is a matter of three steps: the free block above leaves the   *)
(* list, b joins the free block below, and the two join.  Half says what   *)
(* holds after the second step: low is the block that has b at its end.    *)
Half(h, g, s, F, b, low, t, G) ==
  /\ Blocks(g, t, G)
  /\ low \in DOMAIN t /\ low + t[low] = b + s[b]
  /\ DOMAIN t = (DOMAIN s \ {b}) \cup {low} /\ low \in F \cup {b}
  /\ \A d \in DOMAIN t : d # low => t[d] = s[d]
  /\ b + s[b] \in F \/ low \in G
  /\ G \cup {low} = F \cup {low}
  /\ List(g, F \ {b + s[b], low})
  /\ Same(h, g, s, (DOMAIN s \ F) \ {b})

(* free up to the merge with the block above, in its four cases.           *)
LEMMA FreeHalf ==
  ASSUME NEW h, NEW s, NEW F, Blocks(h, s, F), List(h, F), NEW b \in DOMAIN s \ F
  PROVE  LET next == get_nextheader(h, b)
             prev == get_prevheader(h, b)
             low  == IF PrevFree(h, b) THEN prev ELSE b
             h1   == IF NextFree(h, b) THEN free_list_delete(h, next) ELSE h
             h2   == IF PrevFree(h, b) THEN merge_free_blocks(free_list_delete(h1, prev), prev, b)
                     ELSE IF NextFree(h, b) THEN h1
                     ELSE set_allocated(set_allocated(h1, b, FREE), get_footer(h1, b), FREE)
         IN  \E t, G : Half(h, h2, s, F, b, low, t, G)
<1> DEFINE next == get_nextheader(h, b)
           prev == get_prevheader(h, b)
           low  == IF PrevFree(h, b) THEN prev ELSE b
           h1   == IF NextFree(h, b) THEN free_list_delete(h, next) ELSE h
           hd   == free_list_delete(h1, prev)
           h2   == IF PrevFree(h, b) THEN merge_free_blocks(hd, prev, b)
                   ELSE IF NextFree(h, b) THEN h1
                   ELSE set_allocated(set_allocated(h1, b, FREE), get_footer(h1, b), FREE)
           V == (DOMAIN s \ F) \ {b}
<1>1. Tiles(s) /\ F \subseteq DOMAIN s /\ F \in SUBSET DOMAIN s
  BY DEF Blocks
<1>2. /\ next = b + s[b] /\ get_allocated(h, next) = Status(F, next)
      /\ b \in Nat /\ s[b] \in Nat /\ s[b] >= 16
  BY <1>1, BlockRead, TileFacts
<1>3. NextFree(h, b) <=> next \in F
  BY <1>2 DEF NextFree, Status, FREE, ALLOCATED
<1> HIDE DEF next, prev, h1
<1>4. V \in SUBSET DOMAIN s /\ V \cap F = {} /\ b \notin F
  OBVIOUS
<1> HIDE DEF V
<1>5. Blocks(h1, s, F) /\ List(h1, F \ {next}) /\ Same(h, h1, s, V)
  <2>1. CASE next \in F
    <3>1. Blocks(h1, s, F) /\ List(h1, F \ {next}) /\ Only(h, h1, s, F)
      BY <1>1, <1>3, <2>1, BlocksDelete DEF h1
    <3> QED
      BY <1>1, <1>4, <3>1, SameOnly
  <2>2. CASE next \notin F
    <3>1. F \ {next} = F /\ h1 = h
      BY <1>3, <2>2 DEF h1
    <3> QED
      BY <3>1 DEF Same
  <2> QED
    BY <2>1, <2>2
<1>6. CASE PrevFree(h, b)
  <2> PICK p \in DOMAIN s : p + s[p] = b /\ prev = p /\ p \in F
    BY <1>6, PrevRead DEF prev
  <2>1. p \in Nat /\ s[p] \in Nat /\ s[p] >= 16 /\ p # next /\ p # b
    BY <1>1, <1>2, TileFacts
  <2>2. Blocks(hd, s, F) /\ List(hd, (F \ {next}) \ {p}) /\ Only(h1, hd, s, F \ {next})
    BY <1>1, <1>5, <2>1, BlocksDelete
  <2> DEFINE t == Joined(s, p, b)
             G == (F \ {b}) \cup {p}
             g == merge_free_blocks(hd, p, b)
  <2> HIDE DEF hd
  <2>3. Blocks(g, t, G) /\ Wrote(hd, g, {p, b + s[b] - 4})
    BY <2>2, MergeBlocks
  <2>4. h2 = g /\ low = p
    BY <1>6
  <2>5. /\ DOMAIN t = DOMAIN s \ {b} /\ t[p] = s[p] + s[b]
        /\ \A d \in DOMAIN s : d # p /\ d # b => t[d] = s[d]
    BY <1>1, JoinedTiles
  <2> HIDE DEF t, g, h2, low
  <2>6. List(g, F \ {b + s[b], low})
    <3>1. (F \ {next}) \ {p} = F \ {b + s[b], low}
      BY <1>2, <2>4
    <3> QED
      BY <1>1, <2>2, <2>3, <3>1, ListTags
  <2>7. Same(h, g, s, V)
    <3>1. Same(h1, hd, s, V)
      BY <1>1, <1>4, <2>2, SameOnly
    <3>2. Same(hd, g, s, V)
      BY <1>1, <1>4, <2>3, SameTags
    <3> QED
      BY <1>5, <3>1, <3>2, SameTwice
  <2>8. low + t[low] = b + s[b]
    BY <1>2, <2>1, <2>4, <2>5
  <2>9. Half(h, h2, s, F, b, low, t, G)
    BY <2>1, <2>3, <2>4, <2>5, <2>6, <2>7, <2>8 DEF Half, V
  <2> QED
    BY <2>9 DEF low, h2, h1, hd, next, prev
<1>7. CASE ~PrevFree(h, b) /\ next \in F
  <2>1. h2 = h1 /\ low = b
    BY <1>3, <1>7
  <2>2. F \ {b + s[b], b} = F \ {next}
    BY <1>2
  <2>3. Half(h, h2, s, F, b, low, s, F)
    <3> HIDE DEF h2, low
    <3> QED
      BY <1>1, <1>2, <1>5, <1>7, <2>1, <2>2 DEF Half, V
  <2> QED
    BY <2>3 DEF low, h2, h1, hd, next, prev
<1>8. CASE ~PrevFree(h, b) /\ next \notin F
  <2>1. low = b /\ h2 = set_allocated(set_allocated(h1, b, FREE), get_footer(h1, b), FREE)
    BY <1>3, <1>8
  <2> HIDE DEF h2
  <2>2. Blocks(h2, s, F \cup {b}) /\ Wrote(h1, h2, {b, b + s[b] - 4})
    BY <1>5, <2>1, MarkBlock
  <2>3. List(h2, F \ {b + s[b], b})
    <3>1. F \ {b + s[b], b} = F \ {next}
      BY <1>2
    <3> QED
      BY <1>1, <1>5, <2>2, <3>1, ListTags
  <2>4. Same(h, h2, s, V)
    <3>1. Same(h1, h2, s, V)
      BY <1>1, <1>4, <2>2, SameTags
    <3> QED
      BY <1>5, <3>1, SameTwice
  <2>5. Half(h, h2, s, F, b, low, s, F \cup {b})
    BY <1>1, <1>2, <2>1, <2>2, <2>3, <2>4 DEF Half, V
  <2> QED
    BY <2>5 DEF low, h2, h1, hd, next, prev
<1> QED
  BY <1>6, <1>7, <1>8

(* What free leaves: b is no longer allocated, alone or merged with its    *)
(* free neighbours, and every other allocated block is as it was.          *)
Freed(h, g, s, F, b, t, G) ==
  /\ Blocks(g, t, G) /\ Separate(t, G) /\ List(g, G)
  /\ DOMAIN t \ G = (DOMAIN s \ F) \ {b}
  /\ \A c \in (DOMAIN s \ F) \ {b} : t[c] = s[c]
  /\ Same(h, g, s, (DOMAIN s \ F) \ {b})

(* free as a whole.                                                        *)
LEMMA FreeKeeps ==
  ASSUME NEW h, NEW s, NEW F, Blocks(h, s, F), Separate(s, F), List(h, F), NEW b \in DOMAIN s \ F
  PROVE  \E t, G : Freed(h, free(h, b), s, F, b, t, G)
<1> DEFINE next == get_nextheader(h, b)
           prev == get_prevheader(h, b)
           low  == IF PrevFree(h, b) THEN prev ELSE b
           h1   == IF NextFree(h, b) THEN free_list_delete(h, next) ELSE h
           h2   == IF PrevFree(h, b) THEN merge_free_blocks(free_list_delete(h1, prev), prev, b)
                   ELSE IF NextFree(h, b) THEN h1
                   ELSE set_allocated(set_allocated(h1, b, FREE), get_footer(h1, b), FREE)
           h3   == IF NextFree(h, b) THEN merge_free_blocks(h2, low, next) ELSE h2
           g    == free_list_insert(h3, low)
           V == (DOMAIN s \ F) \ {b}
<1>1. Tiles(s) /\ F \subseteq DOMAIN s /\ b \in DOMAIN s /\ b \notin F
  BY DEF Blocks
<1>2. /\ next = b + s[b] /\ get_allocated(h, next) = Status(F, next)
      /\ b \in Nat /\ s[b] \in Nat /\ s[b] >= 16 /\ next \in Nat
  BY <1>1, BlockRead, TileFacts
<1>3. NextFree(h, b) <=> next \in F
  BY <1>2 DEF NextFree, Status, FREE, ALLOCATED
<1>4. PICK t, G : Half(h, h2, s, F, b, low, t, G)
  BY FreeHalf
<1>5. low = b \/ (low \in F /\ low + s[low] = b)
  BY PrevRead
<1>6. low = b => \A c \in F : c + s[c] # b
  <2> SUFFICES ASSUME low = b, NEW c \in F, c + s[c] = b PROVE FALSE
    OBVIOUS
  <2>1. c \in Nat /\ c \in DOMAIN s /\ First <= c /\ s[c] \in Nat /\ s[c] >= 16 /\ First \in Nat
    BY <1>1, TileFacts, WordsAre
  <2>2. b # First
    BY <2>1
  <2> PICK d \in DOMAIN s : /\ d + s[d] = b /\ get_prevheader(h, b) = d
                            /\ PrevFree(h, b) <=> d \in F
    BY <2>2, PrevRead
  <2>3. d \in Nat /\ s[d] \in Nat /\ s[d] >= 16
    BY <1>1, TileFacts
  <2>4. c = d
    <3>1. c < d => c + s[c] <= d
      BY <1>1, <2>1 DEF Tiles
    <3>2. d < c => d + s[d] <= c
      BY <1>1, <2>1 DEF Tiles
    <3> QED
      BY <2>1, <2>3, <3>1, <3>2
  <2>5. low = d /\ d # b
    BY <2>1, <2>3, <2>4
  <2> QED
    BY <2>5
<1> HIDE DEF next, prev, low, h1, h2
<1>7. /\ Blocks(h2, t, G) /\ low \in DOMAIN t /\ low + t[low] = next
      /\ DOMAIN t = (DOMAIN s \ {b}) \cup {low} /\ low \in F \cup {b}
      /\ \A d \in DOMAIN t : d # low => t[d] = s[d]
      /\ next \in F \/ low \in G
      /\ G \cup {low} = F \cup {low}
      /\ List(h2, F \ {next, low}) /\ Same(h, h2, s, V)
  BY <1>2, <1>4 DEF Half
<1>8. Tiles(t) /\ G \subseteq DOMAIN t
  BY <1>7 DEF Blocks
<1>9. low \in Nat /\ t[low] \in Nat /\ t[low] >= 16 /\ low < next
  <2>1. low \in Nat /\ t[low] \in Nat /\ t[low] >= 16
    BY <1>7, <1>8, TileFacts
  <2> QED
    BY <1>7, <2>1
<1>10. \A c \in V : c \in DOMAIN t /\ c # low /\ t[c] = s[c]
  BY <1>1, <1>7
<1> DEFINE K == (F \ {next}) \cup {low}
<1>11. PICK u : /\ Blocks(h3, u, K)
                /\ DOMAIN u = (DOMAIN t \ ({next} \cap F)) /\ low \in DOMAIN u
                /\ \A d \in DOMAIN u : d # low => u[d] = t[d]
                /\ low + u[low] \notin K
                /\ List(h3, F \ {next, low}) /\ Same(h2, h3, t, V)
  <2>1. CASE next \in F
    <3>1. next \in DOMAIN t /\ next # low /\ next \in G /\ t[next] = s[next] /\ next # b
      BY <1>1, <1>2, <1>7, <1>9, <2>1
    <3> DEFINE u == Joined(t, low, next)
               k == merge_free_blocks(h2, low, next)
    <3>2. Blocks(k, u, (G \ {next}) \cup {low}) /\ Wrote(h2, k, {low, next + t[next] - 4})
      BY <1>7, <3>1, MergeBlocks
    <3>3. /\ DOMAIN u = DOMAIN t \ {next} /\ u[low] = t[low] + t[next]
          /\ \A d \in DOMAIN t : d # low /\ d # next => u[d] = t[d]
      BY <1>7, <1>8, <3>1, JoinedTiles
    <3>4. h3 = k
      BY <1>3, <2>1
    <3> HIDE DEF k, u, h3
    <3>5. (G \ {next}) \cup {low} = K
      BY <1>7
    <3>6. List(k, F \ {next, low})
      <4>1. F \ {next, low} \in SUBSET DOMAIN t
        BY <1>1, <1>7
      <4> QED
        BY <1>7, <1>8, <3>1, <3>2, <4>1, ListTags
    <3>7. Same(h2, k, t, V)
      <4>1. V \in SUBSET DOMAIN t
        BY <1>10
      <4> QED
        BY <1>7, <1>8, <3>1, <3>2, <4>1, SameTags
    <3>8. low + u[low] \notin K
      <4>1. next + s[next] \notin F
        BY <2>1 DEF Separate
      <4>2. s[next] \in Nat
        BY <1>1, <2>1, TileFacts
      <4>3. low + u[low] = next + s[next] /\ low + u[low] # low
        BY <1>2, <1>7, <1>9, <3>1, <3>3, <4>2
      <4> QED
        BY <4>1, <4>3
    <3> QED
      BY <1>7, <2>1, <3>1, <3>2, <3>3, <3>4, <3>5, <3>6, <3>7, <3>8
  <2>2. CASE next \notin F
    <3>1. h3 = h2
      BY <1>3, <2>2
    <3> HIDE DEF h3
    <3>2. K = G
      BY <1>7, <2>2
    <3>3. low + t[low] \notin K
      BY <1>7, <1>9, <2>2
    <3> QED
      BY <1>7, <2>2, <3>1, <3>2, <3>3 DEF Same
  <2> QED
    BY <2>1, <2>2
<1> HIDE DEF h3
<1>12. \A c \in V : c \in DOMAIN u /\ c \notin K /\ u[c] = s[c] /\ u[c] = t[c]
  BY <1>1, <1>10, <1>11
<1>13. Blocks(g, u, K) /\ List(g, K) /\ Only(h3, g, u, K)
  <2>1. F \ {next, low} \in SUBSET DOMAIN u /\ low \notin F \ {next, low}
    BY <1>1, <1>7, <1>11
  <2>2. (F \ {next, low}) \cup {low} = K
    BY <1>9
  <2> QED
    BY <1>11, <2>1, <2>2, BlocksInsert
<1> HIDE DEF g
<1>14. Same(h, g, s, V)
  <2>1. Same(h3, g, u, V)
    <3>1. V \in SUBSET DOMAIN u /\ V \cap K = {} /\ Tiles(u) /\ K \in SUBSET DOMAIN u
      BY <1>11, <1>12 DEF Blocks
    <3> QED
      BY <1>13, <3>1, SameOnly
  <2>2. Same(h, h3, s, V)
    BY <1>7, <1>10, <1>11, SameTwice
  <2> QED
    BY <1>12, <2>1, <2>2, SameTwice
<1>15. Separate(u, K)
  <2> SUFFICES ASSUME NEW d \in K, d + u[d] \in K PROVE FALSE
    BY DEF Separate
  <2>1. CASE d = low
    BY <1>11, <2>1
  <2>2. CASE d # low
    <3>1. d \in F /\ d \in DOMAIN t /\ u[d] = s[d]
      BY <1>1, <1>7, <1>11, <2>2 DEF Blocks
    <3>2. d + s[d] \notin F
      BY <3>1 DEF Separate
    <3>3. d + s[d] = low
      BY <3>1, <3>2
    <3> QED
      BY <1>5, <1>6, <3>1, <3>2, <3>3
  <2> QED
    BY <2>1, <2>2
<1>16. DOMAIN u \ K = V
  <2>1. b \notin DOMAIN u \ {low} /\ next \in F => next \notin DOMAIN u
    BY <1>7, <1>9, <1>11
  <2> QED
    BY <1>1, <1>7, <1>11, <1>12, <2>1 DEF V
<1>17. Freed(h, g, s, F, b, u, K)
  BY <1>12, <1>13, <1>14, <1>15, <1>16 DEF Freed, V
<1>18. g = free(h, b)
  BY DEF free, g, h3, h2, h1, low, prev, next
<1> QED
  BY <1>17, <1>18

(* free and free_LLI keep the invariant.                                   *)
LEMMA ReleaseKeeps ==
  ASSUME HeapInv, ~Preemptive, NEW r \in live, release(r)
  PROVE  HeapInv'
<1> PICK s, F, own : HeapIs(s, F, own)
  BY DEF HeapInv
<1> PICK b : b = own[r]
  OBVIOUS
<1>1. /\ taken = NoBlock /\ taken.block = 0 /\ taken' = taken /\ refused' = NoRequest
      /\ live' = live \ {r}
  BY DEF release, NoBlock
<1>2. /\ Blocks(heap, s, F) /\ Separate(s, F) /\ List(heap, F) /\ Tiles(s)
      /\ Holding(heap.mem, s, own, (DOMAIN s \ F) \ {0})
  BY <1>1 DEF HeapIs, Listed, Blocks
<1>3. 0 \notin DOMAIN s
  BY <1>2, TileFacts, HeaderFacts
<1>4. (DOMAIN s \ F) \ {0} = DOMAIN s \ F
  BY <1>3
<1>5. Holding(heap.mem, s, own, DOMAIN s \ F)
  BY <1>2, <1>4
<1>6. b \in DOMAIN s \ F /\ r \in Region /\ InBlock(heap.mem, s, r, b)
  BY <1>5 DEF Holding
<1>7. heap' = free(heap, b)
  <2>1. get_header(RealPayload(r)) = b
    BY <1>2, <1>6, HeaderFound
  <2> QED
    BY <2>1 DEF release
<1> PICK t, G : Freed(heap, heap', s, F, b, t, G)
  BY <1>2, <1>6, <1>7, FreeKeeps
<1> PICK o : o = [x \in live \ {r} |-> own[x]]
  OBVIOUS
<1>8. ASSUME NEW x \in live'
      PROVE  o[x] = own[x] /\ x \in live /\ o[x] \in DOMAIN t \ G /\ InBlock(heap'.mem, t, x, o[x])
  <2> PICK c : c = own[x]
    OBVIOUS
  <2>1. x \in live /\ x # r /\ o[x] = c
    BY <1>1
  <2>2. c \in DOMAIN s \ F /\ c # b /\ x \in Region /\ InBlock(heap.mem, s, x, c)
    BY <1>5, <2>1 DEF Holding
  <2>3. t[c] = s[c] /\ c \in DOMAIN t \ G /\ \A a \in Inside(s, c) : heap'.mem[a] = heap.mem[a]
    BY <2>2 DEF Freed, Same
  <2>4. InBlock(heap'.mem, t, x, c)
    BY <1>2, <2>2, <2>3, InBlockKept
  <2> QED
    BY <2>1, <2>3, <2>4
<1>9. Holding(heap.mem, t, o, DOMAIN t \ G)'
  <2>1. o \in [live' -> DOMAIN t \ G]
    BY <1>1, <1>8
  <2>2. \A x, y \in live' : o[x] = o[y] => x = y
    BY <1>5, <1>8 DEF Holding
  <2>3. ASSUME NEW c \in DOMAIN t \ G PROVE \E x \in live' : o[x] = c
    <3>1. c \in DOMAIN s \ F /\ c # b
      BY DEF Freed
    <3> PICK x \in live : own[x] = c
      BY <1>5, <3>1 DEF Holding
    <3>2. x \in live'
      BY <1>1, <3>1
    <3> QED
      BY <1>8, <3>2
  <2>4. live' \subseteq Region
    BY <1>1, <1>5 DEF Holding
  <2> QED
    BY <1>8, <2>1, <2>2, <2>3, <2>4 DEF Holding
<1>10. HeapIs(t, G, o)'
  <2>1. (DOMAIN t \ G) \ {taken'.block} = DOMAIN t \ G
    BY <1>1, <1>3 DEF Freed
  <2>2. Holding(heap.mem, t, o, (DOMAIN t \ G) \ {taken.block})'
    BY <1>9, <2>1
  <2>3. Listed(t, G)' = G
    BY <1>1 DEF Listed
  <2> QED
    BY <1>1, <2>2, <2>3 DEF HeapIs, Underway, Refusal, Freed
<1> QED
  BY <1>10 DEF HeapInv

(* The inductive invariant holds in every state.                           *)
LEMMA HeapInvariant ==
  ASSUME ~Preemptive
  PROVE  Spec => []HeapInv
<1>1. heap_init => HeapInv
  BY HeapInit
<1>2. HeapInv /\ [Next]_vars => HeapInv'
  <2> SUFFICES ASSUME HeapInv, [Next]_vars PROVE HeapInv'
    OBVIOUS
  <2>1. ASSUME NEW q \in Requests, malloc_take(q) PROVE HeapInv'
    BY <2>1, TakeKeeps
  <2>2. CASE malloc_return
    BY <2>2, ReturnKeeps
  <2>3. ASSUME NEW r \in live, release(r) PROVE HeapInv'
    BY <2>3, ReleaseKeeps
  <2>4. CASE UNCHANGED vars
    BY <2>4 DEF vars, HeapInv, HeapIs, Underway, Listed, Holding, Refusal
  <2> QED
    BY <2>1, <2>2, <2>3, <2>4 DEF Next
<1> QED
  BY <1>1, <1>2, PTL DEF Spec

-----------------------------------------------------------------------------
(* What the invariant says of the walk, the ring and the regions. *)

(* One step of the walk. *)
LEMMA BeyondIs ==
  ASSUME NEW s, NEW F, Blocks(heap, s, F), NEW a \in DOMAIN s \cup {End}
  PROVE  /\ a \in DOMAIN s => Beyond(a) = a + s[a]
         /\ a = End => Beyond(a) = a
         /\ Beyond(a) \in DOMAIN s \cup {End} /\ a \in Nat
<1>1. Tiles(s) /\ End \in Nat /\ End = get_epilogue
  BY WordsAre DEF Blocks, End
<1>2. CASE a = End
  BY <1>1, <1>2, TileFacts DEF Beyond
<1>3. CASE a \in DOMAIN s
  <2>1. a \in Nat /\ s[a] \in Nat /\ s[a] >= 16 /\ a + s[a] <= End /\ a + s[a] \in DOMAIN s \cup {End}
    BY <1>1, <1>3, TileFacts
  <2>2. a < End
    BY <1>1, <2>1
  <2>3. get_nextheader(heap, a) = a + s[a]
    BY <1>3, BlockRead
  <2> QED
    BY <1>1, <1>3, <2>1, <2>2, <2>3 DEF Beyond
<1> QED
  BY <1>2, <1>3

Steps(n, f) == f = [i \in 0..n |-> IF i = 0 THEN First ELSE Beyond(f[i - 1])]

(* The walk is a function: its recursive definition has a solution.        *)
LEMMA StepsExist ==
  ASSUME NEW n \in Nat
  PROVE  \E f : Steps(n, f)
<1> DEFINE S == {m \in Nat : \E f : Steps(m, f)}
<1>1. 0 \in S
  <2>1. Steps(0, [i \in 0..0 |-> First])
    BY DEF Steps
  <2> QED
    BY <2>1
<1>2. ASSUME NEW m \in S PROVE m + 1 \in S
  <2> PICK f : Steps(m, f)
    OBVIOUS
  <2> DEFINE g == [i \in 0..(m + 1) |-> IF i = m + 1 THEN Beyond(f[m]) ELSE f[i]]
             at(i) == IF i = 0 THEN First ELSE Beyond(g[i - 1])
  <2>1. ASSUME NEW i \in 0..(m + 1) PROVE g[i] = at(i)
    <3>1. CASE i = m + 1
      <4>1. i # 0 /\ i - 1 = m /\ m \in 0..(m + 1) /\ m # m + 1 /\ g[m] = f[m]
        BY <3>1
      <4> QED
        BY <3>1, <4>1
    <3>2. CASE i # m + 1
      <4>1. i \in 0..m /\ g[i] = f[i]
        BY <3>2
      <4>2. i # 0 => i - 1 \in 0..(m + 1) /\ i - 1 # m + 1 /\ g[i - 1] = f[i - 1]
        BY <4>1
      <4>3. f[i] = IF i = 0 THEN First ELSE Beyond(f[i - 1])
        BY <4>1 DEF Steps
      <4> QED
        BY <4>1, <4>2, <4>3
    <3> QED
      BY <3>1, <3>2
  <2>2. g = [i \in 0..(m + 1) |-> g[i]]
    OBVIOUS
  <2> HIDE DEF g
  <2>3. Steps(m + 1, g)
    BY <2>1, <2>2 DEF Steps
  <2> QED
    BY <2>3
<1>3. S \in SUBSET Nat
  OBVIOUS
<1> HIDE DEF S
<1>4. S = Nat
  BY <1>1, <1>2, <1>3, SetInduction
<1> QED
  BY <1>4 DEF S

(* The walk visits the blocks in order and ends at the epilogue. *)
LEMMA WalkIs ==
  ASSUME NEW s, NEW F, Blocks(heap, s, F)
  PROVE  Walk = DOMAIN s \cup {End}
<1> DEFINE n == (alloc_end - alloc_start) \div MIN_BLOCKSIZE
           w[i \in 0..n] == IF i = 0 THEN get_firstblock ELSE Beyond(w[i - 1])
<1>1. Tiles(s)
  BY DEF Blocks
<1>2. /\ First \in Nat /\ End \in Nat /\ n \in Nat /\ First + 16 * n > End
  <2>1. /\ alloc_start \in Nat /\ alloc_end \in Nat /\ alloc_end - alloc_start \in Nat
        /\ First = alloc_start + 12 /\ End = alloc_end - 4 /\ First \in Nat /\ End \in Nat
    BY WordsAre
  <2> PICK d \in Nat : d = alloc_end - alloc_start
    BY <2>1
  <2>2. d \div 16 \in Nat /\ 16 * (d \div 16) > d - 16
    OBVIOUS
  <2> QED
    BY <2>1, <2>2 DEF MIN_BLOCKSIZE
<1> HIDE DEF n
<1>3. PICK f : Steps(n, f)
  BY <1>2, StepsExist
<1>4. f = [i \in 0..n |-> IF i = 0 THEN get_firstblock ELSE Beyond(f[i - 1])]
  BY <1>3 DEF Steps, First
<1>5. w = [i \in 0..n |-> IF i = 0 THEN get_firstblock ELSE Beyond(w[i - 1])]
  BY <1>4 DEF w
<1>6. Walk = {w[i] : i \in DOMAIN w}
  BY DEF Walk, n
<1> HIDE DEF w
<1>7. /\ DOMAIN w = 0..n /\ w[0] = First
      /\ \A i \in Nat : i + 1 <= n => w[i + 1] = Beyond(w[i])
  <2>1. DOMAIN w = 0..n /\ w[0] = First
    BY <1>2, <1>5 DEF First
  <2>2. ASSUME NEW i \in Nat, i + 1 <= n PROVE w[i + 1] = Beyond(w[i])
    <3>1. i + 1 \in 0..n /\ i + 1 # 0 /\ (i + 1) - 1 = i
      BY <1>2, <2>2
    <3>2. w[i + 1] = Beyond(w[(i + 1) - 1])
      BY <1>5, <3>1
    <3> QED
      BY <3>1, <3>2
  <2> QED
    BY <2>1, <2>2
<1>8. DOMAIN s \cup {End} \subseteq Nat /\ \A c \in DOMAIN s \cup {End} : First <= c /\ c <= End
  <2>1. \A c \in DOMAIN s : c \in Nat /\ First <= c /\ s[c] \in Nat /\ c + s[c] <= End
    BY <1>1, TileFacts
  <2> QED
    BY <1>2, <2>1, WordsAre
<1> DEFINE Reached(i) == {w[j] : j \in 0..i}
           Good(i) == /\ w[i] \in DOMAIN s \cup {End}
                      /\ w[i] = End \/ First + 16 * i <= w[i]
                      /\ \A c \in DOMAIN s \cup {End} : c <= w[i] => c \in Reached(i)
           S == {i \in Nat : i <= n => Good(i)}
<1>9. 0 \in S
  <2>1. w[0] \in Reached(0)
    OBVIOUS
  <2> QED
    BY <1>1, <1>2, <1>7, <1>8, <2>1 DEF Tiles
<1>10. ASSUME NEW i \in S, i + 1 <= n PROVE Good(i + 1)
  <2>1. i \in Nat /\ Good(i) /\ w[i + 1] = Beyond(w[i])
    BY <1>2, <1>7, <1>10
  <2>2. Reached(i) \subseteq Reached(i + 1) /\ w[i + 1] \in Reached(i + 1)
    BY <2>1
  <2> HIDE DEF Reached
  <2> PICK a : a = w[i]
    OBVIOUS
  <2>3. CASE a = End
    <3>1. w[i + 1] = End
      BY <2>1, <2>3, BeyondIs
    <3> QED
      BY <2>1, <2>2, <2>3, <3>1
  <2>4. CASE a # End
    <3>1. a \in DOMAIN s /\ w[i + 1] = a + s[a] /\ w[i + 1] \in DOMAIN s \cup {End}
      BY <2>1, <2>4, BeyondIs
    <3>2. a \in Nat /\ s[a] \in Nat /\ s[a] >= 16 /\ a + s[a] <= End
      BY <1>1, <3>1, TileFacts
    <3>3. First + 16 * (i + 1) <= w[i + 1]
      BY <1>2, <2>1, <2>4, <3>1, <3>2
    <3>4. ASSUME NEW c \in DOMAIN s \cup {End}, c <= w[i + 1] PROVE c \in Reached(i + 1)
      <4>1. CASE c <= a
        BY <2>1, <2>2, <4>1
      <4>2. CASE ~(c <= a)
        <5>1. a < c /\ c \in Nat
          BY <1>8, <3>2, <4>2
        <5>2. a + s[a] <= c
          BY <1>1, <3>1, <3>2, <5>1 DEF Tiles
        <5>3. c = w[i + 1]
          BY <3>1, <3>2, <3>4, <5>1, <5>2
        <5> QED
          BY <2>2, <5>3
      <4> QED
        BY <4>1, <4>2
    <3> QED
      BY <3>1, <3>3, <3>4
  <2> QED
    BY <2>3, <2>4
<1> HIDE DEF Good
<1>11. S = Nat
  <2>1. S \in SUBSET Nat /\ \A i \in S : i + 1 \in S
    BY <1>10
  <2> HIDE DEF S
  <2> QED
    BY <1>9, <2>1, SetInduction
<1>12. \A i \in 0..n : Good(i)
  BY <1>11
<1>13. w[n] = End
  <2>1. n \in 0..n
    BY <1>2
  <2>2. Good(n)
    BY <1>12, <2>1
  <2> QED
    BY <1>2, <1>8, <2>2 DEF Good
<1>14. Walk \subseteq DOMAIN s \cup {End}
  BY <1>6, <1>7, <1>12 DEF Good
<1>15. ASSUME NEW c \in DOMAIN s \cup {End} PROVE c \in Walk
  <2>1. n \in 0..n /\ c <= w[n]
    BY <1>2, <1>8, <1>13
  <2>2. c \in Reached(n)
    BY <1>12, <2>1 DEF Good
  <2> QED
    BY <1>6, <1>7, <2>2
<1> QED
  BY <1>14, <1>15

(* The blocks that the properties speak of are those of s, and F. *)
LEMMA BlocksAre ==
  ASSUME NEW s, NEW F, Blocks(heap, s, F)
  PROVE  HeapBlocks = DOMAIN s /\ FreeBlocks = F /\ UsedBlocks = DOMAIN s \ F
<1>1. End \notin DOMAIN s /\ F \subseteq DOMAIN s
  BY TileFacts DEF Blocks
<1>2. HeapBlocks = DOMAIN s
  BY <1>1, WalkIs DEF HeapBlocks, End
<1>3. \A b \in DOMAIN s : get_allocated(heap, b) = FREE <=> b \in F
  BY BlockRead DEF Status, FREE, ALLOCATED
<1>4. FreeBlocks = F
  BY <1>1, <1>2, <1>3 DEF FreeBlocks
<1> QED
  BY <1>2, <1>4 DEF UsedBlocks

(* TypeOK holds whenever the invariant does.                               *)
LEMMA TypesAre ==
  ASSUME NEW s, NEW F, NEW own, HeapIs(s, F, own)
  PROVE  TypeOK
<1>1. Blocks(heap, s, F) /\ heap \in Memory /\ Tiles(s) /\ F \subseteq DOMAIN s
  BY DEF HeapIs, Blocks
<1>2. DOMAIN heap.mem = Words /\ \A a \in Words : heap.mem[a] \in 0..alloc_end
  BY <1>1, WordsAre DEF Memory, Value
<1>3. heap.head \in {0} \cup Header /\ heap.counter \in Nat
  <2> PICK r : Ring(heap, r)
    BY DEF HeapIs, List
  <2>1. Len(r) \in Nat /\ \A i \in 1..Len(r) : r[i] \in Header
    BY DEF Ring
  <2> QED
    BY <2>1 DEF Ring
<1>4. /\ taken.block \in {0} \cup Header /\ taken.old % 8 = 0
      /\ taken.req \in Requests \cup {NoRequest}
  <2>1. CASE taken = NoBlock
    BY <2>1 DEF NoBlock, NoRequest
  <2>2. CASE taken # NoBlock
    <3> PICK b \in DOMAIN s : b = taken.block
      BY <2>2 DEF HeapIs, Underway
    <3> PICK c \in DOMAIN s : c = b + s[b]
      BY <1>1, <2>2 DEF HeapIs, Underway
    <3>1. taken.old = s[b] + s[c] /\ taken.req \in Requests
      BY <2>2 DEF HeapIs, Underway
    <3>2. b \in Header /\ s[b] \in Nat /\ s[b] % 8 = 0 /\ s[c] \in Nat /\ s[c] % 8 = 0
      BY <1>1, TileFacts
    <3>3. (s[b] + s[c]) % 8 = 0
      BY <3>2
    <3> QED
      BY <3>1, <3>2, <3>3
  <2> QED
    BY <2>1, <2>2
<1>5. refused \in Requests \cup {NoRequest}
  BY DEF HeapIs, Refusal
<1> QED
  BY <1>2, <1>3, <1>4, <1>5 DEF TypeOK

(* The invariant makes the tags agree.                                     *)
LEMMA TagsAgree ==
  ASSUME HeapInv
  PROVE  BoundaryTagsAgree
<1> PICK s, F, own : HeapIs(s, F, own)
  BY DEF HeapInv
<1>1. Blocks(heap, s, F) /\ Tiles(s)
  BY DEF HeapIs, Blocks
<1>2. TypeOK
  BY TypesAre
<1>3. get_epilogue \in Walk /\ HeapBlocks = DOMAIN s
  BY <1>1, WalkIs, BlocksAre DEF End
<1>4. ASSUME NEW b \in DOMAIN s
      PROVE  /\ b < get_epilogue /\ get_blocksize(heap, b) >= MIN_BLOCKSIZE
             /\ get_blocksize(heap, get_footer(heap, b)) = get_blocksize(heap, b)
             /\ get_allocated(heap, get_footer(heap, b)) = get_allocated(heap, b)
  <2>1. /\ b \in Nat /\ s[b] \in Nat /\ s[b] >= 16 /\ b + s[b] <= End /\ End \in Nat
    BY <1>1, TileFacts, WordsAre
  <2>2. b < End
    BY <2>1
  <2>3. /\ get_blocksize(heap, b) = s[b] /\ get_allocated(heap, b) = Status(F, b)
        /\ get_footer(heap, b) = b + s[b] - 4
        /\ get_blocksize(heap, b + s[b] - 4) = s[b]
        /\ get_allocated(heap, b + s[b] - 4) = Status(F, b)
    BY <1>1, BlockRead
  <2>4. get_blocksize(heap, b) >= MIN_BLOCKSIZE
    BY <2>1, <2>3 DEF MIN_BLOCKSIZE
  <2>5. get_blocksize(heap, get_footer(heap, b)) = s[b] /\ get_allocated(heap, get_footer(heap, b)) = Status(F, b)
    BY <2>3, Zenon
  <2> QED
    BY <2>2, <2>3, <2>4, <2>5 DEF End
<1> QED
  BY <1>2, <1>3, <1>4 DEF BoundaryTagsAgree

(* The invariant keeps free blocks apart.                                  *)
LEMMA NoFreeNeighbours ==
  ASSUME HeapInv
  PROVE  Coalesced
<1> PICK s, F, own : HeapIs(s, F, own)
  BY DEF HeapInv
<1>1. Blocks(heap, s, F) /\ F \subseteq DOMAIN s /\ Separate(s, F)
  BY DEF HeapIs, Blocks
<1>2. FreeBlocks = F /\ \A b \in F : get_nextheader(heap, b) = b + s[b]
  BY <1>1, BlocksAre, BlockRead
<1> QED
  BY <1>1, <1>2 DEF Coalesced, Separate

(* A ring of n blocks has n members.                                       *)
LEMMA RingCardinality ==
  ASSUME NEW h, NEW r, Ring(h, r)
  PROVE  Cardinality(Members(r)) = Len(r)
<1> DEFINE f == [i \in 1..Len(r) |-> r[i]]
<1>1. Len(r) \in Nat /\ \A i, j \in 1..Len(r) : r[i] = r[j] => i = j
  BY DEF Ring
<1>2. f \in Surjection(1..Len(r), Members(r))
  BY DEF Surjection, Members
<1>3. f \in Injection(1..Len(r), Members(r))
  BY <1>1, <1>2 DEF Surjection, Injection, IsInjective
<1>4. IsFiniteSet(1..Len(r)) /\ Cardinality(1..Len(r)) = Len(r)
  <2>1. /\ IsFiniteSet(1..Len(r))
        /\ Cardinality(1..Len(r)) = IF 1 > Len(r) THEN 0 ELSE Len(r) - 1 + 1
    BY <1>1, FS_Interval
  <2> QED
    BY <1>1, <2>1
<1> HIDE DEF f
<1> QED
  BY <1>2, <1>3, <1>4, FS_Surjection

(* The invariant makes the list exact between two calls.                   *)
LEMMA FreeListIs ==
  ASSUME HeapInv
  PROVE  FreeListExact
<1> SUFFICES ASSUME taken = NoBlock
             PROVE  LET v == Visited(heap) IN
                    /\ {v[i] : i \in 0..(heap.counter - 1)} = FreeBlocks
                    /\ heap.counter = Cardinality(FreeBlocks)
                    /\ v[heap.counter] = heap.head
                    /\ \A i \in 1..heap.counter : get_prevfree(heap, v[i]) = v[i - 1]
  BY DEF FreeListExact
<1> PICK s, F, own : HeapIs(s, F, own)
  BY DEF HeapInv
<1>1. Blocks(heap, s, F) /\ heap \in Memory /\ List(heap, F)
  BY DEF HeapIs, Blocks, Listed
<1> PICK r : Ring(heap, r) /\ F = Members(r)
  BY <1>1 DEF List
<1> DEFINE v == Visited(heap)
           n == Len(r)
<1>2. /\ n \in Nat /\ heap.counter = n /\ heap.head = IF n = 0 THEN 0 ELSE r[1]
      /\ \A i \in 1..n : /\ r[i] \in Header /\ r[i] \in Words /\ r[i] # 0 /\ r[i] + 4 \in Words
                         /\ heap.mem[r[i] + 4] = Before(r, i)
  <2>1. /\ n \in Nat /\ heap.counter = n /\ heap.head = IF n = 0 THEN 0 ELSE r[1]
        /\ \A i \in 1..n : /\ r[i] \in Header /\ r[i] + 8 \in Words
                           /\ heap.mem[r[i] + 4] = Before(r, i)
    BY DEF Ring
  <2>2. \A b \in Header : b + 8 \in Words => b \in Words /\ b # 0 /\ b + 4 \in Words
    BY HeaderFacts, WordsAre
  <2> QED
    BY <2>1, <2>2
<1>3. \A i \in 0..n : v[i] = IF i = n THEN heap.head ELSE r[i + 1]
  BY <1>1, VisitedIs
<1> HIDE DEF v
<1>4. FreeBlocks = F
  BY <1>1, BlocksAre
<1>5. {v[i] : i \in 0..(n - 1)} = F
  <2>1. ASSUME NEW i \in 0..(n - 1) PROVE v[i] \in F
    <3>1. i \in 0..n /\ i # n /\ i + 1 \in 1..n
      BY <1>2
    <3> QED
      BY <1>3, <3>1 DEF Members
  <2>2. ASSUME NEW b \in F PROVE \E i \in 0..(n - 1) : v[i] = b
    <3> PICK k \in 1..n : r[k] = b
      BY DEF Members
    <3>1. k - 1 \in 0..(n - 1) /\ k - 1 \in 0..n /\ k - 1 # n /\ (k - 1) + 1 = k
      BY <1>2
    <3>2. v[k - 1] = b
      BY <1>3, <3>1
    <3> QED
      BY <3>1, <3>2
  <2> QED
    BY <2>1, <2>2
<1>6. n = Cardinality(F)
  BY RingCardinality
<1>7. v[n] = heap.head
  BY <1>2, <1>3
<1>8. ASSUME NEW i \in 1..n PROVE get_prevfree(heap, v[i]) = v[i - 1]
  <2>1. v[i - 1] = r[i]
    <3>1. i - 1 \in 0..n /\ i - 1 # n /\ (i - 1) + 1 = i
      BY <1>2
    <3> QED
      BY <1>3, <3>1
  <2> PICK k \in 1..n : k = IF i = n THEN 1 ELSE i + 1
    BY <1>2
  <2>2. v[i] = r[k]
    <3>1. i \in 0..n /\ n # 0
      BY <1>2
    <3> QED
      BY <1>2, <1>3, <3>1
  <2>3. Before(r, k) = r[i]
    BY <1>2 DEF Before
  <2>4. get_prevfree(heap, r[k]) = Before(r, k)
    BY <1>1, <1>2, Loaded DEF get_prevfree
  <2> QED
    BY <2>1, <2>2, <2>3, <2>4
<1> QED
  BY <1>2, <1>4, <1>5, <1>6, <1>7, <1>8 DEF v

(* The invariant gives each region its block, and keeps what it holds.     *)
LEMMA RegionsHeld ==
  ASSUME HeapInv
  PROVE  NoBlockLost /\ PayloadIntact
<1> PICK s, F, own : HeapIs(s, F, own)
  BY DEF HeapInv
<1> DEFINE U == (DOMAIN s \ F) \ {taken.block}
<1>1. Blocks(heap, s, F) /\ Tiles(s) /\ Holding(heap.mem, s, own, U) /\ UsedBlocks = DOMAIN s \ F
  BY BlocksAre DEF HeapIs, Blocks
<1>2. UsedBlocks \ {taken.block} = U /\ U \subseteq UsedBlocks /\ U \subseteq DOMAIN s
  BY <1>1
<1> HIDE DEF U
<1>3. ASSUME NEW r \in live PROVE own[r] \in U /\ InBlock(heap.mem, s, r, own[r]) /\ Holds(own[r], r)
  <2> PICK b : b = own[r]
    OBVIOUS
  <2>1. b \in U /\ InBlock(heap.mem, s, r, b)
    BY <1>1 DEF Holding
  <2>2. get_footer(heap, b) = b + s[b] - 4
    BY <1>1, <1>2, <2>1, BlockRead
  <2> QED
    BY <2>1, <2>2 DEF Holds, InBlock
<1>4. \A b \in U : \E r \in live : Holds(b, r)
  BY <1>1, <1>3 DEF Holding
<1>5. Cardinality(U) = Cardinality(live)
  <2>1. U \in SUBSET (0..alloc_end)
    <3> SUFFICES ASSUME NEW b \in U PROVE b \in 0..alloc_end
      OBVIOUS
    <3>1. b \in Nat /\ s[b] \in Nat /\ b + s[b] <= End /\ End = alloc_end - 4 /\ alloc_end \in Nat
      BY <1>1, <1>2, TileFacts, WordsAre
    <3> QED
      BY <3>1
  <2>2. IsFiniteSet(U)
    <3>1. alloc_end \in Int /\ 0 \in Int
      BY WordsAre
    <3>2. IsFiniteSet(0..alloc_end)
      BY <3>1, FS_Interval
    <3> QED
      BY <2>1, <3>2, FS_Subset
  <2>3. own \in Injection(live, U) /\ own \in Surjection(live, U)
    BY <1>1 DEF Holding, Injection, Surjection, IsInjective
  <2> QED
    BY <2>2, <2>3, FS_Injection
<1>6. NoBlockLost
  BY <1>2, <1>3, <1>4, <1>5 DEF NoBlockLost
<1>7. PayloadIntact
  BY <1>3 DEF PayloadIntact, InBlock
<1> QED
  BY <1>6, <1>7

(* The invariant justifies a refusal.                                      *)
LEMMA RefusalIs ==
  ASSUME HeapInv
  PROVE  RefusalJustified
<1> PICK s, F, own : HeapIs(s, F, own)
  BY DEF HeapInv
<1>1. Blocks(heap, s, F) /\ F \subseteq DOMAIN s /\ Refusal(s, F)
  BY DEF HeapIs, Blocks
<1>2. FreeBlocks = F /\ \A b \in F : get_blocksize(heap, b) = s[b]
  BY <1>1, BlocksAre, BlockRead
<1> QED
  BY <1>1, <1>2 DEF RefusalJustified, Refusal

-----------------------------------------------------------------------------
(* What the heap keeps, when no handler frees during a malloc. *)

(* Whatever is allocated and freed, in any order, the blocks tile the heap *)
(* and the footer of each says what its header says: the split of malloc   *)
(* and the merges of free write both.                                      *)
THEOREM BoundaryTagsAlwaysAgree ==
  ASSUME ~Preemptive
  PROVE  Spec => []BoundaryTagsAgree
<1>1. HeapInv => BoundaryTagsAgree
  BY TagsAgree
<1> QED
  BY <1>1, HeapInvariant, PTL

(* No two free blocks are side by side: free merges with both neighbours,  *)
(* and the split of malloc leaves its rest between allocated blocks.       *)
THEOREM AlwaysCoalesced ==
  ASSUME ~Preemptive
  PROVE  Spec => []Coalesced
<1>1. HeapInv => Coalesced
  BY NoFreeNeighbours
<1> QED
  BY <1>1, HeapInvariant, PTL

(* Between two calls the ring of free_list_insert and free_list_delete     *)
(* holds exactly the free blocks, each once, in both directions.           *)
THEOREM FreeListAlwaysExact ==
  ASSUME ~Preemptive
  PROVE  Spec => []FreeListExact
<1>1. HeapInv => FreeListExact
  BY FreeListIs
<1> QED
  BY <1>1, HeapInvariant, PTL

(* malloc gives no block out twice, and free loses none: every allocated   *)
(* block holds one region of the program.                                  *)
THEOREM NeverBlockLost ==
  ASSUME ~Preemptive
  PROVE  Spec => []NoBlockLost
<1>1. HeapInv => NoBlockLost
  BY RegionsHeld
<1> QED
  BY <1>1, HeapInvariant, PTL

(* Neither a split, a merge nor a link of the ring is ever written into a  *)
(* region the program holds.                                               *)
THEOREM PayloadAlwaysIntact ==
  ASSUME ~Preemptive
  PROVE  Spec => []PayloadIntact
<1>1. HeapInv => PayloadIntact
  BY RegionsHeld
<1> QED
  BY <1>1, HeapInvariant, PTL

(* When malloc returns NULL no free block could have served the request:   *)
(* its search goes once round the whole ring.                              *)
THEOREM RefusalAlwaysJustified ==
  ASSUME ~Preemptive
  PROVE  Spec => []RefusalJustified
<1>1. HeapInv => RefusalJustified
  BY RefusalIs
<1> QED
  BY <1>1, HeapInvariant, PTL

(* What malloc returns is new, or the program holds it already. *)
LEMMA ReturnAllocates ==
  ASSUME HeapInv, HeapInv', malloc_return
  PROVE  \/ \E p \in {a \in alloc_start..alloc_end : a % 8 = 0}, q \in Requests :
              Abstract!Allocate([ptr |-> p, used |-> q.used, lli |-> q.lli])
         \/ UNCHANGED live
<1> PICK s, F, own : HeapIs(s, F, own)'
  BY DEF HeapInv
<1> PICK q \in Requests : q = taken.req
  BY DEF HeapInv, HeapIs, Underway, malloc_return
<1> DEFINE p == get_payload(taken.block) + Shift(taken.block, q)
           new == [ptr |-> p, used |-> q.used, lli |-> q.lli]
<1>1. live' = live \cup {new}
  BY DEF malloc_return
<1> HIDE DEF p
<1>2. Tiles(s) /\ Holding(heap.mem, s, own, (DOMAIN s \ F) \ {taken.block})'
  BY DEF HeapIs, Blocks
<1>3. ASSUME NEW r \in live'
      PROVE  /\ own[r] \in DOMAIN s /\ r \in Region /\ r.ptr % 8 = 0
             /\ own[r] + 4 <= r.ptr /\ r.ptr + r.used <= own[r] + s[own[r]] - 4
             /\ r.lli => r.ptr % LLI_SIZE = 0
             /\ \A x \in live' : own[x] = own[r] => x = r
  <2>1. own[r] \in DOMAIN s /\ r \in Region /\ \A x \in live' : own[x] = own[r] => x = r
    BY <1>2 DEF Holding
  <2>2. InBlock(heap'.mem, s, r, own[r])
    BY <1>2 DEF Holding
  <2> QED
    BY <2>1, <2>2 DEF InBlock
<1>4. p \in Nat /\ q.used \in Nat /\ new \in live' /\ new.ptr = p /\ new.used = q.used
  <2>1. new \in live' /\ new.ptr = p /\ new.used = q.used
    BY <1>1
  <2>2. new \in Region
    BY <1>3, <2>1
  <2> QED
    BY <2>1, <2>2 DEF Region
<1> SUFFICES ASSUME new \notin live
             PROVE  p \in alloc_start..alloc_end /\ p % 8 = 0 /\ Abstract!Allocate(new)
  BY <1>1
<1> PICK b \in DOMAIN s : b = own[new]
  BY <1>3, <1>4
<1>5. /\ b \in Nat /\ s[b] \in Nat /\ First <= b /\ b + s[b] <= End
      /\ b + 4 <= p /\ p + q.used <= b + s[b] - 4 /\ p % 8 = 0
  BY <1>2, <1>3, <1>4, TileFacts
<1>6. alloc_start <= p /\ p + q.used <= alloc_end /\ p \in alloc_start..alloc_end
  <2>1. /\ alloc_start \in Nat /\ alloc_end \in Nat /\ First = alloc_start + 12
        /\ End = alloc_end - 4
    BY WordsAre
  <2> QED
    BY <1>4, <1>5, <2>1
<1>7. Abstract!Aligned(new)
  BY <1>3, <1>4, <1>5 DEF Abstract!Aligned
<1>8. ASSUME NEW r \in live PROVE Abstract!Apart(new, r)
  <2> PICK c \in DOMAIN s : c = own[r]
    BY <1>1, <1>3
  <2>1. /\ c \in Nat /\ s[c] \in Nat /\ c + 4 <= r.ptr /\ r.ptr + r.used <= c + s[c] - 4
        /\ r.ptr \in Nat /\ r.used \in Nat
    BY <1>1, <1>2, <1>3, TileFacts DEF Region
  <2>2. c # b
    BY <1>1, <1>3, <1>4
  <2>3. (b < c => b + s[b] <= c) /\ (c < b => c + s[c] <= b)
    BY <1>2 DEF Tiles
  <2>4. p + q.used <= r.ptr \/ r.ptr + r.used <= p
    BY <1>4, <1>5, <2>1, <2>2, <2>3
  <2> QED
    BY <1>4, <2>4 DEF Abstract!Apart
<1> QED
  BY <1>1, <1>4, <1>5, <1>6, <1>7, <1>8 DEF Abstract!Allocate

(* The heap implements Allocator: malloc_return allocates, release frees,  *)
(* and malloc_take is a stutter.                                           *)
THEOREM HeapImplementsAllocator ==
  ASSUME ~Preemptive
  PROVE  Spec => ImplementsAllocator
<1>1. heap_init => Abstract!Init
  BY DEF heap_init, Abstract!Init
<1>2. HeapInv /\ HeapInv' /\ [Next]_vars => [Abstract!Next]_live
  <2> SUFFICES ASSUME HeapInv, HeapInv', [Next]_vars PROVE Abstract!Next \/ UNCHANGED live
    OBVIOUS
  <2>1. ASSUME NEW q \in Requests, malloc_take(q) PROVE UNCHANGED live
    BY <2>1 DEF malloc_take
  <2>2. CASE malloc_return
    BY <2>2, ReturnAllocates DEF Abstract!Next
  <2>3. ASSUME NEW r \in live, release(r) PROVE Abstract!Next
    BY <2>3 DEF release, Abstract!Next, Abstract!Free
  <2>4. CASE UNCHANGED vars
    BY <2>4 DEF vars
  <2> QED
    BY <2>1, <2>2, <2>3, <2>4 DEF Next
<1> QED
  BY <1>1, <1>2, HeapInvariant, PTL DEF Spec, ImplementsAllocator, Abstract!Spec

=============================================================================
