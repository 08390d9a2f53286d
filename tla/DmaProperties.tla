--------------------------- MODULE DmaProperties ---------------------------
(* What the users of dma/dma.c rely on. *)
EXTENDS Dma

Asked == UNION {ToSet(s) : s \in Loads \cup Results}
LLI   == [llp : Desc \cup {NULL}, from : Nat, to : Nat, ts : Nat, last : BOOLEAN,
          req : Nat, pos : Nat]
Works == [asked : Loads \cup Results \cup {<<>>}, linked : Nat]

(* Every variable stays within the values its C declaration allows. *)
TypeOK ==
  /\ lli \in [Desc -> LLI]
  /\ used \in SUBSET Desc
  /\ head_lli \in Desc \cup {NULL} /\ last_lli \in Desc \cup {NULL}
  /\ status \in SUBSET Channels
  /\ msg \in [Channels -> Desc \cup {NULL}]
  /\ carry \in [Channels -> [lli : Desc \cup {NULL}, asked : Loads \cup Results \cup {<<>>}]]
  /\ pc \in {"idle", "link", "find", "load", "store", "record"}
  /\ work \in Works /\ iwork \in Works
  /\ index \in Channels
  /\ reg \in SUBSET Channels

Active     == {c \in Channels : carry[c] # NoCarry}
ChainOf(c) == Chain(carry[c].lli)
OpenChain  == IF pc = "record" THEN <<>> ELSE Chain(head_lli)

(* A transfer that is under way has a chain of its own, which ends in a    *)
(* descriptor linked to itself, the only one marked as the last; no part   *)
(* of it is freed or linked into another chain (dma_transfer_link).        *)
ChainsSound ==
  /\ TypeOK
  /\ \A c \in Active :
       /\ ChainOf(c) # <<>> /\ ToSet(ChainOf(c)) \subseteq used
       /\ \A d \in ToSet(ChainOf(c)) :
            /\ lli[d].last <=> d = Last(ChainOf(c))
            /\ lli[d].last => lli[d].llp = d
       /\ ToSet(ChainOf(c)) \cap ToSet(OpenChain) = {}
  /\ \A c, e \in Active : c # e => ToSet(ChainOf(c)) \cap ToSet(ChainOf(e)) = {}

(* Cutting the copies into chunks loses no chunk and mixes no two copies   *)
(* (dma_transfer_link, lli_setup): the descriptors of a transfer come in   *)
(* the order of the calls, their lengths add up to the whole units of      *)
(* Width in what was asked, and a copy of a single chunk goes where it     *)
(* should.  Nothing is said of where several chunks go (the code reads them *)
(* from, and writes them to, the wrong addresses), nor of the bytes behind *)
(* the last whole unit, which are not copied.                              *)
CopiesAsked(c, r) == {d \in ToSet(ChainOf(c)) : lli[d].req = r}

ChunksAddUp ==
  \A c \in Active :
    /\ \A i, j \in DOMAIN ChainOf(c) :
         i <= j => lli[ChainOf(c)[i]].req <= lli[ChainOf(c)[j]].req
    /\ \A r \in DOMAIN carry[c].asked :
         LET len == carry[c].asked[r]
             ds  == CopiesAsked(c, r)
         IN /\ MapThenSumSet(LAMBDA d : lli[d].ts, ds) * Width = len - (len % Width)
            /\ len < MaxLength => \A d \in ds : lli[d].from = 0 /\ lli[d].to = 0

(* A channel that carries a transfer is marked busy, the loop has chosen   *)
(* no such channel, and its interrupt will find the message of that        *)
(* transfer and no other, whenever releases come: also between the load    *)
(* and the store of set_channel_busy (channel_status, msg_array).          *)
BusyWhileCarrying ==
  /\ Active \subseteq status
  /\ pc \in {"load", "store"} => index \notin Active
  /\ \A c \in Active : ~(pc = "record" /\ index = c) => msg[c] = carry[c].lli

(* A channel that is busy and carries nothing is lost: no interrupt will   *)
(* release it.  It happens in one way only, the store of set_channel_busy  *)
(* writing back a bit that a release has cleared since the load, and it is *)
(* for ever, whatever interrupts are taken anywhere.                       *)
Stuck(c) == c \in status /\ c \notin Active

LostByStoreOnly ==
  [][\A c \in Channels :
       IF Stuck(c) THEN Stuck(c)'
       ELSE Stuck(c)' => pc = "store" /\ c \in reg /\ c \notin status]_vars

(* Of a finished transfer at most the descriptors behind the second stay   *)
(* allocated (the walk in dma_transfer_done_handler).                      *)
Reachable == (UNION {ToSet(ChainOf(c)) : c \in Active}) \cup ToSet(OpenChain)

FirstTwoReturned == \A d \in used \ Reachable : lli[d].pos > 2

(* The loop's search for a channel comes to an end as transfers do         *)
(* (dma_transfer_channel: "hang on checking"), unless every channel has    *)
(* been lost: then it never does.                                          *)
ChannelFound == pc = "find" ~> pc = "record" \/ \A c \in Channels : Stuck(c)
=============================================================================
