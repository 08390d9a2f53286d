------------------------------ MODULE DmaProofs ------------------------------
(***************************************************************************)
(* Theorems about the channels in Dma, for any number of channels and      *)
(* descriptors and whatever copies are asked for.                          *)
(***************************************************************************)
EXTENDS DmaProperties, FiniteSetTheorems, TLAPS

(* No block asks for its results from the moment the loop has found a      *)
(* channel until the message is written.  A transfer may end at any moment,*)
(* between the load and the store of set_channel_busy as well, and the one *)
(* the loop has just started included.                                     *)
NoLateResult == PreemptAt \cap {<<"result", p>> : p \in {"load", "store", "record"}} = {}

(* What the two contexts know of the channels.  The status that            *)
(* set_channel_busy has loaded may be out of date, but only by channels    *)
(* that have been released since; the channel found stays free; and the    *)
(* chain of a transfer just started is still head_lli.                     *)
ChannelTypes ==
  /\ index \in Channels
  /\ DOMAIN carry = Channels /\ DOMAIN msg = Channels
  /\ pc \in {"idle", "link", "find", "load", "store", "record"}
  /\ pc \in {"link", "find", "load", "store"} => work.asked # <<>>
  /\ iwork # NoWork => iwork.asked # <<>>

ChannelInv ==
  /\ ChannelTypes
  /\ BusyWhileCarrying
  /\ pc = "store" => status \subseteq reg
  /\ pc \in {"load", "store"} => index \notin status
  /\ pc = "record" /\ index \in Active => carry[index].lli = head_lli
  /\ iwork # NoWork => pc \notin {"load", "store", "record"}

-----------------------------------------------------------------------------
(* Numbers. *)

(* A nonempty set of numbers has a smallest one. *)
LEMMA SmallestNumber ==
  ASSUME NEW T \in SUBSET Nat, T # {}
  PROVE  \E x \in T : \A y \in T : ~(y < x)
<1> DEFINE R == OpToRel(<, Nat)
<1>1. IsWellFoundedOn(R, Nat)
  BY NatLessThanWellFounded
<1>2. PICK x \in T : \A y \in T : ~(<<y, x>> \in R)
  <2> HIDE DEF R
  <2> QED
    BY <1>1, WFMin
<1>3. \A y \in T : <<y, x>> \in Nat \X Nat => ~(y < x)
  BY <1>2 DEF OpToRel
<1> HIDE DEF R
<1> QED
  BY <1>3

(* Induction, for the set of the numbers that have a property. *)
LEMMA SetInduction ==
  ASSUME NEW S \in SUBSET Nat, 0 \in S, \A n \in S : n + 1 \in S
  PROVE  S = Nat
<1> SUFFICES ASSUME Nat \ S # {} PROVE FALSE
  OBVIOUS
<1>1. PICK x \in Nat \ S : \A y \in Nat \ S : ~(y < x)
  BY SmallestNumber
<1>2. x - 1 \in Nat /\ x - 1 < x
  BY <1>1
<1>3. x - 1 \in S
  BY <1>1, <1>2
<1> QED
  BY <1>1, <1>2, <1>3

-----------------------------------------------------------------------------
LEMMA AskedIsNotEmpty == \A s \in Loads \cup Results : s # <<>>
  BY DmaAssumption

(* A channel that is given a chain is active from then on, one that is     *)
(* cleared no longer is.                                                   *)
LEMMA Given ==
  ASSUME DOMAIN carry = Channels, NEW c \in Channels, NEW h, NEW s, s # <<>>,
         carry' = [carry EXCEPT ![c] = [lli |-> h, asked |-> s]]
  PROVE  /\ Active' = Active \cup {c}
         /\ carry'[c].lli = h /\ carry'[c].asked = s
         /\ \A d \in Channels \ {c} : carry'[d] = carry[d]
         /\ DOMAIN carry' = Channels
<1>1. carry'[c] = [lli |-> h, asked |-> s] /\ \A d \in Channels \ {c} : carry'[d] = carry[d]
  OBVIOUS
<1>2. carry'[c].asked # NoCarry.asked
  BY <1>1 DEF NoCarry
<1> QED
  BY <1>1, <1>2 DEF Active

LEMMA Cleared ==
  ASSUME DOMAIN carry = Channels, NEW c \in Channels, carry' = [carry EXCEPT ![c] = NoCarry]
  PROVE  /\ Active' = Active \ {c}
         /\ \A d \in Channels \ {c} : carry'[d] = carry[d]
         /\ DOMAIN carry' = Channels
  BY DEF Active

-----------------------------------------------------------------------------
(* A step that leaves the channels alone. *)
LEMMA QuietChannels ==
  ASSUME ChannelInv, UNCHANGED chanVars
  PROVE  /\ Active' = Active /\ DOMAIN carry' = Channels /\ DOMAIN msg' = Channels
         /\ carry' = carry /\ msg' = msg /\ status' = status
  BY DEF ChannelInv, ChannelTypes, chanVars, Active

LEMMA LoopStep ==
  ASSUME ChannelInv, StartLoad \/ Link \/ Find \/ Load
  PROVE  ChannelInv'
<1>1. /\ Active' = Active /\ DOMAIN carry' = Channels /\ DOMAIN msg' = Channels
      /\ carry' = carry /\ msg' = msg /\ status' = status
  BY QuietChannels DEF StartLoad, Link, Find, Load
<1>2. iwork = NoWork /\ iwork' = NoWork
  BY DEF StartLoad, Link, Find, Load, Loop
<1>3. /\ index' \in Channels
      /\ pc' \in {"link", "find", "load", "store"}
      /\ work'.asked # <<>>
  <2>1. CASE StartLoad
    <3>1. PICK asked \in Loads : work' = [asked |-> asked, linked |-> 0]
      BY <2>1 DEF StartLoad
    <3> QED
      BY <2>1, <3>1, AskedIsNotEmpty DEF StartLoad, ChannelInv, ChannelTypes
  <2>2. CASE Link
    <3>1. 0 \in Channels
      BY DmaAssumption DEF Channels
    <3>2. work.asked # <<>>
      BY <2>2 DEF Link, Loop, ChannelInv, ChannelTypes
    <3>3. work'.asked = work.asked
      BY <2>2 DEF Link
    <3> QED
      BY <2>2, <3>1, <3>2, <3>3 DEF Link, Loop, ChannelInv, ChannelTypes
  <2>3. CASE Find
    <3>1. (index + 1) % NumChannels \in Channels
      BY DmaAssumption DEF Channels, ChannelInv, ChannelTypes
    <3> QED
      BY <2>3, <3>1 DEF Find, NextIndex, Loop, ChannelInv, ChannelTypes
  <2>4. CASE Load
    BY <2>4 DEF Load, Loop, ChannelInv, ChannelTypes
  <2> QED
    BY <2>1, <2>2, <2>3, <2>4
<1>4. ChannelTypes'
  BY <1>1, <1>2, <1>3 DEF ChannelTypes
<1>5. pc' \in {"load", "store"} => index' \notin status'
  BY <1>1 DEF StartLoad, Link, Find, Load, Loop, ChannelInv
<1>6. BusyWhileCarrying'
  <2>1. pc # "record" /\ pc' # "record"
    BY <1>3 DEF StartLoad, Link, Find, Load, Loop
  <2> QED
    BY <1>1, <1>5, <2>1 DEF ChannelInv, BusyWhileCarrying
<1>7. pc' = "store" => reg' = status'
  BY <1>1 DEF StartLoad, Link, Find, Load, Loop
<1> QED
  BY <1>2, <1>3, <1>4, <1>5, <1>6, <1>7 DEF ChannelInv

(* set_channel_busy stores what it loaded: no bit of a transfer is missing.*)
LEMMA StoreStep ==
  ASSUME ChannelInv, Store
  PROVE  ChannelInv'
<1>1. /\ pc = "store" /\ pc' = "record" /\ iwork = NoWork /\ iwork' = NoWork
      /\ index' = index /\ index \in Channels /\ msg' = msg /\ head_lli' = head_lli
      /\ work.asked # <<>> /\ status \subseteq reg
  BY DEF Store, Loop, chainVars, ChannelInv, ChannelTypes
<1>2. /\ Active' = Active \cup {index} /\ carry'[index].lli = head_lli
      /\ \A d \in Channels \ {index} : carry'[d] = carry[d]
      /\ DOMAIN carry' = Channels
  BY <1>1, Given DEF Store, ChannelInv, ChannelTypes
<1>3. Active' \subseteq status'
  BY <1>1, <1>2 DEF Store, set_channel_busy, ChannelInv, BusyWhileCarrying
<1>4. \A c \in Active' : c # index => msg'[c] = carry'[c].lli
  BY <1>1, <1>2 DEF ChannelInv, BusyWhileCarrying, Active
<1> QED
  BY <1>1, <1>2, <1>3, <1>4 DEF ChannelInv, ChannelTypes, BusyWhileCarrying

LEMMA RecordStep ==
  ASSUME ChannelInv, Record
  PROVE  ChannelInv'
<1>1. /\ pc = "record" /\ pc' = "idle" /\ iwork = NoWork /\ iwork' = NoWork
      /\ index' = index /\ index \in Channels /\ status' = status /\ carry' = carry
      /\ msg' = [msg EXCEPT ![index] = head_lli] /\ DOMAIN msg = Channels
      /\ DOMAIN carry = Channels
  BY DEF Record, Loop, ChannelInv, ChannelTypes
<1>2. Active' = Active /\ Active' \subseteq status'
  BY <1>1 DEF ChannelInv, BusyWhileCarrying, Active
<1>3. /\ msg'[index] = head_lli /\ DOMAIN msg' = Channels
      /\ \A c \in Channels \ {index} : msg'[c] = msg[c]
  BY <1>1
<1>4. \A c \in Active' : msg'[c] = carry'[c].lli
  BY <1>1, <1>2, <1>3 DEF ChannelInv, BusyWhileCarrying, Active
<1> QED
  BY <1>1, <1>2, <1>3, <1>4 DEF ChannelInv, ChannelTypes, BusyWhileCarrying

(* The handlers run to their end before the loop goes on. *)
LEMMA ResultsBegin ==
  ASSUME NoLateResult, ChannelInv, StartResults
  PROVE  ChannelInv'
<1>1. /\ UNCHANGED <<status, msg, carry, head_lli, pc, work, index, reg>>
      /\ UNCHANGED chanVars
      /\ <<"result", pc>> \in PreemptAt
  BY DEF StartResults, Taken, chainVars, chanVars, loopVars
<1>2. PICK asked \in Results : iwork' = [asked |-> asked, linked |-> 0]
  BY DEF StartResults
<1>3. pc \notin {"load", "store", "record"}
  BY <1>1 DEF NoLateResult
<1>4. iwork'.asked # <<>>
  BY <1>2, AskedIsNotEmpty
<1> QED
  BY <1>1, <1>3, <1>4, QuietChannels
  DEF ChannelInv, ChannelTypes, BusyWhileCarrying

LEMMA ResultsLinked ==
  ASSUME ChannelInv, LinkResult, iwork # NoWork
  PROVE  ChannelInv'
<1>1. /\ UNCHANGED <<status, msg, carry, pc, work, index, reg>> /\ UNCHANGED chanVars
      /\ iwork' = [iwork EXCEPT !.linked = @ + 1]
  BY DEF LinkResult, chanVars, loopVars
<1>2. iwork'.asked = iwork.asked /\ iwork.asked # <<>>
  BY <1>1 DEF ChannelInv, ChannelTypes
<1>3. pc \notin {"load", "store", "record"}
  BY DEF ChannelInv
<1> QED
  BY <1>1, <1>2, <1>3, QuietChannels
  DEF ChannelInv, ChannelTypes, BusyWhileCarrying

LEMMA ResultsLaunched ==
  ASSUME ChannelInv, LaunchResults
  PROVE  ChannelInv'
<1>1. /\ UNCHANGED <<pc, work, index, reg>> /\ iwork # NoWork /\ iwork' = NoWork
      /\ iwork.asked # <<>> /\ pc \notin {"load", "store", "record"}
  BY DEF LaunchResults, loopVars, ChannelInv, ChannelTypes
<1>2. PICK c \in Channels :
        /\ c \notin status /\ status' = status \cup {c}
        /\ carry' = [carry EXCEPT ![c] = [lli |-> head_lli, asked |-> iwork.asked]]
        /\ msg' = [msg EXCEPT ![c] = head_lli]
  BY DEF LaunchResults, get_free_channel, set_channel_busy
<1>3. /\ Active' = Active \cup {c} /\ carry'[c].lli = head_lli
      /\ \A d \in Channels \ {c} : carry'[d] = carry[d]
      /\ DOMAIN carry' = Channels
  BY <1>1, <1>2, Given DEF ChannelInv, ChannelTypes
<1>4. /\ msg'[c] = head_lli /\ DOMAIN msg' = Channels
      /\ \A d \in Channels \ {c} : msg'[d] = msg[d]
  BY <1>2 DEF ChannelInv, ChannelTypes
<1>5. Active' \subseteq status'
  BY <1>2, <1>3 DEF ChannelInv, BusyWhileCarrying
<1>6. \A d \in Active' : msg'[d] = carry'[d].lli
  BY <1>1, <1>3, <1>4 DEF ChannelInv, BusyWhileCarrying, Active
<1> QED
  BY <1>1, <1>3, <1>4, <1>5, <1>6 DEF ChannelInv, ChannelTypes, BusyWhileCarrying

LEMMA TransferEnds ==
  ASSUME ChannelInv, NEW c \in Channels, TransferDone(c)
  PROVE  ChannelInv'
<1>1. /\ UNCHANGED <<msg, head_lli, pc, work, index, reg, iwork>> /\ iwork = NoWork
      /\ status' = status \ {c} /\ carry' = [carry EXCEPT ![c] = NoCarry]
  BY DEF TransferDone, Taken, loopVars, set_channel_idle
<1>2. /\ Active' = Active \ {c} /\ DOMAIN carry' = Channels
      /\ \A d \in Channels \ {c} : carry'[d] = carry[d]
  BY <1>1, Cleared DEF ChannelInv, ChannelTypes
<1>3. Active' \subseteq status'
  BY <1>1, <1>2 DEF ChannelInv, BusyWhileCarrying
<1>4. pc = "store" => status' \subseteq reg
  BY <1>1 DEF ChannelInv
<1>5. \A d \in Active' : d \in Active /\ d \in Channels \ {c}
  BY <1>2 DEF Active
<1>6. \A d \in Active' : ~(pc = "record" /\ index = d) => msg'[d] = carry'[d].lli
  BY <1>1, <1>2, <1>5 DEF ChannelInv, BusyWhileCarrying
<1>7. pc = "record" /\ index \in Active' => carry'[index].lli = head_lli
  BY <1>2, <1>5 DEF ChannelInv
<1>8. pc \in {"load", "store"} => index \notin status' /\ index \notin Active'
  BY <1>1, <1>3 DEF ChannelInv
<1> QED
  BY <1>1, <1>2, <1>3, <1>4, <1>6, <1>7, <1>8
  DEF ChannelInv, ChannelTypes, BusyWhileCarrying

LEMMA ChannelStep ==
  ASSUME NoLateResult, ChannelInv, [Next]_vars
  PROVE  ChannelInv'
<1>1. CASE StartLoad \/ Link \/ Find \/ Load
  BY <1>1, LoopStep
<1>2. CASE Store
  BY <1>2, StoreStep
<1>3. CASE Record
  BY <1>3, RecordStep
<1>4. CASE StartResults
  BY <1>4, ResultsBegin
<1>5. CASE LinkResult
  <2>1. iwork # NoWork
    BY <1>5 DEF LinkResult, NoWork
  <2> QED
    BY <1>5, <2>1, ResultsLinked
<1>6. CASE LaunchResults
  BY <1>6, ResultsLaunched
<1>7. ASSUME NEW c \in Channels, TransferDone(c) PROVE ChannelInv'
  BY <1>7, TransferEnds
<1>8. CASE UNCHANGED vars
  <2>1. UNCHANGED chanVars /\ UNCHANGED <<head_lli, pc, work, index, reg, iwork>>
    BY <1>8 DEF vars, chainVars, loopVars
  <2> QED
    BY <2>1, QuietChannels DEF ChannelInv, ChannelTypes, BusyWhileCarrying
<1> QED
  BY <1>1, <1>2, <1>3, <1>4, <1>5, <1>6, <1>7, <1>8 DEF Next, Main, Handler

LEMMA Start == Init => ChannelInv
<1> SUFFICES ASSUME Init PROVE ChannelInv
  OBVIOUS
<1>1. Active = {} /\ status = {} /\ 0 \in Channels
  BY DmaAssumption DEF Init, Active, Channels
<1> QED
  BY <1>1 DEF Init, ChannelInv, ChannelTypes, BusyWhileCarrying

(* A channel that carries a transfer is busy, cannot be chosen again, and  *)
(* its interrupt finds that transfer's message (set_channel_busy,          *)
(* dma_transfer_channel, dma_transfer_done_handler), though releases come  *)
(* at any moment and the loop writes back a status that is out of date.    *)
THEOREM CarryingIsBusy ==
  ASSUME NoLateResult
  PROVE  Spec => []BusyWhileCarrying
<1>1. ChannelInv /\ [Next]_vars => ChannelInv'
  BY ChannelStep
<1>2. ChannelInv => BusyWhileCarrying
  BY DEF ChannelInv
<1> QED
  BY <1>1, <1>2, Start, PTL DEF Spec

-----------------------------------------------------------------------------
(* Lost channels.  Nothing is assumed of PreemptAt.                        *)
StuckInv ==
  /\ index \in Channels /\ DOMAIN carry = Channels
  /\ pc \in {"link", "find", "load", "store"} => work.asked # <<>>
  /\ iwork # NoWork => iwork.asked # <<>>
  /\ pc \in {"load", "store"} => ~Stuck(index)
  /\ pc = "store" => \A c \in Channels : Stuck(c) => c \in reg

LossIsByStore ==
  \A c \in Channels :
    IF Stuck(c) THEN Stuck(c)'
    ELSE Stuck(c)' => pc = "store" /\ c \in reg /\ c \notin status

(* A step that leaves the same channels stuck, and the loop where it is or *)
(* with a status just loaded, keeps all of it.                             *)
LEMMA StuckFrame ==
  ASSUME StuckInv, \A c \in Channels : Stuck(c)' <=> Stuck(c), DOMAIN carry' = Channels,
         UNCHANGED <<pc, work, index, reg>>, iwork' # NoWork => iwork'.asked # <<>>
  PROVE  StuckInv' /\ LossIsByStore
<1>1. LossIsByStore
  BY DEF LossIsByStore
<1>2. index \in Channels /\ index' = index
  BY DEF StuckInv
<1>3. pc' \in {"load", "store"} => ~Stuck(index)'
  BY <1>2 DEF StuckInv
<1>4. Stuck(index)' <=> index' \in status' /\ index' \notin Active'
  BY DEF Stuck
<1> QED
  BY <1>1, <1>2, <1>3 DEF StuckInv

LEMMA StuckSame ==
  ASSUME StuckInv, UNCHANGED chanVars
  PROVE  DOMAIN carry' = Channels /\ \A c \in Channels : Stuck(c)' <=> Stuck(c)
  BY DEF StuckInv, chanVars, Stuck, Active

LEMMA StuckLoop ==
  ASSUME StuckInv, StartLoad \/ Link \/ Find \/ Load
  PROVE  StuckInv' /\ LossIsByStore
<1>1. DOMAIN carry' = Channels /\ \A c \in Channels : Stuck(c)' <=> Stuck(c)
  BY StuckSame DEF StartLoad, Link, Find, Load
<1>2. iwork' = NoWork /\ LossIsByStore
  BY <1>1 DEF StartLoad, Link, Find, Load, Loop, LossIsByStore
<1>3. CASE StartLoad
  BY <1>1, <1>2, <1>3, AskedIsNotEmpty DEF StartLoad, StuckInv
<1>4. CASE Link
  <2>1. work'.asked = work.asked /\ work.asked # <<>>
    BY <1>4 DEF Link, Loop, StuckInv
  <2>2. index' \in Channels /\ pc' \notin {"load", "store"}
    BY <1>4, DmaAssumption DEF Link, Loop, StuckInv, Channels
  <2> QED
    BY <1>1, <1>2, <2>1, <2>2 DEF StuckInv
<1>5. CASE Find
  <2>1. work' = work /\ work.asked # <<>> /\ status' = status /\ pc' \in {"find", "load"}
    BY <1>5 DEF Find, Loop, StuckInv, chanVars
  <2>2. index' \in Channels
    BY <1>5, DmaAssumption DEF Find, NextIndex, StuckInv, Channels
  <2>3. pc' = "load" => index' \notin status'
    BY <1>5, <2>1 DEF Find, Loop
  <2> QED
    BY <1>1, <1>2, <2>1, <2>2, <2>3 DEF StuckInv, Stuck
<1>6. CASE Load
  <2>1. /\ work' = work /\ work.asked # <<>> /\ index' = index /\ index \in Channels
        /\ pc = "load" /\ pc' = "store" /\ reg' = status /\ UNCHANGED chanVars
    BY <1>6 DEF Load, Loop, StuckInv
  <2>2. /\ ~Stuck(index)
        /\ status' = status /\ Active' = Active
    BY <2>1 DEF StuckInv, chanVars, Active
  <2> QED
    BY <1>1, <1>2, <2>1, <2>2 DEF StuckInv, Stuck
<1> QED
  BY <1>3, <1>4, <1>5, <1>6

LEMMA StuckStore ==
  ASSUME StuckInv, Store
  PROVE  StuckInv' /\ LossIsByStore
<1>1. /\ pc = "store" /\ pc' = "record" /\ iwork' = NoWork /\ work.asked # <<>>
      /\ index \in Channels /\ index' = index
      /\ status' = reg \cup {index} /\ ~Stuck(index)
  BY DEF Store, Loop, StuckInv, set_channel_busy
<1>2. Active' = Active \cup {index} /\ DOMAIN carry' = Channels
  BY <1>1, Given DEF Store, StuckInv
<1>3. LossIsByStore
  BY <1>1, <1>2 DEF StuckInv, Stuck, LossIsByStore
<1> QED
  BY <1>1, <1>2, <1>3 DEF StuckInv

LEMMA StuckHandlers ==
  ASSUME StuckInv,
         Record \/ StartResults \/ LinkResult \/ LaunchResults \/ \E c \in Channels : TransferDone(c)
  PROVE  StuckInv' /\ LossIsByStore
<1>1. CASE Record
  <2>1. /\ status' = status /\ carry' = carry /\ index' = index /\ pc' = "idle"
        /\ iwork' = NoWork
    BY <1>1 DEF Record, Loop
  <2>2. DOMAIN carry' = Channels /\ \A c \in Channels : Stuck(c)' <=> Stuck(c)
    BY <2>1 DEF StuckInv, Stuck, Active
  <2> QED
    BY <2>1, <2>2 DEF StuckInv, LossIsByStore
<1>2. CASE StartResults
  <2>1. PICK asked \in Results : iwork' = [asked |-> asked, linked |-> 0]
    BY <1>2 DEF StartResults
  <2>2. iwork'.asked # <<>> /\ UNCHANGED chanVars /\ UNCHANGED <<pc, work, index, reg>>
    BY <1>2, <2>1, AskedIsNotEmpty DEF StartResults, loopVars
  <2> QED
    BY <2>2, StuckSame, StuckFrame
<1>3. CASE LinkResult
  <2>1. iwork # NoWork
    BY <1>3 DEF LinkResult, NoWork
  <2>2. iwork'.asked = iwork.asked /\ UNCHANGED chanVars /\ UNCHANGED <<pc, work, index, reg>>
    BY <1>3 DEF LinkResult, loopVars
  <2> QED
    BY <2>1, <2>2, StuckSame, StuckFrame DEF StuckInv
<1>4. CASE LaunchResults
  <2>1. /\ UNCHANGED <<pc, work, index, reg>> /\ iwork # NoWork /\ iwork' = NoWork
        /\ iwork.asked # <<>>
    BY <1>4 DEF LaunchResults, loopVars, StuckInv
  <2>2. PICK c \in Channels :
          /\ status' = status \cup {c} /\ c \notin status
          /\ carry' = [carry EXCEPT ![c] = [lli |-> head_lli, asked |-> iwork.asked]]
    BY <1>4 DEF LaunchResults, get_free_channel, set_channel_busy
  <2>3. Active' = Active \cup {c} /\ DOMAIN carry' = Channels
    BY <2>1, <2>2, Given DEF StuckInv
  <2>4. \A d \in Channels : Stuck(d)' <=> Stuck(d)
    BY <2>2, <2>3 DEF Stuck
  <2> QED
    BY <2>1, <2>3, <2>4, StuckFrame
<1>5. CASE \E c \in Channels : TransferDone(c)
  <2>1. PICK c \in Channels : TransferDone(c)
    BY <1>5
  <2>2. /\ UNCHANGED <<pc, work, index, reg, iwork>>
        /\ status' = status \ {c} /\ carry' = [carry EXCEPT ![c] = NoCarry]
        /\ carry[c] # NoCarry
    BY <2>1 DEF TransferDone, loopVars, set_channel_idle
  <2>3. Active' = Active \ {c} /\ DOMAIN carry' = Channels /\ c \in Active
    BY <2>2, Cleared DEF StuckInv, Active
  <2>4. \A d \in Channels : Stuck(d)' <=> Stuck(d)
    BY <2>2, <2>3 DEF Stuck
  <2> QED
    BY <2>2, <2>3, <2>4, StuckFrame DEF StuckInv
<1> QED
  BY <1>1, <1>2, <1>3, <1>4, <1>5

(* A channel is lost to the scheduler only by a store of channel_status    *)
(* that writes back a bit released since the load, and then for ever.      *)
THEOREM LossOnlyByStore == Spec => LostByStoreOnly
<1>1. Init => StuckInv
  <2>1. 0 \in Channels
    BY DmaAssumption DEF Channels
  <2> QED
    BY <2>1 DEF Init, StuckInv
<1>2. ASSUME StuckInv, Next PROVE StuckInv' /\ LossIsByStore
  BY <1>2, StuckLoop, StuckStore, StuckHandlers DEF Next, Main, Handler
<1>3. StuckInv /\ UNCHANGED vars => StuckInv'
  BY DEF StuckInv, Stuck, Active, vars, chainVars, chanVars, loopVars
<1>4. StuckInv /\ [Next]_vars => StuckInv'
  BY <1>2, <1>3
<1>5. StuckInv /\ [Next]_vars => [LossIsByStore]_vars
  BY <1>2
<1> QED
  BY <1>1, <1>4, <1>5, PTL DEF Spec, LostByStoreOnly, LossIsByStore

-----------------------------------------------------------------------------
(* The chains.  The loop and the handlers append to the one open chain,    *)
(* which becomes that of a channel; the sequences of descriptors are       *)
(* followed here from their first one on, through every step.              *)

(* The results of a block are sent only when no other chain waits for a    *)
(* channel, and no channel is done before its message is recorded.         *)
NoLateChain ==
  /\ NoLateResult
  /\ <<"result", "find">> \notin PreemptAt /\ <<"early", "record">> \notin PreemptAt

(* Who holds a chain: the channels, and whoever is building one.           *)
Open   == NumChannels
Owners == Channels \cup {Open}

HeadOf(o) == IF o # Open THEN carry[o].lli ELSE IF pc = "record" THEN NULL ELSE head_lli

(* The descriptors s are linked, each at its place, from h to the last one.*)
Linked(m, u, s, h) ==
  /\ s \in Seq(Desc) /\ IsInjective(s)
  /\ \A i \in 1..Len(s) : s[i] \in u
  /\ h = IF Len(s) = 0 THEN NULL ELSE s[1]
  /\ \A i \in 1..Len(s) : /\ m[s[i]].llp = IF i = Len(s) THEN s[i] ELSE s[i + 1]
                          /\ m[s[i]].pos = i

Marked(m, s)   == \A i \in 1..Len(s) : m[s[i]].last <=> i = Len(s)
Unmarked(m, s) == \A i \in 1..Len(s) : ~m[s[i]].last

(* The open chain has got its last descriptor and waits for a channel.     *)
Complete == \/ iwork = NoWork /\ pc \in {"find", "load", "store"}
            \/ iwork # NoWork /\ iwork.linked = Len(iwork.asked)

Disjoint(s, t) == \A i \in 1..Len(s) : \A j \in 1..Len(t) : s[i] # t[j]

OpenIs(s) ==
  IF Complete THEN Len(s) # 0 /\ Marked(lli, s)
  ELSE Unmarked(lli, s) /\ (Len(s) # 0 => last_lli = s[Len(s)])

ChainsAre(q) ==
  /\ q \in [Owners -> Seq(Desc)]
  /\ \A o \in Owners : Linked(lli, used, q[o], HeadOf(o))
  /\ \A o, p \in Owners : o # p => Disjoint(q[o], q[p])
  /\ \A c \in Active : Len(q[c]) # 0 /\ Marked(lli, q[c])
  /\ OpenIs(q[Open])
  /\ \A d \in used : lli[d].pos > 2 \/ \E o \in Owners : \E i \in 1..Len(q[o]) : d = q[o][i]

(* Where the two contexts are in their work. *)
Positions ==
  /\ pc = "link" => work.asked \in Loads /\ work.linked < Len(work.asked)
  /\ pc \in {"find", "load", "store"} => work.asked \in Loads
  /\ iwork # NoWork => /\ iwork.asked \in Results /\ iwork.linked <= Len(iwork.asked)
                       /\ pc \in {"idle", "link"}
  /\ pc = "record" => index \in Active /\ carry[index].lli = head_lli

ChainInv == ChannelInv /\ TypeOK /\ Positions /\ \E q : ChainsAre(q)

-----------------------------------------------------------------------------
LEMMA DescFacts ==
  /\ Desc \subseteq Nat /\ NULL \notin Desc /\ IsFiniteSet(Desc)
  /\ Open \in Owners /\ Open \notin Channels /\ Channels \subseteq Owners
  /\ \A o \in Owners : o # Open => o \in Channels
<1>1. IsFiniteSet(Desc)
  BY DmaAssumption, FS_Interval DEF Desc
<1> QED
  BY <1>1, DmaAssumption DEF Desc, Channels, Open, Owners

LEMMA ChainIsShort ==
  ASSUME NEW s \in Seq(Desc), IsInjective(s)
  PROVE  Len(s) \in 0..NumDesc
<1>1. s \in Injection(1..Len(s), Desc)
  BY DEF Injection, IsInjective
<1>2. Cardinality(1..Len(s)) <= Cardinality(Desc)
  BY <1>1, DescFacts, FS_Injection
<1>3. Cardinality(1..Len(s)) = Len(s) /\ Len(s) \in Nat
  BY FS_Interval
<1>4. Cardinality(Desc) = NumDesc
  <2>1. 1 \in Int /\ NumDesc \in Int /\ ~(1 > NumDesc) /\ NumDesc - 1 + 1 = NumDesc
    BY DmaAssumption
  <2> QED
    BY <2>1, FS_Interval DEF Desc
<1> QED
  BY <1>2, <1>3, <1>4, DmaAssumption

(* Following the links from the head meets exactly these descriptors. *)
LEMMA ChainIs ==
  ASSUME NEW s, NEW h, Linked(lli, used, s, h)
  PROVE  Chain(h) = s
<1> DEFINE n == Len(s)
           upTo(i) == IF i < n THEN SubSeq(s, 1, i) ELSE s
           step(q) == LET x == lli[Last(q)].llp
                      IN IF x \in {NULL, Last(q)} THEN q ELSE Append(q, x)
           met[i \in Desc] == IF i = 1 THEN <<h>> ELSE step(met[i - 1])
           g == [i \in Desc |-> upTo(i)]
<1>1. s \in Seq(Desc) /\ n \in 0..NumDesc /\ NumDesc \in Nat \ {0} /\ NULL \notin Desc
  BY ChainIsShort, DmaAssumption, DescFacts DEF Linked
<1>2. CASE n = 0
  BY <1>1, <1>2 DEF Linked, Chain
<1>3. CASE n # 0
  <2>0. h = s[1] /\ h # NULL /\ n \in 1..NumDesc
    BY <1>1, <1>3 DEF Linked
  <2>1. step(s) = s
    <3>1. Last(s) = s[n] /\ lli[s[n]].llp = s[n]
      BY <1>1, <1>3 DEF Last, Linked
    <3> QED
      BY <3>1
  <2>2. ASSUME NEW i \in 2..n PROVE step(SubSeq(s, 1, i - 1)) = SubSeq(s, 1, i)
    <3> PICK q : q = SubSeq(s, 1, i - 1)
      OBVIOUS
    <3>1. q \in Seq(Desc) /\ Len(q) = i - 1 /\ q[i - 1] = s[i - 1]
      BY <1>1
    <3>2. Last(q) = s[i - 1] /\ i - 1 \in 1..n /\ i \in 1..n /\ i - 1 # n /\ (i - 1) + 1 = i
      BY <1>1, <3>1 DEF Last
    <3>3. lli[Last(q)].llp = s[i] /\ s[i] \in Desc /\ s[i] # s[i - 1]
      BY <1>1, <3>2 DEF Linked, IsInjective
    <3>4. Append(q, s[i]) = SubSeq(s, 1, i)
      BY <1>1
    <3> QED
      BY <1>1, <3>2, <3>3, <3>4
  <2>3. SubSeq(s, 1, 1) = <<h>> /\ SubSeq(s, 1, n) = s
    <3> PICK q : q = SubSeq(s, 1, 1)
      OBVIOUS
    <3>1. q \in Seq(Desc) /\ Len(q) = 1 /\ q[1] = h
      BY <1>1, <2>0
    <3>2. q = <<h>>
      <4>1. q = [i \in 1..1 |-> h] /\ <<h>> = [i \in 1..1 |-> h]
        BY <3>1
      <4> QED
        BY <4>1
    <3>3. SubSeq(s, 1, n) = s
      BY <1>1
    <3> QED
      BY <3>2, <3>3
  <2> HIDE DEF step
  <2>4. ASSUME NEW i \in Desc, i # 1 PROVE upTo(i) = step(upTo(i - 1))
    <3>0. i \in 2..NumDesc
      BY <2>4 DEF Desc
    <3>1. CASE i <= n
      <4>1. i \in 2..n /\ upTo(i) = SubSeq(s, 1, i) /\ upTo(i - 1) = SubSeq(s, 1, i - 1)
        BY <1>1, <2>3, <3>0, <3>1
      <4> QED
        BY <2>2, <4>1
    <3>2. CASE ~(i <= n)
      <4>1. upTo(i) = s /\ upTo(i - 1) = s
        BY <1>1, <3>0, <3>2
      <4> QED
        BY <2>1, <4>1
    <3> QED
      BY <3>1, <3>2
  <2>5. upTo(1) = <<h>>
    BY <1>1, <2>0, <2>3
  <2>6. NumDesc \in Desc /\ upTo(NumDesc) = s
    BY <1>1 DEF Desc
  <2> HIDE DEF upTo
  <2>7. g = [i \in Desc |-> IF i = 1 THEN <<h>> ELSE step(g[i - 1])]
    <3>1. \A i \in Desc : i # 1 => i - 1 \in Desc
      BY DmaAssumption DEF Desc
    <3> QED
      BY <2>4, <2>5, <3>1
  <2>8. met = [i \in Desc |-> IF i = 1 THEN <<h>> ELSE step(met[i - 1])]
    <3> HIDE DEF g
    <3> QED
      BY <2>7 DEF met
  <2> HIDE DEF met
  <2>9. \A i \in Desc : met[i] = upTo(i)
    <3> DEFINE S == {i \in Nat : i + 1 <= NumDesc => met[i + 1] = upTo(i + 1)}
    <3>1. 0 \in S
      BY <1>1, <2>5, <2>8 DEF Desc
    <3>2. ASSUME NEW i \in S PROVE i + 1 \in S
      <4> SUFFICES ASSUME (i + 1) + 1 <= NumDesc PROVE met[(i + 1) + 1] = upTo((i + 1) + 1)
        OBVIOUS
      <4>1. /\ (i + 1) + 1 \in Desc /\ (i + 1) + 1 # 1 /\ ((i + 1) + 1) - 1 = i + 1
            /\ met[i + 1] = upTo(i + 1)
        BY <1>1 DEF Desc
      <4>2. met[(i + 1) + 1] = step(met[((i + 1) + 1) - 1])
        BY <2>8, <4>1
      <4> QED
        BY <2>4, <4>1, <4>2
    <3>3. S = Nat
      <4>1. S \in SUBSET Nat
        OBVIOUS
      <4> HIDE DEF S
      <4> QED
        BY <3>1, <3>2, <4>1, SetInduction
    <3>4. \A i \in Desc : i - 1 \in Nat /\ (i - 1) + 1 = i /\ i <= NumDesc
      BY <1>1 DEF Desc
    <3> QED
      BY <3>3, <3>4
  <2>10. met[NumDesc] = s
    BY <2>6, <2>9
  <2> QED
    BY <2>0, <2>10 DEF Chain, met, step
<1> QED
  BY <1>2, <1>3

-----------------------------------------------------------------------------
(* What malloc_LLI returns. *)
LEMMA RankExists ==
  ASSUME NEW U \in SUBSET Nat, IsFiniteSet(U), NEW k \in Nat, k < Cardinality(U)
  PROVE  \E d \in U : Cardinality({e \in U : e < d}) = k
<1> DEFINE Below(d) == {e \in U : e < d}
           S == {n \in Nat : n < Cardinality(U) => \E d \in U : Cardinality(Below(d)) = n}
<1>0. Cardinality(U) \in Nat /\ \A d : IsFiniteSet(Below(d)) /\ Cardinality(Below(d)) \in Nat
  <2>1. \A d : Below(d) \in SUBSET U
    OBVIOUS
  <2> QED
    BY <2>1, FS_Subset, FS_CardinalityType
<1>1. 0 \in S
  <2> SUFFICES ASSUME 0 < Cardinality(U) PROVE \E d \in U : Cardinality(Below(d)) = 0
    OBVIOUS
  <2>1. U # {}
    BY FS_EmptySet
  <2>2. PICK d \in U : \A e \in U : ~(e < d)
    BY <2>1, SmallestNumber
  <2>3. Below(d) = {}
    BY <2>2
  <2> QED
    BY <2>3, FS_EmptySet
<1>2. ASSUME NEW n \in S PROVE n + 1 \in S
  <2> SUFFICES ASSUME n + 1 < Cardinality(U) PROVE \E d \in U : Cardinality(Below(d)) = n + 1
    OBVIOUS
  <2>1. n \in Nat /\ n < Cardinality(U)
    BY <1>0
  <2>2. PICK d \in U : Cardinality(Below(d)) = n
    BY <2>1
  <2> DEFINE T == {e \in U : d < e}
             B == Below(d) \cup {d}
  <2>3. d \notin Below(d) /\ IsFiniteSet(B) /\ Cardinality(B) = n + 1
    <3>1. d \notin Below(d)
      BY <2>2
    <3> PICK X : X = Below(d)
      OBVIOUS
    <3>2. IsFiniteSet(X) /\ d \notin X /\ Cardinality(X) = n
      BY <1>0, <2>2, <3>1
    <3>3. IsFiniteSet(X \cup {d}) /\ Cardinality(X \cup {d}) = n + 1
      BY <3>2, FS_AddElement
    <3> QED
      BY <3>1, <3>3
  <2>4. T # {}
    <3>0. \A e \in U : e < d \/ e = d \/ d < e
      BY <2>2
    <3>1. U = B \cup T
      BY <2>2, <3>0
    <3>2. B # U
      BY <2>1, <2>3
    <3> QED
      BY <3>1, <3>2
  <2>5. PICK x \in T : \A y \in T : ~(y < x)
    <3>1. T \in SUBSET Nat
      OBVIOUS
    <3> QED
      BY <2>4, <3>1, SmallestNumber
  <2>6. Below(x) = B
    <3>1. x \in U /\ d < x /\ \A y \in U : d < y => ~(y < x)
      BY <2>5
    <3>2. \A e \in U : e < x <=> e < d \/ e = d
      BY <3>1, <2>2
    <3> QED
      BY <2>2, <3>2
  <2> QED
    BY <2>3, <2>5, <2>6
<1>3. S = Nat
  <2>1. S \in SUBSET Nat
    OBVIOUS
  <2> HIDE DEF S
  <2> QED
    BY <1>1, <1>2, <2>1, SetInduction
<1> QED
  BY <1>3

LEMMA FreshDescriptors ==
  ASSUME used \in SUBSET Desc, NEW n \in Nat, n <= Cardinality(Desc \ used)
  PROVE  /\ malloc_LLI(n) \in Seq(Desc) /\ Len(malloc_LLI(n)) = n
         /\ IsInjective(malloc_LLI(n))
         /\ \A i \in 1..n : malloc_LLI(n)[i] \in Desc \ used
<1> DEFINE U == Desc \ used
           rank(d) == Cardinality({e \in U : e < d})
           f == malloc_LLI(n)
<1>1. U \in SUBSET Nat /\ IsFiniteSet(U) /\ Cardinality(U) \in Nat
  BY DescFacts, FS_Subset, FS_CardinalityType
<1>2. f = [i \in 1..n |-> CHOOSE d \in U : rank(d) = i - 1]
  BY DEF malloc_LLI
<1>3. ASSUME NEW i \in 1..n PROVE f[i] \in U /\ rank(f[i]) = i - 1
  <2>1. i - 1 \in Nat /\ i - 1 < Cardinality(U)
    BY <1>1
  <2>2. \E d \in U : rank(d) = i - 1
    <3> HIDE DEF U
    <3> QED
      BY <1>1, <2>1, RankExists
  <2> HIDE DEF U, rank
  <2> QED
    BY <1>2, <2>2
<1> HIDE DEF rank, f
<1>4. f \in Seq(Desc) /\ Len(f) = n /\ DOMAIN f = 1..n
  BY <1>2, <1>3
<1>5. IsInjective(f)
  BY <1>3, <1>4 DEF IsInjective
<1> QED
  BY <1>3, <1>4, <1>5 DEF f

-----------------------------------------------------------------------------
(* What dma_transfer_link makes of the open chain. *)
LEMMA Quotient ==
  ASSUME NEW a \in Nat, NEW b \in Nat \ {0}
  PROVE  a \div b \in Nat /\ b * (a \div b) <= a
  OBVIOUS

LEMMA Products == \A a, b \in Nat : a * b \in Nat
  OBVIOUS

LEMMA ChunksType == \A len \in Nat : Chunks(len) \in Nat \ {0}
<1> SUFFICES ASSUME NEW len \in Nat PROVE Chunks(len) \in Nat \ {0}
  OBVIOUS
<1>1. len \div MaxLength \in Nat
  BY Quotient, DmaAssumption
<1> QED
  BY <1>1 DEF Chunks

LEMMA SetupType ==
  ASSUME NEW len \in Nat, NEW t \in Seq(Desc), Len(t) = Chunks(len), NEW i \in 1..Len(t),
         NEW r \in Nat, NEW atEnd \in BOOLEAN, Len(Chain(head_lli)) \in Nat
  PROVE  lli_setup(len, t, i, r, atEnd) \in LLI
<1> DEFINE k == len \div MaxLength
<1>1. /\ k \in Nat /\ MaxLength * k <= len /\ MaxLength \in Nat \ {0} /\ Width \in Nat \ {0}
      /\ MaxLength * k \in Nat
  BY Quotient, Products, DmaAssumption
<1>2. Len(t) = k + 1
  BY DEF Chunks
<1> HIDE DEF k
<1>3. LengthOf(len, i) \in Nat
  <2>1. CASE i < k + 1
    BY <1>1, <1>2, <2>1 DEF LengthOf, Chunks, k
  <2>2. CASE i = k + 1
    <3>1. i - 1 = k
      BY <1>1, <2>2
    <3>2. LengthOf(len, i) = len - MaxLength * k
      BY <1>1, <2>2, <3>1 DEF LengthOf, Chunks, k
    <3> QED
      BY <1>1, <3>2
  <2> QED
    BY <1>1, <1>2, <2>1, <2>2
<1>4. LengthOf(len, i) \div Width \in Nat
  BY <1>1, <1>3, Quotient
<1>5. 4 * MaxLength * (i - 1) \in Nat
  <2>1. 4 * MaxLength \in Nat /\ i - 1 \in Nat
    BY <1>1
  <2> QED
    BY <2>1, Products
<1>6. NextLink(t, i) \in Desc
  BY DEF NextLink
<1>7. (atEnd /\ i = Len(t)) \in BOOLEAN /\ Len(Chain(head_lli)) + i \in Nat /\ 0 \in Nat
  OBVIOUS
<1> QED
  BY <1>4, <1>5, <1>6, <1>7 DEF lli_setup, LLI

AtEnd(w) == w.linked + 1 = Len(w.asked)

(* The new descriptors t, as they are behind those of s. *)
Appended(w, s, t) ==
  /\ t \in Seq(Desc) /\ IsInjective(t) /\ Len(t) # 0
  /\ \A i \in 1..Len(t) : t[i] \notin used
  /\ used' = used \cup {t[i] : i \in 1..Len(t)}
  /\ \A i \in 1..Len(t) : /\ lli'[t[i]].llp = IF i = Len(t) THEN t[i] ELSE t[i + 1]
                          /\ lli'[t[i]].pos = Len(s) + i
                          /\ lli'[t[i]].last <=> (AtEnd(w) /\ i = Len(t))
  /\ \A d \in Desc : (\A i \in 1..Len(t) : d # t[i]) =>
       lli'[d] = IF head_lli # NULL /\ d = last_lli THEN [lli[d] EXCEPT !.llp = t[1]] ELSE lli[d]
  /\ head_lli' = IF head_lli = NULL THEN t[1] ELSE head_lli
  /\ last_lli' = IF AtEnd(w) THEN last_lli ELSE t[Len(t)]

(* The i-th descriptor of copy r, of len bytes: where it reads and writes, *)
(* and how many units it moves.                                            *)
Piece(x, len, r, i) ==
  /\ x.req = r /\ x.from = 4 * MaxLength * (i - 1) /\ x.to = 0
  /\ x.ts = LengthOf(len, i) \div Width

(* The new descriptors move the next copy of w. *)
Pieces(w, t) ==
  /\ Len(t) = Chunks(w.asked[w.linked + 1])
  /\ \A i \in 1..Len(t) : Piece(lli'[t[i]], w.asked[w.linked + 1], w.linked + 1, i)

LEMMA LinkAppends ==
  ASSUME TypeOK, NEW w \in Works, w.asked \in Loads \cup Results, w.linked < Len(w.asked),
         dma_transfer_link(w), NEW s, Linked(lli, used, s, head_lli)
  PROVE  (\E t : Appended(w, s, t) /\ Pieces(w, t)) /\ lli' \in [Desc -> LLI]
<1> DEFINE r == w.linked + 1
           len == w.asked[r]
           n == Chunks(len)
           t == malloc_LLI(n)
           atEnd == r = Len(w.asked)
           set(i) == lli_setup(len, t, i, r, atEnd)
<1>1. w.asked \in Seq(Nat) /\ w.linked \in Nat /\ r \in 1..Len(w.asked) /\ len \in Nat /\ r \in Nat
  BY DmaAssumption DEF Works
<1>2. n \in Nat \ {0}
  BY <1>1, ChunksType
<1>3. /\ n <= Cardinality(Desc \ used)
      /\ lli' = [d \in Desc |->
           IF d \in ToSet(t) THEN LET i == CHOOSE i \in 1..n : t[i] = d IN set(i)
           ELSE IF head_lli # NULL /\ d = last_lli
                THEN [lli[d] EXCEPT !.llp = t[1]] ELSE lli[d]]
      /\ used' = used \cup ToSet(t)
      /\ head_lli' = IF head_lli = NULL THEN t[1] ELSE head_lli
      /\ last_lli' = IF atEnd THEN last_lli ELSE t[n]
  <2>1. IsFiniteSet(Desc \ used)
    BY DescFacts, FS_Subset
  <2>2. Cardinality(Desc \ used) >= n /\ Cardinality(Desc \ used) \in Nat
    BY <2>1, FS_CardinalityType DEF dma_transfer_link
  <2> QED
    BY <1>2, <2>2 DEF dma_transfer_link
<1>4. /\ t \in Seq(Desc) /\ Len(t) = n /\ IsInjective(t)
      /\ \A i \in 1..n : t[i] \in Desc /\ t[i] \notin used
  <2>1. used \in SUBSET Desc
    BY DEF TypeOK
  <2> HIDE DEF t
  <2> QED
    BY <1>2, <1>3, <2>1, FreshDescriptors DEF t
<1>5. Len(Chain(head_lli)) = Len(s) /\ Len(s) \in Nat
  BY ChainIs DEF Linked
<1> HIDE DEF t, n
<1>6. ToSet(t) = {t[i] : i \in 1..n} /\ t[1] \in Desc
  BY <1>2, <1>4 DEF ToSet
<1>7. \A i \in 1..n : (CHOOSE j \in 1..n : t[j] = t[i]) = i
  BY <1>4 DEF IsInjective
<1>8. \A i \in 1..n : lli'[t[i]] = set(i)
  <2> HIDE DEF set, len, r, atEnd
  <2> SUFFICES ASSUME NEW i \in 1..n PROVE lli'[t[i]] = set(i)
    OBVIOUS
  <2> QED
    BY <1>3, <1>4, <1>6, <1>7
<1>9. \A i \in 1..n : set(i) \in LLI
  BY <1>1, <1>4, <1>5, SetupType DEF n
<1>10. \A i \in 1..n : /\ set(i).llp = IF i = n THEN t[i] ELSE t[i + 1]
                       /\ set(i).pos = Len(s) + i
                       /\ set(i).last <=> (atEnd /\ i = n)
  <2> SUFFICES ASSUME NEW i \in 1..n
               PROVE  /\ set(i).llp = IF i = n THEN t[i] ELSE t[i + 1]
                      /\ set(i).pos = Len(s) + i
                      /\ set(i).last <=> (atEnd /\ i = n)
    OBVIOUS
  <2>1. NextLink(t, i) = IF i = n THEN t[i] ELSE t[i + 1]
    BY <1>2, <1>4 DEF NextLink
  <2>2. /\ set(i).llp = NextLink(t, i) /\ set(i).pos = Len(Chain(head_lli)) + i
        /\ set(i).last = (atEnd /\ i = Len(t))
    BY DEF lli_setup
  <2> HIDE DEF set, len, r, atEnd
  <2> QED
    BY <1>4, <1>5, <2>1, <2>2
<1>11. \A d \in Desc : (\A i \in 1..n : d # t[i]) =>
         lli'[d] = IF head_lli # NULL /\ d = last_lli THEN [lli[d] EXCEPT !.llp = t[1]] ELSE lli[d]
  <2> HIDE DEF set, len, r, atEnd
  <2> QED
    BY <1>3, <1>6
<1>12. lli' \in [Desc -> LLI]
  <2>1. ASSUME NEW d \in Desc PROVE lli'[d] \in LLI
    <3> HIDE DEF set, len, r, atEnd
    <3>1. CASE \E i \in 1..n : d = t[i]
      BY <1>8, <1>9, <3>1
    <3>2. CASE \A i \in 1..n : d # t[i]
      <4>1. lli[d] \in LLI /\ [lli[d] EXCEPT !.llp = t[1]] \in LLI
        BY <1>6 DEF TypeOK, LLI
      <4> QED
        BY <1>11, <3>2, <4>1
    <3> QED
      BY <3>1, <3>2
  <2>2. lli' = [d \in Desc |-> lli'[d]]
    <3> HIDE DEF set, len, r, atEnd
    <3> QED
      BY <1>3
  <2> QED
    BY <2>1, <2>2
<1>13. Appended(w, s, t)
  <2>1. atEnd <=> AtEnd(w)
    BY DEF AtEnd
  <2> HIDE DEF set, len, r, atEnd
  <2> QED
    BY <1>2, <1>3, <1>4, <1>6, <1>8, <1>10, <1>11, <2>1, SMTT(30) DEF Appended
<1>14. Pieces(w, t)
  <2>1. \A i \in 1..n : Piece(set(i), len, r, i)
    BY DEF Piece, lli_setup
  <2> HIDE DEF set
  <2> QED
    BY <1>4, <1>8, <2>1 DEF Pieces, n
<1> QED
  BY <1>12, <1>13, <1>14

(* The chain g = s \o t is linked, and marked if this was the last call.   *)
Grown(w, s, t, g) ==
  /\ Linked(lli', used', g, head_lli') /\ Len(g) # 0
  /\ AtEnd(w) => Marked(lli', g)
  /\ ~AtEnd(w) => Unmarked(lli', g) /\ last_lli' = g[Len(g)]
  /\ \A d : (\E i \in 1..Len(g) : d = g[i])
              <=> (\E i \in 1..Len(s) : d = s[i]) \/ (\E i \in 1..Len(t) : d = t[i])

LEMMA GrownChain ==
  ASSUME TypeOK, NEW w, NEW s, NEW t, Linked(lli, used, s, head_lli), Appended(w, s, t),
         Unmarked(lli, s), Len(s) # 0 => last_lli = s[Len(s)]
  PROVE  Grown(w, s, t, s \o t)
<1> PICK g : g = s \o t
  OBVIOUS
<1> PICK m : m = Len(s)
  OBVIOUS
<1> PICK n : n = Len(t)
  OBVIOUS
<1>1. /\ s \in Seq(Desc) /\ t \in Seq(Desc) /\ m \in Nat /\ n \in Nat \ {0}
      /\ \A i \in 1..m : s[i] \in Desc /\ s[i] \in used
      /\ \A i \in 1..n : t[i] \in Desc /\ t[i] \notin used
  BY DEF Linked, Appended
<1>2. /\ g \in Seq(Desc) /\ Len(g) = m + n
      /\ \A i \in 1..m : g[i] = s[i]
      /\ \A i \in (m + 1)..(m + n) : g[i] = t[i - m]
  BY <1>1
<1>0. 1..Len(g) = 1..(m + n)
  BY <1>2
<1>3. \A i \in 1..(m + n) : i \in 1..m \/ (i \in (m + 1)..(m + n) /\ i - m \in 1..n)
  BY <1>1
<1>4. IsInjective(g)
  <2>1. /\ \A i, j \in 1..m : s[i] = s[j] => i = j
        /\ \A i, j \in 1..n : t[i] = t[j] => i = j
    BY <1>1 DEF Linked, Appended, IsInjective
  <2> SUFFICES ASSUME NEW i \in 1..(m + n), NEW j \in 1..(m + n), g[i] = g[j] PROVE i = j
    <3>1. DOMAIN g = 1..(m + n)
      BY <1>1, <1>2
    <3> QED
      BY <3>1 DEF IsInjective
  <2>2. CASE i \in 1..m /\ j \in 1..m
    BY <1>2, <2>1, <2>2
  <2>3. CASE i \in 1..m /\ ~(j \in 1..m)
    BY <1>1, <1>2, <1>3, <2>3
  <2>4. CASE ~(i \in 1..m) /\ j \in 1..m
    BY <1>1, <1>2, <1>3, <2>4
  <2>5. CASE ~(i \in 1..m) /\ ~(j \in 1..m)
    <3>1. i - m \in 1..n /\ j - m \in 1..n /\ t[i - m] = t[j - m]
      BY <1>2, <1>3, <2>5
    <3>2. i - m = j - m
      BY <2>1, <3>1
    <3> QED
      BY <1>1, <3>2
  <2> QED
    BY <2>2, <2>3, <2>4, <2>5
<1>5. \A i \in 1..(m + n) : g[i] \in used'
  BY <1>1, <1>2, <1>3 DEF Appended
<1>6. head_lli' = IF Len(g) = 0 THEN NULL ELSE g[1]
  <2>1. CASE m = 0
    <3>1. head_lli = NULL /\ g[1] = t[1] /\ 1 - m = 1 /\ 1 \in (m + 1)..(m + n)
      BY <1>1, <1>2, <2>1 DEF Linked
    <3> QED
      BY <1>1, <1>2, <3>1 DEF Appended
  <2>2. CASE m # 0
    <3>1. 1 \in 1..m /\ head_lli = s[1] /\ head_lli # NULL /\ g[1] = s[1]
      BY <1>1, <1>2, <2>2, DescFacts DEF Linked
    <3> QED
      BY <1>1, <1>2, <3>1 DEF Appended
  <2> QED
    BY <2>1, <2>2
<1>7. ASSUME NEW i \in 1..m
      PROVE  /\ lli'[g[i]].llp = g[i + 1] /\ lli'[g[i]].pos = i
             /\ ~lli'[g[i]].last
  <2>1. /\ g[i] = s[i] /\ s[i] \in Desc /\ \A j \in 1..n : s[i] # t[j]
        /\ lli[s[i]].pos = i /\ ~lli[s[i]].last /\ lli[s[i]] \in LLI
        /\ head_lli # NULL /\ last_lli = s[m] /\ m \in 1..m
    <3>1. s[i] \in Desc /\ s[i] \in used /\ m \in 1..m /\ m # 0 /\ 1 \in 1..m
      BY <1>1
    <3>2. \A j \in 1..n : s[i] # t[j]
      BY <1>1, <3>1
    <3>3. lli[s[i]].pos = i /\ ~lli[s[i]].last
      BY DEF Linked, Unmarked
    <3>4. lli[s[i]] \in LLI
      BY <3>1 DEF TypeOK
    <3>5. head_lli # NULL /\ last_lli = s[m]
      BY <1>1, <3>1, DescFacts DEF Linked
    <3> QED
      BY <1>2, <3>1, <3>2, <3>3, <3>4, <3>5
  <2>2. CASE i = m
    <3>1. lli'[s[i]] = [lli[s[i]] EXCEPT !.llp = t[1]]
      BY <2>1, <2>2 DEF Appended
    <3>2. g[i + 1] = t[1]
      <4>1. i + 1 \in (m + 1)..(m + n) /\ (i + 1) - m = 1
        BY <1>1, <2>2
      <4> QED
        BY <1>2, <4>1
    <3> QED
      BY <2>1, <3>1, <3>2 DEF LLI
  <2>3. CASE i # m
    <3>1. s[i] # last_lli
      BY <2>1, <2>3, <1>1 DEF Linked, IsInjective
    <3>2. lli'[s[i]] = lli[s[i]]
      BY <2>1, <3>1 DEF Appended
    <3>3. lli[s[i]].llp = s[i + 1] /\ i + 1 \in 1..m
      BY <1>1, <2>3 DEF Linked
    <3> QED
      BY <1>2, <2>1, <3>2, <3>3
  <2> QED
    BY <2>2, <2>3
<1>8. ASSUME NEW i \in (m + 1)..(m + n)
      PROVE  /\ lli'[g[i]].llp = IF i = m + n THEN g[i] ELSE g[i + 1]
             /\ lli'[g[i]].pos = i
             /\ lli'[g[i]].last <=> (AtEnd(w) /\ i = m + n)
  <2> PICK k \in 1..n : k = i - m
    BY <1>1
  <2>1. g[i] = t[k] /\ (k = n <=> i = m + n) /\ m + k = i
    <3>1. g[i] = t[k]
      BY <1>2
    <3>2. (k = n <=> i = m + n) /\ m + k = i
      BY <1>1
    <3> QED
      BY <3>1, <3>2
  <2>2. k # n => g[i + 1] = t[k + 1]
    <3>1. k # n => i + 1 \in (m + 1)..(m + n) /\ (i + 1) - m = k + 1
      <4>0. n \in Nat
        BY <1>1
      <4>1. k # n => k + 1 \in 1..n
        BY <4>0
      <4>2. i = m + k
        BY <1>1
      <4> QED
        BY <1>1, <4>1, <4>2
    <3> QED
      BY <1>2, <3>1
  <2> QED
    BY <2>1, <2>2, SMTT(30) DEF Appended
<1>9. Linked(lli', used', g, head_lli')
  <2>1. \A i \in 1..m : i # m + n
    BY <1>1
  <2>2. \A i \in 1..(m + n) : /\ lli'[g[i]].llp = IF i = m + n THEN g[i] ELSE g[i + 1]
                              /\ lli'[g[i]].pos = i
    BY <1>3, <1>7, <1>8, <2>1
  <2>3. \A i \in 1..Len(g) : g[i] \in used'
    BY <1>5, <1>0
  <2>4. \A i \in 1..Len(g) : /\ lli'[g[i]].llp = IF i = Len(g) THEN g[i] ELSE g[i + 1]
                             /\ lli'[g[i]].pos = i
    <3>1. Len(g) = m + n
      BY <1>2, <1>0
    <3> QED
      BY ONLY <2>2, <3>1
  <2>5. g \in Seq(Desc) /\ IsInjective(g)
    BY <1>2, <1>4
  <2> QED
    BY <1>6, <2>3, <2>4, <2>5, Zenon DEF Linked
<1>10. AtEnd(w) => Marked(lli', g)
  <2>1. \A i \in 1..m : i # m + n
    BY <1>1
  <2>2. AtEnd(w) => \A i \in 1..(m + n) : lli'[g[i]].last <=> i = m + n
    BY <1>3, <1>7, <1>8, <2>1
  <2>3. Len(g) = m + n
    BY <1>2
  <2> QED
    BY ONLY <2>2, <2>3 DEF Marked
<1>11. ~AtEnd(w) => Unmarked(lli', g)
  BY <1>2, <1>3, <1>7, <1>8 DEF Unmarked
<1>12. ~AtEnd(w) => last_lli' = g[Len(g)]
  <2>1. m + n \in (m + 1)..(m + n) /\ (m + n) - m = n
    BY <1>1
  <2>2. g[Len(g)] = t[n]
    BY <1>2, <2>1
  <2> QED
    BY <2>2 DEF Appended
<1>13. ASSUME NEW d
       PROVE  (\E i \in 1..(m + n) : d = g[i])
                <=> (\E i \in 1..m : d = s[i]) \/ (\E i \in 1..n : d = t[i])
  <2>1. ASSUME NEW i \in 1..(m + n), d = g[i]
        PROVE  (\E j \in 1..m : d = s[j]) \/ (\E j \in 1..n : d = t[j])
    BY <1>2, <1>3, <2>1
  <2>2. ASSUME NEW i \in 1..m, d = s[i] PROVE \E j \in 1..(m + n) : d = g[j]
    <3>1. i \in 1..(m + n)
      BY <1>1
    <3> QED
      BY <1>2, <2>2, <3>1
  <2>3. ASSUME NEW i \in 1..n, d = t[i] PROVE \E j \in 1..(m + n) : d = g[j]
    <3>1. i + m \in 1..(m + n) /\ i + m \in (m + 1)..(m + n) /\ (i + m) - m = i
      BY <1>1
    <3> QED
      BY <1>2, <2>3, <3>1
  <2> QED
    BY <2>1, <2>2, <2>3
<1>14. Len(g) # 0
  BY <1>1, <1>2
<1>15. \A d : (\E i \in 1..Len(g) : d = g[i])
                 <=> (\E i \in 1..m : d = s[i]) \/ (\E i \in 1..n : d = t[i])
  BY <1>13, <1>0
<1> QED
  BY <1>9, <1>10, <1>11, <1>12, <1>14, <1>15 DEF Grown

-----------------------------------------------------------------------------
(* What a step makes of all the chains. *)
LEMMA LinkedFrame ==
  ASSUME NEW m, NEW u, NEW s, NEW h, NEW m2, NEW u2, Linked(m, u, s, h),
         \A i \in 1..Len(s) : s[i] \in u2 /\ m2[s[i]] = m[s[i]]
  PROVE  Linked(m2, u2, s, h)
  BY DEF Linked

LEMMA ActiveOwners ==
  ASSUME NEW q, ChainsAre(q)
  PROVE  /\ \A o \in Owners : q[o] \in Seq(Desc) /\ Len(q[o]) \in Nat
         /\ \A o \in Owners : \A i \in 1..Len(q[o]) : q[o][i] \in Desc /\ q[o][i] \in used
         /\ \A c \in Channels \ Active : Len(q[c]) = 0
         /\ \A c \in Active : c \in Channels /\ c \in Owners /\ c # Open
<1>1. \A o \in Owners : q[o] \in Seq(Desc) /\ Linked(lli, used, q[o], HeadOf(o))
  BY DEF ChainsAre
<1>2. ASSUME NEW c \in Channels \ Active PROVE Len(q[c]) = 0
  <2>1. c \in Owners /\ HeadOf(c) = NULL
    BY DescFacts DEF HeadOf, Active, NoCarry
  <2>2. Len(q[c]) # 0 => NULL \in Desc
    BY <1>1, <2>1 DEF Linked
  <2> QED
    BY <2>2, DescFacts
<1> QED
  BY <1>1, <1>2, DescFacts DEF Linked, Active

(* The chains are where they were. *)
LEMMA ChainsStay ==
  ASSUME NEW q, ChainsAre(q), UNCHANGED <<lli, used, last_lli>>, Active' = Active,
         \A o \in Owners : HeadOf(o)' = HeadOf(o), Complete' <=> Complete
  PROVE  ChainsAre(q)'
  BY DEF ChainsAre, OpenIs

(* Linking more descriptors to the open chain leaves the others alone.     *)
OthersUntouched(q, t) ==
  \A o \in Owners : o # Open => \A i \in 1..Len(q[o]) :
    /\ q[o][i] \in used' /\ lli'[q[o][i]] = lli[q[o][i]]
    /\ \A j \in 1..Len(q[Open]) : q[o][i] # q[Open][j]
    /\ \A j \in 1..Len(t) : q[o][i] # t[j]

LEMMA OthersKept ==
  ASSUME TypeOK, NEW q, ChainsAre(q), pc # "record", ~Complete,
         NEW w, NEW t, Appended(w, q[Open], t)
  PROVE  OthersUntouched(q, t)
<1> SUFFICES ASSUME NEW o \in Owners, o # Open, NEW i \in 1..Len(q[o])
             PROVE  /\ q[o][i] \in used' /\ lli'[q[o][i]] = lli[q[o][i]]
                    /\ \A j \in 1..Len(q[Open]) : q[o][i] # q[Open][j]
                    /\ \A j \in 1..Len(t) : q[o][i] # t[j]
  BY DEF OthersUntouched
<1> PICK s : s = q[Open]
  OBVIOUS
<1> PICK d : d = q[o][i]
  OBVIOUS
<1>1. Linked(lli, used, s, head_lli) /\ (Len(s) # 0 => last_lli = s[Len(s)]) /\ Appended(w, s, t)
  BY DescFacts DEF ChainsAre, HeadOf, OpenIs
<1>2. d \in Desc /\ d \in used /\ \A j \in 1..Len(t) : d # t[j]
  BY <1>1, ActiveOwners DEF Appended
<1>3. \A j \in 1..Len(s) : d # s[j]
  BY DescFacts DEF ChainsAre, Disjoint
<1>4. d \in used'
  BY <1>1, <1>2 DEF Appended
<1>5. ~(head_lli # NULL /\ d = last_lli)
  <2>1. head_lli # NULL => Len(s) # 0 /\ Len(s) \in 1..Len(s)
    BY <1>1 DEF Linked
  <2> QED
    BY <1>1, <1>3, <2>1
<1>6. lli'[d] = lli[d]
  BY <1>1, <1>2, <1>5 DEF Appended
<1> QED
  BY <1>2, <1>3, <1>4, <1>6

(* The open chain grows. *)
LEMMA ChainsGrown ==
  ASSUME TypeOK, NEW q, ChainsAre(q), ~Complete, pc # "record", NEW w,
         carry' = carry, pc' # "record", Complete' <=> AtEnd(w),
         NEW t, Appended(w, q[Open], t)
  PROVE  \E p : ChainsAre(p)'
<1>0. OthersUntouched(q, t)
  BY OthersKept
<1> PICK s : s = q[Open]
  OBVIOUS
<1> PICK g : g = s \o t
  OBVIOUS
<1> PICK p : p = [q EXCEPT ![Open] = g]
  OBVIOUS
<1>1. /\ s \in Seq(Desc) /\ t \in Seq(Desc) /\ Linked(lli, used, s, head_lli)
      /\ Unmarked(lli, s) /\ (Len(s) # 0 => last_lli = s[Len(s)])
      /\ Appended(w, s, t)
  BY DescFacts DEF ChainsAre, HeadOf, OpenIs, Appended
<1>2. Grown(w, s, t, g)
  BY <1>1, GrownChain
<1>3. p[Open] = g /\ (\A o \in Owners : o # Open => p[o] = q[o]) /\ p \in [Owners -> Seq(Desc)]
  <2>1. q \in [Owners -> Seq(Desc)] /\ g \in Seq(Desc)
    BY <1>1 DEF ChainsAre
  <2> QED
    BY <2>1, DescFacts
<1>4. Active' = Active /\ \A o \in Owners : o # Open => HeadOf(o)' = HeadOf(o)
  BY DEF Active, HeadOf
<1>5. HeadOf(Open)' = head_lli'
  BY DEF HeadOf
<1>6. ASSUME NEW o \in Owners, o # Open, NEW i \in 1..Len(q[o])
      PROVE  q[o][i] \in used' /\ lli'[q[o][i]] = lli[q[o][i]] /\ \A j \in 1..Len(g) : q[o][i] # g[j]
  <2>1. /\ q[o][i] \in used' /\ lli'[q[o][i]] = lli[q[o][i]]
        /\ (\A j \in 1..Len(q[Open]) : q[o][i] # q[Open][j])
        /\ \A j \in 1..Len(t) : q[o][i] # t[j]
    BY <1>6, <1>0 DEF OthersUntouched
  <2> QED
    BY <1>2, <2>1 DEF Grown
<1>7. ASSUME NEW o \in Owners PROVE Linked(lli', used', p[o], HeadOf(o)')
  <2>1. CASE o = Open
    BY <1>2, <1>3, <1>5, <2>1 DEF Grown
  <2>2. CASE o # Open
    <3>1. Linked(lli, used, q[o], HeadOf(o))
      BY DEF ChainsAre
    <3> QED
      BY <1>3, <1>4, <1>6, <2>2, <3>1, LinkedFrame
  <2> QED
    BY <2>1, <2>2
<1>8. ASSUME NEW o \in Owners, NEW x \in Owners, o # x PROVE Disjoint(p[o], p[x])
  <2>0. \A y \in Owners : y # Open =>
          \A i \in 1..Len(q[y]) : \A j \in 1..Len(g) : q[y][i] # g[j]
    BY <1>6
  <2>1. CASE o = Open
    <3>1. p[o] = g /\ p[x] = q[x] /\ x # Open
      BY <1>3, <1>8, <2>1
    <3> QED
      BY ONLY o \in Owners, x \in Owners, <2>0, <3>1 DEF Disjoint
  <2>2. CASE x = Open
    <3>1. p[x] = g /\ p[o] = q[o] /\ o # Open
      BY <1>3, <1>8, <2>2
    <3> QED
      BY ONLY o \in Owners, x \in Owners, <2>0, <3>1 DEF Disjoint
  <2>3. CASE o # Open /\ x # Open
    BY <1>3, <1>8, <2>3 DEF ChainsAre
  <2> QED
    BY <2>1, <2>2, <2>3
<1>9. ASSUME NEW c \in Active PROVE Len(p[c]) # 0 /\ Marked(lli', p[c])
  <2>0. c \in Owners /\ c # Open
    BY ActiveOwners
  <2>1. c \in Owners /\ c # Open /\ p[c] = q[c] /\ Len(q[c]) # 0 /\ Marked(lli, q[c])
    BY <1>3, <2>0 DEF ChainsAre
  <2> QED
    BY <1>6, <2>1 DEF Marked
<1>10. OpenIs(p[Open])'
  BY <1>2, <1>3 DEF OpenIs, Grown
<1>11. ASSUME NEW d \in used'
       PROVE  lli'[d].pos > 2 \/ \E o \in Owners : \E i \in 1..Len(p[o]) : d = p[o][i]
  <2>1. CASE \E i \in 1..Len(t) : d = t[i]
    <3>1. \E i \in 1..Len(p[Open]) : d = p[Open][i]
      BY <1>2, <1>3, <2>1 DEF Grown
    <3> QED
      BY <3>1, DescFacts
  <2>2. CASE \A i \in 1..Len(t) : d # t[i]
    <3>1. d \in used /\ d \in Desc
      BY <1>1, <2>2 DEF Appended, TypeOK
    <3>2. lli'[d].pos = lli[d].pos
      <4>1. lli[d] \in LLI
        BY <3>1 DEF TypeOK
      <4>2. lli'[d] = lli[d] \/ lli'[d] = [lli[d] EXCEPT !.llp = t[1]]
        BY <1>1, <2>2, <3>1 DEF Appended
      <4> QED
        BY <4>1, <4>2 DEF LLI
    <3>3. CASE lli[d].pos > 2
      BY <3>2, <3>3
    <3>4. CASE ~(lli[d].pos > 2)
      <4>1. PICK o \in Owners : \E i \in 1..Len(q[o]) : d = q[o][i]
        BY <3>1, <3>4 DEF ChainsAre
      <4>2. \E i \in 1..Len(p[o]) : d = p[o][i]
        BY <1>2, <1>3, <4>1 DEF Grown
      <4> QED
        BY <4>2
    <3> QED
      BY <3>3, <3>4
  <2> QED
    BY <2>1, <2>2
<1>12. ChainsAre(p)'
  BY <1>3, <1>4, <1>7, <1>8, <1>9, <1>10, <1>11 DEF ChainsAre
<1> QED
  BY <1>12

(* The open chain becomes that of channel c. *)
LEMMA ChainsHanded ==
  ASSUME DOMAIN carry = Channels, NEW q, ChainsAre(q), Complete, pc # "record", ~Complete',
         UNCHANGED <<lli, used>>, NEW c \in Channels, c \notin Active, NEW asked, asked # <<>>,
         carry' = [carry EXCEPT ![c] = [lli |-> head_lli, asked |-> asked]],
         HeadOf(Open)' = NULL
  PROVE  \E p : ChainsAre(p)'
<1> PICK s : s = q[Open]
  OBVIOUS
<1> PICK p : p = [q EXCEPT ![c] = s, ![Open] = <<>>]
  OBVIOUS
<1>1. /\ s \in Seq(Desc) /\ Linked(lli, used, s, head_lli) /\ Len(s) # 0 /\ Marked(lli, s)
  BY DescFacts DEF ChainsAre, HeadOf, OpenIs
<1>2. /\ p \in [Owners -> Seq(Desc)] /\ p[c] = s /\ p[Open] = <<>> /\ c # Open /\ c \in Owners
      /\ \A o \in Owners : o # c /\ o # Open => p[o] = q[o]
  <2>1. q \in [Owners -> Seq(Desc)] /\ c \in Owners /\ Open \in Owners /\ c # Open
    BY DescFacts DEF ChainsAre
  <2> QED
    BY <1>1, <2>1
<1>3. /\ Active' = Active \cup {c} /\ carry'[c].lli = head_lli
      /\ \A x \in Channels \ {c} : carry'[x] = carry[x]
  BY Given
<1>4. /\ HeadOf(c)' = head_lli
      /\ \A o \in Owners : o # c /\ o # Open => HeadOf(o)' = HeadOf(o)
  BY <1>2, <1>3, DescFacts DEF HeadOf
<1>5. Len(q[c]) = 0 /\ Len(p[Open]) = 0
  BY <1>2, ActiveOwners
<1>6. ASSUME NEW o \in Owners PROVE Linked(lli, used, p[o], HeadOf(o)')
  <2>1. CASE o = c
    BY <1>1, <1>2, <1>4, <2>1
  <2>2. CASE o = Open
    BY <1>2, <2>2 DEF Linked, IsInjective
  <2>3. CASE o # c /\ o # Open
    BY <1>2, <1>4, <2>3 DEF ChainsAre
  <2> QED
    BY <2>1, <2>2, <2>3
<1>7. ASSUME NEW o \in Owners, NEW x \in Owners, o # x PROVE Disjoint(p[o], p[x])
  <2>1. CASE o = Open \/ x = Open
    <3>1. CASE o = Open
      BY <1>5, <3>1 DEF Disjoint
    <3>2. CASE x = Open
      BY <1>5, <3>2 DEF Disjoint
    <3> QED
      BY <2>1, <3>1, <3>2
  <2>2. CASE o = c /\ x # Open
    <3>1. Disjoint(q[Open], q[x])
      BY <2>2, DescFacts DEF ChainsAre
    <3> QED
      BY <1>2, <1>7, <2>2, <3>1
  <2>3. CASE x = c /\ o # Open
    <3>1. Disjoint(q[o], q[Open])
      BY <2>3, DescFacts DEF ChainsAre
    <3> QED
      BY <1>2, <1>7, <2>3, <3>1
  <2>4. CASE o \notin {c, Open} /\ x \notin {c, Open}
    BY <1>2, <1>7, <2>4 DEF ChainsAre
  <2> QED
    BY <2>1, <2>2, <2>3, <2>4
<1>8. ASSUME NEW x \in Active' PROVE Len(p[x]) # 0 /\ Marked(lli, p[x])
  <2>1. CASE x = c
    BY <1>1, <1>2, <2>1
  <2>2. CASE x # c
    <3>1. x \in Active
      BY <1>3, <1>8, <2>2
    <3>2. x \in Owners /\ x # Open
      BY <3>1, ActiveOwners
    <3> QED
      BY <1>2, <2>2, <3>1, <3>2 DEF ChainsAre
  <2> QED
    BY <2>1, <2>2
<1>9. OpenIs(p[Open])'
  BY <1>5 DEF OpenIs, Unmarked
<1>10. ASSUME NEW d \in used
       PROVE  lli[d].pos > 2 \/ \E o \in Owners : \E i \in 1..Len(p[o]) : d = p[o][i]
  <2>1. CASE ~(lli[d].pos > 2)
    <3>1. PICK o \in Owners : \E i \in 1..Len(q[o]) : d = q[o][i]
      BY <2>1 DEF ChainsAre
    <3>2. o # c
      BY <1>5, <3>1
    <3>3. CASE o = Open
      BY <1>2, <3>1, <3>3
    <3>4. CASE o # Open
      BY <1>2, <3>1, <3>2, <3>4
    <3> QED
      BY <3>3, <3>4
  <2> QED
    BY <2>1
<1>11. ChainsAre(p)'
  BY <1>2, <1>6, <1>7, <1>8, <1>9, <1>10 DEF ChainsAre
<1> QED
  BY <1>11

LEMMA FirstTwo == \A k \in Nat \ {0} : 1 \in 1..k /\ (k # 1 => 2 \in 1..k)
  OBVIOUS

(* What dma_transfer_done_handler frees is of the chain of its channel. *)
LEMMA ReturnedAre ==
  ASSUME NEW q, ChainsAre(q), NEW c \in Active
  PROVE  /\ q[c] \in Seq(Desc) /\ Len(q[c]) \in Nat \ {0}
         /\ Returned(carry[c].lli) = {q[c][1], IF Len(q[c]) = 1 THEN q[c][1] ELSE q[c][2]}
         /\ \A d \in Returned(carry[c].lli) : \E i \in 1..Len(q[c]) : d = q[c][i]
         /\ \A o \in Owners : o # c =>
              \A i \in 1..Len(q[o]) : q[o][i] \notin Returned(carry[c].lli)
<1> PICK s : s = q[c]
  OBVIOUS
<1> PICK R : R = Returned(carry[c].lli)
  OBVIOUS
<1>1. /\ c \in Channels /\ c \in Owners /\ c # Open /\ Len(s) \in Nat \ {0} /\ s \in Seq(Desc)
      /\ Linked(lli, used, s, carry[c].lli)
  <2>1. c \in Channels /\ c \in Owners /\ c # Open /\ Len(s) \in Nat
    BY ActiveOwners
  <2> QED
    BY <2>1 DEF ChainsAre, HeadOf
<1>2. R = {s[1], IF Len(s) = 1 THEN s[1] ELSE s[2]}
  <2>1. 1 \in 1..Len(s) /\ (Len(s) = 1 <=> 1 = Len(s)) /\ carry[c].lli = s[1]
    BY <1>1 DEF Linked
  <2>2. lli[s[1]].llp = IF 1 = Len(s) THEN s[1] ELSE s[1 + 1]
    BY <1>1, <2>1 DEF Linked
  <2> QED
    BY <2>1, <2>2 DEF Returned
<1>3. \A d \in R : \E i \in 1..Len(s) : d = s[i]
  <2>1. 1 \in 1..Len(s) /\ (Len(s) # 1 => 2 \in 1..Len(s))
    BY <1>1, FirstTwo
  <2> QED
    BY <1>2, <2>1
<1>4. ASSUME NEW o \in Owners, o # c, NEW i \in 1..Len(q[o]) PROVE q[o][i] \notin R
  <2>1. \A j \in 1..Len(s) : q[o][i] # s[j]
    BY <1>1, <1>4 DEF ChainsAre, Disjoint
  <2> QED
    BY <1>3, <2>1
<1> QED
  BY <1>1, <1>2, <1>3, <1>4

(* The chain of channel c is given back, up to its second descriptor.      *)
LEMMA ChainsEnd ==
  ASSUME TypeOK, NEW q, ChainsAre(q), NEW c \in Active,
         used' = used \ Returned(carry[c].lli),
         lli' = [d \in Desc |-> IF d \in Returned(carry[c].lli) THEN NoLLI ELSE lli[d]],
         carry' = [carry EXCEPT ![c] = NoCarry], UNCHANGED <<pc, iwork, head_lli, last_lli>>
  PROVE  \E p : ChainsAre(p)'
<1> PICK s : s = q[c]
  OBVIOUS
<1> PICK p : p = [q EXCEPT ![c] = <<>>]
  OBVIOUS
<1> PICK R : R = Returned(carry[c].lli)
  OBVIOUS
<1>1. /\ c \in Channels /\ c \in Owners /\ c # Open /\ Len(s) \in Nat \ {0} /\ s \in Seq(Desc)
      /\ Linked(lli, used, s, carry[c].lli)
  <2>1. c \in Channels /\ c \in Owners /\ c # Open /\ Len(s) \in Nat
    BY ActiveOwners
  <2> QED
    BY <2>1 DEF ChainsAre, HeadOf
<1>2. R = {s[1], IF Len(s) = 1 THEN s[1] ELSE s[2]}
  BY ReturnedAre
<1>3. \A o \in Owners : o # c => \A i \in 1..Len(q[o]) : q[o][i] \notin R
  BY ReturnedAre
<1>4. /\ p \in [Owners -> Seq(Desc)] /\ p[c] = <<>> /\ \A o \in Owners : o # c => p[o] = q[o]
  <2>1. q \in [Owners -> Seq(Desc)]
    BY DEF ChainsAre
  <2> QED
    BY <1>1, <2>1
<1>5. /\ Active' = Active \ {c} /\ carry'[c] = NoCarry
      /\ \A d \in Channels \ {c} : carry'[d] = carry[d]
  <2>1. DOMAIN carry = Channels
    BY DEF TypeOK
  <2> QED
    BY <1>1, <2>1, Cleared
<1>6. HeadOf(c)' = NULL /\ \A o \in Owners : o # c => HeadOf(o)' = HeadOf(o)
  BY <1>1, <1>5, DescFacts DEF HeadOf, NoCarry
<1>7. ASSUME NEW o \in Owners, o # c, NEW i \in 1..Len(q[o])
      PROVE  q[o][i] \in used' /\ lli'[q[o][i]] = lli[q[o][i]]
  <2>1. q[o][i] \in Desc /\ q[o][i] \in used
    BY ActiveOwners
  <2>2. q[o][i] \notin R
    BY <1>3, <1>7
  <2> QED
    BY <2>1, <2>2
<1>8. ASSUME NEW o \in Owners PROVE Linked(lli', used', p[o], HeadOf(o)')
  <2>1. CASE o = c
    BY <1>4, <1>6, <2>1 DEF Linked, IsInjective
  <2>2. CASE o # c
    <3>1. Linked(lli, used, q[o], HeadOf(o))
      BY DEF ChainsAre
    <3> QED
      BY <1>4, <1>6, <1>7, <2>2, <3>1, LinkedFrame
  <2> QED
    BY <2>1, <2>2
<1>9. ASSUME NEW o \in Owners, NEW x \in Owners, o # x PROVE Disjoint(p[o], p[x])
  <2>1. CASE o = c \/ x = c
    <3>1. Len(p[c]) = 0
      BY <1>4
    <3> QED
      BY <2>1, <3>1 DEF Disjoint
  <2>2. CASE o # c /\ x # c
    BY <1>4, <1>9, <2>2 DEF ChainsAre
  <2> QED
    BY <2>1, <2>2
<1>10. ASSUME NEW x \in Active' PROVE Len(p[x]) # 0 /\ Marked(lli', p[x])
  <2>0. x \in Active /\ x # c /\ x \in Owners
    BY <1>5, <1>10, ActiveOwners
  <2>1. x \in Owners /\ x # c /\ p[x] = q[x] /\ Len(q[x]) # 0 /\ Marked(lli, q[x])
    BY <1>4, <2>0 DEF ChainsAre
  <2> QED
    BY <1>7, <2>1 DEF Marked
<1>11. OpenIs(p[Open])'
  <2>1. p[Open] = q[Open] /\ OpenIs(q[Open]) /\ Open \in Owners
    BY <1>1, <1>4, DescFacts DEF ChainsAre
  <2>2. Complete' <=> Complete
    BY DEF Complete
  <2> QED
    BY <1>1, <1>7, <2>1, <2>2 DEF OpenIs, Marked, Unmarked
<1>12. ASSUME NEW d \in used'
       PROVE  lli'[d].pos > 2 \/ \E o \in Owners : \E i \in 1..Len(p[o]) : d = p[o][i]
  <2>1. d \in used /\ d \notin R /\ lli'[d] = lli[d]
    BY DEF TypeOK
  <2>2. CASE ~(lli[d].pos > 2)
    <3>1. PICK o \in Owners : \E i \in 1..Len(q[o]) : d = q[o][i]
      BY <2>1, <2>2 DEF ChainsAre
    <3>2. o # c
      <4>1. SUFFICES ASSUME NEW i \in 1..Len(s), d = s[i] PROVE FALSE
        BY <3>1
      <4>2. lli[d].pos = i
        BY <1>1, <4>1 DEF Linked
      <4>3. i = 1 \/ i = 2
        BY <1>1, <2>2, <4>2
      <4> QED
        BY <1>1, <1>2, <2>1, <4>1, <4>3
    <3> QED
      BY <1>4, <3>1, <3>2
  <2> QED
    BY <2>1, <2>2
<1>13. ChainsAre(p)'
  BY <1>4, <1>8, <1>9, <1>10, <1>11, <1>12 DEF ChainsAre
<1> QED
  BY <1>13

-----------------------------------------------------------------------------
(* The invariant is kept. *)
LEMMA WorkTypes ==
  ASSUME TypeOK, NEW asked \in Loads \cup Results
  PROVE  /\ [asked |-> asked, linked |-> 0] \in Works
         /\ [lli |-> head_lli, asked |-> asked]
              \in [lli : Desc \cup {NULL}, asked : Loads \cup Results \cup {<<>>}]
         /\ NoCarry \in [lli : Desc \cup {NULL}, asked : Loads \cup Results \cup {<<>>}]
         /\ NoWork \in Works /\ NoLLI \in LLI
         /\ Len(asked) \in Nat \ {0}
<1>1. asked \in Seq(Nat) /\ asked # <<>>
  BY DmaAssumption
<1> QED
  BY <1>1 DEF Works, NoCarry, NoWork, NoLLI, LLI, TypeOK

LEMMA MoreLinked ==
  ASSUME NEW w \in Works
  PROVE  /\ [w EXCEPT !.linked = @ + 1] \in Works
         /\ [w EXCEPT !.linked = @ + 1].asked = w.asked
         /\ [w EXCEPT !.linked = @ + 1].linked = w.linked + 1
  BY DEF Works

LEMMA LinkTypes ==
  ASSUME TypeOK, NEW w, NEW s, NEW t, Appended(w, s, t)
  PROVE  used' \in SUBSET Desc /\ head_lli' \in Desc \cup {NULL} /\ last_lli' \in Desc \cup {NULL}
<1>1. t \in Seq(Desc) /\ Len(t) # 0 /\ \A i \in 1..Len(t) : t[i] \in Desc
  BY DEF Appended
<1>2. 1 \in 1..Len(t) /\ Len(t) \in 1..Len(t)
  BY <1>1
<1> QED
  BY <1>1, <1>2 DEF Appended, TypeOK

LEMMA QuietChainStep ==
  ASSUME NoLateChain, ChainInv, StartLoad \/ Find \/ Load \/ StartResults \/ UNCHANGED vars
  PROVE  TypeOK' /\ Positions' /\ \E q : ChainsAre(q)'
<1> USE DEF ChainInv
<1>1. PICK q : ChainsAre(q)
  OBVIOUS
<1>2. UNCHANGED <<lli, used, head_lli, last_lli, status, msg, carry>>
  BY DEF StartLoad, Find, Load, StartResults, chainVars, chanVars, vars
<1>3. index \in Channels /\ (index + 1) % NumChannels \in Channels /\ 0 \in Channels
  BY DmaAssumption DEF Channels, ChannelInv, ChannelTypes
<1>4. CASE StartLoad
  <2>1. PICK asked \in Loads : work' = [asked |-> asked, linked |-> 0]
    BY <1>4 DEF StartLoad
  <2>2. /\ pc = "idle" /\ pc' = "link" /\ UNCHANGED <<index, reg, iwork>> /\ iwork = NoWork
    BY <1>4 DEF StartLoad, Loop
  <2>3. TypeOK'
    BY <1>2, <2>1, <2>2, WorkTypes DEF TypeOK
  <2>4. Len(asked) \in Nat \ {0} /\ work'.asked = asked /\ work'.linked = 0
    BY <2>1, WorkTypes
  <2>5. Positions'
    BY <2>2, <2>4 DEF Positions
  <2>6. (Complete' <=> Complete) /\ Active' = Active /\ \A o : HeadOf(o)' = HeadOf(o)
    BY <1>2, <2>2 DEF Complete, Active, HeadOf
  <2> QED
    BY <1>1, <1>2, <2>3, <2>5, <2>6, ChainsStay
<1>5. CASE Find \/ Load
  <2>1. /\ pc \in {"find", "load"} /\ pc' \in {"find", "load", "store"}
        /\ UNCHANGED <<work, iwork>> /\ iwork = NoWork
        /\ index' \in Channels /\ reg' \in {reg, status}
    BY <1>3, <1>5 DEF Find, NextIndex, Load, Loop
  <2>2. TypeOK'
    BY <1>2, <2>1 DEF TypeOK
  <2>3. Positions'
    BY <2>1 DEF Positions
  <2>4. (Complete' <=> Complete) /\ Active' = Active /\ \A o : HeadOf(o)' = HeadOf(o)
    BY <1>2, <2>1 DEF Complete, Active, HeadOf
  <2> QED
    BY <1>1, <1>2, <2>2, <2>3, <2>4, ChainsStay
<1>6. CASE StartResults
  <2>1. PICK asked \in Results : iwork' = [asked |-> asked, linked |-> 0]
    BY <1>6 DEF StartResults
  <2>2. /\ UNCHANGED <<pc, work, index, reg>> /\ iwork = NoWork /\ <<"result", pc>> \in PreemptAt
    BY <1>6 DEF StartResults, Taken, loopVars
  <2>3. pc \in {"idle", "link"}
    BY <2>2 DEF NoLateChain, NoLateResult, ChannelInv, ChannelTypes
  <2>4. TypeOK'
    BY <1>2, <2>1, <2>2, WorkTypes DEF TypeOK
  <2>5. Len(asked) \in Nat \ {0} /\ iwork'.asked = asked /\ iwork'.linked = 0 /\ iwork' # NoWork
    <3>1. Len(asked) \in Nat \ {0}
      <4>1. TypeOK /\ asked \in Loads \cup Results
        BY <2>1
      <4> QED
        BY <4>1, WorkTypes
    <3>2. asked # <<>>
      BY <2>1, AskedIsNotEmpty
    <3> QED
      BY <2>1, <3>1, <3>2 DEF NoWork
  <2>6. Positions'
    BY <1>2, <2>2, <2>3, <2>5 DEF Positions
  <2>7. (Complete' <=> Complete) /\ Active' = Active /\ \A o : HeadOf(o)' = HeadOf(o)
    BY <1>2, <2>2, <2>3, <2>5 DEF Complete, Active, HeadOf
  <2> QED
    BY <1>1, <1>2, <2>4, <2>6, <2>7, ChainsStay
<1>7. CASE UNCHANGED vars
  <2>1. UNCHANGED <<pc, work, index, reg, iwork>>
    BY <1>7 DEF vars, loopVars
  <2>2. TypeOK' /\ Positions'
    BY <1>2, <2>1 DEF TypeOK, Positions, Active
  <2>3. (Complete' <=> Complete) /\ Active' = Active /\ \A o : HeadOf(o)' = HeadOf(o)
    BY <1>2, <2>1 DEF Complete, Active, HeadOf
  <2> QED
    BY <1>1, <1>2, <2>2, <2>3, ChainsStay
<1> QED
  BY <1>4, <1>5, <1>6, <1>7

LEMMA LinkChainStep ==
  ASSUME ChainInv, Link PROVE TypeOK' /\ Positions' /\ \E q : ChainsAre(q)'
<1> USE DEF ChainInv
<1>1. PICK q : ChainsAre(q)
  OBVIOUS
<1>2. /\ pc = "link" /\ iwork = NoWork /\ iwork' = NoWork /\ dma_transfer_link(work)
      /\ work' = [work EXCEPT !.linked = @ + 1]
      /\ IF AtEnd(work) THEN pc' = "find" /\ index' = 0 ELSE UNCHANGED <<pc, index>>
      /\ UNCHANGED <<status, msg, carry, reg>>
  BY DEF Link, Loop, AtEnd, chanVars
<1>3. work \in Works /\ work.asked \in Loads /\ work.linked < Len(work.asked) /\ work.linked \in Nat
      /\ Len(work.asked) \in Nat
  BY <1>2, WorkTypes DEF TypeOK, Positions, Works
<1>4. /\ work' \in Works /\ work'.asked = work.asked /\ work'.linked = work.linked + 1
  BY <1>2, <1>3, MoreLinked
<1>5. ~Complete /\ (Complete' <=> AtEnd(work)) /\ pc # "record" /\ pc' # "record"
  BY <1>2 DEF Complete
<1>6. Linked(lli, used, q[Open], head_lli)
  BY <1>1, <1>5, DescFacts DEF ChainsAre, HeadOf
<1>7. (\E t : Appended(work, q[Open], t)) /\ lli' \in [Desc -> LLI]
  BY <1>2, <1>3, <1>6, LinkAppends
<1>8. PICK t : Appended(work, q[Open], t)
  BY <1>7
<1>9. \E p : ChainsAre(p)'
  BY <1>1, <1>2, <1>5, <1>8, ChainsGrown
<1>10. TypeOK'
  <2>1. used' \in SUBSET Desc /\ head_lli' \in Desc \cup {NULL} /\ last_lli' \in Desc \cup {NULL}
    BY <1>8, LinkTypes
  <2>2. index' \in Channels
    BY <1>2, DmaAssumption DEF Channels, TypeOK
  <2>3. pc' \in {"link", "find"}
    BY <1>2
  <2> QED
    BY <1>2, <1>4, <1>7, <2>1, <2>2, <2>3 DEF TypeOK
<1>11. Positions'
  BY <1>2, <1>3, <1>4 DEF Positions, AtEnd
<1> QED
  BY <1>9, <1>10, <1>11

LEMMA ResultChainStep ==
  ASSUME ChainInv, LinkResult PROVE TypeOK' /\ Positions' /\ \E q : ChainsAre(q)'
<1> USE DEF ChainInv
<1>1. PICK q : ChainsAre(q)
  OBVIOUS
<1>2. /\ iwork.linked < Len(iwork.asked) /\ dma_transfer_link(iwork)
      /\ iwork' = [iwork EXCEPT !.linked = @ + 1]
      /\ UNCHANGED <<status, msg, carry, pc, work, index, reg>>
  BY DEF LinkResult, chanVars, loopVars
<1>3. iwork # NoWork
  BY <1>2 DEF NoWork
<1>4. /\ iwork \in Works /\ iwork.asked \in Results /\ iwork.linked \in Nat
      /\ Len(iwork.asked) \in Nat /\ pc \in {"idle", "link"}
  BY <1>3, WorkTypes DEF TypeOK, Positions, Works
<1>5. /\ iwork' \in Works /\ iwork'.asked = iwork.asked /\ iwork'.linked = iwork.linked + 1
      /\ iwork' # NoWork
  BY <1>2, <1>4, MoreLinked DEF NoWork
<1>6. ~Complete /\ (Complete' <=> AtEnd(iwork)) /\ pc # "record" /\ pc' # "record"
  BY <1>2, <1>3, <1>4, <1>5 DEF Complete, AtEnd
<1>7. Linked(lli, used, q[Open], head_lli)
  BY <1>1, <1>6, DescFacts DEF ChainsAre, HeadOf
<1>8. (\E t : Appended(iwork, q[Open], t)) /\ lli' \in [Desc -> LLI]
  BY <1>2, <1>4, <1>7, LinkAppends
<1>9. PICK t : Appended(iwork, q[Open], t)
  BY <1>8
<1>10. \E p : ChainsAre(p)'
  BY <1>1, <1>2, <1>6, <1>9, ChainsGrown
<1>11. TypeOK'
  <2>1. used' \in SUBSET Desc /\ head_lli' \in Desc \cup {NULL} /\ last_lli' \in Desc \cup {NULL}
    BY <1>9, LinkTypes
  <2> QED
    BY <1>2, <1>5, <1>8, <2>1 DEF TypeOK
<1>12. Positions'
  BY <1>2, <1>4, <1>5 DEF Positions
<1> QED
  BY <1>10, <1>11, <1>12

LEMMA StoreChainStep ==
  ASSUME ChainInv, Store PROVE TypeOK' /\ Positions' /\ \E q : ChainsAre(q)'
<1> USE DEF ChainInv
<1>1. PICK q : ChainsAre(q)
  OBVIOUS
<1>2. /\ pc = "store" /\ pc' = "record" /\ iwork = NoWork /\ iwork' = NoWork
      /\ UNCHANGED <<lli, used, head_lli, last_lli, msg, work, index>>
      /\ carry' = [carry EXCEPT ![index] = [lli |-> head_lli, asked |-> work.asked]]
      /\ status' = reg \cup {index} /\ reg' = {}
  BY DEF Store, Loop, chainVars, set_channel_busy
<1>3. /\ index \in Channels /\ index \notin Active /\ DOMAIN carry = Channels
      /\ work.asked \in Loads /\ work.asked # <<>>
  BY <1>2, AskedIsNotEmpty DEF ChannelInv, ChannelTypes, BusyWhileCarrying, Positions
<1>4. \E p : ChainsAre(p)'
  <2>1. Complete /\ ~Complete' /\ pc # "record" /\ HeadOf(Open)' = NULL
    BY <1>2 DEF Complete, HeadOf
  <2> QED
    BY <1>1, <1>2, <1>3, <2>1, ChainsHanded
<1>5. TypeOK'
  <2>1. [lli |-> head_lli, asked |-> work.asked]
          \in [lli : Desc \cup {NULL}, asked : Loads \cup Results \cup {<<>>}]
    BY <1>3, WorkTypes
  <2> QED
    BY <1>2, <1>3, <2>1 DEF TypeOK
<1>6. Positions'
  <2>1. index \in Active' /\ carry'[index].lli = head_lli
    BY <1>2, <1>3, Given
  <2> QED
    BY <1>2, <2>1 DEF Positions
<1> QED
  BY <1>4, <1>5, <1>6

LEMMA RecordChainStep ==
  ASSUME ChainInv, Record PROVE TypeOK' /\ Positions' /\ \E q : ChainsAre(q)'
<1> USE DEF ChainInv
<1>1. PICK q : ChainsAre(q)
  OBVIOUS
<1>2. /\ pc = "record" /\ pc' = "idle" /\ iwork = NoWork /\ iwork' = NoWork
      /\ UNCHANGED <<lli, used, last_lli, status, carry, index, reg>>
      /\ msg' = [msg EXCEPT ![index] = head_lli] /\ head_lli' = NULL /\ work' = NoWork
  BY DEF Record, Loop
<1>3. \E p : ChainsAre(p)'
  <2>1. (Complete' <=> Complete) /\ Active' = Active /\ \A o \in Owners : HeadOf(o)' = HeadOf(o)
    BY <1>2 DEF Complete, Active, HeadOf
  <2> QED
    BY <1>1, <1>2, <2>1, ChainsStay
<1>4. TypeOK'
  BY <1>2 DEF TypeOK, NoWork, Works
<1>5. Positions'
  BY <1>2 DEF Positions
<1> QED
  BY <1>3, <1>4, <1>5

LEMMA LaunchChainStep ==
  ASSUME ChainInv, LaunchResults PROVE TypeOK' /\ Positions' /\ \E q : ChainsAre(q)'
<1> USE DEF ChainInv
<1>1. PICK q : ChainsAre(q)
  OBVIOUS
<1>2. /\ iwork # NoWork /\ iwork' = NoWork /\ iwork.linked = Len(iwork.asked)
      /\ UNCHANGED <<lli, used, last_lli, pc, work, index, reg>> /\ head_lli' = NULL
  BY DEF LaunchResults, loopVars
<1>3. PICK c \in Channels :
        /\ c \notin status /\ status' = status \cup {c}
        /\ carry' = [carry EXCEPT ![c] = [lli |-> head_lli, asked |-> iwork.asked]]
        /\ msg' = [msg EXCEPT ![c] = head_lli]
  BY DEF LaunchResults, get_free_channel, set_channel_busy
<1>4. iwork.asked \in Results /\ iwork.asked # <<>> /\ pc \in {"idle", "link"}
  BY <1>2, AskedIsNotEmpty DEF Positions
<1>5. \E p : ChainsAre(p)'
  <2>1. Complete /\ ~Complete' /\ pc # "record" /\ HeadOf(Open)' = NULL
    BY <1>2, <1>4 DEF Complete, HeadOf
  <2>2. c \notin Active /\ DOMAIN carry = Channels
    BY <1>3 DEF ChannelInv, ChannelTypes, BusyWhileCarrying
  <2> QED
    BY <1>1, <1>2, <1>3, <1>4, <2>1, <2>2, ChainsHanded
<1>6. TypeOK'
  <2>1. [lli |-> head_lli, asked |-> iwork.asked]
          \in [lli : Desc \cup {NULL}, asked : Loads \cup Results \cup {<<>>}]
    BY <1>4, WorkTypes
  <2> QED
    BY <1>2, <1>3, <2>1 DEF TypeOK, NoWork, Works
<1>7. Positions'
  BY <1>2, <1>4 DEF Positions
<1> QED
  BY <1>5, <1>6, <1>7

LEMMA EndChainStep ==
  ASSUME NoLateChain, ChainInv, NEW c \in Channels, TransferDone(c)
  PROVE  TypeOK' /\ Positions' /\ \E q : ChainsAre(q)'
<1> USE DEF ChainInv
<1>1. PICK q : ChainsAre(q)
  OBVIOUS
<1>2. /\ c \in Active /\ UNCHANGED <<head_lli, last_lli, msg, pc, work, index, reg, iwork>>
      /\ status' = status \ {c} /\ carry' = [carry EXCEPT ![c] = NoCarry]
      /\ used' = used \ Returned(msg[c])
      /\ lli' = [d \in Desc |-> IF d \in Returned(msg[c]) THEN NoLLI ELSE lli[d]]
      /\ <<Interrupt(c), pc>> \in PreemptAt
  BY DEF TransferDone, Taken, loopVars, set_channel_idle, Active
<1>3. ~(pc = "record" /\ index = c)
  BY <1>2 DEF NoLateChain, Interrupt
<1>4. msg[c] = carry[c].lli
  BY <1>2, <1>3 DEF ChannelInv, BusyWhileCarrying
<1>5. \E p : ChainsAre(p)'
  BY <1>1, <1>2, <1>4, ChainsEnd
<1>6. TypeOK'
  <2>1. lli' \in [Desc -> LLI]
    <3>1. NoLLI \in LLI
      BY DEF NoLLI, LLI
    <3> QED
      BY <1>2, <3>1 DEF TypeOK
  <2>2. carry' \in [Channels -> [lli : Desc \cup {NULL}, asked : Loads \cup Results \cup {<<>>}]]
    BY <1>2 DEF TypeOK, NoCarry
  <2> QED
    BY <1>2, <2>1, <2>2 DEF TypeOK
<1>7. Positions'
  <2>1. DOMAIN carry = Channels
    BY DEF TypeOK
  <2>2. Active' = Active \ {c} /\ \A x \in Channels \ {c} : carry'[x] = carry[x]
    BY <1>2, <2>1, Cleared
  <2>3. pc = "record" => index # c /\ index \in Channels
    BY <1>3 DEF TypeOK
  <2> QED
    BY <1>2, <2>2, <2>3 DEF Positions
<1> QED
  BY <1>5, <1>6, <1>7

LEMMA ChainInvStep ==
  ASSUME NoLateChain, ChainInv, [Next]_vars PROVE ChainInv'
<1>1. ChannelInv'
  BY ChannelStep DEF ChainInv, NoLateChain
<1>2. TypeOK' /\ Positions' /\ \E q : ChainsAre(q)'
  BY QuietChainStep, LinkChainStep, ResultChainStep, StoreChainStep, RecordChainStep,
     LaunchChainStep, EndChainStep
  DEF Next, Main, Handler
<1> QED
  BY <1>1, <1>2 DEF ChainInv

LEMMA ChainStart == Init => ChainInv
<1> SUFFICES ASSUME Init PROVE ChainInv
  OBVIOUS
<1>1. TypeOK
  <2>1. NoLLI \in LLI /\ NoWork \in Works /\ 0 \in Channels
    BY DmaAssumption DEF NoLLI, LLI, NoWork, Works, Channels
  <2> QED
    BY <2>1 DEF Init, TypeOK, NoCarry
<1>2. Positions
  BY DEF Init, Positions
<1>3. ChainsAre([o \in Owners |-> <<>>])
  <2> PICK q : q = [o \in Owners |-> <<>>]
    OBVIOUS
  <2>1. q \in [Owners -> Seq(Desc)] /\ \A o \in Owners : q[o] = <<>> /\ Len(q[o]) = 0
    <3>1. <<>> \in Seq(Desc) /\ Len(<<>>) = 0
      OBVIOUS
    <3> QED
      BY <3>1
  <2>2. Active = {} /\ used = {} /\ ~Complete
    BY DEF Init, Active, Complete
  <2>3. \A o \in Owners : HeadOf(o) = NULL
    BY DescFacts DEF Init, HeadOf, NoCarry
  <2>4. \A o \in Owners : Linked(lli, used, q[o], HeadOf(o))
    BY <2>1, <2>3 DEF Linked, IsInjective
  <2>5. OpenIs(q[Open])
    BY <2>1, <2>2, DescFacts DEF OpenIs, Unmarked
  <2>6. ChainsAre(q)
    BY <2>1, <2>2, <2>4, <2>5 DEF ChainsAre, Disjoint
  <2> QED
    BY <2>6
<1> QED
  BY <1>1, <1>2, <1>3, Start DEF ChainInv

(* Every chain is whole and disjoint from the others, whatever the lengths *)
(* of the copies (dma_transfer_link, lli_setup, malloc_LLI).               *)
THEOREM ChainInvariant == ASSUME NoLateChain PROVE Spec => []ChainInv
<1> QED
  BY ChainStart, ChainInvStep, PTL DEF Spec

LEMMA ChainsKnown ==
  ASSUME NEW q, ChainsAre(q)
  PROVE  /\ \A c \in Active : ChainOf(c) = q[c]
         /\ OpenChain = q[Open]
<1>1. \A o \in Owners : Linked(lli, used, q[o], HeadOf(o))
  BY DEF ChainsAre
<1>2. ASSUME NEW c \in Active PROVE ChainOf(c) = q[c]
  <2>1. c \in Owners /\ HeadOf(c) = carry[c].lli
    BY ActiveOwners DEF HeadOf
  <2> QED
    BY <1>1, <2>1, ChainIs DEF ChainOf
<1>3. OpenChain = q[Open]
  <2>1. Linked(lli, used, q[Open], HeadOf(Open))
    BY <1>1, DescFacts
  <2>2. CASE pc = "record"
    <3>1. q[Open] \in Seq(Desc) /\ (Len(q[Open]) # 0 => NULL \in Desc)
      BY <2>1, <2>2 DEF Linked, HeadOf
    <3>2. q[Open] = <<>>
      BY <3>1, DescFacts
    <3> QED
      BY <2>2, <3>2 DEF OpenChain
  <2>3. CASE pc # "record"
    BY <2>1, <2>3, ChainIs DEF OpenChain, HeadOf
  <2> QED
    BY <2>2, <2>3
<1> QED
  BY <1>2, <1>3

(* A transfer under way has a chain of its own that ends in a descriptor   *)
(* linked to itself, the only one marked as the last (dma_transfer_link).  *)
THEOREM ChainsAlwaysSound == ASSUME NoLateChain PROVE Spec => []ChainsSound
<1>1. ChainInv => ChainsSound
  <2> SUFFICES ASSUME ChainInv PROVE ChainsSound
    OBVIOUS
  <2>1. PICK q : ChainsAre(q)
    BY DEF ChainInv
  <2>2. ASSUME NEW c \in Active
        PROVE  /\ q[c] # <<>> /\ ToSet(q[c]) \subseteq used
               /\ \A d \in ToSet(q[c]) : /\ lli[d].last <=> d = Last(q[c])
                                         /\ lli[d].last => lli[d].llp = d
               /\ ToSet(q[c]) \cap ToSet(q[Open]) = {}
               /\ \A e \in Active : c # e => ToSet(q[c]) \cap ToSet(q[e]) = {}
    <3> PICK s : s = q[c]
      OBVIOUS
    <3>1. /\ c \in Owners /\ c # Open /\ Open \in Owners /\ \A e \in Active : e \in Owners
          /\ \A o \in Owners : q[o] \in Seq(Desc)
      BY <2>1, ActiveOwners, DescFacts
    <3>2. /\ s \in Seq(Desc) /\ Len(s) # 0 /\ Marked(lli, s) /\ IsInjective(s)
          /\ \A i \in 1..Len(s) : s[i] \in used
          /\ lli[s[Len(s)]].llp = s[Len(s)]
      <4>1. Linked(lli, used, s, HeadOf(c)) /\ Len(s) # 0 /\ Marked(lli, s)
        BY <2>1, <3>1 DEF ChainsAre
      <4>2. s \in Seq(Desc) /\ Len(s) \in 1..Len(s)
        BY <4>1 DEF Linked
      <4> QED
        BY <4>1, <4>2 DEF Linked
    <3>3. \A o \in Owners : ToSet(q[o]) = {q[o][i] : i \in 1..Len(q[o])}
      BY <3>1 DEF ToSet
    <3>4. ASSUME NEW d \in ToSet(s)
          PROVE  (lli[d].last <=> d = Last(s)) /\ (lli[d].last => lli[d].llp = d)
      <4>1. PICK i \in 1..Len(s) : d = s[i]
        BY <3>1, <3>3
      <4>2. (lli[d].last <=> i = Len(s)) /\ (d = s[Len(s)] <=> i = Len(s))
        BY <3>2, <4>1 DEF Marked, IsInjective
      <4> QED
        BY <3>2, <4>2 DEF Last
    <3>5. \A o \in Owners : o # c => ToSet(q[c]) \cap ToSet(q[o]) = {}
      <4> SUFFICES ASSUME NEW o \in Owners, o # c, NEW d \in ToSet(q[c]), d \in ToSet(q[o])
                   PROVE  FALSE
        OBVIOUS
      <4>1. Disjoint(q[c], q[o])
        BY <2>1, <3>1 DEF ChainsAre
      <4>2. (\E i \in 1..Len(q[c]) : d = q[c][i]) /\ (\E j \in 1..Len(q[o]) : d = q[o][j])
        BY <3>1, <3>3
      <4> QED
        BY <4>1, <4>2 DEF Disjoint
    <3>6. ToSet(s) \subseteq used /\ s # <<>>
      <4>1. ToSet(s) = {s[i] : i \in 1..Len(s)}
        BY <3>1, <3>3
      <4>2. s # <<>>
        BY <3>2
      <4> QED
        BY <3>2, <4>1, <4>2
    <3> QED
      BY <3>1, <3>4, <3>5, <3>6
  <2>3. (\A c \in Active : ChainOf(c) = q[c]) /\ OpenChain = q[Open]
    BY <2>1, ChainsKnown
  <2>4. \A c \in Active :
          /\ ChainOf(c) # <<>> /\ ToSet(ChainOf(c)) \subseteq used
          /\ \A d \in ToSet(ChainOf(c)) : /\ lli[d].last <=> d = Last(ChainOf(c))
                                          /\ lli[d].last => lli[d].llp = d
          /\ ToSet(ChainOf(c)) \cap ToSet(OpenChain) = {}
    <3> SUFFICES ASSUME NEW c \in Active
                 PROVE  /\ ChainOf(c) # <<>> /\ ToSet(ChainOf(c)) \subseteq used
                        /\ \A d \in ToSet(ChainOf(c)) :
                             /\ lli[d].last <=> d = Last(ChainOf(c))
                             /\ lli[d].last => lli[d].llp = d
                        /\ ToSet(ChainOf(c)) \cap ToSet(OpenChain) = {}
      OBVIOUS
    <3>1. ChainOf(c) = q[c] /\ OpenChain = q[Open]
      BY <2>3
    <3> QED
      BY <2>2, <3>1
  <2>5. \A c, e \in Active : c # e => ToSet(ChainOf(c)) \cap ToSet(ChainOf(e)) = {}
    <3> SUFFICES ASSUME NEW c \in Active, NEW e \in Active, c # e
                 PROVE  ToSet(ChainOf(c)) \cap ToSet(ChainOf(e)) = {}
      OBVIOUS
    <3>1. ChainOf(c) = q[c] /\ ChainOf(e) = q[e]
      BY <2>3
    <3>2. ToSet(q[c]) \cap ToSet(q[e]) = {}
      BY <2>2
    <3> QED
      BY <3>1, <3>2
  <2> QED
    BY <2>4, <2>5 DEF ChainInv, ChainsSound
<1> QED
  BY <1>1, ChainInvariant, PTL

(* Of a finished transfer no more stays allocated than what lies behind    *)
(* the second descriptor (dma_transfer_done_handler).                      *)
THEOREM TwoAlwaysReturned == ASSUME NoLateChain PROVE Spec => []FirstTwoReturned
<1>1. ChainInv => FirstTwoReturned
  <2> SUFFICES ASSUME ChainInv, NEW d \in used, d \notin Reachable PROVE lli[d].pos > 2
    BY DEF FirstTwoReturned
  <2>1. PICK q : ChainsAre(q)
    BY DEF ChainInv
  <2>2. (\A c \in Active : ChainOf(c) = q[c]) /\ OpenChain = q[Open]
    BY <2>1, ChainsKnown
  <2>3. ASSUME NEW o \in Owners, NEW i \in 1..Len(q[o]) PROVE d # q[o][i]
    <3>1. q[o][i] \in ToSet(q[o])
      <4>1. q[o] \in Seq(Desc)
        BY <2>1, ActiveOwners
      <4> QED
        BY <4>1 DEF ToSet
    <3>2. o \in Active \/ o = Open
      <4>1. o \in Channels \ Active => Len(q[o]) = 0
        BY <2>1, ActiveOwners
      <4> QED
        BY <4>1, DescFacts
    <3>3. CASE o \in Active
      <4>1. ToSet(ChainOf(o)) \subseteq Reachable
        BY <3>3 DEF Reachable
      <4>2. ChainOf(o) = q[o]
        BY <2>2, <3>3
      <4>3. q[o][i] \in Reachable
        BY <3>1, <4>1, <4>2
      <4> QED
        BY <4>3
    <3>4. CASE o = Open
      <4>1. ToSet(OpenChain) \subseteq Reachable
        BY DEF Reachable
      <4>2. OpenChain = q[o]
        BY <2>2, <3>4
      <4>3. q[o][i] \in Reachable
        BY <3>1, <4>1, <4>2
      <4> QED
        BY <4>3
    <3> QED
      BY <3>2, <3>3, <3>4
  <2> QED
    BY <2>1, <2>3 DEF ChainsAre
<1> QED
  BY <1>1, ChainInvariant, PTL

-----------------------------------------------------------------------------
(* What the chains copy.                                                   *)

(* Nor does a block ask for results while the loop links its chain.        *)
NoLateCopy == NoLateChain /\ <<"result", "link">> \notin PreemptAt

(* The first n copies that A asks for end at the places e of a chain.      *)
Ends(A, n, e) ==
  /\ e \in [0..n -> Nat] /\ e[0] = 0
  /\ \A r \in 1..n : e[r] = e[r - 1] + Chunks(A[r])
  /\ \A a, b \in 0..n : a <= b => e[a] <= e[b]

(* The chain s consists of them, one after the other.                      *)
Copied(m, s, A, n) ==
  \E e : /\ Ends(A, n, e) /\ Len(s) = e[n]
         /\ \A i \in 1..Len(s) : \E r \in 1..n :
              i \in (e[r - 1] + 1)..e[r] /\ Piece(m[s[i]], A[r], r, i - e[r - 1])

Copies(m, u, h, A, n) == \A s : Linked(m, u, s, h) => Copied(m, s, A, n)

(* The chain that is being built belongs to one of the two contexts, and   *)
(* holds the copies that one has linked so far.                            *)
CopyPlaces ==
  /\ iwork # NoWork => pc = "idle"
  /\ pc = "idle" /\ iwork = NoWork => head_lli = NULL
  /\ pc \in {"find", "load", "store"} => work.linked = Len(work.asked)

CarriedCopied ==
  \A c \in Active : Copies(lli, used, carry[c].lli, carry[c].asked, Len(carry[c].asked))

OpenCopied ==
  /\ iwork # NoWork => Copies(lli, used, head_lli, iwork.asked, iwork.linked)
  /\ pc \in {"link", "find", "load", "store"}
       => Copies(lli, used, head_lli, work.asked, work.linked)

CopyInv == CopyPlaces /\ CarriedCopied /\ OpenCopied

(* There is only one way to follow the links.                              *)
LEMMA LinkedUnique ==
  ASSUME NEW m, NEW u, NEW s, NEW t, NEW h, Linked(m, u, s, h), Linked(m, u, t, h)
  PROVE  s = t
<1> DEFINE S == {i \in Nat : i + 1 <= Len(s) => i + 1 <= Len(t) /\ s[i + 1] = t[i + 1]}
<1>1. /\ s \in Seq(Desc) /\ t \in Seq(Desc) /\ Len(s) \in Nat /\ Len(t) \in Nat
      /\ IsInjective(s) /\ IsInjective(t)
      /\ \A i \in 1..Len(s) : s[i] \in Desc /\ m[s[i]].llp = IF i = Len(s) THEN s[i] ELSE s[i + 1]
      /\ \A i \in 1..Len(t) : t[i] \in Desc /\ m[t[i]].llp = IF i = Len(t) THEN t[i] ELSE t[i + 1]
  BY DEF Linked
<1>2. (Len(s) = 0 <=> Len(t) = 0) /\ (Len(s) # 0 => s[1] = t[1])
  <2>1. /\ h = IF Len(s) = 0 THEN NULL ELSE s[1]
        /\ h = IF Len(t) = 0 THEN NULL ELSE t[1]
    BY DEF Linked
  <2>2. (Len(s) # 0 => s[1] # NULL) /\ (Len(t) # 0 => t[1] # NULL)
    BY <1>1, DescFacts
  <2> QED
    BY <2>1, <2>2
<1>3. 0 \in S
  BY <1>1, <1>2
<1>4. ASSUME NEW i \in S PROVE i + 1 \in S
  <2> SUFFICES ASSUME (i + 1) + 1 <= Len(s)
               PROVE  (i + 1) + 1 <= Len(t) /\ s[(i + 1) + 1] = t[(i + 1) + 1]
    OBVIOUS
  <2> PICK k \in Nat : k = i + 1
    OBVIOUS
  <2>1. k \in 1..Len(s) /\ k + 1 \in 1..Len(s) /\ k # Len(s)
    BY <1>1
  <2>2. k \in 1..Len(t) /\ s[k] = t[k]
    BY <1>1, <2>1
  <2>3. m[s[k]].llp = s[k + 1] /\ s[k + 1] # s[k]
    BY <1>1, <2>1 DEF IsInjective
  <2>4. k # Len(t) /\ t[k + 1] = s[k + 1]
    BY <1>1, <2>2, <2>3
  <2> QED
    BY <1>1, <2>2, <2>4
<1>5. S = Nat
  <2>1. S \in SUBSET Nat
    OBVIOUS
  <2> HIDE DEF S
  <2> QED
    BY <1>3, <1>4, <2>1, SetInduction
<1>6. \A i \in 1..Len(s) : i \in 1..Len(t) /\ s[i] = t[i]
  <2> SUFFICES ASSUME NEW i \in 1..Len(s) PROVE i \in 1..Len(t) /\ s[i] = t[i]
    OBVIOUS
  <2>1. i - 1 \in Nat /\ (i - 1) + 1 = i
    BY <1>1
  <2>2. i - 1 \in S
    BY <1>5, <2>1
  <2>3. i <= Len(t) /\ s[i] = t[i]
    BY <2>1, <2>2
  <2> QED
    BY <1>1, <2>3
<1>7. Len(s) = Len(t)
  <2>1. CASE Len(s) = 0
    BY <1>2, <2>1
  <2>2. CASE Len(s) # 0
    <3> PICK k : k = Len(s)
      OBVIOUS
    <3>1. k \in 1..Len(s) /\ k \in 1..Len(t) /\ s[k] = t[k]
      BY <1>1, <1>6, <2>2
    <3>2. m[t[k]].llp = t[k]
      BY <1>1, <3>1
    <3>3. k # Len(t) => k + 1 \in 1..Len(t) /\ t[k + 1] = t[k]
      BY <1>1, <3>1, <3>2
    <3> QED
      BY <1>1, <3>1, <3>3 DEF IsInjective
  <2> QED
    BY <2>1, <2>2
<1> QED
  BY <1>1, <1>6, <1>7

(* An empty chain copies nothing.                                          *)
LEMMA CopiesNothing ==
  ASSUME NEW m, NEW u, NEW A PROVE Copies(m, u, NULL, A, 0)
<1> SUFFICES ASSUME NEW s, Linked(m, u, s, NULL) PROVE Copied(m, s, A, 0)
  BY DEF Copies
<1>1. Len(s) = 0
  <2>1. s \in Seq(Desc) /\ (Len(s) # 0 => s[1] = NULL)
    BY DEF Linked
  <2>2. Len(s) # 0 => s[1] \in Desc
    BY <2>1
  <2> QED
    BY <2>1, <2>2, DescFacts
<1> PICK e : e = [x \in 0..0 |-> 0]
  OBVIOUS
<1>2. 0..0 = {0} /\ 1..0 = {}
  OBVIOUS
<1>3. Ends(A, 0, e) /\ Len(s) = e[0]
  BY <1>1, <1>2 DEF Ends
<1> QED
  BY <1>1, <1>3 DEF Copied

(* A chain that a step leaves alone copies what it did.                    *)
LEMMA CopiesKept ==
  ASSUME NEW m, NEW u, NEW s, NEW h, NEW m2, NEW u2, Linked(m, u, s, h),
         \A i \in 1..Len(s) : s[i] \in u2 /\ m2[s[i]] = m[s[i]],
         NEW A, NEW n, Copies(m, u, h, A, n)
  PROVE  Copies(m2, u2, h, A, n)
<1>1. Linked(m2, u2, s, h)
  BY LinkedFrame
<1>2. Copied(m, s, A, n)
  BY DEF Copies
<1>3. Copied(m2, s, A, n)
  <2> PICK e : /\ Ends(A, n, e) /\ Len(s) = e[n]
               /\ \A i \in 1..Len(s) : \E r \in 1..n :
                    i \in (e[r - 1] + 1)..e[r] /\ Piece(m[s[i]], A[r], r, i - e[r - 1])
    BY <1>2 DEF Copied
  <2>1. ASSUME NEW i \in 1..Len(s)
        PROVE  \E r \in 1..n :
                 i \in (e[r - 1] + 1)..e[r] /\ Piece(m2[s[i]], A[r], r, i - e[r - 1])
    <3>1. m2[s[i]] = m[s[i]]
      OBVIOUS
    <3> QED
      BY <3>1
  <2> QED
    BY <2>1 DEF Copied
<1> SUFFICES ASSUME NEW t, Linked(m2, u2, t, h) PROVE Copied(m2, t, A, n)
  BY DEF Copies
<1>4. t = s
  BY <1>1, LinkedUnique
<1> QED
  BY <1>3, <1>4

(* dma_transfer_link appends the next copy.                                *)
LEMMA CopiesGrow ==
  ASSUME TypeOK, NEW w, w.asked \in Seq(Nat), w.linked \in Nat, w.linked < Len(w.asked),
         NEW s, NEW t, Linked(lli, used, s, head_lli), Appended(w, s, t), Pieces(w, t),
         Unmarked(lli, s), Len(s) # 0 => last_lli = s[Len(s)],
         Copies(lli, used, head_lli, w.asked, w.linked)
  PROVE  Copies(lli', used', head_lli', w.asked, w.linked + 1)
<1> PICK g : g = s \o t
  OBVIOUS
<1> PICK A : A = w.asked
  OBVIOUS
<1> PICK n \in Nat : n = w.linked
  OBVIOUS
<1> PICK m : m = Len(s)
  OBVIOUS
<1> PICK k : k = Len(t)
  OBVIOUS
<1>0. s \in Seq(Desc) /\ t \in Seq(Desc) /\ m \in Nat /\ k \in Nat
  BY DEF Linked, Appended
<1>1. /\ s \in Seq(Desc) /\ t \in Seq(Desc) /\ m \in Nat /\ k \in Nat
      /\ k = Chunks(A[n + 1])
      /\ \A i \in 1..k : Piece(lli'[t[i]], A[n + 1], n + 1, i)
  BY <1>0 DEF Pieces
<1>2. /\ g \in Seq(Desc) /\ Len(g) = m + k
      /\ \A i \in 1..m : g[i] = s[i]
      /\ \A i \in (m + 1)..(m + k) : g[i] = t[i - m]
  BY <1>0
<1>3. \A i \in 1..(m + k) : i \in 1..m \/ (i \in (m + 1)..(m + k) /\ i - m \in 1..k)
  BY <1>1
<1>4. Linked(lli', used', g, head_lli')
  BY GrownChain DEF Grown
<1>5. Copied(lli, s, A, n)
  BY DEF Copies
<1>6. PICK e : /\ Ends(A, n, e) /\ m = e[n]
               /\ \A i \in 1..m : \E r \in 1..n :
                    i \in (e[r - 1] + 1)..e[r] /\ Piece(lli[s[i]], A[r], r, i - e[r - 1])
  BY <1>5 DEF Copied
<1> PICK f : f = [x \in 0..(n + 1) |-> IF x <= n THEN e[x] ELSE m + k]
  OBVIOUS
<1>7. /\ f \in [0..(n + 1) -> Nat] /\ f[n + 1] = m + k
      /\ \A x \in 0..n : f[x] = e[x] /\ e[x] \in Nat /\ e[x] <= m
  <2>1. \A x \in 0..n : x \in 0..(n + 1) /\ n \in 0..n /\ x <= n
    OBVIOUS
  <2>2. \A x \in 0..n : e[x] \in Nat /\ e[x] <= m
    <3>1. e \in [0..n -> Nat] /\ (\A a, b \in 0..n : a <= b => e[a] <= e[b]) /\ m = e[n]
      BY <1>6 DEF Ends
    <3> QED
      BY <2>1, <3>1
  <2>0. n + 1 \in 0..(n + 1) /\ ~(n + 1 <= n)
    OBVIOUS
  <2>3. \A x \in 0..n : f[x] = e[x]
    BY <2>1
  <2>4. f[n + 1] = m + k /\ m + k \in Nat
    BY <1>0, <2>0
  <2>5. ASSUME NEW x \in 0..(n + 1) PROVE f[x] \in Nat
    <3>1. x \in 0..n \/ x = n + 1
      OBVIOUS
    <3> QED
      BY <2>2, <2>3, <2>4, <3>1
  <2> QED
    BY <2>2, <2>3, <2>4, <2>5
<1>8. Ends(A, n + 1, f)
  <2>1. f[0] = 0
    BY <1>6, <1>7 DEF Ends
  <2>2. ASSUME NEW r \in 1..(n + 1) PROVE f[r] = f[r - 1] + Chunks(A[r])
    <3>1. CASE r = n + 1
      <4>1. f[r - 1] = m
        BY <1>6, <1>7, <3>1
      <4> QED
        BY <1>1, <1>7, <3>1, <4>1
    <3>2. CASE r # n + 1
      <4>1. r \in 1..n /\ r \in 0..n /\ r - 1 \in 0..n
        BY <3>2
      <4> QED
        BY <1>6, <1>7, <4>1 DEF Ends
    <3> QED
      BY <3>1, <3>2
  <2>3. ASSUME NEW a \in 0..(n + 1), NEW b \in 0..(n + 1), a <= b PROVE f[a] <= f[b]
    <3>1. CASE b = n + 1
      <4>1. CASE a = n + 1
        BY <1>0, <1>7, <3>1, <4>1
      <4>2. CASE a # n + 1
        <5>1. f[a] = e[a] /\ e[a] \in Nat /\ e[a] <= m
          <6>1. a \in 0..n
            BY <4>2
          <6> QED
            BY <1>7, <6>1
        <5> QED
          BY <1>0, <1>7, <3>1, <5>1
      <4> QED
        BY <4>1, <4>2
    <3>2. CASE b # n + 1
      <4>1. a \in 0..n /\ b \in 0..n
        BY <2>3, <3>2
      <4> QED
        BY <1>6, <1>7, <2>3, <4>1 DEF Ends
    <3> QED
      BY <3>1, <3>2
  <2> QED
    BY <1>7, <2>1, <2>2, <2>3 DEF Ends
<1>9. ASSUME NEW i \in 1..m
      PROVE  \E r \in 1..(n + 1) :
               i \in (f[r - 1] + 1)..f[r] /\ Piece(lli'[g[i]], A[r], r, i - f[r - 1])
  <2>1. PICK r \in 1..n : i \in (e[r - 1] + 1)..e[r] /\ Piece(lli[s[i]], A[r], r, i - e[r - 1])
    BY <1>6
  <2>2. r \in 1..(n + 1) /\ f[r - 1] = e[r - 1] /\ f[r] = e[r]
    <3>1. r \in 1..(n + 1) /\ r - 1 \in 0..n /\ r \in 0..n
      OBVIOUS
    <3> QED
      BY <1>7, <3>1
  <2>3. Piece(lli'[g[i]], A[r], r, i - e[r - 1])
    <3>1. g[i] = s[i] /\ s[i] \in Desc /\ s[i] \in used
      BY <1>1, <1>2 DEF Linked
    <3>2. \A j \in 1..Len(t) : s[i] # t[j]
      BY <3>1 DEF Appended
    <3>3. lli'[s[i]] = lli[s[i]] \/ lli'[s[i]] = [lli[s[i]] EXCEPT !.llp = t[1]]
      BY <3>1, <3>2 DEF Appended
    <3>4. lli[s[i]] \in LLI
      BY <3>1 DEF TypeOK
    <3> QED
      BY <2>1, <3>1, <3>3, <3>4 DEF Piece, LLI
  <2>4. i \in (f[r - 1] + 1)..f[r] /\ Piece(lli'[g[i]], A[r], r, i - f[r - 1])
    BY <2>1, <2>2, <2>3
  <2> QED
    BY <2>2, <2>4
<1>10. ASSUME NEW i \in (m + 1)..(m + k)
       PROVE  \E r \in 1..(n + 1) :
                i \in (f[r - 1] + 1)..f[r] /\ Piece(lli'[g[i]], A[r], r, i - f[r - 1])
  <2> PICK r \in 1..(n + 1) : r = n + 1
    OBVIOUS
  <2>1. f[r - 1] = m /\ f[r] = m + k
    BY <1>6, <1>7
  <2>2. g[i] = t[i - m] /\ i - m \in 1..k
    BY <1>1, <1>2
  <2>3. Piece(lli'[g[i]], A[r], r, i - m)
    BY <1>1, <2>2
  <2>4. i \in (f[r - 1] + 1)..f[r] /\ Piece(lli'[g[i]], A[r], r, i - f[r - 1])
    BY <2>1, <2>3
  <2> QED
    BY <2>4
<1>11. Copied(lli', g, A, n + 1)
  <2>1. ASSUME NEW i \in 1..Len(g)
        PROVE  \E r \in 1..(n + 1) :
                 i \in (f[r - 1] + 1)..f[r] /\ Piece(lli'[g[i]], A[r], r, i - f[r - 1])
    <3>1. i \in 1..m \/ i \in (m + 1)..(m + k)
      BY <1>2, <1>3
    <3> QED
      BY <1>9, <1>10, <3>1
  <2> QED
    BY <1>2, <1>7, <1>8, <2>1 DEF Copied
<1> SUFFICES ASSUME NEW x, Linked(lli', used', x, head_lli') PROVE Copied(lli', x, A, n + 1)
  BY DEF Copies
<1>12. x = g
  BY <1>4, LinkedUnique
<1> QED
  BY <1>11, <1>12

-----------------------------------------------------------------------------
(* The copies are kept. *)

(* A step that leaves the carried chains alone leaves their copies.        *)
LEMMA CarriedStay ==
  ASSUME NEW q, ChainsAre(q), CarriedCopied, carry' = carry,
         \A c \in Active : \A i \in 1..Len(q[c]) :
           q[c][i] \in used' /\ lli'[q[c][i]] = lli[q[c][i]]
  PROVE  CarriedCopied'
<1> SUFFICES ASSUME NEW c \in Active
             PROVE  Copies(lli', used', carry[c].lli, carry[c].asked, Len(carry[c].asked))
  BY DEF CarriedCopied, Active
<1> PICK h : h = carry[c].lli
  OBVIOUS
<1> PICK A : A = carry[c].asked
  OBVIOUS
<1>1. Linked(lli, used, q[c], h)
  BY ActiveOwners DEF ChainsAre, HeadOf
<1>2. Copies(lli, used, h, A, Len(A))
  BY DEF CarriedCopied
<1>3. \A i \in 1..Len(q[c]) : q[c][i] \in used' /\ lli'[q[c][i]] = lli[q[c][i]]
  OBVIOUS
<1> QED
  BY <1>1, <1>2, <1>3, CopiesKept

(* The steps that touch no chain; what begins to build one finds none.     *)
LEMMA QuietCopyStep ==
  ASSUME NoLateCopy, ChainInv, CopyInv,
         StartLoad \/ Find \/ Load \/ StartResults \/ UNCHANGED vars
  PROVE  CopyInv'
<1>1. UNCHANGED <<lli, used, head_lli, carry>>
  BY DEF StartLoad, Find, Load, StartResults, chainVars, chanVars, vars
<1>2. CarriedCopied'
  BY <1>1 DEF CopyInv, CarriedCopied, Active
<1>3. CASE StartLoad
  <2>1. /\ pc = "idle" /\ pc' = "link" /\ iwork = NoWork /\ iwork' = NoWork /\ work'.linked = 0
    BY <1>3 DEF StartLoad, Loop
  <2>2. head_lli' = NULL
    BY <1>1, <2>1 DEF CopyInv, CopyPlaces
  <2>3. Copies(lli', used', head_lli', work'.asked, work'.linked)
    BY <2>1, <2>2, CopiesNothing
  <2> QED
    BY <1>2, <2>1, <2>3 DEF CopyInv, CopyPlaces, OpenCopied
<1>4. CASE Find \/ Load
  <2>1. /\ pc \in {"find", "load"} /\ pc' \in {"find", "load", "store"}
        /\ UNCHANGED <<work, iwork>> /\ iwork = NoWork
    BY <1>4 DEF Find, NextIndex, Load, Loop
  <2> QED
    BY <1>1, <1>2, <2>1 DEF CopyInv, CopyPlaces, OpenCopied
<1>5. CASE StartResults
  <2>1. /\ UNCHANGED <<pc, work>> /\ iwork = NoWork /\ <<"result", pc>> \in PreemptAt
        /\ iwork'.linked = 0
    BY <1>5 DEF StartResults, Taken, loopVars
  <2>2. pc = "idle"
    BY <2>1 DEF NoLateCopy, NoLateChain, NoLateResult,
                ChainInv, ChannelInv, ChannelTypes
  <2>3. head_lli' = NULL
    BY <1>1, <2>1, <2>2 DEF CopyInv, CopyPlaces
  <2>4. Copies(lli', used', head_lli', iwork'.asked, iwork'.linked)
    BY <2>1, <2>3, CopiesNothing
  <2> QED
    BY <1>2, <2>1, <2>2, <2>3, <2>4 DEF CopyInv, CopyPlaces, OpenCopied
<1>6. CASE UNCHANGED vars
  <2>1. UNCHANGED <<pc, work, iwork>>
    BY <1>6 DEF vars, loopVars
  <2> QED
    BY <1>1, <1>2, <2>1 DEF CopyInv, CopyPlaces, OpenCopied
<1> QED
  BY <1>3, <1>4, <1>5, <1>6

(* What both contexts do in dma_transfer_link.                             *)
LEMMA OneMoreCopy ==
  ASSUME TypeOK, NEW q, ChainsAre(q), ~Complete, pc # "record", CarriedCopied, carry' = carry,
         NEW w \in Works, w.asked \in Loads \cup Results, w.linked < Len(w.asked),
         dma_transfer_link(w), Copies(lli, used, head_lli, w.asked, w.linked)
  PROVE  CarriedCopied' /\ Copies(lli', used', head_lli', w.asked, w.linked + 1)
<1>1. Linked(lli, used, q[Open], head_lli) /\ OpenIs(q[Open])
  BY DescFacts DEF ChainsAre, HeadOf
<1>2. PICK t : Appended(w, q[Open], t) /\ Pieces(w, t)
  BY <1>1, LinkAppends
<1>3. OthersUntouched(q, t)
  BY <1>2, OthersKept
<1>4. CarriedCopied'
  <2>1. \A c \in Active : c \in Owners /\ c # Open
    BY ActiveOwners
  <2>2. \A c \in Active : \A i \in 1..Len(q[c]) :
          q[c][i] \in used' /\ lli'[q[c][i]] = lli[q[c][i]]
    BY <1>3, <2>1 DEF OthersUntouched
  <2> QED
    BY <2>2, CarriedStay
<1>5. Copies(lli', used', head_lli', w.asked, w.linked + 1)
  <2>1. w.asked \in Seq(Nat) /\ w.linked \in Nat
    BY DmaAssumption DEF Works
  <2>2. Unmarked(lli, q[Open]) /\ (Len(q[Open]) # 0 => last_lli = q[Open][Len(q[Open])])
    BY <1>1 DEF OpenIs
  <2> QED
    BY <1>1, <1>2, <2>1, <2>2, CopiesGrow
<1> QED
  BY <1>4, <1>5

(* The loop links one more copy.                                           *)
LEMMA LinkCopyStep ==
  ASSUME ChainInv, CopyInv, Link PROVE CopyInv'
<1>1. PICK q : ChainsAre(q)
  BY DEF ChainInv
<1>2. /\ pc = "link" /\ iwork = NoWork /\ iwork' = NoWork /\ dma_transfer_link(work)
      /\ work' = [work EXCEPT !.linked = @ + 1] /\ carry' = carry
      /\ pc' = IF AtEnd(work) THEN "find" ELSE "link"
  BY DEF Link, Loop, AtEnd, chanVars
<1>3. TypeOK /\ work \in Works /\ work.asked \in Loads /\ work.linked < Len(work.asked)
  BY <1>2 DEF ChainInv, TypeOK, Positions
<1>4. work'.asked = work.asked /\ work'.linked = work.linked + 1
  BY <1>2, <1>3, MoreLinked
<1>5. ~Complete /\ pc # "record"
  BY <1>2 DEF Complete
<1>6. CarriedCopied /\ Copies(lli, used, head_lli, work.asked, work.linked)
  BY <1>2 DEF CopyInv, OpenCopied
<1>7. CarriedCopied' /\ Copies(lli', used', head_lli', work.asked, work.linked + 1)
  <2> PICK w : w = work
    OBVIOUS
  <2>1. w \in Works /\ w.asked \in Loads \cup Results /\ w.linked < Len(w.asked)
    BY <1>3
  <2>2. dma_transfer_link(w)
    BY <1>2
  <2>3. Copies(lli, used, head_lli, w.asked, w.linked)
    BY <1>6
  <2> QED
    BY <1>1, <1>2, <1>3, <1>5, <1>6, <2>1, <2>2, <2>3, OneMoreCopy
<1> QED
  BY <1>2, <1>4, <1>7 DEF CopyInv, CopyPlaces, OpenCopied, AtEnd

(* The handler links one more copy.                                        *)
LEMMA ResultCopyStep ==
  ASSUME ChainInv, CopyInv, LinkResult PROVE CopyInv'
<1>1. PICK q : ChainsAre(q)
  BY DEF ChainInv
<1>2. /\ iwork.linked < Len(iwork.asked) /\ dma_transfer_link(iwork)
      /\ iwork' = [iwork EXCEPT !.linked = @ + 1]
      /\ UNCHANGED <<carry, pc, work>>
  BY DEF LinkResult, chanVars, loopVars
<1>3. iwork # NoWork
  BY <1>2 DEF NoWork
<1>4. TypeOK /\ iwork \in Works /\ iwork.asked \in Results /\ pc = "idle"
  BY <1>3 DEF ChainInv, TypeOK, Positions, CopyInv, CopyPlaces
<1>5. iwork'.asked = iwork.asked /\ iwork'.linked = iwork.linked + 1 /\ iwork' # NoWork
  BY <1>2, <1>4, MoreLinked DEF NoWork, Works
<1>6. ~Complete
  BY <1>2, <1>3, <1>4 DEF Complete, Works
<1>7. CarriedCopied /\ Copies(lli, used, head_lli, iwork.asked, iwork.linked)
  BY <1>3 DEF CopyInv, OpenCopied
<1>8. CarriedCopied' /\ Copies(lli', used', head_lli', iwork.asked, iwork.linked + 1)
  <2> PICK w : w = iwork
    OBVIOUS
  <2>1. w \in Works /\ w.asked \in Loads \cup Results /\ w.linked < Len(w.asked)
    BY <1>2, <1>4
  <2>2. dma_transfer_link(w)
    BY <1>2
  <2>3. Copies(lli, used, head_lli, w.asked, w.linked)
    BY <1>7
  <2>4. pc # "record" /\ carry' = carry
    BY <1>2, <1>4
  <2> QED
    BY <1>1, <1>4, <1>6, <1>7, <2>1, <2>2, <2>3, <2>4, OneMoreCopy
<1> QED
  BY <1>2, <1>4, <1>5, <1>8 DEF CopyInv, CopyPlaces, OpenCopied

(* The open chain becomes that of a channel, with all its copies.          *)
LEMMA CopiesHanded ==
  ASSUME ChannelTypes, CarriedCopied, UNCHANGED <<lli, used>>, NEW c \in Channels,
         NEW w, w.asked # <<>>, w.linked = Len(w.asked),
         Copies(lli, used, head_lli, w.asked, w.linked),
         carry' = [carry EXCEPT ![c] = [lli |-> head_lli, asked |-> w.asked]]
  PROVE  CarriedCopied'
<1>1. DOMAIN carry = Channels
  BY DEF ChannelTypes
<1>2. /\ Active' = Active \cup {c} /\ carry'[c].lli = head_lli /\ carry'[c].asked = w.asked
      /\ \A d \in Channels \ {c} : carry'[d] = carry[d]
  BY <1>1, Given
<1>3. ASSUME NEW d \in Active'
      PROVE  Copies(lli, used, carry'[d].lli, carry'[d].asked, Len(carry'[d].asked))
  <2>1. CASE d = c
    BY <1>2, <2>1
  <2>2. CASE d # c
    <3>1. d \in Active /\ d \in Channels
      BY <1>2, <2>2 DEF Active
    <3>2. carry'[d] = carry[d]
      BY <1>2, <2>2, <3>1
    <3> QED
      BY <3>1, <3>2 DEF CarriedCopied
  <2> QED
    BY <2>1, <2>2
<1> QED
  BY <1>3 DEF CarriedCopied

(* The loop's chain goes to the channel it has chosen.                     *)
LEMMA StoreCopyStep ==
  ASSUME ChainInv, CopyInv, Store PROVE CopyInv'
<1>1. /\ pc = "store" /\ pc' = "record" /\ iwork = NoWork /\ iwork' = NoWork
      /\ UNCHANGED <<lli, used, head_lli>>
      /\ carry' = [carry EXCEPT ![index] = [lli |-> head_lli, asked |-> work.asked]]
  BY DEF Store, Loop, chainVars
<1>2. ChannelTypes /\ index \in Channels /\ work.asked # <<>>
  BY <1>1 DEF ChainInv, ChannelInv, ChannelTypes
<1>3. /\ CarriedCopied /\ Copies(lli, used, head_lli, work.asked, work.linked)
      /\ work.linked = Len(work.asked)
  BY <1>1 DEF CopyInv, CopyPlaces, OpenCopied
<1>4. CarriedCopied'
  BY <1>1, <1>2, <1>3, CopiesHanded
<1> QED
  BY <1>1, <1>4 DEF CopyInv, CopyPlaces, OpenCopied

(* The loop lets go of the chain.                                          *)
LEMMA RecordCopyStep ==
  ASSUME ChainInv, CopyInv, Record PROVE CopyInv'
<1>1. /\ pc = "record" /\ pc' = "idle" /\ iwork = NoWork /\ iwork' = NoWork
      /\ UNCHANGED <<lli, used, carry>> /\ head_lli' = NULL
  BY DEF Record, Loop
<1>2. CarriedCopied'
  BY <1>1 DEF CopyInv, CarriedCopied, Active
<1> QED
  BY <1>1, <1>2 DEF CopyInv, CopyPlaces, OpenCopied

(* The handler's chain goes to the first free channel.                     *)
LEMMA LaunchCopyStep ==
  ASSUME ChainInv, CopyInv, LaunchResults PROVE CopyInv'
<1>1. /\ iwork # NoWork /\ iwork' = NoWork /\ iwork.linked = Len(iwork.asked)
      /\ UNCHANGED <<lli, used, pc, work>> /\ head_lli' = NULL
  BY DEF LaunchResults, loopVars
<1>2. PICK c \in Channels :
        carry' = [carry EXCEPT ![c] = [lli |-> head_lli, asked |-> iwork.asked]]
  BY DEF LaunchResults
<1>3. ChannelTypes /\ iwork.asked # <<>> /\ pc = "idle"
  BY <1>1 DEF ChainInv, ChannelInv, ChannelTypes, CopyInv, CopyPlaces
<1>4. CarriedCopied /\ Copies(lli, used, head_lli, iwork.asked, iwork.linked)
  BY <1>1 DEF CopyInv, OpenCopied
<1>5. CarriedCopied'
  BY <1>1, <1>2, <1>3, <1>4, CopiesHanded
<1> QED
  BY <1>1, <1>3, <1>5 DEF CopyInv, CopyPlaces, OpenCopied

(* A transfer ends, and takes nothing from the other chains.               *)
LEMMA EndCopyStep ==
  ASSUME NoLateChain, ChainInv, CopyInv, NEW c \in Channels, TransferDone(c)
  PROVE  CopyInv'
<1>1. PICK q : ChainsAre(q)
  BY DEF ChainInv
<1>2. /\ c \in Active /\ UNCHANGED <<head_lli, pc, work, iwork>> /\ iwork = NoWork
      /\ carry' = [carry EXCEPT ![c] = NoCarry]
      /\ used' = used \ Returned(msg[c])
      /\ lli' = [d \in Desc |-> IF d \in Returned(msg[c]) THEN NoLLI ELSE lli[d]]
      /\ <<Interrupt(c), pc>> \in PreemptAt
  BY DEF TransferDone, Taken, loopVars, Active
<1>3. msg[c] = carry[c].lli
  BY <1>2 DEF NoLateChain, Interrupt, ChainInv, ChannelInv, BusyWhileCarrying
<1>4. \A o \in Owners : o # c => \A i \in 1..Len(q[o]) :
        q[o][i] \in used' /\ lli'[q[o][i]] = lli[q[o][i]]
  <2> SUFFICES ASSUME NEW o \in Owners, o # c, NEW i \in 1..Len(q[o])
               PROVE  q[o][i] \in used' /\ lli'[q[o][i]] = lli[q[o][i]]
    OBVIOUS
  <2>1. q[o][i] \in Desc /\ q[o][i] \in used
    BY <1>1, ActiveOwners
  <2>2. q[o][i] \notin Returned(msg[c])
    BY <1>1, <1>2, <1>3, ReturnedAre
  <2> QED
    BY <1>2, <2>1, <2>2
<1>5. /\ Active' = Active \ {c} /\ \A d \in Channels \ {c} : carry'[d] = carry[d]
  BY <1>2, Cleared DEF ChainInv, ChannelInv, ChannelTypes
<1>6. CarriedCopied'
  <2> SUFFICES ASSUME NEW d \in Active'
               PROVE  Copies(lli', used', carry'[d].lli, carry'[d].asked, Len(carry'[d].asked))
    BY DEF CarriedCopied
  <2>1. d \in Active /\ d # c /\ d \in Owners /\ d # Open /\ carry'[d] = carry[d]
    BY <1>1, <1>5, ActiveOwners
  <2> PICK h : h = carry[d].lli
    OBVIOUS
  <2> PICK A : A = carry[d].asked
    OBVIOUS
  <2>2. Linked(lli, used, q[d], h)
    BY <1>1, <2>1 DEF ChainsAre, HeadOf
  <2>3. Copies(lli, used, h, A, Len(A))
    BY <2>1 DEF CopyInv, CarriedCopied
  <2>4. Copies(lli', used', h, A, Len(A))
    BY <1>4, <2>1, <2>2, <2>3, CopiesKept
  <2> QED
    BY <2>1, <2>4
<1>7. OpenCopied'
  <2> SUFFICES ASSUME pc \in {"link", "find", "load", "store"}
               PROVE  Copies(lli', used', head_lli, work.asked, work.linked)
    BY <1>2 DEF OpenCopied
  <2> PICK h : h = head_lli
    OBVIOUS
  <2> PICK w : w = work
    OBVIOUS
  <2>1. Linked(lli, used, q[Open], h) /\ Open \in Owners /\ Open # c
    BY <1>1, DescFacts DEF ChainsAre, HeadOf
  <2>2. Copies(lli, used, h, w.asked, w.linked)
    BY DEF CopyInv, OpenCopied
  <2>3. Copies(lli', used', h, w.asked, w.linked)
    BY <1>4, <2>1, <2>2, CopiesKept
  <2> QED
    BY <2>3
<1>8. CopyPlaces'
  BY <1>2 DEF CopyInv, CopyPlaces
<1> QED
  BY <1>6, <1>7, <1>8 DEF CopyInv

(* Every step keeps the copies.                                            *)
LEMMA CopyStep ==
  ASSUME NoLateCopy, ChainInv, CopyInv, [Next]_vars PROVE CopyInv'
  BY QuietCopyStep, LinkCopyStep, ResultCopyStep, StoreCopyStep, RecordCopyStep,
     LaunchCopyStep, EndCopyStep
  DEF Next, Main, Handler, NoLateCopy

(* Nothing is copied yet.                                                  *)
LEMMA CopyStart == Init => CopyInv
  BY DEF Init, CopyInv, CopyPlaces, CarriedCopied, OpenCopied, Active

(* Every chain holds the copies asked for so far, each in its chunks, one  *)
(* after the other (dma_transfer_link, dma_transfer_channel).              *)
THEOREM CopyInvariant == ASSUME NoLateCopy PROVE Spec => [](ChainInv /\ CopyInv)
<1>1. Init => ChainInv /\ CopyInv
  BY ChainStart, CopyStart
<1>2. ChainInv /\ CopyInv /\ [Next]_vars => ChainInv' /\ CopyInv'
  BY ChainInvStep, CopyStep DEF NoLateCopy
<1> QED
  BY <1>1, <1>2, PTL DEF Spec
-----------------------------------------------------------------------------
(* Whole units, and sums of them.                                          *)

(* Division leaves a remainder below the divisor, and only one does.       *)
LEMMA Division ==
  ASSUME NEW a \in Nat, NEW b \in Nat \ {0}
  PROVE  /\ a \div b \in Nat /\ a % b \in 0..(b - 1)
         /\ a = b * (a \div b) + (a % b)
  OBVIOUS

(* Multiplication distributes, and is monotone.                            *)
LEMMA Distribute ==
  ASSUME NEW b \in Nat, NEW u \in Nat, NEW v \in Nat
  PROVE  /\ b * (u + v) = b * u + b * v
         /\ u < v => b * u + b <= b * v
<1>1. b * (u + v) = b * u + b * v
  OBVIOUS
<1>2. ASSUME u < v PROVE b * u + b <= b * v
  <2> PICK d \in Nat : v = u + 1 + d
    <3>1. v - u - 1 \in Nat /\ v = u + 1 + (v - u - 1)
      BY <1>2
    <3> QED
      BY <3>1
  <2>1. b * v = b * u + b + b * d
    OBVIOUS
  <2>2. b * d \in Nat /\ b * u \in Nat
    BY Products
  <2> QED
    BY <2>1, <2>2
<1> QED
  BY <1>1, <1>2

(* And it is associative.                                                  *)
LEMMA Associate == \A b, u, v \in Nat : (b * u) * v = b * (u * v)
  OBVIOUS

(* The remainder is the one below the divisor.                             *)
LEMMA RemainderIs ==
  ASSUME NEW b \in Nat \ {0}, NEW u \in Nat, NEW c \in 0..(b - 1)
  PROVE  (b * u + c) % b = c
<1> PICK n \in Nat : n = b * u + c
  BY Products
<1> PICK v \in Nat, e \in 0..(b - 1) : n = b * v + e /\ n % b = e
  BY Division
<1>0. b * u \in Nat /\ b * v \in Nat
  BY Products
<1>1. ~(u < v)
  <2> SUFFICES ASSUME u < v PROVE FALSE
    OBVIOUS
  <2>1. b * u + b <= b * v
    BY Distribute
  <2> QED
    BY <1>0, <2>1
<1>2. ~(v < u)
  <2> SUFFICES ASSUME v < u PROVE FALSE
    OBVIOUS
  <2>1. b * v + b <= b * u
    BY Distribute
  <2> QED
    BY <1>0, <2>1
<1>3. u = v
  BY <1>1, <1>2
<1> QED
  BY <1>0, <1>3

(* The chunks of a copy add up to its whole units (dma_transfer_link).     *)
LEMMA WholeUnits ==
  ASSUME NEW len \in Nat
  PROVE  /\ MaxLength \div Width \in Nat /\ LengthOf(len, Chunks(len)) \div Width \in Nat
         /\ Chunks(len) - 1 \in Nat
         /\ ((MaxLength \div Width) * (Chunks(len) - 1)
               + LengthOf(len, Chunks(len)) \div Width) * Width
              = len - (len % Width)
<1> PICK w \in Nat \ {0} : w = Width
  BY DmaAssumption
<1> PICK most \in Nat \ {0} : most = MaxLength
  BY DmaAssumption
<1> PICK a \in Nat : a = most \div w
  BY Division
<1> PICK k \in Nat : k = len \div most
  BY Division
<1> PICK rem \in 0..(most - 1) : rem = len % most
  BY Division
<1>0. len = most * k + rem /\ rem \in Nat
  BY Division
<1> PICK b \in Nat : b = rem \div w
  BY <1>0, Division
<1> PICK c \in 0..(w - 1) : c = rem % w
  BY <1>0, Division
<1>1. most = w * a
  <2>1. most % w = 0
    BY DmaAssumption
  <2>2. most = w * a + (most % w) /\ w * a \in Nat
    BY Division, Products
  <2> QED
    BY <2>1, <2>2
<1>2. Chunks(len) = k + 1 /\ Chunks(len) - 1 = k
  BY DEF Chunks
<1>3. LengthOf(len, Chunks(len)) = rem
  <2>1. LengthOf(len, Chunks(len)) = len - most * k
    BY <1>2 DEF LengthOf
  <2>2. most * k \in Nat
    BY Products
  <2> QED
    BY <1>0, <2>1, <2>2
<1> PICK u \in Nat : u = a * k + b
  BY Products
<1>4. len = w * u + c
  <2>1. most * k = w * (a * k)
    <3>0. w \in Nat
      OBVIOUS
    <3>1. (w * a) * k = w * (a * k)
      BY ONLY <3>0, a \in Nat, k \in Nat, Associate, SMT
    <3> QED
      BY <1>1, <3>1
  <2>2. a * k \in Nat
    BY Products
  <2>3. w * u = w * (a * k) + w * b
    BY <2>2, Distribute
  <2>4. w * (a * k) \in Nat /\ w * b \in Nat
    BY <2>2, Products
  <2>5. rem = w * b + c
    BY <1>0, Division
  <2>6. w * u + c = w * (a * k) + w * b + c
    BY <2>3
  <2>7. len = w * (a * k) + rem
    BY <1>0, <2>1
  <2> QED
    BY <2>4, <2>5, <2>6, <2>7
<1>5. len % w = c
  <2>1. (w * u + c) % w = c
    BY RemainderIs
  <2> QED
    BY <1>4, <2>1
<1>6. w * u = u * w /\ w * u \in Nat
  BY Products
<1>7. u * w = len - (len % w)
  BY <1>4, <1>5, <1>6
<1> QED
  BY <1>2, <1>3, <1>7
(* A copy shorter than the longest transfer is one chunk.                  *)
LEMMA OneChunk ==
  ASSUME NEW len \in Nat, len < MaxLength PROVE Chunks(len) = 1
<1> PICK b \in Nat \ {0} : b = MaxLength
  BY DmaAssumption
<1> PICK k \in Nat : k = len \div b
  BY Division
<1> PICK c \in 0..(b - 1) : c = len % b
  BY Division
<1>1. len = b * k + c
  BY Division
<1>2. ~(0 < k)
  <2> SUFFICES ASSUME 0 < k PROVE FALSE
    OBVIOUS
  <2>1. b * 0 + b <= b * k
    BY Distribute
  <2>2. b * k \in Nat /\ b * 0 = 0
    BY Products
  <2> QED
    BY <1>1, <2>1, <2>2
<1> QED
  BY <1>2 DEF Chunks

(* The units that the descriptors D move, by the links x.                  *)
UnitsOf(x, D) == MapThenSumSet(LAMBDA d : x[d].ts, D)

(* All of them move m units, but z, which moves last.                      *)
Measured(x, D, z, m, last) == \A d \in D : x[d].ts = IF d = z THEN last ELSE m

(* The sum over a set of which one element counts last and all others m.   *)
LEMMA SumOfPieces ==
  ASSUME NEW D, IsFiniteSet(D), NEW z \in D, NEW m \in Nat, NEW last \in Nat, NEW x,
         Measured(x, D, z, m, last)
  PROVE  UnitsOf(x, D) = m * Cardinality(D \ {z}) + last
<1> DEFINE iter[s \in SUBSET D] ==
             IF s = {} THEN 0 ELSE LET y == CHOOSE y \in s : TRUE IN x[y].ts + iter[s \ {y}]
           total(s) == m * Cardinality(s \ {z}) + IF z \in s THEN last ELSE 0
           g == [s \in SUBSET D |-> total(s)]
<1>0. \A d \in D : x[d].ts = IF d = z THEN last ELSE m
  BY DEF Measured
<1>1. UnitsOf(x, D) = iter[D]
  BY DEF UnitsOf, MapThenSumSet, MapThenFoldSet
<1>2. \A s \in SUBSET D : IsFiniteSet(s) /\ IsFiniteSet(s \ {z}) /\ Cardinality(s \ {z}) \in Nat
  <2>1. \A s \in SUBSET D : IsFiniteSet(s) /\ s \ {z} \in SUBSET D
    BY FS_Subset
  <2> QED
    BY <2>1, FS_CardinalityType
<1>3. total({}) = 0
  <2>1. Cardinality({} \ {z}) = 0
    BY FS_EmptySet
  <2> QED
    BY <2>1
<1>4. ASSUME NEW s \in SUBSET D, NEW y \in s PROVE total(s) = x[y].ts + total(s \ {y})
  <2>1. CASE y = z
    <3>1. (s \ {y}) \ {z} = s \ {z} /\ z \in s /\ z \notin s \ {y} /\ x[y].ts = last
      BY <1>0, <2>1
    <3> PICK k \in Nat : k = m * Cardinality(s \ {z})
      BY <1>2, Products
    <3>2. total(s) = k + last
      BY <3>1
    <3>3. total(s \ {y}) = k + 0
      BY <3>1
    <3> HIDE DEF total
    <3> QED
      BY <3>1, <3>2, <3>3
  <2>2. CASE y # z
    <3> PICK u : u = s \ {z}
      OBVIOUS
    <3>1. (s \ {y}) \ {z} = u \ {y} /\ y \in u /\ (z \in s <=> z \in s \ {y}) /\ x[y].ts = m
      BY <1>0, <2>2
    <3> PICK k \in Nat : k = Cardinality(u \ {y})
      <4>1. s \ {y} \in SUBSET D
        OBVIOUS
      <4> QED
        BY <1>2, <3>1, <4>1
    <3>2. Cardinality(u) = k + 1
      <4>1. IsFiniteSet(u)
        BY <1>2
      <4>2. IsFiniteSet(u \ {y}) /\ y \notin u \ {y} /\ (u \ {y}) \cup {y} = u
        BY <3>1, <4>1, FS_Subset
      <4>3. Cardinality((u \ {y}) \cup {y}) = Cardinality(u \ {y}) + 1
        <5> PICK v : v = u \ {y}
          OBVIOUS
        <5> QED
          BY <4>2, FS_AddElement
      <4> QED
        BY <4>2, <4>3
    <3>3. m * (k + 1) = m + m * k /\ m * k \in Nat
      BY Products
    <3>4. total(s) = m * (k + 1) + IF z \in s THEN last ELSE 0
      BY <3>2
    <3>5. total(s \ {y}) = m * k + IF z \in s THEN last ELSE 0
      BY <3>1
    <3> QED
      BY <3>1, <3>3, <3>4, <3>5
  <2> QED
    BY <2>1, <2>2
<1> HIDE DEF total
<1>5. g = [s \in SUBSET D |->
             IF s = {} THEN 0 ELSE LET y == CHOOSE y \in s : TRUE IN x[y].ts + g[s \ {y}]]
  <2>1. ASSUME NEW s \in SUBSET D
        PROVE  total(s) = IF s = {} THEN 0
                          ELSE LET y == CHOOSE y \in s : TRUE IN x[y].ts + total(s \ {y})
    BY <1>3, <1>4
  <2>2. \A s \in SUBSET D : \A y : s \ {y} \in SUBSET D
    OBVIOUS
  <2>3. \A s \in SUBSET D : g[s] = total(s)
    OBVIOUS
  <2>4. g = [s \in SUBSET D |-> g[s]]
    OBVIOUS
  <2> HIDE DEF g
  <2>5. ASSUME NEW s \in SUBSET D
        PROVE  g[s] = IF s = {} THEN 0
                      ELSE LET y == CHOOSE y \in s : TRUE IN x[y].ts + g[s \ {y}]
    BY <2>1, <2>2, <2>3
  <2> QED
    BY <2>4, <2>5
<1>6. iter = [s \in SUBSET D |->
                IF s = {} THEN 0 ELSE LET y == CHOOSE y \in s : TRUE IN x[y].ts + iter[s \ {y}]]
  <2> HIDE DEF g
  <2> QED
    BY <1>5 DEF iter
<1> HIDE DEF iter
<1>7. \A s \in SUBSET D : iter[s] = total(s)
  <2> DEFINE S == {n \in Nat : \A s \in SUBSET D : Cardinality(s) = n => iter[s] = total(s)}
  <2>1. 0 \in S
    <3> SUFFICES ASSUME NEW s \in SUBSET D, Cardinality(s) = 0 PROVE iter[s] = total(s)
      OBVIOUS
    <3>1. s = {}
      BY <1>2, FS_EmptySet
    <3> QED
      BY <1>3, <1>6, <3>1
  <2>2. ASSUME NEW n \in S PROVE n + 1 \in S
    <3> SUFFICES ASSUME NEW s \in SUBSET D, Cardinality(s) = n + 1 PROVE iter[s] = total(s)
      OBVIOUS
    <3>1. s # {} /\ n \in Nat
      BY FS_EmptySet
    <3> PICK y : y = CHOOSE o \in s : TRUE
      OBVIOUS
    <3>2. y \in s /\ s \ {y} \in SUBSET D
      BY <3>1
    <3>3. iter[s] = x[y].ts + iter[s \ {y}]
      BY <1>6, <3>1
    <3>4. Cardinality(s \ {y}) = n
      <4>1. IsFiniteSet(s)
        BY <1>2
      <4>2. Cardinality(s \ {y}) = (n + 1) - 1
        BY <3>2, <4>1, FS_RemoveElement
      <4> QED
        BY <3>1, <4>2
    <3>5. iter[s \ {y}] = total(s \ {y})
      BY <3>2, <3>4
    <3> QED
      BY <1>4, <3>2, <3>3, <3>5
  <2>3. S = Nat
    <3>1. S \in SUBSET Nat
      OBVIOUS
    <3> HIDE DEF S
    <3> QED
      BY <2>1, <2>2, <3>1, SetInduction
  <2>4. \A s \in SUBSET D : Cardinality(s) \in Nat
    BY <1>2, FS_CardinalityType
  <2> QED
    BY <2>3, <2>4
<1> QED
  BY <1>1, <1>7 DEF total
(* The descriptors of copy r, of len bytes, are those behind the b-th.     *)
PlacedAt(x, s, r, b, len) ==
  /\ b + Chunks(len) <= Len(s)
  /\ \A i \in 1..Len(s) : x[s[i]].req = r <=> i \in (b + 1)..(b + Chunks(len))
  /\ \A i \in (b + 1)..(b + Chunks(len)) : Piece(x[s[i]], len, r, i - b)

(* The descriptors of copy r move len bytes, to the last whole unit, and   *)
(* start where they should if they are of one chunk.                       *)
Moved(x, s, r, len) ==
  LET ds == {d \in ToSet(s) : x[d].req = r}
  IN /\ UnitsOf(x, ds) * Width = len - (len % Width)
     /\ len < MaxLength => \A d \in ds : x[d].from = 0 /\ x[d].to = 0

(* A copy whose descriptors stand together moves what was asked.           *)
LEMMA OneCopy ==
  ASSUME NEW s \in Seq(Desc), IsInjective(s), NEW x, NEW b \in Nat, NEW len \in Nat, NEW r,
         PlacedAt(x, s, r, b, len)
  PROVE  Moved(x, s, r, len)
<1>0. /\ b + Chunks(len) <= Len(s)
      /\ \A i \in 1..Len(s) : x[s[i]].req = r <=> i \in (b + 1)..(b + Chunks(len))
      /\ \A i \in (b + 1)..(b + Chunks(len)) : Piece(x[s[i]], len, r, i - b)
  BY DEF PlacedAt
<1> PICK ds : ds = {d \in ToSet(s) : x[d].req = r}
  OBVIOUS
<1> PICK k : k = Chunks(len)
  OBVIOUS
<1> PICK f : f = [i \in 1..k |-> s[b + i]]
  OBVIOUS
<1> PICK z : z = s[b + k]
  OBVIOUS
<1>1. k \in Nat \ {0} /\ \A i \in 1..k : b + i \in 1..Len(s)
  <2>1. k \in Nat \ {0}
    BY ChunksType
  <2> QED
    BY <1>0, <2>1
<1>2. ds = {f[i] : i \in 1..k}
  <2>1. ToSet(s) = {s[i] : i \in 1..Len(s)}
    BY DEF ToSet
  <2>2. ASSUME NEW d \in ds PROVE \E i \in 1..k : d = f[i]
    <3>1. PICK i \in 1..Len(s) : d = s[i] /\ x[s[i]].req = r
      BY <2>1
    <3>2. i - b \in 1..k /\ b + (i - b) = i
      BY <1>0, <1>1, <3>1
    <3>3. f[i - b] = s[i]
      BY <3>2
    <3> QED
      BY <3>1, <3>2, <3>3
  <2>3. ASSUME NEW i \in 1..k PROVE f[i] \in ds
    <3>1. f[i] = s[b + i] /\ b + i \in 1..Len(s) /\ b + i \in (b + 1)..(b + k)
      BY <1>1
    <3>2. s[b + i] \in ToSet(s) /\ x[s[b + i]].req = r
      BY <1>0, <2>1, <3>1
    <3> QED
      BY <3>1, <3>2
  <2> QED
    BY <2>2, <2>3
<1>3. \A i, j \in 1..k : f[i] = f[j] => i = j
  <2> SUFFICES ASSUME NEW i \in 1..k, NEW j \in 1..k, f[i] = f[j] PROVE i = j
    OBVIOUS
  <2>1. b + i = b + j
    BY <1>1 DEF IsInjective
  <2> QED
    BY <2>1
<1>4. \A i \in 1..k : Piece(x[f[i]], len, r, i)
  <2> SUFFICES ASSUME NEW i \in 1..k PROVE Piece(x[f[i]], len, r, i)
    OBVIOUS
  <2>1. b + i \in (b + 1)..(b + k) /\ (b + i) - b = i /\ f[i] = s[b + i]
    BY <1>1
  <2>2. Piece(x[s[b + i]], len, r, (b + i) - b)
    BY <1>0, <2>1
  <2> QED
    BY <2>1, <2>2
<1>5. IsFiniteSet(ds) /\ Cardinality(ds \ {z}) = k - 1
  <2>1. IsFiniteSet(1..k) /\ Cardinality(1..k) = k
    BY <1>1, FS_Interval
  <2>2. f \in Bijection(1..k, ds)
    <3>1. f \in [1..k -> ds] /\ DOMAIN f = 1..k
      BY <1>2
    <3>2. f \in Injection(1..k, ds)
      BY <1>3, <3>1 DEF Injection, IsInjective
    <3>3. f \in Surjection(1..k, ds)
      BY <1>2, <3>1 DEF Surjection
    <3> QED
      BY <3>2, <3>3 DEF Bijection
  <2>3. IsFiniteSet(ds) /\ Cardinality(ds) = k
    <3>1. ExistsBijection(1..k, ds)
      BY <2>2 DEF ExistsBijection
    <3> QED
      BY <2>1, <3>1, FS_Bijection
  <2>4. z \in ds
    BY <1>1, <1>2
  <2> QED
    BY <2>3, <2>4, FS_RemoveElement
<1> PICK a : a = MaxLength \div Width
  OBVIOUS
<1> PICK last : last = LengthOf(len, k) \div Width
  OBVIOUS
<1>6. a \in Nat /\ last \in Nat /\ (a * (k - 1) + last) * Width = len - (len % Width)
  BY WholeUnits
<1>7. Measured(x, ds, z, a, last)
  <2> SUFFICES ASSUME NEW d \in ds PROVE x[d].ts = IF d = z THEN last ELSE a
    BY DEF Measured
  <2> PICK i \in 1..k : d = f[i]
    BY <1>2
  <2>1. f[i] = z <=> i = k
    <3>1. k \in 1..k /\ f[k] = z
      BY <1>1
    <3> QED
      BY <1>3, <3>1
  <2>2. x[f[i]].ts = LengthOf(len, i) \div Width
    BY <1>4 DEF Piece
  <2>3. i # k => LengthOf(len, i) = MaxLength
    BY <1>1 DEF LengthOf
  <2> QED
    BY <2>1, <2>2, <2>3
<1>8. UnitsOf(x, ds) = a * (k - 1) + last
  <2>1. z \in ds
    <3>1. k \in 1..k /\ f[k] = z
      BY <1>1
    <3> QED
      BY <1>2, <3>1
  <2>2. IsFiniteSet(ds) /\ a \in Nat /\ last \in Nat
    BY <1>5, <1>6
  <2>3. UnitsOf(x, ds) = a * Cardinality(ds \ {z}) + last
    BY ONLY <1>7, <2>1, <2>2, SumOfPieces
  <2> QED
    BY <1>5, <2>3
<1>9. ASSUME len < MaxLength, NEW d \in ds PROVE x[d].from = 0 /\ x[d].to = 0
  <2>1. k = 1
    BY <1>9, OneChunk
  <2>2. d = f[1]
    BY <1>2, <2>1
  <2>3. Piece(x[f[1]], len, r, 1)
    BY <1>4, <2>1
  <2>4. 4 * MaxLength * (1 - 1) = 0
    BY DmaAssumption
  <2> QED
    BY <2>2, <2>3, <2>4 DEF Piece
<1> QED
  BY <1>6, <1>8, <1>9 DEF Moved

(* The copies follow one another as they were asked for.                   *)
InOrder(x, s) == \A i, j \in 1..Len(s) : i <= j => x[s[i]].req <= x[s[j]].req

(* A chain in which the copies are as Copied says is complete.             *)
LEMMA CopiedComplete ==
  ASSUME NEW s \in Seq(Desc), IsInjective(s), NEW x, NEW A \in Seq(Nat), Copied(x, s, A, Len(A))
  PROVE  /\ InOrder(x, s)
         /\ \A r \in 1..Len(A) : Moved(x, s, r, A[r])
<1> PICK n \in Nat : n = Len(A)
  OBVIOUS
<1>1. PICK e : /\ Ends(A, n, e) /\ Len(s) = e[n]
               /\ \A i \in 1..Len(s) : \E r \in 1..n :
                    i \in (e[r - 1] + 1)..e[r] /\ Piece(x[s[i]], A[r], r, i - e[r - 1])
  BY DEF Copied
<1>2. /\ \A r \in 0..n : e[r] \in Nat
      /\ \A a, b \in 0..n : a <= b => e[a] <= e[b]
      /\ \A r \in 1..n : e[r] = e[r - 1] + Chunks(A[r])
  BY <1>1 DEF Ends
<1>3. \A r \in 1..n : r \in 0..n /\ r - 1 \in 0..n
  OBVIOUS
<1>4. ASSUME NEW i \in 1..Len(s)
      PROVE  x[s[i]].req \in 1..n /\ i \in (e[x[s[i]].req - 1] + 1)..e[x[s[i]].req]
             /\ Piece(x[s[i]], A[x[s[i]].req], x[s[i]].req, i - e[x[s[i]].req - 1])
  <2>1. PICK r \in 1..n : i \in (e[r - 1] + 1)..e[r] /\ Piece(x[s[i]], A[r], r, i - e[r - 1])
    BY <1>1
  <2>2. x[s[i]].req = r
    BY <2>1 DEF Piece
  <2> QED
    BY <2>1, <2>2
<1>5. ASSUME NEW i \in 1..Len(s), NEW j \in 1..Len(s), i <= j,
             NEW a \in 1..n, NEW b \in 1..n, i \in (e[a - 1] + 1)..e[a], j \in (e[b - 1] + 1)..e[b]
      PROVE  a <= b
  <2> SUFFICES ASSUME ~(a <= b) PROVE FALSE
    OBVIOUS
  <2>1. b \in 0..n /\ a - 1 \in 0..n /\ b <= a - 1
    OBVIOUS
  <2>2. e[b] <= e[a - 1] /\ e[b] \in Nat /\ e[a - 1] \in Nat
    BY <1>2, <2>1
  <2> QED
    BY <1>5, <2>2
<1>6. ASSUME NEW i \in 1..Len(s), NEW j \in 1..Len(s), i <= j PROVE x[s[i]].req <= x[s[j]].req
  BY <1>4, <1>5, <1>6
<1>7. ASSUME NEW r \in 1..n PROVE Moved(x, s, r, A[r])
  <2> PICK b : b = e[r - 1]
    OBVIOUS
  <2> PICK len \in Nat : len = A[r]
    OBVIOUS
  <2>1. b \in Nat /\ e[r] = b + Chunks(len) /\ e[r] \in Nat /\ e[r] <= Len(s)
    <3>1. r \in 0..n /\ n \in 0..n /\ r <= n /\ r - 1 \in 0..n
      OBVIOUS
    <3> QED
      BY <1>1, <1>2, <3>1
  <2>2. ASSUME NEW i \in 1..Len(s)
        PROVE  x[s[i]].req = r <=> i \in (b + 1)..(b + Chunks(len))
    <3>1. CASE x[s[i]].req = r
      BY <1>4, <2>1, <3>1
    <3>2. CASE i \in (b + 1)..(b + Chunks(len))
      <4> PICK v \in 1..n : v = x[s[i]].req /\ i \in (e[v - 1] + 1)..e[v]
        BY <1>4
      <4>1. i \in (e[r - 1] + 1)..e[r]
        BY <2>1, <3>2
      <4>2. i <= i
        OBVIOUS
      <4>3. v <= r /\ r <= v
        BY <1>5, <4>1, <4>2
      <4> QED
        BY <3>2, <4>3
    <3> QED
      BY <3>1, <3>2
  <2>3. ASSUME NEW i \in (b + 1)..(b + Chunks(len)) PROVE Piece(x[s[i]], len, r, i - b)
    <3>1. i \in 1..Len(s)
      BY <2>1
    <3>2. x[s[i]].req = r
      BY <2>2, <3>1
    <3> QED
      BY <1>4, <3>1, <3>2
  <2>4. b + Chunks(len) <= Len(s)
    BY <2>1
  <2>5. PlacedAt(x, s, r, b, len)
    BY <2>2, <2>3, <2>4 DEF PlacedAt
  <2>6. Moved(x, s, r, len)
    BY <2>1, <2>5, OneCopy
  <2> QED
    BY <2>6
<1> QED
  BY <1>6, <1>7 DEF InOrder

(* The descriptors of a transfer under way come in the order of the calls, *)
(* and their lengths add up to the whole units asked for: cutting a copy   *)
(* into chunks neither adds a unit nor drops one (dma_transfer_link,       *)
(* lli_setup).  Only a copy of one chunk is shown to be where it should.   *)
THEOREM ChunksAlwaysAddUp == ASSUME NoLateCopy PROVE Spec => []ChunksAddUp
<1>1. ChainInv /\ CopyInv => ChunksAddUp
  <2> SUFFICES ASSUME ChainInv, CopyInv, NEW c \in Active
               PROVE  /\ \A i, j \in DOMAIN ChainOf(c) :
                           i <= j => lli[ChainOf(c)[i]].req <= lli[ChainOf(c)[j]].req
                      /\ \A r \in DOMAIN carry[c].asked :
                           LET len == carry[c].asked[r]
                               ds  == CopiesAsked(c, r)
                           IN /\ MapThenSumSet(LAMBDA d : lli[d].ts, ds) * Width
                                   = len - (len % Width)
                              /\ len < MaxLength =>
                                   \A d \in ds : lli[d].from = 0 /\ lli[d].to = 0
    BY DEF ChunksAddUp
  <2>1. PICK q : ChainsAre(q)
    BY DEF ChainInv
  <2> PICK s : s = q[c]
    OBVIOUS
  <2> PICK A : A = carry[c].asked
    OBVIOUS
  <2>2. ChainOf(c) = s
    BY <2>1, ChainsKnown
  <2>3. Linked(lli, used, s, carry[c].lli)
    BY <2>1, ActiveOwners DEF ChainsAre, HeadOf
  <2>4. s \in Seq(Desc) /\ IsInjective(s)
    BY <2>3 DEF Linked
  <2>5. Copied(lli, s, A, Len(A))
    BY <2>3 DEF CopyInv, CarriedCopied, Copies
  <2>6. A \in Seq(Nat)
    <3>1. A \in Loads \cup Results \cup {<<>>}
      BY DEF ChainInv, TypeOK, Active
    <3>2. <<>> \in Seq(Nat)
      OBVIOUS
    <3>3. Loads \cup Results \subseteq Seq(Nat)
      BY DmaAssumption
    <3> QED
      BY <3>1, <3>2, <3>3
  <2>7. InOrder(lli, s) /\ \A r \in 1..Len(A) : Moved(lli, s, r, A[r])
    <3> PICK x : x = lli
      OBVIOUS
    <3>1. Copied(x, s, A, Len(A))
      BY <2>5
    <3>2. InOrder(x, s) /\ \A r \in 1..Len(A) : Moved(x, s, r, A[r])
      BY <2>4, <2>6, <3>1, CopiedComplete
    <3> QED
      BY <3>2
  <2>8. DOMAIN s = 1..Len(s) /\ DOMAIN A = 1..Len(A)
    BY <2>4, <2>6
  <2>9. \A r : CopiesAsked(c, r) = {d \in ToSet(s) : lli[d].req = r}
    BY <2>2 DEF CopiesAsked
  <2>10. \A i, j \in DOMAIN ChainOf(c) : i <= j => lli[ChainOf(c)[i]].req <= lli[ChainOf(c)[j]].req
    BY <2>2, <2>7, <2>8 DEF InOrder
  <2>11. ASSUME NEW r \in DOMAIN A
         PROVE  /\ MapThenSumSet(LAMBDA d : lli[d].ts, CopiesAsked(c, r)) * Width
                     = A[r] - (A[r] % Width)
                /\ A[r] < MaxLength => \A d \in CopiesAsked(c, r) : lli[d].from = 0 /\ lli[d].to = 0
    <3>1. Moved(lli, s, r, A[r])
      BY <2>7, <2>8
    <3>2. /\ UnitsOf(lli, CopiesAsked(c, r)) * Width = A[r] - (A[r] % Width)
          /\ A[r] < MaxLength => \A d \in CopiesAsked(c, r) : lli[d].from = 0 /\ lli[d].to = 0
      BY <2>9, <3>1 DEF Moved
    <3> QED
      BY <3>2, Zenon DEF UnitsOf
  <2> QED
    BY <2>10, <2>11
<1>2. NoLateCopy => NoLateChain
  BY DEF NoLateCopy
<1> QED
  BY <1>1, CopyInvariant, PTL
=============================================================================
