----------------------------- MODULE DmacProofs -----------------------------
(***************************************************************************)
(* Theorems about Dmac, for every number of channels and every behaviour   *)
(* of the controller.                                                      *)
(***************************************************************************)
EXTENDS Dmac, WellFoundedInduction, TLAPS

Started  == {"idle", "find", "cfg", "llp", "enable"}
Starting == {"find", "cfg", "llp", "enable"}

(* What dma_init and dma_transfer_channel rely on between their steps. *)
SoftState ==
  /\ rst => pc = "resetting"
  /\ pc \in {"signals", "cfg", "llp", "enable"} => index \in Channels
  /\ pc \in Starting => head_lli \in Heads

TypeInv == TypeOK /\ SoftState

(* Once started, the controller stays configured; channels run from then   *)
(* on only.                                                                *)
Configured ==
  /\ pc \in Started \cup {"signals"} => cfg = {INT_EN, DMAC_EN} /\ Common \in signals
  /\ pc = "signals" => \A c \in Channels : c < index => c \in signals
  /\ pc \in Started => Channels \subseteq signals

Prepared ==
  /\ chen # {} => pc \in Started
  /\ pc \in {"llp", "enable"} => index \in chcfg
  /\ pc = "enable" => llp[index] = head_lli

RunInv == TypeInv /\ Configured /\ Prepared /\ RunningConfigured

-----------------------------------------------------------------------------
LEMMA TypeInit == Init => TypeInv
<1> SUFFICES ASSUME Init PROVE TypeInv
  OBVIOUS
<1>1. intstat \in [Channels -> SUBSET Bits]
  BY DEF Init
<1>2. llp \in [Channels -> Heads \cup {NULL}] /\ carried \in [Channels -> Heads \cup {NULL}]
  BY DEF Init
<1>3. SoftState
  BY DEF Init, SoftState, Starting
<1>4. flying \in Int /\ faults \in 0..MaxFaults
  BY DmacAssumption DEF Init
<1> QED
  BY <1>1, <1>2, <1>3, <1>4 DEF Init, TypeInv, TypeOK

(* The address of a descriptor has no low bits to lose. *)
LEMMA LocExact == ASSUME NEW h \in Heads PROVE LOC(h) = h
BY DmacAssumption DEF LOC

LEMMA ProgramType == TypeInv /\ Program => TypeInv'
<1> USE DEF TypeInv, TypeOK, SoftState, Starting, regs, status, soft, ghost, INT_EN, DMAC_EN
<1> SUFFICES ASSUME TypeInv, Program PROVE TypeInv'
  OBVIOUS
<1>1. CASE DMAC_reset
  BY <1>1 DEF DMAC_reset, At
<1>2. CASE ResetPoll
  BY <1>2 DEF ResetPoll, At
<1>3. CASE DMAC_config
  <2>1. 0 \in Channels
    BY DmacAssumption DEF Channels
  <2> QED
    BY <1>3, <2>1 DEF DMAC_config, At
<1>4. CASE DMAC_config_channel
  <2>1. index' \in Channels \cup {NULL} /\ (pc' = "signals" => index' \in Channels)
    BY <1>4, DmacAssumption DEF DMAC_config_channel, At, Channels
  <2> QED
    BY <1>4, <2>1 DEF DMAC_config_channel, At
<1>5. CASE ChainReady
  BY <1>5 DEF ChainReady, At
<1>6. CASE DMAC_get_free_channel
  BY <1>6 DEF DMAC_get_free_channel, At, FirstZero
<1>7. CASE cfg_config
  BY <1>7 DEF cfg_config, At
<1>8. CASE DMAC_CHx_specify_first_lli
  BY <1>8, LocExact DEF DMAC_CHx_specify_first_lli, At
<1>9. CASE DMAC_CHx_enable_channel
  BY <1>9 DEF DMAC_CHx_enable_channel, At
<1> QED
  BY <1>1, <1>2, <1>3, <1>4, <1>5, <1>6, <1>7, <1>8, <1>9 DEF Program

LEMMA HandlerType == TypeInv /\ DMAC_interrupt_handler => TypeInv'
<1> USE DEF TypeInv, TypeOK, SoftState, Starting, regs, status, soft, ghost
<1> SUFFICES ASSUME TypeInv, DMAC_interrupt_handler PROVE TypeInv'
  OBVIOUS
<1>1. CASE DMAC_CommonReg_interrupt_handler
  BY <1>1 DEF DMAC_CommonReg_interrupt_handler
<1>2. ASSUME NEW c \in Channels, DMAC_CHx_interrupt_handler(c) PROVE TypeInv'
  BY <1>2 DEF DMAC_CHx_interrupt_handler
<1> QED
  BY <1>1, <1>2 DEF DMAC_interrupt_handler

LEMMA ControllerType ==
  TypeInv /\ (ResetDone \/ (\E c \in Channels : ChannelStops(c)) \/ CommonFault) => TypeInv'
<1> USE DEF TypeInv, TypeOK, SoftState, Starting, regs, status, soft, ghost
<1> SUFFICES ASSUME TypeInv,
                    ResetDone \/ (\E c \in Channels : ChannelStops(c)) \/ CommonFault
             PROVE  TypeInv'
  OBVIOUS
<1>1. CASE ResetDone
  BY <1>1 DEF ResetDone
<1>2. ASSUME NEW c \in Channels, ChannelStops(c) PROVE TypeInv'
  BY <1>2, DmacAssumption DEF ChannelStops
<1>3. CASE CommonFault
  BY <1>3, DmacAssumption DEF CommonFault
<1> QED
  BY <1>1, <1>2, <1>3

LEMMA TypeStep == TypeInv /\ [Next]_vars => TypeInv'
<1>1. TypeInv /\ UNCHANGED vars => TypeInv'
  BY DEF TypeInv, TypeOK, SoftState, vars, regs, status, soft, ghost
<1> QED
  BY <1>1, ProgramType, HandlerType, ControllerType DEF Next

(* Registers and variables stay in their ranges, whatever the controller   *)
(* raises (dma/phy_interface.c).                                           *)
THEOREM TypeCorrect == Spec => []TypeOK
<1>1. TypeInv => TypeOK
  BY DEF TypeInv
<1> QED
  BY <1>1, TypeInit, TypeStep, PTL DEF Spec

-----------------------------------------------------------------------------
LEMMA RunInit == Init => RunInv
<1> SUFFICES ASSUME Init PROVE RunInv
  OBVIOUS
<1> QED
  BY TypeInit DEF Init, RunInv, Configured, Prepared, RunningConfigured, Started

LEMMA ProgramRun ==
  ASSUME RunInv, Program, TypeInv'
  PROVE  RunInv'
<1> USE DEF RunInv, TypeInv, TypeOK, SoftState, Configured, Prepared, RunningConfigured,
            Started, Starting, regs, status, soft, ghost
<1>1. CASE DMAC_reset
  BY <1>1 DEF DMAC_reset, At
<1>2. CASE ResetPoll
  BY <1>2 DEF ResetPoll, At
<1>3. CASE DMAC_config
  BY <1>3 DEF DMAC_config, At, Channels
<1>4. CASE DMAC_config_channel
  BY <1>4, DmacAssumption DEF DMAC_config_channel, At, Channels
<1>5. CASE ChainReady
  BY <1>5 DEF ChainReady, At
<1>6. CASE DMAC_get_free_channel
  BY <1>6 DEF DMAC_get_free_channel, At
<1>7. CASE cfg_config
  BY <1>7 DEF cfg_config, At
<1>8. CASE DMAC_CHx_specify_first_lli
  BY <1>8, LocExact DEF DMAC_CHx_specify_first_lli, At
<1>9. CASE DMAC_CHx_enable_channel
  <2>1. /\ pc = "enable" /\ pc' = "idle" /\ chen' = chen \cup {index} /\ index \in Channels
        /\ UNCHANGED <<rst, cfg, signals, chcfg, llp>>
        /\ head_lli \in Heads /\ llp[index] = head_lli /\ carried'[index] = head_lli
        /\ \A c \in Channels \ {index} : carried'[c] = carried[c]
    BY <1>9 DEF DMAC_CHx_enable_channel, At
  <2>2. Configured' /\ Prepared'
    BY <2>1
  <2>3. ASSUME NEW c \in chen'
        PROVE  /\ carried'[c] # NULL /\ llp'[c] = carried'[c]
               /\ c \in chcfg' /\ cfg' = {INT_EN, DMAC_EN} /\ {c, Common} \subseteq signals'
    <3>1. CASE c = index
      BY <2>1, <3>1, DmacAssumption
    <3>2. CASE c # index
      BY <2>1, <2>3, <3>2
    <3> QED
      BY <3>1, <3>2
  <2> HIDE DEF TypeInv, Configured, Prepared
  <2> QED
    BY <2>2, <2>3
<1> QED
  BY <1>1, <1>2, <1>3, <1>4, <1>5, <1>6, <1>7, <1>8, <1>9 DEF Program

LEMMA OthersRun ==
  ASSUME RunInv, TypeInv',
         DMAC_interrupt_handler \/ ResetDone \/ (\E c \in Channels : ChannelStops(c)) \/ CommonFault
  PROVE  RunInv'
<1> USE DEF RunInv, TypeInv, TypeOK, SoftState, Configured, Prepared, RunningConfigured,
            Started, Starting, regs, status, soft, ghost
<1>1. CASE DMAC_interrupt_handler
  <2>1. UNCHANGED <<regs, soft, ghost>>
    BY <1>1 DEF DMAC_interrupt_handler, DMAC_CommonReg_interrupt_handler, DMAC_CHx_interrupt_handler
  <2> QED
    BY <2>1
<1>2. CASE ResetDone
  BY <1>2 DEF ResetDone
<1>3. ASSUME NEW c \in Channels, ChannelStops(c) PROVE RunInv'
  BY <1>3 DEF ChannelStops
<1>4. CASE CommonFault
  BY <1>4 DEF CommonFault
<1> QED
  BY <1>1, <1>2, <1>3, <1>4

(* A running channel is configured, can raise its interrupt and follows    *)
(* the chain it was last started with, for every number of transfers under *)
(* way: also when one is programmed over another (DMAC_get_free_channel).  *)
THEOREM ChannelConfigured == Spec => []RunningConfigured
<1>1. RunInv /\ [Next]_vars => RunInv'
  <2> SUFFICES ASSUME RunInv, [Next]_vars PROVE RunInv'
    OBVIOUS
  <2>1. TypeInv'
    BY TypeStep DEF RunInv
  <2>2. CASE UNCHANGED vars
    BY <2>1, <2>2 DEF RunInv, Configured, Prepared, RunningConfigured, vars, regs, status, soft, ghost
  <2> QED
    BY <2>1, <2>2, ProgramRun, OthersRun DEF Next
<1>2. RunInv => RunningConfigured
  BY DEF RunInv
<1> QED
  BY <1>1, <1>2, RunInit, PTL DEF Spec
-----------------------------------------------------------------------------
(* Which cause the handler clears.                                         *)

(* A nonempty set of numbers has a smallest one. *)
LEMMA SmallestNumber ==
  ASSUME NEW T \in SUBSET Nat, T # {}
  PROVE  \E x \in T : \A y \in T : ~(y < x)
<1> DEFINE R == OpToRel(<, Nat)
<1>1. IsWellFoundedOn(R, Nat)
  BY NatLessThanWellFounded
<1>2. PICK x \in T : \A y \in T : ~(<<y, x>> \in R)
  <2> HIDE DEF R
  <2> QED
    BY <1>1, WFMin
<1>3. \A y \in T : <<y, x>> \in Nat \X Nat => ~(y < x)
  BY <1>2 DEF OpToRel
<1> HIDE DEF R
<1> QED
  BY <1>3

LEMMA HighestIs ==
  ASSUME NEW S \in SUBSET Bits, S # {}
  PROVE  Highest(S) \in S /\ \A x \in S : x <= Highest(S)
<1> DEFINE T == {31 - b : b \in S}
<1>1. T \in SUBSET Nat /\ T # {}
  BY DEF Bits
<1>2. PICK t \in T : \A u \in T : ~(u < t)
  <2> HIDE DEF T
  <2> QED
    BY <1>1, SmallestNumber
<1>3. PICK b \in S : t = 31 - b
  BY <1>2
<1>4. \A x \in S : x \in 0..31 /\ 31 - x \in T
  BY DEF Bits
<1>5. \A x \in S : x <= b
  BY <1>2, <1>3, <1>4
<1> QED
  BY <1>5 DEF Highest

(* The controller raises only causes for which DMAC_CHx_interrupt_handler  *)
(* has a case; with another one nobody would ever clear the register.      *)
KnownCauses == Outcomes \subseteq SUBSET ChannelCauses

OnlyKnown == \A c \in Channels : intstat[c] \subseteq ChannelCauses

(* Every other step leaves the status of the channels alone. *)
LEMMA CausesKept ==
  ASSUME Program \/ DMAC_CommonReg_interrupt_handler \/ ResetDone \/ CommonFault \/ UNCHANGED vars
  PROVE  UNCHANGED intstat
BY DEF Program, DMAC_reset, ResetPoll, DMAC_config, DMAC_config_channel, ChainReady,
       DMAC_get_free_channel, cfg_config, DMAC_CHx_specify_first_lli,
       DMAC_CHx_enable_channel, DMAC_CommonReg_interrupt_handler, ResetDone, CommonFault,
       vars, status

LEMMA OnlyKnownStep ==
  ASSUME KnownCauses, TypeInv, OnlyKnown, [Next]_vars
  PROVE  OnlyKnown'
<1> USE DEF TypeInv, TypeOK, OnlyKnown
<1>1. CASE UNCHANGED intstat
  BY <1>1
<1>2. ASSUME NEW c \in Channels, DMAC_CHx_interrupt_handler(c) PROVE OnlyKnown'
  BY <1>2 DEF DMAC_CHx_interrupt_handler
<1>3. ASSUME NEW c \in Channels, ChannelStops(c) PROVE OnlyKnown'
  BY <1>3 DEF ChannelStops, KnownCauses
<1> QED
  BY <1>1, <1>2, <1>3, CausesKept DEF Next, DMAC_interrupt_handler

LEMMA DoneIsLast ==
  ASSUME TypeInv, OnlyKnown, [Next]_vars, NEW c \in Channels,
         TransferDone \in intstat[c], TransferDone \notin intstat'[c]
  PROVE  intstat[c] \subseteq {TransferDone, BlockDone}
<1> USE DEF TypeInv, TypeOK
<1>1. \E d \in Channels : DMAC_CHx_interrupt_handler(d)
  <2>1. ~UNCHANGED intstat
    OBVIOUS
  <2>2. \A d \in Channels : ~ChannelStops(d)
    BY DEF ChannelStops
  <2> QED
    BY <2>1, <2>2, CausesKept DEF Next, DMAC_interrupt_handler
<1>2. DMAC_CHx_interrupt_handler(c)
  BY <1>1 DEF DMAC_CHx_interrupt_handler
<1>3. intstat[c] \in SUBSET Bits /\ intstat[c] \subseteq ChannelCauses
  BY DEF OnlyKnown
<1>4. intstat[c] \cap ChannelCauses = intstat[c]
  BY <1>3
<1>5. TransferDone = Highest(intstat[c])
  BY <1>2, <1>4 DEF DMAC_CHx_interrupt_handler
<1>6. \A x \in intstat[c] : x <= TransferDone
  BY <1>3, <1>5, HighestIs
<1>7. \A x \in Bits : x <= TransferDone => x \in {TransferDone, BlockDone}
  BY DEF Bits, TransferDone, BlockDone
<1> QED
  BY <1>3, <1>6, <1>7

(* A channel is not taken for finished while it has an error no one has    *)
(* read, although the handler clears one cause at each interrupt, the      *)
(* highest, and the end of a transfer is among the lowest: every error the *)
(* controller can raise lies above it (DMAC_CHx_interrupt_handler).        *)
THEOREM ErrorsReadFirst ==
  ASSUME KnownCauses PROVE Spec => ErrorsBeforeDone
<1>1. Init => OnlyKnown
  BY DEF Init, OnlyKnown
<1>2. TypeInv /\ OnlyKnown /\ [Next]_vars => OnlyKnown'
  BY OnlyKnownStep
<1>3. TypeInv /\ OnlyKnown /\ [Next]_vars
        => [\A c \in Channels :
              TransferDone \in intstat[c] /\ TransferDone \notin intstat'[c]
                => intstat[c] \subseteq {TransferDone, BlockDone}]_vars
  BY DoneIsLast
<1> QED
  BY <1>1, <1>2, <1>3, TypeInit, TypeStep, PTL DEF Spec, ErrorsBeforeDone
=============================================================================
