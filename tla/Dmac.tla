-------------------------------- MODULE Dmac --------------------------------
(***************************************************************************)
(* The registers of the DMA controller as dma/phy_interface.c programs     *)
(* them when it is built without SIMULATE_QEMU: reset, configuration, the  *)
(* start of a transfer, and the decoding of its interrupts.                *)
(*                                                                         *)
(* The controller itself is external: it resets, runs an enabled channel   *)
(* and raises the interrupt causes that software has enabled.              *)
(* DMAC_interrupt_handler has no caller yet in src/; it is taken to be the *)
(* handler of the controller's interrupt line, which it decodes.           *)
(***************************************************************************)
EXTENDS Integers, FiniteSets

CONSTANTS
  NumChannels,     \* DMAC_NUMBER_OF_CHANNELS
  Heads,           \* addresses of first descriptors
  Outcomes,        \* environment: the causes a channel raises as it stops
  CommonOutcomes,  \* environment: the causes of a failing register access
  MaxFaults,       \* environment: how often such an access fails
  MaxInFlight,     \* transfers the scheduler starts before one has ended
  Common,          \* names the common registers among the channels'
  NULL

Channels == 0..(NumChannels - 1)

(* The bits DMAC_CHx_interrupt_handler and DMAC_CommonReg_interrupt_handler*)
(* pick from the status registers.  A definition X_w is X with the mistake *)
(* w: the runs must tell them apart.                                       *)
ChannelCauses_noDone == (27..31) \cup (16..21) \cup (3..14) \cup {0}
ChannelCauses == (27..31) \cup (16..21) \cup (3..14) \cup {0, 1}
CommonCauses == {0, 1, 2, 3, 8}
Bits         == 0..31

TransferDone == 1   \* DMA_TFR_DONE_IntStat
BlockDone    == 0   \* BLOCK_TFR_DONE_IntStat

ASSUME DmacAssumption ==
  /\ NumChannels \in Nat \ {0} /\ MaxFaults \in Nat /\ MaxInFlight \in Nat
  /\ Heads \subseteq Nat /\ \A h \in Heads : h % 64 = 0
  /\ NULL \notin Nat /\ Common \notin Nat
  /\ Outcomes \subseteq SUBSET Bits /\ {} \notin Outcomes
  /\ CommonOutcomes \subseteq SUBSET Bits /\ {} \notin CommonOutcomes

VARIABLES
  rst,       \* DMAC_ResetReg[0]
  cfg,       \* DMAC_CfgReg: the bits set
  signals,   \* whose interrupt status and signal enables are all ones
  chcfg,     \* channels whose CHx_CFG has been written
  llp,       \* CHx_LLP
  chen,      \* DMAC_ChEnReg[7:0]
  intstat,   \* CHx_IntStatusReg
  common,    \* DMAC_CommonReg_IntStatusReg
  pc,        \* where dma_init or dma_transfer_channel stands
  head_lli,
  index,     \* free_channel_index, or the i of DMAC_config
  carried,   \* ghost: the chain a channel was started with
  flying,    \* ghost: transfers started and not ended
  faults     \* common faults so far

regs   == <<rst, cfg, signals, chcfg, llp, chen>>
status == <<intstat, common>>
soft   == <<pc, head_lli, index>>
ghost  == <<carried, flying>>
vars   == <<regs, status, soft, ghost, faults>>

(* The interrupt is level-triggered: the program proceeds only without it. *)
INT_EN  == 1
DMAC_EN == 0
Raised  == INT_EN \in cfg /\ (common # {} \/ \E c \in Channels : intstat[c] # {})
At(p)   == ~Raised /\ pc = p

-----------------------------------------------------------------------------
(* dma_init: DMAC_reset and DMAC_config. *)
DMAC_reset == /\ At("reset")
              /\ rst' = TRUE
              /\ pc' = "resetting"
              /\ UNCHANGED <<cfg, signals, chcfg, llp, chen, status, head_lli, index, ghost, faults>>

ResetPoll == /\ At("resetting")
             /\ ~rst
             /\ pc' = "configure"
             /\ UNCHANGED <<regs, status, head_lli, index, ghost, faults>>

DMAC_config_noIntEn == /\ At("configure")
                       /\ cfg' = {DMAC_EN}
                       /\ signals' = signals \cup {Common}
                       /\ index' = 0
                       /\ pc' = "signals"
                       /\ UNCHANGED <<rst, chcfg, llp, chen, status, head_lli, ghost, faults>>

DMAC_config == /\ At("configure")
               /\ cfg' = {INT_EN, DMAC_EN}
               /\ signals' = signals \cup {Common}
               /\ index' = 0
               /\ pc' = "signals"
               /\ UNCHANGED <<rst, chcfg, llp, chen, status, head_lli, ghost, faults>>

DMAC_config_channel ==
  /\ At("signals")
  /\ signals' = signals \cup {index}
  /\ IF index + 1 < NumChannels THEN index' = index + 1 /\ UNCHANGED pc
                                ELSE index' = NULL /\ pc' = "idle"
  /\ UNCHANGED <<rst, cfg, chcfg, llp, chen, status, head_lli, ghost, faults>>

-----------------------------------------------------------------------------
(* dma_transfer_channel.  A chain is ready; DMAC_get_free_channel takes the*)
(* first zero bit of the register it reads, which is not DMAC_ChEnReg but  *)
(* DMAC_CfgReg.                                                            *)
ChainReady == /\ At("idle")
              /\ flying < MaxInFlight
              /\ \E h \in Heads : head_lli' = h
              /\ pc' = "find"
              /\ UNCHANGED <<regs, status, index, ghost, faults>>

FirstZero(reg) == {c \in Channels \ reg : \A d \in Channels \ reg : c <= d}

DMAC_get_free_channel == /\ At("find")
                         /\ index' \in FirstZero(cfg)
                         /\ pc' = "cfg"
                         /\ UNCHANGED <<regs, status, head_lli, ghost, faults>>

cfg_config == /\ At("cfg")
              /\ chcfg' = chcfg \cup {index}
              /\ pc' = "llp"
              /\ UNCHANGED <<rst, cfg, signals, llp, chen, status, head_lli, index, ghost, faults>>

(* The address without its low six bits, which are zero. *)
LOC_seven(h) == h - (h % 128)
LOC(h) == h - (h % 64)

DMAC_CHx_specify_first_lli == /\ At("llp")
                              /\ llp' = [llp EXCEPT ![index] = LOC(head_lli)]
                              /\ pc' = "enable"
                              /\ UNCHANGED <<rst, cfg, signals, chcfg, chen, status, head_lli,
                                             index, ghost, faults>>

DMAC_CHx_enable_channel == /\ At("enable")
                           /\ chen' = chen \cup {index}
                           /\ carried' = [carried EXCEPT ![index] = head_lli]
                           /\ flying' = flying + 1
                           /\ head_lli' = NULL /\ index' = NULL
                           /\ pc' = "idle"
                           /\ UNCHANGED <<rst, cfg, signals, chcfg, llp, status, faults>>

Program == \/ DMAC_reset \/ ResetPoll \/ DMAC_config \/ DMAC_config_channel
           \/ ChainReady \/ DMAC_get_free_channel \/ cfg_config
           \/ DMAC_CHx_specify_first_lli \/ DMAC_CHx_enable_channel

-----------------------------------------------------------------------------
(* DMAC_interrupt_handler: a common cause first, then the highest channel; *)
(* of these the highest bit is cleared, and no other.                      *)
Highest_lowest(S) == CHOOSE b \in S : \A x \in S : b <= x
Highest(S) == CHOOSE b \in S : \A x \in S : x <= b

DMAC_CommonReg_interrupt_handler ==
  /\ Raised
  /\ common \cap CommonCauses # {}
  /\ common' = common \ {Highest(common \cap CommonCauses)}
  /\ UNCHANGED <<regs, intstat, soft, ghost, faults>>

DMAC_CHx_interrupt_handler(c) ==
  /\ Raised
  /\ common = {}
  /\ intstat[c] # {} /\ \A d \in Channels : d > c => intstat[d] = {}
  /\ intstat[c] \cap ChannelCauses # {}
  /\ intstat' = [intstat EXCEPT ![c] = @ \ {Highest(@ \cap ChannelCauses)}]
  /\ UNCHANGED <<regs, common, soft, ghost, faults>>

DMAC_interrupt_handler == \/ DMAC_CommonReg_interrupt_handler
                          \/ \E c \in Channels : DMAC_CHx_interrupt_handler(c)

-----------------------------------------------------------------------------
(* The controller. *)
ResetDone == /\ rst
             /\ rst' = FALSE
             /\ cfg' = {} /\ signals' = {} /\ chcfg' = {} /\ chen' = {}
             /\ llp' = [c \in Channels |-> NULL]
             /\ UNCHANGED <<status, soft, ghost, faults>>

ChannelStops(c) == /\ c \in chen /\ DMAC_EN \in cfg
                   /\ chen' = chen \ {c}
                   /\ flying' = flying - 1
                   /\ IF c \in signals
                      THEN \E S \in Outcomes :
                             intstat' = [intstat EXCEPT ![c] = @ \cup S]
                      ELSE UNCHANGED intstat
                   /\ UNCHANGED <<rst, cfg, signals, chcfg, llp, common, soft, carried, faults>>

CommonFault == /\ Common \in signals /\ faults < MaxFaults
               /\ \E S \in CommonOutcomes : common' = common \cup S
               /\ faults' = faults + 1
               /\ UNCHANGED <<regs, intstat, soft, ghost>>

-----------------------------------------------------------------------------
(* Power-on: the registers hold their reset values. *)
Init == /\ rst = FALSE /\ cfg = {} /\ signals = {} /\ chcfg = {} /\ chen = {}
        /\ llp = [c \in Channels |-> NULL]
        /\ intstat = [c \in Channels |-> {}] /\ common = {}
        /\ pc = "reset" /\ head_lli = NULL /\ index = NULL
        /\ carried = [c \in Channels |-> NULL] /\ flying = 0 /\ faults = 0

Next == \/ Program \/ DMAC_interrupt_handler
        \/ ResetDone \/ (\E c \in Channels : ChannelStops(c)) \/ CommonFault

(* The processor runs and takes interrupts; the controller ends a reset    *)
(* and every transfer it was given.                                        *)
Fairness == /\ WF_vars(Program) /\ WF_vars(DMAC_interrupt_handler)
            /\ WF_vars(ResetDone) /\ \A c \in Channels : WF_vars(ChannelStops(c))

Spec     == Init /\ [][Next]_vars
FairSpec == Spec /\ Fairness
-----------------------------------------------------------------------------
(* Every register and variable stays in its range. *)
TypeOK == /\ rst \in BOOLEAN
          /\ cfg \in SUBSET {INT_EN, DMAC_EN}
          /\ signals \in SUBSET (Channels \cup {Common})
          /\ chcfg \in SUBSET Channels /\ chen \in SUBSET Channels
          /\ llp \in [Channels -> Heads \cup {NULL}]
          /\ intstat \in [Channels -> SUBSET Bits]
          /\ common \in SUBSET Bits
          /\ pc \in {"reset", "resetting", "configure", "signals", "idle", "find", "cfg",
                     "llp", "enable"}
          /\ head_lli \in Heads \cup {NULL}
          /\ index \in Channels \cup {NULL}
          /\ carried \in [Channels -> Heads \cup {NULL}]
          /\ flying \in Int /\ faults \in 0..MaxFaults

(* A channel that runs was configured first, can raise its interrupt, and  *)
(* follows the chain it was last started with, unless it is just being     *)
(* programmed again (DMAC_config, dma_transfer_channel).  However many     *)
(* transfers are under way: one that is programmed over an unfinished one  *)
(* still leaves the channel in order for the later of the two.             *)
RunningConfigured ==
  \A c \in chen : /\ carried[c] # NULL
                  /\ llp[c] = carried[c] \/ (pc = "enable" /\ index = c)
                  /\ c \in chcfg
                  /\ cfg = {INT_EN, DMAC_EN} /\ {c, Common} \subseteq signals

(* A channel is not taken for finished while it has an error no one has    *)
(* read (the order of the cases in DMAC_CHx_interrupt_handler).            *)
ErrorsBeforeDone ==
  [][\A c \in Channels :
       TransferDone \in intstat[c] /\ TransferDone \notin intstat'[c]
         => intstat[c] \subseteq {TransferDone, BlockDone}]_vars

(* Whatever is raised is decoded and cleared, although one pass of the     *)
(* handler serves one cause of one source only: the line is not stuck.     *)
EveryCauseServed ==
  /\ common # {} ~> common = {}
  /\ \A c \in Channels : intstat[c] # {} ~> intstat[c] = {}
=============================================================================
