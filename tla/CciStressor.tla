----------------------------- MODULE CciStressor -----------------------------
(***************************************************************************)
(* The bare-metal guest baremetal_CCI in the tests that load the           *)
(* interconnect with DMA (main.c, drivers/zdma): the master core deals the *)
(* ZDMA channels out to the cores, configures them and opens a barrier,    *)
(* after which every core restarts its own channels as they finish.  With  *)
(* TestFpga core 0 drives the CDMA engine of the FPGA instead, and the     *)
(* channels are dealt out from core 1 on.                                  *)
(*                                                                         *)
(* The arrays the master fills are neither volatile nor read behind a      *)
(* barrier: with StaleReads a core may see what they held before.  The     *)
(* array core_state is left out: only a handler that is commented out      *)
(* reads it.  Cores and list positions count from 0 and from 1.            *)
(*                                                                         *)
(* An operator marked Fault is a slip the checks must notice: it stands    *)
(* next to the operator it may replace, and no action uses it.             *)
(***************************************************************************)
EXTENDS Integers, Sequences

CONSTANTS
  NumCpus,     (* NUM_CPUS                                                  *)
  Channels,    (* DMA_CHANNELS                                              *)
  TestFpga,    (* TEST_TYPE is TEST_TYPE_DMA_FPGA, not TEST_TYPE_DMA.       *)
  Coherent,    (* COHERENCY                                                 *)
  StaleReads   (* Loads after the barrier may be satisfied before it.       *)

StartCore == IF TestFpga THEN 1 ELSE 0
Cpus      == 0..(NumCpus - 1)
Zdma      == 0..(Channels - 1)
CDMA      == -1
Engines   == IF TestFpga THEN Zdma \union {CDMA} ELSE Zdma
Settings  == {"size", "addr", "coherent"}

(* With no core left for the channels the code divides by zero.            *)
ASSUME ConstantsAssumption ==
  /\ NumCpus \in Nat
  /\ Channels \in Nat \ {0}
  /\ TestFpga \in BOOLEAN
  /\ Coherent \in BOOLEAN
  /\ StaleReads \in BOOLEAN
  /\ NumCpus > StartCore

VARIABLES
  pc,          (* Where each core is.                                       *)
  dealt,       (* i of assign_zdma_channels                                 *)
  list,        (* cpu_dma_chnls[c], as long as cpu_dma_chnls_assigned[c].   *)
  conf,        (* What has been written to the registers of an engine.      *)
  masterDone,  (* master_done                                               *)
  busy,        (* The engine is transferring: ctrl2, or CDMASR not idle.    *)
  n,           (* The length of its list, as a core has read it.            *)
  idx,         (* i of run_core                                             *)
  cur,         (* The engine a core has found idle.                         *)
  early,       (* The core has not finished a pass since the barrier.       *)
  stale        (* History: cores that read something stale.                 *)

vars == << pc, dealt, list, conf, masterDone, busy, n, idx, cur, early, stale >>
setupVars == << dealt, list, conf, masterDone >>
coreVars  == << n, idx, cur, early, stale >>

Init ==
  /\ pc = [c \in Cpus |-> IF c = 0 THEN "assign" ELSE "barrier"]
  /\ dealt = 0
  /\ list = [c \in Cpus |-> << >>]
  /\ conf = [d \in Engines |-> {}]
  /\ masterDone = FALSE
  /\ busy = [d \in Engines |-> FALSE]
  /\ n = [c \in Cpus |-> 0]
  /\ idx = [c \in Cpus |-> 0]
  /\ cur = [c \in Cpus |-> 0]
  /\ early = [c \in Cpus |-> TRUE]
  /\ stale = {}

-----------------------------------------------------------------------------
(* The master core sets everything up.                                     *)

Owner(i) == StartCore + (i % (NumCpus - StartCore))

DealtOneMore == dealt > Channels              (* Fault: i <= DMA_channels.   *)
AllDealt     == dealt = Channels

AssignChannel ==
  /\ pc[0] = "assign"
  /\ ~ AllDealt
  /\ list' = [list EXCEPT ![Owner(dealt)] = Append(@, dealt)]
  /\ dealt' = dealt + 1
  /\ UNCHANGED << pc, conf, masterDone, busy, coreVars >>

Configure(from, to, engines, setting) ==
  /\ pc[0] = from
  /\ pc' = [pc EXCEPT ![0] = to]
  /\ conf' = [d \in Engines |-> IF d \in engines THEN conf[d] \union {setting} ELSE conf[d]]
  /\ UNCHANGED << dealt, list, masterDone, busy, coreVars >>

(* dma_interf_init waits for each channel to be idle.                      *)
InitChannels ==
  /\ AllDealt
  /\ \A d \in Zdma : ~ busy[d]
  /\ Configure("assign", "addr", Zdma, "size")

SetAddresses ==
  Configure("addr", IF TestFpga THEN "cdma" ELSE "coherency", Zdma, "addr")

(* fpga_dma_init waits for the end of the reset and for the idle flag.     *)
FpgaInit ==
  /\ TestFpga
  /\ ~ busy[CDMA]
  /\ Configure("cdma", "coherency", {CDMA}, "addr")

(* zdma_ch_set_noncoherent ors zeroes into the registers.                  *)
SetCoherency ==
  Configure("coherency", "publish", IF Coherent THEN Zdma ELSE {}, "coherent")

MasterDone ==
  /\ pc[0] = "publish"
  /\ masterDone' = TRUE
  /\ pc' = [pc EXCEPT ![0] = "barrier"]
  /\ UNCHANGED << dealt, list, conf, busy, coreVars >>

Setup ==
  \/ AssignChannel \/ InitChannels \/ SetAddresses \/ FpgaInit
  \/ SetCoherency \/ MasterDone

-----------------------------------------------------------------------------
(* Every core, past the barrier.                                           *)

NoBarrier   == TRUE                           (* Fault: no while(!master_done). *)
BarrierOpen == masterDone

PassBarrier(c) ==
  /\ pc[c] = "barrier"
  /\ BarrierOpen
  /\ pc' = [pc EXCEPT ![c] = "enter"]
  /\ UNCHANGED << setupVars, busy, coreVars >>

OnFpga(c) == TestFpga /\ c = 0

(* The master wrote the arrays itself.                                     *)
MayBeStale(c) == StaleReads /\ early[c] /\ c # 0

(* dma_interf_en                                                           *)
Enter(c) ==
  /\ pc[c] = "enter"
  /\ ~ OnFpga(c)
  /\ \E m \in IF MayBeStale(c) THEN 0..Len(list[c]) ELSE {Len(list[c])} :
       /\ n' = [n EXCEPT ![c] = m]
       /\ pc' = [pc EXCEPT ![c] = IF m > 0 THEN "run" ELSE "wfi"]
       /\ stale' = IF m = Len(list[c]) THEN stale ELSE stale \union {c}
  /\ idx' = [idx EXCEPT ![c] = 0]
  /\ UNCHANGED << setupVars, busy, cur, early >>

(* No interrupt of the guest is enabled; one of the hypervisor's may come. *)
Wake(c) ==
  /\ pc[c] = "wfi"
  /\ pc' = [pc EXCEPT ![c] = "enter"]
  /\ early' = [early EXCEPT ![c] = FALSE]
  /\ UNCHANGED << setupVars, busy, n, idx, cur, stale >>

FirstList(c) == list[StartCore][idx[c] + 1]   (* Fault: one list for all.    *)
Entry(c)     == list[c][idx[c] + 1]

SameIndex(c) == idx[c]                        (* Fault: i++ lost.            *)
NextIndex(c) == idx[c] + 1

(* One iteration of run_core, up to zdma_ch_check_finish.                  *)
CheckFinish(c) ==
  /\ pc[c] = "run"
  /\ idx[c] < n[c]
  /\ \E d \in {Entry(c)} \union (IF MayBeStale(c) THEN {0} ELSE {}) :
       /\ stale' = IF d = Entry(c) THEN stale ELSE stale \union {c}
       /\ IF busy[d]
            THEN /\ idx' = [idx EXCEPT ![c] = NextIndex(c)]
                 /\ UNCHANGED << pc, cur >>
            ELSE /\ cur' = [cur EXCEPT ![c] = d]
                 /\ pc' = [pc EXCEPT ![c] = "start"]
                 /\ UNCHANGED idx
  /\ UNCHANGED << setupVars, busy, n, early >>

(* zdma_ch_start                                                           *)
StartChannel(c) ==
  /\ pc[c] = "start"
  /\ ~ OnFpga(c)
  /\ busy' = [busy EXCEPT ![cur[c]] = TRUE]
  /\ idx' = [idx EXCEPT ![c] = NextIndex(c)]
  /\ pc' = [pc EXCEPT ![c] = "run"]
  /\ UNCHANGED << setupVars, n, cur, early, stale >>

EndPass(c) ==
  /\ pc[c] = "run"
  /\ idx[c] = n[c]
  /\ pc' = [pc EXCEPT ![c] = "enter"]
  /\ early' = [early EXCEPT ![c] = FALSE]
  /\ UNCHANGED << setupVars, busy, n, idx, cur, stale >>

(* fpga_dma_en: wait for the idle flag, then write the length.             *)
FpgaPoll(c) ==
  /\ pc[c] = "enter"
  /\ OnFpga(c)
  /\ ~ busy[CDMA]
  /\ cur' = [cur EXCEPT ![c] = CDMA]
  /\ pc' = [pc EXCEPT ![c] = "start"]
  /\ UNCHANGED << setupVars, busy, n, idx, early, stale >>

FpgaStart(c) ==
  /\ pc[c] = "start"
  /\ OnFpga(c)
  /\ busy' = [busy EXCEPT ![cur[c]] = TRUE]
  /\ pc' = [pc EXCEPT ![c] = "enter"]
  /\ UNCHANGED << setupVars, coreVars >>

Core(c) ==
  \/ PassBarrier(c) \/ Enter(c) \/ CheckFinish(c) \/ StartChannel(c)
  \/ EndPass(c) \/ FpgaPoll(c) \/ FpgaStart(c)

-----------------------------------------------------------------------------
(* The engines, external: a transfer ends.                                 *)
Complete(d) ==
  /\ busy[d]
  /\ busy' = [busy EXCEPT ![d] = FALSE]
  /\ UNCHANGED << pc, setupVars, coreVars >>

Next ==
  \/ Setup
  \/ \E c \in Cpus : Core(c) \/ Wake(c)
  \/ \E d \in Engines : Complete(d)

Spec == Init /\ [][Next]_vars

(* The cores run in parallel and transfers end; nothing wakes a core.      *)
FairSpec ==
  /\ Spec
  /\ WF_vars(Setup)
  /\ \A c \in Cpus : WF_vars(Core(c))
  /\ \A d \in Engines : WF_vars(Complete(d))
-----------------------------------------------------------------------------
(* Properties.                                                             *)

Pcs == {"assign", "addr", "cdma", "coherency", "publish", "barrier", "enter",
        "run", "start", "wfi"}

(* The shape of the state; the lists hold channels only.                   *)
TypeOK ==
  /\ pc \in [Cpus -> Pcs]
  /\ dealt \in 0..Channels
  /\ list \in [Cpus -> Seq(Zdma)]
  /\ conf \in [Engines -> SUBSET Settings]
  /\ masterDone \in BOOLEAN
  /\ busy \in [Engines -> BOOLEAN]
  /\ n \in [Cpus -> Nat]
  /\ idx \in [Cpus -> Nat]
  /\ cur \in [Cpus -> Engines \union {0}]
  /\ early \in [Cpus -> BOOLEAN]
  /\ stale \in SUBSET Cpus

Expected(d) ==
  IF d = CDMA THEN {"addr"}
  ELSE {"size", "addr"} \union (IF Coherent THEN {"coherent"} ELSE {})

(* No engine transfers before the master has written all its registers,    *)
(* on whatever core it is started: main() publishes master_done last.      *)
StartedConfigured == \A d \in Engines : busy[d] => conf[d] = Expected(d)

(* Between the check that an engine has finished and its start nobody      *)
(* else starts it: every engine has one core.  A core that read the list   *)
(* of channels stale takes channel 0 for one of its own.                   *)
StartedOnceUnlessStale ==
  \A c \in Cpus : pc[c] = "start" =>
    \/ ~ busy[cur[c]]
    \/ cur[c] = 0 /\ stale # {}

(* Every engine is loaded again and again, unless a core that read its     *)
(* count stale went to sleep: nothing wakes it up.                         *)
EnginesKeepRunningUnlessStale ==
  \A d \in Engines : []<> busy[d] \/ <> (stale # {})
=============================================================================
