-------------------------- MODULE CciStressor_proofs --------------------------
(***************************************************************************)
(* Proofs about CciStressor, for every number of cores and channels: the   *)
(* types, and that an engine is configured before it is started and has    *)
(* one core that starts it.                                                *)
(***************************************************************************)
EXTENDS CciStressor, TLAPS

(* assign_zdma_channels names a core that exists, and never core 0 when    *)
(* that one drives the FPGA.                                               *)
LEMMA OwnerType == \A i \in Zdma : Owner(i) \in Cpus /\ ~ OnFpga(Owner(i))
<1> SUFFICES ASSUME NEW i \in Zdma PROVE Owner(i) \in Cpus /\ ~ OnFpga(Owner(i))
  OBVIOUS
<1> USE ConstantsAssumption DEF ConstantsAssumption
<1>1. StartCore \in {0, 1} /\ NumCpus - StartCore \in Nat \ {0}
  BY DEF StartCore
<1>2. i \in Int
  BY DEF Zdma
<1>3. i % (NumCpus - StartCore) \in 0..(NumCpus - StartCore - 1)
  BY <1>1, <1>2
<1> QED
  BY <1>1, <1>3 DEF Owner, Cpus, OnFpga, StartCore

LEMMA EnginesFacts ==
  /\ Zdma \subseteq Engines
  /\ 0 \in Zdma
  /\ CDMA \notin Zdma
  /\ CDMA # 0
  /\ TestFpga => CDMA \in Engines
  /\ 0 \in Cpus
BY ConstantsAssumption DEF ConstantsAssumption, Engines, Zdma, CDMA, Cpus, StartCore

-----------------------------------------------------------------------------
(* The lists hold channels of the core they belong to.                     *)
ListInv ==
  \A c \in Cpus : \A j \in 1..Len(list[c]) :
    list[c][j] \in Zdma /\ Owner(list[c][j]) = c

(* A core within run_core stays within its list.                           *)
PassInv ==
  \A c \in Cpus :
    /\ pc[c] = "run" => n[c] <= Len(list[c]) /\ idx[c] <= n[c] /\ ~ OnFpga(c)
    /\ pc[c] = "start" /\ ~ OnFpga(c) => n[c] <= Len(list[c]) /\ idx[c] < n[c]

InSetup == pc[0] \in {"assign", "addr", "cdma", "coherency", "publish"}

(* While the master configures, the other cores are at the barrier.        *)
BarrierInv ==
  /\ masterDone <=> ~ InSetup
  /\ \A c \in Cpus \ {0} : pc[c] = "barrier" \/ masterDone
  /\ \A c \in Cpus \ {0} :
       pc[c] \notin {"assign", "addr", "cdma", "coherency", "publish"}

TypeInv == TypeOK /\ ListInv /\ PassInv /\ BarrierInv

LEMMA TypeInit == Init => TypeInv
<1> SUFFICES ASSUME Init PROVE TypeInv
  OBVIOUS
<1>0. 0 \in 0..Channels /\ 0 \in Nat
  BY ConstantsAssumption DEF ConstantsAssumption
<1>1. << >> \in Seq(Zdma)
  OBVIOUS
<1>2. TypeOK
  BY <1>0, <1>1, EnginesFacts DEF Init, TypeOK, Pcs
<1>3. ListInv
  BY DEF Init, ListInv
<1>4. PassInv /\ BarrierInv
  BY EnginesFacts DEF Init, PassInv, BarrierInv, InSetup
<1> QED
  BY <1>2, <1>3, <1>4 DEF TypeInv

(* The steps of the master's setup.                                        *)
LEMMA TypeSetup == TypeInv /\ Setup => TypeInv'
<1> SUFFICES ASSUME TypeInv, Setup PROVE TypeInv'
  OBVIOUS
<1> USE EnginesFacts DEF TypeInv, TypeOK, Pcs
<1>1. CASE AssignChannel
  <2> USE <1>1 DEF AssignChannel, coreVars, AllDealt
  <2>1. dealt \in Zdma /\ dealt + 1 \in 0..Channels
    BY ConstantsAssumption DEF ConstantsAssumption, Zdma
  <2>2. Owner(dealt) \in Cpus
    BY <2>1, OwnerType
  <2>3. list' \in [Cpus -> Seq(Zdma)]
    BY <2>1, <2>2
  <2>4. TypeOK'
    BY <2>1, <2>3
  <2>5. ASSUME NEW c \in Cpus, NEW j \in 1..Len(list'[c])
        PROVE  list'[c][j] \in Zdma /\ Owner(list'[c][j]) = c
    <3>1. CASE c = Owner(dealt)
      <4>1. list'[c] = Append(list[c], dealt) /\ list[c] \in Seq(Zdma)
        BY <3>1
      <4>2. Len(list'[c]) = Len(list[c]) + 1
        BY <4>1, <2>1
      <4>3. CASE j \in 1..Len(list[c])
        <5>1. list'[c][j] = list[c][j]
          BY <4>1, <4>3, <2>1
        <5> QED BY <4>3, <5>1 DEF ListInv
      <4>4. CASE j = Len(list[c]) + 1
        <5>1. list'[c][j] = dealt
          BY <4>1, <4>4, <2>1
        <5> QED BY <5>1, <3>1, <2>1
      <4> QED BY <4>1, <4>2, <4>3, <4>4
    <3>2. CASE c # Owner(dealt)
      BY <3>2 DEF ListInv
    <3> QED BY <3>1, <3>2
  <2>6. InSetup /\ BarrierInv'
    BY DEF InSetup, BarrierInv
  <2>7. \A c \in Cpus : pc[c] \notin {"run", "start"}
    BY <2>6 DEF BarrierInv, InSetup
  <2>8. PassInv'
    BY <2>7 DEF PassInv
  <2> QED BY <2>4, <2>5, <2>6, <2>8 DEF ListInv
<1>2. ASSUME NEW from \in Pcs, NEW to \in {"addr", "cdma", "coherency", "publish"},
             NEW engines, NEW setting \in Settings,
             from \in {"assign", "addr", "cdma", "coherency"},
             Configure(from, to, engines, setting)
      PROVE  TypeInv'
  <2> USE <1>2 DEF Configure, coreVars
  <2>1. conf' \in [Engines -> SUBSET Settings]
    OBVIOUS
  <2>2. TypeOK'
    BY <2>1
  <2>3. ListInv'
    BY DEF ListInv
  <2>4. PassInv'
    BY DEF PassInv
  <2>5. BarrierInv'
    BY DEF BarrierInv, InSetup
  <2> QED BY <2>2, <2>3, <2>4, <2>5
<1>3. CASE InitChannels
  BY <1>3, <1>2 DEF InitChannels, Settings
<1>4. CASE SetAddresses
  BY <1>4, <1>2 DEF SetAddresses, Settings
<1>5. CASE FpgaInit
  BY <1>5, <1>2 DEF FpgaInit, Settings
<1>6. CASE SetCoherency
  BY <1>6, <1>2 DEF SetCoherency, Settings
<1>7. CASE MasterDone
  <2> USE <1>7 DEF MasterDone, coreVars
  <2>1. TypeOK'
    OBVIOUS
  <2>2. ListInv' /\ PassInv'
    BY DEF ListInv, PassInv
  <2>3. BarrierInv'
    BY DEF BarrierInv, InSetup
  <2> QED BY <2>1, <2>2, <2>3
<1> QED BY <1>1, <1>3, <1>4, <1>5, <1>6, <1>7 DEF Setup

(* The steps of a core past the barrier.                                   *)
LEMMA TypeCore == ASSUME NEW c \in Cpus, TypeInv, Core(c) \/ Wake(c) PROVE TypeInv'
<1> USE EnginesFacts DEF TypeInv, TypeOK, Pcs, setupVars, coreVars
<1>1. ListInv'
  BY DEF Core, PassBarrier, Enter, Wake, CheckFinish, StartChannel, EndPass, FpgaPoll,
         FpgaStart, ListInv
<1>2. BarrierInv'
  <2>1. UNCHANGED setupVars /\ pc[c] \notin {"assign", "addr", "cdma", "coherency", "publish"}
    BY DEF Core, PassBarrier, Enter, Wake, CheckFinish, StartChannel, EndPass, FpgaPoll, FpgaStart
  <2>2. \A e \in Cpus \ {c} : pc'[e] = pc[e]
    BY DEF Core, PassBarrier, Enter, Wake, CheckFinish, StartChannel, EndPass, FpgaPoll, FpgaStart
  <2>3. pc'[c] \in Pcs \ {"assign", "addr", "cdma", "coherency", "publish"}
    BY DEF Core, PassBarrier, Enter, Wake, CheckFinish, StartChannel, EndPass, FpgaPoll, FpgaStart
  <2>4. pc[c] = "barrier" => masterDone \/ pc'[c] = "barrier"
    BY DEF Core, PassBarrier, Enter, Wake, CheckFinish, StartChannel, EndPass, FpgaPoll,
           FpgaStart, BarrierOpen
  <2> QED BY <2>1, <2>2, <2>3, <2>4 DEF BarrierInv, InSetup
<1>3. Len(list[c]) \in Nat
  OBVIOUS
<1>4. CASE PassBarrier(c)
  <2>1. TypeOK'  BY <1>4 DEF PassBarrier
  <2>2. PassInv'  BY <1>4 DEF PassBarrier, PassInv
  <2> QED BY <1>1, <1>2, <2>1, <2>2
<1>5. CASE Enter(c)
  <2>1. PICK m \in 0..Len(list[c]) :
          /\ n' = [n EXCEPT ![c] = m]
          /\ pc' = [pc EXCEPT ![c] = IF m > 0 THEN "run" ELSE "wfi"]
          /\ stale' = IF m = Len(list[c]) THEN stale ELSE stale \union {c}
    <3>1. Len(list[c]) \in 0..Len(list[c])
      BY <1>3
    <3>2. (IF MayBeStale(c) THEN 0..Len(list[c]) ELSE {Len(list[c])}) \subseteq 0..Len(list[c])
      BY <3>1, Zenon
    <3> QED BY <3>2, <1>5, Zenon DEF Enter
  <2>2. TypeOK'  BY <1>3, <1>5, <2>1 DEF Enter
  <2>3. PassInv'  BY <1>3, <1>5, <2>1 DEF Enter, PassInv
  <2> QED BY <1>1, <1>2, <2>2, <2>3
<1>6. CASE Wake(c)
  <2>1. TypeOK'  BY <1>6 DEF Wake
  <2>2. PassInv'  BY <1>6 DEF Wake, PassInv
  <2> QED BY <1>1, <1>2, <2>1, <2>2
<1>7. CASE CheckFinish(c)
  <2>1. Entry(c) \in Zdma
    BY <1>7, <1>3 DEF CheckFinish, Entry, ListInv, PassInv
  <2>2. PICK d \in {Entry(c), 0} :
          /\ stale' = IF d = Entry(c) THEN stale ELSE stale \union {c}
          /\ IF busy[d]
               THEN idx' = [idx EXCEPT ![c] = NextIndex(c)] /\ UNCHANGED << pc, cur >>
               ELSE /\ cur' = [cur EXCEPT ![c] = d]
                    /\ pc' = [pc EXCEPT ![c] = "start"]
                    /\ UNCHANGED idx
    BY <1>7 DEF CheckFinish
  <2>3. CASE busy[d]
    <3>1. /\ idx' = [idx EXCEPT ![c] = idx[c] + 1]
          /\ stale' \in SUBSET Cpus
          /\ UNCHANGED << pc, cur, n, early, dealt, list, conf, masterDone, busy >>
      BY <1>7, <2>2, <2>3 DEF CheckFinish, NextIndex
    <3>2. TypeOK'
      BY <3>1
    <3>3. PassInv'
      BY <1>3, <1>7, <3>1 DEF CheckFinish, PassInv
    <3> QED BY <1>1, <1>2, <3>2, <3>3
  <2>4. CASE ~ busy[d]
    <3>1. /\ cur' = [cur EXCEPT ![c] = d]
          /\ pc' = [pc EXCEPT ![c] = "start"]
          /\ stale' \in SUBSET Cpus
          /\ UNCHANGED << idx, n, early, dealt, list, conf, masterDone, busy >>
      BY <1>7, <2>2, <2>4 DEF CheckFinish
    <3>2. TypeOK'
      BY <2>1, <3>1
    <3>3. PassInv'
      BY <1>3, <1>7, <3>1 DEF CheckFinish, PassInv
    <3> QED BY <1>1, <1>2, <3>2, <3>3
  <2> QED BY <2>3, <2>4
<1>8. CASE StartChannel(c)
  <2>1. TypeOK'  BY <1>8 DEF StartChannel, NextIndex
  <2>2. PassInv'  BY <1>3, <1>8 DEF StartChannel, NextIndex, PassInv
  <2> QED BY <1>1, <1>2, <2>1, <2>2
<1>9. CASE EndPass(c)
  <2>1. TypeOK'  BY <1>9 DEF EndPass
  <2>2. PassInv'  BY <1>9 DEF EndPass, PassInv
  <2> QED BY <1>1, <1>2, <2>1, <2>2
<1>10. CASE FpgaPoll(c)
  <2>1. TypeOK'  BY <1>10 DEF FpgaPoll, OnFpga
  <2>2. PassInv'  BY <1>10 DEF FpgaPoll, PassInv
  <2> QED BY <1>1, <1>2, <2>1, <2>2
<1>11. CASE FpgaStart(c)
  <2>1. TypeOK'  BY <1>11 DEF FpgaStart
  <2>2. PassInv'  BY <1>11 DEF FpgaStart, PassInv
  <2> QED BY <1>1, <1>2, <2>1, <2>2
<1> QED BY <1>4, <1>5, <1>6, <1>7, <1>8, <1>9, <1>10, <1>11 DEF Core

LEMMA TypeIdle ==
  TypeInv /\ ((\E d \in Engines : Complete(d)) \/ UNCHANGED vars) => TypeInv'
<1> SUFFICES ASSUME TypeInv, (\E d \in Engines : Complete(d)) \/ UNCHANGED vars
             PROVE  TypeInv'
  OBVIOUS
<1> USE DEF Complete, vars, setupVars, coreVars
<1>1. TypeOK'  BY DEF TypeInv, TypeOK
<1>2. ListInv' /\ PassInv'  BY DEF TypeInv, ListInv, PassInv
<1>3. BarrierInv'  BY DEF TypeInv, BarrierInv, InSetup
<1> QED BY <1>1, <1>2, <1>3 DEF TypeInv

(* The types, and the lists within their bounds, whatever the number of    *)
(* cores and channels.                                                     *)
THEOREM TypeCorrect == Spec => []TypeOK
<1>1. TypeInv /\ [Next]_vars => TypeInv'
  BY TypeSetup, TypeCore, TypeIdle DEF Next
<1>2. TypeInv => TypeOK
  BY DEF TypeInv
<1> QED BY <1>1, <1>2, TypeInit, PTL DEF Spec

LEMMA TypeInvariant == Spec => []TypeInv
<1>1. TypeInv /\ [Next]_vars => TypeInv'
  BY TypeSetup, TypeCore, TypeIdle DEF Next
<1> QED BY <1>1, TypeInit, PTL DEF Spec

-----------------------------------------------------------------------------
(* What is configured by then, at each stage of the setup.                 *)
ConfInv ==
  /\ pc[0] = "assign" => \A d \in Engines : conf[d] = {}
  /\ pc[0] = "addr" => \A d \in Engines : conf[d] = IF d = CDMA THEN {} ELSE {"size"}
  /\ pc[0] = "cdma" =>
       \A d \in Engines : conf[d] = IF d = CDMA THEN {} ELSE {"size", "addr"}
  /\ pc[0] = "coherency" =>
       \A d \in Engines : conf[d] = IF d = CDMA THEN {"addr"} ELSE {"size", "addr"}
  /\ pc[0] \notin {"assign", "addr", "cdma", "coherency"} =>
       \A d \in Engines : conf[d] = Expected(d)
  /\ InSetup => \A d \in Engines : ~ busy[d]

(* main() publishes master_done when every register has been written, and  *)
(* no core starts an engine before that.                                   *)
THEOREM ConfiguredFirst == Spec => []StartedConfigured
<1>1. Init => ConfInv
  BY EnginesFacts DEF Init, ConfInv, InSetup
<1>2. TypeInv /\ ConfInv /\ [Next]_vars => ConfInv'
  <2> SUFFICES ASSUME TypeInv, ConfInv, [Next]_vars PROVE ConfInv'
    OBVIOUS
  <2> USE EnginesFacts DEF TypeInv, TypeOK, Pcs, setupVars, coreVars
  <2>1. CASE AssignChannel
    BY <2>1 DEF AssignChannel, ConfInv, InSetup
  <2>2. CASE InitChannels
    <3>1. \A d \in Engines : conf'[d] = IF d \in Zdma THEN {"size"} ELSE {}
      BY <2>2 DEF InitChannels, Configure, ConfInv
    <3>2. \A d \in Engines : d \in Zdma <=> d # CDMA
      BY DEF Engines
    <3> QED BY <2>2, <3>1, <3>2 DEF InitChannels, Configure, ConfInv, InSetup
  <2>3. CASE SetAddresses
    <3>1. \A d \in Engines : conf'[d] = IF d \in Zdma THEN {"size", "addr"} ELSE {}
      <4>1. CASE ~ TestFpga
        BY <2>3, <4>1 DEF SetAddresses, Configure, ConfInv, Engines
      <4>2. CASE TestFpga
        <5>1. \A d \in Engines : conf[d] = IF d = CDMA THEN {} ELSE {"size"}
          BY <2>3 DEF SetAddresses, Configure, ConfInv
        <5>2. \A d \in Engines : d \in Zdma <=> d # CDMA
          BY DEF Engines
        <5>3. {"size"} \union {"addr"} = {"size", "addr"}
          OBVIOUS
        <5> QED BY <2>3, <5>1, <5>2, <5>3 DEF SetAddresses, Configure
      <4> QED BY <4>1, <4>2
    <3>2. \A d \in Engines : d \in Zdma <=> d # CDMA
      BY DEF Engines
    <3>3. ~ TestFpga => CDMA \notin Engines
      BY DEF Engines
    <3> QED BY <2>3, <3>1, <3>2, <3>3 DEF SetAddresses, Configure, ConfInv, InSetup
  <2>4. CASE FpgaInit
    <3>1. \A d \in Engines : conf'[d] = IF d = CDMA THEN {"addr"} ELSE {"size", "addr"}
      BY <2>4 DEF FpgaInit, Configure, ConfInv
    <3> QED BY <2>4, <3>1 DEF FpgaInit, Configure, ConfInv, InSetup
  <2>5. CASE SetCoherency
    <3>1. \A d \in Engines : conf'[d] = Expected(d)
      <4>1. \A d \in Engines : d \in Zdma <=> d # CDMA
        BY DEF Engines
      <4>2. CASE Coherent
        BY <4>1, <4>2, <2>5 DEF SetCoherency, Configure, ConfInv, Expected
      <4>3. CASE ~ Coherent
        BY <4>1, <4>3, <2>5 DEF SetCoherency, Configure, ConfInv, Expected
      <4> QED BY <4>2, <4>3
    <3> QED BY <2>5, <3>1 DEF SetCoherency, Configure, ConfInv, InSetup, Expected
  <2>6. CASE MasterDone
    BY <2>6 DEF MasterDone, ConfInv, InSetup, Expected
  <2>7. ASSUME NEW c \in Cpus, Core(c) \/ Wake(c) PROVE ConfInv'
    <3>1. conf' = conf /\ Engines = DOMAIN busy
      BY <2>7 DEF Core, PassBarrier, Enter, Wake, CheckFinish, StartChannel, EndPass,
                  FpgaPoll, FpgaStart
    <3>2. ~ InSetup
      BY <2>7 DEF Core, PassBarrier, Enter, Wake, CheckFinish, StartChannel, EndPass,
                  FpgaPoll, FpgaStart, BarrierInv, BarrierOpen, InSetup
    <3>3. (~ InSetup)'
      <4>1. pc'[0] = pc[0] \/ pc'[0] \in {"enter", "run", "start", "wfi"}
        BY <2>7 DEF Core, PassBarrier, Enter, Wake, CheckFinish, StartChannel, EndPass,
                  FpgaPoll, FpgaStart
      <4> QED BY <3>2, <4>1 DEF InSetup
    <3> QED BY <3>1, <3>2, <3>3 DEF ConfInv, InSetup, Expected
  <2>8. ASSUME NEW d \in Engines, Complete(d) PROVE ConfInv'
    BY <2>8 DEF Complete, ConfInv, InSetup, Expected
  <2>9. CASE UNCHANGED vars
    BY <2>9 DEF vars, ConfInv, InSetup, Expected
  <2> QED BY <2>1, <2>2, <2>3, <2>4, <2>5, <2>6, <2>7, <2>8, <2>9 DEF Next, Setup
<1>3. ConfInv => StartedConfigured
  BY DEF ConfInv, StartedConfigured, InSetup
<1> QED BY <1>1, <1>2, <1>3, TypeInvariant, PTL DEF Spec

-----------------------------------------------------------------------------
(* Every engine is started by one core.                                    *)
Drives(c, d) == IF d = CDMA THEN OnFpga(c) ELSE ~ OnFpga(c) /\ Owner(d) = c

DriveInv ==
  \A c \in Cpus : pc[c] = "start" =>
    \/ cur[c] \in Engines /\ Drives(c, cur[c])
    \/ cur[c] = 0 /\ stale # {}

DriverInv == DriveInv /\ StartedOnceUnlessStale

(* No two cores have the same engine in hand, however the channels are     *)
(* dealt out to the cores: between zdma_ch_check_finish and zdma_ch_start  *)
(* a channel stays idle.                                                   *)
THEOREM StartedOnce == Spec => []StartedOnceUnlessStale
<1>1. Init => DriverInv
  BY EnginesFacts DEF Init, DriverInv, DriveInv, StartedOnceUnlessStale
<1>2. TypeInv /\ DriverInv /\ [Next]_vars => DriverInv'
  <2> SUFFICES ASSUME TypeInv, DriverInv, [Next]_vars PROVE DriverInv'
    OBVIOUS
  <2> USE EnginesFacts DEF TypeInv, TypeOK, Pcs, setupVars, coreVars, DriverInv, DriveInv,
                           StartedOnceUnlessStale
  <2>1. CASE Setup
    BY <2>1 DEF Setup, AssignChannel, Configure, InitChannels, SetAddresses, FpgaInit,
                SetCoherency, MasterDone
  <2>2. ASSUME NEW c \in Cpus,
               PassBarrier(c) \/ Enter(c) \/ Wake(c) \/ EndPass(c)
        PROVE  DriverInv'
    <3>1. cur' = cur /\ busy' = busy /\ stale \subseteq stale'
      BY <2>2 DEF PassBarrier, Enter, Wake, EndPass
    <3>2. pc'[c] # "start" /\ \A e \in Cpus \ {c} : pc'[e] = pc[e]
      <4>1. CASE PassBarrier(c)  BY <4>1 DEF PassBarrier
      <4>2. CASE Enter(c)        BY <4>2 DEF Enter
      <4>3. CASE Wake(c)         BY <4>3 DEF Wake
      <4>4. CASE EndPass(c)      BY <4>4 DEF EndPass
      <4> QED BY <2>2, <4>1, <4>2, <4>3, <4>4
    <3>3. \A e \in Cpus : pc'[e] = "start" => pc[e] = "start"
      BY <3>2
    <3> QED BY <3>1, <3>3 DEF Drives, OnFpga
  <2>3. ASSUME NEW c \in Cpus, CheckFinish(c) PROVE DriverInv'
    <3>1. Entry(c) \in Zdma /\ Owner(Entry(c)) = c
      <4>1. Len(list[c]) \in Nat
        OBVIOUS
      <4>2. idx[c] + 1 \in 1..Len(list[c])
        BY <2>3, <4>1 DEF CheckFinish, PassInv
      <4> QED BY <4>2 DEF Entry, ListInv
    <3>2. ~ OnFpga(c)
      BY <2>3 DEF CheckFinish, PassInv
    <3>3. PICK d \in {Entry(c), 0} :
            /\ stale' = IF d = Entry(c) THEN stale ELSE stale \union {c}
            /\ IF busy[d]
                 THEN idx' = [idx EXCEPT ![c] = NextIndex(c)] /\ UNCHANGED << pc, cur >>
                 ELSE /\ cur' = [cur EXCEPT ![c] = d]
                      /\ pc' = [pc EXCEPT ![c] = "start"]
                      /\ UNCHANGED idx
      BY <2>3 DEF CheckFinish
    <3>4. busy' = busy /\ stale \subseteq stale'
      BY <2>3, <3>3 DEF CheckFinish
    <3>5. CASE busy[d]
      BY <3>3, <3>4, <3>5
    <3>6. CASE ~ busy[d]
      <4>1. Drives(c, d) \/ (d = 0 /\ stale' # {})
        BY <3>1, <3>2, <3>3 DEF Drives
      <4>2. /\ pc'[c] = "start" /\ cur'[c] = d /\ ~ busy'[d]
            /\ \A e \in Cpus \ {c} : pc'[e] = pc[e] /\ cur'[e] = cur[e]
        BY <3>3, <3>4, <3>6
      <4>3. d \in Engines
        BY <3>1, <3>3
      <4>4. \A e \in Cpus \ {c} : pc'[e] = "start" =>
              /\ (cur'[e] \in Engines /\ Drives(e, cur'[e])) \/ (cur'[e] = 0 /\ stale' # {})
              /\ ~ busy'[cur'[e]] \/ (cur'[e] = 0 /\ stale' # {})
        BY <3>4, <4>2
      <4>5. Drives(c, cur'[c]) \/ (cur'[c] = 0 /\ stale' # {})
        BY <4>1, <4>2
      <4>6. DriveInv'
        BY <4>2, <4>3, <4>4, <4>5 DEF Drives, OnFpga
      <4>7. StartedOnceUnlessStale'
        BY <4>2, <4>4
      <4> QED BY <4>6, <4>7
    <3> QED BY <3>5, <3>6
  <2>4. ASSUME NEW c \in Cpus, StartChannel(c) \/ FpgaStart(c) PROVE DriverInv'
    <3>1. /\ pc[c] = "start" /\ pc'[c] # "start"
          /\ \A e \in Cpus \ {c} : pc'[e] = pc[e]
          /\ busy' = [busy EXCEPT ![cur[c]] = TRUE]
          /\ cur' = cur /\ stale' = stale
      BY <2>4 DEF StartChannel, FpgaStart
    <3>2. \A e \in Cpus \ {c} : pc[e] = "start" /\ cur[e] = cur[c] =>
            cur[e] = 0 /\ stale # {}
      BY <3>1 DEF Drives, OnFpga
    <3> QED BY <3>1, <3>2
  <2>5. ASSUME NEW c \in Cpus, FpgaPoll(c) PROVE DriverInv'
    BY <2>5 DEF FpgaPoll, Drives, OnFpga
  <2>6. ASSUME NEW d \in Engines, Complete(d) PROVE DriverInv'
    BY <2>6 DEF Complete
  <2>7. CASE UNCHANGED vars
    BY <2>7 DEF vars
  <2> QED BY <2>1, <2>2, <2>3, <2>4, <2>5, <2>6, <2>7 DEF Next, Core
<1>3. DriverInv => StartedOnceUnlessStale
  BY DEF DriverInv
<1> QED BY <1>1, <1>2, <1>3, TypeInvariant, PTL DEF Spec
=============================================================================
