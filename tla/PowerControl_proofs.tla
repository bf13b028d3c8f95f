------------------------- MODULE PowerControl_proofs -------------------------
(***************************************************************************)
(* Proofs about PowerControl, for every number of retries: the types, the  *)
(* client that is dropped after a failure, and the refinement of           *)
(* PowerCycle.                                                             *)
(***************************************************************************)
EXTENDS PowerControl, TLAPS

(* The number of attempts never exceeds the bound of the for loop.         *)
THEOREM TypeCorrect == Spec => []TypeOK
<1>0. 0 \in 0..(Retries - 1)
  BY RetriesAssumption DEF RetriesAssumption
<1>1. Init => TypeOK
  BY <1>0 DEF Init, TypeOK, Pcs
<1>2. TypeOK /\ [Next]_vars => TypeOK'
  <2> SUFFICES ASSUME TypeOK, [Next]_vars PROVE TypeOK'
    OBVIOUS
  <2> USE RetriesAssumption DEF RetriesAssumption, TypeOK, Pcs
  <2>1. ASSUME NEW k \in {"reset", "turn_off"}, Call(k) PROVE TypeOK'
    BY <1>0, <2>1 DEF Call
  <2>2. CASE GetDevice BY <2>2 DEF GetDevice
  <2>3. CASE SwitchOff BY <2>3 DEF SwitchOff
  <2>4. CASE Sleep BY <2>4 DEF Sleep, AfterOff
  <2>5. CASE SwitchOn BY <2>5 DEF SwitchOn
  <2>6. CASE Return BY <2>6 DEF Return
  <2>7. CASE Fails BY <2>7 DEF Fails
  <2>8. CASE Backoff BY <2>8 DEF Backoff, ClientDropped, NextAttempt, LastAttempt
  <2>9. CASE Raise BY <2>9 DEF Raise
  <2>10. CASE Failed \/ UNCHANGED vars BY <2>10 DEF Failed, vars
  <2> QED
    BY <2>1, <2>2, <2>3, <2>4, <2>5, <2>6, <2>7, <2>8, <2>9, <2>10 DEF Next, Toggle
<1> QED BY <1>1, <1>2, PTL DEF Spec

(* What a step relies on: it is reached only past the steps before it.     *)
StepInv ==
  /\ pc = "sleep" => plug = "off"
  /\ pc \in {"on", "return"} => rested
  /\ pc = "on" => call = "reset"
  /\ pc = "return" => plug = IF call = "reset" THEN "on" ELSE "off"

(* A failed attempt leaves nothing behind that a later one could mistake   *)
(* for its own progress.                                                   *)
LEMMA StepInvariant == Spec => [](TypeOK /\ StepInv)
<1>1. Init => StepInv
  BY DEF Init, StepInv
<1>2. TypeOK /\ StepInv /\ [Next]_vars => StepInv'
  <2> SUFFICES ASSUME TypeOK, StepInv, [Next]_vars PROVE StepInv'
    OBVIOUS
  <2> USE DEF TypeOK, Pcs, StepInv
  <2>1. ASSUME NEW k \in {"reset", "turn_off"}, Call(k) PROVE StepInv'
    BY <2>1 DEF Call
  <2>2. CASE GetDevice BY <2>2 DEF GetDevice
  <2>3. CASE SwitchOff BY <2>3 DEF SwitchOff
  <2>4. CASE Sleep BY <2>4 DEF Sleep, AfterOff
  <2>5. CASE SwitchOn BY <2>5 DEF SwitchOn
  <2>6. CASE Return BY <2>6 DEF Return
  <2>7. CASE Fails BY <2>7 DEF Fails
  <2>8. CASE Backoff BY <2>8 DEF Backoff
  <2>9. CASE Raise BY <2>9 DEF Raise
  <2>10. CASE Failed \/ UNCHANGED vars BY <2>10 DEF Failed, vars
  <2> QED
    BY <2>1, <2>2, <2>3, <2>4, <2>5, <2>6, <2>7, <2>8, <2>9, <2>10 DEF Next, Toggle
<1> QED BY <1>1, <1>2, TypeCorrect, PTL DEF Spec

(* A client on which a command failed is gone before the next attempt,     *)
(* and before the next call.                                               *)
THEOREM FreshClient == Spec => []NoBurntClient
<1> DEFINE Inv == client = "burnt" => pc = "backoff"
<1>1. Init => Inv
  BY DEF Init
<1>2. Inv /\ [Next]_vars => Inv'
  BY DEF Next, Toggle, vars, Call, GetDevice, SwitchOff, Sleep, SwitchOn, Return,
         Fails, Backoff, ClientDropped, Raise, Failed
<1>3. Inv => NoBurntClient
  BY DEF NoBurntClient
<1> QED BY <1>1, <1>2, <1>3, PTL DEF Spec

(* _toggle_power implements PowerCycle: a call that returns has kept the   *)
(* board without power for the delay and left the plug as it was asked to. *)
THEOREM Refinement == Spec => KeepsPromise
<1>1. Init => Promise!Init
  BY DEF Init, Phase, Promise!Init
<1>2. TypeOK /\ StepInv /\ [Next]_vars => [Promise!Next]_(Promise!vars)
  <2> SUFFICES ASSUME TypeOK, StepInv, [Next]_vars
               PROVE  Promise!Next \/ UNCHANGED Promise!vars
    OBVIOUS
  <2> USE DEF TypeOK, Pcs, Phase
  <2>1. ASSUME NEW k \in {"reset", "turn_off"}, Call(k) PROVE Promise!Begin(k)
    BY <2>1 DEF Call, Promise!Begin
  <2>2. CASE GetDevice
    BY <2>2 DEF GetDevice, Promise!vars
  <2>3. CASE SwitchOff
    BY <2>3 DEF SwitchOff, Promise!Next, Promise!Switch
  <2>4. CASE Sleep
    BY <2>4 DEF Sleep, AfterOff, StepInv, Promise!Next, Promise!Rest
  <2>5. CASE SwitchOn
    BY <2>5 DEF SwitchOn, Promise!Next, Promise!Switch
  <2>6. CASE Return
    BY <2>6 DEF Return, StepInv, Promise!Next, Promise!Return
  <2>7. CASE Fails
    BY <2>7 DEF Fails, Promise!Next, Promise!Switch
  <2>8. CASE Backoff
    BY <2>8 DEF Backoff, Promise!vars
  <2>9. CASE Raise
    BY <2>9 DEF Raise, Promise!Next, Promise!Raise
  <2>10. CASE Failed \/ UNCHANGED vars
    BY <2>10 DEF Failed, vars, Promise!vars
  <2>11. (\E k \in {"reset", "turn_off"} : Call(k)) => Promise!Next
    BY <2>1 DEF Promise!Next
  <2> QED
    BY <2>2, <2>3, <2>4, <2>5, <2>6, <2>7, <2>8, <2>9, <2>10, <2>11 DEF Next, Toggle
<1> QED BY <1>1, <1>2, StepInvariant, PTL DEF Spec, KeepsPromise, Promise!Spec
=============================================================================
