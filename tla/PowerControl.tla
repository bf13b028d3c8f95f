----------------------------- MODULE PowerControl -----------------------------
(***************************************************************************)
(* The smart plug of test_engine.py: _get_device, _toggle_power and their  *)
(* callers hardware_reset and hardware_turn_off, with hardware control     *)
(* enabled.  Every await on the plug may fail, and a command that failed   *)
(* may still have reached the plug.                                        *)
(*                                                                         *)
(* An operator marked Fault is a slip the checks must notice: it stands    *)
(* next to the operator it may replace, and no action uses it.             *)
(***************************************************************************)
EXTENDS Naturals

CONSTANT Retries          (* retries of _toggle_power. *)

ASSUME RetriesAssumption == Retries \in Nat \ {0}

VARIABLES
  pc,       (* Where the call is: the await it is at, or "idle" outside.    *)
  call,     (* "reset" (turn_on) or "turn_off".                             *)
  attempt,  (* attempt                                                      *)
  client,   (* self.tapo_client: "none" or not.  The code cannot tell       *)
            (* "live", on which nothing failed so far, from "burnt".        *)
  plug,     (* The state of the plug.                                       *)
  rested    (* History: turn_off_delay has passed without power.            *)

vars == << pc, call, attempt, client, plug, rested >>

Init ==
  /\ pc = "idle"
  /\ call = "reset"
  /\ attempt = 0
  /\ client = "none"
  /\ plug \in {"on", "off"}
  /\ rested = FALSE

(* The client outlives the call: it is an attribute of the engine.         *)
Call(k) ==
  /\ pc = "idle"
  /\ call' = k
  /\ attempt' = 0
  /\ rested' = FALSE
  /\ pc' = "device"
  /\ UNCHANGED << client, plug >>

(* The client is cached; the device is asked for in every attempt.         *)
GetDevice ==
  /\ pc = "device"
  /\ client' = IF client = "none" THEN "live" ELSE client
  /\ pc' = "off"
  /\ UNCHANGED << call, attempt, plug, rested >>

SwitchOff ==
  /\ pc = "off"
  /\ plug' = "off"
  /\ pc' = "sleep"
  /\ UNCHANGED << call, attempt, client, rested >>

NeverOn  == "return"                                (* Fault: turn_on lost. *)
AfterOff == IF call = "reset" THEN "on" ELSE "return"

Sleep ==
  /\ pc = "sleep"
  /\ rested' = TRUE
  /\ pc' = AfterOff
  /\ UNCHANGED << call, attempt, client, plug >>

SwitchOn ==
  /\ pc = "on"
  /\ plug' = "on"
  /\ pc' = "return"
  /\ UNCHANGED << call, attempt, client, rested >>

(* After the stabilization delay, if the plug was switched on.             *)
Return ==
  /\ pc = "return"
  /\ pc' = "idle"
  /\ UNCHANGED << call, attempt, client, plug, rested >>

(* An await raises: the client may not even have been made.                *)
Fails ==
  /\ pc \in {"device", "off", "on"}
  /\ client' \in IF client = "none" THEN {"none", "burnt"} ELSE {"burnt"}
  /\ plug' \in IF pc = "device" THEN {plug} ELSE {plug, pc}
  /\ pc' = "backoff"
  /\ UNCHANGED << call, attempt, rested >>

ClientKept    == client                       (* Fault: client not deleted. *)
ClientDropped == "none"

SameAttempt == attempt                        (* Fault: attempt not counted. *)
NextAttempt == attempt + 1

OneMoreAttempt == attempt = Retries           (* Fault: off by one.          *)
LastAttempt    == attempt + 1 = Retries

(* The last attempt backs off too before the call gives up.                *)
Backoff ==
  /\ pc = "backoff"
  /\ client' = ClientDropped
  /\ IF LastAttempt
       THEN pc' = "raise" /\ UNCHANGED attempt
       ELSE pc' = "device" /\ attempt' = NextAttempt
  /\ UNCHANGED << call, plug, rested >>

(* RuntimeError: no caller catches it, main() ends.                        *)
Raise ==
  /\ pc = "raise"
  /\ pc' = "failed"
  /\ UNCHANGED << call, attempt, client, plug, rested >>

Failed == pc = "failed" /\ UNCHANGED vars

Toggle ==
  \/ GetDevice \/ SwitchOff \/ Sleep \/ SwitchOn \/ Return
  \/ Fails \/ Backoff \/ Raise

Next ==
  \/ \E k \in {"reset", "turn_off"} : Call(k)
  \/ Toggle
  \/ Failed

Spec == Init /\ [][Next]_vars

(* asyncio.run drives the call to its end: every await returns or raises.  *)
FairSpec == Spec /\ WF_vars(Toggle)
-----------------------------------------------------------------------------
(* Properties.                                                             *)

Pcs == {"idle", "device", "off", "sleep", "on", "return", "backoff", "raise", "failed"}

(* The state of a power cycle; no call makes more than Retries attempts.   *)
TypeOK ==
  /\ pc \in Pcs
  /\ call \in {"reset", "turn_off"}
  /\ attempt \in 0..(Retries - 1)
  /\ client \in {"none", "live", "burnt"}
  /\ plug \in {"on", "off"}
  /\ rested \in BOOLEAN

(* _toggle_power implements its promise: a call that returns has kept the  *)
(* board without power for the delay and has left the plug as asked,       *)
(* whatever earlier attempts of the call left behind.                      *)
Phase == IF pc \in {"idle", "failed"} THEN pc ELSE "busy"
Promise == INSTANCE PowerCycle WITH phase <- Phase, kind <- call
KeepsPromise == Promise!Spec

(* "force refresh client on failure": no attempt works with a client on    *)
(* which an earlier attempt, or an earlier call, has failed.               *)
NoBurntClient == pc \in {"idle", "device", "off", "on"} => client # "burnt"

(* Every call returns or raises.                                           *)
CallEnds == pc = "device" ~> pc \in {"idle", "failed"}
=============================================================================
