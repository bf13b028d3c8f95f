------------------------------ MODULE PowerCycle ------------------------------
(***************************************************************************)
(* What the callers of hardware_reset and hardware_turn_off are promised.  *)
(* A call that returns has left the board without power for the delay it   *)
(* was given and has then left the plug as it was asked to.  A call that   *)
(* raises promises nothing about the plug, and is the last one.            *)
(***************************************************************************)
VARIABLES
  phase,   (* "idle", "busy" in a call, or "failed" once a call has raised.  *)
  kind,    (* The call: "reset" or "turn_off".                               *)
  rested,  (* In this call the board has been without power for the delay.   *)
  plug     (* "on" or "off"                                                  *)

vars == << phase, kind, rested, plug >>

Init ==
  /\ phase = "idle"
  /\ kind = "reset"
  /\ rested = FALSE
  /\ plug \in {"on", "off"}

Begin(k) ==
  /\ phase = "idle"
  /\ phase' = "busy"
  /\ kind' = k
  /\ rested' = FALSE
  /\ UNCHANGED plug

Switch ==
  /\ phase = "busy"
  /\ plug' \in {"on", "off"}
  /\ UNCHANGED << phase, kind, rested >>

Rest ==
  /\ phase = "busy"
  /\ plug = "off"
  /\ rested' = TRUE
  /\ UNCHANGED << phase, kind, plug >>

Return ==
  /\ phase = "busy"
  /\ rested
  /\ plug = IF kind = "reset" THEN "on" ELSE "off"
  /\ phase' = "idle"
  /\ UNCHANGED << kind, rested, plug >>

Raise ==
  /\ phase = "busy"
  /\ phase' = "failed"
  /\ UNCHANGED << kind, rested, plug >>

Next ==
  \/ \E k \in {"reset", "turn_off"} : Begin(k)
  \/ Switch \/ Rest \/ Return \/ Raise

Spec == Init /\ [][Next]_vars
=============================================================================
