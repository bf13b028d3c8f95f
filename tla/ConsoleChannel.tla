--------------------------- MODULE ConsoleChannel ---------------------------
(***************************************************************************)
(* What transmitting on the VirtIO console promises: the messages that     *)
(* were accepted reach the other end whole, each of them once, in the      *)
(* order in which they were accepted, and none of them is kept for ever.   *)
(* A message is stood for by its text.  A channel that is broken promises  *)
(* nothing, and stays broken.                                              *)
(***************************************************************************)
EXTENDS Sequences

CONSTANT Texts        (* The texts that can be sent.                       *)

VARIABLES
  queue,              (* What has been accepted and not been read.         *)
  out,                (* What the other end has read last.                 *)
  broken              (* The channel has failed.                           *)

vars == << queue, out, broken >>

Init ==
  /\ queue = << >>
  /\ out = << >>
  /\ broken = FALSE

Send ==
  /\ ~ broken
  /\ \E text \in Texts : queue' = Append(queue, text)
  /\ UNCHANGED << out, broken >>

Read ==
  /\ ~ broken
  /\ queue # << >>
  /\ out' = Head(queue)
  /\ queue' = Tail(queue)
  /\ UNCHANGED broken

Break == broken'

Next == Send \/ Read \/ Break

SafeSpec == Init /\ [][Next]_vars
Spec     == SafeSpec /\ WF_vars(Read)
=============================================================================
