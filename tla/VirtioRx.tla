------------------------------ MODULE VirtioRx ------------------------------
(***************************************************************************)
(* The receive queue of the VirtIO console of the bare-metal runtime       *)
(* (core/virtio_console.c).  The driver lends the backend all descriptors  *)
(* of the queue once; the interrupt handler appends what the backend has   *)
(* written to the receive buffer, and another core, or the one it has      *)
(* interrupted, prints that buffer.  The lock rx_lock is taken for every   *)
(* access to the buffer, and not from one access to the next.              *)
(*                                                                         *)
(* A message is a number m, the length of its text of m bytes of value m,  *)
(* in a buffer that held zeros (virtio_memory_pool_init) and is lent once. *)
(* Of the receive buffer virtio_console_init sets the first byte only: the *)
(* others are what was in that memory.                                     *)
(* An operator marked Fault is a slip the checks must notice: it stands    *)
(* next to the operator it may replace, and no action uses it.             *)
(***************************************************************************)
EXTENDS Integers, Sequences, SequencesExt

CONSTANTS
  QSize,         (* VIRTQ_SIZE                                             *)
  BufSize,       (* VIRTIO_CONSOLE_RX_BUFFER_SIZE                          *)
  Messages,      (* The messages the backend may send.                     *)
  Remains,       (* Which places may hold something else than zero before. *)
  PrinterIsHere  (* The core that prints is the one that is interrupted.   *)

ConsoleSize == BufSize * 4
Places      == 0..(ConsoleSize - 1)

ASSUME ConstantsAssumption ==
  /\ QSize \in Nat \ {0}
  /\ BufSize \in Nat \ {0, 1}
  /\ Messages \subseteq 1..BufSize
  /\ Remains \subseteq SUBSET Places
  /\ PrinterIsHere \in BOOLEAN

Leftover == -1   (* What was in the memory of the receive buffer.          *)

VARIABLES
  lent,          (* How many buffers the backend may write.                *)
  used,          (* The messages in the used ring.                         *)
  status,        (* InterruptStatus                                        *)
  lock,          (* rx_lock                                                *)
  rx, pos,       (* rx_buffer and rx_buffer_pos                            *)
  hpc, cur,      (* The locals of virtio_console_receive.                  *)
  got,           (* What virtio_console_receive has returned.              *)
  batch,         (* History: the messages it has taken off the ring.       *)
  cut,           (* History: its last call has returned early.             *)
  printing,      (* virtio_console_rx_print_buffer is running.             *)
  printed        (* What it prints.                                        *)

bufferVars == << rx, pos >>
ringVars   == << lent, used, status >>
printVars  == << printing, printed >>
callVars   == << hpc, cur, got, batch, cut >>
vars == << ringVars, lock, bufferVars, callVars, printVars >>

(* The string in the receive buffer.  When no byte is zero it ends with    *)
(* the buffer: what is read behind that is not modelled.                   *)
String ==
  [i \in {j \in 1..ConsoleSize : \A k \in 0..(j - 1) : rx[k] # 0} |-> rx[i - 1]]

Init ==
  /\ lent = QSize
  /\ used = << >>
  /\ status = {}
  /\ lock = FALSE
  /\ \E places \in Remains :
       rx = [i \in Places |-> IF i \in places \ {0} THEN Leftover ELSE 0]
  /\ pos = 0
  /\ hpc = "idle"
  /\ cur = 0
  /\ got = FALSE
  /\ batch = << >>
  /\ cut = FALSE
  /\ printing = FALSE
  /\ printed = << >>

(* The backend fills a buffer and raises the interrupt.                    *)
BackendSend ==
  /\ lent > 0
  /\ lent' = lent - 1
  /\ \E m \in Messages : used' = Append(used, m)
  /\ status' = status \union {"vring"}
  /\ UNCHANGED << lock, bufferVars, callVars, printVars >>

(* It also raises it for the transmit queue, whose used buffers the same   *)
(* call gives back (module VirtioTx), and for a new configuration.         *)
OtherCause ==
  /\ \E cause \in {"vring", "config"} : status' = status \union {cause}
  /\ UNCHANGED << lent, used, lock, bufferVars, callVars, printVars >>

-----------------------------------------------------------------------------
(* virtio_console_receive                                                  *)

(* All causes are acknowledged, and a change of the configuration ends the *)
(* call, whatever else there was.                                          *)
Acknowledge ==
  /\ hpc = "idle"
  /\ status # {}
  /\ status' = {}
  /\ batch' = << >>
  /\ IF "config" \in status
     THEN got' = FALSE /\ cut' = TRUE /\ UNCHANGED hpc
     ELSE hpc' = "reset" /\ cut' = FALSE /\ UNCHANGED got
  /\ UNCHANGED << lent, used, lock, bufferVars, cur, printVars >>

(* Each of the functions that change the receive buffer holds the lock.    *)
Unlocked == TRUE                         (* Fault: the lock is not taken.  *)
CanLock  == ~ lock

Reset ==
  /\ hpc = "reset"
  /\ CanLock
  /\ rx' = [rx EXCEPT ![0] = 0]
  /\ pos' = 0
  /\ hpc' = "scan"
  /\ UNCHANGED << ringVars, lock, cur, got, batch, cut, printVars >>

OneEach    == "null"                     (* Fault: an if for the while.    *)
NextBuffer == "scan"

(* The descriptor goes to the free list, and is not lent again.            *)
GetUsed ==
  /\ hpc = "scan"
  /\ IF used = << >>
     THEN hpc' = "null" /\ UNCHANGED << used, cur, batch >>
     ELSE /\ cur' = Head(used)
          /\ used' = Tail(used)
          /\ batch' = Append(batch, Head(used))
          /\ hpc' = "append"
  /\ UNCHANGED << lent, status, lock, bufferVars, got, cut, printVars >>

(* virtio_console_rx_append_buffer: byte i of the message goes to place i  *)
(* of the receive buffer, from the position on; pos < ConsoleSize holds    *)
(* throughout the loop.  A message that does not fit ends the call.        *)
TextOnly(i) == IF i < cur THEN cur ELSE rx[i]  (* Fault: no byte behind it. *)
Data(i)     == IF i < cur THEN cur ELSE 0

AlwaysFits == TRUE                       (* Fault: no check.               *)
Fits     == pos < ConsoleSize - BufSize
Appended == [i \in Places |->
               IF i \in pos..(BufSize - 2) THEN Data(i) ELSE rx[i]]

AppendBuffer ==
  /\ hpc = "append"
  /\ CanLock
  /\ IF Fits
     THEN /\ rx' = Appended
          /\ pos' = pos + BufSize - 1
          /\ hpc' = NextBuffer
          /\ UNCHANGED << got, cut >>
     ELSE /\ got' = FALSE
          /\ cut' = TRUE
          /\ hpc' = "idle"
          /\ UNCHANGED bufferVars
  /\ UNCHANGED << ringVars, lock, cur, batch, printVars >>

(* virtio_console_rx_append_null; virtio_console_rx_has_buffers.           *)
AppendNull ==
  /\ hpc = "null"
  /\ CanLock
  /\ IF pos < ConsoleSize - 1
     THEN /\ rx' = [rx EXCEPT ![pos] = 0]
          /\ pos' = pos + 1
          /\ got' = (pos' > 1)
     ELSE got' = FALSE /\ UNCHANGED bufferVars
  /\ hpc' = "idle"
  /\ UNCHANGED << ringVars, lock, cur, batch, cut, printVars >>

Receive == Reset \/ GetUsed \/ AppendBuffer \/ AppendNull

-----------------------------------------------------------------------------
(* virtio_console_rx_print_buffer, to the end of the printf.               *)

Runs == ~ (PrinterIsHere /\ hpc # "idle")

BeginPrint ==
  /\ Runs
  /\ ~ printing
  /\ ~ lock
  /\ lock' = TRUE
  /\ printing' = TRUE
  /\ printed' = String
  /\ UNCHANGED << ringVars, bufferVars, callVars >>

EndPrint ==
  /\ Runs
  /\ printing
  /\ printing' = FALSE
  /\ lock' = FALSE
  /\ UNCHANGED << ringVars, bufferVars, callVars, printed >>

Next ==
  \/ BackendSend \/ OtherCause
  \/ Acknowledge \/ Receive
  \/ BeginPrint \/ EndPrint

(* An interrupt is taken, a core that runs finishes its printf, and since  *)
(* a lock is not fair to who waits for it, a core that prints again and    *)
(* again is assumed to leave it some time.                                 *)
Fairness == WF_vars(Acknowledge) /\ SF_vars(Receive) /\ WF_vars(EndPrint)

Spec == Init /\ [][Next]_vars /\ Fairness

-----------------------------------------------------------------------------
TypeOK ==
  /\ lent \in 0..QSize
  /\ used \in Seq(Messages)
  /\ status \in SUBSET {"vring", "config"}
  /\ lock \in BOOLEAN
  /\ rx \in [Places -> Messages \union {0, Leftover}]
  /\ pos \in 0..(ConsoleSize - 1)
  /\ hpc \in {"idle", "reset", "scan", "append", "null"}
  /\ cur \in Messages \union {0}
  /\ got \in BOOLEAN
  /\ batch \in Seq(Messages)
  /\ cut \in BOOLEAN
  /\ printing \in BOOLEAN

Cut(m) == IF m < BufSize THEN m ELSE BufSize - 1
Returned == hpc = "idle" /\ batch # << >>

BeginsWith(s, m) ==
  /\ 1..Cut(m) \subseteq DOMAIN s
  /\ \A i \in 1..Cut(m) : s[i] = m

(* When the handler has returned true, the string in the receive buffer    *)
(* begins with the whole text of the first message it took, cut to         *)
(* BufSize - 1 bytes, and has nothing in it of the messages of earlier     *)
(* calls, although a reset clears the first byte alone                     *)
(* (virtio_console_receive, virtio_console_rx_reset_buffer).               *)
NothingStale ==
  Returned /\ got =>
    /\ BeginsWith(String, batch[1])
    /\ Range(String) \subseteq Range(batch) \union {Leftover}

(* What is printed is nothing, or the whole text of a message and nothing  *)
(* of another, although the handler gives up the lock between resetting    *)
(* the buffer, appending to it and terminating it; only what was in the    *)
(* memory before may follow it.  And it does not change while it is        *)
(* printed.                                                                *)
PrintedWhole ==
  /\ printed # << >> =>
       \E m \in Messages :
         /\ BeginsWith(printed, m)
         /\ \A i \in DOMAIN printed : i > Cut(m) => printed[i] = Leftover
  /\ printing => printed = String

(* "Append data to the console receive buffer": all that was received is   *)
(* in it when the handler has returned true.                               *)
AllTextsReceived ==
  Returned /\ got =>
    String = FlattenSeq([k \in DOMAIN batch |->
                           [i \in 1..Cut(batch[k]) |-> batch[k]]])

(* "This function should be called from the RX interrupt handler", and     *)
(* what was printing when the interrupt came goes on.                      *)
PrintEnds == printing ~> ~ printing

(* All that the backend has written is taken off the ring, unless the last *)
(* call returned early, at a change of the configuration or at a message   *)
(* that does not fit: an interrupt that was acknowledged is not raised     *)
(* again.                                                                  *)
UsedAreTaken == (used # << >>) ~> (used = << >> \/ cut)
=============================================================================
