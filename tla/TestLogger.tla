------------------------------ MODULE TestLogger ------------------------------
(***************************************************************************)
(* The test loop of DAAT-MCS_profiler.py and the serial logger threads of  *)
(* setup_generator/test_logger.py.                                         *)
(*                                                                         *)
(* The main thread launches an image on the board, spawns one logger       *)
(* thread per log port, waits for the end of the test with a timeout, and  *)
(* power cycles the board before the next image or the next retry.  The    *)
(* threads and the main thread share event_end_of_test, test_completed and *)
(* serial_ports without a lock.                                            *)
(*                                                                         *)
(* Launches are numbered 1, 2, ... and every line the board prints carries *)
(* the number of the launch that produced it: the properties ask whether a *)
(* verdict rests on lines of the launch it is given to.                    *)
(*                                                                         *)
(* An operator marked Fault is a slip the checks must notice: it stands    *)
(* next to the operator it may replace, and no action uses it.             *)
(***************************************************************************)
EXTENDS Integers, Sequences, FiniteSets

CONSTANTS
  LogPorts,    (* list_log_ports[i]: the serial ports logged in a test.     *)
  Master,      (* master_interface: opened by __init__, never closed.       *)
  Bench,       (* The port on which the guest prints its START/END tags.    *)
  NImgs,       (* Length of list_bao_imgs.                                  *)
  MaxRetries,  (* max_retries.                                              *)
  HwControl,   (* hardware_control_en: a smart plug power cycles the board. *)
  HostFaults   (* A serial port that does not open, a plug that does not    *)
               (* answer: both raise in the main thread.                    *)

ASSUME ConstantsAssumption ==
  /\ LogPorts # {}
  /\ Bench \in LogPorts
  /\ NImgs \in Nat \ {0}
  /\ MaxRetries \in Nat \ {0}
  /\ HwControl \in BOOLEAN
  /\ HostFaults \in BOOLEAN

Ports  == LogPorts \union {Master, Bench}
Closed == -1
Kinds  == {"START", "TEXT", "END", "ERR"}
Lines  == [kind : Kinds, launch : Nat]

VARIABLES
  mpc,        (* Where main() is.                                           *)
  img,        (* i                                                          *)
  retry,      (* retry_count                                                *)
  launch,     (* Number of launches so far.                                 *)
  todo,       (* Ports of list_log_ports[i] still to be opened.             *)
  cur,        (* serial_port of the loop over list_log_ports[i].            *)
  result,     (* The local test_completed of main().                        *)
  timing,     (* img_timings: "none", "done" (with times) or "na".          *)
  event,      (* event_end_of_test                                          *)
  completed,  (* self.test_completed                                        *)
  handle,     (* serial_ports: launch in which a port was opened, or Closed *)
  threads,    (* log_threads that are alive.                                *)
  files,      (* The log file of each image and port.                       *)
  board,      (* What the board runs.                                       *)
  rx,         (* Unread lines of each port, in the host's driver.           *)
  timedOut,   (* History: launches whose wait ended by the timeout.         *)
  ended,      (* History: launches whose own END a thread of theirs read.   *)
  passed      (* History: <<image, launch>> recorded as completed.          *)

mainVars  == << mpc, img, retry, launch, todo, cur, result, timing >>
loggerVars == << event, completed, handle, threads, files >>
boardVars == << board, rx >>
history   == << timedOut, ended, passed >>
vars == << mainVars, loggerVars, boardVars, history >>

-----------------------------------------------------------------------------
(* The board, external: it boots or reports a boot error on the master     *)
(* console, then the guest prints START, one line of text and END.  A line *)
(* printed on a port that nobody has open is lost.                         *)

Prints(p, k) ==
  rx' = [rx EXCEPT ![p] = IF handle[p] = Closed THEN @
                          ELSE Append(@, [kind |-> k, launch |-> board.launch])]

BoardStep(from, to, p, k) ==
  /\ board.phase = from
  /\ board' = [board EXCEPT !.phase = to]
  /\ Prints(p, k)
  /\ UNCHANGED << mainVars, loggerVars, history >>

BootError  == BoardStep("boot", "dead", Master, "ERR")
BenchStart == BoardStep("boot", "run", Bench, "START")
BenchText  == BoardStep("run", "text", Bench, "TEXT")
BenchEnd   == BoardStep("text", "fin", Bench, "END")

-----------------------------------------------------------------------------
(* main()                                                                  *)

(* launch_test swallows every failure of the copy and of xsct: the board   *)
(* may be left as it was.                                                  *)
LaunchTest(n) == board' = [phase |-> "boot", launch |-> n] \/ UNCHANGED board

(* With the plug, the reset that precedes a launch sleeps longer than the  *)
(* one second a thread can stay in readline.                               *)
Launch ==
  /\ mpc = "launch"
  /\ HwControl => threads = {}
  /\ launch' = launch + 1
  /\ LaunchTest(launch + 1)
  /\ mpc' = "clear"
  /\ UNCHANGED << img, retry, todo, cur, result, timing, loggerVars, rx, history >>

ClearEvent ==
  /\ mpc = "clear"
  /\ event' = FALSE
  /\ todo' = LogPorts
  /\ mpc' = "open"
  /\ UNCHANGED << img, retry, launch, cur, result, timing, completed, handle,
                  threads, files, boardVars, history >>

(* open_serial_port: a port that is already open is used as it is; opening *)
(* discards what the driver had buffered.                                  *)
OpenPort(p) ==
  /\ mpc = "open"
  /\ p \in todo
  /\ cur' = p
  /\ todo' = todo \ {p}
  /\ IF handle[p] = Closed
       THEN /\ handle' = [handle EXCEPT ![p] = launch]
            /\ rx' = [rx EXCEPT ![p] = << >>]
       ELSE UNCHANGED << handle, rx >>
  /\ mpc' = "spawn"
  /\ UNCHANGED << img, retry, launch, result, timing, event, completed, threads,
                  files, board, history >>

OpenFails(p) ==
  /\ HostFaults
  /\ mpc = "open"
  /\ p \in todo
  /\ handle[p] = Closed
  /\ mpc' = "crashed"
  /\ UNCHANGED << img, retry, launch, todo, cur, result, timing, loggerVars,
                  boardVars, history >>

(* set_logger_to_port: no thread if the port has left serial_ports.        *)
SpawnLogger ==
  /\ mpc = "spawn"
  /\ threads' = IF handle[cur] = Closed THEN threads
                ELSE threads \union
                  {[launch |-> launch, port |-> cur, img |-> img, handle |-> handle[cur],
                    pc |-> "check", logging |-> FALSE, texts |-> {}]}
  /\ mpc' = IF todo = {} THEN "wait" ELSE "open"
  /\ UNCHANGED << img, retry, launch, todo, cur, result, timing, event, completed,
                  handle, files, boardVars, history >>

(* wait_for_test_end joins the threads one after the other: it passes them *)
(* all only when all have ended, and otherwise gives up on the first one   *)
(* that outlives its timeout.                                              *)
OneJoined == \E p \in LogPorts : \A t \in threads : t.port # p      (* Fault. *)
AllJoined == threads = {}

JoinAll ==
  /\ mpc = "wait"
  /\ AllJoined
  /\ mpc' = "return"
  /\ UNCHANGED << img, retry, launch, todo, cur, result, timing, loggerVars,
                  boardVars, history >>

NeverExpires == FALSE                        (* Fault: timeout=0. *)
JoinExpires  == threads # {}

JoinTimeout ==
  /\ mpc = "wait"
  /\ JoinExpires
  /\ event' = TRUE
  /\ timedOut' = timedOut \union {launch}
  /\ mpc' = "return"
  /\ UNCHANGED << img, retry, launch, todo, cur, result, timing, completed, handle,
                  threads, files, boardVars, ended, passed >>

ReturnStatus ==
  /\ mpc = "return"
  /\ result' = completed
  /\ mpc' = "reset"
  /\ UNCHANGED << img, retry, launch, todo, cur, timing, loggerVars, boardVars, history >>

KeptStatus == completed                      (* Fault: status not reset. *)
NewStatus  == FALSE

ResetStatus ==
  /\ mpc = "reset"
  /\ completed' = NewStatus
  /\ mpc' = "verdict"
  /\ UNCHANGED << img, retry, launch, todo, cur, result, timing, event, handle, threads,
                  files, boardVars, history >>

(* hardware_reset: without the plug it only prints a warning.  The master  *)
(* port stays open, and keeps the lines it has buffered.                   *)
HardwareReset ==
  board' = IF HwControl THEN [board EXCEPT !.phase = "off"] ELSE board

NextImage ==
  /\ img' = img + 1
  /\ retry' = 0
  /\ mpc' = IF img = NImgs THEN "finished" ELSE "launch"

RecordPass ==
  /\ mpc = "verdict"
  /\ result
  /\ timing' = [timing EXCEPT ![img] = "done"]
  /\ passed' = passed \union {<< img, launch >>}
  /\ HardwareReset
  /\ NextImage
  /\ UNCHANGED << launch, todo, cur, result, loggerVars, rx, timedOut, ended >>

OneTryMore == retry = MaxRetries             (* Fault: off by one. *)
LastTry    == retry + 1 = MaxRetries

RecordFail ==
  /\ mpc = "verdict"
  /\ ~ result
  /\ HardwareReset
  /\ IF LastTry
       THEN /\ timing' = [timing EXCEPT ![img] = "na"]
            /\ NextImage
       ELSE /\ mpc' = "launch"
            /\ retry' = retry + 1
            /\ UNCHANGED << timing, img >>
  /\ UNCHANGED << launch, todo, cur, result, loggerVars, rx, history >>

(* hardware_reset gives up on the plug and raises: a success is recorded   *)
(* by then, a failure is not; the board may have been switched off.        *)
ResetRaises ==
  /\ HostFaults /\ HwControl
  /\ mpc = "verdict"
  /\ timing' = IF result THEN [timing EXCEPT ![img] = "done"] ELSE timing
  /\ passed' = IF result THEN passed \union {<< img, launch >>} ELSE passed
  /\ HardwareReset \/ UNCHANGED board
  /\ mpc' = "crashed"
  /\ UNCHANGED << img, retry, launch, todo, cur, result, loggerVars, rx, timedOut, ended >>

Main ==
  \/ Launch \/ ClearEvent \/ SpawnLogger \/ JoinAll \/ JoinTimeout
  \/ ReturnStatus \/ ResetStatus \/ RecordPass \/ RecordFail
  \/ ResetRaises
  \/ \E p \in LogPorts : OpenPort(p) \/ OpenFails(p)

-----------------------------------------------------------------------------
(* trace_results_thread                                                    *)

Become(t, u) == threads' = (threads \ {t}) \union {u}

EventIgnored == FALSE                        (* Fault: while True. *)
EventSeen    == event

CheckEvent(t) ==
  /\ t.pc = "check"
  /\ Become(t, [t EXCEPT !.pc = IF EventSeen THEN "finally" ELSE "read"])
  /\ UNCHANGED << mainVars, event, completed, handle, files, boardVars, history >>

(* The port was closed under the thread: readline raises.                  *)
ReadFails(t) ==
  /\ t.pc = "read"
  /\ handle[t.port] # t.handle
  /\ Become(t, [t EXCEPT !.pc = "finally"])
  /\ UNCHANGED << mainVars, event, completed, handle, files, boardVars, history >>

ReadTimeout(t) ==
  /\ t.pc = "read"
  /\ handle[t.port] = t.handle
  /\ rx[t.port] = << >>
  /\ Become(t, [t EXCEPT !.pc = "check"])
  /\ UNCHANGED << mainVars, event, completed, handle, files, boardVars, history >>

(* One line, dispatched through serial_func_map: logger_start, logger_end  *)
(* up to event.set(), logger_boot_error and logger_bao_error.              *)
Dispatch(t, line) ==
  CASE line.kind = "START" -> [t EXCEPT !.pc = "check", !.logging = TRUE]
    [] line.kind = "END"   -> [t EXCEPT !.pc = "store", !.logging = FALSE]
    [] line.kind = "ERR"   -> [t EXCEPT !.pc = "check", !.logging = FALSE]
    [] line.kind = "TEXT"  -> [t EXCEPT !.pc = "check",
                                 !.texts = IF t.logging THEN @ \union {line.launch} ELSE @]

ReadLine(t) ==
  /\ t.pc = "read"
  /\ handle[t.port] = t.handle
  /\ rx[t.port] # << >>
  /\ LET line == Head(rx[t.port]) IN
       /\ Become(t, Dispatch(t, line))
       /\ event' = (event \/ line.kind \in {"END", "ERR"})
       /\ ended' = IF line.kind = "END" /\ line.launch = t.launch
                     THEN ended \union {t.launch} ELSE ended
  /\ rx' = [rx EXCEPT ![t.port] = Tail(@)]
  /\ UNCHANGED << mainVars, completed, handle, files, board, timedOut, passed >>

NotStored(t) == files                        (* Fault: no store_log. *)
Stored(t) ==
  [files EXCEPT ![<< t.img, t.port >>] = [by |-> t.launch, texts |-> t.texts]]

(* logger_end after event.set(): store_log, then test_completed.           *)
StoreLog(t) ==
  /\ t.pc = "store"
  /\ files' = Stored(t)
  /\ Become(t, [t EXCEPT !.pc = "mark"])
  /\ UNCHANGED << mainVars, event, completed, handle, boardVars, history >>

MarkCompleted(t) ==
  /\ t.pc = "mark"
  /\ completed' = TRUE
  /\ Become(t, [t EXCEPT !.pc = "check"])
  /\ UNCHANGED << mainVars, event, handle, files, boardVars, history >>

(* The finally clause: close_serial_port closes whatever handle has the    *)
(* port's name, and a log cut short is stored.                             *)
ClosesAll(t)  == Ports \ {Master}            (* Fault: not only its own. *)
ClosesPort(t) == {t.port} \ {Master}

Finally(t) ==
  /\ t.pc = "finally"
  /\ handle' = [p \in Ports |-> IF p \in ClosesPort(t) THEN Closed ELSE handle[p]]
  /\ rx' = [p \in Ports |-> IF p \in ClosesPort(t) THEN << >> ELSE rx[p]]
  /\ files' = IF t.logging THEN Stored(t) ELSE files
  /\ threads' = threads \ {t}
  /\ UNCHANGED << mainVars, event, completed, board, history >>

Thread(t) ==
  \/ CheckEvent(t) \/ ReadFails(t) \/ ReadTimeout(t) \/ ReadLine(t)
  \/ StoreLog(t) \/ MarkCompleted(t) \/ Finally(t)

-----------------------------------------------------------------------------
NoFile == [by |-> 0, texts |-> {}]

Init ==
  /\ mpc = "launch" /\ img = 1 /\ retry = 0 /\ launch = 0
  /\ todo = {} /\ cur = Bench /\ result = FALSE
  /\ timing = [i \in 1..NImgs |-> "none"]
  /\ event = FALSE /\ completed = FALSE /\ threads = {}
  /\ handle = [p \in Ports |-> IF p = Master THEN 0 ELSE Closed]
  /\ files = [ip \in (1..NImgs) \X Ports |-> NoFile]
  /\ board = [phase |-> "off", launch |-> 0]
  /\ rx = [p \in Ports |-> << >>]
  /\ timedOut = {} /\ ended = {} /\ passed = {}

(* The process is gone when main() and every logger thread have ended: the *)
(* threads are not daemons.                                                *)
MainEnded == mpc \in {"finished", "crashed"}
Exited == MainEnded /\ threads = {}

Exit == Exited /\ UNCHANGED vars

Next ==
  \/ Main
  \/ \E t \in threads : Thread(t)
  \/ BootError \/ BenchStart \/ BenchText \/ BenchEnd
  \/ Exit

Spec == Init /\ [][Next]_vars

(* Every thread is scheduled, and so is main(); the board owes nothing.    *)
Launches == 1..(NImgs * MaxRetries)
ThreadOf(n, p) == \E t \in threads : t.launch = n /\ t.port = p /\ Thread(t)
FairSpec ==
  /\ Spec
  /\ WF_vars(Main)
  /\ \A n \in Launches, p \in LogPorts : WF_vars(ThreadOf(n, p))
-----------------------------------------------------------------------------
(* Properties.                                                             *)

Phases == {"off", "boot", "run", "text", "fin", "dead"}
MainPcs == {"launch", "clear", "open", "spawn", "wait", "return", "reset", "verdict",
            "finished", "crashed"}
ThreadPcs == {"check", "read", "store", "mark", "finally"}
ThreadRecs == [launch : Nat, port : LogPorts, img : 1..NImgs, handle : Int,
               pc : ThreadPcs, logging : BOOLEAN, texts : SUBSET Nat]

(* The shape of the state main() and the logger threads share.             *)
TypeOK ==
  /\ mpc \in MainPcs
  /\ img \in 1..(NImgs + 1)
  /\ (~ MainEnded) => img \in 1..NImgs
  /\ retry \in 0..(MaxRetries - 1)
  /\ launch \in Nat
  /\ todo \in SUBSET LogPorts
  /\ cur \in LogPorts
  /\ result \in BOOLEAN
  /\ timing \in [1..NImgs -> {"none", "done", "na"}]
  /\ event \in BOOLEAN
  /\ completed \in BOOLEAN
  /\ handle \in [Ports -> Int]
  /\ threads \in SUBSET ThreadRecs
  /\ files \in [(1..NImgs) \X Ports -> [by : Nat, texts : SUBSET Nat]]
  /\ board \in [phase : Phases, launch : Nat]
  /\ rx \in [Ports -> Seq(Lines)]
  /\ timedOut \in SUBSET Nat
  /\ ended \in SUBSET Nat
  /\ passed \in SUBSET ((1..NImgs) \X Nat)

(* A wait of a launch before n has run into its timeout.                   *)
TimeoutBefore(n) == \E m \in timedOut : m < n

(* main() counts a launch as completed only if a thread of that launch     *)
(* read the END line of that launch, or an earlier wait_for_test_end ran   *)
(* into its timeout: test_completed carries no launch, so a thread that    *)
(* outlived a timeout may set it after reset_test_status, and a late END   *)
(* may still be buffered in the master port, which is never closed.        *)
FalseSuccessNeedsEarlierTimeout ==
  \A r \in passed : r[2] \in ended \/ TimeoutBefore(r[2])

(* A logger thread works for the launch under way, on the handle it was    *)
(* given, and alone on its port, unless an earlier wait timed out: then    *)
(* event_end_of_test may be cleared before the old thread has seen it.     *)
StaleReaderNeedsEarlierTimeout ==
  TimeoutBefore(launch) \/
    \A t \in threads :
      /\ t.launch = launch
      /\ t.handle = handle[t.port]
      /\ \A u \in threads : u.port = t.port => u = t

(* An image recorded as completed has its log on disk by then (the thread  *)
(* stores it before it sets test_completed), written by the launch that    *)
(* completed and holding text of no other launch; on the master port,      *)
(* which is open before the board starts, none of the text is missing.     *)
(* Without the plug a timeout of the completing launch itself is enough to *)
(* spoil this: its thread may live on and log the next image to this file. *)
DoneLogIsOwn ==
  \A r \in passed : ~ TimeoutBefore(IF HwControl THEN r[2] ELSE r[2] + 1) =>
    LET f == files[<< r[1], Bench >>] IN
      /\ f.by = r[2]
      /\ f.texts \subseteq {r[2]}
      /\ Bench = Master => f.texts = {r[2]}

(* The loop over the images comes to an end however the board behaves:     *)
(* every wait has a timeout and every image a bounded number of retries.   *)
TestLoopEnds == <> MainEnded

(* Once main() has ended the logger threads end too and the process goes,  *)
(* unless a port that failed to open ended main() between the clearing and *)
(* the setting of event_end_of_test.                                       *)
LoggersExit == (MainEnded /\ event) ~> Exited
=============================================================================
