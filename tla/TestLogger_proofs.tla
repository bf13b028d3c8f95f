--------------------------- MODULE TestLogger_proofs ---------------------------
(***************************************************************************)
(* Proofs about TestLogger for every number of images, retries and ports.  *)
(***************************************************************************)
EXTENDS TestLogger, TLAPS

(* Where the launch under way cannot have timed out yet.                   *)
Opening == mpc \in {"clear", "open", "spawn", "wait"}
(* main() is between wait_for_test_end and its verdict.                    *)
Deciding == mpc \in {"return", "reset", "verdict"}

(* A timeout can affect the launch under way or, between two launches, the *)
(* next one.                                                               *)
Stale == \E m \in timedOut : m < launch \/ mpc = "launch"

Busy  == board.phase \in {"boot", "run", "text"}
Quiet == ~ Busy /\ \A p \in LogPorts : rx[p] = << >>

TimedOutInv ==
  \A m \in timedOut : m <= launch /\ (Opening => m < launch)

PassedInv ==
  \A r \in passed : r[2] \in ended \/ TimeoutBefore(r[2])

(* The live threads are those of the launch under way, one per port.       *)
ThreadsInv ==
  /\ \A t \in threads :
       /\ t.launch = launch
       /\ t.handle = handle[t.port]
       /\ t.handle # Closed
       /\ mpc \in {"open", "spawn"} => t.port \notin todo
       /\ mpc = "spawn" => t.port # cur
       /\ t.pc \in {"store", "mark"} => launch \in ended
       /\ t.pc \in {"store", "mark", "finally"} => event
       /\ \A u \in threads : u.port = t.port => u = t
  /\ mpc \in {"launch", "clear"} => threads = {}
  /\ Deciding /\ launch \notin timedOut => threads = {}

(* While nothing has ended the test every port opened so far has a thread. *)
CoverInv ==
  /\ mpc = "spawn" => cur \notin todo /\ handle[cur] # Closed
  /\ mpc = "wait" => todo = {}
  /\ mpc \in {"open", "spawn", "wait"} /\ ~ event =>
       \A p \in LogPorts \ todo :
         (mpc = "spawn" /\ p = cur) \/ \E t \in threads : t.port = p

(* The lines under way are those of this launch, its last line is END on   *)
(* the benchmark's port or ERR on the master, and the test ends on it.     *)
StreamInv ==
  /\ mpc = "launch" => Quiet
  /\ mpc # "launch" => (Busy => board.launch = launch)
  /\ \A p \in LogPorts : \A i \in 1..Len(rx[p]) :
       LET line == rx[p][i] IN
         /\ line.launch = launch
         /\ line.kind = "ERR" =>
              /\ Len(rx[p]) = 1 /\ board.phase = "dead"
              /\ \A q \in LogPorts \ {p} : rx[q] = << >>
         /\ line.kind = "END" =>
              /\ i = Len(rx[p]) /\ board.phase = "fin"
              /\ \A q \in LogPorts \ {p} : rx[q] = << >>
         /\ line.kind \in {"START", "TEXT"} =>
              p = Bench /\ board.phase \in {"run", "text", "fin"}
  /\ mpc \notin {"launch", "clear"} /\ event /\ launch \notin timedOut => Quiet

StatusInv ==
  /\ completed => launch \in ended
  /\ mpc \in {"reset", "verdict"} /\ result => launch \in ended
  /\ mpc = "launch" => ~ completed
  /\ mpc = "verdict" /\ launch \notin timedOut => ~ completed
  /\ Deciding /\ launch \notin timedOut => event

CleanInv == ThreadsInv /\ CoverInv /\ StreamInv /\ StatusInv

IInv ==
  /\ TypeOK
  /\ TimedOutInv
  /\ PassedInv
  /\ (~ MainEnded /\ ~ Stale) => CleanInv

-----------------------------------------------------------------------------
LEMMA EmptyByLength ==
  ASSUME NEW S, NEW s \in Seq(S), Len(s) = 0
  PROVE  s = << >>
OBVIOUS

(* A thread keeps its identity when a line is dispatched to it: only its   *)
(* position and its log change.                                            *)
LEMMA DispatchKeeps ==
  ASSUME NEW t \in ThreadRecs, NEW line \in Lines
  PROVE  LET u == Dispatch(t, line) IN
         /\ u \in ThreadRecs
         /\ u.launch = t.launch /\ u.port = t.port /\ u.handle = t.handle
         /\ u.pc = IF line.kind = "END" THEN "store" ELSE "check"
<1> DEFINE u == Dispatch(t, line)
<1>0. line.kind \in Kinds /\ line.launch \in Nat  BY DEF Lines
<1>1. CASE line.kind = "START"
  <2>1. u = [t EXCEPT !.pc = "check", !.logging = TRUE]  BY <1>1 DEF Dispatch
  <2>2. QED  BY <2>1, <1>1 DEF ThreadRecs, ThreadPcs
<1>2. CASE line.kind = "END"
  <2>1. u = [t EXCEPT !.pc = "store", !.logging = FALSE]  BY <1>2 DEF Dispatch
  <2>2. QED  BY <2>1, <1>2 DEF ThreadRecs, ThreadPcs
<1>3. CASE line.kind = "ERR"
  <2>1. u = [t EXCEPT !.pc = "check", !.logging = FALSE]  BY <1>3 DEF Dispatch
  <2>2. QED  BY <2>1, <1>3 DEF ThreadRecs, ThreadPcs
<1>4. CASE line.kind = "TEXT"
  <2>1. u = [t EXCEPT !.pc = "check",
               !.texts = IF t.logging THEN @ \union {line.launch} ELSE @]
    BY <1>4 DEF Dispatch
  <2> DEFINE texts == IF t.logging THEN t.texts \union {line.launch} ELSE t.texts
  <2>2. texts \in SUBSET Nat  BY <1>0 DEF ThreadRecs
  <2>3. u = [t EXCEPT !.pc = "check", !.texts = texts]  BY <2>1
  <2>4. u \in ThreadRecs
    <3> HIDE DEF texts
    <3>1. QED  BY <2>2, <2>3 DEF ThreadRecs, ThreadPcs
  <2>5. u.launch = t.launch /\ u.port = t.port /\ u.handle = t.handle /\ u.pc = "check"
    <3> HIDE DEF texts
    <3>1. QED  BY <2>3 DEF ThreadRecs, ThreadPcs
  <2>6. QED  BY <2>4, <2>5, <1>4
<1>5. QED  BY <1>0, <1>1, <1>2, <1>3, <1>4 DEF Kinds

(* The initial state has the types.                                        *)
LEMMA InitType == Init => TypeOK
<1> SUFFICES ASSUME Init PROVE TypeOK  OBVIOUS
<1> USE ConstantsAssumption DEF ConstantsAssumption, Init
<1>1. /\ mpc \in MainPcs /\ img \in 1..NImgs /\ retry \in 0..(MaxRetries - 1)
      /\ launch \in Nat /\ todo \in SUBSET LogPorts /\ cur \in LogPorts
  BY DEF MainPcs
<1>2. handle \in [Ports -> Int] /\ board \in [phase : Phases, launch : Nat]
  BY DEF Closed, Phases
<1>3. files \in [(1..NImgs) \X Ports -> [by : Nat, texts : SUBSET Nat]]
  <2>1. NoFile \in [by : Nat, texts : SUBSET Nat]  BY DEF NoFile
  <2>2. QED  BY <2>1
<1>4. rx \in [Ports -> Seq(Lines)]
  <2>1. << >> \in Seq(Lines)  OBVIOUS
  <2>2. QED  BY <2>1
<1>5. timing \in [1..NImgs -> {"none", "done", "na"}]  OBVIOUS
<1>6. threads \in SUBSET ThreadRecs /\ passed \in SUBSET ((1..NImgs) \X Nat)
      /\ timedOut \in SUBSET Nat /\ ended \in SUBSET Nat
  OBVIOUS
<1>7. result \in BOOLEAN /\ event \in BOOLEAN /\ completed \in BOOLEAN  OBVIOUS
<1>8. img \in 1..(NImgs + 1)  OBVIOUS
<1> HIDE DEF Init
<1>9. QED  BY <1>1, <1>2, <1>3, <1>4, <1>5, <1>6, <1>7, <1>8 DEF TypeOK, MainEnded

(* What main() owes of its counters when it moves on.                      *)
NextImageType ==
  /\ mpc' \in MainPcs
  /\ img' \in 1..(NImgs + 1)
  /\ (mpc' \notin {"finished", "crashed"}) => img' \in 1..NImgs
  /\ retry' \in 0..(MaxRetries - 1)

(* Every step of main() keeps the types.                                   *)
LEMMA MainType ==
  ASSUME TypeOK, Main
  PROVE  TypeOK'
<1> USE ConstantsAssumption DEF TypeOK, MainPcs, MainEnded, loggerVars, boardVars, history,
        mainVars
<1>1. CASE Launch  BY <1>1 DEF Launch, LaunchTest, Phases
<1>2. CASE ClearEvent  BY <1>2 DEF ClearEvent
<1>3. CASE SpawnLogger
  <2>1. [launch |-> launch, port |-> cur, img |-> img, handle |-> handle[cur],
         pc |-> "check", logging |-> FALSE, texts |-> {}] \in ThreadRecs
    BY <1>3 DEF SpawnLogger, ThreadRecs, ThreadPcs, Ports
  <2>2. threads' \in SUBSET ThreadRecs  BY <1>3, <2>1 DEF SpawnLogger
  <2>3. QED  BY <1>3, <2>2 DEF SpawnLogger
<1>4. CASE JoinAll  BY <1>4 DEF JoinAll, AllJoined
<1>5. CASE JoinTimeout  BY <1>5 DEF JoinTimeout, JoinExpires
<1>6. CASE ReturnStatus  BY <1>6 DEF ReturnStatus
<1>7. CASE ResetStatus  BY <1>7 DEF ResetStatus, NewStatus
<1>8. CASE RecordPass
  <2>1. board' \in [phase : Phases, launch : Nat]
    BY <1>8 DEF RecordPass, HardwareReset, Phases
  <2>2. img \in 1..NImgs /\ NImgs \in Nat  BY <1>8 DEF RecordPass, ConstantsAssumption
  <2>3. passed' \in SUBSET ((1..NImgs) \X Nat)  BY <1>8, <2>2 DEF RecordPass
  <2>4. timing' \in [1..NImgs -> {"none", "done", "na"}]  BY <1>8 DEF RecordPass
  <2>5. NextImageType  BY <1>8, <2>2 DEF RecordPass, NextImage, NextImageType, ConstantsAssumption
  <2>6. QED  BY <1>8, <2>1, <2>3, <2>4, <2>5 DEF RecordPass, NextImageType
<1>9. CASE RecordFail
  <2>1. board' \in [phase : Phases, launch : Nat]
    BY <1>9 DEF RecordFail, LastTry, HardwareReset, Phases
  <2>2. img \in 1..NImgs /\ NImgs \in Nat  BY <1>9 DEF RecordFail, LastTry, ConstantsAssumption
  <2>3. timing' \in [1..NImgs -> {"none", "done", "na"}]  BY <1>9 DEF RecordFail, LastTry
  <2>4. NextImageType
    BY <1>9, <2>2 DEF RecordFail, LastTry, NextImage, NextImageType, ConstantsAssumption
  <2>5. QED  BY <1>9, <2>1, <2>3, <2>4 DEF RecordFail, LastTry, NextImageType
<1>12. CASE ResetRaises
  <2>1. board' \in [phase : Phases, launch : Nat]
    BY <1>12 DEF ResetRaises, HardwareReset, Phases
  <2>2. img \in 1..NImgs  BY <1>12 DEF ResetRaises
  <2>3. passed' \in SUBSET ((1..NImgs) \X Nat)  BY <1>12, <2>2 DEF ResetRaises
  <2>4. timing' \in [1..NImgs -> {"none", "done", "na"}]  BY <1>12 DEF ResetRaises
  <2>5. QED  BY <1>12, <2>1, <2>3, <2>4 DEF ResetRaises
<1>10. ASSUME NEW p \in LogPorts, OpenPort(p)  PROVE TypeOK'
  <2>1. << >> \in Seq(Lines)  OBVIOUS
  <2>2. rx' \in [Ports -> Seq(Lines)]  BY <1>10, <2>1 DEF OpenPort
  <2>3. handle' \in [Ports -> Int]  BY <1>10 DEF OpenPort
  <2>4. QED  BY <1>10, <2>2, <2>3 DEF OpenPort
<1>11. ASSUME NEW p \in LogPorts, OpenFails(p)  PROVE TypeOK'
  BY <1>11 DEF OpenFails
<1>13. QED  BY <1>1, <1>2, <1>3, <1>4, <1>5, <1>6, <1>7, <1>8, <1>9, <1>12, <1>10,
           <1>11 DEF Main

(* Every step of a logger thread keeps the types.                          *)
LEMMA ThreadType ==
  ASSUME TypeOK, NEW t \in threads, Thread(t)
  PROVE  TypeOK'
<1> USE DEF TypeOK, MainEnded, mainVars, boardVars, history
<1>0. t \in ThreadRecs  OBVIOUS
<1>1. CASE CheckEvent(t)
  <2>1. [t EXCEPT !.pc = IF event THEN "finally" ELSE "read"] \in ThreadRecs
    BY <1>0 DEF ThreadRecs, ThreadPcs
  <2>2. QED  BY <1>1, <2>1 DEF CheckEvent, EventSeen, Become
<1>2. CASE ReadFails(t)
  <2>1. [t EXCEPT !.pc = "finally"] \in ThreadRecs  BY <1>0 DEF ThreadRecs, ThreadPcs
  <2>2. QED  BY <1>2, <2>1 DEF ReadFails, Become
<1>3. CASE ReadTimeout(t)
  <2>1. [t EXCEPT !.pc = "check"] \in ThreadRecs  BY <1>0 DEF ThreadRecs, ThreadPcs
  <2>2. QED  BY <1>3, <2>1 DEF ReadTimeout, Become
<1>4. CASE ReadLine(t)
  <2> DEFINE line == Head(rx[t.port])
  <2>1. t.port \in Ports /\ t.launch \in Nat  BY <1>0 DEF ThreadRecs, Ports
  <2>2. rx[t.port] \in Seq(Lines) /\ rx[t.port] # << >>  BY <1>4, <2>1 DEF ReadLine
  <2>3. line \in Lines /\ Tail(rx[t.port]) \in Seq(Lines)  BY <2>2
  <2>4. Dispatch(t, line) \in ThreadRecs  BY <1>0, <2>3, DispatchKeeps
  <2>5. threads' \in SUBSET ThreadRecs  BY <1>4, <2>4 DEF ReadLine, Become
  <2>6. rx' \in [Ports -> Seq(Lines)]  BY <1>4, <2>1, <2>3 DEF ReadLine
  <2>7. ended' \in SUBSET Nat /\ event' \in BOOLEAN  BY <1>4, <2>1 DEF ReadLine
  <2>8. QED  BY <1>4, <2>5, <2>6, <2>7 DEF ReadLine
<1>5. CASE StoreLog(t)
  <2>1. [t EXCEPT !.pc = "mark"] \in ThreadRecs  BY <1>0 DEF ThreadRecs, ThreadPcs
  <2>2. [by |-> t.launch, texts |-> t.texts] \in [by : Nat, texts : SUBSET Nat]  BY <1>0 DEF ThreadRecs
  <2>3. QED  BY <1>5, <2>1, <2>2 DEF StoreLog, Stored, Become
<1>6. CASE MarkCompleted(t)
  <2>1. [t EXCEPT !.pc = "check"] \in ThreadRecs  BY <1>0 DEF ThreadRecs, ThreadPcs
  <2>2. QED  BY <1>6, <2>1 DEF MarkCompleted, Become
<1>7. CASE Finally(t)
  <2>1. [by |-> t.launch, texts |-> t.texts] \in [by : Nat, texts : SUBSET Nat]  BY <1>0 DEF ThreadRecs
  <2>2. handle' \in [Ports -> Int]  BY <1>7 DEF Finally, Stored, ClosesPort, Closed
  <2>3. rx' \in [Ports -> Seq(Lines)]
    <3>1. << >> \in Seq(Lines)  OBVIOUS
    <3>2. QED  BY <1>7, <3>1 DEF Finally, Stored, ClosesPort
  <2>4. QED  BY <1>7, <2>1, <2>2, <2>3 DEF Finally, Stored, ClosesPort
<1>8. QED  BY <1>1, <1>2, <1>3, <1>4, <1>5, <1>6, <1>7 DEF Thread

(* So does every line the board prints.                                    *)
LEMMA BoardType ==
  ASSUME TypeOK, BootError \/ BenchStart \/ BenchText \/ BenchEnd
  PROVE  TypeOK'
<1> USE DEF TypeOK, MainEnded, mainVars, loggerVars, history
<1>1. ASSUME NEW from \in Phases, NEW to \in Phases, NEW p \in Ports, NEW k \in Kinds,
             BoardStep(from, to, p, k)
      PROVE  TypeOK'
  <2>1. [kind |-> k, launch |-> board.launch] \in Lines  BY DEF Lines
  <2>2. rx' \in [Ports -> Seq(Lines)]  BY <1>1, <2>1 DEF BoardStep, Prints
  <2>3. board' \in [phase : Phases, launch : Nat]  BY <1>1 DEF BoardStep
  <2>4. QED  BY <1>1, <2>2, <2>3 DEF BoardStep
<1>2. Master \in Ports /\ Bench \in Ports  BY DEF Ports
<1>3. QED  BY <1>1, <1>2 DEF BootError, BenchStart, BenchText, BenchEnd, Phases, Kinds

LEMMA NextType == TypeOK /\ [Next]_vars => TypeOK'
<1> SUFFICES ASSUME TypeOK, [Next]_vars PROVE TypeOK'  OBVIOUS
<1>1. CASE UNCHANGED vars
  BY <1>1 DEF vars, mainVars, loggerVars, boardVars, history, TypeOK, MainEnded
<1>2. CASE Exit
  BY <1>2 DEF Exit, vars, mainVars, loggerVars, boardVars, history, TypeOK, MainEnded
<1>3. QED  BY <1>1, <1>2, MainType, ThreadType, BoardType DEF Next

(* The state of the test loop always has its types: retry_count stays      *)
(* below max_retries and i within list_bao_imgs while main() runs.         *)
THEOREM TypeCorrect == Spec => []TypeOK
<1>1. QED  BY InitType, NextType, PTL DEF Spec

-----------------------------------------------------------------------------
(* Without a timeout before it, a launch starts from a state that has none *)
(* of the earlier launches left in it.                                     *)
LEMMA StaleKept ==
  ASSUME TypeOK, TimedOutInv, [Next]_vars, ~ MainEnded', ~ Stale'
  PROVE  ~ MainEnded /\ ~ Stale
<1> USE DEF Stale, MainEnded, mainVars, history
<1>1. CASE Main
  <2>1. CASE Launch  BY <1>1, <2>1 DEF Launch, LaunchTest, TimedOutInv, TypeOK
  <2>2. CASE RecordPass
    BY <2>2 DEF RecordPass, NextImage, TimedOutInv, TypeOK
  <2>3. CASE RecordFail
    BY <2>3 DEF RecordFail, LastTry, NextImage, TimedOutInv, TypeOK
  <2>8. CASE ResetRaises  BY <2>8 DEF ResetRaises
  <2>4. CASE JoinTimeout  BY <2>4 DEF JoinTimeout, JoinExpires, TypeOK
  <2>5. CASE ClearEvent \/ SpawnLogger \/ JoinAll \/ ReturnStatus \/ ResetStatus
    BY <2>5 DEF ClearEvent, SpawnLogger, JoinAll, AllJoined, ReturnStatus, ResetStatus, NewStatus
  <2>6. CASE \E p \in LogPorts : OpenPort(p) \/ OpenFails(p)
    BY <2>6 DEF OpenPort, OpenFails
  <2>7. QED  BY <1>1, <2>1, <2>2, <2>3, <2>8, <2>4, <2>5, <2>6 DEF Main
<1>2. ASSUME NEW t \in threads, Thread(t)  PROVE ~ MainEnded /\ ~ Stale
  BY <1>2 DEF Thread, CheckEvent, EventSeen, ReadFails, ReadTimeout, ReadLine, StoreLog, Stored,
              MarkCompleted, Finally, Stored, ClosesPort
<1>3. CASE BootError \/ BenchStart \/ BenchText \/ BenchEnd
  BY <1>3 DEF BootError, BenchStart, BenchText, BenchEnd, BoardStep
<1>4. CASE Exit \/ UNCHANGED vars  BY <1>4 DEF Exit, vars
<1>5. QED  BY <1>1, <1>2, <1>3, <1>4 DEF Next

(* Timeouts are recorded for launches that have taken place.               *)
LEMMA TimedOutStep ==
  ASSUME TypeOK, TimedOutInv, [Next]_vars
  PROVE  TimedOutInv'
<1> USE DEF TimedOutInv, Opening, mainVars, history
<1>1. CASE Main
  <2>1. CASE Launch  BY <2>1 DEF Launch, LaunchTest, TypeOK
  <2>2. CASE RecordPass  BY <2>2 DEF RecordPass, NextImage
  <2>3. CASE RecordFail  BY <2>3 DEF RecordFail, LastTry, NextImage
  <2>8. CASE ResetRaises  BY <2>8 DEF ResetRaises
  <2>4. CASE JoinTimeout  BY <2>4 DEF JoinTimeout, JoinExpires, TypeOK
  <2>5. CASE ClearEvent \/ SpawnLogger \/ JoinAll \/ ReturnStatus \/ ResetStatus
    BY <2>5 DEF ClearEvent, SpawnLogger, JoinAll, AllJoined, ReturnStatus, ResetStatus, NewStatus
  <2>6. CASE \E p \in LogPorts : OpenPort(p) \/ OpenFails(p)
    BY <2>6 DEF OpenPort, OpenFails
  <2>7. QED  BY <1>1, <2>1, <2>2, <2>3, <2>8, <2>4, <2>5, <2>6 DEF Main
<1>2. ASSUME NEW t \in threads, Thread(t)  PROVE TimedOutInv'
  BY <1>2 DEF Thread, CheckEvent, EventSeen, ReadFails, ReadTimeout, ReadLine, StoreLog, Stored,
              MarkCompleted, Finally, Stored, ClosesPort
<1>3. CASE BootError \/ BenchStart \/ BenchText \/ BenchEnd
  BY <1>3 DEF BootError, BenchStart, BenchText, BenchEnd, BoardStep
<1>4. CASE Exit \/ UNCHANGED vars  BY <1>4 DEF Exit, vars
<1>5. QED  BY <1>1, <1>2, <1>3, <1>4 DEF Next

(* A launch is recorded on a result that StatusInv ties to its own END.    *)
LEMMA PassedStep ==
  ASSUME IInv, [Next]_vars
  PROVE  PassedInv'
<1> USE DEF IInv, PassedInv, TimeoutBefore, mainVars, history
<1>1. CASE Main
  <2>1. CASE RecordPass \/ (ResetRaises /\ result)
    <3>1. launch \in ended \/ TimeoutBefore(launch)
      BY <2>1 DEF RecordPass, ResetRaises, Stale, MainEnded, CleanInv, StatusInv
    <3>2. passed' = passed \union {<< img, launch >>} /\ UNCHANGED << ended, timedOut >>
      BY <2>1 DEF RecordPass, ResetRaises
    <3>3. QED  BY <3>1, <3>2
  <2>2. CASE JoinTimeout  BY <2>2 DEF JoinTimeout, JoinExpires
  <2>3. CASE Launch \/ RecordFail \/ (ResetRaises /\ ~ result)
    BY <2>3 DEF Launch, LaunchTest, RecordFail, LastTry, ResetRaises
  <2>4. CASE ClearEvent \/ SpawnLogger \/ JoinAll \/ ReturnStatus \/ ResetStatus
    BY <2>4 DEF ClearEvent, SpawnLogger, JoinAll, AllJoined, ReturnStatus, ResetStatus, NewStatus
  <2>5. CASE \E p \in LogPorts : OpenPort(p) \/ OpenFails(p)
    BY <2>5 DEF OpenPort, OpenFails
  <2>6. QED  BY <1>1, <2>1, <2>2, <2>3, <2>4, <2>5 DEF Main
<1>2. ASSUME NEW t \in threads, Thread(t)  PROVE PassedInv'
  BY <1>2 DEF Thread, CheckEvent, EventSeen, ReadFails, ReadTimeout, ReadLine, StoreLog, Stored,
              MarkCompleted, Finally, Stored, ClosesPort
<1>3. CASE BootError \/ BenchStart \/ BenchText \/ BenchEnd
  BY <1>3 DEF BootError, BenchStart, BenchText, BenchEnd, BoardStep
<1>4. CASE Exit \/ UNCHANGED vars  BY <1>4 DEF Exit, vars
<1>5. QED  BY <1>1, <1>2, <1>3, <1>4 DEF Next

(* The board prints in order, and nothing after END or a boot error.       *)
LEMMA BoardClean ==
  ASSUME TypeOK, ~ MainEnded, CleanInv,
         BootError \/ BenchStart \/ BenchText \/ BenchEnd
  PROVE  CleanInv'
<1> USE DEF CleanInv, BoardStep, mainVars, loggerVars, history
<1>0. PICK from \in Phases, to \in Phases, q \in Ports, k \in Kinds :
        /\ BoardStep(from, to, q, k)
        /\ << from, to, q, k >> \in { << "boot", "dead", Master, "ERR" >>,
             << "boot", "run", Bench, "START" >>, << "run", "text", Bench, "TEXT" >>,
             << "text", "fin", Bench, "END" >> }
  BY DEF BootError, BenchStart, BenchText, BenchEnd, Phases, Kinds, Ports
<1>1. ThreadsInv' /\ CoverInv' /\ StatusInv'
  BY <1>0 DEF ThreadsInv, CoverInv, StatusInv, Deciding
<1>2. StreamInv'
  <2>1. from \in {"boot", "run", "text"} /\ board.phase = from /\ Busy
    BY <1>0 DEF Busy
  <2>2. mpc # "launch" /\ board.launch = launch
    BY <2>1 DEF StreamInv, Quiet
  <2>3. board'.phase = to /\ board'.launch = launch /\ board' = [board EXCEPT !.phase = to]
    BY <1>0, <2>2 DEF TypeOK
  <2>4. ~ (mpc \notin {"launch", "clear"} /\ event /\ launch \notin timedOut)
    BY <2>1 DEF StreamInv, Quiet
  <2>5. \A p \in Ports \ {q} : rx'[p] = rx[p]  BY <1>0 DEF Prints, TypeOK
  <2>6. rx'[q] = rx[q] \/ rx'[q] = Append(rx[q], [kind |-> k, launch |-> launch])
    BY <1>0, <2>2 DEF Prints, TypeOK
  <2>7. \A p \in LogPorts : rx[p] \in Seq(Lines) /\ p \in Ports  BY DEF TypeOK, Ports
  <2>8. \A p \in LogPorts : \A i \in 1..Len(rx[p]) :
          rx[p][i].kind \in {"START", "TEXT"} /\ p = Bench /\ from \in {"run", "text"}
    <3> SUFFICES ASSUME NEW p \in LogPorts, NEW i \in 1..Len(rx[p])
                 PROVE  rx[p][i].kind \in {"START", "TEXT"} /\ p = Bench
                        /\ from \in {"run", "text"}
      OBVIOUS
    <3>1. rx[p] \in Seq(Lines)  BY <2>7
    <3>2. rx[p][i] \in Lines  BY <3>1
    <3>3. rx[p][i].kind \in Kinds  BY <3>2 DEF Lines
    <3>4. QED  BY <2>1, <3>3 DEF StreamInv, Kinds
  <2>9. ASSUME NEW p \in LogPorts, NEW i \in 1..Len(rx[p])'
        PROVE  LET line == rx'[p][i] IN
               /\ line.launch = launch
               /\ line.kind = "ERR" =>
                    /\ Len(rx'[p]) = 1 /\ to = "dead"
                    /\ \A r \in LogPorts \ {p} : rx'[r] = << >>
               /\ line.kind = "END" =>
                    /\ i = Len(rx'[p]) /\ to = "fin"
                    /\ \A r \in LogPorts \ {p} : rx'[r] = << >>
               /\ line.kind \in {"START", "TEXT"} => p = Bench /\ to \in {"run", "text", "fin"}
    <3> DEFINE line == rx'[p][i]
    <3>1. CASE i \in 1..Len(rx[p]) /\ line = rx[p][i]
      <4>1. line.launch = launch  BY <3>1 DEF StreamInv
      <4>2. line.kind \in {"START", "TEXT"} /\ p = Bench /\ from \in {"run", "text"}
        BY <3>1, <2>8
      <4>3. to \in {"text", "fin"}  BY <1>0, <4>2
      <4>4. QED  BY <4>1, <4>2, <4>3
    <3>2. CASE p = q /\ i = Len(rx[p]) + 1 /\ line = [kind |-> k, launch |-> launch]
               /\ Len(rx'[p]) = Len(rx[p]) + 1
      <4>1. \A r \in LogPorts \ {Bench} : rx[r] = << >>
        <5> SUFFICES ASSUME NEW r \in LogPorts \ {Bench}, rx[r] # << >> PROVE FALSE
          OBVIOUS
        <5>1. 1 \in 1..Len(rx[r])  BY <2>7
        <5>2. QED  BY <5>1, <2>8
      <4>2. from = "boot" => \A r \in LogPorts : rx[r] = << >>
        <5> SUFFICES ASSUME from = "boot", NEW r \in LogPorts, rx[r] # << >> PROVE FALSE
          OBVIOUS
        <5>1. 1 \in 1..Len(rx[r])  BY <2>7
        <5>2. QED  BY <5>1, <2>8
      <4>3. k = "ERR" => from = "boot" /\ to = "dead"  BY <1>0
      <4>4. k = "END" => q = Bench /\ to = "fin"  BY <1>0
      <4>5. k \in {"START", "TEXT"} => q = Bench /\ to \in {"run", "text"}  BY <1>0
      <4>6. \A r \in LogPorts \ {p} : rx'[r] = rx[r]  BY <3>2, <2>5, <2>7
      <4>7. k = "ERR" => Len(rx'[p]) = 1  BY <3>2, <4>2, <4>3
      <4>8. QED  BY <3>2, <4>1, <4>2, <4>3, <4>4, <4>5, <4>6, <4>7
    <3>3. QED
      <4>1. rx[p] \in Seq(Lines) /\ p \in Ports  BY <2>7
      <4>2. CASE rx'[p] = rx[p]  BY <4>1, <4>2, <3>1
      <4>3. CASE p = q /\ rx'[q] = Append(rx[q], [kind |-> k, launch |-> launch])
        <5> DEFINE e == [kind |-> k, launch |-> launch]
        <5>1. e \in Lines  BY <1>0 DEF Lines, TypeOK
        <5> HIDE DEF e
        <5>2. Len(rx'[p]) = Len(rx[p]) + 1 /\ i \in 1..(Len(rx[p]) + 1)
          BY <4>1, <4>3, <5>1 DEF e
        <5>3. rx'[p][i] = IF i = Len(rx[p]) + 1 THEN e ELSE rx[p][i]
          BY <4>1, <4>3, <5>1, <5>2 DEF e
        <5>4. CASE i = Len(rx[p]) + 1  BY <4>3, <5>2, <5>3, <5>4, <3>2 DEF e
        <5>5. CASE i # Len(rx[p]) + 1
          <6>1. i \in 1..Len(rx[p])  BY <4>1, <5>2, <5>5
          <6>2. QED  BY <6>1, <5>3, <5>5, <3>1
        <5>6. QED  BY <5>4, <5>5
      <4>4. QED  BY <4>1, <4>2, <4>3, <2>5, <2>6
  <2>10. UNCHANGED << mpc, event, launch, timedOut >>  BY <1>0
  <2>11. QED  BY <2>2, <2>3, <2>4, <2>9, <2>10 DEF StreamInv
<1>3. QED  BY <1>1, <1>2

(* The steps of main() keep the launch under way clean of earlier ones.    *)
LEMMA MainClean ==
  ASSUME TypeOK, TimedOutInv, ~ MainEnded, ~ MainEnded', CleanInv, ~ Stale, ~ Stale', Main
  PROVE  CleanInv'
<1> USE DEF CleanInv, mainVars, loggerVars, boardVars, history, MainEnded
<1>1. CASE Launch
  <2>1. timedOut = {}  BY <1>1 DEF Launch, LaunchTest, Stale
  <2>2. threads = {} /\ Quiet /\ ~ completed
    BY <1>1 DEF Launch, LaunchTest, ThreadsInv, StreamInv, StatusInv
  <2>3. ThreadsInv' /\ CoverInv' /\ StatusInv'
    BY <1>1, <2>2 DEF Launch, LaunchTest, ThreadsInv, CoverInv, StatusInv, Deciding
  <2>4. \A p \in LogPorts : rx'[p] = << >>  BY <1>1, <2>2 DEF Launch, LaunchTest, Quiet
  <2>5. \A p \in LogPorts : 1..Len(rx'[p]) = {}  BY <2>4
  <2>6. Busy' => board'.launch = launch'  BY <1>1, <2>2 DEF Launch, LaunchTest, Quiet, Busy
  <2>7. mpc' = "clear"  BY <1>1 DEF Launch, LaunchTest
  <2>8. QED  BY <2>3, <2>5, <2>6, <2>7 DEF StreamInv
<1>2. CASE ClearEvent
  <2>1. ThreadsInv' /\ CoverInv' /\ StatusInv'
    BY <1>2 DEF ClearEvent, ThreadsInv, CoverInv, StatusInv, Deciding
  <2>2. StreamInv'  BY <1>2 DEF ClearEvent, StreamInv, Busy
  <2>3. QED  BY <2>1, <2>2
<1>3. CASE SpawnLogger
  <2> DEFINE new == [launch |-> launch, port |-> cur, img |-> img, handle |-> handle[cur],
                     pc |-> "check", logging |-> FALSE, texts |-> {}]
  <2>1. handle[cur] # Closed /\ cur \notin todo  BY <1>3 DEF SpawnLogger, CoverInv
  <2>2. threads' = threads \union {new}  BY <1>3, <2>1 DEF SpawnLogger
  <2>3. \A t \in threads : t.port # cur  BY <1>3 DEF SpawnLogger, ThreadsInv
  <2>4. /\ new.launch = launch /\ new.port = cur /\ new.handle = handle[cur]
        /\ new.pc = "check"
    OBVIOUS
  <2>5. mpc' \in {"wait", "open"} /\ (mpc' = "wait" => todo = {}) /\ mpc = "spawn"
    BY <1>3 DEF SpawnLogger
  <2>6. UNCHANGED << launch, todo, cur, event, completed, handle, ended, timedOut, result >>
    BY <1>3 DEF SpawnLogger
  <2> HIDE DEF new
  <2>7. ThreadsInv'  BY <2>1, <2>2, <2>3, <2>4, <2>5, <2>6 DEF ThreadsInv, Deciding
  <2>8. CoverInv'  BY <2>2, <2>4, <2>5, <2>6 DEF CoverInv
  <2>9. StatusInv'  BY <2>5, <2>6 DEF StatusInv, Deciding
  <2>10. StreamInv'  BY <1>3, <2>5 DEF SpawnLogger, StreamInv, Quiet, Busy
  <2>11. QED  BY <2>7, <2>8, <2>9, <2>10
<1>4. CASE JoinAll
  <2>1. event
    <3> SUFFICES ASSUME ~ event PROVE FALSE  OBVIOUS
    <3>1. mpc = "wait" /\ todo = {} /\ threads = {}  BY <1>4 DEF JoinAll, AllJoined, CoverInv
    <3>2. PICK p \in LogPorts : TRUE  BY ConstantsAssumption DEF ConstantsAssumption
    <3>3. QED  BY <3>1, <3>2 DEF CoverInv
  <2>2. ThreadsInv' /\ CoverInv' /\ StatusInv'
    BY <1>4, <2>1 DEF JoinAll, AllJoined, ThreadsInv, CoverInv, StatusInv, Deciding
  <2>3. StreamInv'  BY <1>4 DEF JoinAll, AllJoined, StreamInv, Quiet, Busy
  <2>4. QED  BY <2>2, <2>3
<1>5. CASE JoinTimeout
  <2>1. launch \in timedOut'  BY <1>5 DEF JoinTimeout, JoinExpires
  <2>2. ThreadsInv' /\ CoverInv' /\ StatusInv'
    BY <1>5, <2>1 DEF JoinTimeout, JoinExpires, ThreadsInv, CoverInv, StatusInv, Deciding
  <2>3. StreamInv'  BY <1>5, <2>1 DEF JoinTimeout, JoinExpires, StreamInv, Busy
  <2>4. QED  BY <2>2, <2>3
<1>6. CASE ReturnStatus
  <2>1. ThreadsInv' /\ CoverInv' /\ StatusInv'
    BY <1>6 DEF ReturnStatus, ThreadsInv, CoverInv, StatusInv, Deciding
  <2>2. StreamInv'  BY <1>6 DEF ReturnStatus, StreamInv, Quiet, Busy
  <2>3. QED  BY <2>1, <2>2
<1>7. CASE ResetStatus
  <2>1. ThreadsInv' /\ CoverInv' /\ StatusInv'
    BY <1>7 DEF ResetStatus, NewStatus, ThreadsInv, CoverInv, StatusInv, Deciding
  <2>2. StreamInv'  BY <1>7 DEF ResetStatus, NewStatus, StreamInv, Quiet, Busy
  <2>3. QED  BY <2>1, <2>2
<1>8. CASE RecordPass \/ RecordFail
  <2>1. /\ mpc = "verdict" /\ mpc' = "launch"
        /\ UNCHANGED << launch, todo, cur, result, event, completed, handle, threads, rx,
                        timedOut, ended >>
    BY <1>8 DEF RecordPass, RecordFail, LastTry, NextImage
  <2>2. launch \notin timedOut  BY <2>1 DEF Stale
  <2>3. threads = {} /\ ~ completed /\ event  BY <2>1, <2>2 DEF ThreadsInv, StatusInv, Deciding
  <2>4. Quiet  BY <2>1, <2>2, <2>3 DEF StreamInv
  <2>5. board'.phase \in {board.phase, "off"}
    BY <1>8 DEF RecordPass, RecordFail, LastTry, HardwareReset, TypeOK
  <2>6. Quiet'  BY <2>1, <2>4, <2>5 DEF Quiet, Busy
  <2>7. \A p \in LogPorts : 1..Len(rx'[p]) = {}  BY <2>6 DEF Quiet
  <2>8. StreamInv'  BY <2>1, <2>6, <2>7 DEF StreamInv
  <2>9. ThreadsInv' /\ CoverInv' /\ StatusInv'
    BY <2>1, <2>3 DEF ThreadsInv, CoverInv, StatusInv, Deciding
  <2>10. QED  BY <2>8, <2>9
<1>9. ASSUME NEW p \in LogPorts, OpenPort(p)  PROVE CleanInv'
  <2>1. /\ p \in todo /\ todo' = todo \ {p} /\ cur' = p /\ mpc = "open" /\ mpc' = "spawn"
        /\ UNCHANGED << launch, result, event, completed, threads, board, timedOut, ended >>
    BY <1>9 DEF OpenPort
  <2>2. /\ handle'[p] # Closed
        /\ \A q \in Ports : q # p \/ handle[p] # Closed => handle'[q] = handle[q]
    BY <1>9 DEF OpenPort, TypeOK, Ports, Closed
  <2>3. \A t \in threads : t.port \in Ports /\ t.handle = handle'[t.port]
    <3> SUFFICES ASSUME NEW t \in threads PROVE t.port \in Ports /\ t.handle = handle'[t.port]
      OBVIOUS
    <3>1. t.port \in Ports  BY DEF TypeOK, ThreadRecs, Ports
    <3>2. t.handle = handle[t.port] /\ t.handle # Closed  BY DEF ThreadsInv
    <3>3. QED  BY <2>2, <3>1, <3>2
  <2>4. ThreadsInv'  BY <2>1, <2>3 DEF ThreadsInv, Deciding
  <2>5. CoverInv'  BY <2>1, <2>2 DEF CoverInv
  <2>6. StatusInv'  BY <2>1 DEF StatusInv, Deciding
  <2>7. \A q \in LogPorts : rx'[q] \in {rx[q], << >>}
    BY <1>9 DEF OpenPort, TypeOK, Ports
  <2>8. ASSUME NEW q \in LogPorts, NEW i \in 1..Len(rx'[q])
        PROVE  rx'[q] = rx[q] /\ i \in 1..Len(rx[q])
    <3>1. rx'[q] # << >>  OBVIOUS
    <3>2. QED  BY <2>7, <3>1
  <2>9. Quiet => Quiet'  BY <2>1, <2>7 DEF Quiet, Busy
  <2>10. \A q \in LogPorts : rx[q] = << >> => rx'[q] = << >>  BY <2>7
  <2>11. Busy' => board'.launch = launch'  BY <2>1 DEF StreamInv, Busy
  <2>12. ASSUME NEW q \in LogPorts, NEW i \in 1..Len(rx'[q])
         PROVE  LET line == rx'[q][i] IN
         /\ line.launch = launch
         /\ line.kind = "ERR" =>
              /\ Len(rx'[q]) = 1 /\ board.phase = "dead"
              /\ \A r \in LogPorts \ {q} : rx'[r] = << >>
         /\ line.kind = "END" =>
              /\ i = Len(rx'[q]) /\ board.phase = "fin"
              /\ \A r \in LogPorts \ {q} : rx'[r] = << >>
         /\ line.kind \in {"START", "TEXT"} =>
              q = Bench /\ board.phase \in {"run", "text", "fin"}
    BY <2>8, <2>10 DEF StreamInv
  <2>13. StreamInv'  BY <2>1, <2>9, <2>11, <2>12 DEF StreamInv
  <2>14. QED  BY <2>4, <2>5, <2>6, <2>13
<1>10. ASSUME NEW p \in LogPorts, OpenFails(p)  PROVE CleanInv'
  BY <1>10 DEF OpenFails
<1>11. QED
  BY <1>1, <1>2, <1>3, <1>4, <1>5, <1>6, <1>7, <1>8, <1>9, <1>10 DEF Main, ResetRaises

(* A step that replaces a thread by one of the same identity, at a place   *)
(* the event and the history allow, keeps ThreadsInv and CoverInv.         *)
LEMMA ReplaceThread ==
  ASSUME ThreadsInv, CoverInv, NEW t \in threads, NEW u,
         u.launch = t.launch, u.port = t.port, u.handle = t.handle,
         Become(t, u),
         u.pc \in {"store", "mark"} => launch \in ended',
         u.pc \in {"store", "mark", "finally"} => event',
         ended \subseteq ended', event => event',
         UNCHANGED << mainVars, handle, timedOut >>
  PROVE  ThreadsInv' /\ CoverInv'
<1>1. threads' = (threads \ {t}) \union {u}  BY DEF Become
<1>2. \A v \in threads' : \E w \in threads :
        /\ v.launch = w.launch /\ v.port = w.port /\ v.handle = w.handle
        /\ (v.pc = w.pc /\ v = w /\ w # t) \/ (v = u /\ w = t)
  BY <1>1
<1>3. ThreadsInv'
  <2>1. ASSUME NEW v \in threads', NEW w \in threads', w.port = v.port  PROVE w = v
    BY <1>2, <2>1 DEF ThreadsInv
  <2>2. ASSUME NEW v \in threads'
        PROVE  /\ v.launch = launch /\ v.handle = handle[v.port] /\ v.handle # Closed
               /\ mpc \in {"open", "spawn"} => v.port \notin todo
               /\ mpc = "spawn" => v.port # cur
               /\ v.pc \in {"store", "mark"} => launch \in ended'
               /\ v.pc \in {"store", "mark", "finally"} => event'
    BY <1>2 DEF ThreadsInv
  <2>3. threads # {} /\ UNCHANGED mpc /\ UNCHANGED launch  BY DEF mainVars
  <2>4. QED  BY <2>1, <2>2, <2>3 DEF ThreadsInv, Deciding, mainVars
<1>4. CoverInv'  BY <1>1 DEF CoverInv, mainVars
<1>5. QED  BY <1>3, <1>4

(* A logger thread keeps the launch under way clean of earlier ones.       *)
LEMMA ThreadClean ==
  ASSUME TypeOK, TimedOutInv, ~ MainEnded, CleanInv, ~ Stale, NEW t \in threads, Thread(t)
  PROVE  CleanInv'
<1> USE DEF CleanInv, boardVars, history
<1>0. /\ t \in ThreadRecs /\ t.port \in LogPorts /\ t.port \in Ports
      /\ t.launch = launch /\ t.handle = handle[t.port]
  BY DEF TypeOK, ThreadRecs, Ports, ThreadsInv
<1>1. mpc \notin {"launch", "clear"} /\ (Deciding => launch \in timedOut)
  BY DEF ThreadsInv
<1>2. CASE CheckEvent(t)
  <2> DEFINE u == [t EXCEPT !.pc = IF event THEN "finally" ELSE "read"]
  <2>1. /\ u.launch = t.launch /\ u.port = t.port /\ u.handle = t.handle
        /\ u.pc = IF event THEN "finally" ELSE "read"
    BY <1>0 DEF ThreadRecs
  <2>2. Become(t, u)  BY <1>2 DEF CheckEvent, EventSeen
  <2> HIDE DEF u
  <2>3. ThreadsInv' /\ CoverInv'  BY <1>2, <2>1, <2>2, ReplaceThread DEF CheckEvent, EventSeen
  <2>4. StreamInv' /\ StatusInv'
    BY <1>2 DEF CheckEvent, EventSeen, StreamInv, StatusInv, Quiet, Busy, Deciding, mainVars
  <2>5. QED  BY <2>3, <2>4
<1>3. CASE ReadFails(t)  BY <1>0, <1>3 DEF ReadFails
<1>4. CASE ReadTimeout(t)
  <2> DEFINE u == [t EXCEPT !.pc = "check"]
  <2>1. u.launch = t.launch /\ u.port = t.port /\ u.handle = t.handle /\ u.pc = "check"
    BY <1>0 DEF ThreadRecs
  <2>2. Become(t, u)  BY <1>4 DEF ReadTimeout
  <2> HIDE DEF u
  <2>3. ThreadsInv' /\ CoverInv'  BY <1>4, <2>1, <2>2, ReplaceThread DEF ReadTimeout
  <2>4. StreamInv' /\ StatusInv'
    BY <1>4 DEF ReadTimeout, StreamInv, StatusInv, Quiet, Busy, Deciding, mainVars
  <2>5. QED  BY <2>3, <2>4
<1>5. CASE ReadLine(t)
  <2> DEFINE q == t.port
             line == Head(rx[q])
             u == Dispatch(t, line)
  <2>1. rx[q] \in Seq(Lines) /\ rx[q] # << >>  BY <1>0, <1>5 DEF ReadLine, TypeOK
  <2>2. line = rx[q][1] /\ 1 \in 1..Len(rx[q]) /\ line \in Lines  BY <2>1
  <2>3. line.launch = launch  BY <2>2, <1>0 DEF StreamInv
  <2>4. /\ u.launch = t.launch /\ u.port = t.port /\ u.handle = t.handle
        /\ u.pc = IF line.kind = "END" THEN "store" ELSE "check"
    BY <1>0, <2>2, DispatchKeeps
  <2>5. /\ Become(t, u)
        /\ event' = (event \/ line.kind \in {"END", "ERR"})
        /\ ended' = IF line.kind = "END" THEN ended \union {launch} ELSE ended
        /\ rx' = [rx EXCEPT ![q] = Tail(@)]
        /\ UNCHANGED << mainVars, completed, handle, board, timedOut >>
    BY <1>0, <1>5, <2>3 DEF ReadLine
  <2>6. ThreadsInv' /\ CoverInv'
    <3> HIDE DEF u
    <3>1. u.pc \in {"store", "mark", "finally"} => line.kind = "END"  BY <2>4
    <3>2. ended \subseteq ended' /\ (event => event')  BY <2>5
    <3>3. u.pc \in {"store", "mark"} => launch \in ended'  BY <2>5, <3>1
    <3>4. u.pc \in {"store", "mark", "finally"} => event'  BY <2>5, <3>1
    <3>5. QED  BY <2>4, <2>5, <3>2, <3>3, <3>4, ReplaceThread
  <2>7. StatusInv'  BY <1>1, <2>5 DEF StatusInv, Deciding, mainVars, TypeOK
  <2>8. /\ Tail(rx[q]) \in Seq(Lines) /\ Len(Tail(rx[q])) = Len(rx[q]) - 1
        /\ \A i \in 1..Len(Tail(rx[q])) : Tail(rx[q])[i] = rx[q][i + 1] /\ i + 1 \in 1..Len(rx[q])
    BY <2>1
  <2>9. /\ rx'[q] = Tail(rx[q])
        /\ \A p \in LogPorts \ {q} : rx'[p] = rx[p]
    BY <1>0, <2>5 DEF TypeOK, Ports
  <2>10. line.kind \in {"END", "ERR"} => Quiet'
    <3> SUFFICES ASSUME line.kind \in {"END", "ERR"} PROVE Quiet'  OBVIOUS
    <3>1. Len(rx[q]) = 1 /\ board.phase \in {"fin", "dead"}
          /\ \A p \in LogPorts \ {q} : rx[p] = << >>
      BY <1>0, <2>2 DEF StreamInv
    <3>2. Len(Tail(rx[q])) = 0  BY <2>8, <3>1
    <3>3. Tail(rx[q]) = << >>
      <4> HIDE DEF q
      <4>1. QED  BY <2>8, <3>2, EmptyByLength
    <3>4. QED  BY <2>5, <2>9, <3>1, <3>3 DEF Quiet, Busy
  <2>11. event /\ launch \notin timedOut => Quiet'
    <3>1. event /\ launch \notin timedOut => rx[q] = << >>  BY <1>0, <1>1 DEF StreamInv, Quiet
    <3>2. QED  BY <2>1, <3>1
  <2>12. ASSUME NEW p \in LogPorts, NEW i \in 1..Len(rx'[p])
         PROVE  LET l == rx'[p][i] IN
         /\ l.launch = launch
         /\ l.kind = "ERR" =>
              /\ Len(rx'[p]) = 1 /\ board.phase = "dead"
              /\ \A r \in LogPorts \ {p} : rx'[r] = << >>
         /\ l.kind = "END" =>
              /\ i = Len(rx'[p]) /\ board.phase = "fin"
              /\ \A r \in LogPorts \ {p} : rx'[r] = << >>
         /\ l.kind \in {"START", "TEXT"} =>
              p = Bench /\ board.phase \in {"run", "text", "fin"}
    <3> DEFINE j == IF p = q THEN i + 1 ELSE i
    <3>1. rx'[p][i] = rx[p][j] /\ j \in 1..Len(rx[p])
      <4>1. CASE p = q  BY <2>8, <2>9, <4>1
      <4>2. CASE p # q  BY <2>9, <4>2
      <4>3. QED  BY <4>1, <4>2
    <3>2. Len(rx'[p]) = IF p = q THEN Len(rx[p]) - 1 ELSE Len(rx[p])
      BY <2>8, <2>9
    <3>3. rx[p][j].kind # "ERR" \/ p # q
      <4> SUFFICES ASSUME p = q, rx[p][j].kind = "ERR" PROVE FALSE  OBVIOUS
      <4>1. Len(rx[p]) = 1  BY <3>1 DEF StreamInv
      <4>2. QED  BY <4>1, <3>1
    <3>4. \A r \in LogPorts : rx[r] = << >> => rx'[r] = << >>  BY <2>1, <2>9
    <3>5. p # q => rx[q] # << >>  BY <2>1
    <3>6. QED
      <4> HIDE DEF j
      <4>1. /\ rx[p][j].launch = launch
            /\ rx[p][j].kind = "ERR" =>
                 /\ Len(rx[p]) = 1 /\ board.phase = "dead"
                 /\ \A r \in LogPorts \ {p} : rx[r] = << >>
            /\ rx[p][j].kind = "END" =>
                 /\ j = Len(rx[p]) /\ board.phase = "fin"
                 /\ \A r \in LogPorts \ {p} : rx[r] = << >>
            /\ rx[p][j].kind \in {"START", "TEXT"} =>
                 p = Bench /\ board.phase \in {"run", "text", "fin"}
        BY <3>1 DEF StreamInv
      <4>2. rx[p][j].kind = "END" => i = Len(rx'[p])
        BY <4>1, <3>1, <3>2 DEF j
      <4>3. QED  BY <4>1, <4>2, <3>1, <3>2, <3>3, <3>4, <3>5, <1>0
  <2>13. StreamInv'
    <3>1. mpc' # "launch" /\ (Busy' => board'.launch = launch')
      BY <1>1, <2>5 DEF StreamInv, Busy, mainVars
    <3>2. UNCHANGED << launch, board, timedOut >>  BY <2>5 DEF mainVars
    <3>3. event' /\ launch \notin timedOut => Quiet'
      <4> HIDE DEF line, u, q
      <4>1. event' => event \/ line.kind \in {"END", "ERR"}  BY <2>5
      <4>2. QED  BY <4>1, <2>10, <2>11
    <3> HIDE DEF q, line, u
    <3>4. QED  BY <2>12, <3>1, <3>2, <3>3 DEF StreamInv
  <2>14. QED
    <3> HIDE DEF q, line, u
    <3>1. QED  BY <2>6, <2>7, <2>13, Zenon
<1>6. CASE StoreLog(t)
  <2> DEFINE u == [t EXCEPT !.pc = "mark"]
  <2>1. u.launch = t.launch /\ u.port = t.port /\ u.handle = t.handle /\ u.pc = "mark"
    BY <1>0 DEF ThreadRecs
  <2>2. Become(t, u)  BY <1>6 DEF StoreLog, Stored
  <2>3. launch \in ended /\ event  BY <1>6 DEF StoreLog, Stored, ThreadsInv
  <2> HIDE DEF u
  <2>4. ThreadsInv' /\ CoverInv'  BY <1>6, <2>1, <2>2, <2>3, ReplaceThread DEF StoreLog, Stored
  <2>5. StreamInv' /\ StatusInv'
    BY <1>6 DEF StoreLog, Stored, StreamInv, StatusInv, Quiet, Busy, Deciding, mainVars
  <2>6. QED  BY <2>4, <2>5
<1>7. CASE MarkCompleted(t)
  <2> DEFINE u == [t EXCEPT !.pc = "check"]
  <2>1. u.launch = t.launch /\ u.port = t.port /\ u.handle = t.handle /\ u.pc = "check"
    BY <1>0 DEF ThreadRecs
  <2>2. Become(t, u)  BY <1>7 DEF MarkCompleted
  <2>3. launch \in ended  BY <1>7 DEF MarkCompleted, ThreadsInv
  <2> HIDE DEF u
  <2>4. ThreadsInv' /\ CoverInv'  BY <1>7, <2>1, <2>2, ReplaceThread DEF MarkCompleted
  <2>5. StreamInv'
    BY <1>7 DEF MarkCompleted, StreamInv, Quiet, Busy, mainVars
  <2>6. StatusInv'
    BY <1>1, <1>7, <2>3 DEF MarkCompleted, StatusInv, Deciding, mainVars
  <2>7. QED  BY <2>4, <2>5, <2>6
<1>8. CASE Finally(t)
  <2>1. event /\ event' /\ threads' = threads \ {t} /\ UNCHANGED << mainVars, ended, timedOut >>
    BY <1>8 DEF Finally, Stored, ClosesPort, ThreadsInv
  <2>2. \A p \in Ports : p # t.port => handle'[p] = handle[p]
    BY <1>8 DEF Finally, Stored, ClosesPort, TypeOK
  <2>3. \A v \in threads' : v.port \in Ports /\ v.port # t.port
    BY <2>1 DEF ThreadsInv, TypeOK, ThreadRecs, Ports
  <2>4. ThreadsInv'
    <3>1. \A v \in threads' : v.handle = handle'[v.port]  BY <2>1, <2>2, <2>3 DEF ThreadsInv
    <3>2. QED  BY <2>1, <3>1 DEF ThreadsInv, Deciding, mainVars
  <2>5. CoverInv'
    <3>1. mpc = "spawn" => cur # t.port /\ cur \in Ports  BY DEF ThreadsInv, TypeOK, Ports
    <3>2. QED  BY <2>1, <2>2, <3>1 DEF CoverInv, mainVars
  <2>6. StatusInv'  BY <1>8 DEF Finally, Stored, ClosesPort, StatusInv, Deciding, mainVars
  <2>7. \A p \in LogPorts : rx'[p] \in {rx[p], << >>}
    BY <1>8 DEF Finally, Stored, ClosesPort, TypeOK, Ports
  <2>8. ASSUME NEW p \in LogPorts, NEW i \in 1..Len(rx'[p])
        PROVE  rx'[p] = rx[p] /\ i \in 1..Len(rx[p])
    <3>1. rx'[p] # << >>  OBVIOUS
    <3>2. QED  BY <2>7, <3>1
  <2>9. \A p \in LogPorts : rx[p] = << >> => rx'[p] = << >>  BY <2>7
  <2>10. UNCHANGED << board, mpc, launch, event, timedOut >>  BY <1>8 DEF Finally, Stored, ClosesPort, mainVars
  <2>11. Quiet => Quiet'  BY <2>9, <2>10 DEF Quiet, Busy
  <2>12. \A p \in LogPorts : \A i \in 1..Len(rx'[p]) :
         LET line == rx'[p][i] IN
         /\ line.launch = launch
         /\ line.kind = "ERR" =>
              /\ Len(rx'[p]) = 1 /\ board.phase = "dead"
              /\ \A r \in LogPorts \ {p} : rx'[r] = << >>
         /\ line.kind = "END" =>
              /\ i = Len(rx'[p]) /\ board.phase = "fin"
              /\ \A r \in LogPorts \ {p} : rx'[r] = << >>
         /\ line.kind \in {"START", "TEXT"} =>
              p = Bench /\ board.phase \in {"run", "text", "fin"}
    BY <2>8, <2>9 DEF StreamInv
  <2>13. StreamInv'  BY <2>10, <2>11, <2>12 DEF StreamInv, Busy
  <2>14. QED  BY <2>4, <2>5, <2>6, <2>13
<1>9. QED  BY <1>2, <1>3, <1>4, <1>5, <1>6, <1>7, <1>8 DEF Thread

-----------------------------------------------------------------------------
LEMMA InitInv == Init => IInv
<1> SUFFICES ASSUME Init PROVE IInv  OBVIOUS
<1>1. TypeOK  BY InitType
<1>2. \A p \in LogPorts : rx[p] = << >>  BY DEF Init, Ports
<1>3. \A p \in LogPorts : 1..Len(rx[p]) = {}  BY <1>2
<1>4. StreamInv  BY <1>2, <1>3 DEF Init, StreamInv, Quiet, Busy
<1>5. ThreadsInv /\ CoverInv /\ StatusInv
  BY DEF Init, ThreadsInv, CoverInv, StatusInv, Deciding
<1>6. TimedOutInv /\ PassedInv  BY DEF Init, TimedOutInv, PassedInv
<1>7. QED  BY <1>1, <1>4, <1>5, <1>6 DEF IInv, CleanInv

LEMMA NextInv == IInv /\ [Next]_vars => IInv'
<1> SUFFICES ASSUME IInv, [Next]_vars PROVE IInv'  OBVIOUS
<1>1. TypeOK' /\ TimedOutInv' /\ PassedInv'
  BY NextType, TimedOutStep, PassedStep DEF IInv
<1>2. ASSUME ~ MainEnded', ~ Stale'  PROVE CleanInv'
  <2>1. TypeOK /\ TimedOutInv /\ ~ MainEnded /\ ~ Stale /\ CleanInv
    BY <1>2, StaleKept DEF IInv
  <2>2. CASE Main  BY <1>2, <2>1, <2>2, MainClean
  <2>3. ASSUME NEW t \in threads, Thread(t)  PROVE CleanInv'  BY <2>1, <2>3, ThreadClean
  <2>4. CASE BootError \/ BenchStart \/ BenchText \/ BenchEnd  BY <2>1, <2>4, BoardClean
  <2>5. CASE Exit \/ UNCHANGED vars
    BY <2>1, <2>5 DEF Exit, vars, mainVars, loggerVars, boardVars, history, CleanInv,
       ThreadsInv, CoverInv, StreamInv, StatusInv, Quiet, Busy, Deciding
  <2>6. QED  BY <2>2, <2>3, <2>4, <2>5 DEF Next
<1>3. QED  BY <1>1, <1>2 DEF IInv

(* Whatever the images, retries and ports: a launch counted as completed   *)
(* ended by its own END line, or some earlier launch timed out.            *)
THEOREM NoFalseSuccess == Spec => []FalseSuccessNeedsEarlierTimeout
<1>1. IInv => FalseSuccessNeedsEarlierTimeout
  BY DEF IInv, PassedInv, FalseSuccessNeedsEarlierTimeout
<1>2. QED  BY <1>1, InitInv, NextInv, PTL DEF Spec

-----------------------------------------------------------------------------
(* While a launch is under way its threads are clean by IInv; before the   *)
(* next one, and when main() has ended, they stay what they were.          *)
OwnThreads ==
  \A t \in threads :
    /\ t.launch = launch
    /\ t.handle = handle[t.port]
    /\ \A u \in threads : u.port = t.port => u = t
Between == mpc \in {"launch", "finished", "crashed"}

LEMMA CleanThreads ==
  ASSUME IInv, ~ Between, ~ TimeoutBefore(launch)
  PROVE  OwnThreads
<1>1. ~ MainEnded /\ ~ Stale
  BY DEF Between, MainEnded, Stale, TimeoutBefore
<1>2. ThreadsInv  BY <1>1 DEF IInv, CleanInv
<1>3. QED  BY <1>2 DEF ThreadsInv, OwnThreads

(* A thread that goes on keeps its launch, its port and its handle.        *)
LEMMA ThreadOwn ==
  ASSUME TypeOK, OwnThreads, NEW t \in threads, Thread(t), UNCHANGED launch
  PROVE  OwnThreads'
<1>0. t \in ThreadRecs /\ t.port \in Ports
  BY DEF TypeOK, ThreadRecs, Ports
<1>1. ASSUME NEW u, u.launch = t.launch, u.port = t.port, u.handle = t.handle,
             Become(t, u), UNCHANGED handle
      PROVE  OwnThreads'
  <2>1. threads' = (threads \ {t}) \union {u}  BY <1>1 DEF Become
  <2>2. QED  BY <1>1, <2>1 DEF OwnThreads
<1>2. CASE CheckEvent(t)
  BY <1>0, <1>1, <1>2 DEF CheckEvent, EventSeen, ThreadRecs
<1>3. CASE ReadFails(t)  BY <1>0, <1>1, <1>3 DEF ReadFails, ThreadRecs
<1>4. CASE ReadTimeout(t)  BY <1>0, <1>1, <1>4 DEF ReadTimeout, ThreadRecs
<1>5. CASE ReadLine(t)
  <2>1. rx[t.port] \in Seq(Lines) /\ rx[t.port] # << >>
    BY <1>0, <1>5 DEF ReadLine, TypeOK
  <2>2. Head(rx[t.port]) \in Lines  BY <2>1
  <2> DEFINE u == Dispatch(t, Head(rx[t.port]))
  <2>3. u.launch = t.launch /\ u.port = t.port /\ u.handle = t.handle
    BY <1>0, <2>2, DispatchKeeps
  <2>4. Become(t, u) /\ UNCHANGED handle  BY <1>5 DEF ReadLine
  <2> HIDE DEF u
  <2>5. QED  BY <1>1, <2>3, <2>4
<1>6. CASE StoreLog(t)  BY <1>0, <1>1, <1>6 DEF StoreLog, ThreadRecs
<1>7. CASE MarkCompleted(t)  BY <1>0, <1>1, <1>7 DEF MarkCompleted, ThreadRecs
<1>8. CASE Finally(t)
  <2>1. threads' = threads \ {t}  BY <1>8 DEF Finally
  <2>2. \A p \in Ports : p # t.port => handle'[p] = handle[p]
    BY <1>8 DEF Finally, ClosesPort
  <2>3. \A v \in threads' : v.port \in Ports /\ v.port # t.port
    BY <2>1 DEF OwnThreads, TypeOK, ThreadRecs, Ports
  <2>4. QED  BY <2>1, <2>2, <2>3 DEF OwnThreads
<1>9. QED
  BY <1>2, <1>3, <1>4, <1>5, <1>6, <1>7, <1>8 DEF Thread

LEMMA ReadersStep ==
  ASSUME IInv, IInv', [Next]_vars, TimeoutBefore(launch) \/ OwnThreads
  PROVE  (TimeoutBefore(launch) \/ OwnThreads)'
<1> SUFFICES ASSUME ~ TimeoutBefore(launch)', Between'  PROVE OwnThreads'
  BY CleanThreads DEF IInv, Between, TimeoutBefore, OwnThreads, MainEnded, Stale,
     CleanInv, ThreadsInv
<1> USE DEF IInv, mainVars, history
<1>1. CASE Main
  <2>1. CASE RecordPass \/ RecordFail \/ ResetRaises
           \/ \E p \in LogPorts : OpenFails(p)
    <3>1. UNCHANGED << threads, launch, handle, timedOut >>
      BY <2>1 DEF RecordPass, RecordFail, LastTry, ResetRaises, OpenFails, loggerVars
    <3>2. QED  BY <3>1 DEF OwnThreads, TimeoutBefore
  <2>2. CASE Launch \/ ClearEvent \/ SpawnLogger \/ JoinAll \/ JoinTimeout
           \/ ReturnStatus \/ ResetStatus \/ \E p \in LogPorts : OpenPort(p)
    BY <2>2 DEF Between, Launch, ClearEvent, SpawnLogger, JoinAll, JoinTimeout,
       ReturnStatus, ResetStatus, OpenPort
  <2>3. QED  BY <1>1, <2>1, <2>2 DEF Main
<1>2. ASSUME NEW t \in threads, Thread(t)  PROVE OwnThreads'
  <2>1. UNCHANGED << launch, timedOut >>
    BY <1>2 DEF Thread, CheckEvent, ReadFails, ReadTimeout, ReadLine, StoreLog,
       MarkCompleted, Finally
  <2>2. OwnThreads  BY <2>1 DEF TimeoutBefore
  <2>3. QED  BY <1>2, <2>1, <2>2, ThreadOwn
<1>3. CASE BootError \/ BenchStart \/ BenchText \/ BenchEnd
  BY <1>3 DEF BootError, BenchStart, BenchText, BenchEnd, BoardStep, loggerVars,
     OwnThreads, TimeoutBefore
<1>4. CASE Exit \/ UNCHANGED vars
  BY <1>4 DEF Exit, vars, loggerVars, OwnThreads, TimeoutBefore
<1>5. QED  BY <1>1, <1>2, <1>3, <1>4 DEF Next

(* Whatever the images, retries and ports: a logger thread works for the   *)
(* launch under way, on the handle it was given and alone on its port, or  *)
(* an earlier launch timed out.                                            *)
THEOREM NoStaleReader == Spec => []StaleReaderNeedsEarlierTimeout
<1> DEFINE Readers == TimeoutBefore(launch) \/ OwnThreads
<1>1. Init => Readers  BY DEF Init, OwnThreads
<1>2. IInv /\ IInv' /\ [Next]_vars /\ Readers => Readers'  BY ReadersStep
<1>3. Readers => StaleReaderNeedsEarlierTimeout
  BY DEF OwnThreads, StaleReaderNeedsEarlierTimeout
<1> HIDE DEF Readers
<1>4. QED  BY <1>1, <1>2, <1>3, InitInv, NextInv, PTL DEF Spec

-----------------------------------------------------------------------------
(* The log of an image recorded as completed is its own and is whole.      *)

(* Threads and END lines are of launches that have taken place.            *)
BoundsInv ==
  /\ \A t \in threads : t.launch <= launch
  /\ \A m \in ended : m <= launch

(* The log of image i is that of launch n.                                 *)
WholeText(texts, n) ==
  /\ texts \subseteq {n}
  /\ Bench = Master => texts = {n}
Own(i, n) ==
  /\ files[<< i, Bench >>].by = n
  /\ WholeText(files[<< i, Bench >>].texts, n)

Finishing(t) == t.pc \in {"store", "mark"}

(* The threads log what this launch prints, and only the one that reads    *)
(* the benchmark's port reads an END.                                      *)
LoggingInv ==
  /\ \A t \in threads :
       /\ t.img = img
       /\ t.texts \subseteq {launch}
       /\ Finishing(t) => t.port = Bench
       /\ launch \in ended /\ t.port = Bench => ~ t.logging
       /\ t.pc = "store" => WholeText(t.texts, launch)
       /\ t.pc = "mark" => Own(img, launch)
  /\ \A p \in LogPorts : \A i \in 1..Len(rx[p]) :
       rx[p][i].kind = "END" => p = Bench
  /\ launch \in ended => Quiet

(* Once the status is set, or main() has seen it, the log is stored, and   *)
(* nobody is about to store another.                                       *)
Settled == completed \/ (mpc \in {"reset", "verdict"} /\ result)
SettledInv ==
  Settled => Own(img, launch) /\ \A t \in threads : ~ Finishing(t)

(* On the master port, which is open from the beginning, the lines of the  *)
(* benchmark come one after the other: what is not in the port was read.   *)
Live    == \E t \in threads : t.port = Bench
Started == \E t \in threads : t.port = Bench /\ t.logging
HasText == \E t \in threads : t.port = Bench /\ t.logging /\ launch \in t.texts
LineInv(q, i) ==
  /\ q[i].kind = "START" => i = 1
  /\ q[i].kind = "TEXT" => IF i = 1 THEN Started ELSE q[i - 1].kind = "START"
  /\ q[i].kind = "END" => IF i = 1 THEN HasText ELSE q[i - 1].kind = "TEXT"
TailInv(q) ==
  /\ board.phase = "boot" => q = << >>
  /\ board.phase = "run" =>
       IF q = << >> THEN Started ELSE q[Len(q)].kind = "START"
  /\ board.phase = "text" =>
       IF q = << >> THEN HasText ELSE q[Len(q)].kind = "TEXT"
MasterInv ==
  Bench = Master /\ (Opening \/ Live) =>
    /\ \A i \in 1..Len(rx[Bench]) : LineInv(rx[Bench], i)
    /\ TailInv(rx[Bench])

LogInv == LoggingInv /\ SettledInv /\ MasterInv

(* What is recorded keeps its log: a thread that could still write to it   *)
(* has nothing to read and nothing to store.                               *)
Undisturbed(r) == ~ TimeoutBefore(IF HwControl THEN r[2] ELSE r[2] + 1)
Harmless(t) ==
  /\ HwControl
  /\ mpc \in {"launch", "finished", "crashed"}
  /\ ~ t.logging /\ ~ Finishing(t)
  /\ rx[Bench] = << >> /\ ~ Busy
PassedLogInv ==
  \A r \in passed : Undisturbed(r) =>
    /\ Own(r[1], r[2])
    /\ r[1] <= img
    /\ r[1] = img => mpc = "crashed"
    /\ \A t \in threads : t.img = r[1] /\ t.port = Bench => Harmless(t)

MasterOpen == handle[Master] # Closed

JInv ==
  /\ IInv
  /\ BoundsInv
  /\ MasterOpen
  /\ (~ MainEnded /\ ~ Stale) => LogInv
  /\ PassedLogInv

-----------------------------------------------------------------------------
(* What a thread stores goes to the file of its image and its port.        *)
LEMMA StoredFile ==
  ASSUME TypeOK, NEW t \in threads, NEW i \in 1..NImgs, NEW p \in Ports
  PROVE  Stored(t)[<< i, p >>] = IF i = t.img /\ p = t.port
                                   THEN [by |-> t.launch, texts |-> t.texts]
                                   ELSE files[<< i, p >>]
<1>1. files \in [(1..NImgs) \X Ports -> [by : Nat, texts : SUBSET Nat]]
  BY DEF TypeOK
<1>2. << i, p >> \in (1..NImgs) \X Ports  OBVIOUS
<1>3. << i, p >> = << t.img, t.port >> <=> i = t.img /\ p = t.port  OBVIOUS
<1>4. QED  BY <1>1, <1>2, <1>3 DEF Stored

LEMMA BenchIsPort == Bench \in LogPorts /\ Bench \in Ports /\ Master \in Ports
BY ConstantsAssumption DEF ConstantsAssumption, Ports

(* Threads and END lines stay within the launches that have taken place.   *)
LEMMA BoundsStep ==
  ASSUME TypeOK, BoundsInv, [Next]_vars
  PROVE  BoundsInv'
<1> USE DEF BoundsInv, mainVars, loggerVars, history
<1>0. launch \in Nat /\ ended \subseteq Nat /\ \A t \in threads : t \in ThreadRecs
  BY DEF TypeOK
<1>1. CASE Main
  <2>1. CASE Launch  BY <1>0, <2>1 DEF Launch, ThreadRecs
  <2>2. CASE SpawnLogger  BY <1>0, <2>2 DEF SpawnLogger
  <2>3. CASE ClearEvent \/ JoinAll \/ JoinTimeout \/ ReturnStatus \/ ResetStatus
    BY <2>3 DEF ClearEvent, JoinAll, JoinTimeout, ReturnStatus, ResetStatus
  <2>4. CASE RecordPass \/ RecordFail \/ ResetRaises
    BY <2>4 DEF RecordPass, RecordFail, LastTry, ResetRaises
  <2>5. CASE \E p \in LogPorts : OpenPort(p) \/ OpenFails(p)
    BY <2>5 DEF OpenPort, OpenFails
  <2>6. QED  BY <1>1, <2>1, <2>2, <2>3, <2>4, <2>5 DEF Main
<1>2. ASSUME NEW t \in threads, Thread(t)  PROVE BoundsInv'
  <2>1. ASSUME NEW u, u.launch = t.launch, Become(t, u), UNCHANGED << launch, ended >>
        PROVE  BoundsInv'
    BY <2>1 DEF Become
  <2>2. CASE CheckEvent(t)  BY <1>0, <2>1, <2>2 DEF CheckEvent, ThreadRecs
  <2>3. CASE ReadFails(t)  BY <1>0, <2>1, <2>3 DEF ReadFails, ThreadRecs
  <2>4. CASE ReadTimeout(t)  BY <1>0, <2>1, <2>4 DEF ReadTimeout, ThreadRecs
  <2>5. CASE ReadLine(t)
    <3> DEFINE u == Dispatch(t, Head(rx[t.port]))
    <3>1. t \in ThreadRecs /\ t.port \in Ports  BY <1>0 DEF ThreadRecs, Ports
    <3>2. rx[t.port] \in Seq(Lines) /\ rx[t.port] # << >>
      BY <2>5, <3>1 DEF ReadLine, TypeOK
    <3>3. Head(rx[t.port]) \in Lines  BY <3>2
    <3>4. u.launch = t.launch  BY <3>1, <3>3, DispatchKeeps
    <3>5. /\ Become(t, u) /\ UNCHANGED launch
          /\ ended' \in {ended, ended \union {t.launch}}
      BY <2>5 DEF ReadLine
    <3> HIDE DEF u
    <3>6. QED  BY <3>4, <3>5 DEF Become
  <2>6. CASE StoreLog(t)  BY <1>0, <2>1, <2>6 DEF StoreLog, ThreadRecs
  <2>7. CASE MarkCompleted(t)  BY <1>0, <2>1, <2>7 DEF MarkCompleted, ThreadRecs
  <2>8. CASE Finally(t)  BY <2>8 DEF Finally
  <2>9. QED
    BY <1>2, <2>2, <2>3, <2>4, <2>5, <2>6, <2>7, <2>8 DEF Thread
<1>3. CASE BootError \/ BenchStart \/ BenchText \/ BenchEnd
  BY <1>3 DEF BootError, BenchStart, BenchText, BenchEnd, BoardStep
<1>4. CASE Exit \/ UNCHANGED vars  BY <1>4 DEF Exit, vars
<1>5. QED  BY <1>1, <1>2, <1>3, <1>4 DEF Next

(* Nobody closes the master port.                                          *)
LEMMA MasterStep ==
  ASSUME TypeOK, MasterOpen, [Next]_vars
  PROVE  MasterOpen'
<1> USE BenchIsPort DEF MasterOpen, loggerVars
<1>1. CASE Main
  <2>1. CASE \E p \in LogPorts : OpenPort(p) \/ OpenFails(p)
    BY <2>1 DEF OpenPort, OpenFails, TypeOK
  <2>2. CASE RecordPass \/ RecordFail \/ ResetRaises
    BY <2>2 DEF RecordPass, RecordFail, LastTry, ResetRaises
  <2>3. CASE Launch \/ ClearEvent \/ SpawnLogger \/ JoinAll \/ JoinTimeout
           \/ ReturnStatus \/ ResetStatus
    BY <2>3 DEF Launch, ClearEvent, SpawnLogger, JoinAll, JoinTimeout, ReturnStatus,
       ResetStatus
  <2>4. QED  BY <1>1, <2>1, <2>2, <2>3 DEF Main
<1>2. ASSUME NEW t \in threads, Thread(t)  PROVE MasterOpen'
  BY <1>2 DEF Thread, CheckEvent, ReadFails, ReadTimeout, ReadLine, StoreLog,
     MarkCompleted, Finally, ClosesPort
<1>3. CASE BootError \/ BenchStart \/ BenchText \/ BenchEnd
  BY <1>3 DEF BootError, BenchStart, BenchText, BenchEnd, BoardStep
<1>4. CASE Exit \/ UNCHANGED vars  BY <1>4 DEF Exit, vars
<1>5. QED  BY <1>1, <1>2, <1>3, <1>4 DEF Next

-----------------------------------------------------------------------------
(* What a line does to the log of the thread that reads it.                *)
LEMMA DispatchLog ==
  ASSUME NEW t \in ThreadRecs, NEW line \in Lines
  PROVE  LET u == Dispatch(t, line) IN
         /\ u.img = t.img
         /\ u.texts \subseteq t.texts \union {line.launch}
         /\ line.kind = "START" => u.logging
         /\ line.kind = "TEXT" /\ t.logging => u.logging /\ line.launch \in u.texts
         /\ line.kind \in {"END", "ERR"} => ~ u.logging
         /\ line.kind = "END" => u.texts = t.texts
<1>0. line.kind \in Kinds  BY DEF Lines
<1>1. CASE line.kind = "START"
  <2>1. Dispatch(t, line) = [t EXCEPT !.pc = "check", !.logging = TRUE]
    BY <1>1 DEF Dispatch
  <2>2. QED  BY <2>1, <1>1 DEF ThreadRecs
<1>2. CASE line.kind = "END"
  <2>1. Dispatch(t, line) = [t EXCEPT !.pc = "store", !.logging = FALSE]
    BY <1>2 DEF Dispatch
  <2>2. QED  BY <2>1, <1>2 DEF ThreadRecs
<1>3. CASE line.kind = "ERR"
  <2>1. Dispatch(t, line) = [t EXCEPT !.pc = "check", !.logging = FALSE]
    BY <1>3 DEF Dispatch
  <2>2. QED  BY <2>1, <1>3 DEF ThreadRecs
<1>4. CASE line.kind = "TEXT"
  <2> DEFINE texts == IF t.logging THEN t.texts \union {line.launch} ELSE t.texts
  <2>1. Dispatch(t, line) = [t EXCEPT !.pc = "check", !.texts = texts]
    BY <1>4 DEF Dispatch
  <2>2. texts \subseteq t.texts \union {line.launch}
        /\ (t.logging => line.launch \in texts)
    OBVIOUS
  <2> HIDE DEF texts
  <2>3. QED  BY <2>1, <2>2, <1>4 DEF ThreadRecs
<1>5. QED  BY <1>0, <1>1, <1>2, <1>3, <1>4 DEF Kinds

(* A thread that moves on without touching its log.                        *)
LEMMA SameLog ==
  ASSUME LogInv, NEW t \in threads, NEW u,
         u.img = t.img, u.port = t.port, u.logging = t.logging, u.texts = t.texts,
         Become(t, u), u.pc # "store",
         u.pc = "mark" => t.port = Bench /\ Own(img, launch)',
         Own(img, launch) => Own(img, launch)',
         Settled' => Own(img, launch)' /\ \A v \in threads' : ~ Finishing(v),
         UNCHANGED << mainVars, ended, board, rx >>
  PROVE  LogInv'
<1>1. threads' = (threads \ {t}) \union {u}  BY DEF Become
<1>2. UNCHANGED << mpc, img, launch >>  BY DEF mainVars
<1>3. LoggingInv'
  <2>1. ASSUME NEW v \in threads'
        PROVE  /\ v.img = img
               /\ v.texts \subseteq {launch}
               /\ Finishing(v) => v.port = Bench
               /\ launch \in ended /\ v.port = Bench => ~ v.logging
               /\ v.pc = "store" => WholeText(v.texts, launch)
               /\ v.pc = "mark" => Own(img, launch)'
    <3>1. CASE v \in threads  BY <3>1 DEF LogInv, LoggingInv
    <3>2. CASE v = u
      <4>1. /\ u.img = img
            /\ u.texts \subseteq {launch}
            /\ launch \in ended /\ u.port = Bench => ~ u.logging
        BY DEF LogInv, LoggingInv
      <4>2. QED  BY <3>2, <4>1 DEF Finishing
    <3>3. QED  BY <1>1, <3>1, <3>2
  <2>2. QED  BY <2>1, <1>2 DEF LogInv, LoggingInv, Finishing, Quiet, Busy, WholeText, Own
<1>4. SettledInv'  BY <1>2 DEF SettledInv, Own, WholeText, Finishing
<1>5. MasterInv'
  <2>1. /\ Live <=> \E v \in threads' : v.port = Bench
        /\ Started <=> \E v \in threads' : v.port = Bench /\ v.logging
        /\ HasText <=> \E v \in threads' : v.port = Bench /\ v.logging /\ launch \in v.texts
    BY <1>1 DEF Live, Started, HasText
  <2>2. (Live <=> Live') /\ (Started <=> Started') /\ (HasText <=> HasText')
    BY <2>1, <1>2 DEF Live, Started, HasText
  <2>3. QED  BY <2>2, <1>2 DEF LogInv, MasterInv, LineInv, TailInv, Opening
<1>6. QED  BY <1>3, <1>4, <1>5 DEF LogInv

(* A line read: nothing of the launch has ended, the line is the next of   *)
(* the benchmark's, and its text goes to the one thread on that port.      *)
LEMMA ReadLog ==
  ASSUME TypeOK, CleanInv, LogInv, NEW t \in threads, ReadLine(t)
  PROVE  LogInv'
<1> DEFINE q == t.port
           line == Head(rx[q])
           u == Dispatch(t, line)
<1>0. /\ t \in ThreadRecs /\ q \in LogPorts /\ q \in Ports
      /\ t.launch = launch /\ t.img = img /\ t.texts \subseteq {launch}
  BY DEF TypeOK, ThreadRecs, Ports, CleanInv, ThreadsInv, LogInv, LoggingInv
<1>1. rx[q] \in Seq(Lines) /\ rx[q] # << >>  BY <1>0 DEF ReadLine, TypeOK
<1>2. line = rx[q][1] /\ 1 \in 1..Len(rx[q]) /\ line \in Lines  BY <1>1
<1>3. line.launch = launch  BY <1>0, <1>2 DEF CleanInv, StreamInv
<1>4. launch \notin ended  BY <1>0, <1>1 DEF LogInv, LoggingInv, Quiet
<1>5. /\ Become(t, u)
      /\ ended' = IF line.kind = "END" THEN ended \union {launch} ELSE ended
      /\ rx' = [rx EXCEPT ![q] = Tail(@)]
      /\ UNCHANGED << mainVars, completed, handle, files, board >>
  BY <1>0, <1>3 DEF ReadLine
<1>6. UNCHANGED << mpc, img, launch, result >>  BY <1>5 DEF mainVars
<1>7. /\ u.img = img /\ u.port = q
      /\ u.texts \subseteq {launch}
      /\ line.kind = "START" => u.logging
      /\ line.kind = "TEXT" /\ t.logging => u.logging /\ launch \in u.texts
      /\ line.kind \in {"END", "ERR"} => ~ u.logging
      /\ line.kind = "END" => u.texts = t.texts
      /\ u.pc = IF line.kind = "END" THEN "store" ELSE "check"
  BY <1>0, <1>2, <1>3, DispatchKeeps, DispatchLog
<1>8. /\ \A v \in threads : v.port = q => v = t
      /\ threads' = (threads \ {t}) \union {u}
  BY <1>5 DEF CleanInv, ThreadsInv, Become
<1>9. /\ rx'[q] = Tail(rx[q])
      /\ \A p \in LogPorts \ {q} : rx'[p] = rx[p]
  BY <1>0, <1>5 DEF TypeOK, Ports
<1>10. /\ Tail(rx[q]) \in Seq(Lines) /\ Len(Tail(rx[q])) = Len(rx[q]) - 1
       /\ \A i \in 1..Len(Tail(rx[q])) :
            Tail(rx[q])[i] = rx[q][i + 1] /\ i + 1 \in 1..Len(rx[q])
  BY <1>1
<1>11. line.kind \in {"START", "TEXT", "END"} => q = Bench
  BY <1>0, <1>2 DEF CleanInv, StreamInv, LogInv, LoggingInv
<1>12. line.kind = "END" /\ Bench = Master => launch \in t.texts
  <2> SUFFICES ASSUME line.kind = "END", Bench = Master  PROVE launch \in t.texts
    OBVIOUS
  <2>1. q = Bench /\ Live  BY <1>11 DEF Live
  <2>2. LineInv(rx[Bench], 1)  BY <1>2, <2>1 DEF LogInv, MasterInv
  <2>3. HasText  BY <1>2, <2>1, <2>2 DEF LineInv
  <2>4. QED  BY <1>8, <2>1, <2>3 DEF HasText
<1>13. line.kind = "END" => Quiet'
  <2> SUFFICES ASSUME line.kind = "END" PROVE Quiet'  OBVIOUS
  <2>1. Len(rx[q]) = 1 /\ board.phase = "fin"
        /\ \A p \in LogPorts \ {q} : rx[p] = << >>
    BY <1>0, <1>2 DEF CleanInv, StreamInv
  <2>2. Len(Tail(rx[q])) = 0  BY <1>10, <2>1
  <2>3. Tail(rx[q]) = << >>
    <3> HIDE DEF q
    <3>1. QED  BY <1>10, <2>2, EmptyByLength
  <2>4. QED  BY <1>5, <1>9, <2>1, <2>3 DEF Quiet, Busy
<1>14. ~ Settled'
  BY <1>4, <1>5, <1>6 DEF Settled, CleanInv, StatusInv
<1>15. \A p \in LogPorts : \A i \in 1..Len(rx'[p]) :
         \E j \in 1..Len(rx[p]) : rx'[p][i] = rx[p][j]
  <2> SUFFICES ASSUME NEW p \in LogPorts, NEW i \in 1..Len(rx'[p])
               PROVE  \E j \in 1..Len(rx[p]) : rx'[p][i] = rx[p][j]
    OBVIOUS
  <2>1. CASE p = q  BY <1>9, <1>10, <2>1
  <2>2. CASE p # q  BY <1>9, <2>2
  <2>3. QED  BY <2>1, <2>2
<1>16. LoggingInv'
  <2> HIDE DEF q, line, u
  <2>1. ASSUME NEW v \in threads'
        PROVE  /\ v.img = img
               /\ v.texts \subseteq {launch}
               /\ Finishing(v) => v.port = Bench
               /\ launch \in ended' /\ v.port = Bench => ~ v.logging
               /\ v.pc = "store" => WholeText(v.texts, launch)
               /\ v.pc = "mark" => Own(img, launch)
    <3>1. CASE v \in threads /\ v # t
      <4>1. /\ v.img = img
            /\ v.texts \subseteq {launch}
            /\ Finishing(v) => v.port = Bench
            /\ v.pc = "store" => WholeText(v.texts, launch)
            /\ v.pc = "mark" => Own(img, launch)
        BY <3>1 DEF LogInv, LoggingInv
      <4>2. launch \in ended' /\ v.port = Bench => FALSE
        BY <1>4, <1>5, <1>8, <1>11, <3>1
      <4>3. QED  BY <4>1, <4>2
    <3>2. CASE v = u
      <4>1. u.pc = "store" => WholeText(u.texts, launch)
        BY <1>0, <1>7, <1>12 DEF WholeText
      <4>2. QED  BY <1>4, <1>5, <1>7, <1>11, <3>2, <4>1 DEF Finishing
    <3>3. QED  BY <1>8, <3>1, <3>2
  <2>2. \A p \in LogPorts : \A i \in 1..Len(rx'[p]) : rx'[p][i].kind = "END" => p = Bench
    BY <1>15 DEF LogInv, LoggingInv
  <2>3. launch \in ended' => Quiet'  BY <1>4, <1>5, <1>13
  <2>4. Own(img, launch)' <=> Own(img, launch)  BY <1>5, <1>6 DEF Own, WholeText
  <2>5. QED  BY <2>1, <2>2, <2>3, <2>4, <1>6 DEF LoggingInv, Finishing, WholeText
<1>17. MasterInv'
  <2> SUFFICES ASSUME Bench = Master, (Opening \/ Live)'
               PROVE  /\ \A i \in 1..Len(rx'[Bench]) : LineInv(rx[Bench], i)'
                      /\ TailInv(rx[Bench])'
    BY DEF MasterInv
  <2> HIDE DEF q, line, u
  <2>1. Live' <=> Live  BY <1>7, <1>8 DEF Live, q
  <2>2. /\ \A i \in 1..Len(rx[Bench]) : LineInv(rx[Bench], i)
        /\ TailInv(rx[Bench])
    BY <1>6, <2>1 DEF LogInv, MasterInv, Opening
  <2>3. CASE q # Bench
    <3>1. (Started' <=> Started) /\ (HasText' <=> HasText) /\ rx'[Bench] = rx[Bench]
      BY <1>6, <1>7, <1>8, <1>9, <2>3, BenchIsPort DEF Started, HasText, q
    <3>2. ASSUME NEW i \in 1..Len(rx[Bench])  PROVE LineInv(rx[Bench], i)'
      BY <2>2, <3>1 DEF LineInv
    <3>3. TailInv(rx[Bench])'
      <4>1. board' = board  BY <1>5
      <4>2. QED  BY <2>2, <3>1, <4>1 DEF TailInv
    <3>4. QED  BY <3>1, <3>2, <3>3
  <2>4. CASE q = Bench
    <3> DEFINE s == rx[q]
               r == Tail(rx[q])
    <3>1. line.kind = "START" => Started'  BY <1>7, <1>8, <2>4 DEF Started
    <3>2. line.kind = "TEXT" => HasText'
      <4> SUFFICES ASSUME line.kind = "TEXT" PROVE HasText'  OBVIOUS
      <4>1. LineInv(rx[q], 1) /\ rx[q][1].kind = "TEXT"  BY <1>2, <2>2, <2>4
      <4>2. Started  BY <4>1 DEF LineInv
      <4>3. t.logging  BY <1>8, <2>4, <4>2 DEF Started
      <4>4. QED  BY <1>6, <1>7, <1>8, <2>4, <4>3 DEF HasText
    <3>3. rx'[Bench] = r /\ Len(s) \in Nat /\ Len(s) # 0
      BY <1>1, <1>9, <2>4
    <3>4. ASSUME NEW i \in 1..Len(r)  PROVE LineInv(rx[Bench], i)'
      <4>1. r[i] = s[i + 1] /\ i + 1 \in 1..Len(s) /\ i + 1 # 1 /\ (i + 1) - 1 = i
        BY <1>10
      <4>2. LineInv(s, i + 1)  BY <2>2, <2>4, <4>1
      <4>3. /\ r[i].kind # "START"
            /\ r[i].kind = "TEXT" => s[i].kind = "START"
            /\ r[i].kind = "END" => s[i].kind = "TEXT"
        BY <4>1, <4>2 DEF LineInv
      <4>4. IF i = 1 THEN s[i] = line ELSE r[i - 1] = s[i]
        <5>1. CASE i = 1  BY <1>2, <5>1
        <5>2. CASE i # 1
          <6>1. i - 1 \in 1..Len(r) /\ (i - 1) + 1 = i  BY <5>2, <1>10
          <6>2. QED  BY <6>1, <1>10, <5>2
        <5>3. QED  BY <5>1, <5>2
      <4>5. /\ r[i].kind = "TEXT" => IF i = 1 THEN Started' ELSE r[i - 1].kind = "START"
            /\ r[i].kind = "END" => IF i = 1 THEN HasText' ELSE r[i - 1].kind = "TEXT"
        BY <3>1, <3>2, <4>3, <4>4
      <4> HIDE DEF r
      <4>6. QED  BY <3>3, <4>3, <4>5 DEF LineInv
    <3>5. r = << >> => line = s[Len(s)]
      <4> SUFFICES ASSUME r = << >> PROVE line = s[Len(s)]  OBVIOUS
      <4>1. Len(r) = 0
        <5> HIDE DEF r
        <5>1. QED  OBVIOUS
      <4>2. Len(s) = 1  BY <1>10, <3>3, <4>1
      <4>3. QED  BY <1>2, <4>2
    <3>6. r # << >> => r[Len(r)] = s[Len(s)]
      <4> SUFFICES ASSUME r # << >> PROVE r[Len(r)] = s[Len(s)]  OBVIOUS
      <4>1. Len(r) \in 1..Len(r)
        <5>1. Len(r) \in Nat  BY <1>10
        <5>2. Len(r) # 0  BY <1>10, EmptyByLength
        <5>3. QED  BY <5>1, <5>2
      <4>2. Len(r) + 1 = Len(s)  BY <1>10, <3>3
      <4>3. QED  BY <1>10, <4>1, <4>2
    <3>7. TailInv(rx[Bench])'
      <4>1. TailInv(s) /\ s # << >>  BY <1>1, <2>2, <2>4
      <4> HIDE DEF r, s
      <4>2. QED  BY <1>5, <3>1, <3>2, <3>3, <3>5, <3>6, <4>1 DEF TailInv
    <3>8. QED  BY <3>3, <3>4, <3>7
  <2>5. QED  BY <2>3, <2>4
<1>18. SettledInv'  BY <1>14 DEF SettledInv
<1>19. QED  BY <1>16, <1>17, <1>18 DEF LogInv

(* A thread that ends: it stores a log cut short, which is not the log of  *)
(* a launch that has ended.                                                *)
LEMMA FinallyLog ==
  ASSUME TypeOK, TimedOutInv, CleanInv, LogInv, NEW t \in threads, Finally(t)
  PROVE  LogInv'
<1>0. t \in ThreadRecs /\ t.port \in LogPorts /\ t.port \in Ports /\ img \in 1..NImgs
  <2>1. t \in ThreadRecs  BY DEF TypeOK
  <2>2. t.img \in 1..NImgs /\ t.port \in LogPorts  BY <2>1 DEF ThreadRecs
  <2>3. t.img = img  BY DEF LogInv, LoggingInv
  <2>4. QED  BY <2>1, <2>2, <2>3 DEF Ports
<1>1. /\ threads' = threads \ {t}
      /\ files' = IF t.logging THEN Stored(t) ELSE files
      /\ UNCHANGED << mpc, img, launch, result, completed, board, ended, timedOut >>
  BY DEF Finally, mainVars, history
<1>2. \A p \in LogPorts : rx'[p] \in {rx[p], << >>}
  BY DEF Finally, ClosesPort, TypeOK, Ports
<1>3. launch \in ended => (Own(img, launch) => Own(img, launch)')
  <2> SUFFICES ASSUME launch \in ended, t.logging
               PROVE  files'[<< img, Bench >>] = files[<< img, Bench >>]
    BY <1>1 DEF Own, WholeText
  <2>1. t.port # Bench  BY DEF LogInv, LoggingInv
  <2>2. img \in 1..NImgs /\ Bench \in Ports  BY <1>0, BenchIsPort
  <2>3. Stored(t)[<< img, Bench >>] = IF img = t.img /\ Bench = t.port
                                        THEN [by |-> t.launch, texts |-> t.texts]
                                        ELSE files[<< img, Bench >>]
    BY ONLY <2>2, StoredFile, TypeOK, t \in threads
  <2>4. files' = Stored(t)  BY <1>1
  <2>5. QED  BY ONLY <2>1, <2>3, <2>4
<1>4. LoggingInv'
  <2>1. ASSUME NEW v \in threads'
        PROVE  /\ v.img = img
               /\ v.texts \subseteq {launch}
               /\ Finishing(v) => v.port = Bench
               /\ launch \in ended /\ v.port = Bench => ~ v.logging
               /\ v.pc = "store" => WholeText(v.texts, launch)
               /\ v.pc = "mark" => Own(img, launch)'
    <3>1. v \in threads  BY <1>1
    <3>2. v.pc = "mark" => launch \in ended  BY <3>1 DEF CleanInv, ThreadsInv
    <3>3. QED  BY <1>3, <3>1, <3>2 DEF LogInv, LoggingInv
  <2>2. \A p \in LogPorts : \A i \in 1..Len(rx'[p]) : rx'[p][i].kind = "END" => p = Bench
    <3> SUFFICES ASSUME NEW p \in LogPorts, NEW i \in 1..Len(rx'[p])
                 PROVE  rx'[p][i].kind = "END" => p = Bench
      OBVIOUS
    <3>1. rx'[p] # << >>  OBVIOUS
    <3>2. rx'[p] = rx[p]  BY <1>2, <3>1
    <3>3. QED  BY <3>2 DEF LogInv, LoggingInv
  <2>3. launch \in ended => Quiet'  BY <1>1, <1>2 DEF LogInv, LoggingInv, Quiet, Busy
  <2>4. QED  BY <1>1, <2>1, <2>2, <2>3 DEF LoggingInv, Finishing, WholeText
<1>5. SettledInv'
  <2>1. Settled' => Settled /\ launch \in ended
    BY <1>1 DEF Settled, CleanInv, StatusInv
  <2>2. QED  BY <1>1, <1>3, <2>1 DEF SettledInv, LogInv, Finishing
<1>6. MasterInv'
  <2> SUFFICES ASSUME Bench = Master, (Opening \/ Live)'
               PROVE  /\ \A i \in 1..Len(rx'[Bench]) : LineInv(rx[Bench], i)'
                      /\ TailInv(rx[Bench])'
    BY DEF MasterInv
  <2>1. rx'[Bench] = rx[Bench]  BY BenchIsPort DEF Finally, ClosesPort
  <2>2. Opening \/ Live  BY <1>1 DEF Opening, Live
  <2>3. CASE t.port # Bench
    <3>1. (Started' <=> Started) /\ (HasText' <=> HasText)
      BY <1>1, <2>3 DEF Started, HasText
    <3>2. QED  BY <1>1, <2>1, <2>2, <3>1 DEF LogInv, MasterInv, LineInv, TailInv
  <2>4. CASE t.port = Bench
    <3>1. Opening  BY <1>1, <2>4 DEF Live, Opening, CleanInv, ThreadsInv
    <3>2. launch \notin timedOut  BY <3>1 DEF TimedOutInv, TypeOK
    <3>3. event /\ mpc \notin {"launch", "clear"}
      BY DEF Finally, CleanInv, ThreadsInv
    <3>4. Quiet  BY <3>2, <3>3 DEF CleanInv, StreamInv
    <3>5. rx'[Bench] = << >> /\ ~ Busy'
      BY <1>1, <2>1, <3>4, BenchIsPort DEF Quiet, Busy
    <3>6. QED  BY <3>5 DEF TailInv, Busy
  <2>5. QED  BY <2>3, <2>4
<1>7. QED  BY <1>4, <1>5, <1>6 DEF LogInv

(* A logger thread keeps the log of the launch under way.                  *)
LEMMA ThreadLog ==
  ASSUME TypeOK, TimedOutInv, CleanInv, LogInv, NEW t \in threads, Thread(t)
  PROVE  LogInv'
<1>0. /\ t \in ThreadRecs /\ t.port \in Ports /\ img \in 1..NImgs
      /\ t.img = img /\ t.launch = launch /\ t.handle = handle[t.port]
  <2>1. t \in ThreadRecs  BY DEF TypeOK
  <2>2. t.img \in 1..NImgs /\ t.port \in LogPorts  BY <2>1 DEF ThreadRecs
  <2>3. t.img = img /\ t.launch = launch /\ t.handle = handle[t.port]
    BY DEF LogInv, LoggingInv, CleanInv, ThreadsInv
  <2>4. QED  BY <2>1, <2>2, <2>3 DEF Ports
<1> DEFINE At(pc) == [t EXCEPT !.pc = pc]
<1>1. ASSUME NEW pc
      PROVE  /\ At(pc).img = t.img /\ At(pc).port = t.port /\ At(pc).pc = pc
             /\ At(pc).logging = t.logging /\ At(pc).texts = t.texts
  BY <1>0 DEF ThreadRecs
<1>2. ASSUME NEW pc \in {"check", "read", "finally"}, Become(t, At(pc)),
             UNCHANGED << mainVars, completed, files, board, rx, ended >>
      PROVE  LogInv'
  <2> DEFINE u == At(pc)
  <2>1. u.pc = pc /\ ~ Finishing(u)  BY <1>1 DEF Finishing
  <2>2. threads' = (threads \ {t}) \union {u}  BY <1>2 DEF Become
  <2>3. Own(img, launch)' <=> Own(img, launch)
    BY <1>2 DEF Own, WholeText, mainVars
  <2>4. Settled' => Settled  BY <1>2 DEF Settled, mainVars
  <2> HIDE DEF u
  <2>5. Settled' => Own(img, launch)' /\ \A v \in threads' : ~ Finishing(v)
    BY <2>1, <2>2, <2>3, <2>4 DEF LogInv, SettledInv
  <2>6. u.img = t.img /\ u.port = t.port /\ u.logging = t.logging /\ u.texts = t.texts
    BY <1>1 DEF u
  <2>7. Become(t, u)  BY <1>2 DEF u
  <2>8. QED  BY <1>2, <2>1, <2>3, <2>5, <2>6, <2>7, SameLog
<1>3. CASE CheckEvent(t)
  <2>1. At("finally") = [t EXCEPT !.pc = "finally"] /\ At("read") = [t EXCEPT !.pc = "read"]
    OBVIOUS
  <2>2. Become(t, At("finally")) \/ Become(t, At("read"))
    BY <1>3, <2>1 DEF CheckEvent, EventSeen
  <2>3. UNCHANGED << mainVars, completed, files, board, rx, ended >>
    BY <1>3 DEF CheckEvent, boardVars, history
  <2> HIDE DEF At
  <2>4. QED  BY <1>2, <2>2, <2>3
<1>4. CASE ReadFails(t)  BY <1>0, <1>4 DEF ReadFails
<1>5. CASE ReadTimeout(t)
  <2>1. Become(t, At("check"))  BY <1>5 DEF ReadTimeout
  <2>2. UNCHANGED << mainVars, completed, files, board, rx, ended >>
    BY <1>5 DEF ReadTimeout, boardVars, history
  <2> HIDE DEF At
  <2>3. QED  BY <1>2, <2>1, <2>2
<1>6. CASE ReadLine(t)  BY <1>6, ReadLog
<1>7. CASE StoreLog(t)
  <2> DEFINE u == At("mark")
  <2>1. t.pc = "store" /\ t.port = Bench /\ WholeText(t.texts, launch)
    BY <1>7 DEF StoreLog, LogInv, LoggingInv, Finishing
  <2>2. /\ Become(t, u) /\ files' = Stored(t)
        /\ UNCHANGED << mainVars, completed, board, rx, ended >>
    BY <1>7 DEF StoreLog, boardVars, history
  <2>3. files'[<< img, Bench >>] = [by |-> launch, texts |-> t.texts]
    BY <1>0, <2>1, <2>2, StoredFile, BenchIsPort
  <2>4. Own(img, launch)'
    BY <2>1, <2>2, <2>3 DEF Own, WholeText, mainVars
  <2>5. ~ Settled  BY <2>1 DEF LogInv, SettledInv, Finishing
  <2>6. ~ Settled'  BY <2>2, <2>5 DEF Settled, mainVars
  <2>7. /\ u.img = t.img /\ u.port = t.port /\ u.pc = "mark"
        /\ u.logging = t.logging /\ u.texts = t.texts
    BY <1>1
  <2> HIDE DEF u
  <2>8. QED  BY <2>1, <2>2, <2>4, <2>6, <2>7, SameLog
<1>8. CASE MarkCompleted(t)
  <2> DEFINE u == At("check")
  <2>1. t.pc = "mark" /\ t.port = Bench /\ Own(img, launch)
    BY <1>8 DEF MarkCompleted, LogInv, LoggingInv, Finishing
  <2>2. Become(t, u) /\ UNCHANGED << mainVars, files, board, rx, ended >>
    BY <1>8 DEF MarkCompleted, boardVars, history
  <2>3. Own(img, launch)'  BY <2>1, <2>2 DEF Own, WholeText, mainVars
  <2>4. /\ u.img = t.img /\ u.port = t.port /\ u.pc = "check"
        /\ u.logging = t.logging /\ u.texts = t.texts
    BY <1>1
  <2> HIDE DEF u
  <2>5. ASSUME NEW v \in threads'  PROVE ~ Finishing(v)
    <3>1. v = u \/ (v \in threads /\ v # t)  BY <2>2 DEF Become
    <3>2. v \in threads /\ v # t => v.port # Bench
      BY <2>1 DEF CleanInv, ThreadsInv
    <3>3. v \in threads /\ v # t => ~ Finishing(v)  BY <3>2 DEF LogInv, LoggingInv
    <3>4. QED  BY <2>4, <3>1, <3>3 DEF Finishing
  <2>6. QED  BY <2>2, <2>3, <2>4, <2>5, SameLog
<1>9. CASE Finally(t)  BY <1>9, FinallyLog
<1>10. QED  BY <1>3, <1>4, <1>5, <1>6, <1>7, <1>8, <1>9 DEF Thread

(* The board prints the lines of the benchmark in order, and while it does *)
(* nothing has ended.                                                      *)
LEMMA BoardLog ==
  ASSUME TypeOK, MasterOpen, CleanInv, LogInv,
         BootError \/ BenchStart \/ BenchText \/ BenchEnd
  PROVE  LogInv'
<1>0. PICK from \in Phases, to \in Phases, q \in Ports, k \in Kinds :
        /\ BoardStep(from, to, q, k)
        /\ << from, to, q, k >> \in { << "boot", "dead", Master, "ERR" >>,
             << "boot", "run", Bench, "START" >>, << "run", "text", Bench, "TEXT" >>,
             << "text", "fin", Bench, "END" >> }
  BY DEF BootError, BenchStart, BenchText, BenchEnd, Phases, Kinds, Ports
<1> DEFINE e == [kind |-> k, launch |-> board.launch]
<1>1. /\ board.phase = from /\ board'.phase = to /\ Busy
      /\ UNCHANGED << mpc, img, launch, result, completed, threads, files, handle, ended >>
  BY <1>0 DEF BoardStep, TypeOK, Busy, mainVars, loggerVars, history
<1>2. launch \notin ended  BY <1>1 DEF LogInv, LoggingInv, Quiet
<1>3. /\ e \in Lines /\ e.kind = k
      /\ \A p \in Ports \ {q} : rx'[p] = rx[p]
      /\ rx'[q] = IF handle[q] = Closed THEN rx[q] ELSE Append(rx[q], e)
      /\ \A p \in Ports : rx[p] \in Seq(Lines)
  BY <1>0 DEF BoardStep, Prints, TypeOK, Lines
<1>4. ~ Settled'
  BY <1>1, <1>2 DEF Settled, CleanInv, StatusInv
<1> HIDE DEF e
<1>5. ASSUME NEW p \in Ports, rx'[p] = Append(rx[p], e)
      PROVE  /\ Len(rx'[p]) = Len(rx[p]) + 1 /\ Len(rx[p]) \in Nat
             /\ \A i \in 1..Len(rx'[p]) :
                  IF i \in 1..Len(rx[p]) THEN rx'[p][i] = rx[p][i]
                  ELSE i = Len(rx[p]) + 1 /\ rx'[p][i] = e
  BY <1>3, <1>5
<1>6. LoggingInv'
  <2>1. ASSUME NEW p \in LogPorts, NEW i \in 1..Len(rx'[p]), rx'[p][i].kind = "END"
        PROVE  p = Bench
    <3>1. p \in Ports  BY DEF Ports
    <3>2. CASE i \in 1..Len(rx[p]) /\ rx'[p][i] = rx[p][i]
      BY <2>1, <3>2 DEF LogInv, LoggingInv
    <3>3. CASE p = q /\ rx'[p][i] = e  BY <1>0, <1>3, <2>1, <3>3
    <3>4. QED  BY <1>3, <1>5, <3>1, <3>2, <3>3
  <2>2. Own(img, launch)' <=> Own(img, launch)  BY <1>1 DEF Own, WholeText
  <2>3. QED
    BY <1>1, <1>2, <2>1, <2>2 DEF LogInv, LoggingInv, Finishing, WholeText
<1>7. SettledInv'  BY <1>4 DEF SettledInv
<1>8. MasterInv'
  <2> SUFFICES ASSUME Bench = Master, (Opening \/ Live)'
               PROVE  /\ \A i \in 1..Len(rx'[Bench]) : LineInv(rx[Bench], i)'
                      /\ TailInv(rx[Bench])'
    BY DEF MasterInv
  <2>1. (Opening \/ Live) /\ (Started' <=> Started) /\ (HasText' <=> HasText)
    BY <1>1 DEF Opening, Live, Started, HasText
  <2>2. /\ \A i \in 1..Len(rx[Bench]) : LineInv(rx[Bench], i)
        /\ TailInv(rx[Bench])
    BY <2>1 DEF LogInv, MasterInv
  <2>3. q = Bench /\ rx'[Bench] = Append(rx[Bench], e) /\ Bench \in Ports
    BY <1>0, <1>3, BenchIsPort DEF MasterOpen
  <2> DEFINE s == rx[Bench]
             r == rx'[Bench]
  <2>4. /\ Len(r) = Len(s) + 1 /\ Len(s) \in Nat
        /\ \A i \in 1..Len(r) : IF i \in 1..Len(s) THEN r[i] = s[i]
                                ELSE i = Len(s) + 1 /\ r[i] = e
    BY <1>5, <2>3
  <2>5. s # << >> => Len(s) \in 1..Len(s)
    <3>1. s \in Seq(Lines)  BY <1>3, <2>3
    <3> HIDE DEF s
    <3>2. QED  BY <3>1
  <2>6. /\ k = "START" => s = << >>
        /\ k = "TEXT" => IF s = << >> THEN Started ELSE s[Len(s)].kind = "START"
        /\ k = "END" => IF s = << >> THEN HasText ELSE s[Len(s)].kind = "TEXT"
    BY <1>0, <1>1, <2>2 DEF TailInv
  <2>7. r # << >> /\ r[Len(r)] = e /\ (s = << >> <=> Len(s) = 0)
    <3>1. s \in Seq(Lines)  BY <1>3, <2>3
    <3>2. Len(r) \in 1..Len(r) /\ Len(r) \notin 1..Len(s)  BY <2>4
    <3>3. r[Len(r)] = e  BY <2>4, <3>2
    <3> HIDE DEF s, r
    <3>4. r # << >>  BY <2>4
    <3>5. QED  BY <3>1, <3>3, <3>4, EmptyByLength
  <2>8. TailInv(rx[Bench])'
    <3>1. /\ to = "run" => k = "START"
          /\ to = "text" => k = "TEXT"
          /\ to # "boot"
      BY <1>0
    <3>2. QED  BY <1>1, <1>3, <2>7, <3>1 DEF TailInv
  <2>9. ASSUME NEW i \in 1..Len(r)  PROVE LineInv(rx[Bench], i)'
    <3>1. CASE i \in 1..Len(s)
      <4>1. LineInv(s, i)  BY <2>2, <3>1
      <4>2. i # 1 => i - 1 \in 1..Len(s) /\ i - 1 \in 1..Len(r)  BY <2>4, <3>1
      <4>3. r[i] = s[i] /\ (i # 1 => r[i - 1] = s[i - 1])  BY <2>4, <3>1, <4>2
      <4>4. QED  BY <2>1, <4>1, <4>3 DEF LineInv
    <3>2. CASE i \notin 1..Len(s)
      <4>1. i = Len(s) + 1 /\ r[i] = e /\ i - 1 = Len(s)  BY <2>4, <3>2
      <4>2. i = 1 <=> s = << >>  BY <2>4, <2>7, <4>1
      <4>3. i # 1 => r[i - 1] = s[Len(s)]
        <5> SUFFICES ASSUME i # 1 PROVE r[i - 1] = s[Len(s)]  OBVIOUS
        <5>1. Len(s) \in 1..Len(s) /\ Len(s) \in 1..Len(r)
          BY <2>4, <2>5, <4>2
        <5>2. QED  BY <2>4, <4>1, <5>1
      <4>4. QED  BY <1>3, <2>1, <2>6, <4>1, <4>2, <4>3 DEF LineInv
    <3>3. QED  BY <3>1, <3>2
  <2>10. QED  BY <2>8, <2>9
<1>9. QED  BY <1>6, <1>7, <1>8 DEF LogInv

(* main() touches no file and no thread's log; a launch starts without the *)
(* threads and the status of the one before.                               *)
LEMMA MainLog ==
  ASSUME TypeOK, BoundsInv, MasterOpen, ~ MainEnded, ~ MainEnded', CleanInv, LogInv,
         ~ Stale, ~ Stale', Main
  PROVE  LogInv'
<1> USE DEF mainVars, loggerVars, boardVars, history, MainEnded
(* Between two launches, and before the first thread, little is claimed.   *)
<1>1. ASSUME threads' = {}, ~ Settled', UNCHANGED rx, launch' \in ended' => Quiet'
      PROVE  LoggingInv' /\ SettledInv'
  BY <1>1 DEF LogInv, LoggingInv, SettledInv
<1>2. CASE Launch
  <2>1. /\ threads = {} /\ Quiet /\ ~ completed /\ launch \in Nat
        /\ \A m \in ended : m <= launch /\ m \in Nat
    BY <1>2 DEF Launch, CleanInv, ThreadsInv, StreamInv, StatusInv, TypeOK, BoundsInv
  <2>2. /\ threads' = {} /\ UNCHANGED rx /\ ~ completed' /\ mpc' = "clear"
        /\ launch' = launch + 1 /\ ended' = ended
        /\ board' = [phase |-> "boot", launch |-> launch + 1] \/ UNCHANGED board
    BY <1>2, <2>1 DEF Launch, LaunchTest
  <2>3. launch' \notin ended'  BY <2>1, <2>2
  <2>4. LoggingInv' /\ SettledInv'  BY <1>1, <2>2, <2>3 DEF Settled
  <2>5. rx'[Bench] = << >> /\ board'.phase \notin {"run", "text"}
    BY <2>1, <2>2, BenchIsPort DEF Quiet, Busy
  <2>6. MasterInv'  BY <2>5 DEF MasterInv, TailInv
  <2>7. QED  BY <2>4, <2>6 DEF LogInv
<1>3. CASE RecordPass \/ RecordFail
  <2>1. /\ mpc = "verdict" /\ mpc' = "launch"
        /\ UNCHANGED << launch, completed, threads, rx, timedOut, ended >>
        /\ board'.phase \in {board.phase, "off"}
    BY <1>3 DEF RecordPass, RecordFail, LastTry, NextImage, HardwareReset, TypeOK
  <2>2. launch \notin timedOut  BY <2>1 DEF Stale
  <2>3. threads = {} /\ ~ completed
    BY <2>1, <2>2 DEF CleanInv, ThreadsInv, StatusInv, Deciding
  <2>4. launch \in ended => Quiet'  BY <2>1 DEF LogInv, LoggingInv, Quiet, Busy
  <2>5. LoggingInv' /\ SettledInv'  BY <1>1, <2>1, <2>3, <2>4 DEF Settled
  <2>6. MasterInv'  BY <2>1, <2>3 DEF MasterInv, Opening, Live
  <2>7. QED  BY <2>5, <2>6 DEF LogInv
<1>4. CASE SpawnLogger
  <2> DEFINE new == [launch |-> launch, port |-> cur, img |-> img, handle |-> handle[cur],
                     pc |-> "check", logging |-> FALSE, texts |-> {}]
  <2>1. /\ new.img = img /\ new.texts = {} /\ new.pc = "check" /\ ~ new.logging
    OBVIOUS
  <2>2. threads \subseteq threads' /\ threads' \subseteq threads \union {new}
    BY <1>4 DEF SpawnLogger
  <2>3. /\ mpc = "spawn" /\ mpc' \in {"wait", "open"}
        /\ UNCHANGED << launch, img, result, completed, files, board, rx, ended >>
    BY <1>4 DEF SpawnLogger
  <2> HIDE DEF new
  <2>4. Own(img, launch)' <=> Own(img, launch)  BY <2>3 DEF Own, WholeText
  <2>5. ASSUME NEW v \in threads'
        PROVE  /\ v.img = img
               /\ v.texts \subseteq {launch}
               /\ Finishing(v) => v.port = Bench
               /\ launch \in ended /\ v.port = Bench => ~ v.logging
               /\ v.pc = "store" => WholeText(v.texts, launch)
               /\ v.pc = "mark" => Own(img, launch)
    <3>1. CASE v \in threads  BY <3>1 DEF LogInv, LoggingInv
    <3>2. CASE v = new  BY <2>1, <3>2 DEF Finishing
    <3>3. QED  BY <2>2, <3>1, <3>2
  <2>6. LoggingInv'
    BY <2>3, <2>4, <2>5 DEF LogInv, LoggingInv, Finishing, WholeText, Quiet, Busy
  <2>7. SettledInv'
    <3>1. Settled' => Settled  BY <2>3 DEF Settled
    <3>2. QED  BY <2>1, <2>2, <2>4, <3>1 DEF LogInv, SettledInv, Finishing
  <2>8. MasterInv'
    <3>1. Opening /\ (Started => Started') /\ (HasText => HasText')
      BY <2>2, <2>3 DEF Opening, Started, HasText
    <3>2. QED  BY <2>3, <3>1 DEF LogInv, MasterInv, LineInv, TailInv
  <2>9. QED  BY <2>6, <2>7, <2>8 DEF LogInv
<1>5. ASSUME UNCHANGED << launch, img, threads, files, board, ended >>,
             \A p \in LogPorts : rx'[p] \in {rx[p], << >>},
             Bench = Master => rx'[Bench] = rx[Bench],
             Settled' => Settled, Opening' => Opening
      PROVE  LogInv'
  <2>1. Own(img, launch)' <=> Own(img, launch)  BY <1>5 DEF Own, WholeText
  <2>2. \A p \in LogPorts : \A i \in 1..Len(rx'[p]) : rx'[p][i].kind = "END" => p = Bench
    <3> SUFFICES ASSUME NEW p \in LogPorts, NEW i \in 1..Len(rx'[p])
                 PROVE  rx'[p][i].kind = "END" => p = Bench
      OBVIOUS
    <3>1. rx'[p] # << >>  OBVIOUS
    <3>2. rx'[p] = rx[p]  BY <1>5, <3>1
    <3>3. QED  BY <3>2 DEF LogInv, LoggingInv
  <2>3. Quiet => Quiet'  BY <1>5 DEF Quiet, Busy
  <2>4. LoggingInv'
    BY <1>5, <2>1, <2>2, <2>3 DEF LogInv, LoggingInv, Finishing, WholeText
  <2>5. SettledInv'  BY <1>5, <2>1 DEF LogInv, SettledInv, Finishing
  <2>6. MasterInv'
    <3>1. (Live' <=> Live) /\ (Started' <=> Started) /\ (HasText' <=> HasText)
      BY <1>5 DEF Live, Started, HasText
    <3>2. QED  BY <1>5, <3>1 DEF LogInv, MasterInv, LineInv, TailInv
  <2>7. QED  BY <2>4, <2>5, <2>6 DEF LogInv
<1>6. CASE ClearEvent \/ JoinAll \/ JoinTimeout \/ ReturnStatus \/ ResetStatus
  <2>1. /\ UNCHANGED << launch, img, threads, files, board, rx, ended >>
        /\ Opening' => Opening
    BY <1>6 DEF ClearEvent, JoinAll, JoinTimeout, ReturnStatus, ResetStatus, Opening
  <2>2. Settled' => Settled
    BY <1>6 DEF ClearEvent, JoinAll, JoinTimeout, ReturnStatus, ResetStatus, NewStatus,
       Settled
  <2>3. QED  BY <1>5, <2>1, <2>2
<1>7. ASSUME NEW p \in LogPorts, OpenPort(p)  PROVE LogInv'
  <2>1. /\ UNCHANGED << launch, img, threads, files, board, ended, completed, result >>
        /\ mpc = "open" /\ mpc' = "spawn"
    BY <1>7 DEF OpenPort
  <2>2. \A r \in LogPorts : rx'[r] \in {rx[r], << >>}
    BY <1>7 DEF OpenPort, TypeOK, Ports
  <2>3. Bench = Master => rx'[Bench] = rx[Bench]
    BY <1>7, BenchIsPort DEF OpenPort, TypeOK, Ports, MasterOpen
  <2>4. QED  BY <1>5, <2>1, <2>2, <2>3 DEF Settled, Opening
<1>8. QED
  BY <1>2, <1>3, <1>4, <1>6, <1>7 DEF Main, OpenFails, ResetRaises

-----------------------------------------------------------------------------
(* What main() records keeps its log: main() writes no file, and the next  *)
(* launch, which would give a late thread lines to read, waits for it.     *)
LEMMA MainPassedLog ==
  ASSUME IInv, (~ MainEnded /\ ~ Stale) => LogInv, PassedLogInv, Main
  PROVE  PassedLogInv'
<1> USE DEF mainVars, loggerVars, boardVars, history
<1>1. UNCHANGED files /\ timedOut \subseteq timedOut'
  BY DEF Main, Launch, ClearEvent, OpenPort, OpenFails, SpawnLogger, JoinAll, JoinTimeout,
     ReturnStatus, ResetStatus, RecordPass, RecordFail, LastTry, ResetRaises
<1>2. /\ img \in Nat /\ mpc \notin {"finished", "crashed"}
      /\ img' \in {img, img + 1}
      /\ threads' \subseteq threads \union
           {[launch |-> launch, port |-> cur, img |-> img, handle |-> handle[cur],
             pc |-> "check", logging |-> FALSE, texts |-> {}]}
      /\ mpc = "launch" => (HwControl => threads = {}) /\ threads' = threads
  BY DEF Main, Launch, ClearEvent, OpenPort, OpenFails, SpawnLogger, JoinAll, JoinTimeout,
     ReturnStatus, ResetStatus, RecordPass, RecordFail, LastTry, ResetRaises, NextImage,
     IInv, TypeOK, ConstantsAssumption
<1>3. ASSUME NEW r \in passed, Undisturbed(r)'
      PROVE  /\ Own(r[1], r[2])'
             /\ r[1] <= img'
             /\ r[1] # img'
             /\ \A t \in threads' : ~ (t.img = r[1] /\ t.port = Bench)
  <2>1. Undisturbed(r)  BY <1>1, <1>3 DEF Undisturbed, TimeoutBefore
  <2>2. /\ Own(r[1], r[2]) /\ r[1] <= img /\ r[1] # img
        /\ \A t \in threads : t.img = r[1] /\ t.port = Bench => Harmless(t)
    BY <1>2, <2>1 DEF PassedLogInv
  <2>3. r[1] \in Nat  BY DEF IInv, TypeOK
  <2>4. r[1] <= img' /\ r[1] # img'  BY <1>2, <2>2, <2>3
  <2>5. \A t \in threads : ~ (t.img = r[1] /\ t.port = Bench)
    BY <1>2, <2>2 DEF Harmless
  <2>6. ASSUME NEW t \in threads', t \notin threads  PROVE t.img # r[1]
    BY <1>2, <2>2, <2>6
  <2>7. Own(r[1], r[2])'  BY <1>1, <2>2 DEF Own, WholeText
  <2>8. QED  BY <2>2, <2>4, <2>5, <2>6, <2>7
<1>4. ASSUME NEW r \in passed', r \notin passed, Undisturbed(r)'
      PROVE  /\ Own(r[1], r[2])'
             /\ r[1] <= img'
             /\ r[1] = img' => mpc' = "crashed"
             /\ \A t \in threads' : t.img = r[1] /\ t.port = Bench => Harmless(t)'
  <2>1. /\ r = << img, launch >> /\ mpc = "verdict" /\ result
        /\ UNCHANGED << threads, rx, timedOut >>
        /\ board'.phase \in {board.phase, "off"}
        /\ mpc' \in {"launch", "finished", "crashed"}
        /\ img' = img => mpc' = "crashed"
    BY <1>2, <1>4 DEF Main, Launch, ClearEvent, OpenPort, OpenFails, SpawnLogger, JoinAll,
       JoinTimeout, ReturnStatus, ResetStatus, RecordPass, RecordFail, LastTry, ResetRaises,
       NextImage, HardwareReset, IInv, TypeOK
  <2>2. r[1] = img /\ r[2] = launch /\ launch \in Nat /\ timedOut \subseteq Nat
    BY <2>1 DEF IInv, TypeOK
  <2>3. ~ TimeoutBefore(launch) /\ (~ HwControl => launch \notin timedOut)
    BY <1>4, <2>1, <2>2 DEF Undisturbed, TimeoutBefore
  <2>4. ~ MainEnded /\ ~ Stale  BY <2>1, <2>3 DEF MainEnded, Stale, TimeoutBefore
  <2>5. CleanInv /\ LogInv  BY <2>4 DEF IInv
  <2>6. Own(img, launch) /\ \A t \in threads : ~ Finishing(t)
    BY <2>1, <2>5 DEF LogInv, SettledInv, Settled
  <2>7. launch \in ended  BY <2>1, <2>5 DEF CleanInv, StatusInv
  <2>8. /\ Quiet
        /\ \A t \in threads : t.port = Bench => ~ t.logging
    BY <2>5, <2>7 DEF LogInv, LoggingInv
  <2>9. ~ HwControl => threads = {}
    BY <2>1, <2>3, <2>5 DEF CleanInv, ThreadsInv, Deciding
  <2>10. rx'[Bench] = << >> /\ ~ Busy'  BY <2>1, <2>8, BenchIsPort DEF Quiet, Busy
  <2>11. HwControl \in BOOLEAN  BY ConstantsAssumption DEF ConstantsAssumption
  <2>12. \A t \in threads' : t.img = r[1] /\ t.port = Bench => Harmless(t)'
    BY <2>1, <2>6, <2>8, <2>9, <2>10, <2>11 DEF Harmless, Finishing
  <2>13. Own(r[1], r[2])'  BY <1>1, <2>2, <2>6 DEF Own, WholeText
  <2>14. QED  BY <1>2, <2>1, <2>2, <2>12, <2>13
<1>5. QED  BY <1>3, <1>4 DEF PassedLogInv

(* A thread that could write to a recorded log finds no line and ends.     *)
LEMMA ThreadPassedLog ==
  ASSUME TypeOK, PassedLogInv, NEW t \in threads, Thread(t)
  PROVE  PassedLogInv'
<1> USE DEF mainVars, boardVars, history
<1>0. /\ t \in ThreadRecs /\ t.port \in LogPorts /\ t.port \in Ports
      /\ \A p \in Ports : rx[p] \in Seq(Lines)
  BY DEF TypeOK, ThreadRecs, Ports
<1>1. UNCHANGED << mpc, img, launch, board, passed, timedOut >>
  BY DEF Thread, CheckEvent, ReadFails, ReadTimeout, ReadLine, StoreLog, MarkCompleted,
     Finally
<1>2. /\ files' = files \/ (files' = Stored(t) /\ (t.logging \/ Finishing(t)))
      /\ rx[Bench] = << >> => rx'[Bench] = << >>
  BY <1>0, BenchIsPort DEF Thread, CheckEvent, ReadFails, ReadTimeout, ReadLine, StoreLog,
     MarkCompleted, Finally, Finishing, TypeOK
<1>3. \A v \in threads' \ threads :
        /\ v.img = t.img /\ v.port = t.port
        /\ rx[t.port] = << >> /\ ~ t.logging /\ ~ Finishing(t) =>
             ~ v.logging /\ ~ Finishing(v)
  <2>1. ASSUME NEW pc, Become(t, [t EXCEPT !.pc = pc]),
               pc \in {"store", "mark"} => Finishing(t), NEW v \in threads' \ threads
        PROVE  /\ v.img = t.img /\ v.port = t.port
               /\ ~ t.logging /\ ~ Finishing(t) => ~ v.logging /\ ~ Finishing(v)
    <3>1. v = [t EXCEPT !.pc = pc]  BY <2>1 DEF Become
    <3>2. QED  BY <1>0, <2>1, <3>1 DEF ThreadRecs, Finishing
  <2>2. CASE CheckEvent(t)
    <3>1. CASE event  BY <2>1, <2>2, <3>1 DEF CheckEvent, EventSeen
    <3>2. CASE ~ event  BY <2>1, <2>2, <3>2 DEF CheckEvent, EventSeen
    <3>3. QED  BY <3>1, <3>2
  <2>3. CASE ReadFails(t)  BY <2>1, <2>3 DEF ReadFails
  <2>4. CASE ReadTimeout(t)  BY <2>1, <2>4 DEF ReadTimeout
  <2>5. CASE StoreLog(t)  BY <2>1, <2>5 DEF StoreLog, Finishing
  <2>6. CASE MarkCompleted(t)  BY <2>1, <2>6 DEF MarkCompleted
  <2>7. CASE ReadLine(t)
    <3> DEFINE u == Dispatch(t, Head(rx[t.port]))
    <3>1. rx[t.port] # << >> /\ Head(rx[t.port]) \in Lines  BY <1>0, <2>7 DEF ReadLine
    <3>2. u.img = t.img /\ u.port = t.port
      BY <1>0, <3>1, DispatchKeeps, DispatchLog
    <3>3. Become(t, u)  BY <2>7 DEF ReadLine
    <3> HIDE DEF u
    <3>4. QED  BY <3>1, <3>2, <3>3 DEF Become
  <2>8. CASE Finally(t)  BY <2>8 DEF Finally
  <2>9. QED  BY <2>2, <2>3, <2>4, <2>5, <2>6, <2>7, <2>8 DEF Thread
<1>4. ASSUME NEW r \in passed, Undisturbed(r)
      PROVE  /\ Own(r[1], r[2])'
             /\ \A v \in threads' : v.img = r[1] /\ v.port = Bench => Harmless(v)'
  <2>1. /\ Own(r[1], r[2])
        /\ \A v \in threads : v.img = r[1] /\ v.port = Bench => Harmless(v)
    BY <1>4 DEF PassedLogInv
  <2>2. r[1] \in 1..NImgs  BY DEF TypeOK
  <2>3. CASE t.img = r[1] /\ t.port = Bench
    <3>1. Harmless(t)  BY <2>1, <2>3
    <3>2. files' = files  BY <1>2, <3>1 DEF Harmless
    <3>3. ASSUME NEW v \in threads', v.img = r[1], v.port = Bench  PROVE Harmless(v)'
      <4>1. ~ v.logging /\ ~ Finishing(v)
        BY <1>3, <2>1, <2>3, <3>1, <3>3 DEF Harmless
      <4>2. QED  BY <1>1, <1>2, <3>1, <4>1 DEF Harmless, Busy, Finishing
    <3>4. QED  BY <2>1, <3>2, <3>3 DEF Own, WholeText
  <2>4. CASE ~ (t.img = r[1] /\ t.port = Bench)
    <3>1. files'[<< r[1], Bench >>] = files[<< r[1], Bench >>]
      <4> DEFINE i == r[1]
      <4>1. i \in 1..NImgs /\ ~ (i = t.img /\ Bench = t.port)  BY <2>2, <2>4
      <4> HIDE DEF i
      <4>2. Stored(t)[<< i, Bench >>] = IF i = t.img /\ Bench = t.port
                                          THEN [by |-> t.launch, texts |-> t.texts]
                                          ELSE files[<< i, Bench >>]
        BY ONLY <4>1, StoredFile, BenchIsPort, TypeOK, t \in threads
      <4>3. files'[<< i, Bench >>] = files[<< i, Bench >>]
        BY <1>2, <4>1, <4>2
      <4>4. QED  BY <4>3 DEF i
    <3>2. ASSUME NEW v \in threads', v.img = r[1], v.port = Bench  PROVE Harmless(v)'
      <4>1. v \in threads  BY <1>3, <2>4, <3>2
      <4>2. Harmless(v)  BY <2>1, <3>2, <4>1
      <4>3. QED  BY <1>1, <1>2, <4>2 DEF Harmless, Busy, Finishing
    <3>3. QED  BY <2>1, <3>1, <3>2 DEF Own, WholeText
  <2>5. QED  BY <2>3, <2>4
<1>5. QED
  BY <1>1, <1>4 DEF PassedLogInv, Undisturbed, TimeoutBefore

(* So it does whatever the board prints: it has been switched off.         *)
LEMMA PassedLogStep ==
  ASSUME JInv, [Next]_vars
  PROVE  PassedLogInv'
<1>1. CASE Main  BY <1>1, MainPassedLog DEF JInv
<1>2. ASSUME NEW t \in threads, Thread(t)  PROVE PassedLogInv'
  BY <1>2, ThreadPassedLog DEF JInv, IInv
<1>3. CASE BootError \/ BenchStart \/ BenchText \/ BenchEnd
  <2>1. /\ Busy
        /\ UNCHANGED << mpc, img, launch, threads, files, passed, timedOut >>
    BY <1>3 DEF BootError, BenchStart, BenchText, BenchEnd, BoardStep, Busy, mainVars,
       loggerVars, history
  <2>2. QED
    BY <2>1 DEF JInv, PassedLogInv, Undisturbed, TimeoutBefore, Own, WholeText, Harmless
<1>4. CASE Exit \/ UNCHANGED vars
  <2>1. UNCHANGED << mpc, img, launch, threads, files, passed, timedOut, rx, board >>
    BY <1>4 DEF Exit, vars, mainVars, loggerVars, boardVars, history
  <2>2. QED
    BY <2>1 DEF JInv, PassedLogInv, Undisturbed, TimeoutBefore, Own, WholeText, Harmless,
       Finishing, Busy
<1>5. QED  BY <1>1, <1>2, <1>3, <1>4 DEF Next

LEMMA InitLog == Init => JInv
<1> SUFFICES ASSUME Init PROVE JInv  OBVIOUS
<1>1. IInv  BY InitInv
<1>2. BoundsInv /\ PassedLogInv  BY DEF Init, BoundsInv, PassedLogInv
<1>3. MasterOpen  BY BenchIsPort DEF Init, MasterOpen, Closed
<1>4. SettledInv /\ MasterInv
  BY DEF Init, SettledInv, Settled, MasterInv, Opening, Live
<1>5. LoggingInv
  <2>1. \A p \in LogPorts : rx[p] = << >>  BY DEF Init, Ports
  <2>2. \A p \in LogPorts : 1..Len(rx[p]) = {}  BY <2>1
  <2>3. QED  BY <2>2 DEF Init, LoggingInv
<1>6. QED  BY <1>1, <1>2, <1>3, <1>4, <1>5 DEF JInv, LogInv

LEMMA NextLog == JInv /\ [Next]_vars => JInv'
<1> SUFFICES ASSUME JInv, [Next]_vars PROVE JInv'  OBVIOUS
<1>1. IInv' /\ BoundsInv' /\ MasterOpen' /\ PassedLogInv'
  BY NextInv, BoundsStep, MasterStep, PassedLogStep DEF JInv, IInv
<1>2. ASSUME ~ MainEnded', ~ Stale'  PROVE LogInv'
  <2>1. /\ TypeOK /\ TimedOutInv /\ BoundsInv /\ MasterOpen
        /\ ~ MainEnded /\ ~ Stale /\ CleanInv /\ LogInv
    BY <1>2, StaleKept DEF JInv, IInv
  <2>2. CASE Main  BY <1>2, <2>1, <2>2, MainLog
  <2>3. ASSUME NEW t \in threads, Thread(t)  PROVE LogInv'  BY <2>1, <2>3, ThreadLog
  <2>4. CASE BootError \/ BenchStart \/ BenchText \/ BenchEnd  BY <2>1, <2>4, BoardLog
  <2>5. CASE Exit \/ UNCHANGED vars
    <3>1. UNCHANGED vars  BY <2>5 DEF Exit
    <3>2. QED
      BY <2>1, <3>1 DEF vars, mainVars, loggerVars, boardVars, history, LogInv, LoggingInv,
         SettledInv, Settled, MasterInv, Opening, Live, Started, HasText, LineInv, TailInv,
         Own, WholeText, Finishing, Quiet, Busy
  <2>6. QED  BY <2>2, <2>3, <2>4, <2>5 DEF Next
<1>3. QED  BY <1>1, <1>2 DEF JInv

(* Whatever the images, retries and ports: an image recorded as completed  *)
(* keeps the log of the launch that completed it, with nothing of another  *)
(* launch in it and, on the master port, nothing missing, unless a wait    *)
(* has timed out.                                                          *)
THEOREM DoneLogKept == Spec => []DoneLogIsOwn
<1>1. JInv => DoneLogIsOwn
  BY DEF JInv, PassedLogInv, DoneLogIsOwn, Undisturbed, Own, WholeText
<1>2. QED  BY <1>1, InitLog, NextLog, PTL DEF Spec
=============================================================================
