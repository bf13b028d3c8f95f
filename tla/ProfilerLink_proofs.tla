------------------------- MODULE ProfilerLink_proofs -------------------------
(***************************************************************************)
(* Proofs about ProfilerLink: the shape of its state, the ring of store    *)
(* buffers for every number of buffers and of samples, and the file for    *)
(* every message size and every number of CPUs.                            *)
(***************************************************************************)
EXTENDS ProfilerLink, TLAPS, SequenceTheorems, WellFoundedInduction

(* TypeOK, by who writes it.                                               *)
ServerOK ==
  /\ spc \in {"listen", "ready", "ack", "data", "write", "talk", "exited", "crashed"}
  /\ retry \in 0..Retries
  /\ message \in Seq(Items)
  /\ file \in Seq(Seq(Items))
  /\ heard \in BOOLEAN
  /\ skipped \in BOOLEAN

ClientOK ==
  /\ cpc \in {"off", "map", "wait", "poll", "clear", "talk", "exited", "gone"}
  /\ step \in 1..3
  /\ attempt \in 1..Attempts
  /\ acked \in BOOLEAN

RingOK ==
  /\ ready \in SUBSET Ring
  /\ held \in [Ring -> Nat]
  /\ index \in Ring
  /\ fill \in Ring
  /\ sampled \in Nat
  /\ lost \in SUBSET Nat

ProgramsOK == client \in Clients /\ server \in Servers

(* The server writes rows of a message that is whole, one for each CPU.    *)
WriteInv ==
  /\ Len(message) <= Quads
  /\ spc \in {"listen", "ready"} => retry > 0
  /\ spc = "write" => Len(message) = Quads /\ Len(file) < NumCpus
  /\ spc \in {"listen", "ready", "ack", "data"} => file = << >>

TypeInv == TypeOK /\ WriteInv

(* The parts of TypeOK make it up.                                         *)
LEMMA Parts ==
  TypeOK <=> /\ ProgramsOK /\ ServerOK /\ ClientOK /\ RingOK
             /\ toServer \in Seq(Items) /\ toClient \in Seq(ServerCommands)
             /\ sent \in Seq(Nat)
BY DEF TypeOK, ProgramsOK, ServerOK, ClientOK, RingOK

(* The rows of all CPUs lie inside the message.                            *)
LEMMA RowsFit ==
  ASSUME ConstantsAssumption, NEW cpu \in 0..(NumCpus - 1)
  PROVE  /\ Chunk \in Nat
         /\ cpu * Chunk \in Nat
         /\ (cpu + 1) * Chunk \in Nat
         /\ (cpu + 1) * Chunk <= Quads
<1>1. Quads \in Nat /\ NumCpus \in Nat /\ NumCpus > 0
  BY DEF ConstantsAssumption
<1>2. Chunk \in Int /\ NumCpus * Chunk <= Quads /\ Chunk >= 0
  BY <1>1 DEF Chunk
<1> DEFINE C == Chunk
<1>3. C \in Nat
  BY <1>2
<1>4. cpu \in Nat /\ cpu + 1 <= NumCpus
  BY <1>1
<1>5. (cpu + 1) * C <= NumCpus * C
  <2> HIDE DEF C
  <2> QED BY <1>1, <1>3, <1>4
<1>6. cpu * C \in Nat /\ (cpu + 1) * C \in Nat
  <2> HIDE DEF C
  <2> QED BY <1>3, <1>4
<1>7. NumCpus * C \in Int
  <2> HIDE DEF C
  <2> QED BY <1>3, <1>1
<1> QED
  BY <1>1, <1>2, <1>3, <1>5, <1>6, <1>7

(* A packet and a command can be sent.                                     *)
LEMMA ItemsFacts ==
  ASSUME ConstantsAssumption
  PROVE  /\ \A k \in ClientCommands : << Command(k) >> \in Seq(Items)
         /\ \A n \in Nat : Packet(n) \in Seq(Items)
<1>1. ASSUME NEW k \in ClientCommands PROVE << Command(k) >> \in Seq(Items)
  <2>1. Command(k) \in Items
    BY DEF Command, Items
  <2> QED
    BY <2>1
<1>2. ASSUME NEW n \in Nat PROVE Packet(n) \in Seq(Items)
  <2>1. Quads \in Nat
    BY DEF ConstantsAssumption
  <2>2. ASSUME NEW j \in 1..Quads
        PROVE  [kind |-> "data", n |-> (n - 1) * Quads + j] \in Items
    <3>1. (n - 1) * Quads \in Int
      BY <2>1
    <3>2. (n - 1) * Quads + j \in Int
      BY <3>1
    <3> QED
      BY <3>2 DEF Items
  <2>3. Packet(n) \in [1..Quads -> Items]
    BY <2>2 DEF Packet
  <2> QED
    BY <2>1, <2>3
<1> QED
  BY <1>1, <1>2

(* Two sequences one after the other are as long as both.                  *)
LEMMA ConcatFacts ==
  ASSUME NEW S, NEW s \in Seq(S), NEW t \in Seq(S)
  PROVE  s \o t \in Seq(S) /\ Len(s \o t) = Len(s) + Len(t)
OBVIOUS

(* What has arrived and what is left are items, too.                       *)
LEMMA ArrivedFacts ==
  ASSUME toServer \in Seq(Items), NEW n \in 0..Len(toServer)
  PROVE  /\ Arrived(n) \in Seq(Items) /\ Len(Arrived(n)) = n
         /\ Left(n) \in Seq(Items)
BY DEF Arrived, Left

(* The next buffer is one of the ring.                                     *)
LEMMA AfterInRing ==
  ASSUME ConstantsAssumption, NEW b \in Ring
  PROVE  After(b) \in Ring
BY DEF ConstantsAssumption, Ring, After

(* The link begins with nothing under way.                                 *)
LEMMA InitTypeInv ==
  ASSUME ConstantsAssumption, Init
  PROVE  TypeInv
<1>1. ProgramsOK
  BY DEF Init, ProgramsOK
<1>2. ServerOK
  <2>1. Retries \in 0..Retries
    BY DEF ConstantsAssumption
  <2>2. << >> \in Seq(Items) /\ << >> \in Seq(Seq(Items))
    OBVIOUS
  <2> QED
    BY <2>1, <2>2 DEF Init, ServerOK
<1>3. ClientOK
  <2>1. 1 \in 1..3 /\ 1 \in 1..Attempts
    BY DEF ConstantsAssumption
  <2> QED
    BY <2>1 DEF Init, ClientOK
<1>4. RingOK
  <2>1. 0 \in Ring
    BY DEF ConstantsAssumption, Ring
  <2>2. held \in [Ring -> Nat]
    BY DEF Init
  <2> QED
    BY <2>1, <2>2 DEF Init, RingOK
<1>5. /\ toServer \in Seq(Items) /\ toClient \in Seq(ServerCommands)
      /\ sent \in Seq(Nat)
  BY DEF Init
<1>6. WriteInv
  BY DEF Init, WriteInv, ConstantsAssumption
<1> QED
  BY <1>1, <1>2, <1>3, <1>4, <1>5, <1>6, Parts DEF TypeInv

(* One end fails to open its socket.                                       *)
LEMMA FailsType ==
  ASSUME ConstantsAssumption, TypeInv, ListenFails \/ ConnectFails
  PROVE  TypeInv'
<1> USE Parts DEF TypeInv
<1>1. ProgramsOK'
  BY DEF ListenFails, ConnectFails, TypeInv, programs, ProgramsOK
<1>2. ServerOK'
  BY DEF ListenFails, ConnectFails, serverVars, ServerOK
<1>3. ClientOK'
  BY DEF ListenFails, ConnectFails, clientVars, ClientOK
<1>4. RingOK'
  BY DEF ListenFails, ConnectFails, ringVars, RingOK
<1>5. toServer' \in Seq(Items) /\ toClient' \in Seq(ServerCommands)
  BY DEF ListenFails, ConnectFails
<1>6. sent' \in Seq(Nat)
  BY DEF ListenFails, ConnectFails
<1>7. WriteInv'
  BY DEF ListenFails, ConnectFails, serverVars, WriteInv
<1>8. TypeOK'
  BY <1>1, <1>2, <1>3, <1>4, <1>5, <1>6 DEF TypeOK, ProgramsOK, ServerOK, ClientOK, RingOK
<1> QED
  BY <1>7, <1>8

(* Both ends are connected.                                                *)
LEMMA ConnectType ==
  ASSUME ConstantsAssumption, TypeInv, Connect
  PROVE  TypeInv'
<1> USE Parts DEF TypeInv
<1>1. ProgramsOK'
  BY DEF Connect, TypeInv, programs, ProgramsOK
<1>2. ServerOK'
  BY DEF Connect, ServerOK
<1>3. ClientOK'
  BY DEF Connect, ClientOK
<1>4. RingOK'
  BY DEF Connect, ringVars, RingOK
<1>5. toServer' \in Seq(Items) /\ toClient' \in Seq(ServerCommands)
  BY DEF Connect
<1>6. sent' \in Seq(Nat)
  BY DEF Connect
<1>7. WriteInv'
  BY DEF Connect, WriteInv, ConstantsAssumption, ServerOK
<1>8. TypeOK'
  BY <1>1, <1>2, <1>3, <1>4, <1>5, <1>6 DEF TypeOK, ProgramsOK, ServerOK, ClientOK, RingOK
<1> QED
  BY <1>7, <1>8

(* The server parses a command.                                            *)
LEMMA HandshakeType ==
  ASSUME ConstantsAssumption, TypeInv, Handshake
  PROVE  TypeInv'
<1> USE Parts DEF TypeInv
<1>1. ProgramsOK'
  BY DEF Handshake, TypeInv, programs, ProgramsOK
<1>2. ServerOK'
  <2>1. retry - 1 \in 0..Retries
    <3>1. spc = "ready" => retry > 0
      BY DEF WriteInv
    <3>2. retry \in 0..Retries /\ Retries \in Nat
      BY DEF ServerOK, ConstantsAssumption
    <3> QED
      BY <3>1, <3>2 DEF Handshake
  <2>2. spc' \in {"crashed", "ack", "exited", "ready"}
    BY DEF Handshake
  <2>3. retry' \in {retry, retry - 1} /\ heard' \in {heard, TRUE}
    BY DEF Handshake
  <2>4. skipped' \in BOOLEAN
    BY DEF Handshake, ServerOK
  <2>5. UNCHANGED << message, file >>
    BY DEF Handshake
  <2> QED
    BY <2>1, <2>2, <2>3, <2>4, <2>5 DEF ServerOK
<1>3. ClientOK'
  BY DEF Handshake, clientVars, ClientOK
<1>4. RingOK'
  BY DEF Handshake, ringVars, RingOK
<1>5. toServer' \in Seq(Items) /\ toClient' \in Seq(ServerCommands)
  <2>1. PICK n \in 0..Len(toServer) : toServer' = Left(n)
    BY DEF Handshake
  <2>2. toServer' \in Seq(Items)
    BY <2>1, ArrivedFacts
  <2>3. toClient' \in {toClient, Append(toClient, "run")} /\ "run" \in ServerCommands
    BY DEF Handshake, ServerCommands
  <2>4. toClient \in Seq(ServerCommands)
    OBVIOUS
  <2>5. Append(toClient, "run") \in Seq(ServerCommands)
    BY <2>3, <2>4
  <2> QED
    BY <2>2, <2>3, <2>4, <2>5
<1>6. sent' \in Seq(Nat)
  BY DEF Handshake
<1>7. WriteInv'
  <2>1. spc' \in {"crashed", "ack", "exited", "ready"} /\ spc = "ready"
    BY DEF Handshake
  <2>2. spc' = "ready" => retry' = retry - 1 /\ retry # 1
    BY DEF Handshake, LastTry
  <2>3. UNCHANGED << message, file >>
    BY DEF Handshake
  <2> QED
    BY <2>1, <2>2, <2>3 DEF WriteInv, ServerOK
<1>8. TypeOK'
  BY <1>1, <1>2, <1>3, <1>4, <1>5, <1>6 DEF TypeOK, ProgramsOK, ServerOK, ClientOK, RingOK
<1> QED
  BY <1>7, <1>8

(* The server goes on to the data.                                         *)
LEMMA AcknowledgedType ==
  ASSUME ConstantsAssumption, TypeInv, Acknowledged
  PROVE  TypeInv'
<1> USE Parts DEF TypeInv
<1>1. ProgramsOK'
  BY DEF Acknowledged, TypeInv, programs, ProgramsOK
<1>2. ServerOK'
  <2>1. spc' \in {"data", "exited"} /\ skipped' \in BOOLEAN
    BY DEF Acknowledged, Ignored, ServerOK
  <2>2. UNCHANGED << retry, message, file, heard >>
    BY DEF Acknowledged
  <2> QED
    BY <2>1, <2>2 DEF ServerOK
<1>3. ClientOK'
  BY DEF Acknowledged, clientVars, ClientOK
<1>4. RingOK'
  BY DEF Acknowledged, ringVars, RingOK
<1>5. toServer' \in Seq(Items) /\ toClient' \in Seq(ServerCommands)
  <2>1. PICK n \in 0..Len(toServer) : toServer' = Left(n)
    BY DEF Acknowledged
  <2>2. toServer' \in Seq(Items)
    BY <2>1, ArrivedFacts
  <2> QED
    BY <2>2 DEF Acknowledged
<1>6. sent' \in Seq(Nat)
  BY DEF Acknowledged
<1>7. WriteInv'
  BY DEF Acknowledged, Ignored, WriteInv
<1>8. TypeOK'
  BY <1>1, <1>2, <1>3, <1>4, <1>5, <1>6 DEF TypeOK, ProgramsOK, ServerOK, ClientOK, RingOK
<1> QED
  BY <1>7, <1>8

(* A part of the message arrives.                                          *)
LEMMA ReceiveType ==
  ASSUME ConstantsAssumption, TypeInv, Receive
  PROVE  TypeInv'
<1> USE Parts DEF TypeInv
<1>1. ProgramsOK'
  BY DEF Receive, TypeInv, programs, ProgramsOK
<1>2. ServerOK'
  <2>1. PICK n \in 1..(Quads - Len(message)) :
          n <= Len(toServer) /\ message' = Filled(Arrived(n))
    BY DEF Receive
  <2>2. n \in 0..Len(toServer)
    BY <2>1
  <2>3. message \in Seq(Items) /\ Arrived(n) \in Seq(Items)
    BY <2>2, ArrivedFacts DEF ServerOK
  <2>4. message \o Arrived(n) \in Seq(Items)
    BY <2>3
  <2>5. message' \in Seq(Items)
    BY <2>1, <2>4 DEF Filled
  <2> QED
    BY <2>5 DEF Receive, ServerOK
<1>3. ClientOK'
  BY DEF Receive, clientVars, ClientOK
<1>4. RingOK'
  BY DEF Receive, ringVars, RingOK
<1>5. toServer' \in Seq(Items) /\ toClient' \in Seq(ServerCommands)
  <2>1. PICK n \in 1..(Quads - Len(message)) :
          n <= Len(toServer) /\ toServer' = Left(n)
    BY DEF Receive
  <2>2. n \in 0..Len(toServer)
    BY <2>1
  <2> QED
    BY <2>1, <2>2, ArrivedFacts DEF Receive
<1>6. sent' \in Seq(Nat)
  BY DEF Receive
<1>7. WriteInv'
  <2>1. PICK n \in 1..(Quads - Len(message)) :
          n <= Len(toServer) /\ message' = Filled(Arrived(n))
    BY DEF Receive
  <2>2. n \in 0..Len(toServer)
    BY <2>1
  <2>3. Len(message') = Len(message) + n /\ Len(message) \in Nat
    <3>1. message \in Seq(Items) /\ Arrived(n) \in Seq(Items) /\ Len(Arrived(n)) = n
      BY <2>2, ArrivedFacts DEF ServerOK
    <3>2. Len(message \o Arrived(n)) = Len(message) + Len(Arrived(n))
      BY <3>1, ConcatFacts
    <3> QED
      BY <2>1, <3>1, <3>2 DEF Filled
  <2>4. Len(message') <= Quads
    BY <2>1, <2>3 DEF ConstantsAssumption
  <2>5. file = << >> /\ file' = << >> /\ 0 < NumCpus
    BY DEF Receive, WriteInv, ConstantsAssumption
  <2>6. spc' = IF Len(message') = Quads THEN "write" ELSE "data"
    BY DEF Receive
  <2> QED
    BY <2>4, <2>5, <2>6 DEF WriteInv
<1>8. TypeOK'
  BY <1>1, <1>2, <1>3, <1>4, <1>5, <1>6 DEF TypeOK, ProgramsOK, ServerOK, ClientOK, RingOK
<1> QED
  BY <1>7, <1>8

(* The server ends with the client.                                        *)
LEMMA ClientClosedType ==
  ASSUME ConstantsAssumption, TypeInv, ClientClosed
  PROVE  TypeInv'
<1> USE Parts DEF TypeInv
<1>1. ProgramsOK'
  BY DEF ClientClosed, TypeInv, programs, ProgramsOK
<1>2. ServerOK'
  BY DEF ClientClosed, AfterClose, ServerOK
<1>3. ClientOK'
  BY DEF ClientClosed, clientVars, ClientOK
<1>4. RingOK'
  BY DEF ClientClosed, ringVars, RingOK
<1>5. toServer' \in Seq(Items) /\ toClient' \in Seq(ServerCommands)
  BY DEF ClientClosed
<1>6. sent' \in Seq(Nat)
  BY DEF ClientClosed
<1>7. WriteInv'
  BY DEF ClientClosed, AfterClose, WriteInv
<1>8. TypeOK'
  BY <1>1, <1>2, <1>3, <1>4, <1>5, <1>6 DEF TypeOK, ProgramsOK, ServerOK, ClientOK, RingOK
<1> QED
  BY <1>7, <1>8

(* A row is written.                                                       *)
LEMMA WriteRowType ==
  ASSUME ConstantsAssumption, TypeInv, WriteRow
  PROVE  TypeInv'
<1> USE Parts DEF TypeInv
<1>1. ProgramsOK'
  BY DEF WriteRow, TypeInv, programs, ProgramsOK
<1>2. ServerOK'
  <2>1. Len(file) \in 0..(NumCpus - 1) /\ Len(message) = Quads
    BY DEF WriteRow, WriteInv, ServerOK, ConstantsAssumption
  <2> DEFINE cpu == Len(file)
  <2>2. /\ cpu * Chunk \in Nat /\ (cpu + 1) * Chunk \in Nat
        /\ (cpu + 1) * Chunk <= Quads
    BY <2>1, RowsFit
  <2>3. SubSeq(message, cpu * Chunk + 1, (cpu + 1) * Chunk) \in Seq(Items)
    <3> DEFINE a == cpu * Chunk
               b == (cpu + 1) * Chunk
    <3>1. a \in Nat /\ b \in Nat /\ b <= Len(message) /\ message \in Seq(Items)
      BY <2>1, <2>2 DEF ServerOK
    <3> HIDE DEF a, b
    <3>2. SubSeq(message, a + 1, b) \in Seq(Items)
      BY <3>1
    <3> QED
      BY <3>2 DEF a, b
  <2>4. file' \in Seq(Seq(Items))
    BY <2>3 DEF WriteRow, Row, ServerOK
  <2> QED
    BY <2>4 DEF WriteRow, ServerOK
<1>3. ClientOK'
  BY DEF WriteRow, clientVars, ClientOK
<1>4. RingOK'
  BY DEF WriteRow, ringVars, RingOK
<1>5. toServer' \in Seq(Items) /\ toClient' \in Seq(ServerCommands)
  BY DEF WriteRow
<1>6. sent' \in Seq(Nat)
  BY DEF WriteRow
<1>7. WriteInv'
  <2>1. Len(file') = Len(file) + 1 /\ Len(file) \in Nat
    BY DEF WriteRow, ServerOK
  <2>2. Len(file) < NumCpus /\ NumCpus \in Nat /\ Len(message) = Quads
    BY DEF WriteRow, WriteInv, ConstantsAssumption
  <2>3. spc' = IF Len(file') = NumCpus THEN "exited" ELSE "write"
    BY DEF WriteRow
  <2>4. message' = message
    BY DEF WriteRow
  <2> QED
    BY <2>1, <2>2, <2>3, <2>4 DEF WriteInv, ConstantsAssumption
<1>8. TypeOK'
  BY <1>1, <1>2, <1>3, <1>4, <1>5, <1>6 DEF TypeOK, ProgramsOK, ServerOK, ClientOK, RingOK
<1> QED
  BY <1>7, <1>8

(* The server is terminated.                                               *)
LEMMA TerminateType ==
  ASSUME ConstantsAssumption, TypeInv, Terminate
  PROVE  TypeInv'
<1> USE Parts DEF TypeInv
<1>1. ProgramsOK'
  BY DEF Terminate, TypeInv, programs, ProgramsOK
<1>2. ServerOK'
  BY DEF Terminate, ServerOK
<1>3. ClientOK'
  BY DEF Terminate, clientVars, ClientOK
<1>4. RingOK'
  BY DEF Terminate, ringVars, RingOK
<1>5. toServer' \in Seq(Items) /\ toClient' \in Seq(ServerCommands)
  BY DEF Terminate
<1>6. sent' \in Seq(Nat)
  BY DEF Terminate
<1>7. WriteInv'
  BY DEF Terminate, WriteInv
<1>8. TypeOK'
  BY <1>1, <1>2, <1>3, <1>4, <1>5, <1>6 DEF TypeOK, ProgramsOK, ServerOK, ClientOK, RingOK
<1> QED
  BY <1>7, <1>8

(* The client ends.                                                        *)
LEMMA MapFailsType ==
  ASSUME ConstantsAssumption, TypeInv, MapFails
  PROVE  TypeInv'
<1> USE Parts DEF TypeInv
<1>1. ProgramsOK'
  BY DEF MapFails, TypeInv, programs, ProgramsOK
<1>2. ServerOK'
  BY DEF MapFails, serverVars, ServerOK
<1>3. ClientOK'
  BY DEF MapFails, ClientOK
<1>4. RingOK'
  BY DEF MapFails, ringVars, RingOK
<1>5. toServer' \in Seq(Items) /\ toClient' \in Seq(ServerCommands)
  BY DEF MapFails
<1>6. sent' \in Seq(Nat)
  BY DEF MapFails
<1>7. WriteInv'
  BY DEF MapFails, serverVars, WriteInv
<1>8. TypeOK'
  BY <1>1, <1>2, <1>3, <1>4, <1>5, <1>6 DEF TypeOK, ProgramsOK, ServerOK, ClientOK, RingOK
<1> QED
  BY <1>7, <1>8

(* The client sends ready.                                                 *)
LEMMA SendReadyType ==
  ASSUME ConstantsAssumption, TypeInv, SendReady
  PROVE  TypeInv'
<1> USE Parts DEF TypeInv
<1>1. ProgramsOK'
  BY DEF SendReady, TypeInv, programs, ProgramsOK
<1>2. ServerOK'
  BY DEF SendReady, serverVars, ServerOK
<1>3. ClientOK'
  BY DEF SendReady, Send, ClientOK
<1>4. RingOK'
  BY DEF SendReady, ringVars, RingOK
<1>5. toServer' \in Seq(Items) /\ toClient' \in Seq(ServerCommands)
  <2>1. toServer' \in {toServer, toServer \o << Command("ready") >>}
    BY DEF SendReady, Send
  <2>2. toServer' \in Seq(Items)
    <3>1. "ready" \in ClientCommands
      BY DEF ClientCommands
    <3>2. toServer \in Seq(Items) /\ << Command("ready") >> \in Seq(Items)
      BY <3>1, ItemsFacts
    <3>3. toServer \o << Command("ready") >> \in Seq(Items)
      BY <3>2
    <3> QED
      BY <2>1, <3>2, <3>3
  <2> QED
    BY <2>2 DEF SendReady
<1>6. sent' \in Seq(Nat)
  BY DEF SendReady
<1>7. WriteInv'
  BY DEF SendReady, serverVars, WriteInv
<1>8. TypeOK'
  BY <1>1, <1>2, <1>3, <1>4, <1>5, <1>6 DEF TypeOK, ProgramsOK, ServerOK, ClientOK, RingOK
<1> QED
  BY <1>7, <1>8

(* The client has an answer.                                               *)
LEMMA AnswerType ==
  ASSUME ConstantsAssumption, TypeInv, Answer
  PROVE  TypeInv'
<1> USE Parts DEF TypeInv
<1>1. ProgramsOK'
  BY DEF Answer, TypeInv, programs, ProgramsOK
<1>2. ServerOK'
  BY DEF Answer, serverVars, ServerOK
<1>3. ClientOK'
  <2>1. cpc' \in {"poll", "wait", "exited"} /\ acked' \in {acked, TRUE}
    BY DEF Answer, Send
  <2>2. step' \in 1..3
    <3>1. step' \in {step, 3, step + 1} /\ (step = 3 => step' = 3)
      BY DEF Answer
    <3> QED
      BY <3>1 DEF ClientOK
  <2>3. attempt' \in 1..Attempts
    <3>1. attempt' \in {attempt, 1} /\ 1 \in 1..Attempts
      BY DEF Answer, ConstantsAssumption
    <3> QED
      BY <3>1 DEF ClientOK
  <2>4. acked' \in BOOLEAN
    BY <2>1 DEF ClientOK
  <2> QED
    BY <2>1, <2>2, <2>3, <2>4 DEF ClientOK
<1>4. RingOK'
  BY DEF Answer, ringVars, RingOK
<1>5. toServer' \in Seq(Items) /\ toClient' \in Seq(ServerCommands)
  <2>1. toServer' \in {toServer, toServer \o << Command("ack") >>}
    BY DEF Answer, Send
  <2>2. toServer' \in Seq(Items)
    <3>1. "ack" \in ClientCommands
      BY DEF ClientCommands
    <3>2. toServer \in Seq(Items) /\ << Command("ack") >> \in Seq(Items)
      BY <3>1, ItemsFacts
    <3>3. toServer \o << Command("ack") >> \in Seq(Items)
      BY <3>2
    <3> QED
      BY <2>1, <3>2, <3>3
  <2>3. PICK n \in 1..Len(toClient) : toClient' = SubSeq(toClient, n + 1, Len(toClient))
    BY DEF Answer
  <2>4. toClient' \in Seq(ServerCommands)
    BY <2>3
  <2> QED
    BY <2>2, <2>4
<1>6. sent' \in Seq(Nat)
  BY DEF Answer
<1>7. WriteInv'
  BY DEF Answer, serverVars, WriteInv
<1>8. TypeOK'
  BY <1>1, <1>2, <1>3, <1>4, <1>5, <1>6 DEF TypeOK, ProgramsOK, ServerOK, ClientOK, RingOK
<1> QED
  BY <1>7, <1>8

(* The client waits again, or gives up.                                    *)
LEMMA NoAnswerType ==
  ASSUME ConstantsAssumption, TypeInv, NoAnswer
  PROVE  TypeInv'
<1> USE Parts DEF TypeInv
<1>1. ProgramsOK'
  BY DEF NoAnswer, TypeInv, programs, ProgramsOK
<1>2. ServerOK'
  BY DEF NoAnswer, serverVars, ServerOK
<1>3. ClientOK'
  <2>1. attempt' \in 1..Attempts
    <3>1. attempt \in 1..Attempts /\ Attempts \in Nat
      BY DEF ClientOK, ConstantsAssumption
    <3> QED
      BY <3>1 DEF NoAnswer, NextAttempt
  <2>2. cpc' \in {cpc, "exited"}
    BY DEF NoAnswer
  <2> QED
    BY <2>1, <2>2 DEF NoAnswer, ClientOK
<1>4. RingOK'
  BY DEF NoAnswer, ringVars, RingOK
<1>5. toServer' \in Seq(Items) /\ toClient' \in Seq(ServerCommands)
  BY DEF NoAnswer
<1>6. sent' \in Seq(Nat)
  BY DEF NoAnswer
<1>7. WriteInv'
  BY DEF NoAnswer, serverVars, WriteInv
<1>8. TypeOK'
  BY <1>1, <1>2, <1>3, <1>4, <1>5, <1>6 DEF TypeOK, ProgramsOK, ServerOK, ClientOK, RingOK
<1> QED
  BY <1>7, <1>8

(* The client sends a buffer.                                              *)
LEMMA SendDataType ==
  ASSUME ConstantsAssumption, TypeInv, SendData
  PROVE  TypeInv'
<1> USE Parts DEF TypeInv
<1>1. ProgramsOK'
  BY DEF SendData, TypeInv, programs, ProgramsOK
<1>2. ServerOK'
  BY DEF SendData, serverVars, ServerOK
<1>3. ClientOK'
  BY DEF SendData, Send, ClientOK
<1>4. RingOK'
  BY AfterInRing DEF SendData, NextIndex, RingOK
<1>5. toServer' \in Seq(Items) /\ toClient' \in Seq(ServerCommands)
  <2>1. toServer' \in {toServer, toServer \o Packet(held[index])}
    BY DEF SendData, Send
  <2>2. held[index] \in Nat
    BY DEF RingOK
  <2>3. toServer' \in Seq(Items)
    <3>1. toServer \in Seq(Items) /\ Packet(held[index]) \in Seq(Items)
      BY <2>2, ItemsFacts
    <3>2. toServer \o Packet(held[index]) \in Seq(Items)
      BY <3>1
    <3> QED
      BY <2>1, <3>1, <3>2
  <2> QED
    BY <2>3 DEF SendData
<1>6. sent' \in Seq(Nat)
  <2>1. held[index] \in Nat
    BY DEF RingOK
  <2> QED
    BY <2>1 DEF SendData
<1>7. WriteInv'
  BY DEF SendData, serverVars, WriteInv
<1>8. TypeOK'
  BY <1>1, <1>2, <1>3, <1>4, <1>5, <1>6 DEF TypeOK, ProgramsOK, ServerOK, ClientOK, RingOK
<1> QED
  BY <1>7, <1>8

(* The client clears a tag.                                                *)
LEMMA ClearTagType ==
  ASSUME ConstantsAssumption, TypeInv, ClearTag
  PROVE  TypeInv'
<1> USE Parts DEF TypeInv
<1>1. ProgramsOK'
  BY DEF ClearTag, TypeInv, programs, ProgramsOK
<1>2. ServerOK'
  BY DEF ClearTag, serverVars, ServerOK
<1>3. ClientOK'
  BY DEF ClearTag, ClientOK
<1>4. RingOK'
  <2>1. {held[b] : b \in ready \intersect Cleared} \subseteq Nat
    BY DEF RingOK
  <2>2. lost' \in SUBSET Nat
    BY <2>1 DEF ClearTag, RingOK
  <2> QED
    BY <2>2 DEF ClearTag, RingOK
<1>5. toServer' \in Seq(Items) /\ toClient' \in Seq(ServerCommands)
  BY DEF ClearTag
<1>6. sent' \in Seq(Nat)
  BY DEF ClearTag
<1>7. WriteInv'
  BY DEF ClearTag, serverVars, WriteInv
<1>8. TypeOK'
  BY <1>1, <1>2, <1>3, <1>4, <1>5, <1>6 DEF TypeOK, ProgramsOK, ServerOK, ClientOK, RingOK
<1> QED
  BY <1>7, <1>8

(* The board is gone.                                                      *)
LEMMA BoardDiesType ==
  ASSUME ConstantsAssumption, TypeInv, BoardDies
  PROVE  TypeInv'
<1> USE Parts DEF TypeInv
<1>1. ProgramsOK'
  BY DEF BoardDies, TypeInv, programs, ProgramsOK
<1>2. ServerOK'
  BY DEF BoardDies, serverVars, ServerOK
<1>3. ClientOK'
  BY DEF BoardDies, ClientOK
<1>4. RingOK'
  BY DEF BoardDies, ringVars, RingOK
<1>5. toServer' \in Seq(Items) /\ toClient' \in Seq(ServerCommands)
  BY DEF BoardDies
<1>6. sent' \in Seq(Nat)
  BY DEF BoardDies
<1>7. WriteInv'
  BY DEF BoardDies, serverVars, WriteInv
<1>8. TypeOK'
  BY <1>1, <1>2, <1>3, <1>4, <1>5, <1>6 DEF TypeOK, ProgramsOK, ServerOK, ClientOK, RingOK
<1> QED
  BY <1>7, <1>8

(* The profiler fills a buffer.                                            *)
LEMMA FillType ==
  ASSUME ConstantsAssumption, TypeInv, Fill
  PROVE  TypeInv'
<1> USE Parts DEF TypeInv
<1>1. ProgramsOK'
  BY DEF Fill, TypeInv, programs, ProgramsOK
<1>2. ServerOK'
  BY DEF Fill, serverVars, ServerOK
<1>3. ClientOK'
  BY DEF Fill, clientVars, ClientOK
<1>4. RingOK'
  BY AfterInRing DEF Fill, RingOK
<1>5. toServer' \in Seq(Items) /\ toClient' \in Seq(ServerCommands)
  BY DEF Fill
<1>6. sent' \in Seq(Nat)
  BY DEF Fill
<1>7. WriteInv'
  BY DEF Fill, serverVars, WriteInv
<1>8. TypeOK'
  BY <1>1, <1>2, <1>3, <1>4, <1>5, <1>6 DEF TypeOK, ProgramsOK, ServerOK, ClientOK, RingOK
<1> QED
  BY <1>7, <1>8

(* Another client sends or closes.                                         *)
LEMMA OtherClientType ==
  ASSUME ConstantsAssumption, TypeInv, OtherClient
  PROVE  TypeInv'
<1> USE Parts DEF TypeInv
<1>1. ProgramsOK'
  BY DEF OtherClient, TypeInv, programs, ProgramsOK
<1>2. ServerOK'
  BY DEF OtherClient, serverVars, ServerOK
<1>3. ClientOK'
  <2>1. cpc' \in {cpc, "exited"} /\ acked' \in BOOLEAN
    BY DEF OtherClient, ClientOK
  <2> QED
    BY <2>1 DEF OtherClient, ClientOK
<1>4. RingOK'
  BY DEF OtherClient, ringVars, RingOK
<1>5. toServer' \in Seq(Items) /\ toClient' \in Seq(ServerCommands)
  <2>1. CASE \E k \in ClientCommands : toServer' = Append(toServer, Command(k))
    <3>1. PICK k \in ClientCommands : toServer' = Append(toServer, Command(k))
      BY <2>1
    <3>2. Command(k) \in Items
      BY DEF Command, Items
    <3>3. toServer' \in Seq(Items)
      BY <3>1, <3>2
    <3> QED
      BY <3>3 DEF OtherClient
  <2>2. CASE toServer' = toServer \o Packet(Len(sent) + 1)
    <3>1. Len(sent) + 1 \in Nat
      OBVIOUS
    <3>2. toServer \in Seq(Items) /\ Packet(Len(sent) + 1) \in Seq(Items)
      BY <3>1, ItemsFacts
    <3>3. toServer' \in Seq(Items)
      BY <2>2, <3>2, ConcatFacts
    <3> QED
      BY <3>3 DEF OtherClient
  <2>3. CASE toServer' = toServer
    BY <2>3 DEF OtherClient
  <2> QED
    BY <2>1, <2>2, <2>3 DEF OtherClient
<1>6. sent' \in Seq(Nat)
  <2>1. sent' = sent \/ sent' = Append(sent, Len(sent) + 1)
    BY DEF OtherClient
  <2>2. sent \in Seq(Nat) /\ Len(sent) + 1 \in Nat
    OBVIOUS
  <2>3. Append(sent, Len(sent) + 1) \in Seq(Nat)
    BY <2>2
  <2> QED
    BY <2>1, <2>2, <2>3
<1>7. WriteInv'
  BY DEF OtherClient, serverVars, WriteInv
<1>8. TypeOK'
  BY <1>1, <1>2, <1>3, <1>4, <1>5, <1>6 DEF TypeOK, ProgramsOK, ServerOK, ClientOK, RingOK
<1> QED
  BY <1>7, <1>8

(* Another server sends or reads.                                          *)
LEMMA OtherServerType ==
  ASSUME ConstantsAssumption, TypeInv, OtherServer
  PROVE  TypeInv'
<1> USE Parts DEF TypeInv
<1>1. ProgramsOK'
  BY DEF OtherServer, TypeInv, programs, ProgramsOK
<1>2. ServerOK'
  BY DEF OtherServer, serverVars, ServerOK
<1>3. ClientOK'
  BY DEF OtherServer, clientVars, ClientOK
<1>4. RingOK'
  BY DEF OtherServer, ringVars, RingOK
<1>5. toServer' \in Seq(Items) /\ toClient' \in Seq(ServerCommands)
  <2>1. toServer' \in Seq(Items)
    <3>1. toServer' \in {toServer, << >>}
      BY DEF OtherServer
    <3>2. toServer \in Seq(Items) /\ << >> \in Seq(Items)
      OBVIOUS
    <3> QED
      BY <3>1, <3>2
  <2>2. toClient' \in Seq(ServerCommands)
    <3>1. toClient \in Seq(ServerCommands)
      OBVIOUS
    <3>2. CASE \E k \in ServerCommands : toClient' = Append(toClient, k)
      <4>1. PICK k \in ServerCommands : toClient' = Append(toClient, k)
        BY <3>2
      <4> QED
        BY <3>1, <4>1
    <3>3. CASE toClient' = toClient
      BY <3>1, <3>3
    <3> QED
      BY <3>2, <3>3 DEF OtherServer
  <2> QED
    BY <2>1, <2>2
<1>6. sent' \in Seq(Nat)
  BY DEF OtherServer
<1>7. WriteInv'
  BY DEF OtherServer, serverVars, WriteInv
<1>8. TypeOK'
  BY <1>1, <1>2, <1>3, <1>4, <1>5, <1>6 DEF TypeOK, ProgramsOK, ServerOK, ClientOK, RingOK
<1> QED
  BY <1>7, <1>8

(* Every step keeps the shape of the state.                                *)
LEMMA NextTypeInv ==
  ASSUME ConstantsAssumption, TypeInv, [Next]_vars
  PROVE  TypeInv'
<1>1. CASE Connect
  BY <1>1, ConnectType
<1>2. CASE Handshake
  BY <1>2, HandshakeType
<1>3. CASE Acknowledged
  BY <1>3, AcknowledgedType
<1>4. CASE Receive
  BY <1>4, ReceiveType
<1>5. CASE ClientClosed
  BY <1>5, ClientClosedType
<1>6. CASE WriteRow
  BY <1>6, WriteRowType
<1>7. CASE Terminate
  BY <1>7, TerminateType
<1>8. CASE MapFails
  BY <1>8, MapFailsType
<1>9. CASE SendReady
  BY <1>9, SendReadyType
<1>10. CASE Answer
  BY <1>10, AnswerType
<1>11. CASE NoAnswer
  BY <1>11, NoAnswerType
<1>12. CASE SendData
  BY <1>12, SendDataType
<1>13. CASE ClearTag
  BY <1>13, ClearTagType
<1>14. CASE BoardDies
  BY <1>14, BoardDiesType
<1>15. CASE Fill
  BY <1>15, FillType
<1>16. CASE OtherClient
  BY <1>16, OtherClientType
<1>17. CASE OtherServer
  BY <1>17, OtherServerType
<1>18. CASE UNCHANGED vars
  BY <1>18 DEF TypeInv, TypeOK, WriteInv, vars, programs, serverVars, clientVars, ringVars
<1>19. CASE ListenFails \/ ConnectFails
  BY <1>19, FailsType
<1> QED
  BY <1>1, <1>2, <1>3, <1>4, <1>5, <1>6, <1>7, <1>8, <1>9, <1>10, <1>11, <1>12, <1>13, <1>14, <1>15, <1>16, <1>17, <1>18, <1>19
     DEF Next, ServerStep, ClientStep

(* The link keeps to its types: no attempt beyond the last, no row beyond  *)
(* the message.                                                            *)
THEOREM TypeCorrect == Spec => []TypeOK
<1>1. Init => TypeInv
  BY InitTypeInv, ConstantsAssumption
<1>2. TypeInv /\ [Next]_vars => TypeInv'
  BY NextTypeInv, ConstantsAssumption
<1>3. TypeInv => TypeOK
  BY DEF TypeInv
<1> QED
  BY <1>1, <1>2, <1>3, PTL DEF Spec

-----------------------------------------------------------------------------
(* The handshake of server.c.                                              *)

HeardInv == heard => spc \in {"ack", "data", "write", "exited"}

(* After ready has been heard the server has passed its only parser.       *)
THEOREM CrashesUnheard == Spec => []CrashesUnheardOnly
<1>1. Init => HeardInv
  BY DEF Init, HeardInv
<1>2. HeardInv /\ [Next]_vars => HeardInv'
  <2> SUFFICES ASSUME HeardInv, [Next]_vars PROVE HeardInv'
    OBVIOUS
  <2>1. CASE Connect \/ ListenFails \/ ConnectFails
    BY <2>1 DEF Connect, ListenFails, ConnectFails, serverVars, HeardInv
  <2>2. CASE Handshake
    BY <2>2 DEF Handshake, HeardInv
  <2>3. CASE Acknowledged
    BY <2>3 DEF Acknowledged, Ignored, HeardInv
  <2>4. CASE Receive
    BY <2>4 DEF Receive, HeardInv
  <2>5. CASE ClientClosed
    BY <2>5 DEF ClientClosed, AfterClose, HeardInv
  <2>6. CASE WriteRow
    BY <2>6 DEF WriteRow, HeardInv
  <2>7. CASE Terminate
    BY <2>7 DEF Terminate, HeardInv
  <2>8. CASE ClientStep
    BY <2>8 DEF ClientStep, MapFails, SendReady, Answer, NoAnswer, SendData,
                ClearTag, serverVars, HeardInv
  <2>9. CASE BoardDies \/ Fill \/ OtherClient \/ OtherServer
    BY <2>9 DEF BoardDies, Fill, OtherClient, OtherServer, serverVars, HeardInv
  <2>10. CASE UNCHANGED vars
    BY <2>10 DEF vars, serverVars, HeardInv
  <2> QED
    BY <2>1, <2>2, <2>3, <2>4, <2>5, <2>6, <2>7, <2>8, <2>9, <2>10
       DEF Next, ServerStep
<1>3. HeardInv => CrashesUnheardOnly
  BY DEF HeardInv, CrashesUnheardOnly
<1> QED
  BY <1>1, <1>2, <1>3, PTL DEF Spec

-----------------------------------------------------------------------------
(* The ring of store buffers.  Ahead says how many samples have been taken *)
(* that the client has not passed yet, Dist how far a buffer is ahead of   *)
(* the one it polls.                                                       *)

Ahead   == sampled - Len(sent)
Dist(b) == IF b >= index THEN b - index ELSE b - index + Buffers
Prev    == IF index = 0 THEN Buffers - 1 ELSE index - 1

(* Nothing happens to the ring before the handshake is over.               *)
Untouched ==
  /\ ready = {}
  /\ lost = {}
  /\ sent = << >>
  /\ index = 0
  /\ fill = 0
  /\ sampled = 0

(* The profiler writes as far ahead as there are samples; when it has gone *)
(* round, the client has something to send.                                *)
FillInv ==
  /\ Ahead \in 0..Buffers
  /\ Dist(fill) = Ahead \/ (Ahead = Buffers /\ fill = index)
  /\ Ahead = Buffers => cpc = "poll" /\ index \in ready

(* The tag of the buffer that was sent last is still set.                  *)
TagInv ==
  /\ cpc = "clear" => Len(sent) > 0
  /\ Len(sent) = 0 => lost = {}
  /\ Len(sent) > 0 /\ (cpc = "clear" \/ Buffers > 1) => Prev \in ready

(* What is polled next holds the sample that is due; when nothing is lost, *)
(* so do all the buffers ahead.                                            *)
HeldInv ==
  /\ \A b \in ready : held[b] <= sampled
  /\ cpc = "poll" /\ index \in ready => held[index] = Len(sent) + 1
  /\ lost = {} =>
       \A b \in Ring :
         Dist(b) < Ahead => b \in ready /\ held[b] = Len(sent) + 1 + Dist(b)

RingInv ==
  /\ SamplesInOrder
  /\ cpc \in {"off", "map", "wait"} => Untouched
  /\ cpc \in {"poll", "clear"} => FillInv /\ TagInv /\ HeldInv

(* What the steps of the ring need of the types.                           *)
RingTypes ==
  /\ Buffers \in Nat
  /\ Buffers > 0
  /\ ready \in SUBSET Ring
  /\ held \in [Ring -> Nat]
  /\ index \in Ring
  /\ fill \in Ring
  /\ sampled \in Nat
  /\ lost \in SUBSET Nat
  /\ sent \in Seq(Nat)

(* TypeOK says it.                                                         *)
LEMMA RingTyped ==
  ASSUME ConstantsAssumption, TypeInv
  PROVE  RingTypes
BY DEF ConstantsAssumption, TypeInv, TypeOK, RingTypes

(* The buffer ahead of the polled one by nothing is the polled one; the    *)
(* next buffer is ahead by one more, or it is the polled one again.        *)
LEMMA DistFacts ==
  ASSUME RingTypes, NEW b \in Ring
  PROVE  /\ Dist(b) \in 0..(Buffers - 1)
         /\ Dist(b) = 0 <=> b = index
         /\ Dist(b) < Buffers - 1 => Dist(After(b)) = Dist(b) + 1
         /\ Dist(b) = Buffers - 1 => After(b) = index
         /\ Dist(b) = Buffers - 1 <=> b = Prev
         /\ After(b) \in Ring
BY DEF RingTypes, Ring, Dist, After, Prev

(* Two buffers are not ahead by the same.                                  *)
LEMMA DistInjective ==
  ASSUME RingTypes, NEW b \in Ring, NEW c \in Ring, Dist(b) = Dist(c)
  PROVE  b = c
BY DEF RingTypes, Ring, Dist

(* A sample is added to what is sent in order.                             *)
LEMMA InOrderAppend ==
  ASSUME sent \in Seq(Nat), SamplesInOrder, sent' = Append(sent, Len(sent) + 1)
  PROVE  SamplesInOrder'
<1>1. Len(sent') = Len(sent) + 1 /\ Len(sent) \in Nat
  OBVIOUS
<1>2. ASSUME NEW i \in 1..Len(sent') PROVE sent'[i] = i
  <2>1. CASE i <= Len(sent)
    <3>1. sent'[i] = sent[i] /\ i \in 1..Len(sent)
      BY <1>1, <1>2, <2>1
    <3> QED
      BY <3>1 DEF SamplesInOrder
  <2>2. CASE i = Len(sent) + 1
    BY <1>1, <2>2
  <2> QED
    BY <1>1, <1>2, <2>1, <2>2
<1> QED
  BY <1>2 DEF SamplesInOrder

(* The handshake ends with an empty ring.                                  *)
LEMMA AnswerRing ==
  ASSUME RingTypes, RingInv, Answer
  PROVE  RingInv'
<1>1. Untouched /\ UNCHANGED << ringVars, sent >> /\ cpc' \in {"wait", "poll", "exited"}
  BY DEF Answer, Send, RingInv
<1>2. Untouched'
  BY <1>1 DEF Untouched, ringVars
<1>3. SamplesInOrder'
  BY <1>1 DEF RingInv, SamplesInOrder
<1>4. Ahead' = 0 /\ Dist(fill)' = 0 /\ Len(sent') = 0
  <2>1. sent' = << >> /\ index' = 0 /\ fill' = 0 /\ sampled' = 0
    BY <1>2 DEF Untouched
  <2>2. Len(sent') = 0
    BY <2>1
  <2>3. Ahead' = 0
    <3>1. sampled' = 0
      BY <2>1
    <3>2. Ahead' = sampled' - Len(sent')
      BY DEF Ahead
    <3> QED
      BY <2>2, <3>1, <3>2
  <2>4. Dist(fill)' = 0
    BY <2>1 DEF Dist
  <2> QED
    BY <2>2, <2>3, <2>4
<1>5. FillInv'
  BY <1>4 DEF FillInv, RingTypes
<1>6. cpc' # "clear"
  BY <1>1
<1>7. TagInv'
  BY <1>2, <1>4, <1>6 DEF TagInv, Untouched
<1>8. ASSUME NEW b \in Ring PROVE ~ (Dist(b)' < Ahead')
  <2>1. index' = 0 /\ b \in Nat
    BY <1>2 DEF Untouched, Ring
  <2> QED
    BY <1>4, <2>1 DEF Dist, RingTypes
<1>9. HeldInv'
  BY <1>2, <1>8 DEF HeldInv, Untouched
<1> QED
  BY <1>1, <1>2, <1>3, <1>5, <1>7, <1>9 DEF RingInv

(* The profiler fills a buffer: it is the one that is due, and if it goes  *)
(* round the client has not begun.                                         *)
LEMMA FillRing ==
  ASSUME RingTypes, RingInv, Fill
  PROVE  RingInv'
<1>1. cpc \in {"poll", "clear"} /\ cpc' = cpc /\ fill \notin ready
      /\ held' = [held EXCEPT ![fill] = sampled + 1]
      /\ ready' = ready \union {fill}
      /\ fill' = After(fill) /\ sampled' = sampled + 1
      /\ index' = index /\ lost' = lost /\ sent' = sent
  BY DEF Fill, clientVars
<1>2. SamplesInOrder /\ FillInv /\ TagInv /\ HeldInv
  BY <1>1 DEF RingInv
<1>3. /\ Len(sent) \in Nat /\ sampled \in Nat /\ Buffers \in Nat /\ Buffers > 0
      /\ fill \in Ring /\ index \in Ring /\ held \in [Ring -> Nat]
      /\ ready \subseteq Ring
  BY DEF RingTypes
<1>4. Ahead \in 0..(Buffers - 1) /\ Dist(fill) = Ahead /\ Ahead' = Ahead + 1
  <2>1. Ahead # Buffers
    <3> SUFFICES ASSUME Ahead = Buffers PROVE FALSE
      OBVIOUS
    <3>1. index \in ready
      BY <1>2 DEF FillInv
    <3>2. Dist(fill) # Buffers
      BY <1>3, DistFacts
    <3>3. fill = index
      BY <1>2, <3>2 DEF FillInv
    <3> QED
      BY <1>1, <3>1, <3>3
  <2>2. Ahead' = Ahead + 1
    BY <1>1, <1>3 DEF Ahead
  <2> QED
    BY <1>2, <1>3, <2>1, <2>2 DEF FillInv
<1>5. \A b \in Ring : Dist(b)' = Dist(b)
  BY <1>1 DEF Dist
<1>6. Ahead' = Buffers => cpc = "poll" /\ index \in ready'
  <2> SUFFICES ASSUME Ahead' = Buffers PROVE cpc = "poll" /\ index \in ready'
    OBVIOUS
  <2>1. fill = Prev
    BY <1>3, <1>4, DistFacts
  <2>2. Len(sent) = 0 \/ (cpc # "clear" /\ Buffers = 1)
    BY <1>1, <1>2, <1>3, <2>1 DEF TagInv
  <2>3. cpc = "poll"
    BY <1>1, <1>2, <2>2 DEF TagInv
  <2>4. CASE Buffers = 1
    <3>1. Dist(fill) = 0
      <4>1. Dist(fill) \in 0..(1 - 1)
        BY <1>3, <2>4, DistFacts
      <4> QED
        BY <4>1
    <3>2. fill = index
      BY <1>3, <3>1, DistFacts
    <3> QED
      BY <1>1, <2>3, <3>2
  <2>5. CASE Buffers # 1
    <3>1. lost = {}
      BY <1>2, <2>2, <2>5 DEF TagInv
    <3>2. Dist(index) = 0
      BY <1>3, DistFacts
    <3>3. Dist(index) < Ahead
      BY <1>3, <1>4, <2>5, <3>2
    <3>4. index \in ready
      BY <1>2, <1>3, <3>1, <3>3 DEF HeldInv
    <3> QED
      BY <1>1, <2>3, <3>4
  <2> QED
    BY <2>4, <2>5
<1>7. Dist(fill)' = Ahead' \/ (Ahead' = Buffers /\ fill' = index')
  <2>1. CASE Ahead < Buffers - 1
    <3>1. Dist(After(fill)) = Ahead + 1 /\ After(fill) \in Ring
      BY <1>3, <1>4, <2>1, DistFacts
    <3>2. Dist(fill)' = Dist(After(fill))
      BY <1>1 DEF Dist
    <3> QED
      BY <1>4, <3>1, <3>2
  <2>2. CASE Ahead = Buffers - 1
    <3>1. After(fill) = index
      BY <1>3, <1>4, <2>2, DistFacts
    <3> QED
      BY <1>1, <1>3, <1>4, <2>2, <3>1
  <2> QED
    BY <1>3, <1>4, <2>1, <2>2
<1>8. FillInv'
  <2>1. Ahead' \in 0..Buffers
    BY <1>3, <1>4
  <2> QED
    BY <1>1, <1>6, <1>7, <2>1 DEF FillInv
<1>9. TagInv'
  <2>1. Prev' = Prev
    BY <1>1 DEF Prev
  <2> QED
    BY <1>1, <1>2, <2>1 DEF TagInv
<1>10. \A b \in ready' : held'[b] <= sampled'
  <2> SUFFICES ASSUME NEW b \in ready' PROVE held'[b] <= sampled'
    OBVIOUS
  <2>1. CASE b = fill
    BY <1>1, <1>3, <2>1
  <2>2. CASE b # fill
    <3>1. b \in ready /\ b \in Ring
      BY <1>1, <1>3, <2>2
    <3>2. held'[b] = held[b] /\ held[b] \in Nat /\ held[b] <= sampled
      BY <1>1, <1>2, <1>3, <2>2, <3>1 DEF HeldInv
    <3> QED
      BY <1>1, <1>3, <3>2
  <2> QED
    BY <2>1, <2>2
<1>11. cpc' = "poll" /\ index' \in ready' => held'[index'] = Len(sent') + 1
  <2> SUFFICES ASSUME cpc' = "poll", index' \in ready'
               PROVE  held'[index'] = Len(sent') + 1
    OBVIOUS
  <2>1. CASE fill = index
    <3>1. Ahead = 0
      BY <1>3, <1>4, <2>1, DistFacts
    <3>2. sampled = Len(sent)
      BY <1>3, <3>1 DEF Ahead
    <3> QED
      BY <1>1, <1>3, <2>1, <3>2
  <2>2. CASE fill # index
    BY <1>1, <1>2, <1>3, <2>2 DEF HeldInv
  <2> QED
    BY <2>1, <2>2
<1>12. lost' = {} =>
         \A b \in Ring :
           Dist(b)' < Ahead' => b \in ready' /\ held'[b] = Len(sent') + 1 + Dist(b)'
  <2> SUFFICES ASSUME lost' = {}, NEW b \in Ring, Dist(b)' < Ahead'
               PROVE  b \in ready' /\ held'[b] = Len(sent') + 1 + Dist(b)'
    OBVIOUS
  <2>1. Dist(b) \in Nat /\ Dist(b)' = Dist(b) /\ Dist(b) <= Ahead
    <3>1. Dist(b) \in 0..(Buffers - 1) /\ Dist(b)' = Dist(b)
      BY <1>5, DistFacts
    <3> QED
      BY <1>3, <1>4, <3>1
  <2>2. CASE b = fill
    <3>1. held'[b] = sampled + 1 /\ sampled = Len(sent) + Ahead
      BY <1>1, <1>3, <2>2 DEF Ahead
    <3> QED
      BY <1>1, <1>3, <1>4, <2>1, <2>2, <3>1
  <2>3. CASE b # fill
    <3>1. Dist(b) # Ahead
      BY <1>3, <1>4, <2>3, DistInjective
    <3>2. Dist(b) < Ahead
      BY <1>3, <1>4, <2>1, <3>1
    <3>3. b \in ready /\ held[b] = Len(sent) + 1 + Dist(b)
      BY <1>1, <1>2, <3>2 DEF HeldInv
    <3> QED
      BY <1>1, <1>3, <2>1, <2>3, <3>3
  <2> QED
    BY <2>2, <2>3
<1>13. HeldInv'
  BY <1>10, <1>11, <1>12 DEF HeldInv
<1>14. SamplesInOrder'
  BY <1>1, <1>2 DEF SamplesInOrder
<1> QED
  BY <1>1, <1>8, <1>9, <1>13, <1>14 DEF RingInv

(* The client sends what it polls: it is the sample that is due.           *)
LEMMA SendDataRing ==
  ASSUME RingTypes, RingInv, SendData
  PROVE  RingInv'
<1>1. cpc = "poll" /\ index \in ready /\ cpc' \in {"clear", "exited"}
      /\ sent' = Append(sent, held[index]) /\ index' = After(index)
      /\ UNCHANGED << ready, held, fill, sampled, lost >>
  BY DEF SendData, Send, NextIndex
<1>2. SamplesInOrder /\ FillInv /\ TagInv /\ HeldInv
  BY <1>1 DEF RingInv
<1>3. /\ Len(sent) \in Nat /\ sampled \in Nat /\ Buffers \in Nat /\ Buffers > 0
      /\ fill \in Ring /\ index \in Ring /\ ready \subseteq Ring
      /\ sent \in Seq(Nat)
  BY DEF RingTypes
<1>4. held[index] = Len(sent) + 1 /\ Len(sent) + 1 <= sampled
  BY <1>1, <1>2 DEF HeldInv
<1>5. sent' = Append(sent, Len(sent) + 1)
  BY <1>1, <1>4
<1>6. Len(sent') = Len(sent) + 1
  BY <1>3, <1>5
<1>7. SamplesInOrder'
  BY <1>2, <1>3, <1>5, InOrderAppend
<1>8. Ahead' = Ahead - 1 /\ Ahead \in 1..Buffers
  <2>1. Ahead \in 0..Buffers
    BY <1>2 DEF FillInv
  <2>2. Ahead = sampled - Len(sent) /\ Ahead' = sampled - Len(sent')
    BY <1>1 DEF Ahead
  <2> QED
    BY <1>3, <1>4, <1>6, <2>1, <2>2
<1>9. ASSUME NEW b \in Ring
      PROVE  Dist(b)' = IF b = index THEN Buffers - 1 ELSE Dist(b) - 1
  <2>1. Dist(b)' = IF b >= After(index) THEN b - After(index)
                                        ELSE b - After(index) + Buffers
    BY <1>1 DEF Dist
  <2> QED
    BY <1>3, <2>1 DEF Dist, After, Ring
<1>10. FillInv'
  <2>1. Ahead' \in 0..(Buffers - 1)
    BY <1>3, <1>8
  <2>2. Dist(fill)' = Ahead'
    <3>1. Dist(fill)' = IF fill = index THEN Buffers - 1 ELSE Dist(fill) - 1
      <4>1. Dist(fill)' = IF fill >= After(index) THEN fill - After(index)
                                        ELSE fill - After(index) + Buffers
        BY <1>1 DEF Dist
      <4> QED
        BY <1>3, <4>1 DEF Dist, After, Ring
    <3>2. CASE fill = index
      <4>1. Dist(fill) = 0
        BY <1>3, <3>2, DistFacts
      <4>2. Ahead = Buffers
        BY <1>2, <1>8, <4>1 DEF FillInv
      <4> QED
        BY <1>8, <3>1, <3>2, <4>2
    <3>3. CASE fill # index
      <4>1. Dist(fill) = Ahead
        BY <1>2, <3>3 DEF FillInv
      <4> QED
        BY <1>8, <3>1, <3>3, <4>1
    <3> QED
      BY <3>2, <3>3
  <2> QED
    BY <1>3, <2>1, <2>2 DEF FillInv
<1>11. TagInv'
  <2>1. Prev' = index
    <3>1. Prev' = IF After(index) = 0 THEN Buffers - 1 ELSE After(index) - 1
      BY <1>1 DEF Prev
    <3> QED
      BY <1>3, <3>1 DEF After, Ring
  <2>2. Len(sent') > 0
    BY <1>3, <1>6
  <2> QED
    BY <1>1, <2>1, <2>2 DEF TagInv
<1>12. lost' = {} =>
         \A b \in Ring :
           Dist(b)' < Ahead' => b \in ready' /\ held'[b] = Len(sent') + 1 + Dist(b)'
  <2> SUFFICES ASSUME lost' = {}, NEW b \in Ring, Dist(b)' < Ahead'
               PROVE  b \in ready' /\ held'[b] = Len(sent') + 1 + Dist(b)'
    OBVIOUS
  <2>1. b # index /\ Dist(b)' = Dist(b) - 1 /\ Dist(b) \in Nat
    <3>1. Dist(b)' = IF b = index THEN Buffers - 1 ELSE Dist(b) - 1
      BY <1>9
    <3>2. Dist(b) \in 0..(Buffers - 1)
      BY DistFacts
    <3> QED
      BY <1>3, <1>8, <3>1, <3>2
  <2>2. Dist(b) < Ahead
    BY <1>8, <2>1
  <2>3. b \in ready /\ held[b] = Len(sent) + 1 + Dist(b)
    BY <1>1, <1>2, <2>2 DEF HeldInv
  <2> QED
    BY <1>1, <1>3, <1>6, <2>1, <2>3
<1>13. HeldInv'
  BY <1>1, <1>2, <1>12 DEF HeldInv
<1> QED
  BY <1>1, <1>7, <1>10, <1>11, <1>13 DEF RingInv

(* The tag that is cleared is that of the buffer polled next.              *)
LEMMA ClearTagRing ==
  ASSUME RingTypes, RingInv, ClearTag
  PROVE  RingInv'
<1>1. cpc = "clear" /\ cpc' = "poll" /\ ready' = ready \ {index}
      /\ lost' = lost \union ({held[b] : b \in ready \intersect {index}} \ Range(sent))
      /\ UNCHANGED << held, index, fill, sampled, sent >>
  BY DEF ClearTag, Cleared
<1>2. SamplesInOrder /\ FillInv /\ TagInv /\ HeldInv
  BY <1>1 DEF RingInv
<1>3. /\ Len(sent) \in Nat /\ sampled \in Nat /\ Buffers \in Nat /\ Buffers > 0
      /\ fill \in Ring /\ index \in Ring /\ ready \subseteq Ring
      /\ sent \in Seq(Nat)
  BY DEF RingTypes
<1>4. Ahead' = Ahead /\ Prev' = Prev /\ (\A b \in Ring : Dist(b)' = Dist(b))
      /\ Dist(fill)' = Dist(fill)
  BY <1>1 DEF Ahead, Prev, Dist
<1>5. FillInv'
  BY <1>1, <1>2, <1>4 DEF FillInv
<1>6. Len(sent) > 0 /\ Prev \in ready
  BY <1>1, <1>2 DEF TagInv
<1>7. TagInv'
  <2>1. Buffers > 1 => Prev # index
    BY <1>3 DEF Prev, Ring
  <2> QED
    BY <1>1, <1>3, <1>4, <1>6, <2>1 DEF TagInv
<1>8. lost' = {} =>
         \A b \in Ring :
           Dist(b)' < Ahead' => b \in ready' /\ held'[b] = Len(sent') + 1 + Dist(b)'
  <2> SUFFICES ASSUME lost' = {}, NEW b \in Ring, Dist(b)' < Ahead'
               PROVE  b \in ready' /\ held'[b] = Len(sent') + 1 + Dist(b)'
    OBVIOUS
  <2>1. b \in ready /\ held[b] = Len(sent) + 1 + Dist(b)
    BY <1>1, <1>2, <1>4 DEF HeldInv
  <2>2. b # index
    <3> SUFFICES ASSUME b = index PROVE FALSE
      OBVIOUS
    <3>1. held[b] \in Range(sent)
      BY <1>1, <2>1
    <3>2. PICK i \in 1..Len(sent) : sent[i] = held[b]
      BY <1>3, <3>1 DEF Range
    <3>3. held[b] \in 1..Len(sent)
      BY <1>2, <3>2 DEF SamplesInOrder
    <3>4. Dist(b) \in Nat
      BY <1>3, DistFacts
    <3> QED
      BY <1>3, <2>1, <3>3, <3>4
  <2> QED
    BY <1>1, <1>4, <2>1, <2>2
<1>9. HeldInv'
  BY <1>1, <1>2, <1>8 DEF HeldInv
<1>10. SamplesInOrder'
  BY <1>1, <1>2 DEF SamplesInOrder
<1> QED
  BY <1>1, <1>5, <1>7, <1>9, <1>10 DEF RingInv

(* Another client numbers what it sends.                                   *)
LEMMA OtherClientRing ==
  ASSUME RingTypes, RingInv, OtherClient
  PROVE  RingInv'
<1>1. cpc = "talk" /\ cpc' \in {"talk", "exited"}
  BY DEF OtherClient
<1>2. sent' = sent \/ sent' = Append(sent, Len(sent) + 1)
  BY DEF OtherClient
<1>3. sent \in Seq(Nat) /\ SamplesInOrder
  BY DEF RingTypes, RingInv
<1>4. SamplesInOrder'
  <2>1. CASE sent' = sent
    BY <1>3, <2>1 DEF SamplesInOrder
  <2>2. CASE sent' = Append(sent, Len(sent) + 1)
    BY <1>3, <2>2, InOrderAppend
  <2> QED
    BY <1>2, <2>1, <2>2
<1> QED
  BY <1>1, <1>4 DEF RingInv

(* The other steps leave the ring alone; the client may leave it, too.     *)
LEMMA OtherRing ==
  ASSUME RingInv, UNCHANGED << ringVars, sent >>,
         \/ cpc' = cpc
         \/ cpc' \in {"exited", "gone", "talk"}
         \/ cpc = "off" /\ cpc' = "map"
         \/ cpc = "map" /\ cpc' = "wait"
  PROVE  RingInv'
BY DEF RingInv, SamplesInOrder, Untouched, FillInv, TagInv, HeldInv, Ahead,
       Dist, Prev, ringVars

(* Every step keeps the ring.                                              *)
LEMMA NextRing ==
  ASSUME RingTypes, RingInv, [Next]_vars
  PROVE  RingInv'
<1>1. CASE Connect \/ ListenFails \/ ConnectFails
  BY <1>1, OtherRing DEF Connect, ListenFails, ConnectFails, clientVars
<1>2. CASE ServerStep \/ Terminate \/ OtherServer
  BY <1>2, OtherRing DEF ServerStep, Handshake, Acknowledged, Receive, ClientClosed,
                         WriteRow, Terminate, OtherServer, clientVars
<1>3. CASE MapFails \/ SendReady \/ NoAnswer \/ BoardDies
  BY <1>3, OtherRing DEF MapFails, SendReady, Send, NoAnswer, BoardDies
<1>4. CASE Answer
  BY <1>4, AnswerRing
<1>5. CASE SendData
  BY <1>5, SendDataRing
<1>6. CASE ClearTag
  BY <1>6, ClearTagRing
<1>7. CASE Fill
  BY <1>7, FillRing
<1>8. CASE OtherClient
  BY <1>8, OtherClientRing
<1>9. CASE UNCHANGED vars
  BY <1>9, OtherRing DEF vars, clientVars
<1> QED
  BY <1>1, <1>2, <1>3, <1>4, <1>5, <1>6, <1>7, <1>8, <1>9 DEF Next, ClientStep

(* The ring keeps its order, however many buffers it has and however fast  *)
(* they are filled.                                                        *)
LEMMA RingCorrect == Spec => [](TypeInv /\ RingInv)
<1>1. Init => TypeInv /\ RingInv
  <2> SUFFICES ASSUME Init PROVE TypeInv /\ RingInv
    OBVIOUS
  <2>1. Untouched /\ cpc = "off"
    BY DEF Init, Untouched
  <2>2. SamplesInOrder
    BY <2>1 DEF Untouched, SamplesInOrder
  <2> QED
    BY <2>1, <2>2, InitTypeInv, ConstantsAssumption DEF RingInv
<1>2. TypeInv /\ RingInv /\ [Next]_vars => (TypeInv /\ RingInv)'
  BY NextTypeInv, NextRing, RingTyped, ConstantsAssumption
<1> QED
  BY <1>1, <1>2, PTL DEF Spec

(* No sample is sent twice, out of turn or after one that was left out.    *)
THEOREM InOrder == Spec => []SamplesInOrder
<1>1. RingInv => SamplesInOrder
  BY DEF RingInv
<1> QED
  BY <1>1, RingCorrect, PTL

(* While nothing is lost, the client or the profiler can go on.            *)
THEOREM RingTurns == Spec => []RingTurnsUnlessLost
<1>1. TypeInv /\ RingInv => RingTurnsUnlessLost
  <2> SUFFICES ASSUME TypeInv, RingInv, cpc = "poll", index \notin ready, lost = {}
               PROVE  fill \notin ready
    BY DEF RingTurnsUnlessLost
  <2>1. RingTypes
    BY ConstantsAssumption, RingTyped
  <2>2. FillInv /\ HeldInv
    BY DEF RingInv
  <2>3. index \in Ring /\ fill \in Ring
    BY <2>1 DEF RingTypes
  <2>4. Dist(fill) = Ahead /\ Ahead \in Nat
    BY <2>2 DEF FillInv
  <2>5. Dist(index) = 0
    BY <2>1, <2>3, DistFacts
  <2>6. ~ (0 < Ahead)
    BY <2>2, <2>3, <2>5 DEF HeldInv
  <2>7. Dist(fill) = 0
    BY <2>4, <2>6
  <2>8. fill = index
    BY <2>1, <2>3, <2>7, DistFacts
  <2> QED
    BY <2>8
<1> QED
  BY <1>1, RingCorrect, PTL

-----------------------------------------------------------------------------
(* The file.                                                               *)

(* A set of naturals that is not empty has a least element.                *)
LEMMA Least ==
  ASSUME NEW T \in SUBSET Nat, T # {}
  PROVE  \E x \in T : \A y \in T : x <= y
<1>1. PICK x \in T : \A y \in T : ~ (<< y, x >> \in OpToRel(<, Nat))
  BY WFMin, NatLessThanWellFounded
<1>2. \A y \in T : ~ (y < x)
  BY <1>1 DEF OpToRel
<1> QED
  BY <1>2

(* Rows next to each other make up the part of the message they are from.  *)
LEMMA RowsTogether ==
  ASSUME NEW S, NEW m \in Seq(S), NEW C \in Nat, NEW i \in Nat, i > 1,
         i * C <= Len(m)
  PROVE  SubSeq(m, 1, (i - 1) * C) \o SubSeq(m, (i - 1) * C + 1, i * C)
           = SubSeq(m, 1, i * C)
<1> DEFINE a == (i - 1) * C
           b == i * C
<1>1. a \in Nat /\ b \in Nat /\ a <= b
  <2>1. (i - 1) * C + C = i * C
    OBVIOUS
  <2>2. i - 1 \in Nat
    OBVIOUS
  <2>3. \A j \in Nat : j * C \in Nat
    OBVIOUS
  <2> QED
    BY <2>1, <2>2, <2>3
<1> HIDE DEF a, b
<1>2. b <= Len(m) /\ Len(m) \in Nat
  BY DEF b
<1>3. 1 \in 1..(Len(m) + 1) /\ a \in (1 - 1)..Len(m) /\ b \in a..Len(m)
  BY <1>1, <1>2
<1>4. SubSeq(m, 1, a) \o SubSeq(m, a + 1, b) = SubSeq(m, 1, b)
  BY <1>3, ConcatAdjacentSubSeq
<1> QED
  BY <1>4 DEF a, b

(* Rows that are each a part of a message, one behind the other, are       *)
(* together the beginning of the message.                                  *)
LEMMA FlattenRows ==
  ASSUME NEW S, NEW m \in Seq(S), NEW C \in Nat, NEW rows,
         Len(rows) \in Nat, Len(rows) = 0 => rows = << >>,
         Len(rows) * C <= Len(m),
         \A k \in 1..Len(rows) : rows[k] = SubSeq(m, (k - 1) * C + 1, k * C)
  PROVE  FlattenSeq(rows) = SubSeq(m, 1, Len(rows) * C)
<1> DEFINE n == Len(rows)
           whole == [i \in 1..n |-> SubSeq(m, 1, i * C)]
           Eq(f) == f = [i \in 1..n |-> IF i = 1 THEN rows[i] ELSE f[i - 1] \o rows[i]]
           f0 == CHOOSE f : Eq(f)
<1>1. n \in Nat /\ Len(m) \in Nat
  OBVIOUS
<1>2. CASE n = 0
  <2>1. FlattenSeq(rows) = << >>
    BY <1>2 DEF FlattenSeq
  <2>2. n * C = 0
    BY <1>2
  <2>3. SubSeq(m, 1, 0) = << >>
    BY SubSeqEmpty
  <2> QED
    BY <2>1, <2>2, <2>3
<1>3. CASE n > 0
  <2>1. FlattenSeq(rows) = f0[n]
    BY <1>3 DEF FlattenSeq
  <2>2. \A i \in 1..n : i * C <= Len(m) /\ i \in Nat
    <3> SUFFICES ASSUME NEW i \in 1..n  PROVE i * C <= Len(m) /\ i \in Nat
      OBVIOUS
    <3>1. i * C <= n * C /\ i * C \in Nat /\ n * C \in Nat
      <4> HIDE DEF n
      <4> QED
        BY <1>1
    <3> QED
      BY <3>1, <1>1
  <2>3. \A i \in 2..n : whole[i - 1] \o rows[i] = whole[i]
    <3> SUFFICES ASSUME NEW i \in 2..n  PROVE whole[i - 1] \o rows[i] = whole[i]
      OBVIOUS
    <3>1. i \in 1..n /\ i - 1 \in 1..n /\ i > 1 /\ i \in Nat
      BY <1>1
    <3>2. i * C <= Len(m)
      BY <2>2, <3>1
    <3>3. rows[i] = SubSeq(m, (i - 1) * C + 1, i * C)
      BY <3>1
    <3>4. SubSeq(m, 1, (i - 1) * C) \o SubSeq(m, (i - 1) * C + 1, i * C)
            = SubSeq(m, 1, i * C)
      BY <3>1, <3>2, RowsTogether
    <3> QED
      BY <3>1, <3>3, <3>4
  <2>4. 1 \in 1..n /\ rows[1] = whole[1]
    <3>1. 1 \in 1..n
      BY <1>1, <1>3
    <3>2. (1 - 1) * C + 1 = 1
      OBVIOUS
    <3> QED
      BY <3>1, <3>2
  <2> HIDE DEF n
  <2>5. Eq(whole)
    <3>1. \A i \in 1..n : whole[i] = IF i = 1 THEN rows[i] ELSE whole[i - 1] \o rows[i]
      <4> SUFFICES ASSUME NEW i \in 1..n
                   PROVE  whole[i] = IF i = 1 THEN rows[i] ELSE whole[i - 1] \o rows[i]
        OBVIOUS
      <4>1. i = 1 \/ i \in 2..n
        BY <1>1
      <4> HIDE DEF whole
      <4> QED
        BY <4>1, <2>3, <2>4
    <3>2. whole = [i \in 1..n |-> whole[i]]
      OBVIOUS
    <3> HIDE DEF whole
    <3> QED
      BY <3>1, <3>2
  <2>6. Eq(f0)
    <3> HIDE DEF whole, Eq
    <3>1. \E f : Eq(f)
      BY <2>5
    <3> QED
      BY <3>1
  <2> HIDE DEF f0
  <2>7. f0[n] = whole[n]
    <3> DEFINE T == {i \in 1..n : f0[i] # whole[i]}
    <3> SUFFICES ASSUME T # {}  PROVE FALSE
      BY <1>1, <1>3
    <3>0. T \in SUBSET Nat
      BY <1>1
    <3>1. PICK x \in T : \A y \in T : x <= y
      <4> HIDE DEF T
      <4> QED
        BY <3>0, Least
    <3>2. x \in 1..n /\ f0[x] # whole[x]
      BY <3>1
    <3>3. f0[x] = IF x = 1 THEN rows[x] ELSE f0[x - 1] \o rows[x]
      BY <2>6, <3>2
    <3>4. x # 1
      BY <2>4, <3>2, <3>3
    <3>5. x \in 2..n /\ x - 1 \in 1..n /\ ~ (x <= x - 1)
      BY <3>2, <3>4, <1>1
    <3>6. f0[x - 1] = whole[x - 1]
      BY <3>1, <3>5
    <3> HIDE DEF whole
    <3> QED
      BY <2>3, <3>2, <3>3, <3>4, <3>5, <3>6
  <2>8. whole[n] = SubSeq(m, 1, n * C)
    BY <1>1, <1>3
  <2> QED
    BY <2>1, <2>7, <2>8 DEF n
<1> QED
  BY <1>1, <1>2, <1>3

(* While the server may still read, and has read no quads as commands and  *)
(* no command as quads: either no quads have been sent, or the rest of the *)
(* first packet is under way, behind c commands that go to the handshake.  *)
Live  == spc \in {"listen", "ready", "ack", "data"}
Clean == ~ skipped /\ Commands(message) = {}

AllCommands(c) == \A i \in 1..c : toServer[i].kind # "data"

Unsent == sent = << >> /\ message = << >> /\ AllCommands(Len(toServer))

Coming(c) ==
  /\ c > 0 => message = << >>
  /\ AllCommands(c)
  /\ c + (Quads - Len(message)) <= Len(toServer)
  /\ \A j \in 1..(Quads - Len(message)) :
       toServer[c + j] = Packet(1)[Len(message) + j]

StreamInv == Live /\ Clean => Unsent \/ \E c \in 0..Len(toServer) : Coming(c)

MessageInv ==
  /\ spc \in {"listen", "ready", "ack"} => message = << >>
  /\ Clean => \A i \in 1..Len(message) : message[i] = Packet(1)[i]

FileInv ==
  /\ Len(file) <= NumCpus
  /\ file # << >> => Len(message) = Quads
  /\ \A k \in 1..Len(file) : file[k] = SubSeq(message, (k - 1) * Chunk + 1, k * Chunk)

PacketInv == StreamInv /\ MessageInv /\ FileInv

(* What the steps of the file need of the types.                           *)
FileTypes ==
  /\ Quads \in Nat
  /\ Quads > 0
  /\ NumCpus \in Nat
  /\ message \in Seq(Items)
  /\ Len(message) <= Quads
  /\ toServer \in Seq(Items)
  /\ file \in Seq(Seq(Items))
  /\ sent \in Seq(Nat)

(* TypeInv says it.                                                        *)
LEMMA FileTyped ==
  ASSUME ConstantsAssumption, TypeInv
  PROVE  FileTypes
BY DEF ConstantsAssumption, TypeInv, TypeOK, WriteInv, FileTypes

(* The first packet is all quads.                                          *)
LEMMA PacketFacts ==
  ASSUME FileTypes
  PROVE  /\ Packet(1) \in Seq(Items) /\ Len(Packet(1)) = Quads
         /\ \A j \in 1..Quads : Packet(1)[j].kind = "data"
<1>1. Quads \in Nat
  BY DEF FileTypes
<1>2. \A j \in 1..Quads : [kind |-> "data", n |-> (1 - 1) * Quads + j] \in Items
  <2> SUFFICES ASSUME NEW j \in 1..Quads
               PROVE  [kind |-> "data", n |-> (1 - 1) * Quads + j] \in Items
    OBVIOUS
  <2>1. (1 - 1) * Quads + j \in Int
    BY <1>1
  <2> QED
    BY <2>1 DEF Items
<1>3. Packet(1) \in [1..Quads -> Items]
  BY <1>2 DEF Packet
<1>4. Packet(1) \in Seq(Items) /\ Len(Packet(1)) = Quads
  BY <1>1, <1>3
<1>5. \A j \in 1..Quads : Packet(1)[j].kind = "data"
  BY DEF Packet
<1> QED
  BY <1>4, <1>5

(* The pieces of the stream, element by element.                           *)
LEMMA ArrivedElements ==
  ASSUME toServer \in Seq(Items), NEW n \in 0..Len(toServer)
  PROVE  /\ \A i \in 1..n : Arrived(n)[i] = toServer[i]
         /\ Len(Left(n)) = Len(toServer) - n
         /\ \A i \in 1..(Len(toServer) - n) : Left(n)[i] = toServer[n + i]
BY DEF Arrived, Left

(* The elements of two sequences one after the other.                      *)
LEMMA ConcatElements ==
  ASSUME NEW S, NEW s \in Seq(S), NEW t \in Seq(S)
  PROVE  /\ \A i \in 1..Len(s) : (s \o t)[i] = s[i]
         /\ \A i \in 1..Len(t) : (s \o t)[Len(s) + i] = t[i]
OBVIOUS

(* A sequence without commands is all quads, and the other way round.      *)
LEMMA CommandsNone ==
  ASSUME NEW p \in Seq(Items)
  PROVE  /\ Commands(p) = {} <=> \A i \in 1..Len(p) : p[i].kind = "data"
         /\ ~ HasQuads(p) => \A i \in 1..Len(p) : p[i].kind # "data"
<1>1. DOMAIN p = 1..Len(p)
  OBVIOUS
<1> QED
  BY <1>1 DEF Commands, HasQuads

(* What comes stays where it is when more is sent behind it.               *)
LEMMA ComingGrows ==
  ASSUME FileTypes, NEW items \in Seq(Items), toServer' = toServer \o items,
         message' = message, NEW c \in 0..Len(toServer), Coming(c)
  PROVE  c \in 0..Len(toServer') /\ Coming(c)'
<1> DEFINE rest == Quads - Len(message)
<1>1. /\ toServer \in Seq(Items) /\ message \in Seq(Items) /\ Quads \in Nat
      /\ Len(message) <= Quads
  BY DEF FileTypes
<1>2. Len(toServer') = Len(toServer) + Len(items) /\ Len(items) \in Nat
  BY <1>1, ConcatFacts
<1>3. \A i \in 1..Len(toServer) : toServer'[i] = toServer[i]
  BY <1>1, ConcatElements
<1>4. rest \in Nat /\ c + rest <= Len(toServer) /\ c \in Nat /\ Len(toServer) \in Nat
  BY <1>1 DEF Coming
<1>5. AllCommands(c)'
  <2>1. \A i \in 1..c : i \in 1..Len(toServer)
    BY <1>4
  <2> QED
    BY <1>3, <2>1 DEF Coming, AllCommands
<1>6. \A j \in 1..rest : toServer'[c + j] = Packet(1)[Len(message) + j]
  <2>1. \A j \in 1..rest : c + j \in 1..Len(toServer)
    <3> HIDE DEF rest
    <3> QED
      BY <1>4
  <2> QED
    BY <1>3, <2>1 DEF Coming
<1>7. c + rest <= Len(toServer') /\ c \in 0..Len(toServer')
  <2> HIDE DEF rest
  <2> QED
    BY <1>2, <1>4
<1>8. Packet(1)' = Packet(1)
  BY DEF Packet
<1> QED
  BY <1>5, <1>6, <1>7, <1>8 DEF Coming

(* A step that only sends commands, or nothing.                            *)
LEMMA CommandStream ==
  ASSUME FileTypes, StreamInv, NEW items \in Seq(Items),
         \A i \in 1..Len(items) : items[i].kind # "data",
         toServer' = toServer \o items,
         Live' => Live, UNCHANGED << message, skipped, sent >>
  PROVE  StreamInv'
<1> SUFFICES ASSUME Live', Clean'
             PROVE  Unsent' \/ \E c \in 0..Len(toServer') : Coming(c)'
  BY DEF StreamInv
<1>1. Live /\ Clean
  BY DEF Clean
<1>2. CASE Unsent
  <2>1. toServer \in Seq(Items) /\ Len(toServer) \in Nat /\ Len(items) \in Nat
    BY DEF FileTypes
  <2>2. Len(toServer') = Len(toServer) + Len(items)
    BY <2>1, ConcatFacts
  <2>3. /\ \A i \in 1..Len(toServer) : toServer'[i] = toServer[i]
        /\ \A i \in 1..Len(items) : toServer'[Len(toServer) + i] = items[i]
    BY <2>1, ConcatElements
  <2>4. ASSUME NEW i \in 1..Len(toServer')  PROVE toServer'[i].kind # "data"
    <3>1. i \in 1..Len(toServer) \/ (i - Len(toServer) \in 1..Len(items)
                                     /\ i = Len(toServer) + (i - Len(toServer)))
      BY <2>1, <2>2
    <3>2. CASE i \in 1..Len(toServer)
      BY <3>2, <2>3, <1>2 DEF Unsent, AllCommands
    <3>3. CASE i - Len(toServer) \in 1..Len(items)
               /\ i = Len(toServer) + (i - Len(toServer))
      BY <3>3, <2>3
    <3> QED
      BY <3>1, <3>2, <3>3
  <2> QED
    BY <1>2, <2>4 DEF Unsent, AllCommands
<1>3. CASE \E c \in 0..Len(toServer) : Coming(c)
  BY <1>3, ComingGrows
<1> QED
  BY <1>1, <1>2, <1>3 DEF StreamInv

(* What the handshake takes away.                                          *)
LEMMA TakenStream ==
  ASSUME FileTypes, StreamInv, MessageInv, spc \in {"ready", "ack"},
         NEW n \in 0..Len(toServer), toServer' = Left(n),
         skipped' = (skipped \/ HasQuads(Arrived(n))), UNCHANGED << message, sent >>
  PROVE  StreamInv'
<1> SUFFICES ASSUME Clean'
             PROVE  Unsent' \/ \E c \in 0..Len(toServer') : Coming(c)'
  BY DEF StreamInv
<1>1. toServer \in Seq(Items) /\ Len(toServer) \in Nat /\ Quads \in Nat /\ Quads > 0
  BY DEF FileTypes
<1>2. ~ skipped /\ ~ HasQuads(Arrived(n)) /\ Commands(message) = {}
  BY DEF Clean
<1>3. \A i \in 1..n : toServer[i].kind # "data"
  <2>1. Arrived(n) \in Seq(Items) /\ Len(Arrived(n)) = n
    BY <1>1, ArrivedFacts
  <2>2. \A i \in 1..n : Arrived(n)[i] = toServer[i]
    BY <1>1, ArrivedElements
  <2>3. \A i \in 1..n : Arrived(n)[i].kind # "data"
    BY <1>2, <2>1, CommandsNone
  <2> QED
    BY <2>2, <2>3
<1>4. message = << >> /\ Len(message) = 0
  BY DEF MessageInv
<1>5. /\ Len(toServer') = Len(toServer) - n
      /\ \A i \in 1..(Len(toServer) - n) : toServer'[i] = toServer[n + i]
  BY <1>1, ArrivedElements
<1>6. Live /\ Clean
  BY <1>2 DEF Live, Clean
<1>7. CASE Unsent
  <2>1. \A i \in 1..(Len(toServer) - n) : n + i \in 1..Len(toServer)
    BY <1>1
  <2> QED
    BY <1>5, <1>7, <2>1 DEF Unsent, AllCommands
<1>8. CASE \E c \in 0..Len(toServer) : Coming(c)
  <2>1. PICK c \in 0..Len(toServer) : Coming(c)
    BY <1>8
  <2>2. /\ AllCommands(c) /\ c + Quads <= Len(toServer)
        /\ \A j \in 1..Quads : toServer[c + j] = Packet(1)[j]
    BY <1>1, <1>4, <2>1 DEF Coming
  <2>3. n <= c
    <3> SUFFICES ASSUME c < n  PROVE FALSE
      BY <1>1
    <3>1. c + 1 \in 1..n /\ 1 \in 1..Quads
      BY <1>1
    <3>2. toServer[c + 1] = Packet(1)[1]
      BY <3>1, <2>2
    <3> QED
      BY <1>3, <3>1, <3>2, PacketFacts
  <2> DEFINE d == c - n
  <2>4. d \in 0..Len(toServer') /\ d + Quads <= Len(toServer')
    BY <1>1, <1>5, <2>2, <2>3
  <2>5. \A i \in 1..d : i \in 1..(Len(toServer) - n) /\ n + i \in 1..c
    BY <1>1, <2>2, <2>3
  <2>6. AllCommands(d)'
    BY <1>5, <2>2, <2>5 DEF AllCommands
  <2>7. ASSUME NEW j \in 1..Quads  PROVE toServer'[d + j] = Packet(1)[j]
    <3>1. d + j \in 1..(Len(toServer) - n) /\ n + (d + j) = c + j
      BY <1>1, <2>2, <2>3
    <3>2. toServer'[d + j] = toServer[n + (d + j)]
      <4> HIDE DEF d
      <4> QED
        BY <1>5, <3>1
    <3> QED
      BY <2>2, <3>1, <3>2
  <2>8. Packet(1)' = Packet(1)
    BY DEF Packet
  <2>9. message' = << >> /\ Len(message') = 0
    BY <1>4
  <2> HIDE DEF d
  <2>10. Coming(d)'
    <3>1. /\ Quads - Len(message') = Quads
          /\ \A j \in 1..Quads : Len(message') + j = j
      BY <1>1, <2>9
    <3>2. \A j \in 1..Quads : toServer'[d + j] = Packet(1)'[Len(message') + j]
      BY <2>7, <2>8, <3>1
    <3> QED
      BY <2>4, <2>6, <2>9, <3>1, <3>2 DEF Coming
  <2> QED
    BY <2>4, <2>10
<1> QED
  BY <1>6, <1>7, <1>8 DEF StreamInv

(* The receive goes on where the message ends.                             *)
LEMMA ReceiveStream ==
  ASSUME FileTypes, StreamInv, MessageInv, Receive, Clean'
  PROVE  /\ Coming(0)'
         /\ \A i \in 1..Len(message') : message'[i] = Packet(1)[i]
<1>1. PICK n \in 1..(Quads - Len(message)) :
        n <= Len(toServer) /\ message' = Filled(Arrived(n)) /\ toServer' = Left(n)
  BY DEF Receive
<1> DEFINE a == Arrived(n)
           l == Len(message)
<1>2. /\ toServer \in Seq(Items) /\ Len(toServer) \in Nat /\ Quads \in Nat
      /\ message \in Seq(Items) /\ l \in Nat /\ l <= Quads
      /\ spc = "data" /\ skipped' = skipped
  BY DEF FileTypes, Receive
<1>3. n \in 0..Len(toServer) /\ n >= 1 /\ l + n <= Quads
  <2>1. n \in 1..(Quads - l)
    OBVIOUS
  <2> HIDE DEF l
  <2> QED
    BY <1>1, <1>2, <2>1
<1>4. a \in Seq(Items) /\ Len(a) = n
  BY <1>2, <1>3, ArrivedFacts
<1>5. /\ \A i \in 1..n : a[i] = toServer[i]
      /\ Len(toServer') = Len(toServer) - n
      /\ \A i \in 1..(Len(toServer) - n) : toServer'[i] = toServer[n + i]
  BY <1>1, <1>2, <1>3, ArrivedElements
<1> HIDE DEF a
<1>6. message' = message \o a
  BY <1>1 DEF Filled, a
<1>7. message' \in Seq(Items) /\ Len(message') = l + n
  BY <1>2, <1>4, <1>6, ConcatFacts
<1>8. /\ \A i \in 1..l : message'[i] = message[i]
      /\ \A i \in 1..n : message'[l + i] = a[i]
  BY <1>2, <1>4, <1>6, ConcatElements
<1>9. \A i \in 1..(l + n) : message'[i].kind = "data"
  <2>1. Commands(message)' = Commands(message')
    BY DEF Commands
  <2> QED
    BY <1>7, <2>1, CommandsNone DEF Clean
<1> HIDE DEF l
<1>10. Clean
  <2>1. \A i \in 1..l : message[i].kind = "data"
    <3>1. \A i \in 1..l : i \in 1..(l + n)
      BY <1>2, <1>3
    <3> QED
      BY <1>8, <1>9, <3>1
  <2>2. Commands(message) = {}
    BY <1>2, <2>1, CommandsNone DEF l
  <2> QED
    BY <1>2, <2>2 DEF Clean
<1>11. toServer[1].kind = "data"
  <2>1. 1 \in 1..n /\ l + 1 \in 1..(l + n)
    BY <1>2, <1>3
  <2> QED
    BY <1>5, <1>8, <1>9, <2>1
<1>12. ~ Unsent
  <2>1. 1 \in 1..Len(toServer)
    BY <1>2, <1>3
  <2> QED
    BY <1>11, <2>1 DEF Unsent, AllCommands
<1>13. PICK c \in 0..Len(toServer) : Coming(c)
  BY <1>2, <1>10, <1>12 DEF StreamInv, Live
<1>14. c = 0
  <2>1. c \in Nat /\ (c # 0 => 1 \in 1..c)
    BY <1>2
  <2> QED
    BY <1>11, <1>13, <2>1 DEF Coming, AllCommands
<1>15. /\ Quads - l <= Len(toServer)
       /\ \A j \in 1..(Quads - l) : toServer[j] = Packet(1)[l + j]
  <2>1. /\ 0 + (Quads - l) <= Len(toServer)
        /\ \A j \in 1..(Quads - l) : toServer[0 + j] = Packet(1)[l + j]
    BY <1>13, <1>14 DEF Coming, l
  <2> QED
    BY <1>2, <2>1
<1>16. ASSUME NEW i \in 1..(l + n)  PROVE message'[i] = Packet(1)[i]
  <2>1. i \in 1..l \/ (i - l \in 1..n /\ i = l + (i - l))
    BY <1>2, <1>3
  <2>2. CASE i \in 1..l
    BY <2>2, <1>8, <1>10 DEF MessageInv, l
  <2>3. CASE i - l \in 1..n /\ i = l + (i - l)
    <3> DEFINE j == i - l
    <3>1. j \in 1..n /\ i = l + j /\ j \in 1..(Quads - l)
      BY <2>3, <1>2, <1>3
    <3> HIDE DEF j
    <3> QED
      BY <1>5, <1>8, <1>15, <3>1
  <2> QED
    BY <2>1, <2>2, <2>3
<1>17. ASSUME NEW j \in 1..(Quads - (l + n))
       PROVE  toServer'[j] = Packet(1)[(l + n) + j]
  <2>1. j \in 1..(Len(toServer) - n) /\ n + j \in 1..(Quads - l)
        /\ l + (n + j) = (l + n) + j
    BY <1>2, <1>3, <1>15
  <2>2. toServer'[j] = toServer[n + j]
    BY <1>5, <2>1
  <2>3. toServer[n + j] = Packet(1)[l + (n + j)]
    BY <1>15, <2>1
  <2> QED
    BY <2>1, <2>2, <2>3
<1>18. Coming(0)'
  <2> DEFINE r == Quads - Len(message')
  <2>1. r = Quads - (l + n) /\ r \in Nat
    BY <1>2, <1>3, <1>7
  <2>2. 0 + r <= Len(toServer')
    BY <1>2, <1>3, <1>5, <1>15, <2>1
  <2>3. \A j \in 1..r : toServer'[0 + j] = Packet(1)[Len(message') + j]
    <3> SUFFICES ASSUME NEW j \in 1..r
                 PROVE  toServer'[0 + j] = Packet(1)[Len(message') + j]
      OBVIOUS
    <3>1. 0 + j = j /\ j \in 1..(Quads - (l + n))
      BY <2>1
    <3> QED
      BY <1>7, <1>17, <3>1
  <2>4. Packet(1)' = Packet(1)
    BY DEF Packet
  <2>5. AllCommands(0)'
    BY DEF AllCommands
  <2> QED
    BY <2>2, <2>3, <2>4, <2>5 DEF Coming
<1> QED
  BY <1>7, <1>16, <1>18

(* A step of nobody who touches the stream, the message or the file.       *)
LEMMA QuietPacket ==
  ASSUME PacketInv, Live' => Live,
         spc' \in {"listen", "ready", "ack"} => spc \in {"listen", "ready", "ack"},
         UNCHANGED << message, skipped, file, toServer, sent >>
  PROVE  PacketInv'
<1>1. (Clean' <=> Clean) /\ Packet(1)' = Packet(1)
  BY DEF Clean, Commands, Packet
<1>2. Unsent' <=> Unsent
  BY DEF Unsent, AllCommands
<1>3. \A c \in 0..Len(toServer) : Coming(c) => Coming(c)'
  BY <1>1 DEF Coming, AllCommands
<1>4. StreamInv'
  BY <1>1, <1>2, <1>3 DEF PacketInv, StreamInv
<1>5. MessageInv' /\ FileInv'
  BY <1>1 DEF PacketInv, MessageInv, FileInv, Chunk
<1> QED
  BY <1>4, <1>5 DEF PacketInv

(* A step of which the server's side notices nothing but what it is sent.  *)
LEMMA SentPacket ==
  ASSUME PacketInv, StreamInv', UNCHANGED serverVars
  PROVE  PacketInv'
BY DEF PacketInv, MessageInv, FileInv, Clean, Commands, Packet, Chunk, serverVars

(* server.c hears ready, or gives up.                                      *)
LEMMA HandshakePacket ==
  ASSUME FileTypes, PacketInv, Handshake
  PROVE  PacketInv'
<1>1. PICK n \in 0..Len(toServer) :
        toServer' = Left(n) /\ skipped' = (skipped \/ HasQuads(Arrived(n)))
  BY DEF Handshake
<1>2. spc = "ready" /\ UNCHANGED << message, file, sent >>
  BY DEF Handshake
<1>3. StreamInv'
  BY <1>1, <1>2, TakenStream DEF PacketInv
<1>4. MessageInv' /\ FileInv'
  <2>1. message = << >> /\ Len(message) = 0
    BY <1>2 DEF PacketInv, MessageInv
  <2> QED
    BY <1>2, <2>1 DEF PacketInv, MessageInv, FileInv, Chunk
<1> QED
  BY <1>3, <1>4 DEF PacketInv

(* server.c waits for the acknowledgement, which it does not look at.      *)
LEMMA AcknowledgedPacket ==
  ASSUME FileTypes, PacketInv, Acknowledged
  PROVE  PacketInv'
<1>1. PICK n \in 0..Len(toServer) :
        toServer' = Left(n) /\ skipped' = (skipped \/ HasQuads(Arrived(n)))
  BY DEF Acknowledged
<1>2. spc = "ack" /\ UNCHANGED << message, file, sent >>
  BY DEF Acknowledged
<1>3. StreamInv'
  BY <1>1, <1>2, TakenStream DEF PacketInv
<1>4. MessageInv' /\ FileInv'
  <2>1. message = << >> /\ Len(message) = 0
    BY <1>2 DEF PacketInv, MessageInv
  <2> QED
    BY <1>2, <2>1 DEF PacketInv, MessageInv, FileInv, Chunk
<1> QED
  BY <1>3, <1>4 DEF PacketInv

(* server.c receives a part of its message.                                *)
LEMMA ReceivePacket ==
  ASSUME FileTypes, WriteInv, PacketInv, Receive
  PROVE  PacketInv'
<1>1. spc = "data" /\ spc' \in {"write", "data"} /\ file' = file /\ file = << >>
  BY DEF Receive, WriteInv
<1>2. StreamInv' /\ MessageInv'
  <2>1. CASE Clean'
    <3>1. Coming(0)' /\ \A i \in 1..Len(message') : message'[i] = Packet(1)[i]
      BY <2>1, ReceiveStream DEF PacketInv
    <3>2. 0 \in 0..Len(toServer')
      <4>1. toServer' \in Seq(Items)
        <5>1. PICK n \in 1..(Quads - Len(message)) :
                n <= Len(toServer) /\ toServer' = Left(n)
          BY DEF Receive
        <5> QED
          BY <5>1 DEF FileTypes, Left
      <4> QED
        BY <4>1
    <3>3. Packet(1)' = Packet(1)
      BY DEF Packet
    <3> QED
      BY <1>1, <3>1, <3>2, <3>3 DEF StreamInv, MessageInv
  <2>2. CASE ~ Clean'
    BY <1>1, <2>2 DEF StreamInv, MessageInv
  <2> QED
    BY <2>1, <2>2
<1>3. FileInv'
  <2>1. Len(file') = 0 /\ file' = << >>
    BY <1>1
  <2> QED
    BY <2>1 DEF PacketInv, FileInv, FileTypes
<1> QED
  BY <1>2, <1>3 DEF PacketInv

(* server.c writes the next row.                                           *)
LEMMA WriteRowPacket ==
  ASSUME ConstantsAssumption, FileTypes, WriteInv, PacketInv, WriteRow
  PROVE  PacketInv'
<1> DEFINE f == Len(file)
<1>1. /\ spc = "write" /\ file' = Append(file, Row(f))
      /\ spc' \in {"exited", "write"} /\ UNCHANGED << message, skipped >>
  BY DEF WriteRow
<1>2. file \in Seq(Seq(Items)) /\ f \in Nat /\ NumCpus \in Nat
  BY DEF FileTypes
<1>3. Len(message) = Quads /\ f < NumCpus
  BY <1>1 DEF WriteInv
<1>4. Row(f) = SubSeq(message, ((f + 1) - 1) * Chunk + 1, (f + 1) * Chunk)
  <2>1. (f + 1) - 1 = f
    BY <1>2
  <2> HIDE DEF f
  <2> QED
    BY <2>1 DEF Row
<1>5. /\ Len(file') = f + 1 /\ file'[f + 1] = Row(f)
      /\ \A k \in 1..f : file'[k] = file[k]
  <2>1. Row(f) \in Seq(Items)
    <3>1. f \in 0..(NumCpus - 1)
      <4> HIDE DEF f
      <4> QED
        BY <1>2, <1>3
    <3> DEFINE lo == f * Chunk
               hi == (f + 1) * Chunk
    <3>2. lo \in Nat /\ hi \in Nat /\ hi <= Len(message)
      <4> HIDE DEF f
      <4> QED
        BY <1>3, <3>1, RowsFit
    <3> HIDE DEF lo, hi
    <3>3. message \in Seq(Items) /\ lo + 1 >= 1
      BY <3>2 DEF FileTypes
    <3>4. SubSeq(message, lo + 1, hi) \in Seq(Items)
      BY <3>2, <3>3
    <3> QED
      BY <3>4 DEF Row, lo, hi
  <2> QED
    BY <1>1, <1>2, <2>1
<1> HIDE DEF f
<1>6. \A k \in 1..(f + 1) :
        file'[k] = SubSeq(message, (k - 1) * Chunk + 1, k * Chunk)
  <2> SUFFICES ASSUME NEW k \in 1..(f + 1)
               PROVE  file'[k] = SubSeq(message, (k - 1) * Chunk + 1, k * Chunk)
    OBVIOUS
  <2>1. k \in 1..f \/ k = f + 1
    BY <1>2
  <2>2. CASE k \in 1..f
    BY <1>5, <2>2 DEF PacketInv, FileInv, f
  <2>3. CASE k = f + 1
    BY <1>4, <1>5, <2>3
  <2> QED
    BY <2>1, <2>2, <2>3
<1>7. FileInv'
  <2>1. Len(file') <= NumCpus
    BY <1>2, <1>3, <1>5
  <2> QED
    BY <1>1, <1>3, <1>5, <1>6, <2>1 DEF FileInv, Chunk
<1>8. StreamInv' /\ MessageInv'
  BY <1>1 DEF PacketInv, StreamInv, MessageInv, Live, Clean, Commands, Packet
<1> QED
  BY <1>7, <1>8 DEF PacketInv

(* A command, or nothing, is sent to the server.                           *)
LEMMA CommandPacket ==
  ASSUME ConstantsAssumption, FileTypes, PacketInv, UNCHANGED << serverVars, sent >>,
         NEW k \in ClientCommands,
         toServer' \in {toServer, toServer \o << Command(k) >>}
  PROVE  PacketInv'
<1>1. CASE toServer' = toServer
  BY <1>1, QuietPacket DEF serverVars, Live
<1>2. CASE toServer' = toServer \o << Command(k) >>
  <2> DEFINE items == << Command(k) >>
  <2>1. /\ items \in Seq(Items)
        /\ \A i \in 1..Len(items) : items[i].kind # "data"
    BY ItemsFacts DEF Command, ClientCommands
  <2>2. toServer' = toServer \o items
    BY <1>2
  <2> HIDE DEF items
  <2>3. StreamInv'
    BY <2>1, <2>2, CommandStream DEF PacketInv, serverVars, Live
  <2> QED
    BY <2>3, SentPacket
<1> QED
  BY <1>1, <1>2

(* A packet is sent; if it is the first, then it is the whole of packet 1. *)
LEMMA DataPacket ==
  ASSUME ConstantsAssumption, FileTypes, PacketInv, UNCHANGED serverVars, NEW s \in Nat,
         sent' = Append(sent, s), SamplesInOrder', toServer' = toServer \o Packet(s)
  PROVE  PacketInv'
<1>1. /\ toServer \in Seq(Items) /\ Len(toServer) \in Nat /\ sent \in Seq(Nat)
      /\ Quads \in Nat /\ UNCHANGED << message, skipped, spc >>
  BY DEF FileTypes, serverVars
<1>2. Packet(s) \in Seq(Items)
  BY ItemsFacts
<1>3. Live' => Live
  BY <1>1 DEF Live
<1>4. Clean' => Clean
  BY <1>1 DEF Clean, Commands
<1>5. CASE Unsent
  <2>1. sent = << >> /\ message = << >> /\ AllCommands(Len(toServer))
    BY <1>5 DEF Unsent
  <2>2. s = 1
    <3>1. Len(sent') = 1 /\ sent'[1] = s
      BY <1>1, <2>1
    <3>2. 1 \in 1..Len(sent')
      BY <3>1
    <3> QED
      BY <3>1, <3>2 DEF SamplesInOrder
  <2> DEFINE p == Packet(1)
  <2>0. PICK c \in 0..Len(toServer) : c = Len(toServer)
    BY <1>1
  <2>3. p \in Seq(Items) /\ Len(p) = Quads /\ toServer' = toServer \o p
    BY <2>2, PacketFacts
  <2>4. p' = p
    BY DEF Packet
  <2> HIDE DEF p
  <2>5. Len(toServer') = c + Quads
    BY <1>1, <2>0, <2>3, ConcatFacts
  <2>6. /\ \A i \in 1..c : toServer'[i] = toServer[i]
        /\ \A i \in 1..Quads : toServer'[c + i] = p[i]
    BY <1>1, <2>0, <2>3, ConcatElements
  <2>7. message' = << >> /\ Len(message') = 0
    BY <1>1, <2>1
  <2>8. c \in Nat /\ c \in 0..Len(toServer')
    BY <1>1, <2>5
  <2>9. AllCommands(c)'
    BY <2>0, <2>1, <2>6 DEF AllCommands
  <2>10. /\ Quads - Len(message') = Quads
         /\ \A j \in 1..Quads : Len(message') + j = j
    BY <1>1, <2>7
  <2>11. Coming(c)'
    <3>1. \A j \in 1..Quads : toServer'[c + j] = p'[Len(message') + j]
      BY <2>4, <2>6, <2>10
    <3>2. c + (Quads - Len(message')) <= Len(toServer')
      BY <1>1, <2>5, <2>8, <2>10
    <3> QED
      BY <2>7, <2>9, <2>10, <3>1, <3>2 DEF Coming, p
  <2>12. StreamInv'
    BY <2>8, <2>11 DEF StreamInv
  <2> QED
    BY <2>12, SentPacket
<1>6. CASE \E c \in 0..Len(toServer) : Coming(c)
  <2>1. \E c \in 0..Len(toServer') : Coming(c)'
    BY <1>1, <1>2, <1>6, ComingGrows
  <2> QED
    BY <2>1, SentPacket DEF StreamInv
<1>7. CASE ~ (Live /\ Clean)
  BY <1>3, <1>4, <1>7, SentPacket DEF StreamInv
<1> QED
  BY <1>5, <1>6, <1>7 DEF PacketInv, StreamInv

(* The client says that it is ready.                                       *)
LEMMA SendReadyPacket ==
  ASSUME ConstantsAssumption, FileTypes, PacketInv, SendReady
  PROVE  PacketInv'
<1>1. "ready" \in ClientCommands
  BY DEF ClientCommands
<1>2. toServer' \in {toServer, toServer \o << Command("ready") >>}
  BY DEF SendReady, Send
<1>3. UNCHANGED << serverVars, sent >>
  BY DEF SendReady
<1> QED
  BY <1>1, <1>2, <1>3, CommandPacket

(* The client acknowledges an answer.                                      *)
LEMMA AnswerPacket ==
  ASSUME ConstantsAssumption, FileTypes, PacketInv, Answer
  PROVE  PacketInv'
<1>1. "ack" \in ClientCommands
  BY DEF ClientCommands
<1>2. toServer' \in {toServer, toServer \o << Command("ack") >>}
  <2>1. CASE toClient[1] = Expected[step]
    BY <2>1 DEF Answer, Send
  <2>2. CASE toClient[1] # Expected[step]
    BY <2>2 DEF Answer
  <2> QED
    BY <2>1, <2>2
<1>3. UNCHANGED << serverVars, sent >>
  BY DEF Answer
<1> QED
  BY <1>1, <1>2, <1>3, CommandPacket

(* What is sent to a server that has gone does not matter.                 *)
LEMMA SendDataPacket ==
  ASSUME ConstantsAssumption, TypeInv, FileTypes, PacketInv, SamplesInOrder', SendData
  PROVE  PacketInv'
<1>1. sent' = Append(sent, held[index]) /\ UNCHANGED serverVars
  BY DEF SendData
<1>2. held[index] \in Nat
  BY DEF TypeInv, TypeOK
<1>3. CASE ServerEnded
  <2>1. StreamInv'
    BY <1>1, <1>3 DEF ServerEnded, StreamInv, Live, serverVars
  <2> QED
    BY <1>1, <2>1, SentPacket
<1>4. CASE ~ ServerEnded
  <2>1. toServer' = toServer \o Packet(held[index])
    BY <1>4 DEF SendData, Send
  <2> QED
    BY <1>1, <1>2, <2>1, DataPacket
<1> QED
  BY <1>3, <1>4

(* Another client sends a command, a packet or nothing.                    *)
LEMMA OtherClientPacket ==
  ASSUME ConstantsAssumption, FileTypes, PacketInv, SamplesInOrder', OtherClient
  PROVE  PacketInv'
<1>1. UNCHANGED serverVars
  BY DEF OtherClient
<1>2. CASE \E k \in ClientCommands :
             toServer' = Append(toServer, Command(k)) /\ UNCHANGED sent
  <2>1. PICK k \in ClientCommands :
          toServer' = Append(toServer, Command(k)) /\ UNCHANGED sent
    BY <1>2
  <2>2. toServer' = toServer \o << Command(k) >>
    <3>1. Command(k) \in Items
      BY DEF Command, Items
    <3> QED
      BY <2>1, <3>1 DEF FileTypes
  <2> QED
    BY <1>1, <2>1, <2>2, CommandPacket
<1>3. CASE /\ sent' = Append(sent, Len(sent) + 1)
           /\ toServer' = toServer \o Packet(Len(sent) + 1)
  <2>1. Len(sent) + 1 \in Nat
    BY DEF FileTypes
  <2> QED
    BY <1>1, <1>3, <2>1, DataPacket
<1>4. CASE UNCHANGED << toServer, sent >>
  BY <1>1, <1>4, QuietPacket DEF serverVars, Live
<1> QED
  BY <1>2, <1>3, <1>4 DEF OtherClient

(* Every step keeps the packet together.                                   *)
LEMMA NextPacket ==
  ASSUME ConstantsAssumption, TypeInv, FileTypes, SamplesInOrder', PacketInv, [Next]_vars
  PROVE  PacketInv'
<1>1. CASE Connect \/ ListenFails
  BY <1>1, QuietPacket DEF Connect, ListenFails, Live
<1>2. CASE Handshake
  BY <1>2, HandshakePacket
<1>3. CASE Acknowledged
  BY <1>3, AcknowledgedPacket
<1>4. CASE Receive
  BY <1>4, ReceivePacket DEF TypeInv
<1>5. CASE WriteRow
  BY <1>5, WriteRowPacket DEF TypeInv
<1>6. CASE SendReady
  BY <1>6, SendReadyPacket
<1>7. CASE Answer
  BY <1>7, AnswerPacket
<1>8. CASE SendData
  BY <1>8, SendDataPacket
<1>9. CASE OtherClient
  BY <1>9, OtherClientPacket
<1>10. CASE ClientClosed \/ Terminate
  <2>1. spc' = "exited" /\ UNCHANGED << message, skipped, file, toServer, sent >>
    BY <1>10 DEF ClientClosed, AfterClose, Terminate
  <2> QED
    BY <2>1, QuietPacket DEF Live
<1>11. CASE OtherServer
  <2>1. ~ Live' /\ UNCHANGED serverVars
    BY <1>11 DEF OtherServer, Live, serverVars
  <2> QED
    BY <2>1, SentPacket DEF StreamInv
<1>12. CASE ConnectFails \/ MapFails \/ NoAnswer \/ ClearTag \/ BoardDies \/ Fill \/ UNCHANGED vars
  <2>1. UNCHANGED << spc, message, skipped, file, toServer, sent >>
    BY <1>12 DEF ConnectFails, MapFails, NoAnswer, ClearTag, BoardDies, Fill, vars, serverVars
  <2> QED
    BY <2>1, QuietPacket DEF Live
<1> QED
  BY <1>1, <1>2, <1>3, <1>4, <1>5, <1>6, <1>7, <1>8, <1>9, <1>10, <1>11, <1>12
     DEF Next, ServerStep, ClientStep

(* The rows that are written, one after the other, are what of the message *)
(* they are from.                                                          *)
LEMMA FileFlat ==
  ASSUME ConstantsAssumption, TypeInv, PacketInv, Clean
  PROVE  IsPrefix(FlattenSeq(file), Packet(1))
<1> DEFINE n == Len(file)
           h == n * Chunk
<1>1. FileTypes
  BY FileTyped
<1>2. n \in Nat /\ n <= NumCpus /\ message \in Seq(Items) /\ Quads \in Nat /\ NumCpus \in Nat
  BY <1>1 DEF FileTypes, PacketInv, FileInv
<1>3. Chunk \in Nat
  BY RowsFit, <1>2 DEF ConstantsAssumption
<1>4. h \in Nat /\ h <= Len(message)
  <2>1. CASE n = 0
    BY <1>2, <1>3, <2>1
  <2>2. CASE n > 0
    <3>1. n - 1 \in 0..(NumCpus - 1) /\ (n - 1) + 1 = n
      <4> HIDE DEF n
      <4> QED
        BY <1>2, <2>2
    <3>2. h \in Nat /\ h <= Quads
      <4> HIDE DEF n
      <4> QED
        BY <3>1, RowsFit
    <3>3. Len(message) = Quads
      BY <2>2 DEF PacketInv, FileInv
    <3> QED
      BY <3>2, <3>3
  <2> QED
    BY <1>2, <2>1, <2>2
<1>5. FlattenSeq(file) = SubSeq(message, 1, h)
  <2>1. /\ Len(file) \in Nat
        /\ Len(file) = 0 => file = << >>
        /\ Len(file) * Chunk <= Len(message)
    BY <1>1, <1>4 DEF FileTypes
  <2>2. \A k \in 1..Len(file) : file[k] = SubSeq(message, (k - 1) * Chunk + 1, k * Chunk)
    BY DEF PacketInv, FileInv
  <2> QED
    BY <1>2, <1>3, <2>1, <2>2, FlattenRows
<1> HIDE DEF h
<1>6. /\ Packet(1) \in Seq(Items) /\ Len(Packet(1)) = Quads
      /\ Len(message) <= Quads
      /\ \A i \in 1..Len(message) : message[i] = Packet(1)[i]
  BY <1>1, PacketFacts DEF PacketInv, MessageInv, FileTypes
<1> DEFINE part == SubSeq(message, 1, h)
<1>7. part = SubSeq(Packet(1), 1, h) /\ Len(part) = h /\ part \in Seq(Items)
  BY <1>2, <1>4, <1>6
<1> HIDE DEF part
<1>8. SubSeq(part, 1, Len(part)) = part
  BY <1>7, SubSeqFull
<1>9. Len(part) <= Len(Packet(1))
  BY <1>2, <1>4, <1>6, <1>7
<1> QED
  BY <1>5, <1>7, <1>8, <1>9 DEF IsPrefix, part

(* However many quads, CPUs and receives a message takes, the file begins  *)
(* like the first packet, unless a part of one was taken for the other.    *)
THEOREM FirstPacket == Spec => []FileIsFirstPacket
<1>1. Init => PacketInv
  <2> SUFFICES ASSUME Init PROVE PacketInv
    OBVIOUS
  <2>1. sent = << >> /\ message = << >> /\ toServer = << >> /\ file = << >>
    BY DEF Init
  <2>2. Len(message) = 0 /\ Len(toServer) = 0 /\ Len(file) = 0
    BY <2>1
  <2>3. NumCpus \in Nat
    BY ConstantsAssumption DEF ConstantsAssumption
  <2> QED
    BY <2>1, <2>2, <2>3
       DEF PacketInv, StreamInv, Unsent, AllCommands, MessageInv, FileInv
<1>2. /\ TypeInv /\ RingInv /\ (TypeInv /\ RingInv)' /\ PacketInv /\ [Next]_vars
      => PacketInv'
  BY NextPacket, FileTyped, ConstantsAssumption DEF RingInv
<1>3. TypeInv /\ RingInv /\ PacketInv => FileIsFirstPacket
  BY FileFlat, ConstantsAssumption DEF FileIsFirstPacket, Clean
<1> QED
  BY <1>1, <1>2, <1>3, RingCorrect, PTL DEF Spec
=============================================================================
