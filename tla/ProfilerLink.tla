---------------------------- MODULE ProfilerLink ----------------------------
(***************************************************************************)
(* The Ethernet link of the profiler (setup_generator/profiler_logger):    *)
(* server.c on the host, client.c in the profiler guest, and the handshake *)
(* of both (profiling_tcp.c).  The server answers the client's ready,      *)
(* receives one message and writes it to a file, one row for each CPU.     *)
(* The client sends, packet by packet, the store buffers that the profiler *)
(* in the hypervisor fills.                                                *)
(*                                                                         *)
(* Either end may be another program: the guest's client is chosen when    *)
(* its image is built.  Such a peer sends what the protocol knows when it  *)
(* likes, and closes when it likes.  A receive gets any part of what is    *)
(* under way, and nothing when it times out or the other end has closed.   *)
(* Commands arrive whole.  Data are counted in quads of 16 bytes, the unit *)
(* in which server.c divides a message among the CPUs, and numbered as     *)
(* they were sent; a command that is taken for data counts as one quad.    *)
(* An operator marked Fault is a slip the checks must notice: it stands    *)
(* next to the operator it may replace, and no action uses it.             *)
(***************************************************************************)
EXTENDS Integers, Sequences, SequencesExt

CONSTANTS
  Clients,       (* The programs that may be at the guest's end,           *)
  Servers,       (* and at the host's.                                     *)
  Retries,       (* retry of tcp_server_profile_handshake                  *)
  Attempts,      (* MAX_RETRIES                                            *)
  Quads,         (* message_size and tx_packet_size, in quads.             *)
  NumCpus,       (* num_cpus                                               *)
  Buffers,       (* num_store_buffers                                      *)
  MaxSamples,    (* Bound on the samples that are taken.                   *)
  MaxInFlight    (* Bound on what another program leaves under way.        *)

ASSUME ConstantsAssumption ==
  /\ Clients \subseteq {"client.c", "other"}
  /\ Servers \subseteq {"server.c", "other"}
  /\ Retries \in Nat \ {0}
  /\ Attempts \in Nat \ {0}
  /\ Quads \in Nat \ {0}
  /\ NumCpus \in Nat \ {0}
  /\ Buffers \in Nat \ {0}
  /\ MaxSamples \in Nat
  /\ MaxInFlight \in Nat

Ring == 0..(Buffers - 1)
ClientCommands == {"ready", "start", "stop", "ack"}
ServerCommands == {"set_events", "set_sampling_period", "run"}
Items == [kind : ClientCommands \union {"data"}, n : Int]
Command(k) == [kind |-> k, n |-> 0]
Packet(s)  == [j \in 1..Quads |-> [kind |-> "data", n |-> (s - 1) * Quads + j]]

VARIABLES
  client, server,       (* The programs at the two ends.                   *)
  spc, retry,           (* Where server.c is; retry of its handshake.      *)
  message,              (* The part of its buffer that is filled.          *)
  file,                 (* The rows it has written.                        *)
  cpc, step, attempt,   (* Where client.c is, and in which receive.        *)
  toServer, toClient,   (* What is under way.                              *)
  ready, held,          (* The tags that are set; what the buffers hold.   *)
  index, fill,          (* current_index; where the profiler writes next.  *)
  sampled,              (* How many samples the profiler has taken.        *)
  sent,                 (* History: the samples the client has sent.       *)
  acked,                (* History: a client has sent ack.                 *)
  heard,                (* History: server.c has heard ready.              *)
  skipped,              (* History: it has read quads in the handshake.    *)
  lost                  (* History: samples that were ready and not sent.  *)

programs   == << client, server >>
serverVars == << spc, retry, message, file, heard, skipped >>
clientVars == << cpc, step, attempt, acked >>
ringVars   == << ready, held, index, fill, sampled, lost >>
vars == << programs, serverVars, clientVars, toServer, toClient, ringVars, sent >>

ServerEnded == spc \in {"exited", "crashed"}

Init ==
  /\ client \in Clients
  /\ server \in Servers
  /\ client = "client.c" \/ server = "server.c"
  /\ spc = "listen"
  /\ retry = Retries
  /\ message = << >>
  /\ file = << >>
  /\ cpc = "off"
  /\ step = 1
  /\ attempt = 1
  /\ toServer = << >>
  /\ toClient = << >>
  /\ ready = {}
  /\ held = [b \in Ring |-> 0]
  /\ index = 0
  /\ fill = 0
  /\ sampled = 0
  /\ sent = << >>
  /\ acked = FALSE
  /\ heard = FALSE
  /\ skipped = FALSE
  /\ lost = {}

(* tcp_client_create_and_connect, tcp_server_create_and_connect.           *)
Connect ==
  /\ cpc = "off"
  /\ spc = "listen"
  /\ cpc' = IF client = "client.c" THEN "map" ELSE "talk"
  /\ spc' = IF server = "server.c" THEN "ready" ELSE "talk"
  /\ UNCHANGED << programs, retry, message, file, heard, skipped, step, attempt,
                  acked, toServer, toClient, ringVars, sent >>

(* A server whose socket cannot be opened goes on to its handshake all the *)
(* same, with nobody at the other end.                                     *)
ListenFails ==
  /\ server = "server.c"
  /\ spc = "listen"
  /\ spc' = "ready"
  /\ UNCHANGED << programs, retry, message, file, heard, skipped, clientVars,
                  toServer, toClient, ringVars, sent >>

ConnectFails ==
  /\ client = "client.c"
  /\ cpc = "off"
  /\ cpc' = "exited"
  /\ UNCHANGED << programs, serverVars, step, attempt, acked, toServer,
                  toClient, ringVars, sent >>

-----------------------------------------------------------------------------
(* server.c                                                                *)

(* recv_command: the first command in what has arrived; the rest is gone.  *)
Commands(p) == {i \in DOMAIN p : p[i].kind # "data"}
FirstCommand(p) ==
  IF Commands(p) = {} THEN "none"
  ELSE p[CHOOSE i \in Commands(p) : \A j \in Commands(p) : i <= j].kind
HasQuads(p) == Commands(p) # DOMAIN p

Arrived(n) == SubSeq(toServer, 1, n)
Left(n)    == SubSeq(toServer, n + 1, Len(toServer))

OneTryMore == retry = 0                  (* Fault: off by one.             *)
LastTry    == retry = 1

(* tcp_server_profile_handshake.  The second word of no command is a null  *)
(* pointer, which parse_recv_client_command hands to strstr.               *)
Handshake ==
  /\ spc = "ready"
  /\ \E n \in 0..Len(toServer) :
       LET cmd == FirstCommand(Arrived(n)) IN
       /\ toServer' = Left(n)
       /\ skipped' = (skipped \/ HasQuads(Arrived(n)))
       /\ \/ cmd = "none" /\ spc' = "crashed" /\ UNCHANGED << retry, toClient, heard >>
          \/ /\ cmd = "ready"
             /\ spc' = "ack"
             /\ toClient' = Append(toClient, "run")
             /\ heard' = TRUE
             /\ UNCHANGED retry
          \/ /\ cmd \notin {"none", "ready"}
             /\ spc' = IF LastTry THEN "exited" ELSE "ready"
             /\ retry' = retry - 1
             /\ UNCHANGED << toClient, heard >>
  /\ UNCHANGED << programs, message, file, clientVars, ringVars, sent >>

Parsed(p)  ==                            (* Fault: the answer is parsed.   *)
  IF FirstCommand(p) = "none" THEN {"crashed"} ELSE {"data"}
Ignored(p) == {"data", "exited"}

(* Whatever comes now, or does not come, is taken for the client's ack;    *)
(* the file is opened, or cannot be.                                       *)
Acknowledged ==
  /\ spc = "ack"
  /\ \E n \in 0..Len(toServer) :
       /\ toServer' = Left(n)
       /\ skipped' = (skipped \/ HasQuads(Arrived(n)))
       /\ spc' \in Ignored(Arrived(n))
  /\ UNCHANGED << programs, retry, message, file, heard, clientVars, toClient,
                  ringVars, sent >>

AtFront(p) == p \o message               (* Fault: it goes to the front.   *)
Filled(p)  == message \o p

(* A receive that times out is repeated.                                   *)
Receive ==
  /\ spc = "data"
  /\ \E n \in 1..(Quads - Len(message)) :
       /\ n <= Len(toServer)
       /\ message' = Filled(Arrived(n))
       /\ toServer' = Left(n)
  /\ spc' = IF Len(message') = Quads THEN "write" ELSE "data"
  /\ UNCHANGED << programs, retry, file, heard, skipped, clientVars, toClient,
                  ringVars, sent >>

AfterTimeout == "data"                   (* Fault: closed is a timeout.    *)
AfterClose   == "exited"

ClientClosed ==
  /\ spc = "data"
  /\ cpc = "exited"
  /\ toServer = << >>
  /\ spc' = AfterClose
  /\ UNCHANGED << programs, retry, message, file, heard, skipped, clientVars,
                  toServer, toClient, ringVars, sent >>

(* Each CPU has as many quads as go into the message for all of them.      *)
Chunk    == Quads \div NumCpus
Row(cpu) == SubSeq(message, cpu * Chunk + 1, (cpu + 1) * Chunk)

WriteRow ==
  /\ spc = "write"
  /\ file' = Append(file, Row(Len(file)))
  /\ spc' = IF Len(file') = NumCpus THEN "exited" ELSE "write"
  /\ UNCHANGED << programs, retry, message, heard, skipped, clientVars,
                  toServer, toClient, ringVars, sent >>

ServerStep == Handshake \/ Acknowledged \/ Receive \/ ClientClosed \/ WriteRow

(* main() terminates the server when the test has ended; an exit flushes.  *)
Terminate ==
  /\ ~ ServerEnded
  /\ spc' = "exited"
  /\ UNCHANGED << programs, retry, message, file, heard, skipped, clientVars,
                  toServer, toClient, ringVars, sent >>

-----------------------------------------------------------------------------
(* client.c                                                                *)

(* What is sent to a server that has gone is lost, and may kill the client *)
(* by SIGPIPE.                                                             *)
Send(items, next) ==
  IF ServerEnded
  THEN cpc' \in {next, "exited"} /\ UNCHANGED toServer
  ELSE cpc' = next /\ toServer' = toServer \o items

MapFails ==
  /\ cpc = "map"
  /\ cpc' = "exited"
  /\ UNCHANGED << programs, serverVars, step, attempt, acked, toServer,
                  toClient, ringVars, sent >>

SendReady ==
  /\ cpc = "map"
  /\ Send(<< Command("ready") >>, "wait")
  /\ UNCHANGED << programs, serverVars, step, attempt, acked, toClient,
                  ringVars, sent >>

(* tcp_client_profile_handshake: the commands it insists on, in turn.      *)
Expected == << "set_events", "set_sampling_period", "run" >>

(* recv_command_with_retries, and the acknowledgement.  Only the first     *)
(* command of what has arrived is looked at.                               *)
Answer ==
  /\ cpc = "wait"
  /\ \E n \in 1..Len(toClient) : toClient' = SubSeq(toClient, n + 1, Len(toClient))
  /\ IF toClient[1] = Expected[step]
     THEN /\ Send(<< Command("ack") >>, IF step = 3 THEN "poll" ELSE "wait")
          /\ step' = IF step = 3 THEN 3 ELSE step + 1
          /\ attempt' = 1
          /\ acked' = TRUE
     ELSE cpc' = "exited" /\ UNCHANGED << step, attempt, acked, toServer >>
  /\ UNCHANGED << programs, serverVars, ringVars, sent >>

SameAttempt == attempt                   (* Fault: not counted.            *)
NextAttempt == attempt + 1

(* After a timeout it tries again; when the server has closed that depends *)
(* on what errno was before.                                               *)
NoAnswer ==
  /\ cpc = "wait"
  /\ \/ /\ attempt < Attempts
        /\ attempt' = NextAttempt
        /\ UNCHANGED cpc
     \/ /\ attempt = Attempts \/ (ServerEnded /\ toClient = << >>)
        /\ cpc' = "exited"
        /\ UNCHANGED attempt
  /\ UNCHANGED << programs, serverVars, step, acked, toServer, toClient,
                  ringVars, sent >>

After(b) == IF b + 1 >= Buffers THEN 0 ELSE b + 1

Skipped   == After(After(index))         (* Fault: advanced twice.         *)
NextIndex == After(index)

(* is_store_buffer_ready, logger_send_data.                                *)
SendData ==
  /\ cpc = "poll"
  /\ index \in ready
  /\ Send(Packet(held[index]), "clear")
  /\ sent' = Append(sent, held[index])
  /\ index' = NextIndex
  /\ UNCHANGED << programs, serverVars, step, attempt, acked, toClient, ready,
                  held, fill, sampled, lost >>

NothingCleared == {}                     (* Fault: the tag stays.          *)
Cleared        == {index}

(* set_store_buffer_not_ready: of the buffer that comes next.              *)
ClearTag ==
  /\ cpc = "clear"
  /\ ready' = ready \ Cleared
  /\ lost' = lost \union ({held[b] : b \in ready \intersect Cleared} \ Range(sent))
  /\ cpc' = "poll"
  /\ UNCHANGED << programs, serverVars, step, attempt, acked, toServer,
                  toClient, held, index, fill, sampled, sent >>

ClientStep == MapFails \/ SendReady \/ Answer \/ NoAnswer \/ SendData \/ ClearTag

(* The board is switched off or hangs: nobody closes the connection.       *)
BoardDies ==
  /\ cpc \notin {"gone", "exited"}
  /\ cpc' = "gone"
  /\ UNCHANGED << programs, serverVars, step, attempt, acked, toServer,
                  toClient, ringVars, sent >>

-----------------------------------------------------------------------------
(* External: the profiler, started by the client, which fills the buffers  *)
(* in turn and waits for a tag to be cleared; the other programs.          *)

Fill ==
  /\ cpc \in {"poll", "clear"}
  /\ sampled < MaxSamples
  /\ fill \notin ready
  /\ held' = [held EXCEPT ![fill] = sampled + 1]
  /\ ready' = ready \union {fill}
  /\ fill' = After(fill)
  /\ sampled' = sampled + 1
  /\ UNCHANGED << programs, serverVars, clientVars, toServer, toClient, index,
                  lost, sent >>

OtherClient ==
  /\ cpc = "talk"
  /\ \/ /\ ~ ServerEnded
        /\ Len(toServer) < MaxInFlight
        /\ \/ /\ \E k \in ClientCommands :
                   /\ toServer' = Append(toServer, Command(k))
                   /\ acked' = (acked \/ k = "ack")
              /\ UNCHANGED sent
           \/ /\ Len(sent) < MaxSamples
              /\ sent' = Append(sent, Len(sent) + 1)
              /\ toServer' = toServer \o Packet(Len(sent) + 1)
              /\ UNCHANGED acked
        /\ UNCHANGED cpc
     \/ cpc' = "exited" /\ UNCHANGED << toServer, acked, sent >>
  /\ UNCHANGED << programs, serverVars, step, attempt, toClient, ringVars >>

OtherServer ==
  /\ spc = "talk"
  /\ \/ /\ Len(toClient) < MaxInFlight
        /\ \E k \in ServerCommands : toClient' = Append(toClient, k)
        /\ UNCHANGED toServer
     \/ toServer' = << >> /\ UNCHANGED toClient
  /\ UNCHANGED << programs, serverVars, clientVars, ringVars, sent >>

Next ==
  \/ Connect \/ ListenFails \/ ConnectFails
  \/ ServerStep \/ Terminate \/ ClientStep \/ BoardDies
  \/ Fill \/ OtherClient \/ OtherServer

(* Both programs run, and their receives return, if only by a timeout.     *)
Fairness == WF_vars(ServerStep) /\ WF_vars(ClientStep)

Spec == Init /\ [][Next]_vars /\ Fairness

-----------------------------------------------------------------------------
TypeOK ==
  /\ client \in Clients
  /\ server \in Servers
  /\ spc \in {"listen", "ready", "ack", "data", "write", "talk", "exited", "crashed"}
  /\ retry \in 0..Retries
  /\ message \in Seq(Items)
  /\ file \in Seq(Seq(Items))
  /\ cpc \in {"off", "map", "wait", "poll", "clear", "talk", "exited", "gone"}
  /\ step \in 1..3
  /\ attempt \in 1..Attempts
  /\ toServer \in Seq(Items)
  /\ toClient \in Seq(ServerCommands)
  /\ ready \in SUBSET Ring
  /\ held \in [Ring -> Nat]
  /\ index \in Ring
  /\ fill \in Ring
  /\ sampled \in Nat
  /\ sent \in Seq(Nat)
  /\ acked \in BOOLEAN
  /\ heard \in BOOLEAN
  /\ skipped \in BOOLEAN
  /\ lost \in SUBSET Nat

(* "10. the client must send a profiler_ack signal": the handshake of the  *)
(* server does not succeed with a client that has given up before that.    *)
BothReady == spc \in {"data", "write"} /\ cpc = "exited" => acked

(* Once server.c has heard ready, no timeout and no close of the client    *)
(* can bring it down: the answer it then waits for is not parsed.          *)
CrashesUnheardOnly == spc = "crashed" => ~ heard

(* What the file holds is the beginning of the first packet, in order and  *)
(* without a gap, unless a part of it was read as the acknowledgement, or  *)
(* an acknowledgement that was late was read as data.                      *)
FileIsFirstPacket ==
  ~ skipped /\ Commands(message) = {} =>
    IsPrefix(FlattenSeq(file), Packet(1))

(* client.c sends the samples in the order in which they were taken, none  *)
(* twice and none left out, although the tag it clears is not the one of   *)
(* the buffer it has sent.                                                 *)
SamplesInOrder == \A i \in 1..Len(sent) : sent[i] = i

(* The client and the profiler never both wait for the other, unless the   *)
(* client has cleared the tag of a sample it had not sent.                 *)
RingTurnsUnlessLost ==
  cpc = "poll" => index \in ready \/ fill \notin ready \/ lost # {}

(* When the client has closed, server.c comes to an end by itself, but for *)
(* the wait for a client to connect, which main() alone can end.           *)
ServerEndsAfterClient ==
  (server = "server.c" /\ spc # "listen" /\ cpc = "exited") ~> ServerEnded

(* The client's handshake ends, whatever the server sends.                 *)
ClientDecides == (cpc = "wait") ~> (cpc # "wait")
=============================================================================
