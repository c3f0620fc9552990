---------------------------- MODULE AsioExamples ----------------------------
(***************************************************************************)
(* The networked examples of asio, side by side: a behaviour is one of one *)
(* program, the others stand still in their initial states.  The programs  *)
(* share nothing, so that this is the disjoint union of their behaviours:  *)
(* every property is stated of one program, under the fairness of its      *)
(* io_service.                                                             *)
(***************************************************************************)
EXTENDS Integers, Sequences, FiniteSets

CONSTANTS
  Sessions, Deadline, MaxQueue,                            \* TimeoutServer
  Endpoints, ConnectDeadline, ReadDeadline, Heartbeat,     \* TimeoutClient
  BlockingTimeout,                                         \* BlockingClient
  Connections,                                             \* HttpServer
  Ports, FramesPerPort, MaxFrame, MaxInFlight, MaxLost,    \* PortHopper
  Sent, Capacity, Room,                                    \* ThirdParty
  Width, PingTimeout, Pause, MaxLate, MaxReplies,          \* Ping
  Children,                                                \* ForkServer
  EchoDeadline,                                            \* SpawnEcho
  LogFiles, MaxCalls                                       \* Logger

VARIABLES
  program,
  subscribers, session,
  client,
  kind, socket_open, deadline, call, next, operation, elapsed,
  acceptor_open, accept, new_connection_, signal, connections_, open, op,
  hopper_server, hopper_client, hopper_ops, control, connection, frames, lost,
  library, conn, waits, peer,
  sequence_number, num_replies, age, timer, network, counted,
  server, process, sigchld, gone,
  echo_open, timer_, echo, result,
  calls, posted, work_, thread, caller, disk, due

Server == INSTANCE TimeoutServer
Client == INSTANCE TimeoutClient
Blocking == INSTANCE BlockingClient
  WITH open <- socket_open, op <- operation, Timeout <- BlockingTimeout
Http == INSTANCE HttpServer
Hopper == INSTANCE PortHopper
  WITH server <- hopper_server, client <- hopper_client, ops <- hopper_ops, Faults <- {}
FailingHopper == INSTANCE PortHopper
  WITH server <- hopper_server, client <- hopper_client, ops <- hopper_ops,
       Faults <- {"connection", "receive"}
Library == INSTANCE ThirdParty WITH session <- library, ops <- waits
Pinger == INSTANCE Ping WITH Timeout <- PingTimeout
Forker == INSTANCE ForkServer
Spawned == INSTANCE SpawnEcho WITH open <- echo_open, Deadline <- EchoDeadline
Service == INSTANCE Logger

ASSUME ExamplesAssumption ==
  /\ Server!TimeoutAssumption /\ Client!ClientAssumption /\ Blocking!BlockingAssumption
  /\ Http!ConnectionsAssumption /\ FailingHopper!PortHopperAssumption
  /\ Library!ThirdPartyAssumption /\ Pinger!PingAssumption
  /\ Forker!ForkAssumption /\ Spawned!SpawnAssumption /\ Service!LoggerAssumption

Programs ==
  {"timeout_server", "async_client", "blocking_client", "http_server", "porthopper",
   "failing_porthopper", "third_party_lib", "ping", "process_per_connection",
   "spawn_echo", "logger"}

server_vars == <<subscribers, session>>
blocking_vars == <<kind, socket_open, deadline, call, next, operation, elapsed>>
http_vars == <<acceptor_open, accept, new_connection_, signal, connections_, open, op>>
hopper_vars == <<hopper_server, hopper_client, hopper_ops, control, connection, frames, lost>>
library_vars == <<library, conn, waits, peer>>
pinger_vars == <<sequence_number, num_replies, age, timer, network, counted>>
forker_vars == <<server, process, sigchld, gone>>
spawned_vars == <<echo_open, timer_, echo, result>>
service_vars == <<calls, posted, work_, thread, caller, disk, due>>

vars ==
  <<program, server_vars, client, blocking_vars, http_vars, hopper_vars, library_vars,
    pinger_vars, forker_vars, spawned_vars, service_vars>>

Runs(p) == program = p

(* A program that does not run is in one of its initial states. *)
Init ==
  /\ program \in Programs
  /\ Server!Init /\ Client!Init /\ Hopper!Init /\ Library!Init /\ Forker!Init
  /\ Spawned!Init /\ Service!Init
  /\ Blocking!Init /\ (Runs("blocking_client") \/ kind = "tcp")
  /\ Pinger!Init /\ (Runs("ping") \/ network = {})
  /\ Http!Init /\ (Runs("http_server") \/ new_connection_ = CHOOSE c \in Connections : TRUE)

(* The others do nothing. *)
Alone ==
  /\ UNCHANGED program
  /\ Runs("timeout_server") \/ UNCHANGED server_vars
  /\ Runs("async_client") \/ UNCHANGED client
  /\ Runs("blocking_client") \/ UNCHANGED blocking_vars
  /\ Runs("http_server") \/ UNCHANGED http_vars
  /\ Runs("porthopper") \/ Runs("failing_porthopper") \/ UNCHANGED hopper_vars
  /\ Runs("third_party_lib") \/ UNCHANGED library_vars
  /\ Runs("ping") \/ UNCHANGED pinger_vars
  /\ Runs("process_per_connection") \/ UNCHANGED forker_vars
  /\ Runs("spawn_echo") \/ UNCHANGED spawned_vars
  /\ Runs("logger") \/ UNCHANGED service_vars

Next ==
  \/ Runs("timeout_server") /\ Server!Next /\ Alone
  \/ Runs("async_client") /\ Client!Next /\ Alone
  \/ Runs("blocking_client") /\ Blocking!Next /\ Alone
  \/ Runs("http_server") /\ Http!Next /\ Alone
  \/ Runs("porthopper") /\ Hopper!Next /\ Alone
  \/ Runs("failing_porthopper") /\ FailingHopper!Next /\ Alone
  \/ Runs("third_party_lib") /\ Library!Next /\ Alone
  \/ Runs("ping") /\ Pinger!Next /\ Alone
  \/ Runs("process_per_connection") /\ Forker!Next /\ Alone
  \/ Runs("spawn_echo") /\ Spawned!Next /\ Alone
  \/ Runs("logger") /\ Service!Next /\ Alone

Spec == Init /\ [][Next]_vars

(* Fairness.  The io_service of the program that runs executes every       *)
(* handler that is ready, and time goes on.                                *)
TimeoutFairness ==
  LET on == Runs("timeout_server") IN
  /\ \A s \in Sessions :
       /\ WF_server_vars(on /\ Server!HandleRead(s))
       /\ WF_server_vars(on /\ Server!HandleAwaitOutput(s))
       /\ WF_server_vars(on /\ Server!HandleWrite(s))
       /\ \A d \in {"input_deadline", "output_deadline"} :
            WF_server_vars(on /\ Server!CheckDeadline(s, d))
  /\ WF_server_vars(on /\ Server!Tick)

ClientFairness ==
  LET on == Runs("async_client") IN
  /\ WF_client(on /\ Client!HandleConnect) /\ WF_client(on /\ Client!HandleRead)
  /\ WF_client(on /\ Client!HandleHeartbeat) /\ WF_client(on /\ Client!HandleWrite)
  /\ WF_client(on /\ Client!CheckDeadline) /\ WF_client(on /\ Client!Tick)

BlockingFairness ==
  LET on == Runs("blocking_client") IN
  /\ WF_blocking_vars(on /\ Blocking!Return)
  /\ WF_blocking_vars(on /\ Blocking!CheckDeadline)
  /\ WF_blocking_vars(on /\ Blocking!Tick)

HttpFairness ==
  LET on == Runs("http_server") IN
  /\ WF_http_vars(on /\ Http!HandleAccept) /\ WF_http_vars(on /\ Http!HandleStop)
  /\ \A c \in Connections : WF_http_vars(on /\ (Http!HandleRead(c) \/ Http!HandleWrite(c)))

(* Timers fire, TCP delivers, and a frame that is not lost arrives.        *)
HopperFairness ==
  LET on == Runs("porthopper") IN
  /\ WF_hopper_vars(on /\ Hopper!HandleAccept) /\ WF_hopper_vars(on /\ Hopper!HandleControlRequest)
  /\ WF_hopper_vars(on /\ Hopper!HandleControlRequestTimer)
  /\ WF_hopper_vars(on /\ Hopper!HandleTimer) /\ WF_hopper_vars(on /\ Hopper!WriteCompletes)
  /\ WF_hopper_vars(on /\ \E number \in 1..MaxFrame : Hopper!NewReceives(number))
  /\ WF_hopper_vars(on /\ Hopper!HandleWrite) /\ WF_hopper_vars(on /\ Hopper!HandleNew)
  /\ WF_hopper_vars(on /\ Hopper!HandleOld) /\ WF_hopper_vars(on /\ Hopper!RunReturns)

PingFairness ==
  LET on == Runs("ping") IN
  /\ WF_pinger_vars(on /\ Pinger!StartSend)
  /\ WF_pinger_vars(on /\ Pinger!HandleTimeout)
  /\ WF_pinger_vars(on /\ Pinger!Tick)

(* A socket that is ready is reported; the peer sends all it has to send,  *)
(* reads and does not go away in the middle.                               *)
LibraryFairness ==
  LET on == Runs("third_party_lib") IN
  /\ WF_library_vars(on /\ Library!Start)
  /\ WF_library_vars(on /\ Library!HandleRead) /\ WF_library_vars(on /\ Library!HandleWrite)
  /\ WF_library_vars(on /\ Library!Readable /\ Library!Ready("read"))
  /\ WF_library_vars(on /\ Library!Writable /\ Library!Ready("write"))
  /\ WF_library_vars(on /\ Library!Send) /\ WF_library_vars(on /\ Library!PeerReceives)
  /\ WF_library_vars(on /\ Library!PeerCloses)

(* A peer does not keep its connection for ever.                           *)
ForkFairness ==
  LET on == Runs("process_per_connection") IN
  /\ WF_forker_vars(on /\ Forker!Signalled)
  /\ WF_forker_vars(on /\ Forker!HandleSignalWait("parent"))
  /\ \A c \in Children :
       /\ WF_forker_vars(on /\ Forker!HandleSignalWait(c))
       /\ WF_forker_vars(on /\ Forker!Exit(c)) /\ WF_forker_vars(on /\ Forker!PeerGoes(c))
       /\ WF_forker_vars(on /\ \E o \in {"read", "write"} :
                               Forker!Complete(c, o) \/ Forker!Echo(c, o))

SpawnFairness ==
  LET on == Runs("spawn_echo") IN
  /\ WF_spawned_vars(on /\ Spawned!EchoOk) /\ WF_spawned_vars(on /\ Spawned!EchoFails)
  /\ WF_spawned_vars(on /\ Spawned!Timeout) /\ WF_spawned_vars(on /\ Spawned!Tick)

LoggerFairness ==
  LET on == Runs("logger") IN
  /\ WF_service_vars(on /\ Service!RunOne) /\ WF_service_vars(on /\ Service!RunReturns)
  /\ WF_service_vars(on /\ Service!Join)

FairSpec ==
  /\ Spec
  /\ TimeoutFairness /\ ClientFairness /\ BlockingFairness /\ HttpFairness
  /\ HopperFairness /\ PingFairness /\ LibraryFairness /\ ForkFairness
  /\ SpawnFairness /\ LoggerFairness
------------------------------------------------------------------------------
TypeOK ==
  /\ program \in Programs
  /\ Server!TypeOK /\ Client!TypeOK /\ Blocking!TypeOK /\ Http!TypeOK /\ Hopper!TypeOK
  /\ Library!TypeOK /\ Pinger!TypeOK /\ Spawned!TypeOK

(* The actors of an open session of timeouts/server.cpp, and those of the  *)
(* client that runs, live, each in one place: one operation or one wait;   *)
(* and the output actor, which uses a timer as a condition variable, never *)
(* sleeps while its queue has a message.  So do the two coroutines of      *)
(* spawn/echo_server.cpp.                                                  *)
Actors ==
  /\ Server!Actors /\ Server!NoLostWakeup /\ (Runs("async_client") => Client!Actors)
  /\ Spawned!Coroutines

(* What a function returns is settled: no function of the blocking clients *)
(* returns before the operation is over whose handler writes to its local  *)
(* variables, the porthopper client leaves the loop that renegotiates the  *)
(* ports, by its end or by an exception, with nothing outstanding, and     *)
(* connect of blocking_tcp_client.cpp succeeds only with an open socket,   *)
(* although its handler and the deadline actor may be ready together.      *)
Settled ==
  Blocking!NoDanglingHandler /\ Hopper!NothingLeftBehind /\ Blocking!ConnectedIsOpen

(* The HTTP server can be stopped at any time: while it runs it accepts,   *)
(* every open connection is in the connection_manager with an operation    *)
(* whose handler will stop it, and an operation that may last belongs to a *)
(* connection that stop_all reaches.                                       *)
Attended == Http!KeepsAccepting /\ Http!Managed /\ Http!Tended

(* The porthopper server sends frames to one port of the client, never to  *)
(* one the living client has closed, and while the ports change the client *)
(* listens to the old one, as long as no receive fails.                    *)
Handover == Hopper!Handover /\ (Runs("porthopper") => Hopper!StillListening)

(* Partial reads, partial writes and false alarms of third_party_lib.cpp   *)
(* lose and repeat nothing, and the thread of logger_service.hpp leaves in *)
(* the files what a logger without a thread would have written, all of it  *)
(* when the destructor returns.                                            *)
InOrder == Library!EchoesInOrder /\ Service!AsCalled

(* "Requests must be sent no less than one second apart" (ping.cpp:75),    *)
(* whatever replies are late, duplicated or stale, and what is counted, and*)
(* printed with the time since time_sent_, is the reply to the last one.   *)
Pings == [][Pinger!Apart /\ Pinger!OwnReply']_vars

(* Parent and child of process_per_connection.cpp run the same handlers    *)
(* and never do each other's work; while there is a zombie, a SIGCHLD is   *)
(* pending or the parent's handler is about to reap.                       *)
Roles == Forker!Roles /\ Forker!NotOverlooked

(* An operation of the clients of timeouts, or of a session of             *)
(* spawn/echo_server.cpp, is cancelled only by its own deadline: a wait    *)
(* that expired, or was cancelled, before the deadline was moved does no   *)
(* harm.                                                                   *)
OwnDeadline == [][Client!InTime /\ Blocking!OwnDeadline' /\ Spawned!InTime]_vars

(* Whatever the peer does, waiting for it ends: a read and an output queue *)
(* of timeouts/server.cpp, a connect and a read of async_tcp_client.cpp, a *)
(* call of the blocking clients, the wait of ping.cpp for a reply, and an  *)
(* operation of spawn/echo_server.cpp.                                     *)
WaitsEnd ==
  /\ Runs("timeout_server") => Server!Drains /\ Server!ReadsEnd
  /\ Runs("async_client") => Client!Settles /\ Client!Late
  /\ Runs("blocking_client") => Blocking!Returns
  /\ Runs("ping") => Pinger!KeepsPinging
  /\ Runs("spawn_echo") => Spawned!Cut

(* What has stopped comes to an end, no operation keeps it alive: a session*)
(* of timeouts/server.cpp, async_tcp_client.cpp, the HTTP server after its *)
(* signal, the connection of third_party_lib.cpp, a session of             *)
(* spawn/echo_server.cpp, the destructor of logger_service.hpp; and every  *)
(* child of process_per_connection.cpp ends and is reaped, "so that we     *)
(* don't end up with zombies" (process_per_connection.cpp:51).             *)
Finishes ==
  /\ Runs("timeout_server") => Server!Finishes
  /\ Runs("async_client") => Client!Finishes
  /\ Runs("http_server") => Http!Shutdown
  /\ Runs("third_party_lib") => Library!Dies
  /\ Runs("process_per_connection") => Forker!AllReaped
  /\ Runs("spawn_echo") => Spawned!Ends
  /\ Runs("logger") => Service!Joined

(* What was begun gets done: every renegotiation of the porthopper ends,   *)
(* whatever is overtaken, duplicated or lost, while nothing fails, and     *)
(* unless the peer of third_party_lib.cpp resets the connection everything *)
(* it sends comes back.                                                    *)
Completes ==
  /\ Runs("porthopper") => Hopper!Completes
  /\ Runs("third_party_lib") => Library!AllComesBack
==============================================================================
