---------------------------- MODULE HopperProofs ----------------------------
(***************************************************************************)
(* The port hopper, proved for every set of ports and every number of      *)
(* frames, also when the control connection breaks or a receive fails: at  *)
(* most one request is under way, it replaces the subscription there is,   *)
(* and the client and the server agree on which port that is.  With the    *)
(* port hopper the invariants of all the examples are there, and at the    *)
(* end they give the types of all their variables.                         *)
(***************************************************************************)
EXTENDS TimeoutProofs, AsioProofs, FiniteSetTheorems

(* The port hopper that does not fail takes steps of the one that may. *)
Undisturbed ==
  \/ FailingHopper!Server \/ FailingHopper!Handlers
  \/ FailingHopper!Lose \/ FailingHopper!WriteCompletes
  \/ \E port \in Ports : FailingHopper!StartClient(port) \/ FailingHopper!Renegotiate(port)
  \/ \E number \in FailingHopper!Numbers :
       \/ FailingHopper!Receive(number) \/ FailingHopper!NewReceives(number)
       \/ FailingHopper!OldReceives(number)

LEMMA HopperMayFail == ASSUME Hopper!Next PROVE Undisturbed
<1>1. ASSUME Hopper!Server PROVE FailingHopper!Server
  <2>1. /\ Hopper!HandleAccept => FailingHopper!HandleAccept
        /\ Hopper!HandleControlRequest => FailingHopper!HandleControlRequest
        /\ Hopper!HandleControlRequestError => FailingHopper!HandleControlRequestError
    BY DEF Hopper!HandleAccept, FailingHopper!HandleAccept,
      Hopper!HandleControlRequest, FailingHopper!HandleControlRequest,
      Hopper!HandleControlRequestError, FailingHopper!HandleControlRequestError
  <2>2. Hopper!HandleControlRequestTimer => FailingHopper!HandleControlRequestTimer
    BY Zenon DEF Hopper!HandleControlRequestTimer, FailingHopper!HandleControlRequestTimer,
      Hopper!Applied, FailingHopper!Applied, Hopper!NoPort, FailingHopper!NoPort,
      Hopper!NoRequest, FailingHopper!NoRequest
  <2>3. Hopper!HandleTimer => FailingHopper!HandleTimer
    <3>1. Hopper!Open = FailingHopper!Open
      BY DEF Hopper!Open, FailingHopper!Open, Hopper!NoPort, FailingHopper!NoPort
    <3>2. \A p : Hopper!InFlight(p) = FailingHopper!InFlight(p)
      BY Zenon DEF Hopper!InFlight, FailingHopper!InFlight,
        Hopper!Cardinality, FailingHopper!Cardinality
    <3> QED
      BY <3>1, <3>2 DEF Hopper!HandleTimer, FailingHopper!HandleTimer
  <2> QED
    BY <1>1, <2>1, <2>2, <2>3 DEF Hopper!Server, FailingHopper!Server
<1>2. ASSUME Hopper!Handlers PROVE FailingHopper!Handlers
  BY <1>2 DEF Hopper!Handlers, FailingHopper!Handlers,
    Hopper!HandleWrite, FailingHopper!HandleWrite, Hopper!HandleNew, FailingHopper!HandleNew,
    Hopper!HandleOld, FailingHopper!HandleOld, Hopper!RunReturns, FailingHopper!RunReturns,
    Hopper!AfterRun, FailingHopper!AfterRun, Hopper!Round, FailingHopper!Round,
    Hopper!Printed, FailingHopper!Printed, Hopper!OldReceive, FailingHopper!OldReceive,
    Hopper!Thrown, FailingHopper!Thrown, Hopper!Renegotiating, FailingHopper!Renegotiating,
    Hopper!Idle, FailingHopper!Idle, Hopper!Pending, FailingHopper!Pending,
    Hopper!Failed, FailingHopper!Failed, Hopper!Outstanding, FailingHopper!Outstanding,
    Hopper!NoPort, FailingHopper!NoPort
<1>3. ASSUME Hopper!Lose \/ Hopper!WriteCompletes
      PROVE  FailingHopper!Lose \/ FailingHopper!WriteCompletes
  BY <1>3 DEF Hopper!Lose, FailingHopper!Lose,
    Hopper!WriteCompletes, FailingHopper!WriteCompletes, Hopper!Change, FailingHopper!Change,
    Hopper!Ok, FailingHopper!Ok, Hopper!Failed, FailingHopper!Failed
<1>4. ASSUME NEW port \in Ports, Hopper!StartClient(port) \/ Hopper!Renegotiate(port)
      PROVE  FailingHopper!StartClient(port) \/ FailingHopper!Renegotiate(port)
  BY <1>4 DEF Hopper!StartClient, FailingHopper!StartClient, Hopper!Start, FailingHopper!Start,
    Hopper!Renegotiate, FailingHopper!Renegotiate, Hopper!Round, FailingHopper!Round,
    Hopper!OldReceive, FailingHopper!OldReceive, Hopper!Idle, FailingHopper!Idle,
    Hopper!Pending, FailingHopper!Pending, Hopper!NoPort, FailingHopper!NoPort,
    Hopper!Open, FailingHopper!Open
<1>5. ASSUME NEW number \in Hopper!Numbers,
             Hopper!Receive(number) \/ Hopper!NewReceives(number) \/ Hopper!OldReceives(number)
      PROVE  \/ FailingHopper!Receive(number) \/ FailingHopper!NewReceives(number)
             \/ FailingHopper!OldReceives(number)
  BY <1>5 DEF Hopper!Receive, FailingHopper!Receive, Hopper!NewReceives, FailingHopper!NewReceives,
    Hopper!OldReceives, FailingHopper!OldReceives, Hopper!Arrives, FailingHopper!Arrives,
    Hopper!Printed, FailingHopper!Printed, Hopper!Ok, FailingHopper!Ok
<1>6. ~Hopper!Break /\ ~Hopper!ReceiveFails /\ \A which : ~Hopper!AsyncReceiveFails(which)
  BY DEF Hopper!Break, Hopper!ReceiveFails, Hopper!AsyncReceiveFails
<1>7. Hopper!Numbers = FailingHopper!Numbers
  BY DEF Hopper!Numbers, FailingHopper!Numbers
<1> QED
  BY <1>1, <1>2, <1>3, <1>4, <1>5, <1>6, <1>7 DEF Hopper!Next, Undisturbed

LEMMA HopperSteps ==
  ASSUME [Next]_vars
  PROVE  /\ [FailingHopper!Next]_hopper_vars /\ UNCHANGED program
         /\ Runs("porthopper") => [Undisturbed]_hopper_vars
BY HopperMayFail DEF vars, Next, Alone, Runs, Undisturbed, FailingHopper!Next

-----------------------------------------------------------------------------
(* What the members of the server and the locals of the client may hold.   *)
NoPort == 0
Numbers == 1..MaxFrame
PortOrNone == Ports \cup {NoPort}
Requests == [old_port : PortOrNone, new_port : PortOrNone]
Operations == [state : {"none", "pending", "ok", "error"}, number : 0..MaxFrame]

HopperServers ==
  [subscribers : SUBSET Ports, next_frame_number : Numbers,
   at : {"accepting", "reading", "delaying", "over"}, request : Requests]

HopperClients ==
  [at : {"start", "receiving", "renegotiating", "thrown"},
   data_socket : PortOrNone, new_data_socket : PortOrNone, data_endpoint : PortOrNone,
   received : 0..FramesPerPort, last_frame_number : 0..MaxFrame,
   control_result : {"ok", "error"}, new_data_socket_result : {"ok", "error"},
   f1 : 0..MaxFrame, f2 : 0..MaxFrame, done : BOOLEAN]

HopperTypes ==
  /\ hopper_server \in HopperServers
  /\ hopper_client \in HopperClients
  /\ hopper_ops \in [write : Operations, new : Operations, old : Operations]
  /\ control \in Seq(Requests)
  /\ frames \subseteq Ports \X Numbers

(* The requests the server has not handled: none, or this one alone. *)
NoneLeft == control = <<>> /\ hopper_server.at # "delaying"
Only(request) ==
  \/ /\ hopper_server.at = "delaying" /\ hopper_server.request = request
     /\ control = <<>>
  \/ hopper_server.at # "delaying" /\ control = <<request>>

Subscribed(port) == hopper_server.subscribers = {port}
SentTo(port) == \E frame \in frames : frame[1] = port

(* Whatever becomes of the client, the request that is left takes the      *)
(* place of the subscription there is.                                     *)
Replaces ==
  \/ NoneLeft /\ \E port \in PortOrNone : hopper_server.subscribers \subseteq {port}
  \/ \E request \in Requests :
       Only(request) /\ hopper_server.subscribers \subseteq {request.old_port}

Starting ==
  /\ NoneLeft /\ hopper_server.subscribers = {} /\ frames = {}
  /\ hopper_client.data_socket = NoPort /\ hopper_client.new_data_socket = NoPort
  /\ hopper_client.received = 0

(* The client that reads is subscribed once a frame has reached it. *)
Receiving ==
  LET port == hopper_client.data_socket IN
  /\ port \in Ports /\ hopper_client.data_endpoint = port
  /\ hopper_client.new_data_socket = NoPort
  /\ \/ NoneLeft /\ hopper_server.subscribers \subseteq {port}
     \/ Only(FailingHopper!Start(port)) /\ hopper_server.subscribers = {}
  /\ hopper_client.received > 0 \/ SentTo(port) => NoneLeft /\ Subscribed(port)

(* While the ports change, the server sends either to the new port, and    *)
(* has no request left, or to the old one, which is then still open and    *)
(* the only one a frame can have reached.                                  *)
Moved ==
  NoneLeft /\ Subscribed(hopper_client.new_data_socket) /\ hopper_ops.write.state # "pending"

NotMoved ==
  LET old == hopper_client.data_endpoint
      new == hopper_client.new_data_socket IN
  /\ Subscribed(old) /\ hopper_client.data_socket = old
  /\ hopper_ops.new.state # "ok" /\ ~SentTo(new)
  /\ NoneLeft \/ (Only(FailingHopper!Change(old, new)) /\ hopper_ops.write.state # "pending")

Changing ==
  /\ hopper_client.data_endpoint \in Ports /\ hopper_client.new_data_socket \in Ports
  /\ hopper_client.new_data_socket # hopper_client.data_endpoint
  /\ hopper_client.data_socket \in {hopper_client.data_endpoint, NoPort}
  /\ Moved \/ NotMoved
  /\ hopper_ops.new.state = "none" /\ hopper_client.new_data_socket_result = "ok" =>
       hopper_client.data_socket = NoPort

HopperInv ==
  /\ HopperTypes /\ Replaces
  /\ hopper_client.at = "start" => Starting
  /\ hopper_client.at = "receiving" => Receiving
  /\ hopper_client.at = "renegotiating" => Changing
  /\ hopper_client.at # "renegotiating" =>
       /\ hopper_ops.write.state = "none" /\ hopper_ops.new.state = "none"
       /\ hopper_ops.old.state = "none"

(* While nothing fails, the receive on the old socket fails only when the  *)
(* socket is closed.                                                       *)
Listening ==
  /\ hopper_ops.old.state = "error" => hopper_client.data_socket = NoPort
  /\ hopper_client.at = "renegotiating" /\ hopper_client.data_socket # NoPort =>
       hopper_ops.old.state # "none"
HopperListens == Runs("porthopper") => Listening

LEMMA HopperBounds ==
  /\ NoPort \notin Ports /\ FramesPerPort \in Nat /\ FramesPerPort > 0
  /\ MaxFrame \in Nat /\ MaxFrame > 0
BY ExamplesAssumption DEF FailingHopper!PortHopperAssumption, FailingHopper!NoPort, NoPort

LEMMA HopperInit == Init => HopperInv /\ HopperListens
BY HopperBounds DEF Init, Hopper!Init, HopperInv, HopperListens, Listening, HopperTypes,
  HopperServers, HopperClients, Operations, Requests, PortOrNone, Numbers, NoPort,
  Replaces, Starting, NoneLeft, Hopper!NoRequest, Hopper!Idle, Hopper!NoPort

(* The server and the network. *)
LEMMA HopperServer ==
  ASSUME HopperInv, FailingHopper!Server
  PROVE  HopperInv' /\ UNCHANGED <<hopper_client, hopper_ops>>
<1> USE DEF HopperInv, HopperTypes
<1>1. CASE FailingHopper!HandleAccept
  BY <1>1 DEF FailingHopper!HandleAccept, HopperServers, Replaces, Starting, Receiving, Changing,
    Moved, NotMoved, NoneLeft, Only, Subscribed, SentTo
<1>2. CASE FailingHopper!HandleControlRequestError
  BY <1>2 DEF FailingHopper!HandleControlRequestError, HopperServers, Replaces, Starting,
    Receiving, Changing, Moved, NotMoved, NoneLeft, Only, Subscribed, SentTo
<1>3. CASE FailingHopper!HandleControlRequest
  <2>1. PICK request \in Requests : control = <<request>> /\ Only(request)
    BY <1>3 DEF FailingHopper!HandleControlRequest, Replaces, NoneLeft, Only
  <2>2. /\ hopper_server' = [hopper_server EXCEPT !.at = "delaying", !.request = request]
        /\ control' = <<>> /\ hopper_server.at = "reading"
    BY <1>3, <2>1 DEF FailingHopper!HandleControlRequest
  <2>3. /\ hopper_server' \in HopperServers /\ hopper_server'.request = request
        /\ hopper_server'.at = "delaying"
        /\ hopper_server'.subscribers = hopper_server.subscribers
    BY <2>2 DEF HopperServers
  <2>4. control' \in Seq(Requests)
    BY <2>2
  <2>5. UNCHANGED <<hopper_client, hopper_ops, frames>>
    BY <1>3 DEF FailingHopper!HandleControlRequest
  <2>6. ~NoneLeft /\ \A r : Only(r) => r = request /\ Only(r)'
    BY <2>1, <2>2, <2>3 DEF NoneLeft, Only
  <2> QED
    BY <2>3, <2>4, <2>5, <2>6 DEF Replaces, Starting, Receiving, Changing,
      Moved, NotMoved, Subscribed, SentTo
<1>4. CASE FailingHopper!HandleControlRequestTimer
  <2> DEFINE request == hopper_server.request
             subs == hopper_server.subscribers
  <2>1. /\ hopper_server' \in HopperServers /\ hopper_server'.at = "reading"
        /\ hopper_server'.subscribers =
             IF connection = "open"
             THEN (subs \ {request.old_port}) \cup ({request.new_port} \ {NoPort}) ELSE subs
    BY <1>4 DEF FailingHopper!HandleControlRequestTimer, FailingHopper!Applied, HopperServers,
      Requests, PortOrNone, FailingHopper!NoRequest, FailingHopper!NoPort, NoPort
  <2>2. UNCHANGED <<hopper_client, hopper_ops, frames, control>>
    BY <1>4 DEF FailingHopper!HandleControlRequestTimer
  <2>3. ~NoneLeft /\ Only(request) /\ (\A r : Only(r) => r = request) /\ NoneLeft'
    BY <1>4, <2>1, <2>2 DEF FailingHopper!HandleControlRequestTimer, Replaces, NoneLeft, Only
  <2>4. subs \subseteq {request.old_port} /\ request \in Requests
    BY <2>3 DEF Replaces, HopperServers
  <2>5. Replaces'
    BY <2>1, <2>3, <2>4 DEF Replaces, Requests
  <2>6. ASSUME hopper_client.at = "receiving" PROVE Receiving'
    <3>1. /\ request = FailingHopper!Start(hopper_client.data_socket) /\ subs = {}
          /\ hopper_client.data_socket \in Ports
      BY <2>3, <2>6 DEF Receiving
    <3>2. /\ request.old_port = NoPort /\ request.new_port = hopper_client.data_socket
      BY <3>1 DEF FailingHopper!Start, FailingHopper!NoPort, NoPort
    <3>3. hopper_server'.subscribers =
            IF connection = "open" THEN {hopper_client.data_socket} ELSE {}
      BY ZenonT(60), <2>1, <3>1, <3>2, HopperBounds
    <3> QED
      BY <2>2, <2>3, <2>6, <3>1, <3>3 DEF Receiving, Subscribed, SentTo
  <2>7. ASSUME hopper_client.at = "renegotiating" PROVE Changing'
    <3>1. /\ NotMoved /\ hopper_ops.write.state # "pending"
          /\ request = FailingHopper!Change(hopper_client.data_endpoint,
                                            hopper_client.new_data_socket)
      BY <2>3, <2>7 DEF Changing, Moved, NotMoved
    <3>2. /\ request.old_port = hopper_client.data_endpoint
          /\ request.new_port = hopper_client.new_data_socket
      BY <3>1 DEF FailingHopper!Change
    <3>3. hopper_server'.subscribers =
            IF connection = "open" THEN {hopper_client.new_data_socket}
            ELSE {hopper_client.data_endpoint}
      BY <2>1, <2>7, <3>1, <3>2, HopperBounds DEF NotMoved, Subscribed, Changing
    <3> QED
      BY <2>2, <2>3, <2>7, <3>1, <3>3 DEF Changing, Moved, NotMoved, Subscribed, SentTo
  <2>8. hopper_client.at # "start"
    BY <2>3 DEF Starting
  <2> QED
    BY <2>1, <2>2, <2>5, <2>6, <2>7, <2>8
<1>5. CASE FailingHopper!HandleTimer
  <2>1. /\ hopper_server' \in HopperServers /\ hopper_server'.at = hopper_server.at
        /\ hopper_server'.subscribers = hopper_server.subscribers
        /\ hopper_server'.request = hopper_server.request
    BY <1>5, HopperBounds DEF FailingHopper!HandleTimer, HopperServers, Numbers
  <2>2. UNCHANGED <<hopper_client, hopper_ops, control>>
    BY <1>5 DEF FailingHopper!HandleTimer
  <2>3. PICK sent : /\ sent \subseteq hopper_server.subscribers \cap FailingHopper!Open
                    /\ frames' = frames \cup
                         {<<port, hopper_server.next_frame_number>> : port \in sent}
    <3> DEFINE sent == {p \in hopper_server.subscribers \cap FailingHopper!Open :
                          FailingHopper!InFlight(p) < MaxInFlight}
    <3>1. frames' = frames \cup {<<port, hopper_server.next_frame_number>> : port \in sent}
      BY <1>5 DEF FailingHopper!HandleTimer
    <3>2. sent \subseteq hopper_server.subscribers \cap FailingHopper!Open
      OBVIOUS
    <3> QED
      BY <3>1, <3>2
  <2>4. frames' \subseteq Ports \X Numbers
    BY <2>3 DEF HopperServers
  <2>5. \A port : SentTo(port)' => SentTo(port) \/ port \in hopper_server.subscribers
    BY <2>3 DEF SentTo
  <2>6. /\ NoneLeft <=> NoneLeft'
        /\ \A r : Only(r) <=> Only(r)'
        /\ \A p : Subscribed(p) <=> Subscribed(p)'
    BY <2>1, <2>2 DEF NoneLeft, Only, Subscribed
  <2>7. Replaces'
    BY <2>1, <2>6 DEF Replaces
  <2>8. ASSUME hopper_client.at = "start" PROVE Starting'
    BY <2>1, <2>2, <2>3, <2>6, <2>8 DEF Starting
  <2>9. ASSUME hopper_client.at = "receiving" PROVE Receiving'
    BY <2>1, <2>2, <2>5, <2>6, <2>9 DEF Receiving, Subscribed
  <2>10. ASSUME hopper_client.at = "renegotiating" PROVE Changing'
    BY <2>1, <2>2, <2>5, <2>6, <2>10 DEF Changing, Moved, NotMoved, Subscribed
  <2> QED
    BY <2>1, <2>2, <2>4, <2>7, <2>8, <2>9, <2>10
<1> QED
  BY <1>1, <1>2, <1>3, <1>4, <1>5 DEF FailingHopper!Server

(* Frames that get lost, or that arrive, disturb nothing. *)
LEMMA FewerFrames ==
  ASSUME HopperInv, frames' \subseteq frames,
         UNCHANGED <<hopper_server, hopper_client, hopper_ops, control>>
  PROVE  HopperInv'
<1>1. \A port : SentTo(port)' => SentTo(port)
  BY DEF SentTo
<1> QED
  BY <1>1 DEF HopperInv, HopperTypes, Replaces, Starting, Receiving, Changing, Moved, NotMoved,
    NoneLeft, Only, Subscribed

LEMMA HopperBreak == ASSUME HopperInv, FailingHopper!Break PROVE HopperInv'
<1>1. /\ control' = <<>> /\ UNCHANGED <<hopper_server, hopper_client, hopper_ops, frames>>
  BY DEF FailingHopper!Break
<1>2. /\ NoneLeft => NoneLeft'
      /\ \A request : Only(request) => NoneLeft' \/ Only(request)'
  BY <1>1 DEF NoneLeft, Only
<1>3. HopperTypes' /\ Replaces'
  BY <1>1, <1>2 DEF HopperInv, HopperTypes, Replaces, Requests
<1> QED
  BY <1>1, <1>2, <1>3 DEF HopperInv, Starting, Receiving, Changing, Moved, NotMoved, Subscribed,
    SentTo

(* What printing a frame, a round of the loop and an exception do to the   *)
(* locals of the client.                                                   *)
Same(c, d) ==
  /\ c.at = d.at /\ c.received = d.received
  /\ c.data_socket = d.data_socket /\ c.new_data_socket = d.new_data_socket
  /\ c.data_endpoint = d.data_endpoint
  /\ c.new_data_socket_result = d.new_data_socket_result

LEMMA HopperLocals ==
  ASSUME NEW c \in HopperClients
  PROVE  /\ \A number \in 0..MaxFrame :
              /\ FailingHopper!Printed(c, number) \in HopperClients
              /\ Same(FailingHopper!Printed(c, number), c)
         /\ FailingHopper!Round(c) \in HopperClients /\ Same(FailingHopper!Round(c), c)
         /\ FailingHopper!Thrown(c) \in HopperClients
         /\ FailingHopper!Thrown(c).at = "thrown"
         /\ FailingHopper!Thrown(c).data_socket = NoPort
<1>1. 0 \in 0..MaxFrame
  BY HopperBounds
<1>2. ASSUME NEW number \in 0..MaxFrame
      PROVE  /\ FailingHopper!Printed(c, number) \in HopperClients
             /\ Same(FailingHopper!Printed(c, number), c)
  BY <1>2 DEF FailingHopper!Printed, HopperClients, Same
<1>3. FailingHopper!Round(c) \in HopperClients /\ Same(FailingHopper!Round(c), c)
  BY <1>1 DEF FailingHopper!Round, HopperClients, Same
<1>4. /\ FailingHopper!Thrown(c) \in HopperClients
      /\ FailingHopper!Thrown(c).at = "thrown"
      /\ FailingHopper!Thrown(c).data_socket = NoPort
  BY DEF HopperClients, PortOrNone, NoPort, FailingHopper!Thrown, FailingHopper!NoPort
<1> QED
  BY <1>2, <1>3, <1>4

(* The client before it changes ports. *)
LEMMA HopperStart ==
  ASSUME HopperInv, NEW port \in Ports, FailingHopper!StartClient(port)
  PROVE  HopperInv' /\ UNCHANGED hopper_ops /\ hopper_client'.at = "receiving"
<1>1. /\ hopper_client.at = "start" /\ Starting
      /\ hopper_client' \in HopperClients /\ hopper_client'.at = "receiving"
      /\ hopper_client'.data_socket = port /\ hopper_client'.data_endpoint = port
      /\ hopper_client'.new_data_socket = NoPort /\ hopper_client'.received = hopper_client.received
  BY DEF HopperInv, HopperTypes, HopperClients, PortOrNone, FailingHopper!StartClient, Starting
<1>2. control' = <<FailingHopper!Start(port)>> /\ UNCHANGED <<hopper_server, hopper_ops, frames>>
  BY DEF FailingHopper!StartClient
<1>3. FailingHopper!Start(port) \in Requests /\ FailingHopper!Start(port).old_port = NoPort
  BY DEF FailingHopper!Start, Requests, PortOrNone, FailingHopper!NoPort, NoPort
<1>4. Only(FailingHopper!Start(port))'
  BY <1>1, <1>2 DEF Starting, NoneLeft, Only
<1>5. Receiving'
  BY <1>1, <1>2, <1>4 DEF Receiving, Starting, SentTo
<1> QED
  BY <1>1, <1>2, <1>3, <1>4, <1>5 DEF HopperInv, HopperTypes, Replaces, Starting

LEMMA HopperReceive ==
  ASSUME HopperInv, NEW number \in Numbers, FailingHopper!Receive(number)
  PROVE  HopperInv' /\ UNCHANGED <<hopper_ops, hopper_client.data_socket, hopper_client.at>>
<1>1. /\ hopper_client.at = "receiving" /\ Receiving
      /\ hopper_client' \in HopperClients /\ hopper_client'.at = "receiving"
      /\ hopper_client'.data_socket = hopper_client.data_socket
      /\ hopper_client'.data_endpoint = hopper_client.data_endpoint
      /\ hopper_client'.new_data_socket = hopper_client.new_data_socket
  <2> DEFINE c == FailingHopper!Printed(hopper_client, number)
  <2>1. c \in HopperClients /\ Same(c, hopper_client)
    BY SMTT(30), HopperLocals DEF HopperInv, HopperTypes, Numbers
  <2>2. /\ hopper_client.at = "receiving" /\ hopper_client.received < FramesPerPort
        /\ hopper_client' = [c EXCEPT !.received = @ + 1]
    BY DEF FailingHopper!Receive
  <2> HIDE DEF c
  <2>3. c.received + 1 \in 0..FramesPerPort
    BY <2>1, <2>2, HopperBounds DEF Same, HopperClients
  <2> QED
    BY <2>1, <2>2, <2>3 DEF HopperInv, HopperClients, Same
<1>2. /\ <<hopper_client.data_socket, number>> \in frames /\ frames' \subseteq frames
      /\ UNCHANGED <<hopper_server, hopper_ops, control>>
  BY DEF FailingHopper!Receive, FailingHopper!Arrives
<1>3. SentTo(hopper_client.data_socket)
  BY <1>2 DEF SentTo
<1>4. Receiving'
  BY <1>1, <1>2, <1>3 DEF Receiving, NoneLeft, Subscribed
<1> QED
  BY <1>1, <1>2, <1>4 DEF HopperInv, HopperTypes, Replaces, NoneLeft, Only

LEMMA HopperReceiveFails == ASSUME HopperInv, FailingHopper!ReceiveFails PROVE HopperInv'
BY HopperLocals DEF HopperInv, HopperTypes, FailingHopper!ReceiveFails, Replaces, NoneLeft, Only

LEMMA HopperRenegotiate ==
  ASSUME HopperInv, NEW port \in Ports, FailingHopper!Renegotiate(port)
  PROVE  /\ HopperInv' /\ hopper_ops'.old.state = "pending"
<1>1. /\ hopper_client.at = "receiving" /\ Receiving
      /\ hopper_client' \in HopperClients /\ hopper_client'.at = "renegotiating"
      /\ hopper_client'.data_socket = hopper_client.data_socket
      /\ hopper_client'.data_endpoint = hopper_client.data_endpoint
      /\ hopper_client'.new_data_socket = port
  <2> DEFINE c == FailingHopper!Round(hopper_client)
  <2>1. c \in HopperClients /\ Same(c, hopper_client)
    BY HopperLocals DEF HopperInv, HopperTypes
  <2>2. /\ hopper_client.at = "receiving"
        /\ hopper_client' = [c EXCEPT !.at = "renegotiating", !.new_data_socket = port,
             !.control_result = "ok", !.new_data_socket_result = "ok", !.f1 = 0]
    BY DEF FailingHopper!Renegotiate
  <2>3. 0 \in 0..MaxFrame
    BY HopperBounds
  <2> HIDE DEF c
  <2> QED
    BY <2>1, <2>2, <2>3 DEF HopperInv, HopperClients, Same, PortOrNone
<1>2. /\ port # hopper_client.data_socket /\ ~SentTo(port)
      /\ UNCHANGED <<hopper_server, control, frames>>
  BY <1>1, HopperBounds DEF FailingHopper!Renegotiate, FailingHopper!Open, SentTo, NoPort,
    FailingHopper!NoPort
<1>3. NoneLeft /\ Subscribed(hopper_client.data_socket)
  BY <1>1, HopperBounds DEF Receiving, FailingHopper!Renegotiate
<1>4. /\ hopper_ops' \in [write : Operations, new : Operations, old : Operations]
      /\ hopper_ops'.new.state = "pending" /\ hopper_ops'.old.state = "pending"
  BY <1>1, HopperBounds DEF FailingHopper!Renegotiate, Operations, FailingHopper!Pending,
    FailingHopper!OldReceive, Receiving, FailingHopper!NoPort, NoPort
<1>5. Changing'
  BY <1>1, <1>2, <1>3, <1>4 DEF Changing, NotMoved, Receiving, NoneLeft, Subscribed, SentTo
<1> QED
  BY <1>1, <1>2, <1>4, <1>5 DEF HopperInv, HopperTypes, Replaces, NoneLeft, Only

(* The operations complete. *)
HopperOps == [write : Operations, new : Operations, old : Operations]

LEMMA HopperResults ==
  /\ FailingHopper!Idle \in Operations /\ FailingHopper!Idle.state = "none"
  /\ FailingHopper!Pending \in Operations /\ FailingHopper!Pending.state = "pending"
  /\ FailingHopper!Failed \in Operations /\ FailingHopper!Failed.state = "error"
  /\ \A number \in 0..MaxFrame :
       FailingHopper!Ok(number) \in Operations /\ FailingHopper!Ok(number).state = "ok"
BY HopperBounds DEF Operations, FailingHopper!Idle, FailingHopper!Pending, FailingHopper!Failed,
  FailingHopper!Ok

LEMMA HopperWrites ==
  ASSUME HopperInv, FailingHopper!WriteCompletes
  PROVE  HopperInv' /\ UNCHANGED <<hopper_client, hopper_ops.old>>
<1> DEFINE old == hopper_client.data_endpoint
           new == hopper_client.new_data_socket
<1>1. /\ hopper_ops.write.state = "pending" /\ UNCHANGED <<hopper_server, hopper_client, frames>>
      /\ hopper_client.at = "renegotiating"
  BY DEF HopperInv, FailingHopper!WriteCompletes
<1>2. Changing /\ NotMoved /\ NoneLeft
  BY <1>1 DEF HopperInv, Changing, Moved, NotMoved
<1>3. /\ hopper_ops' \in HopperOps
      /\ hopper_ops'.new = hopper_ops.new /\ hopper_ops'.old = hopper_ops.old
      /\ hopper_ops'.write.state \in {"ok", "error"}
  <2>1. PICK after \in Operations : after.state \in {"ok", "error"}
                               /\ hopper_ops' = [hopper_ops EXCEPT !.write = after]
    BY HopperResults, HopperBounds DEF FailingHopper!WriteCompletes
  <2> QED
    BY <2>1 DEF HopperInv, HopperTypes, HopperOps
<1>4. FailingHopper!Change(old, new) \in Requests /\ FailingHopper!Change(old, new).old_port = old
  BY DEF HopperInv, HopperTypes, HopperClients, Requests, FailingHopper!Change
<1>5. CASE connection = "open"
  <2>1. control' = <<FailingHopper!Change(old, new)>>
    BY <1>2, <1>5 DEF FailingHopper!WriteCompletes, NoneLeft
  <2>2. Only(FailingHopper!Change(old, new))'
    BY <1>1, <1>2, <2>1 DEF NoneLeft, Only
  <2>3. Changing'
    BY <1>1, <1>2, <1>3, <2>2 DEF Changing, NotMoved, Subscribed, SentTo
  <2>4. Replaces' /\ control' \in Seq(Requests)
    BY <1>1, <1>2, <1>4, <2>1, <2>2 DEF Replaces, NotMoved, Subscribed
  <2> QED
    BY <1>1, <1>3, <2>3, <2>4 DEF HopperInv, HopperTypes, HopperOps
<1>6. CASE connection # "open"
  <2>1. UNCHANGED control
    BY <1>6 DEF FailingHopper!WriteCompletes
  <2>2. Changing' /\ Replaces'
    BY <1>1, <1>2, <1>3, <2>1 DEF HopperInv, Replaces, Changing, NotMoved, Subscribed, SentTo,
      NoneLeft, Only
  <2> QED
    BY <1>1, <1>3, <2>1, <2>2 DEF HopperInv, HopperTypes, HopperOps
<1> QED
  BY <1>1, <1>3, <1>5, <1>6

LEMMA HopperNewReceives ==
  ASSUME HopperInv, NEW number \in Numbers, FailingHopper!NewReceives(number)
  PROVE  HopperInv' /\ UNCHANGED <<hopper_client, hopper_ops.old>>
<1>1. /\ hopper_ops.new.state = "pending" /\ frames' \subseteq frames
      /\ <<hopper_client.new_data_socket, number>> \in frames
      /\ hopper_ops' = [hopper_ops EXCEPT !.new = FailingHopper!Ok(number)]
      /\ UNCHANGED <<hopper_server, hopper_client, control>>
  BY DEF FailingHopper!NewReceives, FailingHopper!Arrives
<1>2. hopper_client.at = "renegotiating" /\ Changing
  BY <1>1 DEF HopperInv
<1>3. Moved
  BY <1>1, <1>2 DEF Changing, NotMoved, SentTo
<1>4. /\ hopper_ops' \in HopperOps /\ hopper_ops'.new.state = "ok"
      /\ hopper_ops'.write = hopper_ops.write /\ hopper_ops'.old = hopper_ops.old
  <2>1. FailingHopper!Ok(number) \in Operations /\ FailingHopper!Ok(number).state = "ok"
    BY HopperResults, HopperBounds DEF Numbers
  <2> QED
    BY <1>1, <2>1 DEF HopperInv, HopperTypes, HopperOps
<1>5. Changing'
  BY <1>1, <1>2, <1>3, <1>4 DEF Changing, Moved, NoneLeft, Subscribed
<1> QED
  BY <1>1, <1>2, <1>4, <1>5 DEF HopperInv, HopperTypes, HopperOps, Replaces, NoneLeft, Only

(* The receive on the old socket does not matter for the ports. *)
LEMMA HopperOldOnly ==
  ASSUME HopperInv, hopper_client.at = "renegotiating", frames' \subseteq frames,
         NEW after \in Operations, hopper_ops' = [hopper_ops EXCEPT !.old = after],
         UNCHANGED <<hopper_server, hopper_client, control>>
  PROVE  HopperInv' /\ hopper_ops'.old = after
<1>1. /\ hopper_ops' \in HopperOps /\ hopper_ops'.old = after
      /\ hopper_ops'.new = hopper_ops.new /\ hopper_ops'.write = hopper_ops.write
  BY DEF HopperInv, HopperTypes, HopperOps
<1>2. Changing'
  BY <1>1 DEF HopperInv, Changing, Moved, NotMoved, NoneLeft, Only, Subscribed, SentTo
<1> QED
  BY <1>1, <1>2 DEF HopperInv, HopperTypes, HopperOps, Replaces, NoneLeft, Only

LEMMA HopperOldReceives ==
  ASSUME HopperInv, NEW number \in Numbers, FailingHopper!OldReceives(number)
  PROVE  HopperInv' /\ UNCHANGED hopper_client /\ hopper_ops'.old.state = "ok"
<1>1. /\ hopper_ops.old.state = "pending" /\ frames' \subseteq frames
      /\ hopper_ops' = [hopper_ops EXCEPT !.old = FailingHopper!Ok(number)]
      /\ UNCHANGED <<hopper_server, hopper_client, control>>
  BY DEF FailingHopper!OldReceives, FailingHopper!Arrives
<1>2. hopper_client.at = "renegotiating"
  BY <1>1 DEF HopperInv
<1>3. FailingHopper!Ok(number) \in Operations /\ FailingHopper!Ok(number).state = "ok"
  BY HopperResults, HopperBounds DEF Numbers
<1> QED
  BY <1>1, <1>2, <1>3, HopperOldOnly

LEMMA HopperAsyncFails ==
  ASSUME HopperInv, NEW which \in {"new", "old"}, FailingHopper!AsyncReceiveFails(which)
  PROVE  HopperInv'
<1>1. /\ hopper_ops[which].state = "pending"
      /\ hopper_ops' = [hopper_ops EXCEPT ![which] = FailingHopper!Failed]
      /\ UNCHANGED <<hopper_server, hopper_client, control, frames>>
  BY DEF FailingHopper!AsyncReceiveFails
<1>2. hopper_client.at = "renegotiating" /\ Changing
  BY <1>1 DEF HopperInv
<1>3. CASE which = "old"
  BY <1>1, <1>2, <1>3, HopperOldOnly, HopperResults
<1>4. CASE which = "new"
  <2>1. /\ hopper_ops' \in HopperOps /\ hopper_ops'.old = hopper_ops.old
        /\ hopper_ops'.new.state = "error" /\ hopper_ops'.write = hopper_ops.write
    BY <1>1, <1>4, HopperResults DEF HopperInv, HopperTypes, HopperOps
  <2>2. Changing'
    BY <1>1, <1>2, <2>1 DEF Changing, Moved, NotMoved, NoneLeft, Only, Subscribed, SentTo
  <2> QED
    BY <1>1, <1>2, <2>1, <2>2 DEF HopperInv, HopperTypes, HopperOps, Replaces, NoneLeft, Only
<1> QED
  BY <1>3, <1>4

(* The handlers of the client. *)
LEMMA HopperHandleWrite ==
  ASSUME HopperInv, FailingHopper!HandleWrite
  PROVE  /\ HopperInv' /\ hopper_ops'.old = hopper_ops.old
         /\ hopper_client'.at = hopper_client.at
         /\ hopper_client'.data_socket = hopper_client.data_socket
<1>1. /\ hopper_client.at = "renegotiating" /\ hopper_ops.write.state \in {"ok", "error"}
      /\ hopper_client' = [hopper_client EXCEPT !.control_result = hopper_ops.write.state]
      /\ hopper_ops' = [hopper_ops EXCEPT !.write = FailingHopper!Idle]
      /\ UNCHANGED <<hopper_server, control, frames>>
  BY DEF FailingHopper!HandleWrite, FailingHopper!Renegotiating
<1>2. hopper_client' \in HopperClients /\ Same(hopper_client', hopper_client)
  BY <1>1 DEF HopperInv, HopperTypes, HopperClients, Same
<1>3. /\ hopper_ops' \in HopperOps /\ hopper_ops'.write.state = "none"
      /\ hopper_ops'.new = hopper_ops.new /\ hopper_ops'.old = hopper_ops.old
  BY <1>1, HopperResults DEF HopperInv, HopperTypes, HopperOps
<1>4. Changing'
  BY <1>1, <1>2, <1>3 DEF HopperInv, Changing, Moved, NotMoved, NoneLeft, Only, Subscribed,
    SentTo, Same
<1> QED
  BY <1>1, <1>2, <1>3, <1>4 DEF HopperInv, HopperTypes, HopperOps, Replaces, NoneLeft, Only, Same

LEMMA HopperHandleNew ==
  ASSUME HopperInv, FailingHopper!HandleNew
  PROVE  /\ HopperInv' /\ hopper_client'.at = "renegotiating"
         /\ \/ hopper_client'.data_socket = NoPort
            \/ /\ hopper_client'.data_socket = hopper_client.data_socket
               /\ hopper_ops'.old = hopper_ops.old
<1> DEFINE ok == hopper_ops.new.state = "ok"
<1>1. /\ hopper_client.at = "renegotiating" /\ hopper_ops.new.state \in {"ok", "error"}
      /\ hopper_client' = [hopper_client EXCEPT !.new_data_socket_result = hopper_ops.new.state,
             !.f1 = hopper_ops.new.number,
             !.data_socket = IF ok THEN NoPort ELSE @]
      /\ hopper_ops' = [hopper_ops EXCEPT !.new = FailingHopper!Idle,
             !.old = IF ok /\ @.state = "pending" THEN FailingHopper!Failed ELSE @]
      /\ frames' \subseteq frames /\ UNCHANGED <<hopper_server, control>>
  BY DEF FailingHopper!HandleNew, FailingHopper!Renegotiating, FailingHopper!NoPort, NoPort
<1>2. hopper_ops.new.number \in 0..MaxFrame
  BY DEF HopperInv, HopperTypes, Operations
<1>3. /\ hopper_client' \in HopperClients /\ hopper_client'.at = "renegotiating"
      /\ hopper_client'.new_data_socket = hopper_client.new_data_socket
      /\ hopper_client'.data_endpoint = hopper_client.data_endpoint
      /\ hopper_client'.new_data_socket_result = hopper_ops.new.state
      /\ hopper_client'.data_socket = IF ok THEN NoPort ELSE hopper_client.data_socket
  BY <1>1, <1>2 DEF HopperInv, HopperTypes, HopperClients, PortOrNone
<1>4. /\ hopper_ops' \in HopperOps /\ hopper_ops'.new.state = "none"
      /\ hopper_ops'.write = hopper_ops.write /\ ~ok => hopper_ops'.old = hopper_ops.old
  BY <1>1, HopperResults DEF HopperInv, HopperTypes, HopperOps
<1>5. Changing'
  <2>1. CASE ok
    <3>1. Changing /\ Moved
      BY <1>1, <2>1 DEF HopperInv, Changing, NotMoved
    <3> QED
      BY <1>1, <1>3, <1>4, <2>1, <3>1 DEF Changing, Moved, NoneLeft, Subscribed
  <2>2. CASE ~ok
    BY <1>1, <1>3, <1>4, <2>2 DEF HopperInv, Changing, Moved, NotMoved, NoneLeft, Only,
      Subscribed, SentTo
  <2> QED
    BY <2>1, <2>2
<1> QED
  BY <1>1, <1>3, <1>4, <1>5 DEF HopperInv, HopperTypes, HopperOps, Replaces, NoneLeft, Only

(* run has returned: the client that leaves the loop with its new socket   *)
(* is the only one the server sends to.                                    *)
LEMMA HopperAfterRun ==
  ASSUME HopperInv, hopper_client.at = "renegotiating",
         NEW c \in HopperClients, Same(c, hopper_client),
         NEW o \in HopperOps, o.write = hopper_ops.write, o.new = hopper_ops.new,
         o.old.state = "none",
         c.done => o.write.state = "none" /\ o.new.state = "none",
         FailingHopper!AfterRun(c, o), UNCHANGED <<hopper_server, control, frames>>
  PROVE  /\ HopperInv' /\ hopper_ops'.old.state # "error"
         /\ hopper_client'.at = "renegotiating" /\ hopper_client'.data_socket # NoPort =>
              hopper_ops'.old.state = "pending"
<1>1. Changing
  BY DEF HopperInv
<1>2. CASE ~c.done
  <2> DEFINE d == FailingHopper!Printed(c, c.f2)
             old == FailingHopper!OldReceive(c)
  <2>1. c.f2 \in 0..MaxFrame
    BY DEF HopperClients
  <2>2. d \in HopperClients /\ Same(d, c)
    BY <2>1, HopperLocals
  <2>3. hopper_client' = FailingHopper!Round(d) /\ hopper_ops' = [o EXCEPT !.old = old]
    BY <1>2 DEF FailingHopper!AfterRun
  <2>4. old \in Operations /\ old.state = IF c.data_socket = NoPort THEN "none" ELSE "pending"
    BY HopperResults DEF FailingHopper!OldReceive, FailingHopper!NoPort, NoPort
  <2> HIDE DEF d, old
  <2>5. hopper_client' \in HopperClients /\ Same(hopper_client', hopper_client)
    BY <2>2, <2>3, HopperLocals DEF Same
  <2>6. /\ hopper_ops' \in HopperOps /\ hopper_ops'.old = old
        /\ hopper_ops'.write = hopper_ops.write /\ hopper_ops'.new = hopper_ops.new
    BY <2>3, <2>4 DEF HopperOps
  <2>7. Changing'
    BY <1>1, <2>5, <2>6 DEF Changing, Moved, NotMoved, NoneLeft, Only, Subscribed, SentTo, Same
  <2> QED
    BY <2>4, <2>5, <2>6, <2>7 DEF HopperInv, HopperTypes, HopperOps, Replaces, NoneLeft, Only, Same
<1>3. CASE c.done
  <2>1. hopper_ops' = o
    BY <1>3 DEF FailingHopper!AfterRun
  <2>2. CASE "error" \in {c.control_result, c.new_data_socket_result}
    <3>1. hopper_client' = FailingHopper!Thrown(c)
      BY <1>3, <2>2 DEF FailingHopper!AfterRun
    <3> QED
      BY <1>3, <2>1, <3>1, HopperLocals DEF HopperInv, HopperTypes, HopperOps, Replaces, NoneLeft,
        Only
  <2>3. CASE "error" \notin {c.control_result, c.new_data_socket_result}
    <3> DEFINE d == FailingHopper!Printed(c, c.f1)
    <3>1. c.f1 \in 0..MaxFrame /\ c.new_data_socket_result = "ok"
      BY <2>3 DEF HopperClients
    <3>2. d \in HopperClients
      BY <3>1, HopperLocals
    <3>3. hopper_client' = [d EXCEPT !.at = "receiving", !.received = 0,
            !.new_data_socket = NoPort, !.data_socket = c.new_data_socket,
            !.data_endpoint = c.new_data_socket]
      BY <1>3, <2>3 DEF FailingHopper!AfterRun, FailingHopper!NoPort, NoPort
    <3> HIDE DEF d
    <3>4. 0 \in 0..FramesPerPort /\ c.new_data_socket \in PortOrNone
      BY HopperBounds DEF HopperClients
    <3>5. /\ hopper_client' \in HopperClients /\ hopper_client'.at = "receiving"
          /\ hopper_client'.received = 0 /\ hopper_client'.new_data_socket = NoPort
          /\ hopper_client'.data_socket = hopper_client.new_data_socket
          /\ hopper_client'.data_endpoint = hopper_client.new_data_socket
      BY <3>2, <3>3, <3>4 DEF HopperClients, PortOrNone, Same
    <3>6. hopper_client.data_socket = NoPort
      BY <1>1, <1>3, <3>1 DEF Changing, Same
    <3>7. Moved
      BY <1>1, <3>6, HopperBounds DEF Changing, NotMoved
    <3>8. Receiving'
      BY <1>1, <3>5, <3>7 DEF Receiving, Changing, Moved, NoneLeft, Subscribed
    <3> QED
      BY <1>3, <2>1, <3>5, <3>8 DEF HopperInv, HopperTypes, HopperOps, Replaces, NoneLeft, Only
  <2> QED
    BY <2>2, <2>3
<1> QED
  BY <1>2, <1>3

LEMMA HopperHandleOld ==
  ASSUME HopperInv, FailingHopper!HandleOld
  PROVE  /\ HopperInv'
         /\ \/ hopper_ops.old.state = "error" /\ hopper_ops'.old.state = "none"
               /\ UNCHANGED hopper_client
            \/ /\ hopper_ops'.old.state # "error"
               /\ hopper_client'.at = "renegotiating" /\ hopper_client'.data_socket # NoPort =>
                    hopper_ops'.old.state = "pending"
<1> DEFINE o == [hopper_ops EXCEPT !.old = FailingHopper!Idle]
           c == [hopper_client EXCEPT !.done = FALSE, !.f2 = hopper_ops.old.number]
<1>1. /\ hopper_client.at = "renegotiating" /\ hopper_ops.old.state \in {"ok", "error"}
      /\ IF hopper_ops.old.state = "ok" THEN FailingHopper!AfterRun(c, o)
         ELSE hopper_ops' = o /\ UNCHANGED hopper_client
      /\ UNCHANGED <<hopper_server, control, frames>>
  BY DEF FailingHopper!HandleOld, FailingHopper!Renegotiating
<1>2. CASE hopper_ops.old.state = "ok"
  <2>1. hopper_ops.old.number \in 0..MaxFrame
    BY DEF HopperInv, HopperTypes, Operations
  <2>2. c \in HopperClients /\ Same(c, hopper_client) /\ ~c.done
    BY <2>1 DEF HopperInv, HopperTypes, HopperClients, Same
  <2>3. /\ o \in HopperOps /\ o.write = hopper_ops.write /\ o.new = hopper_ops.new
        /\ o.old.state = "none"
    BY HopperResults DEF HopperInv, HopperTypes, HopperOps
  <2>4. FailingHopper!AfterRun(c, o)
    BY <1>1, <1>2
  <2> HIDE DEF c, o
  <2> QED
    BY <1>1, <2>2, <2>3, <2>4, HopperAfterRun
<1>3. CASE hopper_ops.old.state = "error"
  BY <1>1, <1>3, HopperOldOnly, HopperResults
<1> QED
  BY <1>1, <1>2, <1>3

LEMMA HopperRunReturns ==
  ASSUME HopperInv, FailingHopper!RunReturns
  PROVE  /\ HopperInv' /\ hopper_ops'.old.state # "error"
         /\ hopper_client'.at = "renegotiating" /\ hopper_client'.data_socket # NoPort =>
              hopper_ops'.old.state = "pending"
<1>1. /\ hopper_client.at = "renegotiating" /\ FailingHopper!AfterRun(hopper_client, hopper_ops)
      /\ UNCHANGED <<hopper_server, control, frames>>
  BY DEF FailingHopper!RunReturns, FailingHopper!Renegotiating
<1>2. /\ hopper_ops \in HopperOps /\ hopper_client \in HopperClients
      /\ Same(hopper_client, hopper_client)
  BY DEF HopperInv, HopperTypes, HopperOps, Same
<1>3. \A which \in {"write", "new", "old"} : hopper_ops[which].state = "none"
  BY <1>2 DEF FailingHopper!RunReturns, FailingHopper!Outstanding, HopperOps
<1>4. /\ hopper_ops.write.state = "none" /\ hopper_ops.new.state = "none"
      /\ hopper_ops.old.state = "none"
  BY <1>3
<1> QED
  BY <1>1, <1>2, <1>4, HopperAfterRun

LEMMA HopperNext == ASSUME HopperInv, [FailingHopper!Next]_hopper_vars PROVE HopperInv'
<1>1. CASE UNCHANGED hopper_vars
  BY <1>1, FewerFrames DEF hopper_vars
<1>2. CASE FailingHopper!Lose
  BY <1>2, FewerFrames DEF FailingHopper!Lose
<1>3. FailingHopper!Numbers = Numbers
  BY DEF FailingHopper!Numbers, Numbers
<1> QED
  BY <1>1, <1>2, <1>3, HopperServer, HopperBreak, HopperStart, HopperReceive,
    HopperReceiveFails, HopperRenegotiate, HopperWrites, HopperNewReceives, HopperOldReceives,
    HopperAsyncFails, HopperHandleWrite, HopperHandleNew, HopperHandleOld, HopperRunReturns
    DEF FailingHopper!Next, FailingHopper!Handlers

LEMMA HopperListensOn ==
  ASSUME HopperInv, Listening, [Undisturbed]_hopper_vars PROVE Listening'
<1>1. CASE UNCHANGED hopper_vars \/ FailingHopper!Lose
  BY <1>1 DEF hopper_vars, FailingHopper!Lose, Listening
<1>2. CASE FailingHopper!Server \/ FailingHopper!WriteCompletes
  BY <1>2, HopperServer, HopperWrites DEF Listening
<1>3. ASSUME NEW port \in Ports, FailingHopper!StartClient(port) \/ FailingHopper!Renegotiate(port)
      PROVE  Listening'
  <2>1. FailingHopper!StartClient(port) => hopper_ops.old.state = "none"
    BY DEF HopperInv, FailingHopper!StartClient
  <2> QED
    BY <1>3, <2>1, HopperStart, HopperRenegotiate DEF Listening
<1>4. ASSUME NEW number \in Numbers,
             \/ FailingHopper!Receive(number) \/ FailingHopper!NewReceives(number)
             \/ FailingHopper!OldReceives(number)
      PROVE  Listening'
  BY <1>4, HopperReceive, HopperNewReceives, HopperOldReceives DEF Listening
<1>5. CASE FailingHopper!Handlers
  <2>1. CASE FailingHopper!HandleWrite
    BY <2>1, HopperHandleWrite DEF Listening
  <2>2. CASE FailingHopper!HandleNew
    <3>1. hopper_client.at = "renegotiating"
      BY <2>2 DEF FailingHopper!HandleNew, FailingHopper!Renegotiating
    <3> QED
      BY <2>2, <3>1, HopperHandleNew DEF Listening
  <2>3. CASE FailingHopper!HandleOld
    BY <2>3, HopperHandleOld DEF Listening
  <2>4. CASE FailingHopper!RunReturns
    BY <2>4, HopperRunReturns DEF Listening
  <2> QED
    BY <1>5, <2>1, <2>2, <2>3, <2>4 DEF FailingHopper!Handlers
<1>6. FailingHopper!Numbers = Numbers
  BY DEF FailingHopper!Numbers, Numbers
<1> QED
  BY <1>1, <1>2, <1>3, <1>4, <1>5, <1>6 DEF Undisturbed

-----------------------------------------------------------------------------
LEMMA HopperHolds == Spec => [](HopperInv /\ HopperListens)
<1>1. HopperInv /\ HopperListens /\ [Next]_vars => (HopperInv /\ HopperListens)'
  BY HopperSteps, HopperNext, HopperListensOn DEF HopperListens, Runs
<1> QED
  BY <1>1, HopperInit, PTL DEF Spec

(* The handover of the porthopper: the server sends frames to one port of  *)
(* the client and never to one the living client has closed, however the   *)
(* handlers, the frames and the requests interleave, also when the control *)
(* connection breaks or a receive fails, and while nothing fails the old   *)
(* port is listened to until the new one is reached.                       *)
THEOREM PortsAreHandedOver == Spec => []Handover
<1>1. ASSUME HopperInv PROVE Hopper!Handover
  <2>1. \E port : hopper_server.subscribers \subseteq {port}
    BY <1>1 DEF HopperInv, Replaces
  <2>2. hopper_server.subscribers = {} \/ \E port : hopper_server.subscribers = {port}
    BY <2>1
  <2>3. Cardinality(hopper_server.subscribers) <= 1
    <3>1. Cardinality({}) = 0 /\ \A port : Cardinality({port}) = 1
      BY Zenon, FS_EmptySet, FS_Singleton
    <3>2. Cardinality(hopper_server.subscribers) \in {0, 1}
      BY Zenon, <2>2, <3>1
    <3> QED
      BY <3>2
  <2>4. Hopper!Cardinality(hopper_server.subscribers) = Cardinality(hopper_server.subscribers)
    BY DEF Hopper!Cardinality, Cardinality
  <2>5. ASSUME hopper_client.at # "thrown" PROVE hopper_server.subscribers \subseteq Hopper!Open
    <3>1. hopper_client.at \in {"start", "receiving", "renegotiating"}
      BY <1>1, <2>5 DEF HopperInv, HopperTypes, HopperClients
    <3> QED
      BY <1>1, <3>1, HopperBounds DEF HopperInv, Starting, Receiving, Changing, Moved, NotMoved,
        Subscribed, Hopper!Open, Hopper!NoPort, NoPort
  <2> QED
    BY <2>3, <2>4, <2>5 DEF Hopper!Handover
<1>2. ASSUME HopperListens PROVE Runs("porthopper") => Hopper!StillListening
  BY <1>2 DEF HopperListens, Listening, Hopper!StillListening, Hopper!Renegotiating,
    Hopper!Outstanding, Hopper!NoPort, NoPort
<1> QED
  BY <1>1, <1>2, HopperHolds, PTL DEF Handover

(* Every function returns with its operations settled: the blocking        *)
(* clients never return while an operation is under way whose handler      *)
(* writes to their locals, blocking_tcp_client.cpp connects only to an     *)
(* open socket, and the porthopper client leaves its loop with nothing     *)
(* outstanding, whatever fails.                                            *)
THEOREM ReturnsAreSettled == Spec => []Settled
<1>1. ASSUME HopperInv PROVE Hopper!NothingLeftBehind
  <2>1. DOMAIN hopper_ops = {"write", "new", "old"}
    BY <1>1 DEF HopperInv, HopperTypes
  <2> QED
    BY <1>1, <2>1 DEF HopperInv, Hopper!NothingLeftBehind, Hopper!Renegotiating, Hopper!Outstanding
<1>2. BlockingInv /\ [Next]_vars => BlockingInv'
  BY BlockingSteps, BlockingNext
<1>3. BlockingInv => Blocking!NoDanglingHandler /\ Blocking!ConnectedIsOpen
  BY DEF BlockingInv
<1> QED
  BY <1>1, <1>2, <1>3, BlockingInit, HopperHolds, PTL DEF Spec, Settled
-----------------------------------------------------------------------------
(* What the invariants of the examples say of the types of their variables. *)
LEMMA ServerTypes ==
  ASSUME ServerInv, subscribers \subseteq Sessions
  PROVE  Server!TypeOK
<1> SUFFICES ASSUME NEW s \in Sessions, NEW r, r = session[s]
             PROVE  /\ r.state \in {"new", "open", "closed"}
                    /\ r.read \in Server!Ops \ {"ok"} /\ r.write \in Server!Ops \ {"text", "beat"}
                    /\ r.queue \in Seq({"text", "beat"})
                    /\ r.non_empty.left \in {Server!Never, Server!Now}
                    /\ \A d \in Server!Deadlines : r[d].left \in {Server!Never} \cup 0..Deadline
  BY DEF Server!TypeOK
<1>1. r \in SessionStates
  BY DEF ServerInv, Sound
<1>2. /\ r.state \in {"new", "open", "closed"}
      /\ r.read \in Server!Ops \ {"ok"} /\ r.write \in Server!Ops \ {"text", "beat"}
      /\ r.queue \in Seq({"text", "beat"})
  BY <1>1 DEF SessionStates, Server!Ops
<1>3. r.non_empty.left \in {Server!Never, Server!Now}
  BY <1>1 DEF SessionStates, Conditions, Server!Never, Server!Now
<1>4. r.input_deadline \in Watches /\ r.output_deadline \in Watches
  BY <1>1 DEF SessionStates
<1>5. \A t \in Watches : t.left \in {Server!Never} \cup 0..Deadline
  BY ExamplesAssumption DEF Watches, Server!Never, Server!TimeoutAssumption
<1> QED
  BY <1>2, <1>3, <1>4, <1>5 DEF Server!Deadlines

LEMMA SubscribersAreSessions ==
  ASSUME subscribers \subseteq Sessions, [Server!Next]_server_vars
  PROVE  (subscribers \subseteq Sessions)'
<1>1. \A r : \A s \in Sessions : Server!Becomes(s, r) => (subscribers \subseteq Sessions)'
  BY DEF Server!Becomes
<1>2. ASSUME NEW s \in Sessions,
             \/ Server!HandleAccept(s) \/ Server!HandleRead(s) \/ Server!HandleAwaitOutput(s)
             \/ Server!HandleWrite(s) \/ \E d \in Server!Deadlines : Server!CheckDeadline(s, d)
      PROVE  (subscribers \subseteq Sessions)'
  BY <1>1, <1>2 DEF Server!HandleAccept, Server!HandleRead, Server!HandleAwaitOutput,
    Server!HandleWrite, Server!CheckDeadline
<1> QED
  BY <1>2 DEF server_vars, Server!Next, Server!Handler, Server!HandleOther, Server!Tick,
    Server!Receive, Server!Transmit, Server!Break

LEMMA HopperHasTypes == ASSUME HopperInv PROVE Hopper!TypeOK
<1> USE DEF Hopper!NoPort, NoPort, Hopper!Numbers, Numbers, Hopper!States, Operations
<1>1. HopperTypes
  BY DEF HopperInv
<1>2. hopper_server \in HopperServers /\ hopper_client \in HopperClients
  BY <1>1 DEF HopperTypes
<1>3. hopper_ops \in [{"write", "new", "old"} -> Hopper!States]
  <2>1. hopper_ops \in HopperOps
    BY <1>1 DEF HopperTypes, HopperOps
  <2> QED
    BY <2>1 DEF HopperOps
<1> QED
  BY <1>1, <1>2, <1>3 DEF Hopper!TypeOK, HopperTypes, HopperServers, HopperClients, PortOrNone

LEMMA OtherTypes ==
  /\ HttpInv => Http!TypeOK
  /\ LibraryInv => Library!TypeOK
  /\ PingInv => Pinger!TypeOK
  /\ BlockingInv => Blocking!TypeOK
  /\ ClientInv => Client!TypeOK
<1>1. HttpInv => Http!TypeOK
  BY DEF HttpInv, HttpOps, Http!TypeOK
<1>2. LibraryInv => Library!TypeOK
  <2> SUFFICES ASSUME LibraryInv PROVE Library!TypeOK
    OBVIOUS
  <2>1. waits \in [{"read", "write"} -> {"none", "pending", "ready", "aborted"}]
    <3>1. waits \in [read : WaitStates, write : WaitStates]
      BY DEF LibraryInv, Wanted
    <3> QED
      BY <3>1 DEF WaitStates
  <2> QED
    BY <2>1 DEF LibraryInv, Libraries, Library!TypeOK, Library!Waits
<1>3. PingInv => Pinger!TypeOK
  BY ExamplesAssumption DEF PingInv, Pinger!TypeOK, Pinger!OwnReply, Pinger!None,
    Pinger!PingAssumption
<1>4. BlockingInv => Blocking!TypeOK
  BY ExamplesAssumption DEF BlockingInv, Blocking!TypeOK, Blocking!Never, Blocking!Outstanding,
    Timers, Waits, Blocking!BlockingAssumption
<1>5. ClientInv => Client!TypeOK
  BY DEF ClientInv, ClientStates, ClientOps, ClientDeadlines, Heartbeats, Client!TypeOK,
    Client!Ops, Client!Never
<1> QED
  BY <1>1, <1>2, <1>3, <1>4, <1>5

(* The variables of all the examples keep their types: a queue holds       *)
(* messages only, a timer never runs longer than it was set for, a buffer  *)
(* never holds more than it has room for, sequence numbers wrap, the       *)
(* blocking clients have one wait of their deadline and no handler of any  *)
(* program finds an operation in a state it does not expect.               *)
THEOREM ExamplesTypes == Spec => []TypeOK
<1> DEFINE Inv == /\ program \in Programs /\ subscribers \subseteq Sessions
                  /\ ServerInv /\ ClientInv /\ BlockingInv /\ SpawnInv
                  /\ HttpInv /\ LibraryInv /\ PingInv
<1>1. Init => Inv
  BY ServerInit, ClientInit, BlockingInit, SpawnInit, HttpInit, LibraryInit, PingInit
    DEF Init, Server!Init
<1>2. Inv /\ [Next]_vars => Inv'
  <2> SUFFICES ASSUME Inv, [Next]_vars PROVE Inv'
    OBVIOUS
  <2>1. UNCHANGED program
    BY DEF vars, Next, Alone
  <2>2. ServerInv' /\ (subscribers \subseteq Sessions)'
    BY ServerSteps, ServerNext, SubscribersAreSessions
  <2>3. ClientInv' /\ BlockingInv' /\ SpawnInv'
    BY ClientSteps, ClientNext, BlockingSteps, BlockingNext, SpawnedSteps, SpawnNext
  <2>4. HttpInv' /\ LibraryInv' /\ PingInv'
    BY HttpSteps, HttpNext, LibrarySteps, LibraryNext, PingerSteps, PingNext
  <2> QED
    BY <2>1, <2>2, <2>3, <2>4
<1>3. Inv /\ HopperInv => TypeOK
  BY ServerTypes, HopperHasTypes, OtherTypes DEF TypeOK, SpawnInv
<1> HIDE DEF Inv
<1> QED
  BY <1>1, <1>2, <1>3, HopperHolds, PTL DEF Spec
=============================================================================
