----------------------------- MODULE PortHopper -----------------------------
(***************************************************************************)
(* The port hopper of the asio examples (cpp03/porthopper): the server     *)
(* sends a frame to every subscribed port each time its timer fires, and   *)
(* handles the control requests of a TCP connection two seconds after they *)
(* arrived; the client moves from port to port, and keeps reading the old  *)
(* one until a frame reaches the new one.  Frames travel over UDP: they    *)
(* may be lost, duplicated and overtaken.  One client is modelled: the     *)
(* ports of another address never meet its own.                            *)
(***************************************************************************)
EXTENDS Naturals, Sequences, FiniteSets

CONSTANTS
  Ports,            \* the UDP ports the client may be given
  FramesPerPort,    \* frames read before the client moves on (50)
  MaxFrame,         \* bound: every later frame carries this number
  MaxInFlight,      \* bound on the frames in transit to a port: one more is lost
  MaxLost,          \* bound on the other frames that are lost
  Faults            \* what may fail: the control "connection", a "receive"

NoPort == 0

PortHopperAssumption ==
  /\ NoPort \notin Ports
  /\ FramesPerPort \in Nat \ {0} /\ MaxFrame \in Nat \ {0} /\ MaxInFlight \in Nat \ {0}
  /\ MaxLost \in Nat
  /\ Faults \subseteq {"connection", "receive"}

VARIABLES
  server,           \* the members of the server, and its side of the connection
  client,           \* the locals of the client's main
  ops,              \* the client's asynchronous operations: write, new and old
  control,          \* the requests on the way to the server
  connection,       \* "none", "open" or "broken"
  frames,           \* the frames in transit, <<port, number>>
  lost              \* how many frames were lost

vars == <<server, client, ops, control, connection, frames, lost>>

(* The requests of protocol.hpp; port 0 stands for none. *)
Start(port) == [old_port |-> NoPort, new_port |-> port]
Change(old, new) == [old_port |-> old, new_port |-> new]
NoRequest == [old_port |-> NoPort, new_port |-> NoPort]

(* An operation: none, pending, or completed with its handler queued. *)
Idle == [state |-> "none", number |-> 0]
Pending == [state |-> "pending", number |-> 0]
Ok(number) == [state |-> "ok", number |-> number]
Failed == [state |-> "error", number |-> 0]
Outstanding(op) == op.state # "none"

Open == {client.data_socket, client.new_data_socket} \ {NoPort}
Renegotiating == client.at = "renegotiating"

Init ==
  /\ server = [subscribers |-> {}, next_frame_number |-> 1, at |-> "accepting",
               request |-> NoRequest]
  /\ client = [at |-> "start", data_socket |-> NoPort, new_data_socket |-> NoPort,
               data_endpoint |-> NoPort, received |-> 0, last_frame_number |-> 0,
               control_result |-> "ok", new_data_socket_result |-> "ok",
               f1 |-> 0, f2 |-> 0, done |-> FALSE]
  /\ ops = [write |-> Idle, new |-> Idle, old |-> Idle]
  /\ control = <<>>
  /\ connection = "none"
  /\ frames = {} /\ lost = 0

-----------------------------------------------------------------------------
(* The server.  Its side of the connection is accepting, reading a         *)
(* request, delaying it, or over.                                          *)

HandleAccept ==
  /\ server.at = "accepting" /\ connection # "none"
  /\ server' = [server EXCEPT !.at = "reading"]
  /\ UNCHANGED <<client, ops, control, connection, frames, lost>>

HandleControlRequest ==
  /\ server.at = "reading" /\ control # <<>>
  /\ server' = [server EXCEPT !.at = "delaying", !.request = Head(control)]
  /\ control' = Tail(control)
  /\ UNCHANGED <<client, ops, connection, frames, lost>>

(* A read that fails is not repeated: the connection is forgotten. *)
HandleControlRequestError ==
  /\ server.at = "reading" /\ connection = "broken"
  /\ server' = [server EXCEPT !.at = "over"]
  /\ UNCHANGED <<client, ops, control, connection, frames, lost>>

(* Mutant: the old subscription is kept. *)
AppliedAdds(subscribers, request) == subscribers \cup ({request.new_port} \ {NoPort})

Applied(subscribers, request) ==
  (subscribers \ {request.old_port}) \cup ({request.new_port} \ {NoPort})

(* Mutant: a handled request is the last one that is read. *)
HandleControlRequestTimerOnce ==
  /\ server.at = "delaying"
  /\ server' = [server EXCEPT !.at = "over", !.request = NoRequest,
                  !.subscribers = Applied(@, server.request)]
  /\ UNCHANGED <<client, ops, control, connection, frames, lost>>

(* remote_endpoint fails when the connection is broken. *)
HandleControlRequestTimer ==
  /\ server.at = "delaying"
  /\ server' = [server EXCEPT !.at = "reading", !.request = NoRequest,
                  !.subscribers = IF connection = "open"
                                  THEN Applied(@, server.request) ELSE @]
  /\ UNCHANGED <<client, ops, control, connection, frames, lost>>

InFlight(port) == Cardinality({frame \in frames : frame[1] = port})

(* A frame for a port nobody has open is dropped on arrival. *)
HandleTimer ==
  /\ frames' = frames \cup {<<port, server.next_frame_number>> :
                  port \in {p \in server.subscribers \cap Open : InFlight(p) < MaxInFlight}}
  /\ server' = [server EXCEPT !.next_frame_number = IF @ < MaxFrame THEN @ + 1 ELSE @]
  /\ UNCHANGED <<client, ops, control, connection, lost>>

-----------------------------------------------------------------------------
(* The network. *)

Lose ==
  /\ lost < MaxLost /\ lost' = lost + 1
  /\ \E frame \in frames : frames' = frames \ {frame}
  /\ UNCHANGED <<server, client, ops, control, connection>>

Break ==
  /\ "connection" \in Faults /\ connection = "open"
  /\ connection' = "broken" /\ control' = <<>>
  /\ UNCHANGED <<server, client, ops, frames, lost>>

(* A frame reaches a reader; it may be a duplicate, whose twin follows. *)
Arrives(port, number) ==
  /\ <<port, number>> \in frames
  /\ frames' \in {frames, frames \ {<<port, number>>}}

-----------------------------------------------------------------------------
(* The client.  An exception ends it. *)

Thrown(c) ==
  [c EXCEPT !.at = "thrown", !.data_socket = NoPort, !.new_data_socket = NoPort]

Printed(c, number) ==
  [c EXCEPT !.last_frame_number = IF number > @ THEN number ELSE @]

(* connect, the first data socket and the start request. *)
StartClient(port) ==
  /\ client.at = "start"
  /\ client' = [client EXCEPT !.at = "receiving", !.data_socket = port, !.data_endpoint = port]
  /\ connection' = "open"
  /\ control' = <<Start(port)>>
  /\ UNCHANGED <<server, ops, frames, lost>>

(* data_socket->receive *)
Receive(number) ==
  /\ client.at = "receiving" /\ client.received < FramesPerPort
  /\ Arrives(client.data_socket, number)
  /\ client' = [Printed(client, number) EXCEPT !.received = @ + 1]
  /\ UNCHANGED <<server, ops, control, connection, lost>>

ReceiveFails ==
  /\ "receive" \in Faults /\ client.at = "receiving" /\ client.received < FramesPerPort
  /\ client' = Thrown(client)
  /\ UNCHANGED <<server, ops, control, connection, frames, lost>>

(* Mutant: the old socket is not read while the ports change. *)
OldReceiveOnce(c) == Idle

(* One round of the loop: an optimistic done, a receive on the old socket  *)
(* if it is still there, and run.                                          *)
Round(c) == [c EXCEPT !.done = TRUE, !.f2 = 0]
OldReceive(c) == IF c.data_socket = NoPort THEN Idle ELSE Pending

(* The operating system gives out a port that is free and that no frame of *)
(* an earlier use is on its way to.                                        *)
Renegotiate(port) ==
  /\ client.at = "receiving" /\ client.received = FramesPerPort
  /\ port \notin Open /\ \A frame \in frames : frame[1] # port
  /\ client' = [Round(client) EXCEPT !.at = "renegotiating", !.new_data_socket = port,
                  !.control_result = "ok", !.new_data_socket_result = "ok", !.f1 = 0]
  /\ ops' = [write |-> Pending, new |-> Pending, old |-> OldReceive(client)]
  /\ UNCHANGED <<server, control, connection, frames, lost>>

WriteCompletes ==
  /\ ops.write.state = "pending"
  /\ IF connection = "open"
     THEN /\ control' = Append(control, Change(client.data_endpoint, client.new_data_socket))
          /\ ops' = [ops EXCEPT !.write = Ok(0)]
     ELSE ops' = [ops EXCEPT !.write = Failed] /\ UNCHANGED control
  /\ UNCHANGED <<server, client, connection, frames, lost>>

NewReceives(number) ==
  /\ ops.new.state = "pending" /\ Arrives(client.new_data_socket, number)
  /\ ops' = [ops EXCEPT !.new = Ok(number)]
  /\ UNCHANGED <<server, client, control, connection, lost>>

OldReceives(number) ==
  /\ ops.old.state = "pending" /\ Arrives(client.data_socket, number)
  /\ ops' = [ops EXCEPT !.old = Ok(number)]
  /\ UNCHANGED <<server, client, control, connection, lost>>

AsyncReceiveFails(which) ==
  /\ "receive" \in Faults /\ ops[which].state = "pending"
  /\ ops' = [ops EXCEPT ![which] = Failed]
  /\ UNCHANGED <<server, client, control, connection, frames, lost>>

(* run has returned, with the locals c and the operations o: the loop goes *)
(* round, or ends with an exception or with the new socket.                *)
AfterRun(c, o) ==
  IF ~c.done
  THEN /\ client' = Round(Printed(c, c.f2))
       /\ ops' = [o EXCEPT !.old = OldReceive(c)]
  ELSE /\ client' = IF "error" \in {c.control_result, c.new_data_socket_result}
                    THEN Thrown(c)
                    ELSE [Printed(c, c.f1) EXCEPT
                            !.at = "receiving", !.received = 0, !.new_data_socket = NoPort,
                            !.data_socket = c.new_data_socket,
                            !.data_endpoint = c.new_data_socket]
       /\ ops' = o

HandleWrite ==
  /\ Renegotiating /\ ops.write.state \in {"ok", "error"}
  /\ client' = [client EXCEPT !.control_result = ops.write.state]
  /\ ops' = [ops EXCEPT !.write = Idle]
  /\ UNCHANGED <<server, control, connection, frames, lost>>

(* The handler of the new socket closes the old one, which aborts its      *)
(* receive unless that has completed; frames on their way to it are lost.  *)
HandleNew ==
  /\ Renegotiating /\ ops.new.state \in {"ok", "error"}
  /\ LET ok == ops.new.state = "ok" IN
     /\ client' = [client EXCEPT !.new_data_socket_result = ops.new.state,
                                 !.f1 = ops.new.number,
                                 !.data_socket = IF ok THEN NoPort ELSE @]
     /\ ops' = [ops EXCEPT !.new = Idle,
                           !.old = IF ok /\ @.state = "pending" THEN Failed ELSE @]
     /\ frames' = IF ok THEN {frame \in frames : frame[1] # client.data_socket} ELSE frames
  /\ UNCHANGED <<server, control, connection, lost>>

(* Mutant: the handler of the old socket does not reset done. *)
HandleOldDone ==
  /\ Renegotiating /\ ops.old.state \in {"ok", "error"}
  /\ LET o == [ops EXCEPT !.old = Idle] IN
     IF ops.old.state = "ok"
     THEN AfterRun([client EXCEPT !.f2 = ops.old.number], o)
     ELSE ops' = o /\ UNCHANGED client
  /\ UNCHANGED <<server, control, connection, frames, lost>>

(* The handler of the old socket stops the io_service, so that run returns *)
(* and the frame is printed; what else is ready waits for the next round.  *)
HandleOld ==
  /\ Renegotiating /\ ops.old.state \in {"ok", "error"}
  /\ LET o == [ops EXCEPT !.old = Idle] IN
     IF ops.old.state = "ok"
     THEN AfterRun([client EXCEPT !.done = FALSE, !.f2 = ops.old.number], o)
     ELSE ops' = o /\ UNCHANGED client
  /\ UNCHANGED <<server, control, connection, frames, lost>>

(* run also returns when no operation is left. *)
RunReturns ==
  /\ Renegotiating /\ \A which \in DOMAIN ops : ~Outstanding(ops[which])
  /\ AfterRun(client, ops)
  /\ UNCHANGED <<server, control, connection, frames, lost>>

-----------------------------------------------------------------------------
Numbers == 1..MaxFrame

Server ==
  \/ HandleAccept \/ HandleControlRequest \/ HandleControlRequestError
  \/ HandleControlRequestTimer \/ HandleTimer

Handlers == HandleWrite \/ HandleNew \/ HandleOld \/ RunReturns

Next ==
  \/ Server
  \/ Handlers
  \/ Lose \/ Break
  \/ \E port \in Ports : StartClient(port) \/ Renegotiate(port)
  \/ \E number \in Numbers : Receive(number) \/ NewReceives(number) \/ OldReceives(number)
  \/ WriteCompletes
  \/ ReceiveFails \/ \E which \in {"new", "old"} : AsyncReceiveFails(which)

Spec == Init /\ [][Next]_vars

-----------------------------------------------------------------------------
States == [state : {"none", "pending", "ok", "error"}, number : 0..MaxFrame]

TypeOK ==
  /\ server.subscribers \subseteq Ports /\ server.next_frame_number \in Numbers
  /\ client.at \in {"start", "receiving", "renegotiating", "thrown"}
  /\ {client.data_socket, client.new_data_socket} \subseteq Ports \cup {NoPort}
  /\ client.last_frame_number \in 0..MaxFrame /\ client.received \in 0..FramesPerPort
  /\ ops \in [{"write", "new", "old"} -> States]
  /\ frames \subseteq Ports \X Numbers

(* The server never sends frames to two ports of the client, nor to a port *)
(* the living client has closed: the old socket outlives its subscription, *)
(* whatever the order of the handlers, of the frames and of the requests.  *)
Handover ==
  /\ Cardinality(server.subscribers) <= 1
  /\ client.at # "thrown" => server.subscribers \subseteq Open

(* The buffers the operations write to are locals of the loop: when it is  *)
(* left, by completion or by exception, no operation is under way.         *)
NothingLeftBehind ==
  ~Renegotiating => \A which \in DOMAIN ops : ~Outstanding(ops[which])

(* While the ports change and the old socket is open, a receive on it is   *)
(* under way or its frame is about to be printed, unless a receive failed. *)
StillListening ==
  Renegotiating /\ client.data_socket # NoPort /\ "receive" \notin Faults =>
    Outstanding(ops.old)

(* Every renegotiation ends, whatever is overtaken, duplicated or lost,    *)
(* while nothing fails.                                                    *)
Completes == Renegotiating ~> client.at = "receiving"
=============================================================================
