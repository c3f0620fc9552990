-------------------------------- MODULE Chat --------------------------------
(***************************************************************************)
(* The chat server and its clients (cpp03/chat; cpp11/chat is the same     *)
(* program with lambdas).  A connection has two ends, the chat_client and  *)
(* the chat_session of the server, which read and write in the same way.   *)
(*                                                                         *)
(* asio is external: an asynchronous write moves its buffer in pieces (the *)
(* header and the body), then its handler runs; a TCP stream keeps the     *)
(* order; when a connection is cut operations fail at any point.  Every    *)
(* io_service is run by one thread, so handlers do not overlap.            *)
(***************************************************************************)
EXTENDS Integers, Sequences, SequencesExt

CONSTANTS
  Clients,    \* one connection each
  Posix,      \* the clients that are posix_chat_client
  MaxRecent,  \* max_recent_msgs, 100 in the code
  Lines,      \* bound: the number of lines a client types
  Faulty      \* the clients that quit, lose the connection, send a bad header

ASSUME ChatAssumption ==
  /\ IsFiniteSet(Clients) /\ Posix \subseteq Clients /\ Faulty \subseteq Clients
  /\ MaxRecent \in Nat /\ Lines \in [Clients -> Nat]

VARIABLES
  conn,          \* per client: new, connected (TCP), accepted (by the server)
  cut,           \* per client: the connection is closed or broken
  typed,         \* per client: the number of lines typed
  posted,        \* per chat_client: handlers posted by the thread that reads the input
  queue,         \* write_msgs_ of an end
  writes,        \* the asynchronous writes of an end under way: what is left of each
  wire,          \* the pieces an end has sent that the other has not read
  reading,       \* per end: off, header, body, and output for posix_chat_client
  participants, recent,      \* chat_room
  log, since, heard          \* history: what was said and what was printed

room == <<participants, recent, log, since>>
ends == <<queue, writes, wire, reading>>
vars == <<conn, cut, typed, posted, queue, writes, wire, reading,
          participants, recent, log, since, heard>>

Client(c) == <<c, "client">>
Session(c) == <<c, "session">>
Ends == Clients \X {"client", "session"}
Peer(x) == <<x[1], IF x[2] = "client" THEN "session" ELSE "client">>

Message(c, n) == [by |-> c, n |-> n]
Header(m) == [part |-> "header", of |-> m]
Body(m) == [part |-> "body", of |-> m]
Bad == [part |-> "bad", of |-> Message("nobody", 0)]
Buffer(m) == <<Header(m), Body(m)>>

(* decode_header *)
Decodes(piece) == piece.part = "header"

Init ==
  /\ conn = [c \in Clients |-> "new"]
  /\ cut = [c \in Clients |-> FALSE]
  /\ typed = [c \in Clients |-> 0]
  /\ posted = [c \in Clients |-> <<>>]
  /\ queue = [x \in Ends |-> <<>>]
  /\ writes = [x \in Ends |-> <<>>]
  /\ wire = [x \in Ends |-> <<>>]
  /\ reading = [x \in Ends |-> "off"]
  /\ participants = {}
  /\ recent = <<>>
  /\ log = <<>>
  /\ since = [c \in Clients |-> 0]
  /\ heard = [c \in Clients |-> <<>>]
------------------------------------------------------------------------------
(* Mutant: deliver starts a write although one is in progress. *)
QueueAllAtOnce(xs, ms) ==
  /\ queue' = [x \in Ends |-> IF x \in xs THEN queue[x] \o ms ELSE queue[x]]
  /\ writes' = [x \in Ends |->
                  IF x \in xs /\ ms # <<>>
                  THEN Append(writes[x], Buffer(ms[1])) ELSE writes[x]]

(* deliver of chat_session and do_write of chat_client, of messages ms to  *)
(* the ends xs: append, and start a write only if none is in progress.     *)
QueueAll(xs, ms) ==
  /\ queue' = [x \in Ends |-> IF x \in xs THEN queue[x] \o ms ELSE queue[x]]
  /\ writes' = [x \in Ends |->
                  IF x \in xs /\ queue[x] = <<>> /\ ms # <<>>
                  THEN Append(writes[x], Buffer(ms[1])) ELSE writes[x]]

(* do_close, close of posix_chat_client: every operation of the socket ends *)
(* with an error, whose handler only closes again, except a write that was  *)
(* complete and whose handler waits to be called.                           *)
Done(w) == w = <<>>
Close(c) ==
  /\ cut' = [cut EXCEPT ![c] = TRUE]
  /\ reading' = [reading EXCEPT ![Client(c)] = "off"]
  /\ writes' = [writes EXCEPT ![Client(c)] = IF \E w \in Range(@) : Done(w) THEN <<<<>>>> ELSE <<>>]

(* The socket of the client is connected and it has not closed it. *)
Open(c) == reading[Client(c)] # "off"

(* room_.leave *)
Leave(c) ==
  /\ participants' = participants \ {c}
  /\ UNCHANGED <<recent, log, since>>

(* Mutant: handle_read_header forgets to leave the room. *)
FailReadStays(x) ==
  \/ x[2] = "client" /\ Close(x[1]) /\ UNCHANGED room
  \/ /\ x[2] = "session"
     /\ reading' = [reading EXCEPT ![x] = "off"]
     /\ UNCHANGED <<cut, writes, room>>

(* An operation of end x ended with an error: the client closes, the       *)
(* session leaves the room; its socket lives as long as its other          *)
(* operations.                                                             *)
FailRead(x) ==
  \/ x[2] = "client" /\ Close(x[1]) /\ UNCHANGED room
  \/ /\ x[2] = "session" /\ Leave(x[1])
     /\ reading' = [reading EXCEPT ![x] = "off"]
     /\ UNCHANGED <<cut, writes>>
FailWrite(x) ==
  \/ x[2] = "client" /\ Close(x[1]) /\ UNCHANGED room
  \/ /\ x[2] = "session" /\ Leave(x[1])
     /\ writes' = [writes EXCEPT ![x] = <<>>]
     /\ UNCHANGED <<cut, reading>>
------------------------------------------------------------------------------
(* async_connect succeeds: handle_connect. *)
HandleConnect(c) ==
  /\ conn[c] = "new" /\ ~cut[c]
  /\ conn' = [conn EXCEPT ![c] = "connected"]
  /\ reading' = [reading EXCEPT ![Client(c)] = "header"]
  /\ UNCHANGED <<cut, typed, posted, queue, writes, wire, heard, room>>

(* Mutant: join does not deliver the recent messages. *)
HandleAcceptSilent(c) ==
  /\ conn[c] = "connected"
  /\ conn' = [conn EXCEPT ![c] = "accepted"]
  /\ participants' = participants \cup {c}
  /\ reading' = [reading EXCEPT ![Session(c)] = "header"]
  /\ since' = [since EXCEPT ![c] = Len(log) - Len(recent) + 1]
  /\ UNCHANGED <<cut, typed, posted, queue, writes, wire, recent, log, heard>>

(* handle_accept: session->start, join, and the recent messages delivered. *)
HandleAccept(c) ==
  /\ conn[c] = "connected"
  /\ conn' = [conn EXCEPT ![c] = "accepted"]
  /\ participants' = participants \cup {c}
  /\ QueueAll({Session(c)}, recent)
  /\ reading' = [reading EXCEPT ![Session(c)] = "header"]
  /\ since' = [since EXCEPT ![c] = Len(log) - Len(recent) + 1]
  /\ UNCHANGED <<cut, typed, posted, wire, recent, log, heard>>

(* main reads a line and posts do_write. *)
Type(c) ==
  /\ c \notin Posix /\ typed[c] < Lines[c]
  /\ typed' = [typed EXCEPT ![c] = @ + 1]
  /\ posted' = [posted EXCEPT ![c] = Append(@, Message(c, typed[c] + 1))]
  /\ UNCHANGED <<conn, cut, ends, room, heard>>

(* Mutant: do_write only queues the message. *)
DoWriteSilently(c) ==
  /\ posted[c] # <<>>
  /\ posted' = [posted EXCEPT ![c] = Tail(@)]
  /\ queue' = [queue EXCEPT ![Client(c)] = Append(@, Head(posted[c]))]
  /\ UNCHANGED <<conn, cut, typed, writes, wire, reading, room, heard>>

(* do_write *)
DoWrite(c) ==
  /\ posted[c] # <<>>
  /\ posted' = [posted EXCEPT ![c] = Tail(@)]
  /\ QueueAll({Client(c)}, <<Head(posted[c])>>)
  /\ UNCHANGED <<conn, cut, typed, wire, reading, room, heard>>

(* handle_read_input of posix_chat_client: the next line is read when the  *)
(* last one has been written.                                              *)
HandleReadInput(c) ==
  /\ c \in Posix /\ typed[c] < Lines[c]
  /\ Open(c) /\ queue[Client(c)] = <<>>
  /\ typed' = [typed EXCEPT ![c] = @ + 1]
  /\ QueueAll({Client(c)}, <<Message(c, typed[c] + 1)>>)
  /\ UNCHANGED <<conn, cut, posted, wire, reading, room, heard>>

(* End of input: the chat_client posts close behind its lines, the         *)
(* posix_chat_client closes at once.                                       *)
Quit(c) ==
  /\ c \in Faulty /\ posted[c] = <<>>
  /\ c \in Posix => Open(c) /\ queue[Client(c)] = <<>>
  /\ typed' = [typed EXCEPT ![c] = Lines[c]]
  /\ Close(c)
  /\ UNCHANGED <<conn, posted, queue, wire, room, heard>>
------------------------------------------------------------------------------
(* A piece of one of the writes under way of x is sent. *)
Transfer(x) ==
  /\ x[2] = "client" => Open(x[1])
  /\ \E i \in DOMAIN writes[x] :
     /\ writes[x][i] # <<>>
     /\ wire' = [wire EXCEPT ![x] = Append(@, Head(writes[x][i]))]
     /\ writes' = [writes EXCEPT ![x][i] = Tail(@)]
     /\ UNCHANGED <<conn, cut, typed, posted, queue, reading, room, heard>>

(* Mutant: handle_write does not start the next write. *)
HandleWriteStalls(x) ==
  \E i \in DOMAIN writes[x] :
     /\ writes[x][i] = <<>>
     /\ queue' = [queue EXCEPT ![x] = Tail(@)]
     /\ writes' = [writes EXCEPT ![x] = RemoveAt(@, i)]
     /\ UNCHANGED <<conn, cut, typed, posted, wire, reading, room, heard>>

(* handle_write without an error *)
HandleWrite(x) ==
  \E i \in DOMAIN writes[x] :
     /\ writes[x][i] = <<>>
     /\ queue' = [queue EXCEPT ![x] = Tail(@)]
     /\ writes' = [writes EXCEPT ![x] =
                     IF Len(queue[x]) > 1
                     THEN Append(RemoveAt(@, i), Buffer(queue[x][2])) ELSE RemoveAt(@, i)]
     /\ UNCHANGED <<conn, cut, typed, posted, wire, reading, room, heard>>

(* Mutant: handle_write ignores the error and writes the next message. *)
HandleWriteErrorSkips(x) ==
  /\ \E i \in DOMAIN writes[x] : ~Done(writes[x][i])
  /\ cut[x[1]] \/ conn[x[1]] = "new"
  /\ queue' = [queue EXCEPT ![x] = Tail(@)]
  /\ writes' = [writes EXCEPT ![x] = IF Len(queue[x]) > 1 THEN <<Buffer(queue[x][2])>> ELSE <<>>]
  /\ UNCHANGED <<conn, cut, typed, posted, reading, wire, room, heard>>

(* handle_write with an error: the message stays in front of the queue, so *)
(* that nothing is ever written again.  Depending on the system a write on *)
(* a socket that is still connecting waits or fails too.                   *)
HandleWriteError(x) ==
  /\ \E i \in DOMAIN writes[x] : ~Done(writes[x][i])
  /\ cut[x[1]] \/ conn[x[1]] = "new"
  /\ FailWrite(x)
  /\ UNCHANGED <<conn, typed, posted, queue, wire, heard>>

(* handle_read_header *)
HandleReadHeader(x) ==
  LET piece == Head(wire[Peer(x)]) IN
  /\ reading[x] = "header" /\ wire[Peer(x)] # <<>>
  /\ wire' = [wire EXCEPT ![Peer(x)] = Tail(@)]
  /\ IF Decodes(piece)
     THEN reading' = [reading EXCEPT ![x] = "body"] /\ UNCHANGED <<cut, writes, room>>
     ELSE FailRead(x)
  /\ UNCHANGED <<conn, typed, posted, queue, heard>>

(* handle_read_body of the session: room_.deliver to the recent messages   *)
(* and to every participant, then the next header.                         *)
SessionReadBody(c) ==
  LET x == Session(c)
      m == Head(wire[Client(c)]).of
      all == Append(recent, m) IN
  /\ reading[x] = "body" /\ wire[Client(c)] # <<>>
  /\ wire' = [wire EXCEPT ![Client(c)] = Tail(@)]
  /\ recent' = IF Len(all) > MaxRecent THEN Tail(all) ELSE all
  /\ log' = Append(log, m)
  /\ QueueAll({Session(p) : p \in participants}, <<m>>)
  /\ reading' = [reading EXCEPT ![x] = "header"]
  /\ UNCHANGED <<conn, cut, typed, posted, participants, since, heard>>

(* handle_read_body of the client prints the message; posix_chat_client    *)
(* first waits for its output.                                             *)
ClientReadBody(c) ==
  LET x == Client(c) IN
  /\ reading[x] = "body" /\ wire[Session(c)] # <<>>
  /\ wire' = [wire EXCEPT ![Session(c)] = Tail(@)]
  /\ heard' = [heard EXCEPT ![c] = Append(@, Head(wire[Session(c)]).of)]
  /\ reading' = [reading EXCEPT ![x] = IF c \in Posix THEN "output" ELSE "header"]
  /\ UNCHANGED <<conn, cut, typed, posted, queue, writes, room>>

HandleWriteOutput(c) ==
  /\ reading[Client(c)] = "output"
  /\ reading' = [reading EXCEPT ![Client(c)] = "header"]
  /\ UNCHANGED <<conn, cut, typed, posted, queue, writes, wire, room, heard>>

(* handle_read_header and handle_read_body with an error *)
HandleReadError(x) ==
  /\ cut[x[1]] /\ reading[x] \in {"header", "body"}
  /\ FailRead(x)
  /\ UNCHANGED <<conn, typed, posted, queue, wire, heard>>
------------------------------------------------------------------------------
(* The last operation of a session that left the room is over: the last    *)
(* shared_ptr to it goes and its socket is closed.                         *)
Destroy(c) ==
  /\ conn[c] = "accepted" /\ c \notin participants /\ ~cut[c]
  /\ reading[Session(c)] = "off" /\ writes[Session(c)] = <<>>
  /\ cut' = [cut EXCEPT ![c] = TRUE]
  /\ UNCHANGED <<conn, typed, posted, ends, room, heard>>

(* External: the connection breaks or cannot be made (handle_connect does  *)
(* nothing then); a peer that is not a chat_client sends a header that     *)
(* does not decode (its own messages are over then).                       *)
Break(c) ==
  /\ c \in Faulty /\ ~cut[c]
  /\ cut' = [cut EXCEPT ![c] = TRUE]
  /\ UNCHANGED <<conn, typed, posted, ends, room, heard>>

SendBad(c) ==
  /\ c \in Faulty /\ Open(c)
  /\ writes[Client(c)] = <<>> /\ Bad \notin Range(wire[Client(c)])
  /\ wire' = [wire EXCEPT ![Client(c)] = Append(@, Bad)]
  /\ UNCHANGED <<conn, cut, typed, posted, queue, writes, reading, room, heard>>

(* The handler of the read under way at x, and that of the write *)
ReadHandler(x) ==
  \/ HandleReadHeader(x) \/ HandleReadError(x)
  \/ x = Session(x[1]) /\ SessionReadBody(x[1])
  \/ x = Client(x[1]) /\ (ClientReadBody(x[1]) \/ HandleWriteOutput(x[1]))

WriteHandler(x) == HandleWrite(x) \/ HandleWriteError(x)

Next ==
  \/ \E c \in Clients :
       \/ HandleAccept(c) \/ HandleConnect(c) \/ DoWrite(c) \/ Destroy(c)
       \/ Type(c) \/ HandleReadInput(c) \/ Quit(c) \/ Break(c) \/ SendBad(c)
  \/ \E x \in Ends : Transfer(x) \/ ReadHandler(x) \/ WriteHandler(x)

Spec == Init /\ [][Next]_vars

(* Both io_services run, and the network delivers. *)
Fairness ==
  /\ \A c \in Clients :
       WF_vars(HandleConnect(c)) /\ WF_vars(HandleAccept(c)) /\ WF_vars(DoWrite(c)) /\ WF_vars(Destroy(c))
  /\ \A x \in Ends : WF_vars(Transfer(x)) /\ WF_vars(ReadHandler(x)) /\ WF_vars(WriteHandler(x))

FairSpec == Spec /\ Fairness
------------------------------------------------------------------------------
TypeOK ==
  /\ \A c \in Clients :
       /\ conn[c] \in {"new", "connected", "accepted"} /\ cut[c] \in BOOLEAN
       /\ typed[c] \in 0..Lines[c]
       /\ posted[c] \in Seq([by : {c}, n : 1..Lines[c]])
       /\ since[c] \in 0..(Len(log) + 1)
  /\ \A x \in Ends :
       /\ queue[x] \in Seq([by : Clients, n : Nat])
       /\ Len(writes[x]) <= 1
       /\ reading[x] \in {"off", "header", "body"} \cup
            {"output" : c \in {d \in Posix : x = Client(d)}}
  /\ participants \subseteq {c \in Clients : conn[c] = "accepted"}
  /\ Len(recent) <= MaxRecent

(* chat_room::deliver and chat_session::deliver lose nothing: what a       *)
(* participant has printed, what it will find on its wire, where every     *)
(* second piece is a body, and what its session still has to write is, in  *)
(* this order, the log from where it joined.                               *)
IsBody(piece) == piece.part = "body"
Sent(x) ==
  LET first == IF wire[x] # <<>> /\ IsBody(wire[x][1]) THEN 1 ELSE 2 IN
  [i \in 1..((Len(wire[x]) + 2 - first) \div 2) |-> wire[x][2 * (i - 1) + first].of]
Unsent(x) == IF writes[x] = <<<<>>>> THEN Tail(queue[x]) ELSE queue[x]
NothingSkipped ==
  \A c \in participants :
     heard[c] \o Sent(Session(c)) \o Unsent(Session(c)) = SubSeq(log, since[c], Len(log))

(* The room keeps the promise of ChatRoom. *)
Room == INSTANCE ChatRoom WITH log <- log, since <- since, heard <- heard
RoomSpec == Room!Spec

(* A line typed is said, and what is said is printed by every client that  *)
(* stays, unless the connection is lost: neither the queue of a session or *)
(* client nor the chain of its writes ever stalls.                         *)
AllLines == FoldFunction(+, 0, Lines)
EveryoneHears ==
  \A c \in Clients :
     /\ \A n \in 1..Lines[c] :
          (typed[c] >= n) ~> (Message(c, n) \in Range(log) \/ cut[c])
     /\ \A n \in 1..AllLines :
          (c \in participants /\ n \in since[c]..Len(log))
             ~> (Len(heard[c]) > n - since[c] \/ cut[c])

(* Whatever ends a connection, the session leaves the room and the client  *)
(* closes its socket.                                                      *)
Gone ==
  \A c \in Clients :
     /\ (cut[c] /\ conn[c] # "new") ~> (c \notin participants /\ ~Open(c))
     /\ (Bad \in Range(wire[Client(c)])) ~> ~Open(c)
==============================================================================
