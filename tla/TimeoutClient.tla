--------------------------- MODULE TimeoutClient ---------------------------
(***************************************************************************)
(* The asynchronous client of the timeout examples                         *)
(* (cpp03/timeouts/async_tcp_client.cpp): an actor that connects, then one *)
(* that reads and one that sends heartbeats, and one deadline actor that   *)
(* lives as long as the client.  One thread runs the handlers that are     *)
(* ready, in any order.                                                    *)
(***************************************************************************)
EXTENDS DeadlineTimer

CONSTANTS
  Endpoints,        \* the number of endpoints the name resolved to
  ConnectDeadline, ReadDeadline, Heartbeat    \* 60, 30 and 10 seconds, in ticks

ClientAssumption ==
  /\ Endpoints \in Nat
  /\ ConnectDeadline \in Nat \ {0} /\ ReadDeadline \in Nat \ {0} /\ Heartbeat \in Nat \ {0}

(* The members of the client; endpoint_iter, bound to the handlers, is the *)
(* number of the endpoint.  connect, read and write are the operations     *)
(* under way: none, pending, or completed (ok, error) with the handler     *)
(* queued.                                                                 *)
VARIABLE client

New ==
  [stopped |-> FALSE, open |-> FALSE, endpoint_iter |-> 1,
   connect |-> "none", read |-> "none", write |-> "none",
   deadline |-> Timer(Now), heartbeat_timer |-> Timer(Now)]

Aborted(op) == IF op = "pending" THEN "error" ELSE op

(* socket_.close *)
Close(c) ==
  [c EXCEPT !.open = FALSE,
            !.connect = Aborted(@), !.read = Aborted(@), !.write = Aborted(@)]

Stop(c) ==
  [Close(c) EXCEPT !.stopped = TRUE,
                   !.deadline = Cancel(@), !.heartbeat_timer = Cancel(@)]

(* An operation on a closed socket fails. *)
Issued(c) == IF c.open THEN "pending" ELSE "error"

(* Mutant: start_connect sets no deadline. *)
StartConnectUnwatched(c) ==
  IF c.endpoint_iter <= Endpoints
  THEN [c EXCEPT !.deadline = ExpiresIn(@, Never), !.open = TRUE, !.connect = "pending"]
  ELSE Stop(c)

StartConnect(c) ==
  IF c.endpoint_iter <= Endpoints
  THEN [c EXCEPT !.deadline = ExpiresIn(@, ConnectDeadline),
                 !.open = TRUE, !.connect = "pending"]
  ELSE Stop(c)

StartRead(c) ==
  [c EXCEPT !.deadline = ExpiresIn(@, ReadDeadline), !.read = Issued(c)]

StartWrite(c) == IF c.stopped THEN c ELSE [c EXCEPT !.write = Issued(c)]

(* start *)
Start(c) == LET s == StartConnect(c) IN [s EXCEPT !.deadline = AsyncWait(@)]

Init == client = Start(New)
------------------------------------------------------------------------------
HandleConnect ==
  LET c == [client EXCEPT !.connect = "none"]
      next == [Close(c) EXCEPT !.endpoint_iter = @ + 1] IN
  /\ client.connect \in {"ok", "error"}
  /\ \/ c.stopped /\ client' = c
     \/ ~c.stopped /\ (~c.open \/ client.connect = "error") /\ client' = StartConnect(next)
     \/ ~c.stopped /\ c.open /\ client.connect = "ok" /\ client' = StartWrite(StartRead(c))

HandleRead ==
  LET c == [client EXCEPT !.read = "none"] IN
  /\ client.read \in {"ok", "error"}
  /\ \/ c.stopped /\ client' = c
     \/ ~c.stopped /\ client.read = "ok" /\ client' = StartRead(c)
     \/ ~c.stopped /\ client.read = "error" /\ client' = Stop(c)

(* start_write called by the heartbeat timer *)
HandleHeartbeat ==
  /\ Fires(client.heartbeat_timer)
  /\ client' = StartWrite([client EXCEPT !.heartbeat_timer = Fired(@)])

HandleWrite ==
  LET c == [client EXCEPT !.write = "none"] IN
  /\ client.write \in {"ok", "error"}
  /\ \/ c.stopped /\ client' = c
     \/ /\ ~c.stopped /\ client.write = "ok"
        /\ client' = [c EXCEPT !.heartbeat_timer = AsyncWait(ExpiresIn(@, Heartbeat))]
     \/ ~c.stopped /\ client.write = "error" /\ client' = Stop(c)

(* Mutant: check_deadline trusts the timer. *)
CheckDeadlineBlindly ==
  LET c == [client EXCEPT !.deadline = Fired(@)]
      late == [Close(c) EXCEPT !.deadline = ExpiresIn(@, Never)] IN
  /\ Fires(client.deadline)
  /\ client' = IF c.stopped THEN c ELSE [late EXCEPT !.deadline = AsyncWait(@)]

CheckDeadline ==
  LET c == [client EXCEPT !.deadline = Fired(@)]
      late == [Close(c) EXCEPT !.deadline = ExpiresIn(@, Never)]
      awake == IF Passed(c.deadline) THEN late ELSE c IN
  /\ Fires(client.deadline)
  /\ client' = IF c.stopped THEN c ELSE [awake EXCEPT !.deadline = AsyncWait(@)]
------------------------------------------------------------------------------
(* External: an operation completes or fails; time passes. *)
Complete ==
  \E op \in {"connect", "read", "write"}, result \in {"ok", "error"} :
     client[op] = "pending" /\ client' = [client EXCEPT ![op] = result]

Tick ==
  client' = [client EXCEPT !.deadline = Elapse(@), !.heartbeat_timer = Elapse(@)]

Next ==
  \/ HandleConnect \/ HandleRead \/ HandleHeartbeat \/ HandleWrite \/ CheckDeadline
  \/ Complete \/ Tick

Spec == Init /\ [][Next]_client
------------------------------------------------------------------------------
Ops == {"none", "pending", "ok", "error"}

TypeOK ==
  /\ client.stopped \in BOOLEAN /\ client.open \in BOOLEAN
  /\ client.endpoint_iter \in 1..(Endpoints + 1)
  /\ {client.connect, client.read, client.write} \subseteq Ops
  /\ client.deadline.left \in (Never..ConnectDeadline) \cup (Never..ReadDeadline)
  /\ client.heartbeat_timer.left \in Never..Heartbeat

(* While the client runs, its actors live, each in one place: the deadline *)
(* actor, and either the connect actor or the reader and the heartbeat.    *)
Actors ==
  ~client.stopped =>
    /\ Outstanding(client.deadline) = 1
    /\ \/ /\ client.connect # "none" /\ client.read = "none" /\ client.write = "none"
          /\ Outstanding(client.heartbeat_timer) = 0
       \/ /\ client.connect = "none" /\ client.read # "none"
          /\ Outstanding(client.heartbeat_timer) = IF client.write = "none" THEN 1 ELSE 0

(* A wait that expired or was cancelled before the deadline was moved does *)
(* no harm: a socket whose operations are in time stays open.              *)
InTime ==
  (/\ client.open /\ ~Passed(client.deadline)
   /\ "error" \notin {client.connect, client.read, client.write}) => client'.open

(* The connect actor ends: connected, or stopped. *)
Settles == <>(client.stopped \/ client.read # "none")

(* A connection over which nothing is received does not last. *)
Late == client.read = "pending" ~> client.read # "pending"

(* A client that stopped comes to an end: no handler is left to run.       *)
Finishes ==
  client.stopped ~>
    /\ {client.connect, client.read, client.write} = {"none"}
    /\ Outstanding(client.deadline) + Outstanding(client.heartbeat_timer) = 0
==============================================================================
