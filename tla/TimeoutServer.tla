--------------------------- MODULE TimeoutServer ---------------------------
(***************************************************************************)
(* The server of the timeout examples (cpp03/timeouts/server.cpp): every   *)
(* tcp_session has an input actor, an output actor that sleeps on a timer  *)
(* used as a condition variable, and a deadline actor for each of them.    *)
(* One thread runs the io_service: handlers do not overlap, but those that *)
(* are ready run in any order.                                             *)
(***************************************************************************)
EXTENDS DeadlineTimer, Sequences, FiniteSets

CONSTANTS
  Sessions,    \* the sessions looked at; others may be on the channel
  Deadline,    \* the 30 seconds of start_read and start_write, in ticks
  MaxQueue     \* bound: no line arrives while an output queue is this long

TimeoutAssumption ==
  /\ IsFiniteSet(Sessions)
  /\ Deadline \in Nat \ {0} /\ MaxQueue \in Nat \ {0}

VARIABLES
  subscribers,   \* channel::subscribers_
  session        \* per session, the members of tcp_session and its operations

vars == <<subscribers, session>>

(* tcp_session().  read and write are the operations under way: none,      *)
(* pending, or completed (ok, text, beat, error) with the handler queued.  *)
New ==
  [state |-> "new", read |-> "none", write |-> "none", queue |-> <<>>,
   input_deadline |-> Timer(Never), output_deadline |-> Timer(Never),
   non_empty |-> Timer(Never)]

Init ==
  /\ subscribers = {}
  /\ session = [s \in Sessions |-> New]
------------------------------------------------------------------------------
(* The members of tcp_session, as functions of its state r. *)

Stopped(r) == r.state = "closed"

Aborted(op) == IF op = "pending" THEN "error" ELSE op

(* stop, but for channel::leave *)
Stop(r) ==
  [r EXCEPT !.state = "closed", !.read = Aborted(@), !.write = Aborted(@),
            !.input_deadline = Cancel(@), !.non_empty = Cancel(@),
            !.output_deadline = Cancel(@)]

(* Mutants: deliver does not wake the output actor; it starts the write    *)
(* itself and wakes the actor too.                                         *)
DeliverSilently(r, msg) == [r EXCEPT !.queue = Append(@, msg)]
DeliverAndWrite(r, msg) ==
  [r EXCEPT !.queue = Append(@, msg), !.non_empty = ExpiresIn(@, Now),
            !.write = IF @ = "none" THEN "pending" ELSE @]

(* deliver, and the answer to a heartbeat *)
Deliver(r, msg) ==
  [r EXCEPT !.queue = Append(@, msg), !.non_empty = ExpiresIn(@, Now)]

(* Mutant: start_read sets no deadline. *)
StartReadUnwatched(r) == [r EXCEPT !.read = "pending"]

(* start_read; when the socket is closed the operation fails. *)
StartRead(r) ==
  [r EXCEPT !.input_deadline = ExpiresIn(@, Deadline), !.read = "pending"]

(* start_write; overlap is what two writes at a time would be. *)
StartWrite(r) ==
  [r EXCEPT !.output_deadline = ExpiresIn(@, Deadline),
            !.write = IF @ = "none" THEN "pending" ELSE "overlap"]

AwaitOutput(r) ==
  IF Stopped(r) THEN r
  ELSE IF r.queue = <<>> THEN [r EXCEPT !.non_empty = AsyncWait(ExpiresIn(@, Never))]
  ELSE StartWrite(r)

(* start, but for channel::join: the four actors *)
Start(r) ==
  LET reading == StartRead([r EXCEPT !.state = "open"])
      watched == [reading EXCEPT !.input_deadline = AsyncWait(@)] IN
  [AwaitOutput(watched) EXCEPT !.output_deadline = AsyncWait(@)]
------------------------------------------------------------------------------
(* A handler of session s leaves it in state r: a session that stopped has *)
(* left the channel.                                                       *)
Becomes(s, r) ==
  /\ session' = [session EXCEPT ![s] = r]
  /\ subscribers' = IF Stopped(r) THEN subscribers \ {s} ELSE subscribers

HandleAccept(s) ==
  /\ session[s].state = "new"
  /\ subscribers' = subscribers \cup {s}
  /\ session' = [session EXCEPT ![s] = Start(@)]

(* channel::deliver (the udp_broadcaster sends the message and keeps no    *)
(* state).                                                                 *)
ChannelDeliver(msg) ==
  [s \in Sessions |-> IF s \in subscribers THEN Deliver(session[s], msg) ELSE session[s]]

HandleRead(s) ==
  LET r == [session[s] EXCEPT !.read = "none"]
      op == session[s].read IN
  \/ /\ op \in {"text", "beat", "error"} /\ Stopped(r)
     /\ Becomes(s, r)
  \/ /\ op = "error" /\ ~Stopped(r)
     /\ Becomes(s, Stop(r))
  \/ /\ op = "text" /\ ~Stopped(r)
     /\ session' = [ChannelDeliver("text") EXCEPT ![s] = StartRead(@)]
     /\ UNCHANGED subscribers
  \/ /\ op = "beat" /\ ~Stopped(r)
     /\ Becomes(s, StartRead(IF r.queue = <<>> THEN Deliver(r, "beat") ELSE r))

(* handle_read of a session that is not in Sessions *)
HandleOther ==
  /\ \A s \in Sessions : Len(session[s].queue) < MaxQueue
  /\ session' = ChannelDeliver("text")
  /\ UNCHANGED subscribers

HandleAwaitOutput(s) ==
  /\ Fires(session[s].non_empty)
  /\ Becomes(s, AwaitOutput([session[s] EXCEPT !.non_empty = Fired(@)]))

HandleWrite(s) ==
  LET r == [session[s] EXCEPT !.write = "none"]
      op == session[s].write IN
  \/ /\ op \in {"ok", "error"} /\ Stopped(r)
     /\ Becomes(s, r)
  \/ /\ op = "ok" /\ ~Stopped(r)
     /\ Becomes(s, AwaitOutput([r EXCEPT !.queue = Tail(@)]))
  \/ /\ op = "error" /\ ~Stopped(r)
     /\ Becomes(s, Stop(r))

(* Mutants: check_deadline does not go back to sleep; it goes on although  *)
(* the session has stopped.                                                *)
CheckDeadlineOnce(s, d) ==
  LET r == [session[s] EXCEPT ![d] = Fired(@)] IN
  /\ Fires(session[s][d])
  /\ Becomes(s, IF ~Stopped(r) /\ Passed(r[d]) THEN Stop(r) ELSE r)
CheckDeadlineAlways(s, d) ==
  LET r == [session[s] EXCEPT ![d] = Fired(@)] IN
  /\ Fires(session[s][d])
  /\ Becomes(s, IF Passed(r[d]) THEN Stop(r) ELSE [r EXCEPT ![d] = AsyncWait(@)])

(* check_deadline of the deadline d, "input_deadline" or "output_deadline" *)
CheckDeadline(s, d) ==
  LET r == [session[s] EXCEPT ![d] = Fired(@)] IN
  /\ Fires(session[s][d])
  /\ \/ Stopped(r) /\ Becomes(s, r)
     \/ ~Stopped(r) /\ Passed(r[d]) /\ Becomes(s, Stop(r))
     \/ ~Stopped(r) /\ ~Passed(r[d]) /\ Becomes(s, [r EXCEPT ![d] = AsyncWait(@)])
------------------------------------------------------------------------------
Deadlines == {"input_deadline", "output_deadline"}

Handler(s) ==
  \/ HandleRead(s) \/ HandleAwaitOutput(s) \/ HandleWrite(s)
  \/ \E d \in Deadlines : CheckDeadline(s, d)

(* External: a line or a heartbeat arrives, the client reads what is sent, *)
(* the connection breaks, time passes.                                     *)
Receive(s) ==
  /\ session[s].read = "pending"
  /\ \A t \in Sessions : Len(session[t].queue) < MaxQueue
  /\ \E op \in {"text", "beat"} : session' = [session EXCEPT ![s].read = op]
  /\ UNCHANGED subscribers

Transmit(s) ==
  /\ session[s].write = "pending"
  /\ session' = [session EXCEPT ![s].write = "ok"]
  /\ UNCHANGED subscribers

Break(s) ==
  /\ \E op \in {"read", "write"} :
       session[s][op] = "pending" /\ session' = [session EXCEPT ![s][op] = "error"]
  /\ UNCHANGED subscribers

Pass(r) ==
  [r EXCEPT !.input_deadline = Elapse(@), !.output_deadline = Elapse(@)]

Tick ==
  /\ session' = [s \in Sessions |-> Pass(session[s])]
  /\ UNCHANGED subscribers

Next ==
  \/ \E s \in Sessions : HandleAccept(s) \/ Handler(s) \/ Receive(s) \/ Transmit(s) \/ Break(s)
  \/ HandleOther \/ Tick

Spec == Init /\ [][Next]_vars
------------------------------------------------------------------------------
Ops == {"none", "pending", "ok", "text", "beat", "error"}

TypeOK ==
  /\ subscribers \subseteq Sessions
  /\ \A s \in Sessions : LET r == session[s] IN
       /\ r.state \in {"new", "open", "closed"}
       /\ r.read \in Ops \ {"ok"} /\ r.write \in Ops \ {"text", "beat"}
       /\ r.queue \in Seq({"text", "beat"})
       /\ r.non_empty.left \in {Never, Now}
       /\ \A d \in Deadlines : r[d].left \in {Never} \cup 0..Deadline

(* The actors of an open session live, each in one place: one read, one    *)
(* write or one wait for output, one wait per deadline.                    *)
Actors ==
  \A s \in Sessions : LET r == session[s] IN
     r.state = "open" =>
       /\ r.read # "none"
       /\ Outstanding(r.non_empty) = IF r.write = "none" THEN 1 ELSE 0
       /\ \A d \in Deadlines : Outstanding(r[d]) = 1
       /\ s \in subscribers

(* The timer works as a condition variable: the output actor never sleeps  *)
(* while its queue has a message.                                          *)
NoLostWakeup ==
  \A s \in Sessions : LET r == session[s] IN
     r.state = "open" /\ r.queue # <<>> => r.write # "none" \/ Fires(r.non_empty)

(* A queue that has messages moves, or the session ends: await_output and  *)
(* handle_write never leave a message behind, and the deadline of the      *)
(* write bounds how long a client may be slow.                             *)
Drains ==
  \A s \in Sessions :
     (session[s].queue # <<>>) ~> (session[s].write = "ok" \/ Stopped(session[s]))

(* A client cannot keep a session by silence: a read ends, by the deadline *)
(* if not by a message.                                                    *)
ReadsEnd == \A s \in Sessions : (session[s].read = "pending") ~> (session[s].read # "pending")

(* A session that stopped comes to an end: no actor keeps it alive.        *)
Ended(r) ==
  /\ r.read = "none" /\ r.write = "none"
  /\ Outstanding(r.input_deadline) + Outstanding(r.output_deadline) + Outstanding(r.non_empty) = 0
Finishes == \A s \in Sessions : Stopped(session[s]) ~> Ended(session[s])
==============================================================================
