----------------------------- MODULE SpawnEcho -----------------------------
(***************************************************************************)
(* A session of the echo server of cpp03/spawn: two coroutines on one      *)
(* strand, echo with a read or a write under way and timeout with a wait   *)
(* on the timer that echo moves.                                           *)
(***************************************************************************)
EXTENDS DeadlineTimer

CONSTANT Deadline  \* timer_.expires_from_now(seconds(10)), in ticks

SpawnAssumption == Deadline \in Nat \ {0}

VARIABLES
  open,    \* socket_.is_open()
  timer_,
  echo,    \* the operation echo has yielded for: "read", "write" or "ended"
  result   \* of that operation: "pending", "ok" or "error"

vars == <<open, timer_, echo, result>>

Waits == {"read", "write"}
Close == /\ open' = FALSE
         /\ result' = IF result = "pending" THEN "error" ELSE result

(* go(): echo runs up to its read, timeout up to its wait. *)
Init ==
  /\ open = TRUE /\ timer_ = AsyncWait(Timer(Deadline))
  /\ echo = "read" /\ result = "pending"

(* An operation on a socket that is closed fails at once. *)
Yield(op) == echo' = op /\ result' = IF open THEN "pending" ELSE "error"

EchoOk ==
  /\ echo \in Waits /\ result = "ok" /\ UNCHANGED open
  /\ \/ echo = "read" /\ Yield("write") /\ UNCHANGED timer_
     \/ echo = "write" /\ Yield("read") /\ timer_' = ExpiresIn(timer_, Deadline)

(* Mutant: the timer runs on. *)
EchoFailsQuietly ==
  /\ echo \in Waits /\ result = "error"
  /\ echo' = "ended" /\ UNCHANGED <<open, result, timer_>>

(* The exception that ends the loop. *)
EchoFails ==
  /\ echo \in Waits /\ result = "error"
  /\ echo' = "ended" /\ open' = FALSE /\ timer_' = Cancel(timer_)
  /\ UNCHANGED result

(* Mutant: whatever woke it, the time is over. *)
TimeoutBlindly ==
  /\ Fires(timer_)
  /\ Close /\ timer_' = Fired(timer_)
  /\ UNCHANGED echo

(* The wait of timeout is over, because the deadline passed or was moved.  *)
Timeout ==
  /\ Fires(timer_)
  /\ IF Passed(timer_) THEN Close ELSE UNCHANGED <<open, result>>
  /\ timer_' = IF open' THEN AsyncWait(Fired(timer_)) ELSE Fired(timer_)
  /\ UNCHANGED echo

(* The peer sends and takes what it likes, and may break the connection.   *)
Complete ==
  /\ echo \in Waits /\ result = "pending" /\ result' \in {"ok", "error"}
  /\ UNCHANGED <<open, timer_, echo>>

Tick ==
  /\ timer_.left > Now /\ timer_' = Elapse(timer_)
  /\ UNCHANGED <<open, echo, result>>

Next == EchoOk \/ EchoFails \/ Timeout \/ Complete \/ Tick
Spec == Init /\ [][Next]_vars
-----------------------------------------------------------------------------
TypeOK ==
  /\ open \in BOOLEAN /\ timer_.left \in 0..Deadline
  /\ echo \in Waits \cup {"ended"} /\ result \in {"pending", "ok", "error"}

(* Both coroutines live while the socket is open, timeout in one wait, and *)
(* no operation is under way on a closed socket.                           *)
Coroutines ==
  /\ open => echo \in Waits /\ Outstanding(timer_) = 1
  /\ echo \in Waits /\ result = "pending" => open

(* Only a deadline that has passed, or an error, closes the socket.        *)
InTime == open /\ ~Passed(timer_) /\ result # "error" => open'

(* A peer that neither sends nor takes anything is cut off.                *)
Cut == []<>(echo = "ended" \/ timer_.left = Deadline)

(* When the socket is closed both coroutines end, and the session dies.    *)
Ends == ~open ~> (echo = "ended" /\ Outstanding(timer_) = 0)
=============================================================================
