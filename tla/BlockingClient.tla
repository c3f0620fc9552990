--------------------------- MODULE BlockingClient ---------------------------
(***************************************************************************)
(* The blocking clients of the timeout examples                            *)
(* (cpp03/timeouts/blocking_tcp_client.cpp, blocking_udp_client.cpp): a    *)
(* function starts an asynchronous operation and runs the io_service, one  *)
(* handler at a time, until the operation has stored its result in a       *)
(* variable of the function; a deadline actor closes the socket (tcp) or   *)
(* cancels the operation (udp).  Handlers run only inside a call.          *)
(***************************************************************************)
EXTENDS DeadlineTimer

CONSTANT Timeout    \* the 10 seconds that main gives every call, in ticks

BlockingAssumption == Timeout \in Nat \ {0}

VARIABLES
  kind,       \* tcp or udp
  open,       \* the socket is open
  deadline,   \* deadline_
  call,       \* the function main is in, "main" between two, "thrown" or "done"
  next,       \* the function main calls next
  op,         \* the operation: none, pending, or completed with its handler queued
  elapsed     \* history: the time since the call, Timeout if it is more

vars == <<kind, open, deadline, call, next, op, elapsed>>

Calls == {"connect", "write_line", "read_line", "receive"}

(* client(): the deadline actor sleeps. *)
Init ==
  /\ kind \in {"tcp", "udp"}
  /\ open = (kind = "udp")
  /\ deadline = AsyncWait(Timer(Never))
  /\ call = "main" /\ op = "none" /\ elapsed = 0
  /\ next = IF kind = "tcp" THEN "connect" ELSE "receive"

(* connect, write_line, read_line and receive up to the loop *)
Call ==
  /\ call = "main"
  /\ call' = next
  /\ deadline' = ExpiresIn(deadline, Timeout)
  /\ open' = (open \/ next = "connect")
  /\ op' = IF open' THEN "pending" ELSE "error"
  /\ elapsed' = 0
  /\ UNCHANGED <<kind, next>>

(* What main does after a call that succeeded. *)
After(f) ==
  CASE f = "connect" -> {<<"main", "write_line">>}
    [] f = "write_line" -> {<<"main", "read_line">>}
    [] f = "read_line" -> {<<"main", "read_line">>, <<"done", "none">>}
    [] f = "receive" -> {<<"main", "receive">>}

(* Mutant: connect does not look whether the socket is still open. *)
ReturnAnyway ==
  /\ call \in Calls /\ op \in {"ok", "error", "aborted"}
  /\ op' = "none"
  /\ \/ op = "ok" /\ \E a \in After(call) : call' = a[1] /\ next' = a[2]
     \/ op # "ok" /\ call' = (IF kind = "udp" THEN "main" ELSE "thrown") /\ UNCHANGED next
  /\ UNCHANGED <<kind, open, deadline, elapsed>>

(* run_one runs the handler of the operation: the loop ends.  connect also *)
(* looks whether the deadline actor closed the socket meanwhile; receive   *)
(* hands an error to main, the others throw it.                            *)
Return ==
  LET failed == op # "ok" \/ (call = "connect" /\ ~open) IN
  /\ call \in Calls /\ op \in {"ok", "error", "aborted"}
  /\ op' = "none"
  /\ \/ ~failed /\ \E a \in After(call) : call' = a[1] /\ next' = a[2]
     \/ failed /\ call' = (IF kind = "udp" THEN "main" ELSE "thrown") /\ UNCHANGED next
  /\ UNCHANGED <<kind, open, deadline, elapsed>>

(* Mutants: check_deadline trusts the timer; it does not go back to sleep; *)
(* the loop ends when it has run.                                          *)
CheckDeadlineBlindly ==
  /\ call \in Calls /\ Fires(deadline)
  /\ deadline' = AsyncWait(ExpiresIn(Fired(deadline), Never))
  /\ open' = (kind = "udp")
  /\ op' = IF op = "pending" THEN "aborted" ELSE op
  /\ UNCHANGED <<kind, call, next, elapsed>>
CheckDeadlineOnce ==
  LET awake == Fired(deadline) IN
  /\ call \in Calls /\ Fires(deadline)
  /\ \/ /\ Passed(awake)
        /\ open' = (kind = "udp")
        /\ op' = IF op = "pending" THEN "aborted" ELSE op
        /\ deadline' = ExpiresIn(awake, Never)
     \/ ~Passed(awake) /\ deadline' = awake /\ UNCHANGED <<open, op>>
  /\ UNCHANGED <<kind, call, next, elapsed>>
CheckDeadlineReturns ==
  LET awake == Fired(deadline) IN
  /\ call \in Calls /\ Fires(deadline)
  /\ \/ /\ Passed(awake)
        /\ open' = (kind = "udp")
        /\ op' = IF op = "pending" THEN "aborted" ELSE op
        /\ call' = IF kind = "udp" THEN "main" ELSE "thrown"
        /\ deadline' = AsyncWait(ExpiresIn(awake, Never))
     \/ ~Passed(awake) /\ deadline' = AsyncWait(awake) /\ UNCHANGED <<call, open, op>>
  /\ UNCHANGED <<kind, next, elapsed>>

(* run_one runs check_deadline. *)
CheckDeadline ==
  LET awake == Fired(deadline) IN
  /\ call \in Calls /\ Fires(deadline)
  /\ \/ /\ Passed(awake)
        /\ open' = (kind = "udp")
        /\ op' = IF op = "pending" THEN "aborted" ELSE op
        /\ deadline' = AsyncWait(ExpiresIn(awake, Never))
     \/ ~Passed(awake) /\ deadline' = AsyncWait(awake) /\ UNCHANGED <<open, op>>
  /\ UNCHANGED <<kind, call, next, elapsed>>

(* External: the operation completes or fails; time passes. *)
Complete ==
  /\ op = "pending" /\ op' \in {"ok", "error"}
  /\ UNCHANGED <<kind, open, deadline, call, next, elapsed>>

Tick ==
  /\ deadline' = Elapse(deadline)
  /\ elapsed' = IF elapsed < Timeout THEN elapsed + 1 ELSE elapsed
  /\ UNCHANGED <<kind, open, call, next, op>>

Next == Call \/ Return \/ CheckDeadline \/ Complete \/ Tick

Spec == Init /\ [][Next]_vars
------------------------------------------------------------------------------
TypeOK ==
  /\ kind \in {"tcp", "udp"} /\ open \in BOOLEAN
  /\ deadline.left \in Never..Timeout /\ elapsed \in 0..Timeout
  /\ call \in Calls \cup {"main", "thrown", "done"}
  /\ next \in Calls \cup {"none"}
  /\ op \in {"none", "pending", "ok", "error", "aborted"}
  /\ Outstanding(deadline) = 1

(* The handler of an operation stores into a variable of the function that *)
(* started it: no function returns before its operation is over.           *)
NoDanglingHandler == op # "none" => call \in Calls

(* An operation is cancelled only by a deadline of its own, never by the   *)
(* wait of an earlier call that expired late.                              *)
OwnDeadline == op = "aborted" => elapsed = Timeout

(* connect succeeds only with a socket that is open, although its handler  *)
(* and the deadline actor may be ready together.                           *)
ConnectedIsOpen == call = "main" /\ next = "write_line" => open

(* Every call returns, whatever the peer does. *)
Returns == \A f \in Calls : (call = f) ~> (call \in {"main", "thrown", "done"})
==============================================================================
