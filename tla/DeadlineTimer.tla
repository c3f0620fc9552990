--------------------------- MODULE DeadlineTimer ---------------------------
(***************************************************************************)
(* External: asio's deadline_timer as the timeout examples use it.  A      *)
(* timer has an expiry, waits that sleep and handlers that are queued.     *)
(* Moving or cancelling the expiry queues the handlers of all waits; since *)
(* the handlers of the examples ignore the error code, a wait that expired *)
(* and one that was cancelled differ only in what the handler finds the    *)
(* expiry to be.                                                           *)
(***************************************************************************)
EXTENDS Integers

Never == -1                          \* pos_infin
Now == 0                             \* neg_infin, or an expiry that has passed

Timer(left) == [left |-> left, waiting |-> 0, ready |-> 0]

Cancel(t) == [t EXCEPT !.waiting = 0, !.ready = @ + t.waiting]
ExpiresIn(t, left) == [Cancel(t) EXCEPT !.left = left]
AsyncWait(t) == [t EXCEPT !.waiting = @ + 1]

Passed(t) == t.left = Now

(* A handler may run; it is taken out of the timer when it does. *)
Fires(t) == t.ready > 0 \/ (Passed(t) /\ t.waiting > 0)
Fired(t) == IF t.ready > 0 THEN [t EXCEPT !.ready = @ - 1] ELSE [t EXCEPT !.waiting = @ - 1]

Outstanding(t) == t.waiting + t.ready

Elapse(t) == IF t.left > Now THEN [t EXCEPT !.left = @ - 1] ELSE t
==============================================================================
