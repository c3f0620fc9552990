-------------------------------- MODULE Ping --------------------------------
(***************************************************************************)
(* The pinger of the asio examples (cpp03/icmp/ping.cpp).  One timer       *)
(* serves two waits in turn, the five seconds for a reply and the pause    *)
(* until the next request, and their handlers ignore the error code: a     *)
(* cancelled wait runs its handler like one that expired.  The network     *)
(* (external) loses, delays and duplicates replies.  Left out: the ICMP    *)
(* packets of other programs, which the pinger tells by their type and     *)
(* identifier and skips.                                                   *)
(***************************************************************************)
EXTENDS Naturals

CONSTANTS
  Width,            \* sequence_number_ counts modulo Width (2^16)
  Timeout, Pause,   \* five seconds, one second
  MaxLate,          \* bound: a reply is under way for at most this many requests
  MaxReplies        \* bound on num_replies_: a further duplicate is not seen

(* A reply never comes so late that its sequence number is in use again.   *)
PingAssumption ==
  /\ Width \in Nat /\ MaxLate \in Nat /\ MaxLate < Width /\ MaxReplies \in Nat \ {0}
  /\ Pause \in Nat /\ Timeout \in Nat /\ Pause < Timeout

VARIABLES
  sequence_number, num_replies,
  age,              \* the time since time_sent_
  timer,            \* its expiry, the handler that waits, and whether it was cancelled
  network,          \* the replies under way, each as the number of requests sent since its own
  counted           \* the reply handle_receive counted last, as it is in network, or None

vars == <<sequence_number, num_replies, age, timer, network, counted>>

None == MaxLate + 1

(* timer_.expires_at(time_sent_ + expiry) and async_wait *)
Wait(expiry, handler) == [expiry |-> expiry, handler |-> handler, cancelled |-> FALSE]

(* The constructor calls start_send and start_receive. *)
Init ==
  /\ sequence_number = 1 % Width /\ num_replies = 0 /\ age = 0
  /\ timer = Wait(Timeout, "handle_timeout")
  /\ network \in SUBSET {0}
  /\ counted = None

Ready == timer.cancelled \/ age >= timer.expiry

(* The request is lost, or its reply is under way. *)
StartSend ==
  /\ timer.handler = "start_send" /\ Ready
  /\ sequence_number' = (sequence_number + 1) % Width
  /\ num_replies' = 0 /\ age' = 0
  /\ timer' = Wait(Timeout, "handle_timeout")
  /\ \E reply \in SUBSET {0} :
       network' = {late + 1 : late \in network \ {MaxLate}} \cup reply
  /\ counted' = None

(* Mutant: the pause starts only once a reply has come. *)
HandleTimeoutAnswered ==
  /\ timer.handler = "handle_timeout" /\ Ready /\ num_replies > 0
  /\ timer' = Wait(Pause, "start_send")
  /\ UNCHANGED <<sequence_number, num_replies, age, network, counted>>

HandleTimeout ==
  /\ timer.handler = "handle_timeout" /\ Ready
  /\ timer' = Wait(Pause, "start_send")
  /\ UNCHANGED <<sequence_number, num_replies, age, network, counted>>

(* The sequence number of the reply to the request sent late requests ago. *)
Number(late) == (sequence_number + Width - late) % Width

(* Mutant: every reply interrupts the timer. *)
CountedAll(late) ==
  /\ num_replies < MaxReplies
  /\ num_replies' = num_replies + 1
  /\ timer' = [timer EXCEPT !.cancelled = TRUE]
  /\ counted' = late

(* The first reply interrupts the timer, whichever wait it serves. *)
Counted(late) ==
  /\ num_replies < MaxReplies
  /\ num_replies' = num_replies + 1
  /\ timer' = [timer EXCEPT !.cancelled = @ \/ num_replies = 0]
  /\ counted' = late

(* Mutant: any reply to this program will do. *)
MatchesAny(late) == TRUE

(* Is this the reply that is waited for? *)
Matches(late) == Number(late) = sequence_number

(* A reply arrives; its duplicate may still be under way. *)
HandleReceive(late) ==
  /\ late \in network
  /\ network' \in {network, network \ {late}}
  /\ IF Matches(late)
     THEN Counted(late)
     ELSE UNCHANGED <<num_replies, timer, counted>>
  /\ UNCHANGED <<sequence_number, age>>

(* Time passes; the io_service may be late. *)
Tick ==
  /\ age <= Timeout
  /\ age' = age + 1
  /\ UNCHANGED <<sequence_number, num_replies, timer, network, counted>>

Next ==
  \/ StartSend \/ HandleTimeout \/ Tick
  \/ \E late \in 0..MaxLate : HandleReceive(late)

Spec == Init /\ [][Next]_vars

-----------------------------------------------------------------------------
TypeOK ==
  /\ sequence_number \in 0..Width - 1 /\ num_replies \in 0..MaxReplies
  /\ age \in 0..Timeout + 1
  /\ timer \in [expiry : {Pause, Timeout}, handler : {"start_send", "handle_timeout"},
                cancelled : BOOLEAN]
  /\ network \subseteq 0..MaxLate /\ counted \in 0..None

(* "Requests must be sent no less than one second apart", though a reply   *)
(* cancels the timer and may do so while it is the pause that is waited    *)
(* for: late, duplicate and stale replies never bring a request forward.   *)
Apart == sequence_number' # sequence_number => age >= Pause

(* What is counted, and printed with the time since time_sent_, is the     *)
(* reply to the last request and to no earlier one.                        *)
OwnReply == counted \in {0, None}

(* The pinger never stops, whatever is lost. *)
KeepsPinging == \A n \in 0..Width - 1 : sequence_number = n ~> sequence_number # n
=============================================================================
