---------------------------- MODULE TimeoutProofs ----------------------------
(***************************************************************************)
(* The examples of asio that watch their operations with a deadline, for   *)
(* every number of sessions and endpoints, every length of the queues and  *)
(* every deadline: a wait of a timer is never lost or doubled, and a wait  *)
(* that ended early is started again.                                      *)
(***************************************************************************)
EXTENDS AsioExamples, TLAPS

LEMMA ServerSteps == ASSUME [Next]_vars PROVE [Server!Next]_server_vars
BY DEF vars, Next, Alone, Runs
LEMMA ClientSteps == ASSUME [Next]_vars PROVE [Client!Next]_client
BY DEF vars, Next, Alone, Runs
LEMMA BlockingSteps == ASSUME [Next]_vars PROVE [Blocking!Next]_blocking_vars
BY DEF vars, Next, Alone, Runs
LEMMA SpawnedSteps == ASSUME [Next]_vars PROVE [Spawned!Next]_spawned_vars
BY DEF vars, Next, Alone, Runs

(* The timers of the examples: what moving, cancelling, waiting, waking    *)
(* and the time do to the expiry and to the waits.  Each example has its   *)
(* own instance of the operators of DeadlineTimer.                         *)
Timers == [left : Int, waiting : Nat, ready : Nat]
Waits(t) == t.waiting + t.ready
Keeps(u, t, left) == u \in Timers /\ u.left = left /\ Waits(u) = Waits(t)

TimerLaws(Cancel(_), ExpiresIn(_, _), AsyncWait(_), Fires(_), Fired(_), Elapse(_)) ==
  \A t \in Timers :
    /\ Keeps(Cancel(t), t, t.left) /\ Cancel(t).waiting = 0
    /\ \A left \in Int : Keeps(ExpiresIn(t, left), t, left) /\ ExpiresIn(t, left).waiting = 0
    /\ AsyncWait(t) \in Timers /\ AsyncWait(t).left = t.left
    /\ AsyncWait(t).waiting = t.waiting + 1 /\ AsyncWait(t).ready = t.ready
    /\ Waits(AsyncWait(t)) = Waits(t) + 1
    /\ Fires(t) <=> t.ready > 0 \/ (t.left = 0 /\ t.waiting > 0)
    /\ Fires(t) => /\ Fired(t) \in Timers /\ Fired(t).left = t.left
                   /\ Waits(Fired(t)) = Waits(t) - 1
    /\ Fires(t) => /\ Keeps(AsyncWait(Fired(t)), t, t.left)
                   /\ \A left \in Int : Keeps(AsyncWait(ExpiresIn(Fired(t), left)), t, left)
    /\ Keeps(Elapse(t), t, IF t.left > 0 THEN t.left - 1 ELSE t.left)
    /\ Elapse(t).waiting = t.waiting /\ Elapse(t).ready = t.ready

DT == INSTANCE DeadlineTimer

LEMMA OneTimer ==
  TimerLaws(DT!Cancel, DT!ExpiresIn, DT!AsyncWait, DT!Fires, DT!Fired, DT!Elapse)
<1>1. ASSUME NEW t \in Timers
      PROVE  Keeps(DT!Cancel(t), t, t.left) /\ DT!Cancel(t).waiting = 0
  <2>1. t.ready + t.waiting \in Nat
    BY DEF Timers
  <2>2. /\ DT!Cancel(t) \in Timers /\ DT!Cancel(t).left = t.left
        /\ DT!Cancel(t).waiting = 0 /\ DT!Cancel(t).ready = t.ready + t.waiting
    BY <2>1 DEF Timers, DT!Cancel
  <2>3. Waits(DT!Cancel(t)) = Waits(t)
    BY <2>2 DEF Timers, Waits
  <2> QED
    BY <2>2, <2>3 DEF Keeps
<1>2. ASSUME NEW t \in Timers, NEW left \in Int
      PROVE  Keeps(DT!ExpiresIn(t, left), t, left) /\ DT!ExpiresIn(t, left).waiting = 0
  <2>1. \A u \in Timers : LET v == [u EXCEPT !.left = left] IN
          v \in Timers /\ v.left = left /\ v.waiting = u.waiting /\ v.ready = u.ready
    BY DEF Timers
  <2> QED
    BY <1>1, <2>1 DEF Waits, Keeps, DT!ExpiresIn
<1>3. ASSUME NEW t \in Timers
      PROVE  /\ DT!AsyncWait(t) \in Timers /\ DT!AsyncWait(t).left = t.left
             /\ DT!AsyncWait(t).waiting = t.waiting + 1 /\ DT!AsyncWait(t).ready = t.ready
  BY DEF Timers, DT!AsyncWait
<1>4. ASSUME NEW t \in Timers
      PROVE  /\ DT!Fires(t) <=> t.ready > 0 \/ (t.left = 0 /\ t.waiting > 0)
             /\ DT!Fires(t) => /\ DT!Fired(t) \in Timers /\ DT!Fired(t).left = t.left
                               /\ Waits(DT!Fired(t)) = Waits(t) - 1
  BY DEF Timers, Waits, DT!Fires, DT!Fired, DT!Passed, DT!Now
<1>5. ASSUME NEW t \in Timers
      PROVE  /\ Keeps(DT!Elapse(t), t, IF t.left > 0 THEN t.left - 1 ELSE t.left)
             /\ DT!Elapse(t).waiting = t.waiting /\ DT!Elapse(t).ready = t.ready
  BY DEF Timers, Waits, Keeps, DT!Elapse, DT!Now
<1>6. ASSUME NEW t \in Timers
      PROVE  Waits(DT!AsyncWait(t)) = Waits(t) + 1
  BY <1>3 DEF Timers, Waits
<1>7. ASSUME NEW t \in Timers, DT!Fires(t)
      PROVE  Keeps(DT!AsyncWait(DT!Fired(t)), t, t.left)
  <2>1. Waits(t) \in Int
    BY DEF Timers, Waits
  <2> QED
    BY <1>3, <1>4, <1>6, <1>7, <2>1 DEF Keeps
<1>8. ASSUME NEW t \in Timers, DT!Fires(t), NEW left \in Int
      PROVE  Keeps(DT!AsyncWait(DT!ExpiresIn(DT!Fired(t), left)), t, left)
  <2>1. Waits(t) \in Int
    BY DEF Timers, Waits
  <2>2. /\ DT!ExpiresIn(DT!Fired(t), left) \in Timers
        /\ DT!ExpiresIn(DT!Fired(t), left).left = left
        /\ Waits(DT!ExpiresIn(DT!Fired(t), left)) = Waits(t) - 1
    BY <1>2, <1>4, <1>8 DEF Keeps
  <2> QED
    BY <1>3, <1>6, <2>1, <2>2 DEF Keeps
<1> QED
  BY <1>1, <1>2, <1>3, <1>4, <1>5, <1>6, <1>7, <1>8 DEF TimerLaws

LEMMA ServerTimers ==
  TimerLaws(Server!Cancel, Server!ExpiresIn, Server!AsyncWait,
            Server!Fires, Server!Fired, Server!Elapse)
BY OneTimer DEF Server!Cancel, Server!ExpiresIn, Server!AsyncWait,
  Server!Fires, Server!Fired, Server!Elapse,
  Server!Passed, Server!Now, DT!Cancel, DT!ExpiresIn, DT!AsyncWait, DT!Fires, DT!Fired, DT!Elapse,
  DT!Passed, DT!Now, TimerLaws

LEMMA ClientTimers ==
  TimerLaws(Client!Cancel, Client!ExpiresIn, Client!AsyncWait,
            Client!Fires, Client!Fired, Client!Elapse)
BY OneTimer DEF Client!Cancel, Client!ExpiresIn, Client!AsyncWait,
  Client!Fires, Client!Fired, Client!Elapse,
  Client!Passed, Client!Now, DT!Cancel, DT!ExpiresIn, DT!AsyncWait, DT!Fires, DT!Fired, DT!Elapse,
  DT!Passed, DT!Now, TimerLaws

LEMMA BlockingTimers ==
  TimerLaws(Blocking!Cancel, Blocking!ExpiresIn, Blocking!AsyncWait,
            Blocking!Fires, Blocking!Fired, Blocking!Elapse)
BY OneTimer DEF Blocking!Cancel, Blocking!ExpiresIn, Blocking!AsyncWait,
  Blocking!Fires, Blocking!Fired, Blocking!Elapse,
  Blocking!Passed, Blocking!Now,
  DT!Cancel, DT!ExpiresIn, DT!AsyncWait, DT!Fires, DT!Fired, DT!Elapse,
  DT!Passed, DT!Now, TimerLaws

LEMMA SpawnedTimers ==
  TimerLaws(Spawned!Cancel, Spawned!ExpiresIn, Spawned!AsyncWait,
            Spawned!Fires, Spawned!Fired, Spawned!Elapse)
BY OneTimer DEF Spawned!Cancel, Spawned!ExpiresIn, Spawned!AsyncWait,
  Spawned!Fires, Spawned!Fired, Spawned!Elapse,
  Spawned!Passed, Spawned!Now, DT!Cancel, DT!ExpiresIn, DT!AsyncWait, DT!Fires, DT!Fired, DT!Elapse,
  DT!Passed, DT!Now, TimerLaws
------------------------------------------------------------------------------
(* The session of spawn/echo_server.cpp. *)
SpawnInv == timer_ \in Timers /\ Spawned!TypeOK /\ Spawned!Coroutines

LEMMA SpawnInit == Init => SpawnInv
BY ExamplesAssumption DEF Init, Spawned!Init, SpawnInv, Timers, Spawned!TypeOK, Spawned!Coroutines, Spawned!Waits,
  Spawned!Outstanding, Spawned!AsyncWait, Spawned!Timer, Spawned!SpawnAssumption

LEMMA SpawnNext ==
  ASSUME SpawnInv, [Spawned!Next]_spawned_vars
  PROVE  SpawnInv' /\ Spawned!InTime
<1> USE SpawnedTimers DEF TimerLaws, Keeps, Waits, SpawnInv, Spawned!TypeOK, Spawned!Coroutines,
      Spawned!Waits, Spawned!Outstanding, Spawned!InTime, Spawned!Passed
<1>0. EchoDeadline \in Nat /\ EchoDeadline \in 0..EchoDeadline
  BY ExamplesAssumption DEF Spawned!SpawnAssumption
<1>1. CASE Spawned!EchoOk
  BY <1>0, <1>1 DEF Spawned!EchoOk, Spawned!Yield
<1>2. CASE Spawned!EchoFails
  BY <1>2 DEF Spawned!EchoFails
<1>3. CASE Spawned!Timeout
  <2>1. CASE timer_.left = 0
    BY <1>3, <2>1 DEF Spawned!Timeout, Spawned!Close, Spawned!Now
  <2>2. CASE timer_.left # 0
    <3>1. /\ UNCHANGED <<echo_open, result, echo>> /\ Spawned!Fires(timer_)
          /\ timer_' = IF echo_open THEN Spawned!AsyncWait(Spawned!Fired(timer_))
                       ELSE Spawned!Fired(timer_)
      BY <1>3, <2>2 DEF Spawned!Timeout, Spawned!Now
    <3>2. /\ timer_' \in Timers /\ timer_'.left = timer_.left
          /\ echo_open => Waits(timer_') = Waits(timer_)
      BY <3>1
    <3> QED
      BY <3>1, <3>2
  <2> QED
    BY <2>1, <2>2
<1>4. CASE Spawned!Complete
  BY <1>4 DEF Spawned!Complete
<1>5. CASE Spawned!Tick
  <2>1. /\ UNCHANGED <<echo_open, echo, result>> /\ timer_' \in Timers
        /\ timer_.left > 0 /\ timer_'.left = timer_.left - 1 /\ Waits(timer_') = Waits(timer_)
    BY <1>5 DEF Spawned!Tick, Spawned!Now
  <2>2. timer_.left - 1 \in 0..EchoDeadline
    BY <1>0, <2>1
  <2> QED
    BY <2>1, <2>2
<1>6. CASE UNCHANGED spawned_vars
  BY <1>6 DEF spawned_vars
<1> QED
  BY <1>1, <1>2, <1>3, <1>4, <1>5, <1>6 DEF Spawned!Next
------------------------------------------------------------------------------
(* The blocking clients. *)
BlockingInv ==
  /\ deadline \in Timers /\ Waits(deadline) = 1 /\ elapsed \in 0..BlockingTimeout
  /\ socket_open \in BOOLEAN /\ kind \in {"tcp", "udp"} /\ next \in Blocking!Calls \cup {"none"}
  /\ call \in Blocking!Calls \cup {"main", "thrown", "done"}
  /\ operation \in {"none", "pending", "ok", "error", "aborted"}
  /\ deadline.left >= -1
  /\ deadline.left # -1 => deadline.left + elapsed = BlockingTimeout
  /\ kind = "udp" => socket_open /\ next = "receive" /\ call \in {"main", "receive"}
  /\ call = "main" => next \in Blocking!Calls
  /\ Blocking!NoDanglingHandler /\ Blocking!OwnDeadline /\ Blocking!ConnectedIsOpen

LEMMA BlockingInit == Init => BlockingInv
<1> SUFFICES ASSUME Init PROVE BlockingInv
  OBVIOUS
<1>1. deadline = [left |-> -1, waiting |-> 1, ready |-> 0]
  BY DEF Init, Blocking!Init, Blocking!AsyncWait, Blocking!Timer, Blocking!Never
<1>2. deadline \in Timers /\ Waits(deadline) = 1 /\ deadline.left = -1
  BY <1>1 DEF Timers, Waits
<1>3. BlockingTimeout \in Nat
  BY ExamplesAssumption DEF Blocking!BlockingAssumption
<1>4. /\ kind \in {"tcp", "udp"} /\ socket_open \in BOOLEAN
      /\ kind = "udp" => socket_open /\ next = "receive"
      /\ next \in {"connect", "receive"} /\ call = "main" /\ operation = "none" /\ elapsed = 0
  BY DEF Init, Blocking!Init
<1> QED
  BY <1>2, <1>3, <1>4 DEF BlockingInv, Blocking!Calls, Blocking!NoDanglingHandler,
    Blocking!OwnDeadline, Blocking!ConnectedIsOpen

LEMMA BlockingNext ==
  ASSUME BlockingInv, [Blocking!Next]_blocking_vars
  PROVE  BlockingInv'
<1> USE DEF BlockingInv, Blocking!Calls, Blocking!NoDanglingHandler, Blocking!OwnDeadline,
      Blocking!ConnectedIsOpen
<1>0. BlockingTimeout \in Nat /\ BlockingTimeout > 0
  BY ExamplesAssumption DEF Blocking!BlockingAssumption
<1>1. CASE Blocking!Call
  <2>1. deadline' \in Timers /\ Waits(deadline)' = 1 /\ deadline'.left = BlockingTimeout
    BY <1>0, <1>1, BlockingTimers DEF TimerLaws, Keeps, Waits, Blocking!Call
  <2>2. call' \in Blocking!Calls
    BY <1>1 DEF Blocking!Call
  <2>3. /\ kind' = kind /\ next' = next /\ call' = next /\ elapsed' = 0
        /\ operation' \in {"pending", "error"} /\ (socket_open => socket_open')
        /\ socket_open' \in BOOLEAN
    BY <1>1 DEF Blocking!Call
  <2> QED
    BY <1>0, <2>1, <2>2, <2>3
<1>2. CASE Blocking!Return
  <2>1. UNCHANGED <<deadline, elapsed, kind, socket_open>> /\ operation' = "none"
    BY <1>2 DEF Blocking!Return
  <2>2. /\ call' = "main" => next' \in Blocking!Calls
        /\ call' = "main" /\ next' = "write_line" => socket_open
        /\ kind = "udp" => next' = "receive" /\ call' = "main"
        /\ next' \in Blocking!Calls \cup {"none"} /\ call' \in {"main", "thrown", "done"}
    <3>1. CASE call = "connect"
      BY <1>2, <3>1 DEF Blocking!Return, Blocking!After
    <3>2. CASE call = "write_line"
      BY <1>2, <3>2 DEF Blocking!Return, Blocking!After
    <3>3. CASE call = "read_line"
      BY <1>2, <3>3 DEF Blocking!Return, Blocking!After
    <3>4. CASE call = "receive"
      BY <1>2, <3>4 DEF Blocking!Return, Blocking!After
    <3> QED
      BY <1>2, <3>1, <3>2, <3>3, <3>4 DEF Blocking!Return
  <2> QED
    BY <2>1, <2>2 DEF Waits
<1>3. CASE Blocking!CheckDeadline
  <2>1. /\ UNCHANGED <<kind, call, next, elapsed>> /\ call # "main"
        /\ Blocking!Fires(deadline) /\ Blocking!Fired(deadline).left = deadline.left
    BY <1>3, BlockingTimers DEF TimerLaws, Blocking!CheckDeadline
  <2>2. CASE deadline.left = 0
    <3>1. /\ socket_open' = (kind = "udp")
          /\ operation' = IF operation = "pending" THEN "aborted" ELSE operation
          /\ deadline' = Blocking!AsyncWait(Blocking!ExpiresIn(Blocking!Fired(deadline), -1))
      BY <1>3, <2>1, <2>2 DEF Blocking!CheckDeadline, Blocking!Passed, Blocking!Now, Blocking!Never
    <3>2. deadline' \in Timers /\ Waits(deadline') = 1 /\ deadline'.left = -1
      <4>1. -1 \in Int
        OBVIOUS
      <4> QED
        BY <2>1, <3>1, <4>1, BlockingTimers DEF TimerLaws, Keeps
    <3>3. kind = "udp" => socket_open'
      BY <3>1
    <3>4. operation' = "aborted" => elapsed = BlockingTimeout
      BY <1>0, <2>2, <3>1
    <3>5. /\ operation' # "none" => operation # "none"
          /\ operation' \in {"none", "pending", "ok", "error", "aborted"}
          /\ socket_open' \in BOOLEAN
      BY <3>1
    <3> QED
      BY <2>1, <3>2, <3>3, <3>4, <3>5 DEF Waits
  <2>3. CASE deadline.left # 0
    <3>1. /\ UNCHANGED <<socket_open, operation>>
          /\ deadline' = Blocking!AsyncWait(Blocking!Fired(deadline))
      BY <1>3, <2>1, <2>3 DEF Blocking!CheckDeadline, Blocking!Passed, Blocking!Now
    <3>2. deadline' \in Timers /\ Waits(deadline') = 1 /\ deadline'.left = deadline.left
      BY <2>1, <3>1, BlockingTimers DEF TimerLaws, Keeps
    <3> QED
      BY <2>1, <3>1, <3>2 DEF Waits
  <2> QED
    BY <2>2, <2>3
<1>4. CASE Blocking!Complete
  BY <1>4 DEF Blocking!Complete, Waits
<1>5. CASE Blocking!Tick
  <2>1. /\ deadline' \in Timers /\ Waits(deadline') = 1
        /\ deadline'.left = IF deadline.left > 0 THEN deadline.left - 1 ELSE deadline.left
    BY <1>5, BlockingTimers DEF TimerLaws, Keeps, Blocking!Tick
  <2>2. deadline.left \in Int
    BY DEF Timers
  <2> QED
    BY <1>0, <1>5, <2>1, <2>2 DEF Blocking!Tick, Waits
<1>6. CASE UNCHANGED blocking_vars
  BY <1>6 DEF blocking_vars, Waits
<1> QED
  BY <1>1, <1>2, <1>3, <1>4, <1>5, <1>6 DEF Blocking!Next
------------------------------------------------------------------------------
(* The asynchronous client. *)
ClientOps == {"none", "pending", "ok", "error"}
ClientDeadlines == {t \in Timers : t.left \in (-1..ConnectDeadline) \cup (-1..ReadDeadline)}
Heartbeats == {t \in Timers : t.left \in -1..Heartbeat}
ClientStates ==
  [stopped : BOOLEAN, open : BOOLEAN, endpoint_iter : 1..(Endpoints + 1), connect : ClientOps,
   read : ClientOps, write : ClientOps,
   deadline : ClientDeadlines, heartbeat_timer : Heartbeats]

(* While a connect is under way there is an endpoint it is for. *)
Trying(c) == c.connect # "none" => c.endpoint_iter <= Endpoints

Working(c) ==
  ~c.stopped =>
    /\ Waits(c.deadline) = 1
    /\ \/ /\ c.connect # "none" /\ c.read = "none" /\ c.write = "none"
          /\ Waits(c.heartbeat_timer) = 0
       \/ /\ c.connect = "none" /\ c.read # "none"
          /\ Waits(c.heartbeat_timer) = IF c.write = "none" THEN 1 ELSE 0

ClientInv == client \in ClientStates /\ Trying(client) /\ Working(client)

LEMMA ClientRanges ==
  /\ Endpoints \in Nat
  /\ ConnectDeadline \in Nat /\ ReadDeadline \in Nat /\ Heartbeat \in Nat
  /\ \A t \in Timers : t.left \in {-1, 0, ConnectDeadline, ReadDeadline} => t \in ClientDeadlines
  /\ \A t \in Timers : t.left \in {-1, 0, Heartbeat} => t \in Heartbeats
BY ExamplesAssumption DEF Client!ClientAssumption, ClientDeadlines, Heartbeats

(* The expiry stays in range as long as it is not moved. *)
LEMMA ClientExpiry ==
  ASSUME NEW t \in Timers
  PROVE  /\ \A u \in ClientDeadlines : t.left = u.left => t \in ClientDeadlines
         /\ \A u \in Heartbeats : t.left = u.left => t \in Heartbeats
BY DEF ClientDeadlines, Heartbeats

LEMMA ClientTimersOf ==
  ASSUME NEW c \in ClientStates
  PROVE  /\ c.deadline \in ClientDeadlines /\ c.deadline \in Timers
         /\ c.heartbeat_timer \in Heartbeats /\ c.heartbeat_timer \in Timers
BY DEF ClientStates, ClientDeadlines, Heartbeats

LEMMA ClientSetDeadline ==
  ASSUME NEW c \in ClientStates, NEW t \in ClientDeadlines
  PROVE  LET d == [c EXCEPT !.deadline = t] IN
         /\ d \in ClientStates /\ d.deadline = t /\ d.endpoint_iter = c.endpoint_iter
         /\ d.stopped = c.stopped /\ d.open = c.open /\ d.connect = c.connect
         /\ d.read = c.read /\ d.write = c.write /\ d.heartbeat_timer = c.heartbeat_timer
BY DEF ClientStates

LEMMA ClientSetHeartbeat ==
  ASSUME NEW c \in ClientStates, NEW t \in Heartbeats
  PROVE  LET d == [c EXCEPT !.heartbeat_timer = t] IN
         /\ d \in ClientStates /\ d.heartbeat_timer = t /\ d.endpoint_iter = c.endpoint_iter
         /\ d.stopped = c.stopped /\ d.open = c.open /\ d.connect = c.connect
         /\ d.read = c.read /\ d.write = c.write /\ d.deadline = c.deadline
BY DEF ClientStates

LEMMA ClientSetOps ==
  ASSUME NEW c \in ClientStates, NEW o \in ClientOps
  PROVE  /\ LET d == [c EXCEPT !.connect = o] IN
            /\ d \in ClientStates /\ d.connect = o /\ d.endpoint_iter = c.endpoint_iter
            /\ d.stopped = c.stopped /\ d.open = c.open /\ d.read = c.read /\ d.write = c.write
            /\ d.deadline = c.deadline /\ d.heartbeat_timer = c.heartbeat_timer
         /\ LET d == [c EXCEPT !.read = o] IN
            /\ d \in ClientStates /\ d.read = o /\ d.endpoint_iter = c.endpoint_iter
            /\ d.stopped = c.stopped /\ d.open = c.open /\ d.connect = c.connect
            /\ d.write = c.write
            /\ d.deadline = c.deadline /\ d.heartbeat_timer = c.heartbeat_timer
         /\ LET d == [c EXCEPT !.write = o] IN
            /\ d \in ClientStates /\ d.write = o /\ d.endpoint_iter = c.endpoint_iter
            /\ d.stopped = c.stopped /\ d.open = c.open /\ d.connect = c.connect
            /\ d.read = c.read
            /\ d.deadline = c.deadline /\ d.heartbeat_timer = c.heartbeat_timer
BY DEF ClientStates

(* What the members that the handlers share do to the members. *)
LEMMA ClientClose ==
  ASSUME NEW c \in ClientStates
  PROVE  LET d == Client!Close(c) IN
         /\ d \in ClientStates /\ ~d.open /\ d.stopped = c.stopped
         /\ d.connect = "none" <=> c.connect = "none"
         /\ d.read = "none" <=> c.read = "none"
         /\ d.write = "none" <=> c.write = "none"
         /\ d.deadline = c.deadline /\ d.heartbeat_timer = c.heartbeat_timer
         /\ d.endpoint_iter = c.endpoint_iter
<1>1. \A o \in ClientOps : /\ Client!Aborted(o) \in ClientOps
                           /\ Client!Aborted(o) = "none" <=> o = "none"
  BY DEF ClientOps, Client!Aborted
<1> QED
  BY <1>1 DEF ClientStates, Client!Close

LEMMA ClientStop ==
  ASSUME NEW c \in ClientStates
  PROVE  LET d == Client!Stop(c) IN
         /\ d \in ClientStates /\ d.stopped /\ d.endpoint_iter = c.endpoint_iter
         /\ d.connect = "none" <=> c.connect = "none"
<1> DEFINE b == Client!Close(c)
           t == Client!Cancel(b.deadline)
           u == Client!Cancel(b.heartbeat_timer)
<1>1. /\ b \in ClientStates /\ b.endpoint_iter = c.endpoint_iter
      /\ b.connect = "none" <=> c.connect = "none"
  BY ClientClose
<1>2. Client!Stop(c) = [b EXCEPT !.stopped = TRUE, !.deadline = t, !.heartbeat_timer = u]
  BY DEF Client!Stop
<1> HIDE DEF b
<1>3. t \in Timers /\ t.left = b.deadline.left /\ u \in Timers /\ u.left = b.heartbeat_timer.left
  BY <1>1, ClientTimersOf, ClientTimers DEF TimerLaws, Keeps
<1> HIDE DEF t, u
<1>4. t \in ClientDeadlines /\ u \in Heartbeats
  BY <1>1, <1>3, ClientTimersOf, ClientExpiry
<1> QED
  BY <1>1, <1>2, <1>4 DEF ClientStates

LEMMA ClientStartConnect ==
  ASSUME NEW c \in ClientStates
  PROVE  LET d == Client!StartConnect(c) IN
         /\ d \in ClientStates /\ (c.connect = "none" => Trying(d))
         /\ d.stopped \/ /\ d.stopped = c.stopped /\ d.connect # "none"
                         /\ d.read = c.read /\ d.write = c.write
                         /\ Waits(d.deadline) = Waits(c.deadline)
                         /\ d.heartbeat_timer = c.heartbeat_timer
<1>1. CASE c.endpoint_iter <= Endpoints
  <2> DEFINE later == Client!ExpiresIn(c.deadline, ConnectDeadline)
  <2>1. c.deadline \in Timers /\ ConnectDeadline \in Int
    BY ClientTimersOf, ClientRanges
  <2>2. later \in Timers /\ later.left = ConnectDeadline /\ Waits(later) = Waits(c.deadline)
    BY <2>1, ClientTimers DEF TimerLaws, Keeps
  <2>3. Client!StartConnect(c) =
          [c EXCEPT !.deadline = later, !.open = TRUE, !.connect = "pending"]
    BY <1>1 DEF Client!StartConnect
  <2> HIDE DEF later
  <2>4. later \in ClientDeadlines
    BY <2>2, ClientRanges
  <2> QED
    BY <1>1, <2>2, <2>3, <2>4 DEF ClientStates, ClientOps, Trying
<1>2. CASE ~(c.endpoint_iter <= Endpoints)
  BY <1>2, ClientStop DEF Client!StartConnect, Trying
<1> QED
  BY <1>1, <1>2

LEMMA ClientStartRead ==
  ASSUME NEW c \in ClientStates
  PROVE  LET d == Client!StartRead(c) IN
         /\ d \in ClientStates /\ d.stopped = c.stopped /\ d.open = c.open
         /\ d.connect = c.connect /\ d.read # "none" /\ d.write = c.write
         /\ d.endpoint_iter = c.endpoint_iter
         /\ Waits(d.deadline) = Waits(c.deadline)
         /\ d.heartbeat_timer = c.heartbeat_timer
<1> DEFINE later == Client!ExpiresIn(c.deadline, ReadDeadline)
<1>1. c.deadline \in Timers /\ ReadDeadline \in Int
  BY ClientTimersOf, ClientRanges
<1>2. later \in Timers /\ later.left = ReadDeadline /\ Waits(later) = Waits(c.deadline)
  BY <1>1, ClientTimers DEF TimerLaws, Keeps
<1>3. Client!Issued(c) \in {"pending", "error"}
  BY DEF Client!Issued
<1>4. Client!StartRead(c) = [c EXCEPT !.deadline = later, !.read = Client!Issued(c)]
  BY DEF Client!StartRead
<1> HIDE DEF later
<1>5. later \in ClientDeadlines
  BY <1>2, ClientRanges
<1> QED
  BY <1>2, <1>3, <1>4, <1>5 DEF ClientStates, ClientOps

LEMMA ClientStartWrite ==
  ASSUME NEW c \in ClientStates
  PROVE  LET d == Client!StartWrite(c) IN
         /\ d \in ClientStates /\ d.stopped = c.stopped /\ d.open = c.open
         /\ d.connect = c.connect /\ d.read = c.read
         /\ ~c.stopped => d.write # "none"
         /\ d.endpoint_iter = c.endpoint_iter
         /\ d.deadline = c.deadline /\ d.heartbeat_timer = c.heartbeat_timer
<1>1. Client!Issued(c) \in {"pending", "error"}
  BY DEF Client!Issued
<1> QED
  BY <1>1 DEF ClientStates, ClientOps, Client!StartWrite

LEMMA ClientInit == Init => ClientInv
<1> SUFFICES ASSUME Init PROVE ClientInv
  OBVIOUS
<1> DEFINE c == Client!New
           s == Client!StartConnect(c)
<1>1. Client!Timer(Client!Now) \in Timers /\ Waits(Client!Timer(Client!Now)) = 0
  BY DEF Client!Timer, Client!Now, Timers, Waits
<1>0. /\ Client!Timer(Client!Now) \in ClientDeadlines /\ Client!Timer(Client!Now) \in Heartbeats
      /\ 1 \in 1..(Endpoints + 1)
  BY <1>1, ClientRanges DEF Client!Timer, Client!Now
<1>2. /\ c \in ClientStates /\ Waits(c.deadline) = 0 /\ Waits(c.heartbeat_timer) = 0
      /\ c.read = "none" /\ c.write = "none" /\ c.connect = "none"
  BY <1>0, <1>1 DEF Client!New, ClientStates, ClientOps
<1>3. /\ s \in ClientStates /\ Trying(s)
      /\ s.stopped \/ /\ s.connect # "none" /\ s.read = "none" /\ s.write = "none"
                      /\ Waits(s.deadline) = 0 /\ Waits(s.heartbeat_timer) = 0
  BY <1>2, ClientStartConnect
<1>4. client = [s EXCEPT !.deadline = Client!AsyncWait(s.deadline)]
  BY DEF Init, Client!Init, Client!Start
<1> HIDE DEF c, s
<1>5. s.deadline \in Timers /\ s.deadline \in ClientDeadlines
  BY <1>3, ClientTimersOf
<1>6. /\ Client!AsyncWait(s.deadline) \in ClientDeadlines
      /\ Waits(Client!AsyncWait(s.deadline)) = Waits(s.deadline) + 1
  BY <1>5, ClientTimers, ClientExpiry DEF TimerLaws
<1>7. /\ client \in ClientStates /\ Trying(client)
      /\ client.deadline = Client!AsyncWait(s.deadline)
      /\ client.stopped = s.stopped /\ client.connect = s.connect
      /\ client.read = s.read /\ client.write = s.write
      /\ client.heartbeat_timer = s.heartbeat_timer
  BY <1>3, <1>4, <1>6, ClientSetDeadline DEF Trying
<1>8. CASE s.stopped
  BY <1>7, <1>8 DEF ClientInv, Working
<1>9. CASE ~s.stopped
  <2>1. Waits(client.deadline) = 1
    BY <1>3, <1>6, <1>7, <1>9
  <2> QED
    BY <1>3, <1>7, <1>9, <2>1 DEF ClientInv, Working
<1> QED
  BY <1>8, <1>9

LEMMA ClientNext ==
  ASSUME ClientInv, [Client!Next]_client
  PROVE  ClientInv' /\ Client!InTime
<1> USE DEF ClientInv, Client!InTime, Client!Passed, Client!Now
<1>1. CASE Client!HandleConnect
  <2> DEFINE c == [client EXCEPT !.connect = "none"]
             next_ == [Client!Close(c) EXCEPT !.endpoint_iter = @ + 1]
  <2>1. /\ c \in ClientStates /\ c.connect = "none" /\ c.stopped = client.stopped
        /\ c.endpoint_iter = client.endpoint_iter
        /\ c.open = client.open /\ c.read = client.read /\ c.write = client.write
        /\ c.deadline = client.deadline /\ c.heartbeat_timer = client.heartbeat_timer
    BY ZenonT(60), ClientSetOps DEF ClientOps
  <2>2. client.connect # "none"
    BY <1>1 DEF Client!HandleConnect
  <2>3. CASE c.stopped /\ client' = c
    BY <2>1, <2>3 DEF Working, Trying
  <2>4. CASE /\ ~c.stopped /\ (~c.open \/ client.connect = "error")
             /\ client' = Client!StartConnect(next_)
    <3>0. c.endpoint_iter + 1 \in 1..(Endpoints + 1)
      <4> HIDE DEF c
      <4> QED
        BY <2>1, <2>2, ClientRanges DEF ClientStates, Trying
    <3>1. /\ next_ \in ClientStates /\ next_.stopped = c.stopped /\ next_.connect = "none"
          /\ next_.read = "none" <=> c.read = "none"
          /\ next_.write = "none" <=> c.write = "none"
          /\ next_.deadline = c.deadline /\ next_.heartbeat_timer = c.heartbeat_timer
      <4> HIDE DEF c
      <4> QED
        BY <2>1, <3>0, ClientClose DEF ClientStates
    <3> HIDE DEF next_
    <3> QED
      BY <2>1, <2>2, <2>4, <3>1, ClientStartConnect DEF Working, Trying
  <2>5. CASE /\ ~c.stopped /\ c.open /\ client.connect = "ok"
             /\ client' = Client!StartWrite(Client!StartRead(c))
    <3> DEFINE d == Client!StartRead(c)
    <3>1. /\ d \in ClientStates /\ d.stopped = c.stopped /\ d.open = c.open
          /\ d.connect = c.connect /\ d.read # "none"
          /\ Waits(d.deadline) = Waits(c.deadline)
          /\ d.heartbeat_timer = c.heartbeat_timer
      BY <2>1, ClientStartRead
    <3> HIDE DEF d, c
    <3>2. /\ client' \in ClientStates /\ client'.stopped = d.stopped /\ client'.open = d.open
          /\ client'.connect = d.connect /\ client'.read = d.read /\ client'.write # "none"
          /\ client'.deadline = d.deadline /\ client'.heartbeat_timer = d.heartbeat_timer
      BY <2>5, <3>1, ClientStartWrite DEF d
    <3> QED
      BY <2>1, <2>2, <2>5, <3>1, <3>2 DEF Working, Trying
  <2> QED
    BY <1>1, <2>3, <2>4, <2>5 DEF Client!HandleConnect
<1>2. CASE Client!HandleRead
  <2> DEFINE c == [client EXCEPT !.read = "none"]
  <2>1. /\ c \in ClientStates /\ c.read = "none" /\ c.stopped = client.stopped
        /\ c.endpoint_iter = client.endpoint_iter
        /\ c.open = client.open /\ c.connect = client.connect /\ c.write = client.write
        /\ c.deadline = client.deadline /\ c.heartbeat_timer = client.heartbeat_timer
    BY ZenonT(60), ClientSetOps DEF ClientOps
  <2>2. client.read # "none"
    BY <1>2 DEF Client!HandleRead
  <2>3. CASE c.stopped /\ client' = c
    BY <2>1, <2>3 DEF Working, Trying
  <2>4. CASE ~c.stopped /\ client' = Client!StartRead(c)
    <3> HIDE DEF c
    <3> QED
      BY <2>1, <2>2, <2>4, ClientStartRead DEF Working, Trying
  <2>5. CASE client.read = "error" /\ client' = Client!Stop(c)
    BY <2>1, <2>5, ClientStop DEF Working, Trying
  <2> QED
    BY <1>2, <2>3, <2>4, <2>5 DEF Client!HandleRead
<1>3. CASE Client!HandleHeartbeat
  <2> DEFINE t == Client!Fired(client.heartbeat_timer)
             c == [client EXCEPT !.heartbeat_timer = t]
  <2>1. client.heartbeat_timer \in Timers /\ client.heartbeat_timer \in Heartbeats
    BY ClientTimersOf
  <2>2. /\ t \in Timers /\ Waits(t) = Waits(client.heartbeat_timer) - 1
        /\ t.left = client.heartbeat_timer.left
        /\ Waits(client.heartbeat_timer) > 0
    BY SMTT(30), <1>3, <2>1, ClientTimers DEF Client!HandleHeartbeat, TimerLaws, Waits, Timers
  <2>3. client' = Client!StartWrite(c)
    BY <1>3 DEF Client!HandleHeartbeat
  <2> HIDE DEF t
  <2>4. /\ c \in ClientStates /\ c.heartbeat_timer = t /\ c.endpoint_iter = client.endpoint_iter
        /\ c.stopped = client.stopped /\ c.open = client.open /\ c.connect = client.connect
        /\ c.read = client.read /\ c.write = client.write /\ c.deadline = client.deadline
    BY <2>1, <2>2, ClientSetHeartbeat, ClientExpiry
  <2> HIDE DEF c
  <2> QED
    BY <2>2, <2>3, <2>4, ClientStartWrite DEF Working, Trying
<1>4. CASE Client!HandleWrite
  <2> DEFINE c == [client EXCEPT !.write = "none"]
             t == Client!ExpiresIn(c.heartbeat_timer, Heartbeat)
  <2>1. /\ c \in ClientStates /\ c.write = "none" /\ c.stopped = client.stopped
        /\ c.endpoint_iter = client.endpoint_iter
        /\ c.open = client.open /\ c.connect = client.connect /\ c.read = client.read
        /\ c.deadline = client.deadline /\ c.heartbeat_timer = client.heartbeat_timer
    BY ZenonT(60), ClientSetOps DEF ClientOps
  <2>2. client.write # "none"
    BY <1>4 DEF Client!HandleWrite
  <2>3. CASE c.stopped /\ client' = c
    BY <2>1, <2>3 DEF Working, Trying
  <2>4. CASE ~c.stopped /\ client' = [c EXCEPT !.heartbeat_timer = Client!AsyncWait(t)]
    <3> HIDE DEF c
    <3>1. c.heartbeat_timer \in Timers /\ Heartbeat \in Int
      BY <2>1, ClientTimersOf, ClientRanges
    <3>2. t \in Timers /\ t.left = Heartbeat /\ Waits(t) = Waits(c.heartbeat_timer)
      BY <3>1, ClientTimers DEF TimerLaws, Keeps
    <3> HIDE DEF t
    <3>3. Client!AsyncWait(t) \in Heartbeats /\ Waits(Client!AsyncWait(t)) = Waits(t) + 1
      BY <3>2, ClientTimers, ClientRanges DEF TimerLaws
    <3>4. /\ client' \in ClientStates /\ client'.heartbeat_timer = Client!AsyncWait(t)
          /\ client'.endpoint_iter = c.endpoint_iter
          /\ client'.stopped = c.stopped /\ client'.open = c.open
          /\ client'.connect = c.connect /\ client'.read = c.read
          /\ client'.write = c.write /\ client'.deadline = c.deadline
      BY <2>1, <2>4, <3>3, ClientSetHeartbeat
    <3> QED
      BY <2>1, <2>2, <2>4, <3>2, <3>3, <3>4 DEF Working, Trying
  <2>5. CASE client.write = "error" /\ client' = Client!Stop(c)
    BY <2>1, <2>5, ClientStop DEF Working, Trying
  <2> QED
    BY <1>4, <2>3, <2>4, <2>5 DEF Client!HandleWrite
<1>5. CASE Client!CheckDeadline
  <2> DEFINE t == Client!Fired(client.deadline)
             c == [client EXCEPT !.deadline = t]
             closed == Client!Close(c)
             late == [closed EXCEPT !.deadline = Client!ExpiresIn(closed.deadline, Client!Never)]
             awake == IF t.left = 0 THEN late ELSE c
  <2>1. /\ client.deadline \in Timers /\ client.deadline \in ClientDeadlines
        /\ Client!Fires(client.deadline)
    BY <1>5, ClientTimersOf DEF Client!CheckDeadline
  <2>2. /\ t \in Timers /\ t.left = client.deadline.left
        /\ Waits(t) = Waits(client.deadline) - 1
    BY <2>1, ClientTimers DEF TimerLaws
  <2> HIDE DEF t
  <2>3. /\ c \in ClientStates /\ c.deadline = t /\ c.endpoint_iter = client.endpoint_iter
        /\ c.stopped = client.stopped /\ c.open = client.open /\ c.connect = client.connect
        /\ c.read = client.read /\ c.write = client.write
        /\ c.heartbeat_timer = client.heartbeat_timer
    BY <2>1, <2>2, ClientSetDeadline, ClientExpiry
  <2>4. client' = IF c.stopped THEN c
                  ELSE [awake EXCEPT !.deadline = Client!AsyncWait(awake.deadline)]
    BY <1>5, <2>3 DEF Client!CheckDeadline, t
  <2> HIDE DEF c
  <2>5. /\ late \in ClientStates /\ late.stopped = c.stopped /\ late.endpoint_iter = c.endpoint_iter
        /\ late.connect = "none" <=> c.connect = "none"
        /\ late.read = "none" <=> c.read = "none"
        /\ late.write = "none" <=> c.write = "none"
        /\ Waits(late.deadline) = Waits(t) /\ late.heartbeat_timer = c.heartbeat_timer
    <3>1. /\ closed \in ClientStates /\ closed.stopped = c.stopped
          /\ closed.endpoint_iter = c.endpoint_iter
          /\ closed.connect = "none" <=> c.connect = "none"
          /\ closed.read = "none" <=> c.read = "none"
          /\ closed.write = "none" <=> c.write = "none"
          /\ closed.deadline = t /\ closed.heartbeat_timer = c.heartbeat_timer
      BY <2>3, ClientClose
    <3> HIDE DEF closed
    <3>2. Client!Never \in Int /\ Client!Never = -1
      BY DEF Client!Never
    <3>3. /\ Client!ExpiresIn(closed.deadline, Client!Never) \in Timers
          /\ Client!ExpiresIn(closed.deadline, Client!Never).left = Client!Never
          /\ Waits(Client!ExpiresIn(closed.deadline, Client!Never)) = Waits(t)
      BY <2>2, <3>1, <3>2, ClientTimers DEF TimerLaws, Keeps
    <3>4. Client!ExpiresIn(closed.deadline, Client!Never) \in ClientDeadlines
      BY <3>2, <3>3, ClientRanges
    <3> QED
      BY <3>1, <3>3, <3>4, ClientSetDeadline
  <2> HIDE DEF late
  <2>6. /\ awake \in ClientStates /\ awake.stopped = client.stopped
        /\ awake.endpoint_iter = client.endpoint_iter
        /\ awake.connect = "none" <=> client.connect = "none"
        /\ awake.read = "none" <=> client.read = "none"
        /\ awake.write = "none" <=> client.write = "none"
        /\ Waits(awake.deadline) = Waits(t) /\ awake.heartbeat_timer = client.heartbeat_timer
        /\ client.open /\ client.deadline.left # 0 => awake.open
    BY <2>2, <2>3, <2>5
  <2> HIDE DEF awake
  <2>7. CASE c.stopped
    BY <2>2, <2>3, <2>4, <2>7 DEF Working, Trying
  <2>8. CASE ~c.stopped
    <3>1. awake.deadline \in Timers /\ awake.deadline \in ClientDeadlines
      BY <2>6, ClientTimersOf
    <3>2. /\ Client!AsyncWait(awake.deadline) \in ClientDeadlines
          /\ Waits(Client!AsyncWait(awake.deadline)) = Waits(awake.deadline) + 1
      BY <3>1, ClientTimers, ClientExpiry DEF TimerLaws
    <3>3. /\ client' \in ClientStates /\ client'.endpoint_iter = awake.endpoint_iter
          /\ client'.deadline = Client!AsyncWait(awake.deadline)
          /\ client'.stopped = awake.stopped /\ client'.open = awake.open
          /\ client'.connect = awake.connect /\ client'.read = awake.read
          /\ client'.write = awake.write /\ client'.heartbeat_timer = awake.heartbeat_timer
      BY <2>4, <2>6, <2>8, <3>2, ClientSetDeadline
    <3>4. Waits(client.deadline) = 1
      BY <2>3, <2>8 DEF Working, Trying
    <3>5. Waits(client'.deadline) = 1
      BY <2>2, <2>6, <3>2, <3>3, <3>4
    <3> QED
      BY <2>3, <2>6, <2>8, <3>3, <3>5 DEF Working, Trying
  <2> QED
    BY <2>7, <2>8
<1>6. CASE Client!Complete
  <2>1. PICK o \in {"connect", "read", "write"}, result_ \in {"ok", "error"} :
          client[o] = "pending" /\ client' = [client EXCEPT ![o] = result_]
    BY <1>6 DEF Client!Complete
  <2>2. result_ \in ClientOps /\ result_ # "none"
    BY DEF ClientOps
  <2>3. CASE o = "connect"
    <3>1. client.connect = "pending" /\ client' = [client EXCEPT !.connect = result_]
      BY <2>1, <2>3
    <3>2. /\ client' \in ClientStates /\ client'.connect = result_
          /\ client'.endpoint_iter = client.endpoint_iter
          /\ client'.stopped = client.stopped /\ client'.open = client.open
          /\ client'.read = client.read /\ client'.write = client.write
          /\ client'.deadline = client.deadline
          /\ client'.heartbeat_timer = client.heartbeat_timer
      BY <2>2, <3>1, ClientSetOps
    <3> QED
      BY <2>2, <3>1, <3>2 DEF Working, Trying
  <2>4. CASE o = "read"
    <3>1. client.read = "pending" /\ client' = [client EXCEPT !.read = result_]
      BY <2>1, <2>4
    <3>2. /\ client' \in ClientStates /\ client'.read = result_
          /\ client'.endpoint_iter = client.endpoint_iter
          /\ client'.stopped = client.stopped /\ client'.open = client.open
          /\ client'.connect = client.connect /\ client'.write = client.write
          /\ client'.deadline = client.deadline
          /\ client'.heartbeat_timer = client.heartbeat_timer
      BY <2>2, <3>1, ClientSetOps
    <3> QED
      BY <2>2, <3>1, <3>2 DEF Working, Trying
  <2>5. CASE o = "write"
    <3>1. client.write = "pending" /\ client' = [client EXCEPT !.write = result_]
      BY <2>1, <2>5
    <3>2. /\ client' \in ClientStates /\ client'.write = result_
          /\ client'.endpoint_iter = client.endpoint_iter
          /\ client'.stopped = client.stopped /\ client'.open = client.open
          /\ client'.connect = client.connect /\ client'.read = client.read
          /\ client'.deadline = client.deadline
          /\ client'.heartbeat_timer = client.heartbeat_timer
      BY <2>2, <3>1, ClientSetOps
    <3> QED
      BY <2>2, <3>1, <3>2 DEF Working, Trying
  <2> QED
    BY <2>3, <2>4, <2>5
<1>7. CASE Client!Tick
  <2> DEFINE t == Client!Elapse(client.deadline)
             u == Client!Elapse(client.heartbeat_timer)
             c == [client EXCEPT !.deadline = t]
  <2>1. /\ client.deadline \in Timers /\ client.heartbeat_timer \in Timers
        /\ client.deadline \in ClientDeadlines /\ client.heartbeat_timer \in Heartbeats
    BY ClientTimersOf
  <2>2. /\ t \in ClientDeadlines /\ Waits(t) = Waits(client.deadline)
        /\ u \in Heartbeats /\ Waits(u) = Waits(client.heartbeat_timer)
    <3>1. /\ t \in Timers /\ Waits(t) = Waits(client.deadline)
          /\ t.left = IF client.deadline.left > 0 THEN client.deadline.left - 1
                      ELSE client.deadline.left
          /\ u \in Timers /\ Waits(u) = Waits(client.heartbeat_timer)
          /\ u.left = IF client.heartbeat_timer.left > 0 THEN client.heartbeat_timer.left - 1
                      ELSE client.heartbeat_timer.left
      BY <2>1, ClientTimers DEF TimerLaws, Keeps
    <3> HIDE DEF t, u
    <3> QED
      BY <2>1, <3>1, ClientRanges DEF ClientDeadlines, Heartbeats
  <2>3. client' = [c EXCEPT !.heartbeat_timer = u]
    BY <1>7 DEF Client!Tick
  <2> HIDE DEF t, u
  <2>4. /\ c \in ClientStates /\ c.deadline = t /\ c.endpoint_iter = client.endpoint_iter
        /\ c.stopped = client.stopped /\ c.open = client.open /\ c.connect = client.connect
        /\ c.read = client.read /\ c.write = client.write
        /\ c.heartbeat_timer = client.heartbeat_timer
    BY <2>2, ClientSetDeadline
  <2> HIDE DEF c
  <2>5. /\ client' \in ClientStates /\ client'.heartbeat_timer = u
        /\ client'.endpoint_iter = c.endpoint_iter
        /\ client'.stopped = c.stopped /\ client'.open = c.open
        /\ client'.connect = c.connect /\ client'.read = c.read
        /\ client'.write = c.write /\ client'.deadline = c.deadline
    BY <2>2, <2>3, <2>4, ClientSetHeartbeat
  <2> QED
    BY <2>2, <2>4, <2>5 DEF Working, Trying
<1>8. CASE UNCHANGED client
  BY <1>8 DEF Working, Trying
<1> QED
  BY <1>1, <1>2, <1>3, <1>4, <1>5, <1>6, <1>7, <1>8 DEF Client!Next

(* An operation of async_tcp_client.cpp, of the blocking clients and of    *)
(* spawn/echo_server.cpp is cancelled only by its own deadline: check_     *)
(* deadline compares the expiry with the time, so that a wait that ended   *)
(* before the deadline was moved does no harm.                             *)
THEOREM DeadlinesAreOwn == Spec => OwnDeadline
<1>1. ClientInv /\ [Next]_vars => ClientInv' /\ Client!InTime
  BY ClientSteps, ClientNext
<1>2. BlockingInv /\ [Next]_vars => BlockingInv'
  BY BlockingSteps, BlockingNext
<1>3. BlockingInv => Blocking!OwnDeadline
  BY DEF BlockingInv
<1>4. SpawnInv /\ [Next]_vars => SpawnInv' /\ Spawned!InTime
  BY SpawnedSteps, SpawnNext
<1> QED
  BY <1>1, <1>2, <1>3, <1>4, ClientInit, BlockingInit, SpawnInit, PTL DEF Spec, OwnDeadline
------------------------------------------------------------------------------
(* The sessions of timeouts/server.cpp. *)
Watches == {t \in Timers : t.left \in -1..Deadline}
Conditions == {t \in Timers : t.left \in {-1, 0}}
SessionStates ==
  [state : {"new", "open", "closed"},
   read : {"none", "pending", "text", "beat", "error"},
   write : {"none", "pending", "ok", "error"},
   queue : Seq({"text", "beat"}),
   input_deadline : Watches, output_deadline : Watches, non_empty : Conditions]

(* The output actor is in one place, awake while there is a message, and   *)
(* what it writes is the first one.                                        *)
OutputActor(r) ==
  /\ r.write # "none" => r.queue # <<>>
  /\ Waits(r.non_empty) = IF r.write = "none" THEN 1 ELSE 0
  /\ r.queue # <<>> => \/ r.write # "none" \/ r.non_empty.ready > 0
                       \/ r.non_empty.left = 0 /\ r.non_empty.waiting > 0
DeadlineActors(r) == Waits(r.input_deadline) = 1 /\ Waits(r.output_deadline) = 1
Blank(r) ==
  /\ r.read = "none" /\ r.write = "none" /\ r.queue = <<>> /\ Waits(r.non_empty) = 0
  /\ Waits(r.input_deadline) = 0 /\ Waits(r.output_deadline) = 0

Sound(r) ==
  /\ r \in SessionStates
  /\ r.state = "new" => Blank(r)
  /\ r.state = "open" => r.read # "none" /\ OutputActor(r) /\ DeadlineActors(r)

ServerInv ==
  /\ DOMAIN session = Sessions /\ session = [s \in Sessions |-> session[s]]
  /\ \A s \in Sessions : /\ Sound(session[s])
                         /\ s \in subscribers <=> session[s].state = "open"

LEMMA SessionTimers ==
  ASSUME NEW r \in SessionStates
  PROVE  /\ r.input_deadline \in Timers /\ r.output_deadline \in Timers /\ r.non_empty \in Timers
         /\ r.input_deadline \in Watches /\ r.output_deadline \in Watches
         /\ r.non_empty \in Conditions
BY DEF SessionStates, Watches, Conditions

(* The expiry is in range if it is one of those the session sets, or is    *)
(* not moved.                                                              *)
LEMMA SessionExpiry ==
  ASSUME NEW t \in Timers
  PROVE  /\ t.left \in {-1, Deadline} => t \in Watches
         /\ t.left \in {-1, 0} => t \in Conditions
         /\ \A u \in Watches : t.left = u.left => t \in Watches
         /\ \A u \in Conditions : t.left = u.left => t \in Conditions
BY ExamplesAssumption DEF Server!TimeoutAssumption, Watches, Conditions

LEMMA SessionStop ==
  ASSUME NEW r \in SessionStates
  PROVE  Sound(Server!Stop(r)) /\ Server!Stop(r).state = "closed"
<1> DEFINE i == Server!Cancel(r.input_deadline)
           o == Server!Cancel(r.output_deadline)
           n == Server!Cancel(r.non_empty)
           a == Server!Aborted(r.read)
           b == Server!Aborted(r.write)
<1>1. i \in Watches /\ o \in Watches /\ n \in Conditions
  <2>1. /\ i \in Timers /\ i.left = r.input_deadline.left
        /\ o \in Timers /\ o.left = r.output_deadline.left
        /\ n \in Timers /\ n.left = r.non_empty.left
    BY SessionTimers, ServerTimers DEF TimerLaws, Keeps
  <2> HIDE DEF i, o, n
  <2> QED
    BY <2>1, SessionTimers, SessionExpiry
<1>2. a \in {"none", "pending", "text", "beat", "error"} /\ b \in {"none", "pending", "ok", "error"}
  BY DEF SessionStates, Server!Aborted
<1>3. Server!Stop(r) = [r EXCEPT !.state = "closed", !.read = a, !.write = b,
                          !.input_deadline = i, !.non_empty = n, !.output_deadline = o]
  BY DEF Server!Stop
<1> HIDE DEF i, o, n, a, b
<1>4. Server!Stop(r) \in SessionStates /\ Server!Stop(r).state = "closed"
  BY <1>1, <1>2, <1>3 DEF SessionStates
<1> QED
  BY <1>4 DEF Sound

LEMMA SessionDeliver ==
  ASSUME NEW r \in SessionStates, NEW msg \in {"text", "beat"}
  PROVE  LET d == Server!Deliver(r, msg) IN
         /\ d \in SessionStates
         /\ d.state = r.state /\ d.read = r.read /\ d.write = r.write
         /\ d.input_deadline = r.input_deadline /\ d.output_deadline = r.output_deadline
         /\ OutputActor(r) => OutputActor(d)
<1> DEFINE n == Server!ExpiresIn(r.non_empty, 0)
           q == Append(r.queue, msg)
           d == Server!Deliver(r, msg)
<1>0. 0 \in Int /\ r.non_empty \in Timers
  BY SessionTimers
<1>1. /\ n \in Timers /\ n \in Conditions
      /\ Waits(n) = Waits(r.non_empty) /\ n.waiting = 0
  <2>1. n \in Timers /\ n.left = 0 /\ Waits(n) = Waits(r.non_empty) /\ n.waiting = 0
    BY <1>0, ServerTimers DEF TimerLaws, Keeps
  <2> HIDE DEF n
  <2> QED
    BY <2>1, SessionExpiry
<1>2. q \in Seq({"text", "beat"}) /\ q # <<>>
  BY DEF SessionStates
<1>3. d = [r EXCEPT !.queue = q, !.non_empty = n]
  BY DEF Server!Deliver, Server!Now
<1>4. n.ready \in Nat
  BY <1>1 DEF Timers
<1> HIDE DEF n, q, d
<1>5. /\ d \in SessionStates /\ d.queue = q /\ d.non_empty = n
      /\ d.state = r.state /\ d.read = r.read /\ d.write = r.write
      /\ d.input_deadline = r.input_deadline /\ d.output_deadline = r.output_deadline
  BY <1>1, <1>2, <1>3 DEF SessionStates
<1>6. OutputActor(r) => OutputActor(d)
  <2>1. Waits(n) = n.ready
    BY <1>1, <1>4 DEF Waits
  <2>2. Waits(r.non_empty) = 1 => n.ready = 1
    BY <1>1, <2>1
  <2> QED
    BY <1>1, <1>2, <1>5, <2>2 DEF OutputActor
<1> QED
  BY <1>5, <1>6 DEF d

LEMMA SessionStartRead ==
  ASSUME NEW r \in SessionStates
  PROVE  LET d == Server!StartRead(r) IN
         /\ d \in SessionStates /\ d.state = r.state /\ d.read = "pending" /\ d.write = r.write
         /\ d.queue = r.queue /\ d.non_empty = r.non_empty
         /\ Waits(d.input_deadline) = Waits(r.input_deadline)
         /\ d.output_deadline = r.output_deadline
<1> DEFINE i == Server!ExpiresIn(r.input_deadline, Deadline)
<1>1. Deadline \in Int
  BY ExamplesAssumption DEF Server!TimeoutAssumption
<1>2. i \in Watches /\ Waits(i) = Waits(r.input_deadline)
  <2>1. i \in Timers /\ i.left = Deadline /\ Waits(i) = Waits(r.input_deadline)
    BY <1>1, SessionTimers, ServerTimers DEF TimerLaws, Keeps
  <2> HIDE DEF i
  <2> QED
    BY <2>1, SessionExpiry
<1>3. Server!StartRead(r) = [r EXCEPT !.input_deadline = i, !.read = "pending"]
  BY DEF Server!StartRead
<1> HIDE DEF i
<1> QED
  BY <1>2, <1>3 DEF SessionStates

(* The output actor goes on: it sleeps, or writes. *)
LEMMA SessionAwaitOutput ==
  ASSUME NEW r \in SessionStates, r.state # "closed", r.write = "none", Waits(r.non_empty) = 0
  PROVE  LET d == Server!AwaitOutput(r) IN
         /\ d \in SessionStates /\ d.state = r.state /\ d.read = r.read
         /\ d.input_deadline = r.input_deadline
         /\ Waits(d.output_deadline) = Waits(r.output_deadline)
         /\ OutputActor(d)
<1> DEFINE d == Server!AwaitOutput(r)
<1>1. CASE r.queue = <<>>
  <2> DEFINE n == Server!ExpiresIn(r.non_empty, Server!Never)
             m == Server!AsyncWait(n)
  <2>1. Server!Never \in Int /\ Server!Never = -1
    BY DEF Server!Never
  <2>2. n \in Timers /\ n.left = -1 /\ Waits(n) = 0
    <3>1. r.non_empty \in Timers
      BY SessionTimers
    <3>2. n \in Timers /\ n.left = Server!Never /\ Waits(n) = Waits(r.non_empty)
      BY <2>1, <3>1, ServerTimers DEF TimerLaws, Keeps
    <3> HIDE DEF n
    <3> QED
      BY <2>1, <3>2
  <2> HIDE DEF n
  <2>3. m \in Conditions /\ Waits(m) = 1
    <3>1. m \in Timers /\ m.left = -1 /\ Waits(m) = 1
      BY <2>2, ServerTimers DEF TimerLaws
    <3> HIDE DEF m
    <3> QED
      BY <3>1, SessionExpiry
  <2>4. d = [r EXCEPT !.non_empty = m]
    BY <1>1 DEF Server!AwaitOutput, Server!Stopped, n
  <2> HIDE DEF m, d
  <2>5. /\ d \in SessionStates /\ d.state = r.state /\ d.read = r.read /\ d.write = r.write
        /\ d.queue = r.queue /\ d.non_empty = m /\ d.input_deadline = r.input_deadline
        /\ d.output_deadline = r.output_deadline
    BY <2>3, <2>4 DEF SessionStates
  <2> QED
    BY <1>1, <2>3, <2>5 DEF OutputActor, d
<1>2. CASE r.queue # <<>>
  <2> DEFINE o == Server!ExpiresIn(r.output_deadline, Deadline)
  <2>1. Deadline \in Int
    BY ExamplesAssumption DEF Server!TimeoutAssumption
  <2>2. o \in Watches /\ Waits(o) = Waits(r.output_deadline)
    <3>1. o \in Timers /\ o.left = Deadline /\ Waits(o) = Waits(r.output_deadline)
      BY <2>1, SessionTimers, ServerTimers DEF TimerLaws, Keeps
    <3> HIDE DEF o
    <3> QED
      BY <3>1, SessionExpiry
  <2>3. d = [r EXCEPT !.output_deadline = o, !.write = "pending"]
    BY <1>2 DEF Server!AwaitOutput, Server!StartWrite, Server!Stopped
  <2> HIDE DEF o, d
  <2>4. /\ d \in SessionStates /\ d.state = r.state /\ d.read = r.read /\ d.write = "pending"
        /\ d.queue = r.queue /\ d.non_empty = r.non_empty /\ d.input_deadline = r.input_deadline
        /\ d.output_deadline = o
    BY <2>2, <2>3 DEF SessionStates
  <2> QED
    BY <1>2, <2>2, <2>4 DEF OutputActor, d
<1> QED
  BY <1>1, <1>2

LEMMA SessionSet ==
  ASSUME NEW r \in SessionStates, NEW t \in Watches
  PROVE  /\ LET d == [r EXCEPT !.input_deadline = t] IN
            /\ d \in SessionStates /\ d.input_deadline = t
            /\ d.state = r.state /\ d.read = r.read /\ d.write = r.write /\ d.queue = r.queue
            /\ d.output_deadline = r.output_deadline /\ d.non_empty = r.non_empty
         /\ LET d == [r EXCEPT !.output_deadline = t] IN
            /\ d \in SessionStates /\ d.output_deadline = t
            /\ d.state = r.state /\ d.read = r.read /\ d.write = r.write /\ d.queue = r.queue
            /\ d.input_deadline = r.input_deadline /\ d.non_empty = r.non_empty
BY DEF SessionStates

LEMMA SessionSetCondition ==
  ASSUME NEW r \in SessionStates, NEW t \in Conditions
  PROVE  LET d == [r EXCEPT !.non_empty = t] IN
         /\ d \in SessionStates /\ d.non_empty = t
         /\ d.state = r.state /\ d.read = r.read /\ d.write = r.write /\ d.queue = r.queue
         /\ d.input_deadline = r.input_deadline /\ d.output_deadline = r.output_deadline
BY DEF SessionStates

LEMMA ServerInit == Init => ServerInv
<1>1. /\ Server!Timer(Server!Never) \in Timers /\ Waits(Server!Timer(Server!Never)) = 0
  BY DEF Server!Timer, Server!Never, Timers, Waits
<1>0. /\ Server!Timer(Server!Never) \in Watches /\ Server!Timer(Server!Never) \in Conditions
  BY <1>1, SessionExpiry DEF Server!Timer, Server!Never
<1>2. Server!New \in SessionStates /\ Blank(Server!New) /\ Server!New.state = "new"
  BY <1>0, <1>1 DEF Server!New, SessionStates, Blank
<1>3. Sound(Server!New)
  BY <1>2 DEF Sound
<1> QED
  BY <1>2, <1>3 DEF Init, Server!Init, ServerInv

(* A handler that leaves its session sound, and in the channel while it is *)
(* open, keeps the invariant.                                              *)
LEMMA ServerBecomes ==
  ASSUME ServerInv, NEW s \in Sessions, NEW r, Sound(r), Server!Becomes(s, r),
         r.state = "closed" \/ r.state = session[s].state
  PROVE  ServerInv'
<1>1. /\ session' = [session EXCEPT ![s] = r]
      /\ subscribers' = IF r.state = "closed" THEN subscribers \ {s} ELSE subscribers
  BY DEF Server!Becomes, Server!Stopped
<1>2. /\ session' = [t \in Sessions |-> session'[t]] /\ DOMAIN session' = Sessions
      /\ session'[s] = r /\ \A t \in Sessions \ {s} : session'[t] = session[t]
  BY <1>1 DEF ServerInv
<1>3. s \in subscribers' <=> r.state = "open"
  BY <1>1 DEF ServerInv, Sound, SessionStates
<1>4. \A t \in Sessions \ {s} : t \in subscribers' <=> t \in subscribers
  BY <1>1
<1> QED
  BY <1>2, <1>3, <1>4 DEF ServerInv

LEMMA ServerHandleAccept ==
  ASSUME ServerInv, NEW s \in Sessions, Server!HandleAccept(s)
  PROVE  ServerInv'
<1> DEFINE r == session[s]
           opened == [r EXCEPT !.state = "open"]
           reading == Server!StartRead(opened)
           i == Server!AsyncWait(reading.input_deadline)
           watched == [reading EXCEPT !.input_deadline = i]
           waiting == Server!AwaitOutput(watched)
           o == Server!AsyncWait(waiting.output_deadline)
           started == [waiting EXCEPT !.output_deadline = o]
<1>1. r \in SessionStates /\ Blank(r)
  BY DEF ServerInv, Sound, Server!HandleAccept
<1>2. /\ session' = [session EXCEPT ![s] = started]
      /\ subscribers' = subscribers \cup {s}
  BY DEF Server!HandleAccept, Server!Start
<1>3. /\ opened \in SessionStates /\ opened.state = "open" /\ Blank(opened)
  BY <1>1 DEF SessionStates, Blank
<1> HIDE DEF opened
<1>4. /\ reading \in SessionStates /\ reading.state = "open" /\ reading.read = "pending"
      /\ reading.write = "none" /\ Waits(reading.non_empty) = 0
      /\ Waits(reading.input_deadline) = 0 /\ Waits(reading.output_deadline) = 0
  BY <1>3, SessionStartRead DEF Blank
<1> HIDE DEF reading
<1>5. i \in Watches /\ Waits(i) = 1
  <2>1. i \in Timers /\ i.left = reading.input_deadline.left /\ Waits(i) = 1
    BY <1>4, SessionTimers, ServerTimers DEF TimerLaws
  <2> HIDE DEF i
  <2> QED
    BY <1>4, <2>1, SessionTimers, SessionExpiry
<1> HIDE DEF i
<1>6. /\ watched \in SessionStates /\ watched.state = "open" /\ watched.read = "pending"
      /\ watched.write = "none" /\ Waits(watched.non_empty) = 0
      /\ watched.input_deadline = i /\ Waits(watched.output_deadline) = 0
  BY <1>4, <1>5, SessionSet
<1> HIDE DEF watched
<1>7. /\ waiting \in SessionStates /\ waiting.state = "open" /\ waiting.read = "pending"
      /\ waiting.input_deadline = i /\ Waits(waiting.output_deadline) = 0
      /\ OutputActor(waiting)
  BY <1>6, SessionAwaitOutput
<1> HIDE DEF waiting
<1>8. o \in Watches /\ Waits(o) = 1
  <2>1. o \in Timers /\ o.left = waiting.output_deadline.left /\ Waits(o) = 1
    BY <1>7, SessionTimers, ServerTimers DEF TimerLaws
  <2> HIDE DEF o
  <2> QED
    BY <1>7, <2>1, SessionTimers, SessionExpiry
<1> HIDE DEF o
<1>9. Sound(started) /\ started.state = "open"
  <2>1. /\ started \in SessionStates /\ started.state = "open" /\ started.read = "pending"
        /\ started.write = waiting.write /\ started.queue = waiting.queue
        /\ started.input_deadline = i /\ started.output_deadline = o
        /\ started.non_empty = waiting.non_empty
    BY <1>7, <1>8, SessionSet
  <2> HIDE DEF started
  <2> QED
    BY <1>5, <1>7, <1>8, <2>1 DEF Sound, OutputActor, DeadlineActors
<1> HIDE DEF started
<1> QED
  BY <1>2, <1>9 DEF ServerInv

LEMMA SessionSetOps ==
  ASSUME NEW r \in SessionStates
  PROVE  /\ \A o \in {"none", "pending", "text", "beat", "error"} :
              LET d == [r EXCEPT !.read = o] IN
              /\ d \in SessionStates /\ d.read = o
              /\ d.state = r.state /\ d.write = r.write /\ d.queue = r.queue
              /\ d.input_deadline = r.input_deadline /\ d.output_deadline = r.output_deadline
              /\ d.non_empty = r.non_empty
         /\ \A o \in {"none", "pending", "ok", "error"} :
              LET d == [r EXCEPT !.write = o] IN
              /\ d \in SessionStates /\ d.write = o
              /\ d.state = r.state /\ d.read = r.read /\ d.queue = r.queue
              /\ d.input_deadline = r.input_deadline /\ d.output_deadline = r.output_deadline
              /\ d.non_empty = r.non_empty
BY DEF SessionStates

(* channel::deliver leaves every session sound. *)
LEMMA ServerChannelDeliver ==
  ASSUME ServerInv, NEW s \in Sessions
  PROVE  LET d == Server!ChannelDeliver("text")[s] IN
         Sound(d) /\ d.state = session[s].state
<1> DEFINE d == Server!ChannelDeliver("text")[s]
<1>1. Sound(session[s]) /\ (s \in subscribers <=> session[s].state = "open")
  BY DEF ServerInv
<1>2. CASE s \in subscribers
  <2>1. d = Server!Deliver(session[s], "text") /\ session[s].state = "open"
    BY <1>1, <1>2 DEF Server!ChannelDeliver
  <2>2. session[s] \in SessionStates
    BY <1>1 DEF Sound
  <2>3. /\ d \in SessionStates /\ d.state = "open" /\ d.read = session[s].read
        /\ d.input_deadline = session[s].input_deadline
        /\ d.output_deadline = session[s].output_deadline
        /\ OutputActor(session[s]) => OutputActor(d)
    BY <2>1, <2>2, SessionDeliver
  <2> HIDE DEF d
  <2>4. Sound(d)
    BY <1>1, <2>1, <2>3 DEF Sound, DeadlineActors
  <2> QED
    BY <2>1, <2>3, <2>4 DEF d
<1>3. CASE s \notin subscribers
  BY <1>1, <1>3 DEF Server!ChannelDeliver
<1> QED
  BY <1>2, <1>3

LEMMA ServerHandleRead ==
  ASSUME ServerInv, NEW s \in Sessions, Server!HandleRead(s)
  PROVE  ServerInv'
<1> DEFINE r == [session[s] EXCEPT !.read = "none"]
<1>0. Sound(session[s]) /\ session[s] \in SessionStates
  BY DEF ServerInv, Sound
<1>1. /\ r \in SessionStates /\ r.read = "none" /\ r.state = session[s].state
      /\ r.write = session[s].write /\ r.queue = session[s].queue
      /\ r.input_deadline = session[s].input_deadline
      /\ r.output_deadline = session[s].output_deadline
      /\ r.non_empty = session[s].non_empty
  BY ZenonT(60), <1>0, SessionSetOps
<1>2. CASE r.state = "closed" /\ Server!Becomes(s, r)
  <2>1. Sound(r)
    BY <1>1, <1>2 DEF Sound
  <2> QED
    BY <1>1, <1>2, <2>1, ServerBecomes
<1>3. CASE Server!Becomes(s, Server!Stop(r))
  BY <1>1, <1>3, SessionStop, ServerBecomes
<1>4. CASE /\ session[s].read = "text" /\ r.state # "closed"
           /\ session' = [Server!ChannelDeliver("text") EXCEPT
                            ![s] = Server!StartRead(Server!ChannelDeliver("text")[s])]
           /\ UNCHANGED subscribers
  <2> DEFINE all == Server!ChannelDeliver("text")
             d == all[s]
             e == Server!StartRead(d)
  <2>1. \A t \in Sessions : Sound(all[t]) /\ all[t].state = session[t].state
    BY ServerChannelDeliver
  <2>2. all = [t \in Sessions |-> all[t]] /\ DOMAIN all = Sessions
    BY DEF Server!ChannelDeliver
  <2>3. session[s].state = "open"
    BY <1>0, <1>1, <1>4 DEF Sound, Blank, SessionStates
  <2> HIDE DEF all
  <2>4. d \in SessionStates /\ d.state = "open" /\ Sound(d)
    BY <2>1, <2>3 DEF Sound
  <2>5. /\ e \in SessionStates /\ e.state = d.state /\ e.read = "pending" /\ e.write = d.write
        /\ e.queue = d.queue /\ e.non_empty = d.non_empty
        /\ Waits(e.input_deadline) = Waits(d.input_deadline)
        /\ e.output_deadline = d.output_deadline
    BY <2>4, SessionStartRead
  <2>6. session' = [all EXCEPT ![s] = e] /\ subscribers' = subscribers
    BY <1>4 DEF all
  <2> HIDE DEF d, e
  <2>7. Sound(e) /\ e.state = "open"
    BY <2>4, <2>5 DEF Sound, OutputActor, DeadlineActors
  <2>8. /\ DOMAIN session' = Sessions /\ session' = [t \in Sessions |-> session'[t]]
        /\ session'[s] = e /\ \A t \in Sessions \ {s} : session'[t] = all[t]
    BY <2>2, <2>6
  <2> QED
    BY <2>1, <2>3, <2>6, <2>7, <2>8 DEF ServerInv
<1>5. CASE /\ session[s].read = "beat" /\ r.state # "closed"
           /\ Server!Becomes(s, Server!StartRead(IF r.queue = <<>>
                                                 THEN Server!Deliver(r, "beat") ELSE r))
  <2> DEFINE d == IF r.queue = <<>> THEN Server!Deliver(r, "beat") ELSE r
             e == Server!StartRead(d)
  <2>1. session[s].state = "open"
    BY <1>0, <1>1, <1>5 DEF Sound, Blank, SessionStates
  <2>2. OutputActor(r) /\ DeadlineActors(r)
    BY <1>0, <1>1, <2>1 DEF Sound, OutputActor, DeadlineActors
  <2> HIDE DEF r
  <2>3. /\ d \in SessionStates /\ d.state = r.state /\ d.write = r.write
        /\ d.input_deadline = r.input_deadline /\ d.output_deadline = r.output_deadline
        /\ OutputActor(d)
    BY <1>1, <2>2, SessionDeliver
  <2> HIDE DEF d
  <2>4. /\ e \in SessionStates /\ e.state = d.state /\ e.read = "pending" /\ e.write = d.write
        /\ e.queue = d.queue /\ e.non_empty = d.non_empty
        /\ Waits(e.input_deadline) = Waits(d.input_deadline)
        /\ e.output_deadline = d.output_deadline
    BY <2>3, SessionStartRead
  <2> HIDE DEF e
  <2>5. Sound(e) /\ e.state = session[s].state
    BY <1>1, <2>1, <2>2, <2>3, <2>4 DEF Sound, OutputActor, DeadlineActors
  <2> QED
    BY <1>5, <2>5, ServerBecomes DEF d, e
<1> QED
  BY <1>2, <1>3, <1>4, <1>5 DEF Server!HandleRead, Server!Stopped

LEMMA ServerHandleOther ==
  ASSUME ServerInv, Server!HandleOther
  PROVE  ServerInv'
<1>1. \A t \in Sessions :
        /\ Sound(Server!ChannelDeliver("text")[t])
        /\ Server!ChannelDeliver("text")[t].state = session[t].state
  BY ServerChannelDeliver
<1>2. session' = Server!ChannelDeliver("text") /\ subscribers' = subscribers
  BY DEF Server!HandleOther
<1>3. DOMAIN session' = Sessions /\ session' = [t \in Sessions |-> session'[t]]
  BY <1>2 DEF Server!ChannelDeliver
<1> QED
  BY <1>1, <1>2, <1>3 DEF ServerInv

LEMMA ServerHandleAwaitOutput ==
  ASSUME ServerInv, NEW s \in Sessions, Server!HandleAwaitOutput(s)
  PROVE  ServerInv'
<1> DEFINE t == Server!Fired(session[s].non_empty)
           r == [session[s] EXCEPT !.non_empty = t]
           d == Server!AwaitOutput(r)
<1>0. /\ Sound(session[s]) /\ session[s] \in SessionStates
      /\ session[s].non_empty \in Timers /\ session[s].non_empty \in Conditions
  BY SessionTimers DEF ServerInv, Sound
<1>1. /\ Server!Fires(session[s].non_empty) /\ Server!Becomes(s, d)
  BY DEF Server!HandleAwaitOutput
<1>2. /\ t \in Conditions /\ Waits(t) = Waits(session[s].non_empty) - 1
      /\ Waits(t) \in Nat
  <2>1. /\ t \in Timers /\ t.left = session[s].non_empty.left
        /\ Waits(t) = Waits(session[s].non_empty) - 1
    BY <1>0, <1>1, ServerTimers DEF TimerLaws
  <2> HIDE DEF t
  <2>2. t \in Conditions
    BY <1>0, <2>1, SessionExpiry
  <2> QED
    BY <2>1, <2>2 DEF Waits, Timers
<1> HIDE DEF t
<1>3. /\ r \in SessionStates /\ r.non_empty = t
      /\ r.state = session[s].state /\ r.read = session[s].read /\ r.write = session[s].write
      /\ r.queue = session[s].queue /\ r.input_deadline = session[s].input_deadline
      /\ r.output_deadline = session[s].output_deadline
  BY <1>0, <1>2, SessionSetCondition
<1> HIDE DEF r
<1>4. CASE r.state = "closed"
  <2>1. d = r
    BY <1>4 DEF Server!AwaitOutput, Server!Stopped
  <2>2. Sound(d)
    BY <1>3, <1>4, <2>1 DEF Sound
  <2> QED
    BY <1>1, <1>4, <2>1, <2>2, ServerBecomes
<1>5. CASE r.state # "closed"
  <2>1. r.state = "open" /\ r.write = "none" /\ Waits(t) = 0
    BY <1>0, <1>2, <1>3, <1>5 DEF Sound, Blank, SessionStates, OutputActor
  <2>2. /\ d \in SessionStates /\ d.state = r.state /\ d.read = r.read
        /\ d.input_deadline = r.input_deadline
        /\ Waits(d.output_deadline) = Waits(r.output_deadline) /\ OutputActor(d)
    BY <1>3, <2>1, SessionAwaitOutput
  <2> HIDE DEF d
  <2>3. Sound(d)
    BY <1>0, <1>3, <2>1, <2>2 DEF Sound, DeadlineActors
  <2> QED
    BY <1>1, <1>3, <2>2, <2>3, ServerBecomes
<1> QED
  BY <1>4, <1>5

LEMMA ServerHandleWrite ==
  ASSUME ServerInv, NEW s \in Sessions, Server!HandleWrite(s)
  PROVE  ServerInv'
<1> DEFINE r == [session[s] EXCEPT !.write = "none"]
           q == Tail(r.queue)
           p == [r EXCEPT !.queue = q]
           d == Server!AwaitOutput(p)
<1>0. Sound(session[s]) /\ session[s] \in SessionStates
  BY DEF ServerInv, Sound
<1>1. /\ r \in SessionStates /\ r.write = "none" /\ r.state = session[s].state
      /\ r.read = session[s].read /\ r.queue = session[s].queue
      /\ r.input_deadline = session[s].input_deadline
      /\ r.output_deadline = session[s].output_deadline
      /\ r.non_empty = session[s].non_empty
  BY <1>0, SessionSetOps
<1>2. CASE r.state = "closed" /\ Server!Becomes(s, r)
  <2>1. Sound(r)
    BY <1>1, <1>2 DEF Sound
  <2> QED
    BY <1>1, <1>2, <2>1, ServerBecomes
<1>3. CASE Server!Becomes(s, Server!Stop(r))
  BY <1>1, <1>3, SessionStop, ServerBecomes
<1>4. CASE session[s].write = "ok" /\ r.state # "closed" /\ Server!Becomes(s, d)
  <2>1. session[s].state = "open" /\ Waits(r.non_empty) = 0 /\ r.queue # <<>>
    BY <1>0, <1>1, <1>4 DEF Sound, Blank, SessionStates, OutputActor
  <2> HIDE DEF r
  <2>2. q \in Seq({"text", "beat"})
    BY <1>1, <2>1 DEF SessionStates
  <2> HIDE DEF q
  <2>3. /\ p \in SessionStates /\ p.state = r.state /\ p.read = r.read /\ p.write = "none"
        /\ p.input_deadline = r.input_deadline /\ p.output_deadline = r.output_deadline
        /\ p.non_empty = r.non_empty
    BY <1>1, <2>2 DEF SessionStates
  <2> HIDE DEF p
  <2>4. /\ d \in SessionStates /\ d.state = p.state /\ d.read = p.read
        /\ d.input_deadline = p.input_deadline
        /\ Waits(d.output_deadline) = Waits(p.output_deadline) /\ OutputActor(d)
    BY <1>1, <1>4, <2>1, <2>3, SessionAwaitOutput
  <2> HIDE DEF d
  <2>5. Sound(d)
    BY <1>0, <1>1, <2>1, <2>3, <2>4 DEF Sound, DeadlineActors
  <2> QED
    BY <1>1, <1>4, <2>3, <2>4, <2>5, ServerBecomes
<1> QED
  BY <1>2, <1>3, <1>4 DEF Server!HandleWrite, Server!Stopped

LEMMA ServerCheckDeadline ==
  ASSUME ServerInv, NEW s \in Sessions, NEW e \in Server!Deadlines, Server!CheckDeadline(s, e)
  PROVE  ServerInv'
<1> DEFINE t == Server!Fired(session[s][e])
           r == [session[s] EXCEPT ![e] = t]
           u == Server!AsyncWait(t)
           d == [session[s] EXCEPT ![e] = u]
<1>0. /\ Sound(session[s]) /\ session[s] \in SessionStates
      /\ session[s][e] \in Timers /\ session[s][e] \in Watches
      /\ e \in {"input_deadline", "output_deadline"}
  BY SessionTimers DEF ServerInv, Sound, Server!Deadlines
<1>1. /\ t \in Watches /\ u \in Watches /\ Waits(u) = Waits(session[s][e])
  <2>1. /\ t \in Timers /\ t.left = session[s][e].left
        /\ u \in Timers /\ u.left = session[s][e].left /\ Waits(u) = Waits(session[s][e])
    BY <1>0, ServerTimers DEF Server!CheckDeadline, TimerLaws, Keeps
  <2> HIDE DEF t, u
  <2> QED
    BY <1>0, <2>1, SessionExpiry
<1>2. /\ r \in SessionStates /\ r.state = session[s].state
      /\ d \in SessionStates /\ d.state = session[s].state /\ d.read = session[s].read
      /\ d.write = session[s].write /\ d.queue = session[s].queue
      /\ d.non_empty = session[s].non_empty
      /\ Waits(d.input_deadline) = Waits(session[s].input_deadline)
      /\ Waits(d.output_deadline) = Waits(session[s].output_deadline)
  <2> HIDE DEF t, u
  <2>1. CASE e = "input_deadline"
    <3>1. /\ r = [session[s] EXCEPT !.input_deadline = t]
          /\ d = [session[s] EXCEPT !.input_deadline = u]
          /\ session[s][e] = session[s].input_deadline
      BY <2>1
    <3> HIDE DEF r, d
    <3> QED
      BY <1>0, <1>1, <3>1, SessionSet
  <2>2. CASE e = "output_deadline"
    <3>1. /\ r = [session[s] EXCEPT !.output_deadline = t]
          /\ d = [session[s] EXCEPT !.output_deadline = u]
          /\ session[s][e] = session[s].output_deadline
      BY <2>2
    <3> HIDE DEF r, d
    <3> QED
      BY <1>0, <1>1, <3>1, SessionSet
  <2> QED
    BY <1>0, <2>1, <2>2
<1>3. \/ r.state = "closed" /\ Server!Becomes(s, r)
      \/ Server!Becomes(s, Server!Stop(r))
      \/ Server!Becomes(s, d)
  <2>1. session[s] \in SessionStates
    BY <1>0
  <2>2. [r EXCEPT ![e] = Server!AsyncWait(r[e])] = d
    <3> HIDE DEF t
    <3>1. CASE e = "input_deadline"
      BY <1>0, <3>1 DEF SessionStates
    <3>2. CASE e = "output_deadline"
      BY <1>0, <3>2 DEF SessionStates
    <3> QED
      BY <1>0, <3>1, <3>2
  <2> QED
    BY <2>2 DEF Server!CheckDeadline, Server!Stopped
<1> HIDE DEF r, d
<1>4. CASE r.state = "closed" /\ Server!Becomes(s, r)
  <2>1. Sound(r)
    BY <1>2, <1>4 DEF Sound
  <2> QED
    BY <1>2, <1>4, <2>1, ServerBecomes
<1>5. CASE Server!Becomes(s, Server!Stop(r))
  BY <1>2, <1>5, SessionStop, ServerBecomes
<1>6. CASE Server!Becomes(s, d)
  <2>1. Sound(d)
    BY <1>0, <1>2 DEF Sound, Blank, OutputActor, DeadlineActors
  <2> QED
    BY <1>2, <1>6, <2>1, ServerBecomes
<1> QED
  BY <1>3, <1>4, <1>5, <1>6

(* The steps of the outside move one operation, or the time. *)
LEMMA ServerOutside ==
  ASSUME ServerInv, NEW s \in Sessions, Server!Receive(s) \/ Server!Transmit(s) \/ Server!Break(s)
  PROVE  ServerInv'
<1>0. Sound(session[s]) /\ session[s] \in SessionStates
  BY DEF ServerInv, Sound
<1>1. ASSUME NEW r, Sound(r), r.state = session[s].state, session' = [session EXCEPT ![s] = r],
             UNCHANGED subscribers
      PROVE  ServerInv'
  BY <1>1 DEF ServerInv
<1>2. ASSUME NEW o \in {"text", "beat", "error"}, session[s].read = "pending"
      PROVE  LET r == [session[s] EXCEPT !.read = o] IN Sound(r) /\ r.state = session[s].state
  <2> DEFINE r == [session[s] EXCEPT !.read = o]
  <2>1. /\ r \in SessionStates /\ r.read = o
        /\ r.state = session[s].state /\ r.write = session[s].write
        /\ r.queue = session[s].queue /\ r.input_deadline = session[s].input_deadline
        /\ r.output_deadline = session[s].output_deadline /\ r.non_empty = session[s].non_empty
    BY <1>0 DEF SessionStates
  <2> HIDE DEF r
  <2>2. Sound(r)
    BY <1>0, <1>2, <2>1 DEF Sound, Blank, OutputActor, DeadlineActors
  <2> QED
    BY <2>1, <2>2 DEF r
<1>3. ASSUME NEW o \in {"ok", "error"}, session[s].write = "pending"
      PROVE  LET r == [session[s] EXCEPT !.write = o] IN Sound(r) /\ r.state = session[s].state
  <2> DEFINE r == [session[s] EXCEPT !.write = o]
  <2>1. /\ r \in SessionStates /\ r.write = o
        /\ r.state = session[s].state /\ r.read = session[s].read
        /\ r.queue = session[s].queue /\ r.input_deadline = session[s].input_deadline
        /\ r.output_deadline = session[s].output_deadline /\ r.non_empty = session[s].non_empty
    BY <1>0 DEF SessionStates
  <2> HIDE DEF r
  <2>2. Sound(r)
    BY <1>0, <1>3, <2>1 DEF Sound, Blank, OutputActor, DeadlineActors
  <2> QED
    BY <2>1, <2>2 DEF r
<1>4. CASE Server!Receive(s)
  <2>1. PICK o \in {"text", "beat"} : session' = [session EXCEPT ![s].read = o]
    BY <1>4 DEF Server!Receive
  <2>2. session[s].read = "pending" /\ UNCHANGED subscribers
    BY <1>4 DEF Server!Receive
  <2> QED
    BY <1>1, <1>2, <2>1, <2>2
<1>5. CASE Server!Transmit(s)
  BY <1>1, <1>3, <1>5 DEF Server!Transmit
<1>6. CASE Server!Break(s)
  <2>1. PICK o \in {"read", "write"} :
          session[s][o] = "pending" /\ session' = [session EXCEPT ![s][o] = "error"]
    BY <1>6 DEF Server!Break
  <2>2. UNCHANGED subscribers
    BY <1>6 DEF Server!Break
  <2>3. CASE o = "read"
    <3>1. /\ session[s].read = "pending"
          /\ session' = [session EXCEPT ![s] = [session[s] EXCEPT !.read = "error"]]
      BY <2>1, <2>3
    <3> QED
      BY <1>1, <1>2, <2>2, <3>1
  <2>4. CASE o = "write"
    <3>1. /\ session[s].write = "pending"
          /\ session' = [session EXCEPT ![s] = [session[s] EXCEPT !.write = "error"]]
      BY <2>1, <2>4
    <3> QED
      BY <1>1, <1>3, <2>2, <3>1
  <2> QED
    BY <2>3, <2>4
<1> QED
  BY <1>4, <1>5, <1>6

LEMMA ServerTick ==
  ASSUME ServerInv, Server!Tick
  PROVE  ServerInv'
<1>1. ASSUME NEW s \in Sessions
      PROVE  Sound(Server!Pass(session[s])) /\ Server!Pass(session[s]).state = session[s].state
  <2> DEFINE r == session[s]
             i == Server!Elapse(r.input_deadline)
             o == Server!Elapse(r.output_deadline)
             d == [r EXCEPT !.input_deadline = i]
             p == [d EXCEPT !.output_deadline = o]
  <2>0. Sound(r) /\ r \in SessionStates
    BY DEF ServerInv, Sound
  <2>1. /\ i \in Watches /\ Waits(i) = Waits(r.input_deadline)
        /\ o \in Watches /\ Waits(o) = Waits(r.output_deadline)
    <3>1. ASSUME NEW t \in Watches
          PROVE  Server!Elapse(t) \in Watches /\ Waits(Server!Elapse(t)) = Waits(t)
      <4> DEFINE v == Server!Elapse(t)
      <4>1. t \in Timers /\ Deadline \in Nat
        BY ExamplesAssumption DEF Watches, Server!TimeoutAssumption
      <4>2. /\ v \in Timers /\ Waits(v) = Waits(t)
            /\ v.left = IF t.left > 0 THEN t.left - 1 ELSE t.left
        BY <4>1, ServerTimers DEF TimerLaws, Keeps
      <4> HIDE DEF v
      <4>3. v \in Watches
        BY <4>1, <4>2 DEF Watches
      <4> QED
        BY <4>2, <4>3 DEF v
    <3> QED
      BY <2>0, <3>1, SessionTimers
  <2>2. Server!Pass(r) = p
    BY DEF Server!Pass
  <2> HIDE DEF r, i, o
  <2>3. /\ d \in SessionStates /\ d.input_deadline = i
        /\ d.state = r.state /\ d.read = r.read /\ d.write = r.write /\ d.queue = r.queue
        /\ d.output_deadline = r.output_deadline /\ d.non_empty = r.non_empty
    BY <2>0, <2>1, SessionSet
  <2> HIDE DEF d
  <2>4. /\ p \in SessionStates /\ p.output_deadline = o
        /\ p.state = d.state /\ p.read = d.read /\ p.write = d.write /\ p.queue = d.queue
        /\ p.input_deadline = d.input_deadline /\ p.non_empty = d.non_empty
    BY <2>1, <2>3, SessionSet
  <2> HIDE DEF p
  <2>5. Sound(p)
    BY <2>0, <2>1, <2>3, <2>4 DEF Sound, Blank, OutputActor, DeadlineActors
  <2> QED
    BY <2>2, <2>3, <2>4, <2>5 DEF r
<1>2. session' = [s \in Sessions |-> Server!Pass(session[s])] /\ UNCHANGED subscribers
  BY DEF Server!Tick
<1> QED
  BY <1>1, <1>2 DEF ServerInv

LEMMA ServerNext ==
  ASSUME ServerInv, [Server!Next]_server_vars
  PROVE  ServerInv'
<1>1. CASE UNCHANGED server_vars
  BY <1>1 DEF server_vars, ServerInv
<1> QED
  BY <1>1, ServerHandleAccept, ServerHandleRead, ServerHandleOther, ServerHandleAwaitOutput,
    ServerHandleWrite, ServerCheckDeadline, ServerOutside, ServerTick
    DEF Server!Next, Server!Handler

(* The actors of timeouts/server.cpp, async_tcp_client.cpp and             *)
(* spawn/echo_server.cpp live, each in one operation or one wait, as long  *)
(* as the socket is open, and the output actor, for which a timer is a     *)
(* condition variable, never sleeps while its queue has a message.         *)
THEOREM ActorsLive == Spec => []Actors
<1>1. ServerInv => Server!Actors /\ Server!NoLostWakeup
  <2> SUFFICES ASSUME ServerInv, NEW s \in Sessions, session[s].state = "open"
               PROVE  /\ session[s].read # "none"
                      /\ Server!Outstanding(session[s].non_empty) =
                           IF session[s].write = "none" THEN 1 ELSE 0
                      /\ \A d \in Server!Deadlines : Server!Outstanding(session[s][d]) = 1
                      /\ s \in subscribers
                      /\ session[s].queue # <<>> =>
                           session[s].write # "none" \/ Server!Fires(session[s].non_empty)
    BY DEF Server!Actors, Server!NoLostWakeup
  <2>1. Sound(session[s]) /\ s \in subscribers /\ session[s] \in SessionStates
    BY DEF ServerInv, Sound
  <2>2. \A d \in Server!Deadlines : Server!Outstanding(session[s][d]) = 1
    BY <2>1 DEF Sound, DeadlineActors, Server!Deadlines, Server!Outstanding, Waits
  <2>3. session[s].queue # <<>> =>
          session[s].write # "none" \/ Server!Fires(session[s].non_empty)
    BY <2>1, SessionTimers, ServerTimers DEF Sound, OutputActor, TimerLaws
  <2> QED
    BY <2>1, <2>2, <2>3 DEF Sound, OutputActor, Server!Outstanding, Waits
<1>2. ClientInv => Client!Actors
  BY DEF ClientInv, Working, Client!Actors, Client!Outstanding, Waits
<1>3. SpawnInv => Spawned!Coroutines
  BY DEF SpawnInv
<1>4. ServerInv /\ [Next]_vars => ServerInv'
  BY ServerSteps, ServerNext
<1>5. ClientInv /\ [Next]_vars => ClientInv'
  BY ClientSteps, ClientNext
<1>6. SpawnInv /\ [Next]_vars => SpawnInv'
  BY SpawnedSteps, SpawnNext
<1>7. ServerInv /\ ClientInv /\ SpawnInv => Actors
  BY <1>1, <1>2, <1>3 DEF Actors
<1> QED
  BY <1>4, <1>5, <1>6, <1>7, ServerInit, ClientInit, SpawnInit, PTL DEF Spec
=============================================================================
