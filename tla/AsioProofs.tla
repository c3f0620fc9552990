----------------------------- MODULE AsioProofs -----------------------------
(***************************************************************************)
(* The networked examples of asio, proved for every number of connections, *)
(* children, requests, bytes and calls: the HTTP server, the forking       *)
(* server, ping, the third-party library and the logger.                   *)
(***************************************************************************)
EXTENDS AsioExamples, SequenceTheorems, TLAPS

(* A step of the examples is a step of the program that runs, and leaves   *)
(* the variables of every other program alone.                             *)
LEMMA HttpSteps == ASSUME [Next]_vars PROVE [Http!Next]_http_vars
BY DEF vars, Next, Alone, Runs
LEMMA ForkerSteps == ASSUME [Next]_vars PROVE [Forker!Next]_forker_vars
BY DEF vars, Next, Alone, Runs
LEMMA PingerSteps == ASSUME [Next]_vars PROVE [Pinger!Next]_pinger_vars
BY DEF vars, Next, Alone, Runs
LEMMA LibrarySteps == ASSUME [Next]_vars PROVE [Library!Next]_library_vars
BY DEF vars, Next, Alone, Runs
LEMMA LoggerSteps == ASSUME [Next]_vars PROVE [Service!Next]_service_vars
BY DEF vars, Next, Alone, Runs
------------------------------------------------------------------------------
(* The HTTP server. *)
HttpOps ==
  {Http!None} \cup ({"read"} \X {"pending", "request", "bad_request", "more", "failed", "aborted"})
              \cup ({"write"} \X {"pending", "ok", "failed", "aborted"})

HttpInv ==
  /\ acceptor_open \in BOOLEAN /\ accept \in {"none", "pending", "ok", "error"}
  /\ signal \in {"pending", "ready", "none"}
  /\ new_connection_ \in Connections /\ op \in [Connections -> HttpOps]
  /\ connections_ \subseteq open /\ open \subseteq Connections
  /\ Http!KeepsAccepting /\ Http!Managed /\ Http!Tended

LEMMA HttpInit == Init => HttpInv
BY DEF Init, HttpInv, Http!Init, HttpOps, Http!Managed, Http!Tended, Http!KeepsAccepting, Http!None

LEMMA HttpNext ==
  ASSUME HttpInv, [Http!Next]_http_vars
  PROVE  HttpInv'
<1> USE DEF HttpInv, HttpOps, Http!KeepsAccepting, Http!Managed, Http!Tended, Http!None
<1>1. CASE Http!HandleAccept
  BY <1>1 DEF Http!HandleAccept, Http!StartAccept
<1>2. CASE Http!HandleStop
  BY <1>2 DEF Http!HandleStop, Http!Abort
<1>3. CASE Http!Connect \/ Http!Signal
  BY <1>3 DEF Http!Connect, Http!Signal
<1>4. ASSUME NEW c \in Connections, Http!HandleRead(c)
      PROVE  HttpInv'
  BY <1>4 DEF Http!HandleRead, Http!Stop, Http!Read, Http!Write
<1>5. ASSUME NEW c \in Connections, Http!HandleWrite(c)
      PROVE  HttpInv'
  BY <1>5 DEF Http!HandleWrite, Http!Stop
<1>6. ASSUME NEW c \in Connections, Http!Transfer(c)
      PROVE  HttpInv'
  BY <1>6 DEF Http!Transfer
<1>7. CASE UNCHANGED http_vars
  BY <1>7 DEF http_vars
<1> QED
  BY <1>1, <1>2, <1>3, <1>4, <1>5, <1>6, <1>7 DEF Http!Next

(* The HTTP server can be stopped at any time, for any number of           *)
(* connections: until handle_stop it accepts, every open connection is in  *)
(* connections_ with an operation whose handler will stop it, and no       *)
(* operation lasts that stop_all does not reach.                           *)
THEOREM ServerIsAttended == Spec => []Attended
<1>1. HttpInv => Attended
  BY DEF HttpInv, Attended
<1>2. HttpInv /\ [Next]_vars => HttpInv'
  BY HttpSteps, HttpNext
<1> QED
  BY <1>1, <1>2, HttpInit, PTL DEF Spec
------------------------------------------------------------------------------
(* The server that forks. *)
OpNames == {"signal", "accept", "read", "write"}
Results == {"ready", "failed"}
Servers == [acceptor : BOOLEAN, socket : BOOLEAN,
            ops : [OpNames -> {"none", "waiting", "ready", "failed"}]]

ForkInv ==
  /\ process \in [Forker!Processes -> {"unborn", "running", "zombie", "reaped"}]
  /\ server \in [Forker!Processes -> Servers]
  /\ server["parent"].acceptor
  /\ server["parent"].ops["accept"] = "ready" => server["parent"].socket
  /\ \A c \in Children : process[c] = "running" => ~server[c].acceptor
  /\ Forker!Roles /\ Forker!NotOverlooked

LEMMA ForkNames ==
  /\ Forker!Parent = "parent" /\ "parent" \in Forker!Processes
  /\ Forker!Processes = Children \cup {"parent"} /\ "parent" \notin Children
  /\ DOMAIN Forker!NoOps = OpNames /\ Forker!NoOps["signal"] = "none"
BY ExamplesAssumption DEF Forker!ForkAssumption, Forker!Parent, Forker!Processes, Forker!NoOps,
  OpNames

(* The copy of the server that a child makes its own. *)
LEMMA ChildServer ==
  ASSUME NEW s \in Servers, s.ops["write"] = "none", s.socket
  PROVE  LET child == Forker!ChildOf(s) IN
         /\ child \in Servers /\ ~child.acceptor /\ child.socket
         /\ child.ops["accept"] = "none" /\ child.ops["signal"] = "ready"
         /\ child.ops["write"] = "none"
BY DEF Servers, OpNames, Forker!ChildOf

(* The server that the parent goes on with. *)
LEMMA ParentServer ==
  ASSUME NEW s \in Servers
  PROVE  LET parent == Forker!AcceptAgain(s) IN
         /\ parent \in Servers /\ parent.acceptor = s.acceptor /\ ~parent.socket
         /\ parent.ops = [s.ops EXCEPT !["accept"] = "waiting"]
BY DEF Servers, OpNames, Forker!AcceptAgain

(* The server after one of its operations has completed. *)
LEMMA CompletedServer ==
  ASSUME NEW s \in Servers, NEW o \in OpNames, NEW r \in Results
  PROVE  LET outcome == Forker!Completed(s, o, r) IN
         /\ outcome \in Servers /\ outcome.acceptor = s.acceptor
         /\ outcome.socket <=> s.socket \/ (o = "accept" /\ r = "ready")
         /\ outcome.ops = [s.ops EXCEPT ![o] = r]
BY DEF Servers, OpNames, Results, Forker!Completed

LEMMA ForkInit == Init => ForkInv
BY ForkNames DEF Init, Forker!Init, ForkInv, Forker!NoOps,
  OpNames, Servers, Forker!Roles,
  Forker!NotOverlooked

LEMMA ForkNext ==
  ASSUME ForkInv, [Forker!Next]_forker_vars
  PROVE  ForkInv'
<1> USE ForkNames DEF ForkInv, OpNames, Servers, Forker!Roles, Forker!NotOverlooked
<1>1. CASE Forker!Signalled
  BY <1>1 DEF Forker!Signalled
<1>2. ASSUME NEW p \in Forker!Processes, Forker!HandleSignalWait(p)
      PROVE  ForkInv'
  BY <1>2 DEF Forker!HandleSignalWait, Forker!Reaped
<1>3. ASSUME NEW p \in Forker!Processes, Forker!HandleAccept(p)
      PROVE  ForkInv'
  <2>1. p = "parent"
    BY <1>3 DEF Forker!HandleAccept
  <2>2. PICK c \in Children :
          /\ process[c] = "unborn"
          /\ process' = [process EXCEPT ![c] = "running"]
          /\ server' = [server EXCEPT ![c] = Forker!ChildOf(server["parent"]),
                                      !["parent"] = Forker!AcceptAgain(server["parent"])]
    BY <1>3, <2>1 DEF Forker!HandleAccept
  <2> DEFINE child == Forker!ChildOf(server["parent"])
             parent == Forker!AcceptAgain(server["parent"])
  <2> server["parent"].socket
    BY <1>3, <2>1 DEF Forker!HandleAccept
  <2>3. /\ child \in Servers /\ ~child.acceptor /\ child.socket
        /\ child.ops["accept"] = "none" /\ child.ops["signal"] = "ready"
        /\ child.ops["write"] = "none"
    BY ChildServer
  <2>4. /\ parent \in Servers /\ parent.acceptor /\ ~parent.socket
        /\ parent.ops = [server["parent"].ops EXCEPT !["accept"] = "waiting"]
    BY ParentServer
  <2>5. server' = [server EXCEPT ![c] = child, !["parent"] = parent]
    BY <2>2
  <2>6. /\ server' \in [Forker!Processes -> Servers]
        /\ server'[c] = child /\ server'["parent"] = parent
        /\ \A d \in Children \ {c} : server'[d] = server[d]
    <3> HIDE DEF child, parent
    <3> QED
      BY <2>3, <2>4, <2>5
  <2>7. UNCHANGED sigchld
    BY <1>3 DEF Forker!HandleAccept
  <2> HIDE DEF child, parent
  <2> QED
    BY <2>2, <2>3, <2>4, <2>6, <2>7
<1>4. ASSUME NEW p \in Forker!Processes, Forker!HandleAcceptError(p)
      PROVE  ForkInv'
  <2>1. p = "parent"
    BY <1>4 DEF Forker!HandleAcceptError
  <2>2. CASE server' = [server EXCEPT ![p].ops["accept"] = "waiting"]
             /\ server["parent"].ops["accept"] = "failed"
    BY <1>4, <2>1, <2>2 DEF Forker!HandleAcceptError
  <2>3. CASE server' = [server EXCEPT ![p] = Forker!AcceptAgain(server[p])]
    <3> DEFINE parent == Forker!AcceptAgain(server["parent"])
    <3>1. /\ parent \in Servers /\ parent.acceptor /\ ~parent.socket
          /\ parent.ops = [server["parent"].ops EXCEPT !["accept"] = "waiting"]
      BY ParentServer
    <3>2. server' = [server EXCEPT !["parent"] = parent]
      BY <2>1, <2>3
    <3>3. UNCHANGED <<process, sigchld>>
      BY <1>4 DEF Forker!HandleAcceptError
    <3> HIDE DEF parent
    <3> QED
      BY <3>1, <3>2, <3>3
  <2> QED
    BY <1>4, <2>1, <2>2, <2>3 DEF Forker!HandleAcceptError
<1>5. ASSUME NEW p \in Forker!Processes, Forker!Exit(p)
      PROVE  ForkInv'
  BY <1>5 DEF Forker!Exit
<1>6. ASSUME NEW p \in Forker!Processes, Forker!PeerGoes(p)
      PROVE  ForkInv'
  BY <1>6 DEF Forker!PeerGoes
<1>7. ASSUME NEW p \in Forker!Processes, NEW o \in OpNames, Forker!Complete(p, o)
      PROVE  ForkInv'
  <2>1. PICK r \in {"ready", "failed"} :
          server' = [server EXCEPT ![p] = Forker!Completed(server[p], o, r)]
    BY <1>7 DEF Forker!Complete
  <2> DEFINE outcome == Forker!Completed(server[p], o, r)
  <2>2. /\ outcome \in Servers /\ outcome.acceptor = server[p].acceptor
        /\ outcome.socket <=> server[p].socket \/ (o = "accept" /\ r = "ready")
        /\ outcome.ops = [server[p].ops EXCEPT ![o] = r]
    <3>1. server[p] \in Servers
      OBVIOUS
    <3>2. o \in OpNames /\ r \in Results
      BY DEF Results
    <3> HIDE DEF OpNames, Servers
    <3> QED
      BY ONLY <3>1, <3>2, CompletedServer
  <2>3. /\ process[p] = "running" /\ o # "signal" /\ server[p].ops[o] = "waiting"
        /\ UNCHANGED <<process, sigchld>>
    BY <1>7 DEF Forker!Complete
  <2>4. server' = [server EXCEPT ![p] = outcome]
    BY <2>1
  <2> HIDE DEF outcome
  <2> QED
    BY <2>2, <2>3, <2>4
<1>8. ASSUME NEW p \in Forker!Processes, NEW o \in OpNames, Forker!Echo(p, o)
      PROVE  ForkInv'
  BY <1>8 DEF Forker!Echo, Forker!Other
<1>9. CASE UNCHANGED forker_vars
  BY <1>9 DEF forker_vars
<1> QED
  BY <1>1, <1>2, <1>3, <1>4, <1>5, <1>6, <1>7, <1>8, <1>9 DEF Forker!Next

(* Parent and child of process_per_connection.cpp run the same handlers on *)
(* copies of the same object and never do each other's work, and while     *)
(* there is a zombie a SIGCHLD is pending or about to be handled, however  *)
(* many children die under one signal.                                     *)
THEOREM RolesAreKept == Spec => []Roles
<1>1. ForkInv => Roles
  BY DEF ForkInv, Roles
<1>2. ForkInv /\ [Next]_vars => ForkInv'
  BY ForkerSteps, ForkNext
<1> QED
  BY <1>1, <1>2, ForkInit, PTL DEF Spec
------------------------------------------------------------------------------
(* The pinger. *)
PingInv ==
  /\ sequence_number \in 0..Width - 1 /\ num_replies \in 0..MaxReplies
  /\ age \in 0..PingTimeout + 1 /\ network \subseteq 0..MaxLate
  /\ timer \in [expiry : Nat, handler : {"start_send", "handle_timeout"}, cancelled : BOOLEAN]
  /\ Pinger!OwnReply
  /\ timer.handler = "handle_timeout" =>
       timer.expiry = PingTimeout /\ (timer.cancelled => num_replies > 0)
  /\ timer.handler = "start_send" =>
       timer.expiry = Pause /\ (age >= Pause \/ (num_replies > 0 /\ ~timer.cancelled))

(* Within one turn of the sequence numbers, only the reply to the last     *)
(* request has its number.                                                 *)
LEMMA OwnNumber ==
  ASSUME PingInv, NEW late \in 0..MaxLate, Pinger!Matches(late)
  PROVE  late = 0
<1>1. /\ Width \in Nat /\ Width > 0 /\ late \in Nat /\ late < Width
      /\ sequence_number \in Nat /\ sequence_number < Width
  BY ExamplesAssumption DEF PingInv, Pinger!PingAssumption
<1>2. (sequence_number + Width - late) % Width = sequence_number
  BY DEF Pinger!Matches, Pinger!Number
<1>3. CASE late > sequence_number
  <2>1. sequence_number + Width - late \in 0..Width - 1
    BY <1>1, <1>3
  <2>2. (sequence_number + Width - late) % Width = sequence_number + Width - late
    BY <1>1, <2>1
  <2> QED
    BY <1>1, <1>2, <2>2
<1>4. CASE late <= sequence_number
  <2>1. (sequence_number - late + Width) % Width = sequence_number - late
    BY <1>1, <1>4
  <2> QED
    BY <1>1, <1>2, <2>1
<1> QED
  BY <1>1, <1>3, <1>4

LEMMA PingInit == Init => PingInv
BY ExamplesAssumption DEF Init, Pinger!Init, PingInv, Pinger!PingAssumption, Pinger!OwnReply,
  Pinger!Wait

LEMMA PingNext ==
  ASSUME PingInv, [Pinger!Next]_pinger_vars
  PROVE  PingInv' /\ Pinger!Apart
<1> USE DEF PingInv, Pinger!OwnReply, Pinger!Apart
<1>0. /\ Width \in Nat /\ Width > 0 /\ Pause \in Nat /\ PingTimeout \in Nat /\ Pause < PingTimeout
      /\ MaxReplies \in Nat /\ MaxLate \in Nat
  BY ExamplesAssumption DEF Pinger!PingAssumption
<1>1. CASE Pinger!StartSend
  <2>1. (sequence_number + 1) % Width \in 0..Width - 1
    BY <1>0
  <2>2. PICK reply \in SUBSET {0} :
          network' = {late + 1 : late \in network \ {MaxLate}} \cup reply
    BY <1>1 DEF Pinger!StartSend
  <2>3. network' \subseteq 0..MaxLate
    <3>1. \A late \in network \ {MaxLate} : late + 1 \in 0..MaxLate
      BY <1>0
    <3>2. reply \subseteq 0..MaxLate
      BY <1>0
    <3> QED
      BY <2>2, <3>1, <3>2
  <2>4. /\ sequence_number' = (sequence_number + 1) % Width /\ num_replies' = 0 /\ age' = 0
        /\ timer' = [expiry |-> PingTimeout, handler |-> "handle_timeout", cancelled |-> FALSE]
        /\ counted' = Pinger!None
        /\ timer.handler = "start_send" /\ (timer.cancelled \/ age >= timer.expiry)
    BY <1>1 DEF Pinger!StartSend, Pinger!Ready, Pinger!Wait
  <2>5. 0 \in 0..MaxReplies /\ 0 \in 0..PingTimeout + 1
    BY <1>0
  <2>6. age >= Pause
    BY <2>4
  <2> QED
    BY <1>0, <2>1, <2>3, <2>4, <2>5, <2>6
<1>2. CASE Pinger!HandleTimeout
  BY <1>0, <1>2 DEF Pinger!HandleTimeout, Pinger!Ready, Pinger!Wait
<1>3. CASE Pinger!Tick
  BY <1>0, <1>3 DEF Pinger!Tick
<1>4. ASSUME NEW late \in 0..MaxLate, Pinger!HandleReceive(late)
      PROVE  PingInv' /\ Pinger!Apart
  <2>1. CASE Pinger!Matches(late)
    <3>1. /\ counted' = 0 /\ num_replies' = num_replies + 1
          /\ UNCHANGED <<sequence_number, age>>
          /\ timer' = [timer EXCEPT !.cancelled = timer.cancelled \/ num_replies = 0]
          /\ num_replies < MaxReplies /\ network' \subseteq network
      BY <1>4, <2>1, OwnNumber DEF Pinger!HandleReceive, Pinger!Counted
    <3>2. (timer.cancelled \/ num_replies = 0) \in BOOLEAN
      OBVIOUS
    <3>3. /\ timer' \in [expiry : Nat, handler : {"start_send", "handle_timeout"},
                         cancelled : BOOLEAN]
          /\ timer'.expiry = timer.expiry /\ timer'.handler = timer.handler
          /\ timer'.cancelled = (timer.cancelled \/ num_replies = 0)
      BY <3>1, <3>2
    <3>4. num_replies' \in 0..MaxReplies /\ num_replies' > 0 /\ network' \subseteq 0..MaxLate
      BY <1>0, <3>1
    <3> QED
      BY <1>0, <3>1, <3>3, <3>4
  <2>2. CASE ~Pinger!Matches(late)
    BY <1>4, <2>2 DEF Pinger!HandleReceive
  <2> QED
    BY <2>1, <2>2
<1>5. CASE UNCHANGED pinger_vars
  BY <1>5 DEF pinger_vars
<1> QED
  BY <1>1, <1>2, <1>3, <1>4, <1>5 DEF Pinger!Next

(* ping.cpp sends its requests at least a pause apart and counts only the  *)
(* reply to the last one, whatever replies are late, doubled or stale, for *)
(* sequence numbers of any width that the late replies do not exhaust.     *)
THEOREM PingsAreApart == Spec => Pings
<1>1. PingInv /\ [Next]_vars => PingInv' /\ Pinger!Apart
  BY PingerSteps, PingNext
<1>2. PingInv => Pinger!OwnReply
  BY DEF PingInv
<1> QED
  BY <1>1, <1>2, PingInit, PTL DEF Spec, Pings
------------------------------------------------------------------------------
(* The library.  Echo is what the peer has back, what is on its way and    *)
(* what is still to be written and to be read.                             *)
Echo(received, outbound, buffer, inbound) == received \o outbound \o buffer \o inbound

LEMMA Associative ==
  \A s, t, u \in Seq(Nat) : (s \o t) \o u = s \o (t \o u)
BY SMTT(30), ConcatAssociative

LEMMA EchoGrows ==
  ASSUME NEW s \in Seq(Nat), NEW i \in Seq(Nat), NEW n \in Nat
  PROVE  s \o Append(i, n) = Append(s \o i, n)
<1>1. <<n>> \in Seq(Nat) /\ s \o i \in Seq(Nat)
  OBVIOUS
<1>2. Append(i, n) = i \o <<n>> /\ Append(s \o i, n) = (s \o i) \o <<n>>
  BY <1>1, AppendIsConcat
<1> QED
  BY <1>1, <1>2, ConcatAssociative

(* What moves from the front of one sequence to the end of the one before  *)
(* it stays where it is in the whole.                                      *)
LEMMA Moves ==
  ASSUME NEW s \in Seq(Nat), NEW t \in Seq(Nat), NEW len \in 0..Len(t)
  PROVE  (s \o SubSeq(t, 1, len)) \o SubSeq(t, len + 1, Len(t)) = s \o t
<1> DEFINE a == SubSeq(t, 1, len)
           b == SubSeq(t, len + 1, Len(t))
<1>1. a \in Seq(Nat) /\ b \in Seq(Nat)
  OBVIOUS
<1>2. a \o b = t
  <2>1. /\ 1 \in 1..Len(t) + 1 /\ len \in 1 - 1..Len(t) /\ Len(t) \in len..Len(t)
    OBVIOUS
  <2>2. SubSeq(t, 1, len) \o SubSeq(t, len + 1, Len(t)) = SubSeq(t, 1, Len(t))
    BY <2>1, ConcatAdjacentSubSeq
  <2> QED
    BY <2>2, SubSeqFull
<1> HIDE DEF a, b
<1>3. (s \o a) \o b = s \o (a \o b)
  BY <1>1, Associative
<1> QED
  BY <1>2, <1>3 DEF a, b

LEMMA OneElement == ASSUME NEW s \in Seq(Nat), Len(s) = 1 PROVE s = <<s[1]>>
<1> DEFINE t == <<s[1]>>
<1>1. 1 \in 1..Len(s)
  OBVIOUS
<1>2. s[1] \in Nat
  BY <1>1, ElementOfSeq
<1>3. t \in Seq(Nat) /\ Len(t) = 1 /\ t[1] = s[1]
  BY <1>2
<1> HIDE DEF t
<1>4. s = t
  BY <1>3, SeqEqual
<1> QED
  BY <1>4 DEF t

LEMMA EchoReceives ==
  ASSUME NEW r \in Seq(Nat), NEW o \in Seq(Nat), NEW w \in Seq(Nat), NEW i \in Seq(Nat),
         o # <<>>
  PROVE  Echo(Append(r, Head(o)), Tail(o), w, i) = Echo(r, o, w, i)
<1>1. 1 \in 0..Len(o) /\ Tail(o) = SubSeq(o, 1 + 1, Len(o)) /\ SubSeq(o, 1, 1) = <<Head(o)>>
  <2>1. Len(o) \in Nat /\ Len(o) > 0 /\ Tail(o) = SubSeq(o, 2, Len(o)) /\ Head(o) = o[1]
    BY TailIsSubSeq
  <2>2. SubSeq(o, 1, 1) \in Seq(Nat) /\ Len(SubSeq(o, 1, 1)) = 1 /\ SubSeq(o, 1, 1)[1] = o[1]
    BY <2>1
  <2>3. SubSeq(o, 1, 1) = <<o[1]>>
    BY <2>2, OneElement
  <2> QED
    BY <2>1, <2>3
<1>2. Append(r, Head(o)) = r \o <<Head(o)>>
  BY AppendIsConcat
<1>3. (r \o SubSeq(o, 1, 1)) \o SubSeq(o, 1 + 1, Len(o)) = r \o o
  BY <1>1, Moves
<1> QED
  BY <1>1, <1>2, <1>3 DEF Echo

LEMMA EchoReads ==
  ASSUME NEW r \in Seq(Nat), NEW o \in Seq(Nat), NEW i \in Seq(Nat), NEW len \in 0..Len(i)
  PROVE  Echo(r, o, SubSeq(i, 1, len), SubSeq(i, len + 1, Len(i))) = Echo(r, o, <<>>, i)
<1>1. r \o o \in Seq(Nat) /\ (r \o o) \o <<>> = r \o o
  OBVIOUS
<1>2. ((r \o o) \o SubSeq(i, 1, len)) \o SubSeq(i, len + 1, Len(i)) = (r \o o) \o i
  BY <1>1, Moves
<1> QED
  BY <1>1, <1>2 DEF Echo

LEMMA EchoWrites ==
  ASSUME NEW r \in Seq(Nat), NEW o \in Seq(Nat), NEW w \in Seq(Nat), NEW i \in Seq(Nat),
         NEW len \in 0..Len(w)
  PROVE  Echo(r, o \o SubSeq(w, 1, len), SubSeq(w, len + 1, Len(w)), i) = Echo(r, o, w, i)
<1>1. r \o o \in Seq(Nat)
  OBVIOUS
<1>2. r \o (o \o SubSeq(w, 1, len)) = (r \o o) \o SubSeq(w, 1, len)
  <2> DEFINE a == SubSeq(w, 1, len)
  <2>1. a \in Seq(Nat)
    OBVIOUS
  <2> HIDE DEF a
  <2>2. (r \o o) \o a = r \o (o \o a)
    BY SMTT(30), <2>1, Associative
  <2> QED
    BY <2>2 DEF a
<1>3. ((r \o o) \o SubSeq(w, 1, len)) \o SubSeq(w, len + 1, Len(w)) = (r \o o) \o w
  BY <1>1, Moves
<1> QED
  BY <1>2, <1>3 DEF Echo

WaitStates == {"none", "pending", "ready", "aborted"}
Libraries == [state_ : {"reading", "writing"}, write_buffer_ : Seq(Nat)]
Peers ==
  [sent : Nat, closed : BOOLEAN, reset : BOOLEAN,
   inbound : Seq(Nat), outbound : Seq(Nat), received : Seq(Nat)]

(* A wait is for what the library wants, which writes all it has read      *)
(* before it reads again.                                                  *)
Wanted(s, o) ==
  /\ o \in [read : WaitStates, write : WaitStates]
  /\ o.read # "none" => s.state_ = "reading"
  /\ o.write # "none" => s.state_ = "writing"

Echoed == Echo(peer.received, peer.outbound, library.write_buffer_, peer.inbound)

LibraryInv ==
  /\ library \in Libraries /\ peer \in Peers /\ Wanted(library, waits)
  /\ library.state_ = "reading" => library.write_buffer_ = <<>>
  /\ ~peer.reset => Echoed = [n \in 1..peer.sent |-> n]
  /\ Len(library.write_buffer_) <= Capacity /\ Len(peer.outbound) <= Room

LEMMA LibraryInit == Init => LibraryInv
<1> SUFFICES ASSUME Init PROVE LibraryInv
  OBVIOUS
<1>1. /\ library = [state_ |-> "reading", write_buffer_ |-> <<>>]
      /\ waits = [read |-> "none", write |-> "none"]
      /\ peer = [sent |-> 0, closed |-> FALSE, reset |-> FALSE, inbound |-> <<>>,
                 outbound |-> <<>>, received |-> <<>>]
  BY DEF Init, Library!Init
<1>2. library \in Libraries /\ peer \in Peers /\ Wanted(library, waits)
  BY <1>1 DEF Libraries, Peers, Wanted, WaitStates
<1>3. Echoed = <<>> /\ peer.sent = 0
  BY <1>1 DEF Echoed, Echo
<1>4. <<>> = [n \in 1..0 |-> n]
  OBVIOUS
<1>5. Capacity \in Nat /\ Room \in Nat
  BY ExamplesAssumption DEF Library!ThirdPartyAssumption
<1> QED
  BY <1>1, <1>2, <1>3, <1>4, <1>5 DEF LibraryInv

LEMMA LibraryStarts ==
  ASSUME NEW s, NEW c, NEW o, Wanted(s, o), Library!StartOperations(s, c, o)
  PROVE  Wanted(s, waits')
<1>1. Library!Started \in {"pending", "aborted"}
  BY DEF Library!Started
<1> DEFINE read == Library!want_read(s) /\ ~c.read_in_progress_
           write == Library!want_write(s) /\ ~c.write_in_progress_
<1>2. waits' = [read |-> IF read THEN Library!Started ELSE o.read,
                write |-> IF write THEN Library!Started ELSE o.write]
  BY DEF Library!StartOperations
<1>3. (read => s.state_ = "reading") /\ (write => s.state_ = "writing")
  BY DEF Library!want_read, Library!want_write
<1> HIDE DEF read, write
<1> QED
  BY <1>1, <1>2, <1>3 DEF Wanted, WaitStates

LEMMA LibraryAfter ==
  ASSUME NEW ec, NEW s, NEW c, NEW o, Wanted(s, o), Library!AfterOperation(ec, s, c, o)
  PROVE  Wanted(s, waits')
<1>1. CASE Library!StartOperations(s, c, o)
  BY <1>1, LibraryStarts
<1>2. CASE Library!Close(c, o)
  BY <1>2 DEF Library!Close, Library!Aborted, Wanted, WaitStates
<1> QED
  BY <1>1, <1>2 DEF Library!AfterOperation

LEMMA LibraryRead == ASSUME LibraryInv, Library!HandleRead PROVE LibraryInv'
<1> DEFINE c == [conn EXCEPT !.read_in_progress_ = FALSE]
           o == [waits EXCEPT !.read = "none"]
<1>1. waits.read # "none" /\ library.state_ = "reading" /\ library.write_buffer_ = <<>>
  BY DEF LibraryInv, Wanted, Library!HandleRead
<1>2. o.read = "none" /\ o.write = "none" /\ o \in [read : WaitStates, write : WaitStates]
  BY <1>1 DEF LibraryInv, Wanted, WaitStates
<1>3. \A s : Wanted(s, o)
  BY <1>2 DEF Wanted, WaitStates
<1>4. CASE Library!ReadResult = "ok"
  <2>1. PICK len \in 1..Capacity :
          /\ len <= Len(peer.inbound)
          /\ library' = [write_buffer_ |-> SubSeq(peer.inbound, 1, len), state_ |-> "writing"]
          /\ peer' = [peer EXCEPT !.inbound = SubSeq(peer.inbound, len + 1, Len(peer.inbound))]
          /\ Library!AfterOperation("ok", library', c, o)
    BY <1>4 DEF Library!HandleRead
  <2>2. Capacity \in Nat /\ peer.inbound \in Seq(Nat) /\ len \in 0..Len(peer.inbound)
    BY <2>1, ExamplesAssumption DEF Library!ThirdPartyAssumption, LibraryInv, Peers
  <2>3. /\ SubSeq(peer.inbound, 1, len) \in Seq(Nat) /\ Len(SubSeq(peer.inbound, 1, len)) = len
        /\ SubSeq(peer.inbound, len + 1, Len(peer.inbound)) \in Seq(Nat)
    BY <2>2
  <2>4. /\ library' \in Libraries /\ library'.state_ = "writing"
        /\ library'.write_buffer_ = SubSeq(peer.inbound, 1, len)
    BY <2>1, <2>3 DEF Libraries
  <2>5. /\ peer' \in Peers /\ peer'.inbound = SubSeq(peer.inbound, len + 1, Len(peer.inbound))
        /\ peer'.received = peer.received /\ peer'.outbound = peer.outbound
        /\ peer'.sent = peer.sent /\ peer'.reset = peer.reset
    BY <2>1, <2>3 DEF LibraryInv, Peers
  <2>6. Wanted(library', waits')
    BY <1>3, <2>1, LibraryAfter
  <2>7. Echoed' = Echoed
    BY <1>1, <2>2, <2>4, <2>5, EchoReads DEF Echoed, LibraryInv, Peers
  <2> QED
    BY <2>1, <2>2, <2>3, <2>4, <2>5, <2>6, <2>7 DEF LibraryInv
<1>5. CASE Library!ReadResult # "ok"
  <2>1. Library!AfterOperation(Library!ReadResult, library, c, o) /\ UNCHANGED <<library, peer>>
    BY <1>5 DEF Library!HandleRead
  <2>2. Wanted(library, waits')
    BY <1>3, <2>1, LibraryAfter
  <2> QED
    BY <2>1, <2>2 DEF LibraryInv, Echoed
<1> QED
  BY <1>4, <1>5

LEMMA LibraryWrite == ASSUME LibraryInv, Library!HandleWrite PROVE LibraryInv'
<1> DEFINE c == [conn EXCEPT !.write_in_progress_ = FALSE]
           o == [waits EXCEPT !.write = "none"]
           w == library.write_buffer_
<1>1. waits.write # "none" /\ library.state_ = "writing"
  BY DEF LibraryInv, Wanted, Library!HandleWrite
<1>2. o.read = "none" /\ o.write = "none" /\ o \in [read : WaitStates, write : WaitStates]
  BY <1>1 DEF LibraryInv, Wanted, WaitStates
<1>3. \A s : Wanted(s, o)
  BY <1>2 DEF Wanted, WaitStates
<1>4. CASE Library!WriteResult = "ok"
  <2>1. PICK len \in 1..Len(w) :
          /\ len <= Room - Len(peer.outbound)
          /\ library' = Library!Written(len)
          /\ peer' = [peer EXCEPT !.outbound = peer.outbound \o SubSeq(w, 1, len)]
          /\ Library!AfterOperation("ok", library', c, o)
    BY <1>4 DEF Library!HandleWrite
  <2>2. /\ Capacity \in Nat /\ Room \in Nat /\ w \in Seq(Nat) /\ len \in 0..Len(w)
        /\ peer.outbound \in Seq(Nat)
    BY <2>1, ExamplesAssumption DEF Library!ThirdPartyAssumption, LibraryInv, Peers, Libraries
  <2>3. /\ SubSeq(w, 1, len) \in Seq(Nat) /\ Len(SubSeq(w, 1, len)) = len
        /\ SubSeq(w, len + 1, Len(w)) \in Seq(Nat) /\ Len(SubSeq(w, len + 1, Len(w))) <= Len(w)
    BY <2>2
  <2>4. /\ library' \in Libraries /\ library'.write_buffer_ = SubSeq(w, len + 1, Len(w))
        /\ library'.state_ = "reading" => library'.write_buffer_ = <<>>
    BY <2>1, <2>3 DEF Libraries, Library!Written
  <2>5. peer.outbound \o SubSeq(w, 1, len) \in Seq(Nat)
        /\ Len(peer.outbound \o SubSeq(w, 1, len)) = Len(peer.outbound) + len
    BY <2>2, <2>3
  <2>6. /\ peer' \in Peers /\ peer'.outbound = peer.outbound \o SubSeq(w, 1, len)
        /\ peer'.received = peer.received /\ peer'.inbound = peer.inbound
        /\ peer'.sent = peer.sent /\ peer'.reset = peer.reset
    BY <2>1, <2>5 DEF LibraryInv, Peers
  <2>7. Wanted(library', waits')
    BY <1>3, <2>1, LibraryAfter
  <2>8. Echoed' = Echoed
    BY SMTT(30), <2>2, <2>4, <2>6, EchoWrites DEF Echoed, LibraryInv, Peers
  <2>9. Len(library'.write_buffer_) <= Capacity /\ Len(peer'.outbound) <= Room
    BY SMTT(30), <2>1, <2>2, <2>3, <2>4, <2>5, <2>6 DEF LibraryInv
  <2> QED
    BY <2>4, <2>6, <2>7, <2>8, <2>9 DEF LibraryInv
<1>5. CASE Library!WriteResult # "ok"
  <2>1. Library!AfterOperation(Library!WriteResult, library, c, o) /\ UNCHANGED <<library, peer>>
    BY <1>5 DEF Library!HandleWrite
  <2>2. Wanted(library, waits')
    BY <1>3, <2>1, LibraryAfter
  <2> QED
    BY <2>1, <2>2 DEF LibraryInv, Echoed
<1> QED
  BY <1>4, <1>5

LEMMA LibraryPeer ==
  ASSUME LibraryInv,
         Library!Send \/ Library!PeerReceives \/ Library!PeerCloses \/ Library!PeerResets
  PROVE  LibraryInv'
<1>1. UNCHANGED <<library, waits>> /\ Room \in Nat
  BY ExamplesAssumption DEF Library!ThirdPartyAssumption,
    Library!Send, Library!PeerReceives, Library!PeerCloses, Library!PeerResets
<1>2. /\ peer.inbound \in Seq(Nat) /\ peer.outbound \in Seq(Nat) /\ peer.received \in Seq(Nat)
      /\ peer.sent \in Nat /\ library.write_buffer_ \in Seq(Nat)
  BY DEF LibraryInv, Peers, Libraries
<1>3. CASE Library!Send
  <2>1. /\ peer' = [peer EXCEPT !.sent = peer.sent + 1,
                                !.inbound = Append(peer.inbound, peer.sent + 1)]
        /\ ~peer.reset
    BY <1>3 DEF Library!Send
  <2>2. peer.sent + 1 \in Nat /\ Append(peer.inbound, peer.sent + 1) \in Seq(Nat)
    BY <1>2
  <2>3. /\ peer' \in Peers /\ peer'.inbound = Append(peer.inbound, peer.sent + 1)
        /\ peer'.outbound = peer.outbound /\ peer'.received = peer.received
        /\ peer'.sent = peer.sent + 1
    BY <2>1, <2>2 DEF LibraryInv, Peers
  <2>4. Echoed' = Append(Echoed, peer.sent + 1)
    <3> DEFINE s == peer.received \o peer.outbound \o library.write_buffer_
    <3>1. s \in Seq(Nat)
      BY <1>2
    <3>2. Echoed = s \o peer.inbound /\ Echoed' = s \o Append(peer.inbound, peer.sent + 1)
      BY <1>1, <2>3 DEF Echoed, Echo
    <3> HIDE DEF s
    <3>3. s \o Append(peer.inbound, peer.sent + 1) = Append(s \o peer.inbound, peer.sent + 1)
      BY <1>2, <2>2, <3>1, EchoGrows
    <3> QED
      BY <3>2, <3>3
  <2>5. ASSUME NEW k \in Nat
        PROVE  Append([n \in 1..k |-> n], k + 1) = [n \in 1..(k + 1) |-> n]
    <3> DEFINE s == [n \in 1..k |-> n]
               t == [n \in 1..(k + 1) |-> n]
    <3>1. s \in Seq(Nat) /\ Len(s) = k /\ \A n \in 1..k : s[n] = n
      OBVIOUS
    <3>2. t \in Seq(Nat) /\ Len(t) = k + 1 /\ \A n \in 1..(k + 1) : t[n] = n
      OBVIOUS
    <3> HIDE DEF s, t
    <3>3. /\ Append(s, k + 1) \in Seq(Nat) /\ Len(Append(s, k + 1)) = k + 1
          /\ \A n \in 1..(k + 1) : Append(s, k + 1)[n] = n
      BY <3>1
    <3>4. Append(s, k + 1) = t
      BY <3>2, <3>3, SeqEqual
    <3> QED
      BY <3>4 DEF s, t
  <2>6. Echoed' = [n \in 1..peer'.sent |-> n]
    BY <1>2, <2>1, <2>3, <2>4, <2>5 DEF LibraryInv
  <2> QED
    BY <1>1, <2>3, <2>6 DEF LibraryInv
<1>4. CASE Library!PeerReceives
  <2>1. /\ peer' = [peer EXCEPT !.received = Append(peer.received, Head(peer.outbound)),
                                !.outbound = Tail(peer.outbound)]
        /\ peer.outbound # <<>>
    BY <1>4 DEF Library!PeerReceives
  <2>2. /\ Append(peer.received, Head(peer.outbound)) \in Seq(Nat)
        /\ Tail(peer.outbound) \in Seq(Nat) /\ Len(Tail(peer.outbound)) = Len(peer.outbound) - 1
    BY <1>2, <2>1
  <2>3. /\ peer' \in Peers /\ peer'.received = Append(peer.received, Head(peer.outbound))
        /\ peer'.outbound = Tail(peer.outbound) /\ peer'.inbound = peer.inbound
        /\ peer'.sent = peer.sent /\ peer'.reset = peer.reset
    BY <2>1, <2>2 DEF LibraryInv, Peers
  <2>4. Echoed' = Echoed
    BY <1>1, <1>2, <2>1, <2>3, EchoReceives DEF Echoed
  <2>5. Len(peer'.outbound) <= Room
    BY <1>1, <1>2, <2>2, <2>3 DEF LibraryInv
  <2> QED
    BY <1>1, <2>3, <2>4, <2>5 DEF LibraryInv
<1>5. CASE Library!PeerCloses
  BY <1>1, <1>5 DEF LibraryInv, Library!PeerCloses, Peers, Echoed
<1>6. CASE Library!PeerResets
  <2>1. peer' = [peer EXCEPT !.reset = TRUE, !.inbound = <<>>, !.outbound = <<>>]
    BY <1>6 DEF Library!PeerResets
  <2>2. peer' \in Peers /\ peer'.reset = TRUE /\ peer'.outbound = <<>>
    <3>1. <<>> \in Seq(Nat)
      OBVIOUS
    <3> QED
      BY <2>1, <3>1 DEF LibraryInv, Peers
  <2>3. Len(peer'.outbound) <= Room
    BY <1>1, <2>2
  <2> QED
    BY <1>1, <2>2, <2>3 DEF LibraryInv
<1> QED
  BY <1>3, <1>4, <1>5, <1>6

LEMMA LibraryNext == ASSUME LibraryInv, [Library!Next]_library_vars PROVE LibraryInv'
<1>1. CASE Library!Start
  <2>1. /\ Library!StartOperations(library, [conn EXCEPT !.started = TRUE], waits)
        /\ UNCHANGED <<library, peer>>
    BY <1>1 DEF Library!Start
  <2>2. Wanted(library, waits')
    BY <2>1, LibraryStarts DEF LibraryInv
  <2> QED
    BY <2>1, <2>2 DEF LibraryInv, Echoed
<1>2. ASSUME NEW which \in Library!Waits, Library!Ready(which) PROVE LibraryInv'
  <2>1. /\ waits[which] = "pending" /\ waits' = [waits EXCEPT ![which] = "ready"]
        /\ which \in {"read", "write"} /\ UNCHANGED <<library, peer>>
    BY <1>2 DEF Library!Ready, Library!Waits
  <2>2. Wanted(library, waits')
    BY <2>1 DEF LibraryInv, Wanted, WaitStates
  <2> QED
    BY <2>1, <2>2 DEF LibraryInv, Echoed
<1>3. CASE UNCHANGED library_vars
  BY <1>3 DEF library_vars, LibraryInv, Echoed
<1> QED
  BY <1>1, <1>2, <1>3, LibraryPeer, LibraryRead, LibraryWrite DEF Library!Next
------------------------------------------------------------------------------
(* The logger.  Every function that is posted and not yet run leads from   *)
(* the files after one call to those after the next.                       *)
LogCalls == [do : {"log"}, arg : Nat] \cup [do : {"use_file"}, arg : LogFiles]
Disks == [file : LogFiles \cup {Service!NoFile}, text : [LogFiles -> Seq(Nat)]]
Written == Len(due) - Len(posted)

LoggerInv ==
  /\ calls \in Nat /\ disk \in Disks /\ posted \in Seq(LogCalls) /\ due \in Seq(Disks)
  /\ Len(posted) < Len(due) /\ disk = due[Written]
  /\ \A i \in 1..Len(posted) : due[Written + i] = Service!Run(due[Written + i - 1], posted[i])
  /\ caller = "uses" => work_
  /\ thread = "ended" => posted = <<>> /\ ~work_
  /\ caller = "left" => thread = "ended"

LEMMA LoggerRuns ==
  ASSUME NEW d \in Disks, NEW fn \in LogCalls PROVE Service!Run(d, fn) \in Disks
<1>1. CASE fn.do = "log"
  <2>1. fn.arg \in Nat
    BY <1>1 DEF LogCalls
  <2>2. CASE d.file = Service!NoFile
    BY <1>1, <2>2 DEF Service!Run, Service!log_impl
  <2>3. CASE d.file # Service!NoFile
    <3>1. d.file \in LogFiles /\ d.text \in [LogFiles -> Seq(Nat)]
      BY <2>3 DEF Disks
    <3>2. Append(d.text[d.file], fn.arg) \in Seq(Nat)
      BY <2>1, <3>1
    <3> QED
      BY <1>1, <2>3, <3>1, <3>2 DEF Disks, Service!Run, Service!log_impl
  <2> QED
    BY <2>2, <2>3
<1>2. CASE fn.do # "log"
  <2>1. fn.arg \in LogFiles
    BY <1>2 DEF LogCalls
  <2>2. [d.text EXCEPT ![fn.arg] = <<>>] \in [LogFiles -> Seq(Nat)]
    BY <2>1 DEF Disks
  <2> QED
    BY <1>2, <2>1, <2>2 DEF Disks, Service!Run, Service!use_file_impl
<1> QED
  BY <1>1, <1>2

LEMMA LoggerInit == Init => LoggerInv
<1> SUFFICES ASSUME Init PROVE LoggerInv
  OBVIOUS
<1>1. /\ calls = 0 /\ posted = <<>> /\ work_ = TRUE /\ thread = "runs" /\ caller = "uses"
      /\ disk = [file |-> Service!NoFile, text |-> [f \in LogFiles |-> <<>>]] /\ due = <<disk>>
  BY DEF Init, Service!Init
<1>2. disk \in Disks
  BY <1>1 DEF Disks
<1>3. Len(posted) = 0 /\ Len(due) = 1 /\ due[1] = disk /\ Written = 1
  BY <1>1 DEF Written
<1> QED
  BY <1>1, <1>2, <1>3 DEF LoggerInv

LEMMA LoggerPost ==
  ASSUME LoggerInv, NEW fn \in LogCalls, Service!Post(fn)
  PROVE  LoggerInv'
<1> DEFINE d == Service!Run(due[Len(due)], fn)
<1>1. /\ caller = "uses" /\ calls' = calls + 1
      /\ posted' = Append(posted, fn) /\ due' = Append(due, d)
      /\ UNCHANGED <<work_, thread, caller, disk>>
  BY DEF Service!Post, Service!Last
<1>2. d \in Disks
  BY LoggerRuns DEF LoggerInv
<1> HIDE DEF d
<1>3. /\ posted' \in Seq(LogCalls) /\ Len(posted') = Len(posted) + 1
      /\ due' \in Seq(Disks) /\ Len(due') = Len(due) + 1 /\ Written' = Written
  BY <1>1, <1>2 DEF LoggerInv, Written
<1>4. Written \in Nat /\ Written > 0 /\ Written + Len(posted) = Len(due) /\ Len(posted) \in Nat
  BY DEF LoggerInv, Written
<1>5. ASSUME NEW i \in 1..Len(posted')
      PROVE  due'[Written + i] = Service!Run(due'[Written + i - 1], posted'[i])
  <2>1. CASE i \in 1..Len(posted)
    <3>1. /\ due'[Written + i] = due[Written + i] /\ due'[Written + i - 1] = due[Written + i - 1]
          /\ posted'[i] = posted[i]
      BY <1>1, <1>4, <2>1 DEF LoggerInv
    <3> QED
      BY <2>1, <3>1 DEF LoggerInv
  <2>2. CASE i = Len(posted) + 1
    <3>1. /\ Written + i = Len(due) + 1 /\ Written + i - 1 = Len(due)
      BY <1>4, <2>2
    <3>2. due'[Len(due) + 1] = d /\ due'[Len(due)] = due[Len(due)] /\ posted'[i] = fn
      BY <1>1, <1>4, <2>2 DEF LoggerInv
    <3> QED
      BY <3>1, <3>2 DEF d
  <2> QED
    BY <1>3, <1>4, <2>1, <2>2
<1>6. disk' = due'[Written']
  <2>1. Written \in 1..Len(due)
    BY <1>4
  <2>2. due'[Written] = due[Written]
    BY <1>1, <2>1 DEF LoggerInv
  <2> QED
    BY <1>1, <1>3, <2>2 DEF LoggerInv
<1>7. thread' # "ended" /\ caller' # "left" /\ (caller' = "uses" => work_')
  BY <1>1 DEF LoggerInv
<1>8. \A i \in 1..Len(posted') :
        due'[Written' + i] = Service!Run(due'[Written' + i - 1], posted'[i])
  BY <1>3, <1>5
<1>9. calls' \in Nat /\ disk' \in Disks /\ Len(posted') < Len(due')
  BY <1>1, <1>3, <1>4 DEF LoggerInv
<1> QED
  BY <1>3, <1>6, <1>7, <1>8, <1>9 DEF LoggerInv

LEMMA LoggerRunOne == ASSUME LoggerInv, Service!RunOne PROVE LoggerInv'
<1>1. /\ thread = "runs" /\ posted # <<>>
      /\ disk' = Service!Run(disk, posted[1]) /\ posted' = Tail(posted)
      /\ UNCHANGED <<calls, work_, thread, caller, due>>
  BY DEF Service!RunOne, LoggerInv
<1>2. /\ posted' \in Seq(LogCalls) /\ Len(posted') = Len(posted) - 1
      /\ \A i \in 1..Len(posted') : posted'[i] = posted[i + 1]
      /\ 1 \in 1..Len(posted) /\ posted[1] \in LogCalls
  BY <1>1 DEF LoggerInv
<1>3. Written' = Written + 1 /\ Written \in Nat /\ Len(posted) \in Nat
  BY <1>1, <1>2 DEF LoggerInv, Written
<1>4. disk' \in Disks
  BY <1>1, <1>2, LoggerRuns DEF LoggerInv
<1>5. disk' = due'[Written']
  <2>1. due[Written + 1] = Service!Run(due[Written + 1 - 1], posted[1])
    BY <1>2 DEF LoggerInv
  <2>2. Written + 1 - 1 = Written
    BY <1>3
  <2> QED
    BY <1>1, <1>3, <2>1, <2>2 DEF LoggerInv
<1>6. ASSUME NEW i \in 1..Len(posted')
      PROVE  due'[Written' + i] = Service!Run(due'[Written' + i - 1], posted'[i])
  <2>1. Len(posted') = Len(posted) - 1 /\ Len(posted) \in Nat /\ Written' = Written + 1
        /\ Written \in Nat
    BY <1>2, <1>3
  <2> HIDE DEF Written
  <2>2. i \in Nat /\ i + 1 \in 1..Len(posted) /\ Written' + i = Written + (i + 1)
        /\ Written' + i - 1 = Written + (i + 1) - 1
    BY <2>1
  <2> QED
    BY <1>1, <1>2, <2>2 DEF LoggerInv
<1> QED
  BY <1>1, <1>2, <1>3, <1>4, <1>5, <1>6 DEF LoggerInv

LEMMA LoggerNext == ASSUME LoggerInv, [Service!Next]_service_vars PROVE LoggerInv'
<1>1. CASE Service!LogMessage
  <2>1. Service!Call("log", calls) \in LogCalls
    BY DEF Service!Call, LogCalls, LoggerInv
  <2> QED
    BY <1>1, <2>1, LoggerPost DEF Service!LogMessage
<1>2. ASSUME NEW f \in LogFiles, Service!UseFile(f) PROVE LoggerInv'
  <2>1. Service!Call("use_file", f) \in LogCalls
    BY DEF Service!Call, LogCalls
  <2> QED
    BY <1>2, <2>1, LoggerPost DEF Service!UseFile
<1>3. CASE Service!RunReturns \/ Service!Destroy \/ Service!Join \/ UNCHANGED service_vars
  <2>1. UNCHANGED <<calls, posted, disk, due>>
    BY <1>3 DEF Service!RunReturns, Service!Destroy, Service!Join, service_vars
  <2>2. Written' = Written
    BY <2>1 DEF Written
  <2>3. /\ caller' = "uses" => work_'
        /\ thread' = "ended" => posted' = <<>> /\ ~work_'
        /\ caller' = "left" => thread' = "ended"
    BY <1>3, <2>1 DEF LoggerInv, Service!RunReturns, Service!Destroy, Service!Join, service_vars
  <2> QED
    BY <2>1, <2>2, <2>3 DEF LoggerInv
<1> QED
  BY <1>1, <1>2, <1>3, LoggerRunOne DEF Service!Next

(* What is echoed and what is logged keep their order: partial reads,      *)
(* partial writes and false alarms of third_party_lib.cpp neither lose nor *)
(* repeat a byte, and the thread of logger_service.hpp leaves in the files *)
(* what the calls would have written at once, all of it when the           *)
(* destructor returns.                                                     *)
THEOREM OrderIsKept == Spec => []InOrder
<1>1. LibraryInv /\ [Next]_vars => LibraryInv'
  BY LibrarySteps, LibraryNext
<1>2. LoggerInv /\ [Next]_vars => LoggerInv'
  BY LoggerSteps, LoggerNext
<1>3. LibraryInv => Library!EchoesInOrder
  BY DEF LibraryInv, Echoed, Echo, Library!EchoesInOrder
<1>4. ASSUME LoggerInv PROVE Service!AsCalled
  <2>1. caller = "left" => Written = Len(due)
    BY <1>4 DEF LoggerInv, Written
  <2> QED
    BY <1>4, <2>1 DEF LoggerInv, Written, Service!AsCalled, Service!Last
<1> QED
  BY <1>1, <1>2, <1>3, <1>4, LibraryInit, LoggerInit, PTL DEF Spec, InOrder
==============================================================================
