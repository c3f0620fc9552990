----------------------------- MODULE ChatProofs -----------------------------
(***************************************************************************)
(* The chat server, proved for every set of clients, every number of lines *)
(* and every max_recent_msgs, whichever connections break or send a bad    *)
(* header: an end has one write at a time; a client is heard line by line; *)
(* a participant misses nothing of the log; the room keeps the promise of  *)
(* ChatRoom.                                                               *)
(***************************************************************************)
EXTENDS Chat, FiniteSetTheorems, SequenceTheorems, TLAPS

Messages == [by : Clients, n : Nat]
Pieces == [part : {"header", "body", "bad"}, of : Messages \cup {Message("nobody", 0)}]

Shapes ==
  /\ conn \in [Clients -> {"new", "connected", "accepted"}]
  /\ cut \in [Clients -> BOOLEAN]
  /\ typed \in [Clients -> Nat] /\ \A c \in Clients : typed[c] <= Lines[c]
  /\ posted \in [Clients -> Seq(Messages)]
  /\ \A c \in Clients : posted[c] \in Seq([by : {c}, n : 1..Lines[c]])
  /\ queue \in [Ends -> Seq(Messages)]
  /\ writes \in [Ends -> Seq(Seq(Pieces))]
  /\ wire \in [Ends -> Seq(Pieces)]
  /\ reading \in [Ends -> {"off", "header", "body", "output"}]
  /\ \A x \in Ends : reading[x] = "output" => \E c \in Posix : x = Client(c)
  /\ participants \subseteq {c \in Clients : conn[c] = "accepted"}
  /\ recent \in Seq(Messages) /\ log \in Seq(Messages)
  /\ since \in [Clients -> Nat]
  /\ heard \in [Clients -> Seq(Messages)]

(* The recent messages are the last of the log. *)
RecentInv ==
  /\ Len(recent) = IF Len(log) > MaxRecent THEN MaxRecent ELSE Len(log)
  /\ \A i \in 1..Len(recent) : recent[i] = log[Len(log) - Len(recent) + i]

(* Nothing happens on the server's side before the connection is accepted. *)
Untouched(c) ==
  conn[c] # "accepted" =>
    /\ heard[c] = <<>> /\ since[c] = 0 /\ reading[Session(c)] = "off"
    /\ queue[Session(c)] = <<>> /\ writes[Session(c)] = <<>> /\ wire[Session(c)] = <<>>
    /\ reading[Client(c)] # "body"

(* An end has one write at a time, of the first message of its queue. *)
HeaderSent(x) == writes[x] # <<>> /\ writes[x][1] = <<Body(queue[x][1])>>
Writer(x) ==
  \/ writes[x] = <<>>
  \/ /\ queue[x] # <<>>
     /\ \/ writes[x] = <<Buffer(queue[x][1])>>
        \/ writes[x] = <<<<Body(queue[x][1])>>>>
        \/ writes[x] = <<<<>>>>

(* A chat_client posts its lines; it has sent nothing before it connects. *)
Quiet(c) ==
  /\ c \in Posix => posted[c] = <<>>
  /\ conn[c] = "new" => wire[Client(c)] = <<>> /\ reading[Client(c)] = "off"

(* From the client to the session, as long as the session reads: after the *)
(* pieces it has consumed come, up to a bad one, header and body of the    *)
(* next lines in turn.  While the client may send, the s lines it has sent *)
(* are followed by those in its queue and those posted, up to the last one *)
(* typed.                                                                  *)
Listened(c) == reading[Session(c)] # "off" \/ conn[c] # "accepted"
Sending(c) ==
  /\ Open(c) \/ (conn[c] = "new" /\ ~cut[c])
  /\ Bad \notin Range(wire[Client(c)])
Consumed(c) == 2 * Room!SaidBy(c) + (IF reading[Session(c)] = "body" THEN 1 ELSE 0)
GoodBefore(pieces, i) == \A j \in 1..(i - 1) : pieces[j] # Bad
UpWire(c) ==
  \A i \in 1..Len(wire[Client(c)]) : \A n \in Nat :
     GoodBefore(wire[Client(c)], i) =>
       /\ Consumed(c) + i = 2 * n + 1 =>
            wire[Client(c)][i] \in {Header(Message(c, n + 1)), Bad}
       /\ Consumed(c) + i = 2 * n + 2 => wire[Client(c)][i] = Body(Message(c, n + 1))
Numbered(ms, c, s) == \A k \in 1..Len(ms) : ms[k] = Message(c, s + k)
UpQueue(c, s) ==
  /\ Consumed(c) + Len(wire[Client(c)]) = 2 * s + (IF HeaderSent(Client(c)) THEN 1 ELSE 0)
  /\ Numbered(Unsent(Client(c)), c, s)
  /\ Numbered(posted[c], c, s + Len(Unsent(Client(c))))
  /\ typed[c] = s + Len(Unsent(Client(c))) + Len(posted[c])
Up(c) == Listened(c) => UpWire(c) /\ (Sending(c) => \E s \in Nat : UpQueue(c, s))

(* From the session to the client: the client has read r pieces and will   *)
(* find on the wire header and body of the next messages of the log in     *)
(* turn; the s messages sent are followed by those in the queue.  A        *)
(* session whose write failed has stalled, perhaps after a header.         *)
Stalled(x) == writes[x] = <<>> /\ queue[x] # <<>>
DownRead(c, r) ==
  /\ r \in {2 * Len(heard[c]), 2 * Len(heard[c]) + 1}
  /\ reading[Client(c)] = "body" => r = 2 * Len(heard[c]) + 1
  /\ reading[Client(c)] \in {"header", "output"} => r = 2 * Len(heard[c])
DownSent(c, r, s) ==
  \/ r + Len(wire[Session(c)]) = 2 * s + (IF HeaderSent(Session(c)) THEN 1 ELSE 0)
  \/ Stalled(Session(c)) /\ r + Len(wire[Session(c)]) = 2 * s + 1
DownWire(c, r) ==
  \A i \in 1..Len(wire[Session(c)]) : \A n \in Nat :
     /\ r + i = 2 * n + 1 => wire[Session(c)][i] = Header(log[since[c] + n])
     /\ r + i = 2 * n + 2 => wire[Session(c)][i] = Body(log[since[c] + n])
DownHeard(c) == \A k \in 1..Len(heard[c]) : heard[c][k] = log[since[c] + k - 1]
DownQueue(c, s) ==
  /\ \A k \in 1..Len(Unsent(Session(c))) : Unsent(Session(c))[k] = log[since[c] + s + k - 1]
  /\ since[c] + s + Len(Unsent(Session(c))) <= Len(log) + 1
  /\ c \in participants =>
       since[c] + s + Len(Unsent(Session(c))) = Len(log) + 1 /\ ~Stalled(Session(c))
Down(c) ==
  conn[c] = "accepted" =>
    /\ since[c] >= 1 /\ DownHeard(c)
    /\ \E r, s \in Nat : DownRead(c, r) /\ DownSent(c, r, s) /\ DownWire(c, r) /\ DownQueue(c, s)

ChatInv ==
  /\ Shapes /\ RecentInv
  /\ \A x \in Ends : Writer(x)
  /\ \A c \in Clients : Untouched(c) /\ Quiet(c) /\ Up(c) /\ Down(c)
------------------------------------------------------------------------------
(* The two ends of a connection are different and name it. *)
LEMMA EndFacts ==
  /\ \A c \in Clients :
       /\ Client(c) \in Ends /\ Session(c) \in Ends
       /\ Peer(Client(c)) = Session(c) /\ Peer(Session(c)) = Client(c)
       /\ Client(c)[1] = c /\ Session(c)[1] = c
       /\ Client(c)[2] = "client" /\ Session(c)[2] = "session"
  /\ \A c, d \in Clients :
       /\ Client(c) # Session(d)
       /\ Client(c) = Client(d) <=> c = d
       /\ Session(c) = Session(d) <=> c = d
  /\ \A x \in Ends : x[1] \in Clients /\ (x = Client(x[1]) \/ x = Session(x[1]))
BY DEF Client, Session, Ends, Peer

(* The pieces of a message are told apart, and from a bad header. *)
LEMMA PieceFacts ==
  ASSUME NEW m \in Messages
  PROVE  /\ Header(m) \in Pieces /\ Body(m) \in Pieces /\ Bad \in Pieces
         /\ Buffer(m) \in Seq(Pieces) /\ <<Body(m)>> \in Seq(Pieces)
         /\ Header(m) # Bad /\ Body(m) # Bad /\ \A k : Header(m) # Body(k)
         /\ Decodes(Header(m)) /\ ~Decodes(Body(m)) /\ ~Decodes(Bad)
         /\ IsBody(Body(m)) /\ ~IsBody(Header(m))
         /\ Header(m).of = m /\ Body(m).of = m
         /\ Len(Buffer(m)) = 2 /\ Head(Buffer(m)) = Header(m)
         /\ Tail(Buffer(m)) = <<Body(m)>>
         /\ Len(<<Body(m)>>) = 1 /\ Head(<<Body(m)>>) = Body(m) /\ Tail(<<Body(m)>>) = <<>>
         /\ Buffer(m) # <<>> /\ <<Body(m)>> # <<>> /\ Buffer(m) # <<Body(m)>>
<1>1. /\ Header(m) \in Pieces /\ Body(m) \in Pieces /\ Bad \in Pieces
      /\ Header(m) # Bad /\ Body(m) # Bad /\ \A k : Header(m) # Body(k)
      /\ Decodes(Header(m)) /\ ~Decodes(Body(m)) /\ ~Decodes(Bad)
      /\ IsBody(Body(m)) /\ ~IsBody(Header(m))
      /\ Header(m).of = m /\ Body(m).of = m
  <2>1. Header(m).part = "header" /\ Body(m).part = "body" /\ Bad.part = "bad"
        /\ \A k : Body(k).part = "body"
    BY DEF Header, Body, Bad
  <2>2. Header(m) \in Pieces /\ Body(m) \in Pieces /\ Bad \in Pieces
        /\ Header(m).of = m /\ Body(m).of = m
    BY DEF Header, Body, Bad, Pieces
  <2> QED
    BY <2>1, <2>2 DEF Decodes, IsBody
<1> DEFINE h == Header(m)
           b == Body(m)
<1> HIDE DEF h, b
<1>2. h \in Pieces /\ b \in Pieces
  BY <1>1 DEF h, b
<1>3. /\ <<h, b>> \in Seq(Pieces) /\ <<b>> \in Seq(Pieces)
      /\ Len(<<h, b>>) = 2 /\ Head(<<h, b>>) = h
      /\ Len(<<b>>) = 1 /\ Head(<<b>>) = b
  BY <1>2
<1>4. /\ Tail(<<h, b>>) = <<b>> /\ Tail(<<b>>) = <<>>
  BY <1>2
<1>5. <<h, b>> # <<>> /\ <<b>> # <<>> /\ <<h, b>> # <<b>>
  BY <1>3
<1> QED
  BY <1>1, <1>3, <1>4, <1>5 DEF Buffer, h, b
------------------------------------------------------------------------------
(* What the steps do to an end that writes. *)
LEMMA WriterFacts ==
  ASSUME Shapes, NEW x \in Ends, Writer(x)
  PROVE  /\ queue[x] \in Seq(Messages) /\ writes[x] \in Seq(Seq(Pieces))
         /\ Unsent(x) \in Seq(Messages) /\ Len(writes[x]) <= 1
         /\ writes[x] # <<>> => queue[x] # <<>> /\ queue[x][1] \in Messages
         /\ writes[x] = <<Buffer(queue[x][1])>> =>
              ~HeaderSent(x) /\ Unsent(x) = queue[x]
         /\ writes[x] = <<<<Body(queue[x][1])>>>> => HeaderSent(x) /\ Unsent(x) = queue[x]
         /\ writes[x] = <<<<>>>> => ~HeaderSent(x) /\ Unsent(x) = Tail(queue[x])
         /\ writes[x] = <<>> => ~HeaderSent(x) /\ Unsent(x) = queue[x]
         /\ HeaderSent(x) => writes[x] = <<<<Body(queue[x][1])>>>> /\ Unsent(x) # <<>>
<1> DEFINE q == queue[x]
           w == writes[x]
<1>1. q \in Seq(Messages) /\ w \in Seq(Seq(Pieces))
  BY DEF Shapes
<1>2. q # <<>> => q[1] \in Messages
  BY <1>1
<1>3. Len(w) <= 1 /\ (w # <<>> => q # <<>>)
  <2>1. \A e : Len(<<e>>) = 1 /\ <<e>> # <<>>
    OBVIOUS
  <2>2. Len(<<>>) = 0
    OBVIOUS
  <2>3. w = <<>> \/ \E e : w = <<e>> /\ q # <<>>
    BY DEF Writer
  <2>4. CASE w = <<>>
    BY <2>2, <2>4
  <2>5. CASE \E e : w = <<e>> /\ q # <<>>
    BY <2>1, <2>5
  <2> QED
    BY <2>3, <2>4, <2>5
<1>4. Unsent(x) \in Seq(Messages)
  <2>1. CASE w = <<<<>>>>
    <3>1. q # <<>>
      BY <1>3, <2>1
    <3>2. Tail(q) \in Seq(Messages)
      BY <1>1, <3>1
    <3> QED
      BY <2>1, <3>2 DEF Unsent
  <2>2. CASE w # <<<<>>>>
    BY <1>1, <2>2 DEF Unsent
  <2> QED
    BY <2>1, <2>2
<1>5. w = <<Buffer(q[1])>> => ~HeaderSent(x) /\ Unsent(x) = q
  <2> SUFFICES ASSUME w = <<Buffer(q[1])>> PROVE ~HeaderSent(x) /\ Unsent(x) = q
    OBVIOUS
  <2>1. w[1] = Buffer(q[1]) /\ w # <<>>
    OBVIOUS
  <2>2. q[1] \in Messages
    BY <1>2, <1>3, <2>1
  <2>3. Buffer(q[1]) # <<>> /\ Buffer(q[1]) # <<Body(q[1])>>
    BY <2>2, PieceFacts
  <2> QED
    BY <2>1, <2>3 DEF HeaderSent, Unsent
<1>6. w = <<<<Body(q[1])>>>> => HeaderSent(x) /\ Unsent(x) = q
  <2> SUFFICES ASSUME w = <<<<Body(q[1])>>>> PROVE HeaderSent(x) /\ Unsent(x) = q
    OBVIOUS
  <2>1. w[1] = <<Body(q[1])>> /\ w # <<>> /\ <<Body(q[1])>> # <<>>
    OBVIOUS
  <2> QED
    BY <2>1 DEF HeaderSent, Unsent
<1>7. w = <<<<>>>> => ~HeaderSent(x) /\ Unsent(x) = Tail(q)
  <2> SUFFICES ASSUME w = <<<<>>>> PROVE ~HeaderSent(x) /\ Unsent(x) = Tail(q)
    OBVIOUS
  <2>1. w[1] = <<>> /\ <<Body(q[1])>> # <<>>
    OBVIOUS
  <2> QED
    BY <2>1 DEF HeaderSent, Unsent
<1>8. w = <<>> => ~HeaderSent(x) /\ Unsent(x) = q
  BY DEF HeaderSent, Unsent
<1>9. HeaderSent(x) => w = <<<<Body(q[1])>>>> /\ Unsent(x) # <<>>
  BY <1>3, <1>5, <1>6, <1>7, <1>8 DEF Writer
<1> QED
  BY <1>1, <1>2, <1>3, <1>4, <1>5, <1>6, <1>7, <1>8, <1>9

LEMMA TailOfConcat ==
  ASSUME NEW S, NEW s \in Seq(S), NEW t \in Seq(S), s # <<>>
  PROVE  Tail(s \o t) = Tail(s) \o t
<1> DEFINE u == Tail(s \o t)
           v == Tail(s) \o t
<1>1. s \o t \in Seq(S) /\ Len(s \o t) = Len(s) + Len(t) /\ Len(s) > 0 /\ Len(s) \in Nat
  OBVIOUS
<1>2. u \in Seq(S) /\ Len(u) = Len(s) + Len(t) - 1
  BY <1>1
<1>3. v \in Seq(S) /\ Len(v) = Len(s) + Len(t) - 1
  BY <1>1
<1>4. ASSUME NEW i \in 1..Len(u) PROVE u[i] = v[i]
  BY <1>1, <1>2
<1> QED
  BY <1>2, <1>3, <1>4, SeqEqual

(* Messages enter the queue of an end behind those it has to send. *)
LEMMA WriterQueues ==
  ASSUME Shapes, NEW x \in Ends, Writer(x), NEW ms \in Seq(Messages),
         queue'[x] = queue[x] \o ms,
         writes'[x] = IF queue[x] = <<>> /\ ms # <<>>
                      THEN Append(writes[x], Buffer(ms[1])) ELSE writes[x]
  PROVE  /\ Writer(x)' /\ (HeaderSent(x)' <=> HeaderSent(x))
         /\ Unsent(x)' = Unsent(x) \o ms /\ (Stalled(x)' => Stalled(x))
         /\ queue'[x] \in Seq(Messages) /\ writes'[x] \in Seq(Seq(Pieces))
<1> DEFINE q == queue[x]
           w == writes[x]
<1>1. q \in Seq(Messages) /\ w \in Seq(Seq(Pieces)) /\ q \o ms \in Seq(Messages)
  BY WriterFacts
<1>2. CASE ms = <<>>
  <2>1. queue'[x] = q /\ writes'[x] = w
    BY <1>1, <1>2
  <2>2. Unsent(x) \o ms = Unsent(x)
    BY <1>2, WriterFacts
  <2> QED
    BY <1>1, <2>1, <2>2 DEF Writer, HeaderSent, Unsent, Stalled
<1>3. CASE ms # <<>> /\ q = <<>>
  <2>1. w = <<>> /\ queue'[x] = ms /\ ms[1] \in Messages
    BY <1>1, <1>3, WriterFacts
  <2>2. writes'[x] = <<Buffer(ms[1])>>
    BY <1>3, <2>1
  <2>3. writes'[x] \in Seq(Seq(Pieces)) /\ writes'[x] # <<>> /\ writes'[x][1] = Buffer(ms[1])
    <3> DEFINE b == Buffer(ms[1])
    <3>1. b \in Seq(Pieces)
      BY <2>1, PieceFacts
    <3> HIDE DEF b
    <3>2. <<b>> \in Seq(Seq(Pieces)) /\ <<b>> # <<>> /\ <<b>>[1] = b
      BY <3>1
    <3> QED
      BY <2>2, <3>2 DEF b
  <2>4. Buffer(ms[1]) # <<>> /\ Buffer(ms[1]) # <<Body(ms[1])>>
    BY <2>1, PieceFacts
  <2>5. Writer(x)' /\ ~HeaderSent(x)' /\ Unsent(x)' = ms /\ ~Stalled(x)'
    BY <1>3, <2>1, <2>2, <2>3, <2>4 DEF Writer, HeaderSent, Unsent, Stalled
  <2>6. ~HeaderSent(x) /\ Unsent(x) = <<>> /\ <<>> \o ms = ms
    BY <1>3, <2>1 DEF HeaderSent, Unsent
  <2> QED
    BY <1>1, <2>3, <2>5, <2>6
<1>4. CASE ms # <<>> /\ q # <<>>
  <2>1. writes'[x] = w /\ queue'[x] # <<>> /\ queue'[x][1] = q[1]
    BY <1>1, <1>4
  <2>2. Writer(x)' /\ (HeaderSent(x)' <=> HeaderSent(x))
    BY <1>4, <2>1 DEF Writer, HeaderSent
  <2>3. Tail(q \o ms) = Tail(q) \o ms
    BY <1>1, <1>4, TailOfConcat
  <2>4. Unsent(x)' = Unsent(x) \o ms
    BY <2>1, <2>3 DEF Unsent
  <2>5. Stalled(x)' => Stalled(x)
    BY <1>4, <2>1 DEF Stalled
  <2> QED
    BY <1>1, <2>1, <2>2, <2>4, <2>5
<1> QED
  BY <1>2, <1>3, <1>4

(* The next piece is the header of the first message, or its body. *)
LEMMA WriterTransfers ==
  ASSUME Shapes, NEW x \in Ends, Writer(x), Transfer(x)
  PROVE  /\ Unsent(x) # <<>> /\ Writer(x)' /\ ~Stalled(x) /\ ~Stalled(x)'
         /\ writes' \in [Ends -> Seq(Seq(Pieces))] /\ wire' \in [Ends -> Seq(Pieces)]
         /\ \A y \in Ends : y # x => writes'[y] = writes[y] /\ wire'[y] = wire[y]
         /\ \/ /\ ~HeaderSent(x) /\ HeaderSent(x)' /\ Unsent(x)' = Unsent(x)
               /\ wire'[x] = Append(wire[x], Header(Unsent(x)[1]))
            \/ /\ HeaderSent(x) /\ ~HeaderSent(x)' /\ Unsent(x)' = Tail(Unsent(x))
               /\ wire'[x] = Append(wire[x], Body(Unsent(x)[1]))
<1> DEFINE q == queue[x]
           w == writes[x]
           rest == [w EXCEPT ![1] = Tail(w[1])]
<1>1. /\ w \in Seq(Seq(Pieces)) /\ Len(w) <= 1 /\ queue' = queue
      /\ writes \in [Ends -> Seq(Seq(Pieces))] /\ wire \in [Ends -> Seq(Pieces)]
  BY WriterFacts DEF Shapes, Transfer
<1>2. /\ w # <<>> /\ w[1] # <<>>
      /\ wire' = [wire EXCEPT ![x] = Append(@, Head(w[1]))]
      /\ writes' = [writes EXCEPT ![x] = rest]
  <2>1. PICK i \in DOMAIN w :
          /\ w[i] # <<>>
          /\ wire' = [wire EXCEPT ![x] = Append(@, Head(w[i]))]
          /\ writes' = [writes EXCEPT ![x] = [w EXCEPT ![i] = Tail(w[i])]]
    BY DEF Transfer
  <2>2. i = 1 /\ w # <<>>
    BY <1>1, <2>1
  <2> QED
    BY <2>1, <2>2
<1>3. q # <<>> /\ q[1] \in Messages /\ q \in Seq(Messages)
  BY <1>2, WriterFacts
<1>4. /\ writes'[x] = rest /\ wire'[x] = Append(wire[x], Head(w[1]))
      /\ \A y \in Ends : y # x => writes'[y] = writes[y] /\ wire'[y] = wire[y]
  <2> HIDE DEF rest
  <2> QED
    BY <1>1, <1>2
<1>5. w[1] \in Seq(Pieces) /\ Head(w[1]) \in Pieces /\ Tail(w[1]) \in Seq(Pieces)
  BY <1>1, <1>2
<1>6. writes' \in [Ends -> Seq(Seq(Pieces))] /\ wire' \in [Ends -> Seq(Pieces)]
  <2>1. rest \in Seq(Seq(Pieces))
    BY <1>1, <1>2, <1>5
  <2>2. Append(wire[x], Head(w[1])) \in Seq(Pieces)
    BY <1>1, <1>5
  <2> HIDE DEF rest
  <2> QED
    BY <1>1, <1>2, <2>1, <2>2
<1>7. \A e : \A f : [<<e>> EXCEPT ![1] = f] = <<f>>
  OBVIOUS
<1>8. CASE w = <<Buffer(q[1])>>
  <2>1. w[1] = Buffer(q[1])
    BY <1>8
  <2>2. Head(w[1]) = Header(q[1]) /\ Tail(w[1]) = <<Body(q[1])>>
    BY <1>3, <2>1, PieceFacts
  <2>3. writes'[x] = <<<<Body(q[1])>>>>
    BY <1>4, <1>7, <1>8, <2>2
  <2>4. ~HeaderSent(x) /\ Unsent(x) = q
    BY <1>8, WriterFacts
  <2>5. /\ writes'[x] # <<>> /\ writes'[x][1] = <<Body(q[1])>> /\ writes'[x] # <<<<>>>>
    BY <2>3
  <2>6. HeaderSent(x)' /\ Unsent(x)' = q /\ Writer(x)' /\ ~Stalled(x)'
    BY <1>1, <1>3, <2>3, <2>5 DEF HeaderSent, Unsent, Writer, Stalled
  <2> QED
    BY <1>2, <1>3, <1>4, <1>6, <2>2, <2>4, <2>6 DEF Stalled
<1>9. CASE w = <<<<Body(q[1])>>>>
  <2>1. w[1] = <<Body(q[1])>>
    BY <1>9
  <2>2. Head(w[1]) = Body(q[1]) /\ Tail(w[1]) = <<>>
    BY <1>3, <2>1, PieceFacts
  <2>3. writes'[x] = <<<<>>>>
    BY <1>4, <1>7, <1>9, <2>2
  <2>4. HeaderSent(x) /\ Unsent(x) = q
    BY <1>9, WriterFacts
  <2>5. /\ writes'[x] # <<>> /\ writes'[x][1] = <<>> /\ <<Body(q[1])>> # <<>>
    BY <2>3
  <2>6. ~HeaderSent(x)' /\ Unsent(x)' = Tail(q) /\ Writer(x)' /\ ~Stalled(x)'
    BY <1>1, <1>3, <2>3, <2>5 DEF HeaderSent, Unsent, Writer, Stalled
  <2> QED
    BY <1>2, <1>3, <1>4, <1>6, <2>2, <2>4, <2>6 DEF Stalled
<1>10. w # <<<<>>>>
  BY <1>2
<1> QED
  BY <1>2, <1>8, <1>9, <1>10 DEF Writer

(* handle_write goes on with the next message. *)
LEMMA WriterHandles ==
  ASSUME Shapes, NEW x \in Ends, Writer(x), HandleWrite(x)
  PROVE  /\ Writer(x)' /\ ~HeaderSent(x) /\ ~HeaderSent(x)' /\ Unsent(x)' = Unsent(x)
         /\ ~Stalled(x) /\ ~Stalled(x)'
         /\ queue' \in [Ends -> Seq(Messages)] /\ writes' \in [Ends -> Seq(Seq(Pieces))]
         /\ \A y \in Ends : y # x => writes'[y] = writes[y] /\ queue'[y] = queue[y]
<1> DEFINE q == queue[x]
           w == writes[x]
<1>1. /\ w \in Seq(Seq(Pieces)) /\ Len(w) <= 1
      /\ writes \in [Ends -> Seq(Seq(Pieces))] /\ queue \in [Ends -> Seq(Messages)]
  BY WriterFacts DEF Shapes
<1>2. /\ w # <<>> /\ w[1] = <<>> /\ queue' = [queue EXCEPT ![x] = Tail(@)]
      /\ writes' = [writes EXCEPT ![x] = IF Len(q) > 1 THEN Append(RemoveAt(w, 1), Buffer(q[2]))
                                         ELSE RemoveAt(w, 1)]
  <2>1. PICK i \in DOMAIN w :
          /\ w[i] = <<>> /\ queue' = [queue EXCEPT ![x] = Tail(@)]
          /\ writes' = [writes EXCEPT ![x] = IF Len(q) > 1
                          THEN Append(RemoveAt(w, i), Buffer(q[2])) ELSE RemoveAt(w, i)]
    BY DEF HandleWrite
  <2>2. i = 1 /\ w # <<>>
    BY <1>1, <2>1
  <2> QED
    BY <2>1, <2>2
<1>3. q # <<>> /\ q[1] \in Messages /\ q \in Seq(Messages)
  BY <1>2, WriterFacts
<1>4. w = <<<<>>>>
  <2>1. Buffer(q[1]) # <<>> /\ <<Body(q[1])>> # <<>>
    BY <1>3, PieceFacts
  <2>2. \A e : <<e>>[1] = e
    OBVIOUS
  <2> QED
    BY <1>2, <2>1, <2>2 DEF Writer
<1>5. RemoveAt(w, 1) = <<>>
  <2>1. Len(w) = 1
    BY <1>4
  <2>2. SubSeq(w, 1, 0) = <<>> /\ SubSeq(w, 2, 1) = <<>>
    BY <1>1, <2>1, SubSeqEmpty
  <2> QED
    BY <2>1, <2>2 DEF RemoveAt
<1>6. ~HeaderSent(x) /\ Unsent(x) = Tail(q) /\ ~Stalled(x)
  BY <1>2, <1>4, WriterFacts DEF Stalled
<1>7. queue'[x] = Tail(q) /\ Tail(q) \in Seq(Messages) /\ Len(Tail(q)) = Len(q) - 1
  BY <1>1, <1>2, <1>3
<1>8. CASE Len(q) > 1
  <2>1. q[2] = Tail(q)[1] /\ q[2] \in Messages /\ Tail(q) # <<>>
    <3>1. Len(q) \in Nat /\ 2 \in 1..Len(q) /\ 1 \in 1..Len(Tail(q))
      BY <1>3, <1>7, <1>8
    <3>2. q[2] \in Messages
      BY <1>3, <3>1, ElementOfSeq
    <3>4. Tail(q) # <<>>
      <4> DEFINE t == Tail(q)
      <4>1. Len(t) >= 1
        BY <3>1, <1>7, <1>8
      <4> HIDE DEF t
      <4>2. t # <<>>
        BY <4>1
      <4> QED
        BY <4>2 DEF t
    <3>3. Tail(q)[1] = q[2]
      BY <1>3, <3>1, HeadTailProperties
    <3> QED
      BY <3>2, <3>3, <3>4
  <2> DEFINE b == Buffer(q[2])
  <2>2. b \in Seq(Pieces) /\ b # <<>> /\ b # <<Body(q[2])>>
    BY <2>1, PieceFacts
  <2>3. writes'[x] = Append(<<>>, b)
    BY <1>1, <1>2, <1>5, <1>8
  <2> HIDE DEF b
  <2>4. writes'[x] = <<b>> /\ <<b>> \in Seq(Seq(Pieces)) /\ <<b>> # <<>> /\ <<b>>[1] = b
    BY <2>2, <2>3
  <2>5. writes' \in [Ends -> Seq(Seq(Pieces))] /\ queue' \in [Ends -> Seq(Messages)]
    BY <1>1, <1>2, <1>7, <2>4
  <2>6. Writer(x)'
    BY <1>7, <2>1, <2>4 DEF Writer, b
  <2>7. ~HeaderSent(x)' /\ Unsent(x)' = Tail(q) /\ ~Stalled(x)'
    BY <1>7, <2>1, <2>2, <2>4 DEF HeaderSent, Unsent, Stalled
  <2> QED
    BY <1>1, <1>2, <1>6, <2>5, <2>6, <2>7
<1>9. CASE ~(Len(q) > 1)
  <2>1. writes'[x] = <<>> /\ Tail(q) = <<>>
    BY <1>1, <1>2, <1>3, <1>5, <1>7, <1>9
  <2>2. <<>> \in Seq(Seq(Pieces))
    OBVIOUS
  <2>3. writes' \in [Ends -> Seq(Seq(Pieces))] /\ queue' \in [Ends -> Seq(Messages)]
    BY <1>1, <1>2, <1>7, <1>9, <1>5, <2>2
  <2>4. Writer(x)' /\ ~HeaderSent(x)' /\ Unsent(x)' = Tail(q) /\ ~Stalled(x)'
    BY <1>7, <2>1 DEF Writer, HeaderSent, Unsent, Stalled
  <2> QED
    BY <1>1, <1>2, <1>6, <2>3, <2>4
<1> QED
  BY <1>8, <1>9

(* A client that closes keeps at most the handler of a write that is done. *)
LEMMA WriterCloses ==
  ASSUME Shapes, NEW c \in Clients, Writer(Client(c)), Close(c), queue' = queue
  PROVE  /\ Writer(Client(c))' /\ writes' \in [Ends -> Seq(Seq(Pieces))]
         /\ \A y \in Ends : y # Client(c) => writes'[y] = writes[y]
<1> DEFINE x == Client(c)
           w == writes[x]
           kept == IF \E v \in Range(w) : Done(v) THEN <<<<>>>> ELSE <<>>
<1>1. x \in Ends /\ writes \in [Ends -> Seq(Seq(Pieces))] /\ w \in Seq(Seq(Pieces))
  BY EndFacts DEF Shapes
<1>2. writes' = [writes EXCEPT ![x] = kept]
  BY DEF Close
<1>3. kept \in Seq(Seq(Pieces)) /\ (kept = <<>> \/ (kept = <<<<>>>> /\ w # <<>>))
  <2>1. <<>> \in Seq(Pieces)
    OBVIOUS
  <2>2. <<<<>>>> \in Seq(Seq(Pieces)) /\ <<>> \in Seq(Seq(Pieces))
    BY <2>1
  <2>3. w = <<>> => ~\E v \in Range(w) : Done(v)
    BY DEF Range
  <2> QED
    BY <2>2, <2>3
<1> HIDE DEF kept
<1>4. writes'[x] = kept /\ queue'[x] = queue[x]
  BY <1>1, <1>2
<1>5. w # <<>> => queue[x] # <<>>
  BY <1>1, WriterFacts
<1>6. Writer(x)'
  BY <1>3, <1>4, <1>5 DEF Writer
<1> QED
  BY <1>1, <1>2, <1>3, <1>6

LEMMA WriterSame ==
  ASSUME NEW x \in Ends, queue'[x] = queue[x], writes'[x] = writes[x]
  PROVE  /\ Writer(x)' <=> Writer(x)
         /\ HeaderSent(x)' <=> HeaderSent(x)
         /\ Unsent(x)' = Unsent(x)
         /\ Stalled(x)' <=> Stalled(x)
BY DEF Writer, HeaderSent, Unsent, Stalled

(* A write that fails is not tried again, and the queue stays. *)
LEMMA WriterFails ==
  ASSUME Shapes, NEW x \in Ends, Writer(x), \E i \in DOMAIN writes[x] : ~Done(writes[x][i]),
         queue'[x] = queue[x], writes'[x] = <<>>
  PROVE  /\ Writer(x)' /\ Unsent(x)' = Unsent(x) /\ Unsent(x) # <<>>
         /\ Stalled(x)' /\ ~Stalled(x) /\ ~HeaderSent(x)'
<1>1. writes[x] # <<>> /\ writes[x] # <<<<>>>>
  BY DEF Done
<1>2. queue[x] # <<>> /\ Unsent(x) = queue[x]
  BY <1>1, WriterFacts DEF Writer
<1> QED
  BY <1>1, <1>2 DEF Writer, Unsent, Stalled, HeaderSent
------------------------------------------------------------------------------
(* The steps that do not disturb a stream. *)
LEMMA SaidIsNat == ASSUME Shapes PROVE \A c : Room!SaidBy(c) \in Nat
<1> TAKE c
<1>1. IsFiniteSet(1..Len(log)) /\ DOMAIN log = 1..Len(log)
  BY FS_Interval DEF Shapes
<1>2. {i \in DOMAIN log : log[i].by = c} \subseteq 1..Len(log)
  BY <1>1
<1>3. IsFiniteSet({i \in DOMAIN log : log[i].by = c})
  BY <1>1, <1>2, FS_Subset
<1> DEFINE said == {i \in DOMAIN log : log[i].by = c}
<1>4. Room!SaidBy(c) = Cardinality(said)
  BY Zenon DEF Room!SaidBy, Room!Cardinality, Cardinality
<1> HIDE DEF said
<1>5. Cardinality(said) \in Nat
  BY <1>3, FS_CardinalityType DEF said
<1> QED
  BY <1>4, <1>5

LEMMA SaidSame == ASSUME log' = log PROVE \A c : Room!SaidBy(c)' = Room!SaidBy(c)
BY DEF Room!SaidBy

(* A stream from a client that a step leaves alone, or whose reader or writer it stops. *)
LEMMA UpSame ==
  ASSUME NEW c \in Clients, Up(c), wire'[Client(c)] = wire[Client(c)],
         Listened(c)' => Listened(c) /\ Consumed(c)' = Consumed(c),
         Sending(c)' => /\ Sending(c) /\ posted'[c] = posted[c] /\ typed'[c] = typed[c]
                        /\ HeaderSent(Client(c))' <=> HeaderSent(Client(c))
                        /\ Unsent(Client(c))' = Unsent(Client(c))
  PROVE  Up(c)'
<1> SUFFICES ASSUME Listened(c)' PROVE UpWire(c)' /\ (Sending(c)' => (\E s \in Nat : UpQueue(c, s))')
  BY DEF Up
<1>1. UpWire(c) /\ (Sending(c) => \E s \in Nat : UpQueue(c, s))
  BY DEF Up
<1>2. UpWire(c)'
  BY <1>1 DEF UpWire
<1>3. ASSUME Sending(c)' PROVE (\E s \in Nat : UpQueue(c, s))'
  <2>1. PICK s \in Nat : UpQueue(c, s)
    BY <1>1, <1>3
  <2>2. UpQueue(c, s)'
    BY <1>3, <2>1 DEF UpQueue
  <2> QED
    BY <2>2
<1> QED
  BY <1>2, <1>3

(* The same for a stream to a client. *)
LEMMA DownSame ==
  ASSUME NEW c \in Clients, Down(c), conn'[c] = "accepted" => conn[c] = "accepted",
         log' = log, heard'[c] = heard[c], since'[c] = since[c],
         wire'[Session(c)] = wire[Session(c)],
         HeaderSent(Session(c))' <=> HeaderSent(Session(c)),
         Unsent(Session(c))' = Unsent(Session(c)),
         Stalled(Session(c))' <=> Stalled(Session(c)),
         \/ reading'[Client(c)] \in {reading[Client(c)], "off"}
         \/ reading[Client(c)] = "output" /\ reading'[Client(c)] = "header",
         c \in participants' => c \in participants
  PROVE  Down(c)'
<1> SUFFICES ASSUME conn'[c] = "accepted"
             PROVE  /\ (since[c] >= 1)' /\ DownHeard(c)'
                    /\ (\E r, s \in Nat : /\ DownRead(c, r) /\ DownSent(c, r, s)
                                          /\ DownWire(c, r) /\ DownQueue(c, s))'
  BY DEF Down
<1>1. since[c] >= 1 /\ DownHeard(c)
  BY DEF Down
<1>2. PICK r \in Nat, s \in Nat : /\ DownRead(c, r) /\ DownSent(c, r, s)
                                  /\ DownWire(c, r) /\ DownQueue(c, s)
  BY DEF Down
<1>3. DownHeard(c)' /\ (since[c] >= 1)'
  BY <1>1 DEF DownHeard
<1>4. DownRead(c, r)'
  BY <1>2 DEF DownRead
<1>5. DownSent(c, r, s)'
  BY <1>2 DEF DownSent
<1>6. DownWire(c, r)'
  BY <1>2 DEF DownWire
<1>7. DownQueue(c, s)'
  BY <1>2 DEF DownQueue
<1> QED
  BY <1>3, <1>4, <1>5, <1>6, <1>7

(* What belongs to one connection. *)
Local(c) ==
  <<conn[c], cut[c], typed[c], posted[c], since[c], heard[c],
    queue[Client(c)], writes[Client(c)], wire[Client(c)], reading[Client(c)],
    queue[Session(c)], writes[Session(c)], wire[Session(c)], reading[Session(c)]>>

(* A step does not disturb the connections it leaves alone. *)
LEMMA Bystander ==
  ASSUME NEW c \in Clients, UNCHANGED Local(c), log' = log,
         c \in participants' <=> c \in participants,
         Untouched(c), Quiet(c), Up(c), Down(c)
  PROVE  Untouched(c)' /\ Quiet(c)' /\ Up(c)' /\ Down(c)'
<1>0. Client(c) \in Ends /\ Session(c) \in Ends
  BY EndFacts
<1>1. /\ HeaderSent(Client(c))' <=> HeaderSent(Client(c))
      /\ Unsent(Client(c))' = Unsent(Client(c))
      /\ HeaderSent(Session(c))' <=> HeaderSent(Session(c))
      /\ Unsent(Session(c))' = Unsent(Session(c))
      /\ Stalled(Session(c))' <=> Stalled(Session(c))
  BY <1>0, WriterSame DEF Local
<1>2. Untouched(c)' /\ Quiet(c)'
  BY DEF Untouched, Quiet, Local
<1>3. /\ Listened(c)' <=> Listened(c)
      /\ Sending(c)' <=> Sending(c)
      /\ Consumed(c)' = Consumed(c)
  BY SaidSame DEF Local, Listened, Sending, Consumed, Open
<1>4. Up(c)'
  BY <1>1, <1>3, UpSame DEF Local
<1>5. Down(c)'
  BY <1>1, DownSame DEF Local
<1> QED
  BY <1>2, <1>4, <1>5

(* A step of one connection. *)
Only(c) ==
  /\ log' = log /\ recent' = recent
  /\ \A d \in Clients : d # c => UNCHANGED Local(d) /\ (d \in participants' <=> d \in participants)

(* It is enough to look at the connection whose step it is. *)
LEMMA OneConnection ==
  ASSUME ChatInv, NEW c \in Clients, Only(c), Shapes', Writer(Client(c))', Writer(Session(c))',
         Untouched(c)', Quiet(c)', Up(c)', Down(c)'
  PROVE  ChatInv'
<1>1. RecentInv'
  BY DEF ChatInv, RecentInv, Only
<1>2. ASSUME NEW x \in Ends PROVE Writer(x)'
  <2>1. CASE x[1] = c
    BY <2>1, EndFacts
  <2>2. CASE x[1] # c
    <3>1. x[1] \in Clients /\ (x = Client(x[1]) \/ x = Session(x[1]))
      BY EndFacts
    <3>2. UNCHANGED Local(x[1])
      BY <2>2, <3>1 DEF Only
    <3>3. queue'[x] = queue[x] /\ writes'[x] = writes[x]
      BY <3>1, <3>2 DEF Local
    <3> QED
      BY <3>3, WriterSame DEF ChatInv
  <2> QED
    BY <2>1, <2>2
<1>3. ASSUME NEW d \in Clients, d # c PROVE Untouched(d)' /\ Quiet(d)' /\ Up(d)' /\ Down(d)'
  BY <1>3, Bystander DEF Only, ChatInv
<1> QED
  BY <1>1, <1>2, <1>3 DEF ChatInv

LEMMA Apart ==
  ASSUME NEW c \in Clients, NEW d \in Clients, d # c
  PROVE  /\ Client(d) \in Ends /\ Client(d) # Client(c) /\ Client(d) # Session(c)
         /\ Session(d) \in Ends /\ Session(d) # Client(c) /\ Session(d) # Session(c)
BY EndFacts

LEMMA Parts ==
  ASSUME ChatInv, NEW c \in Clients
  PROVE  /\ Shapes /\ Writer(Client(c)) /\ Writer(Session(c))
         /\ Untouched(c) /\ Quiet(c) /\ Up(c) /\ Down(c)
         /\ Client(c) \in Ends /\ Session(c) \in Ends
BY EndFacts DEF ChatInv
------------------------------------------------------------------------------
(* The client. *)
LEMMA ChatConnect == ASSUME ChatInv, NEW c \in Clients, HandleConnect(c) PROVE ChatInv'
<1> USE DEF HandleConnect, room
<1>1. Shapes'
  BY EndFacts, Parts DEF Shapes
<1>2. Only(c)
  <2>1. ASSUME NEW d \in Clients, d # c PROVE UNCHANGED Local(d)
    BY <2>1, Apart, Parts DEF Local, Shapes
  <2> QED
    BY <2>1 DEF Only
<1>3. /\ conn'[c] = "connected" /\ reading'[Client(c)] = "header" /\ reading'[Session(c)] = reading[Session(c)]
  BY EndFacts, Parts DEF Shapes
<1>4. Untouched(c)' /\ Quiet(c)'
  BY <1>3, Parts DEF Untouched, Quiet
<1>5. Down(c)'
  BY <1>3 DEF Down
<1>6. Writer(Client(c))' /\ Writer(Session(c))'
  BY Parts, WriterSame
<1>7. Up(c)'
  <2>1. /\ Listened(c) /\ Consumed(c)' = Consumed(c)
        /\ Sending(c)' => Sending(c)
    BY <1>3, SaidSame DEF Listened, Sending, Consumed, Open
  <2> QED
    BY <2>1, Parts, UpSame, WriterSame
<1> QED
  BY <1>1, <1>2, <1>4, <1>5, <1>6, <1>7, OneConnection

LEMMA Grows ==
  ASSUME NEW c \in Clients, NEW ms \in Seq(Messages), NEW s \in Nat, Numbered(ms, c, s),
         NEW m, m = Message(c, s + Len(ms) + 1), m \in Messages
  PROVE  Numbered(Append(ms, m), c, s)
BY DEF Numbered

(* A line is posted with the next number. *)
LEMMA ChatType == ASSUME ChatInv, NEW c \in Clients, Type(c) PROVE ChatInv'
<1> DEFINE m == Message(c, typed[c] + 1)
<1> USE DEF Type, room, ends
<1>0. typed[c] \in Nat /\ typed[c] < Lines[c] /\ Lines[c] \in Nat /\ posted[c] \in Seq(Messages)
  BY ChatAssumption, Parts DEF Shapes
<1>1. m \in Messages /\ m \in [by : {c}, n : 1..Lines[c]]
  BY <1>0 DEF Messages, Message
<1> HIDE DEF m
<1>2. posted' = [posted EXCEPT ![c] = Append(@, m)] /\ typed' = [typed EXCEPT ![c] = @ + 1]
  BY DEF m
<1>3. posted'[c] = Append(posted[c], m) /\ typed'[c] = typed[c] + 1
  BY <1>2, Parts DEF Shapes
<1>4. Shapes'
  <2>1. Append(posted[c], m) \in Seq(Messages) /\ Append(posted[c], m) \in Seq([by : {c}, n : 1..Lines[c]])
    BY <1>1, Parts DEF Shapes
  <2>2. /\ posted' \in [Clients -> Seq(Messages)]
        /\ \A d \in Clients : posted'[d] \in Seq([by : {d}, n : 1..Lines[d]])
    BY <1>2, <2>1, Parts DEF Shapes
  <2>3. typed' \in [Clients -> Nat] /\ \A d \in Clients : typed'[d] <= Lines[d]
    <3>1. \A d \in Clients : typed[d] \in Nat /\ typed[d] <= Lines[d] /\ Lines[d] \in Nat
      BY ChatAssumption, Parts DEF Shapes
    <3>2. typed \in [Clients -> Nat]
      BY Parts DEF Shapes
    <3> QED
      BY <1>0, <1>2, <3>1, <3>2
  <2> QED
    BY <2>2, <2>3, Parts DEF Shapes
<1>5. Only(c)
  BY <1>2, Parts DEF Only, Local, Shapes
<1>6. Untouched(c)' /\ Quiet(c)'
  BY Parts DEF Untouched, Quiet
<1>7. /\ Writer(Client(c))' /\ Writer(Session(c))'
      /\ HeaderSent(Client(c))' <=> HeaderSent(Client(c))
      /\ Unsent(Client(c))' = Unsent(Client(c))
  BY Parts, WriterSame
<1>8. Down(c)'
  BY Parts, WriterSame, DownSame
<1>9. Up(c)'
  <2>1. Listened(c)' = Listened(c) /\ Consumed(c)' = Consumed(c) /\ Sending(c)' = Sending(c)
    BY SaidSame DEF Listened, Sending, Consumed, Open
  <2>2. UpWire(c) => UpWire(c)'
    BY <2>1 DEF UpWire
  <2>3. ASSUME NEW s \in Nat, UpQueue(c, s) PROVE UpQueue(c, s)'
    <3>1. Unsent(Client(c)) \in Seq(Messages) /\ s + Len(Unsent(Client(c))) \in Nat
      BY Parts, WriterFacts
    <3>2. m = Message(c, s + Len(Unsent(Client(c))) + Len(posted[c]) + 1)
      BY <2>3 DEF UpQueue, m
    <3>3. Numbered(Append(posted[c], m), c, s + Len(Unsent(Client(c))))
      BY <1>0, <1>1, <2>3, <3>1, <3>2, Grows DEF UpQueue
    <3>4. Numbered(posted[c], c, s + Len(Unsent(Client(c))))'
      BY <1>3, <1>7, <3>3 DEF Numbered
    <3> QED
      <4>1. Len(Append(posted[c], m)) = Len(posted[c]) + 1
        BY <1>0, <1>1
      <4>2. (typed[c] = s + Len(Unsent(Client(c))) + Len(posted[c]))'
        <5> DEFINE t == typed[c]
                   u == Len(Unsent(Client(c)))
                   v == Len(posted[c])
        <5>1. t = s + u + v /\ u \in Nat /\ v \in Nat
          BY <1>0, <2>3, <3>1 DEF UpQueue
        <5>2. t' = t + 1 /\ u' = u /\ v' = v + 1
          BY <1>3, <1>7, <4>1
        <5> HIDE DEF t, u, v
        <5>3. t' = s + u' + v'
          BY <5>1, <5>2
        <5> QED
          BY <5>3 DEF t, u, v
      <4>3. Numbered(Unsent(Client(c)), c, s)'
        BY <1>7, <2>3 DEF UpQueue, Numbered
      <4> QED
        BY <1>7, <2>1, <2>3, <3>4, <4>2, <4>3 DEF UpQueue
  <2> QED
    BY <2>1, <2>2, <2>3, Parts DEF Up
<1> QED
  BY <1>4, <1>5, <1>6, <1>7, <1>8, <1>9, OneConnection

(* deliver and do_write *)
LEMMA Queued ==
  ASSUME Shapes, \A x \in Ends : Writer(x), NEW xs \in SUBSET Ends, NEW ms \in Seq(Messages),
         QueueAll(xs, ms)
  PROVE  /\ queue' \in [Ends -> Seq(Messages)] /\ writes' \in [Ends -> Seq(Seq(Pieces))]
         /\ \A x \in Ends : Writer(x)'
         /\ \A x \in xs : /\ HeaderSent(x)' <=> HeaderSent(x)
                          /\ Unsent(x)' = Unsent(x) \o ms /\ (Stalled(x)' => Stalled(x))
         /\ \A x \in Ends : x \notin xs => queue'[x] = queue[x] /\ writes'[x] = writes[x]
<1>1. /\ DOMAIN queue' = Ends /\ DOMAIN writes' = Ends
      /\ queue' = [x \in Ends |-> queue'[x]] /\ writes' = [x \in Ends |-> writes'[x]]
  BY DEF QueueAll
<1>2. ASSUME NEW x \in xs
      PROVE  /\ Writer(x)' /\ (HeaderSent(x)' <=> HeaderSent(x))
             /\ Unsent(x)' = Unsent(x) \o ms /\ (Stalled(x)' => Stalled(x))
             /\ queue'[x] \in Seq(Messages) /\ writes'[x] \in Seq(Seq(Pieces))
  <2>1. queue'[x] = queue[x] \o ms
    BY DEF QueueAll
  <2>2. writes'[x] = IF queue[x] = <<>> /\ ms # <<>>
                     THEN Append(writes[x], Buffer(ms[1])) ELSE writes[x]
    BY DEF QueueAll
  <2> QED
    BY <2>1, <2>2, WriterQueues
<1>3. ASSUME NEW x \in Ends, x \notin xs
      PROVE  /\ queue'[x] = queue[x] /\ writes'[x] = writes[x] /\ Writer(x)'
             /\ queue'[x] \in Seq(Messages) /\ writes'[x] \in Seq(Seq(Pieces))
  <2>1. queue'[x] = queue[x] /\ writes'[x] = writes[x]
    BY <1>3 DEF QueueAll
  <2> QED
    BY <2>1, WriterSame DEF Shapes
<1>4. \A x \in Ends : queue'[x] \in Seq(Messages) /\ writes'[x] \in Seq(Seq(Pieces)) /\ Writer(x)'
  <2> TAKE x \in Ends
  <2>1. CASE x \in xs
    BY <2>1, <1>2
  <2>2. CASE x \notin xs
    BY <2>2, <1>3
  <2> QED
    BY <2>1, <2>2
<1>5. queue' \in [Ends -> Seq(Messages)] /\ writes' \in [Ends -> Seq(Seq(Pieces))]
  BY <1>1, <1>4
<1> QED
  BY <1>2, <1>3, <1>4, <1>5

LEMMA Appends ==
  ASSUME NEW ms \in Seq(Messages), NEW m \in Messages
  PROVE  /\ <<m>> \in Seq(Messages) /\ ms \o <<m>> \in Seq(Messages)
         /\ Len(ms \o <<m>>) = Len(ms) + 1 /\ (ms \o <<m>>)[Len(ms) + 1] = m
         /\ \A k \in 1..Len(ms) : (ms \o <<m>>)[k] = ms[k]
         /\ ms \o <<m>> = Append(ms, m)
<1>1. /\ <<m>> \in Seq(Messages) /\ ms \o <<m>> \in Seq(Messages)
      /\ Len(ms \o <<m>>) = Len(ms) + 1 /\ (ms \o <<m>>)[Len(ms) + 1] = m
      /\ \A k \in 1..Len(ms) : (ms \o <<m>>)[k] = ms[k]
  OBVIOUS
<1> QED
  BY <1>1, AppendIsConcat

(* A message of the client enters its queue; ps are the lines still posted. *)
LEMMA UpQueued ==
  ASSUME ChatInv, NEW c \in Clients, NEW m \in Messages, QueueAll({Client(c)}, <<m>>),
         NEW ps \in Seq(Messages), posted' = [posted EXCEPT ![c] = ps],
         NEW t \in Nat, t <= Lines[c], typed' = [typed EXCEPT ![c] = t],
         ps \in Seq([by : {c}, n : 1..Lines[c]]), c \in Posix => ps = <<>>,
         \A s \in Nat : UpQueue(c, s) =>
           LET u == Len(Unsent(Client(c))) IN
           m = Message(c, s + u + 1) /\ Numbered(ps, c, s + u + 1) /\ t = s + u + 1 + Len(ps),
         UNCHANGED <<conn, cut, wire, reading, participants, recent, log, since, heard>>
  PROVE  ChatInv'
<1> DEFINE x == Client(c)
<1>0. Shapes /\ x \in Ends /\ (\A y \in Ends : Writer(y))
  BY Parts DEF ChatInv
<1>1. /\ queue' \in [Ends -> Seq(Messages)] /\ writes' \in [Ends -> Seq(Seq(Pieces))]
      /\ \A y \in Ends : Writer(y)'
      /\ HeaderSent(x)' <=> HeaderSent(x)
      /\ Unsent(x)' = Unsent(x) \o <<m>>
      /\ \A y \in Ends : y # x => queue'[y] = queue[y] /\ writes'[y] = writes[y]
  <2>1. <<m>> \in Seq(Messages)
    OBVIOUS
  <2>2. {x} \in SUBSET Ends
    BY <1>0
  <2> HIDE DEF x
  <2>3. QueueAll({x}, <<m>>)
    BY DEF x
  <2> QED
    BY <1>0, <2>1, <2>2, <2>3, Queued
<1>2. posted'[c] = ps /\ typed'[c] = t
  BY <1>0 DEF Shapes
<1>3. Shapes'
  <2>1. /\ posted' \in [Clients -> Seq(Messages)]
        /\ \A d \in Clients : posted'[d] \in Seq([by : {d}, n : 1..Lines[d]])
    BY <1>0 DEF Shapes
  <2>2. typed' \in [Clients -> Nat] /\ \A d \in Clients : typed'[d] <= Lines[d]
    BY <1>0 DEF Shapes
  <2> QED
    BY <1>0, <1>1, <2>1, <2>2 DEF Shapes
<1>4. Only(c)
  <2>1. ASSUME NEW d \in Clients, d # c PROVE UNCHANGED Local(d)
    <3>1. posted'[d] = posted[d] /\ typed'[d] = typed[d]
      BY <1>0, <2>1 DEF Shapes
    <3>2. /\ queue'[Client(d)] = queue[Client(d)] /\ writes'[Client(d)] = writes[Client(d)]
          /\ queue'[Session(d)] = queue[Session(d)] /\ writes'[Session(d)] = writes[Session(d)]
      BY <1>1, <2>1, Apart
    <3> QED
      BY <3>1, <3>2 DEF Local
  <2> QED
    BY <2>1 DEF Only
<1>5. Session(c) \in Ends /\ queue'[Session(c)] = queue[Session(c)] /\ writes'[Session(c)] = writes[Session(c)]
  BY <1>1, EndFacts
<1>6. Untouched(c)' /\ Quiet(c)'
  BY <1>2, <1>5, Parts DEF Untouched, Quiet
<1>7. Down(c)'
  BY <1>5, Parts, WriterSame, DownSame
<1>8. Up(c)'
  <2>1. Listened(c)' = Listened(c) /\ Consumed(c)' = Consumed(c) /\ Sending(c)' = Sending(c)
    BY SaidSame DEF Listened, Sending, Consumed, Open
  <2>2. UpWire(c) => UpWire(c)'
    BY ZenonT(60), <2>1 DEF UpWire
  <2>3. ASSUME NEW s \in Nat, UpQueue(c, s) PROVE UpQueue(c, s)'
    <3> DEFINE us == Unsent(x)
               u == Len(us)
    <3>1. us \in Seq(Messages) /\ u \in Nat
      BY <1>0, WriterFacts
    <3>2. m = Message(c, s + u + 1) /\ Numbered(ps, c, s + u + 1) /\ t = s + u + 1 + Len(ps)
      BY <2>3
    <3>3. /\ us' = us \o <<m>> /\ Len(us \o <<m>>) = u + 1 /\ (us \o <<m>>)[u + 1] = m
          /\ \A k \in 1..u : (us \o <<m>>)[k] = us[k]
      BY <1>1, <3>1, Appends
    <3>4. Numbered(us, c, s) /\ Consumed(c) + Len(wire[x]) = 2 * s + (IF HeaderSent(x) THEN 1 ELSE 0)
      BY <2>3 DEF UpQueue
    <3>5. (Consumed(c) + Len(wire[x]) = 2 * s + (IF HeaderSent(x) THEN 1 ELSE 0))'
      BY <1>1, <2>1, <3>4
    <3>6. u' = u + 1
      BY <3>3
    <3> HIDE DEF us, u
    <3>7. Numbered(us, c, s)'
      <4>1. ASSUME NEW k \in 1..(u + 1) PROVE (us \o <<m>>)[k] = Message(c, s + k)
        <5>1. CASE k = u + 1
          <6>1. s + k = s + u + 1
            BY <5>1, <3>1
          <6>2. (us \o <<m>>)[k] = m
            BY <5>1, <3>3
          <6> QED
            BY <6>1, <6>2, <3>2
        <5>2. CASE k # u + 1
          <6>1. k \in 1..u
            BY <5>2, <3>1
          <6> QED
            BY <6>1, <3>3, <3>4 DEF Numbered, u
        <5> QED
          BY <5>1, <5>2
      <4>2. Len(us') = u + 1
        BY <3>3
      <4>3. \A k \in 1..Len(us') : us'[k] = Message(c, s + k)
        BY <3>3, <4>1, <4>2
      <4> QED
        BY <4>3 DEF Numbered
    <3>8. Numbered(posted[c], c, s + u)'
      <4>1. s + u' = s + u + 1
        BY <3>1, <3>6
      <4> QED
        BY <1>2, <3>2, <4>1 DEF Numbered
    <3>9. (typed[c] = s + u + Len(posted[c]))'
      <4> DEFINE p == Len(ps)
      <4>1. p \in Nat /\ t = s + u + 1 + p
        BY <3>2
      <4> HIDE DEF p
      <4>2. t = s + u' + p
        BY <3>1, <3>6, <4>1
      <4> QED
        BY <1>2, <4>2 DEF p
    <3> QED
      BY <3>5, <3>7, <3>8, <3>9 DEF UpQueue, us, u
  <2> QED
    BY <2>1, <2>2, <2>3, Parts DEF Up
<1> QED
  BY <1>0, <1>1, <1>3, <1>4, <1>5, <1>6, <1>7, <1>8, OneConnection

(* The first line posted enters the queue. *)
LEMMA ChatDoWrite == ASSUME ChatInv, NEW c \in Clients, DoWrite(c) PROVE ChatInv'
<1> DEFINE ps == posted[c]
           m == Head(ps)
<1>1. /\ ps \in Seq(Messages) /\ ps \in Seq([by : {c}, n : 1..Lines[c]]) /\ ps # <<>>
      /\ typed \in [Clients -> Nat] /\ typed[c] \in Nat /\ typed[c] <= Lines[c]
  BY Parts DEF Shapes, DoWrite
<1>2. /\ m \in Messages /\ Tail(ps) \in Seq(Messages) /\ m = ps[1] /\ Len(ps) \in Nat
      /\ Len(ps) >= 1 /\ Len(Tail(ps)) = Len(ps) - 1
  BY <1>1
<1>3. Tail(ps) \in Seq([by : {c}, n : 1..Lines[c]])
  BY <1>1
<1>4. \A k \in 1..Len(Tail(ps)) : Tail(ps)[k] = ps[k + 1]
  BY <1>1
<1>5. c \in Posix => Tail(ps) = <<>>
  BY <1>1, Parts DEF Quiet
<1>6. ASSUME NEW s \in Nat, UpQueue(c, s)
      PROVE  LET u == Len(Unsent(Client(c))) IN
             /\ m = Message(c, s + u + 1) /\ Numbered(Tail(ps), c, s + u + 1)
             /\ typed[c] = s + u + 1 + Len(Tail(ps))
  <2> DEFINE u == Len(Unsent(Client(c)))
             v == Len(ps)
  <2>1. u \in Nat /\ v \in Nat
    BY <1>2, Parts, WriterFacts
  <2>2. Numbered(ps, c, s + u) /\ typed[c] = s + u + v
    BY <1>6 DEF UpQueue
  <2> HIDE DEF u, ps
  <2>3. m = Message(c, s + u + 1)
    BY <1>2, <2>2 DEF Numbered
  <2>4. Numbered(Tail(ps), c, s + u + 1)
    <3>1. ASSUME NEW k \in 1..Len(Tail(ps)) PROVE Tail(ps)[k] = Message(c, s + u + 1 + k)
      <4>1. k + 1 \in 1..Len(ps) /\ s + u + (k + 1) = s + u + 1 + k
        BY <1>2, <2>1
      <4>2. ps[k + 1] = Message(c, s + u + (k + 1))
        BY <2>2, <4>1 DEF Numbered
      <4> QED
        BY <1>4, <4>1, <4>2
    <3> QED
      BY <3>1 DEF Numbered
  <2>5. typed[c] = s + u + 1 + Len(Tail(ps))
    <3> DEFINE w == Len(Tail(ps))
    <3>1. w = v - 1
      BY <1>2
    <3> HIDE DEF w, v
    <3>2. s + u + 1 + w = s + u + v
      BY <2>1, <3>1
    <3> QED
      BY <2>2, <3>2 DEF w
  <2> QED
    BY <2>3, <2>4, <2>5 DEF u
<1>7. /\ posted' = [posted EXCEPT ![c] = Tail(ps)] /\ QueueAll({Client(c)}, <<m>>)
      /\ UNCHANGED <<conn, cut, wire, reading, participants, recent, log, since, heard>>
  BY DEF DoWrite, room
<1>8. typed' = [typed EXCEPT ![c] = typed[c]]
  BY <1>1 DEF DoWrite
<1> HIDE DEF ps, m
<1> QED
  BY <1>1, <1>2, <1>3, <1>5, <1>6, <1>7, <1>8, UpQueued

(* The line read by posix_chat_client enters its queue. *)
LEMMA ChatReadInput == ASSUME ChatInv, NEW c \in Clients, HandleReadInput(c) PROVE ChatInv'
<1> DEFINE m == Message(c, typed[c] + 1)
<1>1. /\ typed \in [Clients -> Nat] /\ typed[c] \in Nat /\ typed[c] + 1 <= Lines[c]
      /\ posted[c] = <<>> /\ posted \in [Clients -> Seq(Messages)]
  BY ChatAssumption, Parts DEF Shapes, Quiet, HandleReadInput
<1>2. m \in Messages
  BY <1>1 DEF Message, Messages
<1>3. /\ typed' = [typed EXCEPT ![c] = typed[c] + 1] /\ QueueAll({Client(c)}, <<m>>)
      /\ UNCHANGED <<conn, cut, wire, reading, participants, recent, log, since, heard>>
  BY DEF HandleReadInput, room
<1>4. posted' = [posted EXCEPT ![c] = <<>>]
  BY <1>1 DEF HandleReadInput
<1>5. ASSUME NEW s \in Nat, UpQueue(c, s)
      PROVE  LET u == Len(Unsent(Client(c))) IN
             /\ m = Message(c, s + u + 1) /\ Numbered(<<>>, c, s + u + 1)
             /\ typed[c] + 1 = s + u + 1 + Len(<<>>)
  <2> DEFINE u == Len(Unsent(Client(c)))
  <2>1. u \in Nat /\ Len(<<>>) = 0
    BY Parts, WriterFacts
  <2>2. typed[c] = s + u + Len(posted[c])
    BY <1>5 DEF UpQueue
  <2> HIDE DEF u
  <2>3. typed[c] + 1 = s + u + 1
    BY <1>1, <2>1, <2>2
  <2>4. Numbered(<<>>, c, s + u + 1)
    BY DEF Numbered
  <2>5. typed[c] + 1 = s + u + 1 + Len(<<>>)
    BY <2>1, <2>3
  <2> QED
    BY <2>3, <2>4, <2>5 DEF u
<1>6. <<>> \in Seq(Messages) /\ <<>> \in Seq([by : {c}, n : 1..Lines[c]]) /\ typed[c] + 1 \in Nat
  BY <1>1
<1> HIDE DEF m
<1> QED
  BY <1>1, <1>2, <1>3, <1>4, <1>5, <1>6, UpQueued

(* The client closes: it sends nothing any more, and reads nothing. *)
LEMMA ChatCloses ==
  ASSUME ChatInv, NEW c \in Clients, Close(c),
         typed' \in [Clients -> Nat], \A d \in Clients : typed'[d] <= Lines[d],
         \A d \in Clients : d # c => typed'[d] = typed[d],
         UNCHANGED <<conn, posted, queue, wire, participants, recent, log, since, heard>>
  PROVE  ChatInv'
<1>0. /\ Shapes /\ Client(c) \in Ends /\ Session(c) \in Ends /\ Client(c) # Session(c)
      /\ cut \in [Clients -> BOOLEAN] /\ reading \in [Ends -> {"off", "header", "body", "output"}]
  BY Parts, EndFacts DEF Shapes
<1>1. /\ Writer(Client(c))' /\ writes' \in [Ends -> Seq(Seq(Pieces))]
      /\ \A y \in Ends : y # Client(c) => writes'[y] = writes[y]
  BY Parts, WriterCloses
<1>2. /\ cut' = [cut EXCEPT ![c] = TRUE] /\ reading' = [reading EXCEPT ![Client(c)] = "off"]
  BY DEF Close
<1>3. /\ cut'[c] = TRUE /\ reading'[Client(c)] = "off" /\ reading'[Session(c)] = reading[Session(c)]
      /\ writes'[Session(c)] = writes[Session(c)]
  BY <1>0, <1>1, <1>2
<1>4. Shapes'
  <2>1. /\ cut' \in [Clients -> BOOLEAN] /\ reading' \in [Ends -> {"off", "header", "body", "output"}]
        /\ \A x \in Ends : reading'[x] = "output" => \E d \in Posix : x = Client(d)
    BY <1>0, <1>2 DEF Shapes
  <2> QED
    BY <1>0, <1>1, <2>1 DEF Shapes
<1>5. Only(c)
  <2>1. ASSUME NEW d \in Clients, d # c PROVE UNCHANGED Local(d)
    <3>1. cut'[d] = cut[d] /\ typed'[d] = typed[d]
      BY <1>0, <1>2, <2>1
    <3>2. /\ writes'[Client(d)] = writes[Client(d)] /\ reading'[Client(d)] = reading[Client(d)]
          /\ writes'[Session(d)] = writes[Session(d)] /\ reading'[Session(d)] = reading[Session(d)]
      BY <1>0, <1>1, <1>2, <2>1, Apart
    <3> QED
      BY <3>1, <3>2 DEF Local
  <2> QED
    BY <2>1 DEF Only
<1>6. Untouched(c)' /\ Quiet(c)'
  BY <1>3, Parts DEF Untouched, Quiet
<1>7. Writer(Session(c))' /\ Down(c)'
  BY <1>3, Parts, WriterSame, DownSame
<1>8. Up(c)'
  <2>1. Listened(c)' = Listened(c) /\ Consumed(c)' = Consumed(c) /\ ~Sending(c)'
    BY <1>3, SaidSame DEF Listened, Sending, Consumed, Open
  <2> QED
    BY <2>1, Parts, UpSame
<1> QED
  BY <1>1, <1>4, <1>5, <1>6, <1>7, <1>8, OneConnection

(* Quit closes the socket, whatever was left to send. *)
LEMMA ChatQuit == ASSUME ChatInv, NEW c \in Clients, Quit(c) PROVE ChatInv'
<1>1. /\ typed' = [typed EXCEPT ![c] = Lines[c]] /\ Close(c)
      /\ UNCHANGED <<conn, posted, queue, wire, participants, recent, log, since, heard>>
  BY DEF Quit, room
<1>2. typed \in [Clients -> Nat] /\ \A d \in Clients : typed[d] <= Lines[d] /\ Lines[d] \in Nat
  BY ChatAssumption, Parts DEF Shapes
<1>3. /\ typed' \in [Clients -> Nat] /\ \A d \in Clients : typed'[d] <= Lines[d]
      /\ \A d \in Clients : d # c => typed'[d] = typed[d]
  BY <1>1, <1>2
<1> QED
  BY <1>1, <1>3, ChatCloses

(* The connection is cut, or the socket of a session closed. *)
LEMMA ChatCut ==
  ASSUME ChatInv, NEW c \in Clients, cut' = [cut EXCEPT ![c] = TRUE],
         UNCHANGED <<conn, typed, posted, ends, room, heard>>
  PROVE  ChatInv'
<1> USE DEF ends, room
<1>1. Shapes'
  BY Parts DEF Shapes
<1>2. Only(c)
  BY Parts DEF Only, Local, Shapes
<1>3. cut'[c] = TRUE
  BY Parts DEF Shapes
<1>4. Untouched(c)' /\ Quiet(c)' /\ Writer(Client(c))' /\ Writer(Session(c))'
  BY Parts, WriterSame DEF Untouched, Quiet
<1>5. Down(c)'
  BY Parts, WriterSame, DownSame
<1>6. Up(c)'
  <2>1. Listened(c)' = Listened(c) /\ Consumed(c)' = Consumed(c) /\ (Sending(c)' => Sending(c))
    BY <1>3, SaidSame DEF Listened, Sending, Consumed, Open
  <2> QED
    BY <2>1, Parts, UpSame, WriterSame
<1> QED
  BY <1>1, <1>2, <1>4, <1>5, <1>6, OneConnection

(* A piece is added to those on the wire. *)
LEMMA AppendPieces ==
  ASSUME NEW ps \in Seq(Pieces), NEW p \in Pieces
  PROVE  /\ Append(ps, p) \in Seq(Pieces) /\ Len(ps) \in Nat /\ Len(Append(ps, p)) = Len(ps) + 1
         /\ Append(ps, p)[Len(ps) + 1] = p
         /\ \A i \in 1..Len(ps) : Append(ps, p)[i] = ps[i]
         /\ \A i \in 1..(Len(ps) + 1) : GoodBefore(Append(ps, p), i) <=> GoodBefore(ps, i)
         /\ GoodBefore(ps, Len(ps) + 1) <=> Bad \notin Range(ps)
         /\ Bad \in Range(Append(ps, p)) <=> Bad \in Range(ps) \/ p = Bad
<1> DEFINE qs == Append(ps, p)
           l == Len(ps)
<1>1. /\ qs \in Seq(Pieces) /\ l \in Nat /\ Len(qs) = l + 1 /\ qs[l + 1] = p
      /\ \A i \in 1..l : qs[i] = ps[i]
  OBVIOUS
<1>2. DOMAIN ps = 1..l /\ DOMAIN qs = 1..(l + 1)
  BY <1>1
<1> HIDE DEF qs, l
<1>3. ASSUME NEW i \in 1..(l + 1) PROVE GoodBefore(qs, i) <=> GoodBefore(ps, i)
  BY <1>1 DEF GoodBefore
<1>4. GoodBefore(ps, l + 1) <=> Bad \notin Range(ps)
  <2>2. GoodBefore(ps, l + 1) <=> \A j \in 1..l : ps[j] # Bad
    <3>1. GoodBefore(ps, l + 1) <=> \A j \in 1..((l + 1) - 1) : ps[j] # Bad
      BY Zenon DEF GoodBefore
    <3>2. \A j : j \in 1..((l + 1) - 1) <=> j \in 1..l
      BY <1>1
    <3> QED
      BY Zenon, <3>1, <3>2
  <2>3. Bad \notin Range(ps) <=> \A j \in 1..l : ps[j] # Bad
    BY Zenon, <1>2 DEF Range
  <2> QED
    BY <2>2, <2>3
<1>5. Bad \in Range(qs) <=> Bad \in Range(ps) \/ p = Bad
  <2>1. ASSUME Bad \in Range(ps) PROVE Bad \in Range(qs)
    <3>1. PICK i \in 1..l : ps[i] = Bad
      BY <1>2, <2>1 DEF Range
    <3>2. i \in 1..(l + 1) /\ qs[i] = Bad
      BY <1>1, <3>1
    <3> QED
      BY <1>2, <3>2 DEF Range
  <2>2. ASSUME p = Bad PROVE Bad \in Range(qs)
    <3>1. l + 1 \in 1..(l + 1)
      BY <1>1
    <3> QED
      BY <1>1, <1>2, <2>2, <3>1 DEF Range
  <2>3. ASSUME Bad \in Range(qs), p # Bad PROVE Bad \in Range(ps)
    <3>1. PICK i \in 1..(l + 1) : qs[i] = Bad
      BY <1>2, <2>3 DEF Range
    <3>2. i \in 1..l /\ ps[i] = Bad
      BY <1>1, <2>3, <3>1
    <3> QED
      BY <1>2, <3>2 DEF Range
  <2> QED
    BY <2>1, <2>2, <2>3
<1> QED
  BY <1>1, <1>3, <1>4, <1>5 DEF qs, l

(* The next piece sent by the client fits. *)
LEMMA UpAppends ==
  ASSUME NEW c \in Clients, NEW p \in Pieces, wire[Client(c)] \in Seq(Pieces),
         wire'[Client(c)] = Append(wire[Client(c)], p), Consumed(c)' = Consumed(c),
         UpWire(c),
         Bad \notin Range(wire[Client(c)]) =>
           \A n \in Nat :
             LET i == Len(wire[Client(c)]) + 1 IN
             /\ Consumed(c) + i = 2 * n + 1 => p \in {Header(Message(c, n + 1)), Bad}
             /\ Consumed(c) + i = 2 * n + 2 => p = Body(Message(c, n + 1))
  PROVE  UpWire(c)'
<1> DEFINE ps == wire[Client(c)]
           qs == Append(ps, p)
           l == Len(ps)
           k == Consumed(c)
<1>1. /\ l \in Nat /\ Len(qs) = l + 1 /\ qs[l + 1] = p
      /\ \A i \in 1..l : qs[i] = ps[i]
      /\ \A i \in 1..(l + 1) : GoodBefore(qs, i) <=> GoodBefore(ps, i)
      /\ GoodBefore(ps, l + 1) <=> Bad \notin Range(ps)
  BY AppendPieces
<1>2. \A i \in 1..l : \A n \in Nat : GoodBefore(ps, i) =>
        /\ k + i = 2 * n + 1 => ps[i] \in {Header(Message(c, n + 1)), Bad}
        /\ k + i = 2 * n + 2 => ps[i] = Body(Message(c, n + 1))
  BY DEF UpWire
<1>3. GoodBefore(ps, l + 1) => \A n \in Nat :
        /\ k + (l + 1) = 2 * n + 1 => p \in {Header(Message(c, n + 1)), Bad}
        /\ k + (l + 1) = 2 * n + 2 => p = Body(Message(c, n + 1))
  BY <1>1
<1>4. wire'[Client(c)] = qs /\ k' = k
  OBVIOUS
<1> HIDE DEF ps, qs, l, k
<1>5. ASSUME NEW i \in 1..(l + 1), NEW n \in Nat, GoodBefore(qs, i)
      PROVE  /\ k + i = 2 * n + 1 => qs[i] \in {Header(Message(c, n + 1)), Bad}
             /\ k + i = 2 * n + 2 => qs[i] = Body(Message(c, n + 1))
  <2>1. CASE i = l + 1
    BY <1>1, <1>3, <1>5, <2>1
  <2>2. CASE i # l + 1
    <3>1. i \in 1..l
      BY <1>1, <2>2
    <3> QED
      BY <1>1, <1>2, <1>5, <3>1
  <2> QED
    BY <2>1, <2>2
<1> QED
  BY <1>1, <1>4, <1>5 DEF UpWire, k

(* What is on the wire ends with a whole message unless the header of the  *)
(* next one was sent.                                                      *)
LEMMA ChatSendBad == ASSUME ChatInv, NEW c \in Clients, SendBad(c) PROVE ChatInv'
<1> DEFINE x == Client(c)
           ps == wire[x]
<1>0. /\ x \in Ends /\ Shapes /\ wire \in [Ends -> Seq(Pieces)] /\ ps \in Seq(Pieces)
      /\ Bad \in Pieces /\ Session(c) \in Ends /\ x # Session(c)
  BY Parts, EndFacts DEF Shapes, Bad, Pieces
<1>1. /\ wire' = [wire EXCEPT ![x] = Append(@, Bad)] /\ writes[x] = <<>> /\ Bad \notin Range(ps)
      /\ Open(c)
      /\ UNCHANGED <<conn, cut, typed, posted, queue, writes, reading, participants, recent,
                     log, since, heard>>
  BY DEF SendBad, room
<1>2. /\ wire'[x] = Append(ps, Bad) /\ wire'[Session(c)] = wire[Session(c)]
      /\ \A y \in Ends : y # x => wire'[y] = wire[y]
  BY <1>0, <1>1
<1>3. Shapes'
  <2>1. Append(ps, Bad) \in Seq(Pieces)
    BY <1>0
  <2>2. wire' \in [Ends -> Seq(Pieces)]
    BY <1>0, <1>1, <2>1
  <2> QED
    BY <1>0, <1>1, <2>2 DEF Shapes
<1>4. Only(c)
  <2>1. ASSUME NEW d \in Clients, d # c PROVE UNCHANGED Local(d)
    <3>1. wire'[Client(d)] = wire[Client(d)] /\ wire'[Session(d)] = wire[Session(d)]
      BY <1>2, <2>1, Apart
    <3> QED
      BY <1>1, <3>1 DEF Local
  <2> QED
    BY <1>1, <2>1 DEF Only
<1>5. Writer(Client(c))' /\ Writer(Session(c))' /\ Down(c)'
  BY <1>1, <1>2, Parts, WriterSame, DownSame
<1>6. Untouched(c)' /\ Quiet(c)'
  BY <1>1, <1>2, Parts DEF Untouched, Quiet, Open
<1>7. Up(c)'
  <2>1. Listened(c)' = Listened(c) /\ Consumed(c)' = Consumed(c) /\ Sending(c)
    BY <1>1, SaidSame DEF Listened, Sending, Consumed, Open
  <2>2. ~Sending(c)'
    <3>1. Bad \in Range(wire'[x])
      BY <1>0, <1>2, AppendPieces
    <3> QED
      BY <3>1 DEF Sending
  <2>3. ASSUME Listened(c) PROVE UpWire(c)'
    <3>1. PICK s \in Nat : UpQueue(c, s)
      BY <2>1, <2>3, Parts DEF Up
    <3>2. ~HeaderSent(x)
      BY <1>1 DEF HeaderSent
    <3>3. Consumed(c) + Len(ps) = 2 * s
      BY <3>1, <3>2 DEF UpQueue
    <3>4. Consumed(c) \in Nat /\ Len(ps) \in Nat
      BY <1>0, SaidIsNat DEF Consumed
    <3>5. \A n \in Nat : Consumed(c) + (Len(ps) + 1) # 2 * n + 2
      <4> DEFINE k == Consumed(c)
                 l == Len(ps)
      <4>1. k + l = 2 * s /\ k \in Nat /\ l \in Nat
        BY <3>3, <3>4
      <4> HIDE DEF k, l
      <4>2. \A n \in Nat : k + (l + 1) # 2 * n + 2
        BY <4>1
      <4> QED
        BY <4>2 DEF k, l
    <3> QED
      BY <1>0, <1>2, <2>1, <2>3, <3>5, Parts, UpAppends DEF Up
  <2> QED
    BY <2>1, <2>2, <2>3 DEF Up
<1> QED
  BY <1>3, <1>4, <1>5, <1>6, <1>7, OneConnection
------------------------------------------------------------------------------
(* Writing. *)
LEMMA Tails ==
  ASSUME NEW ms \in Seq(Messages), ms # <<>>
  PROVE  /\ Tail(ms) \in Seq(Messages) /\ Len(ms) \in Nat /\ Len(ms) >= 1 /\ ms[1] \in Messages
         /\ Len(Tail(ms)) = Len(ms) - 1
         /\ \A k \in 1..Len(Tail(ms)) : Tail(ms)[k] = ms[k + 1]
OBVIOUS

(* A client sends the next piece of its first line. *)
LEMMA ChatClientTransfers ==
  ASSUME ChatInv, NEW c \in Clients, Transfer(Client(c)) PROVE ChatInv'
<1> DEFINE x == Client(c)
           ps == wire[x]
           us == Unsent(x)
           m == us[1]
<1>0. /\ x \in Ends /\ Shapes /\ ps \in Seq(Pieces) /\ us \in Seq(Messages)
      /\ Session(c) \in Ends /\ x # Session(c)
  BY Parts, EndFacts, WriterFacts DEF Shapes
<1>1. /\ Open(c)
      /\ UNCHANGED <<conn, cut, typed, posted, queue, reading, participants, recent,
                     log, since, heard>>
  BY EndFacts DEF Transfer, room
<1>2. /\ us # <<>> /\ Writer(x)'
      /\ writes' \in [Ends -> Seq(Seq(Pieces))] /\ wire' \in [Ends -> Seq(Pieces)]
      /\ \A y \in Ends : y # x => writes'[y] = writes[y] /\ wire'[y] = wire[y]
      /\ \/ ~HeaderSent(x) /\ HeaderSent(x)' /\ us' = us /\ wire'[x] = Append(ps, Header(m))
         \/ HeaderSent(x) /\ ~HeaderSent(x)' /\ us' = Tail(us) /\ wire'[x] = Append(ps, Body(m))
  BY Parts, WriterTransfers
<1>3. Shapes'
  BY <1>0, <1>1, <1>2 DEF Shapes
<1>4. Only(c)
  <2>1. ASSUME NEW d \in Clients, d # c PROVE UNCHANGED Local(d)
    <3>1. /\ wire'[Client(d)] = wire[Client(d)] /\ wire'[Session(d)] = wire[Session(d)]
          /\ writes'[Client(d)] = writes[Client(d)] /\ writes'[Session(d)] = writes[Session(d)]
      BY <1>2, <2>1, Apart
    <3> QED
      BY <1>1, <3>1 DEF Local
  <2> QED
    BY <1>1, <2>1 DEF Only
<1>5. Writer(Session(c))' /\ Down(c)'
  BY <1>0, <1>1, <1>2, Parts, WriterSame, DownSame
<1>6. Untouched(c)' /\ Quiet(c)'
  BY <1>0, <1>1, <1>2, Parts DEF Untouched, Quiet, Open
<1>7. Up(c)'
  <2>1. Listened(c)' = Listened(c) /\ Consumed(c)' = Consumed(c)
    BY <1>1, SaidSame DEF Listened, Consumed
  <2>2. /\ m \in Messages /\ Header(m) \in Pieces /\ Body(m) \in Pieces
        /\ Header(m) # Bad /\ Body(m) # Bad
    BY <1>0, <1>2, Tails, PieceFacts
  <2>3. Sending(c)' <=> Sending(c)
    <3>1. Bad \in Range(wire'[x]) <=> Bad \in Range(ps)
      <4>1. Bad \in Range(Append(ps, Header(m))) <=> Bad \in Range(ps)
        BY <1>0, <2>2, AppendPieces
      <4>2. Bad \in Range(Append(ps, Body(m))) <=> Bad \in Range(ps)
        BY <1>0, <2>2, AppendPieces
      <4> QED
        BY <1>2, <4>1, <4>2
    <3> QED
      BY <1>1, <3>1 DEF Sending, Open
  <2>4. Sending(c) <=> Bad \notin Range(ps)
    BY <1>1 DEF Sending
  <2>5. CASE ~Listened(c)
    BY <2>1, <2>5 DEF Up
  <2>6. CASE Listened(c) /\ ~Sending(c)
    <3>1. UpWire(c)'
      BY <1>0, <1>2, <2>1, <2>2, <2>4, <2>6, Parts, UpAppends DEF Up
    <3> QED
      BY <2>1, <2>3, <2>6, <3>1 DEF Up
  <2>7. CASE Listened(c) /\ Sending(c)
    <3>1. UpWire(c)
      BY <2>7, Parts DEF Up
    <3>2. PICK s \in Nat : UpQueue(c, s)
      BY <2>7, Parts DEF Up
    <3> DEFINE k == Consumed(c)
               l == Len(ps)
               u == Len(us)
               v == Len(posted[c])
    <3>3. /\ k \in Nat /\ l \in Nat /\ u \in Nat /\ u >= 1 /\ v \in Nat /\ Len(Tail(us)) = u - 1
          /\ Tail(us) \in Seq(Messages)
      <4>1. k \in Nat
        BY <1>0, SaidIsNat DEF Consumed
      <4>2. l \in Nat /\ v \in Nat
        BY <1>0 DEF Shapes
      <4> QED
        BY <1>0, <1>2, <4>1, <4>2, Tails
    <3>4. /\ k + l = 2 * s + (IF HeaderSent(x) THEN 1 ELSE 0)
          /\ Numbered(us, c, s) /\ Numbered(posted[c], c, s + u) /\ typed[c] = s + u + v
      BY <3>2 DEF UpQueue
    <3>5. m = Message(c, s + 1)
      BY <3>3, <3>4 DEF Numbered
    <3>6. Len(Append(ps, Header(m))) = l + 1 /\ Len(Append(ps, Body(m))) = l + 1
      BY <1>0, <2>2, AppendPieces
    <3>7. CASE ~HeaderSent(x)
      <4>1. wire'[x] = Append(ps, Header(m)) /\ us' = us /\ HeaderSent(x)'
        BY <1>2, <3>7
      <4> HIDE DEF k, l
      <4>2. k + l = 2 * s
        BY <3>4, <3>7
      <4>3. \A n \in Nat : /\ k + (l + 1) = 2 * n + 1 => n = s
                           /\ k + (l + 1) # 2 * n + 2
        BY <3>3, <4>2
      <4>4. UpWire(c)'
        BY <1>0, <2>1, <2>2, <3>1, <3>5, <4>1, <4>3, UpAppends DEF k, l
      <4>5. k + Len(wire'[x]) = 2 * s + 1
        <5>1. Len(wire'[x]) = l + 1
          BY <3>6, <4>1
        <5>2. k + (l + 1) = 2 * s + 1
          BY <3>3, <4>2
        <5> QED
          BY <5>1, <5>2
      <4>6. (k + Len(wire[x]) = 2 * s + (IF HeaderSent(x) THEN 1 ELSE 0))'
        BY <2>1, <4>1, <4>5 DEF k
      <4>7. (Numbered(us, c, s) /\ Numbered(posted[c], c, s + u) /\ typed[c] = s + u + v)'
        BY <1>1, <3>4, <4>1 DEF Numbered
      <4>8. UpQueue(c, s)'
        BY <4>6, <4>7 DEF UpQueue, k
      <4> QED
        BY <4>4, <4>8 DEF Up
    <3>8. CASE HeaderSent(x)
      <4>1. wire'[x] = Append(ps, Body(m)) /\ us' = Tail(us) /\ ~HeaderSent(x)'
        BY <1>2, <3>8
      <4> HIDE DEF k, l
      <4>2. k + l = 2 * s + 1
        BY <3>4, <3>8
      <4>3. \A n \in Nat : /\ k + (l + 1) = 2 * n + 2 => n = s
                           /\ k + (l + 1) # 2 * n + 1
        BY <3>3, <4>2
      <4>4. UpWire(c)'
        BY <1>0, <2>1, <2>2, <3>1, <3>5, <4>1, <4>3, UpAppends DEF k, l
      <4>5. k + Len(wire'[x]) = 2 * (s + 1)
        <5>1. Len(wire'[x]) = l + 1
          BY <3>6, <4>1
        <5>2. k + (l + 1) = 2 * (s + 1)
          BY <3>3, <4>2
        <5> QED
          BY <5>1, <5>2
      <4>6. (k + Len(wire[x]) = 2 * (s + 1) + (IF HeaderSent(x) THEN 1 ELSE 0))'
        BY <2>1, <4>1, <4>5 DEF k
      <4>7. Numbered(us, c, s + 1)'
        <5>1. ASSUME NEW i \in 1..Len(Tail(us)) PROVE Tail(us)[i] = Message(c, s + 1 + i)
          <6>1. i + 1 \in 1..u /\ s + (i + 1) = s + 1 + i
            BY <3>3
          <6>2. us[i + 1] = Message(c, s + (i + 1))
            BY <3>4, <6>1 DEF Numbered
          <6>3. Tail(us)[i] = us[i + 1]
            BY <1>0, <1>2, Tails
          <6> QED
            BY <6>1, <6>2, <6>3
        <5> QED
          BY <4>1, <5>1 DEF Numbered
      <4>8. s + 1 + u' = s + u /\ s + 1 + u' + v = s + u + v
        <5>1. u' = u - 1
          BY <3>3, <4>1
        <5> HIDE DEF u, v
        <5> QED
          BY <3>3, <5>1
      <4>9. (Numbered(posted[c], c, s + 1 + u) /\ typed[c] = s + 1 + u + v)'
        <5>1. posted'[c] = posted[c] /\ typed'[c] = typed[c] /\ v' = v
          BY <1>1
        <5> HIDE DEF u, v
        <5> QED
          BY <3>4, <4>8, <5>1 DEF Numbered
      <4>10. UpQueue(c, s + 1)'
        BY <4>6, <4>7, <4>9 DEF UpQueue, k
      <4> QED
        BY <4>4, <4>10 DEF Up
    <3> QED
      BY <3>7, <3>8
  <2> QED
    BY <2>5, <2>6, <2>7
<1> QED
  BY <1>2, <1>3, <1>4, <1>5, <1>6, <1>7, OneConnection

(* The next piece sent by the session fits. *)
LEMMA DownAppends ==
  ASSUME NEW c \in Clients, NEW p \in Pieces, wire[Session(c)] \in Seq(Pieces),
         wire'[Session(c)] = Append(wire[Session(c)], p), log' = log, since'[c] = since[c],
         NEW r \in Nat, DownWire(c, r),
         \A n \in Nat :
           LET i == Len(wire[Session(c)]) + 1 IN
           /\ r + i = 2 * n + 1 => p = Header(log[since[c] + n])
           /\ r + i = 2 * n + 2 => p = Body(log[since[c] + n])
  PROVE  DownWire(c, r)'
<1> DEFINE ps == wire[Session(c)]
           qs == Append(ps, p)
           l == Len(ps)
<1>1. l \in Nat /\ Len(qs) = l + 1 /\ qs[l + 1] = p /\ \A i \in 1..l : qs[i] = ps[i]
  BY AppendPieces
<1>2. \A i \in 1..l : \A n \in Nat :
        /\ r + i = 2 * n + 1 => ps[i] = Header(log[since[c] + n])
        /\ r + i = 2 * n + 2 => ps[i] = Body(log[since[c] + n])
  BY DEF DownWire
<1>3. \A n \in Nat :
        /\ r + (l + 1) = 2 * n + 1 => p = Header(log[since[c] + n])
        /\ r + (l + 1) = 2 * n + 2 => p = Body(log[since[c] + n])
  BY <1>1
<1>4. wire'[Session(c)] = qs
  OBVIOUS
<1> HIDE DEF ps, qs, l
<1>5. ASSUME NEW i \in 1..(l + 1), NEW n \in Nat
      PROVE  /\ r + i = 2 * n + 1 => qs[i] = Header(log[since[c] + n])
             /\ r + i = 2 * n + 2 => qs[i] = Body(log[since[c] + n])
  <2>1. CASE i = l + 1
    BY <1>1, <1>3, <2>1
  <2>2. CASE i # l + 1
    <3>1. i \in 1..l
      BY <1>1, <2>2
    <3> QED
      BY <1>1, <1>2, <3>1
  <2> QED
    BY <2>1, <2>2
<1> QED
  BY <1>1, <1>4, <1>5 DEF DownWire

(* A session sends the next piece of its first message. *)
LEMMA ChatSessionTransfers ==
  ASSUME ChatInv, NEW c \in Clients, Transfer(Session(c)) PROVE ChatInv'
<1> DEFINE x == Session(c)
           ps == wire[x]
           us == Unsent(x)
           m == us[1]
<1>0. /\ x \in Ends /\ Shapes /\ ps \in Seq(Pieces) /\ us \in Seq(Messages)
      /\ Client(c) \in Ends /\ x # Client(c)
  BY Parts, EndFacts, WriterFacts DEF Shapes
<1>1. UNCHANGED <<conn, cut, typed, posted, queue, reading, participants, recent,
                  log, since, heard>>
  BY DEF Transfer, room
<1>2. /\ us # <<>> /\ Writer(x)' /\ ~Stalled(x) /\ ~Stalled(x)'
      /\ writes' \in [Ends -> Seq(Seq(Pieces))] /\ wire' \in [Ends -> Seq(Pieces)]
      /\ \A y \in Ends : y # x => writes'[y] = writes[y] /\ wire'[y] = wire[y]
      /\ \/ ~HeaderSent(x) /\ HeaderSent(x)' /\ us' = us /\ wire'[x] = Append(ps, Header(m))
         \/ HeaderSent(x) /\ ~HeaderSent(x)' /\ us' = Tail(us) /\ wire'[x] = Append(ps, Body(m))
  BY Parts, WriterTransfers
<1>3. Shapes'
  BY <1>0, <1>1, <1>2 DEF Shapes
<1>4. Only(c)
  <2>1. ASSUME NEW d \in Clients, d # c PROVE UNCHANGED Local(d)
    <3>1. /\ wire'[Client(d)] = wire[Client(d)] /\ wire'[Session(d)] = wire[Session(d)]
          /\ writes'[Client(d)] = writes[Client(d)] /\ writes'[Session(d)] = writes[Session(d)]
      BY <1>2, <2>1, Apart
    <3> QED
      BY <1>1, <3>1 DEF Local
  <2> QED
    BY <1>1, <2>1 DEF Only
<1>5. Writer(Client(c))' /\ Up(c)'
  <2>1. Listened(c)' = Listened(c) /\ Consumed(c)' = Consumed(c) /\ wire'[Client(c)] = wire[Client(c)]
    BY <1>0, <1>1, <1>2, SaidSame DEF Listened, Consumed
  <2>2. Sending(c)' = Sending(c)
    BY <1>1, <2>1 DEF Sending, Open
  <2> QED
    BY <1>0, <1>1, <1>2, <2>1, <2>2, Parts, WriterSame, UpSame
<1>6. conn[c] = "accepted"
  BY <1>2, Parts DEF Untouched, Unsent
<1>7. Untouched(c)' /\ Quiet(c)'
  BY <1>0, <1>1, <1>2, <1>6, Parts DEF Untouched, Quiet
<1>8. Down(c)'
  <2>1. PICK r \in Nat, s \in Nat : /\ DownRead(c, r) /\ DownSent(c, r, s)
                                    /\ DownWire(c, r) /\ DownQueue(c, s)
    BY <1>6, Parts DEF Down
  <2>2. m \in Messages /\ Header(m) \in Pieces /\ Body(m) \in Pieces
    BY <1>0, <1>2, Tails, PieceFacts
  <2>3. /\ since[c] >= 1 /\ DownHeard(c) /\ since[c] \in Nat
    BY <1>0, <1>6, Parts DEF Down, Shapes
  <2>4. DownHeard(c)' /\ (since[c] >= 1)' /\ DownRead(c, r)'
    BY <1>1, <2>1, <2>3 DEF DownHeard, DownRead
  <2> DEFINE l == Len(ps)
             u == Len(us)
             a == since[c]
  <2>5. /\ l \in Nat /\ u \in Nat /\ u >= 1 /\ Len(Tail(us)) = u - 1
        /\ \A k \in 1..Len(Tail(us)) : Tail(us)[k] = us[k + 1]
    BY <1>0, <1>2, Tails
  <2>6. /\ \A k \in 1..u : us[k] = log[a + s + k - 1]
        /\ a + s + u <= Len(log) + 1 /\ (c \in participants => a + s + u = Len(log) + 1)
    BY <2>1 DEF DownQueue
  <2>7. r + l = 2 * s + (IF HeaderSent(x) THEN 1 ELSE 0)
    BY <1>2, <2>1 DEF DownSent
  <2>8. m = log[a + s]
    <3>1. m = log[a + s + 1 - 1] /\ a + s + 1 - 1 = a + s
      BY <2>3, <2>5, <2>6
    <3> QED
      BY <3>1
  <2>9. Len(Append(ps, Header(m))) = l + 1 /\ Len(Append(ps, Body(m))) = l + 1
    BY <1>0, <2>2, AppendPieces
  <2>10. CASE ~HeaderSent(x)
    <3>1. wire'[x] = Append(ps, Header(m)) /\ us' = us /\ HeaderSent(x)'
      BY <1>2, <2>10
    <3> HIDE DEF l
    <3>2. r + l = 2 * s
      BY <2>7, <2>10
    <3>3. \A n \in Nat : /\ r + (l + 1) = 2 * n + 1 => n = s
                         /\ r + (l + 1) # 2 * n + 2
      BY <2>5, <3>2
    <3>4. DownWire(c, r)'
      <4>1. \A n \in Nat : LET i == Len(wire[Session(c)]) + 1 IN
              /\ r + i = 2 * n + 1 => Header(m) = Header(log[since[c] + n])
              /\ r + i = 2 * n + 2 => Header(m) = Body(log[since[c] + n])
        BY <2>8, <3>3 DEF l
      <4>2. wire[Session(c)] \in Seq(Pieces) /\ wire'[Session(c)] = Append(wire[Session(c)], Header(m))
        BY <1>0, <3>1
      <4>3. log' = log /\ since'[c] = since[c]
        BY <1>1
      <4> HIDE DEF x, ps, us, m, l
      <4> QED
        BY <2>1, <2>2, <4>1, <4>2, <4>3, DownAppends
    <3>5. r + Len(wire'[x]) = 2 * s + 1
      <4>1. Len(wire'[x]) = l + 1
        BY <2>9, <3>1
      <4>2. r + (l + 1) = 2 * s + 1
        BY <2>5, <3>2
      <4> QED
        BY <4>1, <4>2
    <3>6. DownSent(c, r, s)'
      BY <3>1, <3>5 DEF DownSent
    <3>7. DownQueue(c, s)'
      BY <1>1, <1>2, <2>1, <3>1 DEF DownQueue
    <3> QED
      BY <2>4, <3>4, <3>6, <3>7 DEF Down
  <2>11. CASE HeaderSent(x)
    <3>1. wire'[x] = Append(ps, Body(m)) /\ us' = Tail(us) /\ ~HeaderSent(x)'
      BY <1>2, <2>11
    <3> HIDE DEF l
    <3>2. r + l = 2 * s + 1
      BY <2>7, <2>11
    <3>3. \A n \in Nat : /\ r + (l + 1) = 2 * n + 2 => n = s
                         /\ r + (l + 1) # 2 * n + 1
      BY <2>5, <3>2
    <3>4. DownWire(c, r)'
      <4>1. \A n \in Nat : LET i == Len(wire[Session(c)]) + 1 IN
              /\ r + i = 2 * n + 1 => Body(m) = Header(log[since[c] + n])
              /\ r + i = 2 * n + 2 => Body(m) = Body(log[since[c] + n])
        BY <2>8, <3>3 DEF l
      <4>2. wire[Session(c)] \in Seq(Pieces) /\ wire'[Session(c)] = Append(wire[Session(c)], Body(m))
        BY <1>0, <3>1
      <4>3. log' = log /\ since'[c] = since[c]
        BY <1>1
      <4> HIDE DEF x, ps, us, m, l
      <4> QED
        BY <2>1, <2>2, <4>1, <4>2, <4>3, DownAppends
    <3>5. r + Len(wire'[x]) = 2 * (s + 1)
      <4>1. Len(wire'[x]) = l + 1
        BY <2>9, <3>1
      <4>2. r + (l + 1) = 2 * (s + 1)
        BY <2>5, <3>2
      <4> QED
        BY <4>1, <4>2
    <3>6. DownSent(c, r, s + 1)'
      BY <3>1, <3>5 DEF DownSent
    <3>7. a + (s + 1) + u' = a + s + u
      <4>1. u' = u - 1
        BY <2>5, <3>1
      <4> HIDE DEF u, a
      <4>2. a \in Nat
        BY <2>3 DEF a
      <4> QED
        BY <2>5, <4>1, <4>2
    <3>8. ASSUME NEW k \in 1..Len(Tail(us)) PROVE Tail(us)[k] = log[a + (s + 1) + k - 1]
      <4>1. k + 1 \in 1..u
        BY <2>5
      <4> HIDE DEF a
      <4>2. a + s + (k + 1) - 1 = a + (s + 1) + k - 1
        <5>1. a \in Nat /\ k \in Nat
          BY <2>3, <2>5, <4>1 DEF a
        <5> QED
          BY <5>1
      <4> USE DEF a
      <4>3. us[k + 1] = log[a + s + (k + 1) - 1]
        BY <2>6, <4>1
      <4> QED
        BY <2>5, <4>2, <4>3
    <3>9. DownQueue(c, s + 1)'
      <4>1. (\A k \in 1..Len(us) : us[k] = log[a + (s + 1) + k - 1])'
        BY <1>1, <3>1, <3>8
      <4>2. (a + (s + 1) + u <= Len(log) + 1)'
        BY <1>1, <2>6, <3>7
      <4>3. (c \in participants => a + (s + 1) + u = Len(log) + 1 /\ ~Stalled(x))'
        BY <1>1, <1>2, <2>6, <3>7
      <4> QED
        BY <4>1, <4>2, <4>3 DEF DownQueue
    <3> QED
      BY <2>4, <3>4, <3>6, <3>9 DEF Down
  <2> QED
    BY <2>10, <2>11
<1> QED
  BY <1>2, <1>3, <1>4, <1>5, <1>7, <1>8, OneConnection
------------------------------------------------------------------------------
(* The handlers of a write. *)
LEMMA ChatHandleWrite ==
  ASSUME ChatInv, NEW x \in Ends, HandleWrite(x) PROVE ChatInv'
<1>0. PICK c \in Clients : x = Client(c) \/ x = Session(c)
  BY EndFacts
<1>1. Shapes /\ Client(c) \in Ends /\ Session(c) \in Ends /\ Client(c) # Session(c) /\ Writer(x)
  BY Parts, EndFacts DEF ChatInv
<1>2. UNCHANGED <<conn, cut, typed, posted, wire, reading, participants, recent, log, since, heard>>
  BY DEF HandleWrite, room
<1>3. /\ Writer(x)' /\ ~HeaderSent(x) /\ ~HeaderSent(x)' /\ Unsent(x)' = Unsent(x)
      /\ ~Stalled(x) /\ ~Stalled(x)' /\ writes[x] # <<>>
      /\ queue' \in [Ends -> Seq(Messages)] /\ writes' \in [Ends -> Seq(Seq(Pieces))]
      /\ \A y \in Ends : y # x => writes'[y] = writes[y] /\ queue'[y] = queue[y]
  <2>1. writes[x] # <<>>
    BY DEF HandleWrite
  <2> QED
    BY <1>1, <2>1, WriterHandles
<1>4. Shapes'
  BY <1>1, <1>2, <1>3 DEF Shapes
<1>5. Only(c)
  <2>1. ASSUME NEW d \in Clients, d # c PROVE UNCHANGED Local(d)
    <3>1. /\ queue'[Client(d)] = queue[Client(d)] /\ queue'[Session(d)] = queue[Session(d)]
          /\ writes'[Client(d)] = writes[Client(d)] /\ writes'[Session(d)] = writes[Session(d)]
      BY <1>0, <1>3, <2>1, Apart
    <3> QED
      BY <1>2, <3>1 DEF Local
  <2> QED
    BY <1>2, <2>1 DEF Only
<1>6. /\ Writer(Client(c))' /\ (HeaderSent(Client(c))' <=> HeaderSent(Client(c)))
      /\ Unsent(Client(c))' = Unsent(Client(c))
  <2>1. CASE x = Client(c)
    BY <1>3, <2>1
  <2>2. CASE x # Client(c)
    <3>1. queue'[Client(c)] = queue[Client(c)] /\ writes'[Client(c)] = writes[Client(c)]
      BY <1>1, <1>3, <2>2
    <3> QED
      BY <1>1, <3>1, Parts, WriterSame
  <2> QED
    BY <2>1, <2>2
<1>7. /\ Writer(Session(c))' /\ (HeaderSent(Session(c))' <=> HeaderSent(Session(c)))
      /\ Unsent(Session(c))' = Unsent(Session(c)) /\ (Stalled(Session(c))' <=> Stalled(Session(c)))
  <2>1. CASE x = Session(c)
    BY <1>3, <2>1
  <2>2. CASE x # Session(c)
    <3>1. queue'[Session(c)] = queue[Session(c)] /\ writes'[Session(c)] = writes[Session(c)]
      BY <1>1, <1>3, <2>2
    <3> QED
      BY <1>1, <3>1, Parts, WriterSame
  <2> QED
    BY <2>1, <2>2
<1>8. Untouched(c)' /\ Quiet(c)'
  <2>1. Quiet(c)'
    BY <1>2, Parts DEF Quiet
  <2>2. CASE conn[c] = "accepted"
    BY <1>2, <2>1, <2>2 DEF Untouched
  <2>3. CASE conn[c] # "accepted"
    <3>1. x # Session(c)
      BY <1>3, <2>3, Parts DEF Untouched
    <3>2. queue'[Session(c)] = queue[Session(c)] /\ writes'[Session(c)] = writes[Session(c)]
      BY <1>1, <1>3, <3>1
    <3> QED
      BY <1>2, <2>1, <3>2, Parts DEF Untouched
  <2> QED
    BY <2>2, <2>3
<1>9. Up(c)'
  <2>1. Listened(c)' = Listened(c) /\ Consumed(c)' = Consumed(c) /\ Sending(c)' = Sending(c)
    BY <1>2, SaidSame DEF Listened, Sending, Consumed, Open
  <2> QED
    BY <1>2, <1>6, <2>1, Parts, UpSame
<1>10. Down(c)'
  BY <1>2, <1>7, Parts, DownSame
<1> QED
  BY <1>4, <1>5, <1>6, <1>7, <1>8, <1>9, <1>10, OneConnection

(* A client whose write failed closes. *)
LEMMA ChatClientWriteError ==
  ASSUME ChatInv, NEW c \in Clients, HandleWriteError(Client(c)) PROVE ChatInv'
<1>1. /\ Close(c)
      /\ UNCHANGED <<conn, typed, posted, queue, wire, participants, recent, log, since, heard>>
  BY EndFacts DEF HandleWriteError, FailWrite, room
<1>2. typed \in [Clients -> Nat] /\ \A d \in Clients : typed[d] <= Lines[d]
  BY Parts DEF Shapes
<1> QED
  BY <1>1, <1>2, ChatCloses

(* A session whose write failed leaves the room with a queue that stays. *)
LEMMA ChatSessionWriteError ==
  ASSUME ChatInv, NEW c \in Clients, HandleWriteError(Session(c)) PROVE ChatInv'
<1> DEFINE x == Session(c)
<1>0. /\ x \in Ends /\ Shapes /\ Client(c) \in Ends /\ x # Client(c) /\ Writer(x)
      /\ writes \in [Ends -> Seq(Seq(Pieces))]
  BY Parts, EndFacts DEF Shapes
<1>1. /\ \E i \in DOMAIN writes[x] : ~Done(writes[x][i])
      /\ writes' = [writes EXCEPT ![x] = <<>>] /\ participants' = participants \ {c}
      /\ UNCHANGED <<conn, cut, typed, posted, queue, wire, reading, recent, log, since, heard>>
  BY EndFacts DEF HandleWriteError, FailWrite, Leave, room
<1>2. /\ writes'[x] = <<>> /\ \A y \in Ends : y # x => writes'[y] = writes[y]
  BY <1>0, <1>1
<1>3. /\ Writer(x)' /\ Unsent(x)' = Unsent(x) /\ Unsent(x) # <<>>
      /\ Stalled(x)' /\ ~Stalled(x) /\ ~HeaderSent(x)'
  BY <1>0, <1>1, <1>2, WriterFails
<1>4. Shapes'
  <2>1. <<>> \in Seq(Seq(Pieces))
    OBVIOUS
  <2>2. writes' \in [Ends -> Seq(Seq(Pieces))]
    BY <1>0, <1>1, <2>1
  <2> QED
    BY <1>0, <1>1, <2>2 DEF Shapes
<1>5. Only(c)
  <2>1. ASSUME NEW d \in Clients, d # c PROVE UNCHANGED Local(d)
    <3>1. writes'[Client(d)] = writes[Client(d)] /\ writes'[Session(d)] = writes[Session(d)]
      BY <1>2, <2>1, Apart
    <3> QED
      BY <1>1, <3>1 DEF Local
  <2> QED
    BY <1>1, <2>1 DEF Only
<1>6. conn[c] = "accepted"
  BY <1>3, Parts DEF Untouched, Unsent
<1>7. Untouched(c)' /\ Quiet(c)'
  BY <1>1, <1>6, Parts DEF Untouched, Quiet
<1>8. Writer(Client(c))' /\ Up(c)'
  <2>1. Listened(c)' = Listened(c) /\ Consumed(c)' = Consumed(c) /\ Sending(c)' = Sending(c)
    BY <1>1, SaidSame DEF Listened, Sending, Consumed, Open
  <2> QED
    BY <1>0, <1>1, <1>2, <2>1, Parts, WriterSame, UpSame
<1>9. Down(c)'
  <2>1. PICK r \in Nat, s \in Nat : /\ DownRead(c, r) /\ DownSent(c, r, s)
                                    /\ DownWire(c, r) /\ DownQueue(c, s)
    BY <1>6, Parts DEF Down
  <2>2. since[c] >= 1 /\ DownHeard(c)
    BY <1>6, Parts DEF Down
  <2>3. DownHeard(c)' /\ (since[c] >= 1)' /\ DownRead(c, r)' /\ DownWire(c, r)'
    BY <1>1, <2>1, <2>2 DEF DownHeard, DownRead, DownWire
  <2>4. DownSent(c, r, s)'
    BY <1>1, <1>3, <2>1 DEF DownSent
  <2>5. DownQueue(c, s)'
    BY <1>1, <1>3, <2>1 DEF DownQueue
  <2> QED
    BY <2>3, <2>4, <2>5 DEF Down
<1> QED
  BY <1>3, <1>4, <1>5, <1>7, <1>8, <1>9, OneConnection
------------------------------------------------------------------------------
(* The handlers of a read. *)
LEMMA ChatSessionLeaves ==
  ASSUME ChatInv, NEW c \in Clients, reading[Session(c)] # "off",
         reading' = [reading EXCEPT ![Session(c)] = "off"], participants' = participants \ {c},
         wire' \in [Ends -> Seq(Pieces)], \A y \in Ends : y # Client(c) => wire'[y] = wire[y],
         UNCHANGED <<conn, cut, typed, posted, queue, writes, recent, log, since, heard>>
  PROVE  ChatInv'
<1> DEFINE x == Session(c)
<1>0. /\ x \in Ends /\ Shapes /\ Client(c) \in Ends /\ x # Client(c)
      /\ reading \in [Ends -> {"off", "header", "body", "output"}]
  BY Parts, EndFacts DEF Shapes
<1>1. /\ reading'[x] = "off" /\ \A y \in Ends : y # x => reading'[y] = reading[y]
  BY <1>0
<1>2. Shapes'
  <2>1. /\ reading' \in [Ends -> {"off", "header", "body", "output"}]
        /\ \A y \in Ends : reading'[y] = "output" => \E d \in Posix : y = Client(d)
    BY <1>0 DEF Shapes
  <2> QED
    BY <1>0, <2>1 DEF Shapes
<1>3. Only(c)
  <2>1. ASSUME NEW d \in Clients, d # c PROVE UNCHANGED Local(d)
    <3>1. /\ wire'[Client(d)] = wire[Client(d)] /\ wire'[Session(d)] = wire[Session(d)]
          /\ reading'[Client(d)] = reading[Client(d)] /\ reading'[Session(d)] = reading[Session(d)]
      BY <1>1, <2>1, Apart
    <3> QED
      BY <3>1 DEF Local
  <2> QED
    BY <2>1 DEF Only
<1>4. conn[c] = "accepted"
  BY Parts DEF Untouched
<1>5. Untouched(c)' /\ Quiet(c)'
  BY <1>4, Parts DEF Untouched, Quiet
<1>6. Up(c)'
  BY <1>1, <1>4 DEF Up, Listened
<1>7. Writer(Client(c))' /\ Writer(x)' /\ Down(c)'
  BY <1>0, <1>1, Parts, WriterSame, DownSame
<1> QED
  BY <1>2, <1>3, <1>5, <1>6, <1>7, OneConnection

(* A read that failed: the client closes, the session leaves the room. *)
LEMMA ChatReadError == ASSUME ChatInv, NEW x \in Ends, HandleReadError(x) PROVE ChatInv'
<1>0. PICK c \in Clients : x = Client(c) \/ x = Session(c)
  BY EndFacts
<1>1. typed \in [Clients -> Nat] /\ (\A d \in Clients : typed[d] <= Lines[d])
      /\ wire \in [Ends -> Seq(Pieces)]
  BY <1>0, Parts DEF Shapes
<1>2. CASE x = Client(c)
  <2>1. /\ Close(c)
        /\ UNCHANGED <<conn, typed, posted, queue, wire, participants, recent, log, since, heard>>
    BY <1>2, EndFacts DEF HandleReadError, FailRead, room
  <2> QED
    BY <1>1, <2>1, ChatCloses
<1>3. CASE x = Session(c)
  <2>1. /\ reading[Session(c)] # "off" /\ reading' = [reading EXCEPT ![Session(c)] = "off"]
        /\ participants' = participants \ {c}
        /\ UNCHANGED <<conn, cut, typed, posted, queue, writes, wire, recent, log, since, heard>>
    BY <1>3, EndFacts DEF HandleReadError, FailRead, Leave, room
  <2> QED
    BY <1>1, <2>1, ChatSessionLeaves
<1> QED
  BY <1>0, <1>2, <1>3

(* posix_chat_client reads on when it has printed. *)
LEMMA ChatWriteOutput == ASSUME ChatInv, NEW c \in Clients, HandleWriteOutput(c) PROVE ChatInv'
<1> DEFINE x == Client(c)
<1>0. /\ x \in Ends /\ Shapes /\ Session(c) \in Ends /\ x # Session(c)
      /\ reading \in [Ends -> {"off", "header", "body", "output"}]
  BY Parts, EndFacts DEF Shapes
<1>1. /\ reading[x] = "output" /\ reading' = [reading EXCEPT ![x] = "header"]
      /\ UNCHANGED <<conn, cut, typed, posted, queue, writes, wire, participants, recent,
                     log, since, heard>>
  BY DEF HandleWriteOutput, room
<1>2. /\ reading'[x] = "header" /\ \A y \in Ends : y # x => reading'[y] = reading[y]
  BY <1>0, <1>1
<1>3. Shapes'
  <2>1. /\ reading' \in [Ends -> {"off", "header", "body", "output"}]
        /\ \A y \in Ends : reading'[y] = "output" => \E d \in Posix : y = Client(d)
    BY <1>0, <1>1 DEF Shapes
  <2> QED
    BY <1>0, <1>1, <2>1 DEF Shapes
<1>4. Only(c)
  <2>1. ASSUME NEW d \in Clients, d # c PROVE UNCHANGED Local(d)
    <3>1. reading'[Client(d)] = reading[Client(d)] /\ reading'[Session(d)] = reading[Session(d)]
      BY <1>2, <2>1, Apart
    <3> QED
      BY <1>1, <3>1 DEF Local
  <2> QED
    BY <1>1, <2>1 DEF Only
<1>5. Untouched(c)' /\ Quiet(c)'
  BY <1>0, <1>1, <1>2, Parts DEF Untouched, Quiet
<1>6. Writer(x)' /\ Writer(Session(c))' /\ Down(c)'
  BY <1>0, <1>1, <1>2, Parts, WriterSame, DownSame
<1>7. Up(c)'
  <2>1. Listened(c)' = Listened(c) /\ Consumed(c)' = Consumed(c) /\ (Sending(c)' => Sending(c))
    BY <1>0, <1>1, <1>2, SaidSame DEF Listened, Sending, Consumed, Open
  <2> QED
    BY <1>1, <2>1, Parts, UpSame, WriterSame
<1> QED
  BY <1>3, <1>4, <1>5, <1>6, <1>7, OneConnection

(* A piece is taken from those on the wire. *)
LEMMA TailPieces ==
  ASSUME NEW ps \in Seq(Pieces), ps # <<>>
  PROVE  /\ Tail(ps) \in Seq(Pieces) /\ Len(ps) \in Nat /\ Len(ps) >= 1
         /\ Len(Tail(ps)) = Len(ps) - 1 /\ Head(ps) = ps[1]
         /\ \A i \in 1..Len(Tail(ps)) : Tail(ps)[i] = ps[i + 1] /\ i + 1 \in 1..Len(ps)
         /\ Bad \in Range(Tail(ps)) => Bad \in Range(ps)
         /\ ps[1] # Bad =>
              /\ Bad \in Range(ps) => Bad \in Range(Tail(ps))
              /\ \A i \in 1..Len(Tail(ps)) : GoodBefore(Tail(ps), i) => GoodBefore(ps, i + 1)
<1> DEFINE qs == Tail(ps)
           l == Len(ps)
<1>1. /\ qs \in Seq(Pieces) /\ l \in Nat /\ l >= 1 /\ Len(qs) = l - 1 /\ Head(ps) = ps[1]
      /\ \A i \in 1..(l - 1) : qs[i] = ps[i + 1]
  OBVIOUS
<1>2. DOMAIN ps = 1..l /\ DOMAIN qs = 1..(l - 1)
  BY <1>1
<1> HIDE DEF qs, l
<1>3. ASSUME NEW i \in 1..(l - 1) PROVE qs[i] = ps[i + 1] /\ i + 1 \in 1..l
  BY <1>1
<1>4. Bad \in Range(qs) => Bad \in Range(ps)
  BY <1>2, <1>3 DEF Range
<1>5. ASSUME ps[1] # Bad, Bad \in Range(ps) PROVE Bad \in Range(qs)
  <2>1. PICK i \in 1..l : ps[i] = Bad
    BY <1>2, <1>5 DEF Range
  <2>2. i - 1 \in 1..(l - 1) /\ (i - 1) + 1 = i
    BY <1>1, <1>5, <2>1
  <2>3. qs[i - 1] = Bad
    BY <1>3, <2>1, <2>2
  <2> QED
    BY <1>2, <2>2, <2>3 DEF Range
<1>6. ASSUME ps[1] # Bad, NEW i \in 1..(l - 1), GoodBefore(qs, i) PROVE GoodBefore(ps, i + 1)
  <2>1. ASSUME NEW j \in 1..((i + 1) - 1) PROVE ps[j] # Bad
    <3>1. CASE j = 1
      BY <1>6, <3>1
    <3>2. CASE j # 1
      <4>1. j - 1 \in 1..(i - 1) /\ j - 1 \in 1..(l - 1) /\ (j - 1) + 1 = j
        BY <1>1, <3>2
      <4>2. qs[j - 1] # Bad
        BY <1>6, <4>1 DEF GoodBefore
      <4> QED
        BY <1>3, <4>1, <4>2
    <3> QED
      BY <3>1, <3>2
  <2> QED
    BY <2>1 DEF GoodBefore
<1> QED
  BY <1>1, <1>3, <1>4, <1>5, <1>6 DEF qs, l

(* The session takes a good piece. *)
LEMMA UpConsumes ==
  ASSUME Shapes, NEW c \in Clients, wire[Client(c)] \in Seq(Pieces), wire[Client(c)] # <<>>,
         wire'[Client(c)] = Tail(wire[Client(c)]), wire[Client(c)][1] # Bad,
         Listened(c), Up(c), Consumed(c) \in Nat, Consumed(c)' = Consumed(c) + 1,
         UNCHANGED <<conn, cut, typed, posted>>, reading'[Client(c)] = reading[Client(c)],
         HeaderSent(Client(c))' <=> HeaderSent(Client(c)),
         Unsent(Client(c))' = Unsent(Client(c))
  PROVE  Up(c)'
<1> DEFINE ps == wire[Client(c)]
           qs == Tail(ps)
           l == Len(ps)
           k == Consumed(c)
<1>1. /\ l \in Nat /\ l >= 1 /\ Len(qs) = l - 1
      /\ \A i \in 1..Len(qs) : qs[i] = ps[i + 1] /\ i + 1 \in 1..l
      /\ Bad \in Range(qs) <=> Bad \in Range(ps)
      /\ \A i \in 1..Len(qs) : GoodBefore(qs, i) => GoodBefore(ps, i + 1)
  BY TailPieces
<1>2. \A i \in 1..l : \A n \in Nat : GoodBefore(ps, i) =>
        /\ k + i = 2 * n + 1 => ps[i] \in {Header(Message(c, n + 1)), Bad}
        /\ k + i = 2 * n + 2 => ps[i] = Body(Message(c, n + 1))
  BY DEF Up, UpWire
<1>3. wire'[Client(c)] = qs /\ k' = k + 1 /\ k \in Nat
  OBVIOUS
<1>4. Sending(c)' <=> Sending(c)
  BY <1>1, <1>3 DEF Sending, Open
<1>5. ASSUME Sending(c) PROVE \E s \in Nat : UpQueue(c, s)'
  <2>1. PICK s \in Nat : UpQueue(c, s)
    BY <1>5 DEF Up
  <2>2. k + l = 2 * s + (IF HeaderSent(Client(c)) THEN 1 ELSE 0)
    BY <2>1 DEF UpQueue
  <2>3. k' + Len(wire'[Client(c)]) = k + l
    <3> DEFINE e == Len(qs)
    <3>1. e = l - 1
      BY <1>1
    <3> HIDE DEF k, l, e
    <3>2. (k + 1) + e = k + l
      BY <1>1, <1>3, <3>1
    <3> QED
      BY <1>3, <3>2 DEF e
  <2>4. (k + Len(wire[Client(c)]) = 2 * s + (IF HeaderSent(Client(c)) THEN 1 ELSE 0))'
    BY <2>2, <2>3
  <2>5. UpQueue(c, s)'
    BY <2>1, <2>4 DEF UpQueue
  <2> QED
    BY <2>5
<1> HIDE DEF ps, qs, l, k
<1>6. ASSUME NEW i \in 1..Len(qs), NEW n \in Nat, GoodBefore(qs, i)
      PROVE  /\ (k + 1) + i = 2 * n + 1 => qs[i] \in {Header(Message(c, n + 1)), Bad}
             /\ (k + 1) + i = 2 * n + 2 => qs[i] = Body(Message(c, n + 1))
  <2>1. GoodBefore(ps, i + 1) /\ qs[i] = ps[i + 1] /\ i + 1 \in 1..l
    BY <1>1, <1>6
  <2>2. k + (i + 1) = (k + 1) + i
    BY <1>1, <1>3
  <2> QED
    BY <1>2, <2>1, <2>2
<1>7. UpWire(c)'
  BY ZenonT(60), <1>3, <1>6 DEF UpWire, k
<1> QED
  BY <1>4, <1>5, <1>7 DEF Up

(* The session takes a header that decodes, or leaves the room. *)
LEMMA ChatSessionReadHeader ==
  ASSUME ChatInv, NEW c \in Clients, HandleReadHeader(Session(c)) PROVE ChatInv'
<1> DEFINE x == Session(c)
           ps == wire[Client(c)]
<1>0. /\ x \in Ends /\ Shapes /\ Client(c) \in Ends /\ x # Client(c) /\ ps \in Seq(Pieces)
      /\ wire \in [Ends -> Seq(Pieces)]
      /\ reading \in [Ends -> {"off", "header", "body", "output"}]
  BY Parts, EndFacts DEF Shapes
<1>1. /\ reading[x] = "header" /\ ps # <<>> /\ wire' = [wire EXCEPT ![Client(c)] = Tail(@)]
      /\ IF Decodes(Head(ps))
         THEN reading' = [reading EXCEPT ![x] = "body"] /\ UNCHANGED <<cut, writes, room>>
         ELSE FailRead(x)
      /\ UNCHANGED <<conn, typed, posted, queue, heard>>
  BY EndFacts DEF HandleReadHeader
<1>2. Tail(ps) \in Seq(Pieces) /\ Head(ps) = ps[1]
  BY <1>0, <1>1, TailPieces
<1>3. /\ wire' \in [Ends -> Seq(Pieces)] /\ wire'[Client(c)] = Tail(ps)
      /\ \A y \in Ends : y # Client(c) => wire'[y] = wire[y]
  BY <1>0, <1>1, <1>2
<1>4. CASE ~Decodes(Head(ps))
  <2>1. /\ reading' = [reading EXCEPT ![x] = "off"] /\ participants' = participants \ {c}
        /\ UNCHANGED <<cut, writes, recent, log, since>>
    BY <1>1, <1>4, EndFacts DEF FailRead, Leave
  <2> QED
    BY <1>1, <1>3, <2>1, ChatSessionLeaves
<1>5. CASE Decodes(Head(ps))
  <2>1. /\ reading' = [reading EXCEPT ![x] = "body"]
        /\ UNCHANGED <<conn, cut, typed, posted, queue, writes, participants, recent, log, since, heard>>
    BY <1>1, <1>5 DEF room
  <2>2. /\ reading'[x] = "body" /\ \A y \in Ends : y # x => reading'[y] = reading[y]
    BY <1>0, <2>1
  <2>3. Shapes'
    <3>1. /\ reading' \in [Ends -> {"off", "header", "body", "output"}]
          /\ \A y \in Ends : reading'[y] = "output" => \E d \in Posix : y = Client(d)
      BY <1>0, <2>1 DEF Shapes
    <3> QED
      BY <1>0, <1>3, <2>1, <3>1 DEF Shapes
  <2>4. Only(c)
    <3>1. ASSUME NEW d \in Clients, d # c PROVE UNCHANGED Local(d)
      <4>1. /\ wire'[Client(d)] = wire[Client(d)] /\ wire'[Session(d)] = wire[Session(d)]
            /\ reading'[Client(d)] = reading[Client(d)] /\ reading'[Session(d)] = reading[Session(d)]
        BY <1>3, <2>2, <3>1, Apart
      <4> QED
        BY <2>1, <4>1 DEF Local
    <3> QED
      BY <2>1, <3>1 DEF Only
  <2>5. conn[c] = "accepted" /\ Listened(c)
    BY <1>1, Parts DEF Untouched, Listened
  <2>6. Untouched(c)' /\ Quiet(c)'
    BY <2>1, <2>5, Parts DEF Untouched, Quiet
  <2>7. Writer(Client(c))' /\ Writer(x)' /\ Down(c)'
    BY <1>0, <1>3, <2>1, <2>2, Parts, WriterSame, DownSame
  <2>8. Up(c)'
    <3>1. Consumed(c) \in Nat /\ Consumed(c)' = Consumed(c) + 1
      <4>1. Room!SaidBy(c) \in Nat /\ Room!SaidBy(c)' = Room!SaidBy(c)
        BY <1>0, <2>1, SaidIsNat, SaidSame
      <4> QED
        BY <1>1, <2>2, <4>1 DEF Consumed
    <3>2. ps[1] # Bad
      BY <1>2, <1>5 DEF Decodes, Bad
    <3> QED
      BY <1>0, <1>1, <1>3, <2>1, <2>2, <2>5, <3>1, <3>2, Parts, WriterSame, UpConsumes
  <2> QED
    BY <2>3, <2>4, <2>6, <2>7, <2>8, OneConnection
<1> QED
  BY <1>4, <1>5

(* The client takes a piece. *)
LEMMA DownConsumes ==
  ASSUME NEW c \in Clients, wire[Session(c)] \in Seq(Pieces), wire[Session(c)] # <<>>,
         wire'[Session(c)] = Tail(wire[Session(c)]), log' = log, since'[c] = since[c],
         HeaderSent(Session(c))' <=> HeaderSent(Session(c)),
         Stalled(Session(c))' <=> Stalled(Session(c)),
         NEW r \in Nat, NEW s \in Nat, DownWire(c, r), DownSent(c, r, s)
  PROVE  DownWire(c, r + 1)' /\ DownSent(c, r + 1, s)'
<1> DEFINE ps == wire[Session(c)]
           qs == Tail(ps)
           l == Len(ps)
           e == Len(qs)
<1>1. /\ l \in Nat /\ l >= 1 /\ e = l - 1
      /\ \A i \in 1..e : qs[i] = ps[i + 1] /\ i + 1 \in 1..l
  BY TailPieces
<1>2. \A i \in 1..l : \A n \in Nat :
        /\ r + i = 2 * n + 1 => ps[i] = Header(log[since[c] + n])
        /\ r + i = 2 * n + 2 => ps[i] = Body(log[since[c] + n])
  BY DEF DownWire
<1>3. wire'[Session(c)] = qs
  OBVIOUS
<1>4. DownSent(c, r + 1, s)'
  <2>1. \/ r + l = 2 * s + (IF HeaderSent(Session(c)) THEN 1 ELSE 0)
        \/ Stalled(Session(c)) /\ r + l = 2 * s + 1
    BY DEF DownSent
  <2>2. r + 1 + e = r + l
    <3> HIDE DEF l, e
    <3> QED
      BY <1>1
  <2>3. r + 1 + Len(wire'[Session(c)]) = r + l
    BY <1>3, <2>2
  <2> QED
    BY <2>1, <2>3 DEF DownSent
<1> HIDE DEF ps, qs, l
<1>5. ASSUME NEW i \in 1..e, NEW n \in Nat
      PROVE  /\ r + 1 + i = 2 * n + 1 => qs[i] = Header(log[since[c] + n])
             /\ r + 1 + i = 2 * n + 2 => qs[i] = Body(log[since[c] + n])
  <2> HIDE DEF e
  <2>1. qs[i] = ps[i + 1] /\ i + 1 \in 1..l
    BY <1>1
  <2>2. r + (i + 1) = r + 1 + i
    BY <1>1
  <2> QED
    BY <1>2, <2>1, <2>2
<1>6. DownWire(c, r + 1)'
  <2>1. Len(wire'[Session(c)]) = e
    BY <1>3
  <2> HIDE DEF e
  <2>2. \A i \in 1..Len(wire'[Session(c)]) : \A n \in Nat :
          /\ r + 1 + i = 2 * n + 1 => wire'[Session(c)][i] = Header(log'[since'[c] + n])
          /\ r + 1 + i = 2 * n + 2 => wire'[Session(c)][i] = Body(log'[since'[c] + n])
    <3>1. log' = log /\ since'[c] = since[c]
      OBVIOUS
    <3> SUFFICES ASSUME NEW i \in 1..Len(wire'[Session(c)]), NEW n \in Nat
                 PROVE  /\ r + 1 + i = 2 * n + 1 => wire'[Session(c)][i] = Header(log'[since'[c] + n])
                        /\ r + 1 + i = 2 * n + 2 => wire'[Session(c)][i] = Body(log'[since'[c] + n])
      OBVIOUS
    <3>2. i \in 1..e
      BY <2>1
    <3>3. /\ r + 1 + i = 2 * n + 1 => qs[i] = Header(log[since[c] + n])
          /\ r + 1 + i = 2 * n + 2 => qs[i] = Body(log[since[c] + n])
      BY <1>5, <3>2, Zenon
    <3> QED
      BY <1>3, <3>1, <3>3, Zenon
  <2> QED
    BY <2>2, Zenon DEF DownWire
<1> QED
  BY <1>4, <1>6

(* The first piece on the wire is the one the client waits for. *)
LEMMA DownHead ==
  ASSUME ChatInv, NEW c \in Clients, reading[Client(c)] \in {"header", "body"},
         wire[Session(c)] # <<>>
  PROVE  /\ conn[c] = "accepted" /\ since[c] >= 1 /\ since[c] \in Nat
         /\ since[c] + Len(heard[c]) \in 1..Len(log) /\ Len(heard[c]) \in Nat
         /\ Head(wire[Session(c)]) = IF reading[Client(c)] = "header"
                                     THEN Header(log[since[c] + Len(heard[c])])
                                     ELSE Body(log[since[c] + Len(heard[c])])
<1> DEFINE x == Session(c)
           ps == wire[x]
           l == Len(ps)
           h == Len(heard[c])
           u == Len(Unsent(x))
           a == since[c]
<1>1. /\ Shapes /\ x \in Ends /\ Writer(x) /\ ps \in Seq(Pieces)
      /\ a \in Nat /\ h \in Nat /\ Len(log) \in Nat
  <2>1. Shapes /\ x \in Ends /\ Writer(x)
    BY Parts
  <2>2. /\ ps \in Seq(Pieces) /\ a \in Nat /\ heard[c] \in Seq(Messages)
        /\ log \in Seq(Messages)
    BY <2>1 DEF Shapes
  <2> QED
    BY <2>1, <2>2
<1>2. conn[c] = "accepted"
  BY Parts DEF Untouched
<1>3. a >= 1
  BY <1>2, Parts DEF Down
<1>4. PICK r \in Nat, s \in Nat : /\ DownRead(c, r) /\ DownSent(c, r, s)
                                  /\ DownWire(c, r) /\ DownQueue(c, s)
  BY <1>2, Parts DEF Down
<1>5. l \in Nat /\ l >= 1 /\ Head(ps) = ps[1]
  BY <1>1, TailPieces
<1>6. u \in Nat /\ (HeaderSent(x) => u >= 1) /\ (Stalled(x) => u >= 1)
  <2>1. Unsent(x) \in Seq(Messages) /\ (HeaderSent(x) => Unsent(x) # <<>>)
    BY <1>1, WriterFacts
  <2>2. Stalled(x) => Unsent(x) # <<>>
    BY DEF Stalled, Unsent
  <2>3. Unsent(x) # <<>> => Len(Unsent(x)) >= 1
    BY <2>1
  <2> QED
    BY <2>1, <2>2, <2>3
<1>7. a + s + u <= Len(log) + 1
  BY <1>4 DEF DownQueue
<1>8. \/ r + l = 2 * s
      \/ r + l = 2 * s + 1 /\ u >= 1
  BY <1>4, <1>6 DEF DownSent
<1>9. r = IF reading[Client(c)] = "header" THEN 2 * h ELSE 2 * h + 1
  BY <1>4 DEF DownRead
<1>10. /\ r + 1 = 2 * h + 1 => ps[1] = Header(log[a + h])
       /\ r + 1 = 2 * h + 2 => ps[1] = Body(log[a + h])
  BY <1>1, <1>4, <1>5 DEF DownWire
<1>11. a + h \in 1..Len(log)
  <2> DEFINE n == Len(log)
  <2> HIDE DEF l, h, u, a, n
  <2>1. a + s + u <= n + 1 /\ n \in Nat
    BY <1>1, <1>7 DEF n
  <2>2. r \in {2 * h, 2 * h + 1}
    BY <1>9
  <2>3. a + h \in 1..n
    BY <1>1, <1>3, <1>5, <1>6, <1>8, <2>1, <2>2
  <2> QED
    BY <2>3 DEF n
<1>12. Head(ps) = IF reading[Client(c)] = "header" THEN Header(log[a + h]) ELSE Body(log[a + h])
  <2> HIDE DEF h, ps, a
  <2> QED
    BY <1>1, <1>5, <1>9, <1>10
<1> QED
  BY <1>1, <1>2, <1>3, <1>11, <1>12

(* What a client finds where it expects a header always decodes. *)
LEMMA ChatClientReadHeader ==
  ASSUME ChatInv, NEW c \in Clients, HandleReadHeader(Client(c)) PROVE ChatInv'
<1> DEFINE x == Client(c)
           ps == wire[Session(c)]
<1>0. /\ x \in Ends /\ Shapes /\ Session(c) \in Ends /\ x # Session(c) /\ ps \in Seq(Pieces)
      /\ wire \in [Ends -> Seq(Pieces)]
      /\ reading \in [Ends -> {"off", "header", "body", "output"}]
  BY Parts, EndFacts DEF Shapes
<1>1. /\ reading[x] = "header" /\ ps # <<>> /\ wire' = [wire EXCEPT ![Session(c)] = Tail(@)]
      /\ IF Decodes(Head(ps))
         THEN reading' = [reading EXCEPT ![x] = "body"] /\ UNCHANGED <<cut, writes, room>>
         ELSE FailRead(x)
      /\ UNCHANGED <<conn, typed, posted, queue, heard>>
  BY EndFacts DEF HandleReadHeader
<1>2. Head(ps) = Header(log[since[c] + Len(heard[c])]) /\ conn[c] = "accepted"
  BY <1>1, DownHead
<1>3. Decodes(Head(ps))
  BY <1>2 DEF Decodes, Header
<1>4. Tail(ps) \in Seq(Pieces)
  BY <1>0, <1>1, TailPieces
<1>5. /\ wire' \in [Ends -> Seq(Pieces)] /\ wire'[Session(c)] = Tail(ps)
      /\ \A y \in Ends : y # Session(c) => wire'[y] = wire[y]
  BY <1>0, <1>1, <1>4
<1>6. /\ reading' = [reading EXCEPT ![x] = "body"]
      /\ UNCHANGED <<conn, cut, typed, posted, queue, writes, participants, recent, log, since, heard>>
  BY <1>1, <1>3 DEF room
<1>7. /\ reading'[x] = "body" /\ \A y \in Ends : y # x => reading'[y] = reading[y]
  BY <1>0, <1>6
<1>8. Shapes'
  <2>1. /\ reading' \in [Ends -> {"off", "header", "body", "output"}]
        /\ \A y \in Ends : reading'[y] = "output" => \E d \in Posix : y = Client(d)
    BY <1>0, <1>6 DEF Shapes
  <2> QED
    BY <1>0, <1>5, <1>6, <2>1 DEF Shapes
<1>9. Only(c)
  <2>1. ASSUME NEW d \in Clients, d # c PROVE UNCHANGED Local(d)
    <3>1. /\ wire'[Client(d)] = wire[Client(d)] /\ wire'[Session(d)] = wire[Session(d)]
          /\ reading'[Client(d)] = reading[Client(d)] /\ reading'[Session(d)] = reading[Session(d)]
      BY <1>5, <1>7, <2>1, Apart
    <3> QED
      BY <1>6, <3>1 DEF Local
  <2> QED
    BY <1>6, <2>1 DEF Only
<1>10. Untouched(c)' /\ Quiet(c)'
  BY <1>2, <1>6, Parts DEF Untouched, Quiet
<1>11. /\ Writer(x)' /\ Writer(Session(c))'
       /\ HeaderSent(x)' <=> HeaderSent(x)
       /\ Unsent(x)' = Unsent(x)
       /\ HeaderSent(Session(c))' <=> HeaderSent(Session(c))
       /\ Unsent(Session(c))' = Unsent(Session(c))
       /\ Stalled(Session(c))' <=> Stalled(Session(c))
  BY <1>0, <1>6, Parts, WriterSame
<1>12. Up(c)'
  <2>1. wire'[x] = wire[x] /\ reading'[Session(c)] = reading[Session(c)]
    BY <1>0, <1>5, <1>7
  <2>2. Listened(c)' = Listened(c) /\ Consumed(c)' = Consumed(c) /\ (Sending(c)' => Sending(c))
    BY <1>1, <1>6, <2>1, SaidSame DEF Listened, Sending, Consumed, Open
  <2> QED
    BY <1>6, <1>11, <2>1, <2>2, Parts, UpSame
<1>13. Down(c)'
  <2>1. PICK r \in Nat, s \in Nat : /\ DownRead(c, r) /\ DownSent(c, r, s)
                                    /\ DownWire(c, r) /\ DownQueue(c, s)
    BY <1>2, Parts DEF Down
  <2>2. since[c] >= 1 /\ DownHeard(c)
    BY <1>2, Parts DEF Down
  <2>3. DownHeard(c)' /\ (since[c] >= 1)' /\ DownQueue(c, s)'
    BY <1>6, <1>11, <2>1, <2>2 DEF DownHeard, DownQueue
  <2>4. DownWire(c, r + 1)' /\ DownSent(c, r + 1, s)'
    BY <1>0, <1>1, <1>5, <1>6, <1>11, <2>1, DownConsumes
  <2>5. DownRead(c, r + 1)'
    BY <1>1, <1>6, <1>7, <2>1 DEF DownRead
  <2> QED
    BY <2>3, <2>4, <2>5 DEF Down
<1> QED
  BY <1>8, <1>9, <1>10, <1>11, <1>12, <1>13, OneConnection

(* The client prints the next message of the log. *)
LEMMA ClientHears ==
  ASSUME ChatInv, NEW c \in Clients, ClientReadBody(c)
  PROVE  /\ conn[c] = "accepted" /\ since[c] >= 1 /\ since[c] \in Nat /\ Len(heard[c]) \in Nat
         /\ since[c] + Len(heard[c]) \in 1..Len(log)
         /\ log[since[c] + Len(heard[c])] \in Messages
         /\ heard' = [heard EXCEPT ![c] = Append(@, log[since[c] + Len(heard[c])])]
<1> DEFINE m == log[since[c] + Len(heard[c])]
<1>1. /\ reading[Client(c)] = "body" /\ wire[Session(c)] # <<>>
      /\ heard' = [heard EXCEPT ![c] = Append(@, Head(wire[Session(c)]).of)]
  BY DEF ClientReadBody
<1>2. /\ conn[c] = "accepted" /\ since[c] >= 1 /\ since[c] \in Nat /\ Len(heard[c]) \in Nat
      /\ since[c] + Len(heard[c]) \in 1..Len(log)
      /\ Head(wire[Session(c)]) = Body(m)
  BY <1>1, DownHead
<1>3. m \in Messages
  <2>1. log \in Seq(Messages)
    BY Parts DEF Shapes
  <2> QED
    BY <1>2, <2>1, ElementOfSeq
<1>4. Body(m).of = m
  BY <1>3, PieceFacts
<1> QED
  BY <1>1, <1>2, <1>3, <1>4

(* The client takes a body and prints it. *)
LEMMA ChatClientReadBody ==
  ASSUME ChatInv, NEW c \in Clients, ClientReadBody(c) PROVE ChatInv'
<1> DEFINE x == Client(c)
           ps == wire[Session(c)]
           a == since[c]
           h == Len(heard[c])
           m == log[a + h]
<1>0. /\ x \in Ends /\ Shapes /\ Session(c) \in Ends /\ x # Session(c) /\ ps \in Seq(Pieces)
      /\ wire \in [Ends -> Seq(Pieces)] /\ heard \in [Clients -> Seq(Messages)]
      /\ reading \in [Ends -> {"off", "header", "body", "output"}]
  BY Parts, EndFacts DEF Shapes
<1>1. /\ reading[x] = "body" /\ ps # <<>> /\ wire' = [wire EXCEPT ![Session(c)] = Tail(@)]
      /\ reading' = [reading EXCEPT ![x] = IF c \in Posix THEN "output" ELSE "header"]
      /\ UNCHANGED <<conn, cut, typed, posted, queue, writes, participants, recent, log, since>>
  BY DEF ClientReadBody, room
<1>2. /\ conn[c] = "accepted" /\ a >= 1 /\ a \in Nat /\ h \in Nat /\ m \in Messages
      /\ heard' = [heard EXCEPT ![c] = Append(@, m)]
  BY ClientHears
<1>3. Tail(ps) \in Seq(Pieces)
  BY <1>0, <1>1, TailPieces
<1>4. /\ wire' \in [Ends -> Seq(Pieces)] /\ wire'[Session(c)] = Tail(ps)
      /\ \A y \in Ends : y # Session(c) => wire'[y] = wire[y]
  BY <1>0, <1>1, <1>3
<1>5. /\ reading'[x] \in {"output", "header"} /\ \A y \in Ends : y # x => reading'[y] = reading[y]
  BY <1>0, <1>1
<1>6. /\ heard'[c] = Append(heard[c], m) /\ \A d \in Clients : d # c => heard'[d] = heard[d]
      /\ heard' \in [Clients -> Seq(Messages)]
  <2> HIDE DEF m
  <2>1. Append(heard[c], m) \in Seq(Messages)
    BY <1>0, <1>2
  <2> QED
    BY <1>0, <1>2, <2>1
<1>7. Shapes'
  <2>1. /\ reading' \in [Ends -> {"off", "header", "body", "output"}]
        /\ \A y \in Ends : reading'[y] = "output" => \E d \in Posix : y = Client(d)
    <3>1. \A y \in Ends : reading[y] = "output" => \E d \in Posix : y = Client(d)
      BY <1>0 DEF Shapes
    <3> QED
      BY <1>0, <1>1, <3>1
  <2> QED
    BY <1>0, <1>1, <1>4, <1>6, <2>1 DEF Shapes
<1>8. Only(c)
  <2>1. ASSUME NEW d \in Clients, d # c PROVE UNCHANGED Local(d)
    <3>1. /\ wire'[Client(d)] = wire[Client(d)] /\ wire'[Session(d)] = wire[Session(d)]
          /\ reading'[Client(d)] = reading[Client(d)] /\ reading'[Session(d)] = reading[Session(d)]
          /\ heard'[d] = heard[d]
      BY <1>4, <1>5, <1>6, <2>1, Apart
    <3> QED
      BY <1>1, <3>1 DEF Local
  <2> QED
    BY <1>1, <2>1 DEF Only
<1>9. Untouched(c)' /\ Quiet(c)'
  BY <1>1, <1>2, Parts DEF Untouched, Quiet
<1>10. /\ Writer(x)' /\ Writer(Session(c))'
       /\ HeaderSent(x)' <=> HeaderSent(x)
       /\ Unsent(x)' = Unsent(x)
       /\ HeaderSent(Session(c))' <=> HeaderSent(Session(c))
       /\ Unsent(Session(c))' = Unsent(Session(c))
       /\ Stalled(Session(c))' <=> Stalled(Session(c))
  BY <1>0, <1>1, Parts, WriterSame
<1>11. Up(c)'
  <2>1. wire'[x] = wire[x] /\ reading'[Session(c)] = reading[Session(c)]
    BY <1>0, <1>4, <1>5
  <2>2. Listened(c)' = Listened(c) /\ Consumed(c)' = Consumed(c) /\ (Sending(c)' => Sending(c))
    BY <1>1, <2>1, SaidSame DEF Listened, Sending, Consumed, Open
  <2> QED
    BY <1>1, <1>10, <2>1, <2>2, Parts, UpSame
<1>12. Down(c)'
  <2>1. PICK r \in Nat, s \in Nat : /\ DownRead(c, r) /\ DownSent(c, r, s)
                                    /\ DownWire(c, r) /\ DownQueue(c, s)
    BY <1>2, Parts DEF Down
  <2>2. DownHeard(c)
    BY <1>2, Parts DEF Down
  <2>3. (since[c] >= 1)' /\ DownQueue(c, s)'
    BY <1>1, <1>2, <1>10, <2>1 DEF DownQueue
  <2>4. DownWire(c, r + 1)' /\ DownSent(c, r + 1, s)'
    BY <1>0, <1>1, <1>4, <1>10, <2>1, DownConsumes
  <2>5. /\ Len(Append(heard[c], m)) = h + 1 /\ Append(heard[c], m)[h + 1] = m
        /\ \A k \in 1..h : Append(heard[c], m)[k] = heard[c][k]
    <3> HIDE DEF m
    <3> QED
      BY <1>0, <1>2
  <2>6. r = 2 * h + 1
    BY <1>1, <2>1 DEF DownRead
  <2>7. DownRead(c, r + 1)'
    <3>1. Len(heard'[c]) = h + 1
      BY <1>6, <2>5
    <3>2. r + 1 = 2 * (h + 1)
      <4> HIDE DEF h
      <4> QED
        BY <1>2, <2>6
    <3>3. r + 1 = 2 * Len(heard'[c])
      BY <3>1, <3>2
    <3> QED
      BY <1>5, <3>3 DEF DownRead
  <2>8. DownHeard(c)'
    <3>1. ASSUME NEW k \in 1..(h + 1) PROVE Append(heard[c], m)[k] = log[a + k - 1]
      <4>1. CASE k = h + 1
        <5>1. a + k - 1 = a + h
          <6> HIDE DEF a, h
          <6> QED
            BY <1>2, <4>1
        <5> QED
          BY <2>5, <4>1, <5>1
      <4>2. CASE k # h + 1
        <5>1. k \in 1..h
          <6> HIDE DEF h
          <6> QED
            BY <1>2, <4>2
        <5> QED
          BY <2>2, <2>5, <5>1 DEF DownHeard
      <4> QED
        BY <4>1, <4>2
    <3> HIDE DEF m
    <3> QED
      BY <1>1, <1>6, <2>5, <3>1 DEF DownHeard
  <2> QED
    BY <2>3, <2>4, <2>7, <2>8 DEF Down
<1> QED
  BY <1>7, <1>8, <1>9, <1>10, <1>11, <1>12, OneConnection
------------------------------------------------------------------------------
(* The server. *)
LEMMA RecentFacts ==
  ASSUME ChatInv
  PROVE  /\ recent \in Seq(Messages) /\ log \in Seq(Messages)
         /\ Len(recent) \in Nat /\ Len(log) \in Nat /\ Len(recent) <= Len(log)
         /\ Len(recent) = IF Len(log) > MaxRecent THEN MaxRecent ELSE Len(log)
         /\ \A i \in 1..Len(recent) : recent[i] = log[Len(log) - Len(recent) + i]
<1>1. recent \in Seq(Messages) /\ log \in Seq(Messages)
  BY DEF ChatInv, Shapes
<1>2. Len(recent) \in Nat /\ Len(log) \in Nat
  BY <1>1
<1>3. /\ Len(recent) = IF Len(log) > MaxRecent THEN MaxRecent ELSE Len(log)
      /\ \A i \in 1..Len(recent) : recent[i] = log[Len(log) - Len(recent) + i]
  BY DEF ChatInv, RecentInv
<1>4. Len(recent) <= Len(log)
  <2> DEFINE l == Len(log)
             n == Len(recent)
  <2>1. n = (IF l > MaxRecent THEN MaxRecent ELSE l) /\ l \in Nat /\ MaxRecent \in Nat
    BY <1>2, <1>3, ChatAssumption
  <2> HIDE DEF l, n
  <2>2. n <= l
    BY <2>1
  <2> QED
    BY <2>2 DEF l, n
<1> QED
  BY <1>1, <1>2, <1>3, <1>4

(* join: the recent messages are the first the session has to send. *)
LEMMA ChatAccept == ASSUME ChatInv, NEW c \in Clients, HandleAccept(c) PROVE ChatInv'
<1> DEFINE x == Session(c)
           l == Len(log)
           n == Len(recent)
<1>0. /\ x \in Ends /\ Shapes /\ Client(c) \in Ends /\ x # Client(c)
      /\ conn \in [Clients -> {"new", "connected", "accepted"}] /\ since \in [Clients -> Nat]
      /\ reading \in [Ends -> {"off", "header", "body", "output"}]
      /\ \A y \in Ends : Writer(y)
  BY Parts, EndFacts DEF Shapes, ChatInv
<1>1. /\ conn[c] = "connected" /\ conn' = [conn EXCEPT ![c] = "accepted"]
      /\ participants' = participants \cup {c} /\ QueueAll({x}, recent)
      /\ reading' = [reading EXCEPT ![x] = "header"]
      /\ since' = [since EXCEPT ![c] = l - n + 1]
      /\ UNCHANGED <<cut, typed, posted, wire, recent, log, heard>>
  BY DEF HandleAccept
<1>2. /\ recent \in Seq(Messages) /\ n \in Nat /\ l \in Nat /\ n <= l
      /\ \A i \in 1..n : recent[i] = log[l - n + i]
  BY RecentFacts
<1>3. l - n + 1 \in Nat /\ l - n + 1 >= 1
  <2> HIDE DEF l, n
  <2> QED
    BY <1>2
<1>4. /\ heard[c] = <<>> /\ reading[x] = "off" /\ queue[x] = <<>> /\ writes[x] = <<>>
      /\ wire[x] = <<>> /\ reading[Client(c)] # "body"
  BY <1>1, Parts DEF Untouched
<1>5. /\ queue' \in [Ends -> Seq(Messages)] /\ writes' \in [Ends -> Seq(Seq(Pieces))]
      /\ \A y \in Ends : Writer(y)'
      /\ HeaderSent(x)' <=> HeaderSent(x)
      /\ Unsent(x)' = Unsent(x) \o recent /\ (Stalled(x)' => Stalled(x))
      /\ \A y \in Ends : y # x => queue'[y] = queue[y] /\ writes'[y] = writes[y]
  <2>1. {x} \in SUBSET Ends
    BY <1>0
  <2> HIDE DEF x
  <2> QED
    BY <1>0, <1>1, <1>2, <2>1, Queued
<1>6. ~HeaderSent(x)' /\ Unsent(x)' = recent /\ ~Stalled(x)'
  <2>1. ~HeaderSent(x) /\ Unsent(x) = <<>> /\ ~Stalled(x)
    BY <1>4 DEF HeaderSent, Unsent, Stalled
  <2>2. <<>> \o recent = recent
    BY <1>2
  <2> QED
    BY <1>5, <2>1, <2>2
<1>7. /\ reading'[x] = "header" /\ \A y \in Ends : y # x => reading'[y] = reading[y]
  BY <1>0, <1>1
<1>8. conn'[c] = "accepted" /\ since'[c] = l - n + 1
  BY <1>0, <1>1
<1>9. Shapes'
  <2>1. /\ reading' \in [Ends -> {"off", "header", "body", "output"}]
        /\ \A y \in Ends : reading'[y] = "output" => \E d \in Posix : y = Client(d)
    BY <1>0, <1>1 DEF Shapes
  <2>2. /\ conn' \in [Clients -> {"new", "connected", "accepted"}]
        /\ participants' \subseteq {d \in Clients : conn'[d] = "accepted"}
    BY <1>0, <1>1 DEF Shapes
  <2>3. since' \in [Clients -> Nat]
    <3> DEFINE e == l - n + 1
    <3>1. e \in Nat /\ since' = [since EXCEPT ![c] = e]
      BY <1>1, <1>3
    <3> HIDE DEF e
    <3> QED
      BY <1>0, <3>1
  <2> QED
    BY <1>0, <1>1, <1>5, <2>1, <2>2, <2>3 DEF Shapes
<1>10. Only(c)
  <2>1. ASSUME NEW d \in Clients, d # c PROVE UNCHANGED Local(d)
    <3>1. /\ queue'[Client(d)] = queue[Client(d)] /\ queue'[Session(d)] = queue[Session(d)]
          /\ writes'[Client(d)] = writes[Client(d)] /\ writes'[Session(d)] = writes[Session(d)]
          /\ reading'[Client(d)] = reading[Client(d)] /\ reading'[Session(d)] = reading[Session(d)]
      BY <1>5, <1>7, <2>1, Apart
    <3>2. conn'[d] = conn[d] /\ since'[d] = since[d]
      BY <1>0, <1>1, <2>1
    <3> QED
      BY <1>1, <3>1, <3>2 DEF Local
  <2> QED
    BY <1>1, <2>1 DEF Only
<1>11. Untouched(c)' /\ Quiet(c)'
  BY <1>1, <1>8, Parts DEF Untouched, Quiet
<1>12. Up(c)'
  <2>1. reading'[Client(c)] = reading[Client(c)] /\ queue'[Client(c)] = queue[Client(c)]
        /\ writes'[Client(c)] = writes[Client(c)]
    BY <1>0, <1>5, <1>7
  <2>2. Listened(c) /\ Consumed(c)' = Consumed(c) /\ Sending(c)' = Sending(c)
    BY <1>1, <1>4, <1>7, <1>8, <2>1, SaidSame DEF Listened, Sending, Consumed, Open
  <2> QED
    BY <1>0, <1>1, <2>1, <2>2, Parts, UpSame, WriterSame
<1>13. Down(c)'
  <2>1. (since[c] >= 1)' /\ DownHeard(c)'
    BY <1>1, <1>3, <1>4, <1>8 DEF DownHeard
  <2>2. DownRead(c, 0)'
    BY <1>0, <1>1, <1>4, <1>7 DEF DownRead
  <2>3. DownSent(c, 0, 0)' /\ DownWire(c, 0)'
    BY <1>1, <1>4, <1>6 DEF DownSent, DownWire
  <2>4. DownQueue(c, 0)'
    <3> DEFINE a == l - n + 1
    <3>1. ASSUME NEW k \in 1..n PROVE recent[k] = log[a + 0 + k - 1]
      <4>1. a + 0 + k - 1 = l - n + k
        <5> HIDE DEF l, n
        <5> QED
          BY <1>2
      <4> QED
        BY <1>2, <4>1
    <3>2. a + 0 + n = l + 1
      <4> HIDE DEF l, n
      <4> QED
        BY <1>2
    <3>3. since'[c] = a /\ Unsent(x)' = recent /\ log' = log
      BY <1>1, <1>6, <1>8
    <3>4. l + 1 <= l + 1
      BY <1>2
    <3> HIDE DEF a
    <3> QED
      BY <1>6, <3>1, <3>2, <3>3, <3>4 DEF DownQueue
  <2> QED
    BY <2>1, <2>2, <2>3, <2>4 DEF Down
<1> QED
  BY <1>0, <1>5, <1>9, <1>10, <1>11, <1>12, <1>13, OneConnection

(* A message is said. *)
LEMMA SaidGrows ==
  ASSUME Shapes, NEW c \in Clients, NEW m \in Messages, m.by = c, log' = Append(log, m)
  PROVE  /\ Room!SaidBy(c)' = Room!SaidBy(c) + 1
         /\ \A d \in Clients : d # c => Room!SaidBy(d)' = Room!SaidBy(d)
<1> DEFINE l == Len(log)
           At(d) == {i \in DOMAIN log : log[i].by = d}
           After(d) == {i \in DOMAIN log' : log'[i].by = d}
<1>1. /\ log \in Seq(Messages) /\ l \in Nat /\ DOMAIN log = 1..l /\ DOMAIN log' = 1..(l + 1)
      /\ log'[l + 1] = m /\ \A i \in 1..l : log'[i] = log[i]
  BY DEF Shapes
<1>2. \A d : Room!SaidBy(d) = Cardinality(At(d)) /\ Room!SaidBy(d)' = Cardinality(After(d))
  <2> TAKE d
  <2>1. Room!SaidBy(d) = Cardinality(At(d))
    BY Zenon DEF Room!SaidBy, Room!Cardinality, Cardinality
  <2>2. Room!SaidBy(d)' = Cardinality(After(d))
    BY Zenon DEF Room!SaidBy, Room!Cardinality, Cardinality
  <2> QED
    BY <2>1, <2>2
<1>3. \A d : IsFiniteSet(At(d))
  <2> TAKE d
  <2>1. IsFiniteSet(1..l)
    BY <1>1, FS_Interval
  <2>2. At(d) \subseteq 1..l
    BY <1>1
  <2> HIDE DEF At
  <2> QED
    BY <2>1, <2>2, FS_Subset
<1>4. After(c) = At(c) \cup {l + 1} /\ l + 1 \notin At(c)
  <2> HIDE DEF l
  <2> QED
    BY <1>1
<1>5. ASSUME NEW d \in Clients, d # c PROVE After(d) = At(d)
  <2> HIDE DEF l
  <2> QED
    BY <1>1, <1>5
<1>6. Cardinality(After(c)) = Cardinality(At(c)) + 1
  <2>1. IsFiniteSet(At(c))
    BY <1>3
  <2> HIDE DEF At, After
  <2> QED
    BY <1>4, <2>1, FS_AddElement
<1> HIDE DEF At, After
<1> QED
  BY <1>2, <1>5, <1>6

(* deliver keeps the last max_recent_msgs messages. *)
LEMMA RecentGrows ==
  ASSUME ChatInv, NEW m \in Messages, log' = Append(log, m),
         recent' = IF Len(Append(recent, m)) > MaxRecent
                   THEN Tail(Append(recent, m)) ELSE Append(recent, m)
  PROVE  RecentInv' /\ recent' \in Seq(Messages) /\ log' \in Seq(Messages)
<1> DEFINE l == Len(log)
           n == Len(recent)
           rs == Append(recent, m)
           max == MaxRecent
<1>1. /\ recent \in Seq(Messages) /\ log \in Seq(Messages) /\ n \in Nat /\ l \in Nat
      /\ n <= l /\ n = (IF l > max THEN max ELSE l) /\ max \in Nat
      /\ \A i \in 1..n : recent[i] = log[l - n + i]
  BY RecentFacts, ChatAssumption
<1>2. /\ log' \in Seq(Messages) /\ Len(log') = l + 1 /\ log'[l + 1] = m
      /\ \A i \in 1..l : log'[i] = log[i]
  BY <1>1
<1>3. /\ rs \in Seq(Messages) /\ Len(rs) = n + 1 /\ rs[n + 1] = m /\ rs # <<>>
      /\ \A i \in 1..n : rs[i] = recent[i]
  BY <1>1
<1>4. /\ Tail(rs) \in Seq(Messages) /\ Len(Tail(rs)) = n
      /\ \A k \in 1..n : Tail(rs)[k] = rs[k + 1]
  <2>1. /\ Tail(rs) \in Seq(Messages) /\ Len(Tail(rs)) = Len(rs) - 1
        /\ \A k \in 1..Len(Tail(rs)) : Tail(rs)[k] = rs[k + 1]
    BY <1>3, Tails
  <2>2. Len(rs) - 1 = n
    <3> HIDE DEF n, rs
    <3> QED
      BY <1>1, <1>3
  <2> QED
    BY <2>1, <2>2
<1>5. recent' = IF Len(rs) > max THEN Tail(rs) ELSE rs
  OBVIOUS
<1> HIDE DEF l, n, rs
<1>6. ASSUME NEW i \in 1..(n + 1) PROVE rs[i] = log'[l - n + i] /\ l - n + i \in 1..(l + 1)
  <2>1. CASE i = n + 1
    <3>1. l - n + i = l + 1
      BY <1>1, <2>1
    <3> QED
      BY <1>1, <1>2, <1>3, <2>1, <3>1
  <2>2. CASE i # n + 1
    <3>1. i \in 1..n /\ l - n + i \in 1..l
      BY <1>1, <2>2
    <3> QED
      BY <1>1, <1>2, <1>3, <3>1
  <2> QED
    BY <2>1, <2>2
<1>7. CASE n + 1 > max
  <2>0. n = max /\ l + 1 > max
    BY <1>1, <1>7
  <2>1. recent' = Tail(rs)
    BY <1>3, <1>5, <1>7
  <2>2. ASSUME NEW i \in 1..n PROVE Tail(rs)[i] = log'[(l + 1) - n + i]
    <3>1. i + 1 \in 1..(n + 1) /\ l - n + (i + 1) = (l + 1) - n + i
      BY <1>1
    <3> QED
      BY <1>4, <1>6, <3>1
  <2> QED
    BY <1>2, <1>4, <2>0, <2>1, <2>2 DEF RecentInv
<1>8. CASE ~(n + 1 > max)
  <2>0. n = l /\ ~(l + 1 > max)
    BY <1>1, <1>8
  <2>1. recent' = rs
    BY <1>3, <1>5, <1>8
  <2>2. ASSUME NEW i \in 1..(n + 1) PROVE rs[i] = log'[(l + 1) - (n + 1) + i]
    <3>1. l - n + i = (l + 1) - (n + 1) + i
      BY <1>1
    <3> QED
      BY <1>6, <3>1
  <2>3. Len(recent') = n + 1 /\ Len(log') = l + 1 /\ n + 1 = l + 1
    BY <1>2, <1>3, <2>0, <2>1
  <2>4. Len(recent') = IF Len(log') > MaxRecent THEN MaxRecent ELSE Len(log')
    BY <2>0, <2>3
  <2>5. \A i \in 1..Len(recent') : recent'[i] = log'[Len(log') - Len(recent') + i]
    BY <2>1, <2>2, <2>3
  <2> QED
    BY <1>2, <1>3, <2>1, <2>4, <2>5 DEF RecentInv
<1> QED
  BY <1>7, <1>8

(* What the stream to a client speaks of is in the log. *)
LEMMA DownBounds ==
  ASSUME Shapes, NEW c \in Clients, Writer(Session(c)), since[c] >= 1,
         NEW r \in Nat, NEW s \in Nat, DownRead(c, r), DownSent(c, r, s), DownQueue(c, s)
  PROVE  /\ \A k \in 1..Len(heard[c]) : since[c] + k - 1 \in 1..Len(log)
         /\ \A i \in 1..Len(wire[Session(c)]) : \A n \in Nat :
              (r + i = 2 * n + 1 \/ r + i = 2 * n + 2) => since[c] + n \in 1..Len(log)
         /\ \A k \in 1..Len(Unsent(Session(c))) : since[c] + s + k - 1 \in 1..Len(log)
<1> DEFINE x == Session(c)
           w == Len(wire[x])
           h == Len(heard[c])
           u == Len(Unsent(x))
           a == since[c]
           l == Len(log)
<1>1. /\ x \in Ends /\ w \in Nat /\ a \in Nat /\ h \in Nat /\ l \in Nat /\ a >= 1
  <2>1. x \in Ends
    BY EndFacts
  <2>2. /\ wire[x] \in Seq(Pieces) /\ a \in Nat /\ heard[c] \in Seq(Messages)
        /\ log \in Seq(Messages)
    BY <2>1 DEF Shapes
  <2> QED
    BY <2>1, <2>2
<1>2. u \in Nat /\ (HeaderSent(x) => u >= 1) /\ (Stalled(x) => u >= 1)
  <2>1. Unsent(x) \in Seq(Messages) /\ (HeaderSent(x) => Unsent(x) # <<>>)
    BY <1>1, WriterFacts
  <2>2. Stalled(x) => Unsent(x) # <<>>
    BY DEF Stalled, Unsent
  <2>3. Unsent(x) # <<>> => Len(Unsent(x)) >= 1
    BY <2>1
  <2> QED
    BY <2>1, <2>2, <2>3
<1>3. a + s + u <= l + 1
  BY DEF DownQueue
<1>4. \/ r + w = 2 * s
      \/ r + w = 2 * s + 1 /\ u >= 1
  BY <1>2 DEF DownSent
<1>5. r >= 2 * h
  BY <1>1 DEF DownRead
<1> HIDE DEF w, h, u, a, l
<1>6. \A k \in 1..h : a + k - 1 \in 1..l
  BY <1>1, <1>2, <1>3, <1>4, <1>5
<1>7. \A i \in 1..w : \A n \in Nat : (r + i = 2 * n + 1 \/ r + i = 2 * n + 2) => a + n \in 1..l
  <2> SUFFICES ASSUME NEW i \in 1..w, NEW n \in Nat, r + i = 2 * n + 1 \/ r + i = 2 * n + 2
               PROVE  a + n \in 1..l
    OBVIOUS
  <2>1. r + i <= r + w
    BY <1>1
  <2>2. n < s \/ (n <= s /\ u >= 1)
    BY <1>1, <1>4, <2>1
  <2> QED
    BY <1>1, <1>2, <1>3, <2>2
<1>8. \A k \in 1..u : a + s + k - 1 \in 1..l
  BY <1>1, <1>2, <1>3
<1> QED
  BY <1>6, <1>7, <1>8 DEF w, h, u, a, l

(* A message said follows what every participant has been sent; others are sent no more. *)
LEMMA DownSaid ==
  ASSUME Shapes, NEW c \in Clients, Writer(Session(c)), Down(c),
         NEW m \in Messages, log' = Append(log, m),
         UNCHANGED <<conn, since, heard, participants>>,
         wire'[Session(c)] = wire[Session(c)], reading'[Client(c)] = reading[Client(c)],
         HeaderSent(Session(c))' <=> HeaderSent(Session(c)),
         Unsent(Session(c))' = IF c \in participants THEN Unsent(Session(c)) \o <<m>>
                               ELSE Unsent(Session(c)),
         Stalled(Session(c))' => Stalled(Session(c)),
         c \notin participants => (Stalled(Session(c))' <=> Stalled(Session(c)))
  PROVE  Down(c)'
<1> SUFFICES ASSUME conn[c] = "accepted" PROVE Down(c)'
  BY DEF Down
<1> DEFINE x == Session(c)
           us == Unsent(x)
           u == Len(us)
           a == since[c]
           l == Len(log)
<1>0. x \in Ends
  BY EndFacts
<1>1. /\ log \in Seq(Messages) /\ l \in Nat /\ Len(log') = l + 1 /\ log'[l + 1] = m
      /\ \A i \in 1..l : log'[i] = log[i]
  BY DEF Shapes
<1>2. a \in Nat /\ us \in Seq(Messages) /\ u \in Nat
  BY SMTT(30), <1>0, WriterFacts DEF Shapes
<1>3. a >= 1 /\ DownHeard(c)
  BY DEF Down
<1>4. PICK r \in Nat, s \in Nat : /\ DownRead(c, r) /\ DownSent(c, r, s)
                                  /\ DownWire(c, r) /\ DownQueue(c, s)
  BY DEF Down
<1>5. /\ \A k \in 1..Len(heard[c]) : a + k - 1 \in 1..l
      /\ \A i \in 1..Len(wire[x]) : \A n \in Nat :
           (r + i = 2 * n + 1 \/ r + i = 2 * n + 2) => a + n \in 1..l
      /\ \A k \in 1..u : a + s + k - 1 \in 1..l
  BY <1>3, <1>4, DownBounds
<1>6. (since[c] >= 1)' /\ DownRead(c, r)'
  BY <1>3, <1>4 DEF DownRead
<1>7. DownHeard(c)'
  <2>1. \A k \in 1..Len(heard[c]) : heard[c][k] = log'[a + k - 1]
    BY <1>1, <1>3, <1>5 DEF DownHeard
  <2> QED
    BY <2>1 DEF DownHeard
<1>8. DownWire(c, r)'
  <2>1. ASSUME NEW i \in 1..Len(wire[x]), NEW n \in Nat
        PROVE  /\ r + i = 2 * n + 1 => wire[x][i] = Header(log'[a + n])
               /\ r + i = 2 * n + 2 => wire[x][i] = Body(log'[a + n])
    <3>1. ASSUME r + i = 2 * n + 1 \/ r + i = 2 * n + 2 PROVE log'[a + n] = log[a + n]
      BY <1>1, <1>5, <3>1
    <3>2. /\ r + i = 2 * n + 1 => wire[x][i] = Header(log[a + n])
          /\ r + i = 2 * n + 2 => wire[x][i] = Body(log[a + n])
      BY <1>4 DEF DownWire
    <3> QED
      BY <3>1, <3>2
  <2>2. wire'[x] = wire[x] /\ since'[c] = a
    OBVIOUS
  <2>3. \A i \in 1..Len(wire'[x]) : \A n \in Nat :
          /\ r + i = 2 * n + 1 => wire'[x][i] = Header(log'[since'[c] + n])
          /\ r + i = 2 * n + 2 => wire'[x][i] = Body(log'[since'[c] + n])
    <3> HIDE DEF a
    <3> SUFFICES ASSUME NEW i \in 1..Len(wire'[x]), NEW n \in Nat
                 PROVE  /\ r + i = 2 * n + 1 => wire'[x][i] = Header(log'[since'[c] + n])
                        /\ r + i = 2 * n + 2 => wire'[x][i] = Body(log'[since'[c] + n])
      OBVIOUS
    <3>1. i \in 1..Len(wire[x])
      BY <2>2
    <3>2. /\ r + i = 2 * n + 1 => wire[x][i] = Header(log'[a + n])
          /\ r + i = 2 * n + 2 => wire[x][i] = Body(log'[a + n])
      BY <2>1, <3>1, Zenon
    <3> QED
      BY <2>2, <3>2, Zenon
  <2> QED
    BY <2>3, Zenon DEF DownWire
<1>9. /\ \A k \in 1..u : us[k] = log[a + s + k - 1]
      /\ a + s + u <= l + 1
      /\ c \in participants => a + s + u = l + 1 /\ ~Stalled(x)
  BY <1>4 DEF DownQueue
<1>10. ASSUME NEW k \in 1..u PROVE us[k] = log'[a + s + k - 1]
  <2>1. a + s + k - 1 \in 1..l /\ us[k] = log[a + s + k - 1]
    BY <1>5, <1>9
  <2> QED
    BY <1>1, <2>1
<1>11. CASE c \in participants
  <2> DEFINE vs == us \o <<m>>
  <2>1. us' = vs /\ Len(vs) = u + 1 /\ vs[u + 1] = m /\ \A k \in 1..u : vs[k] = us[k]
    BY <1>2, <1>11, Appends
  <2>2. ~Stalled(x)' /\ ~Stalled(x)
    BY <1>9, <1>11
  <2>3. DownSent(c, r, s)'
    BY <1>4, <2>2 DEF DownSent
  <2> HIDE DEF vs
  <2>4. ASSUME NEW k \in 1..(u + 1) PROVE vs[k] = log'[a + s + k - 1]
    <3>1. CASE k = u + 1
      <4>1. a + s + k - 1 = l + 1
        <5> HIDE DEF a, u, l
        <5> QED
          BY <1>1, <1>2, <1>9, <1>11, <3>1
      <4> QED
        BY <1>1, <2>1, <3>1, <4>1
    <3>2. CASE k # u + 1
      <4>1. k \in 1..u
        <5> HIDE DEF u
        <5> QED
          BY <1>2, <3>2
      <4> QED
        BY <1>10, <2>1, <4>1
    <3> QED
      BY <3>1, <3>2
  <2>5. a + s + (u + 1) = (l + 1) + 1
    <3> HIDE DEF a, u, l
    <3> QED
      BY <1>1, <1>2, <1>9, <1>11
  <2>6. DownQueue(c, s)'
    <3>1. Unsent(x)' = vs /\ Len(vs) = u + 1 /\ since'[c] = a /\ Len(log') = l + 1
      BY <1>1, <2>1
    <3>2. (l + 1) + 1 <= (l + 1) + 1
      BY <1>1
    <3> HIDE DEF u, a, l, us
    <3> QED
      BY <2>2, <2>4, <2>5, <3>1, <3>2 DEF DownQueue
  <2> QED
    BY <1>6, <1>7, <1>8, <2>3, <2>6 DEF Down
<1>12. CASE c \notin participants
  <2>1. us' = us /\ (Stalled(x)' <=> Stalled(x))
    BY <1>12
  <2>2. DownSent(c, r, s)'
    BY <1>4, <2>1 DEF DownSent
  <2>3. a + s + u <= (l + 1) + 1
    <3> HIDE DEF a, u, l
    <3> QED
      BY <1>1, <1>2, <1>9
  <2>4. DownQueue(c, s)'
    <3>1. since'[c] = a /\ Len(log') = l + 1 /\ u' = u
      BY <1>1, <2>1
    <3> QED
      BY <1>10, <1>12, <2>1, <2>3, <3>1 DEF DownQueue
  <2> QED
    BY <1>6, <1>7, <1>8, <2>2, <2>4 DEF Down
<1> QED
  BY <1>11, <1>12

(* The body that a session waits for is that of the next line of its client. *)
LEMMA SessionSays ==
  ASSUME ChatInv, NEW c \in Clients, SessionReadBody(c)
  PROVE  /\ wire[Client(c)][1] = Body(Message(c, Room!SaidBy(c) + 1))
         /\ Head(wire[Client(c)]).of = Message(c, Room!SaidBy(c) + 1)
         /\ Message(c, Room!SaidBy(c) + 1) \in Messages
         /\ conn[c] = "accepted" /\ Listened(c)
<1> DEFINE ps == wire[Client(c)]
           n == Room!SaidBy(c)
<1>1. reading[Session(c)] = "body" /\ ps # <<>> /\ ps \in Seq(Pieces) /\ Shapes
  BY Parts DEF SessionReadBody, Shapes
<1>2. conn[c] = "accepted" /\ Listened(c)
  BY <1>1, Parts DEF Untouched, Listened
<1>3. n \in Nat /\ Consumed(c) = 2 * n + 1
  <2>1. n \in Nat
    BY <1>1, SaidIsNat
  <2> QED
    BY <1>1, <2>1 DEF Consumed
<1>4. Len(ps) >= 1 /\ Len(ps) \in Nat /\ Head(ps) = ps[1]
  BY <1>1, TailPieces
<1>5. UpWire(c)
  BY <1>2, Parts DEF Up
<1>6. GoodBefore(ps, 1)
  BY DEF GoodBefore
<1>7. Message(c, n + 1) \in Messages
  BY <1>3 DEF Message, Messages
<1>8. ps[1] = Body(Message(c, n + 1))
  <2> HIDE DEF n
  <2>1. 1 \in 1..Len(ps) /\ Consumed(c) + 1 = 2 * n + 2
    BY <1>3, <1>4
  <2> QED
    BY <1>3, <1>5, <1>6, <2>1 DEF UpWire
<1>9. Body(Message(c, n + 1)).of = Message(c, n + 1)
  BY <1>7, PieceFacts
<1> QED
  BY <1>2, <1>4, <1>7, <1>8, <1>9

(* The session says a line: room_.deliver. *)
LEMMA ChatSessionReadBody ==
  ASSUME ChatInv, NEW c \in Clients, SessionReadBody(c) PROVE ChatInv'
<1> DEFINE x == Session(c)
           ps == wire[Client(c)]
           m == Message(c, Room!SaidBy(c) + 1)
           xs == {Session(p) : p \in participants}
<1>0. /\ x \in Ends /\ Shapes /\ Client(c) \in Ends /\ x # Client(c) /\ ps \in Seq(Pieces)
      /\ wire \in [Ends -> Seq(Pieces)]
      /\ reading \in [Ends -> {"off", "header", "body", "output"}]
      /\ participants \subseteq Clients /\ (\A y \in Ends : Writer(y))
  BY Parts, EndFacts DEF Shapes, ChatInv
<1>1. /\ ps[1] = Body(m) /\ Head(ps).of = m /\ m \in Messages /\ m.by = c
      /\ conn[c] = "accepted" /\ Listened(c) /\ ps[1] # Bad
  <2>1. /\ ps[1] = Body(m) /\ Head(ps).of = m /\ m \in Messages
        /\ conn[c] = "accepted" /\ Listened(c)
    BY SessionSays
  <2>2. m.by = c
    BY DEF Message
  <2>3. Body(m) # Bad
    BY <2>1, PieceFacts
  <2> QED
    BY <2>1, <2>2, <2>3
<1> HIDE DEF m
<1>2. /\ reading[x] = "body" /\ ps # <<>> /\ wire' = [wire EXCEPT ![Client(c)] = Tail(@)]
      /\ recent' = IF Len(Append(recent, m)) > MaxRecent
                   THEN Tail(Append(recent, m)) ELSE Append(recent, m)
      /\ log' = Append(log, m) /\ QueueAll(xs, <<m>>)
      /\ reading' = [reading EXCEPT ![x] = "header"]
      /\ UNCHANGED <<conn, cut, typed, posted, participants, since, heard>>
  BY <1>1 DEF SessionReadBody
<1>3. RecentInv' /\ recent' \in Seq(Messages) /\ log' \in Seq(Messages)
  BY <1>1, <1>2, RecentGrows
<1>4. Tail(ps) \in Seq(Pieces)
  BY <1>0, <1>2, TailPieces
<1>5. /\ wire' \in [Ends -> Seq(Pieces)] /\ wire'[Client(c)] = Tail(ps)
      /\ \A y \in Ends : y # Client(c) => wire'[y] = wire[y]
  BY <1>0, <1>2, <1>4
<1>6. /\ reading'[x] = "header" /\ \A y \in Ends : y # x => reading'[y] = reading[y]
  BY <1>0, <1>2
<1>7. /\ queue' \in [Ends -> Seq(Messages)] /\ writes' \in [Ends -> Seq(Seq(Pieces))]
      /\ \A y \in Ends : Writer(y)'
      /\ \A y \in xs : /\ HeaderSent(y)' <=> HeaderSent(y)
                       /\ Unsent(y)' = Unsent(y) \o <<m>> /\ (Stalled(y)' => Stalled(y))
      /\ \A y \in Ends : y \notin xs => queue'[y] = queue[y] /\ writes'[y] = writes[y]
  <2>1. xs \in SUBSET Ends
    BY <1>0, EndFacts
  <2>2. <<m>> \in Seq(Messages)
    BY <1>1
  <2> HIDE DEF xs
  <2> QED
    BY <1>0, <1>2, <2>1, <2>2, Queued
<1>8. Shapes'
  <2>1. /\ reading' \in [Ends -> {"off", "header", "body", "output"}]
        /\ \A y \in Ends : reading'[y] = "output" => \E d \in Posix : y = Client(d)
    BY <1>0, <1>2 DEF Shapes
  <2> QED
    BY <1>0, <1>2, <1>3, <1>5, <1>7, <2>1 DEF Shapes
<1>9. /\ Room!SaidBy(c)' = Room!SaidBy(c) + 1 /\ Room!SaidBy(c) \in Nat
      /\ \A d \in Clients : d # c => Room!SaidBy(d)' = Room!SaidBy(d)
  BY <1>0, <1>1, <1>2, SaidGrows, SaidIsNat
<1>10. ASSUME NEW d \in Clients
       PROVE  /\ Client(d) \in Ends /\ Session(d) \in Ends /\ Client(d) \notin xs
              /\ Session(d) \in xs <=> d \in participants
  BY <1>0, EndFacts
<1>11. ASSUME NEW d \in Clients PROVE Down(d)'
  <2> DEFINE y == Session(d)
  <2>1. /\ wire'[y] = wire[y] /\ reading'[Client(d)] = reading[Client(d)]
    BY <1>0, <1>5, <1>6, <1>10, EndFacts
  <2>2. /\ HeaderSent(y)' <=> HeaderSent(y)
        /\ Unsent(y)' = IF d \in participants THEN Unsent(y) \o <<m>> ELSE Unsent(y)
        /\ Stalled(y)' => Stalled(y)
        /\ d \notin participants => (Stalled(y)' <=> Stalled(y))
    <3>1. CASE d \in participants
      BY <1>7, <1>10, <3>1
    <3>2. CASE d \notin participants
      <4>1. queue'[y] = queue[y] /\ writes'[y] = writes[y]
        BY <1>7, <1>10, <3>2
      <4> QED
        BY <1>10, <3>2, <4>1, WriterSame
    <3> QED
      BY <3>1, <3>2
  <2> HIDE DEF xs
  <2> QED
    BY <1>0, <1>1, <1>2, <2>1, <2>2, Parts, DownSaid
<1>12. ASSUME NEW d \in Clients
       PROVE  /\ queue'[Client(d)] = queue[Client(d)] /\ writes'[Client(d)] = writes[Client(d)]
              /\ HeaderSent(Client(d))' <=> HeaderSent(Client(d))
              /\ Unsent(Client(d))' = Unsent(Client(d))
  <2>1. queue'[Client(d)] = queue[Client(d)] /\ writes'[Client(d)] = writes[Client(d)]
    BY <1>7, <1>10
  <2> QED
    BY <1>10, <2>1, WriterSame
<1> HIDE DEF xs
<1>13. ASSUME NEW d \in Clients, d # c PROVE Untouched(d)' /\ Quiet(d)' /\ Up(d)'
  <2>1. /\ wire'[Client(d)] = wire[Client(d)] /\ wire'[Session(d)] = wire[Session(d)]
        /\ reading'[Client(d)] = reading[Client(d)] /\ reading'[Session(d)] = reading[Session(d)]
    BY <1>5, <1>6, <1>13, Apart
  <2>2. Quiet(d)'
    BY <1>2, <2>1, Parts DEF Quiet
  <2>3. Untouched(d)'
    <3>1. CASE conn[d] = "accepted"
      BY <1>2, <3>1 DEF Untouched
    <3>2. CASE conn[d] # "accepted"
      <4>1. d \notin participants
        BY <1>0, <3>2 DEF Shapes
      <4>2. queue'[Session(d)] = queue[Session(d)] /\ writes'[Session(d)] = writes[Session(d)]
        BY <1>7, <1>10, <4>1
      <4> QED
        BY <1>2, <2>1, <4>2, Parts DEF Untouched
    <3> QED
      BY <3>1, <3>2
  <2>4. Listened(d)' = Listened(d) /\ Consumed(d)' = Consumed(d) /\ Sending(d)' = Sending(d)
    BY <1>2, <1>9, <1>13, <2>1 DEF Listened, Consumed, Sending, Open
  <2>5. Up(d)'
    BY <1>2, <1>12, <2>1, <2>4, Parts, UpSame
  <2> QED
    BY <2>2, <2>3, <2>5
<1>14. Untouched(c)' /\ Quiet(c)'
  BY <1>1, <1>2, Parts DEF Untouched, Quiet
<1>15. Up(c)'
  <2>1. Consumed(c) \in Nat /\ Consumed(c)' = Consumed(c) + 1
    BY <1>2, <1>6, <1>9 DEF Consumed
  <2>2. reading'[Client(c)] = reading[Client(c)]
    BY <1>0, <1>6
  <2> QED
    BY <1>0, <1>1, <1>2, <1>5, <1>12, <2>1, <2>2, Parts, UpConsumes
<1> QED
  BY <1>3, <1>7, <1>8, <1>11, <1>13, <1>14, <1>15 DEF ChatInv
------------------------------------------------------------------------------
LEMMA ChatInit == ASSUME Init PROVE ChatInv
<1> USE DEF Init
<1>0. \A c \in Clients : /\ Client(c) \in Ends /\ Session(c) \in Ends
  BY EndFacts
<1>1. Shapes
  <2>1. \A c \in Clients : Lines[c] \in Nat
    BY ChatAssumption
  <2>2. \A c \in Clients : 0 <= Lines[c]
    BY <2>1
  <2> QED
    BY <2>2 DEF Shapes
<1>2. RecentInv
  BY ChatAssumption DEF RecentInv
<1>3. \A x \in Ends : Writer(x)
  BY DEF Writer
<1>4. ASSUME NEW c \in Clients PROVE Untouched(c) /\ Quiet(c) /\ Down(c)
  BY <1>0 DEF Untouched, Quiet, Down
<1>5. ASSUME NEW c \in Clients PROVE Up(c)
  <2>1. Consumed(c) = 0
    <3>1. Room!SaidBy(c) = 0
      <4>1. {i \in DOMAIN log : log[i].by = c} = {}
        OBVIOUS
      <4>2. Room!SaidBy(c) = Cardinality({i \in DOMAIN log : log[i].by = c})
        BY Zenon DEF Room!SaidBy, Room!Cardinality, Cardinality
      <4> QED
        BY <4>1, <4>2, FS_EmptySet
    <3>2. reading[Session(c)] # "body"
      BY <1>0
    <3> QED
      BY <3>1, <3>2 DEF Consumed
  <2>2. wire[Client(c)] = <<>> /\ ~HeaderSent(Client(c)) /\ Unsent(Client(c)) = <<>>
    BY <1>0 DEF HeaderSent, Unsent
  <2>3. UpWire(c)
    BY <2>2 DEF UpWire
  <2>4. UpQueue(c, 0)
    BY <2>1, <2>2 DEF UpQueue, Numbered
  <2> QED
    BY <2>3, <2>4 DEF Up
<1> QED
  BY <1>1, <1>2, <1>3, <1>4, <1>5 DEF ChatInv

LEMMA ChatStutter == ASSUME ChatInv, UNCHANGED vars PROVE ChatInv'
<1> USE DEF vars
<1>1. Shapes' /\ RecentInv'
  BY DEF ChatInv, Shapes, RecentInv
<1>2. ASSUME NEW x \in Ends PROVE Writer(x)'
  BY WriterSame DEF ChatInv
<1>3. ASSUME NEW c \in Clients PROVE Untouched(c)' /\ Quiet(c)' /\ Up(c)' /\ Down(c)'
  BY Parts, Bystander DEF Local
<1> QED
  BY <1>1, <1>2, <1>3 DEF ChatInv

LEMMA ChatNext == ASSUME ChatInv, [Next]_vars PROVE ChatInv'
<1>1. ASSUME NEW c \in Clients,
             \/ HandleAccept(c) \/ HandleConnect(c) \/ DoWrite(c) \/ Destroy(c)
             \/ Type(c) \/ HandleReadInput(c) \/ Quit(c) \/ Break(c) \/ SendBad(c)
      PROVE  ChatInv'
  <2>1. ASSUME Destroy(c) \/ Break(c) PROVE ChatInv'
    BY <2>1, ChatCut DEF Destroy, Break
  <2> QED
    BY <1>1, <2>1, ChatAccept, ChatConnect, ChatDoWrite, ChatType, ChatReadInput, ChatQuit,
       ChatSendBad
<1>2. ASSUME NEW x \in Ends, Transfer(x) \/ ReadHandler(x) \/ WriteHandler(x) PROVE ChatInv'
  <2>0. PICK c \in Clients : c = x[1] /\ (x = Client(c) \/ x = Session(c))
    BY EndFacts
  <2>1. CASE Transfer(x)
    BY <2>0, <2>1, ChatClientTransfers, ChatSessionTransfers
  <2>2. CASE WriteHandler(x)
    BY <2>0, <2>2, ChatHandleWrite, ChatClientWriteError, ChatSessionWriteError DEF WriteHandler
  <2>3. CASE ReadHandler(x)
    <3>1. CASE HandleReadHeader(x)
      BY <2>0, <3>1, ChatClientReadHeader, ChatSessionReadHeader
    <3>2. CASE HandleReadError(x)
      BY <3>2, ChatReadError
    <3>3. CASE SessionReadBody(c) \/ ClientReadBody(c) \/ HandleWriteOutput(c)
      BY <3>3, ChatSessionReadBody, ChatClientReadBody, ChatWriteOutput
    <3> QED
      BY <2>0, <2>3, <3>1, <3>2, <3>3 DEF ReadHandler
  <2> QED
    BY <1>2, <2>1, <2>2, <2>3
<1>3. CASE UNCHANGED vars
  BY <1>3, ChatStutter
<1> QED
  BY <1>1, <1>2, <1>3 DEF Next

(* The two streams of every connection and the recent messages are, after  *)
(* any handler of either end, as ChatInv says.                             *)
THEOREM ChatInvariant == Spec => []ChatInv
<1>1. Init => ChatInv
  BY ChatInit
<1>2. ChatInv /\ [Next]_vars => ChatInv'
  BY ChatNext
<1> QED
  BY <1>1, <1>2, PTL DEF Spec
------------------------------------------------------------------------------
LEMMA ChatTyped == ASSUME ChatInv PROVE TypeOK
<1>1. ASSUME NEW c \in Clients
      PROVE  /\ conn[c] \in {"new", "connected", "accepted"} /\ cut[c] \in BOOLEAN
             /\ typed[c] \in 0..Lines[c] /\ posted[c] \in Seq([by : {c}, n : 1..Lines[c]])
             /\ since[c] \in 0..(Len(log) + 1)
  <2>1. Shapes
    BY Parts
  <2>2. Lines[c] \in Nat
    BY ChatAssumption
  <2>3. since[c] \in 0..(Len(log) + 1)
    <3>1. since[c] \in Nat /\ Len(log) \in Nat
      BY <2>1 DEF Shapes
    <3>2. CASE conn[c] # "accepted"
      BY <3>1, <3>2, Parts DEF Untouched
    <3>3. CASE conn[c] = "accepted"
      <4>1. PICK s \in Nat : since[c] + s + Len(Unsent(Session(c))) <= Len(log) + 1
        BY <3>3, Parts DEF Down, DownQueue
      <4>2. Len(Unsent(Session(c))) \in Nat
        BY Parts, WriterFacts
      <4> DEFINE u == Len(Unsent(Session(c)))
                 l == Len(log)
                 a == since[c]
      <4> HIDE DEF u, l, a
      <4>3. a + s + u <= l + 1 /\ a \in Nat /\ u \in Nat /\ l \in Nat
        BY <3>1, <4>1, <4>2 DEF u, l, a
      <4>4. a \in 0..(l + 1)
        BY <4>3
      <4> QED
        BY <4>4 DEF a, l
    <3> QED
      BY <3>2, <3>3
  <2>4. typed[c] \in 0..Lines[c]
    BY <2>1, <2>2 DEF Shapes
  <2> QED
    BY <2>1, <2>3, <2>4 DEF Shapes
<1>2. ASSUME NEW x \in Ends
      PROVE  /\ queue[x] \in Seq([by : Clients, n : Nat]) /\ Len(writes[x]) <= 1
             /\ reading[x] \in {"off", "header", "body"} \cup
                  {"output" : c \in {d \in Posix : x = Client(d)}}
  <2>1. Shapes /\ Writer(x)
    BY DEF ChatInv
  <2>2. queue[x] \in Seq([by : Clients, n : Nat]) /\ Len(writes[x]) <= 1
    BY <2>1, WriterFacts DEF Messages
  <2>3. reading[x] \in {"off", "header", "body", "output"}
    BY <2>1 DEF Shapes
  <2>4. reading[x] = "output" => \E d \in Posix : x = Client(d)
    BY <2>1 DEF Shapes
  <2> QED
    BY <2>2, <2>3, <2>4
<1>3. participants \subseteq {c \in Clients : conn[c] = "accepted"}
  BY DEF ChatInv, Shapes
<1>4. Len(recent) <= MaxRecent
  <2> DEFINE l == Len(log)
             n == Len(recent)
  <2>1. n = (IF l > MaxRecent THEN MaxRecent ELSE l) /\ l \in Nat /\ MaxRecent \in Nat
    BY RecentFacts, ChatAssumption
  <2> HIDE DEF l, n
  <2>2. n <= MaxRecent
    BY <2>1
  <2> QED
    BY <2>2 DEF n
<1> QED
  BY <1>1, <1>2, <1>3, <1>4 DEF TypeOK

(* TypeOK for every instance: also that an end never has two writes under  *)
(* way (deliver and do_write test write_in_progress, handle_write starts   *)
(* the next one), and that chat_room keeps at most max_recent_msgs.        *)
THEOREM ChatTypes == Spec => []TypeOK
<1>1. ChatInv => TypeOK
  BY ChatTyped
<1> QED
  BY <1>1, ChatInvariant, PTL
------------------------------------------------------------------------------
(* The bodies on the wire are the messages between the r pieces read and   *)
(* the s messages sent.                                                    *)
LEMMA SentIs ==
  ASSUME ChatInv, NEW c \in participants, NEW r \in Nat, NEW s \in Nat,
         DownRead(c, r), DownSent(c, r, s), DownWire(c, r), DownQueue(c, s), since[c] >= 1
  PROVE  LET h == Len(heard[c]) IN
         /\ h \in Nat /\ h <= s
         /\ Sent(Session(c)) = [i \in 1..(s - h) |-> log[since[c] + h + i - 1]]
<1> DEFINE x == Session(c)
           ps == wire[x]
           w == Len(ps)
           h == Len(heard[c])
           a == since[c]
           first == IF ps # <<>> /\ IsBody(ps[1]) THEN 1 ELSE 2
           hs == IF HeaderSent(x) THEN 1 ELSE 0
<1>0. c \in Clients /\ Shapes
  BY DEF ChatInv, Shapes
<1>1. x \in Ends /\ ps \in Seq(Pieces) /\ w \in Nat /\ h \in Nat /\ a \in Nat
  <2>1. x \in Ends
    BY <1>0, EndFacts
  <2>2. ps \in Seq(Pieces) /\ heard[c] \in Seq(Messages) /\ a \in Nat
    BY <1>0, <2>1 DEF Shapes
  <2> QED
    BY <2>1, <2>2
<1>2. r + w = 2 * s + hs /\ hs \in {0, 1}
  BY DEF DownSent, DownQueue
<1>3. r \in {2 * h, 2 * h + 1}
  BY DEF DownRead
<1>4. \A i \in 1..w : \A n \in Nat :
        /\ r + i = 2 * n + 1 => ps[i] = Header(log[a + n])
        /\ r + i = 2 * n + 2 => ps[i] = Body(log[a + n])
  BY DEF DownWire
<1>5. \A m : IsBody(Body(m)) /\ ~IsBody(Header(m)) /\ Body(m).of = m
  BY DEF IsBody, Body, Header
<1>6. (ps # <<>> => w >= 1) /\ (ps = <<>> => w = 0)
  BY <1>1
<1>7. /\ r = 2 * h /\ w >= 1 => first = 2
      /\ r = 2 * h + 1 /\ w >= 1 => first = 1
      /\ w = 0 => first = 2
  <2>1. ASSUME r = 2 * h, w >= 1 PROVE first = 2
    <3>1. r + 1 = 2 * h + 1 /\ 1 \in 1..w
      <4> HIDE DEF h, w
      <4> QED
        BY <1>1, <2>1
    <3>2. ps[1] = Header(log[a + h])
      BY <1>1, <1>4, <3>1
    <3> QED
      BY <1>5, <3>2
  <2>2. ASSUME r = 2 * h + 1, w >= 1 PROVE first = 1
    <3>1. r + 1 = 2 * h + 2 /\ 1 \in 1..w /\ w # 0
      <4> HIDE DEF h, w
      <4> QED
        BY <1>1, <2>2
    <3>2. ps[1] = Body(log[a + h])
      BY <1>1, <1>4, <3>1
    <3> QED
      BY <1>5, <1>6, <3>1, <3>2
  <2>3. ASSUME w = 0 PROVE first = 2
    <3>1. ps = <<>>
      BY <1>1, <2>3
    <3> QED
      BY <3>1
  <2> QED
    BY <2>1, <2>2, <2>3
<1>8. Sent(x) = [i \in 1..((w + 2 - first) \div 2) |-> ps[2 * (i - 1) + first].of]
  BY DEF Sent
<1> HIDE DEF ps, w, h, a, first, hs
<1>9. first \in {1, 2} /\ (w = 0 \/ w >= 1) /\ h <= s
  BY <1>1, <1>2, <1>3, <1>7
<1>10. (w + 2 - first) \div 2 = s - h
  <2>1. r = 2 * h \/ r = 2 * h + 1
    BY <1>3
  <2>2. w + 2 - first = 2 * (s - h) + hs \/ w + 2 - first = 2 * (s - h)
    BY <1>1, <1>2, <1>7, <1>9, <2>1
  <2> QED
    BY <1>1, <1>2, <1>9, <2>2
<1>11. ASSUME NEW i \in 1..(s - h) PROVE ps[2 * (i - 1) + first].of = log[a + h + i - 1]
  <2>1. w >= 1
    BY <1>1, <1>2, <1>3, <1>9
  <2>2. 2 * (i - 1) + first \in 1..w /\ r + (2 * (i - 1) + first) = 2 * (h + i - 1) + 2
    <3>1. r = 2 * h \/ r = 2 * h + 1
      BY <1>3
    <3>2. CASE r = 2 * h
      BY <1>1, <1>2, <1>7, <1>9, <2>1, <3>2
    <3>3. CASE r = 2 * h + 1
      BY <1>1, <1>2, <1>7, <1>9, <2>1, <3>3
    <3> QED
      BY <3>1, <3>2, <3>3
  <2>3. h + i - 1 \in Nat /\ a + (h + i - 1) = a + h + i - 1
    BY <1>1
  <2>4. ps[2 * (i - 1) + first] = Body(log[a + (h + i - 1)])
    BY <1>4, <2>2, <2>3
  <2> QED
    BY <1>5, <2>3, <2>4
<1>12. Sent(x) = [i \in 1..(s - h) |-> log[a + h + i - 1]]
  BY <1>8, <1>10, <1>11
<1> QED
  BY <1>1, <1>9, <1>12 DEF h, a

(* What is printed, on the wire and unsent are three successive parts of the log. *)
LEMMA ChatSkipsNothing == ASSUME ChatInv PROVE NothingSkipped
<1> SUFFICES ASSUME NEW c \in participants
             PROVE  heard[c] \o Sent(Session(c)) \o Unsent(Session(c))
                      = SubSeq(log, since[c], Len(log))
  BY DEF NothingSkipped
<1> DEFINE x == Session(c)
           hs == heard[c]
           ss == Sent(x)
           us == Unsent(x)
           h == Len(hs)
           u == Len(us)
           a == since[c]
           l == Len(log)
<1>0. c \in Clients /\ Shapes /\ conn[c] = "accepted"
  BY DEF ChatInv, Shapes
<1>1. /\ x \in Ends /\ hs \in Seq(Messages) /\ us \in Seq(Messages) /\ log \in Seq(Messages)
      /\ h \in Nat /\ u \in Nat /\ a \in Nat /\ l \in Nat
  <2>1. x \in Ends /\ Writer(x)
    BY <1>0, Parts
  <2>2. us \in Seq(Messages)
    BY <1>0, <2>1, WriterFacts
  <2>3. hs \in Seq(Messages) /\ log \in Seq(Messages) /\ a \in Nat
    BY <1>0 DEF Shapes
  <2> QED
    BY <2>1, <2>2, <2>3
<1>2. a >= 1 /\ DownHeard(c)
  BY <1>0, Parts DEF Down
<1>3. PICK r \in Nat, s \in Nat : /\ DownRead(c, r) /\ DownSent(c, r, s)
                                  /\ DownWire(c, r) /\ DownQueue(c, s)
  BY <1>0, Parts DEF Down
<1>4. h <= s /\ ss = [i \in 1..(s - h) |-> log[a + h + i - 1]]
  BY <1>2, <1>3, SentIs
<1>5. /\ \A k \in 1..h : hs[k] = log[a + k - 1]
      /\ \A k \in 1..u : us[k] = log[a + s + k - 1]
      /\ a + s + u = l + 1
  BY <1>2, <1>3 DEF DownHeard, DownQueue
<1> HIDE DEF hs, ss, us, h, u, a, l
<1>6. ss \in Seq(Messages) /\ Len(ss) = s - h
  <2>1. s - h \in Nat
    BY <1>1, <1>4
  <2>2. ASSUME NEW i \in 1..(s - h) PROVE log[a + h + i - 1] \in Messages
    <3>1. a + h + i - 1 \in 1..l
      BY <1>1, <1>2, <1>4, <1>5
    <3> QED
      BY <1>1, <3>1, ElementOfSeq DEF l
  <2> QED
    BY <1>4, <2>1, <2>2
<1> DEFINE hss == hs \o ss
           all == hss \o us
           sub == SubSeq(log, a, l)
<1>7. /\ hss \in Seq(Messages) /\ Len(hss) = s
      /\ \A i \in 1..s : hss[i] = log[a + i - 1]
  <2>1. /\ hss \in Seq(Messages) /\ Len(hss) = h + (s - h)
        /\ \A i \in 1..(h + (s - h)) : hss[i] = IF i <= h THEN hs[i] ELSE ss[i - h]
    BY <1>1, <1>6, ConcatProperties DEF h
  <2>2. h + (s - h) = s
    BY <1>1
  <2>3. ASSUME NEW i \in 1..s PROVE hss[i] = log[a + i - 1]
    <3>1. CASE i <= h
      <4>1. i \in 1..h
        BY <1>1, <3>1
      <4> QED
        BY <1>5, <2>1, <2>2, <3>1, <4>1
    <3>2. CASE ~(i <= h)
      <4>1. i - h \in 1..(s - h) /\ a + h + (i - h) - 1 = a + i - 1
        BY <1>1, <3>2
      <4>2. ss[i - h] = log[a + h + (i - h) - 1]
        BY <1>4, <4>1
      <4>3. hss[i] = ss[i - h]
        BY <2>1, <2>2, <3>2
      <4> QED
        BY <4>1, <4>2, <4>3
    <3> QED
      BY <3>1, <3>2
  <2> QED
    BY <2>1, <2>2, <2>3
<1> HIDE DEF hss
<1>8. /\ all \in Seq(Messages) /\ Len(all) = s + u
      /\ \A i \in 1..(s + u) : all[i] = log[a + i - 1]
  <2>1. /\ all \in Seq(Messages) /\ Len(all) = s + u
        /\ \A i \in 1..(s + u) : all[i] = IF i <= s THEN hss[i] ELSE us[i - s]
    BY <1>1, <1>7, ConcatProperties DEF u
  <2>2. ASSUME NEW i \in 1..(s + u) PROVE all[i] = log[a + i - 1]
    <3>1. CASE i <= s
      <4>1. i \in 1..s
        BY <1>1, <3>1
      <4> QED
        BY <1>7, <2>1, <3>1, <4>1
    <3>2. CASE ~(i <= s)
      <4>1. i - s \in 1..u /\ a + s + (i - s) - 1 = a + i - 1
        BY <1>1, <3>2
      <4>2. us[i - s] = log[a + s + (i - s) - 1]
        BY <1>5, <4>1
      <4>3. all[i] = us[i - s]
        BY <2>1, <3>2
      <4> QED
        BY <4>1, <4>2, <4>3
    <3> QED
      BY <3>1, <3>2
  <2> QED
    BY <2>1, <2>2
<1>9. /\ sub \in Seq(Messages) /\ Len(sub) = s + u
      /\ \A i \in 1..(s + u) : sub[i] = log[a + i - 1]
  <2>1. ASSUME NEW i \in a..l PROVE log[i] \in Messages
    <3>1. i \in 1..l
      BY <1>1, <1>2
    <3> QED
      BY <1>1, <3>1, ElementOfSeq DEF l
  <2>2. /\ sub \in Seq(Messages) /\ Len(sub) = IF a <= l THEN l - a + 1 ELSE 0
        /\ \A i \in 1..(l - a + 1) : sub[i] = log[a + i - 1]
    BY <1>1, <2>1, SubSeqProperties
  <2>3. l - a + 1 = s + u /\ (~(a <= l) => s + u = 0)
    BY <1>1, <1>5
  <2> QED
    BY <2>2, <2>3
<1> HIDE DEF all, sub
<1>10. all = sub
  BY <1>8, <1>9, SeqEqual
<1> QED
  BY <1>10 DEF all, hss, sub, hs, ss, us, a, l

(* chat_room::deliver and chat_session::deliver lose, repeat and reorder   *)
(* nothing: what a participant has printed, what is on its wire and what   *)
(* its session still has to write is the log from where it joined.         *)
THEOREM ChatLosesNothing == Spec => []NothingSkipped
<1>1. ChatInv => NothingSkipped
  BY ChatSkipsNothing
<1> QED
  BY <1>1, ChatInvariant, PTL
------------------------------------------------------------------------------
(* HandleAccept is a join of the room. *)
LEMMA RoomJoins ==
  ASSUME ChatInv, NEW c \in Clients, HandleAccept(c) PROVE Room!Join(c)
<1>1. since[c] = 0
  BY Parts DEF HandleAccept, Untouched
<1>2. since' = [since EXCEPT ![c] = Len(log) - Len(recent) + 1] /\ UNCHANGED <<log, heard>>
  BY DEF HandleAccept
<1>3. Len(log) - Len(recent) + 1 = IF Len(log) > MaxRecent THEN Len(log) - MaxRecent + 1 ELSE 1
  <2> DEFINE l == Len(log)
             n == Len(recent)
  <2>1. n = (IF l > MaxRecent THEN MaxRecent ELSE l) /\ l \in Nat /\ MaxRecent \in Nat
    BY RecentFacts, ChatAssumption
  <2> HIDE DEF l, n
  <2>2. l - n + 1 = IF l > MaxRecent THEN l - MaxRecent + 1 ELSE 1
    BY <2>1
  <2> QED
    BY <2>2 DEF l, n
<1> QED
  BY <1>1, <1>2, <1>3 DEF Room!Join

(* SessionReadBody says the next line of the client. *)
LEMMA RoomSays ==
  ASSUME ChatInv, NEW c \in Clients, SessionReadBody(c) PROVE Room!Say(c)
<1>1. Head(wire[Client(c)]).of = Message(c, Room!SaidBy(c) + 1)
  BY SessionSays
<1>2. log' = Append(log, Head(wire[Client(c)]).of) /\ UNCHANGED <<since, heard>>
  BY DEF SessionReadBody
<1> QED
  BY <1>1, <1>2 DEF Room!Say, Message, Room!Message

(* ClientReadBody hears the next message of the log. *)
LEMMA RoomHears ==
  ASSUME ChatInv, NEW c \in Clients, ClientReadBody(c) PROVE Room!Hear(c)
<1>1. /\ since[c] >= 1 /\ since[c] \in Nat
      /\ since[c] + Len(heard[c]) \in 1..Len(log)
      /\ heard' = [heard EXCEPT ![c] = Append(@, log[since[c] + Len(heard[c])])]
  BY ClientHears
<1>2. UNCHANGED <<log, since>>
  BY DEF ClientReadBody, room
<1>3. since[c] # 0 /\ since[c] + Len(heard[c]) <= Len(log)
  BY <1>1
<1> QED
  BY <1>1, <1>2, <1>3 DEF Room!Hear

(* Every other step leaves the log and what was heard alone. *)
LEMMA RoomStep ==
  ASSUME ChatInv, [Next]_vars PROVE [Room!Next]_Room!vars
<1>1. ASSUME NEW c \in Clients,
             \/ HandleConnect(c) \/ DoWrite(c) \/ Destroy(c)
             \/ Type(c) \/ HandleReadInput(c) \/ Quit(c) \/ Break(c) \/ SendBad(c)
      PROVE  UNCHANGED <<log, since, heard>>
  BY <1>1 DEF HandleConnect, DoWrite, Destroy, Type, HandleReadInput, Quit, Break, SendBad, room
<1>2. ASSUME NEW x \in Ends,
             \/ Transfer(x) \/ WriteHandler(x) \/ HandleReadHeader(x) \/ HandleReadError(x)
      PROVE  UNCHANGED <<log, since, heard>>
  <2>1. FailRead(x) \/ FailWrite(x) => UNCHANGED <<log, since>>
    BY DEF FailRead, FailWrite, Leave, room
  <2>2. CASE Transfer(x)
    BY <2>2 DEF Transfer, room
  <2>3. CASE WriteHandler(x)
    BY <2>1, <2>3 DEF WriteHandler, HandleWrite, HandleWriteError, room
  <2>4. CASE HandleReadHeader(x) \/ HandleReadError(x)
    BY <2>1, <2>4 DEF HandleReadHeader, HandleReadError, room
  <2> QED
    BY <1>2, <2>2, <2>3, <2>4
<1>3. ASSUME NEW c \in Clients, HandleWriteOutput(c) PROVE UNCHANGED <<log, since, heard>>
  BY <1>3 DEF HandleWriteOutput, room
<1>4. \A c \in Clients : HandleAccept(c) \/ SessionReadBody(c) \/ ClientReadBody(c) => Room!Next
  BY RoomJoins, RoomSays, RoomHears DEF Room!Next
<1>5. \A x \in Ends : x[1] \in Clients
  BY EndFacts
<1>6. CASE Next
  <2>1. \/ UNCHANGED <<log, since, heard>>
        \/ \E c \in Clients : HandleAccept(c) \/ SessionReadBody(c) \/ ClientReadBody(c)
    <3>1. CASE \E c \in Clients :
                 \/ HandleAccept(c) \/ HandleConnect(c) \/ DoWrite(c) \/ Destroy(c)
                 \/ Type(c) \/ HandleReadInput(c) \/ Quit(c) \/ Break(c) \/ SendBad(c)
      BY <1>1, <3>1
    <3>2. CASE \E x \in Ends : Transfer(x) \/ ReadHandler(x) \/ WriteHandler(x)
      BY <1>2, <1>3, <1>5, <3>2 DEF ReadHandler
    <3> QED
      BY <1>6, <3>1, <3>2 DEF Next
  <2> QED
    BY <1>4, <2>1 DEF Room!vars
<1>7. CASE UNCHANGED vars
  BY <1>7 DEF vars, Room!vars
<1> QED
  BY <1>6, <1>7

(* The server and its clients implement the room of ChatRoom: join starts  *)
(* at most max_recent_msgs back, the lines of one client are said in the   *)
(* order it typed them with none left out, and clients print the log in    *)
(* order and without a gap.                                                *)
THEOREM ChatIsARoom == Spec => RoomSpec
<1>1. Init => Room!Init
  BY DEF Init, Room!Init
<1>2. ChatInv /\ [Next]_vars => [Room!Next]_Room!vars
  BY RoomStep
<1> QED
  BY <1>1, <1>2, ChatInvariant, PTL DEF Spec, RoomSpec, Room!Spec
==============================================================================
