----------------------------- MODULE ThirdParty -----------------------------
(***************************************************************************)
(* An asio connection that drives a library which reads and writes the     *)
(* socket itself (cpp03/nonblocking/third_party_lib.cpp).  The connection  *)
(* waits with null_buffers until the socket is readable or writable and    *)
(* then lets the library do one non-blocking operation, which may find     *)
(* that the socket would block after all.  The library is the simulation   *)
(* of the example: it echoes what it reads.  Bytes are numbered as the     *)
(* peer sends them; the peer's end of the socket is external.              *)
(***************************************************************************)
EXTENDS Naturals, Sequences

CONSTANTS
  Sent,             \* bound: how many bytes the peer sends
  Capacity,         \* data_ (128 bytes)
  Room              \* the socket's send buffer

ThirdPartyAssumption ==
  Sent \in Nat /\ Capacity \in Nat \ {0} /\ Room \in Nat \ {0}

VARIABLES
  session,          \* third_party_lib::session: state_, write_buffer_
  conn,             \* connection: the socket, read_in_progress_, write_in_progress_
  ops,              \* its operations: none, pending, ready or aborted
  peer              \* what the peer sent and has received, and the bytes between

vars == <<session, conn, ops, peer>>

Init ==
  /\ session = [state_ |-> "reading", write_buffer_ |-> <<>>]
  /\ conn = [started |-> FALSE, open |-> TRUE, read_in_progress_ |-> FALSE,
             write_in_progress_ |-> FALSE]
  /\ ops = [read |-> "none", write |-> "none"]
  /\ peer = [sent |-> 0, closed |-> FALSE, reset |-> FALSE, inbound |-> <<>>,
             outbound |-> <<>>, received |-> <<>>]

want_read(s) == s.state_ = "reading"
want_write(s) == s.state_ = "writing"

(* An operation on a closed socket fails at once. *)
Started == IF conn.open THEN "pending" ELSE "aborted"

(* start_operations, for the library and the connection as they now are. *)
StartOperations(s, c, o) ==
  LET read == want_read(s) /\ ~c.read_in_progress_
      write == want_write(s) /\ ~c.write_in_progress_
  IN /\ conn' = [c EXCEPT !.read_in_progress_ = @ \/ read, !.write_in_progress_ = @ \/ write]
     /\ ops' = [read |-> IF read THEN Started ELSE o.read,
                write |-> IF write THEN Started ELSE o.write]

Aborted(op) == IF op = "pending" THEN "aborted" ELSE op

Close(c, o) ==
  /\ conn' = [c EXCEPT !.open = FALSE]
  /\ ops' = [read |-> Aborted(o.read), write |-> Aborted(o.write)]

Start ==
  /\ ~conn.started
  /\ StartOperations(session, [conn EXCEPT !.started = TRUE], ops)
  /\ UNCHANGED <<session, peer>>

-----------------------------------------------------------------------------
(* The peer and the socket. *)

Send ==
  /\ peer.sent < Sent /\ ~peer.closed /\ ~peer.reset
  /\ peer' = [peer EXCEPT !.sent = @ + 1, !.inbound = Append(@, peer.sent + 1)]
  /\ UNCHANGED <<session, conn, ops>>

PeerReceives ==
  /\ peer.outbound # <<>> /\ ~peer.reset
  /\ peer' = [peer EXCEPT !.received = Append(@, Head(peer.outbound)), !.outbound = Tail(@)]
  /\ UNCHANGED <<session, conn, ops>>

(* The peer has sent everything and shuts its sending side down. *)
PeerCloses ==
  /\ peer.sent = Sent /\ ~peer.closed
  /\ peer' = [peer EXCEPT !.closed = TRUE]
  /\ UNCHANGED <<session, conn, ops>>

PeerResets ==
  /\ ~peer.reset
  /\ peer' = [peer EXCEPT !.reset = TRUE, !.inbound = <<>>, !.outbound = <<>>]
  /\ UNCHANGED <<session, conn, ops>>

Readable == peer.inbound # <<>> \/ peer.closed \/ peer.reset
Writable == Len(peer.outbound) < Room \/ peer.reset

(* The reactor reports that the socket is ready.  A wakeup may be spurious:*)
(* read_some or write_some then finds that it would block.                 *)
Ready(op) ==
  /\ ops[op] = "pending"
  /\ ops' = [ops EXCEPT ![op] = "ready"]
  /\ UNCHANGED <<session, conn, peer>>

-----------------------------------------------------------------------------
(* The handlers; one whose wait was aborted is given an error, and does    *)
(* not let the library do its operation.                                   *)

(* Mutant: a socket that would block after all is taken for a failure. *)
AfterOperationGivesUp(ec, s, c, o) ==
  IF ec = "ok" THEN StartOperations(s, c, o) ELSE Close(c, o)

(* Mutant: the end of the stream is not taken for one. *)
AfterOperationAlways(ec, s, c, o) ==
  IF ec # "error" THEN StartOperations(s, c, o) ELSE Close(c, o)

AfterOperation(ec, s, c, o) ==
  IF ec \in {"ok", "would_block"} THEN StartOperations(s, c, o) ELSE Close(c, o)

ReadResult ==
  CASE ops.read = "aborted" \/ peer.reset -> "error"
    [] peer.inbound # <<>> -> "ok"
    [] peer.closed -> "eof"
    [] OTHER -> "would_block"

(* read_some takes up to data_'s size of what is there. *)
HandleRead ==
  /\ ops.read \in {"ready", "aborted"}
  /\ LET c == [conn EXCEPT !.read_in_progress_ = FALSE]
         o == [ops EXCEPT !.read = "none"]
     IN IF ReadResult = "ok"
        THEN \E len \in 1..Capacity :
               /\ len <= Len(peer.inbound)
               /\ session' = [write_buffer_ |-> SubSeq(peer.inbound, 1, len),
                              state_ |-> "writing"]
               /\ peer' = [peer EXCEPT !.inbound = SubSeq(@, len + 1, Len(@))]
               /\ AfterOperation("ok", session', c, o)
        ELSE /\ AfterOperation(ReadResult, session, c, o)
             /\ UNCHANGED <<session, peer>>

WriteResult ==
  CASE ops.write = "aborted" \/ peer.reset -> "error"
    [] Len(peer.outbound) < Room -> "ok"
    [] OTHER -> "would_block"

(* Mutant: what did not fit is forgotten. *)
WrittenOnce(len) == [write_buffer_ |-> <<>>, state_ |-> "reading"]

(* write_some takes what fits; the rest stays to be written. *)
Written(len) ==
  LET rest == SubSeq(session.write_buffer_, len + 1, Len(session.write_buffer_)) IN
  [write_buffer_ |-> rest, state_ |-> IF rest = <<>> THEN "reading" ELSE "writing"]

HandleWrite ==
  /\ ops.write \in {"ready", "aborted"}
  /\ LET c == [conn EXCEPT !.write_in_progress_ = FALSE]
         o == [ops EXCEPT !.write = "none"]
     IN IF WriteResult = "ok"
        THEN \E len \in 1..Len(session.write_buffer_) :
               /\ len <= Room - Len(peer.outbound)
               /\ session' = Written(len)
               /\ peer' = [peer EXCEPT !.outbound =
                             @ \o SubSeq(session.write_buffer_, 1, len)]
               /\ AfterOperation("ok", session', c, o)
        ELSE /\ AfterOperation(WriteResult, session, c, o)
             /\ UNCHANGED <<session, peer>>

-----------------------------------------------------------------------------
Waits == {"read", "write"}

Next ==
  \/ Start
  \/ Send \/ PeerReceives \/ PeerCloses \/ PeerResets
  \/ \E op \in Waits : Ready(op)
  \/ HandleRead \/ HandleWrite

Spec == Init /\ [][Next]_vars

-----------------------------------------------------------------------------
TypeOK ==
  /\ session.state_ \in {"reading", "writing"}
  /\ Len(session.write_buffer_) <= Capacity
  /\ ops \in [Waits -> {"none", "pending", "ready", "aborted"}]
  /\ Len(peer.outbound) <= Room

(* The bytes the peer has back, those on their way and those the library   *)
(* still has to write are the first bytes it sent, in their order: partial *)
(* reads, partial writes and false alarms lose and repeat nothing.         *)
EchoesInOrder ==
  LET echo == peer.received \o peer.outbound \o session.write_buffer_ \o peer.inbound IN
  ~peer.reset => echo = [n \in 1..peer.sent |-> n]

(* Unless the peer resets the connection, everything it sends comes back,  *)
(* and the connection object dies: no operation holds it any more.         *)
AllComesBack ==
  <>(peer.reset \/ Len(peer.received) = Sent)

Dies == <>[](conn.started /\ ops.read = "none" /\ ops.write = "none")
=============================================================================
