----------------------------- MODULE HttpServer -----------------------------
(***************************************************************************)
(* The HTTP server (cpp03/http/server; cpp11/http/server is the same): the *)
(* acceptor, the connections and the connection_manager that owns them,    *)
(* and the signal that stops the server.  One thread runs the handlers     *)
(* that are ready, in any order; a connection lives as long as the manager *)
(* or an operation holds it.                                               *)
(***************************************************************************)
EXTENDS Integers, FiniteSets

CONSTANT Connections    \* bound: the connections that exist at a time

ConnectionsAssumption == IsFiniteSet(Connections)

VARIABLES
  acceptor_open,    \* acceptor_.is_open()
  accept,           \* the asynchronous accept: none, pending, ok, error
  new_connection_,  \* the connection the accept is for
  signal,           \* the wait for a signal: pending, ready, none
  connections_,     \* connection_manager::connections_
  open,             \* sockets that are open
  op                \* per connection: its operation <<kind, outcome>>

vars == <<acceptor_open, accept, new_connection_, signal, connections_, open, op>>

None == <<"none", "none">>

(* Outcomes of an operation: pending; ok (a read also says what parse      *)
(* makes of the data); failed; aborted by a close.  A new operation on a   *)
(* closed socket fails.                                                    *)
Read(c) == <<"read", IF c \in open THEN "pending" ELSE "failed">>
Write(c) == <<"write", IF c \in open THEN "pending" ELSE "failed">>
Abort(o) == IF o[2] = "pending" THEN <<o[1], "aborted">> ELSE o

(* server(): handlers for the signals, and start_accept. *)
Init ==
  /\ acceptor_open = TRUE /\ signal = "pending"
  /\ accept = "pending" /\ new_connection_ \in Connections
  /\ connections_ = {} /\ open = {}
  /\ op = [c \in Connections |-> None]
------------------------------------------------------------------------------
(* start_accept makes a new connection, here one that is over. *)
StartAccept ==
  /\ accept' = "pending"
  /\ new_connection_' \in
       {c \in Connections \ {new_connection_} : op[c] = None /\ c \notin open}

(* Mutant: handle_accept does not look whether the server was stopped. *)
HandleAcceptUnchecked ==
  /\ accept \in {"ok", "error"}
  /\ \/ /\ accept = "ok"
        /\ connections_' = connections_ \cup {new_connection_}
        /\ open' = open \cup {new_connection_}
        /\ op' = [op EXCEPT ![new_connection_] = <<"read", "pending">>]
        /\ IF acceptor_open THEN StartAccept ELSE accept' = "none" /\ UNCHANGED new_connection_
     \/ /\ accept = "error"
        /\ accept' = IF acceptor_open THEN "pending" ELSE "none"
        /\ UNCHANGED <<new_connection_, connections_, open, op>>
  /\ UNCHANGED <<acceptor_open, signal>>

(* Mutant: an accept that failed is the last one. *)
HandleAcceptGivesUp ==
  /\ accept \in {"ok", "error"}
  /\ \/ /\ ~acceptor_open \/ accept = "error"
        /\ accept' = "none"
        /\ UNCHANGED <<new_connection_, connections_, open, op>>
     \/ /\ acceptor_open /\ accept = "ok"
        /\ connections_' = connections_ \cup {new_connection_}
        /\ open' = open \cup {new_connection_}
        /\ op' = [op EXCEPT ![new_connection_] = <<"read", "pending">>]
        /\ StartAccept
  /\ UNCHANGED <<acceptor_open, signal>>

(* handle_accept: connection_manager::start, then the next accept. *)
HandleAccept ==
  /\ accept \in {"ok", "error"}
  /\ \/ /\ ~acceptor_open
        /\ accept' = "none"
        /\ UNCHANGED <<new_connection_, connections_, open, op>>
     \/ /\ acceptor_open /\ accept = "ok"
        /\ connections_' = connections_ \cup {new_connection_}
        /\ open' = open \cup {new_connection_}
        /\ op' = [op EXCEPT ![new_connection_] = <<"read", "pending">>]
        /\ StartAccept
     \/ /\ acceptor_open /\ accept = "error"
        /\ accept' = "pending"
        /\ UNCHANGED <<new_connection_, connections_, open, op>>
  /\ UNCHANGED <<acceptor_open, signal>>

(* connection_manager::stop of a connection whose handler ran *)
Stop(c) ==
  /\ connections_' = connections_ \ {c}
  /\ open' = open \ {c}
  /\ op' = [op EXCEPT ![c] = None]

(* Mutant: handle_read takes every error for an abort. *)
HandleReadForgets(c) ==
  /\ op[c][1] = "read" /\ op[c][2] # "pending"
  /\ \/ /\ op[c][2] \in {"request", "bad_request"}
        /\ op' = [op EXCEPT ![c] = Write(c)]
     \/ op[c][2] = "more" /\ op' = [op EXCEPT ![c] = Read(c)]
     \/ op[c][2] \in {"failed", "aborted"} /\ op' = [op EXCEPT ![c] = None]
  /\ UNCHANGED <<acceptor_open, accept, new_connection_, signal, connections_, open>>

(* handle_read *)
HandleRead(c) ==
  /\ op[c][1] = "read" /\ op[c][2] # "pending"
  /\ \/ /\ op[c][2] \in {"request", "bad_request"}
        /\ op' = [op EXCEPT ![c] = Write(c)]
        /\ UNCHANGED <<connections_, open>>
     \/ /\ op[c][2] = "more"
        /\ op' = [op EXCEPT ![c] = Read(c)]
        /\ UNCHANGED <<connections_, open>>
     \/ /\ op[c][2] = "failed" /\ Stop(c)
     \/ /\ op[c][2] = "aborted"
        /\ op' = [op EXCEPT ![c] = None]
        /\ UNCHANGED <<connections_, open>>
  /\ UNCHANGED <<acceptor_open, accept, new_connection_, signal>>

(* handle_write *)
HandleWrite(c) ==
  /\ op[c][1] = "write" /\ op[c][2] # "pending"
  /\ \/ op[c][2] \in {"ok", "failed"} /\ Stop(c)
     \/ /\ op[c][2] = "aborted"
        /\ op' = [op EXCEPT ![c] = None]
        /\ UNCHANGED <<connections_, open>>
  /\ UNCHANGED <<acceptor_open, accept, new_connection_, signal>>

(* Mutant: stop_all clears the set and closes nothing. *)
HandleStopClears ==
  /\ signal = "ready"
  /\ signal' = "none"
  /\ acceptor_open' = FALSE
  /\ accept' = IF accept = "pending" THEN "error" ELSE accept
  /\ connections_' = {}
  /\ UNCHANGED <<new_connection_, open, op>>

(* handle_stop: the acceptor closes, connection_manager::stop_all. *)
HandleStop ==
  /\ signal = "ready"
  /\ signal' = "none"
  /\ acceptor_open' = FALSE
  /\ accept' = IF accept = "pending" THEN "error" ELSE accept
  /\ open' = open \ connections_
  /\ op' = [c \in Connections |-> IF c \in connections_ THEN Abort(op[c]) ELSE op[c]]
  /\ connections_' = {}
  /\ UNCHANGED new_connection_
------------------------------------------------------------------------------
(* External: a client connects, or the accept fails; data arrives, the     *)
(* client goes, the reply is sent; the signal.                             *)
Connect ==
  /\ accept = "pending" /\ accept' \in {"ok", "error"}
  /\ UNCHANGED <<acceptor_open, new_connection_, signal, connections_, open, op>>

Transfer(c) ==
  /\ op[c][2] = "pending"
  /\ \/ /\ op[c][1] = "read"
        /\ \E o \in {"request", "bad_request", "more", "failed"} :
             op' = [op EXCEPT ![c] = <<"read", o>>]
     \/ /\ op[c][1] = "write"
        /\ \E o \in {"ok", "failed"} : op' = [op EXCEPT ![c] = <<"write", o>>]
  /\ UNCHANGED <<acceptor_open, accept, new_connection_, signal, connections_, open>>

Signal ==
  /\ signal = "pending" /\ signal' = "ready"
  /\ UNCHANGED <<acceptor_open, accept, new_connection_, connections_, open, op>>

Next ==
  \/ HandleAccept \/ HandleStop \/ Connect \/ Signal
  \/ \E c \in Connections : HandleRead(c) \/ HandleWrite(c) \/ Transfer(c)

Spec == Init /\ [][Next]_vars
------------------------------------------------------------------------------
TypeOK ==
  /\ acceptor_open \in BOOLEAN /\ accept \in {"none", "pending", "ok", "error"}
  /\ new_connection_ \in Connections /\ signal \in {"pending", "ready", "none"}
  /\ open \subseteq Connections /\ connections_ \subseteq open
  /\ \A c \in Connections : op[c] \in
       {None} \cup ({"read"} \X {"pending", "request", "bad_request", "more", "failed", "aborted"})
              \cup ({"write"} \X {"pending", "ok", "failed", "aborted"})

(* Every open connection is in the manager and has an operation under way  *)
(* whose handler will stop it: no path through handle_read and             *)
(* handle_write forgets one.                                               *)
Managed ==
  \A c \in open : c \in connections_ /\ op[c] # None /\ op[c][2] # "aborted"

(* An operation that may last belongs to a connection of the manager, so   *)
(* that stop_all reaches it.                                               *)
Tended == \A c \in Connections : op[c][2] = "pending" => c \in connections_

(* While the server is running there is an accept outstanding. *)
KeepsAccepting == acceptor_open => accept # "none"

(* Once the server was told to stop, nothing stays outstanding and run     *)
(* returns: no handler that was queued before the acceptor and the sockets *)
(* were closed starts anything that lasts.                                 *)
RunReturns ==
  /\ accept = "none" /\ signal = "none"
  /\ \A c \in Connections : op[c] = None
Shutdown == (signal = "ready") ~> RunReturns
==============================================================================
