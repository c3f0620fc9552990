----------------------------- MODULE ForkServer -----------------------------
(***************************************************************************)
(* The process-per-connection server of the asio examples                  *)
(* (cpp03/fork/process_per_connection.cpp).  The parent accepts, forks and *)
(* waits for SIGCHLD; a child closes the acceptor, cancels the signal wait *)
(* it inherited and echoes on its connection until an operation fails,     *)
(* when its io_service runs out of work and it exits.  Signals are not     *)
(* queued: children that end while a SIGCHLD is pending raise no other.    *)
(***************************************************************************)
EXTENDS Naturals

CONSTANT Children   \* bound: the processes fork may create

(* Parent and children run the same server object.  Its operations are     *)
(* signal, accept, read and write: each waiting, or completed (ready or    *)
(* failed) with its handler queued.                                        *)
VARIABLES
  server,           \* of every process: whether acceptor_ and socket_ are open, and the operations
  process,          \* unborn, running, zombie or reaped
  sigchld,          \* whether a SIGCHLD is pending at the parent
  gone              \* the children whose peer closed the connection

vars == <<server, process, sigchld, gone>>

Parent == "parent"
Processes == Children \cup {Parent}

ForkAssumption == Parent \notin Children

NoOps == [op \in {"signal", "accept", "read", "write"} |-> "none"]

(* The constructor: start_signal_wait and start_accept. *)
Init ==
  /\ server = [p \in Processes |->
                 [acceptor |-> TRUE, socket |-> FALSE,
                  ops |-> [NoOps EXCEPT !["signal"] = "waiting", !["accept"] = "waiting"]]]
  /\ process = [p \in Processes |-> IF p = Parent THEN "running" ELSE "unborn"]
  /\ sigchld = FALSE /\ gone = {}

Completed(s, op, result) ==
  [s EXCEPT !.socket = @ \/ (op = "accept" /\ result = "ready"), !.ops = [@ EXCEPT ![op] = result]]

(* External: a connection arrives, a read or a write completes or fails;   *)
(* the peer of a child goes, and no operation succeeds any more.  A        *)
(* connection is accepted only into a socket that is not open.             *)
Complete(p, op) ==
  /\ process[p] = "running" /\ op # "signal" /\ server[p].ops[op] = "waiting"
  /\ \E result \in {"ready", "failed"} :
       /\ p \in gone \/ (op = "accept" /\ server[p].socket) => result = "failed"
       /\ server' = [server EXCEPT ![p] = Completed(server[p], op, result)]
  /\ UNCHANGED <<process, sigchld, gone>>

PeerGoes(c) ==
  /\ c \in Children \ gone /\ process[c] = "running"
  /\ gone' = gone \cup {c}
  /\ UNCHANGED <<server, process, sigchld>>

(* The signal set of the parent sees the pending signal.  The children's   *)
(* sets never do: they have no children.                                   *)
Signalled ==
  /\ sigchld /\ server[Parent].ops["signal"] = "waiting"
  /\ server' = [server EXCEPT ![Parent].ops["signal"] = "ready"]
  /\ sigchld' = FALSE
  /\ UNCHANGED <<process, gone>>

(* Mutant: one call of waitpid for each signal. *)
ReapedOne(p) ==
  IF p = Parent /\ \E c \in Children : process[c] = "zombie"
  THEN [process EXCEPT ![CHOOSE c \in Children : process[c] = "zombie"] = "reaped"]
  ELSE process

(* waitpid, until no child is left that has ended *)
Reaped(p) ==
  [c \in Processes |-> IF p = Parent /\ process[c] = "zombie" THEN "reaped" ELSE process[c]]

(* Only a process whose acceptor is open reaps and waits again. *)
HandleSignalWait(p) ==
  /\ process[p] = "running" /\ server[p].ops["signal"] = "ready"
  /\ IF server[p].acceptor
     THEN /\ process' = Reaped(p)
          /\ server' = [server EXCEPT ![p].ops["signal"] = "waiting"]
     ELSE /\ server' = [server EXCEPT ![p].ops["signal"] = "none"]
          /\ UNCHANGED process
  /\ UNCHANGED <<sigchld, gone>>

(* Mutant: the child leaves the acceptor open. *)
ChildOfOpen(s) ==
  [s EXCEPT !.ops = [@ EXCEPT !["accept"] = "none", !["signal"] = "ready", !["read"] = "waiting"]]

(* What the child does with its copy of the server: acceptor_.close,       *)
(* signal_.cancel, start_read.  A signal wait that was ready in the parent *)
(* is ready in the copy too.                                               *)
ChildOf(s) ==
  [s EXCEPT !.acceptor = FALSE, !.ops = [@ EXCEPT !["accept"] = "none",
                                                  !["signal"] = "ready", !["read"] = "waiting"]]

(* Mutant: the parent does not close its copy of the child's socket. *)
AcceptAgainUnclosed(s) == [s EXCEPT !.ops = [@ EXCEPT !["accept"] = "waiting"]]

(* What the parent does with its own: socket_.close, start_accept. *)
AcceptAgain(s) == [s EXCEPT !.socket = FALSE, !.ops = [@ EXCEPT !["accept"] = "waiting"]]

(* handle_accept runs in the parent only: a child has no accept under way. *)
HandleAccept(p) ==
  /\ process[p] = "running" /\ server[p].ops["accept"] = "ready"
  /\ \E c \in Children :
       /\ process[c] = "unborn"
       /\ process' = [process EXCEPT ![c] = "running"]
       /\ server' = [server EXCEPT ![c] = ChildOf(server[p]), ![p] = AcceptAgain(server[p])]
  /\ UNCHANGED <<sigchld, gone>>

(* An accept error, or a fork that failed: accept again. *)
HandleAcceptError(p) ==
  /\ process[p] = "running"
  /\ \/ /\ server[p].ops["accept"] = "failed"
        /\ server' = [server EXCEPT ![p].ops["accept"] = "waiting"]
     \/ /\ server[p].ops["accept"] = "ready"
        /\ server' = [server EXCEPT ![p] = AcceptAgain(server[p])]
  /\ UNCHANGED <<process, sigchld, gone>>

(* handle_read and handle_write alternate until an operation fails. *)
Other(op) == IF op = "read" THEN "write" ELSE "read"

Echo(p, op) ==
  /\ process[p] = "running" /\ op \in {"read", "write"}
  /\ server[p].ops[op] \in {"ready", "failed"}
  /\ server' = [server EXCEPT ![p].ops[op] = "none",
                  ![p].ops[Other(op)] = IF server[p].ops[op] = "ready" THEN "waiting" ELSE @]
  /\ UNCHANGED <<process, sigchld, gone>>

(* io_service::run returns and main ends: the parent is signalled. *)
Exit(p) ==
  /\ process[p] = "running" /\ server[p].ops = NoOps
  /\ process' = [process EXCEPT ![p] = "zombie"]
  /\ sigchld' = TRUE
  /\ UNCHANGED <<server, gone>>

-----------------------------------------------------------------------------
Next ==
  \/ Signalled
  \/ \E p \in Processes :
       \/ HandleSignalWait(p) \/ HandleAccept(p) \/ HandleAcceptError(p) \/ Exit(p)
       \/ PeerGoes(p)
       \/ \E op \in DOMAIN NoOps : Complete(p, op) \/ Echo(p, op)

Spec == Init /\ [][Next]_vars

-----------------------------------------------------------------------------
(* The parent accepts and waits for its children at all times, never reads *)
(* and keeps no connection open that it has handed to a child; a child has *)
(* its connection and does at most one operation on it at a time, never    *)
(* accepts, and never waits for a signal again: a process is told from the *)
(* other by what it does, though both run the same handlers.               *)
Roles ==
  /\ process[Parent] = "running"
  /\ \A op \in DOMAIN NoOps : server[Parent].ops[op] # "none" <=> op \in {"signal", "accept"}
  /\ server[Parent].socket => server[Parent].ops["accept"] = "ready"
  /\ \A c \in Children : process[c] = "running" =>
       /\ server[c].socket
       /\ server[c].ops["accept"] = "none" /\ server[c].ops["signal"] # "waiting"
       /\ "none" \in {server[c].ops["read"], server[c].ops["write"]}

(* No zombie is overlooked: while there is one, a signal is pending or the *)
(* parent's handler is about to reap.                                      *)
NotOverlooked ==
  (\E c \in Children : process[c] = "zombie") =>
    sigchld \/ server[Parent].ops["signal"] = "ready"

(* "Reap completed child processes so that we don't end up with zombies":  *)
(* every child that was started ends, and is reaped, however many end      *)
(* while one signal is pending.                                            *)
AllReaped == \A c \in Children : process[c] = "running" ~> process[c] = "reaped"
=============================================================================
