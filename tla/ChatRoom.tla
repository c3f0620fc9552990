------------------------------ MODULE ChatRoom ------------------------------
(***************************************************************************)
(* What the chat server promises: everything said goes into one log; who   *)
(* joins hears the log without a gap, in order, from at most MaxRecent     *)
(* messages back; what one author says is logged in the order it was said. *)
(***************************************************************************)
EXTENDS Integers, Sequences, FiniteSets

CONSTANTS Clients, MaxRecent

VARIABLES
  log,     \* everything that was said, in the order of the room
  since,   \* where in the log a client started to hear, 0 before
  heard    \* what a client has printed

vars == <<log, since, heard>>

Message(c, n) == [by |-> c, n |-> n]
SaidBy(c) == Cardinality({i \in DOMAIN log : log[i].by = c})

Init ==
  /\ log = <<>>
  /\ since = [c \in Clients |-> 0]
  /\ heard = [c \in Clients |-> <<>>]

Join(c) ==
  /\ since[c] = 0
  /\ since' = [since EXCEPT ![c] = IF Len(log) > MaxRecent THEN Len(log) - MaxRecent + 1 ELSE 1]
  /\ UNCHANGED <<log, heard>>

Say(c) ==
  /\ log' = Append(log, Message(c, SaidBy(c) + 1))
  /\ UNCHANGED <<since, heard>>

Hear(c) ==
  /\ since[c] # 0
  /\ since[c] + Len(heard[c]) <= Len(log)
  /\ heard' = [heard EXCEPT ![c] = Append(@, log[since[c] + Len(@)])]
  /\ UNCHANGED <<log, since>>

Next == \E c \in Clients : Join(c) \/ Say(c) \/ Hear(c)

Spec == Init /\ [][Next]_vars
==============================================================================
