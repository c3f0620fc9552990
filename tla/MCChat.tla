------------------------------- MODULE MCChat -------------------------------
(* A small chat room: every client types one line. *)
EXTENDS Chat

CONSTANTS a, b
OneLine == [c \in {a, b} |-> 1]
==============================================================================
