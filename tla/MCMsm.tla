------------------------------- MODULE MCMsm -------------------------------
(***************************************************************************)
(* Every example machine (but iPodEuml, whose rows swap two states), fed   *)
(* any events.                                                             *)
(***************************************************************************)
EXTENDS MsmTests

AllFiles == Examples \ {"iPodEuml"}
(* No step depends on the event before it; of that event SameMachine asks  *)
(* what became of it, and whether the twin has it too.                     *)
View == <<file, twin.at, twin.deferred, twin.lost, twin.handled,
          s.at, s.n, s.lost, s.queue, s.deferred, s.handled,
          last = None \/ last \in Twin.events, wanted, song>>
==============================================================================
