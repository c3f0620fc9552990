-------------------------------- MODULE Msm --------------------------------
(***************************************************************************)
(* An example machine that is fed events in any order, each processed to   *)
(* completion (process_event of the back-end).                             *)
(***************************************************************************)
EXTENDS MsmMachines

CONSTANTS
  Files,       \* the examples looked at, a subset of Examples
  MaxDeferred  \* the number of deferred events the user can pile up

Examples ==
  {"MsmSimple", "MsmSimpleFunctors", "SCSimple", "EumlSimple", "SimpleTutorial",
   "SimpleTutorial2", "Serialize", "SimpleTutorialInternal", "SimpleTutorialInternal2",
   "SimpleWithFunctors", "SimpleWithFunctors2", "SimpleWithFunctors3",
   "SimpleTutorialInternalFunctors", "SimplePhoenix", "SimpleTutorialEuml",
   "SimpleTutorialEuml2", "ExampleCircularBuffer", "EumlInternal", "FsmAsPtr",
   "SimpleTutorialWithEumlTable", "SimpleTutorialWithEumlTableKleene",
   "SimpleTutorialWithEumlTableTypeErasure", "Constructor", "CompositeTutorial",
   "MsmComposite", "SCComposite", "Flags", "CompositeTutorialWithEumlTable",
   "CompositeTutorialEuml", "EumlInternalDistributed", "TestInternal", "History",
   "SerializeCompositeAndHistory", "HistoryEuml", "OrthogonalDeferred",
   "OrthogonalDeferred2", "OrthogonalDeferredEuml", "OrthogonalDeferredEuml2",
   "BoostCon09Full", "Visitor", "SM2Arg", "TestErrorOrthogonality", "AnonymousTutorial",
   "AnonymousTutorialEuml", "AnonymousTutorialWithFunctors", "DirectEntryTutorial",
   "DirectEntryEuml", "SimpleTimer", "iPodDistributed", "iPodEuml"}

VARIABLES
  file,    \* the example
  s,       \* its configuration
  twin,    \* the configuration of its Twin, fed the same events
  last,    \* the last event
  wanted,  \* play was pressed in Empty or Open since, and no error was found
  song     \* the song that was playing when the player left Playing last

vars == <<file, s, twin, last, wanted, song>>

(* The machine of the file. *)
M ==
  CASE file = "MsmSimple" -> MsmSimple
    [] file = "MsmSimpleFunctors" -> MsmSimpleFunctors
    [] file = "SCSimple" -> SCSimple
    [] file = "EumlSimple" -> EumlSimple
    [] file = "SimpleTutorial" -> SimpleTutorial
    [] file = "SimpleTutorial2" -> SimpleTutorial2
    [] file = "Serialize" -> Serialize
    [] file = "SimpleTutorialInternal" -> SimpleTutorialInternal
    [] file = "SimpleTutorialInternal2" -> SimpleTutorialInternal2
    [] file = "SimpleWithFunctors" -> SimpleWithFunctors
    [] file = "SimpleWithFunctors2" -> SimpleWithFunctors2
    [] file = "SimpleWithFunctors3" -> SimpleWithFunctors3
    [] file = "SimpleTutorialInternalFunctors" -> SimpleTutorialInternalFunctors
    [] file = "SimplePhoenix" -> SimplePhoenix
    [] file = "SimpleTutorialEuml" -> SimpleTutorialEuml
    [] file = "SimpleTutorialEuml2" -> SimpleTutorialEuml2
    [] file = "ExampleCircularBuffer" -> ExampleCircularBuffer
    [] file = "EumlInternal" -> EumlInternal
    [] file = "FsmAsPtr" -> FsmAsPtr
    [] file = "SimpleTutorialWithEumlTable" -> SimpleTutorialWithEumlTable
    [] file = "SimpleTutorialWithEumlTableKleene" -> SimpleTutorialWithEumlTableKleene
    [] file = "SimpleTutorialWithEumlTableTypeErasure" -> SimpleTutorialWithEumlTableTypeErasure
    [] file = "Constructor" -> Constructor
    [] file = "CompositeTutorial" -> CompositeTutorial
    [] file = "MsmComposite" -> MsmComposite
    [] file = "SCComposite" -> SCComposite
    [] file = "Flags" -> Flags
    [] file = "CompositeTutorialWithEumlTable" -> CompositeTutorialWithEumlTable
    [] file = "CompositeTutorialEuml" -> CompositeTutorialEuml
    [] file = "EumlInternalDistributed" -> EumlInternalDistributed
    [] file = "TestInternal" -> TestInternal
    [] file = "History" -> History
    [] file = "SerializeCompositeAndHistory" -> SerializeCompositeAndHistory
    [] file = "HistoryEuml" -> HistoryEuml
    [] file = "OrthogonalDeferred" -> OrthogonalDeferred
    [] file = "OrthogonalDeferred2" -> OrthogonalDeferred2
    [] file = "OrthogonalDeferredEuml" -> OrthogonalDeferredEuml
    [] file = "OrthogonalDeferredEuml2" -> OrthogonalDeferredEuml2
    [] file = "BoostCon09Full" -> BoostCon09Full
    [] file = "Visitor" -> Visitor
    [] file = "SM2Arg" -> SM2Arg
    [] file = "TestErrorOrthogonality" -> TestErrorOrthogonality
    [] file = "AnonymousTutorial" -> AnonymousTutorial
    [] file = "AnonymousTutorialEuml" -> AnonymousTutorialEuml
    [] file = "AnonymousTutorialWithFunctors" -> AnonymousTutorialWithFunctors
    [] file = "DirectEntryTutorial" -> DirectEntryTutorial
    [] file = "DirectEntryEuml" -> DirectEntryEuml
    [] file = "SimpleTimer" -> SimpleTimer
    [] file = "iPodDistributed" -> iPodDistributed
    [] file = "iPodEuml" -> iPodEuml

(* The example that shows the same player in another notation, if any. *)
Twin ==
  CASE file \in {"SimpleTutorial2", "SimpleTutorialInternal2"} -> SimpleTutorial
    [] file \in {"SimpleWithFunctors3", "ExampleCircularBuffer", "EumlInternal",
                 "SimpleTutorialInternalFunctors"} -> SimpleWithFunctors
    [] file = "OrthogonalDeferred2" -> OrthogonalDeferred
    [] file = "OrthogonalDeferredEuml2" -> OrthogonalDeferredEuml
    [] file = "AnonymousTutorialWithFunctors" -> AnonymousTutorial
    [] file = "FsmAsPtr" -> SimpleTutorialWithEumlTable
    [] OTHER -> M

Waiting == {"Empty", "Open"}

Init ==
  /\ file \in Files
  /\ s = Started(M)
  /\ twin = Started(Twin)
  /\ last = None
  /\ wanted = FALSE
  /\ song = "Song1"

Handle(e) ==
  /\ Len(s.deferred[M.root]) < MaxDeferred \/ e.name # "play"
  /\ s' = ProcessEvent(M, M.root, e, s)
  /\ twin' = IF Twin = M THEN s' ELSE ProcessEvent(Twin, Twin.root, e, twin)
  /\ last' = e
  /\ wanted' = /\ ActiveStates(M, s') \cap Waiting # {}
               /\ "ErrorMode" \notin ActiveStates(M, s')
               /\ wanted \/ e.name = "play"
  /\ song' = IF "Playing" \in DOMAIN M.init /\ "Playing" \in ActiveStates(M, s)
             THEN s.at["Playing"][1] ELSE song
  /\ UNCHANGED file

Next == \E e \in M.events : Handle(e)

Spec == Init /\ [][Next]_vars
------------------------------------------------------------------------------
(* The states of machine m: initial, of a row of m, or entered directly.   *)
RowsOf(m) == ToSet(M.rows[m])
StatesOf(m) ==
  ToSet(M.init[m])
    \cup ({row.from : row \in RowsOf(m)} \ {m}) \cup ({row.to : row \in RowsOf(m)} \ {Stay})
    \cup UNION {UNION {ToSet(row.into) : row \in {q \in RowsOf(p) : q.to = m}}
               : p \in DOMAIN M.init}

(* The active states belong to the machine they are active in, and at rest *)
(* no event waits in a message queue.                                      *)
TypeOK ==
  /\ s.handled \in DOMAIN Rank
  /\ \A m \in DOMAIN M.init :
       /\ s.at[m] \in [DOMAIN M.init[m] -> StatesOf(m)]
       /\ s.queue[m] = <<>>
       /\ s.deferred[m] \in Seq([name : {"play"}, arg : {0}])

(* The file and its twin are the same player: the same active states and   *)
(* the same events still waiting after any sequence of events, and the     *)
(* same outcome of every event both files have (EumlInternal alone has     *)
(* internal_event), so that deferring by a property of the state or by the *)
(* row, an internal row or none, or a queue for one event make no          *)
(* difference, and no queued event was overwritten: the queue of           *)
(* ExampleCircularBuffer.cpp holds one event, and cd_detected posts one.   *)
SameMachine ==
  /\ ActiveStates(M, s) = ActiveStates(Twin, twin)
  /\ s.deferred = twin.deferred
  /\ last = None \/ last \in Twin.events => s.handled = twin.handled
  /\ s.lost = twin.lost

(* A submachine that reached its exit point has been left when the event   *)
(* is done: iPod PlayingExit, BoostCon09Full CDFinished, and PseudoExit1   *)
(* of DirectEntryTutorial.  (No event leads to MenuExit, see MsmMachines.) *)
ExitsAreLeft == ActiveStates(M, s) \cap DOMAIN M.exits = {}

(* While the player is interrupted (ErrorMode, Holding) no event but the   *)
(* one that ends the interruption changes anything.                        *)
Interrupted(e) ==
  \/ /\ "ErrorMode" \in ActiveStates(M, s) /\ e.name # "end_error"
     /\ file # "TestErrorOrthogonality"
  \/ "Holding" \in ActiveStates(M, s) /\ e.name # "NoHold"
InterruptFreezes ==
  [][Interrupted(last') => s'.at = s.at /\ s'.deferred = s.deferred]_vars

(* play pressed without a disc is not forgotten, whatever is done with the *)
(* drawer: the disc that is accepted is played at once.  "deferred in      *)
(* Empty and Open, will be handled only after event cd_detected"           *)
(* (Orthogonal-deferred.cpp:258).  An error in between loses the press:    *)
(* deferred events are offered again on entering ErrorMode, which discards *)
(* them.  (In OrthogonalDeferredEuml and OrthogonalDeferredEuml2 this is   *)
(* so even without a press: cd_detected itself posts play.)                *)
Defers(f) == f \in {"OrthogonalDeferred", "OrthogonalDeferred2", "OrthogonalDeferredEuml",
                    "OrthogonalDeferredEuml2", "BoostCon09Full", "Visitor", "SM2Arg"}
PlayIsRemembered ==
  [][Defers(file) /\ wanted /\ ActiveStates(M, s') \cap Waiting = {}
       => "Playing" \in ActiveStates(M, s')]_vars

(* end_pause goes back to the song that was paused where the file asks for *)
(* ShallowHistory<end_pause>, and play never does: "play does not trigger  *)
(* shallow history => start back from 1st song" (History.cpp:231).         *)
Remembers(f) == f \in {"History", "SerializeCompositeAndHistory", "HistoryEuml",
                       "BoostCon09Full", "Visitor", "SM2Arg"}
Resumes ==
  [][(/\ "Playing" \in DOMAIN M.init
      /\ "Playing" \notin ActiveStates(M, s)
      /\ "Playing" \in ActiveStates(M, s'))
       => s'.at["Playing"][1] =
            IF Remembers(file) /\ last'.name = "end_pause" THEN song ELSE "Song1"]_vars

==============================================================================
