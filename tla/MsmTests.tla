------------------------------ MODULE MsmTests ------------------------------
(***************************************************************************)
(* The test() functions of the examples: the events each sends, and what   *)
(* its comments say of the player afterwards.                              *)
(***************************************************************************)
EXTENDS Msm

(* A step: an event, and the claims of the comments after it. *)
Send(e) == [event |-> Event(e), says |-> <<>>]
SendWith(e, arg) == [event |-> EventOf(e, arg), says |-> <<>>]
Says(st, claim) == [st EXCEPT !.says = Append(@, claim)]
In(x) == [about |-> "in", of |-> x, is |-> TRUE]
NotIn(x) == [about |-> "in", of |-> x, is |-> FALSE]
FlagIs(f, b) == [about |-> "flag", of |-> f, is |-> b]
AndFlagIs(f, b) == [about |-> "and", of |-> f, is |-> b]
Outcome(o) == [about |-> "outcome", of |-> o, is |-> TRUE]

SendAll(es) == [i \in DOMAIN es |-> Send(es[i])]
------------------------------------------------------------------------------
SimpleTutorialTest ==
  SendAll(<<"open_close", "open_close">>)
    \o <<Says(Says(SendWith("cd_detected", 1), In("Empty")), Outcome("rejected")),
         SendWith("cd_detected", 0), Says(Send("play"), In("Playing")), Send("pause"),
         Says(Send("end_pause"), In("Playing")), Send("pause"), Send("stop"),
         Says(Send("stop"), In("Stopped"))>>

(* "this event will be ignored and not call no_transition"; "Internal is   *)
(* tried last"                                                             *)
TestInternalTest ==
  <<Says(Send("to_ignore"), Outcome("yes")), Send("open_close"), Send("open_close"),
    Says(SendWith("cd_detected", 1), In("Empty")), SendWith("cd_detected", 0), Send("play"),
    Send("NextSong"), Says(Send("internal_event"), Outcome("yes")),
    Says(Says(Send("PreviousSong"), In("Song1")), In("Playing")), Send("pause"),
    Says(Send("end_pause"), In("Playing")), Send("pause"), Send("stop"),
    Says(Send("stop"), In("Stopped"))>>

CompositeTutorialTest ==
  SendAll(<<"open_close", "open_close", "cd_detected">>)
    \o <<Says(Send("play"), In("Playing")), Send("NextSong"), Send("NextSong"),
         Says(Send("PreviousSong"), In("Song2")), Send("pause"),
         Says(Says(Send("end_pause"), In("Playing")), In("Song1")), Send("pause"), Send("stop"),
         Says(Send("stop"), In("Stopped"))>>

(* "remembers the original state as end_pause is an history trigger"; "play *)
(* does not trigger shallow history => start back from 1st song"           *)
HistoryTest ==
  SendAll(<<"open_close", "open_close", "cd_detected">>)
    \o <<Says(Send("play"), In("Playing")), Send("NextSong"), Send("NextSong"),
         Says(Send("PreviousSong"), In("Song2")), Send("pause"),
         Says(Says(Send("end_pause"), In("Playing")), In("Song2")), Send("pause"), Send("stop"),
         Says(Send("stop"), In("Stopped")), Says(Send("play"), In("Song1"))>>

(* //=> true and //=> false after the printed flags *)
FlagsTest ==
  <<Send("open_close"), Send("open_close"),
    Send("cd_detected"),
    Says(Says(Send("play"), FlagIs("PlayingPaused", TRUE)), FlagIs("FirstSongPlaying", TRUE)),
    Says(Send("NextSong"), FlagIs("FirstSongPlaying", FALSE)), Send("NextSong"),
    Says(Send("PreviousSong"), FlagIs("PlayingPaused", TRUE)),
    Says(Send("pause"), FlagIs("PlayingPaused", TRUE)),
    Says(Send("end_pause"), In("Song1")), Send("pause"),
    Says(Says(Send("stop"), FlagIs("PlayingPaused", FALSE)), FlagIs("CDLoaded", TRUE)),
    Says(Send("stop"), In("Stopped"))>>

(* "at this point, Play is active (was deferred)"; "will not work, fsm is  *)
(* terminated or interrupted"                                              *)
OrthogonalDeferredTest ==
  <<Says(Send("play"), FlagIs("CDLoaded", FALSE)), Send("open_close"), Send("open_close"),
    Says(Says(Says(Send("cd_detected"), In("Playing")), FlagIs("PlayingPaused", TRUE)),
         FlagIs("FirstSongPlaying", TRUE)),
    Says(Send("NextSong"), FlagIs("FirstSongPlaying", FALSE)), Send("NextSong"),
    Says(Send("PreviousSong"), FlagIs("PlayingPaused", TRUE)),
    Says(Send("pause"), FlagIs("PlayingPaused", TRUE)), Says(Send("end_pause"), In("Song1")),
    Send("pause"),
    Says(Says(Says(Send("stop"), FlagIs("PlayingPaused", FALSE)), FlagIs("CDLoaded", TRUE)),
         AndFlagIs("CDLoaded", FALSE)),
    Says(Send("stop"), In("Stopped")), Says(Send("error_found"), In("ErrorMode")),
    Says(Send("play"), NotIn("Playing")), Says(Send("end_error"), In("AllOk")),
    Says(Send("play"), In("Playing"))>>

(* "will be rejected, wrong disk type"; "force an exit by listening all    *)
(* the songs"; "activate again FirstSong".  Left out, being wrong: "and    *)
(* LightOn" (line 324; the file has no such state) and the "wrong disk     *)
(* type" of the disk that is accepted (line 299).                          *)
BoostCon09FullTest ==
  <<Says(Send("play"), FlagIs("CDLoaded", FALSE)),
    Says(SendWith("cd_detected", 1), In("Empty")),
    Says(Says(SendWith("cd_detected", 0), In("Playing")), FlagIs("FirstSongPlaying", TRUE)),
    Says(Send("NextSong"), FlagIs("FirstSongPlaying", FALSE)), Send("NextSong"),
    Says(Send("PreviousSong"), In("Song2")), Send("pause"),
    Says(Says(Send("end_pause"), In("Playing")), In("Song2")), Send("NextSong"),
    Says(Says(Says(Send("NextSong"), NotIn("Playing")), FlagIs("CDLoaded", TRUE)),
         FlagIs("FirstSongPlaying", FALSE)),
    Says(Send("play"), In("Song1")), Send("error_found"),
    Says(Send("NextSong"), In("Song1")), Send("end_error"), Says(Send("NextSong"), In("Song2"))>>

(* "visiting Empty and AllOk"; "Playing+Song1 and AllOk"; "along FirstSong  *)
(* and LightOn"; "on_entry on Paused and StartBlinking".  Left out, being   *)
(* wrong: "visiting Paused and AllOk" (line 391), where the player has just *)
(* gone to Open.                                                           *)
SM2ArgTest ==
  <<Says(Send("play"), FlagIs("CDLoaded", FALSE)), Send("open_close"),
    Says(Says(Send("open_close"), In("Empty")), In("AllOk")),
    Says(Says(Says(Says(Says(Send("cd_detected"), In("Playing")), In("Song1")), In("LightOn")),
              In("AllOk")), FlagIs("PlayingPaused", TRUE)),
    Says(Says(Send("pause"), In("StartBlinking")), FlagIs("PlayingPaused", TRUE)),
    Send("TenSec"), Send("TenSec"),
    Says(Says(Send("end_pause"), In("Playing")), FlagIs("FirstSongPlaying", TRUE)),
    Send("ThreeSec"),
    Says(Says(Send("NextSong"), FlagIs("FirstSongPlaying", FALSE)), In("Song2")), Send("NextSong"),
    Says(Send("PreviousSong"), In("Song2")), Send("pause"),
    Says(Send("end_pause"), In("Song2")), Send("stop"),
    Says(Says(Says(Says(Send("stop"), FlagIs("CDLoaded", TRUE)), FlagIs("PlayingPaused", FALSE)),
              FlagIs("FirstSongPlaying", FALSE)), AndFlagIs("CDLoaded", FALSE)),
    Says(Says(Send("play"), In("Song1")), In("LightOn")), Send("error_found"),
    Says(Send("NextSong"), In("Song1")), Send("end_error"), Says(Send("NextSong"), In("Song2")),
    Says(Send("play"), Outcome("no"))>>

(* "Direct entry into SubFsm2::SubState2, then transition to SubState1 and *)
(* back to State1"                                                         *)
DirectEntryTutorialTest ==
  <<Says(Says(Send("event1"), In("SubState1")), In("SubState1b")), Send("event1"),
    Says(Says(Send("event2"), In("SubState2")), In("SubState1b")),
    Says(Send("event6"), In("SubState1")), Says(Send("event1"), In("State1")),
    Says(Says(Send("event3"), In("SubState2")), In("SubState2b")), Send("event1"),
    Says(Send("event4"), In("SubState3")), Says(Send("event1"), In("State1")),
    Says(Send("event4"), In("SubState3")), Says(Send("event5"), In("State2"))>>

(* "we are now ringing, let it ring a bit" *)
SimpleTimerTest ==
  <<SendWith("start_timer", 5), SendWith("tick", 2), SendWith("tick", 1), SendWith("tick", 1),
    Says(SendWith("tick", 1), In("Ringing")), SendWith("tick", 2), SendWith("tick", 1),
    SendWith("tick", 1), SendWith("tick", 1)>>

(* "pressing a button is now ignored"; "then back to no song => exit from  *)
(* playing, menu active"; "even in menu mode, pressing play will start     *)
(* playing the first song"; "end of fast forwarding"                       *)
iPodTest ==
  <<Send("Hold"), Says(Send("SouthPressed"), NotIn("OffDown")), Send("EastPressed"),
    Says(Send("NoHold"), In("NotHolding")), Send("SouthPressed"),
    Says(Send("SouthReleased"), In("Playing")), Send("NextSong"), Send("PreviousSong"),
    Says(Says(Send("PreviousSong"), NotIn("PlayingMode")), In("MenuMode")),
    Send("SouthPressed"), Says(Says(Send("SouthReleased"), In("Playing")), In("MenuMode")),
    Send("SouthPressed"), Says(Send("SouthReleased"), In("Paused")),
    Send("SouthPressed"), Says(Send("SouthReleased"), In("Playing")),
    Send("EastPressed"), Says(Send("ForwardTimer"), In("FastForward")), Send("ForwardTimer"),
    Says(Send("EastReleased"), NotIn("FastForward")), Says(Send("MiddleButton"), In("SetPosition")),
    Says(Send("EastPressed"), NotIn("ForwardPressed")), Send("SouthPressed"),
    Says(Send("OnOffTimer"), In("PlayerOff")), Says(Send("SouthPressed"), NotIn("PlayerOff"))>>

(* Which machine a script drives. *)
Script ==
  CASE file = "SimpleTutorial" -> SimpleTutorialTest
    [] file = "TestInternal" -> TestInternalTest
    [] file = "CompositeTutorial" -> CompositeTutorialTest
    [] file = "History" -> HistoryTest
    [] file = "Flags" -> FlagsTest
    [] file = "OrthogonalDeferred" -> OrthogonalDeferredTest
    [] file = "BoostCon09Full" -> BoostCon09FullTest
    [] file = "SM2Arg" -> SM2ArgTest
    [] file = "DirectEntryTutorial" -> DirectEntryTutorialTest
    [] file = "SimpleTimer" -> SimpleTimerTest
    [] file = "iPodDistributed" -> iPodTest
    [] OTHER -> <<>>

True(claim, t) ==
  (CASE claim.about = "in" -> claim.of \in ActiveStates(M, t)
     [] claim.about = "flag" -> Flag(M, t, claim.of)
     [] claim.about = "and" -> FlagAnd(M, t, claim.of)
     [] claim.about = "outcome" -> t.handled = claim.of) = claim.is

(* The configuration after the first n events of the script. *)
After(n) ==
  FoldLeft(LAMBDA t, st : ProcessEvent(M, M.root, st.event, t), Started(M), SubSeq(Script, 1, n))

(* After every event of a test() function the machine is as the comments   *)
(* of the function say, but for those named above.  (iPodEuml.cpp, whose   *)
(* line 128 has its two states exchanged, does not end fast forwarding as  *)
(* its line 250 says.)                                                     *)
AsCommented ==
  last = None =>
    \A n \in DOMAIN Script : \A i \in DOMAIN Script[n].says : True(Script[n].says[i], After(n))
==============================================================================
