---------------------------- MODULE MsmMachines ----------------------------
(***************************************************************************)
(* The state machines of libs/msm/doc/HTML/examples.  Nearly all of them   *)
(* are the CD player of Table, written in one of the front-ends of MSM     *)
(* with more or fewer features: a machine is given here by what its file   *)
(* adds to Table.  Actions that only print are left out; next_song is      *)
(* written NextSong throughout.                                            *)
(***************************************************************************)
EXTENDS MsmBackend, FiniteSets, TLC

(* The rows every player has (_row and a_row, whose order is irrelevant).  *)
Table ==
  [Stopped |-> [play |-> "Playing", open_close |-> "Open", stop |-> "Stopped"],
   Open |-> [open_close |-> "Empty"],
   Empty |-> [open_close |-> "Open"],
   Playing |-> [stop |-> "Stopped", pause |-> "Paused", open_close |-> "Open"],
   Paused |-> [end_pause |-> "Playing", stop |-> "Stopped", open_close |-> "Open"]]

(* The table of the submachine Playing. *)
Songs ==
  <<R("Song1", "NextSong", "Song2"), R("Song2", "PreviousSong", "Song1"),
    R("Song2", "NextSong", "Song3"), R("Song3", "PreviousSong", "Song2")>>

Rows(table) ==
  FoldSet(LAMBDA row, rows : Append(rows, row), <<>>,
          UNION {{R(x, e, table[x][e]) : e \in DOMAIN table[x]} : x \in DOMAIN table})

Buttons == {Event(e) : e \in {"play", "open_close", "stop", "pause", "end_pause"}}
Disc == {Event("cd_detected")}
(* cd_detected carries DISK_CD (0) or DISK_DVD (1). *)
Discs == {EventOf("cd_detected", 0), EventOf("cd_detected", 1)}
Skips == {Event("NextSong"), Event("PreviousSong")}

Insert == R("Empty", "cd_detected", "Stopped")
(* [good_disk_format] accepts only a CD. *)
InsertCD == When(Insert, "good_disk_format")
(* auto_start returns false. *)
AutoStart == When(R("Empty", "cd_detected", "Playing"), "never")
(* internal_guard and its likes return false. *)
Guarded == When(Internal("Empty", "cd_detected"), "never")

(* A flat player: Table and further rows, which come after it. *)
Deck(special) ==
  MachineOf("player", [player |-> <<"Empty">>], [player |-> Rows(Table) \o special],
            Buttons \cup Disc)
DiscDeck(special) == [Deck(special) EXCEPT !.events = Buttons \cup Discs]

(* A player whose Playing is a machine of its own. *)
Jukebox(special) ==
  MachineOf("player", [player |-> <<"Empty">>, Playing |-> <<"Song1">>],
            [player |-> Rows(Table) \o special, Playing |-> Songs],
            Buttons \cup Disc \cup Skips)
DiscJukebox(special) == [Jukebox(special) EXCEPT !.events = Buttons \cup Discs \cup Skips]

Hearing(M, names) == [M EXCEPT !.events = @ \cup {Event(e) : e \in names}]

(* Mutant: AlwaysHistory. *)
RememberingAlways(M) == [M EXCEPT !.history = [Playing |-> {"end_pause", "play"}]]

(* ShallowHistory<end_pause> *)
Remembering(M) == [M EXCEPT !.history = [Playing |-> {"end_pause"}]]

(* Mutant: ErrorMode is a plain state. *)
WatchedPlain(M) ==
  [Hearing(M, {"error_found", "end_error"})
   EXCEPT !.init.player = <<"Empty", "AllOk">>,
          !.rows.player =
             @ \o <<R("AllOk", "error_found", "ErrorMode"), R("ErrorMode", "end_error", "AllOk")>>]

(* A second region for errors; ErrorMode is an interrupt_state<end_error>. *)
Watched(M) ==
  [Hearing(M, {"error_found", "end_error"})
   EXCEPT !.init.player = <<"Empty", "AllOk">>,
          !.rows.player =
             @ \o <<R("AllOk", "error_found", "ErrorMode"), R("ErrorMode", "end_error", "AllOk")>>,
          !.ends = [ErrorMode |-> "end_error"]]

(* Mutants: Open does not defer; stop is deferred too. *)
DeferringPlayInEmpty(M) == [M EXCEPT !.defer = [Empty |-> {"play"}]]
DeferringStop(M) == [M EXCEPT !.defer = [Empty |-> {"play", "stop"}, Open |-> {"play"}]]

(* deferred_events of Empty and Open *)
DeferringPlay(M) == [M EXCEPT !.defer = [Empty |-> {"play"}, Open |-> {"play"}]]

(* Mutant: the flags of Paused are forgotten. *)
FlaggedButPaused(M) ==
  [M EXCEPT !.flags =
     [Open |-> {"CDLoaded"}, Stopped |-> {"CDLoaded"}, Playing |-> {"PlayingPaused", "CDLoaded"},
      Song1 |-> {"FirstSongPlaying"}]]

Flagged(M) ==
  [M EXCEPT !.flags =
     [Open |-> {"CDLoaded"}, Stopped |-> {"CDLoaded"}, Playing |-> {"PlayingPaused", "CDLoaded"},
      Paused |-> {"PlayingPaused", "CDLoaded"}, Song1 |-> {"FirstSongPlaying"}]]
------------------------------------------------------------------------------
(* Flat players *)
MsmSimple == Deck(<<Insert>>)
MsmSimpleFunctors == Deck(<<Insert>>)
SCSimple == Deck(<<Insert>>)
EumlSimple == Deck(<<Insert>>)

SimpleTutorial == DiscDeck(<<InsertCD, AutoStart>>)
SimpleTutorial2 == DiscDeck(<<InsertCD, AutoStart, Guarded, Guarded>>)
Serialize == DiscDeck(<<InsertCD, AutoStart>>)

(* One row, then the internal_transition_table of Empty. *)
SimpleTutorialInternal ==
  Hearing(DiscDeck(<<InsertCD, Guarded, Internal("Empty", "to_ignore"), Guarded, Guarded>>),
          {"to_ignore"})

SimpleTutorialInternal2 == DiscDeck(<<Guarded, InsertCD, Guarded, Guarded>>)

SimpleWithFunctors == DiscDeck(<<Post(InsertCD, "play"), AutoStart>>)
SimpleWithFunctors2 == DiscDeck(<<Post(InsertCD, "play"), AutoStart>>)
SimpleWithFunctors3 == DiscDeck(<<Post(InsertCD, "play")>>)
SimpleTutorialInternalFunctors == DiscDeck(<<Guarded, Post(InsertCD, "play"), Guarded>>)
SimplePhoenix == DiscDeck(<<Post(InsertCD, "play")>>)
SimpleTutorialEuml == DiscDeck(<<Post(InsertCD, "play")>>)
SimpleTutorialEuml2 == DiscDeck(<<Post(InsertCD, "play")>>)

(* get_message_queue().set_capacity(1) *)
ExampleCircularBuffer ==
  [DiscDeck(<<Post(InsertCD, "play"), AutoStart>>) EXCEPT !.capacity = 1]

EumlInternal ==
  Hearing(DiscDeck(<<When(Internal("Open", "open_close"), "never"),
                     When(Internal("Open", "open_close"), "never"),
                     Internal("Open", "internal_event"), Post(InsertCD, "play")>>),
          {"internal_event"})

FsmAsPtr == Deck(<<Post(Insert, "play")>>)
SimpleTutorialWithEumlTable == Deck(<<Post(Insert, "play")>>)

(* Playing + kleene == Paused comes before Playing + open_close == Open.   *)
Kleene ==
  [Deck(<<>>) EXCEPT !.rows.player =
     Rows([Table EXCEPT !.Playing = [stop |-> "Stopped"]])
       \o <<Post(Insert, "play"), R("Playing", "any", "Paused"),
            R("Playing", "open_close", "Open")>>]
SimpleTutorialWithEumlTableKleene == Kleene
SimpleTutorialWithEumlTableTypeErasure == Kleene
------------------------------------------------------------------------------
(* Players with submachines, histories, flags, deferred events, regions    *)
Constructor == DiscJukebox(<<InsertCD, AutoStart>>)
CompositeTutorial == Jukebox(<<Insert>>)
MsmComposite == Jukebox(<<Insert>>)
SCComposite == Jukebox(<<Insert>>)
Flags == Flagged(Jukebox(<<Insert>>))
CompositeTutorialWithEumlTable == Jukebox(<<Post(Insert, "play")>>)

CompositeTutorialEuml ==
  [Hearing(DiscJukebox(<<Post(InsertCD, "play")>>), {"region2_evt"})
   EXCEPT !.init.Playing = Append(@, "Region2State1"),
          !.rows.Playing = Append(@, R("Region2State1", "region2_evt", "Region2State2"))]

EumlInternalDistributed ==
  [Hearing(DiscJukebox(<<When(Internal("Open", "open_close"), "never"),
                         When(Internal("Open", "open_close"), "never"),
                         Internal("Open", "internal_event"), Post(InsertCD, "play")>>),
           {"internal_event"})
   EXCEPT !.rows.Playing = Append(@, Internal("Playing", "internal_event"))]

(* Internal tables of Empty and of the submachine Playing. *)
TestInternal ==
  [Hearing(DiscJukebox(<<InsertCD, Guarded, Internal("Empty", "to_ignore"), Guarded, Guarded>>),
           {"internal_event", "to_ignore"})
   EXCEPT !.rows.Playing =
     <<Internal("Playing", "internal_event"), When(Internal("Playing", "PreviousSong"), "never"),
       When(Internal("Playing", "internal_event"), "never")>> \o @]

History == Remembering(Jukebox(<<Insert>>))
SerializeCompositeAndHistory == Remembering(Jukebox(<<Insert>>))
HistoryEuml == Remembering(DiscJukebox(<<Post(InsertCD, "play")>>))

OrthogonalDeferred == DeferringPlay(Flagged(Watched(Jukebox(<<Insert>>))))

(* Mutant: the row of Open is missing. *)
DeferredInEmptyOnly == Flagged(Watched(Jukebox(<<Insert, Defer("Empty", "play")>>)))

(* Defer as an action of a row. *)
OrthogonalDeferred2 ==
  Flagged(Watched(Jukebox(<<Defer("Open", "play"), Insert, Defer("Empty", "play")>>)))

OrthogonalDeferredEuml ==
  DeferringPlay(Flagged(Watched(DiscJukebox(<<Post(InsertCD, "play")>>))))

OrthogonalDeferredEuml2 ==
  Flagged(Watched(DiscJukebox(
    <<Defer("Empty", "play"), Defer("Open", "play"), Post(InsertCD, "play")>>)))

(* After the third song Playing is left by its exit point. *)
BoostCon09Full ==
  [Remembering(DeferringPlay(Watched(DiscJukebox(<<InsertCD>>))))
   EXCEPT !.flags = [x \in {"Open", "Stopped", "Playing", "Paused"} |-> {"CDLoaded"}]
                      @@ [Song1 |-> {"FirstSongPlaying"}],
          !.rows.Playing = Append(@, R("Song3", "NextSong", "CDFinished")),
          !.rows.player = Append(@, Via(R("Playing", "AllSongsPlayed", "Stopped"), "CDFinished")),
          !.exits = [CDFinished |-> "AllSongsPlayed"]]

(* Song1 is a machine of its own. *)
Lit(M) ==
  [Hearing(M, {"ThreeSec"})
   EXCEPT !.init = @ @@ [Song1 |-> <<"LightOn">>],
          !.rows = @ @@ [Song1 |-> <<R("LightOn", "ThreeSec", "LightOff")>>]]

Visitor == Lit(Remembering(DeferringPlay(Watched(Jukebox(<<Insert>>)))))

(* And so is Paused, from where the player can go to sleep for good. *)
SM2Arg ==
  [Hearing(Lit(Remembering(DeferringPlay(Flagged(Watched(Jukebox(<<Insert>>)))))),
           {"TenSec", "go_sleep"})
   EXCEPT !.init = @ @@ [Paused |-> <<"StartBlinking">>],
          !.rows = @ @@ [Paused |-> <<R("StartBlinking", "TenSec", "StopBlinking"),
                                      R("StopBlinking", "TenSec", "StartBlinking")>>],
          !.rows.player = Append(@, R("Paused", "go_sleep", "SleepMode"))]

(* ErrorMode is a plain state; of two rows the last one wins. *)
TestErrorOrthogonality ==
  [Hearing(Deck(<<Insert, R("Empty", "cd_detected", "Playing"),
                  R("AllOk", "error_found", "ErrorMode")>>), {"error_found"})
   EXCEPT !.init.player = <<"Empty", "AllOk">>]
------------------------------------------------------------------------------
Anonymous(row3, row4) ==
  MachineOf("p", [p |-> <<"State1">>],
    [p |-> <<R("State1", "none", "State2"), R("State2", "none", "State3"), row3, row4,
             R("State4", "event1", "State1")>>], {Event("event1")})

AnonymousTutorial ==
  Anonymous(R("State3", "none", "State4"), When(R("State3", "none", "State4"), "never"))

AnonymousTutorialEuml ==
  Anonymous(R("State3", "none", "State4"), When(R("State3", "none", "State4"), "never"))

(* The guard named always_false returns true in this file. *)
AnonymousTutorialWithFunctors ==
  Anonymous(R("State3", "none", "State4"), R("State3", "none", "State4"))

DirectEntryTutorial ==
  [MachineOf("Fsm", [Fsm |-> <<"State1">>, SubFsm2 |-> <<"SubState1", "SubState1b">>],
     [Fsm |-> <<R("State1", "event1", "SubFsm2"),
                Into(R("State1", "event2", "SubFsm2"), <<"SubState2">>),
                Into(R("State1", "event3", "SubFsm2"), <<"SubState2", "SubState2b">>),
                Into(R("State1", "event4", "SubFsm2"), <<"PseudoEntry1">>),
                R("SubFsm2", "event1", "State1"),
                Via(R("SubFsm2", "event6", "State2"), "PseudoExit1")>>,
      SubFsm2 |-> <<R("PseudoEntry1", "event4", "SubState3"),
                    R("SubState2", "event6", "SubState1"),
                    R("SubState3", "event5", "PseudoExit1")>>],
     {Event(e) : e \in {"event1", "event2", "event3", "event4", "event5", "event6"}})
   EXCEPT !.entries = {"PseudoEntry1"}, !.exits = [PseudoExit1 |-> "event6"]]

DirectEntryEuml ==
  [DirectEntryTutorial
   EXCEPT !.init.SubFsm2 = <<"SubState1", "SubState1b", "SubState1c">>,
          !.rows.Fsm[3].into = <<"SubState2", "SubState2b", "SubState2c">>]

(* start_timer(m_timer), tick(m_tick): n is the counter of the state. *)
SimpleTimer ==
  MachineOf("SimpleTimer", [SimpleTimer |-> <<"Stopped">>],
    [SimpleTimer |->
       <<Do(R("Stopped", "start_timer", "Started"), "set_timer"),
         R("Started", "stop_timer", "Stopped"),
         Do(Internal("Started", "tick"), "count_down"),
         Do(R("Started", "start_ringing", "Ringing"), "set_ringing"),
         Do(When(Internal("Ringing", "tick"), "ringing"), "ring_down"),
         When(R("Ringing", "tick", "Stopped"), "rung"),
         R("Ringing", "stop_timer", "Stopped"), R("Ringing", "start_timer", "Stopped")>>],
    {EventOf("start_timer", 5), EventOf("tick", 1), EventOf("tick", 2), Event("stop_timer")})
------------------------------------------------------------------------------
(* The iPod: five regions, and five in PlayingMode. *)
PlayingModeTable(select, released) ==
  <<R("Playing", "PlayPause", "Paused"), R("Playing", "Off", "Paused"),
    Do(R("Playing", "StartSong", "Playing"), select),
    Do(R("Playing", "SongFinished", "Playing"), "inc_song_counter"),
    R("Paused", "PlayPause", "Playing"), Do(R("Paused", "StartSong", "Playing"), select),
    Do(R("WaitingForNextPrev", "PreviousSong", "WaitingForNextPrev"), "dec_song_counter"),
    Do(R("WaitingForNextPrev", "NextSong", "WaitingForNextPrev"), "inc_song_counter"),
    R("WaitingForEnd", "EndPlay", "PlayingExit"),
    When(R("NoForward", "EastPressed", "ForwardPressed"), "fast_fwd_ok"),
    Post(R("ForwardPressed", "EastReleased", "NoForward"), "NextSong"),
    R("ForwardPressed", "ForwardTimer", "FastForward"),
    R("FastForward", "ForwardTimer", "FastForward"), released,
    R("StdDisplay", "PlayingMiddleButton", "SetPosition"),
    R("SetPosition", "StartSong", "StdDisplay"),
    R("SetPosition", "PlayingMiddleButton", "SetMark"),
    R("SetMark", "PlayingMiddleButton", "StdDisplay"), R("SetMark", "StartSong", "StdDisplay")>>

MenuModeTable ==
  <<R("WaitingForSongChoice", "MenuMiddleButton", "StartCurrentSong"),
    R("StartCurrentSong", "SelectSong", "MenuExit")>>

(* Mutant: the exit point of PlayingMode is not connected. *)
LeavePlayingUnconnected == <<>>

LeavePlaying ==
  <<Post(Via(R("PlayingMode", "EndPlay", "NotPlaying"), "PlayingExit"), "MenuButton")>>

(* is_menu posts PlayingMiddleButton and is_no_menu posts MenuMiddleButton *)
(* (or, in iPodEuml, PlayingMiddleButton too): the menu, which waits for   *)
(* MenuMiddleButton, never gets it while it is active, so that no song can *)
(* be chosen in it and MenuExit is never reached.                          *)
iPodTable(noMenu) ==
  <<R("NotHolding", "Hold", "Holding"), R("Holding", "NoHold", "NotHolding"),
    R("NotPlaying", "PlayPause", "PlayingMode"), R("NoMenuMode", "MenuButton", "MenuMode"),
    Do(Via(R("MenuMode", "CloseMenu", "NoMenuMode"), "MenuExit"), "StartSong5"),
    R("NoOnOffButton", "SouthPressed", "OffDown"),
    Post(R("OffDown", "SouthReleased", "NoOnOffButton"), "PlayPause"),
    Post(R("OffDown", "OnOffTimer", "PlayerOff"), "Off"),
    R("PlayerOff", "SouthPressed", "NoOnOffButton"), R("PlayerOff", "NoHold", "NoOnOffButton"),
    Post(When(R("CheckMiddleButton", "MiddleButton", "CheckMiddleButton"), "is_menu"),
         "PlayingMiddleButton"),
    Post(When(R("CheckMiddleButton", "MiddleButton", "CheckMiddleButton"), "is_no_menu"), noMenu)>>
  \o LeavePlaying

(* The events of the hardware and the timers, and of choosing and ending a *)
(* song.                                                                   *)
Pod(playing, noMenu) ==
  [MachineOf("iPod",
     [iPod |-> <<"NotHolding", "NotPlaying", "NoMenuMode", "NoOnOffButton", "CheckMiddleButton">>,
      PlayingMode |-> <<"Playing", "WaitingForNextPrev", "WaitingForEnd", "NoForward",
                        "StdDisplay">>,
      MenuMode |-> <<"WaitingForSongChoice">>],
     [iPod |-> iPodTable(noMenu), PlayingMode |-> playing, MenuMode |-> MenuModeTable],
     {Event(e) : e \in {"Hold", "NoHold", "SouthPressed", "SouthReleased", "OnOffTimer",
        "EastPressed", "EastReleased", "ForwardTimer", "MiddleButton", "NextSong",
        "PreviousSong", "SongFinished", "SelectSong", "MenuButton", "Off"}})
   EXCEPT !.ends = [Holding |-> "NoHold"], !.flags = [MenuMode |-> {"MenuActive"}],
          !.exits = [PlayingExit |-> "EndPlay", MenuExit |-> "CloseMenu"]]

(* iPod_distributed: NoFastFwd is a flag of the state SetPosition. *)
iPodDistributed ==
  [Pod(PlayingModeTable("select_song", R("FastForward", "EastReleased", "NoForward")),
       "MenuMiddleButton")
   EXCEPT !.flags = @ @@ [SetPosition |-> {"NoFastFwd"}]]

(* iPodEuml: NoFastFwd is a flag of PlayingMode itself, m_SongIndex is 0.  *)
iPodEuml ==
  [Pod(PlayingModeTable("select_song_below", R("NoForward", "EastReleased", "FastForward")),
       "PlayingMiddleButton")
   EXCEPT !.flags = @ @@ [PlayingMode |-> {"NoFastFwd"}], !.start = 0]
==============================================================================
