# Boost QCH help generator: a TLA+ verification project

The repository packs the Boost 1.54 documentation into a Qt help file,
`boost.qch`. Its own program is a Makefile, three scripts, a template and two
link-rewriting scripts (its README lists them under "The files that belong to
the help generator"); the other 18,900 files are the documentation that is
packed. Among them are some 670 source files: listings, examples and tools. This
directory models the generator and those examples in the documentation that are
programs with a behaviour of their own: the networked and threaded examples of asio
and the state machines of MSM. The guarantees of the generator, and most of the safety
of the asio examples, are proved with TLAPS; all are model-checked.

## The system

| Part | State it keeps | Operations |
|---|---|---|
| `Makefile` | none of its own: files and their modification times | rules `boost.qch <- boost.qhp <- boost.qhpsrc files-unformatted.list sections.list`, `sections.list <- files-unformatted.list <- index.htm`; `clean` |
| `generatelists.sh` | `files.list`, `files-unformatted.list` | rm both, then one `find \| sed` pipeline into each |
| `generatesections.sh` | `sections.list` | rm, touch (sections are not generated yet) |
| `make-boost-qhp.sh` | `boost.qhp` | calls both scripts above, checks access, writes the project in five commands |
| `boost.qhpsrc` | the template, 15 lines | cut by line counts: 1-9 [sections] 10-12 [files] 13-15 |
| `rewrite-link`, `rewritelinks` | every file of the tree, a backup of each under `/tmp` | strip `../../doc/src/` and `../../` from each file, in place |
| qhelpgenerator, GNU make | external | compile `boost.qhp`; decide what to remake |
| `doc/ libs/ more/ tools/` | the pages | none: data |

The programs inside the documentation, independent of the generator and of each
other (`A` is `doc/html/boost_asio/example/cpp03`):

| Program | State it keeps | Operations |
|---|---|---|
| `A/chat` | room, sessions and clients with their write queues | connect, join, deliver, read and write handlers, posts from the thread that reads the input |
| `A/timeouts/server.cpp` | sessions of four actors over timers | start, read, deliver, await output, write, check deadline, stop |
| `A/timeouts/*_client.cpp` | socket, deadline, operation under way | connect, read, heartbeat, check deadline; the blocking calls |
| `A/http/server`, `server4` | acceptor, connections, connection_manager; parser state | accept, read, write, stop; consume one byte |
| `A/porthopper` | subscribed ports, control connection, old and new socket | send a frame, start, change and stop a port |
| `A/nonblocking/third_party_lib.cpp` | the library's session, two flags | wait, let the library read or write |
| `A/icmp/ping.cpp` | sequence number, replies, one timer | send, time out, receive |
| `A/fork/process_per_connection.cpp` | the same server object in every process | accept and fork, reap, echo |
| `A/spawn/echo_server.cpp` | socket and timer of a session | two coroutines |
| `A/services/logger_service.hpp` | private io_service and its thread, the file | log, use_file, destroy |
| `libs/msm/doc/HTML/examples` | active states, history, queues of a machine | process an event |

The parts of the generator communicate only by files. make decides by modification times, which
it reads once; no script looks at the status of a command; a script called by
make also rewrites two files make has already considered. Nothing is written
atomically. What is hard to test is therefore what happens *between* commands:
an edit, Ctrl-C, a kill, a full disk, two writes in one clock tick, a time make
has remembered and that is no longer true. `PROJECT.json` lists these hazards
with the line where each bites.

In the asio programs the parts are handlers of one io_service, which run one at a
time but in any order once they are ready. What is hard is what has happened
between the completion of an operation and its handler: a deadline that was moved
after its wait expired, a socket closed under an operation that had succeeded, an
accept that completed before the acceptor was closed, a signal that stands for
several children, frames that overtake a change of ports. In the MSM examples it
is the interplay of orthogonal regions, submachines, and deferred and queued events
after long sequences of events.

What makes the parts correct:

* the build: what a successful make reports as done is in `boost.qch`; a second
  make has nothing to do; Ctrl-C leaves nothing unfinished; `make clean; make`,
  the procedure COMPILING prescribes, repairs everything; make terminates;
* the assembly: every template line arrives once, the lists in their elements;
* the rewriting: no page is lost, the messages are true, all links are stripped;
* chat: everyone who stays hears everything from the moment of joining, in the one
  order of the room, and whoever is cut off leaves;
* the other asio programs: no handler is lost, doubled or outlives what it writes
  to; only an overdue operation is cancelled; every wait ends; what is told to stop
  comes to an end; what is exchanged arrives complete and in order;
* the parsers: what is accepted is what was sent, both accept the same, and the content
  ends where its length says;
* the machines: they do what the comments of their tests say, the same player in two
  notations is the same machine, interrupts freeze it, deferred events come back,
  history resumes where it should.

## Modules

| Module | Models | Runs |
|---|---|---|
| `BoostQch` | Makefile, the three scripts, and the two external tools | `MCBoostQch` with `Workflows`, `Interrupts`, `Crashes`, `Termination`, `ErrorStops` |
| `QhpTemplate` | lines 22-26 of `make-boost-qhp.sh`, line by line | `MCQhpTemplate` with `Template` |
| `RewriteLinks` | `rewrite-link`, `rewritelinks` | `MCRewriteLinks` with `Rewrite`, `RewriteOk` |
| `BoostQchProofs` | all five invariants of `BoostQch` | (TLAPS) |
| `QhpTemplateProofs` | both invariants of `QhpTemplate` | (TLAPS) |
| `RewriteLinksProofs` | all four invariants of `RewriteLinks` | (TLAPS) |
| `ChatRoom` | what the chat server promises | (refined by `Chat`) |
| `Chat` | chat server, `chat_client`, `posix_chat_client` | `MCChat` with `Chat` |
| `ChatProofs` | `TypeOK`, `NothingSkipped` and `RoomSpec` of `Chat` | (TLAPS) |
| `DeadlineTimer` | asio's deadline_timer (external) | (used by the next three and `SpawnEcho`) |
| `TimeoutServer`, `TimeoutClient`, `BlockingClient` | the timeout examples | `AsioExamples` with `Asio` |
| `HttpServer` | connections and shutdown of the HTTP server | `AsioExamples` with `Asio` |
| `PortHopper`, `ThirdParty`, `Ping`, `ForkServer`, `SpawnEcho`, `Logger` | the examples of these names | `AsioExamples` with `Asio` |
| `AsioExamples` | the ten programs above side by side, their fairness and properties | `Asio` |
| `AsioProofs` | `Attended`, `Roles`, `Pings`, `InOrder` of `AsioExamples` | (TLAPS) |
| `TimeoutProofs` | `OwnDeadline` and `Actors` of `AsioExamples` | (TLAPS) |
| `HopperProofs` | `Handover`, `Settled` and `TypeOK` of `AsioExamples` | (TLAPS) |
| `HttpParser` | the request parsers of `server` and `server4`, fed the same bytes | `Parsers` |
| `HttpParserProofs` | both invariants of `HttpParser` | (TLAPS) |
| `MsmBackend` | one run-to-completion step of Boost.MSM (external) | (used by `Msm`) |
| `MsmMachines` | 50 machines of the examples, as tables | (used by `Msm`) |
| `Msm`, `MsmTests` | a machine fed any events; the scripts and comments of the examples' `test()` functions | `MCMsm` with `Machines` |

### BoostQch

One job at a time (`make`, `make clean`, or a script run by hand) moves a program
counter over the commands. `pc` values are `goal lists sections qhp qch` for
make's own decisions, `gl_* gs_* mb_*` for the commands of the three scripts,
`qc_*` for qhelpgenerator, `clean`. `After` is the order of the commands.

* *Files.* `mtime` holds the time of each file make looks at, 0 for none.
  `list` is the content of `files.list`; `qhp` is a sequence of chunks (the three
  pieces of the template and the list), so an unfinished project is a proper
  prefix; `qch` is the version of every page in the help file and whether
  qhelpgenerator finished it. `files-unformatted.list` is never read, so only
  its time is kept; `sections.list` is always empty.
* *make (external).* `Outdated`: a target is remade if it, or a prerequisite, is
  absent, or a prerequisite is strictly newer. `seen` is what make has read:
  each time once, and again after the target's own recipe. On SIGINT make deletes
  the current target if its time is not the one in `seen`; it deletes nothing when
  it is killed or when a recipe fails (there is no `.DELETE_ON_ERROR`).
* *Scripts.* Each command is an action. A failing `rm`, redirection or `cat` is
  not noticed. The pipeline into `files.list` opens its output and then meets the
  pages in any order. The access check of `make-boost-qhp.sh` comes after the two
  calls; its error path only prints, and the script ends with status 0 (`err`
  records the message). Listing the pages always writes something, `index.htm`
  being one of them, so the second pipeline sets the time twice.
* *qhelpgenerator (external).* Parses the project first and refuses one that is
  not well formed (`Accepted`), then writes in place, skips pages that are gone.
* *World.* Pages are edited, added and deleted at any moment, `index.htm` is
  written at any moment (newer documentation copied over the tree), the clock
  ticks at any moment and need not tick between two writes. Permissions change
  and sources disappear between jobs. `Disturbances` selects what a run allows.
* *History.* `owed` is the set of pages the next successful make has to get
  right: all after `make clean`, after newer documentation was copied in while no
  job ran and the clock had moved on, or after the old list was removed; a page
  edited since is dropped from it. A failed command that nobody notices, and a
  help file compiled from an old project after an error message, clear it: there
  the code makes no promise, and these cases are listed as hazards. `cleaned` says
  that `make clean` has completed and nothing was killed or failed since.

### QhpTemplate

The template is any number of lines, known by their numbers; `head -n`, `tail -n`,
`>` and `>>` are modelled by what they do, short files included. It justifies the
three chunks of `BoostQch`.

### RewriteLinks

A page is one link, described by what the two sed commands look at: how many
`../` it starts with and whether `doc/src/` follows (that is the shape of nearly
all the 400,000 links in the tree). Each `cp` truncates first and ends later, or
fails in between. `tempfile`, the sed commands and the trial run can fail; only the
two `cp` and the trial run are asked for their status, as in the script. `before`
remembers the text rewrite-link found. Left out: the test for an interactive
shell, file names with spaces (for which `dirname` prints several lines and the
backup fails), and the effect of rewriting the generated files on the next make.

### Chat and ChatRoom

A connection has two ends, the client and its chat_session; both keep `queue`
(`write_msgs_`), `writes` (the asynchronous write under way, what is left of it) and
`reading` (which read is outstanding). A write moves its header and its body
separately, so a message can be cut in the middle. `chat_client` posts from the
thread that reads the input (`Type`, `DoWrite`); `posix_chat_client` reads its input
in a handler. A client in `Faulty` may quit, lose the connection or send a header
that does not decode. `ChatRoom` is the abstract room: one log, and each client hears
an interval of it that begins at most `MaxRecent` messages before it joined. Its
variables are history variables of `Chat`; `RoomSpec` states that every step of `Chat`
is a step of the room or a stutter.

### The timeout examples

A `deadline_timer` is its expiry, the waits that sleep and the handlers that are
queued; moving the expiry queues the handlers of all waits, as `expires_from_now`
does, and the handlers ignore the error code, as in the examples. An operation is
none, pending, or completed with its handler queued, and closing a socket turns
pending operations into failed ones but leaves completed ones: this is where handlers
see a world that has changed since their operation ended. `TimeoutServer` has one
record per session, `TimeoutClient` one for the client, `BlockingClient` the function
main is in and the operation it waits for. `SpawnEcho` is the same pattern with two
coroutines.

### HttpServer, HttpParser

A connection is a member of `connections_`, of the open sockets, and has at most one
operation; it may be used again by `start_accept` when it is over. The request handler
is left out: a read either is incomplete or leads to a reply. The parsers consume one
character of a small alphabet that stands for the classes they tell apart; the
coroutine of `server4` is the yield it stopped at.

The version's numbers are ints, as in the code: a digit is added with `v * 10 + input -
'0'`, leading zeros vanish (`HTTP/01.1` is version 1.1), and once a step exceeds `MaxInt`
the number is `Undefined`. `version` remembers the digits as they came, since the request
does not. `server4` also looks up Content-Length, refuses a value that is no size, and
takes that many bytes of content before it answers; `after` has the bytes fed after the
parser of `server` has answered. `boost::lexical_cast` is external: digits after an
optional sign, where a minus gives the two's complement, so that a Content-Length of -1
makes `server4` wait for the greatest size there is. The name Content-Length is one letter
here, in both cases, because the comparison ignores case.

### PortHopper, ThirdParty, Ping, ForkServer, Logger

`PortHopper` has one client: requests are answered two seconds late, each frame is sent
to every subscribed port and may be lost, doubled or overtaken, and the client's loop
owns the locals its three operations write to. It is instantiated twice, without faults
and with failing connections and receives. `ThirdParty` numbers the bytes of the peer,
so that order and loss are visible; a socket may turn out not to be ready after all.
`Ping` counts modulo `Width`, and keeps for every reply under way how many requests ago
it was asked for; packets of other programs, which the test of identifier and type drops
(`ping.cpp:101-102`), are left out. `ForkServer` has the server object once per process,
as fork copies it with its pending operations and with its copies of `acceptor_` and
`socket_`, each of which a process closes or keeps on its own: the parent closes the
connection it has handed to a child, the child closes the acceptor. SIGCHLD is a flag.
`Logger` compares the files with those of a logger that writes at once: `due` has what
that logger would have written after each call so far, and the files must be as after
the calls whose functions the thread has run.

### AsioExamples

The ten programs share nothing, so one specification holds them all: `program` is
chosen at the start, that program runs and the others stand still. The behaviours are
the disjoint union of those of the ten, and properties and fairness are stated per
program (`Runs("ping") => ...`). One run then asks the same few questions of all of
them: does every wait end, does what was stopped come to an end, and so on.

### MsmBackend, MsmMachines, Msm, MsmTests

A machine is a record of tables (rows, initial states, history, deferred events,
interrupt states, flags, entry and exit points); a configuration holds the active
state of every region of every machine, the queues, one counter and the outcome of the
last event. The engine is external and stated from what the examples rely on: inner
machine first, rows from the last to the first, then completion transitions, deferred
events, the message queue. `Msm` feeds any event the example sends. `Twin` is another
example that shows the same player in a different notation and gets the same events;
after each, active states and queues are compared, and the outcome if both have the event
(EumlInternal alone has `internal_event`). The state that TLC fingerprints (`View`) keeps
the outcome, so that an event that changes nothing else is compared too. `PlayIsRemembered`
says little of `OrthogonalDeferredEuml` and `OrthogonalDeferredEuml2`, where cd_detected
itself posts play, so that an accepted disc is played whether play was pressed or not.
`MsmTests` replays the `test()` functions and compares with their comments. Three comments
are left out of the scripts because the code does something else than they say; they are
listed under Observations.

## Runs

| Run | Bounds | Shows |
|---|---|---|
| `workflows` | 1 page, 3 ticks, scripts by hand, permissions and sources lost | `TypeOK`, `Delivered`, `NullBuild` |
| `interrupts` | 2 pages, 3 ticks, Ctrl-C anywhere, repeatedly | `InterruptsHeal`, `Delivered` |
| `crashes` | 1 page with 2 contents, 3 ticks, kills anywhere, 1 failing command | `Delivered`, `CleanRecovers` |
| `termination` | 2 pages, 2 ticks, every order of the checkout's times | `MakeSucceeds` |
| `rewrite` | 2 files, links with 0-5 `../`, 2 failing commands, kills | `TypeOK`, `NothingLost`, `BackedUp`, `Stripped` |
| `template` | 0-24 template lines, lists of 0-3 lines or unreadable | `Intact`, `Placed` |
| `chat` | a faulty `chat_client` and a `posix_chat_client`, 1 line each, 1 recent message | `TypeOK`, `NothingSkipped`, `RoomSpec`, `EveryoneHears`, `Gone` |
| `asio` | see below | `TypeOK`, `Actors`, `Settled`, `Attended`, `Handover`, `InOrder`, `Roles`, `Pings`, `OwnDeadline`, `WaitsEnd`, `Finishes`, `Completes` |
| `parsers` | 16 characters, 1 per part, 3 digits in a version, 2 characters in a header's value, 1 header, 1 character that is not plain, 2 of these and the spaces that continue a header, ints up to 58, sizes up to 10 | `RoundTrip`, `Agree` |
| `machines` | 49 machines, any events, 2 deferred events | `TypeOK`, `SameMachine`, `AsCommented`, `ExitsAreLeft`, `InterruptFreezes`, `PlayIsRemembered`, `Resumes` |
| `error_stops` | finding | `ErrorStopsGeneration` violated |
| `rewrite_ok` | finding | `OkMeansRewritten` violated |

Why the bounds are enough. Two pages let find and qhelpgenerator be overtaken by
an edit between the two; a page absent (0) or present (1) already distinguishes
stale from right, and `crashes` adds a second content. make only compares times,
and three ticks give equal, older and newer with room for one more build after
them; jobs are not bounded, so any number of builds, interrupts and cleans follow
each other. One failing command is enough to lose any single step; the number of
kills is not bounded. `Pages` and `Items` are interchangeable, which the runs with
safety properties only use as symmetry. `Template` may stop: the script ends.

Of the asio programs: one session of the timeout server (sessions meet only in the
channel, and a line may come from anybody), deadlines of a few ticks, chosen so that the
heartbeat, the read deadline and the connect deadline keep their order; two endpoints,
so that one attempt can time out and the next succeed; three connections of the HTTP
server, one served, one being accepted and one over; three ports and two frame numbers,
so that a frame of the old port can overtake; a lost frame; a send buffer smaller than
the library's, so that writes are partial; sequence numbers modulo 4 with replies up to
2 requests late, so that they wrap; two children, which can die under one SIGCHLD; four
calls of the logger over two files. The chat room is full with one recent message, so
the second pushes the first out. The parser's bounds let every state be reached and left
on every class of character; "L", "1" and the space are plain, and any other character
occurs once in the parts of a request, and a header continues with one space then, else with two.
With ints up to 58 the digits of a version overflow at the second digit or the third,
three digits let one number have a leading zero. With sizes up to 10 the length "11" is
no size, "1" and "10" are sizes, and "-1" is the greatest. With one header, which of
several Content-Lengths counts is left to the theorem. Two deferred events let a
deferred event be offered again while another waits. iPodEuml is left out of `machines`:
its table has a mistake (Observations). `MsmBackend` needs recursion and is therefore
only model-checked.

Fairness of the build: `FairSpec` adds weak fairness of the running job's own steps and of
nothing else. A process that can run its next command is scheduled by the
operating system; the user is not obliged to anything and may go on editing.

Fairness of the asio programs: an io_service runs every handler that is ready, the
clock ticks, TCP delivers while the connection lasts, signals are delivered. Peers
owe nothing, except where the program itself waits for them for ever: the peer of
`process_per_connection.cpp` closes its connection some day, and the peer of the
third-party library sends what it has, reads, and closes. At most `MaxLost` frames of
the porthopper are lost, beyond those that do not fit.

Findings. (1) When `boost.qhpsrc` cannot be read, `make-boost-qhp.sh:30` prints "One or
more errors stopped the generation." and exits 0, so make compiles the old project and
succeeds (confirmed with GNU make 4.3). Where there is no old project qhelpgenerator
refuses its input and make does fail; the finding is not about that case. (2) Every path
of `rewrite-link` ends with an echo, so `rewritelinks` prints OK for files that were
skipped and can never print FAILED.

Observations. These were met while modelling; no line of the repository says otherwise,
so they are no findings.

* `A/timeouts/server.cpp:280`: handle_write leaves the output deadline running. 30
  seconds after its last message a session with nothing to say is stopped, although
  its reads are in time.
* `A/porthopper/client.cpp:124`: if the change request cannot be written, no frame ever
  reaches the new port and the loop does not end while frames reach the old one.
* `libs/msm/doc/HTML/examples/iPodEuml.cpp:128`: the row `FastForward == NoForward +
  EastReleased` has source and target the wrong way round compared with
  `iPod_distributed`; releasing the button does not end fast forwarding.
* `libs/msm/doc/HTML/examples/iPod_distributed/iPod.cpp:165-166`: while the menu is active
  MiddleButton posts PlayingMiddleButton, and otherwise MenuMiddleButton, but it is the menu
  that waits for MenuMiddleButton (`MenuMode.hpp:55`). Nothing else sends it, so no song can
  be chosen in the menu and its exit MenuExit is never reached. `iPodEuml.cpp:193-196` posts
  PlayingMiddleButton in both cases, and its menu (line 159) is as deaf. `ExitsAreLeft`
  therefore says nothing about MenuExit.
* Comments in the MSM examples' `test()` functions that the machines contradict, and that
  `AsCommented` does not claim: `SM-2Arg.cpp:391` visits Paused and AllOk after the first
  `open_close`, when the player is in Open; `BoostCon09Full.cpp:324` activates LightOn, a state
  this file does not have; and line 299 there says "wrong disk type" of an event whose
  disk is of the right type.
* In the deferring players (`Orthogonal-deferred.cpp` and its relatives) a press of play
  that waits for a disc is lost when an error is found meanwhile: deferred events are
  offered again after the transition to ErrorMode, which discards them.

Each property of a passing run has a mutant in the modules (operators marked
"Mutant") that breaks it.

## Proofs

All theorems hold for every value of the constants (any finite set of pages, files,
sessions, connections, ports or children, any bounds, deadlines and buffer sizes, any
disturbances) that satisfies the named `ASSUME`s, and two of them need a hypothesis
more, which is said below.

### The generator

* `TypeCorrect`, `RewriteTypeCorrect`: `Spec => []TypeOK`, one lemma per script.
* `CleanIsAWayBack`: `Spec => []CleanRecovers`. CleanRecovers is not inductive: it
  speaks of make's exit only. `CleanInv` adds, in named parts: `PhaseInv`, which
  recipe a command belongs to; `ClockInv`, no time lies in the future and what
  make has seen of the project is still there; `SeenInv`, how far make's knowledge
  goes at each stage; `TornInv`, a file being written carries a time that make has
  not seen, so Ctrl-C deletes it (the point where equal ticks could hurt: an
  outdated target is strictly older than now); `WholeInv`, since `make clean` a
  file nobody is writing is finished, and an unfinished `boost.qhp` is the prefix
  that belongs to the command.
* `InterruptsAreHealed`: `Spec => []InterruptsHeal`, under the hypotheses that nothing
  but Ctrl-C disturbs a job (`Disturbances \subseteq {"interrupt"}`, `MaxFaults = 0`),
  which is what the property is about. `WholeInv` is therefore stated for `Sound`
  states: cleaned, or in a world that is calm. `CalmInv` adds that the sources are
  then there and may be used, and that make has seen them.
* `SecondMakeIsIdle`: `Spec => []NullBuild` if no command fails (`MaxFaults = 0`).
  `TrackInv` says which of the times make has read are still those of the files, and
  `OrderInv` how far the files are in order at each of make's steps, although
  `make-boost-qhp.sh` rewrites two prerequisites of the target it makes. The hypothesis
  is the code's, not the prover's: no script looks at the status of a command, and TLC
  shows that two that fail leave an old target behind a make that succeeds.
* `OwedIsDelivered`: `Spec => []Delivered`, with no hypothesis. `ContentInv` says
  that a project being written has no end yet, so that qhelpgenerator refuses it, and an
  output being written is not whole; `ListedInv` that the pages owed are in the list when
  `make-boost-qhp.sh` inserts it; `OwedInv`, for each page that is owed, what make is still
  bound to do for it at every command: the page is already right in the project and in the
  help file, or what holds it is older than something before it and will be remade.
* `OnlyFifteenLines` and `ListsArePlaced`: `Spec => []Intact` and `Spec => []Placed` of
  `QhpTemplate`, for templates and lists of any length. `Inv` says which pieces, each of
  consecutive lines of one file, `boost.qhp` consists of before each command (`CutPiece`:
  head and tail of such a piece are such pieces); `TheLines` turns the five pieces into what
  stands at each place. That 15 is the only length that works has three reasons
  (`OtherLengths`): up to 9 lines the last is in the first piece and in the last, from 10
  to 14 the line n - 5 is in the first and the second, and beyond 15 line 10 is in none.
* `NoPageIsLost`, `BackupsAreTrue`: from `KeptInv`, the page is untouched until its
  backup is complete, and the backup from then on.
* `EveryLinkIsStripped`: from `StripInv` (the files behind the loop are stripped, and
  so is the new text after the second sed) and the lemma `RewrittenIsStripped`,
  that one pass leaves fewer than two `../` and is idempotent, for any length.

### The asio examples

A step of `AsioExamples` is a step of one program and a stutter of the others (the lemmas
`HttpSteps`, `ForkerSteps`, ...), so each program has an invariant of its own, proved from
its own Next.

* `ServerIsAttended` (`Attended`): `HttpInv`, the types of the operations and, of each
  connection, in which of the sets it is while it has an operation.
* `RolesAreKept` (`Roles`): `ForkInv` adds who has the acceptor open: the parent always, a
  running child never, which is what tells the copies of the one server object apart; and
  who has a connection open: the parent only between an accept and its handler, a running
  child always.
* `PingsAreApart` (`Pings`): `PingInv` ties the timer to the step it will call: a time-out
  that was cancelled has had its reply, and a send waits until the pause since the last
  one is over or a reply has come. `OwnNumber`: within one turn of the sequence numbers
  only the last request has the number that is compared.
* `OrderIsKept` (`InOrder`) has two parts. `LibraryInv`: the bytes in the library, in the
  buffer and sent are, in order, those received; a wait is for what the library wants, and
  it reads only into an empty buffer. `LoggerInv`: each function that is posted leads
  from `due[k]` to `due[k + 1]`, so however far the thread has come, the files are those
  of some call, and after the join those of the last.
* `DeadlinesAreOwn` (`OwnDeadline`) is an action property, of the two clients with timeouts
  and the coroutine server. `OneTimer` is the law of `DeadlineTimer` they rest on: moving
  the expiry, cancelling and waking change where the waits of a timer are and never how
  many there are. `ClientInv`, `BlockingInv` and `SpawnInv` add that each actor has one
  wait or is running, and which operation its deadline is for.
* `ActorsLive` (`Actors`): `ServerInv`, for every session, adds the output actor: it has
  one wait or one write, never both, and while there is a message it is awake: it writes,
  its handler is queued, or its timer has expired. The hard steps are `deliver`, which moves the timer of a session whose
  handler may already be queued, and `stop`, which leaves queued handlers behind.
* `PortsAreHandedOver` (`Handover`): `HopperInv`. At most one request is outstanding, it
  replaces the subscription there is, and client and server agree on the port, before the
  server has moved (`NotMoved`) and after (`Moved`). It is proved of the hopper that may
  fail; the hopper without faults takes a subset of its steps (`HopperMayFail`). What
  holds only without faults, that the old port is listened to until the new one is
  reached, has `HopperListens` besides.
* `ReturnsAreSettled` (`Settled`): from `BlockingInv` and `HopperInv`.
* `ExamplesTypes` (`TypeOK`): from the invariants of all the programs. They had to be
  sharpened for it: a timer's expiry stays between never and what it was set for although
  three handlers move it, `endpoint_iter` never passes the end of the list because a
  connect is only under way to an endpoint that is in it (`Trying`), and replies, age and the network of `Ping` stay
  within their bounds.

### The request parsers

* `ParsersAgree` (`Agree`): `Machine` (the request fits the state: a state inside a header
  has one) and `Together`: the parsers are in corresponding states (`Twins`) with the same
  request but for numbers not begun yet (`InStep`), or server has answered and server4 is
  within the content that the length demands or has just taken all of it (`InContent`), or
  server4 has refused what it alone refuses, which no later byte takes back (`Alone4`,
  `ConsumeSound`). One lemma per group of states shows what one byte does in both
  (`TargetAlike`, ..., `HeaderAlike`). Any number of headers may be a Content-Length;
  `content_length_` is that of the last.
* `ParserInverts` (`RoundTrip`) has two parts. `Read`, while no line has continued a
  header, says in each state how the text read so far is made of the parts of the request
  and the digits of the version (`Written`), and which parts are still empty (`Blank`).
  `Numbered` says that the ints are the values of the digits, or undefined since one step
  of the sum overflowed. `Value`, the sum of the digits, and the lines of the headers are
  recursive functions over any length, so that what a further digit or header adds needs
  induction: `Induct` gets it for sets of numbers from their being well-founded.

Both hold for any characters fed, any greatest size and any greatest int that a character
fits in (`NumbersAssumption`), and any bounds on the lengths, as `Feed` only uses the bounds
to stop TLC.

### The chat server

`ChatTypes`, `ChatLosesNothing` and `ChatIsARoom` are `Spec => []TypeOK`, `Spec =>
[]NothingSkipped` and the refinement `Spec => RoomSpec`, for any clients, lines and
`max_recent_msgs`, with any of the clients faulty. All three follow from one inductive
invariant, `ChatInv`, checked with TLC on small instances before it was proved:

* `Writer`: an end has at most one write under way, and it is of the first message of its
  queue, which is why `handle_write` may pop the front.
* `Up`, while the session reads: the pieces on the wire are, up to a bad one, header and
  body of the client's next lines in turn, counted from what the session has said, and the
  lines sent, queued and posted are consecutive. This makes `SessionReadBody` a `Say` of
  the room (`SessionSays`).
* `Down`, once accepted: there are r, the pieces read, and s, the messages sent, such that
  the pieces on the wire are header and body of consecutive messages of the log beginning
  at r, and the queue continues with message s; for a participant up to the end of the log.
  A session whose write failed is `Stalled`, and has left the room. This makes
  `ClientReadBody` a `Hear` (`ClientHears`), shows that no header a client reads is bad, and
  gives `NothingSkipped`.
* `RecentInv`: the recent messages are the last of the log, so that a `join` continues it.

A step touches one connection (`OneConnection`), except `deliver`, which extends the
streams of all participants (`DownSaid`). For these proofs `Sent` and the writes kept by
`Close` are stated by position and by membership instead of by a filter over sequences.

### What the proofs changed

Two assumptions were found by the proofs of the asio examples and are now named in the
modules: the parent of `ForkServer` is none of its children, and port 0 (`NoPort`, what
the client stops when it has no old port) is not one of the ports in use. The property
of `Logger` was a fold over the posted functions; it is now stated with the history
`due`, which says the same and can be reasoned about. The type of the client's deadline
was wrong for read deadlines that are longer than the connect deadline, which no run
has; it now allows for both. `Intact` compared with a filter over a sequence, and now
says by position that every line is there once and in order. `Refused4` of the parsers
counted an empty uri before there was any as a reason to refuse, so that `Agree` said
nothing of the first bytes; it now names the states from which the uri is complete.

### Only model-checked

* Liveness, which is out of the prover's reach: `MakeSucceeds`, `EveryoneHears`, `Gone`,
  `WaitsEnd`, `Finishes`, `Completes`.
* MSM: `TypeOK`, `SameMachine`, `AsCommented`, `ExitsAreLeft`, `InterruptFreezes`,
  `PlayIsRemembered`, `Resumes`. An event runs to completion through operators that call
  each other recursively, which the prover cannot expand. The machines are fixed tables
  without parameters, and TLC sees every reachable configuration of each, up to the bound
  on deferred events.

Every other invariant and action property of the passing runs is stated by a theorem.

## Not modelled

* Of the generator: the wording of messages, the contents of pages, two builds at the
  same time, and `make -j` (the dependency chain leaves it nothing to run in parallel).
* Copies: the MSM examples are there twice (HTML and PDF), most asio examples again
  for C++11 and under `more/`, and the HTTP server four times with other threads around
  the same handlers. One copy of each is modelled and mapped.
* asio examples that show one call and end (allocation, buffers, iostreams, timers,
  multicast, local, socks4, serialization, windows) and those that repeat handlers
  already modelled (echo, ssl, server2, server3); MSM's ParsingDigits, search and
  distributed-table examples and benchmark loops.
* The listings of the other libraries (geometry, math, ublas, log, test, ...): calls of a
  Boost library whose result is printed or plotted, often in floating point; there is no
  state and no order of steps to check. `atomic.hpp` and the doxygen inputs are
  declarations without bodies.
* Boost's documentation tools (doxygen_xml2qbk with the vendored rapidxml, XSL, PHP and
  Python scripts): sequential converters from one text to another, whose correctness is
  the text they print.

These make up most of the 81,600 lines of source in the repository; the models cover
about an eighth of them, and nearly all of those that have concurrent, failing or
long-lived state.

## Plan

1. Two jobs at once over the same files (two makes, make and a script by hand), and
   `rewritelinks` followed by make: it rewrites the generated files too, which
   changes the times make compares.
2. An abstract specification of the build (the help file is the pages at some moment
   since the build began, or the build failed) and `BoostQch` shown to implement it.
