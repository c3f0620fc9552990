----------------------------- MODULE MsmBackend -----------------------------
(***************************************************************************)
(* The run-to-completion step of the Boost.MSM back-end, as the example    *)
(* state machines of libs/msm/doc/HTML/examples use it.  The back-end is a *)
(* library that is not part of the repository; what is stated here is what *)
(* the examples rely on:                                                   *)
(*  - every orthogonal region is offered the event, the innermost machine  *)
(*    first; the rows of a state are tried from the last to the first;     *)
(*  - an event posted by an action waits in the message queue of the       *)
(*    machine until the current event is done;                             *)
(*  - after a handled event come the completion transitions, the deferred  *)
(*    events, and the message queue;                                       *)
(*  - an interrupt state discards every event but the one that ends it.    *)
(*                                                                         *)
(* A machine M is a record of tables (see MachineOf); a configuration s    *)
(* holds the active state of every region of every machine (the last one   *)
(* for a machine that is not active: its history), the queues, one integer *)
(* of data and the outcome of the last event.                              *)
(***************************************************************************)
EXTENDS Integers, Sequences, SequencesExt

Stay == "stay"
Event(name) == [name |-> name, arg |-> 0]
EventOf(name, arg) == [name |-> name, arg |-> arg]
None == Event("none")

(* A row of a transition table, and what may be added to it. *)
R(from, on, to) ==
  [from |-> from, on |-> on, to |-> to, guard |-> "always", do |-> "nothing",
   post |-> <<>>, into |-> <<>>, via |-> Stay]
When(row, g) == [row EXCEPT !.guard = g]
Do(row, a) == [row EXCEPT !.do = a]
Post(row, name) == [row EXCEPT !.post = <<Event(name)>>]
Internal(from, on) == R(from, on, Stay)
Defer(from, on) == Do(Internal(from, on), "defer")
(* Direct entry of chosen states of a submachine, one per region named.    *)
Into(row, states) == [row EXCEPT !.into = states]
(* The row of an exit point: it needs the pseudo state to be active.       *)
Via(row, pseudo) == [row EXCEPT !.via = pseudo]

MaxQueue == 9

(* A machine with its submachines: init and rows per machine, the events.  *)
MachineOf(root, init, rows, events) ==
  [root |-> root, init |-> init, rows |-> rows, events |-> events,
   history |-> <<>>, defer |-> <<>>, ends |-> <<>>, flags |-> <<>>,
   exits |-> <<>>, entries |-> {}, capacity |-> MaxQueue, start |-> 1]

(* f[x] for a table that may not mention x. *)
Of(f, x, default) == IF x \in DOMAIN f THEN f[x] ELSE default
------------------------------------------------------------------------------
(* The active states of machine m and of its active submachines. *)
RECURSIVE Active(_, _, _)
Active(M, s, m) ==
  UNION {{s.at[m][r]} \cup (IF s.at[m][r] \in DOMAIN M.init
                            THEN Active(M, s, s.at[m][r]) ELSE {})
         : r \in DOMAIN s.at[m]}

ActiveStates(M, s) == Active(M, s, M.root)

(* is_flag_active<flag>(): some active state carries the flag. *)
FlagIn(M, s, m, flag) == \E x \in Active(M, s, m) : flag \in Of(M.flags, x, {})
Flag(M, s, flag) == FlagIn(M, s, M.root, flag)

(* is_flag_active<flag, Flag_AND>(): the active state of every region does. *)
FlagAnd(M, s, flag) ==
  \A r \in DOMAIN s.at[M.root] : flag \in Of(M.flags, s.at[M.root][r], {})

Parent(M, m) ==
  CHOOSE p \in DOMAIN M.init : \E i \in DOMAIN M.rows[p] :
     m \in {M.rows[p][i].from, M.rows[p][i].to}

(* Enqueue in machine m; a full circular buffer drops its oldest event.    *)
Enqueue(M, m, e, s) ==
  LET q == Append(s.queue[m], e) IN
  IF Len(q) > M.capacity
  THEN [s EXCEPT !.queue[m] = Tail(q), !.lost = @ + 1]
  ELSE [s EXCEPT !.queue[m] = q]

EnqueueAll(M, m, es, s) == FoldLeft(LAMBDA t, e : Enqueue(M, m, e, t), s, es)
------------------------------------------------------------------------------
(* The guards and the data of the examples. *)
NumberOfSongs == 5
RingingTime == 5

Holds(M, m, row, e, s) ==
  CASE row.guard = "always" -> TRUE
    [] row.guard = "never" -> FALSE
    [] row.guard = "good_disk_format" -> e.arg = 0
    [] row.guard = "fast_fwd_ok" -> ~FlagIn(M, s, m, "NoFastFwd")
    [] row.guard = "is_menu" -> FlagIn(M, s, m, "MenuActive")
    [] row.guard = "is_no_menu" -> ~FlagIn(M, s, m, "MenuActive")
    [] row.guard = "ringing" -> s.n - e.arg > 0
    [] row.guard = "rung" -> s.n - e.arg <= 0

Song(n, ends, s, M, m) ==
  IF ends THEN Enqueue(M, m, Event("EndPlay"), [s EXCEPT !.n = 1]) ELSE [s EXCEPT !.n = n]

Act(M, m, row, e, s) ==
  CASE row.do = "nothing" -> s
    [] row.do = "inc_song_counter" -> Song(s.n + 1, s.n + 1 > NumberOfSongs, s, M, m)
    [] row.do = "dec_song_counter" -> Song(s.n - 1, s.n - 1 <= 0, s, M, m)
    [] row.do = "select_song" ->
         IF e.arg \in 1..NumberOfSongs THEN [s EXCEPT !.n = e.arg] ELSE s
    [] row.do = "select_song_below" ->
         IF e.arg \in 1..(NumberOfSongs - 1) THEN [s EXCEPT !.n = e.arg] ELSE s
    [] row.do = "StartSong5" -> Enqueue(M, m, EventOf("StartSong", 5), s)
    [] row.do = "set_timer" -> [s EXCEPT !.n = e.arg]
    [] row.do = "count_down" ->
         LET t == [s EXCEPT !.n = @ - e.arg] IN
         IF t.n <= 0 THEN Enqueue(M, m, Event("start_ringing"), t) ELSE t
    [] row.do = "set_ringing" -> [s EXCEPT !.n = RingingTime]
    [] row.do = "ring_down" -> [s EXCEPT !.n = @ - e.arg]

Matches(row, e) == row.on = e.name \/ (row.on = "any" /\ e.name # "none")

(* An interrupt state is active and e is not the event that ends it. *)
Blocked(M, m, e, s) ==
  \E r \in DOMAIN s.at[m] :
     s.at[m][r] \in DOMAIN M.ends /\ e.name # M.ends[s.at[m][r]]

(* no = no_transition; deferred, rejected (by a guard), yes. *)
Rank == [no |-> 0, rejected |-> 1, deferred |-> 2, yes |-> 3]
Better(a, b) == IF Rank[a] >= Rank[b] THEN a ELSE b
------------------------------------------------------------------------------
RECURSIVE Enter(_, _, _, _, _)
RECURSIVE ProcessEvent(_, _, _, _)

(* Enter machine c on event e: its initial states, the states it was left  *)
(* in when e activates its history, or the states a direct entry names.    *)
Entered(M, c, e, into, s) ==
  [s EXCEPT !.at[c] = [r \in DOMAIN M.init[c] |->
     IF r \in DOMAIN into THEN into[r]
     ELSE IF e.name \in Of(M.history, c, {}) THEN @[r] ELSE M.init[c][r]]]

EnterAll(M, cs, e, s) == FoldLeft(LAMBDA t, c : Enter(M, c, e, <<>>, t), s, cs)

EnterNested(M, c, e, s) ==
  EnterAll(M, SetToSeq({s.at[c][r] : r \in DOMAIN s.at[c]} \cap DOMAIN M.init), e, s)

Enter(M, c, e, into, s) == EnterNested(M, c, e, Entered(M, c, e, into, s))

(* The state row.to of machine m has become active: an exit point tells    *)
(* the machine around m, a submachine is entered, and told the event if it *)
(* is entered through an entry point.                                      *)
Arrive(M, m, row, e, s) ==
  IF row.to \in DOMAIN M.exits
  THEN Enqueue(M, Parent(M, m), Event(M.exits[row.to]), s)
  ELSE IF row.to \notin DOMAIN M.init THEN s
  ELSE IF \E i \in DOMAIN row.into : row.into[i] \in M.entries
  THEN ProcessEvent(M, row.to, e, Enter(M, row.to, e, row.into, s))
  ELSE Enter(M, row.to, e, row.into, s)

(* Execute one row in region r of m: action, posts, then the new state.    *)
Acted(M, m, row, e, s) == EnqueueAll(M, m, row.post, Act(M, m, row, e, s))
Execute(M, m, r, row, e, s) ==
  [(IF row.to = Stay THEN Acted(M, m, row, e, s)
    ELSE Arrive(M, m, row, e, [Acted(M, m, row, e, s) EXCEPT !.at[m][r] = row.to]))
   EXCEPT !.handled = "yes"]

(* The rows of state x of machine m that match e, and whose exit point, if *)
(* they have one, is active ...                                            *)
Candidates(M, m, x, e, s) ==
  SelectSeq(M.rows[m], LAMBDA row :
    row.from = x /\ Matches(row, e) /\ (row.via = Stay \/ row.via \in Active(M, s, x)))

(* ... are tried from the last to the first, until a guard lets one pass.  *)
Passing(M, m, e, s, rows) == SelectSeq(rows, LAMBDA row : Holds(M, m, row, e, s))

Try(M, m, r, e, s, row) ==
  IF row.do = "defer"
  THEN [s EXCEPT !.deferred[m] = Append(@, e), !.handled = "deferred"]
  ELSE Execute(M, m, r, row, e, s)

TryLast(M, m, r, e, s, rows) ==
  IF rows = <<>> THEN [s EXCEPT !.handled = Better(@, "rejected")]
  ELSE Try(M, m, r, e, s, Last(rows))

TryRows(M, m, r, e, s, rows) ==
  IF rows = <<>> THEN s ELSE TryLast(M, m, r, e, s, Passing(M, m, e, s, rows))

(* Region r of m, whose state is x: the submachine x, then the rows of x,  *)
(* then the events that x defers.                                          *)
Sub(M, x, e, s) ==
  IF x \in DOMAIN M.init THEN ProcessEvent(M, x, e, s) ELSE [s EXCEPT !.handled = "no"]

Own(M, m, r, x, e, s) ==
  IF s.handled \in {"yes", "deferred"} THEN s
  ELSE TryRows(M, m, r, e, s, Candidates(M, m, x, e, s))

Deferred(M, m, x, e, s) ==
  IF s.handled = "no" /\ e.name \in Of(M.defer, x, {})
  THEN [s EXCEPT !.deferred[m] = Append(@, e), !.handled = "deferred"]
  ELSE s

Region(M, m, r, x, e, s) ==
  [Deferred(M, m, x, e, Own(M, m, r, x, e, Sub(M, x, e, s)))
   EXCEPT !.handled = Better(s.handled, @)]

(* All regions; then the internal table of m itself, which is tried last,  *)
(* as the rows of "region 0".                                              *)
Regions(M, m, e, s) ==
  Own(M, m, 0, m, e,
      FoldLeft(LAMBDA t, r : Region(M, m, r, t.at[m][r], e, t), [s EXCEPT !.handled = "no"],
               [r \in DOMAIN s.at[m] |-> r]))

(* The completion transitions, if m has any. *)
Complete(M, m, s) ==
  IF \E i \in DOMAIN M.rows[m] : M.rows[m][i].on = "none"
  THEN ProcessEvent(M, m, None, s) ELSE s

(* The deferred events of m are offered again, each once. *)
Retry(M, m, s) ==
  FoldLeft(LAMBDA t, e : ProcessEvent(M, m, e, t), [s EXCEPT !.deferred[m] = <<>>],
           s.deferred[m])

(* The next event of the message queue, which in its turn drains the rest. *)
Drain(M, m, s) ==
  IF s.queue[m] = <<>> THEN s
  ELSE ProcessEvent(M, m, Head(s.queue[m]), [s EXCEPT !.queue[m] = Tail(@)])

Done(M, m, s) ==
  [Drain(M, m, IF s.handled = "yes" THEN Retry(M, m, Complete(M, m, s)) ELSE s)
   EXCEPT !.handled = s.handled]

(* process_event: one event to completion. *)
ProcessEvent(M, m, e, s) ==
  IF Blocked(M, m, e, s) THEN [Drain(M, m, s) EXCEPT !.handled = "yes"]
  ELSE Done(M, m, Regions(M, m, e, s))

(* start(): enter the root machine and take its completion transitions. *)
Started(M) ==
  Complete(M, M.root,
    [at |-> M.init, n |-> M.start, lost |-> 0, handled |-> "yes",
     queue |-> [m \in DOMAIN M.init |-> <<>>],
     deferred |-> [m \in DOMAIN M.init |-> <<>>]])
==============================================================================
