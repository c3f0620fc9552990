------------------------------- MODULE Logger -------------------------------
(***************************************************************************)
(* The logger_service of cpp03/services: log and use_file post functions   *)
(* to a private io_service, which a thread of its own runs; the destructor *)
(* takes its work away and joins the thread.                               *)
(***************************************************************************)
EXTENDS Integers, Sequences, SequencesExt

CONSTANTS
  LogFiles,   \* names of files
  MaxCalls    \* bound on the calls of log and use_file

LoggerAssumption == MaxCalls \in Nat

VARIABLES
  calls,      \* number of calls so far; it serves as the message logged
  posted,     \* functions posted to work_io_service_ and not yet run
  work_,      \* work_ still holds the io_service
  thread,     \* "runs" or "ended": work_io_service_.run()
  caller,     \* "uses" the service, "joins" the thread, has "left" the destructor
  disk,       \* the file that ofstream_ has open, and what is in the files
  due         \* history: the same after every call, for a logger that writes at once

vars == <<calls, posted, work_, thread, caller, disk, due>>

NoFile == ""
Call(do, arg) == [do |-> do, arg |-> arg]

(* log_impl: without a file the text is lost. *)
log_impl(d, text) ==
  IF d.file = NoFile THEN d ELSE [d EXCEPT !.text[d.file] = Append(@, text)]

(* use_file_impl: open starts the file anew. *)
use_file_impl(d, f) == [d EXCEPT !.file = f, !.text[f] = <<>>]

Run(d, fn) == IF fn.do = "log" THEN log_impl(d, fn.arg) ELSE use_file_impl(d, fn.arg)

Init ==
  /\ calls = 0 /\ posted = <<>> /\ work_ = TRUE /\ thread = "runs" /\ caller = "uses"
  /\ disk = [file |-> NoFile, text |-> [f \in LogFiles |-> <<>>]] /\ due = <<disk>>

(* log and use_file *)
Post(fn) ==
  /\ caller = "uses" /\ calls < MaxCalls
  /\ calls' = calls + 1 /\ posted' = Append(posted, fn) /\ due' = Append(due, Run(Last(due), fn))
  /\ UNCHANGED <<work_, thread, caller, disk>>

(* Mutant: use_file opens the file in the caller's thread. *)
UseFileAtOnce(f) ==
  /\ caller = "uses" /\ calls < MaxCalls
  /\ calls' = calls + 1 /\ disk' = use_file_impl(disk, f)
  /\ due' = Append(due, use_file_impl(Last(due), f))
  /\ UNCHANGED <<posted, work_, thread, caller>>

UseFile(f) == Post(Call("use_file", f))
LogMessage == Post(Call("log", calls))

RunOne ==
  /\ thread = "runs" /\ posted # <<>>
  /\ disk' = Run(disk, Head(posted)) /\ posted' = Tail(posted)
  /\ UNCHANGED <<calls, work_, thread, caller, due>>

RunReturns ==
  /\ thread = "runs" /\ posted = <<>> /\ ~work_ /\ thread' = "ended"
  /\ UNCHANGED <<calls, posted, work_, caller, disk, due>>

(* Mutant: the work is kept while the thread is joined. *)
DestroyKeepsWork ==
  /\ caller = "uses" /\ caller' = "joins"
  /\ UNCHANGED <<calls, posted, work_, thread, disk, due>>

(* ~logger_service *)
Destroy ==
  /\ caller = "uses" /\ work_' = FALSE /\ caller' = "joins"
  /\ UNCHANGED <<calls, posted, thread, disk, due>>

Join ==
  /\ caller = "joins" /\ thread = "ended" /\ caller' = "left"
  /\ UNCHANGED <<calls, posted, work_, thread, disk, due>>

Next ==
  \/ LogMessage \/ RunOne \/ RunReturns \/ Destroy \/ Join
  \/ \E f \in LogFiles : UseFile(f)

Spec == Init /\ [][Next]_vars
-----------------------------------------------------------------------------
(* The files are what they were after some call, when every call is carried*)
(* out at once and in the order of the calls; the calls posted since are   *)
(* the later ones, and when the destructor returns there are none.         *)
AsCalled ==
  /\ disk = due[Len(due) - Len(posted)]
  /\ caller = "left" => disk = Last(due)

(* "io_service::run() function will exit once all other work has           *)
(* completed" (logger_service.hpp:58): the destructor returns.             *)
Joined == caller = "joins" ~> caller = "left"
=============================================================================
