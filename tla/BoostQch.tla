------------------------------ MODULE BoostQch ------------------------------
(***************************************************************************)
(* The Boost help generator: `make`, `make clean` or one of the scripts    *)
(* (one job at a time) over the files of the distribution directory.       *)
(*                                                                         *)
(*   boost.qch <- boost.qhp <- boost.qhpsrc, files-unformatted.list,       *)
(*                             sections.list                               *)
(*   sections.list <- files-unformatted.list <- index.htm                  *)
(*                                                                         *)
(* Every command is an action: make and the scripts communicate only by    *)
(* files and their modification times, no script looks at the status of a  *)
(* command, and between any two commands the user may edit a page, press   *)
(* Ctrl-C or lose the machine.  A page is a name with a content version, a *)
(* project file a sequence of chunks, a modification time a tick of a      *)
(* clock coarse enough for two writes to carry the same time.              *)
(***************************************************************************)
EXTENDS Naturals, Sequences, FiniteSets

CONSTANTS
    Pages,        \* names find's regular expression selects (png, html, css, htm)
    MaxVersion,   \* bound: contents a page can have, 0 being "no such page"
    MaxTime,      \* bound: ticks of the file system clock
    CheckoutTime, \* bound: ticks the checkout of the distribution takes
    MaxFaults,    \* bound: commands that fail
    Disturbances  \* what else may happen to a job

ASSUME PagesAssumption == IsFiniteSet(Pages)
ASSUME BoundsAssumption ==
    /\ MaxVersion \in Nat \ {0} /\ MaxFaults \in Nat
    /\ MaxTime \in Nat /\ CheckoutTime \in 1..MaxTime
ASSUME DisturbancesAssumption ==
    Disturbances \subseteq {"interrupt", "kill", "access", "remove", "shell"}

VARIABLES
    docs,    \* the help pages of the tree and their content version
    mtime,   \* modification time of every file make looks at, 0 if there is none
    list,    \* files.list: whether there is one, and the pages it names
    qhp,     \* boost.qhp, as the sequence of chunks written into it
    qch,     \* boost.qch: the pages compiled into it, and whether it was finished
    now,     \* the file system clock
    faults,  \* commands that have failed
    access,  \* can boost.qhpsrc be read, can the directory be written
    pc,      \* the next command
    job,     \* "make", "clean", "shell" (a script run by hand) or "none"
    recipe,  \* the script or tool the job is running
    seen,    \* the modification times make has read so far, and keeps
    todo,    \* pages the running find or qhelpgenerator has still to visit
    err,     \* make-boost-qhp.sh has said "One or more errors stopped the generation."
    status,  \* exit status of the job
    owed,    \* history: pages the next successful make has to get right
    cleaned  \* history: make clean has run, and nothing was cut short since

files   == <<mtime, list, qhp, qch>>
process == <<pc, job, recipe, seen, todo, err, status>>
world   == <<docs, now, faults, access>>
history == <<owed, cleaned>>
vars    == <<docs, mtime, list, qhp, qch, now, faults, access,
             pc, job, recipe, seen, todo, err, status, owed, cleaned>>

-----------------------------------------------------------------------------
(* Files.  make has no rule for files.list, and no command reads what      *)
(* files-unformatted.list names: of the one only the content is kept, of   *)
(* the other only the time.                                                *)

Version   == 0..MaxVersion
Time      == 0..MaxTime
Source    == {"index.htm", "boost.qhpsrc"}
Generated == {"files-unformatted.list", "sections.list", "boost.qhp", "boost.qch"}
File      == Source \cup Generated

Exists(f) == mtime[f] # 0
Present   == {p \in Pages : docs[p] # 0}

NoList   == [exists |-> FALSE, pages |-> {}]
ListType == [exists : BOOLEAN, pages : SUBSET Pages]
NoQch    == [pages |-> [p \in Pages |-> 0], whole |-> FALSE]
QchType  == [pages : [Pages -> Version], whole : BOOLEAN]

\* The chunks of boost.qhp: lines 1-9, 10-12 and 13-15 of boost.qhpsrc, and the
\* lines of files.list.  (sections.list is always empty.)
Chunk        == [part : {"head", "middle", "files", "tail"}, pages : SUBSET Pages]
Fixed(x)     == [part |-> x, pages |-> {}]
FileLines(S) == [part |-> "files", pages |-> S]

\* What qhelpgenerator accepts: elements closed and properly nested.
Accepted(q) ==
    \/ q = <<Fixed("head"), Fixed("middle"), Fixed("tail")>>
    \/ \E S \in SUBSET Pages :
          q = <<Fixed("head"), Fixed("middle"), FileLines(S), Fixed("tail")>>

Listed(q) == UNION {q[i].pages : i \in 1..Len(q)}

Unlink(f) ==
    /\ mtime' = [g \in File |-> IF g = f THEN 0 ELSE mtime[g]]
    /\ list'  = IF f = "files.list" THEN NoList ELSE list
    /\ qhp'   = IF f = "boost.qhp" THEN <<>> ELSE qhp
    /\ qch'   = IF f = "boost.qch" THEN NoQch ELSE qch

\* A redirection or touch creates a file only where the directory can be
\* written, and opens an existing one in any case.
CanOpen(f) == access.dir \/ Exists(f)
Stamp(f)   == mtime' = [mtime EXCEPT ![f] = now]

\* The clock has moved on since any generated file was written.
Settled == \A f \in Generated : mtime[f] < now

-----------------------------------------------------------------------------
(* Jobs. *)

MakePc == {"goal", "lists", "sections", "qhp", "qch"}
QhgPc  == {"qc_open", "qc_write"}

\* The commands of the scripts, each with the one that follows it.
After == [
    gl_rm_unf   |-> "gl_rm_fl",    gl_rm_fl    |-> "gl_open_fl",
    gl_open_fl  |-> "gl_find_fl",  gl_find_fl  |-> "gl_open_unf",
    gl_open_unf |-> "gl_find_unf", gl_find_unf |-> "gl_end",
    gs_rm       |-> "gs_touch",    gs_touch    |-> "gs_end",
    mb_check    |-> "mb_head",     mb_head     |-> "mb_sections",
    mb_sections |-> "mb_middle",   mb_middle   |-> "mb_files",
    mb_files    |-> "mb_tail",     mb_tail     |-> "mb_end"]
Command == DOMAIN After

\* A pipeline whose output cannot be opened does not run.
AfterFailure == [After EXCEPT !.gl_open_fl = "gl_open_unf", !.gl_open_unf = "gl_end"]

Pc == MakePc \cup QhgPc \cup Command
      \cup {"off", "clean", "exit", "gl_end", "gs_end", "mb_end"}

Scripts == {"generatelists", "generatesections", "make-boost-qhp"}
Recipes == Scripts \cup {"qhelpgenerator"}

\* Mutant: make-boost-qhp.sh does not call generatelists.sh.
EntryWithoutLists == [r \in Recipes |->
    CASE r = "generatelists"    -> "gl_rm_unf"
      [] r = "generatesections" -> "gs_rm"
      [] r = "make-boost-qhp"   -> "gs_rm"
      [] r = "qhelpgenerator"   -> "qc_open"]
Entry   == [r \in Recipes |->
    CASE r = "generatelists"    -> "gl_rm_unf"
      [] r = "generatesections" -> "gs_rm"
      [] r = "make-boost-qhp"   -> "gl_rm_unf"
      [] r = "qhelpgenerator"   -> "qc_open"]

Idle    == pc = "off"
Exit(s) == pc' = "exit" /\ status' = s
Then(c) == pc' = c /\ UNCHANGED <<job, recipe, seen, todo, err, status>>

Start(j, r, first) ==
    /\ Idle
    /\ job' = j /\ recipe' = r /\ pc' = first
    /\ UNCHANGED <<seen, todo, err, status, files, world, history>>

RunMake      == Start("make", "none", "goal")
RunClean     == Start("clean", "none", "clean")
RunScript(r) == "shell" \in Disturbances /\ Start("shell", r, Entry[r])

\* The process is gone, and what it knew with it.
Gone ==
    /\ pc' = "off" /\ job' = "none" /\ recipe' = "none"
    /\ seen' = [f \in File |-> 0] /\ todo' = {} /\ err' = FALSE /\ status' = "none"

End == pc = "exit" /\ Gone /\ UNCHANGED <<files, world, history>>

-----------------------------------------------------------------------------
(* make.  It reads a modification time once, when it first considers a     *)
(* file, and again only after the file's own recipe has run.               *)

\* Mutant: the rule for files-unformatted.list has lost its prerequisite.
PrereqsWithoutIndex == [f \in Generated |->
    CASE f = "boost.qch"              -> {"boost.qhp"}
      [] f = "boost.qhp"              -> {"boost.qhpsrc", "files-unformatted.list",
                                          "sections.list"}
      [] f = "sections.list"          -> {"files-unformatted.list"}
      [] f = "files-unformatted.list" -> {}]
\* Mutant: boost.qhp does not depend on the list of the pages.
PrereqsWithoutLists == [f \in Generated |->
    CASE f = "boost.qch"              -> {"boost.qhp"}
      [] f = "boost.qhp"              -> {"boost.qhpsrc"}
      [] f = "sections.list"          -> {"files-unformatted.list"}
      [] f = "files-unformatted.list" -> {"index.htm"}]
Prereqs == [f \in Generated |->
    CASE f = "boost.qch"              -> {"boost.qhp"}
      [] f = "boost.qhp"              -> {"boost.qhpsrc", "files-unformatted.list",
                                          "sections.list"}
      [] f = "sections.list"          -> {"files-unformatted.list"}
      [] f = "files-unformatted.list" -> {"index.htm"}]
Target == [r \in Recipes |->
    CASE r = "generatelists"    -> "files-unformatted.list"
      [] r = "generatesections" -> "sections.list"
      [] r = "make-boost-qhp"   -> "boost.qhp"
      [] r = "qhelpgenerator"   -> "boost.qch"]

\* A target is remade when it does not exist, or a prerequisite of it does not
\* exist or is newer.
Outdated(time, f) ==
    \/ time[f] = 0
    \/ \E d \in Prereqs[f] : time[d] = 0 \/ time[d] > time[f]

ReadTimes(F) == seen' = [f \in File |-> IF f \in F THEN mtime[f] ELSE seen[f]]

\* A source has no rule: without it make gives up.
MakeGoal ==
    /\ pc = "goal"
    /\ ReadTimes({"boost.qch", "boost.qhp", "boost.qhpsrc"})
    /\ IF Exists("boost.qhpsrc") THEN pc' = "lists" /\ UNCHANGED status ELSE Exit("error")
    /\ UNCHANGED <<job, recipe, todo, err, files, world, history>>

\* make runs the recipe of an outdated target, or goes on to the next target.
Consider(here, r, F, next) ==
    /\ pc = here
    /\ ReadTimes(F)
    /\ IF Outdated(seen', Target[r])
       THEN pc' = Entry[r] /\ recipe' = r
       ELSE pc' = next /\ UNCHANGED recipe
    /\ UNCHANGED <<job, todo, err, files, world, history>>

MakeLists ==
    /\ Consider("lists", "generatelists", {"files-unformatted.list", "index.htm"},
                "sections")
    /\ Exists("index.htm") /\ UNCHANGED status
MakeGivesUp ==
    /\ pc = "lists" /\ ~Exists("index.htm")
    /\ Exit("error")
    /\ UNCHANGED <<job, recipe, seen, todo, err, files, world, history>>
MakeSections ==
    Consider("sections", "generatesections", {"sections.list"}, "qhp") /\ UNCHANGED status
MakeQhp == Consider("qhp", "make-boost-qhp", {}, "qch") /\ UNCHANGED status
MakeQch ==
    /\ Consider("qch", "qhelpgenerator", {}, "exit")
    /\ status' = IF pc' = "exit" THEN "ok" ELSE status

\* Mutant: the last step of make-boost-qhp.sh returns to its first call.
ScriptEndsLooping(here, script, next) ==
    /\ pc = here
    /\ IF recipe = "make-boost-qhp" /\ script # recipe
       THEN Then(IF script = "generatelists" THEN "gs_rm" ELSE "gl_rm_unf")
       ELSE /\ recipe' = "none" /\ UNCHANGED <<job, todo, err>>
            /\ IF job = "make"
               THEN pc' = next /\ ReadTimes({Target[script]}) /\ UNCHANGED status
               ELSE Exit("ok") /\ UNCHANGED seen
    /\ UNCHANGED <<files, world, history>>

\* The end of a script.  make-boost-qhp.sh called the other two and goes on; make
\* goes on to the next target, the status being that of the last echo; a shell
\* gets its prompt back.
ScriptEnds(here, script, next) ==
    /\ pc = here
    /\ IF recipe = "make-boost-qhp" /\ script # recipe
       THEN Then(IF script = "generatelists" THEN "gs_rm" ELSE "mb_check")
       ELSE /\ recipe' = "none" /\ UNCHANGED <<job, todo, err>>
            /\ IF job = "make"
               THEN pc' = next /\ ReadTimes({Target[script]}) /\ UNCHANGED status
               ELSE Exit("ok") /\ UNCHANGED seen
    /\ UNCHANGED <<files, world, history>>

\* make clean: one rm, which takes its arguments in this order.
\* Mutant: make clean leaves the project file.
CleanOrderWithoutQhp ==
    <<"boost.qch", "files.list", "files-unformatted.list", "sections.list">>
CleanOrder == <<"boost.qch", "boost.qhp", "files.list", "files-unformatted.list",
                "sections.list">>
OnDisk == {f \in Generated : Exists(f)} \cup (IF list.exists THEN {"files.list"} ELSE {})
Left   == {CleanOrder[i] : i \in 1..Len(CleanOrder)} \cap OnDisk

CleanRemove ==
    /\ pc = "clean" /\ access.dir
    /\ \E i \in 1..Len(CleanOrder) :
          /\ CleanOrder[i] \in Left
          /\ \A k \in 1..(i-1) : CleanOrder[k] \notin Left
          /\ Unlink(CleanOrder[i])
    /\ UNCHANGED <<process, world, history>>

CleanEnds ==
    /\ pc = "clean"
    /\ \/ Left = {} /\ Exit("ok") /\ owed' = Pages /\ cleaned' = TRUE
       \/ Left # {} /\ ~access.dir /\ Exit("error") /\ UNCHANGED history
    /\ UNCHANGED <<job, recipe, seen, todo, err, files, world>>

Make == MakeGoal \/ MakeLists \/ MakeGivesUp \/ MakeSections \/ MakeQhp \/ MakeQch
        \/ CleanRemove \/ CleanEnds

-----------------------------------------------------------------------------
(* generatelists.sh and generatesections.sh *)

\* rm f -f.  Once files-unformatted.list is gone, make has to list the pages again.
Rm(here, f) ==
    /\ pc = here /\ Then(After[here])
    /\ IF access.dir THEN Unlink(f) ELSE UNCHANGED files
    /\ owed' = IF f = "files-unformatted.list" /\ access.dir /\ Settled THEN Pages ELSE owed
    /\ UNCHANGED <<cleaned, world>>

\* find ... | sed ... > files.list: the shell opens the output, and find meets
\* the pages in directory order, one after the other.
OpenList ==
    /\ pc = "gl_open_fl"
    /\ IF access.dir \/ list.exists
       THEN list' = [exists |-> TRUE, pages |-> {}] /\ todo' = Pages /\ pc' = After[pc]
       ELSE UNCHANGED <<list, todo>> /\ pc' = AfterFailure[pc]
    /\ UNCHANGED <<mtime, qhp, qch, job, recipe, seen, err, status, world, history>>

FindPage(p) ==
    /\ pc = "gl_find_fl" /\ p \in todo
    /\ todo' = todo \ {p}
    /\ list' = [list EXCEPT !.pages = @ \cup ({p} \cap Present)]
    /\ UNCHANGED <<mtime, qhp, qch, pc, job, recipe, seen, err, status, world, history>>

FindEnds ==
    /\ pc = "gl_find_fl" /\ todo = {} /\ Then(After[pc])
    /\ UNCHANGED <<files, world, history>>

\* A command that sets the time of f, if it can open it.
Touch(here, f, otherwise) ==
    /\ pc = here
    /\ IF CanOpen(f) THEN Then(After[here]) /\ Stamp(f) ELSE Then(otherwise) /\ UNCHANGED mtime
    /\ UNCHANGED <<list, qhp, qch, world, history>>

GenerateLists ==
    \/ Rm("gl_rm_unf", "files-unformatted.list")
    \/ Rm("gl_rm_fl", "files.list")
    \/ OpenList \/ (\E p \in Pages : FindPage(p)) \/ FindEnds
    \/ Touch("gl_open_unf", "files-unformatted.list", "gl_end")
    \/ Touch("gl_find_unf", "files-unformatted.list", "gl_end")
    \/ ScriptEnds("gl_end", "generatelists", "sections")

\* Mutant: nothing is touched, there being no sections to generate.
GenerateSectionsNotYet ==
    \/ Rm("gs_rm", "sections.list")
    \/ pc = "gs_touch" /\ Then(After[pc]) /\ UNCHANGED <<files, world, history>>
    \/ ScriptEnds("gs_end", "generatesections", "qhp")

\* The sections are not generated yet: the list is only touched.
GenerateSections ==
    \/ Rm("gs_rm", "sections.list")
    \/ Touch("gs_touch", "sections.list", "gs_end")
    \/ ScriptEnds("gs_end", "generatesections", "qhp")

-----------------------------------------------------------------------------
(* make-boost-qhp.sh, after its calls of the other two scripts *)

CheckAccess ==
    /\ pc = "mb_check"
    /\ IF access.src /\ Exists("boost.qhpsrc") /\ access.dir
       THEN pc' = After[pc] /\ UNCHANGED err
       ELSE pc' = "mb_end" /\ err' = TRUE
    /\ UNCHANGED <<job, recipe, seen, todo, status, files, world, history>>

\* One command of the script leaves q as the project file.
WriteQhp(here, q) ==
    /\ pc = here /\ Then(After[here])
    /\ qhp' = q /\ Stamp("boost.qhp")
    /\ UNCHANGED <<list, qch, world, history>>

\* Nothing is appended by cat of an empty sections.list, nor when a list is
\* missing, which is only warned of.
CatNothing(here) ==
    /\ pc = here /\ Then(After[here])
    /\ UNCHANGED <<files, world, history>>

\* Mutant: the names are inserted without their <file> elements.
CatUnformatted ==
    \/ /\ list.exists
       /\ WriteQhp("mb_files", Append(qhp, [part |-> "names", pages |-> list.pages]))
    \/ ~list.exists /\ CatNothing("mb_files")

CatFiles ==
    \/ list.exists /\ WriteQhp("mb_files", Append(qhp, FileLines(list.pages)))
    \/ ~list.exists /\ CatNothing("mb_files")

MakeBoostQhp ==
    \/ CheckAccess
    \/ WriteQhp("mb_head", <<Fixed("head")>>)
    \/ CatNothing("mb_sections")
    \/ WriteQhp("mb_middle", Append(qhp, Fixed("middle")))
    \/ CatFiles
    \/ WriteQhp("mb_tail", Append(qhp, Fixed("tail")))
    \/ ScriptEnds("mb_end", "make-boost-qhp", "qch")

-----------------------------------------------------------------------------
(* qhelpgenerator boost.qhp -o boost.qch (external).  It parses the project *)
(* before it touches the output, writes the output in place, skips listed  *)
(* pages that do not exist, and reports failure by its status.             *)

\* Compiled after an error, the old project gives boost.qch a time that may
\* hide what is still to be done.
QhgOpen ==
    /\ pc = "qc_open"
    /\ Exists("boost.qhp") /\ Accepted(qhp) /\ access.dir
    /\ qch' = NoQch /\ Stamp("boost.qch")
    /\ todo' = Listed(qhp) /\ pc' = "qc_write"
    /\ owed' = IF err THEN {} ELSE owed
    /\ UNCHANGED <<list, qhp, job, recipe, seen, err, status, world, cleaned>>

QhgRefuses ==
    /\ pc = "qc_open"
    /\ ~(Exists("boost.qhp") /\ Accepted(qhp) /\ access.dir)
    /\ Exit("error")
    /\ UNCHANGED <<job, recipe, seen, todo, err, files, world, history>>

QhgPage(p) ==
    /\ pc = "qc_write" /\ p \in todo
    /\ todo' = todo \ {p}
    /\ qch' = [qch EXCEPT !.pages[p] = docs[p]] /\ Stamp("boost.qch")
    /\ UNCHANGED <<list, qhp, pc, job, recipe, seen, err, status, world, history>>

QhgEnds ==
    /\ pc = "qc_write" /\ todo = {}
    /\ qch' = [qch EXCEPT !.whole = TRUE] /\ Stamp("boost.qch")
    /\ Exit("ok")
    /\ UNCHANGED <<list, qhp, job, recipe, seen, todo, err, world, history>>

Qhelpgenerator == QhgOpen \/ QhgRefuses \/ (\E p \in Pages : QhgPage(p)) \/ QhgEnds

-----------------------------------------------------------------------------
(* The user and the machine. *)

\* A page is added, changed or deleted, at any moment.
EditPage(p, v) ==
    /\ docs[p] # v
    /\ docs' = [docs EXCEPT ![p] = v]
    /\ owed' = owed \ {p}
    /\ UNCHANGED <<now, faults, access, files, process, cleaned>>

\* index.htm is written at any moment: newer documentation copied over the tree
\* brings a new one, the only page make looks at.  boost.qhpsrc is never to be
\* changed, but a lost one may be put back.
TouchSource(f) ==
    /\ f = "boost.qhpsrc" => Idle /\ ~Exists(f)
    /\ Stamp(f)
    /\ owed' = IF f = "index.htm" /\ Idle /\ Settled THEN Pages ELSE owed
    /\ UNCHANGED <<list, qhp, qch, process, world, cleaned>>

RemoveSource(f) ==
    /\ "remove" \in Disturbances /\ Idle /\ Exists(f)
    /\ Unlink(f)
    /\ UNCHANGED <<process, world, history>>

ChangeAccess(a) ==
    /\ "access" \in Disturbances /\ Idle
    /\ access' = a
    /\ UNCHANGED <<docs, now, faults, files, process, history>>

Tick ==
    /\ now < MaxTime
    /\ now' = now + 1
    /\ UNCHANGED <<docs, faults, access, files, process, history>>

\* Mutant: make removes nothing when it is interrupted.
InterruptAsKill ==
    /\ "interrupt" \in Disturbances
    /\ pc \notin {"off", "exit"}
    /\ Gone
    /\ cleaned' = (cleaned /\ job # "shell")
    /\ UNCHANGED <<files, world, owed>>

\* Ctrl-C: script and make die, and make removes the target it was making if its
\* modification time is not the one make has seen.
Interrupt ==
    /\ "interrupt" \in Disturbances
    /\ pc \notin {"off", "exit"}
    /\ IF /\ job = "make" /\ recipe # "none" /\ access.dir
          /\ mtime[Target[recipe]] # seen[Target[recipe]]
       THEN Unlink(Target[recipe])
       ELSE UNCHANGED files
    /\ Gone
    /\ cleaned' = (cleaned /\ job # "shell")
    /\ UNCHANGED <<world, owed>>

\* The machine stops, or everything is killed: nothing is tidied up.
Kill ==
    /\ "kill" \in Disturbances
    /\ pc \notin {"off", "exit"}
    /\ Gone
    /\ cleaned' = FALSE
    /\ UNCHANGED <<files, world, owed>>

\* A command of a script fails (no space, an I/O error), and the script goes on.
\* Nothing later notices if it was to name pages, or to replace an old
\* files-unformatted.list.
CommandFails ==
    /\ faults < MaxFaults /\ faults' = faults + 1
    /\ pc \in Command \ {"gl_rm_unf", "gl_rm_fl", "gs_rm", "mb_check", "mb_sections"}
    /\ pc' = AfterFailure[pc]
    /\ IF pc = "mb_head" THEN qhp' = <<>> /\ Stamp("boost.qhp") ELSE UNCHANGED <<qhp, mtime>>
    /\ owed' = IF \/ pc \in {"gl_open_fl", "gl_find_fl", "mb_files"}
                  \/ pc = "gl_open_unf" /\ Exists("files-unformatted.list")
               THEN {} ELSE owed
    /\ todo' = {} /\ cleaned' = FALSE
    /\ UNCHANGED <<list, qch, job, recipe, seen, err, status, docs, now, access>>

\* qhelpgenerator fails half way: its status stops make, but make leaves the
\* unfinished boost.qch behind (the Makefile has no .DELETE_ON_ERROR).
QhgFails ==
    /\ faults < MaxFaults /\ faults' = faults + 1
    /\ pc = "qc_write"
    /\ Exit("error") /\ cleaned' = FALSE
    /\ UNCHANGED <<job, recipe, seen, todo, err, files, docs, now, access, owed>>

-----------------------------------------------------------------------------
(* Specification. *)

\* A fresh checkout: the lists and the project that are distributed name the
\* pages that are distributed, the files were written in any order, and there
\* is no boost.qch yet.
Init ==
    /\ docs \in [Pages -> {0, 1}]
    /\ now = CheckoutTime /\ faults = 0
    /\ mtime \in [File -> 0..CheckoutTime]
    /\ \A f \in File : mtime[f] = 0 <=> f = "boost.qch"
    /\ list = [exists |-> TRUE, pages |-> Present]
    /\ qhp = <<Fixed("head"), Fixed("middle"), FileLines(Present), Fixed("tail")>>
    /\ qch = NoQch
    /\ access = [src |-> TRUE, dir |-> TRUE]
    /\ pc = "off" /\ job = "none" /\ recipe = "none"
    /\ seen = [f \in File |-> 0] /\ todo = {} /\ err = FALSE /\ status = "none"
    /\ owed = {} /\ cleaned = FALSE

\* The running job's own steps, the user's, and what befalls them.
Run == Make \/ GenerateLists \/ GenerateSections \/ MakeBoostQhp \/ Qhelpgenerator \/ End

User ==
    \/ RunMake \/ RunClean
    \/ \E r \in Scripts : RunScript(r)
    \/ \E p \in Pages, v \in Version : EditPage(p, v)
    \/ \E f \in Source : TouchSource(f) \/ RemoveSource(f)
    \/ \E a \in [src : BOOLEAN, dir : BOOLEAN] : ChangeAccess(a)

Next == Run \/ User \/ Tick \/ Interrupt \/ Kill \/ CommandFails \/ QhgFails

Spec == Init /\ [][Next]_vars

\* A job that has been started is not suspended for ever; the user is not obliged
\* to anything.
FairSpec == Spec /\ WF_vars(Run)

-----------------------------------------------------------------------------
(* Properties. *)

TypeOK ==
    /\ docs \in [Pages -> Version]
    /\ mtime \in [File -> Time]
    /\ list \in ListType
    /\ qhp \in Seq(Chunk)
    /\ qch \in QchType
    /\ now \in Time
    /\ faults \in 0..MaxFaults
    /\ access \in [src : BOOLEAN, dir : BOOLEAN]
    /\ pc \in Pc
    /\ job \in {"none", "make", "clean", "shell"}
    /\ recipe \in {"none"} \cup Recipes
    /\ seen \in [File -> Time]
    /\ todo \in SUBSET Pages
    /\ err \in BOOLEAN
    /\ status \in {"none", "ok", "error"}
    /\ owed \in SUBSET Pages
    /\ cleaned \in BOOLEAN

MakeExits(s) == pc = "exit" /\ job = "make" /\ status = s

\* A make that reports success has every page it owes in boost.qch as it is in
\* the tree: the pages left alone since make clean, since newer documentation was
\* copied in, or since generatelists.sh was run.  Excepted are a boost.qch that a
\* kill or a failing qhelpgenerator cut short, and a make that printed an error.
Delivered ==
    MakeExits("ok") /\ ~err /\ qch.whole => \A p \in owed : qch.pages[p] = docs[p]

\* A second make has nothing to do: although make-boost-qhp.sh rewrites two
\* prerequisites of the target it makes, no target is left older than what it is
\* made from, unless index.htm was written meanwhile.
NullBuild ==
    MakeExits("ok") /\ ~err /\ mtime["index.htm"] = seen["index.htm"]
        => \A f \in Generated : ~Outdated(mtime, f)

\* make clean is a way back from everything: whatever was killed, interrupted or
\* failed before it, the next make that finds its sources and may use them
\* succeeds, and the boost.qch it leaves is finished.
CleanRecovers ==
    pc = "exit" /\ job = "make" /\ cleaned
    /\ access.src /\ access.dir /\ (\A f \in Source : seen[f] # 0)
        => status = "ok" /\ qch.whole

\* Ctrl-C at any command of any make leaves a tree in which make works: no later
\* make fails, and what lies in boost.qch and boost.qhp between jobs is finished.
InterruptsHeal ==
    /\ ~MakeExits("error")
    /\ Idle /\ Exists("boost.qch") => qch.whole
    /\ Idle /\ Exists("boost.qhp") => Accepted(qhp)

\* Every make that is started, and not disturbed, ends, and reports success.
MakeSucceeds == pc = "goal" ~> MakeExits("ok")

\* make-boost-qhp.sh says that its errors stopped the generation: the make that
\* ran it does not report success.
ErrorStopsGeneration == err /\ job = "make" => ~MakeExits("ok")

=============================================================================
