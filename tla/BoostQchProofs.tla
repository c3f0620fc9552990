--------------------------- MODULE BoostQchProofs ---------------------------
(***************************************************************************)
(* Theorems about BoostQch, for every set of pages, every bound and every  *)
(* set of disturbances.                                                    *)
(***************************************************************************)
EXTENDS BoostQch, SequenceTheorems, TLAPS

\* The command after a command of a script is a command, or the script's end.
LEMMA AfterType == \A c \in Command : After[c] \in Pc /\ AfterFailure[c] \in Pc
<1>1. \A c \in Command : After[c] \in Pc
  BY DEF After, Command, Pc
<1>2. \A c \in Command : AfterFailure[c] \in {After[c], "gl_open_unf", "gl_end"}
  BY DEF AfterFailure, Command
<1>3. "gl_open_unf" \in Pc /\ "gl_end" \in Pc
  BY DEF Pc, Command, After
<1>4. QED
  BY <1>1, <1>2, <1>3

\* A recipe starts with one of its commands.
LEMMA EntryType == \A r \in Recipes : Entry[r] \in Pc
BY DEF Entry, Recipes, Scripts, Pc, Command, After, QhgPc

\* Every recipe makes one of the generated files.
LEMMA TargetType == \A r \in Recipes : Target[r] \in Generated
BY DEF Target, Recipes, Scripts, Generated

\* Removing a file leaves files of the right kind.
LEMMA UnlinkType ==
    ASSUME TypeOK, NEW f, Unlink(f)
    PROVE  mtime' \in [File -> Time] /\ list' \in ListType
           /\ qhp' \in Seq(Chunk) /\ qch' \in QchType
<1>1. 0 \in Time /\ 0 \in Version
  BY BoundsAssumption DEF Time, Version
<1>2. NoList \in ListType /\ NoQch \in QchType /\ <<>> \in Seq(Chunk)
  BY <1>1 DEF NoList, ListType, NoQch, QchType
<1>3. QED
  BY <1>1, <1>2 DEF TypeOK, Unlink

\* Setting the time of a file to now.
LEMMA StampType ==
    ASSUME TypeOK, NEW f, Stamp(f)
    PROVE  mtime' \in [File -> Time]
BY DEF TypeOK, Stamp

-----------------------------------------------------------------------------
(* Type correctness *)

LEMMA InitType == Init => TypeOK
<1> SUFFICES ASSUME Init PROVE TypeOK
  OBVIOUS
<1>1. 0 \in Time /\ now \in Time /\ 0..CheckoutTime \subseteq Time
      /\ {0, 1} \subseteq Version /\ faults \in 0..MaxFaults
  BY BoundsAssumption DEF Init, Time, Version
<1>2. docs \in [Pages -> Version] /\ mtime \in [File -> Time] /\ seen \in [File -> Time]
  BY <1>1 DEF Init
<1>3. list \in ListType /\ qch \in QchType
  BY <1>1 DEF Init, ListType, QchType, NoQch, Present
<1>4. qhp \in Seq(Chunk)
  <2>1. Fixed("head") \in Chunk /\ Fixed("middle") \in Chunk /\ Fixed("tail") \in Chunk
        /\ FileLines(Present) \in Chunk
    BY DEF Chunk, Fixed, FileLines, Present
  <2>2. QED
    BY <2>1 DEF Init
<1>5. pc \in Pc /\ job \in {"none", "make", "clean", "shell"}
      /\ recipe \in {"none"} \cup Recipes /\ status \in {"none", "ok", "error"}
      /\ todo \in SUBSET Pages /\ owed \in SUBSET Pages
  BY DEF Init, Pc
<1>6. err \in BOOLEAN /\ cleaned \in BOOLEAN /\ access \in [src : BOOLEAN, dir : BOOLEAN]
  BY DEF Init
<1>7. QED
  BY <1>1, <1>2, <1>3, <1>4, <1>5, <1>6 DEF TypeOK

LEMMA MakeType ==
    ASSUME TypeOK, Make
    PROVE  TypeOK'
<1>1. CASE MakeGoal
  BY <1>1 DEF TypeOK, MakeGoal, ReadTimes, Exit, Pc, MakePc, files, world, history
<1>2. CASE MakeLists
  BY <1>2, EntryType DEF TypeOK, MakeLists, Consider, ReadTimes, Recipes, Scripts, Pc, MakePc, files, world, history
<1>3. CASE MakeGivesUp
  BY <1>3 DEF TypeOK, MakeGivesUp, Exit, Pc, files, world, history
<1>4. CASE MakeSections
  BY <1>4, EntryType DEF TypeOK, MakeSections, Consider, ReadTimes, Recipes, Scripts, Pc, MakePc, files, world, history
<1>5. CASE MakeQhp
  BY <1>5, EntryType DEF TypeOK, MakeQhp, Consider, ReadTimes, Recipes, Scripts, Pc, MakePc, files, world, history
<1>6. CASE MakeQch
  BY <1>6, EntryType DEF TypeOK, MakeQch, Consider, ReadTimes, Recipes, Scripts, Pc, MakePc, files, world, history
<1>7. CASE CleanRemove
  <2>1. PICK f \in {CleanOrder[i] : i \in 1..Len(CleanOrder)} : Unlink(f)
    BY <1>7 DEF CleanRemove
  <2>2. QED
    BY <1>7, <2>1, UnlinkType DEF TypeOK, CleanRemove, process, world, history
<1>8. CASE CleanEnds
  BY <1>8 DEF TypeOK, CleanEnds, Exit, Pc, files, world, history
<1>9. QED
  BY <1>1, <1>2, <1>3, <1>4, <1>5, <1>6, <1>7, <1>8 DEF Make

\* The end of a script, rm, and a command that sets a time, whichever they are.
LEMMA ScriptEndsType ==
    ASSUME TypeOK, NEW here, NEW script \in Scripts, NEW next \in Pc,
           ScriptEnds(here, script, next)
    PROVE  TypeOK'
BY TargetType DEF TypeOK, ScriptEnds, Then, Exit, ReadTimes, Recipes, Pc, Command, After,
                  files, world, history

LEMMA RmType ==
    ASSUME TypeOK, NEW here \in Command, NEW f, Rm(here, f)
    PROVE  TypeOK'
BY UnlinkType, AfterType DEF TypeOK, Rm, Then, files, world

LEMMA TouchType ==
    ASSUME TypeOK, NEW here \in Command, NEW f, NEW otherwise \in Pc,
           Touch(here, f, otherwise)
    PROVE  TypeOK'
BY StampType, AfterType DEF TypeOK, Touch, Then, world, history

LEMMA ListsType ==
    ASSUME TypeOK, GenerateLists
    PROVE  TypeOK'
<1> USE DEF Pc, Command, After
<1>1. CASE \/ Rm("gl_rm_unf", "files-unformatted.list")
           \/ Rm("gl_rm_fl", "files.list")
  BY <1>1, RmType
<1>2. CASE OpenList
  <2>1. [exists |-> TRUE, pages |-> {}] \in ListType
    BY DEF ListType
  <2>2. pc' \in Pc /\ todo' \in SUBSET Pages
    BY <1>2, AfterType DEF TypeOK, OpenList
  <2>3. QED
    BY ZenonT(60), <1>2, <2>1, <2>2 DEF TypeOK, OpenList, world, history
<1>3. CASE \E p \in Pages : FindPage(p)
  BY <1>3 DEF TypeOK, FindPage, Present, ListType, world, history
<1>4. CASE FindEnds
  BY <1>4 DEF TypeOK, FindEnds, Then, files, world, history
<1>5. CASE \/ Touch("gl_open_unf", "files-unformatted.list", "gl_end")
           \/ Touch("gl_find_unf", "files-unformatted.list", "gl_end")
  BY <1>5, TouchType
<1>6. CASE ScriptEnds("gl_end", "generatelists", "sections")
  BY <1>6, ScriptEndsType DEF Scripts, MakePc
<1>7. QED
  BY <1>1, <1>2, <1>3, <1>4, <1>5, <1>6 DEF GenerateLists

LEMMA SectionsType ==
    ASSUME TypeOK, GenerateSections
    PROVE  TypeOK'
<1> USE DEF Pc, Command, After
<1>1. CASE Rm("gs_rm", "sections.list")
  BY <1>1, RmType
<1>2. CASE Touch("gs_touch", "sections.list", "gs_end")
  BY <1>2, TouchType
<1>3. CASE ScriptEnds("gs_end", "generatesections", "qhp")
  BY <1>3, ScriptEndsType DEF Scripts, MakePc
<1>4. QED
  BY <1>1, <1>2, <1>3 DEF GenerateSections

\* A command of make-boost-qhp.sh leaves a sequence of chunks.
LEMMA WriteQhpType ==
    ASSUME TypeOK, NEW here \in Command, NEW q \in Seq(Chunk), WriteQhp(here, q)
    PROVE  TypeOK'
BY StampType, AfterType DEF TypeOK, WriteQhp, Then, world, history

LEMMA QhpType ==
    ASSUME TypeOK, MakeBoostQhp
    PROVE  TypeOK'
<1> USE DEF Pc, Command, After
<1>1. Fixed("head") \in Chunk /\ Fixed("middle") \in Chunk /\ Fixed("tail") \in Chunk
      /\ FileLines(list.pages) \in Chunk
  BY DEF TypeOK, ListType, Chunk, Fixed, FileLines
<1>2. \A c \in Chunk : Append(qhp, c) \in Seq(Chunk) /\ <<c>> \in Seq(Chunk)
  BY DEF TypeOK
<1>3. CASE CheckAccess
  BY <1>3 DEF TypeOK, CheckAccess, files, world, history
<1>4. CASE \/ WriteQhp("mb_head", <<Fixed("head")>>)
           \/ WriteQhp("mb_middle", Append(qhp, Fixed("middle")))
           \/ WriteQhp("mb_files", Append(qhp, FileLines(list.pages)))
           \/ WriteQhp("mb_tail", Append(qhp, Fixed("tail")))
  BY <1>1, <1>2, <1>4, WriteQhpType
<1>5. CASE CatNothing("mb_sections") \/ CatNothing("mb_files")
  BY <1>5 DEF TypeOK, CatNothing, Then, files, world, history
<1>6. CASE ScriptEnds("mb_end", "make-boost-qhp", "qch")
  BY <1>6, ScriptEndsType DEF Scripts, MakePc
<1>7. QED
  BY <1>3, <1>4, <1>5, <1>6 DEF MakeBoostQhp, CatFiles

LEMMA QchTypeStep ==
    ASSUME TypeOK, Qhelpgenerator
    PROVE  TypeOK'
<1> USE DEF Pc, QhgPc, QchType
<1>1. CASE QhgOpen
  <2>1. NoQch \in QchType
    BY BoundsAssumption DEF NoQch, Version
  <2>2. Listed(qhp) \subseteq Pages
    <3>1. \A i \in 1..Len(qhp) : qhp[i] \in Chunk
      BY DEF TypeOK
    <3>2. \A c \in Chunk : c.pages \subseteq Pages
      BY DEF Chunk
    <3>3. QED
      BY <3>1, <3>2 DEF Listed
  <2>3. QED
    BY <1>1, <2>1, <2>2, StampType DEF TypeOK, QhgOpen, world, history
<1>2. CASE QhgRefuses
  BY <1>2 DEF TypeOK, QhgRefuses, Exit, files, world, history
<1>3. CASE \E p \in Pages : QhgPage(p)
  BY <1>3, StampType DEF TypeOK, QhgPage, world, history
<1>4. CASE QhgEnds
  BY <1>4, StampType DEF TypeOK, QhgEnds, Exit, world, history
<1>5. QED
  BY <1>1, <1>2, <1>3, <1>4 DEF Qhelpgenerator

LEMMA UserType ==
    ASSUME TypeOK, User
    PROVE  TypeOK'
<1>1. CASE RunMake \/ RunClean
  BY <1>1 DEF TypeOK, RunMake, RunClean, Start, Pc, MakePc, files, world, history
<1>2. CASE \E r \in Scripts : RunScript(r)
  BY <1>2, EntryType DEF TypeOK, RunScript, Start, Recipes, files, world, history
<1>3. CASE \E p \in Pages, v \in Version : EditPage(p, v)
  BY <1>3 DEF TypeOK, EditPage, files, process
<1>4. CASE \E f \in Source : TouchSource(f)
  BY <1>4, StampType DEF TypeOK, TouchSource, process, world
<1>5. CASE \E f \in Source : RemoveSource(f)
  BY <1>5, UnlinkType DEF TypeOK, RemoveSource, process, world, history
<1>6. CASE \E a \in [src : BOOLEAN, dir : BOOLEAN] : ChangeAccess(a)
  BY <1>6 DEF TypeOK, ChangeAccess, files, process, history
<1>7. QED
  BY <1>1, <1>2, <1>3, <1>4, <1>5, <1>6 DEF User

\* What a process that is gone leaves of itself.
LEMMA GoneType ==
    ASSUME Gone
    PROVE  /\ pc' \in Pc /\ job' = "none" /\ recipe' = "none" /\ seen' \in [File -> Time]
           /\ todo' \in SUBSET Pages /\ err' \in BOOLEAN /\ status' = "none"
<1>1. 0 \in Time
  BY BoundsAssumption DEF Time
<1>2. QED
  BY <1>1 DEF Gone, Pc

LEMMA NextType == TypeOK /\ [Next]_vars => TypeOK'
<1> SUFFICES ASSUME TypeOK, [Next]_vars PROVE TypeOK'
  OBVIOUS
<1>1. CASE Run
  <2>1. CASE End
    BY <2>1, GoneType DEF TypeOK, End, files, world, history
  <2>2. QED
    BY <1>1, <2>1, MakeType, ListsType, SectionsType, QhpType, QchTypeStep DEF Run
<1>2. CASE User
  BY <1>2, UserType
<1>3. CASE Tick
  BY <1>3, BoundsAssumption DEF TypeOK, Tick, Time, files, process, history
<1>4. CASE Interrupt
  <2>1. mtime' \in [File -> Time] /\ list' \in ListType /\ qhp' \in Seq(Chunk)
        /\ qch' \in QchType
    BY <1>4, UnlinkType DEF TypeOK, Interrupt, files
  <2>2. cleaned' \in BOOLEAN
    BY <1>4, Zenon DEF TypeOK, Interrupt
  <2>3. QED
    BY <1>4, <2>1, <2>2, GoneType DEF TypeOK, Interrupt, world
<1>5. CASE Kill
  BY <1>5, GoneType DEF TypeOK, Kill, files, world
<1>6. CASE CommandFails
  <2>1. faults' \in 0..MaxFaults
    BY <1>6, BoundsAssumption DEF TypeOK, CommandFails
  <2>2. mtime' \in [File -> Time] /\ qhp' \in Seq(Chunk)
    <3>1. (qhp' = <<>> /\ Stamp("boost.qhp")) \/ UNCHANGED <<qhp, mtime>>
      BY <1>6, Zenon DEF CommandFails
    <3>2. <<>> \in Seq(Chunk)
      OBVIOUS
    <3>3. QED
      BY <3>1, <3>2, StampType DEF TypeOK
  <2>3. pc' \in Pc /\ owed' \in SUBSET Pages
    BY <1>6, AfterType DEF TypeOK, CommandFails
  <2>4. QED
    BY <1>6, <2>1, <2>2, <2>3 DEF TypeOK, CommandFails
<1>7. CASE QhgFails
  <2>1. faults' \in 0..MaxFaults
    BY <1>7, BoundsAssumption DEF TypeOK, QhgFails
  <2>2. QED
    BY <1>7, <2>1 DEF TypeOK, QhgFails, Exit, Pc, files
<1>8. CASE UNCHANGED vars
  BY <1>8 DEF TypeOK, vars
<1>9. QED
  BY <1>1, <1>2, <1>3, <1>4, <1>5, <1>6, <1>7, <1>8 DEF Next

\* Every state of every behaviour is of the expected type, whatever the pages, the
\* bounds and the disturbances.
THEOREM TypeCorrect == Spec => []TypeOK
<1>1. QED
  BY InitType, NextType, PTL DEF Spec

-----------------------------------------------------------------------------
(* `make clean` is a way back from everything: CleanRecovers holds of      *)
(* every behaviour, for every set of pages, every bound and every          *)
(* disturbance.  It is not inductive: why the next make succeeds depends   *)
(* on what is in boost.qhp and boost.qch, and on the times make has seen.  *)

GlPc    == {"gl_rm_unf", "gl_rm_fl", "gl_open_fl", "gl_find_fl", "gl_open_unf",
            "gl_find_unf", "gl_end"}
GsPc    == {"gs_rm", "gs_touch", "gs_end"}
\* boost.qhp is unfinished before these commands of make-boost-qhp.sh.
Partial == {"mb_sections", "mb_middle", "mb_files", "mb_tail"}
MbPc    == Partial \cup {"mb_check", "mb_head", "mb_end"}

\* Nothing can happen to a job but Ctrl-C.
Calm  == Disturbances \subseteq {"interrupt"} /\ MaxFaults = 0
\* Nothing was cut short but by Ctrl-C in make, since make clean or at all.
Sound == cleaned \/ Calm

\* Which job and which recipe a command belongs to.
PhaseInv ==
    /\ pc = "off" => job = "none"
    /\ pc = "clean" => job = "clean"
    /\ pc \in MakePc => job = "make" /\ recipe = "none"
    /\ pc \in QhgPc => job = "make" /\ recipe = "qhelpgenerator"
    /\ pc \in GlPc => job \in {"make", "shell"}
                      /\ recipe \in {"generatelists", "make-boost-qhp"}
    /\ pc \in GsPc => job \in {"make", "shell"}
                      /\ recipe \in {"generatesections", "make-boost-qhp"}
    /\ pc \in MbPc => job \in {"make", "shell"} /\ recipe = "make-boost-qhp"

\* No file is from the future; only make remembers times, and what it has seen of
\* boost.qhpsrc, boost.qhp and boost.qch is still there.
ClockInv ==
    /\ now > 0
    /\ \A f \in File : mtime[f] <= now /\ seen[f] <= now
    /\ job # "make" => \A f \in File : seen[f] = 0
    /\ \A f \in {"boost.qhpsrc", "boost.qhp", "boost.qch"} : seen[f] # 0 => Exists(f)

\* make has got beyond its first step.
Underway == job = "make" /\ pc \notin {"goal", "exit"}

\* What make knows of the files: a script that could not write has left nothing.
SeenInv ==
    /\ pc \in {"goal", "lists"} => seen["index.htm"] = 0
    /\ Underway => seen["boost.qhpsrc"] # 0
    /\ Underway /\ recipe # "make-boost-qhp" /\ Exists("boost.qhp") => seen["boost.qhp"] # 0
    /\ Sound /\ access.dir =>
        /\ pc \in {"gl_find_unf", "gl_end"} => Exists("files-unformatted.list")
        /\ pc = "gs_end" => Exists("sections.list")
        /\ pc \in {"sections", "qhp"} \/ (job = "make" /\ recipe = "generatesections")
              => seen["files-unformatted.list"] # 0
        /\ pc = "qhp" => seen["sections.list"] # 0
        /\ job = "make" /\ recipe = "make-boost-qhp" => seen["boost.qhp"] < now
        /\ access.src /\ Exists("boost.qhpsrc") /\ pc \in {"mb_end", "qch", "qc_open"}
              => Exists("boost.qhp")
    /\ pc = "qc_open" /\ Exists("boost.qhp") => seen["boost.qch"] < now

\* A file that is being written is one make will remove when interrupted.
TornInv ==
    /\ pc \in Partial => access.dir /\ Exists("boost.qhp")
    /\ Sound /\ job = "make" /\ pc \in Partial => mtime["boost.qhp"] > seen["boost.qhp"]
    /\ pc = "mb_head" => access.dir
    /\ pc = "qc_write" => access.dir /\ mtime["boost.qch"] > seen["boost.qch"]

\* A boost.qhp or a boost.qch that nobody is writing is finished.
WholeInv ==
    Sound =>
    /\ Exists("boost.qch") /\ pc # "qc_write" => qch.whole
    /\ Exists("boost.qhp") /\ pc \notin Partial => Accepted(qhp)
    /\ pc \in {"mb_sections", "mb_middle"} => qhp = <<Fixed("head")>>
    /\ pc = "mb_files" => qhp = <<Fixed("head"), Fixed("middle")>>
    /\ pc = "mb_tail" =>
          \/ qhp = <<Fixed("head"), Fixed("middle")>>
          \/ \E S \in SUBSET Pages : qhp = <<Fixed("head"), Fixed("middle"), FileLines(S)>>

\* CleanRecovers, of a tree that has always been calm too.
Recovers ==
    pc = "exit" /\ job = "make" /\ Sound
    /\ access.src /\ access.dir /\ (\A f \in Source : seen[f] # 0)
        => status = "ok" /\ qch.whole

\* What nothing but Ctrl-C can change.
CalmInv ==
    Calm =>
    /\ job # "shell" /\ access.src /\ access.dir
    /\ \A f \in Source : Exists(f)
    /\ job = "make" /\ pc \notin {"goal", "lists"} => \A f \in Source : seen[f] # 0

CleanInv == PhaseInv /\ ClockInv /\ SeenInv /\ TornInv /\ WholeInv /\ Recovers

-----------------------------------------------------------------------------

\* The tables of the model, row by row.
LEMMA Entries ==
    /\ Entry["generatelists"] = "gl_rm_unf" /\ Entry["generatesections"] = "gs_rm"
    /\ Entry["make-boost-qhp"] = "gl_rm_unf" /\ Entry["qhelpgenerator"] = "qc_open"
BY DEF Entry, Recipes, Scripts

LEMMA Targets ==
    /\ Target["generatelists"] = "files-unformatted.list"
    /\ Target["generatesections"] = "sections.list"
    /\ Target["make-boost-qhp"] = "boost.qhp" /\ Target["qhelpgenerator"] = "boost.qch"
BY DEF Target, Recipes, Scripts

LEMMA PrereqRows ==
    /\ Prereqs["boost.qch"] = {"boost.qhp"}
    /\ Prereqs["boost.qhp"] = {"boost.qhpsrc", "files-unformatted.list", "sections.list"}
    /\ Prereqs["sections.list"] = {"files-unformatted.list"}
    /\ Prereqs["files-unformatted.list"] = {"index.htm"}
BY DEF Prereqs, Generated

\* Times are numbers, and an outdated target whose prerequisites make has seen is
\* older than now.
LEMMA TimesAreNumbers ==
    ASSUME TypeOK
    PROVE  now \in Nat /\ \A f \in File : mtime[f] \in Nat /\ seen[f] \in Nat
BY BoundsAssumption DEF TypeOK, Time

LEMMA OutdatedIsOlder ==
    ASSUME TypeOK, ClockInv, NEW f \in Generated, Outdated(seen, f),
           \A d \in Prereqs[f] : d \in File /\ seen[d] # 0
    PROVE  seen[f] < now
<1>1. f \in File
  BY DEF File
<1>2. QED
  BY <1>1, TimesAreNumbers DEF Outdated, ClockInv

\* Removing a file changes the time of no other, and no other's content.
LEMMA UnlinkOnly ==
    ASSUME TypeOK, NEW f, Unlink(f)
    PROVE  /\ \A g \in File : g # f => mtime'[g] = mtime[g]
           /\ f \in File => mtime'[f] = 0
           /\ f # "boost.qhp" => qhp' = qhp
           /\ f # "boost.qch" => qch' = qch
BY DEF TypeOK, Unlink

\* Neither removing a file nor setting its time puts one into the future.
LEMMA NotInTheFuture ==
    ASSUME TypeOK, ClockInv, NEW f, Unlink(f) \/ Stamp(f) \/ UNCHANGED mtime
    PROVE  \A g \in File : mtime'[g] <= now
<1>1. \A g \in File : mtime'[g] \in {0, now, mtime[g]}
  BY DEF Unlink, Stamp, TypeOK
<1>2. QED
  BY <1>1, TimesAreNumbers DEF ClockInv

LEMMA StampOnly ==
    ASSUME TypeOK, NEW f, Stamp(f)
    PROVE  /\ \A g \in File : g # f => mtime'[g] = mtime[g]
           /\ f \in File => mtime'[f] = now
BY DEF TypeOK, Stamp

LEMMA CleanInit == Init => CleanInv
<1> SUFFICES ASSUME Init PROVE CleanInv
  OBVIOUS
<1>1. PhaseInv
  BY DEF Init, PhaseInv, MakePc, QhgPc, GlPc, GsPc, MbPc, Partial
<1>2. ClockInv
  BY BoundsAssumption DEF Init, ClockInv, File, Source, Generated, Exists
<1>3. SeenInv /\ TornInv /\ WholeInv /\ Recovers
  BY DEF Init, SeenInv, TornInv, WholeInv, Recovers, Sound, Underway, Partial, Exists,
         Accepted, Present, File, Generated
<1>4. QED
  BY <1>1, <1>2, <1>3 DEF CleanInv

LEMMA CalmInit == Init => CalmInv
BY DEF Init, CalmInv, Exists, File, Source

LEMMA CleanMake ==
    ASSUME TypeOK, TypeOK', CleanInv, Make
    PROVE  CleanInv'
<1> USE DEF TypeOK, CleanInv, Exists, File, Source, Generated, Time, PhaseInv, ClockInv,
            SeenInv, TornInv, WholeInv, Recovers, Sound, Underway, MakePc, QhgPc,
            GlPc, GsPc, MbPc, Partial, Accepted, files, world, history
<1>1. CASE MakeGoal
  BY <1>1 DEF MakeGoal, ReadTimes, Exit
<1>2. CASE MakeLists
  BY SMTT(30), <1>2, Entries, Targets, PrereqRows DEF MakeLists, Consider, ReadTimes, Outdated
<1>3. CASE MakeGivesUp
  BY <1>3 DEF MakeGivesUp, Exit
<1>4. CASE MakeSections
  BY SMTT(30), <1>4, Entries, Targets, PrereqRows DEF MakeSections, Consider, ReadTimes, Outdated
<1>5. CASE MakeQhp
  <2>1. seen' = seen
    BY <1>5 DEF MakeQhp, Consider, ReadTimes
  <2>2. CASE Outdated(seen, "boost.qhp")
    <3>1. pc' = "gl_rm_unf" /\ recipe' = "make-boost-qhp"
      BY <1>5, <2>1, <2>2, Entries, Targets DEF MakeQhp, Consider
    <3>2. Sound /\ access.dir => seen["boost.qhp"] < now
      BY <1>5, <2>2, PrereqRows, OutdatedIsOlder DEF MakeQhp, Consider
    <3>3. QED
      BY <1>5, <2>1, <3>1, <3>2 DEF MakeQhp, Consider
  <2>3. CASE ~Outdated(seen, "boost.qhp")
    <3>1. pc' = "qch" /\ recipe' = recipe /\ seen["boost.qhp"] # 0
      BY <1>5, <2>1, <2>3, Entries, Targets DEF MakeQhp, Consider, Outdated
    <3>2. QED
      BY <1>5, <2>1, <3>1 DEF MakeQhp, Consider
  <2>4. QED
    BY <2>2, <2>3
<1>6. CASE MakeQch
  <2>1. seen' = seen
    BY <1>6 DEF MakeQch, Consider, ReadTimes
  <2>2. CASE Outdated(seen, "boost.qch")
    <3>1. pc' = "qc_open" /\ recipe' = "qhelpgenerator" /\ status' = status
      BY <1>6, <2>1, <2>2, Entries, Targets DEF MakeQch, Consider
    <3>2. Exists("boost.qhp") => seen["boost.qch"] < now
      BY <1>6, <2>2, PrereqRows, OutdatedIsOlder DEF MakeQch, Consider
    <3>3. QED
      BY <1>6, <2>1, <3>1, <3>2 DEF MakeQch, Consider
  <2>3. CASE ~Outdated(seen, "boost.qch")
    <3>1. pc' = "exit" /\ recipe' = recipe /\ seen["boost.qch"] # 0 /\ status' = "ok"
      BY <1>6, <2>1, <2>3, Entries, Targets DEF MakeQch, Consider, Outdated
    <3>2. QED
      BY <1>6, <2>1, <3>1 DEF MakeQch, Consider
  <2>4. QED
    BY <2>2, <2>3
<1>7. CASE CleanRemove
  <2>1. PICK f \in {CleanOrder[i] : i \in 1..Len(CleanOrder)} : Unlink(f)
    BY <1>7 DEF CleanRemove
  <2>2. QED
    BY <1>7, <2>1, UnlinkOnly, TimesAreNumbers DEF CleanRemove, process
<1>8. CASE CleanEnds
  BY <1>8 DEF CleanEnds, Exit, Left, OnDisk, CleanOrder
<1>9. QED
  BY <1>1, <1>2, <1>3, <1>4, <1>5, <1>6, <1>7, <1>8 DEF Make

\* The steps of the two list scripts touch neither boost.qhp nor boost.qch.
LEMMA CleanRm ==
    ASSUME TypeOK, TypeOK', CleanInv, NEW here, NEW f,
           \/ here = "gl_rm_unf" /\ f = "files-unformatted.list"
           \/ here = "gl_rm_fl" /\ f = "files.list"
           \/ here = "gs_rm" /\ f = "sections.list",
           Rm(here, f)
    PROVE  CleanInv'
<1>1. pc' \in {"gl_rm_fl", "gl_open_fl", "gs_touch"} /\ pc = here
      /\ (pc' \in GsPc <=> here \in GsPc)
  BY DEF Rm, Then, After, GsPc
<1>2. /\ \A g \in {"boost.qhp", "boost.qch", "boost.qhpsrc"} : mtime'[g] = mtime[g]
      /\ \A g \in File : mtime'[g] <= now
      /\ qhp' = qhp /\ qch' = qch
  <2>1. Unlink(f) \/ UNCHANGED files
    BY DEF Rm
  <2>2. f \notin {"boost.qhp", "boost.qch", "boost.qhpsrc"}
    OBVIOUS
  <2>3. {"boost.qhp", "boost.qch", "boost.qhpsrc"} \subseteq File
    BY DEF File, Source, Generated
  <2>4. QED
    BY <2>1, <2>2, <2>3, UnlinkOnly, NotInTheFuture DEF files, CleanInv
<1> USE DEF TypeOK, CleanInv, Exists, File, Source, Generated, Time, PhaseInv, ClockInv,
            SeenInv, TornInv, WholeInv, Recovers, Sound, Underway, MakePc, QhgPc,
            GlPc, GsPc, MbPc, Partial, Accepted, files, world, history
<1>3. QED
  BY SMTT(30), <1>1, <1>2 DEF Rm, Then

LEMMA CleanTouch ==
    ASSUME TypeOK, TypeOK', CleanInv, NEW here, NEW f, NEW otherwise,
           \/ /\ here \in {"gl_open_unf", "gl_find_unf"}
              /\ f = "files-unformatted.list" /\ otherwise = "gl_end"
           \/ here = "gs_touch" /\ f = "sections.list" /\ otherwise = "gs_end",
           Touch(here, f, otherwise)
    PROVE  CleanInv'
<1>1. pc' \in {"gl_find_unf", "gl_end", "gs_end"} /\ pc = here
      /\ (pc' \in GsPc <=> here \in GsPc)
  BY DEF Touch, Then, After, GsPc
<1>2. /\ \A g \in {"boost.qhp", "boost.qch", "boost.qhpsrc"} : mtime'[g] = mtime[g]
      /\ \A g \in File : mtime'[g] <= now
      /\ access.dir => mtime'[f] # 0
      /\ qhp' = qhp /\ qch' = qch
  <2>1. Stamp(f) \/ (UNCHANGED mtime /\ ~access.dir)
    BY DEF Touch, CanOpen
  <2>2. f \notin {"boost.qhp", "boost.qch", "boost.qhpsrc"} /\ f \in File
    BY DEF File, Generated
  <2>3. {"boost.qhp", "boost.qch", "boost.qhpsrc"} \subseteq File
    BY DEF File, Source, Generated
  <2>4. now # 0 /\ qhp' = qhp /\ qch' = qch
    BY DEF Touch, CleanInv, ClockInv
  <2>5. QED
    BY <2>1, <2>2, <2>3, <2>4, StampOnly, NotInTheFuture DEF CleanInv
<1> USE DEF TypeOK, CleanInv, Exists, File, Source, Generated, Time, PhaseInv, ClockInv,
            SeenInv, TornInv, WholeInv, Recovers, Sound, Underway, MakePc, QhgPc,
            GlPc, GsPc, MbPc, Partial, Accepted, files, world, history
<1>3. QED
  BY ZenonT(60), <1>1, <1>2 DEF Touch, Then

LEMMA CleanScriptEnds ==
    ASSUME TypeOK, TypeOK', CleanInv, NEW here, NEW script, NEW next,
           \/ here = "gl_end" /\ script = "generatelists" /\ next = "sections"
           \/ here = "gs_end" /\ script = "generatesections" /\ next = "qhp"
           \/ here = "mb_end" /\ script = "make-boost-qhp" /\ next = "qch",
           ScriptEnds(here, script, next)
    PROVE  CleanInv'
<1> USE DEF TypeOK, CleanInv, Exists, File, Source, Generated, Time, PhaseInv, ClockInv,
            SeenInv, TornInv, WholeInv, Recovers, Sound, Underway, MakePc, QhgPc,
            GlPc, GsPc, MbPc, Partial, Accepted, files, world, history
<1>1. CASE recipe = "make-boost-qhp" /\ script # recipe
  BY <1>1 DEF ScriptEnds, Then
<1>2. CASE ~(recipe = "make-boost-qhp" /\ script # recipe) /\ job = "make"
  <2>1. recipe' = "none" /\ pc' = next /\ Target[script] \in File /\ job' = job
        /\ UNCHANGED <<files, world, history>>
    BY <1>2, Targets DEF ScriptEnds
  <2>2. /\ seen'[Target[script]] = mtime[Target[script]]
        /\ \A g \in File : g # Target[script] => seen'[g] = seen[g]
    BY SMTT(30), <1>2, <2>1 DEF ScriptEnds, ReadTimes
  <2>3. CASE script = "generatelists"
    BY SMTT(30), <1>2, <2>1, <2>2, <2>3, Targets DEF ScriptEnds
  <2>4. CASE script = "generatesections"
    BY SMTT(30), <1>2, <2>1, <2>2, <2>4, Targets DEF ScriptEnds
  <2>5. CASE script = "make-boost-qhp"
    BY SMTT(30), <1>2, <2>1, <2>2, <2>5, Targets DEF ScriptEnds
  <2>6. QED
    BY <2>3, <2>4, <2>5
<1>3. CASE ~(recipe = "make-boost-qhp" /\ script # recipe) /\ job # "make"
  BY <1>3 DEF ScriptEnds, Exit
<1>4. QED
  BY <1>1, <1>2, <1>3

LEMMA CleanLists ==
    ASSUME TypeOK, TypeOK', CleanInv, GenerateLists
    PROVE  CleanInv'
<1>1. CASE OpenList \/ (\E p \in Pages : FindPage(p)) \/ FindEnds
  <2> USE DEF TypeOK, CleanInv, Exists, File, Source, Generated, Time, PhaseInv, ClockInv,
              SeenInv, TornInv, WholeInv, Recovers, Sound, Underway, MakePc, QhgPc,
              GlPc, GsPc, MbPc, Partial, Accepted, files, world, history
  <2>1. CASE OpenList
    BY SMTT(30), <2>1 DEF OpenList, After, AfterFailure
  <2>2. CASE \E p \in Pages : FindPage(p)
    BY <2>2 DEF FindPage
  <2>3. CASE FindEnds
    BY <2>3 DEF FindEnds, Then, After
  <2>4. QED
    BY <1>1, <2>1, <2>2, <2>3
<1>2. QED
  BY <1>1, CleanRm, CleanTouch, CleanScriptEnds DEF GenerateLists

LEMMA CleanSections ==
    ASSUME TypeOK, TypeOK', CleanInv, GenerateSections
    PROVE  CleanInv'
BY CleanRm, CleanTouch, CleanScriptEnds DEF GenerateSections

\* Appending to a sequence written out.
LEMMA AppendToOne ==
    ASSUME NEW a \in Chunk, NEW b \in Chunk
    PROVE  Append(<<a>>, b) = <<a, b>>
<1> DEFINE s == <<a>>
           t == <<a, b>>
<1>1. s \in Seq(Chunk) /\ t \in Seq(Chunk) /\ Len(s) = 1 /\ Len(t) = 2
  OBVIOUS
<1>2. /\ Append(s, b) \in Seq(Chunk) /\ Len(Append(s, b)) = 2
      /\ Append(s, b)[1] = a /\ Append(s, b)[2] = b
  BY <1>1, AppendProperties
<1>3. \A i \in 1..2 : Append(s, b)[i] = t[i]
  BY <1>2
<1>4. QED
  BY <1>1, <1>2, <1>3, SeqEqual

LEMMA AppendToTwo ==
    ASSUME NEW a \in Chunk, NEW b \in Chunk, NEW c \in Chunk
    PROVE  Append(<<a, b>>, c) = <<a, b, c>>
<1> DEFINE s == <<a, b>>
           t == <<a, b, c>>
<1>1. s \in Seq(Chunk) /\ t \in Seq(Chunk) /\ Len(s) = 2 /\ Len(t) = 3
  OBVIOUS
<1>2. /\ Append(s, c) \in Seq(Chunk) /\ Len(Append(s, c)) = 3
      /\ Append(s, c)[1] = a /\ Append(s, c)[2] = b /\ Append(s, c)[3] = c
  BY <1>1, AppendProperties
<1>3. \A i \in 1..3 : Append(s, c)[i] = t[i]
  BY <1>2
<1>4. QED
  BY <1>1, <1>2, <1>3, SeqEqual

LEMMA AppendToThree ==
    ASSUME NEW a \in Chunk, NEW b \in Chunk, NEW c \in Chunk, NEW d \in Chunk
    PROVE  Append(<<a, b, c>>, d) = <<a, b, c, d>>
<1> DEFINE s == <<a, b, c>>
           t == <<a, b, c, d>>
<1>1. s \in Seq(Chunk) /\ t \in Seq(Chunk) /\ Len(s) = 3 /\ Len(t) = 4
  OBVIOUS
<1>2. /\ Append(s, d) \in Seq(Chunk) /\ Len(Append(s, d)) = 4
      /\ Append(s, d)[1] = a /\ Append(s, d)[2] = b /\ Append(s, d)[3] = c /\ Append(s, d)[4] = d
  BY <1>1, AppendProperties
<1>3. \A i \in 1..4 : Append(s, d)[i] = t[i]
  BY <1>2
<1>4. QED
  BY <1>1, <1>2, <1>3, SeqEqual

\* A chunk is appended by a command in the middle of make-boost-qhp.sh.
LEMMA CleanWrite ==
    ASSUME TypeOK, TypeOK', CleanInv, NEW here, NEW q, WriteQhp(here, q),
           here \in {"mb_head", "mb_middle", "mb_files", "mb_tail"},
           Sound =>
             /\ here = "mb_head" => q = <<Fixed("head")>>
             /\ here = "mb_middle" => q = <<Fixed("head"), Fixed("middle")>>
             /\ here = "mb_files" =>
                  \E S \in SUBSET Pages : q = <<Fixed("head"), Fixed("middle"), FileLines(S)>>
             /\ here = "mb_tail" => Accepted(q)
    PROVE  CleanInv'
<1>1. /\ pc = here /\ qhp' = q /\ qch' = qch
      /\ UNCHANGED <<job, recipe, seen, todo, err, status, world, history>>
  BY DEF WriteQhp, Then
<1>2. /\ here = "mb_head" => pc' = "mb_sections"
      /\ here = "mb_middle" => pc' = "mb_files"
      /\ here = "mb_files" => pc' = "mb_tail"
      /\ here = "mb_tail" => pc' = "mb_end"
  BY DEF WriteQhp, Then, After
<1>3. /\ mtime'["boost.qhp"] = now
      /\ \A g \in File : g # "boost.qhp" => mtime'[g] = mtime[g]
      /\ \A g \in File : mtime'[g] <= now
  BY StampOnly, NotInTheFuture DEF WriteQhp, CleanInv, File, Generated
<1>4. access.dir /\ recipe = "make-boost-qhp" /\ job \in {"make", "shell"}
  BY <1>1 DEF CleanInv, TornInv, PhaseInv, Partial, MbPc
<1>5. PhaseInv' /\ TornInv' /\ Recovers'
  BY <1>1, <1>2, <1>3, <1>4
     DEF CleanInv, PhaseInv, TornInv, SeenInv, ClockInv, Recovers, Sound, Exists, Partial,
         MakePc, QhgPc, GlPc, GsPc, MbPc, world, history
<1>6. ClockInv'
  BY <1>1, <1>3 DEF CleanInv, ClockInv, Exists, File, Source, Generated, world
<1>7. SeenInv'
  BY <1>1, <1>2, <1>3, <1>4
     DEF CleanInv, SeenInv, ClockInv, Sound, Underway, Exists, File, Source, Generated, world,
         history
<1>8. WholeInv'
  BY <1>1, <1>2, <1>3
     DEF CleanInv, WholeInv, Sound, Exists, Accepted, Partial, File, Generated, history
<1>9. QED
  BY <1>5, <1>6, <1>7, <1>8 DEF CleanInv

LEMMA Chunks ==
    /\ Fixed("head") \in Chunk /\ Fixed("middle") \in Chunk /\ Fixed("tail") \in Chunk
    /\ \A S \in SUBSET Pages : FileLines(S) \in Chunk
BY DEF Chunk, Fixed, FileLines

LEMMA CleanQhp ==
    ASSUME TypeOK, TypeOK', CleanInv, MakeBoostQhp
    PROVE  CleanInv'
<1>1. CASE CheckAccess \/ CatNothing("mb_sections") \/ (~list.exists /\ CatNothing("mb_files"))
  <2> USE DEF TypeOK, CleanInv, Exists, File, Source, Generated, Time, PhaseInv, ClockInv,
              SeenInv, TornInv, WholeInv, Recovers, Sound, Underway, MakePc, QhgPc,
              GlPc, GsPc, MbPc, Partial, Accepted, files, world, history
  <2>1. CASE CheckAccess
    BY SMTT(30), <2>1 DEF CheckAccess, After
  <2>2. CASE CatNothing("mb_sections")
    BY <2>2 DEF CatNothing, Then, After
  <2>3. CASE CatNothing("mb_files")
    BY <2>3 DEF CatNothing, Then, After
  <2>4. QED
    BY <1>1, <2>1, <2>2, <2>3
<1>2. CASE WriteQhp("mb_head", <<Fixed("head")>>)
  BY <1>2, CleanWrite
<1>3. CASE WriteQhp("mb_middle", Append(qhp, Fixed("middle")))
  <2>1. Sound => Append(qhp, Fixed("middle")) = <<Fixed("head"), Fixed("middle")>>
    BY <1>3, Chunks, AppendToOne DEF WriteQhp, CleanInv, WholeInv
  <2>2. QED
    BY <1>3, <2>1, CleanWrite
<1>4. CASE WriteQhp("mb_files", Append(qhp, FileLines(list.pages)))
  <2>1. list.pages \in SUBSET Pages
    BY DEF TypeOK, ListType
  <2>2. Sound => Append(qhp, FileLines(list.pages))
                   = <<Fixed("head"), Fixed("middle"), FileLines(list.pages)>>
    BY ZenonT(60), <1>4, <2>1, Chunks, AppendToTwo DEF WriteQhp, CleanInv, WholeInv
  <2>3. QED
    BY <1>4, <2>1, <2>2, CleanWrite
<1>5. CASE WriteQhp("mb_tail", Append(qhp, Fixed("tail")))
  <2>1. Sound => Accepted(Append(qhp, Fixed("tail")))
    <3> SUFFICES ASSUME Sound PROVE Accepted(Append(qhp, Fixed("tail")))
      OBVIOUS
    <3>1. CASE qhp = <<Fixed("head"), Fixed("middle")>>
      BY <3>1, Chunks, AppendToTwo DEF Accepted
    <3>2. CASE \E S \in SUBSET Pages :
                  qhp = <<Fixed("head"), Fixed("middle"), FileLines(S)>>
      <4>1. PICK S \in SUBSET Pages : qhp = <<Fixed("head"), Fixed("middle"), FileLines(S)>>
        BY <3>2
      <4>2. Append(qhp, Fixed("tail"))
            = <<Fixed("head"), Fixed("middle"), FileLines(S), Fixed("tail")>>
        BY <4>1, Chunks, AppendToThree
      <4>3. QED
        BY <4>2 DEF Accepted
    <3>3. QED
      BY <1>5, <3>1, <3>2 DEF WriteQhp, CleanInv, WholeInv
  <2>2. QED
    BY <1>5, <2>1, CleanWrite
<1>6. QED
  BY <1>1, <1>2, <1>3, <1>4, <1>5, CleanScriptEnds DEF MakeBoostQhp, CatFiles

LEMMA CleanQch ==
    ASSUME TypeOK, TypeOK', CleanInv, Qhelpgenerator
    PROVE  CleanInv'
<1>1. Stamp("boost.qch") => /\ mtime'["boost.qch"] = now
                            /\ \A g \in File : g # "boost.qch" => mtime'[g] = mtime[g]
                            /\ \A g \in File : mtime'[g] <= now
  BY StampOnly, NotInTheFuture DEF CleanInv, File, Generated
<1> USE DEF TypeOK, CleanInv, Exists, File, Source, Generated, Time, PhaseInv, ClockInv,
            SeenInv, TornInv, WholeInv, Recovers, Sound, Underway, MakePc, QhgPc,
            GlPc, GsPc, MbPc, Partial, Accepted, files, world, history
<1>2. CASE QhgOpen
  BY SMTT(30), <1>1, <1>2 DEF QhgOpen
<1>3. CASE QhgRefuses
  BY <1>3 DEF QhgRefuses, Exit
<1>4. CASE \E p \in Pages : QhgPage(p)
  BY SMTT(30), <1>1, <1>4, TimesAreNumbers DEF QhgPage
<1>5. CASE QhgEnds
  BY SMTT(30), <1>1, <1>5 DEF QhgEnds, Exit, QchType
<1>6. QED
  BY <1>2, <1>3, <1>4, <1>5 DEF Qhelpgenerator

LEMMA CleanUser ==
    ASSUME TypeOK, TypeOK', CleanInv, User
    PROVE  CleanInv'
<1> USE DEF TypeOK, CleanInv, Exists, File, Source, Generated, Time, PhaseInv, ClockInv,
            SeenInv, TornInv, WholeInv, Recovers, Sound, Underway, MakePc, QhgPc,
            GlPc, GsPc, MbPc, Partial, Accepted, files, world, history
<1>1. CASE RunMake \/ RunClean
  BY SMTT(30), <1>1 DEF RunMake, RunClean, Start, Idle
<1>2. CASE \E r \in Scripts : RunScript(r)
  BY <1>2, Entries DEF RunScript, Start, Idle, Scripts
<1>3. CASE \E p \in Pages, v \in Version : EditPage(p, v)
  BY SMTT(30), <1>3 DEF EditPage, process
<1>4. CASE \E f \in Source : TouchSource(f)
  <2>1. PICK f \in Source : TouchSource(f)
    BY <1>4
  <2>2. /\ \A g \in Generated : mtime'[g] = mtime[g]
        /\ \A g \in File : mtime'[g] <= now
        /\ mtime'["boost.qhpsrc"] # mtime["boost.qhpsrc"] => pc = "off"
    BY SMTT(30), <2>1, StampOnly, NotInTheFuture DEF TouchSource, Idle
  <2>3. QED
    BY SMTT(30), <2>1, <2>2 DEF TouchSource, process
<1>5. CASE \E f \in Source : RemoveSource(f)
  <2>1. PICK f \in Source : RemoveSource(f)
    BY <1>5
  <2>2. /\ \A g \in Generated : mtime'[g] = mtime[g]
        /\ \A g \in File : mtime'[g] <= now
        /\ qhp' = qhp /\ qch' = qch /\ pc = "off"
    BY <2>1, UnlinkOnly, NotInTheFuture DEF RemoveSource, Idle
  <2>3. QED
    BY <2>1, <2>2 DEF RemoveSource, process
<1>6. CASE \E a \in [src : BOOLEAN, dir : BOOLEAN] : ChangeAccess(a)
  BY <1>6 DEF ChangeAccess, Idle, process
<1>7. QED
  BY <1>1, <1>2, <1>3, <1>4, <1>5, <1>6 DEF User

\* Ctrl-C: what was being written is removed.
LEMMA CleanInterrupt ==
    ASSUME TypeOK, TypeOK', CleanInv, CalmInv, Interrupt
    PROVE  CleanInv'
<1>1. pc' = "off" /\ job' = "none" /\ \A f \in File : seen'[f] = 0
  BY DEF Interrupt, Gone
<1>2. UNCHANGED <<world, owed>> /\ (Sound' => Sound /\ job # "shell")
  BY DEF Interrupt, TypeOK, Sound, CalmInv
<1>3. PICK f : Unlink(f) \/ UNCHANGED files
  BY DEF Interrupt
<1>4. \A g \in File : mtime'[g] <= now
  BY <1>3, NotInTheFuture DEF CleanInv, files
<1>5. PhaseInv' /\ ClockInv' /\ SeenInv' /\ TornInv' /\ Recovers'
  <2>1. PhaseInv' /\ TornInv' /\ Recovers'
    BY <1>1 DEF PhaseInv, TornInv, Recovers, MakePc, QhgPc, GlPc, GsPc, MbPc, Partial
  <2>2. ClockInv'
    BY <1>1, <1>2, <1>4, TimesAreNumbers
       DEF CleanInv, ClockInv, Exists, File, Source, Generated, world
  <2>3. SeenInv'
    BY <1>1 DEF SeenInv, Underway
  <2>4. QED
    BY <2>1, <2>2, <2>3
<1>6. WholeInv'
  <2>1. ASSUME Sound', mtime'["boost.qch"] # 0 PROVE qch'.whole
    <3>1. mtime["boost.qch"] # 0 /\ qch' = qch
      BY <1>3, <2>1, UnlinkOnly DEF files, File, Generated
    <3>2. pc # "qc_write"
      <4> SUFFICES ASSUME pc = "qc_write" PROVE FALSE
        OBVIOUS
      <4>1. job = "make" /\ recipe = "qhelpgenerator" /\ access.dir
            /\ mtime["boost.qch"] # seen["boost.qch"]
        BY TimesAreNumbers DEF CleanInv, PhaseInv, TornInv, QhgPc, File, Generated
      <4>2. Unlink("boost.qch")
        BY <4>1, Targets DEF Interrupt
      <4>3. QED
        BY <2>1, <4>2, UnlinkOnly DEF File, Generated
    <3>3. QED
      BY <1>2, <2>1, <3>1, <3>2 DEF CleanInv, WholeInv, Exists
  <2>2. ASSUME Sound', mtime'["boost.qhp"] # 0 PROVE Accepted(qhp')
    <3>1. mtime["boost.qhp"] # 0 /\ qhp' = qhp
      BY <1>3, <2>2, UnlinkOnly DEF files, File, Generated
    <3>2. pc \notin Partial
      <4> SUFFICES ASSUME pc \in Partial PROVE FALSE
        OBVIOUS
      <4>1. job = "make" /\ recipe = "make-boost-qhp" /\ access.dir
            /\ mtime["boost.qhp"] # seen["boost.qhp"]
        BY <1>2, <2>2, TimesAreNumbers DEF CleanInv, PhaseInv, TornInv, MbPc, File, Generated
      <4>2. Unlink("boost.qhp")
        BY <4>1, Targets DEF Interrupt
      <4>3. QED
        BY <2>2, <4>2, UnlinkOnly DEF File, Generated
    <3>3. QED
      BY <1>2, <2>2, <3>1, <3>2 DEF CleanInv, WholeInv, Exists
  <2>3. QED
    BY <1>1, <2>1, <2>2 DEF WholeInv, Exists, Accepted, Partial
<1>7. QED
  BY <1>5, <1>6 DEF CleanInv

\* In a calm world nothing fails, nothing is killed, and no script is run by hand.
LEMMA NotCalm ==
    ASSUME TypeOK,
           \/ Kill \/ CommandFails \/ QhgFails
           \/ \E r \in Scripts : RunScript(r)
           \/ \E f \in Source : RemoveSource(f)
           \/ \E a \in [src : BOOLEAN, dir : BOOLEAN] : ChangeAccess(a)
    PROVE  ~Calm
BY DEF TypeOK, Kill, CommandFails, QhgFails, RunScript, RemoveSource, ChangeAccess, Calm

\* A process that goes leaves the files it was not writing.
LEMMA CleanGone ==
    ASSUME TypeOK, CleanInv, Gone, UNCHANGED <<files, world>>,
           Sound' => Sound /\ pc # "qc_write" /\ pc \notin Partial
    PROVE  CleanInv'
<1>1. pc' = "off" /\ job' = "none" /\ \A f \in File : seen'[f] = 0
  BY DEF Gone
<1>2. PhaseInv' /\ TornInv' /\ Recovers'
  BY <1>1 DEF PhaseInv, TornInv, Recovers, MakePc, QhgPc, GlPc, GsPc, MbPc, Partial
<1>3. ClockInv'
  BY <1>1, TimesAreNumbers
     DEF CleanInv, ClockInv, Exists, File, Source, Generated, files, world
<1>4. SeenInv'
  BY <1>1 DEF SeenInv, Underway
<1>5. WholeInv'
  BY <1>1 DEF CleanInv, WholeInv, Exists, Accepted, Partial, files
<1>6. QED
  BY <1>2, <1>3, <1>4, <1>5 DEF CleanInv

\* A failing command keeps the script where it is, and its boost.qhp in place.
LEMMA CleanFailure ==
    ASSUME TypeOK, TypeOK', CleanInv, CommandFails
    PROVE  CleanInv'
<1>1. /\ pc \in Command /\ pc # "mb_check"
      /\ pc' = AfterFailure[pc] /\ cleaned' = FALSE
      /\ UNCHANGED <<job, recipe, seen, now, access>> /\ ~Sound'
  BY NotCalm DEF CommandFails, Sound
<1>2. AfterFailure[pc] = CASE pc = "gl_open_fl"  -> "gl_open_unf"
                           [] pc = "gl_open_unf" -> "gl_end"
                           [] OTHER              -> After[pc]
  BY <1>1, Zenon DEF AfterFailure, Command, After
<1>3. /\ pc \in GlPc => pc' \in GlPc
      /\ pc \in GsPc => pc' \in GsPc
      /\ pc \in MbPc => pc' \in MbPc
      /\ pc' \in Partial => pc \in Partial \cup {"mb_head"}
      /\ pc \in GlPc \cup GsPc \cup MbPc /\ pc' # "mb_head"
  BY <1>1, <1>2 DEF Command, After, GlPc, GsPc, MbPc, Partial
<1>4. /\ \A g \in File : g # "boost.qhp" => mtime'[g] = mtime[g]
      /\ \A g \in File : mtime'[g] <= now
      /\ pc # "mb_head" => mtime' = mtime
      /\ pc = "mb_head" => mtime'["boost.qhp"] = now
  BY StampOnly, NotInTheFuture DEF CommandFails, CleanInv, File, Generated
<1>5. PhaseInv'
  BY <1>1, <1>3 DEF CleanInv, PhaseInv, MakePc, QhgPc, GlPc, GsPc, MbPc, Partial
<1>6. ClockInv'
  BY <1>1, <1>4, TimesAreNumbers DEF CleanInv, ClockInv, Exists, File, Source, Generated
<1>7. SeenInv'
  BY <1>1, <1>3, <1>4
     DEF CleanInv, SeenInv, PhaseInv, Underway, Exists, File, Source, Generated,
         GlPc, GsPc, MbPc, Partial
<1>8. TornInv'
  BY <1>1, <1>3, <1>4
     DEF CleanInv, TornInv, ClockInv, Exists, GlPc, GsPc, MbPc, Partial, File, Generated
<1>9. WholeInv' /\ Recovers'
  BY <1>1, <1>3 DEF WholeInv, Recovers, GlPc, GsPc, MbPc, Partial
<1>10. QED
  BY <1>5, <1>6, <1>7, <1>8, <1>9 DEF CleanInv

LEMMA CleanNext == TypeOK /\ TypeOK' /\ CleanInv /\ CalmInv /\ [Next]_vars => CleanInv'
<1> SUFFICES ASSUME TypeOK, TypeOK', CleanInv, CalmInv, [Next]_vars PROVE CleanInv'
  OBVIOUS
<1>1. CASE Make \/ GenerateLists \/ GenerateSections \/ MakeBoostQhp \/ Qhelpgenerator
  BY <1>1, CleanMake, CleanLists, CleanSections, CleanQhp, CleanQch
<1>2. CASE User
  BY <1>2, CleanUser
<1>3. CASE Interrupt
  BY <1>3, CleanInterrupt
<1>4. CASE Kill
  BY <1>4, NotCalm, CleanGone DEF Kill, Sound
<1>5. CASE End
  BY <1>5, CleanGone DEF End, Sound, Partial, history
<1>6. now \in Nat /\ \A f \in File : mtime[f] \in Nat /\ seen[f] \in Nat
  BY TimesAreNumbers
<1> USE DEF CleanInv, Exists, File, Source, Generated, PhaseInv, ClockInv,
            SeenInv, TornInv, WholeInv, Recovers, Underway, MakePc, QhgPc,
            GlPc, GsPc, MbPc, Partial, Accepted, files, world, history
<1> USE DEF TypeOK, Sound
<1>11. CASE Tick
  BY SMTT(30), <1>6, <1>11 DEF Tick, process
<1>7. CASE CommandFails
  BY <1>7, CleanFailure
<1>8. CASE QhgFails
  BY <1>8, NotCalm DEF QhgFails, Exit
<1>9. CASE UNCHANGED vars
  BY <1>9 DEF vars
<1>10. QED
  BY <1>1, <1>2, <1>3, <1>4, <1>5, <1>7, <1>8, <1>9, <1>11 DEF Next, Run

\* A step removes a file that is generated, sets the time of one file, or leaves
\* the times alone; only the user removes a source.
LEMMA WritesOneFile ==
    ASSUME TypeOK, [Next]_vars
    PROVE  \/ \E f : f \notin Source /\ Unlink(f)
           \/ \E f \in File : Stamp(f)
           \/ UNCHANGED mtime
           \/ \E f \in Source : RemoveSource(f)
<1> USE DEF files
<1>1. CASE Make
  <2>1. CASE CleanRemove
    <3>1. PICK i \in 1..Len(CleanOrder) : Unlink(CleanOrder[i])
      BY <2>1 DEF CleanRemove
    <3>2. CleanOrder[i] \notin Source
      BY DEF CleanOrder, Source
    <3>3. QED
      BY <3>1, <3>2
  <2>2. QED
    BY <1>1, <2>1 DEF Make, MakeGoal, MakeLists, MakeGivesUp, MakeSections, MakeQhp, MakeQch,
                      Consider, CleanEnds
<1>2. CASE GenerateLists \/ GenerateSections
  <2>1. ASSUME NEW here, NEW f, f \notin Source, Rm(here, f)
        PROVE  Unlink(f) \/ UNCHANGED mtime
    BY <2>1 DEF Rm
  <2>2. ASSUME NEW here, NEW f, NEW otherwise, Touch(here, f, otherwise)
        PROVE  Stamp(f) \/ UNCHANGED mtime
    BY <2>2 DEF Touch
  <2>3. /\ {"files-unformatted.list", "sections.list"} \subseteq File
        /\ {"files-unformatted.list", "sections.list", "files.list"} \cap Source = {}
    BY DEF File, Generated, Source
  <2>4. QED
    BY <1>2, <2>1, <2>2, <2>3
       DEF GenerateLists, GenerateSections, OpenList, FindPage, FindEnds, ScriptEnds
<1>3. CASE MakeBoostQhp \/ Qhelpgenerator
  <2>1. {"boost.qhp", "boost.qch"} \subseteq File
    BY DEF File, Generated
  <2>2. QED
    BY <1>3, <2>1 DEF MakeBoostQhp, Qhelpgenerator, CheckAccess, WriteQhp, CatNothing, CatFiles,
                      ScriptEnds, QhgOpen, QhgRefuses, QhgPage, QhgEnds
<1>4. CASE End \/ Tick \/ Kill \/ QhgFails \/ UNCHANGED vars
  BY <1>4 DEF End, Tick, Kill, QhgFails, vars
<1>5. CASE User
  BY <1>5 DEF User, RunMake, RunClean, RunScript, Start, EditPage, TouchSource, ChangeAccess, File
<1>6. CASE Interrupt
  <2>1. \A r \in Recipes : Target[r] \notin Source
    BY TargetType DEF Generated, Source
  <2>2. QED
    BY <1>6, <2>1 DEF Interrupt, TypeOK
<1>7. CASE CommandFails
  <2>1. "boost.qhp" \in File
    BY DEF File, Generated
  <2>2. QED
    BY <1>7, <2>1 DEF CommandFails
<1>8. QED
  BY <1>1, <1>2, <1>3, <1>4, <1>5, <1>6, <1>7 DEF Next, Run

\* make reads the times of the sources in its first two steps only.
LEMMA SeenSources ==
    ASSUME TypeOK, CleanInv, [Next]_vars, job' = "make", pc' \notin {"goal", "lists"},
           Exists("index.htm")
    PROVE  \/ MakeGoal \/ MakeLists
           \/ /\ job' = job /\ pc \notin {"goal", "lists"}
              /\ \A f \in Source : seen'[f] = seen[f]
<1>1. CASE Make
  BY <1>1 DEF Make, MakeGivesUp, MakeSections, MakeQhp, MakeQch, Consider, ReadTimes, CleanRemove,
              CleanEnds, process, File, Source
<1>2. ASSUME NEW here, NEW script, NEW next, ScriptEnds(here, script, next),
             script \in Scripts, here \notin {"goal", "lists"}
      PROVE  /\ job' = job /\ pc \notin {"goal", "lists"}
             /\ \A f \in Source : seen'[f] = seen[f]
  <2>1. Target[script] \notin Source
    BY <1>2, TargetType DEF Recipes, Generated, Source
  <2>2. QED
    BY <1>2, <2>1 DEF ScriptEnds, Then, ReadTimes, File
<1>3. CASE GenerateLists \/ GenerateSections
  BY <1>2, <1>3 DEF GenerateLists, GenerateSections, Rm, OpenList, FindPage, FindEnds, Touch, Then,
                    Scripts
<1>4. CASE MakeBoostQhp \/ Qhelpgenerator
  BY <1>2, <1>4 DEF MakeBoostQhp, CheckAccess, WriteQhp, CatNothing, CatFiles, Then, Scripts,
                    Qhelpgenerator, QhgOpen, QhgRefuses, QhgPage, QhgEnds
<1>5. CASE End \/ Kill \/ Interrupt
  BY <1>5 DEF End, Kill, Interrupt, Gone
<1>6. CASE User
  BY <1>6 DEF User, RunMake, RunClean, RunScript, Start, EditPage, TouchSource, RemoveSource,
              ChangeAccess, process
<1>7. CASE Tick \/ UNCHANGED vars
  BY <1>7 DEF Tick, process, vars
<1>8. CASE CommandFails \/ QhgFails
  BY <1>8 DEF CommandFails, QhgFails, Command, After
<1>9. QED
  BY <1>1, <1>3, <1>4, <1>5, <1>6, <1>7, <1>8 DEF Next, Run

\* A calm world stays calm: no step takes a source or a permission away, and make
\* has seen every source once it is past its first two steps.
LEMMA CalmNext == TypeOK /\ CleanInv /\ CalmInv /\ [Next]_vars => CalmInv'
<1> SUFFICES ASSUME TypeOK, CleanInv, CalmInv, [Next]_vars, Calm
             PROVE  /\ job' # "shell" /\ access'.src /\ access'.dir
                    /\ \A f \in Source : mtime'[f] # 0
                    /\ job' = "make" /\ pc' \notin {"goal", "lists"}
                          => \A f \in Source : seen'[f] # 0
  BY DEF CalmInv, Exists
<1>1. \A f \in Source : mtime[f] # 0
  BY DEF CalmInv, Exists
<1>2. \A f \in Source : mtime'[f] # 0
  <2>1. CASE \E f : f \notin Source /\ Unlink(f)
    BY <1>1, <2>1, UnlinkOnly DEF File
  <2>2. CASE \E f \in File : Stamp(f)
    <3>1. now # 0
      BY TimesAreNumbers DEF CleanInv, ClockInv
    <3>2. QED
      BY <1>1, <2>2, <3>1, StampOnly DEF File
  <2>3. CASE UNCHANGED mtime
    BY <1>1, <2>3
  <2>4. QED
    BY <2>1, <2>2, <2>3, WritesOneFile, NotCalm
<1>3. job' # "shell" /\ access'.src /\ access'.dir
  <2>1. job' \in {job, "make", "clean", "none"} \/ \E r \in Scripts : RunScript(r)
    BY DEF Next, Run, Make, GenerateLists, GenerateSections, MakeBoostQhp, Qhelpgenerator, User,
           End, Tick, Interrupt, Kill, CommandFails, QhgFails, MakeGoal, MakeLists, MakeGivesUp,
           MakeSections, MakeQhp, MakeQch, Consider, CleanRemove, CleanEnds, Rm, OpenList,
           FindPage, FindEnds, Touch, ScriptEnds, CheckAccess, WriteQhp, CatNothing, CatFiles,
           QhgOpen, QhgRefuses, QhgPage, QhgEnds, RunMake, RunClean, Start, EditPage,
           TouchSource, RemoveSource, ChangeAccess, Then, Gone, process, vars
  <2>2. access' = access \/ \E a \in [src : BOOLEAN, dir : BOOLEAN] : ChangeAccess(a)
    BY DEF Next, Run, Make, GenerateLists, GenerateSections, MakeBoostQhp, Qhelpgenerator, User,
           End, Tick, Interrupt, Kill, CommandFails, QhgFails, MakeGoal, MakeLists, MakeGivesUp,
           MakeSections, MakeQhp, MakeQch, Consider, CleanRemove, CleanEnds, Rm, OpenList,
           FindPage, FindEnds, Touch, ScriptEnds, CheckAccess, WriteQhp, CatNothing, CatFiles,
           QhgOpen, QhgRefuses, QhgPage, QhgEnds, RunMake, RunClean, RunScript, Start, EditPage,
           TouchSource, RemoveSource, world, vars
  <2>3. QED
    BY <2>1, <2>2, NotCalm DEF CalmInv
<1>4. ASSUME job' = "make", pc' \notin {"goal", "lists"}
      PROVE  \A f \in Source : seen'[f] # 0
  <2>1. CASE MakeGoal
    BY <1>1, <1>4, <2>1 DEF MakeGoal, Exists, Source
  <2>2. CASE MakeLists
    <3>1. seen["boost.qhpsrc"] # 0
      BY <2>2 DEF MakeLists, Consider, CleanInv, SeenInv, PhaseInv, Underway, MakePc
    <3>2. seen'["index.htm"] = mtime["index.htm"] /\ seen'["boost.qhpsrc"] = seen["boost.qhpsrc"]
      BY <2>2 DEF MakeLists, Consider, ReadTimes, File, Source
    <3>3. QED
      BY <1>1, <3>1, <3>2 DEF Source
  <2>3. CASE /\ job' = job /\ pc \notin {"goal", "lists"}
             /\ \A f \in Source : seen'[f] = seen[f]
    BY <1>4, <2>3 DEF CalmInv
  <2>4. Exists("index.htm")
    BY <1>1 DEF Exists, Source
  <2>5. QED
    BY <1>4, <2>1, <2>2, <2>3, <2>4, SeenSources
<1>5. QED
  BY <1>2, <1>3, <1>4

\* After make clean, whatever was killed, interrupted or failed before it, a make
\* that finds its sources and may use them succeeds and leaves a finished
\* boost.qch: for any number of pages, faults and jobs.
THEOREM CleanIsAWayBack == Spec => []CleanRecovers
<1>1. CleanInv => CleanRecovers
  BY DEF CleanInv, Recovers, CleanRecovers, Sound
<1>2. QED
  BY <1>1, CalmInit, CalmNext, CleanInit, CleanNext, TypeCorrect, PTL DEF Spec

\* When nothing but Ctrl-C disturbs them, no make ever fails, and what lies in
\* boost.qch and boost.qhp between jobs is finished: for any number of pages, of
\* jobs and of interruptions, at any command, on a clock of any grain.
THEOREM InterruptsAreHealed ==
    ASSUME Disturbances \subseteq {"interrupt"}, MaxFaults = 0
    PROVE  Spec => []InterruptsHeal
<1>1. Calm
  BY DEF Calm
<1>2. CleanInv /\ CalmInv => InterruptsHeal
  <2> SUFFICES ASSUME CleanInv, CalmInv PROVE InterruptsHeal
    OBVIOUS
  <2>1. ~MakeExits("error")
    BY <1>1 DEF CleanInv, Recovers, CalmInv, Sound, MakeExits
  <2>2. Idle => pc # "qc_write" /\ pc \notin Partial
    BY DEF Idle, Partial
  <2>3. QED
    BY <1>1, <2>1, <2>2 DEF CleanInv, WholeInv, Sound, InterruptsHeal
<1>3. QED
  BY <1>2, CalmInit, CalmNext, CleanInit, CleanNext, TypeCorrect, PTL DEF Spec

-----------------------------------------------------------------------------
(***************************************************************************)
(* A make that succeeds leaves nothing to do (NullBuild, as long as no     *)
(* command fails) and the pages it owes in the help file (Delivered), for  *)
(* every set of pages, every bound and every disturbance.  What the files  *)
(* look like when make ends follows from what it has seen of them at every *)
(* step before, and from the clock never running back.                     *)
(***************************************************************************)

\* The modification times, by file.
Idx == mtime["index.htm"]
Src == mtime["boost.qhpsrc"]
Unf == mtime["files-unformatted.list"]
Sec == mtime["sections.list"]
Prj == mtime["boost.qhp"]
Out == mtime["boost.qch"]

\* The lists are in order: the pages were listed after index.htm was written, as
\* far as make has seen it, and the sections after that.
Unformatted == Unf # 0 /\ seen["index.htm"] <= Unf
Sectioned   == Unformatted /\ Sec # 0 /\ Unf <= Sec
\* The project was written after everything it is written from.
Projected   == Sectioned /\ Prj # 0 /\ Src # 0 /\ Src <= Prj /\ Unf <= Prj /\ Sec <= Prj
Compiled    == Projected /\ Out # 0 /\ Prj <= Out /\ seen["index.htm"] # 0

\* While make runs, the times it has read are those of the files.
TrackInv ==
    job = "make" /\ pc # "goal" =>
    /\ seen["boost.qhpsrc"] = Src
    /\ pc \notin {"lists", "exit"} => seen["index.htm"] # 0
    /\ pc \notin {"qc_write", "exit"} => seen["boost.qch"] = Out
    /\ pc \notin Partial \cup {"mb_end", "exit"} => seen["boost.qhp"] = Prj
    /\ pc \in {"sections", "qhp"} \/ (recipe = "generatesections" /\ pc \in GsPc)
          => seen["files-unformatted.list"] = Unf
    /\ pc = "qhp" => seen["sections.list"] = Sec

\* How far the files are in order at each of make's steps.  A script that cannot
\* write leaves no list behind, which makes make-boost-qhp.sh run and report.
OrderInv ==
    job = "make" =>
    /\ recipe = "generatelists" /\ pc \in {"gl_find_unf", "gl_end"} => Unf = 0 \/ Unformatted
    /\ pc \in {"sections", "qhp"} \/ (recipe = "generatesections" /\ pc \in GsPc)
          => Unf = 0 \/ Unformatted
    /\ pc = "qhp" \/ (recipe = "generatesections" /\ pc = "gs_end")
          => Unf = 0 \/ Sec = 0 \/ Sectioned
    /\ recipe = "make-boost-qhp" /\ access.dir /\ pc \in {"gl_find_unf", "gl_end"} \cup GsPc
          => Unformatted
    /\ recipe = "make-boost-qhp" /\ access.dir /\ pc = "gs_end" => Sectioned
    /\ access.dir /\ pc \in {"mb_check", "mb_head"} => Sectioned
    /\ pc \in Partial => Projected
    /\ pc \in {"mb_end", "qch", "qc_open", "qc_write"} => err \/ Projected
    /\ pc = "qc_write" => Out # 0 /\ Prj <= Out
    /\ pc = "exit" /\ status = "ok" => err \/ Compiled

-----------------------------------------------------------------------------

\* The times of the files, as numbers no later than now.
LEMMA Numbers ==
    ASSUME TypeOK, CleanInv
    PROVE  /\ now \in Nat /\ now > 0
           /\ Idx \in Nat /\ Src \in Nat /\ Unf \in Nat /\ Sec \in Nat /\ Prj \in Nat
           /\ Out \in Nat
           /\ Src <= now /\ Unf <= now /\ Sec <= now /\ Prj <= now /\ Out <= now
           /\ seen["index.htm"] \in Nat /\ seen["index.htm"] <= now
BY TimesAreNumbers DEF CleanInv, ClockInv, Idx, Src, Unf, Sec, Prj, Out, File, Source, Generated

\* Setting a time, or removing a file, by file.
LEMMA Stamped ==
    ASSUME TypeOK, NEW f \in File, Stamp(f)
    PROVE  /\ Idx' = IF f = "index.htm" THEN now ELSE Idx
           /\ Src' = IF f = "boost.qhpsrc" THEN now ELSE Src
           /\ Unf' = IF f = "files-unformatted.list" THEN now ELSE Unf
           /\ Sec' = IF f = "sections.list" THEN now ELSE Sec
           /\ Prj' = IF f = "boost.qhp" THEN now ELSE Prj
           /\ Out' = IF f = "boost.qch" THEN now ELSE Out
BY StampOnly DEF Idx, Src, Unf, Sec, Prj, Out, File, Source, Generated

LEMMA Unlinked ==
    ASSUME TypeOK, NEW f, Unlink(f)
    PROVE  /\ Idx' = IF f = "index.htm" THEN 0 ELSE Idx
           /\ Src' = IF f = "boost.qhpsrc" THEN 0 ELSE Src
           /\ Unf' = IF f = "files-unformatted.list" THEN 0 ELSE Unf
           /\ Sec' = IF f = "sections.list" THEN 0 ELSE Sec
           /\ Prj' = IF f = "boost.qhp" THEN 0 ELSE Prj
           /\ Out' = IF f = "boost.qch" THEN 0 ELSE Out
BY UnlinkOnly DEF Idx, Src, Unf, Sec, Prj, Out, File, Source, Generated

LEMMA Unchanged ==
    ASSUME UNCHANGED mtime
    PROVE  UNCHANGED <<Idx, Src, Unf, Sec, Prj, Out>>
BY DEF Idx, Src, Unf, Sec, Prj, Out

\* The times make has read, by file.
LEMMA ReadOnly ==
    ASSUME TypeOK, NEW F, ReadTimes(F)
    PROVE  \A f \in File : seen'[f] = IF f \in F THEN mtime[f] ELSE seen[f]
BY DEF ReadTimes

LEMMA BuildMake ==
    ASSUME TypeOK, CleanInv, TrackInv, Make
    PROVE  TrackInv' /\ (OrderInv => OrderInv')
<1> USE Numbers, Unchanged
    DEF CleanInv, PhaseInv, TrackInv, OrderInv, Unformatted, Sectioned, Projected,
        Compiled, MakePc, QhgPc, GlPc, GsPc, MbPc, Partial, files, world
<1>1. CASE MakeGoal
  BY <1>1, ReadOnly DEF MakeGoal, Exit, Src, Out, Prj, File, Source, Generated
<1>2. CASE MakeLists
  BY <1>2, ReadOnly, Entries, Targets, PrereqRows
     DEF MakeLists, Consider, Outdated, Exists, Idx, Unf, File, Source, Generated
<1>3. CASE MakeGivesUp
  BY <1>3 DEF MakeGivesUp, Exit
<1>4. CASE MakeSections
  BY <1>4, ReadOnly, Entries, Targets, PrereqRows
     DEF MakeSections, Consider, Outdated, Sec, Unf, File, Source, Generated
<1>5. CASE MakeQhp
  BY <1>5, ReadOnly, Entries, Targets, PrereqRows
     DEF MakeQhp, Consider, Outdated, File, Source, Generated
<1>6. CASE MakeQch
  BY <1>6, ReadOnly, Entries, Targets, PrereqRows
     DEF MakeQch, Consider, Outdated, File, Source, Generated
<1>7. CASE CleanRemove
  BY <1>7 DEF CleanRemove, process
<1>8. CASE CleanEnds
  BY <1>8 DEF CleanEnds, Exit
<1>9. QED
  BY <1>1, <1>2, <1>3, <1>4, <1>5, <1>6, <1>7, <1>8 DEF Make

\* The two list scripts, run by make or by make-boost-qhp.sh.
LEMMA BuildLists ==
    ASSUME TypeOK, CleanInv, TrackInv, GenerateLists \/ GenerateSections
    PROVE  TrackInv' /\ (OrderInv => OrderInv')
<1> USE Numbers, Unchanged
    DEF CleanInv, PhaseInv, TrackInv, OrderInv, Unformatted, Sectioned, Projected,
        Compiled, MakePc, QhgPc, GlPc, GsPc, MbPc, Partial, files, world
<1>1. CASE Rm("gl_rm_unf", "files-unformatted.list")
  <2>1. UNCHANGED <<Idx, Src, Sec, Prj, Out>>
    BY <1>1, Unlinked DEF Rm
  <2>2. QED
    BY <1>1, <2>1 DEF Rm, Then, After
<1>2. CASE Rm("gl_rm_fl", "files.list")
  <2>1. UNCHANGED <<Idx, Src, Unf, Sec, Prj, Out>>
    BY <1>2, Unlinked DEF Rm
  <2>2. QED
    BY <1>2, <2>1 DEF Rm, Then, After
<1>3. CASE Rm("gs_rm", "sections.list")
  <2>1. UNCHANGED <<Idx, Src, Unf, Prj, Out>>
    BY <1>3, Unlinked DEF Rm
  <2>2. QED
    BY <1>3, <2>1 DEF Rm, Then, After
<1>4. CASE OpenList \/ (\E p \in Pages : FindPage(p)) \/ FindEnds
  <2>1. pc \in GlPc /\ pc' \in {"gl_find_fl", "gl_open_unf"}
    <3>1. CASE OpenList
      BY <3>1 DEF OpenList, After, AfterFailure
    <3>2. CASE \E p \in Pages : FindPage(p)
      BY <3>2 DEF FindPage
    <3>3. CASE FindEnds
      BY <3>3 DEF FindEnds, Then, After
    <3>4. QED
      BY <1>4, <3>1, <3>2, <3>3
  <2>2. UNCHANGED <<job, recipe, seen, err, status, mtime, access>>
    BY <1>4 DEF OpenList, FindPage, FindEnds, Then
  <2>3. QED
    BY <2>1, <2>2
<1>5. CASE Touch("gl_open_unf", "files-unformatted.list", "gl_end")
  BY <1>5, Stamped DEF Touch, Then, After, CanOpen, Exists, Unf, File, Generated
<1>6. CASE Touch("gl_find_unf", "files-unformatted.list", "gl_end")
  BY <1>6, Stamped DEF Touch, Then, After, CanOpen, Exists, Unf, File, Generated
<1>7. CASE Touch("gs_touch", "sections.list", "gs_end")
  BY <1>7, Stamped DEF Touch, Then, After, CanOpen, Exists, Sec, File, Generated
<1>8. CASE ScriptEnds("gl_end", "generatelists", "sections")
  BY <1>8, ReadOnly, Targets DEF ScriptEnds, Then, Exit, Unf, File, Source, Generated
<1>9. CASE ScriptEnds("gs_end", "generatesections", "qhp")
  BY <1>9, ReadOnly, Targets DEF ScriptEnds, Then, Exit, Sec, File, Source, Generated
<1>10. QED
  BY <1>1, <1>2, <1>3, <1>4, <1>5, <1>6, <1>7, <1>8, <1>9 DEF GenerateLists, GenerateSections

LEMMA BuildQhp ==
    ASSUME TypeOK, CleanInv, TrackInv, MakeBoostQhp
    PROVE  TrackInv' /\ (OrderInv => OrderInv')
<1> USE Numbers, Unchanged
    DEF CleanInv, PhaseInv, TrackInv, OrderInv, Unformatted, Sectioned, Projected,
        Compiled, MakePc, QhgPc, GlPc, GsPc, MbPc, Partial, files, world
<1>1. CASE CheckAccess
  BY <1>1 DEF CheckAccess, After
<1>2. ASSUME NEW here \in {"mb_head", "mb_middle", "mb_files", "mb_tail"}, NEW q,
             WriteQhp(here, q)
      PROVE  TrackInv' /\ (OrderInv => OrderInv')
  <2>1. pc' \in Partial \cup {"mb_end"} /\ pc = here
    BY <1>2 DEF WriteQhp, Then, After
  <2>2. /\ access.dir /\ recipe = "make-boost-qhp"
        /\ here = "mb_head" => seen["boost.qhpsrc"] # 0 \/ job # "make"
    BY <2>1 DEF TornInv, SeenInv, Underway
  <2>3. /\ Prj' = now /\ UNCHANGED <<Src, Unf, Sec, Out>>
        /\ UNCHANGED <<job, recipe, seen, todo, err, status, world>>
    BY <1>2, Stamped DEF WriteQhp, Then, File, Generated
  <2>4. QED
    BY <2>1, <2>2, <2>3
<1>3. CASE CatNothing("mb_sections") \/ CatNothing("mb_files")
  BY <1>3 DEF CatNothing, Then, After
<1>4. CASE ScriptEnds("mb_end", "make-boost-qhp", "qch")
  BY <1>4, ReadOnly, Targets DEF ScriptEnds, Then, Exit, Prj, File, Source, Generated
<1>5. QED
  BY <1>1, <1>2, <1>3, <1>4 DEF MakeBoostQhp, CatFiles

LEMMA BuildQch ==
    ASSUME TypeOK, CleanInv, TrackInv, Qhelpgenerator
    PROVE  TrackInv' /\ (OrderInv => OrderInv')
<1> USE Numbers, Unchanged
    DEF CleanInv, PhaseInv, TrackInv, OrderInv, Unformatted, Sectioned, Projected,
        Compiled, MakePc, QhgPc, GlPc, GsPc, MbPc, Partial, files, world
<1>1. Stamp("boost.qch") => Out' = now /\ UNCHANGED <<Src, Unf, Sec, Prj>>
  BY Stamped DEF File, Generated
<1>2. CASE QhgOpen
  BY <1>1, <1>2 DEF QhgOpen
<1>3. CASE QhgRefuses
  BY <1>3 DEF QhgRefuses, Exit
<1>4. CASE \E p \in Pages : QhgPage(p)
  BY <1>1, <1>4 DEF QhgPage
<1>5. CASE QhgEnds
  BY <1>1, <1>5 DEF QhgEnds, Exit
<1>6. QED
  BY <1>2, <1>3, <1>4, <1>5 DEF Qhelpgenerator

\* The user changes no generated file, and boost.qhpsrc between jobs only.
LEMMA BuildUser ==
    ASSUME TypeOK, CleanInv, TrackInv, User
    PROVE  TrackInv' /\ (OrderInv => OrderInv')
<1> USE Numbers, Unchanged
    DEF CleanInv, PhaseInv, TrackInv, OrderInv, Unformatted, Sectioned, Projected,
        Compiled, MakePc, QhgPc, GlPc, GsPc, MbPc, Partial, files, world
<1>1. CASE \/ RunMake \/ RunClean
           \/ \E r \in Scripts : RunScript(r)
  BY <1>1 DEF RunMake, RunClean, RunScript, Start
<1>2. CASE \/ \E p \in Pages, v \in Version : EditPage(p, v)
           \/ \E a \in [src : BOOLEAN, dir : BOOLEAN] : ChangeAccess(a)
  BY <1>2 DEF EditPage, ChangeAccess, Idle, process
<1>3. CASE \E f \in Source : TouchSource(f)
  <2>1. PICK f \in Source : TouchSource(f)
    BY <1>3
  <2>2. /\ UNCHANGED <<Unf, Sec, Prj, Out>>
        /\ Src' # Src => pc = "off"
    BY <2>1, Stamped DEF TouchSource, Idle, File, Source
  <2>3. QED
    BY <2>1, <2>2 DEF TouchSource, process
<1>4. CASE \E f \in Source : RemoveSource(f)
  BY <1>4 DEF RemoveSource, Idle, process
<1>5. QED
  BY <1>1, <1>2, <1>3, <1>4 DEF User

\* Where a script goes on after a command that failed.
LEMMA AfterFails ==
    \A c \in Command : AfterFailure[c] = CASE c = "gl_open_fl"  -> "gl_open_unf"
                                           [] c = "gl_open_unf" -> "gl_end"
                                           [] OTHER             -> After[c]
BY Zenon DEF AfterFailure, Command, After

\* A command that fails keeps what make knows, though not what it left undone.
LEMMA TrackNext == TypeOK /\ CleanInv /\ TrackInv /\ [Next]_vars => TrackInv'
<1> SUFFICES ASSUME TypeOK, CleanInv, TrackInv, [Next]_vars PROVE TrackInv'
  OBVIOUS
<1>1. CASE Make \/ GenerateLists \/ GenerateSections \/ MakeBoostQhp \/ Qhelpgenerator \/ User
  BY <1>1, BuildMake, BuildLists, BuildQhp, BuildQch, BuildUser
<1>2. CASE End \/ Interrupt \/ Kill
  BY <1>2 DEF End, Interrupt, Kill, Gone, TrackInv
<1>3. CASE QhgFails
  BY <1>3, Unchanged DEF QhgFails, Exit, TrackInv, files, GsPc, Partial
<1>4. CASE CommandFails
  <2>1. /\ pc \in Command \ {"mb_check"} /\ pc' = AfterFailure[pc]
        /\ UNCHANGED <<job, recipe, seen>>
    BY <1>4 DEF CommandFails
  <2>2. AfterFailure[pc] = CASE pc = "gl_open_fl"  -> "gl_open_unf"
                             [] pc = "gl_open_unf" -> "gl_end"
                             [] OTHER              -> After[pc]
    BY <2>1, AfterFails
  <2>3. /\ pc' \notin {"goal", "lists", "exit", "qc_write", "sections", "qhp"}
        /\ pc' \in GsPc => pc \in GsPc
        /\ pc' \notin Partial \cup {"mb_end"} => pc \notin Partial \cup {"mb_head", "mb_end"}
        /\ pc \notin {"goal", "lists", "exit", "qc_write", "sections", "qhp", "mb_end"}
    BY <2>1, <2>2 DEF Command, After, GsPc, Partial
  <2>4. UNCHANGED <<Src, Unf, Sec, Out>> /\ (pc # "mb_head" => Prj' = Prj)
    BY <1>4, Stamped, Unchanged DEF CommandFails, File, Generated
  <2>5. QED
    BY <2>1, <2>3, <2>4 DEF TrackInv
<1>5. CASE Tick \/ UNCHANGED vars
  BY <1>5, Unchanged DEF Tick, vars, files, process, TrackInv
<1>6. QED
  BY <1>1, <1>2, <1>3, <1>4, <1>5 DEF Next, Run

LEMMA OrderNext ==
    ASSUME MaxFaults = 0, TypeOK, CleanInv, TrackInv, OrderInv, [Next]_vars
    PROVE  OrderInv'
<1>1. CASE Make \/ GenerateLists \/ GenerateSections \/ MakeBoostQhp \/ Qhelpgenerator \/ User
  BY <1>1, BuildMake, BuildLists, BuildQhp, BuildQch, BuildUser
<1>2. CASE End \/ Interrupt \/ Kill
  BY <1>2 DEF End, Interrupt, Kill, Gone, OrderInv
<1>3. CASE CommandFails \/ QhgFails
  BY <1>3 DEF CommandFails, QhgFails, TypeOK
<1>4. CASE Tick \/ UNCHANGED vars
  BY <1>4, Unchanged DEF Tick, vars, files, process, OrderInv, Unformatted,
                         Sectioned, Projected, Compiled
<1>5. QED
  BY <1>1, <1>2, <1>3, <1>4 DEF Next, Run

\* make has read no time before it starts.
LEMMA TrackInit == Init => TrackInv
BY DEF Init, TrackInv

\* As long as no command fails, a make that reports success, and has printed no
\* error, leaves no target older than what it is made from: whatever was killed or
\* interrupted before, by whomever the scripts were run, and although
\* make-boost-qhp.sh rewrites two prerequisites of the target it makes.
THEOREM SecondMakeIsIdle ==
    ASSUME MaxFaults = 0
    PROVE  Spec => []NullBuild
<1>1. Init => OrderInv
  BY DEF Init, OrderInv
<1>2. OrderInv /\ TypeOK /\ CleanInv => NullBuild
  <2> SUFFICES ASSUME OrderInv, TypeOK, CleanInv, MakeExits("ok"), ~err,
                      mtime["index.htm"] = seen["index.htm"], NEW f \in Generated
               PROVE  ~Outdated(mtime, f)
    BY DEF NullBuild
  <2>1. Compiled
    BY DEF OrderInv, MakeExits
  <2>2. Idx # 0
    BY <2>1 DEF Compiled, Idx
  <2>3. QED
    BY <2>1, <2>2, Numbers, PrereqRows
       DEF Outdated, Compiled, Projected, Sectioned, Unformatted, Generated,
           Idx, Src, Unf, Sec, Prj, Out
<1>3. QED
  BY <1>1, <1>2, TrackInit, TrackNext, OrderNext, CalmInit, CalmNext, CleanInit, CleanNext,
     TypeCorrect, PTL DEF Spec

-----------------------------------------------------------------------------
(* What is owed is delivered.  A page that is owed has not changed since,  *)
(* and one of three things is true of it at any moment: the project and    *)
(* the output are older than the lists are or will be, so that the next    *)
(* make rewrites both; or the project names the page and the output is     *)
(* older; or the output has the page, unless it was cut short.             *)

InList(p) == docs[p] # 0 => p \in list.pages
InPrj(p)  == docs[p] # 0 => p \in Listed(qhp)
InOut(p)  == qch.pages[p] = docs[p]

\* A file of time x is older than files-unformatted.list is, or will be once make
\* has been run.
Behind(x) ==
    \/ Unf = 0 /\ x < now
    \/ Unf # 0 /\ x < Unf
    \/ Unf < Idx /\ x < Idx
    \/ Idx = 0 /\ Unf < now /\ x < now

\* A project that qhelpgenerator accepts, and nobody is writing, names the page.
GoodPrj(p) == pc \notin Partial /\ Accepted(qhp) => InPrj(p)
OutOk(p)   == qch.whole => InOut(p)
\* The project is done, and the output is or will be.
Made(p)    == GoodPrj(p) /\ (Out < Prj \/ OutOk(p))

Debt(p) == (Behind(Prj) /\ Behind(Out)) \/ Made(p)

\* The project that is being written has no end yet; an output that is not there
\* is not whole.
ContentInv ==
    /\ Out = 0 \/ pc = "qc_write" => ~qch.whole
    /\ pc \in Partial => \A i \in 1..Len(qhp) : qhp[i].part # "tail"

\* make-boost-qhp.sh has listed the pages itself before it inserts them.
Relisted ==
    /\ recipe = "make-boost-qhp" /\ access.dir
    /\ pc \in {"gl_open_unf", "gl_find_unf", "gl_end"} \cup GsPc
              \cup {"mb_check", "mb_head", "mb_sections", "mb_middle", "mb_files"}
ListedInv ==
    /\ pc = "gl_find_fl" => list.exists /\ \A p \in owed : p \in todo \/ InList(p)
    /\ Relisted => \A p \in owed : list.exists /\ InList(p)
    /\ pc = "mb_tail" => \A p \in owed : InPrj(p)

\* make has the time of files-unformatted.list, or will read it next.
ListsRead ==
    \/ recipe = "generatelists" /\ pc \in {"gl_find_unf", "gl_end"}
    \/ pc \in {"sections", "qhp"}
    \/ job = "make" /\ recipe = "generatesections" /\ pc \in GsPc

\* Where make is, with a page that is owed.
OwedAt(p) ==
    /\ Debt(p)
    /\ ListsRead => Unf = 0 \/ Prj < Unf \/ Made(p)
    /\ recipe = "make-boost-qhp" /\ pc \in {"gl_find_unf", "gl_end"} \cup GsPc \cup MbPc
          => Behind(Out) \/ OutOk(p)
    /\ pc \in Partial => Made(p)
    /\ pc \in {"mb_end", "qch", "qc_open"} => err \/ Made(p)
    /\ pc = "qc_write" => GoodPrj(p) /\ (p \in todo \/ InOut(p))
    /\ MakeExits("ok") => err \/ OutOk(p)

OwedInv == \A p \in owed : OwedAt(p)

-----------------------------------------------------------------------------

\* What qhelpgenerator accepts ends with the tail of boost.qhpsrc.
LEMMA AcceptedHasTail ==
    ASSUME NEW q \in Seq(Chunk), Accepted(q)
    PROVE  \E i \in 1..Len(q) : q[i].part = "tail"
<1>1. CASE q = <<Fixed("head"), Fixed("middle"), Fixed("tail")>>
  <2>1. Len(q) = 3 /\ q[3] = Fixed("tail")
    BY <1>1
  <2>2. QED
    BY <2>1 DEF Fixed
<1>2. CASE \E S \in SUBSET Pages :
              q = <<Fixed("head"), Fixed("middle"), FileLines(S), Fixed("tail")>>
  <2>1. Len(q) = 4 /\ q[4] = Fixed("tail")
    BY <1>2
  <2>2. QED
    BY <2>1 DEF Fixed
<1>3. QED
  BY <1>1, <1>2 DEF Accepted

\* A page that a chunk names stays listed, and so does what was listed before.
LEMMA ListedAppend ==
    ASSUME NEW q \in Seq(Chunk), NEW c \in Chunk
    PROVE  Listed(q) \cup c.pages \subseteq Listed(Append(q, c))
<1>1. Len(Append(q, c)) = Len(q) + 1 /\ Append(q, c)[Len(q) + 1] = c
      /\ \A i \in 1..Len(q) : Append(q, c)[i] = q[i]
  BY AppendProperties
<1>2. Len(q) \in Nat
  OBVIOUS
<1>3. ASSUME NEW p \in Listed(q) PROVE p \in Listed(Append(q, c))
  <2>1. PICK i \in 1..Len(q) : p \in q[i].pages
    BY DEF Listed
  <2>2. i \in 1..Len(Append(q, c)) /\ p \in Append(q, c)[i].pages
    BY <1>1, <1>2, <2>1
  <2>3. QED
    BY <2>2 DEF Listed
<1>4. ASSUME NEW p \in c.pages PROVE p \in Listed(Append(q, c))
  <2>1. Len(q) + 1 \in 1..Len(Append(q, c))
    BY <1>1, <1>2
  <2>2. QED
    BY <1>1, <2>1 DEF Listed
<1>5. QED
  BY <1>3, <1>4

\* Which commands of make-boost-qhp.sh write the project, and what they add.
LEMMA QhpWrites ==
    ASSUME TypeOK, [Next]_vars, qhp' # qhp
    PROVE  \/ qhp' = <<>> /\ pc' = "off"
           \/ qhp' = <<>> /\ pc' = "clean"
           \/ qhp' \in {<<>>, <<Fixed("head")>>} /\ pc = "mb_head" /\ pc' = "mb_sections"
           \/ qhp' = Append(qhp, Fixed("middle")) /\ pc = "mb_middle" /\ pc' = "mb_files"
           \/ qhp' = Append(qhp, FileLines(list.pages)) /\ pc = "mb_files" /\ pc' = "mb_tail"
           \/ qhp' = Append(qhp, Fixed("tail")) /\ pc = "mb_tail" /\ pc' = "mb_end"
<1> USE DEF files
<1>1. CASE MakeBoostQhp
  BY <1>1 DEF MakeBoostQhp, CheckAccess, WriteQhp, CatNothing, CatFiles, ScriptEnds, Then, After
<1>2. CASE CleanRemove
  BY <1>2 DEF CleanRemove, Unlink, process
<1>3. CASE Interrupt
  BY <1>3 DEF Interrupt, Unlink, Gone
<1>4. CASE CommandFails
  <2>1. pc = "mb_head" /\ qhp' = <<>> /\ pc' = AfterFailure["mb_head"]
    BY <1>4 DEF CommandFails
  <2>2. AfterFailure["mb_head"] = "mb_sections"
    BY DEF AfterFailure, After
  <2>3. QED
    BY <2>1, <2>2
<1>5. CASE \E f \in Source : RemoveSource(f)
  BY <1>5 DEF RemoveSource, Unlink, Source
<1>6. ASSUME NEW here, NEW f, f # "boost.qhp", Rm(here, f)
      PROVE  FALSE
  BY <1>6 DEF Rm, Unlink
<1>7. CASE GenerateLists \/ GenerateSections
  BY <1>6, <1>7 DEF GenerateLists, GenerateSections, OpenList, FindPage, FindEnds, Touch, ScriptEnds
<1>8. QED
  BY <1>1, <1>2, <1>3, <1>4, <1>5, <1>7
     DEF Next, Run, Make, MakeGoal, MakeLists, MakeGivesUp, MakeSections, MakeQhp, MakeQch, Consider,
         CleanEnds, Qhelpgenerator, QhgOpen, QhgRefuses, QhgPage, QhgEnds, End, User, RunMake,
         RunClean, RunScript, Start, EditPage, TouchSource, ChangeAccess, Tick, Kill, QhgFails, vars

\* make-boost-qhp.sh is in the middle of a project only while it writes one.
LEMMA PartialSteps ==
    ASSUME TypeOK, CleanInv, [Next]_vars, pc' \in Partial
    PROVE  pc \in Partial \/ (pc = "mb_head" /\ qhp' \in {<<>>, <<Fixed("head")>>})
<1>1. CASE MakeBoostQhp
  BY <1>1 DEF MakeBoostQhp, CheckAccess, WriteQhp, CatNothing, CatFiles, ScriptEnds, Then, Exit,
              After, Partial
<1>2. CASE CommandFails
  <2>1. pc \in Command \ {"mb_check"} /\ pc' = AfterFailure[pc]
        /\ (pc = "mb_head" => qhp' = <<>>)
    BY <1>2 DEF CommandFails
  <2>2. AfterFailure[pc] = CASE pc = "gl_open_fl"  -> "gl_open_unf"
                             [] pc = "gl_open_unf" -> "gl_end"
                             [] OTHER              -> After[pc]
    BY <2>1, AfterFails
  <2>3. QED
    BY <2>1, <2>2 DEF Command, After, Partial
<1>3. CASE GenerateLists \/ GenerateSections
  <2>1. CASE OpenList
    BY <2>1 DEF OpenList, After, AfterFailure, Partial
  <2>2. QED
    BY <1>3, <2>1 DEF GenerateLists, GenerateSections, Rm, FindPage, FindEnds, Touch, ScriptEnds,
                      Then, Exit, After, Partial
<1>4. CASE Make \/ User
  BY <1>4, Entries
     DEF Make, MakeGoal, MakeLists, MakeGivesUp, MakeSections, MakeQhp, MakeQch, Consider, Exit,
         CleanRemove, CleanEnds, User, RunMake, RunClean, RunScript, Start, Scripts, EditPage,
         TouchSource, RemoveSource, ChangeAccess, process, Partial
<1>5. QED
  BY <1>1, <1>2, <1>3, <1>4
     DEF Next, Run, Qhelpgenerator, QhgOpen, QhgRefuses, QhgPage, QhgEnds, Exit, End, Tick, Kill,
         Interrupt, QhgFails, Gone, process, vars, Partial

LEMMA ContentNext == TypeOK /\ CleanInv /\ ContentInv /\ [Next]_vars => ContentInv'
<1> SUFFICES ASSUME TypeOK, CleanInv, ContentInv, [Next]_vars PROVE ContentInv'
  OBVIOUS
<1>1. ASSUME pc' \in Partial, NEW i \in 1..Len(qhp')
      PROVE  qhp'[i].part # "tail"
  <2>1. CASE qhp' = qhp
    <3>1. pc \in Partial \/ qhp' \in {<<>>, <<Fixed("head")>>}
      BY <1>1, PartialSteps
    <3>2. QED
      BY <1>1, <2>1, <3>1 DEF ContentInv, Fixed
  <2>2. CASE qhp' \in {<<>>, <<Fixed("head")>>}
    BY <1>1, <2>2 DEF Fixed
  <2>3. CASE /\ pc \in Partial
             /\ \/ qhp' = Append(qhp, Fixed("middle"))
                \/ qhp' = Append(qhp, FileLines(list.pages))
    <3>1. PICK c \in {Fixed("middle"), FileLines(list.pages)} : qhp' = Append(qhp, c)
      BY <2>3
    <3>2. c.part # "tail"
      BY <3>1 DEF Fixed, FileLines
    <3>3. \A k \in 1..Len(qhp) : qhp[k].part # "tail"
      BY <2>3 DEF ContentInv
    <3>4. QED
      BY <1>1, <3>1, <3>2, <3>3 DEF TypeOK
  <2>4. QED
    BY <1>1, <2>1, <2>2, <2>3, QhpWrites DEF Partial
<1>2. Out' = 0 \/ pc' = "qc_write" => ~qch'.whole
  <2>1. CASE Qhelpgenerator
    <3>1. Stamp("boost.qch") => Out' # 0
      BY Stamped, Numbers DEF File, Generated
    <3>2. QED
      BY <2>1, <3>1, Unchanged DEF Qhelpgenerator, QhgOpen, QhgRefuses, QhgPage, QhgEnds, Exit, NoQch,
                        files, ContentInv, TypeOK, QchType
  <2>2. ASSUME NEW f, Unlink(f), pc' # "qc_write"
        PROVE  Out' = 0 => ~qch'.whole
    BY <2>2, Unlinked DEF Unlink, NoQch, ContentInv
  <2>3. ASSUME UNCHANGED qch, Out' = 0 => Out = 0, pc' = "qc_write" => pc = "qc_write"
        PROVE  Out' = 0 \/ pc' = "qc_write" => ~qch'.whole
    BY <2>3 DEF ContentInv
  <2>4. ASSUME NEW f \in File, Stamp(f)
        PROVE  Out' = 0 => Out = 0
    BY <2>4, Stamped, Numbers
  <2> USE Unchanged DEF files, Then, Exit
  <2>5. CASE Make
    BY <2>2, <2>3, <2>5, Entries
       DEF Make, MakeGoal, MakeLists, MakeGivesUp, MakeSections, MakeQhp, MakeQch, Consider,
           CleanRemove, CleanEnds, process
  <2>6. CASE GenerateLists \/ GenerateSections
    <3>1. CASE OpenList
      BY <2>3, <3>1 DEF OpenList, After, AfterFailure
    <3>2. /\ "files-unformatted.list" \in File /\ "sections.list" \in File
      BY DEF File, Generated
    <3>3. QED
      BY <2>2, <2>3, <2>4, <2>6, <3>1, <3>2
         DEF GenerateLists, GenerateSections, Rm, FindPage, FindEnds, Touch, ScriptEnds, After
  <2>7. CASE MakeBoostQhp
    <3>1. "boost.qhp" \in File
      BY DEF File, Generated
    <3>2. QED
      BY <2>3, <2>4, <2>7, <3>1
         DEF MakeBoostQhp, CheckAccess, WriteQhp, CatNothing, CatFiles, ScriptEnds, After
  <2>8. CASE User
    BY <2>2, <2>3, <2>4, <2>8, Entries
       DEF User, RunMake, RunClean, RunScript, Start, Scripts, EditPage, TouchSource, RemoveSource,
           ChangeAccess, process, Idle, File
  <2>9. CASE Interrupt \/ Kill \/ End
    BY <2>2, <2>3, <2>9 DEF Interrupt, Kill, End, Gone
  <2>10. CASE CommandFails
    <3>1. pc' # "qc_write"
      BY <2>10, AfterFails DEF CommandFails, Command, After
    <3>2. "boost.qhp" \in File
      BY DEF File, Generated
    <3>3. QED
      BY <2>3, <2>4, <2>10, <3>1, <3>2 DEF CommandFails
  <2>11. CASE Tick \/ QhgFails \/ UNCHANGED vars
    BY <2>3, <2>11 DEF Tick, QhgFails, process, vars
  <2>12. QED
    BY <2>1, <2>5, <2>6, <2>7, <2>8, <2>9, <2>10, <2>11 DEF Next, Run
<1>3. QED
  BY <1>1, <1>2 DEF ContentInv

LEMMA ListedNext == TypeOK /\ CleanInv /\ ListedInv /\ [Next]_vars => ListedInv'
<1> SUFFICES ASSUME TypeOK, CleanInv, ListedInv, [Next]_vars PROVE ListedInv'
  OBVIOUS
<1> USE DEF ListedInv, Relisted, GsPc
<1>1. ASSUME pc' \notin {"gl_find_fl", "gl_open_unf", "gl_find_unf", "gl_end", "gs_rm", "gs_touch",
                        "gs_end", "mb_check", "mb_head", "mb_sections", "mb_middle",
                        "mb_files", "mb_tail"}
      PROVE  ListedInv'
  BY <1>1
<1>2. CASE Make
  BY <1>1, <1>2, Entries
     DEF Make, MakeGoal, MakeLists, MakeGivesUp, MakeSections, MakeQhp, MakeQch, Consider, Exit,
         CleanRemove, CleanEnds, process
<1>3. CASE GenerateLists
  <2>1. CASE Rm("gl_rm_unf", "files-unformatted.list") \/ Rm("gl_rm_fl", "files.list")
    BY <1>1, <2>1 DEF Rm, Then, After
  <2>2. CASE OpenList
    BY <2>2 DEF OpenList, After, AfterFailure, TypeOK, world, history
  <2>3. CASE \E p \in Pages : FindPage(p)
    BY <2>3 DEF FindPage, InList, Present, TypeOK, ListType, world, history
  <2>4. CASE FindEnds
    BY <2>4 DEF FindEnds, Then, After, InList, files, world, history
  <2>5. CASE \/ Touch("gl_open_unf", "files-unformatted.list", "gl_end")
             \/ Touch("gl_find_unf", "files-unformatted.list", "gl_end")
    BY <2>5 DEF Touch, Then, After, InList, world, history
  <2>6. CASE ScriptEnds("gl_end", "generatelists", "sections")
    BY <1>1, <2>6 DEF ScriptEnds, Then, Exit, InList, files, world, history
  <2>7. QED
    BY <1>3, <2>1, <2>2, <2>3, <2>4, <2>5, <2>6 DEF GenerateLists
<1>4. CASE GenerateSections
  <2>1. CASE Rm("gs_rm", "sections.list")
    <3>1. list' = list /\ pc = "gs_rm" /\ pc' = "gs_touch" /\ UNCHANGED <<recipe, owed, world>>
      BY <2>1 DEF Rm, Then, After, Unlink, files
    <3>2. QED
      BY <3>1 DEF InList, world
  <2>2. CASE Touch("gs_touch", "sections.list", "gs_end")
    BY <2>2 DEF Touch, Then, After, InList, world, history
  <2>3. CASE ScriptEnds("gs_end", "generatesections", "qhp")
    BY <1>1, <2>3 DEF ScriptEnds, Then, Exit, InList, files, world, history
  <2>4. QED
    BY <1>4, <2>1, <2>2, <2>3 DEF GenerateSections
<1>5. CASE MakeBoostQhp
  <2>1. CASE CheckAccess \/ CatNothing("mb_sections")
    BY <2>1 DEF CheckAccess, CatNothing, Then, After, InList, files, world, history
  <2>2. CASE ScriptEnds("mb_end", "make-boost-qhp", "qch") \/ (\E q : WriteQhp("mb_tail", q))
    BY <1>1, <2>2 DEF ScriptEnds, WriteQhp, Then, Exit, After
  <2>3. CASE \/ \E q : WriteQhp("mb_head", q)
             \/ \E q : WriteQhp("mb_middle", q)
    BY <2>3 DEF WriteQhp, Then, After, InList, world, history
  <2>4. CASE CatFiles
    <3>1. Relisted \/ owed = {}
      <4>1. pc = "mb_files"
        BY <2>4 DEF CatFiles, WriteQhp, CatNothing
      <4>2. QED
        BY <4>1 DEF CleanInv, TornInv, PhaseInv, Partial, MbPc
    <3>2. \A p \in owed : list.exists /\ InList(p)
      BY <3>1
    <3>3. pc' = "mb_tail" /\ UNCHANGED <<owed, docs>>
      BY <2>4 DEF CatFiles, WriteQhp, CatNothing, Then, After, world, history
    <3>4. ASSUME NEW p \in owed, docs[p] # 0 PROVE p \in Listed(qhp')
      <4>1. p \in list.pages /\ qhp' = Append(qhp, FileLines(list.pages))
        BY <2>4, <3>2, <3>4 DEF CatFiles, WriteQhp, InList
      <4>2. FileLines(list.pages) \in Chunk /\ FileLines(list.pages).pages = list.pages
        BY Chunks DEF TypeOK, ListType, FileLines
      <4>3. QED
        BY <4>1, <4>2, ListedAppend DEF TypeOK
    <3>5. \A p \in owed' : InPrj(p)'
      BY <3>3, <3>4 DEF InPrj
    <3>6. QED
      BY <3>3, <3>5
  <2>5. QED
    BY <1>5, <2>1, <2>2, <2>3, <2>4 DEF MakeBoostQhp
<1>6. CASE Qhelpgenerator
  BY <1>1, <1>6 DEF Qhelpgenerator, QhgOpen, QhgRefuses, QhgPage, QhgEnds, Exit
<1>7. CASE End \/ Interrupt \/ Kill \/ QhgFails
  BY <1>1, <1>7 DEF End, Interrupt, Kill, QhgFails, Exit, Gone
<1>8. CASE CommandFails
  <2>1. /\ pc \in Command \ {"gl_rm_unf", "gl_rm_fl", "gs_rm", "mb_check", "mb_sections"}
        /\ pc' = AfterFailure[pc] /\ UNCHANGED <<list, recipe, access, docs>>
    BY <1>8 DEF CommandFails
  <2>2. pc \in {"gl_open_fl", "gl_find_fl", "mb_files"} => owed' = {}
    BY <1>8 DEF CommandFails
  <2>3. owed' \subseteq owed
    BY <1>8 DEF CommandFails
  <2>4. /\ pc' # "gl_find_fl"
        /\ pc' = "mb_tail" => pc = "mb_files"
        /\ Relisted' => Relisted \/ pc \in {"gl_open_fl", "gl_find_fl"}
    <3>1. AfterFailure[pc] = CASE pc = "gl_open_fl"  -> "gl_open_unf"
                               [] pc = "gl_open_unf" -> "gl_end"
                               [] OTHER              -> After[pc]
      BY <2>1, AfterFails
    <3>2. QED
      BY <2>1, <3>1 DEF Command, After
  <2>5. QED
    BY <2>1, <2>2, <2>3, <2>4 DEF InList
<1>9. CASE \E p \in Pages, v \in Version : EditPage(p, v)
  <2>1. PICK p \in Pages, v \in Version : EditPage(p, v)
    BY <1>9
  <2>2. \A x \in owed' : x \in owed /\ docs'[x] = docs[x]
    BY <2>1 DEF EditPage, TypeOK
  <2>3. UNCHANGED <<list, qhp, pc, recipe, todo, access>>
    BY <2>1 DEF EditPage, files, process
  <2>4. QED
    BY <2>2, <2>3 DEF InList, InPrj
<1>10. CASE \E f \in Source : TouchSource(f)
  <2>1. UNCHANGED <<list, qhp, pc, recipe, todo, access, docs>> /\ (owed' = owed \/ pc = "off")
    BY <1>10 DEF TouchSource, process, world, Idle
  <2>2. QED
    BY <1>1, <2>1 DEF InList, InPrj
<1>11. CASE User
  BY <1>1, <1>9, <1>10, <1>11, Entries
     DEF User, RunMake, RunClean, RunScript, Start, Scripts, RemoveSource, ChangeAccess, Idle, process
<1>12. CASE Tick \/ UNCHANGED vars
  BY <1>12 DEF Tick, files, process, history, vars, InList, InPrj
<1>13. QED
  BY <1>2, <1>3, <1>4, <1>5, <1>6, <1>7, <1>8, <1>11, <1>12 DEF Next, Run

-----------------------------------------------------------------------------

\* What is behind stays behind when the lists are rewritten or removed, when
\* index.htm is written or lost, and as the clock moves on.
LEMMA BehindStays ==
    ASSUME TypeOK, CleanInv,
           \/ now' = now /\ Unf' \in {0, now, Unf} /\ Idx' \in {0, now, Idx}
           \/ now' = now + 1 /\ UNCHANGED <<Unf, Idx>>
    PROVE  /\ Behind(Prj) /\ Prj' \in {0, Prj} => Behind(Prj)'
           /\ Behind(Out) /\ Out' \in {0, Out} => Behind(Out)'
           /\ Prj' = 0 => Behind(Prj)'
           /\ Out' = 0 => Behind(Out)'
<1>1. Idx <= now
  BY DEF CleanInv, ClockInv, Idx, File, Source
<1>2. QED
  BY <1>1, Numbers DEF Behind

\* What is behind is older than now.
LEMMA BehindIsOlder ==
    ASSUME TypeOK, CleanInv
    PROVE  (Behind(Prj) => Prj < now) /\ (Behind(Out) => Out < now)
<1>1. Idx <= now
  BY DEF CleanInv, ClockInv, Idx, File, Source
<1>2. QED
  BY <1>1, Numbers DEF Behind

\* A project that is not written stays good, also when nobody goes on writing it.
LEMMA GoodPrjStays ==
    ASSUME TypeOK, ContentInv, NEW p, GoodPrj(p), qhp' = qhp, docs'[p] = docs[p]
    PROVE  GoodPrj(p)'
<1>1. Accepted(qhp) => pc \notin Partial
  BY AcceptedHasTail DEF ContentInv, TypeOK
<1>2. Accepted(qhp) => InPrj(p)
  BY <1>1 DEF GoodPrj
<1>3. QED
  BY <1>2 DEF GoodPrj, InPrj, Accepted

\* An empty project is not accepted.
LEMMA EmptyIsGood ==
    ASSUME NEW p, qhp' = <<>>
    PROVE  GoodPrj(p)'
<1>1. ASSUME NEW q \in Seq(Chunk), q = <<>> PROVE ~Accepted(q)
  <2>1. Len(q) = 0
    BY <1>1
  <2>2. ~\E i \in 1..Len(q) : q[i].part = "tail"
    BY <2>1
  <2>3. QED
    BY <2>2, AcceptedHasTail
<1>2. qhp' \in Seq(Chunk)
  OBVIOUS
<1>3. ~Accepted(qhp')
  BY <1>1, <1>2
<1>4. QED
  BY <1>3 DEF GoodPrj, Accepted

\* A step that writes neither the project nor the output, whatever else it does.
LEMMA DebtStays ==
    ASSUME TypeOK, CleanInv, ContentInv, NEW p, Debt(p), docs'[p] = docs[p],
           UNCHANGED <<qhp, qch, Prj, Out>>,
           \/ now' = now /\ Unf' \in {0, now, Unf} /\ Idx' \in {0, now, Idx}
           \/ now' = now + 1 /\ UNCHANGED <<Unf, Idx>>
    PROVE  Debt(p)' /\ (Made(p) => Made(p)') /\ (OutOk(p) => OutOk(p)')
           /\ (Behind(Out) => Behind(Out)')
<1>1. OutOk(p) => OutOk(p)'
  BY DEF OutOk, InOut
<1>2. Made(p) => Made(p)'
  BY <1>1, GoodPrjStays DEF Made
<1>3. QED
  BY <1>1, <1>2, BehindStays DEF Debt

LEMMA OwedMake ==
    ASSUME TypeOK, CleanInv, TrackInv, ContentInv, OwedInv, Make, NEW p \in owed'
    PROVE  OwedAt(p)'
<1> USE DEF MakePc, QhgPc, GlPc, GsPc, MbPc, Partial
<1>1. ASSUME UNCHANGED <<files, world, owed>>
      PROVE  /\ OwedAt(p) /\ Debt(p)' /\ (Made(p) => Made(p)') /\ (OutOk(p) => OutOk(p)')
             /\ UNCHANGED <<Idx, Src, Unf, Sec, Prj, Out>>
  <2>1. UNCHANGED <<Idx, Src, Unf, Sec, Prj, Out, qhp, qch, docs, now>>
    BY <1>1, Unchanged DEF files, world
  <2>2. OwedAt(p)
    BY <1>1 DEF OwedInv
  <2>3. QED
    BY <2>1, <2>2, DebtStays DEF OwedAt
<1> USE DEF OwedAt, ListsRead, MakeExits, history, CleanInv, PhaseInv
<1>2. CASE MakeGoal
  BY <1>1, <1>2 DEF MakeGoal, Exit
<1>3. CASE MakeLists
  <2>1. pc' = "sections" => Unf # 0 /\ Idx # 0 /\ Idx <= Unf
    BY <1>3, ReadOnly, Numbers, Entries, Targets, PrereqRows
       DEF MakeLists, Consider, Outdated, Exists, Idx, Unf, File, Source, Generated
  <2>2. pc' \in {"sections", "gl_rm_unf"}
    BY <1>3, Entries DEF MakeLists, Consider
  <2>3. pc' = "sections" => Prj < Unf \/ Made(p)
    BY <1>1, <1>3, <2>1, Numbers DEF MakeLists, Consider, Debt, Behind
  <2>4. QED
    BY <1>1, <1>3, <2>2, <2>3 DEF MakeLists, Consider
<1>4. CASE MakeGivesUp
  BY <1>1, <1>4 DEF MakeGivesUp, Exit
<1>5. CASE MakeSections
  <2>1. \/ pc' = "gs_rm" /\ recipe' = "generatesections"
        \/ pc' = "qhp" /\ recipe' = recipe
    BY <1>5, Entries DEF MakeSections, Consider
  <2>2. QED
    BY <1>1, <1>5, <2>1 DEF MakeSections, Consider
<1>6. CASE MakeQhp
  <2>1. \/ pc' = "gl_rm_unf" /\ recipe' = "make-boost-qhp"
        \/ pc' = "qch" /\ ~Outdated(seen', "boost.qhp")
    BY <1>6, Entries, Targets DEF MakeQhp, Consider
  <2>2. seen' = seen
    BY <1>6 DEF MakeQhp, Consider, ReadTimes, TypeOK
  <2>3. pc' = "qch" => Unf # 0 /\ Unf <= Prj
    BY <1>6, <2>1, <2>2, Numbers, PrereqRows DEF MakeQhp, Consider, Outdated, TrackInv
  <2>4. QED
    BY <1>1, <1>6, <2>1, <2>3, Numbers DEF MakeQhp, Consider
<1>7. CASE MakeQch
  <2>1. \/ pc' = "qc_open"
        \/ pc' = "exit" /\ ~Outdated(seen', "boost.qch")
    BY <1>7, Entries, Targets DEF MakeQch, Consider
  <2>2. seen' = seen
    BY <1>7 DEF MakeQch, Consider, ReadTimes, TypeOK
  <2>3. pc' = "exit" => Prj <= Out
    BY <1>7, <2>1, <2>2, Numbers, PrereqRows DEF MakeQch, Consider, Outdated, TrackInv
  <2>4. QED
    BY <1>1, <1>7, <2>1, <2>3, Numbers DEF MakeQch, Consider, Made
<1>8. CASE CleanRemove
  <2>1. PICK i \in 1..Len(CleanOrder) :
           /\ \A k \in 1..(i-1) : CleanOrder[k] \notin Left
           /\ Unlink(CleanOrder[i])
    BY <1>8 DEF CleanRemove
  <2> DEFINE f == CleanOrder[i]
  <2>2. f = "boost.qhp" => Out = 0
    <3>1. ASSUME f = "boost.qhp" PROVE i = 2
      BY <3>1 DEF CleanOrder
    <3>2. f = "boost.qhp" => "boost.qch" \notin Left
      BY <2>1, <3>1 DEF CleanOrder
    <3>3. QED
      BY <3>2 DEF Left, OnDisk, Exists, CleanOrder, Generated, Out
  <2>3. p \in owed /\ Debt(p) /\ docs'[p] = docs[p] /\ now' = now /\ pc' = pc /\ pc = "clean"
    BY <1>8 DEF CleanRemove, OwedInv, process, world
  <2>4. Debt(p)'
    <3>1. CASE f = "boost.qhp"
      <4>1. qhp' = <<>> /\ qch' = qch /\ ~qch.whole
        BY <2>1, <2>2, <3>1 DEF Unlink, ContentInv
      <4>2. QED
        BY <4>1, EmptyIsGood DEF Debt, Made, OutOk
    <3>2. CASE f = "boost.qch"
      <4>1. qhp' = qhp /\ qch' = NoQch
        BY <2>1, <3>2 DEF Unlink
      <4>2. Made(p) => Made(p)'
        BY <2>3, <4>1, GoodPrjStays DEF Made, OutOk, NoQch
      <4>3. /\ now' = now /\ UNCHANGED <<Unf, Idx, Prj>> /\ Out' = 0
        BY <2>1, <2>3, <3>2, Unlinked
      <4>4. QED
        BY <2>3, <4>2, <4>3, BehindStays DEF Debt
    <3>3. CASE f \notin {"boost.qhp", "boost.qch"}
      <4>1. UNCHANGED <<qhp, qch, Prj, Out>> /\ Unf' \in {0, Unf} /\ Idx' \in {0, Idx}
        BY <2>1, <3>3, Unlinked DEF Unlink
      <4>2. QED
        BY <2>3, <4>1, DebtStays
    <3>4. QED
      BY <3>1, <3>2, <3>3
  <2>5. QED
    BY <2>3, <2>4
<1>9. CASE CleanEnds
  <2>1. CASE Left = {}
    <3>1. Unf = 0 /\ Prj = 0 /\ Out = 0
      <4>1. {"boost.qch", "boost.qhp", "files-unformatted.list"}
            \subseteq {CleanOrder[i] : i \in 1..Len(CleanOrder)} \cap Generated
        <5>1. /\ CleanOrder[1] = "boost.qch" /\ CleanOrder[2] = "boost.qhp"
              /\ CleanOrder[4] = "files-unformatted.list" /\ Len(CleanOrder) = 5
          BY DEF CleanOrder
        <5>2. QED
          BY <5>1 DEF Generated
      <4>2. QED
        BY <2>1, <4>1 DEF Left, OnDisk, Exists, Unf, Prj, Out
    <3>2. UNCHANGED <<Unf, Prj, Out, now, Idx>>
      BY <1>9, Unchanged DEF CleanEnds, files, world
    <3>3. Debt(p)'
      BY <3>1, <3>2, Numbers DEF Debt, Behind
    <3>4. QED
      BY <1>9, <3>3 DEF CleanEnds, Exit
  <2>2. CASE Left # {}
    BY <1>1, <1>9, <2>2 DEF CleanEnds, Exit
  <2>3. QED
    BY <2>1, <2>2
<1>10. QED
  BY <1>2, <1>3, <1>4, <1>5, <1>6, <1>7, <1>8, <1>9 DEF Make

\* The list scripts: once files-unformatted.list is removed or written, whatever
\* was not made from it is behind.
LEMMA OwedLists ==
    ASSUME TypeOK, CleanInv, ContentInv, OwedInv, GenerateLists \/ GenerateSections,
           NEW p \in owed'
    PROVE  OwedAt(p)'
<1> USE DEF QhgPc, GlPc, GsPc, MbPc, Partial
<1>1. ASSUME UNCHANGED <<qhp, qch, Prj, Out, Idx, world>>, owed' = owed, Unf' \in {0, now, Unf}
      PROVE  /\ OwedAt(p) /\ Debt(p)' /\ (Made(p) => Made(p)') /\ (OutOk(p) => OutOk(p)')
             /\ (Behind(Out) => Behind(Out)')
  <2>1. docs' = docs /\ now' = now /\ OwedAt(p)
    BY <1>1 DEF world, OwedInv
  <2>2. QED
    BY <1>1, <2>1, DebtStays DEF OwedAt
<1> USE DEF OwedAt, ListsRead, MakeExits
<1>2. CASE Rm("gl_rm_unf", "files-unformatted.list")
  <2>1. /\ pc' = "gl_rm_fl" /\ UNCHANGED <<qhp, qch, Prj, Out, Idx, world>>
        /\ Unf' \in {0, Unf} /\ (access.dir => Unf' = 0)
    BY <1>2, Unlinked, Unchanged DEF Rm, Then, After, Unlink, files
  <2>2. CASE access.dir /\ Settled
    <3>1. Prj < now /\ Out < now
      BY <2>2 DEF Settled, Generated, Prj, Out
    <3>2. Debt(p)'
      BY <2>1, <2>2, <3>1 DEF Debt, Behind, world
    <3>3. QED
      BY <2>1, <3>2
  <2>3. CASE ~(access.dir /\ Settled)
    <3>1. owed' = owed
      BY <1>2, <2>3 DEF Rm
    <3>2. QED
      BY <1>1, <2>1, <3>1
  <2>4. QED
    BY <2>2, <2>3
<1>3. CASE Rm("gl_rm_fl", "files.list") \/ Rm("gs_rm", "sections.list")
  <2>1. /\ UNCHANGED <<qhp, qch, Prj, Out, Idx, Unf, world, owed, recipe, job>>
        /\ \/ pc = "gl_rm_fl" /\ pc' = "gl_open_fl"
           \/ pc = "gs_rm" /\ pc' = "gs_touch"
    BY <1>3, Unlinked, Unchanged DEF Rm, Then, After, Unlink, files
  <2>2. QED
    BY <1>1, <2>1
<1>4. CASE OpenList \/ (\E q \in Pages : FindPage(q)) \/ FindEnds
  <2>1. pc' \in {"gl_find_fl", "gl_open_unf"}
    <3>1. CASE OpenList
      BY <3>1 DEF OpenList, After, AfterFailure
    <3>2. QED
      BY <1>4, <3>1 DEF FindPage, FindEnds, Then, After
  <2>2. UNCHANGED <<qhp, qch, Prj, Out, Idx, Unf, world, owed>>
    BY <1>4, Unchanged DEF OpenList, FindPage, FindEnds, files, history
  <2>3. QED
    BY <1>1, <2>1, <2>2
<1>5. CASE \/ Touch("gl_open_unf", "files-unformatted.list", "gl_end")
           \/ Touch("gl_find_unf", "files-unformatted.list", "gl_end")
  <2>1. /\ UNCHANGED <<qhp, qch, Prj, Out, Idx, world, owed, job, recipe, err, status>>
        /\ Unf' = now \/ (Unf = 0 /\ Unf' = 0)
    BY <1>5, Stamped, Unchanged
       DEF Touch, Then, CanOpen, Exists, Unf, File, Generated, history
  <2>2. pc' \in {"gl_find_unf", "gl_end"}
    BY <1>5 DEF Touch, Then, After
  <2>3. /\ OwedAt(p) /\ Debt(p)' /\ (Made(p) => Made(p)') /\ (OutOk(p) => OutOk(p)')
        /\ (Behind(Out) => Behind(Out)')
    BY <1>1, <2>1
  <2>4. Unf' = 0 \/ Prj' < Unf' \/ Made(p)'
    BY <2>1, <2>3, BehindIsOlder DEF Debt
  <2>5. Behind(Out)' \/ OutOk(p)'
    <3>1. CASE Behind(Out) \/ OutOk(p)
      BY <2>3, <3>1
    <3>2. CASE Out < Prj
      BY <2>1, <3>2, Numbers DEF Behind, world
    <3>3. QED
      BY <2>3, <3>1, <3>2 DEF Debt, Made
  <2>6. QED
    BY <2>2, <2>3, <2>4, <2>5
<1>6. CASE Touch("gs_touch", "sections.list", "gs_end")
  <2>1. /\ UNCHANGED <<qhp, qch, Prj, Out, Idx, Unf, world, owed, job, recipe>>
        /\ pc = "gs_touch" /\ pc' = "gs_end"
    BY <1>6, Stamped, Unchanged DEF Touch, Then, After, File, Generated, history
  <2>2. QED
    BY <1>1, <2>1
<1>7. CASE \/ ScriptEnds("gl_end", "generatelists", "sections")
           \/ ScriptEnds("gs_end", "generatesections", "qhp")
  <2>1. UNCHANGED <<qhp, qch, Prj, Out, Idx, Unf, world, owed, job, err>>
    BY <1>7, Unchanged DEF ScriptEnds, Then, files, history
  <2>2. \/ pc = "gl_end" /\ recipe = "make-boost-qhp" /\ recipe' = recipe /\ pc' = "gs_rm"
        \/ pc = "gs_end" /\ recipe = "make-boost-qhp" /\ recipe' = recipe /\ pc' = "mb_check"
        \/ pc = "gl_end" /\ recipe = "generatelists" /\ recipe' = "none" /\ pc' = "sections"
        \/ pc = "gs_end" /\ recipe = "generatesections" /\ job = "make" /\ pc' = "qhp"
           /\ recipe' = "none"
        \/ pc' = "exit" /\ job # "make"
    BY <1>7 DEF ScriptEnds, Then, Exit, CleanInv, PhaseInv
  <2>3. QED
    BY <1>1, <2>1, <2>2
<1>8. QED
  BY <1>2, <1>3, <1>4, <1>5, <1>6, <1>7 DEF GenerateLists, GenerateSections

LEMMA OwedQhp ==
    ASSUME TypeOK, CleanInv, ContentInv, ListedInv, OwedInv, MakeBoostQhp, NEW p \in owed'
    PROVE  OwedAt(p)'
<1> USE DEF QhgPc, GlPc, GsPc, MbPc, Partial, MakeExits, ListsRead
<1>1. ASSUME UNCHANGED <<files, world, owed>>
      PROVE  /\ OwedAt(p) /\ Debt(p)' /\ (Made(p) => Made(p)') /\ (OutOk(p) => OutOk(p)')
             /\ (Behind(Out) => Behind(Out)')
  <2>1. UNCHANGED <<Idx, Unf, Prj, Out, qhp, qch, docs, now>>
    BY <1>1, Unchanged DEF files, world
  <2>2. OwedAt(p)
    BY <1>1 DEF OwedInv
  <2>3. QED
    BY <2>1, <2>2, DebtStays DEF OwedAt
<1>2. CASE CheckAccess
  BY <1>1, <1>2 DEF CheckAccess, After, OwedAt, history
<1>3. CASE CatNothing("mb_sections") \/ CatNothing("mb_files")
  BY <1>1, <1>3 DEF CatNothing, Then, After, OwedAt, history
<1>4. ASSUME NEW here \in {"mb_head", "mb_middle", "mb_files", "mb_tail"}, NEW q,
             WriteQhp(here, q),
             here = "mb_tail" => q = Append(qhp, Fixed("tail"))
      PROVE  OwedAt(p)'
  <2>1. /\ pc = here /\ pc' \in Partial \cup {"mb_end"} /\ (pc' = "mb_end" => here = "mb_tail")
        /\ UNCHANGED <<recipe, job, err, qch, docs, now, owed>> /\ qhp' = q
    BY <1>4 DEF WriteQhp, Then, After, world, history
  <2>2. Prj' = now /\ UNCHANGED <<Idx, Unf, Out>>
    BY <1>4, Stamped DEF WriteQhp, File, Generated
  <2>3. p \in owed /\ OwedAt(p)
    BY <2>1 DEF OwedInv
  <2>4. recipe = "make-boost-qhp"
    BY <2>1 DEF CleanInv, PhaseInv
  <2>5. /\ Behind(Out) => Behind(Out)'
        /\ OutOk(p) => OutOk(p)'
    BY <2>1, <2>2, BehindStays DEF OutOk, InOut
  <2>6. GoodPrj(p)'
    <3>1. CASE here = "mb_tail"
      <4>1. InPrj(p)
        BY <2>1, <2>3, <3>1 DEF ListedInv
      <4>2. Listed(qhp) \subseteq Listed(qhp')
        BY <1>4, <2>1, <3>1, ListedAppend, Chunks DEF TypeOK
      <4>3. QED
        BY <2>1, <4>1, <4>2 DEF GoodPrj, InPrj
    <3>2. CASE here # "mb_tail"
      BY <2>1, <3>2 DEF GoodPrj
    <3>3. QED
      BY <3>1, <3>2
  <2>7. Made(p)'
    <3>1. Out < now \/ OutOk(p)
      BY <2>3, BehindIsOlder, Numbers DEF OwedAt, Debt, Made
    <3>2. QED
      BY <2>2, <2>5, <2>6, <3>1 DEF Made
  <2>8. Behind(Out)' \/ OutOk(p)'
    BY <2>1, <2>3, <2>4, <2>5 DEF OwedAt
  <2>9. QED
    BY <2>1, <2>7, <2>8 DEF OwedAt, Debt
<1>5. CASE ScriptEnds("mb_end", "make-boost-qhp", "qch")
  <2>1. UNCHANGED <<files, world, owed, job, err>> /\ pc = "mb_end" /\ recipe' = "none"
        /\ (pc' = "qch" \/ (pc' = "exit" /\ job # "make"))
    BY <1>5 DEF ScriptEnds, Exit, Then, history, CleanInv, PhaseInv
  <2>2. QED
    BY <1>1, <2>1 DEF OwedAt
<1>6. QED
  BY <1>2, <1>3, <1>4, <1>5 DEF MakeBoostQhp, CatFiles

LEMMA OwedQch ==
    ASSUME TypeOK, CleanInv, ContentInv, OwedInv, Qhelpgenerator, NEW p \in owed'
    PROVE  OwedAt(p)'
<1> USE DEF QhgPc, GlPc, GsPc, MbPc, Partial, MakeExits, ListsRead
<1>1. p \in owed /\ OwedAt(p) /\ p \in Pages
  BY DEF Qhelpgenerator, QhgOpen, QhgRefuses, QhgPage, QhgEnds, OwedInv, history, TypeOK
<1>2. UNCHANGED <<qhp, docs, now, recipe, job, err>> /\ recipe = "qhelpgenerator"
  BY DEF Qhelpgenerator, QhgOpen, QhgRefuses, QhgPage, QhgEnds, files, world, CleanInv, PhaseInv
<1>3. CASE QhgOpen
  <2>1. pc = "qc_open" /\ pc' = "qc_write" /\ ~err /\ qch' = NoQch /\ todo' = Listed(qhp)
        /\ Accepted(qhp)
    BY <1>1, <1>3 DEF QhgOpen
  <2>2. GoodPrj(p)
    BY <1>1, <2>1 DEF OwedAt, Made
  <2>3. GoodPrj(p)'
    BY <1>2, <2>2, GoodPrjStays
  <2>4. p \in todo' \/ InOut(p)'
    BY <1>1, <1>2, <2>1, <2>2 DEF GoodPrj, InPrj, InOut, NoQch
  <2>5. OutOk(p)'
    BY <2>1 DEF OutOk, NoQch
  <2>6. QED
    BY <1>2, <2>1, <2>3, <2>4, <2>5 DEF OwedAt, Debt, Made
<1>4. CASE QhgRefuses
  <2>1. UNCHANGED <<Idx, Unf, Prj, Out, qch>> /\ pc' = "exit" /\ status' = "error"
    BY <1>4, Unchanged DEF QhgRefuses, Exit, files
  <2>2. Debt(p)'
    BY <1>1, <1>2, <2>1, DebtStays DEF OwedAt
  <2>3. QED
    BY <1>2, <2>1, <2>2 DEF OwedAt
<1>5. CASE \E q \in Pages : QhgPage(q)
  <2>1. PICK q \in Pages : QhgPage(q)
    BY <1>5
  <2>2. /\ pc = "qc_write" /\ pc' = "qc_write" /\ todo' = todo \ {q}
        /\ qch' = [qch EXCEPT !.pages[q] = docs[q]]
    BY <2>1 DEF QhgPage
  <2>3. ~qch.whole /\ qch \in QchType
    BY <2>2 DEF ContentInv, TypeOK
  <2>4. ~qch'.whole /\ (p = q => qch'.pages[p] = docs[p])
        /\ (p # q => qch'.pages[p] = qch.pages[p])
    BY <1>1, <2>2, <2>3 DEF QchType
  <2>5. GoodPrj(p) /\ (p \in todo \/ InOut(p))
    BY <1>1, <2>2 DEF OwedAt
  <2>6. GoodPrj(p)' /\ (p \in todo' \/ InOut(p)')
    BY <1>2, <2>2, <2>4, <2>5, GoodPrjStays DEF InOut
  <2>7. QED
    BY <1>2, <2>2, <2>4, <2>6 DEF OwedAt, Debt, Made, OutOk
<1>6. CASE QhgEnds
  <2>1. pc = "qc_write" /\ pc' = "exit" /\ todo = {} /\ qch'.pages = qch.pages
    BY <1>6 DEF QhgEnds, Exit, TypeOK, QchType
  <2>2. GoodPrj(p) /\ InOut(p)
    BY <1>1, <2>1 DEF OwedAt
  <2>3. GoodPrj(p)' /\ OutOk(p)'
    BY <1>2, <2>1, <2>2, GoodPrjStays DEF InOut, OutOk
  <2>4. QED
    BY <1>2, <2>1, <2>3 DEF OwedAt, Debt, Made
<1>7. QED
  BY <1>3, <1>4, <1>5, <1>6 DEF Qhelpgenerator

\* What the user does at any moment, and what befalls the job, changes neither the
\* project nor the output of a page that stays owed.
LEMMA OwedUser ==
    ASSUME TypeOK, CleanInv, ContentInv, OwedInv, User, NEW p \in owed'
    PROVE  OwedAt(p)'
<1> USE DEF QhgPc, GlPc, GsPc, MbPc, Partial, MakeExits, ListsRead, files, world, process, history
<1>1. ASSUME p \in owed, docs'[p] = docs[p], UNCHANGED <<qhp, qch, Prj, Out, now>>,
             Unf' = Unf, Idx' \in {0, now, Idx}
      PROVE  /\ OwedAt(p) /\ Debt(p)' /\ (Made(p) => Made(p)') /\ (OutOk(p) => OutOk(p)')
             /\ (Behind(Out) => Behind(Out)')
  BY <1>1, DebtStays DEF OwedAt, OwedInv
<1>2. CASE \/ RunMake \/ RunClean
           \/ \E r \in Scripts : RunScript(r)
  <2>1. UNCHANGED <<files, world, history>> /\ pc' \in {"goal", "clean", "gl_rm_unf", "gs_rm"}
        /\ (pc' = "gs_rm" => recipe' = "generatesections" /\ job' = "shell")
    BY <1>2, Entries DEF RunMake, RunClean, RunScript, Start, Scripts
  <2>2. QED
    BY <1>1, <2>1, Unchanged DEF OwedAt
<1>3. CASE \E q \in Pages, v \in Version : EditPage(q, v)
  <2>1. PICK q \in Pages, v \in Version : EditPage(q, v)
    BY <1>3
  <2>2. p \in owed /\ docs'[p] = docs[p] /\ UNCHANGED <<files, process, now>>
    BY <2>1 DEF EditPage, TypeOK
  <2>3. GoodPrj(p) => GoodPrj(p)'
    BY <2>2, GoodPrjStays
  <2>4. QED
    BY <1>1, <2>2, <2>3, Unchanged DEF OwedAt, InOut
<1>4. CASE \E f \in Source : TouchSource(f)
  <2>1. PICK f \in Source : TouchSource(f)
    BY <1>4
  <2>2. UNCHANGED <<Unf, Prj, Out, qhp, qch, world, process>> /\ Idx' \in {now, Idx}
        /\ (f = "index.htm" => Idx' = now)
    BY <2>1, Stamped DEF TouchSource, File, Source
  <2>3. CASE owed' = owed
    <3>1. GoodPrj(p) => GoodPrj(p)'
      BY <2>2, GoodPrjStays
    <3>2. QED
      BY <1>1, <2>2, <2>3, <3>1 DEF OwedAt, InOut
  <2>4. CASE f = "index.htm" /\ Idle /\ Settled
    <3>1. Unf < now /\ Prj < now /\ Out < now
      BY <2>4 DEF Settled, Generated, Unf, Prj, Out
    <3>2. Debt(p)'
      BY <2>2, <2>4, <3>1 DEF Debt, Behind
    <3>3. QED
      BY <2>2, <2>4, <3>2 DEF OwedAt, Idle
  <2>5. QED
    BY <2>1, <2>3, <2>4 DEF TouchSource
<1>5. CASE \E f \in Source : RemoveSource(f)
  <2>1. PICK f \in Source : RemoveSource(f)
    BY <1>5
  <2>2. UNCHANGED <<Unf, Prj, Out, qhp, qch, world, process, owed>> /\ Idx' \in {0, Idx}
        /\ pc = "off"
    BY <2>1, Unlinked DEF RemoveSource, Source, Unlink, Idle
  <2>3. QED
    BY <1>1, <2>2 DEF OwedAt
<1>6. CASE \E a \in [src : BOOLEAN, dir : BOOLEAN] : ChangeAccess(a)
  <2>1. UNCHANGED <<files, process, owed, docs, now>> /\ pc = "off"
    BY <1>6 DEF ChangeAccess, Idle
  <2>2. QED
    BY <1>1, <2>1, Unchanged DEF OwedAt
<1>7. QED
  BY <1>2, <1>3, <1>4, <1>5, <1>6 DEF User

\* Ctrl-C: what make removes is the target it has been writing, and whatever was
\* made from it is behind again, or done.
LEMMA OwedInterrupt ==
    ASSUME TypeOK, CleanInv, TrackInv, ContentInv, OwedInv, Interrupt, NEW p \in owed'
    PROVE  OwedAt(p)'
<1>1. p \in owed /\ OwedAt(p) /\ UNCHANGED <<docs, now>> /\ pc' = "off"
  BY DEF Interrupt, Gone, OwedInv, world
<1>2. Debt(p)'
  <2>1. CASE UNCHANGED files
    BY <1>1, <2>1, Unchanged, DebtStays DEF OwedAt, files
  <2>2. CASE ~UNCHANGED files
    <3>1. /\ job = "make" /\ recipe \in Recipes /\ pc \notin {"off", "exit"}
          /\ mtime[Target[recipe]] # seen[Target[recipe]]
          /\ Unlink(Target[recipe])
      BY <2>2 DEF Interrupt, TypeOK
    <3>2. CASE recipe \in {"generatelists", "generatesections"}
      <4>1. Unlink("files-unformatted.list") \/ Unlink("sections.list")
        BY <3>1, <3>2, Targets
      <4>2. UNCHANGED <<Prj, Out, Idx>> /\ Unf' \in {0, Unf}
        BY <4>1, Unlinked
      <4>3. UNCHANGED <<qhp, qch>>
        BY <4>1 DEF Unlink
      <4>4. QED
        BY <1>1, <4>2, <4>3, DebtStays DEF OwedAt
    <3>3. CASE recipe = "make-boost-qhp"
      <4>1. Unlink("boost.qhp") /\ Prj # seen["boost.qhp"]
        BY <3>1, <3>3, Targets DEF Prj
      <4>2. pc \in Partial \cup {"mb_end"}
        BY <3>1, <3>3, <4>1 DEF TrackInv, CleanInv, PhaseInv, MakePc
      <4>3. Behind(Out) \/ OutOk(p)
        BY <1>1, <3>3, <4>2 DEF OwedAt, MbPc
      <4>4. UNCHANGED <<qch, Out, Idx, Unf>> /\ Prj' = 0 /\ qhp' = <<>>
        BY <4>1, Unlinked DEF Unlink
      <4>5. GoodPrj(p)' /\ Behind(Prj)' /\ (Behind(Out) => Behind(Out)')
        BY <1>1, <4>4, EmptyIsGood, BehindStays
      <4>6. QED
        BY <1>1, <4>3, <4>4, <4>5 DEF Debt, Made, OutOk, InOut
    <3>4. CASE recipe = "qhelpgenerator"
      <4>1. Unlink("boost.qch") /\ Out # seen["boost.qch"]
        BY <3>1, <3>4, Targets DEF Out
      <4>2. pc = "qc_write"
        BY <3>1, <3>4, <4>1 DEF TrackInv, CleanInv, PhaseInv, MakePc
      <4>3. GoodPrj(p) /\ qhp' = qhp /\ qch' = NoQch
        BY <1>1, <4>1, <4>2 DEF OwedAt, Unlink
      <4>4. QED
        BY <1>1, <4>3, GoodPrjStays DEF Debt, Made, OutOk, NoQch
    <3>5. QED
      BY <3>1, <3>2, <3>3, <3>4 DEF Recipes, Scripts
  <2>3. QED
    BY <2>1, <2>2
<1>3. QED
  BY <1>1, <1>2 DEF OwedAt, ListsRead, MakeExits, GsPc, MbPc, Partial, Interrupt, Gone

\* A command that fails leaves nothing owed, or does no harm: the script goes on,
\* and either writes no project that is accepted or writes the whole of it.
LEMMA OwedFails ==
    ASSUME TypeOK, CleanInv, ContentInv, OwedInv, CommandFails, NEW p \in owed'
    PROVE  OwedAt(p)'
<1>1. /\ pc \in Command \ {"gl_rm_unf", "gl_rm_fl", "gs_rm", "mb_check", "mb_sections"}
      /\ pc' = AfterFailure[pc] /\ UNCHANGED <<qch, job, recipe, err, docs, now>>
  BY DEF CommandFails
<1>2. AfterFailure[pc] = CASE pc = "gl_open_fl"  -> "gl_open_unf"
                           [] pc = "gl_open_unf" -> "gl_end"
                           [] OTHER              -> After[pc]
  BY <1>1, AfterFails
<1>3. p \in owed /\ OwedAt(p) /\ pc \notin {"gl_open_fl", "gl_find_fl", "mb_files"}
      /\ (pc = "gl_open_unf" => Unf = 0)
  BY DEF CommandFails, OwedInv, Exists, Unf
<1>4. UNCHANGED <<Idx, Unf, Out>>
  BY Stamped, Unchanged DEF CommandFails, File, Generated
<1>5. Behind(Out) => Behind(Out)'
  BY <1>1, <1>4, BehindStays
<1>6. OutOk(p) => OutOk(p)'
  BY <1>1 DEF OutOk, InOut
<1>7. CASE pc = "mb_head"
  <2>1. Prj' = now /\ pc' = "mb_sections"
    BY <1>1, <1>2, <1>7, Stamped DEF CommandFails, File, Generated, After
  <2>2. recipe = "make-boost-qhp"
    BY <1>7 DEF CleanInv, PhaseInv, MbPc, Partial
  <2>3. Out < now \/ OutOk(p)
    BY <1>3, BehindIsOlder, Numbers DEF OwedAt, Debt, Made
  <2>4. Made(p)'
    BY <1>4, <1>6, <2>1, <2>3 DEF Made, GoodPrj, Partial
  <2>5. QED
    BY <1>1, <1>3, <1>5, <1>6, <1>7, <2>1, <2>2, <2>4
       DEF OwedAt, Debt, ListsRead, MakeExits, GsPc, MbPc, Partial
<1>8. CASE pc # "mb_head"
  <2>1. qhp' = qhp /\ Prj' = Prj
    BY <1>8, Unchanged DEF CommandFails
  <2>2. Debt(p)' /\ (Made(p) => Made(p)')
    BY <1>1, <1>3, <1>4, <2>1, DebtStays DEF OwedAt
  <2>3. \/ pc \in {"gl_open_unf", "gl_find_unf"} /\ pc' = "gl_end"
        \/ pc = "gs_touch" /\ pc' = "gs_end"
        \/ pc = "mb_middle" /\ pc' = "mb_files"
        \/ pc = "mb_tail" /\ pc' = "mb_end"
    BY <1>1, <1>2, <1>3, <1>8 DEF Command, After
  <2>4. CASE pc = "gl_open_unf"
    <3>1. Unf = 0 /\ Unf' = 0 /\ pc' = "gl_end"
      BY <1>3, <1>4, <2>3, <2>4
    <3>2. Behind(Out)' \/ OutOk(p)'
      BY <1>1, <1>3, <1>4, <1>5, <1>6, <3>1, Numbers DEF OwedAt, Debt, Made, Behind
    <3>3. QED
      BY <1>1, <2>2, <3>1, <3>2 DEF OwedAt, ListsRead, MakeExits, GsPc, MbPc, Partial
  <2>5. CASE pc # "gl_open_unf"
    BY <1>1, <1>3, <1>4, <1>5, <1>6, <2>1, <2>2, <2>3, <2>5
       DEF OwedAt, ListsRead, MakeExits, GsPc, MbPc, Partial
  <2>6. QED
    BY <2>4, <2>5
<1>9. QED
  BY <1>7, <1>8

LEMMA OwedNext ==
    TypeOK /\ CleanInv /\ TrackInv /\ ContentInv /\ ListedInv /\ OwedInv /\ [Next]_vars => OwedInv'
<1> SUFFICES ASSUME TypeOK, CleanInv, TrackInv, ContentInv, ListedInv, OwedInv, [Next]_vars,
                    NEW p \in owed'
             PROVE  OwedAt(p)'
  BY DEF OwedInv
<1>1. CASE Make \/ GenerateLists \/ GenerateSections \/ MakeBoostQhp \/ Qhelpgenerator \/ User
  BY <1>1, OwedMake, OwedLists, OwedQhp, OwedQch, OwedUser
<1>2. CASE Interrupt \/ CommandFails
  BY <1>2, OwedInterrupt, OwedFails
<1>3. CASE End \/ Kill \/ QhgFails
  <2>1. p \in owed /\ OwedAt(p) /\ UNCHANGED <<files, docs, now>>
    BY <1>3 DEF End, Kill, QhgFails, OwedInv, world, history
  <2>2. Debt(p)'
    BY <2>1, Unchanged, DebtStays DEF OwedAt, files
  <2>3. pc' = "off" \/ (pc' = "exit" /\ status' = "error")
    BY <1>3 DEF End, Kill, QhgFails, Gone, Exit
  <2>4. QED
    BY <2>2, <2>3 DEF OwedAt, ListsRead, MakeExits, GsPc, MbPc, Partial,
                      CleanInv, PhaseInv, QhgPc, End, Kill, QhgFails, Gone
<1>4. CASE Tick \/ UNCHANGED vars
  <2>1. p \in owed /\ OwedAt(p) /\ UNCHANGED <<files, process, docs>> /\ now' \in {now, now + 1}
    BY <1>4 DEF Tick, OwedInv, vars, files, process, history
  <2>2. /\ Debt(p)' /\ (Made(p) => Made(p)') /\ (OutOk(p) => OutOk(p)')
        /\ (Behind(Out) => Behind(Out)') /\ UNCHANGED <<Unf, Prj>>
    BY <2>1, Unchanged, DebtStays DEF OwedAt, files
  <2>3. GoodPrj(p) => GoodPrj(p)'
    BY <2>1, GoodPrjStays DEF files
  <2>4. QED
    BY <2>1, <2>2, <2>3 DEF OwedAt, ListsRead, MakeExits, InOut, files, process
<1>5. QED
  BY <1>1, <1>2, <1>3, <1>4 DEF Next, Run

\* A make that reports success, has printed no error and leaves a finished boost.qch
\* has every page it owes in it, as the page is in the tree: for every set of pages,
\* every disturbance, any number of failing commands, and a clock of any grain.
THEOREM OwedIsDelivered == Spec => []Delivered
<1>1. Init => ContentInv /\ ListedInv /\ OwedInv
  BY DEF Init, ContentInv, ListedInv, OwedInv, Relisted, GsPc, Partial, NoQch
<1>2. OwedInv => Delivered
  BY DEF OwedInv, OwedAt, Delivered, OutOk, InOut
<1>3. QED
  BY <1>1, <1>2, ContentNext, ListedNext, OwedNext, TrackInit, TrackNext, CalmInit, CalmNext,
     CleanInit, CleanNext, TypeCorrect, PTL DEF Spec

=============================================================================
