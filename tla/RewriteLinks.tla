---------------------------- MODULE RewriteLinks ----------------------------
(***************************************************************************)
(* rewritelinks runs rewrite-link on every file of the tree, in place:     *)
(* rewrite-link makes the new text in a temporary file, copies the old     *)
(* text to a backup under /tmp, and copies the new text over the file.     *)
(* It runs on the only copy of the documentation, and either copy can fail *)
(* or be killed half way.                                                  *)
(*                                                                         *)
(* The text of a page is one link, "../" repeated `ups' times and followed *)
(* by "doc/src/" or not: all that the two sed commands look at.            *)
(***************************************************************************)
EXTENDS Naturals, FiniteSets

CONSTANTS
    Items,       \* the files below the directory
    MaxUps,      \* bound: "../" at the beginning of a link
    MaxFaults,   \* bound: commands that fail
    Killable     \* whether the scripts may be killed

ASSUME ItemsAssumption == IsFiniteSet(Items)
ASSUME LimitsAssumption == MaxUps \in Nat /\ MaxFaults \in Nat /\ Killable \in BOOLEAN

VARIABLES
    text,    \* the content of every file
    backup,  \* the content of its backup
    before,  \* history: the file as rewrite-link last found it
    tmp,     \* the temporary file written last
    pc,      \* the next command
    item,    \* the file rewrite-link is at, the last one when it has ended
    todo,    \* the files rewritelinks has still to process
    said,    \* the last message of rewrite-link
    ok,      \* what rewritelinks has printed after it
    sound,   \* history: nothing was killed or failed since the scripts were started
    faults   \* commands that have failed

vars == <<text, backup, before, tmp, pc, item, todo, said, ok, sound, faults>>

-----------------------------------------------------------------------------
(* Texts. *)

Pages == [state : {"whole"}, ups : 0..MaxUps, src : BOOLEAN]
None  == [state |-> "none", ups |-> 0, src |-> FALSE]   \* there is no such file
Cut   == [state |-> "cut", ups |-> 0, src |-> FALSE]    \* the copy was not finished
Text  == Pages \cup {None, Cut}

\* Mutant: the script is s/doc\/src\//..\//g, and the link is longer by a "../".
SedDocSrcUp(t) == IF t.src THEN [t EXCEPT !.ups = @ + 1, !.src = FALSE] ELSE t

\* s/..\/..\/doc\/src\///g
SedDocSrc(t) ==
    IF t.src /\ t.ups >= 2 THEN [t EXCEPT !.ups = @ - 2, !.src = FALSE] ELSE t

\* Mutant: the g is forgotten.
SedUpsOnce(t) == IF t.ups >= 2 THEN [t EXCEPT !.ups = @ - 2] ELSE t

\* s/\.\.\/\.\.\///g: pairs of "../" go, an odd one stays.
SedUps(t) == [t EXCEPT !.ups = @ % 2]

Rewritten(t) == SedUps(SedDocSrc(t))

\* cat of a file that is not there is an empty text; its status is lost in the pipe.
Cat(t) == IF t.state = "none" THEN Cut ELSE t

-----------------------------------------------------------------------------
(* rewritelinks *)

\* The pattern ** is expanded once, before the first file is processed.
StartAll ==
    /\ pc = "off"
    /\ todo' = {f \in Items : text[f] # None} /\ pc' = "next"
    /\ said' = "nothing" /\ ok' = "nothing" /\ sound' = TRUE
    /\ UNCHANGED <<text, backup, before, tmp, item, faults>>

NextItem(f) ==
    /\ pc = "next" /\ f \in todo
    /\ item' = f /\ todo' = todo \ {f} /\ pc' = "test"
    /\ before' = [before EXCEPT ![f] = text[f]]
    /\ said' = "nothing" /\ ok' = "nothing"
    /\ UNCHANGED <<text, backup, tmp, sound, faults>>

\* rewrite-link ends with an echo in every case: its status is always 0.
Report ==
    /\ pc = "report"
    /\ ok' = "OK" /\ pc' = "next"
    /\ UNCHANGED <<text, backup, before, tmp, item, todo, said, sound, faults>>

EndAll ==
    /\ pc = "next" /\ todo = {}
    /\ pc' = "off"
    /\ UNCHANGED <<text, backup, before, tmp, item, todo, said, ok, sound, faults>>

-----------------------------------------------------------------------------
(* rewrite-link *)

Fault == faults < MaxFaults /\ faults' = faults + 1 /\ sound' = FALSE
Fine  == UNCHANGED <<faults, sound>>
Say(message) == said' = message /\ pc' = "report"

\* The trial run into /tmp/rewrite-link.txt.  What it tests is the status of sed,
\* which is fine on a file that does not exist.
Trial ==
    /\ pc = "test"
    /\ \/ Fine /\ pc' = "temp" /\ UNCHANGED said
       \/ Fault /\ Say("link failed")
    /\ UNCHANGED <<text, backup, before, tmp, item, todo, ok>>

\* The temporary files and the directory of the backup.  Without a name for the
\* output there is no output.
Prepare ==
    /\ pc = "temp" /\ pc' = "sed1"
    /\ \/ Fine /\ tmp' = Cut
       \/ Fault /\ tmp' = None
    /\ UNCHANGED <<text, backup, before, item, todo, said, ok>>

\* One sed after the other, nobody asking for their status.
Sed(here, next, result) ==
    /\ pc = here /\ pc' = next
    /\ \/ tmp # None /\ Fine /\ tmp' = result
       \/ tmp # None /\ Fault /\ tmp' = Cut
       \/ tmp = None /\ Fine /\ UNCHANGED tmp
    /\ UNCHANGED <<text, backup, before, item, todo, said, ok>>

\* A cp begins by truncating what it writes.
BackupBegins ==
    /\ pc = "backup"
    /\ IF text[item] = None
       THEN Say("backup failed") /\ UNCHANGED backup
       ELSE backup' = [backup EXCEPT ![item] = Cut] /\ pc' = "copying" /\ UNCHANGED said
    /\ Fine
    /\ UNCHANGED <<text, before, tmp, item, todo, ok>>

\* Mutant: the backup is not asked whether it succeeded.
BackupUnchecked ==
    /\ pc = "copying"
    /\ pc' = "overwrite"
    /\ \/ Fine /\ backup' = [backup EXCEPT ![item] = text[item]]
       \/ Fault /\ UNCHANGED backup
    /\ UNCHANGED <<text, before, tmp, item, todo, said, ok>>

BackupEnds ==
    /\ pc = "copying"
    /\ \/ /\ Fine /\ pc' = "overwrite"
          /\ backup' = [backup EXCEPT ![item] = text[item]] /\ UNCHANGED said
       \/ Fault /\ Say("backup failed") /\ UNCHANGED backup
    /\ UNCHANGED <<text, before, tmp, item, todo, ok>>

OverwriteBegins ==
    /\ pc = "overwrite"
    /\ IF tmp = None
       THEN Say("rewrite failed") /\ UNCHANGED text
       ELSE text' = [text EXCEPT ![item] = Cut] /\ pc' = "writing" /\ UNCHANGED said
    /\ Fine
    /\ UNCHANGED <<backup, before, tmp, item, todo, ok>>

OverwriteEnds ==
    /\ pc = "writing"
    /\ \/ Fine /\ text' = [text EXCEPT ![item] = tmp] /\ Say("rewrote")
       \/ Fault /\ Say("rewrite failed") /\ UNCHANGED text
    /\ UNCHANGED <<backup, before, tmp, item, todo, ok>>

RewriteLink ==
    \/ Trial \/ Prepare
    \/ Sed("sed1", "sed2", SedDocSrc(Cat(text[item])))
    \/ Sed("sed2", "backup", SedUps(tmp))
    \/ BackupBegins \/ BackupEnds \/ OverwriteBegins \/ OverwriteEnds

-----------------------------------------------------------------------------
(* The user and the machine. *)

\* A file is removed: between two runs, or before rewritelinks gets to it.
Remove(f) ==
    /\ pc = "off" \/ f \in todo
    /\ text' = [text EXCEPT ![f] = None] /\ before' = [before EXCEPT ![f] = None]
    /\ UNCHANGED <<backup, tmp, pc, item, todo, said, ok, sound, faults>>

Kill ==
    /\ Killable /\ pc # "off"
    /\ pc' = "off" /\ todo' = {} /\ sound' = FALSE
    /\ UNCHANGED <<text, backup, before, tmp, item, said, ok, faults>>

-----------------------------------------------------------------------------

Init ==
    /\ text \in [Items -> Pages]
    /\ backup = [f \in Items |-> None] /\ before = text /\ tmp = None
    /\ pc = "off" /\ item \in Items /\ todo = {}
    /\ said = "nothing" /\ ok = "nothing" /\ sound = FALSE /\ faults = 0

Run == StartAll \/ (\E f \in Items : NextItem(f)) \/ RewriteLink \/ Report \/ EndAll
Next == Run \/ (\E f \in Items : Remove(f)) \/ Kill
Spec == Init /\ [][Next]_vars

-----------------------------------------------------------------------------
(* Properties. *)

\* Among the rest: neither sed command makes a link longer than the tree's longest.
PcType == {"off", "next", "test", "temp", "sed1", "sed2", "backup", "copying",
           "overwrite", "writing", "report"}
TypeOK ==
    /\ text \in [Items -> Text] /\ backup \in [Items -> Text] /\ before \in [Items -> Text]
    /\ tmp \in Text /\ pc \in PcType /\ item \in Items /\ todo \subseteq Items
    /\ said \in {"nothing", "link failed", "backup failed", "rewrite failed", "rewrote"}
    /\ ok \in {"nothing", "OK"} /\ sound \in BOOLEAN /\ faults \in 0..MaxFaults

\* Whatever fails and whenever the scripts are killed, a file as rewrite-link found
\* it is still there: in its place, or in the backup.
NothingLost ==
    \A f \in Items : before[f] # None => text[f] = before[f] \/ backup[f] = before[f]

\* The message that names the old file's place is true when it is printed.
BackedUp ==
    pc = "report" /\ said \in {"rewrote", "rewrite failed"} => backup[item] = before[item]

\* When rewritelinks has run undisturbed over all the files, no "../../" is left
\* ("The default is to strip out ../../ references"), and another run of it would
\* change nothing.
Stripped ==
    sound /\ pc = "off" =>
        \A f \in Items : text[f] # None => text[f].ups < 2 /\ Rewritten(text[f]) = text[f]

\* rewritelinks prints OK only after a file that was rewritten.
OkMeansRewritten ==
    pc = "next" /\ ok = "OK" => text[item] = Rewritten(before[item])

=============================================================================
