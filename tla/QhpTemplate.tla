----------------------------- MODULE QhpTemplate -----------------------------
(***************************************************************************)
(* How make-boost-qhp.sh assembles boost.qhp, line by line: the template   *)
(* boost.qhpsrc is cut by line counts, from its beginning with head and    *)
(* from its end with tail, and the two lists are put between the pieces:   *)
(* 1-9 [sections] 10-12 [files] 13-15.  BoostQch takes the three pieces as *)
(* chunks; here they are made, of templates of any length.                 *)
(***************************************************************************)
EXTENDS Naturals, Sequences, FiniteSets

CONSTANTS
    MaxLines,   \* bound: lines of a template
    MaxEntries  \* bound: lines of a list

ASSUME QhpTemplateBounds == MaxLines \in Nat /\ MaxEntries \in Nat

VARIABLES
    src,       \* boost.qhpsrc
    lists,     \* the lists that can be read, with their lines
    out,       \* boost.qhp
    pc         \* the next command

vars == <<src, lists, out, pc>>

\* A line is known by the file it comes from and its number there.
LinesOf(file, n) == [i \in 1..n |-> [from |-> file, no |-> i]]

-----------------------------------------------------------------------------

\* Mutant: one line less, as if lines were counted from zero.
HeadFromZero(s, n) == SubSeq(s, 1, IF n < Len(s) THEN n - 1 ELSE Len(s))

\* head -n and tail -n: all of a shorter file.
HeadLines(s, n) == SubSeq(s, 1, IF n < Len(s) THEN n ELSE Len(s))
TailLines(s, n) == SubSeq(s, IF n < Len(s) THEN Len(s) - n + 1 ELSE 1, Len(s))

\* > and >>.
Write(here, lines, next) ==
    /\ pc = here /\ pc' = next
    /\ out' = lines
    /\ UNCHANGED <<src, lists>>
Put(here, lines, next) == Write(here, out \o lines, next)

\* A list that cannot be read is warned of, and left out.
PutList(here, l, next) ==
    \/ l \in DOMAIN lists /\ Put(here, lists[l], next)
    \/ l \notin DOMAIN lists /\ Put(here, <<>>, next)

\* Mutant: the files are put in front of the lines 10-12.
AssembleFilesFirst ==
    \/ Write("head", HeadLines(src, 9), "sections")
    \/ PutList("sections", "sections", "files")
    \/ PutList("files", "files", "middle")
    \/ Put("middle", HeadLines(TailLines(src, 6), 3), "tail")
    \/ Put("tail", TailLines(src, 3), "end")

Assemble ==
    \/ Write("head", HeadLines(src, 9), "sections")
    \/ PutList("sections", "sections", "middle")
    \/ Put("middle", HeadLines(TailLines(src, 6), 3), "files")
    \/ PutList("files", "files", "tail")
    \/ Put("tail", TailLines(src, 3), "end")

Init ==
    /\ src \in {LinesOf("src", n) : n \in 0..MaxLines}
    /\ \E L \in SUBSET {"sections", "files"} : \E size \in [L -> 0..MaxEntries] :
          lists = [l \in L |-> LinesOf(l, size[l])]
    /\ out \in {<<>>, LinesOf("old", 2)} /\ pc = "head"

Next == Assemble
Spec == Init /\ [][Next]_vars

-----------------------------------------------------------------------------
(* Properties. *)

\* boost.qhp holds n lines of a file, the first n of it, each once and in order.
Copied(file, n) ==
    /\ {out[i].no : i \in {j \in 1..Len(out) : out[j].from = file}} = 1..n
    /\ \A i, j \in 1..Len(out) :
          i < j /\ out[i].from = file /\ out[j].from = file => out[i].no < out[j].no

\* "DO NOT EVER CHANGE THE SOURCE": of a template of 15 lines every line gets into
\* boost.qhp once and in order, and of a template of any other length (but an
\* empty one) lines are lost or repeated.  The lists are copied in any case, and
\* nothing of an old boost.qhp is left.
Intact ==
    pc = "end" => /\ Copied("src", Len(src)) <=> (Len(src) \in {0, 15})
                  /\ Copied("old", 0)
                  /\ \A l \in DOMAIN lists : Copied(l, Len(lists[l]))

\* Lines of the template above the k-th line of boost.qhp.
Above(k) == Cardinality({i \in 1..k : out[i].from = "src"})

\* The sections go into the <section> that line 9 opens and line 10 closes, the
\* files into the <files> that line 12 opens and line 13 closes.
Placed ==
    pc = "end" /\ Len(src) = 15 =>
        \A k \in 1..Len(out) :
            /\ out[k].from = "sections" => Above(k) = 9
            /\ out[k].from = "files" => Above(k) = 12

=============================================================================
