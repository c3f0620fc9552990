------------------------- MODULE RewriteLinksProofs -------------------------
(***************************************************************************)
(* Theorems about RewriteLinks: for any files, links of any length, and    *)
(* any number of failures and kills.                                       *)
(***************************************************************************)
EXTENDS RewriteLinks, TLAPS

LEMMA TextFacts ==
    /\ Cut # None /\ None \notin Pages /\ Cut \notin Pages
    /\ \A t \in Text : t.ups \in Nat /\ Cat(t) \in Text /\ Cat(t) # None
BY LimitsAssumption DEF Text, Pages, None, Cut, Cat

\* The sed commands make texts of texts, and do not make a file out of nothing.
LEMMA SedDocSrcText ==
    ASSUME NEW t \in Text
    PROVE  SedDocSrc(t) \in Text /\ (t # None => SedDocSrc(t) # None)
<1>1. CASE t \in Pages
  <2>1. SedDocSrc(t) \in Pages
    <3>1. CASE t.src /\ t.ups >= 2
      <4>1. t.ups - 2 \in 0..MaxUps
        BY <1>1, <3>1, LimitsAssumption DEF Pages
      <4>2. SedDocSrc(t) = [t EXCEPT !.ups = t.ups - 2, !.src = FALSE]
        BY <3>1 DEF SedDocSrc
      <4>3. QED
        BY <1>1, <4>1, <4>2 DEF Pages
    <3>2. CASE ~(t.src /\ t.ups >= 2)
      BY <1>1, <3>2 DEF SedDocSrc
    <3>3. QED
      BY <3>1, <3>2
  <2>2. QED
    BY <2>1, TextFacts DEF Text
<1>2. CASE t \in {None, Cut}
  BY <1>2, TextFacts DEF SedDocSrc, None, Cut, Text
<1>3. QED
  BY <1>1, <1>2 DEF Text

LEMMA SedUpsText ==
    ASSUME NEW t \in Text
    PROVE  SedUps(t) \in Text /\ SedUps(t).ups < 2 /\ (t # None => SedUps(t) # None)
<1>1. CASE t \in Pages
  <2>1. t.ups % 2 \in 0..MaxUps /\ t.ups % 2 < 2
    BY <1>1, LimitsAssumption DEF Pages
  <2>2. SedUps(t) \in Pages /\ SedUps(t).ups < 2
    BY <1>1, <2>1 DEF Pages, SedUps
  <2>3. QED
    BY <2>2, TextFacts DEF Text
<1>2. CASE t \in {None, Cut}
  <2>1. SedUps(t) = t
    BY <1>2 DEF SedUps, None, Cut
  <2>2. QED
    BY <1>2, <2>1 DEF None, Cut
<1>3. QED
  BY <1>1, <1>2 DEF Text

\* rewrite-link strips every "../../", and a text it has rewritten it leaves alone:
\* for links of any length.
LEMMA RewrittenIsStripped ==
    \A t \in Text : Rewritten(t).ups < 2 /\ Rewritten(Rewritten(t)) = Rewritten(t)
<1> SUFFICES ASSUME NEW t \in Text
             PROVE  Rewritten(t).ups < 2 /\ Rewritten(Rewritten(t)) = Rewritten(t)
  OBVIOUS
<1>1. Rewritten(t) \in Text /\ Rewritten(t).ups < 2
  BY SedDocSrcText, SedUpsText DEF Rewritten
<1>2. \A u \in Text : u.ups < 2 => SedDocSrc(u) = u
  BY TextFacts DEF SedDocSrc
<1>3. ASSUME NEW u \in Text, u.ups < 2 PROVE SedUps(u) = u
  <2>1. u.ups \in {0, 1}
    BY <1>3, TextFacts
  <2>2. u.ups % 2 = u.ups
    BY <2>1
  <2>3. SedUps(u) = [u EXCEPT !.ups = u.ups]
    BY <2>2 DEF SedUps
  <2>4. QED
    BY <2>3 DEF Text, Pages, None, Cut
<1>4. QED
  BY <1>1, <1>2, <1>3 DEF Rewritten

-----------------------------------------------------------------------------
(* Type correctness *)

LEMMA RewriteInitType == Init => TypeOK
<1>1. None \in Text /\ Pages \subseteq Text
  BY DEF Text
<1>2. 0 \in 0..MaxFaults
  BY LimitsAssumption
<1>3. QED
  BY <1>1, <1>2 DEF Init, TypeOK, PcType

LEMMA RewriteNextType == TypeOK /\ [Next]_vars => TypeOK'
<1> SUFFICES ASSUME TypeOK, [Next]_vars PROVE TypeOK'
  OBVIOUS
<1>1. None \in Text /\ Cut \in Text
  BY DEF Text
<1>2. Fault => faults' \in 0..MaxFaults /\ sound' \in BOOLEAN
  <2>1. MaxFaults \in Nat /\ faults \in 0..MaxFaults
    BY LimitsAssumption DEF TypeOK
  <2>2. Fault => faults < MaxFaults /\ faults' = faults + 1
    BY Zenon DEF Fault
  <2>3. Fault => sound' \in BOOLEAN
    BY Zenon DEF Fault
  <2>4. QED
    BY <2>1, <2>2, <2>3
<1>3. SedDocSrc(Cat(text[item])) \in Text /\ SedUps(tmp) \in Text
  BY TextFacts, SedDocSrcText, SedUpsText DEF TypeOK
<1> USE DEF TypeOK, PcType, Fine, Say
<1>4. CASE StartAll \/ (\E f \in Items : NextItem(f)) \/ Report \/ EndAll
  BY <1>4 DEF StartAll, NextItem, Report, EndAll
<1>5. CASE Trial
  BY <1>2, <1>5 DEF Trial
<1>6. CASE Prepare
  BY <1>1, <1>2, <1>6 DEF Prepare
<1>7. CASE Sed("sed1", "sed2", SedDocSrc(Cat(text[item]))) \/ Sed("sed2", "backup", SedUps(tmp))
  BY <1>1, <1>2, <1>3, <1>7 DEF Sed
<1>8. CASE BackupBegins \/ OverwriteBegins
  BY <1>1, <1>8 DEF BackupBegins, OverwriteBegins
<1>9. CASE BackupEnds
  BY <1>2, <1>9 DEF BackupEnds
<1>10. CASE OverwriteEnds
  BY <1>2, <1>10 DEF OverwriteEnds
<1>11. CASE (\E f \in Items : Remove(f)) \/ Kill
  BY ZenonT(60), <1>1, <1>11 DEF Remove, Kill
<1>12. CASE UNCHANGED vars
  BY <1>12 DEF vars
<1>13. QED
  BY <1>4, <1>5, <1>6, <1>7, <1>8, <1>9, <1>10, <1>11, <1>12 DEF Next, Run, RewriteLink

\* Every state is of the expected type, for links of any length.
THEOREM RewriteTypeCorrect == Spec => []TypeOK
<1>1. QED
  BY RewriteInitType, RewriteNextType, PTL DEF Spec

-----------------------------------------------------------------------------
(* Nothing is lost: the file is untouched until its backup is complete, and *)
(* the backup is untouched from then on.                                   *)

Busy == pc \notin {"off", "next"}

KeptInv ==
    /\ Busy => item \notin todo
    /\ pc \in {"test", "temp", "sed1", "sed2", "backup", "copying"} => text[item] = before[item]
    /\ pc \in {"overwrite", "writing"} => backup[item] = before[item]
    /\ NothingLost
    /\ BackedUp

LEMMA KeptNext == TypeOK /\ KeptInv /\ [Next]_vars => KeptInv'
<1> SUFFICES ASSUME TypeOK, KeptInv, [Next]_vars PROVE KeptInv'
  OBVIOUS
<1> USE DEF TypeOK, PcType, KeptInv, Busy, NothingLost, BackedUp, Fine, Fault, Say
<1>1. CASE StartAll \/ (\E f \in Items : NextItem(f)) \/ Report \/ EndAll
  BY <1>1 DEF StartAll, NextItem, Report, EndAll
<1>2. CASE Trial \/ Prepare
  BY <1>2 DEF Trial, Prepare
<1>3. CASE Sed("sed1", "sed2", SedDocSrc(Cat(text[item]))) \/ Sed("sed2", "backup", SedUps(tmp))
  BY <1>3 DEF Sed
<1>4. CASE BackupBegins \/ OverwriteBegins
  BY <1>4 DEF BackupBegins, OverwriteBegins
<1>5. CASE BackupEnds
  BY <1>5 DEF BackupEnds
<1>6. CASE OverwriteEnds
  BY <1>6 DEF OverwriteEnds
<1>7. CASE (\E f \in Items : Remove(f)) \/ Kill
  BY ZenonT(60), <1>7 DEF Remove, Kill
<1>8. CASE UNCHANGED vars
  BY <1>8 DEF vars
<1>9. QED
  BY <1>1, <1>2, <1>3, <1>4, <1>5, <1>6, <1>7, <1>8 DEF Next, Run, RewriteLink

LEMMA KeptInit == Init => KeptInv
BY DEF Init, KeptInv, Busy, NothingLost, BackedUp

\* Whatever fails and whenever the scripts are killed, every file as rewrite-link
\* found it is in its place or in its backup.
THEOREM NoPageIsLost == Spec => []NothingLost
<1>1. KeptInv => NothingLost
  BY DEF KeptInv
<1>2. QED
  BY <1>1, KeptInit, KeptNext, RewriteTypeCorrect, PTL DEF Spec

\* When rewrite-link names the place of the old file, the old file is there.
THEOREM BackupsAreTrue == Spec => []BackedUp
<1>1. KeptInv => BackedUp
  BY DEF KeptInv
<1>2. QED
  BY <1>1, KeptInit, KeptNext, RewriteTypeCorrect, PTL DEF Spec

-----------------------------------------------------------------------------
(* An undisturbed run strips every file: the files behind it are stripped,  *)
(* and so is the new text once the second sed has made it.                  *)

IsStripped(t) == t # None => t.ups < 2 /\ Rewritten(t) = t

StripInv ==
    sound =>
    /\ \A f \in Items : f \notin todo /\ (f = item => pc \in {"off", "next", "report"})
          => IsStripped(text[f])
    /\ pc = "off" => todo = {}
    /\ pc = "sed1" => tmp # None
    /\ pc = "sed2" => tmp # None /\ tmp = SedDocSrc(Cat(text[item]))
    /\ pc \in {"backup", "copying", "overwrite", "writing"} => tmp # None /\ IsStripped(tmp)

LEMMA StripNext == TypeOK /\ KeptInv /\ StripInv /\ [Next]_vars => StripInv'
<1> SUFFICES ASSUME TypeOK, KeptInv, StripInv, [Next]_vars, sound' PROVE StripInv'
  BY DEF StripInv
<1> USE DEF TypeOK, PcType, StripInv, Fine, Fault, Say
<1>1. IsStripped(None) /\ Cut # None
  BY TextFacts DEF IsStripped
<1>2. CASE StartAll \/ (\E f \in Items : NextItem(f)) \/ Report \/ EndAll
  BY <1>1, <1>2 DEF StartAll, NextItem, Report, EndAll
<1>3. CASE Trial \/ Prepare
  BY <1>1, <1>3 DEF Trial, Prepare
<1>4. CASE Sed("sed1", "sed2", SedDocSrc(Cat(text[item])))
  <2>1. SedDocSrc(Cat(text[item])) # None
    BY TextFacts, SedDocSrcText
  <2>2. QED
    BY <1>4, <2>1 DEF Sed
<1>5. CASE Sed("sed2", "backup", SedUps(tmp))
  <2>1. tmp # None /\ tmp = SedDocSrc(Cat(text[item])) /\ tmp' = SedUps(tmp)
    BY <1>5 DEF Sed
  <2>2. tmp' = Rewritten(Cat(text[item]))
    BY <2>1 DEF Rewritten
  <2>3. tmp' # None /\ IsStripped(tmp')
    BY <2>1, <2>2, TextFacts, SedUpsText, RewrittenIsStripped DEF IsStripped
  <2>4. QED
    BY <1>5, <2>3 DEF Sed
<1>6. CASE BackupBegins
  BY <1>1, <1>6 DEF BackupBegins
<1>7. CASE BackupEnds
  BY <1>7 DEF BackupEnds
<1>8. CASE OverwriteBegins
  BY <1>8 DEF OverwriteBegins
<1>9. CASE OverwriteEnds
  BY <1>9 DEF OverwriteEnds
<1>10. CASE (\E f \in Items : Remove(f)) \/ Kill
  <2>1. CASE \E f \in Items : Remove(f)
    <3>1. PICK f \in Items : Remove(f)
      BY <2>1
    <3>2. text'[f] = None /\ \A g \in Items : g # f => text'[g] = text[g]
      BY <3>1 DEF Remove
    <3>3. pc = "sed2" => f # item
      BY <3>1 DEF Remove, KeptInv, Busy
    <3>4. QED
      BY <1>1, <3>1, <3>2, <3>3 DEF Remove
  <2>2. CASE Kill
    BY <2>2 DEF Kill
  <2>3. QED
    BY <1>10, <2>1, <2>2
<1>11. CASE UNCHANGED vars
  BY <1>11 DEF vars
<1>12. QED
  BY <1>2, <1>3, <1>4, <1>5, <1>6, <1>7, <1>8, <1>9, <1>10, <1>11 DEF Next, Run, RewriteLink

\* An undisturbed rewritelinks leaves no "../../" in any file, however many a link
\* began with, and nothing for another run to do.
THEOREM EveryLinkIsStripped == Spec => []Stripped
<1>1. Init => StripInv
  BY DEF Init, StripInv
<1>2. StripInv => Stripped
  BY DEF StripInv, Stripped, IsStripped
<1>3. QED
  BY <1>1, <1>2, KeptInit, KeptNext, StripNext, RewriteTypeCorrect, PTL DEF Spec

=============================================================================
