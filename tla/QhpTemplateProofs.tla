-------------------------- MODULE QhpTemplateProofs --------------------------
(***************************************************************************)
(* boost.qhp, put together by make-boost-qhp.sh of a template and of lists *)
(* of any length.  It is five pieces, each of them consecutive lines of    *)
(* one file: what the n-th line of boost.qhp is follows from the lengths   *)
(* of the pieces in front of it.                                           *)
(***************************************************************************)
EXTENDS QhpTemplate, SequenceTheorems, FiniteSetTheorems, TLAPS

Files == {"src", "sections", "files"}
Lines == [from : Files, no : Nat]

(* k lines of a file, behind the first `after` of them. *)
Piece(file, after, k) == [i \in 1..k |-> [from |-> file, no |-> after + i]]

AtMost(n, k) == IF k < n THEN k ELSE n

(* A piece is a sequence of lines, with the numbers it says. *)
LEMMA Pieces ==
  ASSUME NEW file \in Files, NEW after \in Nat, NEW k \in Nat
  PROVE  /\ Piece(file, after, k) \in Seq(Lines) /\ Len(Piece(file, after, k)) = k
         /\ \A i \in 1..k : Piece(file, after, k)[i] = [from |-> file, no |-> after + i]
<1>1. \A i \in 1..k : [from |-> file, no |-> after + i] \in Lines
  BY DEF Lines
<1>2. Piece(file, after, k) \in Seq(Lines)
  BY <1>1, IsASeq DEF Piece
<1> QED
  BY <1>2 DEF Piece

(* A file is a piece of itself. *)
LEMMA WholeFile == ASSUME NEW file, NEW n \in Nat PROVE LinesOf(file, n) = Piece(file, 0, n)
BY DEF LinesOf, Piece

(* What head and tail make of consecutive lines. *)
LEMMA CutPiece ==
  ASSUME NEW file \in Files, NEW after \in Nat, NEW k \in Nat, NEW n \in Nat
  PROVE  /\ HeadLines(Piece(file, after, k), n) = Piece(file, after, AtMost(k, n))
         /\ TailLines(Piece(file, after, k), n) =
              Piece(file, after + (k - AtMost(k, n)), AtMost(k, n))
<1> DEFINE p == Piece(file, after, k)
<1>1. /\ p \in Seq(Lines) /\ Len(p) = k /\ \A i \in 1..k : p[i] \in Lines
      /\ \A i \in 1..k : p[i] = [from |-> file, no |-> after + i]
  BY Pieces, ElementOfSeq
<1> HIDE DEF p
<1>2. ASSUME NEW a \in Nat, NEW c \in Nat, a + c <= k
      PROVE  SubSeq(p, a + 1, a + c) = Piece(file, after + a, c)
  <2> DEFINE s == SubSeq(p, a + 1, a + c)
             q == Piece(file, after + a, c)
  <2>1. \A i \in (a + 1)..(a + c) : p[i] \in Lines
    BY <1>1, <1>2
  <2>2. /\ s \in Seq(Lines) /\ Len(s) = IF a + 1 <= a + c THEN (a + c) - (a + 1) + 1 ELSE 0
        /\ \A i \in 1..(a + c) - (a + 1) + 1 : s[i] = p[(a + 1) + i - 1]
    BY <2>1, SubSeqProperties
  <2>3. /\ q \in Seq(Lines) /\ Len(q) = c
        /\ \A i \in 1..c : q[i] = [from |-> file, no |-> (after + a) + i]
    <3>1. after + a \in Nat
      OBVIOUS
    <3> QED
      BY <3>1, Pieces
  <2> HIDE DEF s, q
  <2>4. Len(s) = c
    BY <2>2
  <2>5. \A i \in 1..c : s[i] = q[i]
    <3> SUFFICES ASSUME NEW i \in 1..c PROVE s[i] = q[i]
      OBVIOUS
    <3>1. s[i] = p[a + i] /\ a + i \in 1..k
      BY <1>2, <2>2
    <3> QED
      BY <1>1, <2>3, <3>1
  <2>6. s = q
    BY <2>2, <2>3, <2>4, <2>5, SeqEqual
  <2> QED
    BY <2>6 DEF s, q
<1>3. HeadLines(p, n) = SubSeq(p, 0 + 1, 0 + AtMost(k, n))
  BY <1>1 DEF HeadLines, AtMost
<1>4. TailLines(p, n) = SubSeq(p, (k - AtMost(k, n)) + 1, (k - AtMost(k, n)) + AtMost(k, n))
  BY <1>1 DEF TailLines, AtMost
<1>5. /\ AtMost(k, n) \in Nat /\ AtMost(k, n) <= k /\ k - AtMost(k, n) \in Nat
      /\ (k - AtMost(k, n)) + AtMost(k, n) <= k
  BY DEF AtMost
<1>6. HeadLines(p, n) = Piece(file, after + 0, AtMost(k, n))
  <2>1. 0 \in Nat /\ 0 + AtMost(k, n) <= k
    BY <1>5
  <2>2. SubSeq(p, 0 + 1, 0 + AtMost(k, n)) = Piece(file, after + 0, AtMost(k, n))
    BY <1>2, <1>5, <2>1
  <2> QED
    BY <1>3, <2>2
<1>7. TailLines(p, n) = Piece(file, after + (k - AtMost(k, n)), AtMost(k, n))
  BY <1>2, <1>4, <1>5
<1>8. after + 0 = after
  OBVIOUS
<1> QED
  BY <1>6, <1>7, <1>8 DEF p

-----------------------------------------------------------------------------
(* A list that is there is lines of its own, the template lines of its. *)
Names == {"sections", "files"}
Entries(l) == IF l \in DOMAIN lists THEN Len(lists[l]) ELSE 0
Listed(l) == Piece(l, 0, Entries(l))

(* The pieces of boost.qhp: lines 1-9, the sections, lines 10-12, the      *)
(* files and lines 13-15 of a template that has 15.                        *)
N == Len(src)
First == Piece("src", 0, AtMost(N, 9))
Second == Piece("src", N - AtMost(N, 6), AtMost(AtMost(N, 6), 3))
Third == Piece("src", N - AtMost(N, 3), AtMost(N, 3))

Inputs ==
  /\ N \in Nat /\ src = Piece("src", 0, N)
  /\ DOMAIN lists \subseteq Names
  /\ \A l \in DOMAIN lists : Len(lists[l]) \in Nat /\ lists[l] = Piece(l, 0, Len(lists[l]))

Inv ==
  /\ Inputs
  /\ pc \in {"head", "sections", "middle", "files", "tail", "end"}
  /\ pc = "sections" => out = First
  /\ pc = "middle" => out = First \o Listed("sections")
  /\ pc = "files" => out = (First \o Listed("sections")) \o Second
  /\ pc = "tail" => out = ((First \o Listed("sections")) \o Second) \o Listed("files")
  /\ pc = "end" => out = (((First \o Listed("sections")) \o Second) \o Listed("files")) \o Third

(* The template and the lists, before boost.qhp is written. *)
LEMMA InvInit == Init => Inv
<1> SUFFICES ASSUME Init PROVE Inv
  OBVIOUS
<1>1. ASSUME NEW file \in Files, NEW n \in Nat
      PROVE  /\ LinesOf(file, n) = Piece(file, 0, n) /\ Len(LinesOf(file, n)) = n
  BY WholeFile, Pieces
<1>2. PICK n \in 0..MaxLines : src = LinesOf("src", n)
  BY DEF Init
<1>3. PICK L \in SUBSET Names : \E size \in [L -> 0..MaxEntries] :
          lists = [l \in L |-> LinesOf(l, size[l])]
  BY DEF Init, Names
<1>4. PICK size \in [L -> 0..MaxEntries] : lists = [l \in L |-> LinesOf(l, size[l])]
  BY <1>3
<1>5. N \in Nat /\ src = Piece("src", 0, N)
  BY <1>1, <1>2, QhpTemplateBounds DEF N, Files
<1>6. \A l \in L : l \in Files /\ size[l] \in Nat /\ lists[l] = LinesOf(l, size[l])
  BY <1>4, QhpTemplateBounds DEF Names, Files
<1>7. \A l \in L : Len(lists[l]) \in Nat /\ lists[l] = Piece(l, 0, Len(lists[l]))
  BY <1>1, <1>6
<1>8. DOMAIN lists = L
  BY <1>4
<1> QED
  BY <1>5, <1>7, <1>8 DEF Init, Inv, Inputs

(* A list is put: all of it, or nothing when it cannot be read. *)
LEMMA ListIsPut ==
  ASSUME Inputs, NEW l \in Names, NEW here, NEW next, PutList(here, l, next)
  PROVE  Put(here, Listed(l), next)
<1>1. CASE l \in DOMAIN lists
  <2>1. Put(here, lists[l], next)
    BY <1>1 DEF PutList
  <2>2. lists[l] = Listed(l)
    BY <1>1 DEF Inputs, Listed, Entries
  <2> QED
    BY <2>1, <2>2
<1>2. CASE l \notin DOMAIN lists
  <2>1. Put(here, <<>>, next)
    BY <1>2 DEF PutList
  <2>2. Listed(l) = <<>>
    <3>1. Entries(l) = 0 /\ l \in Files
      BY <1>2 DEF Entries, Names, Files
    <3>2. Listed(l) \in Seq(Lines) /\ Len(Listed(l)) = 0
      BY <3>1, Pieces DEF Listed
    <3> QED
      BY <3>2, EmptySeq
  <2> QED
    BY <2>1, <2>2
<1> QED
  BY <1>1, <1>2

(* Every command of make-boost-qhp.sh puts the next piece. *)
LEMMA InvNext == ASSUME Inv, [Next]_vars PROVE Inv'
<1>1. CASE UNCHANGED vars
  BY <1>1 DEF vars, Inv, Inputs, N, First, Second, Third, Listed, Entries
<1>2. ASSUME UNCHANGED <<src, lists>>
      PROVE  /\ Inputs' /\ UNCHANGED First /\ UNCHANGED Second /\ UNCHANGED Third
             /\ UNCHANGED Listed("sections") /\ UNCHANGED Listed("files")
  BY <1>2 DEF Inv, Inputs, N, First, Second, Third, Listed, Entries
<1>3. /\ HeadLines(src, 9) = First
      /\ HeadLines(TailLines(src, 6), 3) = Second
      /\ TailLines(src, 3) = Third
  <2>1. N \in Nat /\ src = Piece("src", 0, N)
    BY DEF Inv, Inputs
  <2>2. /\ HeadLines(src, 9) = Piece("src", 0, AtMost(N, 9))
        /\ TailLines(src, 6) = Piece("src", 0 + (N - AtMost(N, 6)), AtMost(N, 6))
        /\ TailLines(src, 3) = Piece("src", 0 + (N - AtMost(N, 3)), AtMost(N, 3))
    BY <2>1, CutPiece DEF Files
  <2>3. /\ \A k \in {3, 6} : N - AtMost(N, k) \in Nat /\ 0 + (N - AtMost(N, k)) = N - AtMost(N, k)
        /\ AtMost(N, 6) \in Nat
    BY <2>1 DEF AtMost
  <2>4. HeadLines(Piece("src", N - AtMost(N, 6), AtMost(N, 6)), 3) = Second
    BY <2>3, CutPiece DEF Second, Files
  <2> QED
    BY <2>2, <2>3, <2>4 DEF First, Third
<1>4. ASSUME Next
      PROVE  \/ Write("head", First, "sections")
             \/ Put("sections", Listed("sections"), "middle")
             \/ Put("middle", Second, "files")
             \/ Put("files", Listed("files"), "tail")
             \/ Put("tail", Third, "end")
  BY <1>3, <1>4, ListIsPut DEF Next, Assemble, Inv, Names
<1>5. CASE Next
  BY <1>2, <1>4, <1>5 DEF Inv, Write, Put
<1> QED
  BY <1>1, <1>5

-----------------------------------------------------------------------------
(* What the lines of the assembled boost.qhp are. *)
H == AtMost(N, 9)
S == H + Entries("sections")
M == S + AtMost(AtMost(N, 6), 3)
F == M + Entries("files")
E == F + AtMost(N, 3)

Line(file, no) == [from |-> file, no |-> no]

(* Two sequences one after the other. *)
Joined(r, p, a, q, b, c) ==
  /\ r \in Seq(Lines) /\ Len(r) = c
  /\ \A i \in 1..a : r[i] = p[i]
  /\ \A i \in (a + 1)..c : r[i] = q[i - a] /\ i - a \in 1..b

LEMMA Joins ==
  ASSUME NEW p \in Seq(Lines), NEW q \in Seq(Lines), NEW a \in Nat, NEW b \in Nat, NEW c,
         Len(p) = a, Len(q) = b, c = a + b
  PROVE  Joined(p \o q, p, a, q, b, c)
<1>1. /\ p \o q \in Seq(Lines) /\ Len(p \o q) = a + b
      /\ \A i \in 1..(a + b) : (p \o q)[i] = IF i <= a THEN p[i] ELSE q[i - a]
  BY ConcatProperties
<1> QED
  BY <1>1 DEF Joined

(* What the lines of boost.qhp are, one by one. *)
LEMMA TheLines ==
  ASSUME Inv, pc = "end"
  PROVE  /\ N \in Nat /\ Entries("sections") \in Nat /\ Entries("files") \in Nat
         /\ Len(out) = E
         /\ \A i \in 1..H : out[i] = Line("src", i)
         /\ \A i \in (H + 1)..S : out[i] = Line("sections", i - H)
         /\ \A i \in (S + 1)..M : out[i] = Line("src", N - AtMost(N, 6) + (i - S))
         /\ \A i \in (M + 1)..F : out[i] = Line("files", i - M)
         /\ \A i \in (F + 1)..E : out[i] = Line("src", N - AtMost(N, 3) + (i - F))
<1>1. N \in Nat /\ Entries("sections") \in Nat /\ Entries("files") \in Nat
  BY DEF Inv, Inputs, Entries, Names
<1>2. /\ AtMost(N, 9) \in Nat /\ AtMost(AtMost(N, 6), 3) \in Nat /\ AtMost(N, 3) \in Nat
      /\ N - AtMost(N, 6) \in Nat /\ N - AtMost(N, 3) \in Nat
  BY <1>1 DEF AtMost
<1>3. /\ First \in Seq(Lines) /\ Len(First) = H
      /\ \A i \in 1..H : First[i] = Line("src", 0 + i)
  BY <1>1, <1>2, Pieces DEF Files, First, H, Line
<1>4. /\ Listed("sections") \in Seq(Lines) /\ Len(Listed("sections")) = Entries("sections")
      /\ \A i \in 1..Entries("sections") : Listed("sections")[i] = Line("sections", 0 + i)
  BY <1>1, Pieces DEF Files, Listed, Line
<1>5. /\ Second \in Seq(Lines) /\ Len(Second) = AtMost(AtMost(N, 6), 3)
      /\ \A i \in 1..AtMost(AtMost(N, 6), 3) :
           Second[i] = Line("src", (N - AtMost(N, 6)) + i)
  BY <1>1, <1>2, Pieces DEF Files, Second, Line
<1>6. /\ Listed("files") \in Seq(Lines) /\ Len(Listed("files")) = Entries("files")
      /\ \A i \in 1..Entries("files") : Listed("files")[i] = Line("files", 0 + i)
  BY <1>1, Pieces DEF Files, Listed, Line
<1>7. /\ Third \in Seq(Lines) /\ Len(Third) = AtMost(N, 3)
      /\ \A i \in 1..AtMost(N, 3) : Third[i] = Line("src", (N - AtMost(N, 3)) + i)
  BY <1>1, <1>2, Pieces DEF Files, Third, Line
<1> DEFINE two == First \o Listed("sections")
           three == two \o Second
           four == three \o Listed("files")
           five == four \o Third
<1>8. H \in Nat /\ S \in Nat /\ M \in Nat /\ F \in Nat /\ E \in Nat
      /\ H <= S /\ S <= M /\ M <= F /\ F <= E
  BY <1>1, <1>2 DEF H, S, M, F, E
<1>9. /\ two \in Seq(Lines) /\ Len(two) = S /\ \A i \in 1..H : two[i] = First[i]
      /\ \A i \in (H + 1)..S : two[i] = Listed("sections")[i - H] /\ i - H \in 1..Entries("sections")
  <2>1. S = H + Entries("sections")
    BY DEF S
  <2>2. /\ First \in Seq(Lines) /\ Listed("sections") \in Seq(Lines) /\ H \in Nat
        /\ Entries("sections") \in Nat /\ Len(First) = H
        /\ Len(Listed("sections")) = Entries("sections")
    BY <1>1, <1>3, <1>4, <1>8
  <2>3. Joined(two, First, H, Listed("sections"), Entries("sections"), S)
    BY Zenon, <2>1, <2>2, Joins
  <2> QED
    BY <2>3 DEF Joined
<1> HIDE DEF two
<1>10. /\ three \in Seq(Lines) /\ Len(three) = M /\ \A i \in 1..S : three[i] = two[i]
       /\ \A i \in (S + 1)..M : three[i] = Second[i - S] /\ i - S \in 1..AtMost(AtMost(N, 6), 3)
  <2>1. M = S + AtMost(AtMost(N, 6), 3)
    BY DEF M
  <2>2. /\ two \in Seq(Lines) /\ Second \in Seq(Lines) /\ S \in Nat /\ Len(two) = S
        /\ AtMost(AtMost(N, 6), 3) \in Nat /\ Len(Second) = AtMost(AtMost(N, 6), 3)
    BY <1>2, <1>5, <1>8, <1>9
  <2>3. Joined(three, two, S, Second, AtMost(AtMost(N, 6), 3), M)
    BY Zenon, <2>1, <2>2, Joins
  <2> QED
    BY <2>3 DEF Joined
<1> HIDE DEF three
<1>11. /\ four \in Seq(Lines) /\ Len(four) = F /\ \A i \in 1..M : four[i] = three[i]
       /\ \A i \in (M + 1)..F : four[i] = Listed("files")[i - M] /\ i - M \in 1..Entries("files")
  <2>1. F = M + Entries("files")
    BY DEF F
  <2>2. /\ three \in Seq(Lines) /\ Listed("files") \in Seq(Lines) /\ M \in Nat
        /\ Entries("files") \in Nat /\ Len(three) = M
        /\ Len(Listed("files")) = Entries("files")
    BY <1>1, <1>6, <1>8, <1>10
  <2>3. Joined(four, three, M, Listed("files"), Entries("files"), F)
    BY Zenon, <2>1, <2>2, Joins
  <2> QED
    BY <2>3 DEF Joined
<1> HIDE DEF four
<1>12. /\ five \in Seq(Lines) /\ Len(five) = E /\ \A i \in 1..F : five[i] = four[i]
       /\ \A i \in (F + 1)..E : five[i] = Third[i - F] /\ i - F \in 1..AtMost(N, 3)
  <2>1. E = F + AtMost(N, 3)
    BY DEF E
  <2>2. /\ four \in Seq(Lines) /\ Third \in Seq(Lines) /\ F \in Nat /\ Len(four) = F
        /\ AtMost(N, 3) \in Nat /\ Len(Third) = AtMost(N, 3)
    BY <1>2, <1>7, <1>8, <1>11
  <2>3. Joined(five, four, F, Third, AtMost(N, 3), E)
    BY Zenon, <2>1, <2>2, Joins
  <2> QED
    BY <2>3 DEF Joined
<1>13. out = five
  BY DEF Inv, two, three, four
<1> HIDE DEF five
<1>14. ASSUME NEW i \in 1..H PROVE out[i] = Line("src", i)
  <2>1. out[i] = First[i]
    <3>1. i \in 1..S /\ i \in 1..M /\ i \in 1..F
      BY <1>8
    <3>2. out[i] = two[i]
      BY Zenon, <1>10, <1>11, <1>12, <1>13, <3>1
    <3> QED
      BY Zenon, <1>9, <3>2
  <2> QED
    BY <1>3, <1>8, <2>1
<1>15. ASSUME NEW i \in (H + 1)..S PROVE out[i] = Line("sections", i - H)
  <2>1. out[i] = Listed("sections")[i - H] /\ i - H \in 1..Entries("sections")
    <3>1. i \in 1..S /\ i \in 1..M /\ i \in 1..F
      BY <1>8
    <3>2. out[i] = two[i]
      BY Zenon, <1>10, <1>11, <1>12, <1>13, <3>1
    <3> QED
      BY <1>8, <1>9, <3>2
  <2> QED
    BY <1>4, <1>8, <2>1
<1>16. ASSUME NEW i \in (S + 1)..M PROVE out[i] = Line("src", N - AtMost(N, 6) + (i - S))
  <2>1. out[i] = Second[i - S] /\ i - S \in 1..AtMost(AtMost(N, 6), 3)
    <3>1. i \in 1..M /\ i \in 1..F
      BY <1>8
    <3>2. out[i] = three[i]
      BY Zenon, <1>11, <1>12, <1>13, <3>1
    <3> QED
      BY <1>10, <3>2
  <2> QED
    BY <1>5, <1>8, <2>1
<1>17. ASSUME NEW i \in (M + 1)..F PROVE out[i] = Line("files", i - M)
  <2>1. out[i] = Listed("files")[i - M] /\ i - M \in 1..Entries("files")
    BY <1>8, <1>11, <1>12, <1>13
  <2> QED
    BY <1>6, <1>8, <2>1
<1>18. ASSUME NEW i \in (F + 1)..E PROVE out[i] = Line("src", N - AtMost(N, 3) + (i - F))
  BY <1>7, <1>8, <1>12, <1>13
<1> QED
  BY <1>1, <1>12, <1>13, <1>14, <1>15, <1>16, <1>17, <1>18

(* The pieces follow each other, and a line tells by its place which file  *)
(* it comes from.                                                          *)
LEMMA TheOrder ==
  ASSUME Inv, pc = "end"
  PROVE  /\ N \in Nat /\ H \in Nat /\ S \in Nat /\ M \in Nat /\ F \in Nat /\ E \in Nat
         /\ H <= S /\ S <= M /\ M <= F /\ F <= E
         /\ H = AtMost(N, 9) /\ M = S + AtMost(AtMost(N, 6), 3) /\ E = F + AtMost(N, 3)
<1>1. N \in Nat /\ Entries("sections") \in Nat /\ Entries("files") \in Nat
  BY TheLines
<1>2. AtMost(N, 9) \in Nat /\ AtMost(AtMost(N, 6), 3) \in Nat /\ AtMost(N, 3) \in Nat
  BY <1>1 DEF AtMost
<1> QED
  BY <1>1, <1>2 DEF H, S, M, F, E

(* How many numbers there are in a row. *)
LEMMA Interval ==
  ASSUME NEW a \in Int, NEW b \in Int, NEW n \in Nat, b = a + n - 1
  PROVE  IsFiniteSet(a..b) /\ Cardinality(a..b) = n
<1>1. /\ IsFiniteSet(a..b)
      /\ Cardinality(a..b) = IF a > b THEN 0 ELSE b - a + 1
  BY FS_Interval
<1> QED
  BY <1>1

OfTemplate(i) == i \in 1..H \/ i \in (S + 1)..M \/ i \in (F + 1)..E

LEMMA WhereFrom ==
  ASSUME Inv, pc = "end"
  PROVE  /\ Len(out) = E
         /\ \A i \in 1..Len(out) :
              /\ out[i].from \in Files
              /\ out[i].from = "src" <=> OfTemplate(i)
              /\ out[i].from = "sections" <=> i \in (H + 1)..S
              /\ out[i].from = "files" <=> i \in (M + 1)..F
<1>1. Len(out) = E
  BY TheLines
<1> SUFFICES ASSUME NEW i \in 1..E
             PROVE  /\ out[i].from \in Files
                    /\ out[i].from = "src" <=> OfTemplate(i)
                    /\ out[i].from = "sections" <=> i \in (H + 1)..S
                    /\ out[i].from = "files" <=> i \in (M + 1)..F
  BY <1>1
<1>2. \/ i \in 1..H \/ i \in (H + 1)..S \/ i \in (S + 1)..M \/ i \in (M + 1)..F
      \/ i \in (F + 1)..E
  BY TheOrder
<1>3. /\ OfTemplate(i) => out[i].from = "src"
      /\ i \in (H + 1)..S => out[i].from = "sections"
      /\ i \in (M + 1)..F => out[i].from = "files"
  <2>1. \A file, no : Line(file, no).from = file
    BY DEF Line
  <2>2. /\ i \in 1..H => out[i] = Line("src", i)
        /\ i \in (H + 1)..S => out[i] = Line("sections", i - H)
        /\ i \in (S + 1)..M => out[i] = Line("src", N - AtMost(N, 6) + (i - S))
        /\ i \in (M + 1)..F => out[i] = Line("files", i - M)
        /\ i \in (F + 1)..E => out[i] = Line("src", N - AtMost(N, 3) + (i - F))
    BY TheLines
  <2> QED
    BY <2>1, <2>2 DEF OfTemplate
<1> QED
  BY <1>2, <1>3 DEF Files, OfTemplate

-----------------------------------------------------------------------------
(* make-boost-qhp.sh puts the sections into the <section> of the template  *)
(* and the files into its <files>, for lists of any length: the first nine *)
(* lines of the template are in front of every section, the first twelve   *)
(* in front of every file.                                                 *)
THEOREM ListsArePlaced == Spec => []Placed
<1>1. ASSUME Inv, pc = "end", Len(src) = 15, NEW k \in 1..Len(out)
      PROVE  /\ out[k].from = "sections" => Above(k) = 9
             /\ out[k].from = "files" => Above(k) = 12
  <2>1. /\ H = 9 /\ M = S + 3 /\ E = F + 3 /\ Len(out) = E
        /\ S \in Nat /\ M \in Nat /\ F \in Nat /\ H <= S /\ M <= F
    BY <1>1, TheOrder, WhereFrom DEF N, AtMost
  <2>2. Above(k) = Cardinality({i \in 1..k : OfTemplate(i)})
    <3>1. \A i \in 1..k : i \in 1..Len(out)
      BY <1>1, <2>1
    <3>2. {i \in 1..k : out[i].from = "src"} = {i \in 1..k : OfTemplate(i)}
      BY <1>1, <3>1, WhereFrom
    <3> QED
      BY Zenon, <3>2 DEF Above
  <2>3. IsFiniteSet(1..9) /\ Cardinality(1..9) = 9
    <3>1. 1 \in Int /\ 9 \in Int /\ 9 \in Nat /\ 9 = 1 + 9 - 1
      OBVIOUS
    <3> QED
      BY Zenon, <3>1, Interval
  <2>4. ASSUME out[k].from = "sections" PROVE Above(k) = 9
    <3>1. k \in (H + 1)..S
      BY <1>1, <2>4, WhereFrom
    <3>2. {i \in 1..k : OfTemplate(i)} = 1..9
      BY <2>1, <3>1 DEF OfTemplate
    <3> QED
      BY Zenon, <2>2, <2>3, <3>2
  <2>5. ASSUME out[k].from = "files" PROVE Above(k) = 12
    <3> DEFINE A == 1..9
               B == (S + 1)..(S + 3)
    <3>1. k \in (M + 1)..F
      BY <1>1, <2>5, WhereFrom
    <3>2. {i \in 1..k : OfTemplate(i)} = A \cup B
      BY <2>1, <3>1 DEF OfTemplate
    <3>3. A \cap B = {}
      BY <2>1
    <3>4. IsFiniteSet(B) /\ Cardinality(B) = 3
      <4>1. S + 1 \in Int /\ S + 3 \in Int /\ 3 \in Nat /\ S + 3 = (S + 1) + 3 - 1
        BY <2>1
      <4> QED
        BY Zenon, <4>1, Interval
    <3>5. IsFiniteSet(A) /\ Cardinality(A) = 9
      BY <2>3
    <3> HIDE DEF A, B
    <3>6. Cardinality(A \cup B) = Cardinality(A) + Cardinality(B) - Cardinality(A \cap B)
      BY <3>4, <3>5, FS_Union
    <3>7. Cardinality(A \cap B) = 0
      BY Zenon, <3>3, FS_EmptySet
    <3>8. Cardinality(A \cup B) = 12
      BY <3>4, <3>5, <3>6, <3>7
    <3> QED
      BY Zenon, <2>2, <3>2, <3>8
  <2> QED
    BY <2>4, <2>5
<1>2. Inv => Placed
  BY <1>1 DEF Placed
<1>3. Inv /\ [Next]_vars => Inv'
  BY InvNext
<1> QED
  BY <1>2, <1>3, InvInit, PTL DEF Spec

-----------------------------------------------------------------------------
(* n lines of a file in a row, and no others of it, are a copy of it. *)
LEMMA InARow ==
  ASSUME NEW file, NEW a \in Nat, NEW n \in Nat, Len(out) \in Nat, a + n <= Len(out),
         \A i \in 1..Len(out) : out[i].from = file <=> i \in (a + 1)..(a + n),
         \A i \in (a + 1)..(a + n) : out[i].no = i - a
  PROVE  Copied(file, n)
<1>1. {out[i].no : i \in {j \in 1..Len(out) : out[j].from = file}} = 1..n
  <2>1. {j \in 1..Len(out) : out[j].from = file} = (a + 1)..(a + n)
    OBVIOUS
  <2>2. {out[i].no : i \in (a + 1)..(a + n)} = 1..n
    <3>1. \A i \in (a + 1)..(a + n) : out[i].no \in 1..n
      OBVIOUS
    <3>2. \A x \in 1..n : a + x \in (a + 1)..(a + n) /\ out[a + x].no = x
      OBVIOUS
    <3> QED
      BY <3>1, <3>2
  <2> QED
    BY Zenon, <2>1, <2>2
<1>2. ASSUME NEW i \in 1..Len(out), NEW j \in 1..Len(out),
             i < j, out[i].from = file, out[j].from = file
      PROVE  out[i].no < out[j].no
  BY <1>2
<1> QED
  BY <1>1, <1>2 DEF Copied

(* No line of a file is a copy of an empty one. *)
LEMMA NoneOfThem ==
  ASSUME NEW file, \A i \in 1..Len(out) : out[i].from # file
  PROVE  Copied(file, 0)
<1>1. 1..0 = {} /\ {j \in 1..Len(out) : out[j].from = file} = {}
  OBVIOUS
<1>2. {out[i].no : i \in {j \in 1..Len(out) : out[j].from = file}} = {}
  BY Zenon, <1>1
<1> QED
  BY <1>1, <1>2 DEF Copied

(* The numbers of the lines of the template, which are cut out of it at    *)
(* three places.                                                           *)
LEMMA TheNumbers ==
  ASSUME Inv, pc = "end"
  PROVE  /\ \A i \in 1..H : out[i].no = i
         /\ \A i \in (H + 1)..S : out[i].no = i - H
         /\ \A i \in (S + 1)..M : out[i].no = N - AtMost(N, 6) + (i - S)
         /\ \A i \in (M + 1)..F : out[i].no = i - M
         /\ \A i \in (F + 1)..E : out[i].no = N - AtMost(N, 3) + (i - F)
<1>1. \A file, no : Line(file, no).no = no
  BY DEF Line
<1> QED
  BY <1>1, TheLines

(* The lists get into boost.qhp as they are, the old one does not. *)
LEMMA ListsAreCopied ==
  ASSUME Inv, pc = "end"
  PROVE  Copied("old", 0) /\ \A l \in DOMAIN lists : Copied(l, Len(lists[l]))
<1>1. Len(out) = E /\ E \in Nat /\ H \in Nat /\ M \in Nat /\ S <= E /\ F <= E
  BY TheOrder, WhereFrom
<1>2. Copied("old", 0)
  <2>1. \A i \in 1..Len(out) : out[i].from # "old"
    BY WhereFrom DEF Files
  <2> QED
    BY <2>1, NoneOfThem
<1>3. ASSUME NEW l \in DOMAIN lists PROVE Copied(l, Len(lists[l]))
  <2>1. l \in Names /\ Entries(l) \in Nat /\ Entries(l) = Len(lists[l])
    BY <1>3 DEF Inv, Inputs, Entries
  <2>2. CASE l = "sections"
    <3>1. S = H + Entries("sections")
      BY DEF S
    <3>2. /\ \A i \in 1..Len(out) : out[i].from = "sections" <=> i \in (H + 1)..S
          /\ \A i \in (H + 1)..S : out[i].no = i - H
      BY WhereFrom, TheNumbers
    <3>3. Copied("sections", Entries("sections"))
      BY <1>1, <2>1, <2>2, <3>1, <3>2, InARow
    <3> QED
      BY <2>1, <2>2, <3>3
  <2>3. CASE l = "files"
    <3>1. F = M + Entries("files")
      BY DEF F
    <3>2. /\ \A i \in 1..Len(out) : out[i].from = "files" <=> i \in (M + 1)..F
          /\ \A i \in (M + 1)..F : out[i].no = i - M
      BY WhereFrom, TheNumbers
    <3>3. Copied("files", Entries("files"))
      BY <1>1, <2>1, <2>3, <3>1, <3>2, InARow
    <3> QED
      BY <2>1, <2>3, <3>3
  <2> QED
    BY <2>1, <2>2, <2>3 DEF Names
<1> QED
  BY <1>2, <1>3

(* Fifteen lines are cut into 1-9, 10-12 and 13-15, none are cut into none. *)
LEMMA FifteenLines ==
  ASSUME Inv, pc = "end", N \in {0, 15}
  PROVE  Copied("src", N)
<1>1. /\ Len(out) = E /\ E \in Nat /\ H \in Nat /\ S \in Nat /\ M \in Nat /\ F \in Nat
      /\ H <= S /\ S <= M /\ M <= F /\ F <= E
      /\ \A i \in 1..E : out[i].from = "src" <=> OfTemplate(i)
  BY TheOrder, WhereFrom
<1>2. CASE N = 0
  <2>1. H = 0 /\ M = S /\ E = F
    BY <1>1, <1>2, TheOrder DEF AtMost
  <2>2. \A i \in 1..Len(out) : out[i].from # "src"
    BY <1>1, <2>1 DEF OfTemplate
  <2>3. Copied("src", 0)
    BY <2>2, NoneOfThem
  <2> QED
    BY <1>2, <2>3
<1>3. CASE N = 15
  <2>1. H = 9 /\ M = S + 3 /\ E = F + 3
    BY <1>1, <1>3, TheOrder DEF AtMost
  <2>2. N - AtMost(N, 6) = 9 /\ N - AtMost(N, 3) = 12
    BY <1>3 DEF AtMost
  <2>3. /\ \A i \in 1..9 : out[i].no = i
        /\ \A i \in (S + 1)..(S + 3) : out[i].no = 9 + (i - S)
        /\ \A i \in (F + 1)..(F + 3) : out[i].no = 12 + (i - F)
    BY <2>1, <2>2, TheNumbers
  <2>4. \A i \in 1..E : out[i].from = "src" <=>
          i \in 1..9 \/ i \in (S + 1)..(S + 3) \/ i \in (F + 1)..(F + 3)
    BY <1>1, <2>1 DEF OfTemplate
  <2>5. ASSUME NEW i \in 1..E, out[i].from = "src" PROVE out[i].no \in 1..15
    <3>1. i \in 1..9 \/ i \in (S + 1)..(S + 3) \/ i \in (F + 1)..(F + 3)
      BY <2>4, <2>5
    <3>2. i \in 1..9 => out[i].no = i
      BY <2>3
    <3>3. i \in (S + 1)..(S + 3) => out[i].no = 9 + (i - S)
      BY <2>3
    <3>4. i \in (F + 1)..(F + 3) => out[i].no = 12 + (i - F)
      BY <2>3
    <3>5. CASE i \in 1..9
      BY <3>2, <3>5
    <3>6. CASE i \in (S + 1)..(S + 3)
      BY <1>1, <3>3, <3>6
    <3>7. CASE i \in (F + 1)..(F + 3)
      BY SMTT(30), <1>1, <3>4, <3>7
    <3> QED
      BY <3>1, <3>5, <3>6, <3>7
  <2>6. ASSUME NEW x \in 1..15 PROVE \E i \in 1..E : out[i].from = "src" /\ out[i].no = x
    <3>1. CASE x <= 9
      BY <1>1, <2>1, <2>3, <2>4, <3>1
    <3>2. CASE x > 9 /\ x <= 12
      <4> DEFINE i == S + (x - 9)
      <4>1. i \in (S + 1)..(S + 3) /\ i \in 1..E /\ 9 + (i - S) = x
        BY <1>1, <2>1, <3>2
      <4> HIDE DEF i
      <4>2. out[i].no = 9 + (i - S)
        BY <2>3, <4>1
      <4>3. out[i].from = "src"
        BY <2>4, <4>1
      <4> QED
        BY <4>1, <4>2, <4>3
    <3>3. CASE x > 12
      <4> DEFINE i == F + (x - 12)
      <4>1. i \in (F + 1)..(F + 3) /\ i \in 1..E /\ 12 + (i - F) = x
        BY <1>1, <2>1, <3>3
      <4> HIDE DEF i
      <4>2. out[i].no = 12 + (i - F)
        BY <2>3, <4>1
      <4>3. out[i].from = "src"
        BY <2>4, <4>1
      <4> QED
        BY <4>1, <4>2, <4>3
    <3> QED
      BY <3>1, <3>2, <3>3
  <2>7. {out[i].no : i \in {j \in 1..Len(out) : out[j].from = "src"}} = 1..15
    <3>1. Len(out) = E
      BY <1>1
    <3> QED
      BY ZenonT(60), <2>5, <2>6, <3>1
  <2>8. ASSUME NEW i \in 1..E, NEW j \in 1..E, i < j, out[i].from = "src", out[j].from = "src"
        PROVE  out[i].no < out[j].no
    <3>1. \A h \in {i, j} :
            \/ h \in 1..9 /\ out[h].no = h
            \/ h \in (S + 1)..(S + 3) /\ out[h].no = 9 + (h - S)
            \/ h \in (F + 1)..(F + 3) /\ out[h].no = 12 + (h - F)
      BY <2>3, <2>4, <2>8
    <3> QED
      BY <1>1, <2>1, <2>8, <3>1
  <2> QED
    BY <1>1, <1>3, <2>7, <2>8 DEF Copied
<1> QED
  BY <1>2, <1>3

(* A shorter template has a line that two pieces share, in a longer one    *)
(* line 10 is in none.                                                     *)
LEMMA OtherLengths ==
  ASSUME Inv, pc = "end", N \notin {0, 15}
  PROVE  ~Copied("src", N)
<1>1. /\ Len(out) = E /\ N \in Nat /\ E \in Nat /\ H \in Nat /\ S \in Nat /\ M \in Nat
      /\ F \in Nat /\ H <= S /\ S <= M /\ M <= F /\ F <= E
      /\ H = AtMost(N, 9) /\ M = S + AtMost(AtMost(N, 6), 3) /\ E = F + AtMost(N, 3)
      /\ \A i \in 1..E : out[i].from = "src" <=> OfTemplate(i)
  BY TheOrder, WhereFrom
<1>2. ASSUME NEW i \in 1..E, NEW j \in 1..E, i < j, OfTemplate(i), OfTemplate(j),
             out[i].no = out[j].no, out[i].no \in Nat
      PROVE  ~Copied("src", N)
  <2>1. out[i].from = "src" /\ out[j].from = "src"
    BY <1>1, <1>2
  <2>2. Copied("src", N) => out[i].no < out[j].no
    BY <1>1, <1>2, <2>1 DEF Copied
  <2> QED
    BY <1>2, <2>2
<1>3. CASE N <= 9
  <2>1. N \in 1..H /\ E \in (F + 1)..E /\ H = N /\ N < E /\ N \in 1..E /\ E \in 1..E
    BY <1>1, <1>3 DEF AtMost
  <2>2. out[N].no = N /\ out[E].no = N - AtMost(N, 3) + (E - F)
    <3>1. /\ \A i \in 1..H : out[i].no = i
          /\ \A i \in (F + 1)..E : out[i].no = N - AtMost(N, 3) + (i - F)
      BY TheNumbers
    <3> QED
      BY Zenon, <2>1, <3>1
  <2>3. N - AtMost(N, 3) + (E - F) = N
    BY <1>1, <1>3 DEF AtMost
  <2> QED
    BY <1>1, <1>2, <2>1, <2>2, <2>3 DEF OfTemplate
<1>4. CASE N > 9 /\ N < 15
  <2> DEFINE i == N - 5
             j == S + 1
  <2>1. /\ i \in 1..H /\ i \in 1..E /\ i \in Nat /\ j \in (S + 1)..M /\ j \in 1..E /\ i < j
        /\ N - AtMost(N, 6) + (j - S) = i
    BY <1>1, <1>4 DEF AtMost
  <2> HIDE DEF i, j
  <2>2. out[i].no = i /\ out[j].no = N - AtMost(N, 6) + (j - S)
    BY <2>1, TheNumbers
  <2> QED
    BY <1>2, <2>1, <2>2 DEF OfTemplate
<1>5. CASE N > 15
  <2>1. /\ H = 9 /\ M = S + 3 /\ E = F + 3
        /\ N - AtMost(N, 6) = N - 6 /\ N - AtMost(N, 3) = N - 3
    BY <1>1, <1>5 DEF AtMost
  <2>2. ASSUME NEW i \in 1..E, OfTemplate(i) PROVE out[i].no # 10
    <3>1. CASE i \in 1..H
      BY <2>1, <3>1, TheNumbers
    <3>2. CASE i \in (S + 1)..M
      <4>1. out[i].no = N - 6 + (i - S)
        BY <2>1, <3>2, TheNumbers
      <4> QED
        BY <1>1, <1>5, <3>2, <4>1
    <3>3. CASE i \in (F + 1)..E
      <4>1. out[i].no = N - 3 + (i - F)
        BY <2>1, <3>3, TheNumbers
      <4> QED
        BY SMTT(30), <1>1, <1>5, <3>3, <4>1
    <3> QED
      BY <2>2, <3>1, <3>2, <3>3 DEF OfTemplate
  <2>3. 10 \notin {out[i].no : i \in {j \in 1..Len(out) : out[j].from = "src"}}
    BY <1>1, <2>2
  <2>4. 10 \in 1..N
    BY <1>1, <1>5
  <2> QED
    BY <2>3, <2>4 DEF Copied
<1> QED
  BY <1>1, <1>3, <1>4, <1>5

(* "DO NOT EVER CHANGE THE SOURCE": the 15 lines of boost.qhpsrc get into  *)
(* boost.qhp once and in order, of a template of any other length that is  *)
(* not empty lines are lost or repeated; the lists are copied whatever     *)
(* their length, and nothing of an old boost.qhp is left.                  *)
THEOREM OnlyFifteenLines == Spec => []Intact
<1>1. Inv => Intact
  <2> SUFFICES ASSUME Inv, pc = "end"
               PROVE  /\ Copied("src", N) <=> N \in {0, 15}
                      /\ Copied("old", 0)
                      /\ \A l \in DOMAIN lists : Copied(l, Len(lists[l]))
    BY DEF Intact, N
  <2> QED
    BY ListsAreCopied, FifteenLines, OtherLengths
<1>2. Inv /\ [Next]_vars => Inv'
  BY InvNext
<1> QED
  BY <1>1, <1>2, InvInit, PTL DEF Spec
=============================================================================
