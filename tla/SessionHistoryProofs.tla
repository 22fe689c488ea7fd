------------------------ MODULE SessionHistoryProofs ------------------------
(***************************************************************************)
(* What holds of a tab's history, for any number of screens, entries,      *)
(* surfaces, steps and panels.                                             *)
(*                                                                         *)
(* A serial counts the entries of its document (Serials), so that a row of *)
(* the trail, which has a serial only, names an entry (Rows).  While       *)
(* nothing has strayed, every entry of a surface or panel has behind it    *)
(* those it lies on, down to a screen's (Stacked), and at most one         *)
(* traversal is on its way, to an entry that is there (Asks).  So a Back   *)
(* takes the top, no Back is dead, and a jump arrives.                     *)
(***************************************************************************)
EXTENDS SessionHistory, SequenceTheorems, FiniteSetTheorems, TLAPS

(***************************************************************************)
(* The invariant.                                                          *)
(***************************************************************************)
\* An entry's serial counts the entries of its document behind it; its depth and its
\* panels are among them; a later document has a higher number.
SerialAt(es, i) ==
  /\ es[i].seq < i
  /\ es[i].depth <= es[i].seq
  /\ es[i].panel <= es[i].seq
  /\ \A j \in (i - es[i].seq) .. i : /\ es[j].doc = es[i].doc
                                     /\ es[j].seq = es[i].seq - (i - j)
  /\ \A j \in 1 .. i : es[j].doc <= es[i].doc
  /\ i > 1 /\ es[i].seq = 0 => es[i - 1].doc < es[i].doc
Serials == /\ \A i \in DOMAIN entries : SerialAt(entries, i)
           /\ ~mixed => \A i \in DOMAIN entries : entries[i].seq = i - 1

\* A row of the trail names the screen of the entry with its serial.
Rows ==
  ~mixed => \A r \in trail : /\ r.seq + 1 \in DOMAIN entries
                             /\ entries[r.seq + 1].path = r.path

\* Only the first surface steps, and only it can be open without answering.
FirstSteps ==
  \A i \in DOMAIN surfaces : i > 1 => surfaces[i].steps = 0 /\ surfaces[i].answers = TRUE

PanelsBehind == panels <= Here.panel

\* What the entries of surfaces and panels stand on.
StackAt(es, i) ==
  /\ es[i].over + es[i].panel <= es[i].seq
  /\ \A j \in (i - (es[i].over + es[i].panel)) .. i :
       es[j].path = es[i].path /\ es[j].over <= es[i].over /\ es[j].panel <= es[i].panel
  /\ es[i].kind = "route" =>
       /\ es[i].over = 0 /\ es[i].panel = 0
       /\ \A j \in (i - es[i].seq) .. i : es[j].kind = "route"
  /\ es[i].kind = "surface" =>
       es[i].over >= 1 /\ es[i].over = es[i - 1].over + 1 /\ es[i].panel = es[i - 1].panel
  /\ es[i].kind = "panel" =>
       es[i].panel >= 1 /\ es[i].over = es[i - 1].over /\ es[i].panel = es[i - 1].panel + 1
Stacked == \A i \in DOMAIN entries : StackAt(entries, i)

AllAnswer == \A i \in DOMAIN surfaces : surfaces[i].answers = TRUE

\* Here is the entry of what is open.
Level(n) == Here.over = n /\ Here.panel = panels

\* What the app asked for, at most one traversal, and where it goes.
Asks ==
  IF Quiet THEN Level(Len(surfaces))
  ELSE /\ Len(going) = 1
       /\ LET g == going[1] IN
          IF ~g.own THEN Level(Len(surfaces)) /\ g.by \in {-1, 1}
          ELSE /\ g.by < 0 /\ -g.by <= Here.seq
               /\ ~mixed => entries[cur + g.by].path = g.to
               /\ CASE Here.kind = "route"   -> Level(Len(surfaces))
                    [] Here.kind = "surface" -> Level(Len(surfaces) + 1) /\ g.by = -1
                    [] Here.kind = "panel"   -> Level(Len(surfaces)) /\ g.by \in {-1, -panels}

InStep == Stacked /\ AllAnswer /\ Asks
Straight == ~strayed => InStep

IInv == /\ TypeOK /\ AddressIsShown /\ Serials /\ Rows /\ FirstSteps
        /\ PanelsBehind /\ Straight

(***************************************************************************)
(* Types, and what the types give.                                         *)
(***************************************************************************)
Surface == [steps : 0..MaxSteps, answers : BOOLEAN]
Row == [seq : 0..MaxEntries, path : Screens]
Asking == [by : (-MaxEntries)..MaxEntries, own : BOOLEAN, to : Screens]

LEMMA Bounds ==
  /\ Shelf \in Screens
  /\ Offered \in Nat /\ TrailMax \in Nat /\ MaxEntries \in Nat /\ MaxDocs \in Nat
  /\ MaxEntries >= 1 /\ MaxDocs >= 1
  /\ MaxSurfaces \in Nat /\ MaxSteps \in Nat /\ MaxPanels \in Nat
BY HistoryAssumption

LEMMA TypeFacts ==
  ASSUME TypeOK
  PROVE  /\ entries \in Seq(Entry) /\ Len(entries) \in Nat /\ DOMAIN entries = 1 .. Len(entries)
         /\ Len(entries) >= 1 /\ Len(entries) <= MaxEntries
         /\ cur \in Nat /\ cur >= 1 /\ cur <= Len(entries)
         /\ \A i \in 1 .. Len(entries) : entries[i] \in Entry
         /\ Here \in Entry
         /\ surfaces \in Seq(Surface) /\ Len(surfaces) \in Nat
         /\ DOMAIN surfaces = 1 .. Len(surfaces)
         /\ \A i \in 1 .. Len(surfaces) : surfaces[i] \in Surface
         /\ panels \in Nat /\ panels <= MaxPanels
         /\ trail \subseteq Row /\ shown \in Screens
<1>1. entries \in Seq(Entry) /\ Len(entries) \in Nat /\ DOMAIN entries = 1 .. Len(entries)
  BY DEF TypeOK
<1>2. /\ Len(entries) >= 1 /\ Len(entries) <= MaxEntries
      /\ cur \in Nat /\ cur >= 1 /\ cur <= Len(entries)
  BY <1>1, Bounds DEF TypeOK
<1>3. \A i \in 1 .. Len(entries) : entries[i] \in Entry
  BY <1>1
<1>4. Here \in Entry
  BY <1>2, <1>3 DEF Here
<1>5. surfaces \in Seq(Surface)
  BY DEF TypeOK, Surface
<1>6. panels \in Nat /\ panels <= MaxPanels /\ trail \subseteq Row /\ shown \in Screens
  BY Bounds DEF TypeOK, Row
<1> QED BY <1>1, <1>2, <1>3, <1>4, <1>5, <1>6

LEMMA EntryFacts ==
  ASSUME NEW e \in Entry
  PROVE  /\ e.path \in Screens
         /\ e.depth \in Nat /\ e.depth <= MaxEntries
         /\ e.seq \in Nat /\ e.seq <= MaxEntries
         /\ e.over \in Nat /\ e.over <= MaxSurfaces
         /\ e.panel \in Nat /\ e.panel <= MaxPanels
         /\ e.doc \in Nat /\ e.doc >= 1 /\ e.doc <= MaxDocs
         /\ e.kind \in {"route", "surface", "panel"}
BY Bounds DEF Entry

\* An entry put behind the first c others.
LEMMA PutBehind ==
  ASSUME NEW S, NEW s \in Seq(S), NEW c \in 0 .. Len(s), NEW e \in S
  PROVE  LET t == Append(SubSeq(s, 1, c), e) IN
         /\ t \in Seq(S) /\ Len(t) = c + 1 /\ DOMAIN t = 1 .. (c + 1)
         /\ \A i \in 1 .. c : t[i] = s[i]
         /\ t[c + 1] = e
<1>1. /\ SubSeq(s, 1, c) \in Seq(S) /\ Len(SubSeq(s, 1, c)) = c
      /\ \A i \in 1 .. c : SubSeq(s, 1, c)[i] = s[i]
  BY SubSeqProperties
<1> QED BY <1>1, AppendProperties

\* The first c of a list.
LEMMA FirstOnes ==
  ASSUME NEW S, NEW s \in Seq(S), NEW c \in 0 .. Len(s)
  PROVE  /\ SubSeq(s, 1, c) \in Seq(S) /\ Len(SubSeq(s, 1, c)) = c
         /\ DOMAIN SubSeq(s, 1, c) = 1 .. c
         /\ \A i \in 1 .. c : SubSeq(s, 1, c)[i] = s[i]
BY SubSeqProperties

(***************************************************************************)
(* Surfaces that answer, and those a pop closes.                           *)
(***************************************************************************)
LEMMA UpTo ==
  ASSUME NEW n \in Nat
  PROVE  IsFiniteSet(1 .. n) /\ Cardinality(1 .. n) = n
<1>1. n \in Int /\ 1 \in Int
  OBVIOUS
<1>2. IsFiniteSet(1 .. n) /\ Cardinality(1 .. n) = IF 1 > n THEN 0 ELSE n - 1 + 1
  BY <1>1, FS_Interval
<1> QED BY <1>2

LEMMA AnsweringBound ==
  ASSUME TypeOK
  PROVE  /\ Answering \in Nat /\ Answering <= Len(surfaces)
         /\ AllAnswer => Answering = Len(surfaces)
<1> DEFINE A == {i \in DOMAIN surfaces : surfaces[i].answers}
<1>1. DOMAIN surfaces = 1 .. Len(surfaces) /\ Len(surfaces) \in Nat
  BY TypeFacts
<1>2. IsFiniteSet(1 .. Len(surfaces)) /\ Cardinality(1 .. Len(surfaces)) = Len(surfaces)
  BY <1>1, UpTo
<1>3. A \subseteq 1 .. Len(surfaces)
  BY <1>1
<1>4. Cardinality(A) \in Nat /\ Cardinality(A) <= Len(surfaces)
  BY <1>2, <1>3, FS_Subset, FS_CardinalityType
<1>5. AllAnswer => A = 1 .. Len(surfaces)
  BY <1>1 DEF AllAnswer
<1> QED BY <1>2, <1>4, <1>5 DEF Answering

\* The place of a surface among those that answer.
LEMMA RankOf ==
  ASSUME TypeOK, FirstSteps, NEW i \in DOMAIN surfaces
  PROVE  Rank(i) = IF surfaces[1].answers THEN i ELSE i - 1
<1>1. DOMAIN surfaces = 1 .. Len(surfaces) /\ Len(surfaces) \in Nat /\ i \in 1 .. Len(surfaces)
  BY TypeFacts
<1>2. \A j \in 2 .. i : surfaces[j].answers = TRUE
  BY <1>1 DEF FirstSteps
<1>3. CASE surfaces[1].answers
  <2>1. {j \in 1 .. i : surfaces[j].answers} = 1 .. i
    BY <1>1, <1>2, <1>3
  <2>2. i \in Int /\ 1 \in Int /\ i >= 1
    BY <1>1
  <2>3. Cardinality(1 .. i) = i
    BY <2>2, FS_Interval
  <2> QED BY <1>3, <2>1, <2>3 DEF Rank
<1>4. CASE ~surfaces[1].answers
  <2>1. {j \in 1 .. i : surfaces[j].answers} = 2 .. i
    BY <1>1, <1>2, <1>4
  <2>2. i \in Int /\ 2 \in Int /\ i >= 1
    BY <1>1
  <2>3. Cardinality(2 .. i) = i - 1
    BY <2>2, FS_Interval
  <2> QED BY <1>4, <2>1, <2>3 DEF Rank
<1> QED BY <1>3, <1>4

\* What a pop leaves of one surface.
LEMMA OpenAt ==
  ASSUME TypeOK, NEW want \in Nat
  PROVE  /\ DOMAIN BackPopOpen(want) = 1 .. Len(surfaces)
         /\ BackPopOpen(want) \in Seq([steps : -1 .. MaxSteps, answers : BOOLEAN])
         /\ Len(BackPopOpen(want)) = Len(surfaces)
         /\ \A i \in 1 .. Len(surfaces) :
              /\ Deeper(i, want) => BackPopOpen(want)[i] =
                                      [steps |-> surfaces[i].steps - 1, answers |-> FALSE]
              /\ ~Deeper(i, want) => BackPopOpen(want)[i] = surfaces[i]
<1> DEFINE T == [steps : -1 .. MaxSteps, answers : BOOLEAN]
<1>1. /\ DOMAIN surfaces = 1 .. Len(surfaces) /\ Len(surfaces) \in Nat /\ MaxSteps \in Nat
      /\ \A i \in 1 .. Len(surfaces) : surfaces[i] \in Surface
  BY TypeFacts, Bounds
<1>2. \A i \in 1 .. Len(surfaces) :
        /\ surfaces[i] \in T
        /\ [steps |-> surfaces[i].steps - 1, answers |-> FALSE] \in T
  BY <1>1 DEF Surface
<1>3. \A i \in 1 .. Len(surfaces) :
              /\ Deeper(i, want) => BackPopOpen(want)[i] =
                                      [steps |-> surfaces[i].steps - 1, answers |-> FALSE]
              /\ ~Deeper(i, want) => BackPopOpen(want)[i] = surfaces[i]
  BY <1>1 DEF BackPopOpen
<1>4. BackPopOpen(want) \in [1 .. Len(surfaces) -> T]
  BY <1>1, <1>2 DEF BackPopOpen
<1>5. BackPopOpen(want) \in Seq(T) /\ Len(BackPopOpen(want)) = Len(surfaces)
  <2> HIDE DEF T
  <2>1. \A f \in [1 .. Len(surfaces) -> T] : f \in Seq(T) /\ Len(f) = Len(surfaces)
    BY <1>1
  <2> QED BY <1>4, <2>1
<1> QED BY <1>3, <1>4, <1>5

\* The surfaces a pop leaves open are the first ones.
LEMMA LeftOpen ==
  ASSUME TypeOK, FirstSteps, NEW want \in Nat
  PROVE  \E k \in 0 .. Len(surfaces) :
           /\ BackPop(want) = SubSeq(BackPopOpen(want), 1, k)
           /\ \A i \in 1 .. Len(surfaces) : i <= k <=> BackPopOpen(want)[i].steps >= 0
<1> DEFINE n == Len(surfaces)
           O == BackPopOpen(want)
           K == {i \in DOMAIN surfaces : O[i].steps >= 0}
<1>1. /\ DOMAIN surfaces = 1 .. n /\ n \in Nat /\ MaxSteps \in Nat
      /\ \A i \in 1 .. n : surfaces[i] \in Surface
  BY TypeFacts, Bounds
<1>2. \A i \in 1 .. n : surfaces[i].steps \in Nat
  BY <1>1 DEF Surface
<1>3. \A i \in 2 .. n : surfaces[i].steps = 0 /\ surfaces[i].answers = TRUE
  BY <1>1 DEF FirstSteps
<1>4. \A i \in 1 .. n : Rank(i) = IF surfaces[1].answers THEN i ELSE i - 1
  BY <1>1, RankOf
<1>5. \A i \in 1 .. n : O[i].steps >= 0 <=> ~Deeper(i, want) \/ surfaces[i].steps > 0
  <2> SUFFICES ASSUME NEW i \in 1 .. n
               PROVE  O[i].steps >= 0 <=> ~Deeper(i, want) \/ surfaces[i].steps > 0
    OBVIOUS
  <2>1. CASE Deeper(i, want)
    <3>1. O[i] = [steps |-> surfaces[i].steps - 1, answers |-> FALSE]
      BY <2>1, OpenAt
    <3>2. O[i].steps = surfaces[i].steps - 1
      BY <3>1
    <3> QED BY <1>2, <2>1, <3>2
  <2>2. CASE ~Deeper(i, want)
    <3>1. O[i] = surfaces[i]
      BY <2>2, OpenAt
    <3> QED BY <1>2, <2>2, <3>1
  <2> QED BY <2>1, <2>2
<1>6. \A i \in 2 .. n : O[i].steps >= 0 <=> Rank(i) <= want
  BY <1>3, <1>5, <1>4 DEF Deeper
<1>7. \E k \in 0 .. n : \A i \in 1 .. n : i <= k <=> O[i].steps >= 0
  <2> HIDE DEF O, K
  <2>1. CASE n = 0
    BY <2>1
  <2>2. CASE n >= 1 /\ ~(O[1].steps >= 0)
    <3>1. Deeper(1, want) /\ 1 \in 1 .. n
      BY <1>1, <1>5, <2>2
    <3>2. surfaces[1].answers /\ Rank(1) > want
      BY <3>1 DEF Deeper
    <3>3. want = 0
      BY <3>1, <3>2, <1>4
    <3>4. \A i \in 2 .. n : ~(O[i].steps >= 0)
      BY <1>1, <1>4, <1>6, <3>2, <3>3
    <3>5. \A i \in 1 .. n : i <= 0 <=> O[i].steps >= 0
      BY <1>1, <2>2, <3>4
    <3> QED BY <1>1, <3>5
  <2>3. CASE n >= 1 /\ O[1].steps >= 0 /\ surfaces[1].answers
    <3>1. \A i \in 2 .. n : O[i].steps >= 0 <=> i <= want
      BY <1>1, <1>4, <1>6, <2>3
    <3>2. CASE want >= n
      <4>1. \A i \in 1 .. n : i <= n <=> O[i].steps >= 0
        BY <1>1, <2>3, <3>1, <3>2
      <4> QED BY <4>1, <1>1
    <3>3. CASE want < n /\ want >= 1
      <4>1. \A i \in 1 .. n : i <= want <=> O[i].steps >= 0
        BY <1>1, <2>3, <3>1, <3>3
      <4> QED BY <4>1, <1>1, <3>3
    <3>4. CASE want = 0
      <4>1. \A i \in 1 .. n : i <= 1 <=> O[i].steps >= 0
        BY <1>1, <2>3, <3>1, <3>4
      <4> QED BY <4>1, <1>1, <2>3
    <3> QED BY <1>1, <3>2, <3>3, <3>4
  <2>4. CASE n >= 1 /\ O[1].steps >= 0 /\ ~surfaces[1].answers
    <3>1. \A i \in 2 .. n : O[i].steps >= 0 <=> i <= want + 1
      BY <1>1, <1>4, <1>6, <2>4
    <3>2. CASE want + 1 >= n
      <4>1. \A i \in 1 .. n : i <= n <=> O[i].steps >= 0
        BY <1>1, <2>4, <3>1, <3>2
      <4> QED BY <4>1, <1>1
    <3>3. CASE want + 1 < n
      <4>1. \A i \in 1 .. n : i <= want + 1 <=> O[i].steps >= 0
        BY <1>1, <2>4, <3>1, <3>3
      <4> QED BY <4>1, <1>1, <3>3
    <3>4. want + 1 >= n \/ want + 1 < n
      BY <1>1
    <3> QED BY <3>2, <3>3, <3>4
  <2> QED BY <1>1, <2>1, <2>2, <2>3, <2>4
<1>8. PICK k \in 0 .. n : \A i \in 1 .. n : i <= k <=> O[i].steps >= 0
  BY <1>7
<1>9. K = 1 .. k
  BY <1>1, <1>8
<1>10. Cardinality(K) = k
  <2>1. k \in Nat
    BY <1>1
  <2>2. Cardinality(1 .. k) = k
    BY <2>1, UpTo
  <2> QED BY <1>9, <2>2
<1>11. BackPop(want) = SubSeq(O, 1, Cardinality(K))
  BY DEF BackPop
<1> QED BY <1>8, <1>10, <1>11

LEMMA BackPopType ==
  ASSUME TypeOK, FirstSteps, NEW want \in Nat
  PROVE  /\ BackPop(want) \in Seq(Surface)
         /\ DOMAIN BackPop(want) = 1 .. Len(BackPop(want))
         /\ \A i \in DOMAIN BackPop(want) :
              i > 1 => BackPop(want)[i].steps = 0 /\ BackPop(want)[i].answers = TRUE
<1> DEFINE O == BackPopOpen(want)
           T == [steps : -1 .. MaxSteps, answers : BOOLEAN]
           B == BackPop(want)
<1>1. PICK k \in 0 .. Len(surfaces) :
           /\ B = SubSeq(O, 1, k)
           /\ \A i \in 1 .. Len(surfaces) : i <= k <=> O[i].steps >= 0
  BY LeftOpen
<1>2. Len(surfaces) \in Nat /\ DOMAIN surfaces = 1 .. Len(surfaces)
  BY TypeFacts
<1>3. O \in Seq(T) /\ Len(O) = Len(surfaces)
  BY OpenAt
<1>4. B \in Seq(T) /\ Len(B) = k /\ DOMAIN B = 1 .. k /\ \A i \in 1 .. k : B[i] = O[i]
  <2> HIDE DEF T, O, B
  <2>1. k \in 0 .. Len(O)
    BY <1>3
  <2> QED BY <1>1, <1>3, <2>1, FirstOnes
<1>5. \A i \in 1 .. k : O[i] \in T /\ O[i].steps >= 0
  BY <1>1, <1>2, <1>4
<1>6. \A x \in T : x.steps >= 0 => x \in Surface
  BY Bounds DEF Surface
<1>7. \A i \in 1 .. Len(B) : B[i] \in Surface
  BY <1>4, <1>5, <1>6
<1>8. B \in Seq(Surface)
  BY <1>4, <1>7, SeqDef
<1>9. ASSUME NEW i \in DOMAIN B, i > 1
      PROVE  B[i].steps = 0 /\ B[i].answers = TRUE
  <2>1. i \in 2 .. Len(surfaces) /\ i \in 1 .. Len(surfaces) /\ B[i] = O[i] /\ O[i].steps >= 0
    BY <1>2, <1>4, <1>5, <1>9
  <2>2. surfaces[i].steps = 0 /\ surfaces[i].answers = TRUE
    BY <1>2, <2>1 DEF FirstSteps
  <2>3. CASE Deeper(i, want)
    <3>1. O[i] = [steps |-> surfaces[i].steps - 1, answers |-> FALSE]
      BY <2>1, <2>3, OpenAt
    <3> QED BY <2>1, <2>2, <3>1
  <2>4. CASE ~Deeper(i, want)
    <3>1. O[i] = surfaces[i]
      BY <2>1, <2>4, OpenAt
    <3> QED BY <2>1, <2>2, <3>1
  <2> QED BY <2>3, <2>4
<1> QED BY <1>4, <1>8, <1>9

\* While all answer, and none has a step left, a pop closes those deeper than where it
\* landed.
LEMMA BackPopCloses ==
  ASSUME TypeOK, FirstSteps, AllAnswer, NEW want \in 0 .. Len(surfaces),
         \A i \in DOMAIN surfaces : Deeper(i, want) => surfaces[i].steps = 0
  PROVE  /\ Len(BackPop(want)) = want
         /\ \A i \in DOMAIN BackPop(want) : BackPop(want)[i].answers = TRUE
<1> DEFINE O == BackPopOpen(want)
           T == [steps : -1 .. MaxSteps, answers : BOOLEAN]
           n == Len(surfaces)
<1>1. n \in Nat /\ DOMAIN surfaces = 1 .. n /\ want \in Nat
      /\ \A i \in 1 .. n : surfaces[i] \in Surface
  BY TypeFacts
<1>2. PICK k \in 0 .. n :
           /\ BackPop(want) = SubSeq(O, 1, k)
           /\ \A i \in 1 .. n : i <= k <=> O[i].steps >= 0
  BY <1>1, LeftOpen
<1>3. O \in Seq(T) /\ Len(O) = n
  BY <1>1, OpenAt
<1>4. Len(BackPop(want)) = k /\ DOMAIN BackPop(want) = 1 .. k
      /\ \A i \in 1 .. k : BackPop(want)[i] = O[i]
  BY <1>2, <1>3, FirstOnes
<1>5. \A i \in 1 .. n : Deeper(i, want) <=> i > want
  <2>1. \A i \in 1 .. n : Rank(i) = i /\ surfaces[i].answers = TRUE
    BY <1>1, RankOf DEF AllAnswer
  <2> QED BY <2>1, <1>1 DEF Deeper
<1>6. \A i \in 1 .. n : O[i].steps >= 0 <=> i <= want
  <2> SUFFICES ASSUME NEW i \in 1 .. n PROVE O[i].steps >= 0 <=> i <= want
    OBVIOUS
  <2>1. CASE i > want
    <3>1. Deeper(i, want) /\ surfaces[i].steps = 0
      BY <1>1, <1>5, <2>1
    <3>2. O[i] = [steps |-> surfaces[i].steps - 1, answers |-> FALSE]
      BY <1>1, <3>1, OpenAt
    <3> QED BY <1>1, <2>1, <3>1, <3>2
  <2>2. CASE i <= want
    <3>1. ~Deeper(i, want)
      BY <1>1, <1>5, <2>2
    <3>2. O[i] = surfaces[i]
      BY <1>1, <3>1, OpenAt
    <3>3. surfaces[i].steps \in Nat
      BY <1>1, Bounds DEF Surface
    <3> QED BY <2>2, <3>2, <3>3
  <2> QED BY <1>1, <2>1, <2>2
<1>7. k = want
  <2>1. \A i \in 1 .. n : i <= k <=> i <= want
    BY <1>2, <1>6
  <2>2. CASE k > want
    <3>1. k \in 1 .. n
      BY <1>1, <2>2
    <3> QED BY <1>1, <2>1, <2>2, <3>1
  <2>3. CASE want > k
    <3>1. want \in 1 .. n
      BY <1>1, <2>3
    <3> QED BY <1>1, <2>1, <2>3, <3>1
  <2> QED BY <1>1, <2>2, <2>3
<1>8. \A i \in 1 .. k : O[i].answers = TRUE
  <2> SUFFICES ASSUME NEW i \in 1 .. k PROVE O[i].answers = TRUE
    OBVIOUS
  <2>1. i \in 1 .. n /\ i <= want
    BY <1>1, <1>7
  <2>2. ~Deeper(i, want)
    BY <1>1, <1>5, <2>1
  <2>3. O[i] = surfaces[i]
    BY <1>1, <2>1, <2>2, OpenAt
  <2> QED BY <1>1, <2>1, <2>3 DEF AllAnswer
<1> QED BY <1>4, <1>7, <1>8

(***************************************************************************)
(* Entries: what is the same before and after a push or a replacement.     *)
(***************************************************************************)
EntryList == Seq(Entry)

\* Up to the i-th, the entries are the same but for what is drawn over them.
Alike(es, fs, i) ==
  \A j \in 1 .. i : /\ fs[j].seq = es[j].seq /\ fs[j].doc = es[j].doc
                    /\ fs[j].depth = es[j].depth /\ fs[j].panel <= es[j].panel

LEMMA InList ==
  ASSUME NEW es \in EntryList
  PROVE  /\ DOMAIN es = 1 .. Len(es) /\ Len(es) \in Nat
         /\ \A j \in 1 .. Len(es) :
              /\ es[j].seq \in Nat /\ es[j].doc \in Nat /\ es[j].depth \in Nat
              /\ es[j].panel \in Nat /\ es[j].over \in Nat
              /\ es[j].kind \in {"route", "surface", "panel"}
<1>1. DOMAIN es = 1 .. Len(es) /\ Len(es) \in Nat /\ \A j \in 1 .. Len(es) : es[j] \in Entry
  BY DEF EntryList
<1> QED BY <1>1, EntryFacts

LEMMA SerialAlike ==
  ASSUME NEW es \in EntryList, NEW fs \in EntryList,
         NEW i \in 1 .. Len(es), i <= Len(fs), Alike(es, fs, i), SerialAt(es, i)
  PROVE  SerialAt(fs, i)
<1> USE InList
<1>1. i \in Nat /\ i \in 1 .. Len(fs) /\ i \in 1 .. i /\ Len(es) \in Nat
  OBVIOUS
<1>2. /\ fs[i].seq = es[i].seq /\ fs[i].doc = es[i].doc /\ es[i].seq \in Nat
      /\ fs[i].depth = es[i].depth /\ fs[i].panel <= es[i].panel
      /\ fs[i].panel \in Nat /\ es[i].panel \in Nat
  BY <1>1 DEF Alike
<1>3. fs[i].seq < i /\ fs[i].depth <= fs[i].seq /\ fs[i].panel <= fs[i].seq
  BY <1>1, <1>2 DEF SerialAt
<1>4. \A j \in (i - fs[i].seq) .. i : j \in 1 .. i
  BY <1>1, <1>2, <1>3
<1>5. \A j \in (i - fs[i].seq) .. i : fs[j].doc = fs[i].doc /\ fs[j].seq = fs[i].seq - (i - j)
  BY <1>2, <1>4 DEF Alike, SerialAt
<1>6. \A j \in 1 .. i : fs[j].doc <= fs[i].doc
  BY <1>2 DEF Alike, SerialAt
<1>7. i > 1 /\ fs[i].seq = 0 => fs[i - 1].doc < fs[i].doc
  <2> SUFFICES ASSUME i > 1, fs[i].seq = 0 PROVE fs[i - 1].doc < fs[i].doc
    OBVIOUS
  <2>1. i - 1 \in 1 .. i
    BY <1>1
  <2> QED BY <1>2, <2>1 DEF Alike, SerialAt
<1> QED BY <1>3, <1>5, <1>6, <1>7 DEF SerialAt

\* A push in the document: the entry after the i-th.
LEMMA SerialAfter ==
  ASSUME NEW fs \in EntryList, NEW i \in 1 .. Len(fs), i + 1 <= Len(fs), SerialAt(fs, i),
         fs[i + 1].seq = fs[i].seq + 1, fs[i + 1].doc = fs[i].doc,
         fs[i + 1].depth <= fs[i + 1].seq, fs[i + 1].panel <= fs[i + 1].seq
  PROVE  SerialAt(fs, i + 1)
<1> USE InList
<1>1. /\ i \in Nat /\ i + 1 \in 1 .. Len(fs) /\ Len(fs) \in Nat
      /\ fs[i].seq \in Nat /\ fs[i].doc \in Nat /\ fs[i + 1].seq \in Nat
  OBVIOUS
<1>2. fs[i + 1].seq < i + 1
  BY <1>1 DEF SerialAt
<1>3. ASSUME NEW j \in (i + 1 - fs[i + 1].seq) .. (i + 1)
      PROVE  fs[j].doc = fs[i + 1].doc /\ fs[j].seq = fs[i + 1].seq - (i + 1 - j)
  <2>1. CASE j = i + 1
    BY <1>1, <2>1
  <2>2. CASE j <= i
    <3>1. j \in (i - fs[i].seq) .. i
      BY <1>1, <2>2
    <3>2. fs[j].doc = fs[i].doc /\ fs[j].seq = fs[i].seq - (i - j)
      BY <3>1 DEF SerialAt
    <3> QED BY <1>1, <3>1, <3>2
  <2> QED BY <1>1, <2>1, <2>2
<1>4. ASSUME NEW j \in 1 .. (i + 1)
      PROVE  fs[j].doc <= fs[i + 1].doc
  <2>1. CASE j = i + 1
    BY <1>1, <2>1
  <2>2. CASE j <= i
    <3>1. j \in 1 .. i
      BY <1>1, <2>2
    <3> QED BY <1>1, <3>1 DEF SerialAt
  <2> QED BY <1>1, <2>1, <2>2
<1>5. fs[i + 1].seq # 0
  BY <1>1
<1> QED BY <1>2, <1>3, <1>4, <1>5 DEF SerialAt

\* The app loaded after the i-th entry.
LEMMA SerialFresh ==
  ASSUME NEW fs \in EntryList, NEW i \in 1 .. Len(fs), i + 1 <= Len(fs),
         fs[i + 1].seq = 0, fs[i + 1].depth = 0, fs[i + 1].panel = 0,
         \A j \in 1 .. i : fs[j].doc < fs[i + 1].doc
  PROVE  SerialAt(fs, i + 1)
<1> USE InList
<1>1. /\ i \in Nat /\ i + 1 \in 1 .. Len(fs) /\ fs[i + 1].doc \in Nat
      /\ \A j \in 1 .. i : fs[j].doc \in Nat
  OBVIOUS
<1>2. \A j \in (i + 1 - 0) .. (i + 1) : j = i + 1
  BY <1>1
<1>3. \A j \in 1 .. (i + 1) : j = i + 1 \/ j \in 1 .. i
  BY <1>1
<1>4. i + 1 - 1 = i /\ i \in 1 .. i /\ 0 < i + 1
  BY <1>1
<1> QED BY <1>1, <1>2, <1>3, <1>4 DEF SerialAt

(***************************************************************************)
(* What holds strayed or not.                                              *)
(***************************************************************************)
BInv == /\ TypeOK /\ AddressIsShown /\ Serials /\ Rows /\ FirstSteps /\ PanelsBehind

AskList == Seq(Asking)

\* One more entry, alike behind it.
Grown(x) ==
  /\ entries' \in EntryList /\ Len(entries') = cur + 1 /\ cur' = cur + 1
  /\ \A i \in 1 .. cur : entries'[i] = entries[i]
  /\ entries'[cur + 1] = x

LEMMA PushGrows ==
  ASSUME TypeOK, NEW e, [e EXCEPT !.seq = Stamped] \in Entry, Push(e)
  PROVE  Grown([e EXCEPT !.seq = Stamped]) /\ cur + 1 <= MaxEntries
<1>1. /\ entries \in Seq(Entry) /\ cur \in 0 .. Len(entries) /\ cur \in Nat
      /\ MaxEntries \in Nat
  BY TypeFacts, Bounds
<1>2. /\ entries' = Append(SubSeq(entries, 1, cur), [e EXCEPT !.seq = Stamped])
      /\ cur' = cur + 1 /\ cur + 1 <= MaxEntries
  BY <1>1 DEF Push
<1> QED BY <1>1, <1>2, PutBehind DEF Grown, EntryList

LEMMA SerialsKept ==
  ASSUME Serials, entries' = entries, mixed' = mixed \/ mixed' = TRUE
  PROVE  Serials'
BY DEF Serials

LEMMA SerialsGrow ==
  ASSUME TypeOK, Serials, mixed' = mixed \/ mixed' = TRUE,
         entries' \in EntryList, Len(entries') = cur + 1, Alike(entries, entries', cur),
         entries'[cur + 1].seq = Here.seq + 1, entries'[cur + 1].doc = Here.doc,
         entries'[cur + 1].depth <= Here.seq + 1, entries'[cur + 1].panel <= Here.seq + 1
  PROVE  Serials'
<1>1. /\ entries \in EntryList /\ cur \in 1 .. Len(entries) /\ cur \in Nat /\ Here = entries[cur]
      /\ DOMAIN entries = 1 .. Len(entries) /\ DOMAIN entries' = 1 .. (cur + 1)
      /\ cur \in 1 .. Len(entries') /\ cur \in 1 .. cur
  BY TypeFacts, InList DEF EntryList, Here
<1>2. ASSUME NEW i \in 1 .. cur PROVE SerialAt(entries', i)
  <2>1. i \in 1 .. Len(entries) /\ i <= Len(entries') /\ Alike(entries, entries', i)
    BY <1>1 DEF Alike
  <2>2. SerialAt(entries, i)
    BY <1>1, <2>1 DEF Serials
  <2> QED BY <1>1, <2>1, <2>2, SerialAlike
<1>3. entries'[cur].seq = Here.seq /\ entries'[cur].doc = Here.doc /\ Here.seq \in Nat
  BY <1>1, InList DEF Alike
<1>4. SerialAt(entries', cur + 1)
  BY <1>1, <1>2, <1>3, SerialAfter
<1>5. \A i \in DOMAIN entries' : SerialAt(entries', i)
  BY <1>1, <1>2, <1>4
<1>6. ASSUME ~mixed', NEW i \in DOMAIN entries' PROVE entries'[i].seq = i - 1
  <2>1. \A j \in 1 .. cur : entries[j].seq = j - 1
    BY <1>1, <1>6 DEF Serials
  <2>2. CASE i \in 1 .. cur
    BY <2>1, <2>2 DEF Alike
  <2>3. CASE i = cur + 1
    BY <1>1, <2>1, <2>3
  <2> QED BY <1>1, <2>2, <2>3
<1> QED BY <1>5, <1>6 DEF Serials

\* Rows after a push or a note: each is one from before, below the new serial, or new.
LEMMA NotedRows ==
  ASSUME NEW rows, NEW s, NEW path
  PROVE  \A r \in Noted(rows, s, path) : (r \in rows /\ r.seq # s) \/ r = [seq |-> s, path |-> path]
BY DEF Noted, Latest

LEMMA RowsGrow ==
  ASSUME TypeOK, Rows, mixed' = mixed,
         DOMAIN entries' = 1 .. (cur + 1),
         \A i \in 1 .. cur : entries'[i].path = entries[i].path,
         \A r \in trail' : \/ r \in trail /\ r.seq < Stamped
                           \/ r = [seq |-> Stamped, path |-> entries'[cur + 1].path],
         ~mixed => Stamped = cur
  PROVE  Rows'
<1>1. cur \in Nat /\ trail \subseteq Row
  BY TypeFacts
<1>2. ASSUME ~mixed', NEW r \in trail'
      PROVE  r.seq + 1 \in DOMAIN entries' /\ entries'[r.seq + 1].path = r.path
  <2>1. Stamped = cur
    BY <1>2
  <2>2. CASE r \in trail /\ r.seq < Stamped
    <3>1. r.seq + 1 \in 1 .. cur /\ r.seq \in Nat
      BY <1>1, <2>1, <2>2, Bounds DEF Row
    <3>2. entries[r.seq + 1].path = r.path
      BY <1>2, <2>2 DEF Rows
    <3> QED BY <1>1, <3>1, <3>2
  <2>3. CASE r = [seq |-> Stamped, path |-> entries'[cur + 1].path]
    BY <1>1, <2>1, <2>3
  <2> QED BY <1>2, <2>2, <2>3
<1> QED BY <1>2 DEF Rows

LEMMA RowsNoted ==
  ASSUME TypeOK, Serials, Rows, mixed' = mixed, DOMAIN entries' = DOMAIN entries,
         NEW i \in DOMAIN entries, NEW path,
         \A j \in DOMAIN entries : j # i => entries'[j].path = entries[j].path,
         entries'[i].path = path, entries'[i].seq = entries[i].seq,
         trail' = Noted(trail, entries[i].seq, path)
  PROVE  Rows'
<1>1. DOMAIN entries = 1 .. Len(entries) /\ Len(entries) \in Nat /\ trail \subseteq Row
      /\ i \in Nat
  BY TypeFacts
<1>2. ASSUME ~mixed', NEW r \in trail'
      PROVE  r.seq + 1 \in DOMAIN entries' /\ entries'[r.seq + 1].path = r.path
  <2>1. entries[i].seq = i - 1
    BY <1>2 DEF Serials
  <2>2. (r \in trail /\ r.seq # entries[i].seq) \/ r = [seq |-> entries[i].seq, path |-> path]
    BY NotedRows
  <2>3. CASE r \in trail /\ r.seq # entries[i].seq
    <3>1. r.seq + 1 \in DOMAIN entries /\ entries[r.seq + 1].path = r.path /\ r.seq \in Nat
      BY <1>1, <1>2, <2>3, Bounds DEF Rows, Row
    <3>2. r.seq + 1 # i
      BY <1>1, <2>1, <2>3, <3>1
    <3> QED BY <3>1, <3>2
  <2>4. CASE r = [seq |-> entries[i].seq, path |-> path]
    BY <1>1, <2>1, <2>4
  <2> QED BY <2>2, <2>3, <2>4
<1> QED BY <1>2 DEF Rows

\* Rows have serials and paths.
LEMMA NotedType ==
  ASSUME NEW rows, rows \subseteq Row, NEW s \in 0 .. MaxEntries, NEW path \in Screens
  PROVE  Noted(rows, s, path) \subseteq Row
BY NotedRows DEF Row

\* What is asked of the browser.
LEMMA AskedType ==
  ASSUME TypeOK, NEW asks \in AskList, Asked(asks)
  PROVE  going' \in AskList /\ Len(going') <= 2
<1>1. going \in AskList
  BY DEF TypeOK, AskList, Asking
<1>2. going \o asks \in AskList
  BY <1>1, ConcatProperties DEF AskList
<1>3. CASE going' = going \o asks
  BY <1>2, <1>3 DEF Asked
<1>4. CASE Len(going \o asks) = 2 /\ going' = SubSeq(going \o asks, 1, 1)
  <2>1. 1 \in 0 .. Len(going \o asks)
    BY <1>4
  <2> QED BY <1>2, <1>4, <2>1, FirstOnes DEF AskList
<1> QED BY <1>3, <1>4 DEF Asked

LEMMA AskType ==
  ASSUME NEW by \in (-MaxEntries)..MaxEntries, NEW to \in Screens
  PROVE  <<Ask(by, TRUE, to)>> \in AskList
<1>1. Ask(by, TRUE, to) \in Asking
  BY DEF Ask, Asking
<1>2. \A x \in Asking : <<x>> \in Seq(Asking)
  OBVIOUS
<1> QED BY <1>1, <1>2 DEF AskList

LEMMA GivesBackType ==
  ASSUME TypeOK, NEW s
  PROVE  GivesBack(s) \in AskList
<1>1. -1 \in (-MaxEntries)..MaxEntries /\ shown \in Screens
  BY TypeFacts, Bounds
<1>2. <<Ask(-1, TRUE, shown)>> \in AskList
  BY <1>1, AskType
<1>3. <<>> \in AskList
  BY DEF AskList
<1> QED BY <1>2, <1>3 DEF GivesBack

(***************************************************************************)
(* Each step keeps it.                                                     *)
(***************************************************************************)
SurfaceList == Seq(Surface)

LEMMA SurfacesKept ==
  ASSUME TypeOK, FirstSteps, surfaces' = surfaces
  PROVE  surfaces' \in SurfaceList /\ FirstSteps'
<1>1. surfaces \in SurfaceList
  BY TypeFacts DEF SurfaceList
<1> QED BY <1>1 DEF FirstSteps

LEMMA GoingKept ==
  ASSUME TypeOK, going' = going
  PROVE  going' \in AskList /\ Len(going') <= 2
BY DEF TypeOK, AskList, Asking

LEMMA GoingDone ==
  ASSUME going' = <<>>
  PROVE  going' \in AskList /\ Len(going') <= 2
BY DEF AskList

LEMMA NoneOpen ==
  ASSUME surfaces' = <<>>
  PROVE  surfaces' \in SurfaceList /\ FirstSteps'
BY DEF SurfaceList, FirstSteps

\* The tab stays on its entry, and the screen with it.
LEMMA StillBasic ==
  ASSUME BInv, UNCHANGED <<entries, cur, shown, mixed>>, panels' = panels,
         going' \in AskList, Len(going') <= 2, strayed' \in BOOLEAN,
         surfaces' \in SurfaceList, FirstSteps', trail' \subseteq Row,
         trail' # trail => Rows'
  PROVE  BInv'
<1>1. TypeOK'
  BY DEF BInv, TypeOK, AskList, Asking, SurfaceList, Surface, Row
<1>2. AddressIsShown' /\ PanelsBehind'
  BY DEF BInv, AddressIsShown, PanelsBehind, Here
<1>3. Serials'
  BY SerialsKept DEF BInv
<1>4. Rows'
  <2>1. CASE trail' = trail
    BY <2>1 DEF BInv, Rows
  <2> QED BY <2>1
<1> QED BY <1>1, <1>2, <1>3, <1>4 DEF BInv

\* The tab goes on to an entry pushed in its document.
LEMMA GrownBasic ==
  ASSUME BInv, NEW x \in Entry, Grown(x), cur + 1 <= MaxEntries,
         x.seq = Stamped, x.doc = Here.doc, x.depth <= Stamped, x.panel <= Stamped,
         shown' = x.path, panels' \in 0 .. MaxPanels, panels' <= x.panel,
         mixed' = mixed, strayed' \in BOOLEAN,
         going' \in AskList, Len(going') <= 2,
         surfaces' \in SurfaceList, FirstSteps',
         trail' \subseteq Row,
         \A r \in trail' : \/ r \in trail /\ r.seq < Stamped
                           \/ r = [seq |-> Stamped, path |-> x.path]
  PROVE  BInv'
<1> USE DEF BInv
<1>1. /\ cur \in Nat /\ cur >= 1 /\ MaxEntries \in Nat /\ cur <= Len(entries)
      /\ entries \in EntryList /\ DOMAIN entries = 1 .. Len(entries)
  BY TypeFacts, Bounds DEF EntryList
<1>2. DOMAIN entries' = 1 .. (cur + 1) /\ entries' \in EntryList /\ Len(entries') = cur + 1
      /\ cur' = cur + 1 /\ entries'[cur + 1] = x
      /\ \A i \in 1 .. cur : entries'[i] = entries[i]
  BY InList DEF Grown
<1>3. TypeOK'
  <2>1. /\ entries' \in Seq(Entry) /\ Len(entries') \in 1 .. MaxEntries
        /\ cur' \in DOMAIN entries'
    BY <1>1, <1>2 DEF EntryList
  <2>2. shown' \in Screens
    BY EntryFacts
  <2>3. mixed' \in BOOLEAN
    BY DEF TypeOK
  <2> QED BY <2>1, <2>2, <2>3 DEF TypeOK, AskList, Asking, SurfaceList, Surface, Row
<1>4. AddressIsShown' /\ PanelsBehind'
  BY <1>2 DEF AddressIsShown, PanelsBehind, Here
<1>5. Alike(entries, entries', cur)
  <2>1. \A i \in 1 .. cur : entries[i].panel \in Nat
    BY <1>1, InList
  <2> QED BY <1>2, <2>1 DEF Alike
<1>6. Serials'
  BY <1>2, <1>5, SerialsGrow DEF Stamped
<1>7. ~mixed => Stamped = cur
  <2>1. Here = entries[cur] /\ cur \in DOMAIN entries /\ Here.seq \in Nat
    BY <1>1, InList DEF Here
  <2> QED BY <1>1, <2>1 DEF Serials, Stamped
<1>8. Rows'
  BY <1>2, <1>7, RowsGrow
<1> QED BY <1>3, <1>4, <1>6, <1>8

LEMMA HereFacts ==
  ASSUME BInv
  PROVE  /\ Here \in Entry /\ Here = entries[cur] /\ cur \in DOMAIN entries
         /\ Here.seq \in Nat /\ Here.seq < cur /\ Here.depth \in Nat /\ Here.depth <= Here.seq
         /\ Here.panel \in Nat /\ Here.panel <= Here.seq /\ Here.over \in Nat
         /\ Here.panel <= MaxPanels /\ Here.over <= MaxSurfaces
         /\ Here.seq < MaxEntries /\ Here.doc \in Nat /\ Here.doc >= 1 /\ Here.doc <= MaxDocs
         /\ Here.path = shown /\ shown \in Screens
         /\ Stamped = Here.seq + 1
<1> USE DEF BInv
<1>1. /\ Here \in Entry /\ cur \in Nat /\ cur >= 1 /\ cur <= Len(entries)
      /\ DOMAIN entries = 1 .. Len(entries) /\ Len(entries) <= MaxEntries /\ Len(entries) \in Nat
      /\ shown \in Screens /\ MaxEntries \in Nat
  BY TypeFacts, Bounds
<1>2. Here = entries[cur] /\ cur \in DOMAIN entries /\ Stamped = Here.seq + 1
  BY <1>1 DEF Here, Stamped
<1>3. SerialAt(entries, cur)
  BY <1>2 DEF Serials
<1>4. /\ Here.seq \in Nat /\ Here.depth \in Nat /\ Here.panel \in Nat /\ Here.over \in Nat
      /\ Here.doc \in Nat /\ Here.doc >= 1 /\ Here.doc <= MaxDocs
      /\ Here.panel <= MaxPanels /\ Here.over <= MaxSurfaces
  BY <1>1, EntryFacts
<1>5. Here.seq < cur /\ Here.depth <= Here.seq /\ Here.panel <= Here.seq
  BY <1>2, <1>3 DEF SerialAt
<1> QED BY <1>1, <1>2, <1>4, <1>5 DEF AddressIsShown

\* A push trims what is ahead, and no more.
LEMMA Trimmed ==
  ASSUME BInv
  PROVE  /\ trimTrail(trail) \subseteq Row
         /\ \A r \in trimTrail(trail) : r \in trail /\ r.seq < Stamped
BY TypeFacts DEF BInv, trimTrail

LEMMA NotedPush ==
  ASSUME BInv, NEW path \in Screens, cur + 1 <= MaxEntries
  PROVE  /\ Noted(trimTrail(trail), Stamped, path) \subseteq Row
         /\ \A r \in Noted(trimTrail(trail), Stamped, path) :
              \/ r \in trail /\ r.seq < Stamped
              \/ r = [seq |-> Stamped, path |-> path]
<1>1. Stamped \in 0 .. MaxEntries
  BY HereFacts, TypeFacts, Bounds DEF BInv
<1> QED BY <1>1, Trimmed, NotedRows, NotedType

LEMMA OpenSurfaceBasic ==
  ASSUME BInv, OpenSurface PROVE BInv'
<1> USE DEF BInv
<1> DEFINE e == [Here EXCEPT !.over = Answering + 1, !.kind = "surface"]
           x == [e EXCEPT !.seq = Stamped]
           s == [steps |-> 0, answers |-> TRUE]
<1>1. Len(surfaces) + 1 <= MaxSurfaces /\ Len(surfaces) \in Nat /\ surfaces \in SurfaceList
  BY TypeFacts, Bounds DEF OpenSurface, SurfaceList
<1>2. Answering + 1 \in 0 .. MaxSurfaces
  BY <1>1, AnsweringBound, Bounds
<1>3. Stamped \in 0 .. MaxEntries
  BY HereFacts, Bounds
<1>4. x \in Entry /\ x.seq = Stamped /\ x.doc = Here.doc /\ x.depth = Here.depth
      /\ x.panel = Here.panel /\ x.path = Here.path
  BY <1>2, <1>3, HereFacts DEF Entry
<1>5. Push(e)
  BY DEF OpenSurface
<1>6. Grown(x) /\ cur + 1 <= MaxEntries
  BY <1>4, <1>5, PushGrows
<1>7. surfaces' = Append(surfaces, s) /\ s \in Surface
  BY Bounds DEF OpenSurface, Surface
<1>8. surfaces' \in SurfaceList /\ FirstSteps'
  <2>1. /\ surfaces' \in SurfaceList /\ Len(surfaces') = Len(surfaces) + 1
        /\ \A i \in 1 .. Len(surfaces) : surfaces'[i] = surfaces[i]
        /\ surfaces'[Len(surfaces) + 1] = s
    BY <1>1, <1>7, AppendProperties DEF SurfaceList
  <2>2. DOMAIN surfaces' = 1 .. (Len(surfaces) + 1) /\ DOMAIN surfaces = 1 .. Len(surfaces)
    BY <1>1, <2>1 DEF SurfaceList
  <2>3. s.steps = 0 /\ s.answers = TRUE
    OBVIOUS
  <2>4. \A i \in DOMAIN surfaces' : i = Len(surfaces) + 1 \/ i \in DOMAIN surfaces
    BY <1>1, <2>2
  <2> QED BY <1>1, <2>1, <2>2, <2>3, <2>4 DEF FirstSteps
<1>9. going' \in AskList /\ Len(going') <= 2 /\ strayed' \in BOOLEAN
  BY GoingKept DEF OpenSurface, TypeOK, Quiet
<1>10. /\ shown' = shown /\ panels' = panels /\ mixed' = mixed
       /\ trail' = trimTrail(trail)
  BY DEF OpenSurface
<1>11. panels' \in 0 .. MaxPanels /\ panels' <= x.panel
  BY <1>4, <1>10 DEF TypeOK, PanelsBehind
<1>12. trail' \subseteq Row /\ \A r \in trail' : r \in trail /\ r.seq < Stamped
  BY <1>10, Trimmed
<1> HIDE DEF x, e
<1>13. x.depth <= Stamped /\ x.panel <= Stamped
  BY <1>4, HereFacts
<1> QED BY <1>4, <1>6, <1>8, <1>9, <1>10, <1>11, <1>12, <1>13, HereFacts, GrownBasic

LEMMA PushPanelBasic ==
  ASSUME BInv, PushPanel PROVE BInv'
<1> USE DEF BInv
<1> DEFINE e == [Here EXCEPT !.panel = panels + 1, !.kind = "panel"]
           x == [e EXCEPT !.seq = Stamped]
<1>1. panels \in Nat /\ panels + 1 \in 0 .. MaxPanels /\ panels <= Here.panel
  BY TypeFacts, Bounds DEF PushPanel, PanelsBehind
<1>3. Stamped \in 0 .. MaxEntries
  BY HereFacts, Bounds
<1>4. x \in Entry /\ x.seq = Stamped /\ x.doc = Here.doc /\ x.depth = Here.depth
      /\ x.panel = panels + 1 /\ x.path = Here.path
  BY <1>1, <1>3, HereFacts DEF Entry
<1>5. Push(e)
  BY DEF PushPanel
<1>6. Grown(x) /\ cur + 1 <= MaxEntries
  BY <1>4, <1>5, PushGrows
<1>7. surfaces' \in SurfaceList /\ FirstSteps'
  BY SurfacesKept DEF PushPanel
<1>8. going' \in AskList /\ Len(going') <= 2 /\ strayed' \in BOOLEAN
  BY GoingKept DEF PushPanel, TypeOK, Quiet
<1>9. /\ shown' = shown /\ panels' = panels + 1 /\ mixed' = mixed
      /\ trail' = trimTrail(trail)
  BY DEF PushPanel
<1>10. trail' \subseteq Row /\ \A r \in trail' : r \in trail /\ r.seq < Stamped
  BY <1>9, Trimmed
<1> HIDE DEF x, e
<1>11. x.depth <= Stamped /\ x.panel <= Stamped
  BY <1>1, <1>4, HereFacts
<1>12. panels' \in 0 .. MaxPanels /\ panels' <= x.panel
  BY <1>1, <1>4, <1>9
<1> QED BY <1>4, <1>6, <1>7, <1>8, <1>9, <1>10, <1>11, <1>12, HereFacts, GrownBasic

\* The entry of a screen.
LEMMA RouteFacts ==
  ASSUME BInv, NEW path \in Screens, cur + 1 <= MaxEntries
  PROVE  /\ Route(path) \in Entry /\ Route(path).path = path
         /\ Route(path).seq = Stamped /\ Route(path).doc = Here.doc
         /\ Route(path).depth = Here.depth + 1 /\ Route(path).depth <= Stamped
         /\ Route(path).panel = 0 /\ Route(path).over = 0 /\ Route(path).kind = "route"
         /\ [Route(path) EXCEPT !.seq = Stamped] = Route(path)
<1>1. Here.depth + 1 \in 0 .. MaxEntries /\ Stamped \in 0 .. MaxEntries
      /\ Here.depth + 1 <= Stamped /\ Here.doc \in 1 .. MaxDocs
  BY HereFacts, Bounds
<1>2. 0 \in 0 .. MaxSurfaces /\ 0 \in 0 .. MaxPanels
  BY Bounds
<1> QED BY <1>1, <1>2 DEF Route, Entry

LEMMA GoBasic ==
  ASSUME BInv, NEW path \in Screens, Go(path) PROVE BInv'
<1> USE DEF BInv
<1> DEFINE asks == IF Refused(path) /\ surfaces # <<>> THEN GivesBack(Top) ELSE <<>>
<1>1. asks \in AskList
  BY GivesBackType DEF AskList
<1>2. Asked(asks) /\ strayed' \in BOOLEAN
  <2>1. Asked(asks) /\ strayed' = (strayed \/ ~Quiet \/ LeavesEntry(path) \/ Len(surfaces) > 1
                       \/ (asks # <<>> /\ Here.kind # "surface"))
    BY DEF Go
  <2> QED BY <2>1
<1>3. going' \in AskList /\ Len(going') <= 2
  BY <1>1, <1>2, AskedType
<1> HIDE DEF asks
<1>4. /\ shown' = path /\ surfaces' = <<>> /\ mixed' = mixed /\ Navigate(path)
      /\ panels' = IF path = shown THEN panels ELSE 0
  BY DEF Go
<1>5. surfaces' \in SurfaceList /\ FirstSteps'
  BY <1>4, NoneOpen
<1>6. CASE Refused(path)
  <2>1. path = Here.path /\ trail' = Noted(trail, Here.seq, path)
        /\ entries' = entries /\ cur' = cur
    BY <1>4, <1>6 DEF Navigate, Refused
  <2>2. shown' = shown /\ panels' = panels
    BY <1>4, <2>1, HereFacts
  <2>3. trail' \subseteq Row
    <3>1. Here.seq \in 0 .. MaxEntries /\ trail \subseteq Row
      BY HereFacts, TypeFacts, Bounds
    <3> QED BY <2>1, <3>1, NotedType
  <2>4. Rows'
    BY <1>4, <2>1, HereFacts, RowsNoted
  <2> QED BY <1>2, <1>3, <1>4, <1>5, <2>1, <2>2, <2>3, <2>4, StillBasic
<1>7. CASE ~Refused(path)
  <2>1. Push(Route(path)) /\ trail' = Noted(trimTrail(trail), Stamped, path) /\ path # Here.path
    BY <1>4, <1>7 DEF Navigate, Refused
  <2>2. cur + 1 <= MaxEntries
    BY <2>1, TypeFacts, Bounds DEF Push
  <2>3. Grown(Route(path))
    BY <2>1, <2>2, RouteFacts, PushGrows
  <2>4. panels' = 0
    BY <1>4, <2>1, HereFacts
  <2>5. panels' \in 0 .. MaxPanels /\ panels' <= Route(path).panel /\ 0 <= Stamped
    BY <2>2, <2>4, Bounds, RouteFacts, HereFacts
  <2>6. Route(path).panel <= Stamped
    BY <2>2, <2>5, RouteFacts
  <2> QED BY <1>2, <1>3, <1>4, <1>5, <2>1, <2>2, <2>3, <2>5, <2>6, RouteFacts, NotedPush, GrownBasic
<1> QED BY <1>6, <1>7

LEMMA LeaveToBasic ==
  ASSUME BInv, NEW path \in Screens, LeaveTo(path) PROVE BInv'
<1> USE DEF BInv
<1> DEFINE s == SubSeq(entries, 1, cur)
           f == [s EXCEPT ![cur].panel = 0]
           x == Route(path)
<1>1. /\ entries \in Seq(Entry) /\ cur \in 0 .. Len(entries) /\ cur \in Nat /\ cur >= 1
      /\ cur \in 1 .. Len(entries) /\ DOMAIN entries = 1 .. Len(entries)
      /\ cur + 1 <= MaxEntries /\ MaxEntries \in Nat /\ Len(entries) \in Nat
  BY TypeFacts, Bounds DEF LeaveTo
<1>2. s \in Seq(Entry) /\ Len(s) = cur /\ \A i \in 1 .. cur : s[i] = entries[i]
  BY <1>1, FirstOnes
<1>3. [Here EXCEPT !.panel = 0] \in Entry
  BY HereFacts, Bounds DEF Entry
<1>4. f = [s EXCEPT ![cur] = [Here EXCEPT !.panel = 0]]
  BY <1>1, <1>2 DEF Here
<1>5. f \in Seq(Entry) /\ Len(f) = cur /\ f[cur] = [Here EXCEPT !.panel = 0]
      /\ \A i \in 1 .. cur : i # cur => f[i] = entries[i]
  <2> HIDE DEF s, f
  <2>1. s \in [1 .. cur -> Entry] /\ DOMAIN s = 1 .. cur
    BY <1>1, <1>2
  <2>2. f \in [1 .. cur -> Entry]
    BY <1>3, <1>4, <2>1
  <2>3. f \in Seq(Entry) /\ Len(f) = cur
    BY <1>1, <2>2
  <2> QED BY <1>1, <1>2, <1>4, <2>1, <2>3
<1>6. entries' = Append(f, x) /\ cur' = cur + 1 /\ shown' = path /\ panels' = 0
      /\ trail' = Noted(trimTrail(trail), Stamped, path) /\ strayed' = TRUE
      /\ going' = going /\ surfaces' = surfaces /\ mixed' = mixed
  BY DEF LeaveTo
<1> HIDE DEF s, f, x
<1>7. x \in Entry
  BY <1>1, RouteFacts DEF x
<1>8. /\ entries' \in EntryList /\ Len(entries') = cur + 1 /\ entries'[cur + 1] = x
      /\ \A i \in 1 .. cur : entries'[i] = f[i]
      /\ DOMAIN entries' = 1 .. (cur + 1)
  BY <1>1, <1>5, <1>6, <1>7, AppendProperties DEF EntryList
<1>9. ASSUME NEW i \in 1 .. cur
      PROVE  /\ entries'[i].seq = entries[i].seq /\ entries'[i].doc = entries[i].doc
             /\ entries'[i].depth = entries[i].depth /\ entries'[i].panel <= entries[i].panel
             /\ entries'[i].path = entries[i].path
  <2>1. entries[i] \in Entry /\ entries[i].panel \in Nat
    BY <1>1, EntryFacts
  <2>2. CASE i # cur
    BY <1>5, <1>8, <2>1, <2>2
  <2>3. CASE i = cur
    <3>1. entries'[i] = [entries[i] EXCEPT !.panel = 0]
      BY <1>5, <1>8, <2>3 DEF Here
    <3> QED BY <2>1, <3>1 DEF Entry
  <2> QED BY <2>2, <2>3
<1>10. Alike(entries, entries', cur)
  BY <1>9 DEF Alike
<1>11. x.seq = Stamped /\ x.doc = Here.doc /\ x.depth <= Stamped /\ x.panel = 0 /\ x.path = path
       /\ 0 <= Stamped
  BY <1>1, RouteFacts, HereFacts DEF x
<1>12. Serials'
  BY <1>6, <1>8, <1>10, <1>11, SerialsGrow, HereFacts
<1>13. ~mixed => Stamped = cur
  BY <1>1, HereFacts DEF Serials
<1>14. trail' \subseteq Row /\ \A r \in trail' : \/ r \in trail /\ r.seq < Stamped
                                                 \/ r = [seq |-> Stamped, path |-> path]
  BY <1>1, <1>6, NotedPush
<1>15. Rows'
  BY <1>6, <1>8, <1>9, <1>11, <1>13, <1>14, RowsGrow
<1>16. surfaces' \in SurfaceList /\ FirstSteps' /\ going' \in AskList /\ Len(going') <= 2
  BY <1>6, SurfacesKept, GoingKept
<1>17. TypeOK'
  <2>1. entries' \in Seq(Entry) /\ Len(entries') \in 1 .. MaxEntries /\ cur' \in DOMAIN entries'
    BY <1>1, <1>6, <1>8 DEF EntryList
  <2>2. panels' \in 0 .. MaxPanels /\ shown' \in Screens /\ mixed' \in BOOLEAN /\ strayed' \in BOOLEAN
    BY <1>6, Bounds DEF TypeOK
  <2> QED BY <1>14, <1>16, <2>1, <2>2 DEF TypeOK, AskList, Asking, SurfaceList, Surface, Row
<1>18. AddressIsShown' /\ PanelsBehind'
  BY <1>6, <1>8, <1>11 DEF AddressIsShown, PanelsBehind, Here
<1> QED BY <1>12, <1>15, <1>16, <1>17, <1>18

\* The arrow with nothing behind: the entry is another screen's.
LEMMA Replaced ==
  ASSUME BInv, entries' = [entries EXCEPT ![cur].path = Shelf, ![cur].over = 0, ![cur].panel = 0]
  PROVE  /\ entries' \in EntryList /\ Len(entries') = Len(entries)
         /\ DOMAIN entries' = DOMAIN entries
         /\ entries'[cur] = [Here EXCEPT !.path = Shelf, !.over = 0, !.panel = 0]
         /\ \A i \in DOMAIN entries : i # cur => entries'[i] = entries[i]
<1> DEFINE x == [Here EXCEPT !.path = Shelf, !.over = 0, !.panel = 0]
<1>1. entries \in Seq(Entry) /\ cur \in DOMAIN entries /\ DOMAIN entries = 1 .. Len(entries)
      /\ Len(entries) \in Nat
  BY TypeFacts, HereFacts DEF BInv
<1>2. x \in Entry
  <2>1. Here \in Entry /\ Shelf \in Screens /\ 0 \in 0 .. MaxSurfaces /\ 0 \in 0 .. MaxPanels
    BY HereFacts, Bounds
  <2> QED BY <2>1 DEF Entry
<1>3. entries' = [entries EXCEPT ![cur] = x]
  BY <1>1 DEF Here
<1> HIDE DEF x
<1>4. entries' \in [1 .. Len(entries) -> Entry]
  <2>1. entries \in [1 .. Len(entries) -> Entry]
    BY <1>1
  <2> QED BY <1>2, <1>3, <2>1
<1>5. entries' \in EntryList /\ Len(entries') = Len(entries)
  <2>1. \A g \in [1 .. Len(entries) -> Entry] : g \in Seq(Entry) /\ Len(g) = Len(entries)
    BY <1>1
  <2> QED BY <1>4, <2>1 DEF EntryList
<1> QED BY <1>1, <1>3, <1>4, <1>5 DEF x

LEMMA ArrowBasic ==
  ASSUME BInv, Arrow PROVE BInv'
<1> USE DEF BInv
<1>1. surfaces' = surfaces /\ panels' = panels /\ mixed' = mixed /\ panels = 0
  BY DEF Arrow
<1>2. surfaces' \in SurfaceList /\ FirstSteps'
  BY <1>1, SurfacesKept
<1>3. CASE canGoBack
  <2> DEFINE to == IF Here.kind = "route" THEN entries[cur - 1].path ELSE shown
  <2>1. Asked(<<Ask(-1, TRUE, to)>>) /\ UNCHANGED <<entries, cur, shown, trail>>
        /\ strayed' = (strayed \/ ~Quiet)
    BY <1>3 DEF Arrow
  <2>2. to \in Screens
    <3>1. cur - 1 \in 1 .. Len(entries)
      BY <1>3, HereFacts, TypeFacts DEF canGoBack
    <3>2. entries[cur - 1].path \in Screens
      BY <3>1, TypeFacts, EntryFacts
    <3> QED BY <3>2, TypeFacts
  <2>3. -1 \in (-MaxEntries)..MaxEntries
    BY Bounds
  <2>4. going' \in AskList /\ Len(going') <= 2
    BY <2>1, <2>2, <2>3, AskType, AskedType
  <2>5. strayed' \in BOOLEAN /\ trail' \subseteq Row
    BY <2>1, TypeFacts
  <2> QED BY <1>1, <1>2, <2>1, <2>4, <2>5, StillBasic
<1>4. CASE ~canGoBack
  <2>1. /\ entries' = [entries EXCEPT ![cur].path = Shelf, ![cur].over = 0, ![cur].panel = 0]
        /\ shown' = Shelf /\ trail' = Noted(trail, Here.seq, Shelf)
        /\ cur' = cur /\ going' = going
        /\ strayed' = (strayed \/ ~Quiet \/ cur < Len(entries) \/ Here.kind # "route")
    BY <1>4 DEF Arrow
  <2>2. /\ entries' \in EntryList /\ Len(entries') = Len(entries)
        /\ DOMAIN entries' = DOMAIN entries
        /\ entries'[cur] = [Here EXCEPT !.path = Shelf, !.over = 0, !.panel = 0]
        /\ \A i \in DOMAIN entries : i # cur => entries'[i] = entries[i]
    BY <2>1, Replaced
  <2>3. /\ entries'[cur].path = Shelf /\ entries'[cur].panel = 0
        /\ entries'[cur].seq = Here.seq /\ entries'[cur].doc = Here.doc
        /\ entries'[cur].depth = Here.depth
    BY <2>2, HereFacts DEF Entry
  <2>4. /\ DOMAIN entries = 1 .. Len(entries) /\ Len(entries) \in Nat /\ entries \in EntryList
        /\ cur \in DOMAIN entries /\ Here = entries[cur]
    BY TypeFacts, HereFacts DEF EntryList
  <2>5. \A i \in 1 .. Len(entries) : entries[i].panel \in Nat
    BY <2>4, InList
  <2>6. \A i \in 1 .. Len(entries) : Alike(entries, entries', i)
    <3>1. \A j \in 1 .. Len(entries) :
            /\ entries'[j].seq = entries[j].seq /\ entries'[j].doc = entries[j].doc
            /\ entries'[j].depth = entries[j].depth /\ entries'[j].panel <= entries[j].panel
      <4> SUFFICES ASSUME NEW j \in 1 .. Len(entries)
                   PROVE  /\ entries'[j].seq = entries[j].seq /\ entries'[j].doc = entries[j].doc
                          /\ entries'[j].depth = entries[j].depth
                          /\ entries'[j].panel <= entries[j].panel
        OBVIOUS
      <4>1. CASE j = cur
        BY <2>3, <2>4, <2>5, <4>1
      <4>2. CASE j # cur
        BY <2>2, <2>4, <2>5, <4>2
      <4> QED BY <4>1, <4>2
    <3> QED BY <2>4, <3>1 DEF Alike
  <2>7. \A i \in DOMAIN entries' : SerialAt(entries', i)
    BY <2>2, <2>4, <2>6, SerialAlike DEF Serials
  <2>8. Serials'
    <3>1. \A i \in DOMAIN entries : entries'[i].seq = entries[i].seq
      BY <2>2, <2>3, <2>4
    <3> QED BY <1>1, <2>2, <2>7, <3>1 DEF Serials
  <2>9. Rows'
    BY <1>1, <2>1, <2>2, <2>3, <2>4, RowsNoted
  <2>10. trail' \subseteq Row /\ Shelf \in Screens
    <3>1. Here.seq \in 0 .. MaxEntries /\ trail \subseteq Row /\ Shelf \in Screens
      BY HereFacts, TypeFacts, Bounds
    <3> QED BY <2>1, <3>1, NotedType
  <2>11. AddressIsShown' /\ PanelsBehind'
    BY <1>1, <2>1, <2>3 DEF AddressIsShown, PanelsBehind, Here
  <2>12. TypeOK'
    <3>1. entries' \in Seq(Entry) /\ Len(entries') \in 1 .. MaxEntries /\ cur' \in DOMAIN entries'
      BY <2>1, <2>2 DEF EntryList, TypeOK
    <3>2. panels' \in 0 .. MaxPanels /\ shown' \in Screens /\ mixed' \in BOOLEAN
          /\ strayed' \in BOOLEAN
      BY <1>1, <2>1, <2>10 DEF TypeOK
    <3>3. going' \in AskList /\ Len(going') <= 2
      BY <2>1, GoingKept
    <3> QED BY <1>2, <2>10, <3>1, <3>2, <3>3 DEF TypeOK, AskList, Asking, SurfaceList, Surface, Row
  <2> QED BY <1>2, <2>8, <2>9, <2>11, <2>12
<1> QED BY <1>3, <1>4

LEMMA CloseSurfaceBasic ==
  ASSUME BInv, CloseSurface PROVE BInv'
<1> USE DEF BInv
<1> DEFINE n == Len(surfaces)
<1>1. surfaces \in SurfaceList /\ n \in Nat /\ DOMAIN surfaces = 1 .. n /\ n >= 1
  BY TypeFacts DEF CloseSurface, SurfaceList
<1>2. surfaces' = SubSeq(surfaces, 1, n - 1) /\ Asked(GivesBack(Top))
      /\ UNCHANGED <<entries, cur, shown, panels, trail, mixed>>
      /\ strayed' = (strayed \/ Raced(GivesBack(Top)) \/ Here.kind # "surface")
  BY DEF CloseSurface
<1>3. n - 1 \in 0 .. n
  BY <1>1
<1>4. surfaces' \in SurfaceList /\ DOMAIN surfaces' = 1 .. (n - 1)
      /\ \A i \in 1 .. (n - 1) : surfaces'[i] = surfaces[i]
  BY <1>1, <1>2, <1>3, FirstOnes DEF SurfaceList
<1>5. FirstSteps'
  BY <1>1, <1>4 DEF FirstSteps
<1>6. going' \in AskList /\ Len(going') <= 2
  BY <1>2, GivesBackType, AskedType
<1>7. strayed' \in BOOLEAN /\ trail' \subseteq Row
  BY <1>2, TypeFacts
<1> QED BY <1>2, <1>4, <1>5, <1>6, <1>7, StillBasic

LEMMA StepInBasic ==
  ASSUME BInv, StepIn PROVE BInv'
<1> USE DEF BInv
<1>1. /\ Len(surfaces) = 1 /\ DOMAIN surfaces = 1 .. 1 /\ surfaces[1] \in Surface
      /\ surfaces \in Seq(Surface) /\ surfaces[1].steps < MaxSteps
      /\ surfaces' = [surfaces EXCEPT ![1].steps = @ + 1]
      /\ UNCHANGED <<entries, cur, going, shown, panels, trail, strayed, mixed>>
  BY TypeFacts DEF StepIn
<1> DEFINE x == [surfaces[1] EXCEPT !.steps = @ + 1]
<1>2. x \in Surface
  BY <1>1, Bounds DEF Surface
<1>3. surfaces' = [surfaces EXCEPT ![1] = x]
  BY <1>1
<1> HIDE DEF x
<1>4. surfaces' \in SurfaceList /\ DOMAIN surfaces' = 1 .. 1
  <2>1. surfaces \in [1 .. 1 -> Surface]
    BY <1>1
  <2>2. surfaces' \in [1 .. 1 -> Surface]
    BY <1>2, <1>3, <2>1
  <2>3. \A g \in [1 .. 1 -> Surface] : g \in Seq(Surface)
    BY SeqDef
  <2> QED BY <2>2, <2>3 DEF SurfaceList
<1>5. FirstSteps'
  BY <1>4 DEF FirstSteps
<1>6. going' \in AskList /\ Len(going') <= 2
  BY <1>1, GoingKept
<1>7. strayed' \in BOOLEAN /\ trail' \subseteq Row
  BY <1>1, TypeFacts DEF TypeOK
<1> QED BY <1>1, <1>4, <1>5, <1>6, <1>7, StillBasic

\* A traversal is asked for, and no more.
LEMMA AskBasic ==
  ASSUME BInv, NEW by \in (-MaxEntries)..MaxEntries, NEW to \in Screens,
         Asked(<<Ask(by, TRUE, to)>>), strayed' = (strayed \/ ~Quiet),
         UNCHANGED <<entries, cur, pageVars, trail, mixed>>
  PROVE  BInv'
<1>1. going' \in AskList /\ Len(going') <= 2
  BY AskType, AskedType DEF BInv
<1>2. UNCHANGED <<entries, cur, shown, mixed>> /\ panels' = panels /\ surfaces' = surfaces
      /\ trail' = trail
  BY DEF pageVars
<1>3. strayed' \in BOOLEAN /\ trail' \subseteq Row
  BY <1>2, TypeFacts DEF BInv
<1>4. surfaces' \in SurfaceList /\ FirstSteps'
  BY <1>2, SurfacesKept DEF BInv
<1> QED BY <1>1, <1>2, <1>3, <1>4, StillBasic

LEMMA PanelBasic ==
  ASSUME BInv, PanelBack \/ PanelClose PROVE BInv'
<1>1. /\ -1 \in (-MaxEntries)..MaxEntries /\ shown \in Screens
      /\ -panels \in (-MaxEntries)..MaxEntries
  <2>1. MaxEntries \in Nat /\ MaxEntries >= 1 /\ shown \in Screens /\ panels \in Nat
    BY TypeFacts, Bounds DEF BInv
  <2>2. panels <= Here.panel /\ Here.panel <= Here.seq /\ Here.seq < MaxEntries
        /\ Here.panel \in Nat /\ Here.seq \in Nat
    BY HereFacts DEF BInv, PanelsBehind
  <2> QED BY <2>1, <2>2
<1>2. CASE PanelBack
  BY <1>1, <1>2, AskBasic DEF PanelBack
<1>3. CASE PanelClose
  BY <1>1, <1>3, AskBasic DEF PanelClose
<1> QED BY <1>2, <1>3

LEMMA RecentFacts ==
  ASSUME BInv, NEW row \in recentRoutes
  PROVE  /\ row \in trail /\ row \in Row /\ row.seq \in Nat /\ row.path \in Screens
         /\ row.seq < Here.seq
<1>1. row \in trail /\ row.seq < Here.seq
  BY DEF recentRoutes, Latest
<1>2. row \in Row
  BY <1>1, TypeFacts DEF BInv
<1> QED BY <1>1, <1>2, Bounds DEF Row

LEMMA JumpBasic ==
  ASSUME BInv, NEW row \in recentRoutes, jumpBack(row) PROVE BInv'
<1>1. -Distance(row) \in (-MaxEntries)..MaxEntries /\ row.path \in Screens
  BY RecentFacts, HereFacts, Bounds DEF Distance
<1> QED BY <1>1, AskBasic DEF jumpBack

LEMMA TitleBasic ==
  ASSUME BInv, TitleArrives PROVE BInv'
<1> USE DEF BInv
<1>1. /\ trail' = Noted(trail, Here.seq, shown)
      /\ UNCHANGED <<entries, cur, going, shown, surfaces, panels, strayed, mixed>>
  BY DEF TitleArrives, pageVars
<1>2. trail' \subseteq Row
  <2>1. Here.seq \in 0 .. MaxEntries /\ trail \subseteq Row /\ shown \in Screens
    BY HereFacts, TypeFacts, Bounds
  <2> QED BY <1>1, <2>1, NotedType
<1>3. Rows'
  BY <1>1, HereFacts, RowsNoted
<1>4. surfaces' \in SurfaceList /\ FirstSteps' /\ going' \in AskList /\ Len(going') <= 2
  BY <1>1, SurfacesKept, GoingKept
<1>5. strayed' \in BOOLEAN
  BY <1>1 DEF TypeOK
<1> QED BY <1>1, <1>2, <1>3, <1>4, <1>5, StillBasic

LEMMA GestureBasic ==
  ASSUME BInv, NEW by \in {-1, 1}, Gesture(by) PROVE BInv'
<1> USE DEF BInv
<1>1. /\ going' = <<Ask(by, FALSE, shown)>>
      /\ UNCHANGED <<entries, cur, shown, surfaces, panels, trail, strayed, mixed>>
  BY DEF Gesture, pageVars
<1>2. Ask(by, FALSE, shown) \in Asking
  BY TypeFacts, Bounds DEF Ask, Asking
<1>3. \A x \in Asking : <<x>> \in Seq(Asking) /\ Len(<<x>>) <= 2
  OBVIOUS
<1>4. going' \in AskList /\ Len(going') <= 2
  BY <1>1, <1>2, <1>3 DEF AskList
<1>5. surfaces' \in SurfaceList /\ FirstSteps' /\ strayed' \in BOOLEAN /\ trail' \subseteq Row
  BY <1>1, SurfacesKept, TypeFacts DEF TypeOK
<1> QED BY <1>1, <1>4, <1>5, StillBasic

\* The page at an entry, after a traversal or a load.
LEMMA ArrivedBasic ==
  ASSUME BInv, entries' = entries, cur' \in DOMAIN entries,
         shown' = entries[cur'].path, panels' \in Nat, panels' <= entries[cur'].panel,
         mixed' = mixed \/ mixed' = TRUE, strayed' \in BOOLEAN,
         going' \in AskList, Len(going') <= 2,
         surfaces' \in SurfaceList, FirstSteps',
         \/ trail' = trail
         \/ trail' = Noted(trail, entries[cur'].seq, entries[cur'].path)
  PROVE  BInv'
<1> USE DEF BInv
<1>1. entries[cur'] \in Entry /\ trail \subseteq Row
  BY TypeFacts
<1>2. /\ entries[cur'].path \in Screens /\ entries[cur'].seq \in 0 .. MaxEntries
      /\ entries[cur'].panel \in Nat /\ entries[cur'].panel <= MaxPanels
  BY <1>1, EntryFacts, Bounds
<1>3. trail' \subseteq Row
  BY <1>1, <1>2, NotedType
<1>4. Rows'
  <2>1. CASE mixed' = TRUE
    BY <2>1 DEF Rows
  <2>2. CASE mixed' = mixed /\ trail' = trail
    BY <2>2 DEF Rows
  <2>3. CASE mixed' = mixed /\ trail' = Noted(trail, entries[cur'].seq, entries[cur'].path)
    BY <2>3, RowsNoted
  <2> QED BY <2>1, <2>2, <2>3
<1>5. Serials'
  BY SerialsKept
<1>6. AddressIsShown' /\ PanelsBehind'
  BY DEF AddressIsShown, PanelsBehind, Here
<1>7. TypeOK'
  <2>1. entries' \in Seq(Entry) /\ Len(entries') \in 1 .. MaxEntries /\ cur' \in DOMAIN entries'
    BY DEF TypeOK
  <2>2. panels' \in 0 .. MaxPanels /\ shown' \in Screens
    BY <1>2, Bounds
  <2>3. mixed' \in BOOLEAN
    <3>1. mixed \in BOOLEAN
      BY DEF TypeOK
    <3>2. CASE mixed' = mixed
      BY <3>1, <3>2
    <3>3. CASE mixed' = TRUE
      BY <3>3
    <3> QED BY <3>2, <3>3
  <2> QED BY <2>3, <1>3, <2>1, <2>2 DEF TypeOK, AskList, Asking, SurfaceList, Surface, Row
<1> QED BY <1>4, <1>5, <1>6, <1>7

LEMMA ReloadBasic ==
  ASSUME BInv, Reload PROVE BInv'
<1>1. /\ entries' = entries /\ cur' = cur /\ mixed' = mixed /\ shown' = Here.path
      /\ surfaces' = <<>> /\ panels' = 0 /\ trail' = Noted(trail, Here.seq, Here.path)
      /\ going' = <<>> /\ strayed' = (strayed \/ Here.kind # "route")
  BY DEF Reload, Loaded
<1>2. cur \in DOMAIN entries /\ Here = entries[cur] /\ Here.panel \in Nat /\ 0 <= Here.panel
  BY HereFacts
<1>3. strayed' \in BOOLEAN /\ panels' \in Nat
  BY <1>1
<1> QED BY <1>1, <1>2, <1>3, GoingDone, NoneOpen, ArrivedBasic

\* Where the traversal at the head leads.
Target == cur + Head(going).by

LEMMA GoingTail ==
  ASSUME TypeOK, ~Quiet
  PROVE  /\ Tail(going) \in AskList /\ Len(Tail(going)) <= 1 /\ Len(Tail(going)) \in Nat
         /\ Len(Tail(going)) = Len(going) - 1
         /\ Head(going) \in Asking /\ Head(going) = going[1] /\ Target \in Int
<1>1. going \in Seq(Asking) /\ going # <<>> /\ Len(going) <= 2
  BY DEF TypeOK, Asking, Quiet
<1>2. /\ Tail(going) \in Seq(Asking) /\ Len(Tail(going)) = Len(going) - 1
      /\ Head(going) \in Asking /\ Head(going) = going[1] /\ Len(going) \in Nat
      /\ Len(going) # 0
  BY <1>1, HeadTailProperties, EmptySeq
<1>3. Head(going).by \in Int
  BY <1>2, Bounds DEF Asking
<1>4. Target \in Int
  BY <1>3, TypeFacts DEF Target
<1> QED BY <1>1, <1>2, <1>4 DEF AskList

LEMMA TraverseBasic ==
  ASSUME BInv, Traverse PROVE BInv'
<1> USE DEF BInv
<1>1. ~Quiet
  BY DEF Traverse
<1>2. Tail(going) \in AskList /\ Len(Tail(going)) <= 1 /\ Len(Tail(going)) \in Nat
  BY <1>1, GoingTail
<1>3. CASE Target \notin DOMAIN entries
  <2>1. /\ going' = Tail(going)
        /\ UNCHANGED <<entries, cur, shown, surfaces, panels, trail, strayed, mixed>>
    BY <1>3 DEF Traverse, Target, pageVars
  <2>2. surfaces' \in SurfaceList /\ FirstSteps' /\ strayed' \in BOOLEAN /\ trail' \subseteq Row
    BY <2>1, SurfacesKept, TypeFacts DEF TypeOK
  <2>3. going' \in AskList /\ Len(going') <= 2
    BY <1>2, <2>1
  <2> QED BY <2>1, <2>2, <2>3, StillBasic
<1>4. CASE Target \in DOMAIN entries
  <2> DEFINE e == entries[Target]
  <2>1. /\ cur' = Target /\ entries' = entries
        /\ strayed' = (strayed \/ OutlivesItsEntry(e)
                           \/ (e.kind # "route" /\ (Head(going).by > 0 \/ e.doc # Here.doc)))
    BY <1>4 DEF Traverse, Target
  <2>2. strayed' \in BOOLEAN
    BY <2>1
  <2>3. /\ e.panel \in Nat /\ e.path \in Screens /\ e.over \in Nat
        /\ panels \in Nat
    <3>1. e \in Entry
      BY <1>4, TypeFacts
    <3> QED BY <3>1, EntryFacts, TypeFacts
  <2>4. CASE e.doc # Here.doc
    <3>1. Loaded(e) /\ going' = <<>> /\ mixed' = TRUE
      BY <1>4, <2>4 DEF Traverse, Target
    <3>2. shown' = e.path /\ surfaces' = <<>> /\ panels' = 0 /\ trail' = Noted(trail, e.seq, e.path)
      BY <3>1 DEF Loaded
    <3>3. panels' \in Nat /\ panels' <= e.panel
      BY <2>3, <3>2
    <3> QED BY <1>4, <2>1, <2>2, <3>1, <3>2, <3>3, GoingDone, NoneOpen, ArrivedBasic
  <2>5. CASE e.doc = Here.doc
    <3>1. Popped(e) /\ mixed' = mixed
      BY <1>4, <2>5 DEF Traverse, Target
    <3>2. surfaces' = BackPop(e.over)
      BY <3>1 DEF Popped
    <3>3. surfaces' \in SurfaceList /\ FirstSteps'
      BY <2>3, <3>2, BackPopType DEF SurfaceList, FirstSteps
    <3>4. CASE popIsOverlay(e)
      <4>1. /\ panels' = IF e.panel < panels THEN e.panel ELSE panels
            /\ going' = Tail(going) /\ shown' = shown /\ trail' = trail /\ e.path = shown
        BY <3>1, <3>4 DEF Popped, popIsOverlay
      <4>2. panels' \in Nat /\ panels' <= e.panel /\ shown' = e.path
        BY <2>3, <4>1
      <4>3. going' \in AskList /\ Len(going') <= 2
        BY <1>2, <4>1
      <4> QED BY <1>4, <2>1, <2>2, <3>1, <3>3, <4>1, <4>2, <4>3, ArrivedBasic
    <3>5. CASE ~popIsOverlay(e)
      <4> DEFINE back == IF panels > 0 /\ e.panel > 0 THEN <<Ask(-panels, TRUE, e.path)>> ELSE <<>>
      <4>1. /\ panels' = 0 /\ shown' = e.path /\ trail' = Noted(trail, e.seq, e.path)
            /\ going' = Tail(going) \o back
        BY <3>1, <3>5 DEF Popped
      <4>2. panels' \in Nat /\ panels' <= e.panel
        BY <2>3, <4>1
      <4>3. back \in AskList /\ Len(back) <= 1 /\ Len(back) \in Nat
        <5>1. -panels \in (-MaxEntries)..MaxEntries
          <6>1. MaxEntries \in Nat /\ Here.panel \in Nat /\ Here.seq \in Nat
                /\ panels <= Here.panel /\ Here.panel <= Here.seq /\ Here.seq < MaxEntries
            BY HereFacts, Bounds DEF PanelsBehind
          <6> QED BY <2>3, <6>1
        <5>2. <<Ask(-panels, TRUE, e.path)>> \in AskList
          BY <2>3, <5>1, AskType
        <5>3. <<>> \in AskList /\ Len(<<>>) = 0
          BY DEF AskList
        <5>4. Len(<<Ask(-panels, TRUE, e.path)>>) = 1
          OBVIOUS
        <5>5. CASE panels > 0 /\ e.panel > 0
          BY <5>2, <5>4, <5>5
        <5>6. CASE ~(panels > 0 /\ e.panel > 0)
          BY <5>3, <5>6
        <5> QED BY <5>5, <5>6
      <4>4. going' \in AskList /\ Len(going') <= 2
        <5> HIDE DEF back
        <5>1. Tail(going) \o back \in AskList
              /\ Len(Tail(going) \o back) = Len(Tail(going)) + Len(back)
          BY <1>2, <4>3, ConcatProperties DEF AskList
        <5> QED BY <1>2, <4>1, <4>3, <5>1
      <4> QED BY <1>4, <2>1, <2>2, <3>1, <3>3, <4>1, <4>2, <4>4, ArrivedBasic
    <3> QED BY <3>4, <3>5
  <2> QED BY <2>4, <2>5
<1> QED BY <1>3, <1>4

LEMMA FreshLoadBasic ==
  ASSUME BInv, NEW path \in Screens, FreshLoad(path) PROVE BInv'
<1> USE DEF BInv
<1> DEFINE x == FreshEntry(path)
           last == entries[Len(entries)]
<1>1. /\ entries \in Seq(Entry) /\ entries \in EntryList /\ cur \in 0 .. Len(entries)
      /\ cur \in 1 .. Len(entries) /\ cur \in Nat /\ Len(entries) \in DOMAIN entries
      /\ Len(entries) \in Nat /\ DOMAIN entries = 1 .. Len(entries)
  BY TypeFacts DEF EntryList
<1>2. /\ cur + 1 <= MaxEntries /\ last.doc < MaxDocs
      /\ entries' = Append(SubSeq(entries, 1, cur), x) /\ cur' = cur + 1
      /\ Loaded(x) /\ going' = <<>> /\ mixed' = TRUE /\ strayed' = strayed
  BY <1>1, Bounds DEF FreshLoad
<1>3. last \in Entry /\ last.doc \in Nat /\ last.doc >= 1
  BY <1>1, EntryFacts
<1>4. x \in Entry /\ x.seq = 0 /\ x.depth = 0 /\ x.panel = 0 /\ x.over = 0 /\ x.path = path
      /\ x.doc = last.doc + 1 /\ x.kind = "route"
  <2>1. 0 \in 0 .. MaxEntries /\ 0 \in 0 .. MaxSurfaces /\ 0 \in 0 .. MaxPanels
        /\ last.doc + 1 \in 1 .. MaxDocs
    BY <1>2, <1>3, Bounds
  <2> HIDE DEF last
  <2>2. x = [path |-> path, depth |-> 0, seq |-> 0, over |-> 0, panel |-> 0,
             doc |-> last.doc + 1, kind |-> "route"]
    BY DEF FreshEntry, last
  <2> QED BY <2>1, <2>2 DEF Entry
<1> HIDE DEF x, last
<1>5. /\ entries' \in EntryList /\ Len(entries') = cur + 1 /\ DOMAIN entries' = 1 .. (cur + 1)
      /\ (\A i \in 1 .. cur : entries'[i] = entries[i]) /\ entries'[cur + 1] = x
  BY <1>1, <1>2, <1>4, PutBehind DEF EntryList
<1>6. \A i \in 1 .. cur : Alike(entries, entries', i)
  <2>1. \A i \in 1 .. cur : entries[i].panel \in Nat
    BY <1>1, InList
  <2> QED BY <1>1, <1>5, <2>1 DEF Alike
<1>7. ASSUME NEW i \in 1 .. cur PROVE SerialAt(entries', i)
  <2>1. i \in 1 .. Len(entries) /\ i <= Len(entries') /\ SerialAt(entries, i)
    BY <1>1, <1>5 DEF Serials
  <2> QED BY <1>1, <1>5, <1>6, <2>1, SerialAlike
<1>8. SerialAt(entries', cur + 1)
  <2>1. \A j \in 1 .. cur : entries'[j].doc < entries'[cur + 1].doc
    <3> SUFFICES ASSUME NEW j \in 1 .. cur PROVE entries'[j].doc < entries'[cur + 1].doc
      OBVIOUS
    <3>1. SerialAt(entries, Len(entries)) /\ j \in 1 .. Len(entries) /\ entries[j].doc \in Nat
      BY <1>1, InList DEF Serials
    <3>2. entries[j].doc <= last.doc
      BY <3>1 DEF SerialAt, last
    <3> QED BY <1>3, <1>4, <1>5, <3>1, <3>2
  <2>2. cur \in 1 .. Len(entries')
    BY <1>1, <1>5
  <2>3. /\ entries'[cur + 1].seq = 0 /\ entries'[cur + 1].depth = 0 /\ entries'[cur + 1].panel = 0
        /\ cur + 1 <= Len(entries')
    BY <1>1, <1>4, <1>5
  <2> QED BY <1>5, <2>1, <2>2, <2>3, SerialFresh
<1>9. Serials'
  <2>1. \A i \in DOMAIN entries' : SerialAt(entries', i)
    BY <1>1, <1>5, <1>7, <1>8
  <2> QED BY <1>2, <2>1 DEF Serials
<1>10. /\ shown' = path /\ surfaces' = <<>> /\ panels' = 0
       /\ trail' = Noted(trail, 0, path)
  BY <1>2, <1>4 DEF Loaded
<1>11. trail' \subseteq Row
  <2>1. 0 \in 0 .. MaxEntries /\ trail \subseteq Row
    BY TypeFacts, Bounds
  <2> QED BY <1>10, <2>1, NotedType
<1>12. surfaces' \in SurfaceList /\ FirstSteps' /\ going' \in AskList /\ Len(going') <= 2
  BY <1>2, <1>10, NoneOpen, GoingDone
<1>13. TypeOK'
  <2>1. entries' \in Seq(Entry) /\ Len(entries') \in 1 .. MaxEntries /\ cur' \in DOMAIN entries'
    BY <1>1, <1>2, <1>5, Bounds DEF EntryList
  <2>2. panels' \in 0 .. MaxPanels /\ shown' \in Screens /\ mixed' \in BOOLEAN /\ strayed' \in BOOLEAN
    BY <1>2, <1>10, Bounds DEF TypeOK
  <2> QED BY <1>11, <1>12, <2>1, <2>2 DEF TypeOK, AskList, Asking, SurfaceList, Surface, Row
<1>14. AddressIsShown' /\ PanelsBehind'
  <2>1. Here' = x
    BY <1>2, <1>5 DEF Here
  <2>2. shown' = x.path /\ panels' = x.panel /\ panels' \in Nat
    BY <1>4, <1>10
  <2> QED BY <2>1, <2>2 DEF AddressIsShown, PanelsBehind
<1>15. Rows'
  BY <1>2 DEF Rows
<1> QED BY <1>9, <1>12, <1>13, <1>14, <1>15

LEMMA NextBasic ==
  ASSUME BInv, [Next]_vars PROVE BInv'
<1>1. CASE OpenSurface
  BY <1>1, OpenSurfaceBasic
<1>2. CASE StepIn
  BY <1>2, StepInBasic
<1>3. CASE CloseSurface
  BY <1>3, CloseSurfaceBasic
<1>4. CASE PushPanel
  BY <1>4, PushPanelBasic
<1>5. CASE PanelBack \/ PanelClose
  BY <1>5, PanelBasic
<1>6. CASE Arrow
  BY <1>6, ArrowBasic
<1>7. CASE TitleArrives
  BY <1>7, TitleBasic
<1>8. ASSUME NEW path \in Screens, Go(path) PROVE BInv'
  BY <1>8, GoBasic
<1>9. ASSUME NEW path \in Screens, LeaveTo(path) PROVE BInv'
  BY <1>9, LeaveToBasic
<1>10. ASSUME NEW row \in recentRoutes, jumpBack(row) PROVE BInv'
  BY <1>10, JumpBasic
<1>11. CASE Traverse
  BY <1>11, TraverseBasic
<1>12. CASE Reload
  BY <1>12, ReloadBasic
<1>13. ASSUME NEW by \in {-1, 1}, Gesture(by) PROVE BInv'
  BY <1>13, GestureBasic
<1>14. ASSUME NEW path \in Screens, FreshLoad(path) PROVE BInv'
  BY <1>14, FreshLoadBasic
<1>15. CASE UNCHANGED vars
  <2>1. UNCHANGED <<entries, cur, going, shown, surfaces, panels, trail, strayed, mixed>>
    BY <1>15 DEF vars, pageVars
  <2>2. surfaces' \in SurfaceList /\ FirstSteps' /\ going' \in AskList /\ Len(going') <= 2
    BY <2>1, SurfacesKept, GoingKept DEF BInv
  <2>3. strayed' \in BOOLEAN /\ trail' \subseteq Row
    BY <2>1, TypeFacts DEF BInv, TypeOK
  <2> QED BY <2>1, <2>2, <2>3, StillBasic
<1>16. CASE Page
  BY <1>1, <1>2, <1>3, <1>4, <1>5, <1>6, <1>7, <1>8, <1>9, <1>10, <1>16 DEF Page
<1>17. CASE Browser
  BY <1>11, <1>12, <1>13, <1>14, <1>17 DEF Browser
<1> QED BY <1>15, <1>16, <1>17 DEF Next

(***************************************************************************)
(* While nothing has strayed.                                              *)
(***************************************************************************)
LEMMA StackSame ==
  ASSUME NEW es \in EntryList, NEW fs \in EntryList, NEW i \in 1 .. Len(es), i <= Len(fs),
         \A j \in 1 .. i : fs[j] = es[j], SerialAt(es, i), StackAt(es, i)
  PROVE  StackAt(fs, i)
<1> USE InList
<1>1. /\ i \in Nat /\ es[i].seq \in Nat /\ es[i].over \in Nat /\ es[i].panel \in Nat
      /\ fs[i] = es[i] /\ Len(es) \in Nat
  <2>1. i \in Nat /\ i \in 1 .. i
    OBVIOUS
  <2> QED BY <2>1
<1>2. es[i].seq < i /\ es[i].over + es[i].panel <= es[i].seq
  BY DEF SerialAt, StackAt
<1>3. \A j \in (i - (es[i].over + es[i].panel)) .. i : j \in 1 .. i
  BY <1>1, <1>2
<1>4. \A j \in (i - es[i].seq) .. i : j \in 1 .. i
  BY <1>1, <1>2
<1>5. \A j \in (i - (fs[i].over + fs[i].panel)) .. i :
        fs[j].path = fs[i].path /\ fs[j].over <= fs[i].over /\ fs[j].panel <= fs[i].panel
  BY <1>1, <1>3 DEF StackAt
<1>6. fs[i].kind = "route" =>
        /\ fs[i].over = 0 /\ fs[i].panel = 0
        /\ \A j \in (i - fs[i].seq) .. i : fs[j].kind = "route"
  BY <1>1, <1>4 DEF StackAt
<1>7. fs[i].kind = "surface" =>
        fs[i].over >= 1 /\ fs[i].over = fs[i - 1].over + 1 /\ fs[i].panel = fs[i - 1].panel
  <2> SUFFICES ASSUME fs[i].kind = "surface"
               PROVE fs[i].over >= 1 /\ fs[i].over = fs[i - 1].over + 1 /\ fs[i].panel = fs[i - 1].panel
    OBVIOUS
  <2>1. es[i].over >= 1 /\ es[i].over = es[i - 1].over + 1 /\ es[i].panel = es[i - 1].panel
    BY <1>1 DEF StackAt
  <2>2. i - 1 \in 1 .. i
    <3>1. i >= 2
      BY <1>1, <1>2, <2>1
    <3> QED BY <1>1, <3>1
  <2> QED BY <1>1, <2>1, <2>2
<1>8. fs[i].kind = "panel" =>
        fs[i].panel >= 1 /\ fs[i].over = fs[i - 1].over /\ fs[i].panel = fs[i - 1].panel + 1
  <2> SUFFICES ASSUME fs[i].kind = "panel"
               PROVE fs[i].panel >= 1 /\ fs[i].over = fs[i - 1].over /\ fs[i].panel = fs[i - 1].panel + 1
    OBVIOUS
  <2>1. es[i].panel >= 1 /\ es[i].over = es[i - 1].over /\ es[i].panel = es[i - 1].panel + 1
    BY <1>1 DEF StackAt
  <2>2. i - 1 \in 1 .. i
    <3>1. i >= 2
      BY <1>1, <1>2, <2>1
    <3> QED BY <1>1, <3>1
  <2> QED BY <1>1, <2>1, <2>2
<1> QED BY <1>1, <1>2, <1>5, <1>6, <1>7, <1>8 DEF StackAt

\* A surface or a panel over the i-th entry.
LEMMA OneUp ==
  ASSUME NEW i \in Nat, NEW o \in Nat, NEW q, q = o + 1,
         NEW j \in ((i + 1) - q) .. (i + 1), j # i + 1
  PROVE  j \in (i - o) .. i
OBVIOUS

LEMMA Within ==
  ASSUME NEW i \in Nat, NEW n \in Nat, i <= n, NEW o \in Nat, o < i, NEW j \in (i - o) .. i
  PROVE  j \in 1 .. n
OBVIOUS

LEMMA StackOver ==
  ASSUME NEW fs \in EntryList, NEW i \in 1 .. Len(fs), i + 1 <= Len(fs),
         SerialAt(fs, i), StackAt(fs, i),
         fs[i + 1].seq = fs[i].seq + 1, fs[i + 1].path = fs[i].path,
         \/ /\ fs[i + 1].kind = "surface"
            /\ fs[i + 1].over = fs[i].over + 1 /\ fs[i + 1].panel = fs[i].panel
         \/ /\ fs[i + 1].kind = "panel"
            /\ fs[i + 1].over = fs[i].over /\ fs[i + 1].panel = fs[i].panel + 1
  PROVE  StackAt(fs, i + 1)
<1>1. /\ i \in Nat /\ i + 1 \in 1 .. Len(fs) /\ Len(fs) \in Nat
      /\ fs[i].seq \in Nat /\ fs[i].over \in Nat /\ fs[i].panel \in Nat
      /\ fs[i + 1].over \in Nat /\ fs[i + 1].panel \in Nat
      /\ \A j \in 1 .. Len(fs) : fs[j].over \in Nat /\ fs[j].panel \in Nat
  BY InList
<1>2. /\ fs[i + 1].over + fs[i + 1].panel = fs[i].over + fs[i].panel + 1
      /\ fs[i].over <= fs[i + 1].over /\ fs[i].panel <= fs[i + 1].panel
  <2>1. CASE fs[i + 1].kind = "surface" /\ fs[i + 1].over = fs[i].over + 1
               /\ fs[i + 1].panel = fs[i].panel
    BY <1>1, <2>1
  <2>2. CASE fs[i + 1].kind = "panel" /\ fs[i + 1].over = fs[i].over
               /\ fs[i + 1].panel = fs[i].panel + 1
    BY <1>1, <2>2
  <2> QED BY <2>1, <2>2
<1>3. fs[i].over + fs[i].panel <= fs[i].seq /\ fs[i].seq < i
  BY DEF StackAt, SerialAt
<1>4. ASSUME NEW j \in ((i + 1) - (fs[i + 1].over + fs[i + 1].panel)) .. (i + 1)
      PROVE  /\ fs[j].path = fs[i + 1].path
             /\ fs[j].over <= fs[i + 1].over /\ fs[j].panel <= fs[i + 1].panel
  <2>1. CASE j = i + 1
    BY <1>1, <2>1
  <2>2. CASE j # i + 1
    <3>1. j \in (i - (fs[i].over + fs[i].panel)) .. i
      <4>1. /\ fs[i].over + fs[i].panel \in Nat
            /\ fs[i + 1].over + fs[i + 1].panel = (fs[i].over + fs[i].panel) + 1
        BY <1>1, <1>2
      <4> QED BY <1>1, <2>2, <4>1, OneUp
    <3>2. fs[j].path = fs[i].path /\ fs[j].over <= fs[i].over /\ fs[j].panel <= fs[i].panel
      BY <3>1 DEF StackAt
    <3>3. j \in 1 .. Len(fs)
      <4>1. /\ fs[i].over + fs[i].panel \in Nat /\ fs[i].over + fs[i].panel < i
            /\ i <= Len(fs)
        BY <1>1, <1>3
      <4> QED BY <1>1, <3>1, <4>1, Within
    <3>4. fs[j].over \in Nat /\ fs[j].panel \in Nat
      BY <1>1, <3>3
    <3>5. fs[j].over <= fs[i + 1].over
      BY <1>1, <1>2, <3>2, <3>4
    <3>6. fs[j].panel <= fs[i + 1].panel
      BY <1>1, <1>2, <3>2, <3>4
    <3> QED BY <3>2, <3>5, <3>6
  <2> QED BY <2>1, <2>2
<1>5. i + 1 - 1 = i
  BY <1>1
<1>6. fs[i + 1].over + fs[i + 1].panel <= fs[i + 1].seq
  BY <1>1, <1>2, <1>3
<1>7. CASE fs[i + 1].kind = "surface"
  <2>1. fs[i + 1].over = fs[i].over + 1 /\ fs[i + 1].panel = fs[i].panel
    BY <1>7
  <2> QED BY <1>1, <1>4, <1>5, <1>6, <1>7, <2>1 DEF StackAt
<1>8. CASE fs[i + 1].kind = "panel"
  <2>1. fs[i + 1].over = fs[i].over /\ fs[i + 1].panel = fs[i].panel + 1
    BY <1>8
  <2> QED BY <1>1, <1>4, <1>5, <1>6, <1>8, <2>1 DEF StackAt
<1> QED BY <1>7, <1>8

\* The entry of a screen.
LEMMA StackRoute ==
  ASSUME NEW fs \in EntryList, NEW i \in 1 .. Len(fs),
         fs[i].kind = "route", fs[i].over = 0, fs[i].panel = 0,
         fs[i].seq > 0 => /\ i - 1 \in 1 .. Len(fs) /\ StackAt(fs, i - 1)
                          /\ fs[i - 1].kind = "route" /\ fs[i].seq = fs[i - 1].seq + 1
  PROVE  StackAt(fs, i)
<1> USE InList
<1>1. i \in Nat /\ fs[i].seq \in Nat
  OBVIOUS
<1>2. ASSUME NEW j \in (i - fs[i].seq) .. i PROVE fs[j].kind = "route"
  <2>1. CASE j = i
    BY <2>1
  <2>2. CASE j # i
    <3>1. fs[i].seq > 0
      BY <1>1, <2>2
    <3>2. /\ StackAt(fs, i - 1) /\ fs[i - 1].kind = "route" /\ fs[i].seq = fs[i - 1].seq + 1
          /\ fs[i - 1].seq \in Nat
      BY <3>1
    <3>3. j \in ((i - 1) - fs[i - 1].seq) .. (i - 1)
      BY <1>1, <2>2, <3>2
    <3> QED BY <3>2, <3>3 DEF StackAt
  <2> QED BY <2>1, <2>2
<1>3. \A j \in (i - (0 + 0)) .. i : j = i
  BY <1>1
<1>4. fs[i].over <= fs[i].over /\ fs[i].panel <= fs[i].panel /\ 0 + 0 <= fs[i].seq
  BY <1>1
<1> QED BY <1>1, <1>2, <1>3, <1>4 DEF StackAt

LEMMA StackedGrow ==
  ASSUME BInv, Stacked, NEW x \in Entry, Grown(x), StackAt(entries', cur + 1)
  PROVE  Stacked'
<1>1. /\ entries \in EntryList /\ cur \in 1 .. Len(entries) /\ cur \in Nat
      /\ DOMAIN entries = 1 .. Len(entries)
      /\ entries' \in EntryList /\ Len(entries') = cur + 1 /\ DOMAIN entries' = 1 .. (cur + 1)
      /\ \A i \in 1 .. cur : entries'[i] = entries[i]
  BY TypeFacts, InList DEF BInv, EntryList, Grown
<1>2. ASSUME NEW i \in 1 .. cur PROVE StackAt(entries', i)
  <2>1. i \in 1 .. Len(entries) /\ i <= Len(entries') /\ \A j \in 1 .. i : entries'[j] = entries[j]
    BY <1>1
  <2>2. SerialAt(entries, i) /\ StackAt(entries, i)
    BY <1>1, <2>1 DEF BInv, Serials, Stacked
  <2> QED BY <1>1, <2>1, <2>2, StackSame
<1> QED BY <1>1, <1>2 DEF Stacked

\* The tab's entry while nothing has strayed.
LEMMA HereStack ==
  ASSUME BInv, InStep
  PROVE  /\ SerialAt(entries, cur) /\ StackAt(entries, cur)
         /\ Here.over + Here.panel <= Here.seq
         /\ \A k \in 0 .. (Here.over + Here.panel) :
              /\ cur - k \in DOMAIN entries
              /\ entries[cur - k].path = Here.path /\ entries[cur - k].doc = Here.doc
              /\ entries[cur - k].over <= Here.over /\ entries[cur - k].panel <= Here.panel
         /\ \A k \in 0 .. Here.seq : /\ cur - k \in DOMAIN entries
                                     /\ entries[cur - k].doc = Here.doc
         /\ Here.kind = "route" => /\ Here.over = 0 /\ Here.panel = 0
                                   /\ \A k \in 0 .. Here.seq : entries[cur - k].kind = "route"
         /\ Here.kind = "surface" => /\ Here.over >= 1 /\ Here.over = entries[cur - 1].over + 1
                                     /\ Here.panel = entries[cur - 1].panel
         /\ Here.kind = "panel" => /\ Here.panel >= 1 /\ Here.over = entries[cur - 1].over
                                   /\ Here.panel = entries[cur - 1].panel + 1
         /\ Here.kind \in {"route", "surface", "panel"}
<1>1. /\ Here = entries[cur] /\ cur \in DOMAIN entries /\ cur \in Nat /\ cur >= 1
      /\ cur <= Len(entries) /\ Len(entries) \in Nat /\ DOMAIN entries = 1 .. Len(entries)
      /\ Here.over \in Nat /\ Here.panel \in Nat /\ Here.seq \in Nat /\ Here.seq < cur
      /\ Here.kind \in {"route", "surface", "panel"}
  BY HereFacts, TypeFacts, EntryFacts DEF BInv
<1>2. SerialAt(entries, cur) /\ StackAt(entries, cur)
  BY <1>1 DEF BInv, InStep, Serials, Stacked
<1>3. Here.over + Here.panel <= Here.seq /\ Here.over + Here.panel \in Nat
  BY <1>1, <1>2 DEF StackAt
<1>4. ASSUME NEW k \in 0 .. Here.seq
      PROVE  /\ cur - k \in DOMAIN entries /\ entries[cur - k].doc = Here.doc
             /\ Here.kind = "route" => entries[cur - k].kind = "route"
  <2>1. cur - k \in (cur - Here.seq) .. cur /\ cur - k \in DOMAIN entries
    BY <1>1
  <2> QED BY <1>1, <1>2, <2>1 DEF SerialAt, StackAt
<1>5. ASSUME NEW k \in 0 .. (Here.over + Here.panel)
      PROVE  /\ cur - k \in DOMAIN entries
             /\ entries[cur - k].path = Here.path /\ entries[cur - k].doc = Here.doc
             /\ entries[cur - k].over <= Here.over /\ entries[cur - k].panel <= Here.panel
  <2>1. k \in 0 .. Here.seq /\ cur - k \in (cur - (Here.over + Here.panel)) .. cur
    BY <1>1, <1>3
  <2> QED BY <1>1, <1>2, <1>4, <2>1 DEF StackAt
<1>6. /\ Here.kind = "route" => Here.over = 0 /\ Here.panel = 0
      /\ Here.kind = "surface" => /\ Here.over >= 1 /\ Here.over = entries[cur - 1].over + 1
                                  /\ Here.panel = entries[cur - 1].panel
      /\ Here.kind = "panel" => /\ Here.panel >= 1 /\ Here.over = entries[cur - 1].over
                                /\ Here.panel = entries[cur - 1].panel + 1
  BY <1>1, <1>2 DEF StackAt
<1> QED BY <1>1, <1>2, <1>3, <1>4, <1>5, <1>6

\* What is asked for while nothing is under way is what is under way.
LEMMA AskedAlone ==
  ASSUME TypeOK, NEW a, Asked(<<a>>), Quiet
  PROVE  going' = <<a>>
<1>1. going \o <<a>> = <<a>>
  BY DEF Quiet
<1>2. Len(<<a>>) = 1
  OBVIOUS
<1> QED BY <1>1, <1>2 DEF Asked

LEMMA AskedNothing ==
  ASSUME TypeOK, Asked(<<>>), Len(going) <= 1
  PROVE  going' = going
<1>1. going \o <<>> = going
  BY DEF TypeOK
<1>2. Len(going) \in Nat
  <2>1. going \in AskList
    BY DEF TypeOK, AskList, Asking
  <2> QED BY <2>1, LenProperties DEF AskList
<1> QED BY <1>1, <1>2 DEF Asked

\* An ask of the app's own, from where the tab is.
LEMMA AskInStep ==
  ASSUME BInv, InStep, Quiet, NEW by \in Int, NEW to,
         by < 0, -by <= Here.seq, ~mixed => entries[cur + by].path = to,
         Here.kind = "panel" => by \in {-1, -panels},
         Here.kind # "surface",
         Asked(<<Ask(by, TRUE, to)>>), UNCHANGED <<entries, cur, pageVars, mixed>>
  PROVE  InStep'
<1> DEFINE g == Ask(by, TRUE, to)
<1>1. going' = <<g>>
  BY AskedAlone DEF BInv
<1>2. Len(going') = 1 /\ going'[1] = g /\ ~Quiet'
  BY <1>1 DEF Quiet
<1>3. g.own = TRUE /\ g.by = by /\ g.to = to
  BY DEF Ask
<1>4. Stacked' /\ AllAnswer'
  BY DEF InStep, pageVars, Stacked, AllAnswer
<1>5. Level(Len(surfaces)) /\ Here.kind \in {"route", "panel"}
  BY HereStack DEF InStep, Asks
<1>6. Here' = Here /\ Level(Len(surfaces))' /\ panels' = panels /\ cur' = cur
  BY <1>5 DEF Here, Level, pageVars
<1>7. Asks'
  BY <1>2, <1>3, <1>5, <1>6 DEF Asks
<1> QED BY <1>4, <1>7 DEF InStep

\* What is under way is told apart by these alone.
LEMMA AsksKept ==
  ASSUME InStep, UNCHANGED <<entries, cur, going, panels, mixed>>,
         Len(surfaces') = Len(surfaces), AllAnswer'
  PROVE  InStep'
<1>1. Stacked'
  BY DEF InStep, Stacked
<1>2. Here' = Here /\ Quiet' = Quiet /\ Level(Len(surfaces))' = Level(Len(surfaces))
      /\ Level(Len(surfaces) + 1)' = Level(Len(surfaces) + 1)
  BY DEF Here, Quiet, Level
<1>3. Asks'
  BY <1>2 DEF InStep, Asks
<1> QED BY <1>1, <1>3 DEF InStep

\* Nothing under way, and the entry here that of what is open.
LEMMA InStepQuiet ==
  ASSUME Stacked', AllAnswer', going' = <<>>, Here'.over = Len(surfaces'), Here'.panel = panels'
  PROVE  InStep'
BY DEF InStep, Asks, Quiet, Level

LEMMA PushedOver ==
  ASSUME BInv, InStep, NEW x \in Entry, Grown(x), x.seq = Stamped, x.path = Here.path,
         \/ x.kind = "surface" /\ x.over = Here.over + 1 /\ x.panel = Here.panel
         \/ x.kind = "panel" /\ x.over = Here.over /\ x.panel = Here.panel + 1
  PROVE  Stacked' /\ Here' = x
<1>1. /\ entries \in EntryList /\ cur \in 1 .. Len(entries) /\ cur \in Nat
      /\ DOMAIN entries = 1 .. Len(entries) /\ Here = entries[cur]
      /\ entries' \in EntryList /\ Len(entries') = cur + 1 /\ cur' = cur + 1
      /\ entries'[cur + 1] = x
      /\ \A i \in 1 .. cur : entries'[i] = entries[i]
  BY TypeFacts, InList, HereFacts DEF BInv, EntryList, Grown
<1>2. /\ cur \in 1 .. Len(entries') /\ cur + 1 <= Len(entries') /\ cur <= Len(entries')
      /\ entries'[cur] = Here /\ Stamped = Here.seq + 1
      /\ \A j \in 1 .. cur : entries'[j] = entries[j]
  BY <1>1, HereFacts
<1>3. SerialAt(entries, cur) /\ StackAt(entries, cur)
  BY HereStack
<1>4. StackAt(entries', cur)
  BY <1>1, <1>2, <1>3, StackSame
<1>5. SerialAt(entries', cur)
  <2>1. Alike(entries, entries', cur)
    <3>1. \A i \in 1 .. cur : entries[i].panel \in Nat
      BY <1>1, InList
    <3> QED BY <1>1, <3>1 DEF Alike
  <2> QED BY <1>1, <1>2, <1>3, <2>1, SerialAlike
<1>6. StackAt(entries', cur + 1)
  BY <1>1, <1>2, <1>4, <1>5, StackOver
<1>7. Stacked'
  BY <1>6, StackedGrow DEF InStep
<1> QED BY <1>1, <1>7 DEF Here

LEMMA OpenSurfaceStraight ==
  ASSUME BInv, Straight, OpenSurface PROVE Straight'
<1> SUFFICES ASSUME ~strayed' PROVE InStep'
  BY DEF Straight
<1> DEFINE e == [Here EXCEPT !.over = Answering + 1, !.kind = "surface"]
           x == [e EXCEPT !.seq = Stamped]
           s == [steps |-> 0, answers |-> TRUE]
<1>0. Len(surfaces) + 1 <= MaxSurfaces /\ Len(surfaces) \in Nat
  BY TypeFacts, Bounds DEF OpenSurface, BInv
<1>1. /\ ~strayed /\ going = <<>> /\ going' = going /\ Push(e) /\ panels' = panels
      /\ surfaces' = Append(surfaces, s)
  <2>1. strayed' = (strayed \/ ~Quiet) /\ strayed \in BOOLEAN
    BY DEF OpenSurface, BInv, TypeOK
  <2>2. ~strayed /\ Quiet
    BY <2>1
  <2> QED BY <2>2 DEF OpenSurface, Quiet
<1>2. InStep
  BY <1>1 DEF Straight
<1>3. Answering = Len(surfaces) /\ Here.over = Len(surfaces) /\ Here.panel = panels
  BY <1>1, <1>2, AnsweringBound DEF InStep, Asks, Quiet, Level, BInv
<1>4. /\ x \in Entry /\ x.seq = Stamped /\ x.path = Here.path /\ x.kind = "surface"
      /\ x.over = Here.over + 1 /\ x.panel = Here.panel
  <2>1. Answering + 1 \in 0 .. MaxSurfaces
    BY <1>0, <1>3, Bounds
  <2>2. Stamped \in 0 .. MaxEntries
    BY HereFacts, Bounds
  <2> QED BY <1>3, <2>1, <2>2, HereFacts DEF Entry
<1>5. Grown(x)
  BY <1>1, <1>4, PushGrows DEF BInv
<1> HIDE DEF x, e
<1>6. Stacked' /\ Here' = x
  BY <1>2, <1>4, <1>5, PushedOver
<1>7. Len(surfaces') = Len(surfaces) + 1 /\ AllAnswer'
  <2>1. surfaces \in Seq(Surface) /\ s \in Surface /\ DOMAIN surfaces = 1 .. Len(surfaces)
    BY TypeFacts, Bounds DEF BInv, Surface
  <2>2. /\ Len(surfaces') = Len(surfaces) + 1 /\ DOMAIN surfaces' = 1 .. (Len(surfaces) + 1)
        /\ \A i \in 1 .. Len(surfaces) : surfaces'[i] = surfaces[i]
        /\ surfaces'[Len(surfaces) + 1] = s
    BY <1>0, <1>1, <2>1, AppendProperties
  <2>3. \A i \in DOMAIN surfaces' : i = Len(surfaces) + 1 \/ i \in DOMAIN surfaces
    BY <1>0, <2>1, <2>2
  <2> QED BY <1>2, <2>1, <2>2, <2>3 DEF InStep, AllAnswer
<1> QED BY <1>1, <1>3, <1>4, <1>6, <1>7, InStepQuiet

LEMMA PushPanelStraight ==
  ASSUME BInv, Straight, PushPanel PROVE Straight'
<1> SUFFICES ASSUME ~strayed' PROVE InStep'
  BY DEF Straight
<1> DEFINE e == [Here EXCEPT !.panel = panels + 1, !.kind = "panel"]
           x == [e EXCEPT !.seq = Stamped]
<1>0. panels + 1 \in 0 .. MaxPanels /\ panels \in Nat
  BY TypeFacts, Bounds DEF PushPanel, BInv
<1>1. /\ ~strayed /\ going = <<>> /\ going' = going /\ Push(e) /\ panels' = panels + 1
      /\ surfaces' = surfaces
  <2>1. strayed' = (strayed \/ ~Quiet) /\ strayed \in BOOLEAN
    BY DEF PushPanel, BInv, TypeOK
  <2>2. ~strayed /\ Quiet
    BY <2>1
  <2> QED BY <2>2 DEF PushPanel, Quiet
<1>2. InStep
  BY <1>1 DEF Straight
<1>3. Here.over = Len(surfaces) /\ Here.panel = panels
  BY <1>1, <1>2 DEF InStep, Asks, Quiet, Level
<1>4. /\ x \in Entry /\ x.seq = Stamped /\ x.path = Here.path /\ x.kind = "panel"
      /\ x.over = Here.over /\ x.panel = Here.panel + 1
  <2>1. Stamped \in 0 .. MaxEntries
    BY HereFacts, Bounds
  <2> QED BY <1>0, <1>3, <2>1, HereFacts DEF Entry
<1>5. Grown(x)
  BY <1>1, <1>4, PushGrows DEF BInv
<1> HIDE DEF x, e
<1>6. Stacked' /\ Here' = x
  BY <1>2, <1>4, <1>5, PushedOver
<1>7. AllAnswer'
  BY <1>1, <1>2 DEF InStep, AllAnswer
<1> QED BY <1>1, <1>3, <1>4, <1>6, <1>7, InStepQuiet

\* A surface gives its entry back as it closes.
LEMMA GivenBack ==
  ASSUME BInv, InStep, Quiet, Here.kind = "surface", Asked(<<Ask(-1, TRUE, shown)>>),
         UNCHANGED <<entries, cur, panels, mixed>>,
         Len(surfaces') + 1 = Len(surfaces), AllAnswer'
  PROVE  InStep'
<1> DEFINE g == Ask(-1, TRUE, shown)
<1>1. going' = <<g>>
  BY AskedAlone DEF BInv
<1>2. Len(going') = 1 /\ going'[1] = g /\ ~Quiet'
  BY <1>1 DEF Quiet
<1>3. g.own = TRUE /\ g.by = -1 /\ g.to = shown
  BY DEF Ask
<1>4. Stacked'
  BY DEF InStep, Stacked
<1>5. Level(Len(surfaces))
  BY DEF InStep, Asks
<1>6. Here' = Here /\ Level(Len(surfaces) + 1)'
  BY <1>5 DEF Here, Level
<1>7. 1 <= Here.seq /\ entries[cur + (-1)].path = shown /\ Here.seq \in Nat
  <2>1. Here.over >= 1 /\ Here.over + Here.panel <= Here.seq
        /\ Here.over \in Nat /\ Here.panel \in Nat /\ Here.seq \in Nat
    BY HereStack, HereFacts
  <2>2. 1 \in 0 .. (Here.over + Here.panel)
    BY <2>1
  <2>3. entries[cur - 1].path = Here.path /\ cur + (-1) = cur - 1
    BY <2>2, HereStack, TypeFacts DEF BInv
  <2> QED BY <2>1, <2>3, HereFacts
<1> HIDE DEF g
<1>8. g.by < 0 /\ -g.by <= Here.seq
  <2>1. \A n \in Int : n + 1 = 0 => n < 0 /\ -n = 1
    OBVIOUS
  <2>2. g.by + 1 = 0 /\ g.by \in Int
    BY <1>3
  <2>3. g.by < 0 /\ -g.by = 1
    BY <2>1, <2>2
  <2> QED BY <1>7, <2>3
<1>9. entries'[cur' + g.by].path = shown
  BY <1>3, <1>7
<1>10. Asks'
  BY <1>2, <1>3, <1>6, <1>8, <1>9 DEF Asks
<1> QED BY <1>4, <1>10 DEF InStep

\* A surface that closes while nothing has strayed gives its entry back.
LEMMA GivesBackFacts ==
  ASSUME BInv, InStep, surfaces # <<>>, Here.over >= 1
  PROVE  GivesBack(Top) = <<Ask(-1, TRUE, shown)>>
<1>1. surfaces \in Seq(Surface)
  BY TypeFacts DEF BInv
<1>2. Len(surfaces) # 0 /\ Len(surfaces) \in Nat /\ DOMAIN surfaces = 1 .. Len(surfaces)
  BY <1>1, EmptySeq, LenProperties, TypeFacts DEF BInv
<1>3. Len(surfaces) \in DOMAIN surfaces
  BY <1>2
<1>4. Top.answers = TRUE
  BY <1>3 DEF Top, InStep, AllAnswer
<1>5. Here.over > 0
  BY HereFacts
<1> QED BY <1>4, <1>5 DEF GivesBack

LEMMA LessOne ==
  ASSUME BInv, AllAnswer, surfaces # <<>>, surfaces' = SubSeq(surfaces, 1, Len(surfaces) - 1)
  PROVE  Len(surfaces') + 1 = Len(surfaces) /\ AllAnswer'
<1>1. surfaces \in Seq(Surface)
  BY TypeFacts DEF BInv
<1>2. Len(surfaces) # 0 /\ Len(surfaces) \in Nat /\ DOMAIN surfaces = 1 .. Len(surfaces)
  BY <1>1, EmptySeq, LenProperties, TypeFacts DEF BInv
<1>3. Len(surfaces) - 1 \in 0 .. Len(surfaces)
  BY <1>2
<1>4. /\ Len(surfaces') = Len(surfaces) - 1 /\ DOMAIN surfaces' = 1 .. (Len(surfaces) - 1)
      /\ \A i \in 1 .. (Len(surfaces) - 1) : surfaces'[i] = surfaces[i]
  BY <1>1, <1>3, FirstOnes
<1>5. \A i \in DOMAIN surfaces' : i \in DOMAIN surfaces
  BY <1>2, <1>4
<1> QED BY <1>2, <1>4, <1>5 DEF AllAnswer

LEMMA CloseSurfaceStraight ==
  ASSUME BInv, Straight, CloseSurface PROVE Straight'
<1> SUFFICES ASSUME ~strayed' PROVE InStep'
  BY DEF Straight
<1>1. /\ surfaces # <<>> /\ surfaces' = SubSeq(surfaces, 1, Len(surfaces) - 1)
      /\ Asked(GivesBack(Top)) /\ UNCHANGED <<entries, cur, shown, panels, mixed>>
  BY DEF CloseSurface
<1>2. ~strayed /\ ~Raced(GivesBack(Top)) /\ Here.kind = "surface"
  <2>1. strayed' = (strayed \/ Raced(GivesBack(Top)) \/ Here.kind # "surface")
        /\ strayed \in BOOLEAN
    BY DEF CloseSurface, BInv, TypeOK
  <2>2. Raced(GivesBack(Top)) \in BOOLEAN
    BY DEF Raced
  <2> QED BY <2>1, <2>2
<1>3. InStep
  BY <1>2 DEF Straight
<1>4. GivesBack(Top) = <<Ask(-1, TRUE, shown)>>
  BY <1>1, <1>2, <1>3, HereStack, GivesBackFacts
<1>5. Quiet
  <2> DEFINE a == <<Ask(-1, TRUE, shown)>>
  <2>1. going \in AskList /\ a \in AskList
    <3>1. GivesBack(Top) \in AskList
      BY GivesBackType DEF BInv
    <3> QED BY <1>4, <3>1 DEF BInv, TypeOK, AskList, Asking
  <2>2. Len(a) = 1
    OBVIOUS
  <2> HIDE DEF a
  <2>3. Len(going \o a) = Len(going) + 1 /\ Len(going) \in Nat
    <3>1. Len(going \o a) = Len(going) + Len(a)
      BY <2>1, ConcatProperties DEF AskList
    <3>2. Len(going) \in Nat
      BY <2>1, LenProperties DEF AskList
    <3> QED BY <2>2, <3>1, <3>2
  <2>4. ~(Len(going \o a) > 1)
    BY <1>2, <1>4 DEF Raced, a
  <2>5. Len(going) = 0
    <3>1. \A n \in Nat : \A m : m = n + 1 /\ ~(m > 1) => n = 0
      OBVIOUS
    <3> QED BY <2>3, <2>4, <3>1
  <2> QED BY <2>1, <2>5, EmptySeq DEF Quiet, AskList
<1>6. Len(surfaces') + 1 = Len(surfaces) /\ AllAnswer'
  BY <1>1, <1>3, LessOne DEF InStep
<1> QED BY <1>1, <1>2, <1>3, <1>4, <1>5, <1>6, GivenBack

LEMMA StepInStraight ==
  ASSUME BInv, Straight, StepIn PROVE Straight'
<1> SUFFICES ASSUME ~strayed' PROVE InStep'
  BY DEF Straight
<1>1. /\ surfaces' = [surfaces EXCEPT ![1].steps = @ + 1]
      /\ UNCHANGED <<entries, cur, going, shown, panels, mixed, strayed>>
  BY DEF StepIn
<1>2. InStep
  BY <1>1 DEF Straight
<1>3. surfaces' \in SurfaceList /\ FirstSteps'
  <2>1. BInv'
    BY StepInBasic
  <2> QED BY <2>1 DEF BInv, TypeOK, SurfaceList, Surface
<1>4. /\ surfaces \in Seq(Surface) /\ DOMAIN surfaces = 1 .. Len(surfaces) /\ Len(surfaces) \in Nat
      /\ \A i \in 1 .. Len(surfaces) : surfaces[i] \in Surface
  BY TypeFacts DEF BInv
<1>5. DOMAIN surfaces' = 1 .. Len(surfaces) /\ Len(surfaces') = Len(surfaces)
  <2>1. DOMAIN surfaces' = DOMAIN surfaces
    BY <1>1
  <2>2. Len(surfaces') \in Nat /\ DOMAIN surfaces' = 1 .. Len(surfaces')
    BY <1>3, LenProperties DEF SurfaceList
  <2> QED BY <1>4, <2>1, <2>2
<1>6. \A i \in 1 .. Len(surfaces) : surfaces'[i].answers = TRUE
  <2> SUFFICES ASSUME NEW i \in 1 .. Len(surfaces) PROVE surfaces'[i].answers = TRUE
    OBVIOUS
  <2>1. surfaces[i].answers = TRUE
    BY <1>2, <1>4 DEF InStep, AllAnswer
  <2>2. CASE i = 1
    <3> DEFINE x == [surfaces[1] EXCEPT !.steps = @ + 1]
    <3>1. surfaces' = [surfaces EXCEPT ![1] = x]
      BY <1>1
    <3>2. x.answers = surfaces[1].answers
      BY <1>4, <2>2 DEF Surface
    <3> HIDE DEF x
    <3>3. surfaces'[1] = x
      BY <1>4, <2>2, <3>1
    <3> QED BY <2>1, <2>2, <3>2, <3>3
  <2>3. CASE i # 1
    <3>1. surfaces'[i] = surfaces[i]
      BY <1>1, <1>4, <2>3
    <3> QED BY <2>1, <3>1
  <2> QED BY <2>2, <2>3
<1>7. AllAnswer'
  BY <1>5, <1>6 DEF AllAnswer
<1> QED BY <1>1, <1>2, <1>5, <1>7, AsksKept

LEMMA TitleStraight ==
  ASSUME BInv, Straight, TitleArrives PROVE Straight'
<1> SUFFICES ASSUME ~strayed' PROVE InStep'
  BY DEF Straight
<1>1. UNCHANGED <<entries, cur, going, shown, surfaces, panels, mixed, strayed>>
  BY DEF TitleArrives, pageVars
<1>2. InStep
  BY <1>1 DEF Straight
<1>3. AllAnswer'
  BY <1>1, <1>2 DEF InStep, AllAnswer
<1> QED BY <1>1, <1>2, <1>3, AsksKept

\* A panel's own way back, by one or by all of them.
LEMMA PanelStraight ==
  ASSUME BInv, Straight, PanelBack \/ PanelClose PROVE Straight'
<1> SUFFICES ASSUME ~strayed' PROVE InStep'
  BY DEF Straight
<1>1. PICK by \in {-1, -panels} :
        /\ PanelOnTop /\ Asked(<<Ask(by, TRUE, shown)>>)
        /\ strayed' = (strayed \/ ~Quiet)
        /\ UNCHANGED <<entries, cur, pageVars, mixed>>
  BY DEF PanelBack, PanelClose
<1>2. ~strayed /\ Quiet
  <2>1. strayed \in BOOLEAN
    BY DEF BInv, TypeOK
  <2> QED BY <1>1, <2>1
<1>3. InStep
  BY <1>2 DEF Straight
<1>4. Here.over = Len(surfaces) /\ Here.panel = panels
  BY <1>2, <1>3 DEF InStep, Asks, Level
<1>5. panels \in Nat /\ panels >= 1 /\ Here.panel \in Nat /\ Here.over \in Nat /\ Here.seq \in Nat
  BY <1>1, TypeFacts, HereFacts DEF PanelOnTop, BInv
<1>6. Here.kind = "panel"
  <2>1. CASE Here.kind = "panel"
    BY <2>1
  <2>2. CASE surfaces = <<>>
    <3>1. Here.over = 0
      BY <1>4, <2>2
    <3> QED BY <1>3, <1>4, <1>5, <3>1, HereStack
  <2> QED BY <1>1, <2>1, <2>2 DEF PanelOnTop
<1>7. PICK k \in 1 .. panels : k = -by /\ by = -k
  <2>1. CASE by = -1
    BY <1>5, <2>1
  <2>2. CASE by = -panels
    BY <1>5, <2>2
  <2> QED BY <1>1, <2>1, <2>2
<1>8. k \in 0 .. (Here.over + Here.panel) /\ k \in Nat /\ k >= 1
  BY <1>4, <1>5, <1>7
<1>9. entries[cur - k].path = shown /\ Here.over + Here.panel <= Here.seq
  BY <1>3, <1>8, HereStack, HereFacts
<1>10. by \in Int /\ by < 0 /\ -by <= Here.seq
  BY <1>5, <1>7, <1>8, <1>9
<1>11. cur + by = cur - k
  BY <1>7, <1>8, TypeFacts DEF BInv
<1>12. Here.kind = "panel" => by \in {-1, -panels}
  BY <1>1
<1>13. Here.kind # "surface"
  BY <1>6
<1>14. ~mixed => entries[cur + by].path = shown
  BY <1>9, <1>11
<1> QED BY <1>1, <1>2, <1>3, <1>10, <1>12, <1>13, <1>14, AskInStep

LEMMA PushedRoute ==
  ASSUME BInv, InStep, NEW x \in Entry, Grown(x),
         x.kind = "route", x.over = 0, x.panel = 0,
         x.seq = 0 \/ (x.seq = Stamped /\ Here.kind = "route")
  PROVE  Stacked' /\ Here' = x
<1>1. /\ entries \in EntryList /\ cur \in 1 .. Len(entries) /\ cur \in Nat
      /\ DOMAIN entries = 1 .. Len(entries) /\ Here = entries[cur]
      /\ entries' \in EntryList /\ Len(entries') = cur + 1 /\ cur' = cur + 1
      /\ entries'[cur + 1] = x
      /\ \A i \in 1 .. cur : entries'[i] = entries[i]
  BY TypeFacts, InList, HereFacts DEF BInv, EntryList, Grown
<1>2. /\ cur \in 1 .. Len(entries') /\ cur + 1 \in 1 .. Len(entries') /\ cur <= Len(entries')
      /\ entries'[cur] = Here /\ Stamped = Here.seq + 1 /\ cur + 1 - 1 = cur
      /\ \A j \in 1 .. cur : entries'[j] = entries[j]
  BY <1>1, HereFacts
<1>3. StackAt(entries', cur)
  BY <1>1, <1>2, HereStack, StackSame
<1>4. entries'[cur + 1].seq > 0 =>
        /\ cur + 1 - 1 \in 1 .. Len(entries') /\ StackAt(entries', cur + 1 - 1)
        /\ entries'[cur + 1 - 1].kind = "route"
        /\ entries'[cur + 1].seq = entries'[cur + 1 - 1].seq + 1
  BY <1>1, <1>2, <1>3
<1>5. StackAt(entries', cur + 1)
  BY <1>1, <1>2, <1>4, StackRoute
<1>6. Stacked'
  BY <1>5, StackedGrow DEF InStep
<1> QED BY <1>1, <1>6 DEF Here

\* With nothing open and nothing under way the tab is on a screen's entry.
LEMMA BareRoute ==
  ASSUME BInv, InStep, Quiet, surfaces = <<>>, panels = 0
  PROVE  Here.kind = "route"
<1>1. Here.over = 0 /\ Here.panel = 0
  BY DEF InStep, Asks, Level
<1> QED BY <1>1, HereStack

LEMMA JumpStraight ==
  ASSUME BInv, Straight, NEW row \in recentRoutes, jumpBack(row) PROVE Straight'
<1> SUFFICES ASSUME ~strayed' PROVE InStep'
  BY DEF Straight
<1> DEFINE by == -Distance(row)
<1>1. /\ surfaces = <<>> /\ panels = 0 /\ Asked(<<Ask(by, TRUE, row.path)>>)
      /\ UNCHANGED <<entries, cur, pageVars, mixed>>
  BY DEF jumpBack
<1>2. ~strayed /\ Quiet
  <2>1. strayed' = (strayed \/ ~Quiet) /\ strayed \in BOOLEAN
    BY DEF jumpBack, BInv, TypeOK
  <2> QED BY <2>1
<1>3. InStep /\ Here.kind = "route"
  BY <1>1, <1>2, BareRoute DEF Straight
<1>4. /\ row \in trail /\ row.seq \in Nat /\ row.seq < Here.seq /\ Here.seq \in Nat
      /\ cur \in Nat
  BY RecentFacts, HereFacts, TypeFacts DEF BInv
<1>5. by \in Int /\ by < 0 /\ -by <= Here.seq /\ cur + by = cur - (Here.seq - row.seq)
  BY <1>4 DEF Distance
<1>6. ASSUME ~mixed PROVE entries[cur + by].path = row.path
  <2>1. Here.seq = cur - 1
    BY <1>6, HereFacts DEF BInv, Serials
  <2>2. cur + by = row.seq + 1
    BY <1>4, <1>5, <2>1
  <2>3. entries[row.seq + 1].path = row.path
    BY <1>4, <1>6 DEF BInv, Rows
  <2> QED BY <2>2, <2>3
<1> HIDE DEF by
<1> QED BY <1>1, <1>2, <1>3, <1>5, <1>6, AskInStep

LEMMA OneDown ==
  ASSUME NEW c \in Nat, NEW q \in Nat, q < c, 1 <= q, NEW n \in Nat, c \in 1 .. n
  PROVE  c - 1 \in 1 .. n /\ c - 1 # c /\ c - (c - 1) = 1 /\ c - 1 \in (c - q) .. c
OBVIOUS

LEMMA ArrowStraight ==
  ASSUME BInv, Straight, Arrow PROVE Straight'
<1> SUFFICES ASSUME ~strayed' PROVE InStep'
  BY DEF Straight
<1>1. surfaces = <<>> /\ panels = 0 /\ surfaces' = surfaces /\ panels' = panels /\ mixed' = mixed
  BY DEF Arrow
<1>2. ~strayed /\ Quiet
  <2>1. strayed \in BOOLEAN
    BY DEF BInv, TypeOK
  <2>2. CASE canGoBack
    <3>1. strayed' = (strayed \/ ~Quiet)
      BY <2>2 DEF Arrow
    <3> QED BY <2>1, <3>1
  <2>3. CASE ~canGoBack
    <3>1. strayed' = (strayed \/ ~Quiet \/ cur < Len(entries) \/ Here.kind # "route")
      BY <2>3 DEF Arrow
    <3> QED BY <2>1, <3>1
  <2> QED BY <2>2, <2>3
<1>3. InStep /\ Here.kind = "route" /\ Here.over = 0 /\ Here.panel = 0
  BY <1>1, <1>2, BareRoute, HereStack DEF Straight
<1>4. CASE canGoBack
  <2>1. /\ Asked(<<Ask(-1, TRUE, entries[cur - 1].path)>>)
        /\ UNCHANGED <<entries, cur, pageVars, mixed>>
    BY <1>1, <1>3, <1>4 DEF Arrow, pageVars
  <2>2. -1 \in Int /\ -1 < 0 /\ -(-1) <= Here.seq /\ cur + (-1) = cur - 1
    BY <1>4, HereFacts, TypeFacts DEF canGoBack, BInv
  <2> QED BY <1>2, <1>3, <2>1, <2>2, AskInStep
<1>5. CASE ~canGoBack
  <2>1. /\ entries' = [entries EXCEPT ![cur].path = Shelf, ![cur].over = 0, ![cur].panel = 0]
        /\ cur' = cur /\ going' = going /\ cur >= Len(entries)
    <3>1. strayed' = (strayed \/ ~Quiet \/ cur < Len(entries) \/ Here.kind # "route")
      BY <1>5 DEF Arrow
    <3>2. (cur < Len(entries)) \in BOOLEAN /\ strayed \in BOOLEAN
      BY DEF BInv, TypeOK
    <3>3. ~(cur < Len(entries))
      BY <3>1, <3>2
    <3> QED BY <1>5, <3>3, TypeFacts DEF Arrow, BInv
  <2>2. /\ entries' \in EntryList /\ Len(entries') = Len(entries)
        /\ DOMAIN entries' = DOMAIN entries
        /\ entries'[cur] = [Here EXCEPT !.path = Shelf, !.over = 0, !.panel = 0]
        /\ \A i \in DOMAIN entries : i # cur => entries'[i] = entries[i]
    BY <2>1, Replaced
  <2>3. /\ entries'[cur].kind = "route" /\ entries'[cur].over = 0 /\ entries'[cur].panel = 0
        /\ entries'[cur].seq = Here.seq
    BY <1>3, <2>2, HereFacts DEF Entry
  <2>4. /\ entries \in EntryList /\ DOMAIN entries = 1 .. Len(entries) /\ Len(entries) \in Nat
        /\ cur \in Nat /\ cur \in 1 .. Len(entries) /\ cur = Len(entries) /\ Here = entries[cur]
    BY <2>1, TypeFacts, HereFacts DEF BInv, EntryList
  <2>5. ASSUME NEW i \in 1 .. Len(entries), i # cur PROVE StackAt(entries', i)
    <3>1. i <= Len(entries') /\ \A j \in 1 .. i : entries'[j] = entries[j]
      BY <2>2, <2>4, <2>5
    <3>2. SerialAt(entries, i) /\ StackAt(entries, i)
      BY <1>3, <2>4 DEF BInv, Serials, InStep, Stacked
    <3> QED BY <2>2, <2>4, <3>1, <3>2, StackSame
  <2>6. ASSUME entries'[cur].seq > 0
        PROVE  /\ cur - 1 \in 1 .. Len(entries') /\ StackAt(entries', cur - 1)
               /\ entries'[cur - 1].kind = "route"
               /\ entries'[cur].seq = entries'[cur - 1].seq + 1
    <3>1. 1 \in 0 .. Here.seq /\ Here.seq \in Nat /\ Here.seq < cur
      BY <2>3, <2>6, HereFacts
    <3>2. /\ cur - 1 \in 1 .. Len(entries) /\ cur - 1 # cur /\ cur - (cur - 1) = 1
          /\ cur - 1 \in (cur - Here.seq) .. cur
      <4>1. 1 <= Here.seq
        BY <3>1
      <4>2. cur \in Nat /\ Len(entries) \in Nat /\ cur \in 1 .. Len(entries)
        BY <2>4
      <4>3. Here.seq \in Nat /\ Here.seq < cur
        BY <3>1
      <4> QED BY <4>1, <4>2, <4>3, OneDown
    <3>3. entries[cur - 1].kind = "route"
      BY <1>3, <3>1, HereStack
    <3>4. entries[cur - 1].seq = Here.seq - (cur - (cur - 1))
      <4>1. cur - 1 \in (cur - Here.seq) .. cur
        BY <2>4, <3>1
      <4> QED BY <1>3, <2>4, <4>1, HereStack DEF SerialAt
    <3>5. entries'[cur - 1] = entries[cur - 1]
      <4>1. cur - 1 \in DOMAIN entries
        BY <2>4, <3>2
      <4> QED BY <2>2, <3>2, <4>1
    <3>6. Here.seq = (Here.seq - 1) + 1
      BY <3>1
    <3> QED BY <2>2, <2>3, <2>5, <3>2, <3>3, <3>4, <3>5, <3>6
  <2>7. StackAt(entries', cur)
    BY <2>2, <2>3, <2>4, <2>6, StackRoute
  <2>8. Stacked'
    BY <2>2, <2>4, <2>5, <2>7 DEF Stacked
  <2>9. AllAnswer' /\ going' = <<>>
    BY <1>1, <1>2, <1>3, <2>1 DEF InStep, AllAnswer, Quiet
  <2>10. Here' = entries'[cur] /\ Len(surfaces') = 0
    BY <1>1, <2>1 DEF Here
  <2> QED BY <1>1, <2>3, <2>8, <2>9, <2>10, InStepQuiet
<1> QED BY <1>4, <1>5

LEMMA GestureStraight ==
  ASSUME BInv, Straight, NEW by \in {-1, 1}, Gesture(by) PROVE Straight'
<1> SUFFICES ASSUME ~strayed' PROVE InStep'
  BY DEF Straight
<1> DEFINE g == Ask(by, FALSE, shown)
<1>1. /\ Quiet /\ going' = <<g>>
      /\ UNCHANGED <<entries, cur, shown, surfaces, panels, mixed, strayed>>
  BY DEF Gesture, pageVars
<1>2. InStep
  BY <1>1 DEF Straight
<1>3. Stacked' /\ AllAnswer'
  BY <1>1, <1>2 DEF InStep, Stacked, AllAnswer
<1>4. Len(going') = 1 /\ going'[1] = g /\ ~Quiet' /\ g.own = FALSE /\ g.by \in {-1, 1}
  BY <1>1 DEF Quiet, Ask
<1>5. Level(Len(surfaces))'
  BY <1>1, <1>2 DEF InStep, Asks, Level, Here
<1> HIDE DEF g
<1>6. Asks'
  BY <1>4, <1>5 DEF Asks
<1> QED BY <1>3, <1>6 DEF InStep

LEMMA GoStraight ==
  ASSUME BInv, Straight, NEW path \in Screens, Go(path) PROVE Straight'
<1> SUFFICES ASSUME ~strayed' PROVE InStep'
  BY DEF Straight
<1> DEFINE asks == IF Refused(path) /\ surfaces # <<>> THEN GivesBack(Top) ELSE <<>>
<1>1. /\ Navigate(path) /\ surfaces' = <<>> /\ mixed' = mixed /\ shown' = path
      /\ panels' = IF path = shown THEN panels ELSE 0
      /\ Asked(asks)
  BY DEF Go
<1>2. ~strayed /\ Quiet /\ ~LeavesEntry(path) /\ ~(Len(surfaces) > 1)
      /\ ~(asks # <<>> /\ Here.kind # "surface")
  <2>1. strayed' = (strayed \/ ~Quiet \/ LeavesEntry(path) \/ Len(surfaces) > 1
                       \/ (asks # <<>> /\ Here.kind # "surface"))
    BY DEF Go
  <2>2. LeavesEntry(path) \in BOOLEAN /\ strayed \in BOOLEAN
    BY DEF LeavesEntry, BInv, TypeOK
  <2> HIDE DEF asks
  <2> QED BY <2>1, <2>2
<1>3. InStep
  BY <1>2 DEF Straight
<1>4. Here.over = Len(surfaces) /\ Here.panel = panels
  BY <1>2, <1>3 DEF InStep, Asks, Level
<1>5. /\ surfaces \in Seq(Surface) /\ Len(surfaces) \in Nat
      /\ surfaces = <<>> <=> Len(surfaces) = 0
  <2>1. surfaces \in Seq(Surface)
    BY TypeFacts DEF BInv
  <2> QED BY <2>1, EmptySeq, LenProperties
<1>6. AllAnswer' /\ Len(surfaces') = 0
  BY <1>1 DEF AllAnswer
<1>7. CASE Refused(path)
  <2>1. entries' = entries /\ cur' = cur /\ path = shown /\ panels' = panels
    BY <1>1, <1>7, HereFacts DEF Navigate, Refused
  <2>2. CASE surfaces = <<>>
    <3>1. going' = going
      <4>1. Asked(<<>>) /\ Len(going) <= 1
        BY <1>1, <1>2, <2>2 DEF Quiet
      <4> QED BY <4>1, AskedNothing DEF BInv
    <3>2. Len(surfaces') = Len(surfaces)
      BY <1>5, <1>6, <2>2
    <3> QED BY <1>1, <1>3, <1>6, <2>1, <3>1, <3>2, AsksKept
  <2>3. CASE surfaces # <<>>
    <3>1. Len(surfaces) = 1
      <4>1. \A n \in Nat : n # 0 /\ ~(n > 1) => n = 1
        OBVIOUS
      <4> QED BY <1>2, <1>5, <2>3, <4>1
    <3>2. asks = <<Ask(-1, TRUE, shown)>>
      <4>1. Here.over >= 1
        BY <1>4, <3>1
      <4>2. asks = GivesBack(Top)
        BY <1>7, <2>3
      <4> HIDE DEF asks
      <4> QED BY <1>3, <2>3, <4>1, <4>2, GivesBackFacts
    <3>3. Here.kind = "surface"
      BY <1>2, <3>2
    <3>4. Asked(<<Ask(-1, TRUE, shown)>>)
      BY <1>1, <3>2
    <3>5. Len(surfaces') + 1 = Len(surfaces)
      BY <1>6, <3>1
    <3> HIDE DEF asks
    <3> QED BY <1>1, <1>2, <1>3, <1>6, <2>1, <3>3, <3>4, <3>5, GivenBack
  <2> QED BY <2>2, <2>3
<1>8. CASE ~Refused(path)
  <2>1. Push(Route(path)) /\ path # shown
    BY <1>1, <1>8, HereFacts DEF Navigate, Refused
  <2>2. cur + 1 <= MaxEntries
    BY <2>1, TypeFacts, Bounds DEF Push, BInv
  <2>3. Grown(Route(path)) /\ Route(path) \in Entry
    BY <2>1, <2>2, RouteFacts, PushGrows DEF BInv
  <2>4. Here.kind = "route"
    BY <1>2, <1>8 DEF LeavesEntry
  <2>5. Stacked' /\ Here' = Route(path)
    BY <1>3, <2>2, <2>3, <2>4, RouteFacts, PushedRoute
  <2>6. going' = <<>>
    <3>1. asks = <<>>
      BY <1>8
    <3>2. Asked(<<>>) /\ Len(going) <= 1
      BY <1>1, <1>2, <3>1 DEF Quiet
    <3> QED BY <1>2, <3>2, AskedNothing DEF BInv, Quiet
  <2>7. Here'.over = 0 /\ Here'.panel = 0 /\ panels' = 0
    BY <1>1, <2>1, <2>2, <2>5, RouteFacts
  <2> QED BY <1>6, <2>5, <2>6, <2>7, InStepQuiet
<1> QED BY <1>7, <1>8

LEMMA LeaveToStraight ==
  ASSUME NEW path, LeaveTo(path) PROVE Straight'
BY DEF LeaveTo, Straight

LEMMA ReloadStraight ==
  ASSUME BInv, Straight, Reload PROVE Straight'
<1> SUFFICES ASSUME ~strayed' PROVE InStep'
  BY DEF Straight
<1>1. /\ surfaces' = <<>> /\ panels' = 0 /\ going' = <<>>
      /\ UNCHANGED <<entries, cur, mixed>>
  BY DEF Reload, Loaded
<1>2. ~strayed /\ Here.kind = "route"
  <2>1. strayed' = (strayed \/ Here.kind # "route") /\ strayed \in BOOLEAN
    BY DEF Reload, BInv, TypeOK
  <2> QED BY <2>1
<1>3. InStep /\ Here.over = 0 /\ Here.panel = 0
  BY <1>2, HereStack DEF Straight
<1>4. Stacked' /\ AllAnswer' /\ Here' = Here /\ Len(surfaces') = 0
  BY <1>1, <1>3 DEF InStep, Stacked, AllAnswer, Here
<1> QED BY <1>1, <1>3, <1>4, InStepQuiet

LEMMA FreshLoadStraight ==
  ASSUME BInv, Straight, NEW path \in Screens, FreshLoad(path) PROVE Straight'
<1> SUFFICES ASSUME ~strayed' PROVE InStep'
  BY DEF Straight
<1> DEFINE x == FreshEntry(path)
<1>1. /\ entries' = Append(SubSeq(entries, 1, cur), x) /\ cur' = cur + 1
      /\ surfaces' = <<>> /\ panels' = 0 /\ going' = <<>> /\ strayed' = strayed
      /\ entries[Len(entries)].doc < MaxDocs
  BY DEF FreshLoad, Loaded
<1>2. InStep
  BY <1>1 DEF Straight
<1>3. x \in Entry /\ x.seq = 0 /\ x.kind = "route" /\ x.over = 0 /\ x.panel = 0
  <2> DEFINE last == entries[Len(entries)]
  <2>1. last \in Entry
    <3>1. Len(entries) \in 1 .. Len(entries)
      BY TypeFacts DEF BInv
    <3> QED BY <3>1, TypeFacts DEF BInv
  <2>2. last.doc \in Nat /\ last.doc < MaxDocs
    BY <1>1, <2>1, EntryFacts
  <2> HIDE DEF last
  <2>3. x = [path |-> path, depth |-> 0, seq |-> 0, over |-> 0, panel |-> 0,
             doc |-> last.doc + 1, kind |-> "route"]
    BY DEF FreshEntry, last
  <2>4. 0 \in 0 .. MaxEntries /\ 0 \in 0 .. MaxSurfaces /\ 0 \in 0 .. MaxPanels
        /\ last.doc + 1 \in 1 .. MaxDocs
    BY <2>2, Bounds
  <2> QED BY <2>3, <2>4 DEF Entry
<1> HIDE DEF x
<1>4. Grown(x)
  <2>1. entries \in Seq(Entry) /\ cur \in 0 .. Len(entries)
    BY TypeFacts DEF BInv
  <2> QED BY <1>1, <1>3, <2>1, PutBehind DEF Grown, EntryList
<1>5. Stacked' /\ Here' = x
  BY <1>2, <1>3, <1>4, PushedRoute
<1>6. AllAnswer' /\ Len(surfaces') = 0
  BY <1>1 DEF AllAnswer
<1> QED BY <1>1, <1>3, <1>5, <1>6, InStepQuiet

\* What is under way while nothing has strayed.
LEMMA UnderWay ==
  ASSUME BInv, InStep, ~Quiet
  PROVE  /\ Len(going) = 1 /\ Tail(going) = <<>> /\ Head(going) = going[1]
         /\ going[1] \in Asking /\ going[1].by \in Int /\ going[1].own \in BOOLEAN
         /\ Target = cur + going[1].by
         /\ ~going[1].own => Level(Len(surfaces)) /\ going[1].by \in {-1, 1}
         /\ going[1].own =>
              /\ going[1].by < 0 /\ -going[1].by <= Here.seq
              /\ ~mixed => entries[cur + going[1].by].path = going[1].to
              /\ Here.kind = "route" => Level(Len(surfaces))
              /\ Here.kind = "surface" => Level(Len(surfaces) + 1) /\ going[1].by = -1
              /\ Here.kind = "panel" => Level(Len(surfaces)) /\ going[1].by \in {-1, -panels}
<1> DEFINE g == going[1]
<1>1. /\ Len(going) = 1
      /\ ~g.own => Level(Len(surfaces)) /\ g.by \in {-1, 1}
      /\ g.own => /\ g.by < 0 /\ -g.by <= Here.seq
                  /\ ~mixed => entries[cur + g.by].path = g.to
                  /\ Here.kind = "route" => Level(Len(surfaces))
                  /\ Here.kind = "surface" => Level(Len(surfaces) + 1) /\ g.by = -1
                  /\ Here.kind = "panel" => Level(Len(surfaces)) /\ g.by \in {-1, -panels}
  BY DEF InStep, Asks
<1>2. Tail(going) = <<>> /\ Head(going) = g /\ g \in Asking
  <2>1. Len(Tail(going)) = Len(going) - 1 /\ Tail(going) \in AskList
        /\ Head(going) = going[1] /\ Head(going) \in Asking
    BY GoingTail DEF BInv
  <2>2. Len(Tail(going)) = 0
    BY <1>1, <2>1
  <2> QED BY <2>1, <2>2, EmptySeq DEF AskList
<1>3. g.by \in Int /\ g.own \in BOOLEAN
  BY <1>2, Bounds DEF Asking
<1>4. Target = cur + g.by
  BY <1>2 DEF Target
<1> QED BY <1>1, <1>2, <1>3, <1>4

\* A step back, or several, stays in the document.
LEMMA StepsBack ==
  ASSUME BInv, InStep, ~Quiet, Target \in DOMAIN entries, entries[Target].doc = Here.doc,
         ~(going[1].by > 0)
  PROVE  \E k \in Nat : /\ k >= 1 /\ going[1].by = -k /\ Target = cur - k /\ k <= Here.seq
                        /\ ~going[1].own => k = 1
<1> DEFINE g == going[1]
<1>1. /\ g.by \in Int /\ Target = cur + g.by /\ cur \in Nat /\ Here.seq \in Nat
      /\ g.own \in BOOLEAN
  BY UnderWay, HereFacts, TypeFacts DEF BInv
<1>2. CASE g.own
  <2>1. g.by < 0 /\ -g.by <= Here.seq
    BY <1>2, UnderWay
  <2>2. -g.by \in Nat /\ -g.by >= 1 /\ g.by = -(-g.by) /\ Target = cur - (-g.by)
    <3> HIDE DEF g
    <3> QED BY <1>1, <2>1
  <2> USE <2>2
  <2>3. WITNESS -g.by \in Nat
  <2> QED BY <1>2, <2>1
<1>3. CASE ~g.own
  <2>1. g.by = -1
    <3>1. g.by \in {-1, 1}
      BY <1>3, UnderWay
    <3> HIDE DEF g
    <3>2. ~(g.by > 0)
      BY DEF g
    <3> QED BY <3>1, <3>2
  <2>2. Target = cur - 1 /\ Target \in Int
    <3> HIDE DEF g
    <3> QED BY <1>1, <2>1
  <2>3. Here.seq # 0
    <3> SUFFICES ASSUME Here.seq = 0 PROVE FALSE
      OBVIOUS
    <3>1. Target \in 1 .. Len(entries) /\ cur \in Nat
      BY TypeFacts DEF BInv
    <3>2. cur > 1
      BY <1>1, <2>2, <3>1
    <3>3. SerialAt(entries, cur) /\ Here = entries[cur]
      BY HereStack, HereFacts
    <3>4. entries[cur - 1].doc < Here.doc
      BY <3>2, <3>3 DEF SerialAt
    <3>5. Here.doc \in Nat
      BY HereFacts
    <3> QED BY <2>2, <3>4, <3>5
  <2>4. 1 <= Here.seq
    BY <1>1, <2>3
  <2>5. WITNESS 1 \in Nat
  <2> QED BY <2>1, <2>2, <2>4
<1> QED BY <1>1, <1>2, <1>3

\* Where a step back lands: on the screen, or on what its surfaces and panels stand on.
LEMMA OverScreen ==
  ASSUME BInv, InStep, ~Quiet, Target \in DOMAIN entries, entries[Target].doc = Here.doc,
         ~(going[1].by > 0), entries[Target].kind # "route"
  PROVE  /\ entries[Target].over <= Len(surfaces) /\ entries[Target].panel <= panels
         /\ entries[Target].path = shown
<1> DEFINE g == going[1]
           e == entries[Target]
<1>1. PICK k \in Nat : /\ k >= 1 /\ g.by = -k /\ Target = cur - k /\ k <= Here.seq
                       /\ ~g.own => k = 1
  BY StepsBack
<1>2. /\ Here.seq \in Nat /\ Here.over \in Nat /\ Here.panel \in Nat /\ panels \in Nat
      /\ Len(surfaces) \in Nat /\ e.over \in Nat /\ e.panel \in Nat /\ g.own \in BOOLEAN
  <2>1. e \in Entry
    BY TypeFacts DEF BInv
  <2> QED BY <2>1, EntryFacts, HereFacts, TypeFacts, UnderWay DEF BInv
<1>3. Here.kind # "route"
  <2> SUFFICES ASSUME Here.kind = "route" PROVE FALSE
    OBVIOUS
  <2>1. k \in 0 .. Here.seq
    BY <1>1, <1>2
  <2> QED BY <1>1, <2>1, HereStack
<1>4. ASSUME k \in 0 .. (Here.over + Here.panel)
      PROVE  e.path = shown /\ e.over <= Here.over /\ e.panel <= Here.panel
  BY <1>1, <1>4, HereStack, HereFacts
<1>5. CASE Here.kind = "surface"
  <2>1. k = 1
    <3>1. CASE g.own
      <4>1. g.by = -1
        BY <1>5, <3>1, UnderWay
      <4> HIDE DEF g
      <4> QED BY <1>1, <4>1
    <3>2. CASE ~g.own
      BY <1>1, <3>2
    <3> QED BY <1>2, <3>1, <3>2
  <2>2. Here.over >= 1 /\ Here.over = e.over + 1 /\ Here.panel = e.panel
    BY <1>1, <1>5, <2>1, HereStack
  <2>3. Here.panel = panels /\ (Here.over = Len(surfaces) \/ Here.over = Len(surfaces) + 1)
    BY <1>2, <1>5, UnderWay DEF Level
  <2>4. e.path = shown
    BY <1>2, <1>4, <2>1, <2>2
  <2>5. e.over <= Len(surfaces) /\ e.panel <= panels
    <3> HIDE DEF e
    <3> QED BY <1>2, <2>2, <2>3
  <2> QED BY <2>4, <2>5
<1>6. CASE Here.kind = "panel"
  <2>1. Here.panel = panels /\ Here.over = Len(surfaces) /\ panels >= 1
    BY <1>2, <1>6, UnderWay, HereStack DEF Level
  <2>2. k <= panels
    <3>1. CASE g.own
      <4>1. g.by \in {-1, -panels}
        BY <1>6, <3>1, UnderWay
      <4> HIDE DEF g
      <4>2. CASE g.by = -1
        BY <1>1, <2>1, <4>2
      <4>3. CASE g.by = -panels
        BY <1>1, <1>2, <4>3
      <4> QED BY <4>1, <4>2, <4>3
    <3>2. CASE ~g.own
      BY <1>1, <2>1, <3>2
    <3> QED BY <1>2, <3>1, <3>2
  <2>3. k \in 0 .. (Here.over + Here.panel)
    BY <1>1, <1>2, <2>1, <2>2
  <2> QED BY <1>4, <2>1, <2>3
<1> QED BY <1>3, <1>5, <1>6, HereStack

\* Where a traversal that lets nothing stray leaves the page.
LEMMA Lands ==
  ASSUME BInv, Straight, Traverse, ~strayed'
  PROVE  /\ ~strayed /\ InStep /\ ~Quiet /\ entries' = entries /\ going' = <<>>
         /\ Target \notin DOMAIN entries =>
              UNCHANGED <<cur, shown, surfaces, panels, mixed>>
         /\ Target \in DOMAIN entries =>
              /\ cur' = Target /\ shown' = entries[Target].path
              /\ panels' = entries[Target].panel
              /\ Len(surfaces') = entries[Target].over /\ AllAnswer'
              /\ entries[Target].kind # "route" =>
                   entries[Target].doc = Here.doc /\ ~(going[1].by > 0)
<1>1. ~Quiet /\ entries' = entries
  <2>1. CASE Target \notin DOMAIN entries
    BY <2>1 DEF Traverse, Target
  <2>2. CASE Target \in DOMAIN entries
    BY <2>2 DEF Traverse, Target
  <2>3. ~Quiet
    BY DEF Traverse
  <2> QED BY <2>1, <2>2, <2>3
<1>2. ASSUME Target \notin DOMAIN entries
      PROVE  going' = Tail(going) /\ UNCHANGED <<cur, shown, surfaces, panels, mixed, strayed>>
  BY <1>2 DEF Traverse, Target, pageVars
<1> DEFINE e == entries[Target]
<1>3. ASSUME Target \in DOMAIN entries
      PROVE  /\ cur' = Target
             /\ e.doc = Here.doc => Popped(e) /\ mixed' = mixed
             /\ e.doc # Here.doc => Loaded(e) /\ going' = <<>>
             /\ ~strayed /\ ~OutlivesItsEntry(e)
             /\ e.kind # "route" => e.doc = Here.doc /\ ~(Head(going).by > 0)
  <2>1. /\ cur' = Target
        /\ e.doc = Here.doc => Popped(e) /\ mixed' = mixed
        /\ e.doc # Here.doc => Loaded(e) /\ going' = <<>>
        /\ strayed' = (strayed \/ OutlivesItsEntry(e)
                         \/ (e.kind # "route" /\ (Head(going).by > 0 \/ e.doc # Here.doc)))
    BY <1>3 DEF Traverse, Target
  <2>2. strayed \in BOOLEAN /\ OutlivesItsEntry(e) \in BOOLEAN
    BY DEF BInv, TypeOK, OutlivesItsEntry
  <2> HIDE DEF e
  <2> QED BY <2>1, <2>2
<1>4. ~strayed
  <2>1. CASE Target \notin DOMAIN entries
    BY <1>2, <2>1
  <2> QED BY <1>3, <2>1
<1>5. InStep
  BY <1>4 DEF Straight
<1>6. Head(going) = going[1] /\ Tail(going) = <<>>
  BY <1>1, <1>5, UnderWay
<1>7. ASSUME Target \in DOMAIN entries
      PROVE  /\ going' = <<>> /\ shown' = e.path /\ panels' = e.panel
             /\ Len(surfaces') = e.over /\ AllAnswer'
  <2>1. /\ e.over \in Nat /\ e.panel \in Nat /\ panels \in Nat /\ Len(surfaces) \in Nat
        /\ e.kind = "route" => e.over = 0 /\ e.panel = 0
    <3>1. e \in Entry
      BY <1>7, TypeFacts DEF BInv
    <3>2. StackAt(entries, Target)
      BY <1>5, <1>7 DEF InStep, Stacked
    <3> QED BY <3>1, <3>2, EntryFacts, TypeFacts DEF BInv, StackAt
  <2>2. CASE e.doc # Here.doc
    <3>1. Loaded(e) /\ going' = <<>> /\ e.kind = "route"
      BY <1>3, <1>7, <2>2
    <3>2. shown' = e.path /\ surfaces' = <<>> /\ panels' = 0
      BY <3>1 DEF Loaded
    <3> QED BY <2>1, <3>1, <3>2 DEF AllAnswer
  <2>3. CASE e.doc = Here.doc
    <3>1. Popped(e) /\ ~OutlivesItsEntry(e)
      BY <1>3, <1>7, <2>3
    <3>2. e.over <= Len(surfaces) /\ e.panel <= panels /\ (e.kind # "route" => e.path = shown)
      <4>1. CASE e.kind = "route"
        BY <2>1, <4>1
      <4>2. CASE e.kind # "route"
        <5>1. ~(going[1].by > 0)
          BY <1>3, <1>6, <1>7, <4>2
        <5> QED BY <1>1, <1>5, <1>7, <2>3, <4>2, <5>1, OverScreen
      <4> QED BY <4>1, <4>2
    <3>3. surfaces' = BackPop(e.over)
      BY <3>1 DEF Popped
    <3>4. Len(surfaces') = e.over /\ AllAnswer'
      <4>1. e.over \in 0 .. Len(surfaces)
        BY <2>1, <3>2
      <4>2. \A i \in DOMAIN surfaces : Deeper(i, e.over) => surfaces[i].steps = 0
        <5>1. \A i \in DOMAIN surfaces : surfaces[i].steps \in Nat
          BY TypeFacts, Bounds DEF BInv, Surface
        <5>2. \A i \in DOMAIN surfaces : ~(Deeper(i, e.over) /\ surfaces[i].steps > 0)
          BY <3>1 DEF OutlivesItsEntry
        <5> HIDE DEF e
        <5> QED BY <5>1, <5>2
      <4>3. /\ Len(BackPop(e.over)) = e.over
            /\ \A i \in DOMAIN BackPop(e.over) : BackPop(e.over)[i].answers = TRUE
        BY <1>5, <4>1, <4>2, BackPopCloses DEF BInv, InStep
      <4> HIDE DEF e
      <4> QED BY <3>3, <4>3 DEF AllAnswer
    <3>5. CASE popIsOverlay(e)
      <4>1. /\ panels' = IF e.panel < panels THEN e.panel ELSE panels
            /\ going' = Tail(going) /\ shown' = shown /\ e.path = shown
        BY <3>1, <3>5 DEF Popped, popIsOverlay
      <4> HIDE DEF e
      <4>2. panels' = e.panel
        BY <2>1, <3>2, <4>1
      <4> QED BY <1>6, <3>4, <4>1, <4>2
    <3>6. CASE ~popIsOverlay(e)
      <4>1. /\ panels' = 0 /\ shown' = e.path
            /\ going' = Tail(going) \o
                 (IF panels > 0 /\ e.panel > 0 THEN <<Ask(-panels, TRUE, e.path)>> ELSE <<>>)
        BY <3>1, <3>6 DEF Popped
      <4>2. e.kind = "route"
        BY <3>2, <3>6 DEF popIsOverlay
      <4>3. e.panel = 0
        BY <2>1, <4>2
      <4>4. going' = <<>>
        <5>1. ~(panels > 0 /\ e.panel > 0)
          BY <4>3
        <5>2. going' = Tail(going) \o <<>>
          BY <4>1, <5>1
        <5> QED BY <1>6, <5>2
      <4> QED BY <3>4, <4>1, <4>3, <4>4
    <3> QED BY <3>5, <3>6
  <2> QED BY <2>2, <2>3
<1>8. going' = <<>>
  <2>1. CASE Target \notin DOMAIN entries
    BY <1>2, <1>6, <2>1
  <2> QED BY <1>7, <2>1
<1> QED BY <1>1, <1>2, <1>3, <1>4, <1>5, <1>6, <1>7, <1>8

LEMMA TraverseStraight ==
  ASSUME BInv, Straight, Traverse PROVE Straight'
<1> SUFFICES ASSUME ~strayed' PROVE InStep'
  BY DEF Straight
<1>1. InStep /\ ~Quiet /\ entries' = entries /\ going' = <<>>
  BY Lands
<1>2. Stacked'
  BY <1>1 DEF InStep, Stacked
<1>3. CASE Target \in DOMAIN entries
  <2>1. /\ cur' = Target /\ panels' = entries[Target].panel
        /\ Len(surfaces') = entries[Target].over /\ AllAnswer'
    BY <1>3, Lands
  <2>2. Here' = entries[Target]
    BY <1>1, <2>1 DEF Here
  <2> QED BY <1>1, <1>2, <2>1, <2>2, InStepQuiet
<1>4. CASE Target \notin DOMAIN entries
  <2>1. UNCHANGED <<cur, shown, surfaces, panels, mixed>>
    BY <1>4, Lands
  \* Only a gesture leads out of the history, and what is open has not moved.
  <2>2. ~going[1].own
    <3> SUFFICES ASSUME going[1].own PROVE FALSE
      OBVIOUS
    <3>1. /\ going[1].by < 0 /\ -going[1].by <= Here.seq /\ going[1].by \in Int
          /\ Target = cur + going[1].by
      BY <1>1, UnderWay
    <3>2. /\ Here.seq \in Nat /\ Here.seq < cur /\ cur \in Nat /\ cur <= Len(entries)
          /\ DOMAIN entries = 1 .. Len(entries) /\ Len(entries) \in Nat
      BY HereFacts, TypeFacts DEF BInv
    <3>3. cur + going[1].by \in 1 .. Len(entries)
      BY <3>1, <3>2
    <3> QED BY <1>4, <3>1, <3>2, <3>3
  <2>3. Level(Len(surfaces))
    BY <1>1, <2>2, UnderWay
  <2>4. Here' = Here /\ AllAnswer'
    BY <1>1, <2>1 DEF Here, InStep, AllAnswer
  <2> QED BY <1>1, <1>2, <2>1, <2>3, <2>4, InStepQuiet DEF Level
<1> QED BY <1>3, <1>4

LEMMA NextStraight ==
  ASSUME BInv, Straight, [Next]_vars PROVE Straight'
<1>1. CASE OpenSurface
  BY <1>1, OpenSurfaceStraight
<1>2. CASE StepIn
  BY <1>2, StepInStraight
<1>3. CASE CloseSurface
  BY <1>3, CloseSurfaceStraight
<1>4. CASE PushPanel
  BY <1>4, PushPanelStraight
<1>5. CASE PanelBack \/ PanelClose
  BY <1>5, PanelStraight
<1>6. CASE Arrow
  BY <1>6, ArrowStraight
<1>7. CASE TitleArrives
  BY <1>7, TitleStraight
<1>8. ASSUME NEW path \in Screens, Go(path) PROVE Straight'
  BY <1>8, GoStraight
<1>9. ASSUME NEW path \in Screens, LeaveTo(path) PROVE Straight'
  BY <1>9, LeaveToStraight
<1>10. ASSUME NEW row \in recentRoutes, jumpBack(row) PROVE Straight'
  BY <1>10, JumpStraight
<1>11. CASE Traverse
  BY <1>11, TraverseStraight
<1>12. CASE Reload
  BY <1>12, ReloadStraight
<1>13. ASSUME NEW by \in {-1, 1}, Gesture(by) PROVE Straight'
  BY <1>13, GestureStraight
<1>14. ASSUME NEW path \in Screens, FreshLoad(path) PROVE Straight'
  BY <1>14, FreshLoadStraight
<1>15. CASE UNCHANGED vars
  BY <1>15 DEF vars, pageVars, Straight, InStep, Stacked, AllAnswer, Asks, Quiet, Level, Here
<1>16. CASE Page
  BY <1>1, <1>2, <1>3, <1>4, <1>5, <1>6, <1>7, <1>8, <1>9, <1>10, <1>16 DEF Page
<1>17. CASE Browser
  BY <1>11, <1>12, <1>13, <1>14, <1>17 DEF Browser
<1> QED BY <1>15, <1>16, <1>17 DEF Next

(***************************************************************************)
(* The invariant holds.                                                    *)
(***************************************************************************)
LEMMA InitIInv == Init => IInv
<1> SUFFICES ASSUME Init PROVE IInv
  OBVIOUS
<1>1. PICK path \in Screens :
        /\ entries = <<[path |-> path, depth |-> 0, seq |-> 0, over |-> 0, panel |-> 0,
                        doc |-> 1, kind |-> "route"]>>
        /\ cur = 1 /\ going = <<>> /\ shown = path /\ surfaces = <<>> /\ panels = 0
        /\ trail = {[seq |-> 0, path |-> path]} /\ strayed = FALSE /\ mixed = FALSE
  BY DEF Init
<1> DEFINE x == [path |-> path, depth |-> 0, seq |-> 0, over |-> 0, panel |-> 0,
                 doc |-> 1, kind |-> "route"]
<1>2. /\ x \in Entry /\ x.path = path /\ x.depth = 0 /\ x.seq = 0 /\ x.over = 0 /\ x.panel = 0
      /\ x.doc = 1 /\ x.kind = "route"
  <2>1. 0 \in 0 .. MaxEntries /\ 0 \in 0 .. MaxSurfaces /\ 0 \in 0 .. MaxPanels
        /\ 1 \in 1 .. MaxDocs
    BY Bounds
  <2> QED BY <2>1 DEF Entry
<1>3. entries = <<x>>
  BY <1>1
<1> HIDE DEF x
<1>4. /\ entries \in EntryList /\ Len(entries) = 1 /\ DOMAIN entries = 1 .. 1
      /\ entries[1] = x /\ Here = x
  <2>1. \A z \in Entry : <<z>> \in Seq(Entry)
    OBVIOUS
  <2> QED BY <1>1, <1>2, <1>3, <2>1 DEF EntryList, Here
<1>5. TypeOK
  <2>1. entries \in Seq(Entry) /\ Len(entries) \in 1 .. MaxEntries /\ cur \in DOMAIN entries
    BY <1>1, <1>4, Bounds DEF EntryList
  <2>2. going \in AskList /\ Len(going) <= 2 /\ surfaces \in SurfaceList
    BY <1>1 DEF AskList, SurfaceList
  <2>3. panels \in 0 .. MaxPanels /\ shown \in Screens
    BY <1>1, Bounds
  <2>4. strayed \in BOOLEAN /\ mixed \in BOOLEAN
    BY <1>1
  <2>5. trail \subseteq Row
    BY <1>1, Bounds DEF Row
  <2> QED BY <2>1, <2>2, <2>3, <2>4, <2>5 DEF TypeOK, AskList, Asking, SurfaceList, Surface, Row
<1>6. AddressIsShown /\ FirstSteps /\ PanelsBehind
  BY <1>1, <1>2, <1>4 DEF AddressIsShown, FirstSteps, PanelsBehind
<1>7. \A i \in DOMAIN entries : i = 1
  BY <1>4
<1>8. /\ \A j \in (1 - (0 + 0)) .. 1 : j = 1
      /\ \A j \in (1 - 0) .. 1 : j = 1
  OBVIOUS
<1>9. Serials
  <2>1. SerialAt(entries, 1)
    BY <1>2, <1>4, <1>8 DEF SerialAt
  <2> QED BY <1>2, <1>4, <1>7, <2>1 DEF Serials
<1>10. Rows
  BY <1>1, <1>2, <1>4 DEF Rows
<1>11. Straight
  <2>1. StackAt(entries, 1)
    BY <1>2, <1>4, <1>8 DEF StackAt
  <2>2. Stacked
    BY <1>7, <2>1 DEF Stacked
  <2>3. AllAnswer
    BY <1>1 DEF AllAnswer
  <2>4. Asks
    BY <1>1, <1>2, <1>4 DEF Asks, Quiet, Level
  <2> QED BY <2>2, <2>3, <2>4 DEF Straight, InStep
<1> QED BY <1>5, <1>6, <1>9, <1>10, <1>11 DEF IInv

LEMMA NextIInv == IInv /\ [Next]_vars => IInv'
<1> SUFFICES ASSUME IInv, [Next]_vars PROVE IInv'
  OBVIOUS
<1>1. BInv /\ Straight
  BY DEF IInv, BInv
<1>2. BInv' /\ Straight'
  BY <1>1, NextBasic, NextStraight
<1> QED BY <1>2 DEF IInv, BInv

\* Whatever the page and the browser do, in any order, IInv holds.
THEOREM Invariance == Spec => []IInv
BY InitIInv, NextIInv, PTL DEF Spec

\* The type invariant.
THEOREM TypeCorrect == Spec => []TypeOK
<1>1. IInv => TypeOK
  BY DEF IInv
<1> QED BY <1>1, Invariance, PTL

\* The screen drawn is the one the address names (App.jsx's onPop and ui.jsx's
\* backPop read one popstate apart from each other).
THEOREM ShownIsTheAddress == Spec => []AddressIsShown
<1>1. IInv => AddressIsShown
  BY DEF IInv
<1> QED BY <1>1, Invariance, PTL

LEMMA TrailIsTrue ==
  ASSUME IInv
  PROVE  TrailTells
<1>1. BInv
  BY DEF IInv, BInv
<1> SUFFICES ASSUME ~mixed, NEW row \in recentRoutes
             PROVE  /\ Here.seq - row.seq \in 1..(cur - 1)
                    /\ entries[cur - (Here.seq - row.seq)].path = row.path
  BY DEF TrailTells
<1>2. /\ row \in trail /\ row.seq \in Nat /\ row.seq < Here.seq /\ Here.seq \in Nat
      /\ cur \in Nat /\ Here.seq < cur
  BY <1>1, RecentFacts, HereFacts, TypeFacts DEF BInv
<1>3. Here.seq = cur - 1
  BY <1>1, HereFacts DEF BInv, Serials
<1>4. cur - (Here.seq - row.seq) = row.seq + 1 /\ Here.seq - row.seq \in 1..(cur - 1)
  BY <1>2, <1>3
<1>5. entries[row.seq + 1].path = row.path
  BY <1>1, <1>2 DEF BInv, Rows
<1> QED BY <1>4, <1>5

\* A row of the Back menu is as many entries behind as jumpBack will ask for, and
\* names the screen there (history.js's trail against the browser's own list).
THEOREM TrailIsTold == Spec => []TrailTells
BY Invariance, TrailIsTrue, PTL

LEMMA OwnTravel ==
  ASSUME IInv
  PROVE  OwnTravelArrives
<1>1. BInv /\ Straight
  BY DEF IInv, BInv
<1> SUFFICES ASSUME ~strayed, NEW i \in DOMAIN going, going[i].own
             PROVE  /\ cur + going[i].by \in DOMAIN entries
                    /\ entries[cur + going[i].by].doc = Here.doc
                    /\ mixed \/ entries[cur + going[i].by].path = going[i].to
  BY DEF OwnTravelArrives
<1>2. InStep
  BY <1>1 DEF Straight
<1>3. ~Quiet
  BY DEF Quiet
<1>4. i = 1
  <2>1. Len(going) = 1 /\ going \in AskList
    BY <1>1, <1>2, <1>3, UnderWay DEF BInv, TypeOK, AskList, Asking
  <2>2. DOMAIN going = 1 .. 1
    BY <2>1, LenProperties DEF AskList
  <2> QED BY <2>2
<1> DEFINE g == going[1]
<1>5. /\ g.by < 0 /\ -g.by <= Here.seq /\ g.by \in Int
      /\ ~mixed => entries[cur + g.by].path = g.to
  BY <1>1, <1>2, <1>3, <1>4, UnderWay
<1>6. cur \in Nat /\ Here.seq \in Nat
  BY <1>1, HereFacts, TypeFacts DEF BInv
<1>7. PICK k \in 0 .. Here.seq : k = -g.by /\ cur + g.by = cur - k
  <2> HIDE DEF g
  <2>1. -g.by \in 0 .. Here.seq /\ cur + g.by = cur - (-g.by)
    BY <1>5, <1>6
  <2> QED BY <2>1
<1>8. cur - k \in DOMAIN entries /\ entries[cur - k].doc = Here.doc
  BY <1>1, <1>2, HereStack
<1> QED BY <1>4, <1>5, <1>7, <1>8

\* What the app asks of the browser stays in the app and reaches the screen it was
\* asked for, while no push or traversal has got in between.
THEOREM TravelArrives == Spec => []OwnTravelArrives
BY Invariance, OwnTravel, PTL

LEMMA NoneDead ==
  ASSUME IInv
  PROVE  NoDeadEntry
<1>1. BInv /\ Straight
  BY DEF IInv, BInv
<1> SUFFICES ASSUME ~strayed, Quiet, surfaces = <<>>, panels = 0 PROVE Here.kind = "route"
  BY DEF NoDeadEntry
<1> QED BY <1>1, BareRoute DEF Straight

\* Surfaces and panels opened and closed leave no entry of theirs to come back to.
THEOREM NoDeadBack == Spec => []NoDeadEntry
BY Invariance, NoneDead, PTL

(***************************************************************************)
(* One Back takes what is on top.                                          *)
(***************************************************************************)
\* Only a traversal moves the tab back.
LEMMA OnlyTraverse ==
  ASSUME BInv, [Next]_vars, cur' = cur - 1
  PROVE  Traverse
<1>1. cur' # cur /\ cur' # cur + 1
  BY TypeFacts DEF BInv
<1>2. CASE Page
  <2>1. CASE OpenSurface \/ PushPanel
    BY <1>1, <2>1 DEF OpenSurface, PushPanel, Push
  <2>2. CASE StepIn \/ CloseSurface \/ PanelBack \/ PanelClose \/ TitleArrives
    BY <1>1, <2>2 DEF StepIn, CloseSurface, PanelBack, PanelClose, TitleArrives
  <2>3. CASE Arrow
    <3>1. cur' = cur
      BY <2>3 DEF Arrow
    <3> QED BY <1>1, <3>1
  <2>4. ASSUME NEW path \in Screens, Go(path) PROVE FALSE
    <3>1. cur' = cur \/ cur' = cur + 1
      BY <2>4 DEF Go, Navigate, Push
    <3> QED BY <1>1, <3>1
  <2>5. ASSUME NEW path \in Screens, LeaveTo(path) PROVE FALSE
    BY <1>1, <2>5 DEF LeaveTo
  <2>6. ASSUME NEW row \in recentRoutes, jumpBack(row) PROVE FALSE
    BY <1>1, <2>6 DEF jumpBack
  <2> QED BY <1>2, <2>1, <2>2, <2>3, <2>4, <2>5, <2>6 DEF Page
<1>3. CASE Browser
  <2>1. CASE Reload
    BY <1>1, <2>1 DEF Reload
  <2>2. ASSUME NEW by \in {-1, 1}, Gesture(by) PROVE FALSE
    BY <1>1, <2>2 DEF Gesture
  <2>3. ASSUME NEW path \in Screens, FreshLoad(path) PROVE FALSE
    BY <1>1, <2>3 DEF FreshLoad
  <2> QED BY <1>3, <2>1, <2>2, <2>3 DEF Browser
<1>4. CASE UNCHANGED vars
  BY <1>1, <1>4 DEF vars
<1> QED BY <1>2, <1>3, <1>4 DEF Next

LEMMA StepTakesTheTop ==
  ASSUME IInv, [Next]_vars
  PROVE  TakesTheTop
<1> DEFINE gone == Len(surfaces) - Len(surfaces')
           e == entries[Target]
<1> SUFFICES ASSUME going # <<>>, ~strayed', cur' = cur - 1, Head(going).by = -1
             PROVE  CASE Here.kind = "surface" -> gone = (IF Head(going).own THEN 0 ELSE 1)
                                                  /\ panels' = panels /\ shown' = shown
                      [] Here.kind = "panel"   -> gone = 0 /\ panels' = panels - 1 /\ shown' = shown
                      [] OTHER                 -> gone = 0
  BY DEF TakesTheTop
<1>1. BInv /\ Straight
  BY DEF IInv, BInv
<1>2. Traverse
  BY <1>1, OnlyTraverse
<1>3. InStep /\ ~Quiet
  BY <1>1, <1>2, Lands
<1>4. Head(going) = going[1] /\ going[1].by = -1 /\ Target = cur - 1
  <2>1. Head(going) = going[1]
    BY <1>1, <1>3, UnderWay
  <2>2. Target = cur + (-1)
    BY DEF Target
  <2> QED BY <1>1, <2>1, <2>2, TypeFacts DEF BInv
<1>5. Target \in DOMAIN entries
  <2>1. cur' # cur
    BY <1>1, TypeFacts DEF BInv
  <2> QED BY <1>1, <1>2, <2>1, Lands
<1>6. /\ shown' = e.path /\ panels' = e.panel /\ Len(surfaces') = e.over
      /\ e.kind # "route" => e.doc = Here.doc
  BY <1>1, <1>2, <1>5, Lands
<1>7. /\ Here.over \in Nat /\ Here.panel \in Nat /\ panels \in Nat /\ Len(surfaces) \in Nat
      /\ e.over \in Nat /\ e.panel \in Nat /\ going[1].own \in BOOLEAN
      /\ Here.path = shown /\ Here.seq \in Nat
  <2>1. e \in Entry
    BY <1>1, <1>5, TypeFacts DEF BInv
  <2> QED BY <1>1, <1>3, <2>1, EntryFacts, HereFacts, TypeFacts, UnderWay DEF BInv
\* A surface's entry: its own Back has it closed already, a gesture closes it now.
<1>8. CASE Here.kind = "surface"
  <2>1. Here.over >= 1 /\ Here.over = e.over + 1 /\ Here.panel = e.panel
    BY <1>1, <1>3, <1>4, <1>8, HereStack
  <2>2. 1 \in 0 .. (Here.over + Here.panel)
    BY <1>7, <2>1
  <2>3. e.path = shown
    BY <1>1, <1>3, <1>4, <1>7, <2>2, HereStack
  <2>4. CASE going[1].own
    <3>1. Here.over = Len(surfaces) + 1 /\ Here.panel = panels
      BY <1>1, <1>3, <1>8, <2>4, UnderWay DEF Level
    <3>2. gone = 0
      <4> HIDE DEF e
      <4> QED BY <1>6, <1>7, <2>1, <3>1
    <3> QED BY <1>4, <1>6, <1>8, <2>1, <2>3, <2>4, <3>1, <3>2
  <2>5. CASE ~going[1].own
    <3>1. Here.over = Len(surfaces) /\ Here.panel = panels
      BY <1>1, <1>3, <2>5, UnderWay DEF Level
    <3>2. gone = 1
      <4> HIDE DEF e
      <4> QED BY <1>6, <1>7, <2>1, <3>1
    <3> QED BY <1>4, <1>6, <1>8, <2>1, <2>3, <2>5, <3>1, <3>2
  <2> QED BY <1>7, <2>4, <2>5
\* A panel's: one panel less, and the surfaces as they were.
<1>9. CASE Here.kind = "panel"
  <2>1. Here.panel >= 1 /\ Here.over = e.over /\ Here.panel = e.panel + 1
    BY <1>1, <1>3, <1>4, <1>9, HereStack
  <2>2. 1 \in 0 .. (Here.over + Here.panel)
    BY <1>7, <2>1
  <2>3. e.path = shown
    BY <1>1, <1>3, <1>4, <1>7, <2>2, HereStack
  <2>4. Here.over = Len(surfaces) /\ Here.panel = panels
    BY <1>1, <1>3, <1>7, <1>9, UnderWay DEF Level
  <2>5. gone = 0 /\ panels' = panels - 1
    <3> HIDE DEF e
    <3> QED BY <1>6, <1>7, <2>1, <2>4
  <2> QED BY <1>6, <1>9, <2>3, <2>5
\* A screen's: nothing was open, and nothing is.
<1>10. CASE Here.kind = "route"
  <2>1. Here.over = 0 /\ Here.over = Len(surfaces)
    BY <1>1, <1>3, <1>7, <1>10, UnderWay, HereStack DEF Level
  <2>2. e.kind = "route"
    <3> SUFFICES ASSUME e.kind # "route" PROVE FALSE
      OBVIOUS
    <3>1. ~(going[1].by > 0)
      BY <1>1, <1>2, <1>5, Lands
    <3>2. PICK k \in Nat : k >= 1 /\ Target = cur - k /\ k <= Here.seq
      BY <1>1, <1>3, <1>5, <1>6, <3>1, StepsBack
    <3>3. k \in 0 .. Here.seq
      BY <1>7, <3>2
    <3> QED BY <1>1, <1>3, <1>10, <3>2, <3>3, HereStack
  <2>3. e.over = 0
    <3>1. StackAt(entries, Target)
      BY <1>3, <1>5 DEF InStep, Stacked
    <3> QED BY <2>2, <3>1 DEF StackAt
  <2>4. gone = 0
    <3> HIDE DEF e
    <3> QED BY <1>6, <2>1, <2>3
  <2> QED BY <1>10, <2>4
<1> QED BY <1>1, <1>3, <1>8, <1>9, <1>10, HereStack

\* One Back closes the surface or the panel on top and nothing else; a surface that
\* gives its own entry back takes nothing more with it (ui.jsx's backPop and
\* usePanelStack, each reading the same popstate).
THEOREM OneBackOneClosed == Spec => BackTakesTheTop
<1>1. IInv /\ [Next]_vars => [TakesTheTop]_vars
  BY StepTakesTheTop
<1> QED BY <1>1, Invariance, PTL DEF Spec, BackTakesTheTop
=============================================================================
