---------------------------- MODULE LogbookProofs ----------------------------
(***************************************************************************)
(* What holds of the Logbook for any bounds, any number of lines and any   *)
(* number of goroutines that flush it: nothing is lost untold, what waits  *)
(* has a drainer, a Flush keeps its word, a line stays with its job and    *)
(* account, and what matters least goes first.                             *)
(*                                                                         *)
(* The counts kept beside the buffer are the buffer's own (Counted): the   *)
(* drop order looks at them to say what is below a line, and a batch that  *)
(* is lost is counted by them.                                             *)
(***************************************************************************)
EXTENDS Logbook, FiniteSetTheorems, TLAPS

USE LogbookAssumption DEF Waiters, Gens, Names, Classes, NoPrune, PruneEnd

(***************************************************************************)
(* The inductive invariant.                                                *)
(***************************************************************************)
Finite == IsFiniteSet(book.buf) /\ IsFiniteSet(batch)

\* units and classCount are what the lines in the buffer come to.
OfClass(S, c) == {e \in S : Class(e) = c}
Counted == /\ book.units = LinesOf(book.buf)
           /\ \A c \in Classes : book.class[c] = Cardinality(OfClass(book.buf, c))

\* A Flush waits for lines that have come in.
Arrived == /\ \A e \in book.buf : e.seq <= seq
           /\ \A w \in Waiters : waiter[w].target <= seq

\* Between two batches the drainer has nothing in its hands.
EmptyHands == ~inFlight => batch = {} /\ carry = [over |-> 0, fail |-> 0]

IInv == /\ TypeOK /\ Finite /\ Counted /\ Arrived /\ EmptyHands
        /\ NothingLostUntold /\ WorkHasADrainer /\ FlushKeepsItsWord /\ NotForAnother

(***************************************************************************)
(* What a set of lines comes to.                                           *)
(***************************************************************************)
Rows(S) == {e \in S : e.kind = "row"}

LEMMA LinesAre ==
  ASSUME NEW S, IsFiniteSet(S)
  PROVE  /\ LinesOf(S) = Cardinality(S) + Cardinality(Rows(S)) /\ LinesOf(S) \in Nat
         /\ Cardinality(S) \in Nat /\ Cardinality(Rows(S)) \in Nat /\ IsFiniteSet(Rows(S))
<1>1. Rows(S) \in SUBSET S
  BY DEF Rows
<1>2. IsFiniteSet(Rows(S))
  BY <1>1, FS_Subset
<1>3. Cardinality(S) \in Nat /\ Cardinality(Rows(S)) \in Nat
  BY <1>2, FS_CardinalityType
<1> QED
  BY <1>2, <1>3 DEF LinesOf, Rows

LEMMA NoLines == LinesOf({}) = 0
<1>1. Rows({}) = {}
  BY DEF Rows
<1> QED
  BY <1>1, LinesAre, FS_EmptySet

\* Some of them come to less, and are taken off.
LEMMA CardinalityLess ==
  ASSUME NEW S, IsFiniteSet(S), NEW T \in SUBSET S
  PROVE  /\ IsFiniteSet(T) /\ IsFiniteSet(S \ T)
         /\ Cardinality(T) \in Nat /\ Cardinality(S) \in Nat
         /\ Cardinality(T) <= Cardinality(S)
         /\ Cardinality(S \ T) = Cardinality(S) - Cardinality(T)
<1>1. S \cap T = T
  OBVIOUS
<1> QED
  BY <1>1, FS_Subset, FS_Difference, FS_CardinalityType

LEMMA LinesLess ==
  ASSUME NEW S, IsFiniteSet(S), NEW T \in SUBSET S
  PROVE  /\ LinesOf(T) <= LinesOf(S) /\ LinesOf(S \ T) = LinesOf(S) - LinesOf(T)
         /\ LinesOf(S) \in Nat /\ LinesOf(T) \in Nat
<1>1. /\ Rows(T) \in SUBSET Rows(S) /\ Rows(S \ T) = Rows(S) \ Rows(T)
  BY DEF Rows
<1>2. IsFiniteSet(T) /\ IsFiniteSet(S \ T) /\ IsFiniteSet(Rows(S))
  BY CardinalityLess, LinesAre
<1>3. /\ Cardinality(T) <= Cardinality(S)
      /\ Cardinality(S \ T) = Cardinality(S) - Cardinality(T)
  BY CardinalityLess
<1>4. /\ Cardinality(Rows(T)) <= Cardinality(Rows(S))
      /\ Cardinality(Rows(S) \ Rows(T)) = Cardinality(Rows(S)) - Cardinality(Rows(T))
  BY <1>1, <1>2, CardinalityLess
<1>5. /\ LinesOf(S) = Cardinality(S) + Cardinality(Rows(S)) /\ LinesOf(S) \in Nat
      /\ Cardinality(S) \in Nat /\ Cardinality(Rows(S)) \in Nat
  BY LinesAre
<1>6. /\ LinesOf(T) = Cardinality(T) + Cardinality(Rows(T)) /\ LinesOf(T) \in Nat
      /\ Cardinality(T) \in Nat /\ Cardinality(Rows(T)) \in Nat
  BY <1>2, LinesAre
<1>7. LinesOf(S \ T) = Cardinality(S \ T) + Cardinality(Rows(S) \ Rows(T))
  BY <1>1, <1>2, LinesAre
<1> QED
  BY <1>3, <1>4, <1>5, <1>6, <1>7

\* One more.
LEMMA LinesMore ==
  ASSUME NEW S, IsFiniteSet(S), NEW e, e \notin S
  PROVE  IsFiniteSet(S \cup {e}) /\ LinesOf(S \cup {e}) = LinesOf(S) + Units(e)
<1>1. IsFiniteSet(S \cup {e}) /\ Cardinality(S \cup {e}) = Cardinality(S) + 1
  BY FS_AddElement
<1>2. /\ LinesOf(S) = Cardinality(S) + Cardinality(Rows(S))
      /\ Cardinality(S) \in Nat /\ Cardinality(Rows(S)) \in Nat /\ IsFiniteSet(Rows(S))
  BY LinesAre
<1>3. LinesOf(S \cup {e}) = Cardinality(S \cup {e}) + Cardinality(Rows(S \cup {e}))
  BY <1>1, LinesAre
<1>4. CASE e.kind = "row"
  <2>1. Rows(S \cup {e}) = Rows(S) \cup {e} /\ e \notin Rows(S)
    BY <1>4 DEF Rows
  <2>2. Cardinality(Rows(S) \cup {e}) = Cardinality(Rows(S)) + 1
    BY <2>1, <1>2, FS_AddElement
  <2> QED
    BY <1>1, <1>2, <1>3, <1>4, <2>1, <2>2 DEF Units
<1>5. CASE e.kind # "row"
  <2>1. Rows(S \cup {e}) = Rows(S)
    BY <1>5 DEF Rows
  <2> QED
    BY <1>1, <1>2, <1>3, <1>5, <2>1 DEF Units
<1> QED
  BY <1>1, <1>4, <1>5

\* A class is counted like all of them.
LEMMA ClassIn == \A e : Class(e) \in Classes
BY DEF Class

LEMMA ClassLess ==
  ASSUME NEW S, IsFiniteSet(S), NEW T \in SUBSET S, NEW c
  PROVE  /\ Cardinality(OfClass(S \ T, c)) =
              Cardinality(OfClass(S, c)) - Cardinality(OfClass(T, c))
         /\ Cardinality(OfClass(S \ T, c)) \in Nat
<1>1. OfClass(S, c) \in SUBSET S /\ OfClass(T, c) \in SUBSET OfClass(S, c)
  BY DEF OfClass
<1>2. OfClass(S \ T, c) = OfClass(S, c) \ OfClass(T, c)
  BY DEF OfClass
<1>3. IsFiniteSet(OfClass(S, c)) /\ IsFiniteSet(OfClass(S, c) \ OfClass(T, c))
  BY <1>1, CardinalityLess
<1> QED
  BY <1>1, <1>2, <1>3, CardinalityLess, FS_CardinalityType

LEMMA ClassMore ==
  ASSUME NEW S, IsFiniteSet(S), NEW e, e \notin S, NEW c
  PROVE  Cardinality(OfClass(S \cup {e}, c)) =
           IF c = Class(e) THEN Cardinality(OfClass(S, c)) + 1 ELSE Cardinality(OfClass(S, c))
<1>1. OfClass(S, c) \in SUBSET S
  BY DEF OfClass
<1>2. IsFiniteSet(OfClass(S, c)) /\ e \notin OfClass(S, c)
  BY <1>1, CardinalityLess
<1>3. CASE c = Class(e)
  <2>1. OfClass(S \cup {e}, c) = OfClass(S, c) \cup {e}
    BY <1>3 DEF OfClass
  <2> QED
    BY <1>2, <1>3, <2>1, FS_AddElement
<1>4. CASE c # Class(e)
  <2>1. OfClass(S \cup {e}, c) = OfClass(S, c)
    BY <1>4 DEF OfClass
  <2> QED
    BY <1>4, <2>1
<1> QED
  BY <1>3, <1>4

(***************************************************************************)
(* The buffer with lines taken out, and with one put in.                   *)
(***************************************************************************)
Book == [buf : SUBSET Entry, units : 0 .. MaxUnits, class : [Classes -> Nat]]
Sound(b) == /\ b \in Book /\ IsFiniteSet(b.buf)
            /\ b.units = LinesOf(b.buf)
            /\ \A c \in Classes : b.class[c] = Cardinality(OfClass(b.buf, c))

LEMMA BookIsSound == TypeOK /\ Finite /\ Counted <=> TypeOK /\ IsFiniteSet(batch) /\ Sound(book)
BY DEF TypeOK, Finite, Counted, Sound, Book

LEMMA EmptyIsSound == Sound(EmptyBook)
<1>1. IsFiniteSet({}) /\ Cardinality({}) = 0
  BY FS_EmptySet
<1>2. \A c \in Classes : OfClass({}, c) = {}
  BY DEF OfClass
<1> QED
  BY <1>1, <1>2, NoLines DEF EmptyBook, Sound, Book

LEMMA WithoutIsSound ==
  ASSUME NEW b, Sound(b), NEW S \in SUBSET b.buf
  PROVE  Sound(Without(b, S)) /\ Without(b, S).buf = b.buf \ S
<1> DEFINE w == Without(b, S)
<1>1. /\ w.buf = b.buf \ S /\ w.units = b.units - LinesOf(S)
      /\ w = [buf |-> w.buf, units |-> w.units, class |-> w.class]
  BY DEF Without
<1>2. \A c \in Classes : w.class[c] = b.class[c] - Cardinality(OfClass(S, c))
  BY DEF Without, OfClass
<1>3. DOMAIN w.class = Classes /\ w.class = [c \in Classes |-> w.class[c]]
  BY DEF Without
<1> HIDE DEF w
<1>4. /\ IsFiniteSet(b.buf) /\ b.buf \subseteq Entry /\ b.units \in 0 .. MaxUnits
      /\ b.units = LinesOf(b.buf)
  BY DEF Sound, Book
<1>5. IsFiniteSet(w.buf)
  BY <1>1, <1>4, CardinalityLess
<1>6. /\ w.units = LinesOf(w.buf) /\ w.units \in 0 .. MaxUnits
  <2>1. /\ LinesOf(S) <= LinesOf(b.buf) /\ LinesOf(b.buf \ S) = LinesOf(b.buf) - LinesOf(S)
        /\ LinesOf(b.buf) \in Nat /\ LinesOf(S) \in Nat
    BY <1>4, LinesLess
  <2> QED
    BY <1>1, <1>4, <2>1
<1>7. ASSUME NEW c \in Classes
      PROVE  w.class[c] = Cardinality(OfClass(w.buf, c)) /\ w.class[c] \in Nat
  <2>1. b.class[c] = Cardinality(OfClass(b.buf, c))
    BY DEF Sound
  <2> QED
    BY <1>1, <1>2, <1>4, <2>1, ClassLess
<1>8. w.class \in [Classes -> Nat]
  BY <1>3, <1>7
<1>9. w \in Book
  BY <1>1, <1>4, <1>6, <1>8 DEF Book
<1> QED
  BY <1>1, <1>5, <1>6, <1>7, <1>9 DEF Sound, w

LEMMA WithIsSound ==
  ASSUME NEW b, Sound(b), NEW e \in Entry, e \notin b.buf, b.units + Units(e) <= MaxUnits
  PROVE  Sound(With(b, e)) /\ With(b, e).buf = b.buf \cup {e}
<1> DEFINE w == With(b, e)
<1>0. /\ IsFiniteSet(b.buf) /\ b.buf \subseteq Entry /\ b.units \in 0 .. MaxUnits
      /\ b.units = LinesOf(b.buf) /\ b.class \in [Classes -> Nat] /\ Units(e) \in {1, 2}
  BY DEF Sound, Book, Units
<1>1. /\ w.buf = b.buf \cup {e} /\ w.units = b.units + Units(e)
      /\ w.class = [b.class EXCEPT ![Class(e)] = @ + 1]
      /\ w = [buf |-> w.buf, units |-> w.units, class |-> w.class]
  BY DEF With
<1> HIDE DEF w
<1>2. \A c \in Classes : w.class[c] = IF c = Class(e) THEN b.class[c] + 1 ELSE b.class[c]
  BY <1>0, <1>1
<1>3. IsFiniteSet(w.buf) /\ w.units = LinesOf(w.buf)
  BY <1>0, <1>1, LinesMore
<1>4. w.units \in 0 .. MaxUnits
  BY <1>0, <1>1
<1>5. w.class \in [Classes -> Nat]
  <2>1. Class(e) \in Classes /\ b.class[Class(e)] + 1 \in Nat
    BY <1>0, ClassIn
  <2> QED
    BY <1>0, <1>1, <2>1
<1>6. ASSUME NEW c \in Classes PROVE w.class[c] = Cardinality(OfClass(w.buf, c))
  <2>1. b.class[c] = Cardinality(OfClass(b.buf, c))
    BY DEF Sound
  <2>2. Cardinality(OfClass(w.buf, c)) =
           IF c = Class(e) THEN Cardinality(OfClass(b.buf, c)) + 1
           ELSE Cardinality(OfClass(b.buf, c))
    BY <1>0, <1>1, ClassMore
  <2> QED
    BY <1>2, <2>1, <2>2
<1>7. w \in Book
  BY <1>0, <1>1, <1>4, <1>5 DEF Book
<1> QED
  BY <1>1, <1>3, <1>6, <1>7 DEF Sound, w

(***************************************************************************)
(* Making room.                                                            *)
(***************************************************************************)
LEMMA RankIn == \A e : Rank[Class(e)] \in {1, 2, 3} /\ (Rank[Class(e)] = 1 <=> Class(e) = "low")
                       /\ (Rank[Class(e)] = 2 <=> Class(e) = "mid")
BY DEF Rank, Class

\* What goes for a line leaves nothing of a lower class.
LEMMA LeastGoFirst ==
  ASSUME NEW b, Sound(b), NEW e, NEW d \in Victims(b, e), NEW x \in b.buf \ Victims(b, e),
         Units(e) \in Nat
  PROVE  d \in b.buf /\ Rank[Class(x)] >= Rank[Class(d)]
<1> DEFINE Sooner(y) == {c \in Below(b, e) : Before(c, y)}
<1>1. /\ d \in Below(b, e) /\ b.units - LinesOf(Sooner(d)) + Units(e) > MaxUnits
      /\ Rank[Class(d)] < Rank[Class(e)] /\ d \in b.buf
  BY DEF Victims, Below
<1> SUFFICES ASSUME ~(Rank[Class(x)] >= Rank[Class(d)]) PROVE FALSE
  BY <1>1
<1>2. Rank[Class(x)] < Rank[Class(d)] /\ Rank[Class(x)] < Rank[Class(e)]
  BY <1>1, RankIn
<1>3. b.class[Class(x)] > 0
  <2>1. OfClass(b.buf, Class(x)) \in SUBSET b.buf /\ x \in OfClass(b.buf, Class(x))
    BY DEF OfClass
  <2>2. IsFiniteSet(OfClass(b.buf, Class(x)))
    BY <2>1, CardinalityLess DEF Sound
  <2>3. /\ Cardinality(OfClass(b.buf, Class(x))) # 0
        /\ Cardinality(OfClass(b.buf, Class(x))) \in Nat
    BY <2>1, <2>2, FS_EmptySet, FS_CardinalityType
  <2> QED
    BY <2>3, ClassIn DEF Sound
<1>4. x \in Below(b, e)
  BY <1>2, <1>3 DEF Below
<1>5. Sooner(x) \subseteq Sooner(d)
  <2> SUFFICES ASSUME NEW c, Before(c, x) PROVE Before(c, d)
    OBVIOUS
  <2>1. Rank[Class(c)] <= Rank[Class(x)]
    BY RankIn DEF Before
  <2> QED
    BY <1>2, <2>1, RankIn DEF Before
<1>6. LinesOf(Sooner(x)) <= LinesOf(Sooner(d)) /\ LinesOf(Sooner(x)) \in Nat /\ LinesOf(Sooner(d)) \in Nat
  <2>1. Sooner(d) \in SUBSET b.buf /\ Sooner(x) \in SUBSET Sooner(d)
    BY <1>5 DEF Below
  <2>2. IsFiniteSet(Sooner(d))
    BY <2>1, CardinalityLess DEF Sound
  <2> QED
    BY <2>1, <2>2, LinesLess
<1>7. b.units - LinesOf(Sooner(x)) + Units(e) > MaxUnits
  <2>1. b.units \in Nat
    BY DEF Sound, Book
  <2> HIDE DEF Sooner
  <2> QED
    BY <1>1, <1>6, <2>1
<1> QED
  BY <1>4, <1>7 DEF Victims

\* A line as it comes in.
LEMMA LinesType ==
  ASSUME TypeOK, Arrived, seq < MaxLines, NEW kind \in Kinds, NEW e \in Lines(kind)
  PROVE  e \in Entry /\ e.seq = seq + 1 /\ e \notin book.buf
<1>0. seq \in 0 .. MaxLines /\ seq + 1 \in 1 .. MaxLines /\ gen \in 1 .. MaxGen /\ holder \in 1 .. MaxName
  BY DEF TypeOK
<1>1. PICK g \in Gens, n \in Names \cup {0} : e = Line(kind, g, n)
  <2>1. 0 \in Names \cup {0} /\ 1 \in Names \cup {0} /\ 1 \in Gens /\ 1 .. gen \subseteq Gens
        /\ 1 .. gen - 1 \subseteq Gens /\ holder \in Names \cup {0} /\ gen \in Gens
    BY <1>0
  <2>2. CASE kind = "job"
    BY <2>1, <2>2 DEF Lines
  <2>3. CASE kind = "row"
    BY <2>1, <2>3 DEF Lines
  <2>4. CASE kind \notin {"job", "row"}
    BY <2>1, <2>4 DEF Lines
  <2> QED
    BY <2>2, <2>3, <2>4
<1>2. e \in Entry /\ e.seq = seq + 1
  BY <1>0, <1>1 DEF Line, Entry
<1>3. e \notin book.buf
  BY <1>0, <1>2 DEF Arrived
<1> QED
  BY <1>2, <1>3

\* A line that comes in, and what goes for it.
LEMMA LogFacts ==
  ASSUME IInv, NEW kind \in Kinds, NEW e \in Lines(kind), Log(e)
  PROVE  /\ Sound(book') /\ seq' \in {seq, seq + 1} /\ seq' \in 0 .. MaxLines
         /\ book'.buf \ {e} = book.buf \ Victims(book, e)
         /\ e \in book'.buf => e.seq = seq + 1 /\ seq' = seq + 1
         /\ e \notin book.buf /\ Victims(book, e) \subseteq book.buf
         /\ Victims(book, e) # {} => waiter' = Woken
         /\ Victims(book, e) = {} => waiter' \in {waiter, Woken}
         /\ dpc' = dpc \/ (~alive /\ dpc' \in {"none", "top"})
         /\ attached /\ book'.buf # {} => alive \/ book'.buf \subseteq book.buf \/ dpc' = "top"
         /\ \E n \in Nat : overflow' = overflow + n /\ lost' = lost + n
<1> DEFINE out == Victims(book, e)
           room == Without(book, out)
           fits == room.units + Units(e) <= MaxUnits
           dropped == LinesOf(out) + (IF fits THEN 0 ELSE Units(e))
<1>0. /\ TypeOK /\ Arrived /\ Sound(book) /\ ~closed /\ seq < MaxLines /\ seq \in 0 .. MaxLines
  BY BookIsSound DEF IInv, Log, TypeOK
<1>1. e \in Entry /\ e.seq = seq + 1 /\ e \notin book.buf
  BY <1>0, LinesType
<1>2. out \in SUBSET book.buf
  BY DEF Victims, Below
<1>3. Sound(room) /\ room.buf = book.buf \ out
  BY <1>0, <1>2, WithoutIsSound
<1>4. dropped \in Nat
  <2>1. LinesOf(out) \in Nat
    BY <1>0, <1>2, LinesLess DEF Sound
  <2> QED
    BY <2>1 DEF Units
<1>5. /\ book' = IF fits THEN With(room, e) ELSE room
      /\ seq' = IF fits THEN seq + 1 ELSE seq
      /\ overflow' = overflow + dropped
      /\ lost' = lost + dropped
      /\ waiter' = IF out # {} THEN Woken ELSE waiter
      /\ IF fits THEN Kick(book', pruneWanted, prune, attached) ELSE UNCHANGED dpc
  BY DEF Log
<1> HIDE DEF dropped
<1>6. CASE fits
  <2>1. Sound(With(room, e)) /\ With(room, e).buf = room.buf \cup {e}
    BY <1>1, <1>3, <1>6, WithIsSound
  <2>2. dpc' = dpc \/ (~alive /\ dpc' \in {"none", "top"})
    BY <1>5, <1>6 DEF Kick, Start
  <2>3. attached => alive \/ dpc' = "top"
    BY <1>0, <1>1, <1>3, <1>5, <1>6, <2>1 DEF Kick, Start, HasWork
  <2>4. book'.buf = (book.buf \ out) \cup {e} /\ Sound(book') /\ seq' = seq + 1
    BY <1>3, <1>5, <1>6, <2>1
  <2> HIDE DEF out, room, fits
  <2> QED
    BY <1>0, <1>1, <1>2, <1>4, <1>5, <1>6, <2>2, <2>3, <2>4 DEF out
<1>7. CASE ~fits
  <2> HIDE DEF room, fits
  <2> QED
    BY <1>0, <1>1, <1>2, <1>3, <1>4, <1>5, <1>7
<1> QED
  BY <1>6, <1>7

\* A batch is lines of the buffer, and they go.
LEMMA TakeFacts ==
  ASSUME IInv, TakeBatch
  PROVE  /\ batch' \in SUBSET book.buf /\ IsFiniteSet(batch') /\ batch' \subseteq Entry
         /\ Sound(book') /\ book'.buf = book.buf \ batch'
<1>1. Sound(book)
  BY BookIsSound DEF IInv
<1>2. batch' = Batch(book) /\ Batch(book) \in SUBSET book.buf
  BY DEF TakeBatch, Batch
<1>3. book' = Without(book, batch')
  BY <1>2 DEF TakeBatch
<1>4. IsFiniteSet(batch') /\ batch' \subseteq Entry
  BY <1>1, <1>2, CardinalityLess DEF Sound, Book
<1> QED
  BY <1>1, <1>2, <1>3, <1>4, WithoutIsSound

(***************************************************************************)
(* The types, and the counts.                                              *)
(***************************************************************************)
PCs == {"idle", "check", "wait", "answered", "late"}
Waiting == [pc : PCs, target : 0 .. MaxLines]

LEMMA WokenType ==
  ASSUME TypeOK
  PROVE  /\ Woken \in [Waiters -> Waiting]
         /\ \A w \in Waiters : /\ Woken[w].pc # "wait" /\ Woken[w].target = waiter[w].target
                               /\ Woken[w].pc = "answered" => waiter[w].pc = "answered"
                               /\ waiter[w].pc = "answered" => Woken[w] = waiter[w]
BY DEF Woken, TypeOK, PCs, Waiting

\* The steps there are.
LEMMA Steps ==
  ASSUME [Next]_vars
  PROVE  \/ Attach \/ PruneSoon
         \/ \E kind \in Kinds : \E e \in Lines(kind) : Log(e)
         \/ DrainerLeaves \/ BeginChunk \/ EndChunk \/ TakeBatch \/ WriteBatch
         \/ WriteFails \/ EndBatch \/ DrainerPanics
         \/ \E w \in Waiters : FlushStart(w) \/ FlushCheck(w) \/ FlushGivesUp(w)
         \/ CloseStart \/ CloseEnd \/ Swap \/ HandOver \/ UNCHANGED vars
BY DEF Next, DrainStep

\* Who goes near the buffer and the batch.
LEMMA BookChange ==
  ASSUME [Next]_vars
  PROVE  \/ book' = book /\ seq' = seq /\ overflow' = overflow /\ failed' = failed
              /\ batch' = batch /\ carry' = carry /\ lost' = lost /\ told' = told
              /\ (dpc' = dpc \/ (~inFlight /\ ~inFlight'))
         \/ \E kind \in Kinds : \E e \in Lines(kind) : Log(e)
         \/ TakeBatch \/ WriteBatch \/ WriteFails \/ EndBatch \/ DrainerPanics \/ CloseEnd
<1> USE DEF bookVars, pruneVars, drainVars, fileVars, histVars, inFlight
<1>1. CASE Attach \/ PruneSoon \/ CloseStart
  <2>1. /\ book' = book /\ seq' = seq /\ overflow' = overflow /\ failed' = failed
        /\ batch' = batch /\ carry' = carry /\ lost' = lost /\ told' = told
    BY <1>1 DEF Attach, PruneSoon, CloseStart
  <2>2. dpc' = dpc \/ (dpc = "none" /\ dpc' \in {"none", "top"})
    BY <1>1 DEF Attach, PruneSoon, CloseStart, Kick, Start, alive
  <2> QED
    BY <2>1, <2>2
<1>2. CASE DrainerLeaves \/ BeginChunk \/ EndChunk
  BY <1>2 DEF DrainerLeaves, BeginChunk, EndChunk
<1>3. CASE \E w \in Waiters : FlushStart(w) \/ FlushCheck(w) \/ FlushGivesUp(w)
  BY <1>3 DEF FlushStart, FlushCheck, FlushGivesUp
<1>4. CASE Swap \/ HandOver \/ UNCHANGED vars
  BY <1>4 DEF Swap, HandOver, vars
<1> QED
  BY <1>1, <1>2, <1>3, <1>4 DEF Next, DrainStep

\* The buffer and the batch: finite, and counted.
LEMMA BookKept ==
  ASSUME IInv, [Next]_vars
  PROVE  /\ Sound(book') /\ batch' \subseteq Entry /\ IsFiniteSet(batch')
         /\ seq' \in 0 .. MaxLines /\ seq <= seq'
         /\ \A e \in book'.buf : e.seq <= seq'
<1>0. /\ TypeOK /\ Sound(book) /\ batch \subseteq Entry /\ IsFiniteSet(batch)
      /\ seq \in 0 .. MaxLines /\ (\A e \in book.buf : e.seq <= seq)
      /\ \A e \in book.buf : e.seq \in Nat
  BY BookIsSound DEF IInv, TypeOK, Arrived, Entry
<1>1. ASSUME NEW kind \in Kinds, NEW e \in Lines(kind), Log(e)
      PROVE  /\ Sound(book') /\ batch' = batch /\ seq' \in 0 .. MaxLines /\ seq <= seq'
             /\ \A d \in book'.buf : d.seq <= seq'
  <2>1. /\ Sound(book') /\ seq' \in {seq, seq + 1} /\ seq' \in 0 .. MaxLines
        /\ book'.buf \ {e} = book.buf \ Victims(book, e)
        /\ e \in book'.buf => e.seq = seq + 1 /\ seq' = seq + 1
    BY <1>1, LogFacts
  <2>2. batch' = batch
    BY <1>1 DEF Log
  <2>3. seq <= seq'
    BY <1>0, <2>1
  <2>4. ASSUME NEW d \in book'.buf PROVE d.seq <= seq'
    <3>1. CASE d = e
      BY <1>0, <2>1, <3>1
    <3>2. CASE d # e
      BY <1>0, <2>1, <2>3, <3>2
    <3> QED
      BY <3>1, <3>2
  <2> QED
    BY <2>1, <2>2, <2>3, <2>4
<1>2. CASE TakeBatch
  BY <1>0, <1>2, TakeFacts DEF TakeBatch
<1>3. CASE WriteBatch \/ WriteFails
  BY <1>0, <1>3 DEF WriteBatch, WriteFails, bookVars
<1>4. CASE EndBatch \/ DrainerPanics
  <2>1. book' = book /\ seq' = seq /\ batch' = {}
    BY <1>4 DEF EndBatch, DrainerPanics
  <2> QED
    BY <1>0, <2>1, FS_EmptySet
<1>5. CASE CloseEnd
  BY <1>0, <1>5, EmptyIsSound DEF CloseEnd, drainVars, EmptyBook
<1> QED
  BY <1>0, <1>1, <1>2, <1>3, <1>4, <1>5, BookChange

LEMMA TypesKept ==
  ASSUME IInv, [Next]_vars
  PROVE  TypeOK'
<1> USE DEF bookVars, pruneVars, drainVars, fileVars, histVars
<1>0. /\ attached \in BOOLEAN /\ closed \in BOOLEAN
      /\ overflow \in Nat /\ failed \in Nat /\ lost \in Nat /\ told \in Nat
      /\ carry \in [over : Nat, fail : Nat] /\ carry.over \in Nat /\ carry.fail \in Nat
      /\ pruneWanted \in BOOLEAN /\ prune \in {0, 1} /\ sincePrune \in 0 .. PruneEvery
      /\ dpc \in {"none", "top", "write", "kept", "lost", "chunk"}
      /\ waiter \in [Waiters -> Waiting] /\ Woken \in [Waiters -> Waiting]
      /\ gen \in Gens /\ holder \in Names /\ seq \in 0 .. MaxLines
  BY WokenType DEF IInv, TypeOK, Waiting, PCs
<1>1. book' \in Book /\ batch' \subseteq Entry /\ seq' \in 0 .. MaxLines
  BY BookKept DEF Sound
<1>2. overflow' \in Nat /\ failed' \in Nat /\ lost' \in Nat /\ told' \in Nat
  <2>1. LinesOf(batch) \in Nat
    BY LinesAre DEF IInv, Finite
  <2>2. ASSUME NEW kind \in Kinds, NEW e \in Lines(kind), Log(e)
        PROVE  overflow' \in Nat /\ lost' \in Nat /\ failed' = failed /\ told' = told
    <3>1. \E n \in Nat : overflow' = overflow + n /\ lost' = lost + n
      BY <2>2, LogFacts
    <3> QED
      BY <1>0, <2>2, <3>1 DEF Log
  <2>3. CASE TakeBatch \/ WriteBatch \/ WriteFails
    BY <1>0, <2>1, <2>3 DEF TakeBatch, WriteBatch, WriteFails
  <2>4. CASE EndBatch
    <3>1. CASE dpc = "lost"
      BY <1>0, <2>1, <2>4, <3>1 DEF EndBatch
    <3>2. CASE dpc # "lost"
      BY <1>0, <2>4, <3>2 DEF EndBatch
    <3> QED
      BY <3>1, <3>2
  <2>5. CASE DrainerPanics \/ CloseEnd
    BY <1>0, <2>1, <2>5 DEF DrainerPanics, PanicCounts, CloseEnd
  <2> QED
    BY <1>0, <2>2, <2>3, <2>4, <2>5, BookChange
<1>3. /\ attached' \in BOOLEAN /\ closed' \in BOOLEAN
  BY <1>0, Steps DEF Attach, PruneSoon, Log, DrainerLeaves, BeginChunk, EndChunk,
     TakeBatch, WriteBatch, WriteFails, EndBatch, DrainerPanics, FlushStart, FlushCheck,
     FlushGivesUp, CloseStart, CloseEnd, Swap, HandOver, vars
<1>4. gen' \in Gens /\ holder' \in Names
  <2>1. CASE Swap \/ HandOver
    BY <1>0, <2>1 DEF Swap, HandOver
  <2> QED
    BY <1>0, <2>1, Steps DEF Attach, PruneSoon, Log, DrainerLeaves, BeginChunk, EndChunk,
       TakeBatch, WriteBatch, WriteFails, EndBatch, DrainerPanics, FlushStart, FlushCheck,
       FlushGivesUp, CloseStart, CloseEnd, vars
<1>5. carry' \in [over : Nat, fail : Nat]
  <2>1. CASE TakeBatch \/ EndBatch \/ DrainerPanics
    <3>1. carry' \in {[over |-> overflow, fail |-> failed], [over |-> 0, fail |-> 0]}
      BY <2>1 DEF TakeBatch, EndBatch, DrainerPanics
    <3> QED
      BY <1>0, <3>1
  <2> QED
    BY <1>0, <2>1, Steps DEF Attach, PruneSoon, Log, DrainerLeaves, BeginChunk, EndChunk,
       WriteBatch, WriteFails, FlushStart, FlushCheck,
       FlushGivesUp, CloseStart, CloseEnd, Swap, HandOver, vars
<1>6. pruneWanted' \in BOOLEAN
  <2>1. CASE PruneSoon \/ BeginChunk \/ EndBatch \/ CloseEnd
    <3>1. pruneWanted' \in {pruneWanted, TRUE, FALSE}
      BY <1>0, <2>1 DEF PruneSoon, BeginChunk, EndBatch, CloseEnd
    <3> QED
      BY <1>0, <3>1
  <2> QED
    BY <1>0, <2>1, Steps DEF Attach, Log, DrainerLeaves, EndChunk, TakeBatch, WriteBatch,
       WriteFails, DrainerPanics, FlushStart, FlushCheck, FlushGivesUp, CloseStart, Swap,
       HandOver, vars
<1>9. prune' \in 0 .. 1
  <2>1. CASE EndChunk
    <3>1. (prune + 1) % 2 \in {0, 1}
      BY <1>0
    <3> QED
      BY <1>0, <2>1, <3>1 DEF EndChunk
  <2>2. CASE BeginChunk \/ DrainerPanics \/ CloseEnd
    <3>1. prune' \in {0, 1, prune}
      BY <2>2 DEF BeginChunk, DrainerPanics, CloseEnd
    <3> QED
      BY <1>0, <3>1
  <2>3. prune' = prune \/ EndChunk \/ BeginChunk \/ DrainerPanics \/ CloseEnd
    BY Steps DEF Attach, PruneSoon, Log, DrainerLeaves, TakeBatch, WriteBatch, WriteFails,
       EndBatch, FlushStart, FlushCheck, FlushGivesUp, CloseStart, Swap, HandOver, vars
  <2> QED
    BY <1>0, <2>1, <2>2, <2>3
<1>10. sincePrune' \in 0 .. PruneEvery
  <2>1. CASE BeginChunk \/ TakeBatch
    <3>1. \/ sincePrune' \in {0, PruneEvery}
          \/ sincePrune < PruneEvery /\ sincePrune' = sincePrune + 1
      BY <2>1 DEF BeginChunk, TakeBatch
    <3> QED
      BY <1>0, <3>1
  <2> QED
    BY <1>0, <2>1, Steps DEF Attach, PruneSoon, Log, DrainerLeaves, EndChunk, WriteBatch,
       WriteFails, EndBatch, DrainerPanics, FlushStart, FlushCheck, FlushGivesUp,
       CloseStart, CloseEnd, Swap, HandOver, vars
<1>7. dpc' \in {"none", "top", "write", "kept", "lost", "chunk"}
  <2>1. CASE Attach \/ PruneSoon \/ CloseStart \/ DrainerPanics
    BY <1>0, <2>1 DEF Attach, PruneSoon, CloseStart, DrainerPanics, Kick, Start
  <2>2. ASSUME NEW kind \in Kinds, NEW e \in Lines(kind), Log(e)
        PROVE  dpc' \in {dpc, "none", "top"}
    BY <2>2, LogFacts
  <2> QED
    BY <1>0, <2>1, <2>2, Steps DEF DrainerLeaves, BeginChunk, EndChunk, TakeBatch,
       WriteBatch, WriteFails, EndBatch, FlushStart, FlushCheck, FlushGivesUp, CloseEnd,
       Swap, HandOver, vars
<1>8. waiter' \in [Waiters -> Waiting]
  <2>1. ASSUME NEW w \in Waiters, FlushStart(w) \/ FlushCheck(w) \/ FlushGivesUp(w)
        PROVE  waiter' \in [Waiters -> Waiting]
    BY <1>0, <2>1 DEF FlushStart, FlushCheck, FlushGivesUp, Waiting, PCs
  <2>2. CASE CloseStart
    BY <1>0, <2>2 DEF CloseStart, Waiting, PCs
  <2>3. ASSUME NEW kind \in Kinds, NEW e \in Lines(kind), Log(e)
        PROVE  waiter' \in {waiter, Woken}
    BY <2>3 DEF Log
  <2> QED
    BY <1>0, <2>1, <2>2, <2>3, Steps DEF Attach, PruneSoon, DrainerLeaves, BeginChunk,
       EndChunk, TakeBatch, WriteBatch, WriteFails, EndBatch, DrainerPanics, CloseEnd, Swap,
       HandOver, vars
<1> QED
  BY <1>1, <1>2, <1>3, <1>4, <1>5, <1>6, <1>7, <1>8, <1>9, <1>10 DEF TypeOK, Book, Waiting, PCs

(***************************************************************************)
(* Each part of the invariant, kept by every step.                         *)
(***************************************************************************)
LEMMA CountedKept ==
  ASSUME IInv, [Next]_vars
  PROVE  Finite' /\ Counted'
BY BookKept DEF Sound, Finite, Counted

LEMMA ArrivedKept ==
  ASSUME IInv, [Next]_vars
  PROVE  Arrived'
<1>0. /\ \A w \in Waiters : waiter[w].target <= seq /\ waiter[w].target \in Nat
      /\ seq \in Nat /\ seq' \in Nat /\ seq <= seq'
      /\ waiter \in [Waiters -> Waiting]
  BY BookKept DEF IInv, TypeOK, Arrived, Waiting, PCs
<1>1. ASSUME NEW w \in Waiters PROVE waiter'[w].target \in {waiter[w].target, seq, 0}
  <2>1. Woken[w].target = waiter[w].target
    BY WokenType DEF IInv
  <2>2. ASSUME NEW v \in Waiters, FlushStart(v) \/ FlushCheck(v) \/ FlushGivesUp(v)
        PROVE  waiter'[w].target \in {waiter[w].target, seq, 0}
    BY <1>0, <2>2 DEF FlushStart, FlushCheck, FlushGivesUp, Waiting
  <2>3. CASE CloseStart
    BY <1>0, <2>3 DEF CloseStart
  <2>4. ASSUME NEW kind \in Kinds, NEW e \in Lines(kind), Log(e)
        PROVE  waiter' \in {waiter, Woken}
    BY <2>4 DEF Log
  <2> QED
    BY <2>1, <2>2, <2>3, <2>4, Steps DEF Attach, PruneSoon, DrainerLeaves, BeginChunk,
       EndChunk, TakeBatch, WriteBatch, WriteFails, EndBatch, DrainerPanics, CloseEnd, Swap,
       HandOver, fileVars, vars
<1>2. \A w \in Waiters : waiter'[w].target <= seq'
  BY <1>0, <1>1
<1> QED
  BY <1>2, BookKept DEF Arrived

LEMMA EmptyHandsKept ==
  ASSUME IInv, [Next]_vars
  PROVE  EmptyHands'
<1>0. EmptyHands
  BY DEF IInv
<1>1. ASSUME NEW kind \in Kinds, NEW e \in Lines(kind), Log(e) PROVE EmptyHands'
  <2>1. batch' = batch /\ carry' = carry
    BY <1>1 DEF Log
  <2>2. dpc' = dpc \/ (~alive /\ dpc' \in {"none", "top"})
    BY <1>1, LogFacts
  <2> QED
    BY <1>0, <2>1, <2>2 DEF EmptyHands, inFlight, alive
<1>2. CASE TakeBatch \/ WriteBatch \/ WriteFails
  BY <1>2 DEF TakeBatch, WriteBatch, WriteFails, EmptyHands, inFlight
<1>3. CASE EndBatch \/ DrainerPanics
  BY <1>3 DEF EndBatch, DrainerPanics, EmptyHands
<1>4. CASE CloseEnd
  BY <1>0, <1>4 DEF CloseEnd, drainVars, EmptyHands, inFlight
<1>5. ASSUME batch' = batch, carry' = carry, dpc' = dpc \/ (~inFlight /\ ~inFlight')
      PROVE  EmptyHands'
  BY <1>0, <1>5 DEF EmptyHands, inFlight
<1> QED
  BY <1>1, <1>2, <1>3, <1>4, <1>5, BookChange

LEMMA UntoldKept ==
  ASSUME IInv, [Next]_vars
  PROVE  NothingLostUntold'
<1> USE DEF bookVars, pruneVars, drainVars, fileVars, histVars
<1>0. /\ NothingLostUntold /\ EmptyHands
      /\ overflow \in Nat /\ failed \in Nat /\ lost \in Nat /\ told \in Nat
      /\ carry.over \in Nat /\ carry.fail \in Nat /\ LinesOf(batch) \in Nat
  BY LinesAre DEF IInv, TypeOK, Finite
<1>1. closed' \/ closed' = closed
  BY Steps DEF Attach, PruneSoon, Log, DrainerLeaves, BeginChunk, EndChunk, TakeBatch,
     WriteBatch, WriteFails, EndBatch, DrainerPanics, FlushStart, FlushCheck, FlushGivesUp,
     CloseStart, CloseEnd, Swap, HandOver, vars
<1> SUFFICES ASSUME ~closed, ~closed' PROVE NothingLostUntold'
  BY <1>1 DEF NothingLostUntold
<1> DEFINE Owed == told + overflow + failed
                     + (IF dpc \in {"write", "lost"} THEN carry.over + carry.fail ELSE 0)
                     + (IF dpc = "lost" THEN LinesOf(batch) ELSE 0)
<1>2. lost = Owed
  BY <1>0 DEF NothingLostUntold
<1> SUFFICES lost' = Owed'
  BY DEF NothingLostUntold
<1>3. ASSUME NEW kind \in Kinds, NEW e \in Lines(kind), Log(e) PROVE lost' = Owed'
  <2>1. /\ batch' = batch /\ carry' = carry /\ told' = told /\ failed' = failed
    BY <1>3 DEF Log
  <2>2. dpc' = dpc \/ (~alive /\ dpc' \in {"none", "top"})
    BY <1>3, LogFacts
  <2>3. dpc' \in {"write", "lost"} \/ dpc \in {"write", "lost"} => dpc' = dpc
    BY <2>2 DEF alive
  <2>4. PICK n \in Nat : overflow' = overflow + n /\ lost' = lost + n
    BY <1>3, LogFacts
  <2> QED
    BY <1>0, <1>2, <2>1, <2>3, <2>4
<1>4. CASE TakeBatch
  <2>1. /\ dpc = "top" /\ dpc' = "write" /\ carry' = [over |-> overflow, fail |-> failed]
        /\ overflow' = 0 /\ failed' = 0 /\ lost' = lost /\ told' = told
    BY <1>4 DEF TakeBatch
  <2> QED
    BY <1>0, <1>2, <2>1
<1>5. CASE WriteBatch
  <2>1. /\ dpc = "write" /\ dpc' = "kept" /\ told' = told + carry.over + carry.fail
        /\ overflow' = overflow /\ failed' = failed /\ lost' = lost
    BY <1>5 DEF WriteBatch
  <2> QED
    BY <1>0, <1>2, <2>1
<1>6. CASE WriteFails
  <2>1. /\ dpc = "write" /\ dpc' = "lost" /\ lost' = lost + LinesOf(batch)
        /\ overflow' = overflow /\ failed' = failed /\ told' = told
        /\ batch' = batch /\ carry' = carry
    BY <1>6 DEF WriteFails
  <2> QED
    BY <1>0, <1>2, <2>1
<1>7. CASE EndBatch
  <2>1. /\ dpc' = "top" /\ lost' = lost /\ told' = told
        /\ dpc \in {"kept", "lost"}
        /\ IF dpc = "lost" THEN /\ overflow' = overflow + carry.over
                                /\ failed' = failed + carry.fail + LinesOf(batch)
           ELSE overflow' = overflow /\ failed' = failed
    BY <1>7 DEF EndBatch
  <2> QED
    BY <1>0, <1>2, <2>1
<1>8. CASE DrainerPanics
  <2>1. /\ dpc' \in {"none", "top"} /\ dpc \in {"write", "chunk"}
        /\ overflow' = overflow + carry.over
        /\ failed' = failed + carry.fail + LinesOf(batch)
        /\ lost' = lost + LinesOf(batch) /\ told' = told
    BY <1>8 DEF DrainerPanics, PanicCounts, Start
  <2>2. dpc = "chunk" => carry.over = 0 /\ carry.fail = 0
    BY <1>0 DEF EmptyHands, inFlight
  <2> QED
    BY <1>0, <1>2, <2>1, <2>2
<1>9. CASE CloseEnd
  BY <1>9 DEF CloseEnd
<1>10. ASSUME overflow' = overflow, failed' = failed, batch' = batch, carry' = carry,
              lost' = lost, told' = told, dpc' = dpc \/ (~inFlight /\ ~inFlight')
       PROVE  lost' = Owed'
  <2>1. dpc' = dpc \/ (dpc \notin {"write", "lost"} /\ dpc' \notin {"write", "lost"})
    BY <1>10 DEF inFlight
  <2> QED
    BY <1>2, <1>10, <2>1
<1> QED
  BY <1>3, <1>4, <1>5, <1>6, <1>7, <1>8, <1>9, <1>10, BookChange

\* With a store, what is there to do has a drainer.
Work == book.buf # {} \/ pruneWanted \/ prune # NoPrune

LEMMA DrainerKept ==
  ASSUME IInv, [Next]_vars
  PROVE  WorkHasADrainer'
<1> USE DEF bookVars, pruneVars, drainVars, fileVars, histVars
<1>0. attached /\ ~closed /\ Work => alive
  BY DEF IInv, WorkHasADrainer, Work
<1> SUFFICES ASSUME attached', ~closed', Work' PROVE alive'
  BY DEF WorkHasADrainer, Work
<1>1. ASSUME ~alive, ~closed, Start(book', pruneWanted', prune', TRUE) PROVE alive'
  BY <1>1 DEF Start, HasWork, Work, alive
<1>8. CASE Attach
  BY <1>1, <1>8 DEF Attach, Kick, alive
<1>9. CASE PruneSoon
  BY <1>1, <1>9 DEF PruneSoon, Kick, Start, HasWork, Work, alive
<1>10. CASE CloseStart
  <2>1. closed' = closed /\ attached' = attached /\ UNCHANGED <<book, pruneWanted, prune>>
    BY <1>10 DEF CloseStart
  <2>2. CASE alive
    BY <1>10, <2>2 DEF CloseStart, Kick, alive
  <2>3. CASE ~alive
    BY <1>0, <2>1, <2>3 DEF Work
  <2> QED
    BY <2>2, <2>3
<1>11. CASE DrainerPanics
  BY <1>11 DEF DrainerPanics, Start, HasWork, Work, alive
<1>2. ASSUME NEW kind \in Kinds, NEW e \in Lines(kind), Log(e) PROVE alive'
  <2>1. /\ attached' = attached /\ ~closed /\ pruneWanted' = pruneWanted /\ prune' = prune
    BY <1>2 DEF Log
  <2>2. /\ dpc' = dpc \/ (~alive /\ dpc' \in {"none", "top"})
        /\ attached /\ book'.buf # {} => alive \/ book'.buf \subseteq book.buf \/ dpc' = "top"
    BY <1>2, LogFacts
  <2> QED
    BY <1>0, <2>1, <2>2 DEF Work, alive
<1>3. CASE DrainerLeaves
  BY <1>3 DEF DrainerLeaves, PruneDue, Work
<1>4. CASE BeginChunk \/ EndChunk \/ TakeBatch \/ WriteBatch \/ WriteFails \/ EndBatch
  BY <1>4 DEF BeginChunk, EndChunk, TakeBatch, WriteBatch, WriteFails, EndBatch, alive
<1>5. CASE CloseEnd
  BY <1>5 DEF CloseEnd
<1>6. CASE Swap \/ HandOver \/ UNCHANGED vars
  <2>1. UNCHANGED <<attached, closed, book, pruneWanted, prune, dpc>>
    BY <1>6 DEF Swap, HandOver, vars
  <2> QED
    BY <1>0, <2>1 DEF Work, alive
<1>7. ASSUME NEW w \in Waiters, FlushStart(w) \/ FlushCheck(w) \/ FlushGivesUp(w)
      PROVE  alive'
  BY <1>0, <1>7 DEF FlushStart, FlushCheck, FlushGivesUp, Work, alive
<1> QED
  BY <1>2, <1>3, <1>4, <1>5, <1>6, <1>7, <1>8, <1>9, <1>10, <1>11, Steps

\* A Flush that sleeps has something to wait for, one that answered has nothing.
LEMMA FlushKept ==
  ASSUME IInv, [Next]_vars
  PROVE  FlushKeepsItsWord'
<1> USE DEF bookVars, pruneVars, drainVars, fileVars, histVars
<1>0. /\ FlushIsWoken /\ FlushedIsWritten /\ waiter \in [Waiters -> Waiting]
      /\ \A w \in Waiters : waiter[w].target <= seq /\ waiter[w].target \in Nat
      /\ seq \in Nat
  BY DEF IInv, FlushKeepsItsWord, TypeOK, Arrived, Waiting, PCs
<1>1. ASSUME waiter' = waiter, book' = book, batch' = batch,
             dpc' = dpc \/ (~inFlight /\ ~inFlight')
                        \/ (dpc = "write" /\ dpc' \in {"kept", "lost"})
      PROVE  FlushKeepsItsWord'
  <2>1. inFlight' = inFlight /\ (dpc' = "write" => dpc = "write")
    BY <1>1 DEF inFlight
  <2>2. FlushIsWoken'
    BY <1>0, <1>1, <2>1 DEF FlushIsWoken, Settled
  <2>3. FlushedIsWritten'
    BY <1>0, <1>1, <2>1 DEF FlushedIsWritten
  <2> QED
    BY <2>2, <2>3 DEF FlushKeepsItsWord
<1>2. ASSUME waiter' = Woken, book'.buf \subseteq book.buf, batch' \in {batch, {}},
             dpc' = "write" => dpc = "write"
      PROVE  FlushKeepsItsWord'
  <2>1. \A w \in Waiters : /\ waiter'[w].pc # "wait"
                           /\ waiter'[w].pc = "answered" => waiter[w] = waiter'[w]
    BY <1>2, WokenType DEF IInv
  <2>2. FlushIsWoken'
    BY <2>1 DEF FlushIsWoken
  <2>3. FlushedIsWritten'
    BY <1>0, <1>2, <2>1 DEF FlushedIsWritten
  <2> QED
    BY <2>2, <2>3 DEF FlushKeepsItsWord
<1>3. CASE Attach \/ PruneSoon \/ BeginChunk \/ EndChunk \/ WriteBatch \/ WriteFails
             \/ Swap \/ HandOver \/ UNCHANGED vars
  <2>1. waiter' = waiter /\ book' = book /\ batch' = batch
    BY <1>3 DEF Attach, PruneSoon, BeginChunk, EndChunk, WriteBatch, WriteFails, Swap,
       HandOver, vars
  <2>2. \/ dpc' = dpc \/ (~inFlight /\ ~inFlight')
        \/ dpc = "write" /\ dpc' \in {"kept", "lost"}
    BY <1>3 DEF Attach, PruneSoon, BeginChunk, EndChunk, WriteBatch, WriteFails, Swap,
       HandOver, vars, Kick, Start, alive, inFlight
  <2> QED
    BY <1>1, <2>1, <2>2
<1>4. CASE DrainerLeaves \/ EndBatch \/ DrainerPanics \/ CloseEnd
  <2>1. waiter' = Woken /\ book' \in {book, EmptyBook} /\ batch' \in {batch, {}}
    BY <1>4 DEF DrainerLeaves, EndBatch, DrainerPanics, CloseEnd
  <2>2. dpc' = "write" => dpc = "write"
    BY <1>4 DEF DrainerLeaves, EndBatch, DrainerPanics, CloseEnd, Start
  <2>3. book'.buf \subseteq book.buf
    BY <2>1 DEF EmptyBook
  <2> QED
    BY <1>2, <2>1, <2>2, <2>3
<1>5. CASE TakeBatch
  <2>1. /\ batch' \in SUBSET book.buf /\ book'.buf = book.buf \ batch'
    BY <1>5, TakeFacts
  <2>2. waiter' = waiter /\ dpc' = "write" /\ dpc = "top"
    BY <1>5 DEF TakeBatch
  <2>3. FlushIsWoken'
    BY <1>0, <2>1, <2>2 DEF FlushIsWoken, Settled, inFlight
  <2>4. FlushedIsWritten'
    BY <1>0, <2>1, <2>2 DEF FlushedIsWritten
  <2> QED
    BY <2>3, <2>4 DEF FlushKeepsItsWord
<1>6. ASSUME NEW kind \in Kinds, NEW e \in Lines(kind), Log(e) PROVE FlushKeepsItsWord'
  <2>1. /\ book'.buf \ {e} = book.buf \ Victims(book, e)
        /\ e \in book'.buf => e.seq = seq + 1
        /\ e \notin book.buf
        /\ Victims(book, e) # {} => waiter' = Woken
        /\ Victims(book, e) = {} => waiter' \in {waiter, Woken}
        /\ dpc' = dpc \/ (~alive /\ dpc' \in {"none", "top"})
    BY <1>6, LogFacts
  <2>2. batch' = batch /\ inFlight' = inFlight /\ (dpc' = "write" => dpc = "write")
    BY <1>6, <2>1 DEF Log, inFlight, alive
  <2>3. \A w \in Waiters : /\ waiter'[w].target = waiter[w].target
                           /\ waiter'[w].pc = "answered" => waiter[w].pc = "answered"
                           /\ waiter'[w].pc = "wait" => /\ waiter[w].pc = "wait"
                                                        /\ book.buf \subseteq book'.buf
    BY <1>0, <2>1, WokenType DEF IInv
  <2>4. FlushIsWoken'
    BY <1>0, <2>2, <2>3 DEF FlushIsWoken, Settled
  <2>5. FlushedIsWritten'
    <3> SUFFICES ASSUME NEW w \in Waiters, waiter'[w].pc = "answered"
                 PROVE  /\ \A d \in book'.buf : d.seq > waiter'[w].target
                        /\ dpc' = "write" => \A d \in batch' : d.seq > waiter'[w].target
      BY DEF FlushedIsWritten
    <3>1. ASSUME NEW d \in book'.buf PROVE d.seq > waiter'[w].target
      <4>1. CASE d = e
        BY <1>0, <2>1, <2>3, <4>1
      <4>2. CASE d # e
        BY <1>0, <2>1, <2>3, <4>2 DEF FlushedIsWritten
      <4> QED
        BY <4>1, <4>2
    <3> QED
      BY <1>0, <2>2, <2>3, <3>1 DEF FlushedIsWritten
  <2> QED
    BY <2>4, <2>5 DEF FlushKeepsItsWord
<1>7. ASSUME NEW w \in Waiters, FlushStart(w) \/ FlushCheck(w) \/ FlushGivesUp(w)
      PROVE  FlushKeepsItsWord'
  <2>1. book' = book /\ batch' = batch /\ dpc' = dpc
    BY <1>7 DEF FlushStart, FlushCheck, FlushGivesUp
  <2>2. /\ \A v \in Waiters \ {w} : waiter'[v] = waiter[v]
        /\ waiter'[w].pc = "wait" => ~Settled(book, waiter'[w].target)
        /\ waiter'[w].pc = "answered" => Settled(book, waiter'[w].target)
    BY <1>0, <1>7 DEF FlushStart, FlushCheck, FlushGivesUp, Waiting
  <2>3. FlushIsWoken'
    BY <1>0, <2>1, <2>2 DEF FlushIsWoken, Settled, inFlight
  <2>4. FlushedIsWritten'
    BY <1>0, <2>1, <2>2 DEF FlushedIsWritten, Settled, inFlight
  <2> QED
    BY <2>3, <2>4 DEF FlushKeepsItsWord
<1>8. CASE CloseStart
  <2>1. book' = book /\ batch' = batch /\ waiter'[Closer].pc = "check"
    BY <1>0, <1>8 DEF CloseStart
  <2>2. \A v \in Waiters \ {Closer} : waiter'[v] = waiter[v]
    BY <1>0, <1>8 DEF CloseStart
  <2>3. inFlight' = inFlight /\ (dpc' = "write" => dpc = "write")
    BY <1>8 DEF CloseStart, Kick, Start, alive, inFlight
  <2>4. FlushIsWoken'
    BY <1>0, <2>1, <2>2, <2>3 DEF FlushIsWoken, Settled
  <2>5. FlushedIsWritten'
    BY <1>0, <2>1, <2>2, <2>3 DEF FlushedIsWritten
  <2> QED
    BY <2>4, <2>5 DEF FlushKeepsItsWord
<1> QED
  BY <1>3, <1>4, <1>5, <1>6, <1>7, <1>8, Steps

\* What a batch puts into the file is compared with the file as it is put there.
LEMMA ForNoOtherKept ==
  ASSUME IInv, [Next]_vars
  PROVE  NotForAnother'
<1> USE DEF bookVars, pruneVars, drainVars, fileVars, histVars
<1>0. NotForAnother /\ holder \in Names
  BY DEF IInv, TypeOK
<1>1. CASE WriteBatch
  <2>1. wrote' = Written
    BY <1>1 DEF WriteBatch
  <2>2. ASSUME NEW x \in Written
        PROVE  /\ x.e.kind = "job" => x.e.gen = x.file
               /\ x.e.kind = "row" /\ x.owner # 0 => x.e.gen = x.file /\ x.e.name = x.owner
    BY DEF Written
  <2> QED
    BY <2>1, <2>2 DEF NotForAnother
<1>2. CASE EndBatch
  BY <1>2 DEF EndBatch, NotForAnother
<1>3. wrote' = wrote \/ WriteBatch \/ EndBatch
  BY Steps DEF Attach, PruneSoon, Log, DrainerLeaves, BeginChunk, EndChunk, TakeBatch,
     WriteFails, DrainerPanics, FlushStart, FlushCheck, FlushGivesUp, CloseStart, CloseEnd,
     Swap, HandOver, vars
<1> QED
  BY <1>0, <1>1, <1>2, <1>3 DEF NotForAnother

(***************************************************************************)
(* The theorems.                                                           *)
(***************************************************************************)
LEMMA InitInv == Init => IInv
<1> SUFFICES ASSUME Init PROVE IInv
  OBVIOUS
<1>1. Sound(book) /\ IsFiniteSet(batch)
  BY EmptyIsSound, FS_EmptySet DEF Init
<1>2. book.buf = {} /\ \A w \in Waiters : waiter[w] = [pc |-> "idle", target |-> 0]
  BY DEF Init, EmptyBook
<1>3. TypeOK
  <2>1. waiter \in [Waiters -> Waiting]
    BY DEF Init, Waiting, PCs
  <2>2. book \in Book
    BY <1>1 DEF Sound
  <2>3. gen \in Gens /\ holder \in Names /\ seq \in 0 .. MaxLines /\ sincePrune \in 0 .. PruneEvery
    BY DEF Init
  <2>4. carry \in [over : Nat, fail : Nat] /\ batch \subseteq Entry
    BY DEF Init
  <2>5. attached \in BOOLEAN /\ closed \in BOOLEAN /\ pruneWanted \in BOOLEAN
    BY DEF Init
  <2>6. /\ overflow \in Nat /\ failed \in Nat /\ lost \in Nat /\ told \in Nat
        /\ prune \in 0 .. 1
    BY DEF Init
  <2>7. dpc \in {"none", "top", "write", "kept", "lost", "chunk"}
    BY DEF Init
  <2> QED
    BY <2>1, <2>2, <2>3, <2>4, <2>5, <2>6, <2>7 DEF TypeOK, Book, Waiting, PCs
<1>4. Finite /\ Counted
  BY <1>1 DEF Sound, Finite, Counted
<1>5. Arrived /\ FlushKeepsItsWord
  BY <1>2 DEF Init, Arrived, FlushKeepsItsWord, FlushIsWoken, FlushedIsWritten
<1>6. EmptyHands /\ NothingLostUntold /\ WorkHasADrainer /\ NotForAnother
  BY DEF Init, EmptyHands, NothingLostUntold, WorkHasADrainer, NotForAnother
<1> QED
  BY <1>3, <1>4, <1>5, <1>6 DEF IInv

LEMMA NextInv == IInv /\ [Next]_vars => IInv'
BY TypesKept, CountedKept, ArrivedKept, EmptyHandsKept, UntoldKept, DrainerKept, FlushKept,
   ForNoOtherKept DEF IInv

\* The inductive invariant: with the counts of the buffer those of what is in it, the
\* hands of the drainer empty between batches, and every Flush's target among what has
\* come in.
THEOREM Invariance == Spec => []IInv
<1>1. Init => IInv
  BY InitInv
<1>2. IInv /\ [Next]_vars => IInv'
  BY NextInv
<1> QED
  BY <1>1, <1>2, PTL DEF Spec

\* Types: so the buffer is never over its limit, and no count goes below zero.
THEOREM TypeCorrect == Spec => []TypeOK
<1>1. IInv => TypeOK
  BY DEF IInv
<1> QED
  BY <1>1, Invariance, PTL

\* Every line lost is told once, or still owed: through evictions, batches that fail with
\* their counts, panics between, and a logbook that is full (logbook.go:578, 632).
THEOREM LossesAreToldOnce == Spec => []NothingLostUntold
<1>1. IInv => NothingLostUntold
  BY DEF IInv
<1> QED
  BY <1>1, Invariance, PTL

\* What waits for a drainer has one, whoever leaves, panics or comes in meanwhile
\* (logbook.go:520, 588).
THEOREM WorkIsDrained == Spec => []WorkHasADrainer
<1>1. IInv => WorkHasADrainer
  BY DEF IInv
<1> QED
  BY <1>1, Invariance, PTL

\* A Flush sleeps only while there is something to wait for, and what it answered for is
\* written or counted (logbook.go:372, 419).
THEOREM FlushesAreAnswered == Spec => []FlushKeepsItsWord
<1>1. IInv => FlushKeepsItsWord
  BY DEF IInv
<1> QED
  BY <1>1, Invariance, PTL

\* No line is written to another job, and no row to another account, whatever the batch
\* waited for (logbook.go:717, 776).
THEOREM LinesStayTheirs == Spec => []NotForAnother
<1>1. IInv => NotForAnother
  BY DEF IInv
<1> QED
  BY <1>1, Invariance, PTL

\* A line goes for want of room only when none of a lower class is left (logbook.go:444,
\* 464).
LEMMA LeastGoesStep == ASSUME IInv, [Next]_vars PROVE LeastGoes
<1> USE DEF bookVars, pruneVars, drainVars, fileVars, histVars
<1> SUFFICES ASSUME NEW d \in book.buf \ book'.buf, ~closed', d \notin batch',
                    NEW x \in book.buf \cap book'.buf
             PROVE  Rank[Class(x)] >= Rank[Class(d)]
  BY DEF LeastGoes
<1>1. ASSUME NEW kind \in Kinds, NEW e \in Lines(kind), Log(e)
      PROVE  Rank[Class(x)] >= Rank[Class(d)]
  <2>1. book'.buf \ {e} = book.buf \ Victims(book, e) /\ e \notin book.buf
    BY <1>1, LogFacts
  <2>2. d \in Victims(book, e) /\ x \in book.buf \ Victims(book, e)
    BY <2>1
  <2>3. Sound(book) /\ Units(e) \in Nat
    BY BookIsSound DEF IInv, Units
  <2> QED
    BY <2>2, <2>3, LeastGoFirst
<1>2. CASE TakeBatch
  BY <1>2, TakeFacts
<1>3. CASE CloseEnd
  BY <1>3 DEF CloseEnd
<1>4. CASE WriteBatch \/ WriteFails \/ EndBatch \/ DrainerPanics
  BY <1>4 DEF WriteBatch, WriteFails, EndBatch, DrainerPanics
<1> QED
  BY <1>1, <1>2, <1>3, <1>4, BookChange

\* What matters least goes first, for any classes in the buffer, sizes and limits: the
\* count by class the drop order looks at is never behind the buffer.
THEOREM LeastIsDropped == Spec => LeastGoesFirst
<1>1. IInv /\ [Next]_vars => [LeastGoes]_vars
  BY LeastGoesStep
<1> QED
  BY <1>1, Invariance, PTL DEF Spec, LeastGoesFirst
=============================================================================
