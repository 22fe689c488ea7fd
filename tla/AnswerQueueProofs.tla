------------------------- MODULE AnswerQueueProofs -------------------------
(***************************************************************************)
(* What holds of AnswerQueue for any tabs and readers and any number of    *)
(* answers: whatever is lost, repeated, late or crossed, the server has    *)
(* each answer once, in the order given, and none leaves but by the three  *)
(* doors.                                                                  *)
(***************************************************************************)
EXTENDS AnswerQueue, SequenceTheorems, FiniteSetTheorems, TLAPS

(***************************************************************************)
(* Lists of answers.                                                       *)
(***************************************************************************)
Kept == Seq(Numbers)
Increasing(s) == \A i, j \in DOMAIN s : i < j => s[i] < s[j]

LEMMA OfAnswers ==
  ASSUME NEW s \in Kept
  PROVE  ToSet(s) \subseteq Numbers
BY DEF Kept, ToSet

\* An answer kept behind the others: one more, and still in order.
LEMMA AddedBehind ==
  ASSUME NEW s \in Kept, NEW n \in Numbers
  PROVE  /\ Append(s, n) \in Kept
         /\ ToSet(Append(s, n)) = ToSet(s) \cup {n}
         /\ Len(Append(s, n)) = Len(s) + 1
         /\ Increasing(s) /\ (\A m \in ToSet(s) : m < n) => Increasing(Append(s, n))
         /\ IsInjective(s) /\ n \notin ToSet(s) => IsInjective(Append(s, n))
<1>1. /\ Append(s, n) \in Seq(Numbers) /\ Len(Append(s, n)) = Len(s) + 1
      /\ \A i \in 1 .. Len(s) : Append(s, n)[i] = s[i]
      /\ Append(s, n)[Len(s) + 1] = n
  BY AppendProperties DEF Kept
<1>2. DOMAIN s = 1 .. Len(s) /\ DOMAIN Append(s, n) = 1 .. (Len(s) + 1) /\ Len(s) \in Nat
  BY <1>1 DEF Kept
<1>3. \A i \in DOMAIN s : s[i] \in ToSet(s) /\ s[i] \in Numbers
  BY DEF ToSet, Kept
<1>4. ToSet(Append(s, n)) = ToSet(s) \cup {n}
  BY <1>1, <1>2 DEF ToSet
<1>5. ASSUME Increasing(s), \A m \in ToSet(s) : m < n PROVE Increasing(Append(s, n))
  BY <1>1, <1>2, <1>3, <1>5 DEF Increasing, Numbers
<1>6. ASSUME IsInjective(s), n \notin ToSet(s) PROVE IsInjective(Append(s, n))
  BY <1>1, <1>2, <1>3, <1>6 DEF IsInjective
<1> QED BY <1>1, <1>4, <1>5, <1>6 DEF Kept

\* An answer taken out: the others stay, in their order.
LEMMA TakenOut ==
  ASSUME NEW s \in Kept, NEW n, Increasing(s)
  PROVE  /\ Without(s, n) \in Kept
         /\ ToSet(Without(s, n)) = ToSet(s) \ {n}
         /\ Increasing(Without(s, n))
<1>1. CASE ~\E i \in 1 .. Len(s) : s[i] = n
  BY <1>1 DEF Without, RemoveFirst, ToSet, Kept
<1>2. CASE \E i \in 1 .. Len(s) : s[i] = n
  <2>1. PICK i \in 1 .. Len(s) : s[i] = n
    BY <1>2
  <2>2. DOMAIN s = 1 .. Len(s) /\ Len(s) \in Nat /\ \A j \in DOMAIN s : s[j] \in Nat
    BY AnswerAssumption DEF Kept, Numbers
  <2>3. \A j \in 1 .. Len(s) : s[j] = n => j = i
    BY <2>1, <2>2 DEF Increasing
  <2>4. {j \in 1 .. Len(s) : s[j] = n} = {i}
    BY <2>1, <2>3
  <2>5. Without(s, n) = SubSeq(s, 1, i - 1) \o SubSeq(s, i + 1, Len(s))
    <3>1. Min({i}) = i
      BY <2>1 DEF Min
    <3> QED BY <1>2, <2>4, <3>1 DEF Without, RemoveFirst, RemoveAt, SelectInSeq
  <2> DEFINE a == SubSeq(s, 1, i - 1)
             b == SubSeq(s, i + 1, Len(s))
             c == a \o b
  <2>6. /\ a \in Seq(Numbers) /\ Len(a) = i - 1
        /\ \A j \in 1 .. (i - 1) : a[j] = s[j]
    BY <2>2 DEF Kept
  <2>7. /\ b \in Seq(Numbers) /\ Len(b) = Len(s) - i
        /\ \A j \in 1 .. (Len(s) - i) : b[j] = s[j + i]
    <3>1. i + 1 \in Int /\ Len(s) \in Int /\ \A j \in (i + 1) .. Len(s) : s[j] \in Numbers
      BY <2>2 DEF Kept
    <3>2. /\ b \in Seq(Numbers) /\ Len(b) = Len(s) - (i + 1) + 1
          /\ \A j \in 1 .. (Len(s) - (i + 1) + 1) : b[j] = s[(i + 1) + j - 1]
      <4>1. /\ b \in Seq(Numbers)
            /\ Len(b) = IF i + 1 <= Len(s) THEN Len(s) - (i + 1) + 1 ELSE 0
            /\ \A j \in 1 .. (Len(s) - (i + 1) + 1) : b[j] = s[(i + 1) + j - 1]
        BY <3>1, SubSeqProperties
      <4> HIDE DEF b
      <4>2. Len(b) = Len(s) - (i + 1) + 1
        <5>1. i \in Nat /\ Len(s) \in Nat /\ i <= Len(s)
          BY <2>2
        <5>2. CASE i + 1 <= Len(s)
          BY <4>1, <5>2
        <5>3. CASE i = Len(s)
          BY <4>1, <5>1, <5>3
        <5> QED BY <5>1, <5>2, <5>3
      <4> QED BY <4>1, <4>2
    <3> HIDE DEF b
    <3>3. ASSUME NEW j \in 1 .. (Len(s) - i) PROVE b[j] = s[j + i]
      <4>1. (i + 1) + j - 1 = j + i /\ j \in 1 .. (Len(s) - (i + 1) + 1)
        BY <2>2
      <4> QED BY <4>1, <3>2
    <3> QED BY <2>2, <3>2, <3>3
  <2> HIDE DEF a, b
  <2>8. /\ c \in Seq(Numbers) /\ Len(c) = Len(s) - 1 /\ DOMAIN c = 1 .. (Len(s) - 1)
        /\ \A j \in 1 .. (Len(s) - 1) : c[j] = IF j < i THEN s[j] ELSE s[j + 1]
    <3>1. /\ c \in Seq(Numbers) /\ Len(c) = Len(a) + Len(b)
          /\ \A j \in 1 .. (Len(a) + Len(b)) : c[j] = IF j <= Len(a) THEN a[j] ELSE b[j - Len(a)]
      BY <2>6, <2>7, ConcatProperties
    <3>2. ASSUME NEW j \in 1 .. (Len(s) - 1) PROVE c[j] = IF j < i THEN s[j] ELSE s[j + 1]
      <4>1. CASE j < i
        BY <4>1, <3>1, <2>6, <2>7, <2>2
      <4>2. CASE ~(j < i)
        <5>1. c[j] = b[j - (i - 1)] /\ j - (i - 1) \in 1 .. (Len(s) - i)
          BY <4>2, <3>1, <2>6, <2>7, <2>2
        <5>2. b[j - (i - 1)] = s[(j - (i - 1)) + i] /\ (j - (i - 1)) + i = j + 1
          BY <5>1, <2>2, <2>7
        <5> QED BY <5>1, <5>2, <4>2
      <4> QED BY <4>1, <4>2
    <3>3. Len(c) = Len(s) - 1
      BY <3>1, <2>6, <2>7, <2>2
    <3> HIDE DEF c
    <3> QED BY <3>1, <3>2, <3>3
  <2>9. Without(s, n) = c
    BY <2>5 DEF a, b
  <2> HIDE DEF c
  <2>10. Increasing(c)
    <3> SUFFICES ASSUME NEW j \in 1 .. (Len(s) - 1), NEW k \in 1 .. (Len(s) - 1), j < k
                 PROVE  c[j] < c[k]
      BY <2>8 DEF Increasing
    <3> DEFINE jj == IF j < i THEN j ELSE j + 1
               kk == IF k < i THEN k ELSE k + 1
    <3>1. jj \in DOMAIN s /\ kk \in DOMAIN s /\ jj < kk
      BY <2>2
    <3>2. c[j] = s[jj] /\ c[k] = s[kk]
      BY <2>8
    <3> QED BY <3>1, <3>2 DEF Increasing
  <2>11. ToSet(c) = ToSet(s) \ {n}
    <3>1. ASSUME NEW m \in ToSet(c) PROVE m \in ToSet(s) \ {n}
      <4>1. PICK j \in 1 .. (Len(s) - 1) : m = c[j]
        BY <2>8 DEF ToSet
      <4>2. CASE j < i
        BY <4>1, <4>2, <2>8, <2>2, <2>3 DEF ToSet
      <4>3. CASE ~(j < i)
        <5>1. m = s[j + 1] /\ j + 1 \in 1 .. Len(s) /\ j + 1 # i
          BY <4>1, <4>3, <2>8, <2>2
        <5> QED BY <5>1, <2>2, <2>3 DEF ToSet
      <4> QED BY <4>2, <4>3
    <3>2. ASSUME NEW m \in ToSet(s) \ {n} PROVE m \in ToSet(c)
      <4>1. PICK j \in 1 .. Len(s) : m = s[j]
        BY <2>2 DEF ToSet
      <4>2. j # i
        BY <4>1, <2>1
      <4>3. CASE j < i
        BY <4>1, <4>3, <2>8, <2>2 DEF ToSet
      <4>4. CASE j > i
        <5>1. j - 1 \in 1 .. (Len(s) - 1) /\ c[j - 1] = m
          BY <4>1, <4>4, <2>8, <2>2
        <5> QED BY <5>1, <2>8 DEF ToSet
      <4> QED BY <4>2, <4>3, <4>4, <2>2
    <3> QED BY <3>1, <3>2
  <2> QED BY <2>8, <2>9, <2>10, <2>11 DEF Kept
<1> QED BY <1>1, <1>2

\* The head of a list in order is its first answer, and nothing in it came before.
LEMMA FirstOfList ==
  ASSUME NEW s \in Kept, s # <<>>, Increasing(s)
  PROVE  Head(s) \in ToSet(s) /\ Head(s) \in Numbers /\ \A m \in ToSet(s) : Head(s) <= m
<1>1. DOMAIN s = 1 .. Len(s) /\ Len(s) \in Nat \ {0} /\ \A j \in DOMAIN s : s[j] \in Numbers
  BY DEF Kept
<1>2. Head(s) = s[1] /\ 1 \in DOMAIN s
  BY <1>1 DEF Kept
<1> QED BY <1>1, <1>2, AnswerAssumption DEF ToSet, Increasing, Numbers

\* No list of different answers is longer than there are answers.
LEMMA AsLongAsThereAre ==
  ASSUME NEW s \in Kept, IsInjective(s)
  PROVE  s \in Lists
<1>1. Len(s) \in Nat /\ s \in [1 .. Len(s) -> Numbers]
  BY DEF Kept
<1>2. IsFiniteSet(Numbers) /\ Cardinality(Numbers) = MaxAnswers
  BY FS_Interval, AnswerAssumption DEF Numbers
<1>3. IsFiniteSet(1 .. Len(s)) /\ Cardinality(1 .. Len(s)) = Len(s)
  BY FS_Interval, <1>1
<1>4. s \in Injection(1 .. Len(s), Numbers)
  BY <1>1 DEF Injection, IsInjective
<1>5. Len(s) <= MaxAnswers
  BY <1>2, <1>3, <1>4, FS_Injection
<1>6. Len(s) \in 0 .. MaxAnswers
  BY <1>1, <1>5, AnswerAssumption
<1> QED BY <1>1, <1>6 DEF Lists

LEMMA InOrderIsOnce ==
  ASSUME NEW s \in Kept, Increasing(s)
  PROVE  IsInjective(s)
<1>1. DOMAIN s = 1 .. Len(s) /\ Len(s) \in Nat /\ \A j \in DOMAIN s : s[j] \in Nat
  BY AnswerAssumption DEF Kept, Numbers
<1> QED BY <1>1 DEF Increasing, IsInjective

(***************************************************************************)
(* The inductive invariant.                                                *)
(***************************************************************************)
Holds(t, r) == r \in DOMAIN mem[t]

Memories  == UNION {[D -> Kept] : D \in SUBSET Readers}
Sessions  == Readers \cup {NoReader}
Asked     == [uid : Readers, n : Numbers, as : Sessions, at : {"sent", "ok", "refused", "out"}]
Abandoned == [uid : Readers, n : Numbers, as : Readers, at : {"sent"}]

\* TypeOK, but for the length of the lists.
Types ==
  /\ store \in [Readers -> Kept] /\ room \in BOOLEAN /\ cookie \in Sessions
  /\ owner \in [Tabs -> Sessions] /\ mem \in [Tabs -> Memories]
  /\ post \in [Tabs -> Asked \cup {NoPost}] /\ timer \in [Tabs -> BOOLEAN]
  /\ late \subseteq Abandoned
  /\ taken \in [Readers -> Kept] /\ gone \in [Readers -> SUBSET Numbers]
  /\ given \in [Readers -> 0 .. MaxAnswers]
  /\ overwritten \subseteq Pairs /\ crossed \subseteq Pairs /\ closed \subseteq Pairs
  /\ apart \subseteq Readers

\* The answers a list need no longer hold: the server has them, or they went by a
\* door.
Left(r) == {n \in Numbers : \/ n \in ToSet(taken[r]) \cup gone[r]
                            \/ <<r, n>> \in crossed \cup closed}

\* Nothing is missing from a list below what it holds but what left.
Gapless(list, left) ==
  \A m \in ToSet(list) : \A n \in Numbers : n < m => n \in ToSet(list) \cup left

\* Of every list of a reader, wherever it is kept.
Fine(list, r, count, away, left) ==
  /\ Increasing(list)
  /\ \A n \in ToSet(list) : n <= count
  /\ r \notin away => Gapless(list, left)
ListsFine ==
  \A r \in Readers :
    /\ Fine(store[r], r, given[r], apart, Left(r))
    /\ \A t \in Tabs : Holds(t, r) => Fine(mem[t][r], r, given[r], apart, Left(r))

\* Until two tabs write apart, one of them at most has a list in memory...
OneMemory ==
  \A r \in Readers \ apart : \A t, u \in Tabs : Holds(t, r) /\ Holds(u, r) => t = u

\* ... and that tab, or every tab when it is in storage, reads all there is.
AllKept ==
  \A r \in Readers \ apart : \A t \in Tabs :
    (\A u \in Tabs \ {t} : ~Holds(u, r)) => 1 .. given[r] \subseteq ToSet(read(t, r)) \cup Left(r)

\* What is sent, or may still arrive, has nothing before it that is still kept.
InTurn(m, away, left) == m.uid \notin away => \A n \in Numbers : n < m.n => n \in left
RequestsInTurn ==
  \A r \in Readers :
    /\ \A m \in late : m.uid = r => InTurn(m, apart, Left(r))
    /\ \A t \in Tabs : post[t] # NoPost /\ post[t].uid = r => InTurn(post[t], apart, Left(r))
TakenInTurn ==
  \A r \in Readers \ apart : \A m \in ToSet(taken[r]) : \A n \in Numbers : n < m => n \in Left(r)

\* A reply says what the server did.
Replies ==
  \A t \in Tabs :
    /\ post[t].at = "ok" => post[t].n \in ToSet(taken[post[t].uid])
    /\ post[t].at = "refused" => post[t].n \in gone[post[t].uid] \/ post[t].as # post[t].uid

IInv ==
  /\ Types /\ ListsFine /\ OneMemory /\ AllKept
  /\ RequestsInTurn /\ TakenInTurn /\ Replies /\ OnceInOrder /\ NothingElseLost

(***************************************************************************)
(* The initial states, and what the invariant is for.                      *)
(***************************************************************************)
LEMMA Starts == Init => IInv
<1> SUFFICES ASSUME Init PROVE IInv
  OBVIOUS
<1>1. <<>> \in Kept /\ ToSet(<<>>) = {} /\ DOMAIN <<>> = {} /\ <<>> \in Memories
  <2>1. <<>> \in Kept /\ DOMAIN <<>> = {}
    BY DEF Kept
  <2>2. <<>> = [x \in {} |-> <<>>]
    OBVIOUS
  <2>3. <<>> \in [{} -> Kept]
    BY <2>1
  <2>4. <<>> \in Memories
    BY <2>3 DEF Memories
  <2> QED BY <2>1, <2>4 DEF ToSet
<1>2. Types
  BY <1>1, AnswerAssumption DEF Init, Types, Sessions
<1>3. ListsFine /\ OneMemory /\ AllKept
  BY <1>1 DEF Init, ListsFine, OneMemory, AllKept, Fine, Increasing, Gapless, Holds
<1>4. RequestsInTurn /\ TakenInTurn /\ Replies
  BY <1>1 DEF Init, RequestsInTurn, TakenInTurn, Replies, NoPost
<1>5. OnceInOrder /\ NothingElseLost
  BY <1>1 DEF Init, OnceInOrder, CountsOnce, TakenInOrder, NothingElseLost, IsInjective
<1> QED BY <1>2, <1>3, <1>4, <1>5 DEF IInv

LEMMA TypesSuffice == IInv => TypeOK
<1> SUFFICES ASSUME IInv PROVE TypeOK
  OBVIOUS
<1>1. Types /\ ListsFine /\ CountsOnce
  BY DEF IInv, OnceInOrder
<1>2. \A r \in Readers : store[r] \in Lists /\ taken[r] \in Lists
  <2> TAKE r \in Readers
  <2>1. store[r] \in Kept /\ taken[r] \in Kept /\ Increasing(store[r]) /\ IsInjective(taken[r])
    BY <1>1 DEF Types, ListsFine, Fine, CountsOnce
  <2> QED BY <2>1, InOrderIsOnce, AsLongAsThereAre
<1>3. \A t \in Tabs : DOMAIN mem[t] \subseteq Readers
                      /\ \A r \in DOMAIN mem[t] : mem[t][r] \in Lists
  <2> TAKE t \in Tabs
  <2>1. DOMAIN mem[t] \subseteq Readers /\ \A r \in DOMAIN mem[t] : mem[t][r] \in Kept
    BY <1>1 DEF Types, Memories
  <2>2. ASSUME NEW r \in DOMAIN mem[t] PROVE mem[t][r] \in Lists
    <3>1. mem[t][r] \in Kept /\ Increasing(mem[t][r])
      BY <1>1, <2>1, <2>2 DEF ListsFine, Fine, Holds
    <3> QED BY <3>1, InOrderIsOnce, AsLongAsThereAre
  <2> QED BY <2>1, <2>2
<1>4. post \in [Tabs -> Posts] /\ late \subseteq Posts
  BY <1>1 DEF Types, Posts, Asked, Abandoned, NoPost, Sessions
<1>5. store \in [Readers -> Lists] /\ taken \in [Readers -> Lists]
  BY <1>1, <1>2 DEF Types
<1> QED BY <1>1, <1>3, <1>4, <1>5 DEF Types, TypeOK, Sessions

(***************************************************************************)
(* What a write, and a post, do.                                           *)
(***************************************************************************)
LEMMA Reads ==
  ASSUME Types, NEW t \in Tabs, NEW r \in Readers
  PROVE  /\ read(t, r) \in Kept
         /\ Holds(t, r) => read(t, r) = mem[t][r]
         /\ ~Holds(t, r) => read(t, r) = store[r]
         /\ ListsFine => Fine(read(t, r), r, given[r], apart, Left(r))
BY DEF Types, Memories, read, Holds, ListsFine

\* write: the list is in storage or in this tab's memory, and nothing else of
\* anybody's moves; what storage had and this tab did not read is overwritten.
LEMMA Written ==
  ASSUME Types, NEW t \in Tabs, NEW r \in Readers, NEW list \in Kept, write(t, r, list)
  PROVE  /\ store' \in [Readers -> Kept] /\ mem' \in [Tabs -> Memories]
         /\ overwritten' \subseteq Pairs /\ overwritten \subseteq overwritten'
         /\ apart' \subseteq Readers /\ apart \subseteq apart'
         /\ \A q \in Readers \ {r} : store'[q] = store[q]
         /\ \A u \in Tabs \ {t} : mem'[u] = mem[u]
         /\ \A q \in Readers \ {r} : /\ Holds(t, q)' <=> Holds(t, q)
                                     /\ Holds(t, q) => mem'[t][q] = mem[t][q]
         /\ \/ ~Holds(t, r)' /\ store'[r] = list
            \/ Holds(t, r)' /\ mem'[t][r] = list /\ store'[r] = store[r]
         /\ \A u \in Tabs \ {t} : Holds(u, r) => r \in apart'
         /\ \A n \in ToSet(store[r]) : \/ n \in ToSet(read(t, r)) \/ <<r, n>> \in overwritten'
                                       \/ store'[r] = store[r]
<1>1. mem[t] \in Memories /\ DOMAIN mem[t] \subseteq Readers /\ \A q \in DOMAIN mem[t] : mem[t][q] \in Kept
  BY DEF Types, Memories
<1>2. ToSet(store[r]) \subseteq Numbers
  BY DEF Types, Kept, ToSet
<1>3. apart' \subseteq Readers /\ apart \subseteq apart' /\ \A u \in Tabs \ {t} : Holds(u, r) => r \in apart'
  BY DEF write, Types, Holds
<1>4. CASE Fits(r, list)
  <2> DEFINE rest == [q \in DOMAIN mem[t] \ {r} |-> mem[t][q]]
  <2>1. /\ store' = [store EXCEPT ![r] = list] /\ mem' = [mem EXCEPT ![t] = rest]
        /\ overwritten' = overwritten \cup Overwritten(t, r)
    BY <1>4 DEF write
  <2>2. rest \in Memories /\ DOMAIN rest = DOMAIN mem[t] \ {r}
        /\ \A q \in DOMAIN mem[t] \ {r} : rest[q] = mem[t][q]
    <3>1. DOMAIN mem[t] \ {r} \in SUBSET Readers /\ rest \in [DOMAIN mem[t] \ {r} -> Kept]
      BY <1>1
    <3> QED BY <3>1 DEF Memories
  <2> HIDE DEF rest
  <2>3. store' \in [Readers -> Kept] /\ store'[r] = list /\ \A q \in Readers \ {r} : store'[q] = store[q]
    BY <2>1 DEF Types
  <2>4. mem' \in [Tabs -> Memories] /\ mem'[t] = rest /\ \A u \in Tabs \ {t} : mem'[u] = mem[u]
    BY <2>1, <2>2 DEF Types
  <2>5. ~Holds(t, r)' /\ \A q \in Readers \ {r} : /\ Holds(t, q)' <=> Holds(t, q)
                                                  /\ Holds(t, q) => mem'[t][q] = mem[t][q]
    BY <2>4, <2>2 DEF Holds
  <2>6. overwritten' \subseteq Pairs /\ overwritten \subseteq overwritten'
        /\ \A n \in ToSet(store[r]) : n \in ToSet(read(t, r)) \/ <<r, n>> \in overwritten'
    BY <2>1, <1>2 DEF Overwritten, Types, Pairs, Numbers
  <2> QED BY <1>3, <2>3, <2>4, <2>5, <2>6
<1>5. CASE ~Fits(r, list)
  <2> DEFINE more == [q \in DOMAIN mem[t] \cup {r} |-> IF q = r THEN list ELSE mem[t][q]]
  <2>1. mem' = [mem EXCEPT ![t] = more] /\ store' = store /\ overwritten' = overwritten
    BY <1>5 DEF write
  <2>2. more \in Memories /\ DOMAIN more = DOMAIN mem[t] \cup {r} /\ more[r] = list
        /\ \A q \in DOMAIN mem[t] \ {r} : more[q] = mem[t][q]
    <3>1. DOMAIN mem[t] \cup {r} \in SUBSET Readers /\ more \in [DOMAIN mem[t] \cup {r} -> Kept]
      BY <1>1
    <3> QED BY <3>1 DEF Memories
  <2> HIDE DEF more
  <2>3. mem' \in [Tabs -> Memories] /\ mem'[t] = more /\ \A u \in Tabs \ {t} : mem'[u] = mem[u]
    BY <2>1, <2>2 DEF Types
  <2>4. /\ Holds(t, r)' /\ mem'[t][r] = list
        /\ \A q \in Readers \ {r} : /\ Holds(t, q)' <=> Holds(t, q)
                                    /\ Holds(t, q) => mem'[t][q] = mem[t][q]
    BY <2>3, <2>2 DEF Holds
  <2>5. store' \in [Readers -> Kept] /\ overwritten \subseteq Pairs
    BY <2>1 DEF Types
  <2> QED BY <1>3, <2>1, <2>3, <2>4, <2>5
<1> QED BY <1>4, <1>5

\* PostHead: nothing, or the first answer of the list.
LEMMA Posted ==
  ASSUME NEW o \in Sessions, NEW list \in Kept, NEW as \in Sessions, Increasing(list)
  PROVE  \/ PostHead(o, list, as) = NoPost /\ (o = NoReader \/ list = <<>>)
         \/ /\ PostHead(o, list, as) = [uid |-> o, n |-> Head(list), as |-> as, at |-> "sent"]
            /\ PostHead(o, list, as) \in Asked /\ o \in Readers /\ list # <<>>
<1>1. CASE o = NoReader \/ list = <<>>
  BY <1>1 DEF PostHead
<1>2. CASE o # NoReader /\ list # <<>>
  <2>1. Head(list) \in Numbers
    BY <1>2, FirstOfList
  <2> QED BY <1>2, <2>1 DEF PostHead, Asked, Sessions
<1> QED BY <1>1, <1>2

\* No post has the head of a list without gaps before its turn.
LEMMA HeadInTurn ==
  ASSUME NEW list \in Kept, list # <<>>, Increasing(list), NEW left, Gapless(list, left)
  PROVE  \A n \in Numbers : n < Head(list) => n \in left
<1>1. Head(list) \in ToSet(list) /\ Head(list) \in Numbers /\ \A m \in ToSet(list) : Head(list) <= m
  BY FirstOfList
<1>2. ToSet(list) \subseteq Numbers
  BY DEF Kept, ToSet
<1> QED BY <1>1, <1>2, AnswerAssumption DEF Gapless, Numbers

LEMMA Drained ==
  ASSUME Types, NEW t \in Tabs, NEW o \in Sessions, NEW list \in Kept, NEW as \in Sessions,
         Increasing(list), Drain(t, o, list, as)
  PROVE  /\ post' \in [Tabs -> Asked \cup {NoPost}] /\ timer' \in [Tabs -> BOOLEAN]
         /\ \A u \in Tabs \ {t} : post'[u] = post[u] /\ timer'[u] = timer[u]
         /\ \/ post'[t] = post[t] /\ timer' = timer /\ (post[t] # NoPost \/ o = NoReader)
            \/ post'[t] = PostHead(o, list, as) /\ post[t] = NoPost /\ o # NoReader
<1>1. PostHead(o, list, as) \in Asked \cup {NoPost}
  BY Posted
<1>2. CASE post[t] # NoPost \/ o = NoReader
  BY <1>2 DEF Drain, Types
<1>3. CASE ~(post[t] # NoPost \/ o = NoReader)
  BY <1>1, <1>3 DEF Drain, Types
<1> QED BY <1>2, <1>3

LEMMA Abandons ==
  ASSUME Types, NEW t \in Tabs, GivenUp(t)
  PROVE  /\ late' \subseteq Abandoned /\ late \subseteq late'
         /\ \A m \in late' : m \in late \/ (m = post[t] /\ post[t] # NoPost)
<1>1. post[t] \in Asked \cup {NoPost}
  BY DEF Types
<1>2. CASE late' = late
  BY <1>2 DEF Types
<1>3. CASE post[t].at = "sent" /\ post[t].as = post[t].uid /\ late' = late \cup {post[t]}
  <2>1. post[t] # NoPost
    BY <1>3 DEF NoPost
  <2>2. post[t] \in Abandoned
    BY <1>1, <1>3, <2>1 DEF Asked, Abandoned
  <2> QED BY <1>3, <2>1, <2>2 DEF Types
<1> QED BY <1>2, <1>3 DEF GivenUp

\* The server: an answer is written once, by a request that may have it written.
LEMMA Takes ==
  ASSUME Types, NEW m \in Asked, Take(m)
  PROVE  /\ taken' \in [Readers -> Kept] /\ \A q \in Readers \ {m.uid} : taken'[q] = taken[q]
         /\ \/ taken'[m.uid] = taken[m.uid]
            \/ /\ ~Refused(m) /\ m.n \notin ToSet(taken[m.uid])
               /\ taken'[m.uid] = Append(taken[m.uid], m.n)
         /\ Refused(m) \/ m.n \in ToSet(taken'[m.uid])
<1>1. m.uid \in Readers /\ m.n \in Numbers /\ taken[m.uid] \in Kept
  BY DEF Asked, Types
<1>2. /\ Append(taken[m.uid], m.n) \in Kept
      /\ ToSet(Append(taken[m.uid], m.n)) = ToSet(taken[m.uid]) \cup {m.n}
  BY <1>1, AddedBehind
<1>3. CASE Refused(m) \/ Seen(m)
  BY <1>1, <1>3 DEF Take, Seen, Types
<1>4. CASE ~(Refused(m) \/ Seen(m))
  BY <1>1, <1>2, <1>4 DEF Take, Seen, Types
<1> QED BY <1>3, <1>4

(***************************************************************************)
(* The steps that write, and the types.                                    *)
(***************************************************************************)
LEMMA Answers ==
  ASSUME Types, ListsFine, NEW t \in Tabs, KeepAnswer(t)
  PROVE  \E r \in Readers : \E list \in Kept :
           /\ r = owner[t] /\ given[r] + 1 \in Numbers
           /\ given' = [given EXCEPT ![r] = @ + 1]
           /\ Increasing(list) /\ ToSet(list) = ToSet(read(t, r)) \cup {given[r] + 1}
           /\ write(t, r, list) /\ Drain(t, r, list, cookie)
<1> DEFINE r == owner[t]
<1>1. r \in Readers /\ given[r] \in Nat /\ given[r] + 1 \in Numbers
  BY AnswerAssumption DEF KeepAnswer, Types, Numbers
<1>2. read(t, r) \in Kept /\ Fine(read(t, r), r, given[r], apart, Left(r))
  BY <1>1, Reads
<1> DEFINE list == Append(read(t, r), given[r] + 1)
<1>3. /\ list \in Kept /\ ToSet(list) = ToSet(read(t, r)) \cup {given[r] + 1}
      /\ Increasing(read(t, r)) /\ (\A m \in ToSet(read(t, r)) : m < given[r] + 1) => Increasing(list)
  <2> HIDE DEF r
  <2> QED BY <1>1, <1>2, AddedBehind
<1>4. \A m \in ToSet(read(t, r)) : m < given[r] + 1
  <2>1. ToSet(read(t, r)) \subseteq Nat
    BY <1>2, AnswerAssumption DEF Kept, ToSet, Numbers
  <2> QED BY <2>1, <1>1, <1>2 DEF Fine
<1>5. Increasing(list)
  BY <1>2, <1>3, <1>4 DEF Fine
<1>6. write(t, r, list) /\ Drain(t, r, list, cookie) /\ given' = [given EXCEPT ![r] = @ + 1]
  BY DEF KeepAnswer
<1> HIDE DEF list, r
<1>7. r = owner[t]
  BY DEF r
<1> QED BY <1>1, <1>3, <1>5, <1>6, <1>7

\* The list the tab goes on with, when it is not one it has just written.
LEMMA ReadsOn ==
  ASSUME Types, ListsFine, NEW t \in Tabs, NEW o \in Sessions
  PROVE  ReadNow(t, o) \in Kept /\ Increasing(ReadNow(t, o))
<1>1. CASE o = NoReader
  BY <1>1 DEF ReadNow, Kept, Increasing
<1>2. CASE o # NoReader
  <2>1. o \in Readers
    BY <1>2 DEF Sessions
  <2> QED BY <2>1, <1>2, Reads DEF ReadNow, Fine
<1> QED BY <1>1, <1>2

LEMMA Settles ==
  ASSUME Types, ListsFine, NEW t \in Tabs, Settle(t), post[t] # NoPost
  PROVE  \E r \in Readers : \E list \in Kept : \E next \in Kept :
           /\ r = post[t].uid /\ post[t].n \in Numbers
           /\ Increasing(list) /\ ToSet(list) = ToSet(read(t, r)) \ {post[t].n}
           /\ write(t, r, list)
           /\ Increasing(next) /\ next = IF owner[t] = r THEN list ELSE ReadNow(t, owner[t])
           /\ post' = [post EXCEPT ![t] = PostHead(owner[t], next, cookie)]
<1>1. post[t] \in Asked /\ owner[t] \in Sessions
  BY DEF Types
<1> DEFINE r    == post[t].uid
           list == Without(read(t, r), post[t].n)
           next == IF owner[t] = r THEN list ELSE ReadNow(t, owner[t])
<1>2. r \in Readers /\ post[t].n \in Numbers
  BY <1>1 DEF Asked
<1>3. read(t, r) \in Kept /\ Increasing(read(t, r))
  <2> HIDE DEF r
  <2> QED BY <1>2, Reads DEF Fine
<1>4. list \in Kept /\ Increasing(list) /\ ToSet(list) = ToSet(read(t, r)) \ {post[t].n}
  <2> HIDE DEF r
  <2> QED BY <1>3, TakenOut
<1>5. ReadNow(t, owner[t]) \in Kept /\ Increasing(ReadNow(t, owner[t]))
  BY <1>1, ReadsOn
<1>6. next \in Kept /\ Increasing(next)
  BY <1>4, <1>5
<1>7. write(t, r, list) /\ post' = [post EXCEPT ![t] = PostHead(owner[t], next, cookie)]
  BY DEF Settle
<1> DEFINE Facts(q, l, x) ==
             /\ q = post[t].uid /\ post[t].n \in Numbers
             /\ Increasing(l) /\ ToSet(l) = ToSet(read(t, q)) \ {post[t].n}
             /\ write(t, q, l)
             /\ Increasing(x) /\ x = IF owner[t] = q THEN l ELSE ReadNow(t, owner[t])
             /\ post' = [post EXCEPT ![t] = PostHead(owner[t], x, cookie)]
<1>8. Facts(r, list, next)
  BY <1>2, <1>4, <1>6, <1>7
<1> HIDE DEF list, next, r, Facts
<1>9. \E q \in Readers : \E l \in Kept : \E x \in Kept : Facts(q, l, x)
  BY <1>2, <1>4, <1>6, <1>8
<1> QED BY <1>9 DEF Facts

\* Nudge and SignIn: the tab may post, and writes nothing.
LEMMA Starting ==
  ASSUME Types, ListsFine, NEW t \in Tabs,
         (\E r \in Readers : SignIn(t, r)) \/ Nudge(t) \/ TimerFires(t)
  PROVE  \E o \in Sessions : \E list \in Kept : \E as \in Sessions :
           /\ o = owner'[t] /\ list = ReadNow(t, o) /\ Increasing(list) /\ as = cookie'
           /\ Drain(t, o, list, as)
<1>1. ASSUME NEW r \in Readers, SignIn(t, r)
      PROVE  \E o \in Sessions : \E list \in Kept : \E as \in Sessions :
               /\ o = owner'[t] /\ list = ReadNow(t, o) /\ Increasing(list) /\ as = cookie'
               /\ Drain(t, o, list, as)
  <2>1. owner' = [owner EXCEPT ![t] = r] /\ cookie' = r /\ Drain(t, r, read(t, r), r)
    BY <1>1 DEF SignIn
  <2>2. owner'[t] = r /\ r # NoReader /\ r \in Sessions
    BY <2>1, AnswerAssumption DEF Types, Sessions
  <2>3. read(t, r) = ReadNow(t, r)
    BY <2>2 DEF ReadNow
  <2> QED BY <2>1, <2>2, <2>3, ReadsOn
<1>2. CASE Nudge(t)
  <2>1. owner' = owner /\ cookie' = cookie /\ owner[t] \in Sessions /\ cookie \in Sessions
        /\ Drain(t, owner[t], ReadNow(t, owner[t]), cookie)
    BY <1>2 DEF Nudge, Types
  <2> QED BY <2>1, ReadsOn
<1> QED BY <1>1, <1>2 DEF TimerFires

\* Nothing is unsaid: what is given, taken, gone, crossed, closed, overwritten or
\* apart stays so.
Onward ==
  /\ \A r \in Readers : /\ given[r] <= given'[r] /\ ToSet(taken[r]) \subseteq ToSet(taken'[r])
                        /\ gone[r] \subseteq gone'[r]
  /\ overwritten \subseteq overwritten' /\ apart \subseteq apart'
  /\ crossed \subseteq crossed' /\ closed \subseteq closed'

\* LoadPage: the tab's memory goes, what it alone held is closed, and it may post.
LEMMA Loads ==
  ASSUME Types, ListsFine, NEW t \in Tabs, NEW ck \in Sessions, LoadPage(t, ck)
  PROVE  /\ mem' \in [Tabs -> Memories] /\ mem'[t] = <<>> /\ (\A u \in Tabs \ {t} : mem'[u] = mem[u])
         /\ \A r \in Readers : ~Holds(t, r)'
         /\ \A r \in Readers : Holds(t, r) =>
              \A n \in ToSet(mem[t][r]) : n \in ToSet(store[r]) \/ <<r, n>> \in closed'
         /\ closed' \subseteq Pairs /\ closed \subseteq closed'
         /\ \E list \in Kept :
              /\ Increasing(list) /\ list = IF ck = NoReader THEN <<>> ELSE store[ck]
              /\ post' = [post EXCEPT ![t] = PostHead(ck, list, ck)]
<1>1. <<>> \in Kept /\ Increasing(<<>>) /\ DOMAIN <<>> = {} /\ <<>> \in Memories
  <2>1. <<>> \in Kept /\ DOMAIN <<>> = {} /\ Increasing(<<>>)
    BY DEF Kept, Increasing
  <2>2. <<>> \in [{} -> Kept]
    BY <2>1
  <2> QED BY <2>1, <2>2 DEF Memories
<1>2. mem' = [mem EXCEPT ![t] = <<>>]
  BY DEF LoadPage
<1>3. /\ mem' \in [Tabs -> Memories] /\ mem'[t] = <<>> /\ (\A u \in Tabs \ {t} : mem'[u] = mem[u])
      /\ \A r \in Readers : ~Holds(t, r)'
  BY <1>1, <1>2 DEF Types, Holds
<1>4. ASSUME NEW r \in Readers, Holds(t, r), NEW n \in ToSet(mem[t][r])
      PROVE  n \in ToSet(store[r]) \/ <<r, n>> \in closed'
  <2>1. mem[t][r] \in Kept
    BY <1>4 DEF Types, Memories, Holds
  <2>2. n \in Numbers
    BY <2>1, <1>4, OfAnswers
  <2>3. <<r, n>> \in Pairs
    BY <2>2 DEF Pairs, Numbers
  <2> QED BY <2>3, <1>4 DEF LoadPage, Holds
<1>5. closed' \subseteq Pairs /\ closed \subseteq closed'
  BY DEF LoadPage, Types
<1>6. \E list \in Kept :
        /\ Increasing(list) /\ list = IF ck = NoReader THEN <<>> ELSE store[ck]
        /\ post' = [post EXCEPT ![t] = PostHead(ck, list, ck)]
  <2> DEFINE list == IF ck = NoReader THEN <<>> ELSE store[ck]
  <2>1. list \in Kept /\ Increasing(list)
    BY <1>1 DEF Types, ListsFine, Fine, Sessions
  <2>2. post' = [post EXCEPT ![t] = PostHead(ck, list, ck)]
    BY DEF LoadPage
  <2> QED BY <2>1, <2>2
<1> QED BY <1>3, <1>4, <1>5, <1>6

LEMMA Posts1 ==
  ASSUME Types, NEW t \in Tabs, NEW o \in Sessions, NEW list \in Kept, NEW as \in Sessions,
         Increasing(list), post' = [post EXCEPT ![t] = PostHead(o, list, as)]
  PROVE  post' \in [Tabs -> Asked \cup {NoPost}] /\ post'[t] = PostHead(o, list, as)
         /\ \A u \in Tabs \ {t} : post'[u] = post[u]
<1>1. PostHead(o, list, as) \in Asked \cup {NoPost}
  BY Posted
<1> QED BY <1>1 DEF Types

LEMMA TypesStay ==
  ASSUME Types, ListsFine, [Next]_vars
  PROVE  Types' /\ Onward
<1> USE AnswerAssumption
<1>1. ASSUME NEW t \in Tabs, KeepAnswer(t) PROVE Types' /\ Onward
  <2>1. PICK r \in Readers, list \in Kept :
           /\ r = owner[t] /\ given[r] + 1 \in Numbers
           /\ given' = [given EXCEPT ![r] = @ + 1]
           /\ Increasing(list) /\ write(t, r, list) /\ Drain(t, r, list, cookie)
    BY <1>1, Answers
  <2>2. r \in Sessions /\ cookie \in Sessions
    BY DEF Types, Sessions
  <2>3. post' \in [Tabs -> Asked \cup {NoPost}] /\ timer' \in [Tabs -> BOOLEAN]
    BY <2>1, <2>2, Drained
  <2>4. /\ store' \in [Readers -> Kept] /\ mem' \in [Tabs -> Memories]
        /\ overwritten' \subseteq Pairs /\ overwritten \subseteq overwritten'
        /\ apart' \subseteq Readers /\ apart \subseteq apart'
    BY <2>1, Written
  <2>5. given' \in [Readers -> 0 .. MaxAnswers] /\ \A q \in Readers : given[q] <= given'[q]
    <3>1. given[r] + 1 \in 0 .. MaxAnswers /\ given[r] <= given[r] + 1
      BY <2>1 DEF Types, Numbers
    <3> QED BY <3>1, <2>1 DEF Types
  <2>6. UNCHANGED <<room, cookie, owner, serverVars, crossed, closed>>
    BY <1>1 DEF KeepAnswer
  <2> QED BY <2>3, <2>4, <2>5, <2>6 DEF Types, Onward, serverVars
<1>2. ASSUME NEW t \in Tabs, (\E r \in Readers : SignIn(t, r)) \/ Nudge(t) \/ TimerFires(t)
      PROVE  Types' /\ Onward
  <2>1. PICK o \in Sessions, list \in Kept, as \in Sessions :
           as = cookie' /\ Increasing(list) /\ Drain(t, o, list, as)
    BY <1>2, Starting
  <2>2. post' \in [Tabs -> Asked \cup {NoPost}] /\ timer' \in [Tabs -> BOOLEAN]
    BY <2>1, Drained
  <2>3. UNCHANGED <<store, room, mem, serverVars, given, lostVars>>
    BY <1>2 DEF SignIn, Nudge, TimerFires
  <2>4. owner' \in [Tabs -> Sessions]
    BY <1>2 DEF SignIn, Nudge, TimerFires, Types, Sessions
  <2> QED BY <2>1, <2>2, <2>3, <2>4 DEF Types, Onward, serverVars, lostVars
<1>3. ASSUME NEW t \in Tabs, NEW ck \in Sessions, LoadPage(t, ck) PROVE Types' /\ Onward
  <2>1. /\ mem' \in [Tabs -> Memories] /\ closed' \subseteq Pairs /\ closed \subseteq closed'
        /\ \E list \in Kept : Increasing(list) /\ post' = [post EXCEPT ![t] = PostHead(ck, list, ck)]
    BY <1>3, Loads
  <2>2. post' \in [Tabs -> Asked \cup {NoPost}]
    BY <2>1, Posts1
  <2>3. late' \subseteq Abandoned
    BY <1>3, Abandons DEF LoadPage
  <2>4. owner' \in [Tabs -> Sessions] /\ cookie' \in Sessions /\ timer' \in [Tabs -> BOOLEAN]
        /\ UNCHANGED <<store, room, taken, gone, given, overwritten, apart, crossed>>
    BY <1>3 DEF LoadPage, Types
  <2> QED BY <2>1, <2>2, <2>3, <2>4 DEF Types, Onward
<1>4. ASSUME NEW t \in Tabs, Serve(t) PROVE Types' /\ Onward
  <2>1. post[t] \in Asked /\ post[t].at = "sent"
    BY <1>4 DEF Serve, Types, NoPost
  <2>2. /\ \E at \in {"ok", "refused", "out"} : post' = [post EXCEPT ![t].at = at]
        /\ taken' = taken \/ Take(post[t])
        /\ UNCHANGED <<store, room, cookie, owner, mem, timer, late, gone, given, lostVars>>
    BY <1>4 DEF Serve
  <2>3. post' \in [Tabs -> Asked \cup {NoPost}]
    <3>1. PICK at \in {"ok", "refused", "out"} : post' = [post EXCEPT ![t].at = at]
      BY <2>2
    <3>2. [post[t] EXCEPT !.at = at] \in Asked
      BY <2>1 DEF Asked
    <3> QED BY <3>1, <3>2 DEF Types
  <2>4. taken' \in [Readers -> Kept] /\ \A q \in Readers : ToSet(taken[q]) \subseteq ToSet(taken'[q])
    <3>1. CASE taken' = taken
      BY <3>1 DEF Types
    <3>2. CASE Take(post[t])
      <4>1. post[t].uid \in Readers /\ post[t].n \in Numbers /\ taken[post[t].uid] \in Kept
        BY <2>1 DEF Asked, Types
      <4> QED BY <3>2, <2>1, <4>1, Takes, AddedBehind
    <3> QED BY <2>2, <3>1, <3>2
  <2> QED BY <2>2, <2>3, <2>4 DEF Types, Onward, lostVars
<1>5. ASSUME LateArrives PROVE Types' /\ Onward
  <2>1. PICK m \in late : /\ late' = late \ {m} /\ (Take(m) \/ taken' = taken)
                          /\ UNCHANGED <<store, room, cookie, tabVars, gone, given, lostVars>>
    BY <1>5 DEF LateArrives
  <2>2. m \in Asked
    BY DEF Types, Abandoned, Asked, Sessions
  <2>3. taken' \in [Readers -> Kept] /\ \A q \in Readers : ToSet(taken[q]) \subseteq ToSet(taken'[q])
    <3>1. CASE taken' = taken
      BY <3>1 DEF Types
    <3>2. CASE Take(m)
      <4>1. m.uid \in Readers /\ m.n \in Numbers /\ taken[m.uid] \in Kept
        BY <2>2 DEF Asked, Types
      <4> QED BY <3>2, <2>2, <4>1, Takes, AddedBehind
    <3> QED BY <2>1, <3>1, <3>2
  <2> QED BY <2>1, <2>3 DEF Types, Onward, lostVars, tabVars
<1>6. ASSUME NEW t \in Tabs, Sent(t) \/ Dropped(t) PROVE Types' /\ Onward
  <2>1. Settle(t) /\ post[t] # NoPost
    BY <1>6 DEF Sent, Dropped, NoPost
  <2>2. PICK r \in Readers, list \in Kept, next \in Kept :
          /\ r = post[t].uid /\ post[t].n \in Numbers
          /\ write(t, r, list) /\ Increasing(next)
          /\ post' = [post EXCEPT ![t] = PostHead(owner[t], next, cookie)]
    BY <2>1, Settles
  <2>3. /\ store' \in [Readers -> Kept] /\ mem' \in [Tabs -> Memories]
        /\ overwritten' \subseteq Pairs /\ overwritten \subseteq overwritten'
        /\ apart' \subseteq Readers /\ apart \subseteq apart'
    BY <2>2, Written
  <2>4. owner[t] \in Sessions /\ cookie \in Sessions
    BY DEF Types
  <2>5. post' \in [Tabs -> Asked \cup {NoPost}]
    BY <2>2, <2>4, Posts1
  <2>6. crossed' \subseteq Pairs /\ crossed \subseteq crossed'
    BY <1>6, <2>2 DEF Sent, Dropped, Types, Pairs, Numbers
  <2>7. UNCHANGED <<room, cookie, owner, timer, serverVars, given, closed>>
    BY <2>1 DEF Settle
  <2> QED BY <2>3, <2>5, <2>6, <2>7 DEF Types, Onward, serverVars
<1>7. ASSUME NEW t \in Tabs, Waits(t) \/ Stopped(t) PROVE Types' /\ Onward
  <2>1. post' \in [Tabs -> Asked \cup {NoPost}] /\ timer' \in [Tabs -> BOOLEAN]
    BY <1>7 DEF Waits, Stopped, Types
  <2>2. late' \subseteq Abandoned
    BY <1>7, Abandons DEF Waits, Stopped, serverVars, Types
  <2>3. UNCHANGED <<store, room, cookie, owner, mem, taken, gone, given, lostVars>>
    BY <1>7 DEF Waits, Stopped, serverVars
  <2> QED BY <2>1, <2>2, <2>3 DEF Types, Onward, lostVars
<1>8. ASSUME NEW t \in Tabs, SignOut(t) PROVE Types' /\ Onward
  BY <1>8 DEF SignOut, Types, Onward, serverVars, lostVars, Sessions
<1>9. ASSUME NEW r \in Quizzed, NEW n \in Deletable, DeleteQuote(r, n) PROVE Types' /\ Onward
  BY <1>9 DEF DeleteQuote, Types, Onward, tabVars, lostVars, Numbers
<1>10. ASSUME SessionEnds \/ RoomChanges \/ UNCHANGED vars PROVE Types' /\ Onward
  <2>1. UNCHANGED <<store, tabVars, serverVars, given, lostVars>>
    BY <1>10 DEF SessionEnds, RoomChanges, vars
  <2>2. room' \in BOOLEAN /\ cookie' \in Sessions
    BY <1>10 DEF SessionEnds, RoomChanges, vars, Types, Sessions
  <2> QED BY <2>1, <2>2 DEF Types, Onward, tabVars, serverVars, lostVars
<1>11. ASSUME NEW t \in Tabs, Tab(t) PROVE Types' /\ Onward
  <2>1. CASE Reload(t)
    BY <2>1, <1>3 DEF Reload, Types
  <2>2. CASE \E r \in Readers : SignIn(t, r) \/ SwitchAccount(t, r)
    BY <2>2, <1>2, <1>3 DEF SwitchAccount, Sessions
  <2>3. CASE Nudge(t) \/ TimerFires(t)
    BY <2>3, <1>2
  <2> QED BY <1>11, <2>1, <2>2, <2>3, <1>1, <1>4, <1>6, <1>7, <1>8 DEF Tab
<1> QED BY <1>5, <1>9, <1>10, <1>11 DEF Next, Environment

(***************************************************************************)
(* The lists after a step.                                                 *)
(***************************************************************************)
LEMMA StaysLeft ==
  ASSUME Onward, NEW r \in Readers
  PROVE  Left(r) \subseteq Left(r)'
BY DEF Onward, Left

LEMMA StaysFine ==
  ASSUME NEW list \in Kept, NEW r, NEW count \in Nat, NEW away, NEW left,
         Fine(list, r, count, away, left),
         NEW more \in Nat, NEW awayToo, NEW leftToo,
         count <= more, away \subseteq awayToo, left \subseteq leftToo
  PROVE  Fine(list, r, more, awayToo, leftToo)
<1>1. ToSet(list) \subseteq Nat
  BY OfAnswers, AnswerAssumption DEF Numbers
<1> QED BY <1>1 DEF Fine, Gapless

\* A list that no step touches stays fine.
LEMMA StoreStaysFine ==
  ASSUME Types, Types', Onward, ListsFine, NEW r \in Readers
  PROVE  /\ Fine(store[r], r, given'[r], apart', Left(r)')
         /\ \A t \in Tabs : Holds(t, r) => Fine(mem[t][r], r, given'[r], apart', Left(r)')
<1>1. given[r] \in Nat /\ given'[r] \in Nat /\ given[r] <= given'[r] /\ apart \subseteq apart'
  BY AnswerAssumption DEF Types, Onward
<1>2. Left(r) \subseteq Left(r)'
  BY StaysLeft
<1>3. store[r] \in Kept /\ Fine(store[r], r, given[r], apart, Left(r))
  BY DEF Types, ListsFine
<1>4. Fine(store[r], r, given'[r], apart', Left(r)')
  BY <1>1, <1>2, <1>3, StaysFine
<1>5. ASSUME NEW t \in Tabs, Holds(t, r)
      PROVE  Fine(mem[t][r], r, given'[r], apart', Left(r)')
  <2>1. mem[t][r] \in Kept /\ Fine(mem[t][r], r, given[r], apart, Left(r))
    BY <1>5 DEF Types, ListsFine, Memories, Holds
  <2> QED BY <1>1, <1>2, <2>1, StaysFine
<1> QED BY <1>4, <1>5

\* What the tabs read of the reader r after this tab wrote, and of the others.
LEMMA ReadsAfter ==
  ASSUME Types, NEW t \in Tabs, NEW r \in Readers, NEW list \in Kept, write(t, r, list)
  PROVE  /\ read(t, r)' = list
         /\ \A u \in Tabs \ {t} : Holds(u, r) => read(u, r)' = read(u, r)
         /\ \A u \in Tabs \ {t} : ~Holds(u, r) => read(u, r)' = store'[r] /\ read(u, r) = store[r]
         /\ \A u \in Tabs : \A q \in Readers \ {r} :
              read(u, q)' = read(u, q) /\ (Holds(u, q)' <=> Holds(u, q))
         /\ \A u \in Tabs \ {t} : Holds(u, r)' <=> Holds(u, r)
BY Written DEF read, Holds

\* A tab writes a list, fine and with all there is in it: so are all the lists.
LEMMA WriteKeepsOrder ==
  ASSUME Types, Types', Onward, ListsFine, OneMemory, AllKept,
         NEW t \in Tabs, NEW r \in Readers, NEW list \in Kept, write(t, r, list),
         Fine(list, r, given'[r], apart', Left(r)'),
         \A q \in Readers \ {r} : given'[q] = given[q],
         r \notin apart' => 1 .. given'[r] \subseteq ToSet(list) \cup Left(r)'
  PROVE  ListsFine' /\ OneMemory' /\ AllKept'
<1>1. ListsFine'
  <2> SUFFICES ASSUME NEW q \in Readers
               PROVE  /\ Fine(store'[q], q, given'[q], apart', Left(q)')
                      /\ \A u \in Tabs : Holds(u, q)' => Fine(mem'[u][q], q, given'[q], apart', Left(q)')
    BY DEF ListsFine
  <2>1. /\ Fine(store[q], q, given'[q], apart', Left(q)')
        /\ \A u \in Tabs : Holds(u, q) => Fine(mem[u][q], q, given'[q], apart', Left(q)')
    BY StoreStaysFine
  <2>2. store'[q] = store[q] \/ (q = r /\ store'[q] = list)
    BY Written
  <2>3. \A u \in Tabs : Holds(u, q)' => \/ Holds(u, q) /\ mem'[u][q] = mem[u][q]
                                        \/ q = r /\ mem'[u][q] = list
    BY Written, ReadsAfter
  <2> QED BY <2>1, <2>2, <2>3
<1>2. \A u \in Tabs \ {t} : Holds(u, r)' => r \in apart'
  BY Written, ReadsAfter
<1>3. OneMemory'
  <2> SUFFICES ASSUME NEW q \in Readers, q \notin apart', NEW u \in Tabs, NEW v \in Tabs,
                      Holds(u, q)', Holds(v, q)'
               PROVE  u = v
    BY DEF OneMemory
  <2>1. CASE q = r
    BY <2>1, <1>2
  <2>2. CASE q # r
    <3>1. Holds(u, q) /\ Holds(v, q) /\ q \notin apart
      BY <2>2, ReadsAfter DEF Onward
    <3> QED BY <3>1 DEF OneMemory
  <2> QED BY <2>1, <2>2
<1>4. AllKept'
  <2> SUFFICES ASSUME NEW q \in Readers, q \notin apart', NEW u \in Tabs,
                      \A v \in Tabs \ {u} : ~Holds(v, q)'
               PROVE  1 .. given'[q] \subseteq ToSet(read(u, q)') \cup Left(q)'
    BY DEF AllKept
  <2>1. CASE q = r
    <3>1. read(u, q)' = list
      <4>1. CASE u = t
        BY <2>1, <4>1, ReadsAfter
      <4>2. CASE u # t
        <5>1. ~Holds(u, r) /\ ~Holds(t, r)'
          BY <4>2, <2>1, Written
        <5> QED BY <5>1, <4>2, <2>1, Written, ReadsAfter
      <4> QED BY <4>1, <4>2
    <3> QED BY <3>1, <2>1
  <2>2. CASE q # r
    <3>1. read(u, q)' = read(u, q) /\ given'[q] = given[q] /\ q \notin apart
          /\ \A v \in Tabs \ {u} : ~Holds(v, q)
      BY <2>2, ReadsAfter DEF Onward
    <3>2. 1 .. given[q] \subseteq ToSet(read(u, q)) \cup Left(q)
      BY <3>1 DEF AllKept
    <3> QED BY <3>1, <3>2, StaysLeft
  <2> QED BY <2>1, <2>2
<1> QED BY <1>1, <1>3, <1>4

LEMMA KeptBySome ==
  ASSUME NEW r, NEW n
  PROVE  n \in KeptBy(r) <=> \E u \in Tabs : n \in ToSet(read(u, r))
BY DEF KeptBy

\* What it took off the list has left, so nothing is lost by the write but by a door.
LEMMA WriteLosesNothing ==
  ASSUME Types, Types', Onward, NothingElseLost,
         NEW t \in Tabs, NEW r \in Readers, NEW list \in Kept, write(t, r, list),
         \A q \in Readers \ {r} : given'[q] = given[q],
         ToSet(read(t, r)) \subseteq ToSet(list) \cup Left(r)',
         \A n \in 1 .. given'[r] : n \in 1 .. given[r] \/ n \in ToSet(list)
  PROVE  NothingElseLost'
<1> SUFFICES ASSUME NEW q \in Readers, NEW n \in 1 .. given'[q],
                    n \notin ToSet(taken'[q]) \cup gone'[q],
                    <<q, n>> \notin overwritten' \cup crossed' \cup closed'
             PROVE  \E u \in Tabs : n \in ToSet(read(u, q)')
  BY DEF NothingElseLost, KeptBy
<1>1. n \notin Left(q)'
  BY DEF Left
<1>2. n \notin ToSet(taken[q]) \cup gone[q] /\ <<q, n>> \notin overwritten \cup crossed \cup closed
  BY DEF Onward
<1>3. n \in 1 .. given[q] => \E u \in Tabs : n \in ToSet(read(u, q))
  BY <1>2, KeptBySome DEF NothingElseLost
<1>4. CASE q # r
  <2>1. PICK u \in Tabs : n \in ToSet(read(u, q))
    BY <1>3, <1>4
  <2> QED BY <2>1, <1>4, ReadsAfter
<1>5. CASE q = r
  <2>1. read(t, r)' = list
    BY ReadsAfter
  <2>2. CASE n \in ToSet(list)
    BY <2>1, <2>2, <1>5
  <2>3. CASE n \notin ToSet(list)
    <3>1. PICK u \in Tabs : n \in ToSet(read(u, r))
      BY <1>3, <1>5, <2>3
    <3>2. n \notin ToSet(read(t, r))
      BY <1>1, <1>5, <2>3
    <3>3. u # t
      BY <3>1, <3>2
    <3>4. CASE Holds(u, r)
      BY <3>1, <3>3, <3>4, <1>5, ReadsAfter
    <3>5. CASE ~Holds(u, r)
      <4>1. n \in ToSet(store[r]) /\ read(u, r)' = store'[r]
        BY <3>1, <3>3, <3>5, ReadsAfter
      <4>2. store'[r] = store[r]
        BY <4>1, <3>2, <1>5, Written
      <4> QED BY <4>1, <4>2, <1>5
    <3> QED BY <3>4, <3>5
  <2> QED BY <2>2, <2>3
<1> QED BY <1>4, <1>5

\* The steps that write nothing...
LEMMA NoWriteKeeps ==
  ASSUME Types, Types', Onward, ListsFine, OneMemory, AllKept, NothingElseLost,
         store' = store, mem' = mem, given' = given
  PROVE  ListsFine' /\ OneMemory' /\ AllKept' /\ NothingElseLost'
<1>1. \A u \in Tabs : \A q \in Readers : read(u, q)' = read(u, q) /\ (Holds(u, q)' <=> Holds(u, q))
  BY DEF read, Holds
<1>2. apart \subseteq apart' /\ \A q \in Readers : Left(q) \subseteq Left(q)'
  BY StaysLeft DEF Onward
<1>3. ListsFine'
  <2> SUFFICES ASSUME NEW q \in Readers
               PROVE  /\ Fine(store'[q], q, given'[q], apart', Left(q)')
                      /\ \A u \in Tabs : Holds(u, q)' => Fine(mem'[u][q], q, given'[q], apart', Left(q)')
    BY DEF ListsFine
  <2> QED BY <1>1, StoreStaysFine
<1>4. OneMemory'
  BY <1>1, <1>2 DEF OneMemory
<1>5. AllKept'
  <2> SUFFICES ASSUME NEW q \in Readers, q \notin apart', NEW u \in Tabs,
                      \A v \in Tabs \ {u} : ~Holds(v, q)'
               PROVE  1 .. given'[q] \subseteq ToSet(read(u, q)') \cup Left(q)'
    BY DEF AllKept
  <2>1. 1 .. given[q] \subseteq ToSet(read(u, q)) \cup Left(q)
    BY <1>1, <1>2 DEF AllKept
  <2> QED BY <1>1, <1>2, <2>1
<1>6. NothingElseLost'
  <2> SUFFICES ASSUME NEW q \in Readers, NEW n \in 1 .. given'[q],
                      n \notin ToSet(taken'[q]) \cup gone'[q],
                      <<q, n>> \notin overwritten' \cup crossed' \cup closed'
               PROVE  \E u \in Tabs : n \in ToSet(read(u, q)')
    BY DEF NothingElseLost, KeptBy
  <2>1. \E u \in Tabs : n \in ToSet(read(u, q))
    BY KeptBySome DEF NothingElseLost, Onward
  <2> QED BY <2>1, <1>1
<1> QED BY <1>3, <1>4, <1>5, <1>6

\* ... and the page that is loaded again.
LEMMA LoadKeeps ==
  ASSUME Types, Types', Onward, ListsFine, OneMemory, AllKept, NothingElseLost,
         NEW t \in Tabs, NEW ck \in Sessions, LoadPage(t, ck)
  PROVE  ListsFine' /\ OneMemory' /\ AllKept' /\ NothingElseLost'
<1>1. /\ \A u \in Tabs \ {t} : mem'[u] = mem[u]
      /\ \A q \in Readers : ~Holds(t, q)'
      /\ \A q \in Readers : Holds(t, q) =>
           \A n \in ToSet(mem[t][q]) : n \in ToSet(store[q]) \/ <<q, n>> \in closed'
  BY Loads
<1>2. store' = store /\ given' = given /\ apart' = apart
  BY DEF LoadPage
<1>3. \A u \in Tabs \ {t} : \A q \in Readers :
        read(u, q)' = read(u, q) /\ (Holds(u, q)' <=> Holds(u, q))
  BY <1>1, <1>2 DEF read, Holds
<1>4. \A q \in Readers : /\ read(t, q)' = store[q]
                         /\ \A n \in ToSet(read(t, q)) : n \in ToSet(store[q]) \/ <<q, n>> \in closed'
  BY <1>1, <1>2 DEF read, Holds
<1>5. \A q \in Readers : Left(q) \subseteq Left(q)'
  BY StaysLeft
<1>6. ListsFine'
  <2> SUFFICES ASSUME NEW q \in Readers
               PROVE  /\ Fine(store'[q], q, given'[q], apart', Left(q)')
                      /\ \A u \in Tabs : Holds(u, q)' => Fine(mem'[u][q], q, given'[q], apart', Left(q)')
    BY DEF ListsFine
  <2>1. /\ Fine(store[q], q, given'[q], apart', Left(q)')
        /\ \A u \in Tabs : Holds(u, q) => Fine(mem[u][q], q, given'[q], apart', Left(q)')
    BY StoreStaysFine
  <2>2. ASSUME NEW u \in Tabs, Holds(u, q)' PROVE Holds(u, q) /\ mem'[u][q] = mem[u][q]
    BY <2>2, <1>1, <1>3
  <2> QED BY <1>2, <2>1, <2>2
<1>7. OneMemory'
  <2> SUFFICES ASSUME NEW q \in Readers, q \notin apart', NEW u \in Tabs, NEW v \in Tabs,
                      Holds(u, q)', Holds(v, q)'
               PROVE  u = v
    BY DEF OneMemory
  <2>1. Holds(u, q) /\ Holds(v, q)
    BY <1>1, <1>3
  <2> QED BY <2>1, <1>2 DEF OneMemory
<1>8. AllKept'
  <2> SUFFICES ASSUME NEW q \in Readers, q \notin apart', NEW u \in Tabs,
                      \A v \in Tabs \ {u} : ~Holds(v, q)',
                      NEW n \in 1 .. given[q], n \notin Left(q)'
               PROVE  n \in ToSet(read(u, q)')
    BY <1>2 DEF AllKept
  <2>1. n \notin Left(q) /\ <<q, n>> \notin closed'
    <3>1. n \in Numbers
      BY AnswerAssumption DEF Types, Numbers
    <3> QED BY <3>1, <1>5 DEF Left
  <2>2. CASE Holds(t, q)
    <3>1. \A v \in Tabs \ {t} : ~Holds(v, q)
      BY <2>2, <1>2 DEF OneMemory
    <3>2. n \in ToSet(read(t, q))
      BY <3>1, <2>1, <1>2 DEF AllKept
    <3>3. n \in ToSet(store[q])
      BY <3>2, <2>1, <1>4
    <3>4. read(u, q)' = store[q]
      BY <3>1, <1>2, <1>3, <1>4 DEF read, Holds
    <3> QED BY <3>3, <3>4
  <2>3. CASE ~Holds(t, q)
    <3>1. \A v \in Tabs \ {u} : ~Holds(v, q)
      BY <2>3, <1>3
    <3>2. n \in ToSet(read(u, q))
      BY <3>1, <2>1, <1>2 DEF AllKept
    <3> QED BY <3>2, <2>1, <1>3, <1>4
  <2> QED BY <2>2, <2>3
<1>9. NothingElseLost'
  <2> SUFFICES ASSUME NEW q \in Readers, NEW n \in 1 .. given'[q],
                      n \notin ToSet(taken'[q]) \cup gone'[q],
                      <<q, n>> \notin overwritten' \cup crossed' \cup closed'
               PROVE  \E u \in Tabs : n \in ToSet(read(u, q)')
    BY DEF NothingElseLost, KeptBy
  <2>1. PICK u \in Tabs : n \in ToSet(read(u, q))
    BY KeptBySome, <1>2 DEF NothingElseLost, Onward
  <2>2. CASE u # t
    BY <2>1, <2>2, <1>3
  <2>3. CASE u = t
    BY <2>1, <2>3, <1>4
  <2> QED BY <2>2, <2>3
<1> QED BY <1>6, <1>7, <1>8, <1>9

(***************************************************************************)
(* The requests after a step.                                              *)
(***************************************************************************)
LEMMA PostsInTurn ==
  ASSUME NEW o \in Sessions, NEW list \in Kept, NEW as \in Sessions, Increasing(list),
         NEW count, NEW away, NEW left, o \in Readers => Fine(list, o, count, away, left),
         PostHead(o, list, as) # NoPost
  PROVE  /\ InTurn(PostHead(o, list, as), away, left) /\ PostHead(o, list, as).uid = o
         /\ PostHead(o, list, as).at = "sent" /\ o \in Readers
<1>1. /\ PostHead(o, list, as) = [uid |-> o, n |-> Head(list), as |-> as, at |-> "sent"]
      /\ o \in Readers /\ list # <<>>
  BY Posted
<1>2. ASSUME o \notin away PROVE \A n \in Numbers : n < Head(list) => n \in left
  <2>1. Gapless(list, left)
    BY <1>1, <1>2 DEF Fine
  <2> QED BY <1>1, <2>1, HeadInTurn
<1> QED BY <1>1, <1>2 DEF InTurn

LEMMA RequestsStay ==
  ASSUME Types, Types', Onward, RequestsInTurn,
         \A m \in late' : m \in late \/ \E u \in Tabs : m = post[u] /\ post[u] # NoPost,
         \A u \in Tabs : \A r \in Readers : post'[u] # NoPost /\ post'[u].uid = r =>
            \/ post[u] # NoPost /\ post[u].uid = r /\ post'[u].n = post[u].n
            \/ InTurn(post'[u], apart', Left(r)')
  PROVE  RequestsInTurn'
<1>1. apart \subseteq apart'
  BY DEF Onward
<1> SUFFICES ASSUME NEW r \in Readers
             PROVE  /\ \A m \in late' : m.uid = r => InTurn(m, apart', Left(r)')
                    /\ \A u \in Tabs : post'[u] # NoPost /\ post'[u].uid = r
                                         => InTurn(post'[u], apart', Left(r)')
  BY DEF RequestsInTurn
<1>2. Left(r) \subseteq Left(r)'
  BY StaysLeft
<1>3. ASSUME NEW m \in late', m.uid = r PROVE InTurn(m, apart', Left(r)')
  <2>1. InTurn(m, apart, Left(r))
    BY <1>3 DEF RequestsInTurn
  <2> QED BY <2>1, <1>1, <1>2 DEF InTurn
<1>4. ASSUME NEW u \in Tabs, post'[u] # NoPost, post'[u].uid = r PROVE InTurn(post'[u], apart', Left(r)')
  <2>1. CASE post[u] # NoPost /\ post[u].uid = r /\ post'[u].n = post[u].n
    <3>1. InTurn(post[u], apart, Left(r))
      BY <2>1 DEF RequestsInTurn
    <3> QED BY <2>1, <3>1, <1>1, <1>2, <1>4 DEF InTurn
  <2> QED BY <1>4, <2>1
<1> QED BY <1>3, <1>4

LEMMA RepliesStay ==
  ASSUME Types, Onward, Replies,
         \A u \in Tabs : post'[u] = post[u] \/ post'[u].at \notin {"ok", "refused"}
  PROVE  Replies'
<1> SUFFICES ASSUME NEW u \in Tabs
             PROVE  /\ post'[u].at = "ok" => post'[u].n \in ToSet(taken'[post'[u].uid])
                    /\ post'[u].at = "refused" =>
                         post'[u].n \in gone'[post'[u].uid] \/ post'[u].as # post'[u].uid
  BY DEF Replies
<1>1. CASE post'[u].at \notin {"ok", "refused"}
  BY <1>1
<1>2. CASE post'[u] = post[u] /\ post'[u].at \in {"ok", "refused"}
  <2>1. post[u].uid \in Readers
    BY <1>2 DEF Types, NoPost, Asked
  <2> QED BY <1>2, <2>1 DEF Replies, Onward
<1> QED BY <1>1, <1>2

(***************************************************************************)
(* The server's log after a step.                                          *)
(***************************************************************************)
LEMMA LogStays ==
  ASSUME Types, Onward, TakenInTurn, OnceInOrder, taken' = taken
  PROVE  TakenInTurn' /\ OnceInOrder'
<1>1. apart \subseteq apart' /\ crossed \subseteq crossed' /\ closed \subseteq closed'
  BY DEF Onward
<1>2. \A r \in Readers : Left(r) \subseteq Left(r)'
  BY StaysLeft
<1>3. TakenInTurn'
  BY <1>1, <1>2 DEF TakenInTurn
<1>4. CountsOnce' /\ TakenInOrder'
  BY <1>1 DEF OnceInOrder, CountsOnce, TakenInOrder
<1> QED BY <1>3, <1>4 DEF OnceInOrder

LEMMA LogGrows ==
  ASSUME Types, Types', Onward, TakenInTurn, OnceInOrder, NEW m \in Asked,
         InTurn(m, apart, Left(m.uid)), Take(m), UNCHANGED <<gone, lostVars>>
  PROVE  TakenInTurn' /\ OnceInOrder'
<1> USE AnswerAssumption
<1>1. CASE taken'[m.uid] = taken[m.uid]
  <2>1. taken' = taken
    <3>1. \A q \in Readers : taken'[q] = taken[q]
      BY <1>1, Takes
    <3>2. taken' \in [Readers -> Kept] /\ taken \in [Readers -> Kept]
      BY DEF Types
    <3> QED BY <3>1, <3>2
  <2> QED BY <2>1, LogStays
<1>2. CASE taken'[m.uid] # taken[m.uid]
  <2> DEFINE r == m.uid
  <2>1. r \in Readers /\ m.n \in Numbers /\ taken[r] \in Kept
    BY DEF Asked, Types
  <2>2. /\ ~Refused(m) /\ m.n \notin ToSet(taken[r]) /\ taken'[r] = Append(taken[r], m.n)
        /\ \A q \in Readers \ {r} : taken'[q] = taken[q]
    BY <1>2, Takes
  <2> DEFINE new == Len(taken[r]) + 1
  <2>3. /\ ToSet(taken'[r]) = ToSet(taken[r]) \cup {m.n}
        /\ IsInjective(taken[r]) => IsInjective(taken'[r])
    <3> HIDE DEF r
    <3> QED BY <2>1, <2>2, AddedBehind
  <2>4. /\ DOMAIN taken[r] = 1 .. (new - 1) /\ DOMAIN taken'[r] = 1 .. new /\ new \in Nat
        /\ taken'[r][new] = m.n
        /\ \A i \in 1 .. (new - 1) : taken'[r][i] = taken[r][i] /\ taken[r][i] \in ToSet(taken[r])
    <3> HIDE DEF r
    <3>1. /\ Append(taken[r], m.n) \in Seq(Numbers) /\ Len(Append(taken[r], m.n)) = Len(taken[r]) + 1
          /\ \A i \in 1 .. Len(taken[r]) : Append(taken[r], m.n)[i] = taken[r][i]
          /\ Append(taken[r], m.n)[Len(taken[r]) + 1] = m.n
      BY <2>1, AppendProperties DEF Kept
    <3>2. DOMAIN taken[r] = 1 .. Len(taken[r]) /\ Len(taken[r]) \in Nat
      BY <2>1 DEF Kept
    <3>3. DOMAIN Append(taken[r], m.n) = 1 .. (Len(taken[r]) + 1)
      BY <3>1
    <3> QED BY <2>2, <3>1, <3>2, <3>3 DEF ToSet
  <2>5. CountsOnce'
    <3> SUFFICES ASSUME NEW q \in Readers PROVE IsInjective(taken'[q])
      BY DEF CountsOnce
    <3> QED BY <2>2, <2>3 DEF OnceInOrder, CountsOnce
  <2>6. \A q \in Readers : Left(q) \subseteq Left(q)'
    BY StaysLeft
  <2>7. TakenInTurn'
    <3> SUFFICES ASSUME NEW q \in Readers, q \notin apart', NEW k \in ToSet(taken'[q]),
                        NEW n \in Numbers, n < k
                 PROVE  n \in Left(q)'
      BY DEF TakenInTurn
    <3>1. q \notin apart
      BY DEF lostVars
    <3>2. CASE k \in ToSet(taken[q])
      BY <3>1, <3>2, <2>6 DEF TakenInTurn
    <3>3. CASE k \notin ToSet(taken[q])
      <4>1. q = r /\ k = m.n
        BY <2>2, <2>3, <3>3
      <4>2. n \in Left(r)
        BY <4>1, <3>1 DEF InTurn
      <4> QED BY <4>1, <4>2, <2>6
    <3> QED BY <3>2, <3>3
  <2>8. TakenInOrder'
    <3> SUFFICES ASSUME NEW q \in Readers \ apart, NEW i \in DOMAIN taken'[q], NEW j \in DOMAIN taken'[q],
                        i < j, <<q, taken'[q][j]>> \notin crossed \cup closed
                 PROVE  taken'[q][i] < taken'[q][j]
      BY DEF TakenInOrder, lostVars
    <3>1. TakenInOrder
      BY DEF OnceInOrder
    <3>2. CASE q # r
      <4>1. taken'[q] = taken[q]
        BY <2>2, <3>2
      <4> QED BY <3>1, <4>1 DEF TakenInOrder
    <3>3. CASE q = r /\ j # new
      <4>1. i \in DOMAIN taken[r] /\ j \in DOMAIN taken[r]
        BY <3>3, <2>4
      <4>2. taken'[r][i] = taken[r][i] /\ taken'[r][j] = taken[r][j]
        BY <4>1, <2>4
      <4> HIDE DEF r, new
      <4> QED BY <3>1, <3>3, <4>1, <4>2 DEF TakenInOrder
    <3>4. CASE q = r /\ j = new
      <4>1. /\ taken'[r][j] = m.n /\ taken'[r][i] = taken[r][i] /\ taken[r][i] \in ToSet(taken[r])
        BY <3>4, <2>4
      <4>2. m.n \notin Left(r)
        BY <2>2, <3>4, <4>1 DEF Left, Refused
      <4>3. ~(m.n < taken[r][i])
        BY <4>1, <4>2, <2>1, <3>4 DEF TakenInTurn
      <4>4. taken[r][i] # m.n /\ taken[r][i] \in Nat /\ m.n \in Nat
        <5>1. ToSet(taken[r]) \subseteq Numbers
          <6> HIDE DEF r
          <6> QED BY <2>1, OfAnswers
        <5> QED BY <5>1, <4>1, <2>1, <2>2 DEF Numbers
      <4> HIDE DEF r, new
      <4> QED BY <3>4, <4>1, <4>3, <4>4
    <3> QED BY <3>2, <3>3, <3>4
  <2> QED BY <2>5, <2>7, <2>8 DEF OnceInOrder
<1> QED BY <1>1, <1>2

(***************************************************************************)
(* The invariant is kept, step by step.                                    *)
(***************************************************************************)
LEMMA ReadStaysFine ==
  ASSUME Types, Types', Onward, ListsFine, NEW t \in Tabs, NEW o \in Readers
  PROVE  Fine(ReadNow(t, o), o, given'[o], apart', Left(o)')
<1>1. ReadNow(t, o) = read(t, o)
  BY AnswerAssumption DEF ReadNow
<1>2. CASE Holds(t, o)
  BY <1>1, <1>2, Reads, StoreStaysFine
<1>3. CASE ~Holds(t, o)
  BY <1>1, <1>3, Reads, StoreStaysFine
<1> QED BY <1>2, <1>3

LEMMA AnswerStep ==
  ASSUME IInv, Types', Onward, NEW t \in Tabs, KeepAnswer(t)
  PROVE  IInv'
<1> USE AnswerAssumption DEF IInv
<1>1. PICK r \in Readers, list \in Kept :
         /\ r = owner[t] /\ given[r] + 1 \in Numbers
         /\ given' = [given EXCEPT ![r] = @ + 1]
         /\ Increasing(list) /\ ToSet(list) = ToSet(read(t, r)) \cup {given[r] + 1}
         /\ write(t, r, list) /\ Drain(t, r, list, cookie)
  BY Answers
<1>2. UNCHANGED <<room, cookie, owner, serverVars, crossed, closed>>
  BY DEF KeepAnswer
<1>3. /\ given[r] \in Nat /\ given'[r] = given[r] + 1
      /\ \A q \in Readers \ {r} : given'[q] = given[q]
  BY <1>1 DEF Types
<1>4. /\ read(t, r) \in Kept /\ Fine(read(t, r), r, given[r], apart, Left(r))
      /\ ToSet(read(t, r)) \subseteq Nat
  <2>1. read(t, r) \in Kept /\ Fine(read(t, r), r, given[r], apart, Left(r))
    BY Reads
  <2> QED BY <2>1, OfAnswers DEF Numbers
<1>5. apart \subseteq apart' /\ Left(r) \subseteq Left(r)'
  BY StaysLeft DEF Onward
<1>6. ASSUME r \notin apart' PROVE 1 .. given[r] \subseteq ToSet(read(t, r)) \cup Left(r)
  BY <1>1, <1>5, <1>6, Written DEF AllKept
<1>7. \A n \in ToSet(list) : n <= given'[r]
  <2>1. \A n \in ToSet(read(t, r)) : n <= given[r]
    BY <1>4 DEF Fine
  <2> QED BY <2>1, <1>1, <1>3, <1>4
<1>8. ASSUME r \notin apart' PROVE Gapless(list, Left(r)')
  <2> SUFFICES ASSUME NEW m \in ToSet(list), NEW n \in Numbers, n < m
               PROVE  n \in ToSet(list) \cup Left(r)'
    BY DEF Gapless
  <2>1. CASE m \in ToSet(read(t, r))
    <3>1. Gapless(read(t, r), Left(r))
      BY <1>4, <1>5, <1>8 DEF Fine
    <3> QED BY <3>1, <2>1, <1>1, <1>5 DEF Gapless
  <2>2. CASE m = given[r] + 1
    <3>1. n \in 1 .. given[r]
      BY <2>2, <1>3 DEF Numbers
    <3> QED BY <3>1, <1>1, <1>5, <1>6, <1>8
  <2> QED BY <2>1, <2>2, <1>1
<1>9. Fine(list, r, given'[r], apart', Left(r)')
  BY <1>1, <1>7, <1>8 DEF Fine
<1>10. r \notin apart' => 1 .. given'[r] \subseteq ToSet(list) \cup Left(r)'
  BY <1>1, <1>3, <1>5, <1>6
<1>11. ListsFine' /\ OneMemory' /\ AllKept'
  BY <1>1, <1>3, <1>9, <1>10, WriteKeepsOrder
<1>12. NothingElseLost'
  BY <1>1, <1>3, WriteLosesNothing
<1>13. r \in Sessions /\ cookie \in Sessions
  BY DEF Types, Sessions
<1>14. \A u \in Tabs : post'[u] = post[u] \/ (u = t /\ post'[u] = PostHead(r, list, cookie))
  BY <1>1, <1>13, Drained
<1>15. RequestsInTurn'
  <2>1. ASSUME NEW u \in Tabs, NEW q \in Readers, post'[u] # NoPost, post'[u].uid = q
        PROVE  \/ post[u] # NoPost /\ post[u].uid = q /\ post'[u].n = post[u].n
               \/ InTurn(post'[u], apart', Left(q)')
    <3>1. CASE post'[u] = post[u]
      BY <3>1, <2>1
    <3>2. CASE post'[u] = PostHead(r, list, cookie)
      <4>1. /\ InTurn(PostHead(r, list, cookie), apart', Left(r)')
            /\ PostHead(r, list, cookie).uid = r
        BY <3>2, <2>1, <1>1, <1>9, <1>13, PostsInTurn
      <4>2. q = r
        BY <4>1, <3>2, <2>1
      <4> QED BY <4>1, <4>2, <3>2
    <3> QED BY <1>14, <3>1, <3>2
  <2>2. late' = late
    BY <1>2 DEF serverVars
  <2> QED BY <2>1, <2>2, RequestsStay
<1>16. Replies'
  <2>1. ASSUME NEW u \in Tabs PROVE post'[u] = post[u] \/ post'[u].at \notin {"ok", "refused"}
    <3>1. CASE post'[u] = PostHead(r, list, cookie)
      BY <3>1 DEF PostHead, NoPost
    <3> QED BY <3>1, <1>14
  <2> QED BY <2>1, RepliesStay
<1>17. TakenInTurn' /\ OnceInOrder'
  BY <1>2, LogStays DEF serverVars
<1> QED BY <1>11, <1>12, <1>15, <1>16, <1>17

\* What is taken off a list after its reply has left.
LEMMA SettledHasLeft ==
  ASSUME Types, Replies, Onward, NEW t \in Tabs, Sent(t) \/ Dropped(t),
         NEW r \in Readers, r = post[t].uid, post[t].n \in Numbers
  PROVE  post[t].n \in Left(r)'
<1>1. CASE Sent(t)
  <2>1. post[t].n \in ToSet(taken[r])
    BY <1>1 DEF Sent, Replies
  <2> QED BY <2>1 DEF Left, Onward
<1>2. CASE Dropped(t)
  <2>1. post[t].n \in gone[r] \/ post[t].as # r
    BY <1>2 DEF Dropped, Replies
  <2>2. CASE post[t].n \in gone[r]
    BY <2>2 DEF Left, Onward
  <2>3. CASE post[t].as # r
    BY <2>3, <1>2 DEF Dropped, Left
  <2> QED BY <2>1, <2>2, <2>3
<1> QED BY <1>1, <1>2

LEMMA SettleStep ==
  ASSUME IInv, Types', Onward, NEW t \in Tabs, Sent(t) \/ Dropped(t)
  PROVE  IInv'
<1> USE DEF IInv
<1>1. Settle(t) /\ post[t] # NoPost
  BY DEF Sent, Dropped, NoPost
<1>2. PICK r \in Readers, list \in Kept, next \in Kept :
           /\ r = post[t].uid /\ post[t].n \in Numbers
           /\ Increasing(list) /\ ToSet(list) = ToSet(read(t, r)) \ {post[t].n}
           /\ write(t, r, list)
           /\ Increasing(next) /\ next = IF owner[t] = r THEN list ELSE ReadNow(t, owner[t])
           /\ post' = [post EXCEPT ![t] = PostHead(owner[t], next, cookie)]
  BY <1>1, Settles
<1>3. UNCHANGED <<room, cookie, owner, timer, serverVars, given, closed>>
  BY <1>1 DEF Settle
<1>4. post[t].n \in Left(r)'
  BY <1>2, SettledHasLeft
<1>5. read(t, r) \in Kept /\ Fine(read(t, r), r, given[r], apart, Left(r))
  BY Reads
<1>6. apart \subseteq apart' /\ Left(r) \subseteq Left(r)'
  BY StaysLeft DEF Onward
<1>7. ASSUME r \notin apart' PROVE Gapless(list, Left(r)')
  <2> SUFFICES ASSUME NEW m \in ToSet(list), NEW n \in Numbers, n < m
               PROVE  n \in ToSet(list) \cup Left(r)'
    BY DEF Gapless
  <2>1. Gapless(read(t, r), Left(r)) /\ m \in ToSet(read(t, r))
    BY <1>2, <1>5, <1>6, <1>7 DEF Fine
  <2>2. n \in ToSet(read(t, r)) \cup Left(r)
    BY <2>1 DEF Gapless
  <2> QED BY <2>2, <1>2, <1>4, <1>6
<1>8. Fine(list, r, given'[r], apart', Left(r)')
  <2>1. \A n \in ToSet(list) : n <= given'[r]
    BY <1>2, <1>3, <1>5 DEF Fine
  <2> QED BY <2>1, <1>2, <1>7 DEF Fine
<1>9. r \notin apart' => 1 .. given'[r] \subseteq ToSet(list) \cup Left(r)'
  <2> SUFFICES ASSUME r \notin apart' PROVE 1 .. given[r] \subseteq ToSet(list) \cup Left(r)'
    BY <1>3
  <2>1. 1 .. given[r] \subseteq ToSet(read(t, r)) \cup Left(r)
    BY <1>2, <1>6, Written DEF AllKept
  <2> QED BY <2>1, <1>2, <1>4, <1>6
<1>10. ListsFine' /\ OneMemory' /\ AllKept'
  BY <1>2, <1>3, <1>8, <1>9, WriteKeepsOrder
<1>11. NothingElseLost'
  <2>1. ToSet(read(t, r)) \subseteq ToSet(list) \cup Left(r)'
    BY <1>2, <1>4
  <2> QED BY <2>1, <1>2, <1>3, WriteLosesNothing
<1>12. owner[t] \in Sessions /\ cookie \in Sessions
  BY DEF Types
<1>13. /\ post'[t] = PostHead(owner[t], next, cookie)
       /\ \A u \in Tabs \ {t} : post'[u] = post[u]
  BY <1>2, <1>12, Posts1
<1>14. ASSUME NEW o \in Readers, o = owner[t] PROVE Fine(next, o, given'[o], apart', Left(o)')
  <2>1. CASE o = r
    BY <2>1, <1>2, <1>8, <1>14
  <2>2. CASE o # r
    BY <2>2, <1>2, <1>14, ReadStaysFine
  <2> QED BY <2>1, <2>2
<1>15. RequestsInTurn'
  <2>1. ASSUME NEW u \in Tabs, NEW q \in Readers, post'[u] # NoPost, post'[u].uid = q
        PROVE  \/ post[u] # NoPost /\ post[u].uid = q /\ post'[u].n = post[u].n
               \/ InTurn(post'[u], apart', Left(q)')
    <3>1. CASE u # t
      BY <3>1, <2>1, <1>13
    <3>2. CASE u = t
      <4>1. PICK o \in Sessions, as \in Sessions : o = owner[t] /\ as = cookie
        BY <1>12
      <4>2. post'[u] = PostHead(o, next, as) /\ PostHead(o, next, as) # NoPost
        BY <3>2, <4>1, <1>13, <2>1
      <4>3. o \in Readers => Fine(next, o, given'[o], apart', Left(o)')
        BY <4>1, <1>14
      <4>4. /\ InTurn(PostHead(o, next, as), apart', Left(o)')
            /\ PostHead(o, next, as).uid = o
        <5>1. Increasing(next)
          BY <1>2
        <5> QED BY <4>2, <4>3, <5>1, PostsInTurn
      <4>5. q = o
        BY <4>2, <4>4, <2>1
      <4> QED BY <4>2, <4>4, <4>5
    <3> QED BY <3>1, <3>2
  <2>2. late' = late
    BY <1>3 DEF serverVars
  <2> QED BY <2>1, <2>2, RequestsStay
<1>16. Replies'
  <2>1. post'[t].at \notin {"ok", "refused"}
    BY <1>13 DEF PostHead, NoPost
  <2> QED BY <2>1, <1>13, RepliesStay
<1>17. TakenInTurn' /\ OnceInOrder'
  BY <1>3, LogStays DEF serverVars
<1> QED BY <1>10, <1>11, <1>15, <1>16, <1>17

LEMMA StartStep ==
  ASSUME IInv, Types', Onward, NEW t \in Tabs,
         (\E r \in Readers : SignIn(t, r)) \/ Nudge(t) \/ TimerFires(t)
  PROVE  IInv'
<1> USE DEF IInv
<1>1. UNCHANGED <<store, room, mem, serverVars, given, lostVars>>
  BY DEF SignIn, Nudge, TimerFires
<1>2. PICK o \in Sessions, list \in Kept, as \in Sessions :
           /\ o = owner'[t] /\ list = ReadNow(t, o) /\ Increasing(list) /\ as = cookie'
           /\ Drain(t, o, list, as)
  BY Starting
<1>3. \A u \in Tabs : post'[u] = post[u] \/ (u = t /\ post'[u] = PostHead(o, list, as))
  BY <1>2, Drained
<1>4. o \in Readers => Fine(list, o, given'[o], apart', Left(o)')
  BY <1>2, ReadStaysFine
<1>5. RequestsInTurn'
  <2>1. ASSUME NEW u \in Tabs, NEW q \in Readers, post'[u] # NoPost, post'[u].uid = q
        PROVE  \/ post[u] # NoPost /\ post[u].uid = q /\ post'[u].n = post[u].n
               \/ InTurn(post'[u], apart', Left(q)')
    <3>1. CASE post'[u] = post[u]
      BY <3>1, <2>1
    <3>2. CASE post'[u] = PostHead(o, list, as)
      <4>1. /\ InTurn(PostHead(o, list, as), apart', Left(o)') /\ PostHead(o, list, as).uid = o
        BY <3>2, <2>1, <1>2, <1>4, PostsInTurn
      <4>2. q = o
        BY <4>1, <3>2, <2>1
      <4> QED BY <4>1, <4>2, <3>2
    <3> QED BY <1>3, <3>1, <3>2
  <2>2. late' = late
    BY <1>1 DEF serverVars
  <2> QED BY <2>1, <2>2, RequestsStay
<1>6. Replies'
  <2>1. ASSUME NEW u \in Tabs PROVE post'[u] = post[u] \/ post'[u].at \notin {"ok", "refused"}
    <3>1. CASE post'[u] = PostHead(o, list, as)
      BY <3>1 DEF PostHead, NoPost
    <3> QED BY <3>1, <1>3
  <2> QED BY <2>1, RepliesStay
<1>7. TakenInTurn' /\ OnceInOrder'
  BY <1>1, LogStays DEF serverVars
<1>8. ListsFine' /\ OneMemory' /\ AllKept' /\ NothingElseLost'
  BY <1>1, NoWriteKeeps
<1> QED BY <1>5, <1>6, <1>7, <1>8

LEMMA LoadStep ==
  ASSUME IInv, Types', Onward, NEW t \in Tabs, NEW ck \in Sessions, LoadPage(t, ck)
  PROVE  IInv'
<1> USE DEF IInv
<1>1. ListsFine' /\ OneMemory' /\ AllKept' /\ NothingElseLost'
  BY LoadKeeps
<1>2. PICK list \in Kept : /\ Increasing(list) /\ list = IF ck = NoReader THEN <<>> ELSE store[ck]
                           /\ post' = [post EXCEPT ![t] = PostHead(ck, list, ck)]
  BY Loads
<1>3. post'[t] = PostHead(ck, list, ck) /\ \A u \in Tabs \ {t} : post'[u] = post[u]
  BY <1>2, Posts1
<1>4. ck \in Readers => Fine(list, ck, given'[ck], apart', Left(ck)')
  BY <1>2, StoreStaysFine, AnswerAssumption
<1>5. RequestsInTurn'
  <2>1. ASSUME NEW u \in Tabs, NEW q \in Readers, post'[u] # NoPost, post'[u].uid = q
        PROVE  \/ post[u] # NoPost /\ post[u].uid = q /\ post'[u].n = post[u].n
               \/ InTurn(post'[u], apart', Left(q)')
    <3>1. CASE u # t
      BY <3>1, <2>1, <1>3
    <3>2. CASE u = t
      <4>1. /\ InTurn(PostHead(ck, list, ck), apart', Left(ck)') /\ PostHead(ck, list, ck).uid = ck
        BY <3>2, <2>1, <1>2, <1>3, <1>4, PostsInTurn
      <4>2. q = ck
        BY <4>1, <3>2, <2>1, <1>3
      <4> QED BY <4>1, <4>2, <3>2, <1>3
    <3> QED BY <3>1, <3>2
  <2>2. \A m \in late' : m \in late \/ \E u \in Tabs : m = post[u] /\ post[u] # NoPost
    BY Abandons DEF LoadPage
  <2> QED BY <2>1, <2>2, RequestsStay
<1>6. Replies'
  <2>1. post'[t].at \notin {"ok", "refused"}
    BY <1>3 DEF PostHead, NoPost
  <2> QED BY <2>1, <1>3, RepliesStay
<1>7. TakenInTurn' /\ OnceInOrder'
  BY LogStays DEF LoadPage
<1> QED BY <1>1, <1>5, <1>6, <1>7

LEMMA ServeStep ==
  ASSUME IInv, Types', Onward, NEW t \in Tabs, Serve(t)
  PROVE  IInv'
<1> USE DEF IInv
<1>1. post[t] \in Asked /\ post[t].at = "sent"
  BY DEF Serve, Types, NoPost
<1>2. UNCHANGED <<store, room, cookie, owner, mem, timer, late, gone, given, lostVars>>
  BY DEF Serve
<1>3. PICK at \in {"ok", "refused", "out"} :
        /\ post' = [post EXCEPT ![t].at = at]
        /\ \/ at = "out" /\ taken' = taken
           \/ at = "refused" /\ Take(post[t]) /\ Refused(post[t])
           \/ at = "ok" /\ Take(post[t]) /\ ~Refused(post[t])
  BY DEF Serve
<1>4. /\ \A u \in Tabs \ {t} : post'[u] = post[u]
      /\ post'[t].uid = post[t].uid /\ post'[t].n = post[t].n /\ post'[t].as = post[t].as
      /\ post'[t].at = at /\ post[t] # NoPost
  BY <1>1, <1>3 DEF Types, Asked, NoPost
<1>5. ListsFine' /\ OneMemory' /\ AllKept' /\ NothingElseLost'
  BY <1>2, NoWriteKeeps
<1>6. RequestsInTurn'
  <2>1. ASSUME NEW u \in Tabs, NEW q \in Readers, post'[u] # NoPost, post'[u].uid = q
        PROVE  post[u] # NoPost /\ post[u].uid = q /\ post'[u].n = post[u].n
    BY <2>1, <1>4
  <2> QED BY <2>1, <1>2, RequestsStay
<1>7. Replies'
  <2> SUFFICES ASSUME NEW u \in Tabs
               PROVE  /\ post'[u].at = "ok" => post'[u].n \in ToSet(taken'[post'[u].uid])
                      /\ post'[u].at = "refused" =>
                           post'[u].n \in gone'[post'[u].uid] \/ post'[u].as # post'[u].uid
    BY DEF Replies
  <2>1. CASE u # t
    <3>1. post'[u] = post[u]
      BY <2>1, <1>4
    <3>2. post[u].at \in {"ok", "refused"} => post[u].uid \in Readers
      BY DEF Types, NoPost, Asked
    <3> QED BY <3>1, <3>2 DEF Replies, Onward
  <2>2. CASE u = t /\ at = "ok"
    <3>1. post[t].n \in ToSet(taken'[post[t].uid])
      BY <1>1, <1>3, <2>2, Takes
    <3> QED BY <3>1, <2>2, <1>4
  <2>3. CASE u = t /\ at = "refused"
    <3>1. post[t].as # post[t].uid \/ post[t].n \in gone'[post[t].uid]
      BY <1>2, <1>3, <2>3 DEF Refused
    <3> QED BY <3>1, <2>3, <1>4
  <2>4. CASE u = t /\ at = "out"
    BY <2>4, <1>4
  <2> QED BY <2>1, <2>2, <2>3, <2>4
<1>8. TakenInTurn' /\ OnceInOrder'
  <2>1. CASE taken' = taken
    BY <2>1, LogStays
  <2>2. CASE Take(post[t])
    <3>1. PICK m \in Asked : m = post[t]
      BY <1>1
    <3>2. InTurn(m, apart, Left(m.uid))
      <4>1. m.uid \in Readers
        BY DEF Asked
      <4> QED BY <4>1, <3>1, <1>4 DEF RequestsInTurn
    <3> QED BY <2>2, <3>1, <3>2, <1>2, LogGrows
  <2> QED BY <2>1, <2>2, <1>3
<1> QED BY <1>5, <1>6, <1>7, <1>8

LEMMA LateStep ==
  ASSUME IInv, Types', Onward, LateArrives
  PROVE  IInv'
<1> USE DEF IInv
<1>1. PICK m \in late : /\ late' = late \ {m} /\ (Take(m) \/ taken' = taken)
                        /\ UNCHANGED <<store, room, cookie, tabVars, gone, given, lostVars>>
  BY DEF LateArrives
<1>2. m \in Asked /\ m.uid \in Readers
  BY DEF Types, Abandoned, Asked, Sessions
<1>3. ListsFine' /\ OneMemory' /\ AllKept' /\ NothingElseLost'
  BY <1>1, NoWriteKeeps DEF tabVars
<1>4. RequestsInTurn' /\ Replies'
  BY <1>1, RequestsStay, RepliesStay DEF tabVars
<1>5. TakenInTurn' /\ OnceInOrder'
  <2>1. CASE taken' = taken
    BY <2>1, LogStays
  <2>2. CASE Take(m)
    <3>1. InTurn(m, apart, Left(m.uid))
      BY <1>2 DEF RequestsInTurn
    <3> QED BY <2>2, <3>1, <1>1, <1>2, LogGrows
  <2> QED BY <2>1, <2>2, <1>1
<1> QED BY <1>3, <1>4, <1>5

\* The steps that write nothing, post nothing and tell the server nothing.
LEMMA OtherStep ==
  ASSUME IInv, Types', Onward,
         UNCHANGED <<store, mem, given, taken>>,
         \A m \in late' : m \in late \/ \E u \in Tabs : m = post[u] /\ post[u] # NoPost,
         \A u \in Tabs : post'[u] \in {post[u], NoPost}
  PROVE  IInv'
<1> USE DEF IInv
<1>1. ListsFine' /\ OneMemory' /\ AllKept' /\ NothingElseLost'
  BY NoWriteKeeps
<1>2. RequestsInTurn'
  BY RequestsStay
<1>3. Replies'
  <2>1. NoPost.at = "none"
    BY DEF NoPost
  <2> QED BY <2>1, RepliesStay
<1>4. TakenInTurn' /\ OnceInOrder'
  BY LogStays
<1> QED BY <1>1, <1>2, <1>3, <1>4

LEMMA Step == IInv /\ [Next]_vars => IInv'
<1> SUFFICES ASSUME IInv, [Next]_vars PROVE IInv'
  OBVIOUS
<1>1. Types' /\ Onward /\ Types
  BY TypesStay DEF IInv
<1>2. ASSUME NEW t \in Tabs, Tab(t) PROVE IInv'
  <2>1. CASE KeepAnswer(t)
    BY <2>1, <1>1, AnswerStep
  <2>2. CASE Sent(t) \/ Dropped(t)
    BY <2>2, <1>1, SettleStep
  <2>3. CASE (\E r \in Readers : SignIn(t, r)) \/ Nudge(t) \/ TimerFires(t)
    BY <2>3, <1>1, StartStep
  <2>4. CASE Reload(t) \/ \E r \in Readers : SwitchAccount(t, r)
    BY <2>4, <1>1, LoadStep DEF Reload, SwitchAccount, Types, Sessions
  <2>5. CASE Serve(t)
    BY <2>5, <1>1, ServeStep
  <2>6. CASE Waits(t) \/ Stopped(t) \/ SignOut(t)
    <3>1. UNCHANGED <<store, mem, given, taken>>
      BY <2>6 DEF Waits, Stopped, SignOut, serverVars
    <3>2. \A u \in Tabs : post'[u] \in {post[u], NoPost}
      BY <2>6, <1>1 DEF Waits, Stopped, SignOut, Types
    <3>3. \A m \in late' : m \in late \/ \E u \in Tabs : m = post[u] /\ post[u] # NoPost
      BY <2>6, <1>1, Abandons DEF Waits, Stopped, SignOut, serverVars
    <3> QED BY <3>1, <3>2, <3>3, <1>1, OtherStep
  <2> QED BY <1>2, <2>1, <2>2, <2>3, <2>4, <2>5, <2>6 DEF Tab
<1>3. CASE LateArrives
  BY <1>3, <1>1, LateStep
<1>4. CASE \/ SessionEnds \/ RoomChanges \/ UNCHANGED vars
           \/ \E r \in Quizzed : \E n \in Deletable : DeleteQuote(r, n)
  <2>1. UNCHANGED <<store, mem, given, taken, post, late>>
    BY <1>4 DEF SessionEnds, RoomChanges, DeleteQuote, vars, tabVars, serverVars
  <2> QED BY <2>1, <1>1, OtherStep
<1> QED BY <1>2, <1>3, <1>4 DEF Next, Environment

(***************************************************************************)
(* The theorems.                                                           *)
(***************************************************************************)
\* The inductive invariant holds in every behaviour.
THEOREM Invariance == Spec => []IInv
BY Starts, Step, PTL DEF Spec

\* Type correctness: of what the tabs keep, what is on its way and what the server
\* has; no list is longer than the answers there are.
THEOREM TypeCorrect == Spec => []TypeOK
BY Invariance, TypesSuffice, PTL

\* An answer given stays in the browser until the server has it, or has no quote for
\* it, but for the three doors (answerQueue.js, write and drain).
THEOREM NothingIsLost == Spec => []NothingElseLost
<1>1. IInv => NothingElseLost
  BY DEF IInv
<1> QED BY <1>1, Invariance, PTL

\* However often and however late it is sent, an answer is logged once, and after
\* those given before it, unless its reader's lists went apart.
THEOREM LoggedOnceInOrder == Spec => []OnceInOrder
<1>1. IInv => OnceInOrder
  BY DEF IInv
<1> QED BY <1>1, Invariance, PTL

\* A post, once decided on, leaves the tab sending or with nothing to send.
LEMMA QuietAfterPost ==
  ASSUME NEW t \in Tabs, NEW o \in Sessions, NEW list \in Kept, NEW as \in Sessions,
         Increasing(list), post'[t] = PostHead(o, list, as), ~Sending(t)'
  PROVE  o = NoReader \/ list = <<>>
<1>1. PostHead(o, list, as) = NoPost
  BY DEF Sending
<1>2. CASE o # NoReader /\ list # <<>>
  <2>1. PostHead(o, list, as).at = "sent"
    BY <1>2 DEF PostHead
  <2> QED BY <2>1, <1>1 DEF NoPost
<1> QED BY <1>2

LEMMA QuietStep ==
  ASSUME Types, ListsFine, Types', Next, NEW t \in Tabs, Sending(t), ~Sending(t)'
  PROVE  owner'[t] = NoReader \/ read(t, owner[t])' = <<>> \/ post[t].at = "out"
<1> USE AnswerAssumption
<1>1. ~(post'[t] = post[t] /\ timer'[t] = timer[t])
  BY DEF Sending
<1>2. post'[t] = NoPost /\ ~timer'[t]
  BY DEF Sending, Types
<1>3. ASSUME NEW u \in Tabs, u # t, Tab(u) PROVE post'[t] = post[t] /\ timer'[t] = timer[t]
  <2>1. CASE KeepAnswer(u)
    <3>1. PICK r \in Readers, list \in Kept : Drain(u, r, list, cookie)
      BY <2>1, Answers
    <3> QED BY <3>1, <1>3 DEF Drain, Types
  <2>2. CASE (\E r \in Readers : SignIn(u, r)) \/ Nudge(u) \/ TimerFires(u)
    <3>1. PICK o \in Sessions, list \in Kept, as \in Sessions : Drain(u, o, list, as)
      BY <2>2, Starting
    <3> QED BY <3>1, <1>3 DEF Drain, Types
  <2>3. CASE Reload(u) \/ \E r \in Readers : SwitchAccount(u, r)
    BY <2>3, <1>3 DEF Reload, SwitchAccount, LoadPage, Types
  <2>4. CASE Serve(u) \/ Sent(u) \/ Dropped(u) \/ Stopped(u) \/ Waits(u) \/ SignOut(u)
    BY <2>4, <1>3 DEF Serve, Sent, Dropped, Settle, Stopped, Waits, SignOut, Types
  <2> QED BY <1>3, <2>1, <2>2, <2>3, <2>4 DEF Tab
<1>4. ASSUME Environment PROVE post' = post /\ timer' = timer
  BY <1>4 DEF Environment, SessionEnds, RoomChanges, LateArrives, DeleteQuote, tabVars
<1>5. Tab(t)
  BY <1>1, <1>3, <1>4 DEF Next
<1>6. CASE KeepAnswer(t)
  <2>1. PICK r \in Readers, list \in Kept :
           /\ r = owner[t] /\ Increasing(list) /\ ToSet(list) = ToSet(read(t, r)) \cup {given[r] + 1}
           /\ Drain(t, r, list, cookie)
    BY <1>6, Answers
  <2>2. r \in Sessions /\ r # NoReader /\ cookie \in Sessions /\ list # <<>>
    <3>1. list # <<>>
      <4>1. given[r] + 1 \in ToSet(list)
        BY <2>1
      <4>2. ToSet(<<>>) = {}
        BY DEF ToSet
      <4> QED BY <4>1, <4>2
    <3> QED BY <3>1 DEF Types, Sessions
  <2>3. post'[t] = PostHead(r, list, cookie)
    BY <2>1, <2>2, <1>1, Drained
  <2> QED BY <2>1, <2>2, <2>3, QuietAfterPost
<1>7. CASE (\E r \in Readers : SignIn(t, r)) \/ Nudge(t) \/ TimerFires(t)
  <2>1. PICK o \in Sessions, list \in Kept, as \in Sessions :
           /\ o = owner'[t] /\ list = ReadNow(t, o) /\ Increasing(list) /\ as = cookie'
           /\ Drain(t, o, list, as)
    BY <1>7, Starting
  <2>2. post'[t] = PostHead(o, list, as)
    BY <2>1, <1>1, Drained
  <2>3. o = NoReader \/ list = <<>>
    BY <2>1, <2>2, QuietAfterPost
  <2>4. store' = store /\ mem' = mem
    BY <1>7 DEF SignIn, Nudge, TimerFires
  <2>5. CASE o # NoReader /\ list = <<>>
    <3>1. read(t, o) = <<>>
      BY <2>1, <2>5 DEF ReadNow
    <3>2. read(t, owner[t])' = <<>>
      BY <3>1, <2>1, <2>4 DEF read
    <3> QED BY <3>2
  <2> QED BY <2>1, <2>3, <2>5
<1>8. CASE Reload(t) \/ \E r \in Readers : SwitchAccount(t, r)
  <2>1. PICK ck \in Sessions : LoadPage(t, ck)
    BY <1>8 DEF Reload, SwitchAccount, Types, Sessions
  <2>2. PICK list \in Kept : /\ Increasing(list) /\ list = IF ck = NoReader THEN <<>> ELSE store[ck]
                             /\ post' = [post EXCEPT ![t] = PostHead(ck, list, ck)]
    BY <2>1, Loads
  <2>3. post'[t] = PostHead(ck, list, ck)
    BY <2>2, Posts1
  <2>4. ck = NoReader \/ list = <<>>
    BY <2>2, <2>3, QuietAfterPost
  <2>5. owner'[t] = ck /\ store' = store /\ mem'[t] = <<>>
    BY <2>1, Loads DEF LoadPage, Types
  <2>6. CASE ck # NoReader
    <3>1. store[ck] = <<>>
      BY <2>2, <2>4, <2>6
    <3>2. read(t, owner[t])' = <<>>
      BY <3>1, <2>5 DEF read
    <3> QED BY <3>2
  <2> QED BY <2>5, <2>6
<1>9. CASE Sent(t) \/ Dropped(t)
  <2>1. Settle(t) /\ post[t] # NoPost
    BY <1>9 DEF Sent, Dropped, NoPost
  <2>2. PICK r \in Readers, list \in Kept, next \in Kept :
             /\ write(t, r, list)
             /\ Increasing(next) /\ next = IF owner[t] = r THEN list ELSE ReadNow(t, owner[t])
             /\ post' = [post EXCEPT ![t] = PostHead(owner[t], next, cookie)]
    BY <2>1, Settles
  <2>3. PICK o \in Sessions, as \in Sessions : o = owner[t] /\ as = cookie
    BY DEF Types
  <2>4. owner'[t] = o
    BY <2>1, <2>3 DEF Settle
  <2>5. post'[t] = PostHead(o, next, as)
    BY <2>2, <2>3 DEF Types
  <2>6. o = NoReader \/ next = <<>>
    BY <2>2, <2>5, QuietAfterPost
  <2>7. CASE o # NoReader /\ next = <<>>
    <3>1. o \in Readers
      BY <2>7 DEF Sessions
    <3>2. read(t, o)' = next
      <4>1. CASE o = r
        BY <4>1, <2>2, <2>3, ReadsAfter
      <4>2. CASE o # r
        <5>1. next = read(t, o)
          BY <4>2, <2>2, <2>3, <2>7 DEF ReadNow
        <5> QED BY <5>1, <4>2, <3>1, <2>2, ReadsAfter
      <4> QED BY <4>1, <4>2
    <3>3. read(t, owner[t])' = read(t, o)'
      BY <2>4 DEF read
    <3> QED BY <3>2, <3>3, <2>7
  <2> QED BY <2>4, <2>6, <2>7
<1>10. CASE SignOut(t)
  BY <1>10 DEF SignOut, Types
<1>11. CASE Stopped(t)
  BY <1>11 DEF Stopped
<1>12. CASE Waits(t)
  BY <1>12, <1>2 DEF Waits, Types
<1>13. CASE Serve(t)
  <2>1. post'[t].at # "none"
    BY <1>13 DEF Serve, Types, Asked, NoPost
  <2> QED BY <2>1, <1>2 DEF NoPost
<1> QED BY <1>5, <1>6, <1>7, <1>8, <1>9, <1>10, <1>11, <1>12, <1>13 DEF Tab

\* A tab stops sending only with nothing left to send, its reader gone, or told that
\* it is not let in (answerQueue.js, drain and stopAnswerQueue).
THEOREM QuietMeansDone == Spec => QuietOnlyWhenDone
<1>1. ASSUME IInv, IInv', [Next]_vars
      PROVE  [\A t \in Tabs : Sending(t) /\ ~Sending(t)'
                => owner'[t] = NoReader \/ read(t, owner[t])' = <<>> \/ post[t].at = "out"]_vars
  <2>1. CASE Next
    BY <1>1, <2>1, QuietStep DEF IInv
  <2> QED BY <1>1, <2>1
<1> QED BY <1>1, Invariance, PTL DEF Spec, QuietOnlyWhenDone
=============================================================================
