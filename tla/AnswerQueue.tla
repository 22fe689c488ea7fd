---------------------------- MODULE AnswerQueue ----------------------------
(***************************************************************************)
(* The quiz's answers, kept in the browser until the server has them:      *)
(* src/web/frontend/src/answerQueue.js, with what it stands between.  On   *)
(* one side is App.jsx, which starts and stops it as readers come and go;  *)
(* on the other POST /review/answer (review_handlers.go), which takes an   *)
(* answer it has seen before for an echo.                                  *)
(*                                                                         *)
(* One browser: its tabs share the storage and the session cookie, and     *)
(* nothing else.  JavaScript runs to its next await, so one action is one  *)
(* turn of a tab: from an event, a reply or a timer to the next post.      *)
(***************************************************************************)
EXTENDS Naturals, Sequences, FiniteSets, SequencesExt

CONSTANTS
  Tabs,
  Readers,
  NoReader,
  Quizzed,      \* bound: the readers who answer; the others only sign in
  MaxAnswers,   \* bound: answers one of them gives
  Deletable,    \* bound: the answers whose quote may be deleted
  MaxLate       \* bound: requests given up on and still under way

ASSUME AnswerAssumption ==
  /\ NoReader \notin Readers
  /\ Quizzed \subseteq Readers
  /\ MaxAnswers \in Nat
  /\ Deletable \subseteq 1..MaxAnswers
  /\ MaxLate \in Nat

Pairs   == Readers \X (1..MaxAnswers)
Numbers == 1..MaxAnswers          \* an answer of a reader: the how-manyeth

VARIABLES
  \* The browser.
  store,     \* localStorage, one list a reader
  room,      \* whether a longer list can be written to it
  cookie,    \* whose session the browser's cookie is
  \* Each tab's module.
  owner,     \* owner
  mem,       \* memory: the lists this tab could not write
  post,      \* the request drain awaits, when sending
  timer,     \* timer
  \* The network and the server.
  late,      \* requests a tab gave up on that may still arrive
  taken,     \* item_recalls, by reader, in the order written
  gone,      \* answers about quotes deleted since
  \* History, read by properties only.
  given,     \* how many answers each reader gave
  overwritten,  \* answers another tab's list was written over
  apart,        \* readers with a list in memory while another tab wrote theirs
  crossed,      \* answers refused in another reader's session
  closed        \* answers a page took with it, in memory alone

tabVars    == <<owner, mem, post, timer>>
serverVars == <<late, taken, gone>>
lostVars   == <<overwritten, apart, crossed, closed>>
vars == <<store, room, cookie, tabVars, serverVars, given, lostVars>>

NoPost == [uid |-> NoReader, n |-> 0, as |-> NoReader, at |-> "none"]

(***************************************************************************)
(* read and write                                                          *)
(***************************************************************************)
readStored(t, r) == store[r]     \* mutant: the copy in memory is never looked at
read(t, r) == IF r \in DOMAIN mem[t] THEN mem[t][r] ELSE store[r]

\* localStorage refuses what would not fit; taking something out always fits.
Fits(r, list) == room \/ Len(list) <= Len(store[r])

\* What other tabs kept since, which a list from this tab's memory goes over.
Overwritten(t, r) == {<<r, n>> : n \in ToSet(store[r]) \ ToSet(read(t, r))}

write(t, r, list) ==
  /\ IF Fits(r, list)
     THEN /\ store' = [store EXCEPT ![r] = list]
          /\ mem' = [mem EXCEPT ![t] = [q \in DOMAIN @ \ {r} |-> @[q]]]
          /\ overwritten' = overwritten \cup Overwritten(t, r)
     ELSE /\ mem' = [mem EXCEPT ![t] =
                       [q \in DOMAIN @ \cup {r} |-> IF q = r THEN list ELSE @[q]]]
          /\ UNCHANGED <<store, overwritten>>
  /\ apart' = apart \cup ({r} \cap UNION {DOMAIN mem[u] : u \in Tabs \ {t}})

\* filter: an answer is in a list once.
Without(list, n) == RemoveFirst(list, n)

(***************************************************************************)
(* drain                                                                   *)
(***************************************************************************)
\* The next turn of its loop, over the list `list` of the owner o: post the first
\* kept answer, with the cookie of the moment.
PostLast(o, list, as) ==            \* mutant: the newest first
  IF o = NoReader \/ list = <<>>
  THEN NoPost
  ELSE [uid |-> o, n |-> Last(list), as |-> as, at |-> "sent"]
PostHead(o, list, as) ==
  IF o = NoReader \/ list = <<>>
  THEN NoPost
  ELSE [uid |-> o, n |-> Head(list), as |-> as, at |-> "sent"]

\* drain() called from outside the loop: nothing while one is under way.
Drain(t, o, list, as) ==
  IF post[t] # NoPost \/ o = NoReader
  THEN UNCHANGED <<post, timer>>
  ELSE /\ post' = [post EXCEPT ![t] = PostHead(o, list, as)]
       /\ timer' = [timer EXCEPT ![t] = FALSE]
     
\* A request the tab no longer waits for is lost, or arrives later; in another
\* reader's session, or in none, that is the same.
GivenUp(t) ==
  \/ late' = late
  \/ /\ post[t].at = "sent" /\ post[t].as = post[t].uid
     /\ Cardinality(late) < MaxLate
     /\ late' = late \cup {post[t]}

ReadNow(t, o) == IF o = NoReader THEN <<>> ELSE read(t, o)

(***************************************************************************)
(* What the reader does.                                                   *)
(***************************************************************************)
\* keepAnswer, with a reader signed in.
KeepAnswer(t) ==
  LET r == owner[t] IN
  /\ r \in Quizzed
  /\ given[r] < MaxAnswers
  /\ given' = [given EXCEPT ![r] = @ + 1]
  /\ LET list == Append(read(t, r), given[r] + 1) IN
       /\ write(t, r, list)
       /\ Drain(t, r, list, cookie)
  /\ UNCHANGED <<room, cookie, owner, serverVars, crossed, closed>>

\* The login form: the cookie is the new session's for every tab, and App starts
\* the queue of the tab that asked.
SignIn(t, r) ==
  /\ owner[t] = NoReader
  /\ cookie' = r
  /\ owner' = [owner EXCEPT ![t] = r]
  /\ Drain(t, r, read(t, r), r)
  /\ UNCHANGED <<store, room, mem, serverVars, given, lostVars>>

\* A session ends: logged out (in whatever tab), expired, revoked.
SessionEnds ==
  /\ cookie # NoReader
  /\ cookie' = NoReader
  /\ UNCHANGED <<store, room, tabVars, serverVars, given, lostVars>>

\* signOut's onLogout, after the logout was answered, well or not: stopAnswerQueue.
SignOut(t) ==
  /\ owner[t] # NoReader
  /\ owner' = [owner EXCEPT ![t] = NoReader]
  /\ timer' = [timer EXCEPT ![t] = FALSE]
  /\ UNCHANGED <<store, room, cookie, mem, post, serverVars, given, lostVars>>

\* The document is loaded again, with session ck: the module's variables start
\* anew, a request under way is nobody's, and /auth/me starts the queue.
LoadPage(t, ck) ==
  /\ cookie' = ck
  /\ owner' = [owner EXCEPT ![t] = ck]
  /\ mem' = [mem EXCEPT ![t] = <<>>]
  /\ closed' = closed \cup
       {p \in Pairs : p[1] \in DOMAIN mem[t]
                       /\ p[2] \in ToSet(mem[t][p[1]]) \ ToSet(store[p[1]])}
  /\ GivenUp(t)
  /\ post' = [post EXCEPT ![t] = PostHead(ck, IF ck = NoReader THEN <<>> ELSE store[ck], ck)]
  /\ timer' = [timer EXCEPT ![t] = FALSE]
  /\ UNCHANGED <<store, room, taken, gone, given, overwritten, apart, crossed>>

Reload(t) == LoadPage(t, cookie)

\* Account.jsx's Switch account: sign in as r over the session there is, and load
\* the page again.
SwitchAccount(t, r) ==
  /\ owner[t] # NoReader /\ owner[t] # r
  /\ LoadPage(t, r)

\* Back online, or back to the tab.
Nudge(t) ==
  /\ Drain(t, owner[t], ReadNow(t, owner[t]), cookie)
  /\ UNCHANGED <<store, room, cookie, owner, mem, serverVars, given, lostVars>>

TimerFires(t) ==
  /\ timer[t]
  /\ Nudge(t)

\* Other sites and other keys take the browser's room, and give it back.
RoomChanges ==
  /\ room' = ~room
  /\ UNCHANGED <<store, cookie, tabVars, serverVars, given, lostVars>>

(***************************************************************************)
(* POST /review/answer                                                     *)
(***************************************************************************)
\* ownsItem refuses what is another reader's, or no longer there, alike.
Refused(m) == m.as # m.uid \/ m.n \in gone[m.uid]

\* The id in the log makes a second arrival an echo.
NeverSeen(m) == FALSE               \* mutant: the log is not looked at
Seen(m) == m.n \in ToSet(taken[m.uid])

Take(m) ==
  IF Refused(m) \/ Seen(m)
  THEN UNCHANGED taken
  ELSE taken' = [taken EXCEPT ![m.uid] = Append(@, m.n)]

\* The session a request came with has ended before it arrived.
NotLetIn(m) == m.as = NoReader \/ m.as # cookie

Serve(t) ==
  /\ post[t].at = "sent"
  /\ \/ /\ NotLetIn(post[t])
        /\ post' = [post EXCEPT ![t].at = "out"]
        /\ UNCHANGED taken
     \/ /\ post[t].as # NoReader
        /\ Take(post[t])
        /\ post' = [post EXCEPT ![t].at = IF Refused(post[t]) THEN "refused" ELSE "ok"]
  /\ UNCHANGED <<store, room, cookie, owner, mem, timer, late, gone, given, lostVars>>

LateArrives ==
  \E m \in late :
    /\ late' = late \ {m}
    /\ Take(m) \/ UNCHANGED taken
    /\ UNCHANGED <<store, room, cookie, tabVars, gone, given, lostVars>>

DeleteQuote(r, n) ==
  /\ n \notin gone[r]
  /\ gone' = [gone EXCEPT ![r] = @ \cup {n}]
  /\ UNCHANGED <<store, room, cookie, tabVars, late, taken, given, lostVars>>

(***************************************************************************)
(* drain, after its await.                                                 *)
(***************************************************************************)
\* Taken, or refused for good: the answer leaves the list it was read from, and
\* the loop goes on with whoever is the reader now.
Settle(t) ==
  LET uid  == post[t].uid
      list == Without(read(t, uid), post[t].n)
      o    == owner[t]
  IN /\ write(t, uid, list)
     /\ post' = [post EXCEPT ![t] =
                   PostHead(o, IF o = uid THEN list ELSE ReadNow(t, o), cookie)]
     /\ UNCHANGED <<room, cookie, owner, timer, serverVars, given, closed>>

Sent(t) ==
  /\ post[t].at = "ok"
  /\ Settle(t)
  /\ UNCHANGED crossed

Dropped(t) ==
  /\ post[t].at = "refused"
  /\ Settle(t)
  /\ crossed' = IF post[t].as = post[t].uid THEN crossed
                ELSE crossed \cup {<<post[t].uid, post[t].n>>}

\* 401 or 403: no clock, the next event sends it.
Stopped(t) ==
  /\ post[t].at = "out"
  /\ post' = [post EXCEPT ![t] = NoPost]
  /\ UNCHANGED <<store, room, cookie, owner, mem, timer, serverVars, given, lostVars>>

WaitsForEvents(t) ==                \* mutant: a failure sets no clock
  /\ post[t] # NoPost
  /\ GivenUp(t)
  /\ post' = [post EXCEPT ![t] = NoPost]
  /\ UNCHANGED <<store, room, cookie, owner, mem, timer, taken, gone, given, lostVars>>

\* No reply in time, a reply lost, a 5xx, a 408, a 429.
Waits(t) ==
  /\ post[t] # NoPost
  /\ GivenUp(t)
  /\ post' = [post EXCEPT ![t] = NoPost]
  /\ timer' = [timer EXCEPT ![t] = TRUE]
  /\ UNCHANGED <<store, room, cookie, owner, mem, taken, gone, given, lostVars>>

(***************************************************************************)
(* Specification.                                                          *)
(***************************************************************************)
Init ==
  /\ store = [r \in Readers |-> <<>>]
  /\ room = TRUE
  /\ cookie = NoReader
  /\ owner = [t \in Tabs |-> NoReader]
  /\ mem = [t \in Tabs |-> <<>>]
  /\ post = [t \in Tabs |-> NoPost]
  /\ timer = [t \in Tabs |-> FALSE]
  /\ late = {}
  /\ taken = [r \in Readers |-> <<>>]
  /\ gone = [r \in Readers |-> {}]
  /\ given = [r \in Readers |-> 0]
  /\ overwritten = {} /\ apart = {} /\ crossed = {} /\ closed = {}

Environment ==
  \/ SessionEnds \/ RoomChanges \/ LateArrives
  \/ \E r \in Quizzed : \E n \in Deletable : DeleteQuote(r, n)

Tab(t) ==
  \/ KeepAnswer(t) \/ SignOut(t) \/ Reload(t) \/ Nudge(t) \/ TimerFires(t)
  \/ \E r \in Readers : SignIn(t, r) \/ SwitchAccount(t, r)
  \/ Serve(t) \/ Sent(t) \/ Dropped(t) \/ Stopped(t) \/ Waits(t)

Next == Environment \/ \E t \in Tabs : Tab(t)

Spec == Init /\ [][Next]_vars

(***************************************************************************)
(* Properties.                                                             *)
(***************************************************************************)
Lists  == UNION {[1..k -> Numbers] : k \in 0..MaxAnswers}
Posts  == [uid : Readers \cup {NoReader}, n : Numbers \cup {0},
           as : Readers \cup {NoReader},
           at : {"none", "sent", "ok", "refused", "out"}]

TypeOK ==
  /\ store \in [Readers -> Lists]
  /\ room \in BOOLEAN
  /\ cookie \in Readers \cup {NoReader}
  /\ owner \in [Tabs -> Readers \cup {NoReader}]
  /\ \A t \in Tabs : DOMAIN mem[t] \subseteq Readers
                       /\ \A r \in DOMAIN mem[t] : mem[t][r] \in Lists
  /\ post \in [Tabs -> Posts]
  /\ timer \in [Tabs -> BOOLEAN]
  /\ late \subseteq Posts
  /\ taken \in [Readers -> Lists]
  /\ gone \in [Readers -> SUBSET Numbers]
  /\ given \in [Readers -> 0..MaxAnswers]
  /\ overwritten \cup crossed \cup closed \subseteq Pairs
  /\ apart \subseteq Readers

KeptBy(r) == UNION {ToSet(read(t, r)) : t \in Tabs}

\* An answer given is kept by a tab until the server has it or has lost its quote.
\* It leaves otherwise by three doors only: a tab writes its list over another's, a
\* tab posts with the cookie of somebody who signed in elsewhere, a page is closed
\* whose storage could not be written.
NothingElseLost ==
  \A r \in Readers : \A n \in 1..given[r] :
    \/ n \in KeptBy(r) \cup ToSet(taken[r]) \cup gone[r]
    \/ <<r, n>> \in overwritten \cup crossed \cup closed

\* However often it is sent, from however many tabs and however late, an answer
\* counts once.
CountsOnce == \A r \in Readers : IsInjective(taken[r])

\* The server has a reader's answers in the order they were given, whichever tab
\* sent them; only lists that went apart, or an answer that left by one of those
\* doors while a request for it was under way, could change it.
TakenInOrder ==
  \A r \in Readers \ apart :
    \A i, j \in DOMAIN taken[r] :
      i < j /\ <<r, taken[r][j]>> \notin crossed \cup closed => taken[r][i] < taken[r][j]

\* Sent however often, the server's review sees each answer once, and in order.
OnceInOrder == CountsOnce /\ TakenInOrder

\* A tab's sender goes quiet only with nothing left to send, with its reader gone, or
\* told that it is not let in: whatever replies, failures and readers come meanwhile.
Sending(t) == post[t] # NoPost \/ timer[t]
QuietOnlyWhenDone ==
  [][\A t \in Tabs : Sending(t) /\ ~Sending(t)'
       => owner'[t] = NoReader \/ read(t, owner[t])' = <<>> \/ post[t].at = "out"]_vars

(***************************************************************************)
(* What the code's comments say of it and the code does not do.            *)
(***************************************************************************)
\* "Another reader's kept answers wait for them": a tab left open while another tab
\* switches the account posts them as the other reader, is told that there is no
\* such quote, and drops them.
OthersAnswersWait == crossed = {}
=============================================================================
