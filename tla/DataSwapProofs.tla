--------------------------- MODULE DataSwapProofs ---------------------------
(***************************************************************************)
(* What holds of DataSwap for every number of requests, admins, libraries, *)
(* copies set aside and downloads: whatever rename fails, and wherever the *)
(* process dies, nothing a swap took aside is lost.                        *)
(***************************************************************************)
EXTENDS DataSwap, FiniteSetTheorems, TLAPS

(***************************************************************************)
(* The inductive invariant.                                                *)
(***************************************************************************)
\* Where the request that holds backupMu is: at most one is past asking.
Phase   == IF mu \in Requests THEN req[mu].pc ELSE "free"
Doing   == IF mu \in Requests THEN req[mu].op ELSE "none"     \* and what it does

BeforeSwap == {"extract", "guard", "swap"}
Moving     == {"aside", "in", "failed", "undo", "clear", "back"}
Answering  == {"intact", "restored"}
Held       == BeforeSwap \cup Moving \cup Answering \cup {"delete"}
Late       == Held \ {"extract", "guard"}    \* where it has the note it will spend
PCs        == {"idle", "asked"} \cup Held

Covered == [no : 0 .. MaxDownloads, of : 0 .. MaxLib, crossed : BOOLEAN]
Request == [op : {"none", "restore", "onboard", "reset"}, who : Admins \cup {0}, pc : PCs,
            note : Covered]
Senders == {a \in Admins : sending[a] # NoCopy}

\* TypeOK, and of what is in each directory: only pictures are ever nobody's.
Trees == {dir \in Dirs : dir["db"] # Stray /\ dir["wal"] # Stray}
FileTypes ==
  /\ live \in Trees /\ pre \in Trees /\ stage \in Trees /\ had \in Trees
  /\ kept \subseteq Dirs /\ junk \in Dirs
  /\ up \in BOOLEAN /\ pool \in Libs \cup {Closed, Broken}
  /\ list \subseteq Entries /\ asideDone \in BOOLEAN
  /\ owed \subseteq Entries \X (1 .. Stray)
  /\ peopled \subseteq Libs /\ signedOn \in BOOLEAN
RequestTypes ==
  /\ mu \in Requests \cup {NoReq} /\ req \in [Requests -> Request]
Sending == [of : 0 .. MaxLib, crossed : BOOLEAN]
Note    == [uid : Admins \cup {0}, no : 0 .. MaxDownloads, of : 0 .. MaxLib,
            crossed : BOOLEAN]
CopyTypes ==
  /\ copy \in [Admins -> 0 .. MaxLib]
  /\ sending \in [Admins -> Sending]
  /\ note \in Note
  /\ downloads \in 0 .. MaxDownloads
  /\ spent \in [1 .. MaxDownloads -> Nat]
Types == FileTypes /\ RequestTypes /\ CopyTypes

\* backupMu has one holder, who is past asking, and the dead hold nothing.
OneHolder ==
  /\ \A r \in Requests : req[r].pc \in Held <=> mu = r
  /\ ~up => mu = NoReq
  /\ \A r \in Requests : req[r].op \in {"restore", "reset"} => req[r].who # 0
  /\ \A r \in Requests : req[r].pc = "asked" => req[r].op # "none"
  /\ mu \in Requests => Doing # "none"
  /\ Doing = "reset" => Phase \in {"guard", "swap", "delete"}
  /\ Doing # "reset" => Phase # "delete"

(***************************************************************************)
(* The files.                                                              *)
(***************************************************************************)
\* A database is beside its own log or none, wherever it is cut off; an open one is
\* beside its own.
OwnLog ==
  /\ live["db"] # None => live["wal"] \in {None, live["db"]}
  /\ NoForeignLog

Quiet == Phase \in {"free"} \cup BeforeSwap

\* Before a swap there is nothing of it; the archive waits in its directory.
AtRest ==
  /\ Quiet => pre = NoFiles /\ had = NoFiles
  /\ Phase = "swap" => pool \in Libs
  /\ Phase \in {"guard", "swap"} /\ Doing # "reset" =>
       /\ stage["db"] \in Libs /\ stage["db"] # pool
       /\ stage["media"] = stage["db"] /\ stage["wal"] = None
  /\ Phase \in Moving \cup {"delete"} => pool \in {Closed} \cup (IF Phase = "undo" THEN {live["db"]} ELSE {})
  /\ ~Quiet => had["db"] \in Libs /\ had["wal"] \in {None, had["db"]}

\* An entry is where it was, or aside and out of the way; a picture may have been
\* written in its place.
Aside(e) == pre[e] = had[e] /\ live[e] \in (IF e = "media" THEN {None, Stray} ELSE {None})
Left(e)  == pre[e] = None /\ live[e] = had[e]

Moved ==
  /\ Phase = "aside" =>
       /\ ~asideDone
       /\ \A e \in list : had[e] # None /\ Left(e)
       /\ \A e \in Entries \ list : Aside(e)
       /\ stage["db"] \in Libs /\ stage["db"] # had["db"]
       /\ stage["media"] = stage["db"] /\ stage["wal"] = None
  /\ Phase = "in" =>
       /\ asideDone /\ pre = had /\ live["wal"] = None /\ stage["wal"] = None /\ "wal" \notin list
       /\ \E lib \in Libs \ {had["db"]} :
            \A e \in {"media", "db"} : IF e \in list THEN stage[e] = lib ELSE live[e] = lib
       /\ "db" \in list => live["db"] = None
  /\ Phase \in {"failed", "undo"} =>
       IF asideDone THEN pre = had
       ELSE /\ \A e \in {"media", "db"} : Left(e) \/ Aside(e)
            /\ live["wal"] \in {None, had["db"]} /\ pre["wal"] \in {None, had["wal"]}
            /\ Phase = "failed" => Left("wal") \/ Aside("wal")
  /\ Phase = "clear" =>
       /\ pre = had
       /\ \A e \in {"db", "wal"} : e \notin list => live[e] = None
       /\ "media" \notin list => live["media"] \in {None, Stray}
  /\ Phase = "back" =>
       /\ \A e \in list : pre[e] = had[e] /\ had[e] # None
       /\ \A e \in Entries \ list : pre[e] = None
       /\ live["wal"] \in {None, had["db"]}
       /\ live["db"] = IF "db" \in list THEN None ELSE had["db"]
       /\ IF "media" \in list \/ had["media"] = None THEN live["media"] \in {None, Stray}
          ELSE live["media"] = had["media"]
  /\ Phase = "delete" =>
       /\ pre = NoFiles
       /\ live["db"] \in {None, had["db"]}
       /\ live["db"] = None => live["wal"] = None
       /\ live["wal"] \in {None, had["db"]}

\* What is owed is kept from an earlier swap, or is of what this one found; a log is
\* owed while a swap is under way only, and until it is replayed.
Owed ==
  /\ \A dir \in kept : dir["wal"] = None
  /\ Phase \notin Moving \cup {"restored"} => \A x \in owed : x[1] # "wal"
  /\ Phase \in Moving \cup Answering =>
       \A x \in owed : had[x[1]] = x[2] \/ \E dir \in kept : dir[x[1]] = x[2]
  /\ Phase \in {"failed", "undo", "back"} /\ <<"wal", had["wal"]>> \in owed =>
       live["wal"] = had["wal"] \/ pre["wal"] = had["wal"]
  /\ Phase = "undo" /\ pool # Closed /\ ~asideDone /\ <<"wal", had["wal"]>> \in owed =>
       pre["wal"] = had["wal"]
  /\ OldIsKept

\* What AnswersAreTrue says, of the request that is answering.
Answered ==
  /\ Phase = "intact" =>
       /\ pool = had["db"] /\ live["db"] = had["db"] /\ pre = NoFiles
       /\ live["media"] \in IF had["media"] = None THEN {None, Stray} ELSE {had["media"]}
  /\ Phase = "restored" =>
       /\ pool \in Libs \ {had["db"]} /\ live = [e \in Entries |-> pool]
       /\ pre = had

Files == OwnLog /\ AtRest /\ Moved /\ Owed /\ Answered

(***************************************************************************)
(* The safety copy and the accounts.                                       *)
(***************************************************************************)
\* The library the admins have: the open one, or the one a swap has closed.
Current == IF had["db"] # None THEN had["db"] ELSE pool
Covers(of, crossed) == pool = Broken \/ of = Current \/ crossed

Copies ==
  /\ \A a \in Admins : copy[a] # None => Covers(copy[a], FALSE)
  /\ \A a \in Senders : Covers(sending[a].of, sending[a].crossed)
  /\ note.no # 0 => Covers(note.of, note.crossed)
  /\ mu \in Requests /\ req[mu].note.no # 0 => Covers(req[mu].note.of, req[mu].note.crossed)
  /\ Phase \in Late => pool # Broken
  /\ ~up => /\ pool = Closed /\ note.no = 0 /\ Senders = {}
            /\ \A a \in Admins : copy[a] = None

\* A note has a number of its own, and one that has been spent is nobody's.
Numbers ==
  /\ downloads + Cardinality(Senders) <= MaxDownloads
  /\ note.no <= downloads /\ (note.uid # 0 => note.no # 0)
  /\ \A r \in Requests : req[r].note.no <= downloads
  /\ \A r \in Requests : req[r].note.no # 0 => mu = r /\ spent[req[r].note.no] = 0
  /\ note.no # 0 => spent[note.no] = 0
  /\ \A n \in 1 .. MaxDownloads : spent[n] <= 1 /\ (n > downloads => spent[n] = 0)
  /\ Phase \in Late /\ Doing # "onboard" => req[mu].note.no # 0

\* Nobody has an account in what an onboarding restore is about to replace.
Onboarding ==
  Phase \in Late /\ Doing = "onboard" /\ ~signedOn
    => Current \notin peopled

IInv == Types /\ OneHolder /\ Files /\ Copies /\ Numbers /\ Onboarding

USE DataSwapAssumption DEF None, Libs, Stray, Entries, Closed, Broken

(***************************************************************************)
(* The types.                                                              *)
(***************************************************************************)
LEMMA Constants ==
  /\ NoFiles \in Trees /\ NoFiles \in Dirs
  /\ Idle \in Request
  /\ NoNote \in Note
  /\ NoCopy \in Sending
BY DEF NoFiles, Trees, Dirs, Idle, Request, NoNote, Note, NoCopy, Sending, PCs, Covered

\* A library made anew is one that nothing is of.
LEMMA NewLibIsNew == ASSUME Unused # {} PROVE NewLib \in Libs /\ NewLib \notin InUse
BY DEF Unused, NewLib

\* What is in a directory, and a directory in which one entry is replaced.
LEMMA TreeEntries == ASSUME NEW dir \in Trees
                     PROVE  /\ dir \in Dirs /\ dir = [e \in Entries |-> dir[e]]
                            /\ dir["media"] \in 0 .. Stray
                            /\ dir["db"] \in 0 .. MaxLib /\ dir["wal"] \in 0 .. MaxLib
BY DEF Trees, Dirs

LEMMA TreeChange == ASSUME NEW dir \in Trees, NEW e \in Entries, NEW lib \in 0 .. Stray,
                           e = "media" \/ lib # Stray
                    PROVE  [dir EXCEPT ![e] = lib] \in Trees
BY DEF Trees, Dirs

\* Of a directory whose log may have been folded back.
LEMMA FoldedType == ASSUME NEW dir \in Trees, NEW lib, NEW folded \in Folded(dir, lib)
                    PROVE  /\ folded \in Trees
                           /\ folded = dir \/ /\ dir["wal"] = lib
                                              /\ folded = [dir EXCEPT !["wal"] = None]
BY TreeChange DEF Folded

LEMMA GoesType == ASSUME req \in [Requests -> Request], NEW r \in Requests, NEW l \in PCs,
                         Goes(r, l)
                  PROVE  req' \in [Requests -> Request]
BY DEF Goes, Request

LEMMA EndsType == ASSUME req \in [Requests -> Request], NEW r \in Requests, Ends(r)
                  PROVE  /\ req' \in [Requests -> Request] /\ mu' = NoReq
                         /\ stage' = NoFiles /\ junk' = NoFiles /\ list' = {}
                         /\ signedOn' = FALSE
BY Constants DEF Ends

\* openPools, when it succeeds and when it does not.
LEMMA ReopenedCases ==
  ASSUME NEW ok \in BOOLEAN, Reopened(ok)
  PROVE  \/ /\ live["db"] # None /\ pool' = live["db"]
            /\ live' = [live EXCEPT !["wal"] = IF live["wal"] = None THEN live["db"]
                                                                ELSE live["wal"]]
            /\ owed' = owed \ {<<"wal", live["wal"]>>}
         \/ UNCHANGED <<pool, live, owed>>
<1>1. CASE ok
  BY <1>1 DEF Reopened
<1>2. CASE ~ok
  BY <1>2 DEF Reopened
<1> QED
  BY <1>1, <1>2

\* Opening the pools leaves a directory, and a library.
LEMMA ReopenedType == ASSUME FileTypes, NEW ok \in BOOLEAN, Reopened(ok)
                      PROVE  /\ live' \in Trees
                             /\ pool' \in Libs \cup {Closed, Broken}
                             /\ owed' \subseteq owed
<1>1. live["db"] \in 0 .. MaxLib /\ live["wal"] \in 0 .. MaxLib /\ live \in Trees
  BY TreeEntries DEF FileTypes
<1>2. CASE UNCHANGED <<pool, live, owed>>
  BY <1>2 DEF FileTypes
<1>3. CASE /\ live["db"] # None /\ pool' = live["db"]
           /\ live' = [live EXCEPT !["wal"] = IF live["wal"] = None THEN live["db"]
                                                               ELSE live["wal"]]
           /\ owed' = owed \ {<<"wal", live["wal"]>>}
  <2>1. live' \in Trees
    <3> DEFINE wal == IF live["wal"] = None THEN live["db"] ELSE live["wal"]
    <3>1. wal \in 0 .. MaxLib /\ wal \in 0 .. Stray /\ wal # Stray
      BY <1>1
    <3>2. live' = [live EXCEPT !["wal"] = wal]
      BY <1>3
    <3> HIDE DEF wal
    <3> QED
      BY <1>1, <3>1, <3>2, TreeChange
  <2>2. pool' \in Libs
    BY <1>1, <1>3
  <2>3. owed' \subseteq owed
    BY <1>3
  <2> QED
    BY <2>1, <2>2, <2>3
<1> QED
  BY <1>2, <1>3, ReopenedCases

(***************************************************************************)
(* The lock.                                                               *)
(***************************************************************************)
\* A request past asking is the one that holds backupMu.
LEMMA HolderIs == ASSUME OneHolder, NEW r \in Requests, req[r].pc \in Held
                  PROVE  mu = r /\ Phase = req[r].pc /\ Doing = req[r].op
BY DEF OneHolder, Phase, Doing

\* The holder goes on to its next step.
LEMMA HolderGoes ==
  ASSUME RequestTypes, OneHolder, NEW r \in Requests, req[r].pc \in Held,
         NEW l \in Held, Goes(r, l), mu' = mu
  PROVE  /\ Phase' = l /\ Doing' = Doing /\ mu' = r
         /\ req' \in [Requests -> Request]
         /\ \A q \in Requests : req'[q].pc \in Held <=> mu' = q
         /\ \A q \in Requests : /\ req'[q].op = req[q].op /\ req'[q].who = req[q].who
                                /\ req'[q].note = req[q].note
                                /\ req'[q].pc = "asked" => req[q].pc = "asked"
<1>1. mu = r
  BY HolderIs
<1>2. req' \in [Requests -> Request]
  BY GoesType DEF RequestTypes, PCs
<1>3. \A q \in Requests : /\ req'[q].pc = IF q = r THEN l ELSE req[q].pc
                          /\ req'[q].op = req[q].op /\ req'[q].who = req[q].who
                          /\ req'[q].note = req[q].note
  BY DEF RequestTypes, Request, Goes
<1>4. "asked" \notin Held
  BY DEF Held, BeforeSwap, Moving, Answering
<1> QED
  BY <1>1, <1>2, <1>3, <1>4 DEF OneHolder, Phase, Doing

\* The holder answers, and lets go of backupMu.
LEMMA HolderEnds ==
  ASSUME RequestTypes, OneHolder, NEW r \in Requests, req[r].pc \in Held, Ends(r)
  PROVE  /\ Phase' = "free" /\ Doing' = "none"
         /\ \A q \in Requests : req'[q].pc \notin Held
         /\ \A q \in Requests : req'[q] = IF q = r THEN Idle ELSE req[q]
<1>1. mu = r /\ mu' = NoReq /\ mu' \notin Requests
  BY HolderIs DEF Ends
<1>2. \A q \in Requests : req'[q] = IF q = r THEN Idle ELSE req[q]
  BY DEF RequestTypes, Ends
<1>3. Idle.pc \notin Held
  BY DEF Idle, Held, BeforeSwap, Moving, Answering
<1> QED
  BY <1>1, <1>2, <1>3 DEF OneHolder, Phase, Doing

\* What is done beside the swap: it leaves the files and the holder alone.
Bystander ==
  \/ \E a \in Admins : Seal(a) \/ Take(a) \/ Sent(a) \/ CutShort(a)
  \/ SignUp \/ SignOn \/ NoteExpires
  \/ \E r \in Requests : \/ Ask(r, "onboard", 0)
                         \/ \E op \in {"restore", "reset"}, who \in Admins : Ask(r, op, who)
                         \/ Busy(r)

\* A request that has no lock yet changes itself, and stays without.
LEMMA Waiting ==
  ASSUME RequestTypes, NEW r \in Requests,
         \/ Ask(r, "onboard", 0)
         \/ \E op \in {"restore", "reset"}, who \in Admins : Ask(r, op, who)
         \/ Busy(r)
  PROVE  \E x \in Request :
           /\ req' = [req EXCEPT ![r] = x] /\ x.pc \notin Held /\ req[r].pc \notin Held
           /\ x.op \in {"restore", "reset"} => x.who # 0
           /\ x.pc = "asked" => x.op # "none"
           /\ x.note = Idle.note
<1> USE Constants DEF Request, Idle, PCs, Held, BeforeSwap, Moving, Answering
<1>1. CASE Busy(r)
  BY <1>1 DEF Busy, At
<1>2. ASSUME NEW op \in {"onboard", "restore", "reset"}, NEW who \in Admins \cup {0},
             op # "onboard" => who # 0, Ask(r, op, who)
      PROVE  \E x \in Request :
               /\ req' = [req EXCEPT ![r] = x] /\ x.pc \notin Held /\ req[r].pc \notin Held
               /\ x.op \in {"restore", "reset"} => x.who # 0
               /\ x.pc = "asked" => x.op # "none"
               /\ x.note = Idle.note
  <2> DEFINE x == [Idle EXCEPT !.op = op, !.who = who, !.pc = "asked"]
  <2>1. req' = [req EXCEPT ![r] = x] /\ req[r].pc \notin Held
    BY <1>2 DEF Ask
  <2>2. x \in Request /\ x.op = op /\ x.who = who /\ x.pc = "asked" /\ x.note = Idle.note
    OBVIOUS
  <2> HIDE DEF x
  <2> QED
    BY <1>2, <2>1, <2>2
<1>3. \A who \in Admins : who # 0
  OBVIOUS
<1> QED
  BY <1>1, <1>2, <1>3

LEMMA Bystands ==
  ASSUME RequestTypes, OneHolder, Bystander
  PROVE  /\ UNCHANGED <<fileVars, up, pool, mu, loopVars, owed, spent>>
         /\ Phase' = Phase /\ Doing' = Doing
         /\ OneHolder' /\ RequestTypes'
         /\ \A q \in Requests : req'[q].note = req[q].note \/ req'[q].note = Idle.note
         /\ mu \in Requests => req'[mu] = req[mu]
<1>1. UNCHANGED <<fileVars, up, pool, mu, loopVars, owed, spent>>
  BY DEF Bystander, Seal, Take, Sent, CutShort, SignUp, SignOn, NoteExpires, Ask, Busy
<1>2. CASE UNCHANGED req
  BY <1>1, <1>2 DEF OneHolder, RequestTypes, Phase, Doing
<1>3. CASE \E r \in Requests :
             \/ Ask(r, "onboard", 0)
             \/ \E op \in {"restore", "reset"}, who \in Admins : Ask(r, op, who)
             \/ Busy(r)
  <2>1. PICK r \in Requests, x \in Request :
           /\ req' = [req EXCEPT ![r] = x] /\ x.pc \notin Held /\ req[r].pc \notin Held
           /\ x.op \in {"restore", "reset"} => x.who # 0
           /\ x.pc = "asked" => x.op # "none"
           /\ x.note = Idle.note
    BY <1>3, Waiting
  <2>2. mu # r
    BY <2>1 DEF OneHolder
  <2>3. \A q \in Requests : req'[q] = IF q = r THEN x ELSE req[q]
    BY <2>1 DEF RequestTypes
  <2>4. RequestTypes'
    BY <1>1, <2>1 DEF RequestTypes
  <2>5. Phase' = Phase /\ Doing' = Doing
    BY <1>1, <2>2, <2>3 DEF Phase, Doing
  <2>6. OneHolder'
    BY <1>1, <2>1, <2>2, <2>3, <2>5 DEF OneHolder
  <2> QED
    BY <1>1, <2>1, <2>2, <2>3, <2>4, <2>5, <2>6
<1>4. UNCHANGED req \/ \E r \in Requests :
             \/ Ask(r, "onboard", 0)
             \/ \E op \in {"restore", "reset"}, who \in Admins : Ask(r, op, who)
             \/ Busy(r)
  BY DEF Bystander, Seal, Take, Sent, CutShort, SignUp, SignOn, NoteExpires
<1> QED
  BY <1>1, <1>2, <1>3, <1>4

\* Lock takes backupMu.
LEMMA LockTakes ==
  ASSUME RequestTypes, OneHolder, NEW r \in Requests, Lock(r)
  PROVE  /\ Phase = "free" /\ mu' = r
         /\ Phase' = IF req[r].op = "reset" THEN "guard" ELSE "extract"
         /\ Doing' = req[r].op
         /\ OneHolder' /\ RequestTypes'
         /\ \A q \in Requests : req'[q].note = req[q].note /\ req'[q].who = req[q].who
<1> DEFINE l == IF req[r].op = "reset" THEN "guard" ELSE "extract"
<1>1. mu = NoReq /\ mu' = r /\ up' = up /\ up /\ Goes(r, l) /\ req[r].pc = "asked"
  BY DEF Lock, Lockable, At
<1>2. \A q \in Requests : /\ req'[q].pc = IF q = r THEN l ELSE req[q].pc
                          /\ req'[q].op = req[q].op /\ req'[q].who = req[q].who
                          /\ req'[q].note = req[q].note
  BY <1>1 DEF RequestTypes, Request, Goes
<1>3. RequestTypes'
  <2>1. l \in PCs
    BY DEF PCs, Held, BeforeSwap
  <2> QED
    BY <1>1, <2>1, GoesType DEF RequestTypes
<1>4. Phase = "free" /\ Phase' = l /\ Doing' = req[r].op /\ req[r].op # "none"
  BY <1>1, <1>2 DEF Phase, Doing, OneHolder
<1>5. l \in Held /\ l # "delete" /\ l # "asked"
  BY DEF Held, BeforeSwap
<1>6. \A q \in Requests : req'[q].pc \in Held <=> mu' = q
  BY <1>1, <1>2, <1>5 DEF OneHolder
<1> QED
  BY <1>1, <1>2, <1>3, <1>4, <1>5, <1>6 DEF OneHolder

\* The process ends, and nobody holds anything.
LEMMA DyingFrees ==
  ASSUME RequestTypes, Dies
  PROVE  Phase' = "free" /\ Doing' = "none" /\ OneHolder' /\ RequestTypes'
<1>1. mu' = NoReq /\ mu' \notin Requests /\ ~up'
  BY DEF Dies
<1>2. \A q \in Requests : req'[q] = Idle
  BY DEF Dies
<1>3. Idle.pc \notin Held /\ Idle.op = "none" /\ Idle.pc # "asked"
  BY DEF Idle, Held, BeforeSwap, Moving, Answering
<1>4. RequestTypes'
  BY <1>1, Constants DEF Dies, RequestTypes
<1>5. Phase' = "free" /\ Doing' = "none"
  BY <1>1 DEF Phase, Doing
<1> QED
  BY <1>1, <1>2, <1>3, <1>4, <1>5 DEF OneHolder

\* The holder goes on, and what it does still fits where it is.
LEMMA HolderGoesOn ==
  ASSUME RequestTypes, OneHolder, NEW r \in Requests, req[r].pc \in Held,
         NEW l \in Held, Goes(r, l), mu' = mu, up' = up, up,
         l = "delete" <=> Doing = "reset" /\ l \notin {"guard", "swap"}
  PROVE  OneHolder' /\ RequestTypes'
<1>1. mu = r /\ mu \in Requests
  BY HolderIs
<1>2. Phase' = l /\ Doing' = Doing /\ mu' = r /\ req' \in [Requests -> Request]
  BY HolderGoes
<1>3. \A q \in Requests : req'[q].pc \in Held <=> mu' = q
  BY HolderGoes
<1>4. \A q \in Requests : /\ req'[q].op = req[q].op /\ req'[q].who = req[q].who
                          /\ req'[q].pc = "asked" => req[q].pc = "asked"
  BY HolderGoes
<1>5. OneHolder'
  BY <1>1, <1>2, <1>3, <1>4 DEF OneHolder
<1> QED
  BY <1>1, <1>2, <1>5 DEF RequestTypes

\* The holder ends, and nobody holds anything.
LEMMA EndingFrees ==
  ASSUME RequestTypes, OneHolder, NEW r \in Requests, req[r].pc \in Held, Ends(r)
  PROVE  OneHolder' /\ RequestTypes'
<1>1. mu' = NoReq /\ mu' \notin Requests
  BY DEF Ends
<1>2. Idle.op = "none" /\ Idle.pc # "asked"
  BY DEF Idle
<1>3. /\ Phase' = "free" /\ Doing' = "none"
      /\ \A q \in Requests : req'[q].pc \notin Held
      /\ \A q \in Requests : req'[q] = IF q = r THEN Idle ELSE req[q]
  BY HolderEnds
<1>4. RequestTypes'
  BY <1>1, EndsType DEF RequestTypes
<1> QED
  BY <1>1, <1>2, <1>3, <1>4 DEF OneHolder

\* The guard takes the note down.
LEMMA GuardPasses ==
  ASSUME RequestTypes, OneHolder, note \in Note, NEW r \in Requests, Guard(r)
  PROVE  /\ mu = r /\ Phase = "guard" /\ Phase' = "swap" /\ Doing' = Doing /\ Doing = req[r].op
         /\ OneHolder' /\ RequestTypes'
         /\ \A q \in Requests : q # r => req'[q] = req[q]
         /\ req'[r].note = IF Doing = "onboard" THEN req[r].note
                           ELSE [no |-> note.no, of |-> note.of, crossed |-> note.crossed]
         /\ req'[r].who = req[r].who
<1> DEFINE taken == IF req[r].op = "onboard" THEN req[r].note
                    ELSE [no |-> note.no, of |-> note.of, crossed |-> note.crossed]
<1>1. req[r].pc = "guard" /\ up /\ UNCHANGED <<up, mu>>
  BY DEF Guard, At
<1>2. "guard" \in Held /\ "swap" \in Held /\ "swap" \in PCs /\ "swap" # "asked" /\ "swap" # "delete"
  BY DEF PCs, Held, BeforeSwap
<1>3. mu = r /\ mu \in Requests /\ Phase = "guard" /\ Doing = req[r].op
  BY <1>1, <1>2, HolderIs
<1>4. req[r] \in Request /\ taken \in Covered
  BY DEF RequestTypes, Request, Note, Covered
<1>5. req' = [req EXCEPT ![r].pc = "swap", ![r].note = taken]
  BY DEF Guard
<1> HIDE DEF taken
<1>6. RequestTypes' /\ \A q \in Requests : q # r => req'[q] = req[q]
  BY <1>1, <1>2, <1>4, <1>5 DEF RequestTypes, Request
<1>7. /\ req'[r].pc = "swap" /\ req'[r].note = taken
      /\ req'[r].op = req[r].op /\ req'[r].who = req[r].who
  BY <1>4, <1>5 DEF RequestTypes, Request
<1>8. Phase' = "swap" /\ Doing' = Doing
  BY <1>1, <1>3, <1>7 DEF Phase, Doing
<1>9. \A q \in Requests : req'[q].pc \in Held <=> mu' = q
  BY <1>1, <1>2, <1>3, <1>6, <1>7 DEF OneHolder
<1>10. OneHolder'
  BY <1>1, <1>2, <1>3, <1>6, <1>7, <1>8, <1>9 DEF OneHolder
<1> QED
  BY <1>3, <1>6, <1>7, <1>8, <1>10 DEF taken

\* backupMu has one holder, whatever is done.
LEMMA HolderStep ==
  ASSUME RequestTypes, OneHolder, note \in Note, [Next]_vars
  PROVE  OneHolder' /\ RequestTypes'
<1> USE DEF Held, BeforeSwap, Moving, Answering
<1>1. CASE UNCHANGED vars
  BY <1>1 DEF vars, OneHolder, RequestTypes, Phase, Doing
<1>2. CASE Bystander
  BY <1>2, Bystands
<1>3. CASE Draw \/ Boot
  BY <1>3 DEF Draw, Boot, OneHolder, RequestTypes, Phase, Doing
<1>4. CASE Crash
  BY <1>4, DyingFrees DEF Crash
<1>5. ASSUME NEW r \in Requests, RestoreStep(r) PROVE OneHolder' /\ RequestTypes'
  <2>1. CASE Busy(r)
    BY <2>1, <1>2 DEF Bystander
  <2>2. CASE Lock(r)
    BY <2>2, LockTakes
  <2>3. CASE Guard(r)
    BY <2>3, GuardPasses
  <2>4. CASE Refused(r)
    BY <2>4, EndingFrees DEF Refused
  <2>5. CASE Intact(r)
    BY <2>5, EndingFrees DEF Intact, At
  <2>6. CASE Restored(r)
    BY <2>6, EndingFrees DEF Restored, At
  <2>7. CASE RollbackFails(r)
    BY <2>7, DyingFrees DEF RollbackFails
  <2>8. CASE MoveAside(r) \/ MoveIn(r) \/ MoveBack(r)
    BY <2>8 DEF MoveAside, MoveIn, MoveBack, OneHolder, RequestTypes, Phase, Doing
  <2>9. CASE Extract(r)
    <3>1. req[r].pc = "extract" /\ Goes(r, "guard") /\ mu' = mu /\ up /\ up' = up
      BY <2>9 DEF Extract, At
    <3> QED
      BY <3>1, HolderGoesOn
  <2>10. CASE CloseForSwap(r)
    <3> DEFINE l == IF req[r].op = "reset" THEN "delete" ELSE "aside"
    <3>1. req[r].pc = "swap" /\ Goes(r, l) /\ mu' = mu /\ up /\ up' = up
      BY <2>10 DEF CloseForSwap, At
    <3>2. l \in Held /\ (l = "delete" <=> Doing = "reset" /\ l \notin {"guard", "swap"})
      BY <3>1, HolderIs
    <3> HIDE DEF l
    <3> QED
      BY <3>1, <3>2, HolderGoesOn
  <2>11. ASSUME req[r].pc \in Moving,
                NEW l \in {"in", "failed", "undo", "clear", "back", "intact", "restored"},
                Goes(r, l), mu' = mu, up, up' = up
         PROVE  OneHolder' /\ RequestTypes'
    <3>1. Doing # "reset" /\ req[r].pc \in Held /\ l \in Held
      BY <2>11, HolderIs DEF OneHolder
    <3> QED
      BY <2>11, <3>1, HolderGoesOn
  <2>12. CASE AsideIsDone(r)
    BY <2>11, <2>12 DEF AsideIsDone, At
  <2>13. CASE MoveFails(r)
    BY <2>11, <2>13 DEF MoveFails, AfterFailedMove
  <2>14. CASE BringUp(r)
    BY <2>11, <2>14 DEF BringUp, At
  <2>15. CASE ReopenAfterFailure(r)
    BY <2>11, <2>15 DEF ReopenAfterFailure, At
  <2>16. CASE Undo(r)
    BY <2>11, <2>16 DEF Undo, At
  <2>17. CASE Clear(r)
    <3>1. CASE UNCHANGED req
      BY <2>17, <3>1 DEF Clear, OneHolder, RequestTypes, Phase, Doing
    <3>2. CASE Goes(r, "back")
      BY <2>11, <2>17, <3>2 DEF Clear, At
    <3> QED
      BY <2>17, <3>1, <3>2 DEF Clear
  <2>18. CASE OldIsUp(r)
    BY <2>11, <2>18 DEF OldIsUp, At
  <2> QED
    BY <1>5, <2>1, <2>2, <2>3, <2>4, <2>5, <2>6, <2>7, <2>8, <2>9, <2>10, <2>12, <2>13,
       <2>14, <2>15, <2>16, <2>17, <2>18 DEF RestoreStep
<1>6. ASSUME NEW r \in Requests, ResetStep(r) PROVE OneHolder' /\ RequestTypes'
  <2>1. CASE DeleteLog(r) \/ DeleteDatabase(r)
    BY <2>1 DEF DeleteLog, DeleteDatabase, OneHolder, RequestTypes, Phase, Doing
  <2>2. CASE EmptyDatabase(r)
    BY <2>2, EndingFrees DEF EmptyDatabase, At
  <2>3. CASE ResetFails(r)
    BY <2>3, EndingFrees DEF ResetFails, At
  <2> QED
    BY <1>6, <2>1, <2>2, <2>3 DEF ResetStep
<1> QED
  BY <1>1, <1>2, <1>3, <1>4, <1>5, <1>6 DEF Next, Bystander

(***************************************************************************)
(* The types of the files and of the copies.                               *)
(***************************************************************************)
\* One rename: an entry goes, and comes, as it is.
LEMMA RenameType == ASSUME NEW from \in Trees, NEW to \in Trees, NEW e \in Entries
                    PROVE  /\ [from EXCEPT ![e] = None] \in Trees
                           /\ [to EXCEPT ![e] = from[e]] \in Trees
                           /\ from[e] \in 0 .. Stray
<1>1. from[e] \in 0 .. Stray /\ (e = "media" \/ from[e] # Stray)
  BY DEF Trees, Dirs
<1>2. None \in 0 .. Stray /\ None # Stray
  OBVIOUS
<1> QED
  BY <1>1, <1>2, TreeChange

\* What a swap owes is of the directory it closed.
LEMMA OwesType == ASSUME NEW dir \in Trees, NEW es
                  PROVE  /\ Owes(dir, es) \subseteq Entries \X (1 .. Stray)
                         /\ \A x \in Owes(dir, es) : /\ x[1] \in es /\ x[1] \in Entries
                                                     /\ x[2] = dir[x[1]] /\ x[2] # None
BY DEF Owes, Present, Trees, Dirs

LEMMA PresentIn == \A dir : Present(dir) \subseteq Entries
BY DEF Present

\* What a died or finished swap leaves in a directory of its own.
LEMMA SetAsideType == ASSUME NEW dir \in Trees
                      PROVE  [dir EXCEPT !["wal"] = None] \in Dirs
BY DEF Trees, Dirs

LEMMA NewTrees == ASSUME NEW lib \in Libs
                  PROVE  /\ [NoFiles EXCEPT !["media"] = lib, !["db"] = lib] \in Trees
                         /\ [NoFiles EXCEPT !["db"] = lib, !["wal"] = lib] \in Trees
BY DEF NoFiles, Trees, Dirs

LEMMA FileTypesStep ==
  ASSUME FileTypes, RequestTypes, [Next]_vars
  PROVE  FileTypes'
<1>0. NoFiles \in Trees /\ NoFiles \in Dirs
  BY Constants
<1>1. CASE UNCHANGED vars
  BY <1>1 DEF vars, fileVars, loopVars, FileTypes
<1>2. CASE Bystander
  <2>1. UNCHANGED <<fileVars, up, pool, mu, loopVars, owed, spent>>
    BY <1>2 DEF Bystander, Seal, Take, Sent, CutShort, SignUp, SignOn, NoteExpires, Ask, Busy
  <2>2. peopled' \subseteq Libs /\ signedOn' \in BOOLEAN
    BY <1>2 DEF FileTypes, NoUsers, Bystander, Seal, Take, Sent, CutShort, SignUp, SignOn,
                NoteExpires, Ask, Busy
  <2> QED
    BY <2>1, <2>2 DEF fileVars, loopVars, FileTypes
<1>3. CASE Draw
  <2>1. live' \in Trees
    <3>1. live' = [live EXCEPT !["media"] = Stray] /\ live \in Trees
      BY <1>3 DEF Draw, FileTypes
    <3>2. Stray \in 0 .. Stray /\ "media" \in Entries
      OBVIOUS
    <3> QED
      BY <3>1, <3>2, TreeChange
  <2> QED
    BY <1>3, <2>1 DEF Draw, fileVars, loopVars, FileTypes
<1>4. CASE Dies
  <2>1. [pre EXCEPT !["wal"] = None] \in Dirs
    BY SetAsideType DEF FileTypes
  <2> QED
    BY <1>0, <1>4, <2>1 DEF Dies, FileTypes
<1>5. CASE Boot
  <2> DEFINE lib == IF live["db"] = None THEN NewLib ELSE live["db"]
  <2>1. /\ live["media"] \in 0 .. Stray
        /\ live["db"] \in 0 .. MaxLib /\ live["wal"] \in 0 .. MaxLib
    BY TreeEntries DEF FileTypes
  <2>2. lib \in Libs
    BY <1>5, <2>1, NewLibIsNew DEF Boot
  <2>3. pool' = lib /\ live' \in Trees
    <3> DEFINE med == IF live["media"] = None THEN Stray ELSE live["media"]
               wal == IF live["db"] = None \/ live["wal"] = None THEN lib ELSE live["wal"]
    <3>1. med \in 0 .. Stray /\ wal \in 0 .. MaxLib
      BY <2>1, <2>2
    <3>2. live' = [media |-> med, db |-> lib, wal |-> wal] /\ pool' = lib
      BY <1>5 DEF Boot
    <3> HIDE DEF lib, med, wal
    <3> QED
      BY <2>2, <3>1, <3>2 DEF Trees, Dirs
  <2> HIDE DEF lib
  <2> QED
    BY <1>0, <1>5, <2>2, <2>3 DEF Boot, loopVars, FileTypes
<1>6. ASSUME NEW r \in Requests, RestoreStep(r) PROVE FileTypes'
  <2> USE DEF fileVars, loopVars
  <2>1. CASE Busy(r) \/ Lock(r) \/ Guard(r)
    BY <2>1 DEF Busy, Lock, Guard, FileTypes
  <2>2. CASE Extract(r)
    BY <2>2, NewLibIsNew, NewTrees DEF Extract, FileTypes
  <2>3. CASE Refused(r)
    BY <1>0, <2>3 DEF Refused, Ends, FileTypes
  <2>4. CASE CloseForSwap(r)
    <3>1. PICK dir \in Folded(live, pool) :
            /\ live' = dir /\ had' = dir
            /\ list' = IF req[r].op = "reset" THEN {} ELSE Present(dir)
            /\ owed' = owed \cup Owes(dir, IF req[r].op = "reset" THEN {"db"} ELSE Entries)
      BY <2>4 DEF CloseForSwap
    <3>2. dir \in Trees
      BY FoldedType DEF FileTypes
    <3>3. list' \subseteq Entries
      BY <3>1, PresentIn
    <3>4. owed' \subseteq Entries \X (1 .. Stray)
      BY <3>1, <3>2, OwesType DEF FileTypes
    <3> QED
      BY <2>4, <3>1, <3>2, <3>3, <3>4 DEF CloseForSwap, FileTypes
  <2>5. CASE MoveAside(r)
    <3>1. PICK e \in list : /\ live' = [live EXCEPT ![e] = None]
                            /\ pre' = [pre EXCEPT ![e] = live[e]] /\ list' = list \ {e}
      BY <2>5 DEF MoveAside, Moves
    <3>2. live' \in Trees /\ pre' \in Trees
      BY <3>1, RenameType DEF FileTypes
    <3> QED
      BY <2>5, <3>1, <3>2 DEF MoveAside, FileTypes
  <2>6. CASE AsideIsDone(r)
    BY <2>6, PresentIn DEF AsideIsDone, FileTypes
  <2>7. CASE MoveIn(r)
    <3>1. PICK e \in list : /\ live' = [live EXCEPT ![e] = stage[e]]
                            /\ stage' = [stage EXCEPT ![e] = None] /\ list' = list \ {e}
      BY <2>7 DEF MoveIn, Moves
    <3>2. live' \in Trees /\ stage' \in Trees
      BY <3>1, RenameType DEF FileTypes
    <3> QED
      BY <2>7, <3>1, <3>2 DEF MoveIn, FileTypes
  <2>8. CASE MoveFails(r)
    BY <2>8 DEF MoveFails, AfterFailedMove, FileTypes
  <2>9. CASE BringUp(r) \/ ReopenAfterFailure(r) \/ OldIsUp(r)
    <3>1. PICK ok \in BOOLEAN : Reopened(ok)
      BY <2>9 DEF BringUp, ReopenAfterFailure, OldIsUp
    <3>2. live' \in Trees /\ pool' \in Libs \cup {Closed, Broken} /\ owed' \subseteq owed
      BY <3>1, ReopenedType
    <3> QED
      BY <2>9, <3>2 DEF BringUp, ReopenAfterFailure, OldIsUp, FileTypes
  <2>10. CASE Undo(r)
    <3>1. PICK dir \in IF pool = Closed THEN {live} ELSE Folded(live, pool) :
             live' = dir /\ list' = Present(IF Clears THEN dir ELSE pre)
      BY <2>10 DEF Undo
    <3>2. dir \in Trees
      BY FoldedType DEF FileTypes
    <3>3. list' \subseteq Entries
      BY <3>1, PresentIn
    <3> QED
      BY <2>10, <3>1, <3>2, <3>3 DEF Undo, FileTypes
  <2>11. CASE Clear(r)
    <3>1. CASE list = {} /\ list' = Present(pre) /\ UNCHANGED <<live, junk>>
      BY <2>11, <3>1, PresentIn DEF Clear, FileTypes
    <3>2. ASSUME NEW e \in list, live' = [live EXCEPT ![e] = None],
                 junk' = [junk EXCEPT ![e] = live[e]], list' = list \ {e}
          PROVE  FileTypes'
      <4>1. live' \in Trees
        BY <3>2, RenameType DEF FileTypes
      <4>2. junk' \in Dirs
        BY <3>2, RenameType DEF Dirs, FileTypes
      <4> QED
        BY <2>11, <3>2, <4>1, <4>2 DEF Clear, FileTypes
    <3> QED
      BY <2>11, <3>1, <3>2 DEF Clear, Moves
  <2>12. CASE MoveBack(r)
    <3>1. PICK e \in list : /\ live' = [live EXCEPT ![e] = pre[e]]
                            /\ pre' = [pre EXCEPT ![e] = None] /\ list' = list \ {e}
      BY <2>12 DEF MoveBack, Moves
    <3>2. live' \in Trees /\ pre' \in Trees
      BY <3>1, RenameType DEF FileTypes
    <3> QED
      BY <2>12, <3>1, <3>2 DEF MoveBack, FileTypes
  <2>13. CASE Intact(r)
    BY <1>0, <2>13 DEF Intact, Ends, FileTypes
  <2>14. CASE Restored(r)
    <3>1. owed' \subseteq Entries \X (1 .. Stray)
      BY <2>14, OwesType DEF Restored, FileTypes
    <3>2. [pre EXCEPT !["wal"] = None] \in Dirs
      BY SetAsideType DEF FileTypes
    <3> QED
      BY <1>0, <2>14, <3>1, <3>2 DEF Restored, Ends, FileTypes
  <2> QED
    BY <1>4, <1>6, <2>1, <2>2, <2>3, <2>4, <2>5, <2>6, <2>7, <2>8, <2>9, <2>10, <2>11, <2>12,
       <2>13, <2>14 DEF RestoreStep, RollbackFails
<1>7. ASSUME NEW r \in Requests, ResetStep(r) PROVE FileTypes'
  <2> USE DEF loopVars
  <2>1. CASE DeleteLog(r)
    <3>1. live' \in Trees
      <4>1. live' = [live EXCEPT !["wal"] = None] /\ live \in Trees /\ "wal" \in Entries
        BY <2>1 DEF DeleteLog, FileTypes
      <4> QED
        BY <4>1, RenameType
    <3> QED
      BY <2>1, <3>1 DEF DeleteLog, FileTypes
  <2>2. CASE DeleteDatabase(r)
    <3>1. live' \in Trees
      <4>1. live' = [live EXCEPT !["db"] = None] /\ live \in Trees /\ "db" \in Entries
        BY <2>2 DEF DeleteDatabase, FileTypes
      <4> QED
        BY <4>1, RenameType
    <3> QED
      BY <2>2, <3>1 DEF DeleteDatabase, FileTypes
  <2>3. CASE EmptyDatabase(r)
    <3>1. NewLib \in Libs /\ live' \in Trees
      BY <2>3, NewLibIsNew, NewTrees DEF EmptyDatabase
    <3> QED
      BY <1>0, <2>3, <3>1 DEF EmptyDatabase, Ends, FileTypes
  <2>4. CASE ResetFails(r)
    <3>1. live' \in Trees /\ pool' \in Libs \cup {Closed, Broken} /\ owed' \subseteq owed
      <4>1. CASE Reopened(TRUE)
        BY <4>1, ReopenedType
      <4>2. CASE pool' = Broken /\ UNCHANGED <<live, owed>>
        BY <4>2 DEF FileTypes
      <4>3. CASE /\ Unused # {} /\ pool' = Broken /\ UNCHANGED owed
                 /\ live' = [live EXCEPT !["db"] = NewLib, !["wal"] = NewLib]
        <5>1. NewLib \in Libs
          BY <4>3, NewLibIsNew
        <5>2. NewLib \in 0 .. Stray /\ NewLib # Stray
          BY <5>1
        <5>3. [live EXCEPT !["db"] = NewLib] \in Trees
          BY <5>2, TreeChange DEF FileTypes
        <5>4. [[live EXCEPT !["db"] = NewLib] EXCEPT !["wal"] = NewLib] \in Trees
          BY <5>2, <5>3, TreeChange
        <5> QED
          BY <4>3, <5>4
      <4> QED
        BY <2>4, <4>1, <4>2, <4>3 DEF ResetFails
    <3> QED
      BY <1>0, <2>4, <3>1 DEF ResetFails, Ends, FileTypes
  <2> QED
    BY <1>7, <2>1, <2>2, <2>3, <2>4 DEF ResetStep
<1> QED
  BY <1>1, <1>2, <1>3, <1>4, <1>5, <1>6, <1>7 DEF Next, Bystander, Crash

(***************************************************************************)
(* The downloads, and what each is spent on.                               *)
(***************************************************************************)
LEMMA SendersFinite == IsFiniteSet(Senders) /\ Cardinality(Senders) \in Nat
<1>1. Senders \in SUBSET Admins
  BY DEF Senders
<1>2. IsFiniteSet(Senders)
  BY <1>1, FS_Subset
<1> QED
  BY <1>2, FS_CardinalityType

\* A download begins, and ends.
LEMMA OneMoreSender ==
  ASSUME CopyTypes, NEW a \in Admins, Take(a)
  PROVE  /\ Cardinality(Senders') = Cardinality(Senders) + 1
         /\ downloads + Cardinality(Senders') <= MaxDownloads
<1>1. /\ sending[a] = NoCopy /\ copy[a] # None
      /\ sending' = [sending EXCEPT ![a] = [of |-> copy[a], crossed |-> FALSE]]
      /\ downloads + Cardinality(Senders) < MaxDownloads
  BY DEF Take, Senders
<1>2. [of |-> copy[a], crossed |-> FALSE] # NoCopy
  BY <1>1 DEF NoCopy
<1>3. Senders' = Senders \cup {a} /\ a \notin Senders
  BY <1>1, <1>2 DEF Senders, CopyTypes
<1>4. Cardinality(Senders') = Cardinality(Senders) + 1
  BY <1>3, SendersFinite, FS_AddElement
<1> QED
  BY <1>1, <1>4, SendersFinite DEF CopyTypes

LEMMA OneLessSender ==
  ASSUME CopyTypes, NEW a \in Admins, sending[a] # NoCopy,
         sending' = [sending EXCEPT ![a] = NoCopy]
  PROVE  /\ Cardinality(Senders') = Cardinality(Senders) - 1
         /\ Cardinality(Senders') \in Nat
<1>1. Senders' = Senders \ {a} /\ a \in Senders
  BY DEF Senders, CopyTypes
<1>2. Cardinality(Senders') = Cardinality(Senders) - 1
  BY <1>1, SendersFinite, FS_RemoveElement
<1>3. IsFiniteSet(Senders')
  BY <1>1, SendersFinite, FS_RemoveElement
<1> QED
  BY <1>2, <1>3, FS_CardinalityType

\* A replacement is told to every download under way.
LEMMA SameSenders ==
  ASSUME CopyTypes, Replaced
  PROVE  /\ Senders' = Senders /\ sending' \in [Admins -> Sending]
         /\ \A a \in Senders : sending'[a].crossed = TRUE
<1>1. \A a \in Admins : sending[a] # NoCopy => [sending[a] EXCEPT !.crossed = TRUE] # NoCopy
  BY DEF CopyTypes, Sending, NoCopy
<1>2. \A a \in Admins :
        /\ sending'[a] = IF sending[a] = NoCopy THEN NoCopy
                         ELSE [sending[a] EXCEPT !.crossed = TRUE]
        /\ sending'[a] \in Sending
        /\ sending[a] # NoCopy => sending'[a].crossed = TRUE
  BY Constants DEF Replaced, CopyTypes, Sending
<1>3. sending' \in [Admins -> Sending]
  BY <1>2 DEF Replaced
<1>4. Senders' = Senders
  BY <1>1, <1>2 DEF Senders
<1> QED
  BY <1>2, <1>3, <1>4 DEF Senders

\* What a success spends.
LEMMA SpendsType ==
  ASSUME CopyTypes, RequestTypes, NEW r \in Requests, Spends(r)
  PROVE  /\ req[r].note.no \in 0 .. MaxDownloads
         /\ spent' \in [1 .. MaxDownloads -> Nat]
         /\ \A n \in 1 .. MaxDownloads :
              spent'[n] = IF n = req[r].note.no THEN spent[n] + 1 ELSE spent[n]
<1>1. req[r].note.no \in 0 .. MaxDownloads
  BY DEF RequestTypes, Request, Covered
<1>2. CASE req[r].note.no = 0
  BY <1>1, <1>2 DEF Spends, CopyTypes
<1>3. CASE req[r].note.no # 0
  <2> DEFINE no == req[r].note.no
  <2>1. no \in 1 .. MaxDownloads
    BY <1>1, <1>3
  <2>2. spent' = [spent EXCEPT ![no] = spent[no] + 1] /\ spent \in [1 .. MaxDownloads -> Nat]
    BY <1>3 DEF Spends, CopyTypes
  <2> HIDE DEF no
  <2>3. spent' \in [1 .. MaxDownloads -> Nat]
    BY <2>1, <2>2
  <2>4. \A n \in 1 .. MaxDownloads : spent'[n] = IF n = no THEN spent[n] + 1 ELSE spent[n]
    BY <2>1, <2>2
  <2> QED
    BY <1>1, <2>3, <2>4 DEF no
<1> QED
  BY <1>1, <1>2, <1>3

\* The steps of a swap that leave the copies and what was spent alone.
Unspent == UNCHANGED <<copyVars, spent>>

LEMMA CopyTypesStep ==
  ASSUME CopyTypes, Numbers, FileTypes, RequestTypes, [Next]_vars
  PROVE  CopyTypes'
<1> USE DEF copyVars
<1>1. CASE Unspent
  BY <1>1 DEF Unspent, CopyTypes
<1>2. ASSUME NEW a \in Admins, Seal(a) \/ Take(a) PROVE CopyTypes'
  <2>1. pool \in 0 .. MaxLib
    BY <1>2 DEF FileTypes, Seal, Take
  <2>2. copy' \in [Admins -> 0 .. MaxLib]
    BY <1>2, <2>1 DEF Seal, Take, CopyTypes
  <2>3. sending' \in [Admins -> Sending]
    <3>1. [of |-> copy[a], crossed |-> FALSE] \in Sending
      BY DEF CopyTypes, Sending
    <3> QED
      BY <1>2, <3>1 DEF Seal, Take, CopyTypes
  <2> QED
    BY <1>2, <2>2, <2>3 DEF Seal, Take, CopyTypes
<1>3. ASSUME NEW a \in Admins, Sent(a) PROVE CopyTypes'
  <2>1. downloads + Cardinality(Senders) <= MaxDownloads /\ downloads \in Nat
    BY DEF Numbers, CopyTypes
  <2>2. Cardinality(Senders) >= 1
    <3>1. sending[a] # NoCopy /\ sending' = [sending EXCEPT ![a] = NoCopy]
      BY <1>3 DEF Sent
    <3>2. /\ Cardinality(Senders') = Cardinality(Senders) - 1
          /\ Cardinality(Senders') \in Nat
      BY <3>1, OneLessSender
    <3> QED
      BY <3>2, SendersFinite
  <2>3. downloads + 1 \in 0 .. MaxDownloads
    BY <2>1, <2>2, SendersFinite
  <2>4. note' \in Note
    BY <1>3, <2>3 DEF Sent, CopyTypes, Note, Sending
  <2>5. sending' \in [Admins -> Sending]
    BY <1>3, Constants DEF Sent, CopyTypes
  <2> QED
    BY <1>3, <2>3, <2>4, <2>5 DEF Sent, CopyTypes
<1>4. ASSUME NEW a \in Admins, CutShort(a) PROVE CopyTypes'
  BY <1>4, Constants DEF CutShort, CopyTypes
<1>5. CASE NoteExpires
  BY <1>5, Constants DEF NoteExpires, CopyTypes
<1>6. CASE Dies
  BY <1>6, Constants DEF Dies, CopyTypes
<1>7. ASSUME NEW r \in Requests, Forgets, Replaced, SpendNote, Spends(r), UNCHANGED downloads
      PROVE  CopyTypes'
  <2>1. copy' \in [Admins -> 0 .. MaxLib]
    BY <1>7 DEF Forgets
  <2>2. note' \in Note
    BY <1>7, Constants DEF SpendNote
  <2> QED
    BY <1>7, <2>1, <2>2, SameSenders, SpendsType DEF CopyTypes
<1>8. ASSUME NEW r \in Requests, ResetFails(r) PROVE CopyTypes'
  <2>1. copy' \in [Admins -> 0 .. MaxLib]
    BY <1>8 DEF ResetFails, Forgets
  <2> QED
    BY <1>8, <2>1 DEF ResetFails, CopyTypes
<1>9. ASSUME NEW r \in Requests, RestoreStep(r) \/ ResetStep(r) PROVE CopyTypes'
  <2>1. CASE Restored(r) \/ EmptyDatabase(r)
    BY <1>7, <2>1 DEF Restored, EmptyDatabase
  <2>2. CASE ResetFails(r)
    BY <1>8, <2>2
  <2>3. CASE RollbackFails(r)
    BY <1>6, <2>3 DEF RollbackFails
  <2>4. \/ Unspent \/ RollbackFails(r) \/ Restored(r) \/ EmptyDatabase(r) \/ ResetFails(r)
    BY <1>9 DEF RestoreStep, ResetStep, Unspent, Busy, Lock, Extract, Guard, Refused,
         CloseForSwap, MoveAside, AsideIsDone, MoveIn, MoveFails, BringUp, ReopenAfterFailure,
         Undo, Clear, MoveBack, OldIsUp, Intact, DeleteLog, DeleteDatabase
  <2> QED
    BY <1>1, <2>1, <2>2, <2>3, <2>4
<1>10. CASE \/ UNCHANGED vars \/ SignUp \/ SignOn \/ Draw \/ Boot
            \/ \E r \in Requests : \/ Ask(r, "onboard", 0)
                                   \/ \E op \in {"restore", "reset"}, who \in Admins :
                                        Ask(r, op, who)
  <2>1. Unspent
    BY <1>10 DEF Unspent, vars, SignUp, SignOn, Draw, Boot, Ask
  <2> QED
    BY <1>1, <2>1
<1> QED
  BY <1>2, <1>3, <1>4, <1>5, <1>6, <1>9, <1>10 DEF Next, Crash

\* What a step is to the requests.
LEMMA StepKinds ==
  ASSUME RequestTypes, OneHolder, [Next]_vars
  PROVE  \/ UNCHANGED <<mu, req>>
         \/ Bystander \/ Dies
         \/ \E r \in Requests : Lock(r) \/ Guard(r)
         \/ \E r \in Requests : req[r].pc \in Held /\ Ends(r)
         \/ \E r \in Requests, l \in Held :
              /\ req[r].pc \in Held /\ Goes(r, l) /\ mu' = mu
              /\ l = "guard" \/ (req[r].pc \in Late /\ l \in Late)
<1> USE DEF Held, BeforeSwap, Moving, Answering, Late
<1>1. ASSUME NEW r \in Requests, RestoreStep(r) \/ ResetStep(r)
      PROVE  \/ UNCHANGED <<mu, req>>
             \/ Busy(r) \/ Lock(r) \/ Guard(r) \/ Dies
             \/ req[r].pc \in Held /\ Ends(r)
             \/ \E l \in Held : /\ req[r].pc \in Held /\ Goes(r, l) /\ mu' = mu
                                /\ l = "guard" \/ (req[r].pc \in Late /\ l \in Late)
  <2>1. CASE Refused(r) \/ Intact(r) \/ Restored(r) \/ EmptyDatabase(r) \/ ResetFails(r)
    BY <2>1 DEF Refused, Intact, Restored, EmptyDatabase, ResetFails, At
  <2>2. CASE \/ Extract(r) \/ AsideIsDone(r) \/ BringUp(r) \/ ReopenAfterFailure(r)
             \/ Undo(r) \/ OldIsUp(r) \/ CloseForSwap(r)
    <3>1. CASE Extract(r)
      BY <3>1 DEF Extract, At
    <3>2. ASSUME NEW l \in Late, req[r].pc \in Late, Goes(r, l), mu' = mu
          PROVE  \E k \in Held : /\ req[r].pc \in Held /\ Goes(r, k) /\ mu' = mu
                                 /\ k = "guard" \/ (req[r].pc \in Late /\ k \in Late)
      <4>1. l \in Held /\ req[r].pc \in Held
        BY <3>2
      <4> HIDE DEF Held, Late
      <4> QED
        BY <3>2, <4>1
    <3>3. CASE AsideIsDone(r)
      BY <3>2, <3>3 DEF AsideIsDone, At
    <3>4. CASE ReopenAfterFailure(r)
      BY <3>2, <3>4 DEF ReopenAfterFailure, At
    <3>5. CASE OldIsUp(r)
      BY <3>2, <3>5 DEF OldIsUp, At
    <3>6. CASE BringUp(r)
      BY <3>2, <3>6 DEF BringUp, At
    <3>7. CASE Undo(r)
      BY <3>2, <3>7 DEF Undo, At
    <3>8. CASE CloseForSwap(r)
      BY <3>2, <3>8 DEF CloseForSwap, At
    <3> QED
      BY <2>2, <3>1, <3>3, <3>4, <3>5, <3>6, <3>7, <3>8
  <2>3. CASE MoveFails(r) \/ Clear(r)
    BY <2>3 DEF MoveFails, AfterFailedMove, Clear, At
  <2>4. CASE MoveAside(r) \/ MoveIn(r) \/ MoveBack(r) \/ DeleteLog(r) \/ DeleteDatabase(r)
    BY <2>4 DEF MoveAside, MoveIn, MoveBack, DeleteLog, DeleteDatabase
  <2>5. CASE RollbackFails(r)
    BY <2>5 DEF RollbackFails
  <2> QED
    BY <1>1, <2>1, <2>2, <2>3, <2>4, <2>5 DEF RestoreStep, ResetStep
<1>2. CASE UNCHANGED vars \/ Draw \/ Boot
  BY <1>2 DEF vars, Draw, Boot
<1>3. CASE Crash
  BY <1>3 DEF Crash
<1> HIDE DEF Held, BeforeSwap, Moving, Answering, Late
<1> QED
  BY <1>1, <1>2, <1>3 DEF Next, Bystander

\* A note is held by the holder of backupMu alone.
NoteIsHolders == \A r \in Requests : req[r].note.no # 0 => mu = r

\* Only the guard gives a request a note, and only past it may one be spent.
LEMMA NotesOnlyAtGuard ==
  ASSUME RequestTypes, OneHolder, NoteIsHolders, [Next]_vars, \A r \in Requests : ~Guard(r)
  PROVE  /\ \A q \in Requests : req'[q].note.no # 0 =>
              req'[q].note = req[q].note /\ mu' = q /\ mu = q
         /\ Phase' \in Late => /\ Phase \in Late /\ Doing' = Doing /\ mu' = mu
                               /\ mu \in Requests /\ req'[mu].note = req[mu].note
<1>0. /\ Idle.note.no = 0
      /\ "free" \notin Late /\ "guard" \notin Late /\ "extract" \notin Late
      /\ Late \subseteq Held /\ "free" \notin Held
  BY DEF Idle, Late, Held, BeforeSwap, Moving, Answering
<1>1. CASE UNCHANGED <<mu, req>>
  <2>1. Phase' = Phase /\ Doing' = Doing
    BY <1>1 DEF Phase, Doing
  <2>2. Phase \in Late => mu \in Requests
    BY <1>0 DEF Phase
  <2> QED
    BY <1>1, <2>1, <2>2 DEF NoteIsHolders
<1>2. CASE Bystander
  <2>1. /\ mu' = mu /\ Phase' = Phase /\ Doing' = Doing
        /\ \A q \in Requests : req'[q].note = req[q].note \/ req'[q].note = Idle.note
        /\ mu \in Requests => req'[mu] = req[mu]
    BY <1>2, Bystands
  <2>2. Phase \in Late => mu \in Requests
    BY <1>0 DEF Phase
  <2> QED
    BY <1>0, <2>1, <2>2 DEF NoteIsHolders
<1>3. CASE Dies
  <2>1. \A q \in Requests : req'[q].note.no = 0
    BY <1>0, <1>3 DEF Dies
  <2> QED
    BY <1>0, <1>3, <2>1, DyingFrees
<1>4. ASSUME NEW r \in Requests, Lock(r)
      PROVE  /\ \A q \in Requests : req'[q].note.no = 0
             /\ Phase' \notin Late
  <2>1. mu \notin Requests
    BY <1>4 DEF Lock, Lockable
  <2>2. \A q \in Requests : req'[q].note = req[q].note
    BY <1>4, LockTakes
  <2>3. Phase' \in {"guard", "extract"}
    BY <1>4, LockTakes
  <2> QED
    BY <1>0, <2>1, <2>2, <2>3 DEF NoteIsHolders
<1>5. ASSUME NEW r \in Requests, req[r].pc \in Held, Ends(r)
      PROVE  /\ \A q \in Requests : req'[q].note.no = 0
             /\ Phase' \notin Late
  <2>1. mu = r
    BY <1>5, HolderIs
  <2>2. /\ Phase' = "free"
        /\ \A q \in Requests : req'[q] = IF q = r THEN Idle ELSE req[q]
    BY <1>5, HolderEnds
  <2> QED
    BY <1>0, <2>1, <2>2 DEF NoteIsHolders
<1>6. ASSUME NEW r \in Requests, NEW l \in Held, req[r].pc \in Held, Goes(r, l), mu' = mu,
             l = "guard" \/ (req[r].pc \in Late /\ l \in Late)
      PROVE  /\ \A q \in Requests : req'[q].note = req[q].note
             /\ mu' = mu
             /\ Phase' \in Late => Phase \in Late /\ Doing' = Doing /\ mu \in Requests
  BY <1>0, <1>6, HolderIs, HolderGoes
<1>7. CASE \E r \in Requests, l \in Held :
              /\ req[r].pc \in Held /\ Goes(r, l) /\ mu' = mu
              /\ l = "guard" \/ (req[r].pc \in Late /\ l \in Late)
  BY <1>6, <1>7 DEF NoteIsHolders
<1> QED
  BY <1>1, <1>2, <1>3, <1>4, <1>5, <1>7, StepKinds

\* A download is spent once at most, and not while a request still has its note.
LEMMA NumbersStep ==
  ASSUME RequestTypes, CopyTypes, OneHolder, Numbers, [Next]_vars
  PROVE  Numbers'
<1> USE DEF copyVars
<1>0. /\ NoteIsHolders
      /\ downloads \in Nat /\ MaxDownloads \in Nat
      /\ \A r \in Requests : req[r].note.no \in 0 .. MaxDownloads
      /\ note.no \in 0 .. MaxDownloads
      /\ \A n \in 1 .. MaxDownloads : spent[n] \in Nat
  BY DEF Numbers, NoteIsHolders, CopyTypes, RequestTypes, Request, Covered, Note
<1>1. ASSUME NEW r \in Requests, Guard(r) PROVE Numbers'
  <2>1. UNCHANGED <<copyVars, spent, mu>>
    BY <1>1 DEF Guard
  <2>2. /\ mu = r /\ Phase' = "swap" /\ Doing' = Doing /\ Doing = req[r].op
        /\ \A q \in Requests : q # r => req'[q] = req[q]
        /\ req'[r].note = IF Doing = "onboard" THEN req[r].note
                          ELSE [no |-> note.no, of |-> note.of, crossed |-> note.crossed]
    BY <1>1, GuardPasses DEF CopyTypes
  <2>3. Doing # "onboard" => note.no # 0
    <3>1. Doing # "onboard" => note.uid = req[r].who
      BY <1>1, <2>2 DEF Guard, Allowed, Fresh
    <3>2. Doing # "onboard" => req[r].who # 0
      BY <2>2 DEF OneHolder, RequestTypes, Request
    <3> QED
      BY <3>1, <3>2 DEF Numbers
  <2>4. \A q \in Requests : q # r => req'[q].note.no = 0
    BY <1>0, <2>2 DEF NoteIsHolders
  <2>5. /\ Doing = "onboard" => req'[r].note.no = req[r].note.no
        /\ Doing # "onboard" => req'[r].note.no = note.no
    BY <2>2
  <2>6. /\ \A q \in Requests : req'[q].note.no <= downloads'
        /\ \A q \in Requests : req'[q].note.no # 0 => mu' = q /\ spent'[req'[q].note.no] = 0
    BY <1>0, <2>1, <2>2, <2>4, <2>5 DEF Numbers
  <2>7. /\ note' = note /\ spent' = spent /\ downloads' = downloads /\ Senders' = Senders
        /\ mu' = r
    BY <2>1, <2>2 DEF Senders
  <2> QED
    BY <2>2, <2>3, <2>5, <2>6, <2>7 DEF Numbers
<1>2. CASE \A r \in Requests : ~Guard(r)
  <2>1. /\ \A q \in Requests : req'[q].note.no # 0 =>
             req'[q].note = req[q].note /\ mu' = q /\ mu = q
        /\ Phase' \in Late => /\ Phase \in Late /\ Doing' = Doing /\ mu' = mu
                              /\ mu \in Requests /\ req'[mu].note = req[mu].note
    BY <1>0, <1>2, NotesOnlyAtGuard
  <2>2. Phase' \in Late /\ Doing' # "onboard" => req'[mu'].note.no # 0
    BY <2>1 DEF Numbers
  <2>3. ASSUME UNCHANGED spent, downloads <= downloads', downloads' \in Nat
        PROVE  /\ \A q \in Requests : req'[q].note.no <= downloads'
               /\ \A q \in Requests :
                    req'[q].note.no # 0 => mu' = q /\ spent'[req'[q].note.no] = 0
               /\ \A n \in 1 .. MaxDownloads :
                    spent'[n] <= 1 /\ (n > downloads' => spent'[n] = 0)
    <3>1. \A q \in Requests : req'[q].note.no <= downloads'
      BY <1>0, <2>1, <2>3 DEF Numbers
    <3>2. \A n \in 1 .. MaxDownloads : n > downloads' => n > downloads
      BY <1>0, <2>3
    <3> QED
      BY <2>1, <2>3, <3>1, <3>2 DEF Numbers
  <2>4. CASE Unspent
    <3>1. /\ note' = note /\ downloads' = downloads /\ spent' = spent
          /\ Senders' = Senders
      BY <2>4 DEF Unspent, Senders
    <3> QED
      BY <1>0, <2>2, <2>3, <3>1 DEF Numbers
  <2>5. ASSUME NEW a \in Admins, Seal(a) PROVE Numbers'
    <3>1. /\ note' = note /\ downloads' = downloads /\ spent' = spent
          /\ Senders' = Senders
      BY <2>5 DEF Seal, Senders
    <3> QED
      BY <1>0, <2>2, <2>3, <3>1 DEF Numbers
  <2>6. ASSUME NEW a \in Admins, Take(a) PROVE Numbers'
    <3>1. note' = note /\ downloads' = downloads /\ spent' = spent
      BY <2>6 DEF Take
    <3>2. downloads' + Cardinality(Senders') <= MaxDownloads
      BY <2>6, <3>1, OneMoreSender
    <3> QED
      BY <1>0, <2>2, <2>3, <3>1, <3>2 DEF Numbers
  <2>7. ASSUME NEW a \in Admins, CutShort(a) \/ Sent(a)
        PROVE  /\ Cardinality(Senders') = Cardinality(Senders) - 1
               /\ Cardinality(Senders') \in Nat
    <3>1. sending[a] # NoCopy /\ sending' = [sending EXCEPT ![a] = NoCopy]
      BY <2>7 DEF CutShort, Sent
    <3> QED
      BY <3>1, OneLessSender
  <2>8. ASSUME NEW a \in Admins, CutShort(a) PROVE Numbers'
    <3>1. note' = note /\ downloads' = downloads /\ spent' = spent
      BY <2>8 DEF CutShort
    <3>2. downloads' + Cardinality(Senders') <= MaxDownloads
      BY <1>0, <2>7, <2>8, <3>1, SendersFinite DEF Numbers
    <3> QED
      BY <1>0, <2>2, <2>3, <3>1, <3>2 DEF Numbers
  <2>9. ASSUME NEW a \in Admins, Sent(a) PROVE Numbers'
    <3>1. /\ note'.no = downloads + 1 /\ note'.uid = a
          /\ downloads' = downloads + 1 /\ spent' = spent
      BY <2>9 DEF Sent
    <3>2. downloads' + Cardinality(Senders') <= MaxDownloads
      BY <1>0, <2>7, <2>9, <3>1, SendersFinite DEF Numbers
    <3>3. Cardinality(Senders') \in Nat
      BY <2>7, <2>9
    <3>4. downloads + 1 \in 1 .. MaxDownloads
      BY <1>0, <3>1, <3>2, <3>3
    <3>5. spent[downloads + 1] = 0
      BY <1>0, <3>4 DEF Numbers
    <3> QED
      BY <1>0, <2>2, <2>3, <3>1, <3>2, <3>4, <3>5 DEF Numbers
  <2>10. CASE NoteExpires
    <3>1. /\ note'.no = 0 /\ note'.uid = 0 /\ downloads' = downloads /\ spent' = spent
          /\ Senders' = Senders
      BY <2>10 DEF NoteExpires, NoNote, Senders
    <3> QED
      BY <1>0, <2>2, <2>3, <3>1 DEF Numbers
  <2>11. CASE Dies
    <3>1. /\ note'.no = 0 /\ note'.uid = 0 /\ downloads' = downloads /\ spent' = spent
      BY <2>11 DEF Dies, NoNote
    <3>2. Senders' = {}
      BY <2>11 DEF Dies, Senders
    <3>3. downloads' + Cardinality(Senders') <= MaxDownloads
      BY <1>0, <3>1, <3>2, SendersFinite, FS_EmptySet DEF Numbers
    <3> QED
      BY <1>0, <2>2, <2>3, <3>1, <3>3 DEF Numbers
  <2>12. ASSUME NEW r \in Requests, req[r].pc \in Held, Ends(r),
                Replaced, SpendNote, Spends(r), UNCHANGED downloads
         PROVE  Numbers'
    <3>1. note'.no = 0 /\ note'.uid = 0 /\ downloads' = downloads
      BY <2>12 DEF SpendNote, NoNote
    <3>2. Senders' = Senders
      BY <2>12, SameSenders
    <3>3. \A q \in Requests : req'[q].note.no = 0
      <4>1. mu' \notin Requests
        BY <2>12 DEF Ends
      <4> QED
        BY <2>1, <4>1
    <3>4. \A n \in 1 .. MaxDownloads :
            spent'[n] = IF n = req[r].note.no THEN spent[n] + 1 ELSE spent[n]
      BY <2>12, SpendsType
    <3>5. \A n \in 1 .. MaxDownloads : spent'[n] <= 1 /\ (n > downloads' => spent'[n] = 0)
      BY <1>0, <3>1, <3>4 DEF Numbers
    <3> QED
      BY <1>0, <2>2, <3>1, <3>2, <3>3, <3>5 DEF Numbers
  <2>13. ASSUME NEW r \in Requests, ResetFails(r) PROVE Numbers'
    <3>1. /\ note' = note /\ downloads' = downloads /\ spent' = spent
          /\ Senders' = Senders
      BY <2>13 DEF ResetFails, Senders
    <3> QED
      BY <1>0, <2>2, <2>3, <3>1 DEF Numbers
  <2>14. ASSUME NEW r \in Requests, RestoreStep(r) \/ ResetStep(r) PROVE Numbers'
    <3>1. CASE Restored(r) \/ EmptyDatabase(r)
      BY <2>12, <3>1 DEF Restored, EmptyDatabase, At, Held, Answering
    <3>2. \/ Unspent \/ RollbackFails(r) \/ Restored(r) \/ EmptyDatabase(r) \/ ResetFails(r)
      BY <2>14 DEF RestoreStep, ResetStep, Unspent, Busy, Lock, Extract, Guard, Refused,
         CloseForSwap, MoveAside, AsideIsDone, MoveIn, MoveFails, BringUp, ReopenAfterFailure,
         Undo, Clear, MoveBack, OldIsUp, Intact, DeleteLog, DeleteDatabase
    <3> QED
      BY <2>4, <2>11, <2>13, <3>1, <3>2 DEF RollbackFails
  <2>15. CASE \/ UNCHANGED vars \/ SignUp \/ SignOn \/ Draw \/ Boot
              \/ \E r \in Requests : \/ Ask(r, "onboard", 0)
                                     \/ \E op \in {"restore", "reset"}, who \in Admins :
                                          Ask(r, op, who)
    <3>1. Unspent
      BY <2>15 DEF Unspent, vars, SignUp, SignOn, Draw, Boot, Ask
    <3> QED
      BY <2>4, <3>1
  <2> QED
    BY <2>5, <2>6, <2>8, <2>9, <2>10, <2>11, <2>14, <2>15 DEF Next, Crash
<1> QED
  BY <1>1, <1>2

(***************************************************************************)
(* The files.                                                              *)
(***************************************************************************)
\* What is in the four directories a swap moves between, entry by entry.
LEMMA Points ==
  ASSUME FileTypes
  PROVE  /\ live \in Dirs /\ pre \in Dirs /\ stage \in Dirs /\ had \in Dirs
         /\ live["db"] \in 0 .. MaxLib /\ live["wal"] \in 0 .. MaxLib
         /\ pre["db"] \in 0 .. MaxLib /\ pre["wal"] \in 0 .. MaxLib
         /\ stage["db"] \in 0 .. MaxLib /\ stage["wal"] \in 0 .. MaxLib
         /\ had["db"] \in 0 .. MaxLib /\ had["wal"] \in 0 .. MaxLib
         /\ \A x \in owed : x[1] \in Entries /\ x[2] \in 1 .. Stray /\ x = <<x[1], x[2]>>
BY TreeEntries DEF FileTypes

LEMMA SameDir == ASSUME NEW a \in Dirs, NEW b \in Dirs, \A e \in Entries : a[e] = b[e]
                 PROVE  a = b
BY DEF Dirs

LEMMA NoFilesIn == /\ NoFiles \in Dirs /\ \A e \in Entries : NoFiles[e] = None
BY Constants DEF NoFiles

LEMMA Changed == ASSUME NEW dir \in Dirs, NEW e \in Entries, NEW lib
                 PROVE  \A d \in Entries :
                          [dir EXCEPT ![e] = lib][d] = IF d = e THEN lib ELSE dir[d]
BY DEF Dirs

\* The phases are told apart.
LEMMA Phases ==
  /\ Moving \cap BeforeSwap = {} /\ Moving \cap Answering = {} /\ Answering \cap BeforeSwap = {}
  /\ "free" \notin Held /\ "delete" \notin Moving \cup BeforeSwap \cup Answering
BY DEF Held, BeforeSwap, Moving, Answering

\* Where the files, and where the holder is, do not change.
LEMMA FilesFrame ==
  ASSUME Files, UNCHANGED <<fileVars, up, pool, loopVars, owed>>, UNCHANGED <<Phase, Doing>>
  PROVE  Files'
BY DEF Files, OwnLog, NoForeignLog, AtRest, Quiet, Moved, Left, Aside, Owed, OldIsKept,
       Answered, fileVars, loopVars

\* Before the swap: the lock, the upload and the guard.
LEMMA FilesBeforeSwap ==
  ASSUME FileTypes, RequestTypes, OneHolder, note \in Note, Files, NEW r \in Requests,
         Lock(r) \/ Extract(r) \/ Guard(r) \/ Refused(r)
  PROVE  Files'
<1> USE DEF BeforeSwap, Moving, Answering, Held, fileVars, loopVars
<1>1. CASE Lock(r)
  <2>1. /\ Phase = "free" /\ Phase' = IF req[r].op = "reset" THEN "guard" ELSE "extract"
        /\ Doing' = req[r].op
    BY <1>1, LockTakes
  <2>2. UNCHANGED <<fileVars, up, pool, loopVars, owed>>
    BY <1>1 DEF Lock
  <2> QED
    BY <2>1, <2>2 DEF Files, OwnLog, NoForeignLog, AtRest, Quiet, Moved, Owed, OldIsKept,
                      Answered
<1>2. CASE Extract(r)
  <2>1. /\ Phase = "extract" /\ Phase' = "guard" /\ Doing' = Doing
    BY <1>2, HolderIs, HolderGoes DEF Extract, At
  <2>2. /\ UNCHANGED <<live, kept, pre, junk, up, pool, loopVars, owed>>
        /\ stage' = [NoFiles EXCEPT !["media"] = NewLib, !["db"] = NewLib]
    BY <1>2 DEF Extract
  <2>3. NewLib \in Libs /\ NewLib # pool
    BY <1>2, NewLibIsNew DEF Extract, InUse
  <2>4. stage'["media"] = NewLib /\ stage'["db"] = NewLib /\ stage'["wal"] = None
    BY <2>2 DEF NoFiles
  <2> QED
    BY <2>1, <2>2, <2>3, <2>4 DEF Files, OwnLog, NoForeignLog, AtRest, Quiet, Moved, Owed,
                                  OldIsKept, Answered
<1>3. CASE Guard(r)
  <2>1. Phase = "guard" /\ Phase' = "swap" /\ Doing' = Doing
    BY <1>3, GuardPasses
  <2>2. UNCHANGED <<fileVars, up, pool, loopVars, owed>> /\ pool \in Libs
    BY <1>3 DEF Guard, Allowed
  <2> QED
    BY <2>1, <2>2 DEF Files, OwnLog, NoForeignLog, AtRest, Quiet, Moved, Owed, OldIsKept,
                      Answered
<1>4. CASE Refused(r)
  <2>1. Phase \in BeforeSwap /\ Phase' = "free"
    BY <1>4, HolderIs, HolderEnds DEF Refused
  <2>2. UNCHANGED <<live, kept, pre, up, pool, had, owed>>
    BY <1>4 DEF Refused
  <2> QED
    BY <2>1, <2>2 DEF Files, OwnLog, NoForeignLog, AtRest, Quiet, Moved, Owed, OldIsKept,
                      Answered
<1> QED
  BY <1>1, <1>2, <1>3, <1>4

\* The pools are closed, and the directory is what the swap found.
LEMMA FilesClose ==
  ASSUME FileTypes, RequestTypes, OneHolder, Files, NEW r \in Requests, CloseForSwap(r)
  PROVE  Files'
<1> USE DEF BeforeSwap, Moving, Answering
<1>1. /\ up /\ mu' = mu /\ req[r].pc = "swap"
      /\ Goes(r, IF req[r].op = "reset" THEN "delete" ELSE "aside")
  BY DEF CloseForSwap, At
<1>2. Phase = "swap" /\ Doing = req[r].op
  BY <1>1, HolderIs DEF Held
<1>3. Phase' = (IF Doing = "reset" THEN "delete" ELSE "aside") /\ Doing' = Doing
  BY <1>1, <1>2, HolderGoes DEF Held
<1>4. PICK dir \in Folded(live, pool) :
        /\ live' = dir /\ had' = dir
        /\ list' = IF Doing = "reset" THEN {} ELSE Present(dir)
        /\ owed' = owed \cup Owes(dir, IF Doing = "reset" THEN {"db"} ELSE Entries)
  BY <1>2 DEF CloseForSwap
<1>5. UNCHANGED <<kept, pre, stage, up>> /\ pool' = Closed /\ ~asideDone'
  BY DEF CloseForSwap
<1>6. pool \in Libs /\ live["db"] = pool /\ live["wal"] = pool
  BY <1>1, <1>2 DEF Files, OwnLog, NoForeignLog, AtRest
<1>7. /\ dir \in Trees /\ dir \in Dirs
      /\ dir["db"] = pool /\ dir["media"] = live["media"] /\ dir["wal"] \in {None, pool}
  <2>1. dir = live \/ dir = [live EXCEPT !["wal"] = None]
    BY FoldedType DEF FileTypes
  <2> QED
    BY <1>6, <2>1, FoldedType, Changed, Points, TreeEntries DEF FileTypes
<1>8. \A e \in Entries : pre[e] = None
  BY <1>2, NoFilesIn DEF Files, AtRest, Quiet
<1>9. OwnLog'
  BY <1>4, <1>5, <1>7 DEF OwnLog, NoForeignLog
<1>10. AtRest'
  BY <1>3, <1>4, <1>5, <1>6, <1>7 DEF AtRest, Quiet
<1>11. Moved'
  <2>1. CASE Doing = "reset"
    <3>1. pre = NoFiles
      BY <1>2 DEF Files, AtRest, Quiet
    <3> QED
      BY <1>3, <1>4, <1>5, <1>6, <1>7, <2>1, <3>1 DEF Moved
  <2>2. CASE Doing # "reset"
    <3>1. /\ stage["db"] \in Libs /\ stage["db"] # pool
          /\ stage["media"] = stage["db"] /\ stage["wal"] = None
      BY <1>2, <2>2 DEF Files, AtRest
    <3>2. /\ \A e \in list' : (had'[e] # None /\ Left(e)')
          /\ \A e \in Entries \ list' : Aside(e)'
      BY <1>4, <1>5, <1>7, <1>8, <2>2 DEF Present, Left, Aside
    <3> QED
      BY <1>3, <1>4, <1>5, <1>7, <2>2, <3>1, <3>2 DEF Moved
  <2> QED
    BY <2>1, <2>2
<1>12. Owed'
  <2>1. \A x \in owed : x[1] # "wal" /\ x[1] \in Entries /\ x[2] # None
    BY <1>2, Points DEF Files, Owed
  <2>2. \A x \in owed : dir[x[1]] = x[2] \/ \E d \in kept : d[x[1]] = x[2]
    <3>1. \A x \in owed : live[x[1]] = x[2] \/ \E d \in kept : d[x[1]] = x[2]
      BY <1>8, <2>1 DEF Files, Owed, OldIsKept
    <3> QED
      BY <1>6, <1>7, <2>1, <3>1
  <2>3. \A x \in owed' : dir[x[1]] = x[2] \/ \E d \in kept : d[x[1]] = x[2]
    BY <1>4, <1>7, <2>2, OwesType
  <2>4. Phase' = "delete" => \A x \in owed' : x[1] # "wal"
    BY <1>3, <1>4, <1>7, <2>1, OwesType
  <2>5. \A d \in kept : d["wal"] = None
    BY DEF Files, Owed
  <2> QED
    BY <1>3, <1>4, <1>5, <2>3, <2>4, <2>5 DEF Owed, OldIsKept
<1>13. Answered'
  BY <1>3 DEF Answered
<1> QED
  BY <1>9, <1>10, <1>11, <1>12, <1>13 DEF Files

\* An entry goes aside; every entry has.
LEMMA FilesAside ==
  ASSUME FileTypes, RequestTypes, OneHolder, Files, NEW r \in Requests,
         MoveAside(r) \/ AsideIsDone(r)
  PROVE  Files'
<1> USE DEF BeforeSwap, Moving, Answering
<1>0. /\ Phase = "aside" /\ up /\ ~Quiet
      /\ pool = Closed /\ had["db"] \in Libs /\ had["wal"] \in {None, had["db"]}
  <2>1. Phase = "aside" /\ up
    BY HolderIs DEF MoveAside, AsideIsDone, At, Held
  <2> QED
    BY <2>1 DEF Files, AtRest, Quiet
<1>1. /\ ~asideDone
      /\ \A e \in list : had[e] # None /\ Left(e)
      /\ \A e \in Entries \ list : Aside(e)
      /\ stage["db"] \in Libs /\ stage["db"] # had["db"]
      /\ stage["media"] = stage["db"] /\ stage["wal"] = None
  BY <1>0 DEF Files, Moved
<1>2. /\ \A d \in kept : d["wal"] = None
      /\ \A x \in owed : had[x[1]] = x[2] \/ \E d \in kept : d[x[1]] = x[2]
  BY <1>0 DEF Files, Owed
<1>3. list \subseteq Entries
  BY DEF FileTypes
<1>4. CASE MoveAside(r)
  <2>1. PICK e \in list : /\ live' = [live EXCEPT ![e] = None]
                          /\ pre' = [pre EXCEPT ![e] = live[e]]
                          /\ list' = list \ {e}
    BY <1>4 DEF MoveAside, Moves
  <2>2. UNCHANGED <<kept, stage, up, pool, asideDone, had, owed, Phase, Doing>>
    BY <1>4 DEF MoveAside, Phase, Doing
  <2>3. /\ \A d \in Entries : live'[d] = IF d = e THEN None ELSE live[d]
        /\ \A d \in Entries : pre'[d] = IF d = e THEN had[e] ELSE pre[d]
    <3>1. e \in Entries /\ live \in Dirs /\ pre \in Dirs /\ live[e] = had[e]
      BY <1>1, <1>3, Points DEF Left
    <3>2. \A d \in Entries : live'[d] = IF d = e THEN None ELSE live[d]
      BY <2>1, <3>1, Changed
    <3>3. \A d \in Entries : pre'[d] = IF d = e THEN live[e] ELSE pre[d]
      BY <2>1, <3>1, Changed
    <3> QED
      BY <3>1, <3>2, <3>3
  <2>4. OwnLog'
    BY <1>0, <1>1, <1>3, <2>2, <2>3 DEF Files, OwnLog, NoForeignLog
  <2>5. AtRest'
    BY <1>0, <2>2 DEF AtRest, Quiet
  <2>6. Moved'
    <3>1. /\ \A d \in list' : (had'[d] # None /\ Left(d)')
          /\ \A d \in Entries \ list' : Aside(d)'
      BY <1>1, <1>3, <2>1, <2>2, <2>3 DEF Left, Aside
    <3> QED
      BY <1>0, <1>1, <2>2, <3>1 DEF Moved
  <2>7. Owed'
    <3>1. OldIsKept'
      <4> SUFFICES ASSUME NEW x \in owed
                   PROVE  live'[x[1]] = x[2] \/ \E d \in kept \cup {pre'} : d[x[1]] = x[2]
        BY <2>2 DEF OldIsKept
      <4>1. x[1] \in Entries /\ x[2] # None
        BY Points
      <4>2. \/ live[x[1]] = x[2] \/ pre[x[1]] = x[2] \/ \E d \in kept : d[x[1]] = x[2]
        BY DEF Files, Owed, OldIsKept
      <4>3. \A d \in list : pre[d] = None /\ had[d] = live[d]
        BY <1>1 DEF Left
      <4> QED
        BY <2>3, <4>1, <4>2, <4>3
    <3> QED
      BY <1>0, <1>2, <2>2, <3>1 DEF Owed
  <2>8. Answered'
    BY <1>0, <2>2 DEF Answered
  <2> QED
    BY <2>4, <2>5, <2>6, <2>7, <2>8 DEF Files
<1>5. CASE AsideIsDone(r)
  <2>1. /\ UNCHANGED <<live, pre, kept, stage, up, pool, had, owed>>
        /\ asideDone' /\ list = {} /\ list' = Present(stage)
    BY <1>5 DEF AsideIsDone, fileVars
  <2>2. Phase' = "in" /\ Doing' = Doing
    BY <1>5, HolderGoes DEF AsideIsDone, At, Held
  <2>3. \A e \in Entries : Aside(e)
    BY <1>1, <2>1
  <2>4. pre = had
    BY <2>3, SameDir, Points DEF Aside
  <2>5. live["db"] = None /\ live["wal"] = None
    BY <2>3 DEF Aside
  <2>6. "wal" \notin list' /\ "db" \in list' /\ "media" \in list'
    BY <1>1, <2>1 DEF Present
  <2>7. Moved'
    BY <1>1, <2>1, <2>2, <2>4, <2>5, <2>6 DEF Moved
  <2>8. AtRest' /\ OwnLog' /\ Answered'
    BY <1>0, <2>1, <2>2, <2>5 DEF AtRest, Quiet, OwnLog, NoForeignLog, Answered
  <2>9. Owed'
    BY <1>2, <2>1, <2>2 DEF Files, Owed, OldIsKept
  <2> QED
    BY <2>7, <2>8, <2>9 DEF Files
<1> QED
  BY <1>4, <1>5

\* An entry of the archive comes in; a rename fails.
LEMMA FilesIn ==
  ASSUME FileTypes, RequestTypes, OneHolder, Files, NEW r \in Requests,
         MoveIn(r) \/ MoveFails(r)
  PROVE  Files'
<1> USE DEF BeforeSwap, Moving, Answering
<1>0. /\ Phase \in {"aside", "in"} /\ up /\ ~Quiet /\ (MoveIn(r) => Phase = "in")
      /\ pool = Closed /\ had["db"] \in Libs /\ had["wal"] \in {None, had["db"]}
  <2>1. Phase \in {"aside", "in"} /\ up /\ (MoveIn(r) => Phase = "in")
    BY HolderIs DEF MoveIn, MoveFails, At, Held
  <2> QED
    BY <2>1 DEF Files, AtRest, Quiet
<1>1. /\ \A d \in kept : d["wal"] = None
      /\ \A x \in owed : had[x[1]] = x[2] \/ \E d \in kept : d[x[1]] = x[2]
      /\ OldIsKept
  BY <1>0 DEF Files, Owed
<1>2. list \subseteq Entries
  BY DEF FileTypes
<1>3. Phase = "in" =>
        /\ asideDone /\ pre = had /\ live["wal"] = None /\ stage["wal"] = None
        /\ "wal" \notin list /\ ("db" \in list => live["db"] = None)
  BY DEF Files, Moved
<1>4. CASE MoveIn(r)
  <2>1. PICK e \in list : /\ live' = [live EXCEPT ![e] = stage[e]]
                          /\ stage' = [stage EXCEPT ![e] = None]
                          /\ list' = list \ {e} /\ Fits(live, e)
    BY <1>4 DEF MoveIn, Moves
  <2>2. UNCHANGED <<kept, pre, up, pool, asideDone, had, owed, Phase, Doing>> /\ Phase = "in"
    BY <1>0, <1>4 DEF MoveIn, Phase, Doing
  <2>3. /\ \A d \in Entries : live'[d] = IF d = e THEN stage[e] ELSE live[d]
        /\ \A d \in Entries : stage'[d] = IF d = e THEN None ELSE stage[d]
        /\ e \in {"media", "db"} /\ live[e] = None
    <3>1. /\ e \in Entries /\ live \in Dirs /\ stage \in Dirs
          /\ e \in {"media", "db"} /\ live[e] = None
      BY <1>2, <1>3, <2>1, <2>2, Points DEF Fits
    <3>2. \A d \in Entries : live'[d] = IF d = e THEN stage[e] ELSE live[d]
      BY <2>1, <3>1, Changed
    <3>3. \A d \in Entries : stage'[d] = IF d = e THEN None ELSE stage[d]
      BY <2>1, <3>1, Changed
    <3> QED
      BY <3>1, <3>2, <3>3
  <2>4. PICK lib \in Libs \ {had["db"]} :
          \A d \in {"media", "db"} : IF d \in list THEN stage[d] = lib ELSE live[d] = lib
    BY <2>2 DEF Files, Moved
  <2>5. /\ \A d \in {"media", "db"} : IF d \in list' THEN stage'[d] = lib ELSE live'[d] = lib
        /\ live'["wal"] = None /\ stage'["wal"] = None
        /\ "db" \in list' => live'["db"] = None
    BY <1>3, <2>1, <2>2, <2>3, <2>4
  <2>6. Moved'
    BY <1>3, <2>1, <2>2, <2>4, <2>5 DEF Moved
  <2>7. AtRest' /\ OwnLog' /\ Answered'
    BY <1>0, <2>2, <2>5 DEF AtRest, Quiet, OwnLog, NoForeignLog, Answered
  <2>8. OldIsKept'
    <3> SUFFICES ASSUME NEW x \in owed
                 PROVE  live'[x[1]] = x[2] \/ \E d \in kept \cup {pre} : d[x[1]] = x[2]
      BY <2>2 DEF OldIsKept
    <3>1. x[1] \in Entries /\ x[2] # None
      BY Points
    <3> QED
      BY <1>1, <2>3, <3>1 DEF OldIsKept
  <2>9. Owed'
    BY <1>1, <2>2, <2>8 DEF Owed
  <2> QED
    BY <2>6, <2>7, <2>9 DEF Files
<1>5. CASE MoveFails(r)
  <2>1. UNCHANGED <<fileVars, up, pool, asideDone, had, owed, list>>
    BY <1>5 DEF MoveFails, AfterFailedMove
  <2>2. Phase' = "failed" /\ Doing' = Doing
    BY <1>5, HolderGoes DEF MoveFails, AfterFailedMove, Held
  <2>3. CASE Phase = "aside"
    <3>1. ~asideDone /\ \A e \in Entries : Left(e) \/ Aside(e)
      BY <2>3 DEF Files, Moved
    <3>2. live["wal"] \in {None, had["db"]} /\ pre["wal"] \in {None, had["wal"]}
      BY <1>0, <3>1 DEF Left, Aside
    <3>3. live["wal"] = had["wal"] \/ pre["wal"] = had["wal"]
      BY <3>1 DEF Left, Aside
    <3>4. Moved'
      BY <2>1, <2>2, <3>1, <3>2 DEF Moved, Left, Aside, fileVars
    <3>5. Owed'
      BY <1>1, <2>1, <2>2, <3>3 DEF Owed, OldIsKept, fileVars
    <3> QED
      BY <1>0, <2>1, <2>2, <3>4, <3>5
      DEF Files, AtRest, Quiet, OwnLog, NoForeignLog, Answered, fileVars
  <2>4. CASE Phase = "in"
    <3>1. Moved'
      BY <1>3, <2>1, <2>2, <2>4 DEF Moved, fileVars
    <3>2. Owed'
      BY <1>1, <1>3, <2>1, <2>2, <2>4 DEF Owed, OldIsKept, fileVars
    <3> QED
      BY <1>0, <2>1, <2>2, <3>1, <3>2
      DEF Files, AtRest, Quiet, OwnLog, NoForeignLog, Answered, fileVars
  <2> QED
    BY <1>0, <2>3, <2>4
<1> QED
  BY <1>4, <1>5

\* Opening the pools: what is open is beside its own log, and the log that was there is
\* replayed into it, so that only other logs are owed still.
LEMMA Reopening ==
  ASSUME FileTypes, OwnLog, OldIsKept, NEW ok \in BOOLEAN, Reopened(ok),
         UNCHANGED <<kept, pre, up>>
  PROVE  /\ OwnLog' /\ OldIsKept'
         /\ live'["media"] = live["media"] /\ live'["db"] = live["db"]
         /\ \/ UNCHANGED <<pool, live, owed>>
            \/ /\ live["db"] # None /\ pool' = live["db"] /\ live'["wal"] = live["db"]
               /\ \A x \in owed' : x \in owed /\ x # <<"wal", live["wal"]>>
<1>1. CASE UNCHANGED <<pool, live, owed>>
  BY <1>1 DEF OwnLog, NoForeignLog, OldIsKept
<1>2. CASE /\ live["db"] # None /\ pool' = live["db"]
           /\ live' = [live EXCEPT !["wal"] = IF live["wal"] = None THEN live["db"]
                                                               ELSE live["wal"]]
           /\ owed' = owed \ {<<"wal", live["wal"]>>}
  <2>1. live["wal"] \in {None, live["db"]}
    BY <1>2 DEF OwnLog
  <2>2. \A d \in Entries : live'[d] = IF d = "wal" THEN live["db"] ELSE live[d]
    <3>1. live' = [live EXCEPT !["wal"] = live["db"]]
      BY <1>2, <2>1
    <3>2. live \in Dirs /\ "wal" \in Entries
      BY Points
    <3> QED
      BY <3>1, <3>2, Changed
  <2>3. OwnLog'
    BY <1>2, <2>2 DEF OwnLog, NoForeignLog
  <2>4. OldIsKept'
    <3> SUFFICES ASSUME NEW x \in owed, x # <<"wal", live["wal"]>>
                 PROVE  live'[x[1]] = x[2] \/ \E d \in kept \cup {pre} : d[x[1]] = x[2]
      BY <1>2 DEF OldIsKept
    <3>1. x[1] \in Entries /\ x = <<x[1], x[2]>>
      BY Points
    <3>2. x[1] = "wal" => x[2] # live["wal"]
      BY <3>1
    <3> QED
      BY <2>2, <3>1, <3>2 DEF OldIsKept
  <2> QED
    BY <1>2, <2>2, <2>3, <2>4
<1> QED
  BY <1>1, <1>2, ReopenedCases

\* The pools open on the archive, or on what a failed move left.
LEMMA FilesReopen ==
  ASSUME FileTypes, RequestTypes, OneHolder, Files, NEW r \in Requests,
         BringUp(r) \/ ReopenAfterFailure(r)
  PROVE  Files'
<1> USE DEF BeforeSwap, Moving, Answering
<1>0. /\ Phase \in {"in", "failed"} /\ ~Quiet /\ Phase' \in {"restored", "undo"}
      /\ Doing' = Doing /\ (BringUp(r) => Phase = "in" /\ list = {})
      /\ (ReopenAfterFailure(r) => Phase = "failed" /\ Phase' = "undo")
  <2>1. CASE BringUp(r)
    <3>1. /\ req[r].pc = "in" /\ list = {} /\ mu' = mu
          /\ \E l \in {"restored", "undo"} : Goes(r, l)
      BY <2>1 DEF BringUp, At
    <3>2. ~ReopenAfterFailure(r)
      BY <3>1 DEF ReopenAfterFailure, At
    <3> QED
      BY <3>1, <3>2, HolderIs, HolderGoes DEF Held, Quiet
  <2>2. CASE ReopenAfterFailure(r)
    <3>1. req[r].pc = "failed" /\ mu' = mu /\ Goes(r, "undo")
      BY <2>2 DEF ReopenAfterFailure, At
    <3>2. ~BringUp(r)
      BY <3>1 DEF BringUp, At
    <3> QED
      BY <3>1, <3>2, HolderIs, HolderGoes DEF Held, Quiet
  <2> QED
    BY <2>1, <2>2
<1>1. /\ pool = Closed /\ had["db"] \in Libs /\ had["wal"] \in {None, had["db"]}
      /\ OwnLog /\ OldIsKept
      /\ \A d \in kept : d["wal"] = None
      /\ \A x \in owed : had[x[1]] = x[2] \/ \E d \in kept : d[x[1]] = x[2]
  BY <1>0 DEF Files, AtRest, Quiet, Owed
<1>2. UNCHANGED <<kept, pre, stage, up, loopVars>>
  BY DEF BringUp, ReopenAfterFailure
<1>3. PICK ok \in BOOLEAN : Reopened(ok)
  BY DEF BringUp, ReopenAfterFailure
<1>4. /\ OwnLog' /\ OldIsKept'
      /\ live'["media"] = live["media"] /\ live'["db"] = live["db"]
      /\ \/ UNCHANGED <<pool, live, owed>>
         \/ /\ live["db"] # None /\ pool' = live["db"] /\ live'["wal"] = live["db"]
            /\ \A x \in owed' : x \in owed /\ x # <<"wal", live["wal"]>>
  BY <1>1, <1>2, <1>3, Reopening
<1>5. \A x \in owed' : x \in owed
  BY <1>4
<1>6. AtRest'
  BY <1>0, <1>1, <1>2, <1>4 DEF AtRest, Quiet, loopVars
<1>7. CASE BringUp(r)
  <2>1. Phase = "in" /\ list = {} /\ asideDone /\ pre = had
    BY <1>0, <1>7 DEF Files, Moved
  <2>2. Phase' = "undo" => Moved' /\ Answered'
    BY <1>2, <2>1 DEF Moved, Answered, loopVars
  <2>3. Owed'
    BY <1>0, <1>1, <1>2, <1>4, <1>5, <2>1 DEF Owed, loopVars
  <2>4. CASE Phase' = "restored"
    <3>1. Reopened(TRUE)
      <4>1. ~Goes(r, "undo")
        <5> SUFFICES ASSUME Goes(r, "undo") PROVE FALSE
          OBVIOUS
        <5>1. Phase' = "undo"
          BY <1>7, HolderGoes DEF BringUp, At, Held
        <5> QED
          BY <2>4, <5>1
      <4> QED
        BY <1>7, <4>1 DEF BringUp
    <3>2. live["db"] # None /\ pool' = live["db"]
      BY <3>1 DEF Reopened
    <3>3. PICK lib \in Libs \ {had["db"]} : live["media"] = lib /\ live["db"] = lib
      BY <2>1 DEF Files, Moved
    <3>4. live["wal"] = None
      BY <2>1 DEF Files, Moved
    <3>5. live' = [live EXCEPT !["wal"] = live["db"]]
      BY <3>1, <3>4 DEF Reopened
    <3>6. \A d \in Entries : live'[d] = IF d = "wal" THEN lib ELSE live[d]
      <4>1. live \in Dirs /\ "wal" \in Entries
        BY Points
      <4> QED
        BY <3>3, <3>5, <4>1, Changed
    <3>7. live' = [e \in Entries |-> pool']
      <4>1. DOMAIN live = Entries
        BY Points DEF Dirs
      <4>2. live' = [e \in Entries |-> live'[e]]
        BY <3>5, <4>1
      <4>3. \A e \in Entries : live'[e] = pool'
        BY <3>2, <3>3, <3>6
      <4> QED
        BY <4>2, <4>3
    <3>8. Answered'
      BY <1>2, <2>1, <2>4, <3>2, <3>3, <3>7 DEF Answered, loopVars
    <3>9. Moved'
      BY <2>4 DEF Moved
    <3> QED
      BY <1>4, <1>6, <2>3, <3>8, <3>9 DEF Files
  <2> QED
    BY <1>0, <1>4, <1>6, <2>2, <2>3, <2>4 DEF Files
<1>8. CASE ReopenAfterFailure(r)
  <2>1. Phase = "failed" /\ Phase' = "undo"
    BY <1>0, <1>8
  <2>2. IF asideDone THEN pre = had
        ELSE /\ \A e \in {"media", "db"} : Left(e) \/ Aside(e)
             /\ live["wal"] \in {None, had["db"]} /\ pre["wal"] \in {None, had["wal"]}
    BY <2>1 DEF Files, Moved
  <2>3. Moved'
    <3>1. CASE asideDone
      BY <1>2, <2>1, <2>2, <3>1 DEF Moved, loopVars
    <3>2. CASE ~asideDone
      <4>1. live'["wal"] \in {None, had["db"]}
        BY <1>1, <1>4, <2>2, <3>2 DEF Left, Aside
      <4>2. \A e \in {"media", "db"} : Left(e)' \/ Aside(e)'
        BY <1>2, <1>4, <2>2, <3>2 DEF Left, Aside, loopVars
      <4> QED
        BY <1>2, <2>1, <2>2, <3>2, <4>1, <4>2 DEF Moved, loopVars
    <3> QED
      BY <3>1, <3>2
  <2>4. <<"wal", had["wal"]>> \in owed => live["wal"] = had["wal"] \/ pre["wal"] = had["wal"]
    BY <2>1 DEF Files, Owed
  <2>5. /\ <<"wal", had["wal"]>> \in owed' =>
             live'["wal"] = had["wal"] \/ pre["wal"] = had["wal"]
        /\ pool' # Closed /\ <<"wal", had["wal"]>> \in owed' => pre["wal"] = had["wal"]
    BY <1>1, <1>4, <2>4
  <2>6. Owed'
    BY <1>1, <1>2, <1>4, <1>5, <2>1, <2>5 DEF Owed, loopVars
  <2> QED
    BY <1>4, <1>6, <2>1, <2>3, <2>6 DEF Files, Answered
<1> QED
  BY <1>7, <1>8

\* The rollback begins, over an archive that came in or a half that went aside.
LEMMA FilesUndo ==
  ASSUME FileTypes, RequestTypes, OneHolder, Files, NEW r \in Requests, Undo(r)
  PROVE  Files'
<1> USE DEF BeforeSwap, Moving, Answering
<1>0. /\ Phase = "undo" /\ Phase' = (IF asideDone THEN "clear" ELSE "back") /\ Doing' = Doing
      /\ up
  BY HolderIs, HolderGoes DEF Undo, At, Held, Clears
<1>1. PICK dir \in IF pool = Closed THEN {live} ELSE Folded(live, pool) :
         live' = dir /\ list' = Present(IF asideDone THEN dir ELSE pre)
  BY DEF Undo, Clears
<1>2. UNCHANGED <<kept, pre, stage, up, asideDone, had, owed>> /\ pool' = Closed
  BY DEF Undo
<1>3. /\ pool \in {Closed, live["db"]} /\ had["db"] \in Libs /\ had["wal"] \in {None, had["db"]}
      /\ OwnLog /\ OldIsKept
      /\ \A d \in kept : d["wal"] = None
      /\ \A x \in owed : had[x[1]] = x[2] \/ \E d \in kept : d[x[1]] = x[2]
  BY <1>0 DEF Files, AtRest, Quiet, Owed
<1>4. /\ \A d \in Entries : d # "wal" => dir[d] = live[d]
      /\ \/ dir["wal"] = live["wal"]
         \/ pool # Closed /\ live["wal"] = pool /\ dir["wal"] = None
  <2>1. dir = live \/ /\ pool # Closed /\ live["wal"] = pool
                      /\ dir = [live EXCEPT !["wal"] = None]
    BY FoldedType DEF FileTypes
  <2>2. live \in Dirs /\ "wal" \in Entries
    BY Points
  <2> QED
    BY <2>1, <2>2, Changed
<1>5. <<"wal", had["wal"]>> \in owed =>
        /\ live["wal"] = had["wal"] \/ pre["wal"] = had["wal"]
        /\ pool # Closed /\ ~asideDone => pre["wal"] = had["wal"]
  BY <1>0 DEF Files, Owed
<1>6. IF asideDone THEN pre = had
      ELSE /\ \A e \in {"media", "db"} : Left(e) \/ Aside(e)
           /\ live["wal"] \in {None, had["db"]} /\ pre["wal"] \in {None, had["wal"]}
  BY <1>0 DEF Files, Moved
<1>7. dir["wal"] \in {None, live["wal"]}
  BY <1>4
<1>8. AtRest' /\ OwnLog' /\ Answered'
  BY <1>0, <1>1, <1>2, <1>3, <1>4, <1>7 DEF AtRest, Quiet, OwnLog, NoForeignLog, Answered
<1>9. CASE asideDone
  <2>1. list' = Present(dir) /\ pre = had
    BY <1>1, <1>6, <1>9
  <2>2. \A e \in Entries \ list' : dir[e] = None
    BY <2>1 DEF Present
  <2>3. Moved'
    BY <1>0, <1>1, <1>2, <1>9, <2>1, <2>2 DEF Moved
  <2>4. OldIsKept'
    BY <1>1, <1>2, <1>3, <2>1 DEF OldIsKept
  <2>5. Owed'
    BY <1>0, <1>1, <1>2, <1>3, <1>9, <2>4 DEF Owed
  <2> QED
    BY <1>8, <2>3, <2>5 DEF Files
<1>10. CASE ~asideDone
  <2>1. /\ list' = Present(pre)
        /\ \A e \in {"media", "db"} : Left(e) \/ Aside(e)
        /\ live["wal"] \in {None, had["db"]} /\ pre["wal"] \in {None, had["wal"]}
    BY <1>1, <1>6, <1>10
  <2>2. /\ \A e \in list' : pre[e] = had[e] /\ had[e] # None
        /\ \A e \in Entries \ list' : pre[e] = None
    BY <2>1 DEF Present, Left, Aside
  <2>3. dir["db"] = IF "db" \in list' THEN None ELSE had["db"]
    BY <1>3, <1>4, <2>1, <2>2 DEF Left, Aside
  <2>4. IF "media" \in list' \/ had["media"] = None THEN dir["media"] \in {None, Stray}
        ELSE dir["media"] = had["media"]
    BY <1>4, <2>1, <2>2 DEF Left, Aside
  <2>5. Moved'
    BY <1>0, <1>1, <1>2, <1>7, <1>10, <2>1, <2>2, <2>3, <2>4 DEF Moved
  <2>6. <<"wal", had["wal"]>> \in owed => dir["wal"] = had["wal"] \/ pre["wal"] = had["wal"]
    BY <1>4, <1>5, <1>10
  <2>7. OldIsKept'
    <3> SUFFICES ASSUME NEW x \in owed
                 PROVE  dir[x[1]] = x[2] \/ \E d \in kept \cup {pre} : d[x[1]] = x[2]
      BY <1>1, <1>2 DEF OldIsKept
    <3>1. x[1] \in Entries /\ x[2] # None /\ x = <<x[1], x[2]>>
      BY Points
    <3>2. CASE x[1] = "wal"
      <4>1. x[2] = had["wal"]
        BY <1>3, <3>1, <3>2
      <4> QED
        BY <2>6, <3>1, <3>2, <4>1
    <3>3. CASE x[1] # "wal"
      BY <1>3, <1>4, <3>1, <3>3 DEF OldIsKept
    <3> QED
      BY <3>2, <3>3
  <2>8. Owed'
    BY <1>0, <1>1, <1>2, <1>3, <1>10, <2>6, <2>7 DEF Owed
  <2> QED
    BY <1>8, <2>5, <2>8 DEF Files
<1> QED
  BY <1>9, <1>10

\* What came in goes out of the way.
LEMMA FilesClear ==
  ASSUME FileTypes, RequestTypes, OneHolder, Files, NEW r \in Requests, Clear(r)
  PROVE  Files'
<1> USE DEF BeforeSwap, Moving, Answering
<1>0. Phase = "clear" /\ up
  BY HolderIs DEF Clear, At, Held
<1>1. UNCHANGED <<kept, pre, stage, up, pool, asideDone, had, owed>>
  BY DEF Clear
<1>2. /\ pool = Closed /\ had["db"] \in Libs /\ had["wal"] \in {None, had["db"]}
      /\ pre = had /\ OwnLog
      /\ \A e \in {"db", "wal"} : e \notin list => live[e] = None
      /\ "media" \notin list => live["media"] \in {None, Stray}
      /\ \A d \in kept : d["wal"] = None
      /\ \A x \in owed : had[x[1]] = x[2] \/ \E d \in kept : d[x[1]] = x[2]
  BY <1>0 DEF Files, AtRest, Quiet, Moved, Owed
<1>3. OldIsKept'
  BY <1>1, <1>2 DEF OldIsKept
<1>4. ASSUME NEW e \in list, live' = [live EXCEPT ![e] = None], list' = list \ {e},
             UNCHANGED req
      PROVE  Files'
  <2>1. Phase' = "clear" /\ Doing' = Doing
    BY <1>0, <1>4 DEF Clear, Phase, Doing
  <2>2. \A d \in Entries : live'[d] = IF d = e THEN None ELSE live[d]
    <3>1. live \in Dirs /\ e \in Entries
      BY Points DEF FileTypes
    <3> QED
      BY <1>4, <3>1, Changed
  <2>3. OwnLog' /\ AtRest' /\ Answered'
    BY <1>1, <1>2, <2>1, <2>2 DEF OwnLog, NoForeignLog, AtRest, Quiet, Answered
  <2>4. Moved'
    BY <1>1, <1>2, <1>4, <2>1, <2>2 DEF Moved
  <2>5. Owed'
    BY <1>1, <1>2, <1>3, <2>1 DEF Owed
  <2> QED
    BY <2>3, <2>4, <2>5 DEF Files
<1>5. CASE list = {} /\ list' = Present(pre) /\ Goes(r, "back") /\ UNCHANGED live
  <2>1. Phase' = "back" /\ Doing' = Doing
    BY <1>5, HolderGoes DEF Clear, At, Held
  <2>2. OwnLog' /\ AtRest' /\ Answered'
    BY <1>1, <1>2, <1>5, <2>1 DEF OwnLog, NoForeignLog, AtRest, Quiet, Answered
  <2>3. /\ \A e \in list' : pre[e] = had[e] /\ had[e] # None
        /\ \A e \in Entries \ list' : pre[e] = None
        /\ "db" \in list'
        /\ had["media"] # None => "media" \in list'
    BY <1>2, <1>5 DEF Present
  <2>4. Moved'
    BY <1>1, <1>2, <1>5, <2>1, <2>3 DEF Moved
  <2>5. Owed'
    BY <1>1, <1>2, <1>3, <2>1 DEF Owed
  <2> QED
    BY <2>2, <2>4, <2>5 DEF Files
<1> QED
  BY <1>4, <1>5 DEF Clear, Moves

\* An entry comes back; the previous files are open.
LEMMA FilesBack ==
  ASSUME FileTypes, RequestTypes, OneHolder, Files, NEW r \in Requests,
         MoveBack(r) \/ OldIsUp(r)
  PROVE  Files'
<1> USE DEF BeforeSwap, Moving, Answering
<1>0. Phase = "back" /\ up
  BY HolderIs DEF MoveBack, OldIsUp, At, Held
<1>1. /\ pool = Closed /\ had["db"] \in Libs /\ had["wal"] \in {None, had["db"]}
      /\ OwnLog /\ OldIsKept
      /\ \A d \in kept : d["wal"] = None
      /\ \A x \in owed : had[x[1]] = x[2] \/ \E d \in kept : d[x[1]] = x[2]
      /\ <<"wal", had["wal"]>> \in owed => live["wal"] = had["wal"] \/ pre["wal"] = had["wal"]
  BY <1>0 DEF Files, AtRest, Quiet, Owed
<1>2. /\ \A e \in list : pre[e] = had[e] /\ had[e] # None
      /\ \A e \in Entries \ list : pre[e] = None
      /\ live["wal"] \in {None, had["db"]}
      /\ live["db"] = IF "db" \in list THEN None ELSE had["db"]
      /\ IF "media" \in list \/ had["media"] = None THEN live["media"] \in {None, Stray}
         ELSE live["media"] = had["media"]
  BY <1>0 DEF Files, Moved
<1>3. CASE MoveBack(r)
  <2>1. PICK e \in list : /\ live' = [live EXCEPT ![e] = pre[e]]
                          /\ pre' = [pre EXCEPT ![e] = None]
                          /\ list' = list \ {e} /\ Fits(live, e)
    BY <1>3 DEF MoveBack, Moves
  <2>2. UNCHANGED <<kept, stage, up, pool, asideDone, had, owed, Phase, Doing>>
    BY <1>3 DEF MoveBack, Phase, Doing
  <2>3. /\ e \in Entries /\ live \in Dirs /\ pre \in Dirs
        /\ pre[e] = had[e] /\ had[e] # None /\ (e = "media" => live[e] = None)
    BY <1>2, <2>1, Points DEF FileTypes, Fits
  <2>4. \A d \in Entries : live'[d] = IF d = e THEN had[e] ELSE live[d]
    BY <2>1, <2>3, Changed
  <2>5. \A d \in Entries : pre'[d] = IF d = e THEN None ELSE pre[d]
    BY <2>1, <2>3, Changed
  <2>6. live'["wal"] \in {None, had["db"]}
    BY <1>1, <1>2, <2>3, <2>4
  <2>7. live'["db"] = IF "db" \in list' THEN None ELSE had["db"]
    BY <1>2, <2>1, <2>3, <2>4
  <2>8. IF "media" \in list' \/ had["media"] = None THEN live'["media"] \in {None, Stray}
        ELSE live'["media"] = had["media"]
    BY <1>2, <2>1, <2>3, <2>4
  <2>9. Moved'
    BY <1>0, <1>2, <2>1, <2>2, <2>5, <2>6, <2>7, <2>8 DEF Moved
  <2>10. OwnLog' /\ AtRest' /\ Answered'
    BY <1>0, <1>1, <2>2, <2>6, <2>7 DEF OwnLog, NoForeignLog, AtRest, Quiet, Answered
  <2>11. <<"wal", had["wal"]>> \in owed =>
           live'["wal"] = had["wal"] \/ pre'["wal"] = had["wal"]
    BY <1>1, <2>4, <2>5
  <2>12. OldIsKept'
    <3> SUFFICES ASSUME NEW x \in owed
                 PROVE  live'[x[1]] = x[2] \/ \E d \in kept \cup {pre'} : d[x[1]] = x[2]
      BY <2>2 DEF OldIsKept
    <3>1. x[1] \in Entries /\ x[2] # None
      BY Points
    <3>2. \/ live[x[1]] = x[2] \/ pre[x[1]] = x[2] \/ \E d \in kept : d[x[1]] = x[2]
      BY <1>1 DEF OldIsKept
    <3>3. CASE x[1] # e
      BY <2>4, <2>5, <3>1, <3>2, <3>3
    <3>4. CASE x[1] = e
      <4>1. live[e] = None \/ (e = "wal" /\ live[e] = had[e])
        BY <1>1, <1>2, <2>1, <2>3
      <4> QED
        BY <2>3, <2>4, <3>1, <3>2, <3>4, <4>1
    <3> QED
      BY <3>3, <3>4
  <2>13. Owed'
    BY <1>0, <1>1, <2>2, <2>11, <2>12 DEF Owed
  <2> QED
    BY <2>9, <2>10, <2>13 DEF Files
<1>4. CASE OldIsUp(r)
  <2>1. UNCHANGED <<kept, pre, stage, up, asideDone, had, list>> /\ list = {} /\ Reopened(TRUE)
    BY <1>4 DEF OldIsUp, loopVars
  <2>2. Phase' = "intact" /\ Doing' = Doing
    BY <1>4, HolderGoes DEF OldIsUp, At, Held
  <2>3. /\ OwnLog' /\ OldIsKept'
        /\ live'["media"] = live["media"] /\ live'["db"] = live["db"]
        /\ pool' = live["db"] /\ live'["wal"] = live["db"]
        /\ \A x \in owed' : x \in owed /\ x # <<"wal", live["wal"]>>
    <3>1. live["db"] # None /\ pool' = live["db"]
      BY <2>1 DEF Reopened
    <3>2. pool' # pool
      BY <1>1, <3>1
    <3> QED
      BY <1>1, <2>1, <3>1, <3>2, Reopening
  <2>4. pre = NoFiles
    BY <1>2, <2>1, SameDir, Points, NoFilesIn
  <2>5. live["db"] = had["db"]
    BY <1>2, <2>1
  <2>6. Answered'
    BY <1>2, <2>1, <2>2, <2>3, <2>4, <2>5 DEF Answered
  <2>7. AtRest' /\ Moved'
    BY <1>1, <2>1, <2>2 DEF AtRest, Quiet, Moved
  <2>8. \A x \in owed' : x[1] # "wal"
    <3> SUFFICES ASSUME NEW x \in owed', x[1] = "wal" PROVE FALSE
      OBVIOUS
    <3>1. x \in owed /\ x = <<"wal", x[2]>> /\ x[2] # None /\ x[2] # live["wal"]
      BY <2>3, Points
    <3>2. x[2] = had["wal"]
      BY <1>1, <3>1
    <3>3. pre["wal"] = None
      BY <1>2, <2>1
    <3> QED
      BY <1>1, <3>1, <3>2, <3>3
  <2>9. Owed'
    BY <1>1, <2>1, <2>2, <2>3, <2>8 DEF Owed
  <2> QED
    BY <2>3, <2>6, <2>7, <2>9 DEF Files
<1> QED
  BY <1>3, <1>4

\* The two answers of a restore.
LEMMA FilesAnswer ==
  ASSUME FileTypes, RequestTypes, OneHolder, Files, NEW r \in Requests,
         Intact(r) \/ Restored(r)
  PROVE  Files'
<1> USE DEF BeforeSwap, Moving, Answering
<1>1. CASE Intact(r)
  <2>1. Phase = "intact" /\ Phase' = "free"
    BY <1>1, HolderIs, HolderEnds DEF Intact, At, Held
  <2>2. UNCHANGED <<live, kept, pre, up, pool, owed>> /\ had' = NoFiles
    BY <1>1 DEF Intact
  <2>3. pre = NoFiles
    BY <2>1 DEF Files, Answered
  <2> QED
    BY <2>1, <2>2, <2>3 DEF Files, OwnLog, NoForeignLog, AtRest, Quiet, Moved, Owed,
                            OldIsKept, Answered
<1>2. CASE Restored(r)
  <2>1. Phase = "restored" /\ Phase' = "free"
    BY <1>2, HolderIs, HolderEnds DEF Restored, At, Held
  <2>2. /\ UNCHANGED <<live, up, pool>> /\ had' = NoFiles /\ pre' = NoFiles
        /\ kept' = {[pre EXCEPT !["wal"] = None]} /\ owed' = Owes(had, {"media", "db"})
    BY <1>2 DEF Restored
  <2>3. pre = had
    BY <2>1 DEF Files, Answered
  <2> DEFINE dir == [pre EXCEPT !["wal"] = None]
  <2>4. \A d \in Entries : dir[d] = IF d = "wal" THEN None ELSE had[d]
    <3>1. pre \in Dirs
      BY Points
    <3> QED
      BY <2>3, <3>1, Changed
  <2>5. \A x \in owed' : x[1] \in {"media", "db"} /\ x[2] = had[x[1]]
    <3>1. had \in Trees
      BY DEF FileTypes
    <3> QED
      BY <2>2, <3>1, OwesType
  <2> HIDE DEF dir
  <2>6. kept' = {dir}
    BY <2>2 DEF dir
  <2>7. Owed'
    BY <2>1, <2>2, <2>4, <2>5, <2>6 DEF Owed, OldIsKept
  <2> QED
    BY <2>1, <2>2, <2>7 DEF Files, OwnLog, NoForeignLog, AtRest, Quiet, Moved, Answered
<1> QED
  BY <1>1, <1>2

\* A factory reset.
LEMMA FilesReset ==
  ASSUME FileTypes, RequestTypes, OneHolder, Files, NEW r \in Requests, ResetStep(r)
  PROVE  Files'
<1> USE DEF BeforeSwap, Moving, Answering
<1>0. /\ Phase = "delete" /\ up
      /\ (EmptyDatabase(r) \/ ResetFails(r)) => Phase' = "free"
  BY HolderIs, HolderEnds
  DEF ResetStep, DeleteLog, DeleteDatabase, EmptyDatabase, ResetFails, At, Held
<1>1. /\ pool = Closed /\ had["db"] \in Libs /\ had["wal"] \in {None, had["db"]}
      /\ pre = NoFiles /\ OwnLog /\ OldIsKept
      /\ live["db"] \in {None, had["db"]} /\ (live["db"] = None => live["wal"] = None)
      /\ live["wal"] \in {None, had["db"]}
      /\ \A d \in kept : d["wal"] = None
      /\ \A x \in owed : x[1] # "wal"
  BY <1>0 DEF Files, AtRest, Quiet, Moved, Owed
<1>2. /\ \A x \in owed : x[1] \in Entries /\ x[2] # None /\ x = <<x[1], x[2]>>
      /\ \A x \in owed : live[x[1]] = x[2] \/ \E d \in kept : d[x[1]] = x[2]
      /\ live \in Dirs
  BY <1>1, Points, NoFilesIn DEF OldIsKept
<1>3. CASE DeleteLog(r) \/ DeleteDatabase(r)
  <2>1. UNCHANGED <<kept, pre, up, pool, asideDone, had, Phase, Doing>>
    BY <1>3 DEF DeleteLog, DeleteDatabase, loopVars, Phase, Doing
  <2>2. CASE DeleteLog(r)
    <3>1. owed' = owed /\ \A d \in Entries : live'[d] = IF d = "wal" THEN None ELSE live[d]
      <4>1. live' = [live EXCEPT !["wal"] = None] /\ owed' = owed /\ "wal" \in Entries
        BY <2>2 DEF DeleteLog
      <4> QED
        BY <1>2, <4>1, Changed
    <3>2. OldIsKept'
      BY <1>1, <1>2, <2>1, <3>1 DEF OldIsKept
    <3> QED
      BY <1>0, <1>1, <2>1, <3>1, <3>2 DEF Files, OwnLog, NoForeignLog, AtRest, Quiet, Moved,
                                          Owed, Answered
  <2>3. CASE DeleteDatabase(r)
    <3>1. /\ owed' = owed \ {<<"db", had["db"]>>} /\ live["wal"] = None /\ live["db"] # None
          /\ \A d \in Entries : live'[d] = IF d = "db" THEN None ELSE live[d]
      <4>1. /\ live' = [live EXCEPT !["db"] = None] /\ "db" \in Entries
            /\ owed' = owed \ {<<"db", had["db"]>>} /\ live["wal"] = None /\ live["db"] # None
        BY <2>3 DEF DeleteDatabase
      <4> QED
        BY <1>2, <4>1, Changed
    <3>2. OldIsKept'
      <4> SUFFICES ASSUME NEW x \in owed, x # <<"db", had["db"]>>
                   PROVE  live'[x[1]] = x[2] \/ \E d \in kept \cup {pre} : d[x[1]] = x[2]
        BY <2>1, <3>1 DEF OldIsKept
      <4>1. x[1] = "db" => x[2] # live["db"]
        BY <1>1, <1>2, <3>1
      <4> QED
        BY <1>2, <3>1, <4>1
    <3> QED
      BY <1>0, <1>1, <2>1, <3>1, <3>2 DEF Files, OwnLog, NoForeignLog, AtRest, Quiet, Moved,
                                          Owed, Answered
  <2> QED
    BY <1>3, <2>2, <2>3
<1>4. ASSUME Phase' = "free", OwnLog', OldIsKept', had' = NoFiles, UNCHANGED <<kept, pre>>,
             \A x \in owed' : x \in owed
      PROVE  Files'
  BY <1>1, <1>4 DEF Files, AtRest, Quiet, Moved, Owed, Answered
<1>5. CASE EmptyDatabase(r)
  <2>1. /\ live' = [NoFiles EXCEPT !["db"] = NewLib, !["wal"] = NewLib]
        /\ pool' = NewLib /\ had' = NoFiles /\ UNCHANGED <<kept, pre, up>>
        /\ owed' = owed \ {<<"media", live["media"]>>} /\ live["db"] = None
    BY <1>5 DEF EmptyDatabase
  <2>2. live'["db"] = NewLib /\ live'["wal"] = NewLib
    BY <2>1 DEF NoFiles
  <2>3. OldIsKept'
    <3> SUFFICES ASSUME NEW x \in owed, x # <<"media", live["media"]>>
                 PROVE  \E d \in kept : d[x[1]] = x[2]
      BY <2>1 DEF OldIsKept
    <3>1. live[x[1]] # x[2]
      BY <1>1, <1>2, <2>1
    <3> QED
      BY <1>2, <3>1
  <2> QED
    BY <1>0, <1>4, <1>5, <2>1, <2>2, <2>3 DEF OwnLog, NoForeignLog
<1>6. CASE ResetFails(r)
  <2>1. had' = NoFiles /\ UNCHANGED <<kept, pre, up>>
    BY <1>6 DEF ResetFails
  <2>2. CASE Reopened(TRUE)
    <3>1. /\ OwnLog' /\ OldIsKept' /\ \A x \in owed' : x \in owed
      BY <1>1, <2>1, <2>2, Reopening
    <3> QED
      BY <1>0, <1>4, <1>6, <2>1, <3>1
  <2>3. CASE pool' = Broken /\ UNCHANGED <<live, owed>>
    BY <1>0, <1>1, <1>4, <1>6, <2>1, <2>3 DEF OwnLog, NoForeignLog, OldIsKept
  <2>4. CASE /\ live["db"] = None /\ Unused # {} /\ pool' = Broken /\ UNCHANGED owed
             /\ live' = [live EXCEPT !["db"] = NewLib, !["wal"] = NewLib]
    <3>1. \A d \in Entries : live'[d] = IF d = "media" THEN live[d] ELSE NewLib
      BY <1>2, <2>4 DEF Dirs
    <3>2. OldIsKept'
      BY <1>1, <1>2, <2>1, <2>4, <3>1 DEF OldIsKept
    <3> QED
      BY <1>0, <1>4, <1>6, <2>1, <2>4, <3>1, <3>2 DEF OwnLog, NoForeignLog
  <2> QED
    BY <1>6, <2>2, <2>3, <2>4 DEF ResetFails
<1> QED
  BY <1>3, <1>5, <1>6 DEF ResetStep

\* The process dies wherever it is, and the next one boots.
LEMMA FilesRestart ==
  ASSUME FileTypes, RequestTypes, OneHolder, Files, Dies \/ Boot
  PROVE  Files'
<1> USE DEF BeforeSwap, Moving, Answering
<1>0. /\ \A x \in owed : x[1] \in Entries /\ x[2] # None /\ x = <<x[1], x[2]>>
      /\ live \in Dirs /\ pre \in Dirs
      /\ \A d \in kept : d["wal"] = None
  BY Points DEF Files, Owed
<1>1. CASE Dies
  <2> DEFINE dir == [pre EXCEPT !["wal"] = None]
  <2>1. /\ ~up' /\ pool' = Closed /\ pre' = NoFiles /\ had' = NoFiles /\ live' = live
        /\ owed' = {x \in owed : x[1] # "wal"}
        /\ kept' = kept \cup ({dir} \ {NoFiles})
    BY <1>1 DEF Dies
  <2>2. Phase' = "free"
    BY <1>1, DyingFrees
  <2>3. \A d \in Entries : dir[d] = IF d = "wal" THEN None ELSE pre[d]
    BY <1>0, Changed
  <2> HIDE DEF dir
  <2>4. OldIsKept'
    <3> SUFFICES ASSUME NEW x \in owed, x[1] # "wal"
                 PROVE  live[x[1]] = x[2] \/ \E d \in kept' : d[x[1]] = x[2]
      BY <2>1 DEF OldIsKept
    <3>1. live[x[1]] = x[2] \/ pre[x[1]] = x[2] \/ \E d \in kept : d[x[1]] = x[2]
      BY DEF Files, Owed, OldIsKept
    <3>2. pre[x[1]] = x[2] => dir[x[1]] = x[2] /\ dir # NoFiles
      BY <1>0, <2>3, NoFilesIn
    <3> QED
      BY <2>1, <3>1, <3>2
  <2>5. Owed'
    BY <1>0, <2>1, <2>2, <2>3, <2>4 DEF Owed
  <2> QED
    BY <2>1, <2>2, <2>5 DEF Files, OwnLog, NoForeignLog, AtRest, Quiet, Moved, Answered
<1>2. CASE Boot
  <2>1. mu = NoReq /\ UNCHANGED <<mu, req, kept, pre, had, owed>> /\ up' /\ ~up
    BY <1>2 DEF Boot, OneHolder, loopVars
  <2>2. Phase = "free" /\ Phase' = "free"
    BY <2>1 DEF Phase
  <2> DEFINE lib == IF live["db"] = None THEN NewLib ELSE live["db"]
  <2>3. /\ live'["db"] = lib /\ pool' = lib
        /\ live'["media"] = IF live["media"] = None THEN Stray ELSE live["media"]
        /\ live'["wal"] = IF live["db"] = None \/ live["wal"] = None THEN lib ELSE live["wal"]
    BY <1>2 DEF Boot
  <2>4. \A x \in owed : x[1] # "wal"
    BY <2>2 DEF Files, Owed
  <2>5. OldIsKept'
    <3> SUFFICES ASSUME NEW x \in owed
                 PROVE  live'[x[1]] = x[2] \/ \E d \in kept \cup {pre} : d[x[1]] = x[2]
      BY <2>1 DEF OldIsKept
    <3>1. live[x[1]] = x[2] \/ \E d \in kept \cup {pre} : d[x[1]] = x[2]
      BY DEF Files, Owed, OldIsKept
    <3>2. live[x[1]] = x[2] => live'[x[1]] = x[2]
      BY <1>0, <2>3, <2>4
    <3> QED
      BY <3>1, <3>2
  <2>6. OwnLog'
    BY <2>3 DEF Files, OwnLog, NoForeignLog
  <2>7. AtRest'
    BY <2>1, <2>2 DEF Files, AtRest, Quiet
  <2>8. Moved' /\ Owed' /\ Answered'
    BY <1>0, <2>1, <2>2, <2>4, <2>5 DEF Moved, Owed, Answered
  <2> QED
    BY <2>6, <2>7, <2>8 DEF Files
<1> QED
  BY <1>1, <1>2

\* A picture is written where there was none.
LEMMA FilesDraw ==
  ASSUME FileTypes, RequestTypes, OneHolder, Files, Draw
  PROVE  Files'
<1> USE DEF BeforeSwap, Moving, Answering
<1>1. /\ UNCHANGED <<kept, pre, stage, up, pool, mu, req, loopVars, owed>>
      /\ live["media"] = None /\ live' = [live EXCEPT !["media"] = Stray]
  BY DEF Draw
<1>2. Phase' = Phase /\ Doing' = Doing
  BY <1>1 DEF Phase, Doing
<1>3. \A d \in Entries : live'[d] = IF d = "media" THEN Stray ELSE live[d]
  <2>1. live \in Dirs /\ "media" \in Entries
    BY Points
  <2> QED
    BY <1>1, <2>1, Changed
<1>4. OwnLog' /\ AtRest'
  BY <1>1, <1>2, <1>3 DEF Files, OwnLog, NoForeignLog, AtRest, Quiet, loopVars
<1>5. \A e \in Entries : e # "media" => (Left(e)' <=> Left(e)) /\ (Aside(e)' <=> Aside(e))
  BY <1>1, <1>3 DEF Left, Aside, loopVars
<1>6. Aside("media") => Aside("media")'
  BY <1>1, <1>3 DEF Aside, loopVars
<1>7. Left("media") /\ had["media"] = None => Aside("media")'
  BY <1>1, <1>3 DEF Aside, Left, loopVars
<1>8. Left("media") => had["media"] = None
  BY <1>1 DEF Left
<1>9. Moved'
  <2>1. Phase = "aside" => Moved'
    <3> SUFFICES ASSUME Phase = "aside" PROVE Moved'
      OBVIOUS
    <3>1. /\ ~asideDone
          /\ \A e \in list : had[e] # None /\ Left(e)
          /\ \A e \in Entries \ list : Aside(e)
          /\ stage["db"] \in Libs /\ stage["db"] # had["db"]
          /\ stage["media"] = stage["db"] /\ stage["wal"] = None
      BY DEF Files, Moved
    <3>2. list \subseteq Entries /\ "media" \notin list
      BY <1>8, <3>1 DEF FileTypes
    <3>3. /\ \A e \in list' : (had'[e] # None /\ Left(e)')
          /\ \A e \in Entries \ list' : Aside(e)'
      BY <1>1, <1>5, <1>6, <3>1, <3>2 DEF loopVars
    <3> QED
      BY <1>1, <1>2, <3>1, <3>3 DEF Moved, loopVars
  <2>2. Phase = "in" => Moved'
    <3> SUFFICES ASSUME Phase = "in" PROVE Moved'
      OBVIOUS
    <3>1. /\ asideDone /\ pre = had /\ live["wal"] = None /\ stage["wal"] = None
          /\ "wal" \notin list /\ ("db" \in list => live["db"] = None)
      BY DEF Files, Moved
    <3>2. PICK lib \in Libs \ {had["db"]} :
            \A e \in {"media", "db"} : IF e \in list THEN stage[e] = lib ELSE live[e] = lib
      BY DEF Files, Moved
    <3>3. \A e \in {"media", "db"} : IF e \in list THEN stage[e] = lib ELSE live'[e] = lib
      BY <1>1, <1>3, <3>2
    <3> QED
      BY <1>1, <1>2, <1>3, <3>1, <3>2, <3>3 DEF Moved, loopVars
  <2>3. Phase \in {"failed", "undo"} => Moved'
    <3> SUFFICES ASSUME Phase \in {"failed", "undo"} PROVE Moved'
      OBVIOUS
    <3>1. CASE asideDone
      BY <1>1, <1>2, <3>1 DEF Files, Moved, loopVars
    <3>2. CASE ~asideDone
      <4>1. /\ \A e \in {"media", "db"} : Left(e) \/ Aside(e)
            /\ live["wal"] \in {None, had["db"]} /\ pre["wal"] \in {None, had["wal"]}
            /\ Phase = "failed" => Left("wal") \/ Aside("wal")
        BY <3>2 DEF Files, Moved
      <4>2. \A e \in {"media", "db"} : Left(e)' \/ Aside(e)'
        BY <1>5, <1>6, <1>7, <1>8, <4>1
      <4>3. Phase = "failed" => Left("wal")' \/ Aside("wal")'
        BY <1>5, <4>1
      <4> QED
        BY <1>1, <1>2, <1>3, <3>2, <4>1, <4>2, <4>3 DEF Moved, loopVars
    <3> QED
      BY <3>1, <3>2
  <2>4. Phase \notin {"aside", "in", "failed", "undo"} => Moved'
    BY <1>1, <1>2, <1>3 DEF Files, Moved, loopVars
  <2> QED
    BY <2>1, <2>2, <2>3, <2>4
<1>10. OldIsKept'
  <2> SUFFICES ASSUME NEW x \in owed
               PROVE  live'[x[1]] = x[2] \/ \E d \in kept \cup {pre} : d[x[1]] = x[2]
    BY <1>1 DEF OldIsKept
  <2>1. x[1] \in Entries /\ x[2] # None
    BY Points
  <2> QED
    BY <1>1, <1>3, <2>1 DEF Files, Owed, OldIsKept
<1>11. Owed'
  BY <1>1, <1>2, <1>3, <1>10 DEF Files, Owed, loopVars
<1>12. Answered'
  BY <1>1, <1>2, <1>3 DEF Files, Answered, loopVars
<1> QED
  BY <1>4, <1>9, <1>11, <1>12 DEF Files

LEMMA FilesStep ==
  ASSUME FileTypes, RequestTypes, OneHolder, note \in Note, Files, [Next]_vars
  PROVE  Files'
<1>1. CASE UNCHANGED vars
  BY <1>1, FilesFrame DEF vars, Phase, Doing
<1>2. CASE Bystander
  BY <1>2, Bystands, FilesFrame
<1>3. ASSUME NEW r \in Requests, RestoreStep(r) PROVE Files'
  <2>1. CASE Busy(r)
    BY <1>2, <2>1 DEF Bystander
  <2>2. CASE RollbackFails(r)
    BY <2>2, FilesRestart DEF RollbackFails
  <2> QED
    BY <1>3, <2>1, <2>2, FilesBeforeSwap, FilesClose, FilesAside, FilesIn, FilesReopen,
       FilesUndo, FilesClear, FilesBack, FilesAnswer DEF RestoreStep
<1> QED
  BY <1>1, <1>2, <1>3, FilesReset, FilesRestart, FilesDraw DEF Next, Bystander, Crash

(***************************************************************************)
(* The safety copies.                                                      *)
(***************************************************************************)
\* The library the admins have stays, unless a replacement succeeds or a process ends;
\* or the pools are left on nothing usable.
LEMMA CurrentStays ==
  ASSUME FileTypes, RequestTypes, OneHolder, Files, [Next]_vars, ~Dies, ~Boot,
         \A r \in Requests : ~Restored(r) /\ ~EmptyDatabase(r)
  PROVE  \/ pool' = Broken
         \/ Current' = Current /\ (pool = Broken => pool' = Broken)
<1> USE DEF BeforeSwap, Moving, Answering, Current
<1>1. CASE UNCHANGED <<pool, had>>
  BY <1>1
<1>2. CASE UNCHANGED vars \/ Bystander \/ Draw
  BY <1>1, <1>2, Bystands DEF vars, Draw, loopVars
<1>3. ASSUME NEW r \in Requests, RestoreStep(r) \/ ResetStep(r)
      PROVE  \/ pool' = Broken
             \/ Current' = Current /\ (pool = Broken => pool' = Broken)
  <2>1. CASE \/ Busy(r) \/ Lock(r) \/ Extract(r) \/ Guard(r) \/ Refused(r) \/ MoveAside(r)
             \/ AsideIsDone(r) \/ MoveIn(r) \/ MoveFails(r) \/ Clear(r) \/ MoveBack(r)
             \/ DeleteLog(r) \/ DeleteDatabase(r)
    <3>1. UNCHANGED <<pool, had>>
      BY <2>1 DEF Busy, Lock, Extract, Guard, Refused, MoveAside, AsideIsDone, MoveIn,
         MoveFails, Clear, MoveBack, DeleteLog, DeleteDatabase, loopVars
    <3> QED
      BY <1>1, <3>1
  <2>2. CASE CloseForSwap(r)
    <3>1. Phase = "swap" /\ up
      BY <2>2, HolderIs DEF CloseForSwap, At, Held
    <3>2. pool \in Libs /\ live["db"] = pool /\ had = NoFiles
      BY <3>1 DEF Files, AtRest, Quiet, OwnLog, NoForeignLog
    <3>3. PICK dir \in Folded(live, pool) : had' = dir
      BY <2>2 DEF CloseForSwap
    <3>4. dir["db"] = live["db"]
      <4>1. dir = live \/ dir = [live EXCEPT !["wal"] = None]
        BY FoldedType DEF FileTypes
      <4>2. live \in Dirs /\ "wal" \in Entries /\ "db" \in Entries
        BY Points
      <4> QED
        BY <4>1, <4>2, Changed
    <3> QED
      BY <3>2, <3>3, <3>4, NoFilesIn
  <2>3. CASE BringUp(r) \/ ReopenAfterFailure(r) \/ Undo(r) \/ OldIsUp(r)
    <3>1. Phase \in Moving
      BY <2>3, HolderIs DEF BringUp, ReopenAfterFailure, Undo, OldIsUp, At, Held
    <3>2. had["db"] \in Libs /\ pool \in {Closed, live["db"]}
      BY <3>1 DEF Files, AtRest, Quiet
    <3>3. had' = had
      BY <2>3 DEF BringUp, ReopenAfterFailure, Undo, OldIsUp, loopVars
    <3> QED
      BY <3>2, <3>3, Points
  <2>4. CASE Intact(r)
    <3>1. Phase = "intact" /\ had' = NoFiles /\ pool' = pool
      BY <2>4, HolderIs DEF Intact, At, Held
    <3>2. pool = had["db"]
      BY <3>1 DEF Files, Answered
    <3> QED
      BY <3>1, <3>2, NoFilesIn
  <2>5. CASE ResetFails(r)
    <3>1. Phase = "delete" /\ had' = NoFiles
      BY <2>5, HolderIs DEF ResetFails, At, Held
    <3>2. pool = Closed /\ had["db"] \in Libs /\ live["db"] \in {None, had["db"]}
      BY <3>1 DEF Files, AtRest, Quiet, Moved
    <3>3. pool' = Broken \/ (live["db"] # None /\ pool' = live["db"])
      BY <2>5 DEF ResetFails, Reopened
    <3> QED
      BY <3>1, <3>2, <3>3, NoFilesIn
  <2> QED
    BY <1>3, <2>1, <2>2, <2>3, <2>4, <2>5 DEF RestoreStep, ResetStep, RollbackFails
<1> QED
  BY <1>2, <1>3 DEF Next, Bystander, Crash

\* What covers a library covers it as long as it stays.
LEMMA CopiesStep ==
  ASSUME FileTypes, RequestTypes, CopyTypes, OneHolder, Files, Numbers, Copies, [Next]_vars
  PROVE  Copies'
<1> USE DEF BeforeSwap, Moving, Answering
<1>0. /\ NoteIsHolders /\ note \in Note
      /\ "free" \notin Late /\ "guard" \notin Late /\ "extract" \notin Late
  BY DEF Numbers, NoteIsHolders, CopyTypes, Late, Held
<1>1. ASSUME NEW r \in Requests, Restored(r) \/ EmptyDatabase(r)
      PROVE  Copies'
  <2>1. /\ req[r].pc \in Held /\ Ends(r) /\ Forgets /\ Replaced /\ SpendNote /\ up /\ up' = up
    BY <1>1 DEF Restored, EmptyDatabase, At, Held
  <2>2. Senders' = Senders /\ \A a \in Senders : sending'[a].crossed = TRUE
    BY <2>1, SameSenders
  <2>3. \A a \in Admins : copy'[a] = None
    BY <2>1 DEF Forgets
  <2>4. note'.no = 0
    BY <2>1 DEF SpendNote, NoNote
  <2>5. mu' \notin Requests /\ Phase' = "free"
    BY <2>1, HolderEnds DEF Ends
  <2> QED
    BY <1>0, <2>1, <2>2, <2>3, <2>4, <2>5 DEF Copies, Covers
<1>2. CASE Dies
  <2>1. /\ \A a \in Admins : copy'[a] = None /\ sending'[a] = NoCopy
        /\ note'.no = 0 /\ pool' = Closed /\ mu' = NoReq
    BY <1>2 DEF Dies, NoNote
  <2>2. Senders' = {}
    BY <2>1 DEF Senders
  <2>3. Phase' = "free"
    BY <1>2, DyingFrees
  <2> QED
    BY <1>0, <2>1, <2>2, <2>3 DEF Copies
<1>3. CASE Boot
  <2>1. ~up /\ up' /\ UNCHANGED <<mu, req, copy, sending, note>>
    BY <1>3 DEF Boot, copyVars
  <2>2. /\ note'.no = 0 /\ Senders' = {} /\ \A a \in Admins : copy'[a] = None
    BY <2>1 DEF Copies, Senders
  <2>3. mu' \notin Requests /\ Phase' = "free"
    BY <2>1 DEF OneHolder, Phase
  <2> QED
    BY <1>0, <2>1, <2>2, <2>3 DEF Copies
<1>4. CASE UNCHANGED vars
  <2>1. Current' = Current /\ Phase' = Phase /\ Senders' = Senders
    BY <1>4 DEF vars, Current, Phase, Senders, loopVars, copyVars
  <2>2. UNCHANGED <<copy, sending, note, mu, req, pool, up>>
    BY <1>4 DEF vars, copyVars
  <2> QED
    BY <2>1, <2>2 DEF Copies, Covers
<1>5. ASSUME ~Dies, ~Boot, \A r \in Requests : ~Restored(r) /\ ~EmptyDatabase(r), Next
      PROVE  Copies'
  <2> DEFINE CoversNow(of, crossed) == pool' = Broken \/ of = Current' \/ crossed
  <2>1. \A of \in 0 .. MaxLib, crossed \in BOOLEAN :
          Covers(of, crossed) => CoversNow(of, crossed)
    BY <1>5, CurrentStays DEF Covers
  <2>2. ASSUME NEW r \in Requests, RestoreStep(r) \/ ResetStep(r)
        PROVE  up' /\ UNCHANGED <<sending, note>> /\ (UNCHANGED copy \/ Forgets)
    <3>1. UNCHANGED <<sending, note>> /\ (UNCHANGED copy \/ Forgets)
      BY <1>5, <2>2 DEF RestoreStep, ResetStep, RollbackFails, Busy, Lock, Extract, Guard,
         Refused, CloseForSwap, MoveAside, AsideIsDone, MoveIn, MoveFails, BringUp,
         ReopenAfterFailure, Undo, Clear, MoveBack, OldIsUp, Intact, DeleteLog,
         DeleteDatabase, ResetFails, copyVars
    <3>2. up
      BY <1>5, <2>2 DEF RestoreStep, ResetStep, RollbackFails, Busy, Lock, Extract, Guard,
         Refused, CloseForSwap, MoveAside, AsideIsDone, MoveIn, MoveFails, BringUp,
         ReopenAfterFailure, Undo, Clear, MoveBack, OldIsUp, Intact, DeleteLog,
         DeleteDatabase, ResetFails, At
    <3>3. UNCHANGED up
      BY <1>5, <2>2 DEF RestoreStep, ResetStep, RollbackFails, Busy, Lock, Extract, Guard,
         Refused, CloseForSwap, MoveAside, AsideIsDone, MoveIn, MoveFails, BringUp,
         ReopenAfterFailure, Undo, Clear, MoveBack, OldIsUp, Intact, DeleteLog,
         DeleteDatabase, ResetFails
    <3> QED
      BY <3>1, <3>2, <3>3
  <2> DEFINE Beside == \/ SignUp \/ SignOn \/ Draw
                       \/ \E r \in Requests :
                            \/ Ask(r, "onboard", 0)
                            \/ \E op \in {"restore", "reset"}, who \in Admins : Ask(r, op, who)
  <2>3. /\ Beside \/ NoteExpires => up /\ UNCHANGED up
        /\ \A a \in Admins : Seal(a) \/ Take(a) \/ Sent(a) \/ CutShort(a) => up /\ UNCHANGED up
    BY DEF SignUp, SignOn, Draw, Ask, Seal, Take, Sent, CutShort, NoteExpires
  <2>4. \/ Beside \/ NoteExpires
        \/ \E a \in Admins : Seal(a) \/ Take(a) \/ Sent(a) \/ CutShort(a)
        \/ \E r \in Requests : RestoreStep(r) \/ ResetStep(r)
    BY <1>5 DEF Next, Crash
  <2>5. up'
    <3> HIDE DEF Beside
    <3>1. CASE up /\ UNCHANGED up
      BY <3>1
    <3> QED
      BY <2>2, <2>3, <2>4, <3>1
  <2>6. ASSUME NEW a \in Admins, copy'[a] # None PROVE CoversNow(copy'[a], FALSE)
    <3>1. copy'[a] = copy[a] \/ copy'[a] = None \/ Seal(a)
      <4>1. ASSUME NEW b \in Admins, Seal(b) \/ Take(b) \/ Sent(b) \/ CutShort(b)
            PROVE  copy'[a] = copy[a] \/ copy'[a] = None \/ Seal(a)
        BY <4>1 DEF Seal, Take, Sent, CutShort, CopyTypes
      <4>2. NoteExpires => copy' = copy
        BY DEF NoteExpires
      <4>3. Beside => copy' = copy
        BY DEF SignUp, SignOn, Draw, Ask, copyVars
      <4> HIDE DEF Beside
      <4> QED
        BY <2>2, <2>4, <4>1, <4>2, <4>3 DEF Forgets
    <3>2. CASE Seal(a)
      <4>1. mu = NoReq /\ UNCHANGED <<pool, had>> /\ copy'[a] = pool
        BY <3>2 DEF Seal, CopyTypes, loopVars
      <4>2. had = NoFiles
        BY <4>1 DEF Phase, Files, AtRest, Quiet
      <4> QED
        BY <4>1, <4>2, NoFilesIn DEF Current
    <3>3. copy[a] \in 0 .. MaxLib /\ (copy[a] # None => Covers(copy[a], FALSE))
      BY DEF Copies, CopyTypes
    <3> HIDE DEF CoversNow
    <3> QED
      BY <2>1, <2>6, <3>1, <3>2, <3>3
  <2>7. ASSUME NEW a \in Senders' PROVE CoversNow(sending'[a].of, sending'[a].crossed)
    <3>0. a \in Admins /\ sending'[a] # NoCopy
      BY <2>7 DEF Senders
    <3>1. sending'[a] = sending[a] \/ Take(a)
      <4>1. ASSUME NEW b \in Admins, Seal(b) \/ Take(b) \/ Sent(b) \/ CutShort(b)
            PROVE  sending'[a] = sending[a] \/ Take(a)
        BY <3>0, <4>1 DEF Seal, Take, Sent, CutShort, CopyTypes
      <4>2. NoteExpires => sending' = sending
        BY DEF NoteExpires
      <4>3. Beside => sending' = sending
        BY DEF SignUp, SignOn, Draw, Ask, copyVars
      <4> HIDE DEF Beside
      <4> QED
        BY <2>2, <2>4, <4>1, <4>2, <4>3
    <3>2. CASE Take(a)
      <4>1. /\ copy[a] # None /\ copy[a] \in 0 .. MaxLib /\ Covers(copy[a], FALSE)
            /\ sending'[a].of = copy[a] /\ sending'[a].crossed = FALSE
        BY <3>0, <3>2 DEF Take, CopyTypes, Copies
      <4> HIDE DEF CoversNow
      <4> QED
        BY <2>1, <4>1
    <3>3. sending[a] # NoCopy =>
            /\ sending[a].of \in 0 .. MaxLib /\ sending[a].crossed \in BOOLEAN
            /\ Covers(sending[a].of, sending[a].crossed)
      BY <3>0 DEF Copies, CopyTypes, Sending, Senders
    <3> HIDE DEF CoversNow
    <3> QED
      BY <2>1, <3>0, <3>1, <3>2, <3>3
  <2>8. note'.no # 0 => CoversNow(note'.of, note'.crossed)
    <3>1. note' = note \/ note'.no = 0 \/ \E a \in Admins : Sent(a)
      <4>1. ASSUME NEW b \in Admins, Seal(b) \/ Take(b) \/ CutShort(b) PROVE note' = note
        BY <4>1 DEF Seal, Take, CutShort
      <4>2. NoteExpires => note'.no = 0
        BY DEF NoteExpires, NoNote
      <4>3. Beside => note' = note
        BY DEF SignUp, SignOn, Draw, Ask, copyVars
      <4> HIDE DEF Beside
      <4> QED
        BY <2>2, <2>4, <4>1, <4>2, <4>3
    <3>2. ASSUME NEW a \in Admins, Sent(a) PROVE CoversNow(note'.of, note'.crossed)
      <4>1. /\ sending[a].of \in 0 .. MaxLib /\ sending[a].crossed \in BOOLEAN
            /\ Covers(sending[a].of, sending[a].crossed)
            /\ note'.of = sending[a].of /\ note'.crossed = sending[a].crossed
        BY <3>2 DEF Sent, CopyTypes, Sending, Copies, Senders
      <4> HIDE DEF CoversNow
      <4> QED
        BY <2>1, <4>1
    <3>3. /\ note.of \in 0 .. MaxLib /\ note.crossed \in BOOLEAN
          /\ note.no # 0 => Covers(note.of, note.crossed)
      BY DEF CopyTypes, Note, Copies
    <3> HIDE DEF CoversNow
    <3> QED
      BY <2>1, <3>1, <3>2, <3>3
  <2>9. mu' \in Requests /\ req'[mu'].note.no # 0 =>
          CoversNow(req'[mu'].note.of, req'[mu'].note.crossed)
    <3> HIDE DEF CoversNow
    <3>1. \A q \in Requests : req[q].note.of \in 0 .. MaxLib /\ req[q].note.crossed \in BOOLEAN
      BY DEF RequestTypes, Request, Covered
    <3>2. CASE \A r \in Requests : ~Guard(r)
      <4>1. \A q \in Requests : req'[q].note.no # 0 =>
              req'[q].note = req[q].note /\ mu' = q /\ mu = q
        BY <1>0, <3>2, NotesOnlyAtGuard
      <4> QED
        BY <2>1, <3>1, <4>1 DEF Copies
    <3>3. ASSUME NEW r \in Requests, Guard(r)
          PROVE  req'[mu'].note.no # 0 => CoversNow(req'[mu'].note.of, req'[mu'].note.crossed)
      <4>1. /\ mu' = r /\ mu = r
            /\ req'[r].note = IF Doing = "onboard" THEN req[r].note
                              ELSE [no |-> note.no, of |-> note.of, crossed |-> note.crossed]
        BY <1>0, <3>3, GuardPasses DEF Guard
      <4>2. CASE Doing = "onboard"
        BY <2>1, <3>1, <4>1, <4>2 DEF Copies
      <4>3. CASE Doing # "onboard"
        <5>1. /\ req'[r].note.no = note.no /\ req'[r].note.of = note.of
              /\ req'[r].note.crossed = note.crossed
          BY <4>1, <4>3
        <5>2. /\ note.of \in 0 .. MaxLib /\ note.crossed \in BOOLEAN
              /\ note.no # 0 => Covers(note.of, note.crossed)
          BY DEF CopyTypes, Note, Copies
        <5> QED
          BY <2>1, <4>1, <5>1, <5>2
      <4> QED
        BY <4>2, <4>3
    <3> QED
      BY <3>2, <3>3
  <2>10. Phase' \in Late => pool' # Broken
    <3>1. ASSUME NEW r \in Requests, Guard(r) PROVE pool' # Broken
      BY <3>1 DEF Guard, Allowed
    <3>2. CASE \A r \in Requests : ~Guard(r)
      <4>1. Phase' \in Late => Phase \in Late /\ pool # Broken
        BY <1>0, <3>2, NotesOnlyAtGuard DEF Copies
      <4>2. pool' # Broken \/ pool' = pool \/ \E r \in Requests : ResetFails(r)
        <5>0. live["db"] # Broken
          BY Points
        <5>1. ASSUME NEW r \in Requests, RestoreStep(r) \/ ResetStep(r)
              PROVE  pool' # Broken \/ pool' = pool \/ ResetFails(r)
          <6>1. CASE BringUp(r) \/ ReopenAfterFailure(r) \/ OldIsUp(r)
            <7>1. PICK ok \in BOOLEAN : Reopened(ok)
              BY <6>1 DEF BringUp, ReopenAfterFailure, OldIsUp
            <7> QED
              BY <5>0, <7>1, ReopenedCases
          <6>2. CASE CloseForSwap(r) \/ Undo(r)
            BY <6>2 DEF CloseForSwap, Undo
          <6>3. CASE \/ Busy(r) \/ Lock(r) \/ Extract(r) \/ Guard(r) \/ Refused(r)
                     \/ MoveAside(r) \/ AsideIsDone(r) \/ MoveIn(r) \/ MoveFails(r)
                     \/ Clear(r) \/ MoveBack(r) \/ Intact(r) \/ DeleteLog(r)
                     \/ DeleteDatabase(r)
            BY <6>3 DEF Busy, Lock, Extract, Guard, Refused, MoveAside, AsideIsDone, MoveIn,
               MoveFails, Clear, MoveBack, Intact, DeleteLog, DeleteDatabase
          <6> QED
            BY <1>5, <5>1, <6>1, <6>2, <6>3 DEF RestoreStep, ResetStep, RollbackFails
        <5>2. Beside \/ NoteExpires => pool' = pool
          BY DEF SignUp, SignOn, Draw, Ask, NoteExpires
        <5>3. (\E a \in Admins : Seal(a) \/ Take(a) \/ Sent(a) \/ CutShort(a)) => pool' = pool
          BY DEF Seal, Take, Sent, CutShort
        <5> HIDE DEF Beside
        <5> QED
          BY <2>4, <5>1, <5>2, <5>3
      <4>3. ASSUME NEW r \in Requests, ResetFails(r) PROVE Phase' = "free"
        BY <4>3, HolderEnds DEF ResetFails, At, Held
      <4> QED
        BY <1>0, <4>1, <4>2, <4>3
    <3> QED
      BY <3>1, <3>2
  <2> QED
    BY <2>5, <2>6, <2>7, <2>8, <2>9, <2>10 DEF Copies, Covers
<1> QED
  BY <1>1, <1>2, <1>3, <1>4, <1>5

(***************************************************************************)
(* The accounts.                                                           *)
(***************************************************************************)
LEMMA OnboardingStep ==
  ASSUME FileTypes, RequestTypes, CopyTypes, OneHolder, Files, Numbers, Copies', Onboarding,
         [Next]_vars
  PROVE  Onboarding'
<1> SUFFICES ASSUME Phase' \in Late, Doing' = "onboard", ~signedOn'
             PROVE  Current' \notin peopled'
  BY DEF Onboarding
<1>0. /\ NoteIsHolders /\ note \in Note /\ "free" \notin Late /\ "guard" \notin Late
  BY DEF Numbers, NoteIsHolders, CopyTypes, Late, Held, BeforeSwap, Moving, Answering
<1>1. ASSUME NEW r \in Requests, Guard(r) PROVE Current' \notin peopled'
  <2>1. /\ Phase = "guard" /\ Doing = "onboard" /\ Doing = req[r].op
    BY <1>0, <1>1, GuardPasses
  <2>2. pool \notin peopled /\ UNCHANGED <<pool, peopled, had>>
    BY <1>1, <2>1 DEF Guard, Allowed, NoUsers, loopVars
  <2>3. had["db"] = None
    BY <2>1, NoFilesIn DEF Files, AtRest, Quiet, BeforeSwap
  <2> QED
    BY <2>2, <2>3 DEF Current
<1>2. CASE \A r \in Requests : ~Guard(r)
  <2>1. Phase \in Late /\ Doing = "onboard" /\ mu' = mu /\ mu \in Requests
    BY <1>0, <1>2, NotesOnlyAtGuard
  <2>2. ~Dies
    <3> SUFFICES ASSUME Dies PROVE FALSE
      OBVIOUS
    <3> QED
      BY <1>0, DyingFrees
  <2>3. ~Boot
    BY <2>1 DEF Boot, OneHolder
  <2>4. ASSUME NEW r \in Requests,
               Refused(r) \/ Intact(r) \/ Restored(r) \/ EmptyDatabase(r) \/ ResetFails(r)
        PROVE  FALSE
    <3>1. req[r].pc \in Held /\ Ends(r)
      BY <2>4 DEF Refused, Intact, Restored, EmptyDatabase, ResetFails, At, Held, BeforeSwap,
                  Answering
    <3> QED
      BY <1>0, <3>1, HolderEnds
  <2>5. ASSUME NEW r \in Requests, Extract(r) PROVE FALSE
    BY <1>0, <2>5, HolderIs, HolderGoes DEF Extract, At, Held, BeforeSwap
  <2>6. pool' # Broken
    BY DEF Copies
  <2>7. Current' = Current
    BY <2>2, <2>3, <2>4, <2>6, CurrentStays
  <2>8. ~SignUp /\ ~SignOn
    BY <2>1 DEF SignUp, SignOn
  <2>9. UNCHANGED <<peopled, signedOn>>
    <3>1. ASSUME NEW r \in Requests, RestoreStep(r) \/ ResetStep(r)
          PROVE  UNCHANGED <<peopled, signedOn>>
      BY <2>2, <2>4, <2>5, <3>1 DEF RestoreStep, ResetStep, RollbackFails, Busy, Lock, Guard,
         CloseForSwap, MoveAside, AsideIsDone, MoveIn, MoveFails, BringUp, ReopenAfterFailure,
         Undo, Clear, MoveBack, OldIsUp, DeleteLog, DeleteDatabase
    <3>2. ASSUME NEW a \in Admins, Seal(a) \/ Take(a) \/ Sent(a) \/ CutShort(a)
          PROVE  UNCHANGED <<peopled, signedOn>>
      BY <3>2 DEF Seal, Take, Sent, CutShort
    <3>3. \/ UNCHANGED vars \/ NoteExpires \/ Draw
          \/ \E r \in Requests : \/ Ask(r, "onboard", 0)
                                 \/ \E op \in {"restore", "reset"}, who \in Admins :
                                      Ask(r, op, who)
          => UNCHANGED <<peopled, signedOn>>
      BY DEF vars, NoteExpires, Draw, Ask
    <3> QED
      BY <2>2, <2>3, <2>8, <3>1, <3>2, <3>3 DEF Next, Crash
  <2> QED
    BY <2>1, <2>7, <2>9 DEF Onboarding
<1> QED
  BY <1>1, <1>2

(***************************************************************************)
(* The invariant.                                                          *)
(***************************************************************************)
\* The server begins on one library, with no swap, no copy and no note.
LEMMA InitInv == Init => IInv
<1> SUFFICES ASSUME Init PROVE IInv
  OBVIOUS
<1>0. /\ live = [media |-> 1, db |-> 1, wal |-> 1] /\ kept = {} /\ pre = NoFiles
      /\ stage = NoFiles /\ junk = NoFiles /\ up = TRUE /\ pool = 1 /\ mu = NoReq
      /\ list = {} /\ asideDone = FALSE /\ had = NoFiles /\ note = NoNote
      /\ peopled \in {{}, {1}} /\ signedOn = FALSE /\ owed = {} /\ downloads = 0
  BY DEF Init
<1>1. /\ \A r \in Requests : req[r] = Idle
      /\ \A a \in Admins : copy[a] = None /\ sending[a] = NoCopy
      /\ \A n \in 1 .. MaxDownloads : spent[n] = 0
  BY DEF Init
<1>2. Phase = "free" /\ Doing = "none" /\ Senders = {}
  BY <1>0, <1>1 DEF Phase, Doing, Senders
<1>3. Idle.pc \notin Held /\ Idle.op = "none" /\ Idle.pc # "asked" /\ Idle.note.no = 0
  BY DEF Idle, Held, BeforeSwap, Moving, Answering
<1>4. live["media"] = 1 /\ live["db"] = 1 /\ live["wal"] = 1
  BY <1>0
<1>5. FileTypes
  <2>1. live \in Trees
    BY <1>0 DEF Trees, Dirs
  <2>2. NoFiles \in Trees /\ NoFiles \in Dirs
    BY Constants
  <2>3. pool \in Libs /\ peopled \subseteq Libs
    BY <1>0
  <2> QED
    BY <1>0, <2>1, <2>2, <2>3 DEF FileTypes
<1>6. RequestTypes /\ CopyTypes
  <2>1. req \in [Requests -> Request] /\ sending \in [Admins -> Sending] /\ note \in Note
    BY Constants DEF Init
  <2>2. copy \in [Admins -> 0 .. MaxLib] /\ spent \in [1 .. MaxDownloads -> Nat]
    BY DEF Init
  <2> QED
    BY <1>0, <2>1, <2>2 DEF RequestTypes, CopyTypes
<1>7. OneHolder
  BY <1>0, <1>1, <1>2, <1>3 DEF OneHolder
<1>8. Files
  BY <1>0, <1>2, <1>4 DEF Files, OwnLog, NoForeignLog, AtRest, Quiet, Moved, Owed, OldIsKept,
     Answered, BeforeSwap, Moving, Answering
<1>9. Copies /\ Onboarding
  BY <1>0, <1>1, <1>2 DEF Copies, Onboarding, NoNote, Late, Held, BeforeSwap, Moving, Answering
<1>10. Numbers
  BY <1>0, <1>1, <1>2, <1>3, FS_EmptySet
  DEF Numbers, NoNote, Late, Held, BeforeSwap, Moving, Answering
<1> QED
  BY <1>5, <1>6, <1>7, <1>8, <1>9, <1>10 DEF IInv, Types

\* Every step keeps it.
LEMMA StepInv == IInv /\ [Next]_vars => IInv'
<1> SUFFICES ASSUME IInv, [Next]_vars PROVE IInv'
  OBVIOUS
<1>1. /\ FileTypes /\ RequestTypes /\ CopyTypes /\ OneHolder /\ Files /\ Copies /\ Numbers
      /\ Onboarding
  BY DEF IInv, Types
<1>2. note \in Note
  BY <1>1 DEF CopyTypes
<1>3. FileTypes' /\ CopyTypes'
  BY <1>1, FileTypesStep, CopyTypesStep
<1>4. OneHolder' /\ RequestTypes'
  BY <1>1, <1>2, HolderStep
<1>5. Files' /\ Numbers'
  BY <1>1, <1>2, FilesStep, NumbersStep
<1>6. Copies'
  BY <1>1, CopiesStep
<1>7. Onboarding'
  BY <1>1, <1>6, OnboardingStep
<1> QED
  BY <1>3, <1>4, <1>5, <1>6, <1>7 DEF IInv, Types

\* The inductive invariant holds in every state.
THEOREM Invariance == Spec => []IInv
BY InitInv, StepInv, PTL DEF Spec

\* The server's files, requests and copies keep their types, and a request past asking is
\* the one that holds backupMu.
THEOREM TypeCorrect == Spec => []TypeOK
<1>1. IInv => TypeOK
  <2> SUFFICES ASSUME IInv PROVE TypeOK
    OBVIOUS
  <2>1. /\ live \in Dirs /\ kept \subseteq Dirs /\ pre \in Dirs /\ stage \in Dirs
        /\ junk \in Dirs /\ had \in Dirs
    BY Points DEF IInv, Types, FileTypes
  <2>2. /\ up \in BOOLEAN /\ pool \in Libs \cup {Closed, Broken}
        /\ list \subseteq Entries /\ asideDone \in BOOLEAN
        /\ peopled \subseteq Libs /\ signedOn \in BOOLEAN
    BY DEF IInv, Types, FileTypes
  <2>3. /\ copy \in [Admins -> 0 .. MaxLib] /\ downloads \in 0 .. MaxDownloads
        /\ note.uid \in Admins \cup {0} /\ note.no \in 0 .. MaxDownloads
    BY DEF IInv, Types, CopyTypes, Note
  <2>4. mu \in Requests \cup {NoReq}
    BY DEF IInv, Types, RequestTypes
  <2>5. ASSUME NEW r \in Requests
        PROVE  /\ req[r].op \in {"none", "restore", "onboard", "reset"}
               /\ req[r].pc \in PCs /\ (req[r].pc \notin {"idle", "asked"} => mu = r)
    BY DEF IInv, Types, RequestTypes, Request, OneHolder, PCs
  <2>6. PCs = {"idle", "asked", "extract", "guard", "swap", "aside", "in", "failed", "undo",
               "clear", "back", "intact", "restored", "delete"}
    BY DEF PCs, Held, BeforeSwap, Moving, Answering
  <2> QED
    BY <2>1, <2>2, <2>3, <2>4, <2>5, <2>6 DEF TypeOK
<1> QED
  BY <1>1, Invariance, PTL

\* Nothing a swap took aside is lost: whatever rename fails and wherever the process
\* dies, each entry is in the data directory or in a .pre-restore- directory.
THEOREM OldFilesAreKept == Spec => []OldIsKept
<1>1. IInv => OldIsKept
  BY DEF IInv, Files, Owed
<1> QED
  BY <1>1, Invariance, PTL

\* A database is never opened beside the log of another.
THEOREM LogsAreNotMixed == Spec => []NoForeignLog
<1>1. IInv => NoForeignLog
  BY DEF IInv, Files, OwnLog
<1> QED
  BY <1>1, Invariance, PTL

\* "Restore complete" and "previous data is intact" are answered over the files they name.
THEOREM AnswersHold == Spec => []AnswersAreTrue
<1>1. IInv => AnswersAreTrue
  <2> SUFFICES ASSUME IInv, NEW r \in Requests, req[r].pc \in Answering
               PROVE  Phase = req[r].pc /\ Files
    BY NoFilesIn DEF AnswersAreTrue, IntactMeansOld, RestoredIsTheArchives, Answering, Files,
                     Answered
  <2> QED
    BY HolderIs DEF IInv, Held
<1> QED
  BY <1>1, Invariance, PTL

\* What an admin's restore or reset replaces has a download behind it, and one download
\* is behind one replacement at most.
THEOREM DownloadsAreSpentOnce == Spec => []OneDownloadOneReplacement
<1>1. IInv => OneDownloadOneReplacement
  <2> SUFFICES ASSUME IInv PROVE OneDownloadOneReplacement
    OBVIOUS
  <2>1. \A n \in DOMAIN spent : spent[n] <= 1
    BY DEF IInv, Types, CopyTypes, Numbers
  <2>2. ASSUME NEW r \in Requests, req[r].op # "onboard", req[r].pc \in {"restored", "delete"}
        PROVE  req[r].note.no # 0
    <3>1. req[r].pc \in Late /\ req[r].pc \in Held
      BY <2>2 DEF Late, Held, BeforeSwap, Moving, Answering
    <3>2. mu = r /\ Phase = req[r].pc /\ Doing = req[r].op
      BY <3>1, HolderIs DEF IInv
    <3> QED
      BY <2>2, <3>1, <3>2 DEF IInv, Numbers
  <2> QED
    BY <2>1, <2>2 DEF OneDownloadOneReplacement
<1> QED
  BY <1>1, Invariance, PTL

\* The copy an admin had to download covers what is then replaced, unless another
\* replacement succeeded while it was on its way.
THEOREM CopiesCover == Spec => []CopyCoversWhatGoes
<1>1. IInv => CopyCoversWhatGoes
  <2> SUFFICES ASSUME IInv, NEW r \in Requests, req[r].note.no # 0,
                      req[r].pc \in {"restored", "delete"}
               PROVE  req[r].note.of = had["db"] \/ req[r].note.crossed
    BY DEF CopyCoversWhatGoes
  <2>1. req[r].pc \in Late /\ req[r].pc \in Held
    BY DEF Late, Held, BeforeSwap, Moving, Answering
  <2>2. mu = r /\ Phase = req[r].pc
    BY <2>1, HolderIs DEF IInv
  <2>3. pool # Broken /\ Covers(req[r].note.of, req[r].note.crossed)
    BY <2>1, <2>2 DEF IInv, Copies
  <2>4. had["db"] \in Libs
    BY <2>2 DEF IInv, Files, AtRest, Quiet, BeforeSwap
  <2> QED
    BY <2>3, <2>4 DEF Covers, Current
<1> QED
  BY <1>1, Invariance, PTL

\* An onboarding restore never replaces a library somebody signed up to while it came.
THEOREM SignUpsSurvive == Spec => []SignUpIsNotSwappedAway
<1>1. IInv => SignUpIsNotSwappedAway
  <2> SUFFICES ASSUME IInv, NEW r \in Requests, Onboards(r), ~signedOn
               PROVE  had["db"] \notin peopled
    BY DEF SignUpIsNotSwappedAway
  <2>1. mu = r /\ req[r].pc \in Held /\ Phase = req[r].pc /\ Doing = "onboard"
    BY HolderIs DEF Onboards, IInv, OneHolder
  <2>2. ~Quiet
    BY NoFilesIn DEF Onboards, IInv, Files, AtRest
  <2>3. Phase \in Late
    BY <2>1, <2>2 DEF Quiet, Late, BeforeSwap
  <2> QED
    BY <2>1, <2>3 DEF Onboards, IInv, Onboarding, Current
<1> QED
  BY <1>1, Invariance, PTL
=============================================================================
