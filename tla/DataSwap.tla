----------------------------- MODULE DataSwap -----------------------------
(***************************************************************************)
(* Replacing the library: a restore moves the data directory aside and the *)
(* archive in, entry by entry, and rolls back when a step fails; a factory *)
(* reset deletes the database.  Beside them stand the sign-ups that must   *)
(* not be swapped away, the safety copy an admin downloads first, the      *)
(* pictures other requests write, and a crash between any two steps with   *)
(* the boot after it (internal/httpapi/backup_handlers.go, safety_copy.go, *)
(* maintenance_handlers.go, internal/store/swap.go, repair.go).            *)
(*                                                                         *)
(* A library is a number.  An entry of a directory is the library it is of *)
(* and nothing else: three entries stand for what sorts before the         *)
(* database, the database, and its write-ahead log.                        *)
(***************************************************************************)
EXTENDS Integers, Sequences, FiniteSets

CONSTANTS
  Requests,      \* goroutines of restores and resets
  NoReq,
  Admins,        \* users.id of admins
  AutoCreate,    \* whether single sign-on may make the first account
  MaxLib,        \* bound: libraries there are any files of, at a time
  MaxSwaps,      \* bound: .pre-restore- directories with files, at a time
  MaxDownloads   \* bound: safety copies downloaded

ASSUME DataSwapAssumption ==
  /\ NoReq \notin Requests
  /\ IsFiniteSet(Admins) /\ 0 \notin Admins
  /\ AutoCreate \in BOOLEAN
  /\ MaxLib \in Nat \ {0} /\ MaxSwaps \in Nat /\ MaxDownloads \in Nat

Libs  == 1 .. MaxLib
None  == 0
Stray == MaxLib + 1                  \* a picture a request under way wrote
Order == <<"media", "db", "wal">>    \* as ReadDir sorts them
Entries == {"media", "db", "wal"}
NoFiles == [e \in Entries |-> None]
Closed == 0                          \* the pools, as a swap closes them
Broken == -1                         \* the pools a failed reset leaves on nothing usable

VARIABLES
  \* The data directory.
  live,       \* what the server runs on
  kept,       \* the .pre-restore- directories there are
  pre,        \* the one of the restore in hand
  stage, junk, \* .restore-*/stage and .restore-*/failed
  \* The process.
  up,
  pool,       \* the library its pools are open on
  mu,         \* who holds backupMu
  req,        \* each request: what it does, for whom, where it is
  list,       \* the entries the loop in hand has still to move
  asideDone,  \* the local of that name
  \* The safety copy.
  copy,       \* safetyCopies: the copy waiting for each admin
  sending,    \* the download under way for each admin
  note,       \* safetyNote
  \* What libraries there are.
  peopled,    \* the libraries with a row in users, of those that can still be opened
  \* History, read by properties only.
  signedOn,   \* whether single sign-on made an account while backupMu was held
  had,        \* the data directory as the swap in hand found it
  owed,       \* what has to be somewhere, by entry and library
  downloads,  \* how many downloads have ended
  spent       \* how many replacements went ahead on each of them

fileVars == <<live, kept, pre, stage, junk>>
loopVars == <<list, asideDone, had>>
copyVars == <<copy, sending, note, downloads>>
vars == <<fileVars, up, pool, mu, req, loopVars, copyVars, peopled, signedOn, owed,
          spent>>

Idle    == [op |-> "none", who |-> 0, pc |-> "idle", note |-> [no |-> 0, of |-> None, crossed |-> FALSE]]
NoNote  == [uid |-> 0, no |-> 0, of |-> None, crossed |-> FALSE]
NoCopy  == [of |-> None, crossed |-> FALSE]

Present(dir) == {e \in Entries : dir[e] # None}
First(s) == CHOOSE e \in s : \A d \in s :
              \E i, j \in DOMAIN Order : Order[i] = e /\ Order[j] = d /\ i <= j
At(r, pc) == up /\ req[r].pc = pc
Goes(r, pc) == req' = [req EXCEPT ![r].pc = pc]
\* The request answers: backupMu is let go, and its staging directory goes.
Ends(r) == /\ req' = [req EXCEPT ![r] = Idle]
           /\ mu' = NoReq
           /\ stage' = NoFiles /\ junk' = NoFiles
           /\ list' = {} /\ signedOn' = FALSE
\* A library of its own, for an archive or an empty database.
InUse == {live[e] : e \in Entries} \cup {stage[e] : e \in Entries}
         \cup {junk[e] : e \in Entries}
         \cup {dir[e] : dir \in kept \cup {pre}, e \in Entries}
         \cup {pool} \cup {x[2] : x \in owed}
         \cup {copy[a] : a \in Admins} \cup {sending[a].of : a \in Admins} \cup {note.of}
         \cup {req[r].note.of : r \in Requests} \cup {had[e] : e \in Entries}
Unused == Libs \ InUse
NewLib == CHOOSE lib \in Unused : TRUE

Fresh(who) == note.uid = who
NoUsers == pool \in Libs /\ pool \notin peopled

(***************************************************************************)
(* The accounts.                                                           *)
(***************************************************************************)
\* handleSignup checks and inserts with backupMu held.
SignUp ==
  /\ up /\ mu = NoReq /\ NoUsers
  /\ peopled' = peopled \cup {pool}
  /\ UNCHANGED <<fileVars, up, pool, mu, req, loopVars, copyVars, signedOn, owed, spent>>

\* oidcAccount makes the first account as handleSignup does, without the lock.
SignOn ==
  /\ AutoCreate /\ up /\ NoUsers
  /\ peopled' = peopled \cup {pool}
  /\ signedOn' = (mu # NoReq)
  /\ UNCHANGED <<fileVars, up, pool, mu, req, loopVars, copyVars, owed, spent>>

(***************************************************************************)
(* The safety copy.                                                        *)
(***************************************************************************)
\* The backup.safety job seals a copy, backupMu held, and publishes it.
Seal(a) ==
  /\ up /\ mu = NoReq /\ pool \in peopled
  /\ copy' = [copy EXCEPT ![a] = pool]
  /\ UNCHANGED <<fileVars, up, pool, mu, req, loopVars, sending, note, downloads,
                 peopled, signedOn, owed, spent>>

\* The download spends the token.
Take(a) ==
  /\ up /\ pool \in peopled
  /\ copy[a] # None /\ sending[a] = NoCopy
  /\ downloads + Cardinality({b \in Admins : sending[b] # NoCopy}) < MaxDownloads
  /\ sending' = [sending EXCEPT ![a] = [of |-> copy[a], crossed |-> FALSE]]
  /\ copy' = [copy EXCEPT ![a] = None]
  /\ UNCHANGED <<fileVars, up, pool, mu, req, loopVars, note, downloads, peopled, signedOn,
                 owed, spent>>

\* The whole file has left: the note is set.
Sent(a) ==
  /\ up /\ sending[a] # NoCopy
  /\ downloads' = downloads + 1
  /\ note' = [uid |-> a, no |-> downloads + 1, of |-> sending[a].of,
              crossed |-> sending[a].crossed]
  /\ sending' = [sending EXCEPT ![a] = NoCopy]
  /\ UNCHANGED <<fileVars, up, pool, mu, req, loopVars, copy, peopled, signedOn, owed, spent>>

\* The download is cut short, the copy waits too long, or the note does.
CutShort(a) ==
  /\ up /\ sending[a] # NoCopy
  /\ sending' = [sending EXCEPT ![a] = NoCopy]
  /\ UNCHANGED <<fileVars, up, pool, mu, req, loopVars, copy, note, downloads,
                 peopled, signedOn, owed, spent>>

NoteExpires ==
  /\ up /\ note # NoNote
  /\ note' = NoNote
  /\ UNCHANGED <<fileVars, up, pool, mu, req, loopVars, copy, sending, downloads,
                 peopled, signedOn, owed, spent>>

\* A picture is written by a request under way; its directory is made for it.
Draw ==
  /\ up /\ live["media"] = None
  /\ live' = [live EXCEPT !["media"] = Stray]
  /\ UNCHANGED <<kept, pre, stage, junk, up, pool, mu, req, loopVars, copyVars, peopled, signedOn,
                 owed, spent>>

(***************************************************************************)
(* A restore, up to the point of no return.                                *)
(***************************************************************************)
\* The early check: the admin routes look at the note, onboarding at the accounts.
Ask(r, op, who) ==
  /\ up /\ req[r] = Idle
  /\ op = "onboard" => NoUsers
  /\ op # "onboard" => pool \in peopled
  /\ op = "restore" => Fresh(who)
  /\ req' = [req EXCEPT ![r] = [Idle EXCEPT !.op = op, !.who = who, !.pc = "asked"]]
  /\ UNCHANGED <<fileVars, up, pool, mu, loopVars, copyVars, peopled, signedOn, owed, spent>>

\* TryLock: a request that finds backupMu taken answers 409.
Busy(r) ==
  /\ At(r, "asked") /\ mu # NoReq
  /\ req' = [req EXCEPT ![r] = Idle]
  /\ UNCHANGED <<fileVars, up, pool, mu, loopVars, copyVars, peopled, signedOn, owed, spent>>

\* Mutant: the lock is not looked at.
AlwaysLockable == mu \in Requests \cup {NoReq}
Lockable == mu = NoReq
Lock(r) ==
  /\ At(r, "asked") /\ Lockable
  /\ mu' = r
  /\ Goes(r, IF req[r].op = "reset" THEN "guard" ELSE "extract")
  /\ UNCHANGED <<fileVars, up, pool, loopVars, copyVars, peopled, signedOn, owed, spent>>

\* The archive is uploaded, opened, unpacked and checked in a staging directory.
Extract(r) ==
  /\ At(r, "extract") /\ Unused # {}
  /\ peopled' = peopled \cup {NewLib}
  /\ stage' = [NoFiles EXCEPT !["media"] = NewLib, !["db"] = NewLib]
  /\ Goes(r, "guard")
  /\ UNCHANGED <<live, kept, pre, junk, up, pool, mu, loopVars, copyVars, signedOn, owed,
                 spent>>

\* Mutant: the early check is enough.
AllowedEarly(r) == pool \in Libs
\* The guard, with backupMu held: what Ask found may have gone while the archive came.
Allowed(r) ==
  /\ pool \in Libs
  /\ IF req[r].op = "onboard" THEN NoUsers ELSE Fresh(req[r].who)

Guard(r) ==
  /\ At(r, "guard") /\ Allowed(r)
  /\ req' = [req EXCEPT ![r].pc = "swap",
                        ![r].note = IF req[r].op = "onboard" THEN @
                                    ELSE [no |-> note.no, of |-> note.of,
                                          crossed |-> note.crossed]]
  /\ req[r].op # "reset" => Cardinality(kept) < MaxSwaps
  /\ UNCHANGED <<fileVars, up, pool, mu, loopVars, copyVars, peopled, signedOn,
                 owed, spent>>

\* Anything up to the swap refuses: a bad archive, the guard, the hook before a swap.
Refused(r) ==
  /\ up /\ req[r].pc \in {"extract", "guard", "swap"}
  /\ Ends(r)
  /\ peopled' = peopled \cap {pool}
  /\ UNCHANGED <<live, kept, pre, up, pool, asideDone, had, copyVars, owed,
                 spent>>

(***************************************************************************)
(* The swap: store.Swap with the restore's move and rollback.              *)
(***************************************************************************)
\* swapLocked's checkpoint folds the log back, or says so and goes on.
Folded(dir, lib) == IF dir["wal"] = lib
                      THEN {dir, [dir EXCEPT !["wal"] = None]} ELSE {dir}
Owes(dir, es) == {<<e, dir[e]>> : e \in Present(dir) \cap es}

CloseForSwap(r) ==
  /\ At(r, "swap")
  /\ \E dir \in Folded(live, pool) :
       /\ live' = dir /\ had' = dir
       /\ list' = IF req[r].op = "reset" THEN {} ELSE Present(dir)
       /\ owed' = owed \cup Owes(dir, IF req[r].op = "reset" THEN {"db"} ELSE Entries)
  /\ pool' = Closed
  /\ asideDone' = FALSE
  /\ Goes(r, IF req[r].op = "reset" THEN "delete" ELSE "aside")
  /\ UNCHANGED <<kept, pre, stage, junk, up, mu, copyVars, peopled, signedOn, spent>>

\* A directory does not go over another that has something in it.
Fits(dir, e) == e = "media" => dir[e] = None

\* One rename of a loop from a directory into another.
Moves(from, to, e) ==
  /\ e = First(list)
  /\ Fits(to, e)
  /\ list' = list \ {e}

\* Mutant: a rename that fails is passed over.
AfterFailedMoveGoesOn(r) == list' = list \ {First(list)} /\ UNCHANGED req
AfterFailedMove(r) == Goes(r, "failed") /\ UNCHANGED list

MoveAside(r) ==
  /\ At(r, "aside")
  /\ \E e \in list :
       /\ Moves(live, pre, e)
       /\ live' = [live EXCEPT ![e] = None]
       /\ pre' = [pre EXCEPT ![e] = live[e]]
  /\ UNCHANGED <<kept, stage, junk, up, pool, mu, req, asideDone, had, copyVars,
                 peopled, signedOn, owed, spent>>

AsideIsDone(r) ==
  /\ At(r, "aside") /\ list = {}
  /\ asideDone' = TRUE
  /\ list' = Present(stage)
  /\ Goes(r, "in")
  /\ UNCHANGED <<fileVars, up, pool, mu, had, copyVars, peopled, signedOn, owed, spent>>

MoveIn(r) ==
  /\ At(r, "in")
  /\ \E e \in list :
       /\ Moves(stage, live, e)
       /\ live' = [live EXCEPT ![e] = stage[e]]
       /\ stage' = [stage EXCEPT ![e] = None]
  /\ UNCHANGED <<kept, pre, junk, up, pool, mu, req, asideDone, had, copyVars,
                 peopled, signedOn, owed, spent>>

MoveFails(r) ==
  /\ up /\ req[r].pc \in {"aside", "in"} /\ list # {}
  /\ AfterFailedMove(r)
  /\ UNCHANGED <<fileVars, up, pool, mu, asideDone, had, copyVars, peopled, signedOn,
                 owed, spent>>

\* openPools(false): what is at the path, and never a new file.
Reopened(ok) ==
  IF ok THEN /\ live["db"] # None
             /\ pool' = live["db"]
             /\ live' = [live EXCEPT !["wal"] = IF @ = None THEN live["db"] ELSE @]
             /\ owed' = owed \ {<<"wal", live["wal"]>>}      \* SQLite replays it
        ELSE UNCHANGED <<pool, live, owed>>

\* The move is over: the pools open on the archive and it is brought up.
BringUp(r) ==
  /\ At(r, "in") /\ list = {}
  /\ \/ Reopened(TRUE) /\ Goes(r, "restored")
     \/ \E ok \in BOOLEAN : Reopened(ok) /\ Goes(r, "undo")
  /\ UNCHANGED <<kept, pre, stage, junk, up, mu, loopVars, copyVars, peopled, signedOn, spent>>

\* The move failed: the pools open on whatever is there.
ReopenAfterFailure(r) ==
  /\ At(r, "failed")
  /\ \E ok \in BOOLEAN : Reopened(ok)
  /\ Goes(r, "undo")
  /\ UNCHANGED <<kept, pre, stage, junk, up, mu, loopVars, copyVars, peopled, signedOn, spent>>

\* Mutant: it clears the directory whatever is in it.
ClearsAlways == asideDone \in BOOLEAN
\* Mutant: it never does.
ClearsNever == asideDone /\ ~asideDone
\* Whether the rollback clears the data directory first.
Clears == asideDone

Undo(r) ==
  /\ At(r, "undo")
  /\ \E dir \in IF pool = Closed THEN {live} ELSE Folded(live, pool) :
       /\ live' = dir
       /\ list' = Present(IF Clears THEN dir ELSE pre)
  /\ pool' = Closed
  /\ Goes(r, IF Clears THEN "clear" ELSE "back")
  /\ UNCHANGED <<kept, pre, stage, junk, up, mu, asideDone, had, copyVars, peopled, signedOn,
                 owed, spent>>

Clear(r) ==
  /\ At(r, "clear")
  /\ \/ \E e \in list :
          /\ Moves(live, junk, e)
          /\ live' = [live EXCEPT ![e] = None]
          /\ junk' = [junk EXCEPT ![e] = live[e]]
          /\ UNCHANGED req
     \/ /\ list = {}
        /\ list' = Present(pre)
        /\ Goes(r, "back")
        /\ UNCHANGED <<live, junk>>
  /\ UNCHANGED <<kept, pre, stage, up, pool, mu, asideDone, had, copyVars, peopled, signedOn,
                 owed, spent>>

MoveBack(r) ==
  /\ At(r, "back")
  /\ \E e \in list :
       /\ Moves(pre, live, e)
       /\ live' = [live EXCEPT ![e] = pre[e]]
       /\ pre' = [pre EXCEPT ![e] = None]
  /\ UNCHANGED <<kept, stage, junk, up, pool, mu, req, asideDone, had, copyVars,
                 peopled, signedOn, owed, spent>>

\* The previous files are back, open and brought up.
OldIsUp(r) ==
  /\ At(r, "back") /\ list = {}
  /\ Reopened(TRUE)
  /\ Goes(r, "intact")
  /\ UNCHANGED <<kept, pre, stage, junk, up, mu, loopVars, copyVars, peopled, signedOn, spent>>

Intact(r) ==       \* "restore failed — previous data is intact"
  /\ At(r, "intact")
  /\ Ends(r)
  /\ asideDone' = FALSE /\ had' = NoFiles
  /\ peopled' = peopled \cap {pool}
  /\ UNCHANGED <<live, kept, pre, up, pool, copyVars, owed, spent>>

\* Mutant: the copies waiting stay.
ForgetsNothing == UNCHANGED copy
\* forgetAccountGrants drops every copy waiting.  A download under way goes on.
Forgets == copy' = [a \in Admins |-> None]
Replaced == sending' = [a \in Admins |-> IF sending[a] = NoCopy THEN NoCopy
                                          ELSE [sending[a] EXCEPT !.crossed = TRUE]]
Spends(r) == IF req[r].note.no = 0 THEN UNCHANGED spent
             ELSE spent' = [spent EXCEPT ![req[r].note.no] = @ + 1]

\* Mutant: the note stays.
SpendNothing == UNCHANGED note
\* A success spends the note.
SpendNote == note' = NoNote

\* "Restore complete", over a copy set aside that nothing here opens again, so that
\* whether a log is with it no longer matters: the grants and the note go, and every older safety generation.
Restored(r) ==
  /\ At(r, "restored")
  /\ Ends(r)
  /\ Forgets /\ Replaced /\ SpendNote /\ Spends(r)
  /\ kept' = {[pre EXCEPT !["wal"] = None]} /\ pre' = NoFiles
  /\ owed' = Owes(had, {"media", "db"})
  /\ asideDone' = FALSE /\ had' = NoFiles
  /\ peopled' = peopled \cap {pool}
  /\ UNCHANGED <<live, up, pool, downloads>>

(***************************************************************************)
(* A factory reset.                                                        *)
(***************************************************************************)
DeleteLog(r) ==
  /\ At(r, "delete") /\ live["wal"] # None
  /\ live' = [live EXCEPT !["wal"] = None]
  /\ UNCHANGED <<kept, pre, stage, junk, up, pool, mu, req, loopVars, copyVars, peopled, signedOn,
                 owed, spent>>

DeleteDatabase(r) ==
  /\ At(r, "delete") /\ live["wal"] = None /\ live["db"] # None
  /\ live' = [live EXCEPT !["db"] = None]
  /\ owed' = owed \ {<<"db", had["db"]>>}
  /\ UNCHANGED <<kept, pre, stage, junk, up, pool, mu, req, loopVars, copyVars, peopled, signedOn, spent>>

\* The empty file is made, opened and migrated; the pictures go.
EmptyDatabase(r) ==
  /\ At(r, "delete") /\ live["db"] = None /\ Unused # {}
  /\ live' = [NoFiles EXCEPT !["db"] = NewLib, !["wal"] = NewLib]
  /\ pool' = NewLib
  /\ peopled' = {}
  /\ Ends(r)
  /\ Forgets /\ Replaced /\ SpendNote /\ Spends(r)
  /\ had' = NoFiles /\ owed' = owed \ {<<"media", live["media"]>>}
  /\ UNCHANGED <<kept, pre, up, asideDone, downloads>>

\* A delete, the create, the reopen or the migration fails: the pools open on what is
\* there, or on nothing usable until a restart.
ResetFails(r) ==
  /\ At(r, "delete")
  /\ \/ Reopened(TRUE)
     \/ pool' = Broken /\ UNCHANGED <<live, owed>>
     \/ /\ live["db"] = None /\ Unused # {}                    \* not migrated
        /\ live' = [live EXCEPT !["db"] = NewLib, !["wal"] = NewLib]
        /\ pool' = Broken /\ UNCHANGED owed
  /\ Ends(r)
  /\ Forgets
  /\ had' = NoFiles
  /\ peopled' = peopled \cap {live["db"]}
  /\ UNCHANGED <<kept, pre, up, asideDone, sending, note, downloads, spent>>

(***************************************************************************)
(* The end of the process, and the next one's boot.                        *)
(***************************************************************************)
Dies ==
  /\ up' = FALSE /\ pool' = Closed
  /\ mu' = NoReq /\ req' = [r \in Requests |-> Idle]
  /\ list' = {} /\ asideDone' = FALSE /\ had' = NoFiles
  /\ signedOn' = FALSE
  /\ copy' = [a \in Admins |-> None] /\ note' = NoNote
  /\ sending' = [a \in Admins |-> NoCopy]
  /\ owed' = {x \in owed : x[1] # "wal"}
  /\ kept' = kept \cup ({[pre EXCEPT !["wal"] = None]} \ {NoFiles}) /\ pre' = NoFiles
  /\ peopled' = peopled \cap {live["db"]}
  /\ UNCHANGED <<live, stage, junk, downloads, spent>>

Crash == up /\ Dies

\* A rollback that fails exits for a clean boot.
RollbackFails(r) ==
  /\ up /\ req[r].pc \in {"clear", "back"}
  /\ Dies

\* openStore makes an empty database where there is none, and SQLite deletes a log it
\* finds beside an empty one; a missing MediaCover is made; the sweep takes the staging.
Boot ==
  /\ ~up
  /\ live["db"] = None => Unused # {}
  /\ LET empty == live["db"] = None
         lib   == IF empty THEN NewLib ELSE live["db"] IN
       /\ live' = [media |-> IF live["media"] = None THEN Stray ELSE live["media"],
                   db    |-> lib,
                   wal   |-> IF empty \/ live["wal"] = None
                               THEN lib ELSE live["wal"]]
       /\ pool' = lib
  /\ up' = TRUE
  /\ stage' = NoFiles /\ junk' = NoFiles
  /\ UNCHANGED <<kept, pre, mu, req, loopVars, copyVars, peopled, signedOn, owed, spent>>

Init ==
  /\ live = [media |-> 1, db |-> 1, wal |-> 1]
  /\ kept = {} /\ pre = NoFiles
  /\ stage = NoFiles /\ junk = NoFiles
  /\ up = TRUE /\ pool = 1
  /\ mu = NoReq /\ req = [r \in Requests |-> Idle]
  /\ list = {} /\ asideDone = FALSE /\ had = NoFiles
  /\ copy = [a \in Admins |-> None] /\ sending = [a \in Admins |-> NoCopy]
  /\ note = NoNote
  /\ peopled \in {{}, {1}} /\ signedOn = FALSE
  /\ owed = {} /\ downloads = 0
  /\ spent = [n \in 1 .. MaxDownloads |-> 0]

RestoreStep(r) ==
  \/ Busy(r) \/ Lock(r) \/ Extract(r) \/ Guard(r) \/ Refused(r)
  \/ CloseForSwap(r) \/ MoveAside(r) \/ AsideIsDone(r) \/ MoveIn(r) \/ MoveFails(r)
  \/ BringUp(r) \/ ReopenAfterFailure(r)
  \/ Undo(r) \/ Clear(r) \/ MoveBack(r) \/ OldIsUp(r) \/ Intact(r)
  \/ RollbackFails(r) \/ Restored(r)
ResetStep(r) == DeleteLog(r) \/ DeleteDatabase(r) \/ EmptyDatabase(r) \/ ResetFails(r)

Next ==
  \/ \E r \in Requests :
       \/ Ask(r, "onboard", 0)
       \/ \E op \in {"restore", "reset"}, who \in Admins : Ask(r, op, who)
       \/ RestoreStep(r) \/ ResetStep(r)
  \/ \E a \in Admins : Seal(a) \/ Take(a) \/ Sent(a) \/ CutShort(a)
  \/ SignUp \/ SignOn \/ NoteExpires \/ Draw \/ Crash \/ Boot

Spec == Init /\ [][Next]_vars

(***************************************************************************)
(* Properties.                                                             *)
(***************************************************************************)
Dirs == [Entries -> 0 .. Stray]

TypeOK ==
  /\ live \in Dirs /\ kept \subseteq Dirs /\ pre \in Dirs /\ stage \in Dirs /\ junk \in Dirs
  /\ up \in BOOLEAN /\ pool \in Libs \cup {Closed, Broken}
  /\ mu \in Requests \cup {NoReq}
  /\ \A r \in Requests :
       /\ req[r].op \in {"none", "restore", "onboard", "reset"}
       /\ req[r].pc \in {"idle", "asked", "extract", "guard", "swap", "aside", "in",
                         "failed", "undo", "clear", "back", "intact", "restored",
                         "delete"}
       /\ req[r].pc \notin {"idle", "asked"} => mu = r
  /\ list \subseteq Entries /\ asideDone \in BOOLEAN
  /\ copy \in [Admins -> 0 .. MaxLib]
  /\ note.uid \in Admins \cup {0} /\ note.no \in 0 .. MaxDownloads
  /\ peopled \subseteq Libs /\ signedOn \in BOOLEAN
  /\ had \in Dirs /\ downloads \in 0 .. MaxDownloads

\* What the server held when a restore began is never lost before the next restore
\* succeeds or a reset wipes the data directory: whatever rename fails, whatever crash and whatever boot sweeps, each entry
\* is in the data directory or in a .pre-restore- directory, and a database a reset
\* fails to delete is where it was.
OldIsKept ==
  \A x \in owed : live[x[1]] = x[2] \/ \E dir \in kept \cup {pre} : dir[x[1]] = x[2]

\* "restore failed — previous data is intact" is answered over the old files, all of
\* them and open, with nothing of the archive beside them: where there were no pictures
\* there are none, or one that a request has written since.
IntactMeansOld ==
  \A r \in Requests : req[r].pc = "intact" =>
    /\ pool = had["db"]
    /\ live["db"] = had["db"]
    /\ live["media"] \in IF had["media"] = None THEN {None, Stray} ELSE {had["media"]}
    /\ pre = NoFiles

\* "Restore complete" is answered over the archive's files alone, open, with everything
\* that was there set aside.
RestoredIsTheArchives ==
  \A r \in Requests : req[r].pc = "restored" =>
    /\ pool \in Libs /\ pool # had["db"]
    /\ live = [e \in Entries |-> pool]
    /\ pre = had

\* What a restore answers is true, whichever of its two answers it is.
AnswersAreTrue == IntactMeansOld /\ RestoredIsTheArchives

\* No database is ever opened beside the log of another, which SQLite would replay into
\* it: not after a half move, a rollback, a reset or a boot.
NoForeignLog ==
  up /\ pool \in Libs => live["db"] = pool /\ live["wal"] = pool

\* One download, one replacement: what an admin's restore or reset replaces has a
\* download behind it, and no two have the same.
OneDownloadOneReplacement ==
  /\ \A n \in DOMAIN spent : spent[n] <= 1
  /\ \A r \in Requests :
       req[r].op # "onboard" /\ req[r].pc \in {"restored", "delete"} => req[r].note.no # 0

\* The copy an admin was made to download is of what then goes, unless it was still on
\* its way while another replacement succeeded.
CopyCoversWhatGoes ==
  \A r \in Requests : req[r].note.no # 0 /\ req[r].pc \in {"restored", "delete"} =>
    req[r].note.of = had["db"] \/ req[r].note.crossed

Onboards(r) == req[r].op = "onboard" /\ mu = r /\ had["db"] # None

\* An onboarding restore never replaces a library somebody signed up to after it was
\* let in, however long the archive took to arrive.
SignUpIsNotSwappedAway ==
  \A r \in Requests : Onboards(r) /\ ~signedOn => had["db"] \notin peopled

\* "users empty" holds at the swap (backup_handlers.go:918): nobody has an account in
\* the library an onboarding restore replaces.
UsersEmptyAtTheSwap ==
  \A r \in Requests : Onboards(r) => had["db"] \notin peopled
=============================================================================
