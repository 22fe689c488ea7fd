------------------------------ MODULE JobQueue ------------------------------
(***************************************************************************)
(* The background job queue of internal/jobs: one worker at a time across  *)
(* the server, jobs as rows of the library database, and the requests that *)
(* queue, stop and delete around it.  runner.go, held.go and job.go.       *)
(*                                                                         *)
(* One action is one critical section of Runner.mu (or Runner.hmu), or one *)
(* SQL statement or transaction: what another goroutine can land between.  *)
(* A request goroutine is a process of Requests; the kind's own goroutine  *)
(* is Run, when it queues its own continuation.  The worker is wpc, its    *)
(* job hand; shutdown is cpc.                                              *)
(***************************************************************************)
EXTENDS Naturals, FiniteSets

CONSTANTS
  MaxJob,     \* bound: jobs.id is 1..MaxJob, handed out in order
  Uids,       \* users.id
  NoUid,      \* jobs.user_id is NULL
  Admins,     \* the accounts that are admins
  Works,      \* what a job does: its kind and canonical params
  NoWork,
  Requests,   \* request goroutines
  Run,        \* the running job's own goroutine
  Ops,        \* what happens in an instance, of AllOps
  SwapKinds,  \* what an Exclusive does, of AllSwaps
  PerOwner,   \* Options.PerOwner
  MaxGen,     \* bound: store generations
  MaxInc      \* bound: accounts that ever had one users.id

NoJob == 0
Ids   == 1..MaxJob
Procs == Requests \cup {Run}
Gens  == 0..MaxGen
Incs  == 0..MaxInc

AllOps == {"enqueue", "rerun", "continue", "stop", "stopAll", "delete",
           "create", "exclusive", "lock", "close", "crash"}
Swapping == {"restore", "uncarried", "rollback", "recover", "reset"}
AllSwaps == Swapping \cup {"reindex", "update"}

ASSUME QueueAssumption ==
  /\ MaxJob \in Nat \ {0}
  /\ MaxGen \in Nat \ {0}
  /\ MaxInc \in Nat \ {0}
  /\ PerOwner \in Nat \ {0}
  /\ NoUid \notin Uids
  /\ NoWork \notin Works
  /\ Run \notin Requests
  /\ Admins \subseteq Uids
  /\ Ops \subseteq AllOps
  /\ SwapKinds \subseteq AllSwaps

VARIABLES
  \* The library database.
  rows,       \* the jobs table
  accounts,   \* users: who holds each id now (0: nobody); ids are reused
  gen,        \* Store.Generation
  lock,       \* SQLite's write lock, when a longer transaction holds it
  \* Runner's memory.
  held,       \* Runner.held: the waiting jobs a Stop stopped, row unwritten
  claimStop,  \* Runner.claimStop
  pending,    \* Runner.pending
  retired,    \* retiringLocked()
  secrets,    \* Runner.secrets, by job id
  cpc,        \* Close; Runner.closed is cpc # "open"
  cancelled,  \* Runner.base is cancelled
  abandoned,  \* the job Close gave up on
  \* The worker.
  wpc, hand,
  heldSeen,   \* the held set a claim read before its UPDATE got the lock
  \* The requests.
  req,
  \* History, read by properties only.
  promised,   \* jobs a Stop was told it stopped before they started
  kickDue     \* rows may wait with no worker until the next press

dbVars     == <<rows, accounts, gen, lock>>
closeVars  == <<cpc, cancelled, abandoned>>
memVars    == <<held, claimStop, pending, retired, secrets, closeVars>>
workerVars == <<wpc, hand, heldSeen>>
histVars   == <<promised, kickDue>>
vars == <<dbVars, memVars, workerVars, req, histVars>>

Live  == {"queued", "running"}
Ended == {"succeeded", "failed", "stopped", "interrupted"}

NoMark == [gen |-> 0, by |-> Run]
NoRow  == [state |-> "absent", uid |-> NoUid, inc |-> 0, work |-> NoWork,
           carried |-> FALSE]
NoHand == [id |-> NoJob, gen |-> 0, uid |-> NoUid, stop |-> FALSE,
           shutdown |-> FALSE, worked |-> FALSE, fin |-> "none"]
Idle   == [pc |-> "idle", op |-> "none", gen |-> 0, uid |-> NoUid, inc |-> 0,
           work |-> NoWork, id |-> NoJob, todo |-> {}, fresh |-> {},
           kind |-> "none"]

ClaimPCs  == {"settle", "claimRead", "claimUpdate", "claimed", "claimFailed"}
HandPCs   == {"execute", "between", "item", "progress", "continue", "record",
              "release"}
RunPCs    == {"between", "item", "progress", "continue"}
InsertPCs == {"insert", "inserted"}
SteadyPCs == {"mark", "recheck", "resolve"}
StopPCs   == {"stopRead", "mark", "recheck", "resolve", "signal", "settleSoon",
              "readRunning", "stopHeld", "waitClaim", "orphan"}
XPCs      == {"fn", "swapLock", "moving", "fnEnd"}
ReqPCs == {"idle", "enqCheck", "leave", "waitIdle", "deleteTx", "xwait"}
            \cup InsertPCs \cup StopPCs \cup XPCs

(***************************************************************************)
(* Runner's fields that are a function of where its goroutines are.        *)
(***************************************************************************)
neverClaiming == FALSE       \* mutant: a claim under way is not said to be one
claiming  == wpc \in ClaimPCs
alive     == wpc # "none"
closed    == cpc # "open"
running   == IF wpc \in HandPCs THEN hand.id ELSE NoJob
runEnded  == wpc \in {"record", "release"}                      \* Job.ended
inserting == {p \in Procs : req[p].pc \in InsertPCs}            \* Runner.inserts
exclusive == {p \in Requests : req[p].pc \in XPCs}
noneLeaving == {}            \* mutant: StopOwner refuses the account nothing
leaving   == {req[p].uid : p \in {q \in Requests :
                req[q].op = "delete" /\ req[q].pc # "idle"}}

swapWanted == \E p \in Requests : req[p].pc \in {"swapLock", "moving"}
swapMoving == \E p \in Requests : req[p].pc = "moving"
steadyHeld == \E p \in Requests : req[p].pc \in SteadyPCs

\* A statement that writes gets the lock, or gives up (busy_timeout, a closed
\* pool in the middle of a swap).
CanWrite  == lock = "free" /\ ~swapMoving
NeverFails == FALSE          \* mutant: a write waits for the lock without a bound
MayFail   == lock # "free" \/ swapMoving

HeldNow   == {i \in Ids : held[i].gen = gen}                    \* Runner.Held
Set(i, st) == [rows EXCEPT ![i].state = st]
\* ... WHERE id = ? AND state = 'running'
CasAny(i, st) == Set(i, st)  \* mutant: without the state in the WHERE
Cas(i, st) == IF rows[i].state = "running" THEN Set(i, st) ELSE rows
forget(ids) == secrets' = secrets \ ids
forgetNoneEnded == UNCHANGED secrets                 \* mutant
\* What is no longer waiting or running in the file the server is on.
forgetEnded == secrets' = {i \in secrets : rows[i].state \in Live}
Finish(p)  == req' = [req EXCEPT ![p] = Idle]
Goto(p, l) == req' = [req EXCEPT ![p].pc = l]

\* Mutant: a worker that is alive is not told to look again.
KickNoWord(excl) ==
  /\ UNCHANGED pending
  /\ IF alive \/ closed \/ excl # {} \/ retired
     THEN UNCHANGED <<wpc, kickDue>>
     ELSE wpc' = "top" /\ kickDue' = FALSE

\* kickLocked, from a goroutine that leaves excl in Exclusive.
Kick(excl) ==
  /\ pending' = TRUE
  /\ IF alive \/ closed \/ excl # {} \/ retired
     THEN /\ UNCHANGED wpc
          /\ kickDue' = (kickDue \/ (~alive /\ retired))
     ELSE /\ wpc' = "top"
          /\ kickDue' = FALSE

\* settleHeld: the marks become rows, except one whose row a claim has taken.
SettledRows == [i \in Ids |-> IF i \in HeldNow /\ rows[i].state = "queued"
                              THEN [rows[i] EXCEPT !.state = "stopped"]
                              ELSE rows[i]]
SettledHeldAll == [i \in Ids |-> NoMark]     \* mutant: a claimed job's mark goes too
SettledHeld == [i \in Ids |-> IF i \in HeldNow /\ rows[i].state = "running"
                              THEN held[i] ELSE NoMark]
CanSettle   == HeldNow = {} \/ CanWrite
Settle      == CanSettle /\ rows' = SettledRows /\ held' = SettledHeld

(***************************************************************************)
(* Enqueue, Rerun and Continue.                                            *)
(***************************************************************************)
EnqueueStart(r, u, w) ==
  /\ "enqueue" \in Ops
  /\ req[r].pc = "idle"
  /\ accounts[u] # 0
  /\ req' = [req EXCEPT ![r] = [Idle EXCEPT !.pc = "enqCheck", !.op = "enqueue",
               !.gen = gen, !.uid = u, !.inc = accounts[u], !.work = w]]
  /\ UNCHANGED <<dbVars, memVars, workerVars, histVars>>

\* Rerun: the row's work, for the row's own owner.  A job a restore carried
\* over is refused.
RerunStart(r, i) ==
  /\ "rerun" \in Ops
  /\ req[r].pc = "idle"
  /\ rows[i].state # "absent"
  /\ rows[i].uid \in Uids
  /\ ~rows[i].carried
  /\ req' = [req EXCEPT ![r] = [Idle EXCEPT !.pc = "enqCheck", !.op = "enqueue",
               !.gen = gen, !.uid = rows[i].uid, !.inc = accounts[rows[i].uid],
               !.work = rows[i].work]]
  /\ UNCHANGED <<dbVars, memVars, workerVars, histVars>>

\* Job.Continue: the owner is the running job's, of the generation it is in.
ContinueStart(w) ==
  /\ "continue" \in Ops
  /\ wpc = "between"
  /\ wpc' = "continue"
  /\ req' = [req EXCEPT ![Run] = [Idle EXCEPT !.pc = "enqCheck", !.op = "enqueue",
               !.gen = hand.gen, !.uid = hand.uid, !.inc = rows[hand.id].inc,
               !.work = w]]
  /\ UNCHANGED <<dbVars, memVars, hand, heldSeen, histVars>>

Refused(p) == \/ closed \/ retired
              \/ exclusive # {}
              \/ req[p].uid \in leaving
              \/ req[p].gen # gen

EnqueueCheck(p) ==
  /\ req[p].pc = "enqCheck"
  /\ IF Refused(p)
     THEN /\ Finish(p)
          /\ wpc' = IF p = Run THEN "between" ELSE wpc
     ELSE Goto(p, "insert") /\ UNCHANGED wpc
  /\ UNCHANGED <<dbVars, memVars, hand, heldSeen, histVars>>

\* The next id AUTOINCREMENT hands out.
IsNext(i) == \A k \in Ids : (k < i) <=> (rows[k].state # "absent")

Self(p)    == IF p = Run THEN hand.id ELSE NoJob
\* Mutant: the running jobs are not counted.
CountedWaiting(p) == {i \in Ids : /\ rows[i].uid = req[p].uid
                                  /\ rows[i].state = "queued"
                                  /\ i \notin HeldNow
                                  /\ i # Self(p)}
Counted(p) == {i \in Ids : /\ rows[i].uid = req[p].uid
                           /\ rows[i].state \in Live
                           /\ i \notin HeldNow
                           /\ i # Self(p)}

InsertJob(p) ==
  /\ req[p].pc = "insert"
  /\ CanWrite
  /\ accounts[req[p].uid] = req[p].inc
  /\ \A i \in Counted(p) : rows[i].work # req[p].work
  /\ Cardinality(Counted(p)) < PerOwner
  /\ \E i \in Ids :
       /\ IsNext(i)
       /\ rows' = [rows EXCEPT ![i] = [NoRow EXCEPT !.state = "queued",
                     !.uid = req[p].uid, !.inc = req[p].inc, !.work = req[p].work]]
       /\ secrets' = secrets \cup {i}
  /\ Goto(p, "inserted")
  /\ UNCHANGED <<accounts, gen, lock, held, claimStop, pending, retired,
                 closeVars, workerVars, histVars>>

\* ErrNoOwner, ErrDuplicate, ErrLimit, or a write that could not be made (the
\* bound on ids among them).
InsertRefused(p) ==
  /\ req[p].pc = "insert"
  /\ \/ MayFail
     \/ accounts[req[p].uid] # req[p].inc
     \/ \E i \in Counted(p) : rows[i].work = req[p].work
     \/ Cardinality(Counted(p)) >= PerOwner
     \/ \A i \in Ids : rows[i].state # "absent"
  /\ Goto(p, "inserted")
  /\ UNCHANGED <<dbVars, memVars, workerVars, histVars>>

EnqueueDone(p) ==
  /\ req[p].pc = "inserted"
  /\ Finish(p)
  /\ IF p = Run THEN /\ wpc' = "between"
                     /\ pending' = TRUE
                     /\ UNCHANGED kickDue
                ELSE Kick(exclusive)
  /\ UNCHANGED <<dbVars, held, claimStop, retired, secrets, closeVars,
                 hand, heldSeen, promised>>

(***************************************************************************)
(* The worker: work, claim, execute, run, finish.                          *)
(***************************************************************************)
WorkerTop ==
  /\ wpc = "top"
  /\ IF closed \/ exclusive # {}
     THEN wpc' = "none" /\ UNCHANGED pending
     ELSE wpc' = "settle" /\ pending' = FALSE
  /\ UNCHANGED <<dbVars, held, claimStop, retired, secrets, closeVars,
                 hand, heldSeen, req, histVars>>

WorkerSettle ==
  /\ wpc = "settle"
  /\ Settle
  /\ wpc' = "claimRead"
  /\ UNCHANGED <<accounts, gen, lock, claimStop, pending, retired, secrets,
                 closeVars, hand, heldSeen, req, histVars>>

\* The generation and the held set are read before the UPDATE has the lock.
ClaimRead ==
  /\ wpc = "claimRead"
  /\ heldSeen' = HeldNow
  /\ hand' = [NoHand EXCEPT !.gen = gen]
  /\ wpc' = "claimUpdate"
  /\ UNCHANGED <<dbVars, memVars, req, histVars>>

Claimable == {i \in Ids \ heldSeen : rows[i].state = "queued"}

ClaimUpdate ==
  /\ wpc = "claimUpdate"
  /\ CanWrite
  /\ IF Claimable = {}
     THEN UNCHANGED <<rows, hand>>
     ELSE \E i \in Claimable :
            /\ \A k \in Claimable : i <= k
            /\ rows' = Set(i, "running")
            /\ hand' = [hand EXCEPT !.id = i, !.uid = rows[i].uid]
  /\ heldSeen' = {}
  /\ wpc' = "claimed"
  /\ UNCHANGED <<accounts, gen, lock, memVars, req, histVars>>

\* busyRetry tries the claim again, its held rows first, and at last gives up.
ClaimRetry ==
  /\ wpc = "claimUpdate"
  /\ MayFail
  /\ wpc' = "settle"
  /\ heldSeen' = {}
  /\ hand' = NoHand
  /\ UNCHANGED <<dbVars, memVars, req, histVars>>

ClaimGivesUp ==
  /\ wpc \in {"settle", "claimUpdate"}
  /\ MayFail
  /\ wpc' = "claimFailed"
  /\ heldSeen' = {}
  /\ hand' = NoHand
  /\ UNCHANGED <<dbVars, memVars, req, histVars>>

\* close(claimEnded): every Stop waiting for this claim goes on.
NobodyWoken == req           \* mutant: claimEnded is not closed
ClaimWakes == [p \in Procs |-> IF req[p].pc = "waitClaim"
                               THEN [req[p] EXCEPT !.pc = "stopHeld"] ELSE req[p]]

\* unhold: the job taken was held while the claim was under way.
NotUnheld == FALSE           \* mutant: the mark is not looked for
Unheld == held[hand.id].gen = hand.gen

AfterClaim ==
  /\ wpc = "claimed"
  /\ hand.id # NoJob
  /\ held' = IF Unheld THEN [held EXCEPT ![hand.id] = NoMark] ELSE held
  /\ hand' = [hand EXCEPT !.stop = @ \/ Unheld \/ hand.id \in claimStop,
                          !.shutdown = closed]
  /\ claimStop' = {}
  /\ req' = ClaimWakes
  /\ wpc' = "execute"
  /\ UNCHANGED <<dbVars, pending, retired, secrets, closeVars, heldSeen,
                 histVars>>

AfterEmptyClaim ==
  /\ wpc \in {"claimed", "claimFailed"}
  /\ hand.id = NoJob
  /\ hand' = NoHand
  /\ claimStop' = {}
  /\ req' = ClaimWakes
  /\ wpc' = IF wpc = "claimed" /\ pending THEN "top" ELSE "none"
  /\ kickDue' = (kickDue \/ wpc = "claimFailed")
  /\ UNCHANGED <<dbVars, held, pending, retired, secrets, closeVars,
                 heldSeen, promised>>

ShutdownAsked == hand.shutdown          \* mutant: Stopping does not see a Stop
StopAsked == hand.stop \/ hand.shutdown
CtxEnded  == hand.stop \/ cancelled

\* finish's reading of how the run ended: err is nil, its context's error or
\* any other.
EndStateCanceled(err, told) ==          \* mutant: a state the table does not know
  IF hand.stop THEN "canceled" ELSE "succeeded"
EndState(err, told) ==
  LET short == err # "nil" \/ told
  IN  IF err # "nil" /\ ~(StopAsked /\ err = "canceled") THEN "failed"
      ELSE IF hand.stop /\ short THEN "stopped"
      ELSE IF hand.shutdown /\ short THEN "interrupted"
      ELSE "succeeded"

Returns(err, told) ==
  /\ wpc' = "record"
  /\ hand' = [hand EXCEPT !.fin =
                          IF abandoned = hand.id THEN "none" ELSE EndState(err, told)]

\* execute: a job whose account is gone, or no longer an admin, or whose kind
\* the server no longer knows, fails before its first step.
Execute ==
  /\ wpc = "execute"
  /\ \/ /\ hand.uid \in Uids
        /\ accounts[hand.uid] # 0
        /\ wpc' = "between"
        /\ UNCHANGED hand
     \/ Returns("error", FALSE)
  /\ UNCHANGED <<dbVars, memVars, heldSeen, req, histVars>>

\* Kind.Run: between items it asks Stopping, and an item it begins it finishes,
\* abandons whole when its context ends, or fails at.  An item may hold the
\* write lock (an import stages its file in one transaction).
BeginItem ==
  /\ wpc = "between"
  /\ ~StopAsked
  /\ wpc' = "item"
  /\ lock' \in IF lock = "free" THEN {"free", "run"} ELSE {lock}
  /\ UNCHANGED <<rows, accounts, gen, memVars, hand, heldSeen, req, histVars>>

Unlocked == lock' = IF lock = "run" THEN "free" ELSE lock

FinishItem ==
  /\ wpc = "item"
  /\ Unlocked
  /\ wpc' = "progress"
  /\ hand' = [hand EXCEPT !.worked = TRUE]
  /\ UNCHANGED <<rows, accounts, gen, memVars, heldSeen, req, histVars>>

AbandonItem ==
  /\ wpc = "item"
  /\ CtxEnded
  /\ Unlocked
  /\ wpc' = "between"
  /\ UNCHANGED <<rows, accounts, gen, memVars, hand, heldSeen, req, histVars>>

\* Job.Progress, throttled: it also writes the rows of held jobs.
Progress ==
  /\ wpc = "progress"
  /\ \/ Settle
     \/ UNCHANGED <<rows, held>>
  /\ wpc' = "between"
  /\ UNCHANGED <<accounts, gen, lock, claimStop, pending, retired, secrets,
                 closeVars, hand, heldSeen, req, histVars>>

RunTold ==      \* Stopping answered yes
  /\ wpc = "between"
  /\ StopAsked
  /\ \E err \in {"nil", "canceled"} : Returns(err, TRUE)
  /\ UNCHANGED <<dbVars, memVars, heldSeen, req, histVars>>

RunDone ==      \* every item is done
  /\ wpc = "between"
  /\ hand.worked
  /\ Returns("nil", FALSE)
  /\ UNCHANGED <<dbVars, memVars, heldSeen, req, histVars>>

RunFails ==
  /\ wpc \in {"between", "item"}
  /\ Unlocked
  /\ Returns("error", FALSE)
  /\ UNCHANGED <<rows, accounts, gen, memVars, heldSeen, req, histVars>>

RecordEnd ==
  /\ wpc = "record"
  /\ hand.fin # "none"
  /\ CanWrite
  /\ rows' = Cas(hand.id, hand.fin)
  /\ forget({hand.id})
  /\ wpc' = "release"
  /\ UNCHANGED <<accounts, gen, lock, held, claimStop, pending, retired,
                 closeVars, hand, heldSeen, req, histVars>>

\* Abandoned by Close, or a write that failed past every retry: the row is left.
RecordNothing ==
  /\ wpc = "record"
  /\ hand.fin = "none" \/ MayFail
  /\ forget({hand.id})
  /\ wpc' = "release"
  /\ UNCHANGED <<dbVars, held, claimStop, pending, retired, closeVars,
                 hand, heldSeen, req, histVars>>

Release ==
  /\ wpc = "release"
  /\ hand' = NoHand
  /\ wpc' = "top"
  /\ UNCHANGED <<dbVars, memVars, heldSeen, req, histVars>>

(***************************************************************************)
(* Stop, Stop all, and the stop of an account about to be deleted          *)
(* (StopOwner).  They share their steps; op tells them apart.              *)
(***************************************************************************)
StopStart(r, u, i) ==
  /\ "stop" \in Ops
  /\ req[r].pc = "idle"
  /\ accounts[u] # 0
  /\ rows[i].state # "absent"
  /\ req' = [req EXCEPT ![r] = [Idle EXCEPT !.pc = "stopRead", !.op = "stop",
               !.gen = gen, !.uid = u, !.id = i]]
  /\ UNCHANGED <<dbVars, memVars, workerVars, histVars>>

StopAllStart(r, u) ==
  /\ "stopAll" \in Ops
  /\ req[r].pc = "idle"
  /\ accounts[u] # 0
  /\ req' = [req EXCEPT ![r] = [Idle EXCEPT !.pc = "stopRead", !.op = "stopAll",
               !.gen = gen, !.uid = u]]
  /\ UNCHANGED <<dbVars, memVars, workerVars, histVars>>

\* StopOwner raises leaving, then waits for the inserts in progress.
DeleteStart(r, u) ==
  /\ "delete" \in Ops
  /\ req[r].pc = "idle"
  /\ accounts[u] # 0
  /\ u \notin Admins
  /\ req' = [req EXCEPT ![r] = [Idle EXCEPT !.pc = "leave", !.op = "delete", !.uid = u]]
  /\ UNCHANGED <<dbVars, memVars, workerVars, histVars>>

DeleteLeave(r) ==
  /\ req[r].pc = "leave"
  /\ inserting = {}
  /\ Goto(r, "stopRead")
  /\ UNCHANGED <<dbVars, memVars, workerVars, histVars>>

\* visible(viewer, uid), or the account's own for a delete.
InScope(r, u) == \/ u = req[r].uid
                 \/ req[r].op # "delete" /\ req[r].uid \in Admins
Matches(r)    == IF req[r].op = "stop" THEN running = req[r].id
                 ELSE running # NoJob /\ InScope(r, hand.uid)

Queued(r) == {i \in Ids : rows[i].state = "queued" /\ InScope(r, rows[i].uid)}

\* Steady.TrySteady: refused while a swap is under way or waits to begin, or
\* when the file is not the request's.  A delete waits the swap out.
StopStale(r) ==
  /\ req[r].pc = "stopRead"
  /\ req[r].op # "delete"
  /\ swapWanted \/ req[r].gen # gen
  /\ Finish(r)
  /\ UNCHANGED <<dbVars, memVars, workerVars, histVars>>

StopRead(r) ==
  /\ req[r].pc = "stopRead"
  /\ ~swapMoving
  /\ req[r].op # "delete" => req[r].gen = gen
  /\ IF req[r].op = "stop"
     THEN LET row == rows[req[r].id]
          IN  IF row.state \notin Live \/ ~InScope(r, row.uid) THEN Finish(r)
              ELSE req' = [req EXCEPT ![r].todo = {req[r].id},
                     ![r].pc = IF row.state = "running" THEN "signal" ELSE "mark"]
     ELSE req' = [req EXCEPT ![r].pc = "mark", ![r].gen = gen, ![r].todo = Queued(r)]
  /\ UNCHANGED <<dbVars, memVars, workerVars, histVars>>

\* hold: the marks, then each row read again, then each mark whose row had gone.
Mark(r) ==
  /\ req[r].pc = "mark"
  /\ LET marked == req[r].todo \ HeldNow
     IN  /\ held' = [i \in Ids |-> IF i \in marked THEN [gen |-> gen, by |-> r]
                                                   ELSE held[i]]
         /\ req' = [req EXCEPT ![r].pc = "recheck", ![r].todo = marked]
  /\ UNCHANGED <<dbVars, claimStop, pending, retired, secrets, closeVars,
                 workerVars, histVars>>

Recheck(r) ==
  /\ req[r].pc = "recheck"
  /\ \E i \in req[r].todo :
       /\ \A k \in req[r].todo : i <= k
       /\ IF rows[i].state = "queued"
          THEN /\ req' = [req EXCEPT ![r].todo = @ \ {i}, ![r].fresh = @ \cup {i}]
               /\ promised' = promised \cup {i}
          ELSE /\ Goto(r, "resolve")
               /\ UNCHANGED promised
  /\ UNCHANGED <<dbVars, memVars, workerVars, kickDue>>

\* The mark still this Stop's own is taken back: the claim got there first, and a
\* Stop goes on as for a running job.  Two marks of one millisecond are equal.
Resolve(r) ==
  /\ req[r].pc = "resolve"
  /\ \E i \in req[r].todo :
       /\ \A k \in req[r].todo : i <= k
       /\ \/ /\ i \in HeldNow
             /\ held' = [held EXCEPT ![i] = NoMark]
             /\ req' = [req EXCEPT ![r].todo = IF req[r].op = "stop" THEN @ ELSE @ \ {i},
                          ![r].pc = IF req[r].op = "stop" THEN "signal" ELSE "recheck"]
             /\ UNCHANGED promised
          \/ /\ i \notin HeldNow \/ held[i].by # r
             /\ req' = [req EXCEPT ![r].pc = "recheck", ![r].todo = @ \ {i},
                                   ![r].fresh = @ \cup {i}]
             /\ promised' = promised \cup {i}
             /\ UNCHANGED held
  /\ UNCHANGED <<dbVars, claimStop, pending, retired, secrets, closeVars,
                 workerVars, kickDue>>

\* Out of Steady.  A Stop whose job was held already has nothing left to do.
AfterHold(r) ==
  /\ req[r].pc = "recheck"
  /\ req[r].todo = {}
  /\ forget(req[r].fresh)
  /\ IF req[r].op # "stop" THEN Goto(r, "signal")
     ELSE IF req[r].fresh # {} THEN Goto(r, "settleSoon") ELSE Finish(r)
  /\ UNCHANGED <<dbVars, held, claimStop, pending, retired, closeVars,
                 workerVars, histVars>>

\* signalRunning: the job in hand hears the Stop before the Stop writes.
Signal(r) ==
  /\ req[r].pc = "signal"
  /\ hand' = IF Matches(r) /\ ~runEnded THEN [hand EXCEPT !.stop = TRUE] ELSE hand
  /\ Goto(r, IF req[r].op = "stop" THEN "stopHeld"
             ELSE IF req[r].fresh # {} THEN "settleSoon" ELSE "readRunning")
  /\ UNCHANGED <<dbVars, memVars, wpc, heldSeen, histVars>>

\* settleHeldSoon: at most 50 ms for the lock; failing that a word to the worker,
\* if Runner.mu is free that instant.
SettleSoon(r) ==
  /\ req[r].pc = "settleSoon"
  /\ \/ Settle /\ UNCHANGED <<pending, wpc, kickDue>>
     \/ /\ MayFail
        /\ UNCHANGED <<rows, held>>
        /\ \/ Kick(exclusive)
           \/ UNCHANGED <<pending, wpc, kickDue>>
  /\ IF req[r].op = "stop" THEN Finish(r)
     ELSE req' = [req EXCEPT ![r].pc = "readRunning", ![r].fresh = {}]
  /\ UNCHANGED <<accounts, gen, lock, claimStop, retired, secrets, closeVars,
                 hand, heldSeen, promised>>

ReadRunning(r) ==
  /\ req[r].pc = "readRunning"
  /\ IF swapMoving
     THEN Finish(r)
     ELSE req' = [req EXCEPT ![r].pc = "stopHeld",
            ![r].todo = {i \in Ids : /\ rows[i].state = "running"
                                     /\ InScope(r, rows[i].uid)}]
  /\ UNCHANGED <<dbVars, memVars, workerVars, histVars>>

\* stopHeldLocked, for each job: a claim in progress is waited out; the job in
\* hand is stopped; a running row in nobody's hands is an orphan.
StopHeld(r) ==
  /\ req[r].pc = "stopHeld"
  /\ \E i \in req[r].todo :
       /\ \A k \in req[r].todo : i <= k
       /\ IF claiming
          THEN /\ claimStop' = claimStop \cup {i}
               /\ Goto(r, "waitClaim")
               /\ UNCHANGED hand
          ELSE /\ UNCHANGED claimStop
               /\ IF running = i
                  THEN /\ hand' = IF runEnded THEN hand ELSE [hand EXCEPT !.stop = TRUE]
                       /\ req' = [req EXCEPT ![r].todo = @ \ {i}]
                  ELSE Goto(r, "orphan") /\ UNCHANGED hand
  /\ UNCHANGED <<dbVars, held, pending, retired, secrets, closeVars, wpc,
                 heldSeen, histVars>>

\* The stop_requested it writes on the running rows, or fails to, is read by
\* nothing but the claim of a waiting row: it is left out.
StopDone(r) ==
  /\ req[r].pc = "stopHeld"
  /\ req[r].todo = {}
  /\ IF req[r].op = "delete" THEN Goto(r, "waitIdle") ELSE Finish(r)
  /\ UNCHANGED <<dbVars, memVars, workerVars, histVars>>

\* settleOrphan: a row whose end was never recorded is interrupted.
Orphan(r) ==
  /\ req[r].pc = "orphan"
  /\ CanWrite
  /\ \E i \in req[r].todo :
       /\ \A k \in req[r].todo : i <= k
       /\ rows' = Cas(i, "interrupted")
       /\ IF rows[i].state = "running" THEN forget({i}) ELSE UNCHANGED secrets
       /\ req' = [req EXCEPT ![r].pc = "stopHeld", ![r].todo = @ \ {i}]
  /\ UNCHANGED <<accounts, gen, lock, held, claimStop, pending, retired,
                 closeVars, workerVars, histVars>>

OrphanFails(r) ==
  /\ req[r].pc = "orphan"
  /\ MayFail
  /\ Finish(r)
  /\ UNCHANGED <<dbVars, memVars, workerVars, histVars>>

(***************************************************************************)
(* The rest of an account's delete (handleDeleteUser), and sign-up.        *)
(***************************************************************************)
DeleteIdle(r) ==      \* WaitOwnerIdle
  /\ req[r].pc = "waitIdle"
  /\ ~claiming
  /\ running # NoJob => hand.uid # req[r].uid
  /\ Goto(r, "deleteTx")
  /\ UNCHANGED <<dbVars, memVars, workerVars, histVars>>

\* The trigger jobs_owner_gone clears the owner of every job of the account; the
\* handler's end releases it (leaving).
DeleteAccount(r) ==
  /\ req[r].pc = "deleteTx"
  /\ CanWrite
  /\ accounts' = [accounts EXCEPT ![req[r].uid] = 0]
  /\ rows' = [i \in Ids |-> IF rows[i].uid = req[r].uid
                            THEN [rows[i] EXCEPT !.uid = NoUid] ELSE rows[i]]
  /\ Finish(r)
  /\ UNCHANGED <<gen, lock, memVars, workerVars, histVars>>

\* The wait for the running job is ten seconds; a delete that cannot be made is
\* refused.
DeleteRefused(r) ==
  /\ \/ req[r].pc = "waitIdle"
     \/ req[r].pc = "deleteTx" /\ MayFail
  /\ Finish(r)
  /\ UNCHANGED <<dbVars, memVars, workerVars, histVars>>

\* users.id is reused; the name is one no job and no request still carries.
CreateAccount(u) ==
  /\ "create" \in Ops
  /\ accounts[u] = 0
  /\ ~swapMoving
  /\ \E n \in Incs \ {0} :
       /\ \A i \in Ids : rows[i].inc # n
       /\ \A p \in Procs : req[p].inc # n
       /\ accounts' = [accounts EXCEPT ![u] = n]
  /\ UNCHANGED <<rows, gen, lock, memVars, workerVars, req, histVars>>

(***************************************************************************)
(* Exclusive, and the swaps of the database files it is held for           *)
(* (store/swap.go, store/repair.go, store/journal.go).                     *)
(***************************************************************************)
ExclusiveStart(r, k) ==
  /\ "exclusive" \in Ops
  /\ req[r].pc = "idle"
  /\ k \in SwapKinds
  /\ req' = [req EXCEPT ![r] = [Idle EXCEPT
               !.pc = "xwait", !.op = "exclusive", !.kind = k]]
  /\ UNCHANGED <<dbVars, memVars, workerVars, histVars>>

\* A claim and the inserts in progress are waited out, a running job refuses.
ExclusiveEnter(r) ==
  /\ req[r].pc = "xwait"
  /\ ~claiming
  /\ inserting = {}
  /\ IF closed \/ retired \/ running # NoJob THEN Finish(r) ELSE Goto(r, "fn")
  /\ UNCHANGED <<dbVars, memVars, workerVars, histVars>>

\* fn: a swap takes the swap lock; an update launches the recreater and calls
\* Retire; a reindex that repairs the index rewrites in place.
RunFn(r) ==
  /\ req[r].pc = "fn"
  /\ Goto(r, IF req[r].kind \in Swapping THEN "swapLock" ELSE "fnEnd")
  /\ retired' = (retired \/ req[r].kind = "update")
  /\ UNCHANGED <<dbVars, held, claimStop, pending, secrets, closeVars,
                 workerVars, histVars>>

SwapUnwritten(r) ==           \* mutant: the marks are not written first
  /\ req[r].pc = "swapLock"
  /\ ~steadyHeld
  /\ ~swapMoving
  /\ gen + 2 <= MaxGen
  /\ Goto(r, "moving")
  /\ UNCHANGED <<dbVars, memVars, workerVars, histVars>>

\* writeHeldBeforeSwap, with every Steady read waited out; one it cannot write
\* refuses the swap (so does the bound on generations).
SwapBegin(r) ==
  /\ req[r].pc = "swapLock"
  /\ ~steadyHeld
  /\ ~swapMoving
  /\ gen + 2 <= MaxGen
  /\ Settle
  /\ Goto(r, "moving")
  /\ UNCHANGED <<accounts, gen, lock, claimStop, pending, retired, secrets,
                 closeVars, workerVars, histVars>>

SwapRefused(r) ==
  /\ req[r].pc = "swapLock"
  /\ ~steadyHeld
  /\ ~swapMoving
  /\ (lock # "free" /\ HeldNow # {}) \/ gen + 2 > MaxGen
  /\ Goto(r, "fnEnd")
  /\ UNCHANGED <<dbVars, memVars, workerVars, histVars>>

\* CarryJournal: the jobs go over with their ids, the unfinished ones
\* interrupted, each owner kept only if the id still names that account.  A failure
\* costs the history, never the restore.
Carried(users) ==
  [i \in Ids |-> IF rows[i].state = "absent" THEN rows[i]
     ELSE [rows[i] EXCEPT !.state   = IF @ \in Live THEN "interrupted" ELSE @,
                          !.uid     = IF @ \in Uids /\ users[@] = rows[i].inc
                                      THEN @ ELSE NoUid,
                          !.carried = TRUE]]

SwapFiles(r) ==
  /\ req[r].pc = "moving"
  /\ \/ /\ req[r].kind = "restore"
        /\ accounts' \in [Uids -> Incs]
        /\ rows' = Carried(accounts')
        /\ gen' = gen + 1
        /\ UNCHANGED promised
     \/ /\ req[r].kind = "uncarried"     \* a restore whose CarryJournal failed
        /\ accounts' \in [Uids -> Incs]
        /\ rows' = [i \in Ids |-> NoRow]
        /\ gen' = gen + 1
        /\ promised' = {}
     \/ /\ req[r].kind = "rollback"      \* a restore that failed, put back
        /\ gen' = gen + 2
        /\ UNCHANGED <<rows, accounts, promised>>
     \/ /\ req[r].kind = "recover"       \* a copy of every row
        /\ gen' = gen + 1
        /\ UNCHANGED <<rows, accounts, promised>>
     \/ /\ req[r].kind = "reset"         \* an empty file: ids start again
        /\ rows' = [i \in Ids |-> NoRow]
        /\ accounts' = [u \in Uids |-> 0]
        /\ gen' = gen + 1
        /\ promised' = {}
  /\ lock' = "free"
  /\ Goto(r, "fnEnd")
  /\ UNCHANGED <<memVars, workerVars, kickDue>>

\* forgetEnded, and a worker for what waits.
ExclusiveEnd(r) ==
  /\ req[r].pc = "fnEnd"
  /\ forgetEnded
  /\ IF exclusive = {r} THEN Kick({}) ELSE UNCHANGED <<pending, wpc, kickDue>>
  /\ Finish(r)
  /\ UNCHANGED <<dbVars, held, claimStop, retired, closeVars, hand, heldSeen,
                 promised>>

\* Retire's hold lapses by itself.
RetireLapses ==
  /\ retired
  /\ retired' = FALSE
  /\ UNCHANGED <<dbVars, held, claimStop, pending, secrets, closeVars,
                 workerVars, req, histVars>>

(***************************************************************************)
(* Close, its abandoned job, and the next start's Boot.                    *)
(***************************************************************************)
CloseBegin ==
  /\ "close" \in Ops
  /\ cpc = "open"
  /\ cpc' = "waitWorker"
  /\ hand' = IF running # NoJob THEN [hand EXCEPT !.shutdown = TRUE] ELSE hand
  /\ UNCHANGED <<dbVars, held, claimStop, pending, retired, secrets, cancelled,
                 abandoned, wpc, heldSeen, req, histVars>>

CloseIdle ==      \* the worker has exited, within ctx or within CancelWait
  /\ cpc \in {"waitWorker", "cancelWait"}
  /\ ~alive
  /\ cpc' = "waitInserts"
  /\ cancelled' = TRUE
  /\ UNCHANGED <<dbVars, held, claimStop, pending, retired, secrets, abandoned,
                 workerVars, req, histVars>>

CloseCancel ==    \* ctx ended first
  /\ cpc = "waitWorker"
  /\ cpc' = "cancelWait"
  /\ cancelled' = TRUE
  /\ UNCHANGED <<dbVars, held, claimStop, pending, retired, secrets, abandoned,
                 workerVars, req, histVars>>

CloseAbandon ==   \* CancelWait ended too
  /\ cpc = "cancelWait"
  /\ abandoned' = running
  /\ forget({running})
  /\ cpc' = IF running # NoJob THEN "abandoning" ELSE "waitInserts"
  /\ UNCHANGED <<dbVars, held, claimStop, pending, retired, cancelled,
                 workerVars, req, histVars>>

CloseAbandonWrite ==
  /\ cpc = "abandoning"
  /\ \/ CanWrite /\ rows' = Cas(abandoned, "interrupted")
     \/ MayFail /\ UNCHANGED rows
  /\ cpc' = "waitInserts"
  /\ UNCHANGED <<accounts, gen, lock, held, claimStop, pending, retired, secrets,
                 cancelled, abandoned, workerVars, req, histVars>>

CloseInserts ==   \* waited for until ctx ends
  /\ cpc = "waitInserts"
  /\ cpc' = "settling"
  /\ UNCHANGED <<dbVars, held, claimStop, pending, retired, secrets, cancelled,
                 abandoned, workerVars, req, histVars>>

CloseSettle ==
  /\ cpc = "settling"
  /\ \/ Settle /\ cpc' = "interrupting"
     \/ MayFail /\ UNCHANGED <<rows, held>> /\ cpc' = "done"
  /\ UNCHANGED <<accounts, gen, lock, claimStop, pending, retired, secrets,
                 cancelled, abandoned, workerVars, req, histVars>>

Waiting == {i \in Ids : rows[i].state = "queued"}

CloseInterrupt ==
  /\ cpc = "interrupting"
  /\ \/ /\ CanWrite
        /\ rows' = [i \in Ids |-> IF i \in Waiting
                                  THEN [rows[i] EXCEPT !.state = "interrupted"]
                                  ELSE rows[i]]
        /\ forget(Waiting)
     \/ MayFail /\ UNCHANGED <<rows, secrets>>
  /\ cpc' = "done"
  /\ UNCHANGED <<accounts, gen, lock, held, claimStop, pending, retired,
                 cancelled, abandoned, workerVars, req, histVars>>

\* The process ends, by itself once Close is done or at any moment ("crash"), and
\* the next one's Boot settles what it left.
Restart ==
  /\ cpc = "done" \/ "crash" \in Ops
  /\ ~swapMoving
  /\ rows' = [i \in Ids |-> IF rows[i].state \in Live
                            THEN [rows[i] EXCEPT !.state = "interrupted"]
                            ELSE rows[i]]
  /\ gen' = 1
  /\ lock' = "free"
  /\ held' = [i \in Ids |-> NoMark]
  /\ claimStop' = {} /\ secrets' = {} /\ heldSeen' = {}
  /\ pending' = FALSE /\ retired' = FALSE /\ cancelled' = FALSE /\ kickDue' = FALSE
  /\ cpc' = "open" /\ abandoned' = NoJob
  /\ wpc' = "none" /\ hand' = NoHand
  /\ req' = [p \in Procs |-> Idle]
  /\ UNCHANGED <<accounts, promised>>

(***************************************************************************)
(* SQLite's write lock, in the hands of a longer transaction: an approval, *)
(* an import in a request, another process.                                *)
(***************************************************************************)
LockTake ==
  /\ "lock" \in Ops
  /\ CanWrite
  /\ lock' = "other"
  /\ UNCHANGED <<rows, accounts, gen, memVars, workerVars, req, histVars>>

LockRelease ==
  /\ lock = "other"
  /\ lock' = "free"
  /\ UNCHANGED <<rows, accounts, gen, memVars, workerVars, req, histVars>>

Init ==
  /\ rows = [i \in Ids |-> NoRow]
  /\ accounts = [u \in Uids |-> 1]
  /\ gen = 1
  /\ lock = "free"
  /\ held = [i \in Ids |-> NoMark]
  /\ claimStop = {} /\ secrets = {} /\ heldSeen = {} /\ promised = {}
  /\ pending = FALSE /\ retired = FALSE /\ cancelled = FALSE /\ kickDue = FALSE
  /\ cpc = "open" /\ abandoned = NoJob
  /\ wpc = "none" /\ hand = NoHand
  /\ req = [p \in Procs |-> Idle]

ClaimStep == \/ WorkerTop \/ WorkerSettle \/ ClaimRead \/ ClaimUpdate \/ ClaimRetry
             \/ ClaimGivesUp \/ AfterClaim \/ AfterEmptyClaim
RunStep   == \/ Execute \/ BeginItem \/ FinishItem \/ AbandonItem \/ Progress
             \/ RunTold \/ RunDone \/ RunFails \/ RecordEnd \/ RecordNothing
             \/ Release
             \/ \E w \in Works : ContinueStart(w)
EnqueueStep(p) == EnqueueCheck(p) \/ InsertJob(p) \/ InsertRefused(p) \/ EnqueueDone(p)
StopStep(r) == \/ StopStale(r) \/ StopRead(r) \/ Mark(r) \/ Recheck(r) \/ Resolve(r)
               \/ AfterHold(r) \/ Signal(r) \/ SettleSoon(r) \/ ReadRunning(r)
               \/ StopHeld(r) \/ StopDone(r) \/ Orphan(r) \/ OrphanFails(r)
DeleteStep(r) == DeleteLeave(r) \/ DeleteIdle(r) \/ DeleteAccount(r) \/ DeleteRefused(r)
ExclusiveStep(r) == \/ ExclusiveEnter(r) \/ RunFn(r) \/ SwapBegin(r) \/ SwapRefused(r)
                    \/ SwapFiles(r) \/ ExclusiveEnd(r)
CloseStep == \/ CloseIdle \/ CloseCancel \/ CloseAbandon \/ CloseAbandonWrite
             \/ CloseInserts \/ CloseSettle \/ CloseInterrupt
Start(r) == \/ \E u \in Uids, w \in Works : EnqueueStart(r, u, w)
            \/ \E i \in Ids : RerunStart(r, i)
            \/ \E u \in Uids, i \in Ids : StopStart(r, u, i)
            \/ \E u \in Uids : StopAllStart(r, u) \/ DeleteStart(r, u)
            \/ \E k \in SwapKinds : ExclusiveStart(r, k)

Next ==
  \/ ClaimStep \/ RunStep
  \/ \E p \in Procs : EnqueueStep(p)
  \/ \E r \in Requests : Start(r) \/ StopStep(r) \/ DeleteStep(r) \/ ExclusiveStep(r)
  \/ \E u \in Uids : CreateAccount(u)
  \/ RetireLapses
  \/ CloseBegin \/ CloseStep \/ Restart
  \/ LockTake \/ LockRelease

SafeSpec == Init /\ [][Next]_vars

\* Goroutines in steps that end by themselves: a claim is tried a bounded number of
\* times, a statement waits a bounded time for the lock, Close is bounded by ctx.
\* Nothing is asked of a kind's Run, of a lock's holder, or of who presses what.
QueueFairness ==
  /\ WF_vars(ClaimStep)
  /\ SF_vars(ClaimGivesUp)
  /\ WF_vars(Execute \/ RecordEnd \/ RecordNothing \/ Release)
  /\ \A p \in Procs : WF_vars(EnqueueStep(p))
  /\ \A r \in Requests : WF_vars(StopStep(r)) /\ WF_vars(ExclusiveStep(r))
  /\ WF_vars(CloseStep)

\* A kind keeps to its contract: it ends its items, looks at Stopping between two,
\* and has finitely many.
KindFairness ==
  /\ WF_vars(BeginItem \/ FinishItem \/ AbandonItem \/ Progress \/ RunTold)
  /\ SF_vars(RunDone \/ RunTold)

HungKindSpec == SafeSpec /\ QueueFairness
FairSpec     == SafeSpec /\ QueueFairness /\ KindFairness

(***************************************************************************)
(* Properties.                                                             *)
(***************************************************************************)
States  == {"absent"} \cup Live \cup Ended
Row     == [state : States, uid : Uids \cup {NoUid}, inc : Incs,
            work : Works \cup {NoWork}, carried : BOOLEAN]
MarkSet == [gen : Gens, by : Procs]
Hand    == [id : Ids \cup {NoJob}, gen : Gens, uid : Uids \cup {NoUid},
            stop : BOOLEAN, shutdown : BOOLEAN, worked : BOOLEAN,
            fin : Ended \cup {"none"}]
Request == [pc : ReqPCs,
            op : {"none", "enqueue", "stop", "stopAll", "delete", "exclusive"},
            gen : Gens, uid : Uids \cup {NoUid}, inc : Incs,
            work : Works \cup {NoWork}, id : Ids \cup {NoJob}, todo : SUBSET Ids,
            fresh : SUBSET Ids,
            kind : AllSwaps \cup {"none"}]

TypeOK ==
  /\ rows \in [Ids -> Row]
  /\ accounts \in [Uids -> Incs]
  /\ gen \in Gens \ {0}
  /\ lock \in {"free", "run", "other"}
  /\ held \in [Ids -> MarkSet]
  /\ claimStop \subseteq Ids
  /\ pending \in BOOLEAN
  /\ retired \in BOOLEAN
  /\ secrets \subseteq Ids
  /\ cpc \in {"open", "waitWorker", "cancelWait", "abandoning", "waitInserts",
             "settling", "interrupting", "done"}
  /\ cancelled \in BOOLEAN
  /\ abandoned \in Ids \cup {NoJob}
  /\ wpc \in {"none", "top"} \cup ClaimPCs \cup HandPCs
  /\ hand \in Hand
  /\ heldSeen \subseteq Ids
  /\ req \in [Procs -> Request]
  /\ promised \subseteq Ids
  /\ kickDue \in BOOLEAN

\* A job a Stop was told it stopped before it started never begins an item, whatever
\* claim, settle, progress write or swap was under way when the mark went in.  (Of a job
\* that Close gave up in the middle of an item a Stop is told it is over.)
StoppedNeverWorks == wpc = "item" /\ abandoned # hand.id => hand.id \notin promised

\* The job in the worker's hands reads running until its end is written: no Stop,
\* Stop all or delete takes it for one whose end was never recorded (settleOrphan).
RunningReadsRunning ==
  wpc \in RunPCs /\ abandoned # hand.id => rows[hand.id].state = "running"

\* The files are never moved under a claim or a job: what the worker holds was read
\* in the file the server is on, and nothing it holds lives through a swap.
HandInGeneration ==
  /\ wpc \in HandPCs \cup {"claimUpdate", "claimed"} => hand.gen = gen
  /\ exclusive # {} => wpc \in {"none", "top"}

\* No lost wakeup: a job that waits, unstopped, while nothing holds the queue off
\* and no insert is about to kick, has a worker.  The two exceptions are the code's
\* own: a claim that gave up and a kick Retire refused wait for the next press.
NoLostWakeup ==
  (~alive /\ ~closed /\ ~retired /\ exclusive = {} /\ inserting = {} /\ ~kickDue)
    => Waiting \subseteq HeldNow

\* users.id is reused: a job never runs as the account that was given its owner's id
\* after its owner was deleted.
NotForAnotherAccount ==
  wpc \in RunPCs => hand.uid \in Uids /\ accounts[hand.uid] = rows[hand.id].inc

\* On its way out: held, stopped in hand, its end never recorded, or found taken by
\* a Stop that is about to say so to the job.
LeavingQueue(i) ==
  \/ i \in HeldNow
  \/ running = i /\ (hand.stop \/ runEnded)
  \/ rows[i].state = "running" /\ running # i
  \/ \E r \in Requests : /\ req[r].pc \in StopPCs
                         /\ req[r].id = i \/ req[r].op # "stop"
Staying(u) == {i \in Ids : /\ rows[i].state \in Live
                           /\ rows[i].uid = u
                           /\ ~LeavingQueue(i)}

\* Two presses at once do not pass the check of each other: of an account's jobs that
\* are there to run, no two are the same work.
NoDuplicateWork ==
  \A u \in Uids : \A i, k \in Staying(u) : rows[i].work = rows[k].work => i = k

\* A job in hand that is marked would be left out of the duplicate check, the limit
\* and the counts ahead while it works: the Stop that marked it is taking it back.
MarkOnRunningJobIsTakenBack ==
  wpc \in RunPCs /\ hand.id \in HeldNow
    => \E r \in Requests : req[r].pc \in {"recheck", "resolve"} /\ hand.id \in req[r].todo

\* An item finds the job's secret until Close abandons it: no Stop, swap or delete of
\* another job lets go of it first.
RunHasItsSecret == wpc = "item" /\ abandoned # hand.id => hand.id \in secrets

\* With nobody at work on the queue, no secret of a job that has ended is kept.
NoSecretOutlivesItsJob ==
  (~alive /\ cpc = "open" /\ \A p \in Procs : req[p].pc = "idle")
    => \A i \in secrets : rows[i].state \in Live

\* A Stop and a Stop all are answered, whoever holds the write lock and for however
\* long, and whatever the running job does; only presses that go on for ever, each
\* with a claim for the Stop to wait out, could keep one.
StopAnswered ==
  \A r \in Requests :
    req[r].op \in {"stop", "stopAll"}
      ~> (req[r].pc = "idle" \/ \E p \in Procs : req[p].op = "enqueue")

\* Close ends, with a job that never comes back and a lock never let go of.
CloseReturns == cpc = "waitWorker" ~> cpc = "done"

\* A job that waits does not wait for ever: it is claimed, stopped or interrupted.
WaitingJobLeaves ==
  \A i \in Ids : rows[i].state = "queued" ~> rows[i].state # "queued"

\* A Stop that reached the job in hand ends it.
StoppedJobEnds == \A i \in Ids : (running = i /\ hand.stop) ~> running # i

(***************************************************************************)
(* What all of this is for: a job lives as JobLife says.                   *)
(***************************************************************************)
Life == INSTANCE JobLife WITH
  life  <- [i \in Ids |-> rows[i].state],
  aside <- HeldNow \cap Waiting,
  told  <- promised,
  doing <- IF wpc = "item" THEN hand.id ELSE NoJob

\* The queue implements JobLife: jobs are taken in their turn past those a Stop set
\* aside, work one at a time, never after a Stop that said they would not, and end once,
\* through claims, presses, swaps of the files, shutdowns and crashes.
LivesAsPromised == Life!Spec
=============================================================================
