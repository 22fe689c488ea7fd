------------------------ MODULE JobQueueSafetyProofs ------------------------
(***************************************************************************)
(* The safety invariants of JobQueue that need no hypothesis on what its   *)
(* operations are.  First what a step changes, component by component;     *)
(* then the inductive invariant, part by part; then the theorems.          *)
(***************************************************************************)
EXTENDS JobQueueProofs

USE QueueAssumption DEF NoJob, Procs, Gens, Incs

(***************************************************************************)
(* What a step changes.                                                    *)
(***************************************************************************)
\* The steps of Next, one group at a time.
LEMMA Groups ==
  ASSUME [Next]_vars
  PROVE  \/ ClaimStep
         \/ RunStep
         \/ \E p \in Procs : EnqueueStep(p)
         \/ \E r \in Requests : Start(r)
         \/ \E r \in Requests : StopStep(r)
         \/ \E r \in Requests : DeleteStep(r)
         \/ \E r \in Requests : ExclusiveStep(r)
         \/ CloseBegin \/ CloseStep
         \/ \E u \in Uids : CreateAccount(u)
         \/ Restart
         \/ RetireLapses \/ LockTake \/ LockRelease \/ UNCHANGED vars
BY DEF Next

\* Who writes the jobs table.
LEMMA RowsChange ==
  ASSUME [Next]_vars
  PROVE  \/ rows' = rows
         \/ Settle
         \/ ClaimUpdate
         \/ RecordEnd
         \/ \E p \in Procs : InsertJob(p)
         \/ \E r \in Requests : Orphan(r) \/ DeleteAccount(r) \/ SwapFiles(r)
         \/ CloseAbandonWrite \/ CloseInterrupt \/ Restart
<1> USE DEF dbVars, memVars, closeVars, workerVars, histVars
<1>1. CASE ClaimStep
  BY <1>1 DEF ClaimStep, WorkerTop, WorkerSettle, ClaimRead, ClaimRetry, ClaimGivesUp,
     AfterClaim, AfterEmptyClaim
<1>2. CASE RunStep
  BY <1>2 DEF RunStep, Execute, BeginItem, FinishItem, AbandonItem, Progress, RunTold,
     RunDone, RunFails, RecordNothing, Release, ContinueStart
<1>3. ASSUME NEW p \in Procs, EnqueueStep(p) PROVE rows' = rows \/ InsertJob(p)
  BY <1>3 DEF EnqueueStep, EnqueueCheck, InsertRefused, EnqueueDone
<1>4. ASSUME NEW r \in Requests, Start(r) PROVE rows' = rows
  BY <1>4 DEF Start, EnqueueStart, RerunStart, StopStart, StopAllStart, DeleteStart,
     ExclusiveStart
<1>5. ASSUME NEW r \in Requests, StopStep(r) PROVE rows' = rows \/ Settle \/ Orphan(r)
  BY <1>5 DEF StopStep, StopStale, StopRead, Mark, Recheck, Resolve, AfterHold, Signal,
     SettleSoon, ReadRunning, StopHeld, StopDone, OrphanFails
<1>6. ASSUME NEW r \in Requests, DeleteStep(r) PROVE rows' = rows \/ DeleteAccount(r)
  BY <1>6 DEF DeleteStep, DeleteLeave, DeleteIdle, DeleteRefused
<1>7. ASSUME NEW r \in Requests, ExclusiveStep(r)
      PROVE  rows' = rows \/ Settle \/ SwapFiles(r)
  BY <1>7 DEF ExclusiveStep, ExclusiveEnter, RunFn, SwapBegin, SwapRefused, ExclusiveEnd
<1>8. ASSUME CloseBegin \/ CloseStep
      PROVE  rows' = rows \/ Settle \/ CloseAbandonWrite \/ CloseInterrupt
  BY <1>8 DEF CloseBegin, CloseStep, CloseIdle, CloseCancel, CloseAbandon, CloseInserts,
     CloseSettle
<1>9. ASSUME \/ \E u \in Uids : CreateAccount(u)
             \/ RetireLapses \/ LockTake \/ LockRelease \/ UNCHANGED vars
      PROVE  rows' = rows
  BY <1>9 DEF CreateAccount, RetireLapses, LockTake, LockRelease, vars
<1> QED
  BY <1>1, <1>2, <1>3, <1>4, <1>5, <1>6, <1>7, <1>8, <1>9, Groups

\* Who writes the marks.
LEMMA HeldChange ==
  ASSUME [Next]_vars
  PROVE  \/ held' = held
         \/ Settle
         \/ AfterClaim
         \/ \E r \in Requests : Mark(r) \/ Resolve(r)
         \/ Restart
<1> USE DEF dbVars, memVars, closeVars, workerVars, histVars
<1>1. CASE ClaimStep
  BY <1>1 DEF ClaimStep, WorkerTop, WorkerSettle, ClaimRead, ClaimUpdate, ClaimRetry,
     ClaimGivesUp, AfterEmptyClaim
<1>2. CASE RunStep
  BY <1>2 DEF RunStep, Execute, BeginItem, FinishItem, AbandonItem, Progress, RunTold,
     RunDone, RunFails, RecordEnd, RecordNothing, Release, ContinueStart
<1>3. ASSUME NEW p \in Procs, EnqueueStep(p) PROVE held' = held
  BY <1>3 DEF EnqueueStep, EnqueueCheck, InsertJob, InsertRefused, EnqueueDone
<1>4. ASSUME NEW r \in Requests, Start(r) PROVE held' = held
  BY <1>4 DEF Start, EnqueueStart, RerunStart, StopStart, StopAllStart, DeleteStart,
     ExclusiveStart
<1>5. ASSUME NEW r \in Requests, StopStep(r)
      PROVE  held' = held \/ Settle \/ Mark(r) \/ Resolve(r)
  BY <1>5 DEF StopStep, StopStale, StopRead, Recheck, AfterHold, Signal, SettleSoon,
     ReadRunning, StopHeld, StopDone, Orphan, OrphanFails
<1>6. ASSUME NEW r \in Requests, DeleteStep(r) PROVE held' = held
  BY <1>6 DEF DeleteStep, DeleteLeave, DeleteIdle, DeleteAccount, DeleteRefused
<1>7. ASSUME NEW r \in Requests, ExclusiveStep(r) PROVE held' = held \/ Settle
  BY <1>7 DEF ExclusiveStep, ExclusiveEnter, RunFn, SwapBegin, SwapRefused, SwapFiles,
     ExclusiveEnd
<1>8. ASSUME CloseBegin \/ CloseStep PROVE held' = held \/ Settle
  BY <1>8 DEF CloseBegin, CloseStep, CloseIdle, CloseCancel, CloseAbandon,
     CloseAbandonWrite, CloseInserts, CloseSettle, CloseInterrupt
<1>9. ASSUME \/ \E u \in Uids : CreateAccount(u)
             \/ RetireLapses \/ LockTake \/ LockRelease \/ UNCHANGED vars
      PROVE  held' = held
  BY <1>9 DEF CreateAccount, RetireLapses, LockTake, LockRelease, vars
<1> QED
  BY <1>1, <1>2, <1>3, <1>4, <1>5, <1>6, <1>7, <1>8, <1>9, Groups

\* The generation moves with the files, and begins again with the process.
LEMMA GenChange ==
  ASSUME [Next]_vars
  PROVE  gen' = gen \/ (\E r \in Requests : SwapFiles(r)) \/ Restart
<1> USE DEF dbVars, memVars, closeVars, workerVars, histVars
<1>1. CASE ClaimStep \/ RunStep
  BY <1>1 DEF ClaimStep, WorkerTop, WorkerSettle, ClaimRead, ClaimUpdate, ClaimRetry,
     ClaimGivesUp, AfterClaim, AfterEmptyClaim, RunStep, Execute, BeginItem, FinishItem,
     AbandonItem, Progress, RunTold, RunDone, RunFails, RecordEnd, RecordNothing, Release,
     ContinueStart
<1>2. ASSUME NEW p \in Procs, EnqueueStep(p) PROVE gen' = gen
  BY <1>2 DEF EnqueueStep, EnqueueCheck, InsertJob, InsertRefused, EnqueueDone
<1>3. ASSUME NEW r \in Requests, Start(r) \/ StopStep(r) \/ DeleteStep(r)
      PROVE  gen' = gen
  BY <1>3 DEF Start, EnqueueStart, RerunStart, StopStart, StopAllStart, DeleteStart,
     ExclusiveStart, StopStep, StopStale, StopRead, Mark, Recheck, Resolve, AfterHold,
     Signal, SettleSoon, ReadRunning, StopHeld, StopDone, Orphan, OrphanFails, DeleteStep,
     DeleteLeave, DeleteIdle, DeleteAccount, DeleteRefused
<1>4. ASSUME NEW r \in Requests, ExclusiveStep(r) PROVE gen' = gen \/ SwapFiles(r)
  BY <1>4 DEF ExclusiveStep, ExclusiveEnter, RunFn, SwapBegin, SwapRefused, ExclusiveEnd
<1>5. ASSUME CloseBegin \/ CloseStep PROVE gen' = gen
  BY <1>5 DEF CloseBegin, CloseStep, CloseIdle, CloseCancel, CloseAbandon,
     CloseAbandonWrite, CloseInserts, CloseSettle, CloseInterrupt
<1>6. ASSUME \/ \E u \in Uids : CreateAccount(u)
             \/ RetireLapses \/ LockTake \/ LockRelease \/ UNCHANGED vars
      PROVE  gen' = gen
  BY <1>6 DEF CreateAccount, RetireLapses, LockTake, LockRelease, vars
<1> QED
  BY <1>1, <1>2, <1>3, <1>4, <1>5, <1>6, Groups

\* A process is moved by its own steps, by a claim that ends, and by a restart.
LEMMA ReqChange ==
  ASSUME req \in [Procs -> Request], [Next]_vars, NEW p \in Procs
  PROVE  \/ req'[p] = req[p]
         \/ req[p].pc = "waitClaim" /\ req'[p] = [req[p] EXCEPT !.pc = "stopHeld"]
         \/ EnqueueStep(p)
         \/ p = Run /\ \E w \in Works : ContinueStart(w)
         \/ p \in Requests /\ (Start(p) \/ StopStep(p) \/ DeleteStep(p) \/ ExclusiveStep(p))
         \/ Restart
<1> USE DEF dbVars, memVars, closeVars, workerVars, histVars
<1>1. CASE ClaimStep
  <2>1. req' = req \/ req' = ClaimWakes
    BY <1>1 DEF ClaimStep, WorkerTop, WorkerSettle, ClaimRead, ClaimUpdate, ClaimRetry,
       ClaimGivesUp, AfterClaim, AfterEmptyClaim
  <2> QED
    BY <2>1 DEF ClaimWakes
<1>2. CASE RunStep
  BY <1>2 DEF RunStep, Execute, BeginItem, FinishItem, AbandonItem, Progress, RunTold,
     RunDone, RunFails, RecordEnd, RecordNothing, Release, ContinueStart
<1>3. ASSUME NEW q \in Procs, EnqueueStep(q) PROVE p # q => req'[p] = req[p]
  BY <1>3 DEF EnqueueStep, EnqueueCheck, InsertJob, InsertRefused, EnqueueDone, Goto,
     Finish
<1>4. ASSUME NEW r \in Requests, Start(r) PROVE p # r => req'[p] = req[p]
  BY <1>4 DEF Start, EnqueueStart, RerunStart, StopStart, StopAllStart, DeleteStart,
     ExclusiveStart
<1>5. ASSUME NEW r \in Requests, StopStep(r) \/ DeleteStep(r)
      PROVE  p # r => req'[p] = req[p]
  BY <1>5 DEF StopStep, StopStale, StopRead, Mark, Recheck, Resolve, AfterHold,
     Signal, SettleSoon, ReadRunning, StopHeld, StopDone, Orphan, OrphanFails, DeleteStep,
     DeleteLeave, DeleteIdle, DeleteAccount, DeleteRefused, Goto, Finish
<1>6. ASSUME NEW r \in Requests, ExclusiveStep(r) PROVE p # r => req'[p] = req[p]
  BY <1>6 DEF ExclusiveStep, ExclusiveEnter, RunFn, SwapBegin, SwapRefused, SwapFiles,
     ExclusiveEnd, Goto, Finish
<1>7. ASSUME \/ CloseBegin \/ CloseStep
             \/ \E u \in Uids : CreateAccount(u)
             \/ RetireLapses \/ LockTake \/ LockRelease \/ UNCHANGED vars
      PROVE  req' = req
  BY <1>7 DEF CloseBegin, CloseStep, CloseIdle, CloseCancel, CloseAbandon,
     CloseAbandonWrite, CloseInserts, CloseSettle, CloseInterrupt,
     CreateAccount, RetireLapses, LockTake, LockRelease, vars
<1> QED
  BY <1>1, <1>2, <1>3, <1>4, <1>5, <1>6, <1>7, Groups

\* Where a process of each kind of step is, and where it goes.
LEMMA EnqueueMoves ==
  ASSUME req \in [Procs -> Request], NEW p \in Procs, EnqueueStep(p)
  PROVE  /\ req[p].pc \in {"enqCheck", "insert", "inserted"}
         /\ \/ req'[p] = Idle
            \/ req'[p] = [req[p] EXCEPT !.pc = "insert"]
            \/ req'[p] = [req[p] EXCEPT !.pc = "inserted"]
BY DEF EnqueueStep, EnqueueCheck, InsertJob, InsertRefused, EnqueueDone, Goto, Finish

Started(r) ==
  /\ req[r].pc = "idle"
  /\ req'[r].todo = {} /\ req'[r].fresh = {}
  /\ \/ req'[r].pc = "enqCheck" /\ req'[r].op = "enqueue"
     \/ req'[r].pc = "stopRead" /\ req'[r].op \in {"stop", "stopAll"}
     \/ req'[r].pc = "leave" /\ req'[r].op = "delete" /\ req'[r].uid \in Uids
     \/ req'[r].pc = "xwait" /\ req'[r].op = "exclusive"

LEMMA StartMoves ==
  ASSUME req \in [Procs -> Request], NEW r \in Requests, Start(r)
  PROVE  Started(r)
<1> USE DEF Started
<1>1. ASSUME NEW u \in Uids, NEW w \in Works, EnqueueStart(r, u, w) PROVE Started(r)
  BY <1>1 DEF EnqueueStart, Idle
<1>2. ASSUME NEW i \in Ids, RerunStart(r, i) PROVE Started(r)
  BY <1>2 DEF RerunStart, Idle
<1>3. ASSUME NEW u \in Uids, NEW i \in Ids, StopStart(r, u, i) PROVE Started(r)
  BY <1>3 DEF StopStart, Idle
<1>4. ASSUME NEW u \in Uids, StopAllStart(r, u) PROVE Started(r)
  BY <1>4 DEF StopAllStart, Idle
<1>5. ASSUME NEW u \in Uids, DeleteStart(r, u) PROVE Started(r)
  BY <1>5 DEF DeleteStart, Idle
<1>6. ASSUME NEW k \in SwapKinds, ExclusiveStart(r, k) PROVE Started(r)
  BY <1>6 DEF ExclusiveStart, Idle
<1> QED
  BY <1>1, <1>2, <1>3, <1>4, <1>5, <1>6 DEF Start

LEMMA DeleteMoves ==
  ASSUME req \in [Procs -> Request], NEW r \in Requests, DeleteStep(r)
  PROVE  /\ req[r].pc \in {"leave", "waitIdle", "deleteTx"}
         /\ \/ req'[r] = Idle
            \/ req[r].pc = "leave" /\ req'[r] = [req[r] EXCEPT !.pc = "stopRead"]
            \/ req[r].pc = "waitIdle" /\ req'[r] = [req[r] EXCEPT !.pc = "deleteTx"]
BY DEF DeleteStep, DeleteLeave, DeleteIdle, DeleteAccount, DeleteRefused, Goto, Finish

LEMMA ExclusiveMoves ==
  ASSUME req \in [Procs -> Request], NEW r \in Requests, ExclusiveStep(r)
  PROVE  /\ req[r].pc \in {"xwait"} \cup XPCs
         /\ \/ req'[r] = Idle
            \/ \E l \in XPCs : req'[r] = [req[r] EXCEPT !.pc = l]
<1>1. {"fn", "swapLock", "fnEnd", "moving"} \subseteq XPCs
  BY DEF XPCs
<1> QED
  BY <1>1 DEF ExclusiveStep, ExclusiveEnter, RunFn, SwapBegin, SwapRefused, SwapFiles,
     ExclusiveEnd, Goto, Finish

\* Of a Stop's own steps, those of Steady and those after it.
LEMMA StopMoves ==
  ASSUME req \in [Procs -> Request], NEW r \in Requests, StopStep(r)
  PROVE  \/ StopRead(r) \/ Mark(r) \/ Recheck(r) \/ Resolve(r) \/ AfterHold(r)
         \/ req[r].pc \in StopPCs \ SteadyPCs /\ req'[r] = Idle
         \/ req[r].pc \in {"signal", "settleSoon"}
              /\ req'[r].pc \in {"settleSoon", "readRunning", "stopHeld"}
              /\ req'[r].op = req[r].op /\ req'[r].uid = req[r].uid
         \/ ReadRunning(r)
         \/ StopHeld(r)
         \/ Orphan(r)
         \/ StopDone(r)
<1> USE DEF StopPCs, SteadyPCs
<1>1. CASE StopStale(r) \/ OrphanFails(r)
  BY <1>1 DEF StopStale, OrphanFails, Finish
<1>2. CASE Signal(r)
  BY <1>2 DEF Signal, Goto, Request
<1>3. CASE SettleSoon(r)
  BY <1>3 DEF SettleSoon, Finish, Request
<1> QED
  BY <1>1, <1>2, <1>3 DEF StopStep

(***************************************************************************)
(* The inductive invariant.                                                *)
(***************************************************************************)
Begun(i)   == rows[i].state \notin {"absent", "queued"}
Taken      == HandPCs \cup {"claimed"}
InHand(i)  == wpc \in Taken /\ hand.id = i
Marking(r, i) == req[r].pc \in {"recheck", "resolve"} /\ i \in req[r].todo
Fresh(r, i)   == req[r].pc \in {"recheck", "resolve"} /\ i \in req[r].fresh

\* The job in hand has left the queue, and a claim begins with none.
HandBegun == /\ wpc = "claimUpdate" => hand.id = NoJob
             /\ \A i \in Ids : InHand(i) => Begun(i)

\* The marks are of generations that have been, and those of this one are on rows it has.
Marks == \A i \in Ids : /\ held[i].gen <= gen
                        /\ i \in HeldNow => rows[i].state # "absent" /\ held[i].by \in Requests

\* What a Stop in its Steady read has to do, it read in this file; the job whose mark it
\* is about to take back has left the queue.
Taking ==
  \A r \in Requests :
    /\ req[r].pc \in {"leave", "stopRead", "mark"} => req[r].fresh = {}
    /\ req[r].pc \in SteadyPCs =>
         /\ \A i \in req[r].todo : rows[i].state # "absent"
         /\ req[r].todo \cap req[r].fresh = {}
         /\ req[r].op = "stop" => req[r].todo \cup req[r].fresh \subseteq {req[r].id}
    /\ req[r].pc = "resolve" =>
         \A i \in req[r].todo : (\A k \in req[r].todo : i <= k) => Begun(i)

\* While the files move no Stop is in its Steady read, and no waiting job is marked.
Moving == swapMoving => ~steadyHeld /\ HeldNow \cap Waiting = {}

\* What a claim read as held is held still, if it still waits.
Seen == wpc = "claimUpdate" =>
          \A i \in heldSeen : /\ rows[i].state # "absent"
                              /\ rows[i].state = "queued" => i \in HeldNow

\* The mark on a job in hand is being taken back by the Stop that made it.
RunMarks == \A i \in HeldNow : wpc \in HandPCs /\ hand.id = i => Marking(held[i].by, i)

\* No worker, or one that found nothing to claim and is about to leave: what waits is
\* held, or somebody is about to kick.
Nobody == \/ ~alive /\ exclusive = {}
          \/ wpc = "claimed" /\ hand.id = NoJob /\ ~pending
Wakeup == Nobody /\ ~closed /\ inserting = {} /\ ~kickDue => Waiting \subseteq HeldNow

\* A secret whose job has ended is about to be forgotten by a Stop that is taking a mark
\* for one that stopped it.
Forgets(i) == \/ \E r \in Requests : Fresh(r, i)
              \/ i \notin HeldNow /\ \E r \in Requests : Marking(r, i)
              \/ /\ i \in HeldNow /\ Marking(held[i].by, i)
                 /\ \E r \in Requests : r # held[i].by /\ Marking(r, i)
SecretKept == closed \/ exclusive # {} \/ \A i \in secrets : rows[i].state \in Live \/ Forgets(i)
SecretHeld == \A i \in secrets \cap HeldNow \cap Waiting :
                Marking(held[i].by, i) \/ \E r \in Requests : Fresh(r, i)

\* An id names the account that had it when the row, the request or the hand read it.
Owners == \A i \in Ids :
            /\ rows[i].uid \in Uids => accounts[rows[i].uid] = rows[i].inc /\ rows[i].inc # 0
            /\ rows[i].state = "absent" => rows[i].uid = NoUid
Asking == \A p \in Procs :
            /\ req[p].pc \in {"enqCheck", "insert"} => req[p].uid \in Uids /\ req[p].inc # 0
            /\ req[p].op = "delete" => req[p].uid \in Uids
            /\ req[p].pc \in {"leave", "waitIdle", "deleteTx"} => req[p].op = "delete"
HandsOwner == accounts[hand.uid] = rows[hand.id].inc /\ rows[hand.id].inc # 0
RunsAs == /\ wpc \in Taken /\ hand.id # NoJob /\ hand.uid \in Uids => HandsOwner
          /\ wpc \in RunPCs => hand.uid \in Uids

\* An account that is being deleted: nothing is queued for it, what waits is held from
\* the marks on, and from the wait for the job in hand on no job of it is claimed.
Deleting(r) == req[r].op = "delete" /\ req[r].pc \notin {"idle", "leave"}
OfAccount(r) == {i \in Waiting : rows[i].uid = req[r].uid}
Deletes ==
  \A r \in Requests : Deleting(r) =>
    /\ \A p \in Procs : req[p].pc = "insert" => req[p].uid # req[r].uid
    /\ req[r].pc = "mark" => OfAccount(r) \subseteq req[r].todo \cup HeldNow
    /\ req[r].pc \notin {"stopRead", "mark"} => OfAccount(r) \subseteq HeldNow
    /\ req[r].pc = "deleteTx" =>
         /\ wpc \in Taken /\ hand.id # NoJob => hand.uid # req[r].uid
         /\ wpc = "claimUpdate" => OfAccount(r) \subseteq heldSeen

(***************************************************************************)
(* What a step does to one row and to one mark.                            *)
(***************************************************************************)
Becomes(i, st) == rows'[i] = [rows[i] EXCEPT !.state = st]
FirstOf(S, i)  == i \in S /\ \A k \in S : i <= k

\* A row is inserted once, claimed once, and ends once; its owner is only ever cleared.
LEMMA RowChange ==
  ASSUME TypeOK, [Next]_vars, NEW i \in Ids
  PROVE  \/ rows'[i] = rows[i]
         \/ Settle /\ i \in HeldNow /\ rows[i].state = "queued" /\ Becomes(i, "stopped")
         \/ ClaimUpdate /\ i \in Claimable /\ Becomes(i, "running")
              /\ hand'.id = i /\ hand'.uid = rows[i].uid
         \/ RecordEnd /\ i = hand.id /\ rows[i].state = "running" /\ Becomes(i, hand.fin)
         \/ \E p \in Procs : InsertJob(p) /\ rows[i].state = "absent"
              /\ rows'[i] = [NoRow EXCEPT !.state = "queued", !.uid = req[p].uid,
                               !.inc = req[p].inc, !.work = req[p].work]
              /\ secrets' = secrets \cup {i}
         \/ \E r \in Requests : Orphan(r) /\ FirstOf(req[r].todo, i)
              /\ rows[i].state = "running" /\ Becomes(i, "interrupted")
              /\ secrets' = secrets \ {i}
         \/ \E r \in Requests : DeleteAccount(r) /\ rows[i].uid = req[r].uid
              /\ rows'[i] = [rows[i] EXCEPT !.uid = NoUid]
         \/ \E r \in Requests : SwapFiles(r)
         \/ CloseAbandonWrite /\ i = abandoned /\ rows[i].state = "running"
              /\ Becomes(i, "interrupted")
         \/ CloseInterrupt /\ rows[i].state = "queued" /\ Becomes(i, "interrupted")
              /\ secrets' = secrets \ Waiting
         \/ Restart /\ rows[i].state \in Live /\ Becomes(i, "interrupted")
<1> USE DEF Becomes
<1>1. rows \in [Ids -> Row] /\ req \in [Procs -> Request] /\ hand \in Hand
  BY DEF TypeOK
<1>2. CASE Settle
  BY <1>1, <1>2 DEF Settle, SettledRows
<1>3. CASE ClaimUpdate
  <2>1. CASE Claimable = {}
    BY <1>3, <2>1 DEF ClaimUpdate
  <2>2. CASE Claimable # {}
    <3>1. PICK k \in Claimable : /\ rows' = Set(k, "running")
                                /\ hand' = [hand EXCEPT !.id = k, !.uid = rows[k].uid]
      BY <1>3, <2>2 DEF ClaimUpdate
    <3>2. k \in Ids /\ hand'.id = k /\ hand'.uid = rows[k].uid
      BY <1>1, <3>1 DEF Claimable, Hand
    <3> QED
      BY <1>1, <1>3, <3>1, <3>2 DEF Set
  <2> QED
    BY <2>1, <2>2
<1>4. CASE RecordEnd
  BY <1>1, <1>4 DEF RecordEnd, Cas, Set, Hand
<1>5. ASSUME NEW p \in Procs, InsertJob(p), rows'[i] # rows[i]
      PROVE  /\ rows[i].state = "absent"
             /\ rows'[i] = [NoRow EXCEPT !.state = "queued", !.uid = req[p].uid,
                              !.inc = req[p].inc, !.work = req[p].work]
             /\ secrets' = secrets \cup {i}
  <2>1. PICK k \in Ids :
          /\ IsNext(k)
          /\ rows' = [rows EXCEPT ![k] = [NoRow EXCEPT !.state = "queued",
                        !.uid = req[p].uid, !.inc = req[p].inc, !.work = req[p].work]]
          /\ secrets' = secrets \cup {k}
    BY <1>5 DEF InsertJob
  <2>2. k = i
    BY <1>1, <1>5, <2>1
  <2>3. rows[k].state = "absent"
    BY <2>1 DEF IsNext, Ids
  <2> QED
    BY <1>1, <2>1, <2>2, <2>3
<1>6. ASSUME NEW r \in Requests, Orphan(r), rows'[i] # rows[i]
      PROVE  /\ FirstOf(req[r].todo, i)
             /\ rows[i].state = "running" /\ Becomes(i, "interrupted")
             /\ secrets' = secrets \ {i}
  <2>1. PICK k \in req[r].todo :
          /\ \A l \in req[r].todo : k <= l
          /\ rows' = Cas(k, "interrupted")
          /\ IF rows[k].state = "running" THEN forget({k}) ELSE UNCHANGED secrets
    BY <1>6 DEF Orphan
  <2>2. k = i /\ rows[k].state = "running"
    BY <1>1, <1>6, <2>1 DEF Cas, Set
  <2> QED
    BY <1>1, <2>1, <2>2 DEF Cas, Set, forget, FirstOf
<1>7. ASSUME NEW r \in Requests, DeleteAccount(r), rows'[i] # rows[i]
      PROVE  rows[i].uid = req[r].uid /\ rows'[i] = [rows[i] EXCEPT !.uid = NoUid]
  BY <1>1, <1>7 DEF DeleteAccount
<1>8. CASE CloseAbandonWrite
  BY <1>1, <1>8 DEF CloseAbandonWrite, Cas, Set
<1>9. CASE CloseInterrupt
  BY <1>1, <1>9 DEF CloseInterrupt, Waiting, forget
<1>10. CASE Restart
  BY <1>1, <1>10 DEF Restart
<1> QED
  BY <1>2, <1>3, <1>4, <1>5, <1>6, <1>7, <1>8, <1>9, <1>10, RowsChange

\* A mark stays what it is until it is written, taken back by a claim or by a Stop, or
\* left behind with its file.
MarkKept(i) == /\ i \in HeldNow' <=> i \in HeldNow
               /\ i \in HeldNow => held'[i].by = held[i].by
MarkGone(i) == i \in HeldNow /\ i \notin HeldNow'
LEMMA MarkChange ==
  ASSUME TypeOK, Control, [Next]_vars, NEW i \in Ids
  PROVE  \/ MarkKept(i) /\ held'[i].gen \in {0, held[i].gen} /\ gen' = gen
         \/ Settle /\ MarkGone(i) /\ held'[i] = NoMark /\ rows[i].state # "running" /\ gen' = gen
         \/ AfterClaim /\ i = hand.id /\ MarkGone(i) /\ held'[i] = NoMark /\ gen' = gen
         \/ \E r \in Requests : Mark(r) /\ i \in req[r].todo /\ i \notin HeldNow
              /\ i \in HeldNow' /\ held'[i] = [gen |-> gen, by |-> r] /\ gen' = gen
         \/ \E r \in Requests : Resolve(r) /\ FirstOf(req[r].todo, i) /\ MarkGone(i)
              /\ held'[i] = NoMark /\ gen' = gen
         \/ \E r \in Requests : SwapFiles(r)
         \/ Restart
<1> USE DEF MarkKept, MarkGone, HeldNow, FirstOf
<1>1. held \in [Ids -> MarkSet] /\ gen \in Nat \ {0} /\ req \in [Procs -> Request]
  BY DEF TypeOK
<1>2. NoMark.gen = 0
  BY DEF NoMark
<1>3. CASE gen' = gen /\ held' = held
  BY <1>1, <1>3
<1>4. CASE gen' = gen /\ Settle
  BY <1>1, <1>2, <1>4 DEF Settle, SettledHeld
<1>5. CASE gen' = gen /\ AfterClaim
  BY <1>1, <1>2, <1>5 DEF AfterClaim, Unheld, Control, HandInGeneration
<1>6. ASSUME NEW r \in Requests, Mark(r), gen' = gen PROVE
           \/ MarkKept(i) /\ held'[i] = held[i]
           \/ i \in req[r].todo /\ i \notin HeldNow
              /\ i \in HeldNow' /\ held'[i] = [gen |-> gen, by |-> r]
  BY <1>1, <1>6 DEF Mark
<1>7. ASSUME NEW r \in Requests, Resolve(r), gen' = gen PROVE
           \/ MarkKept(i) /\ held'[i] = held[i]
           \/ FirstOf(req[r].todo, i) /\ MarkGone(i) /\ held'[i] = NoMark
  BY <1>1, <1>2, <1>7 DEF Resolve
<1> QED
  BY <1>1, <1>3, <1>4, <1>5, <1>6, <1>7, GenChange, HeldChange

\* Of the process at hand in Steady, what it has to do and where it is.
LEMMA SteadyChange ==
  ASSUME req \in [Procs -> Request], [Next]_vars, NEW r \in Requests
  PROVE  \/ req'[r] = req[r]
         \/ req[r].pc \notin SteadyPCs /\ req'[r].pc \notin SteadyPCs
         \/ StopRead(r) \/ Mark(r) \/ Recheck(r) \/ Resolve(r) \/ AfterHold(r)
         \/ Restart
<1> USE DEF SteadyPCs
<1>1. ASSUME req[r].pc = "waitClaim", req'[r] = [req[r] EXCEPT !.pc = "stopHeld"]
      PROVE  req[r].pc \notin SteadyPCs /\ req'[r].pc \notin SteadyPCs
  BY <1>1 DEF Request
<1>2. Idle.pc = "idle"
  BY DEF Idle
<1>3. ASSUME EnqueueStep(r)
      PROVE  req[r].pc \notin SteadyPCs /\ req'[r].pc \notin SteadyPCs
  <2>1. r \in Procs
    OBVIOUS
  <2>2. /\ req[r].pc \in {"enqCheck", "insert", "inserted"}
        /\ \/ req'[r] = Idle
           \/ req'[r] = [req[r] EXCEPT !.pc = "insert"]
           \/ req'[r] = [req[r] EXCEPT !.pc = "inserted"]
    BY <1>3, <2>1, EnqueueMoves
  <2> QED
    BY <1>2, <2>1, <2>2 DEF Request
<1>4. ASSUME Start(r) PROVE req[r].pc \notin SteadyPCs /\ req'[r].pc \notin SteadyPCs
  BY <1>4, StartMoves DEF Started
<1>5. ASSUME DeleteStep(r) PROVE req[r].pc \notin SteadyPCs /\ req'[r].pc \notin SteadyPCs
  BY <1>2, <1>5, DeleteMoves DEF Request
<1>6. ASSUME ExclusiveStep(r)
      PROVE  req[r].pc \notin SteadyPCs /\ req'[r].pc \notin SteadyPCs
  <2>1. req[r].pc \in {"xwait"} \cup XPCs
    BY <1>6, ExclusiveMoves
  <2>2. req'[r] = Idle \/ \E l \in XPCs : req'[r] = [req[r] EXCEPT !.pc = l]
    BY <1>6, ExclusiveMoves
  <2>3. req'[r].pc \in {"idle"} \cup XPCs
    BY <1>2, <2>2 DEF Request
  <2> QED
    BY <2>1, <2>3 DEF XPCs
<1>7. ASSUME StopStep(r), ~StopRead(r), ~Mark(r), ~Recheck(r), ~Resolve(r), ~AfterHold(r)
      PROVE  req[r].pc \notin SteadyPCs /\ req'[r].pc \notin SteadyPCs
  <2>1. CASE ReadRunning(r)
    BY <1>2, <2>1 DEF ReadRunning, Finish, Request
  <2>2. CASE StopHeld(r)
    BY <2>2 DEF StopHeld, Goto, Request
  <2>3. CASE Orphan(r)
    BY <2>3 DEF Orphan, Request
  <2>4. CASE StopDone(r)
    BY <1>2, <2>4 DEF StopDone, Goto, Finish, Request
  <2> QED
    BY <1>2, <1>7, <2>1, <2>2, <2>3, <2>4, StopMoves
<1>8. r # Run
  OBVIOUS
<1> QED
  BY <1>1, <1>3, <1>4, <1>5, <1>6, <1>7, <1>8, ReqChange

\* What the steps of Steady leave the Stop to do.
LEMMA StopReadMoves ==
  ASSUME req \in [Procs -> Request], NEW r \in Requests, StopRead(r)
  PROVE  /\ req[r].pc = "stopRead"
         /\ req'[r].pc \in {"idle", "signal", "mark"}
         /\ req'[r].pc # "idle" =>
              /\ req'[r].op = req[r].op /\ req'[r].uid = req[r].uid
              /\ req'[r].id = req[r].id /\ req'[r].fresh = req[r].fresh
         /\ req'[r].pc = "signal" => req[r].op = "stop" /\ rows[req[r].id].state = "running"
         /\ req'[r].pc # "idle" /\ req[r].op = "stop"
              => req'[r].todo = {req[r].id} /\ rows[req[r].id].state \in Live
         /\ req'[r].pc # "idle" /\ req[r].op # "stop" => req'[r].todo = Queued(r)
<1>1. CASE req[r].op = "stop" /\ ~Finish(r)
  <2>1. /\ rows[req[r].id].state \in Live
        /\ req' = [req EXCEPT ![r].todo = {req[r].id},
                     ![r].pc = IF rows[req[r].id].state = "running" THEN "signal" ELSE "mark"]
    BY <1>1 DEF StopRead
  <2> QED
    BY <1>1, <2>1 DEF Request, StopRead
<1>2. CASE req[r].op # "stop"
  BY <1>2 DEF StopRead, Request
<1>3. CASE req[r].op = "stop" /\ Finish(r)
  <2>1. req'[r].pc = "idle"
    BY <1>3 DEF Finish, Idle
  <2> QED
    BY <2>1 DEF StopRead
<1> QED
  BY <1>1, <1>2, <1>3

LEMMA MarkMoves ==
  ASSUME req \in [Procs -> Request], NEW r \in Requests, Mark(r)
  PROVE  /\ req[r].pc = "mark"
         /\ req'[r] = [req[r] EXCEPT !.pc = "recheck", !.todo = @ \ HeldNow]
BY DEF Mark

LEMMA RecheckMoves ==
  ASSUME req \in [Procs -> Request], NEW r \in Requests, Recheck(r)
  PROVE  /\ req[r].pc = "recheck"
         /\ \E i \in Ids :
              /\ FirstOf(req[r].todo, i)
              /\ \/ /\ rows[i].state = "queued"
                    /\ req'[r] = [req[r] EXCEPT !.todo = @ \ {i}, !.fresh = @ \cup {i}]
                    /\ promised' = promised \cup {i}
                 \/ /\ rows[i].state # "queued"
                    /\ req'[r] = [req[r] EXCEPT !.pc = "resolve"]
                    /\ promised' = promised
<1>0. req[r].todo \subseteq Ids
  BY DEF Request
<1>1. PICK i \in req[r].todo :
        /\ \A k \in req[r].todo : i <= k
        /\ IF rows[i].state = "queued"
           THEN /\ req' = [req EXCEPT ![r].todo = @ \ {i}, ![r].fresh = @ \cup {i}]
                /\ promised' = promised \cup {i}
           ELSE /\ Goto(r, "resolve")
                /\ UNCHANGED promised
  BY DEF Recheck
<1>2. i \in Ids /\ FirstOf(req[r].todo, i)
  BY <1>0, <1>1 DEF FirstOf
<1> QED
  BY <1>1, <1>2 DEF Recheck, Goto

LEMMA ResolveMoves ==
  ASSUME req \in [Procs -> Request], NEW r \in Requests, Resolve(r)
  PROVE  /\ req[r].pc = "resolve"
         /\ \E i \in Ids :
              /\ FirstOf(req[r].todo, i)
              /\ \/ /\ i \in HeldNow
                    /\ held' = [held EXCEPT ![i] = NoMark]
                    /\ req[r].op = "stop"
                    /\ req'[r] = [req[r] EXCEPT !.pc = "signal"]
                    /\ promised' = promised
                 \/ /\ i \in HeldNow
                    /\ held' = [held EXCEPT ![i] = NoMark]
                    /\ req[r].op # "stop"
                    /\ req'[r] = [req[r] EXCEPT !.pc = "recheck", !.todo = @ \ {i}]
                    /\ promised' = promised
                 \/ /\ i \notin HeldNow \/ held[i].by # r
                    /\ req'[r] = [req[r] EXCEPT !.pc = "recheck",
                                    !.todo = @ \ {i}, !.fresh = @ \cup {i}]
                    /\ promised' = promised \cup {i} /\ held' = held
<1>0. req[r].todo \subseteq Ids
  BY DEF Request
<1>1. PICK i \in req[r].todo :
        /\ \A k \in req[r].todo : i <= k
        /\ \/ /\ i \in HeldNow
              /\ held' = [held EXCEPT ![i] = NoMark]
              /\ req' = [req EXCEPT ![r].todo = IF req[r].op = "stop" THEN @ ELSE @ \ {i},
                           ![r].pc = IF req[r].op = "stop" THEN "signal" ELSE "recheck"]
              /\ UNCHANGED promised
           \/ /\ i \notin HeldNow \/ held[i].by # r
              /\ req' = [req EXCEPT ![r].pc = "recheck", ![r].todo = @ \ {i},
                                    ![r].fresh = @ \cup {i}]
              /\ promised' = promised \cup {i}
              /\ UNCHANGED held
  BY DEF Resolve
<1>2. i \in Ids /\ FirstOf(req[r].todo, i)
  BY <1>0, <1>1 DEF FirstOf
<1>3. req[r].pc = "resolve"
  BY DEF Resolve
<1>4. CASE i \in HeldNow /\ held' = [held EXCEPT ![i] = NoMark] /\ UNCHANGED promised
           /\ req' = [req EXCEPT ![r].todo = IF req[r].op = "stop" THEN @ ELSE @ \ {i},
                        ![r].pc = IF req[r].op = "stop" THEN "signal" ELSE "recheck"]
  <2>1. CASE req[r].op = "stop"
    <3>1. req'[r] = [req[r] EXCEPT !.pc = "signal"]
      BY <1>4, <2>1 DEF Request
    <3> QED
      BY <1>2, <1>3, <1>4, <2>1, <3>1
  <2>2. CASE req[r].op # "stop"
    <3>1. req'[r] = [req[r] EXCEPT !.pc = "recheck", !.todo = @ \ {i}]
      BY <1>4, <2>2 DEF Request
    <3> QED
      BY <1>2, <1>3, <1>4, <2>2, <3>1
  <2> QED
    BY <2>1, <2>2
<1>5. CASE /\ i \notin HeldNow \/ held[i].by # r
           /\ req' = [req EXCEPT ![r].pc = "recheck", ![r].todo = @ \ {i},
                                 ![r].fresh = @ \cup {i}]
           /\ promised' = promised \cup {i}
           /\ UNCHANGED held
  <2>1. req'[r] = [req[r] EXCEPT !.pc = "recheck", !.todo = @ \ {i},
                     !.fresh = @ \cup {i}]
    BY <1>5 DEF Request
  <2> QED
    BY <1>2, <1>3, <1>5, <2>1
<1> QED
  BY <1>1, <1>4, <1>5

LEMMA AfterHoldMoves ==
  ASSUME req \in [Procs -> Request], NEW r \in Requests, AfterHold(r)
  PROVE  /\ req[r].pc = "recheck" /\ req[r].todo = {}
         /\ secrets' = secrets \ req[r].fresh
         /\ \/ req'[r] = Idle
            \/ req'[r] = [req[r] EXCEPT !.pc = "signal"] /\ req[r].op # "stop"
            \/ req'[r] = [req[r] EXCEPT !.pc = "settleSoon"] /\ req[r].op = "stop"
BY DEF AfterHold, Goto, Finish, forget

\* The job in hand is the one it was, or the one the claim has just taken.
LEMMA HandChange ==
  ASSUME TypeOK, RunContinues, HandBegun, [Next]_vars,
         wpc' \in Taken, hand'.id # NoJob
  PROVE  \/ wpc \in Taken /\ hand'.id = hand.id /\ hand'.uid = hand.uid
              /\ (wpc' = "claimed" => wpc = "claimed")
         \/ /\ ClaimUpdate /\ wpc' = "claimed"
            /\ hand'.id \in Claimable /\ hand'.uid = rows[hand'.id].uid
            /\ rows' = Set(hand'.id, "running")
<1> USE DEF dbVars, memVars, closeVars, workerVars, histVars, Taken, HandPCs
<1>1. hand \in Hand
  BY DEF TypeOK
<1>2. CASE ClaimStep
  <2>1. CASE AfterClaim
    BY <1>1, <2>1 DEF AfterClaim, Hand
  <2>2. CASE ClaimUpdate
    <3>1. CASE Claimable = {}
      BY <2>2, <3>1 DEF ClaimUpdate, HandBegun
    <3>2. CASE Claimable # {}
      <4>1. PICK k \in Claimable : /\ rows' = Set(k, "running")
                                  /\ hand' = [hand EXCEPT !.id = k, !.uid = rows[k].uid]
        BY <2>2, <3>2 DEF ClaimUpdate
      <4>2. hand'.id = k /\ hand'.uid = rows[k].uid
        BY <1>1, <4>1 DEF Hand
      <4> QED
        BY <2>2, <4>1, <4>2 DEF ClaimUpdate
    <3> QED
      BY <3>1, <3>2
  <2>3. NoHand.id = NoJob
    BY DEF NoHand
  <2> QED
    BY <1>2, <2>1, <2>2, <2>3 DEF ClaimStep, WorkerTop, WorkerSettle, ClaimRead, ClaimRetry,
       ClaimGivesUp, AfterEmptyClaim
<1>3. CASE RunStep
  <2>1. \A err, told : Returns(err, told)
           => wpc' = "record" /\ hand'.id = hand.id /\ hand'.uid = hand.uid
    BY <1>1 DEF Returns, Hand
  <2>2. CASE FinishItem
    BY <1>1, <2>2 DEF FinishItem, Hand
  <2> QED
    BY <1>3, <2>1, <2>2 DEF RunStep, Execute, BeginItem, AbandonItem, Progress, RunTold,
       RunDone, RunFails, RecordEnd, RecordNothing, Release, ContinueStart
<1>4. ASSUME NEW p \in Procs, EnqueueStep(p)
      PROVE  hand' = hand /\ (wpc' # wpc => (p = Run /\ wpc' = "between") \/ wpc' = "top")
  BY <1>4 DEF EnqueueStep, EnqueueCheck, InsertJob, InsertRefused, EnqueueDone, Kick
<1>5. ASSUME NEW p \in Procs, EnqueueStep(p), RunContinues
      PROVE  wpc' # wpc => wpc \in Taken \/ wpc' = "top"
  <2>1. req[p].pc # "idle"
    BY <1>5, EnqueueMoves DEF TypeOK
  <2> QED
    BY <1>4, <1>5, <2>1 DEF RunContinues
<1>6. ASSUME NEW r \in Requests, Start(r)
      PROVE  hand' = hand /\ wpc' = wpc
  BY <1>6 DEF Start, EnqueueStart, RerunStart, StopStart, StopAllStart, DeleteStart,
     ExclusiveStart
<1>7. ASSUME NEW r \in Requests, StopStep(r) \/ DeleteStep(r)
      PROVE  hand'.id = hand.id /\ hand'.uid = hand.uid /\ (wpc' = wpc \/ wpc' = "top")
  BY <1>1, <1>7 DEF StopStep, StopStale, StopRead, Mark, Recheck, Resolve, AfterHold,
     Signal, SettleSoon, ReadRunning, StopHeld, StopDone, Orphan, OrphanFails, DeleteStep,
     DeleteLeave, DeleteIdle, DeleteAccount, DeleteRefused, Kick, Hand
<1>8. ASSUME NEW r \in Requests, ExclusiveStep(r)
      PROVE  hand' = hand /\ (wpc' = wpc \/ wpc' = "top")
  BY <1>8 DEF ExclusiveStep, ExclusiveEnter, RunFn, SwapBegin, SwapRefused, SwapFiles,
     ExclusiveEnd, Kick
<1>9. ASSUME \/ CloseBegin \/ CloseStep
             \/ \E u \in Uids : CreateAccount(u)
             \/ RetireLapses \/ LockTake \/ LockRelease \/ UNCHANGED vars
      PROVE  hand'.id = hand.id /\ hand'.uid = hand.uid /\ wpc' = wpc
  BY <1>1, <1>9 DEF CloseBegin, CloseStep, CloseIdle, CloseCancel, CloseAbandon,
     CloseAbandonWrite, CloseInserts, CloseSettle, CloseInterrupt, CreateAccount,
     RetireLapses, LockTake, LockRelease, vars, Hand
<1>10. CASE Restart
  BY <1>10 DEF Restart
<1> QED
  BY <1>2, <1>3, <1>4, <1>5, <1>6, <1>7, <1>8, <1>9, <1>10, Groups

\* The files move with no worker at work and no other swap, and the generation goes up.
LEMMA SwapFacts ==
  ASSUME IInv, NEW r \in Requests, SwapFiles(r)
  PROVE  /\ swapMoving /\ exclusive # {} /\ wpc \in {"none", "top"}
         /\ wpc' = wpc /\ hand' = hand /\ held' = held /\ secrets' = secrets
         /\ gen' \in Nat /\ gen' > gen
         /\ exclusive' # {} /\ ~swapMoving'
         /\ \A q \in Procs \ {r} : req'[q] = req[q]
         /\ req[r].pc = "moving" /\ req'[r] = [req[r] EXCEPT !.pc = "fnEnd"]
         /\ kickDue' = kickDue /\ cpc' = cpc /\ pending' = pending
<1> USE DEF memVars, closeVars, workerVars
<1>1. req \in [Procs -> Request] /\ gen \in Nat
  BY DEF IInv, TypeOK
<1>2. req[r].pc = "moving" /\ req'[r] = [req[r] EXCEPT !.pc = "fnEnd"]
      /\ \A q \in Procs \ {r} : req'[q] = req[q]
  BY <1>1 DEF SwapFiles, Goto
<1>3. req'[r].pc = "fnEnd"
  BY <1>1, <1>2 DEF Request
<1>4. swapMoving /\ exclusive # {} /\ exclusive' # {}
  BY <1>2, <1>3 DEF swapMoving, exclusive, XPCs
<1>5. wpc \in {"none", "top"}
  BY <1>4 DEF IInv, Control, HandInGeneration
<1>6. ~swapMoving'
  BY <1>2, <1>3 DEF swapMoving, IInv, Control, OneSwap
<1>7. gen' \in Nat /\ gen' > gen
  BY <1>1 DEF SwapFiles
<1> QED
  BY <1>2, <1>4, <1>5, <1>6, <1>7 DEF SwapFiles

\* In one file a row that is there stays, and one that has left the queue does not
\* come back.
LEMMA RowGoes ==
  ASSUME TypeOK, [Next]_vars, \A r \in Requests : ~SwapFiles(r), NEW i \in Ids
  PROVE  /\ rows[i].state # "absent" => rows'[i].state # "absent"
         /\ Begun(i) => Begun(i)'
         /\ rows'[i].state = "queued" => \/ rows[i].state = "queued"
                                         \/ /\ rows[i].state = "absent"
                                            /\ \E p \in Procs : InsertJob(p)
<1>1. rows[i] \in Row /\ hand \in Hand
  BY DEF TypeOK
<1>2. RecordEnd => hand.fin \in Ended
  BY <1>1 DEF RecordEnd, Hand
<1>3. \A st : Becomes(i, st) => rows'[i].state = st
  BY <1>1 DEF Becomes, Row
<1>4. ASSUME NEW u, rows'[i] = [rows[i] EXCEPT !.uid = u]
      PROVE  rows'[i].state = rows[i].state
  BY <1>1, <1>4 DEF Row
<1>5. ASSUME NEW p \in Procs, rows'[i] = [NoRow EXCEPT !.state = "queued",
               !.uid = req[p].uid, !.inc = req[p].inc, !.work = req[p].work]
      PROVE  rows'[i].state = "queued"
  BY <1>5 DEF NoRow
<1>6. \/ rows'[i].state = rows[i].state
      \/ rows[i].state # "absent" /\ rows'[i].state \in Ended \cup {"running"}
      \/ /\ rows'[i].state = "queued" /\ rows[i].state = "absent"
         /\ \E p \in Procs : InsertJob(p)
  BY <1>2, <1>3, <1>4, <1>5, RowChange DEF Ended, Live, Claimable
<1> QED
  BY <1>6 DEF Begun, Ended

\* A claim has no job in hand until it takes one.
LEMMA ClaimsEmpty == TypeOK /\ HandBegun /\ [Next]_vars
                       => (wpc' = "claimUpdate" => hand'.id = NoJob)
<1> SUFFICES ASSUME TypeOK, HandBegun, [Next]_vars, wpc' = "claimUpdate"
             PROVE  hand'.id = NoJob
  OBVIOUS
<1> USE DEF dbVars, memVars, closeVars, workerVars, histVars, HandBegun
<1>1. hand \in Hand
  BY DEF TypeOK
<1>2. CASE ClaimStep
  <2>1. ClaimRead => hand'.id = NoJob
    BY DEF ClaimRead, NoHand
  <2> QED
    BY <1>2, <2>1 DEF ClaimStep, WorkerTop, WorkerSettle, ClaimUpdate, ClaimRetry,
       ClaimGivesUp, AfterClaim, AfterEmptyClaim
<1>3. CASE RunStep
  BY <1>3 DEF RunStep, Execute, BeginItem, FinishItem, AbandonItem, Progress, RunTold,
     RunDone, RunFails, RecordEnd, RecordNothing, Release, ContinueStart, Returns
<1>4. ASSUME NEW p \in Procs, EnqueueStep(p) PROVE hand' = hand /\ wpc' = wpc
  BY <1>4 DEF EnqueueStep, EnqueueCheck, InsertJob, InsertRefused, EnqueueDone, Kick
<1>5. ASSUME NEW r \in Requests, Start(r) PROVE hand' = hand /\ wpc' = wpc
  BY <1>5 DEF Start, EnqueueStart, RerunStart, StopStart, StopAllStart, DeleteStart,
     ExclusiveStart
<1>6. ASSUME NEW r \in Requests, StopStep(r) \/ DeleteStep(r)
      PROVE  hand'.id = hand.id /\ wpc' = wpc
  BY <1>1, <1>6 DEF StopStep, StopStale, StopRead, Mark, Recheck, Resolve, AfterHold,
     Signal, SettleSoon, ReadRunning, StopHeld, StopDone, Orphan, OrphanFails, DeleteStep,
     DeleteLeave, DeleteIdle, DeleteAccount, DeleteRefused, Kick, Hand
<1>7. ASSUME NEW r \in Requests, ExclusiveStep(r) PROVE hand' = hand /\ wpc' = wpc
  BY <1>7 DEF ExclusiveStep, ExclusiveEnter, RunFn, SwapBegin, SwapRefused, SwapFiles,
     ExclusiveEnd, Kick
<1>8. ASSUME \/ CloseBegin \/ CloseStep
             \/ \E u \in Uids : CreateAccount(u)
             \/ RetireLapses \/ LockTake \/ LockRelease \/ UNCHANGED vars
      PROVE  hand'.id = hand.id /\ wpc' = wpc
  BY <1>1, <1>8 DEF CloseBegin, CloseStep, CloseIdle, CloseCancel, CloseAbandon,
     CloseAbandonWrite, CloseInserts, CloseSettle, CloseInterrupt, CreateAccount,
     RetireLapses, LockTake, LockRelease, vars, Hand
<1>9. CASE Restart
  BY <1>9 DEF Restart
<1> QED
  BY <1>2, <1>3, <1>4, <1>5, <1>6, <1>7, <1>8, <1>9, Groups

LEMMA HandBegunKept == IInv /\ HandBegun /\ [Next]_vars => HandBegun'
<1> SUFFICES ASSUME IInv, HandBegun, [Next]_vars PROVE HandBegun'
  OBVIOUS
<1>1. TypeOK /\ RunContinues
  BY DEF IInv, Control
<1>2. ASSUME NEW i \in Ids, InHand(i)' PROVE Begun(i)'
  <2>1. wpc' \in Taken /\ hand'.id = i /\ i # NoJob
    BY <1>2 DEF InHand, Ids
  <2>2. \A r \in Requests : ~SwapFiles(r)
    BY <2>1, SwapFacts DEF Taken, HandPCs
  <2>3. CASE InHand(i)
    BY <1>1, <2>2, <2>3, RowGoes DEF HandBegun
  <2>4. CASE rows' = Set(i, "running")
    BY <1>1, <2>4 DEF Set, TypeOK, Row, Begun
  <2> QED
    BY <1>1, <2>1, <2>3, <2>4, HandChange DEF InHand
<1> QED
  BY <1>1, <1>2, ClaimsEmpty DEF HandBegun

\* After a restart nothing of Runner's memory or of the requests is left.
LEMMA RestartFacts ==
  ASSUME Restart
  PROVE  /\ \A p \in Procs : req'[p] = Idle /\ req'[p].pc = "idle" /\ req'[p].op = "none"
         /\ HeldNow' = {} /\ \A i \in Ids : held'[i] = NoMark
         /\ gen' = 1 /\ wpc' = "none" /\ hand' = NoHand /\ secrets' = {}
         /\ exclusive' = {} /\ ~swapMoving' /\ inserting' = {}
         /\ \A i \in Ids : rows'[i].state # "queued"
<1>1. \A p \in Procs : req'[p] = Idle
  BY DEF Restart
<1>2. Idle.pc = "idle" /\ Idle.op = "none"
  BY DEF Idle
<1>3. NoMark.gen = 0
  BY DEF NoMark
<1>4. HeldNow' = {}
  BY <1>3 DEF Restart, HeldNow
<1>5. exclusive' = {} /\ ~swapMoving' /\ inserting' = {}
  BY <1>1, <1>2 DEF exclusive, swapMoving, inserting, XPCs, InsertPCs
<1>6. \A i \in Ids : rows[i].state \in Live => [rows[i] EXCEPT !.state = "interrupted"].state # "queued"
  OBVIOUS
<1>7. \A i \in Ids : rows'[i].state # "queued"
  BY <1>6 DEF Restart, Live
<1> QED
  BY <1>1, <1>2, <1>4, <1>5, <1>7 DEF Restart

LEMMA MarksKept == IInv /\ Marks /\ Taking /\ [Next]_vars => Marks'
<1> SUFFICES ASSUME IInv, Marks, Taking, [Next]_vars, NEW i \in Ids
             PROVE  /\ held'[i].gen <= gen'
                    /\ i \in HeldNow' => /\ rows'[i].state # "absent"
                                         /\ held'[i].by \in Requests
  BY DEF Marks
<1>1. TypeOK /\ Control /\ gen \in Nat /\ gen # 0 /\ held[i].gen \in Nat
  BY DEF IInv, TypeOK, MarkSet
<1>2. held[i].gen <= gen /\ (i \in HeldNow => rows[i].state # "absent" /\ held[i].by \in Requests)
  BY DEF Marks
<1>3. NoMark.gen = 0
  BY DEF NoMark
<1>4. CASE gen' = gen
  <2>1. ASSUME NEW r \in Requests, SwapFiles(r) PROVE FALSE
    <3>1. gen' > gen
      BY <2>1, SwapFacts
    <3> QED
      BY <1>1, <1>4, <3>1
  <2>2. rows[i].state # "absent" => rows'[i].state # "absent"
    BY <1>1, <2>1, RowGoes
  <2>3. CASE MarkKept(i) /\ held'[i].gen \in {0, held[i].gen}
    BY <1>1, <1>2, <1>4, <2>2, <2>3 DEF MarkKept
  <2>4. CASE MarkGone(i) /\ held'[i] = NoMark
    BY <1>1, <1>3, <1>4, <2>4 DEF MarkGone
  <2>5. ASSUME NEW r \in Requests, Mark(r), i \in req[r].todo,
               held'[i] = [gen |-> gen, by |-> r]
        PROVE  held'[i].gen <= gen' /\ rows'[i].state # "absent" /\ held'[i].by \in Requests
    <3>1. rows[i].state # "absent"
      BY <2>5 DEF Mark, Taking, SteadyPCs
    <3> QED
      BY <1>1, <1>4, <2>2, <2>5, <3>1
  <2>6. CASE Restart
    BY <1>3, <2>6, RestartFacts
  <2> QED
    BY <1>1, <2>1, <2>3, <2>4, <2>5, <2>6, MarkChange
<1>5. ASSUME NEW r \in Requests, SwapFiles(r)
      PROVE  held'[i].gen <= gen' /\ i \notin HeldNow'
  <2>1. held' = held /\ gen' \in Nat /\ gen' > gen
    BY <1>5, SwapFacts
  <2> QED
    BY <1>1, <1>2, <2>1 DEF HeldNow
<1>6. CASE Restart
  BY <1>3, <1>6, RestartFacts
<1> QED
  BY <1>4, <1>5, <1>6, GenChange

\* A Stop goes into no Exclusive and queues nothing; it reads once, and only a delete
\* goes on to wait for the job in hand.
LEMMA StopStays ==
  ASSUME req \in [Procs -> Request], NEW r \in Requests, StopStep(r)
  PROVE  /\ req[r].pc \in StopPCs
         /\ req'[r].pc \in (StopPCs \ {"stopRead"}) \cup {"idle", "waitIdle"}
         /\ req'[r].pc = "mark" => StopRead(r)
         /\ req'[r].pc = "waitIdle" => req[r].op = "delete" /\ req[r].pc # "stopRead"
         /\ req'[r].op \in {req[r].op, "none"}
         /\ req'[r].op # "none" => req'[r].uid = req[r].uid /\ req'[r].id = req[r].id
         /\ req'[r].op = "none" => req'[r] = Idle \/ req[r].op = "none"
<1> USE DEF Request, StopPCs
<1>1. CASE StopStale(r)
  BY <1>1 DEF StopStale, Finish, Idle
<1>2. CASE StopRead(r)
  <2>1. req[r].pc = "stopRead"
    BY <1>2 DEF StopRead
  <2>2. CASE req'[r] = Idle
    BY <1>2, <2>1, <2>2 DEF Idle
  <2>3. CASE req'[r] # Idle
    <3>1. ~Finish(r)
      BY <2>3 DEF Finish
    <3> QED
      BY <1>2, <2>1, <3>1 DEF StopRead, Goto
  <2> QED
    BY <2>2, <2>3
<1>3. CASE Mark(r)
  BY <1>3 DEF Mark
<1>4. CASE Recheck(r)
  BY <1>4 DEF Recheck, Goto
<1>5. CASE Resolve(r)
  BY <1>5 DEF Resolve
<1>6. CASE AfterHold(r)
  <2>1. req[r].pc = "recheck"
    BY <1>6 DEF AfterHold
  <2>2. CASE req'[r] = Idle
    BY <1>6, <2>1, <2>2 DEF Idle
  <2>3. CASE req'[r] # Idle
    <3>1. ~Finish(r)
      BY <2>3 DEF Finish
    <3> QED
      BY <1>6, <2>1, <3>1 DEF AfterHold, Goto
  <2> QED
    BY <2>2, <2>3
<1>7. CASE Signal(r)
  BY <1>7 DEF Signal, Goto
<1>8. CASE SettleSoon(r)
  <2>1. req[r].pc = "settleSoon"
    BY <1>8 DEF SettleSoon
  <2>2. CASE req'[r] = Idle
    BY <1>8, <2>1, <2>2 DEF Idle
  <2>3. CASE req'[r] # Idle
    <3>1. ~Finish(r)
      BY <2>3 DEF Finish
    <3> QED
      BY <1>8, <2>1, <3>1 DEF SettleSoon, Goto
  <2> QED
    BY <2>2, <2>3
<1>9. CASE ReadRunning(r)
  <2>1. req[r].pc = "readRunning"
    BY <1>9 DEF ReadRunning
  <2>2. CASE req'[r] = Idle
    BY <1>9, <2>1, <2>2 DEF Idle
  <2>3. CASE req'[r] # Idle
    <3>1. ~Finish(r)
      BY <2>3 DEF Finish
    <3> QED
      BY <1>9, <2>1, <3>1 DEF ReadRunning, Goto
  <2> QED
    BY <2>2, <2>3
<1>10. CASE StopHeld(r)
  BY <1>10 DEF StopHeld, Goto
<1>11. CASE StopDone(r)
  <2>1. req[r].pc = "stopHeld"
    BY <1>11 DEF StopDone
  <2>2. CASE req'[r] = Idle
    BY <1>11, <2>1, <2>2 DEF Idle
  <2>3. CASE req'[r] # Idle
    <3>1. ~Finish(r)
      BY <2>3 DEF Finish
    <3> QED
      BY <1>11, <2>1, <3>1 DEF StopDone, Goto
  <2> QED
    BY <2>2, <2>3
<1>12. CASE Orphan(r)
  BY <1>12 DEF Orphan
<1>13. CASE OrphanFails(r)
  BY <1>13 DEF OrphanFails, Finish, Idle
<1> QED
  BY <1>1, <1>2, <1>3, <1>4, <1>5, <1>6, <1>7, <1>8, <1>9,
     <1>10, <1>11, <1>12, <1>13 DEF StopStep

\* A mark is only ever put on a waiting job by a Stop in its Steady read, and a job is
\* only ever queued by a write, that finds no file there to write to meanwhile.
LEMMA MovingKept == IInv /\ Moving /\ Marks /\ [Next]_vars => Moving'
<1> SUFFICES ASSUME IInv, Moving, Marks, [Next]_vars, swapMoving'
             PROVE  ~steadyHeld' /\ (HeldNow \cap Waiting = {})'
  BY DEF Moving
<1>1. TypeOK /\ Control /\ req \in [Procs -> Request]
  BY DEF IInv, TypeOK
<1>2. ~Restart /\ \A r \in Requests : ~SwapFiles(r)
  BY RestartFacts, SwapFacts
<1>3. gen' = gen
  BY <1>2, GenChange
<1>4. PICK s \in Requests : req'[s].pc = "moving"
  BY DEF swapMoving
<1>5. CASE req[s].pc = "moving"
  <2>1. swapMoving
    BY <1>5 DEF swapMoving
  <2>2. ~steadyHeld /\ HeldNow \cap Waiting = {}
    BY <2>1 DEF Moving
  <2>3. ~steadyHeld'
    <3> SUFFICES ASSUME NEW r \in Requests, req'[r].pc \in SteadyPCs PROVE FALSE
      BY DEF steadyHeld
    <3>1. req[r].pc \notin SteadyPCs
      BY <2>2 DEF steadyHeld
    <3>2. ~StopRead(r)
      BY <2>1 DEF StopRead
    <3>3. ~Mark(r) /\ ~Recheck(r) /\ ~Resolve(r) /\ ~AfterHold(r)
      BY <3>1 DEF Mark, Recheck, Resolve, AfterHold, SteadyPCs
    <3> QED
      BY <1>1, <1>2, <3>1, <3>2, <3>3, SteadyChange
  <2>4. ASSUME NEW i \in HeldNow', i \in Waiting' PROVE FALSE
    <3>0. i \in Ids
      BY DEF HeldNow
    <3>1. ~\E p \in Procs : InsertJob(p)
      BY <2>1 DEF InsertJob, CanWrite
    <3>2. i \in Waiting
      BY <1>1, <1>2, <2>4, <3>0, <3>1, RowGoes DEF Waiting
    <3>3. i \notin HeldNow
      BY <2>2, <3>2
    <3>4. \A r \in Requests : ~Mark(r)
      BY <2>2 DEF Mark, steadyHeld, SteadyPCs
    <3> QED
      BY <1>1, <1>2, <2>4, <3>0, <3>3, <3>4, MarkChange DEF MarkKept, MarkGone
  <2> QED
    BY <2>3, <2>4
<1>6. CASE req[s].pc # "moving"
  <2>1. SwapBegin(s)
    <3>1. req'[s] # req[s] /\ s # Run
      BY <1>4, <1>6
    <3>2. ~(req[s].pc = "waitClaim" /\ req'[s] = [req[s] EXCEPT !.pc = "stopHeld"])
      BY <1>1, <1>4 DEF Request
    <3>3. Idle.pc = "idle"
      BY DEF Idle
    <3>4. s \in Procs
      OBVIOUS
    <3>5. ~EnqueueStep(s)
      BY <1>1, <1>4, <3>3, <3>4, EnqueueMoves DEF Request
    <3>6. ~Start(s)
      BY <1>1, <1>4, StartMoves DEF Started
    <3>7. ~DeleteStep(s)
      BY <1>1, <1>4, <3>3, DeleteMoves DEF Request
    <3>8. ~StopStep(s)
      BY <1>1, <1>4, StopStays DEF XPCs, StopPCs
    <3>9. ExclusiveStep(s)
      BY <1>1, <1>2, <3>1, <3>2, <3>4, <3>5, <3>6, <3>7, <3>8, ReqChange
    <3> QED
      BY <1>1, <1>2, <1>4, <3>3, <3>9 DEF ExclusiveStep, ExclusiveEnter, RunFn,
         SwapRefused, ExclusiveEnd, Goto, Finish, Request
  <2>2. ~steadyHeld /\ Settle
    BY <2>1 DEF SwapBegin
  <2>3. req'[s].pc = "moving" /\ \A r \in Requests \ {s} : req'[r] = req[r]
    BY <1>1, <2>1 DEF SwapBegin, Goto, Request
  <2>4. ~steadyHeld'
    BY <2>2, <2>3 DEF steadyHeld, SteadyPCs
  <2>5. \A i \in Ids : i \in HeldNow' => rows'[i].state # "queued"
    <3>1. NoMark.gen = 0
      BY DEF NoMark
    <3> QED
      BY <1>1, <1>3, <2>2, <3>1 DEF Settle, SettledRows, SettledHeld, HeldNow, TypeOK, Row
  <2> QED
    BY <2>4, <2>5 DEF HeldNow, Waiting
<1> QED
  BY <1>5, <1>6

\* A Stop begins with nothing it has marked.
LEMMA BeginsEmpty ==
  ASSUME TypeOK, [Next]_vars, NEW r \in Requests,
         req[r].pc \in {"leave", "stopRead", "mark"} => req[r].fresh = {},
         req'[r].pc \in {"leave", "stopRead", "mark"}
  PROVE  req'[r].fresh = {}
<1>1. req \in [Procs -> Request] /\ r \in Procs /\ r # Run
  BY DEF TypeOK
<1>2. Idle.fresh = {} /\ Idle.pc = "idle"
  BY DEF Idle
<1>3. CASE EnqueueStep(r)
  BY <1>1, <1>2, <1>3, EnqueueMoves DEF Request
<1>4. CASE Start(r)
  BY <1>1, <1>4, StartMoves DEF Started
<1>5. CASE DeleteStep(r)
  <2>1. req[r].pc = "leave" /\ req'[r] = [req[r] EXCEPT !.pc = "stopRead"]
    BY <1>1, <1>2, <1>5, DeleteMoves DEF Request
  <2> QED
    BY <1>1, <2>1 DEF Request
<1>6. CASE ExclusiveStep(r)
  <2>1. req'[r] = Idle \/ \E l \in XPCs : req'[r] = [req[r] EXCEPT !.pc = l]
    BY <1>1, <1>6, ExclusiveMoves
  <2> QED
    BY <1>1, <1>2, <2>1 DEF Request, XPCs
<1>7. CASE StopStep(r)
  <2>1. req'[r].pc = "mark"
    BY <1>1, <1>7, StopStays DEF StopPCs
  <2>2. StopRead(r)
    BY <1>1, <1>7, <2>1, StopStays
  <2> QED
    BY <1>1, <2>1, <2>2, StopReadMoves
<1>8. CASE Restart
  BY <1>1, <1>2, <1>8, RestartFacts
<1>9. CASE req[r].pc = "waitClaim" /\ req'[r] = [req[r] EXCEPT !.pc = "stopHeld"]
  BY <1>1, <1>9 DEF Request
<1> QED
  BY <1>1, <1>3, <1>4, <1>5, <1>6, <1>7, <1>8, <1>9, ReqChange

LEMMA TakingKept == IInv /\ Taking /\ Moving /\ [Next]_vars => Taking'
<1> SUFFICES ASSUME IInv, Taking, Moving, [Next]_vars, NEW r \in Requests
    PROVE  /\ req'[r].pc \in {"leave", "stopRead", "mark"} => req'[r].fresh = {}
           /\ req'[r].pc \in SteadyPCs =>
                /\ \A i \in req'[r].todo : rows'[i].state # "absent"
                /\ req'[r].todo \cap req'[r].fresh = {}
                /\ req'[r].op = "stop" => req'[r].todo \cup req'[r].fresh \subseteq {req'[r].id}
           /\ req'[r].pc = "resolve" =>
                \A i \in req'[r].todo : (\A k \in req'[r].todo : i <= k) => Begun(i)'
  BY DEF Taking, Begun
<1>1. TypeOK /\ Control /\ req \in [Procs -> Request] /\ r \in Procs
      /\ req[r].todo \subseteq Ids
  BY DEF IInv, TypeOK, Request
<1>2. req'[r].pc \in {"leave", "stopRead", "mark"} => req'[r].fresh = {}
  BY <1>1, BeginsEmpty DEF Taking
<1>3. CASE req[r].pc \notin SteadyPCs /\ req'[r].pc \notin SteadyPCs
  BY <1>2, <1>3 DEF SteadyPCs
<1>4. CASE Restart
  BY <1>1, <1>2, <1>4, RestartFacts DEF SteadyPCs
<1>5. ASSUME NEW q \in Requests, SwapFiles(q) PROVE req'[r].pc \notin SteadyPCs
  <2>1. req[r].pc \notin SteadyPCs
    BY <1>5, SwapFacts DEF Moving, steadyHeld
  <2>2. req'[r] = req[r] \/ (r = q /\ req'[r] = [req[r] EXCEPT !.pc = "fnEnd"])
    BY <1>5, SwapFacts
  <2> QED
    BY <1>1, <2>1, <2>2 DEF SteadyPCs, Request
<1>6. ASSUME req[r].pc \in SteadyPCs, \A q \in Requests : ~SwapFiles(q)
      PROVE  /\ \A i \in req[r].todo : rows'[i].state # "absent"
             /\ req[r].todo \cap req[r].fresh = {}
             /\ req[r].op = "stop" => req[r].todo \cup req[r].fresh \subseteq {req[r].id}
  BY <1>1, <1>6, RowGoes DEF Taking
<1> SUFFICES ASSUME \A q \in Requests : ~SwapFiles(q)
    PROVE  /\ req'[r].pc \in SteadyPCs =>
                /\ \A i \in req'[r].todo : rows'[i].state # "absent"
                /\ req'[r].todo \cap req'[r].fresh = {}
                /\ req'[r].op = "stop" => req'[r].todo \cup req'[r].fresh \subseteq {req'[r].id}
           /\ req'[r].pc = "resolve" =>
                \A i \in req'[r].todo : (\A k \in req'[r].todo : i <= k) => Begun(i)'
  BY <1>2, <1>5 DEF SteadyPCs
<1>7. CASE req'[r] = req[r]
  BY <1>1, <1>6, <1>7, RowGoes DEF Taking
<1>8. CASE StopRead(r)
  <2>1. CASE req'[r].pc # "mark"
    BY <1>8, <2>1, StopReadMoves, <1>1 DEF SteadyPCs
  <2>2. CASE req'[r].pc = "mark" /\ req[r].op = "stop"
    <3>1. req'[r].todo = {req[r].id} /\ rows[req[r].id].state \in Live
          /\ req'[r].id = req[r].id
      BY <1>1, <1>8, <2>2, StopReadMoves
    <3>2. req'[r].fresh = {}
      BY <1>2, <2>2
    <3>3. req[r].id \in Ids
      BY <1>1, <1>8, <3>1, <2>2 DEF StopRead, Request, Finish, Idle, Taking
    <3>4. rows'[req[r].id].state # "absent"
      BY <1>1, <3>1, <3>3, RowGoes DEF Live
    <3> QED
      BY <2>2, <3>1, <3>2, <3>4
  <2>3. CASE req'[r].pc = "mark" /\ req[r].op # "stop"
    <3>1. req'[r].todo = Queued(r) /\ req'[r].op # "stop"
      BY <1>1, <1>8, <2>3, StopReadMoves
    <3>2. req'[r].fresh = {}
      BY <1>2, <2>3
    <3> QED
      BY <1>1, <2>3, <3>1, <3>2, RowGoes DEF Queued
  <2> QED
    BY <2>1, <2>2, <2>3
<1>9. CASE Mark(r)
  <2>1. /\ req[r].pc = "mark"
        /\ req'[r] = [req[r] EXCEPT !.pc = "recheck", !.todo = @ \ HeldNow]
    BY <1>1, <1>9, MarkMoves
  <2> QED
    BY <1>1, <1>6, <2>1 DEF Request, SteadyPCs
<1>10. CASE Recheck(r)
  <2>1. PICK i \in Ids :
          /\ FirstOf(req[r].todo, i)
          /\ \/ req'[r] = [req[r] EXCEPT !.todo = @ \ {i}, !.fresh = @ \cup {i}]
             \/ rows[i].state # "queued" /\ req'[r] = [req[r] EXCEPT !.pc = "resolve"]
    BY <1>1, <1>10, RecheckMoves
  <2>2. req[r].pc = "recheck"
    BY <1>1, <1>10, RecheckMoves
  <2>3. CASE req'[r] = [req[r] EXCEPT !.todo = @ \ {i}, !.fresh = @ \cup {i}]
    BY <1>1, <1>6, <2>1, <2>2, <2>3 DEF Request, SteadyPCs, FirstOf
  <2>4. CASE rows[i].state # "queued" /\ req'[r] = [req[r] EXCEPT !.pc = "resolve"]
    <3>1. Begun(i)
      BY <2>1, <2>2, <2>4 DEF Begun, Taking, SteadyPCs, FirstOf
    <3>2. Begun(i)'
      BY <1>1, <3>1, RowGoes
    <3>3. \A k \in req[r].todo : (\A l \in req[r].todo : k <= l) => k = i
      BY <1>1, <2>1 DEF FirstOf, Ids
    <3> QED
      BY <1>1, <1>6, <2>2, <2>4, <3>2, <3>3 DEF Request, SteadyPCs
  <2> QED
    BY <2>1, <2>3, <2>4
<1>11. CASE Resolve(r)
  <2>1. PICK i \in Ids :
          /\ FirstOf(req[r].todo, i)
          /\ \/ req'[r] = [req[r] EXCEPT !.pc = "signal"]
             \/ req'[r] = [req[r] EXCEPT !.pc = "recheck", !.todo = @ \ {i}]
             \/ req'[r] = [req[r] EXCEPT !.pc = "recheck", !.todo = @ \ {i},
                             !.fresh = @ \cup {i}]
    BY <1>1, <1>11, ResolveMoves
  <2>2. req[r].pc \in SteadyPCs
    BY <1>1, <1>11, ResolveMoves DEF SteadyPCs
  <2>3. /\ \A k \in req[r].todo : rows'[k].state # "absent"
        /\ req[r].todo \cap req[r].fresh = {}
        /\ req[r].op = "stop" => req[r].todo \cup req[r].fresh \subseteq {req[r].id}
    BY <1>6, <2>2
  <2>4. CASE req'[r] = [req[r] EXCEPT !.pc = "signal"]
    BY <1>1, <2>4 DEF Request, SteadyPCs
  <2>5. CASE req'[r] = [req[r] EXCEPT !.pc = "recheck", !.todo = @ \ {i}]
    BY <1>1, <2>3, <2>5 DEF Request, SteadyPCs
  <2>6. CASE req'[r] = [req[r] EXCEPT !.pc = "recheck", !.todo = @ \ {i},
                          !.fresh = @ \cup {i}]
    BY <1>1, <2>1, <2>3, <2>6 DEF Request, SteadyPCs, FirstOf
  <2> QED
    BY <2>1, <2>4, <2>5, <2>6
<1>12. CASE AfterHold(r)
  <2>1. \/ req'[r] = Idle
        \/ req'[r] = [req[r] EXCEPT !.pc = "signal"]
        \/ req'[r] = [req[r] EXCEPT !.pc = "settleSoon"]
    BY <1>1, <1>12, AfterHoldMoves
  <2> QED
    BY <1>1, <2>1 DEF Request, SteadyPCs, Idle
<1> QED
  BY <1>1, <1>2, <1>3, <1>4, <1>7, <1>8, <1>9, <1>10, <1>11, <1>12, SteadyChange
     DEF SteadyPCs

\* A step that is not the worker's leaves it where it was, wakes it, or ends its
\* continuation; of the job in hand it changes what it was told, and only adds to that.
LEMMA WorkerKept ==
  ASSUME TypeOK, RunContinues, [Next]_vars
  PROVE  \/ ClaimStep \/ RunStep \/ Restart
         \/ /\ heldSeen' = heldSeen
            /\ \/ wpc' = wpc
               \/ wpc = "none" /\ wpc' = "top" /\ ~closed
               \/ wpc = "continue" /\ wpc' = "between"
            /\ hand'.id = hand.id /\ hand'.gen = hand.gen /\ hand'.uid = hand.uid
            /\ hand'.worked = hand.worked /\ hand'.fin = hand.fin
            /\ hand.stop => hand'.stop
            /\ hand.shutdown => hand'.shutdown
<1> USE DEF dbVars, memVars, closeVars, workerVars, histVars
<1> DEFINE Kept == /\ heldSeen' = heldSeen
                   /\ \/ wpc' = wpc
                      \/ wpc = "none" /\ wpc' = "top" /\ ~closed
                      \/ wpc = "continue" /\ wpc' = "between"
                   /\ hand'.id = hand.id /\ hand'.gen = hand.gen /\ hand'.uid = hand.uid
                   /\ hand'.worked = hand.worked /\ hand'.fin = hand.fin
                   /\ hand.stop => hand'.stop
                   /\ hand.shutdown => hand'.shutdown
<1>1. hand \in Hand
  BY DEF TypeOK
<1>2. ASSUME NEW p \in Procs, EnqueueStep(p) PROVE Kept
  <2>1. req[p].pc # "idle"
    BY <1>2, EnqueueMoves DEF TypeOK
  <2>2. p = Run => wpc = "continue"
    BY <2>1 DEF RunContinues
  <2> QED
    BY <1>2, <2>2 DEF EnqueueStep, EnqueueCheck, InsertJob, InsertRefused, EnqueueDone,
       Kick, alive
<1>3. ASSUME NEW r \in Requests, Start(r) PROVE Kept
  BY <1>3 DEF Start, EnqueueStart, RerunStart, StopStart, StopAllStart, DeleteStart,
     ExclusiveStart
<1>4. ASSUME NEW r \in Requests, StopStep(r) PROVE Kept
  <2>1. CASE Signal(r)
    BY <1>1, <2>1 DEF Signal, Hand
  <2>2. CASE StopHeld(r)
    BY <1>1, <2>2 DEF StopHeld, Hand
  <2>3. CASE SettleSoon(r)
    BY <2>3 DEF SettleSoon, Kick, alive
  <2> QED
    BY <1>4, <2>1, <2>2, <2>3 DEF StopStep, StopStale, StopRead, Mark, Recheck, Resolve,
       AfterHold, ReadRunning, StopDone, Orphan, OrphanFails
<1>5. ASSUME NEW r \in Requests, DeleteStep(r) PROVE Kept
  BY <1>5 DEF DeleteStep, DeleteLeave, DeleteIdle, DeleteAccount, DeleteRefused
<1>6. ASSUME NEW r \in Requests, ExclusiveStep(r) PROVE Kept
  BY <1>6 DEF ExclusiveStep, ExclusiveEnter, RunFn, SwapBegin, SwapRefused, SwapFiles,
     ExclusiveEnd, Kick, alive
<1>7. ASSUME CloseBegin PROVE Kept
  BY <1>1, <1>7 DEF CloseBegin, Hand
<1>8. ASSUME \/ CloseStep
             \/ \E u \in Uids : CreateAccount(u)
             \/ RetireLapses \/ LockTake \/ LockRelease \/ UNCHANGED vars
      PROVE  Kept
  BY <1>8 DEF CloseStep, CloseIdle, CloseCancel, CloseAbandon, CloseAbandonWrite,
     CloseInserts, CloseSettle, CloseInterrupt, CreateAccount, RetireLapses, LockTake,
     LockRelease, vars
<1> QED
  BY <1>2, <1>3, <1>4, <1>5, <1>6, <1>7, <1>8, Groups

\* The steps of the worker itself, by where it is.
LEMMA WorkerMoves ==
  ASSUME TypeOK, ClaimStep \/ RunStep
  PROVE  /\ wpc' = "claimUpdate" => ClaimRead
         /\ wpc = "claimed" => AfterClaim \/ AfterEmptyClaim
         /\ wpc' \in HandPCs /\ wpc \notin HandPCs => AfterClaim
         /\ wpc' = "top" => wpc \in {"release", "claimed"}
         /\ wpc' = "none" => WorkerTop \/ AfterEmptyClaim
         /\ wpc' = "claimed" => ClaimUpdate
         /\ wpc' \in RunPCs => wpc \in RunPCs \/ Execute
<1> USE DEF HandPCs, RunPCs, Returns
<1>1. CASE ClaimStep
  BY <1>1 DEF ClaimStep, WorkerTop, WorkerSettle, ClaimRead, ClaimUpdate, ClaimRetry,
     ClaimGivesUp, AfterClaim, AfterEmptyClaim
<1>2. CASE RunStep
  BY <1>2 DEF RunStep, Execute, BeginItem, FinishItem, AbandonItem, Progress, RunTold,
     RunDone, RunFails, RecordEnd, RecordNothing, Release, ContinueStart
<1> QED
  BY <1>1, <1>2

(***************************************************************************)
(* What a step does to what a Stop is about to do.                         *)
(***************************************************************************)
\* A Stop that marked a job goes on to say it stopped it, or takes the mark back.
LEMMA MarkingKept ==
  ASSUME IInv, Taking, [Next]_vars, NEW r \in Requests, NEW i \in Ids, Marking(r, i)
  PROVE  \/ Marking(r, i)'
         \/ Recheck(r) /\ rows[i].state = "queued" /\ Fresh(r, i)' /\ i \in promised'
         \/ Resolve(r) /\ FirstOf(req[r].todo, i) /\ i \in HeldNow
              /\ held' = [held EXCEPT ![i] = NoMark]
         \/ Resolve(r) /\ FirstOf(req[r].todo, i) /\ (i \notin HeldNow \/ held[i].by # r)
              /\ held' = held /\ Fresh(r, i)' /\ i \in promised'
         \/ Restart
<1>1. TypeOK /\ req[r] \in Request /\ req \in [Procs -> Request]
  BY DEF IInv, TypeOK
<1>2. req[r].pc \in {"recheck", "resolve"} /\ i \in req[r].todo
  BY DEF Marking
<1>3. CASE req'[r] = req[r]
  BY <1>3 DEF Marking
<1>4. CASE Recheck(r)
  <2>1. PICK k \in Ids :
          /\ FirstOf(req[r].todo, k)
          /\ \/ /\ rows[k].state = "queued"
                /\ req'[r] = [req[r] EXCEPT !.todo = @ \ {k}, !.fresh = @ \cup {k}]
                /\ promised' = promised \cup {k}
             \/ req'[r] = [req[r] EXCEPT !.pc = "resolve"]
    BY <1>1, <1>4, RecheckMoves
  <2>2. CASE req'[r] = [req[r] EXCEPT !.pc = "resolve"]
    BY <1>1, <1>2, <2>2 DEF Marking, Request
  <2>3. CASE /\ rows[k].state = "queued"
             /\ req'[r] = [req[r] EXCEPT !.todo = @ \ {k}, !.fresh = @ \cup {k}]
             /\ promised' = promised \cup {k}
    <3>1. /\ req'[r].pc \in {"recheck", "resolve"}
          /\ req'[r].todo = req[r].todo \ {k} /\ req'[r].fresh = req[r].fresh \cup {k}
      BY <1>1, <1>2, <2>3 DEF Request
    <3> QED
      BY <1>2, <1>4, <2>3, <3>1 DEF Marking, Fresh
  <2> QED
    BY <2>1, <2>2, <2>3
<1>5. CASE Resolve(r)
  <2>1. PICK k \in Ids :
          /\ FirstOf(req[r].todo, k)
          /\ \/ /\ k \in HeldNow
                /\ held' = [held EXCEPT ![k] = NoMark]
                /\ req[r].op = "stop"
                /\ req'[r] = [req[r] EXCEPT !.pc = "signal"]
             \/ /\ k \in HeldNow
                /\ held' = [held EXCEPT ![k] = NoMark]
                /\ req'[r] = [req[r] EXCEPT !.pc = "recheck", !.todo = @ \ {k}]
             \/ /\ k \notin HeldNow \/ held[k].by # r
                /\ req'[r] = [req[r] EXCEPT !.pc = "recheck",
                                !.todo = @ \ {k}, !.fresh = @ \cup {k}]
                /\ promised' = promised \cup {k} /\ held' = held
    BY <1>1, <1>5, ResolveMoves
  <2>2. CASE k = i
    <3>1. ASSUME req'[r] = [req[r] EXCEPT !.pc = "recheck",
                              !.todo = @ \ {k}, !.fresh = @ \cup {k}]
          PROVE  Fresh(r, i)'
      BY <1>1, <2>2, <3>1 DEF Fresh, Request
    <3> QED
      BY <1>5, <2>1, <2>2, <3>1
  <2>3. CASE k # i
    <3>1. req[r].op # "stop"
      <4>1. req[r].op = "stop" => req[r].todo \subseteq {req[r].id}
        BY <1>2 DEF Taking, SteadyPCs
      <4> QED
        BY <1>2, <2>1, <2>3, <4>1 DEF FirstOf
    <3>2. CASE req'[r] = [req[r] EXCEPT !.pc = "recheck", !.todo = @ \ {k}]
      BY <1>1, <1>2, <2>3, <3>2 DEF Marking, Request
    <3>3. CASE req'[r] = [req[r] EXCEPT !.pc = "recheck",
                            !.todo = @ \ {k}, !.fresh = @ \cup {k}]
      BY <1>1, <1>2, <2>3, <3>3 DEF Marking, Request
    <3> QED
      BY <2>1, <3>1, <3>2, <3>3
  <2> QED
    BY <2>2, <2>3
<1>6. ~StopRead(r) /\ ~Mark(r) /\ ~AfterHold(r)
  BY <1>2 DEF StopRead, Mark, AfterHold
<1> QED
  BY <1>1, <1>2, <1>3, <1>4, <1>5, <1>6, SteadyChange DEF SteadyPCs

\* What a Stop said it stopped it remembers until it has let go of the secrets.
LEMMA FreshKept ==
  ASSUME IInv, Taking, [Next]_vars, NEW r \in Requests, NEW i \in Ids, Fresh(r, i)
  PROVE  Fresh(r, i)' \/ (AfterHold(r) /\ i \notin secrets') \/ Restart
<1>1. TypeOK /\ req[r] \in Request /\ req \in [Procs -> Request]
  BY DEF IInv, TypeOK
<1>2. req[r].pc \in {"recheck", "resolve"} /\ i \in req[r].fresh
  BY DEF Fresh
<1>3. CASE req'[r] = req[r]
  BY <1>3 DEF Fresh
<1>4. CASE Recheck(r)
  <2>1. PICK k \in Ids :
          \/ req'[r] = [req[r] EXCEPT !.todo = @ \ {k}, !.fresh = @ \cup {k}]
          \/ req'[r] = [req[r] EXCEPT !.pc = "resolve"]
    BY <1>1, <1>4, RecheckMoves
  <2>2. CASE req'[r] = [req[r] EXCEPT !.todo = @ \ {k}, !.fresh = @ \cup {k}]
    BY <1>1, <1>2, <2>2 DEF Fresh, Request
  <2>3. CASE req'[r] = [req[r] EXCEPT !.pc = "resolve"]
    BY <1>1, <1>2, <2>3 DEF Fresh, Request
  <2> QED
    BY <2>1, <2>2, <2>3
<1>5. CASE Resolve(r)
  <2>1. PICK k \in Ids :
          /\ FirstOf(req[r].todo, k)
          /\ \/ req[r].op = "stop"
             \/ req'[r] = [req[r] EXCEPT !.pc = "recheck", !.todo = @ \ {k}]
             \/ req'[r] = [req[r] EXCEPT !.pc = "recheck",
                             !.todo = @ \ {k}, !.fresh = @ \cup {k}]
    BY <1>1, <1>5, ResolveMoves
  <2>2. req[r].op # "stop"
    <3>1. req[r].op = "stop" => /\ req[r].todo \cup req[r].fresh \subseteq {req[r].id}
                                /\ req[r].todo \cap req[r].fresh = {}
      BY <1>2 DEF Taking, SteadyPCs
    <3> QED
      BY <1>2, <2>1, <3>1 DEF FirstOf
  <2>3. CASE req'[r] = [req[r] EXCEPT !.pc = "recheck", !.todo = @ \ {k}]
    BY <1>1, <1>2, <2>3 DEF Fresh, Request
  <2>4. CASE req'[r] = [req[r] EXCEPT !.pc = "recheck",
                          !.todo = @ \ {k}, !.fresh = @ \cup {k}]
    BY <1>1, <1>2, <2>4 DEF Fresh, Request
  <2> QED
    BY <2>1, <2>2, <2>3, <2>4
<1>6. CASE AfterHold(r)
  BY <1>1, <1>2, <1>6, AfterHoldMoves
<1>7. ~StopRead(r) /\ ~Mark(r)
  BY <1>2 DEF StopRead, Mark
<1> QED
  BY <1>1, <1>2, <1>3, <1>4, <1>5, <1>6, <1>7, SteadyChange DEF SteadyPCs

\* A Stop marks what it takes on.
LEMMA MarkingNew ==
  ASSUME TypeOK, [Next]_vars, NEW r \in Requests, NEW i \in Ids,
         Marking(r, i)', ~Marking(r, i)
  PROVE  Mark(r) /\ i \in req[r].todo /\ i \notin HeldNow
           /\ held'[i] = [gen |-> gen, by |-> r] /\ gen' = gen
<1>1. req[r] \in Request /\ req \in [Procs -> Request] /\ held \in [Ids -> MarkSet]
  BY DEF TypeOK
<1>2. req'[r].pc \in {"recheck", "resolve"} /\ i \in req'[r].todo
  BY DEF Marking
<1>3. req'[r] # req[r] /\ ~Restart
  BY <1>2, RestartFacts DEF Marking
<1>4. ~StopRead(r)
  BY <1>1, <1>2, StopReadMoves
<1>5. ~AfterHold(r)
  <2> SUFFICES ASSUME AfterHold(r) PROVE FALSE
    OBVIOUS
  <2>1. \/ req'[r] = Idle
        \/ req'[r] = [req[r] EXCEPT !.pc = "signal"]
        \/ req'[r] = [req[r] EXCEPT !.pc = "settleSoon"]
    BY <1>1, AfterHoldMoves
  <2>2. req'[r].pc \in {"idle", "signal", "settleSoon"}
    BY <1>1, <2>1 DEF Idle, Request
  <2> QED
    BY <1>2, <2>2
<1>6. ~Recheck(r)
  <2> SUFFICES ASSUME Recheck(r) PROVE FALSE
    OBVIOUS
  <2>1. PICK k \in Ids :
          \/ req'[r] = [req[r] EXCEPT !.todo = @ \ {k}, !.fresh = @ \cup {k}]
          \/ req'[r] = [req[r] EXCEPT !.pc = "resolve"]
    BY <1>1, RecheckMoves
  <2>2. req[r].pc = "recheck" /\ i \notin req[r].todo
    BY <1>1, RecheckMoves DEF Marking
  <2>3. req'[r].todo \subseteq req[r].todo
    <3>1. CASE req'[r] = [req[r] EXCEPT !.todo = @ \ {k}, !.fresh = @ \cup {k}]
      BY <1>1, <3>1 DEF Request
    <3>2. CASE req'[r] = [req[r] EXCEPT !.pc = "resolve"]
      BY <1>1, <3>2 DEF Request
    <3> QED
      BY <2>1, <3>1, <3>2
  <2> QED
    BY <1>2, <2>2, <2>3
<1>7. ~Resolve(r)
  <2> SUFFICES ASSUME Resolve(r) PROVE FALSE
    OBVIOUS
  <2>1. PICK k \in Ids :
          \/ req'[r] = [req[r] EXCEPT !.pc = "signal"]
          \/ req'[r] = [req[r] EXCEPT !.pc = "recheck", !.todo = @ \ {k}]
          \/ req'[r] = [req[r] EXCEPT !.pc = "recheck",
                          !.todo = @ \ {k}, !.fresh = @ \cup {k}]
    BY <1>1, ResolveMoves
  <2>2. req[r].pc = "resolve" /\ i \notin req[r].todo
    BY <1>1, ResolveMoves DEF Marking
  <2>3. req'[r].todo \subseteq req[r].todo
    <3>1. CASE req'[r] = [req[r] EXCEPT !.pc = "signal"]
      BY <1>1, <3>1 DEF Request
    <3>2. CASE req'[r] = [req[r] EXCEPT !.pc = "recheck", !.todo = @ \ {k}]
      BY <1>1, <3>2 DEF Request
    <3>3. CASE req'[r] = [req[r] EXCEPT !.pc = "recheck",
                            !.todo = @ \ {k}, !.fresh = @ \cup {k}]
      BY <1>1, <3>3 DEF Request
    <3> QED
      BY <2>1, <3>1, <3>2, <3>3
  <2> QED
    BY <1>2, <2>2, <2>3
<1>8. Mark(r)
  BY <1>1, <1>2, <1>3, <1>4, <1>5, <1>6, <1>7, SteadyChange DEF SteadyPCs
<1>9. req'[r] = [req[r] EXCEPT !.pc = "recheck", !.todo = @ \ HeldNow]
  BY <1>8, <1>1, MarkMoves
<1>10. i \in req[r].todo /\ i \notin HeldNow
  BY <1>1, <1>2, <1>9 DEF Request
<1> QED
  BY <1>1, <1>8, <1>10 DEF Mark, dbVars

(***************************************************************************)
(* The claim, the marks on a job in hand, and the wakeups.                 *)
(***************************************************************************)
\* In one file, a job that goes on waiting stays marked: its mark is written with its
\* row, and taken back only from a row that has left the queue.
LEMMA StillHeld ==
  ASSUME IInv, HandBegun, Taking, [Next]_vars, \A r \in Requests : ~SwapFiles(r),
         NEW i \in Ids, i \in HeldNow, rows[i].state = "queued", rows'[i].state = "queued"
  PROVE  i \in HeldNow'
<1>1. TypeOK /\ Control /\ rows \in [Ids -> Row]
  BY DEF IInv, TypeOK
<1>2. ~Settle
  BY <1>1 DEF Settle, SettledRows, Row
<1>3. ~(AfterClaim /\ i = hand.id)
  BY DEF AfterClaim, HandBegun, InHand, Taken, Begun
<1>4. \A r \in Requests : ~(Resolve(r) /\ FirstOf(req[r].todo, i))
  BY DEF Resolve, Taking, FirstOf, Begun
<1>5. ~Restart
  BY RestartFacts
<1> QED
  BY <1>1, <1>2, <1>3, <1>4, <1>5, MarkChange DEF MarkKept

LEMMA SeenKept == IInv /\ HandBegun /\ Marks /\ Taking /\ Seen /\ [Next]_vars => Seen'
<1> SUFFICES ASSUME IInv, HandBegun, Marks, Taking, Seen, [Next]_vars, wpc' = "claimUpdate",
                    NEW i \in heldSeen'
             PROVE  /\ rows'[i].state # "absent"
                    /\ rows'[i].state = "queued" => i \in HeldNow'
  BY DEF Seen
<1>1. TypeOK /\ Control /\ RunContinues
  BY DEF IInv, Control
<1>2. CASE ClaimRead
  <2>1. i \in HeldNow /\ rows' = rows /\ HeldNow' = HeldNow
    BY <1>2 DEF ClaimRead, HeldNow, dbVars, memVars
  <2> QED
    BY <2>1 DEF Marks, HeldNow
<1>3. CASE ~ClaimRead
  <2>1. ~ClaimStep /\ ~RunStep
    BY <1>1, <1>3, WorkerMoves
  <2>2. ~Restart
    BY RestartFacts
  <2>3. wpc = "claimUpdate" /\ i \in heldSeen
    BY <1>1, <2>1, <2>2, WorkerKept
  <2>4. \A r \in Requests : ~SwapFiles(r)
    BY <2>3, SwapFacts
  <2>5. i \in Ids /\ rows[i].state # "absent" /\ (rows[i].state = "queued" => i \in HeldNow)
    BY <1>1, <2>3 DEF Seen, TypeOK
  <2>6. rows'[i].state # "absent" /\ (rows'[i].state = "queued" => rows[i].state = "queued")
    BY <1>1, <2>4, <2>5, RowGoes
  <2> QED
    BY <2>4, <2>5, <2>6, StillHeld
<1> QED
  BY <1>2, <1>3

LEMMA RunMarksKept ==
  ASSUME IInv, HandBegun, Marks, Taking, RunMarks, [Next]_vars PROVE RunMarks'
<1> SUFFICES ASSUME NEW i \in HeldNow', wpc' \in HandPCs, hand'.id = i,
                    NEW r \in Requests, held'[i].by = r
             PROVE  Marking(r, i)'
  <2>1. Marks'
    BY MarksKept
  <2> QED
    BY <2>1 DEF RunMarks, Marking, Marks, HeldNow
<1>1. TypeOK /\ Control /\ RunContinues /\ i \in Ids /\ i # NoJob
  BY DEF IInv, Control, HeldNow, Ids
<1>2. wpc \in Taken /\ hand.id = i
  BY <1>1, HandChange DEF Taken, HandPCs
<1>3. Begun(i)
  BY <1>1, <1>2 DEF HandBegun, InHand
<1>4. ~Restart /\ \A q \in Requests : ~SwapFiles(q)
  BY <1>2, SwapFacts, RestartFacts DEF Taken, HandPCs
<1>5. ~MarkGone(i)
  BY DEF MarkGone
<1>6. ASSUME NEW q \in Requests, Mark(q), i \in req[q].todo, i \notin HeldNow,
             held'[i] = [gen |-> gen, by |-> q]
      PROVE  Marking(r, i)'
  <2>0. q = r
    BY <1>6
  <2>1. req'[r] = [req[r] EXCEPT !.pc = "recheck", !.todo = @ \ HeldNow]
    BY <1>1, <1>6, <2>0, MarkMoves DEF TypeOK
  <2> QED
    BY <1>1, <1>6, <2>0, <2>1 DEF Marking, TypeOK, Request
<1>7. CASE MarkKept(i)
  <2>1. i \in HeldNow /\ held'[i].by = held[i].by /\ held[i].by \in Requests
    BY <1>1, <1>7 DEF MarkKept, Marks
  <2>2. wpc \in HandPCs
    <3>1. CASE wpc = "claimed"
      <4>1. ClaimStep \/ RunStep
        BY <1>1, <1>4, <3>1, WorkerKept DEF HandPCs
      <4>2. AfterClaim
        BY <1>1, <3>1, <4>1, WorkerMoves DEF HandPCs
      <4>3. hand.gen = gen
        BY <1>1, <3>1 DEF Control, HandInGeneration
      <4>4. held' = [held EXCEPT ![i] = NoMark] /\ gen' = gen
        BY <1>2, <2>1, <4>2, <4>3 DEF AfterClaim, Unheld, HeldNow, dbVars
      <4> QED
        BY <1>1, <4>4 DEF HeldNow, TypeOK, NoMark
    <3> QED
      BY <1>2, <3>1 DEF Taken
  <2>3. held[i].by = r
    BY <2>1
  <2>4. Marking(r, i)
    BY <1>2, <2>1, <2>2, <2>3 DEF RunMarks
  <2>5. Marking(r, i)' \/ (Resolve(r) /\ held' = [held EXCEPT ![i] = NoMark] /\ i \in HeldNow)
                       \/ (Resolve(r) /\ held[i].by # r)
    BY <1>1, <1>3, <1>4, <2>1, <2>4, MarkingKept DEF Begun
  <2>6. ~(held' = [held EXCEPT ![i] = NoMark])
    <3>1. gen' = gen
      BY <1>4, GenChange
    <3> QED
      BY <1>1, <3>1 DEF HeldNow, TypeOK, NoMark
  <2> QED
    BY <2>3, <2>5, <2>6
<1> QED
  BY <1>1, <1>4, <1>5, <1>6, <1>7, MarkChange

\* What is said of the queue as a whole is unsaid by few steps.
LEMMA FlagsChange ==
  ASSUME TypeOK, [Next]_vars
  PROVE  /\ pending' = pending \/ pending' = TRUE \/ WorkerTop \/ Restart
         /\ kickDue' = kickDue \/ kickDue' = TRUE \/ wpc' = "top" \/ Restart
         /\ cpc' = cpc \/ cpc' # "open" \/ Restart
<1> USE DEF dbVars, memVars, closeVars, workerVars, histVars
<1>0. pending \in BOOLEAN /\ kickDue \in BOOLEAN
  BY DEF TypeOK
<1>1. ASSUME NEW b \in BOOLEAN, kickDue' = (kickDue \/ b)
      PROVE  kickDue' = kickDue \/ kickDue' = TRUE
  BY <1>0, <1>1, Zenon
<1>2. ASSUME NEW excl, Kick(excl)
      PROVE  /\ pending' = TRUE
             /\ kickDue' = kickDue \/ kickDue' = TRUE \/ wpc' = "top"
  <2>1. CASE wpc' = "top"
    BY <1>2, <2>1 DEF Kick
  <2>2. CASE wpc' # "top"
    <3>1. kickDue' = (kickDue \/ (~alive /\ retired))
      BY <1>2, <2>2, Zenon DEF Kick
    <3>2. (~alive /\ retired) \in BOOLEAN
      OBVIOUS
    <3> QED
      BY <1>1, <1>2, <3>1, <3>2, Zenon DEF Kick
  <2> QED
    BY <2>1, <2>2
<1>3. CASE ClaimStep
  <2>1. CASE AfterEmptyClaim
    <3>1. kickDue' = (kickDue \/ wpc = "claimFailed") /\ pending' = pending /\ cpc' = cpc
      BY <2>1 DEF AfterEmptyClaim
    <3>2. (wpc = "claimFailed") \in BOOLEAN
      OBVIOUS
    <3> QED
      BY <1>1, <3>1, <3>2, Zenon
  <2> QED
    BY <1>3, <2>1 DEF ClaimStep, WorkerTop, WorkerSettle, ClaimRead, ClaimUpdate, ClaimRetry,
       ClaimGivesUp, AfterClaim
<1>4. CASE RunStep
  BY <1>4 DEF RunStep, Execute, BeginItem, FinishItem, AbandonItem, Progress, RunTold,
     RunDone, RunFails, RecordEnd, RecordNothing, Release, ContinueStart
<1>5. ASSUME NEW p \in Procs, EnqueueStep(p)
      PROVE  /\ pending' = pending \/ pending' = TRUE
             /\ cpc' = cpc
             /\ kickDue' = kickDue \/ kickDue' = TRUE \/ wpc' = "top"
  BY <1>2, <1>5 DEF EnqueueStep, EnqueueCheck, InsertJob, InsertRefused, EnqueueDone
<1>6. ASSUME NEW r \in Requests, Start(r)
      PROVE  pending' = pending /\ cpc' = cpc /\ kickDue' = kickDue
  BY <1>6 DEF Start, EnqueueStart, RerunStart, StopStart, StopAllStart, DeleteStart,
     ExclusiveStart
<1>7. ASSUME NEW r \in Requests, StopStep(r) \/ DeleteStep(r)
      PROVE  /\ pending' = pending \/ pending' = TRUE
             /\ cpc' = cpc
             /\ kickDue' = kickDue \/ kickDue' = TRUE \/ wpc' = "top"
  BY <1>2, <1>7 DEF StopStep, StopStale, StopRead, Mark, Recheck, Resolve, AfterHold,
     Signal, SettleSoon, ReadRunning, StopHeld, StopDone, Orphan, OrphanFails, DeleteStep,
     DeleteLeave, DeleteIdle, DeleteAccount, DeleteRefused
<1>8. ASSUME NEW r \in Requests, ExclusiveStep(r)
      PROVE  /\ pending' = pending \/ pending' = TRUE
             /\ cpc' = cpc
             /\ kickDue' = kickDue \/ kickDue' = TRUE \/ wpc' = "top"
  BY <1>2, <1>8 DEF ExclusiveStep, ExclusiveEnter, RunFn, SwapBegin, SwapRefused, SwapFiles,
     ExclusiveEnd
<1>9. CASE CloseBegin \/ CloseStep
  BY <1>9 DEF CloseBegin, CloseStep, CloseIdle, CloseCancel, CloseAbandon,
     CloseAbandonWrite, CloseInserts, CloseSettle, CloseInterrupt
<1>10. CASE \/ \E u \in Uids : CreateAccount(u)
            \/ RetireLapses \/ LockTake \/ LockRelease \/ UNCHANGED vars
  BY <1>10 DEF CreateAccount, RetireLapses, LockTake, LockRelease, vars
<1> QED
  BY <1>3, <1>4, <1>5, <1>6, <1>7, <1>8, <1>9, <1>10, Groups

\* An insert is over when its press has kicked.
LEMMA InsertingChange ==
  ASSUME TypeOK, RunContinues, [Next]_vars, NEW p \in inserting, p \notin inserting'
  PROVE  EnqueueDone(p) \/ Restart
<1>1. req \in [Procs -> Request] /\ p \in Procs /\ req[p].pc \in InsertPCs
      /\ req'[p].pc \notin InsertPCs
  BY DEF TypeOK, inserting
<1>2. \A w \in Works : p = Run => ~ContinueStart(w)
  BY <1>1 DEF ContinueStart, RunContinues, InsertPCs
<1>3. CASE EnqueueStep(p)
  BY <1>1, <1>3 DEF EnqueueStep, EnqueueCheck, InsertJob, InsertRefused, Goto, InsertPCs,
     Request
<1>4. CASE p \in Requests /\ (Start(p) \/ StopStep(p) \/ DeleteStep(p) \/ ExclusiveStep(p))
  BY <1>1, <1>4, StartMoves, StopStays, DeleteMoves, ExclusiveMoves
     DEF Started, StopPCs, XPCs, InsertPCs
<1>5. req[p].pc # "waitClaim"
  BY <1>1 DEF InsertPCs
<1> QED
  BY <1>1, <1>2, <1>3, <1>4, <1>5, ReqChange

\* The last Exclusive kicks as it ends.
LEMMA ExclusiveChange ==
  ASSUME TypeOK, [Next]_vars, exclusive # {}, exclusive' = {}
  PROVE  Restart \/ \E r \in Requests : ExclusiveEnd(r) /\ exclusive = {r}
<1>1. req \in [Procs -> Request]
  BY DEF TypeOK
<1>2. PICK r \in Requests : req[r].pc \in XPCs
  BY DEF exclusive
<1>3. \A q \in Requests : req'[q].pc \notin XPCs
  BY DEF exclusive
<1>4. r \in Procs /\ r # Run /\ req'[r] # req[r] /\ req[r].pc # "waitClaim"
  BY <1>2, <1>3 DEF XPCs
<1>5. ~EnqueueStep(r)
  BY <1>1, <1>2, <1>4, EnqueueMoves DEF XPCs
<1>6. ~Start(r) /\ ~StopStep(r) /\ ~DeleteStep(r)
  BY <1>1, <1>2, StartMoves, StopStays, DeleteMoves DEF Started, StopPCs, XPCs
<1>7. ASSUME ExclusiveStep(r) PROVE ExclusiveEnd(r)
  <2>1. ~ExclusiveEnter(r)
    BY <1>2 DEF ExclusiveEnter, XPCs
  <2>2. ~RunFn(r) /\ ~SwapBegin(r) /\ ~SwapRefused(r) /\ ~SwapFiles(r)
    BY <1>1, <1>3 DEF RunFn, SwapBegin, SwapRefused, SwapFiles, Goto, XPCs, Request
  <2> QED
    BY <1>7, <2>1, <2>2 DEF ExclusiveStep
<1>8. ASSUME ExclusiveEnd(r) PROVE exclusive = {r}
  <2>1. \A q \in Requests \ {r} : req'[q] = req[q]
    BY <1>1, <1>8 DEF ExclusiveEnd, Finish
  <2> QED
    BY <1>2, <1>3, <2>1 DEF exclusive
<1> QED
  BY <1>1, <1>4, <1>5, <1>6, <1>7, <1>8, ReqChange

\* A press that has queued its job kicks: a worker is there to look again, or is not
\* wanted, or Retire has refused it one.
LEMMA KickFacts ==
  ASSUME TypeOK, NEW excl, Kick(excl), wpc' # "top", ~closed
  PROVE  /\ pending' = TRUE /\ wpc' = wpc
         /\ wpc # "none" \/ excl # {} \/ kickDue' = TRUE
<1>1. pending' = TRUE /\ wpc' = wpc /\ (alive \/ excl # {} \/ retired)
  BY DEF Kick
<1>2. kickDue' = (kickDue \/ (~alive /\ retired))
  BY Zenon DEF Kick
<1>3. ~alive /\ retired => kickDue' = TRUE
  BY <1>2, Zenon
<1> QED
  BY <1>1, <1>3 DEF alive

LEMMA WakeupKept ==
  ASSUME IInv, HandBegun, Taking, Seen, Wakeup, [Next]_vars PROVE Wakeup'
<1> SUFFICES ASSUME Nobody', ~closed', inserting' = {}, ~kickDue', NEW i \in Waiting'
             PROVE  i \in HeldNow'
  BY DEF Wakeup
<1>1. TypeOK /\ Control /\ RunContinues /\ i \in Ids
  BY DEF IInv, Control, Waiting
<1>2. ~Restart
  BY <1>1, RestartFacts DEF Waiting
<1>3. \/ wpc' = "none" /\ exclusive' = {}
      \/ wpc' = "claimed" /\ hand'.id = NoJob /\ ~pending'
  BY DEF Nobody, alive
<1>4. wpc' # "top" /\ wpc' # "between"
  BY <1>3
<1>5. \A r \in Requests : ~SwapFiles(r)
  BY <1>3, SwapFacts
<1>6. ~closed /\ ~kickDue
  BY <1>1, <1>2, <1>4, FlagsChange DEF closed, TypeOK
<1>7. exclusive' = {}
  BY <1>3, StepInv DEF IInv, Control, HandInGeneration
<1>8. exclusive = {}
  <2> SUFFICES ASSUME exclusive # {} PROVE FALSE
    OBVIOUS
  <2>1. PICK r \in Requests : ExclusiveEnd(r) /\ exclusive = {r}
    BY <1>1, <1>2, <1>7, ExclusiveChange
  <2>2. Kick({})
    BY <2>1 DEF ExclusiveEnd
  <2>3. pending' = TRUE /\ wpc' = wpc /\ wpc # "none"
    BY <1>1, <1>4, <1>6, <2>2, KickFacts
  <2>4. wpc \in {"none", "top"}
    BY <1>1 DEF Control, HandInGeneration
  <2> QED
    BY <1>4, <2>3, <2>4
<1>9. inserting = {}
  <2> SUFFICES ASSUME NEW p \in inserting PROVE FALSE
    OBVIOUS
  <2>1. EnqueueDone(p)
    BY <1>1, <1>2, InsertingChange
  <2>2. Kick(exclusive)
    BY <1>4, <2>1 DEF EnqueueDone
  <2> QED
    BY <1>1, <1>3, <1>4, <1>6, <1>8, <2>2, KickFacts
<1>10. i \in Waiting
  <2>1. \A p \in Procs : ~InsertJob(p)
    BY <1>9 DEF InsertJob, inserting, InsertPCs
  <2> QED
    BY <1>1, <1>5, <2>1, RowGoes DEF Waiting
<1>11. CASE Nobody
  <2>1. i \in HeldNow
    BY <1>6, <1>9, <1>10, <1>11 DEF Wakeup
  <2> QED
    BY <1>5, <1>10, <2>1, StillHeld DEF Waiting
<1>12. CASE ~Nobody
  <2>1. wpc # "none" /\ ~(wpc = "claimed" /\ hand.id = NoJob /\ ~pending)
    BY <1>8, <1>12 DEF Nobody, alive
  <2>2. ClaimStep \/ RunStep
    <3> SUFFICES ASSUME ~ClaimStep, ~RunStep PROVE FALSE
      OBVIOUS
    <3>1. wpc = "claimed" /\ hand.id = NoJob /\ wpc' = "claimed"
      BY <1>1, <1>2, <1>3, <1>4, <2>1, WorkerKept
    <3>2. ~WorkerTop
      BY <3>1 DEF WorkerTop
    <3> QED
      BY <1>1, <1>2, <1>3, <2>1, <3>1, <3>2, FlagsChange
  <2>3. ~WorkerTop
    BY <1>4, <1>6, <1>8, <1>3 DEF WorkerTop
  <2>4. ~AfterEmptyClaim
    <3> SUFFICES ASSUME AfterEmptyClaim PROVE FALSE
      OBVIOUS
    <3>1. wpc = "claimFailed"
      BY <2>1, <1>4 DEF AfterEmptyClaim
    <3>2. kickDue' = (kickDue \/ wpc = "claimFailed")
      BY DEF AfterEmptyClaim
    <3> QED
      BY <3>1, <3>2, Zenon
  <2>5. ClaimUpdate /\ hand'.id = NoJob
    BY <1>1, <1>3, <2>2, <2>3, <2>4, WorkerMoves
  <2>6. Claimable = {}
    <3> SUFFICES ASSUME Claimable # {} PROVE FALSE
      OBVIOUS
    <3>1. PICK k \in Claimable : hand' = [hand EXCEPT !.id = k, !.uid = rows[k].uid]
      BY <2>5 DEF ClaimUpdate
    <3>2. hand'.id = k
      BY <1>1, <3>1 DEF TypeOK, Hand
    <3> QED
      BY <2>5, <3>2 DEF Claimable, Ids
  <2>7. i \in HeldNow
    BY <1>1, <1>10, <2>5, <2>6 DEF Claimable, Waiting, Seen, ClaimUpdate
  <2> QED
    BY <1>5, <1>10, <2>7, StillHeld DEF Waiting
<1> QED
  BY <1>11, <1>12

(***************************************************************************)
(* The secrets.                                                            *)
(***************************************************************************)
\* A secret comes with the insert of its job, and only goes after that.
LEMMA SecretsChange ==
  ASSUME [Next]_vars
  PROVE  secrets' \subseteq secrets \/ \E p \in Procs : InsertJob(p)
<1> USE DEF dbVars, memVars, closeVars, workerVars, histVars, forget
<1>1. CASE ClaimStep
  BY <1>1 DEF ClaimStep, WorkerTop, WorkerSettle, ClaimRead, ClaimUpdate, ClaimRetry,
     ClaimGivesUp, AfterClaim, AfterEmptyClaim
<1>2. CASE RunStep
  BY <1>2 DEF RunStep, Execute, BeginItem, FinishItem, AbandonItem, Progress, RunTold,
     RunDone, RunFails, RecordEnd, RecordNothing, Release, ContinueStart
<1>3. ASSUME NEW p \in Procs, EnqueueStep(p) PROVE secrets' \subseteq secrets \/ InsertJob(p)
  BY <1>3 DEF EnqueueStep, EnqueueCheck, InsertRefused, EnqueueDone
<1>4. ASSUME NEW r \in Requests, Start(r) \/ DeleteStep(r) PROVE secrets' \subseteq secrets
  BY <1>4 DEF Start, EnqueueStart, RerunStart, StopStart, StopAllStart, DeleteStart,
     ExclusiveStart, DeleteStep, DeleteLeave, DeleteIdle, DeleteAccount, DeleteRefused
<1>5. ASSUME NEW r \in Requests, StopStep(r) PROVE secrets' \subseteq secrets
  BY <1>5 DEF StopStep, StopStale, StopRead, Mark, Recheck, Resolve, AfterHold, Signal,
     SettleSoon, ReadRunning, StopHeld, StopDone, Orphan, OrphanFails
<1>6. ASSUME NEW r \in Requests, ExclusiveStep(r) PROVE secrets' \subseteq secrets
  BY <1>6 DEF ExclusiveStep, ExclusiveEnter, RunFn, SwapBegin, SwapRefused, SwapFiles,
     ExclusiveEnd, forgetEnded
<1>7. ASSUME \/ CloseBegin \/ CloseStep
             \/ \E u \in Uids : CreateAccount(u)
             \/ RetireLapses \/ LockTake \/ LockRelease \/ UNCHANGED vars
      PROVE  secrets' \subseteq secrets
  BY <1>7 DEF CloseBegin, CloseStep, CloseIdle, CloseCancel, CloseAbandon,
     CloseAbandonWrite, CloseInserts, CloseSettle, CloseInterrupt, CreateAccount,
     RetireLapses, LockTake, LockRelease, vars
<1>8. CASE Restart
  BY <1>8 DEF Restart
<1> QED
  BY <1>1, <1>2, <1>3, <1>4, <1>5, <1>6, <1>7, <1>8, Groups

LEMMA SecretNew ==
  ASSUME TypeOK, [Next]_vars, NEW i \in secrets', i \notin secrets
  PROVE  rows[i].state = "absent" /\ rows'[i].state = "queued"
<1>1. PICK p \in Procs : InsertJob(p)
  BY SecretsChange
<1>2. PICK k \in Ids :
        /\ IsNext(k)
        /\ rows' = [rows EXCEPT ![k] = [NoRow EXCEPT !.state = "queued",
                      !.uid = req[p].uid, !.inc = req[p].inc, !.work = req[p].work]]
        /\ secrets' = secrets \cup {k}
  BY <1>1 DEF InsertJob
<1>3. k = i
  BY <1>2
<1>4. rows[k].state = "absent"
  BY <1>2 DEF IsNext, Ids
<1> QED
  BY <1>2, <1>3, <1>4 DEF TypeOK, NoRow

\* After the files have moved no mark is of this file.
LEMMA SwapUnmarks ==
  ASSUME IInv, Marks, NEW r \in Requests, SwapFiles(r) PROVE HeldNow' = {}
<1>1. held' = held /\ gen' \in Nat /\ gen' > gen
  BY SwapFacts
<1>3. gen \in Nat
  BY DEF IInv, TypeOK
<1>2. \A i \in Ids : held[i].gen \in Nat /\ held[i].gen <= gen
  BY DEF Marks, IInv, TypeOK, MarkSet
<1> QED
  BY <1>1, <1>2, <1>3 DEF HeldNow

\* A mark that a Stop takes back is gone.
LEMMA TakenBack ==
  ASSUME IInv, [Next]_vars, NEW r \in Requests, Resolve(r), NEW i \in Ids,
         held' = [held EXCEPT ![i] = NoMark]
  PROVE  i \notin HeldNow'
<1>1. gen' = gen /\ gen # 0 /\ held \in [Ids -> MarkSet]
  BY DEF Resolve, dbVars, IInv, TypeOK
<1> QED
  BY <1>1 DEF HeldNow, NoMark

LEMMA SecretHeldKept ==
  ASSUME IInv, HandBegun, Marks, Taking, SecretHeld, [Next]_vars PROVE SecretHeld'
<1> SUFFICES ASSUME NEW i \in secrets', i \in HeldNow', i \in Waiting',
                    NEW q \in Requests, held'[i].by = q
             PROVE  Marking(q, i)' \/ \E r \in Requests : Fresh(r, i)'
  <2>1. Marks'
    BY MarksKept
  <2> QED
    BY <2>1 DEF SecretHeld, Marking, Fresh, Marks, HeldNow
<1>1. TypeOK /\ Control /\ i \in Ids /\ rows'[i].state = "queued"
  BY DEF IInv, Waiting
<1>2. ~Restart /\ \A r \in Requests : ~SwapFiles(r)
  BY RestartFacts, SwapUnmarks
<1>3. ~MarkGone(i)
  BY DEF MarkGone
<1>4. ASSUME NEW r \in Requests, Mark(r), i \in req[r].todo, i \notin HeldNow,
             held'[i] = [gen |-> gen, by |-> r]
      PROVE  Marking(q, i)'
  <2>1. q = r
    BY <1>4
  <2>2. req'[q] = [req[q] EXCEPT !.pc = "recheck", !.todo = @ \ HeldNow]
    BY <1>1, <1>4, <2>1, MarkMoves DEF TypeOK
  <2> QED
    BY <1>1, <1>4, <2>1, <2>2 DEF Marking, TypeOK, Request
<1>5. CASE MarkKept(i)
  <2>1. i \in HeldNow /\ held[i].by = q
    BY <1>5 DEF MarkKept
  <2>2. rows[i].state # "absent"
    BY <1>1, <2>1 DEF Marks
  <2>3. i \in secrets
    BY <1>1, <2>2, SecretNew
  <2>4. i \in Waiting
    BY <1>1, <1>2, <2>2, RowGoes DEF Waiting
  <2>5. Marking(q, i) \/ \E r \in Requests : Fresh(r, i)
    BY <2>1, <2>3, <2>4 DEF SecretHeld
  <2>6. ASSUME NEW r \in Requests, Fresh(r, i) PROVE Fresh(r, i)'
    BY <1>1, <1>2, <2>6, FreshKept
  <2>7. ASSUME Marking(q, i) PROVE Marking(q, i)' \/ Fresh(q, i)'
    BY <1>1, <1>2, <2>1, <2>7, MarkingKept, TakenBack
  <2> QED
    BY <2>5, <2>6, <2>7
<1> QED
  BY <1>1, <1>2, <1>3, <1>4, <1>5, MarkChange

\* The secret of a job that ends goes with it, or is the business of a Stop that is
\* still in its Steady read.
LEMMA EndsForgotten ==
  ASSUME IInv, HandBegun, Marks, Taking, SecretHeld, [Next]_vars, ~closed, ~Restart,
         \A r \in Requests : ~SwapFiles(r),
         NEW i \in secrets, i \in secrets', rows[i].state \in Live,
         rows'[i].state \notin Live
  PROVE  Forgets(i)'
<1>1. TypeOK /\ Control /\ i \in Ids /\ rows[i] \in Row
  BY DEF IInv, TypeOK
<1>2. Settle /\ i \in HeldNow /\ rows[i].state = "queued"
  <2>1. rows'[i].state # rows[i].state
    OBVIOUS
  <2>2. \A st : Becomes(i, st) => rows'[i].state = st
    BY <1>1 DEF Becomes, Row
  <2>3. ~(RecordEnd /\ i = hand.id)
    BY DEF RecordEnd, forget
  <2>4. \A u : rows'[i] # [rows[i] EXCEPT !.uid = u]
    BY <1>1, <2>1 DEF Row
  <2>5. ~CloseAbandonWrite /\ ~CloseInterrupt
    BY DEF CloseAbandonWrite, CloseInterrupt, closed
  <2>6. i \notin secrets \ {i}
    OBVIOUS
  <2> QED
    BY <1>1, <2>1, <2>2, <2>3, <2>4, <2>5, <2>6, RowChange DEF Live
<1>3. i \notin HeldNow'
  <2>1. gen' = gen /\ gen # 0
    BY <1>1, GenChange DEF TypeOK
  <2>2. held'[i] = NoMark
    BY <1>1, <1>2 DEF Settle, SettledHeld
  <2> QED
    BY <2>1, <2>2 DEF HeldNow, NoMark
<1>4. i \in Waiting
  BY <1>1, <1>2 DEF Waiting
<1>5. Marking(held[i].by, i) \/ \E r \in Requests : Fresh(r, i)
  BY <1>2, <1>4 DEF SecretHeld
<1>6. ASSUME NEW r \in Requests, Fresh(r, i) PROVE Fresh(r, i)'
  BY <1>1, <1>6, FreshKept
<1>7. ASSUME NEW r \in Requests, Marking(r, i) PROVE Marking(r, i)' \/ Fresh(r, i)'
  <2>1. ~(Resolve(r) /\ FirstOf(req[r].todo, i))
    BY <1>2 DEF Resolve, Taking, FirstOf, Begun
  <2> QED
    BY <1>1, <1>7, <2>1, MarkingKept
<1>8. held[i].by \in Requests
  BY <1>1, <1>2 DEF Marks
<1> QED
  BY <1>3, <1>5, <1>6, <1>7, <1>8 DEF Forgets, Fresh, Marking

\* Of a job that has ended already: whoever was about to forget its secret still is, or
\* has handed that to another Stop, or has forgotten it.
LEMMA ForgetsKept ==
  ASSUME IInv, Marks, Taking, [Next]_vars, ~Restart, \A r \in Requests : ~SwapFiles(r),
         NEW i \in Ids, i \in secrets', Forgets(i)
  PROVE  Forgets(i)'
<1>1. TypeOK /\ Control
  BY DEF IInv
<1>2. ASSUME NEW r \in Requests, Fresh(r, i) PROVE Fresh(r, i)'
  BY <1>1, <1>2, FreshKept
<1>3. ASSUME NEW r \in Requests, Marking(r, i)
      PROVE  \/ Marking(r, i)' \/ Fresh(r, i)'
             \/ Resolve(r) /\ i \in HeldNow /\ i \notin HeldNow'
  BY <1>1, <1>3, MarkingKept, TakenBack
<1>4. ASSUME NEW r \in Requests, Fresh(r, i)' PROVE Forgets(i)'
  BY <1>4 DEF Forgets
<1>5. ASSUME NEW r \in Requests, Marking(r, i)', i \notin HeldNow' PROVE Forgets(i)'
  BY <1>5 DEF Forgets
<1>6. ASSUME NEW r \in Requests, NEW q \in Requests, q # r, Resolve(q), Marking(r, i)
      PROVE  Marking(r, i)'
  <2>1. req'[r] = req[r]
    BY <1>1, <1>6 DEF Resolve, TypeOK
  <2> QED
    BY <1>6, <2>1 DEF Marking
<1>7. CASE \E r \in Requests : Fresh(r, i)
  BY <1>2, <1>4, <1>7
<1>8. ASSUME i \notin HeldNow, NEW r \in Requests, Marking(r, i) PROVE Forgets(i)'
  <2>1. Marking(r, i)' \/ Fresh(r, i)'
    BY <1>3, <1>8
  <2>2. CASE i \notin HeldNow'
    BY <1>4, <1>5, <2>1, <2>2
  <2>3. CASE i \in HeldNow' /\ Marking(r, i)'
    <3>1. PICK q \in Requests : Mark(q) /\ i \in req[q].todo
                                  /\ held'[i] = [gen |-> gen, by |-> q]
      BY <1>1, <1>8, <2>3, MarkChange DEF MarkKept, MarkGone
    <3>2. q # r
      BY <1>8, <3>1 DEF Mark, Marking
    <3>3. req'[q] = [req[q] EXCEPT !.pc = "recheck", !.todo = @ \ HeldNow]
      BY <1>1, <3>1, MarkMoves DEF TypeOK
    <3>4. Marking(q, i)'
      BY <1>1, <1>8, <3>1, <3>3 DEF Marking, TypeOK, Request
    <3>5. held'[i].by = q
      BY <3>1
    <3> QED
      BY <2>3, <3>2, <3>4, <3>5 DEF Forgets, Marking
  <2> QED
    BY <1>4, <2>1, <2>2, <2>3
<1>9. ASSUME i \in HeldNow, NEW q \in Requests, held[i].by = q, Marking(q, i),
             NEW r \in Requests, r # q, Marking(r, i)
      PROVE  Forgets(i)'
  <2>1. CASE i \notin HeldNow'
    <3>1. Marking(q, i)' \/ Fresh(q, i)' \/ Resolve(q)
      BY <1>3, <1>9
    <3>2. Resolve(q) => Marking(r, i)'
      BY <1>6, <1>9
    <3> QED
      BY <1>4, <1>5, <2>1, <3>1, <3>2
  <2>2. CASE i \in HeldNow'
    <3>1. (Marking(q, i)' \/ Fresh(q, i)') /\ (Marking(r, i)' \/ Fresh(r, i)')
      BY <1>3, <1>9, <2>2
    <3>2. held'[i].by = q
      BY <1>1, <1>9, <2>2, MarkChange DEF MarkKept, MarkGone
    <3>3. Marking(q, i)' /\ Marking(r, i)' => Forgets(i)'
      BY <1>9, <2>2, <3>2 DEF Forgets, Marking
    <3> QED
      BY <1>4, <3>1, <3>3
  <2> QED
    BY <2>1, <2>2
<1>10. i \in HeldNow => held[i].by \in Requests
  BY DEF Marks
<1> QED
  BY <1>7, <1>8, <1>9, <1>10 DEF Forgets

LEMMA SecretKeptKept ==
  ASSUME IInv, HandBegun, Marks, Taking, SecretHeld, SecretKept, [Next]_vars
  PROVE  SecretKept'
<1> SUFFICES ASSUME ~closed', exclusive' = {}, NEW i \in secrets', rows'[i].state \notin Live
             PROVE  Forgets(i)'
  BY DEF SecretKept
<1>1. TypeOK /\ Control
  BY DEF IInv
<1>2. ~Restart
  BY RestartFacts
<1>3. \A r \in Requests : ~SwapFiles(r)
  BY SwapFacts
<1>4. ~closed
  BY <1>1, <1>2, FlagsChange DEF closed
<1>5. i \in secrets
  BY <1>1, SecretNew DEF Live
<1>6. exclusive = {}
  <2> SUFFICES ASSUME exclusive # {} PROVE FALSE
    OBVIOUS
  <2>1. PICK r \in Requests : ExclusiveEnd(r)
    BY <1>1, <1>2, ExclusiveChange
  <2> QED
    BY <2>1 DEF ExclusiveEnd, forgetEnded, dbVars
<1>7. CASE rows[i].state \in Live
  BY <1>2, <1>3, <1>4, <1>5, <1>7, EndsForgotten
<1>8. CASE rows[i].state \notin Live
  <2>1. Forgets(i)
    BY <1>4, <1>5, <1>6, <1>8 DEF SecretKept
  <2>2. i \in Ids
    BY <1>1, <1>5 DEF TypeOK
  <2> QED
    BY <1>2, <1>3, <2>1, <2>2, ForgetsKept
<1> QED
  BY <1>7, <1>8

(***************************************************************************)
(* The owners.                                                             *)
(***************************************************************************)
LEMMA AccountsChange ==
  ASSUME [Next]_vars
  PROVE  \/ accounts' = accounts
         \/ \E r \in Requests : DeleteAccount(r) \/ SwapFiles(r)
         \/ \E u \in Uids : CreateAccount(u)
<1> USE DEF dbVars, memVars, closeVars, workerVars, histVars
<1>1. CASE ClaimStep \/ RunStep
  BY <1>1 DEF ClaimStep, WorkerTop, WorkerSettle, ClaimRead, ClaimUpdate, ClaimRetry,
     ClaimGivesUp, AfterClaim, AfterEmptyClaim, RunStep, Execute, BeginItem, FinishItem,
     AbandonItem, Progress, RunTold, RunDone, RunFails, RecordEnd, RecordNothing, Release,
     ContinueStart
<1>2. ASSUME NEW p \in Procs, EnqueueStep(p) PROVE accounts' = accounts
  BY <1>2 DEF EnqueueStep, EnqueueCheck, InsertJob, InsertRefused, EnqueueDone
<1>3. ASSUME NEW r \in Requests, Start(r) \/ StopStep(r) PROVE accounts' = accounts
  BY <1>3 DEF Start, EnqueueStart, RerunStart, StopStart, StopAllStart, DeleteStart,
     ExclusiveStart, StopStep, StopStale, StopRead, Mark, Recheck, Resolve, AfterHold,
     Signal, SettleSoon, ReadRunning, StopHeld, StopDone, Orphan, OrphanFails
<1>4. ASSUME NEW r \in Requests, DeleteStep(r)
      PROVE  accounts' = accounts \/ DeleteAccount(r)
  BY <1>4 DEF DeleteStep, DeleteLeave, DeleteIdle, DeleteRefused
<1>5. ASSUME NEW r \in Requests, ExclusiveStep(r) PROVE accounts' = accounts \/ SwapFiles(r)
  BY <1>5 DEF ExclusiveStep, ExclusiveEnter, RunFn, SwapBegin, SwapRefused, ExclusiveEnd
<1>6. ASSUME CloseBegin \/ CloseStep \/ Restart PROVE accounts' = accounts
  BY <1>6 DEF CloseBegin, CloseStep, CloseIdle, CloseCancel, CloseAbandon,
     CloseAbandonWrite, CloseInserts, CloseSettle, CloseInterrupt, Restart
<1>7. ASSUME RetireLapses \/ LockTake \/ LockRelease \/ UNCHANGED vars
      PROVE  accounts' = accounts
  BY <1>7 DEF RetireLapses, LockTake, LockRelease, vars
<1> QED
  BY <1>1, <1>2, <1>3, <1>4, <1>5, <1>6, <1>7, Groups

\* In one file a row's owner is written once, and only ever cleared after that.
LEMMA RowOwner ==
  ASSUME TypeOK, [Next]_vars, \A r \in Requests : ~SwapFiles(r), NEW i \in Ids
  PROVE  \/ rows'[i].uid = rows[i].uid /\ rows'[i].inc = rows[i].inc
         \/ \E r \in Requests : DeleteAccount(r) /\ rows[i].uid = req[r].uid
              /\ rows'[i].uid = NoUid /\ rows'[i].inc = rows[i].inc
         \/ \E p \in Procs : InsertJob(p) /\ rows[i].state = "absent"
              /\ rows'[i].uid = req[p].uid /\ rows'[i].inc = req[p].inc
              /\ rows'[i].state = "queued"
<1>1. rows[i] \in Row
  BY DEF TypeOK
<1>2. \A st : Becomes(i, st) => rows'[i].uid = rows[i].uid /\ rows'[i].inc = rows[i].inc
  BY <1>1 DEF Becomes, Row
<1>3. rows'[i] = [rows[i] EXCEPT !.uid = NoUid]
        => rows'[i].uid = NoUid /\ rows'[i].inc = rows[i].inc
  BY <1>1 DEF Row
<1>4. ASSUME NEW p \in Procs, rows'[i] = [NoRow EXCEPT !.state = "queued",
               !.uid = req[p].uid, !.inc = req[p].inc, !.work = req[p].work]
      PROVE  /\ rows'[i].uid = req[p].uid /\ rows'[i].inc = req[p].inc
             /\ rows'[i].state = "queued"
  BY <1>4 DEF NoRow
<1> QED
  BY <1>2, <1>3, <1>4, RowChange

\* A delete clears the owner of the account's rows and takes the account; a sign-up
\* takes an id nobody has.
LEMMA DeletesAll ==
  ASSUME TypeOK, NEW r \in Requests, DeleteAccount(r)
  PROVE  /\ req[r].pc = "deleteTx"
         /\ \A u \in Uids : u # req[r].uid => accounts'[u] = accounts[u]
         /\ \A i \in Ids : rows'[i].uid # req[r].uid \/ rows'[i].uid = NoUid
BY DEF DeleteAccount, TypeOK, Row

LEMMA CreatesOne ==
  ASSUME TypeOK, NEW u \in Uids, CreateAccount(u)
  PROVE  /\ accounts[u] = 0 /\ rows' = rows
         /\ \A v \in Uids : v # u => accounts'[v] = accounts[v]
BY DEF CreateAccount, TypeOK

\* What each swap leaves of a row.
LEMMA SwapRows ==
  ASSUME TypeOK, NEW r \in Requests, SwapFiles(r), NEW i \in Ids
  PROVE  \/ rows'[i] = rows[i] /\ accounts' = accounts /\ rows' = rows
         \/ rows'[i] = NoRow
         \/ rows[i].state = "absent" /\ rows'[i] = rows[i]
         \/ /\ rows[i].state # "absent" /\ rows'[i].state \notin Live \cup {"absent"}
            /\ rows'[i].inc = rows[i].inc
            /\ \/ rows'[i].uid = NoUid
               \/ /\ rows'[i].uid = rows[i].uid
                  /\ rows[i].uid \in Uids => accounts'[rows[i].uid] = rows[i].inc
<1>1. rows[i] \in Row
  BY DEF TypeOK
<1>2. CASE rows' = Carried(accounts')
  <2>1. CASE rows[i].state = "absent"
    BY <1>2, <2>1 DEF Carried
  <2>2. CASE rows[i].state # "absent"
    <3>1. rows'[i] = [rows[i] EXCEPT
                        !.state   = IF @ \in Live THEN "interrupted" ELSE @,
                        !.uid     = IF @ \in Uids /\ accounts'[@] = rows[i].inc
                                    THEN @ ELSE NoUid,
                        !.carried = TRUE]
      BY <1>2, <2>2 DEF Carried
    <3>2. /\ rows'[i].state = IF rows[i].state \in Live THEN "interrupted" ELSE rows[i].state
          /\ rows'[i].inc = rows[i].inc
          /\ rows'[i].uid = IF rows[i].uid \in Uids /\ accounts'[rows[i].uid] = rows[i].inc
                            THEN rows[i].uid ELSE NoUid
      BY <1>1, <3>1 DEF Row
    <3>3. rows'[i].state \notin Live \cup {"absent"}
      BY <2>2, <3>2 DEF Live
    <3> QED
      BY <2>2, <3>2, <3>3
  <2> QED
    BY <2>1, <2>2
<1> QED
  BY <1>2 DEF SwapFiles

LEMMA OwnersKept ==
  ASSUME IInv, Owners, Asking, [Next]_vars PROVE Owners'
<1> SUFFICES ASSUME NEW i \in Ids
             PROVE  /\ rows'[i].uid \in Uids => /\ accounts'[rows'[i].uid] = rows'[i].inc
                                                /\ rows'[i].inc # 0
                    /\ rows'[i].state = "absent" => rows'[i].uid = NoUid
  BY DEF Owners
<1>1. TypeOK /\ rows[i] \in Row
  BY DEF IInv, TypeOK
<1>2. /\ rows[i].uid \in Uids => accounts[rows[i].uid] = rows[i].inc /\ rows[i].inc # 0
      /\ rows[i].state = "absent" => rows[i].uid = NoUid
  BY DEF Owners
<1>3. NoRow.uid = NoUid
  BY DEF NoRow
<1>4. ASSUME NEW r \in Requests, SwapFiles(r)
      PROVE  /\ rows'[i].uid \in Uids => /\ accounts'[rows'[i].uid] = rows'[i].inc
                                         /\ rows'[i].inc # 0
             /\ rows'[i].state = "absent" => rows'[i].uid = NoUid
  BY <1>1, <1>2, <1>3, <1>4, SwapRows
<1>5. ASSUME \A r \in Requests : ~SwapFiles(r)
      PROVE  /\ rows'[i].uid \in Uids => /\ accounts'[rows'[i].uid] = rows'[i].inc
                                         /\ rows'[i].inc # 0
             /\ rows'[i].state = "absent" => rows'[i].uid = NoUid
  <2>1. rows'[i].state = "absent" => rows[i].state = "absent"
    BY <1>1, <1>5, RowGoes
  <2>2. ASSUME rows'[i].uid = rows[i].uid, rows'[i].inc = rows[i].inc, rows[i].uid \in Uids
        PROVE  accounts'[rows[i].uid] = rows[i].inc
    <3>1. ASSUME NEW r \in Requests, DeleteAccount(r) PROVE rows[i].uid # req[r].uid
      BY <1>1, <2>2, <3>1, DeletesAll
    <3>2. ASSUME NEW r \in Requests, DeleteAccount(r)
          PROVE  accounts'[rows[i].uid] = accounts[rows[i].uid]
      BY <1>1, <2>2, <3>1, <3>2, DeletesAll
    <3>3. ASSUME NEW u \in Uids, CreateAccount(u)
          PROVE  accounts'[rows[i].uid] = accounts[rows[i].uid]
      BY <1>1, <1>2, <2>2, <3>3, CreatesOne
    <3> QED
      BY <1>2, <1>5, <2>2, <3>2, <3>3, AccountsChange
  <2>3. ASSUME NEW p \in Procs, InsertJob(p), rows'[i].uid = req[p].uid,
               rows'[i].inc = req[p].inc
        PROVE  accounts'[rows'[i].uid] = rows'[i].inc /\ rows'[i].inc # 0
    BY <2>3 DEF InsertJob, Asking
  <2> QED
    BY <1>1, <1>2, <1>5, <2>1, <2>2, <2>3, RowOwner
<1> QED
  BY <1>4, <1>5

\* Where a press comes from that is about to insert, and the delete of an account.
LEMMA AskingKept ==
  ASSUME IInv, Owners, Asking, RunsAs, [Next]_vars PROVE Asking'
<1> SUFFICES ASSUME NEW p \in Procs
    PROVE  /\ req'[p].pc \in {"enqCheck", "insert"} => req'[p].uid \in Uids /\ req'[p].inc # 0
           /\ req'[p].op = "delete" => req'[p].uid \in Uids
           /\ req'[p].pc \in {"leave", "waitIdle", "deleteTx"} => req'[p].op = "delete"
  BY DEF Asking
<1> DEFINE Asks(x) == /\ x.pc \in {"enqCheck", "insert"} => x.uid \in Uids /\ x.inc # 0
                      /\ x.op = "delete" => x.uid \in Uids
                      /\ x.pc \in {"leave", "waitIdle", "deleteTx"} => x.op = "delete"
<1>1. /\ TypeOK /\ req[p] \in Request /\ req \in [Procs -> Request] /\ hand \in Hand
      /\ accounts \in [Uids -> Incs] /\ rows \in [Ids -> Row] /\ HandHasJob
  BY DEF IInv, TypeOK, Control
<1>2. Asks(req[p])
  BY DEF Asking
<1>3. Asks(Idle)
  BY DEF Idle
<1>4. CASE EnqueueStep(p)
  <2>1. /\ req[p].pc \in {"enqCheck", "insert", "inserted"}
        /\ \/ req'[p] = Idle
           \/ req'[p] = [req[p] EXCEPT !.pc = "insert"]
           \/ req'[p] = [req[p] EXCEPT !.pc = "inserted"]
    BY <1>1, <1>4, EnqueueMoves
  <2>2. CASE req'[p] = [req[p] EXCEPT !.pc = "inserted"]
    BY <1>1, <1>2, <2>2 DEF Request
  <2>3. CASE req'[p] = [req[p] EXCEPT !.pc = "insert"]
    <3>1. req[p].pc \in {"enqCheck", "insert"} \/ req[p].pc = "inserted"
      BY <2>1
    <3>2. CASE req[p].pc \in {"enqCheck", "insert"}
      BY <1>1, <1>2, <2>3, <3>2 DEF Request
    <3>3. CASE req[p].pc = "inserted"
      BY <1>1, <1>3, <1>4, <2>3, <3>3 DEF EnqueueStep, EnqueueCheck, InsertJob,
         InsertRefused, EnqueueDone, Finish, Request, Idle
    <3> QED
      BY <3>1, <3>2, <3>3
  <2> QED
    BY <1>3, <2>1, <2>2, <2>3
<1>5. ASSUME NEW w \in Works, ContinueStart(w), p = Run PROVE Asks(req'[p])
  <2>1. wpc = "between"
    BY <1>5 DEF ContinueStart
  <2>2. hand.uid \in Uids /\ hand.id # NoJob
    BY <1>1, <2>1 DEF RunsAs, RunPCs, HandPCs, HandHasJob
  <2>3. rows[hand.id].inc # 0
    BY <2>1, <2>2 DEF RunsAs, HandsOwner, Taken, HandPCs
  <2>4. req'[p] = [Idle EXCEPT !.pc = "enqCheck", !.op = "enqueue", !.gen = hand.gen,
                     !.uid = hand.uid, !.inc = rows[hand.id].inc, !.work = w]
    BY <1>1, <1>5 DEF ContinueStart
  <2>5. /\ req'[p].pc = "enqCheck" /\ req'[p].op = "enqueue"
        /\ req'[p].uid = hand.uid /\ req'[p].inc = rows[hand.id].inc
    BY <2>4 DEF Idle
  <2> QED
    BY <2>2, <2>3, <2>5
<1>6. ASSUME p \in Requests, Start(p) PROVE Asks(req'[p])
  <2>1. ASSUME NEW u \in Uids, NEW w \in Works, EnqueueStart(p, u, w) PROVE Asks(req'[p])
    BY <1>1, <2>1 DEF EnqueueStart, Idle
  <2>2. ASSUME NEW i \in Ids, RerunStart(p, i) PROVE Asks(req'[p])
    <3>1. rows[i].uid \in Uids /\ accounts[rows[i].uid] # 0
      BY <2>2 DEF RerunStart, Owners
    <3>2. req'[p] = [Idle EXCEPT !.pc = "enqCheck", !.op = "enqueue", !.gen = gen,
                       !.uid = rows[i].uid, !.inc = accounts[rows[i].uid],
                       !.work = rows[i].work]
      BY <1>1, <2>2 DEF RerunStart
    <3>3. /\ req'[p].pc = "enqCheck" /\ req'[p].op = "enqueue"
          /\ req'[p].uid = rows[i].uid /\ req'[p].inc = accounts[rows[i].uid]
      BY <3>2 DEF Idle
    <3> QED
      BY <3>1, <3>3
  <2>3. ASSUME NEW u \in Uids, NEW i \in Ids, StopStart(p, u, i) PROVE Asks(req'[p])
    BY <1>1, <2>3 DEF StopStart, Idle
  <2>4. ASSUME NEW u \in Uids, StopAllStart(p, u) PROVE Asks(req'[p])
    BY <1>1, <2>4 DEF StopAllStart, Idle
  <2>6. ASSUME NEW u \in Uids, DeleteStart(p, u) PROVE Asks(req'[p])
    BY <1>1, <2>6 DEF DeleteStart, Idle
  <2>5. ASSUME NEW k \in SwapKinds, ExclusiveStart(p, k) PROVE Asks(req'[p])
    BY <1>1, <2>5 DEF ExclusiveStart, Idle
  <2> HIDE DEF Asks
  <2> QED
    BY <1>6, <2>1, <2>2, <2>3, <2>4, <2>5, <2>6 DEF Start
<1>7. ASSUME p \in Requests, StopStep(p) PROVE Asks(req'[p])
  <2>1. req'[p].pc \in (StopPCs \ {"stopRead"}) \cup {"idle", "waitIdle"}
    BY <1>1, <1>7, StopStays
  <2>2. req'[p].op \in {req[p].op, "none"} /\ (req'[p].op # "none" => req'[p].uid = req[p].uid)
    BY <1>1, <1>7, StopStays
  <2>3. req'[p].pc = "waitIdle" => req[p].op = "delete"
    BY <1>1, <1>7, StopStays
  <2>4. req'[p].op = "none" => req'[p] = Idle \/ req[p].op = "none"
    BY <1>1, <1>7, StopStays
  <2>5. req'[p].pc \notin {"enqCheck", "insert", "leave", "deleteTx"}
    BY <2>1 DEF StopPCs
  <2>6. CASE req'[p] = Idle
    BY <1>3, <2>6
  <2>7. CASE req'[p] # Idle
    BY <1>2, <2>2, <2>3, <2>4, <2>5, <2>7
  <2> QED
    BY <2>6, <2>7
<1>8. ASSUME p \in Requests, DeleteStep(p) PROVE Asks(req'[p])
  <2>1. \/ req'[p] = Idle
        \/ req[p].pc = "leave" /\ req'[p] = [req[p] EXCEPT !.pc = "stopRead"]
        \/ req[p].pc = "waitIdle" /\ req'[p] = [req[p] EXCEPT !.pc = "deleteTx"]
    BY <1>1, <1>8, DeleteMoves
  <2>2. CASE req[p].pc = "leave" /\ req'[p] = [req[p] EXCEPT !.pc = "stopRead"]
    BY <1>1, <1>2, <2>2 DEF Request
  <2>3. CASE req[p].pc = "waitIdle" /\ req'[p] = [req[p] EXCEPT !.pc = "deleteTx"]
    BY <1>1, <1>2, <2>3 DEF Request
  <2> QED
    BY <1>3, <2>1, <2>2, <2>3
<1>9. ASSUME p \in Requests, ExclusiveStep(p) PROVE Asks(req'[p])
  <2>1. req'[p] = Idle \/ \E l \in XPCs : req'[p] = [req[p] EXCEPT !.pc = l]
    BY <1>1, <1>9, ExclusiveMoves
  <2>2. ASSUME NEW l \in XPCs, req'[p] = [req[p] EXCEPT !.pc = l] PROVE Asks(req'[p])
    <3>1. req'[p].pc = l /\ req'[p].op = req[p].op /\ req'[p].uid = req[p].uid
      BY <1>1, <2>2 DEF Request
    <3> QED
      BY <1>2, <2>2, <3>1 DEF XPCs
  <2> QED
    BY <1>3, <2>1, <2>2
<1>10. ASSUME req[p].pc = "waitClaim", req'[p] = [req[p] EXCEPT !.pc = "stopHeld"]
       PROVE  Asks(req'[p])
  BY <1>1, <1>2, <1>10 DEF Request
<1>11. Restart => Asks(req'[p])
  BY <1>3, RestartFacts
<1>12. Asks(req'[p])
  <2>1. CASE req'[p] = req[p]
    BY <1>2, <2>1
  <2>2. EnqueueStep(p) => Asks(req'[p])
    BY <1>4
  <2> HIDE DEF Asks
  <2> QED
    BY <1>1, <2>1, <2>2, <1>5, <1>6, <1>7, <1>8, <1>9, <1>10, <1>11, ReqChange
<1> QED
  BY <1>12

\* The job in hand is its owner's: of the accounts only one that is not the owner's is
\* deleted, and an id somebody has is not given out.
LEMMA RunsAsKept ==
  ASSUME IInv, HandBegun, Owners, RunsAs, Deletes, Asking, [Next]_vars PROVE RunsAs'
<1>1. TypeOK /\ Control /\ RunContinues /\ HandHasJob' /\ hand \in Hand /\ rows \in [Ids -> Row]
  BY StepInv DEF IInv, Control, TypeOK
<1>2. ASSUME wpc' \in Taken, hand'.id # NoJob PROVE \A r \in Requests : ~SwapFiles(r)
  BY <1>2, SwapFacts DEF Taken, HandPCs
<1>3. ASSUME wpc' \in Taken, hand'.id # NoJob, hand'.uid \in Uids PROVE HandsOwner'
  <2>1. CASE wpc \in Taken /\ hand'.id = hand.id /\ hand'.uid = hand.uid
    <3>1. hand.id \in Ids /\ Begun(hand.id) /\ HandsOwner
      BY <1>1, <1>3, <2>1 DEF Hand, RunsAs, HandBegun, InHand
    <3>2. rows'[hand.id].inc = rows[hand.id].inc
      BY <1>1, <1>2, <1>3, <3>1, RowOwner DEF Begun
    <3>3. ASSUME NEW r \in Requests, DeleteAccount(r)
          PROVE  accounts'[hand.uid] = accounts[hand.uid]
      <4>1. req[r].pc = "deleteTx"
        BY <3>3 DEF DeleteAccount
      <4>2. req[r].op = "delete" /\ Deleting(r)
        BY <4>1 DEF Asking, Deleting
      <4>3. hand.uid # req[r].uid
        BY <1>3, <2>1, <4>1, <4>2 DEF Deletes
      <4> QED
        BY <1>1, <1>3, <2>1, <3>3, <4>3, DeletesAll
    <3>4. ASSUME NEW u \in Uids, CreateAccount(u)
          PROVE  accounts'[hand.uid] = accounts[hand.uid]
      BY <1>1, <1>3, <2>1, <3>1, <3>4, CreatesOne DEF HandsOwner
    <3>5. accounts'[hand.uid] = accounts[hand.uid]
      BY <1>2, <1>3, <3>3, <3>4, AccountsChange
    <3>6. accounts[hand.uid] = rows[hand.id].inc /\ rows[hand.id].inc # 0
      BY <3>1 DEF HandsOwner
    <3> QED
      BY <2>1, <3>2, <3>5, <3>6 DEF HandsOwner
  <2>2. CASE /\ ClaimUpdate /\ hand'.id \in Claimable /\ hand'.uid = rows[hand'.id].uid
             /\ rows' = Set(hand'.id, "running")
    <3>1. accounts' = accounts /\ hand'.id \in Ids
      BY <2>2 DEF ClaimUpdate, Claimable
    <3>2. rows'[hand'.id].inc = rows[hand'.id].inc
      BY <1>1, <2>2, <3>1 DEF Set, Row
    <3>3. accounts[hand'.uid] = rows[hand'.id].inc /\ rows[hand'.id].inc # 0
      BY <1>3, <2>2, <3>1 DEF Owners
    <3> QED
      BY <3>1, <3>2, <3>3 DEF HandsOwner
  <2> QED
    BY <1>1, <1>3, <2>1, <2>2, HandChange
<1>4. ASSUME wpc' \in RunPCs PROVE hand'.uid \in Uids
  <2>1. wpc' \in Taken /\ hand'.id # NoJob /\ wpc' # "claimed"
    BY <1>1, <1>4 DEF HandHasJob, RunPCs, HandPCs, Taken
  <2>2. ~Restart
    BY <1>4, RestartFacts DEF RunPCs
  <2>3. wpc \in RunPCs \/ Execute
    BY <1>1, <1>4, <2>2, WorkerKept, WorkerMoves DEF RunPCs
  <2>4. hand'.uid = hand.uid
    BY <1>1, <2>1, HandChange
  <2>5. Execute => hand.uid \in Uids
    BY <1>4 DEF Execute, Returns, RunPCs
  <2> QED
    BY <2>3, <2>4, <2>5 DEF RunsAs
<1> QED
  BY <1>3, <1>4 DEF RunsAs

\* The steps of a delete, as far as the queue is concerned.
LEMMA DeletingChange ==
  ASSUME TypeOK, [Next]_vars, NEW r \in Requests, Deleting(r)'
  PROVE  /\ req'[r].uid = req[r].uid
         /\ \/ req'[r] = req[r] /\ Deleting(r)
            \/ DeleteLeave(r) /\ req'[r].pc = "stopRead"
            \/ StopRead(r) /\ req'[r].pc = "mark" /\ req[r].op = "delete" /\ Deleting(r)
            \/ Mark(r) /\ req'[r].pc = "recheck" /\ Deleting(r)
            \/ DeleteIdle(r) /\ req'[r].pc = "deleteTx" /\ Deleting(r)
            \/ /\ Deleting(r) /\ req[r].pc \notin {"stopRead", "mark"}
               /\ req'[r].pc \notin {"stopRead", "mark", "deleteTx"}
<1>1. req[r] \in Request /\ req \in [Procs -> Request] /\ r \in Procs /\ r # Run
  BY DEF TypeOK
<1>2. req'[r].op = "delete" /\ req'[r].pc \notin {"idle", "leave"}
  BY DEF Deleting
<1>3. Idle.pc = "idle"
  BY DEF Idle
<1>4. CASE EnqueueStep(r)
  <2>1. /\ req[r].pc \in {"enqCheck", "insert", "inserted"}
        /\ \/ req'[r] = [req[r] EXCEPT !.pc = "insert"]
           \/ req'[r] = [req[r] EXCEPT !.pc = "inserted"]
    BY <1>1, <1>2, <1>3, <1>4, EnqueueMoves
  <2>2. /\ req'[r].pc \in {"insert", "inserted"} /\ req'[r].op = req[r].op
        /\ req'[r].uid = req[r].uid
    <3>1. CASE req'[r] = [req[r] EXCEPT !.pc = "insert"]
      BY <1>1, <3>1 DEF Request
    <3>2. CASE req'[r] = [req[r] EXCEPT !.pc = "inserted"]
      BY <1>1, <3>2 DEF Request
    <3> QED
      BY <2>1, <3>1, <3>2
  <2> QED
    BY <1>2, <2>1, <2>2 DEF Deleting
<1>5. CASE req[r].pc = "waitClaim" /\ req'[r] = [req[r] EXCEPT !.pc = "stopHeld"]
  <2>1. req'[r].pc = "stopHeld" /\ req'[r].op = req[r].op /\ req'[r].uid = req[r].uid
    BY <1>1, <1>5 DEF Request
  <2> QED
    BY <1>2, <1>5, <2>1 DEF Deleting
<1>6. ~Start(r)
  BY <1>1, <1>2, StartMoves DEF Started
<1>7. CASE StopStep(r)
  <2>1. /\ req[r].pc \in StopPCs
        /\ req'[r].pc \in (StopPCs \ {"stopRead"}) \cup {"idle", "waitIdle"}
        /\ req'[r].pc = "mark" => StopRead(r)
        /\ req'[r].op \in {req[r].op, "none"}
        /\ req'[r].op # "none" => req'[r].uid = req[r].uid
    BY <1>1, <1>7, StopStays
  <2>2. req[r].op = "delete" /\ req'[r].uid = req[r].uid
    BY <1>2, <2>1
  <2>3. Deleting(r)
    BY <2>1, <2>2 DEF Deleting, StopPCs
  <2>4. req'[r].pc \notin {"stopRead", "deleteTx"}
    BY <2>1 DEF StopPCs
  <2>5. CASE req[r].pc = "stopRead"
    <3>1. StopRead(r)
      BY <1>7, <2>2, <2>5 DEF StopStep, StopStale, StopRead, Mark, Recheck, Resolve,
         AfterHold, Signal, SettleSoon, ReadRunning, StopHeld, StopDone, Orphan, OrphanFails
    <3>2. req'[r].pc = "mark"
      BY <1>1, <1>2, <2>2, <3>1 DEF StopRead, Request
    <3> QED
      BY <2>2, <2>3, <3>1, <3>2
  <2>6. CASE req[r].pc = "mark"
    <3>1. Mark(r)
      BY <1>7, <2>6 DEF StopStep, StopStale, StopRead, Mark, Recheck, Resolve,
         AfterHold, Signal, SettleSoon, ReadRunning, StopHeld, StopDone, Orphan, OrphanFails
    <3>2. req'[r] = [req[r] EXCEPT !.pc = "recheck", !.todo = @ \ HeldNow]
      BY <1>1, <3>1, MarkMoves
    <3>3. req'[r].pc = "recheck"
      BY <1>1, <3>2 DEF Request
    <3> QED
      BY <2>2, <2>3, <3>1, <3>3
  <2>7. CASE req[r].pc \notin {"stopRead", "mark"}
    <3>1. ~StopRead(r)
      BY <2>7 DEF StopRead
    <3> QED
      BY <2>1, <2>2, <2>3, <2>4, <2>7, <3>1
  <2> QED
    BY <2>5, <2>6, <2>7
<1>8. CASE DeleteStep(r)
  <2>1. CASE DeleteLeave(r)
    <3>1. req'[r] = [req[r] EXCEPT !.pc = "stopRead"]
      BY <1>1, <2>1 DEF DeleteLeave, Goto
    <3>2. req'[r].pc = "stopRead" /\ req'[r].uid = req[r].uid
      BY <1>1, <3>1 DEF Request
    <3> QED
      BY <2>1, <3>2
  <2>2. CASE DeleteIdle(r)
    <3>1. req'[r] = [req[r] EXCEPT !.pc = "deleteTx"] /\ req[r].pc = "waitIdle"
      BY <1>1, <2>2 DEF DeleteIdle, Goto
    <3>2. req'[r].pc = "deleteTx" /\ req'[r].uid = req[r].uid /\ req'[r].op = req[r].op
      BY <1>1, <3>1 DEF Request
    <3> QED
      BY <1>2, <2>2, <3>1, <3>2 DEF Deleting
  <2>3. DeleteAccount(r) \/ DeleteRefused(r) => req'[r] = Idle
    BY <1>1 DEF DeleteAccount, DeleteRefused, Finish
  <2> QED
    BY <1>2, <1>3, <1>8, <2>1, <2>2, <2>3 DEF DeleteStep
<1>9. CASE ExclusiveStep(r)
  <2>1. req[r].pc \in {"xwait"} \cup XPCs
    BY <1>1, <1>9, ExclusiveMoves
  <2>2. req'[r] = Idle \/ \E l \in XPCs : req'[r] = [req[r] EXCEPT !.pc = l]
    BY <1>1, <1>9, ExclusiveMoves
  <2>3. PICK l \in XPCs : req'[r] = [req[r] EXCEPT !.pc = l]
    BY <1>2, <1>3, <2>2
  <2>4. req'[r].pc = l /\ req'[r].op = req[r].op /\ req'[r].uid = req[r].uid
    BY <1>1, <2>3 DEF Request
  <2> QED
    BY <1>2, <2>1, <2>4 DEF Deleting, XPCs
<1>10. ~Restart
  BY <1>1, <1>2, RestartFacts
<1>11. CASE req'[r] = req[r]
  BY <1>2, <1>11 DEF Deleting
<1> QED
  BY <1>1, <1>4, <1>5, <1>6, <1>7, <1>8, <1>9, <1>10, <1>11, ReqChange

\* Who is about to insert was let in before, or has just been.
LEMMA InsertNew ==
  ASSUME TypeOK, [Next]_vars, NEW p \in Procs, req'[p].pc = "insert"
  PROVE  /\ req'[p].uid = req[p].uid
         /\ req[p].pc = "insert" \/ (EnqueueCheck(p) /\ ~Refused(p))
<1>1. req[p] \in Request /\ req \in [Procs -> Request]
  BY DEF TypeOK
<1>2. Idle.pc = "idle"
  BY DEF Idle
<1>3. CASE EnqueueStep(p)
  <2>1. CASE req[p].pc = "enqCheck"
    <3>1. EnqueueCheck(p)
      BY <1>3, <2>1 DEF EnqueueStep, InsertJob, InsertRefused, EnqueueDone
    <3>2. ~Refused(p)
      BY <1>1, <1>2, <3>1 DEF EnqueueCheck, Finish
    <3> QED
      BY <1>1, <3>1, <3>2 DEF EnqueueCheck, Goto, Request
  <2>2. CASE req[p].pc # "enqCheck"
    BY <1>1, <1>2, <1>3, <2>2 DEF EnqueueStep, EnqueueCheck, InsertJob, InsertRefused,
       EnqueueDone, Goto, Finish, Request
  <2> QED
    BY <2>1, <2>2
<1>4. ASSUME p = Run, NEW w \in Works, ContinueStart(w) PROVE FALSE
  <2>1. req'[p] = [Idle EXCEPT !.pc = "enqCheck", !.op = "enqueue", !.gen = hand.gen,
                     !.uid = hand.uid, !.inc = rows[hand.id].inc, !.work = w]
    BY <1>1, <1>4 DEF ContinueStart
  <2> QED
    BY <2>1 DEF Idle
<1>5. ASSUME p \in Requests PROVE ~Start(p) /\ ~StopStep(p) /\ ~DeleteStep(p)
  <2>1. ~Start(p)
    BY <1>1, <1>5, StartMoves DEF Started
  <2>2. ~StopStep(p)
    BY <1>1, <1>5, StopStays DEF StopPCs
  <2>3. ~DeleteStep(p)
    BY <1>1, <1>2, <1>5, DeleteMoves DEF Request
  <2> QED
    BY <2>1, <2>2, <2>3
<1>6. ASSUME p \in Requests PROVE ~ExclusiveStep(p)
  <2> SUFFICES ASSUME ExclusiveStep(p) PROVE FALSE
    OBVIOUS
  <2>1. req'[p] = Idle \/ \E l \in XPCs : req'[p] = [req[p] EXCEPT !.pc = l]
    BY <1>1, <1>6, ExclusiveMoves
  <2> QED
    BY <1>1, <1>2, <2>1 DEF Request, XPCs
<1>7. ~Restart
  BY <1>1, RestartFacts
<1>8. ~(req[p].pc = "waitClaim" /\ req'[p] = [req[p] EXCEPT !.pc = "stopHeld"])
  BY <1>1 DEF Request
<1> QED
  BY <1>1, <1>3, <1>4, <1>5, <1>6, <1>7, <1>8, ReqChange

\* In one file nothing more comes to wait for an account that is being deleted.
LEMMA OfAccountShrinks ==
  ASSUME TypeOK, Asking, Deletes, [Next]_vars, NEW r \in Requests, Deleting(r),
         req'[r].uid = req[r].uid, \A q \in Requests : ~SwapFiles(q),
         NEW i \in OfAccount(r)'
  PROVE  i \in OfAccount(r)
<1>1. i \in Ids /\ rows'[i].state = "queued" /\ rows'[i].uid = req[r].uid
  BY DEF OfAccount, Waiting
<1>2. req[r].uid \in Uids
  BY DEF Asking, Deleting
<1>3. \A p \in Procs : InsertJob(p) => req[p].uid # req[r].uid
  BY DEF Deletes, InsertJob
<1>4. rows[i].uid = req[r].uid
  BY <1>1, <1>2, <1>3, RowOwner
<1>5. rows[i].state = "queued"
  <2>1. rows[i].state = "queued" \/ rows[i].state = "absent"
    BY <1>1, RowGoes
  <2>2. ASSUME NEW p \in Procs, InsertJob(p), rows[i].state = "absent" PROVE FALSE
    <3>1. PICK k \in Ids :
            rows' = [rows EXCEPT ![k] = [NoRow EXCEPT !.state = "queued",
                       !.uid = req[p].uid, !.inc = req[p].inc, !.work = req[p].work]]
      BY <2>2 DEF InsertJob
    <3>2. k = i
      BY <1>1, <2>2, <3>1 DEF TypeOK
    <3>3. rows'[i].uid = req[p].uid
      BY <1>1, <3>1, <3>2 DEF TypeOK, NoRow
    <3> QED
      BY <1>1, <1>3, <2>2, <3>3
  <2> QED
    BY <1>1, <2>1, <2>2, RowGoes
<1> QED
  BY <1>1, <1>4, <1>5 DEF OfAccount, Waiting

\* What waits for an account that is being deleted, and is held, goes on being held.
LEMMA OfAccountHeld ==
  ASSUME IInv, HandBegun, Taking, Moving, Asking, Deletes, [Next]_vars,
         NEW r \in Requests, Deleting(r), req'[r].uid = req[r].uid,
         NEW i \in OfAccount(r)', i \in OfAccount(r) => i \in HeldNow
  PROVE  i \in HeldNow' /\ \A q \in Requests : ~SwapFiles(q)
<1>1. TypeOK /\ i \in Ids /\ rows'[i].state = "queued" /\ rows'[i].uid = req[r].uid
  BY DEF IInv, OfAccount, Waiting
<1>2. \A q \in Requests : ~SwapFiles(q)
  <2> SUFFICES ASSUME NEW q \in Requests, SwapFiles(q) PROVE FALSE
    OBVIOUS
  <2>1. swapMoving
    BY SwapFacts
  <2>2. rows'[i] = rows[i]
    BY <1>1, SwapRows DEF NoRow, Live
  <2>3. i \in OfAccount(r) /\ i \in Waiting
    BY <1>1, <2>2 DEF OfAccount, Waiting
  <2> QED
    BY <2>1, <2>3 DEF Moving
<1>3. i \in OfAccount(r)
  BY <1>1, <1>2, OfAccountShrinks
<1>4. i \in HeldNow'
  BY <1>1, <1>2, <1>3, StillHeld DEF OfAccount, Waiting
<1> QED
  BY <1>2, <1>4

LEMMA DeletesKept ==
  ASSUME IInv, HandBegun, Marks, Taking, Moving, Owners, Asking, Deletes, [Next]_vars
  PROVE  Deletes'
<1> SUFFICES ASSUME NEW r \in Requests, Deleting(r)'
    PROVE  /\ \A p \in Procs : req'[p].pc = "insert" => req'[p].uid # req'[r].uid
           /\ req'[r].pc = "mark" => OfAccount(r)' \subseteq req'[r].todo \cup HeldNow'
           /\ req'[r].pc \notin {"stopRead", "mark"} => OfAccount(r)' \subseteq HeldNow'
           /\ req'[r].pc = "deleteTx" =>
                /\ wpc' \in Taken /\ hand'.id # NoJob => hand'.uid # req'[r].uid
                /\ wpc' = "claimUpdate" => OfAccount(r)' \subseteq heldSeen'
  BY DEF Deletes
<1>1. TypeOK /\ Control /\ RunContinues /\ req[r] \in Request /\ req \in [Procs -> Request]
  BY DEF IInv, Control, TypeOK
<1>2. req'[r].uid = req[r].uid
  BY <1>1, DeletingChange
<1>3. ASSUME NEW p \in Procs, req'[p].pc = "insert" PROVE req'[p].uid # req'[r].uid
  <2>1. req'[p].uid = req[p].uid
    BY <1>1, <1>3, InsertNew
  <2>2. CASE DeleteLeave(r)
    <3>1. inserting = {} /\ req' = [req EXCEPT ![r].pc = "stopRead"]
      BY <2>2 DEF DeleteLeave, Goto
    <3>2. req[p].pc = "insert"
      BY <1>1, <1>3, <3>1
    <3> QED
      BY <3>1, <3>2 DEF inserting, InsertPCs
  <2>3. CASE Deleting(r)
    <3>1. req[r].uid \in leaving
      BY <2>3 DEF leaving, Deleting
    <3>2. CASE req[p].pc = "insert"
      BY <1>2, <2>1, <2>3, <3>2 DEF Deletes
    <3> QED
      BY <1>1, <1>2, <1>3, <2>1, <3>1, <3>2, InsertNew DEF Refused
  <2> QED
    BY <1>1, <2>2, <2>3, DeletingChange
<1>4. ASSUME req'[r].pc = "mark", NEW i \in OfAccount(r)'
      PROVE  i \in req'[r].todo \cup HeldNow'
  <2>1. CASE req'[r] = req[r] /\ Deleting(r)
    <3>1. i \in OfAccount(r) => i \in req[r].todo \cup HeldNow
      BY <1>4, <2>1 DEF Deletes
    <3>2. CASE i \in req[r].todo
      BY <2>1, <3>2
    <3>3. CASE i \notin req[r].todo
      BY <1>2, <2>1, <3>1, <3>3, OfAccountHeld
    <3> QED
      BY <3>2, <3>3
  <2>2. CASE StopRead(r) /\ req[r].op = "delete"
    <3>1. req'[r].todo = Queued(r)
      BY <1>1, <1>4, <2>2, StopReadMoves
    <3>2. rows' = rows
      BY <2>2 DEF StopRead, dbVars
    <3> QED
      BY <1>2, <3>1, <3>2 DEF OfAccount, Waiting, Queued, InScope
  <2> QED
    BY <1>1, <1>4, <2>1, <2>2, DeletingChange
<1>5. ASSUME req'[r].pc \notin {"stopRead", "mark"}, NEW i \in OfAccount(r)'
      PROVE  i \in HeldNow'
  <2>1. CASE Deleting(r) /\ req[r].pc \notin {"stopRead", "mark"}
    <3>1. i \in OfAccount(r) => i \in HeldNow
      BY <2>1 DEF Deletes
    <3> QED
      BY <1>2, <2>1, <3>1, OfAccountHeld
  <2>2. CASE Mark(r) /\ Deleting(r)
    <3>1. rows' = rows /\ gen' = gen /\ req[r].pc = "mark"
      BY <2>2 DEF Mark, dbVars
    <3>2. i \in req[r].todo \cup HeldNow
      BY <1>2, <2>2, <3>1 DEF Deletes, OfAccount, Waiting
    <3>3. i \in Ids
      BY DEF OfAccount, Waiting
    <3>4. held'[i].gen = gen
      BY <1>1, <2>2, <3>2, <3>3 DEF Mark, HeldNow, TypeOK
    <3> QED
      BY <3>1, <3>3, <3>4 DEF HeldNow
  <2>3. DeleteIdle(r) => req[r].pc \notin {"stopRead", "mark"}
    BY DEF DeleteIdle
  <2> QED
    BY <1>1, <1>5, <2>1, <2>2, <2>3, DeletingChange
<1>6. ASSUME req'[r].pc = "deleteTx", wpc' \in Taken, hand'.id # NoJob
      PROVE  hand'.uid # req'[r].uid
  <2>1. CASE DeleteIdle(r)
    <3>1. /\ wpc' = wpc /\ hand' = hand /\ ~claiming
          /\ running # NoJob => hand.uid # req[r].uid
      BY <2>1 DEF DeleteIdle, workerVars
    <3>2. wpc \in HandPCs
      BY <1>6, <3>1 DEF Taken, claiming, ClaimPCs
    <3> QED
      BY <1>2, <1>6, <3>1, <3>2 DEF running
  <2>2. CASE req'[r] = req[r] /\ Deleting(r)
    <3>1. wpc \in Taken /\ hand.id # NoJob => hand.uid # req[r].uid
      BY <1>6, <2>2 DEF Deletes
    <3>2. wpc = "claimUpdate" => OfAccount(r) \subseteq heldSeen
      BY <1>6, <2>2 DEF Deletes
    <3>3. CASE wpc \in Taken /\ hand'.id = hand.id /\ hand'.uid = hand.uid
      BY <1>2, <1>6, <3>1, <3>3
    <3>4. CASE ClaimUpdate /\ hand'.id \in Claimable /\ hand'.uid = rows[hand'.id].uid
      BY <1>2, <3>2, <3>4 DEF ClaimUpdate, Claimable, OfAccount, Waiting
    <3>5. HandBegun
      OBVIOUS
    <3> QED
      BY <1>1, <1>6, <3>3, <3>4, <3>5, HandChange
  <2> QED
    BY <1>1, <1>6, <2>1, <2>2, DeletingChange
<1>7. ASSUME req'[r].pc = "deleteTx", wpc' = "claimUpdate", NEW i \in OfAccount(r)'
      PROVE  i \in heldSeen'
  <2>1. ~DeleteIdle(r)
    BY <1>7 DEF DeleteIdle, claiming, ClaimPCs, workerVars
  <2>2. req'[r] = req[r] /\ Deleting(r)
    BY <1>1, <1>7, <2>1, DeletingChange
  <2>3. \A q \in Requests : ~SwapFiles(q)
    BY <1>7, SwapFacts
  <2>4. i \in OfAccount(r)
    BY <1>1, <1>2, <2>2, <2>3, OfAccountShrinks
  <2>5. CASE ClaimRead
    BY <1>7, <2>2, <2>4, <2>5 DEF ClaimRead, Deletes
  <2>6. CASE ~ClaimRead
    <3>1. ~ClaimStep /\ ~RunStep /\ ~Restart
      BY <1>1, <1>7, <2>6, WorkerMoves, RestartFacts
    <3>2. wpc = "claimUpdate" /\ heldSeen' = heldSeen
      BY <1>1, <1>7, <3>1, WorkerKept
    <3> QED
      BY <1>7, <2>2, <2>4, <3>2 DEF Deletes
  <2> QED
    BY <2>5, <2>6
<1> QED
  BY <1>3, <1>4, <1>5, <1>6, <1>7

(***************************************************************************)
(* The theorems.                                                           *)
(***************************************************************************)
SInv == /\ IInv /\ HandBegun
        /\ Marks /\ Taking /\ Moving /\ Seen /\ RunMarks
        /\ Wakeup
        /\ SecretHeld /\ SecretKept
        /\ Owners /\ Asking /\ RunsAs /\ Deletes

LEMMA InitSafe == Init => SInv
<1> SUFFICES ASSUME Init PROVE SInv
  OBVIOUS
<1>1. IInv
  BY InitInv
<1>2. /\ \A p \in Procs : req[p] = Idle /\ req[p].pc = "idle" /\ req[p].op = "none"
      /\ \A i \in Ids : rows[i] = NoRow /\ rows[i].state = "absent" /\ rows[i].uid = NoUid
      /\ \A i \in Ids : held[i] = NoMark /\ held[i].gen = 0
      /\ gen = 1 /\ wpc = "none" /\ secrets = {}
  BY DEF Init, Idle, NoRow, NoMark
<1>3. HeldNow = {} /\ Waiting = {}
  BY <1>2 DEF HeldNow, Waiting
<1>4. HandBegun /\ Seen /\ RunMarks /\ RunsAs
  BY <1>2, <1>3 DEF HandBegun, InHand, Seen, RunMarks, RunsAs, Taken, HandPCs, RunPCs
<1>5. Marks /\ Wakeup
  BY <1>2, <1>3 DEF Marks, Wakeup
<1>6. Taking /\ Asking /\ Deletes
  BY <1>2 DEF Taking, SteadyPCs, Asking, Deletes, Deleting
<1>7. Moving /\ SecretHeld /\ SecretKept /\ Owners
  BY <1>2, <1>3 DEF Moving, swapMoving, SecretHeld, SecretKept, Owners
<1> QED
  BY <1>1, <1>4, <1>5, <1>6, <1>7 DEF SInv

LEMMA StepSafe == SInv /\ [Next]_vars => SInv'
BY StepInv, HandBegunKept, MarksKept, TakingKept, MovingKept, SeenKept, RunMarksKept,
   WakeupKept, SecretHeldKept, SecretKeptKept, OwnersKept, AskingKept, RunsAsKept,
   DeletesKept DEF SInv

\* The inductive invariant, whatever the operations and however many of everything.
THEOREM SafetyInvariance == SafeSpec => []SInv
BY InitSafe, StepSafe, PTL DEF SafeSpec

\* A job that waits has a worker, or a Stop holds it, or the queue is closed, retired or
\* in an Exclusive, or a press is about to kick, or a claim gave up or a kick was refused.
THEOREM NoWakeupIsLost == SafeSpec => []NoLostWakeup
<1>1. SInv => NoLostWakeup
  BY DEF SInv, Wakeup, Nobody, NoLostWakeup
<1> QED
  BY <1>1, SafetyInvariance, PTL

\* The mark on a job that is running is on its way out: the Stop that made it has the
\* job among those whose marks it takes back.
THEOREM MarksComeOff == SafeSpec => []MarkOnRunningJobIsTakenBack
<1>1. SInv => MarkOnRunningJobIsTakenBack
  <2> SUFFICES ASSUME SInv, wpc \in RunPCs, hand.id \in HeldNow
               PROVE  \E r \in Requests : /\ req[r].pc \in {"recheck", "resolve"}
                                          /\ hand.id \in req[r].todo
    BY DEF MarkOnRunningJobIsTakenBack
  <2>1. wpc \in HandPCs
    BY DEF RunPCs, HandPCs
  <2>2. hand.id \in Ids
    BY DEF HeldNow
  <2>3. Marking(held[hand.id].by, hand.id) /\ held[hand.id].by \in Requests
    BY <2>1, <2>2 DEF SInv, RunMarks, Marks
  <2> QED
    BY <2>3 DEF Marking
<1> QED
  BY <1>1, SafetyInvariance, PTL

\* When nobody is at work on the queue, the only secrets kept are of jobs that have not
\* ended: no path through claims, Stops, swaps and deletes leaves one behind.
THEOREM SecretsEndWithTheirJobs == SafeSpec => []NoSecretOutlivesItsJob
<1>1. SInv => NoSecretOutlivesItsJob
  <2> SUFFICES ASSUME SInv, cpc = "open", \A p \in Procs : req[p].pc = "idle",
                      NEW i \in secrets
               PROVE  rows[i].state \in Live
    BY DEF NoSecretOutlivesItsJob
  <2>1. ~closed /\ exclusive = {}
    BY DEF closed, exclusive, XPCs
  <2>2. ~Forgets(i)
    BY DEF Forgets, Fresh, Marking, SInv, Marks, IInv, TypeOK
  <2> QED
    BY <2>1, <2>2 DEF SInv, SecretKept
<1> QED
  BY <1>1, SafetyInvariance, PTL

\* A job runs as the account that queued it: its owner's id has not been deleted and
\* given to somebody else, and the account is there.
THEOREM RunsAsItsOwner == SafeSpec => []NotForAnotherAccount
<1>1. SInv => NotForAnotherAccount
  <2> SUFFICES ASSUME SInv, wpc \in RunPCs
               PROVE  hand.uid \in Uids /\ accounts[hand.uid] = rows[hand.id].inc
    BY DEF NotForAnotherAccount
  <2>1. wpc \in Taken /\ hand.id # NoJob /\ hand.uid \in Uids
    BY DEF SInv, IInv, Control, HandHasJob, RunsAs, Taken, RunPCs, HandPCs
  <2> QED
    BY <2>1 DEF SInv, RunsAs, HandsOwner
<1> QED
  BY <1>1, SafetyInvariance, PTL
=============================================================================
