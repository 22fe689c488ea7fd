------------------------- MODULE JobQueueLifeProofs -------------------------
(***************************************************************************)
(* What JobQueue promises of a job's life: what a Stop was told it stopped *)
(* never works, the job in hand reads running and has its secret, and the  *)
(* queue implements JobLife.                                               *)
(*                                                                         *)
(* All of it needs one hypothesis, because settleOrphan (runner.go:986)    *)
(* writes by the job's id alone: in a file that was replaced by an empty   *)
(* one meanwhile, the id may be another job's, and that job may be in hand.*)
(***************************************************************************)
EXTENDS JobQueueSafetyProofs

USE QueueAssumption DEF NoJob, Procs, Gens, Incs

\* The swaps that start the ids again, and the operations that remember ids over a swap.
Wiping   == {"reset", "uncarried"}
Stopping == {"stop", "stopAll", "delete"}

\* The hypothesis: the history is never wiped, or nothing is ever stopped.
NoWipeOverAStop == SwapKinds \cap Wiping = {} \/ Ops \cap Stopping = {}

(***************************************************************************)
(* The inductive invariant, on top of SInv.                                *)
(***************************************************************************)
\* What the hypothesis says of the states.
Unwiped == \A r \in Requests : req[r].kind \notin Wiping
Stopless == /\ promised = {}
            /\ \A r \in Requests : req[r].pc \notin StopPCs \cup {"leave"}
Apart == /\ SwapKinds \cap Wiping = {} => Unwiped
         /\ Ops \cap Stopping = {} => Stopless

\* Past its marks, what a Stop has to do has left the queue; what it is about to write
\* as an orphan is not in hand.
TodoBegun == \A r \in Requests : req[r].pc \in {"signal", "stopHeld", "waitClaim", "orphan"} =>
               \A i \in req[r].todo : Begun(i)
OrphanOut == \A r \in Requests : req[r].pc = "orphan" =>
               \A i \in Ids : FirstOf(req[r].todo, i) => ~InHand(i)

\* The job in hand reads running, until its end is written or Close gives it up.
HandRuns == \A i \in Ids : InHand(i) /\ wpc # "release" /\ abandoned # i
                             => rows[i].state = "running"

\* Once Close has begun no claim is made for long, and the job in hand knows.
Shut == /\ wpc \in HandPCs /\ closed => hand.shutdown = TRUE
        /\ abandoned # NoJob => closed /\ wpc \notin ClaimPCs
        /\ cpc \in {"open", "waitWorker", "cancelWait"} => abandoned = NoJob

\* A job that will begin no item: it has left the queue, and if it is in hand its end is
\* being written, or it was told to stop between two items, or Close wrote it off.
Over(i) == \/ runEnded
           \/ hand.stop = TRUE /\ wpc # "item"
           \/ abandoned = i /\ rows[i].state # "running"
Dead(i) == Begun(i) /\ (InHand(i) => wpc \in HandPCs /\ Over(i))

\* What a Stop marked is marked by it still, or over.
Own(r, i) == i \in HeldNow /\ held[i].by = r
Marked == \A r \in Requests : \A i \in Ids : Marking(r, i) => Own(r, i) \/ Dead(i)

\* What a Stop said it stopped is over, or marked for good before the claim that took it
\* has ended.
StillMarked(i) == /\ i \in HeldNow /\ ~Marking(held[i].by, i)
                  /\ rows[i].state = "queued" \/ (wpc = "claimed" /\ hand.id = i)
Promised == \A i \in promised : Dead(i) \/ StillMarked(i)
FreshPromised == \A r \in Requests : \A i \in Ids : Fresh(r, i) => i \in promised

\* What waits or works has its secret, if nobody was told it is stopped.
Secret == \A i \in Ids \ promised :
            /\ rows[i].state = "queued" => i \in secrets
            /\ InHand(i) /\ ~runEnded /\ abandoned # i => i \in secrets

LInv == /\ SInv /\ Apart
        /\ TodoBegun /\ OrphanOut
        /\ HandRuns /\ Shut
        /\ Marked /\ Promised /\ FreshPromised
        /\ Secret

(***************************************************************************)
(* What a step changes of what JobLife reads.                              *)
(***************************************************************************)
LEMMA PromisedChange ==
  ASSUME [Next]_vars
  PROVE  \/ promised' = promised
         \/ \E r \in Requests : Recheck(r) \/ Resolve(r) \/ SwapFiles(r)
<1>1. CASE ClaimStep
  BY <1>1 DEF ClaimStep, WorkerTop, WorkerSettle, ClaimRead, ClaimUpdate, ClaimRetry,
              ClaimGivesUp, AfterClaim, AfterEmptyClaim, histVars
<1>2. CASE RunStep
  BY <1>2 DEF RunStep, Execute, BeginItem, FinishItem, AbandonItem, Progress, RunTold,
              RunDone, RunFails, RecordEnd, RecordNothing, Release, ContinueStart, histVars
<1>3. CASE \E p \in Procs : EnqueueStep(p)
  BY <1>3 DEF EnqueueStep, EnqueueCheck, InsertJob, InsertRefused, EnqueueDone, histVars
<1>4. CASE \E r \in Requests : Start(r)
  BY <1>4 DEF Start, EnqueueStart, RerunStart, StopStart, StopAllStart, DeleteStart,
              ExclusiveStart, histVars
<1>5. CASE \E r \in Requests : StopStep(r)
  BY <1>5 DEF StopStep, StopStale, StopRead, Mark, AfterHold, Signal, SettleSoon,
              ReadRunning, StopHeld, StopDone, Orphan, OrphanFails, histVars
<1>6. CASE \E r \in Requests : DeleteStep(r)
  BY <1>6 DEF DeleteStep, DeleteLeave, DeleteIdle, DeleteAccount, DeleteRefused, histVars
<1>7. CASE \E r \in Requests : ExclusiveStep(r)
  BY <1>7 DEF ExclusiveStep, ExclusiveEnter, RunFn, SwapBegin, SwapRefused, ExclusiveEnd,
              histVars
<1>8. CASE CloseBegin \/ CloseStep
  BY <1>8 DEF CloseBegin, CloseStep, CloseIdle, CloseCancel, CloseAbandon,
              CloseAbandonWrite, CloseInserts, CloseSettle, CloseInterrupt, histVars
<1>9. CASE \/ \E u \in Uids : CreateAccount(u)
           \/ Restart \/ RetireLapses \/ LockTake \/ LockRelease \/ UNCHANGED vars
  BY <1>9 DEF CreateAccount, Restart, RetireLapses, LockTake, LockRelease, vars, histVars
<1> QED
  BY <1>1, <1>2, <1>3, <1>4, <1>5, <1>6, <1>7, <1>8, <1>9, Groups

\* Close goes through its phases once, and gives a job up in one of them.
LEMMA CloseChange ==
  ASSUME [Next]_vars
  PROVE  \/ cpc' = cpc /\ abandoned' = abandoned
         \/ CloseBegin
         \/ CloseAbandon
         \/ cpc \notin {"open", "abandoning"} /\ cpc' \notin {"open", "waitWorker"}
              /\ (cpc' = "cancelWait" => cpc = "waitWorker") /\ abandoned' = abandoned
         \/ CloseAbandonWrite
         \/ Restart
<1>1. CASE ClaimStep
  BY <1>1 DEF ClaimStep, WorkerTop, WorkerSettle, ClaimRead, ClaimUpdate, ClaimRetry,
              ClaimGivesUp, AfterClaim, AfterEmptyClaim, memVars, closeVars
<1>2. CASE RunStep
  BY <1>2 DEF RunStep, Execute, BeginItem, FinishItem, AbandonItem, Progress, RunTold,
              RunDone, RunFails, RecordEnd, RecordNothing, Release, ContinueStart,
              memVars, closeVars
<1>3. CASE \E p \in Procs : EnqueueStep(p)
  BY <1>3 DEF EnqueueStep, EnqueueCheck, InsertJob, InsertRefused, EnqueueDone,
              memVars, closeVars
<1>4. CASE \E r \in Requests : Start(r)
  BY <1>4 DEF Start, EnqueueStart, RerunStart, StopStart, StopAllStart, DeleteStart,
              ExclusiveStart, memVars, closeVars
<1>5. CASE \E r \in Requests : StopStep(r)
  BY <1>5 DEF StopStep, StopStale, StopRead, Mark, Recheck, Resolve, AfterHold, Signal,
              SettleSoon, ReadRunning, StopHeld, StopDone, Orphan, OrphanFails,
              memVars, closeVars
<1>6. CASE \E r \in Requests : DeleteStep(r)
  BY <1>6 DEF DeleteStep, DeleteLeave, DeleteIdle, DeleteAccount, DeleteRefused,
              memVars, closeVars
<1>7. CASE \E r \in Requests : ExclusiveStep(r)
  BY <1>7 DEF ExclusiveStep, ExclusiveEnter, RunFn, SwapBegin, SwapRefused, SwapFiles,
              ExclusiveEnd, memVars, closeVars
<1>8. CASE CloseBegin \/ CloseStep
  BY <1>8 DEF CloseBegin, CloseStep, CloseIdle, CloseCancel, CloseAbandon,
              CloseAbandonWrite, CloseInserts, CloseSettle, CloseInterrupt, closeVars
<1>9. CASE \/ \E u \in Uids : CreateAccount(u)
           \/ Restart \/ RetireLapses \/ LockTake \/ LockRelease \/ UNCHANGED vars
  BY <1>9 DEF CreateAccount, RetireLapses, LockTake, LockRelease, vars, memVars, closeVars
<1> QED
  BY <1>1, <1>2, <1>3, <1>4, <1>5, <1>6, <1>7, <1>8, <1>9, Groups

(***************************************************************************)
(* The hypothesis, step by step.                                           *)
(***************************************************************************)
LEMMA StartKinds ==
  ASSUME req \in [Procs -> Request], NEW r \in Requests, Start(r)
  PROVE  /\ req'[r].kind \in {"none"} \cup SwapKinds
         /\ Ops \cap Stopping = {} => req'[r].pc \notin StopPCs \cup {"leave"}
<1> USE DEF Stopping, StopPCs
<1>1. ASSUME NEW u \in Uids, NEW w \in Works, EnqueueStart(r, u, w)
      PROVE  req'[r].kind = "none" /\ req'[r].pc = "enqCheck"
  BY <1>1 DEF EnqueueStart, Idle
<1>2. ASSUME NEW i \in Ids, RerunStart(r, i)
      PROVE  req'[r].kind = "none" /\ req'[r].pc = "enqCheck"
  BY <1>2 DEF RerunStart, Idle
<1>3. ASSUME NEW u \in Uids, NEW i \in Ids, StopStart(r, u, i)
      PROVE  req'[r].kind = "none" /\ "stop" \in Ops
  BY <1>3 DEF StopStart, Idle
<1>4. ASSUME NEW u \in Uids, StopAllStart(r, u)
      PROVE  req'[r].kind = "none" /\ "stopAll" \in Ops
  BY <1>4 DEF StopAllStart, Idle
<1>5. ASSUME NEW u \in Uids, DeleteStart(r, u)
      PROVE  req'[r].kind = "none" /\ "delete" \in Ops
  BY <1>5 DEF DeleteStart, Idle
<1>6. ASSUME NEW k \in SwapKinds, ExclusiveStart(r, k)
      PROVE  req'[r].kind = k /\ req'[r].pc = "xwait"
  BY <1>6 DEF ExclusiveStart, Idle
<1> QED
  BY <1>1, <1>2, <1>3, <1>4, <1>5, <1>6 DEF Start

LEMMA StopKinds ==
  ASSUME req \in [Procs -> Request], NEW r \in Requests, StopStep(r)
  PROVE  req'[r].kind \in {req[r].kind, "none"}
<1> USE DEF Request
<1>0. CASE req'[r] = Idle
  BY <1>0 DEF Idle
<1> SUFFICES ASSUME req'[r] # Idle PROVE req'[r].kind = req[r].kind
  BY <1>0
<1>1. ~Finish(r)
  BY DEF Finish
<1>2. CASE StopStale(r) \/ OrphanFails(r)
  BY <1>1, <1>2 DEF StopStale, OrphanFails
<1>3. CASE StopRead(r)
  BY <1>1, <1>3 DEF StopRead, Goto
<1>4. CASE Mark(r)
  BY <1>4, r \in Procs, req[r] \in Request DEF Mark
<1>5. CASE Recheck(r)
  BY <1>5, r \in Procs, req[r] \in Request DEF Recheck, Goto
<1>6. CASE Resolve(r)
  BY <1>6, r \in Procs, req[r] \in Request DEF Resolve
<1>7. CASE AfterHold(r) \/ Signal(r) \/ SettleSoon(r)
  BY <1>1, <1>7 DEF AfterHold, Signal, SettleSoon, Goto
<1>8. CASE ReadRunning(r)
  BY <1>1, <1>8 DEF ReadRunning
<1>9. CASE StopHeld(r) \/ StopDone(r)
  BY <1>1, <1>9 DEF StopHeld, StopDone, Goto
<1>10. CASE Orphan(r)
  BY <1>10 DEF Orphan
<1> QED
  BY <1>2, <1>3, <1>4, <1>5, <1>6, <1>7, <1>8, <1>9, <1>10 DEF StopStep

LEMMA UnwipedKept ==
  ASSUME TypeOK, SwapKinds \cap Wiping = {}, Unwiped, [Next]_vars PROVE Unwiped'
<1> SUFFICES ASSUME NEW r \in Requests PROVE req'[r].kind \notin Wiping
  BY DEF Unwiped
<1>0. r \in Procs /\ req \in [Procs -> Request] /\ req[r].kind \notin Wiping
  BY DEF TypeOK, Unwiped
<1>1. req'[r].kind \in {req[r].kind, "none"} \cup SwapKinds
  <2>1. CASE req'[r] = req[r] \/ req'[r] = [req[r] EXCEPT !.pc = "stopHeld"]
    BY <2>1, <1>0 DEF Request
  <2>2. CASE EnqueueStep(r)
    <3>1. \/ req'[r] = Idle
          \/ req'[r] = [req[r] EXCEPT !.pc = "insert"]
          \/ req'[r] = [req[r] EXCEPT !.pc = "inserted"]
      BY <2>2, <1>0, EnqueueMoves
    <3> QED
      BY <3>1, <1>0 DEF Request, Idle
  <2>3. CASE Start(r)
    BY <2>3, <1>0, StartKinds
  <2>4. CASE StopStep(r)
    BY <2>4, <1>0, StopKinds
  <2>5. CASE DeleteStep(r)
    <3>1. \/ req'[r] = Idle
          \/ req'[r] = [req[r] EXCEPT !.pc = "stopRead"]
          \/ req'[r] = [req[r] EXCEPT !.pc = "deleteTx"]
      BY <2>5, <1>0, DeleteMoves
    <3> QED
      BY <3>1, <1>0 DEF Request, Idle
  <2>6. CASE ExclusiveStep(r)
    <3>1. req'[r] = Idle \/ \E l \in XPCs : req'[r] = [req[r] EXCEPT !.pc = l]
      BY <2>6, <1>0, ExclusiveMoves
    <3>2. ASSUME NEW l \in XPCs, req'[r] = [req[r] EXCEPT !.pc = l]
          PROVE  req'[r].kind = req[r].kind
      BY <3>2, <1>0 DEF Request
    <3>3. req'[r] = Idle => req'[r].kind = "none"
      BY DEF Idle
    <3> QED
      BY <3>1, <3>2, <3>3
  <2>7. CASE Restart
    BY <2>7, <1>0 DEF Restart, Idle
  <2> QED
    BY <1>0, <2>1, <2>2, <2>3, <2>4, <2>5, <2>6, <2>7, ReqChange
<1>2. "none" \notin Wiping
  BY DEF Wiping
<1> QED
  BY <1>0, <1>1, <1>2

LEMMA StoplessKept ==
  ASSUME TypeOK, Ops \cap Stopping = {}, Stopless, [Next]_vars PROVE Stopless'
<1>0. \A r \in Requests : r \in Procs /\ req[r].pc \notin StopPCs \cup {"leave"}
  BY DEF Stopless
<1>1. promised' = {}
  <2>1. \A r \in Requests : ~Recheck(r) /\ ~Resolve(r)
    BY <1>0 DEF Recheck, Resolve, StopPCs
  <2>2. ASSUME NEW r \in Requests, SwapFiles(r) PROVE promised' = {}
    BY <2>2 DEF SwapFiles, Stopless
  <2> QED
    BY <2>1, <2>2, PromisedChange DEF Stopless
<1>2. ASSUME NEW r \in Requests PROVE req'[r].pc \notin StopPCs \cup {"leave"}
  <2>0. r \in Procs /\ req \in [Procs -> Request]
    BY DEF TypeOK
  <2> USE DEF StopPCs
  <2>1. CASE req'[r] = req[r] \/ req[r].pc = "waitClaim" \/ StopStep(r)
    BY <2>0, <2>1, <1>0, StopStays
  <2>2. CASE EnqueueStep(r)
    <3>1. \/ req'[r] = Idle
          \/ req'[r] = [req[r] EXCEPT !.pc = "insert"]
          \/ req'[r] = [req[r] EXCEPT !.pc = "inserted"]
      BY <2>2, <2>0, EnqueueMoves
    <3> QED
      BY <3>1, <2>0 DEF Request, Idle
  <2>3. CASE Start(r)
    BY <2>3, <2>0, StartKinds
  <2>5. CASE DeleteStep(r)
    <3>1. req'[r] = Idle \/ req'[r] = [req[r] EXCEPT !.pc = "deleteTx"]
      BY <2>5, <2>0, <1>0, DeleteMoves
    <3> QED
      BY <3>1, <2>0 DEF Request, Idle
  <2>6. CASE ExclusiveStep(r)
    <3>1. req'[r] = Idle \/ \E l \in XPCs : req'[r] = [req[r] EXCEPT !.pc = l]
      BY <2>6, <2>0, ExclusiveMoves
    <3> QED
      BY <3>1, <2>0 DEF Request, Idle, XPCs
  <2>7. CASE Restart
    BY <2>7, <2>0 DEF Restart, Idle
  <2> QED
    BY <2>0, <2>1, <2>2, <2>3, <2>5, <2>6, <2>7, ReqChange
<1> QED
  BY <1>1, <1>2 DEF Stopless

LEMMA ApartKept == TypeOK /\ Apart /\ [Next]_vars => Apart'
BY UnwipedKept, StoplessKept DEF Apart

\* A swap of the files keeps what has left the queue, and what was promised of it; or
\* nothing was, and no Stop is under way.
LEMMA SwapKeeps ==
  ASSUME IInv, Apart, NoWipeOverAStop, NEW r \in Requests, SwapFiles(r)
  PROVE  \/ /\ \A i \in Ids : Begun(i) => Begun(i)'
            /\ promised' = promised
         \/ Stopless /\ promised' = {}
<1>1. CASE Unwiped
  <2>1. req[r].kind \notin {"reset", "uncarried"}
    BY <1>1 DEF Unwiped, Wiping
  <2>2. promised' = promised
    BY <2>1 DEF SwapFiles
  <2>3. ASSUME NEW i \in Ids, Begun(i) PROVE Begun(i)'
    <3>1. CASE rows' = rows
      BY <3>1, <2>3 DEF Begun
    <3>2. CASE rows' = Carried(accounts')
      <4>1. rows[i] \in Row /\ rows[i].state # "absent"
        BY <2>3 DEF IInv, TypeOK, Begun
      <4>2. rows'[i].state = IF rows[i].state \in Live THEN "interrupted" ELSE rows[i].state
        BY <3>2, <4>1 DEF Carried, Row
      <4> QED
        BY <4>2, <2>3 DEF Begun, Live
    <3> QED
      BY <3>1, <3>2, <2>1 DEF SwapFiles
  <2> QED
    BY <2>2, <2>3
<1>2. CASE Stopless
  <2>1. promised' = promised \/ promised' = {}
    BY DEF SwapFiles
  <2> QED
    BY <1>2, <2>1 DEF Stopless
<1> QED
  BY <1>1, <1>2 DEF Apart, NoWipeOverAStop

\* So what has left the queue does not come back, as far as a Stop is concerned.
LEMMA BegunStays ==
  ASSUME IInv, Apart, NoWipeOverAStop, [Next]_vars, NEW i \in Ids, Begun(i)
  PROVE  \/ Begun(i)'
         \/ /\ promised' = {}
            /\ Stopless
            /\ \E r \in Requests : SwapFiles(r)
<1>1. CASE \A r \in Requests : ~SwapFiles(r)
  BY <1>1, RowGoes DEF IInv
<1>2. CASE \E r \in Requests : SwapFiles(r)
  BY <1>2, SwapKeeps
<1> QED
  BY <1>1, <1>2

(***************************************************************************)
(* What a Stop has to do, past its marks.                                  *)
(***************************************************************************)
Late == {"signal", "stopHeld", "waitClaim", "orphan"}

LEMMA PcSet == /\ \A x \in Request : \A l : [x EXCEPT !.pc = l].pc = l
               /\ Idle.pc = "idle"
BY DEF Request, Idle

LEMMA StopTodo ==
  ASSUME req \in [Procs -> Request], NEW r \in Requests, StopStep(r), req'[r].pc \in Late,
         NEW i \in req'[r].todo
  PROVE  \/ req[r].pc \in Late /\ i \in req[r].todo
         \/ rows[i].state = "running"
         \/ Resolve(r) /\ req[r].op = "stop" /\ i \in req[r].todo
<1> USE DEF Request
<1>0. r \in Procs /\ req[r] \in Request /\ req'[r] # Idle
  BY DEF Late, Idle
<1>1. ~Finish(r)
  BY <1>0 DEF Finish
<1>2. CASE StopStale(r) \/ OrphanFails(r) \/ StopDone(r)
  BY <1>0, <1>1, <1>2 DEF StopStale, OrphanFails, StopDone, Goto, Late
<1>3. CASE StopRead(r)
  <2>1. req'[r].pc = "signal"
    BY <1>3, StopReadMoves DEF Late
  <2>2. req'[r].todo = {req[r].id} /\ rows[req[r].id].state = "running"
    BY <2>1, <1>3, StopReadMoves
  <2> QED
    BY <2>2
<1>4. CASE Mark(r)
  BY <1>4, <1>0 DEF Mark, Late
<1>5. CASE Recheck(r)
  BY <1>5, <1>0 DEF Recheck, Goto, Late
<1>6. CASE Resolve(r)
  <2>1. req'[r].pc = "signal" => req[r].op = "stop" /\ req'[r].todo = req[r].todo
    BY <1>6, <1>0 DEF Resolve
  <2>2. req'[r].pc \in {"signal", "recheck"}
    BY <1>6, <1>0 DEF Resolve
  <2> QED
    BY <2>1, <2>2, <1>6 DEF Late
<1>7. CASE AfterHold(r)
  BY <1>7, <1>0, <1>1 DEF AfterHold, Goto, Late
<1>8. CASE Signal(r)
  BY <1>8, <1>0 DEF Signal, Goto, Late
<1>9. CASE SettleSoon(r)
  BY <1>9, <1>0, <1>1 DEF SettleSoon, Late
<1>10. CASE ReadRunning(r)
  BY <1>10, <1>0, <1>1 DEF ReadRunning
<1>11. CASE StopHeld(r)
  BY <1>11, <1>0 DEF StopHeld, Goto, Late
<1>12. CASE Orphan(r)
  BY <1>12, <1>0 DEF Orphan, Late
<1> QED
  BY <1>2, <1>3, <1>4, <1>5, <1>6, <1>7, <1>8, <1>9, <1>10, <1>11, <1>12 DEF StopStep

\* Whoever is past its marks was there before, or is a Stop.
LEMMA LateMoves ==
  ASSUME req \in [Procs -> Request], [Next]_vars, NEW r \in Requests, req'[r].pc \in Late
  PROVE  \/ req'[r] = req[r]
         \/ req[r].pc = "waitClaim" /\ req'[r] = [req[r] EXCEPT !.pc = "stopHeld"]
         \/ StopStep(r)
<1>0. r \in Procs /\ req[r] \in Request
  OBVIOUS
<1> USE DEF Late
<1>1. ~EnqueueStep(r)
  <2>1. EnqueueStep(r) => \/ req'[r] = Idle
                          \/ req'[r] = [req[r] EXCEPT !.pc = "insert"]
                          \/ req'[r] = [req[r] EXCEPT !.pc = "inserted"]
    BY <1>0, EnqueueMoves
  <2>2. /\ [req[r] EXCEPT !.pc = "insert"].pc = "insert"
        /\ [req[r] EXCEPT !.pc = "inserted"].pc = "inserted"
        /\ Idle.pc = "idle"
    BY <1>0 DEF Request, Idle
  <2> QED
    BY <2>1, <2>2
<1>2. ~Start(r)
  BY <1>0, StartMoves DEF Started
<1>3. ~DeleteStep(r)
  <2>1. DeleteStep(r) => \/ req'[r] = Idle
                         \/ req'[r] = [req[r] EXCEPT !.pc = "stopRead"]
                         \/ req'[r] = [req[r] EXCEPT !.pc = "deleteTx"]
    BY <1>0, DeleteMoves
  <2>2. /\ [req[r] EXCEPT !.pc = "stopRead"].pc = "stopRead"
        /\ [req[r] EXCEPT !.pc = "deleteTx"].pc = "deleteTx"
        /\ Idle.pc = "idle"
    BY <1>0 DEF Request, Idle
  <2> QED
    BY <2>1, <2>2
<1>4. ~ExclusiveStep(r)
  <2>1. ASSUME NEW l \in XPCs, req'[r] = [req[r] EXCEPT !.pc = l] PROVE req'[r].pc = l
    BY <2>1, <1>0 DEF Request
  <2>2. req'[r] # Idle
    BY DEF Idle
  <2>3. XPCs \cap Late = {}
    BY DEF XPCs
  <2> QED
    BY <2>1, <2>2, <2>3, ExclusiveMoves
<1>5. ~Restart
  BY <1>0 DEF Restart, Idle
<1> QED
  BY <1>0, <1>1, <1>2, <1>3, <1>4, <1>5, ReqChange

LEMMA TodoBegunKept ==
  ASSUME IInv, Taking, Apart, NoWipeOverAStop, TodoBegun, [Next]_vars PROVE TodoBegun'
<1> SUFFICES ASSUME NEW r \in Requests, req'[r].pc \in Late, NEW i \in req'[r].todo
             PROVE  Begun(i)'
  BY DEF TodoBegun, Late
<1>0. r \in Procs /\ req \in [Procs -> Request] /\ req[r] \in Request /\ Requests \subseteq Procs
  BY DEF IInv, TypeOK
<1>1. Begun(i) /\ i \in Ids
  <2>1. CASE req'[r] = req[r]
    BY <2>1, <1>0 DEF TodoBegun, Late, Request
  <2>2. CASE req[r].pc = "waitClaim" /\ req'[r] = [req[r] EXCEPT !.pc = "stopHeld"]
    <3>1. i \in req[r].todo
      BY <2>2, <1>0 DEF Request
    <3> QED
      BY <3>1, <2>2, <1>0 DEF TodoBegun, Late, Request
  <2>3. CASE StopStep(r)
    <3>0. i \in Ids
      <4>1. TypeOK'
        BY <2>3, StopType DEF IInv
      <4>2. req' \in [Procs -> Request]
        BY <4>1 DEF TypeOK
      <4>3. req'[r] \in Request
        BY <4>2, <1>0
      <4> QED
        BY <4>3 DEF Request
    <3>1. CASE req[r].pc \in Late /\ i \in req[r].todo
      BY <3>0, <3>1 DEF TodoBegun, Late
    <3>2. CASE rows[i].state = "running"
      BY <3>0, <3>2 DEF Begun
    <3>3. CASE Resolve(r) /\ req[r].op = "stop" /\ i \in req[r].todo
      <4>1. PICK k \in Ids : FirstOf(req[r].todo, k)
        BY <3>3, <1>0, ResolveMoves
      <4>2. req[r].pc = "resolve"
        BY <3>3, <1>0, ResolveMoves
      <4>3. req[r].todo \subseteq {req[r].id}
        BY <3>3, <4>2 DEF Taking, SteadyPCs
      <4>4. i = k
        BY <4>3, <4>1, <3>3 DEF FirstOf
      <4> QED
        BY <4>1, <4>2, <4>4 DEF Taking, FirstOf
    <3> QED
      BY <2>3, <3>1, <3>2, <3>3, <1>0, StopTodo
  <2> QED
    BY <1>0, <2>1, <2>2, <2>3, LateMoves
<1>2. CASE Stopless /\ \E q \in Requests : SwapFiles(q)
  <2>1. PICK q \in Requests : SwapFiles(q)
    BY <1>2
  <2>2. req[r].pc \notin StopPCs
    BY <1>2 DEF Stopless
  <2>3. r # q => req'[r] = req[r]
    BY <2>1, <1>0, SwapFacts
  <2>4. r = q => req'[r].pc = "fnEnd"
    <3>1. req'[q] = [req[q] EXCEPT !.pc = "fnEnd"] /\ req[q] \in Request
      BY <2>1, <1>0, SwapFacts
    <3> QED
      BY <3>1, PcSet
  <2> QED
    BY <2>2, <2>3, <2>4 DEF Late, StopPCs
<1> QED
  BY <1>1, <1>2, BegunStays

LEMMA OrphanNew ==
  ASSUME req \in [Procs -> Request], NEW r \in Requests, StopStep(r), req'[r].pc = "orphan",
         NEW i \in Ids, FirstOf(req'[r].todo, i)
  PROVE  ~InHand(i) /\ wpc' = wpc /\ hand' = hand
<1> USE DEF Request
<1>0. r \in Procs /\ req[r] \in Request /\ req'[r] # Idle
  BY DEF Idle
<1>1. ~Finish(r)
  BY <1>0 DEF Finish
<1>2. StopHeld(r)
  <2>1. ~(StopStale(r) \/ OrphanFails(r) \/ StopDone(r))
    BY <1>0, <1>1 DEF StopStale, OrphanFails, StopDone, Goto
  <2>2. ~StopRead(r)
    BY <1>0, StopReadMoves
  <2>7. ~Mark(r)
    BY <1>0 DEF Mark
  <2>3. ~Recheck(r)
    <3>1. Recheck(r) => req'[r].pc \in {"recheck", "resolve"}
      BY <1>0 DEF Recheck, Goto
    <3> QED
      BY <3>1
  <2>4. ~Resolve(r)
    <3>1. Resolve(r) => req'[r].pc \in {"signal", "recheck"}
      BY <1>0 DEF Resolve
    <3> QED
      BY <3>1
  <2>5. ~(AfterHold(r) \/ Signal(r) \/ SettleSoon(r))
    BY <1>0, <1>1 DEF AfterHold, Signal, SettleSoon, Goto
  <2>6. ~ReadRunning(r)
    BY <1>0, <1>1 DEF ReadRunning
  <2>8. ~Orphan(r)
    <3>1. Orphan(r) => req'[r].pc = "stopHeld"
      BY <1>0 DEF Orphan
    <3> QED
      BY <3>1
  <2> QED
    BY <2>1, <2>2, <2>3, <2>4, <2>5, <2>6, <2>7, <2>8 DEF StopStep
<1>3. PICK k \in req[r].todo :
        /\ \A j \in req[r].todo : k <= j
        /\ ~claiming /\ running # k /\ req'[r].todo = req[r].todo /\ hand' = hand
  BY <1>0, <1>2 DEF StopHeld, Goto
<1>4. i = k
  <2>1. i \in Nat /\ k \in Nat
    BY <1>0, <1>3 DEF Request, Ids
  <2>2. i <= k /\ k <= i
    BY <1>3 DEF FirstOf
  <2> QED
    BY <2>1, <2>2
<1>5. ~InHand(i)
  BY <1>3, <1>4 DEF InHand, Taken, claiming, ClaimPCs, running
<1> QED
  BY <1>2, <1>3, <1>5 DEF StopHeld

(***************************************************************************)
(* The job in hand, and Close.                                             *)
(***************************************************************************)
\* A job comes into the worker's hands from the queue, by a claim.
LEMMA InHandNew ==
  ASSUME IInv, HandBegun, [Next]_vars, NEW i \in Ids, InHand(i)'
  PROVE  \/ InHand(i) /\ (wpc' = "claimed" => wpc = "claimed")
         \/ /\ ClaimUpdate /\ wpc' = "claimed"
            /\ rows[i].state = "queued" /\ rows' = Set(i, "running")
<1>1. wpc' \in Taken /\ hand'.id = i /\ i # NoJob
  BY DEF InHand, Ids, Taken
<1>2. \/ wpc \in Taken /\ hand'.id = hand.id /\ (wpc' = "claimed" => wpc = "claimed")
      \/ /\ ClaimUpdate /\ wpc' = "claimed" /\ hand'.id \in Claimable
         /\ rows' = Set(hand'.id, "running")
  BY <1>1, HandChange DEF IInv, Control
<1> QED
  BY <1>1, <1>2 DEF InHand, Claimable

LEMMA OrphanOutKept ==
  ASSUME IInv, HandBegun, TodoBegun, OrphanOut, [Next]_vars PROVE OrphanOut'
<1> SUFFICES ASSUME NEW r \in Requests, req'[r].pc = "orphan",
                    NEW i \in Ids, FirstOf(req'[r].todo, i)
             PROVE  ~InHand(i)'
  BY DEF OrphanOut, FirstOf
<1>0. r \in Procs /\ req \in [Procs -> Request] /\ req[r] \in Request /\ req'[r].pc \in Late
  BY DEF IInv, TypeOK, Late
<1>1. CASE req'[r] = req[r]
  <2>1. FirstOf(req[r].todo, i) /\ req[r].pc = "orphan"
    BY <1>1
  <2>2. ~InHand(i) /\ Begun(i)
    BY <2>1 DEF OrphanOut, TodoBegun, FirstOf
  <2> QED
    BY <2>2, InHandNew DEF Begun
<1>2. CASE req'[r] = [req[r] EXCEPT !.pc = "stopHeld"]
  BY <1>2, <1>0 DEF Request
<1>3. CASE StopStep(r)
  <2>1. ~InHand(i) /\ wpc' = wpc /\ hand' = hand
    BY <1>0, <1>3, OrphanNew
  <2> QED
    BY <2>1 DEF InHand
<1> QED
  BY <1>0, <1>1, <1>2, <1>3, LateMoves

\* What a job in hand has been told it goes on knowing, and what has ended has ended.
LEMMA HandGoesOn ==
  ASSUME IInv, [Next]_vars, wpc \in HandPCs, wpc' \in HandPCs
  PROVE  /\ hand.stop = TRUE => hand'.stop = TRUE
         /\ hand.shutdown = TRUE => hand'.shutdown = TRUE
         /\ wpc' = "item" => wpc = "item" \/ BeginItem
         /\ wpc = "release" => wpc' = "release"
         /\ runEnded => runEnded'
         /\ wpc' = "release" /\ wpc # "release" => RecordEnd \/ RecordNothing
<1> USE DEF HandPCs, runEnded
<1>0. hand \in Hand
  BY DEF IInv, TypeOK
<1>1. ~ClaimStep
  BY DEF ClaimStep, WorkerTop, WorkerSettle, ClaimRead, ClaimUpdate, ClaimRetry,
         ClaimGivesUp, AfterClaim, AfterEmptyClaim
<1>2. ~Restart
  BY DEF Restart
<1>3. CASE RunStep
  <2>1. CASE Execute
    BY <2>1, <1>0 DEF Execute, Returns, Hand
  <2>2. CASE BeginItem \/ FinishItem \/ AbandonItem \/ Progress
    BY <2>2, <1>0 DEF BeginItem, FinishItem, AbandonItem, Progress, Hand
  <2>3. CASE RunTold \/ RunDone \/ RunFails
    BY <2>3, <1>0 DEF RunTold, RunDone, RunFails, Returns, Hand
  <2>4. CASE RecordEnd \/ RecordNothing \/ Release
    BY <2>4 DEF RecordEnd, RecordNothing, Release
  <2>5. ASSUME NEW w \in Works, ContinueStart(w)
        PROVE  hand' = hand /\ wpc = "between" /\ wpc' = "continue"
    BY <2>5 DEF ContinueStart
  <2> QED
    BY <1>3, <2>1, <2>2, <2>3, <2>4, <2>5 DEF RunStep
<1>4. CASE /\ \/ wpc' = wpc
              \/ wpc = "none" /\ wpc' = "top"
              \/ wpc = "continue" /\ wpc' = "between"
           /\ hand.stop => hand'.stop
           /\ hand.shutdown => hand'.shutdown
  <2>1. hand'.stop \in BOOLEAN /\ hand'.shutdown \in BOOLEAN
    <3>1. IInv'
      BY StepInv
    <3> QED
      BY <3>1 DEF IInv, TypeOK, Hand
  <2> QED
    BY <1>4, <2>1
<1> QED
  BY <1>1, <1>2, <1>3, <1>4, WorkerKept DEF IInv, Control

\* What Close gave up it does not take back.
LEMMA AbandonedStays ==
  ASSUME Shut, [Next]_vars, abandoned # NoJob
  PROVE  abandoned' = abandoned \/ Restart
<1>1. ~CloseAbandon
  BY DEF Shut, CloseAbandon
<1>2. CloseBegin \/ CloseAbandonWrite => abandoned' = abandoned
  BY DEF CloseBegin, CloseAbandonWrite
<1> QED
  BY <1>1, <1>2, CloseChange

LEMMA HandRunsKept ==
  ASSUME IInv, HandBegun, OrphanOut, HandRuns, Shut, [Next]_vars PROVE HandRuns'
<1> SUFFICES ASSUME NEW i \in Ids, InHand(i)', wpc' # "release", abandoned' # i
             PROVE  rows'[i].state = "running"
  BY DEF HandRuns
<1>0. rows \in [Ids -> Row] /\ i # NoJob
  BY DEF IInv, TypeOK, Ids
<1>1. ~Restart
  BY DEF Restart, InHand, Taken, HandPCs
<1>2. CASE rows[i].state = "queued" /\ rows' = Set(i, "running")
  BY <1>0, <1>2 DEF Set, Row
<1>3. CASE InHand(i) /\ (wpc' = "claimed" => wpc = "claimed")
  <2>1. wpc # "release"
    <3>1. wpc' \in HandPCs \/ wpc = "claimed"
      BY <1>3 DEF InHand, Taken
    <3> QED
      BY <3>1, HandGoesOn DEF HandPCs
  <2>2. abandoned # i
    BY <1>0, <1>1, AbandonedStays
  <2>3. rows[i].state = "running"
    BY <2>1, <2>2, <1>3 DEF HandRuns
  <2>4. \A r \in Requests : ~SwapFiles(r)
    BY <1>3, SwapFacts DEF InHand, Taken, HandPCs
  <2>5. \A r \in Requests : Orphan(r) => ~FirstOf(req[r].todo, i)
    BY <1>3 DEF Orphan, OrphanOut
  <2>6. ~RecordEnd
    BY DEF RecordEnd
  <2>7. ASSUME NEW r \in Requests, rows'[i] = [rows[i] EXCEPT !.uid = NoUid]
        PROVE  rows'[i].state = "running"
    BY <2>7, <2>3, <1>0 DEF Row
  <2>8. CASE rows'[i] = rows[i]
    BY <2>8, <2>3
  <2> QED
    BY <2>2, <2>3, <2>4, <2>5, <2>6, <2>7, <2>8, <1>1, RowChange
       DEF IInv, Claimable
<1> QED
  BY <1>2, <1>3, InHandNew

\* A claim begins at the worker's top, while the queue is open.
LEMMA ClaimBegins ==
  ASSUME TypeOK, RunContinues, [Next]_vars, wpc' \in ClaimPCs, wpc \notin ClaimPCs
  PROVE  ~closed /\ cpc' = cpc
<1> USE DEF ClaimPCs
<1>1. CASE ClaimStep
  BY <1>1 DEF ClaimStep, WorkerTop, WorkerSettle, ClaimRead, ClaimUpdate, ClaimRetry,
              ClaimGivesUp, AfterClaim, AfterEmptyClaim, closeVars
<1>2. ~RunStep
  BY DEF RunStep, Execute, BeginItem, FinishItem, AbandonItem, Progress, RunTold, RunDone,
         RunFails, RecordEnd, RecordNothing, Release, ContinueStart, Returns
<1>3. ~Restart
  BY DEF Restart
<1> QED
  BY <1>1, <1>2, <1>3, WorkerKept

LEMMA ShutKept == ASSUME IInv, Shut, [Next]_vars PROVE Shut'
<1>0. TypeOK /\ RunContinues /\ HandHasJob /\ hand \in Hand
  BY DEF IInv, TypeOK, Control
<1>1. ASSUME wpc' \in HandPCs, closed' PROVE hand'.shutdown = TRUE
  <2>1. ~Restart
    BY <1>1 DEF Restart, HandPCs
  <2>2. CASE wpc \in HandPCs /\ closed
    BY <2>2, <1>1, HandGoesOn DEF Shut
  <2>3. CASE wpc \in HandPCs /\ ~closed
    <3>1. CloseBegin
      BY <2>3, <1>1, <2>1, CloseChange DEF closed, CloseAbandon, CloseAbandonWrite
    <3>2. running # NoJob
      BY <2>3, <1>0 DEF running, HandHasJob
    <3> QED
      BY <3>1, <3>2, <1>0 DEF CloseBegin, Hand
  <2>4. CASE wpc \notin HandPCs
    <3>1. ~RunStep
      BY <2>4 DEF RunStep, Execute, BeginItem, FinishItem, AbandonItem, Progress, RunTold,
         RunDone, RunFails, RecordEnd, RecordNothing, Release, ContinueStart, HandPCs
    <3>2. CASE ClaimStep
      <4>1. AfterClaim
        BY <3>2, <2>4, <1>1, <1>0, WorkerMoves
      <4>2. hand'.shutdown = closed /\ cpc' = cpc
        BY <4>1, <1>0 DEF AfterClaim, Hand, closeVars
      <4> QED
        BY <4>2, <1>1 DEF closed
    <3>3. ~(wpc' = wpc) /\ wpc' # "top" /\ wpc # "continue"
      BY <2>4, <1>1 DEF HandPCs
    <3> QED
      BY <3>1, <3>2, <3>3, <2>1, <1>0, WorkerKept
  <2> QED
    BY <2>2, <2>3, <2>4
<1>2. ASSUME abandoned' # NoJob PROVE closed' /\ wpc' \notin ClaimPCs
  <2>1. ~Restart
    BY <1>2 DEF Restart
  <2>2. CASE CloseAbandon
    <3>1. running # NoJob /\ wpc' = wpc /\ cpc' = "abandoning"
      BY <2>2, <1>2 DEF CloseAbandon, workerVars
    <3> QED
      BY <3>1 DEF running, HandPCs, ClaimPCs, closed
  <2>3. CASE abandoned' = abandoned
    <3>1. closed /\ wpc \notin ClaimPCs
      BY <2>3, <1>2 DEF Shut
    <3>2. closed'
      BY <3>1, <2>1, <1>0, FlagsChange DEF closed
    <3> QED
      BY <3>1, <3>2, <1>0, ClaimBegins
  <2> QED
    BY <2>1, <2>2, <2>3, CloseChange DEF CloseBegin, CloseAbandonWrite
<1>3. ASSUME cpc' \in {"open", "waitWorker", "cancelWait"} PROVE abandoned' = NoJob
  <2>1. CASE CloseBegin
    BY <2>1 DEF CloseBegin, Shut
  <2>2. CASE CloseAbandon
    BY <2>2, <1>3 DEF CloseAbandon
  <2>3. CASE CloseAbandonWrite
    BY <2>3, <1>3 DEF CloseAbandonWrite
  <2>4. CASE Restart
    BY <2>4 DEF Restart
  <2>5. CASE cpc' = cpc /\ abandoned' = abandoned
    BY <2>5, <1>3 DEF Shut
  <2>6. CASE /\ cpc' \notin {"open", "waitWorker"}
             /\ (cpc' = "cancelWait" => cpc = "waitWorker") /\ abandoned' = abandoned
    BY <2>6, <1>3 DEF Shut
  <2> QED
    BY <2>1, <2>2, <2>3, <2>4, <2>5, <2>6, CloseChange
<1> QED
  BY <1>1, <1>2, <1>3 DEF Shut

(***************************************************************************)
(* What a Stop was told.                                                   *)
(***************************************************************************)
\* No step but a swap takes a promise back.
LEMMA PromisedGrows ==
  ASSUME req \in [Procs -> Request], [Next]_vars, \A r \in Requests : ~SwapFiles(r)
  PROVE  promised \subseteq promised'
<1>1. ASSUME NEW r \in Requests, Recheck(r) PROVE promised \subseteq promised'
  BY <1>1 DEF Recheck
<1>2. ASSUME NEW r \in Requests, Resolve(r) PROVE promised \subseteq promised'
  BY <1>2 DEF Resolve
<1> QED
  BY <1>1, <1>2, PromisedChange

\* A job that is over stays so.
LEMMA OverStays ==
  ASSUME IInv, [Next]_vars, wpc \in HandPCs, NEW i \in Ids, Begun(i),
         rows[i].state # "running"
  PROVE  rows'[i].state # "running"
<1>1. \A r \in Requests : ~SwapFiles(r)
  BY SwapFacts DEF HandPCs
<1>2. rows \in [Ids -> Row]
  BY DEF IInv, TypeOK
<1>3. ASSUME rows'[i] = [rows[i] EXCEPT !.uid = NoUid] PROVE rows'[i].state # "running"
  BY <1>2, <1>3 DEF Row
<1>4. CASE rows'[i] = rows[i]
  BY <1>4
<1> QED
  BY <1>1, <1>3, <1>4, RowChange DEF IInv, Begun, Claimable, Live

LEMMA DeadStays ==
  ASSUME IInv, HandBegun, Shut, [Next]_vars, NEW i \in Ids, Dead(i), Begun(i)'
  PROVE  Dead(i)'
<1> SUFFICES ASSUME InHand(i)' PROVE wpc' \in HandPCs /\ Over(i)'
  BY DEF Dead
<1>0. i # NoJob /\ hand \in Hand
  BY DEF Ids, IInv, TypeOK
<1>1. InHand(i) /\ (wpc' = "claimed" => wpc = "claimed")
  BY InHandNew DEF Dead, Begun
<1>2. wpc \in HandPCs /\ Over(i)
  BY <1>1 DEF Dead
<1>3. wpc' \in HandPCs
  BY <1>1, <1>2 DEF InHand, Taken, HandPCs
<1>4. CASE runEnded
  BY <1>4, <1>2, <1>3, HandGoesOn DEF Over
<1>5. CASE hand.stop = TRUE /\ wpc # "item"
  <2>1. ~BeginItem
    BY <1>5 DEF BeginItem, StopAsked
  <2>2. hand'.stop = TRUE /\ wpc' # "item"
    BY <1>5, <2>1, <1>2, <1>3, HandGoesOn
  <2> QED
    BY <1>3, <2>2 DEF Over
<1>6. CASE abandoned = i /\ rows[i].state # "running"
  <2>1. ~Restart
    BY <1>3 DEF Restart, HandPCs
  <2>2. abandoned' = i
    BY <1>0, <1>6, <2>1, AbandonedStays
  <2>3. rows'[i].state # "running"
    BY <1>2, <1>6, OverStays DEF Dead
  <2> QED
    BY <1>3, <2>2, <2>3 DEF Over
<1> QED
  BY <1>2, <1>3, <1>4, <1>5, <1>6 DEF Over

\* A job that leaves the queue otherwise than by a claim is over.
LEMMA OutDead ==
  ASSUME IInv, HandBegun, [Next]_vars, NEW i \in Ids, rows[i].state = "queued",
         rows'[i].state \notin {"absent", "queued", "running"}
  PROVE  Dead(i)'
<1>1. ~InHand(i)'
  <2>1. rows' # Set(i, "running")
    BY DEF Set, IInv, TypeOK, Row
  <2> QED
    BY <2>1, InHandNew DEF HandBegun, Begun
<1> QED
  BY <1>1 DEF Dead, Begun

\* The claim that took a job it finds marked stops it before it begins.
LEMMA ClaimedDead ==
  ASSUME IInv, HandBegun, NEW i \in HeldNow, AfterClaim, i = hand.id PROVE Dead(i)'
<1>1. wpc = "claimed" /\ wpc' = "execute" /\ rows' = rows /\ i \in Ids /\ hand \in Hand
  BY DEF AfterClaim, dbVars, HeldNow, IInv, TypeOK
<1>2. Begun(i)'
  BY <1>1 DEF HandBegun, InHand, Taken, Begun
<1>3. Unheld
  BY <1>1 DEF Unheld, HeldNow, IInv, Control, HandInGeneration
<1>4. hand'.stop = TRUE
  BY <1>1, <1>3 DEF AfterClaim, Hand
<1> QED
  BY <1>1, <1>2, <1>4 DEF Dead, Over, HandPCs

\* A mark that is written goes with its job, or was on a job that is over.
LEMMA SettledDead ==
  ASSUME IInv, HandBegun, Shut, HandRuns, Marks, [Next]_vars, \A r \in Requests : ~SwapFiles(r),
         Settle, NEW i \in HeldNow, rows[i].state # "running"
  PROVE  Dead(i)'
<1>0. i \in Ids /\ rows \in [Ids -> Row]
  BY DEF HeldNow, IInv, TypeOK
<1>1. CASE rows[i].state = "queued"
  <2>1. rows'[i].state = "stopped"
    BY <1>0, <1>1 DEF Settle, SettledRows, Row
  <2> QED
    BY <1>0, <1>1, <2>1, OutDead
<1>2. CASE rows[i].state # "queued"
  <2>1. Begun(i)
    BY <1>0, <1>2 DEF Marks, Begun
  <2>2. Dead(i)
    <3> SUFFICES ASSUME InHand(i) PROVE wpc \in HandPCs /\ Over(i)
      BY <2>1 DEF Dead
    <3>1. CASE wpc = "release"
      BY <3>1 DEF Over, runEnded, HandPCs
    <3>2. CASE abandoned = i
      <4>1. wpc \notin ClaimPCs
        BY <3>2, <1>0 DEF Shut, Ids
      <4> QED
        BY <4>1, <3>2 DEF Over, InHand, Taken, ClaimPCs
    <3> QED
      BY <3>1, <3>2, <1>0 DEF HandRuns
  <2>3. Begun(i)'
    BY <1>0, <2>1, RowGoes DEF IInv
  <2> QED
    BY <1>0, <2>2, <2>3, DeadStays
<1> QED
  BY <1>1, <1>2

\* A Stop that is in its Steady read at the end of a step was not overtaken by a swap.
LEMMA SteadyNoSwap ==
  ASSUME IInv, Moving, NEW r \in Requests, req'[r].pc \in SteadyPCs, NEW q \in Requests
  PROVE  ~SwapFiles(q)
<1> SUFFICES ASSUME SwapFiles(q) PROVE FALSE
  OBVIOUS
<1>0. r \in Procs /\ req[q] \in Request
  BY DEF IInv, TypeOK
<1>1. ~steadyHeld
  BY SwapFacts DEF Moving
<1>2. CASE r = q
  <2>1. req'[r] = [req[r] EXCEPT !.pc = "fnEnd"]
    BY <1>2, SwapFacts
  <2> QED
    BY <2>1, <1>0, <1>2 DEF Request, SteadyPCs
<1>3. CASE r # q
  <2>1. req'[r] = req[r]
    BY <1>0, <1>3, SwapFacts
  <2> QED
    BY <2>1, <1>1 DEF steadyHeld
<1> QED
  BY <1>2, <1>3

\* A Stop that settles the mark of a job has that job no more to do.
LEMMA ResolveUnmarks ==
  ASSUME req \in [Procs -> Request], NEW r \in Requests, Resolve(r), NEW i \in Ids,
         FirstOf(req[r].todo, i)
  PROVE  ~Marking(r, i)' /\ Marking(r, i)
<1>0. r \in Procs /\ req[r] \in Request
  OBVIOUS
<1>1. PICK k \in Ids :
        /\ FirstOf(req[r].todo, k)
        /\ \/ req'[r] = [req[r] EXCEPT !.pc = "signal"]
           \/ req'[r] = [req[r] EXCEPT !.pc = "recheck", !.todo = @ \ {k}]
           \/ req'[r] = [req[r] EXCEPT !.pc = "recheck", !.todo = @ \ {k},
                                       !.fresh = @ \cup {k}]
  BY <1>0, ResolveMoves
<1>2. k = i
  BY <1>1 DEF FirstOf, Ids
<1>3. req'[r].pc \notin {"recheck", "resolve"} \/ i \notin req'[r].todo
  <2>1. [req[r] EXCEPT !.pc = "signal"].pc = "signal"
    BY <1>0 DEF Request
  <2>2. [req[r] EXCEPT !.pc = "recheck", !.todo = @ \ {k}].todo = req[r].todo \ {k}
    BY <1>0 DEF Request
  <2>3. [req[r] EXCEPT !.pc = "recheck", !.todo = @ \ {k}, !.fresh = @ \cup {k}].todo
          = req[r].todo \ {k}
    BY <1>0 DEF Request
  <2> QED
    BY <1>1, <1>2, <2>1, <2>2, <2>3
<1>4. req[r].pc = "resolve"
  BY DEF Resolve
<1> QED
  BY <1>3, <1>4 DEF Marking, FirstOf

LEMMA MarkedKept ==
  ASSUME IInv, HandBegun, Marks, Taking, Moving, HandRuns, Shut, Apart, NoWipeOverAStop,
         Marked, [Next]_vars
  PROVE  Marked'
<1> SUFFICES ASSUME NEW r \in Requests, NEW i \in Ids, Marking(r, i)'
             PROVE  Own(r, i)' \/ Dead(i)'
  BY DEF Marked
<1>0. r \in Procs /\ req \in [Procs -> Request] /\ TypeOK /\ Control
  BY DEF IInv, TypeOK
<1>1. ~Restart
  BY <1>0 DEF Restart, Idle, Marking
<1>2. \A q \in Requests : ~SwapFiles(q)
  BY SteadyNoSwap DEF Marking, SteadyPCs
<1>3. CASE ~Marking(r, i)
  <2>1. held'[i] = [gen |-> gen, by |-> r] /\ gen' = gen
    BY <1>0, <1>3, MarkingNew
  <2> QED
    BY <2>1 DEF Own, HeldNow
<1>4. CASE Dead(i)
  <2>1. Begun(i)'
    BY <1>0, <1>2, <1>4, RowGoes DEF Dead
  <2> QED
    BY <1>4, <2>1, DeadStays
<1>5. CASE Marking(r, i) /\ Own(r, i)
  <2>0. i \in HeldNow /\ held[i].by = r
    BY <1>5 DEF Own
  <2>1. CASE MarkKept(i)
    BY <2>0, <2>1 DEF MarkKept, Own
  <2>2. CASE Settle /\ rows[i].state # "running"
    BY <2>0, <2>2, <1>2, SettledDead
  <2>3. CASE AfterClaim /\ i = hand.id
    BY <2>0, <2>3, ClaimedDead
  <2>4. ASSUME NEW q \in Requests, Resolve(q), FirstOf(req[q].todo, i)
        PROVE  Own(r, i)' \/ Dead(i)'
    <3>1. Marking(q, i) /\ q # r
      BY <1>0, <2>4, ResolveUnmarks
    <3>2. Dead(i)
      BY <3>1, <2>0 DEF Marked, Own
    <3> QED
      BY <3>2, <1>4
  <2> QED
    BY <1>0, <1>1, <1>2, <2>0, <2>1, <2>2, <2>3, <2>4, MarkChange
<1> QED
  BY <1>3, <1>4, <1>5 DEF Marked

\* One that is still marked is, or is over.
LEMMA StillMarkedKept ==
  ASSUME IInv, HandBegun, Marks, Taking, Moving, HandRuns, Shut, Marked, [Next]_vars,
         \A r \in Requests : ~SwapFiles(r), NEW i \in Ids, StillMarked(i)
  PROVE  Dead(i)' \/ StillMarked(i)'
<1>0. TypeOK /\ Control /\ req \in [Procs -> Request] /\ rows \in [Ids -> Row]
  BY DEF IInv, TypeOK
<1>h. i \in HeldNow /\ ~Marking(held[i].by, i) /\ held[i].by \in Requests
      /\ rows[i].state # "absent"
  BY DEF StillMarked, Marks
<1>d. ASSUME Dead(i) PROVE Dead(i)'
  <2>1. Begun(i)'
    BY <1>0, <1>d, RowGoes DEF Dead
  <2> QED
    BY <1>d, <2>1, DeadStays
<1>1. CASE Restart
  <2>1. Begun(i)'
    <3>1. rows'[i].state # "queued"
      BY <1>1, RestartFacts
    <3>2. rows'[i].state # "absent"
      BY <1>0, <1>h, RowGoes
    <3> QED
      BY <3>1, <3>2 DEF Begun
  <2>2. ~InHand(i)'
    BY <1>1 DEF Restart, InHand, Taken, HandPCs
  <2> QED
    BY <2>1, <2>2 DEF Dead
<1>2. CASE AfterClaim /\ i = hand.id
  BY <1>2, <1>h, ClaimedDead
<1>3. CASE Settle /\ rows[i].state # "running"
  BY <1>3, <1>h, SettledDead
<1>4. CASE ~Restart /\ MarkKept(i) /\ ~(AfterClaim /\ i = hand.id)
  <2>1. i \in HeldNow' /\ held'[i].by = held[i].by
    BY <1>4, <1>h DEF MarkKept
  <2>2. ASSUME NEW q \in Requests, q = held[i].by PROVE ~Marking(q, i)'
    BY <1>0, <1>h, <2>2, MarkingNew
  <2>3. ~Marking(held[i].by, i)'
    BY <2>1, <2>2, <1>h DEF Marking
  <2>4. CASE rows[i].state = "queued"
    <3>1. CASE rows'[i].state = "queued"
      BY <3>1, <2>1, <2>3 DEF StillMarked
    <3>2. CASE rows'[i].state \notin {"absent", "queued", "running"}
      BY <3>2, <2>4, OutDead
    <3>3. CASE rows'[i].state = "running"
      <4>1. wpc' = "claimed" /\ hand'.id = i
        <5>1. ASSUME NEW q \in Requests, rows'[i] = [rows[i] EXCEPT !.uid = NoUid]
              PROVE  rows'[i].state = "queued"
          BY <5>1, <2>4, <1>0 DEF Row
        <5>3. ASSUME NEW st, Becomes(i, st) PROVE rows'[i].state = st
          BY <5>3, <1>0 DEF Becomes, Row
        <5>4. ~Becomes(i, "stopped") /\ ~Becomes(i, "interrupted") /\ rows'[i] # rows[i]
          BY <5>3, <3>3, <2>4
        <5>2. ClaimUpdate /\ hand'.id = i
          BY <1>0, <2>4, <3>3, <5>1, <5>4, <1>4, RowChange
        <5> QED
          BY <5>2 DEF ClaimUpdate
      <4> QED
        BY <4>1, <2>1, <2>3 DEF StillMarked
    <3>4. rows'[i].state # "absent"
      BY <1>0, <1>h, RowGoes
    <3> QED
      BY <3>1, <3>2, <3>3, <3>4
  <2>5. CASE wpc = "claimed" /\ hand.id = i
    <3>1. CASE ClaimStep \/ RunStep
      <4>1. AfterEmptyClaim
        BY <1>0, <1>4, <2>5, <3>1, WorkerMoves
      <4> QED
        BY <4>1, <2>5 DEF AfterEmptyClaim, Ids
    <3>2. CASE wpc' = wpc /\ hand'.id = hand.id
      BY <3>2, <2>5, <2>1, <2>3 DEF StillMarked
    <3> QED
      BY <3>1, <3>2, <2>5, <1>0, <1>4, WorkerKept DEF Control
  <2> QED
    BY <2>4, <2>5 DEF StillMarked
<1>5. ASSUME NEW q \in Requests, Resolve(q), FirstOf(req[q].todo, i) PROVE Dead(i)'
  <2>1. Marking(q, i)
    BY <1>0, <1>5, ResolveUnmarks
  <2>2. Dead(i)
    <3>1. ~Own(q, i)
      BY <2>1, <1>h DEF Own
    <3> QED
      BY <2>1, <3>1 DEF Marked
  <2> QED
    BY <2>2, <1>d
<1> QED
  BY <1>0, <1>h, <1>1, <1>2, <1>3, <1>4, <1>5, MarkChange

LEMMA PromisedKept ==
  ASSUME IInv, HandBegun, Marks, Taking, Moving, HandRuns, Shut, Apart, NoWipeOverAStop,
         Marked, Promised, [Next]_vars
  PROVE  Promised'
<1> SUFFICES ASSUME NEW i \in promised' PROVE Dead(i)' \/ StillMarked(i)'
  BY DEF Promised
<1>0. /\ i \in Ids /\ req \in [Procs -> Request] /\ TypeOK /\ Control /\ promised \subseteq Ids
  <2>1. IInv'
    BY StepInv
  <2> QED
    BY <2>1 DEF IInv, TypeOK
<1>1. CASE \E q \in Requests : SwapFiles(q)
  <2>0. PICK q \in Requests : SwapFiles(q)
    BY <1>1
  <2>1. promised' = promised /\ (Begun(i) => Begun(i)')
    BY <2>0, <1>0, SwapKeeps
  <2>2. Dead(i) \/ StillMarked(i)
    BY <2>1 DEF Promised
  <2>3. ~StillMarked(i)
    <3>1. swapMoving /\ wpc # "claimed"
      BY <2>0, SwapFacts
    <3> QED
      BY <3>1, <1>0 DEF Moving, StillMarked, Waiting
  <2> QED
    BY <1>0, <2>1, <2>2, <2>3, DeadStays DEF Dead
<1>2. CASE (\A q \in Requests : ~SwapFiles(q)) /\ i \in promised
  <2>1. CASE Dead(i)
    <3>1. Begun(i)'
      BY <1>0, <1>2, <2>1, RowGoes DEF Dead
    <3> QED
      BY <1>0, <2>1, <3>1, DeadStays
  <2>2. CASE StillMarked(i)
    BY <1>0, <1>2, <2>2, StillMarkedKept
  <2> QED
    BY <1>2, <2>1, <2>2 DEF Promised
<1>3. CASE (\A q \in Requests : ~SwapFiles(q)) /\ i \notin promised
  <2>1. ASSUME NEW r \in Requests, Recheck(r) PROVE StillMarked(i)'
    <3>0. r \in Procs /\ req[r] \in Request
      BY <1>0
    <3>1. /\ req[r].pc = "recheck" /\ i \in req[r].todo /\ rows[i].state = "queued"
          /\ req'[r].todo = req[r].todo \ {i}
      <4>1. PICK k \in Ids :
              /\ FirstOf(req[r].todo, k)
              /\ rows[k].state = "queued"
              /\ req'[r] = [req[r] EXCEPT !.todo = @ \ {k}, !.fresh = @ \cup {k}]
              /\ promised' = promised \cup {k}
        BY <1>0, <1>3, <2>1, RecheckMoves
      <4>2. k = i
        BY <4>1, <1>3
      <4> QED
        BY <4>1, <4>2, <3>0, <2>1 DEF Request, FirstOf, Recheck
    <3>2. Own(r, i)
      <4>1. Marking(r, i)
        BY <3>1 DEF Marking
      <4>2. ~Dead(i)
        BY <3>1 DEF Dead, Begun
      <4> QED
        BY <4>1, <4>2, <1>0 DEF Marked
    <3>3. held' = held /\ gen' = gen /\ rows' = rows
      BY <2>1 DEF Recheck, dbVars, memVars
    <3>4. ~Marking(r, i)'
      BY <3>1 DEF Marking
    <3> QED
      BY <3>1, <3>2, <3>3, <3>4 DEF StillMarked, Own, HeldNow, Marking
  <2>2. ASSUME NEW r \in Requests, Resolve(r) PROVE Dead(i)'
    <3>1. PICK k \in Ids :
            /\ FirstOf(req[r].todo, k)
            /\ k \notin HeldNow \/ held[k].by # r
            /\ promised' = promised \cup {k}
      BY <1>0, <1>3, <2>2, ResolveMoves
    <3>2. k = i
      BY <3>1, <1>3
    <3>3. Marking(r, i)
      BY <1>0, <2>2, <3>1, <3>2, ResolveUnmarks
    <3>4. Dead(i)
      BY <1>0, <3>1, <3>2, <3>3 DEF Marked, Own
    <3>5. Begun(i)'
      BY <1>0, <1>3, <3>4, RowGoes DEF Dead
    <3> QED
      BY <1>0, <3>4, <3>5, DeadStays
  <2> QED
    BY <1>3, <2>1, <2>2, PromisedChange
<1> QED
  BY <1>1, <1>2, <1>3

LEMMA FreshPromisedKept ==
  ASSUME IInv, Taking, Moving, FreshPromised, [Next]_vars PROVE FreshPromised'
<1> SUFFICES ASSUME NEW r \in Requests, NEW i \in Ids, Fresh(r, i)' PROVE i \in promised'
  BY DEF FreshPromised
<1>0. r \in Procs /\ req \in [Procs -> Request] /\ req[r] \in Request
  BY DEF IInv, TypeOK
<1>1. promised \subseteq promised'
  <2>1. \A q \in Requests : ~SwapFiles(q)
    BY SteadyNoSwap DEF Fresh, SteadyPCs
  <2> QED
    BY <1>0, <2>1, PromisedGrows
<1>2. CASE Fresh(r, i)
  BY <1>1, <1>2 DEF FreshPromised
<1>3. CASE ~Fresh(r, i)
  <2> USE DEF Fresh
  <2>1. ~Restart
    BY <1>0 DEF Restart, Idle
  <2>2. ~StopRead(r)
    BY <1>0, StopReadMoves
  <2>3. ~Mark(r)
    <3>1. Mark(r) => req[r].pc = "mark" /\ req'[r].fresh = req[r].fresh
      BY <1>0 DEF Mark, Request
    <3> QED
      BY <3>1 DEF Taking
  <2>4. CASE Recheck(r)
    <3>1. PICK k \in Ids :
            \/ /\ req'[r] = [req[r] EXCEPT !.todo = @ \ {k}, !.fresh = @ \cup {k}]
               /\ promised' = promised \cup {k}
            \/ req'[r] = [req[r] EXCEPT !.pc = "resolve"]
      BY <1>0, <2>4, RecheckMoves
    <3>2. req[r].pc = "recheck"
      BY <2>4 DEF Recheck
    <3>3. i \notin req[r].fresh
      BY <3>2, <1>3
    <3>4. CASE req'[r] = [req[r] EXCEPT !.pc = "resolve"]
      BY <3>4, <3>3, <1>0 DEF Request
    <3>5. CASE /\ req'[r] = [req[r] EXCEPT !.todo = @ \ {k}, !.fresh = @ \cup {k}]
               /\ promised' = promised \cup {k}
      BY <3>5, <3>3, <1>0 DEF Request
    <3> QED
      BY <3>1, <3>4, <3>5
  <2>5. CASE Resolve(r)
    <3>1. PICK k \in Ids :
            \/ req'[r] = [req[r] EXCEPT !.pc = "signal"]
            \/ req'[r] = [req[r] EXCEPT !.pc = "recheck", !.todo = @ \ {k}]
            \/ /\ req'[r] = [req[r] EXCEPT !.pc = "recheck", !.todo = @ \ {k},
                                           !.fresh = @ \cup {k}]
               /\ promised' = promised \cup {k}
      BY <1>0, <2>5, ResolveMoves
    <3>2. req[r].pc = "resolve"
      BY <2>5 DEF Resolve
    <3>3. i \notin req[r].fresh
      BY <3>2, <1>3
    <3>4. CASE req'[r] = [req[r] EXCEPT !.pc = "signal"]
      BY <3>4, <3>3, <1>0 DEF Request
    <3>5. CASE req'[r] = [req[r] EXCEPT !.pc = "recheck", !.todo = @ \ {k}]
      BY <3>5, <3>3, <1>0 DEF Request
    <3>6. CASE /\ req'[r] = [req[r] EXCEPT !.pc = "recheck", !.todo = @ \ {k},
                                           !.fresh = @ \cup {k}]
               /\ promised' = promised \cup {k}
      BY <3>6, <3>3, <1>0 DEF Request
    <3> QED
      BY <3>1, <3>4, <3>5, <3>6
  <2>6. ~AfterHold(r)
    <3>1. AfterHold(r) => req'[r].pc \in {"idle", "signal", "settleSoon"}
      <4>1. [req[r] EXCEPT !.pc = "signal"].pc = "signal"
        BY <1>0 DEF Request
      <4>2. [req[r] EXCEPT !.pc = "settleSoon"].pc = "settleSoon"
        BY <1>0 DEF Request
      <4>3. Idle.pc = "idle"
        BY DEF Idle
      <4> QED
        BY <1>0, <4>1, <4>2, <4>3, AfterHoldMoves
    <3> QED
      BY <3>1
  <2>7. CASE req'[r] = req[r] \/ (req[r].pc \notin SteadyPCs /\ req'[r].pc \notin SteadyPCs)
    BY <2>7, <1>3 DEF SteadyPCs
  <2> QED
    BY <1>0, <2>1, <2>2, <2>3, <2>4, <2>5, <2>6, <2>7, SteadyChange
<1> QED
  BY <1>2, <1>3

(***************************************************************************)
(* The secrets of jobs that have not ended.                                *)
(***************************************************************************)
\* Who lets go of a secret.
LEMMA SecretGoes ==
  ASSUME [Next]_vars, NEW i \in secrets, i \notin secrets'
  PROVE  \/ \E r \in Requests : AfterHold(r) /\ i \in req[r].fresh
         \/ (RecordEnd \/ RecordNothing) /\ i = hand.id
         \/ \E r \in Requests : Orphan(r) /\ FirstOf(req[r].todo, i)
              /\ rows[i].state = "running"
         \/ \E r \in Requests : ExclusiveEnd(r) /\ rows[i].state \notin Live
         \/ CloseAbandon /\ i = running
         \/ CloseInterrupt /\ i \in Waiting
         \/ Restart
<1>1. ~ClaimStep
  BY DEF ClaimStep, WorkerTop, WorkerSettle, ClaimRead, ClaimUpdate, ClaimRetry,
         ClaimGivesUp, AfterClaim, AfterEmptyClaim, memVars
<1>2. CASE RunStep
  <2>1. CASE RecordEnd \/ RecordNothing
    BY <2>1 DEF RecordEnd, RecordNothing, forget
  <2> QED
    BY <1>2, <2>1 DEF RunStep, Execute, BeginItem, FinishItem, AbandonItem, Progress,
       RunTold, RunDone, RunFails, Release, ContinueStart, memVars
<1>3. ~\E p \in Procs : EnqueueStep(p)
  BY DEF EnqueueStep, EnqueueCheck, InsertJob, InsertRefused, EnqueueDone, memVars
<1>4. ~\E r \in Requests : Start(r)
  BY DEF Start, EnqueueStart, RerunStart, StopStart, StopAllStart, DeleteStart,
         ExclusiveStart, memVars
<1>5. ASSUME NEW r \in Requests, StopStep(r)
      PROVE  \/ AfterHold(r) /\ i \in req[r].fresh
             \/ Orphan(r) /\ FirstOf(req[r].todo, i) /\ rows[i].state = "running"
  <2>1. CASE AfterHold(r)
    BY <2>1 DEF AfterHold, forget
  <2>2. CASE Orphan(r)
    BY <2>2 DEF Orphan, forget, FirstOf
  <2> QED
    BY <1>5, <2>1, <2>2 DEF StopStep, StopStale, StopRead, Mark, Recheck, Resolve, Signal,
       SettleSoon, ReadRunning, StopHeld, StopDone, OrphanFails, memVars
<1>6. ~\E r \in Requests : DeleteStep(r)
  BY DEF DeleteStep, DeleteLeave, DeleteIdle, DeleteAccount, DeleteRefused, memVars
<1>7. ASSUME NEW r \in Requests, ExclusiveStep(r)
      PROVE  ExclusiveEnd(r) /\ rows[i].state \notin Live
  BY <1>7 DEF ExclusiveStep, ExclusiveEnter, RunFn, SwapBegin, SwapRefused, SwapFiles,
     ExclusiveEnd, forgetEnded, memVars
<1>8. CASE CloseBegin \/ CloseStep
  BY <1>8 DEF CloseBegin, CloseStep, CloseIdle, CloseCancel, CloseAbandon,
     CloseAbandonWrite, CloseInserts, CloseSettle, CloseInterrupt, forget
<1>9. ~(\/ \E u \in Uids : CreateAccount(u)
        \/ RetireLapses \/ LockTake \/ LockRelease \/ UNCHANGED vars)
  BY DEF CreateAccount, RetireLapses, LockTake, LockRelease, vars, memVars
<1> QED
  BY <1>1, <1>2, <1>3, <1>4, <1>5, <1>6, <1>7, <1>8, <1>9, Groups

\* A Stop lets go only of what it said it stopped.
LEMMA AfterHoldPromised ==
  ASSUME FreshPromised, NEW r \in Requests, AfterHold(r), NEW i \in Ids, i \in req[r].fresh
  PROVE  i \in promised
BY DEF AfterHold, FreshPromised, Fresh

LEMMA WaitingSecret ==
  ASSUME IInv, HandBegun, Apart, NoWipeOverAStop, FreshPromised, Secret, [Next]_vars,
         NEW i \in Ids, i \notin promised', rows'[i].state = "queued"
  PROVE  i \in secrets'
<1>0. TypeOK /\ rows \in [Ids -> Row] /\ req \in [Procs -> Request]
  BY DEF IInv, TypeOK
<1>1. CASE \E q \in Requests : SwapFiles(q)
  <2>0. PICK q \in Requests : SwapFiles(q)
    BY <1>1
  <2>1. rows'[i] = rows[i] /\ secrets' = secrets
    <3>1. NoRow.state = "absent"
      BY DEF NoRow
    <3> QED
      BY <3>1, <2>0, <1>0, SwapRows, SwapFacts DEF Live
  <2>2. i \notin promised
    BY <2>0, SwapKeeps DEF Stopless
  <2> QED
    BY <2>1, <2>2 DEF Secret
<1>2. CASE \A q \in Requests : ~SwapFiles(q)
  <2>1. i \notin promised
    BY <1>0, <1>2, PromisedGrows
  <2>2. CASE rows[i].state = "queued"
    <3> SUFFICES ASSUME i \in secrets, i \notin secrets' PROVE FALSE
      BY <2>1, <2>2 DEF Secret
    <3>1. hand.id = i => wpc \notin Taken
      BY <2>2 DEF HandBegun, InHand, Begun
    <3>2. ~(CloseInterrupt /\ i \in Waiting)
      <4>1. CloseInterrupt /\ i \in Waiting /\ secrets' # secrets
              => rows'[i].state = "interrupted"
        BY <1>0 DEF CloseInterrupt, Row
      <4> QED
        BY <4>1
    <3>3. ~Restart
      BY RestartFacts
    <3>4. \A r \in Requests : ~(AfterHold(r) /\ i \in req[r].fresh)
      BY <2>1, AfterHoldPromised
    <3>5. ~((RecordEnd \/ RecordNothing) /\ i = hand.id)
      BY <3>1 DEF RecordEnd, RecordNothing, Taken, HandPCs
    <3>6. ~(CloseAbandon /\ i = running)
      BY <3>1 DEF running, Taken, Ids
    <3> QED
      BY <2>2, <3>2, <3>3, <3>4, <3>5, <3>6, SecretGoes DEF Live
  <2>3. CASE rows[i].state # "queued"
    <3>1. rows[i].state = "absent" /\ \E p \in Procs : InsertJob(p)
      BY <1>0, <1>2, <2>3, RowGoes
    <3>2. PICK p \in Procs : InsertJob(p)
      BY <3>1
    <3>3. PICK k \in Ids : rows' = [rows EXCEPT ![k] = [NoRow EXCEPT !.state = "queued",
                     !.uid = req[p].uid, !.inc = req[p].inc, !.work = req[p].work]]
                    /\ secrets' = secrets \cup {k}
      BY <3>2 DEF InsertJob
    <3>4. k = i
      BY <1>0, <3>1, <3>3
    <3> QED
      BY <3>3, <3>4
  <2> QED
    BY <2>2, <2>3
<1> QED
  BY <1>1, <1>2

LEMMA HandSecret ==
  ASSUME IInv, HandBegun, OrphanOut, Shut, FreshPromised, Secret, [Next]_vars,
         NEW i \in Ids, i \notin promised', InHand(i)', ~runEnded', abandoned' # i
  PROVE  i \in secrets'
<1>0. TypeOK /\ req \in [Procs -> Request] /\ i # NoJob
  BY DEF IInv, TypeOK, Ids
<1>1. ~Restart
  BY DEF Restart, InHand, Taken, HandPCs
<1>2. CASE ClaimUpdate /\ rows[i].state = "queued"
  <2>1. secrets' = secrets /\ promised' = promised
    BY <1>2 DEF ClaimUpdate, memVars, histVars
  <2> QED
    BY <1>2, <2>1 DEF Secret
<1>3. CASE InHand(i) /\ (wpc' = "claimed" => wpc = "claimed")
  <2>1. \A q \in Requests : ~SwapFiles(q)
    BY <1>3, SwapFacts DEF InHand, Taken, HandPCs
  <2>2. i \notin promised
    BY <1>0, <2>1, PromisedGrows
  <2>3. ~runEnded
    <3>1. wpc \in HandPCs => wpc' \in HandPCs
      BY <1>3 DEF InHand, Taken, HandPCs
    <3> QED
      BY <3>1, HandGoesOn DEF runEnded, HandPCs
  <2>4. abandoned # i
    BY <1>0, <1>1, AbandonedStays
  <2>5. i \in secrets
    BY <1>3, <2>2, <2>3, <2>4 DEF Secret
  <2> SUFFICES ASSUME i \notin secrets' PROVE FALSE
    OBVIOUS
  <2>6. \A r \in Requests : ~(AfterHold(r) /\ i \in req[r].fresh)
    BY <2>2, AfterHoldPromised
  <2>7. ~RecordEnd /\ ~RecordNothing
    BY DEF RecordEnd, RecordNothing, runEnded
  <2>8. \A r \in Requests : ~(Orphan(r) /\ FirstOf(req[r].todo, i))
    BY <1>3 DEF OrphanOut, Orphan
  <2>9. \A r \in Requests : ~ExclusiveEnd(r)
    <3>1. exclusive = {}
      BY <1>3 DEF IInv, Control, HandInGeneration, InHand, Taken, HandPCs
    <3> QED
      BY <3>1 DEF ExclusiveEnd, exclusive, XPCs
  <2>10. ~(CloseAbandon /\ i = running)
    BY DEF CloseAbandon
  <2>11. i \notin Waiting
    BY <1>3 DEF HandBegun, Begun, Waiting
  <2> QED
    BY <1>1, <2>5, <2>6, <2>7, <2>8, <2>9, <2>10, <2>11, SecretGoes
<1> QED
  BY <1>2, <1>3, InHandNew

LEMMA SecretStays ==
  ASSUME IInv, HandBegun, OrphanOut, Shut, Apart, NoWipeOverAStop, FreshPromised, Secret,
         [Next]_vars
  PROVE  Secret'
BY WaitingSecret, HandSecret DEF Secret

(***************************************************************************)
(* The invariant, and what it shows.                                       *)
(***************************************************************************)
LEMMA InitLife == Init => LInv
<1> SUFFICES ASSUME Init PROVE LInv
  OBVIOUS
<1>1. SInv
  BY InitSafe
<1>2. /\ \A p \in Procs : req[p].pc = "idle" /\ req[p].kind = "none"
      /\ \A i \in Ids : rows[i].state = "absent"
      /\ wpc = "none" /\ promised = {} /\ abandoned = NoJob
  BY DEF Init, Idle, NoRow
<1>3. Apart
  BY <1>2 DEF Apart, Unwiped, Stopless, Wiping, StopPCs
<1>4. TodoBegun /\ OrphanOut /\ Marked /\ FreshPromised
  BY <1>2 DEF TodoBegun, OrphanOut, Marked, FreshPromised, Marking, Fresh
<1>5. HandRuns /\ Shut /\ Promised /\ Secret
  BY <1>2 DEF HandRuns, Shut, Promised, Secret, InHand, Taken, HandPCs, ClaimPCs
<1> QED
  BY <1>1, <1>3, <1>4, <1>5 DEF LInv

LEMMA StepLife == NoWipeOverAStop /\ LInv /\ [Next]_vars => LInv'
<1> SUFFICES ASSUME NoWipeOverAStop, LInv, [Next]_vars PROVE LInv'
  OBVIOUS
<1>1. SInv'
  BY StepSafe DEF LInv
<1>2. IInv /\ HandBegun /\ Marks /\ Taking /\ Moving /\ TypeOK
  BY DEF LInv, SInv, IInv
<1> QED
  BY <1>1, <1>2, ApartKept, TodoBegunKept, OrphanOutKept, HandRunsKept, ShutKept, MarkedKept,
     PromisedKept, FreshPromisedKept, SecretStays DEF LInv

\* The inductive invariant, under the hypothesis.
THEOREM LifeInvariance ==
  ASSUME NoWipeOverAStop PROVE SafeSpec => []LInv
<1>1. LInv /\ [Next]_vars => LInv'
  BY StepLife
<1> QED
  BY <1>1, InitLife, PTL DEF SafeSpec

\* The job in the worker's hands reads running until its end is written, or Close has
\* given it up: nobody takes it for an orphan.
THEOREM HandReadsRunning ==
  ASSUME NoWipeOverAStop PROVE SafeSpec => []RunningReadsRunning
<1>1. LInv => RunningReadsRunning
  <2> SUFFICES ASSUME LInv, wpc \in RunPCs, abandoned # hand.id
               PROVE  rows[hand.id].state = "running"
    BY DEF RunningReadsRunning
  <2>1. hand.id \in Ids /\ wpc \in Taken /\ wpc # "release"
    BY DEF LInv, SInv, IInv, TypeOK, Hand, Control, HandHasJob, RunPCs, HandPCs, Taken
  <2> QED
    BY <2>1 DEF LInv, HandRuns, InHand
<1> QED
  BY <1>1, LifeInvariance, PTL

\* What a Stop was told it stopped before it started never works, whatever was under way
\* when its mark went in.
THEOREM StoppedJobsNeverWork ==
  ASSUME NoWipeOverAStop PROVE SafeSpec => []StoppedNeverWorks
<1>1. LInv => StoppedNeverWorks
  <2> SUFFICES ASSUME LInv, wpc = "item", abandoned # hand.id, hand.id \in promised
               PROVE  FALSE
    BY DEF StoppedNeverWorks
  <2>1. hand.id \in Ids /\ InHand(hand.id)
    BY DEF LInv, SInv, IInv, TypeOK, InHand, Taken, HandPCs
  <2>2. ~Dead(hand.id)
    BY <2>1 DEF Dead, Over, runEnded
  <2>3. ~StillMarked(hand.id)
    BY <2>1 DEF LInv, SInv, HandBegun, Begun, StillMarked
  <2> QED
    BY <2>2, <2>3 DEF LInv, Promised
<1> QED
  BY <1>1, LifeInvariance, PTL

\* An item finds its job's secret until Close abandons the job.
THEOREM RunsWithItsSecret ==
  ASSUME NoWipeOverAStop PROVE SafeSpec => []RunHasItsSecret
<1>1. LInv /\ StoppedNeverWorks => RunHasItsSecret
  <2> SUFFICES ASSUME LInv, StoppedNeverWorks, wpc = "item", abandoned # hand.id
               PROVE  hand.id \in secrets
    BY DEF RunHasItsSecret
  <2>1. hand.id \in Ids /\ InHand(hand.id) /\ ~runEnded
    <3>1. wpc \in HandPCs
      BY DEF HandPCs
    <3> QED
      BY <3>1 DEF LInv, SInv, IInv, TypeOK, Hand, Control, HandHasJob, InHand, Taken, runEnded
  <2>2. hand.id \notin promised
    BY DEF StoppedNeverWorks
  <2> QED
    BY <2>1, <2>2 DEF LInv, Secret
<1> QED
  BY <1>1, LifeInvariance, StoppedJobsNeverWork, PTL

(***************************************************************************)
(* The refinement.  Each step of JobQueue is one of JobLife, or none.      *)
(***************************************************************************)
\* JobLife's variables, as JobQueue has them (Life).
Aside == HeldNow \cap Waiting
Doing == IF wpc = "item" THEN hand.id ELSE NoJob
LifeStep == Life!Next \/ UNCHANGED Life!vars

\* The rest of JobLife's state, for a step that changes some of it.
RowsStay  == \A i \in Ids : rows'[i].state = rows[i].state
TakeState(S, st) == \A i \in Ids : rows'[i].state = IF i \in S THEN st ELSE rows[i].state

LEMMA Stutters ==
  ASSUME RowsStay, Aside' = Aside, promised' = promised, Doing' = Doing PROVE LifeStep
BY DEF RowsStay, Aside, Doing, LifeStep, Life!vars

LEMMA Accepts ==
  ASSUME NEW i \in Ids, IsNext(i), TakeState({i}, "queued"),
         Aside' = Aside, promised' = promised, Doing' = Doing
  PROVE  LifeStep
BY DEF IsNext, TakeState, Aside, Doing, LifeStep, Life!Next, Life!Accept, Life!Becomes

LEMMA SetsAside ==
  ASSUME RowsStay, Aside \subseteq Aside', promised' = promised, Doing' = Doing
  PROVE  LifeStep
<1>1. Waiting' = Waiting
  BY DEF RowsStay, Waiting
<1>2. Life!SetAside
  <2>1. Aside' \subseteq Life!Waiting
    BY <1>1 DEF Aside, Waiting, Life!Waiting
  <2> QED
    BY <2>1 DEF RowsStay, Aside, Doing, Life!SetAside
<1> QED
  BY <1>2 DEF LifeStep, Life!Next

LEMMA Tells ==
  ASSUME RowsStay, Aside' = Aside, Doing' = Doing,
         NEW i \in Ids, promised' = promised \cup {i}, i = Doing => rows[i].state # "running"
  PROVE  LifeStep
<1>1. Life!Tell(i)
  BY DEF RowsStay, Aside, Doing, Life!Tell, Life!Running
<1> QED
  BY <1>1 DEF LifeStep, Life!Next

LEMMA Takes ==
  ASSUME NEW i \in Ids, rows[i].state = "queued", \A k \in Waiting \ Aside : i <= k,
         TakeState({i}, "running"), Aside' = Aside \ {i}, promised' = promised, Doing' = Doing
  PROVE  LifeStep
<1>1. Life!Take(i)
  BY DEF TakeState, Aside, Doing, Waiting, Life!Take, Life!Becomes, Life!Waiting
<1> QED
  BY <1>1 DEF LifeStep, Life!Next

LEMMA Begins ==
  ASSUME RowsStay, Aside' = Aside, promised' = promised, Doing = NoJob,
         NEW i \in Ids, Doing' = i, rows[i].state = "running", i \notin promised
  PROVE  LifeStep
<1>1. Life!BeginItem(i)
  BY DEF RowsStay, Aside, Doing, Life!BeginItem, Life!Running
<1> QED
  BY <1>1 DEF LifeStep, Life!Next

LEMMA EndsItem ==
  ASSUME RowsStay, Aside' = Aside, promised' = promised, Doing' = NoJob PROVE LifeStep
BY DEF RowsStay, Aside, Doing, LifeStep, Life!Next, Life!EndItem

LEMMA Ends ==
  ASSUME NEW i \in Ids, NEW st \in Ended, rows[i].state = "running",
         st = "interrupted" \/ i # Doing, TakeState({i}, st),
         Aside' = Aside, promised' = promised, Doing' = Doing
  PROVE  LifeStep
<1>1. Life!End(i, st)
  BY DEF TakeState, Aside, Doing, Life!End, Life!Becomes, Life!Running
<1>2. st \in Life!Ended
  BY DEF Ended, Life!Ended
<1> QED
  BY <1>1, <1>2 DEF LifeStep, Life!Next

LEMMA StopsAside ==
  ASSUME TakeState(Aside, "stopped"), Aside' = {}, promised' = promised, Doing' = Doing
  PROVE  LifeStep
BY DEF TakeState, Aside, Doing, LifeStep, Life!Next, Life!StopAside, Life!Becomes

LEMMA InterruptsWaiting ==
  ASSUME TakeState(Waiting, "interrupted"), Aside' = {}, promised' = promised, Doing' = Doing
  PROVE  LifeStep
<1>1. Life!InterruptWaiting
  BY DEF TakeState, Aside, Doing, Waiting, Life!InterruptWaiting, Life!Becomes, Life!Waiting
<1> QED
  BY <1>1 DEF LifeStep, Life!Next

LEMMA InterruptsAll ==
  ASSUME TakeState({i \in Ids : rows[i].state \in Live}, "interrupted"), Aside' = {},
         promised' = promised, Doing' = NoJob
  PROVE  LifeStep
<1>1. Life!InterruptAll
  BY DEF TakeState, Aside, Doing, Live, Life!InterruptAll, Life!Becomes, Life!Waiting,
         Life!Running
<1> QED
  BY <1>1 DEF LifeStep, Life!Next

LEMMA Wipes ==
  ASSUME TakeState(Ids, "absent"), Aside' = {}, promised' = {}, Doing = NoJob, Doing' = NoJob
  PROVE  LifeStep
<1>1. Life!Wipe
  BY DEF TakeState, Aside, Doing, Life!Wipe, Life!Becomes
<1> QED
  BY <1>1 DEF LifeStep, Life!Next

\* Who begins an item, and who ends one: nobody else changes what is at work.
LEMMA DoingChange ==
  ASSUME IInv, [Next]_vars
  PROVE  \/ Doing' = Doing
         \/ BeginItem
         \/ Doing' = NoJob /\ rows' = rows /\ held' = held /\ gen' = gen
              /\ promised' = promised
         \/ Restart
<1> USE DEF Doing
<1>0. hand \in Hand
  BY DEF IInv, TypeOK
<1>1. CASE ClaimStep
  <2>1. wpc # "item" /\ wpc' # "item"
    BY <1>1 DEF ClaimStep, WorkerTop, WorkerSettle, ClaimRead, ClaimUpdate, ClaimRetry,
       ClaimGivesUp, AfterClaim, AfterEmptyClaim
  <2> QED
    BY <2>1
<1>2. CASE RunStep
  <2>1. CASE FinishItem \/ AbandonItem \/ RunFails
    <3>1. wpc' # "item" /\ rows' = rows /\ held' = held /\ gen' = gen /\ promised' = promised
      BY <2>1 DEF FinishItem, AbandonItem, RunFails, Returns, memVars, histVars
    <3> QED
      BY <3>1
  <2>2. CASE Execute \/ Progress \/ RunTold \/ RunDone \/ RecordEnd \/ RecordNothing \/ Release
    <3>1. wpc # "item" /\ wpc' # "item"
      BY <2>2 DEF Execute, Progress, RunTold, RunDone, RecordEnd, RecordNothing, Release,
         Returns
    <3> QED
      BY <3>1
  <2>3. ASSUME NEW w \in Works, ContinueStart(w) PROVE wpc # "item" /\ wpc' # "item"
    BY <2>3 DEF ContinueStart
  <2> QED
    BY <1>2, <2>1, <2>2, <2>3 DEF RunStep
<1> QED
  BY <1>1, <1>2, WorkerKept DEF IInv, Control

\* The mark of a job and its row, together, for the steps that move one of them.
LEMMA SettleLife ==
  ASSUME TypeOK, Settle, gen' = gen, promised' = promised, Doing' = Doing PROVE LifeStep
<1>0. rows \in [Ids -> Row] /\ held \in [Ids -> MarkSet] /\ gen \in Nat \ {0}
  BY DEF TypeOK
<1>1. TakeState(Aside, "stopped")
  BY <1>0 DEF Settle, SettledRows, TakeState, Aside, Waiting, Row, HeldNow
<1>2. Aside' = {}
  <2> SUFFICES ASSUME NEW i \in Ids, held'[i].gen = gen, rows'[i].state = "queued" PROVE FALSE
    BY DEF Aside, HeldNow, Waiting
  <2>1. held'[i] # NoMark
    BY <1>0 DEF NoMark
  <2>2. i \in HeldNow /\ rows[i].state = "running"
    BY <2>1 DEF Settle, SettledHeld
  <2>3. rows'[i] = rows[i]
    BY <2>2 DEF Settle, SettledRows
  <2> QED
    BY <2>2, <2>3
<1> QED
  BY <1>1, <1>2, StopsAside

LEMMA ClaimLife ==
  ASSUME TypeOK, Seen, ClaimUpdate, Doing' = Doing PROVE LifeStep
<1>0. /\ rows \in [Ids -> Row] /\ held' = held /\ gen' = gen /\ promised' = promised
      /\ wpc = "claimUpdate"
  BY DEF TypeOK, ClaimUpdate, memVars, histVars
<1>1. CASE Claimable = {}
  <2>1. RowsStay /\ Aside' = Aside
    BY <1>0, <1>1 DEF ClaimUpdate, RowsStay, Aside, HeldNow, Waiting
  <2> QED
    BY <1>0, <2>1, Stutters
<1>2. CASE Claimable # {}
  <2>1. PICK i \in Claimable : /\ \A k \in Claimable : i <= k
                               /\ rows' = Set(i, "running")
    BY <1>2 DEF ClaimUpdate
  <2>2. i \in Ids /\ rows[i].state = "queued"
    BY <2>1 DEF Claimable
  <2>3. \A k \in Waiting \ Aside : i <= k
    <3> SUFFICES ASSUME NEW k \in Waiting \ Aside PROVE k \in Claimable
      BY <2>1
    <3>1. k \in Ids /\ rows[k].state = "queued" /\ k \notin HeldNow
      BY DEF Waiting, Aside
    <3> QED
      BY <3>1, <1>0 DEF Seen, Claimable
  <2>4. TakeState({i}, "running")
    BY <1>0, <2>1, <2>2 DEF Set, TakeState, Row
  <2>5. Waiting' = Waiting \ {i}
    BY <2>2, <2>4 DEF TakeState, Waiting
  <2>6. Aside' = Aside \ {i}
    BY <1>0, <2>5 DEF Aside, HeldNow
  <2> QED
    BY <1>0, <2>2, <2>3, <2>4, <2>6, Takes
<1> QED
  BY <1>1, <1>2

LEMMA InsertLife ==
  ASSUME TypeOK, Marks, NEW p \in Procs, InsertJob(p), Doing' = Doing PROVE LifeStep
<1>0. rows \in [Ids -> Row] /\ held' = held /\ gen' = gen /\ promised' = promised
  BY DEF TypeOK, InsertJob, histVars
<1>1. PICK i \in Ids :
        /\ IsNext(i)
        /\ rows' = [rows EXCEPT ![i] = [NoRow EXCEPT !.state = "queued",
                     !.uid = req[p].uid, !.inc = req[p].inc, !.work = req[p].work]]
  BY DEF InsertJob
<1>2. TakeState({i}, "queued")
  BY <1>0, <1>1 DEF TakeState, NoRow
<1>3. i \notin HeldNow
  <2>1. rows[i].state = "absent"
    BY <1>1 DEF IsNext, Ids
  <2> QED
    BY <2>1 DEF Marks
<1>4. Waiting' = Waiting \cup {i}
  BY <1>2 DEF TakeState, Waiting
<1>5. Aside' = Aside
  BY <1>0, <1>3, <1>4 DEF Aside, HeldNow
<1> QED
  BY <1>0, <1>1, <1>2, <1>5, Accepts

\* A job that was running ends.
LEMMA CasLife ==
  ASSUME TypeOK, NEW i \in Ids, NEW st \in Ended, rows' = Cas(i, st),
         st = "interrupted" \/ i # Doing,
         held' = held, gen' = gen, promised' = promised, Doing' = Doing
  PROVE  LifeStep
<1>0. rows \in [Ids -> Row]
  BY DEF TypeOK
<1>1. CASE rows[i].state # "running"
  <2>1. rows' = rows
    BY <1>1 DEF Cas
  <2>2. RowsStay /\ Aside' = Aside
    BY <2>1 DEF RowsStay, Aside, HeldNow, Waiting
  <2> QED
    BY <2>2, Stutters
<1>2. CASE rows[i].state = "running"
  <2>1. TakeState({i}, st)
    BY <1>0, <1>2 DEF Cas, Set, TakeState, Row
  <2>2. Waiting' = Waiting
    <3>1. st # "queued"
      BY DEF Ended
    <3> QED
      BY <1>2, <2>1, <3>1 DEF TakeState, Waiting
  <2>3. Aside' = Aside
    BY <2>2 DEF Aside, HeldNow
  <2> QED
    BY <1>2, <2>1, <2>3, Ends
<1> QED
  BY <1>1, <1>2

LEMMA RecordLife ==
  ASSUME IInv, RecordEnd, Doing' = Doing PROVE LifeStep
<1>1. /\ rows' = Cas(hand.id, hand.fin) /\ held' = held /\ gen' = gen /\ promised' = promised
      /\ wpc = "record" /\ hand.fin # "none"
  BY DEF RecordEnd, histVars
<1>2. hand.id \in Ids /\ hand.fin \in Ended
  BY <1>1 DEF IInv, TypeOK, Hand, Control, HandHasJob, HandPCs
<1>3. hand.id # Doing
  BY <1>1, <1>2 DEF Doing, Ids
<1> QED
  BY <1>1, <1>2, <1>3, CasLife DEF IInv

LEMMA OrphanLife ==
  ASSUME TypeOK, NEW r \in Requests, Orphan(r), Doing' = Doing PROVE LifeStep
<1>1. held' = held /\ gen' = gen /\ promised' = promised
  BY DEF Orphan, histVars
<1>2. PICK i \in req[r].todo : rows' = Cas(i, "interrupted")
  BY DEF Orphan
<1>3. i \in Ids
  BY DEF TypeOK, Request
<1>4. "interrupted" \in Ended
  BY DEF Ended
<1> QED
  BY <1>1, <1>2, <1>3, <1>4, CasLife

LEMMA DeleteLife ==
  ASSUME TypeOK, NEW r \in Requests, DeleteAccount(r), Doing' = Doing PROVE LifeStep
<1>0. rows \in [Ids -> Row] /\ held' = held /\ gen' = gen /\ promised' = promised
  BY DEF TypeOK, DeleteAccount, memVars, histVars
<1>1. RowsStay
  BY <1>0 DEF DeleteAccount, RowsStay, Row
<1>2. Aside' = Aside
  BY <1>0, <1>1 DEF RowsStay, Aside, HeldNow, Waiting
<1> QED
  BY <1>0, <1>1, <1>2, Stutters

LEMMA CloseLife ==
  ASSUME TypeOK, CloseAbandonWrite \/ CloseInterrupt, Doing' = Doing, Marks PROVE LifeStep
<1>0. rows \in [Ids -> Row] /\ held' = held /\ gen' = gen /\ promised' = promised
  BY DEF TypeOK, CloseAbandonWrite, CloseInterrupt, histVars
<1>1. CASE rows' = rows
  <2>1. RowsStay /\ Aside' = Aside
    BY <1>0, <1>1 DEF RowsStay, Aside, HeldNow, Waiting
  <2> QED
    BY <1>0, <2>1, Stutters
<1>2. CASE CloseInterrupt /\ rows' # rows
  <2>1. TakeState(Waiting, "interrupted")
    BY <1>0, <1>2 DEF CloseInterrupt, TakeState, Row
  <2>2. Aside' = {}
    BY <2>1 DEF TakeState, Aside, Waiting
  <2> QED
    BY <1>0, <2>1, <2>2, InterruptsWaiting
<1>3. CASE CloseAbandonWrite /\ rows' # rows
  <2>1. rows' = Cas(abandoned, "interrupted")
    BY <1>3 DEF CloseAbandonWrite
  <2>2. abandoned \in Ids
    <3>1. abandoned \in DOMAIN rows
      BY <1>0, <1>3, <2>1 DEF Cas, Set
    <3> QED
      BY <1>0, <3>1
  <2>3. "interrupted" \in Ended
    BY DEF Ended
  <2> QED
    BY <1>0, <2>1, <2>2, <2>3, CasLife
<1> QED
  BY <1>1, <1>2, <1>3

\* A mark that goes on, and one that a claim takes off the job it has taken.
LEMMA MarkLife ==
  ASSUME TypeOK, HandBegun, rows' = rows, gen' = gen, promised' = promised, Doing' = Doing,
         held' = held \/ AfterClaim \/ \E r \in Requests : Mark(r) \/ Resolve(r),
         Taking
  PROVE  LifeStep
<1>0. held \in [Ids -> MarkSet] /\ gen \in Nat \ {0} /\ req \in [Procs -> Request]
  BY DEF TypeOK
<1>1. RowsStay /\ Waiting' = Waiting
  BY DEF RowsStay, Waiting
<1>2. CASE held' = held
  <2>1. Aside' = Aside
    BY <1>1, <1>2 DEF Aside, HeldNow
  <2> QED
    BY <1>1, <2>1, Stutters
<1>3. ASSUME NEW i \in Ids, i \notin Waiting, held' = [held EXCEPT ![i] = NoMark]
      PROVE  LifeStep
  <2>1. Aside' = Aside
    BY <1>0, <1>1, <1>3 DEF Aside, HeldNow
  <2> QED
    BY <1>1, <2>1, Stutters
<1>4. CASE AfterClaim
  <2>1. held' = held \/ held' = [held EXCEPT ![hand.id] = NoMark]
    BY <1>4 DEF AfterClaim
  <2>2. hand.id \in Ids /\ wpc = "claimed"
    BY <1>4 DEF AfterClaim, TypeOK, Hand
  <2>3. hand.id \notin Waiting
    BY <2>2 DEF HandBegun, InHand, Taken, Begun, Waiting
  <2> QED
    BY <2>1, <2>2, <2>3, <1>2, <1>3
<1>5. ASSUME NEW r \in Requests, Mark(r) PROVE LifeStep
  <2>1. \A i \in Ids : i \in HeldNow => i \in HeldNow'
    BY <1>0, <1>5 DEF Mark, HeldNow
  <2>2. Aside \subseteq Aside'
    BY <1>1, <2>1 DEF Aside, Waiting
  <2> QED
    BY <1>1, <2>2, SetsAside
<1>6. ASSUME NEW r \in Requests, Resolve(r) PROVE LifeStep
  <2>1. PICK i \in Ids : /\ FirstOf(req[r].todo, i)
                         /\ held' = held \/ held' = [held EXCEPT ![i] = NoMark]
    BY <1>0, <1>6, ResolveMoves
  <2>2. i \notin Waiting
    BY <1>6, <2>1 DEF Taking, Resolve, FirstOf, Begun, Waiting
  <2> QED
    BY <2>1, <2>2, <1>2, <1>3
<1> QED
  BY <1>2, <1>4, <1>5, <1>6

\* A Stop says what it stopped: of no job at work.
LEMMA RecheckLife ==
  ASSUME LInv, NEW r \in Requests, Recheck(r), Doing' = Doing PROVE LifeStep
<1>0. TypeOK /\ req \in [Procs -> Request]
  BY DEF LInv, SInv, IInv, TypeOK
<1>1. rows' = rows /\ held' = held /\ gen' = gen
  BY DEF Recheck, dbVars, memVars
<1>2. RowsStay /\ Aside' = Aside
  BY <1>1 DEF RowsStay, Aside, HeldNow, Waiting
<1>3. PICK i \in Ids : \/ rows[i].state = "queued" /\ promised' = promised \cup {i}
                       \/ promised' = promised
  BY <1>0, RecheckMoves
<1>4. CASE promised' = promised
  BY <1>2, <1>4, Stutters
<1>5. CASE rows[i].state = "queued" /\ promised' = promised \cup {i}
  BY <1>2, <1>5, Tells
<1> QED
  BY <1>3, <1>4, <1>5

LEMMA ResolveLife ==
  ASSUME LInv, NEW r \in Requests, Resolve(r), Doing' = Doing PROVE LifeStep
<1>0. TypeOK /\ req \in [Procs -> Request] /\ HandBegun /\ Taking
  BY DEF LInv, SInv, IInv, TypeOK
<1>1. rows' = rows /\ gen' = gen
  BY DEF Resolve, dbVars
<1>2. CASE promised' = promised
  BY <1>0, <1>1, <1>2, MarkLife
<1>3. CASE promised' # promised
  <2>1. PICK i \in Ids :
          /\ FirstOf(req[r].todo, i)
          /\ i \notin HeldNow \/ held[i].by # r
          /\ promised' = promised \cup {i} /\ held' = held
    BY <1>0, <1>3, ResolveMoves
  <2>2. RowsStay /\ Aside' = Aside
    BY <1>1, <2>1 DEF RowsStay, Aside, HeldNow, Waiting
  <2>3. Dead(i)
    <3>1. Marking(r, i)
      BY <1>0, <2>1, ResolveUnmarks
    <3> QED
      BY <2>1, <3>1 DEF LInv, Marked, Own
  <2>4. i = Doing => rows[i].state # "running"
    <3> SUFFICES ASSUME i = Doing PROVE rows[i].state # "running"
      OBVIOUS
    <3>1. wpc = "item" /\ hand.id = i
      BY DEF Doing, Ids
    <3>2. InHand(i)
      BY <3>1 DEF InHand, Taken, HandPCs
    <3> QED
      BY <2>3, <3>1, <3>2 DEF Dead, Over, runEnded
  <2> QED
    BY <2>1, <2>2, <2>4, Tells
<1> QED
  BY <1>2, <1>3

\* The files move: nothing is at work, and nothing of what waits is set aside.
LEMMA SwapLife ==
  ASSUME LInv, NEW r \in Requests, SwapFiles(r) PROVE LifeStep
<1>0. IInv /\ Marks /\ Moving /\ rows \in [Ids -> Row]
  BY DEF LInv, SInv, IInv, TypeOK
<1>1. Doing = NoJob /\ Doing' = NoJob
  <2>1. wpc # "item" /\ wpc' # "item"
    BY <1>0, SwapFacts
  <2> QED
    BY <2>1 DEF Doing
<1>2. Aside = {} /\ Aside' = {}
  <2>1. HeldNow' = {} /\ swapMoving
    BY <1>0, SwapUnmarks, SwapFacts
  <2> QED
    BY <1>0, <2>1 DEF Moving, Aside
<1>3. CASE rows' = Carried(accounts') /\ promised' = promised
  <2>1. ASSUME NEW i \in Ids
        PROVE  rows'[i].state = IF rows[i].state \in Live THEN "interrupted" ELSE rows[i].state
    <3>1. CASE rows[i].state = "absent"
      BY <3>1, <1>3 DEF Carried, Live
    <3>2. CASE rows[i].state # "absent"
      BY <3>2, <1>0, <1>3 DEF Carried, Row
    <3> QED
      BY <3>1, <3>2
  <2>2. TakeState({i \in Ids : rows[i].state \in Live}, "interrupted")
    BY <2>1 DEF TakeState
  <2> QED
    BY <1>1, <1>2, <1>3, <2>2, InterruptsAll
<1>4. CASE rows' = [i \in Ids |-> NoRow] /\ promised' = {}
  <2>1. TakeState(Ids, "absent")
    BY <1>4 DEF TakeState, NoRow
  <2> QED
    BY <1>1, <1>2, <1>4, <2>1, Wipes
<1>5. CASE rows' = rows /\ promised' = promised
  <2>1. RowsStay
    BY <1>5 DEF RowsStay
  <2> QED
    BY <1>1, <1>2, <1>5, <2>1, Stutters
<1>6. \/ rows' = Carried(accounts') /\ promised' = promised
      \/ rows' = [i \in Ids |-> NoRow] /\ promised' = {}
      \/ rows' = rows /\ promised' = promised
  BY DEF SwapFiles
<1> QED
  BY <1>3, <1>4, <1>5, <1>6

LEMMA RestartLife ==
  ASSUME TypeOK, Restart PROVE LifeStep
<1>0. rows \in [Ids -> Row]
  BY DEF TypeOK
<1>1. TakeState({i \in Ids : rows[i].state \in Live}, "interrupted")
  BY <1>0 DEF Restart, TakeState, Row
<1>2. Aside' = {}
  BY RestartFacts DEF Aside
<1>3. Doing' = NoJob /\ promised' = promised
  BY DEF Restart, Doing
<1> QED
  BY <1>1, <1>2, <1>3, InterruptsAll

LEMMA BeginLife ==
  ASSUME LInv, BeginItem PROVE LifeStep
<1>1. /\ wpc = "between" /\ wpc' = "item" /\ ~StopAsked
      /\ rows' = rows /\ held' = held /\ gen' = gen /\ promised' = promised /\ hand' = hand
  BY DEF BeginItem, memVars, histVars
<1>2. RowsStay /\ Aside' = Aside
  BY <1>1 DEF RowsStay, Aside, HeldNow, Waiting
<1>3. Doing = NoJob /\ Doing' = hand.id
  BY <1>1 DEF Doing
<1>4. hand.id \in Ids /\ InHand(hand.id)
  BY <1>1 DEF LInv, SInv, IInv, TypeOK, Hand, Control, HandHasJob, HandPCs, InHand, Taken
<1>5. abandoned = NoJob
  <2>1. hand.shutdown # TRUE /\ wpc \in HandPCs
    BY <1>1 DEF StopAsked, HandPCs
  <2> QED
    BY <2>1 DEF LInv, Shut
<1>6. rows[hand.id].state = "running"
  BY <1>1, <1>4, <1>5 DEF LInv, HandRuns, Ids
<1>7. hand.id \notin promised
  <2>1. hand.stop # TRUE /\ ~runEnded /\ abandoned # hand.id
    <3>1. hand.stop # TRUE
      BY <1>1 DEF StopAsked
    <3>2. ~runEnded
      BY <1>1 DEF runEnded
    <3>3. abandoned # hand.id
      BY <1>4, <1>5 DEF Ids
    <3> QED
      BY <3>1, <3>2, <3>3
  <2>2. ~Dead(hand.id)
    BY <1>4, <2>1 DEF Dead, Over
  <2>3. ~StillMarked(hand.id)
    BY <1>1, <1>6 DEF StillMarked
  <2> QED
    BY <2>2, <2>3 DEF LInv, Promised
<1> QED
  BY <1>1, <1>2, <1>3, <1>4, <1>6, <1>7, Begins

LEMMA NextLife == LInv /\ [Next]_vars => LifeStep
<1> SUFFICES ASSUME LInv, [Next]_vars PROVE LifeStep
  OBVIOUS
<1>0. IInv /\ TypeOK /\ HandBegun /\ Marks /\ Taking /\ Seen
  BY DEF LInv, SInv, IInv
<1>1. CASE Restart
  BY <1>0, <1>1, RestartLife
<1>2. CASE BeginItem
  BY <1>2, BeginLife
<1>3. CASE Doing' = NoJob /\ rows' = rows /\ held' = held /\ gen' = gen /\ promised' = promised
  <2>1. RowsStay /\ Aside' = Aside
    BY <1>3 DEF RowsStay, Aside, HeldNow, Waiting
  <2> QED
    BY <1>3, <2>1, EndsItem
<1>4. CASE Doing' = Doing /\ ~Restart
  <2>1. CASE \E r \in Requests : SwapFiles(r)
    BY <2>1, SwapLife
  <2>2. CASE \E r \in Requests : Recheck(r) \/ Resolve(r)
    BY <1>4, <2>2, RecheckLife, ResolveLife
  <2>3. CASE /\ ~\E r \in Requests : SwapFiles(r)
             /\ ~\E r \in Requests : Recheck(r) \/ Resolve(r)
    <3>1. promised' = promised /\ gen' = gen
      BY <1>4, <2>3, PromisedChange, GenChange
    <3>2. CASE rows' = rows
      BY <1>0, <1>4, <2>3, <3>1, <3>2, HeldChange, MarkLife, SettleLife
    <3>3. CASE Settle
      BY <1>0, <1>4, <3>1, <3>3, SettleLife
    <3>4. CASE ClaimUpdate
      BY <1>0, <1>4, <3>4, ClaimLife
    <3>5. CASE RecordEnd
      BY <1>0, <1>4, <3>5, RecordLife
    <3>6. CASE \E p \in Procs : InsertJob(p)
      BY <1>0, <1>4, <3>6, InsertLife
    <3>7. ASSUME NEW r \in Requests, Orphan(r) PROVE LifeStep
      BY <1>0, <1>4, <3>7, OrphanLife
    <3>8. ASSUME NEW r \in Requests, DeleteAccount(r) PROVE LifeStep
      BY <1>0, <1>4, <3>8, DeleteLife
    <3>9. CASE CloseAbandonWrite \/ CloseInterrupt
      BY <1>0, <1>4, <3>9, CloseLife
    <3> QED
      BY <1>4, <2>3, <3>2, <3>3, <3>4, <3>5, <3>6, <3>7, <3>8, <3>9, RowsChange
  <2> QED
    BY <2>1, <2>2, <2>3
<1> QED
  BY <1>0, <1>1, <1>2, <1>3, <1>4, DoingChange

LEMMA InitLives == Init => Life!Init
<1> SUFFICES ASSUME Init PROVE Life!Init
  OBVIOUS
<1>1. \A i \in Ids : rows[i].state = "absent"
  BY DEF Init, NoRow
<1>2. Aside = {}
  BY <1>1 DEF Aside, Waiting
<1>3. promised = {} /\ Doing = NoJob
  BY DEF Init, Doing
<1> QED
  BY <1>1, <1>2, <1>3 DEF Aside, Doing, Life!Init

\* The queue implements JobLife: a job waits, is taken in its turn past those a Stop has
\* set aside, works alone, ends once, and begins no item after somebody was told that it
\* is stopped; through claims, presses, swaps of the files, shutdowns and crashes.
THEOREM JobsLiveAsPromised ==
  ASSUME NoWipeOverAStop PROVE SafeSpec => LivesAsPromised
<1>1. LInv /\ [Next]_vars => [Life!Next]_(Life!vars)
  BY NextLife DEF LifeStep
<1> QED
  BY <1>1, InitLives, LifeInvariance, PTL DEF SafeSpec, LivesAsPromised, Life!Spec
=============================================================================
