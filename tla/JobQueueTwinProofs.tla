------------------------- MODULE JobQueueTwinProofs -------------------------
(***************************************************************************)
(* No account has the same work there to run twice.                        *)
(*                                                                         *)
(* Two jobs that are the same work (twins) come to be: the check of an     *)
(* insert looks past a job whose mark a Stop is about to take back, since  *)
(* a claim got there first.  What holds is that one of two twins is then   *)
(* on its way out (Doomed), and stays so through whatever the Stop, the    *)
(* claim, a settle and a swap do next.                                     *)
(*                                                                         *)
(* A Stop all that took a mark back and then fails to settle an orphan     *)
(* gives up on the rest of its list (runner.go:1155), the job of that mark *)
(* among them.  The hypothesis EveryStopReaches keeps the two apart.       *)
(***************************************************************************)
EXTENDS JobQueueLifeProofs

USE QueueAssumption DEF NoJob, Procs, Gens, Incs

\* What stops more than one job at a time, and what leaves a running row without a worker:
\* a lock that is held by another through every retry, and the abandoning at shutdown.
Sweeping  == {"stopAll", "delete"}
Orphaning == {"lock", "close"}

\* The hypothesis: there are no orphans, or no Stop has a list.
EveryStopReaches == Ops \cap Sweeping = {} \/ Ops \cap Orphaning = {}

(***************************************************************************)
(* The inductive invariant, on top of SInv.                                *)
(***************************************************************************)
\* What the operations left out say of the states.
NoSweep   == \A r \in Requests : req[r].pc \in StopPCs \cup {"leave"} => req[r].op = "stop"
Alone     == req[Run].pc = "idle"
Unclosed  == cpc = "open" /\ abandoned = NoJob
LockOfRun == lock # "free" => lock = "run" /\ wpc = "item"
Recorded  == wpc = "record" => hand.fin # "none"
NoOrphan  == \A i \in Ids : rows[i].state = "running" => InHand(i) /\ wpc # "release"
Orphanless == Unclosed /\ LockOfRun /\ Recorded /\ NoOrphan
Left == /\ "continue" \notin Ops => Alone
        /\ Ops \cap Sweeping = {} => NoSweep
        /\ Ops \cap Orphaning = {} => Orphanless

\* A Stop of one job has that one to do; past its look at the running rows, with no
\* orphan among them, any Stop has one at most.
Far == {"stopHeld", "waitClaim", "orphan"}
OneTodoOf(x) == /\ x.op = "stop" => x.todo \subseteq {x.id} /\ x.pc # "readRunning"
                /\ x.pc \in Far => \A i, k \in x.todo : i = k
OneTodo == \A r \in Requests : OneTodoOf(req[r])

\* What a Stop with a list marks is in its scope.
InScopeStill(r, i) == rows[i].uid \in Uids => InScope(r, rows[i].uid)
Scoped == \A r \in Requests :
            req[r].op # "stop" /\ req[r].pc \in {"mark", "recheck", "resolve"} =>
              \A i \in req[r].todo : InScopeStill(r, i)

\* A Stop on its way to the running job i, whose mark it may have taken back.
Reaching(r, i) ==
  \/ req[r].pc = "stopHeld" /\ i \in req[r].todo
  \/ req[r].op = "stop" /\ req[r].pc = "signal" /\ i \in req[r].todo
  \/ /\ req[r].op # "stop"
     /\ req[r].pc \in {"recheck", "resolve", "signal", "settleSoon", "readRunning"}
     /\ InScope(r, rows[i].uid)

\* A job on its way out: marked, in nobody's hands, stopped in hand, to be stopped by the
\* claim that took it, or about to be reached; and one that may have continued itself.
Doomed(i) ==
  \/ i \in HeldNow
  \/ rows[i].state = "running" /\ ~InHand(i)
  \/ wpc \in HandPCs /\ hand.id = i /\ (hand.stop = TRUE \/ runEnded)
  \/ wpc = "claimed" /\ hand.id = i /\ i \in claimStop
  \/ rows[i].state = "running" /\ \E r \in Requests : Reaching(r, i)
  \/ "continue" \in Ops /\ running = i

Twins(i, k) == /\ rows[i].state \in Live /\ rows[k].state \in Live
               /\ rows[i].uid \in Uids /\ rows[i].uid = rows[k].uid
               /\ rows[i].work = rows[k].work
OneGoes == \A i, k \in Ids : i # k /\ Twins(i, k) => Doomed(i) \/ Doomed(k)

TInv == SInv /\ Left /\ OneTodo /\ Scoped /\ OneGoes

(***************************************************************************)
(* Where no job is orphaned.                                               *)
(***************************************************************************)
\* The job in hand stays there until the worker lets go of it.
LEMMA HandStays ==
  ASSUME IInv, [Next]_vars, NEW i \in Ids, InHand(i), ~Release, ~Restart
  PROVE  InHand(i)'
<1> USE DEF InHand, Taken
<1>0. hand \in Hand /\ i # NoJob
  BY DEF IInv, TypeOK, Ids
<1>1. CASE wpc = "claimed" /\ (ClaimStep \/ RunStep)
  <2>1. AfterClaim
    BY <1>0, <1>1, WorkerMoves DEF IInv, AfterEmptyClaim
  <2> QED
    BY <1>0, <2>1 DEF AfterClaim, HandPCs, Hand
<1>2. CASE wpc \in HandPCs /\ ClaimStep
  BY <1>2 DEF ClaimStep, WorkerTop, WorkerSettle, ClaimRead, ClaimUpdate, ClaimRetry,
              ClaimGivesUp, AfterClaim, AfterEmptyClaim, HandPCs
<1>3. CASE wpc \in HandPCs /\ RunStep
  <2>1. \A err, told : Returns(err, told) => wpc' = "record" /\ hand'.id = hand.id
    BY <1>0 DEF Returns, Hand
  <2>2. CASE FinishItem
    BY <1>0, <2>2 DEF FinishItem, HandPCs, Hand
  <2> QED
    BY <1>3, <2>1, <2>2 DEF RunStep, Execute, BeginItem, AbandonItem, Progress, RunTold,
       RunDone, RunFails, RecordEnd, RecordNothing, ContinueStart, HandPCs, memVars
<1>4. CASE /\ wpc' = wpc \/ (wpc = "continue" /\ wpc' = "between")
           /\ hand'.id = hand.id
  BY <1>4 DEF HandPCs
<1> QED
  BY <1>1, <1>2, <1>3, <1>4, WorkerKept DEF IInv, Control, HandPCs

\* A run ends in a state the table knows.
LEMMA EndStates == \A err, told : EndState(err, told) \in Ended
BY DEF EndState, Ended

LEMMA UnclosedKept ==
  ASSUME Ops \cap Orphaning = {}, Unclosed, [Next]_vars PROVE Unclosed'
<1> USE DEF Unclosed, Orphaning
<1>1. ~CloseBegin /\ ~CloseAbandon /\ ~CloseAbandonWrite
  BY DEF CloseBegin, CloseAbandon, CloseAbandonWrite
<1>2. Restart => Unclosed'
  BY DEF Restart
<1> QED
  BY <1>1, <1>2, CloseChange

\* The write lock is taken by an item of the running job, and by others.
LEMMA LockChange ==
  ASSUME [Next]_vars
  PROVE  \/ lock' = lock
         \/ BeginItem
         \/ lock' = "free"
         \/ LockTake
<1> USE DEF dbVars, memVars, closeVars, workerVars, histVars
<1>1. CASE ClaimStep
  BY <1>1 DEF ClaimStep, WorkerTop, WorkerSettle, ClaimRead, ClaimUpdate, ClaimRetry,
     ClaimGivesUp, AfterClaim, AfterEmptyClaim
<1>2. CASE RunStep
  BY <1>2 DEF RunStep, Execute, FinishItem, AbandonItem, Progress, RunTold, Unlocked,
     RunDone, RunFails, RecordEnd, RecordNothing, Release, ContinueStart
<1>3. ASSUME NEW p \in Procs, EnqueueStep(p) PROVE lock' = lock
  BY <1>3 DEF EnqueueStep, EnqueueCheck, InsertJob, InsertRefused, EnqueueDone
<1>4. ASSUME NEW r \in Requests, Start(r) \/ StopStep(r) \/ DeleteStep(r)
      PROVE  lock' = lock
  BY <1>4 DEF Start, EnqueueStart, RerunStart, StopStart, StopAllStart, DeleteStart,
     ExclusiveStart, StopStep, StopStale, StopRead, Mark, Recheck, Resolve, AfterHold,
     Signal, SettleSoon, ReadRunning, StopHeld, StopDone, Orphan, OrphanFails, DeleteStep,
     DeleteLeave, DeleteIdle, DeleteAccount, DeleteRefused
<1>5. ASSUME NEW r \in Requests, ExclusiveStep(r) PROVE lock' = lock \/ lock' = "free"
  BY <1>5 DEF ExclusiveStep, ExclusiveEnter, RunFn, SwapBegin, SwapRefused, SwapFiles,
     ExclusiveEnd
<1>6. ASSUME CloseBegin \/ CloseStep PROVE lock' = lock
  BY <1>6 DEF CloseBegin, CloseStep, CloseIdle, CloseCancel, CloseAbandon,
     CloseAbandonWrite, CloseInserts, CloseSettle, CloseInterrupt
<1>7. ASSUME \/ \E u \in Uids : CreateAccount(u)
             \/ Restart \/ RetireLapses \/ LockRelease \/ UNCHANGED vars
      PROVE  lock' = lock \/ lock' = "free"
  BY <1>7 DEF CreateAccount, Restart, RetireLapses, LockRelease, vars
<1> QED
  BY <1>1, <1>2, <1>3, <1>4, <1>5, <1>6, <1>7, Groups

LEMMA LockOfRunKept ==
  ASSUME IInv, Ops \cap Orphaning = {}, LockOfRun, [Next]_vars PROVE LockOfRun'
<1>1. ~LockTake
  BY DEF LockTake, Orphaning
<1>2. CASE BeginItem
  <2>1. lock' \in {"free", "run"} /\ wpc' = "item"
    BY <1>2 DEF BeginItem, LockOfRun, IInv, TypeOK
  <2> QED
    BY <2>1 DEF LockOfRun
<1>3. CASE lock' = lock /\ lock # "free"
  <2>1. lock = "run" /\ wpc = "item"
    BY <1>3 DEF LockOfRun
  <2>2. ~ClaimStep
    BY <2>1 DEF ClaimStep, WorkerTop, WorkerSettle, ClaimRead, ClaimUpdate, ClaimRetry,
                ClaimGivesUp, AfterClaim, AfterEmptyClaim
  <2>3. ~RunStep
    BY <1>3, <2>1 DEF RunStep, Execute, BeginItem, FinishItem, AbandonItem, Progress,
       RunTold, Unlocked, RunDone, RunFails, RecordEnd, RecordNothing, Release, ContinueStart
  <2>4. ~Restart
    BY <1>3 DEF Restart
  <2>5. wpc' = "item"
    BY <2>1, <2>2, <2>3, <2>4, WorkerKept DEF IInv, Control
  <2> QED
    BY <1>3, <2>1, <2>5 DEF LockOfRun
<1>4. CASE lock' = "free"
  BY <1>4 DEF LockOfRun
<1> QED
  BY <1>1, <1>2, <1>3, <1>4, LockChange

\* A run that ends while nothing has been abandoned has an end to record.
LEMMA RecordedKept ==
  ASSUME IInv, Unclosed, Recorded, [Next]_vars PROVE Recorded'
<1> SUFFICES ASSUME wpc' = "record" PROVE hand'.fin # "none"
  BY DEF Recorded
<1>0. hand \in Hand
  BY DEF IInv, TypeOK
<1>1. ASSUME NEW err, NEW told, Returns(err, told), wpc \in HandPCs PROVE hand'.fin # "none"
  <2>1. abandoned # hand.id
    BY <1>1 DEF Unclosed, IInv, Control, HandHasJob
  <2>2. hand'.fin = EndState(err, told)
    BY <1>0, <1>1, <2>1 DEF Returns, Hand
  <2> QED
    BY <2>2, EndStates DEF Ended
<1>2. CASE RunStep
  BY <1>1, <1>2 DEF RunStep, Execute, BeginItem, FinishItem, AbandonItem, Progress,
     RunTold, RunDone, RunFails, RecordEnd, RecordNothing, Release, ContinueStart, HandPCs
<1>3. ~ClaimStep /\ ~Restart
  BY DEF ClaimStep, WorkerTop, WorkerSettle, ClaimRead, ClaimUpdate, ClaimRetry,
         ClaimGivesUp, AfterClaim, AfterEmptyClaim, Restart
<1>4. CASE wpc' = wpc /\ hand'.fin = hand.fin
  BY <1>4 DEF Recorded
<1> QED
  BY <1>2, <1>3, <1>4, WorkerKept DEF IInv, Control

\* The end of the job in hand is written: the lock is free, and no file is moving.
LEMMA EndIsWritten ==
  ASSUME IInv, Orphanless PROVE ~RecordNothing
<1> SUFFICES ASSUME wpc = "record", hand.fin = "none" \/ MayFail PROVE FALSE
  BY DEF RecordNothing
<1>1. hand.fin # "none" /\ lock = "free"
  BY DEF Orphanless, Recorded, LockOfRun
<1>2. ~swapMoving
  BY DEF swapMoving, exclusive, XPCs, IInv, Control, HandInGeneration
<1> QED
  BY <1>1, <1>2 DEF MayFail

LEMMA NoOrphanKept ==
  ASSUME IInv, HandBegun, Orphanless, [Next]_vars PROVE NoOrphan'
<1> SUFFICES ASSUME NEW i \in Ids, rows'[i].state = "running"
             PROVE  InHand(i)' /\ wpc' # "release"
  BY DEF NoOrphan
<1>0. rows \in [Ids -> Row] /\ hand \in Hand
  BY DEF IInv, TypeOK
<1>1. CASE ClaimUpdate /\ hand'.id = i
  <2>1. wpc' = "claimed"
    BY <1>1 DEF ClaimUpdate
  <2> QED
    BY <1>1, <2>1 DEF InHand, Taken
<1>2. CASE rows[i].state = "running"
  <2>1. InHand(i) /\ wpc # "release"
    BY <1>2 DEF Orphanless, NoOrphan
  <2>2. ~Release
    BY <2>1 DEF Release
  <2>3. ~Restart
    <3>1. [rows[i] EXCEPT !.state = "interrupted"].state # "running"
      BY <1>0 DEF Row
    <3> QED
      BY <1>2, <3>1 DEF Restart, Live
  <2>4. ~RecordEnd
    <3> SUFFICES ASSUME RecordEnd PROVE FALSE
      OBVIOUS
    <3>1. hand.fin \in Ended /\ wpc = "record"
      BY <1>0 DEF RecordEnd, Hand
    <3>2. hand.id = i
      BY <2>1 DEF InHand
    <3>3. rows' = Set(i, hand.fin)
      BY <1>2, <3>2 DEF RecordEnd, Cas
    <3> QED
      BY <1>0, <3>1, <3>3 DEF Set, Row, Ended
  <2>5. InHand(i)'
    BY <2>1, <2>2, <2>3, HandStays
  <2>6. wpc' # "release"
    <3>1. ~(wpc \in HandPCs /\ wpc' \in HandPCs /\ wpc' = "release")
      BY <2>1, <2>4, EndIsWritten, HandGoesOn
    <3>2. wpc = "claimed" => wpc' # "release"
      <4>1. wpc = "claimed" /\ wpc' = "release" => ClaimStep \/ RunStep
        BY <2>3, WorkerKept DEF IInv, Control
      <4>2. AfterClaim \/ AfterEmptyClaim => wpc' # "release"
        BY DEF AfterClaim, AfterEmptyClaim
      <4> QED
        BY <4>1, <4>2, WorkerMoves DEF IInv
    <3> QED
      BY <2>1, <3>1, <3>2 DEF InHand, Taken, HandPCs
  <2> QED
    BY <2>5, <2>6
<1>3. CASE \E r \in Requests : SwapFiles(r)
  <2>1. PICK r \in Requests : SwapFiles(r)
    BY <1>3
  <2>2. rows[i].state = "running"
    <3>1. ASSUME rows' = Carried(accounts') PROVE FALSE
      <4>1. rows'[i].state \in {"absent", "interrupted"} \cup Ended
        BY <3>1, <1>0 DEF Carried, Row, States
      <4> QED
        BY <4>1 DEF Ended
    <3>2. NoRow.state # "running"
      BY DEF NoRow
    <3> QED
      BY <2>1, <3>1, <3>2 DEF SwapFiles
  <2> QED
    BY <2>2, <1>2
<1>4. ASSUME rows'[i] = [rows[i] EXCEPT !.uid = NoUid] PROVE rows[i].state = "running"
  BY <1>0, <1>4 DEF Row
<1>5. ASSUME NEW st \in Ended, Becomes(i, st) PROVE FALSE
  BY <1>0, <1>5 DEF Becomes, Row, Ended
<1>6. RecordEnd => hand.fin \in Ended
  BY <1>0 DEF RecordEnd, Hand
<1>7. ASSUME NEW p \in Procs, rows'[i] = [NoRow EXCEPT !.state = "queued",
               !.uid = req[p].uid, !.inc = req[p].inc, !.work = req[p].work]
      PROVE  FALSE
  BY <1>7 DEF NoRow
<1>8. ~Becomes(i, "stopped") /\ ~Becomes(i, "interrupted")
  BY <1>5 DEF Ended
<1>9. ~(RecordEnd /\ Becomes(i, hand.fin))
  BY <1>5, <1>6
<1>10. rows'[i] = rows[i] => rows[i].state = "running"
  OBVIOUS
<1> QED
  BY <1>1, <1>2, <1>3, <1>4, <1>7, <1>8, <1>9, <1>10, RowChange DEF IInv

(***************************************************************************)
(* What a request is about, and what a Stop has to do.                     *)
(***************************************************************************)
Same(r) == /\ req'[r].op = req[r].op /\ req'[r].uid = req[r].uid
           /\ req'[r].id = req[r].id

\* What a Stop has to do, out of Steady: it signals, looks once at what runs, and takes
\* the jobs it found one at a time.
InScopeRunning(r) == {i \in Ids : rows[i].state = "running" /\ InScope(r, rows[i].uid)}
SignalGoes(r) ==
  /\ req[r].pc = "signal"
  /\ \/ req[r].op = "stop" /\ req'[r] = [req[r] EXCEPT !.pc = "stopHeld"]
     \/ /\ req[r].op # "stop"
        /\ \E l \in {"settleSoon", "readRunning"} : req'[r] = [req[r] EXCEPT !.pc = l]
SettleGoes(r) ==
  /\ req[r].pc = "settleSoon" /\ req[r].op # "stop"
  /\ req'[r] = [req[r] EXCEPT !.pc = "readRunning", !.fresh = {}]
ReadGoes(r) ==
  /\ req[r].pc = "readRunning" /\ ~swapMoving
  /\ req'[r] = [req[r] EXCEPT !.pc = "stopHeld", !.todo = InScopeRunning(r)]
HeldGoes(r, i) ==
  /\ req[r].pc = "stopHeld" /\ FirstOf(req[r].todo, i)
  /\ \/ /\ claiming /\ claimStop' = claimStop \cup {i}
        /\ req'[r] = [req[r] EXCEPT !.pc = "waitClaim"]
     \/ /\ ~claiming /\ running = i
        /\ hand' = IF runEnded THEN hand ELSE [hand EXCEPT !.stop = TRUE]
        /\ req'[r] = [req[r] EXCEPT !.todo = @ \ {i}]
     \/ /\ ~claiming /\ running # i
        /\ req'[r] = [req[r] EXCEPT !.pc = "orphan"]
DoneGoes(r) == /\ req[r].pc = "stopHeld" /\ req[r].todo = {}
               /\ req'[r] = [req[r] EXCEPT !.pc = "waitIdle"]
\* It is answered where it finds nothing to do, or the files of another store, or has
\* nothing left to do, or fails at an orphan.
AnswerGoes(r) ==
  /\ req'[r] = Idle
  /\ \/ req[r].pc \in {"stopRead", "orphan"}
     \/ req[r].pc = "settleSoon" /\ req[r].op = "stop"
     \/ req[r].pc = "readRunning" /\ swapMoving
     \/ req[r].pc = "stopHeld" /\ req[r].todo = {}
OrphanGoes(r, i) ==
  /\ req[r].pc = "orphan" /\ FirstOf(req[r].todo, i)
  /\ rows' = Cas(i, "interrupted")
  /\ req'[r] = [req[r] EXCEPT !.pc = "stopHeld", !.todo = @ \ {i}]

LEMMA TailMoves ==
  ASSUME req \in [Procs -> Request], NEW r \in Requests, StopStep(r)
  PROVE  \/ StopRead(r) \/ Mark(r) \/ Recheck(r) \/ Resolve(r) \/ AfterHold(r)
         \/ AnswerGoes(r)
         \/ Signal(r) /\ SignalGoes(r)
         \/ SettleSoon(r) /\ SettleGoes(r)
         \/ ReadRunning(r) /\ ReadGoes(r)
         \/ StopHeld(r) /\ \E i \in Ids : HeldGoes(r, i)
         \/ StopDone(r) /\ DoneGoes(r)
         \/ Orphan(r) /\ \E i \in Ids : OrphanGoes(r, i)
<1>0. req[r] \in Request /\ req[r].todo \subseteq Ids
  BY DEF Request
<1>1. StopStale(r) \/ OrphanFails(r) => AnswerGoes(r)
  BY DEF StopStale, OrphanFails, Finish, AnswerGoes
<1>2. Signal(r) => SignalGoes(r)
  BY DEF Signal, SignalGoes, Goto
<1>3. SettleSoon(r) => AnswerGoes(r) \/ SettleGoes(r)
  BY DEF SettleSoon, SettleGoes, Finish, AnswerGoes
<1>4. ReadRunning(r) => AnswerGoes(r) \/ ReadGoes(r)
  BY DEF ReadRunning, ReadGoes, InScopeRunning, Finish, AnswerGoes
<1>5. StopHeld(r) => \E i \in Ids : HeldGoes(r, i)
  BY <1>0 DEF StopHeld, HeldGoes, FirstOf, Goto
<1>6. StopDone(r) => AnswerGoes(r) \/ DoneGoes(r)
  BY DEF StopDone, DoneGoes, Finish, Goto, AnswerGoes
<1>7. Orphan(r) => \E i \in Ids : OrphanGoes(r, i)
  BY <1>0 DEF Orphan, OrphanGoes, FirstOf
<1> QED
  BY <1>1, <1>2, <1>3, <1>4, <1>5, <1>6, <1>7 DEF StopStep

\* A request is about what it was made about, until it is answered.
LEMMA RequestStays ==
  ASSUME TypeOK, [Next]_vars, NEW r \in Requests
  PROVE  Start(r) \/ req'[r] = Idle \/ Same(r)
<1> USE DEF Same
<1>0. req \in [Procs -> Request] /\ r \in Procs /\ req[r] \in Request
  BY DEF TypeOK
<1>1. \A l : /\ [req[r] EXCEPT !.pc = l].op = req[r].op
             /\ [req[r] EXCEPT !.pc = l].uid = req[r].uid
             /\ [req[r] EXCEPT !.pc = l].id = req[r].id
  BY <1>0 DEF Request
<1>2. CASE StopStep(r)
  <2>1. StopRead(r) => req'[r] = Idle \/ Same(r)
    BY <1>0, <1>1 DEF StopRead, Finish, Request
  <2>2. ASSUME Mark(r) PROVE Same(r)
    <3>1. req'[r] = [req[r] EXCEPT !.pc = "recheck", !.todo = @ \ HeldNow]
      BY <1>0, <2>2, MarkMoves
    <3> QED
      BY <1>0, <3>1 DEF Request
  <2>3. ASSUME Recheck(r) PROVE Same(r)
    <3>1. PICK i \in Ids :
            \/ req'[r] = [req[r] EXCEPT !.todo = @ \ {i}, !.fresh = @ \cup {i}]
            \/ req'[r] = [req[r] EXCEPT !.pc = "resolve"]
      BY <1>0, <2>3, RecheckMoves
    <3> QED
      BY <1>0, <3>1 DEF Request
  <2>4. ASSUME Resolve(r) PROVE Same(r)
    <3>1. PICK i \in Ids :
            \/ req'[r] = [req[r] EXCEPT !.pc = "signal"]
            \/ req'[r] = [req[r] EXCEPT !.pc = "recheck", !.todo = @ \ {i}]
            \/ req'[r] = [req[r] EXCEPT !.pc = "recheck",
                            !.todo = @ \ {i}, !.fresh = @ \cup {i}]
      BY <1>0, <2>4, ResolveMoves
    <3> QED
      BY <1>0, <3>1 DEF Request
  <2>5. ASSUME AfterHold(r) PROVE req'[r] = Idle \/ Same(r)
    <3>1. \/ req'[r] = Idle
          \/ req'[r] = [req[r] EXCEPT !.pc = "signal"]
          \/ req'[r] = [req[r] EXCEPT !.pc = "settleSoon"]
      BY <1>0, <2>5, AfterHoldMoves
    <3> QED
      BY <1>0, <3>1 DEF Request
  <2>6. /\ SignalGoes(r) \/ SettleGoes(r) \/ ReadGoes(r) \/ DoneGoes(r) => Same(r)
        /\ \A i \in Ids : HeldGoes(r, i) \/ OrphanGoes(r, i) => Same(r)
    BY <1>0 DEF SignalGoes, SettleGoes, ReadGoes, DoneGoes, HeldGoes, OrphanGoes, Request
  <2> QED
    BY <1>0, <1>2, <2>1, <2>2, <2>3, <2>4, <2>5, <2>6, TailMoves DEF AnswerGoes
<1>3. CASE EnqueueStep(r)
  <2>1. \/ req'[r] = Idle
        \/ \E l \in {"insert", "inserted"} : req'[r] = [req[r] EXCEPT !.pc = l]
    BY <1>0, <1>3, EnqueueMoves
  <2> QED
    BY <1>1, <2>1
<1>4. CASE DeleteStep(r)
  BY <1>0, <1>1, <1>4, DeleteMoves
<1>5. CASE ExclusiveStep(r)
  <2>1. req'[r] = Idle \/ \E l \in XPCs : req'[r] = [req[r] EXCEPT !.pc = l]
    BY <1>0, <1>5, ExclusiveMoves
  <2> QED
    BY <1>1, <2>1
<1>6. CASE Restart
  BY <1>0, <1>6 DEF Restart
<1>7. Run \notin Requests
  BY QueueAssumption
<1>8. CASE req[r].pc = "waitClaim" /\ req'[r] = [req[r] EXCEPT !.pc = "stopHeld"]
  BY <1>0, <1>8 DEF Request
<1>9. CASE req'[r] = req[r]
  BY <1>9
<1> QED
  BY <1>0, <1>2, <1>3, <1>4, <1>5, <1>6, <1>7, <1>8, <1>9, ReqChange

\* A request that begins is a Stop with a list only where there are such.
LEMMA StartsNoSweep ==
  ASSUME req \in [Procs -> Request], NEW r \in Requests, Start(r), Ops \cap Sweeping = {}
  PROVE  req'[r].pc \in StopPCs \cup {"leave"} => req'[r].op = "stop"
<1> USE DEF StopPCs, Sweeping
<1>1. ASSUME NEW u \in Uids, NEW w \in Works, EnqueueStart(r, u, w)
      PROVE  req'[r].pc = "enqCheck"
  BY <1>1 DEF EnqueueStart, Idle
<1>2. ASSUME NEW i \in Ids, RerunStart(r, i) PROVE req'[r].pc = "enqCheck"
  BY <1>2 DEF RerunStart, Idle
<1>3. ASSUME NEW u \in Uids, NEW i \in Ids, StopStart(r, u, i) PROVE req'[r].op = "stop"
  BY <1>3 DEF StopStart, Idle
<1>4. ASSUME NEW u \in Uids PROVE ~StopAllStart(r, u) /\ ~DeleteStart(r, u)
  BY DEF StopAllStart, DeleteStart
<1>5. ASSUME NEW k \in SwapKinds, ExclusiveStart(r, k) PROVE req'[r].pc = "xwait"
  BY <1>5 DEF ExclusiveStart, Idle
<1> QED
  BY <1>1, <1>2, <1>3, <1>4, <1>5 DEF Start

LEMMA NoSweepKept ==
  ASSUME TypeOK, Ops \cap Sweeping = {}, NoSweep, [Next]_vars PROVE NoSweep'
<1> SUFFICES ASSUME NEW r \in Requests, req'[r].pc \in StopPCs \cup {"leave"}
             PROVE  req'[r].op = "stop"
  BY DEF NoSweep
<1>0. req \in [Procs -> Request] /\ r \in Procs /\ req[r] \in Request
  BY DEF TypeOK
<1>1. CASE Start(r)
  BY <1>0, <1>1, StartsNoSweep
<1>2. req'[r] # Idle
  BY DEF Idle, StopPCs
<1>3. CASE Same(r) /\ req[r].pc \in StopPCs \cup {"leave"}
  BY <1>3 DEF Same, NoSweep
<1>4. CASE req[r].pc \notin StopPCs \cup {"leave"}
  <2> USE DEF StopPCs
  <2>1. ~StopStep(r) /\ req[r].pc # "waitClaim" /\ req'[r] # req[r]
    BY <1>0, <1>4, StopStays
  <2>2. ~EnqueueStep(r)
    <3>1. EnqueueStep(r) => \/ req'[r] = [req[r] EXCEPT !.pc = "insert"]
                            \/ req'[r] = [req[r] EXCEPT !.pc = "inserted"]
      BY <1>0, <1>2, EnqueueMoves
    <3> QED
      BY <3>1, <1>0 DEF Request
  <2>3. ~DeleteStep(r)
    <3>1. DeleteStep(r) => req'[r] = [req[r] EXCEPT !.pc = "deleteTx"]
      BY <1>0, <1>2, <1>4, DeleteMoves
    <3> QED
      BY <3>1, <1>0 DEF Request
  <2>4. ~ExclusiveStep(r)
    <3>1. ExclusiveStep(r) => \E l \in XPCs : req'[r] = [req[r] EXCEPT !.pc = l]
      BY <1>0, <1>2, ExclusiveMoves
    <3> QED
      BY <3>1, <1>0 DEF Request, XPCs
  <2>5. ~Restart
    BY <1>0, <1>2 DEF Restart
  <2> QED
    BY <1>0, <1>1, <2>1, <2>2, <2>3, <2>4, <2>5, ReqChange
<1> QED
  BY <1>1, <1>2, <1>3, <1>4, RequestStays

\* The running job's own goroutine queues only continuations.
LEMMA AloneKept ==
  ASSUME IInv, "continue" \notin Ops, Alone, [Next]_vars PROVE Alone'
<1>0. req \in [Procs -> Request] /\ Run \in Procs
  BY DEF IInv, TypeOK
<1>1. ~EnqueueStep(Run)
  BY <1>0, EnqueueMoves DEF Alone
<1>2. \A w \in Works : ~ContinueStart(w)
  BY DEF ContinueStart
<1>3. Restart => req'[Run].pc = "idle"
  BY <1>0, RestartFacts
<1> QED
  BY <1>0, <1>1, <1>2, <1>3, ReqChange DEF Alone

LEMMA LeftKept == IInv /\ HandBegun /\ Left /\ [Next]_vars => Left'
<1> SUFFICES ASSUME IInv, HandBegun, Left, [Next]_vars PROVE Left'
  OBVIOUS
<1>1. "continue" \notin Ops => Alone'
  BY AloneKept DEF Left
<1>2. Ops \cap Sweeping = {} => NoSweep'
  BY NoSweepKept DEF Left, IInv
<1>3. Ops \cap Orphaning = {} => Orphanless'
  BY UnclosedKept, LockOfRunKept, RecordedKept, NoOrphanKept DEF Left, Orphanless
<1> QED
  BY <1>1, <1>2, <1>3 DEF Left

\* A Stop of one job keeps to its job, and one with a list finds one job that runs.
LEMMA OneTodoTail ==
  ASSUME EveryStopReaches, TypeOK, Left, NEW r \in Requests, OneTodoOf(req[r]), StopStep(r)
  PROVE  OneTodoOf(req'[r])
<1> USE DEF OneTodoOf, Far
<1>0. req \in [Procs -> Request] /\ req[r] \in Request
  BY DEF TypeOK
<1>1. Idle.op = "none" /\ Idle.pc = "idle"
  BY DEF Idle
<1>11. ASSUME req'[r].op = req[r].op, req'[r].id = req[r].id,
              req'[r].todo \subseteq req[r].todo,
              req'[r].pc \in Far => req[r].pc \in Far \/ req[r].op = "stop",
              req'[r].pc = "readRunning" => req[r].op # "stop"
       PROVE  OneTodoOf(req'[r])
  BY <1>11
<1>2. CASE StopRead(r)
  <2>1. req'[r].pc \in {"idle", "signal", "mark"}
    BY <1>0, <1>2, StopReadMoves
  <2>2. req'[r].op = "stop" => req'[r].todo = {req'[r].id}
    <3>1. CASE req'[r].pc = "idle"
      <4>1. req'[r] = Idle
        BY <1>0, <1>2, <3>1 DEF StopRead, Finish, Request
      <4> QED
        BY <1>1, <4>1
    <3>2. CASE req'[r].pc # "idle"
      BY <1>0, <1>2, <3>2, StopReadMoves
    <3> QED
      BY <3>1, <3>2
  <2> QED
    BY <2>1, <2>2
<1>3. CASE Mark(r)
  <2>1. req'[r] = [req[r] EXCEPT !.pc = "recheck", !.todo = @ \ HeldNow]
    BY <1>0, <1>3, MarkMoves
  <2> QED
    BY <1>0, <2>1 DEF Request
<1>4. CASE Recheck(r)
  <2>1. PICK i \in Ids :
          \/ req'[r] = [req[r] EXCEPT !.todo = @ \ {i}, !.fresh = @ \cup {i}]
          \/ req'[r] = [req[r] EXCEPT !.pc = "resolve"]
    BY <1>0, <1>4, RecheckMoves
  <2>2. req[r].pc = "recheck"
    BY <1>0, <1>4, RecheckMoves
  <2>3. /\ req'[r].op = req[r].op /\ req'[r].id = req[r].id
        /\ req'[r].pc \in {"recheck", "resolve"} /\ req'[r].todo \subseteq req[r].todo
    <3>1. CASE req'[r] = [req[r] EXCEPT !.todo = @ \ {i}, !.fresh = @ \cup {i}]
      BY <1>0, <2>2, <3>1 DEF Request
    <3>2. CASE req'[r] = [req[r] EXCEPT !.pc = "resolve"]
      BY <1>0, <3>2 DEF Request
    <3> QED
      BY <2>1, <3>1, <3>2
  <2> QED
    BY <1>11, <2>3
<1>5. CASE Resolve(r)
  <2>1. PICK i \in Ids :
          \/ req'[r] = [req[r] EXCEPT !.pc = "signal"]
          \/ req'[r] = [req[r] EXCEPT !.pc = "recheck", !.todo = @ \ {i}]
          \/ req'[r] = [req[r] EXCEPT !.pc = "recheck",
                          !.todo = @ \ {i}, !.fresh = @ \cup {i}]
    BY <1>0, <1>5, ResolveMoves
  <2>2. /\ req'[r].op = req[r].op /\ req'[r].id = req[r].id
        /\ req'[r].pc \in {"recheck", "signal"} /\ req'[r].todo \subseteq req[r].todo
    <3>1. CASE req'[r] = [req[r] EXCEPT !.pc = "signal"]
      BY <1>0, <3>1 DEF Request
    <3>2. CASE req'[r] = [req[r] EXCEPT !.pc = "recheck", !.todo = @ \ {i}]
      BY <1>0, <3>2 DEF Request
    <3>3. CASE req'[r] = [req[r] EXCEPT !.pc = "recheck",
                            !.todo = @ \ {i}, !.fresh = @ \cup {i}]
      BY <1>0, <3>3 DEF Request
    <3> QED
      BY <2>1, <3>1, <3>2, <3>3
  <2> QED
    BY <1>11, <2>2
<1>6. CASE AfterHold(r)
  <2>1. \/ req'[r] = Idle
        \/ req'[r] = [req[r] EXCEPT !.pc = "signal"]
        \/ req'[r] = [req[r] EXCEPT !.pc = "settleSoon"]
    BY <1>0, <1>6, AfterHoldMoves
  <2> QED
    BY <1>0, <1>1, <2>1 DEF Request
<1>7. CASE SignalGoes(r) \/ SettleGoes(r) \/ DoneGoes(r)
  <2>1. /\ req'[r].op = req[r].op /\ req'[r].id = req[r].id
        /\ req'[r].todo = req[r].todo
    BY <1>0, <1>7 DEF SignalGoes, SettleGoes, DoneGoes, Request
  <2>2. /\ req'[r].pc \in Far => req[r].op = "stop"
        /\ req'[r].pc = "readRunning" => req[r].op # "stop"
    BY <1>0, <1>7 DEF SignalGoes, SettleGoes, DoneGoes, Request
  <2> QED
    BY <1>11, <2>1, <2>2
<1>8. CASE \E i \in Ids : HeldGoes(r, i) \/ OrphanGoes(r, i)
  <2>1. PICK i \in Ids : HeldGoes(r, i) \/ OrphanGoes(r, i)
    BY <1>8
  <2>2. req[r].pc \in {"stopHeld", "orphan"}
    BY <2>1 DEF HeldGoes, OrphanGoes
  <2>3. /\ req'[r].op = req[r].op /\ req'[r].id = req[r].id
        /\ req'[r].todo \subseteq req[r].todo
        /\ req'[r].pc \in Far
    <3>1. CASE \E l \in {"waitClaim", "orphan"} : req'[r] = [req[r] EXCEPT !.pc = l]
      BY <1>0, <3>1 DEF Request
    <3>2. CASE req'[r] = [req[r] EXCEPT !.todo = @ \ {i}]
      BY <1>0, <2>2, <3>2 DEF Request
    <3>3. CASE req'[r] = [req[r] EXCEPT !.pc = "stopHeld", !.todo = @ \ {i}]
      BY <1>0, <3>3 DEF Request
    <3> QED
      BY <2>1, <3>1, <3>2, <3>3 DEF HeldGoes, OrphanGoes
  <2> QED
    BY <1>11, <2>2, <2>3
<1>9. CASE ReadGoes(r)
  <2>1. req[r].op # "stop" /\ req[r].pc = "readRunning"
    BY <1>9 DEF ReadGoes
  <2>2. NoOrphan
    <3>1. ~NoSweep
      BY <2>1 DEF NoSweep, StopPCs
    <3> QED
      BY <3>1 DEF Left, EveryStopReaches, Orphanless
  <2>3. \A i, k \in InScopeRunning(r) : i = k
    BY <2>2 DEF NoOrphan, InScopeRunning, InHand
  <2>4. req'[r].op # "stop" /\ req'[r].todo = InScopeRunning(r)
    BY <1>0, <1>9, <2>1 DEF ReadGoes, Request
  <2> QED
    BY <2>3, <2>4
<1>10. CASE req'[r] = Idle
  BY <1>1, <1>10
<1> QED
  BY <1>0, <1>2, <1>3, <1>4, <1>5, <1>6, <1>7, <1>8, <1>9, <1>10, TailMoves DEF AnswerGoes

LEMMA OneTodoKept ==
  ASSUME EveryStopReaches, TypeOK, Left, OneTodo, [Next]_vars PROVE OneTodo'
<1> SUFFICES ASSUME NEW r \in Requests PROVE OneTodoOf(req'[r])
  BY DEF OneTodo
<1>0. req \in [Procs -> Request] /\ r \in Procs /\ req[r] \in Request /\ OneTodoOf(req[r])
  BY DEF TypeOK, OneTodo
<1>1. Idle.op = "none" /\ Idle.pc = "idle" /\ Run \notin Requests
  BY DEF Idle
<1>2. ASSUME NEW l, req'[r] = [req[r] EXCEPT !.pc = l],
             l \notin Far \/ req[r].pc \in Far, l # "readRunning"
      PROVE  OneTodoOf(req'[r])
  BY <1>0, <1>2 DEF OneTodoOf, Request
<1>3. CASE Start(r)
  <2>1. /\ req'[r].todo = {}
        /\ req'[r].pc \in {"enqCheck", "stopRead", "leave", "xwait"}
    BY <1>0, <1>3, StartMoves DEF Started
  <2> QED
    BY <2>1 DEF OneTodoOf, Far
<1>4. CASE EnqueueStep(r)
  <2>1. \/ req'[r] = Idle
        \/ \E l \in {"insert", "inserted"} : req'[r] = [req[r] EXCEPT !.pc = l]
    BY <1>0, <1>4, EnqueueMoves
  <2> QED
    BY <1>1, <1>2, <2>1 DEF Far, OneTodoOf
<1>5. CASE DeleteStep(r)
  <2>1. \/ req'[r] = Idle
        \/ \E l \in {"stopRead", "deleteTx"} : req'[r] = [req[r] EXCEPT !.pc = l]
    BY <1>0, <1>5, DeleteMoves
  <2> QED
    BY <1>1, <1>2, <2>1 DEF Far, OneTodoOf
<1>6. CASE ExclusiveStep(r)
  <2>1. req'[r] = Idle \/ \E l \in XPCs : req'[r] = [req[r] EXCEPT !.pc = l]
    BY <1>0, <1>6, ExclusiveMoves
  <2> QED
    BY <1>1, <1>2, <2>1 DEF Far, OneTodoOf, XPCs
<1>7. CASE Restart
  <2>1. req'[r] = Idle
    BY <1>0, <1>7, RestartFacts
  <2> QED
    BY <1>1, <2>1 DEF Far, OneTodoOf
<1>8. CASE req[r].pc = "waitClaim" /\ req'[r] = [req[r] EXCEPT !.pc = "stopHeld"]
  BY <1>2, <1>8 DEF Far
<1>9. CASE StopStep(r)
  BY <1>0, <1>9, OneTodoTail
<1>10. CASE req'[r] = req[r]
  BY <1>0, <1>10
<1> QED
  BY <1>0, <1>1, <1>3, <1>4, <1>5, <1>6, <1>7, <1>8, <1>9, <1>10, ReqChange

\* What is done to a Stop's own list in Steady.
LEMMA ListShrinks ==
  ASSUME req \in [Procs -> Request], NEW r \in Requests, Mark(r) \/ Recheck(r) \/ Resolve(r)
  PROVE  req'[r].todo \subseteq req[r].todo /\ req[r].pc \in SteadyPCs
<1>0. req[r] \in Request
  OBVIOUS
<1>1. CASE Mark(r)
  <2>1. /\ req[r].pc = "mark"
        /\ req'[r] = [req[r] EXCEPT !.pc = "recheck", !.todo = @ \ HeldNow]
    BY <1>1, MarkMoves
  <2> QED
    BY <1>0, <2>1 DEF Request, SteadyPCs
<1>2. CASE Recheck(r)
  <2>1. PICK i \in Ids :
          \/ req'[r] = [req[r] EXCEPT !.todo = @ \ {i}, !.fresh = @ \cup {i}]
          \/ req'[r] = [req[r] EXCEPT !.pc = "resolve"]
    BY <1>2, RecheckMoves
  <2>2. req[r].pc = "recheck"
    BY <1>2, RecheckMoves
  <2>3. CASE req'[r] = [req[r] EXCEPT !.todo = @ \ {i}, !.fresh = @ \cup {i}]
    BY <1>0, <2>2, <2>3 DEF Request, SteadyPCs
  <2>4. CASE req'[r] = [req[r] EXCEPT !.pc = "resolve"]
    BY <1>0, <2>2, <2>4 DEF Request, SteadyPCs
  <2> QED
    BY <2>1, <2>3, <2>4
<1>3. CASE Resolve(r)
  <2>1. PICK i \in Ids :
          \/ req'[r] = [req[r] EXCEPT !.pc = "signal"]
          \/ req'[r] = [req[r] EXCEPT !.pc = "recheck", !.todo = @ \ {i}]
          \/ req'[r] = [req[r] EXCEPT !.pc = "recheck",
                          !.todo = @ \ {i}, !.fresh = @ \cup {i}]
    BY <1>3, ResolveMoves
  <2>2. req[r].pc = "resolve"
    BY <1>3, ResolveMoves
  <2>3. CASE req'[r] = [req[r] EXCEPT !.pc = "signal"]
    BY <1>0, <2>2, <2>3 DEF Request, SteadyPCs
  <2>4. CASE req'[r] = [req[r] EXCEPT !.pc = "recheck", !.todo = @ \ {i}]
    BY <1>0, <2>2, <2>4 DEF Request, SteadyPCs
  <2>5. CASE req'[r] = [req[r] EXCEPT !.pc = "recheck",
                          !.todo = @ \ {i}, !.fresh = @ \cup {i}]
    BY <1>0, <2>2, <2>5 DEF Request, SteadyPCs
  <2> QED
    BY <2>1, <2>3, <2>4, <2>5
<1> QED
  BY <1>1, <1>2, <1>3

\* An account's Stop has its scope for as long as it lasts, and a row its owner, or none.
LEMMA ScopedKept ==
  ASSUME IInv, Taking, Moving, Scoped, [Next]_vars PROVE Scoped'
<1> SUFFICES ASSUME NEW r \in Requests, req'[r].op # "stop", req'[r].pc \in SteadyPCs,
                    NEW i \in req'[r].todo, rows'[i].uid \in Uids
             PROVE  InScope(r, rows[i].uid)'
  BY DEF Scoped, InScopeStill, SteadyPCs
<1>0. TypeOK /\ req \in [Procs -> Request] /\ req[r] \in Request /\ r \in Procs
  BY DEF IInv, TypeOK
<1>1. \A q \in Requests : ~SwapFiles(q)
  BY SteadyNoSwap
<1>2. req'[r] # Idle /\ ~Start(r)
  BY <1>0, StartMoves DEF Started, Idle, SteadyPCs
<1>3. Same(r)
  BY <1>0, <1>2, RequestStays
<1>4. \/ i \in req[r].todo /\ req[r].pc \in SteadyPCs
      \/ StopRead(r) /\ i \in Queued(r)
  <2>1. StopRead(r) => i \in Queued(r)
    BY <1>0, <1>3, StopReadMoves DEF Same, SteadyPCs
  <2>2. ~AfterHold(r)
    <3>1. AfterHold(r) => \/ req'[r] = Idle
                          \/ \E l \in {"signal", "settleSoon"} : req'[r] = [req[r] EXCEPT !.pc = l]
      BY <1>0, AfterHoldMoves
    <3> QED
      BY <1>0, <1>2, <3>1 DEF Request, SteadyPCs
  <2>3. ~Restart
    BY <1>0, <1>2, RestartFacts
  <2> QED
    BY <1>0, <2>1, <2>2, <2>3, SteadyChange, ListShrinks
<1>5. CASE StopRead(r) /\ i \in Queued(r)
  <2>1. rows' = rows
    BY <1>5 DEF StopRead, dbVars
  <2> QED
    BY <1>3, <1>5, <2>1 DEF Queued, InScope, Same
<1>6. CASE i \in req[r].todo /\ req[r].pc \in SteadyPCs
  <2>1. i \in Ids /\ rows[i].state # "absent"
    BY <1>0, <1>6 DEF Taking, Request
  <2>2. rows'[i].uid = rows[i].uid
    BY <1>0, <1>1, <2>1, RowOwner
  <2>3. InScope(r, rows[i].uid)
    BY <1>3, <1>6, <2>2 DEF Scoped, InScopeStill, Same, SteadyPCs
  <2> QED
    BY <1>3, <2>2, <2>3 DEF InScope, Same
<1> QED
  BY <1>4, <1>5, <1>6

(***************************************************************************)
(* A job on its way out stays on its way out.                              *)
(***************************************************************************)
\* A claim's own stops are emptied by its end.
LEMMA ClaimStopKept ==
  ASSUME [Next]_vars, ~AfterClaim, ~AfterEmptyClaim, ~Restart
  PROVE  claimStop \subseteq claimStop'
<1> USE DEF dbVars, memVars, closeVars, workerVars, histVars
<1>1. CASE ClaimStep
  BY <1>1 DEF ClaimStep, WorkerTop, WorkerSettle, ClaimRead, ClaimUpdate, ClaimRetry,
     ClaimGivesUp
<1>2. CASE RunStep
  BY <1>2 DEF RunStep, Execute, BeginItem, FinishItem, AbandonItem, Progress, RunTold,
     RunDone, RunFails, RecordEnd, RecordNothing, Release, ContinueStart
<1>3. ASSUME NEW p \in Procs, EnqueueStep(p) PROVE claimStop' = claimStop
  BY <1>3 DEF EnqueueStep, EnqueueCheck, InsertJob, InsertRefused, EnqueueDone
<1>4. ASSUME NEW r \in Requests, Start(r) PROVE claimStop' = claimStop
  BY <1>4 DEF Start, EnqueueStart, RerunStart, StopStart, StopAllStart, DeleteStart,
     ExclusiveStart
<1>5. ASSUME NEW r \in Requests, StopStep(r) PROVE claimStop \subseteq claimStop'
  BY <1>5 DEF StopStep, StopStale, StopRead, Mark, Recheck, Resolve, AfterHold, Signal,
     SettleSoon, ReadRunning, StopHeld, StopDone, Orphan, OrphanFails
<1>6. ASSUME NEW r \in Requests, DeleteStep(r) \/ ExclusiveStep(r)
      PROVE  claimStop' = claimStop
  BY <1>6 DEF DeleteStep, DeleteLeave, DeleteIdle, DeleteAccount, DeleteRefused,
     ExclusiveStep, ExclusiveEnter, RunFn, SwapBegin, SwapRefused, SwapFiles, ExclusiveEnd
<1>7. ASSUME CloseBegin \/ CloseStep PROVE claimStop' = claimStop
  BY <1>7 DEF CloseBegin, CloseStep, CloseIdle, CloseCancel, CloseAbandon,
     CloseAbandonWrite, CloseInserts, CloseSettle, CloseInterrupt
<1>8. ASSUME \/ \E u \in Uids : CreateAccount(u)
             \/ RetireLapses \/ LockTake \/ LockRelease \/ UNCHANGED vars
      PROVE  claimStop' = claimStop
  BY <1>8 DEF CreateAccount, RetireLapses, LockTake, LockRelease, vars
<1> QED
  BY <1>1, <1>2, <1>3, <1>4, <1>5, <1>6, <1>7, <1>8, Groups

\* A job that is there to run after a step was before it, the same work of the same
\* account, or has just been inserted.
LEMMA LiveBefore ==
  ASSUME TypeOK, [Next]_vars, NEW i \in Ids, rows'[i].state \in Live, rows'[i].uid \in Uids
  PROVE  \/ /\ rows[i].state \in Live
            /\ rows[i].uid = rows'[i].uid /\ rows[i].work = rows'[i].work
         \/ /\ rows[i].state = "absent"
            /\ \E p \in Procs : InsertJob(p) /\ rows'[i].uid = req[p].uid
                                             /\ rows'[i].work = req[p].work
<1>0. rows[i] \in Row /\ hand \in Hand
  BY DEF TypeOK
<1>1. \A st : Becomes(i, st) => /\ rows'[i].state = st /\ rows'[i].uid = rows[i].uid
                                /\ rows'[i].work = rows[i].work
  BY <1>0 DEF Becomes, Row
<1>2. RecordEnd => hand.fin \in Ended
  BY <1>0 DEF RecordEnd, Hand
<1>3. Live \cap Ended = {} /\ {"stopped", "interrupted"} \subseteq Ended
  BY DEF Live, Ended
<1>4. ASSUME NEW r \in Requests, SwapFiles(r) PROVE rows'[i] = rows[i]
  BY <1>4, SwapRows DEF NoRow, Live
<1>5. rows'[i] # [rows[i] EXCEPT !.uid = NoUid]
  BY <1>0, QueueAssumption DEF Row
<1>6. ASSUME NEW p \in Procs, InsertJob(p), rows[i].state = "absent",
             rows'[i] = [NoRow EXCEPT !.state = "queued", !.uid = req[p].uid,
                           !.inc = req[p].inc, !.work = req[p].work]
      PROVE  rows'[i].uid = req[p].uid /\ rows'[i].work = req[p].work
  BY <1>6 DEF NoRow
<1>7. CASE rows'[i] = rows[i]
  BY <1>7
<1>8. CASE ClaimUpdate /\ i \in Claimable /\ Becomes(i, "running")
  BY <1>1, <1>8 DEF Claimable, Live
<1>9. ~Becomes(i, "stopped") /\ ~Becomes(i, "interrupted")
  BY <1>1, <1>3
<1>10. ~(RecordEnd /\ Becomes(i, hand.fin))
  BY <1>1, <1>2, <1>3
<1> QED
  BY <1>4, <1>5, <1>6, <1>7, <1>8, <1>9, <1>10, RowChange

\* A job that runs goes on running, in nobody's hands, or in the hands it was in.
LEMMA RunningStays ==
  ASSUME IInv, HandBegun, [Next]_vars, NEW i \in Ids,
         rows[i].state = "running", rows'[i].state \in Live
  PROVE  /\ rows'[i].state = "running"
         /\ \/ ~InHand(i)'
            \/ /\ InHand(i) /\ InHand(i)' /\ (wpc' = "claimed" => wpc = "claimed")
               /\ \A r \in Requests : ~SwapFiles(r)
<1>0. TypeOK
  BY DEF IInv
<1>1. rows'[i].state = "running"
  <2>1. CASE \E r \in Requests : SwapFiles(r)
    BY <1>0, <2>1, SwapRows DEF NoRow, Live
  <2>2. CASE \A r \in Requests : ~SwapFiles(r)
    BY <1>0, <2>2, RowGoes DEF Begun, Live
  <2> QED
    BY <2>1, <2>2
<1>2. ASSUME InHand(i)'
      PROVE  InHand(i) /\ (wpc' = "claimed" => wpc = "claimed")
  BY <1>2, InHandNew
<1>3. InHand(i) => \A r \in Requests : ~SwapFiles(r)
  BY SwapFacts DEF InHand, Taken, HandPCs
<1> QED
  BY <1>1, <1>2, <1>3

\* Where a Stop that is past its read may go.
LEMMA PastRead ==
  ASSUME TypeOK, [Next]_vars, NEW r \in Requests, ~Restart,
         req[r].pc \in StopPCs \ {"waitClaim"}
  PROVE  req'[r] = req[r] \/ StopStep(r)
<1>0. req \in [Procs -> Request] /\ r \in Procs /\ r # Run
  BY QueueAssumption DEF TypeOK
<1>1. ~EnqueueStep(r)
  BY <1>0, EnqueueMoves DEF StopPCs
<1>2. ~Start(r)
  BY <1>0, StartMoves DEF Started, StopPCs
<1>3. ~DeleteStep(r)
  BY <1>0, DeleteMoves DEF StopPCs
<1>4. ~ExclusiveStep(r)
  BY <1>0, ExclusiveMoves DEF StopPCs, XPCs
<1> QED
  BY <1>0, <1>1, <1>2, <1>3, <1>4, ReqChange DEF StopPCs

\* A Stop with a list that has a job of it ahead gets to its look at what runs.
Looking == {"recheck", "resolve", "signal", "settleSoon", "readRunning"}
LEMMA LookingStays ==
  ASSUME TypeOK, NEW r \in Requests, StopStep(r), req[r].op # "stop",
         req[r].pc \in Looking, ~swapMoving
  PROVE  Same(r) /\ (req'[r].pc \in Looking \/ ReadGoes(r))
<1> USE DEF Looking, Same
<1>0. req \in [Procs -> Request] /\ req[r] \in Request
  BY DEF TypeOK
<1>1. ~StopRead(r) /\ ~Mark(r)
  BY DEF StopRead, Mark
<1>2. CASE Recheck(r)
  <2>1. PICK i \in Ids :
          \/ req'[r] = [req[r] EXCEPT !.todo = @ \ {i}, !.fresh = @ \cup {i}]
          \/ req'[r] = [req[r] EXCEPT !.pc = "resolve"]
    BY <1>0, <1>2, RecheckMoves
  <2>2. req[r].pc = "recheck"
    BY <1>0, <1>2, RecheckMoves
  <2> QED
    BY <1>0, <2>1, <2>2 DEF Request
<1>3. CASE Resolve(r)
  <2>1. PICK i \in Ids :
          \/ req'[r] = [req[r] EXCEPT !.pc = "recheck", !.todo = @ \ {i}]
          \/ req'[r] = [req[r] EXCEPT !.pc = "recheck",
                          !.todo = @ \ {i}, !.fresh = @ \cup {i}]
    BY <1>0, <1>3, ResolveMoves
  <2> QED
    BY <1>0, <2>1 DEF Request
<1>4. CASE AfterHold(r)
  <2>1. req'[r] = [req[r] EXCEPT !.pc = "signal"]
    BY <1>0, <1>4 DEF AfterHold, Goto
  <2> QED
    BY <1>0, <2>1 DEF Request
<1>5. CASE SignalGoes(r) \/ SettleGoes(r)
  BY <1>0, <1>5 DEF SignalGoes, SettleGoes, Request
<1>6. CASE ReadGoes(r)
  BY <1>0, <1>6 DEF ReadGoes, Request
<1>7. /\ ~AnswerGoes(r) /\ ~DoneGoes(r)
      /\ \A i \in Ids : ~HeldGoes(r, i) /\ ~OrphanGoes(r, i)
  BY DEF AnswerGoes, DoneGoes, HeldGoes, OrphanGoes
<1> QED
  BY <1>0, <1>1, <1>2, <1>3, <1>4, <1>5, <1>6, <1>7, TailMoves

\* The Stop on its way to a job in hand goes on, or has reached it.
LEMMA ReachingStays ==
  ASSUME IInv, HandBegun, OneTodo, [Next]_vars, NEW i \in Ids,
         rows[i].state = "running", rows'[i].state = "running",
         rows'[i].uid = rows[i].uid,
         InHand(i), InHand(i)', NEW r \in Requests, Reaching(r, i)
  PROVE  Doomed(i)'
<1>0. TypeOK /\ req \in [Procs -> Request] /\ req[r] \in Request
  BY DEF IInv, TypeOK
<1>1. ~Restart
  BY RestartFacts DEF InHand, Taken, HandPCs
<1>2. ~swapMoving
  BY DEF swapMoving, exclusive, XPCs, IInv, Control, HandInGeneration, InHand, Taken, HandPCs
<1>3. req[r].pc \in StopPCs \ {"waitClaim"}
  BY DEF Reaching, StopPCs
<1>4. Reaching(r, i)' => Doomed(i)'
  BY DEF Doomed
<1>5. CASE req'[r] = req[r]
  <2>1. Reaching(r, i)'
    BY <1>5 DEF Reaching, InScope
  <2> QED
    BY <1>4, <2>1
<1>6. CASE StopStep(r) /\ req[r].op # "stop" /\ req[r].pc \in Looking
                       /\ InScope(r, rows[i].uid)
  <2>1. Same(r) /\ (req'[r].pc \in Looking \/ ReadGoes(r))
    BY <1>0, <1>2, <1>6, LookingStays
  <2>2. CASE req'[r].pc \in Looking
    <3>1. Reaching(r, i)'
      BY <1>6, <2>1, <2>2 DEF Reaching, InScope, Same, Looking
    <3> QED
      BY <1>4, <3>1
  <2>3. CASE ReadGoes(r)
    <3>1. req'[r].pc = "stopHeld" /\ req'[r].todo = InScopeRunning(r)
      BY <1>0, <2>3 DEF ReadGoes, Request
    <3>2. i \in req'[r].todo
      BY <1>6, <3>1 DEF InScopeRunning
    <3> QED
      BY <1>4, <3>1, <3>2 DEF Reaching
  <2> QED
    BY <2>1, <2>2, <2>3
<1>7. CASE StopStep(r) /\ req[r].op = "stop" /\ req[r].pc = "signal" /\ i \in req[r].todo
  <2>1. SignalGoes(r)
    BY <1>0, <1>7, TailMoves DEF StopRead, Mark, Recheck, Resolve, AfterHold, AnswerGoes,
       SettleGoes, ReadGoes, HeldGoes, DoneGoes, OrphanGoes
  <2>2. req'[r] = [req[r] EXCEPT !.pc = "stopHeld"]
    BY <1>7, <2>1 DEF SignalGoes
  <2>3. req'[r].pc = "stopHeld" /\ i \in req'[r].todo
    BY <1>0, <1>7, <2>2 DEF Request
  <2> QED
    BY <1>4, <2>3 DEF Reaching
<1>8. CASE StopStep(r) /\ req[r].pc = "stopHeld" /\ i \in req[r].todo
  <2>1. \E k \in Ids : StopHeld(r) /\ HeldGoes(r, k)
    BY <1>0, <1>8, TailMoves DEF StopRead, Mark, Recheck, Resolve, AfterHold, AnswerGoes,
       SignalGoes, SettleGoes, ReadGoes, DoneGoes, OrphanGoes
  <2>2. PICK k \in Ids : StopHeld(r) /\ HeldGoes(r, k)
    BY <2>1
  <2>3. k = i
    BY <1>8, <2>2 DEF HeldGoes, FirstOf, OneTodo, OneTodoOf, Far
  <2>4. wpc' = wpc /\ hand.id = i /\ hand'.id = i
    BY <2>2 DEF StopHeld, InHand
  <2>5. CASE claiming
    <3>1. wpc' = "claimed"
      BY <2>4, <2>5 DEF claiming, ClaimPCs, InHand, Taken, HandPCs
    <3>2. i \in claimStop'
      BY <2>2, <2>3, <2>5 DEF HeldGoes
    <3> QED
      BY <2>4, <3>1, <3>2 DEF Doomed
  <2>6. CASE ~claiming
    <3>1. wpc \in HandPCs
      BY <2>6 DEF claiming, ClaimPCs, InHand, Taken
    <3>2. running = i
      BY <2>4, <3>1 DEF running
    <3>3. hand' = IF runEnded THEN hand ELSE [hand EXCEPT !.stop = TRUE]
      BY <2>2, <2>3, <2>6, <3>2 DEF HeldGoes
    <3>4. CASE runEnded
      <4>1. runEnded'
        BY <2>4, <3>4 DEF runEnded
      <4> QED
        BY <2>4, <3>1, <4>1 DEF Doomed
    <3>5. CASE ~runEnded
      <4>1. hand'.stop = TRUE
        BY <1>0, <3>3, <3>5 DEF TypeOK, Hand
      <4> QED
        BY <2>4, <3>1, <4>1 DEF Doomed
    <3> QED
      BY <3>4, <3>5
  <2> QED
    BY <2>5, <2>6
<1> QED
  BY <1>0, <1>1, <1>3, <1>5, <1>6, <1>7, <1>8, PastRead DEF Reaching, Looking

\* A mark that goes leaves its job stopped in the hands of the claim that took it, or
\* ahead of the Stop that took the mark back.
LEMMA MarkedStaysDoomed ==
  ASSUME SInv, Scoped, [Next]_vars, NEW i \in Ids, i \in HeldNow,
         rows[i].state \in Live, rows'[i].state \in Live,
         rows[i].uid \in Uids, rows'[i].uid = rows[i].uid
  PROVE  Doomed(i)'
<1>0. TypeOK /\ Control /\ IInv /\ HandBegun /\ req \in [Procs -> Request]
  BY DEF SInv, IInv, TypeOK
<1>1. CASE i \in HeldNow'
  BY <1>1 DEF Doomed
<1>2. ~(Settle /\ rows[i].state # "running")
  <2>1. Settle /\ rows[i].state # "running" => rows'[i] = [rows[i] EXCEPT !.state = "stopped"]
    BY DEF Settle, SettledRows, Live
  <2> QED
    BY <1>0, <2>1 DEF TypeOK, Row, Live
<1>3. CASE AfterClaim /\ i = hand.id
  <2>1. hand.gen = gen /\ held[i].gen = gen
    BY <1>0, <1>3 DEF AfterClaim, Control, HandInGeneration, HeldNow
  <2>2. Unheld
    BY <1>3, <2>1 DEF Unheld
  <2>3. wpc' = "execute" /\ hand'.id = i /\ hand'.stop = TRUE
    BY <1>0, <1>3, <2>2 DEF AfterClaim, TypeOK, Hand
  <2> QED
    BY <2>3 DEF Doomed, HandPCs
<1>4. ASSUME NEW r \in Requests, Resolve(r), FirstOf(req[r].todo, i), MarkGone(i)
      PROVE  Doomed(i)'
  <2>0. req[r] \in Request /\ req[r].pc = "resolve" /\ rows' = rows
    BY <1>0, <1>4 DEF Resolve, dbVars
  <2>1. rows[i].state = "running"
    BY <1>4, <2>0 DEF SInv, Taking, FirstOf, Begun, Live
  <2>2. PICK k \in Ids :
          /\ FirstOf(req[r].todo, k)
          /\ \/ req[r].op = "stop" /\ req'[r] = [req[r] EXCEPT !.pc = "signal"]
             \/ /\ req[r].op # "stop"
                /\ req'[r] = [req[r] EXCEPT !.pc = "recheck", !.todo = @ \ {k}]
             \/ held' = held
    BY <1>0, <1>4, ResolveMoves
  <2>3. held' # held
    BY <1>4 DEF MarkGone, HeldNow, Resolve, dbVars
  <2>4. CASE req[r].op = "stop" /\ req'[r] = [req[r] EXCEPT !.pc = "signal"]
    <3>1. req'[r].op = "stop" /\ req'[r].pc = "signal" /\ i \in req'[r].todo
      BY <1>4, <2>0, <2>4 DEF Request, FirstOf
    <3> QED
      BY <2>0, <2>1, <3>1 DEF Doomed, Reaching
  <2>5. CASE req[r].op # "stop" /\ req'[r] = [req[r] EXCEPT !.pc = "recheck", !.todo = @ \ {k}]
    <3>1. /\ req'[r].op = req[r].op /\ req'[r].uid = req[r].uid
          /\ req'[r].pc = "recheck"
      BY <2>0, <2>5 DEF Request
    <3>2. InScope(r, rows[i].uid)
      BY <1>4, <2>0, <2>5 DEF Scoped, InScopeStill, FirstOf
    <3>3. Reaching(r, i)'
      BY <2>0, <2>5, <3>1, <3>2 DEF Reaching, InScope
    <3> QED
      BY <2>0, <2>1, <3>3 DEF Doomed
  <2> QED
    BY <2>2, <2>3, <2>4, <2>5
<1>5. ASSUME NEW r \in Requests, SwapFiles(r) PROVE Doomed(i)'
  <2>1. swapMoving /\ wpc' \in {"none", "top"}
    BY <1>0, <1>5, SwapFacts
  <2>2. rows'[i] = rows[i]
    BY <1>0, <1>5, SwapRows DEF NoRow, Live
  <2>3. rows[i].state = "running"
    BY <2>1 DEF SInv, Moving, Waiting, Live
  <2>4. ~InHand(i)'
    BY <2>1 DEF InHand, Taken, HandPCs
  <2> QED
    BY <2>2, <2>3, <2>4 DEF Doomed
<1>6. ~Restart
  <2>1. Restart => rows'[i] = [rows[i] EXCEPT !.state = "interrupted"]
    BY DEF Restart
  <2> QED
    BY <1>0, <2>1 DEF TypeOK, Row, Live
<1> QED
  BY <1>0, <1>1, <1>2, <1>3, <1>4, <1>5, <1>6, MarkChange DEF MarkKept

LEMMA DoomedStays ==
  ASSUME SInv, OneTodo, Scoped, [Next]_vars, NEW i \in Ids, Doomed(i),
         rows[i].state \in Live, rows'[i].state \in Live,
         rows[i].uid \in Uids, rows'[i].uid = rows[i].uid
  PROVE  Doomed(i)'
<1>0. TypeOK /\ Control /\ IInv /\ HandBegun /\ hand \in Hand /\ i # NoJob
  BY DEF SInv, IInv, TypeOK, Ids
<1>1. CASE i \in HeldNow
  BY <1>1, MarkedStaysDoomed
<1>2. CASE i \notin HeldNow
  <2>1. rows[i].state = "running"
    <3>1. InHand(i) => rows[i].state = "running"
      BY <1>0 DEF HandBegun, Begun, Live
    <3> QED
      BY <1>0, <1>2, <3>1 DEF Doomed, InHand, Taken, running
  <2>2. /\ rows'[i].state = "running"
        /\ \/ ~InHand(i)'
           \/ /\ InHand(i) /\ InHand(i)' /\ (wpc' = "claimed" => wpc = "claimed")
              /\ \A r \in Requests : ~SwapFiles(r)
    BY <1>0, <2>1, RunningStays
  <2>3. CASE ~InHand(i)'
    BY <2>2, <2>3 DEF Doomed
  <2>4. CASE InHand(i) /\ InHand(i)' /\ (wpc' = "claimed" => wpc = "claimed")
    <3>0. hand.id = i /\ hand'.id = i /\ wpc' \in Taken
      BY <2>4 DEF InHand
    <3>1. CASE wpc \in HandPCs /\ (hand.stop = TRUE \/ runEnded)
      <4>1. wpc' \in HandPCs
        BY <2>4, <3>0, <3>1 DEF Taken, HandPCs
      <4>2. hand'.stop = TRUE \/ runEnded'
        BY <1>0, <3>1, <4>1, HandGoesOn
      <4> QED
        BY <3>0, <4>1, <4>2 DEF Doomed
    <3>2. CASE wpc = "claimed" /\ i \in claimStop
      <4>1. CASE AfterClaim
        <5>1. wpc' = "execute" /\ hand'.stop = TRUE
          BY <1>0, <3>0, <3>2, <4>1 DEF AfterClaim, Hand
        <5> QED
          BY <3>0, <5>1 DEF Doomed, HandPCs
      <4>2. CASE ~AfterClaim
        <5>1. ~AfterEmptyClaim /\ ~Restart
          BY <1>0, <3>0, RestartFacts DEF AfterEmptyClaim, Taken, HandPCs
        <5>2. i \in claimStop'
          BY <3>2, <4>2, <5>1, ClaimStopKept
        <5>3. wpc' = "claimed"
          BY <1>0, <3>2, <4>2, <5>1, WorkerMoves, WorkerKept DEF Control
        <5> QED
          BY <3>0, <5>2, <5>3 DEF Doomed
      <4> QED
        BY <4>1, <4>2
    <3>3. CASE \E r \in Requests : Reaching(r, i)
      BY <1>0, <2>1, <2>2, <2>4, <3>3, ReachingStays
    <3>4. CASE "continue" \in Ops /\ running = i
      <4>1. wpc \in HandPCs
        BY <1>0, <3>4 DEF running
      <4>2. wpc' \in HandPCs
        BY <2>4, <3>0, <4>1 DEF Taken, HandPCs
      <4>3. running' = i
        BY <3>0, <4>2 DEF running
      <4> QED
        BY <3>4, <4>3 DEF Doomed
    <3> QED
      BY <1>2, <2>4, <3>1, <3>2, <3>3, <3>4 DEF Doomed
  <2> QED
    BY <2>2, <2>3, <2>4
<1> QED
  BY <1>1, <1>2

(***************************************************************************)
(* Two of the same work.                                                   *)
(***************************************************************************)
\* An insert looks at every job of its account but those on their way out.
LEMMA InsertSees ==
  ASSUME SInv, Left, NEW p \in Procs, InsertJob(p), NEW k \in Ids,
         rows[k].state \in Live, rows[k].uid = req[p].uid, rows[k].work = req[p].work
  PROVE  Doomed(k)
<1>1. k \in HeldNow \/ k = Self(p)
  BY DEF InsertJob, Counted
<1>2. CASE k = Self(p)
  <2>1. p = Run /\ k = hand.id
    BY <1>2 DEF Self, Ids, NoJob
  <2>2. req[Run].pc # "idle"
    BY <2>1 DEF InsertJob
  <2>3. "continue" \in Ops
    BY <2>2 DEF Left, Alone
  <2>4. wpc = "continue"
    BY <2>2 DEF SInv, IInv, Control, RunContinues
  <2> QED
    BY <2>1, <2>3, <2>4 DEF Doomed, running, HandPCs
<1>3. CASE k \in HeldNow
  BY <1>3 DEF Doomed
<1> QED
  BY <1>1, <1>2, <1>3

LEMMA OneGoesKept ==
  ASSUME SInv, Left, OneTodo, Scoped, OneGoes, [Next]_vars PROVE OneGoes'
<1> SUFFICES ASSUME NEW i \in Ids, NEW k \in Ids, i # k, Twins(i, k)'
             PROVE  Doomed(i)' \/ Doomed(k)'
  BY DEF OneGoes
<1>0. TypeOK /\ /\ rows'[i].state \in Live /\ rows'[k].state \in Live
                /\ rows'[i].uid \in Uids /\ rows'[k].uid \in Uids
                /\ rows'[i].uid = rows'[k].uid /\ rows'[i].work = rows'[k].work
  BY DEF SInv, IInv, Twins
<1>1. ASSUME NEW a \in Ids, NEW b \in Ids, a # b, rows[a].state = "absent",
             rows'[a].uid \in Uids, rows'[a].uid = rows'[b].uid,
             rows'[a].work = rows'[b].work, rows'[b].state \in Live,
             NEW p \in Procs, InsertJob(p), rows'[a].uid = req[p].uid,
             rows'[a].work = req[p].work, rows'[a].state # "absent"
      PROVE  Doomed(b)'
  <2>1. rows'[b] = rows[b]
    <3>1. PICK n \in Ids :
            rows' = [rows EXCEPT ![n] = [NoRow EXCEPT !.state = "queued",
                       !.uid = req[p].uid, !.inc = req[p].inc, !.work = req[p].work]]
      BY <1>1 DEF InsertJob
    <3>2. n = a
      BY <1>0, <1>1, <3>1 DEF TypeOK
    <3> QED
      BY <1>0, <1>1, <3>1, <3>2 DEF TypeOK
  <2>2. Doomed(b)
    BY <1>1, <2>1, InsertSees
  <2> QED
    BY <1>1, <2>1, <2>2, DoomedStays
<1>2. CASE rows[i].state = "absent" \/ rows[k].state = "absent"
  BY <1>0, <1>1, <1>2, LiveBefore DEF Live
<1>3. CASE rows[i].state # "absent" /\ rows[k].state # "absent"
  <2>1. /\ rows[i].state \in Live /\ rows[i].uid = rows'[i].uid /\ rows[i].work = rows'[i].work
        /\ rows[k].state \in Live /\ rows[k].uid = rows'[k].uid /\ rows[k].work = rows'[k].work
    BY <1>0, <1>3, LiveBefore
  <2>2. Doomed(i) \/ Doomed(k)
    BY <1>0, <2>1 DEF OneGoes, Twins
  <2> QED
    BY <1>0, <2>1, <2>2, DoomedStays
<1> QED
  BY <1>2, <1>3

LEMMA InitTwin == Init => TInv
<1> SUFFICES ASSUME Init PROVE TInv
  OBVIOUS
<1>1. SInv
  BY InitSafe
<1>2. /\ \A p \in Procs : req[p] = Idle /\ req[p].pc = "idle" /\ req[p].op = "none"
      /\ \A i \in Ids : rows[i] = NoRow /\ rows[i].state = "absent"
      /\ wpc = "none" /\ cpc = "open" /\ abandoned = NoJob /\ lock = "free"
  BY DEF Init, Idle, NoRow
<1>3. Run \in Procs
  OBVIOUS
<1>4. Left
  BY <1>2, <1>3 DEF Left, Alone, NoSweep, StopPCs, Orphanless, Unclosed, LockOfRun, Recorded,
     NoOrphan
<1>5. OneTodo
  BY <1>2 DEF OneTodo, OneTodoOf, Far
<1>6. Scoped /\ OneGoes
  BY <1>2 DEF Scoped, OneGoes, Twins, Live
<1> QED
  BY <1>1, <1>4, <1>5, <1>6 DEF TInv

LEMMA StepTwin == EveryStopReaches /\ TInv /\ [Next]_vars => TInv'
<1> SUFFICES ASSUME EveryStopReaches, TInv, [Next]_vars PROVE TInv'
  OBVIOUS
<1>1. SInv /\ SInv' /\ IInv /\ TypeOK /\ HandBegun /\ Taking /\ Moving
  BY StepSafe DEF TInv, SInv, IInv
<1> QED
  BY <1>1, LeftKept, OneTodoKept, ScopedKept, OneGoesKept DEF TInv

\* The inductive invariant, where every Stop reaches what it has to do.
THEOREM TwinInvariance ==
  ASSUME EveryStopReaches PROVE SafeSpec => []TInv
BY EveryStopReaches, InitTwin, StepTwin, PTL DEF SafeSpec

\* Of an account's jobs that are there to run, no two are the same work, however many
\* presses, claims, Stops, deletes and swaps cross each other; a job that queues itself
\* again with the same work is let through by the code, and left out here.
THEOREM NoWorkTwice ==
  ASSUME EveryStopReaches, "continue" \notin Ops PROVE SafeSpec => []NoDuplicateWork
<1>1. TInv => NoDuplicateWork
  <2> SUFFICES ASSUME TInv, NEW u \in Uids, NEW i \in Staying(u), NEW k \in Staying(u),
                      rows[i].work = rows[k].work, i # k
               PROVE  FALSE
    BY DEF NoDuplicateWork
  <2>1. ASSUME NEW j \in Ids, rows[j].state \in Live, Doomed(j) PROVE LeavingQueue(j)
    <3>1. CASE j \in HeldNow
      BY <3>1 DEF LeavingQueue
    <3>2. CASE rows[j].state = "running" /\ running # j
      BY <3>2 DEF LeavingQueue
    <3>3. CASE running = j /\ (hand.stop \/ runEnded)
      BY <3>3 DEF LeavingQueue
    <3>4. ASSUME NEW r \in Requests, Reaching(r, j) PROVE LeavingQueue(j)
      <4>1. req[r].pc \in StopPCs
        BY <3>4 DEF Reaching, StopPCs
      <4>2. req[r].op = "stop" => j = req[r].id
        BY <3>4 DEF Reaching, TInv, OneTodo, OneTodoOf
      <4> QED
        BY <4>1, <4>2 DEF LeavingQueue
    <3>5. HandBegun /\ j # NoJob
      BY DEF TInv, SInv, Ids
    <3>6. CASE wpc = "claimed" /\ hand.id = j
      <4>1. rows[j].state = "running"
        BY <2>1, <3>5, <3>6 DEF HandBegun, InHand, Taken, Begun, Live
      <4> QED
        BY <3>2, <3>5, <3>6, <4>1 DEF running, HandPCs
    <3>7. ~InHand(j) => running # j
      BY <3>5 DEF running, InHand, Taken
    <3> QED
      BY <2>1, <3>1, <3>2, <3>3, <3>4, <3>6, <3>7 DEF Doomed, running
  <2>2. /\ i \in Ids /\ k \in Ids /\ rows[i].state \in Live /\ rows[k].state \in Live
        /\ rows[i].uid = u /\ rows[k].uid = u /\ ~LeavingQueue(i) /\ ~LeavingQueue(k)
    BY DEF Staying
  <2>3. Doomed(i) \/ Doomed(k)
    BY <2>2 DEF TInv, OneGoes, Twins
  <2> QED
    BY <2>1, <2>2, <2>3
<1> QED
  BY <1>1, TwinInvariance, PTL
=============================================================================
