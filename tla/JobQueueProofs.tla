--------------------------- MODULE JobQueueProofs ---------------------------
(***************************************************************************)
(* What holds of JobQueue for every number of jobs, accounts, requests,    *)
(* generations and every set of operations.                                *)
(***************************************************************************)
EXTENDS JobQueue, TLAPS

(***************************************************************************)
(* What the types need besides themselves.                                 *)
(***************************************************************************)
\* The worker has a job in hand exactly where it says so, and a job that queues its
\* own continuation waits for it there.
HandHasJob    == wpc \in HandPCs => hand.id # NoJob
RunContinues  == req[Run].pc # "idle" <=> wpc = "continue"
\* The swap lock has one holder, and the bound on generations leaves it room.
OneSwap ==
  /\ \A r, q \in Requests : req[r].pc = "moving" /\ req[q].pc = "moving" => r = q
  /\ swapMoving => gen + 2 <= MaxGen

Control == HandHasJob /\ RunContinues /\ OneSwap /\ HandInGeneration
IInv    == TypeOK /\ Control

USE QueueAssumption DEF NoJob, Procs, Gens, Incs

\* The constant records have their types.
LEMMA Records ==
  /\ NoMark \in MarkSet
  /\ NoRow \in Row
  /\ NoHand \in Hand
  /\ Idle \in Request
BY DEF NoMark, MarkSet, NoRow, Row, NoHand, Hand, Idle, Request, States, ReqPCs

\* The queue begins with no job, no worker and no request.
LEMMA InitInv == Init => IInv
<1> SUFFICES ASSUME Init PROVE IInv
  OBVIOUS
<1>1. TypeOK
  <2>1. rows \in [Ids -> Row] /\ held \in [Ids -> MarkSet] /\ req \in [Procs -> Request]
    BY Records DEF Init
  <2>2. accounts \in [Uids -> Incs]
    BY DEF Init
  <2>3. gen \in Gens \ {0}
    BY DEF Init
  <2>4. hand \in Hand
    BY Records DEF Init
  <2> QED
    BY <2>1, <2>2, <2>3, <2>4 DEF Init, TypeOK
<1>2. \A p \in Procs : req[p].pc = "idle"
  BY DEF Init, Idle
<1>3. HandHasJob /\ RunContinues
  BY <1>2 DEF Init, HandHasJob, RunContinues, HandPCs
<1>4. OneSwap /\ HandInGeneration
  BY <1>2 DEF Init, OneSwap, HandInGeneration, swapMoving, exclusive, HandPCs, XPCs
<1> QED
  BY <1>1, <1>3, <1>4 DEF IInv, Control

\* A row whose state is rewritten is a row.
LEMMA RowState == ASSUME NEW x \in Row, NEW st \in States
                  PROVE  [x EXCEPT !.state = st] \in Row
BY DEF Row

\* A request at its next step is a request.
LEMMA GotoType == ASSUME req \in [Procs -> Request], NEW p \in Procs, NEW l \in ReqPCs,
                         Goto(p, l)
                  PROVE  req' \in [Procs -> Request]
BY DEF Goto, Request

\* A request sent on with what it has left to do.
LEMMA SentType == ASSUME req \in [Procs -> Request], NEW p \in Procs, NEW l \in ReqPCs,
                         NEW T \in SUBSET Ids,
                         req' = [req EXCEPT ![p].pc = l, ![p].todo = T]
                  PROVE  req' \in [Procs -> Request]
BY DEF Request

\* A request that ends leaves an idle process.
LEMMA FinishType == ASSUME req \in [Procs -> Request], NEW p \in Procs, Finish(p)
                    PROVE  req' \in [Procs -> Request]
BY Records DEF Finish

\* What the two ways of writing a state leave.
LEMMA SetType == ASSUME rows \in [Ids -> Row], NEW i \in Ids, NEW st \in States
                 PROVE  Set(i, st) \in [Ids -> Row] /\ Cas(i, st) \in [Ids -> Row]
BY DEF Row, Set, Cas

\* settleHeld keeps the table and the marks what they are.
LEMMA SettleType == ASSUME TypeOK, Settle
                    PROVE  rows' \in [Ids -> Row] /\ held' \in [Ids -> MarkSet]
<1>1. "stopped" \in States
  BY DEF States, Ended
<1>2. \A i \in Ids : SettledRows[i] \in Row
  BY <1>1, RowState DEF TypeOK, SettledRows
<1>3. \A i \in Ids : SettledHeld[i] \in MarkSet
  BY Records DEF TypeOK, SettledHeld
<1> QED
  BY <1>2, <1>3 DEF Settle, SettledRows, SettledHeld

\* The worker between two jobs keeps the types.
LEMMA ClaimType == TypeOK /\ HandHasJob /\ ClaimStep => TypeOK'
<1> SUFFICES ASSUME TypeOK, HandHasJob, ClaimStep PROVE TypeOK'
  OBVIOUS
<1> USE DEF TypeOK, dbVars, memVars, closeVars, workerVars, histVars, ClaimPCs, HandPCs
<1>1. CASE WorkerTop
  BY <1>1 DEF WorkerTop
<1>2. CASE WorkerSettle
  BY <1>2, SettleType DEF WorkerSettle
<1>3. CASE ClaimRead
  <2>1. hand' \in Hand
    BY <1>3, Records DEF ClaimRead, Hand
  <2>2. heldSeen' \subseteq Ids
    BY <1>3 DEF ClaimRead, HeldNow
  <2> QED
    BY <1>3, <2>1, <2>2 DEF ClaimRead
<1>4. CASE ClaimUpdate
  <2>1. "running" \in States
    BY DEF States, Live
  <2>2. CASE Claimable = {}
    BY <1>4, <2>2 DEF ClaimUpdate
  <2>3. CASE Claimable # {}
    <3>1. PICK i \in Ids : /\ rows' = Set(i, "running")
                          /\ hand' = [hand EXCEPT !.id = i, !.uid = rows[i].uid]
      BY <1>4, <2>3 DEF ClaimUpdate, Claimable
    <3>2. rows' \in [Ids -> Row]
      BY <2>1, <3>1, SetType
    <3>3. hand' \in Hand
      BY <3>1 DEF Hand, Row
    <3> QED
      BY <1>4, <3>2, <3>3 DEF ClaimUpdate
  <2> QED
    BY <2>2, <2>3
<1>5. CASE ClaimRetry
  BY <1>5, Records DEF ClaimRetry
<1>6. CASE ClaimGivesUp
  BY <1>6, Records DEF ClaimGivesUp
<1>7. CASE AfterClaim \/ AfterEmptyClaim
  <2>1. ClaimWakes \in [Procs -> Request]
    BY DEF ClaimWakes, Request, ReqPCs, StopPCs
  <2>2. hand' \in Hand
    <3>1. CASE AfterClaim
      <4>1. PICK st \in BOOLEAN : hand' = [hand EXCEPT !.stop = st, !.shutdown = closed]
        BY <3>1 DEF AfterClaim, Hand, Unheld
      <4> QED
        BY <4>1 DEF Hand, closed
    <3>2. CASE AfterEmptyClaim
      BY <3>2, Records DEF AfterEmptyClaim
    <3> QED
      BY <1>7, <3>1, <3>2
  <2>3. held' \in [Ids -> MarkSet]
    BY <1>7, Records DEF AfterClaim, AfterEmptyClaim
  <2> QED
    BY <1>7, <2>1, <2>2, <2>3 DEF AfterClaim, AfterEmptyClaim
<1> QED
  BY <1>1, <1>2, <1>3, <1>4, <1>5, <1>6, <1>7 DEF ClaimStep

\* However a kind returns, finish knows an end for it.
LEMMA ReturnsType == ASSUME hand \in Hand, NEW err, NEW told, Returns(err, told)
                     PROVE  wpc' = "record" /\ hand' \in Hand
<1>1. EndState(err, told) \in Ended
  BY DEF EndState, Ended
<1> QED
  BY <1>1 DEF Returns, Hand

\* A job in hand keeps the types.
LEMMA RunType == TypeOK /\ HandHasJob /\ RunStep => TypeOK'
<1> SUFFICES ASSUME TypeOK, HandHasJob, RunStep PROVE TypeOK'
  OBVIOUS
<1> USE DEF TypeOK, dbVars, memVars, closeVars, workerVars, histVars, HandPCs
<1>1. CASE Execute
  BY <1>1, ReturnsType DEF Execute
<1>2. CASE BeginItem
  BY <1>2 DEF BeginItem
<1>3. CASE FinishItem
  <2>1. hand' \in Hand
    BY <1>3 DEF FinishItem, Hand
  <2> QED
    BY <1>3, <2>1 DEF FinishItem, Unlocked
<1>4. CASE AbandonItem
  BY <1>4 DEF AbandonItem, Unlocked
<1>5. CASE Progress
  BY <1>5, SettleType DEF Progress
<1>6. CASE RunTold
  BY <1>6, ReturnsType DEF RunTold
<1>7. CASE RunDone
  BY <1>7, ReturnsType DEF RunDone
<1>8. CASE RunFails
  BY <1>8, ReturnsType DEF RunFails, Unlocked
<1>9. CASE RecordEnd
  <2>1. hand.id \in Ids /\ hand.fin \in States
    BY <1>9 DEF RecordEnd, HandHasJob, Hand, States
  <2>2. rows' \in [Ids -> Row]
    BY <1>9, <2>1, SetType DEF RecordEnd
  <2> QED
    BY <1>9, <2>2 DEF RecordEnd, forget
<1>10. CASE RecordNothing
  BY <1>10 DEF RecordNothing, forget
<1>11. CASE Release
  BY <1>11, Records DEF Release
<1>12. ASSUME NEW w \in Works, ContinueStart(w) PROVE TypeOK'
  <2>1. hand.id \in Ids /\ hand.uid \in Uids \cup {NoUid} /\ hand.gen \in Gens
    BY <1>12 DEF ContinueStart, HandHasJob, Hand
  <2>2. rows[hand.id].inc \in Incs
    BY <2>1 DEF Row
  <2>3. req' \in [Procs -> Request]
    BY <1>12, <2>1, <2>2, Records DEF ContinueStart, Request, ReqPCs
  <2> QED
    BY <1>12, <2>3 DEF ContinueStart
<1> QED
  BY <1>1, <1>2, <1>3, <1>4, <1>5, <1>6, <1>7, <1>8, <1>9, <1>10, <1>11, <1>12
  DEF RunStep

\* A kick leaves a worker where a worker may be.
LEMMA KickType == ASSUME TypeOK, NEW excl, Kick(excl)
                  PROVE  /\ pending' \in BOOLEAN
                         /\ wpc' \in {"none", "top"} \cup ClaimPCs \cup HandPCs
                         /\ kickDue' \in BOOLEAN
BY DEF TypeOK, Kick, alive

\* Enqueue, Rerun and Continue keep the types.
LEMMA EnqueueType == ASSUME TypeOK, NEW p \in Procs, EnqueueStep(p) PROVE TypeOK'
<1> USE DEF TypeOK, dbVars, memVars, closeVars, workerVars, histVars
<1>1. CASE EnqueueCheck(p)
  <2>1. req' \in [Procs -> Request]
    BY <1>1, FinishType, GotoType DEF EnqueueCheck, ReqPCs, InsertPCs
  <2> QED
    BY <1>1, <2>1 DEF EnqueueCheck, HandPCs
<1>2. CASE InsertJob(p)
  <2>1. req[p].uid \in Uids \cup {NoUid} /\ req[p].inc \in Incs
          /\ req[p].work \in Works \cup {NoWork}
    BY DEF Request
  <2>2. PICK i \in Ids :
          /\ rows' = [rows EXCEPT ![i] = [NoRow EXCEPT !.state = "queued",
                      !.uid = req[p].uid, !.inc = req[p].inc, !.work = req[p].work]]
          /\ secrets' = secrets \cup {i}
    BY <1>2 DEF InsertJob
  <2>3. rows' \in [Ids -> Row]
    BY <2>1, <2>2, Records DEF Row, States, Live
  <2>4. req' \in [Procs -> Request]
    BY <1>2, GotoType DEF InsertJob, ReqPCs, InsertPCs
  <2> QED
    BY <1>2, <2>2, <2>3, <2>4 DEF InsertJob
<1>3. CASE InsertRefused(p)
  BY <1>3, GotoType DEF InsertRefused, ReqPCs, InsertPCs
<1>4. CASE EnqueueDone(p)
  BY <1>4, FinishType, KickType DEF EnqueueDone, HandPCs
<1> QED
  BY <1>1, <1>2, <1>3, <1>4 DEF EnqueueStep

\* Stop, Stop all and StopOwner keep the types.
LEMMA StopType == ASSUME TypeOK, NEW r \in Requests, StopStep(r) PROVE TypeOK'
<1> USE DEF TypeOK, dbVars, memVars, closeVars, workerVars, histVars
<1>1. CASE StopStale(r)
  BY <1>1, FinishType DEF StopStale
<1>2. CASE StopRead(r)
  <2>1. req[r].id \in Ids => {req[r].id} \subseteq Ids
    OBVIOUS
  <2>2. Queued(r) \subseteq Ids
    BY DEF Queued
  <2>3. req' \in [Procs -> Request]
    BY <1>2, <2>1, <2>2, FinishType DEF StopRead, Request, ReqPCs, StopPCs, Goto
  <2> QED
    BY <1>2, <2>3 DEF StopRead
<1>3. CASE Mark(r)
  <2>1. req[r].todo \ HeldNow \in SUBSET Ids
    BY DEF Request
  <2>2. req' \in [Procs -> Request]
    <3>1. PICK marked \in SUBSET Ids :
             req' = [req EXCEPT ![r].pc = "recheck", ![r].todo = marked]
      BY <1>3, <2>1 DEF Mark
    <3>2. "recheck" \in ReqPCs
      BY DEF ReqPCs, StopPCs
    <3> QED
      BY <3>1, <3>2, SentType
  <2>3. [gen |-> gen, by |-> r] \in MarkSet
    BY DEF MarkSet
  <2>4. held' \in [Ids -> MarkSet]
    BY <1>3, <2>3 DEF Mark
  <2> QED
    BY <1>3, <2>2, <2>4 DEF Mark
<1>4. CASE Recheck(r)
  <2>1. req[r].todo \subseteq Ids /\ req[r].fresh \subseteq Ids
    BY DEF Request
  <2>2. req' \in [Procs -> Request] /\ promised' \subseteq Ids
    BY <1>4, <2>1, GotoType DEF Recheck, Request, ReqPCs, StopPCs
  <2> QED
    BY <1>4, <2>2 DEF Recheck
<1>5. CASE Resolve(r)
  <2>1. req[r].todo \subseteq Ids /\ req[r].fresh \subseteq Ids
    BY DEF Request
  <2>2. PICK i \in Ids :
     \/ /\ held' = [held EXCEPT ![i] = NoMark]
        /\ req' = [req EXCEPT ![r].todo = IF req[r].op = "stop" THEN @ ELSE @ \ {i},
                     ![r].pc = IF req[r].op = "stop" THEN "signal" ELSE "recheck"]
        /\ UNCHANGED promised
     \/ /\ req' = [req EXCEPT ![r].pc = "recheck", ![r].todo = @ \ {i},
                              ![r].fresh = @ \cup {i}]
        /\ promised' = promised \cup {i}
        /\ UNCHANGED held
    BY <1>5, <2>1 DEF Resolve
  <2>3. req' \in [Procs -> Request]
    BY <2>1, <2>2 DEF Request, ReqPCs, StopPCs
  <2> QED
    BY <1>5, <2>2, <2>3, Records DEF Resolve
<1>6. CASE AfterHold(r)
  BY <1>6, GotoType, FinishType DEF AfterHold, forget, ReqPCs, StopPCs
<1>7. CASE Signal(r)
  <2>1. hand' \in Hand
    BY <1>7 DEF Signal, Hand
  <2> QED
    BY <1>7, <2>1, GotoType DEF Signal, ReqPCs, StopPCs
<1>8. CASE SettleSoon(r)
  <2>1. req' \in [Procs -> Request]
    BY <1>8, FinishType DEF SettleSoon, Request, ReqPCs, StopPCs
  <2> QED
    BY <1>8, <2>1, SettleType, KickType DEF SettleSoon
<1>9. CASE ReadRunning(r)
  <2>1. req' \in [Procs -> Request]
    BY <1>9, FinishType DEF ReadRunning, Request, ReqPCs, StopPCs
  <2> QED
    BY <1>9, <2>1 DEF ReadRunning
<1>10. CASE StopHeld(r)
  <2>1. req[r].todo \subseteq Ids
    BY DEF Request
  <2>2. req' \in [Procs -> Request]
    <3>1. \/ Goto(r, "waitClaim") \/ Goto(r, "orphan")
          \/ \E i \in req[r].todo : req' = [req EXCEPT ![r].todo = @ \ {i}]
      BY <1>10 DEF StopHeld
    <3>2. CASE Goto(r, "waitClaim") \/ Goto(r, "orphan")
      BY <3>2, GotoType DEF ReqPCs, StopPCs
    <3>3. ASSUME NEW i, req' = [req EXCEPT ![r].todo = @ \ {i}]
          PROVE  req' \in [Procs -> Request]
      BY <2>1, <3>3 DEF Request
    <3> QED
      BY <3>1, <3>2, <3>3
  <2>3. hand' \in Hand /\ claimStop' \subseteq Ids
    <3>1. hand' = hand \/ hand' = [hand EXCEPT !.stop = TRUE]
      BY <1>10 DEF StopHeld
    <3>2. hand' \in Hand
      BY <3>1 DEF Hand
    <3>3. claimStop' \subseteq Ids
      BY <1>10, <2>1 DEF StopHeld
    <3> QED
      BY <3>2, <3>3
  <2> QED
    BY <1>10, <2>2, <2>3 DEF StopHeld
<1>11. CASE StopDone(r)
  BY <1>11, FinishType, GotoType DEF StopDone, ReqPCs
<1>12. CASE Orphan(r)
  <2>1. req[r].todo \subseteq Ids /\ "interrupted" \in States
    BY DEF Request, States, Ended
  <2>2. rows' \in [Ids -> Row]
    BY <1>12, <2>1, SetType DEF Orphan
  <2>3. req' \in [Procs -> Request]
    BY <1>12, <2>1 DEF Orphan, Request, ReqPCs, StopPCs
  <2>4. secrets' \subseteq Ids
    BY <1>12 DEF Orphan, forget
  <2> QED
    BY <1>12, <2>2, <2>3, <2>4 DEF Orphan
<1>13. CASE OrphanFails(r)
  BY <1>13, FinishType DEF OrphanFails
<1> QED
  BY <1>1, <1>2, <1>3, <1>4, <1>5, <1>6, <1>7, <1>8, <1>9, <1>10, <1>11, <1>12, <1>13
  DEF StopStep

\* An account's delete keeps the types.
LEMMA DeleteType == ASSUME TypeOK, NEW r \in Requests, DeleteStep(r) PROVE TypeOK'
<1> USE DEF TypeOK, dbVars, memVars, closeVars, workerVars, histVars
<1>1. CASE DeleteLeave(r) \/ DeleteIdle(r)
  BY <1>1, GotoType DEF DeleteLeave, DeleteIdle, ReqPCs, StopPCs
<1>2. CASE DeleteAccount(r)
  <2>1. rows' \in [Ids -> Row]
    BY <1>2 DEF DeleteAccount, Row
  <2>2. accounts' \in [Uids -> Incs]
    <3>1. 0 \in Incs
      OBVIOUS
    <3> QED
      BY <1>2, <3>1 DEF DeleteAccount
  <2>3. req' \in [Procs -> Request]
    BY <1>2, FinishType DEF DeleteAccount
  <2> QED
    BY <1>2, <2>1, <2>2, <2>3 DEF DeleteAccount
<1>3. CASE DeleteRefused(r)
  BY <1>3, FinishType DEF DeleteRefused
<1> QED
  BY <1>1, <1>2, <1>3 DEF DeleteStep

\* What a restore carries over is a jobs table, whoever the accounts now are.
LEMMA CarriedType == ASSUME TypeOK, NEW users PROVE Carried(users) \in [Ids -> Row]
<1>1. "interrupted" \in States
  BY DEF States, Ended
<1>2. ASSUME NEW i \in Ids PROVE Carried(users)[i] \in Row
  <2>1. rows[i] \in Row
    BY DEF TypeOK
  <2>2. CASE rows[i].state = "absent"
    BY <2>1, <2>2 DEF Carried
  <2>3. CASE rows[i].state # "absent"
    <3>1. PICK st \in States, u \in Uids \cup {NoUid} :
            Carried(users)[i] = [rows[i] EXCEPT !.state = st, !.uid = u, !.carried = TRUE]
      BY <1>1, <2>1, <2>3 DEF Carried, Row
    <3> QED
      BY <2>1, <3>1 DEF Row
  <2> QED
    BY <2>2, <2>3
<1> QED
  BY <1>2 DEF Carried

\* An Exclusive keeps the types; the bound on generations needs OneSwap.
LEMMA ExclusiveType == ASSUME TypeOK, OneSwap, NEW r \in Requests, ExclusiveStep(r)
                       PROVE  TypeOK'
<1> USE DEF TypeOK, dbVars, memVars, closeVars, workerVars, histVars
<1>1. CASE ExclusiveEnter(r)
  BY <1>1, FinishType, GotoType DEF ExclusiveEnter, ReqPCs, XPCs
<1>2. CASE RunFn(r)
  BY <1>2, GotoType DEF RunFn, ReqPCs, XPCs
<1>3. CASE SwapBegin(r)
  BY <1>3, GotoType, SettleType DEF SwapBegin, ReqPCs, XPCs
<1>4. CASE SwapRefused(r)
  BY <1>4, GotoType DEF SwapRefused, ReqPCs, XPCs
<1>5. CASE SwapFiles(r)
  <2>1. gen + 1 \in Gens \ {0} /\ gen + 2 \in Gens \ {0}
    BY <1>5 DEF SwapFiles, OneSwap, swapMoving
  <2>2. rows' \in [Ids -> Row] /\ accounts' \in [Uids -> Incs]
    BY <1>5, CarriedType, Records DEF SwapFiles
  <2>3. gen' \in Gens \ {0} /\ promised' \subseteq Ids
    BY <1>5, <2>1 DEF SwapFiles
  <2> QED
    BY <1>5, <2>2, <2>3, GotoType DEF SwapFiles, ReqPCs, XPCs
<1>6. CASE ExclusiveEnd(r)
  BY <1>6, FinishType, KickType DEF ExclusiveEnd, forgetEnded
<1> QED
  BY <1>1, <1>2, <1>3, <1>4, <1>5, <1>6 DEF ExclusiveStep

\* Close keeps the types.
LEMMA CloseType == TypeOK /\ (CloseBegin \/ CloseStep) => TypeOK'
<1> SUFFICES ASSUME TypeOK, CloseBegin \/ CloseStep PROVE TypeOK'
  OBVIOUS
<1> USE DEF TypeOK, dbVars, memVars, closeVars, workerVars, histVars
<1>1. CASE CloseBegin
  <2>1. hand' \in Hand
    BY <1>1 DEF CloseBegin, Hand
  <2> QED
    BY <1>1, <2>1 DEF CloseBegin
<1>2. CASE CloseIdle \/ CloseCancel \/ CloseInserts
  BY <1>2 DEF CloseIdle, CloseCancel, CloseInserts
<1>3. CASE CloseAbandon
  <2>1. running \in Ids \cup {NoJob}
    BY DEF running, Hand
  <2> QED
    BY <1>3, <2>1 DEF CloseAbandon, forget
<1>4. CASE CloseAbandonWrite
  <2>1. "interrupted" \in States
    BY DEF States, Ended
  <2>2. rows' \in [Ids -> Row]
    BY <1>4, <2>1, SetType DEF CloseAbandonWrite, Cas, Set
  <2> QED
    BY <1>4, <2>2 DEF CloseAbandonWrite
<1>5. CASE CloseSettle
  BY <1>5, SettleType DEF CloseSettle
<1>6. CASE CloseInterrupt
  <2>1. "interrupted" \in States
    BY DEF States, Ended
  <2>2. rows' \in [Ids -> Row]
    BY <1>6, <2>1, RowState DEF CloseInterrupt
  <2> QED
    BY <1>6, <2>2 DEF CloseInterrupt, forget
<1> QED
  BY <1>1, <1>2, <1>3, <1>4, <1>5, <1>6 DEF CloseStep

\* A request that begins keeps the types.
LEMMA StartType == ASSUME TypeOK, NEW r \in Requests, Start(r) PROVE TypeOK'
<1> USE DEF TypeOK, dbVars, memVars, closeVars, workerVars, histVars
<1>1. ASSUME NEW u \in Uids, NEW w \in Works, EnqueueStart(r, u, w) PROVE TypeOK'
  <2>1. req' \in [Procs -> Request]
    BY <1>1, Records DEF EnqueueStart, Request, ReqPCs
  <2> QED
    BY <1>1, <2>1 DEF EnqueueStart
<1>2. ASSUME NEW i \in Ids, RerunStart(r, i) PROVE TypeOK'
  <2>1. rows[i].uid \in Uids /\ rows[i].work \in Works \cup {NoWork}
    BY <1>2 DEF RerunStart, Row
  <2>2. accounts[rows[i].uid] \in Incs
    BY <2>1
  <2>3. req' \in [Procs -> Request]
    BY <1>2, <2>1, <2>2, Records DEF RerunStart, Request, ReqPCs
  <2> QED
    BY <1>2, <2>3 DEF RerunStart
<1>3. ASSUME NEW u \in Uids, NEW i \in Ids, StopStart(r, u, i) PROVE TypeOK'
  <2> DEFINE asks == [Idle EXCEPT !.pc = "stopRead", !.op = "stop",
                                  !.gen = gen, !.uid = u, !.id = i]
  <2>1. asks \in Request
    BY Records DEF Request, ReqPCs, StopPCs
  <2>2. req' = [req EXCEPT ![r] = asks]
    BY <1>3 DEF StopStart
  <2>3. req' \in [Procs -> Request]
    <3> HIDE DEF asks
    <3> QED
      BY <2>1, <2>2
  <2> QED
    BY <1>3, <2>3 DEF StopStart
<1>4. ASSUME NEW u \in Uids, StopAllStart(r, u) PROVE TypeOK'
  <2>1. req' \in [Procs -> Request]
    BY <1>4, Records DEF StopAllStart, Request, ReqPCs, StopPCs
  <2> QED
    BY <1>4, <2>1 DEF StopAllStart
<1>5. ASSUME NEW u \in Uids, DeleteStart(r, u) PROVE TypeOK'
  <2>1. req' \in [Procs -> Request]
    BY <1>5, Records DEF DeleteStart, Request, ReqPCs
  <2> QED
    BY <1>5, <2>1 DEF DeleteStart
<1>6. ASSUME NEW k \in SwapKinds, ExclusiveStart(r, k) PROVE TypeOK'
  <2>1. k \in AllSwaps
    OBVIOUS
  <2>2. req' \in [Procs -> Request]
    BY <1>6, <2>1, Records DEF ExclusiveStart, Request, ReqPCs
  <2> QED
    BY <1>6, <2>2 DEF ExclusiveStart
<1> QED
  BY <1>1, <1>2, <1>3, <1>4, <1>5, <1>6 DEF Start

\* What comes from outside the queue keeps the types.
LEMMA OutsideType ==
  ASSUME TypeOK,
         \/ \E u \in Uids : CreateAccount(u)
         \/ RetireLapses \/ Restart \/ LockTake \/ LockRelease
  PROVE  TypeOK'
<1> USE DEF TypeOK, dbVars, memVars, closeVars, workerVars, histVars
<1>1. ASSUME NEW u \in Uids, CreateAccount(u) PROVE TypeOK'
  BY <1>1 DEF CreateAccount
<1>2. CASE RetireLapses \/ LockTake \/ LockRelease
  BY <1>2 DEF RetireLapses, LockTake, LockRelease
<1>3. CASE Restart
  <2>1. "interrupted" \in States
    BY DEF States, Ended
  <2>2. rows' \in [Ids -> Row]
    BY <1>3, <2>1, RowState DEF Restart
  <2>3. held' \in [Ids -> MarkSet] /\ req' \in [Procs -> Request] /\ hand' \in Hand
    BY <1>3, Records DEF Restart
  <2>4. gen' \in Gens \ {0}
    BY <1>3 DEF Restart
  <2> QED
    BY <1>3, <2>2, <2>3, <2>4 DEF Restart
<1> QED
  BY <1>1, <1>2, <1>3
\* No request goes into an Exclusive or a swap, none out of an idle Run or into it.
LEMMA Quiet ==
  ASSUME req' = req
  PROVE  /\ req'[Run].pc = "idle" <=> req[Run].pc = "idle"
         /\ \A r \in Requests : /\ req'[r].pc \in XPCs => req[r].pc \in XPCs
                                /\ req'[r].pc = "moving" => req[r].pc = "moving"
OBVIOUS

\* The worker moves, and no request goes into an Exclusive or a swap: what a step
\* must show of the job it leaves in hand.
LEMMA Moves ==
  ASSUME Control,
         gen' = gen,
         wpc # "continue" /\ wpc' # "continue",
         wpc' \in HandPCs => hand'.id # NoJob,
         wpc' \in HandPCs \cup {"claimUpdate", "claimed"} => hand'.gen = gen,
         exclusive # {} => wpc' \in {"none", "top"},
         req'[Run].pc = "idle" <=> req[Run].pc = "idle",
         \A r \in Requests : /\ req'[r].pc \in XPCs => req[r].pc \in XPCs
                             /\ req'[r].pc = "moving" => req[r].pc = "moving"
  PROVE  Control'
<1> USE DEF Control
<1>1. HandHasJob'
  BY DEF HandHasJob
<1>2. RunContinues'
  BY DEF RunContinues
<1>3. OneSwap'
  BY DEF OneSwap, swapMoving
<1>4. HandInGeneration'
  BY DEF HandInGeneration, exclusive
<1> QED
  BY <1>1, <1>2, <1>3, <1>4

\* Nearly every step of another goroutine: the worker is where it was, or woken.
LEMMA Keeps ==
  ASSUME Control,
         gen' = gen /\ hand'.id = hand.id /\ hand'.gen = hand.gen,
         wpc' = wpc \/ (wpc = "none" /\ wpc' = "top"),
         req'[Run].pc = "idle" <=> req[Run].pc = "idle",
         \A r \in Requests : /\ req'[r].pc \in XPCs => req[r].pc \in XPCs
                             /\ req'[r].pc = "moving" => req[r].pc = "moving"
  PROVE  Control'
<1> USE DEF Control, HandPCs
<1>1. HandHasJob'
  BY DEF HandHasJob
<1>2. RunContinues'
  BY DEF RunContinues
<1>3. OneSwap'
  BY DEF OneSwap, swapMoving
<1>4. HandInGeneration'
  BY DEF HandInGeneration, exclusive
<1> QED
  BY <1>1, <1>2, <1>3, <1>4

\* The worker between two jobs: it leaves the top only where there is no Exclusive,
\* reads the generation before the file can move, and keeps it with the job it takes.
LEMMA ClaimControl == IInv /\ ClaimStep => Control'
<1> SUFFICES ASSUME IInv, ClaimStep PROVE Control'
  OBVIOUS
<1> USE DEF IInv, dbVars, memVars, closeVars, workerVars, histVars, HandPCs
<1>1. Control /\ hand \in Hand /\ req \in [Procs -> Request]
  BY DEF TypeOK
<1>2. exclusive # {} => wpc \in {"none", "top"}
  BY <1>1 DEF Control, HandInGeneration
<1>3. CASE WorkerTop
  BY <1>1, <1>3, Moves, Quiet DEF WorkerTop
<1>4. CASE WorkerSettle
  BY <1>1, <1>2, <1>4, Moves, Quiet DEF WorkerSettle
<1>5. CASE ClaimRead
  <2>1. hand'.gen = gen
    BY <1>5 DEF ClaimRead, NoHand
  <2> QED
    BY <1>1, <1>2, <1>5, <2>1, Moves, Quiet DEF ClaimRead
<1>6. CASE ClaimUpdate
  <2>1. hand.gen = gen
    BY <1>1, <1>6 DEF ClaimUpdate, Control, HandInGeneration
  <2>2. hand'.gen = hand.gen
    BY <1>1, <1>6 DEF ClaimUpdate, Hand
  <2> QED
    BY <1>1, <1>2, <1>6, <2>1, <2>2, Moves, Quiet DEF ClaimUpdate
<1>7. CASE ClaimRetry
  BY <1>1, <1>2, <1>7, Moves, Quiet DEF ClaimRetry
<1>8. CASE ClaimGivesUp
  BY <1>1, <1>2, <1>8, Moves, Quiet DEF ClaimGivesUp
<1>9. CASE AfterClaim \/ AfterEmptyClaim
  <2>1. \A p \in Procs : \/ req'[p].pc = req[p].pc
                         \/ req[p].pc = "waitClaim" /\ req'[p].pc = "stopHeld"
    BY <1>1, <1>9 DEF AfterClaim, AfterEmptyClaim, ClaimWakes, Request
  <2>2. CASE AfterClaim
    <3>1. hand.gen = gen /\ hand.id # NoJob
      BY <1>1, <2>2 DEF AfterClaim, Control, HandInGeneration
    <3>2. hand'.gen = hand.gen /\ hand'.id = hand.id
      BY <1>1, <2>2 DEF AfterClaim, Hand
    <3> QED
      BY <1>1, <1>2, <2>1, <2>2, <3>1, <3>2, Moves DEF AfterClaim, XPCs
  <2>3. CASE AfterEmptyClaim
    BY <1>1, <1>2, <2>1, <2>3, Moves DEF AfterEmptyClaim, XPCs
  <2> QED
    BY <1>9, <2>2, <2>3
<1> QED
  BY <1>3, <1>4, <1>5, <1>6, <1>7, <1>8, <1>9 DEF ClaimStep

\* A step of the run keeps the job in hand and its generation, until Release.
LEMMA RunControl == IInv /\ RunStep => Control'
<1> SUFFICES ASSUME IInv, RunStep PROVE Control'
  OBVIOUS
<1> USE DEF IInv, dbVars, memVars, closeVars, workerVars, histVars, HandPCs
<1>1. Control /\ hand \in Hand /\ req \in [Procs -> Request]
  BY DEF TypeOK
<1>2. wpc \in HandPCs => exclusive = {} /\ hand.id # NoJob /\ hand.gen = gen
  BY <1>1 DEF Control, HandInGeneration, HandHasJob
<1>3. \A err, told : Returns(err, told)
          => wpc' = "record" /\ hand'.id = hand.id /\ hand'.gen = hand.gen
  BY <1>1 DEF Returns, Hand
<1>4. CASE Execute
  BY <1>1, <1>2, <1>3, <1>4, Moves, Quiet DEF Execute
<1>5. CASE BeginItem \/ AbandonItem \/ Progress \/ RecordEnd \/ RecordNothing
  BY <1>1, <1>2, <1>5, Moves, Quiet
  DEF BeginItem, AbandonItem, Progress, RecordEnd, RecordNothing
<1>6. CASE FinishItem
  <2>1. hand'.id = hand.id /\ hand'.gen = hand.gen
    BY <1>1, <1>6 DEF FinishItem, Hand
  <2> QED
    BY <1>1, <1>2, <1>6, <2>1, Moves, Quiet DEF FinishItem
<1>7. CASE RunTold \/ RunDone \/ RunFails
  BY <1>1, <1>2, <1>3, <1>7, Moves, Quiet DEF RunTold, RunDone, RunFails
<1>8. CASE Release
  BY <1>1, <1>8, Moves, Quiet DEF Release
<1>9. ASSUME NEW w \in Works, ContinueStart(w) PROVE Control'
  <2>1. req'[Run].pc = "enqCheck" /\ \A r \in Requests : req'[r] = req[r]
    BY <1>1, <1>9 DEF ContinueStart, Idle
  <2>2. HandHasJob' /\ RunContinues'
    BY <1>2, <1>9, <2>1 DEF ContinueStart, HandHasJob, RunContinues
  <2>3. OneSwap' /\ HandInGeneration'
    BY <1>1, <1>2, <1>9, <2>1
    DEF ContinueStart, Control, OneSwap, swapMoving, HandInGeneration, exclusive
  <2> QED
    BY <2>2, <2>3 DEF Control
<1> QED
  BY <1>4, <1>5, <1>6, <1>7, <1>8, <1>9 DEF RunStep

\* A press never touches the job in hand; the run's own comes back to its run.
LEMMA EnqueueControl == ASSUME IInv, NEW p \in Procs, EnqueueStep(p) PROVE Control'
<1> USE DEF IInv, dbVars, memVars, closeVars, workerVars, histVars
<1>1. Control /\ hand \in Hand /\ req \in [Procs -> Request]
  BY DEF TypeOK
<1>2. /\ \A q \in Procs \ {p} : req'[q] = req[q]
      /\ req[p].pc \in {"enqCheck", "insert", "inserted"}
      /\ req'[p].pc \in {"insert", "inserted", "idle"}
      /\ gen' = gen /\ hand' = hand
  BY <1>1 DEF EnqueueStep, EnqueueCheck, InsertJob, InsertRefused, EnqueueDone,
              Goto, Finish, Idle, Request
<1>3. CASE p # Run
  <2>1. wpc' = wpc \/ (wpc = "none" /\ wpc' = "top")
    BY <1>3 DEF EnqueueStep, EnqueueCheck, InsertJob, InsertRefused, EnqueueDone, Kick,
       alive
  <2> QED
    BY <1>1, <1>2, <1>3, <2>1, Keeps DEF XPCs
<1>4. CASE p = Run
  <2>1. wpc = "continue"
    BY <1>1, <1>2, <1>4 DEF Control, RunContinues
  <2>2. \/ wpc' = "continue" /\ req'[Run].pc # "idle"
        \/ wpc' = "between" /\ req'[Run].pc = "idle"
    BY <1>1, <1>4, <2>1 DEF EnqueueStep, EnqueueCheck, InsertJob, InsertRefused,
       EnqueueDone, Goto, Finish, Idle, Request
  <2>3. HandHasJob' /\ RunContinues'
    BY <1>1, <1>2, <2>1, <2>2 DEF Control, HandHasJob, RunContinues, HandPCs
  <2>4. OneSwap' /\ HandInGeneration'
    BY <1>1, <1>2, <1>4, <2>1, <2>2
    DEF Control, OneSwap, swapMoving, HandInGeneration, exclusive, HandPCs
  <2> QED
    BY <2>3, <2>4 DEF Control
<1> QED
  BY <1>3, <1>4

\* A Stop, or a delete's, only ever sets the stop of the job in hand.
LEMMA StopControl == ASSUME IInv, NEW r \in Requests, StopStep(r) \/ DeleteStep(r)
                     PROVE  Control'
<1> USE DEF IInv, dbVars, memVars, closeVars, workerVars, histVars
<1>1. Control /\ hand \in Hand /\ req \in [Procs -> Request]
  BY DEF TypeOK
<1>2. hand'.id = hand.id /\ hand'.gen = hand.gen
  BY <1>1 DEF StopStep, StopStale, StopRead, Mark, Recheck, Resolve, AfterHold, Signal,
     SettleSoon, ReadRunning, StopHeld, StopDone, Orphan, OrphanFails, DeleteStep,
     DeleteLeave, DeleteIdle, DeleteAccount, DeleteRefused, Hand
<1>3. gen' = gen /\ (wpc' = wpc \/ (wpc = "none" /\ wpc' = "top"))
  BY DEF StopStep, StopStale, StopRead, Mark, Recheck, Resolve, AfterHold, Signal,
     SettleSoon, ReadRunning, StopHeld, StopDone, Orphan, OrphanFails, DeleteStep,
     DeleteLeave, DeleteIdle, DeleteAccount, DeleteRefused, Kick, alive
<1>4. \A q \in Procs \ {r} : req'[q] = req[q]
  BY <1>1 DEF StopStep, StopStale, StopRead, Mark, Recheck, Resolve, AfterHold, Signal,
     SettleSoon, ReadRunning, StopHeld, StopDone, Orphan, OrphanFails, DeleteStep,
     DeleteLeave, DeleteIdle, DeleteAccount, DeleteRefused, Goto, Finish
<1>5. req'[r].pc \notin XPCs
  <2>1. CASE StopStale(r)
    BY <1>1, <2>1 DEF StopStale, Goto, Finish, Idle, Request, XPCs
  <2>2. CASE StopRead(r)
    BY <1>1, <2>2 DEF StopRead, Goto, Finish, Idle, Request, XPCs
  <2>3. CASE Mark(r)
    BY <1>1, <2>3 DEF Mark, Goto, Finish, Idle, Request, XPCs
  <2>4. CASE Recheck(r)
    BY <1>1, <2>4 DEF Recheck, Goto, Finish, Idle, Request, XPCs
  <2>5. CASE Resolve(r)
    BY <1>1, <2>5 DEF Resolve, Goto, Finish, Idle, Request, XPCs
  <2>6. CASE AfterHold(r)
    BY <1>1, <2>6 DEF AfterHold, Goto, Finish, Idle, Request, XPCs
  <2>7. CASE Signal(r)
    BY <1>1, <2>7 DEF Signal, Goto, Finish, Idle, Request, XPCs
  <2>8. CASE SettleSoon(r)
    BY <1>1, <2>8 DEF SettleSoon, Goto, Finish, Idle, Request, XPCs
  <2>9. CASE ReadRunning(r)
    BY <1>1, <2>9 DEF ReadRunning, Goto, Finish, Idle, Request, XPCs
  <2>10. CASE StopHeld(r)
    BY <1>1, <2>10 DEF StopHeld, Goto, Finish, Idle, Request, XPCs
  <2>11. CASE StopDone(r)
    BY <1>1, <2>11 DEF StopDone, Goto, Finish, Idle, Request, XPCs
  <2>12. CASE Orphan(r)
    BY <1>1, <2>12 DEF Orphan, Goto, Finish, Idle, Request, XPCs
  <2>13. CASE OrphanFails(r)
    BY <1>1, <2>13 DEF OrphanFails, Goto, Finish, Idle, Request, XPCs
  <2>14. CASE DeleteStep(r)
    BY <1>1, <2>14 DEF DeleteStep, DeleteLeave, DeleteIdle, DeleteAccount, DeleteRefused,
       Goto, Finish, Idle, Request, XPCs
  <2> QED
    BY <2>1, <2>2, <2>3, <2>4, <2>5, <2>6, <2>7, <2>8, <2>9, <2>10, <2>11, <2>12, <2>13,
       <2>14 DEF StopStep
<1> QED
  BY <1>1, <1>2, <1>3, <1>4, <1>5, Keeps DEF XPCs

\* An Exclusive begins with no claim and no job, and its file moves with none: a worker
\* that is alive meanwhile is at the top of its loop.
LEMMA ExclusiveControl == ASSUME IInv, NEW r \in Requests, ExclusiveStep(r)
                          PROVE  Control'
<1> USE DEF IInv, dbVars, memVars, closeVars, workerVars, histVars
<1>1. Control /\ hand \in Hand /\ req \in [Procs -> Request]
  BY DEF TypeOK
<1>2. /\ \A q \in Procs \ {r} : req'[q] = req[q]
      /\ hand' = hand
      /\ wpc' = wpc \/ (wpc = "none" /\ wpc' = "top")
  BY <1>1 DEF ExclusiveStep, ExclusiveEnter, RunFn, SwapBegin, SwapRefused, SwapFiles,
              ExclusiveEnd, Goto, Finish, Kick, alive
<1>3. CASE ExclusiveEnter(r)
  <2>1. gen' = gen /\ req'[r].pc \in {"idle", "fn"}
    BY <1>1, <1>3 DEF ExclusiveEnter, Goto, Finish, Idle, Request
  <2>2. CASE req'[r].pc = "idle"
    BY <1>1, <1>2, <2>1, <2>2, Keeps DEF XPCs
  <2>3. CASE req'[r].pc = "fn"
    <3>1. ~claiming /\ running = NoJob /\ wpc' = wpc
      BY <1>1, <1>3, <2>3 DEF ExclusiveEnter, Finish, Idle
    <3>2. wpc \in {"none", "top"}
      BY <1>1, <3>1 DEF TypeOK, claiming, running, Control, HandHasJob
    <3>3. HandHasJob' /\ RunContinues' /\ HandInGeneration'
      BY <1>1, <1>2, <3>1, <3>2
      DEF HandHasJob, Control, RunContinues, HandInGeneration, HandPCs
    <3>4. OneSwap'
      BY <1>1, <1>2, <2>1, <2>3 DEF Control, OneSwap, swapMoving
    <3> QED
      BY <3>3, <3>4 DEF Control
  <2> QED
    BY <2>1, <2>2, <2>3
<1>4. CASE RunFn(r) \/ SwapRefused(r) \/ ExclusiveEnd(r)
  <2>1. gen' = gen /\ req[r].pc \in XPCs /\ req'[r].pc # "moving"
    BY <1>1, <1>4 DEF RunFn, SwapRefused, ExclusiveEnd, Goto, Finish, Idle, Request, XPCs
  <2> QED
    BY <1>1, <1>2, <2>1, Keeps
<1>5. CASE SwapBegin(r) \/ SwapFiles(r)
  <2>1. req[r].pc \in XPCs /\ req'[r].pc \in {"moving", "fnEnd"} /\ wpc' = wpc
    BY <1>1, <1>5 DEF SwapBegin, SwapFiles, Goto, Request, XPCs
  <2>2. wpc \in {"none", "top"}
    BY <1>1, <2>1 DEF Control, HandInGeneration, exclusive
  <2>3. HandHasJob' /\ RunContinues' /\ HandInGeneration'
    BY <1>1, <1>2, <2>1, <2>2
    DEF HandHasJob, Control, RunContinues, HandInGeneration, HandPCs
  <2>4. OneSwap'
    <3>1. CASE SwapBegin(r)
      BY <1>1, <1>2, <3>1 DEF SwapBegin, OneSwap, swapMoving
    <3>2. CASE SwapFiles(r)
      <4>1. req[r].pc = "moving" /\ req'[r].pc = "fnEnd"
        BY <1>1, <3>2 DEF SwapFiles, Goto, Request
      <4> QED
        BY <1>1, <1>2, <4>1 DEF Control, OneSwap, swapMoving
    <3> QED
      BY <1>5, <3>1, <3>2
  <2> QED
    BY <2>3, <2>4 DEF Control
<1> QED
  BY <1>3, <1>4, <1>5 DEF ExclusiveStep

\* What is left touches neither the worker's place nor the file, but for a restart,
\* which begins again with no worker.
LEMMA OtherControl ==
  ASSUME IInv,
         \/ \E r \in Requests : Start(r)
         \/ \E u \in Uids : CreateAccount(u)
         \/ RetireLapses \/ CloseBegin \/ CloseStep \/ Restart \/ LockTake \/ LockRelease
         \/ UNCHANGED vars
  PROVE  Control'
<1> USE DEF IInv, dbVars, memVars, closeVars, workerVars, histVars
<1>1. Control /\ hand \in Hand /\ req \in [Procs -> Request]
  BY DEF TypeOK
<1>2. ASSUME NEW r \in Requests, Start(r) PROVE Control'
  <2>1. gen' = gen /\ wpc' = wpc /\ hand' = hand /\ \A q \in Procs \ {r} : req'[q] = req[q]
    BY <1>1, <1>2 DEF Start, EnqueueStart, RerunStart, StopStart, StopAllStart,
       DeleteStart, ExclusiveStart
  <2>2. req'[r].pc \in {"enqCheck", "stopRead", "leave", "xwait"}
    <3>1. ASSUME NEW u \in Uids, NEW w \in Works, EnqueueStart(r, u, w)
          PROVE  req'[r].pc = "enqCheck"
      BY <1>1, <3>1 DEF EnqueueStart, Idle
    <3>2. ASSUME NEW i \in Ids, RerunStart(r, i) PROVE req'[r].pc = "enqCheck"
      BY <1>1, <3>2 DEF RerunStart, Idle
    <3>3. ASSUME NEW u \in Uids, NEW i \in Ids, StopStart(r, u, i)
          PROVE  req'[r].pc = "stopRead"
      BY <1>1, <3>3 DEF StopStart, Idle
    <3>4. ASSUME NEW u \in Uids, StopAllStart(r, u) PROVE req'[r].pc = "stopRead"
      BY <1>1, <3>4 DEF StopAllStart, Idle
    <3>5. ASSUME NEW u \in Uids, DeleteStart(r, u) PROVE req'[r].pc = "leave"
      BY <1>1, <3>5 DEF DeleteStart, Idle
    <3>6. ASSUME NEW k \in SwapKinds, ExclusiveStart(r, k) PROVE req'[r].pc = "xwait"
      BY <1>1, <3>6 DEF ExclusiveStart, Idle
    <3> QED
      BY <1>2, <3>1, <3>2, <3>3, <3>4, <3>5, <3>6 DEF Start
  <2> QED
    BY <1>1, <2>1, <2>2, Keeps DEF XPCs
<1>3. CASE \/ \E u \in Uids : CreateAccount(u)
           \/ RetireLapses \/ LockTake \/ LockRelease \/ UNCHANGED vars
  <2>1. gen' = gen /\ wpc' = wpc /\ hand' = hand /\ req' = req
    BY <1>3 DEF CreateAccount, RetireLapses, LockTake, LockRelease, vars
  <2> QED
    BY <1>1, <2>1, Keeps, Quiet
<1>4. CASE CloseBegin \/ CloseStep
  <2>1. hand'.id = hand.id /\ hand'.gen = hand.gen
    BY <1>1, <1>4 DEF CloseBegin, CloseStep, CloseIdle, CloseCancel, CloseAbandon,
       CloseAbandonWrite, CloseInserts, CloseSettle, CloseInterrupt, Hand
  <2>2. gen' = gen /\ wpc' = wpc /\ req' = req
    BY <1>4 DEF CloseBegin, CloseStep, CloseIdle, CloseCancel, CloseAbandon,
       CloseAbandonWrite, CloseInserts, CloseSettle, CloseInterrupt
  <2> QED
    BY <1>1, <2>1, <2>2, Keeps, Quiet
<1>5. CASE Restart
  <2>1. wpc' = "none" /\ \A p \in Procs : req'[p].pc = "idle"
    BY <1>5 DEF Restart, Idle
  <2>2. Control'
    BY <2>1 DEF Control, HandHasJob, RunContinues, OneSwap, swapMoving, HandInGeneration,
       exclusive, HandPCs, XPCs
  <2> QED
    BY <2>2
<1> QED
  BY <1>2, <1>3, <1>4, <1>5

\* No step of the queue breaks the invariant.
LEMMA StepInv == IInv /\ [Next]_vars => IInv'
<1> SUFFICES ASSUME IInv, [Next]_vars PROVE IInv'
  OBVIOUS
<1>1. TypeOK /\ HandHasJob /\ OneSwap
  BY DEF IInv, Control
<1>2. CASE ClaimStep
  BY <1>1, <1>2, ClaimType, ClaimControl DEF IInv
<1>3. CASE RunStep
  BY <1>1, <1>3, RunType, RunControl DEF IInv
<1>4. ASSUME NEW p \in Procs, EnqueueStep(p) PROVE IInv'
  BY <1>1, <1>4, EnqueueType, EnqueueControl DEF IInv
<1>5. ASSUME NEW r \in Requests, Start(r) PROVE IInv'
  BY <1>1, <1>5, StartType, OtherControl DEF IInv
<1>6. ASSUME NEW r \in Requests, StopStep(r) \/ DeleteStep(r) PROVE IInv'
  BY <1>1, <1>6, StopType, DeleteType, StopControl DEF IInv
<1>7. ASSUME NEW r \in Requests, ExclusiveStep(r) PROVE IInv'
  BY <1>1, <1>7, ExclusiveType, ExclusiveControl DEF IInv
<1>8. CASE CloseBegin \/ CloseStep
  BY <1>1, <1>8, CloseType, OtherControl DEF IInv
<1>9. CASE \/ \E u \in Uids : CreateAccount(u)
           \/ RetireLapses \/ Restart \/ LockTake \/ LockRelease
  BY <1>1, <1>9, OutsideType, OtherControl DEF IInv
<1>10. CASE UNCHANGED vars
  <2>1. TypeOK'
    BY <1>1, <1>10 DEF TypeOK, vars, dbVars, memVars, closeVars, workerVars, histVars
  <2> QED
    BY <1>10, <2>1, OtherControl DEF IInv
<1> QED
  BY <1>2, <1>3, <1>4, <1>5, <1>6, <1>7, <1>8, <1>9, <1>10 DEF Next

\* The inductive invariant: types, and the worker, the Exclusive and the generation
\* where HandInGeneration needs them.
THEOREM Invariance == SafeSpec => []IInv
BY InitInv, StepInv, PTL DEF SafeSpec

\* Every variable of the queue has its type in every state: no end is written that the
\* table does not know, no mark names another generation than one the store had.
THEOREM TypeCorrect == SafeSpec => []TypeOK
<1>1. IInv => TypeOK
  BY DEF IInv
<1> QED
  BY <1>1, Invariance, PTL

\* A claim or a job in hand is of the file the server is on, and an Exclusive (a
\* restore, a reset, an update) never runs beside one, however many presses, stops,
\* deletes, swaps and shutdowns there are.
THEOREM FilesNeverMoveUnderAJob == SafeSpec => []HandInGeneration
<1>1. IInv => HandInGeneration
  BY DEF IInv, Control
<1> QED
  BY <1>1, Invariance, PTL
=============================================================================
