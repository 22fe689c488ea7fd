# A formal model of tippani

TLA+ modules, TLC configurations and TLAPS proofs for the parts of tippani whose
correctness depends on order: in the Go server, the order in which goroutines,
SQLite's write lock, crashes and file swaps meet; in the React client, the order
in which tabs, replies, traversals and readers do. Line references are to the
repository's files.

| module | models | instances |
|---|---|---|
| `JobQueue.tla` | the background job queue and everything that meets it | `MCJobQueue.tla`, `MCQueueStop`, `Crash`, `Swap`, `Accounts`, `Close`, `Live` |
| `JobLife.tla` | what the queue promises a reader of a job; `JobQueue` implements it | through `JobQueue` |
| `JobQueueProofs.tla` | theorems about `JobQueue`: types, and that no file moves under a job | TLAPS |
| `JobQueueSafetyProofs.tla` | marks, wakeups, secrets, owners | TLAPS |
| `JobQueueLifeProofs.tla` | what a Stop promised, and that `JobQueue` implements `JobLife` | TLAPS |
| `JobQueueTwinProofs.tla` | no account has the same work there twice | TLAPS |
| `Logbook.tla`, `LogbookProofs.tla` | the log's buffer, its drainer, and those who wait for it | `MCLogbook.tla`, `MCLog` |
| `DataSwap.tla`, `DataSwapProofs.tla` | restore, rollback, reset, safety copies, crash and boot | `MCDataSwap.tla`, `MCSwap`, `MCSignOn` |
| `AnswerQueue.tla`, `AnswerQueueProofs.tla` | the quiz's answers, kept in the browser until the server has them | `MCAnswerQueue.tla`, `MCAnswers`, `MCOthersAnswers` |
| `SessionHistory.tla`, `SessionHistoryProofs.tla` | a tab's history, and the surfaces, panels and trail kept in step with it | `MCSessionHistory.tla`, `MCHistory` |

`PROJECT.json` has the components, the runs, the map from definitions to source
lines, the mutants, hazards, findings and theorems.

## 1. Inventory

tippani is one Go process over a SQLite database in WAL mode, with a React
client. State that outlives a request is in four places: the library database,
the data directory beside it (covers, spooled uploads, copies set aside by a
restore), the memory of the background services, and the client's tokens.

| component | state | operations | what makes it correct |
|---|---|---|---|
| **job queue** `internal/jobs/{runner,held,job}.go` | table `jobs`; in memory the job in hand, the held marks, the secrets, `pending`, `claimStop`, who is inserting, who holds it exclusively, who is leaving | Enqueue, Rerun, Continue; the worker's claim, run and finish; Stop, StopAll, StopOwner; Exclusive, Retire; Boot, Close | one job at a time; a stopped job does not start; nothing waits without a worker; an end is written once; every Stop is answered; Close returns |
| **logbook** `internal/jobs/{logbook,prune,recorder}.go` | a bounded buffer of lines in three drop classes, a batch in flight, counters of the lost; table `log_entries` | add, drain, Flush, Close, prune | order kept; what is lost is counted once; Flush waits for what came before it; one drainer; nothing of an old file in a new one |
| **store** `internal/store/{store,swap,journal,busy}.go` | two pools, the generation, the swap lock | Open, Swap, Steady, WithLockWait | no statement on a closed pool is taken for an answer; the generation moves with the file |
| **restore, recovery, reset** `backup_handlers.go`, `backup_recovery.go`, `store/repair.go` | the data directory's entries, what was set aside | restore and its rollback, boot's recovery, reset, backup | after a crash at any rename the next start finds all of the old file or all of the new |
| **safety copies** `safety_copy.go` | one-shot tokens, the safety note | download, restore with the note | spent once |
| **accounts** `admin_handlers.go`, `auth_handlers.go`, `id_floor.go` | `users`, sessions, device tokens, pairing codes, the id floor | create, delete, log in, pair, revoke | nothing of a deleted account acts for the next holder of its id |
| **import** `import_queue.go`, `import_staging.go` | spooled files, staged rows | spool, read as a job, sweep, approve, discard | a file is neither read after its sweep nor kept for ever; an approval applies once |
| **cast art** `cast_art_handlers.go`, `inflight.go` | flights by key | lead, join, cut | a joiner gets an answer of its own or leads |
| **review** `review_*.go`, `cloze.go` | cards, tiers, tuning | draw, answer, tune | the scheduler's bounds and order |
| **trash** `trash*.go` | removed rows and their links | remove, put back, purge | put back is the inverse of remove |
| **updater** `internal/updater`, `update_handlers.go` | the state of one update | check, launch, retire the queue | no job starts under a container that is being replaced |
| **people and cast** `store/{identity,credits,quote_person}.go` | identities and links | merge, split, prune | a merge loses no link |
| **shutdown** `cmd/tippani/main.go` | order and budget | close server, queue, logbook, store | each gets its share of nine seconds |
| **client: answers** `answerQueue.js` | one list a reader in localStorage, a copy in memory when it will not fit, a sender and its timer in each tab | keep, send, retry, start and stop with the reader | an answer is never lost unseen, counts once, and is not left behind a sender nobody starts again |
| **client: history** `history.js`, `ui.jsx`, `App.jsx` | the tab's entries and their state, open surfaces, the panel stack, the trail in sessionStorage | push, Back, go, popstate, close a surface | the address and the screen agree; one Back closes one thing; no dead entry |
| **client: the rest** | caches of a page, the daily deck, screens | fetch and draw | — |
| the rest | books, films, quotes, anthologies, sources, search, statistics, exports, suppliers, parsers | one transaction or one read each | — |

How they meet: a request handler calls `Runner.Enqueue`; the worker calls a
kind's `Run`, which writes the library in transactions of its own, calls
`Progress` and `Log` and asks `Stopping`; `store.Swap` calls the queue's
`beforeSwapLocked` hook, which writes the held marks before a file moves;
restore, recovery, reset, reindex and update go through `Runner.Exclusive`; an
account's delete through `StopOwner` and `WaitOwnerIdle`; the queue hands its
lines to the logbook stamped with the generation they belong to; `serve` closes
the server, the queue, the logbook and the store in that order. The client's tabs
share the browser's storage and its session cookie; they post to the server with
whatever session that cookie holds.

The hard parts are where memory and a row say two things of one job (a held
mark is in memory, its row still waits), where a fact is read under one lock and
used under another (the claim's list of held ids, Stop's second look, Stop all's
list), where ids outlive what they named (`users.id` after a delete, `jobs.id`
after a reset), and where everything must still end when the write lock does
not come (a Stop, Close). `PROJECT.json` lists 40 such places under `hazards`,
each at its line, with the properties that watch it or why none does.

## 2. Plan

Done: `JobQueue`, `JobLife` and the refinement, `Logbook`, `DataSwap`, `AnswerQueue`,
`SessionHistory`; the theorems of section 6, which state every safety property of the
runs.

Next, in this order:

1. Theorems: `LivesAsPromised` where a delete meets a reset, for one account id;
   `NoDuplicateWork` where a kind continues itself, with the continuing job left out of
   the count as the code leaves it.
2. **SpoolImports** (spool, sweep, release, crash) and **Approval**.
3. **Recover** in `DataSwap`: the copy it promotes, and the files it sets aside.
4. **CastArtFlights**, **Sessions** (slide and cap, pairing codes, deletion),
   **Shutdown** (the queue's and the logbook's Close under one budget).
5. Pure operators against a reference: the id floor, title and line cutting,
   the scheduler's draw, search's edit distance.

Other hazards of this code that those parts would take: `WithLockWait` on a pool a
swap closes (store/busy.go:43); a flight cut under its joiner
(cast_art_handlers.go:174); a pairing code used twice (pairing_handlers.go:202); a
session that slides while it is revoked (auth.go:87); the floor read after a
restore (store/id_floor.go:57); the shutdown's order (cmd/tippani/main.go:405); the
spool's release and sweep (import_queue.go:287, 413).

Modules to be proved about declare no RECURSIVE operator; their constants carry
named assumptions; one operation is one action.

## 3. The job queue's model

### State

| variable | code |
|---|---|
| `rows` | table `jobs`: `state`, `user_id`, the kind and canonical params as `work`, `carried` over by a restore. `inc` stands for the account itself behind `user_id`, which the code tells apart by its name when it carries a journal |
| `accounts` | `users`: which account has each id now, 0 for nobody |
| `gen` | `Store.Generation()`, from 1 so that 0 can mean "never" |
| `lock` | SQLite's write lock, when a transaction longer than a step holds it: the running job's (`run`) or anybody else's (`other`) |
| `held` | `Runner.held` of held.go: mark's generation, and who set it (the code's milliseconds; see Resolve) |
| `claimStop`, `pending`, `secrets` | the fields of those names |
| `retired` | `retiringLocked()` |
| `cpc`, `cancelled`, `abandoned` | where Close is, whether `Runner.base` is cancelled, the job it abandoned |
| `wpc`, `hand`, `heldSeen` | where the worker is, its `Job`, the held set its claim read |
| `req` | each request's goroutine, and the running job's own (`Run`) when it queues a continuation: where it is and its locals |
| `promised`, `kickDue` | history: jobs a Stop said it stopped before they started; waiting rows the code knowingly leaves to the next press |

`claiming`, `alive`, `running`, `inserting`, `exclusive` and `leaving` are
fields of `Runner` that are a function of where the goroutines are; they are
state functions, so they cannot disagree with the code positions they flag.

### Actions and atomicity

An action is one critical section of `Runner.mu` or `Runner.hmu`, or one SQL
statement or transaction; between two of them every other goroutine may run.
`Enqueue*`, `InsertJob` and `EnqueueDone` are `Runner.enqueue` and `insert`
(runner.go:306-439); `WorkerTop` to `Release` are `work`, `claim`, `run`,
`execute` and `finish` (runner.go:524-786); `StopRead` to `OrphanFails` are Stop,
StopAll and StopOwner (runner.go:819-1171) with held.go's `hold` and
`settleHeld`; `Delete*` is `handleDeleteUser`; `Exclusive*`, `RunFn` and `Swap*`
are `Exclusive`, `Retire` and store/swap.go; `Close*` is Close; `Restart` is the
end of the process and the next one's Boot; `LockTake` and `LockRelease` are
every other writer.

A statement that writes either finds the lock free (`CanWrite`) or, while it is
held or the pools are being swapped, may give up (`MayFail`). It never gives up
with the lock free.

Choices a reader should know:

- `Resolve`: a mark is compared by its time. Two Stops of one millisecond set
  equal marks, so the model lets a Stop take another's mark for its own, and
  lets it not.
- `Settle` is one step. In settleHeld the UPDATE and the dropping of the marks
  are apart, but both happen under the store's steady lock and `hmu` callers see
  a mark beside a written row as stopped either way.
- `stop_requested` is left out: it is written on running rows and read only in
  the claim of a waiting one.
- A kind is modelled by its contract in job_stop.go and job.go: it asks
  `Stopping` before an item, finishes or writes off the item it is in, and
  succeeds only when it has done something. It may also never come back.
- A restore may bring any accounts (`accounts' \in [Uids -> Incs]`); its
  journal is carried (`restore`) or, when that fails, lost (`uncarried`), and then
  ids start again as they do after a reset.
- Wording, counts, progress numbers, notifications, the test seams of
  `holding()` and the failed second read of `hold` are left out.
- A crash in the middle of a swap is in `DataSwap`; `Restart` waits for it.
- `WithLockWait` takes a connection of a pool that a swap may close in between;
  the pools are not in this model.

### What it promises: JobLife

`JobLife` has four variables: where each job's life is, which waiting jobs a Stop has
set aside, which jobs the reader was told are stopped, and the job at work on an
item. A job is accepted under the next id, set aside, told, taken first in first out
past what is set aside, works on items one at a time and ends once; a stop of the
server or a replacement of the file interrupts. `JobQueue!Life` maps `rows` to the
lives, the marks on waiting rows to what is set aside, `promised` to what was told and
the worker's item to the job at work; the claim's retries, the locks, Exclusive,
Close, the requests' places and the deletion of accounts are stutters. It is checked
as `LivesAsPromised` on three instances: stops beside a restore and a rollback,
crashes beside a recovery, and resets beside deletes. A reset and a Stop are never
in the same instance: there the promise does not hold (section 5).

## 4. The other models

### Logbook

| variable | code |
|---|---|
| `book` | `buf`, as the set of its lines, whose serials are their order; `units` and the counts by class |
| `attached`, `closed`, `seq`, `overflow`, `failed` | the fields of those names |
| `pruneWanted`, `prune`, `sincePrune` | the drainer's prune, in turns |
| `dpc`, `batch`, `carry` | where the drainer is, what it took, and the counts it took with it |
| `waiter` | each Flush, and Close |
| `gen`, `holder` | the generation of the file; the name that has the account id in it |
| `lost`, `told`, `wrote` | history: lines dropped, lines a landed note reported, what the batch put where |

One action is one critical section of the logbook's mutex, or the write of a batch.
A line is its class, its serial and the generation and name it was stamped with. A
batch may be written, fail with its counts given back, or panic. The bound in bytes,
the hold used by tests, the hook after a prune and the deletes a prune makes are left
out, and so are names that come back to a former holder. So is the empty shell an
evicted line leaves in the slice: nothing reads one, evictLocked compacts when half
are shells and takeLocked passes over them.

### DataSwap

A library is a number, and the data directory is three entries, each of some
library: what sorts before the database, the database, and its log. `live`, `kept`,
`pre`, `stage` and `junk` are the directories; `pool` is the file the pools are open
on; `mu` is `backupMu`; `req` is each restore or reset, one action an entry moved;
`copy`, `sending` and `note` are the safety copy's three lives; `peopled` says which
libraries have accounts. `owed`, `had`, `signedOn`, `spent` and `downloads` are
history. Any rename or delete may fail, and the process may die between any two
actions; `Boot` opens what it finds. An account may be made by a sign-up, which takes
`backupMu`, or by the first single sign-on, which does not; a request under way may
write a picture while the directory is moved.

An archive always brings a database and pictures and never a log. Recover (the copy
and its promotion), the reading and sealing of archives, the reset's removal of the
directories of sources and spool, and a sweep of an old copy that fails are left out.

### AnswerQueue

One browser, in which tabs share `store` and `cookie` and have their own `owner`,
`mem`, `post` and `timer`; the server has `taken`, the answers in the order it wrote
them. JavaScript runs to its next await, so an action is one turn of a tab. A request
may be answered, refused, lost on either way, or given up on and arrive later
(`late`); storage may fill up and empty; a quote may be deleted; readers sign in and
out in any tab. An answer leaves only by a door the history variables name: taken,
written over by a list another tab kept in memory, refused in another reader's
session, or closed with a page that held it in memory alone. The listeners a screen
registers, and the single try when nobody is signed in, are left out.

### SessionHistory

`entries`, `cur` and `going` are the browser's: a push is at once, and `back()` and
`go()` arrive in a turn of their own. `shown`, `surfaces` and `panels` are the
page's, `trail` is in sessionStorage, as the set of its rows, which have serials. An
action is one handler: open or close a surface, a step inside it, a panel pushed or
popped, the arrow, a row of the trail, the reader's own Back and Forward, a reload,
a load of the app into an entry of its own. `strayed` marks a history in which an
entry and what it stood for have parted: a press while another traversal is on its
way, which the browser then makes from the wrong entry; a screen opened from a
surface or panel, whose entry stays behind; a surface that closes under another's
entry; a Forward, a reload or a load of another document onto the entry of a surface
that is gone; and the door section 5 names. `mixed` marks one in which a second
document has written the trail. The properties about entries except the first, those
about the trail's rows the second; `AddressIsShown` excepts nothing. Scroll memory
is left out.

## 5. What the runs show

| run | instance | shows |
|---|---|---|
| `queue_stop` | one reader, who is an admin, two jobs, two requests, Stop and Stop all | types; a promised stop is kept whatever claim or settle was under way; two presses make no duplicate; a mark on a running job is being taken back |
| `queue_crash` | one job, two requests, the write lock held by others at any moment, Close with its cancel and abandon, a recovery, a crash at any step | a running job is never settled as an orphan; no lost wakeup; a running job has its secret; JobLife, so an end is written once |
| `queue_swap` | two jobs, a restore and its rollback | nothing moves under a claim; no old secret stays for a new job; JobLife, so stops survive the file |
| `queue_accounts` | two jobs, delete, sign-up, continue, rerun; a reset or a restore without its journal | no job runs as the next holder of its owner's id; JobLife with its wipe |
| `close_returns` | one job, a press of Stop and of Stop all, shutdown, a lock never let go of, a kind that never ends | Close ends, and a Stop is answered |
| `job_leaves` | two jobs, kinds that keep their contract | what waits leaves, what was stopped ends |
| `logbook` | three lines (a request's, a job's, a row) into a buffer of two, batches of two, a Flush and Close, two generations, two names | what is lost is told once; work has a drainer; a Flush wakes and finds its lines gone; a line never lands on another job or account; the least goes first |
| `data_swap` | two requests, one admin, three libraries, two directories set aside, two downloads | what is set aside is somewhere until the next success; an answer is true; no log of another file; one download, one replacement, of the library it covers; a sign-up is not swapped away |
| `answers` | two tabs, two readers, two answers, one late request, one quote deleted | types; nothing is lost but by the named doors; each counts once, in order; the sender stops only when it may |
| `history` | two screens, four entries, two surfaces, one with a step, two panels, two documents | the address is the screen; a row of the trail is where it says; a jump arrives; no dead entry; Back takes the top |

**Bounds.** Two requests and the worker are what the queue's races take: each hazard
listed is a request against the worker, a request against a request, or both against
a third that holds the lock, which `LockTake` is without being a request. Two jobs
are one in hand and one waiting (three would repeat the claim). One is enough where
the question is asked of a single row: what may write an end, whether a Stop and
Close come back. Two generations past the first take one rollback (`queue_swap`,
`queue_crash`); one takes a reset (`queue_accounts`); two incarnations of an account
are its owner and its successor. In the logbook a third line makes a buffer of two
evict, and a row of two units makes one line evict two; a second batch takes what
the first left. In `data_swap` a second request is the other of every pair that
reads one note, three libraries are the old, the archive's and an empty one, and two
directories are the one being filled and the one it replaces. In `answers` a second
tab is the other writer of a list and a second reader the other session. In
`history` a step and two surfaces are what one Back can be taken for, and four
entries give each kind of entry one behind and one ahead; `TrailMax` and `Offered`
are smaller than the code's, so that rows are dropped. `Max*` are bounds of the
model: what would pass one is refused as an operation that failed or not asked for.
`CHECK_DEADLOCK FALSE` is given to `answers`, `data_swap` and `onboard_signon` only:
there the bounded instance runs out of answers or libraries, and the code would just
have nothing left to do.

Symmetry is taken over requests, works, tabs and, where no admin tells them apart,
accounts, in runs without liveness.

**Fairness.** `QueueFairness` is for goroutines between two operations that end
by themselves: the Go scheduler runs them, a statement's wait is bounded by
`busy_timeout`, a claim's retries by `busyRetry` (hence strong fairness of
`ClaimGivesUp`: it is not enabled without a break, but the count of tries ends),
Close's waits by its context. Nothing is asked of who presses what, who holds the
lock, or of a kind. `KindFairness` adds the kinds' contract: items end, there are
finitely many, `Stopping` is asked between two. Only `job_leaves` uses it;
`close_returns` uses `HungKindSpec`, in which a kind need never return.
`StopAnswered` makes one exception, presses that go on for ever: a Stop waits out
the claim under way, and each new press may start another before it looks. The
other modules state safety only: what must happen in them hangs on a network, a
disk or a reader, of which the code may assume nothing. `WorkHasADrainer`,
`FlushKeepsItsWord` and `QuietOnlyWhenDone` say instead that nobody is left waiting
for something that has no one to do it.

### Where comments and code disagree

Two runs expect a violation. In each a comment says more than the code does.

| run | comment | what happens |
|---|---|---|
| `others_answers` | answerQueue.js:26, another reader's kept answers wait for them | a tab still signed in as one reader sends with the cookie of another; the server says 404, and the answer is dropped for good |
| `onboard_signon` | backup_handlers.go:915, the guards make the accounts empty at the swap | the first account made by a single sign-on takes no `backupMu`, lands between the guard and the swap, and goes with the old library |

The models reach others, which no run states:

- held.go:149 says that a mark gone at the second look means stopped. settleHeld
  (held.go:225) also lets go of the mark of a job that ran to its end, and the Stop
  then says it stopped before it started.
- runner.go:1406 says there is no moment in which a job could start between an
  Exclusive's end and Retire. A worker between two turns of its loop (runner.go:530)
  claims one; nothing looks at the retirement there.
- runner.go:982 says the worker cannot come to hold an orphan afterwards. After a
  reset, or a restore that loses its journal, the id is another job's, at work, and
  the late settle (runner.go:986) interrupts its row. So `StoppedNeverWorks`,
  `RunningReadsRunning` and `LivesAsPromised` are checked where ids do not start
  again, or where nobody presses Stop (a delete stops too, but the one account of
  `queue_accounts` takes no new job until its delete ends).
- A Stop all, or the stop of a delete, that cannot settle an orphan gives up on the
  rest of its list (runner.go:1155). A job on that list whose mark it took back,
  since a claim got there first, runs on without a stop; and a press made while it was
  marked, and so not counted, has queued its work again. `NoDuplicateWork` is checked
  and proved where there is no list, or nothing leaves orphans.
- ui.jsx:11786 and 2263 say a Back goes to the surface on top. A Back that a stepping
  sheet takes for one step spends its entry, and backPop (ui.jsx:2311) takes the sheet
  off the stack though it stays open; the next Back moves the page under it.
- backup_handlers.go:1196 says one download, one replacement. A download still on its
  way when a restore succeeds sets its note afterwards (safety_copy.go:356), and that
  note lets the next replacement go ahead with a copy of the library before. The
  `crossed` exception of `CopyCoversWhatGoes` is this.
- A log that could not be folded back, since the checkpoint and the close failed,
  keeps the last transactions; a crash between the rename of the database and the
  rename of its log leaves them apart, and the boot opens the database without them.
  A reset after such a close deletes the log first and may fail to delete the
  database, with the same end. `owed` lets go of the log there.
- A crash in the middle of a swap, or a rollback that fails, leaves no database where
  the boot looks: it makes an empty one, and the server opens in onboarding. A restore
  from there needs no safety note and, on success, sweeps the directory that holds the
  old data. docs/wiki/Troubleshooting.md:267 (TIP-BACKUP-005) tells the operator to
  take it from there first.

## 6. What is proved

Every safety property of every passing run, for every value of the constants under the
assumptions the modules name (`QueueAssumption`, `DataSwapAssumption`,
`AnswerAssumption`, `HistoryAssumption`, `LogbookAssumption`): sets that are not empty,
bounds that are numbers, `NoUid`, `NoWork`, `NoReq` and the like apart from the sets
they are not in, and finitely many admins, of whom 0, the note's nobody, is not one.
What needs more says so: the hypotheses `NoWipeOverAStop` of `JobQueueLifeProofs` and
`EveryStopReaches` of `JobQueueTwinProofs`, below.

None of the properties is inductive. Each module strengthens them to an invariant,
proves that `Init` establishes it and that each action preserves it, one step an action
and one sub-step for each conjunct the action can disturb, and reads the properties off
it. Most actions leave most components alone, so each module first proves who changes
what (`RowsChange`, `HeldChange`, ...), and the other actions are done with in one
step.

### The job queue

Four modules, each building on the one before.

`JobQueueProofs`: `IInv` has the types, that the worker has a job wherever its steps
use one, that a continuation in flight belongs to a running job, that only the
Exclusive inside moves a file, and that no Exclusive is let in past a claim or a job.
From it `TypeCorrect` and `FilesNeverMoveUnderAJob`.

`JobQueueSafetyProofs`: `SInv` joins to it what each part of the queue relies on in
the others. It holds for any set of operations, a Stop beside a reset included.

| theorem | rests on |
|---|---|
| `NoWakeupIsLost` | `Wakeup`: where every goroutine that must still kick is, and what `pending` is worth when a claim comes up empty |
| `MarksComeOff` | `Marks`, `Taking`: a mark names who set it, and the id is still in that Stop's list; a claim holds what it read |
| `SecretsEndWithTheirJobs` | `SecretHeld`, `SecretKept`: a secret is of a job that waits or runs, or of one that somebody is in the middle of ending |
| `RunsAsItsOwner` | `Owners`, `Asking`, `RunsAs`, `Deletes`: a delete that is past its Stop left no job that waits or works for its account, and nobody who inserts one |

`JobQueueLifeProofs`: `LInv` adds where a Stop's ids, the marks and the job in hand
stand to each other. `Marked` says that what a Stop marked is marked by it still or
over; `Promised` that a job the reader was told is stopped is over, or marked by
nobody who may take the mark back, up to the claim that took it; `HandRuns` and
`OrphanOut` that the row in hand reads running, since a Stop that settles an orphan
saw it out of hand. From it `HandReadsRunning`, `StoppedJobsNeverWork`,
`RunsWithItsSecret`, and `JobsLiveAsPromised`: `Init` maps to `JobLife`'s `Init` and
every step to one of its steps or a stutter. There is a lemma for each of its steps,
from the queue's actions that take it:

| JobLife | the queue |
|---|---|
| accept | `InsertJob` |
| set aside | `Mark` (a mark that is taken back is of a row that no longer waits: a stutter) |
| tell | a Stop's second look: `Recheck`, `Resolve` |
| take | `ClaimUpdate` |
| begin an item, end it | `BeginItem`; `FinishItem`, `AbandonItem`, `RunFails` |
| end | `RecordEnd`, `CloseAbandonWrite`, `Orphan` |
| stop what is set aside | `Settle`, wherever it is called: `WorkerSettle`, `Progress`, `SettleSoon`, `SwapBegin`, `CloseSettle` |
| interrupt what waits | `CloseInterrupt` |
| interrupt all | `Restart`, `SwapFiles` of a restore with its journal (of a rollback or a recovery it is a stutter) |
| wipe | `SwapFiles` of a reset, or of a restore without it |

The hypothesis `NoWipeOverAStop` is that no swap starts the ids again, or that nothing
stops a job (no Stop, Stop all or delete). Without it the promises are false of the
code (runner.go:986, section 5), so it is not a convenience of the proof. The runs
`queue_stop`, `queue_crash` and `queue_swap` satisfy it. `queue_accounts` does not, and
its `LivesAsPromised` is TLC's alone: a delete remembers ids over a reset there, and
what makes it hold is that the instance has one account id, which the delete keeps
from new work until it ends.

`JobQueueTwinProofs`: `NoWorkTwice`, that no account has the same work there to run
twice. Two such jobs (twins) do come to be, since the check of an insert does not count
a job that is marked, or stopped in hand, and a mark may be taken back. `OneGoes`
says that of two twins one is on its way out, and `Doomed` lists how: marked; running
in nobody's hands; in hand and told to stop, or its run over; in the hands of a claim
that was told; or about to be reached by a Stop that took its mark back (`Reaching`).
The heart of the proof is `DoomedStays`: whatever the Stop, the claim, a settle or a
swap does next, a doomed job stays doomed or ends. `OneTodo` and `Scoped` say what a
Stop has left to do, `Left` what the operations that are not there rule out. Two
hypotheses:

- `EveryStopReaches`: either no Stop has a list (no Stop all, no delete), or nothing
  leaves orphans (no lock held by others, no Close). Without it a Stop all that fails
  at an orphan gives up on the rest of its list, a twin among them (section 5).
- "continue" is not among the operations. The code does not count a job that continues
  itself (job.go:98), so the property is false there; the invariant is not, and
  `TwinInvariance` has it with such kinds too.

`queue_stop`, which checks `NoDuplicateWork`, satisfies both.

### The logbook

`LogbookProofs`, every property of `logbook`. `Counted` says that the units and the
counts by class kept beside the buffer are the buffer's own: the drop order looks at
them to say whether anything is below a line. `EmptyHands` says that between two
batches the drainer has neither lines nor counts in its hands, and `Arrived` that a
Flush waits for lines that came in. `NothingLostUntold`, `WorkHasADrainer`,
`FlushKeepsItsWord` and `NotForAnother` are conjuncts of the invariant themselves.
`LeastIsDropped` is an action property: what goes is closed under the drop order, since
that order is transitive and the class counts never lag behind the buffer.

### The data directory

`DataSwapProofs`, every invariant of `data_swap`. The invariant follows the one request
that holds `backupMu` (`OneHolder`) through its swap. `Files` has five parts: `OwnLog`
keeps each database beside its own log; `AtRest` says what is there before the first
rename; `Moved` says at each place of the swap for each of the three entries whether it
is where it was, aside, or replaced, so that a rename that fails and a process that
dies anywhere leave one of finitely many pictures, and the boot and the rollback find
what they need; `Owed` where what was set aside is; `Answered` what an answer may say.
`Copies` and `Numbers` bind a note to the library its download read and to one number
nobody spent; `Onboarding` keeps a restore out of a library that somebody signed up to.

### The answer queue

`AnswerQueueProofs`, every property of `answers`. A tab's list may lag behind the
store's and the server's log behind both. `ListsFine` says that each list is increasing
and has no gap but for what has left; `OneMemory` and `AllKept` that until two tabs
write apart one of them at most keeps a list in memory, and that every answer is in
what a tab reads or has left; `RequestsInTurn` and `TakenInTurn` that what is sent, may
still arrive, or was taken has nothing before it that is still kept; `Replies` that a
reply says what the server did. Four lemmas on appending to and removing from
increasing lists carry the argument. `QuietMeansDone` is an action property, proved
from the same invariant.

### The session history

`SessionHistoryProofs`, every property of `history`. Serials count the entries of
their document (`Serials`), which makes a row of the trail name an entry (`Rows`).
While nothing has strayed, `InStep` says what each entry stands on: `Stacked`, for an
entry of a surface or panel the entries right behind it are those it lies on, down to a
screen's; `AllAnswer`; and `Asks`, that at most one traversal is under way and where it
leads. `OneBackOneClosed` compares the stacks before and after the arrival of a Back,
so it needs all three.

### What is only model-checked

- Liveness: `StopAnswered`, `CloseReturns`, `WaitingJobLeaves`, `StoppedJobEnds`.
  Fairness and ENABLED are beyond the prover.
- What the hypotheses above leave out: `LivesAsPromised` and the rest of
  `JobQueueLifeProofs` where a wipe meets a Stop, and `NoDuplicateWork` where a list
  meets an orphan or a kind continues itself. As general statements these are false.
- The two disagreements, which are false.

## 7. What is not modelled

See `PROJECT.json` for each component's reason. Planned parts are in section 2.
Never modelled: markup, wording and layout, the formats the parsers read and write,
the services outside the process, and handlers that are one transaction with no
state of their own, whose interleaving is SQLite's. That is most of the code by
length: the client's screens are forms over one request each, and what order can
break in them is in the hooks and queues of sections 1 and 4.

## Running

    tlc -workers 4 -config MCQueueStop.cfg MCJobQueue
    tlc -workers 4 -config MCSwap.cfg MCDataSwap
    tlapm JobQueueProofs.tla
    tlapm JobQueueSafetyProofs.tla
    tlapm JobQueueLifeProofs.tla
    tlapm JobQueueTwinProofs.tla
    tlapm LogbookProofs.tla
    tlapm DataSwapProofs.tla
    tlapm AnswerQueueProofs.tla
    tlapm SessionHistoryProofs.tla
