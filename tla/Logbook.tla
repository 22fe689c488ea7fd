------------------------------ MODULE Logbook ------------------------------
(***************************************************************************)
(* The log: a bounded buffer in memory, one drainer that writes it to the  *)
(* database in batches, and the readers and the shutdown that wait for it  *)
(* (internal/jobs/logbook.go, prune.go).                                   *)
(*                                                                         *)
(* A line is its kind, its place in the order of arrival, the generation   *)
(* of the file its job or account was read in, and for an in-request row   *)
(* the name that account had.  Texts, bytes and times are left out: units  *)
(* stand for both bounds.  TIPPANI_LOG_HOLD, a test seam, is left out.     *)
(*                                                                         *)
(* The buffer is the set of the lines that wait; their serials are their   *)
(* order.  The empty shell an evicted line leaves in the slice is left     *)
(* out: nothing reads one, and a slice of shells alone never comes to be,  *)
(* since evictLocked compacts at half and takeLocked passes over them.     *)
(***************************************************************************)
EXTENDS Integers, FiniteSets

CONSTANTS
  Flushers,    \* goroutines that call Flush
  Closer,      \* the shutdown's goroutine
  Kinds,       \* the kinds of line logged: request, info, warn, job, row
  MaxUnits,    \* maxBufferUnits
  BatchUnits,  \* batchUnits
  PruneEvery,  \* pruneEveryBatches
  MaxLines,    \* bound: lines taken in
  MaxDropped,  \* bound: lines lost before no more are logged
  MaxGen,      \* bound: generations of the library's file
  MaxName      \* bound: names the one account id is given to in turn, in a file

ASSUME LogbookAssumption ==
  /\ Closer \notin Flushers
  /\ Kinds \subseteq {"request", "info", "warn", "job", "row"}
  /\ MaxUnits \in Nat \ {0} /\ BatchUnits \in Nat \ {0}
  /\ PruneEvery \in Nat \ {0}
  /\ MaxLines \in Nat /\ MaxDropped \in Nat /\ MaxGen \in Nat \ {0} /\ MaxName \in Nat \ {0}

VARIABLES
  \* Logbook's memory.
  attached,    \* lb.st is there
  closed,
  book,        \* the buffer and the counts kept beside it
  seq,         \* lb.seq
  overflow, failed,             \* lines lost and not yet reported
  pruneWanted, prune, sincePrune,
  \* The drainer.
  dpc, batch,
  carry,       \* inFlightOverflow and inFlightFailed, together
  \* Those who wait.
  waiter,
  \* The library's file, and the name that holds the account id in it.
  gen, holder,
  \* History, read by properties only.
  lost,        \* lines dropped so far
  told,        \* of those, reported by a note that landed
  wrote        \* what the batch in hand put into the file

bookVars  == <<book, seq, overflow>>
pruneVars == <<pruneWanted, prune, sincePrune>>
drainVars == <<dpc, batch, carry>>
fileVars  == <<gen, holder>>
histVars  == <<lost, told, wrote>>
vars == <<attached, closed, bookVars, failed, pruneVars, drainVars, waiter,
          fileVars, histVars>>

Waiters == Flushers \cup {Closer}
Gens    == 1 .. MaxGen
Names   == 1 .. MaxName
Classes == {"low", "mid", "high"}
Rank    == [low |-> 1, mid |-> 2, high |-> 3]
Class(e) == CASE e.kind = "request" -> "low"
              [] e.kind = "info"    -> "mid"
              [] OTHER              -> "high"
\* An in-request job is its row and, here, one line.
Units(e) == IF e.kind = "row" THEN 2 ELSE 1
LinesOf(S) == Cardinality(S) + Cardinality({e \in S : e.kind = "row"})

NoPrune  == 0
PruneEnd == 2            \* its steps are alike: one stands for the four
alive    == dpc # "none"
inFlight == dpc \in {"write", "kept", "lost"}

(***************************************************************************)
(* The buffer.                                                             *)
(***************************************************************************)
EmptyBook == [buf |-> {}, units |-> 0, class |-> [c \in Classes |-> 0]]

\* What evictLocked and takeLocked do for a line that goes, and add for one that comes.
Without(b, S) ==
  [buf   |-> b.buf \ S,
   units |-> b.units - LinesOf(S),
   class |-> [c \in Classes |-> b.class[c] - Cardinality({e \in S : Class(e) = c})]]
WithUncounted(b, e) == [b EXCEPT !.buf = @ \cup {e}]   \* mutant: the units are forgotten
With(b, e) == [buf   |-> b.buf \cup {e},
               units |-> b.units + Units(e),
               class |-> [b.class EXCEPT ![Class(e)] = @ + 1]]

\* oldestBelowLocked: what could go for e, and the order it goes in.
Below(b, e) == {d \in b.buf : b.class[Class(d)] > 0 /\ Rank[Class(d)] < Rank[Class(e)]}
Before(d, e) == \/ Rank[Class(d)] < Rank[Class(e)]
                \/ Class(d) = Class(e) /\ d.seq < e.seq
OldestGo(b, e) ==        \* mutant: the oldest goes, whatever it is worth
  LET Sooner(d) == {c \in b.buf : c.seq < d.seq}
  IN  {d \in b.buf : b.units - LinesOf(Sooner(d)) + Units(e) > MaxUnits}
\* It goes when all that goes before it is not enough.
Victims(b, e) ==
  LET Sooner(d) == {c \in Below(b, e) : Before(c, d)}
  IN  {d \in Below(b, e) : b.units - LinesOf(Sooner(d)) + Units(e) > MaxUnits}

\* takeLocked: the front of the buffer, up to BatchUnits and at least one line.
Batch(b) ==
  LET Front(e) == {d \in b.buf : d.seq <= e.seq}
  IN  {e \in b.buf : LinesOf(Front(e)) <= BatchUnits \/ Front(e) = {e}}

(***************************************************************************)
(* Those who wait, and the drainer's start.                                *)
(***************************************************************************)
SettledInBuffer(b, target) ==    \* mutant: the batch in the drainer's hands is forgotten
  \A e \in b.buf : e.seq > target
\* settledLocked
Settled(b, target) ==
  /\ inFlight => \A e \in batch : e.seq > target
  /\ \A e \in b.buf : e.seq > target

\* signalLocked
Woken == [w \in Waiters |-> IF waiter[w].pc = "wait"
                            THEN [waiter[w] EXCEPT !.pc = "check"] ELSE waiter[w]]

HasWork(b, wanted, run) == b.buf # {} \/ wanted \/ run # NoPrune
StartNone(b, wanted, run, store) == UNCHANGED dpc     \* mutant
\* kickLocked, with no drainer there
Start(b, wanted, run, store) ==
  dpc' = IF ~closed /\ store /\ HasWork(b, wanted, run) THEN "top" ELSE "none"
Kick(b, wanted, run, store) ==
  IF alive THEN UNCHANGED dpc ELSE Start(b, wanted, run, store)

(***************************************************************************)
(* Logging: System, jobLineIn, InRequest, and PruneSoon.                   *)
(***************************************************************************)
Attach ==
  /\ ~attached /\ ~closed /\ waiter[Closer].pc = "idle"
  /\ attached' = TRUE
  /\ Kick(book, pruneWanted, prune, TRUE)
  /\ UNCHANGED <<closed, bookVars, failed, pruneVars, batch, carry, waiter,
                 fileVars, histVars>>

Line(kind, g, n) ==
  [kind |-> kind, seq |-> seq + 1, gen |-> g, name |-> n]
\* A job's id, and an account's, may have been read before a swap.
Lines(kind) ==
  CASE kind = "job" -> {Line(kind, g, 0) : g \in 1 .. gen}
    [] kind = "row" -> {Line(kind, gen, holder)}
                         \cup {Line(kind, g, 1) : g \in 1 .. gen - 1}
    [] OTHER        -> {Line(kind, 1, 0)}

\* add.  A closed logbook keeps nothing.
Log(e) ==
  /\ seq < MaxLines /\ lost <= MaxDropped
  /\ ~closed
  /\ LET out  == Victims(book, e)
         room == Without(book, out)
         fits == room.units + Units(e) <= MaxUnits
         dropped == LinesOf(out) + (IF fits THEN 0 ELSE Units(e))
     IN  /\ book' = IF fits THEN With(room, e) ELSE room
         /\ seq' = IF fits THEN seq + 1 ELSE seq
         /\ overflow' = overflow + dropped
         /\ lost' = lost + dropped
         /\ waiter' = IF out # {} THEN Woken ELSE waiter
         /\ IF fits THEN Kick(book', pruneWanted, prune, attached) ELSE UNCHANGED dpc
  /\ UNCHANGED <<attached, closed, failed, pruneVars, batch, carry, fileVars,
                 told, wrote>>

PruneSoon ==
  /\ ~closed
  /\ pruneWanted' = TRUE
  /\ Kick(book, TRUE, prune, attached)
  /\ UNCHANGED <<attached, closed, bookVars, failed, prune, sincePrune, batch,
                 carry, waiter, fileVars, histVars>>

(***************************************************************************)
(* The drainer.                                                            *)
(***************************************************************************)
PruneDue == prune # NoPrune \/ pruneWanted      \* nextPruneLocked

DrainerLeaves ==
  /\ dpc = "top"
  /\ closed \/ (book.buf = {} /\ ~PruneDue)
  /\ dpc' = "none"
  /\ waiter' = Woken
  /\ UNCHANGED <<attached, closed, bookVars, failed, pruneVars, batch, carry,
                 fileVars, histVars>>

BeginChunk ==
  /\ dpc = "top" /\ ~closed
  /\ PruneDue
  /\ sincePrune >= PruneEvery \/ book.buf = {}
  /\ prune' = IF prune = NoPrune THEN 1 ELSE prune
  /\ pruneWanted' = (prune # NoPrune /\ pruneWanted)
  /\ sincePrune' = 0
  /\ dpc' = "chunk"
  /\ UNCHANGED <<attached, closed, bookVars, failed, batch, carry, waiter,
                 fileVars, histVars>>

\* A chunk that comes back short moves the prune on; one that fails ends it.
EndChunk ==
  /\ dpc = "chunk"
  /\ dpc' = "top"
  /\ prune' \in IF closed THEN {NoPrune} ELSE {NoPrune, prune, (prune + 1) % PruneEnd}
  /\ UNCHANGED <<attached, closed, bookVars, failed, pruneWanted, sincePrune,
                 batch, carry, waiter, fileVars, histVars>>

TakeBatch ==
  /\ dpc = "top" /\ ~closed
  /\ ~(PruneDue /\ sincePrune >= PruneEvery)
  /\ book.buf # {}
  /\ batch' = Batch(book)
  /\ book' = Without(book, Batch(book))
  /\ carry' = [over |-> overflow, fail |-> failed]
  /\ overflow' = 0 /\ failed' = 0
  /\ sincePrune' = IF sincePrune < PruneEvery THEN sincePrune + 1 ELSE PruneEvery
  /\ dpc' = "write"
  /\ UNCHANGED <<attached, closed, seq, pruneWanted, prune, waiter, fileVars,
                 histVars>>

\* Mutant: no generation is compared.
WrittenAnyway == {[e |-> e, file |-> gen, owner |-> e.name] : e \in batch}
\* writeBatch: a job's line only into the file of its id; a row with its owner only
\* if the file is the request's and the id still has that name.
Written ==
  {[e |-> e, file |-> gen, owner |-> IF e.gen = gen /\ e.name = holder THEN holder ELSE 0] :
     e \in {d \in batch : d.kind = "job" => d.gen = gen}}

WriteBatch ==
  /\ dpc = "write"
  /\ dpc' = "kept"
  /\ wrote' = Written
  /\ told' = told + carry.over + carry.fail
  /\ UNCHANGED <<attached, closed, bookVars, failed, pruneVars, batch, carry,
                 waiter, fileVars, lost>>

\* Busy past every retry, a closed pool, a full disk.
WriteFails ==
  /\ dpc = "write"
  /\ dpc' = "lost"
  /\ lost' = lost + LinesOf(batch)
  /\ UNCHANGED <<attached, closed, bookVars, failed, pruneVars, batch, carry,
                 waiter, fileVars, told, wrote>>

EndBatch ==
  /\ dpc \in {"kept", "lost"}
  /\ IF dpc = "lost"
     THEN /\ overflow' = overflow + carry.over
          /\ failed' = failed + carry.fail + LinesOf(batch)
          /\ UNCHANGED pruneWanted
     ELSE /\ pruneWanted' \in {pruneWanted, TRUE}      \* the last one is an hour old
          /\ UNCHANGED <<overflow, failed>>
  /\ dpc' = "top"
  /\ batch' = {} /\ wrote' = {} /\ carry' = [over |-> 0, fail |-> 0]
  /\ waiter' = Woken
  /\ UNCHANGED <<attached, closed, book, seq, prune, sincePrune, fileVars,
                 lost, told>>

\* Mutant: the counts the batch took with it are not put back.
PanicForgets == /\ UNCHANGED overflow
                /\ failed' = failed + LinesOf(batch)
PanicCounts == /\ overflow' = overflow + carry.over
               /\ failed' = failed + carry.fail + LinesOf(batch)
\* The drainer panics, in a write or in a chunk of a prune, and starts again if work
\* is left.
DrainerPanics ==
  /\ dpc \in {"write", "chunk"}
  /\ PanicCounts
  /\ lost' = lost + LinesOf(batch)
  /\ prune' = NoPrune
  /\ batch' = {} /\ carry' = [over |-> 0, fail |-> 0]
  /\ waiter' = Woken
  /\ Start(book, pruneWanted, NoPrune, attached)
  /\ UNCHANGED <<attached, closed, book, seq, pruneWanted, sincePrune, fileVars,
                 told, wrote>>

(***************************************************************************)
(* Flush, and Close, which is a Flush and then the end of the logbook.     *)
(***************************************************************************)
FlushStart(w) ==
  /\ w \in Flushers
  /\ waiter[w].pc \in {"idle", "answered"}
  /\ waiter' = [waiter EXCEPT ![w] = [pc |-> "check", target |-> seq]]
  /\ UNCHANGED <<attached, closed, bookVars, failed, pruneVars, drainVars,
                 fileVars, histVars>>

FlushCheck(w) ==
  /\ waiter[w].pc = "check"
  /\ waiter' = [waiter EXCEPT ![w].pc =
                  IF Settled(book, waiter[w].target) THEN "answered" ELSE "wait"]
  /\ UNCHANGED <<attached, closed, bookVars, failed, pruneVars, drainVars,
                 fileVars, histVars>>

FlushGivesUp(w) ==     \* its ctx ended
  /\ waiter[w].pc = "wait"
  /\ waiter' = [waiter EXCEPT ![w] = [pc |-> IF w = Closer THEN "late" ELSE "idle",
                                      target |-> 0]]
  /\ UNCHANGED <<attached, closed, bookVars, failed, pruneVars, drainVars,
                 fileVars, histVars>>

CloseStart ==
  /\ waiter[Closer].pc = "idle"
  /\ Kick(book, pruneWanted, prune, attached)
  /\ waiter' = [waiter EXCEPT ![Closer] = [pc |-> "check", target |-> seq]]
  /\ UNCHANGED <<attached, closed, bookVars, failed, pruneVars, batch, carry,
                 fileVars, histVars>>

CloseEnd ==
  /\ waiter[Closer].pc \in {"answered", "late"}
  /\ ~closed
  /\ closed' = TRUE
  /\ attached' = FALSE
  /\ book' = EmptyBook
  /\ pruneWanted' = FALSE /\ prune' = NoPrune
  /\ waiter' = Woken
  /\ UNCHANGED <<seq, overflow, failed, sincePrune, drainVars, fileVars, histVars>>

(***************************************************************************)
(* The file under the log: a swap, and the account id given to another.    *)
(***************************************************************************)
Swap ==
  /\ ~closed
  /\ gen < MaxGen
  /\ gen' = gen + 1
  /\ holder' \in Names
  /\ UNCHANGED <<attached, closed, bookVars, failed, pruneVars, drainVars, waiter,
                 histVars>>

\* The account is deleted, and its id given to another name.
HandOver ==
  /\ ~closed
  /\ holder < MaxName
  /\ holder' = holder + 1
  /\ UNCHANGED <<attached, closed, bookVars, failed, pruneVars, drainVars, waiter,
                 gen, histVars>>

Init ==
  /\ attached = FALSE /\ closed = FALSE
  /\ book = EmptyBook
  /\ seq = 0 /\ overflow = 0 /\ failed = 0
  /\ pruneWanted = FALSE /\ prune = NoPrune /\ sincePrune = 0
  /\ dpc = "none" /\ batch = {} /\ carry = [over |-> 0, fail |-> 0]
  /\ waiter = [w \in Waiters |-> [pc |-> "idle", target |-> 0]]
  /\ gen = 1 /\ holder = 1
  /\ lost = 0 /\ told = 0 /\ wrote = {}

DrainStep == \/ DrainerLeaves \/ BeginChunk \/ EndChunk \/ TakeBatch \/ WriteBatch
             \/ WriteFails \/ EndBatch \/ DrainerPanics

Next ==
  \/ Attach \/ PruneSoon
  \/ \E kind \in Kinds : \E e \in Lines(kind) : Log(e)
  \/ DrainStep
  \/ \E w \in Waiters : FlushStart(w) \/ FlushCheck(w) \/ FlushGivesUp(w)
  \/ CloseStart \/ CloseEnd
  \/ Swap \/ HandOver

Spec == Init /\ [][Next]_vars

(***************************************************************************)
(* Properties.                                                             *)
(***************************************************************************)
Entry == [kind : Kinds, seq : 1 .. MaxLines, gen : Gens, name : Names \cup {0}]

TypeOK ==
  /\ attached \in BOOLEAN /\ closed \in BOOLEAN
  /\ book \in [buf : SUBSET Entry, units : 0 .. MaxUnits, class : [Classes -> Nat]]
  /\ seq \in 0 .. MaxLines
  /\ overflow \in Nat /\ failed \in Nat
  /\ pruneWanted \in BOOLEAN /\ prune \in 0 .. PruneEnd - 1
  /\ sincePrune \in 0 .. PruneEvery
  /\ dpc \in {"none", "top", "write", "kept", "lost", "chunk"}
  /\ batch \subseteq Entry
  /\ carry \in [over : Nat, fail : Nat]
  /\ waiter \in [Waiters -> [pc : {"idle", "check", "wait", "answered", "late"},
                             target : 0 .. MaxLines]]
  /\ gen \in Gens /\ holder \in Names
  /\ lost \in Nat /\ told \in Nat

\* A line that is not kept is owed to the reader until a note about it landed, once:
\* through failed batches, panics and evictions no count is lost or reported twice.
NothingLostUntold ==
  ~closed => lost = told + overflow + failed
                      + (IF dpc \in {"write", "lost"} THEN carry.over + carry.fail ELSE 0)
                      + (IF dpc = "lost" THEN LinesOf(batch) ELSE 0)

LeastGoes ==
  \A e \in book.buf \ book.buf' :
    ~closed' /\ e \notin batch' =>
      \A d \in book.buf \cap book.buf' : Rank[Class(d)] >= Rank[Class(e)]
\* What matters least goes first: a line that goes for want of room leaves none of a
\* lower class waiting.
LeastGoesFirst == [][LeastGoes]_vars

\* No lost wakeup: with a store to write to, what waits, a prune asked for among it,
\* has a drainer.
WorkHasADrainer ==
  attached /\ ~closed /\ (book.buf # {} \/ pruneWanted \/ prune # NoPrune) => alive

\* A Flush never sleeps on when there is nothing left for it to wait for.
FlushIsWoken ==
  \A w \in Waiters : waiter[w].pc = "wait" => ~Settled(book, waiter[w].target)

\* A Flush that answered finds every line logged before it written or counted: none is
\* in the buffer, and none in a batch whose write is not over.
FlushedIsWritten ==
  \A w \in Waiters : waiter[w].pc = "answered" =>
    /\ \A e \in book.buf : e.seq > waiter[w].target
    /\ dpc = "write" => \A e \in batch : e.seq > waiter[w].target

\* A Flush keeps its word, to the one that waits and to the one it answered.
FlushKeepsItsWord == FlushIsWoken /\ FlushedIsWritten

\* Job ids and account ids are reused: no batch, however long it waited for the lock
\* and whatever was restored or deleted meanwhile, gives a line to another job or a
\* row to another account.
NotForAnother ==
  \A x \in wrote :
    /\ x.e.kind = "job" => x.e.gen = x.file
    /\ x.e.kind = "row" /\ x.owner # 0 => x.e.gen = x.file /\ x.e.name = x.owner
=============================================================================
