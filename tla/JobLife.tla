------------------------------ MODULE JobLife ------------------------------
(***************************************************************************)
(* What the job queue promises a reader of a job, whatever the queue does  *)
(* to keep it: a job waits, is taken in its turn and ends once; only one   *)
(* works at a time; a job set aside by a Stop is passed over, and one the  *)
(* reader was told is stopped never begins an item of its work.            *)
(* JobQueue implements it (JobQueue!Life).                                 *)
(***************************************************************************)
EXTENDS Naturals

CONSTANTS Ids,      \* job ids, in the order the queue hands them out
          NoJob

VARIABLES
  life,     \* by job id: absent, queued, running or how it ended
  aside,    \* the waiting jobs a Stop has set aside
  told,     \* the jobs a reader was told will not start
  doing     \* the job at work on an item, or NoJob

vars == <<life, aside, told, doing>>

Ended   == {"succeeded", "failed", "stopped", "interrupted"}
Waiting == {i \in Ids : life[i] = "queued"}
Running == {i \in Ids : life[i] = "running"}
Becomes(S, state) == life' = [i \in Ids |-> IF i \in S THEN state ELSE life[i]]

Init ==
  /\ life = [i \in Ids |-> "absent"]
  /\ aside = {} /\ told = {}
  /\ doing = NoJob

Accept ==
  /\ \E i \in Ids : /\ \A k \in Ids : (k < i) <=> (life[k] # "absent")
                    /\ Becomes({i}, "queued")
  /\ UNCHANGED <<aside, told, doing>>

SetAside ==
  /\ aside \subseteq aside'
  /\ aside' \subseteq Waiting
  /\ UNCHANGED <<life, told, doing>>

\* The reader is told; of the job at work nobody is told that, unless the queue has
\* given it up.
Tell(i) ==
  /\ i = doing => i \notin Running
  /\ told' = told \cup {i}
  /\ UNCHANGED <<life, aside, doing>>

\* First in, first out, past the jobs set aside.  A job set aside too late for the
\* claim is taken all the same.
Take(i) ==
  /\ i \in Waiting
  /\ \A k \in Waiting \ aside : i <= k
  /\ Becomes({i}, "running")
  /\ aside' = aside \ {i}
  /\ UNCHANGED <<told, doing>>

BeginItem(i) ==
  /\ doing = NoJob
  /\ i \in Running \ told
  /\ doing' = i
  /\ UNCHANGED <<life, aside, told>>

EndItem ==
  /\ doing' = NoJob
  /\ UNCHANGED <<life, aside, told>>

\* The end of a job that ran; one that is given up may still be at its item.
End(i, how) ==
  /\ i \in Running
  /\ how = "interrupted" \/ i # doing
  /\ Becomes({i}, how)
  /\ UNCHANGED <<aside, told, doing>>

\* What was set aside is over, all of it.
StopAside ==
  /\ Becomes(aside, "stopped")
  /\ aside' = {}
  /\ UNCHANGED <<told, doing>>

\* The server stops, or its file is replaced: what waits, or all there is.
InterruptWaiting ==
  /\ Becomes(Waiting, "interrupted")
  /\ aside' = {}
  /\ UNCHANGED <<told, doing>>

InterruptAll ==
  /\ Becomes(Waiting \cup Running, "interrupted")
  /\ aside' = {}
  /\ doing' = NoJob
  /\ UNCHANGED told

\* The library is replaced by an empty one, or by one without its history.
Wipe ==
  /\ doing = NoJob
  /\ Becomes(Ids, "absent")
  /\ aside' = {} /\ told' = {}
  /\ UNCHANGED doing

Next ==
  \/ Accept \/ SetAside \/ EndItem
  \/ StopAside \/ InterruptWaiting \/ InterruptAll \/ Wipe
  \/ \E i \in Ids : Tell(i) \/ Take(i) \/ BeginItem(i) \/ \E how \in Ended : End(i, how)

Spec == Init /\ [][Next]_vars
=============================================================================
