----------------------------- MODULE MCJobQueue -----------------------------
(* Instances of JobQueue for TLC.                                          *)
EXTENDS JobQueue, TLC

\* Sound for the runs without a liveness property: no action tells one request, one
\* kind of work or one reader who is no admin from another.
Interchangeable == Permutations(Requests) \cup Permutations(Works)
                     \cup Permutations(Uids \ Admins)
=============================================================================
