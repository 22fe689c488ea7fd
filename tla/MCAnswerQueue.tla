--------------------------- MODULE MCAnswerQueue ---------------------------
(* Instances of AnswerQueue for TLC. *)
EXTENDS AnswerQueue, TLC

\* Sound for the run without a liveness property: no action tells one tab from
\* another.
AnyTab == Permutations(Tabs)
=============================================================================
