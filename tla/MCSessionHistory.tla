-------------------------- MODULE MCSessionHistory --------------------------
(* Instances of SessionHistory for TLC. *)
EXTENDS SessionHistory
=============================================================================
