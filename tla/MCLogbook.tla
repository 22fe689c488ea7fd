----------------------------- MODULE MCLogbook -----------------------------
(* Instances of Logbook for TLC.                                           *)
EXTENDS Logbook
=============================================================================
