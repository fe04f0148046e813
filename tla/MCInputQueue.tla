---------------------------- MODULE MCInputQueue ----------------------------
(* An instance of InputQueue for TLC. *)
EXTENDS InputQueue
=============================================================================
