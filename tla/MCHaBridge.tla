------------------------------- MODULE MCHaBridge -------------------------------
(* Small instances of the Home Assistant bridge for TLC. *)
EXTENDS HaBridge

CONSTANTS e1, e2
=============================================================================
