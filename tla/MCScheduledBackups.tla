--------------------------- MODULE MCScheduledBackups ---------------------------
(* Small instances of the scheduled backups for TLC. *)
EXTENDS ScheduledBackups

CONSTANTS i1, i2, loop, operator
=============================================================================
