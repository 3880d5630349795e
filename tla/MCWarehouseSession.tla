--------------------------- MODULE MCWarehouseSession ---------------------------
(* Small instances of the warehouse session manager for TLC. *)
EXTENDS WarehouseSession

CONSTANTS t1, t2, t3
=============================================================================
