---------------------------- MODULE MCDecisionLedger ----------------------------
(* Small instances of the decision ledger for TLC. *)
EXTENDS DecisionLedger, TLC

CONSTANTS d1, d2, before, after, api, worker
=============================================================================
