------------------------------ MODULE MCIngestion ------------------------------
(* Small instances of the ingestion for TLC: the statements a and b overlap   *)
(* in t1, which only b describes, and in t2, which they describe differently; *)
(* t3 is in b alone; bad breaks its contract.                                 *)
EXTENDS Ingestion, TLC

Statements == [a   |-> [t1 |-> Blank, t2 |-> "flat"],
               b   |-> [t1 |-> "rent", t2 |-> "home", t3 |-> "rent"],
               bad |-> [t2 |-> Blank]]
Held1 == "f1" :> "b"
Held2 == "f1" :> "a" @@ "f2" :> "b"
=============================================================================
