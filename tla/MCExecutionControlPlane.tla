----------------------- MODULE MCExecutionControlPlane -----------------------
(* Small instances of the scheduling control plane for TLC. *)
EXTENDS ExecutionControlPlane

CONSTANTS w1, w2, c1, c2, s1, s2

OneIdEach == [w \in Workers |-> w]
SharedId == [w \in Workers |-> w1]

\* Due at every odd time, and every time.
Odd == [t \in Time |-> IF t % 2 = 0 THEN t + 1 ELSE t + 2]
Once == [t \in Time |-> IF t = 0 THEN 1 ELSE MaxTime + 1]
=============================================================================
