--------------------------- MODULE DispatchLedger ---------------------------
(***************************************************************************)
(* What the scheduling control plane promises about one dispatch, without  *)
(* clocks, leases, transactions or processes: it is issued once, granted   *)
(* to one holder, and settled for good, either by that holder or by being  *)
(* forfeited; a forfeited dispatch has at most one heir, queued in the     *)
(* same step.  An operator may override a dispatch by hand, and the        *)
(* promises are then off for that dispatch alone.                          *)
(***************************************************************************)
EXTENDS Integers

CONSTANTS Dispatch, Holders, NoOne, None

VARIABLES status, holder, heirOf, overridden

lvars == <<status, holder, heirOf, overridden>>

Init ==
  /\ status = [d \in Dispatch |-> "absent"]
  /\ holder = [d \in Dispatch |-> NoOne]
  /\ heirOf = [d \in Dispatch |-> None]
  /\ overridden = {}

Issue(new) ==
  /\ \A d \in new : status[d] = "absent"
  /\ status' = [d \in Dispatch |-> IF d \in new THEN "enqueued" ELSE status[d]]
  /\ UNCHANGED <<holder, heirOf, overridden>>

Grant(d, h) ==
  /\ status[d] = "enqueued"
  /\ status' = [status EXCEPT ![d] = "running"]
  /\ holder' = [holder EXCEPT ![d] = h]
  /\ UNCHANGED <<heirOf, overridden>>

Settle(d, result) ==
  /\ status[d] = "running"
  /\ status' = [status EXCEPT ![d] = result]
  /\ UNCHANGED <<holder, heirOf, overridden>>

\* Some held dispatches are forfeited; heir sends new dispatches to those of
\* them that get one.
Forfeit(lost, heir) ==
  /\ \A d \in lost : status[d] = "running"
  /\ \A n \in DOMAIN heir : status[n] = "absent" /\ heir[n] \in lost
  /\ \A m, n \in DOMAIN heir : heir[m] = heir[n] => m = n
  /\ status' = [d \in Dispatch |-> IF d \in DOMAIN heir THEN "enqueued"
                                   ELSE IF d \in lost THEN "failed" ELSE status[d]]
  /\ heirOf' = [d \in Dispatch |-> IF d \in DOMAIN heir THEN heir[d] ELSE heirOf[d]]
  /\ UNCHANGED <<holder, overridden>>

Override(d) ==
  /\ status[d] # "absent"
  /\ \E s \in {"enqueued", "running", "completed", "failed"}, h \in Holders \cup {NoOne} :
        /\ status' = [status EXCEPT ![d] = s]
        /\ holder' = [holder EXCEPT ![d] = h]
  /\ overridden' = overridden \cup {d}
  /\ UNCHANGED heirOf

Next ==
  \/ \E new \in SUBSET Dispatch : Issue(new)
  \/ \E d \in Dispatch, h \in Holders : Grant(d, h)
  \/ \E d \in Dispatch, result \in {"completed", "failed"} : Settle(d, result)
  \/ \E lost \in SUBSET Dispatch : \E heirs \in SUBSET Dispatch :
        \E heir \in [heirs -> lost] : Forfeit(lost, heir)
  \/ \E d \in Dispatch : Override(d)

Spec == Init /\ [][Next]_lvars
=============================================================================
