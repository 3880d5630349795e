----------------------------- MODULE ProposalQueue -----------------------------
(***************************************************************************)
(* What the proposal queue promises: a gate per proposal that opens and    *)
(* closes only by recorded events.  A proposal is resolved only while it   *)
(* is pending, one resolution counts, and it is pending again only through *)
(* a recorded re-raise or a recorded failure of its release.               *)
(***************************************************************************)
EXTENDS Sequences

CONSTANTS Proposals

VARIABLES status,   \* of each proposal
          log       \* the recorded events, in the order they took effect

Resolutions == {"approved", "dismissed"}
Kinds == {"drafted", "refreshed", "reopened", "release_failed"} \cup Resolutions

StatusAfter(kind) == IF kind \in Resolutions THEN kind ELSE "pending"

Allowed(kind) ==
  CASE kind = "drafted" -> {"absent"}
    [] kind \in {"refreshed", "approved", "dismissed"} -> {"pending"}
    [] kind \in {"reopened", "release_failed"} -> Resolutions

Init ==
  /\ status = [i \in Proposals |-> "absent"]
  /\ log = <<>>

Record(i, kind) ==
  /\ status[i] \in Allowed(kind)
  /\ status' = [status EXCEPT ![i] = StatusAfter(kind)]
  /\ log' = Append(log, [id |-> i, kind |-> kind])

Next == \E i \in Proposals, kind \in Kinds : Record(i, kind)

Spec == Init /\ [][Next]_<<status, log>>
=============================================================================
