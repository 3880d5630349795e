---------------------------- MODULE MCProposalFeed ----------------------------
(* Small instances of the changes feed for TLC. *)
EXTENDS ProposalFeed, TLC

CONSTANTS w1, w2, r1, r2, p1, p2

\* One reader follows the queue, the other one proposal.
OneOfEach == (r1 :> Proposals) @@ (r2 :> {p1})
===============================================================================
