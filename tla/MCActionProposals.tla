--------------------------- MODULE MCActionProposals ---------------------------
(* Small instances of the action proposal queue for TLC. *)
EXTENDS ActionProposals, TLC

CONSTANTS r1, r2, r3, d1, a, b, k

\* The breach that only drafts report differs from "breach" in its metadata.
Verdict == [v \in Values |-> IF v = "breach+" THEN "breach" ELSE v]

RequestSymmetry == Permutations(Requests)
=============================================================================
