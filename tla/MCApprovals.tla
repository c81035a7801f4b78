----------------------------- MODULE MCApprovals -----------------------------
(***************************************************************************)
(* Small instances of Approvals.                                           *)
(***************************************************************************)
EXTENDS Approvals, TLC

CONSTANTS a1, a2, b1, b2, r1, r2

TwoTasks == {1, 2}
RequestSymmetry == Permutations(Requests)
==============================================================================
