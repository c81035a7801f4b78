------------------------------ MODULE MCSprints ------------------------------
(***************************************************************************)
(* Small instances of Sprints.                                             *)
(***************************************************************************)
EXTENDS Sprints, TLC

CONSTANTS t1, t2, qa, security, api, api2, worker

OneSprint  == {1}
TwoSprints == {1, 2}
TaskSymmetry == Permutations(Tasks)
ApiSymmetry == Permutations(Requests \ {Worker})
Symmetry == Permutations(Tasks) \cup Permutations(Requests \ {Worker}) \cup Permutations(Roles)
==============================================================================
