----------------------------- MODULE MCWorkQueue -----------------------------
(***************************************************************************)
(* Small instances of WorkQueue.                                           *)
(***************************************************************************)
EXTENDS WorkQueue, TLC

CONSTANTS t1, t2, t3, w1, w2

TaskSymmetry == Permutations(Tasks)
WorkerSymmetry == Permutations(Workers)
==============================================================================
