----------------------------- MODULE MCQstatCall -----------------------------
(* QstatCall with constants for TLC. *)
EXTENDS QstatCall, TLC

(* Queues, jobs, names and cluster queues are interchangeable. *)
QstatSymmetry ==
  Permutations(Queues) \cup Permutations(Jobs) \cup Permutations(Names)
  \cup Permutations(ClusterQueues)
=============================================================================
