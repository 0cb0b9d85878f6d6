---------------------------- MODULE MCEventClient ----------------------------
(* Symmetry of the instances TLC checks. *)
EXTENDS EventClient, TLC

ThreadSymmetry == Permutations(Threads)
(* Where all clients are in qmaster. *)
BothSymmetry == Permutations(Threads) \cup Permutations(Clients)
==============================================================================
