------------------------------ MODULE MCLogging ------------------------------
(* Logging with constants for TLC. *)
EXTENDS Logging, TLC

(* Threads are interchangeable. *)
ThreadSymmetry == Permutations(Threads)
=============================================================================
