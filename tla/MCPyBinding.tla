----------------------------- MODULE MCPyBinding -----------------------------
(* PyBinding with constants for TLC. *)
EXTENDS PyBinding, TLC

(* Objects are interchangeable, and so are names. *)
PySymmetry == Permutations(Objects) \cup Permutations(Names)
=============================================================================
