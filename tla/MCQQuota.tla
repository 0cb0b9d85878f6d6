------------------------------ MODULE MCQQuota ------------------------------
(* QQuota with constants for TLC. *)
EXTENDS QQuota, TLC

(* Rules, values and hosts are interchangeable. *)
QuotaSymmetry ==
  Permutations(Rules) \cup Permutations(Values) \cup Permutations(Hosts)
=============================================================================
