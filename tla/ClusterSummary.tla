---------------------------- MODULE ClusterSummary ----------------------------
(***************************************************************************)
(* nativeFillClusterQueueSummary (pygdi_qstat.c): qstat_cqueue_summary     *)
(* calls pygdi_qstat_cqueue_summary for each cluster queue, which builds   *)
(* an object and adds it to the caller's list.                             *)
(*                                                                         *)
(* qstat_cqueue_summary is not in this repository.  It is taken to report  *)
(* the cluster queues one after the other and to stop when the handler     *)
(* returns -1; it may fail by itself.                                      *)
(***************************************************************************)

CONSTANTS ClusterQueues  \* the cluster queues the filters select

VARIABLES
  cq_pc,     \* where the native is
  cq_ret,    \* its ret
  cq_result, \* cq_ctx.result
  cq_list,   \* the cluster queues whose objects are in the caller's list
  cq_left,   \* those qstat_cqueue_summary has not reported (external)
  cq_failed, \* "handler" or "driver" when one of them failed
  cq_thrown  \* whether the native threw

clusterVars == <<cq_pc, cq_ret, cq_result, cq_list, cq_left, cq_failed, cq_thrown>>

ClusterTypeOK ==
  /\ cq_pc \in {"env", "summary", "error", "done"}
  /\ cq_ret \in {"SUCCESS", "ERROR"}
  /\ cq_result \in {"SUCCESS", "ERROR"}
  /\ cq_list \subseteq ClusterQueues
  /\ cq_left \subseteq ClusterQueues
  /\ cq_failed \in {"none", "handler", "driver"}
  /\ cq_thrown \in BOOLEAN

ClusterInit ==
  /\ cq_pc = "env" /\ cq_ret = "SUCCESS" /\ cq_result = "SUCCESS"
  /\ cq_list = {} /\ cq_left = ClusterQueues
  /\ cq_failed = "none" /\ cq_thrown = FALSE

-----------------------------------------------------------------------------
(* The GDI context and the qstat_env. *)
ClusterSetup ==
  /\ cq_pc = "env"
  /\ \/ cq_pc' = "summary" /\ UNCHANGED cq_ret
     \/ cq_pc' = "error" /\ cq_ret' = "ERROR"
  /\ UNCHANGED <<cq_result, cq_list, cq_left, cq_failed, cq_thrown>>

Summarizing == cq_pc = "summary" /\ cq_failed = "none"

(* Faulty: a queue whose object cannot be built is left out. *)
ReportCqueueFails_Skips ==
  /\ Summarizing
  /\ \E q \in cq_left : cq_left' = cq_left \ {q}
  /\ cq_result' = "SUCCESS"
  /\ UNCHANGED <<cq_pc, cq_ret, cq_list, cq_failed, cq_thrown>>

(* pygdi_qstat_cqueue_summary: the object, its name, load and counts, and  *)
(* the list; any of them may fail.                                         *)
ReportCqueue ==
  /\ Summarizing
  /\ \E q \in cq_left :
       cq_left' = cq_left \ {q} /\ cq_list' = cq_list \cup {q}
  /\ cq_result' = "SUCCESS"
  /\ UNCHANGED <<cq_pc, cq_ret, cq_failed, cq_thrown>>

ReportCqueueFails ==
  /\ Summarizing
  /\ \E q \in cq_left : cq_left' = cq_left \ {q}
  /\ cq_result' = "ERROR" /\ cq_failed' = "handler"
  /\ UNCHANGED <<cq_pc, cq_ret, cq_list, cq_thrown>>

(* qstat_cqueue_summary fails by itself. *)
SummaryFails ==
  /\ Summarizing
  /\ cq_failed' = "driver"
  /\ UNCHANGED <<cq_pc, cq_ret, cq_result, cq_list, cq_left, cq_thrown>>

(* It returns; what it returns is not looked at. *)
SummaryReturns ==
  /\ cq_pc = "summary" /\ (cq_left = {} \/ cq_failed # "none")
  /\ cq_ret' = IF cq_result # "SUCCESS" THEN cq_result ELSE cq_ret
  /\ cq_pc' = "error"
  /\ UNCHANGED <<cq_result, cq_list, cq_left, cq_failed, cq_thrown>>

(* The label error. *)
ClusterReturn ==
  /\ cq_pc = "error"
  /\ cq_thrown' = (cq_ret # "SUCCESS")
  /\ cq_pc' = "done"
  /\ UNCHANGED <<cq_ret, cq_result, cq_list, cq_left, cq_failed>>

ClusterNext ==
  \/ ClusterSetup
  \/ ReportCqueue \/ ReportCqueueFails \/ SummaryFails
  \/ SummaryReturns \/ ClusterReturn

ClusterSpec == ClusterInit /\ [][ClusterNext]_clusterVars

-----------------------------------------------------------------------------
(* A caller who sees no exception has every cluster queue in its list,     *)
(* although each callback overwrites the result of the one before and the  *)
(* list is filled as it goes, or the driver failed by itself, which        *)
(* nothing records.                                                        *)
ClusterListComplete ==
  cq_pc = "done" /\ ~cq_thrown => cq_failed = "driver" \/ cq_list = ClusterQueues

(* The inductive invariant: a cluster queue is in the list, still to come, *)
(* or its callback failed and said so, and ret says so once it is known.   *)
ClusterIInv ==
  /\ ClusterTypeOK /\ ClusterListComplete
  /\ cq_failed = "none" => cq_list \cup cq_left = ClusterQueues
  /\ cq_failed = "handler" <=> cq_result = "ERROR"
  /\ cq_pc = "env" => cq_ret = "SUCCESS"
  /\ cq_pc = "error" /\ cq_ret = "SUCCESS" =>
       cq_failed = "driver" \/ cq_list = ClusterQueues

-----------------------------------------------------------------------------
(* The report promised to the caller. *)
ClusterPromise == INSTANCE ReportPromise WITH
  Items <- ClusterQueues,
  given <- cq_list,
  broken <- IF cq_failed = "driver" THEN "unrecorded"
            ELSE IF cq_failed = "handler" \/ cq_ret # "SUCCESS" THEN "recorded" ELSE "no",
  ended <- IF cq_pc # "done" THEN "no" ELSE IF cq_thrown THEN "thrown" ELSE "returned"

(* Each cluster queue is given to the caller once, none after the handler  *)
(* or the driver failed, and the native throws exactly for the failures of *)
(* its setup and of the handler.                                           *)
ImplementsClusterReport == ClusterPromise!Spec
=============================================================================
