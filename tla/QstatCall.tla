------------------------------ MODULE QstatCall ------------------------------
(***************************************************************************)
(* A call of one of the two qstat natives (pygdi_qstat.c): the options     *)
(* become a qstat_env (QstatEnv), and the qstat_env a report, of the queue *)
(* instances (QstatReport) or of the cluster queues (ClusterSummary).      *)
(***************************************************************************)
EXTENDS QstatReport, QstatEnv, ClusterSummary

callVars == <<vars, envVars, clusterVars>>

CallTypeOK == TypeOK /\ EnvTypeOK /\ ClusterTypeOK

CallInit == Init /\ EnvInit /\ ClusterInit

-----------------------------------------------------------------------------
(* The env is under way until it is ready or has failed; the queue         *)
(* instance native checks once in between, before it reads what to show.   *)
EnvStep ==
  /\ \/ native = "instance" /\ pc = IF phase = "show" THEN "options" ELSE "filters"
     \/ native = "cluster" /\ cq_pc = "env"
  /\ EnvNext
  /\ UNCHANGED <<vars, clusterVars>>

(* What the env has come to decides how the native goes on.  Behind the    *)
(* options there is pygdi_qstat_job_init, which may fail as well.          *)
AfterFilters ==
  /\ phase \in {"show", "failed"}
  /\ SetupFilters
  /\ pc' = IF phase = "show" THEN "options" ELSE "error"

AfterOptions ==
  /\ phase \in {"ready", "failed"}
  /\ SetupOptions
  /\ phase = "failed" => pc' = "error"

InstanceStep ==
  /\ native = "instance"
  /\ \/ AfterFilters
     \/ AfterOptions
     \/ QueueHandler \/ JobHandler \/ ListHandler
     \/ WalkFails \/ QstatReturns \/ Return
  /\ UNCHANGED <<envVars, clusterVars>>

AfterEnv ==
  /\ phase \in {"ready", "failed"}
  /\ ClusterSetup
  /\ cq_pc' = IF phase = "ready" THEN "summary" ELSE "error"

ClusterStep ==
  /\ native = "cluster"
  /\ \/ AfterEnv
     \/ ReportCqueue \/ ReportCqueueFails \/ SummaryFails
     \/ SummaryReturns \/ ClusterReturn
  /\ UNCHANGED <<envVars, vars>>

CallNext == EnvStep \/ InstanceStep \/ ClusterStep

CallSpec == CallInit /\ [][CallNext]_callVars

-----------------------------------------------------------------------------
(* Properties. *)

(* The call has ended without an exception. *)
EndedNormally ==
  IF native = "instance" THEN pc = "done" /\ ~thrown ELSE cq_pc = "done" /\ ~cq_thrown

(* A caller who sees no exception had a qstat_env that was ready, and no   *)
(* error of its making is left unread but that of a letter which names no  *)
(* queue state or explains nothing.                                        *)
EnvFailureIsThrown ==
  EndedNormally => phase = "ready" /\ alp \subseteq {"letter", "character"}
-----------------------------------------------------------------------------
(* The inductive invariant: a native that is past its qstat_env has one    *)
(* that is ready, or an error to throw, and a failure ended the making.    *)
EnvAnswered ==
  /\ "failure" \in alp => phase = "failed"
  /\ pc = "qstat" => phase = "ready"
  /\ pc = "error" => phase = "ready" \/ ret = "ERROR"
  /\ pc = "done" => phase = "ready" \/ thrown
  /\ cq_pc = "summary" => phase = "ready"
  /\ cq_pc = "error" => phase = "ready" \/ cq_ret = "ERROR"
  /\ cq_pc = "done" => phase = "ready" \/ cq_thrown
=============================================================================
