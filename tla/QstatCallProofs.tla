--------------------------- MODULE QstatCallProofs ---------------------------
(***************************************************************************)
(* Proofs about QstatCall: each of its parts runs as its own module says,  *)
(* so that what is proved of the parts holds in the call, and a call       *)
(* whose qstat_env fails throws.                                           *)
(***************************************************************************)
EXTENDS QstatCall, QstatReportProofs, QstatEnvProofs

(* Every step of the call is one of each part, or leaves the part alone.   *)
LEMMA PartsStep ==
  ASSUME [CallNext]_callVars
  PROVE  [Next]_vars /\ [EnvNext]_envVars /\ [ClusterNext]_clusterVars
<1>1. CASE EnvStep
  BY <1>1 DEF EnvStep
<1>2. CASE InstanceStep
  BY <1>2 DEF InstanceStep, AfterFilters, AfterOptions, Next
<1>3. CASE ClusterStep
  BY <1>3 DEF ClusterStep, AfterEnv, ClusterNext
<1>4. CASE UNCHANGED callVars
  BY <1>4 DEF callVars
<1>5. QED
  BY <1>1, <1>2, <1>3, <1>4 DEF CallNext

(* The call implements the specification of each of its parts: the report  *)
(* of the queue instances, the qstat_env and the cluster queue summary.    *)
THEOREM PartsImplemented == CallSpec => Spec /\ EnvSpec /\ ClusterSpec
<1>1. CallInit => Init /\ EnvInit /\ ClusterInit
  BY DEF CallInit
<1>2. [CallNext]_callVars => [Next]_vars /\ [EnvNext]_envVars /\ [ClusterNext]_clusterVars
  BY PartsStep
<1>3. QED
  BY <1>1, <1>2, PTL DEF CallSpec, Spec, EnvSpec, ClusterSpec

-----------------------------------------------------------------------------
(* The cluster queue summary. *)

LEMMA ClusterInitially == ClusterInit => ClusterIInv
<1> SUFFICES ASSUME ClusterInit PROVE ClusterIInv
  OBVIOUS
<1>1. cq_thrown \in BOOLEAN
  BY Zenon DEF ClusterInit
<1>2. QED
  BY <1>1 DEF ClusterInit, ClusterIInv, ClusterTypeOK, ClusterListComplete

LEMMA ClusterInductive == ClusterIInv /\ [ClusterNext]_clusterVars => ClusterIInv'
<1> SUFFICES ASSUME ClusterIInv, [ClusterNext]_clusterVars PROVE ClusterIInv'
  OBVIOUS
<1>1. cq_thrown' \in BOOLEAN
  BY Zenon DEF ClusterIInv, ClusterTypeOK, ClusterNext, ClusterSetup, ReportCqueue,
     ReportCqueueFails, SummaryFails, SummaryReturns, ClusterReturn, clusterVars
<1> USE <1>1 DEF ClusterIInv, ClusterTypeOK, ClusterListComplete, Summarizing
<1>2. CASE ClusterSetup
  BY <1>2 DEF ClusterSetup
<1>3. CASE ReportCqueue
  BY <1>3 DEF ReportCqueue
<1>4. CASE ReportCqueueFails
  BY <1>4 DEF ReportCqueueFails
<1>5. CASE SummaryFails
  BY <1>5 DEF SummaryFails
<1>6. CASE SummaryReturns
  BY <1>6 DEF SummaryReturns
<1>7. CASE ClusterReturn
  BY <1>7 DEF ClusterReturn
<1>8. CASE UNCHANGED clusterVars
  BY <1>8 DEF clusterVars
<1>9. QED
  BY <1>2, <1>3, <1>4, <1>5, <1>6, <1>7, <1>8 DEF ClusterNext

(* A caller who sees no exception has every cluster queue, or the driver   *)
(* failed by itself.                                                       *)
THEOREM ClusterListsAreComplete == CallSpec => []ClusterListComplete
<1>1. ClusterIInv => ClusterListComplete
  BY DEF ClusterIInv
<1>2. QED
  BY PartsImplemented, ClusterInitially, ClusterInductive, <1>1, PTL DEF ClusterSpec

-----------------------------------------------------------------------------
(* What the parts promise, of the call. *)

(* Every variable of the call keeps its type.                              *)
THEOREM CallTypeCorrect == CallSpec => []CallTypeOK
<1>1. TypeOK /\ EnvTypeOK /\ ClusterIInv => CallTypeOK
  BY DEF CallTypeOK, ClusterIInv
<1>2. IInv => TypeOK
  BY DEF IInv
<1>3. QED
  BY PartsImplemented, Invariance, EnvTypeCorrect, ClusterInitially, ClusterInductive, <1>1, <1>2,
     PTL DEF ClusterSpec

(* Every safety property the parts promise holds of a call that composes   *)
(* them: the options are applied as they were asked, the lists of the env  *)
(* are whole or empty, jobs are where they were reported, queues have all  *)
(* of theirs, and failures that were recorded are thrown.                  *)
THEOREM CallKeepsPromises ==
  CallSpec => [](/\ OptionsApplied /\ NothingHalfBuilt
                 /\ JobsWhereReported /\ QueuesComplete
                 /\ RecordedFailureIsThrown /\ NormalReturnIsComplete)
  BY PartsImplemented, OptionsAreApplied, NothingIsHalfBuilt, JobsAreWhereReported,
     QueuesAreComplete, RecordedFailuresAreThrown, NormalReturns, PTL

-----------------------------------------------------------------------------
(* A failure on the way to the qstat_env. *)

(* Only the label error's errors end the making of a qstat_env, and only   *)
(* EnvStep makes one.                                                      *)
LEMMA EnvAnsweredStep ==
  ASSUME EnvAnswered, [CallNext]_callVars
  PROVE  EnvAnswered'
<1>1. CASE EnvStep
  <2>1. phase \in {"read", "build", "show"}
    BY <1>1 DEF EnvStep, EnvNext, Read, Build, ReadFilter, ReadFails, NoFilter, StringList,
       StringListFails, LoopStarts, NamesAreNull, LoopName, LoopEnds, LoopFails, QueueState,
       JobState, StateFails, Show, ShowFails, Building
  <2>2. "failure" \in alp' => "failure" \in alp \/ phase' = "failed"
    BY <1>1 DEF EnvStep, EnvNext, Read, Build, ReadFilter, ReadFails, NoFilter, StringList,
       StringListFails, LoopStarts, NamesAreNull, LoopName, LoopEnds, LoopFails, QueueState,
       JobState, StateFails, Show, ShowFails, EnvFails
  <2>3. UNCHANGED <<vars, clusterVars>>
    BY <1>1 DEF EnvStep
  <2>4. QED
    BY <2>1, <2>2, <2>3 DEF EnvAnswered, vars, clusterVars
<1>2. CASE InstanceStep
  <2>1. UNCHANGED <<phase, alp, cq_pc, cq_ret, cq_thrown>>
    BY <1>2 DEF InstanceStep, envVars, buildVars, clusterVars
  <2>2. CASE AfterFilters
    BY <2>1, <2>2 DEF EnvAnswered, AfterFilters, SetupFilters, SetupStep
  <2>3. CASE AfterOptions
    BY <2>1, <2>3 DEF EnvAnswered, AfterOptions, SetupOptions, SetupStep
  <2>4. CASE QueueHandler \/ JobHandler \/ ListHandler \/ WalkFails
    <3>1. UNCHANGED <<pc, ret, thrown>>
      BY <2>4 DEF QueueHandler, QueueStarted, QueueDetailFails, QueueFinished, QueueFinishedFails,
         JobHandler, Job, JobDetail, JobFails, JobFinished, ListHandler, ListStarted, JobsFinished,
         JobsFinishedFails, WalkFails, Fails
    <3>2. QED
      BY <2>1, <3>1 DEF EnvAnswered
  <2>5. CASE QstatReturns
    BY <2>1, <2>5 DEF EnvAnswered, QstatReturns, WalkOver
  <2>6. CASE Return
    BY <2>1, <2>6 DEF EnvAnswered, Return
  <2>7. QED
    BY <1>2, <2>2, <2>3, <2>4, <2>5, <2>6 DEF InstanceStep
<1>3. CASE ClusterStep
  <2>1. UNCHANGED <<phase, alp, pc, ret, thrown>>
    BY <1>3 DEF ClusterStep, envVars, buildVars, vars
  <2>2. CASE AfterEnv
    BY <2>1, <2>2 DEF EnvAnswered, AfterEnv, ClusterSetup
  <2>3. CASE ReportCqueue \/ ReportCqueueFails \/ SummaryFails
    BY <2>1, <2>3 DEF EnvAnswered, ReportCqueue, ReportCqueueFails, SummaryFails
  <2>4. CASE SummaryReturns \/ ClusterReturn
    BY <2>1, <2>4 DEF EnvAnswered, SummaryReturns, ClusterReturn
  <2>5. QED
    BY <1>3, <2>2, <2>3, <2>4 DEF ClusterStep
<1>4. CASE UNCHANGED callVars
  BY <1>4 DEF EnvAnswered, callVars, vars, envVars, buildVars, clusterVars
<1>5. QED
  BY <1>1, <1>2, <1>3, <1>4 DEF CallNext

(* A qstat_env that cannot be made ends the call with an exception, in     *)
(* either native and wherever the making fails.                            *)
THEOREM EnvFailuresAreThrown == CallSpec => []EnvFailureIsThrown
<1>1. CallInit => EnvAnswered
  BY DEF CallInit, Init, EnvInit, ClusterInit, EnvAnswered
<1>2. EnvAnswered /\ [CallNext]_callVars => EnvAnswered'
  BY EnvAnsweredStep
<1>3. EnvAnswered /\ EnvTypeOK => EnvFailureIsThrown
  BY DEF EnvAnswered, EnvTypeOK, Answers, EnvFailureIsThrown, EndedNormally
<1>4. QED
  BY PartsImplemented, EnvTypeCorrect, <1>1, <1>2, <1>3, PTL DEF CallSpec

-----------------------------------------------------------------------------
(* The reports promised to the callers. *)

(* A cluster queue is reported once, and ret says nothing before the       *)
(* summary ends, nor of a failure of the driver.                           *)
ClusterOnce ==
  /\ cq_list \cap cq_left = {}
  /\ cq_pc = "env" => cq_failed = "none" /\ cq_list = {}
  /\ cq_pc = "summary" => cq_ret = "SUCCESS"
  /\ cq_failed = "driver" => cq_ret = "SUCCESS"
  /\ cq_pc \in {"error", "done"} /\ cq_failed = "handler" => cq_ret = "ERROR"
  /\ cq_pc # "done" => ~cq_thrown

(* Each step keeps that. *)
LEMMA ClusterOnceStep ==
  ASSUME ClusterIInv, ClusterOnce, [ClusterNext]_clusterVars PROVE ClusterOnce'
<1> USE DEF ClusterIInv, ClusterOnce, Summarizing
<1>1. CASE ClusterSetup
  BY <1>1 DEF ClusterSetup
<1>2. CASE ReportCqueue
  BY <1>2 DEF ReportCqueue
<1>3. CASE ReportCqueueFails
  BY <1>3 DEF ReportCqueueFails
<1>4. CASE SummaryFails
  BY <1>4 DEF SummaryFails
<1>5. CASE SummaryReturns
  BY <1>5 DEF SummaryReturns, ClusterTypeOK
<1>6. CASE ClusterReturn
  BY <1>6 DEF ClusterReturn
<1>7. CASE UNCHANGED clusterVars
  BY <1>7 DEF clusterVars
<1> QED BY <1>1, <1>2, <1>3, <1>4, <1>5, <1>6, <1>7 DEF ClusterNext

(* The promise's variables, for the provers. *)
ClusterBroken ==
  IF cq_failed = "driver" THEN "unrecorded"
  ELSE IF cq_failed = "handler" \/ cq_ret # "SUCCESS" THEN "recorded" ELSE "no"
ClusterEnded == IF cq_pc # "done" THEN "no" ELSE IF cq_thrown THEN "thrown" ELSE "returned"
ClusterStill ==
  cq_list' = cq_list /\ ClusterBroken' = ClusterBroken /\ ClusterEnded' = ClusterEnded

(* Every step of the cluster queue summary is a step of the promise, or    *)
(* changes nothing of it.                                                  *)
LEMMA ClusterPromiseStep ==
  ASSUME ClusterIInv, ClusterOnce, [ClusterNext]_clusterVars
  PROVE  [ClusterPromise!Next]_(ClusterPromise!vars)
<1> USE DEF ClusterOnce
<1>t. ClusterTypeOK
  BY DEF ClusterIInv
<1>s. ASSUME ClusterStill PROVE UNCHANGED ClusterPromise!vars
  BY <1>s DEF ClusterStill, ClusterBroken, ClusterEnded, ClusterPromise!vars
<1>b. ASSUME ClusterBroken = "no", ClusterEnded = "no",
             ClusterBroken' \in {"recorded", "unrecorded"}, ClusterEnded' = "no",
             cq_list' = cq_list
      PROVE  ClusterPromise!Next
  <2>1. ClusterPromise!Break
    BY <1>b DEF ClusterPromise!Break, ClusterPromise!UnderWay, ClusterBroken, ClusterEnded
  <2> QED BY <2>1 DEF ClusterPromise!Next
<1>1. CASE ClusterSetup
  <2>1. /\ cq_list' = cq_list /\ cq_failed = "none" /\ cq_failed' = "none"
        /\ cq_pc # "done" /\ cq_pc' # "done" /\ cq_ret = "SUCCESS"
    BY <1>1 DEF ClusterSetup, ClusterIInv
  <2>2. ClusterBroken = "no" /\ ClusterEnded = "no" /\ ClusterEnded' = "no"
        /\ ClusterBroken' \in {"no", "recorded"}
    BY <2>1 DEF ClusterBroken, ClusterEnded
  <2> QED BY <1>s, <1>b, <2>1, <2>2 DEF ClusterStill
<1>2. CASE ReportCqueue
  <2>1. PICK q \in cq_left : cq_list' = cq_list \cup {q}
    BY <1>2 DEF ReportCqueue
  <2>2. q \in ClusterQueues /\ q \notin cq_list
    BY <1>t, <2>1 DEF ClusterTypeOK
  <2>3. ClusterPromise!Give(q)
    BY <1>2, <2>1, <2>2 DEF ReportCqueue, Summarizing, ClusterPromise!Give,
       ClusterPromise!UnderWay
  <2> QED BY <2>2, <2>3 DEF ClusterPromise!Next
<1>3. CASE ReportCqueueFails \/ SummaryFails
  <2>1. /\ cq_list' = cq_list /\ cq_failed = "none" /\ cq_failed' \in {"handler", "driver"}
        /\ cq_pc = "summary" /\ cq_pc' = "summary" /\ cq_ret = "SUCCESS"
    BY <1>3 DEF ReportCqueueFails, SummaryFails, Summarizing
  <2> QED BY <1>b, <2>1 DEF ClusterBroken, ClusterEnded
<1>4. CASE SummaryReturns
  <2>1. /\ cq_list' = cq_list /\ cq_failed' = cq_failed /\ cq_pc = "summary" /\ cq_pc' = "error"
        /\ cq_ret = "SUCCESS" /\ (cq_failed # "handler" => cq_ret' = "SUCCESS")
    BY <1>4, <1>t DEF SummaryReturns, ClusterIInv, ClusterTypeOK
  <2> QED BY <1>s, <2>1 DEF ClusterStill, ClusterBroken, ClusterEnded
<1>5. CASE ClusterReturn
  <2>1. cq_thrown' <=> cq_ret # "SUCCESS"
    BY <1>5, Zenon DEF ClusterReturn
  <2>2. cq_pc = "error" /\ cq_pc' = "done" /\ UNCHANGED <<cq_list, cq_failed, cq_ret>>
    BY <1>5 DEF ClusterReturn
  <2>3. ClusterBroken' = ClusterBroken /\ ClusterEnded = "no"
    BY <2>2 DEF ClusterBroken, ClusterEnded
  <2>4. CASE cq_ret = "SUCCESS"
    <3>1. ClusterEnded' = "returned"
      BY <2>1, <2>2, <2>4 DEF ClusterEnded
    <3>2. cq_failed = "driver" \/ (cq_failed = "none" /\ cq_list = ClusterQueues)
      BY <2>2, <2>4, <1>t DEF ClusterIInv, ClusterTypeOK
    <3>3. ClusterPromise!Return
      BY <2>2, <2>3, <2>4, <3>1, <3>2
         DEF ClusterPromise!Return, ClusterBroken, ClusterEnded
    <3> QED BY <3>3 DEF ClusterPromise!Next
  <2>5. CASE cq_ret # "SUCCESS"
    <3>1. ClusterEnded' = "thrown"
      BY <2>1, <2>2, <2>5 DEF ClusterEnded
    <3>2. ClusterBroken = "recorded"
      BY <2>5 DEF ClusterBroken
    <3>3. ClusterPromise!Throw
      BY <2>2, <2>3, <3>1, <3>2 DEF ClusterPromise!Throw, ClusterBroken, ClusterEnded
    <3> QED BY <3>3 DEF ClusterPromise!Next
  <2> QED BY <2>4, <2>5
<1>6. CASE UNCHANGED clusterVars
  BY <1>6, <1>s DEF clusterVars, ClusterStill, ClusterBroken, ClusterEnded
<1> QED BY <1>1, <1>2, <1>3, <1>4, <1>5, <1>6 DEF ClusterNext

(* ImplementsClusterReport, by the native alone. *)
LEMMA ClusterReportKept == ClusterSpec => ImplementsClusterReport
<1>1. ClusterInit => ClusterOnce /\ ClusterPromise!Init
  BY DEF ClusterInit, ClusterOnce, ClusterPromise!Init
<1>2. ClusterIInv /\ ClusterOnce /\ [ClusterNext]_clusterVars => ClusterOnce'
  BY ClusterOnceStep
<1>3. ClusterIInv /\ ClusterOnce /\ [ClusterNext]_clusterVars
        => [ClusterPromise!Next]_(ClusterPromise!vars)
  BY ClusterPromiseStep
<1> QED BY <1>1, <1>2, <1>3, ClusterInitially, ClusterInductive, PTL
        DEF ClusterSpec, ImplementsClusterReport, ClusterPromise!Spec

(* ImplementsReport and ImplementsClusterReport: a call of either native,  *)
(* from its options to its return, keeps the promise of its report.        *)
THEOREM CallImplementsReports == CallSpec => ImplementsReport /\ ImplementsClusterReport
BY PartsImplemented, ReportImplemented, ClusterReportKept, PTL
=============================================================================
