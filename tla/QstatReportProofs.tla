-------------------------- MODULE QstatReportProofs --------------------------
(***************************************************************************)
(* Proofs about QstatReport, for any queues and jobs.                      *)
(***************************************************************************)
EXTENDS QstatReport, TLAPS

(* Every variable keeps its type. *)
LEMMA TypeInit == Init => TypeOK
<1> SUFFICES ASSUME Init PROVE TypeOK
  OBVIOUS
<1>1. closed \in BOOLEAN /\ thrown \in BOOLEAN
  BY Zenon DEF Init
<1>2. added \in [Sections -> SUBSET Jobs] /\ reported \in [Jobs -> Sections \cup {NoQueue}]
  BY DEF Init
<1>3. QED
  BY <1>1, <1>2 DEF Init, TypeOK, Results

(* report_queue_finished needs to know that there is an object to add. *)
LEMMA TypeStep == TypeOK /\ SectionUnderWay /\ [Next]_vars => TypeOK'
<1> SUFFICES ASSUME TypeOK, SectionUnderWay, [Next]_vars PROVE TypeOK'
  OBVIOUS
<1> USE QueuesAssumption
    DEF TypeOK, Results, Handlers, Walking, InQueue, BetweenJobs, Fails, Sections
<1>1. CASE SetupFilters \/ SetupOptions
  BY <1>1 DEF SetupFilters, SetupOptions, SetupStep, queueVars, jobVars, resultVars, driverVars
<1>2. CASE QueueStarted
  BY <1>2 DEF QueueStarted, jobVars, resultVars
<1>3. CASE QueueDetailFails \/ QueueFinishedFails \/ WalkFails
  BY <1>3 DEF WalkFails, QueueDetailFails, QueueFinishedFails, queueVars, jobVars, resultVars,
     driverVars
<1>4. CASE QueueFinished
  <2>1. closed' \in BOOLEAN
    BY <1>4, Zenon DEF QueueFinished
  <2>2. result_queues' \subseteq Queues
    BY <1>4 DEF QueueFinished, SectionUnderWay
  <2>3. QED
    BY <1>4, <2>1, <2>2 DEF QueueFinished, jobVars
<1>5. CASE Job
  BY <1>5 DEF Job, queueVars, resultVars
<1>6. CASE JobDetail \/ JobFails \/ JobFinished
  BY <1>6 DEF JobDetail, JobFails, JobFinished, queueVars, resultVars, driverVars
<1>7. CASE ListStarted
  BY <1>7 DEF ListStarted, queueVars, jobVars, resultVars
<1>8. CASE JobsFinished
  BY <1>8 DEF JobsFinished, queueVars
<1>9. CASE JobsFinishedFails
  BY <1>9 DEF JobsFinishedFails, queueVars, jobVars, driverVars
<1>10. CASE QstatReturns
  BY <1>10 DEF QstatReturns, WalkOver, queueVars, jobVars, resultVars, driverVars
<1>11. CASE Return
  <2>1. thrown' \in BOOLEAN
    BY <1>11, Zenon DEF Return
  <2>2. QED
    BY <1>11, <2>1 DEF Return, queueVars, jobVars, resultVars, driverVars
<1>12. CASE UNCHANGED vars
  BY <1>12 DEF vars, queueVars, jobVars, resultVars, driverVars
<1>13. QED
  BY <1>1, <1>2, <1>3, <1>4, <1>5, <1>6, <1>7, <1>8, <1>9, <1>10, <1>11, <1>12
     DEF Next, QueueHandler, JobHandler, ListHandler

-----------------------------------------------------------------------------
LEMMA InvariantInit == Init => IInv
<1> SUFFICES ASSUME Init PROVE IInv
  OBVIOUS
<1>1. TypeOK
  BY TypeInit
<1>2. SectionUnderWay /\ QueuesOver /\ NothingLost
  BY NoQueueAssumption, NoJobAssumption
     DEF Init, SectionUnderWay, QueuesOver, NothingLost, Sections, InQueue
<1>3. FailureRecorded /\ OutcomeKnown
  BY DEF Init, FailureRecorded, OutcomeKnown
<1>4. JobsWhereReported /\ QueuesComplete
  BY DEF Init, JobsWhereReported, QueuesComplete
<1>5. NormalReturnIsComplete /\ RecordedFailureIsThrown
  BY DEF Init, NormalReturnIsComplete, RecordedFailureIsThrown
<1>6. QED
  BY <1>1, <1>2, <1>3, <1>4, <1>5 DEF IInv

(* A step of the walk keeps the invariant if it keeps the parts about the  *)
(* sections: the others speak of how the native ends.                      *)
LEMMA WalkStep ==
  ASSUME IInv, TypeOK', pc = "qstat", pc' = "qstat", ret' = ret, thrown' = thrown,
         SectionUnderWay', NothingLost', QueuesOver', FailureRecorded',
         JobsWhereReported', QueuesComplete'
  PROVE  IInv'
BY DEF IInv, OutcomeKnown, NormalReturnIsComplete, RecordedFailureIsThrown

LEMMA InvariantStep == IInv /\ [Next]_vars => IInv'
<1> SUFFICES ASSUME IInv, [Next]_vars PROVE IInv'
  OBVIOUS
<1> USE QueuesAssumption, NoQueueAssumption, NoJobAssumption
<1>1. TypeOK /\ TypeOK'
  BY TypeStep DEF IInv
<1>2. CASE SetupFilters \/ SetupOptions
  BY <1>1, <1>2 DEF SetupFilters, SetupOptions, SetupStep, queueVars, jobVars, resultVars, driverVars, IInv,
     SectionUnderWay, InQueue, NothingLost, QueuesOver, FailureRecorded, OutcomeKnown,
     JobsWhereReported, QueuesComplete, NormalReturnIsComplete, RecordedFailureIsThrown
<1>3. CASE QueueStarted
  <2> USE <1>1, <1>3 DEF IInv, QueueStarted, Walking, InQueue, BetweenJobs, Fails, Destination,
          Sections, jobVars, resultVars
  <2>1. SectionUnderWay'
    BY DEF SectionUnderWay, TypeOK
  <2>2. NothingLost'
    BY DEF NothingLost, SectionUnderWay, TypeOK
  <2>3. QueuesOver'
    BY DEF QueuesOver, SectionUnderWay, TypeOK
  <2>4. FailureRecorded'
    BY DEF FailureRecorded
  <2>5. JobsWhereReported'
    BY DEF JobsWhereReported, SectionUnderWay, TypeOK
  <2>6. QueuesComplete'
    BY DEF QueuesComplete, QueuesOver, SectionUnderWay, NothingLost, TypeOK
  <2>7. QED
    BY <2>1, <2>2, <2>3, <2>4, <2>5, <2>6, WalkStep
<1>4. CASE QueueDetailFails
  <2> USE <1>1, <1>4 DEF IInv, QueueDetailFails, Walking, InQueue, BetweenJobs, Fails, Destination,
          Sections, queueVars, jobVars, resultVars, driverVars
  <2>1. SectionUnderWay'
    BY DEF SectionUnderWay, TypeOK
  <2>2. NothingLost'
    BY DEF NothingLost, SectionUnderWay, TypeOK
  <2>3. QueuesOver'
    BY DEF QueuesOver, SectionUnderWay, TypeOK
  <2>4. FailureRecorded'
    BY DEF FailureRecorded
  <2>5. JobsWhereReported'
    BY DEF JobsWhereReported, SectionUnderWay, TypeOK
  <2>6. QueuesComplete'
    BY DEF QueuesComplete, QueuesOver, SectionUnderWay, NothingLost, TypeOK
  <2>7. QED
    BY <2>1, <2>2, <2>3, <2>4, <2>5, <2>6, WalkStep
<1>5. CASE QueueFinished
  <2> USE <1>1, <1>5 DEF IInv, QueueFinished, Walking, InQueue, BetweenJobs, Fails, Destination,
          Sections, jobVars
  <2>1. SectionUnderWay'
    BY DEF SectionUnderWay, TypeOK
  <2>2. NothingLost'
    BY DEF NothingLost, SectionUnderWay, TypeOK
  <2>3. QueuesOver'
    BY DEF QueuesOver, SectionUnderWay, TypeOK
  <2>4. FailureRecorded'
    BY DEF FailureRecorded
  <2>5. JobsWhereReported'
    BY DEF JobsWhereReported, SectionUnderWay, TypeOK
  <2>6. QueuesComplete'
    BY DEF QueuesComplete, QueuesOver, SectionUnderWay, NothingLost, TypeOK
  <2>7. QED
    BY <2>1, <2>2, <2>3, <2>4, <2>5, <2>6, WalkStep
<1>6. CASE QueueFinishedFails
  <2> USE <1>1, <1>6 DEF IInv, QueueFinishedFails, Walking, InQueue, BetweenJobs, Fails, Destination,
          Sections, queueVars, jobVars, resultVars, driverVars
  <2>1. SectionUnderWay'
    BY DEF SectionUnderWay, TypeOK
  <2>2. NothingLost'
    BY DEF NothingLost, SectionUnderWay, TypeOK
  <2>3. QueuesOver'
    BY DEF QueuesOver, SectionUnderWay, TypeOK
  <2>4. FailureRecorded'
    BY DEF FailureRecorded
  <2>5. JobsWhereReported'
    BY DEF JobsWhereReported, SectionUnderWay, TypeOK
  <2>6. QueuesComplete'
    BY DEF QueuesComplete, QueuesOver, SectionUnderWay, NothingLost, TypeOK
  <2>7. QED
    BY <2>1, <2>2, <2>3, <2>4, <2>5, <2>6, WalkStep
<1>7. CASE Job
  <2> USE <1>1, <1>7 DEF IInv, Job, Walking, InQueue, BetweenJobs, Fails, Destination,
          Sections, queueVars, resultVars
  <2>1. SectionUnderWay'
    BY DEF SectionUnderWay, TypeOK
  <2>2. NothingLost'
    BY DEF NothingLost, SectionUnderWay, TypeOK
  <2>3. QueuesOver'
    BY DEF QueuesOver, SectionUnderWay, TypeOK
  <2>4. FailureRecorded'
    BY DEF FailureRecorded
  <2>5. JobsWhereReported'
    BY DEF JobsWhereReported, SectionUnderWay, TypeOK
  <2>6. QueuesComplete'
    BY DEF QueuesComplete, QueuesOver, SectionUnderWay, NothingLost, TypeOK
  <2>7. QED
    BY <2>1, <2>2, <2>3, <2>4, <2>5, <2>6, WalkStep
<1>8. CASE JobFails
  <2> USE <1>1, <1>8 DEF IInv, JobFails, Walking, InQueue, BetweenJobs, Fails, Destination,
          Sections, queueVars, resultVars, driverVars
  <2>1. SectionUnderWay'
    BY DEF SectionUnderWay, TypeOK
  <2>2. NothingLost'
    BY DEF NothingLost, SectionUnderWay, TypeOK
  <2>3. QueuesOver'
    BY DEF QueuesOver, SectionUnderWay, TypeOK
  <2>4. FailureRecorded'
    BY DEF FailureRecorded
  <2>5. JobsWhereReported'
    BY DEF JobsWhereReported, SectionUnderWay, TypeOK
  <2>6. QueuesComplete'
    BY DEF QueuesComplete, QueuesOver, SectionUnderWay, NothingLost, TypeOK
  <2>7. QED
    BY <2>1, <2>2, <2>3, <2>4, <2>5, <2>6, WalkStep
<1>9. CASE JobFinished
  <2> USE <1>1, <1>9 DEF IInv, JobFinished, Walking, InQueue, BetweenJobs, Fails, Destination,
          Sections, queueVars, resultVars, driverVars
  <2>1. SectionUnderWay'
    BY DEF SectionUnderWay, TypeOK
  <2>2. NothingLost'
    BY DEF NothingLost, SectionUnderWay, TypeOK
  <2>3. QueuesOver'
    BY DEF QueuesOver, SectionUnderWay, TypeOK
  <2>4. FailureRecorded'
    BY DEF FailureRecorded
  <2>5. JobsWhereReported'
    BY DEF JobsWhereReported, SectionUnderWay, TypeOK
  <2>6. QueuesComplete'
    BY DEF QueuesComplete, QueuesOver, SectionUnderWay, NothingLost, TypeOK
  <2>7. QED
    BY <2>1, <2>2, <2>3, <2>4, <2>5, <2>6, WalkStep
<1>10. CASE ListStarted
  <2> USE <1>1, <1>10 DEF IInv, ListStarted, Walking, InQueue, BetweenJobs, Fails, Destination,
          Sections, queueVars, jobVars, resultVars
  <2>1. SectionUnderWay'
    BY DEF SectionUnderWay, TypeOK
  <2>2. NothingLost'
    BY DEF NothingLost, SectionUnderWay, TypeOK
  <2>3. QueuesOver'
    BY DEF QueuesOver, SectionUnderWay, TypeOK
  <2>4. FailureRecorded'
    BY DEF FailureRecorded
  <2>5. JobsWhereReported'
    BY DEF JobsWhereReported, SectionUnderWay, TypeOK
  <2>6. QueuesComplete'
    BY DEF QueuesComplete, QueuesOver, SectionUnderWay, NothingLost, TypeOK
  <2>7. QED
    BY <2>1, <2>2, <2>3, <2>4, <2>5, <2>6, WalkStep
<1>11. CASE JobsFinished
  <2> USE <1>1, <1>11 DEF IInv, JobsFinished, Walking, InQueue, BetweenJobs, Fails, Destination,
          Sections, queueVars
  <2>1. SectionUnderWay'
    BY DEF SectionUnderWay, TypeOK
  <2>2. NothingLost'
    BY DEF NothingLost, SectionUnderWay, TypeOK
  <2>3. QueuesOver'
    BY DEF QueuesOver, SectionUnderWay, TypeOK
  <2>4. FailureRecorded'
    BY DEF FailureRecorded
  <2>5. JobsWhereReported'
    BY DEF JobsWhereReported, SectionUnderWay, TypeOK
  <2>6. QueuesComplete'
    BY DEF QueuesComplete, QueuesOver, SectionUnderWay, NothingLost, TypeOK
  <2>7. QED
    BY <2>1, <2>2, <2>3, <2>4, <2>5, <2>6, WalkStep
<1>12. CASE JobsFinishedFails
  <2> USE <1>1, <1>12 DEF IInv, JobsFinishedFails, Walking, InQueue, BetweenJobs, Fails, Destination,
          Sections, queueVars, jobVars, driverVars
  <2>1. SectionUnderWay'
    BY DEF SectionUnderWay, TypeOK
  <2>2. NothingLost'
    BY DEF NothingLost, SectionUnderWay, TypeOK
  <2>3. QueuesOver'
    BY DEF QueuesOver, SectionUnderWay, TypeOK
  <2>4. FailureRecorded'
    BY DEF FailureRecorded
  <2>5. JobsWhereReported'
    BY DEF JobsWhereReported, SectionUnderWay, TypeOK
  <2>6. QueuesComplete'
    BY DEF QueuesComplete, QueuesOver, SectionUnderWay, NothingLost, TypeOK
  <2>7. QED
    BY <2>1, <2>2, <2>3, <2>4, <2>5, <2>6, WalkStep
<1>13. CASE QstatReturns
  BY <1>1, <1>13 DEF QstatReturns, WalkOver, queueVars, jobVars, resultVars, driverVars,
     IInv, SectionUnderWay, InQueue, NothingLost, QueuesOver, FailureRecorded,
     OutcomeKnown, WalkDone, JobsWhereReported, QueuesComplete, NormalReturnIsComplete,
     RecordedFailureIsThrown
<1>14. CASE Return
  <2> USE <1>14 DEF Return, queueVars, jobVars, resultVars, driverVars, IInv
  <2>1. SectionUnderWay' /\ NothingLost' /\ QueuesOver' /\ FailureRecorded'
        /\ JobsWhereReported' /\ QueuesComplete'
    BY DEF SectionUnderWay, InQueue, NothingLost, QueuesOver, FailureRecorded,
       JobsWhereReported, QueuesComplete
  <2>2. OutcomeKnown'
    BY DEF OutcomeKnown
  <2>3. RecordedFailureIsThrown'
    BY DEF OutcomeKnown, RecordedFailureIsThrown
  <2>4. NormalReturnIsComplete'
    <3>1. SUFFICES ASSUME ret = "SUCCESS", failed \notin {"queue_detail",
                            "queue_finished", "jobs_finished", "walk"}
                   PROVE  /\ result_queues = Queues
                          /\ \A j \in Jobs : reported[j] # NoQueue => j \in added[reported[j]]
      BY DEF NormalReturnIsComplete
    <3>2. failed = "none" /\ WalkDone
      BY <3>1 DEF OutcomeKnown, TypeOK, Handlers
    <3>3. QED
      BY <3>2 DEF WalkDone, NothingLost, SectionUnderWay, Sections
  <2>5. QED
    BY <1>1, <2>1, <2>2, <2>3, <2>4
<1>15. CASE UNCHANGED vars
  BY <1>1, <1>15 DEF vars, queueVars, jobVars, resultVars, driverVars,
     IInv, SectionUnderWay, InQueue, NothingLost, QueuesOver, FailureRecorded,
     OutcomeKnown, WalkDone, JobsWhereReported, QueuesComplete, NormalReturnIsComplete,
     RecordedFailureIsThrown
<1>16. CASE JobDetail
  <2> USE <1>1, <1>16 DEF IInv, JobDetail, Walking, InQueue, BetweenJobs, Fails, Destination,
          Sections, queueVars, resultVars, driverVars
  <2>1. SectionUnderWay'
    BY DEF SectionUnderWay, TypeOK
  <2>2. NothingLost'
    BY DEF NothingLost, SectionUnderWay, TypeOK
  <2>3. QueuesOver'
    BY DEF QueuesOver, SectionUnderWay, TypeOK
  <2>4. FailureRecorded'
    BY DEF FailureRecorded
  <2>5. JobsWhereReported'
    BY DEF JobsWhereReported, SectionUnderWay, TypeOK
  <2>6. QueuesComplete'
    BY DEF QueuesComplete, QueuesOver, SectionUnderWay, NothingLost, TypeOK
  <2>7. QED
    BY <2>1, <2>2, <2>3, <2>4, <2>5, <2>6, WalkStep
<1>17. CASE WalkFails
  <2> USE <1>1, <1>17 DEF IInv, WalkFails, Walking, InQueue, BetweenJobs, Fails, Destination,
          Sections, queueVars, jobVars, resultVars, driverVars
  <2>1. SectionUnderWay'
    BY DEF SectionUnderWay, TypeOK
  <2>2. NothingLost'
    BY DEF NothingLost, SectionUnderWay, TypeOK
  <2>3. QueuesOver'
    BY DEF QueuesOver, SectionUnderWay, TypeOK
  <2>4. FailureRecorded'
    BY DEF FailureRecorded
  <2>5. JobsWhereReported'
    BY DEF JobsWhereReported, SectionUnderWay, TypeOK
  <2>6. QueuesComplete'
    BY DEF QueuesComplete, QueuesOver, SectionUnderWay, NothingLost, TypeOK
  <2>7. QED
    BY <2>1, <2>2, <2>3, <2>4, <2>5, <2>6, WalkStep
<1>18. QED
  BY <1>2, <1>3, <1>4, <1>5, <1>6, <1>7, <1>8, <1>9, <1>10, <1>11, <1>12, <1>13,
     <1>14, <1>15, <1>16, <1>17 DEF Next, QueueHandler, JobHandler, ListHandler

(* The invariant of the walk: which section the jobs in the handlers'      *)
(* hands belong to, and what has become of the others.                     *)
THEOREM Invariance == Spec => []IInv
BY InvariantInit, InvariantStep, PTL DEF Spec

(* No job is added to a queue or list it was not reported in.              *)
THEOREM JobsAreWhereReported == Spec => []JobsWhereReported
<1>1. IInv => JobsWhereReported
  BY DEF IInv
<1>2. QED
  BY <1>1, Invariance, PTL

(* A queue in the result has all its jobs.                                 *)
THEOREM QueuesAreComplete == Spec => []QueuesComplete
<1>1. IInv => QueuesComplete
  BY DEF IInv
<1>2. QED
  BY <1>1, Invariance, PTL

(* Without an exception nothing is missing, or the walk or a handler       *)
(* failed and recorded nothing.                                            *)
THEOREM NormalReturns == Spec => []NormalReturnIsComplete
<1>1. IInv => NormalReturnIsComplete
  BY DEF IInv
<1>2. QED
  BY <1>1, Invariance, PTL

(* A recorded failure is thrown.                                           *)
THEOREM RecordedFailuresAreThrown == Spec => []RecordedFailureIsThrown
<1>1. IInv => RecordedFailureIsThrown
  BY DEF IInv
<1>2. QED
  BY <1>1, Invariance, PTL

-----------------------------------------------------------------------------
(* The report promised to the caller. *)

(* What ret, the two results and the caller's object are before, in and    *)
(* behind the walk: an unrecorded failure leaves SUCCESS everywhere.       *)
FailureKnown ==
  /\ pc \in {"filters", "options", "qstat"} => ret = "SUCCESS"
  /\ pc \in {"filters", "options"} => failed = "none" /\ result_queues = {}
  /\ failed \in Unrecorded =>
       result = "SUCCESS" /\ job_result = "SUCCESS" /\ ret = "SUCCESS"
  /\ pc # "done" => ~thrown

(* Each step keeps that. *)
LEMMA FailureKnownStep ==
  ASSUME IInv, FailureKnown, [Next]_vars PROVE FailureKnown'
<1> USE DEF FailureKnown, Unrecorded
<1>r. failed = "none" => result = "SUCCESS" /\ job_result = "SUCCESS"
  BY DEF IInv, FailureRecorded
<1>1. CASE SetupFilters \/ SetupOptions
  BY <1>1 DEF SetupFilters, SetupOptions, SetupStep, queueVars, jobVars, resultVars
<1>2. CASE QueueHandler
  BY <1>r, <1>2 DEF QueueHandler, QueueStarted, QueueDetailFails, QueueFinished,
     QueueFinishedFails, Fails, Walking, queueVars, jobVars, resultVars
<1>3. CASE JobHandler
  BY <1>r, <1>3 DEF JobHandler, Job, JobDetail, JobFails, JobFinished, Fails, Walking, queueVars,
     resultVars
<1>4. CASE ListHandler
  BY <1>r, <1>4 DEF ListHandler, ListStarted, JobsFinished, JobsFinishedFails, Walking, queueVars,
     jobVars, resultVars
<1>5. CASE WalkFails
  BY <1>r, <1>5 DEF WalkFails, Fails, Walking, queueVars, jobVars, resultVars
<1>6. CASE QstatReturns
  BY <1>6 DEF QstatReturns, WalkOver, queueVars, jobVars, resultVars
<1>7. CASE Return
  BY <1>7 DEF Return, queueVars, jobVars, resultVars
<1>8. CASE UNCHANGED vars
  BY <1>8 DEF vars, queueVars, jobVars, resultVars
<1> QED BY <1>1, <1>2, <1>3, <1>4, <1>5, <1>6, <1>7, <1>8 DEF Next

(* The promise's variables, for the provers. *)
Broken ==
  IF failed \in Unrecorded THEN "unrecorded"
  ELSE IF failed # "none" \/ ret # "SUCCESS" THEN "recorded" ELSE "no"
Ended == IF pc # "done" THEN "no" ELSE IF thrown THEN "thrown" ELSE "returned"
Still == result_queues' = result_queues /\ Broken' = Broken /\ Ended' = Ended

(* Every step of the native is a step of the promise, or changes nothing   *)
(* of it.                                                                  *)
LEMMA PromiseStep ==
  ASSUME IInv, FailureKnown, [Next]_vars PROVE [Promise!Next]_(Promise!vars)
<1> USE DEF FailureKnown
<1>s. ASSUME Still PROVE UNCHANGED Promise!vars
  BY <1>s DEF Still, Broken, Ended, Promise!vars
<1>b. ASSUME Broken = "no", Ended = "no", Broken' \in {"recorded", "unrecorded"}, Ended' = "no",
             result_queues' = result_queues
      PROVE  Promise!Next
  <2>1. Promise!Break
    BY <1>b DEF Promise!Break, Promise!UnderWay, Broken, Ended
  <2> QED BY <2>1 DEF Promise!Next
<1>w. ASSUME Walking, pc' = pc, ret' = ret, result_queues' = result_queues
      PROVE  [Promise!Next]_(Promise!vars)
  <2>1. Broken = "no" /\ Ended = "no" /\ Ended' = "no"
    BY <1>w DEF Walking, Broken, Ended, Unrecorded
  <2>2. Broken' = "no" \/ Broken' \in {"recorded", "unrecorded"}
    BY DEF Broken
  <2> QED BY <1>s, <1>b, <1>w, <2>1, <2>2 DEF Still
<1>1. CASE SetupFilters \/ SetupOptions
  <2>1. /\ failed = "none" /\ failed' = "none" /\ result_queues' = result_queues
        /\ ret = "SUCCESS" /\ ret' \in {"SUCCESS", "ERROR"} /\ pc # "done" /\ pc' # "done"
    BY <1>1 DEF SetupFilters, SetupOptions, SetupStep, resultVars
  <2>2. Broken = "no" /\ Ended = "no" /\ Ended' = "no" /\ Broken' \in {"no", "recorded"}
    BY <2>1 DEF Broken, Ended, Unrecorded
  <2> QED BY <1>s, <1>b, <2>1, <2>2 DEF Still
<1>2. CASE QueueStarted \/ QueueDetailFails \/ QueueFinishedFails
  BY <1>2, <1>w DEF QueueStarted, QueueDetailFails, QueueFinishedFails, Fails, resultVars
<1>3. CASE QueueFinished
  <2>1. /\ failed = "none" /\ failed' = "none" /\ ret' = ret /\ pc = "qstat" /\ pc' = "qstat"
        /\ result_queues' = result_queues \cup {queue_instance_summary}
    BY <1>3 DEF QueueFinished, Walking
  <2>2. queue_instance_summary \in Queues \ result_queues
    BY <1>3, <2>1 DEF QueueFinished, InQueue, IInv, SectionUnderWay, QueuesOver
  <2>3. Promise!Give(queue_instance_summary)
    BY <2>1, <2>2 DEF Promise!Give, Promise!UnderWay, Unrecorded
  <2> QED BY <2>2, <2>3 DEF Promise!Next
<1>4. CASE JobHandler
  BY <1>4, <1>w DEF JobHandler, Job, JobDetail, JobFails, JobFinished, Fails, resultVars
<1>5. CASE ListHandler
  BY <1>5, <1>w DEF ListHandler, ListStarted, JobsFinished, JobsFinishedFails, resultVars
<1>6. CASE WalkFails
  BY <1>6, <1>w DEF WalkFails, Fails, resultVars
<1>7. CASE QstatReturns
  <2>1. /\ failed' = failed /\ result_queues' = result_queues /\ pc = "qstat" /\ pc' = "error"
        /\ ret' = IF result # "SUCCESS" THEN result ELSE job_result
    BY <1>7 DEF QstatReturns, WalkOver, resultVars
  <2>2. failed = "none" => ret' = "SUCCESS"
    BY <2>1 DEF IInv, FailureRecorded
  <2> QED BY <1>s, <2>1, <2>2 DEF Still, Broken, Ended
<1>8. CASE Return
  <2>1. thrown' <=> ret # "SUCCESS"
    BY <1>8, Zenon DEF Return
  <2>2. pc = "error" /\ pc' = "done" /\ UNCHANGED <<result_queues, failed, ret>>
    BY <1>8 DEF Return, resultVars
  <2>3. Broken' = Broken /\ Ended = "no"
    BY <2>2 DEF Broken, Ended
  <2>4. CASE ret = "SUCCESS"
    <3>1. Ended' = "returned"
      BY <2>1, <2>2, <2>4 DEF Ended
    <3>2. failed = "none" => result_queues = Queues
      BY <2>2, <2>4, NoQueueAssumption DEF IInv, OutcomeKnown, NothingLost, WalkDone, Sections
    <3>3. failed \in Unrecorded \cup {"none"}
      BY <2>2, <2>4 DEF IInv, TypeOK, OutcomeKnown, Unrecorded, Handlers
    <3>4. Broken = "unrecorded" \/ (Broken = "no" /\ result_queues = Queues)
      BY <2>4, <3>2, <3>3 DEF Broken, Unrecorded
    <3>5. Promise!Return
      BY <2>2, <2>3, <3>1, <3>4 DEF Promise!Return, Broken, Ended
    <3> QED BY <3>5 DEF Promise!Next
  <2>5. CASE ret # "SUCCESS"
    <3>1. Ended' = "thrown"
      BY <2>1, <2>2, <2>5 DEF Ended
    <3>2. Broken = "recorded"
      BY <2>5 DEF Broken
    <3>3. Promise!Throw
      BY <2>2, <2>3, <3>1, <3>2 DEF Promise!Throw, Broken, Ended
    <3> QED BY <3>3 DEF Promise!Next
  <2> QED BY <2>4, <2>5
<1>9. CASE UNCHANGED vars
  BY <1>9, <1>s DEF vars, resultVars, Still, Broken, Ended
<1> QED BY <1>1, <1>2, <1>3, <1>4, <1>5, <1>6, <1>7, <1>8, <1>9 DEF Next, QueueHandler

(* ImplementsReport: nativeFillQueueInstanceSummary keeps the promise,     *)
(* whatever the queues, the jobs and the order of the handlers.            *)
THEOREM ReportImplemented == Spec => ImplementsReport
<1>1. Init => FailureKnown
  BY DEF Init, FailureKnown, Unrecorded
<1>2. IInv /\ FailureKnown /\ [Next]_vars => FailureKnown'
  BY FailureKnownStep
<1>3. Init => Promise!Init
  BY DEF Init, Promise!Init, Unrecorded
<1>4. IInv /\ FailureKnown /\ [Next]_vars => [Promise!Next]_(Promise!vars)
  BY PromiseStep
<1> QED BY <1>1, <1>2, <1>3, <1>4, Invariance, PTL DEF Spec, ImplementsReport, Promise!Spec
=============================================================================
