----------------------------- MODULE QstatReport -----------------------------
(***************************************************************************)
(* nativeFillQueueInstanceSummary (pygdi_qstat.c): qstat_no_group walks    *)
(* the queue instances and the job lists of the cluster and calls the      *)
(* handlers, which build the Java objects.  The job handlers know nothing  *)
(* of queues and lists: they collect the jobs in one ArrayList, job_ctx's, *)
(* which the handler that ends a queue's or a list's jobs moves on.        *)
(*                                                                         *)
(* qstat_no_group is not in this repository.  It is taken to report a      *)
(* queue as started, details and jobs in any order, jobs_finished,         *)
(* finished; then the job lists, one after the other, each job as          *)
(* report_job, details, job_finished; and to stop when a handler returns   *)
(* -1.                                                                     *)
(*                                                                         *)
(* Everything the native writes is its own, so one call is modelled, and a *)
(* handler is one step.                                                    *)
(***************************************************************************)
EXTENDS Integers

CONSTANTS
  Queues,   \* the queue instances
  Jobs,     \* the jobs
  NoQueue,  \* a NULL queue_instance_summary; also "no section"
  NoJob     \* a NULL job

(* The lists of jobs without a queue, by the handler that ends them. *)
JobLists == {"pending", "finished", "error", "zombie"}
Sections == Queues \cup JobLists

ASSUME NoQueueAssumption == NoQueue \notin Sections
ASSUME NoJobAssumption == NoJob \notin Jobs
ASSUME QueuesAssumption == Queues \cap JobLists = {}

Results == {"SUCCESS", "ERROR"}
(* The handlers that can fail, as far as their failures are told apart,    *)
(* and the walk itself.                                                    *)
Handlers == {"queue_started", "queue_detail", "queue_finished",
             "job", "jobs_finished", "walk"}

VARIABLES
  pc,                     \* where the native is
  ret,                    \* ret of the native
  queue_instance_summary, \* the queue whose object the handlers fill
  result,                 \* qstat_ctx_t.result
  job,                    \* job_ctx.job: the job whose object they fill
  list,                   \* job_ctx.list: the jobs finished and not moved on
  job_result,             \* job_ctx.result
  added,                  \* the jobs added to each queue's object or result list
  result_queues,          \* the queues added to the result object
  section,                \* what qstat_no_group reports (external)
  queues, lists,          \* the queues and lists it has not started (external)
  reported,               \* the section each job was reported in (external)
  closed,                 \* whether the section's jobs are finished (external)
  failed,                 \* the handler that returned -1, "walk" or "none"
  thrown                  \* whether the native threw

queueVars == <<queue_instance_summary, result>>
jobVars == <<job, list, job_result>>
resultVars == <<added, result_queues>>
driverVars == <<section, queues, lists, reported, closed>>
vars == <<pc, ret, queueVars, jobVars, resultVars, driverVars, failed, thrown>>

TypeOK ==
  /\ pc \in {"filters", "options", "qstat", "error", "done"}
  /\ ret \in Results
  /\ queue_instance_summary \in Queues \cup {NoQueue}
  /\ result \in Results
  /\ job \in Jobs \cup {NoJob}
  /\ list \subseteq Jobs
  /\ job_result \in Results
  /\ added \in [Sections -> SUBSET Jobs]
  /\ result_queues \subseteq Queues
  /\ section \in Sections \cup {NoQueue}
  /\ queues \subseteq Queues
  /\ lists \subseteq JobLists
  /\ reported \in [Jobs -> Sections \cup {NoQueue}]
  /\ closed \in BOOLEAN
  /\ failed \in Handlers \cup {"none"}
  /\ thrown \in BOOLEAN

Init ==
  /\ pc = "filters" /\ ret = "SUCCESS"
  /\ queue_instance_summary = NoQueue /\ result = "SUCCESS"
  /\ job = NoJob /\ list = {} /\ job_result = "SUCCESS"
  /\ added = [s \in Sections |-> {}]
  /\ result_queues = {}
  /\ section = NoQueue /\ queues = Queues /\ lists = JobLists
  /\ reported = [j \in Jobs |-> NoQueue]
  /\ closed = FALSE /\ failed = "none" /\ thrown = FALSE

-----------------------------------------------------------------------------
(* Before the walk the first failure ends the native. *)
SetupStep(from, to) ==
  /\ pc = from
  /\ \/ pc' = to /\ UNCHANGED ret
     \/ pc' = "error" /\ ret' = "ERROR"
  /\ UNCHANGED <<queueVars, jobVars, resultVars, driverVars, failed, thrown>>

(* The GDI context, the filters of the options and pygdi_qstat_env_init. *)
SetupFilters == SetupStep("filters", "options")

(* What the options have shown, the contexts and pygdi_qstat_job_init.  An *)
(* explain character that is none of its four is no failure.               *)
SetupOptions == SetupStep("options", "qstat")

(* qstat_no_group is about to call a handler. *)
Walking == pc = "qstat" /\ failed = "none"
InQueue == section \in Queues
(* A handler of section's jobs may come, or of section itself. *)
BetweenJobs == section # NoQueue /\ job = NoJob /\ ~closed

(* A handler returns -1 and has changed nothing of the contexts. *)
Fails(h) ==
  /\ failed' = h
  /\ UNCHANGED <<pc, ret, resultVars, thrown>>

(* The queue handlers. *)

(* Faulty: the queue's object is added when the queue is started. *)
QueueStarted_Added ==
  /\ Walking /\ section = NoQueue
  /\ \E q \in queues :
       /\ queues' = queues \ {q}
       /\ section' = q
       /\ queue_instance_summary' = q
       /\ result_queues' = result_queues \cup {q}
  /\ UNCHANGED <<pc, ret, result, jobVars, added, lists, reported, closed, failed, thrown>>

(* report_queue_started: a failure is recorded, the queue's object may be  *)
(* there.                                                                  *)
QueueStarted ==
  /\ Walking /\ section = NoQueue
  /\ \E q \in queues :
       /\ queues' = queues \ {q}
       /\ section' = q
       /\ \/ queue_instance_summary' = q /\ result' = "SUCCESS" /\ UNCHANGED failed
          \/ /\ queue_instance_summary' \in {q, queue_instance_summary}
             /\ result' = "ERROR" /\ failed' = "queue_started"
  /\ UNCHANGED <<pc, ret, jobVars, resultVars, lists, reported, closed, thrown>>

(* report_queue_summary, the alarms, report_queue_message and              *)
(* report_queue_resource, which fill the queue's object: a failure is      *)
(* returned, not recorded.                                                 *)
QueueDetailFails ==
  /\ Walking /\ InQueue /\ BetweenJobs
  /\ Fails("queue_detail")
  /\ UNCHANGED <<queueVars, jobVars, driverVars>>

(* report_queue_finished. *)
QueueFinished ==
  /\ Walking /\ InQueue /\ closed
  /\ result_queues' = result_queues \cup {queue_instance_summary}
  /\ queue_instance_summary' = NoQueue
  /\ section' = NoQueue /\ closed' = FALSE
  /\ UNCHANGED <<pc, ret, result, jobVars, added, queues, lists, reported, failed, thrown>>

(* The queue's object cannot be added: it stays where it is. *)
QueueFinishedFails ==
  /\ Walking /\ InQueue /\ closed
  /\ Fails("queue_finished")
  /\ UNCHANGED <<queueVars, jobVars, driverVars>>

(* The job handlers; each records how it ended. *)

(* report_job. *)
Job ==
  /\ Walking /\ BetweenJobs
  /\ \E j \in Jobs :
       /\ reported[j] = NoQueue
       /\ reported' = [reported EXCEPT ![j] = section]
       /\ job' = j
  /\ job_result' = "SUCCESS"
  /\ UNCHANGED <<pc, ret, queueVars, list, resultVars, section, queues, lists, closed,
                 failed, thrown>>

(* report_sub_task, ..., report_ad_predecessor: a detail of the job. *)
JobDetail ==
  /\ Walking /\ job # NoJob
  /\ job_result' = "SUCCESS"
  /\ UNCHANGED <<pc, ret, queueVars, job, list, resultVars, driverVars, failed, thrown>>

(* report_job or one of the details fails. *)
JobFails ==
  /\ Walking /\ (BetweenJobs \/ job # NoJob)
  /\ Fails("job")
  /\ job_result' = "ERROR"
  /\ UNCHANGED <<queueVars, job, list, driverVars>>

(* report_job_finished: List_add; the object is given up either way. *)
JobFinished ==
  /\ Walking /\ job # NoJob
  /\ \/ list' = list \cup {job} /\ job_result' = "SUCCESS" /\ UNCHANGED failed
     \/ UNCHANGED list /\ job_result' = "ERROR" /\ failed' = "job"
  /\ job' = NoJob
  /\ UNCHANGED <<pc, ret, queueVars, resultVars, driverVars, thrown>>

(* The handlers that end a section's jobs. *)

(* qstat_no_group is done with the queues and turns to a job list. *)
ListStarted ==
  /\ Walking /\ section = NoQueue /\ queues = {}
  /\ \E l \in lists : lists' = lists \ {l} /\ section' = l
  /\ UNCHANGED <<pc, ret, queueVars, jobVars, resultVars, queues, reported, closed,
                 failed, thrown>>

(* The object the jobs are added to: a queue's, or a list of the result's. *)
Destination == IF InQueue THEN queue_instance_summary ELSE section

(* Faulty: the list is not cleared. *)
JobsFinished_NoClear ==
  /\ Walking /\ BetweenJobs
  /\ added' = [added EXCEPT ![Destination] = @ \cup list]
  /\ IF InQueue THEN closed' = TRUE /\ UNCHANGED section
                ELSE section' = NoQueue /\ UNCHANGED closed
  /\ UNCHANGED <<pc, ret, queueVars, jobVars, result_queues, queues, lists, reported,
                 failed, thrown>>

(* report_queue_jobs_finished, report_pending_jobs_finished, ...: the list *)
(* is added to its destination and cleared.                                *)
JobsFinished ==
  /\ Walking /\ BetweenJobs
  /\ added' = [added EXCEPT ![Destination] = @ \cup list]
  /\ list' = {}
  /\ IF InQueue THEN closed' = TRUE /\ UNCHANGED section
                ELSE section' = NoQueue /\ UNCHANGED closed
  /\ UNCHANGED <<pc, ret, queueVars, job, job_result, result_queues, queues, lists,
                 reported, failed, thrown>>

(* Faulty: the handler goes on to clear the list, and returns 0. *)
JobsFinishedFails_Silent ==
  /\ Walking /\ BetweenJobs
  /\ list' = {}
  /\ IF InQueue THEN closed' = TRUE /\ UNCHANGED section
                ELSE section' = NoQueue /\ UNCHANGED closed
  /\ UNCHANGED <<pc, ret, queueVars, job, job_result, resultVars, queues, lists,
                 reported, failed, thrown>>

(* The list cannot be added, or not be cleared once it is. *)
JobsFinishedFails ==
  /\ Walking /\ BetweenJobs
  /\ \/ UNCHANGED added
     \/ added' = [added EXCEPT ![Destination] = @ \cup list]
  /\ failed' = "jobs_finished"
  /\ UNCHANGED <<pc, ret, queueVars, jobVars, result_queues, driverVars, thrown>>

-----------------------------------------------------------------------------
(* qstat_no_group fails by itself, in a request of its own say. *)
WalkFails ==
  /\ Walking
  /\ Fails("walk")
  /\ UNCHANGED <<queueVars, jobVars, driverVars>>

(* qstat_no_group returns; what it returns is not looked at. *)
WalkDone == section = NoQueue /\ queues = {} /\ lists = {}
WalkOver == pc = "qstat" /\ (failed # "none" \/ WalkDone)

(* Faulty: only the queue handlers' result is looked at. *)
QstatReturns_QueueOnly ==
  /\ WalkOver
  /\ ret' = result
  /\ pc' = "error"
  /\ UNCHANGED <<queueVars, jobVars, resultVars, driverVars, failed, thrown>>

QstatReturns ==
  /\ WalkOver
  /\ ret' = IF result # "SUCCESS" THEN result ELSE job_result
  /\ pc' = "error"
  /\ UNCHANGED <<queueVars, jobVars, resultVars, driverVars, failed, thrown>>

(* The label error. *)
Return ==
  /\ pc = "error"
  /\ thrown' = (ret # "SUCCESS")
  /\ pc' = "done"
  /\ UNCHANGED <<ret, queueVars, jobVars, resultVars, driverVars, failed>>

QueueHandler == QueueStarted \/ QueueDetailFails \/ QueueFinished \/ QueueFinishedFails
JobHandler == Job \/ JobDetail \/ JobFails \/ JobFinished
ListHandler == ListStarted \/ JobsFinished \/ JobsFinishedFails

Next ==
  \/ SetupFilters \/ SetupOptions
  \/ QueueHandler \/ JobHandler \/ ListHandler
  \/ WalkFails \/ QstatReturns \/ Return

Spec == Init /\ [][Next]_vars

-----------------------------------------------------------------------------
(* Properties. *)

(* A job is only ever added to the queue or list it was reported in,       *)
(* although one ArrayList carries the jobs of all of them.                 *)
JobsWhereReported ==
  \A s \in Sections : \A j \in added[s] : reported[j] = s

(* A queue in the result has all the jobs that were reported in it.        *)
QueuesComplete ==
  \A q \in result_queues : \A j \in Jobs : reported[j] = q => j \in added[q]

(* A caller who sees no exception has every queue, and each job that was   *)
(* reported, or the walk or a handler failed whose failures are not        *)
(* recorded (all but report_queue_started and the job handlers).           *)
NormalReturnIsComplete ==
  pc = "done" /\ ~thrown =>
    \/ failed \in {"queue_detail", "queue_finished", "jobs_finished", "walk"}
    \/ /\ result_queues = Queues
       /\ \A j \in Jobs : reported[j] # NoQueue => j \in added[reported[j]]

(* The result of the job handlers, which every job handler overwrites,     *)
(* still tells of the failure when qstat_no_group returns.                 *)
RecordedFailureIsThrown ==
  pc = "done" /\ failed \in {"queue_started", "job"} => thrown
-----------------------------------------------------------------------------
(* The inductive invariant. *)

(* The jobs in the handlers' hands are those of the section under way, and *)
(* its queue is the one whose object the handlers hold.                    *)
SectionUnderWay ==
  /\ \A j \in list \cup ({job} \cap Jobs) : reported[j] = section
  /\ section = NoQueue \/ closed => list = {} /\ job = NoJob
  /\ failed = "none" =>
       queue_instance_summary = IF InQueue THEN section ELSE NoQueue
  /\ closed => InQueue

(* Until a handler fails, no job is lost between its report and the object *)
(* it belongs to, and no queue between its start and the result.           *)
NothingLost ==
  failed = "none" =>
    /\ \A j \in Jobs : reported[j] # NoQueue =>
         j \in added[reported[j]] \cup list \cup {job}
    /\ Queues = queues \cup result_queues \cup ({section} \cap Queues)

(* A queue in the result is done with. *)
QueuesOver ==
  /\ result_queues \cap (queues \cup {section}) = {}
  /\ section \notin queues

(* What the two contexts record of a failure. *)
FailureRecorded ==
  /\ failed = "none" => result = "SUCCESS" /\ job_result = "SUCCESS"
  /\ failed = "queue_started" => result = "ERROR"
  /\ failed = "job" => job_result = "ERROR"

(* ret once it is known. *)
OutcomeKnown ==
  /\ pc \in {"filters", "options"} => ret = "SUCCESS"
  /\ pc = "error" /\ ret = "SUCCESS" =>
       /\ failed \notin {"queue_started", "job"}
       /\ failed = "none" => WalkDone

IInv ==
  /\ TypeOK /\ SectionUnderWay /\ NothingLost /\ QueuesOver /\ FailureRecorded
  /\ OutcomeKnown /\ JobsWhereReported /\ QueuesComplete
  /\ NormalReturnIsComplete /\ RecordedFailureIsThrown

-----------------------------------------------------------------------------
(* The report promised to the caller, as far as the queues go.             *)
Unrecorded == {"queue_detail", "queue_finished", "jobs_finished", "walk"}

Promise == INSTANCE ReportPromise WITH
  Items <- Queues,
  given <- result_queues,
  broken <- IF failed \in Unrecorded THEN "unrecorded"
            ELSE IF failed # "none" \/ ret # "SUCCESS" THEN "recorded" ELSE "no",
  ended <- IF pc # "done" THEN "no" ELSE IF thrown THEN "thrown" ELSE "returned"

(* Each queue is given to the caller once, none after a handler or the     *)
(* walk failed, and the native throws exactly for the failures of its      *)
(* setup, of report_queue_started and of the job handlers, however often   *)
(* the two results are overwritten.                                        *)
ImplementsReport == Promise!Spec
=============================================================================
