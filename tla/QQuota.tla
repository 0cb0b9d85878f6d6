------------------------------- MODULE QQuota -------------------------------
(***************************************************************************)
(* getQQuota (pygdi_qquota.c): the native reads the filters of the Java    *)
(* options, has qquota_output report the resource quota rules, and builds  *)
(* a Java object of each rule in the callbacks of its report handler.      *)
(*                                                                         *)
(* qquota_output is not in this repository.  It is taken to report the     *)
(* rules one after the other, each as begin, values, finished, and to stop *)
(* when a callback returns QQUOTA_ERROR.                                   *)
(*                                                                         *)
(* Everything the native writes is its own, so one call is modelled, and a *)
(* callback is one step.                                                   *)
(***************************************************************************)
EXTENDS Integers

CONSTANTS
  Rules,   \* the limit rules qquota_output has to report
  Values,  \* the limit values and resource values of a rule
  Hosts,   \* the names a host filter can hold
  NoRule   \* no qquota_info

ASSUME NoRuleAssumption == NoRule \notin Rules

(* The indices of filters[]: host, resource, user, pe, project, queue. *)
FilterIndices == 0 .. 5
HostFilter == 0

(* pygdi_result_t, as far as the native tells it apart. *)
Results == {"SUCCESS", "ERROR", "ILLEGAL_STATE"}
Failures == Results \ {"SUCCESS"}

VARIABLES
  pc,           \* where the native is
  i,            \* the filter the loop is at
  ret,          \* ret of the native
  wanted,       \* the filters the options were found to hold
  lists,        \* the filters whose list is built
  unresolved,   \* the names in the host list sge_resolve_host did not replace
  result,       \* pygdi_report_handler_t.result
  qquota_info,  \* the rule whose object the handler holds, or NoRule
  refs,         \* the rules whose object has a global reference
  content,      \* the values added to the object of each rule
  qquota_result,\* the rules added to the Java result
  todo,         \* the rules qquota_output has not begun (external)
  values,       \* the values of the rule that it has not reported (external)
  failed,       \* the callback that returned QQUOTA_ERROR, "output" when
                \* qquota_output failed by itself, or "none"
  thrown        \* whether the native threw

handlerVars == <<result, qquota_info, refs, content, qquota_result>>
driverVars == <<todo, values, failed>>
filterVars == <<i, wanted, lists, unresolved>>
vars == <<pc, ret, filterVars, handlerVars, driverVars, thrown>>

TypeOK ==
  /\ pc \in {"start", "filters", "request", "output", "reported", "error", "done"}
  /\ i \in FilterIndices
  /\ ret \in Results
  /\ wanted \subseteq FilterIndices
  /\ lists \subseteq FilterIndices
  /\ unresolved \subseteq Hosts
  /\ result \in Results
  /\ qquota_info \in Rules \cup {NoRule}
  /\ refs \subseteq Rules
  /\ content \in [Rules -> SUBSET Values]
  /\ qquota_result \subseteq Rules
  /\ todo \subseteq Rules
  /\ values \subseteq Values
  /\ failed \in {"none", "begin", "value", "finished", "output"}
  /\ thrown \in BOOLEAN

Init ==
  /\ pc = "start" /\ i = 0 /\ ret = "SUCCESS"
  /\ wanted = {} /\ lists = {} /\ unresolved = {}
  /\ result = "SUCCESS" /\ qquota_info = NoRule /\ refs = {}
  /\ content = [r \in Rules |-> {}]
  /\ qquota_result = {}
  /\ todo = Rules /\ values = {} /\ failed = "none"
  /\ thrown = FALSE

-----------------------------------------------------------------------------
(* The filters. *)

(* getGDIContext and QQuotaOptions_find_class. *)
Start ==
  /\ pc = "start"
  /\ \/ pc' = "filters" /\ UNCHANGED ret
     \/ pc' = "error" /\ ret' \in Failures
  /\ UNCHANGED <<filterVars, handlerVars, driverVars, thrown>>

(* The loop goes on to the next filter, or ends. *)
NextFilter ==
  IF i + 1 \in FilterIndices
    THEN i' = i + 1 /\ pc' = "filters"
    ELSE pc' = "request" /\ UNCHANGED i

(* get_methodid fails, or the getter throws. *)
GetterFails ==
  /\ pc = "filters"
  /\ ret' = "ILLEGAL_STATE"
  /\ pc' = "request"
  /\ UNCHANGED <<filterVars, handlerVars, driverVars, thrown>>

(* The options hold no such filter; ret stays what it is. *)
FilterIsNull ==
  /\ pc = "filters"
  /\ NextFilter
  /\ UNCHANGED <<ret, wanted, lists, unresolved, handlerVars, driverVars, thrown>>

(* Faulty: the loop goes on. *)
ListFails_GoesOn ==
  /\ pc = "filters"
  /\ wanted' = wanted \cup {i}
  /\ ret' \in Failures
  /\ NextFilter
  /\ UNCHANGED <<lists, unresolved, handlerVars, driverVars, thrown>>

(* get_string_list fails and the loop ends. *)
ListFails ==
  /\ pc = "filters"
  /\ wanted' = wanted \cup {i}
  /\ ret' \in Failures
  /\ pc' = "request"
  /\ UNCHANGED <<i, lists, unresolved, handlerVars, driverVars, thrown>>

(* get_string_list succeeds.  Of the host filter the names are resolved,   *)
(* up to the first that cannot be; the break there ends the loop over the  *)
(* names only.                                                             *)
ListBuilt ==
  /\ pc = "filters"
  /\ wanted' = wanted \cup {i}
  /\ lists' = lists \cup {i}
  /\ IF i = HostFilter
       THEN unresolved' \in SUBSET Hosts
       ELSE UNCHANGED unresolved
  /\ ret' = IF i = HostFilter /\ unresolved' # {} THEN "ERROR" ELSE "SUCCESS"
  /\ NextFilter
  /\ UNCHANGED <<handlerVars, driverVars, thrown>>

(* pygdi_report_handler_create, which may run out of memory. *)
Request ==
  /\ pc = "request"
  /\ \/ ret = "SUCCESS" /\ pc' = "output" /\ UNCHANGED ret
     \/ ret = "SUCCESS" /\ pc' = "error" /\ ret' = "ILLEGAL_STATE"
     \/ ret # "SUCCESS" /\ pc' = "error" /\ UNCHANGED ret
  /\ UNCHANGED <<filterVars, handlerVars, driverVars, thrown>>

-----------------------------------------------------------------------------
(* The callbacks of the report handler. *)

(* qquota_output is about to call something: no callback has failed. *)
Reporting == pc = "output" /\ failed = "none"

(* The object of the rule cannot be created: the one failure the handler   *)
(* records.                                                                *)
RuleBeginFails ==
  /\ Reporting /\ qquota_info = NoRule
  /\ \E r \in todo : todo' = todo \ {r}
  /\ result' \in Failures
  /\ failed' = "begin"
  /\ UNCHANGED <<pc, ret, filterVars, qquota_info, refs, content, qquota_result,
                 values, thrown>>

(* There is no global reference to be had: the result is SUCCESS. *)
RuleBeginNoRef ==
  /\ Reporting /\ qquota_info = NoRule
  /\ \E r \in todo : todo' = todo \ {r}
  /\ result' = "SUCCESS"
  /\ failed' = "begin"
  /\ UNCHANGED <<pc, ret, filterVars, qquota_info, refs, content, qquota_result,
                 values, thrown>>

RuleBegin ==
  /\ Reporting /\ qquota_info = NoRule
  /\ \E r \in todo :
       /\ todo' = todo \ {r}
       /\ qquota_info' = r
       /\ refs' = refs \cup {r}
  /\ result' = "SUCCESS"
  /\ values' = Values
  /\ UNCHANGED <<pc, ret, filterVars, content, qquota_result, failed, thrown>>

(* report_limit_string_value and report_resource_value. *)
ValueAdded ==
  /\ Reporting /\ qquota_info # NoRule
  /\ \E v \in values :
       /\ values' = values \ {v}
       /\ content' = [content EXCEPT ![qquota_info] = @ \cup {v}]
  /\ UNCHANGED <<pc, ret, filterVars, result, qquota_info, refs, qquota_result,
                 todo, failed, thrown>>

(* Faulty: the callback returns QQUOTA_SUCCESS. *)
ValueFails_Silent ==
  /\ Reporting /\ qquota_info # NoRule
  /\ \E v \in values : values' = values \ {v}
  /\ UNCHANGED <<pc, ret, filterVars, handlerVars, todo, failed, thrown>>

(* An add or set method of the Java object fails; result stays SUCCESS. *)
ValueFails ==
  /\ Reporting /\ qquota_info # NoRule
  /\ \E v \in values : values' = values \ {v}
  /\ failed' = "value"
  /\ UNCHANGED <<pc, ret, filterVars, handlerVars, todo, thrown>>

(* Faulty: qquota_info is forgotten before its reference is deleted. *)
RuleFinished_NoDelete ==
  /\ Reporting /\ qquota_info # NoRule /\ values = {}
  /\ qquota_result' = qquota_result \cup {qquota_info}
  /\ qquota_info' = NoRule
  /\ UNCHANGED <<pc, ret, filterVars, result, refs, content, driverVars, thrown>>

RuleFinished ==
  /\ Reporting /\ qquota_info # NoRule /\ values = {}
  /\ qquota_result' = qquota_result \cup {qquota_info}
  /\ refs' = refs \ {qquota_info}
  /\ qquota_info' = NoRule
  /\ UNCHANGED <<pc, ret, filterVars, result, content, driverVars, thrown>>

(* addResourceQuotaRuleInfo fails: the reference is left to destroy. *)
RuleFinishedFails ==
  /\ Reporting /\ qquota_info # NoRule /\ values = {}
  /\ failed' = "finished"
  /\ UNCHANGED <<pc, ret, filterVars, handlerVars, todo, values, thrown>>

(* qquota_output fails by itself, in a request of its own say. *)
OutputFails ==
  /\ Reporting
  /\ failed' = "output"
  /\ UNCHANGED <<pc, ret, filterVars, handlerVars, todo, values, thrown>>

(* Faulty: the handler's result is not looked at. *)
OutputReturns_NoResult ==
  /\ pc = "output"
  /\ failed # "none" \/ (todo = {} /\ qquota_info = NoRule)
  /\ pc' = "reported"
  /\ UNCHANGED <<ret, filterVars, handlerVars, driverVars, thrown>>

(* qquota_output returns: all is reported, or a callback or it failed.     *)
(* What it returns is not looked at, only the handler's result.            *)
OutputReturns ==
  /\ pc = "output"
  /\ failed # "none" \/ (todo = {} /\ qquota_info = NoRule)
  /\ ret' = result
  /\ pc' = "reported"
  /\ UNCHANGED <<filterVars, handlerVars, driverVars, thrown>>

(* destroy: the reference a failed callback left is deleted. *)
DestroyHandler ==
  /\ pc = "reported"
  /\ refs' = refs \ {qquota_info}
  /\ qquota_info' = NoRule
  /\ pc' = "error"
  /\ UNCHANGED <<ret, filterVars, result, content, qquota_result, driverVars, thrown>>

(* The label error: throw unless ret is SUCCESS, free the lists. *)
Return ==
  /\ pc = "error"
  /\ thrown' = (ret # "SUCCESS")
  /\ lists' = {}
  /\ pc' = "done"
  /\ UNCHANGED <<ret, i, wanted, unresolved, handlerVars, driverVars>>

Filtering == Start \/ GetterFails \/ FilterIsNull \/ ListFails \/ ListBuilt \/ Request
Callback ==
  \/ RuleBegin \/ RuleBeginFails \/ RuleBeginNoRef
  \/ ValueAdded \/ ValueFails
  \/ RuleFinished \/ RuleFinishedFails
Next ==
  \/ Filtering \/ Callback
  \/ OutputFails \/ OutputReturns
  \/ DestroyHandler \/ Return

Spec == Init /\ [][Next]_vars

-----------------------------------------------------------------------------
(* Properties. *)

(* The report runs with the list of every filter the options hold: each    *)
(* failure but that of sge_resolve_host keeps qquota_output from running.  *)
ReportIsFiltered == pc = "output" => lists = wanted

(* A rule in the result carries all its values: no callback failure leaves *)
(* a half-built rule there.                                                *)
RulesComplete == \A r \in qquota_result : content[r] = Values

(* A global reference never outlives the handler that holds it, and a      *)
(* handler holds one at a time.                                            *)
RefsReleased ==
  /\ refs \subseteq {qquota_info}
  /\ pc = "done" => refs = {}

(* A caller who sees no exception has all the rules, or qquota_output or a *)
(* callback failed and recorded nothing in the handler (all failures but   *)
(* the creation of the rule's object): those end the report and are not    *)
(* thrown.                                                                 *)
NormalReturnIsComplete ==
  pc = "done" /\ ~thrown =>
    qquota_result = Rules \/ (failed # "none" /\ result = "SUCCESS")

(* "resolve hostnames and replace them in list" (pygdi_qquota.c:402): no   *)
(* report runs with a host name that was not replaced.                     *)
HostsResolved == pc = "output" => unresolved = {}

-----------------------------------------------------------------------------
(* The inductive invariant. *)

(* Until the loop breaks, every filter it met has its list. *)
ListsBuilt ==
  pc \in {"start", "filters"} \/ (pc = "request" /\ ret = "SUCCESS")
    => lists = wanted

(* The driver's view of the rule under way and the handler's agree. *)
RuleUnderWay ==
  /\ refs = {qquota_info} \cap Rules
  /\ qquota_info # NoRule =>
       pc = "output" \/ (pc = "reported" /\ failed # "none")
  /\ qquota_info # NoRule /\ failed = "none" =>
       content[qquota_info] \cup values = Values

(* Until a callback fails, each rule is still to be begun, under way or in *)
(* the result.                                                             *)
RulesAccounted ==
  failed = "none" =>
    /\ result = "SUCCESS"
    /\ Rules = qquota_result \cup todo \cup ({qquota_info} \cap Rules)

(* ret tells whether the report is complete, as far as it tells. *)
OutcomeKnown ==
  pc \in {"reported", "error"} /\ ret = "SUCCESS" =>
    qquota_result = Rules \/ (failed # "none" /\ result = "SUCCESS")

IInv ==
  /\ TypeOK /\ ListsBuilt /\ RuleUnderWay /\ RulesAccounted /\ OutcomeKnown
  /\ ReportIsFiltered /\ RulesComplete /\ NormalReturnIsComplete

-----------------------------------------------------------------------------
(* The report promised to the caller.  A failure is recorded in ret, or in *)
(* the handler's result, which OutputReturns has for ret.                  *)
Promise == INSTANCE ReportPromise WITH
  Items <- Rules,
  given <- qquota_result,
  broken <- IF failed # "none"
              THEN IF result = "SUCCESS" THEN "unrecorded" ELSE "recorded"
              ELSE IF pc \in {"error", "done"} /\ ret # "SUCCESS" THEN "recorded" ELSE "no",
  ended <- IF pc # "done" THEN "no" ELSE IF thrown THEN "thrown" ELSE "returned"

(* Each rule is given to the caller once, none after a callback or         *)
(* qquota_output failed, and the native throws exactly for the failures    *)
(* that ret or the handler recorded.                                       *)
ImplementsReport == Promise!Spec
=============================================================================
