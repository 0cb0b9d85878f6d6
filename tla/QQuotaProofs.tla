---------------------------- MODULE QQuotaProofs ----------------------------
(***************************************************************************)
(* Proofs about QQuota, for any rules, values and hosts.                   *)
(***************************************************************************)
EXTENDS QQuota, TLAPS

(* Every variable keeps its type. *)
LEMMA TypeInit == Init => TypeOK
<1> SUFFICES ASSUME Init PROVE TypeOK
  OBVIOUS
<1>1. thrown \in BOOLEAN
  BY Zenon DEF Init
<1>2. i \in FilterIndices
  BY DEF Init, FilterIndices
<1>3. content \in [Rules -> SUBSET Values]
  BY DEF Init
<1>4. QED
  BY <1>1, <1>2, <1>3 DEF Init, TypeOK, Results

LEMMA TypeStep == TypeOK /\ [Next]_vars => TypeOK'
<1> SUFFICES ASSUME TypeOK, [Next]_vars PROVE TypeOK'
  OBVIOUS
<1> USE DEF TypeOK, Results, Failures
<1>1. CASE Filtering
  BY <1>1 DEF Filtering, Start, GetterFails, FilterIsNull, ListFails, ListBuilt,
     Request, NextFilter, FilterIndices, HostFilter, handlerVars, driverVars, filterVars
<1>2. CASE RuleBegin \/ RuleBeginFails \/ RuleBeginNoRef
  BY <1>2 DEF RuleBegin, RuleBeginFails, RuleBeginNoRef, Reporting, handlerVars,
     driverVars, filterVars
<1>3. CASE ValueAdded \/ ValueFails
  BY <1>3 DEF ValueAdded, ValueFails, Reporting, handlerVars, driverVars, filterVars
<1>4. CASE RuleFinished \/ RuleFinishedFails
  BY <1>4 DEF RuleFinished, RuleFinishedFails, Reporting, handlerVars, driverVars,
     filterVars
<1>5. CASE OutputFails \/ OutputReturns \/ DestroyHandler
  BY <1>5 DEF OutputFails, Reporting, OutputReturns, DestroyHandler, handlerVars, driverVars, filterVars
<1>6. CASE Return
  <2>1. thrown' \in BOOLEAN
    BY <1>6, Zenon DEF Return
  <2>2. QED
    BY <1>6, <2>1 DEF Return, handlerVars, driverVars
<1>7. CASE UNCHANGED vars
  BY <1>7 DEF vars, handlerVars, driverVars, filterVars
<1>8. QED
  BY <1>1, <1>2, <1>3, <1>4, <1>5, <1>6, <1>7 DEF Next, Callback

-----------------------------------------------------------------------------
(* The invariant holds at first, and each step of the native, of a         *)
(* callback and of the driver keeps it.                                    *)
LEMMA InvariantInit == Init => IInv
<1> SUFFICES ASSUME Init PROVE IInv
  OBVIOUS
<1>1. QED
  BY TypeInit, NoRuleAssumption DEF Init, IInv, ListsBuilt, RuleUnderWay,
     RulesAccounted, OutcomeKnown, ReportIsFiltered, RulesComplete,
     NormalReturnIsComplete

LEMMA InvariantStep == IInv /\ [Next]_vars => IInv'
<1> SUFFICES ASSUME IInv, [Next]_vars PROVE IInv'
  OBVIOUS
<1> USE NoRuleAssumption
<1> USE DEF IInv, ListsBuilt, RuleUnderWay, RulesAccounted, OutcomeKnown,
            ReportIsFiltered, RulesComplete, NormalReturnIsComplete
<1>1. TypeOK /\ TypeOK'
  BY TypeStep
<1>2. CASE Filtering
  <2>1. CASE Start
    BY <1>1, <2>1 DEF Start, handlerVars, driverVars, filterVars, Failures
  <2>2. CASE GetterFails \/ ListFails
    BY <1>1, <2>2 DEF GetterFails, ListFails, handlerVars, driverVars, filterVars,
       Failures
  <2>3. CASE FilterIsNull
    BY <1>1, <2>3 DEF FilterIsNull, NextFilter, handlerVars, driverVars
  <2>4. CASE ListBuilt
    BY <1>1, <2>4 DEF ListBuilt, NextFilter, handlerVars, driverVars
  <2>5. CASE Request
    BY <1>1, <2>5 DEF Request, handlerVars, driverVars, filterVars
  <2>6. QED
    BY <1>2, <2>1, <2>2, <2>3, <2>4, <2>5 DEF Filtering
<1>3. CASE RuleBegin
  BY <1>1, <1>3 DEF RuleBegin, Reporting, filterVars, TypeOK
<1>4. CASE RuleBeginFails \/ RuleBeginNoRef
  BY <1>1, <1>4 DEF RuleBeginFails, RuleBeginNoRef, Reporting, filterVars
<1>5. CASE ValueAdded
  BY <1>1, <1>5 DEF ValueAdded, Reporting, filterVars, TypeOK
<1>6. CASE ValueFails
  BY <1>1, <1>6 DEF ValueFails, Reporting, handlerVars, filterVars
<1>7. CASE RuleFinished
  BY <1>1, <1>7 DEF RuleFinished, Reporting, driverVars, filterVars, TypeOK
<1>8. CASE RuleFinishedFails
  BY <1>1, <1>8 DEF RuleFinishedFails, Reporting, handlerVars, filterVars
<1>9. CASE OutputReturns
  BY <1>1, <1>9 DEF OutputReturns, handlerVars, driverVars, filterVars
<1>10. CASE DestroyHandler
  BY <1>1, <1>10 DEF DestroyHandler, driverVars, filterVars
<1>11. CASE Return
  BY <1>1, <1>11 DEF Return, handlerVars, driverVars
<1>12. CASE UNCHANGED vars
  BY <1>1, <1>12 DEF vars, handlerVars, driverVars, filterVars
<1>13. CASE OutputFails
  BY <1>1, <1>13 DEF OutputFails, Reporting, handlerVars, filterVars
<1>14. QED
  BY <1>2, <1>3, <1>4, <1>5, <1>6, <1>7, <1>8, <1>9, <1>10, <1>11, <1>12, <1>13
     DEF Next, Callback

(* The invariant of getQQuota: what the loop, the driver and the handler   *)
(* know of the filters and of the rules agrees.                            *)
THEOREM Invariance == Spec => []IInv
BY InvariantInit, InvariantStep, PTL DEF Spec

(* Every variable keeps its type. *)
THEOREM TypeCorrect == Spec => []TypeOK
<1>1. IInv => TypeOK
  BY DEF IInv
<1>2. QED
  BY <1>1, Invariance, PTL

(* qquota_output only runs when each filter of the options has its list.   *)
THEOREM ReportsAreFiltered == Spec => []ReportIsFiltered
<1>1. IInv => ReportIsFiltered
  BY DEF IInv
<1>2. QED
  BY <1>1, Invariance, PTL

(* No half-built rule is in the result.                                    *)
THEOREM RulesAreComplete == Spec => []RulesComplete
<1>1. IInv => RulesComplete
  BY DEF IInv
<1>2. QED
  BY <1>1, Invariance, PTL

(* The handler's global reference is deleted on every path.                *)
THEOREM ReferencesAreReleased == Spec => []RefsReleased
<1>1. IInv => RefsReleased
  BY NoRuleAssumption DEF IInv, RuleUnderWay, RefsReleased
<1>2. QED
  BY <1>1, Invariance, PTL

(* Without an exception the result holds every rule, or qquota_output or a *)
(* callback failed and recorded nothing.                                   *)
THEOREM NormalReturns == Spec => []NormalReturnIsComplete
<1>1. IInv => NormalReturnIsComplete
  BY DEF IInv
<1>2. QED
  BY <1>1, Invariance, PTL

-----------------------------------------------------------------------------
(* How far the violation of HostsResolved goes. *)

(* A report that runs with host names that were not replaced was let       *)
(* through by the list of a later filter, whose success is what ret says.  *)
LaterFilterHid ==
  pc = "output" /\ unresolved # {} =>
    HostFilter \in lists /\ \E f \in lists : f > HostFilter

(* Until the request, ret is the outcome of the last list built: SUCCESS   *)
(* beside an unresolved name takes a list built after the host list.       *)
LastListKnown ==
  /\ pc = "output" => ret = "SUCCESS"
  /\ pc = "start" => unresolved = {}
  /\ pc = "filters" /\ i = HostFilter => unresolved = {}
  /\ pc \in {"filters", "request", "output"} /\ unresolved # {} =>
       HostFilter \in lists /\ (ret = "SUCCESS" => \E f \in lists : f > HostFilter)

(* Each step keeps that. *)
LEMMA LastListStep ==
  ASSUME TypeOK, LastListKnown, [Next]_vars PROVE LastListKnown'
<1> USE DEF LastListKnown, HostFilter, FilterIndices, TypeOK
<1>1. CASE Start
  BY <1>1 DEF Start, filterVars
<1>2. CASE GetterFails \/ ListFails
  BY <1>2 DEF GetterFails, ListFails, filterVars, Failures
<1>3. CASE FilterIsNull
  BY <1>3 DEF FilterIsNull, NextFilter
<1>4. CASE ListBuilt
  BY <1>4 DEF ListBuilt, NextFilter
<1>5. CASE Request
  BY <1>5 DEF Request, filterVars
<1>6. CASE Callback \/ OutputFails
  BY <1>6 DEF Callback, RuleBegin, RuleBeginFails, RuleBeginNoRef, ValueAdded, ValueFails,
     RuleFinished, RuleFinishedFails, OutputFails, Reporting, filterVars
<1>7. CASE OutputReturns \/ DestroyHandler \/ Return
  BY <1>7 DEF OutputReturns, DestroyHandler, Return
<1>8. CASE UNCHANGED vars
  BY <1>8 DEF vars, filterVars
<1> QED BY <1>1, <1>2, <1>3, <1>4, <1>5, <1>6, <1>7, <1>8 DEF Next, Filtering

(* HostsResolved fails in one way only: with a host list as the only list, *)
(* a name that cannot be resolved does keep qquota_output from running.    *)
THEOREM OnlyLaterFiltersHide == Spec => []LaterFilterHid
<1>1. Init => LastListKnown
  BY DEF Init, LastListKnown
<1>2. TypeOK /\ LastListKnown /\ [Next]_vars => LastListKnown'
  BY LastListStep
<1>3. LastListKnown => LaterFilterHid
  BY DEF LastListKnown, LaterFilterHid
<1> QED BY <1>1, <1>2, <1>3, TypeCorrect, PTL DEF Spec

-----------------------------------------------------------------------------
(* The report promised to the caller. *)

(* A rule is still to be begun, under way or in the result, in one of them *)
(* only; and before the output nothing has failed.                         *)
RulesOnce ==
  /\ qquota_info \notin todo /\ todo \cap qquota_result = {}
  /\ qquota_info \notin qquota_result
  /\ pc \in {"start", "filters", "request"} => failed = "none" /\ qquota_result = {}
  /\ pc = "reported" => ret = result
  /\ pc \in {"error", "done"} /\ failed # "none" => ret = result
  /\ pc # "done" => ~thrown
  /\ pc = "done" => (thrown <=> ret # "SUCCESS")

(* Each step keeps that. *)
LEMMA RulesOnceStep ==
  ASSUME IInv, RulesOnce, [Next]_vars PROVE RulesOnce'
<1> USE NoRuleAssumption DEF RulesOnce
<1>t. TypeOK
  BY DEF IInv
<1>1. CASE Filtering
  BY <1>t, <1>1 DEF Filtering, Start, GetterFails, FilterIsNull, ListFails, ListBuilt, Request,
     NextFilter, handlerVars, driverVars
<1>2. CASE RuleBegin
  <2>1. PICK r \in todo : todo' = todo \ {r} /\ qquota_info' = r
    BY <1>2 DEF RuleBegin
  <2> QED BY <1>t, <1>2, <2>1 DEF RuleBegin, Reporting, TypeOK
<1>3. CASE RuleBeginFails \/ RuleBeginNoRef
  BY <1>3 DEF RuleBeginFails, RuleBeginNoRef, Reporting
<1>4. CASE ValueAdded \/ ValueFails
  BY <1>4 DEF ValueAdded, ValueFails, Reporting, handlerVars
<1>5. CASE RuleFinished
  BY <1>t, <1>5 DEF RuleFinished, Reporting, driverVars, TypeOK
<1>6. CASE RuleFinishedFails \/ OutputFails
  BY <1>6 DEF RuleFinishedFails, OutputFails, Reporting, handlerVars
<1>7. CASE OutputReturns
  BY <1>7 DEF OutputReturns, handlerVars, driverVars
<1>8. CASE DestroyHandler
  BY <1>t, <1>8 DEF DestroyHandler, driverVars, TypeOK
<1>9. CASE Return
  <2>1. thrown' <=> ret # "SUCCESS"
    BY <1>9, Zenon DEF Return
  <2> QED BY <1>9, <2>1 DEF Return, handlerVars, driverVars
<1>10. CASE UNCHANGED vars
  BY <1>10 DEF vars, handlerVars, driverVars
<1> QED BY <1>1, <1>2, <1>3, <1>4, <1>5, <1>6, <1>7, <1>8, <1>9, <1>10 DEF Next, Callback

(* The promise's variables, for the provers. *)
Broken ==
  IF failed # "none"
    THEN IF result = "SUCCESS" THEN "unrecorded" ELSE "recorded"
    ELSE IF pc \in {"error", "done"} /\ ret # "SUCCESS" THEN "recorded" ELSE "no"
Ended == IF pc # "done" THEN "no" ELSE IF thrown THEN "thrown" ELSE "returned"
Still == qquota_result' = qquota_result /\ Broken' = Broken /\ Ended' = Ended

(* Every step of getQQuota is a step of the promise, or changes nothing of *)
(* it.                                                                     *)
LEMMA PromiseStep ==
  ASSUME IInv, RulesOnce, [Next]_vars PROVE [Promise!Next]_(Promise!vars)
<1> USE NoRuleAssumption DEF RulesOnce
<1>t. TypeOK
  BY DEF IInv
<1>s. ASSUME Still PROVE UNCHANGED Promise!vars
  BY <1>s DEF Still, Broken, Ended, Promise!vars
<1>b. ASSUME Broken = "no", Ended = "no", Broken' \in {"recorded", "unrecorded"}, Ended' = "no",
             qquota_result' = qquota_result
      PROVE  Promise!Next
  <2>1. Promise!Break
    BY <1>b DEF Promise!Break, Promise!UnderWay, Broken, Ended
  <2> QED BY <2>1 DEF Promise!Next
<1>1. CASE Start \/ GetterFails \/ FilterIsNull \/ ListFails \/ ListBuilt \/ Request
  <2>1. qquota_result' = qquota_result /\ failed = "none" /\ failed' = "none"
        /\ pc \in {"start", "filters", "request"} /\ pc' # "done"
    BY <1>1 DEF Start, GetterFails, FilterIsNull, ListFails, ListBuilt, Request, NextFilter,
       handlerVars, driverVars
  <2>2. Broken = "no" /\ Ended = "no" /\ Ended' = "no"
    BY <2>1 DEF Broken, Ended
  <2>3. CASE pc' = "error" /\ ret' # "SUCCESS"
    BY <1>b, <2>1, <2>2, <2>3 DEF Broken
  <2>4. CASE ~(pc' = "error" /\ ret' # "SUCCESS")
    <3>1. Broken' = "no"
      BY <2>1, <2>4 DEF Broken
    <3> QED BY <1>s, <2>1, <2>2, <3>1 DEF Still
  <2> QED BY <2>3, <2>4
<1>2. CASE RuleBegin \/ ValueAdded
  <2>1. failed = "none" /\ failed' = "none" /\ pc = "output" /\ pc' = "output"
        /\ qquota_result' = qquota_result
    BY <1>2 DEF RuleBegin, ValueAdded, Reporting
  <2> QED BY <1>s, <2>1 DEF Still, Broken, Ended
<1>3. CASE RuleBeginFails \/ RuleBeginNoRef \/ ValueFails \/ RuleFinishedFails \/ OutputFails
  <2>1. failed = "none" /\ failed' # "none" /\ pc = "output" /\ pc' = "output"
        /\ qquota_result' = qquota_result
    BY <1>3 DEF RuleBeginFails, RuleBeginNoRef, ValueFails, RuleFinishedFails, OutputFails,
       Reporting, handlerVars
  <2> QED BY <1>b, <2>1 DEF Broken, Ended
<1>4. CASE RuleFinished
  <2>1. qquota_info \in Rules /\ qquota_info \notin qquota_result
    BY <1>t, <1>4 DEF RuleFinished, TypeOK
  <2>2. failed = "none" /\ failed' = "none" /\ pc = "output" /\ pc' = "output"
        /\ qquota_result' = qquota_result \cup {qquota_info}
    BY <1>4 DEF RuleFinished, Reporting, driverVars
  <2>3. Promise!Give(qquota_info)
    BY <2>1, <2>2 DEF Promise!Give, Promise!UnderWay
  <2> QED BY <2>1, <2>3 DEF Promise!Next
<1>5. CASE OutputReturns \/ DestroyHandler
  <2>1. qquota_result' = qquota_result /\ failed' = failed /\ result' = result
        /\ pc \notin {"error", "done"} /\ pc' # "done"
    BY <1>5 DEF OutputReturns, DestroyHandler, handlerVars, driverVars
  <2>2. failed = "none" /\ pc' \in {"error", "done"} => ret' = "SUCCESS"
    BY <1>5 DEF OutputReturns, DestroyHandler, IInv, RulesAccounted
  <2> QED BY <1>s, <2>1, <2>2 DEF Still, Broken, Ended
<1>6. CASE Return
  <2>1. thrown' <=> ret # "SUCCESS"
    BY <1>6, Zenon DEF Return
  <2>2. pc = "error" /\ pc' = "done"
        /\ UNCHANGED <<qquota_result, failed, result, ret>>
    BY <1>6 DEF Return, handlerVars, driverVars
  <2>3. Broken' = Broken /\ Ended = "no"
    BY <2>2 DEF Broken, Ended
  <2>4. CASE ret = "SUCCESS"
    <3>1. Ended' = "returned"
      BY <2>1, <2>2, <2>4 DEF Ended
    <3>2. Broken = "unrecorded" \/ (Broken = "no" /\ qquota_result = Rules)
      BY <2>2, <2>4 DEF Broken, IInv, OutcomeKnown
    <3>3. Promise!Return
      BY <2>2, <2>3, <3>1, <3>2 DEF Promise!Return, Broken, Ended
    <3> QED BY <3>3 DEF Promise!Next
  <2>5. CASE ret # "SUCCESS"
    <3>1. Ended' = "thrown"
      BY <2>1, <2>2, <2>5 DEF Ended
    <3>2. Broken = "recorded"
      BY <2>2, <2>5 DEF Broken
    <3>3. Promise!Throw
      BY <2>2, <2>3, <3>1, <3>2 DEF Promise!Throw, Broken, Ended
    <3> QED BY <3>3 DEF Promise!Next
  <2> QED BY <2>4, <2>5
<1>7. CASE UNCHANGED vars
  BY <1>7, <1>s DEF vars, handlerVars, driverVars, Still, Broken, Ended
<1> QED BY <1>1, <1>2, <1>3, <1>4, <1>5, <1>6, <1>7 DEF Next, Filtering, Callback

(* ImplementsReport: getQQuota keeps the promise, whatever the rules.      *)
THEOREM ReportImplemented == Spec => ImplementsReport
<1>1. Init => RulesOnce
  BY NoRuleAssumption DEF Init, RulesOnce
<1>2. IInv /\ RulesOnce /\ [Next]_vars => RulesOnce'
  BY RulesOnceStep
<1>3. Init => Promise!Init
  BY DEF Init, Promise!Init
<1>4. IInv /\ RulesOnce /\ [Next]_vars => [Promise!Next]_(Promise!vars)
  BY PromiseStep
<1> QED BY <1>1, <1>2, <1>3, <1>4, Invariance, PTL DEF Spec, ImplementsReport, Promise!Spec
=============================================================================
