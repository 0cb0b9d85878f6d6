---------------------------- MODULE ReportPromise ----------------------------
(***************************************************************************)
(* What a native that has a library function report to its callbacks       *)
(* promises: getQQuota (QQuota), nativeFillQueueInstanceSummary            *)
(* (QstatReport) and nativeFillClusterQueueSummary (ClusterSummary).       *)
(*                                                                         *)
(* The caller's object is given the items one by one, each once, and no    *)
(* more after a failure.  The native returns if the object has them all or *)
(* the failure is of the kind nothing records, and throws if it is one     *)
(* that was recorded, and only then.                                       *)
(***************************************************************************)
CONSTANT Items  \* what there is to report

VARIABLES
  given,   \* the items in the caller's object
  broken,  \* the failure there has been: "no", "recorded", "unrecorded"
  ended    \* how the native ended: "no", "returned", "thrown"

vars == <<given, broken, ended>>

Init == given = {} /\ broken = "no" /\ ended = "no"

UnderWay == broken = "no" /\ ended = "no"

Give(x) ==
  /\ UnderWay
  /\ x \notin given
  /\ given' = given \cup {x}
  /\ UNCHANGED <<broken, ended>>

Break ==
  /\ UnderWay
  /\ broken' \in {"recorded", "unrecorded"}
  /\ UNCHANGED <<given, ended>>

Return ==
  /\ ended = "no"
  /\ broken = "unrecorded" \/ (broken = "no" /\ given = Items)
  /\ ended' = "returned"
  /\ UNCHANGED <<given, broken>>

Throw ==
  /\ ended = "no"
  /\ broken = "recorded"
  /\ ended' = "thrown"
  /\ UNCHANGED <<given, broken>>

Next == Break \/ Return \/ Throw \/ \E x \in Items : Give(x)

Spec == Init /\ [][Next]_vars
==============================================================================
