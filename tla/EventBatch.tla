------------------------------ MODULE EventBatch ------------------------------
(***************************************************************************)
(* What the loop of fillEvents promises (pygdi_event.c:620): each event of *)
(* the batch, one after the other, is added to the caller's list or        *)
(* dropped.  EventClient takes the whole loop for one step, FillProcess.   *)
(***************************************************************************)
EXTENDS Naturals

CONSTANT Batch

VARIABLES
  ahead,    \* the events not yet looked at
  added,    \* those in the caller's list
  dropped   \* the others

vars == <<ahead, added, dropped>>

Init == ahead = Batch /\ added = {} /\ dropped = {}

(* The first of the events ahead. *)
First(e) == e \in ahead /\ \A d \in ahead : e <= d

Add(e) ==
  /\ First(e)
  /\ ahead' = ahead \ {e} /\ added' = added \cup {e} /\ UNCHANGED dropped

Drop(e) ==
  /\ First(e)
  /\ ahead' = ahead \ {e} /\ dropped' = dropped \cup {e} /\ UNCHANGED added

Next == \E e \in Batch : Add(e) \/ Drop(e)

Spec == Init /\ [][Next]_vars
===============================================================================
