------------------------ MODULE EventConversionProofs ------------------------
(***************************************************************************)
(* Theorems about EventConversion, for a batch of any size, whatever the   *)
(* new versions of its events hold: what the caller's list and the log     *)
(* hold of each event, and that the loop implements EventBatch.            *)
(***************************************************************************)
EXTENDS EventConversion, TLAPS

(* Nothing has been looked at yet. *)
LEMMA IInvInit == Init => IInv
  BY SizeAssumption
     DEF Init, IInv, TypeOK, TurnsKept, ObjectInHand, AddedWhole, FailuresKnown,
         Ahead, InHand, Batch, AllParts

(* Every variable keeps its type. *)
LEMMA TypeStep == IInv /\ Next => TypeOK'
<1> SUFFICES ASSUME IInv, Next PROVE TypeOK'
  OBVIOUS
<1> USE SizeAssumption DEF TypeOK, input, Batch, Succeeds, Fails, Set
<1>1. TypeOK /\ (InHand => ev \in Batch) /\ (pc = "create" => ev \in Batch)
  BY DEF IInv, TurnsKept, InHand
<1>2. pc \notin {"next", "done"} => ev \in Batch
  BY <1>1 DEF InHand
<1>3. CASE NextEvent
  BY <1>1, <1>3 DEF NextEvent
<1>4. CASE LoopEnds
  BY <1>1, <1>4 DEF LoopEnds
<1>5. CASE Create
  BY <1>1, <1>5 DEF Create, FilledAt
<1>6. CASE FillJob
  <2>1. PICK done \in JobProgress : Set(done)
    BY <1>6 DEF FillJob
  <2>2. done \subseteq AllParts
    BY <2>1 DEF JobProgress, AllParts, JobParts
  <2>3. parts' \in [Batch -> SUBSET AllParts]
    BY <1>1, <2>1, <2>2
  <2> QED BY <1>1, <1>2, <1>6, <2>3 DEF FillJob
<1>7. CASE AddUsage
  <2>1. parts' \in [Batch -> SUBSET AllParts]
    BY <1>1, <1>7 DEF AddUsage, AllParts
  <2> QED BY <1>1, <1>2, <1>7, <2>1 DEF AddUsage
<1>8. CASE UsagesAdded
  BY <1>1, <1>8 DEF UsagesAdded
<1>9. CASE FillChange
  <2>1. parts' \in [Batch -> SUBSET AllParts]
    BY <1>1, <1>9 DEF FillChange, AllParts, ChangeParts
  <2> QED BY <1>1, <1>2, <1>9, <2>1 DEF FillChange
<1>10. CASE AddListElement
  <2>1. parts' \in [Batch -> SUBSET AllParts]
    BY <1>1, <1>10 DEF AddListElement, AllParts
  <2> QED BY <1>1, <1>2, <1>10, <2>1 DEF AddListElement
<1>11. CASE ListFilled
  BY <1>1, <1>11 DEF ListFilled
<1>12. CASE AddEvent
  BY <1>1, <1>2, <1>12 DEF AddEvent
<1>13. CASE Warn
  BY <1>1, <1>13 DEF Warn
<1> QED BY <1>3, <1>4, <1>5, <1>6, <1>7, <1>8, <1>9, <1>10, <1>11, <1>12, <1>13 DEF Next

(* A step on the object in hand keeps what holds of the other events, so   *)
(* that only the event in hand has to be looked at.                        *)
LEMMA InHandStep ==
  ASSUME IInv, InHand, UNCHANGED <<kind, items, ev>>,
         added \subseteq added', added' \subseteq added \cup {ev},
         alp \cup warned \subseteq alp' \cup warned',
         \A e \in Batch : e # ev => parts'[e] = parts[e],
         ev \in added' => pc' = "next" /\ (parts'[ev] = Whole(ev)' \/ UsagesOnly(ev)'),
         pc' \in {"next", "failed", "done"} => Settled(ev)',
         pc' # "create"
  PROVE  TurnsKept' /\ AddedWhole' /\ FailuresKnown'
<1> USE SizeAssumption DEF InHand, Batch
<1>1. ev \in Batch /\ ev \notin added /\ ev \in Nat
  BY DEF IInv, TypeOK, TurnsKept, Ahead
<1>2. \A e \in Batch : e # ev => Whole(e)' = Whole(e)
  BY DEF Whole
<1>3. TurnsKept'
  BY <1>1 DEF IInv, TypeOK, TurnsKept, Ahead
<1>4. AddedWhole'
  BY <1>1, <1>2 DEF IInv, TypeOK, AddedWhole, UsagesOnly
<1>5. FailuresKnown'
  BY <1>1, <1>2 DEF IInv, TypeOK, FailuresKnown, Settled
<1> QED BY <1>3, <1>4, <1>5

(* The loop moves on, or creates an object. *)
LEMMA LoopSteps ==
  ASSUME IInv, NextEvent \/ LoopEnds \/ Create
  PROVE  TurnsKept' /\ AddedWhole' /\ FailuresKnown' /\ ObjectInHand'
<1> USE SizeAssumption DEF IInv, TypeOK, InHand, Batch, input
<1>1. CASE NextEvent
  <2>1. /\ ev \in Nat /\ ev' = ev + 1 /\ ev' \in Batch
        /\ pc = "next" /\ pc' = "create"
        /\ UNCHANGED <<kind, items, parts, added, alp, warned>>
    BY <1>1 DEF NextEvent
  <2>2. TurnsKept'
    BY <2>1 DEF TurnsKept, Ahead
  <2>3. \A e \in Batch : Whole(e)' = Whole(e) /\ UsagesOnly(e)' = UsagesOnly(e)
    BY <2>1 DEF Whole, UsagesOnly
  <2>4. AddedWhole'
    BY <2>1, <2>3 DEF AddedWhole
  <2>5. FailuresKnown'
    BY <2>1, <2>3 DEF FailuresKnown, Settled
  <2>6. ObjectInHand'
    BY <2>1 DEF ObjectInHand
  <2> QED BY <2>2, <2>4, <2>5, <2>6
<1>2. CASE LoopEnds
  <2>1. pc = "next" /\ pc' = "done" /\ UNCHANGED <<kind, items, ev, parts, added, alp, warned>>
    BY <1>2 DEF LoopEnds
  <2> QED BY <2>1 DEF TurnsKept, Ahead, AddedWhole, UsagesOnly, Whole, FailuresKnown, Settled,
                      ObjectInHand
<1>3. CASE Create
  <2>1. /\ pc = "create" /\ UNCHANGED <<kind, items, ev, parts, added, warned>>
        /\ alp \subseteq alp' /\ left' = items[ev]
        /\ \/ FilledAt(kind[ev], pc')
           \/ pc' = "failed" /\ ev \in alp'
    BY <1>3 DEF Create, Succeeds, Fails
  <2>2. ev \in Batch /\ parts[ev] = {} /\ ev \notin added /\ kind[ev] \in Kinds
    BY <2>1 DEF TurnsKept, Ahead
  <2>3. \/ kind[ev] = "notice" /\ pc' = "add"
        \/ kind[ev] \in {"job", "usage"} /\ pc' = "job"
        \/ kind[ev] \in {"change", "delete"} /\ pc' = "change"
        \/ kind[ev] = "list" /\ pc' = "list"
        \/ pc' = "failed" /\ ev \in alp'
    BY <2>1, <2>2 DEF FilledAt
  <2>4. pc' \notin {"next", "done", "create"} /\ (pc' = "failed" => Settled(ev)')
    BY <2>1, <2>3 DEF Settled
  <2>5. ev \notin added' /\ alp \cup warned \subseteq alp' \cup warned'
    BY <2>1, <2>2
  <2>6. TurnsKept' /\ AddedWhole' /\ FailuresKnown'
    BY <2>1, <2>4, <2>5, InHandStep
  <2>7. ObjectInHand'
    BY <2>1, <2>2, <2>3 DEF ObjectInHand, Whole, ChangeParts
  <2> QED BY <2>6, <2>7
<1> QED BY <1>1, <1>2, <1>3

(* The event in hand is added to the caller's list, or has failed. *)
LEMMA EndSteps ==
  ASSUME IInv, AddEvent \/ Warn
  PROVE  TurnsKept' /\ AddedWhole' /\ FailuresKnown' /\ ObjectInHand'
<1> USE DEF IInv, TypeOK, InHand, input
<1>1. CASE AddEvent
  <2>1. /\ pc = "add" /\ UNCHANGED <<kind, items, ev, parts, warned>>
        /\ \/ added' = added \cup {ev} /\ alp' = alp /\ pc' = "next"
           \/ added' = added /\ alp' = alp \cup {ev} /\ pc' = "failed"
    BY <1>1 DEF AddEvent, Succeeds, Fails
  <2>2. ev \in Batch /\ ev \notin added
    BY <2>1 DEF TurnsKept, Ahead
  <2>3. Whole(ev)' = Whole(ev) /\ UsagesOnly(ev)' = UsagesOnly(ev)
    BY <2>1 DEF Whole, UsagesOnly
  <2>4. parts[ev] = Whole(ev) \/ (UsagesOnly(ev) /\ ev \in alp)
    BY <2>1 DEF ObjectInHand
  <2>5. TurnsKept' /\ AddedWhole' /\ FailuresKnown'
    BY <2>1, <2>2, <2>3, <2>4, InHandStep DEF Settled
  <2>6. ObjectInHand'
    BY <2>1 DEF ObjectInHand
  <2> QED BY <2>5, <2>6
<1>2. CASE Warn
  <2>1. /\ pc = "failed" /\ pc' = "next" /\ UNCHANGED <<kind, items, ev, parts, added>>
        /\ alp \cup warned \subseteq alp' \cup warned'
    BY <1>2 DEF Warn
  <2>2. ev \in Batch /\ ev \notin added
    BY <2>1 DEF TurnsKept, Ahead
  <2>3. ev \in alp \cup warned
    BY <2>1, <2>2 DEF FailuresKnown, Settled
  <2>4. TurnsKept' /\ AddedWhole' /\ FailuresKnown'
    BY <2>1, <2>2, <2>3, InHandStep DEF Settled
  <2>5. ObjectInHand'
    BY <2>1 DEF ObjectInHand
  <2> QED BY <2>4, <2>5
<1> QED BY <1>1, <1>2

(* Filling in an event of a job, or of its usage. *)
LEMMA JobSteps ==
  ASSUME IInv, FillJob \/ AddUsage \/ UsagesAdded
  PROVE  TurnsKept' /\ AddedWhole' /\ FailuresKnown' /\ ObjectInHand'
<1> USE DEF IInv, TypeOK, InHand, input
<1>1. ev \in Batch /\ ev \notin added
  BY DEF FillJob, AddUsage, UsagesAdded, TurnsKept, Ahead
<1>2. CASE FillJob
  <2>1. PICK done \in JobProgress :
          /\ pc = "job" /\ parts' = [parts EXCEPT ![ev] = @ \cup done]
          /\ \/ done = JobParts /\ ret' = "SUCCESS" /\ alp' = alp
             \/ done # JobParts /\ ret' = "ERROR" /\ alp' = alp \cup {ev}
          /\ \/ kind[ev] = "usage" /\ pc' = "usages"
             \/ kind[ev] # "usage" /\ done = JobParts /\ pc' = "add"
             \/ kind[ev] # "usage" /\ done # JobParts /\ pc' = "failed"
          /\ UNCHANGED <<kind, items, ev, left, added, warned>>
    BY <1>2 DEF FillJob, Set, Succeeds, Fails
  <2>2. kind[ev] \in {"job", "usage"} /\ parts[ev] = {} /\ left = items[ev]
    BY <2>1 DEF ObjectInHand
  <2>3. parts'[ev] = done /\ done \subseteq JobParts /\ (JobParts \subseteq done <=> done = JobParts)
    BY <1>1, <2>1, <2>2 DEF JobProgress, JobParts
  <2>4. pc' = "failed" => Settled(ev)'
    BY <2>1 DEF Settled
  <2>5. TurnsKept' /\ AddedWhole' /\ FailuresKnown'
    BY <1>1, <2>1, <2>4, InHandStep
  <2>6. ASSUME pc' = "usages" PROVE ObjectInHand'
    BY <2>1, <2>2, <2>3, <2>6 DEF ObjectInHand
  <2>7. ASSUME pc' = "add" PROVE ObjectInHand'
    <3>1. parts'[ev] = Whole(ev)'
      BY <2>1, <2>2, <2>3, <2>7 DEF Whole
    <3> QED BY <2>1, <2>7, <3>1 DEF ObjectInHand
  <2>8. ASSUME pc' = "failed" PROVE ObjectInHand'
    BY <2>8 DEF ObjectInHand
  <2> QED BY <2>1, <2>5, <2>6, <2>7, <2>8
<1>3. CASE AddUsage
  <2>1. PICK u \in left :
          /\ pc = "usages" /\ left' = left \ {u}
          /\ \/ /\ parts' = [parts EXCEPT ![ev] = @ \cup {u}]
                /\ pc' = "usages" /\ ret' = "SUCCESS" /\ alp' = alp
             \/ /\ parts' = parts
                /\ pc' = "failed" /\ ret' = "ERROR" /\ alp' = alp \cup {ev}
          /\ UNCHANGED <<kind, items, ev, added, warned>>
    BY <1>3 DEF AddUsage, Set, Succeeds, Fails
  <2>2. /\ kind[ev] = "usage" /\ left \subseteq items[ev]
        /\ items[ev] \ left \subseteq parts[ev]
        /\ parts[ev] \subseteq JobParts \cup items[ev]
        /\ JobParts \subseteq parts[ev] \/ ev \in alp
    BY <2>1 DEF ObjectInHand
  <2>3. pc' = "failed" => Settled(ev)'
    BY <2>1 DEF Settled
  <2>4. TurnsKept' /\ AddedWhole' /\ FailuresKnown'
    BY <1>1, <2>1, <2>3, InHandStep
  <2>5. ASSUME pc' = "usages" PROVE ObjectInHand'
    <3>1. parts'[ev] = parts[ev] \cup {u}
      BY <1>1, <2>1, <2>5
    <3> QED BY <2>1, <2>2, <2>5, <3>1 DEF ObjectInHand
  <2>6. ASSUME pc' = "failed" PROVE ObjectInHand'
    BY <2>6 DEF ObjectInHand
  <2> QED BY <2>1, <2>4, <2>5, <2>6
<1>4. CASE UsagesAdded
  <2>1. /\ pc = "usages" /\ left = {}
        /\ \/ ret = "SUCCESS" /\ pc' = "add"
           \/ ret # "SUCCESS" /\ pc' = "failed"
        /\ UNCHANGED <<kind, items, ev, ret, left, parts, alp, added, warned>>
    BY <1>4 DEF UsagesAdded
  <2>2. /\ kind[ev] = "usage" /\ items[ev] \subseteq parts[ev]
        /\ parts[ev] \subseteq JobParts \cup items[ev]
        /\ JobParts \subseteq parts[ev] \/ ev \in alp
        /\ ret = "SUCCESS" => JobParts \subseteq parts[ev] \/ items[ev] # {}
        /\ ret # "SUCCESS" => ev \in alp
    BY <2>1 DEF ObjectInHand
  <2>3. pc' = "failed" => Settled(ev)'
    BY <2>1, <2>2 DEF Settled
  <2>4. TurnsKept' /\ AddedWhole' /\ FailuresKnown'
    BY <1>1, <2>1, <2>3, InHandStep
  <2>5. ASSUME pc' = "add" PROVE ObjectInHand'
    <3>1. CASE JobParts \subseteq parts[ev]
      <4>1. parts'[ev] = Whole(ev)'
        BY <2>1, <2>2, <3>1 DEF Whole
      <4> QED BY <2>1, <2>5, <4>1 DEF ObjectInHand
    <3>2. CASE ~(JobParts \subseteq parts[ev])
      <4>1. UsagesOnly(ev)' /\ ev \in alp'
        BY <2>1, <2>2, <2>5, <3>2 DEF UsagesOnly
      <4> QED BY <2>1, <2>5, <4>1 DEF ObjectInHand
    <3> QED BY <3>1, <3>2
  <2>6. ASSUME pc' = "failed" PROVE ObjectInHand'
    BY <2>6 DEF ObjectInHand
  <2> QED BY <2>1, <2>4, <2>5, <2>6
<1> QED BY <1>2, <1>3, <1>4

(* Filling in an event of a changed object, or of a list of objects. *)
LEMMA ObjectSteps ==
  ASSUME IInv, FillChange \/ AddListElement \/ ListFilled
  PROVE  TurnsKept' /\ AddedWhole' /\ FailuresKnown' /\ ObjectInHand'
<1> USE DEF IInv, TypeOK, InHand, input
<1>1. ev \in Batch /\ ev \notin added
  BY DEF FillChange, AddListElement, ListFilled, TurnsKept, Ahead
<1>2. CASE FillChange
  <2>1. /\ pc = "change" /\ UNCHANGED <<kind, items, ev, left, added, warned>>
        /\ \A e \in Batch : e # ev => parts'[e] = parts[e]
        /\ alp \subseteq alp'
    BY <1>2 DEF FillChange, Set, Succeeds, Fails
  <2>2. kind[ev] \in {"change", "delete"} /\ parts[ev] = {} /\ left = items[ev]
    BY <2>1 DEF ObjectInHand
  <2>3. \/ pc' = "failed" /\ ev \in alp'
        \/ pc' = "add" /\ left # {} /\ parts'[ev] = {"pkInfo", "changedObject"}
        \/ pc' = "add" /\ left = {} /\ parts'[ev] = {"pkInfo"}
    BY <1>1, <1>2, <2>2 DEF FillChange, Set, Succeeds, Fails, ChangeParts
  <2>4. pc' = "failed" => Settled(ev)'
    BY <2>1, <2>3 DEF Settled
  <2>5. TurnsKept' /\ AddedWhole' /\ FailuresKnown'
    BY <1>1, <2>1, <2>3, <2>4, InHandStep
  <2>6. ASSUME pc' = "add" PROVE ObjectInHand'
    <3>1. parts'[ev] = Whole(ev)'
      BY <2>1, <2>2, <2>3, <2>6 DEF Whole, ChangeParts
    <3> QED BY <2>1, <2>6, <3>1 DEF ObjectInHand
  <2>7. ASSUME pc' = "failed" PROVE ObjectInHand'
    BY <2>7 DEF ObjectInHand
  <2> QED BY <2>3, <2>5, <2>6, <2>7
<1>3. CASE AddListElement
  <2>1. PICK i \in left :
          /\ pc = "list" /\ left' = left \ {i}
          /\ \/ /\ parts' = [parts EXCEPT ![ev] = @ \cup {i}]
                /\ pc' = "list" /\ alp' = alp
             \/ /\ parts' = parts
                /\ pc' = "failed" /\ alp' = alp \cup {ev}
          /\ UNCHANGED <<kind, items, ev, added, warned>>
    BY <1>3 DEF AddListElement, Set, Succeeds, Fails
  <2>2. kind[ev] = "list" /\ left \subseteq items[ev] /\ parts[ev] = items[ev] \ left
    BY <2>1 DEF ObjectInHand
  <2>3. pc' = "failed" => Settled(ev)'
    BY <2>1 DEF Settled
  <2>4. TurnsKept' /\ AddedWhole' /\ FailuresKnown'
    BY <1>1, <2>1, <2>3, InHandStep
  <2>5. ASSUME pc' = "list" PROVE ObjectInHand'
    <3>1. parts'[ev] = parts[ev] \cup {i}
      BY <1>1, <2>1, <2>5
    <3> QED BY <2>1, <2>2, <2>5, <3>1 DEF ObjectInHand
  <2>6. ASSUME pc' = "failed" PROVE ObjectInHand'
    BY <2>6 DEF ObjectInHand
  <2> QED BY <2>1, <2>4, <2>5, <2>6
<1>4. CASE ListFilled
  <2>1. /\ pc = "list" /\ left = {} /\ pc' = "add"
        /\ UNCHANGED <<kind, items, ev, ret, left, parts, alp, added, warned>>
    BY <1>4 DEF ListFilled
  <2>2. kind[ev] = "list" /\ parts[ev] = items[ev]
    BY <2>1 DEF ObjectInHand
  <2>3. TurnsKept' /\ AddedWhole' /\ FailuresKnown'
    BY <1>1, <2>1, InHandStep
  <2>4. parts'[ev] = Whole(ev)'
    BY <2>1, <2>2 DEF Whole
  <2>5. ObjectInHand'
    BY <2>1, <2>4 DEF ObjectInHand
  <2> QED BY <2>3, <2>5
<1> QED BY <1>2, <1>3, <1>4

(* The inductive invariant: how far the object in hand is, and what is     *)
(* known of each event the loop has had.                                   *)
THEOREM Invariance == Spec => []IInv
<1>1. IInv /\ [Next]_vars => IInv'
  <2> SUFFICES ASSUME IInv, [Next]_vars PROVE IInv'
    OBVIOUS
  <2>1. CASE Next
    <3>1. TurnsKept' /\ AddedWhole' /\ FailuresKnown' /\ ObjectInHand'
      BY <2>1, LoopSteps, EndSteps, JobSteps, ObjectSteps DEF Next
    <3> QED BY <2>1, <3>1, TypeStep DEF IInv
  <2>2. CASE UNCHANGED vars
    BY <2>2 DEF vars, input, IInv, TypeOK, TurnsKept, Ahead, InHand, ObjectInHand,
                AddedWhole, FailuresKnown, Settled, Whole, UsagesOnly
  <2> QED BY <2>1, <2>2
<1> QED BY <1>1, IInvInit, PTL DEF Spec

(* Every variable keeps its type. *)
THEOREM TypeCorrect == Spec => []TypeOK
<1>1. IInv => TypeOK
  BY DEF IInv
<1> QED BY <1>1, Invariance, PTL

(* What the caller's list holds is complete, but for the usage events      *)
(* whose job could not be set.                                             *)
THEOREM AddedIsWhole == Spec => []AddedWhole
<1>1. IInv => AddedWhole
  BY DEF IInv
<1> QED BY <1>1, Invariance, PTL

(* No failure of a conversion is lost while the loop runs. *)
THEOREM FailuresAreKnown == Spec => []FailuresKnown
<1>1. IInv => FailuresKnown
  BY DEF IInv
<1> QED BY <1>1, Invariance, PTL

(* The loop implements EventBatch: the events are taken in order, and each *)
(* is added once or dropped.                                               *)
THEOREM BatchImplemented == Spec => ImplementsBatch
<1> USE DEF InHand, Batch
<1>1. Init => Promise!Init
  BY SizeAssumption DEF Init, Promise!Init, Ahead
<1>2. IInv /\ [Next]_vars => [Promise!Next]_(Promise!vars)
  <2> SUFFICES ASSUME IInv, [Next]_vars PROVE [Promise!Next]_(Promise!vars)
    OBVIOUS
  <2> USE SizeAssumption DEF IInv, TypeOK
  <2>1. CASE ev' = ev /\ added' = added /\ (InHand' <=> InHand)
    BY <2>1 DEF Promise!vars, Ahead
  <2>2. CASE NextEvent
    <3>1. ev' = ev + 1 /\ pc = "next" /\ pc' = "create" /\ added' = added
      BY <2>2 DEF NextEvent
    <3>2. Ahead' = Ahead
      BY <3>1 DEF Ahead
    <3> QED BY <3>1, <3>2 DEF Promise!vars
  <2>3. CASE LoopEnds
    <3>1. Ahead' = Ahead /\ added' = added
      BY <2>3 DEF LoopEnds, Ahead
    <3> QED BY <3>1 DEF Promise!vars
  <2>4. CASE AddEvent /\ pc' = "next"
    <3>1. /\ ev' = ev /\ pc = "add" /\ pc' = "next" /\ added' = added \cup {ev}
          /\ ev \in Batch
      BY <2>4 DEF AddEvent, TurnsKept
    <3>2. Ahead' = Ahead \ {ev} /\ Promise!First(ev)
      BY <3>1 DEF Ahead, Promise!First
    <3>3. Batch \ (Ahead' \cup added') = Batch \ (Ahead \cup added)
      BY <3>1, <3>2 DEF Ahead
    <3>4. Promise!Add(ev)
      BY <3>1, <3>2, <3>3 DEF Promise!Add
    <3> QED BY <3>1, <3>4 DEF Promise!Next
  <2>5. CASE Warn
    <3>1. /\ ev' = ev /\ pc = "failed" /\ pc' = "next" /\ added' = added
          /\ ev \in Batch
      BY <2>5 DEF Warn, TurnsKept
    <3>2. Ahead' = Ahead \ {ev} /\ Promise!First(ev) /\ ev \notin added
      BY <3>1 DEF Ahead, Promise!First, TurnsKept
    <3>3. Batch \ (Ahead' \cup added') = (Batch \ (Ahead \cup added)) \cup {ev}
      BY <3>1, <3>2 DEF Ahead
    <3>4. Promise!Drop(ev)
      BY <3>1, <3>2, <3>3 DEF Promise!Drop
    <3> QED BY <3>1, <3>4 DEF Promise!Next
  <2>6. CASE Create \/ FillJob \/ AddUsage \/ UsagesAdded \/ FillChange \/ AddListElement
               \/ ListFilled \/ (AddEvent /\ pc' # "next")
    <3>1. ev' = ev /\ added' = added /\ InHand /\ InHand'
      BY <2>6 DEF Create, Fillers, FillJob, AddUsage, UsagesAdded, FillChange, AddListElement,
                  ListFilled, AddEvent
    <3> QED BY <2>1, <3>1
  <2>7. CASE UNCHANGED vars
    BY <2>1, <2>7 DEF vars
  <2> QED BY <2>2, <2>3, <2>4, <2>5, <2>6, <2>7 DEF Next
<1> QED BY <1>1, <1>2, Invariance, PTL DEF Spec, ImplementsBatch, Promise!Spec

(* The loop only ends behind the last event.                               *)
LEMMA LoopEndsAtSize == Spec => [](pc = "done" => ev = Size)
<1> DEFINE AtSize == pc = "done" => ev = Size
<1>1. Init => AtSize
  BY DEF Init
<1>2. AtSize /\ [Next]_vars => AtSize'
  <2> SUFFICES ASSUME AtSize, [Next]_vars PROVE AtSize'
    OBVIOUS
  <2>1. CASE pc = "done"
    <3>1. UNCHANGED <<pc, ev>>
      BY <2>1 DEF Next, NextEvent, LoopEnds, Create, FillJob, AddUsage, UsagesAdded,
         FillChange, AddListElement, ListFilled, AddEvent, Warn, vars
    <3> QED BY <3>1
  <2>2. CASE pc # "done" /\ LoopEnds
    BY <2>2 DEF LoopEnds
  <2>3. CASE pc # "done" /\ ~LoopEnds
    <3>1. pc' # "done"
      BY <2>3 DEF Next, NextEvent, Create, FilledAt, Fillers, FillJob, AddUsage, UsagesAdded,
         FillChange, AddListElement, ListFilled, AddEvent, Warn, vars
    <3> QED BY <3>1
  <2> QED BY <2>1, <2>2, <2>3
<1> QED BY <1>1, <1>2, PTL DEF Spec

(* The safety half of EverySettled, for batches of any size: when the loop *)
(* of fillEvents is over no event is left, each is whole in the caller's   *)
(* list or has its error in the log or in the answer list.  So the list    *)
(* and the errors share out the batch, which is what lets EventClient's    *)
(* FillProcess take the loop for one step.                                 *)
THEOREM LoopSettlesBatch ==
  Spec => [](pc = "done" => Ahead = {} /\ \A e \in Batch : Settled(e))
<1>1. IInv /\ (pc = "done" => ev = Size) =>
        (pc = "done" => Ahead = {} /\ \A e \in Batch : Settled(e))
  <2> SUFFICES ASSUME IInv, pc = "done", ev = Size
               PROVE  Ahead = {} /\ \A e \in Batch : Settled(e)
    OBVIOUS
  <2>1. \A e \in Batch : e <= ev /\ e \in Int /\ ev \in Int
    BY SizeAssumption DEF Batch
  <2> QED BY <2>1 DEF IInv, FailuresKnown, Ahead, InHand
<1> QED BY <1>1, Invariance, LoopEndsAtSize, PTL

(* How far process_event is with one event. *)
Stage == [create |-> 1, job |-> 2, change |-> 2, list |-> 2, usages |-> 3,
          add |-> 4, failed |-> 5, next |-> 6, done |-> 7]

(* Every step of the loop goes on: to a later event, to a later stage of   *)
(* the same one, or to fewer of its items.                                 *)
GoesOn ==
  \/ ev' > ev
  \/ ev' = ev /\ Stage[pc'] > Stage[pc]
  \/ ev' = ev /\ pc' = pc /\ left' \subseteq left /\ left' # left

(* The loop of fillEvents has no way back: its steps lower a well-founded  *)
(* measure, whatever fails in them, so that it takes finitely many for a   *)
(* batch of any size.  This is the half of EverySettled that needs no      *)
(* fairness.                                                               *)
THEOREM LoopGoesOn == Spec => [][GoesOn]_vars
<1>1. TypeOK /\ [Next]_vars => [GoesOn]_vars
  <2> SUFFICES ASSUME TypeOK, Next PROVE GoesOn
    OBVIOUS
  <2> USE DEF TypeOK, GoesOn, Stage
  <2>1. CASE NextEvent
    BY <2>1, SizeAssumption DEF NextEvent
  <2>2. CASE LoopEnds \/ UsagesAdded \/ ListFilled \/ AddEvent \/ Warn
    BY <2>2 DEF LoopEnds, UsagesAdded, ListFilled, AddEvent, Warn
  <2>3. CASE Create \/ FillJob \/ FillChange
    BY <2>3 DEF Create, FilledAt, Fillers, FillJob, FillChange
  <2>4. CASE AddUsage \/ AddListElement
    <3>1. CASE pc' = pc
      <4>1. \E u \in left : left' = left \ {u}
        BY <2>4 DEF AddUsage, AddListElement
      <4>2. left' \subseteq left /\ left' # left /\ ev' = ev
        BY <2>4, <4>1 DEF AddUsage, AddListElement
      <4> QED BY <3>1, <4>2
    <3>2. CASE pc' # pc
      <4>1. pc \in {"usages", "list"} /\ pc' = "failed" /\ ev' = ev
        BY <2>4, <3>2 DEF AddUsage, AddListElement
      <4> QED BY <4>1
    <3> QED BY <3>1, <3>2
  <2> QED BY <2>1, <2>2, <2>3, <2>4 DEF Next
<1> QED BY <1>1, TypeCorrect, PTL DEF Spec
=============================================================================
