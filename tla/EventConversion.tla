--------------------------- MODULE EventConversion ---------------------------
(***************************************************************************)
(* The loop of fillEvents (pygdi_event.c:620) and what it calls:           *)
(* process_event makes a Java object of each event of the batch, fills it  *)
(* in part by part, each part a call into the JVM that may fail, and adds  *)
(* it to the caller's list.  Errors pile up in one answer list, alp, which *)
(* is emptied when a warning is written.                                   *)
(*                                                                         *)
(* process_generic_event, which picks the object's class, is generated and *)
(* not in this repository: it calls create_generic_event, or fails for a   *)
(* type it does not know.                                                  *)
(***************************************************************************)
EXTENDS Integers

CONSTANTS
  Size,    \* the number of events in the batch
  Items    \* what an event's ET_new_version can hold

ASSUME SizeAssumption == Size \in Nat

Batch == 1 .. Size

(* What process_event tells apart: events of no content, of a job, of a    *)
(* job's usage, of an object changed or deleted, and of a list of objects. *)
Kinds == {"notice", "job", "usage", "change", "delete", "list", "unknown"}

JobParts == {"jobId", "taskId", "peTaskId"}
(* fill_job_event sets them in this order and stops at the first failure.  *)
JobProgress == {{}, {"jobId"}, {"jobId", "taskId"}, JobParts}
(* fill_generic_event sets the key of the changed object first. *)
ChangeParts == {"pkInfo", "changedObject"}

VARIABLES
  kind,     \* the kind of each event
  items,    \* its ET_new_version
  pc,       \* where process_event is
  ev,       \* the event it is at
  ret,      \* its ret
  left,     \* the items it has not converted
  parts,    \* what has been set on each event's object
  alp,      \* the events with an error in the answer list
  added,    \* the events in the caller's list
  warned    \* history: the events with an error that was written to the log

input == <<kind, items>>
vars == <<input, pc, ev, ret, left, parts, alp, added, warned>>

AllParts == JobParts \cup ChangeParts \cup Items

TypeOK ==
  /\ kind \in [Batch -> Kinds]
  /\ items \in [Batch -> SUBSET Items]
  /\ pc \in {"next", "create", "job", "usages", "change", "list", "add", "failed", "done"}
  /\ ev \in 0 .. Size
  /\ ret \in {"SUCCESS", "ERROR"}
  /\ left \subseteq Items
  /\ parts \in [Batch -> SUBSET AllParts]
  /\ alp \subseteq Batch
  /\ added \subseteq Batch
  /\ warned \subseteq Batch

Init ==
  /\ kind \in [Batch -> Kinds]
  /\ items \in [Batch -> SUBSET Items]
  /\ pc = "next" /\ ev = 0 /\ ret = "SUCCESS" /\ left = {}
  /\ parts = [e \in Batch |-> {}]
  /\ alp = {} /\ added = {} /\ warned = {}

Set(S) == parts' = [parts EXCEPT ![ev] = @ \cup S]
Succeeds == ret' = "SUCCESS" /\ UNCHANGED alp
Fails == ret' = "ERROR" /\ alp' = alp \cup {ev}

-----------------------------------------------------------------------------
(* The loop takes the next event, or ends. *)
NextEvent ==
  /\ pc = "next" /\ ev < Size
  /\ pc' = "create" /\ ev' = ev + 1
  /\ UNCHANGED <<input, ret, left, parts, alp, added, warned>>

LoopEnds ==
  /\ pc = "next" /\ ev = Size
  /\ pc' = "done"
  /\ UNCHANGED <<input, ev, ret, left, parts, alp, added, warned>>

(* Where an object of each kind is filled in. *)
FilledAt(k, where) ==
  \/ k = "notice" /\ where = "add"
  \/ k \in {"job", "usage"} /\ where = "job"
  \/ k \in {"change", "delete"} /\ where = "change"
  \/ k = "list" /\ where = "list"
Fillers == {"add", "job", "change", "list"}

(* Faulty: the object is added to the caller's list before it is filled in. *)
Create_AddsFirst ==
  /\ pc = "create"
  /\ \/ /\ \E where \in Fillers : FilledAt(kind[ev], where) /\ pc' = where
        /\ added' = added \cup {ev} /\ Succeeds
     \/ pc' = "failed" /\ Fails /\ UNCHANGED added
  /\ left' = items[ev]
  /\ UNCHANGED <<input, ev, parts, warned>>

(* The Java object is created by the factory, or is not. *)
Create ==
  /\ pc = "create"
  /\ \/ (\E where \in Fillers : FilledAt(kind[ev], where) /\ pc' = where) /\ Succeeds
     \/ pc' = "failed" /\ Fails
  /\ left' = items[ev]
  /\ UNCHANGED <<input, ev, parts, added, warned>>

(* fill_job_event.  fill_job_usage_event goes on whatever it returns. *)
FillJob ==
  /\ pc = "job"
  /\ \E done \in JobProgress :
       /\ Set(done)
       /\ IF done = JobParts THEN Succeeds ELSE Fails
       /\ \/ kind[ev] = "usage" /\ pc' = "usages"
          \/ kind[ev] = "job" /\ done = JobParts /\ pc' = "add"
          \/ kind[ev] = "job" /\ done # JobParts /\ pc' = "failed"
  /\ UNCHANGED <<input, ev, left, added, warned>>

(* JobUsageEvent_addUsage, which overwrites ret; the first failure ends    *)
(* the loop.                                                               *)
AddUsage ==
  /\ pc = "usages"
  /\ \E u \in left :
       /\ left' = left \ {u}
       /\ \/ Set({u}) /\ Succeeds /\ UNCHANGED pc
          \/ UNCHANGED parts /\ Fails /\ pc' = "failed"
  /\ UNCHANGED <<input, ev, added, warned>>

UsagesAdded ==
  /\ pc = "usages" /\ left = {}
  /\ pc' = IF ret = "SUCCESS" THEN "add" ELSE "failed"
  /\ UNCHANGED <<input, ev, ret, left, parts, alp, added, warned>>

(* Faulty: a failure to convert the new version is only a warning. *)
FillChange_NoObject ==
  /\ pc = "change"
  /\ Set({"pkInfo"}) /\ Succeeds /\ pc' = "add"
  /\ UNCHANGED <<input, ev, left, added, warned>>

(* fill_generic_event for a changed object: its key, then its new version  *)
(* if the event has one.  If it has none, and is not a deletion, a warning *)
(* names the object's class, and asking for the name may fail too.         *)
FillChange ==
  /\ pc = "change"
  /\ \/ UNCHANGED parts /\ Fails /\ pc' = "failed"
     \/ /\ left # {} \/ kind[ev] = "change"
        /\ Set({"pkInfo"}) /\ Fails /\ pc' = "failed"
     \/ left # {} /\ Set(ChangeParts) /\ Succeeds /\ pc' = "add"
     \/ left = {} /\ Set({"pkInfo"}) /\ Succeeds /\ pc' = "add"
  /\ UNCHANGED <<input, ev, left, added, warned>>

(* fill_generic_event for a list: one object after the other. *)
AddListElement ==
  /\ pc = "list"
  /\ \E i \in left :
       /\ left' = left \ {i}
       /\ \/ Set({i}) /\ Succeeds /\ UNCHANGED pc
          \/ UNCHANGED parts /\ Fails /\ pc' = "failed"
  /\ UNCHANGED <<input, ev, added, warned>>

ListFilled ==
  /\ pc = "list" /\ left = {}
  /\ pc' = "add"
  /\ UNCHANGED <<input, ev, ret, left, parts, alp, added, warned>>

(* List_add to the caller's list. *)
AddEvent ==
  /\ pc = "add"
  /\ \/ added' = added \cup {ev} /\ Succeeds /\ pc' = "next"
     \/ UNCHANGED added /\ Fails /\ pc' = "failed"
  /\ UNCHANGED <<input, ev, left, parts, warned>>

(* Faulty: the answer list is freed although nothing is written. *)
Warn_Frees ==
  /\ pc = "failed"
  /\ \/ warned' = warned \cup alp
     \/ UNCHANGED warned
  /\ alp' = {}
  /\ pc' = "next"
  /\ UNCHANGED <<input, ev, ret, left, parts, added>>

(* Faulty: the loop ends at the first failure. *)
Warn_EndsLoop ==
  /\ pc = "failed"
  /\ \/ warned' = warned \cup alp /\ alp' = {}
     \/ UNCHANGED <<warned, alp>>
  /\ pc' = "done"
  /\ UNCHANGED <<input, ev, ret, left, parts, added>>

(* process_event has failed.  If WARNING is loggable the answer list is    *)
(* written and freed, else it stays.                                       *)
Warn ==
  /\ pc = "failed"
  /\ \/ warned' = warned \cup alp /\ alp' = {}
     \/ UNCHANGED <<warned, alp>>
  /\ pc' = "next"
  /\ UNCHANGED <<input, ev, ret, left, parts, added>>

Next ==
  \/ NextEvent \/ LoopEnds \/ Create \/ FillJob \/ AddUsage \/ UsagesAdded
  \/ FillChange \/ AddListElement \/ ListFilled \/ AddEvent \/ Warn

Spec == Init /\ [][Next]_vars

(* The loop runs in one thread, and each call into the JVM returns. *)
FairSpec == Spec /\ WF_vars(Next)

-----------------------------------------------------------------------------
(* Properties. *)

(* The parts the object of an event has when it is complete. *)
Whole(e) ==
  UNION {{p \in JobParts : kind[e] \in {"job", "usage"}},
         {i \in items[e] : kind[e] \in {"usage", "list"}},
         {p \in ChangeParts : /\ kind[e] \in {"change", "delete"}
                              /\ p = "changedObject" => items[e] # {}}}

(* A usage event with all its usages, of which it has some, but without    *)
(* some part of its job.                                                   *)
UsagesOnly(e) ==
  /\ kind[e] = "usage" /\ items[e] # {}
  /\ items[e] \subseteq parts[e] /\ JobParts \ parts[e] # {}

(* An event in the caller's list is complete, except a usage event whose   *)
(* job could not be set: addUsage overwrites that failure.                 *)
AddedWhole == \A e \in added : parts[e] = Whole(e) \/ UsagesOnly(e)

(* No failure is lost before fillEvents is done with the batch: an event   *)
(* that is missing from the caller's list, or incomplete in it, has its    *)
(* error in the log or in the answer list.                                 *)
Settled(e) == (e \in added /\ parts[e] = Whole(e)) \/ e \in alp \cup warned
FailuresKnown ==
  \A e \in Batch :
    e < ev \/ (e = ev /\ pc \in {"next", "failed", "done"}) => Settled(e)

(* A failure of one event does not keep the loop from the others: each is  *)
(* in the end in the caller's list or has its error kept.                  *)
EverySettled == \A e \in Batch : <>[]Settled(e)

(* The loop does what EventBatch says. *)
InHand == pc \notin {"next", "done"}
Ahead == {e \in Batch : e > ev \/ (InHand /\ e = ev)}
Promise == INSTANCE EventBatch
             WITH ahead <- Ahead, added <- added, dropped <- Batch \ (Ahead \cup added)
ImplementsBatch == Promise!Spec

-----------------------------------------------------------------------------
(* The inductive invariant. *)

(* Nothing is known of an event before it is its turn. *)
TurnsKept ==
  /\ InHand => ev \in Batch
  /\ added \cap Ahead = {}
  /\ \A e \in Batch : e > ev \/ (e = ev /\ pc = "create") => parts[e] = {}

(* How far the object in hand is. *)
ObjectInHand ==
  /\ pc = "job" => kind[ev] \in {"job", "usage"} /\ parts[ev] = {} /\ left = items[ev]
  /\ pc = "usages" =>
       /\ kind[ev] = "usage" /\ left \subseteq items[ev]
       /\ items[ev] \ left \subseteq parts[ev]
       /\ parts[ev] \subseteq JobParts \cup items[ev]
       /\ JobParts \subseteq parts[ev] \/ ev \in alp
       /\ ret = "SUCCESS" => JobParts \subseteq parts[ev] \/ items[ev] # {}
       /\ ret = "ERROR" => ev \in alp
  /\ pc = "change" => kind[ev] \in {"change", "delete"} /\ parts[ev] = {} /\ left = items[ev]
  /\ pc = "list" =>
       kind[ev] = "list" /\ left \subseteq items[ev] /\ parts[ev] = items[ev] \ left
  /\ pc = "add" =>
       \/ parts[ev] = Whole(ev)
       \/ UsagesOnly(ev) /\ ev \in alp

IInv == TypeOK /\ TurnsKept /\ ObjectInHand /\ AddedWhole /\ FailuresKnown
=============================================================================
