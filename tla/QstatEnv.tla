------------------------------- MODULE QstatEnv -------------------------------
(***************************************************************************)
(* How the two qstat natives (pygdi_qstat.c) turn the caller's options     *)
(* into a qstat_env: they read the filters from the options, then          *)
(* pygdi_qstat_env_init builds the lists of the qstat_env, then the queue  *)
(* instance native reads what the report is to show.  The first failure    *)
(* ends it all.                                                            *)
(*                                                                         *)
(* A call into the JVM is a step and may fail, and each native keeps its   *)
(* state to itself: one call is modelled.                                  *)
(***************************************************************************)
EXTENDS Integers, Sequences, FiniteSets, SequencesExt

CONSTANTS
  Names,    \* what a filter may list: queues, users, resources, ...
  MaxAsked  \* bound: how many options one caller sets

Natives == {"instance", "cluster"}

(* The getters, in the order of the natives: both call the first four,     *)
(* which are BasicQueueOptions'.                                           *)
ReadOrder == <<"queue", "resource", "queue_state", "queue_user", "resource_attribute",
               "pe", "job_state", "job_user">>
Getters(n) == IF n = "instance" THEN 8 ELSE 4

(* The order in which pygdi_qstat_env_init comes to the filters. *)
BuildOrder == <<"queue", "resource", "resource_attribute", "pe", "queue_state",
                "queue_user", "job_user", "job_state">>
Filters == ToSet(BuildOrder)

(* The filters whose list get_string_list (external) builds, and those     *)
(* whose list this file builds, name by name.                              *)
StringFilters == {"queue", "pe", "queue_user", "job_user"}
LoopFilters == {"resource", "resource_attribute"}
ListFilters == StringFilters \cup LoopFilters

(* What the report is to show, named by the bits it sets, in the order it  *)
(* is read; NOEMPTYQ is asked for by not showing empty queues.             *)
ShowOrder == <<"NOEMPTYQ", "FULL", "RESOURCES", "PRIORITY", "EXTENDED", "URGENCY",
               "TASKS", "NO_TASK_GROUPS", "NO_PETASK_GROUPS", "explain">>

(* What a caller of each native can ask for. *)
Options(n) ==
  IF n = "instance"
  THEN Filters \cup ToSet(ShowOrder)
  ELSE {ReadOrder[i] : i \in 1 .. Getters(n)}

(* The errors of the answer list: of the failure that ends the native, of  *)
(* a letter that names no queue state, of a character that explains none.  *)
Answers == {"failure", "letter", "character"}

VARIABLES
  native,   \* the native that was called
  asked,    \* the options its caller set
  contents, \* what each filter of the options env_lists
  phase,    \* what the native is doing
  at,       \* the getter or the filter it has come to
  iterating, \* whether a builder's loop is under way
  left,     \* the names its iterator has not returned
  filter,   \* the filters read: fields of pygdi_qstat_filter_t that are not NULL
  env_lists,    \* the lists of the qstat_env
  applied,  \* the options the qstat_env reflects: its attributes, bits and queue_state
  alp       \* the errors in the answer list

optionVars == <<native, asked, contents>>
buildVars == <<phase, at, iterating, left, filter, env_lists, applied, alp>>
envVars == <<optionVars, buildVars>>

Phases == {"read", "build", "show", "ready", "failed"}

EnvTypeOK ==
  /\ native \in Natives
  /\ asked \subseteq Options(native)
  /\ contents \subseteq Names
  /\ phase \in Phases
  /\ at \in 1 .. Len(ShowOrder) + 1
  /\ iterating \in BOOLEAN
  /\ left \subseteq Names
  /\ filter \subseteq Filters
  /\ env_lists \in [ListFilters -> SUBSET Names]
  /\ applied \subseteq Options("instance")
  /\ alp \subseteq Answers

EnvInit ==
  /\ native \in Natives
  /\ asked \in SUBSET Options(native) /\ Cardinality(asked) <= MaxAsked
  /\ contents \in SUBSET Names /\ (asked \cap ListFilters = {} => contents = {})
  /\ phase = "read" /\ at = 1 /\ iterating = FALSE /\ left = {}
  /\ filter = {}
  /\ env_lists = [f \in ListFilters |-> {}]
  /\ applied = {} /\ alp = {}

-----------------------------------------------------------------------------
(* The label error is next. *)
EnvFails ==
  /\ phase' = "failed"
  /\ alp' = alp \cup {"failure"}
  /\ UNCHANGED <<optionVars, at, filter, applied>>

(* BasicQueueOptions_getQueueFilter, ...: a filter, or NULL. *)
ReadFilter ==
  /\ phase = "read"
  /\ LET f == ReadOrder[at]
     IN  filter' = IF f \in asked THEN filter \cup {f} ELSE filter
  /\ IF at = Getters(native)
     THEN phase' = "build" /\ at' = 1
     ELSE at' = at + 1 /\ UNCHANGED phase
  /\ UNCHANGED <<optionVars, iterating, left, env_lists, applied, alp>>

(* The GDI context, which comes first, or one of the getters. *)
ReadFails == phase = "read" /\ EnvFails /\ UNCHANGED <<iterating, left, env_lists>>

-----------------------------------------------------------------------------
(* pygdi_qstat_env_init. *)

Building(f) == phase = "build" /\ f = BuildOrder[at] /\ f \in filter

(* It is done with a filter.  What the report shows is asked next, if the  *)
(* native asks at all.                                                     *)
BuildNext ==
  IF at < Len(BuildOrder) THEN at' = at + 1 /\ UNCHANGED phase
  ELSE at' = 1 /\ phase' = IF native = "instance" THEN "show" ELSE "ready"

(* A filter that is NULL. *)
NoFilter ==
  /\ phase = "build" /\ BuildOrder[at] \notin filter
  /\ BuildNext
  /\ UNCHANGED <<optionVars, iterating, left, filter, env_lists, applied, alp>>

(* get_string_list, then the attributes the filter needs are added. *)
StringList(f) ==
  /\ Building(f)
  /\ env_lists' = [env_lists EXCEPT ![f] = contents]
  /\ applied' = applied \cup {f}
  /\ BuildNext
  /\ UNCHANGED <<optionVars, iterating, left, filter, alp>>

(* It may have added some of the names. *)
StringListFails(f) ==
  /\ Building(f)
  /\ \E part \in SUBSET contents : env_lists' = [env_lists EXCEPT ![f] = part]
  /\ EnvFails
  /\ UNCHANGED <<iterating, left>>

(* build_resource_filter and build_resource_attribute_filter get the names *)
(* and an iterator.  The second has set its bits of full_listing by then,  *)
(* and may be told that there are no names.                                *)
LoopStarts(f) ==
  /\ Building(f) /\ ~iterating
  /\ iterating' = TRUE /\ left' = contents
  /\ applied' = IF f = "resource_attribute" THEN applied \cup {f} ELSE applied
  /\ UNCHANGED <<optionVars, phase, at, filter, env_lists, alp>>

NamesAreNull(f) ==
  /\ Building(f) /\ f = "resource_attribute" /\ ~iterating /\ contents = {}
  /\ applied' = applied \cup {f}
  /\ BuildNext
  /\ UNCHANGED <<optionVars, iterating, left, filter, env_lists, alp>>

(* The next name, and in the resource filter its value. *)
LoopName(f) ==
  /\ Building(f) /\ iterating
  /\ \E n \in left :
       /\ left' = left \ {n}
       /\ env_lists' = [env_lists EXCEPT ![f] = @ \cup {n}]
  /\ UNCHANGED <<optionVars, iterating, phase, at, filter, applied, alp>>

LoopEnds(f) ==
  /\ Building(f) /\ iterating /\ left = {}
  /\ iterating' = FALSE
  /\ applied' = applied \cup {f}
  /\ BuildNext
  /\ UNCHANGED <<optionVars, left, filter, env_lists, alp>>

(* Faulty: the list is kept. *)
LoopFails_KeepsList(f) ==
  /\ Building(f)
  /\ EnvFails
  /\ iterating' = FALSE /\ left' = {}
  /\ UNCHANGED env_lists

(* Faulty: the loop is left and the names it has are taken for all. *)
LoopFails_Breaks(f) ==
  /\ Building(f)
  /\ iterating' = FALSE /\ left' = {}
  /\ applied' = applied \cup {f}
  /\ BuildNext
  /\ alp' = alp \cup {"failure"}
  /\ UNCHANGED <<optionVars, filter, env_lists>>

(* A call fails, a name or a value is null, wherever the loop is: the list *)
(* is freed.                                                               *)
LoopFails(f) ==
  /\ Building(f)
  /\ EnvFails
  /\ iterating' = FALSE /\ left' = {}
  /\ env_lists' = [env_lists EXCEPT ![f] = {}]

(* build_queue_state_filter: a letter that names no state is put into the  *)
(* answer list by qinstance_state_from_string (external), and is no        *)
(* failure.                                                                *)
QueueState ==
  /\ Building("queue_state")
  /\ \/ applied' = applied \cup {"queue_state"} /\ UNCHANGED alp
     \/ alp' = alp \cup {"letter"} /\ UNCHANGED applied
  /\ BuildNext
  /\ UNCHANGED <<optionVars, iterating, left, filter, env_lists>>

(* The state string of the job filter, and build_job_state_filter          *)
(* (external).                                                             *)
JobState ==
  /\ Building("job_state")
  /\ applied' = applied \cup {"job_state"}
  /\ BuildNext
  /\ UNCHANGED <<optionVars, iterating, left, filter, env_lists, alp>>

StateFails ==
  /\ Building("queue_state") \/ Building("job_state")
  /\ EnvFails
  /\ UNCHANGED <<iterating, left, env_lists>>

-----------------------------------------------------------------------------
(* Back in nativeFillQueueInstanceSummary. *)

(* QueueInstanceSummaryOptions_showEmptyQueues, ..., getExplain. *)
Show ==
  /\ phase = "show"
  /\ LET o == ShowOrder[at]
     IN  \/ /\ applied' = IF o \in asked THEN applied \cup {o} ELSE applied
            /\ UNCHANGED alp
         \/ /\ o = "explain" /\ o \in asked
            /\ alp' = alp \cup {"character"}
            /\ UNCHANGED applied
  /\ at' = at + 1
  /\ phase' = IF at = Len(ShowOrder) THEN "ready" ELSE "show"
  /\ UNCHANGED <<optionVars, iterating, left, filter, env_lists>>

(* Faulty: the option is taken for one that is not set. *)
ShowFails_GoesOn ==
  /\ phase = "show"
  /\ at' = at + 1
  /\ phase' = IF at = Len(ShowOrder) THEN "ready" ELSE "show"
  /\ alp' = alp \cup {"failure"}
  /\ UNCHANGED <<optionVars, iterating, left, filter, env_lists, applied>>

ShowFails == phase = "show" /\ EnvFails /\ UNCHANGED <<iterating, left, env_lists>>

Read == ReadFilter \/ ReadFails
Build ==
  \/ NoFilter \/ QueueState \/ JobState \/ StateFails
  \/ \E f \in StringFilters : StringList(f) \/ StringListFails(f)
  \/ \E f \in LoopFilters :
       LoopStarts(f) \/ NamesAreNull(f) \/ LoopName(f) \/ LoopEnds(f) \/ LoopFails(f)

EnvNext == Read \/ Build \/ Show \/ ShowFails

EnvSpec == EnvInit /\ [][EnvNext]_envVars

-----------------------------------------------------------------------------
(* Properties. *)

(* The errors that excuse an option the qstat_env does not reflect. *)
Excused == (IF "letter" \in alp THEN {"queue_state"} ELSE {})
           \cup (IF "character" \in alp THEN {"explain"} ELSE {})

(* No report runs with a filter that is missing, half-built or nobody      *)
(* asked for, nor without an option that was set: it reflects the options  *)
(* read in one order and built in another, but for a queue state or an     *)
(* explanation with a letter that names none.                              *)
OptionsApplied ==
  phase = "ready" =>
    /\ applied \subseteq asked
    /\ asked \ applied \subseteq Excused
    /\ \A f \in ListFilters : env_lists[f] = IF f \in asked THEN contents ELSE {}

(* The lists this file builds name by name are whole or empty whenever no  *)
(* loop is under way, so that qstat_env_destroy never meets a part.        *)
NothingHalfBuilt ==
  ~iterating =>
    \A f \in LoopFilters : env_lists[f] \in {contents, {}}
-----------------------------------------------------------------------------
(* The inductive invariant. *)

(* What of an order lies behind. *)
Behind(order) == {order[i] : i \in 1 .. at - 1}

(* at is inside the order the phase goes through. *)
PlaceKnown ==
  /\ phase = "read" => at <= Getters(native)
  /\ phase = "build" => at <= Len(BuildOrder)
  /\ phase = "show" => at <= Len(ShowOrder) /\ native = "instance"

(* The filters read are those asked for, as far as the getters have come.  *)
FiltersRead ==
  /\ phase = "read" => filter = asked \cap Behind(ReadOrder)
  /\ phase \in {"build", "show", "ready"} => filter = asked \cap Filters

(* Nothing is applied before its turn, and nothing but what was asked.     *)
AppliedInTurn ==
  /\ applied \subseteq asked
  /\ phase = "read" => applied = {}
  /\ phase = "build" =>
       /\ (asked \cap Behind(BuildOrder)) \ applied \subseteq Excused
       /\ applied \subseteq Filters
  /\ phase = "show" =>
       (asked \cap (Filters \cup Behind(ShowOrder))) \ applied \subseteq Excused

(* A list is whole once its filter lies behind and empty before its turn.  *)
ListsInTurn ==
  /\ phase = "read" => \A f \in ListFilters : env_lists[f] = {}
  /\ phase = "build" => \A f \in ListFilters :
       /\ f \in asked \cap Behind(BuildOrder) => env_lists[f] = contents
       /\ f \notin asked \/ f \notin Behind(BuildOrder) \cup {BuildOrder[at]} => env_lists[f] = {}
       /\ f = BuildOrder[at] =>
            IF iterating THEN env_lists[f] \cup left = contents ELSE env_lists[f] = {}
  /\ phase \in {"show", "ready"} => \A f \in ListFilters :
       env_lists[f] = IF f \in asked THEN contents ELSE {}

(* A loop is under way in the builders that have one, only. *)
LoopKnown ==
  iterating =>
    phase = "build" /\ BuildOrder[at] \in LoopFilters \cap filter

EnvIInv ==
  /\ EnvTypeOK /\ PlaceKnown /\ FiltersRead /\ AppliedInTurn /\ ListsInTurn /\ LoopKnown
  /\ OptionsApplied /\ NothingHalfBuilt
=============================================================================
