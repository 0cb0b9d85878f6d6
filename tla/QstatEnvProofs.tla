---------------------------- MODULE QstatEnvProofs ----------------------------
(***************************************************************************)
(* Proofs about QstatEnv: the inductive invariant, and that no report runs *)
(* with a filter that is missing or half-built.                            *)
(***************************************************************************)
EXTENDS QstatEnv, TLAPS

(* What the orders hold. *)
LEMMA FiltersNamed ==
  Filters = {"queue", "resource", "resource_attribute", "pe", "queue_state",
             "queue_user", "job_user", "job_state"}
<1>1. DOMAIN BuildOrder = 1 .. 8
  BY DEF BuildOrder
<1>2. \A i \in 1 .. 8 : i = 1 \/ i = 2 \/ i = 3 \/ i = 4 \/ i = 5 \/ i = 6 \/ i = 7 \/ i = 8
  OBVIOUS
<1> QED
  BY <1>1, <1>2 DEF Filters, ToSet, BuildOrder

LEMMA OrderLengths ==
  /\ Len(BuildOrder) = 8 /\ Len(ShowOrder) = 10
  BY DEF BuildOrder, ShowOrder

(* A filter has one place in the order. *)
LEMMA BuildOrderOnce ==
  ASSUME NEW i \in 1 .. 8, NEW j \in 1 .. 8, BuildOrder[i] = BuildOrder[j]
  PROVE  i = j
<1>1. \A k \in 1 .. 8 : k = 1 \/ k = 2 \/ k = 3 \/ k = 4 \/ k = 5 \/ k = 6 \/ k = 7 \/ k = 8
  OBVIOUS
<1> QED
  BY <1>1 DEF BuildOrder

LEMMA BuildOrderFilters ==
  /\ \A i \in 1 .. 8 : BuildOrder[i] \in Filters
  /\ {BuildOrder[i] : i \in 1 .. 8} = Filters
  BY DEF Filters, ToSet, BuildOrder

-----------------------------------------------------------------------------
(* Every variable keeps its type, and at its place in the order. *)
LEMMA EnvTypeInit == EnvInit => EnvTypeOK /\ PlaceKnown
<1> SUFFICES ASSUME EnvInit PROVE EnvTypeOK /\ PlaceKnown
  OBVIOUS
<1>1. iterating \in BOOLEAN
  BY Zenon DEF EnvInit
<1>2. env_lists \in [ListFilters -> SUBSET Names]
  BY DEF EnvInit
<1>3. native = "instance" \/ native = "cluster"
  BY DEF EnvInit, Natives
<1>4. PlaceKnown /\ at \in 1 .. Len(ShowOrder) + 1 /\ phase \in Phases
<2>1. at = 1 /\ phase = "read"
  BY DEF EnvInit
<2>2. 1 <= Getters(native)
  BY <1>3 DEF Getters
<2>3. QED
  BY <2>1, <2>2, OrderLengths DEF PlaceKnown, Phases
<1>5. native \in Natives /\ asked \subseteq Options(native)
  BY DEF EnvInit
<1>6. contents \subseteq Names /\ left \subseteq Names /\ filter \subseteq Filters
      /\ applied \subseteq Options("instance") /\ alp \subseteq Answers
  BY DEF EnvInit
<1>7. QED
  BY <1>1, <1>2, <1>4, <1>5, <1>6 DEF EnvTypeOK

(* The place, apart from the rest. *)
LEMMA PlaceStep == EnvTypeOK /\ PlaceKnown /\ [EnvNext]_envVars =>
                     PlaceKnown' /\ at' \in 1 .. Len(ShowOrder) + 1 /\ phase' \in Phases
<1> SUFFICES ASSUME EnvTypeOK, PlaceKnown, [EnvNext]_envVars
             PROVE  PlaceKnown' /\ at' \in 1 .. Len(ShowOrder) + 1 /\ phase' \in Phases
  OBVIOUS
<1>0. native = "instance" \/ native = "cluster"
  BY DEF EnvTypeOK, Natives
<1> USE <1>0, OrderLengths DEF PlaceKnown, Phases, optionVars, BuildNext, Getters
<1>1. at \in 1 .. 11 /\ phase \in Phases
  BY DEF EnvTypeOK
<1>2. CASE phase' = "failed" /\ UNCHANGED at
  BY <1>1, <1>2
<1>3. CASE UNCHANGED <<phase, at, native>>
  BY <1>1, <1>3
<1>4. CASE phase = "build" /\ BuildNext /\ UNCHANGED native
  BY <1>1, <1>4
<1>5. CASE ReadFilter
  BY <1>1, <1>5 DEF ReadFilter
<1>6. CASE Show
<2>1. phase = "show" /\ at' = at + 1 /\ phase' = (IF at = 10 THEN "ready" ELSE "show")
      /\ UNCHANGED native
  BY <1>6 DEF Show
<2>2. QED
  BY <2>1, <1>1
<1>7. QED
  BY <1>2, <1>3, <1>4, <1>5, <1>6
     DEF EnvNext, Read, Build, ReadFails, StateFails, ShowFails, EnvFails, NoFilter, QueueState,
         JobState, StringList, StringListFails, LoopStarts, NamesAreNull, LoopName, LoopEnds,
         LoopFails, Building, envVars, buildVars

LEMMA EnvTypeStep == EnvTypeOK /\ PlaceKnown /\ [EnvNext]_envVars => EnvTypeOK'
<1> SUFFICES ASSUME EnvTypeOK, PlaceKnown, [EnvNext]_envVars PROVE EnvTypeOK'
  OBVIOUS
<1>1. at' \in 1 .. Len(ShowOrder) + 1 /\ phase' \in Phases
  BY PlaceStep
<1>2. iterating' \in BOOLEAN
  BY Zenon DEF EnvNext, Read, Build, ReadFilter, ReadFails, NoFilter, StringList, StringListFails,
     LoopStarts, NamesAreNull, LoopName, LoopEnds, LoopFails, QueueState, JobState,
     StateFails, Show, ShowFails, EnvTypeOK, envVars, buildVars, EnvFails
<1>3. filter' \subseteq Filters /\ applied' \subseteq Options("instance")
<2>0. /\ Filters \subseteq Options("instance")
      /\ \A i \in 1 .. 10 : ShowOrder[i] \in Options("instance")
  <3>1. DOMAIN ShowOrder = 1 .. 10
    BY DEF ShowOrder
  <3>2. QED
    BY <3>1 DEF Options, ToSet
<2>1. CASE ReadFilter
  <3>1. ReadOrder[at] \in Filters
    <4>1. native = "instance" \/ native = "cluster"
      BY DEF EnvTypeOK, Natives
    <4>2. at \in 1 .. 11 /\ at <= Getters(native)
      BY <2>1, OrderLengths DEF ReadFilter, PlaceKnown, EnvTypeOK
    <4>3. at \in 1 .. 8 /\ (native = "cluster" => at \in 1 .. 4)
      BY <4>1, <4>2 DEF Getters
    <4>4. at = 1 \/ at = 2 \/ at = 3 \/ at = 4 \/ at = 5 \/ at = 6 \/ at = 7 \/ at = 8
      BY <4>3
    <4>5. QED
      BY <4>1, <4>3, <4>4, FiltersNamed DEF ReadOrder
  <3>2. QED
    BY <2>1, <3>1 DEF ReadFilter, EnvTypeOK
<2>3. CASE Show
  <3>1. at \in 1 .. 10
    BY <2>3, OrderLengths DEF Show, PlaceKnown, EnvTypeOK
  <3>2. QED
    BY <2>0, <2>3, <3>1 DEF Show, EnvTypeOK
<2>4. CASE QueueState \/ JobState
  BY <2>0, <2>4, FiltersNamed DEF QueueState, JobState, EnvTypeOK
<2>5. CASE UNCHANGED <<filter, applied>>
  BY <2>5 DEF EnvTypeOK
<2>6. ASSUME NEW f \in StringFilters, StringList(f) \/ StringListFails(f)
      PROVE  filter' \subseteq Filters /\ applied' \subseteq Options("instance")
  BY <2>0, <2>6, FiltersNamed
     DEF StringList, StringListFails, EnvFails, EnvTypeOK, StringFilters
<2>7. ASSUME NEW f \in LoopFilters,
             LoopStarts(f) \/ NamesAreNull(f) \/ LoopName(f) \/ LoopEnds(f) \/ LoopFails(f)
      PROVE  filter' \subseteq Filters /\ applied' \subseteq Options("instance")
  BY <2>0, <2>7, FiltersNamed
     DEF LoopStarts, NamesAreNull, LoopName, LoopEnds, LoopFails, EnvFails, EnvTypeOK, LoopFilters
<2>8. QED
  BY <2>1, <2>3, <2>4, <2>5, <2>6, <2>7
     DEF EnvNext, Read, Build, ReadFails, NoFilter, StateFails, ShowFails, EnvFails, envVars, buildVars
<1>4. env_lists' \in [ListFilters -> SUBSET Names] /\ left' \subseteq Names
<2>1. CASE UNCHANGED <<env_lists, left>>
  BY <2>1 DEF EnvTypeOK
<2>2. ASSUME NEW f \in StringFilters, StringList(f) \/ StringListFails(f)
      PROVE  env_lists' \in [ListFilters -> SUBSET Names] /\ left' \subseteq Names
  BY <2>2 DEF StringList, StringListFails, EnvTypeOK, optionVars
<2>3. ASSUME NEW f \in LoopFilters,
             LoopStarts(f) \/ NamesAreNull(f) \/ LoopName(f) \/ LoopEnds(f) \/ LoopFails(f)
      PROVE  env_lists' \in [ListFilters -> SUBSET Names] /\ left' \subseteq Names
  BY <2>3 DEF LoopStarts, NamesAreNull, LoopName, LoopEnds, LoopFails, EnvTypeOK, optionVars
<2>4. QED
  BY <2>1, <2>2, <2>3
     DEF EnvNext, Read, Build, ReadFilter, ReadFails, NoFilter, QueueState, JobState, StateFails,
         Show, ShowFails, envVars, buildVars
<1>5. UNCHANGED optionVars /\ alp' \subseteq Answers
  BY DEF EnvNext, Read, Build, ReadFilter, ReadFails, NoFilter, StringList, StringListFails,
     LoopStarts, NamesAreNull, LoopName, LoopEnds, LoopFails, QueueState, JobState,
     StateFails, Show, ShowFails, EnvTypeOK, envVars, buildVars, EnvFails, Answers
<1>6. QED
  BY <1>1, <1>2, <1>3, <1>4, <1>5 DEF EnvTypeOK, optionVars

-----------------------------------------------------------------------------
(* One filter after the other. *)

(* The filter in hand does not lie behind.                                 *)
LEMMA InHand ==
  ASSUME EnvTypeOK, PlaceKnown, phase = "build"
  PROVE  /\ at \in 1 .. 8
         /\ BuildOrder[at] \in Filters \ Behind(BuildOrder)
         /\ Behind(BuildOrder) \subseteq Filters
<1>1. at \in 1 .. 8
  BY OrderLengths DEF EnvTypeOK, PlaceKnown
<1>2. QED
  BY <1>1, BuildOrderOnce, BuildOrderFilters DEF Behind

(* BuildNext puts the filter in hand behind, or ends the building.         *)
LEMMA BuildTurn ==
  ASSUME EnvTypeOK, PlaceKnown, phase = "build", BuildNext
  PROVE  /\ BuildOrder[at] \in Filters \ Behind(BuildOrder)
         /\ Behind(BuildOrder) \subseteq Filters
         /\ phase' \in {"show", "ready"} =>
              /\ Filters = Behind(BuildOrder) \cup {BuildOrder[at]}
              /\ Behind(ShowOrder)' = {}
         /\ phase' = "build" =>
              /\ Behind(BuildOrder)' = Behind(BuildOrder) \cup {BuildOrder[at]}
              /\ (BuildOrder[at] \in Filters \ Behind(BuildOrder))'
         /\ phase' \in {"show", "ready", "build"}
<1>1. at \in 1 .. 8
  BY InHand
<1>2. BuildOrder[at] \in Filters \ Behind(BuildOrder) /\ Behind(BuildOrder) \subseteq Filters
  BY InHand
<1>3. CASE at = 8
  <2>1. at' = 1 /\ phase' \in {"show", "ready"}
    BY <1>3, OrderLengths DEF BuildNext
  <2>2. Filters = Behind(BuildOrder) \cup {BuildOrder[at]}
    BY <1>3, BuildOrderFilters DEF Behind
  <2>3. QED
    BY <1>2, <2>1, <2>2 DEF Behind
<1>4. CASE at # 8
  <2>1. at' = at + 1 /\ at' \in 1 .. 8 /\ phase' = "build"
    BY <1>1, <1>4, OrderLengths DEF BuildNext
  <2>2. Behind(BuildOrder)' = Behind(BuildOrder) \cup {BuildOrder[at]}
    BY <1>1, <2>1 DEF Behind
  <2>3. (BuildOrder[at] \in Filters \ Behind(BuildOrder))'
    BY <2>1, BuildOrderOnce, BuildOrderFilters DEF Behind
  <2>4. QED
    BY <1>2, <2>1, <2>2, <2>3
<1>5. QED
  BY <1>3, <1>4

(* The getters of a native have read all filters it can be asked for.      *)
LEMMA AllRead ==
  ASSUME EnvTypeOK
  PROVE  {ReadOrder[i] : i \in 1 .. Getters(native)} \cap asked = asked \cap Filters
<1>1. CASE native = "instance"
  <2>1. \A i \in 1 .. 8 : i = 1 \/ i = 2 \/ i = 3 \/ i = 4 \/ i = 5 \/ i = 6 \/ i = 7 \/ i = 8
    OBVIOUS
  <2>2. {ReadOrder[i] : i \in 1 .. 8} = Filters
    BY <2>1, FiltersNamed DEF ReadOrder
  <2>3. QED
    BY <1>1, <2>2 DEF Getters
<1>2. CASE native = "cluster"
  <2>1. asked \subseteq {ReadOrder[i] : i \in 1 .. Getters(native)}
    BY <1>2 DEF EnvTypeOK, Options
  <2>2. \A i \in 1 .. 4 : i = 1 \/ i = 2 \/ i = 3 \/ i = 4
    OBVIOUS
  <2>3. {ReadOrder[i] : i \in 1 .. 4} \subseteq Filters
    BY <2>2, FiltersNamed DEF ReadOrder
  <2>4. QED
    BY <1>2, <2>1, <2>3 DEF Getters
<1>3. QED
  BY <1>1, <1>2 DEF EnvTypeOK, Natives

(* What has been shown at the end is all there is to show.                 *)
LEMMA AllShown ==
  ASSUME EnvTypeOK
  PROVE  asked \subseteq Filters \cup {ShowOrder[i] : i \in 1 .. 10}
<1>1. DOMAIN ShowOrder = 1 .. 10
  BY DEF ShowOrder
<1>2. CASE native = "instance"
  BY <1>1, <1>2 DEF EnvTypeOK, Options, ToSet
<1>3. CASE native = "cluster"
  BY <1>3, AllRead DEF EnvTypeOK, Options
<1>4. QED
  BY <1>2, <1>3 DEF EnvTypeOK, Natives

-----------------------------------------------------------------------------
LEMMA EnvInitially == EnvInit => EnvIInv
<1> SUFFICES ASSUME EnvInit PROVE EnvIInv
  OBVIOUS
<1>1. EnvTypeOK /\ PlaceKnown
  BY EnvTypeInit
<1>2. /\ phase = "read" /\ at = 1 /\ ~iterating /\ filter = {} /\ applied = {}
      /\ \A f \in ListFilters : env_lists[f] = {}
  BY DEF EnvInit
<1>3. FiltersRead /\ AppliedInTurn /\ OptionsApplied
  BY <1>2 DEF FiltersRead, AppliedInTurn, OptionsApplied, Behind
<1>4. ListsInTurn /\ LoopKnown /\ NothingHalfBuilt
  BY <1>2 DEF ListsInTurn, LoopKnown, NothingHalfBuilt, ListFilters
<1>5. QED
  BY <1>1, <1>3, <1>4 DEF EnvIInv

(* The first failure ends it: only the lists of the loops matter then.     *)
LEMMA FailureKeeps ==
  ASSUME EnvIInv, EnvFails, EnvTypeOK', PlaceKnown', ~iterating', applied \subseteq asked,
         \A f \in LoopFilters : env_lists'[f] \in {env_lists[f], {}},
         iterating => \E f \in LoopFilters : f = BuildOrder[at] /\ env_lists'[f] = {}
  PROVE  EnvIInv'
<1> USE DEF EnvFails, optionVars
<1>1. phase' = "failed"
  OBVIOUS
<1>2. (FiltersRead /\ AppliedInTurn /\ ListsInTurn /\ LoopKnown /\ OptionsApplied)'
  BY <1>1 DEF FiltersRead, AppliedInTurn, ListsInTurn, LoopKnown, OptionsApplied
<1>3. NothingHalfBuilt'
  <2>1. CASE ~iterating
    BY <2>1 DEF EnvIInv, NothingHalfBuilt
  <2>2. CASE iterating
    <3>1. \A g \in LoopFilters : g # BuildOrder[at] => env_lists[g] \in {contents, {}}
      BY <2>2 DEF EnvIInv, ListsInTurn, LoopKnown, ListFilters
    <3>2. QED
      BY <2>2, <3>1 DEF NothingHalfBuilt
  <2>3. QED
    BY <2>1, <2>2
<1>4. QED
  BY <1>2, <1>3 DEF EnvIInv

(* A filter is done with, one way or another: what the builder leaves, and *)
(* the turn, keep the invariant.                                           *)
LEMMA TurnKeeps ==
  ASSUME EnvIInv, phase = "build", BuildNext, UNCHANGED <<optionVars, filter>>,
         EnvTypeOK', PlaceKnown', ~iterating',
         LET f == BuildOrder[at]
         IN  /\ applied' \in {applied, applied \cup ({f} \cap asked)}
             /\ alp \subseteq alp'
             /\ f \in asked \ applied' => f \in Excused'
             /\ \A g \in ListFilters \ {f} : env_lists'[g] = env_lists[g]
             /\ f \in ListFilters => env_lists'[f] = IF f \in asked THEN contents ELSE {}
  PROVE  EnvIInv'
<1> DEFINE f == BuildOrder[at]
<1> USE DEF optionVars
<1>1. EnvTypeOK /\ PlaceKnown
  BY DEF EnvIInv
<1>2. /\ f \in Filters \ Behind(BuildOrder)
      /\ Behind(BuildOrder) \subseteq Filters
      /\ phase' \in {"show", "ready"} =>
           Filters = Behind(BuildOrder) \cup {f} /\ Behind(ShowOrder)' = {}
      /\ phase' = "build" =>
           /\ Behind(BuildOrder)' = Behind(BuildOrder) \cup {f}
           /\ (BuildOrder[at] \in Filters \ Behind(BuildOrder))'
      /\ phase' \in {"show", "ready", "build"}
  BY <1>1, BuildTurn
<1>3. FiltersRead'
  BY <1>2 DEF EnvIInv, FiltersRead
<1>4. /\ applied' \subseteq asked /\ applied' \subseteq Filters
      /\ (asked \cap (Behind(BuildOrder) \cup {f})) \ applied' \subseteq Excused'
  BY <1>2 DEF EnvIInv, AppliedInTurn, Excused
<1>5. AppliedInTurn'
  BY <1>2, <1>4 DEF AppliedInTurn
<1>6. /\ \A g \in ListFilters : g \in asked \cap (Behind(BuildOrder) \cup {f}) => env_lists'[g] = contents
      /\ \A g \in ListFilters :
           g \notin asked \/ g \notin Behind(BuildOrder) \cup {f} => env_lists'[g] = {}
  BY <1>2 DEF EnvIInv, ListsInTurn
<1>7. ListFilters \subseteq Filters
  BY FiltersNamed DEF ListFilters, LoopFilters, StringFilters
<1>8. ListsInTurn'
  <2>1. CASE phase' = "build"
    BY <1>2, <1>6, <2>1 DEF ListsInTurn
  <2>2. CASE phase' \in {"show", "ready"}
    BY <1>2, <1>6, <1>7, <2>2 DEF ListsInTurn
  <2>3. QED
    BY <1>2, <2>1, <2>2
<1>9. OptionsApplied'
  <2>1. phase' = "ready" => asked \subseteq Filters
    <3>1. phase' = "ready" => native # "instance"
      BY DEF BuildNext
    <3>2. native # "instance" => asked \subseteq {ReadOrder[i] : i \in 1 .. Getters(native)}
      BY <1>1 DEF EnvTypeOK, Options
    <3>3. QED
      BY <1>1, <3>1, <3>2, AllRead
  <2>2. phase' = "ready" => \A g \in ListFilters :
          env_lists'[g] = IF g \in asked THEN contents ELSE {}
    BY <1>8 DEF ListsInTurn
  <2>3. QED
    BY <1>2, <1>4, <2>1, <2>2 DEF OptionsApplied
<1>10. NothingHalfBuilt' /\ LoopKnown'
  <2>1. \A g \in ListFilters : env_lists'[g] \in {contents, {}}
    BY <1>6, <1>7, <1>2
  <2>2. QED
    BY <2>1 DEF NothingHalfBuilt, LoopKnown, ListFilters
<1>11. QED
  BY <1>3, <1>5, <1>8, <1>9, <1>10 DEF EnvIInv

(* Every step keeps the invariant. *)
LEMMA EnvInductive == EnvIInv /\ [EnvNext]_envVars => EnvIInv'
<1> SUFFICES ASSUME EnvIInv, [EnvNext]_envVars PROVE EnvIInv'
  OBVIOUS
<1>0. EnvTypeOK /\ PlaceKnown /\ EnvTypeOK' /\ PlaceKnown' /\ applied \subseteq asked
  BY EnvTypeStep, PlaceStep DEF EnvIInv, AppliedInTurn
<1>1. CASE ReadFilter
  <2>1. at \in 1 .. 8 /\ at <= Getters(native) /\ phase = "read"
    BY <1>0, <1>1 DEF ReadFilter, PlaceKnown, EnvTypeOK, Natives, Getters
  <2>2. filter' = asked \cap {ReadOrder[i] : i \in 1 .. at}
    BY <1>1, <2>1 DEF ReadFilter, EnvIInv, FiltersRead, Behind
  <2>3. applied = {} /\ applied' = {} /\ \A f \in ListFilters : env_lists'[f] = {}
    BY <1>1, <2>1 DEF ReadFilter, EnvIInv, AppliedInTurn, ListsInTurn
  <2>4. ~iterating /\ ~iterating' /\ UNCHANGED optionVars
    BY <1>1, <2>1 DEF ReadFilter, EnvIInv, LoopKnown
  <2>5. CASE at = Getters(native)
    <3>1. phase' = "build" /\ Behind(BuildOrder)' = {} /\ filter' = asked \cap Filters
      BY <1>0, <1>1, <2>2, <2>5, AllRead DEF ReadFilter, Behind
    <3>2. QED
      BY <1>0, <2>3, <2>4, <3>1
         DEF EnvIInv, FiltersRead, AppliedInTurn, ListsInTurn, LoopKnown, OptionsApplied,
             NothingHalfBuilt, optionVars, ListFilters
  <2>6. CASE at # Getters(native)
    <3>1. phase' = "read" /\ filter' = asked \cap Behind(ReadOrder)'
      BY <1>1, <2>1, <2>2, <2>6 DEF ReadFilter, Behind
    <3>2. QED
      BY <1>0, <2>3, <2>4, <3>1
         DEF EnvIInv, FiltersRead, AppliedInTurn, ListsInTurn, LoopKnown, OptionsApplied,
             NothingHalfBuilt, optionVars, ListFilters
  <2>7. QED
    BY <2>5, <2>6
<1>2. CASE ReadFails \/ StateFails \/ ShowFails
  <2>1. ~iterating
    BY <1>2 DEF ReadFails, StateFails, ShowFails, EnvIInv, LoopKnown, LoopFilters, Building
  <2>2. QED
    BY <1>0, <1>2, <2>1, FailureKeeps DEF ReadFails, StateFails, ShowFails
<1>3. CASE NoFilter
  <2>1. BuildOrder[at] \notin asked /\ ~iterating
    <3>1. BuildOrder[at] \in Filters
      BY <1>0, <1>3, BuildTurn DEF NoFilter
    <3>2. QED
      BY <1>3, <3>1 DEF NoFilter, EnvIInv, FiltersRead, LoopKnown
  <2>2. \A f \in ListFilters : f = BuildOrder[at] => env_lists[f] = {}
    BY <1>3, <2>1 DEF NoFilter, EnvIInv, ListsInTurn
  <2>3. QED
    BY <1>0, <1>3, <2>1, <2>2, TurnKeeps DEF NoFilter
<1>4. ASSUME NEW f \in StringFilters, StringList(f) \/ StringListFails(f)
      PROVE  EnvIInv'
  <2>1. ~iterating /\ f \in ListFilters \ LoopFilters
    BY <1>4 DEF StringList, StringListFails, Building, EnvIInv, LoopKnown, StringFilters,
        LoopFilters, ListFilters
  <2>2. phase = "build" /\ f = BuildOrder[at] /\ f \in asked
    BY <1>4 DEF StringList, StringListFails, Building, EnvIInv, FiltersRead
  <2>3. env_lists \in [ListFilters -> SUBSET Names]
    BY <1>0 DEF EnvTypeOK
  <2>4. CASE StringList(f)
    BY <1>0, <2>1, <2>2, <2>3, <2>4, TurnKeeps DEF StringList
  <2>5. CASE StringListFails(f)
    <3>1. \A g \in LoopFilters : env_lists'[g] = env_lists[g]
      BY <2>1, <2>3, <2>5 DEF StringListFails, ListFilters
    <3>2. QED
      BY <1>0, <2>1, <2>5, <3>1, FailureKeeps DEF StringListFails
  <2>6. QED
    BY <1>4, <2>4, <2>5
<1>5. ASSUME NEW f \in LoopFilters,
             LoopStarts(f) \/ NamesAreNull(f) \/ LoopName(f) \/ LoopEnds(f) \/ LoopFails(f)
      PROVE  EnvIInv'
  <2>1. phase = "build" /\ f = BuildOrder[at] /\ f \in asked /\ f \in ListFilters
    BY <1>5 DEF LoopStarts, NamesAreNull, LoopName, LoopEnds, LoopFails, Building, EnvIInv,
       FiltersRead, ListFilters
  <2>2. env_lists \in [ListFilters -> SUBSET Names]
    BY <1>0 DEF EnvTypeOK
  <2>3. IF iterating THEN env_lists[f] \cup left = contents ELSE env_lists[f] = {}
    BY <2>1 DEF EnvIInv, ListsInTurn
  <2>4. ASSUME UNCHANGED <<optionVars, phase, at, filter, alp>>, iterating', f \in filter,
               applied' \in {applied, applied \cup {f}},
               \A g \in ListFilters \ {f} : env_lists'[g] = env_lists[g],
               env_lists'[f] \cup left' = contents
        PROVE  EnvIInv'
    <3>1. FiltersRead' /\ AppliedInTurn'
      BY <2>1, <2>4, FiltersNamed
         DEF EnvIInv, FiltersRead, AppliedInTurn, Behind, Excused, optionVars, LoopFilters
    <3>2. ListsInTurn'
      <4>1. f \notin Behind(BuildOrder) /\ Behind(BuildOrder)' = Behind(BuildOrder)
        BY <1>0, <2>1, <2>4, InHand DEF Behind
      <4>2. QED
        BY <2>1, <2>4, <4>1 DEF EnvIInv, ListsInTurn, optionVars
    <3>3. (LoopKnown /\ OptionsApplied /\ NothingHalfBuilt)'
      <4>1. phase' = "build" /\ BuildOrder[at'] \in LoopFilters \cap filter' /\ iterating'
        BY <1>5, <2>1, <2>4
      <4>2. QED
        BY <4>1 DEF LoopKnown, OptionsApplied, NothingHalfBuilt
    <3>4. QED
      BY <1>0, <3>1, <3>2, <3>3 DEF EnvIInv
  <2>5. CASE LoopStarts(f)
    BY <2>1, <2>3, <2>4, <2>5 DEF LoopStarts, Building
  <2>6. CASE LoopName(f)
    BY <2>1, <2>2, <2>3, <2>4, <2>6 DEF LoopName, Building
  <2>7. CASE NamesAreNull(f)
    BY <1>0, <2>1, <2>3, <2>7, TurnKeeps DEF NamesAreNull
  <2>8. CASE LoopEnds(f)
    BY <1>0, <2>1, <2>3, <2>8, TurnKeeps DEF LoopEnds
  <2>9. CASE LoopFails(f)
    BY <1>0, <2>1, <2>2, <2>9, FailureKeeps DEF LoopFails, ListFilters
  <2>10. QED
    BY <1>5, <2>5, <2>6, <2>7, <2>8, <2>9
<1>6. CASE QueueState \/ JobState
  <2>1. /\ phase = "build" /\ ~iterating /\ BuildOrder[at] \in asked \ ListFilters
        /\ \/ /\ applied' = applied \cup {BuildOrder[at]} /\ UNCHANGED alp
           \/ /\ BuildOrder[at] = "queue_state" /\ UNCHANGED applied
              /\ alp' = alp \cup {"letter"}
    BY <1>6 DEF QueueState, JobState, Building, EnvIInv, FiltersRead, LoopKnown, ListFilters,
       LoopFilters, StringFilters
  <2>2. QED
    BY <1>0, <1>6, <2>1, TurnKeeps DEF QueueState, JobState, Excused
<1>7. CASE Show
  <2>1. /\ phase = "show" /\ at \in 1 .. 10 /\ ~iterating /\ native = "instance"
        /\ at' = at + 1 /\ UNCHANGED <<optionVars, iterating, left, filter, env_lists>>
    BY <1>0, <1>7, OrderLengths DEF Show, EnvTypeOK, PlaceKnown, EnvIInv, LoopKnown
  <2>2. /\ applied' \subseteq asked /\ applied \subseteq applied'
        /\ ShowOrder[at] \in asked \ applied' => ShowOrder[at] \in Excused'
        /\ Excused \subseteq Excused'
    BY <1>0, <1>7 DEF Show, Excused
  <2>3. (asked \cap (Filters \cup {ShowOrder[i] : i \in 1 .. at})) \ applied' \subseteq Excused'
    BY <2>1, <2>2 DEF EnvIInv, AppliedInTurn, Behind
  <2>4. CASE at = 10
    <3>1. phase' = "ready"
      BY <1>7, <2>4, OrderLengths DEF Show
    <3>2. OptionsApplied'
      <4>1. asked \ applied' \subseteq Excused'
        BY <1>0, <2>3, <2>4, AllShown
      <4>2. QED
        BY <2>1, <2>2, <3>1, <4>1 DEF EnvIInv, ListsInTurn, OptionsApplied, optionVars
    <3>3. QED
      BY <1>0, <2>1, <2>2, <3>1, <3>2
         DEF EnvIInv, FiltersRead, AppliedInTurn, ListsInTurn, LoopKnown, NothingHalfBuilt, optionVars
  <2>5. CASE at # 10
    <3>1. phase' = "show" /\ Behind(ShowOrder)' = {ShowOrder[i] : i \in 1 .. at}
      BY <1>7, <2>1, <2>5, OrderLengths DEF Show, Behind
    <3>2. QED
      BY <1>0, <2>1, <2>2, <2>3, <3>1
         DEF EnvIInv, FiltersRead, AppliedInTurn, ListsInTurn, LoopKnown, OptionsApplied,
             NothingHalfBuilt, optionVars
  <2>6. QED
    BY <2>4, <2>5
<1>8. CASE UNCHANGED envVars
  BY <1>0, <1>8
     DEF envVars, buildVars, optionVars, EnvIInv, FiltersRead, AppliedInTurn, ListsInTurn, LoopKnown,
         OptionsApplied, NothingHalfBuilt, Behind, Excused
<1>9. QED
  BY <1>1, <1>2, <1>3, <1>4, <1>5, <1>6, <1>7, <1>8 DEF EnvNext, Read, Build

(* How far the native is with its options, what it has read of them, and   *)
(* what of them the qstat_env holds.                                       *)
THEOREM EnvInvariance == EnvSpec => []EnvIInv
  BY EnvInitially, EnvInductive, PTL DEF EnvSpec

(* Every variable keeps its type.                                          *)
THEOREM EnvTypeCorrect == EnvSpec => []EnvTypeOK
<1>1. EnvIInv => EnvTypeOK
  BY DEF EnvIInv
<1>2. QED
  BY EnvInvariance, <1>1, PTL

(* No report runs with a filter that is missing, half-built or nobody      *)
(* asked for, nor without an option that was set, but for a queue state or *)
(* an explanation with a letter that names none.                           *)
THEOREM OptionsAreApplied == EnvSpec => []OptionsApplied
<1>1. EnvIInv => OptionsApplied
  BY DEF EnvIInv
<1>2. QED
  BY EnvInvariance, <1>1, PTL

(* A list built name by name is whole or empty whenever no loop is under   *)
(* way.                                                                    *)
THEOREM NothingIsHalfBuilt == EnvSpec => []NothingHalfBuilt
<1>1. EnvIInv => NothingHalfBuilt
  BY DEF EnvIInv
<1>2. QED
  BY EnvInvariance, <1>1, PTL
=============================================================================
