---------------------------- MODULE LoggingProofs ----------------------------
(***************************************************************************)
(* Theorems about Logging, for any number of threads, whatever the levels  *)
(* in use and the level of the logger.                                     *)
(***************************************************************************)
EXTENDS Logging, TLAPS

(* Nothing is cached yet. *)
LEMMA IInvInit == Init => IInv
<1> SUFFICES ASSUME Init PROVE IInv
  OBVIOUS
<1>1. (CHOOSE l \in Levels : TRUE) \in Levels
  BY LevelsAssumption
<1>2. TypeOK
  BY <1>1 DEF Init, TypeOK, CachesTyped, References, Pcs, Calls, Exceptions
<1> QED
  BY <1>2, ReferencesAssumption
     DEF Init, IInv, TypeOK, CachesKnown, RefsMade, RefsBounded, CachedForGood, ClassRefAlive, LevelObjectUsable, ExceptionKnown, ClassKnown

(* The steps that fill the caches. *)
LEMMA CacheSteps ==
  ASSUME IInv, NEW t \in Threads,
         \/ FindClass(t) \/ SetClass(t) \/ ReadClass(t) \/ GlobalClass(t)
         \/ StoreClass(t) \/ ReturnClass(t) \/ LoadLevel(t) \/ SetLevel(t)
  PROVE  CachesKnown'
<1> USE ReferencesAssumption, LevelsAssumption
    DEF IInv, CachesKnown, CachesTyped, ClassRefAlive, LevelObjectUsable, ExceptionKnown, ClassKnown,
        References, Pcs, Exceptions, Goto
(* The class is looked up. *)
<1>1. CASE FindClass(t)
  BY <1>1 DEF FindClass
<1>2. CASE SetClass(t)
  BY <1>2 DEF SetClass
<1>3. CASE ReadClass(t)
  BY <1>3 DEF ReadClass, ReadAgain
<1>4. CASE GlobalClass(t)
  <2>1. CachesTyped'
    BY <1>4 DEF GlobalClass
  <2> QED BY <1>4, <2>1 DEF GlobalClass
<1>5. CASE StoreClass(t)
  BY <1>5 DEF StoreClass
<1>6. CASE ReturnClass(t)
  BY <1>6 DEF ReturnClass, ReadAgain
(* The level is loaded. *)
<1>7. CASE LoadLevel(t)
  BY <1>7 DEF LoadLevel
<1>8. CASE SetLevel(t)
  <2>1. CachesTyped'
    BY <1>8 DEF SetLevel
  <2> QED BY <1>8, <2>1 DEF SetLevel
<1> QED BY <1>1, <1>2, <1>3, <1>4, <1>5, <1>6, <1>7, <1>8

(* A first reference of a thread leaves its counts bounded. *)
LEMMA FirstReference ==
  ASSUME NEW R, refs \in [Threads -> [R -> Nat]], NEW u \in Threads, NEW x \in R,
         \A t \in Threads : \A r \in R : refs[t][r] <= 1,
         refs' = [refs EXCEPT ![u] = [refs[u] EXCEPT ![x] = 1]]
  PROVE  /\ refs' \in [Threads -> [R -> Nat]]
         /\ \A t \in Threads : \A r \in R : refs'[t][r] <= 1
<1> DEFINE g == [refs[u] EXCEPT ![x] = 1]
<1>1. refs[u] \in [R -> Nat]
  OBVIOUS
<1>2. g \in [R -> Nat] /\ \A r \in R : g[r] <= 1
  BY <1>1
<1> HIDE DEF g
<1>3. refs' = [refs EXCEPT ![u] = g]
  BY DEF g
<1>4. QED
  BY <1>2, <1>3

(* The references made: who has made one has filled its cache, which stays *)
(* filled.                                                                 *)
LEMMA RefsSteps ==
  ASSUME IInv, NEW u \in Threads,
         \/ \E l \in Levels : LogPrintf(u, l) \/ LogAnswerList(u, l) \/ RmonLog(u, l)
         \/ Throw(u) \/ NativeReturns(u) \/ GetLogger(u) \/ CallLogger(u) \/ IsLoggable(u)
         \/ FindClass(u) \/ SetClass(u) \/ ReadClass(u) \/ GlobalClass(u)
         \/ StoreClass(u) \/ ReturnClass(u) \/ LoadLevel(u) \/ SetLevel(u)
         \/ Ask(u) \/ Write(u) \/ Record(u)
  PROVE  RefsMade'
<1> USE ReferencesAssumption, LevelsAssumption DEF IInv, CachesKnown, RefsMade, CachesTyped
<1>1. CASE GlobalClass(u)
  <2>1. refs[u][LevelClass] = 0
    BY <1>1 DEF GlobalClass, Goto, CachedForGood
  <2>2. refs' = [refs EXCEPT ![u] = [refs[u] EXCEPT ![LevelClass] = 1]]
    BY <1>1, <2>1 DEF GlobalClass
  <2>3. /\ clazz # Null /\ UNCHANGED <<clazz, object, level>>
        /\ pc[u] = "global_class" /\ pc' = [pc EXCEPT ![u] = "store_class"]
    BY <1>1 DEF GlobalClass, Goto, ClassKnown
  <2>4. LevelClass \notin Levels
    BY DEF LevelClass
  <2>5. refs' \in [Threads -> [Levels \cup {LevelClass} -> Nat]] /\ RefsBounded'
    BY <2>2, FirstReference DEF RefsBounded, RefsMade
  <2>6. CachedForGood'
    <3>1. \A t \in Threads \ {u} : pc'[t] = pc[t] /\ refs'[t] = refs[t]
      BY <2>2, <2>3
    <3>2. pc'[u] = "store_class" /\ refs'[u] = [refs[u] EXCEPT ![LevelClass] = 1]
      BY <2>2, <2>3
    <3>3. \A l \in Levels : refs'[u][l] = refs[u][l]
      BY <2>4, <3>2
    <3>4. \A l \in Levels : refs'[u][l] # 0 => object[l] # Null /\ level[u] # l
      BY <2>3, <3>3 DEF CachedForGood
    <3>5. QED
      BY <2>3, <3>1, <3>2, <3>4 DEF CachedForGood
  <2>7. QED
    BY <2>5, <2>6 DEF RefsMade
<1>2. CASE SetLevel(u)
  <2>1. refs[u][level[u]] = 0
    BY <1>2 DEF SetLevel, Goto, CachedForGood
  <2>2. refs' = [refs EXCEPT ![u] = [refs[u] EXCEPT ![level[u]] = 1]]
    BY <1>2, <2>1 DEF SetLevel
  <2>3. /\ UNCHANGED <<clazz, level>> /\ object' = [object EXCEPT ![level[u]] = Global]
        /\ pc[u] = "set_level" /\ pc' = [pc EXCEPT ![u] = "ask"]
    BY <1>2 DEF SetLevel, Goto
  <2>4. LevelClass \notin Levels
    BY DEF LevelClass
  <2>5. refs' \in [Threads -> [Levels \cup {LevelClass} -> Nat]] /\ RefsBounded'
    BY <2>2, FirstReference DEF RefsBounded, RefsMade
  <2>6. CachedForGood'
    <3>1. \A t \in Threads \ {u} : pc'[t] = pc[t] /\ refs'[t] = refs[t]
      BY <2>2, <2>3
    <3>2. pc'[u] = "ask" /\ refs'[u] = [refs[u] EXCEPT ![level[u]] = 1]
      BY <2>2, <2>3
    <3>3. refs'[u][LevelClass] = refs[u][LevelClass]
      BY <2>4, <3>2
    <3>4. \A l \in Levels : object[l] # Null \/ l = level[u] => object'[l] # Null
      BY <2>3
    <3>5. \A l \in Levels : refs'[u][l] # 0 => object'[l] # Null
      BY <3>2, <3>4 DEF CachedForGood
    <3>6. QED
      BY <2>3, <3>1, <3>2, <3>3, <3>4, <3>5 DEF CachedForGood
  <2>7. QED
    BY <2>5, <2>6 DEF RefsMade
<1>3. CASE UNCHANGED refs
  <2>1. clazz # Null => clazz' # Null
    BY <1>3 DEF LogPrintf, LogAnswerList, RmonLog, Enter, Throw, NativeReturns, GetLogger, CallLogger,
       IsLoggable, FindClass, SetClass, ReadClass, GlobalClass, StoreClass, ReturnClass, LoadLevel,
       SetLevel, Ask, Write, Record, Written, Goto, ClassKnown
  <2>2. object' = object \/ SetLevel(u)
    BY DEF LogPrintf, LogAnswerList, RmonLog, Enter, Throw, NativeReturns, GetLogger, CallLogger,
       IsLoggable, FindClass, SetClass, ReadClass, GlobalClass, StoreClass, ReturnClass, LoadLevel,
       Ask, Write, Record, Written
  <2> DEFINE filling == {"find_class", "set_class", "read_class", "global_class", "store_class",
                         "return_class", "load_level", "set_level"}
             classing == {"set_class", "read_class", "global_class"}
  <2>3. \A t \in Threads \ {u} : pc'[t] = pc[t] /\ level'[t] = level[t]
    BY DEF LogPrintf, LogAnswerList, RmonLog, Enter, Throw, NativeReturns, GetLogger, CallLogger,
       IsLoggable, FindClass, SetClass, ReadClass, GlobalClass, StoreClass, ReturnClass, LoadLevel,
       SetLevel, Ask, Write, Record, Written, Goto
  <2>4. pc'[u] \in classing => pc[u] \in classing \/ clazz = Null
    BY <1>3 DEF LogPrintf, LogAnswerList, RmonLog, Enter, Throw, NativeReturns, GetLogger, CallLogger,
       IsLoggable, FindClass, SetClass, ReadClass, GlobalClass, StoreClass, ReturnClass, LoadLevel,
       SetLevel, Ask, Write, Record, Written, Goto
  <2>5. pc'[u] \in filling =>
          level'[u] = level[u] /\ (pc[u] \in filling \/ object[level[u]] = Null)
    BY <1>3 DEF LogPrintf, LogAnswerList, RmonLog, Enter, Throw, NativeReturns, GetLogger, CallLogger,
       IsLoggable, FindClass, SetClass, ReadClass, GlobalClass, StoreClass, ReturnClass, LoadLevel,
       SetLevel, Ask, Write, Record, Written, Goto
  <2> HIDE DEF filling, classing
  <2>6. CachedForGood <=> \A t \in Threads :
          /\ refs[t][LevelClass] # 0 => clazz # Null /\ pc[t] \notin classing
          /\ \A l \in Levels : refs[t][l] # 0 =>
               object[l] # Null /\ (level[t] = l => pc[t] \notin filling)
    BY DEF CachedForGood, filling, classing
  <2>7. CachedForGood' <=> \A t \in Threads :
          /\ refs'[t][LevelClass] # 0 => clazz' # Null /\ pc'[t] \notin classing
          /\ \A l \in Levels : refs'[t][l] # 0 =>
               object'[l] # Null /\ (level'[t] = l => pc'[t] \notin filling)
    BY DEF CachedForGood, filling, classing
  <2>8. CASE object' = object
    <3>1. ASSUME NEW t \in Threads
          PROVE  /\ refs[t][LevelClass] # 0 => clazz' # Null /\ pc'[t] \notin classing
                 /\ \A l \in Levels : refs[t][l] # 0 =>
                      object[l] # Null /\ (level'[t] = l => pc'[t] \notin filling)
      <4>1. CASE t = u
        BY <2>1, <2>4, <2>5, <2>6, <4>1 DEF RefsMade
      <4>2. CASE t # u
        BY <2>1, <2>3, <2>6, <4>2 DEF RefsMade
      <4>3. QED
        BY <4>1, <4>2
    <3>2. CachedForGood'
      BY <1>3, <2>7, <2>8, <3>1
    <3>3. QED
      BY <1>3, <3>2 DEF RefsMade, RefsBounded
  <2>9. QED
    BY <1>2, <2>2, <2>8
<1>4. QED
  BY <1>1, <1>2, <1>3 DEF LogPrintf, LogAnswerList, RmonLog, Enter, Throw, NativeReturns,
     GetLogger, CallLogger, IsLoggable, FindClass, SetClass, ReadClass, StoreClass, ReturnClass, LoadLevel,
     Ask, Write, Record, Written

(* The steps of the callers and of a log function that fill nothing. *)
LEMMA OtherSteps ==
  ASSUME IInv, NEW t \in Threads,
         \/ \E l \in Levels : LogPrintf(t, l) \/ LogAnswerList(t, l) \/ RmonLog(t, l)
         \/ Throw(t) \/ NativeReturns(t) \/ GetLogger(t) \/ CallLogger(t) \/ IsLoggable(t)
         \/ Ask(t) \/ Write(t) \/ Record(t)
  PROVE  CachesKnown'
<1> USE ReferencesAssumption, LevelsAssumption
    DEF IInv, CachesKnown, CachesTyped, ClassRefAlive, LevelObjectUsable, ExceptionKnown, ClassKnown,
        References, Pcs, Calls, Exceptions, Goto, Pend
<1>1. ASSUME NEW l \in Levels, LogPrintf(t, l) \/ LogAnswerList(t, l) \/ RmonLog(t, l)
      PROVE  CachesKnown'
  BY <1>1 DEF LogPrintf, LogAnswerList, RmonLog, Enter
<1>2. CASE Throw(t) \/ NativeReturns(t)
  BY <1>2 DEF Throw, NativeReturns
<1>3. CASE GetLogger(t)
  BY <1>3 DEF GetLogger
<1>4. CASE IsLoggable(t)
  <2>1. CASE Goto(t, "is_loggable", "idle") /\ UNCHANGED ref
    BY <1>4, <2>1 DEF IsLoggable
  <2>2. CASE exception[t] = "none" /\ Goto(t, "is_loggable", "find_class")
    BY <1>4, <2>2 DEF IsLoggable
  <2>3. CASE /\ exception[t] = "none" /\ object[level[t]] # Null
             /\ Goto(t, "is_loggable", "ask")
             /\ ref' = [ref EXCEPT ![t] = object[level[t]]]
    <3>1. object[level[t]] = Global
      BY <2>3
    <3>2. /\ pc[t] = "is_loggable" /\ pc' = [pc EXCEPT ![t] = "ask"]
          /\ ref' = [ref EXCEPT ![t] = Global]
          /\ UNCHANGED <<clazz, object, call, level, exception, threw, refs>>
      BY <1>4, <2>3, <3>1 DEF IsLoggable
    <3> QED BY <2>3, <3>2
  <2> QED BY <1>4, <2>1, <2>2, <2>3 DEF IsLoggable
<1>5. CASE Ask(t)
  BY <1>5 DEF Ask
<1>6. CASE Write(t)
  BY <1>6 DEF Write, Written
<1>7. CASE CallLogger(t)
  BY <1>7 DEF CallLogger
<1>8. CASE Record(t)
  BY <1>8 DEF Record, Written
<1> QED BY <1>1, <1>2, <1>3, <1>4, <1>5, <1>6, <1>7, <1>8

(* The inductive invariant of the caches. *)
THEOREM Invariance == Spec => []IInv
<1>1. IInv /\ [Next]_vars => IInv'
  <2> SUFFICES ASSUME IInv, [Next]_vars PROVE IInv'
    OBVIOUS
  <2>1. CASE Next
    BY <2>1, CacheSteps, OtherSteps, RefsSteps DEF Next, IInv
  <2>2. CASE UNCHANGED vars
    BY <2>2 DEF vars, threadVars, IInv, CachesKnown, RefsMade, RefsBounded, CachedForGood, CachesTyped,
                ClassRefAlive, LevelObjectUsable, ExceptionKnown, ClassKnown
  <2> QED BY <2>1, <2>2
<1> QED BY <1>1, IInvInit, PTL DEF Spec

(* Every variable keeps its type. *)
THEOREM TypeCorrect == Spec => []TypeOK
<1>1. IInv => TypeOK
  BY DEF IInv, CachesKnown, RefsMade, TypeOK
<1> QED BY <1>1, Invariance, PTL

(* The static variable of Level_find_class never outlives a local          *)
(* reference, although no mutex guards it.                                 *)
THEOREM ClassRefsAreAlive == Spec => []ClassRefAlive
<1>1. IInv => ClassRefAlive
  BY DEF IInv, CachesKnown, RefsMade, TypeOK
<1> QED BY <1>1, Invariance, PTL

(* LEVEL_CACHE only ever hands out global references. *)
THEOREM LevelObjectsAreUsable == Spec => []LevelObjectUsable
<1>1. IInv => LevelObjectUsable
  BY DEF IInv, CachesKnown, RefsMade, TypeOK
<1> QED BY <1>1, Invariance, PTL

(* However a log call fails, it neither swallows the exception of the      *)
(* native nor leaves one of its own but for the missing method id.         *)
THEOREM PendingIsTheNatives == Spec => []PendingIsThrown
<1>1. IInv => PendingIsThrown
  BY DEF IInv, CachesKnown, CachesTyped, ExceptionKnown, Exceptions, PendingIsThrown
<1> QED BY <1>1, Invariance, PTL

(* The race to fill a cache leaks no more than one reference of each       *)
(* thread.                                                                 *)
THEOREM LeaksAreBounded == Spec => []RefsBounded
<1>1. IInv => RefsBounded
  BY DEF IInv, RefsMade
<1> QED BY <1>1, Invariance, PTL

-----------------------------------------------------------------------------
(* How far the violation of LevelClassUsable goes. *)

(* Between the test of clazz for NULL and the store of the global          *)
(* reference.                                                              *)
Looking == {"set_class", "read_class", "global_class", "store_class"}

(* The class is there, and nobody is about to overwrite it or still holds  *)
(* another thread's local reference.                                       *)
ClassSettled ==
  /\ clazz = Global
  /\ \A t \in Threads :
       /\ pc[t] \notin Looking
       /\ pc[t] \in {"return_class", "load_level"} => ref[t] = Global

(* Nothing unsettles it: Level_find_class then finds a global reference.   *)
LEMMA SettledStays ==
  ASSUME CachesTyped, ClassSettled, [Next]_vars PROVE ClassSettled'
<1> USE ReferencesAssumption DEF ClassSettled, Looking, CachesTyped, Goto
<1>1. CASE UNCHANGED vars
  BY <1>1 DEF vars, threadVars
<1>2. ASSUME NEW t \in Threads,
             \/ \E l \in Levels : LogPrintf(t, l) \/ LogAnswerList(t, l) \/ RmonLog(t, l)
             \/ Throw(t) \/ NativeReturns(t) \/ GetLogger(t) \/ CallLogger(t) \/ IsLoggable(t)
      PROVE  ClassSettled'
  <2>1. /\ UNCHANGED clazz /\ \A u \in Threads \ {t} : pc'[u] = pc[u] /\ ref'[u] = ref[u]
        /\ pc'[t] \notin Looking \cup {"return_class", "load_level"} \/ (pc'[t] = pc[t] /\ ref'[t] = ref[t])
    BY <1>2 DEF LogPrintf, LogAnswerList, RmonLog, Enter, Throw, NativeReturns, GetLogger, CallLogger, IsLoggable
  <2> QED BY <2>1
<1>3. ASSUME NEW t \in Threads,
             \/ FindClass(t) \/ SetClass(t) \/ ReadClass(t) \/ GlobalClass(t) \/ StoreClass(t)
             \/ ReturnClass(t)
      PROVE  ClassSettled'
  BY <1>3 DEF FindClass, SetClass, ReadClass, GlobalClass, StoreClass, ReturnClass, ReadAgain
<1>4. ASSUME NEW t \in Threads, LoadLevel(t) \/ SetLevel(t) \/ Ask(t) \/ Write(t) \/ Record(t)
      PROVE  ClassSettled'
  BY <1>4 DEF LoadLevel, SetLevel, Ask, Write, Record, Written
<1> QED BY <1>1, <1>2, <1>3, <1>4 DEF Next

(* Once a global reference is cached and the threads that raced for it are *)
(* through, no thread is ever given another's local reference again: the   *)
(* violation of LevelClassUsable is confined to the first lookups.         *)
THEOREM SettledForGood == Spec => [](ClassSettled => []LevelClassUsable)
<1>1. CachesTyped /\ ClassSettled /\ [Next]_vars => ClassSettled'
  BY SettledStays
<1>2. ClassSettled => LevelClassUsable
  BY DEF ClassSettled, Looking, LevelClassUsable
<1>3. TypeOK => CachesTyped
  BY DEF TypeOK
<1> QED BY <1>1, <1>2, <1>3, TypeCorrect, PTL DEF Spec

(* No thread enters or leaves the lookup while another is between the test *)
(* and the store, as if a mutex were held there.                           *)
OneLooks ==
  \A t, u \in Threads :
    pc[t] \in Looking /\ pc[u] \in Looking \cup {"return_class"} => t = u

(* Then a local reference is only seen by its thread, and one thread makes *)
(* the global one.                                                         *)
LookupsInOrder ==
  /\ \A t \in Threads :
       /\ pc[t] = "set_class" => clazz = Null
       /\ pc[t] \in {"read_class", "global_class"} => clazz = t /\ ref[t] = t
       /\ pc[t] = "store_class" => clazz = t
       /\ pc[t] \in {"return_class", "load_level"} => ref[t] = Global
       /\ pc[t] \in {"set_class", "read_class", "global_class"} =>
            \A u \in Threads : refs[u][LevelClass] = 0
  /\ (\A t \in Threads : pc[t] \notin Looking) => clazz \in {Null, Global}

OneClassRef ==
  \A t, u \in Threads : refs[t][LevelClass] # 0 /\ refs[u][LevelClass] # 0 => t = u

(* The lookup's own steps keep that. *)
LEMMA LookupStep ==
  ASSUME IInv, IInv', OneLooks, OneLooks', LookupsInOrder, OneClassRef, NEW t \in Threads,
         \/ FindClass(t) \/ SetClass(t) \/ ReadClass(t) \/ GlobalClass(t) \/ StoreClass(t)
         \/ ReturnClass(t)
  PROVE  LookupsInOrder' /\ OneClassRef'
<1> USE ReferencesAssumption
    DEF IInv, CachesKnown, CachesTyped, OneLooks, LookupsInOrder, OneClassRef, Looking, Goto
<1>1. CASE FindClass(t)
  <2>1. CASE clazz = Null
    <3>1. \A u \in Threads : refs[u][LevelClass] = 0
      BY <2>1 DEF RefsMade, CachedForGood
    <3> QED BY <1>1, <2>1, <3>1 DEF FindClass
  <2>2. CASE clazz # Null
    <3>1. \A u \in Threads : pc[u] \notin Looking
      BY <1>1, <2>2 DEF FindClass
    <3> QED BY <1>1, <2>2, <3>1 DEF FindClass
  <2> QED BY <2>1, <2>2
<1>2. CASE SetClass(t)
  BY <1>2 DEF SetClass
<1>3. CASE ReadClass(t)
  BY <1>3 DEF ReadClass, ReadAgain
<1>4. CASE GlobalClass(t)
  <2>1. refs' = [refs EXCEPT ![t] = [refs[t] EXCEPT ![LevelClass] = refs[t][LevelClass] + 1]]
    BY <1>4 DEF GlobalClass
  <2>2. \A u \in Threads \ {t} : refs'[u] = refs[u]
    BY <2>1 DEF RefsMade
  <2>3. \A u \in Threads : refs[u][LevelClass] = 0
    BY <1>4 DEF GlobalClass
  <2>4. OneClassRef'
    BY <2>2, <2>3
  <2>5. /\ pc[t] = "global_class" /\ pc' = [pc EXCEPT ![t] = "store_class"]
        /\ ref' = [ref EXCEPT ![t] = Global] /\ UNCHANGED clazz
    BY <1>4 DEF GlobalClass
  <2>6. \A u \in Threads \ {t} : pc'[u] = pc[u] /\ ref'[u] = ref[u] /\ pc[u] \notin Looking \cup {"return_class"}
    BY <2>5
  <2>7. LookupsInOrder'
    BY <2>2, <2>5, <2>6
  <2> QED BY <2>4, <2>7
<1>5. CASE StoreClass(t)
  BY <1>5 DEF StoreClass, ClassKnown
<1>6. CASE ReturnClass(t)
  <2>1. \A u \in Threads : pc[u] \notin Looking
    BY <1>6 DEF ReturnClass
  <2>2. clazz = Global /\ ref[t] = Global
    BY <1>6, <2>1 DEF ReturnClass, ClassKnown
  <2> QED BY <1>6, <2>1, <2>2 DEF ReturnClass, ReadAgain
<1> QED BY <1>1, <1>2, <1>3, <1>4, <1>5, <1>6

(* The others do not meet it. *)
LEMMA LookupKept ==
  ASSUME IInv, LookupsInOrder, OneClassRef,
         \/ \E t \in Threads :
              \/ \E l \in Levels : LogPrintf(t, l) \/ LogAnswerList(t, l) \/ RmonLog(t, l)
              \/ Throw(t) \/ NativeReturns(t) \/ GetLogger(t) \/ CallLogger(t) \/ IsLoggable(t)
              \/ LoadLevel(t) \/ SetLevel(t) \/ Ask(t) \/ Write(t) \/ Record(t)
         \/ UNCHANGED vars
  PROVE  LookupsInOrder' /\ OneClassRef'
<1> DEFINE places == Looking \cup {"return_class", "load_level"}
<1>1. UNCHANGED clazz /\ \A u \in Threads : refs'[u][LevelClass] = refs[u][LevelClass]
  <2>1. CASE \E t \in Threads : SetLevel(t)
    <3> PICK t \in Threads : SetLevel(t)
      BY <2>1
    <3>1. refs' = [refs EXCEPT ![t] = [refs[t] EXCEPT ![level[t]] = refs[t][level[t]] + 1]]
      BY DEF SetLevel
    <3>2. LevelClass # level[t]
      BY LevelsAssumption DEF LevelClass, IInv, CachesKnown, CachesTyped
    <3> QED BY <3>1, <3>2 DEF SetLevel, IInv, RefsMade
  <2>2. CASE ~ \E t \in Threads : SetLevel(t)
    BY <2>2 DEF LogPrintf, LogAnswerList, RmonLog, Enter, Throw, NativeReturns, GetLogger, CallLogger,
       IsLoggable, LoadLevel, Ask, Write, Record, Written, vars
  <2> QED BY <2>1, <2>2
<1>2. \A u \in Threads :
        \/ pc'[u] \notin places /\ pc[u] \notin Looking
        \/ pc'[u] = pc[u] /\ ref'[u] = ref[u]
  BY DEF LogPrintf, LogAnswerList, RmonLog, Enter, Throw, NativeReturns, GetLogger, CallLogger,
     IsLoggable, LoadLevel, SetLevel, Ask, Write, Record, Written, vars, threadVars, Goto, IInv, CachesKnown,
     CachesTyped, Looking
<1>3. LookupsInOrder'
  BY <1>1, <1>2 DEF LookupsInOrder, Looking
<1>4. OneClassRef'
  BY <1>1 DEF OneClassRef
<1> QED BY <1>3, <1>4

(* Where the first lookups do not overlap, as they would not under a       *)
(* mutex, LevelClassUsable holds, and no reference to the class leaks: the *)
(* missing mutex is all that is wrong with Level_find_class.               *)
THEOREM OneLookupIsRight == Spec /\ []OneLooks => [](LevelClassUsable /\ OneClassRef)
<1>1. Init => LookupsInOrder /\ OneClassRef
  BY DEF Init, LookupsInOrder, OneClassRef, Looking, LevelClass
<1>2. /\ IInv /\ IInv' /\ OneLooks /\ OneLooks' /\ LookupsInOrder /\ OneClassRef /\ [Next]_vars
      => LookupsInOrder' /\ OneClassRef'
  <2> SUFFICES ASSUME IInv, IInv', OneLooks, OneLooks', LookupsInOrder, OneClassRef, [Next]_vars
               PROVE  LookupsInOrder' /\ OneClassRef'
    OBVIOUS
  <2>1. CASE \E t \in Threads :
               \/ FindClass(t) \/ SetClass(t) \/ ReadClass(t) \/ GlobalClass(t) \/ StoreClass(t)
               \/ ReturnClass(t)
    BY <2>1, LookupStep
  <2>2. CASE ~ \E t \in Threads :
               \/ FindClass(t) \/ SetClass(t) \/ ReadClass(t) \/ GlobalClass(t) \/ StoreClass(t)
               \/ ReturnClass(t)
    BY <2>2, LookupKept DEF Next
  <2> QED BY <2>1, <2>2
<1>3. LookupsInOrder => LevelClassUsable
  BY DEF LookupsInOrder, LevelClassUsable
<1> QED BY <1>1, <1>2, <1>3, Invariance, PTL DEF Spec
=============================================================================
