------------------------------- MODULE Logging -------------------------------
(***************************************************************************)
(* pygdi_logging.c: the natives, and through rmon the GE libraries under   *)
(* them, write to Java loggers.  The threads that do so share what is      *)
(* looked up once: the class Level in the static variable of               *)
(* Level_find_class and the Level objects in LEVEL_CACHE.  No mutex guards *)
(* either.                                                                 *)
(*                                                                         *)
(* Grain: one read or write of a shared variable is a step, and so is each *)
(* call into the JVM that can leave or meet a pending exception.  A        *)
(* jmethodID is the same for every thread, so those caches are left out    *)
(* (any lookup of one may fail), and so is find_logger_class, whose static *)
(* variable is only ever NULL or global.                                   *)
(*                                                                         *)
(* abort() and a class that is not found end the process and are left out; *)
(* so is a NewGlobalRef that is out of memory.                             *)
(***************************************************************************)
EXTENDS Integers

CONSTANTS
  Threads,      \* the threads attached to the JVM
  Levels,       \* the log levels in use, as log_level_t numbers them
  LoggerLevel,  \* the level of the Java logger
  Null,         \* the NULL reference
  Global        \* any global reference; a thread stands for its local ones

(* log_level_t: SEVERE is 0, FINEST is 6. *)
AnswerLevels == {0, 1, 2}

ASSUME LevelsAssumption ==
  /\ Levels \subseteq 0 .. 6 /\ Levels # {}
  /\ LoggerLevel \in 0 .. 6
ASSUME ReferencesAssumption ==
  /\ Global \notin Threads \cup {Null}
  /\ Null \notin Threads

(* The class among the references that are counted. *)
LevelClass == -1

References == {Null, Global} \cup Threads

(* pygdi_log_printf, _list and _listelem; is_loggable and then pygdi_log,  *)
(* as fillEvents and rmon's mprintf call them, or pygdi_log_entering or    *)
(* _exiting, as rmon's menter and mexit do; pygdi_log_answer_list.         *)
Calls == {"printf", "log", "answer"}

VARIABLES
  clazz,     \* the static variable of Level_find_class
  object,    \* LEVEL_CACHE[level].object
  pc,        \* where each thread is
  call,      \* what it called
  level,     \* with which level
  ref,       \* its clazz in load_level, then its level_obj
  exception, \* the exception pending in each thread, by what raised it
  threw,     \* the threads whose native has thrown
  refs       \* history: the global references each thread made, for clazz and each level

threadVars == <<pc, call, level, ref, exception, threw>>
vars == <<clazz, object, threadVars, refs>>

Pcs == {"idle", "get_logger", "call_logger", "is_loggable", "find_class", "set_class",
        "read_class", "global_class", "store_class", "return_class", "load_level", "set_level", "ask",
        "write", "record"}

(* None; what the native threw; a method pygdi_log did not find; a string  *)
(* NewStringUTF did not make.                                              *)
Exceptions == {"none", "thrown", "no_method", "string"}

CachesTyped ==
  /\ clazz \in References
  /\ object \in [Levels -> References]
  /\ pc \in [Threads -> Pcs]
  /\ call \in [Threads -> Calls]
  /\ level \in [Threads -> Levels]
  /\ ref \in [Threads -> References]
  /\ exception \in [Threads -> Exceptions]
  /\ threw \subseteq Threads

TypeOK ==
  CachesTyped /\ refs \in [Threads -> [Levels \cup {LevelClass} -> Nat]]

Init ==
  /\ clazz = Null
  /\ object = [l \in Levels |-> Null]
  /\ pc = [t \in Threads |-> "idle"]
  /\ call = [t \in Threads |-> "log"]
  /\ level = [t \in Threads |-> CHOOSE l \in Levels : TRUE]
  /\ ref = [t \in Threads |-> Null]
  /\ exception = [t \in Threads |-> "none"]
  /\ threw = {}
  /\ refs = [t \in Threads |-> [r \in Levels \cup {LevelClass} |-> 0]]

Goto(t, from, to) == pc[t] = from /\ pc' = [pc EXCEPT ![t] = to]

-----------------------------------------------------------------------------
(* The callers. *)

Enter(t, c, l, at) ==
  /\ Goto(t, "idle", at)
  /\ call' = [call EXCEPT ![t] = c]
  /\ level' = [level EXCEPT ![t] = l]
  /\ UNCHANGED <<clazz, object, ref, exception, threw, refs>>

(* No native calls these two once it has thrown. *)
LogPrintf(t, l) == t \notin threw /\ Enter(t, "printf", l, "get_logger")
LogAnswerList(t, l) ==
  t \notin threw /\ l \in AnswerLevels /\ Enter(t, "answer", l, "get_logger")

(* But DPRINTF, DENTER or DEXIT may follow a throw (pygdi_event.c:668,     *)
(* 670).  rmon asks is_loggable before it calls the other callbacks        *)
(* (external; pygdi_log_entering relies on it).                            *)
RmonLog(t, l) == Enter(t, "log", l, "is_loggable")

Pend(t, e) == exception' = [exception EXCEPT ![t] = e]

(* The native throws; of two exceptions either may remain pending.         *)
Throw(t) ==
  /\ pc[t] = "idle"
  /\ threw' = threw \cup {t}
  /\ \/ Pend(t, "thrown")
     \/ exception[t] # "none" /\ UNCHANGED exception
  /\ UNCHANGED <<clazz, object, pc, call, level, ref, refs>>

(* The native returns to Java, where the exception goes.                   *)
NativeReturns(t) ==
  /\ pc[t] = "idle"
  /\ threw' = threw \ {t}
  /\ Pend(t, "none")
  /\ UNCHANGED <<clazz, object, pc, call, level, ref, refs>>

(* pygdi_get_logger: an unknown getLogger is cleared and no logger; the    *)
(* result of NewStringUTF is not tested.                                   *)
GetLogger(t) ==
  /\ \/ Goto(t, "get_logger", "idle") /\ Pend(t, "none")
     \/ Goto(t, "get_logger", "call_logger") /\ UNCHANGED exception
     \/ Goto(t, "get_logger", "call_logger") /\ Pend(t, "string")
  /\ UNCHANGED <<clazz, object, call, level, ref, threw, refs>>

(* getLogger; whatever is pending after it is cleared, and no logger.      *)
CallLogger(t) ==
  /\ \/ /\ exception[t] = "none" /\ UNCHANGED exception
        /\ Goto(t, "call_logger", IF call[t] = "answer" THEN "write" ELSE "is_loggable")
     \/ Goto(t, "call_logger", "idle") /\ Pend(t, "none")
  /\ UNCHANGED <<clazz, object, call, level, ref, threw, refs>>

-----------------------------------------------------------------------------
(* pygdi_is_loggable. *)

(* Faulty: the pending exception is not looked for. *)
IsLoggable_Pending(t) ==
  /\ \/ object[level[t]] = Null /\ Goto(t, "is_loggable", "find_class") /\ UNCHANGED ref
     \/ /\ object[level[t]] # Null /\ Goto(t, "is_loggable", "ask")
        /\ ref' = [ref EXCEPT ![t] = object[level[t]]]
  /\ UNCHANGED <<clazz, object, call, level, exception, threw, refs>>

(* A pending exception is looked for first, then a NULL logger, which      *)
(* callers that got theirs before may have; get_level looks into           *)
(* LEVEL_CACHE.                                                            *)
IsLoggable(t) ==
  /\ \/ /\ exception[t] # "none" \/ call[t] = "log"
        /\ Goto(t, "is_loggable", "idle") /\ UNCHANGED ref
     \/ /\ exception[t] = "none" /\ object[level[t]] = Null
        /\ Goto(t, "is_loggable", "find_class") /\ UNCHANGED ref
     \/ /\ exception[t] = "none" /\ object[level[t]] # Null
        /\ Goto(t, "is_loggable", "ask")
        /\ ref' = [ref EXCEPT ![t] = object[level[t]]]
  /\ UNCHANGED <<clazz, object, call, level, exception, threw, refs>>

(* Level_find_class: if (clazz == NULL). *)
FindClass(t) ==
  /\ Goto(t, "find_class", IF clazz = Null THEN "set_class" ELSE "return_class")
  /\ ref' = [ref EXCEPT ![t] = clazz]
  /\ UNCHANGED <<clazz, object, call, level, exception, threw, refs>>

(* clazz = FindClass(...), a local reference of the thread. *)
SetClass(t) ==
  /\ Goto(t, "set_class", "read_class")
  /\ clazz' = t
  /\ ref' = [ref EXCEPT ![t] = t]
  /\ UNCHANGED <<object, call, level, exception, threw, refs>>

(* The compiler may read the static variable again or use the value the    *)
(* thread last read or wrote.                                              *)
ReadAgain(t) == \E r \in {ref[t], clazz} : ref' = [ref EXCEPT ![t] = r]

(* The argument of NewGlobalRef(env, clazz), which is called next. *)
ReadClass(t) ==
  /\ Goto(t, "read_class", "global_class")
  /\ ReadAgain(t)
  /\ UNCHANGED <<clazz, object, call, level, exception, threw, refs>>

(* NewGlobalRef. *)
GlobalClass(t) ==
  /\ Goto(t, "global_class", "store_class")
  /\ ref' = [ref EXCEPT ![t] = Global]
  /\ refs' = [refs EXCEPT ![t][LevelClass] = @ + 1]
  /\ UNCHANGED <<clazz, object, call, level, exception, threw>>

(* Faulty: the static variable is left as it is. *)
StoreClass_Not(t) ==
  /\ Goto(t, "store_class", "return_class")
  /\ UNCHANGED <<clazz, object, call, level, ref, exception, threw, refs>>

(* clazz = what NewGlobalRef returned. *)
StoreClass(t) ==
  /\ Goto(t, "store_class", "return_class")
  /\ clazz' = ref[t]
  /\ UNCHANGED <<object, call, level, ref, exception, threw, refs>>

(* return clazz. *)
ReturnClass(t) ==
  /\ Goto(t, "return_class", "load_level")
  /\ ReadAgain(t)
  /\ UNCHANGED <<clazz, object, call, level, exception, threw, refs>>

(* load_level: the static field of the class, a local reference.           *)
LoadLevel(t) ==
  /\ Goto(t, "load_level", "set_level")
  /\ ref' = [ref EXCEPT ![t] = t]
  /\ UNCHANGED <<clazz, object, call, level, exception, threw, refs>>

(* Faulty: the local reference is cached. *)
SetLevel_Local(t) ==
  /\ Goto(t, "set_level", "ask")
  /\ object' = [object EXCEPT ![level[t]] = ref[t]]
  /\ refs' = [refs EXCEPT ![t][level[t]] = @ + 1]
  /\ UNCHANGED <<clazz, call, level, ref, exception, threw>>

(* Faulty: the global reference is not cached. *)
SetLevel_Not(t) ==
  /\ Goto(t, "set_level", "ask")
  /\ ref' = [ref EXCEPT ![t] = Global]
  /\ refs' = [refs EXCEPT ![t][level[t]] = @ + 1]
  /\ UNCHANGED <<clazz, object, call, level, exception, threw>>

(* get_level: the cache takes a global reference. *)
SetLevel(t) ==
  /\ Goto(t, "set_level", "ask")
  /\ object' = [object EXCEPT ![level[t]] = Global]
  /\ ref' = [ref EXCEPT ![t] = Global]
  /\ refs' = [refs EXCEPT ![t][level[t]] = @ + 1]
  /\ UNCHANGED <<clazz, call, level, exception, threw>>

(* isLoggable of the logger; what is pending after it is cleared and means *)
(* false.                                                                  *)
Ask(t) ==
  /\ \/ /\ exception[t] = "none" /\ UNCHANGED exception
        /\ level[t] <= LoggerLevel /\ Goto(t, "ask", "write")
     \/ Goto(t, "ask", "idle") /\ Pend(t, "none")
  /\ UNCHANGED <<clazz, object, call, level, ref, threw, refs>>

-----------------------------------------------------------------------------
(* pygdi_log, pygdi_log_entering and pygdi_log_exiting, which write a      *)
(* record of no matter which level.                                        *)

(* The record is written, or given up; pygdi_log_answer_list goes on to    *)
(* its next answer.                                                        *)
Written(t, from) ==
  \/ Goto(t, from, "idle") /\ UNCHANGED level
  \/ /\ call[t] = "answer"
     /\ Goto(t, from, "write")
     /\ \E l \in Levels \cap AnswerLevels : level' = [level EXCEPT ![t] = l]

(* A method that is not found stays pending; the result of NewStringUTF is *)
(* not tested.                                                             *)
Write(t) ==
  /\ \/ Written(t, "write") /\ Pend(t, "no_method")
     \/ Goto(t, "write", "record") /\ UNCHANGED <<level, exception>>
     \/ Goto(t, "write", "record") /\ Pend(t, "string") /\ UNCHANGED level
  /\ UNCHANGED <<clazz, object, call, ref, threw, refs>>

(* Faulty: what is pending is not cleared. *)
Record_NotCleared(t) ==
  /\ Written(t, "record")
  /\ UNCHANGED <<clazz, object, call, ref, exception, threw, refs>>

(* The logger's method; whatever is pending after it is cleared.           *)
Record(t) ==
  /\ Written(t, "record")
  /\ Pend(t, "none")
  /\ UNCHANGED <<clazz, object, call, ref, threw, refs>>

Next == \E t \in Threads :
  \/ \E l \in Levels : LogPrintf(t, l) \/ LogAnswerList(t, l) \/ RmonLog(t, l)
  \/ Throw(t) \/ NativeReturns(t)
  \/ GetLogger(t) \/ CallLogger(t) \/ IsLoggable(t)
  \/ FindClass(t) \/ SetClass(t) \/ ReadClass(t) \/ GlobalClass(t) \/ StoreClass(t)
  \/ ReturnClass(t)
  \/ LoadLevel(t) \/ SetLevel(t) \/ Ask(t) \/ Write(t) \/ Record(t)

Spec == Init /\ [][Next]_vars

-----------------------------------------------------------------------------
(* Properties. *)

(* The static variable never holds a dead reference: a local one is there  *)
(* only while the thread it belongs to is still in Level_find_class, on    *)
(* its way to replace it, however the threads overwrite each other.        *)
ClassRefAlive ==
  clazz \in Threads => pc[clazz] \in {"read_class", "global_class", "store_class"}

(* Whatever the threads do to the class, the Level object isLoggable is    *)
(* given is a global reference, usable in every thread and for ever.       *)
LevelObjectUsable ==
  /\ \A l \in Levels : object[l] \in {Null, Global}
  /\ \A t \in Threads : pc[t] = "ask" => ref[t] = Global

(* Threads that race to fill a cache leak the global references they       *)
(* overwrite, but each thread makes at most one of each.                   *)
RefsBounded ==
  \A t \in Threads : \A r \in Levels \cup {LevelClass} : refs[t][r] <= 1

(* Logging is invisible to the native's caller: between two log calls a    *)
(* thread has an exception pending if and only if its native threw one,    *)
(* however the calls into the JVM fail and in whatever order they are      *)
(* made.  Nothing the native threw is swallowed ("We can not write a log   *)
(* message of a exception has occureed", pygdi_logging.c:226), and no      *)
(* exception of the logging gets out, with one exception: the method id    *)
(* that pygdi_log did not find (pygdi_logging.c:344-350).                  *)
PendingIsThrown ==
  \A t \in Threads : pc[t] = "idle" =>
    exception[t] \in {IF t \in threw THEN "thrown" ELSE "none", "no_method"}

(* "aquire a global ref for the class object" (pygdi_logging.c:92): the    *)
(* class a thread passes to the JVM is not another thread's local          *)
(* reference.                                                              *)
LevelClassUsable ==
  \A t \in Threads : pc[t] \in {"global_class", "load_level"} => ref[t] \in {Global, t}

-----------------------------------------------------------------------------
(* The inductive invariant behind ClassRefAlive and LevelObjectUsable: a   *)
(* thread that has its global reference has written its local one before,  *)
(* and what it takes for the class is not NULL.                            *)
ClassKnown ==
  \A t \in Threads :
    /\ pc[t] \in {"read_class", "global_class", "store_class", "return_class", "load_level"}
         => clazz # Null
    /\ pc[t] = "store_class" => ref[t] = Global
    /\ pc[t] \in {"read_class", "global_class", "return_class", "load_level"}
         => ref[t] # Null

(* Behind RefsBounded: what a thread has cached is never NULL again, and   *)
(* the thread is not on its way to cache it once more.                     *)
CachedForGood ==
  \A t \in Threads :
    /\ refs[t][LevelClass] # 0 =>
         clazz # Null /\ pc[t] \notin {"set_class", "read_class", "global_class"}
    /\ \A l \in Levels : refs[t][l] # 0 =>
         object[l] # Null /\ (level[t] = l => pc[t] \notin
           {"find_class", "set_class", "read_class", "global_class", "store_class",
            "return_class", "load_level", "set_level"})

(* Behind PendingIsThrown: a thread whose native has thrown gets no        *)
(* further than the test for a pending exception, and a missing string is  *)
(* pending only until the call it was made for.                            *)
ExceptionKnown ==
  \A t \in Threads :
    /\ t \in threw =>
         pc[t] \in {"idle", "is_loggable"} /\ exception[t] \in {"thrown", "no_method"}
    /\ exception[t] = "thrown" => t \in threw
    /\ exception[t] = "string" => pc[t] \in {"call_logger", "record"}

CachesKnown ==
  CachesTyped /\ ClassRefAlive /\ LevelObjectUsable /\ ExceptionKnown /\ ClassKnown
RefsMade ==
  refs \in [Threads -> [Levels \cup {LevelClass} -> Nat]] /\ RefsBounded /\ CachedForGood

IInv == CachesKnown /\ RefsMade
=============================================================================
