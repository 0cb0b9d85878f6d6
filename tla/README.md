# A TLA+ development of PyGDI

PyGDI binds Grid Engine's GDI library to two languages. `setup.py` builds a small Python
module (`pygdi.c`, `pygdi_common.c`, `pygdi_GDI.c`); the rest of `src/` is the native half of
the Java binding, the JNI functions behind `EventClientImpl`, the quota and qstat reports, and the bridge from
rmon to `java.util.logging`. This project models both: the JNI half, where the state that outlives
a call, the threads and the half-failed calls are, and the Python module, where references outlive a
call. It checks them with TLC on small instances, and proves what matters most with TLAPS for all.

Line numbers are those of `src/`. Names in the modules are the source's where TLA+ allows.

## 1. The system

### Components, state, operations

| component | source | state it keeps | operations |
|---|---|---|---|
| event client table | `pygdi_event.c` 60-680 | `sge_evc_array[MAX_EVC_ARRAY_SIZE]` (client, mutex, condition variable, `elem_state_t` per slot), `is_evc_array_initialized`, `sge_evc_mutex`; an index in each Java object | `initNative` (with `initEVCArray`), `closeNative`, `interruptNative`, `registerNative`, `setFlushNative`, `getFlushNative`, `subscribeNative`, `commitNative`, `fillEvents` (with `waitEVC`), and `pygdi_event_update_func`, called by the event master's delivery thread |
| event conversion | `pygdi_event.c` 620-650, 682-953 | the answer list `alp` of one call, the object under construction, the caller's list | one conversion per event, each made of JVM calls that may fail |
| resource quota native | `pygdi_qquota.c` 60-459 | filters, `pygdi_report_handler_t` (`result`, `qquota_info` with a global reference), the Java result | `getQQuota` and the report handler's callbacks |
| queue instance summary native | `pygdi_qstat.c` 607-1571 | `qstat_ctx` (`queue_instance_summary`, `result`) and `job_ctx` (`job`, `list`, `result`) | `nativeFillQueueInstanceSummary`, the queue, job and end-of-list handlers |
| qstat environment | `pygdi_qstat.c` 88-479, 1376-1522, 1600-1623 | the filters read, the lists and bits of `qstat_env`, the answer list | the getters of both natives, `pygdi_qstat_env_init` and the builders of its lists, the options of what to show |
| cluster queue summary native | `pygdi_qstat.c` 480-605, 1573-1651 | `cq_ctx` | `nativeFillClusterQueueSummary`, one callback |
| Java logging | `pygdi_logging.c`, `.h` | the static `clazz` of `Level_find_class`, `LEVEL_CACHE`, method and class caches | `pygdi_log*`, `pygdi_is_loggable`, the rmon callbacks |
| Python module | `pygdi.c`, `pygdi_common.c`, `.h`, `types.h` | reference counts, the GDI context of a call | `init_pygdi`, `getSGERoot`, `getQueues`, `getHosts`, `getGDIContext`, `closeGDIContext` |
| Python GDI type | `pygdi_GDI.c`, `.h` | one attribute | none but the type's own |
| test copy, qhost, packaging | `pygdi_test.c`, `pygdi_qhost.c`, `setup.py`, `pygdi/__init__.py` | none | an old copy of the module that is not built; a licence header; the build |

### How they interact

- Java threads enter the natives concurrently; nothing in Java serialises the calls. They share
  the event client table and the logging caches, nothing else: the quota and qstat natives write
  only to their own stack and to the caller's objects.
- The event master's delivery thread calls `pygdi_event_update_func` with a client id. It walks
  the table slot by slot, locks each in turn, and signals the client's slot: shared state, two
  levels of mutex, and a condition variable on which `fillEvents` waits.
- `fillEvents` takes a batch under the slot's mutex, releases it, converts the events to Java
  objects (event conversion), and locks the slot *again* to acknowledge, with no guarantee that
  the slot still belongs to the same client.
- `getQQuota` and `nativeFillQueueInstanceSummary` hand a table of callbacks to a GE library
  function that drives them. Failures travel back in the callback's return value, in a `result`
  field of the context, or not at all.
- Both qstat natives make a `qstat_env` from the caller's options with the same function, and hand it
  to a library function of their own. One answer list goes through all of it, and is read only when
  the native throws.
- Python code calls the module's functions one after the other, under the interpreter lock. Each
  opens a GDI context, makes it the thread's, asks qmaster, and closes it; what is left behind is
  the references it took or did not take.
- Every native logs, directly or through rmon, into Java; those functions call the JVM in the
  middle of other natives' error handling, where an exception may already be pending.

### What is hard, and what makes each part correct

| component | what is hard | what must hold |
|---|---|---|
| event client table | initialisation without a lock; a slot given to a new client while a call for the old one is between its two locks or asleep; wakeups sent while nobody waits; the scan of the delivery thread against open and close; the full table; an error path that must give a mutex back | an open client is found at its index, a refusal is right, no wakeup is lost, no waiter goes on with a NULL client, no destroyed client is touched, no slot or mutex is leaked, no threads wait in a circle, no event is doubled, and none is lost but with its destroyed client or to a failed conversion |
| event conversion | an object half-filled when a JVM call fails; `ret` overwritten by a later success; one answer list for a whole batch | what is in the caller's list is whole, and what is not has its error recorded |
| resource quota | a loop's `ret` overwritten by the next iteration; a callback that fails in the middle of a rule; the driver's return value ignored | the report runs with all filters, a rule in the result is whole, the global reference is released, a silent partial result has a known cause |
| queue summary | one ArrayList carries the jobs of every queue and list; failures recorded by some handlers only, and in a field every later handler overwrites | a job ends up where it was reported and only there; a recorded failure is thrown |
| qstat environment | filters read in one order and built in another; a loop that fails half-way; errors put into an answer list that nobody reads | a report runs with exactly the options that were set; a list is whole or freed; an error that ends the making is thrown |
| cluster queue summary | each callback overwrites the result of the one before | a list returned without an exception is complete |
| Python module | borrowed and new references on each of three ways out; a failed request taken for an empty one | no object is freed while in use, and each leak has a known cause; no context is left open; a list is complete or empty |
| logging | lazily filled caches without a lock; local references stored in static variables | no dead reference in a cache, no reference of another thread used, bounded leak; a log call neither swallows the exception its native threw nor leaves one of its own |

The hazards, each at the line where it bites, are listed in `PROJECT.json`.

## 2. The modules

```
EventMailbox        <--implements-- EventClient     <-- EventClientProofs,     MCEventClient
EventBatch          <--implements-- EventConversion <-- EventConversionProofs, MCEventConversion
ReportPromise       <--implements-- QQuota          <-- QQuotaProofs,          MCQQuota
                                    Logging         <-- LoggingProofs,         MCLogging
                                    PyBinding       <-- PyBindingProofs,       MCPyBinding

QstatReport    <-- QstatReportProofs --.
QstatEnv       <-- QstatEnvProofs ------+-- QstatCallProofs
ClusterSummary ------------------------'
      `--- composed by QstatCall <-- MCQstatCall
ReportPromise  <--implements-- QstatReport, ClusterSummary
```

`EventClient` and `EventConversion` compose by refinement: `FillProcess(t)` of the first takes the
loop of `fillEvents` for one step that delivers some of the batch and drops the rest, and
`EventBatch`, which `EventConversion` implements, says that the loop does just that.
`QstatCall` composes by interleaving: it extends three modules with disjoint variables, and says when
which of them may step. `PartsImplemented` proves that a behaviour of the composition is one of each
part, so that what is proved of a part holds of the whole call.

`ReportPromise` is one promise that three natives make: each has a library function report to its
callbacks. The caller's object is given the items one by one, each once, and no more after
a failure; the native throws if the failure was recorded, and only then, and returns if the object has
them all or the failure was of the kind nothing records. `ImplementsReport` maps the rules of
`QQuota`, or the queues of `QstatReport`, to its items, `ImplementsClusterReport` the cluster
queues. The job lists of `QstatReport` are the caller's own and are not items;
`JobsWhereReported` is about them.

Definitions whose name has a suffix (`ListFails_GoesOn`, `Woken_Nobody`, ...) and whose comment
begins with "Faulty" are not part of a specification. Each is a plausible mistake in the definition
next to it, kept to show that the properties notice it.

### EventClient

*State.* `sge_evc`, `state`, `elem_mutex` are the fields of a slot, functions on `Slots`;
`sge_evc_mutex` and `is_evc_array_initialized` are the two globals. Each Java thread has a `pc`,
the object its call is made on (`target`), its `evc_index` (`idx`) and the `elist` of `fillEvents`.
Each `EventClientImpl` has a `handle`, the index `initNative` returned, which it keeps after a
close; the `sge_evc` it creates has `pending` events (after its close: those that were destroyed
with it), and may be `exiting`, `unacked` (a report not
acknowledged) or `uncommitted`. `life` follows an object from `unborn` to `destroyed`. `mClient`,
`mSlot`, `mBatch` are the delivery thread's update in progress; `registry` is what the event master
knows. `sent`, `delivered`, `dropped`, `missed` are history.

*Grain.* A section under an `elem_mutex` is one step: all its fields are only accessed with that
mutex held, so nobody can see a state in its middle. The exceptions are steps of their own, because
others run in between: `pthread_cond_wait` gives the mutex back (`fill_cond`, then `fill_woken` when
the mutex has to be taken again), and `ec_get` of a client outside qmaster is a network call made
with the mutex held (`fill_get`). `sge_evc_mutex` is held across several steps:
the test of a slot in `initNative` (381, without the slot's mutex) and the store into it (383, which
does not test again) are two, so that it takes `sge_evc_mutex` to keep another native out between them.
`initEVCArray`, which no mutex protects, is a step per shared access: read the flag, write it, wipe
one slot after the other.

| code | actions |
|---|---|
| `initNative` | `InitNative`, `InitNativeFails`, `InitCheck`/`InitMark`/`InitWipe` (`initEVCArray`), `InitLock`, `InitScan`, `InitStore`, `InitReturn` |
| `closeNative` | `CloseLock`, `CloseElem`, `CloseReturn` |
| `lockEVC` refusing | `LockRefused`, for every native |
| `interruptNative`, `registerNative`, `setFlushNative`, `subscribeNative`, `getFlushNative`, `commitNative` | the action of that name |
| `fillEvents`, `waitEVC` | `FillWait`, `SpuriousWakeup`, `FillResume`, `FillGet`, `FillGot`, `FillProcess`, `FillAck` |
| `pygdi_event_update_func`, `pygdi_get_evc_by_evid_and_lock` | `Update`, `UpdateSkip`, `UpdateSignal` |
| qmaster's report for a client elsewhere | `RemoteReport` (external) |

*Two initial states.* `StartupSpec` starts with the library just loaded, `Spec` with the array
initialised. The run `startup_race` shows that initialisation itself races; what holds apart from
that race is stated for `Spec`.

*Abstract specification.* `EventMailbox`: at most `Capacity` mailboxes open, a client turned away
only when that many are, a mailbox opened and closed once, filled only while open, emptied as a
whole. `ImplementsMailbox` maps `open` to the clients in the table, `box` to `pending`.

*External behaviour assumed* (the event client library is not in the repository; this is how the
code uses it): `ec_signal` returns the number of events, and a client in qmaster is triggered
exactly while it has events; `ec_get` takes all of them; `ec_wait` does not block; there is one
delivery thread; the ids of registered clients are distinct; `pthread_mutex_init` leaves a mutex
unlocked even if it was held. Condition variables may wake spuriously, and mutexes are not fair.

### EventConversion

`kind` and `items` are a batch: what `process_event` tells the events apart by, and what their
`ET_new_version` holds. `parts` is what has been set on each event's object; `alp` the events with
an error in the answer list; `warned` those whose error was written to the log. A call into the JVM
is a step and may fail. `FillChange` has the four ways through `fill_generic_event`: the key fails;
the key is set but the new version, or the name asked for in the warning that there is none, fails;
both set; key set and no new version. `FillJob` followed by `AddUsage` keeps the code's oddity:
`fill_job_usage_event` goes on after `fill_job_event` failed, and `addUsage` overwrites `ret`.
`process_generic_event` is generated (external): it calls `create_generic_event` or fails for an
unknown type. `listelem_to_obj` is external.

`EventBatch` is the promise: each event, in order, is added or dropped.

### QQuota

The loop over `filters[]` (`GetterFails`, `FilterIsNull`, `ListFails`, `ListBuilt`) with its `ret`,
the request, the callbacks of the report handler with each of their failures, and the end of the
native. Which names of the host filter were not replaced is `unresolved`. `qquota_output` is
external: it reports rules one after the other as begin, values, finished, stops when a callback
returns `QQUOTA_ERROR`, and may fail by itself (`OutputFails`); its return value is not looked at.

### QstatReport, QstatEnv, ClusterSummary, QstatCall

*QstatReport.* `section` is the queue or list `qstat_no_group` is reporting. The handlers know nothing of it: they
hold `queue_instance_summary`, `job` and `list`, and `JobsFinished` moves `list` to `Destination`.
`reported` remembers where the driver said a job is; comparing it with `added` is the point of the
model. What comes before the walk succeeds or fails as a whole here (`SetupFilters`, `SetupOptions`).
`qstat_no_group` is external: queues first, then lists, each job as report, details, finished; it
stops when a handler returns -1, and may fail by itself (`WalkFails`).

*QstatEnv.* `asked` is what the caller set, `contents` the names in its filters. `ReadFilter` goes
through the getters in the order of the natives (`ReadOrder`; the cluster native ends after four),
the builders of `pygdi_qstat_env_init` come in another (`BuildOrder`), and `Show` reads what is to be
shown (`ShowOrder`). `applied` collects what has taken effect in the `qstat_env`, attributes and bits
included; `env_lists` are its lists. The loops of `build_resource_filter` and
`build_resource_attribute_filter` are a step per name (`LoopName`), and `LoopFails` anywhere. `alp` is
the answer list: the error that ends the native, and the two that do not, a letter that names no
queue state and a character that explains nothing. `get_string_list` is external and may leave a part
of its names behind when it fails.

| code | actions of QstatEnv |
|---|---|
| the getters of both natives | `ReadFilter`, `ReadFails` |
| `pygdi_qstat_env_init` | `NoFilter`, `StringList`, `StringListFails`, `JobState`, `StateFails` |
| `build_queue_state_filter` | `QueueState`, `StateFails` |
| `build_resource_filter`, `build_resource_attribute_filter` | `LoopStarts`, `NamesAreNull`, `LoopName`, `LoopEnds`, `LoopFails` |
| `QueueInstanceSummaryOptions_show...`, `getExplain` | `Show`, `ShowFails` |

*ClusterSummary.* `ReportCqueue` and `ReportCqueueFails` are the one handler. `qstat_cqueue_summary` is
external: it reports cluster queues one after the other, stops when the handler returns -1, and may
fail by itself (`SummaryFails`).

*QstatCall.* A call of one of the natives. `EnvStep` runs `QstatEnv`; `AfterFilters` and `AfterOptions`
(queue instances) and `AfterEnv` (cluster queues) are the checks of its outcome, which replace the
free choice the parts make by themselves.

In QQuota and the qstat modules the contexts are cleared with `memset`, so `result` starts as
`PYGDI_SUCCESS`, which is 0.

### Logging

`clazz` and `object` are the two unguarded caches, `ref` what the thread holds in a local variable,
`exception` what is pending in each thread and `threw` the threads whose native has thrown. One
read or write of a shared variable is a step, and so is each call into the JVM that can leave or meet a
pending exception: in `pygdi_get_logger` the method id (129-133, cleared), the string (135, not tested)
and `getLogger` (137-141, cleared) (`GetLogger`, `CallLogger`), then `isLoggable` (`Ask`), and in `pygdi_log` the method id
(344-350, left pending), the string (353, not tested) and the logger's method (355-359, cleared)
(`Write`, `Record`). Natives may log after they have thrown, through `RmonLog` only, as
`pygdi_event.c:668` does. `ReadAgain` is the data race: where the source reads the static variable after writing it, the
compiler may re-read it or reuse the register, and both are allowed. A thread's name stands for its
local references; `Global` for any global one. `refs` counts the global references made. Left out:
`abort()`, a class that is not found, a `NewGlobalRef` out of memory (each ends the process or the
call before anything is cached), the `jmethodID` caches (the same value from every thread), and
`find_logger_class`, whose static variable is only ever NULL or global. Also left out is the level a
record is written with: `pygdi_log_printf` tests its `level` and passes `FINE` on (393), but nothing
afterwards depends on that argument.

### PyBinding

A call goes through `setup` (`getGDIContext`), `request`, `append`, `reset` (the thread's context),
`close` (`closeGDIContext`) and `return`, with `result` the pointer the function holds. `made` says
what each object is, `items` which strings are in which list, `refs` its reference count; `held` is
how many of the references Python code owns. `Py_None` is counted apart (`none_refs`, `none_held`),
because `getSGERoot` returns it without taking a reference and, when the setup fails, gives one up.
`rootless` counts such calls. The last reference to `Py_None` ends the interpreter (`dead`).
Between calls Python code keeps, shares and drops what it was given (`Take`, `Drop`, `DropNone`; a
list that goes takes its references to its strings with it).

`AppendFails` is the call that nobody checks: the string is not made, or not appended, the loop goes
on and an exception stays set. `Request` leaves the answer list of a failed request unread.
Left out: `PyList_New` out of memory, on which both functions would go on with NULL, and the
communication handle of `closeGDIContext`. Assumed: a `sge_gdi2_setup` that fails (external) has made
no context. `getGDIContext` (`pygdi_common.c:76-80`) neither returns nor destroys one then, so
`ContextsClosed` says nothing of a context that a failed setup would leave.

## 3. What the runs show

| run | instance | what it checks and shows |
|---|---|---|
| `reuse` | 2 threads, delivery thread, 2 clients (one in qmaster, one outside), 1 slot, 1 event | Slots are reused under calls with old indices, and the table is full when a second client comes. `OpenClientOwnsSlot`, `RefusedMeansClosed`, `NoLostWakeup`, `WokenNotAtNull`, `GlobalMutexHeldInside`, `ForeignEventsMeanDestroyed`, `DestroyedUntouched`, `RefusedUnlessReused`, and the refinement `ImplementsMailbox`. `EventsAccounted`: each event sent is in exactly one place, or was lost in one of three ways. `NoCircularWait`: with a client outside qmaster, whose `ec_get` keeps its slot's mutex while `closeNative` waits for it with `sge_evc_mutex` held, no threads wait for each other's mutexes. |
| `scan` | 1 thread, 2 clients, 2 slots, 2 events, from startup | The delivery thread's scan, which holds one slot at a time, misses a client only if it was destroyed (`MissedMeansDestroyed`); no slot is leaked (`SlotsNotLeaked`). |
| `fill` | 2 threads, 1 client in qmaster, 2 events, one of which makes it exit; fairness | A thread in `waitEVC` that should return, after an interrupt, an event, an exit or a close, does (`WaiterReleased`). |
| `startup_race` | 2 threads, 2 clients, 2 slots, from startup | **Violation** of `RefusedMeansClosed`, see findings. |
| `slot_reuse` | 2 threads, 2 clients, 1 slot | **Violation** of `ClosedIsRefused`, see findings. |
| `event_conversion` | 2 events of any kinds, 2 items | `AddedWhole`, `FailuresKnown`, `ImplementsBatch` and `EverySettled`, with any JVM call failing. |
| `qquota` | 2 rules of 2 values, 2 hosts, 6 filters | `ReportIsFiltered`, `RulesComplete`, `RefsReleased`, and the refinement `ImplementsReport`, with any call failing. |
| `qquota_hosts` | 1 rule, 2 hosts | **Violation** of `HostsResolved`, see findings. |
| `qstat_call` | both natives, up to 2 of 18 options, 2 names, 2 queues, 4 lists, 2 jobs, 2 cluster queues | From the options to the exception, with any call into the JVM and any handler failing: `OptionsApplied`, `NothingHalfBuilt`, `EnvFailureIsThrown` for the `qstat_env`, `JobsWhereReported`, `QueuesComplete`, `NormalReturnIsComplete` and the refinement `ImplementsReport` for the report, the refinement `ImplementsClusterReport` for the cluster queues. |
| `logging` | 3 threads, 1 level, from empty caches | `ClassRefAlive`, `LevelObjectUsable`, `RefsBounded`, and `PendingIsThrown`, with any call into the JVM failing and natives that log after they have thrown. |
| `logging_class` | 2 threads | **Violation** of `LevelClassUsable`, see findings. |
| `py_binding` | 4 calls, 4 objects, 2 names, 2 references to `Py_None` held by others | `RefsCounted`, `NoneShort`, `FreedForGood`, `ContextsClosed`, `ListsComplete`, with every failure and with callers that keep, share and drop what they got. |

The run `reuse` also checks the type invariant; those of the other modules are proved. So are
`NormalReturnIsComplete` of QQuota, `RecordedFailureIsThrown` and `ClusterListComplete`, which the
refinements contain. Each inductive invariant (`IInv`, `EnvIInv`, `ClusterIInv`) was checked with
TLC on its module's instance before anything was proved from it.

Some properties state what is left of a promise rather than the promise: they are exact about the
gap. `NormalReturnIsComplete` (QQuota, QstatReport) says that a caller who sees no exception has
everything *unless* the driver or a callback failed and recorded nothing; `AddedWhole` names the one
kind of event, a usage event whose job was not set, that is delivered incomplete;
`ForeignEventsMeanDestroyed` says that events reach another client's caller only after a close and a
reuse of the slot, and `RefusedUnlessReused` that a closed client is served only from a slot taken
again, never from an empty one; `EventsAccounted` names the ways an event is
lost: its conversion failed, `closeNative` destroyed it with its client (314), or the client was
destroyed before the delivery thread found it; so an open client loses an event to a failed
conversion only. `PendingIsThrown` excuses one exception of the logging itself, a method id that
`pygdi_log` did not find (344-350). `OptionsApplied` excuses a queue state and an explanation, and only with the error
in the answer list that goes unread; `RefsCounted` allows the strings in a list one reference too
many (`PyString_FromString`'s own) and the list of a `getHosts` whose setup failed to stay;
`NoneShort` says how many references `Py_None` is short of, which is why a series of such calls must be
shorter than the number of references others hold.

### Bounds

- *Threads.* Two Java threads and the delivery thread: every shared section of the table is between
  two parties, and with two threads each pair of natives meets, with the delivery thread as third.
  `logging` has three, so that one thread can overwrite what a second wrote for a third.
- *Clients and slots.* Two clients on one slot make reuse and the full table as frequent as they can
  be (the code has 1024 slots, none of whose indices is special but the first and the last); `scan`
  needs a second slot for the scan to pass over. The invariants are proved for any number.
- *Events.* A report is any set of unsent events, the empty one included. One event shows a
  misdelivery, two show a split or a doubling, and an exit event with another pending decides between the branches of `waitEVC`.
- *Conversion.* The loop has no memory from one event to the next but `ret` and `alp`; two events
  show what the first leaves to the second. Two items show a failure in the middle of a loop.
- *Quota and qstat.* Two of each: the first leaves something behind for the second. `MaxAsked` is 2:
  a filter interacts with the one built before or after it, and with what is shown, not with all at
  once. The inductive invariant covers every set of options and any number of names, queues and jobs.
- *Python.* `MaxCalls` is 4: a call fails, a second succeeds, a third meets what both left.
  Four objects make a list of two names and one object besides. `MaxHeld` is 2, a reference
  that is shared and one that is not. `NoneOthers` is 2, so that the interpreter does lose `Py_None`
  within four calls. The proofs have no bound on any of them.
- But for `MaxCalls` and `MaxHeld` no counter is cut off: objects are created once, events sent once,
  and the state spaces are finite without a constraint.
- *Symmetry* is used on threads, on clients only where all are in qmaster, and on model values that
  no definition chooses between; never in a run with a liveness property.

### Fairness

`FairSpec` of EventClient has weak fairness on `Continue(t)` of each thread and on the delivery
thread's `UpdateSkip \/ UpdateSignal`. A thread inside a native is scheduled by the operating system
and its blocking calls end (`ec_get` has a timeout); nobody is obliged to call a native, to send an
event or to wake a waiter spuriously. A mutex is not handed out in turn, so a slot whose mutex an
`ec_get` outside qmaster takes again and again may be out of reach for a waiter: `WaiterReleased`
says so in its conclusion, although the run `fill` has no such client. Requiring strong fairness
there would claim what `pthread_mutex_lock` does not promise. For the same reason no liveness property
is stated of `sge_evc_mutex`; what can be said of it are the safety properties `GlobalMutexHeldInside`
and `NoCircularWait`, for clients in qmaster and outside: who has it is inside `initNative` or
`closeNative` and waits at most for an `ec_get`, which waits for no mutex.

`FairSpec` of EventConversion has weak fairness on its next-state relation: one thread runs the loop
and each JVM call returns. The other modules state no liveness property: the calls they model are
sequential and end after finitely many steps of a driver that is not in the repository.

### Findings

1. **startup_race** (`pygdi_event.c:378`). `initNative` calls `initEVCArray` before it takes
   `sge_evc_mutex`, and the flag is set (108) before the slots are written (109-114). A second first
   `initNative` skips the loop, stores its client in slot 0 and returns; the first thread's loop then
   wipes the slot. Every later call of the open client is told "already closed".
2. **slot_reuse** (`pygdi_event.c:161`). An index carries nothing that tells two clients of a slot
   apart. A native called with the index of a closed client, or under way when it was closed, is
   served by the slot's next client: `fillEvents` takes its events, `closeNative` closes it.
3. **qquota_hosts** (`pygdi_qquota.c:409`). When a host name cannot be resolved the `break` leaves
   the inner loop only; a later filter overwrites `ret` with success, the report runs with the
   unresolved name, and no error is thrown.
4. **logging_class** (`pygdi_logging.c:151`). `Level_find_class` stores its local reference in the
   static variable before it replaces it by a global one; another thread can take it in between.

## 4. What is proved

Each `...Proofs` module proves `Spec => []IInv` for every value of the constants that satisfies the
`ASSUME`s of its module, then draws the properties from it. The assumptions are: null values are not
members of the sets they stand beside, `MaxEvc` and `Size` are naturals (`MaxEvc` positive), the
logger's and the callers' levels are in `0 .. 6`, no queue is named like a job list, and others hold at
least one reference to `Py_None`.

| module | theorems | the invariant, and why the properties alone are not inductive |
|---|---|---|
| `EventClientProofs` | `TypeCorrect`, `Invariance`, `OpenClientsKeepTheirSlots`, `RefusalsAreRight`, `WakeupsAreNotLost`, `WaitersMeetNoNull`, `NoUseAfterDestroy`, `GlobalMutexIsGivenBack`, `NoSlotLeaks`, `EventInvariance`, `MissedAreDestroyed`, `ForeignEventsOnlyAfterClose`, `EventsInOnePlace`, `MailboxImplemented`, `OnlyReuseServesTheClosed`, `LocksAreOrdered`, and from the load of the library `StartupGivesMutexBack`, `StartupOnlyOverlapHurts`, `StartupOfOneThread`, `StartupImplementsMailbox` | That a slot's owner is the client with that handle has to be known while a client is in `initNative` and has a slot but no handle (`InitCalls`), for calls with old indices (`IndexCalls`, `HandlesGiven`), and needs the mutexes to be held where the code believes so (`MutexesHeld`) and `initEVCArray` to be over (`ArrayReady`). `NoLostWakeup` rests on every write of a slot's state or client being followed by a broadcast in the same section. `NoUseAfterDestroy` is an action property, from the same invariant: only clients in a slot are changed, and those are not destroyed. For the events a second invariant, `EventIInv`, stands beside it: `ScanKnown` says that the client an update looks for is destroyed or in a slot the scan has not passed (clients never move), `BatchKnown` and `ElistKnown` whose events are in an update, with a client and in a thread's hands, `Accounted` that an event is somewhere exactly when it was sent, and nowhere else. Its proof sorts the steps into the few moves an event can make (`Moves`). `MailboxImplemented` is the refinement to `EventMailbox`; a client is turned away only by a full table because `initNative` keeps the global mutex from its scan to its return (`FullSeen`), and the clients in the table number as many as the occupied slots. |
| `EventConversionProofs` | `TypeCorrect`, `Invariance`, `AddedIsWhole`, `FailuresAreKnown`, `BatchImplemented`, `LoopSettlesBatch`, `LoopGoesOn` | `ObjectInHand` says how far the object is at each place of `process_event`, so that it is whole when it reaches `List_add`; `TurnsKept` that nothing has been done to the events ahead. `BatchImplemented` is the refinement: initial states map to initial states, each step to a step or a stutter of `EventBatch`. |
| `QQuotaProofs` | `TypeCorrect`, `Invariance`, `ReportsAreFiltered`, `RulesAreComplete`, `ReferencesAreReleased`, `NormalReturns`, `OnlyLaterFiltersHide`, `ReportImplemented` | `RuleUnderWay` ties the handler's object to the driver's rule (what is added and what is still to come make the rule), `RulesAccounted` every rule to one of three places, `OutcomeKnown` `ret` to the completeness of the result. `ReportImplemented` needs `RulesOnce` besides: a rule is ahead, under way or in the result, and in one of them only, and after a failure `ret` is what was recorded of it. |
| `QstatReportProofs` | `Invariance`, `JobsAreWhereReported`, `QueuesAreComplete`, `NormalReturns`, `RecordedFailuresAreThrown`, `ReportImplemented` | `SectionUnderWay` says that all jobs in the handlers' hands are of one section, and of which: the handlers do not know. `NothingLost` follows each job from report to object; `FailureRecorded` what the contexts remember. `FailureKnown`, for the refinement, that an unrecorded failure leaves success everywhere. |
| `QstatEnvProofs` | `EnvInvariance`, `EnvTypeCorrect`, `OptionsAreApplied`, `NothingIsHalfBuilt` | Two orders have to be related: `FiltersRead` and `AppliedInTurn` say what of each order lies behind, `ListsInTurn` which list is whole, in the making or still empty, and `LoopKnown` that a loop runs only for the filter whose turn it is. |
| `QstatCallProofs` | `PartsImplemented`, `CallTypeCorrect`, `CallKeepsPromises`, `ClusterListsAreComplete`, `EnvFailuresAreThrown`, `CallImplementsReports` | `PartsImplemented` maps each step of a call to a step or a stutter of each part; the parts' theorems then hold of the call. `ClusterIInv` follows a cluster queue to the list or to the failed callback. `ClusterOnce`, for the refinement, that it is reported once. `EnvAnswered` relates the parts: a native is past its `qstat_env` only with one that is ready or with an error to throw. |
| `LoggingProofs` | `TypeCorrect`, `Invariance`, `ClassRefsAreAlive`, `LevelObjectsAreUsable`, `LeaksAreBounded`, `PendingIsTheNatives`, `SettledForGood`, `OneLookupIsRight` | `ClassKnown`: a thread past the test holds a reference that is not NULL, and a thread about to store holds its global one. Thus the last write of a thread to `clazz` is always global. `CachedForGood`: once a thread has made its global reference the cache is never NULL again and the thread is not on its way to a second one. `ExceptionKnown`: a thread whose native has thrown gets no further than the test of `pygdi_is_loggable` (227), and a `NewStringUTF` that failed is pending until the next call into Java only. |
| `PyBindingProofs` | `PyInvariance`, `PyTypeCorrect`, `ReferencesAreCounted`, `NoneIsShort`, `ContextsAreClosed`, `ListsAreComplete`, `NoUseAfterFree` | `RefsCounted` needs to know that a string is in one list at most and that lists are in none (`HeapKnown`), and what the call's own pointer is at each place (`ResultKnown`); `NoneCounted` counts the reference a call on its way back has given up but not yet reported. `NoUseAfterFree` is an action property: an object whose count is 0 is in nobody's hands, so no step can reach it. |

### The refinements

Each is proved as initial states to initial states and each step to a step or a stutter:
`MailboxImplemented`, `BatchImplemented`, `ReportImplemented` of a quota report and of a queue
instance summary, and `CallImplementsReports`, which has the latter and the cluster queue summary
hold of a whole call, with the making of the `qstat_env` before it.

### How far the findings go

Four properties are violated (section 3). For each a theorem says what is left, or what has to happen
for the violation.

- *startup_race.* `Invariance` is about `Spec`, the initialised table; from `StartupInit` it fails.
  `StartupOnlyOverlapHurts` and `StartupImplementsMailbox` have the hypothesis `[]OneStarts`: while a
  thread is in the loop of `initEVCArray` no other is past its test of the flag. A mutex around the
  function would give just that. Then all that holds of `Spec` holds from the load of the library, by a
  state that is `Fresh` (nothing stored, sent or refused) until the loop ends, and `Ready` from then
  on. `StartupOfOneThread` has no hypothesis but that there is one Java thread.
  `StartupGivesMutexBack` and `LocksAreOrdered` need none: they hold during the race as well.
- *slot_reuse.* `OnlyReuseServesTheClosed` (`RefusedUnlessReused`): a native of a closed client is
  refused unless the slot has been taken by another. `DestroyedHadSlot` is the strengthening: what is
  destroyed has kept its index, so that the refusal is decided by that slot.
- *qquota_hosts.* `OnlyLaterFiltersHide`: a report with unresolved names was let through by a list
  that was built after that of the hosts, and nothing else.
- *logging_class.* `OneLookupIsRight`, under `[]OneLooks` (no thread in the lookup while another is
  between its test and its store): what `Level_find_class` returns is usable by any thread, and one
  global reference is made. `SettledForGood`, without a hypothesis: once the class is cached and
  every thread is past the lookup, that is so for ever.

### Deadlock and termination

`LocksAreOrdered`, for `Spec` and for `StartupSpec`, states that among any threads there is one that waits for none of the others
(`NoCircularWait`). `sge_evc_mutex` comes before the mutex of a slot, and who has a slot's mutex from
one step to the next is in `ec_get` (`SlotHeldInGet`), where it waits for no mutex. The delivery thread
holds none from one step to the next, and the locks inside the event master are not modelled.

`LoopGoesOn` is the part of `EverySettled` that needs no fairness: each step of the conversion
loop goes to a later event, a later stage of the same one, or fewer of its items, so that there are
finitely many for a batch. `LoopSettlesBatch`: when it ends each event has been added or dropped.

### Only model-checked

Liveness and the fairness behind it (`WaiterReleased`, `EverySettled`) are out
of the prover's reach. The four violated properties are TLC's counterexamples.

## 5. Not modelled

- The Python GDI type: one attribute and no methods. `init_pygdi` sets its constructor to
  `PyType_GenericNew`, so that `GDI_new` is never called, and the operations on it are comments.
- The test copy, `pygdi_qhost.c`, packaging: no behaviour of their own.
- What the external libraries do inside: `ec_wait` after an interrupt of a client outside qmaster, the
  locks of the event master in a call of `pygdi_event_update_func`, the bits of `qstat_env` as
  `qstat_no_group` reads them.
- Wording of messages, the format of log records, and the content of objects beyond the parts told
  apart above.
- Out-of-memory conditions that end the process.

## 6. Plan

In order of importance; all modules are written.

1. `EventClient` with `EventMailbox`: the shared table. Runs `reuse`, `scan`, `fill`,
   `startup_race`, `slot_reuse`.
2. `EventConversion` with `EventBatch`: what `fillEvents` does with a batch.
3. `QQuota`: filters, callbacks and what the caller is told.
4. `QstatReport`: where jobs and queues end up.
5. `Logging`: the unguarded caches.
6. `QstatEnv`: what becomes of the caller's options, composed with `QstatReport` in `QstatCall`.
7. `ClusterSummary`: the cluster queue summary, composed with `QstatEnv` in `QstatCall`.
8. `PyBinding`: references and contexts of the Python module.

Every safety property of the passing runs and every refinement is proved, and for each of the four
violations its extent. What could still be added is a theorem that weakens `[]OneStarts` to the
overlap of the two loops' writes alone, and, were the event client library's sources at hand, the
locks it takes inside `ec_deregister` and `ec_get`, for a lock order that includes them.
