----------------------------- MODULE EventClient -----------------------------
(***************************************************************************)
(* The table of event clients of the JNI layer (pygdi_event.c).            *)
(*                                                                         *)
(* Java threads call the natives of EventClientImpl objects.  Each object  *)
(* holds the index of a slot of sge_evc_array; each slot holds an          *)
(* sge_evc_class_t, a mutex, a condition variable and a state.  The event  *)
(* master's delivery thread finds the slot of a client by its id and hands *)
(* it events (pygdi_event_update_func); fillEvents waits for them, takes   *)
(* them, converts them to Java and acknowledges them.                      *)
(*                                                                         *)
(* Grain: a section of code under an elem_mutex is one step, because every *)
(* field it reads or writes is only accessed under that mutex.  The        *)
(* exceptions have steps of their own: pthread_cond_wait, which gives the  *)
(* mutex back, and ec_get of a client outside qmaster, a network call made *)
(* with the mutex held.  sge_evc_mutex is held across several steps, among *)
(* them initNative's test of a slot and its store into it, which are two.  *)
(***************************************************************************)
EXTENDS Integers, FiniteSets

CONSTANTS
  Threads,     \* the Java threads that call the natives
  Clients,     \* the EventClientImpl objects, each with the sge_evc it creates
  Internal,    \* the clients whose context is_qmaster_internal_client
  Events,      \* the events the event master sends
  ExitEvents,  \* those that make ec_evco_exit true (the master shuts down)
  MaxEvc,      \* MAX_EVC_ARRAY_SIZE
  NoThread,    \* the owner of a free mutex
  NoClient     \* the NULL sge_evc

ASSUME MaxEvcAssumption == MaxEvc \in Nat \ {0}
ASSUME InternalAssumption == Internal \subseteq Clients
ASSUME EventsAssumption == ExitEvents \subseteq Events
ASSUME NoThreadAssumption == NoThread \notin Threads
ASSUME NoClientAssumption == NoClient \notin Clients

Slots == 0 .. MaxEvc - 1
NoIndex == -1

VARIABLES
  is_evc_array_initialized,
  sge_evc_mutex,  \* the thread that holds the global mutex, or NoThread
  sge_evc,        \* the client in each slot, or NoClient
  state,          \* elem_state_t of each slot
  elem_mutex,     \* who holds a slot's mutex from one step to the next
  pc,             \* where each thread is in its native
  target,         \* the EventClientImpl the thread's call is made on
  idx,            \* evc_index of the call; the loop variable i of initEVCArray
  elist,          \* the events of fillEvents' elist
  outcome,        \* how the thread's last call ended
  life,           \* of each client: unborn, created, open, failed, refused, destroyed
  handle,         \* the index initNative returned for each object
  pending,        \* the events ec_get would return, or that were destroyed with the client
  exiting,        \* the clients with ec_evco_exit
  unacked,        \* the clients with a report not yet acknowledged
  uncommitted,    \* the clients with subscription changes not yet committed
  registry,       \* the clients the event master knows (external)
  mClient,        \* the client of the update in progress, or NoClient
  mSlot,          \* the slot the update looks at
  mBatch,         \* the events of the update
  sent,           \* history: the events sent to each client
  delivered,      \* history: the events each object's caller was given
  dropped,        \* history: the events whose conversion failed
  missed          \* history: the events whose client was not found

slotVars == <<is_evc_array_initialized, sge_evc_mutex, sge_evc, state, elem_mutex>>
callVars == <<pc, target, idx, elist, outcome>>
clientVars == <<life, handle, pending, exiting, unacked, uncommitted>>
masterVars == <<registry, mClient, mSlot, mBatch>>
histVars == <<sent, delivered, dropped, missed>>
vars == <<slotVars, callVars, clientVars, masterVars, histVars>>

(* The natives that lock the slot once, do one thing and unlock it. *)
ShortOps == {"interrupt", "register", "setFlush", "getFlush", "subscribe", "commit"}
(* The places at which a thread is about to lock the slot of its index. *)
LockPcs == ShortOps \cup {"close_elem", "fill_wait", "fill_ack"}
InitPcs == {"init_check", "init_mark", "init_wipe", "init_lock", "init_scan", "init_store",
            "init_unlock"}
ClosePcs == {"close", "close_elem", "close_unlock"}
FillPcs == {"fill_wait", "fill_cond", "fill_woken", "fill_get", "fill_process", "fill_ack"}
Pcs == {"idle"} \cup ShortOps \cup InitPcs \cup ClosePcs \cup FillPcs

TypeOK ==
  /\ is_evc_array_initialized \in BOOLEAN
  /\ sge_evc_mutex \in Threads \cup {NoThread}
  /\ sge_evc \in [Slots -> Clients \cup {NoClient}]
  /\ state \in [Slots -> {"RUNNING", "INTERRUPTED", "STOPPED"}]
  /\ elem_mutex \in [Slots -> Threads \cup {NoThread}]
  /\ pc \in [Threads -> Pcs]
  /\ target \in [Threads -> Clients \cup {NoClient}]
  /\ idx \in [Threads -> Slots \cup {NoIndex}]
  /\ elist \in [Threads -> SUBSET Events]
  /\ outcome \in [Threads -> {"none", "ok", "error", "closed", "invalid", "full"}]
  /\ life \in [Clients -> {"unborn", "created", "open", "failed", "refused", "destroyed"}]
  /\ handle \in [Clients -> Slots \cup {NoIndex}]
  /\ pending \in [Clients -> SUBSET Events]
  /\ exiting \subseteq Clients
  /\ unacked \subseteq Clients
  /\ uncommitted \subseteq Clients
  /\ registry \subseteq Clients
  /\ mClient \in Clients \cup {NoClient}
  /\ mSlot \in Slots
  /\ mBatch \subseteq Events
  /\ sent \in [Clients -> SUBSET Events]
  /\ delivered \in [Clients -> SUBSET Events]
  /\ dropped \subseteq Events
  /\ missed \subseteq Events

(* Before the first native: static storage, so the slots are zeroed. *)
InitWith(initialized) ==
  /\ is_evc_array_initialized = initialized
  /\ sge_evc_mutex = NoThread
  /\ sge_evc = [i \in Slots |-> NoClient]
  /\ state = [i \in Slots |-> "RUNNING"]
  /\ elem_mutex = [i \in Slots |-> NoThread]
  /\ pc = [t \in Threads |-> "idle"]
  /\ target = [t \in Threads |-> NoClient]
  /\ idx = [t \in Threads |-> NoIndex]
  /\ elist = [t \in Threads |-> {}]
  /\ outcome = [t \in Threads |-> "none"]
  /\ life = [c \in Clients |-> "unborn"]
  /\ handle = [c \in Clients |-> NoIndex]
  /\ pending = [c \in Clients |-> {}]
  /\ exiting = {} /\ unacked = {} /\ uncommitted = {} /\ registry = {}
  /\ mClient = NoClient /\ mSlot = 0 /\ mBatch = {}
  /\ sent = [c \in Clients |-> {}]
  /\ delivered = [c \in Clients |-> {}]
  /\ dropped = {} /\ missed = {}

(* The array is already initialised; all of initNative's later calls.      *)
Init == InitWith(TRUE)
(* The process has just loaded the library.                                *)
StartupInit == InitWith(FALSE)

-----------------------------------------------------------------------------
(* Steps of a native that are common to several.                           *)

Goto(t, place) == pc' = [pc EXCEPT ![t] = place]

(* The native returns; o says whether it threw, and why. *)
Result(t, o) ==
  /\ outcome' = [outcome EXCEPT ![t] = o]
  /\ idx' = [idx EXCEPT ![t] = NoIndex]
  /\ elist' = [elist EXCEPT ![t] = {}]
  /\ UNCHANGED target

Return(t, o) == Goto(t, "idle") /\ Result(t, o)

(* A Java thread enters a native of object c, with the index c holds. *)
Enter(t, c, place, i) ==
  /\ pc[t] = "idle"
  /\ Goto(t, place)
  /\ target' = [target EXCEPT ![t] = c]
  /\ idx' = [idx EXCEPT ![t] = i]
  /\ outcome' = [outcome EXCEPT ![t] = "none"]
  /\ UNCHANGED elist

(* Faulty: slot 0 taken for no slot. *)
ValidIndex_FromOne(t) == idx[t] \in Slots \ {0}

ValidIndex(t) == idx[t] \in Slots

(* Faulty: lockEVC without the test for NULL. *)
Locked_NoNullTest(t, c) == ValidIndex(t) /\ elem_mutex[idx[t]] = NoThread

(* pthread_mutex_lock(elem_mutex) of lockEVC returns, and sge_evc is set. *)
Locked(t, c) ==
  /\ ValidIndex(t)
  /\ elem_mutex[idx[t]] = NoThread
  /\ sge_evc[idx[t]] = c

(* Faulty: no broadcast. *)
Woken_Nobody(i) == pc

(* pthread_cond_broadcast: every thread in pthread_cond_wait on slot i has *)
(* to take the slot's mutex again.                                         *)
Woken(i) == [u \in Threads |-> IF pc[u] = "fill_cond" /\ idx[u] = i
                               THEN "fill_woken" ELSE pc[u]]

(* Faulty: closeNative returns at once when lockEVC refuses. *)
LockRefused_NoUnlock(t) ==
  /\ pc[t] \in LockPcs
  /\ ValidIndex(t) => Locked(t, NoClient)
  /\ Return(t, IF ValidIndex(t) THEN "closed" ELSE "invalid")
  /\ UNCHANGED <<slotVars, clientVars, masterVars, histVars>>

(* lockEVC refuses: the slot is empty or there is no such slot.  The       *)
(* natives throw and return; closeNative still has to unlock.              *)
LockRefused(t) ==
  /\ pc[t] \in LockPcs
  /\ ValidIndex(t) => Locked(t, NoClient)
  /\ Result(t, IF ValidIndex(t) THEN "closed" ELSE "invalid")
  /\ Goto(t, IF pc[t] = "close_elem" THEN "close_unlock" ELSE "idle")
  /\ UNCHANGED <<slotVars, clientVars, masterVars, histVars>>

-----------------------------------------------------------------------------
(* initNative and initEVCArray.                                            *)

(* getGDIContext and sge_evc_class_create succeed. *)
InitNative(t, c) ==
  /\ life[c] = "unborn"
  /\ Enter(t, c, "init_check", NoIndex)
  /\ life' = [life EXCEPT ![c] = "created"]
  /\ UNCHANGED <<slotVars, handle, pending, exiting, unacked, uncommitted,
                 masterVars, histVars>>

(* One of them fails: the native throws and returns -1. *)
InitNativeFails(t, c) ==
  /\ life[c] = "unborn"
  /\ pc[t] = "idle"
  /\ target' = [target EXCEPT ![t] = c]
  /\ outcome' = [outcome EXCEPT ![t] = "error"]
  /\ life' = [life EXCEPT ![c] = "failed"]
  /\ UNCHANGED <<slotVars, pc, idx, elist, handle, pending, exiting, unacked,
                 uncommitted, masterVars, histVars>>

(* Faulty: the array is initialised by every initNative. *)
InitCheck_Always(t) ==
  /\ pc[t] = "init_check"
  /\ Goto(t, "init_mark")
  /\ UNCHANGED <<slotVars, target, idx, elist, outcome, clientVars, masterVars, histVars>>

(* initEVCArray reads its flag; nothing protects the flag. *)
InitCheck(t) ==
  /\ pc[t] = "init_check"
  /\ Goto(t, IF is_evc_array_initialized THEN "init_lock" ELSE "init_mark")
  /\ UNCHANGED <<slotVars, target, idx, elist, outcome, clientVars, masterVars, histVars>>

InitMark(t) ==
  /\ pc[t] = "init_mark"
  /\ is_evc_array_initialized' = TRUE
  /\ Goto(t, "init_wipe")
  /\ idx' = [idx EXCEPT ![t] = 0]
  /\ UNCHANGED <<sge_evc_mutex, sge_evc, state, elem_mutex, target, elist, outcome,
                 clientVars, masterVars, histVars>>

(* One turn of the loop; pthread_mutex_init leaves the mutex unlocked. *)
InitWipe(t) ==
  /\ pc[t] = "init_wipe"
  /\ LET i == idx[t] IN
     /\ sge_evc' = [sge_evc EXCEPT ![i] = NoClient]
     /\ state' = [state EXCEPT ![i] = "RUNNING"]
     /\ elem_mutex' = [elem_mutex EXCEPT ![i] = NoThread]
     /\ idx' = [idx EXCEPT ![t] = IF i + 1 \in Slots THEN i + 1 ELSE NoIndex]
     /\ Goto(t, IF i + 1 \in Slots THEN "init_wipe" ELSE "init_lock")
  /\ UNCHANGED <<is_evc_array_initialized, sge_evc_mutex, target, elist, outcome,
                 clientVars, masterVars, histVars>>

(* Faulty: the table is scanned without sge_evc_mutex. *)
InitLock_Unlocked(t) ==
  /\ pc[t] = "init_lock"
  /\ Goto(t, "init_scan")
  /\ UNCHANGED <<slotVars, target, idx, elist, outcome, clientVars, masterVars, histVars>>

InitLock(t) ==
  /\ pc[t] = "init_lock"
  /\ sge_evc_mutex = NoThread
  /\ sge_evc_mutex' = t
  /\ Goto(t, "init_scan")
  /\ UNCHANGED <<is_evc_array_initialized, sge_evc, state, elem_mutex, target, idx,
                 elist, outcome, clientVars, masterVars, histVars>>

(* Faulty: the scan takes the first slot, free or not. *)
FirstFree_Any(i) == \A j \in Slots : i <= j

FirstFree(i) ==
  /\ sge_evc[i] = NoClient
  /\ \A j \in Slots : sge_evc[j] = NoClient => i <= j

(* The scan of the table.  It reads sge_evc without the slots' mutexes:    *)
(* the other writer, closeNative, also holds sge_evc_mutex.                *)
InitScan(t) ==
  /\ pc[t] = "init_scan"
  /\ \/ \E i \in Slots :
          /\ FirstFree(i)
          /\ idx' = [idx EXCEPT ![t] = i]
          /\ Goto(t, "init_store")
     \/ /\ \A i \in Slots : sge_evc[i] # NoClient
        /\ Goto(t, "init_unlock")
        /\ UNCHANGED idx
  /\ UNCHANGED <<slotVars, target, elist, outcome, clientVars, masterVars, histVars>>

(* The slot it found is not looked at again under its mutex. *)
InitStore(t) ==
  /\ pc[t] = "init_store"
  /\ LET i == idx[t] IN
     /\ elem_mutex[i] = NoThread
     /\ sge_evc' = [sge_evc EXCEPT ![i] = target[t]]
     /\ state' = [state EXCEPT ![i] = "RUNNING"]
  /\ Goto(t, "init_unlock")
  /\ UNCHANGED <<is_evc_array_initialized, sge_evc_mutex, elem_mutex, target, idx, elist,
                 outcome, clientVars, masterVars, histVars>>

(* Without a slot the client is destroyed: "Too many pygdi connections". *)
InitReturn(t) ==
  /\ pc[t] = "init_unlock"
  /\ sge_evc_mutex' = NoThread
  /\ handle' = [handle EXCEPT ![target[t]] = idx[t]]
  /\ life' = [life EXCEPT ![target[t]] = IF ValidIndex(t) THEN "open" ELSE "refused"]
  /\ Return(t, IF ValidIndex(t) THEN "ok" ELSE "full")
  /\ UNCHANGED <<is_evc_array_initialized, sge_evc, state, elem_mutex, pending, exiting,
                 unacked, uncommitted, masterVars, histVars>>

-----------------------------------------------------------------------------
(* closeNative.                                                            *)

(* Faulty: the slot is emptied without sge_evc_mutex. *)
CloseLock_Unlocked(t) ==
  /\ pc[t] = "close"
  /\ Goto(t, "close_elem")
  /\ UNCHANGED <<slotVars, target, idx, elist, outcome, clientVars, masterVars, histVars>>

CloseLock(t) ==
  /\ pc[t] = "close"
  /\ sge_evc_mutex = NoThread
  /\ sge_evc_mutex' = t
  /\ Goto(t, "close_elem")
  /\ UNCHANGED <<is_evc_array_initialized, sge_evc, state, elem_mutex, target, idx,
                 elist, outcome, clientVars, masterVars, histVars>>

(* A failure of ec_deregister is thrown, and the client destroyed anyway. *)
CloseElem(t) ==
  /\ pc[t] = "close_elem"
  /\ \E c \in Clients, deregistered \in BOOLEAN :
       /\ Locked(t, c)
       /\ deregistered => c \in registry
       /\ registry' = IF deregistered THEN registry \ {c} ELSE registry
       /\ state' = [state EXCEPT ![idx[t]] = "STOPPED"]
       /\ sge_evc' = [sge_evc EXCEPT ![idx[t]] = NoClient]
       /\ life' = [life EXCEPT ![c] = "destroyed"]
       /\ pc' = [Woken(idx[t]) EXCEPT ![t] = "close_unlock"]
       /\ Result(t, IF deregistered THEN "ok" ELSE "error")
  /\ UNCHANGED <<is_evc_array_initialized, sge_evc_mutex, elem_mutex, handle, pending,
                 exiting, unacked, uncommitted, mClient, mSlot, mBatch, histVars>>

CloseReturn(t) ==
  /\ pc[t] = "close_unlock"
  /\ sge_evc_mutex' = NoThread
  /\ Goto(t, "idle")
  /\ UNCHANGED <<is_evc_array_initialized, sge_evc, state, elem_mutex, target, idx,
                 elist, outcome, clientVars, masterVars, histVars>>

-----------------------------------------------------------------------------
(* The natives that lock the slot once.  Where the ec_ call reports a      *)
(* failure the native throws, and the client is as it was.                 *)

InterruptNative(t) ==
  /\ pc[t] = "interrupt"
  /\ \E c \in Clients : Locked(t, c)
  /\ state' = [state EXCEPT ![idx[t]] = "INTERRUPTED"]
  /\ pc' = [Woken(idx[t]) EXCEPT ![t] = "idle"]
  /\ Result(t, "ok")
  /\ UNCHANGED <<is_evc_array_initialized, sge_evc_mutex, sge_evc, elem_mutex,
                 clientVars, masterVars, histVars>>

(* ec_register also sends the subscription. *)
RegisterNative(t) ==
  /\ pc[t] = "register"
  /\ \E c \in Clients :
       /\ Locked(t, c)
       /\ \/ /\ registry' = registry \cup {c}
             /\ uncommitted' = uncommitted \ {c}
             /\ Return(t, "ok")
          \/ /\ Return(t, "error")
             /\ UNCHANGED <<registry, uncommitted>>
  /\ UNCHANGED <<slotVars, life, handle, pending, exiting, unacked,
                 mClient, mSlot, mBatch, histVars>>

(* setFlushNative and subscribeNative: both change the subscription of the *)
(* client, which the event master learns at the next commit.               *)
Configure(t) ==
  \E c \in Clients :
    /\ Locked(t, c)
    /\ \/ uncommitted' = uncommitted \cup {c} /\ Return(t, "ok")
       \/ UNCHANGED uncommitted /\ Return(t, "error")
    /\ UNCHANGED <<slotVars, life, handle, pending, exiting, unacked, masterVars, histVars>>

SetFlushNative(t) == pc[t] = "setFlush" /\ Configure(t)
SubscribeNative(t) == pc[t] = "subscribe" /\ Configure(t)

GetFlushNative(t) ==
  /\ pc[t] = "getFlush"
  /\ \E c \in Clients : Locked(t, c)
  /\ Return(t, "ok")
  /\ UNCHANGED <<slotVars, clientVars, masterVars, histVars>>

CommitNative(t) ==
  /\ pc[t] = "commit"
  /\ \E c \in Clients :
       /\ Locked(t, c)
       /\ \/ uncommitted' = uncommitted \ {c} /\ Return(t, "ok")
          \/ UNCHANGED uncommitted /\ Return(t, "error")
  /\ UNCHANGED <<slotVars, life, handle, pending, exiting, unacked, masterVars, histVars>>

-----------------------------------------------------------------------------
(* fillEvents and waitEVC.                                                 *)

(* ec_evco_triggered: only ec_signal of a client in qmaster sets it. *)
Triggered(c) == c \in Internal /\ pending[c] # {}

(* One turn of waitEVC's loop on slot i, with the slot's mutex.  c is the  *)
(* client the slot holds at that moment.                                   *)
WaitTurn(t, i, c) ==
  \/ /\ state[i] = "STOPPED"
     /\ Goto(t, "fill_process")
     /\ UNCHANGED <<state, elist, pending>>
  \/ /\ state[i] = "INTERRUPTED"
     /\ state' = [state EXCEPT ![i] = "RUNNING"]
     /\ Goto(t, "fill_process")
     /\ UNCHANGED <<elist, pending>>
  \/ /\ state[i] = "RUNNING"
     /\ c \in exiting
     /\ Goto(t, "fill_process")
     /\ UNCHANGED <<state, elist, pending>>
  \/ /\ state[i] = "RUNNING"
     /\ c \in Clients \ exiting
     /\ Triggered(c)
     /\ elist' = [elist EXCEPT ![t] = pending[c]]
     /\ pending' = [pending EXCEPT ![c] = {}]
     /\ Goto(t, "fill_process")
     /\ UNCHANGED state
  \/ /\ state[i] = "RUNNING"
     /\ c \in Clients \ exiting
     /\ ~Triggered(c)
     /\ Goto(t, "fill_cond")
     /\ UNCHANGED <<state, elist, pending>>

(* waitEVC of a client in qmaster, from lockEVC to its first wait. *)
FillWait(t) ==
  /\ pc[t] = "fill_wait"
  /\ \E c \in Internal : Locked(t, c) /\ WaitTurn(t, idx[t], c)
  /\ UNCHANGED <<is_evc_array_initialized, sge_evc_mutex, sge_evc, elem_mutex, target, idx,
                 outcome, life, handle, exiting, unacked, uncommitted, masterVars, histVars>>

(* pthread_cond_wait may return although nobody signalled. *)
SpuriousWakeup(t) ==
  /\ pc[t] = "fill_cond"
  /\ Goto(t, "fill_woken")
  /\ UNCHANGED <<slotVars, target, idx, elist, outcome, clientVars, masterVars, histVars>>

(* The waiter has the slot's mutex again and looks at the slot as it is    *)
(* now; whether the client is in qmaster is not asked again.               *)
FillResume(t) ==
  /\ pc[t] = "fill_woken"
  /\ \E c \in Clients \cup {NoClient} : Locked(t, c) /\ WaitTurn(t, idx[t], c)
  /\ UNCHANGED <<is_evc_array_initialized, sge_evc_mutex, sge_evc, elem_mutex, target, idx,
                 outcome, life, handle, exiting, unacked, uncommitted, masterVars, histVars>>

(* A client outside qmaster: ec_get asks qmaster, with the mutex held. *)
FillGet(t) ==
  /\ pc[t] = "fill_wait"
  /\ \E c \in Clients \ Internal : Locked(t, c)
  /\ elem_mutex' = [elem_mutex EXCEPT ![idx[t]] = t]
  /\ Goto(t, "fill_get")
  /\ UNCHANGED <<is_evc_array_initialized, sge_evc_mutex, sge_evc, state, target, idx, elist,
                 outcome, clientVars, masterVars, histVars>>

(* Faulty: waitEVC returns without unlockEVC. *)
FillGot_NoUnlock(t) ==
  /\ pc[t] = "fill_get"
  /\ \E c \in Clients :
       /\ sge_evc[idx[t]] = c
       /\ elist' = [elist EXCEPT ![t] = pending[c]]
       /\ pending' = [pending EXCEPT ![c] = {}]
  /\ Goto(t, "fill_process")
  /\ UNCHANGED <<slotVars, target, idx, outcome, life, handle, exiting, unacked, uncommitted,
                 masterVars, histVars>>

(* ec_get returns what had arrived, or nothing after its timeout (edtime). *)
FillGot(t) ==
  /\ pc[t] = "fill_get"
  /\ \E c \in Clients :
       /\ sge_evc[idx[t]] = c
       /\ elist' = [elist EXCEPT ![t] = pending[c]]
       /\ pending' = [pending EXCEPT ![c] = {}]
  /\ elem_mutex' = [elem_mutex EXCEPT ![idx[t]] = NoThread]
  /\ Goto(t, "fill_process")
  /\ UNCHANGED <<is_evc_array_initialized, sge_evc_mutex, sge_evc, state, target, idx,
                 outcome, life, handle, exiting, unacked, uncommitted, masterVars, histVars>>

(* Faulty: the second lockEVC comes before the loop, and its refusal frees *)
(* elist.                                                                  *)
FillProcess_LocksFirst(t) ==
  /\ pc[t] = "fill_process"
  /\ \/ Locked(t, NoClient) /\ Return(t, "closed") /\ UNCHANGED <<delivered, dropped>>
     \/ /\ \E converted \in SUBSET elist[t] :
             /\ delivered' = [delivered EXCEPT ![target[t]] = @ \cup converted]
             /\ dropped' = dropped \cup (elist[t] \ converted)
        /\ elist' = [elist EXCEPT ![t] = {}]
        /\ Goto(t, "fill_ack")
        /\ UNCHANGED <<target, idx, outcome>>
  /\ UNCHANGED <<slotVars, clientVars, masterVars, sent, missed>>

(* The for_each loop: process_event appends an event to the caller's list, *)
(* or fails, which is at most logged.                                      *)
FillProcess(t) ==
  /\ pc[t] = "fill_process"
  /\ \E converted \in SUBSET elist[t] :
       /\ delivered' = [delivered EXCEPT ![target[t]] = @ \cup converted]
       /\ dropped' = dropped \cup (elist[t] \ converted)
  /\ elist' = [elist EXCEPT ![t] = {}]
  /\ Goto(t, "fill_ack")
  /\ UNCHANGED <<slotVars, target, idx, outcome, clientVars, masterVars, sent, missed>>

(* The second lockEVC: ec_wait unless interrupted; then List_size, which   *)
(* may throw.                                                              *)
FillAck(t) ==
  /\ pc[t] = "fill_ack"
  /\ \E c \in Clients :
       /\ Locked(t, c)
       /\ unacked' = IF state[idx[t]] = "RUNNING" THEN unacked \ {c} ELSE unacked
  /\ Return(t, "ok") \/ Return(t, "error")
  /\ UNCHANGED <<slotVars, life, handle, pending, exiting, uncommitted, masterVars, histVars>>

-----------------------------------------------------------------------------
(* The event master's delivery thread; its side is external.               *)

Unsent == Events \ UNION {sent[c] : c \in Clients}

(* The event master has a report for a client in qmaster, possibly empty,  *)
(* and calls pygdi_event_update_func with the client's id.                 *)
Update(c, batch) ==
  /\ mClient = NoClient
  /\ c \in registry \cap Internal
  /\ mClient' = c /\ mSlot' = 0 /\ mBatch' = batch
  /\ sent' = [sent EXCEPT ![c] = @ \cup batch]
  /\ UNCHANGED <<slotVars, callVars, clientVars, registry, delivered, dropped, missed>>

UpdateDone == mClient' = NoClient /\ mSlot' = 0 /\ mBatch' = {}

(* Faulty: the scan runs one slot too far. *)
UpdateSkip_PastEnd ==
  /\ mClient # NoClient
  /\ sge_evc[mSlot] # mClient
  /\ mSlot' = mSlot + 1
  /\ UNCHANGED <<slotVars, callVars, clientVars, registry, mClient, mBatch, histVars>>

(* pygdi_get_evc_by_evid_and_lock: the slot is empty or another client's. *)
UpdateSkip ==
  /\ mClient # NoClient
  /\ elem_mutex[mSlot] = NoThread
  /\ sge_evc[mSlot] # mClient
  /\ IF mSlot + 1 \in Slots
       THEN mSlot' = mSlot + 1 /\ UNCHANGED <<mClient, mBatch, missed>>
       ELSE UpdateDone /\ missed' = missed \cup mBatch
  /\ UNCHANGED <<slotVars, callVars, clientVars, registry, sent, delivered, dropped>>

(* The slot of the client: ec_signal, and a broadcast if there are events, *)
(* else ec_ack and ec_commit in the client's place.                        *)
UpdateSignal ==
  /\ mClient # NoClient
  /\ elem_mutex[mSlot] = NoThread
  /\ sge_evc[mSlot] = mClient
  /\ UpdateDone
  /\ \/ /\ mBatch # {}
        /\ pending' = [pending EXCEPT ![mClient] = @ \cup mBatch]
        /\ exiting' = IF mBatch \cap ExitEvents # {} THEN exiting \cup {mClient} ELSE exiting
        /\ unacked' = unacked \cup {mClient}
        /\ pc' = Woken(mSlot)
        /\ UNCHANGED uncommitted
     \/ /\ mBatch = {}
        /\ unacked' = unacked \ {mClient}
        /\ uncommitted' = uncommitted \ {mClient}
        /\ UNCHANGED <<pc, pending, exiting>>
  /\ UNCHANGED <<slotVars, target, idx, elist, outcome, life, handle, registry, histVars>>

(* A report for a client outside qmaster: its next ec_get can return it. *)
RemoteReport(c, batch) ==
  /\ c \in registry \ Internal
  /\ sent' = [sent EXCEPT ![c] = @ \cup batch]
  /\ IF life[c] = "destroyed"
       THEN missed' = missed \cup batch /\ UNCHANGED <<pending, unacked>>
       ELSE /\ pending' = [pending EXCEPT ![c] = @ \cup batch]
            /\ unacked' = unacked \cup {c}
            /\ UNCHANGED missed
  /\ UNCHANGED <<slotVars, callVars, life, handle, exiting, uncommitted, masterVars,
                 delivered, dropped>>

-----------------------------------------------------------------------------
(* A native is called with the index its object got from initNative, which *)
(* the object keeps after a close.                                         *)
Call(t, c, op) ==
  /\ life[c] \in {"open", "failed", "refused", "destroyed"}
  /\ Enter(t, c, op, handle[c])
  /\ UNCHANGED <<slotVars, clientVars, masterVars, histVars>>

CallPcs == ShortOps \cup {"close", "fill_wait"}

(* The steps by which a native that has been called goes on. *)
Continue(t) ==
  \/ LockRefused(t)
  \/ InitCheck(t) \/ InitMark(t) \/ InitWipe(t)
  \/ InitLock(t) \/ InitScan(t) \/ InitStore(t) \/ InitReturn(t)
  \/ CloseLock(t) \/ CloseElem(t) \/ CloseReturn(t)
  \/ InterruptNative(t) \/ RegisterNative(t) \/ SetFlushNative(t)
  \/ SubscribeNative(t) \/ GetFlushNative(t) \/ CommitNative(t)
  \/ FillWait(t) \/ FillResume(t) \/ FillGet(t) \/ FillGot(t)
  \/ FillProcess(t) \/ FillAck(t)

Start(t) ==
  \/ \E c \in Clients : InitNative(t, c) \/ InitNativeFails(t, c)
  \/ \E c \in Clients, op \in CallPcs : Call(t, c, op)

Master ==
  \/ \E c \in Clients, batch \in SUBSET Unsent : Update(c, batch)
  \/ UpdateSkip \/ UpdateSignal
  \/ \E c \in Clients, batch \in SUBSET Unsent \ {{}} : RemoteReport(c, batch)

Next == (\E t \in Threads : Start(t) \/ Continue(t) \/ SpuriousWakeup(t)) \/ Master

Spec == Init /\ [][Next]_vars
StartupSpec == StartupInit /\ [][Next]_vars

(* A thread in a native goes on, ec_get returns within its timeout, and    *)
(* the delivery thread finishes an update.  Nobody has to call a native.   *)
Fairness ==
  /\ \A t \in Threads : WF_vars(Continue(t))
  /\ WF_vars(UpdateSkip \/ UpdateSignal)
FairSpec == Spec /\ Fairness

-----------------------------------------------------------------------------
(* Properties.                                                             *)

(* An open client is found at the index its object holds, whatever other   *)
(* objects are created or closed: initNative never reuses an occupied slot *)
(* and initEVCArray never empties one.                                     *)
OpenClientOwnsSlot ==
  \A c \in Clients : life[c] = "open" =>
    handle[c] \in Slots /\ sge_evc[handle[c]] = c

(* "already closed" (lockEVC) is only reported for a client that is.       *)
RefusedMeansClosed ==
  \A t \in Threads : outcome[t] = "closed" =>
    target[t] \in Clients /\ life[target[t]] = "destroyed"

(* No path through initNative and closeNative leaks a slot: an occupied    *)
(* slot belongs to an open client, or to one whose initNative has yet to   *)
(* return its index.                                                       *)
SlotsNotLeaked ==
  \A i \in Slots : sge_evc[i] # NoClient =>
    \/ life[sge_evc[i]] = "open" /\ handle[sge_evc[i]] = i
    \/ \E t \in Threads : /\ pc[t] = "init_unlock" /\ idx[t] = i
                          /\ target[t] = sge_evc[i]

(* No lost wakeup: nobody sleeps in pthread_cond_wait on a slot whose      *)
(* state or client would have made waitEVC's loop end.                     *)
NoLostWakeup ==
  \A t \in Threads : pc[t] = "fill_cond" =>
    /\ state[idx[t]] = "RUNNING"
    /\ sge_evc[idx[t]] \in Clients \ exiting
    /\ ~Triggered(sge_evc[idx[t]])

(* A waiter that wakes after closeNative emptied its slot finds STOPPED,   *)
(* so waitEVC's loop does not go on to the NULL sge_evc.                   *)
WokenNotAtNull ==
  \A t \in Threads : pc[t] = "fill_woken" /\ sge_evc[idx[t]] = NoClient =>
    state[idx[t]] = "STOPPED"

Pending(e) == {c \in Clients : e \in pending[c]}
InHand(e) == {t \in Threads : e \in elist[t]}
Given(e) == {c \in Clients : e \in delivered[c]}

(* Where an event is, or how it was lost. *)
Places(e) ==
  {<<"update", c>> : c \in {d \in {mClient} : e \in mBatch}}
  \cup {<<IF life[c] = "destroyed" THEN "discarded" ELSE "pending", c>> : c \in Pending(e)}
  \cup {<<"elist", t>> : t \in InHand(e)}
  \cup {<<"delivered", c>> : c \in Given(e)}
  \cup {<<"dropped", d>> : d \in {g \in {NoClient} : e \in dropped}}
  \cup {<<"missed", d>> : d \in {g \in {NoClient} : e \in missed}}

(* No event is in two places, converted twice or gone without a trace.     *)
(* Before a fillEvents has taken it, it is with the client it was sent to. *)
(* It is lost in three ways only: its conversion failed, closeNative       *)
(* destroyed it with its client (pygdi_event.c:314), or its client was     *)
(* destroyed before the delivery thread found it.  So an open client loses *)
(* an event only to a failed conversion, also when the slot is closed      *)
(* between the two locks of fillEvents (pygdi_event.c:651).                *)
EventsAccounted ==
  \A c \in Clients : \A e \in sent[c] : \E p \in Places(e) :
    /\ Places(e) = {p}
    /\ p[1] \in {"update", "pending", "discarded"} => p[2] = c
    /\ p[1] \in {"discarded", "missed"} => life[c] = "destroyed"

(* The delivery thread's scan, which locks one slot after the other while  *)
(* slots are opened and closed, misses a client only if it is destroyed.   *)
MissedMeansDestroyed ==
  \A c \in Clients : sent[c] \cap missed # {} => life[c] = "destroyed"

(* A caller is given another client's events only after its own client was *)
(* destroyed and the slot taken again.                                     *)
ForeignEventsMeanDestroyed ==
  \A c \in Clients : ~(delivered[c] \subseteq sent[c]) => life[c] = "destroyed"

(* Where a native holds the global mutex. *)
GlobalPcs == {"init_scan", "init_store", "init_unlock", "close_elem", "close_unlock"}

(* No native returns, on whatever path, with the global mutex held: its    *)
(* holder is inside initNative or closeNative.                             *)
GlobalMutexHeldInside ==
  \A t \in Threads : sge_evc_mutex = t => pc[t] \in GlobalPcs

(* A native waits in pthread_mutex_lock for sge_evc_mutex. *)
WantsGlobal(t) == pc[t] \in {"init_lock", "close"}

(* For the mutex of slot i: in lockEVC, before initNative's store, or      *)
(* before pthread_cond_wait returns.                                       *)
WantsSlot(t, i) == pc[t] \in LockPcs \cup {"init_store", "fill_woken"} /\ idx[t] = i

WaitsFor(t, u) ==
  \/ WantsGlobal(t) /\ sge_evc_mutex = u
  \/ \E i \in Slots : WantsSlot(t, i) /\ elem_mutex[i] = u

(* No deadlock of the two levels of mutexes: among any threads there is    *)
(* one that waits for none of them, although closeNative waits for a slot  *)
(* with sge_evc_mutex held (pygdi_event.c:293-295) and ec_get, which may   *)
(* take long, is called with the slot's mutex held (182).                  *)
NoCircularWait ==
  \A S \in SUBSET Threads : S # {} => \E t \in S : \A u \in S : ~WaitsFor(t, u)

(* No use after free: no step of any thread changes a destroyed client.    *)
DestroyedUntouched ==
  [][\A c \in Clients : life[c] = "destroyed" =>
       /\ life'[c] = "destroyed"
       /\ pending'[c] = pending[c]
       /\ \A S \in {<<exiting, exiting'>>, <<unacked, unacked'>>,
                     <<uncommitted, uncommitted'>>} : c \in S[1] <=> c \in S[2]]_vars

(* The message of lockEVC (pygdi_event.c:132): a native called for an      *)
(* event client that is closed is refused.                                 *)
ClosedIsRefused ==
  [][\A t \in Threads :
       pc[t] \in LockPcs /\ pc'[t] # pc[t] /\ life[target[t]] = "destroyed"
         => outcome'[t] = "closed"]_vars

(* How far ClosedIsRefused goes: a native called for a closed event client *)
(* is refused as closed unless its slot has been taken again, so an empty  *)
(* slot never serves anyone.                                               *)
RefusedUnlessReused ==
  [][\A t \in Threads :
       pc[t] \in LockPcs /\ pc'[t] # pc[t] /\ life[target[t]] = "destroyed"
         => outcome'[t] = "closed" \/ sge_evc[idx[t]] \in Clients \ {target[t]}]_vars

-----------------------------------------------------------------------------
(* The inductive invariant behind the properties, for Spec.                *)

(* The places of the natives that use an index they were called with. *)
IndexPcs == LockPcs \cup FillPcs \cup {"close"}

(* initEVCArray is done, and nobody is in it. *)
ArrayReady ==
  /\ is_evc_array_initialized
  /\ \A t \in Threads : pc[t] \notin {"init_mark", "init_wipe"}

(* Who is where a mutex is needed holds it. *)
MutexesHeld ==
  /\ \A t \in Threads : pc[t] \in GlobalPcs => sge_evc_mutex = t
  /\ \A t \in Threads : pc[t] = "fill_get" =>
       idx[t] \in Slots /\ elem_mutex[idx[t]] = t /\ sge_evc[idx[t]] \in Clients

(* A client being created belongs to one initNative, and has a slot only   *)
(* once the scan has stored it there.                                      *)
InitCalls ==
  /\ \A t \in Threads : pc[t] \in InitPcs =>
       target[t] \in Clients /\ life[target[t]] = "created"
  /\ \A t, u \in Threads :
       pc[t] \in InitPcs /\ pc[u] \in InitPcs /\ target[t] = target[u] => t = u
  /\ \A t \in Threads : pc[t] \in {"init_check", "init_lock", "init_scan"} =>
       idx[t] = NoIndex
  /\ \A t \in Threads : pc[t] = "init_store" =>
       idx[t] \in Slots /\ sge_evc[idx[t]] = NoClient
  /\ \A t \in Threads : pc[t] = "init_unlock" /\ idx[t] \in Slots =>
       sge_evc[idx[t]] = target[t]

(* The other natives run for an object that has its index. *)
IndexCalls ==
  /\ \A t \in Threads : pc[t] \in IndexPcs =>
       /\ target[t] \in Clients
       /\ idx[t] = handle[target[t]]
       /\ life[target[t]] \notin {"unborn", "created"}
  /\ \A t \in Threads : pc[t] \in {"fill_cond", "fill_woken"} => idx[t] \in Slots

(* An index is what initNative returned with a slot. *)
HandlesGiven ==
  \A c \in Clients : life[c] \notin {"open", "destroyed"} => handle[c] = NoIndex

IInv ==
  /\ TypeOK /\ ArrayReady /\ MutexesHeld /\ InitCalls /\ IndexCalls /\ HandlesGiven
  /\ OpenClientOwnsSlot /\ SlotsNotLeaked /\ RefusedMeansClosed
  /\ NoLostWakeup /\ WokenNotAtNull

(* Behind NoCircularWait: from one step to the next a slot's mutex is only *)
(* held in ec_get.                                                         *)
SlotHeldInGet ==
  \A i \in Slots : \A t \in Threads : elem_mutex[i] = t => pc[t] = "fill_get" /\ idx[t] = i

(* Behind MissedMeansDestroyed: a client the event master knows, and the   *)
(* one the scan looks for, is destroyed or in a slot the scan has not      *)
(* passed.                                                                 *)
Found(c, n) ==
  life[c] = "destroyed" \/ \E i \in Slots : i >= n /\ sge_evc[i] = c

ScanKnown ==
  /\ \A c \in registry : Found(c, 0)
  /\ mClient # NoClient => Found(mClient, mSlot)

(* Behind ForeignEventsMeanDestroyed: whose events are in an update, with  *)
(* a client and in a thread's hands.                                       *)
BatchKnown ==
  /\ mBatch # {} => mClient # NoClient /\ mBatch \subseteq sent[mClient]
  /\ \A c, d \in Clients : c # d => sent[c] \cap sent[d] = {}
  /\ \A c \in Clients : pending[c] \subseteq sent[c]
ElistKnown ==
  \A t \in Threads :
    /\ pc[t] # "fill_process" => elist[t] = {}
    /\ elist[t] # {} =>
         target[t] \in Clients
         /\ (life[target[t]] = "destroyed" \/ elist[t] \subseteq sent[target[t]])

(* Behind EventsAccounted: an event is somewhere when it is sent, and      *)
(* nowhere else.                                                           *)
Somewhere(e) ==
  \/ e \in mBatch \/ Pending(e) # {} \/ InHand(e) # {} \/ Given(e) # {}
  \/ e \in dropped \/ e \in missed
NowhereElse(e) ==
  /\ e \in mBatch => Pending(e) = {} /\ InHand(e) = {} /\ Given(e) = {} /\ e \notin dropped \cup missed
  /\ Pending(e) # {} => InHand(e) = {} /\ Given(e) = {} /\ e \notin dropped \cup missed
  /\ InHand(e) # {} => Given(e) = {} /\ e \notin dropped \cup missed
  /\ Given(e) # {} => e \notin dropped \cup missed
  /\ e \notin dropped \cap missed
  /\ \A c, d \in Pending(e) : c = d
  /\ \A t, u \in InHand(e) : t = u
  /\ \A c, d \in Given(e) : c = d
Accounted ==
  \A e \in Events :
    NowhereElse(e) /\ (Somewhere(e) <=> \E c \in Clients : e \in sent[c])

EventIInv ==
  /\ ScanKnown /\ BatchKnown /\ ElistKnown /\ Accounted
  /\ MissedMeansDestroyed /\ ForeignEventsMeanDestroyed

-----------------------------------------------------------------------------
(* Liveness. *)

Waiting(t) == pc[t] \in {"fill_wait", "fill_cond", "fill_woken"} /\ ValidIndex(t)
(* The conditions on which waitEVC's loop ends. *)
ShouldReturn(i) ==
  \/ state[i] # "RUNNING"
  \/ sge_evc[i] \in exiting
  \/ sge_evc[i] \in Clients /\ Triggered(sge_evc[i])

(* A thread in waitEVC whose slot is interrupted, closed, exiting or has   *)
(* events returns, or another thread that waits on the slot did first, or  *)
(* an ec_get outside qmaster has the slot's mutex, which is not handed out *)
(* in turn.                                                                *)
WaiterReleased ==
  \A t \in Threads : \A i \in Slots :
    (Waiting(t) /\ idx[t] = i /\ ShouldReturn(i))
      ~> (~Waiting(t) \/ ~ShouldReturn(i) \/ elem_mutex[i] # NoThread)

(* The mailboxes the table implements. *)
Mailbox == INSTANCE EventMailbox WITH
  Capacity <- MaxEvc,
  open <- {c \in Clients : \E i \in Slots : sge_evc[i] = c},
  gone <- {c \in Clients : life[c] = "destroyed"},
  refused <- {c \in Clients : life[c] = "refused"},
  box <- pending

(* Every step of the natives and of the delivery thread is a step of the   *)
(* mailboxes, or changes nothing of them.                                  *)
ImplementsMailbox == Mailbox!Spec
==============================================================================
